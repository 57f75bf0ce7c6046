SPECIFICATION Spec
CONSTANTS
    motd = motd
    MaxFd = 3
    Files = {motd, empty}
    Dirs = {usr}
    content <- MCContent
    room <- MCRoom
    IntLimit = 3
    Sizes = {0, 1, 2, 5}
    Seeks <- MCSeeks
    Offsets <- MCOffsets
    Newline = 10
    Error = Error
    Garbage = Garbage
    NULL = NULL
VIEW Memory
INVARIANTS
    LiveMarked
PROPERTIES
    ImplementsOpenFiles

------------------------------- MODULE OpenFiles -------------------------------
(***************************************************************************)
(* What the descriptor system calls of Nyaux promise a program: a table of *)
(* open files, each with a position of its own.  A descriptor that open    *)
(* returns was not open and starts at the beginning of the file; reads     *)
(* give consecutive pieces of it, as far as an int counts and the buffer   *)
(* fits the address space; seek and close touch one descriptor;            *)
(* errors, write and dup touch none.  Descriptor 0 also stands for the     *)
(* terminal, which answers a read with a newline.                          *)
(*                                                                         *)
(* FdTable.tla implements this specification (FdTableProofs.tla proves it).*)
(***************************************************************************)
EXTENDS Integers, Sequences

CONSTANTS
    Fds,        \* descriptors
    Files,      \* vnodes of files
    Dirs,       \* vnodes of directories
    content,    \* content[v]: the bytes of file v
    room,       \* room[v]: bytes from file v's data to the end of the address space
    IntLimit,   \* counts below it are answered as they are
    Sizes,      \* buffer sizes a program reads with
    Seeks,      \* offsets a program seeks by
    Newline,    \* the byte '\n'
    Error,      \* the result of a call that failed
    NULL

VARIABLES
    table,      \* table[fd]: [node, pos], or NULL
    got         \* the last call that returned: [call, fd, ret]

avars == <<table, got>>

\* At most n bytes of s from position pos on, counted from 0.
Piece(s, pos, n) ==
    SubSeq(s, pos + 1, IF pos + n > Len(s) THEN Len(s) ELSE pos + n)

AInit ==
    /\ table = [fd \in Fds |-> NULL]
    /\ got = [call |-> "none", fd |-> NULL, ret |-> <<>>]

Answer(call, fd, ret) == got' = [call |-> call, fd |-> fd, ret |-> ret]

AOpen(fd, v) ==
    /\ table[fd] = NULL
    /\ table' = [table EXCEPT ![fd] = [node |-> v, pos |-> 0]]
    /\ Answer("openat", fd, <<>>)

\* Reads whose answer says what was read.
Counted(file, n) ==
    /\ file.pos >= 0 /\ file.pos + n < room[file.node]
    /\ Len(Piece(content[file.node], file.pos, n)) < IntLimit

ARead(fd, n) ==
    LET file == table[fd]
        piece == Piece(content[file.node], file.pos, n)
    IN
    /\ file # NULL
    /\ file.node \in Files
    /\ Counted(file, n)
    /\ Answer("read", fd, piece)
    /\ table' = [table EXCEPT ![fd] = [node |-> file.node, pos |-> file.pos + Len(piece)]]

\* Other reads, and those before the start of the file: the answer may be
\* anything, and the position may move, of this descriptor alone.
AReadOdd(fd, n) ==
    LET file == table[fd] IN
    /\ file # NULL
    /\ file.node \in Files
    /\ ~Counted(file, n)
    /\ table'[fd] # NULL
    /\ table' = [table EXCEPT ![fd] = [node |-> file.node, pos |-> table'[fd].pos]]

AReadTerminal == Answer("read", 0, <<Newline>>) /\ UNCHANGED table

\* No file, a directory or an empty file.
AReadFails(fd) ==
    /\ \/ table[fd] = NULL
       \/ table[fd].node \in Dirs
       \/ content[table[fd].node] = <<>>
    /\ Answer("read", fd, Error)
    /\ UNCHANGED table

\* whence: 0 from the start, 1 from here, 2 from the end (a directory has no
\* length to speak of, nor has a file of more bytes than an int counts).
ASeek(fd, off, whence) ==
    LET file == table[fd]
        pos == table'[fd].pos
    IN
    /\ file # NULL
    /\ table'[fd] # NULL
    /\ table' = [table EXCEPT ![fd] = [node |-> file.node, pos |-> pos]]
    /\ whence = 0 => pos = off
    /\ whence = 1 => pos = file.pos + off
    /\ (/\ whence = 2 /\ file.node \in Files
        /\ Len(content[file.node]) < IntLimit /\ Len(content[file.node]) + off < IntLimit)
       => pos = Len(content[file.node]) + off
    /\ Answer("seek", fd, <<pos>>)

\* A seek on a closed descriptor answers anything and moves no open file.
ASeekClosed(fd) ==
    /\ table[fd] = NULL
    /\ got'.call = "seek"
    /\ UNCHANGED table

AClose(fd) ==
    /\ table' = [table EXCEPT ![fd] = NULL]
    /\ Answer("close", fd, <<>>)

\* Calls that touch no open file, and calls that fail.
AOther ==
    /\ \/ got'.call \in {"write", "dup"}
       \/ got'.call \in {"openat", "seek"} /\ got'.ret = Error
    /\ UNCHANGED table

ANext ==
    \/ \E fd \in Fds :
          \/ \E v \in Files \cup Dirs : AOpen(fd, v)
          \/ \E n \in Sizes : ARead(fd, n) \/ AReadOdd(fd, n)
          \/ \E off \in Seeks, whence \in 0..2 : ASeek(fd, off, whence)
          \/ AReadFails(fd) \/ ASeekClosed(fd) \/ AClose(fd)
    \/ AReadTerminal
    \/ AOther

ASpec == AInit /\ [][ANext]_avars
==============================================================================

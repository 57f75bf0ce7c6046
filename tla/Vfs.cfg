SPECIFICATION Spec
CONSTANTS
    Names = {"a", "b"}
    Contents = {"x"}
    MaxPath = 2
    MaxMembers = 4
INVARIANTS
    TreeIsArchive
    LinksFollowed

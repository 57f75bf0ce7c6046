------------------------------ MODULE MCFdTable ------------------------------
(* Instances of FdTable.tla for TLC. *)
EXTENDS FdTable

CONSTANT motd   \* the file with bytes

\* An int is one of -3 .. 2: a read of the whole file counts as -1, of three
\* bytes as -3.  The other files are empty.
MCContent == [f \in Files |-> IF f = motd THEN <<1, 2, 3, 4, 5>> ELSE <<>>]
MCRoom == [f \in Files |-> 9]

\* No action reads got, and action properties are checked on every step, to
\* a known state too: states that differ in got alone need no second visit.
Memory == <<bitmap, ptr, offset, halted>>

MCSeeks == {-1, 0, 2}
MCOffsets == -1 .. 5
==============================================================================

---------------------------- MODULE FdTableProofs ----------------------------
(***************************************************************************)
(* Proofs about FdTable.tla, for a table of any size (256 in the code),    *)
(* any files, buffers and offsets, and any limit of an int.                *)
(***************************************************************************)
EXTENDS FdTable, TLAPS
------------------------------------------------------------------------------
(* The invariant.                                                          *)

\* A freshly made process satisfies the invariant.
LEMMA InitInv == Init => FdInv
BY FdTableAssumption DEF Init, FdInv, TypeOK, LiveMarked, Fds

\* Descriptors 0 and 1 are in the table, and reserving them unmarks nothing.
LEMMA ReservedMarks ==
    ASSUME FdInv
    PROVE  /\ Reserved \in [Fds -> {0, 1}]
           /\ \A fd \in Fds : bitmap[fd] = 1 => Reserved[fd] = 1
<1>1. 0 \in Fds /\ 1 \in Fds
  BY FdTableAssumption DEF Fds
<1>2. bitmap \in [Fds -> {0, 1}]
  BY DEF FdInv, TypeOK
<1>3. QED
  BY <1>1, <1>2 DEF Reserved

\* However many bytes were copied, the end of a read preserves the invariant.
LEMMA EndsInv ==
    ASSUME FdInv, NEW fd \in Fds, NEW count, NEW bytes, ReadEnds(fd, count, bytes)
    PROVE  FdInv'
BY DEF FdInv, TypeOK, LiveMarked, ReadEnds, Return, Advance

\* Every system call preserves the invariant.
LEMMA NextInv == FdInv /\ [Next]_vars => FdInv'
<1> SUFFICES ASSUME FdInv, [Next]_vars PROVE FdInv'
  OBVIOUS
<1> USE DEF FdInv, TypeOK, LiveMarked
<1>1. CASE UNCHANGED vars
  BY <1>1 DEF vars
<1>2. CASE Halt
  BY <1>2 DEF Halt, vars
<1>3. CASE Call
  <2>1. ASSUME NEW how \in {"panic", "wild"}, Lost(how) PROVE FdInv'
    BY <2>1 DEF Lost
  <2>2. ASSUME UNCHANGED <<bitmap, ptr, offset, halted>> PROVE FdInv'
    BY <2>2
  <2>3. ASSUME NEW v \in Files \cup Dirs, syscall_openat(v) PROVE FdInv'
    <3>1. PICK fd \in Fds :
             /\ allocate_fd_from_bitmap(fd)
             /\ ptr' = [ptr EXCEPT ![fd] = v]
             /\ offset' = [offset EXCEPT ![fd] = 0]
             /\ UNCHANGED halted
      BY <2>3 DEF syscall_openat, Return
    <3>2. bitmap' = [Reserved EXCEPT ![fd] = 1]
      BY <3>1 DEF allocate_fd_from_bitmap
    <3>3. TypeOK'
      BY <3>1, <3>2, ReservedMarks, FdTableAssumption
    <3>4. LiveMarked'
      BY <3>1, <3>2, ReservedMarks
    <3>5. QED
      BY <3>3, <3>4
  <2>4. ASSUME NEW fd \in Fds, syscall_close(fd) PROVE FdInv'
    BY <2>4, FdTableAssumption DEF syscall_close, deallocate_fd_from_bitmap, Return
  <2>5. CASE OpenatNotFound
    BY <2>2, <2>5 DEF OpenatNotFound, Return
  <2>6. CASE OpenatFull \/ OpenatStub
    BY <2>1, <2>6 DEF OpenatFull, OpenatStub
  <2>7. CASE \E fd \in Fds : syscall_dup(fd) \/ SeekWrong(fd)
    BY <2>2, <2>7 DEF syscall_dup, SeekWrong, Return
  <2>8. CASE \E n \in Sizes : ReadStdin(n)
    BY <2>2, <2>8 DEF ReadStdin, Return
  <2>9. ASSUME NEW fd \in Fds, NEW n \in Sizes, syscall_read(fd, n) PROVE FdInv'
    BY <2>9, EndsInv DEF syscall_read
  <2>10. ASSUME NEW fd \in Fds, NEW n \in Sizes, ReadBefore(fd, n) PROVE FdInv'
    BY <2>1, <2>10, EndsInv DEF ReadBefore
  <2>11. ASSUME NEW fd \in Fds, NEW n \in Sizes, ReadFails(fd, n) \/ syscall_write(fd, n) PROVE FdInv'
    BY <2>2, <2>11 DEF ReadFails, syscall_write, Return
  <2>12. ASSUME NEW fd \in Fds, NEW off \in Seeks,
                SeekSet(fd, off) \/ SeekCur(fd, off) \/ SeekEnd(fd, off)
         PROVE FdInv'
    <3>1. ASSUME NEW to, SeekTo(fd, to) PROVE FdInv'
      BY <3>1 DEF SeekTo, Return
    <3>2. QED
      BY <2>1, <2>12, <3>1 DEF SeekSet, SeekCur, SeekEnd
  <2>13. QED
    BY <1>3, <2>3, <2>4, <2>5, <2>6, <2>7, <2>8, <2>9, <2>10, <2>11, <2>12 DEF Call
<1>4. QED
  BY <1>1, <1>2, <1>3 DEF Next

\* For every size of the table, every reachable state is typed and marks the
\* descriptors that are in use: no sequence of opens, closes (double ones
\* too), reads and seeks makes openat reuse a live descriptor.
THEOREM DescriptorsMarked == Spec => [](TypeOK /\ LiveMarked)
<1>1. Init => FdInv
  BY InitInv
<1>2. FdInv /\ [Next]_vars => FdInv'
  BY NextInv
<1>3. FdInv => TypeOK /\ LiveMarked
  BY DEF FdInv
<1>4. QED
  BY <1>1, <1>2, <1>3, PTL DEF Spec
------------------------------------------------------------------------------
(* The table of open files.                                                *)

\* Table is a function on the descriptors, in every state.
LEMMA TableShape ==
    ASSUME FdInv
    PROVE  \A fd \in Fds :
              /\ ptr[fd] = NULL => Table[fd] = NULL
              /\ ptr[fd] # NULL => /\ Table[fd] = [node |-> ptr[fd], pos |-> offset[fd]]
                                   /\ Table[fd] # NULL
                                   /\ Table[fd].node = ptr[fd]
                                   /\ Table[fd].pos = offset[fd]
<1> SUFFICES ASSUME NEW fd \in Fds, ptr[fd] # NULL
             PROVE  [node |-> ptr[fd], pos |-> offset[fd]] # NULL
  BY DEF Table
<1>1. ptr[fd] \in Files \cup Dirs /\ offset[fd] \in Int
  BY FdTableAssumption DEF FdInv, TypeOK
<1>2. QED
  BY <1>1, FdTableAssumption

\* A call that changes one descriptor changes one entry of Table.
LEMMA TableUpdate ==
    ASSUME FdInv, NEW fd \in Fds, NEW v, NEW pos,
           ptr' = [ptr EXCEPT ![fd] = v], offset' = [offset EXCEPT ![fd] = pos]
    PROVE  Table' = [Table EXCEPT ![fd] = IF v = NULL THEN NULL ELSE [node |-> v, pos |-> pos]]
BY DEF FdInv, TypeOK, Table

\* A call that moves an offset moves the position of an open file, or nothing.
LEMMA TableMove ==
    ASSUME FdInv, NEW fd \in Fds, NEW pos,
           ptr' = ptr, offset' = [offset EXCEPT ![fd] = pos]
    PROVE  /\ ptr[fd] # NULL => Table' = [Table EXCEPT ![fd] = [node |-> ptr[fd], pos |-> pos]]
           /\ ptr[fd] = NULL => Table' = Table
BY DEF FdInv, TypeOK, Table

\* A count that an int holds is answered as it is.
LEMMA AsIntExact ==
    ASSUME NEW count \in Int, -IntLimit <= count, count < IntLimit
    PROVE  AsInt(count) = count
<1>1. PICK limit \in Nat \ {0} : limit = IntLimit
  BY FdTableAssumption
<1>2. (count + limit) % (2 * limit) = count + limit
  BY <1>1
<1> QED
  BY <1>1, <1>2 DEF AsInt

\* What a read copies, and how much: the piece that it should, unless the
\* buffer goes round the end of the address space.
LEMMA PieceRead ==
    ASSUME NEW v \in Files, NEW n \in Nat, NEW off \in Nat
    PROVE  /\ Len(vnode_rdwr(v, n, off)) \in Nat
           /\ off + n < room[v] => vnode_rdwr(v, n, off) = Open!Piece(content[v], off, n)
<1>1. content[v] \in Seq(Int) /\ room[v] \in Nat /\ Len(content[v]) \in Nat
  BY FdTableAssumption
<1>2. End(v, n, off) \in Nat
  BY <1>1 DEF End
<1>3. Len(vnode_rdwr(v, n, off)) \in Nat
  BY <1>1, <1>2 DEF vnode_rdwr
<1>4. ASSUME off + n < room[v]
      PROVE  End(v, n, off) = IF off + n > Len(content[v]) THEN Len(content[v]) ELSE off + n
  BY <1>1, <1>4 DEF End
<1> QED
  BY <1>3, <1>4 DEF vnode_rdwr, Open!Piece

\* A read that the table of open files makes no promise about moves its own
\* descriptor or none.
LEMMA OddRead ==
    ASSUME FdInv, NEW fd \in Fds, NEW n \in Sizes, NEW count, NEW bytes,
           ReadEnds(fd, count, bytes), ptr[fd] \in Files,
           ~Open!Counted(Table[fd], n)
    PROVE  Open!AReadOdd(fd, n)
<1>1. ptr[fd] # NULL
  BY FdTableAssumption
<1>2. PICK pos \in Int : ptr' = ptr /\ offset' = [offset EXCEPT ![fd] = pos]
  <2>1. offset[fd] \in Int /\ offset = [offset EXCEPT ![fd] = offset[fd]]
    BY FdTableAssumption DEF FdInv, TypeOK
  <2> QED
    BY <2>1, FdTableAssumption DEF ReadEnds, Advance
<1>3. Table' = [Table EXCEPT ![fd] = [node |-> ptr[fd], pos |-> pos]]
  BY <1>1, <1>2, TableMove
<1>4. Table'[fd] = [node |-> ptr[fd], pos |-> pos]
  BY <1>3 DEF Table
<1>5. Table'[fd] # NULL /\ Table'[fd].pos = pos
  BY <1>2, <1>4, FdTableAssumption
<1> QED
  BY <1>1, <1>3, <1>5, TableShape DEF Open!AReadOdd

\* A process starts with no open file.
LEMMA InitOpen == Init => Open!AInit
BY DEF Init, Open!AInit, Table

\* Every system call is a step of the table of open files, or none.
LEMMA NextOpen == FdInv /\ FdInv' /\ [Next]_vars => [Open!ANext]_(Open!avars)
<1> SUFFICES ASSUME FdInv, FdInv', [Next]_vars
             PROVE  Open!ANext \/ UNCHANGED <<Table, got>>
  BY DEF Open!avars
<1>1. ASSUME UNCHANGED <<ptr, offset>> PROVE Table' = Table
  BY <1>1 DEF Table
<1>2. CASE UNCHANGED vars
  BY <1>1, <1>2 DEF vars
<1>3. CASE Halt
  BY <1>1, <1>3 DEF Halt, vars
<1>4. CASE Call
  <2>1. ASSUME NEW how, Lost(how) PROVE UNCHANGED <<Table, got>>
    BY <1>1, <2>1 DEF Lost
  <2>2. ASSUME NEW v \in Files \cup Dirs, syscall_openat(v) PROVE Open!ANext
    <3>1. PICK fd \in Fds :
             /\ allocate_fd_from_bitmap(fd)
             /\ ptr' = [ptr EXCEPT ![fd] = v]
             /\ offset' = [offset EXCEPT ![fd] = 0]
             /\ got' = [call |-> "openat", fd |-> fd, ret |-> <<>>]
      BY <2>2 DEF syscall_openat, Return
    <3>2. Reserved[fd] = 0
      BY <3>1 DEF allocate_fd_from_bitmap, FreeFds
    <3>3. ptr[fd] = NULL
      BY <3>2, ReservedMarks DEF FdInv, LiveMarked
    <3>4. v # NULL
      BY FdTableAssumption
    <3>5. Open!AOpen(fd, v)
      BY <3>1, <3>3, <3>4, TableShape, TableUpdate DEF Open!AOpen, Open!Answer
    <3>6. QED
      BY <3>5 DEF Open!ANext
  <2>3. ASSUME NEW fd \in Fds, syscall_close(fd) PROVE Open!ANext
    <3>1. Table' = [Table EXCEPT ![fd] = NULL]
      BY <2>3, TableUpdate DEF syscall_close
    <3>2. Open!AClose(fd)
      BY <2>3, <3>1 DEF syscall_close, Return, Open!AClose, Open!Answer
    <3>3. QED
      BY <3>2 DEF Open!ANext
  <2>4. ASSUME UNCHANGED <<ptr, offset>>,
               \/ got'.call \in {"write", "dup"}
               \/ got'.call \in {"openat", "seek"} /\ got'.ret = Error
        PROVE  Open!ANext
    BY <1>1, <2>4 DEF Open!ANext, Open!AOther
  <2>5. CASE OpenatNotFound
    BY <2>4, <2>5 DEF OpenatNotFound, Return
  <2>6. CASE OpenatFull \/ OpenatStub
    BY <2>1, <2>6 DEF OpenatFull, OpenatStub
  <2>7. CASE \E fd \in Fds : syscall_dup(fd) \/ SeekWrong(fd)
    BY <2>4, <2>7 DEF syscall_dup, SeekWrong, Return
  <2>8. CASE \E n \in Sizes : ReadStdin(n)
    BY <1>1, <2>8 DEF ReadStdin, Return, Open!ANext, Open!AReadTerminal, Open!Answer
  <2>9. ASSUME NEW fd \in Fds, NEW n \in Sizes, syscall_read(fd, n) PROVE Open!ANext
    <3> DEFINE piece == vnode_rdwr(ptr[fd], n, offset[fd])
    <3>1. /\ ptr[fd] \in Files /\ ptr[fd] # NULL /\ offset[fd] \in Nat /\ n \in Nat
          /\ ReadEnds(fd, Len(piece), piece)
      BY <2>9, FdTableAssumption DEF syscall_read, Readable, FdInv, TypeOK
    <3>2. CASE ~Open!Counted(Table[fd], n)
      BY <3>1, <3>2, OddRead DEF Open!ANext
    <3>3. CASE Open!Counted(Table[fd], n)
      <4>1. Table[fd].node = ptr[fd] /\ Table[fd].pos = offset[fd]
        BY <3>1, TableShape
      <4>2. piece = Open!Piece(content[ptr[fd]], offset[fd], n) /\ Len(piece) \in Nat
        BY <3>1, <3>3, <4>1, PieceRead DEF Open!Counted
      <4>3. Len(piece) < IntLimit
        BY <3>3, <4>1, <4>2 DEF Open!Counted
      <4> HIDE DEF piece
      <4>4. AsInt(Len(piece)) = Len(piece) /\ Len(piece) # -1
        BY <4>2, <4>3, AsIntExact, FdTableAssumption
      <4>5. /\ ptr' = ptr
            /\ offset' = [offset EXCEPT ![fd] = offset[fd] + Len(piece)]
            /\ got' = [call |-> "read", fd |-> fd, ret |-> piece]
        BY <3>1, <4>4 DEF ReadEnds, Advance, Return
      <4>6. Table' = [Table EXCEPT ![fd] = [node |-> ptr[fd], pos |-> offset[fd] + Len(piece)]]
        BY <3>1, <4>5, TableMove
      <4>7. Open!ARead(fd, n)
        BY <3>1, <3>3, <4>1, <4>2, <4>5, <4>6, TableShape DEF Open!ARead, Open!Answer
      <4> QED
        BY <4>7 DEF Open!ANext
    <3> QED
      BY <3>2, <3>3
  <2>10. ASSUME NEW fd \in Fds, NEW n \in Sizes, ReadBefore(fd, n)
         PROVE Open!ANext \/ UNCHANGED <<Table, got>>
    <3>1. CASE Lost("panic")
      BY <2>1, <3>1
    <3>2. CASE \E count, bytes : ReadEnds(fd, count, bytes)
      <4>1. PICK count, bytes : ReadEnds(fd, count, bytes)
        BY <3>2
      <4>2. ptr[fd] \in Files /\ ptr[fd] # NULL /\ offset[fd] < 0 /\ offset[fd] \in Int
        BY <2>10, FdTableAssumption DEF ReadBefore, Readable, FdInv, TypeOK
      <4>3. ~Open!Counted(Table[fd], n)
        <5>1. Table[fd].pos = offset[fd]
          BY <4>2, TableShape
        <5>2. ~(offset[fd] >= 0)
          BY <4>2
        <5> QED
          BY <5>1, <5>2 DEF Open!Counted
      <4> QED
        BY <4>1, <4>2, <4>3, OddRead DEF Open!ANext
    <3> QED
      BY <2>10, <3>1, <3>2 DEF ReadBefore
  <2>11. ASSUME NEW fd \in Fds, NEW n \in Sizes, ReadFails(fd, n) PROVE Open!ANext
    <3>1. \/ ptr[fd] = NULL
          \/ ptr[fd] # NULL /\ ptr[fd] \in Dirs
          \/ ptr[fd] # NULL /\ content[ptr[fd]] = <<>>
      BY <2>11 DEF ReadFails, Readable, FdInv, TypeOK
    <3>2. Open!AReadFails(fd)
      BY <1>1, <2>11, <3>1, TableShape DEF ReadFails, Return, Open!AReadFails, Open!Answer
    <3>3. QED
      BY <3>2 DEF Open!ANext
  <2>12. ASSUME NEW fd \in Fds, NEW n \in Sizes, syscall_write(fd, n) PROVE Open!ANext
    BY <2>4, <2>12 DEF syscall_write, Return
  <2>13. ASSUME NEW fd \in Fds, NEW off \in Seeks, NEW whence \in 0..2, NEW to, SeekTo(fd, to),
                ptr[fd] # NULL =>
                   /\ whence = 0 => to = off
                   /\ whence = 1 => to = offset[fd] + off
                   /\ (/\ whence = 2 /\ ptr[fd] \in Files /\ Len(content[ptr[fd]]) < IntLimit
                       /\ Len(content[ptr[fd]]) + off < IntLimit)
                      => to = Len(content[ptr[fd]]) + off
         PROVE  Open!ANext
    <3>1. /\ to \in Int /\ ptr' = ptr
          /\ offset' = [offset EXCEPT ![fd] = to]
          /\ got' = [call |-> "seek", fd |-> fd, ret |-> <<to>>]
      BY <2>13, FdTableAssumption DEF SeekTo, Return
    <3>2. CASE ptr[fd] = NULL
      <4>1. Open!ASeekClosed(fd)
        BY <3>1, <3>2, TableMove, TableShape DEF Open!ASeekClosed
      <4>2. QED
        BY <4>1 DEF Open!ANext
    <3>3. CASE ptr[fd] # NULL
      <4>1. Table' = [Table EXCEPT ![fd] = [node |-> ptr[fd], pos |-> to]]
        BY <3>1, <3>3, TableMove
      <4>2. Table'[fd] = [node |-> ptr[fd], pos |-> to]
        BY <4>1 DEF Table
      <4>3. ptr[fd] \in Files \cup Dirs
        BY <3>3 DEF FdInv, TypeOK
      <4>4. Table'[fd] # NULL /\ Table'[fd].pos = to
        BY <3>1, <4>2, <4>3, FdTableAssumption
      <4>5. Open!ASeek(fd, off, whence)
        BY <2>13, <3>1, <3>3, <4>1, <4>4, TableShape DEF Open!ASeek, Open!Answer
      <4>6. QED
        BY <4>5 DEF Open!ANext
    <3>4. QED
      BY <3>2, <3>3
  <2>14. ASSUME NEW fd \in Fds, NEW off \in Seeks,
                SeekSet(fd, off) \/ SeekCur(fd, off) \/ SeekEnd(fd, off)
         PROVE  Open!ANext \/ UNCHANGED <<Table, got>>
    <3>1. CASE SeekSet(fd, off)
      BY <2>13, <3>1 DEF SeekSet
    <3>2. CASE SeekCur(fd, off)
      BY <2>13, <3>2 DEF SeekCur
    <3>3. CASE SeekEnd(fd, off)
      <4>1. ASSUME NEW size \in vnode_filesz(ptr[fd]), ptr[fd] # NULL,
                   NEW to \in Sums(AsInt(size), off), SeekTo(fd, to)
            PROVE  Open!ANext
        <5>1. ASSUME ptr[fd] \in Files, Len(content[ptr[fd]]) < IntLimit,
                     Len(content[ptr[fd]]) + off < IntLimit
              PROVE  to = Len(content[ptr[fd]]) + off
          <6>1. PICK len \in Nat : len = Len(content[ptr[fd]]) /\ size = len
            BY <4>1, <5>1, FdTableAssumption DEF vnode_filesz
          <6>2. PICK limit \in Nat \ {0} : limit = IntLimit
            BY FdTableAssumption
          <6>3. off \in Int /\ -limit <= off
            BY <6>2, FdTableAssumption
          <6>4. AsInt(size) = len
            BY <5>1, <6>1, <6>2, AsIntExact
          <6>5. AsInt(len + off) = len + off
            BY <5>1, <6>1, <6>2, <6>3, AsIntExact
          <6> QED
            BY <6>1, <6>4, <6>5 DEF Sums
        <5>2. QED
          BY <2>13, <4>1, <5>1
      <4>2. CASE ptr[fd] = NULL /\ Lost("panic")
        BY <2>1, <4>2
      <4>3. QED
        BY <3>3, <4>1, <4>2 DEF SeekEnd
    <3>4. QED
      BY <2>14, <3>1, <3>2, <3>3
  <2>15. QED
    BY <1>4, <2>2, <2>3, <2>5, <2>6, <2>7, <2>8, <2>9, <2>10, <2>11, <2>12, <2>14 DEF Call
<1>5. QED
  BY <1>2, <1>3, <1>4 DEF Next

\* The descriptor system calls implement the table of open files, for a table
\* of any size: openat returns a closed descriptor at position 0; reads give
\* consecutive pieces of the file, as long as an int counts them and the buffer
\* does not go round the address space; and no call, longer reads and seeks in
\* larger files included, disturbs another descriptor.
THEOREM Refinement == Spec => ImplementsOpenFiles
<1>1. Init => Open!AInit
  BY InitOpen
<1>2. FdInv /\ FdInv' /\ [Next]_vars => [Open!ANext]_(Open!avars)
  BY NextOpen
<1>3. Init => FdInv
  BY InitInv
<1>4. FdInv /\ [Next]_vars => FdInv'
  BY NextInv
<1>5. QED
  BY <1>1, <1>2, <1>3, <1>4, PTL DEF Spec, ImplementsOpenFiles, Open!ASpec
==============================================================================

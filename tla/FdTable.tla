------------------------------- MODULE FdTable -------------------------------
(***************************************************************************)
(* The file descriptors of a process of Nyaux (sched/sched.h) and the      *)
(* system calls on them (syscall/syscall.c), with the bitmap of            *)
(* fs/vfs.c and the reads of fs/tmpfs.c.                                   *)
(*                                                                         *)
(* A program has one thread, and a system call runs to its end with        *)
(* interrupts off (SyscallsNotPreempted of Sched.tla), so every call is    *)
(* one step.  vnode_path_lookup is Vfs.tla's; here it finds any vnode or   *)
(* none.  Descriptor numbers are within the table, as a C library that     *)
(* only passes on what openat returned keeps them.                         *)
(*                                                                         *)
(* An offset is a uint64_t set from an int: the values above 2^63 that a   *)
(* negative seek leaves are written as negative integers.                  *)
(***************************************************************************)
EXTENDS Integers, Sequences

CONSTANTS
    MaxFd,      \* descriptors of a process, 256 in the code
    Files,      \* vnodes of type NYAVNODE_FILE
    Dirs,       \* vnodes of type NYAVNODE_DIR
    content,    \* content[v]: the bytes of file v
    room,       \* room[v]: bytes from file v's data to the end of the address space
    IntLimit,   \* an int is below it: 2^31
    Sizes,      \* buffer sizes a program reads with
    Seeks,      \* offsets a program seeks by
    Offsets,    \* bound: the offsets a descriptor may reach
    Newline,    \* the byte '\n'
    Error,      \* rdx = -1
    Garbage,    \* bytes from before a file's data, or a count they do not have
    NULL

Fds == 0 .. MaxFd - 1

ASSUME FdTableAssumption ==
    /\ MaxFd \in Nat /\ MaxFd >= 2
    /\ Sizes \subseteq Nat
    /\ IntLimit \in Nat \ {0}
    /\ Seeks \subseteq -IntLimit .. IntLimit - 1
    /\ Offsets \subseteq Int /\ 0 \in Offsets
    /\ Files \cap Dirs = {}
    /\ NULL \notin Files \cup Dirs
    /\ NULL \notin [node: Files \cup Dirs, pos: Int]
    /\ content \in [Files -> Seq(Int)]
    /\ room \in [Files -> Nat]
    /\ \A v \in Files : Len(content[v]) < room[v]

VARIABLES
    bitmap,     \* descriptor_bitmap
    ptr,        \* Descriptors[fd].ptr
    offset,     \* Descriptors[fd].offset
    halted,     \* "no", "panic", or "wild": nothing is known any more
    got         \* the last call that returned: [call, fd, ret]

vars == <<bitmap, ptr, offset, halted, got>>

\* make_process_info: 4416 bytes, so kmalloc takes them from zeroed pages.
Init ==
    /\ bitmap = [fd \in Fds |-> 0]
    /\ ptr = [fd \in Fds |-> NULL]
    /\ offset = [fd \in Fds |-> 0]
    /\ halted = "no"
    /\ got = [call |-> "none", fd |-> NULL, ret |-> <<>>]

\* rax and rdx as the handler leaves them in the frame.
Return(call, fd, ret) ==
    /\ got' = [call |-> call, fd |-> fd, ret |-> ret]
    /\ UNCHANGED halted

\* The handler does not come back: kpanic, a page fault, or a wild store.
Lost(how) ==
    /\ halted' = how
    /\ UNCHANGED <<bitmap, ptr, offset, got>>
------------------------------------------------------------------------------
(* The bitmap.                                                             *)

\* Descriptors 0 and 1 are taken out when neither is marked.
Reserved ==
    IF bitmap[0] = 0 /\ bitmap[1] = 0
    THEN [bitmap EXCEPT ![0] = 1, ![1] = 1]
    ELSE bitmap

FreeFds == {fd \in Fds : Reserved[fd] = 0}

\* Mutant: the descriptor is returned without being marked.
AllocateUnmarked(fd) ==
    /\ fd \in FreeFds
    /\ \A other \in FreeFds : fd <= other
    /\ bitmap' = Reserved

allocate_fd_from_bitmap(fd) ==
    /\ fd \in FreeFds
    /\ \A other \in FreeFds : fd <= other
    /\ bitmap' = [Reserved EXCEPT ![fd] = 1]

deallocate_fd_from_bitmap(fd) ==
    bitmap' = IF bitmap[fd] = 1 THEN [bitmap EXCEPT ![fd] = 0] ELSE bitmap
------------------------------------------------------------------------------
(* openat, close, and the calls that touch no descriptor.                  *)

\* Mutant: a descriptor keeps the offset its last user left.
OpenatKeepsOffset(v) ==
    \E fd \in Fds :
        /\ allocate_fd_from_bitmap(fd)
        /\ ptr' = [ptr EXCEPT ![fd] = v]
        /\ UNCHANGED offset
        /\ Return("openat", fd, <<>>)

syscall_openat(v) ==
    \E fd \in Fds :
        /\ allocate_fd_from_bitmap(fd)
        /\ ptr' = [ptr EXCEPT ![fd] = v]
        /\ offset' = [offset EXCEPT ![fd] = 0]
        /\ Return("openat", fd, <<>>)

OpenatNotFound ==
    /\ Return("openat", NULL, Error)
    /\ UNCHANGED <<bitmap, ptr, offset>>

\* allocate_fd_from_bitmap runs off its end and returns no value; the vnode
\* is stored at whatever index the caller finds.
OpenatFull == FreeFds = {} /\ Lost("wild")

\* Any dirfd but AT_FDCWD is a STUB panic.
OpenatStub == Lost("panic")

\* Mutant: the vnode stays behind a closed descriptor.
CloseKeepsPtr(fd) ==
    /\ deallocate_fd_from_bitmap(fd)
    /\ offset' = [offset EXCEPT ![fd] = 0]
    /\ Return("close", fd, <<>>)
    /\ UNCHANGED ptr

syscall_close(fd) ==
    /\ deallocate_fd_from_bitmap(fd)
    /\ ptr' = [ptr EXCEPT ![fd] = NULL]
    /\ offset' = [offset EXCEPT ![fd] = 0]
    /\ Return("close", fd, <<>>)

\* Descriptors 1 and 2 are the terminal, whatever openat put there.
syscall_write(fd, n) ==
    /\ Return("write", fd, IF fd \in {1, 2} THEN <<n>> ELSE Error)
    /\ UNCHANGED <<bitmap, ptr, offset>>

syscall_dup(fd) ==
    /\ Return("dup", fd, Error)
    /\ UNCHANGED <<bitmap, ptr, offset>>
------------------------------------------------------------------------------
(* read.                                                                   *)

\* A number in an int.
AsInt(n) == ((n + IntLimit) % (2 * IntLimit)) - IntLimit

\* Where vnode_rdwr ends: clipped to the file; a buffer that goes round the end
\* of the address space ends before its start, which is set back to it.
End(v, n, off) ==
    IF off + n >= room[v] THEN off
    ELSE IF off + n > Len(content[v]) THEN Len(content[v]) ELSE off + n

\* vnode_rdwr's bytes for an offset that is not negative: start is clipped to
\* end.
vnode_rdwr(v, n, off) == SubSeq(content[v], off + 1, End(v, n, off))

Readable(fd) == ptr[fd] \in Files /\ content[ptr[fd]] # <<>>

\* Descriptor 0 answers a buffer of more than one byte with a newline.
Stdin(fd, n) == fd = 0 /\ n > 1

ReadStdin(n) ==
    /\ Stdin(0, n)
    /\ Return("read", 0, <<Newline>>)
    /\ UNCHANGED <<bitmap, ptr, offset>>

Advance(fd, count) ==
    /\ offset[fd] + count \in Offsets
    /\ offset' = [offset EXCEPT ![fd] = offset[fd] + count]
    /\ UNCHANGED <<bitmap, ptr>>

\* The end of read when count bytes were copied: the handler has the count in
\* an int, and takes -1 for a failure.
ReadEnds(fd, count, bytes) ==
    \/ /\ AsInt(count) # -1
       /\ Return("read", fd, IF AsInt(count) = count THEN bytes ELSE Garbage)
       /\ Advance(fd, AsInt(count))
    \/ /\ AsInt(count) = -1
       /\ Return("read", fd, Error)
       /\ UNCHANGED <<bitmap, ptr, offset>>

\* Mutant: the offset moves by the size of the buffer, not by what was read.
ReadAdvancesByBuffer(fd, n) ==
    /\ ~Stdin(fd, n)
    /\ Readable(fd)
    /\ offset[fd] >= 0
    /\ Return("read", fd, vnode_rdwr(ptr[fd], n, offset[fd]))
    /\ Advance(fd, n)

syscall_read(fd, n) ==
    /\ ~Stdin(fd, n)
    /\ Readable(fd)
    /\ offset[fd] >= 0
    /\ LET bytes == vnode_rdwr(ptr[fd], n, offset[fd]) IN ReadEnds(fd, Len(bytes), bytes)

\* start lies before the file's data: the bytes between are copied too, up
\* to the end of the file, or the page below is not mapped.
ReadBefore(fd, n) ==
    /\ ~Stdin(fd, n)
    /\ Readable(fd)
    /\ offset[fd] < 0
    /\ \/ ReadEnds(fd, End(ptr[fd], n, offset[fd]) - offset[fd], Garbage)
       \/ Lost("panic")

ReadFails(fd, n) ==
    /\ ~Stdin(fd, n)
    /\ ~Readable(fd)
    /\ Return("read", fd, Error)
    /\ UNCHANGED <<bitmap, ptr, offset>>
------------------------------------------------------------------------------
(* seek: no check that the descriptor is open.                             *)

SeekTo(fd, to) ==
    /\ to \in Offsets
    /\ offset' = [offset EXCEPT ![fd] = to]
    /\ Return("seek", fd, <<to>>)
    /\ UNCHANGED <<bitmap, ptr>>

SeekSet(fd, off) == SeekTo(fd, off)

SeekCur(fd, off) == SeekTo(fd, offset[fd] + off)

\* The sizes vnode_filesz may return.  A directory's data is a tmpfs_dir,
\* shorter than the tmpfs_node it is read as: any size.
vnode_filesz(v) == IF v \in Files THEN {Len(content[v])} ELSE -IntLimit .. IntLimit - 1

\* A sum of ints that one cannot hold is undefined: in this build it wraps in
\* 32 bits, or is made in 64.
Sums(x, y) == {AsInt(x + y), x + y}

\* A closed descriptor has no vnode: NULL is dereferenced.
SeekEnd(fd, off) ==
    \/ /\ ptr[fd] # NULL
       /\ \E size \in vnode_filesz(ptr[fd]) :
             \E to \in Sums(AsInt(size), off) : SeekTo(fd, to)
    \/ ptr[fd] = NULL /\ Lost("panic")

SeekWrong(fd) ==
    /\ Return("seek", fd, Error)
    /\ UNCHANGED <<bitmap, ptr, offset>>
------------------------------------------------------------------------------
Call ==
    /\ halted = "no"
    /\ \/ \E v \in Files \cup Dirs : syscall_openat(v)
       \/ OpenatNotFound
       \/ OpenatFull
       \/ OpenatStub
       \/ \E fd \in Fds : syscall_close(fd) \/ syscall_dup(fd) \/ SeekWrong(fd)
       \/ \E n \in Sizes : ReadStdin(n)
       \/ \E fd \in Fds, n \in Sizes :
             \/ syscall_read(fd, n) \/ ReadBefore(fd, n) \/ ReadFails(fd, n)
             \/ syscall_write(fd, n)
       \/ \E fd \in Fds, off \in Seeks :
             SeekSet(fd, off) \/ SeekCur(fd, off) \/ SeekEnd(fd, off)

\* kpanic halts the processor; a wild store ends what can be said.
Halt == halted # "no" /\ UNCHANGED vars

Next == Call \/ Halt

Spec == Init /\ [][Next]_vars
------------------------------------------------------------------------------
(* Properties.                                                             *)

\* Every variable has its type.
TypeOK ==
    /\ bitmap \in [Fds -> {0, 1}]
    /\ ptr \in [Fds -> Files \cup Dirs \cup {NULL}]
    /\ offset \in [Fds -> Offsets]
    /\ halted \in {"no", "panic", "wild"}

\* The bitmap openat searches and the table read and seek use are two arrays
\* that no call compares: a descriptor with a file behind it is marked, so
\* openat never hands out a descriptor that is in use, whatever was closed,
\* closed twice or sought while closed.
LiveMarked == \A fd \in Fds : ptr[fd] # NULL => bitmap[fd] = 1

\* The inductive invariant: TypeOK and LiveMarked.
FdInv == TypeOK /\ LiveMarked

Table == [fd \in Fds |-> IF ptr[fd] = NULL THEN NULL ELSE [node |-> ptr[fd], pos |-> offset[fd]]]

Open == INSTANCE OpenFiles WITH table <- Table

\* The two arrays implement a table of open files: a descriptor that openat
\* returns was closed and starts at 0, reads of less than 2 GiB give
\* consecutive pieces, and no call changes what another descriptor has open.
ImplementsOpenFiles == Open!ASpec
==============================================================================

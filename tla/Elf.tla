---------------------------------- MODULE Elf ----------------------------------
(***************************************************************************)
(* load_elf_program (elf/elf.c): a program and its interpreter are read    *)
(* into a page map, and a thread is made with the words the interpreter    *)
(* starts from on its stack.                                               *)
(*                                                                         *)
(* Memory is counted in cells of Cell bytes, and a 64-bit word takes two.  *)
(* The image is the program's half of the address space; its stack is      *)
(* apart.  A file is its header and its program headers.  The lists of     *)
(* regions and the page tables are module Vmm, the queue is module Sched.  *)
(* The one caller, sched_init, passes argc, argv and envp as 0.            *)
(***************************************************************************)
EXTENDS KLib, SequencesExt

CONSTANTS
    Files,          \* the files of the root: name -> [readable, type, abi,
                    \* entry, phent, phdrs]
    Missing,        \* the path of a file that is not there
    Page,           \* cells of a page
    Space,          \* cells of the image
    InterpBase,     \* 0x40000000
    StackSize,      \* cells of the stack
    OldWindows,     \* what create_thread may find in parameter_window_size
    OldStored       \* what the stack may hold where stored will be

Cell == 4                       \* bytes of a cell
Word == 8 \div Cell             \* cells of a word
Align == 16 \div Cell           \* cells of a stack alignment

PT_LOAD == 1
PT_INTERP == 3
PT_PHDR == 6

\* The header of a file that cannot be read: hdr = {}.
NoHeader == [type |-> 0, abi |-> 0, entry |-> 0, phent |-> 0, phdrs |-> <<>>]

\* What v_rdwr leaves in hdr: an empty file and a directory leave the zeroes.
Header(f) == IF Files[f].readable THEN Files[f] ELSE NoHeader

Loads(f) == {k \in DOMAIN Header(f).phdrs : Header(f).phdrs[k].type = PT_LOAD}
Interps(f) == {k \in DOMAIN Header(f).phdrs : Header(f).phdrs[k].type = PT_INTERP}
Phdrs(f) == {k \in DOMAIN Header(f).phdrs : Header(f).phdrs[k].type = PT_PHDR}

\* The pages of a segment, as the linker laid them out.
SegmentPages(p) == (p.vaddr \div Page)..((p.vaddr + p.memsz - 1) \div Page)

ProgramHeaders ==
    [type: Nat, vaddr: Nat, filesz: Nat, memsz: Nat, path: DOMAIN Files \cup {Missing}]

ElfFiles ==
    [readable: BOOLEAN, type: Nat, abi: Nat, entry: Nat, phent: Nat, phdrs: Seq(ProgramHeaders)]

\* A program's half is far smaller than the range of a word.  Files are what a
\* linker makes: two segments share no page, a program ends below the
\* interpreter, and there is nothing to read behind filesz.
ASSUME ElfAssumption ==
    /\ Missing \notin DOMAIN Files
    /\ Files \in [DOMAIN Files -> ElfFiles]
    /\ Page \in Nat \ {0} /\ InterpBase \in Nat \ {0} /\ InterpBase % Page = 0
    /\ Space \in Nat /\ WordSize \in Nat /\ Space + 2 * Page <= WordSize
    /\ StackSize \in Nat /\ StackSize % Align = 0
    /\ OldWindows \subseteq Nat /\ OldStored \subseteq Nat
    /\ \A f \in DOMAIN Files : \A k \in Loads(f) :
          LET p == Header(f).phdrs[k] IN
          /\ p.filesz <= p.memsz /\ p.vaddr + p.memsz <= InterpBase
          /\ InterpBase + p.vaddr + p.memsz <= Space
          /\ \A l \in Loads(f) \ {k} : SegmentPages(p) \cap SegmentPages(Header(f).phdrs[l]) = {}

VARIABLES
    pc,         \* where the call is, or how it ended
    first,      \* the program: the file of the outer call
    file,       \* the file of this call
    base,       \* where this call puts it
    i,          \* program headers done
    stored,     \* the address of the program headers
    interp,     \* the path of the interpreter; Missing if interp is false or
                \* the path leads nowhere
    found,      \* interp
    args,       \* the arguments entry, phdr_virt, phent, phnum
    cr3,        \* "kernel" or "maps"
    image,      \* what the cells of the program's half hold
    thread,     \* the new thread: [rip, rsp, usp, window, pagemap]
    stack       \* the cells of its stack

vars == <<pc, first, file, base, i, stored, interp, found, args, cr3, image, thread, stack>>
call == <<first, file, base, i, stored, interp, found, args>>

Unmapped == <<"unmapped">>
Zero == <<"zero">>
Contents(f, k, c) == <<f, k, c>>        \* cell c of segment k of file f

\* A word of the stack is its two halves.
Half(w, h) == <<w, h>>
OldStack == [a \in 0..(StackSize - 1) |-> Half(0, 0)]

NoThread == [rip |-> 0, rsp |-> 0, usp |-> 0, window |-> 0, pagemap |-> "none"]

Init ==
    /\ pc = "header"
    /\ first \in DOMAIN Files /\ file = first
    /\ base = 0 /\ i = 0
    /\ stored = 0 /\ interp = Missing /\ found = FALSE
    /\ args = [entry |-> 0, phdr |-> 0, phent |-> 0, phnum |-> 0]
    /\ cr3 = "kernel"
    /\ image = [a \in 0..(Space - 1) |-> Unmapped]
    /\ thread = NoThread
    /\ stack = <<>>
------------------------------------------------------------------------------
(* The header.                                                             *)

\* The comment of the test says executable or dynamic, and System V.
Accepts(h) == h.type \in {2, 3} \/ h.abi = 0

\* update_cr3, the header, and the locals of the call, which hold what the
\* stack held.  A path that leads nowhere is a NULL file: a page fault.
ReadHeader ==
    /\ pc = "header"
    /\ cr3' = "maps"
    /\ IF file = Missing
       THEN pc' = "fault" /\ UNCHANGED call
       ELSE /\ pc' = IF Accepts(Header(file)) THEN "phdrs" ELSE "reject"
            /\ i' = 0 /\ stored' \in OldStored /\ found' = FALSE /\ interp' = Missing
            /\ UNCHANGED <<first, file, base, args>>
    /\ UNCHANGED <<image, thread, stack>>

Reject ==
    /\ pc = "reject"
    /\ cr3' = "kernel" /\ pc' = "failed"
    /\ UNCHANGED <<call, image, thread, stack>>
------------------------------------------------------------------------------
(* The program headers.                                                    *)

\* Mutant of SegmentCells: the pages are counted from the size alone.
SegmentCellsAligned(p) ==
    LET n == align_up(p.memsz, Page) \div Page
    IN  UNION {{align_down(base + p.vaddr + k * Page, Page) + c : c \in 0..(Page - 1)} :
               k \in 0..(n - 1)}

\* The cells of the pages a segment is mapped to.
SegmentCells(p) ==
    LET misaligned == p.vaddr % Page
        n == align_up(p.memsz + misaligned, Page) \div Page
    IN  UNION {{align_down(base + p.vaddr + k * Page, Page) + c : c \in 0..(Page - 1)} :
               k \in 0..(n - 1)}

\* Mutant of FileCells: what the file does not hold is read, too.
FileCellsMemsz(p) == {base + p.vaddr + c : c \in 0..(p.memsz - 1)}

\* The cells v_rdwr writes.
FileCells(p) == {base + p.vaddr + c : c \in 0..(p.filesz - 1)}

\* case 1: fresh zeroed pages, then the bytes of the file, through cr3.
LoadSegment(k, p) ==
    LET mapped == SegmentCells(p)
        read == FileCells(p)
    IN  /\ p.type = PT_LOAD
        /\ IF \A a \in read : a \in mapped \/ image[a] # Unmapped
           THEN /\ image' = [a \in DOMAIN image |->
                       IF a \in read THEN Contents(file, k, a - base - p.vaddr)
                       ELSE IF a \in mapped THEN Zero ELSE image[a]]
                /\ i' = k /\ UNCHANGED pc
           ELSE pc' = "fault" /\ UNCHANGED <<i, image>>
        /\ UNCHANGED <<stored, interp, found>>

\* case 6, case 3, and every other type.
OtherHeader(k, p) ==
    /\ p.type # PT_LOAD
    /\ i' = k
    /\ stored' = IF p.type = PT_PHDR THEN base + p.vaddr ELSE stored
    /\ found' = (found \/ p.type = PT_INTERP)
    /\ interp' = IF p.type = PT_INTERP THEN p.path ELSE interp
    /\ UNCHANGED <<pc, image>>

ProgramHeader ==
    LET k == i + 1 IN
    /\ pc = "phdrs"
    /\ k <= Len(Header(file).phdrs)
    /\ LoadSegment(k, Header(file).phdrs[k]) \/ OtherHeader(k, Header(file).phdrs[k])
    /\ UNCHANGED <<first, file, base, args, cr3, thread, stack>>

\* Mutant of Interpret: the arguments of the outer call are passed on.
InterpretKeepsArgs ==
    /\ pc = "phdrs" /\ i = Len(Header(file).phdrs) /\ found
    /\ file' = interp /\ base' = InterpBase
    /\ args' = [args EXCEPT !.entry = base + Header(file).entry]
    /\ pc' = "header"
    /\ UNCHANGED <<first, i, stored, interp, found, cr3, image, thread, stack>>

\* The call of load_elf_program for the interpreter, in the same page map.
Interpret ==
    /\ pc = "phdrs" /\ i = Len(Header(file).phdrs) /\ found
    /\ file' = interp /\ base' = InterpBase
    /\ args' = [entry |-> base + Header(file).entry, phdr |-> stored,
                phent |-> Header(file).phent, phnum |-> Len(Header(file).phdrs)]
    /\ pc' = "header"
    /\ UNCHANGED <<first, i, stored, interp, found, cr3, image, thread, stack>>
------------------------------------------------------------------------------
(* The thread and its stack.                                               *)

\* mmap_range of zeroed pages, new_context, make_process_info, create_thread.
\* Nobody sets parameter_window_size: kmalloc does not clear what it gives.
MakeThread ==
    /\ pc = "phdrs" /\ i = Len(Header(file).phdrs) /\ ~found
    /\ \E w \in OldWindows :
          thread' = [rip |-> base + Header(file).entry, rsp |-> StackSize, usp |-> StackSize,
                     window |-> w, pagemap |-> "kernel"]
    /\ stack' = OldStack
    /\ pc' = "push"
    /\ UNCHANGED <<call, cr3, image>>

\* The words pushed, the last one on top: the auxiliary vector from its null
\* entry up, the ends of envp and argv, and argc.
Words ==
    LET aux(type, val) == <<val, type>>
    IN  aux(0, 0)
        \o (IF args.entry # 0 THEN aux(9, args.entry) ELSE <<>>)
        \o aux(3, args.phdr) \o aux(4, args.phent) \o aux(5, args.phnum)
        \o <<0, 0, 0>>

\* The stack with the words ws pushed below the window w of top.
Pushed(top, w, ws) ==
    [a \in DOMAIN stack |->
        LET d == (top - w - 1) - a          \* cells below the window
            k == d \div Word + 1
        IN  IF d >= 0 /\ k <= Len(ws) THEN Half(ws[k], 1 - (d % Word)) ELSE stack[a]]

Push ==
    LET w == thread.window + Word * Len(Words) IN
    /\ pc = "push"
    /\ IF w > thread.usp
       THEN pc' = "fault" /\ UNCHANGED <<thread, stack>>
       ELSE /\ stack' = Pushed(thread.usp, thread.window, Words)
            /\ thread' = [thread EXCEPT !.window = w]
            /\ pc' = "align"
    /\ UNCHANGED <<call, cr3, image>>

\* Mutants of AlignWindow: it is not aligned; the words stay where they were.
AlignWindowNot(w) == [window |-> w, stack |-> stack]

AlignWindowNoMove(w) ==
    [window |-> IF w % Align = 0 THEN w ELSE w + Align - (w % Align), stack |-> stack]

\* The window grows to a multiple of 16 bytes, and all of it moves down.
AlignWindow(w) ==
    LET new == IF w % Align = 0 THEN w ELSE w + Align - (w % Align)
    IN  [window |-> new, stack |-> memmove(stack, thread.usp - new, thread.usp - w, w)]

\* The stack pointers; the process gets the page map.
Finish ==
    LET s == AlignWindow(thread.window) IN
    /\ pc = "align"
    /\ stack' = s.stack
    /\ thread' = [thread EXCEPT !.window = s.window, !.pagemap = "maps",
                                !.usp = @ - s.window, !.rsp = @ - s.window]
    /\ pc' = "done"
    /\ UNCHANGED <<call, cr3, image>>

\* The call has returned, or the kernel has stopped.
Ended == pc \in {"done", "failed", "fault"} /\ UNCHANGED vars

Next ==
    \/ ReadHeader \/ Reject \/ ProgramHeader \/ Interpret
    \/ MakeThread \/ Push \/ Finish \/ Ended

Spec == Init /\ [][Next]_vars
------------------------------------------------------------------------------
(* Properties.                                                             *)

\* Every variable holds a value of its kind: the call is at a line of it, and
\* the stack pointers and the window are inside the stack.
TypeOK ==
    /\ pc \in {"header", "reject", "phdrs", "push", "align", "done", "failed", "fault"}
    /\ first \in DOMAIN Files /\ file \in DOMAIN Files \cup {Missing}
    /\ base \in {0, InterpBase} /\ i \in Nat /\ stored \in Nat /\ found \in BOOLEAN
    /\ interp \in DOMAIN Files \cup {Missing}
    /\ args \in [entry: Nat, phdr: Nat, phent: Nat, phnum: Nat]
    /\ cr3 \in {"kernel", "maps"}
    /\ DOMAIN image = 0..(Space - 1)
    /\ thread.rsp \in 0..StackSize /\ thread.usp \in 0..StackSize
    /\ stack # <<>> => DOMAIN stack = 0..(StackSize - 1)

\* The words a program finds from its stack pointer up, as the System V ABI
\* has them: argc, the ends of argv and envp, the auxiliary vector.
AtStart(n) == [k \in 1..n |-> stack[thread.rsp + Word * (k - 1)][1]]

Whole(n) == \A k \in 1..n :
    LET a == thread.rsp + Word * (k - 1)
    IN  stack[a][2] = 0 /\ stack[a + 1] = Half(stack[a][1], 1)

\* Whatever parameter_window_size held and however many words are pushed, the
\* thread starts with a stack pointer aligned to 16 bytes, the same one in its
\* frame and for its next system call, and finds there, whole after the move
\* of overlapping bytes, argc, argv, envp and the auxiliary vector; and its
\* process runs in the page map the program was read into.
StackRight ==
    pc = "done" =>
        LET n == IF args.entry # 0 THEN 13 ELSE 11 IN
        /\ (StackSize - thread.rsp) % Align = 0
        /\ thread.usp = thread.rsp
        /\ thread.rsp + Word * n <= StackSize
        /\ Whole(n)
        /\ SubSeq(AtStart(n), 1, 3) = <<0, 0, 0>>
        /\ SubSeq(AtStart(n), n - 1, n) = <<0, 0>>
        /\ thread.pagemap = cr3

\* The value of the auxiliary vector's entry of a type, from the stack.
Auxv(type) ==
    LET places == {k \in 2..6 : AtStart(12)[2 * k] = type} IN AtStart(13)[2 * Min(places) + 1]

\* A program with an interpreter starts in the interpreter, and what the
\* interpreter finds on the stack is the program: its entry, and the address,
\* the size and the number of its program headers, where it has a PT_PHDR.
AuxvDescribesProgram ==
    LET h == Header(first)
        direct == Interps(first) # {} /\ Interps(file) = {}
                  /\ h.phdrs[Max(Interps(first))].path = file /\ file # first
    IN  pc = "done" /\ direct /\ h.entry # 0 =>
        /\ thread.rip = InterpBase + Header(file).entry
        /\ Auxv(9) = h.entry
        /\ Auxv(4) = h.phent /\ Auxv(5) = Len(h.phdrs)
        /\ Phdrs(first) # {} => Auxv(3) = h.phdrs[Max(Phdrs(first))].vaddr

\* The file f at b, whole: its bytes, and zeroes behind them to the end of
\* every segment.
ImageOf(f, b) ==
    \A k \in Loads(f) : LET p == Header(f).phdrs[k] IN
        \A c \in 0..(p.memsz - 1) :
            image[b + p.vaddr + c] = IF c < p.filesz THEN Contents(f, k, c) ELSE Zero

\* When the thread is made, the segments of the program and of its interpreter
\* are all in memory, the zeroes behind a misaligned one's bytes included, and
\* no segment has taken another one's pages.
ImageRight == pc = "done" => ImageOf(first, 0) /\ (file # first => ImageOf(file, base))

\* Part of LoaderInv.  A load that fails, in the interpreter too, leaves the kernel in its own
\* page map, and has made no thread.
CleanFailure == pc = "failed" => cr3 = "kernel" /\ thread = NoThread

\* Part of LoaderInv.  The kernel faults in a load only because the interpreter is not there or
\* because the old window does not fit the stack.
FaultExplained ==
    pc = "fault" => file = Missing \/ (thread # NoThread /\ thread.window + 2 * 13 > StackSize)

\* Loads that go wrong: types, no trace of a load that is turned away, and no
\* fault but for the two known reasons, whatever the segments' shapes.
LoaderInv == TypeOK /\ CleanFailure /\ FaultExplained
==============================================================================

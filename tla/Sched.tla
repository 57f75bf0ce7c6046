-------------------------------- MODULE Sched --------------------------------
(***************************************************************************)
(* The scheduler of Nyaux: sched/sched.c (switch_task and sched_init), the *)
(* interrupt stubs it is called through (idtstub.asm, idt.c), the system   *)
(* call entry and exit (syscall/syscall.asm), and what elf/elf.c and       *)
(* drivers/apic.c contribute to them.  There is one processor.             *)
(*                                                                         *)
(* Abstractions.  The fifteen general registers and rflags are one value,  *)
(* gpr.  rip is a label: the boot code's own ("apic", "boot", "elf",       *)
(* "idle"), "thread" for any instruction of a thread's program, "syscall"  *)
(* and "sysret" before and after a system call's C handler.  A pointer to  *)
(* a thread's per_thread_cpu_info_t, to its kernel stack or to its page    *)
(* map is the thread's name; kernel_pagemap is Kthread's.                  *)
(*                                                                         *)
(* Both handlers send an EOI before they return, so the step of a handler  *)
(* includes it and the LAPIC's in-service state is not kept.               *)
(*                                                                         *)
(* sched_init loads one program; Users may hold more, each pushed on the   *)
(* queue by the code sched_init has for one (sched.c:246-251).             *)
(***************************************************************************)
EXTENDS Naturals

CONSTANTS
    Kthread,    \* the kernel thread, kthread_start
    Users,      \* the programs sched_init loads; {bash} in the code
    NULL,
    Vals,       \* values of the general registers
    Stacks,     \* values of a stack pointer outside system calls
    FpuVals,    \* contents of an xsave area
    FpuInit,    \* the contents new_context writes
    FsVals      \* values of the FS base

Threads == {Kthread} \cup Users

KernelCS == 40      \* 0x28
UserCS   == 67      \* 0x40 | 3

TimerVec == 32      \* sched_meow, the first AllocateVector()
KbdVec   == 33      \* ps2_handler, the second

BootRips    == {"apic", "boot", "elf", "idle"}
SyscallRips == {"syscall", "sysret"}

\* The interrupted or saved register file: struct StackFrame.
Frames == [rip: BootRips \cup {"thread"} \cup SyscallRips,
           cs: {KernelCS, UserCS}, gpr: Vals, rsp: Stacks \cup Threads]

\* A fresh context of the kind new_context makes.
NewFrames(code) == [rip: {"thread"}, cs: {code}, gpr: Vals, rsp: Stacks]

ASSUME SchedAssumption ==
    /\ Kthread \notin Users
    /\ NULL \notin Threads
    /\ NULL \notin FsVals
    /\ NULL \notin Frames
    /\ NULL \notin [gpr: Vals, rsp: Stacks, fpu: FpuVals, tls: FsVals \cup {NULL}]
    /\ Vals # {} /\ Stacks # {} /\ FsVals # {}
    /\ FpuInit \in FpuVals

VARIABLES
    \* the processor
    mode,       \* "exec", or in an interrupt stub before ("isr") or after
                \* ("iret") the call of the C handler
    halted,     \* kpanic reached its cli; hlt loop
    intr,       \* RFLAGS.IF
    regs,       \* [rip, cs, gpr, rsp]
    fpu,        \* the live FPU/SSE registers
    gs,         \* IA32_GS_BASE
    kgs,        \* IA32_KERNEL_GS_BASE
    fsbase,     \* IA32_FS_BASE
    cr3,        \* the page map in use
    \* kernel memory
    frame,      \* the StackFrame the running stub pushed
    vec,        \* the vector the running stub is for
    sframe,     \* sframe[t]: the syscall_frame on t's kernel stack
    user_stack_ptr, \* per_thread_cpu_info_t.user_stack_ptr of each thread
    start_of_queue,
    current_thread,
    next,       \* thread_t.next
    context,    \* thread_t.context->frame, NULL before create_thread
    fpu_state,  \* thread_t.context->fpu_state
    gs_base,    \* thread_t.gs_base
    fs,         \* thread_t.fs
    pagemap,    \* thread_t.info->pagemap
    todo        \* programs sched_init has still to load

cpuVars   == <<mode, halted, intr, regs, fpu, gs, kgs, fsbase, cr3>>
stackVars == <<frame, vec, sframe, user_stack_ptr>>
queueVars == <<start_of_queue, current_thread, next, todo>>
threadVars == <<context, fpu_state, gs_base, fs, pagemap>>
vars == <<cpuVars, stackVars, queueVars, threadVars>>

\* Boot has reached the two instructions of apic_init between the write that
\* unmasks the periodic timer and its cli.
Init ==
    /\ mode = "exec" /\ halted = FALSE /\ intr = TRUE
    /\ regs \in [rip: {"apic"}, cs: {KernelCS}, gpr: Vals, rsp: Stacks]
    /\ fpu \in FpuVals
    /\ gs = NULL /\ kgs = NULL
    /\ fsbase \in FsVals
    /\ cr3 = Kthread
    /\ frame = NULL /\ vec = TimerVec
    /\ sframe = [t \in Threads |-> NULL]
    /\ user_stack_ptr = [t \in Threads |-> NULL]
    /\ start_of_queue = NULL /\ current_thread = NULL
    /\ next = [t \in Threads |-> NULL]
    /\ context = [t \in Threads |-> NULL]
    /\ fpu_state = [t \in Threads |-> NULL]
    /\ gs_base = [t \in Threads |-> NULL]
    /\ fs = [t \in Threads |-> NULL]
    /\ pagemap = [t \in Threads |-> NULL]
    /\ todo = Users
------------------------------------------------------------------------------
(* Boot: the end of apic_init, sched_init, and the idle loop of _start.    *)

At(rip) == mode = "exec" /\ ~halted /\ regs.rip = rip

Goto(rip) == regs' = [regs EXCEPT !.rip = rip]

\* apic.c:234.
ApicCli ==
    /\ At("apic")
    /\ intr' = FALSE
    /\ Goto("boot")
    /\ UNCHANGED <<mode, halted, fpu, gs, kgs, fsbase, cr3,
                   stackVars, queueVars, threadVars>>

\* The first half of sched_init makes the kernel thread and a queue of it.
\* thread_t.fs, and the registers new_context does not set, are whatever
\* kmalloc returned.
SchedInitKthread ==
    /\ At("boot")
    /\ \E c \in NewFrames(KernelCS), f \in FsVals :
         /\ context' = [context EXCEPT ![Kthread] = c]
         /\ fs' = [fs EXCEPT ![Kthread] = f]
    /\ fpu_state' = [fpu_state EXCEPT ![Kthread] = FpuInit]
    /\ gs_base' = [gs_base EXCEPT ![Kthread] = Kthread]
    /\ pagemap' = [pagemap EXCEPT ![Kthread] = Kthread]
    /\ next' = [next EXCEPT ![Kthread] = NULL]
    /\ start_of_queue' = Kthread
    /\ Goto("elf")
    /\ UNCHANGED <<mode, halted, intr, fpu, gs, kgs, fsbase, cr3, stackVars,
                   current_thread, todo>>

\* load_elf_program succeeds: it leaves the program's page map in cr3, and
\* sched_init pushes the new thread on the front of the queue.
LoadElf(u) ==
    /\ At("elf")
    /\ u \in todo
    /\ todo' = todo \ {u}
    /\ \E c \in NewFrames(UserCS), f \in FsVals :
         /\ context' = [context EXCEPT ![u] = c]
         /\ fs' = [fs EXCEPT ![u] = f]
         /\ user_stack_ptr' = [user_stack_ptr EXCEPT ![u] = c.rsp]
    /\ fpu_state' = [fpu_state EXCEPT ![u] = FpuInit]
    /\ gs_base' = [gs_base EXCEPT ![u] = u]
    /\ pagemap' = [pagemap EXCEPT ![u] = u]
    /\ cr3' = u
    /\ next' = [next EXCEPT ![u] = start_of_queue]
    /\ start_of_queue' = u
    /\ UNCHANGED <<mode, halted, intr, regs, fpu, gs, kgs, fsbase,
                   frame, vec, sframe, current_thread>>

\* Mutant of LoadElfFails: sched_init's test of the result is dropped, so the
\* queue starts with a thread that was never created.
LoadElfFailsQueued(u) ==
    /\ At("elf")
    /\ u \in todo
    /\ todo' = todo \ {u}
    /\ cr3' = Kthread
    /\ start_of_queue' = u
    /\ UNCHANGED <<mode, halted, intr, regs, fpu, gs, kgs, fsbase, stackVars,
                   current_thread, next, threadVars>>

\* The file is not an executable: nothing is queued, cr3 is the kernel's.
LoadElfFails(u) ==
    /\ At("elf")
    /\ u \in todo
    /\ todo' = todo \ {u}
    /\ cr3' = Kthread
    /\ UNCHANGED <<mode, halted, intr, regs, fpu, gs, kgs, fsbase, stackVars,
                   start_of_queue, current_thread, next, threadVars>>

\* /usr/bin/bash is missing, or the loader faults.
LoadPanics ==
    /\ At("elf")
    /\ todo # {}
    /\ halted' = TRUE
    /\ UNCHANGED <<mode, intr, regs, fpu, gs, kgs, fsbase, cr3,
                   stackVars, queueVars, threadVars>>

\* The sti that ends sched_init; _start then executes hlt for ever.
SchedInitSti ==
    /\ At("elf")
    /\ todo = {}
    /\ intr' = TRUE
    /\ Goto("idle")
    /\ UNCHANGED <<mode, halted, fpu, gs, kgs, fsbase, cr3,
                   stackVars, queueVars, threadVars>>
------------------------------------------------------------------------------
(* Threads.                                                                *)

\* The running thread executes instructions of its program.
ThreadStep ==
    /\ At("thread")
    /\ \E g \in Vals, s \in Stacks : regs' = [regs EXCEPT !.gpr = g, !.rsp = s]
    /\ fpu' \in FpuVals
    /\ UNCHANGED <<mode, halted, intr, gs, kgs, fsbase, cr3,
                   stackVars, queueVars, threadVars>>

\* The running thread raises an exception: division_by_zero and page_fault
\* call kpanic; every other exception calls through a null handler, which is
\* a page fault.
Exception ==
    /\ At("thread")
    /\ halted' = TRUE
    /\ UNCHANGED <<mode, intr, regs, fpu, gs, kgs, fsbase, cr3,
                   stackVars, queueVars, threadVars>>
------------------------------------------------------------------------------
(* Interrupts: delivery and stub entry, C handler, stub exit and iretq.    *)
(* All gates are interrupt gates, so nothing interrupts a stub.            *)

SwapGs == gs' = kgs /\ kgs' = gs

\* Mutant of IrqEntry: the stub does not swapgs.
IrqEntryNoSwapGs(v) ==
    /\ mode = "exec" /\ ~halted
    /\ intr
    /\ v = KbdVec => regs.rip # "apic"
    /\ mode' = "isr"
    /\ vec' = v
    /\ frame' = regs
    /\ intr' = FALSE
    /\ \E g \in Vals : regs' = [regs EXCEPT !.cs = KernelCS, !.gpr = g]
    /\ UNCHANGED <<gs, kgs, halted, fpu, fsbase, cr3, sframe, user_stack_ptr,
                   queueVars, threadVars>>

\* swapgs only if the interrupted code was in ring 3.  The registers belong
\* to the handler from here on.
IrqEntry(v) ==
    /\ mode = "exec" /\ ~halted
    /\ intr
    /\ v = KbdVec => regs.rip # "apic"      \* ps2_init comes later
    /\ mode' = "isr"
    /\ vec' = v
    /\ frame' = regs
    /\ intr' = FALSE
    /\ IF regs.cs = UserCS THEN SwapGs ELSE UNCHANGED <<gs, kgs>>
    /\ \E g \in Vals : regs' = [regs EXCEPT !.cs = KernelCS, !.gpr = g]
    /\ UNCHANGED <<halted, fpu, fsbase, cr3, sframe, user_stack_ptr,
                   queueVars, threadVars>>

\* Mutant of SwitchTo: the FS base is not restored.
SwitchToNoFs(t, ctx, fpus, gsb, fss) ==
    /\ current_thread' = t
    /\ frame' = ctx[t]
    /\ fpu' = fpus[t]
    /\ IF ctx[t].cs = UserCS THEN gs' = gsb[t] ELSE UNCHANGED gs
    /\ UNCHANGED fsbase
    /\ cr3' = pagemap[t]

\* switch_context, and what switch_task restores after it.  ctx, fpus, gsb
\* and fss are the thread fields after the save, if there was one.
SwitchTo(t, ctx, fpus, gsb, fss) ==
    /\ current_thread' = t
    /\ frame' = ctx[t]
    /\ fpu' = fpus[t]
    /\ IF ctx[t].cs = UserCS
       THEN gs' = gsb[t] /\ fsbase' = fss[t]
       ELSE UNCHANGED <<gs, fsbase>>
    /\ cr3' = pagemap[t]

\* Mutant of SaveCurrent: no xsave.
SaveCurrentNoXsave ==
    LET c == current_thread IN
    /\ context' = [context EXCEPT ![c] = frame]
    /\ IF context[c].cs = UserCS
       THEN /\ gs_base' = [gs_base EXCEPT ![c] = gs]
            /\ fs' = [fs EXCEPT ![c] = fsbase]
       ELSE UNCHANGED <<gs_base, fs>>
    /\ UNCHANGED fpu_state

\* save_context, and the segment bases of a thread whose last saved frame was
\* a ring 3 one.
SaveCurrent ==
    LET c == current_thread IN
    /\ context' = [context EXCEPT ![c] = frame]
    /\ fpu_state' = [fpu_state EXCEPT ![c] = fpu]
    /\ IF context[c].cs = UserCS
       THEN /\ gs_base' = [gs_base EXCEPT ![c] = gs]
            /\ fs' = [fs EXCEPT ![c] = fsbase]
       ELSE UNCHANGED <<gs_base, fs>>

\* Mutant of Successor: the end of the queue does not wrap to its start.
SuccessorNoWrap ==
    IF next[current_thread] # NULL THEN next[current_thread] ELSE current_thread

\* The thread after the current one, round to the start of the queue.
Successor ==
    IF next[current_thread] # NULL THEN next[current_thread] ELSE start_of_queue

\* switch_task.  The branch for a current thread and an empty queue
\* (sched.c:66-70) cannot be taken: nothing ever empties the queue.
SwitchTask ==
    \/ /\ current_thread # NULL
       /\ SaveCurrent
       /\ SwitchTo(Successor, context', fpu_state', gs_base', fs')
    \/ /\ current_thread = NULL
       /\ start_of_queue # NULL
       /\ SwitchTo(start_of_queue, context, fpu_state, gs_base, fs)
       /\ UNCHANGED <<context, fpu_state, gs_base, fs>>
    \/ /\ current_thread = NULL
       /\ start_of_queue = NULL
       /\ UNCHANGED <<current_thread, frame, fpu, gs, fsbase, cr3,
                      context, fpu_state, gs_base, fs>>

\* sched_meow: the whole handler of the timer's vector.
SchedMeow ==
    /\ mode = "isr" /\ ~halted
    /\ vec = TimerVec
    /\ SwitchTask
    /\ mode' = "iret"
    /\ UNCHANGED <<halted, intr, regs, kgs, vec, sframe, user_stack_ptr,
                   start_of_queue, next, pagemap, todo>>

\* ps2_handler (module Keyboard) leaves the frame alone.
Ps2Handler ==
    /\ mode = "isr" /\ ~halted
    /\ vec = KbdVec
    /\ mode' = "iret"
    /\ UNCHANGED <<halted, intr, regs, fpu, gs, kgs, fsbase, cr3,
                   stackVars, queueVars, threadVars>>

\* A kassert of ps2_handler fails.
Ps2Panics ==
    /\ mode = "isr" /\ ~halted
    /\ vec = KbdVec
    /\ halted' = TRUE
    /\ UNCHANGED <<mode, intr, regs, fpu, gs, kgs, fsbase, cr3,
                   stackVars, queueVars, threadVars>>

\* The stub pops the frame, swaps gs back if it returns to ring 3, and
\* iretq enables interrupts, which every frame has enabled.
StubExit ==
    /\ mode = "iret" /\ ~halted
    /\ mode' = "exec"
    /\ regs' = frame
    /\ frame' = NULL
    /\ intr' = TRUE
    /\ IF frame.cs = UserCS THEN SwapGs ELSE UNCHANGED <<gs, kgs>>
    /\ UNCHANGED <<halted, fpu, fsbase, cr3, vec, sframe, user_stack_ptr,
                   queueVars, threadVars>>
------------------------------------------------------------------------------
(* System calls.                                                           *)

\* Mutant of SyscallEntry: the FMASK write of main.c:363 is missing.
SyscallEntryNoFmask ==
    /\ At("thread")
    /\ regs.cs = UserCS
    /\ SwapGs
    /\ user_stack_ptr' = [user_stack_ptr EXCEPT ![kgs] = regs.rsp]
    /\ sframe' = [sframe EXCEPT ![kgs] = regs.gpr]
    /\ regs' = [regs EXCEPT !.rip = "syscall", !.cs = KernelCS, !.rsp = kgs]
    /\ UNCHANGED <<intr, mode, halted, fpu, fsbase, cr3, frame, vec,
                   queueVars, threadVars>>

\* The syscall instruction (FMASK clears IF, rsp is left alone) and
\* syscall_handler up to the call: the user stack pointer goes to
\* [gs:8], the kernel stack comes from [gs:0] and the registers go onto it.
SyscallEntry ==
    /\ At("thread")
    /\ regs.cs = UserCS
    /\ SwapGs
    /\ user_stack_ptr' = [user_stack_ptr EXCEPT ![kgs] = regs.rsp]
    /\ sframe' = [sframe EXCEPT ![kgs] = regs.gpr]
    /\ regs' = [regs EXCEPT !.rip = "syscall", !.cs = KernelCS, !.rsp = kgs]
    /\ intr' = FALSE
    /\ UNCHANGED <<mode, halted, fpu, fsbase, cr3, frame, vec,
                   queueVars, threadVars>>

\* syscall_fs writes the FS base and no result.
SyscallFs ==
    /\ At("syscall")
    /\ fsbase' \in FsVals
    /\ \E g \in Vals : regs' = [regs EXCEPT !.rip = "sysret", !.gpr = g]
    /\ UNCHANGED <<mode, halted, intr, fpu, gs, kgs, cr3,
                   stackVars, queueVars, threadVars>>

\* Any other handler: results are written to the saved registers.
SyscallOther ==
    /\ At("syscall")
    /\ \E r \in Vals : sframe' = [sframe EXCEPT ![regs.rsp] = r]
    /\ \E g \in Vals : regs' = [regs EXCEPT !.rip = "sysret", !.gpr = g]
    /\ UNCHANGED <<mode, halted, intr, fpu, gs, kgs, fsbase, cr3,
                   frame, vec, user_stack_ptr, queueVars, threadVars>>

\* A handler calls kpanic, halts for want of memory or faults (an unknown
\* system call number calls through a null pointer).
SyscallPanics ==
    /\ At("syscall")
    /\ halted' = TRUE
    /\ UNCHANGED <<mode, intr, regs, fpu, gs, kgs, fsbase, cr3,
                   stackVars, queueVars, threadVars>>

\* The rest of syscall_handler and sysret, which restores RFLAGS from r11.
SyscallExit ==
    /\ At("sysret")
    /\ regs' = [rip |-> "thread", cs |-> UserCS,
                gpr |-> sframe[regs.rsp], rsp |-> user_stack_ptr[gs]]
    /\ SwapGs
    /\ intr' = TRUE
    /\ UNCHANGED <<mode, halted, fpu, fsbase, cr3,
                   stackVars, queueVars, threadVars>>
------------------------------------------------------------------------------
\* kpanic's loop.
Halt == halted /\ UNCHANGED vars

Next ==
    \/ ApicCli
    \/ SchedInitKthread
    \/ \E u \in Users : LoadElf(u) \/ LoadElfFails(u)
    \/ LoadPanics
    \/ SchedInitSti
    \/ ThreadStep
    \/ Exception
    \/ IrqEntry(TimerVec)
    \/ IrqEntry(KbdVec)
    \/ SchedMeow
    \/ Ps2Handler
    \/ Ps2Panics
    \/ StubExit
    \/ SyscallEntry
    \/ SyscallFs
    \/ SyscallOther
    \/ SyscallPanics
    \/ SyscallExit
    \/ Halt

Spec == Init /\ [][Next]_vars

\* The fairness of the hardware and of the kernel's own straight-line code.
\* The local APIC latches a tick that arrives while IF is clear and delivers
\* it when IF is set again, so a tick that is deliverable again and again is
\* delivered: strong fairness.  The period of the timer (10 ms) leaves the
\* interrupted boot code time to reach its cli: strong fairness of ApicCli.
\* Programs and the keyboard get no fairness.
KernelStep ==
    \/ SchedInitKthread
    \/ \E u \in Users : LoadElf(u) \/ LoadElfFails(u)
    \/ SchedInitSti
    \/ SchedMeow
    \/ Ps2Handler
    \/ StubExit
    \/ SyscallFs
    \/ SyscallOther
    \/ SyscallExit

Fairness ==
    /\ SF_vars(ApicCli)
    /\ SF_vars(IrqEntry(TimerVec))
    /\ WF_vars(KernelStep)

FairSpec == Spec /\ Fairness
------------------------------------------------------------------------------
(* Properties.                                                             *)

\* The threads that have been created.
Made == {t \in Threads : context[t] # NULL}

\* Every variable holds a value of its kind (sched.h:10-49): a thread has all
\* of its fields or none of them.
TypeOK ==
    /\ mode \in {"exec", "isr", "iret"}
    /\ halted \in BOOLEAN /\ intr \in BOOLEAN
    /\ regs \in Frames
    /\ fpu \in FpuVals
    /\ gs \in Threads \cup {NULL} /\ kgs \in Threads \cup {NULL}
    /\ fsbase \in FsVals
    /\ cr3 \in Threads
    /\ frame \in Frames \cup {NULL} /\ vec \in {TimerVec, KbdVec}
    /\ sframe \in [Threads -> Vals \cup {NULL}]
    /\ user_stack_ptr \in [Threads -> Stacks \cup {NULL}]
    /\ start_of_queue \in Threads \cup {NULL}
    /\ current_thread \in Threads \cup {NULL}
    /\ next \in [Threads -> Threads \cup {NULL}]
    /\ context \in [Threads -> NewFrames(KernelCS) \cup NewFrames(UserCS) \cup {NULL}]
    /\ fpu_state \in [Threads -> FpuVals \cup {NULL}]
    /\ gs_base \in [Threads -> Threads \cup {NULL}]
    /\ fs \in [Threads -> FsVals \cup {NULL}]
    /\ pagemap \in [Threads -> Threads \cup {NULL}]
    /\ todo \subseteq Users

\* Ring 3 code runs only as a user thread, with that thread's address space
\* and with that thread's kernel entry block ready behind swapgs, so that the
\* next system call or interrupt lands on its own kernel stack.
UserModeState ==
    (mode = "exec" /\ regs.cs = UserCS) =>
        /\ current_thread \in Users
        /\ cr3 = current_thread
        /\ kgs = current_thread
        /\ gs = NULL
        /\ intr

\* A system call executes on the kernel stack, in the address space and with
\* the entry block of the thread that made it.
SyscallState ==
    (mode = "exec" /\ regs.rip \in SyscallRips) =>
        /\ current_thread \in Users
        /\ gs = current_thread
        /\ regs.rsp = current_thread
        /\ cr3 = current_thread

\* switch_task's test of the last saved code selector (sched.c:35, 53)
\* identifies user threads, and a queued thread's saved entry block and page
\* map are its own.
SavedState ==
    \A t \in Made :
        /\ (context[t].cs = UserCS) <=> (t \in Users)
        /\ gs_base[t] = t
        /\ pagemap[t] = t

\* The queue is closed: start_of_queue, next and current_thread lead only to
\* threads that have been created, and once threads run it is not empty.
QueueClosed ==
    /\ \A t \in Made : next[t] \in Made \cup {NULL}
    /\ start_of_queue \in Made \cup {NULL}
    /\ current_thread \in Made \cup {NULL}
    /\ Made # {} => start_of_queue # NULL

\* No switch happens inside a system call: its handlers share the heap, the
\* descriptor tables and the VFS without a lock.
SyscallsNotPreempted ==
    [][current_thread' # current_thread => frame.rip \in {"idle", "thread"}]_vars

\* The register file a thread will go on with.
View(t) ==
    IF current_thread # t THEN context[t]
    ELSE IF mode # "exec" THEN frame
    ELSE regs

\* Thread t's machine, wherever the kernel keeps its parts.
MachineOf(t) ==
    [gpr |-> IF View(t).rip \in SyscallRips THEN sframe[t] ELSE View(t).gpr,
     rsp |-> IF View(t).rip \in SyscallRips THEN user_stack_ptr[t] ELSE View(t).rsp,
     fpu |-> IF current_thread = t THEN fpu ELSE fpu_state[t],
     tls |-> IF t \notin Users THEN NULL
             ELSE IF current_thread = t THEN fsbase ELSE fs[t]]

MachineBar == [t \in Threads |-> IF t \in Made THEN MachineOf(t) ELSE NULL]

Machine == INSTANCE ThreadMachine WITH running <- current_thread, machine <- MachineBar

\* Context isolation: interrupts, switches and system calls implement one
\* private machine per thread.  Saving and restoring lose nothing and mix
\* nothing: frame, FPU state, FS base and the two stack pointers included.
ContextIsolation == Machine!ASpec

\* Every thread in the queue executes again and again, unless the kernel
\* panics: a program that never stops making system calls included.
EveryThreadRuns ==
    \A t \in Threads :
        []((context[t] # NULL) => <>(halted \/ (current_thread = t /\ At("thread"))))
------------------------------------------------------------------------------
(* The inductive invariant behind the proofs of SchedProofs.               *)

\* All of a thread's fields are set together, before anything can run it.
ThreadComplete(t) ==
    /\ context[t] \in NewFrames(IF t \in Users THEN UserCS ELSE KernelCS)
    /\ fpu_state[t] \in FpuVals
    /\ fs[t] \in FsVals
    /\ gs_base[t] = t
    /\ pagemap[t] = t
    /\ t \in Users => user_stack_ptr[t] \in Stacks

ThreadsComplete == \A t \in Made : ThreadComplete(t)

\* Register file r belongs to code that interrupts can hit: the boot code at
\* a label with interrupts on, or the program of the current thread.
Interruptible(r) ==
    /\ r \in Frames
    /\ r.rsp \in Stacks
    /\ \/ /\ r.rip \in {"apic", "idle"}
          /\ r.cs = KernelCS
          /\ current_thread = NULL
          /\ (r.rip = "apic") <=> (start_of_queue = NULL)
       \/ /\ r.rip = "thread"
          /\ current_thread # NULL
          /\ r.cs = IF current_thread \in Users THEN UserCS ELSE KernelCS
          /\ cr3 = current_thread

\* The processor, at every point of the kernel's control flow.  In ring 0 the
\* value behind swapgs is always the user's (NULL).
CpuState ==
    IF mode = "exec"
    THEN /\ frame = NULL
         /\ \/ /\ Interruptible(regs)
               /\ intr
               /\ IF regs.cs = UserCS THEN gs = NULL /\ kgs = current_thread ELSE kgs = NULL
            \/ /\ regs.rip \in {"boot", "elf"}
               /\ regs.cs = KernelCS /\ regs.rsp \in Stacks
               /\ ~ intr
               /\ current_thread = NULL
               /\ (regs.rip = "boot") <=> (start_of_queue = NULL)
               /\ kgs = NULL
            \/ /\ regs.rip \in SyscallRips
               /\ regs.cs = KernelCS
               /\ ~ intr
               /\ current_thread \in Users
               /\ regs.rsp = current_thread
               /\ gs = current_thread /\ kgs = NULL
               /\ cr3 = current_thread
               /\ sframe[current_thread] \in Vals
    ELSE /\ Interruptible(frame)
         /\ ~ intr
         /\ kgs = NULL
         /\ frame.cs = UserCS => gs = current_thread

\* A program that is still to be loaded is no thread.
TodoNotMade == todo \cap Made = {}

IInv ==
    /\ TypeOK
    /\ ThreadsComplete
    /\ QueueClosed
    /\ TodoNotMade
    /\ CpuState
==============================================================================

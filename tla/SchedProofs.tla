----------------------------- MODULE SchedProofs -----------------------------
(***************************************************************************)
(* Theorems about Sched for every set of programs and every set of         *)
(* register values: the inductive invariant IInv, the safety properties    *)
(* it implies, and that the scheduler implements ThreadMachine.            *)
(***************************************************************************)
EXTENDS Sched, TLAPS

\* Boot starts in a state of the invariant: nothing is queued, interrupts
\* are on in the two instructions before apic_init's cli.
LEMMA InitIInv == Init => IInv
<1> SUFFICES ASSUME Init PROVE IInv
  OBVIOUS
<1> USE SchedAssumption
<1>1. TypeOK
  BY DEF Init, TypeOK, Frames, NewFrames, Threads, BootRips, TimerVec, KbdVec
<1>2. Made = {}
  BY DEF Init, Made
<1>3. ThreadsComplete /\ QueueClosed /\ TodoNotMade
  BY <1>2 DEF Init, ThreadsComplete, QueueClosed, TodoNotMade
<1>4. CpuState
  BY DEF Init, CpuState, Interruptible, Frames, BootRips, KernelCS, UserCS
<1> QED
  BY <1>1, <1>3, <1>4 DEF IInv

\* A fresh context is a register file, and no null pointer.
LEMMA NewFramesAreFrames ==
    \A code \in {KernelCS, UserCS} :
        NewFrames(code) \subseteq Frames /\ NULL \notin NewFrames(code)
  BY SchedAssumption DEF NewFrames, Frames

\* Where switch_task leaves the processor: if every thread is complete and
\* SwitchTo has picked one of them, the rest of the invariant holds.
LEMMA RestoredState ==
    ASSUME TypeOK, QueueClosed, TodoNotMade,
           NEW t \in Made, Made' = Made,
           SwitchTo(t, context', fpu_state', gs_base', fs'),
           \A x \in Made : ThreadComplete(x)',
           mode = "isr", mode' = "iret", kgs = NULL, ~ intr,
           UNCHANGED <<halted, intr, regs, kgs, vec, sframe, user_stack_ptr,
                       start_of_queue, next, pagemap, todo>>,
           context' \in [Threads -> NewFrames(KernelCS) \cup NewFrames(UserCS) \cup {NULL}],
           fpu_state' \in [Threads -> FpuVals \cup {NULL}],
           gs_base' \in [Threads -> Threads \cup {NULL}],
           fs' \in [Threads -> FsVals \cup {NULL}]
    PROVE  TypeOK' /\ QueueClosed' /\ TodoNotMade' /\ CpuState'
<1> USE SchedAssumption
<1>1. t \in Threads /\ t # NULL /\ ThreadComplete(t)'
  BY DEF Made, Threads
<1>2. /\ current_thread' = t
      /\ frame' = context'[t]
      /\ frame' \in NewFrames(IF t \in Users THEN UserCS ELSE KernelCS)
      /\ cr3' = t
      /\ fpu' \in FpuVals
  BY <1>1 DEF SwitchTo, ThreadComplete
<1>3. frame' \in Frames /\ frame' # NULL
  BY <1>2, NewFramesAreFrames
<1>4. /\ frame'.cs = IF t \in Users THEN UserCS ELSE KernelCS
      /\ frame'.rip = "thread" /\ frame'.rsp \in Stacks
  BY <1>2 DEF NewFrames
<1>5. /\ fsbase' \in FsVals
      /\ gs' \in Threads \cup {NULL}
      /\ frame'.cs = UserCS => gs' = t
  BY <1>1, <1>2 DEF SwitchTo, ThreadComplete, TypeOK
<1>6. TypeOK'
  BY <1>1, <1>2, <1>3, <1>5 DEF TypeOK
<1>7. QueueClosed' /\ TodoNotMade'
  BY <1>2 DEF QueueClosed, TodoNotMade
<1>8. CpuState'
  BY <1>1, <1>2, <1>3, <1>4, <1>5 DEF CpuState, Interruptible
<1> QED
  BY <1>6, <1>7, <1>8

\* Every action of the kernel, the programs and the hardware keeps the
\* invariant.
LEMMA NextIInv == IInv /\ [Next]_vars => IInv'
<1> SUFFICES ASSUME IInv, [Next]_vars PROVE IInv'
  OBVIOUS
<1> USE SchedAssumption DEF cpuVars, stackVars, queueVars, threadVars, Goto, At
<1>0. TypeOK /\ ThreadsComplete /\ QueueClosed /\ TodoNotMade /\ CpuState
  BY DEF IInv
<1>1. CASE ApicCli
  <2>1. regs' \in Frames
    BY <1>0, <1>1 DEF ApicCli, TypeOK, CpuState, Interruptible, Frames, BootRips, SyscallRips, KernelCS, UserCS
  <2>2. TypeOK'
    BY <1>0, <1>1, <2>1 DEF ApicCli, TypeOK, CpuState, Interruptible, Threads
  <2>3. Made' = Made
    BY <1>0, <1>1 DEF ApicCli, Made
  <2>4. ThreadsComplete'
    BY <1>0, <1>1, <2>3 DEF ApicCli, ThreadsComplete, ThreadComplete
  <2>5. QueueClosed'
    BY <1>0, <1>1, <2>3 DEF ApicCli, QueueClosed
  <2>6. TodoNotMade'
    BY <1>0, <1>1, <2>3 DEF ApicCli, TodoNotMade
  <2>7. CpuState'
    BY <1>0, <1>1, <2>1 DEF ApicCli, CpuState, Interruptible, TypeOK, Threads, Frames, BootRips, SyscallRips, KernelCS, UserCS
  <2> QED
    BY <2>2, <2>4, <2>5, <2>6, <2>7 DEF IInv
<1>2. CASE SchedInitKthread
  <2>1. PICK c \in NewFrames(KernelCS), f \in FsVals :
             /\ context' = [context EXCEPT ![Kthread] = c]
             /\ fs' = [fs EXCEPT ![Kthread] = f]
    BY <1>2 DEF SchedInitKthread
  <2>2. c # NULL /\ Kthread \in Threads /\ c.rsp \in Stacks
    BY NewFramesAreFrames DEF NewFrames, Threads
  <2>3. regs' \in Frames
    BY <1>0, <1>2 DEF SchedInitKthread, TypeOK, Frames, BootRips, SyscallRips, KernelCS, UserCS
  <2>4. TypeOK'
    BY <1>0, <1>2, <2>1, <2>2, <2>3 DEF SchedInitKthread, TypeOK
  <2>5. Made' = Made \cup {Kthread}
    BY <1>0, <2>1, <2>2 DEF Made, TypeOK
  <2>6. ThreadsComplete'
    <3> SUFFICES ASSUME NEW t \in Made' PROVE ThreadComplete(t)'
      BY DEF ThreadsComplete
    <3>1. CASE t = Kthread
      BY <1>0, <1>2, <2>1, <2>2, <3>1 DEF SchedInitKthread, ThreadComplete, TypeOK, Threads
    <3>2. CASE t # Kthread
      BY <1>0, <1>2, <2>1, <2>5, <3>2 DEF SchedInitKthread, ThreadsComplete, ThreadComplete, TypeOK, Made
    <3> QED
      BY <3>1, <3>2
  <2>7. QueueClosed'
    <3>1. Made = {} /\ current_thread = NULL
      BY <1>0, <1>2 DEF SchedInitKthread, QueueClosed, CpuState, Interruptible, SyscallRips
    <3> QED
      BY <1>0, <1>2, <2>2, <2>5, <3>1 DEF SchedInitKthread, QueueClosed, TypeOK
  <2>8. TodoNotMade'
    BY <1>0, <1>2, <2>5 DEF SchedInitKthread, TodoNotMade, TypeOK, Threads
  <2>9. CpuState'
    BY <1>0, <1>2, <2>2, <2>3 DEF SchedInitKthread, CpuState, Interruptible, TypeOK, Frames, BootRips, SyscallRips, KernelCS, UserCS, Threads
  <2> QED
    BY <2>4, <2>6, <2>7, <2>8, <2>9 DEF IInv
<1>3. ASSUME NEW u \in Users, LoadElf(u) PROVE IInv'
  <2>1. PICK c \in NewFrames(UserCS), f \in FsVals :
             /\ context' = [context EXCEPT ![u] = c]
             /\ fs' = [fs EXCEPT ![u] = f]
             /\ user_stack_ptr' = [user_stack_ptr EXCEPT ![u] = c.rsp]
    BY <1>3 DEF LoadElf
  <2>2. c # NULL /\ u \in Threads /\ c.rsp \in Stacks
    BY NewFramesAreFrames DEF NewFrames, Threads
  <2>3. regs' \in Frames
    BY <1>0, <1>3 DEF LoadElf, TypeOK, Frames, BootRips, SyscallRips, KernelCS, UserCS
  <2>4. TypeOK'
    BY <1>0, <1>3, <2>1, <2>2, <2>3 DEF LoadElf, TypeOK
  <2>5. Made' = Made \cup {u}
    BY <1>0, <2>1, <2>2 DEF Made, TypeOK
  <2>6. ThreadsComplete'
    <3> SUFFICES ASSUME NEW t \in Made' PROVE ThreadComplete(t)'
      BY DEF ThreadsComplete
    <3>1. CASE t = u
      BY <1>0, <1>3, <2>1, <2>2, <3>1 DEF LoadElf, ThreadComplete, TypeOK, Threads
    <3>2. CASE t # u
      BY <1>0, <1>3, <2>1, <2>5, <3>2 DEF LoadElf, ThreadsComplete, ThreadComplete, TypeOK, Made
    <3> QED
      BY <3>1, <3>2
  <2>7. QueueClosed'
    BY <1>0, <1>3, <2>2, <2>5 DEF LoadElf, QueueClosed, TypeOK, CpuState, Interruptible, Made
  <2>8. TodoNotMade'
    BY <1>0, <1>3, <2>5 DEF LoadElf, TodoNotMade, TypeOK, Threads
  <2>9. CpuState'
    BY <1>0, <1>3, <2>2, <2>3 DEF LoadElf, CpuState, Interruptible, TypeOK, Frames, BootRips, SyscallRips, KernelCS, UserCS, Threads
  <2> QED
    BY <2>4, <2>6, <2>7, <2>8, <2>9 DEF IInv
<1>4. ASSUME NEW u \in Users, LoadElfFails(u) PROVE IInv'
  <2>1. regs' \in Frames
    BY <1>0, <1>4 DEF LoadElfFails, TypeOK, CpuState, Interruptible, Frames, BootRips, SyscallRips, KernelCS, UserCS
  <2>2. TypeOK'
    BY <1>0, <1>4, <2>1 DEF LoadElfFails, TypeOK, CpuState, Interruptible, Threads
  <2>3. Made' = Made
    BY <1>0, <1>4 DEF LoadElfFails, Made
  <2>4. ThreadsComplete'
    BY <1>0, <1>4, <2>3 DEF LoadElfFails, ThreadsComplete, ThreadComplete
  <2>5. QueueClosed'
    BY <1>0, <1>4, <2>3 DEF LoadElfFails, QueueClosed
  <2>6. TodoNotMade'
    BY <1>0, <1>4, <2>3 DEF LoadElfFails, TodoNotMade
  <2>7. CpuState'
    BY <1>0, <1>4, <2>1 DEF LoadElfFails, CpuState, Interruptible, TypeOK, Threads, Frames, BootRips, SyscallRips, KernelCS, UserCS
  <2> QED
    BY <2>2, <2>4, <2>5, <2>6, <2>7 DEF IInv
<1>5. CASE LoadPanics
  <2>1. regs' \in Frames
    BY <1>0, <1>5 DEF LoadPanics, TypeOK, CpuState, Interruptible, Frames, BootRips, SyscallRips, KernelCS, UserCS
  <2>2. TypeOK'
    BY <1>0, <1>5, <2>1 DEF LoadPanics, TypeOK, CpuState, Interruptible, Threads
  <2>3. Made' = Made
    BY <1>0, <1>5 DEF LoadPanics, Made
  <2>4. ThreadsComplete'
    BY <1>0, <1>5, <2>3 DEF LoadPanics, ThreadsComplete, ThreadComplete
  <2>5. QueueClosed'
    BY <1>0, <1>5, <2>3 DEF LoadPanics, QueueClosed
  <2>6. TodoNotMade'
    BY <1>0, <1>5, <2>3 DEF LoadPanics, TodoNotMade
  <2>7. CpuState'
    BY <1>0, <1>5, <2>1 DEF LoadPanics, CpuState, Interruptible, TypeOK, Threads, Frames, BootRips, SyscallRips, KernelCS, UserCS
  <2> QED
    BY <2>2, <2>4, <2>5, <2>6, <2>7 DEF IInv
<1>6. CASE SchedInitSti
  <2>1. regs' \in Frames
    BY <1>0, <1>6 DEF SchedInitSti, TypeOK, CpuState, Interruptible, Frames, BootRips, SyscallRips, KernelCS, UserCS
  <2>2. TypeOK'
    BY <1>0, <1>6, <2>1 DEF SchedInitSti, TypeOK, CpuState, Interruptible, Threads
  <2>3. Made' = Made
    BY <1>0, <1>6 DEF SchedInitSti, Made
  <2>4. ThreadsComplete'
    BY <1>0, <1>6, <2>3 DEF SchedInitSti, ThreadsComplete, ThreadComplete
  <2>5. QueueClosed'
    BY <1>0, <1>6, <2>3 DEF SchedInitSti, QueueClosed
  <2>6. TodoNotMade'
    BY <1>0, <1>6, <2>3 DEF SchedInitSti, TodoNotMade
  <2>7. CpuState'
    BY <1>0, <1>6, <2>1 DEF SchedInitSti, CpuState, Interruptible, TypeOK, Threads, Frames, BootRips, SyscallRips, KernelCS, UserCS
  <2> QED
    BY <2>2, <2>4, <2>5, <2>6, <2>7 DEF IInv
<1>7. CASE ThreadStep
  <2>1. regs' \in Frames
    <3>1. PICK g \in Vals, s \in Stacks : regs' = [regs EXCEPT !.gpr = g, !.rsp = s]
      BY <1>7 DEF ThreadStep
    <3> QED
      BY <1>0, <3>1 DEF TypeOK, Frames
  <2>2. TypeOK'
    BY <1>0, <1>7, <2>1 DEF ThreadStep, TypeOK, CpuState, Interruptible, Threads
  <2>3. Made' = Made
    BY <1>0, <1>7 DEF ThreadStep, Made
  <2>4. ThreadsComplete'
    BY <1>0, <1>7, <2>3 DEF ThreadStep, ThreadsComplete, ThreadComplete
  <2>5. QueueClosed'
    BY <1>0, <1>7, <2>3 DEF ThreadStep, QueueClosed
  <2>6. TodoNotMade'
    BY <1>0, <1>7, <2>3 DEF ThreadStep, TodoNotMade
  <2>7. CpuState'
    BY <1>0, <1>7, <2>1 DEF ThreadStep, CpuState, Interruptible, TypeOK, Threads, Frames, BootRips, SyscallRips, KernelCS, UserCS
  <2> QED
    BY <2>2, <2>4, <2>5, <2>6, <2>7 DEF IInv
<1>8. CASE Exception
  <2>1. regs' \in Frames
    BY <1>0, <1>8 DEF Exception, TypeOK, CpuState, Interruptible, Frames, BootRips, SyscallRips, KernelCS, UserCS
  <2>2. TypeOK'
    BY <1>0, <1>8, <2>1 DEF Exception, TypeOK, CpuState, Interruptible, Threads
  <2>3. Made' = Made
    BY <1>0, <1>8 DEF Exception, Made
  <2>4. ThreadsComplete'
    BY <1>0, <1>8, <2>3 DEF Exception, ThreadsComplete, ThreadComplete
  <2>5. QueueClosed'
    BY <1>0, <1>8, <2>3 DEF Exception, QueueClosed
  <2>6. TodoNotMade'
    BY <1>0, <1>8, <2>3 DEF Exception, TodoNotMade
  <2>7. CpuState'
    BY <1>0, <1>8, <2>1 DEF Exception, CpuState, Interruptible, TypeOK, Threads, Frames, BootRips, SyscallRips, KernelCS, UserCS
  <2> QED
    BY <2>2, <2>4, <2>5, <2>6, <2>7 DEF IInv
<1>9. ASSUME NEW v \in {TimerVec, KbdVec}, IrqEntry(v) PROVE IInv'
  <2>1. regs' \in Frames
    <3>1. PICK g \in Vals : regs' = [regs EXCEPT !.cs = KernelCS, !.gpr = g]
      BY <1>9 DEF IrqEntry
    <3> QED
      BY <1>0, <3>1 DEF TypeOK, Frames
  <2>2. TypeOK'
    BY <1>0, <1>9, <2>1 DEF IrqEntry, SwapGs, TypeOK, CpuState, Interruptible, Threads
  <2>3. Made' = Made
    BY <1>0, <1>9 DEF IrqEntry, SwapGs, Made
  <2>4. ThreadsComplete'
    BY <1>0, <1>9, <2>3 DEF IrqEntry, SwapGs, ThreadsComplete, ThreadComplete
  <2>5. QueueClosed'
    BY <1>0, <1>9, <2>3 DEF IrqEntry, SwapGs, QueueClosed
  <2>6. TodoNotMade'
    BY <1>0, <1>9, <2>3 DEF IrqEntry, SwapGs, TodoNotMade
  <2>7. CpuState'
    BY <1>0, <1>9, <2>1 DEF IrqEntry, SwapGs, CpuState, Interruptible, TypeOK, Threads, Frames, BootRips, SyscallRips, KernelCS, UserCS
  <2> QED
    BY <2>2, <2>4, <2>5, <2>6, <2>7 DEF IInv
<1>10. CASE SchedMeow
  <2>1. frame \in Frames /\ Interruptible(frame) /\ kgs = NULL /\ ~ intr
    BY <1>0, <1>10 DEF SchedMeow, CpuState, Interruptible
  <2>2. ASSUME NEW t \in Made PROVE ThreadComplete(t) /\ t \in Threads /\ t # NULL
    BY <1>0 DEF ThreadsComplete, Made, Threads
  <2>3. CASE current_thread # NULL
    <3> DEFINE c == current_thread
    <3>1. c \in Made /\ c \in Threads
      BY <1>0, <2>3 DEF QueueClosed, Made
    <3>2. frame \in NewFrames(IF c \in Users THEN UserCS ELSE KernelCS) /\ frame # NULL
      BY <2>1, <2>3 DEF Interruptible, NewFrames, Frames, BootRips, SyscallRips
    <3>3. SaveCurrent
      BY <1>10, <2>3 DEF SchedMeow, SwitchTask
    <3>4. Made' = Made
      BY <1>0, <3>1, <3>2, <3>3 DEF SaveCurrent, Made, TypeOK
    <3>5. (context[c].cs = UserCS) <=> (c \in Users)
      BY <2>2, <3>1 DEF ThreadComplete, NewFrames, UserCS, KernelCS
    <3>6. c \in Users => gs = c
      BY <1>0, <1>10, <2>1, <2>3, <3>1 DEF SchedMeow, CpuState, Interruptible, BootRips
    <3>7. ASSUME NEW x \in Made PROVE ThreadComplete(x)'
      <4>1. CASE x = c
        BY <1>0, <1>10, <2>2, <3>1, <3>2, <3>3, <3>5, <3>6, <4>1
           DEF SaveCurrent, SchedMeow, ThreadComplete, TypeOK
      <4>2. CASE x # c
        BY <1>0, <1>10, <2>2, <3>1, <3>3, <4>2
           DEF SaveCurrent, SchedMeow, ThreadComplete, TypeOK
      <4> QED
        BY <4>1, <4>2
    <3>8. PICK t \in Made : SwitchTo(t, context', fpu_state', gs_base', fs')
      BY <1>0, <1>10, <2>2, <2>3, <3>1 DEF SchedMeow, SwitchTask, Successor, QueueClosed
    <3>9. TypeOK' /\ QueueClosed' /\ TodoNotMade' /\ CpuState'
      <4>1. context' \in [Threads -> NewFrames(KernelCS) \cup NewFrames(UserCS) \cup {NULL}]
        BY <1>0, <3>1, <3>2, <3>3 DEF SaveCurrent, TypeOK
      <4>2. /\ fpu_state' \in [Threads -> FpuVals \cup {NULL}]
            /\ gs_base' \in [Threads -> Threads \cup {NULL}]
            /\ fs' \in [Threads -> FsVals \cup {NULL}]
        BY <1>0, <3>1, <3>3 DEF SaveCurrent, TypeOK
      <4> QED
        BY <1>0, <1>10, <2>1, <2>2, <3>4, <3>7, <3>8, <4>1, <4>2, RestoredState
           DEF SchedMeow
    <3> QED
      BY <3>4, <3>7, <3>9 DEF IInv, ThreadsComplete
  <2>4. CASE current_thread = NULL /\ start_of_queue # NULL
    <3>1. start_of_queue \in Made
      BY <1>0, <2>4 DEF QueueClosed
    <3>2. SwitchTo(start_of_queue, context', fpu_state', gs_base', fs')
          /\ UNCHANGED <<context, fpu_state, gs_base, fs>>
      BY <1>10, <2>4 DEF SchedMeow, SwitchTask, SwitchTo
    <3>3. Made' = Made
      BY <3>2 DEF Made
    <3>4. ASSUME NEW x \in Made PROVE ThreadComplete(x)'
      BY <1>10, <2>2, <3>2 DEF SchedMeow, ThreadComplete
    <3>5. TypeOK' /\ QueueClosed' /\ TodoNotMade' /\ CpuState'
      BY <1>0, <1>10, <2>1, <2>2, <3>1, <3>2, <3>3, <3>4, RestoredState DEF SchedMeow, TypeOK
    <3> QED
      BY <3>3, <3>4, <3>5 DEF IInv, ThreadsComplete
  <2>5. CASE current_thread = NULL /\ start_of_queue = NULL
    <3>1. UNCHANGED <<current_thread, frame, fpu, gs, fsbase, cr3,
                      context, fpu_state, gs_base, fs>>
      BY <1>10, <2>5 DEF SchedMeow, SwitchTask
    <3>2. Made' = Made
      BY <3>1 DEF Made
    <3> QED
      BY <1>0, <1>10, <2>1, <3>1, <3>2 DEF SchedMeow, IInv, TypeOK, ThreadsComplete,
         ThreadComplete, QueueClosed, TodoNotMade, CpuState, Interruptible
  <2> QED
    BY <2>3, <2>4, <2>5
<1>11. CASE Ps2Handler
  <2>1. regs' \in Frames
    BY <1>0, <1>11 DEF Ps2Handler, TypeOK, CpuState, Interruptible, Frames, BootRips, SyscallRips, KernelCS, UserCS
  <2>2. TypeOK'
    BY <1>0, <1>11, <2>1 DEF Ps2Handler, TypeOK, CpuState, Interruptible, Threads
  <2>3. Made' = Made
    BY <1>0, <1>11 DEF Ps2Handler, Made
  <2>4. ThreadsComplete'
    BY <1>0, <1>11, <2>3 DEF Ps2Handler, ThreadsComplete, ThreadComplete
  <2>5. QueueClosed'
    BY <1>0, <1>11, <2>3 DEF Ps2Handler, QueueClosed
  <2>6. TodoNotMade'
    BY <1>0, <1>11, <2>3 DEF Ps2Handler, TodoNotMade
  <2>7. CpuState'
    BY <1>0, <1>11, <2>1 DEF Ps2Handler, CpuState, Interruptible, TypeOK, Threads, Frames, BootRips, SyscallRips, KernelCS, UserCS
  <2> QED
    BY <2>2, <2>4, <2>5, <2>6, <2>7 DEF IInv
<1>12. CASE Ps2Panics
  <2>1. regs' \in Frames
    BY <1>0, <1>12 DEF Ps2Panics, TypeOK, CpuState, Interruptible, Frames, BootRips, SyscallRips, KernelCS, UserCS
  <2>2. TypeOK'
    BY <1>0, <1>12, <2>1 DEF Ps2Panics, TypeOK, CpuState, Interruptible, Threads
  <2>3. Made' = Made
    BY <1>0, <1>12 DEF Ps2Panics, Made
  <2>4. ThreadsComplete'
    BY <1>0, <1>12, <2>3 DEF Ps2Panics, ThreadsComplete, ThreadComplete
  <2>5. QueueClosed'
    BY <1>0, <1>12, <2>3 DEF Ps2Panics, QueueClosed
  <2>6. TodoNotMade'
    BY <1>0, <1>12, <2>3 DEF Ps2Panics, TodoNotMade
  <2>7. CpuState'
    BY <1>0, <1>12, <2>1 DEF Ps2Panics, CpuState, Interruptible, TypeOK, Threads, Frames, BootRips, SyscallRips, KernelCS, UserCS
  <2> QED
    BY <2>2, <2>4, <2>5, <2>6, <2>7 DEF IInv
<1>13. CASE StubExit
  <2>1. regs' \in Frames
    BY <1>0, <1>13 DEF StubExit, SwapGs, TypeOK, CpuState, Interruptible, Frames, BootRips, SyscallRips, KernelCS, UserCS
  <2>2. TypeOK'
    BY <1>0, <1>13, <2>1 DEF StubExit, SwapGs, TypeOK, CpuState, Interruptible, Threads
  <2>3. Made' = Made
    BY <1>0, <1>13 DEF StubExit, SwapGs, Made
  <2>4. ThreadsComplete'
    BY <1>0, <1>13, <2>3 DEF StubExit, SwapGs, ThreadsComplete, ThreadComplete
  <2>5. QueueClosed'
    BY <1>0, <1>13, <2>3 DEF StubExit, SwapGs, QueueClosed
  <2>6. TodoNotMade'
    BY <1>0, <1>13, <2>3 DEF StubExit, SwapGs, TodoNotMade
  <2>7. CpuState'
    BY <1>0, <1>13, <2>1 DEF StubExit, SwapGs, CpuState, Interruptible, TypeOK, Threads, Frames, BootRips, SyscallRips, KernelCS, UserCS
  <2> QED
    BY <2>2, <2>4, <2>5, <2>6, <2>7 DEF IInv
<1>14. CASE SyscallEntry
  <2>0. /\ current_thread \in Users /\ kgs = current_thread /\ gs = NULL
        /\ regs.rsp \in Stacks /\ regs.gpr \in Vals
    BY <1>0, <1>14 DEF SyscallEntry, CpuState, Interruptible, TypeOK, Frames, KernelCS, UserCS, SyscallRips
  <2>1. regs' \in Frames
    BY <1>0, <1>14 DEF SyscallEntry, SwapGs, TypeOK, CpuState, Interruptible, Frames, BootRips, SyscallRips, KernelCS, UserCS
  <2>2. TypeOK'
    BY <1>0, <1>14, <2>0, <2>1 DEF SyscallEntry, SwapGs, TypeOK, Threads
  <2>3. Made' = Made
    BY <1>0, <1>14 DEF SyscallEntry, SwapGs, Made
  <2>4. ThreadsComplete'
    BY <1>0, <1>14, <2>0, <2>3 DEF SyscallEntry, SwapGs, ThreadsComplete, ThreadComplete, TypeOK, Made
  <2>5. QueueClosed'
    BY <1>0, <1>14, <2>3 DEF SyscallEntry, SwapGs, QueueClosed
  <2>6. TodoNotMade'
    BY <1>0, <1>14, <2>3 DEF SyscallEntry, SwapGs, TodoNotMade
  <2>7. CpuState'
    BY <1>0, <1>14, <2>1 DEF SyscallEntry, SwapGs, CpuState, Interruptible, TypeOK, Threads, Frames, BootRips, SyscallRips, KernelCS, UserCS
  <2> QED
    BY <2>2, <2>4, <2>5, <2>6, <2>7 DEF IInv
<1>15. CASE SyscallFs
  <2>1. regs' \in Frames
    <3>1. PICK g \in Vals : regs' = [regs EXCEPT !.rip = "sysret", !.gpr = g]
      BY <1>15 DEF SyscallFs
    <3> QED
      BY <1>0, <3>1 DEF TypeOK, Frames, SyscallRips
  <2>2. TypeOK'
    BY <1>0, <1>15, <2>1 DEF SyscallFs, TypeOK, CpuState, Interruptible, Threads
  <2>3. Made' = Made
    BY <1>0, <1>15 DEF SyscallFs, Made
  <2>4. ThreadsComplete'
    BY <1>0, <1>15, <2>3 DEF SyscallFs, ThreadsComplete, ThreadComplete
  <2>5. QueueClosed'
    BY <1>0, <1>15, <2>3 DEF SyscallFs, QueueClosed
  <2>6. TodoNotMade'
    BY <1>0, <1>15, <2>3 DEF SyscallFs, TodoNotMade
  <2>7. CpuState'
    BY <1>0, <1>15, <2>1 DEF SyscallFs, CpuState, Interruptible, TypeOK, Threads, Frames, BootRips, SyscallRips, KernelCS, UserCS
  <2> QED
    BY <2>2, <2>4, <2>5, <2>6, <2>7 DEF IInv
<1>16. CASE SyscallOther
  <2>1. regs' \in Frames
    <3>1. PICK g \in Vals : regs' = [regs EXCEPT !.rip = "sysret", !.gpr = g]
      BY <1>16 DEF SyscallOther
    <3> QED
      BY <1>0, <3>1 DEF TypeOK, Frames, SyscallRips
  <2>2. TypeOK'
    BY <1>0, <1>16, <2>1 DEF SyscallOther, TypeOK, CpuState, Interruptible, Threads
  <2>3. Made' = Made
    BY <1>0, <1>16 DEF SyscallOther, Made
  <2>4. ThreadsComplete'
    BY <1>0, <1>16, <2>3 DEF SyscallOther, ThreadsComplete, ThreadComplete
  <2>5. QueueClosed'
    BY <1>0, <1>16, <2>3 DEF SyscallOther, QueueClosed
  <2>6. TodoNotMade'
    BY <1>0, <1>16, <2>3 DEF SyscallOther, TodoNotMade
  <2>7. CpuState'
    BY <1>0, <1>16, <2>1 DEF SyscallOther, CpuState, Interruptible, TypeOK, Threads, Frames, BootRips, SyscallRips, KernelCS, UserCS
  <2> QED
    BY <2>2, <2>4, <2>5, <2>6, <2>7 DEF IInv
<1>17. CASE SyscallPanics
  <2>1. regs' \in Frames
    BY <1>0, <1>17 DEF SyscallPanics, TypeOK, CpuState, Interruptible, Frames, BootRips, SyscallRips, KernelCS, UserCS
  <2>2. TypeOK'
    BY <1>0, <1>17, <2>1 DEF SyscallPanics, TypeOK, CpuState, Interruptible, Threads
  <2>3. Made' = Made
    BY <1>0, <1>17 DEF SyscallPanics, Made
  <2>4. ThreadsComplete'
    BY <1>0, <1>17, <2>3 DEF SyscallPanics, ThreadsComplete, ThreadComplete
  <2>5. QueueClosed'
    BY <1>0, <1>17, <2>3 DEF SyscallPanics, QueueClosed
  <2>6. TodoNotMade'
    BY <1>0, <1>17, <2>3 DEF SyscallPanics, TodoNotMade
  <2>7. CpuState'
    BY <1>0, <1>17, <2>1 DEF SyscallPanics, CpuState, Interruptible, TypeOK, Threads, Frames, BootRips, SyscallRips, KernelCS, UserCS
  <2> QED
    BY <2>2, <2>4, <2>5, <2>6, <2>7 DEF IInv
<1>18. CASE SyscallExit
  <2>1. regs' \in Frames
    <3>1. /\ current_thread \in Users /\ gs = current_thread /\ regs.rsp = current_thread
          /\ sframe[current_thread] \in Vals
      BY <1>0, <1>18 DEF SyscallExit, CpuState, Interruptible, SyscallRips
    <3>2. user_stack_ptr[current_thread] \in Stacks
      BY <1>0, <3>1 DEF ThreadsComplete, ThreadComplete, QueueClosed, Threads
    <3> QED
      BY <1>18, <3>1, <3>2 DEF SyscallExit, Frames
  <2>2. TypeOK'
    BY <1>0, <1>18, <2>1 DEF SyscallExit, SwapGs, TypeOK, CpuState, Interruptible, Threads
  <2>3. Made' = Made
    BY <1>0, <1>18 DEF SyscallExit, SwapGs, Made
  <2>4. ThreadsComplete'
    BY <1>0, <1>18, <2>3 DEF SyscallExit, SwapGs, ThreadsComplete, ThreadComplete
  <2>5. QueueClosed'
    BY <1>0, <1>18, <2>3 DEF SyscallExit, SwapGs, QueueClosed
  <2>6. TodoNotMade'
    BY <1>0, <1>18, <2>3 DEF SyscallExit, SwapGs, TodoNotMade
  <2>7. CpuState'
    BY <1>0, <1>18, <2>1 DEF SyscallExit, SwapGs, CpuState, Interruptible, TypeOK, Threads, Frames, BootRips, SyscallRips, KernelCS, UserCS
  <2> QED
    BY <2>2, <2>4, <2>5, <2>6, <2>7 DEF IInv
<1>19. CASE UNCHANGED vars
  BY <1>0, <1>19 DEF vars, IInv, TypeOK, Made, ThreadsComplete, ThreadComplete, QueueClosed, TodoNotMade, CpuState, Interruptible
<1> QED
  BY <1>1, <1>2, <1>3, <1>4, <1>5, <1>6, <1>7, <1>8, <1>9, <1>10, <1>11, <1>12, <1>13, <1>14, <1>15, <1>16, <1>17, <1>18, <1>19 DEF Next, Halt

\* The invariant holds in every reachable state.
THEOREM Invariance == Spec => []IInv
<1>1. Init => IInv
  BY InitIInv
<1>2. IInv /\ [Next]_vars => IInv'
  BY NextIInv
<1> QED
  BY <1>1, <1>2, PTL DEF Spec

\* The types of sched.h hold throughout.
THEOREM TypeCorrect == Spec => []TypeOK
<1>1. IInv => TypeOK
  BY DEF IInv
<1> QED
  BY <1>1, Invariance, PTL

\* Ring 3 code always runs in its own address space with its own kernel
\* entry block behind swapgs, and a system call on its own kernel stack.
THEOREM KernelEntrySafe == Spec => [](UserModeState /\ SyscallState)
<1>1. IInv => UserModeState /\ SyscallState
  <2> SUFFICES ASSUME IInv PROVE UserModeState /\ SyscallState
    OBVIOUS
  <2> USE SchedAssumption
  <2>1. TypeOK /\ CpuState
    BY DEF IInv
  <2>2. UserModeState
    BY <2>1 DEF UserModeState, CpuState, Interruptible, TypeOK, Threads, KernelCS, UserCS
  <2>3. SyscallState
    BY <2>1 DEF SyscallState, CpuState, Interruptible, SyscallRips
  <2> QED
    BY <2>2, <2>3
<1> QED
  BY <1>1, Invariance, PTL

\* The saved code selector identifies user threads, each thread's saved entry
\* block and page map are its own, and the queue leads only to real threads.
THEOREM QueueSafe == Spec => [](SavedState /\ QueueClosed)
<1>1. IInv => SavedState /\ QueueClosed
  BY DEF IInv, SavedState, ThreadsComplete, ThreadComplete, NewFrames, KernelCS, UserCS
<1> QED
  BY <1>1, Invariance, PTL

\* No switch happens inside a system call.
THEOREM NoPreemption == Spec => SyscallsNotPreempted
<1>1. IInv /\ [Next]_vars => [current_thread' # current_thread => frame.rip \in {"idle", "thread"}]_vars
  <2> SUFFICES ASSUME IInv, Next, current_thread' # current_thread
               PROVE  frame.rip \in {"idle", "thread"}
    OBVIOUS
  <2>1. SchedMeow
    BY DEF Next, ApicCli, SchedInitKthread, LoadElf, LoadElfFails, LoadPanics, SchedInitSti,
           ThreadStep, Exception, IrqEntry, Ps2Handler, Ps2Panics, StubExit, SyscallEntry,
           SyscallFs, SyscallOther, SyscallPanics, SyscallExit, Halt,
           vars, cpuVars, stackVars, queueVars, threadVars
  <2>2. Interruptible(frame)
    BY <2>1 DEF SchedMeow, IInv, CpuState
  <2>3. start_of_queue # NULL
    BY <2>1 DEF SchedMeow, SwitchTask, SwitchTo, IInv, QueueClosed, TypeOK
  <2> QED
    BY <2>2, <2>3 DEF Interruptible
<1> QED
  BY <1>1, Invariance, PTL DEF Spec, SyscallsNotPreempted

------------------------------------------------------------------------------
(* The scheduler implements ThreadMachine.                                 *)

\* A step that leaves the threads, the current thread and every machine alone
\* is a stuttering step of ThreadMachine.
LEMMA StutterBar ==
    ASSUME Made' = Made, current_thread' = current_thread,
           \A t \in Made : MachineOf(t)' = MachineOf(t)
    PROVE  UNCHANGED <<current_thread, MachineBar>>
  BY DEF MachineBar, Threads

\* A thread's machine is complete: it is one of ThreadMachine's.
LEMMA MachineType == IInv => \A t \in Made : MachineOf(t) \in Machine!Machines
<1> USE SchedAssumption
<1> SUFFICES ASSUME IInv, NEW t \in Made PROVE MachineOf(t) \in Machine!Machines
  OBVIOUS
<1>1. TypeOK /\ ThreadComplete(t) /\ CpuState /\ t \in Threads
  BY DEF IInv, ThreadsComplete, Made
<1>2. context[t].rip = "thread" /\ context[t].gpr \in Vals /\ context[t].rsp \in Stacks
  BY <1>1 DEF ThreadComplete, NewFrames
<1>3. CASE current_thread # t
  BY <1>1, <1>2, <1>3 DEF MachineOf, View, Machine!Machines, ThreadComplete, SyscallRips
<1>4. CASE current_thread = t /\ mode # "exec"
  BY <1>1, <1>4 DEF MachineOf, View, Machine!Machines, TypeOK, CpuState, Interruptible,
                    Frames, SyscallRips
<1>5. CASE current_thread = t /\ mode = "exec"
  BY <1>1, <1>5 DEF MachineOf, View, Machine!Machines, TypeOK, CpuState, Interruptible,
                    Frames, SyscallRips, ThreadComplete, Threads
<1> QED
  BY <1>3, <1>4, <1>5

\* The same in the state after a step.
LEMMA MachineTypePrime == IInv' => (\A t \in Made : MachineOf(t) \in Machine!Machines)'
  BY MachineType, PTL

\* A created thread has a machine in the abstract state.
LEMMA MadeHasMachine == IInv => \A t \in Made : MachineBar[t] # NULL
  BY MachineType, SchedAssumption DEF MachineBar, Machine!Machines, Made

\* Every step of the kernel is a step of ThreadMachine or changes nothing of it.
LEMMA StepRefines ==
    IInv /\ IInv' /\ [Next]_vars => [Machine!ANext]_<<current_thread, MachineBar>>
<1> SUFFICES ASSUME IInv, IInv', [Next]_vars
             PROVE  Machine!ANext \/ UNCHANGED <<current_thread, MachineBar>>
  OBVIOUS
<1> USE SchedAssumption DEF cpuVars, stackVars, queueVars, threadVars, Goto, At
<1>0. TypeOK /\ ThreadsComplete /\ QueueClosed /\ TodoNotMade /\ CpuState
  BY DEF IInv
<1>1. CASE ApicCli
  <2>1. Made' = Made /\ current_thread' = current_thread
    BY <1>1 DEF ApicCli, Made
  <2>2. ASSUME NEW t \in Made PROVE MachineOf(t)' = MachineOf(t)
    BY <1>0, <1>1 DEF ApicCli, MachineOf, View, CpuState, Interruptible, SyscallRips, TypeOK, Frames, Made, KernelCS, UserCS, Threads
  <2> QED
    BY <2>1, <2>2, StutterBar
<1>2. ASSUME NEW u \in Users, LoadElfFails(u) PROVE UNCHANGED <<current_thread, MachineBar>>
  <2>1. Made' = Made /\ current_thread' = current_thread
    BY <1>2 DEF LoadElfFails, Made
  <2>2. ASSUME NEW t \in Made PROVE MachineOf(t)' = MachineOf(t)
    BY <1>0, <1>2 DEF LoadElfFails, MachineOf, View, CpuState, Interruptible, SyscallRips, TypeOK, Frames, Made, KernelCS, UserCS, Threads
  <2> QED
    BY <2>1, <2>2, StutterBar
<1>3. CASE LoadPanics
  <2>1. Made' = Made /\ current_thread' = current_thread
    BY <1>3 DEF LoadPanics, Made
  <2>2. ASSUME NEW t \in Made PROVE MachineOf(t)' = MachineOf(t)
    BY <1>0, <1>3 DEF LoadPanics, MachineOf, View, CpuState, Interruptible, SyscallRips, TypeOK, Frames, Made, KernelCS, UserCS, Threads
  <2> QED
    BY <2>1, <2>2, StutterBar
<1>4. CASE SchedInitSti
  <2>1. Made' = Made /\ current_thread' = current_thread
    BY <1>4 DEF SchedInitSti, Made
  <2>2. ASSUME NEW t \in Made PROVE MachineOf(t)' = MachineOf(t)
    BY <1>0, <1>4 DEF SchedInitSti, MachineOf, View, CpuState, Interruptible, SyscallRips, TypeOK, Frames, Made, KernelCS, UserCS, Threads
  <2> QED
    BY <2>1, <2>2, StutterBar
<1>5. CASE Exception
  <2>1. Made' = Made /\ current_thread' = current_thread
    BY <1>5 DEF Exception, Made
  <2>2. ASSUME NEW t \in Made PROVE MachineOf(t)' = MachineOf(t)
    BY <1>0, <1>5 DEF Exception, MachineOf, View, CpuState, Interruptible, SyscallRips, TypeOK, Frames, Made, KernelCS, UserCS, Threads
  <2> QED
    BY <2>1, <2>2, StutterBar
<1>6. ASSUME NEW v \in {TimerVec, KbdVec}, IrqEntry(v) PROVE UNCHANGED <<current_thread, MachineBar>>
  <2>1. Made' = Made /\ current_thread' = current_thread
    BY <1>6 DEF IrqEntry, Made
  <2>2. ASSUME NEW t \in Made PROVE MachineOf(t)' = MachineOf(t)
    BY <1>0, <1>6 DEF IrqEntry, SwapGs, MachineOf, View, CpuState, Interruptible, SyscallRips, TypeOK, Frames, Made, KernelCS, UserCS, Threads
  <2> QED
    BY <2>1, <2>2, StutterBar
<1>7. CASE Ps2Handler
  <2>1. Made' = Made /\ current_thread' = current_thread
    BY <1>7 DEF Ps2Handler, Made
  <2>2. ASSUME NEW t \in Made PROVE MachineOf(t)' = MachineOf(t)
    BY <1>0, <1>7 DEF Ps2Handler, MachineOf, View, CpuState, Interruptible, SyscallRips, TypeOK, Frames, Made, KernelCS, UserCS, Threads
  <2> QED
    BY <2>1, <2>2, StutterBar
<1>8. CASE Ps2Panics
  <2>1. Made' = Made /\ current_thread' = current_thread
    BY <1>8 DEF Ps2Panics, Made
  <2>2. ASSUME NEW t \in Made PROVE MachineOf(t)' = MachineOf(t)
    BY <1>0, <1>8 DEF Ps2Panics, MachineOf, View, CpuState, Interruptible, SyscallRips, TypeOK, Frames, Made, KernelCS, UserCS, Threads
  <2> QED
    BY <2>1, <2>2, StutterBar
<1>9. CASE StubExit
  <2>1. Made' = Made /\ current_thread' = current_thread
    BY <1>9 DEF StubExit, Made
  <2>2. ASSUME NEW t \in Made PROVE MachineOf(t)' = MachineOf(t)
    BY <1>0, <1>9 DEF StubExit, SwapGs, MachineOf, View, CpuState, Interruptible, SyscallRips, TypeOK, Frames, Made, KernelCS, UserCS, Threads
  <2> QED
    BY <2>1, <2>2, StutterBar
<1>10. CASE SyscallEntry
  <2>1. Made' = Made /\ current_thread' = current_thread
    BY <1>10 DEF SyscallEntry, Made
  <2>2. ASSUME NEW t \in Made PROVE MachineOf(t)' = MachineOf(t)
    BY <1>0, <1>10 DEF SyscallEntry, SwapGs, MachineOf, View, CpuState, Interruptible, SyscallRips, TypeOK, Frames, Made, KernelCS, UserCS, Threads
  <2> QED
    BY <2>1, <2>2, StutterBar
<1>11. CASE SyscallPanics
  <2>1. Made' = Made /\ current_thread' = current_thread
    BY <1>11 DEF SyscallPanics, Made
  <2>2. ASSUME NEW t \in Made PROVE MachineOf(t)' = MachineOf(t)
    BY <1>0, <1>11 DEF SyscallPanics, MachineOf, View, CpuState, Interruptible, SyscallRips, TypeOK, Frames, Made, KernelCS, UserCS, Threads
  <2> QED
    BY <2>1, <2>2, StutterBar
<1>12. CASE SyscallExit
  <2>1. Made' = Made /\ current_thread' = current_thread
    BY <1>12 DEF SyscallExit, Made
  <2>2. ASSUME NEW t \in Made PROVE MachineOf(t)' = MachineOf(t)
    BY <1>0, <1>12 DEF SyscallExit, SwapGs, MachineOf, View, CpuState, Interruptible, SyscallRips, TypeOK, Frames, Made, KernelCS, UserCS, Threads
  <2> QED
    BY <2>1, <2>2, StutterBar
<1>13. CASE UNCHANGED vars
  <2>1. Made' = Made /\ current_thread' = current_thread
    BY <1>13 DEF vars, Made
  <2>2. ASSUME NEW t \in Made PROVE MachineOf(t)' = MachineOf(t)
    BY <1>13 DEF vars, MachineOf, View
  <2> QED
    BY <2>1, <2>2, StutterBar
<1>14. CASE SchedInitKthread
  <2>1. PICK c \in NewFrames(KernelCS) : context' = [context EXCEPT ![Kthread] = c]
    BY <1>14 DEF SchedInitKthread
  <2>2. Kthread \in Threads /\ Kthread \notin Made /\ c # NULL
    BY <1>0, <1>14, NewFramesAreFrames DEF SchedInitKthread, TodoNotMade, Threads, QueueClosed, CpuState, Interruptible, SyscallRips
  <2>3. Made' = Made \cup {Kthread}
    BY <1>0, <2>1, <2>2 DEF Made, TypeOK
  <2>4. current_thread = NULL /\ current_thread' = NULL
    BY <1>0, <1>14 DEF SchedInitKthread, CpuState, Interruptible, SyscallRips
  <2>5. ASSUME NEW x \in Made PROVE MachineOf(x)' = MachineOf(x)
    BY <1>0, <1>14, <2>1, <2>2, <2>4 DEF SchedInitKthread, MachineOf, View, TypeOK, Made, Threads
  <2>6. MachineOf(Kthread)' \in Machine!Machines
    <3>1. (MachineOf(Kthread) \in Machine!Machines)'
      BY <2>3, MachineTypePrime
    <3> QED
      BY <3>1 DEF Machine!Machines
  <2>7. MachineBar' = [MachineBar EXCEPT ![Kthread] = MachineOf(Kthread)']
    BY <2>2, <2>3, <2>5 DEF MachineBar
  <2>8. MachineBar[Kthread] = NULL
    BY <2>2 DEF MachineBar
  <2>9. Machine!Spawn(Kthread)
    BY <2>4, <2>6, <2>7, <2>8 DEF Machine!Spawn
  <2> QED
    BY <2>2, <2>9 DEF Machine!ANext
<1>15. ASSUME NEW u \in Users, LoadElf(u) PROVE Machine!ANext
  <2>1. PICK c \in NewFrames(UserCS) : context' = [context EXCEPT ![u] = c]
    BY <1>15 DEF LoadElf
  <2>2. u \in Threads /\ u \notin Made /\ c # NULL
    BY <1>0, <1>15, NewFramesAreFrames DEF LoadElf, TodoNotMade, Threads, QueueClosed, CpuState, Interruptible, SyscallRips
  <2>3. Made' = Made \cup {u}
    BY <1>0, <2>1, <2>2 DEF Made, TypeOK
  <2>4. current_thread = NULL /\ current_thread' = NULL
    BY <1>0, <1>15 DEF LoadElf, CpuState, Interruptible, SyscallRips
  <2>5. ASSUME NEW x \in Made PROVE MachineOf(x)' = MachineOf(x)
    BY <1>0, <1>15, <2>1, <2>2, <2>4 DEF LoadElf, MachineOf, View, TypeOK, Made, Threads
  <2>6. MachineOf(u)' \in Machine!Machines
    <3>1. (MachineOf(u) \in Machine!Machines)'
      BY <2>3, MachineTypePrime
    <3> QED
      BY <3>1 DEF Machine!Machines
  <2>7. MachineBar' = [MachineBar EXCEPT ![u] = MachineOf(u)']
    BY <2>2, <2>3, <2>5 DEF MachineBar
  <2>8. MachineBar[u] = NULL
    BY <2>2 DEF MachineBar
  <2>9. Machine!Spawn(u)
    BY <2>4, <2>6, <2>7, <2>8 DEF Machine!Spawn
  <2> QED
    BY <2>2, <2>9 DEF Machine!ANext
<1>16. CASE ThreadStep
  <2> DEFINE c == current_thread
  <2>1. PICK g \in Vals, s \in Stacks : regs' = [regs EXCEPT !.gpr = g, !.rsp = s]
    BY <1>16 DEF ThreadStep
  <2>2. Made' = Made /\ c' = c /\ c \in Made /\ c # NULL /\ c \in Threads
    BY <1>0, <1>16 DEF ThreadStep, Made, QueueClosed, CpuState, Interruptible, SyscallRips
  <2>3. ASSUME NEW x \in Made, x # c PROVE MachineOf(x)' = MachineOf(x)
    BY <1>16, <2>2, <2>3 DEF ThreadStep, MachineOf, View
  <2>4. MachineOf(c)' = [gpr |-> g, rsp |-> s, fpu |-> fpu', tls |-> MachineOf(c).tls]
    BY <1>0, <1>16, <2>1, <2>2 DEF ThreadStep, MachineOf, View, TypeOK, Frames, SyscallRips
  <2>5. MachineBar' = [MachineBar EXCEPT ![c] = [gpr |-> g, rsp |-> s, fpu |-> fpu', tls |-> MachineBar[c].tls]]
    BY <2>2, <2>3, <2>4 DEF MachineBar
  <2>6. Machine!Run
    BY <1>16, <2>2, <2>5 DEF ThreadStep, Machine!Run
  <2> QED
    BY <2>6 DEF Machine!ANext
<1>17. CASE SyscallOther
  <2> DEFINE c == current_thread
  <2>1. PICK r \in Vals : sframe' = [sframe EXCEPT ![regs.rsp] = r]
    BY <1>17 DEF SyscallOther
  <2>2. PICK g \in Vals : regs' = [regs EXCEPT !.rip = "sysret", !.gpr = g]
    BY <1>17 DEF SyscallOther
  <2>3. Made' = Made /\ c' = c /\ c \in Made /\ c # NULL /\ c \in Threads /\ regs.rsp = c
    BY <1>0, <1>17 DEF SyscallOther, Made, QueueClosed, CpuState, Interruptible, SyscallRips, Threads
  <2>4. ASSUME NEW x \in Made, x # c PROVE MachineOf(x)' = MachineOf(x)
    BY <1>0, <1>17, <2>1, <2>3, <2>4 DEF SyscallOther, MachineOf, View, ThreadsComplete, ThreadComplete, NewFrames, SyscallRips
  <2>5. MachineOf(c)' = [gpr |-> r, rsp |-> MachineOf(c).rsp, fpu |-> MachineOf(c).fpu, tls |-> MachineOf(c).tls]
    BY <1>0, <1>17, <2>1, <2>2, <2>3 DEF SyscallOther, MachineOf, View, TypeOK, Frames, SyscallRips
  <2>6. MachineBar' = [MachineBar EXCEPT ![c] = [gpr |-> r, rsp |-> MachineBar[c].rsp, fpu |-> MachineBar[c].fpu, tls |-> MachineBar[c].tls]]
    BY <2>3, <2>4, <2>5 DEF MachineBar
  <2>7. MachineBar[c].rsp \in Stacks /\ MachineBar[c].fpu \in FpuVals
    BY <2>3, MachineType DEF MachineBar, Machine!Machines
  <2>8. Machine!Run
    BY <2>3, <2>6, <2>7 DEF Machine!Run
  <2> QED
    BY <2>8 DEF Machine!ANext
<1>18. CASE SyscallFs
  <2> DEFINE c == current_thread
  <2>1. PICK g \in Vals : regs' = [regs EXCEPT !.rip = "sysret", !.gpr = g]
    BY <1>18 DEF SyscallFs
  <2>2. Made' = Made /\ c' = c /\ c \in Made /\ c \in Users /\ c \in Threads
    BY <1>0, <1>18 DEF SyscallFs, Made, QueueClosed, CpuState, Interruptible, SyscallRips, Threads
  <2>3. ASSUME NEW x \in Made, x # c PROVE MachineOf(x)' = MachineOf(x)
    BY <1>18, <2>2, <2>3 DEF SyscallFs, MachineOf, View
  <2>4. MachineOf(c)' = [gpr |-> MachineOf(c).gpr, rsp |-> MachineOf(c).rsp, fpu |-> MachineOf(c).fpu, tls |-> fsbase']
    BY <1>0, <1>18, <2>1, <2>2 DEF SyscallFs, MachineOf, View, TypeOK, Frames, SyscallRips
  <2>5. MachineBar' = [MachineBar EXCEPT ![c] = [gpr |-> MachineBar[c].gpr, rsp |-> MachineBar[c].rsp, fpu |-> MachineBar[c].fpu, tls |-> fsbase']]
    BY <2>2, <2>3, <2>4 DEF MachineBar
  <2>6. Machine!SetTls
    BY <1>18, <2>2, <2>5 DEF SyscallFs, Machine!SetTls
  <2> QED
    BY <2>6 DEF Machine!ANext
<1>19. CASE SchedMeow
  <2>1. frame \in Frames /\ Interruptible(frame)
    BY <1>0, <1>19 DEF SchedMeow, CpuState, Interruptible
  <2>2. CASE current_thread = NULL /\ start_of_queue = NULL
    <3>1. Made' = Made /\ current_thread' = current_thread
      BY <1>19, <2>2 DEF SchedMeow, SwitchTask, Made
    <3>2. ASSUME NEW t \in Made PROVE MachineOf(t)' = MachineOf(t)
      BY <1>0, <1>19, <2>2 DEF QueueClosed
    <3> QED
      BY <3>1, <3>2, StutterBar
  <2>3. CASE current_thread = NULL /\ start_of_queue # NULL
    <3> DEFINE n == start_of_queue
    <3>1. n \in Made /\ n \in Threads /\ n # NULL
      BY <1>0, <2>3 DEF QueueClosed, Made
    <3>2. /\ SwitchTo(n, context, fpu_state, gs_base, fs)
          /\ UNCHANGED <<context, fpu_state, gs_base, fs>>
      BY <1>19, <2>3 DEF SchedMeow, SwitchTask
    <3>3. Made' = Made
      BY <3>2 DEF Made
    <3>4. ASSUME NEW t \in Made PROVE MachineOf(t)' = MachineOf(t)
      <4>1. t \in Threads /\ t # NULL /\ ThreadComplete(t)
        BY <1>0 DEF ThreadsComplete, Made, Threads
      <4> QED
        BY <1>19, <2>3, <3>2, <4>1 DEF SchedMeow, SwitchTo, MachineOf, View, ThreadComplete, NewFrames, KernelCS, UserCS
    <3>5. Machine!Switch(n)
      BY <3>1, <3>2, <3>3, <3>4, MadeHasMachine DEF SwitchTo, Machine!Switch, MachineBar
    <3> QED
      BY <3>1, <3>5 DEF Machine!ANext
  <2>4. CASE current_thread # NULL
    <3> DEFINE c == current_thread
    <3>1. c \in Made /\ c \in Threads
      BY <1>0, <2>4 DEF QueueClosed, Made
    <3>2. frame \in NewFrames(IF c \in Users THEN UserCS ELSE KernelCS) /\ frame # NULL
      BY <2>1, <2>4 DEF Interruptible, NewFrames, Frames, BootRips, SyscallRips
    <3>3. SaveCurrent
      BY <1>19, <2>4 DEF SchedMeow, SwitchTask
    <3>4. Made' = Made
      BY <1>0, <3>1, <3>2, <3>3 DEF SaveCurrent, Made, TypeOK
    <3>5. PICK n \in Made : SwitchTo(n, context', fpu_state', gs_base', fs')
      BY <1>0, <1>19, <2>4, <3>1 DEF SchedMeow, SwitchTask, Successor, QueueClosed
    <3>6. ASSUME NEW t \in Made PROVE MachineOf(t)' = MachineOf(t)
      <4>1. t \in Threads /\ t # NULL /\ ThreadComplete(t) /\ ThreadComplete(t)'
        BY <1>0, <3>4 DEF ThreadsComplete, Made, Threads, IInv
      <4>2. /\ View(t)' = View(t)
            /\ View(t).rip = "thread"
        <5>1. context'[t] = IF t = c THEN frame ELSE context[t]
          BY <1>0, <3>1, <3>3, <4>1 DEF SaveCurrent, TypeOK
        <5>2. View(t)' = context'[t]
          BY <1>19, <3>5 DEF View, SwitchTo, SchedMeow
        <5>3. View(t) = context'[t]
          BY <1>19, <5>1 DEF View, SchedMeow
        <5> QED
          BY <4>1, <5>2, <5>3 DEF ThreadComplete, NewFrames
      <4>3. (IF current_thread = t THEN fpu ELSE fpu_state[t])'
             = IF current_thread = t THEN fpu ELSE fpu_state[t]
        BY <1>0, <3>1, <3>3, <3>5, <4>1 DEF SaveCurrent, SwitchTo, TypeOK
      <4>4. t \in Users => (IF current_thread = t THEN fsbase ELSE fs[t])'
                            = IF current_thread = t THEN fsbase ELSE fs[t]
        BY <1>0, <3>1, <3>3, <3>5, <4>1 DEF SaveCurrent, SwitchTo, TypeOK, ThreadComplete, NewFrames, KernelCS, UserCS
      <4> QED
        BY <4>2, <4>3, <4>4 DEF MachineOf, SyscallRips
    <3>7. Machine!Switch(n)
      BY <3>4, <3>5, <3>6, MadeHasMachine DEF SwitchTo, Machine!Switch, MachineBar, Made
    <3> QED
      BY <3>5, <3>7 DEF Machine!ANext, Made
  <2> QED
    BY <2>2, <2>3, <2>4
<1> QED
  BY <1>1, <1>2, <1>3, <1>4, <1>5, <1>6, <1>7, <1>8, <1>9, <1>10, <1>11, <1>12, <1>13, <1>14, <1>15, <1>16, <1>17, <1>18, <1>19 DEF Next, Halt

\* Context isolation for every number of programs: interrupts, switches and
\* system calls of sched.c, idtstub.asm and syscall.asm implement one private
\* machine per thread.
THEOREM Implementation == Spec => ContextIsolation
<1>1. Init => Machine!AInit
  BY SchedAssumption DEF Init, Machine!AInit, MachineBar, Made
<1>2. IInv /\ IInv' /\ [Next]_vars => [Machine!ANext]_Machine!avars
  BY StepRefines DEF Machine!avars
<1> QED
  BY <1>1, <1>2, Invariance, PTL DEF Spec, ContextIsolation, Machine!ASpec

==============================================================================

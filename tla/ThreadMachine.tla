---------------------------- MODULE ThreadMachine ----------------------------
(***************************************************************************)
(* What the scheduler, the interrupt stubs and the system call entry of    *)
(* Nyaux promise to the code they multiplex: every thread owns a private   *)
(* machine (general registers, stack pointer, FPU/SSE state and thread     *)
(* pointer), one thread runs at a time, only the running thread's machine  *)
(* changes, and a switch changes no machine at all.                        *)
(*                                                                         *)
(* Sched.tla implements this specification (SchedProofs.tla proves it).    *)
(***************************************************************************)

CONSTANTS
    Threads,    \* every thread that can ever be created
    Users,      \* those of them that run in ring 3
    Vals,       \* values of the general registers (taken as one)
    Stacks,     \* values of a thread's stack pointer
    FpuVals,    \* contents of the xsave area
    FsVals,     \* values of the FS base (the thread pointer)
    NULL

VARIABLES
    running,    \* the thread the processor executes, or NULL during boot
    machine     \* machine[t]: thread t's private machine, or NULL

avars == <<running, machine>>

Machines == [gpr: Vals, rsp: Stacks, fpu: FpuVals, tls: FsVals \cup {NULL}]

AInit ==
    /\ running = NULL
    /\ machine = [t \in Threads |-> NULL]

\* A thread is created before the first switch, with some initial machine.
Spawn(t) ==
    /\ running = NULL
    /\ machine[t] = NULL
    /\ \E m \in Machines : machine' = [machine EXCEPT ![t] = m]
    /\ UNCHANGED running

\* The processor goes over to another thread: no machine changes.
Switch(t) ==
    /\ machine[t] # NULL
    /\ running' = t
    /\ UNCHANGED machine

\* The running thread computes, or gets the result of a system call.
Run ==
    /\ running # NULL
    /\ \E g \in Vals, s \in Stacks, f \in FpuVals :
         machine' = [machine EXCEPT ![running] =
                       [gpr |-> g, rsp |-> s, fpu |-> f,
                        tls |-> machine[running].tls]]
    /\ UNCHANGED running

\* The running thread sets its thread pointer; nothing else of it changes.
SetTls ==
    /\ running \in Users
    /\ \E f \in FsVals :
         machine' = [machine EXCEPT ![running] =
                       [gpr |-> machine[running].gpr, rsp |-> machine[running].rsp,
                        fpu |-> machine[running].fpu, tls |-> f]]
    /\ UNCHANGED running

ANext ==
    \/ \E t \in Threads : Spawn(t) \/ Switch(t)
    \/ Run
    \/ SetTls

ASpec == AInit /\ [][ANext]_avars
==============================================================================

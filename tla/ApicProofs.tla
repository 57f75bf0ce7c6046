------------------------------- MODULE ApicProofs -------------------------------
(***************************************************************************)
(* For every machine of the shape MachinesAssumption gives: an EOI ends    *)
(* the handler's own interrupt, every interrupt finds its handler and      *)
(* every handler its byte, the keyboard's pin is the one that is opened,   *)
(* and a time slice is no shorter than 10 ms.                              *)
(***************************************************************************)
EXTENDS Apic, Lemmas

LEMMA MaxOfVectors ==
    ASSUME NEW S \in SUBSET (32..34), S # {}
    PROVE  Max(S) \in S
<1>1. \E x \in S : \A y \in S : x >= y
  <2>1. CASE 34 \in S
    BY <2>1
  <2>2. CASE 34 \notin S /\ 33 \in S
    <3>1. \A y \in S : 33 >= y
      BY <2>2
    <3> QED
      BY <2>2, <3>1, Zenon
  <2>3. CASE 34 \notin S /\ 33 \notin S
    <3>1. \A y \in S : y = 32
      BY <2>3
    <3>2. PICK z \in S : z = 32
      BY <3>1
    <3>3. 32 \in S /\ \A y \in S : 32 >= y
      BY <3>1, <3>2
    <3> QED
      BY <3>3, Zenon
  <2> QED
    BY <2>1, <2>2, <2>3
<1> QED
  BY <1>1, Zenon DEF Max
------------------------------------------------------------------------------
(* Interrupts and their handlers.                                          *)

Routing == {"route_high", "boot", "run", "syscall"}

\* The redirection entries of every IOAPIC are entries, and an open one has the
\* keyboard's vector and was opened by route_irq.
EntryOK(e) ==
    /\ e = [masked |-> e.masked, vec |-> e.vec, low |-> e.low, level |-> e.level, dest |-> e.dest]
    /\ e.masked \in BOOLEAN
    /\ ~e.masked => e.vec = KbdVec /\ pc \in Routing

RedirRight ==
    /\ DOMAIN redir = Chips
    /\ \A k \in Chips : DOMAIN redir[k] = Pins(k)
    /\ \A k \in Chips : \A p \in Pins(k) : EntryOK(redir[k][p])

\* The handlers are set in time, and 34 is the vector of a masked timer only.
HandlersSet ==
    /\ idt_handlers \in [32..34 -> {"NULL", "sched_meow", "ps2_handler"}]
    /\ idt_handlers[32] = "sched_meow"
    /\ pc \in {"route"} \cup Routing => idt_handlers[33] = "ps2_handler"
    /\ lvt.masked = FALSE => lvt.vec = 32
    /\ irr \subseteq {32, 33}
    /\ 33 \in irr => idt_handlers[33] = "ps2_handler"

\* What is in service is what is being handled, up to its EOI.
InService ==
    /\ intr # NoIntr => intr.vec \in {32, 33}
    /\ intr.step = "iret" => isr = {}
    /\ intr.step \in {"call", "eoi"} /\ intr.spurious = FALSE => isr = {intr.vec}
    /\ intr.vec = 33 /\ intr.spurious = FALSE => idt_handlers[33] = "ps2_handler"
    /\ intr.spurious = TRUE => spurred = TRUE

\* Until a spurious interrupt: an interrupt of the keyboard that is pending or
\* about to be handled has its byte, there is one of them, and a level
\* triggered pin stays quiet meanwhile.
BytesInv ==
    spurred = FALSE =>
        /\ 33 \in irr => obf = TRUE
        /\ intr.vec = 33 /\ intr.step = "call" => obf = TRUE /\ 33 \notin irr
        /\ Wire.trig = 3 => /\ (33 \in irr \/ 33 \in isr) => remote = TRUE
                            /\ ~(33 \in irr /\ 33 \in isr)

IntrInv ==
    /\ TypeOK /\ OwnEoi
    /\ RedirRight /\ HandlersSet /\ InService /\ BytesInv
    /\ HandlerSet /\ NoStaleRead

\* The machine is fixed, and with it its wires and chips.
LEMMA SameMachine ==
    ASSUME m' = m
    PROVE  Wire' = Wire /\ Chips' = Chips /\ (\A k : Pins(k)' = Pins(k)) /\ WiredTo' = WiredTo
<1>1. Wire' = Wire
  BY DEF Wire, KbdIrq, Overrides, Resources
<1>2. Chips' = Chips /\ \A k : Pins(k)' = Pins(k)
  BY DEF Chips, Pins
<1> QED
  BY <1>1, <1>2 DEF WiredTo

LEMMA IntrInit == Init => IntrInv
<1> SUFFICES ASSUME Init PROVE IntrInv
  OBVIOUS
<1>1. TypeOK /\ OwnEoi
  BY DEF Init, TypeOK, OwnEoi, NoIntr
<1>2. RedirRight
  BY DEF Init, RedirRight, EntryOK, Reset
<1>3. HandlersSet
  BY DEF Init, HandlersSet, Routing
<1>4. InService /\ BytesInv /\ HandlerSet /\ NoStaleRead
  BY DEF Init, InService, BytesInv, HandlerSet, NoStaleRead, NoIntr
<1> QED
  BY <1>1, <1>2, <1>3, <1>4 DEF IntrInv

\* A step of the boot code that touches neither the interrupt hardware nor the
\* handlers.
LEMMA BootKeeps ==
    ASSUME IntrInv, UNCHANGED <<m, idt_handlers, apicVars, intr, kbdVars>>,
           ifl' \in BOOLEAN, intr # NoIntr => ifl' = FALSE,
           halted' \in {"no", "wild", "hpet", "panic", "null"}, halted' = "null" => spurred,
           pc' \in {"acpi", "stall", "madt", "hpet", "ksleep", "cli", "ps2", "vector", "route",
                    "route_high", "boot", "run", "syscall"},
           pc' \in {"route"} \cup Routing => pc \in {"route"} \cup Routing,
           pc \in Routing => pc' \in Routing
    PROVE  IntrInv'
<1>1. TypeOK'
  BY DEF IntrInv, TypeOK, apicVars, kbdVars
<1>2. OwnEoi' /\ InService' /\ NoStaleRead'
  BY DEF IntrInv, OwnEoi, InService, NoStaleRead, apicVars, kbdVars
<1>6. BytesInv'
  BY SameMachine DEF IntrInv, BytesInv, apicVars, kbdVars
<1>3. RedirRight'
  BY DEF IntrInv, RedirRight, EntryOK, apicVars, Chips, Pins
<1>4. HandlersSet'
  BY DEF IntrInv, HandlersSet, apicVars
<1>5. HandlerSet'
  BY DEF IntrInv, HandlerSet, kbdVars
<1> QED
  BY <1>1, <1>2, <1>3, <1>4, <1>5, <1>6 DEF IntrInv

LEMMA BootStepsKeep ==
    ASSUME IntrInv,
           \/ AcpiInit \/ ParseEntry \/ IoapicsFull \/ NoMadt \/ HpetFails \/ StartCalibration \/ HpetTick
           \/ Cli \/ FindPs2 \/ NoPs2 \/ NotRouted \/ Sti \/ Syscall \/ CallNull
    PROVE  IntrInv'
<1> USE DEF At, Stop, bootVars, cpuVars, Routing
<1>t. TypeOK
  BY DEF IntrInv
<1>1. CASE AcpiInit
  BY <1>1, <1>t, BootKeeps DEF AcpiInit, TypeOK, IntrInv, HandlerSet
<1>2. CASE ParseEntry
  BY <1>2, <1>t, BootKeeps DEF ParseEntry, TypeOK, IntrInv, HandlerSet
<1>3. CASE IoapicsFull \/ NoMadt \/ HpetFails \/ NoPs2
  BY <1>3, <1>t, BootKeeps DEF IoapicsFull, NoMadt, HpetFails, NoPs2, TypeOK
<1>4. CASE StartCalibration \/ HpetTick
  BY <1>4, <1>t, BootKeeps DEF StartCalibration, HpetTick, TypeOK, IntrInv, HandlerSet
<1>5. CASE Cli \/ FindPs2 \/ NotRouted
  BY <1>5, <1>t, BootKeeps DEF Cli, FindPs2, NotRouted, TypeOK, IntrInv, HandlerSet
<1>6. CASE Sti \/ Syscall
  BY <1>6, <1>t, BootKeeps DEF Sti, Syscall, TypeOK, IntrInv, HandlerSet
<1>7. CASE CallNull
  <2>1. intr.step = "call" /\ idt_handlers[intr.vec] = "NULL" /\ halted = "no"
    BY <1>7 DEF CallNull, Handling
  <2>2. intr.vec \in {32, 33} /\ intr.spurious \in BOOLEAN
    BY <2>1, <1>t DEF IntrInv, InService, TypeOK, NoIntr
  <2>3. intr.spurious = TRUE
    BY <2>1, <2>2 DEF IntrInv, InService, HandlersSet
  <2>4. spurred
    BY <2>3 DEF IntrInv, InService
  <2> QED
    BY <1>7, <2>1, <2>4, <1>t, BootKeeps DEF CallNull, TypeOK
<1> QED
  BY <1>1, <1>2, <1>3, <1>4, <1>5, <1>6, <1>7

LEMMA TimerStepsKeep ==
    ASSUME IntrInv, EnableLapic \/ StartTimer
    PROVE  IntrInv'
<1> USE DEF At, EnableLapic, StartTimer, bootVars, cpuVars, kbdVars
<1>1. TypeOK'
  BY DEF IntrInv, TypeOK
<1>2. OwnEoi' /\ InService' /\ NoStaleRead' /\ HandlerSet'
  BY DEF IntrInv, OwnEoi, InService, NoStaleRead, HandlerSet
<1>3. BytesInv'
  BY SameMachine DEF IntrInv, BytesInv
<1>4. RedirRight'
  <2>1. ASSUME NEW k \in Chips, NEW p \in Pins(k) PROVE EntryOK(redir[k][p])'
    BY DEF IntrInv, RedirRight, EntryOK, Routing
  <2> QED
    BY <2>1, SameMachine DEF IntrInv, RedirRight
<1>5. HandlersSet'
  <2>1. pc' \in {"hpet", "cli"} /\ UNCHANGED <<idt_handlers, irr>>
    OBVIOUS
  <2>2. lvt'.masked = FALSE => lvt'.vec = 32
    OBVIOUS
  <2> QED
    BY <2>1, <2>2 DEF IntrInv, HandlersSet, Routing
<1> QED
  BY <1>1, <1>2, <1>3, <1>4, <1>5 DEF IntrInv

LEMMA RegisterKeeps ==
    ASSUME IntrInv, RegisterPs2
    PROVE  IntrInv'
<1> USE DEF At, RegisterPs2, apicVars, cpuVars, kbdVars, KbdVec
<1>1. TypeOK'
  BY DEF IntrInv, TypeOK
<1>2. OwnEoi' /\ NoStaleRead' /\ HandlerSet'
  BY DEF IntrInv, OwnEoi, NoStaleRead, HandlerSet
<1>3. BytesInv'
  BY SameMachine DEF IntrInv, BytesInv
<1>4. RedirRight'
  BY DEF IntrInv, RedirRight, EntryOK, Chips, Pins, Routing
<1>5. HandlersSet'
  BY DEF IntrInv, HandlersSet, Routing
<1>6. InService'
  BY DEF IntrInv, InService, HandlersSet
<1> QED
  BY <1>1, <1>2, <1>3, <1>4, <1>5, <1>6 DEF IntrInv

\* route_irq writes one entry of one IOAPIC, in two halves.
LEMMA RouteKeeps ==
    ASSUME IntrInv, RouteLow \/ RouteHigh
    PROVE  IntrInv'
<1> USE DEF At, RouteLow, RouteHigh, bootVars, cpuVars, kbdVars
<1>1. TypeOK'
  BY DEF IntrInv, TypeOK
<1>2. OwnEoi' /\ InService' /\ NoStaleRead' /\ HandlerSet'
  BY DEF IntrInv, OwnEoi, InService, NoStaleRead, HandlerSet
<1>3. BytesInv'
  BY SameMachine DEF IntrInv, BytesInv
<1>4. RedirRight'
  <2>1. Chips' = Chips /\ \A k : Pins(k)' = Pins(k)
    BY SameMachine
  <2>2. DOMAIN redir' = Chips /\ \A k \in Chips : DOMAIN redir'[k] = Pins(k)
    BY DEF IntrInv, RedirRight
  <2>3. pc' \in Routing
    BY DEF Routing
  <2>4. ASSUME NEW k \in Chips, NEW p \in Pins(k) PROVE EntryOK(redir[k][p])'
    <3>1. EntryOK(redir[k][p])
      BY DEF IntrInv, RedirRight
    <3>2. CASE k = RouteTo /\ p = RoutePin
      <4>1. CASE RouteLow
        <5>1. redir'[k][p] = [masked |-> FALSE, vec |-> KbdVec, low |-> ActiveLow,
                              level |-> LevelTriggered, dest |-> redir[k][p].dest]
          BY <3>2, <4>1 DEF IntrInv, RedirRight
        <5> QED
          BY <5>1, <2>3 DEF EntryOK
      <4>2. CASE RouteHigh
        <5>1. redir'[k][p] = [redir[k][p] EXCEPT !.dest = get_lapic_id % 256]
          BY <3>2, <4>2 DEF IntrInv, RedirRight
        <5>2. redir'[k][p] = [masked |-> redir[k][p].masked, vec |-> redir[k][p].vec,
                              low |-> redir[k][p].low, level |-> redir[k][p].level,
                              dest |-> get_lapic_id % 256]
          BY <3>1, <5>1 DEF EntryOK
        <5> QED
          BY <3>1, <5>2, <2>3 DEF EntryOK
      <4> QED
        BY <4>1, <4>2
    <3>3. CASE ~(k = RouteTo /\ p = RoutePin)
      <4>1. redir'[k][p] = redir[k][p]
        BY <3>3 DEF IntrInv, RedirRight
      <4> QED
        BY <3>1, <4>1, <2>3 DEF EntryOK
    <3> QED
      BY <3>2, <3>3
  <2> QED
    BY <2>1, <2>2, <2>4 DEF RedirRight
<1>5. HandlersSet'
  BY DEF IntrInv, HandlersSet, Routing
<1> QED
  BY <1>1, <1>2, <1>3, <1>4, <1>5 DEF IntrInv

\* What comes through an open pin is the keyboard's vector, and has a handler.
LEMMA OpenVector ==
    ASSUME IntrInv, PinOpen
    PROVE  PinVec = 33 /\ idt_handlers[33] = "ps2_handler"
<1>1. PICK k \in OpenAt : k = CHOOSE j \in OpenAt : TRUE
  BY Zenon DEF PinOpen
<1>2. k \in Chips /\ Wire.gsi - m.madt[k].base \in Pins(k) /\ ~Pin(k).masked
  BY DEF OpenAt, WiredTo
<1>3. EntryOK(Pin(k))
  BY <1>2 DEF IntrInv, RedirRight, Pin
<1>4. Pin(k).vec = 33 /\ pc \in Routing
  BY <1>2, <1>3 DEF EntryOK, KbdVec
<1> QED
  BY <1>1, <1>4 DEF IntrInv, HandlersSet, PinVec

\* A byte, or a line that is still up, makes 33 pending.
LEMMA PendingKeeps ==
    ASSUME IntrInv, KbdByte \/ LevelSend
    PROVE  IntrInv'
<1> USE DEF bootVars, cpuVars
<1>1. UNCHANGED <<pc, m, idt_handlers, redir, lvt, isr, intr, ifl, halted, stale, spurred, enabled>>
  BY DEF KbdByte, LevelSend, kbdVars
<1>2. \/ irr' = irr
      \/ irr' = irr \cup {33} /\ idt_handlers[33] = "ps2_handler" /\ PinOpen
  BY OpenVector DEF KbdByte, LevelSend
<1>3. obf' = TRUE /\ remote' \in BOOLEAN /\ early' \in BOOLEAN
  BY DEF IntrInv, TypeOK, KbdByte, LevelSend, kbdVars
<1>4. TypeOK'
  <2>0. \A v \in irr' : v \in irr \/ v = 33
    BY <1>2, Zenon
  <2>3. \A v \in irr : v \in 32..34
    BY DEF IntrInv, TypeOK
  <2>1. irr' \subseteq 32..34
    BY <2>0, <2>3
  <2>2. {ifl, enabled, remote, obf, early, stale, spurred}' \subseteq BOOLEAN
    BY <1>1, <1>3 DEF IntrInv, TypeOK
  <2> QED
    BY <1>1, <2>1, <2>2 DEF IntrInv, TypeOK
<1>5. OwnEoi' /\ InService' /\ NoStaleRead' /\ HandlerSet'
  BY <1>1, <1>2 DEF IntrInv, OwnEoi, InService, NoStaleRead, HandlerSet
<1>6. RedirRight'
  <2>1. ASSUME NEW k \in Chips, NEW p \in Pins(k) PROVE EntryOK(redir[k][p])'
    BY <1>1 DEF IntrInv, RedirRight, EntryOK
  <2> QED
    BY <1>1, <2>1, SameMachine DEF IntrInv, RedirRight
<1>7. HandlersSet'
  BY <1>1, <1>2 DEF IntrInv, HandlersSet
<1>8. BytesInv'
  <2>0. SUFFICES ASSUME spurred = FALSE PROVE BytesInv'
    BY <1>1 DEF BytesInv
  <2>1. Wire' = Wire
    BY <1>1, SameMachine
  <2>2. CASE KbdByte
    <3>1. obf = FALSE /\ remote' = remote /\ (Wire.trig = 3 => irr' = irr)
      BY <2>2 DEF KbdByte, IntrInv, TypeOK
    <3>2. ~(intr.vec = 33 /\ intr.step = "call")
      BY <2>0, <3>1 DEF IntrInv, BytesInv
    <3> QED
      BY <1>1, <1>3, <2>0, <2>1, <3>1, <3>2 DEF IntrInv, BytesInv
  <2>3. CASE LevelSend
    <3>1. Wire.trig = 3 /\ remote = FALSE /\ remote' = TRUE /\ irr' = irr \cup {33}
      BY <2>3, OpenVector DEF LevelSend, IntrInv, TypeOK
    <3>2. 33 \notin irr /\ 33 \notin isr
      BY <2>0, <3>1 DEF IntrInv, BytesInv
    <3>3. ~(intr.vec = 33 /\ intr.step = "call")
      BY <2>0, <3>2 DEF IntrInv, InService, TypeOK, NoIntr
    <3> QED
      BY <1>1, <1>3, <2>0, <2>1, <3>1, <3>2, <3>3 DEF BytesInv
  <2> QED
    BY <2>2, <2>3
<1> QED
  BY <1>4, <1>5, <1>6, <1>7, <1>8 DEF IntrInv

LEMMA TimerFiresKeeps ==
    ASSUME IntrInv, TimerFires
    PROVE  IntrInv'
<1> USE DEF bootVars, cpuVars, kbdVars
<1>1. irr' = irr \cup {32}
  BY DEF TimerFires, IntrInv, HandlersSet
<1>2. TypeOK'
  <2>1. irr' \subseteq 32..34
    BY <1>1 DEF IntrInv, TypeOK
  <2> QED
    BY <2>1 DEF TimerFires, IntrInv, TypeOK
<1>3. OwnEoi' /\ InService' /\ NoStaleRead' /\ HandlerSet'
  BY DEF TimerFires, IntrInv, OwnEoi, InService, NoStaleRead, HandlerSet
<1>4. RedirRight'
  <2>1. ASSUME NEW k \in Chips, NEW p \in Pins(k) PROVE EntryOK(redir[k][p])'
    BY DEF TimerFires, IntrInv, RedirRight, EntryOK
  <2> QED
    BY <2>1, SameMachine DEF TimerFires, IntrInv, RedirRight
<1>5. HandlersSet'
  <2>1. irr' \subseteq {32, 33} /\ (33 \in irr' => 33 \in irr)
    BY <1>1 DEF IntrInv, HandlersSet
  <2> QED
    BY <2>1 DEF TimerFires, IntrInv, HandlersSet
<1>6. BytesInv'
  BY <1>1, SameMachine DEF TimerFires, IntrInv, BytesInv
<1> QED
  BY <1>2, <1>3, <1>4, <1>5, <1>6 DEF IntrInv

\* Interrupts are on only when none is being handled and none is in service.
LEMMA IdleWhenOn ==
    ASSUME IntrInv, ifl
    PROVE  intr = NoIntr /\ isr = {}
<1>1. intr = NoIntr
  BY DEF IntrInv, TypeOK
<1> QED
  BY <1>1 DEF IntrInv, TypeOK, OwnEoi, NoIntr

LEMMA DeliverKeeps ==
    ASSUME IntrInv, Deliver
    PROVE  IntrInv'
<1> USE DEF bootVars, kbdVars
<1>1. intr = NoIntr /\ isr = {}
  BY IdleWhenOn DEF Deliver, Accepts
<1>2. Deliverable = irr
  BY <1>1 DEF Deliverable
<1> DEFINE v == Max(irr)
<1>3. v \in irr
  BY <1>2, MaxOfVectors DEF Deliver, IntrInv, TypeOK
<1>4. /\ irr' = irr \ {v} /\ isr' = {v} /\ ifl' = FALSE
      /\ intr' = [vec |-> v, step |-> "call", spurious |-> FALSE]
      /\ UNCHANGED <<pc, m, idt_handlers, redir, remote, enabled, lvt, halted, obf, early, stale, spurred>>
  BY <1>1, <1>2 DEF Deliver, Gate
<1> HIDE DEF v
<1>5. v \in {32, 33} /\ v \in 32..34
  BY <1>3 DEF IntrInv, HandlersSet
<1>6. TypeOK'
  <2>1. irr' \subseteq 32..34 /\ isr' \subseteq 32..34
    BY <1>4, <1>5 DEF IntrInv, TypeOK
  <2>2. intr' \in [vec: 32..34, step: {"call", "eoi", "iret"}, spurious: BOOLEAN]
    BY <1>4, <1>5
  <2> QED
    BY <1>4, <2>1, <2>2 DEF IntrInv, TypeOK
<1>7. OwnEoi' /\ NoStaleRead' /\ HandlerSet'
  BY <1>4 DEF IntrInv, OwnEoi, NoStaleRead, HandlerSet
<1>8. RedirRight'
  <2>1. ASSUME NEW k \in Chips, NEW p \in Pins(k) PROVE EntryOK(redir[k][p])'
    BY <1>4 DEF IntrInv, RedirRight, EntryOK
  <2> QED
    BY <1>4, <2>1, SameMachine DEF IntrInv, RedirRight
<1>9. HandlersSet'
  BY <1>4 DEF IntrInv, HandlersSet
<1>10. InService'
  BY <1>3, <1>4, <1>5 DEF IntrInv, InService, HandlersSet
<1>11. BytesInv'
  BY <1>1, <1>3, <1>4, SameMachine DEF IntrInv, BytesInv
<1> QED
  BY <1>6, <1>7, <1>8, <1>9, <1>10, <1>11 DEF IntrInv

LEMMA SpuriousKeeps ==
    ASSUME IntrInv, Spurious
    PROVE  IntrInv'
<1> USE DEF bootVars, apicVars, SpuriousVec
<1>1. intr = NoIntr /\ isr = {}
  BY IdleWhenOn DEF Spurious, Accepts
<1>2. /\ intr' = [vec |-> 33, step |-> "call", spurious |-> TRUE]
      /\ ifl' = FALSE /\ spurred' = TRUE
      /\ UNCHANGED <<pc, m, idt_handlers, redir, remote, enabled, lvt, irr, isr, halted, obf, early, stale>>
  BY DEF Spurious, Gate
<1>3. TypeOK'
  <2>1. intr' \in [vec: 32..34, step: {"call", "eoi", "iret"}, spurious: BOOLEAN]
    BY <1>2
  <2> QED
    BY <1>2, <2>1 DEF IntrInv, TypeOK
<1>4. OwnEoi' /\ NoStaleRead' /\ HandlerSet' /\ BytesInv'
  BY <1>1, <1>2 DEF IntrInv, OwnEoi, NoStaleRead, HandlerSet, BytesInv
<1>5. RedirRight'
  <2>1. ASSUME NEW k \in Chips, NEW p \in Pins(k) PROVE EntryOK(redir[k][p])'
    BY <1>2 DEF IntrInv, RedirRight, EntryOK
  <2> QED
    BY <1>2, <2>1, SameMachine DEF IntrInv, RedirRight
<1>6. HandlersSet' /\ InService'
  BY <1>1, <1>2 DEF IntrInv, HandlersSet, InService
<1> QED
  BY <1>3, <1>4, <1>5, <1>6 DEF IntrInv

LEMMA HandlingKeeps ==
    ASSUME IntrInv, CallHandler \/ SendEoi \/ Iretq
    PROVE  IntrInv'
<1> USE DEF bootVars
<1>0. intr # NoIntr
  BY DEF CallHandler, SendEoi, Iretq, Handling, NoIntr
<1>1. /\ intr \in [vec: {32, 33}, step: {"call", "eoi", "iret"}, spurious: BOOLEAN]
      /\ ifl = FALSE
  BY <1>0 DEF IntrInv, TypeOK, InService
<1>2. UNCHANGED <<pc, m, idt_handlers, redir, enabled, lvt, irr, halted, spurred>>
  BY DEF CallHandler, SendEoi, Iretq, apicVars, kbdVars
<1>3. RedirRight'
  <2>1. ASSUME NEW k \in Chips, NEW p \in Pins(k) PROVE EntryOK(redir[k][p])'
    BY <1>2 DEF IntrInv, RedirRight, EntryOK
  <2> QED
    BY <1>2, <2>1, SameMachine DEF IntrInv, RedirRight
<1>4. HandlersSet' /\ HandlerSet'
  BY <1>2 DEF IntrInv, HandlersSet, HandlerSet
<1>5. Wire' = Wire
  BY <1>2, SameMachine
<1>6. CASE CallHandler
  <2>1. /\ intr.step = "call" /\ intr' = [intr EXCEPT !.step = "eoi"]
        /\ UNCHANGED <<ifl, isr, remote>>
    BY <1>6 DEF CallHandler, Handling, apicVars
  <2>2. \/ UNCHANGED <<obf, early, stale>>
        \/ /\ idt_handlers[intr.vec] = "ps2_handler"
           /\ obf' = FALSE /\ early' = FALSE /\ stale' = (stale \/ ~obf)
    BY <1>6 DEF CallHandler
  <2>3. intr' \in [vec: {32, 33}, step: {"call", "eoi", "iret"}, spurious: BOOLEAN]
        /\ intr'.step = "eoi" /\ intr'.vec = intr.vec /\ intr'.spurious = intr.spurious
    BY <1>1, <2>1
  <2>4. idt_handlers[intr.vec] = "ps2_handler" => intr.vec = 33
    BY <1>1 DEF IntrInv, HandlersSet
  <2>5. stale' \in BOOLEAN /\ (stale' => spurred)
    <3>1. CASE UNCHANGED <<obf, early, stale>>
      BY <3>1 DEF IntrInv, TypeOK, NoStaleRead
    <3>2. CASE idt_handlers[intr.vec] = "ps2_handler" /\ stale' = (stale \/ ~obf)
      <4>1. spurred = FALSE => obf = TRUE
        BY <2>1, <2>4, <3>2 DEF IntrInv, BytesInv
      <4>2. spurred \in BOOLEAN /\ (stale => spurred)
        BY DEF IntrInv, TypeOK, NoStaleRead
      <4> QED
        BY <3>2, <4>1, <4>2
    <3> QED
      BY <2>2, <3>1, <3>2
  <2>6. TypeOK'
    <3>1. {ifl, enabled, remote, obf, early, stale, spurred}' \subseteq BOOLEAN
      <4>1. obf' \in BOOLEAN /\ early' \in BOOLEAN
        BY <2>2 DEF IntrInv, TypeOK
      <4> QED
        BY <1>2, <2>1, <2>5, <4>1 DEF IntrInv, TypeOK
    <3>2. intr' \in [vec: 32..34, step: {"call", "eoi", "iret"}, spurious: BOOLEAN]
      BY <2>3
    <3> QED
      BY <1>1, <1>2, <2>1, <3>1, <3>2 DEF IntrInv, TypeOK
  <2>7. OwnEoi' /\ InService' /\ NoStaleRead'
    BY <1>2, <2>1, <2>3, <2>5 DEF IntrInv, OwnEoi, InService, NoStaleRead
  <2>8. BytesInv'
    <3>1. CASE UNCHANGED obf
      BY <1>2, <1>5, <2>1, <2>3, <3>1 DEF IntrInv, BytesInv
    <3>2. CASE intr.vec = 33
      BY <1>2, <1>5, <2>1, <2>3, <3>2 DEF IntrInv, BytesInv
    <3> QED
      BY <2>2, <2>4, <3>1, <3>2
  <2> QED
    BY <1>3, <1>4, <2>6, <2>7, <2>8 DEF IntrInv
<1>7. CASE SendEoi
  <2>1. /\ intr.step = "eoi" /\ intr' = [intr EXCEPT !.step = "iret"]
        /\ UNCHANGED <<ifl, obf, early, stale>>
    BY <1>7 DEF SendEoi, Handling, kbdVars
  <2>2. intr' \in [vec: {32, 33}, step: {"call", "eoi", "iret"}, spurious: BOOLEAN]
        /\ intr'.step = "iret" /\ intr'.vec = intr.vec /\ intr'.spurious = intr.spurious
    BY <1>1, <2>1
  <2>3. isr = {} \/ (isr = {intr.vec} /\ Max(isr) = intr.vec)
    <3>1. isr = {} \/ isr = {intr.vec}
      BY DEF IntrInv, OwnEoi
    <3>2. Max({intr.vec}) = intr.vec
      BY <1>1, MaxOfOne
    <3> QED
      BY <3>1, <3>2, Zenon
  <2>4. isr' = {}
    BY <1>7, <2>3 DEF SendEoi
  <2>5. remote' \in BOOLEAN /\ (33 \notin isr => remote' = remote)
    BY <1>7, <2>3 DEF SendEoi, KbdVec, IntrInv, TypeOK
  <2>6. TypeOK'
    BY <1>1, <1>2, <2>1, <2>2, <2>4, <2>5 DEF IntrInv, TypeOK
  <2>7. OwnEoi' /\ InService' /\ NoStaleRead'
    BY <1>2, <2>1, <2>2, <2>4 DEF IntrInv, OwnEoi, InService, NoStaleRead
  <2>8. BytesInv'
    BY <1>2, <1>5, <2>1, <2>2, <2>4, <2>5 DEF IntrInv, BytesInv
  <2> QED
    BY <1>3, <1>4, <2>6, <2>7, <2>8 DEF IntrInv
<1>8. CASE Iretq
  <2>1. /\ intr.step = "iret" /\ intr' = NoIntr /\ ifl' = TRUE
        /\ UNCHANGED <<isr, remote, obf, early, stale>>
    BY <1>8 DEF Iretq, Handling, apicVars, kbdVars
  <2>2. TypeOK'
    BY <1>2, <2>1 DEF IntrInv, TypeOK
  <2>3. OwnEoi' /\ InService' /\ NoStaleRead'
    BY <1>2, <2>1 DEF IntrInv, OwnEoi, InService, NoStaleRead, NoIntr
  <2>4. BytesInv'
    BY <1>2, <1>5, <2>1 DEF IntrInv, BytesInv, NoIntr
  <2> QED
    BY <1>3, <1>4, <2>2, <2>3, <2>4 DEF IntrInv
<1> QED
  BY <1>6, <1>7, <1>8

LEMMA IntrNext == IntrInv /\ [Next]_vars => IntrInv'
<1> SUFFICES ASSUME IntrInv, [Next]_vars PROVE IntrInv'
  OBVIOUS
<1>1. CASE BootStep
  BY <1>1, BootStepsKeep, TimerStepsKeep, RegisterKeeps, RouteKeeps DEF BootStep
<1>2. CASE Poll \/ Halt \/ UNCHANGED vars
  <2>1. UNCHANGED vars
    BY <1>2 DEF Poll, Halt
  <2> QED
    BY <2>1, BootKeeps DEF vars, bootVars, cpuVars, IntrInv, TypeOK, HandlerSet
<1>3. CASE HandlerStep
  BY <1>3, BootStepsKeep, HandlingKeeps DEF HandlerStep
<1>4. CASE Syscall \/ HpetTick
  BY <1>4, BootStepsKeep
<1>5. CASE KbdByte \/ LevelSend \/ TimerFires \/ Deliver \/ Spurious
  BY <1>5, PendingKeeps, TimerFiresKeeps, DeliverKeeps, SpuriousKeeps
<1> QED
  BY <1>1, <1>2, <1>3, <1>4, <1>5 DEF Next

LEMMA IntrAlways == Spec => []IntrInv
  BY IntrInit, IntrNext, PTL DEF Spec

\* Interrupts are handled one at a time, and the EOI a handler sends ends the
\* interrupt it handles and no other, also in a handler that a spurious
\* interrupt started, which has nothing to end.
THEOREM ApicInvAlways == Spec => []ApicInv
<1>1. IntrInv => ApicInv
  BY DEF IntrInv, ApicInv
<1> QED
  BY <1>1, IntrAlways, PTL

\* Unless the hardware sends a spurious interrupt, on the vector apic_init and
\* ps2_init share: no interrupt calls an empty slot of idt_handlers, and
\* ps2_handler never reads a byte that is not there, on an edge or a level.
THEOREM HandlersRightAlways == Spec => []HandlersRight
<1>1. IntrInv => HandlersRight
  BY DEF IntrInv, HandlersRight
<1> QED
  BY <1>1, IntrAlways, PTL
------------------------------------------------------------------------------
(* The time slice.                                                         *)

\* A period cut to whole nanoseconds is no longer than the real one.
LEMMA SleepsLongEnough ==
    ASSUME NEW n \in Nat, NEW period \in Nat, NEW f \in Nat \ {0}, NEW s \in Nat,
           n * (period \div f) >= s
    PROVE  n * period >= s * f
<1>1. PICK q \in Nat : q = period \div f /\ q * f <= period
  BY DivBounds
<1>2. s <= n * q /\ n * q \in Nat
  BY <1>1
<1>3. s * f <= (n * q) * f
  BY <1>2, MulMono
<1>4. (n * q) * f = (q * f) * n
  BY SMT
<1>5. (q * f) * n <= period * n
  BY <1>1, MulMono
<1>6. period * n = n * period /\ n * period \in Int /\ s * f \in Int /\ (q * f) * n \in Int
  BY SMT
<1> QED
  BY <1>3, <1>4, <1>5, <1>6

\* While ksleep polls, the counter has moved since poll_start and is read in the
\* unit of this machine's period.
SliceInv ==
    /\ poll \in Nat
    /\ pc = "ksleep" => time_per_tick_hpet = TimePerTick
    /\ SliceLongEnough

LEMMA SliceNext == IntrInv /\ SliceInv /\ [Next]_vars => SliceInv'
<1> SUFFICES ASSUME IntrInv, SliceInv, [Next]_vars PROVE SliceInv'
  OBVIOUS
<1> USE DEF At
<1>1. ASSUME UNCHANGED <<m, lvt, lapic_ticks_per_10ms>> PROVE SliceLongEnough'
  BY <1>1 DEF SliceInv, SliceLongEnough
<1>2. CASE StartTimer
  <2>1. m \in Machines /\ m.period \in Nat
    BY MachinesAssumption DEF IntrInv, TypeOK
  <2>2. poll * (m.period \div FsPerNs) >= SleepNs /\ poll \in Nat
    BY <1>2 DEF StartTimer, Slept, SliceInv, TimePerTick
  <2>3. poll * m.period >= SleepNs * FsPerNs
    BY <2>1, <2>2, SleepsLongEnough, ApicAssumption
  <2>4. (poll * Rate) \div Rate = poll
    BY <2>2, DivBack, ApicAssumption
  <2>5. lapic_ticks_per_10ms' = poll * Rate /\ UNCHANGED <<m, poll>> /\ pc' = "cli"
    BY <1>2 DEF StartTimer
  <2> QED
    BY <2>2, <2>3, <2>4, <2>5 DEF SliceInv, SliceLongEnough
<1>3. CASE EnableLapic
  BY <1>3 DEF EnableLapic, bootVars, SliceInv, SliceLongEnough
<1>4. CASE StartCalibration
  BY <1>1, <1>4 DEF StartCalibration, apicVars, SliceInv, TimePerTick
<1>5. CASE HpetTick
  BY <1>1, <1>5 DEF HpetTick, apicVars, SliceInv, TimePerTick
<1>6. CASE \/ AcpiInit \/ ParseEntry \/ IoapicsFull \/ NoMadt \/ HpetFails \/ Cli
           \/ FindPs2 \/ NoPs2 \/ RegisterPs2 \/ RouteLow \/ RouteHigh \/ NotRouted \/ Sti \/ Syscall
  <2>1. UNCHANGED <<m, lvt, lapic_ticks_per_10ms, poll, time_per_tick_hpet>>
    BY <1>6 DEF AcpiInit, ParseEntry, IoapicsFull, NoMadt, HpetFails, Cli, FindPs2, NoPs2, RegisterPs2,
                RouteLow, RouteHigh, NotRouted, Sti, Syscall, Stop, bootVars, apicVars
  <2>2. pc' = "ksleep" => pc = "ksleep"
    BY <1>6 DEF AcpiInit, ParseEntry, IoapicsFull, NoMadt, HpetFails, Cli, FindPs2, NoPs2, RegisterPs2,
                RouteLow, RouteHigh, NotRouted, Sti, Syscall, Stop
  <2> QED
    BY <1>1, <2>1, <2>2 DEF SliceInv, TimePerTick
<1>7. CASE \/ Poll \/ Halt \/ UNCHANGED vars \/ HandlerStep \/ KbdByte \/ LevelSend
           \/ TimerFires \/ Deliver \/ Spurious
  <2>1. UNCHANGED <<pc, m, lvt, lapic_ticks_per_10ms, poll, time_per_tick_hpet>>
    BY <1>7 DEF Poll, Halt, vars, HandlerStep, CallHandler, CallNull, SendEoi, Iretq, KbdByte,
                LevelSend, TimerFires, Deliver, Spurious, Stop, bootVars, apicVars
  <2> QED
    BY <1>1, <2>1 DEF SliceInv, TimePerTick
<1> QED
  BY <1>2, <1>3, <1>4, <1>5, <1>6, <1>7 DEF Next, BootStep

\* The LAPIC timer's period is at least the 10 ms of its name on every machine
\* whose timer is started, whatever the HPET's period and however late the
\* polling loop sees the counter.
THEOREM SliceLongEnoughAlways == Spec => []SliceLongEnough
<1>1. Init => SliceInv
  BY DEF Init, SliceInv, SliceLongEnough
<1>2. SliceInv => SliceLongEnough
  BY DEF SliceInv
<1> QED
  BY <1>1, <1>2, IntrAlways, SliceNext, PTL DEF Spec
------------------------------------------------------------------------------
(* The keyboard's pin.                                                     *)

\* What MachinesAssumption says of the machine that was booted.
LEMMA MachineShape ==
    ASSUME m \in Machines
    PROVE  /\ Len(m.madt) \in Nat /\ m.id \in 0..255
           /\ \A i \in 1..Len(m.madt) : m.madt[i] \in MadtEntries
           /\ KbdIrq \in 0..255
<1>1. /\ m.madt \in Seq(MadtEntries) /\ m.id \in 0..255
      /\ m.res \in Seq([type: {"irq", "io", "fixed_io", "dma"}, at: Nat])
      /\ \A i \in 1..Len(m.res) : m.res[i].type = "irq" => m.res[i].at \in 0..255
  BY MachinesAssumption
<1>2. KbdIrq \in 0..255
  <2> DEFINE S == Resources({"irq"})
  <2>1. CASE S = {}
    BY <2>1 DEF KbdIrq
  <2>2. CASE S # {}
    <3>1. S \in SUBSET (1..Len(m.res)) /\ Len(m.res) \in Nat
      BY <1>1 DEF Resources
    <3>2. Max(S) \in S
      BY <2>2, <3>1, MaxOfIndices
    <3>3. Max(S) \in 1..Len(m.res) /\ m.res[Max(S)].type = "irq"
      BY <3>2 DEF Resources
    <3>4. KbdIrq = m.res[Max(S)].at
      BY <2>2 DEF KbdIrq
    <3> QED
      BY <1>1, <3>3, <3>4
  <2> QED
    BY <2>1, <2>2
<1> QED
  BY <1>1, <1>2

LEMMA ChipShape ==
    ASSUME IntrInv, NEW i \in Chips
    PROVE  i \in 1..Len(m.madt) /\ m.madt[i].base \in Nat /\ m.madt[i].pins \in 1..120
<1>1. i \in 1..Len(m.madt) /\ m.madt[i].type = "ioapic"
  BY DEF Chips
<1>2. m.madt[i] \in MadtEntries
  BY <1>1, MachineShape DEF IntrInv, TypeOK
<1>3. m.madt[i] \in [type: {"ioapic"}, base: Nat, pins: 1..120]
  BY <1>1, <1>2 DEF MadtEntries
<1> QED
  BY <1>1, <1>3

\* The part of the MADT that has been parsed: isos points to the last override
\* of each interrupt, ioapics to every IOAPIC.
IsosRight ==
    /\ isos \in [0..255 -> Nat]
    /\ \A s \in 0..255 :
         /\ isos[s] # NULL => isos[s] \in Overrides(s) /\ isos[s] <= offset
         /\ \A i \in Overrides(s) : i <= offset => isos[s] # NULL /\ i <= isos[s]

IoapicsRight ==
    /\ ioapics \in Seq([ioapic_info: Nat, max_gsi: Nat])
    /\ \A k \in 1..Len(ioapics) :
         /\ ioapics[k].ioapic_info \in Chips
         /\ ioapics[k].max_gsi = m.madt[ioapics[k].ioapic_info].pins - 1
    /\ \A i \in Chips : i <= offset => \E k \in 1..Len(ioapics) : ioapics[k].ioapic_info = i

TablesInv ==
    /\ offset \in Nat /\ offset <= Len(m.madt)
    /\ pc \notin {"acpi", "stall", "madt"} => offset = Len(m.madt) /\ enabled = TRUE
    /\ IsosRight /\ IoapicsRight
    /\ ps2_irq = IF pc \in {"vector", "route"} \cup Routing THEN KbdIrq ELSE 1

\* One pin is open, the one route_irq chose, with the override's flags.
Opened ==
    /\ RouteTo \in Chips /\ RoutePin \in Pins(RouteTo)
    /\ \A k \in Chips : \A p \in Pins(k) :
         redir[k][p].masked = FALSE => k = RouteTo /\ p = RoutePin
    /\ redir[RouteTo][RoutePin].masked = FALSE
    /\ redir[RouteTo][RoutePin].low = ActiveLow
    /\ redir[RouteTo][RoutePin].level = LevelTriggered

Closed == \A k \in Chips : \A p \in Pins(k) : redir[k][p].masked = TRUE

PinsInv ==
    /\ pc = "route_high" => Opened
    /\ pc \in {"boot", "run", "syscall"} =>
         \/ RouteTo = NULL /\ Closed
         \/ RouteTo # NULL /\ Opened /\ redir[RouteTo][RoutePin].dest = get_lapic_id % 256

LEMMA SameRoute ==
    ASSUME UNCHANGED <<m, isos, ioapics, ps2_irq>>
    PROVE  /\ RouteTo' = RouteTo /\ RoutePin' = RoutePin /\ RouteGsi' = RouteGsi
           /\ ActiveLow' = ActiveLow /\ LevelTriggered' = LevelTriggered
           /\ get_lapic_id' = get_lapic_id
<1>1. RouteGsi' = RouteGsi
  BY DEF RouteGsi
<1>2. RouteTo' = RouteTo
  BY <1>1 DEF RouteTo, Matching
<1>3. RoutePin' = RoutePin
  BY <1>1, <1>2 DEF RoutePin
<1> QED
  BY <1>1, <1>2, <1>3 DEF ActiveLow, LevelTriggered, get_lapic_id

LEMMA TablesInit == Init => TablesInv /\ PinsInv
<1> SUFFICES ASSUME Init PROVE TablesInv /\ PinsInv
  OBVIOUS
<1>0. Len(m.madt) \in Nat /\ \A s : \A i \in Overrides(s) : i \in Nat \ {0}
  BY MachineShape DEF Init, Overrides
<1>1. IsosRight
  <2>1. isos \in [0..255 -> Nat] /\ offset = 0 /\ \A s \in 0..255 : isos[s] = NULL
    BY <1>0 DEF Init, NULL
  <2>2. ASSUME NEW s, NEW i \in Overrides(s) PROVE ~(i <= offset)
    <3>1. i \in Nat \ {0}
      BY <1>0
    <3> QED
      BY <2>1, <3>1
  <2> QED
    BY <2>1, <2>2 DEF IsosRight
<1>2. IoapicsRight
  BY <1>0 DEF Init, IoapicsRight, Chips
<1>3. TablesInv
  BY <1>0, <1>1, <1>2 DEF Init, TablesInv, Routing
<1>4. PinsInv
  BY DEF Init, PinsInv
<1> QED
  BY <1>3, <1>4

\* One entry of the table.
LEMMA ParseKeeps ==
    ASSUME IntrInv, TablesInv, ParseEntry
    PROVE  TablesInv'
<1> USE DEF At
<1>1. /\ UNCHANGED <<m, pc, ps2_irq, enabled>> /\ offset' = offset + 1 /\ pc = "madt"
  BY DEF ParseEntry, apicVars
<1>2. m \in Machines /\ Len(m.madt) \in Nat /\ offset \in Nat
      /\ offset + 1 \in 1..Len(m.madt)
  BY MachineShape DEF IntrInv, TypeOK, TablesInv, ParseEntry
<1> DEFINE ent == m.madt[offset + 1]
<1>3. ent \in MadtEntries
  BY <1>2, MachineShape
<1>4. Chips' = Chips /\ \A s : Overrides(s)' = Overrides(s)
  BY <1>1 DEF Chips, Overrides
<1>5. IsosRight'
  <2>0. \A s : \A i \in Overrides(s) : i \in Nat
    BY <1>2 DEF Overrides
  <2>1. CASE ent.type = "iso"
    <3>1. ent.source \in 0..255 /\ isos' = [isos EXCEPT ![ent.source] = offset + 1]
      BY <1>3, <2>1 DEF MadtEntries, ParseEntry
    <3>2. isos' \in [0..255 -> Nat]
      <4>1. offset + 1 \in Nat /\ isos \in [0..255 -> Nat]
        BY <1>2 DEF TablesInv, IsosRight
      <4> HIDE DEF ent
      <4> QED
        BY <3>1, <4>1
    <3>3. ASSUME NEW s \in 0..255
          PROVE  /\ isos'[s] # NULL => isos'[s] \in Overrides(s) /\ isos'[s] <= offset + 1
                 /\ \A i \in Overrides(s) : i <= offset + 1 => isos'[s] # NULL /\ i <= isos'[s]
      <4>1. CASE s = ent.source
        <5>1. isos'[s] = offset + 1 /\ offset + 1 \in Overrides(s)
          BY <1>2, <2>1, <3>1, <4>1 DEF TablesInv, IsosRight, Overrides
        <5> QED
          BY <1>2, <2>0, <5>1 DEF NULL
      <4>2. CASE s # ent.source
        <5>1. isos'[s] = isos[s] /\ offset + 1 \notin Overrides(s)
          BY <1>2, <2>1, <3>1, <4>2 DEF TablesInv, IsosRight, Overrides
        <5>2. \A i \in Overrides(s) : i <= offset + 1 => i <= offset
          BY <1>2, <2>0, <5>1
        <5>3. isos[s] \in Nat
          BY <1>2 DEF TablesInv, IsosRight
        <5>4. isos[s] <= offset => isos[s] <= offset + 1
          BY <1>2, <5>3
        <5>5. /\ isos[s] # NULL => isos[s] \in Overrides(s) /\ isos[s] <= offset
              /\ \A i \in Overrides(s) : i <= offset => isos[s] # NULL /\ i <= isos[s]
          BY DEF TablesInv, IsosRight
        <5> QED
          BY <5>1, <5>2, <5>4, <5>5, Zenon
      <4> QED
        BY <4>1, <4>2
    <3> QED
      BY <1>1, <1>4, <3>2, <3>3 DEF IsosRight
  <2>2. CASE ent.type # "iso"
    <3>1. isos' = isos /\ \A s : offset + 1 \notin Overrides(s)
      BY <2>2 DEF ParseEntry, Overrides
    <3>2. \A s : \A i \in Overrides(s) : i <= offset + 1 => i <= offset
      BY <1>2, <2>0, <3>1
    <3>3. ASSUME NEW s \in 0..255
          PROVE  /\ isos[s] # NULL => isos[s] \in Overrides(s) /\ isos[s] <= offset + 1
                 /\ \A i \in Overrides(s) : i <= offset + 1 => isos[s] # NULL /\ i <= isos[s]
      <4>1. isos[s] \in Nat
        BY DEF TablesInv, IsosRight
      <4>2. isos[s] <= offset => isos[s] <= offset + 1
        BY <1>2, <4>1
      <4>3. /\ isos[s] # NULL => isos[s] \in Overrides(s) /\ isos[s] <= offset
            /\ \A i \in Overrides(s) : i <= offset => isos[s] # NULL /\ i <= isos[s]
        BY DEF TablesInv, IsosRight
      <4> QED
        BY <3>2, <4>2, <4>3, Zenon
    <3> QED
      BY <1>1, <1>4, <3>1, <3>3 DEF TablesInv, IsosRight
  <2> QED
    BY <2>1, <2>2
<1>6. IoapicsRight'
  <2>0. \A i \in Chips : i \in Nat
    BY <1>2 DEF Chips
  <2>1. CASE ent.type = "ioapic"
    <3> DEFINE e == [ioapic_info |-> offset + 1, max_gsi |-> ent.pins - 1]
    <3>1. ent.pins \in 1..120 /\ offset + 1 \in Chips
      BY <1>2, <1>3, <2>1 DEF MadtEntries, Chips
    <3>2. ioapics' = Append(ioapics, e)
      BY <2>1 DEF ParseEntry, get_ioapic_maxgsi
    <3>3. e \in [ioapic_info: Nat, max_gsi: Nat]
      <4>0. PICK q \in 1..120 : q = ent.pins
        BY <3>1
      <4>1. q - 1 \in Nat /\ offset + 1 \in Nat
        BY <1>2
      <4>2. e = [ioapic_info |-> offset + 1, max_gsi |-> q - 1]
        BY <4>0
      <4> QED
        BY <4>1, <4>2
    <3>4. e.ioapic_info = offset + 1 /\ e.max_gsi = m.madt[offset + 1].pins - 1
      OBVIOUS
    <3> HIDE DEF e
    <3>5. PICK n \in Nat : n = Len(ioapics)
      BY DEF TablesInv, IoapicsRight
    <3>6. /\ ioapics' \in Seq([ioapic_info: Nat, max_gsi: Nat]) /\ Len(ioapics') = n + 1
          /\ \A k \in 1..n : ioapics'[k] = ioapics[k]
          /\ ioapics'[n + 1] = e
      BY <3>2, <3>3, <3>5 DEF TablesInv, IoapicsRight
    <3>7. ASSUME NEW k \in 1..(n + 1)
          PROVE  /\ ioapics'[k].ioapic_info \in Chips
                 /\ ioapics'[k].max_gsi = m.madt[ioapics'[k].ioapic_info].pins - 1
      <4>1. CASE k \in 1..n
        BY <3>5, <3>6, <4>1 DEF TablesInv, IoapicsRight
      <4>2. CASE k = n + 1
        BY <3>1, <3>4, <3>6, <4>2
      <4> QED
        BY <4>1, <4>2
    <3>8. ASSUME NEW i \in Chips, i <= offset + 1
          PROVE  \E k \in 1..(n + 1) : ioapics'[k].ioapic_info = i
      <4>1. CASE i = offset + 1
        BY <3>4, <3>6, <4>1
      <4>2. CASE i # offset + 1
        <5>1. i <= offset
          BY <1>2, <2>0, <3>8, <4>2
        <5>2. PICK k \in 1..n : ioapics[k].ioapic_info = i
          BY <3>5, <5>1 DEF TablesInv, IoapicsRight
        <5>3. k \in 1..(n + 1) /\ ioapics'[k].ioapic_info = i
          BY <3>6, <5>2
        <5> QED
          BY <5>3
      <4> QED
        BY <4>1, <4>2
    <3> QED
      BY <1>1, <1>4, <3>6, <3>7, <3>8 DEF IoapicsRight
  <2>2. CASE ent.type # "ioapic"
    <3>1. ioapics' = ioapics /\ offset + 1 \notin Chips
      BY <2>2 DEF ParseEntry, Chips
    <3>2. \A i \in Chips : i <= offset + 1 => i <= offset
      BY <1>2, <2>0, <3>1
    <3> QED
      BY <1>1, <1>4, <3>1, <3>2 DEF TablesInv, IoapicsRight
  <2> QED
    BY <2>1, <2>2
<1> QED
  BY <1>1, <1>2, <1>5, <1>6 DEF TablesInv, Routing

\* Steps that change neither the tables nor what they were read from.
LEMMA TablesKept ==
    ASSUME TablesInv, UNCHANGED <<m, offset, isos, ioapics, ps2_irq>>,
           pc' \notin {"acpi", "stall", "madt"} =>
               offset = Len(m.madt) /\ enabled' = TRUE,
           pc' \in {"vector", "route"} \cup Routing <=> pc \in {"vector", "route"} \cup Routing
    PROVE  TablesInv'
<1>1. KbdIrq' = KbdIrq /\ Chips' = Chips /\ \A s : Overrides(s)' = Overrides(s)
  BY DEF KbdIrq, Resources, Chips, Overrides
<1>2. IsosRight' /\ IoapicsRight'
  BY <1>1 DEF TablesInv, IsosRight, IoapicsRight
<1> QED
  BY <1>1, <1>2 DEF TablesInv

LEMMA TablesNext == IntrInv /\ TablesInv /\ [Next]_vars => TablesInv'
<1> SUFFICES ASSUME IntrInv, TablesInv, [Next]_vars PROVE TablesInv'
  OBVIOUS
<1> USE DEF At
<1>1. CASE ParseEntry
  BY <1>1, ParseKeeps
<1>2. CASE FindPs2
  <2>1. UNCHANGED <<m, offset, isos, ioapics, enabled>> /\ pc = "ps2" /\ pc' = "vector"
    BY <1>2 DEF FindPs2, apicVars
  <2>2. ps2_irq' = KbdIrq
    BY <1>2, <2>1 DEF FindPs2, Ps2Irq, KbdIrq, TablesInv, Routing
  <2>3. KbdIrq' = KbdIrq /\ Chips' = Chips /\ \A s : Overrides(s)' = Overrides(s)
    BY <2>1 DEF KbdIrq, Resources, Chips, Overrides
  <2>4. IsosRight' /\ IoapicsRight'
    BY <2>1, <2>3 DEF TablesInv, IsosRight, IoapicsRight
  <2> QED
    BY <2>1, <2>2, <2>3, <2>4 DEF TablesInv
<1>3. CASE AcpiInit \/ IoapicsFull \/ NoMadt \/ EnableLapic
  BY <1>3, TablesKept
     DEF AcpiInit, IoapicsFull, NoMadt, EnableLapic, Stop, bootVars, apicVars, TablesInv, Routing
<1>4. CASE HpetFails \/ StartCalibration \/ StartTimer \/ Cli \/ NoPs2 \/ RegisterPs2
  BY <1>4, TablesKept
     DEF HpetFails, StartCalibration, StartTimer, Cli, NoPs2, RegisterPs2,
         Stop, bootVars, apicVars, TablesInv, Routing
<1>5. CASE RouteLow \/ RouteHigh \/ NotRouted \/ Sti \/ Syscall
  BY <1>5, TablesKept
     DEF RouteLow, RouteHigh, NotRouted, Sti, Syscall, bootVars, apicVars, TablesInv, Routing
<1>6. CASE \/ Poll \/ Halt \/ UNCHANGED vars \/ HandlerStep \/ HpetTick \/ KbdByte \/ LevelSend
           \/ TimerFires \/ Deliver \/ Spurious
  <2>1. UNCHANGED <<pc, m, offset, isos, ioapics, ps2_irq, enabled>>
    BY <1>6 DEF Poll, Halt, vars, HandlerStep, CallHandler, CallNull, SendEoi, Iretq, HpetTick,
                KbdByte, LevelSend, TimerFires, Deliver, Spurious, Stop, bootVars, apicVars
  <2> QED
    BY <2>1, TablesKept DEF TablesInv
<1> QED
  BY <1>1, <1>2, <1>3, <1>4, <1>5, <1>6 DEF Next, BootStep

\* After the tables are parsed and the device is found, route_irq works with the
\* keyboard's override, if there is one.
LEMMA IsoOfKeyboard ==
    ASSUME IntrInv, TablesInv, pc \in {"route"} \cup Routing
    PROVE  /\ ps2_irq = KbdIrq /\ offset = Len(m.madt)
           /\ \/ isos[KbdIrq] = NULL /\ Overrides(KbdIrq) = {}
              \/ /\ isos[KbdIrq] # NULL /\ isos[KbdIrq] \in Overrides(KbdIrq)
                 /\ Max(Overrides(KbdIrq)) = isos[KbdIrq]
           /\ RouteGsi \in 0..255
<1>1. KbdIrq \in 0..255 /\ Len(m.madt) \in Nat
      /\ \A i \in 1..Len(m.madt) : m.madt[i] \in MadtEntries
  BY MachineShape DEF IntrInv, TypeOK
<1>2. ps2_irq = KbdIrq /\ offset = Len(m.madt)
  BY DEF TablesInv, Routing
<1> DEFINE s == KbdIrq
           o == Overrides(KbdIrq)
<1>3. /\ isos[s] # NULL => isos[s] \in o
      /\ \A i \in o : i <= offset => isos[s] # NULL /\ i <= isos[s]
  BY <1>1 DEF TablesInv, IsosRight
<1>4. \A i \in o : i \in Int /\ i <= offset
  BY <1>1, <1>2 DEF Overrides
<1>5. CASE isos[s] = NULL
  <2>1. o = {}
    BY <1>3, <1>4, <1>5, Zenon
  <2>2. RouteGsi = KbdIrq
    BY <1>2, <1>5 DEF RouteGsi
  <2> QED
    BY <1>1, <1>2, <1>5, <2>1, <2>2
<1>6. CASE isos[s] # NULL
  <2>1. isos[s] \in o
    BY <1>3, <1>6
  <2>2. \A i \in o : i <= isos[s]
    BY <1>3, <1>4
  <2>3. o \in SUBSET Int
    BY <1>4
  <2>4. Max(o) = isos[s]
    <3> HIDE DEF s, o
    <3> QED
      BY <2>1, <2>2, <2>3, MaxIs
  <2>5. isos[s] \in 1..Len(m.madt) /\ m.madt[isos[s]].type = "iso"
    BY <2>1 DEF Overrides
  <2>6. m.madt[isos[s]].gsi \in Nat
    BY <1>1, <2>5 DEF MadtEntries
  <2>7. RouteGsi = m.madt[isos[s]].gsi % 256
    BY <1>2, <1>6 DEF RouteGsi
  <2>8. RouteGsi \in 0..255
    <3>1. PICK g \in Nat : g = m.madt[isos[s]].gsi
      BY <2>6
    <3>2. g % 256 \in 0..255
      BY SMT
    <3> QED
      BY <2>7, <3>1, <3>2
  <2> QED
    BY <1>2, <1>6, <2>1, <2>4, <2>8
<1> QED
  BY <1>5, <1>6

\* The entry route_irq chooses is an IOAPIC's, and the pin one it has; it finds
\* one whenever an IOAPIC has the pin, and it is not its last.
LEMMA RouteChosen ==
    ASSUME IntrInv, TablesInv, pc \in {"route"} \cup Routing
    PROVE  /\ RouteTo # NULL => /\ RouteTo \in Chips /\ RoutePin \in Pins(RouteTo)
                                /\ RoutePin + m.madt[RouteTo].base = RouteGsi
           /\ \A i \in Chips : (/\ m.madt[i].base <= RouteGsi
                                 /\ RouteGsi < m.madt[i].base + m.madt[i].pins - 1)
                               => RouteTo # NULL
<1>1. RouteGsi \in 0..255 /\ offset = Len(m.madt)
  BY IsoOfKeyboard
<1>2. \A i \in Chips : i \in 1..Len(m.madt) /\ m.madt[i].base \in Nat /\ m.madt[i].pins \in 1..120
  BY ChipShape
<1>3. Len(m.madt) \in Nat /\ IoapicsRight
  BY MachineShape DEF IntrInv, TypeOK, TablesInv
<1>4. PICK n \in Nat : n = Len(ioapics)
  BY <1>3 DEF IoapicsRight
<1>5. Matching \in SUBSET (1..n)
  BY <1>4 DEF Matching
<1>6. ASSUME Matching # {}
      PROVE  /\ RouteTo \in Chips /\ RoutePin \in Pins(RouteTo)
             /\ RoutePin + m.madt[RouteTo].base = RouteGsi
             /\ RouteTo # NULL
  <2> DEFINE k == Max(Matching)
  <2>1. k \in Matching
    BY <1>5, <1>6, MaxOfIndices
  <2>2. RouteTo = ioapics[k].ioapic_info
    BY <1>6 DEF RouteTo
  <2> HIDE DEF k
  <2>3. k \in 1..n /\ m.madt[RouteTo].base <= RouteGsi
        /\ m.madt[RouteTo].base + ioapics[k].max_gsi > RouteGsi
    BY <1>4, <2>1, <2>2 DEF Matching
  <2>4. RouteTo \in Chips /\ ioapics[k].max_gsi = m.madt[RouteTo].pins - 1
    BY <1>3, <1>4, <2>2, <2>3 DEF IoapicsRight
  <2>5. PICK b \in Nat, q \in 1..120 : b = m.madt[RouteTo].base /\ q = m.madt[RouteTo].pins
    BY <1>2, <2>4
  <2>6. b <= RouteGsi /\ b + (q - 1) > RouteGsi
    BY <2>3, <2>4, <2>5
  <2>7. RouteGsi - b \in 0..(q - 1) /\ (RouteGsi - b) + b = RouteGsi
    BY <1>1, <2>6
  <2>8. RoutePin = RouteGsi - b /\ Pins(RouteTo) = 0..(q - 1)
    BY <2>5 DEF RoutePin, Pins
  <2>9. RouteTo # NULL
    BY <1>2, <1>3, <2>4 DEF NULL
  <2> QED
    BY <2>4, <2>5, <2>7, <2>8, <2>9
<1>7. ASSUME NEW i \in Chips, m.madt[i].base <= RouteGsi,
             RouteGsi < m.madt[i].base + m.madt[i].pins - 1
      PROVE  Matching # {}
  <2>1. i <= offset
    BY <1>1, <1>2, <1>3
  <2>2. PICK k \in 1..Len(ioapics) : ioapics[k].ioapic_info = i
    BY <1>3, <2>1 DEF IoapicsRight
  <2>3. ioapics[k].max_gsi = m.madt[i].pins - 1
    BY <1>3, <2>2 DEF IoapicsRight
  <2>4. m.madt[i].base + ioapics[k].max_gsi > RouteGsi
    <3>1. PICK b \in Nat, q \in 1..120 : b = m.madt[i].base /\ q = m.madt[i].pins
      BY <1>2
    <3>2. RouteGsi < b + q - 1
      BY <1>7, <3>1
    <3>3. b + (q - 1) > RouteGsi
      BY <1>1, <3>2
    <3> QED
      BY <2>3, <3>1, <3>3
  <2>5. k \in Matching
    BY <1>7, <2>2, <2>4 DEF Matching
  <2> QED
    BY <2>5
<1>8. Matching = {} => RouteTo = NULL
  BY DEF RouteTo
<1> QED
  BY <1>6, <1>7, <1>8, Zenon

\* Steps that write no redirection entry.
LEMMA PinsKept ==
    ASSUME PinsInv, UNCHANGED <<m, isos, ioapics, ps2_irq, redir>>,
           pc' = "route_high" => pc = "route_high",
           pc' \in {"boot", "run", "syscall"} => pc \in {"boot", "run", "syscall"}
    PROVE  PinsInv'
<1>1. /\ RouteTo' = RouteTo /\ RoutePin' = RoutePin /\ get_lapic_id' = get_lapic_id
      /\ ActiveLow' = ActiveLow /\ LevelTriggered' = LevelTriggered
  BY SameRoute
<1>2. Chips' = Chips /\ \A k : Pins(k)' = Pins(k)
  BY SameMachine
<1>3. Opened' = Opened /\ Closed' = Closed
  BY <1>1, <1>2 DEF Opened, Closed
<1> QED
  BY <1>1, <1>3 DEF PinsInv

LEMMA PinsNext == IntrInv /\ TablesInv /\ PinsInv /\ [Next]_vars => PinsInv'
<1> SUFFICES ASSUME IntrInv, TablesInv, PinsInv, [Next]_vars PROVE PinsInv'
  OBVIOUS
<1> USE DEF At
<1>0. ASSUME pc = "route" PROVE Closed
  BY <1>0 DEF IntrInv, RedirRight, EntryOK, Closed, Routing
<1>1. CASE RouteLow
  <2>1. /\ pc = "route" /\ pc' = "route_high" /\ UNCHANGED <<m, isos, ioapics, ps2_irq>>
        /\ RouteTo # NULL
    BY <1>1 DEF RouteLow, bootVars
  <2>2. RouteTo \in Chips /\ RoutePin \in Pins(RouteTo)
    BY <2>1, RouteChosen
  <2>3. redir'[RouteTo][RoutePin] =
            [masked |-> FALSE, vec |-> KbdVec, low |-> ActiveLow, level |-> LevelTriggered,
             dest |-> redir[RouteTo][RoutePin].dest]
    BY <1>1, <2>2 DEF RouteLow, IntrInv, RedirRight
  <2>4. ASSUME NEW k \in Chips, NEW p \in Pins(k), ~(k = RouteTo /\ p = RoutePin)
        PROVE  redir'[k][p].masked = TRUE
    <3>1. redir'[k][p] = redir[k][p]
      BY <1>1, <2>4 DEF RouteLow, IntrInv, RedirRight
    <3> QED
      BY <1>0, <2>1, <3>1 DEF Closed
  <2>5. Opened'
    <3>1. /\ RouteTo' = RouteTo /\ RoutePin' = RoutePin
          /\ ActiveLow' = ActiveLow /\ LevelTriggered' = LevelTriggered
      BY <2>1, SameRoute
    <3>2. Chips' = Chips /\ \A k : Pins(k)' = Pins(k)
      BY <2>1, SameMachine
    <3>3. (RouteTo \in Chips /\ RoutePin \in Pins(RouteTo))'
      BY <2>1, <2>2, <3>1, <3>2 DEF Pins
    <3>4. (redir[RouteTo][RoutePin])' = redir'[RouteTo][RoutePin]
      BY <3>1
    <3>5. (redir[RouteTo][RoutePin].low = ActiveLow)' /\ (redir[RouteTo][RoutePin].masked = FALSE)'
      BY <2>3, <3>1, <3>4
    <3>6. (redir[RouteTo][RoutePin].level = LevelTriggered)'
      BY <2>3, <3>1, <3>4
    <3>7. (\A k \in Chips : \A p \in Pins(k) :
             redir[k][p].masked = FALSE => k = RouteTo /\ p = RoutePin)'
      BY <2>4, <3>1, <3>2
    <3> QED
      BY <3>3, <3>5, <3>6, <3>7 DEF Opened
  <2> QED
    BY <2>1, <2>5 DEF PinsInv
<1>2. CASE RouteHigh
  <2>1. /\ pc = "route_high" /\ pc' = "boot" /\ UNCHANGED <<m, isos, ioapics, ps2_irq>> /\ Opened
    BY <1>2 DEF RouteHigh, bootVars, PinsInv
  <2>2. RouteTo \in Chips /\ RoutePin \in Pins(RouteTo) /\ RouteTo # NULL
    <3>1. RouteTo \in Chips /\ RoutePin \in Pins(RouteTo)
      BY <2>1 DEF Opened
    <3> QED
      BY <3>1 DEF Chips, NULL
  <2> DEFINE e == redir[RouteTo][RoutePin]
  <2>3. redir'[RouteTo][RoutePin] = [e EXCEPT !.dest = get_lapic_id % 256]
    BY <1>2, <2>2 DEF RouteHigh, IntrInv, RedirRight
  <2>4. e = [masked |-> e.masked, vec |-> e.vec, low |-> e.low, level |-> e.level, dest |-> e.dest]
    BY <2>2 DEF IntrInv, RedirRight, EntryOK
  <2> HIDE DEF e
  <2>5. redir'[RouteTo][RoutePin] =
            [masked |-> e.masked, vec |-> e.vec, low |-> e.low, level |-> e.level,
             dest |-> get_lapic_id % 256]
    BY <2>3, <2>4
  <2>6. e.masked = FALSE /\ e.low = ActiveLow /\ e.level = LevelTriggered
    BY <2>1 DEF Opened, e
  <2>7. ASSUME NEW k \in Chips, NEW p \in Pins(k), ~(k = RouteTo /\ p = RoutePin)
        PROVE  redir'[k][p] = redir[k][p]
    BY <1>2, <2>7 DEF RouteHigh, IntrInv, RedirRight
  <2>8. /\ RouteTo' = RouteTo /\ RoutePin' = RoutePin /\ get_lapic_id' = get_lapic_id
        /\ ActiveLow' = ActiveLow /\ LevelTriggered' = LevelTriggered
    BY <2>1, SameRoute
  <2>9. Chips' = Chips /\ \A k : Pins(k)' = Pins(k)
    BY <2>1, SameMachine
  <2>10. Opened'
    <3>1. ASSUME NEW k \in Chips, NEW p \in Pins(k), redir'[k][p].masked = FALSE
          PROVE  k = RouteTo /\ p = RoutePin
      BY <2>1, <2>7, <3>1 DEF Opened
    <3>3. (RouteTo \in Chips /\ RoutePin \in Pins(RouteTo))'
      BY <2>1, <2>2, <2>8, <2>9 DEF Pins
    <3>4. (redir[RouteTo][RoutePin])' = redir'[RouteTo][RoutePin]
      BY <2>8
    <3>5. (redir[RouteTo][RoutePin].low = ActiveLow)' /\ (redir[RouteTo][RoutePin].masked = FALSE)'
      BY <2>5, <2>6, <2>8, <3>4
    <3>6. (redir[RouteTo][RoutePin].level = LevelTriggered)'
      BY <2>5, <2>6, <2>8, <3>4
    <3>7. (\A k \in Chips : \A p \in Pins(k) :
             redir[k][p].masked = FALSE => k = RouteTo /\ p = RoutePin)'
      BY <2>8, <2>9, <3>1
    <3> QED
      BY <3>3, <3>5, <3>6, <3>7 DEF Opened
  <2> QED
    BY <2>1, <2>2, <2>5, <2>8, <2>10 DEF PinsInv
<1>3. CASE NotRouted
  <2>1. /\ pc = "route" /\ pc' = "boot" /\ UNCHANGED <<m, isos, ioapics, ps2_irq, redir>>
        /\ RouteTo = NULL
    BY <1>3 DEF NotRouted, bootVars, apicVars
  <2>2. RouteTo' = NULL
    BY <2>1, SameRoute
  <2>3. Closed'
    BY <1>0, <2>1, SameMachine DEF Closed
  <2> QED
    BY <2>1, <2>2, <2>3 DEF PinsInv
<1>4. CASE \/ AcpiInit \/ ParseEntry \/ IoapicsFull \/ NoMadt \/ EnableLapic \/ HpetFails \/ StartCalibration
           \/ StartTimer \/ Cli \/ FindPs2 \/ NoPs2 \/ RegisterPs2
  <2>1. pc' \notin {"route_high", "boot", "run", "syscall"}
    BY <1>4 DEF AcpiInit, ParseEntry, IoapicsFull, NoMadt, EnableLapic, HpetFails, StartCalibration,
                StartTimer, Cli, FindPs2, NoPs2, RegisterPs2, Stop
  <2> QED
    BY <2>1 DEF PinsInv
<1>5. CASE Sti \/ Syscall
  BY <1>5, PinsKept DEF Sti, Syscall, bootVars, apicVars
<1>6. CASE \/ Poll \/ Halt \/ UNCHANGED vars \/ HandlerStep \/ HpetTick \/ KbdByte \/ LevelSend
           \/ TimerFires \/ Deliver \/ Spurious
  <2>1. UNCHANGED <<pc, m, isos, ioapics, ps2_irq, redir>>
    BY <1>6 DEF Poll, Halt, vars, HandlerStep, CallHandler, CallNull, SendEoi, Iretq, HpetTick,
                KbdByte, LevelSend, TimerFires, Deliver, Spurious, Stop, bootVars, apicVars
  <2> QED
    BY <2>1, PinsKept
<1> QED
  BY <1>1, <1>2, <1>3, <1>4, <1>5, <1>6 DEF Next, BootStep

\* On every machine: once the system runs, route_irq has opened one pin at most,
\* and that is the keyboard's, with the polarity and the trigger of the last
\* override of its interrupt and a vector with a handler; it has opened it on
\* every machine that has the pin anywhere but last on an IOAPIC.
THEOREM KeyboardRoutedAlways == Spec => []KeyboardRouted
<1>1. ASSUME IntrInv, TablesInv, PinsInv, Running
      PROVE  /\ \A x, y \in OpenPins : x = y
             /\ Wire.gsi < 256 =>
                  \A x \in OpenPins : LET e == redir[x[1]][x[2]] IN
                    /\ x[1] \in WiredTo /\ x[2] + m.madt[x[1]].base = Wire.gsi
                    /\ e.low = (Wire.pol = 3) /\ e.level = (Wire.trig = 3)
                    /\ idt_handlers[e.vec] = "ps2_handler"
             /\ (/\ Wire.gsi < 256
                 /\ \E k \in WiredTo : Wire.gsi < m.madt[k].base + m.madt[k].pins - 1)
                => OpenPins # {} /\ (m.id = 0 => PinOpen)
  <2>1. pc \in Routing /\ pc \in {"boot", "run", "syscall"}
    BY <1>1 DEF Running, Routing
  <2>2. \/ RouteTo = NULL /\ Closed
        \/ RouteTo # NULL /\ Opened /\ redir[RouteTo][RoutePin].dest = get_lapic_id % 256
    BY <1>1, <2>1 DEF PinsInv
  <2>3. ASSUME NEW x \in OpenPins
        PROVE  RouteTo # NULL /\ Opened /\ x = <<RouteTo, RoutePin>>
    <3>0. x \in Chips \X (0..255) /\ x[2] \in Pins(x[1]) /\ ~redir[x[1]][x[2]].masked
      BY DEF OpenPins
    <3>1. PICK k \in Chips, p \in 0..255 : x = <<k, p>> /\ p \in Pins(k) /\ ~redir[k][p].masked
      <4>1. x[1] \in Chips /\ x[2] \in 0..255 /\ x = <<x[1], x[2]>>
        BY <3>0
      <4> QED
        BY <3>0, <4>1, Zenon
    <3>2. redir[k][p].masked = FALSE
      BY <1>1, <3>1 DEF IntrInv, RedirRight, EntryOK
    <3>3. ~Closed
      BY <3>1, <3>2 DEF Closed
    <3>4. k = RouteTo /\ p = RoutePin
      BY <2>2, <3>1, <3>2, <3>3 DEF Opened
    <3> QED
      BY <2>2, <3>1, <3>3, <3>4
  <2>4. \A x, y \in OpenPins : x = y
    BY <2>3
  <2>5. ASSUME Wire.gsi < 256
        PROVE  /\ RouteGsi = Wire.gsi /\ RouteGsi \in 0..255
               /\ ActiveLow = (Wire.pol = 3) /\ LevelTriggered = (Wire.trig = 3)
    <3>1. /\ ps2_irq = KbdIrq /\ RouteGsi \in 0..255
          /\ \/ isos[KbdIrq] = NULL /\ Overrides(KbdIrq) = {}
             \/ /\ isos[KbdIrq] # NULL /\ isos[KbdIrq] \in Overrides(KbdIrq)
                /\ Max(Overrides(KbdIrq)) = isos[KbdIrq]
      BY <1>1, <2>1, IsoOfKeyboard
    <3>2. CASE isos[KbdIrq] = NULL /\ Overrides(KbdIrq) = {}
      <4>1. Wire = [gsi |-> KbdIrq, pol |-> 0, trig |-> 0]
        BY <3>2 DEF Wire
      <4> QED
        BY <3>1, <3>2, <4>1 DEF RouteGsi, ActiveLow, LevelTriggered
    <3>3. CASE /\ isos[KbdIrq] # NULL /\ isos[KbdIrq] \in Overrides(KbdIrq)
               /\ Max(Overrides(KbdIrq)) = isos[KbdIrq]
      <4>1. Wire = m.madt[isos[KbdIrq]]
        BY <3>3 DEF Wire
      <4>2. isos[KbdIrq] \in 1..Len(m.madt) /\ Wire.type = "iso"
        BY <3>3, <4>1 DEF Overrides
      <4>3. Wire \in MadtEntries
        BY <1>1, <4>1, <4>2, MachineShape DEF IntrInv, TypeOK
      <4>4. Wire.gsi \in Nat
        BY <4>2, <4>3 DEF MadtEntries
      <4>5. Wire.gsi % 256 = Wire.gsi
        BY <2>5, <4>4
      <4>6. RouteGsi = Wire.gsi % 256
        BY <3>1, <3>3, <4>1 DEF RouteGsi
      <4>7. ActiveLow = (Wire.pol = 3) /\ LevelTriggered = (Wire.trig = 3)
        BY <3>1, <3>3, <4>1 DEF ActiveLow, LevelTriggered
      <4> QED
        BY <3>1, <4>5, <4>6, <4>7
    <3> QED
      BY <3>1, <3>2, <3>3
  <2>6. ASSUME RouteTo # NULL, Wire.gsi < 256
        PROVE  RouteTo \in WiredTo /\ RoutePin + m.madt[RouteTo].base = Wire.gsi
               /\ Pin(RouteTo) = redir[RouteTo][RoutePin]
    <3>1. /\ RouteTo \in Chips /\ RoutePin \in Pins(RouteTo)
          /\ RoutePin + m.madt[RouteTo].base = RouteGsi
      BY <1>1, <2>1, <2>6, RouteChosen
    <3>2. RoutePin = Wire.gsi - m.madt[RouteTo].base
      BY <2>5, <2>6 DEF RoutePin
    <3> QED
      BY <2>5, <2>6, <3>1, <3>2 DEF WiredTo, Pin
  <2>7. ASSUME Wire.gsi < 256, NEW x \in OpenPins
        PROVE  LET e == redir[x[1]][x[2]] IN
                  /\ x[1] \in WiredTo /\ x[2] + m.madt[x[1]].base = Wire.gsi
                  /\ e.low = (Wire.pol = 3) /\ e.level = (Wire.trig = 3)
                  /\ idt_handlers[e.vec] = "ps2_handler"
    <3>1. RouteTo # NULL /\ Opened /\ x[1] = RouteTo /\ x[2] = RoutePin
      BY <2>3
    <3>2. x[1] \in WiredTo /\ x[2] + m.madt[x[1]].base = Wire.gsi
      BY <2>6, <2>7, <3>1
    <3> DEFINE e == redir[RouteTo][RoutePin]
    <3>3. e.masked = FALSE /\ EntryOK(e)
      BY <1>1, <3>1 DEF Opened, IntrInv, RedirRight
    <3>4. e.vec = 33 /\ idt_handlers[33] = "ps2_handler"
      BY <1>1, <2>1, <3>3 DEF EntryOK, KbdVec, IntrInv, HandlersSet
    <3>5. e.low = ActiveLow /\ e.level = LevelTriggered
      BY <3>1 DEF Opened
    <3>6. e.low = (Wire.pol = 3) /\ e.level = (Wire.trig = 3)
      BY <2>5, <2>7, <3>5, Zenon
    <3> QED
      BY <3>1, <3>2, <3>4, <3>6
  <2>8. ASSUME Wire.gsi < 256,
               NEW k \in WiredTo, Wire.gsi < m.madt[k].base + m.madt[k].pins - 1
        PROVE  OpenPins # {} /\ (m.id = 0 => PinOpen)
    <3>1. RouteGsi = Wire.gsi /\ RouteGsi \in 0..255
      BY <2>5, <2>8
    <3>2. k \in Chips /\ Wire.gsi - m.madt[k].base \in 0..(m.madt[k].pins - 1)
      BY DEF WiredTo, Pins
    <3>3. m.madt[k].base <= RouteGsi
      <4>1. m.madt[k].base \in Nat
        BY <1>1, <3>2, ChipShape
      <4> QED
        BY <3>1, <3>2, <4>1
    <3>4. RouteTo # NULL
      BY <1>1, <2>1, <2>8, <3>1, <3>2, <3>3, RouteChosen
    <3>5. Opened /\ redir[RouteTo][RoutePin].dest = get_lapic_id % 256
      BY <2>2, <3>4
    <3>6. RouteTo \in Chips /\ RoutePin \in Pins(RouteTo) /\ redir[RouteTo][RoutePin].masked = FALSE
      BY <3>5 DEF Opened
    <3>7. RoutePin \in 0..255
      <4>1. PICK q \in 1..120 : q = m.madt[RouteTo].pins
        BY <1>1, <3>6, ChipShape
      <4> QED
        BY <3>6, <4>1 DEF Pins
    <3>8. <<RouteTo, RoutePin>> \in OpenPins
      BY <3>6, <3>7 DEF OpenPins
    <3>9. ASSUME m.id = 0 PROVE PinOpen
      <4>1. get_lapic_id % 256 = 0
        BY <3>9 DEF get_lapic_id
      <4>2. RouteTo \in WiredTo /\ Pin(RouteTo) = redir[RouteTo][RoutePin]
        BY <2>6, <2>8, <3>4
      <4>3. RouteTo \in OpenAt
        BY <3>5, <3>6, <3>9, <4>1, <4>2 DEF OpenAt
      <4>4. enabled
        BY <1>1, <2>1 DEF TablesInv
      <4> QED
        BY <4>3, <4>4 DEF PinOpen
    <3> QED
      BY <3>8, <3>9
  <2> QED
    BY <2>4, <2>7, <2>8
<1>2. IntrInv /\ TablesInv /\ PinsInv => KeyboardRouted
  BY <1>1 DEF KeyboardRouted
<1> QED
  BY <1>2, TablesInit, TablesNext, PinsNext, IntrAlways, PTL DEF Spec
==============================================================================

---------------------------------- MODULE Apic ----------------------------------
(***************************************************************************)
(* Interrupt delivery: apic_init, route_irq, ksleep and the EOI            *)
(* (drivers/apic.c), ps2_init (drivers/ps2.c), vectors and handlers        *)
(* (idt.c), from acpi_init to the running system.                          *)
(*                                                                         *)
(* External: the firmware's tables, the LAPIC and IOAPICs, the HPET and    *)
(* the keyboard controller.  All of them are described by m, one machine   *)
(* of Machines.  What a handler does beyond reading the keyboard's port    *)
(* and sending its EOI is in Sched and Keyboard.                           *)
(***************************************************************************)
EXTENDS Integers, Sequences, FiniteSetsExt

CONSTANTS
    Machines,   \* the machines the kernel is booted on
    FsPerNs,    \* 1000000 in the code
    SleepNs,    \* nanoseconds of ksleep(10): 10 * 1000000 in the code
    MaxIoapics, \* entries of the array ioapics: 16 in the code
    Rate,       \* LAPIC timer ticks per HPET tick
    MaxPoll,    \* bound: HPET ticks of one ksleep
    MaxBytes    \* bound: bytes the keyboard sends

ASSUME ApicAssumption ==
    {FsPerNs, SleepNs, MaxIoapics, Rate, MaxPoll} \subseteq Nat \ {0} /\ MaxBytes \in Nat

\* Entries of the MADT: overrides, IOAPICs (with the number of their pins) and
\* others.  An IOAPIC selects its registers with eight bits, as ioapic_reg has,
\* and two of them from 16 on are a pin's: it has 120 pins at most, and the
\* numbers of route_irq's registers do not wrap.
MadtEntries ==
    [type: {"iso"}, source: 0..255, gsi: Nat, pol: 0..3, trig: 0..3]
    \cup [type: {"ioapic"}, base: Nat, pins: 1..120]
    \cup [type: {"lapic_nmi"}]

\* What the firmware and the hardware of a machine are made of.
ASSUME MachinesAssumption ==
    \A x \in Machines :
        /\ x.madt \in Seq(MadtEntries)
        /\ x.res \in Seq([type: {"irq", "io", "fixed_io", "dma"}, at: Nat])
        /\ \A i \in 1..Len(x.res) : x.res[i].type = "irq" => x.res[i].at \in 0..255
        /\ x.period \in Nat /\ x.id \in 0..255

VARIABLES
    m,              \* the machine
    pc,             \* where the boot code is
    offset,         \* MADT entries parsed
    isos,           \* isos[source]: the override's entry, or NULL
    ioapics,        \* the IOAPICs found: [ioapic_info (the entry), max_gsi]
    idt_handlers,   \* what the stub of a vector calls
    ps2_irq, ps2_port,
    time_per_tick_hpet,
    poll,           \* HPET ticks since ksleep's poll_start
    lapic_ticks_per_10ms,
    redir,          \* redir[k][pin]: redirection entries of entry k's IOAPIC
    remote,         \* remote IRR of the keyboard's pin (level triggered)
    enabled,        \* software enable bit of the LAPIC
    lvt,            \* its timer entry
    irr, isr,       \* vectors pending, and in service
    ifl,            \* the processor's interrupt flag
    intr,           \* the interrupt being handled; vec = 0 when there is none
    halted,         \* "no", or why the kernel stopped
    obf,            \* the keyboard controller's output buffer is full
    sent,           \* bytes the keyboard has sent
    early,          \* history: this byte's edge fell on a masked pin
    stale,          \* history: a handler read an empty buffer
    spurred         \* history: a spurious interrupt was delivered

bootVars == <<m, offset, isos, ioapics, idt_handlers, ps2_irq, ps2_port,
              time_per_tick_hpet, poll, lapic_ticks_per_10ms>>
apicVars == <<redir, remote, enabled, lvt, irr, isr>>
cpuVars  == <<ifl, intr, halted>>
kbdVars  == <<obf, sent, early, stale, spurred>>
vars == <<pc, bootVars, apicVars, cpuVars, kbdVars>>

DataPort == 96      \* 0x60
SpuriousVec == 33   \* 0xf0 gets 0x100 | 33
NULL == 0           \* no entry of the MADT
NoIntr == [vec |-> 0, step |-> "none", spurious |-> FALSE]
Reset == [masked |-> TRUE, vec |-> 0, low |-> FALSE, level |-> FALSE, dest |-> 0]

------------------------------------------------------------------------------
(* The hardware, as the firmware describes it.                             *)

Resources(types) == {i \in 1..Len(m.res) : m.res[i].type \in types}

\* The keyboard's interrupt: the one its resources name, else 1 of the ISA bus.
KbdIrq == LET named == Resources({"irq"}) IN IF named = {} THEN 1 ELSE m.res[Max(named)].at

\* The global interrupt it comes on and how it signals, from the last override.
Overrides(irq) == {i \in 1..Len(m.madt) : m.madt[i].type = "iso" /\ m.madt[i].source = irq}

Wire ==
    IF Overrides(KbdIrq) = {} THEN [gsi |-> KbdIrq, pol |-> 0, trig |-> 0]
    ELSE m.madt[Max(Overrides(KbdIrq))]

\* The entries of IOAPICs, and those with the keyboard's pin.
Chips == {k \in 1..Len(m.madt) : m.madt[k].type = "ioapic"}

Pins(k) == 0..(m.madt[k].pins - 1)

WiredTo == {k \in Chips : Wire.gsi - m.madt[k].base \in Pins(k)}

Pin(k) == redir[k][Wire.gsi - m.madt[k].base]

\* The pins through which the keyboard's line reaches this processor.
OpenAt == {k \in WiredTo : ~Pin(k).masked /\ Pin(k).dest = m.id}

PinOpen == enabled /\ OpenAt # {}

\* The vector it comes with.
PinVec == Pin(CHOOSE k \in OpenAt : TRUE).vec
------------------------------------------------------------------------------
Init ==
    /\ m \in Machines
    /\ pc = "acpi" /\ offset = 0
    /\ isos = [i \in 0..255 |-> NULL] /\ ioapics = <<>>
    /\ idt_handlers = [v \in 32..34 |-> IF v = 32 THEN "sched_meow" ELSE "NULL"]
    /\ ps2_irq = 1 /\ ps2_port = 0
    /\ time_per_tick_hpet = 0 /\ poll = 0 /\ lapic_ticks_per_10ms = 0
    /\ redir = [k \in Chips |-> [p \in Pins(k) |-> Reset]]
    /\ remote = FALSE
    /\ enabled = FALSE /\ lvt = [vec |-> 0, masked |-> TRUE]
    /\ irr = {} /\ isr = {}
    /\ ifl = FALSE /\ intr = NoIntr /\ halted = "no"
    /\ obf = FALSE /\ sent = 0 /\ early = FALSE /\ stale = FALSE /\ spurred = FALSE

\* The boot code is at a step and no interrupt has it suspended.
At(step) == pc = step /\ intr = NoIntr /\ halted = "no"

Stop(why) ==
    /\ halted' = why /\ ifl' = FALSE
    /\ UNCHANGED <<pc, intr, bootVars, apicVars, kbdVars>>

\* acpi_init.  Whatever uacpi_initialize returns, boot goes on; AML that
\* stalls calls ksleep before there is an HPET, and stays there: time_per_tick
\* is still 0, so Slept is never true.
AcpiInit ==
    /\ At("acpi")
    /\ pc' = IF m.stalls THEN "stall" ELSE "madt"
    /\ UNCHANGED <<bootVars, apicVars, cpuVars, kbdVars>>

\* The end of ksleep: (*poll_cur - poll_start) * time_per_tick_hpet has come
\* up to ms * 1000000.
Slept(ns) == poll * time_per_tick_hpet >= ns

\* One more turn of the loop.
Poll == (At("stall") \/ At("ksleep")) /\ ~Slept(SleepNs) /\ UNCHANGED vars

\* The version register holds the index of the last redirection entry.
get_ioapic_maxgsi(pins) == pins - 1

\* One entry of the MADT.  Without the table, the pointer that
\* uacpi_table_find_by_signature did not set is used all the same.
ParseEntry ==
    /\ At("madt")
    /\ m.tables /\ offset < Len(m.madt)
    /\ m.madt[offset + 1].type = "ioapic" => Len(ioapics) < MaxIoapics
    /\ offset' = offset + 1
    /\ LET ent == m.madt[offset + 1] IN
       /\ isos' = IF ent.type = "iso" THEN [isos EXCEPT ![ent.source] = offset + 1] ELSE isos
       /\ ioapics' = IF ent.type = "ioapic"
                     THEN Append(ioapics, [ioapic_info |-> offset + 1,
                                           max_gsi |-> get_ioapic_maxgsi(ent.pins)])
                     ELSE ioapics
    /\ UNCHANGED <<pc, m, idt_handlers, ps2_irq, ps2_port, time_per_tick_hpet, poll,
                   lapic_ticks_per_10ms, apicVars, cpuVars, kbdVars>>

NoMadt == At("madt") /\ ~m.tables /\ Stop("wild")

\* One IOAPIC more than the array ioapics has entries for: what lies behind it
\* is written over, which the model does not follow.
IoapicsFull ==
    /\ At("madt")
    /\ m.tables /\ offset < Len(m.madt)
    /\ m.madt[offset + 1].type = "ioapic" /\ Len(ioapics) = MaxIoapics
    /\ Stop("wild")

\* sti, the task priority, the spurious vector and a masked timer.
EnableLapic ==
    /\ At("madt") /\ m.tables /\ offset = Len(m.madt)
    /\ pc' = "hpet"
    /\ ifl' = TRUE /\ enabled' = TRUE /\ lvt' = [vec |-> 34, masked |-> TRUE]
    /\ UNCHANGED <<bootVars, redir, remote, irr, isr, intr, halted, kbdVars>>

\* No HPET, one that is not memory mapped, or a narrow one: cli and hlt.
HpetFails == At("hpet") /\ m.hpet # "ok" /\ Stop("hpet")

\* Mutants of TimePerTick: rounded up; in microseconds.
TimePerTickUp == (m.period + FsPerNs - 1) \div FsPerNs
TimePerTickUs == m.period \div (FsPerNs * FsPerNs)

\* The period is in femtoseconds; what is below a nanosecond is dropped.
TimePerTick == m.period \div FsPerNs

\* The HPET runs, the LAPIC timer counts down, and ksleep(10) starts.
StartCalibration ==
    /\ At("hpet") /\ m.hpet = "ok"
    /\ pc' = "ksleep"
    /\ time_per_tick_hpet' = TimePerTick
    /\ poll' = 0
    /\ UNCHANGED <<m, offset, isos, ioapics, idt_handlers, ps2_irq, ps2_port,
                   lapic_ticks_per_10ms, apicVars, cpuVars, kbdVars>>

\* External: the HPET's counter, and Rate times the LAPIC's, move.
HpetTick ==
    /\ pc \in {"stall", "ksleep"} /\ halted = "no"
    /\ poll < MaxPoll /\ poll' = poll + 1
    /\ UNCHANGED <<pc, m, offset, isos, ioapics, idt_handlers, ps2_irq, ps2_port,
                   time_per_tick_hpet, lapic_ticks_per_10ms, apicVars, cpuVars, kbdVars>>

\* The count is read back and becomes the period of an unmasked timer.
StartTimer ==
    /\ At("ksleep") /\ Slept(SleepNs)
    /\ pc' = "cli"
    /\ lapic_ticks_per_10ms' = poll * Rate
    /\ lvt' = [vec |-> 32, masked |-> FALSE]
    /\ UNCHANGED <<m, offset, isos, ioapics, idt_handlers, ps2_irq, ps2_port,
                   time_per_tick_hpet, poll, redir, remote, enabled, irr, isr, cpuVars, kbdVars>>

Cli ==
    /\ At("cli")
    /\ pc' = "ps2" /\ ifl' = FALSE
    /\ UNCHANGED <<bootVars, apicVars, intr, halted, kbdVars>>
------------------------------------------------------------------------------
(* ps2_init.                                                               *)

\* The ports that ps2_port, a byte, keeps as something else than 0, which
\* stands for one not yet found.
PortsKept == {i \in Resources({"fixed_io", "io"}) : m.res[i].at % 256 # 0}

\* Mutant of Ps2Port: the last port wins.
Ps2PortLast == IF PortsKept = {} THEN ps2_port ELSE m.res[Max(PortsKept)].at % 256

\* ps2_res over all resources: the last interrupt and the first port that is
\* kept; without any, what they are at the start.
Ps2Irq == LET s == Resources({"irq"}) IN IF s = {} THEN ps2_irq ELSE m.res[Max(s)].at
Ps2Port == IF PortsKept = {} THEN ps2_port ELSE m.res[Min(PortsKept)].at % 256

\* uacpi_find_devices, and found_ps2 for the one device.
FindPs2 ==
    /\ At("ps2") /\ m.device = "ok"
    /\ pc' = "vector"
    /\ ps2_irq' = Ps2Irq /\ ps2_port' = Ps2Port
    /\ UNCHANGED <<m, offset, isos, ioapics, idt_handlers, time_per_tick_hpet, poll,
                   lapic_ticks_per_10ms, apicVars, cpuVars, kbdVars>>

\* kpanic: no device, or no resources.
NoPs2 == At("ps2") /\ m.device # "ok" /\ Stop("panic")

\* init_idt took 32 for sched_meow: AllocateVector returns 33 here.
KbdVec == 33

RegisterPs2 ==
    /\ At("vector")
    /\ pc' = "route"
    /\ idt_handlers' = [idt_handlers EXCEPT ![KbdVec] = "ps2_handler"]
    /\ UNCHANGED <<m, offset, isos, ioapics, ps2_irq, ps2_port, time_per_tick_hpet, poll,
                   lapic_ticks_per_10ms, apicVars, cpuVars, kbdVars>>

\* Mutant of RouteGsi: overrides are not looked at.
RouteGsiNoIso == ps2_irq

\* route_irq: uint8_t gsi.
RouteGsi == IF isos[ps2_irq] # NULL THEN m.madt[isos[ps2_irq]].gsi % 256 ELSE ps2_irq

\* The IOAPIC route_irq takes: the last that matches, or NULL.
Matching ==
    {k \in 1..Len(ioapics) :
        LET base == m.madt[ioapics[k].ioapic_info].base
        IN  base <= RouteGsi /\ base + ioapics[k].max_gsi > RouteGsi}

RouteTo == IF Matching = {} THEN NULL ELSE ioapics[Max(Matching)].ioapic_info

RoutePin == RouteGsi - m.madt[RouteTo].base

\* The flags of the override, 0 without one.
ActiveLow == isos[ps2_irq] # NULL /\ m.madt[isos[ps2_irq]].pol = 3
LevelTriggered == isos[ps2_irq] # NULL /\ m.madt[isos[ps2_irq]].trig = 3

\* The low half of the entry, which unmasks the pin.
RouteLow ==
    /\ At("route") /\ RouteTo # NULL
    /\ pc' = "route_high"
    /\ redir' = [redir EXCEPT ![RouteTo][RoutePin] =
                    [masked |-> FALSE, vec |-> KbdVec, low |-> ActiveLow,
                     level |-> LevelTriggered, dest |-> @.dest]]
    /\ UNCHANGED <<bootVars, remote, enabled, lvt, irr, isr, cpuVars, kbdVars>>

\* get_lapic_id: the whole register, with the identifier in bits 24 to 31.
get_lapic_id == m.id * 16777216

\* The high half: lapic_id << 56 keeps the low eight bits of that register.
RouteHigh ==
    /\ At("route_high")
    /\ pc' = "boot"
    /\ redir' = [redir EXCEPT ![RouteTo][RoutePin].dest = get_lapic_id % 256]
    /\ UNCHANGED <<bootVars, remote, enabled, lvt, irr, isr, cpuVars, kbdVars>>

\* route_irq returned false, which ps2_init ignores.
NotRouted ==
    /\ At("route") /\ RouteTo = NULL
    /\ pc' = "boot"
    /\ UNCHANGED <<bootVars, apicVars, cpuVars, kbdVars>>

\* The rest of _start, up to the sti of sched_init; then programs, whose
\* system calls turn interrupts off and on again.
Sti ==
    /\ (At("boot") \/ At("syscall"))
    /\ pc' = "run" /\ ifl' = TRUE
    /\ UNCHANGED <<bootVars, apicVars, intr, halted, kbdVars>>

Syscall ==
    /\ At("run")
    /\ pc' = "syscall" /\ ifl' = FALSE
    /\ UNCHANGED <<bootVars, apicVars, intr, halted, kbdVars>>
------------------------------------------------------------------------------
(* Interrupts.                                                             *)

\* External: the keyboard controller has a byte, and its line goes up.  An
\* edge on an open pin is latched; on a masked one it is gone.
KbdByte ==
    /\ ~obf /\ sent < MaxBytes
    /\ obf' = TRUE /\ sent' = sent + 1
    /\ IF Wire.trig = 3 THEN UNCHANGED <<irr, early>>
       ELSE IF PinOpen THEN irr' = irr \cup {PinVec} /\ UNCHANGED early
       ELSE early' = TRUE /\ UNCHANGED irr
    /\ UNCHANGED <<pc, bootVars, redir, remote, enabled, lvt, isr, cpuVars, stale, spurred>>

\* External: a level triggered pin delivers until its remote IRR is set.
LevelSend ==
    /\ obf /\ Wire.trig = 3 /\ PinOpen /\ ~remote
    /\ irr' = irr \cup {PinVec} /\ remote' = TRUE
    /\ UNCHANGED <<pc, bootVars, redir, enabled, lvt, isr, cpuVars, kbdVars>>

\* External: the LAPIC timer comes to zero.
TimerFires ==
    /\ enabled /\ ~lvt.masked /\ lvt.vec \notin irr
    /\ irr' = irr \cup {lvt.vec}
    /\ UNCHANGED <<pc, bootVars, redir, remote, enabled, lvt, isr, cpuVars, kbdVars>>

\* The pending vectors of a higher priority class than all in service.
Deliverable == {v \in irr : \A w \in isr : v \div 16 > w \div 16}

Accepts == enabled /\ ifl /\ halted = "no"

\* The gates of init_idt are interrupt gates.
Gate == FALSE

\* External: the processor takes the highest vector through its gate.
Deliver ==
    /\ Accepts /\ Deliverable # {}
    /\ LET v == Max(Deliverable) IN
       /\ irr' = irr \ {v} /\ isr' = isr \cup {v}
       /\ intr' = [vec |-> v, step |-> "call", spurious |-> FALSE]
    /\ ifl' = Gate
    /\ UNCHANGED <<pc, bootVars, redir, remote, enabled, lvt, halted, kbdVars>>

\* External: a spurious interrupt; nothing goes in service.
Spurious ==
    /\ Accepts /\ ~spurred
    /\ intr' = [vec |-> SpuriousVec, step |-> "call", spurious |-> TRUE]
    /\ ifl' = Gate /\ spurred' = TRUE
    /\ UNCHANGED <<pc, bootVars, apicVars, halted, obf, sent, early, stale>>

Handling(step) == intr.step = step /\ halted = "no"

\* Mutant of CallHandler: the EOI comes before the read.
CallHandlerEoiFirst ==
    \/ /\ Handling("call") /\ idt_handlers[intr.vec] # "NULL"
       /\ intr' = [intr EXCEPT !.step = "read"]
       /\ isr' = isr \ {intr.vec} /\ remote' = FALSE
       /\ UNCHANGED <<pc, bootVars, redir, enabled, lvt, irr, ifl, halted, kbdVars>>
    \/ /\ Handling("read")
       /\ intr' = [intr EXCEPT !.step = "iret"]
       /\ IF intr.vec = 33 THEN obf' = FALSE /\ stale' = (stale \/ ~obf) ELSE UNCHANGED <<obf, stale>>
       /\ UNCHANGED <<pc, bootVars, apicVars, ifl, halted, sent, early, spurred>>

\* The stub calls the handler.  sched_meow calls switch_task; ps2_handler
\* reads its port, where an empty buffer gives the old byte again.
CallHandler ==
    /\ Handling("call") /\ idt_handlers[intr.vec] # "NULL"
    /\ intr' = [intr EXCEPT !.step = "eoi"]
    /\ IF idt_handlers[intr.vec] = "ps2_handler" /\ ps2_port = DataPort
       THEN obf' = FALSE /\ early' = FALSE /\ stale' = (stale \/ ~obf)
       ELSE UNCHANGED <<obf, early, stale>>
    /\ UNCHANGED <<pc, bootVars, apicVars, ifl, halted, sent, spurred>>

\* call through an empty slot of idt_handlers: a page fault, and kpanic.
CallNull == Handling("call") /\ idt_handlers[intr.vec] = "NULL" /\ Stop("null")

\* Mutant of SendEoi: no EOI for the keyboard.
SendEoiTimerOnly ==
    /\ Handling("eoi")
    /\ intr' = [intr EXCEPT !.step = "iret"]
    /\ isr' = isr \ {32}
    /\ UNCHANGED <<pc, bootVars, redir, remote, enabled, lvt, irr, ifl, halted, kbdVars>>

\* send_lapic_eoi ends the highest interrupt in service, whoever sends it,
\* and with it the remote IRR of its pin.
SendEoi ==
    /\ Handling("eoi")
    /\ intr' = [intr EXCEPT !.step = "iret"]
    /\ isr' = IF isr = {} THEN isr ELSE isr \ {Max(isr)}
    /\ remote' = (remote /\ (isr = {} \/ Max(isr) # KbdVec))
    /\ UNCHANGED <<pc, bootVars, redir, enabled, lvt, irr, ifl, halted, kbdVars>>

Iretq ==
    /\ Handling("iret")
    /\ intr' = NoIntr /\ ifl' = TRUE
    /\ UNCHANGED <<pc, bootVars, apicVars, halted, kbdVars>>

Halt == halted # "no" /\ UNCHANGED vars

BootStep ==
    \/ AcpiInit \/ ParseEntry \/ IoapicsFull \/ NoMadt \/ EnableLapic
    \/ HpetFails \/ StartCalibration \/ StartTimer \/ Cli
    \/ FindPs2 \/ NoPs2 \/ RegisterPs2 \/ RouteLow \/ RouteHigh \/ NotRouted \/ Sti

HandlerStep == CallHandler \/ CallNull \/ SendEoi \/ Iretq

Next ==
    \/ BootStep \/ Poll \/ Syscall \/ HandlerStep
    \/ HpetTick \/ KbdByte \/ LevelSend \/ TimerFires \/ Deliver \/ Spurious
    \/ Halt

Spec == Init /\ [][Next]_vars

\* The processor runs and the HPET counts.  The boot code and a pending
\* interrupt get their turn between other interrupts.
FairSpec ==
    /\ Spec
    /\ SF_vars(BootStep) /\ WF_vars(HandlerStep) /\ WF_vars(HpetTick)
    /\ SF_vars(Deliver) /\ WF_vars(LevelSend)
------------------------------------------------------------------------------
(* Properties.                                                             *)

Running == pc \in {"run", "syscall"}

\* Every variable holds a value of its kind; an interrupt is handled with
\* interrupts off.
TypeOK ==
    /\ m \in Machines
    /\ pc \in {"acpi", "stall", "madt", "hpet", "ksleep", "cli", "ps2", "vector", "route",
               "route_high", "boot", "run", "syscall"}
    /\ irr \subseteq 32..34 /\ isr \subseteq 32..34
    /\ intr \in {NoIntr} \cup [vec: 32..34, step: {"call", "eoi", "iret"}, spurious: BOOLEAN]
    /\ halted \in {"no", "wild", "hpet", "panic", "null"}
    /\ {ifl, enabled, remote, obf, early, stale, spurred} \subseteq BOOLEAN
    /\ intr # NoIntr => ~ifl

OpenPins ==
    {x \in Chips \X (0..255) : x[2] \in Pins(x[1]) /\ ~redir[x[1]][x[2]].masked}

\* Once the system runs, at most one pin is open, and it is the keyboard's:
\* the pin of the override the firmware gives for the interrupt it names, with
\* that override's polarity and trigger, and a vector whose handler is set.
\* It is open on every machine that has the pin, but the last of an IOAPIC,
\* and reaches the boot processor when that has identifier 0.
KeyboardRouted ==
    Running =>
        /\ \A x, y \in OpenPins : x = y
        /\ Wire.gsi < 256 =>
             \A x \in OpenPins : LET e == redir[x[1]][x[2]] IN
                /\ x[1] \in WiredTo /\ x[2] + m.madt[x[1]].base = Wire.gsi
                /\ e.low = (Wire.pol = 3) /\ e.level = (Wire.trig = 3)
                /\ idt_handlers[e.vec] = "ps2_handler"
        /\ (/\ Wire.gsi < 256
            /\ \E k \in WiredTo : Wire.gsi < m.madt[k].base + m.madt[k].pins - 1)
           => OpenPins # {} /\ (m.id = 0 => PinOpen)

\* send_lapic_eoi names no interrupt.  It still ends the handler's own and no
\* other, also when a spurious interrupt runs a handler with an EOI in it:
\* nothing is left in service when a handler starts.
OwnEoi ==
    /\ isr \subseteq {intr.vec}
    /\ intr.spurious => isr = {}

\* Types, and an empty ISR whenever a handler starts.
ApicInv == TypeOK /\ OwnEoi

\* No interrupt calls an empty slot of idt_handlers: the timer's handler is
\* set before apic_init turns interrupts on, the keyboard's before its pin is
\* opened.  Only a spurious interrupt before ps2_init does, since it has the
\* vector ps2_init is going to take.
HandlerSet == halted = "null" => spurred

\* ps2_handler reads a byte only when there is one, whether the line is edge
\* or level triggered: it reads before the EOI that lets a level be delivered
\* again.  A spurious interrupt on its vector is the one exception.
NoStaleRead == stale => spurred

\* Every interrupt finds its handler, and every handler its byte.
HandlersRight == HandlerSet /\ NoStaleRead

\* A time slice is no shorter than the 10 ms it is named for, although the
\* HPET's period is cut to whole nanoseconds and the loop polls.
SliceLongEnough ==
    ~lvt.masked => (lapic_ticks_per_10ms \div Rate) * m.period >= SleepNs * FsPerNs

\* Boot comes to an end, in the running system or in a halt, on a machine whose
\* HPET is slower than 1 GHz and whose AML does not stall.  (With either,
\* ksleep multiplies by 0 and polls for ever.)
BootEnds ==
    (m.period >= FsPerNs /\ ~m.stalls) => <>(Running \/ halted # "no")

\* A byte whose edge was not lost on a masked pin is read, again and again,
\* against a timer and programs that turn interrupts off in system calls.
ByteRead == (obf /\ PinOpen /\ ~early) ~> (~obf \/ halted # "no")

\* A tick is handled, in the boot window or later.
TickHandled == (32 \in irr) ~> (32 \in isr \/ halted # "no")

\* Bytes and ticks that are pending are handled.
InterruptsHandled == ByteRead /\ TickHandled
==============================================================================

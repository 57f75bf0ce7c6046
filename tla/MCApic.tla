--------------------------------- MODULE MCApic ---------------------------------
(* Apic for TLC: a plain machine, and one for every way in which firmware or  *)
(* hardware may differ from it.                                               *)
EXTENDS Apic

Iso(source, gsi, pol, trig) ==
    [type |-> "iso", source |-> source, gsi |-> gsi, pol |-> pol, trig |-> trig]
IoapicAt(base, pins) == [type |-> "ioapic", base |-> base, pins |-> pins]
Other == [type |-> "lapic_nmi"]

Res(type, at) == [type |-> type, at |-> at]
Ports == <<Res("io", 96), Res("io", 100)>>

\* A PC: the timer's override, one IOAPIC, the keyboard on interrupt 1.
Plain ==
    [tables |-> TRUE, madt |-> <<Iso(0, 2, 0, 0), IoapicAt(0, 4), Other>>, hpet |-> "ok",
     period |-> 10, stalls |-> FALSE, device |-> "ok",
     res |-> Ports \o <<Res("irq", 1)>>, id |-> 0]

\* Wiring: a level triggered override, two IOAPICs in either order of the
\* table, a last pin, a number above 255, no pin, an IOAPIC too many, another
\* interrupt, and a first port that is 0 in a byte.
Wirings ==
    {[Plain EXCEPT !.madt = w] :
        w \in {<<IoapicAt(0, 4), Iso(1, 2, 3, 3)>>,
               <<IoapicAt(4, 3), Iso(1, 5, 1, 1), IoapicAt(0, 4)>>,
               <<IoapicAt(0, 4), IoapicAt(4, 3), Iso(1, 4, 3, 1)>>,
               <<IoapicAt(0, 4), Iso(1, 3, 0, 0)>>,
               <<IoapicAt(0, 4), Iso(1, 258, 0, 0)>>,
               <<IoapicAt(2, 4)>>,
               <<IoapicAt(0, 4), IoapicAt(4, 3), IoapicAt(7, 2)>>}}
    \cup {[Plain EXCEPT !.res = r] :
        r \in {<<Res("irq", 2), Res("dma", 0), Res("fixed_io", 96)>>,
               <<Res("io", 256), Res("io", 96), Res("irq", 1)>>}}

\* Devices that are missing or that the code turns away, and other clocks.
Failures ==
    {[Plain EXCEPT !.hpet = h] : h \in {"none", "io", "narrow"}}
    \cup {[Plain EXCEPT !.device = d] : d \in {"none", "error"}}
    \cup {[Plain EXCEPT !.period = p] : p \in {3, 4, 7}}
    \cup {[Plain EXCEPT !.tables = FALSE], [Plain EXCEPT !.stalls = TRUE],
          [Plain EXCEPT !.id = 1]}

AllMachines == {Plain} \cup Wirings \cup Failures
==============================================================================

--------------------------------- MODULE MCVmm ---------------------------------
(* Vmm for TLC: tables of six entries, of which three are the kernel's, so    *)
(* that the HHDM and the image are in slots of their own with one between.    *)
EXTENDS Vmm

TwoSegments == <<[base |-> 1, length |-> 2], [base |-> 4, length |-> 1]>>
FarStack == [base |-> 216, length |-> 1]

\* The low pages are in the first entry, and mapped and counted twice; the
\* second is apart, and ends below the sum of 31.
TwoEntries == <<[base |-> 0, length |-> 7], [base |-> 8, length |-> 18]>>

\* The first half of the entry is below 4 GiB.
OneEntry == <<[base |-> 0, length |-> 16]>>
==============================================================================

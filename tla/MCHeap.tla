-------------------------------- MODULE MCHeap --------------------------------
(* Heap for TLC: two caches of two and one objects a slab, and a memory map   *)
(* with a hole.                                                               *)
EXTENDS Heap

SmallSizes == <<8, 16>>
SmallMap == <<[usable |-> TRUE, base |-> 1, length |-> 2],
              [usable |-> FALSE, base |-> 3, length |-> 1],
              [usable |-> TRUE, base |-> 4, length |-> 2]>>
==============================================================================

------------------------------ MODULE SizeClass ------------------------------
(***************************************************************************)
(* How kmalloc (pmm.c) chooses a cache: next_pow2 on a 64-bit size_t, and  *)
(* search_for_bigenoughcache.  A size_t is the set of its one bits.        *)
(***************************************************************************)
EXTENDS Integers, Sequences, FiniteSetsExt

CONSTANT Sizes      \* kmalloc_cache[i].size; <<8, 16, ..., 1024>> in the code

\* init_slabs makes the caches in ascending order of size.
ASSUME SizesAssumption ==
    /\ Sizes \in Seq(Nat \ {0}) /\ Sizes # <<>>
    /\ \A i, j \in 1..Len(Sizes) : i < j => Sizes[i] < Sizes[j]

Word == 0..63

\* A number below 2^20 as a word, and back.
Bits(n) == {b \in 0..19 : (n \div 2^b) % 2 = 1}
Value(v) == MapThenSumSet(LAMBDA b : 2^b, v)

\* v + 1 and v - 1 on 64 bits, wrapping.
Increment(v) ==
    IF v = Word THEN {}
    ELSE LET b == Min(Word \ v) IN {b} \cup {c \in v : c > b}
Decrement(v) ==
    IF v = {} THEN Word
    ELSE LET b == Min(v) IN (v \ {b}) \cup {c \in Word : c < b}

\* v |= v >> k
OrShift(v, k) == v \cup {b \in Word : b + k \in v}

\* Mutant of next_pow2: without the v-- before the shifts.
NextPow2NoDecrement(v) ==
    Increment(OrShift(OrShift(OrShift(OrShift(OrShift(v, 1), 2), 4), 8), 16))

next_pow2(v) ==
    Increment(OrShift(OrShift(OrShift(OrShift(OrShift(
        Decrement(v), 1), 2), 4), 8), 16))

\* The first cache that is big enough, or 0.
search_for_bigenoughcache(size) ==
    LET fits == {i \in 1..Len(Sizes) : Sizes[i] >= size}
    IN  IF fits = {} THEN 0 ELSE Min(fits)

\* kmalloc takes a slab only below 1024 bytes, the size of the last cache.
SlabLimit == Sizes[Len(Sizes)]

CacheFor(size) == search_for_bigenoughcache(Value(next_pow2(Bits(size))))
==============================================================================

------------------------------ MODULE HeapProofs ------------------------------
(***************************************************************************)
(* Proofs about Heap.tla, for every memory map, every page size, every     *)
(* list of caches and every request: no page and no object is lost or      *)
(* given out twice.                                                        *)
(***************************************************************************)
EXTENDS Heap, Lemmas, SequenceTheorems
------------------------------------------------------------------------------
(* Lists.                                                                  *)

\* The pages of an entry as pmm_init links them: each once.
LEMMA PageListRight ==
    ASSUME NEW e, e.base \in Nat, e.length \in Nat, NEW S, PagesOf(e) \subseteq S
    PROVE  /\ PageList(e) \in Seq(S) /\ IsInjective(PageList(e))
           /\ ToSet(PageList(e)) = PagesOf(e)
<1> DEFINE b == e.base
           n == e.length
           t == [k \in 1..n |-> b + k - 1]
<1>1. b \in Nat /\ n \in Nat /\ PageList(e) = t /\ PagesOf(e) = b..(b + n - 1)
  BY DEF PageList, PagesOf
<1> HIDE DEF b, n
<1>2. ASSUME NEW k \in 1..n PROVE b + k - 1 \in b..(b + n - 1)
  BY <1>1
<1>3. t \in Seq(S)
  BY <1>1, <1>2
<1>4. IsInjective(t)
  BY <1>1 DEF IsInjective
<1>5. ToSet(t) \subseteq b..(b + n - 1)
  BY <1>2 DEF ToSet
<1>6. ASSUME NEW x \in b..(b + n - 1) PROVE x \in ToSet(t)
  <2>1. x - b + 1 \in 1..n /\ t[x - b + 1] = x
    BY <1>1
  <2> QED
    BY <2>1 DEF ToSet
<1> QED
  BY <1>1, <1>3, <1>4, <1>5, <1>6

\* The list of a new slab's objects without the ones given out at once.
LEMMA FreshRight ==
    ASSUME NEW s, ObjAmount(s) \in Nat \ {0}, NEW taken \in {0, 1}
    PROVE  LET list == SubSeq(Fresh(s), taken + 1, ObjAmount(s)) IN
           /\ list \in Seq(Nat) /\ IsInjective(list)
           /\ ToSet(list) = taken..(ObjAmount(s) - 1)
<1> DEFINE n == ObjAmount(s)
           f == [k \in 1..n |-> k - 1]
           m == n - taken
           list == SubSeq(f, taken + 1, n)
<1>1. n \in Nat \ {0} /\ Fresh(s) = f /\ m \in Nat
  BY DEF Fresh
<1> HIDE DEF n
<1>2. f \in Seq(Nat) /\ Len(f) = n /\ \A k \in 1..n : f[k] = k - 1
  BY <1>1
<1> HIDE DEF f
<1>3. /\ list \in Seq(Nat) /\ Len(list) = m /\ DOMAIN list = 1..m
      /\ \A k \in 1..m : list[k] = taken + k - 1
  <2>1. CASE taken = 0
    <3>1. list = f
      BY <1>1, <1>2, <2>1
    <3> QED
      BY <1>1, <1>2, <2>1, <3>1
  <2>2. CASE taken = 1
    <3>1. f # <<>> /\ list = Tail(f)
      BY <1>1, <1>2, <2>2
    <3> QED
      BY <1>1, <1>2, <2>2, <3>1
  <2> QED
    BY <2>1, <2>2
<1> HIDE DEF list
<1>4. IsInjective(list)
  BY <1>1, <1>3 DEF IsInjective
<1>5. ToSet(list) \subseteq taken..(n - 1)
  BY <1>1, <1>3 DEF ToSet
<1>6. ASSUME NEW x \in taken..(n - 1) PROVE x \in ToSet(list)
  <2>1. x - taken + 1 \in 1..m /\ list[x - taken + 1] = x
    BY <1>1, <1>3
  <2> QED
    BY <1>3, <2>1 DEF ToSet
<1> QED
  BY <1>1, <1>3, <1>4, <1>5, <1>6 DEF list, n
------------------------------------------------------------------------------
(* Sizes and numbers.                                                      *)

\* A page holds an object of every cache.
LEMMA SlabHolds ==
    ASSUME NEW c \in Caches
    PROVE  Sizes[c] \in Nat \ {0} /\ ObjAmount(Sizes[c]) \in Nat \ {0}
<1> DEFINE room == PageSize - HeaderSize
           s == Sizes[c]
<1>1. Len(Sizes) \in Nat \ {0} /\ s \in Nat \ {0} /\ SlabLimit \in Nat \ {0} /\ s <= SlabLimit
  <2>1. Len(Sizes) \in Nat \ {0} /\ c \in 1..Len(Sizes)
    BY SizesAssumption DEF Caches
  <2>2. s \in Nat \ {0} /\ SlabLimit \in Nat \ {0}
    BY SizesAssumption, <2>1 DEF SlabLimit
  <2>3. s <= SlabLimit
    BY SizesAssumption, <2>1, <2>2 DEF SlabLimit
  <2> QED
    BY <2>1, <2>2, <2>3
<1>2. room \in Nat /\ room >= s
  BY <1>1, HeapAssumption DEF HeaderSize
<1>3. ObjAmount(s) = room \div s
  BY DEF ObjAmount
<1> HIDE DEF room, s
<1>4. \A a \in Nat, d \in Nat \ {0} : a >= d => a \div d \in Nat \ {0}
  OBVIOUS
<1> QED
  BY <1>1, <1>2, <1>3, <1>4 DEF s

\* Two caches have two sizes.
LEMMA SizesDiffer ==
    ASSUME NEW c \in Caches, NEW d \in Caches, Sizes[c] = Sizes[d]
    PROVE  c = d
<1>1. Len(Sizes) \in Nat /\ c \in 1..Len(Sizes) /\ d \in 1..Len(Sizes)
  BY SizesAssumption DEF Caches
<1>2. Sizes[c] \in Nat /\ Sizes[d] \in Nat
  BY SlabHolds
<1> QED
  BY <1>1, <1>2, SizesAssumption
------------------------------------------------------------------------------
(* The inductive invariant: what the run checks, with the conservation of  *)
(* objects stated object by object.                                        *)

ObjRight(p, list, lv, n) ==
    /\ IsInjective(list)
    /\ \A i \in ToSet(list) : i \in 0..(n - 1) /\ <<p, i>> \notin lv
    /\ \A i \in Nat : <<p, i>> \in lv => i \in 0..(n - 1)
    /\ \A i \in 0..(n - 1) : i \in ToSet(list) \/ <<p, i>> \in lv

\* The same in sets, as ObjectsConserved has it.
ObjSets(p, indices, lv, n) ==
    LET free == {<<p, i>> : i \in indices} IN
    /\ free \cap lv = {}
    /\ free \cup {o \in lv : o[1] = p} = {<<p, i>> : i \in 0..(n - 1)}

ObjectsInv ==
    /\ \A p \in SlabPages : ObjRight(p, freelist[p], InUse, ObjAmount(size[p]))
    /\ \A o \in InUse : o[1] \in SlabPages

\* Without the callers' own records, which no list depends on: asked, moving,
\* and which of the objects in use are lost.
Typed ==
    /\ head \in Seq(Pages)
    /\ slabs \in [Caches -> Seq(Pages)]
    /\ size \in [Pages -> Nat]
    /\ freelist \in [Pages -> Seq(Nat)]
    /\ linked \in 0..Len(MemMap)
    /\ InUse \subseteq Pages \X Nat
    /\ held \subseteq Pages

HCore == Typed /\ PagesConserved /\ HeadersRight /\ ObjectsInv

HInv ==
    /\ HCore
    /\ live \cap lost = {}
    /\ asked \in [live -> Requests]
    /\ ready \in 0..Len(Sizes)
    /\ moving \in live \cup {<<>>}
    /\ halted \in BOOLEAN

\* A slab is in a usable page.
LEMMA SlabPagesArePages ==
    ASSUME Typed PROVE SlabPages \subseteq Pages
  BY DEF Typed, SlabPages, ToSet

\* Object by object, a slab's lists say what ObjectsConserved says.
LEMMA ObjectByObject ==
    ASSUME NEW p, NEW list, NEW lv, lv \subseteq Pages \X Nat, NEW n,
           ObjRight(p, list, lv, n)
    PROVE  ObjSets(p, ToSet(list), lv, n)
<1> DEFINE free == {<<p, i>> : i \in ToSet(list)}
           all == {<<p, i>> : i \in 0..(n - 1)}
<1>1. free \cap lv = {}
  BY DEF ObjRight
<1>2. free \subseteq all
  BY DEF ObjRight
<1>3. ASSUME NEW o \in lv, o[1] = p PROVE o \in all
  <2>1. o = <<p, o[2]>> /\ o[2] \in Nat
    BY <1>3
  <2>2. o[2] \in 0..(n - 1)
    BY <1>3, <2>1 DEF ObjRight
  <2> QED
    BY <2>1, <2>2
<1>4. ASSUME NEW i \in 0..(n - 1) PROVE <<p, i>> \in free \cup {o \in lv : o[1] = p}
  BY DEF ObjRight
<1> QED
  BY <1>1, <1>2, <1>3, <1>4 DEF ObjSets

\* The inductive invariant implies the three properties.
LEMMA HInvImplies == HInv => HeapInv /\ PagesConserved /\ ObjectsConserved
<1> SUFFICES ASSUME HInv PROVE HeapInv /\ PagesConserved /\ ObjectsConserved
  OBVIOUS
<1>1. HeapInv /\ PagesConserved
  BY DEF HInv, HCore, Typed, InUse, HeapInv, TypeOK
<1>2. ASSUME NEW p \in SlabPages
      PROVE  LET free == {<<p, i>> : i \in ToSet(freelist[p])} IN
             /\ IsInjective(freelist[p])
             /\ free \cap InUse = {}
             /\ free \cup {o \in InUse : o[1] = p} = Objects(p)
  <2>2. InUse \subseteq Pages \X Nat
    BY DEF HInv, HCore, Typed
  <2>3. ObjRight(p, freelist[p], InUse, ObjAmount(size[p]))
    BY DEF HInv, HCore, ObjectsInv
  <2>4. IsInjective(freelist[p])
    BY <2>3 DEF ObjRight
  <2>5. ObjSets(p, ToSet(freelist[p]), InUse, ObjAmount(size[p]))
    BY <2>2, <2>3, ObjectByObject
  <2> QED
    BY <2>4, <2>5 DEF Objects, ObjSets
<1>3. ObjectsConserved
  BY <1>2 DEF ObjectsConserved, HInv, HCore, ObjectsInv
<1> QED
  BY <1>1, <1>3

\* A page that becomes a slab: init_cache, and slab_alloc when no slab of the
\* cache can give.
LEMMA NewSlabKeeps ==
    ASSUME HCore, NEW c \in Caches, NEW taken \in {0, 1}, NewSlab(c, taken),
           linked' = linked, held' = held,
           InUse' = InUse \cup {<<Head(head), i>> : i \in 0..(taken - 1)}
    PROVE  HCore'
<1> DEFINE p == Head(head)
           list == SubSeq(Fresh(Sizes[c]), taken + 1, ObjAmount(Sizes[c]))
           n == ObjAmount(Sizes[c])
<1>1. n \in Nat \ {0} /\ Sizes[c] \in Nat \ {0}
  BY SlabHolds
<1>2. list \in Seq(Nat) /\ IsInjective(list) /\ ToSet(list) = taken..(n - 1)
  BY <1>1, FreshRight
<1>3. /\ head # <<>> /\ head' = Tail(head)
      /\ slabs' = [slabs EXCEPT ![c] = Append(@, p)]
      /\ size' = [size EXCEPT ![p] = Sizes[c]]
      /\ freelist' = [freelist EXCEPT ![p] = list]
  BY DEF NewSlab
<1> HIDE DEF list, n
<1>4. Typed /\ PagesConserved
  BY DEF HCore
<1>5. /\ p \in Pages /\ p \in ToSet(head) /\ head' \in Seq(Pages) /\ IsInjective(head')
      /\ ToSet(head') = ToSet(head) \ {p}
  BY <1>3, <1>4, TailInjective DEF Typed, PagesConserved
<1> HIDE DEF p
<1>6. \A d \in Caches : p \notin ToSet(slabs[d])
  BY <1>4, <1>5 DEF PagesConserved, SlabPages
<1>7. /\ Append(slabs[c], p) \in Seq(Pages) /\ IsInjective(Append(slabs[c], p))
      /\ ToSet(Append(slabs[c], p)) = ToSet(slabs[c]) \cup {p}
  <2>1. slabs[c] \in Seq(Pages) /\ IsInjective(slabs[c])
    BY <1>4 DEF Typed, PagesConserved
  <2> QED
    BY <1>5, <1>6, <2>1, AppendInjectiveList
<1>8. /\ slabs' \in [Caches -> Seq(Pages)]
      /\ \A d \in Caches : IsInjective(slabs'[d])
      /\ ToSet(slabs'[c]) = ToSet(slabs[c]) \cup {p}
      /\ \A d \in Caches : d # c => slabs'[d] = slabs[d]
  <2>1. slabs \in [Caches -> Seq(Pages)] /\ \A d \in Caches : IsInjective(slabs[d])
    BY <1>4 DEF Typed, PagesConserved
  <2>2. slabs' \in [Caches -> Seq(Pages)] /\ slabs'[c] = Append(slabs[c], p)
        /\ \A d \in Caches : d # c => slabs'[d] = slabs[d]
    BY <1>3, <1>7, <2>1
  <2> QED
    BY <1>7, <2>1, <2>2
<1>9. SlabPages' = SlabPages \cup {p}
  BY <1>8 DEF SlabPages
<1>10. Typed'
  <2>1. size' \in [Pages -> Nat] /\ freelist' \in [Pages -> Seq(Nat)]
    BY <1>1, <1>2, <1>3, <1>4 DEF Typed
  <2>2. InUse' \subseteq Pages \X Nat
    BY <1>4, <1>5 DEF Typed, p
  <2> QED
    BY <1>4, <1>5, <1>8, <2>1, <2>2 DEF Typed
<1>11. PagesConserved'
  <2>1. UsablePages(linked)' = UsablePages(linked)
    BY DEF UsablePages
  <2>2. ToSet(head') \cup SlabPages' \cup held' = UsablePages(linked)
    BY <1>4, <1>5, <1>9 DEF PagesConserved
  <2>3. /\ ToSet(head') \cap SlabPages' = {}
        /\ ToSet(head') \cap held' = {}
        /\ SlabPages' \cap held' = {}
    BY <1>4, <1>5, <1>9 DEF PagesConserved
  <2>4. \A d, e \in Caches : d # e => ToSet(slabs'[d]) \cap ToSet(slabs'[e]) = {}
    BY <1>4, <1>6, <1>8 DEF PagesConserved
  <2> QED
    BY <1>5, <1>8, <2>1, <2>2, <2>3, <2>4 DEF PagesConserved
<1>12. \A q \in Pages : q # p => size'[q] = size[q] /\ freelist'[q] = freelist[q]
  BY <1>3, <1>4 DEF Typed
<1>13. size'[p] = Sizes[c] /\ freelist'[p] = list
  BY <1>3, <1>4, <1>5 DEF Typed
<1>14. HeadersRight'
  <2> SUFFICES ASSUME NEW d \in Caches, NEW q \in ToSet(slabs'[d]) PROVE size'[q] = Sizes[d]
    BY DEF HeadersRight
  <2>1. CASE q = p
    <3>1. d = c
      BY <1>6, <1>8, <2>1
    <3> QED
      BY <1>13, <2>1, <3>1
  <2>2. CASE q # p
    <3>1. q \in ToSet(slabs[d])
      BY <1>8, <2>2
    <3>2. q \in Pages
      BY <1>4, <3>1 DEF Typed, ToSet
    <3> QED
      BY <1>12, <2>2, <3>1, <3>2 DEF HCore, HeadersRight
  <2> QED
    BY <2>1, <2>2
<1>15. ObjectsInv'
  <2>1. p \notin SlabPages /\ \A i : <<p, i>> \notin InUse
    <3>1. p \notin SlabPages
      BY <1>4, <1>5 DEF PagesConserved
    <3>2. ASSUME NEW i, <<p, i>> \in InUse PROVE FALSE
      <4>1. <<p, i>>[1] \in SlabPages
        BY <3>2 DEF HCore, ObjectsInv
      <4> QED
        BY <3>1, <4>1
    <3> QED
      BY <3>1, <3>2
  <2>2. InUse' = InUse \cup {<<p, i>> : i \in 0..(taken - 1)}
    BY DEF p
  <2>3. ASSUME NEW q \in SlabPages' PROVE ObjRight(q, freelist'[q], InUse', ObjAmount(size'[q]))
    <3>1. CASE q = p
      <4>1. \A i \in Nat : <<p, i>> \in InUse' <=> i \in 0..(taken - 1)
        BY <2>1, <2>2
      <4>2. ObjAmount(size'[q]) = n
        BY <1>13, <3>1 DEF n
      <4>3. ObjRight(p, list, InUse', n)
        BY <1>1, <1>2, <4>1 DEF ObjRight
      <4> QED
        BY <1>13, <3>1, <4>2, <4>3
    <3>2. CASE q # p
      <4>1. q \in SlabPages /\ q \in Pages
        BY <1>4, <1>9, <3>2, SlabPagesArePages
      <4>2. \A i : <<q, i>> \in InUse' <=> <<q, i>> \in InUse
        BY <2>2, <3>2
      <4>3. ObjRight(q, freelist[q], InUse, ObjAmount(size[q]))
        BY <4>1 DEF HCore, ObjectsInv
      <4>4. ObjRight(q, freelist[q], InUse', ObjAmount(size[q]))
        BY <4>2, <4>3 DEF ObjRight
      <4> QED
        BY <1>12, <3>2, <4>1, <4>4
    <3> QED
      BY <3>1, <3>2
  <2>4. \A o \in InUse' : o[1] \in SlabPages'
    BY <1>9, <2>2 DEF HCore, ObjectsInv
  <2> QED
    BY <2>3, <2>4 DEF ObjectsInv
<1> QED
  BY <1>10, <1>11, <1>14, <1>15 DEF HCore

\* A slab whose list and objects change, and nothing else.
LEMMA SlabChangeKeeps ==
    ASSUME HCore, NEW p \in SlabPages, NEW list \in Seq(Nat),
           freelist' = [freelist EXCEPT ![p] = list],
           UNCHANGED <<head, slabs, size, linked, held>>,
           InUse' \subseteq Pages \X Nat,
           \A q, i : q # p => (<<q, i>> \in InUse' <=> <<q, i>> \in InUse),
           \A o \in InUse' : o[1] \in SlabPages,
           ObjRight(p, list, InUse', ObjAmount(size[p]))
    PROVE  HCore'
<1>1. Typed /\ p \in Pages
  BY SlabPagesArePages DEF HCore
<1>2. Typed'
  BY <1>1 DEF Typed
<1>3. SlabPages' = SlabPages /\ UsablePages(linked)' = UsablePages(linked)
  BY DEF SlabPages, UsablePages
<1>4. PagesConserved'
  BY <1>3 DEF PagesConserved, HCore
<1>5. HeadersRight'
  BY DEF HeadersRight, HCore
<1>6. ASSUME NEW q \in SlabPages PROVE ObjRight(q, freelist'[q], InUse', ObjAmount(size[q]))
  <2>1. CASE q = p
    <3>1. freelist'[q] = list
      BY <1>1, <2>1 DEF Typed
    <3> QED
      BY <2>1, <3>1
  <2>2. CASE q # p
    <3>1. freelist'[q] = freelist[q]
      BY <1>1, <2>2, SlabPagesArePages DEF Typed
    <3>2. ObjRight(q, freelist[q], InUse, ObjAmount(size[q]))
      BY DEF HCore, ObjectsInv
    <3>3. \A i : <<q, i>> \in InUse' <=> <<q, i>> \in InUse
      BY <2>2
    <3>4. ObjRight(q, freelist[q], InUse', ObjAmount(size[q]))
      BY <3>2, <3>3 DEF ObjRight
    <3> QED
      BY <3>1, <3>4
  <2> QED
    BY <2>1, <2>2
<1>7. ObjectsInv'
  BY <1>3, <1>6 DEF ObjectsInv
<1> QED
  BY <1>2, <1>4, <1>5, <1>7 DEF HCore

\* slab_alloc from a slab that has a free object.
LEMMA TakeKeeps ==
    ASSUME HCore, NEW p \in SlabPages, freelist[p] # <<>>,
           freelist' = [freelist EXCEPT ![p] = Tail(@)],
           InUse' = InUse \cup {<<p, Head(freelist[p])>>},
           UNCHANGED <<head, slabs, size, linked, held>>
    PROVE  HCore'
<1> DEFINE n == ObjAmount(size[p])
           x == Head(freelist[p])
           list == Tail(freelist[p])
<1>1. Typed /\ p \in Pages
  BY SlabPagesArePages DEF HCore
<1>2. freelist[p] \in Seq(Nat) /\ freelist' = [freelist EXCEPT ![p] = list]
  BY <1>1 DEF Typed
<1>3. ObjRight(p, freelist[p], InUse, n)
  BY DEF HCore, ObjectsInv
<1>4. IsInjective(freelist[p])
  BY <1>3 DEF ObjRight
<1>5. /\ x \in Nat /\ x \in ToSet(freelist[p]) /\ list \in Seq(Nat) /\ IsInjective(list)
      /\ ToSet(list) = ToSet(freelist[p]) \ {x}
  BY <1>2, <1>4, TailInjective
<1>6. InUse' = InUse \cup {<<p, x>>}
  OBVIOUS
<1> HIDE DEF x, list, n
<1>7. ObjRight(p, list, InUse', n)
  <2>1. \A i : <<p, i>> \in InUse' <=> <<p, i>> \in InUse \/ i = x
    BY <1>6
  <2> QED
    BY <1>3, <1>5, <2>1 DEF ObjRight
<1>8. InUse' \subseteq Pages \X Nat
  BY <1>1, <1>5, <1>6 DEF Typed
<1>9. \A q, i : q # p => (<<q, i>> \in InUse' <=> <<q, i>> \in InUse)
  BY <1>6
<1>10. \A o \in InUse' : o[1] \in SlabPages
  BY <1>6 DEF HCore, ObjectsInv
<1> QED
  BY <1>2, <1>5, <1>7, <1>8, <1>9, <1>10, SlabChangeKeeps DEF n

\* free of an object a caller holds.
LEMMA FreeKeeps ==
    ASSUME HCore, NEW o \in InUse, Free(o), InUse' = InUse \ {o},
           UNCHANGED <<head, size, linked, held>>
    PROVE  HCore'
<1> DEFINE p == o[1]
           x == o[2]
           n == ObjAmount(size[p])
           list == <<x>> \o freelist[p]
           right == {c \in Caches : Sizes[c] = size[p]}
<1>1. /\ Typed /\ p \in SlabPages /\ p \in Pages /\ x \in Nat /\ o = <<p, x>>
  BY SlabPagesArePages DEF HCore, ObjectsInv, Typed
<1>2. PICK c \in Caches : p \in ToSet(slabs[c])
  BY <1>1 DEF SlabPages
<1>3. right = {c}
  <2>1. Sizes[c] = size[p]
    BY <1>2 DEF HCore, HeadersRight
  <2> QED
    BY <2>1, SizesDiffer
<1>4. Max(right) = c
  <2>1. c \in Nat
    BY DEF Caches
  <2> QED
    BY <1>3, <2>1 DEF Max
<1>5. /\ freelist' = [freelist EXCEPT ![p] = <<x>> \o @]
      /\ slabs' = [slabs EXCEPT ![c] = IF p \in ToSet(@) THEN @ ELSE Append(@, p)]
  BY <1>3, <1>4 DEF Free
<1>6. slabs' = slabs
  BY <1>1, <1>2, <1>5 DEF Typed
<1>7. freelist[p] \in Seq(Nat) /\ freelist' = [freelist EXCEPT ![p] = list]
  BY <1>1, <1>5 DEF Typed
<1>8. ObjRight(p, freelist[p], InUse, n)
  BY <1>1 DEF HCore, ObjectsInv
<1>9. IsInjective(freelist[p]) /\ x \notin ToSet(freelist[p])
  BY <1>1, <1>8 DEF ObjRight
<1>10. list \in Seq(Nat) /\ IsInjective(list) /\ ToSet(list) = {x} \cup ToSet(freelist[p])
  <2> DEFINE t == <<x>>
  <2>1. t \in Seq(Nat) /\ IsInjective(t) /\ ToSet(t) = {x}
    BY <1>1, Singleton
  <2> HIDE DEF t
  <2>2. ToSet(t) \cap ToSet(freelist[p]) = {}
    BY <1>9, <2>1
  <2>3. /\ t \o freelist[p] \in Seq(Nat) /\ IsInjective(t \o freelist[p])
        /\ ToSet(t \o freelist[p]) = ToSet(t) \cup ToSet(freelist[p])
    BY <1>7, <1>9, <2>1, <2>2, ConcatInjective
  <2> QED
    BY <2>1, <2>3 DEF t
<1> HIDE DEF list, n
<1>11. ObjRight(p, list, InUse', n)
  <2>1. \A i : <<p, i>> \in InUse' <=> <<p, i>> \in InUse /\ i # x
    BY <1>1
  <2>2. x \in 0..(n - 1)
    BY <1>1, <1>8 DEF ObjRight
  <2> QED
    BY <1>1, <1>8, <1>10, <2>1, <2>2 DEF ObjRight
<1>12. InUse' \subseteq Pages \X Nat
  BY <1>1 DEF Typed
<1>13. \A q, i : q # p => (<<q, i>> \in InUse' <=> <<q, i>> \in InUse)
  BY <1>1
<1>14. \A a \in InUse' : a[1] \in SlabPages
  BY DEF HCore, ObjectsInv
<1> HIDE DEF p, x
<1> QED
  BY <1>1, <1>6, <1>7, <1>10, <1>11, <1>12, <1>13, <1>14, SlabChangeKeeps DEF n

\* The free list, held and linked change; the slabs and their objects do not.
LEMMA PageChangeKeeps ==
    ASSUME HCore, head' \in Seq(Pages), IsInjective(head'), held' \subseteq Pages,
           linked' \in 0..Len(MemMap),
           ToSet(head') \cup SlabPages \cup held' = UsablePages(linked'),
           ToSet(head') \cap SlabPages = {},
           ToSet(head') \cap held' = {},
           SlabPages \cap held' = {},
           UNCHANGED <<slabs, size, freelist, InUse>>
    PROVE  HCore'
<1>1. SlabPages' = SlabPages /\ UsablePages(linked)' = UsablePages(linked')
  BY DEF SlabPages, UsablePages
<1>2. Typed'
  BY DEF HCore, Typed
<1>3. PagesConserved'
  BY <1>1 DEF HCore, PagesConserved
<1>4. HeadersRight' /\ ObjectsInv'
  BY <1>1 DEF HCore, HeadersRight, ObjectsInv
<1> QED
  BY <1>2, <1>3, <1>4 DEF HCore
------------------------------------------------------------------------------
(* One step per action.                                                    *)

\* The entries of the memory map are what Limine gives.
LEMMA EntryTyped ==
    ASSUME NEW i \in 1..Len(MemMap)
    PROVE  /\ MemMap[i].usable \in BOOLEAN /\ MemMap[i].base \in Nat
           /\ MemMap[i].length \in Nat
<1> DEFINE E == [usable: BOOLEAN, base: Nat, length: Nat \ {0}]
<1>0. MemMap \in Seq(E)
  BY HeapAssumption
<1> HIDE DEF E
<1>1. MemMap[i] \in E
  BY <1>0
<1> USE DEF E
<1> QED
  BY <1>1

\* What one turn of pmm_init adds: the pages of the entry, none of which is
\* already linked.
LEMMA UsableStep ==
    ASSUME NEW n \in 0..Len(MemMap), n < Len(MemMap)
    PROVE  /\ n + 1 \in 1..Len(MemMap)
           /\ UsablePages(n) \subseteq Pages
           /\ ~ MemMap[n + 1].usable => UsablePages(n + 1) = UsablePages(n)
           /\ MemMap[n + 1].usable =>
                /\ UsablePages(n + 1) = UsablePages(n) \cup PagesOf(MemMap[n + 1])
                /\ PagesOf(MemMap[n + 1]) \cap UsablePages(n) = {}
                /\ PagesOf(MemMap[n + 1]) \subseteq Pages
<1>1. Len(MemMap) \in Nat /\ n + 1 \in 1..Len(MemMap) /\ 1..n \subseteq 1..Len(MemMap)
      /\ 1..(n + 1) = 1..n \cup {n + 1} /\ n + 1 \notin 1..n
  BY HeapAssumption
<1>2. UsablePages(n) \subseteq Pages
  BY <1>1 DEF UsablePages, Pages
<1>3. ~ MemMap[n + 1].usable => UsablePages(n + 1) = UsablePages(n)
  BY <1>1 DEF UsablePages
<1>4. ASSUME MemMap[n + 1].usable
      PROVE  UsablePages(n + 1) = UsablePages(n) \cup PagesOf(MemMap[n + 1])
  BY <1>1, <1>4 DEF UsablePages
<1>5. PagesOf(MemMap[n + 1]) \cap UsablePages(n) = {}
  <2> SUFFICES ASSUME NEW x \in PagesOf(MemMap[n + 1]), x \in UsablePages(n) PROVE FALSE
    OBVIOUS
  <2>1. PICK i \in 1..n : x \in PagesOf(MemMap[i])
    BY DEF UsablePages
  <2>2. PagesOf(MemMap[n + 1]) \cap PagesOf(MemMap[i]) = {}
    BY <1>1, HeapAssumption
  <2> QED
    BY <2>1, <2>2
<1>6. MemMap[n + 1].usable => PagesOf(MemMap[n + 1]) \subseteq Pages
  BY <1>1 DEF UsablePages, Pages
<1> QED
  BY <1>1, <1>2, <1>3, <1>4, <1>5, <1>6

LEMMA InitEntryKeeps ==
    ASSUME HCore, PmmInitEntry PROVE HCore'
<1> DEFINE e == MemMap[linked + 1]
<1>1. /\ Typed /\ PagesConserved /\ linked \in 0..Len(MemMap) /\ linked < Len(MemMap)
      /\ linked' = linked + 1 /\ UNCHANGED <<slabs, size, freelist, InUse, held>>
      /\ head' = IF e.usable THEN head \o PageList(e) ELSE head
  BY DEF HCore, Typed, PmmInitEntry, InUse
<1>2. /\ linked + 1 \in 1..Len(MemMap)
      /\ ~ e.usable => UsablePages(linked + 1) = UsablePages(linked)
      /\ e.usable => /\ UsablePages(linked + 1) = UsablePages(linked) \cup PagesOf(e)
                     /\ PagesOf(e) \cap UsablePages(linked) = {}
                     /\ PagesOf(e) \subseteq Pages
  BY <1>1, UsableStep
<1>3. linked' \in 0..Len(MemMap)
  BY <1>1, <1>2, HeapAssumption
<1>4. e.usable \in BOOLEAN /\ e.base \in Nat /\ e.length \in Nat
  BY <1>2, EntryTyped
<1> HIDE DEF e
<1>5. CASE ~ e.usable
  <2>1. head' = head /\ UsablePages(linked') = UsablePages(linked)
    BY <1>1, <1>2, <1>5
  <2> QED
    BY <1>1, <1>3, <2>1, PageChangeKeeps DEF Typed, PagesConserved
<1>6. CASE e.usable
  <2> DEFINE t == PageList(e)
  <2>1. t \in Seq(Pages) /\ IsInjective(t) /\ ToSet(t) = PagesOf(e)
    BY <1>2, <1>4, <1>6, PageListRight
  <2>2. head' = head \o t
    BY <1>1, <1>6
  <2> HIDE DEF t
  <2>3. head \in Seq(Pages) /\ IsInjective(head) /\ ToSet(head) \cap ToSet(t) = {}
    BY <1>1, <1>2, <1>6, <2>1 DEF Typed, PagesConserved
  <2>4. /\ head' \in Seq(Pages) /\ IsInjective(head')
        /\ ToSet(head') = ToSet(head) \cup PagesOf(e)
    BY <2>1, <2>2, <2>3, ConcatInjective
  <2>5. /\ ToSet(head') \cup SlabPages \cup held' = UsablePages(linked')
        /\ ToSet(head') \cap SlabPages = {}
        /\ ToSet(head') \cap held' = {}
        /\ SlabPages \cap held' = {}
    BY <1>1, <1>2, <1>6, <2>4 DEF PagesConserved
  <2> QED
    BY <1>1, <1>3, <2>4, <2>5, PageChangeKeeps DEF Typed
<1> QED
  BY <1>4, <1>5, <1>6

LEMMA AllocPageKeeps ==
    ASSUME HCore, head # <<>>, head' = Tail(head), held' = held \cup {Head(head)},
           UNCHANGED <<slabs, size, freelist, linked, InUse>>
    PROVE  HCore'
<1>1. Typed /\ PagesConserved
  BY DEF HCore
<1>2. /\ Head(head) \in Pages /\ Head(head) \in ToSet(head)
      /\ head' \in Seq(Pages) /\ IsInjective(head')
      /\ ToSet(head') = ToSet(head) \ {Head(head)}
  BY <1>1, TailInjective DEF Typed, PagesConserved
<1>3. /\ ToSet(head') \cup SlabPages \cup held' = UsablePages(linked')
      /\ ToSet(head') \cap SlabPages = {}
      /\ ToSet(head') \cap held' = {}
      /\ SlabPages \cap held' = {}
  BY <1>1, <1>2 DEF PagesConserved
<1> QED
  BY <1>1, <1>2, <1>3, PageChangeKeeps DEF Typed

LEMMA FreePageKeeps ==
    ASSUME HCore, NEW p \in held, head' = <<p>> \o head, held' = held \ {p},
           UNCHANGED <<slabs, size, freelist, linked, InUse>>
    PROVE  HCore'
<1> DEFINE t == <<p>>
<1>1. Typed /\ PagesConserved /\ p \in Pages
  BY DEF HCore, Typed
<1>2. t \in Seq(Pages) /\ IsInjective(t) /\ ToSet(t) = {p} /\ head' = t \o head
  BY <1>1, Singleton
<1> HIDE DEF t
<1>3. head \in Seq(Pages) /\ IsInjective(head) /\ ToSet(t) \cap ToSet(head) = {}
  BY <1>1, <1>2 DEF Typed, PagesConserved
<1>4. /\ head' \in Seq(Pages) /\ IsInjective(head')
      /\ ToSet(head') = {p} \cup ToSet(head)
  <2>1. /\ t \o head \in Seq(Pages) /\ IsInjective(t \o head)
        /\ ToSet(t \o head) = ToSet(t) \cup ToSet(head)
    BY <1>2, <1>3, ConcatInjective
  <2> QED
    BY <1>2, <2>1
<1>5. /\ ToSet(head') \cup SlabPages \cup held' = UsablePages(linked')
      /\ ToSet(head') \cap SlabPages = {}
      /\ ToSet(head') \cap held' = {}
      /\ SlabPages \cap held' = {}
  BY <1>1, <1>4 DEF PagesConserved
<1> QED
  BY <1>1, <1>4, <1>5, PageChangeKeeps DEF Typed

\* slab_alloc, from a slab or with a new one.
LEMMA SlabAllocKeeps ==
    ASSUME HCore, NEW c \in Caches, SlabAlloc(c), UNCHANGED <<linked, held, lost>>
    PROVE  HCore' /\ live \subseteq live' /\ (live \cap lost = {} => live' \cap lost = {})
<1>1. CASE WithFree(c) # {}
  <2> DEFINE k == Min(WithFree(c))
             p == slabs[c][k]
  <2>1. k \in WithFree(c)
    <3>1. WithFree(c) \subseteq Nat
      BY DEF WithFree
    <3> QED
      BY <1>1, <3>1, MinInSet
  <2>2. k \in 1..Len(slabs[c]) /\ freelist[p] # <<>>
    BY <2>1 DEF WithFree
  <2>3. p \in SlabPages
    <3>1. slabs[c] \in Seq(Pages)
      BY DEF HCore, Typed
    <3> HIDE DEF k
    <3>2. p \in ToSet(slabs[c])
      BY <2>2, <3>1 DEF ToSet
    <3> QED
      BY <3>2 DEF SlabPages
  <2>4. /\ freelist' = [freelist EXCEPT ![p] = Tail(@)]
        /\ live' = live \cup {<<p, Head(freelist[p])>>}
        /\ UNCHANGED <<head, slabs, size>>
    BY <1>1 DEF SlabAlloc
  <2> HIDE DEF p
  <2>5. InUse' = InUse \cup {<<p, Head(freelist[p])>>}
    BY <2>4 DEF InUse
  <2>6. <<p, Head(freelist[p])>> \notin InUse
    <3>1. p \in Pages /\ freelist[p] \in Seq(Nat) /\ IsInjective(freelist[p])
      BY <2>3, SlabPagesArePages DEF HCore, Typed, ObjectsInv, ObjRight
    <3>2. Head(freelist[p]) \in ToSet(freelist[p])
      BY <2>2, <3>1, TailInjective
    <3> QED
      BY <2>3, <3>2 DEF HCore, ObjectsInv, ObjRight
  <2> QED
    BY <2>2, <2>3, <2>4, <2>5, <2>6, TakeKeeps DEF InUse
<1>2. CASE WithFree(c) = {}
  <2>1. NewSlab(c, 1) /\ live' = live \cup {<<Head(head), 0>>}
    BY <1>2 DEF SlabAlloc
  <2>2. {<<Head(head), 0>>} = {<<Head(head), i>> : i \in 0..(1 - 1)}
    OBVIOUS
  <2>3. InUse' = InUse \cup {<<Head(head), i>> : i \in 0..(1 - 1)}
    BY <2>1, <2>2 DEF InUse
  <2>4. HCore'
    BY <2>1, <2>3, NewSlabKeeps
  <2>5. <<Head(head), 0>> \notin InUse
    <3>1. head # <<>> /\ head \in Seq(Pages) /\ IsInjective(head)
      BY <2>1 DEF NewSlab, HCore, Typed, PagesConserved
    <3>2. Head(head) \in ToSet(head)
      BY <3>1, TailInjective
    <3>3. Head(head) \notin SlabPages
      BY <3>2 DEF HCore, PagesConserved
    <3>4. SUFFICES ASSUME <<Head(head), 0>> \in InUse PROVE FALSE
      OBVIOUS
    <3>5. <<Head(head), 0>>[1] \in SlabPages
      BY <3>4 DEF HCore, ObjectsInv
    <3> QED
      BY <3>3, <3>5
  <2> QED
    BY <2>1, <2>4, <2>5 DEF InUse
<1> QED
  BY <1>1, <1>2

LEMMA NoChangeKeeps ==
    ASSUME HCore, UNCHANGED <<head, slabs, size, freelist, linked, InUse, held>>
    PROVE  HCore'
<1>1. /\ head' \in Seq(Pages) /\ IsInjective(head') /\ held' \subseteq Pages
      /\ linked' \in 0..Len(MemMap)
  BY DEF HCore, Typed, PagesConserved
<1>2. /\ ToSet(head') \cup SlabPages \cup held' = UsablePages(linked')
      /\ ToSet(head') \cap SlabPages = {}
      /\ ToSet(head') \cap held' = {}
      /\ SlabPages \cap held' = {}
  BY DEF HCore, PagesConserved
<1> QED
  BY <1>1, <1>2, PageChangeKeeps

\* When there is no page left nothing changes but halted.
LEMMA OutOfMemoryKeeps ==
    ASSUME HInv, OutOfMemory PROVE HInv'
<1>1. HCore'
  BY NoChangeKeeps DEF HInv, OutOfMemory, InUse
<1> QED
  BY <1>1 DEF HInv, OutOfMemory

LEMMA HInit == Init => HInv
<1> SUFFICES ASSUME Init PROVE HInv
  OBVIOUS
<1>1. Len(Sizes) \in Nat /\ Len(MemMap) \in Nat
  BY SizesAssumption, HeapAssumption
<1>2. Typed
  BY <1>1 DEF Init, Typed, InUse
<1>3. SlabPages = {} /\ ToSet(head) = {} /\ held = {}
  BY DEF Init, SlabPages, ToSet
<1>4. UsablePages(linked) = {}
  BY DEF Init, UsablePages
<1>5. IsInjective(head) /\ \A c \in Caches : slabs[c] = <<>> /\ IsInjective(slabs[c]) /\ ToSet(slabs[c]) = {}
  BY DEF Init, IsInjective, ToSet
<1>6. PagesConserved
  BY <1>3, <1>4, <1>5 DEF PagesConserved
<1>7. HeadersRight /\ ObjectsInv
  BY <1>3, <1>5 DEF HeadersRight, ObjectsInv, Init, InUse
<1>8. ready \in 0..Len(Sizes)
  BY <1>1 DEF Init
<1>9. /\ live \cap lost = {} /\ asked \in [live -> Requests]
      /\ moving \in live \cup {<<>>} /\ halted \in BOOLEAN
  BY DEF Init
<1> QED
  BY <1>2, <1>6, <1>7, <1>8, <1>9 DEF HInv, HCore

\* What the caller of a new object is recorded with.
LEMMA AskedForTyped ==
    ASSUME asked \in [live -> Requests], NEW n \in Requests, AskedFor(n)
    PROVE  asked' \in [live' -> Requests]
  BY DEF AskedFor

\* What is recorded of the objects that stay.
LEMMA AskedKept ==
    ASSUME asked \in [live -> Requests], NEW o, live' = live \ {o},
           asked' = Restrict(asked, live')
    PROVE  asked' \in [live' -> Requests]
  BY DEF Restrict

LEMMA HStep == HInv /\ [Next]_vars => HInv'
<1> SUFFICES ASSUME HInv, [Next]_vars PROVE HInv'
  OBVIOUS
<1>1. /\ HCore /\ live \cap lost = {} /\ asked \in [live -> Requests]
      /\ ready \in 0..Len(Sizes) /\ moving \in live \cup {<<>>} /\ halted \in BOOLEAN
      /\ Len(Sizes) \in Nat
  BY SizesAssumption DEF HInv
<1>2. CASE PmmInitEntry
  BY <1>1, <1>2, InitEntryKeeps DEF PmmInitEntry, HInv
<1>3. CASE InitCache
  <2>1. CASE OutOfMemory
    BY <2>1, OutOfMemoryKeeps
  <2>2. CASE /\ NewSlab(ready + 1, 0) /\ ready' = ready + 1
             /\ UNCHANGED <<linked, live, asked, lost, held, moving, halted>>
    <3>1. ready < Len(Sizes)
      BY <1>3 DEF InitCache
    <3>2. ready + 1 \in Caches /\ ready' \in 0..Len(Sizes)
      BY <1>1, <2>2, <3>1 DEF Caches
    <3>3. InUse' = InUse \cup {<<Head(head), i>> : i \in 0..(0 - 1)}
      BY <2>2 DEF InUse
    <3>4. HCore'
      BY <1>1, <2>2, <3>2, <3>3, NewSlabKeeps
    <3> QED
      BY <1>1, <2>2, <3>2, <3>4 DEF HInv
  <2> QED
    BY <1>3, <2>1, <2>2 DEF InitCache
<1>4. CASE PmmAllocSinglep
  <2>1. CASE OutOfMemory
    BY <2>1, OutOfMemoryKeeps
  <2>2. CASE /\ head # <<>> /\ head' = Tail(head) /\ held' = held \cup {Head(head)}
             /\ UNCHANGED <<slabs, size, freelist, linked, ready, live, asked, lost,
                            moving, halted>>
    <3>1. HCore'
      BY <1>1, <2>2, AllocPageKeeps DEF InUse
    <3> QED
      BY <1>1, <2>2, <3>1 DEF HInv
  <2> QED
    BY <1>4, <2>1, <2>2 DEF PmmAllocSinglep
<1>5. ASSUME NEW p \in held, PmmFreeSinglep(p) PROVE HInv'
  <2>1. /\ head' = <<p>> \o head /\ held' = held \ {p}
        /\ UNCHANGED <<slabs, size, freelist, linked, ready, live, asked, lost, moving, halted>>
    BY <1>5 DEF PmmFreeSinglep
  <2>2. HCore'
    BY <1>1, <2>1, FreePageKeeps DEF InUse
  <2> QED
    BY <1>1, <2>1, <2>2 DEF HInv
<1>6. ASSUME NEW n \in Requests, Kmalloc(n) PROVE HInv'
  <2>1. CASE OutOfMemory
    BY <2>1, OutOfMemoryKeeps
  <2>2. CASE SlabAlloc(CacheFor(n)) /\ AskedFor(n)
             /\ UNCHANGED <<linked, ready, lost, held, moving, halted>>
    <3>1. CacheFor(n) \in Caches
      BY HeapAssumption
    <3>2. HCore' /\ live \subseteq live' /\ live' \cap lost' = {}
      BY <1>1, <2>2, <3>1, SlabAllocKeeps
    <3> QED
      BY <1>1, <2>2, <3>2, AskedForTyped DEF HInv
  <2> QED
    BY <1>6, <2>1, <2>2 DEF Kmalloc
<1>7. ASSUME NEW o \in live, Kfree(o) PROVE HInv'
  <2>1. /\ Free(o) /\ live' = live \ {o} /\ moving = <<>> /\ asked' = Restrict(asked, live')
        /\ UNCHANGED <<head, size, linked, ready, lost, held, moving, halted>>
    BY <1>7 DEF Kfree
  <2>2. o \in InUse /\ InUse' = InUse \ {o}
    BY <1>1, <2>1 DEF InUse
  <2>3. HCore'
    BY <1>1, <2>1, <2>2, FreeKeeps
  <2> QED
    BY <1>1, <2>1, <2>3, AskedKept DEF HInv
<1>8. ASSUME NEW o \in live, NEW n \in Requests, KreallocAlloc(o, n) PROVE HInv'
  <2>1. CASE OutOfMemory
    BY <2>1, OutOfMemoryKeeps
  <2>2. CASE SlabAlloc(CacheFor(n)) /\ AskedFor(n) /\ moving' = o
             /\ UNCHANGED <<linked, ready, lost, held, halted>>
    <3>1. CacheFor(n) \in Caches
      BY HeapAssumption
    <3>2. HCore' /\ live \subseteq live' /\ live' \cap lost' = {}
      BY <1>1, <2>2, <3>1, SlabAllocKeeps
    <3> QED
      BY <1>1, <2>2, <3>2, AskedForTyped DEF HInv
  <2> QED
    BY <1>8, <2>1, <2>2 DEF KreallocAlloc
<1>9. CASE KreallocFree
  <2>1. /\ live' = live \ {moving} /\ moving \in live /\ moving' = <<>>
        /\ asked' = Restrict(asked, live')
        /\ UNCHANGED <<head, size, linked, ready, held, halted>>
    BY <1>1, <1>9 DEF KreallocFree
  <2>2. asked' \in [live' -> Requests]
    BY <1>1, <2>1, AskedKept
  <2>3. CASE Free(moving) /\ UNCHANGED lost
    <3>1. moving \in InUse /\ InUse' = InUse \ {moving}
      BY <1>1, <2>1, <2>3 DEF InUse
    <3>2. HCore'
      BY <1>1, <2>1, <2>3, <3>1, FreeKeeps
    <3> QED
      BY <1>1, <2>1, <2>2, <2>3, <3>2 DEF HInv
  <2>4. CASE lost' = lost \cup {moving} /\ UNCHANGED <<slabs, freelist>>
    <3>1. InUse' = InUse
      BY <2>1, <2>4 DEF InUse
    <3>2. HCore'
      BY <1>1, <2>1, <2>4, <3>1, NoChangeKeeps
    <3> QED
      BY <1>1, <2>1, <2>2, <2>4, <3>2 DEF HInv
  <2> QED
    BY <1>9, <2>3, <2>4 DEF KreallocFree
<1>10. CASE UNCHANGED vars
  <2>1. HCore'
    BY <1>1, <1>10, NoChangeKeeps DEF vars, InUse
  <2> QED
    BY <1>1, <1>10, <2>1 DEF vars, HInv
<1>11. CASE Halt
  BY <1>10, <1>11 DEF Halt
<1> QED
  BY <1>2, <1>3, <1>4, <1>5, <1>6, <1>7, <1>8, <1>9, <1>10, <1>11 DEF Next

LEMMA HAlways == Spec => []HInv
  BY HInit, HStep, PTL DEF Spec
------------------------------------------------------------------------------
\* The variables keep their types, and the header of every slab names the cache
\* it is linked in: free never comes to its fallbacks.
THEOREM HeapInvAlways == Spec => []HeapInv
  BY HAlways, HInvImplies, PTL

\* pmm_init, pmm_alloc_singlep, pmm_free_singlep and the slabs neither lose a
\* page nor give one out twice.
THEOREM PagesConservedAlways == Spec => []PagesConserved
  BY HAlways, HInvImplies, PTL

\* kmalloc, kfree and krealloc (to more than was asked for before) give out no
\* object that a caller still holds, and lose none but the old objects of size
\* 0 that krealloc does not free.
THEOREM ObjectsConservedAlways == Spec => []ObjectsConserved
  BY HAlways, HInvImplies, PTL
==============================================================================

-------------------------------- MODULE VmmProofs --------------------------------
(***************************************************************************)
(* For every layout of memory and every sequence of requests, as long as   *)
(* no mmap asks for pages outside of the program's half or for more than   *)
(* an int counts, and on machines whose memory map ends within the HHDM's  *)
(* region (Contained): the lists of regions stay in order and apart, a     *)
(* physical page has one use, the kernel's half is the same in every map,  *)
(* a program reaches its pages and none of the kernel's, and no new region *)
(* covers an older one.                                                    *)
(*                                                                         *)
(* The proof is about places.  At(ent, root, k, a) is the table of level k *)
(* on the way to the virtual pages whose number begins with a, and the     *)
(* page itself for k = 0.  Forest says that the tables are trees: no page  *)
(* is at two places, but for the kernel's half.  map, mmap_range, Node and *)
(* UnmapAndFree are described once by what they do to places (Mapped,      *)
(* Unmapped), and each action keeps the inductive invariant, Inv, through  *)
(* these descriptions: ListsInv about the lists of the maps that nothing   *)
(* strayed in, and PageInv about the pages as long as nothing strayed at   *)
(* all.  TranslationsAre leads from places to what the properties name.    *)
(***************************************************************************)
EXTENDS Vmm, Lemmas, SequenceTheorems, FiniteSetTheorems

Regions == [base: Nat, length: Nat]

\* The elements of a list that got x at place k, and of one that lost it.
Inserted(t, s, n, k, x) ==
    /\ t \in Seq(Regions) /\ Len(t) = n + 1
    /\ \A j \in 1..(k - 1) : t[j] = s[j]
    /\ t[k] = x
    /\ \A j \in (k + 1)..(n + 1) : t[j] = s[j - 1]

Removed(t, s, n, k) ==
    /\ t \in Seq(Regions) /\ Len(t) = n - 1
    /\ \A j \in 1..(k - 1) : t[j] = s[j]
    /\ \A j \in k..(n - 1) : t[j] = s[j + 1]

\* A part of a list.
LEMMA Part ==
    ASSUME NEW s \in Seq(Regions), NEW n \in Nat, n = Len(s),
           NEW a \in 1..(n + 1), NEW b \in 0..n, a <= b + 1
    PROVE  /\ SubSeq(s, a, b) \in Seq(Regions)
           /\ Len(SubSeq(s, a, b)) = b - a + 1
           /\ \A j \in 1..(b - a + 1) : SubSeq(s, a, b)[j] = s[a + j - 1]
<1>1. \A j \in a..b : s[j] \in Regions
  OBVIOUS
<1>2. a \in Int /\ b \in Int
  OBVIOUS
<1> DEFINE t == SubSeq(s, a, b)
<1>3. /\ t \in Seq(Regions)
      /\ Len(t) = IF a <= b THEN b - a + 1 ELSE 0
      /\ \A j \in 1..(b - a + 1) : t[j] = s[a + j - 1]
  BY <1>1, <1>2, SubSeqProperties
<1> HIDE DEF t
<1>4. Len(t) = b - a + 1
  BY <1>3
<1> QED
  BY <1>3, <1>4 DEF t

LEMMA InsertIs ==
    ASSUME NEW s \in Seq(Regions), NEW n \in Nat, n = Len(s), NEW k \in 1..n, NEW x \in Regions
    PROVE  Inserted(InsertAt(s, k, x), s, n, k, x)
<1> DEFINE a == SubSeq(s, 1, k - 1)
           b == <<x>>
           c == SubSeq(s, k, n)
           t == InsertAt(s, k, x)
<1>1. a \in Seq(Regions) /\ Len(a) = k - 1 /\ \A j \in 1..(k - 1) : a[j] = s[j]
  <2>1. 1 \in 1..(n + 1) /\ k - 1 \in 0..n /\ 1 <= (k - 1) + 1 /\ (k - 1) - 1 + 1 = k - 1
    OBVIOUS
  <2>2. /\ a \in Seq(Regions) /\ Len(a) = (k - 1) - 1 + 1
        /\ \A j \in 1..((k - 1) - 1 + 1) : a[j] = s[1 + j - 1]
    BY <2>1, Part
  <2> HIDE DEF a
  <2> QED
    BY <2>1, <2>2
<1>2. c \in Seq(Regions) /\ Len(c) = n - k + 1 /\ \A j \in 1..(n - k + 1) : c[j] = s[k + j - 1]
  <2>1. k \in 1..(n + 1) /\ n \in 0..n /\ k <= n + 1
    OBVIOUS
  <2> QED
    BY <2>1, Part
<1>3. b \in Seq(Regions) /\ Len(b) = 1 /\ b[1] = x
  OBVIOUS
<1>4. t = (a \o b) \o c
  BY DEF InsertAt
<1> HIDE DEF a, b, c, t
<1> DEFINE d == a \o b
<1>5. /\ d \in Seq(Regions) /\ Len(d) = k
      /\ \A j \in 1..k : d[j] = IF j <= k - 1 THEN a[j] ELSE b[j - (k - 1)]
  <2>1. /\ d \in Seq(Regions) /\ Len(d) = Len(a) + Len(b)
        /\ \A j \in 1..(Len(a) + Len(b)) : d[j] = IF j <= Len(a) THEN a[j] ELSE b[j - Len(a)]
    BY <1>1, <1>3, ConcatProperties
  <2>2. Len(a) + Len(b) = k
    BY <1>1, <1>3
  <2> HIDE DEF d
  <2> QED
    BY <1>1, <2>1, <2>2
<1>6. /\ t \in Seq(Regions) /\ Len(t) = n + 1
      /\ \A j \in 1..(n + 1) : t[j] = IF j <= k THEN d[j] ELSE c[j - k]
  <2>1. t = d \o c
    BY <1>4
  <2> HIDE DEF d
  <2>2. /\ t \in Seq(Regions) /\ Len(t) = Len(d) + Len(c)
        /\ \A j \in 1..(Len(d) + Len(c)) : t[j] = IF j <= Len(d) THEN d[j] ELSE c[j - Len(d)]
    BY <1>2, <1>5, <2>1, ConcatProperties
  <2>3. Len(d) + Len(c) = n + 1
    BY <1>2, <1>5
  <2> QED
    BY <1>5, <2>2, <2>3
<1> HIDE DEF d
<1>7. ASSUME NEW j \in 1..(k - 1) PROVE t[j] = s[j]
  <2>1. j \in 1..(n + 1) /\ j \in 1..k /\ j <= k /\ j <= k - 1
    OBVIOUS
  <2> QED
    BY <1>1, <1>5, <1>6, <2>1
<1>8. t[k] = x
  <2>1. k \in 1..(n + 1) /\ k \in 1..k /\ ~(k <= k - 1) /\ k - (k - 1) = 1
    OBVIOUS
  <2>2. t[k] = d[k]
    BY <1>6, <2>1
  <2>3. d[k] = b[k - (k - 1)]
    BY <1>5, <2>1
  <2> QED
    BY <1>3, <2>1, <2>2, <2>3
<1>9. ASSUME NEW j \in (k + 1)..(n + 1) PROVE t[j] = s[j - 1]
  <2>1. j \in 1..(n + 1) /\ ~(j <= k) /\ j - k \in 1..(n - k + 1) /\ k + (j - k) - 1 = j - 1
    OBVIOUS
  <2> QED
    BY <1>2, <1>6, <2>1
<1>10. Inserted(t, s, n, k, x)
  BY <1>6, <1>7, <1>8, <1>9 DEF Inserted
<1> QED
  BY <1>10 DEF t

LEMMA RemoveIs ==
    ASSUME NEW s \in Seq(Regions), NEW n \in Nat, n = Len(s), NEW k \in 1..n
    PROVE  Removed(RemoveAt(s, k), s, n, k)
<1> DEFINE a == SubSeq(s, 1, k - 1)
           c == SubSeq(s, k + 1, n)
           t == RemoveAt(s, k)
<1>1. a \in Seq(Regions) /\ Len(a) = k - 1 /\ \A j \in 1..(k - 1) : a[j] = s[j]
  <2>1. 1 \in 1..(n + 1) /\ k - 1 \in 0..n /\ 1 <= (k - 1) + 1 /\ (k - 1) - 1 + 1 = k - 1
    OBVIOUS
  <2>2. /\ a \in Seq(Regions) /\ Len(a) = (k - 1) - 1 + 1
        /\ \A j \in 1..((k - 1) - 1 + 1) : a[j] = s[1 + j - 1]
    BY <2>1, Part
  <2> HIDE DEF a
  <2> QED
    BY <2>1, <2>2
<1>2. c \in Seq(Regions) /\ Len(c) = n - k /\ \A j \in 1..(n - k) : c[j] = s[k + j]
  <2>1. k + 1 \in 1..(n + 1) /\ n \in 0..n /\ k + 1 <= n + 1 /\ n - (k + 1) + 1 = n - k
    OBVIOUS
  <2>2. /\ c \in Seq(Regions) /\ Len(c) = n - (k + 1) + 1
        /\ \A j \in 1..(n - (k + 1) + 1) : c[j] = s[(k + 1) + j - 1]
    BY <2>1, Part
  <2> HIDE DEF c
  <2>3. \A j \in 1..(n - k) : (k + 1) + j - 1 = k + j
    OBVIOUS
  <2> QED
    BY <2>1, <2>2, <2>3
<1>3. t = a \o c
  BY DEF RemoveAt
<1> HIDE DEF a, c, t
<1>4. /\ t \in Seq(Regions) /\ Len(t) = Len(a) + Len(c)
      /\ \A j \in 1..(Len(a) + Len(c)) : t[j] = IF j <= Len(a) THEN a[j] ELSE c[j - Len(a)]
  BY <1>1, <1>2, <1>3, ConcatProperties
<1>5. /\ Len(t) = n - 1
      /\ \A j \in 1..(n - 1) : t[j] = IF j <= k - 1 THEN a[j] ELSE c[j - (k - 1)]
  <2>1. Len(a) + Len(c) = n - 1
    BY <1>1, <1>2
  <2> QED
    BY <1>1, <1>4, <2>1
<1>6. ASSUME NEW j \in 1..(k - 1) PROVE t[j] = s[j]
  <2>1. j \in 1..(n - 1) /\ j <= k - 1
    OBVIOUS
  <2> QED
    BY <1>1, <1>5, <2>1
<1>7. ASSUME NEW j \in k..(n - 1) PROVE t[j] = s[j + 1]
  <2>1. /\ j \in 1..(n - 1) /\ ~(j <= k - 1) /\ j - (k - 1) \in 1..(n - k)
        /\ k + (j - (k - 1)) = j + 1
    OBVIOUS
  <2> QED
    BY <1>2, <1>5, <2>1
<1>8. Removed(t, s, n, k)
  BY <1>4, <1>5, <1>6, <1>7 DEF Removed
<1> QED
  BY <1>8 DEF t
------------------------------------------------------------------------------
(* Order.                                                                  *)

Ordered(s) == \A k \in 2..Len(s) : End(s[k - 1]) <= s[k].base
InSpace(s) == \A k \in 1..Len(s) : s[k].base < PageSpace

\* The list of a program of which n segments are loaded, behind its first entry.
Loading(s, n) ==
    \A k \in 2..Len(s) : s[k].base >= HhdmBase \/ \E g \in 1..n : s[k] = Segments[g]

\* The lists of the maps that no request strayed in are in order, and as long as
\* a program is loaded its list holds its segments only, so the next one overlaps
\* none.
ListsInv ==
    /\ regions \in [Maps -> Seq(Regions)]
    /\ loaded \in [Users -> Nat]
    /\ strayed \subseteq Maps
    /\ \A m \in Maps \ strayed : Ordered(regions[m]) /\ InSpace(regions[m])
    /\ \A u \in Users \ strayed :
          loaded[u] < Len(Segments) => Loading(regions[u], loaded[u])

\* The same, for all maps.
OrderInv ==
    /\ regions \in [Maps -> Seq(Regions)]
    /\ loaded \in [Users -> Nat]
    /\ \A m \in Maps : Ordered(regions[m]) /\ InSpace(regions[m])
    /\ \A u \in Users : loaded[u] < Len(Segments) => Loading(regions[u], loaded[u])

LEMMA NoneStrayed == ListsInv /\ strayed = {} => OrderInv
BY DEF ListsInv, OrderInv

\* The sum of the memory map's entries.
LEMMA HhdmSum ==
    \E g : /\ g[0] = LowPages
           /\ \A k \in 1..Len(MemoryMap) : g[k] = g[k - 1] + Min({MemoryMap[k].length, LowPages})
           /\ HhdmLength = g[Len(MemoryMap)]
<1> DEFINE n == Len(MemoryMap)
           step(x, k) == x + Min({MemoryMap[k].length, LowPages})
           Sums(g, j) == g = [k \in 0..j |-> IF k = 0 THEN LowPages ELSE step(g[k - 1], k)]
           S == {j \in Nat : \E g : Sums(g, j)}
<1>0. n \in Nat
  BY VmmAssumption
<1>1. HhdmLength = (CHOOSE g : Sums(g, n))[n]
  BY DEF HhdmLength
<1> HIDE DEF step, n
<1>2. 0 \in S
  <2> DEFINE g == [k \in 0..0 |-> LowPages]
  <2>1. Sums(g, 0)
    OBVIOUS
  <2> HIDE DEF Sums
  <2> QED
    BY <2>1
<1>3. ASSUME NEW j \in Nat, j \in S PROVE j + 1 \in S
  <2>1. PICK g : Sums(g, j)
    BY <1>3
  <2> DEFINE h == [k \in 0..(j + 1) |-> IF k = j + 1 THEN step(g[j], j + 1) ELSE g[k]]
  <2>2. ASSUME NEW k \in 0..(j + 1)
        PROVE  h[k] = IF k = 0 THEN LowPages ELSE step(h[k - 1], k)
    <3>1. CASE k = j + 1
      <4>1. k - 1 = j /\ j \in 0..(j + 1) /\ j # j + 1 /\ k # 0
        BY <3>1
      <4> QED
        BY <3>1, <4>1
    <3>2. CASE k # j + 1
      <4>1. k \in 0..j
        BY <3>2
      <4>2. h[k] = g[k] /\ g[k] = IF k = 0 THEN LowPages ELSE step(g[k - 1], k)
        BY <2>1, <3>2, <4>1
      <4>3. k # 0 => k - 1 \in 0..(j + 1) /\ k - 1 # j + 1
        BY <4>1
      <4>4. k # 0 => h[k - 1] = g[k - 1]
        BY <4>3
      <4> QED
        BY <4>2, <4>4
    <3> QED
      BY <3>1, <3>2
  <2>3. Sums(h, j + 1)
    BY <2>2
  <2> HIDE DEF Sums, h
  <2> QED
    BY <2>3
<1> HIDE DEF S
<1>4. n \in S
  BY <1>0, <1>2, <1>3, SetInduction
<1>5. \E g : Sums(g, n)
  BY <1>4 DEF S
<1> DEFINE g == CHOOSE x : Sums(x, n)
<1>6. Sums(g, n)
  <2> HIDE DEF Sums
  <2> QED
    BY <1>5, Zenon
<1> HIDE DEF g
<1>7. g[0] = LowPages /\ \A k \in 1..n : g[k] = step(g[k - 1], k)
  BY <1>0, <1>6
<1> QED
  BY <1>1, <1>7 DEF step, n, g

\* An entry of the memory map.
LEMMA EntryShape ==
    /\ Len(MemoryMap) \in Nat /\ LowPages \in Nat \ {0}
    /\ \A k \in 1..Len(MemoryMap) :
          MemoryMap[k].base \in Nat /\ MemoryMap[k].length \in Nat
<1>1. MemoryMap \in Seq(Regions) /\ LowPages \in Nat \ {0}
  BY VmmAssumption DEF Regions
<1>2. Len(MemoryMap) \in Nat
  BY <1>1
<1>3. ASSUME NEW k \in 1..Len(MemoryMap)
      PROVE  MemoryMap[k].base \in Nat /\ MemoryMap[k].length \in Nat
  <2>1. MemoryMap[k] \in Regions
    BY <1>1
  <2> QED
    BY <2>1 DEF Regions
<1> QED
  BY <1>1, <1>2, <1>3

LEMMA HhdmLengthIsNat == HhdmLength \in Nat /\ LowPages <= HhdmLength
<1>1. PICK g : /\ g[0] = LowPages
               /\ \A k \in 1..Len(MemoryMap) : g[k] = g[k - 1] + Min({MemoryMap[k].length, LowPages})
               /\ HhdmLength = g[Len(MemoryMap)]
  BY HhdmSum
<1>2. PICK n \in Nat, L \in Nat : n = Len(MemoryMap) /\ L = LowPages
  BY EntryShape
<1> DEFINE S == {k \in Nat : k <= n => g[k] \in Nat /\ L <= g[k]}
<1>3. 0 \in S
  BY <1>1, <1>2
<1>4. ASSUME NEW k \in Nat, k \in S PROVE k + 1 \in S
  <2> SUFFICES ASSUME k + 1 <= n PROVE g[k + 1] \in Nat /\ L <= g[k + 1]
    OBVIOUS
  <2>1. k + 1 \in 1..n /\ (k + 1) - 1 = k /\ k <= n
    BY <1>2
  <2>2. PICK a \in Nat : a = g[k] /\ L <= a
    BY <1>4, <2>1
  <2>3. PICK c \in Nat : c = MemoryMap[k + 1].length
    BY <1>2, <2>1, EntryShape
  <2>4. Min({c, L}) \in {c, L}
    BY MinInSet
  <2>5. g[k + 1] = a + Min({c, L})
    BY <1>1, <1>2, <2>1, <2>2, <2>3
  <2>6. PICK d \in Nat : d = Min({c, L})
    BY <2>4
  <2> QED
    BY <2>2, <2>5, <2>6
<1> HIDE DEF S
<1>5. n \in S
  BY <1>3, <1>4, SetInduction
<1> QED
  BY <1>1, <1>2, <1>5 DEF S

\* Where things are.
LEMMA Layout ==
    /\ AddressSpace \in Nat \ {0} /\ HhdmBase \in Nat /\ ImageBase \in Nat
    /\ HhdmBase < AddressSpace /\ ImageBase < AddressSpace
    /\ HhdmBase + HhdmLength <= ImageBase
    /\ PageSpace \in Nat \ {0} /\ AddressSpace <= PageSpace
    /\ Hole \in Nat /\ PageSpace = AddressSpace + Hole
<1>1. PICK F \in Nat, S \in Nat, H \in Nat, I \in Nat \ {0} :
         /\ F = Fan /\ S = Slot /\ H = HhdmLength /\ I = ImageLength
  <2>1. Fan \in Nat /\ HhdmLength \in Nat /\ ImageLength \in Nat \ {0}
    BY VmmAssumption, HhdmLengthIsNat
  <2>2. Slot \in Nat
    BY <2>1, SMT DEF Slot
  <2> QED
    BY <2>1, <2>2
<1>2. F >= 4 /\ F % 2 = 0 /\ H < S /\ I <= S
  <2>1. PICK p \in Nat : p = Pages
    BY VmmAssumption
  <2>2. H + p < S
    BY <1>1, <2>1, VmmAssumption
  <2> QED
    BY <1>1, <2>2, VmmAssumption
<1>3. PICK h \in Nat : h = F \div 2 /\ F = 2 * h /\ h >= 2
  BY <1>2
<1>4. PICK x \in Nat : x = h * S
  OBVIOUS
<1>5. F * S = x + x
  BY <1>3, <1>4
<1>6. 2 * S <= x
  BY <1>3, <1>4, MulMono
<1>7. AddressSpace = x + x /\ HhdmBase = x /\ ImageBase = x + x - I
  BY <1>1, <1>3, <1>4, <1>5 DEF AddressSpace, HhdmBase, UserSlots, ImageBase
<1>8. PICK z \in Nat : z = Hole
  BY VmmAssumption
<1>9. PageSpace = x + x + z
  BY <1>7, <1>8 DEF PageSpace
<1>10. PageSpace \in Nat \ {0} /\ AddressSpace <= PageSpace /\ PageSpace = AddressSpace + Hole
  BY <1>1, <1>2, <1>6, <1>7, <1>8, <1>9
<1> HIDE <1>4, <1>5
<1> QED
  BY <1>1, <1>2, <1>6, <1>7, <1>8, <1>10

\* A segment of a program.
LEMMA SegmentShape ==
    ASSUME NEW g \in 1..Len(Segments)
    PROVE  /\ Segments[g] \in Regions
           /\ Segments[g].base \in Nat /\ Segments[g].length \in Nat \ {0}
           /\ Segments[g].length <= OffsetPages
           /\ End(Segments[g]) <= HhdmBase
           /\ \A h \in 1..Len(Segments) : g # h =>
                 End(Segments[g]) <= Segments[h].base \/ End(Segments[h]) <= Segments[g].base
<1> DEFINE R == [base: 0..(HhdmBase - 1), length: 1..OffsetPages]
<1>0. Segments \in Seq(R)
  BY VmmAssumption
<1>1. Segments[g] \in R
  <2> HIDE DEF R
  <2> QED
    BY <1>0
<1>2. Segments[g] \in Regions
  <2>1. 0..(HhdmBase - 1) \subseteq Nat /\ OffsetPages \in Nat
    BY Layout, VmmAssumption
  <2> QED
    BY <1>1, <2>1 DEF Regions
<1>3. /\ Segments[g].base \in Nat /\ Segments[g].length \in Nat \ {0}
      /\ Segments[g].length <= OffsetPages
  <2>1. OffsetPages \in Nat
    BY VmmAssumption
  <2> QED
    BY <1>1, <1>2, <2>1 DEF Regions
<1> QED
  BY <1>2, <1>3, VmmAssumption DEF End

LEMMA InsertKeepsOrder ==
    ASSUME NEW s \in Seq(Regions), Ordered(s), InSpace(s), NEW k \in 2..Len(s), NEW x \in Regions,
           End(s[k - 1]) <= x.base, End(x) <= s[k].base
    PROVE  /\ InsertAt(s, k, x) \in Seq(Regions)
           /\ Ordered(InsertAt(s, k, x)) /\ InSpace(InsertAt(s, k, x))
<1> DEFINE t == InsertAt(s, k, x)
<1>1. PICK n \in Nat : n = Len(s)
  OBVIOUS
<1>2. k \in 1..n /\ k \in 2..n /\ k - 1 \in 1..n
  BY <1>1
<1>3. Inserted(t, s, n, k, x)
  BY <1>1, <1>2, InsertIs
<1> HIDE DEF t
<1>4. t \in Seq(Regions) /\ Len(t) = n + 1
  BY <1>3 DEF Inserted
<1>5. ASSUME NEW j \in 1..n PROVE s[j] \in Regions /\ s[j].base < PageSpace
  BY <1>1 DEF InSpace
<1>6. x.base < PageSpace
  <2>1. x.base \in Nat /\ x.length \in Nat /\ s[k].base \in Nat /\ s[k].base < PageSpace
    BY <1>2, <1>5 DEF Regions
  <2> QED
    BY <2>1, Layout DEF End
<1>7. Ordered(t)
  <2> SUFFICES ASSUME NEW j \in 2..(n + 1) PROVE End(t[j - 1]) <= t[j].base
    BY <1>4 DEF Ordered
  <2>1. CASE j < k
    <3>1. j \in 1..(k - 1) /\ j - 1 \in 1..(k - 1) /\ j \in 2..n
      BY <1>2, <2>1
    <3>2. t[j] = s[j] /\ t[j - 1] = s[j - 1]
      BY <1>3, <3>1 DEF Inserted
    <3> QED
      BY <1>1, <3>1, <3>2 DEF Ordered
  <2>2. CASE j = k
    <3>1. k - 1 \in 1..(k - 1)
      BY <1>2
    <3>2. t[k] = x /\ t[k - 1] = s[k - 1]
      BY <1>3, <3>1 DEF Inserted
    <3> QED
      BY <2>2, <3>2
  <2>3. CASE j = k + 1
    <3>1. k + 1 \in (k + 1)..(n + 1) /\ (k + 1) - 1 = k
      BY <1>2
    <3>2. t[k] = x /\ t[k + 1] = s[k]
      BY <1>3, <3>1 DEF Inserted
    <3> QED
      BY <2>3, <3>1, <3>2
  <2>4. CASE j > k + 1
    <3>1. j \in (k + 1)..(n + 1) /\ j - 1 \in (k + 1)..(n + 1) /\ j - 1 \in 2..n
      BY <1>2, <2>4
    <3>2. t[j] = s[j - 1] /\ t[j - 1] = s[j - 1 - 1]
      BY <1>3, <3>1 DEF Inserted
    <3> QED
      BY <1>1, <3>1, <3>2 DEF Ordered
  <2>5. k \in Int /\ j \in Int
    BY <1>2
  <2> QED
    BY <2>1, <2>2, <2>3, <2>4, <2>5
<1>8. InSpace(t)
  <2> SUFFICES ASSUME NEW j \in 1..(n + 1) PROVE t[j].base < PageSpace
    BY <1>4 DEF InSpace
  <2>1. CASE j < k
    <3>1. j \in 1..(k - 1) /\ j \in 1..n
      BY <1>2, <2>1
    <3> QED
      BY <1>3, <1>5, <3>1 DEF Inserted
  <2>2. CASE j = k
    BY <1>3, <1>6, <2>2 DEF Inserted
  <2>3. CASE j > k
    <3>1. j \in (k + 1)..(n + 1) /\ j - 1 \in 1..n
      BY <1>2, <2>3
    <3> QED
      BY <1>3, <1>5, <3>1 DEF Inserted
  <2>4. k \in Int /\ j \in Int
    BY <1>2
  <2> QED
    BY <2>1, <2>2, <2>3, <2>4
<1> QED
  BY <1>4, <1>7, <1>8 DEF t

LEMMA RemoveKeepsOrder ==
    ASSUME NEW s \in Seq(Regions), Ordered(s), InSpace(s), NEW k \in 2..(Len(s) - 1)
    PROVE  /\ RemoveAt(s, k) \in Seq(Regions)
           /\ Ordered(RemoveAt(s, k)) /\ InSpace(RemoveAt(s, k))
<1> DEFINE t == RemoveAt(s, k)
<1>1. PICK n \in Nat : n = Len(s)
  OBVIOUS
<1>2. k \in 1..n /\ k \in 2..n /\ k + 1 \in 1..n /\ k + 1 \in 2..n /\ k - 1 \in 1..n
  BY <1>1
<1>3. Removed(t, s, n, k)
  BY <1>1, <1>2, RemoveIs
<1> HIDE DEF t
<1>4. t \in Seq(Regions) /\ Len(t) = n - 1
  BY <1>3 DEF Removed
<1>5. ASSUME NEW j \in 1..n PROVE s[j].base \in Nat /\ s[j].length \in Nat /\ s[j].base < PageSpace
  <2>1. s[j] \in Regions
    BY <1>1
  <2>2. s[j].base < PageSpace
    BY <1>1 DEF InSpace
  <2> QED
    BY <2>1, <2>2 DEF Regions
<1>6. Ordered(t)
  <2> SUFFICES ASSUME NEW j \in 2..(n - 1) PROVE End(t[j - 1]) <= t[j].base
    BY <1>4 DEF Ordered
  <2>1. CASE j < k
    <3>1. j \in 1..(k - 1) /\ j - 1 \in 1..(k - 1) /\ j \in 2..n
      BY <1>2, <2>1
    <3>2. t[j] = s[j] /\ t[j - 1] = s[j - 1]
      BY <1>3, <3>1 DEF Removed
    <3> QED
      BY <1>1, <3>1, <3>2 DEF Ordered
  <2>2. CASE j = k
    <3>1. k - 1 \in 1..(k - 1) /\ k \in k..(n - 1) /\ (k + 1) - 1 = k
      BY <1>2, <2>2
    <3>2. t[k] = s[k + 1] /\ t[k - 1] = s[k - 1]
      BY <1>3, <3>1 DEF Removed
    <3>3. End(s[k - 1]) <= s[k].base /\ End(s[k]) <= s[k + 1].base
      BY <1>1, <1>2, <3>1 DEF Ordered
    <3>4. PICK a \in Nat, b \in Nat, c \in Nat, d \in Nat, e \in Nat :
             /\ a = s[k - 1].base /\ b = s[k - 1].length /\ c = s[k].base /\ d = s[k].length
             /\ e = s[k + 1].base
      BY <1>2, <1>5
    <3>5. a + b <= c /\ c + d <= e
      BY <3>3, <3>4 DEF End
    <3>6. a + b <= e
      BY <3>5
    <3> QED
      BY <2>2, <3>2, <3>4, <3>6 DEF End
  <2>3. CASE j > k
    <3>1. j \in k..(n - 1) /\ j - 1 \in k..(n - 1) /\ j + 1 \in 2..n /\ (j - 1) + 1 = j /\ (j + 1) - 1 = j
      BY <1>2, <2>3
    <3>2. t[j] = s[j + 1] /\ t[j - 1] = s[j]
      BY <1>3, <3>1 DEF Removed
    <3> QED
      BY <1>1, <3>1, <3>2 DEF Ordered
  <2>4. k \in Int /\ j \in Int
    BY <1>2
  <2> QED
    BY <2>1, <2>2, <2>3, <2>4
<1>7. InSpace(t)
  <2> SUFFICES ASSUME NEW j \in 1..(n - 1) PROVE t[j].base < PageSpace
    BY <1>4 DEF InSpace
  <2>1. CASE j < k
    <3>1. j \in 1..(k - 1) /\ j \in 1..n
      BY <1>2, <2>1
    <3> QED
      BY <1>3, <1>5, <3>1 DEF Removed
  <2>2. CASE j >= k
    <3>1. j \in k..(n - 1) /\ j + 1 \in 1..n
      BY <1>2, <2>2
    <3> QED
      BY <1>3, <1>5, <3>1 DEF Removed
  <2>3. k \in Int /\ j \in Int
    BY <1>2
  <2> QED
    BY <2>1, <2>2, <2>3
<1> QED
  BY <1>4, <1>6, <1>7 DEF t
------------------------------------------------------------------------------
(* The operations.                                                         *)

LEMMA OrderInit == Init => ListsInv
<1> SUFFICES ASSUME Init PROVE ListsInv
  OBVIOUS
<1>1. /\ regions = [m \in Maps |-> IF m = Kernel THEN <<Hhdm, Image>> ELSE <<>>]
      /\ loaded = [u \in Users |-> 0] /\ strayed = {}
  BY DEF Init
<1>2. Hhdm \in Regions /\ Image \in Regions /\ Hhdm.base = HhdmBase /\ Image.base = ImageBase
      /\ End(Hhdm) = HhdmBase + HhdmLength
  BY Layout, HhdmLengthIsNat, VmmAssumption DEF Hhdm, Image, Regions, End
<1> DEFINE s == <<Hhdm, Image>>
<1>3. s \in Seq(Regions) /\ Len(s) = 2 /\ s[1] = Hhdm /\ s[2] = Image
  BY <1>2
<1> HIDE DEF s
<1>4. Ordered(s) /\ InSpace(s)
  <2>1. \A k \in 2..2 : k - 1 = 1 /\ k = 2
    OBVIOUS
  <2>2. Ordered(s)
    BY <1>2, <1>3, <2>1, Layout DEF Ordered
  <2>3. \A k \in 1..2 : k = 1 \/ k = 2
    OBVIOUS
  <2>4. InSpace(s)
    BY <1>2, <1>3, <2>3, Layout DEF InSpace
  <2> QED
    BY <2>2, <2>4
<1> DEFINE e == <<>>
<1>5. e \in Seq(Regions) /\ Len(e) = 0
  OBVIOUS
<1> HIDE DEF e
<1>6. /\ Ordered(e) /\ InSpace(e) /\ Loading(e, 0)
  BY <1>5 DEF Ordered, InSpace, Loading
<1>7. ASSUME NEW m \in Maps PROVE regions[m] = IF m = Kernel THEN s ELSE e
  BY <1>1 DEF s, e
<1>8. regions \in [Maps -> Seq(Regions)]
  <2>1. regions = [m \in Maps |-> IF m = Kernel THEN s ELSE e]
    BY <1>1 DEF s, e
  <2> QED
    BY <1>3, <1>5, <2>1
<1>9. \A m \in Maps : Ordered(regions[m]) /\ InSpace(regions[m])
  BY <1>4, <1>6, <1>7
<1>10. \A u \in Users : regions[u] = e /\ loaded[u] = 0
  <2>1. \A u \in Users : u \in Maps /\ u # Kernel
    BY VmmAssumption DEF Maps
  <2> QED
    BY <1>1, <1>7, <2>1
<1>11. loaded \in [Users -> Nat] /\ strayed \subseteq Maps
  BY <1>1
<1> QED
  BY <1>6, <1>8, <1>9, <1>10, <1>11 DEF ListsInv

\* What is left of a step: one list, and how far one program is loaded.
LEMMA OneListChanged ==
    ASSUME ListsInv, NEW m \in Maps, NEW t \in Seq(Regions),
           strayed \subseteq strayed', strayed' \subseteq Maps,
           m \notin strayed' => Ordered(t) /\ InSpace(t),
           regions' = [regions EXCEPT ![m] = t], loaded' \in [Users -> Nat],
           \A u \in Users : u # m => loaded'[u] = loaded[u],
           m \in Users \ strayed' /\ loaded'[m] < Len(Segments) => Loading(t, loaded'[m])
    PROVE  ListsInv'
<1>1. /\ regions \in [Maps -> Seq(Regions)]
      /\ \A l \in Maps \ strayed : Ordered(regions[l]) /\ InSpace(regions[l])
      /\ \A u \in Users \ strayed : loaded[u] < Len(Segments) => Loading(regions[u], loaded[u])
  BY DEF ListsInv
<1>2. regions' \in [Maps -> Seq(Regions)] /\ \A l \in Maps : regions'[l] = IF l = m THEN t ELSE regions[l]
  BY <1>1
<1>3. ASSUME NEW l \in Maps \ strayed' PROVE Ordered(regions'[l]) /\ InSpace(regions'[l])
  BY <1>1, <1>2
<1>4. ASSUME NEW u \in Users \ strayed', loaded'[u] < Len(Segments) PROVE Loading(regions'[u], loaded'[u])
  <2>1. u \in Maps /\ u \in Users \ strayed
    BY DEF Maps
  <2> QED
    BY <1>1, <1>2, <1>4, <2>1
<1>5. (\A l \in Maps \ strayed : Ordered(regions[l]) /\ InSpace(regions[l]))'
  BY <1>3 DEF Ordered, InSpace, End, PageSpace, AddressSpace, Slot
<1>6. (\A u \in Users \ strayed : loaded[u] < Len(Segments) => Loading(regions[u], loaded[u]))'
  BY <1>4 DEF Loading, HhdmBase, UserSlots, Slot
<1> QED
  BY <1>2, <1>5, <1>6 DEF ListsInv

LEMMA NoListChanged ==
    ASSUME ListsInv, regions' = regions, loaded' \in [Users -> Nat],
           strayed \subseteq strayed', strayed' \subseteq Maps,
           \A u \in Users : loaded'[u] >= loaded[u]
    PROVE  ListsInv'
<1>1. /\ regions \in [Maps -> Seq(Regions)]
      /\ \A l \in Maps \ strayed : Ordered(regions[l]) /\ InSpace(regions[l])
      /\ \A u \in Users \ strayed : loaded[u] < Len(Segments) => Loading(regions[u], loaded[u])
      /\ loaded \in [Users -> Nat]
  BY DEF ListsInv
<1>2. ASSUME NEW u \in Users \ strayed', loaded'[u] < Len(Segments) PROVE Loading(regions'[u], loaded'[u])
  <2>1. PICK n \in Nat, k \in Nat, z \in Nat : n = loaded[u] /\ k = loaded'[u] /\ z = Len(Segments)
    BY <1>1, VmmAssumption
  <2>2. n < z /\ n <= k
    BY <1>2, <2>1
  <2>3. Loading(regions[u], n)
    BY <1>1, <2>1, <2>2
  <2>4. \A g \in 1..n : g \in 1..k
    BY <2>2
  <2>5. Loading(regions[u], k)
    BY <2>3, <2>4 DEF Loading
  <2> QED
    BY <2>1, <2>5
<1>3. (\A l \in Maps \ strayed : Ordered(regions[l]) /\ InSpace(regions[l]))'
  BY <1>1 DEF Ordered, InSpace, End, PageSpace, AddressSpace, Slot
<1>4. (\A u \in Users \ strayed : loaded[u] < Len(Segments) => Loading(regions[u], loaded[u]))'
  BY <1>2 DEF Loading, HhdmBase, UserSlots, Slot
<1> QED
  BY <1>1, <1>3, <1>4 DEF ListsInv

\* The bounds of an int and of the address space.
LEMMA IntBounds ==
    /\ IntPages \in Nat /\ OffsetPages \in Nat \ {0} /\ OffsetPages < IntPages
    /\ 2 * IntPages < PageSpace
    /\ \A n \in Nat : n <= OffsetPages =>
          /\ n % (2 * IntPages) = n /\ num_of_pages(n) = n /\ Needed(n) = n + 1
          /\ Max({0, num_of_pages(n)}) = n
<1>1. PICK I \in Nat, o \in Nat \ {0}, P \in Nat \ {0} :
         I = IntPages /\ o = OffsetPages /\ P = PageSpace /\ o < I /\ 2 * I < P
  <2>1. IntPages \in Nat /\ OffsetPages \in 1..(IntPages - 1) /\ 2 * IntPages < PageSpace
    BY VmmAssumption
  <2> QED
    BY <2>1, Layout
<1>2. ASSUME NEW n \in Nat, n <= OffsetPages
      PROVE  /\ n % (2 * IntPages) = n /\ num_of_pages(n) = n /\ Needed(n) = n + 1
             /\ Max({0, num_of_pages(n)}) = n
  <2>1. n < I /\ n < 2 * I /\ n + 1 < P
    BY <1>1, <1>2
  <2>2. PICK D \in Nat : D = 2 * I
    OBVIOUS
  <2>3. n % D = n /\ (n + 1) % P = n + 1
    BY <2>1, <2>2
  <2>4. n % (2 * IntPages) = n /\ Needed(n) = n + 1
    BY <1>1, <2>2, <2>3 DEF Needed
  <2>5. num_of_pages(n) = n
    BY <1>1, <2>1, <2>4 DEF num_of_pages
  <2>6. Max({0, n}) = n
    <3>1. {0, n} \in SUBSET Int /\ n \in {0, n} /\ \A y \in {0, n} : y <= n
      OBVIOUS
    <3> QED
      BY <3>1, MaxIs
  <2> QED
    BY <2>4, <2>5, <2>6
<1> QED
  BY <1>1, <1>2

\* What was found is a place of the list.
LEMMA FitIsThere ==
    ASSUME NEW m, regions[m] \in Seq(Regions), NEW n, FirstFit(m, n) # 0
    PROVE  /\ FirstFit(m, n) \in 2..Len(regions[m])
           /\ Gap(regions[m][FirstFit(m, n) - 1], regions[m][FirstFit(m, n)]) >= Needed(n)
<1> DEFINE s == regions[m]
           fits == {k \in 2..Len(s) : Gap(s[k - 1], s[k]) >= Needed(n)}
           k == FirstFit(m, n)
<1>1. fits # {} /\ k = Min(fits)
  BY DEF FirstFit
<1>2. fits \in SUBSET Nat
  OBVIOUS
<1>3. Min(fits) \in fits
  BY <1>1, <1>2, MinInSet
<1> QED
  BY <1>1, <1>3

\* The gap that was found is one: the subtraction did not wrap, and neither did
\* the sum.
LEMMA FitIsAGap ==
    ASSUME ListsInv, NEW m \in Maps \ strayed, NEW n \in Nat, n <= OffsetPages, FirstFit(m, n) # 0
    PROVE  /\ FirstFit(m, n) \in 2..Len(regions[m])
           /\ LET k == FirstFit(m, n)
                  x == [base |-> End(regions[m][k - 1]) % PageSpace, length |-> n]
              IN  /\ x \in Regions /\ x.base = End(regions[m][k - 1])
                  /\ End(regions[m][k - 1]) <= x.base /\ End(x) <= regions[m][k].base
<1> DEFINE s == regions[m]
           k == FirstFit(m, n)
<1>1. s \in Seq(Regions) /\ Ordered(s) /\ InSpace(s)
  BY DEF ListsInv
<1>2. Needed(n) = n + 1
  BY IntBounds
<1>3. k \in 2..Len(s) /\ Gap(s[k - 1], s[k]) >= n + 1
  BY <1>1, <1>2, FitIsThere
<1> HIDE DEF s, k
<1>4. s[k - 1] \in Regions /\ s[k] \in Regions /\ s[k].base < PageSpace /\ End(s[k - 1]) <= s[k].base
  <2>1. PICK z \in Nat : z = Len(s)
    BY <1>1
  <2>2. k \in 2..z /\ k - 1 \in 1..z /\ k \in 1..z
    BY <1>3, <2>1
  <2>3. s[k - 1] \in Regions /\ s[k] \in Regions
    BY <1>1, <2>1, <2>2
  <2>4. s[k].base < PageSpace /\ End(s[k - 1]) <= s[k].base
    BY <1>1, <2>1, <2>2 DEF Ordered, InSpace
  <2> QED
    BY <2>3, <2>4
<1>5. PICK b \in Nat, e \in Nat, A \in Nat \ {0} : b = s[k].base /\ e = End(s[k - 1]) /\ A = PageSpace
  BY <1>4, Layout DEF Regions, End
<1>6. b - e \in 0..(A - 1) /\ e \in 0..(A - 1)
  BY <1>4, <1>5
<1>7. Gap(s[k - 1], s[k]) = b - e /\ e % A = e
  <2>1. \A d \in 0..(A - 1) : d % A = d
    OBVIOUS
  <2>2. Gap(s[k - 1], s[k]) = (b - e) % A
    BY <1>5 DEF Gap
  <2> QED
    BY <1>6, <2>1, <2>2
<1> DEFINE x == [base |-> e, length |-> n]
<1>8. x \in Regions /\ x.base = e /\ e <= x.base /\ End(x) <= b
  <2>1. x \in Regions /\ x.base = e /\ x.length = n
    BY DEF Regions
  <2>2. b - e >= n + 1
    BY <1>3, <1>7
  <2>3. e <= e /\ e + n <= b
    BY <2>2
  <2> QED
    BY <2>1, <2>3 DEF End
<1>9. [base |-> End(s[k - 1]) % PageSpace, length |-> n] = x /\ End(s[k - 1]) = e
  BY <1>5, <1>7
<1> QED
  BY <1>3, <1>5, <1>8, <1>9 DEF s, k

\* What an allocation remembers of a request.
LEMMA RememberIs ==
    ASSUME ListsInv, NEW m \in Maps, NEW base, NEW n, Remember(m, base, n)
    PROVE  /\ strayed \subseteq strayed' /\ strayed' \subseteq Maps
           /\ m \notin strayed' => ~Strays(m, base, n) /\ m \notin strayed
           /\ \A l \in Maps : l # m => (l \in strayed' <=> l \in strayed)
BY DEF Remember, ListsInv

LEMMA RegionAllocKeeps ==
    ASSUME ListsInv, NEW m \in Maps, NEW n \in Nat, RegionAlloc(m, n),
           m \in Users => ~(loaded[m] < Len(Segments))
    PROVE  ListsInv'
<1> DEFINE k == FirstFit(m, n)
           b == End(regions[m][k - 1]) % PageSpace
           x == [base |-> b, length |-> n]
<1>0. regions \in [Maps -> Seq(Regions)] /\ loaded \in [Users -> Nat]
      /\ regions[m] \in Seq(Regions) /\ strayed \subseteq Maps
      /\ (m \notin strayed => Ordered(regions[m]) /\ InSpace(regions[m]))
  BY DEF ListsInv
<1>1. \/ regions' = regions /\ loaded' = loaded /\ (strayed' = strayed \/ Remember(m, b, n))
      \/ /\ k # 0 /\ regions' = [regions EXCEPT ![m] = InsertAt(@, k, x)] /\ loaded' = loaded
         /\ Remember(m, b, n)
  BY DEF RegionAlloc, NewRegion, NoRegion, Commit
<1>2. CASE regions' = regions /\ loaded' = loaded /\ (strayed' = strayed \/ Remember(m, b, n))
  <2>1. \A u \in Users : loaded'[u] >= loaded[u]
    BY <1>0, <1>2
  <2>2. strayed \subseteq strayed' /\ strayed' \subseteq Maps
    <3> HIDE DEF b
    <3> QED
      BY <1>0, <1>2, RememberIs
  <2> QED
    BY <1>0, <1>2, <2>1, <2>2, NoListChanged
<1>3. CASE /\ k # 0 /\ regions' = [regions EXCEPT ![m] = InsertAt(@, k, x)] /\ loaded' = loaded
           /\ Remember(m, b, n)
  <2>1. k \in 2..Len(regions[m])
    BY <1>0, <1>3, FitIsThere
  <2>2. x \in Regions
    <3>1. PICK z \in Nat : z = Len(regions[m])
      BY <1>0
    <3>2. k - 1 \in 1..z
      BY <2>1, <3>1
    <3>3. regions[m][k - 1] \in Regions
      BY <1>0, <3>1, <3>2
    <3>4. PICK e \in Nat, P \in Nat \ {0} : e = End(regions[m][k - 1]) /\ P = PageSpace
      BY <3>3, Layout DEF Regions, End
    <3>5. e % P \in Nat
      OBVIOUS
    <3> QED
      BY <3>4, <3>5 DEF Regions
  <2>3. /\ strayed \subseteq strayed' /\ strayed' \subseteq Maps
        /\ m \notin strayed' => n <= OffsetPages /\ m \notin strayed
    <3> HIDE DEF b
    <3>1. OffsetPages \in Nat
      BY IntBounds
    <3> QED
      BY <1>3, <3>1, RememberIs DEF Strays
  <2>4. m \notin strayed' =>
          /\ Ordered(regions[m]) /\ InSpace(regions[m])
          /\ End(regions[m][k - 1]) <= x.base /\ End(x) <= regions[m][k].base
    BY <1>0, <1>3, <2>3, FitIsAGap
  <2> DEFINE t == InsertAt(regions[m], k, x)
  <2> HIDE DEF k, x, b
  <2>5. t \in Seq(Regions)
    <3>1. PICK z \in Nat : z = Len(regions[m])
      BY <1>0
    <3>2. k \in 1..z
      BY <2>1, <3>1
    <3> QED
      BY <1>0, <2>2, <3>1, <3>2, InsertIs DEF Inserted
  <2>6. m \notin strayed' => Ordered(t) /\ InSpace(t)
    BY <1>0, <2>1, <2>2, <2>4, InsertKeepsOrder
  <2>7. regions' = [regions EXCEPT ![m] = t]
    BY <1>3
  <2> HIDE DEF t
  <2> QED
    BY <1>0, <1>3, <2>3, <2>5, <2>6, <2>7, OneListChanged
<1> QED
  BY <1>1, <1>2, <1>3

LEMMA DeallocKeeps ==
    ASSUME ListsInv, NEW k \in 2..(Len(regions[Kernel]) - 1), vmm_region_dealloc(k)
    PROVE  ListsInv'
<1>0. /\ Kernel \in Maps /\ Kernel \notin Users /\ loaded \in [Users -> Nat]
      /\ regions[Kernel] \in Seq(Regions) /\ strayed' = strayed /\ strayed \subseteq Maps
      /\ Kernel \notin strayed => Ordered(regions[Kernel]) /\ InSpace(regions[Kernel])
  BY VmmAssumption DEF ListsInv, Maps, vmm_region_dealloc
<1>1. \/ regions' = regions /\ loaded' = loaded
      \/ regions' = [regions EXCEPT ![Kernel] = RemoveAt(@, k)] /\ loaded' = loaded
  BY DEF vmm_region_dealloc, Commit
<1>2. CASE regions' = regions /\ loaded' = loaded
  <2>1. \A u \in Users : loaded'[u] >= loaded[u]
    BY <1>0, <1>2
  <2> QED
    BY <1>0, <1>2, <2>1, NoListChanged
<1>3. CASE regions' = [regions EXCEPT ![Kernel] = RemoveAt(@, k)] /\ loaded' = loaded
  <2> DEFINE t == RemoveAt(regions[Kernel], k)
  <2>1. t \in Seq(Regions) /\ (Kernel \notin strayed' => Ordered(t) /\ InSpace(t))
    <3>1. PICK z \in Nat : z = Len(regions[Kernel])
      BY <1>0
    <3>2. k \in 1..z
      BY <3>1
    <3>3. t \in Seq(Regions)
      BY <1>0, <3>1, <3>2, RemoveIs DEF Removed
    <3> QED
      BY <1>0, <3>3, RemoveKeepsOrder
  <2>2. regions' = [regions EXCEPT ![Kernel] = t]
    BY <1>3
  <2> HIDE DEF t
  <2> QED
    BY <1>0, <1>3, <2>1, <2>2, OneListChanged
<1> QED
  BY <1>1, <1>2, <1>3

LEMMA NewPagemapKeeps ==
    ASSUME ListsInv, NEW u \in Users, new_pagemap(u)
    PROVE  ListsInv'
<1> DEFINE a == [base |-> 0, length |-> 0]
           b == [base |-> HhdmBase + Hole, length |-> End(Image) + Hole]
           t == <<a, b>>
<1>0. /\ u \in Maps /\ loaded \in [Users -> Nat]
      /\ strayed' = strayed /\ strayed \subseteq Maps
  BY DEF ListsInv, Maps, new_pagemap
<1>1. /\ loaded' = loaded
      /\ \/ regions' = regions
         \/ regions' = [regions EXCEPT ![u] = t]
  BY DEF new_pagemap
<1>2. CASE regions' = regions
  <2>1. \A w \in Users : loaded'[w] >= loaded[w]
    BY <1>0, <1>1
  <2> QED
    BY <1>0, <1>1, <1>2, <2>1, NoListChanged
<1>3. CASE regions' = [regions EXCEPT ![u] = t]
  <2>1. a \in Regions /\ End(a) = 0 /\ a.base = 0
    BY DEF Regions, End
  <2>2. /\ b \in Regions /\ b.base >= HhdmBase /\ b.base < PageSpace /\ 0 <= b.base
    <3>1. HhdmBase + Hole \in Nat /\ ImageBase + ImageLength + Hole \in Nat
      BY Layout, VmmAssumption
    <3>2. b.base = HhdmBase + Hole /\ b \in Regions
      BY <3>1 DEF Regions, End, Image
    <3> QED
      BY <3>2, Layout
  <2> HIDE DEF a, b
  <2>3. t \in Seq(Regions) /\ Len(t) = 2 /\ t[1] = a /\ t[2] = b
    BY <2>1, <2>2
  <2> HIDE DEF t
  <2>4. (\A k \in 2..2 : k - 1 = 1 /\ k = 2) /\ (\A k \in 1..2 : k = 1 \/ k = 2)
    OBVIOUS
  <2>5. Ordered(t)
    BY <2>1, <2>2, <2>3, <2>4, Layout DEF Ordered
  <2>6. InSpace(t)
    BY <2>1, <2>2, <2>3, <2>4, Layout DEF InSpace
  <2>7. Loading(t, loaded'[u])
    BY <2>2, <2>3, <2>4, Layout DEF Loading
  <2> QED
    BY <1>0, <1>1, <1>3, <2>3, <2>5, <2>6, <2>7, OneListChanged
<1> QED
  BY <1>1, <1>2, <1>3

\* A segment fits between the neighbours the loader finds for it, which does
\* not look at the segment's end.
LEMMA LoadSegmentKeeps ==
    ASSUME ListsInv, NEW u \in Users, LoadSegment(u)
    PROVE  ListsInv'
<1>0. /\ u \in Maps /\ loaded \in [Users -> Nat] /\ loaded[u] \in Nat
      /\ regions \in [Maps -> Seq(Regions)]
      /\ regions[u] \in Seq(Regions) /\ strayed' = strayed /\ strayed \subseteq Maps
      /\ u \notin strayed => Ordered(regions[u]) /\ InSpace(regions[u])
  BY DEF ListsInv, Maps, LoadSegment
<1> DEFINE n == loaded[u]
           g == Segments[n + 1]
           s == regions[u]
           places == {k \in 2..Len(s) : s[k].base >= g.base /\ End(s[k - 1]) <= g.base}
           load == [loaded EXCEPT ![u] = @ + 1]
           k == Min(places)
<1>1. /\ n < Len(Segments)
      /\ \/ regions' = regions /\ (loaded' = loaded \/ loaded' = load)
         \/ /\ places # {} /\ loaded' = load
            /\ regions' = [regions EXCEPT ![u] = InsertAt(@, k, g)]
  BY DEF LoadSegment, Commit
<1>2. /\ load \in [Users -> Nat] /\ load[u] = n + 1
      /\ \A w \in Users : w # u => load[w] = loaded[w]
  BY <1>0
<1> HIDE DEF load
<1>3. CASE regions' = regions /\ (loaded' = loaded \/ loaded' = load)
  <2>1. loaded' \in [Users -> Nat] /\ \A w \in Users : loaded'[w] >= loaded[w]
    <3>1. CASE loaded' = loaded
      BY <1>0, <3>1
    <3>2. CASE loaded' = load
      <4>1. ASSUME NEW w \in Users PROVE load[w] >= loaded[w]
        <5>1. loaded[w] \in Nat
          BY <1>0
        <5>2. load[w] = loaded[w] \/ load[w] = loaded[w] + 1
          BY <1>2
        <5> QED
          BY <5>1, <5>2
      <4> QED
        BY <1>2, <3>2, <4>1
    <3> QED
      BY <1>3, <3>1, <3>2
  <2> QED
    BY <1>0, <1>3, <2>1, NoListChanged
<1>4. CASE /\ places # {} /\ loaded' = load /\ u \notin strayed
           /\ regions' = [regions EXCEPT ![u] = InsertAt(@, k, g)]
  <2>1. n + 1 \in 1..Len(Segments) /\ Len(Segments) \in Nat
    <3>1. Len(Segments) \in Nat
      BY VmmAssumption
    <3> QED
      BY <1>0, <1>1, <3>1
  <2>2. /\ g \in Regions /\ g.base \in Nat /\ g.length \in Nat \ {0} /\ End(g) <= HhdmBase
        /\ \A h \in 1..Len(Segments) : n + 1 # h =>
              End(g) <= Segments[h].base \/ End(Segments[h]) <= g.base
    BY <2>1, SegmentShape
  <2>3. k \in 2..Len(s) /\ s[k].base >= g.base /\ End(s[k - 1]) <= g.base
    <3>1. places \in SUBSET Nat
      BY <1>0
    <3>2. k \in places
      BY <1>4, <3>1, MinInSet
    <3> QED
      BY <3>2
  <2> HIDE DEF k
  <2>4. Loading(s, n)
    BY <1>1, <1>4 DEF ListsInv
  <2>5. s[k] \in Regions
    BY <1>0, <2>3
  <2>6. End(g) <= s[k].base
    <3>1. CASE s[k].base >= HhdmBase
      <4>a. End(g) \in Nat
        <5>1. PICK a \in Nat, b \in Nat : a = g.base /\ b = g.length
          BY <2>2
        <5>2. End(g) = a + b
          BY <5>1 DEF End
        <5> QED
          BY <5>2
      <4>b. s[k].base \in Nat
        BY <2>5 DEF Regions
      <4>c. HhdmBase \in Nat
        BY Layout
      <4>1. PICK a \in Nat, b \in Nat, c \in Nat : a = End(g) /\ b = HhdmBase /\ c = s[k].base
        BY <4>a, <4>b, <4>c
      <4>2. a <= b /\ c >= b
        BY <2>2, <3>1, <4>1
      <4>3. a <= c
        BY <4>2
      <4> QED
        BY <4>1, <4>3
    <3>2. CASE \E h \in 1..n : s[k] = Segments[h]
      <4>1. PICK h \in 1..n : s[k] = Segments[h]
        BY <3>2
      <4>2. h \in 1..Len(Segments) /\ n + 1 # h
        BY <1>0, <2>1
      <4>3. Segments[h].base \in Nat /\ Segments[h].length \in Nat \ {0}
        BY <4>2, SegmentShape
      <4>4. End(g) <= Segments[h].base \/ End(Segments[h]) <= g.base
        BY <2>2, <4>2
      <4>5. PICK a \in Nat, b \in Nat, c \in Nat \ {0} :
               a = g.base /\ b = Segments[h].base /\ c = Segments[h].length
        BY <2>2, <4>3
      <4>6. b >= a
        BY <2>3, <4>1, <4>5
      <4>7. End(Segments[h]) = b + c
        BY <4>5 DEF End
      <4>8. ~(b + c <= a)
        BY <4>6
      <4> QED
        BY <4>1, <4>4, <4>5, <4>7, <4>8
    <3> QED
      BY <2>3, <2>4, <3>1, <3>2 DEF Loading
  <2> DEFINE t == InsertAt(s, k, g)
  <2>7. t \in Seq(Regions) /\ Ordered(t) /\ InSpace(t)
    BY <1>0, <1>4, <2>2, <2>3, <2>6, InsertKeepsOrder
  <2>8. regions' = [regions EXCEPT ![u] = t]
    BY <1>4
  <2>9. Loading(t, n + 1)
    <3>1. PICK z \in Nat : z = Len(s)
      BY <1>0
    <3>2. k \in 1..z /\ k >= 2 /\ k \in Nat
      BY <2>3, <3>1
    <3>3. Inserted(t, s, z, k, g)
      BY <1>0, <2>2, <3>1, <3>2, InsertIs
    <3> HIDE DEF t
    <3>4. ASSUME NEW j \in 2..z PROVE s[j].base >= HhdmBase \/ \E h \in 1..(n + 1) : s[j] = Segments[h]
      <4>1. \A h \in 1..n : h \in 1..(n + 1)
        BY <1>0
      <4> QED
        BY <2>4, <3>1, <4>1 DEF Loading
    <3> SUFFICES ASSUME NEW j \in 2..(z + 1)
                 PROVE  t[j].base >= HhdmBase \/ \E h \in 1..(n + 1) : t[j] = Segments[h]
      BY <3>3 DEF Loading, Inserted
    <3>5. CASE j < k
      <4>1. j \in 1..(k - 1) /\ j \in 2..z
        BY <3>2, <3>5
      <4>2. t[j] = s[j]
        BY <3>3, <4>1 DEF Inserted
      <4> QED
        BY <3>4, <4>1, <4>2
    <3>6. CASE j = k
      <4>1. t[j] = Segments[n + 1] /\ n + 1 \in 1..(n + 1)
        BY <1>0, <3>3, <3>6 DEF Inserted
      <4> QED
        BY <4>1
    <3>7. CASE j > k
      <4>1. j \in (k + 1)..(z + 1) /\ j - 1 \in 2..z
        BY <3>2, <3>7
      <4>2. t[j] = s[j - 1]
        BY <3>3, <4>1 DEF Inserted
      <4> QED
        BY <3>4, <4>1, <4>2
    <3> QED
      BY <3>2, <3>5, <3>6, <3>7
  <2> HIDE DEF t
  <2> QED
    BY <1>0, <1>2, <1>4, <2>7, <2>8, <2>9, OneListChanged
<1>5. CASE /\ places # {} /\ loaded' = load /\ u \in strayed
           /\ regions' = [regions EXCEPT ![u] = InsertAt(@, k, g)]
  <2>1. k \in 2..Len(s)
    <3>1. places \in SUBSET Nat
      OBVIOUS
    <3>2. k \in places
      BY <1>5, <3>1, MinInSet
    <3> QED
      BY <3>2
  <2>2. g \in Regions
    <3>1. n + 1 \in 1..Len(Segments)
      <4>1. Len(Segments) \in Nat
        BY VmmAssumption
      <4> QED
        BY <1>0, <1>1, <4>1
    <3> QED
      BY <3>1, SegmentShape
  <2> DEFINE t == InsertAt(s, k, g)
  <2> HIDE DEF k, g
  <2>3. t \in Seq(Regions)
    <3>1. PICK z \in Nat : z = Len(s)
      BY <1>0
    <3>2. k \in 1..z
      BY <2>1, <3>1
    <3> QED
      BY <1>0, <2>2, <3>1, <3>2, InsertIs DEF Inserted
  <2>4. regions' = [regions EXCEPT ![u] = t]
    BY <1>5
  <2> HIDE DEF t
  <2> QED
    BY <1>0, <1>2, <1>5, <2>3, <2>4, OneListChanged
<1> QED
  BY <1>1, <1>3, <1>4, <1>5

LEMMA OrderStep == ListsInv /\ [Next]_vars => ListsInv'
<1> SUFFICES ASSUME ListsInv, [Next]_vars PROVE ListsInv'
  OBVIOUS
<1>0. /\ loaded \in [Users -> Nat] /\ Kernel \in Maps /\ Kernel \notin Users
      /\ Len(Segments) \in Nat /\ strayed \subseteq Maps
  BY VmmAssumption DEF ListsInv, Maps
<1>1. ASSUME regions' = regions, loaded' = loaded, strayed \subseteq strayed', strayed' \subseteq Maps
      PROVE  ListsInv'
  <2>1. \A u \in Users : loaded'[u] >= loaded[u]
    BY <1>0, <1>1
  <2> QED
    BY <1>0, <1>1, <2>1, NoListChanged
<1>2. ASSUME NEW n \in KernelSizes, vmm_region_alloc(n) PROVE ListsInv'
  <2>1. n \in Nat /\ RegionAlloc(Kernel, n)
    BY <1>2, VmmAssumption, Layout DEF vmm_region_alloc
  <2> QED
    BY <1>0, <2>1, RegionAllocKeeps
<1>3. ASSUME NEW k \in 2..(Len(regions[Kernel]) - 1), vmm_region_dealloc(k) PROVE ListsInv'
  BY <1>3, DeallocKeeps
<1>4. ASSUME NEW u \in Users, new_pagemap(u) PROVE ListsInv'
  BY <1>4, NewPagemapKeeps
<1>5. ASSUME NEW u \in Users, LoadSegment(u) PROVE ListsInv'
  BY <1>5, LoadSegmentKeeps
<1>6. ASSUME NEW u \in Users, LoadStack(u) PROVE ListsInv'
  <2> DEFINE load == [loaded EXCEPT ![u] = @ + 1]
  <2>1. regions' = regions /\ (loaded' = loaded \/ loaded' = load) /\ strayed' = strayed
    BY <1>6 DEF LoadStack, Commit
  <2>2. load \in [Users -> Nat] /\ \A w \in Users : load[w] >= loaded[w]
    <3>1. load \in [Users -> Nat]
      BY <1>0
    <3>2. ASSUME NEW w \in Users PROVE load[w] >= loaded[w]
      <4>1. loaded[w] \in Nat /\ load[w] \in {loaded[w], loaded[w] + 1}
        BY <1>0
      <4> QED
        BY <4>1
    <3> QED
      BY <3>1, <3>2
  <2> HIDE DEF load
  <2> QED
    BY <1>0, <1>1, <2>1, <2>2, NoListChanged
<1>7. ASSUME NEW u \in Users, NEW n \in UserSizes, MmapAnonymous(u, n) PROVE ListsInv'
  <2>1. u \in Maps /\ n \in Nat /\ RegionAlloc(u, n) /\ loaded[u] = Len(Segments) + 1
    BY <1>7, VmmAssumption, Layout DEF MmapAnonymous, Running, Maps
  <2>2. ~(loaded[u] < Len(Segments))
    BY <1>0, <2>1
  <2> QED
    BY <2>1, <2>2, RegionAllocKeeps
<1>8. ASSUME NEW u \in Users, NEW h \in Hints, NEW n \in UserSizes, NEW exec \in BOOLEAN,
             MmapFixed(u, h, n, exec)
      PROVE  ListsInv'
  <2>1. regions' = regions /\ loaded' = loaded /\ Remember(u, h, n) /\ u \in Maps
    BY <1>8 DEF MmapFixed, Commit, Maps
  <2> QED
    BY <1>1, <2>1, RememberIs
<1>9. CASE UpdateCr3 \/ Halt \/ UNCHANGED vars
  <2>1. regions' = regions /\ loaded' = loaded /\ strayed' = strayed
    BY <1>9 DEF UpdateCr3, Halt, vars
  <2> QED
    BY <1>0, <1>1, <2>1
<1> QED
  BY <1>2, <1>3, <1>4, <1>5, <1>6, <1>7, <1>8, <1>9 DEF Next

\* The regions of a map are in order and apart as long as no request strayed in
\* it: so the unsigned gap between two neighbours is the free space between them,
\* and no new region of kmalloc, mmap or a load covers another.  For every
\* sequence of requests in other maps, too, and every program whose segments are
\* apart.
THEOREM RegionsInOrderAlways == Spec => []RegionsInOrder
<1>1. ListsInv => RegionsInOrder
  BY DEF ListsInv, RegionsInOrder, Ordered, Made
<1> QED
  BY <1>1, OrderInit, OrderStep, PTL DEF Spec
------------------------------------------------------------------------------
(* Places.  The table of level k on the way to the virtual pages whose     *)
(* number begins with a, down to the page itself, which has level 0.       *)

At(tab, r, k, a) ==
    LET next(p, i) == get_next_table_unmap(tab, p, i % Fan)
        a1 == a \div Fan
        a2 == a1 \div Fan
        a3 == a2 \div Fan
    IN  IF k = 4 THEN r
        ELSE IF k = 3 THEN next(r, a)
        ELSE IF k = 2 THEN next(next(r, a1), a)
        ELSE IF k = 1 THEN next(next(next(r, a2), a1), a)
        ELSE next(next(next(next(r, a3), a2), a1), a)

\* The entry of the top table above a place.
Top(k, a) ==
    IF k = 3 THEN a
    ELSE IF k = 2 THEN a \div Fan
    ELSE IF k = 1 THEN (a \div Fan) \div Fan
    ELSE ((a \div Fan) \div Fan) \div Fan

\* The places of a map: a program has only the lower half for itself.
Own(m, k, a) ==
    IF k = 4 THEN a = 0 ELSE Top(k, a) < (IF m = Kernel THEN Fan ELSE UserSlots)

\* All but the pages of the HHDM and of the image, which are mapped twice.
Managed(m, k, a) ==
    /\ Own(m, k, a)
    /\ m = Kernel /\ k = 0 => a < HhdmBase \/ (End(Hhdm) <= a /\ a < ImageBase)

Vals == {NONE, WILD} \cup Frames
Rows == [Phys -> [0..(Fan - 1) -> Vals]]

\* The kernel's half of every map is the kernel's.
Shared(tab, root) ==
    \A u \in Users : root[u] # NONE =>
        \A i \in UserSlots..(Fan - 1) : tab[root[u]][i] = tab[root[Kernel]][i]

\* The tables are trees, and apart but for the kernel's half: a page is at one
\* place of one map, and then it is not free.
Forest(tab, fs, root) ==
    /\ tab \in Rows
    /\ root \in [Maps -> Phys \cup {NONE}] /\ root[Kernel] # NONE
    /\ fs \subseteq Phys
    /\ \A m \in Maps, k \in 0..4, a \in Nat :
          Managed(m, k, a) /\ At(tab, root[m], k, a) >= 0 => At(tab, root[m], k, a) \in Phys \ fs
    /\ \A m, n \in Maps, k, l \in 0..4, a, b \in Nat :
          /\ Managed(m, k, a) /\ Managed(n, l, b)
          /\ At(tab, root[m], k, a) >= 0 /\ At(tab, root[m], k, a) = At(tab, root[n], l, b)
          => m = n /\ k = l /\ a = b
    /\ Shared(tab, root)

LEMMA FanFacts ==
    /\ Fan \in Nat \ {0} /\ Fan >= 4 /\ UserSlots \in Nat /\ UserSlots > 0 /\ UserSlots < Fan
    /\ Fan = 2 * UserSlots /\ Slot \in Nat \ {0} /\ Pages \in Nat /\ ImageLength \in Nat
    /\ HhdmLength \in Nat /\ Frames \subseteq Nat /\ Phys \subseteq Frames
<1>1. PICK F \in Nat : F = Fan /\ F >= 4 /\ F % 2 = 0
  BY VmmAssumption
<1>2. PICK h \in Nat : h = F \div 2 /\ F = 2 * h /\ h >= 2
  BY <1>1
<1>3. F * F * F \in Nat \ {0}
  <2>1. PICK g \in Nat \ {0} : g = F
    BY <1>1
  <2>2. g * g \in Nat \ {0}
    BY SMT
  <2>3. PICK x \in Nat \ {0} : x = g * g
    BY <2>2
  <2>4. x * g \in Nat \ {0}
    BY SMT
  <2> QED
    BY <2>1, <2>3, <2>4
<1>4. Pages \in Nat /\ ImageLength \in Nat /\ HhdmLength \in Nat
  BY VmmAssumption, HhdmLengthIsNat
<1>5. Frames \subseteq Nat /\ Phys \subseteq Frames
  BY <1>4 DEF Frames, Phys
<1> QED
  BY <1>1, <1>2, <1>3, <1>4, <1>5 DEF UserSlots, Slot

\* One level down.
LEMMA AtStep ==
    ASSUME NEW tab, NEW r, NEW k \in 0..3, NEW a
    PROVE  At(tab, r, k, a) = get_next_table_unmap(tab, At(tab, r, k + 1, a \div Fan), a % Fan)
<1>1. CASE k = 3
  BY <1>1 DEF At
<1>2. CASE k = 2
  BY <1>2 DEF At
<1>3. CASE k = 1
  BY <1>3 DEF At
<1>4. CASE k = 0
  BY <1>4 DEF At
<1> QED
  BY <1>1, <1>2, <1>3, <1>4

LEMMA Up ==
    ASSUME NEW a \in Nat
    PROVE  a \div Fan \in Nat /\ a % Fan \in 0..(Fan - 1) /\ a \div Fan <= a
<1>1. PICK F \in Nat \ {0} : F = Fan
  BY FanFacts
<1>2. a \div F \in Nat /\ a % F \in 0..(F - 1) /\ a \div F <= a
  BY SMT
<1> QED
  BY <1>1, <1>2

LEMMA SameChild ==
    ASSUME NEW a \in Nat, NEW b \in Nat, a \div Fan = b \div Fan, a % Fan = b % Fan
    PROVE  a = b
<1>1. PICK F \in Nat \ {0} : F = Fan
  BY FanFacts
<1>2. a = F * (a \div F) + (a % F) /\ b = F * (b \div F) + (b % F)
  BY DivMod
<1> QED
  BY <1>1, <1>2

LEMMA SmallMod ==
    ASSUME NEW a \in Nat, a < Fan
    PROVE  a \div Fan = 0 /\ a % Fan = a
<1>1. PICK F \in Nat \ {0} : F = Fan
  BY FanFacts
<1>2. a \in 0..(F - 1)
  BY <1>1
<1>3. (F * 0 + a) \div F = 0 /\ (F * 0 + a) % F = a
  BY <1>2, DivUnique
<1>4. F * 0 + a = a
  OBVIOUS
<1> QED
  BY <1>1, <1>3, <1>4

\* The place above a place of a map is one of its tables.
LEMMA OwnUp ==
    ASSUME NEW m \in Maps, NEW k \in 0..3, NEW a \in Nat, Own(m, k, a)
    PROVE  Own(m, k + 1, a \div Fan) /\ Managed(m, k + 1, a \div Fan)
<1>1. CASE k = 3
  <2>1. a < Fan
    <3>1. a < (IF m = Kernel THEN Fan ELSE UserSlots)
      BY <1>1 DEF Own, Top
    <3> QED
      BY <3>1, FanFacts
  <2>2. a \div Fan = 0
    BY <2>1, SmallMod
  <2> QED
    BY <1>1, <2>2 DEF Own, Managed
<1>2. CASE k = 2
  BY <1>2 DEF Own, Managed, Top
<1>3. CASE k = 1
  BY <1>3 DEF Own, Managed, Top
<1>4. CASE k = 0
  BY <1>4 DEF Own, Managed, Top
<1> QED
  BY <1>1, <1>2, <1>3, <1>4
------------------------------------------------------------------------------
(* One entry is written.                                                   *)

\* Row t gets e at i; a page e that becomes a table is blank.
Written(tab, tab2, t, i, e, table) ==
    tab2 = IF table THEN [tab EXCEPT ![e] = Blank, ![t] = [@ EXCEPT ![i] = e]]
           ELSE [tab EXCEPT ![t] = [@ EXCEPT ![i] = e]]

\* Every walk finds what it found, but the one to the place of the entry.
OnlyAt(tab, tab2, root, m, k, c, e) ==
    \A n \in Maps, l \in 0..4, b \in Nat : Own(n, l, b) =>
        At(tab2, root[n], l, b) =
            IF n = m /\ l = k /\ b = c THEN e ELSE At(tab, root[n], l, b)

\* What is in the rows that are tables.
RowsAre(tab, tab2, t, i, e, table) ==
    /\ tab2 \in Rows
    /\ \A w \in Phys, j \in 0..(Fan - 1) :
          ~(table = TRUE /\ w = e) => tab2[w][j] = IF w = t /\ j = i THEN e ELSE tab[w][j]
    /\ table = TRUE => \A j \in 0..(Fan - 1) : tab2[e][j] = NONE

LEMMA RowsWritten ==
    ASSUME NEW tab \in Rows, NEW tab2, NEW t \in Phys, NEW i \in 0..(Fan - 1), NEW e \in Vals,
           NEW table \in BOOLEAN, table = TRUE => e \in Phys /\ e # t,
           Written(tab, tab2, t, i, e, table)
    PROVE  RowsAre(tab, tab2, t, i, e, table)
<1> USE DEF RowsAre
<1>1. Blank \in [0..(Fan - 1) -> Vals] /\ \A j \in 0..(Fan - 1) : Blank[j] = NONE
  BY DEF Blank, Vals
<1>2. [tab[t] EXCEPT ![i] = e] \in [0..(Fan - 1) -> Vals]
  BY DEF Rows
<1>3. CASE table = TRUE
  <2>1. tab2 = [tab EXCEPT ![e] = Blank, ![t] = [@ EXCEPT ![i] = e]]
    BY <1>3 DEF Written
  <2>2. tab2 = [w \in Phys |-> IF w = t THEN [tab[t] EXCEPT ![i] = e]
                               ELSE IF w = e THEN Blank ELSE tab[w]]
    BY <1>3, <2>1 DEF Rows
  <2> QED
    BY <1>1, <1>2, <1>3, <2>2 DEF Rows
<1>4. CASE table = FALSE
  <2>1. tab2 = [tab EXCEPT ![t] = [@ EXCEPT ![i] = e]]
    BY <1>4 DEF Written
  <2>2. tab2 = [w \in Phys |-> IF w = t THEN [tab[t] EXCEPT ![i] = e] ELSE tab[w]]
    BY <2>1 DEF Rows
  <2> QED
    BY <1>2, <1>4, <2>2 DEF Rows
<1> QED
  BY <1>3, <1>4

LEMMA ValsAreInts == Vals \cup Phys \subseteq Int /\ Phys \subseteq Nat \ {0}
  BY FanFacts DEF Vals, Phys, NONE, WILD

\* A walk finds a page, an entry of the image, or that there is none.
LEMMA AtType ==
    ASSUME NEW tab, NEW fs, NEW root, Forest(tab, fs, root)
    PROVE  \A m \in Maps, k \in 0..4, a \in Nat :
              Own(m, k, a) => At(tab, root[m], k, a) \in Vals \cup Phys
<1> DEFINE Typed(k) == \A m \in Maps, a \in Nat :
                          Own(m, k, a) => At(tab, root[m], k, a) \in Vals \cup Phys
<1>1. Typed(4)
  BY DEF At, Forest, Vals
<1>2. ASSUME NEW k \in 0..3, Typed(k + 1) PROVE Typed(k)
  <2> SUFFICES ASSUME NEW m \in Maps, NEW a \in Nat, Own(m, k, a)
               PROVE  At(tab, root[m], k, a) \in Vals \cup Phys
    OBVIOUS
  <2> DEFINE w == At(tab, root[m], k + 1, a \div Fan)
  <2>1. /\ Own(m, k + 1, a \div Fan) /\ Managed(m, k + 1, a \div Fan)
        /\ a \div Fan \in Nat /\ a % Fan \in 0..(Fan - 1) /\ k + 1 \in 0..4
    BY OwnUp, Up
  <2>2. w \in Vals \cup Phys
    BY <1>2, <2>1
  <2>3. w >= 0 => w \in Phys
    BY <2>1 DEF Forest
  <2>4. At(tab, root[m], k, a) = get_next_table_unmap(tab, w, a % Fan)
    BY AtStep, Zenon
  <2>5. w \in Int
    BY <2>2, ValsAreInts
  <2>6. tab \in Rows
    BY DEF Forest
  <2> HIDE DEF w
  <2>7. CASE w < 0
    BY <2>2, <2>4, <2>7 DEF get_next_table_unmap
  <2>8. CASE ~(w < 0)
    <3>1. w \in Phys
      BY <2>3, <2>5, <2>8
    <3>2. tab[w][a % Fan] \in Vals
      BY <2>1, <2>6, <3>1 DEF Rows
    <3> QED
      BY <2>4, <2>8, <3>2 DEF get_next_table_unmap
  <2> QED
    BY <2>7, <2>8
<1> HIDE DEF Typed
<1>3. Typed(3) /\ Typed(2) /\ Typed(1) /\ Typed(0)
  BY <1>1, <1>2
<1>4. \A k \in 0..4 : Typed(k)
  BY <1>1, <1>3
<1> QED
  BY <1>4 DEF Typed

LEMMA Write ==
    ASSUME NEW tab, NEW tab2, NEW fs, NEW root, Forest(tab, fs, root),
           NEW m \in Maps, NEW k \in 0..3, NEW c \in Nat, Own(m, k, c),
           NEW t, t = At(tab, root[m], k + 1, c \div Fan), t >= 0,
           NEW e \in Vals, NEW table \in BOOLEAN,
           table = TRUE => e \in fs /\ At(tab, root[m], k, c) = NONE,
           table = FALSE => k = 0,
           Written(tab, tab2, t, c % Fan, e, table)
    PROVE  OnlyAt(tab, tab2, root, m, k, c, e)
<1> DEFINE i == c % Fan
           Same(l) == \A n \in Maps, b \in Nat : Own(n, l, b) =>
                        At(tab2, root[n], l, b) =
                            IF n = m /\ l = k /\ b = c THEN e ELSE At(tab, root[n], l, b)
<1>1. Managed(m, k + 1, c \div Fan) /\ c \div Fan \in Nat /\ i \in 0..(Fan - 1) /\ k + 1 \in 0..4
  BY OwnUp, Up
<1>2. t \in Phys \ fs
  BY <1>1 DEF Forest
<1>3. table = TRUE => e \in Phys /\ e # t
  BY <1>2 DEF Forest
<1>4. tab \in Rows
  BY DEF Forest
<1>5. /\ \A w \in Phys, j \in 0..(Fan - 1) :
            ~(table = TRUE /\ w = e) => tab2[w][j] = IF w = t /\ j = i THEN e ELSE tab[w][j]
      /\ table = TRUE => \A j \in 0..(Fan - 1) : tab2[e][j] = NONE
  <2>1. Written(tab, tab2, t, i, e, table) /\ t \in Phys
    BY <1>2
  <2> HIDE DEF i
  <2>2. RowsAre(tab, tab2, t, i, e, table)
    BY <1>1, <1>3, <1>4, <2>1, RowsWritten, Zenon
  <2> QED
    BY <2>2 DEF RowsAre
<1>6. Same(4)
  BY DEF At
<1>7. ASSUME NEW l \in 0..3, Same(l + 1) PROVE Same(l)
  <2> SUFFICES ASSUME NEW n \in Maps, NEW b \in Nat, Own(n, l, b)
               PROVE  At(tab2, root[n], l, b) =
                        IF n = m /\ l = k /\ b = c THEN e ELSE At(tab, root[n], l, b)
    OBVIOUS
  <2> DEFINE j == b % Fan
             up == b \div Fan
             w == At(tab, root[n], l + 1, up)
             w2 == At(tab2, root[n], l + 1, up)
  <2>1. /\ Own(n, l + 1, up) /\ Managed(n, l + 1, up) /\ up \in Nat /\ j \in 0..(Fan - 1)
        /\ l + 1 \in 0..4
    BY OwnUp, Up
  <2>2. w2 = IF n = m /\ l + 1 = k /\ up = c THEN e ELSE w
    BY <1>7, <2>1
  <2>3. /\ At(tab, root[n], l, b) = get_next_table_unmap(tab, w, j)
        /\ At(tab2, root[n], l, b) = get_next_table_unmap(tab2, w2, j)
    <3>1. At(tab, root[n], l, b) = get_next_table_unmap(tab, w, j)
      BY AtStep, Zenon
    <3>2. At(tab2, root[n], l, b) = get_next_table_unmap(tab2, w2, j)
      BY AtStep, Zenon
    <3> QED
      BY <3>1, <3>2, Zenon
  <2>4. w >= 0 => w \in Phys \ fs
    BY <2>1 DEF Forest
  <2>a. fs \subseteq Phys
    BY DEF Forest
  <2>5. w = t /\ j = i => n = m /\ l = k /\ b = c
    <3> SUFFICES ASSUME w = t, j = i PROVE n = m /\ l = k /\ b = c
      OBVIOUS
    <3>1. n = m /\ l + 1 = k + 1 /\ up = c \div Fan
      BY <1>1, <2>1 DEF Forest
    <3>2. b = c
      BY <3>1, SameChild
    <3> QED
      BY <3>1, <3>2
  <2>6. n = m /\ l = k /\ b = c => w = t /\ j = i /\ w2 = w
    BY <2>2
  <2>10. w \in Int
    BY <2>1, AtType, ValsAreInts
  <2> HIDE DEF w, w2, j, up, i
  <2>7. CASE n = m /\ l + 1 = k /\ up = c
    <3>1. w2 = e /\ table = TRUE /\ e \in fs /\ w = NONE
      BY <2>2, <2>7 DEF w
    <3>2. e \in Phys /\ ~(e < 0)
      BY <2>a, <3>1, ValsAreInts
    <3>3. At(tab2, root[n], l, b) = tab2[e][j] /\ tab2[e][j] = NONE
      BY <1>5, <2>1, <2>3, <3>1, <3>2 DEF get_next_table_unmap
    <3>4. At(tab, root[n], l, b) = NONE
      BY <2>3, <3>1 DEF get_next_table_unmap, NONE
    <3>5. ~(n = m /\ l = k /\ b = c)
      BY <2>7
    <3> QED
      BY <3>3, <3>4, <3>5
  <2>8. CASE ~(n = m /\ l + 1 = k /\ up = c) /\ w < 0
    <3>1. w2 = w /\ ~(w >= 0)
      <4>1. w2 = w
        BY <2>2, <2>8
      <4> QED
        BY <2>8, <2>10, <4>1
    <3>2. ~(n = m /\ l = k /\ b = c)
      BY <2>6, <3>1
    <3> QED
      BY <2>3, <2>8, <3>1, <3>2 DEF get_next_table_unmap
  <2>9. CASE ~(n = m /\ l + 1 = k /\ up = c) /\ ~(w < 0)
    <3>1. w2 = w
      BY <2>2, <2>9
    <3>2. w \in Phys \ fs /\ ~(table = TRUE /\ w = e)
      BY <2>4, <2>9, <2>10
    <3>3. tab2[w][j] = IF w = t /\ j = i THEN e ELSE tab[w][j]
      BY <1>5, <2>1, <3>2
    <3>4. At(tab, root[n], l, b) = tab[w][j] /\ At(tab2, root[n], l, b) = tab2[w][j]
      BY <2>3, <2>9, <3>1 DEF get_next_table_unmap
    <3> QED
      BY <2>5, <2>6, <3>3, <3>4
  <2> QED
    BY <2>7, <2>8, <2>9
<1> HIDE DEF Same
<1>8. Same(3) /\ Same(2) /\ Same(1) /\ Same(0)
  BY <1>6, <1>7
<1>9. \A l \in 0..4 : Same(l)
  BY <1>6, <1>8
<1> QED
  BY <1>9 DEF Same, OnlyAt

NoPrograms(root) == \A u \in Users : root[u] = NONE

SharedRows(tab, root) == tab \in Rows /\ Shared(tab, root)

\* Entry c of table t of a map gets e.
Writing(tab, tab2, fs, root, m, k, c, t, e, table) ==
    /\ Forest(tab, fs, root)
    /\ m \in Maps /\ k \in 0..3 /\ c \in Nat /\ Own(m, k, c)
    /\ t = At(tab, root[m], k + 1, c \div Fan) /\ t >= 0
    /\ e \in Vals /\ table \in BOOLEAN
    /\ table = TRUE => e \in fs
    /\ m = Kernel /\ k = 3 => NoPrograms(root)
    /\ Written(tab, tab2, t, c % Fan, e, table)

\* The kernel's half stays shared: after boot, its top entries are not written.
LEMMA WriteShared ==
    ASSUME NEW tab, NEW tab2, NEW fs, NEW root, NEW m, NEW k, NEW c, NEW t, NEW e, NEW table,
           Writing(tab, tab2, fs, root, m, k, c, t, e, table)
    PROVE  SharedRows(tab2, root)
<1>a. /\ Forest(tab, fs, root)
      /\ m \in Maps /\ k \in 0..3 /\ c \in Nat /\ Own(m, k, c)
      /\ t = At(tab, root[m], k + 1, c \div Fan) /\ t >= 0
  BY DEF Writing
<1>b. /\ e \in Vals /\ table \in BOOLEAN
      /\ table = TRUE => e \in fs
      /\ m = Kernel /\ k = 3 => NoPrograms(root)
      /\ Written(tab, tab2, t, c % Fan, e, table)
  BY DEF Writing
<1> USE <1>a, <1>b
<1> DEFINE i == c % Fan
<1>1. Managed(m, k + 1, c \div Fan) /\ c \div Fan \in Nat /\ i \in 0..(Fan - 1) /\ k + 1 \in 0..4
  BY OwnUp, Up
<1>2. t \in Phys \ fs
  BY <1>1 DEF Forest
<1>3. table = TRUE => e \in Phys /\ e # t
  BY <1>2 DEF Forest
<1>4. tab \in Rows /\ fs \subseteq Phys
  BY DEF Forest
<1>5. RowsAre(tab, tab2, t, i, e, table)
  <2>1. Written(tab, tab2, t, i, e, table) /\ t \in Phys
    BY <1>2
  <2> HIDE DEF i
  <2> QED
    BY <1>1, <1>3, <1>4, <2>1, RowsWritten, Zenon
<1>6. ASSUME NEW n \in Maps, root[n] # NONE
      PROVE  /\ root[n] \in Phys \ fs
             /\ root[n] = t => n = m /\ k = 3 /\ i = c
             /\ root[n] = t /\ m # Kernel => c < UserSlots
  <2>1. root[n] \in Phys /\ root[n] >= 0
    <3>1. root[n] \in Phys
      BY <1>6 DEF Forest
    <3> QED
      BY <3>1, ValsAreInts
  <2>2. Managed(n, 4, 0) /\ At(tab, root[n], 4, 0) = root[n]
    BY DEF Managed, Own, At
  <2>3. root[n] \in Phys \ fs
    BY <2>1, <2>2 DEF Forest
  <2>4. root[n] = t => n = m /\ 4 = k + 1
    BY <1>1, <2>1, <2>2 DEF Forest
  <2>5. ASSUME root[n] = t PROVE k = 3 /\ i = c /\ (m # Kernel => c < UserSlots)
    <3>1. k = 3
      BY <2>4, <2>5
    <3>2. c < (IF m = Kernel THEN Fan ELSE UserSlots)
      BY <3>1 DEF Own, Top
    <3>3. c < Fan
      BY <3>2, FanFacts
    <3> QED
      BY <3>1, <3>2, <3>3, SmallMod
  <2> QED
    BY <2>3, <2>4, <2>5
<1>7. ASSUME NEW u \in Users, root[u] # NONE, NEW j \in UserSlots..(Fan - 1)
      PROVE  tab2[root[u]][j] = tab2[root[Kernel]][j]
  <2>1. u \in Maps /\ Kernel \in Maps /\ u # Kernel /\ j \in 0..(Fan - 1)
    <3>1. u \in Maps /\ Kernel \in Maps /\ u # Kernel
      BY VmmAssumption DEF Maps
    <3>2. j \in 0..(Fan - 1)
      BY FanFacts
    <3> QED
      BY <3>1, <3>2
  <2>2. tab[root[u]][j] = tab[root[Kernel]][j]
    BY <1>7 DEF Forest, Shared
  <2>3. root[u] \in Phys \ fs /\ ~(root[u] = t /\ j = i)
    <3>1. root[u] = t => m = u /\ i < UserSlots
      BY <1>6, <1>7, <2>1
    <3> QED
      BY <1>1, <1>6, <1>7, <2>1, <3>1, FanFacts
  <2>4. tab2[root[u]][j] = tab[root[u]][j]
    BY <1>5, <2>1, <2>3 DEF RowsAre
  <2>5. root[Kernel] \in Phys \ fs /\ root[Kernel] # t
    <3>1. root[Kernel] # NONE
      BY DEF Forest
    <3> QED
      BY <1>6, <1>7, <2>1, <3>1 DEF NoPrograms
  <2>6. tab2[root[Kernel]][j] = tab[root[Kernel]][j]
    BY <1>5, <2>1, <2>5 DEF RowsAre
  <2> QED
    BY <2>2, <2>4, <2>6
<1> QED
  BY <1>5, <1>7 DEF SharedRows, Shared, RowsAre

\* No page of S is at a place other than the given one.
OnlyHere(tab, S, root, m, k, c) ==
    \A n \in Maps, l \in 0..4, b \in Nat :
        /\ Managed(n, l, b) /\ ~(n = m /\ l = k /\ b = c)
        /\ At(tab, root[n], l, b) >= 0
        => At(tab, root[n], l, b) \notin S

\* The forest after one entry has been written, and fs become the free pages.
LEMMA ForestAfter ==
    ASSUME NEW tab, NEW tab2 \in Rows, NEW fs, NEW fs2 \in SUBSET Phys, NEW root,
           Forest(tab, fs, root), Shared(tab2, root),
           NEW m \in Maps, NEW k \in 0..3, NEW c \in Nat, Own(m, k, c), NEW e \in Vals,
           OnlyAt(tab, tab2, root, m, k, c, e),
           Managed(m, k, c) /\ e >= 0 => e \in Phys \ fs2,
           OnlyHere(tab, fs2, root, m, k, c),
           Managed(m, k, c) => OnlyHere(tab, {e}, root, m, k, c)
    PROVE  Forest(tab2, fs2, root)
<1>0. \A n \in Maps, l \in 0..4, b \in Nat :
        /\ Managed(n, l, b) /\ ~(n = m /\ l = k /\ b = c)
        /\ At(tab, root[n], l, b) >= 0
        => /\ At(tab, root[n], l, b) \notin fs2
           /\ Managed(m, k, c) => At(tab, root[n], l, b) # e
  BY DEF OnlyHere
<1>1. \A n, l, b : Managed(n, l, b) => Own(n, l, b)
  BY DEF Managed
<1>2. ASSUME NEW n \in Maps, NEW l \in 0..4, NEW b \in Nat, Managed(n, l, b)
      PROVE  At(tab2, root[n], l, b) =
                IF n = m /\ l = k /\ b = c THEN e ELSE At(tab, root[n], l, b)
  BY <1>1, <1>2 DEF OnlyAt
<1>3. ASSUME NEW n \in Maps, NEW l \in 0..4, NEW b \in Nat, Managed(n, l, b),
             At(tab2, root[n], l, b) >= 0
      PROVE  At(tab2, root[n], l, b) \in Phys \ fs2
  <2>1. CASE n = m /\ l = k /\ b = c
    BY <1>2, <1>3, <2>1
  <2>2. CASE ~(n = m /\ l = k /\ b = c)
    <3>1. At(tab2, root[n], l, b) = At(tab, root[n], l, b)
      BY <1>2, <1>3, <2>2
    <3>2. At(tab, root[n], l, b) \in Phys
      BY <1>3, <3>1 DEF Forest
    <3> QED
      BY <1>0, <1>3, <2>2, <3>1, <3>2
  <2> QED
    BY <2>1, <2>2
<1>4. \A n, n2 \in Maps, l, l2 \in 0..4, b, b2 \in Nat :
          /\ Managed(n, l, b) /\ Managed(n2, l2, b2)
          /\ At(tab2, root[n], l, b) >= 0 /\ At(tab2, root[n], l, b) = At(tab2, root[n2], l2, b2)
          => n = n2 /\ l = l2 /\ b = b2
  <2> TAKE n, n2 \in Maps, l, l2 \in 0..4, b, b2 \in Nat
  <2>0. HAVE /\ Managed(n, l, b) /\ Managed(n2, l2, b2)
             /\ At(tab2, root[n], l, b) >= 0
             /\ At(tab2, root[n], l, b) = At(tab2, root[n2], l2, b2)
  <2> DEFINE here(x, y, z) == x = m /\ y = k /\ z = c
  <2>1. CASE here(n, l, b) /\ here(n2, l2, b2)
    BY <2>1
  <2>2. CASE here(n, l, b) /\ ~here(n2, l2, b2)
    <3>1. At(tab2, root[n], l, b) = e /\ At(tab2, root[n2], l2, b2) = At(tab, root[n2], l2, b2)
      BY <1>2, <2>0, <2>2
    <3> QED
      BY <1>0, <2>0, <2>2, <3>1
  <2>3. CASE ~here(n, l, b) /\ here(n2, l2, b2)
    <3>1. At(tab2, root[n2], l2, b2) = e /\ At(tab2, root[n], l, b) = At(tab, root[n], l, b)
      BY <1>2, <2>0, <2>3
    <3> QED
      BY <1>0, <2>0, <2>3, <3>1
  <2>4. CASE ~here(n, l, b) /\ ~here(n2, l2, b2)
    <3>1. /\ At(tab2, root[n2], l2, b2) = At(tab, root[n2], l2, b2)
          /\ At(tab2, root[n], l, b) = At(tab, root[n], l, b)
      BY <1>2, <2>0, <2>4
    <3> QED
      BY <2>0, <3>1 DEF Forest
  <2> QED
    BY <2>1, <2>2, <2>3, <2>4
<1>5. root \in [Maps -> Phys \cup {NONE}] /\ root[Kernel] # NONE
  BY DEF Forest
<1>6. \A n \in Maps, l \in 0..4, b \in Nat :
          Managed(n, l, b) /\ At(tab2, root[n], l, b) >= 0
          => At(tab2, root[n], l, b) \in Phys \ fs2
  BY <1>3, Zenon
<1> QED
  BY <1>4, <1>5, <1>6, Zenon DEF Forest
------------------------------------------------------------------------------
(* The memory as an operation goes along.                                  *)

FlagRows == [Phys -> [0..(Fan - 1) -> SUBSET {"user", "xd"}]]

Mems ==
    [free: Seq(Phys), ent: Rows, flags: FlagRows,
     stale: SUBSET (Virt \X Frames), nodes: Nat, at: Int, stop: Kinds]

\* What the TLB may still hold leads to no page that is free or at a place.
StaleOut(s, root) ==
    \A x \in s.stale :
        /\ x[2] \notin ToSet(s.free)
        /\ \A m \in Maps, k \in 0..4, a \in Nat :
              Managed(m, k, a) => At(s.ent, root[m], k, a) # x[2]

Good(s, root) ==
    /\ s \in Mems
    /\ IsInjective(s.free)
    /\ Forest(s.ent, ToSet(s.free), root)
    /\ StaleOut(s, root)

\* The flags of the entry that leads to a place, if it is present.
Fl(s, root, m, k, a) ==
    IF At(s.ent, root[m], k, a) >= 0 /\ k < 4
    THEN s.flags[At(s.ent, root[m], k + 1, a \div Fan)][a % Fan]
    ELSE {}

SameAt(s, t, root, n, l, b) ==
    /\ At(t.ent, root[n], l, b) = At(s.ent, root[n], l, b)
    /\ Fl(t, root, n, l, b) = Fl(s, root, n, l, b)

\* From s to t the map m has got tables where it had none, and pages at the
\* virtual pages of set R; the new entries have the flags f.
Grown(s, t, root, m, R, f) ==
    \A n \in Maps, l \in 0..4, b \in Nat : Own(n, l, b) =>
        \/ SameAt(s, t, root, n, l, b)
        \/ /\ n = m /\ At(t.ent, root[n], l, b) >= 0 /\ Fl(t, root, n, l, b) = f
           /\ IF l = 0 THEN b \in R ELSE At(s.ent, root[n], l, b) < 0

LEMMA GrownTrans ==
    ASSUME NEW s, NEW t, NEW w, NEW root, NEW m, NEW R1, NEW R2, NEW f, NEW fs,
           Forest(t.ent, fs, root),
           Grown(s, t, root, m, R1, f), Grown(t, w, root, m, R2, f)
    PROVE  Grown(s, w, root, m, R1 \cup R2, f)
<1> SUFFICES ASSUME NEW n \in Maps, NEW l \in 0..4, NEW b \in Nat, Own(n, l, b)
             PROVE  \/ SameAt(s, w, root, n, l, b)
                    \/ /\ n = m /\ At(w.ent, root[n], l, b) >= 0 /\ Fl(w, root, n, l, b) = f
                       /\ IF l = 0 THEN b \in R1 \cup R2 ELSE At(s.ent, root[n], l, b) < 0
  BY DEF Grown
<1>1. \/ SameAt(s, t, root, n, l, b)
      \/ /\ n = m /\ At(t.ent, root[n], l, b) >= 0 /\ Fl(t, root, n, l, b) = f
         /\ IF l = 0 THEN b \in R1 ELSE At(s.ent, root[n], l, b) < 0
  BY DEF Grown
<1>2. \/ SameAt(t, w, root, n, l, b)
      \/ /\ n = m /\ At(w.ent, root[n], l, b) >= 0 /\ Fl(w, root, n, l, b) = f
         /\ IF l = 0 THEN b \in R2 ELSE At(t.ent, root[n], l, b) < 0
  BY DEF Grown
<1>3. At(t.ent, root[n], l, b) \in Int
  BY AtType, ValsAreInts
<1>4. CASE SameAt(t, w, root, n, l, b)
  BY <1>1, <1>4 DEF SameAt
<1>5. CASE ~SameAt(t, w, root, n, l, b)
  BY <1>1, <1>2, <1>3, <1>5 DEF SameAt
<1> QED
  BY <1>4, <1>5

LEMMA GrownSelf ==
    ASSUME NEW s, NEW t, t.ent = s.ent, t.flags = s.flags, NEW root, NEW m, NEW R, NEW f
    PROVE  Grown(s, t, root, m, R, f)
  BY DEF Grown, SameAt, Fl

\* The flags of row t at i become f; a page q that becomes a table has none.
FlagsWritten(fl, fl2, t, i, f, q, table) ==
    fl2 = IF table THEN [fl EXCEPT ![q] = NoFlags, ![t] = [@ EXCEPT ![i] = f]]
          ELSE [fl EXCEPT ![t] = [@ EXCEPT ![i] = f]]

FlagsAre(fl, fl2, t, i, f, q, table) ==
    /\ fl2 \in FlagRows
    /\ \A w \in Phys, j \in 0..(Fan - 1) :
          ~(table = TRUE /\ w = q) => fl2[w][j] = IF w = t /\ j = i THEN f ELSE fl[w][j]

LEMMA FlagsRight ==
    ASSUME NEW fl \in FlagRows, NEW fl2, NEW t \in Phys, NEW i \in 0..(Fan - 1),
           NEW f \in SUBSET {"user", "xd"}, NEW q, NEW table \in BOOLEAN,
           table = TRUE => q \in Phys /\ q # t,
           FlagsWritten(fl, fl2, t, i, f, q, table)
    PROVE  FlagsAre(fl, fl2, t, i, f, q, table)
<1> USE DEF FlagsAre
<1>1. NoFlags \in [0..(Fan - 1) -> SUBSET {"user", "xd"}]
  BY DEF NoFlags
<1>2. [fl[t] EXCEPT ![i] = f] \in [0..(Fan - 1) -> SUBSET {"user", "xd"}]
  BY DEF FlagRows
<1>3. CASE table = TRUE
  <2>1. fl2 = [fl EXCEPT ![q] = NoFlags, ![t] = [@ EXCEPT ![i] = f]]
    BY <1>3 DEF FlagsWritten
  <2>2. fl2 = [w \in Phys |-> IF w = t THEN [fl[t] EXCEPT ![i] = f]
                              ELSE IF w = q THEN NoFlags ELSE fl[w]]
    BY <1>3, <2>1 DEF FlagRows
  <2> QED
    BY <1>1, <1>2, <1>3, <2>2 DEF FlagRows
<1>4. CASE table = FALSE
  <2>1. fl2 = [fl EXCEPT ![t] = [@ EXCEPT ![i] = f]]
    BY <1>4 DEF FlagsWritten
  <2>2. fl2 = [w \in Phys |-> IF w = t THEN [fl[t] EXCEPT ![i] = f] ELSE fl[w]]
    BY <2>1 DEF FlagRows
  <2> QED
    BY <1>2, <1>4, <2>2 DEF FlagRows
<1> QED
  BY <1>3, <1>4

\* What a write leaves as it was: every place but the one it is about.
OthersSame(s, s2, root, m, k, c) ==
    \A n \in Maps, l \in 0..4, b \in Nat :
        Own(n, l, b) /\ ~(n = m /\ l = k /\ b = c) => SameAt(s, s2, root, n, l, b)

\* The entry is written, and its flags.
Wrote(s, s2, root, m, k, c, e, f) ==
    /\ OthersSame(s, s2, root, m, k, c)
    /\ At(s2.ent, root[m], k, c) = e
    /\ e >= 0 => Fl(s2, root, m, k, c) = f

LEMMA WriteFlags ==
    ASSUME NEW s \in Mems, NEW s2 \in Mems, NEW fs, NEW root, Forest(s.ent, fs, root),
           NEW m \in Maps, NEW k \in 0..3, NEW c \in Nat, Own(m, k, c),
           NEW t, t = At(s.ent, root[m], k + 1, c \div Fan), t >= 0,
           NEW e \in Vals, NEW f \in SUBSET {"user", "xd"}, NEW table \in BOOLEAN,
           table = TRUE => e \in fs /\ At(s.ent, root[m], k, c) = NONE,
           table = FALSE => k = 0,
           OnlyAt(s.ent, s2.ent, root, m, k, c, e),
           FlagsWritten(s.flags, s2.flags, t, c % Fan, f, e, table)
    PROVE  Wrote(s, s2, root, m, k, c, e, f)
<1> DEFINE i == c % Fan
<1>1. /\ Own(m, k + 1, c \div Fan) /\ Managed(m, k + 1, c \div Fan)
      /\ c \div Fan \in Nat /\ i \in 0..(Fan - 1) /\ k + 1 \in 0..4 /\ k \in 0..4
  BY OwnUp, Up
<1>2. t \in Phys \ fs
  BY <1>1 DEF Forest
<1>3. table = TRUE => e \in Phys /\ e # t
  BY <1>2 DEF Forest
<1>4. s.flags \in FlagRows /\ fs \subseteq Phys
  BY DEF Mems, Forest
<1>5. FlagsAre(s.flags, s2.flags, t, i, f, e, table)
  <2>1. FlagsWritten(s.flags, s2.flags, t, i, f, e, table) /\ t \in Phys
    BY <1>2
  <2> HIDE DEF i
  <2> QED
    BY <1>1, <1>3, <1>4, <2>1, FlagsRight, Zenon
<1>6. At(s2.ent, root[m], k, c) = e
  BY <1>1 DEF OnlyAt
<1>7. e >= 0 => Fl(s2, root, m, k, c) = f
  <2>1. At(s2.ent, root[m], k + 1, c \div Fan) = t
    BY <1>1 DEF OnlyAt
  <2>2. s2.flags[t][i] = f
    BY <1>1, <1>2, <1>3, <1>5 DEF FlagsAre
  <2> QED
    BY <1>6, <2>1, <2>2 DEF Fl
<1>8. ASSUME NEW n \in Maps, NEW l \in 0..4, NEW b \in Nat,
             Own(n, l, b), ~(n = m /\ l = k /\ b = c)
      PROVE  SameAt(s, s2, root, n, l, b)
  <2>1. At(s2.ent, root[n], l, b) = At(s.ent, root[n], l, b)
    BY <1>8 DEF OnlyAt
  <2>2. CASE ~(At(s.ent, root[n], l, b) >= 0 /\ l < 4)
    BY <2>1, <2>2 DEF SameAt, Fl
  <2>3. CASE At(s.ent, root[n], l, b) >= 0 /\ l < 4
    <3> DEFINE j == b % Fan
               up == b \div Fan
               w == At(s.ent, root[n], l + 1, up)
    <3>1. /\ l \in 0..3 /\ l + 1 \in 0..4 /\ up \in Nat /\ j \in 0..(Fan - 1)
          /\ Own(n, l + 1, up) /\ Managed(n, l + 1, up)
      BY <1>8, <2>3, OwnUp, Up
    <3>2. At(s.ent, root[n], l, b) = get_next_table_unmap(s.ent, w, j)
      BY <3>1, AtStep, Zenon
    <3>3. w \in Int
      BY <3>1, AtType, ValsAreInts
    <3>4. w >= 0
      BY <2>3, <3>2, <3>3 DEF get_next_table_unmap
    <3>5. w \in Phys \ fs
      BY <3>1, <3>4 DEF Forest
    <3>6. ~(n = m /\ l + 1 = k /\ up = c)
      <4> SUFFICES ASSUME n = m /\ l + 1 = k /\ up = c PROVE FALSE
        OBVIOUS
      <4>1. w = NONE
        BY <3>1
      <4> QED
        BY <3>4, <4>1 DEF NONE
    <3>7. At(s2.ent, root[n], l + 1, up) = w
      BY <3>1, <3>6 DEF OnlyAt
    <3>8. ~(w = t /\ j = i)
      <4> SUFFICES ASSUME w = t, j = i PROVE FALSE
        OBVIOUS
      <4>1. n = m /\ l + 1 = k + 1 /\ up = c \div Fan
        BY <1>1, <3>1, <3>4 DEF Forest
      <4>2. b = c
        BY <4>1, SameChild
      <4> QED
        BY <1>8, <4>1, <4>2
    <3>9. s2.flags[w][j] = s.flags[w][j]
      <4>1. ~(table = TRUE /\ w = e)
        BY <3>5
      <4> HIDE DEF w, j, i
      <4> QED
        BY <1>5, <3>1, <3>5, <3>8, <4>1 DEF FlagsAre
    <3> QED
      BY <2>1, <3>7, <3>9 DEF SameAt, Fl
  <2> QED
    BY <2>2, <2>3
<1> QED
  BY <1>6, <1>7, <1>8, Zenon DEF Wrote, OthersSame

\* From s to s2 the entry of place c of map m, in table t, becomes e with flags
\* f.  The page it gets was nowhere, or free if it becomes a table; the pages that
\* become free are at no other place.
Putting(s, s2, root, m, k, c, t, e, f, table) ==
    /\ Good(s, root) /\ s2 \in Mems /\ IsInjective(s2.free)
    /\ Writing(s.ent, s2.ent, ToSet(s.free), root, m, k, c, t, e, table)
    /\ f \in SUBSET {"user", "xd"} /\ FlagsWritten(s.flags, s2.flags, t, c % Fan, f, e, table)
    /\ table = TRUE => At(s.ent, root[m], k, c) = NONE
    /\ table = FALSE => k = 0
    /\ Managed(m, k, c) /\ e >= 0 => e \in Phys \ ToSet(s2.free)
    /\ OnlyHere(s.ent, ToSet(s2.free), root, m, k, c)
    /\ Managed(m, k, c) => OnlyHere(s.ent, {e}, root, m, k, c)
    /\ \A x \in s2.stale : x[2] \notin ToSet(s2.free) /\ (Managed(m, k, c) => x[2] # e)
    /\ OnlyHere(s.ent, {x[2] : x \in s2.stale}, root, m, k, c)

LEMMA Put ==
    ASSUME NEW root, NEW s, NEW s2, NEW m, NEW k, NEW c, NEW t, NEW e, NEW f, NEW table,
           Putting(s, s2, root, m, k, c, t, e, f, table)
    PROVE  Good(s2, root) /\ Wrote(s, s2, root, m, k, c, e, f)
<1>a. /\ Good(s, root) /\ s2 \in Mems /\ IsInjective(s2.free)
      /\ Writing(s.ent, s2.ent, ToSet(s.free), root, m, k, c, t, e, table)
      /\ f \in SUBSET {"user", "xd"} /\ FlagsWritten(s.flags, s2.flags, t, c % Fan, f, e, table)
  BY DEF Putting
<1>b. /\ table = TRUE => e \in ToSet(s.free) /\ At(s.ent, root[m], k, c) = NONE
      /\ table = FALSE => k = 0
  BY DEF Putting, Writing
<1>d. /\ Managed(m, k, c) /\ e >= 0 => e \in Phys \ ToSet(s2.free)
      /\ OnlyHere(s.ent, ToSet(s2.free), root, m, k, c)
      /\ Managed(m, k, c) => OnlyHere(s.ent, {e}, root, m, k, c)
  BY DEF Putting
<1>e. /\ \A x \in s2.stale : x[2] \notin ToSet(s2.free) /\ (Managed(m, k, c) => x[2] # e)
      /\ OnlyHere(s.ent, {x[2] : x \in s2.stale}, root, m, k, c)
  BY DEF Putting
<1>c. /\ m \in Maps /\ k \in 0..3 /\ c \in Nat /\ Own(m, k, c)
      /\ t = At(s.ent, root[m], k + 1, c \div Fan) /\ t >= 0
      /\ e \in Vals /\ table \in BOOLEAN
      /\ Written(s.ent, s2.ent, t, c % Fan, e, table)
  BY <1>a DEF Writing
<1> USE <1>a, <1>b, <1>c
<1> DEFINE fs == ToSet(s.free)
           fs2 == ToSet(s2.free)
<1>1. s \in Mems /\ Forest(s.ent, fs, root)
  BY DEF Good
<1>2. fs2 \in SUBSET Phys /\ k \in 0..4
  <2>1. s2.free \in Seq(Phys)
    BY DEF Mems
  <2> QED
    BY <2>1 DEF ToSet
<1>3. OnlyAt(s.ent, s2.ent, root, m, k, c, e)
  BY <1>1, Write
<1>4. SharedRows(s2.ent, root)
  <2>1. Writing(s.ent, s2.ent, fs, root, m, k, c, t, e, table)
    OBVIOUS
  <2> QED
    BY ONLY <2>1, WriteShared
<1>5. Wrote(s, s2, root, m, k, c, e, f)
  BY <1>1, <1>3, WriteFlags
<1>6. Forest(s2.ent, fs2, root)
  BY <1>1, <1>2, <1>3, <1>4, <1>d, ForestAfter DEF SharedRows
<1>7. StaleOut(s2, root)
  <2> SUFFICES ASSUME NEW x \in s2.stale, NEW n \in Maps, NEW l \in 0..4, NEW b \in Nat,
                      Managed(n, l, b)
               PROVE  At(s2.ent, root[n], l, b) # x[2]
    BY <1>e DEF StaleOut
  <2>1. CASE n = m /\ l = k /\ b = c
    BY <1>5, <1>e, <2>1 DEF Wrote
  <2>2. CASE ~(n = m /\ l = k /\ b = c)
    <3>1. Own(n, l, b)
      BY DEF Managed
    <3>2. At(s2.ent, root[n], l, b) = At(s.ent, root[n], l, b)
      BY <1>5, <2>2, <3>1 DEF Wrote, OthersSame, SameAt
    <3>3. x[2] >= 0
      <4>1. x[2] \in Frames
        BY DEF Mems
      <4>2. PICK y \in Nat : y = x[2]
        BY <4>1, FanFacts
      <4> QED
        BY <4>2
    <3> QED
      BY <1>e, <2>2, <3>2, <3>3 DEF OnlyHere
  <2> QED
    BY <2>1, <2>2
<1> QED
  BY <1>5, <1>6, <1>7, Zenon DEF Good

\* A page that is not in use, and not on the free list either: it has just been
\* taken.
Nowhere(s, root, p) ==
    /\ p \in Phys \ ToSet(s.free)
    /\ \A x \in s.stale : x[2] # p
    /\ \A m \in Maps, k \in 0..4, a \in Nat : Managed(m, k, a) => At(s.ent, root[m], k, a) # p

\* From s to t, m has got tables, and nothing else has changed.
Deeper(s, t, root, m, f) ==
    /\ Good(t, root)
    /\ Grown(s, t, root, m, {}, f)
    /\ t.nodes = s.nodes
    /\ ToSet(t.free) \subseteq ToSet(s.free)
    /\ \A p : Nowhere(s, root, p) => Nowhere(t, root, p)

LEMMA GoodSame ==
    ASSUME NEW s, NEW root, Good(s, root), NEW t \in Mems,
           t.free = s.free, t.ent = s.ent, t.stale = s.stale
    PROVE  Good(t, root) /\ \A p : Nowhere(s, root, p) => Nowhere(t, root, p)
<1>1. Good(t, root)
  BY DEF Good, StaleOut
<1>2. \A p : Nowhere(s, root, p) => Nowhere(t, root, p)
  BY DEF Nowhere
<1> QED
  BY <1>1, <1>2

LEMMA DeeperSame ==
    ASSUME NEW s, NEW root, Good(s, root), NEW t \in Mems, NEW m, NEW f,
           t.free = s.free, t.ent = s.ent, t.stale = s.stale, t.flags = s.flags, t.nodes = s.nodes
    PROVE  Deeper(s, t, root, m, f)
<1>1. Grown(s, t, root, m, {}, f)
  BY GrownSelf
<1> QED
  BY <1>1, GoodSame DEF Deeper

LEMMA DeeperTrans ==
    ASSUME NEW s, NEW t, NEW w, NEW root, NEW m, NEW f,
           Deeper(s, t, root, m, f), Deeper(t, w, root, m, f)
    PROVE  Deeper(s, w, root, m, f)
<1>1. Forest(t.ent, ToSet(t.free), root)
  BY DEF Deeper, Good
<1>2. Grown(s, w, root, m, {} \cup {}, f)
  BY <1>1, GrownTrans DEF Deeper
<1>3. Grown(s, w, root, m, {}, f)
  <2>1. {} \cup {} = {}
    OBVIOUS
  <2> QED
    BY <1>2, <2>1
<1> QED
  BY <1>3 DEF Deeper

\* A page is at no other place than its own.
LEMMA NotElsewhere ==
    ASSUME NEW s, NEW root, Good(s, root), NEW S,
           NEW m, NEW k, NEW c, \A p \in S : p \in ToSet(s.free) \/ Nowhere(s, root, p)
    PROVE  OnlyHere(s.ent, S, root, m, k, c)
  BY DEF OnlyHere, Good, Forest, Nowhere

\* Walking s down one level of m, to place c.
Walking(s, root, m, k, c, f) ==
    /\ Good(s, root) /\ s.stop = "no"
    /\ m \in Maps /\ k \in 1..3 /\ c \in Nat /\ Own(m, k, c)
    /\ s.at = At(s.ent, root[m], k + 1, c \div Fan) /\ s.at >= 0
    /\ f \in SUBSET {"user", "xd"}
    /\ m = Kernel /\ k = 3 => At(s.ent, root[m], k, c) >= 0 \/ NoPrograms(root)

LEMMA NextTable ==
    ASSUME NEW s, NEW root, NEW m, NEW k, NEW c, NEW f, Walking(s, root, m, k, c, f),
           NEW t, t = get_next_table(s, c % Fan, f)
    PROVE  /\ Deeper(s, t, root, m, f)
           /\ t.stop = "no" => t.at = At(t.ent, root[m], k, c) /\ t.at >= 0
<1> DEFINE i == c % Fan
           e == s.ent[s.at][i]
           q == Head(s.free)
           ent2 == [s.ent EXCEPT ![q] = Blank, ![s.at][i] = q]
           fl2 == [s.flags EXCEPT ![q] = NoFlags, ![s.at][i] = f]
           wild == [s EXCEPT !.stop = "wild"]
           down == [s EXCEPT !.at = e]
           full == [s EXCEPT !.stop = "memory"]
           made == [s EXCEPT !.free = Tail(@), !.at = q,
                       !.ent = [@ EXCEPT ![q] = Blank, ![s.at][i] = q],
                       !.flags = [@ EXCEPT ![q] = NoFlags, ![s.at][i] = f]]
<1>1. /\ Good(s, root) /\ s.stop = "no" /\ m \in Maps /\ k \in 1..3 /\ k \in 0..3 /\ k \in 0..4
      /\ c \in Nat /\ Own(m, k, c)
      /\ s.at = At(s.ent, root[m], k + 1, c \div Fan) /\ s.at >= 0 /\ f \in SUBSET {"user", "xd"}
      /\ m = Kernel /\ k = 3 => At(s.ent, root[m], k, c) >= 0 \/ NoPrograms(root)
  BY DEF Walking
<1>2. /\ Own(m, k + 1, c \div Fan) /\ Managed(m, k + 1, c \div Fan)
      /\ c \div Fan \in Nat /\ i \in 0..(Fan - 1) /\ k + 1 \in 0..4
  BY <1>1, OwnUp, Up
<1>3. s \in Mems /\ Forest(s.ent, ToSet(s.free), root) /\ IsInjective(s.free)
  BY <1>1 DEF Good
<1>4. s.at \in Phys \ ToSet(s.free) /\ s.ent \in Rows /\ s.at \in Nat
  BY <1>1, <1>2, <1>3, ValsAreInts DEF Forest
<1>5. e = At(s.ent, root[m], k, c) /\ e \in Vals /\ e \in Int
  <2>0. k \in 0..3
    BY <1>1
  <2>1. At(s.ent, root[m], k, c) = get_next_table_unmap(s.ent, At(s.ent, root[m], k + 1, c \div Fan), c % Fan)
    BY <2>0, AtStep, Zenon
  <2>2. At(s.ent, root[m], k, c) = e
    BY <1>1, <1>4, <2>1 DEF get_next_table_unmap
  <2>3. e \in Vals
    BY <1>2, <1>4 DEF Rows
  <2> QED
    BY <2>2, <2>3, ValsAreInts
<1>6. t = IF s.stop # "no" THEN s
          ELSE IF e = WILD THEN wild
          ELSE IF e # NONE THEN down
          ELSE IF s.free = <<>> THEN full ELSE made
  <2>1. s.stop # "no" => t = s
    BY DEF get_next_table
  <2>2. s.stop = "no" /\ e = WILD => t = wild
    BY DEF get_next_table
  <2>3. s.stop = "no" /\ e # WILD /\ e # NONE => t = down
    BY DEF get_next_table
  <2>4. s.stop = "no" /\ e # WILD /\ e = NONE /\ s.free = <<>> => t = full
    BY DEF get_next_table
  <2>5. s.stop = "no" /\ e # WILD /\ e = NONE /\ s.free # <<>> => t = made
    BY DEF get_next_table
  <2> HIDE DEF i, e, q, ent2, fl2, wild, down, full, made
  <2> QED
    BY <2>1, <2>2, <2>3, <2>4, <2>5
<1> HIDE DEF i, e, q, ent2, fl2, wild, down, full, made
<1>7. CASE e = WILD
  <2>1. t = [s EXCEPT !.stop = "wild"]
    BY <1>1, <1>6, <1>7 DEF wild
  <2>2. /\ t \in Mems /\ t.free = s.free /\ t.ent = s.ent /\ t.stale = s.stale
        /\ t.flags = s.flags /\ t.nodes = s.nodes /\ t.stop # "no"
    BY <1>3, <2>1 DEF Mems, Kinds
  <2> QED
    BY <1>1, <2>2, DeeperSame
<1>8. CASE e # WILD /\ e # NONE
  <2>1. t = [s EXCEPT !.at = e]
    BY <1>1, <1>6, <1>8 DEF down
  <2>2. /\ t \in Mems /\ t.free = s.free /\ t.ent = s.ent /\ t.stale = s.stale
        /\ t.flags = s.flags /\ t.nodes = s.nodes /\ t.at = e
    BY <1>3, <1>5, <2>1 DEF Mems
  <2>3. e >= 0
    BY <1>5, <1>8, FanFacts DEF Vals
  <2>4. t.at = At(t.ent, root[m], k, c) /\ t.at >= 0
    BY <1>5, <2>2, <2>3
  <2> QED
    BY <1>1, <2>2, <2>4, DeeperSame
<1>9. CASE e = NONE /\ s.free = <<>>
  <2>1. t = [s EXCEPT !.stop = "memory"]
    BY <1>1, <1>6, <1>9 DEF full, NONE, WILD
  <2>2. /\ t \in Mems /\ t.free = s.free /\ t.ent = s.ent /\ t.stale = s.stale
        /\ t.flags = s.flags /\ t.nodes = s.nodes /\ t.stop # "no"
    BY <1>3, <2>1 DEF Mems, Kinds
  <2> QED
    BY <1>1, <2>2, DeeperSame
<1>10. CASE e = NONE /\ s.free # <<>>
  <2>1. t = [s EXCEPT !.free = Tail(@), !.at = q, !.ent = ent2, !.flags = fl2]
    <3>1. t = made
      BY <1>1, <1>6, <1>10 DEF NONE, WILD
    <3> QED
      BY ONLY <3>1 DEF made, ent2, fl2
  <2>2. /\ q \in Phys /\ q \in ToSet(s.free) /\ Tail(s.free) \in Seq(Phys)
        /\ IsInjective(Tail(s.free)) /\ ToSet(Tail(s.free)) = ToSet(s.free) \ {q}
    <3>1. s.free \in Seq(Phys)
      BY <1>3 DEF Mems
    <3> QED
      BY <1>3, <1>10, <3>1, TailInjective DEF q
  <2>3. q \in Vals /\ q >= 0 /\ q # s.at /\ q \in Int
    <3>1. q \in Vals
      BY <2>2, FanFacts DEF Vals, Phys
    <3> QED
      BY <1>4, <2>2, <3>1, ValsAreInts
  <2>4. Written(s.ent, ent2, s.at, i, q, TRUE) /\ FlagsWritten(s.flags, fl2, s.at, i, f, q, TRUE)
    BY DEF Written, FlagsWritten, ent2, fl2
  <2>5. ent2 \in Rows
    <3>1. RowsAre(s.ent, ent2, s.at, i, q, TRUE)
      <4> QED
        BY <1>2, <1>4, <2>2, <2>3, <2>4, RowsWritten
    <3> QED
      BY <3>1 DEF RowsAre
  <2>6. fl2 \in FlagRows
    <3>1. s.flags \in FlagRows
      BY <1>3 DEF Mems
    <3>2. FlagsAre(s.flags, fl2, s.at, i, f, q, TRUE)
      <4> QED
        BY <1>1, <1>2, <1>4, <2>2, <2>3, <2>4, <3>1, FlagsRight
    <3> QED
      BY <3>2 DEF FlagsAre
  <2>7. /\ t \in Mems /\ t.free = Tail(s.free) /\ t.ent = ent2 /\ t.flags = fl2
        /\ t.stale = s.stale /\ t.nodes = s.nodes /\ t.at = q /\ t.stop = s.stop
    BY <1>3, <2>1, <2>2, <2>3, <2>5, <2>6 DEF Mems
  <2>8. ToSet(t.free) = ToSet(s.free) \ {q}
    BY <2>2, <2>7
  <2>9. Good(t, root) /\ Wrote(s, t, root, m, k, c, q, f)
    <3>1. OnlyHere(s.ent, ToSet(t.free), root, m, k, c) /\ OnlyHere(s.ent, {q}, root, m, k, c)
      BY <1>1, <2>2, <2>8, NotElsewhere
    <3>2. \A x \in t.stale : x[2] \notin ToSet(t.free) /\ x[2] # q
      BY <1>1, <2>2, <2>7, <2>8 DEF Good, StaleOut
    <3>3. OnlyHere(s.ent, {x[2] : x \in t.stale}, root, m, k, c)
      BY <1>1, <2>7 DEF OnlyHere, Good, StaleOut
    <3>4. /\ Written(s.ent, t.ent, s.at, c % Fan, q, TRUE)
          /\ FlagsWritten(s.flags, t.flags, s.at, c % Fan, f, q, TRUE)
      BY <2>4, <2>7 DEF i
    <3>5. m = Kernel /\ k = 3 => NoPrograms(root)
      BY <1>1, <1>5, <1>10 DEF NONE
    <3>6. At(s.ent, root[m], k, c) = NONE /\ IsInjective(t.free)
      BY <1>5, <1>10, <2>2, <2>7
    <3>7. q \in Phys \ ToSet(t.free)
      BY <2>2, <2>8
    <3>8. Writing(s.ent, t.ent, ToSet(s.free), root, m, k, c, s.at, q, TRUE)
      BY <1>1, <1>3, <2>2, <2>3, <3>4, <3>5 DEF Writing
    <3>9. Putting(s, t, root, m, k, c, s.at, q, f, TRUE)
      BY <1>1, <2>7, <3>1, <3>2, <3>3, <3>4, <3>6, <3>7, <3>8 DEF Putting
    <3> QED
      BY <3>9, Put
  <2>10. Grown(s, t, root, m, {}, f)
    <3> SUFFICES ASSUME NEW n \in Maps, NEW l \in 0..4, NEW b \in Nat, Own(n, l, b)
                 PROVE  \/ SameAt(s, t, root, n, l, b)
                        \/ /\ n = m /\ At(t.ent, root[n], l, b) >= 0 /\ Fl(t, root, n, l, b) = f
                           /\ IF l = 0 THEN b \in {} ELSE At(s.ent, root[n], l, b) < 0
      BY DEF Grown
    <3>1. CASE n = m /\ l = k /\ b = c
      <4>0. At(s.ent, root[n], l, b) = NONE
        BY <1>5, <1>10, <3>1
      <4>1. At(s.ent, root[n], l, b) < 0 /\ l # 0
        BY <1>1, <3>1, <4>0 DEF NONE
      <4> QED
        BY <2>3, <2>9, <3>1, <4>1 DEF Wrote
    <3>2. CASE ~(n = m /\ l = k /\ b = c)
      BY <2>9, <3>2 DEF Wrote, OthersSame
    <3> QED
      BY <3>1, <3>2
  <2>11. ASSUME NEW p, Nowhere(s, root, p) PROVE Nowhere(t, root, p)
    <3>1. p \in Phys \ ToSet(t.free) /\ p # q /\ \A x \in t.stale : x[2] # p
      BY <2>2, <2>7, <2>8, <2>11 DEF Nowhere
    <3>2. ASSUME NEW n \in Maps, NEW l \in 0..4, NEW b \in Nat, Managed(n, l, b)
          PROVE  At(t.ent, root[n], l, b) # p
      <4>1. Own(n, l, b) /\ At(s.ent, root[n], l, b) # p
        BY <2>11, <3>2 DEF Managed, Nowhere
      <4>2. CASE n = m /\ l = k /\ b = c
        BY <2>9, <3>1, <4>2 DEF Wrote
      <4>3. CASE ~(n = m /\ l = k /\ b = c)
        BY <2>9, <4>1, <4>3 DEF Wrote, OthersSame, SameAt
      <4> QED
        BY <4>2, <4>3
    <3> QED
      BY <3>1, <3>2 DEF Nowhere
  <2>12. Deeper(s, t, root, m, f)
    BY <2>7, <2>8, <2>9, <2>10, <2>11 DEF Deeper
  <2> QED
    BY <2>3, <2>7, <2>9, <2>12 DEF Wrote
<1> QED
  BY <1>7, <1>8, <1>9, <1>10
------------------------------------------------------------------------------
(* map.                                                                    *)

\* The indices of a virtual page are the last digits of its prefixes.
LEMMA Digits ==
    ASSUME NEW v \in Nat
    PROVE  /\ Index(v, 1) = v % Fan
           /\ Index(v, 2) = (v \div Fan) % Fan
           /\ Index(v, 3) = ((v \div Fan) \div Fan) % Fan
           /\ Index(v, 4) = (((v \div Fan) \div Fan) \div Fan) % Fan
           /\ Top(0, v) = v \div Slot
<1>1. PICK F \in Nat \ {0} : F = Fan
  BY FanFacts
<1>2. /\ Span[1] = 1 /\ Span[2] = Fan /\ Span[3] = Fan * Fan /\ Span[4] = Slot
  BY DEF Span
<1>3. v \div 1 = v /\ v \div F \in Nat
  BY DivBounds
<1>4. (v \div F) \div F = v \div (F * F)
  BY DivDiv
<1>5. PICK G \in Nat \ {0} : G = F * F
  BY SMT
<1>6. (v \div G) \div F = v \div (G * F)
  BY DivDiv
<1>7. Slot = G * F
  BY <1>1, <1>5 DEF Slot
<1>8. Top(0, v) = ((v \div Fan) \div Fan) \div Fan
  BY DEF Top
<1> QED
  BY <1>1, <1>2, <1>3, <1>4, <1>5, <1>6, <1>7, <1>8 DEF Index

\* The lower half is where the user's pages are.
LEMMA Halves ==
    ASSUME NEW v \in Nat, NEW n \in Nat
    PROVE  v \div Slot < n <=> v < n * Slot
<1>1. PICK S \in Nat \ {0} : S = Slot
  BY FanFacts
<1>2. PICK q \in Nat : q = v \div S /\ q * S <= v /\ v < (q + 1) * S
  BY DivBounds
<1>3. ASSUME q < n PROVE v < n * S
  <2>1. q + 1 <= n /\ q + 1 \in Nat
    BY <1>3
  <2>2. (q + 1) * S <= n * S
    BY <2>1, MulMono
  <2>3. (q + 1) * S \in Nat /\ n * S \in Nat
    BY SMT
  <2> QED
    BY <1>2, <2>2, <2>3
<1>4. ASSUME ~(q < n) PROVE ~(v < n * S)
  <2>1. n <= q
    BY <1>4
  <2>2. n * S <= q * S
    BY <2>1, MulMono
  <2>3. n * S \in Nat /\ q * S \in Nat
    BY SMT
  <2> QED
    BY <1>2, <2>2, <2>3
<1> QED
  BY <1>1, <1>2, <1>3, <1>4

LEMMA OwnPages ==
    ASSUME NEW m \in Maps, NEW v \in Nat
    PROVE  Own(m, 0, v) <=> v < (IF m = Kernel THEN AddressSpace ELSE HhdmBase)
<1>1. Own(m, 0, v) <=> v \div Slot < (IF m = Kernel THEN Fan ELSE UserSlots)
  BY Digits DEF Own
<1>2. Fan \in Nat /\ UserSlots \in Nat
  BY FanFacts
<1> QED
  BY <1>1, <1>2, Halves DEF AddressSpace, HhdmBase

LEMMA Stopped ==
    ASSUME NEW s, NEW i, NEW f, s.stop # "no"
    PROVE  get_next_table(s, i, f) = s
  BY DEF get_next_table

\* The map m is to get a page at v.
Mapping(s, root, m, v, f) ==
    /\ Good(s, root) /\ s.stop = "no"
    /\ m \in Maps /\ root[m] # NONE /\ v \in Nat /\ Own(m, 0, v)
    /\ f \in SUBSET {"user", "xd"}
    /\ m = Kernel => At(s.ent, root[m], 3, v \div Slot) >= 0 \/ NoPrograms(root)

LEMMA Descend ==
    ASSUME NEW s, NEW root, NEW m, NEW v, NEW f, Mapping(s, root, m, v, f),
           NEW t, t = Lvl1Table(s, root[m], v, f)
    PROVE  /\ Deeper(s, t, root, m, f)
           /\ t.stop = "no" => t.at = At(t.ent, root[m], 1, v \div Fan) /\ t.at >= 0
<1>1. /\ Good(s, root) /\ s.stop = "no"
      /\ m \in Maps /\ root[m] # NONE /\ v \in Nat /\ Own(m, 0, v)
      /\ f \in SUBSET {"user", "xd"}
      /\ m = Kernel => At(s.ent, root[m], 3, v \div Slot) >= 0 \/ NoPrograms(root)
  BY DEF Mapping
<1> DEFINE v1 == v \div Fan
           v2 == v1 \div Fan
           v3 == v2 \div Fan
           s0 == [s EXCEPT !.at = root[m]]
           t3 == Lvl3Table(s, root[m], v, f)
           t2 == Lvl2Table(s, root[m], v, f)
<1>2. /\ v1 \in Nat /\ v2 \in Nat /\ v3 \in Nat
      /\ Own(m, 1, v1) /\ Own(m, 2, v2) /\ Own(m, 3, v3)
  <2>1. v1 \in Nat /\ v2 \in Nat /\ v3 \in Nat
    BY <1>1, Up
  <2>2. Own(m, 1, v1)
    BY <1>1, OwnUp
  <2> HIDE DEF v1, v2, v3
  <2>3. Own(m, 2, v1 \div Fan)
    BY <1>1, <2>1, <2>2, OwnUp
  <2>4. Own(m, 2, v2)
    BY <2>3 DEF v2
  <2>5. Own(m, 3, v2 \div Fan)
    BY <1>1, <2>1, <2>4, OwnUp
  <2> QED
    BY <2>1, <2>2, <2>4, <2>5 DEF v3
<1>3. Index(v, 4) = v3 % Fan /\ Index(v, 3) = v2 % Fan /\ Index(v, 2) = v1 % Fan /\ v3 = v \div Slot
  BY <1>1, Digits DEF Top
<1>4. s \in Mems /\ Forest(s.ent, ToSet(s.free), root) /\ root[m] \in Phys /\ root[m] >= 0 /\ root[m] \in Int
  <2>1. s \in Mems /\ Forest(s.ent, ToSet(s.free), root)
    BY <1>1 DEF Good
  <2>2. root[m] \in Phys
    BY <1>1, <2>1 DEF Forest
  <2> QED
    BY <2>1, <2>2, ValsAreInts
<1>5. /\ s0 \in Mems /\ s0.free = s.free /\ s0.ent = s.ent /\ s0.stale = s.stale
      /\ s0.flags = s.flags /\ s0.nodes = s.nodes /\ s0.at = root[m] /\ s0.stop = "no"
  BY <1>1, <1>4 DEF Mems
<1>6. /\ t3 = get_next_table(s0, v3 % Fan, f)
      /\ t2 = get_next_table(t3, v2 % Fan, f)
      /\ t = get_next_table(t2, v1 % Fan, f)
  BY <1>3 DEF Lvl3Table, Lvl2Table, Lvl1Table
<1> HIDE DEF v1, v2, v3, s0, t3, t2
<1>7. Deeper(s, s0, root, m, f)
  BY <1>1, <1>5, DeeperSame
<1>8. Walking(s0, root, m, 3, v3, f)
  <2>1. s0.at = At(s0.ent, root[m], 3 + 1, v3 \div Fan)
    BY <1>5 DEF At
  <2>2. Good(s0, root)
    BY <1>7 DEF Deeper
  <2>3. m = Kernel => At(s0.ent, root[m], 3, v3) >= 0 \/ NoPrograms(root)
    BY <1>1, <1>3, <1>5
  <2> QED
    BY <1>1, <1>2, <1>4, <1>5, <2>1, <2>2, <2>3 DEF Walking
<1>9. /\ Deeper(s0, t3, root, m, f)
      /\ t3.stop = "no" => t3.at = At(t3.ent, root[m], 3, v3) /\ t3.at >= 0
  BY <1>6, <1>8, NextTable
<1>10. Deeper(s, t3, root, m, f)
  BY <1>7, <1>9, DeeperTrans
<1>11. /\ Deeper(s, t2, root, m, f)
       /\ t2.stop = "no" => t2.at = At(t2.ent, root[m], 2, v2) /\ t2.at >= 0
  <2>1. CASE t3.stop # "no"
    <3>1. t2 = t3
      BY <1>6, <2>1, Stopped
    <3> QED
      BY <1>10, <2>1, <3>1
  <2>2. CASE t3.stop = "no"
    <3>1. Walking(t3, root, m, 2, v2, f)
      <4>1. Good(t3, root)
        BY <1>9 DEF Deeper
      <4>2. t3.at = At(t3.ent, root[m], 2 + 1, v2 \div Fan)
        BY <1>9, <2>2 DEF v3
      <4> QED
        BY <1>1, <1>2, <1>9, <2>2, <4>1, <4>2 DEF Walking
    <3>2. /\ Deeper(t3, t2, root, m, f)
          /\ t2.stop = "no" => t2.at = At(t2.ent, root[m], 2, v2) /\ t2.at >= 0
      BY <1>6, <3>1, NextTable
    <3> QED
      BY <1>10, <3>2, DeeperTrans
  <2> QED
    BY <2>1, <2>2
<1>12. /\ Deeper(s, t, root, m, f)
       /\ t.stop = "no" => t.at = At(t.ent, root[m], 1, v1) /\ t.at >= 0
  <2>1. CASE t2.stop # "no"
    <3>1. t = t2
      BY <1>6, <2>1, Stopped
    <3> QED
      BY <1>11, <2>1, <3>1
  <2>2. CASE t2.stop = "no"
    <3>1. Walking(t2, root, m, 1, v1, f)
      <4>1. Good(t2, root)
        BY <1>11 DEF Deeper
      <4>2. t2.at = At(t2.ent, root[m], 1 + 1, v1 \div Fan)
        BY <1>11, <2>2 DEF v2
      <4> QED
        BY <1>1, <1>2, <1>11, <2>2, <4>1, <4>2 DEF Walking
    <3>2. /\ Deeper(t2, t, root, m, f)
          /\ t.stop = "no" => t.at = At(t.ent, root[m], 1, v1) /\ t.at >= 0
      BY <1>6, <3>1, NextTable
    <3> QED
      BY <1>11, <3>2, DeeperTrans
  <2> QED
    BY <2>1, <2>2
<1> QED
  BY <1>12 DEF v1

LEMMA GrownMore ==
    ASSUME NEW s, NEW t, NEW root, NEW m, NEW R, NEW R2, NEW f, Grown(s, t, root, m, R, f),
           R \subseteq R2
    PROVE  Grown(s, t, root, m, R2, f)
  BY DEF Grown

\* The memory after map: m has p at v, unless there was no memory for a table.
Mapped(s, t, root, m, R, f) ==
    /\ Good(t, root)
    /\ Grown(s, t, root, m, R, f)
    /\ ToSet(t.free) \subseteq ToSet(s.free)
    /\ t.stop = "no" => s.stop = "no" /\ \A v \in R : At(t.ent, root[m], 0, v) >= 0

\* A page goes to a place for one, or an address of the HHDM or the image to a
\* page that is not mapped, or mapped so already.
Fits(s, root, m, v, p) ==
    /\ p \in Frames
    /\ IF Managed(m, 0, v) THEN Nowhere(s, root, p)
       ELSE At(s.ent, root[m], 0, v) < 0 \/ At(s.ent, root[m], 0, v) = p

LEMMA MapIs ==
    ASSUME NEW s, NEW root, NEW m, NEW v, NEW f, Mapping(s, root, m, v, f),
           NEW p, Fits(s, root, m, v, p), NEW t, t = map(s, root[m], v, p, f)
    PROVE  /\ Mapped(s, t, root, m, {v}, f)
           /\ At(t.ent, root[m], 0, v) \in {At(s.ent, root[m], 0, v), p}
<1> DEFINE w == Lvl1Table(s, root[m], v, f)
           i == v % Fan
           old == At(w.ent, root[m], 0, v)
           st == IF old < 0 \/ old = p THEN w.stale ELSE w.stale \cup {<<v, old>>}
           ent2 == [w.ent EXCEPT ![w.at] = [@ EXCEPT ![i] = p]]
           fl2 == [w.flags EXCEPT ![w.at] = [@ EXCEPT ![i] = f]]
           t2 == [w EXCEPT !.ent = ent2, !.flags = fl2, !.stale = st]
<1>1. /\ Good(s, root) /\ s.stop = "no"
      /\ m \in Maps /\ root[m] # NONE /\ v \in Nat /\ Own(m, 0, v)
      /\ f \in SUBSET {"user", "xd"}
  BY DEF Mapping
<1>2. /\ Deeper(s, w, root, m, f)
      /\ w.stop = "no" => w.at = At(w.ent, root[m], 1, v \div Fan) /\ w.at >= 0
  BY Descend
<1>3. /\ Good(w, root) /\ Grown(s, w, root, m, {}, f) /\ w.nodes = s.nodes
      /\ ToSet(w.free) \subseteq ToSet(s.free)
      /\ \A q : Nowhere(s, root, q) => Nowhere(w, root, q)
  BY <1>2 DEF Deeper
<1>4. w \in Mems /\ IsInjective(w.free) /\ Forest(w.ent, ToSet(w.free), root) /\ StaleOut(w, root)
  BY <1>3 DEF Good
<1>5. CASE w.stop # "no"
  <2>1. t = w
    BY <1>5 DEF map
  <2>2. Grown(s, w, root, m, {v}, f)
    BY <1>3, GrownMore
  <2>3. SameAt(s, w, root, m, 0, v)
    BY <1>1, <1>3 DEF Grown
  <2>4. At(t.ent, root[m], 0, v) = At(s.ent, root[m], 0, v)
    BY <2>1, <2>3 DEF SameAt
  <2> QED
    BY <1>3, <1>5, <2>1, <2>2, <2>4 DEF Mapped
<1>6. CASE w.stop = "no"
  <2>1. /\ w.at = At(w.ent, root[m], 0 + 1, v \div Fan) /\ w.at >= 0
        /\ Own(m, 1, v \div Fan) /\ Managed(m, 1, v \div Fan)
        /\ v \div Fan \in Nat /\ i \in 0..(Fan - 1)
    BY <1>1, <1>2, <1>6, OwnUp, Up
  <2>2. w.at \in Phys \ ToSet(w.free) /\ w.at \in Nat
    <3>1. 0 + 1 = 1
      OBVIOUS
    <3> QED
      BY <1>1, <1>4, <2>1, <3>1, ValsAreInts DEF Forest
  <2>3. old = w.ent[w.at][i]
    <3>1. 0 \in 0..3
      OBVIOUS
    <3>2. At(w.ent, root[m], 0, v) = get_next_table_unmap(w.ent, At(w.ent, root[m], 0 + 1, v \div Fan), v % Fan)
      BY <3>1, AtStep, Zenon
    <3> QED
      BY <2>1, <2>2, <3>2 DEF get_next_table_unmap
  <2>4. old \in Int /\ old \in Vals
    <3>1. w.ent \in Rows
      BY <1>4 DEF Forest
    <3> HIDE DEF w, i
    <3>2. w.ent[w.at][i] \in Vals
      BY <2>1, <2>2, <3>1 DEF Rows
    <3> HIDE DEF old
    <3> QED
      BY <2>3, <3>2, ValsAreInts
  <2>5. old >= 0 /\ old # p => Managed(m, 0, v)
    <3> SUFFICES ASSUME old >= 0, old # p, ~Managed(m, 0, v) PROVE FALSE
      OBVIOUS
    <3>1. At(s.ent, root[m], 0, v) < 0 \/ At(s.ent, root[m], 0, v) = p
      BY DEF Fits
    <3>2. SameAt(s, w, root, m, 0, v)
      BY <1>1, <1>3 DEF Grown
    <3>3. old < 0
      BY <3>1, <3>2 DEF SameAt
    <3> HIDE DEF old
    <3> QED
      BY <2>4, <3>3
  <2>6. p \in Frames /\ p \in Vals /\ p >= 0 /\ p \in Nat
    <3>1. p \in Frames
      BY DEF Fits
    <3>2. PICK y \in Nat : y = p
      BY <3>1, FanFacts
    <3> QED
      BY <3>1, <3>2 DEF Vals
  <2>7. t = t2
    <3>1. Index(v, 1) = i
      BY <1>1, Digits
    <3>2. t = [w EXCEPT !.ent[w.at][i] = p, !.flags[w.at][i] = f,
                        !.stale = IF w.ent[w.at][i] < 0 \/ w.ent[w.at][i] = p THEN @ ELSE @ \cup {<<v, w.ent[w.at][i]>>}]
      BY <1>6, <3>1 DEF map
    <3> HIDE DEF w, i, old
    <3> QED
      BY <1>4, <2>3, <3>2 DEF Mems
  <2> HIDE DEF w, i, old
  <2>8. Written(w.ent, ent2, w.at, i, p, FALSE) /\ FlagsWritten(w.flags, fl2, w.at, i, f, p, FALSE)
    BY DEF Written, FlagsWritten
  <2>9. ent2 \in Rows
    <3>1. w.ent \in Rows
      BY <1>4 DEF Forest
    <3>2. RowsAre(w.ent, ent2, w.at, i, p, FALSE)
      <4> HIDE DEF ent2
      <4> QED
        BY <2>1, <2>2, <2>6, <2>8, <3>1, RowsWritten
    <3> QED
      BY <3>2 DEF RowsAre
  <2>10. fl2 \in FlagRows
    <3>1. w.flags \in FlagRows
      BY <1>4 DEF Mems
    <3>2. FlagsAre(w.flags, fl2, w.at, i, f, p, FALSE)
      <4> HIDE DEF fl2
      <4> QED
        BY <1>1, <2>1, <2>2, <2>8, <3>1, FlagsRight
    <3> QED
      BY <3>2 DEF FlagsAre
  <2>11. st \in SUBSET (Virt \X Frames)
    <3>1. v \in Virt
      <4>1. v < (IF m = Kernel THEN AddressSpace ELSE HhdmBase)
        BY <1>1, OwnPages
      <4> QED
        BY <1>1, <4>1, Layout DEF Virt
    <3>2. old >= 0 => old \in Frames
      BY <2>4 DEF Vals, NONE, WILD
    <3>3. w.stale \in SUBSET (Virt \X Frames)
      BY <1>4 DEF Mems
    <3> QED
      BY <2>4, <3>1, <3>2, <3>3
  <2> HIDE DEF ent2, fl2, st
  <2>12. /\ t \in Mems /\ t.free = w.free /\ t.ent = ent2 /\ t.flags = fl2
         /\ t.stale = st /\ t.nodes = w.nodes /\ t.stop = w.stop
    BY <1>4, <2>7, <2>9, <2>10, <2>11 DEF Mems
  <2>13. Managed(m, 0, v) => Nowhere(w, root, p)
    BY <1>3 DEF Fits
  <2>14. Good(t, root) /\ Wrote(w, t, root, m, 0, v, p, f)
    <3>1. OnlyHere(w.ent, ToSet(t.free), root, m, 0, v)
      BY <1>3, <2>12, NotElsewhere
    <3>2. Managed(m, 0, v) => OnlyHere(w.ent, {p}, root, m, 0, v)
      BY <1>3, <2>13, NotElsewhere
    <3>3. ASSUME old >= 0, old # p
          PROVE  /\ old \notin ToSet(w.free) /\ old \in Phys
                 /\ OnlyHere(w.ent, {old}, root, m, 0, v)
      <4>1. Managed(m, 0, v) /\ old = At(w.ent, root[m], 0, v)
        BY <2>5, <3>3 DEF old
      <4>2. old \in Phys \ ToSet(w.free)
        BY <1>1, <1>4, <3>3, <4>1 DEF Forest
      <4>3. ASSUME NEW n \in Maps, NEW l \in 0..4, NEW b \in Nat,
                   Managed(n, l, b), At(w.ent, root[n], l, b) = old
            PROVE  n = m /\ l = 0 /\ b = v
        <5>1. 0 \in 0..4
          OBVIOUS
        <5> QED
          BY <1>1, <1>4, <3>3, <4>1, <4>3, <5>1 DEF Forest
      <4> QED
        BY <4>2, <4>3 DEF OnlyHere
    <3>4. \A x \in t.stale : x[2] \notin ToSet(t.free) /\ (Managed(m, 0, v) => x[2] # p)
      <4> SUFFICES ASSUME NEW x \in t.stale
                   PROVE  x[2] \notin ToSet(w.free) /\ (Managed(m, 0, v) => x[2] # p)
        BY <2>12
      <4>1. CASE x \in w.stale
        BY <1>4, <2>13, <4>1 DEF StaleOut, Nowhere
      <4>2. CASE x \notin w.stale
        <5>1. x = <<v, old>> /\ old >= 0 /\ old # p
          BY <2>4, <2>12, <4>2 DEF st
        <5>2. Managed(m, 0, v) => old # p
          BY <1>1, <2>13 DEF Nowhere, old
        <5> QED
          BY <3>3, <5>1, <5>2
      <4> QED
        BY <4>1, <4>2
    <3>5. OnlyHere(w.ent, {x[2] : x \in t.stale}, root, m, 0, v)
      <4> SUFFICES ASSUME NEW x \in t.stale, NEW n \in Maps, NEW l \in 0..4, NEW b \in Nat,
                          Managed(n, l, b), ~(n = m /\ l = 0 /\ b = v),
                          At(w.ent, root[n], l, b) >= 0
                   PROVE  At(w.ent, root[n], l, b) # x[2]
        BY DEF OnlyHere
      <4>1. CASE x \in w.stale
        BY <1>4, <4>1 DEF StaleOut
      <4>2. CASE x \notin w.stale
        <5>1. x = <<v, old>> /\ old >= 0 /\ old # p
          BY <2>4, <2>12, <4>2 DEF st
        <5> QED
          BY <3>3, <5>1 DEF OnlyHere
      <4> QED
        BY <4>1, <4>2
    <3>6. /\ Written(w.ent, t.ent, w.at, v % Fan, p, FALSE)
          /\ FlagsWritten(w.flags, t.flags, w.at, v % Fan, f, p, FALSE)
      BY <2>8, <2>12 DEF i
    <3>7. Managed(m, 0, v) => p \in Phys \ ToSet(t.free)
      BY <2>12, <2>13 DEF Nowhere
    <3>8. Writing(w.ent, t.ent, ToSet(w.free), root, m, 0, v, w.at, p, FALSE)
      <4>1. 0 \in 0..3 /\ 0 # 3 /\ FALSE \in BOOLEAN /\ FALSE # TRUE
        OBVIOUS
      <4> QED
        BY <1>1, <1>4, <2>1, <2>6, <3>6, <4>1 DEF Writing
    <3>9. Putting(w, t, root, m, 0, v, w.at, p, f, FALSE)
      BY <1>1, <1>3, <1>4, <2>12, <3>1, <3>2, <3>4, <3>5, <3>6, <3>7, <3>8 DEF Putting
    <3> QED
      BY <3>9, Put
  <2>15. Grown(w, t, root, m, {v}, f)
    <3> SUFFICES ASSUME NEW n \in Maps, NEW l \in 0..4, NEW b \in Nat, Own(n, l, b)
                 PROVE  \/ SameAt(w, t, root, n, l, b)
                        \/ /\ n = m /\ At(t.ent, root[n], l, b) >= 0 /\ Fl(t, root, n, l, b) = f
                           /\ IF l = 0 THEN b \in {v} ELSE At(w.ent, root[n], l, b) < 0
      BY DEF Grown
    <3>1. CASE n = m /\ l = 0 /\ b = v
      BY <2>6, <2>14, <3>1 DEF Wrote
    <3>2. CASE ~(n = m /\ l = 0 /\ b = v)
      BY <2>14, <3>2 DEF Wrote, OthersSame
    <3> QED
      BY <3>1, <3>2
  <2>16. Grown(s, t, root, m, {v}, f)
    <3>1. Grown(s, t, root, m, {} \cup {v}, f)
      BY <1>3, <1>4, <2>15, GrownTrans
    <3>2. {} \cup {v} = {v}
      OBVIOUS
    <3> QED
      BY <3>1, <3>2
  <2> QED
    BY <1>1, <1>3, <2>6, <2>12, <2>14, <2>16 DEF Mapped, Wrote
<1> QED
  BY <1>5, <1>6

LEMMA KeepsPresent ==
    ASSUME NEW s, NEW t, NEW root, NEW m, NEW R, NEW f, Grown(s, t, root, m, R, f),
           NEW n \in Maps, NEW l \in 0..4, NEW b \in Nat, Own(n, l, b),
           At(s.ent, root[n], l, b) >= 0
    PROVE  At(t.ent, root[n], l, b) >= 0
  BY DEF Grown, SameAt

LEMMA MappedTrans ==
    ASSUME NEW s, NEW t, NEW w, NEW root, NEW m \in Maps, NEW R1, NEW R2, NEW f,
           \A v \in R1 : v \in Nat /\ Own(m, 0, v),
           Mapped(s, t, root, m, R1, f), Mapped(t, w, root, m, R2, f)
    PROVE  Mapped(s, w, root, m, R1 \cup R2, f)
<1>1. Forest(t.ent, ToSet(t.free), root) /\ Grown(s, t, root, m, R1, f) /\ Grown(t, w, root, m, R2, f)
  BY DEF Mapped, Good
<1>2. Grown(s, w, root, m, R1 \cup R2, f)
  BY <1>1, GrownTrans
<1>3. ASSUME w.stop = "no", NEW v \in R1 \cup R2 PROVE At(w.ent, root[m], 0, v) >= 0
  <2>1. CASE v \in R2
    BY <1>3, <2>1 DEF Mapped
  <2>2. CASE v \in R1
    <3>1. At(t.ent, root[m], 0, v) >= 0 /\ 0 \in 0..4
      BY <1>3, <2>2 DEF Mapped
    <3> QED
      BY <1>1, <2>2, <3>1, KeepsPresent
  <2> QED
    BY <1>3, <2>1, <2>2
<1> QED
  BY <1>2, <1>3 DEF Mapped

\* The map m can get a page at v, once the memory is there.
Ready(s, root, m, v, f) ==
    /\ Good(s, root)
    /\ m \in Maps /\ root[m] # NONE /\ v \in Nat /\ Managed(m, 0, v)
    /\ f \in SUBSET {"user", "xd"}
    /\ m = Kernel => At(s.ent, root[m], 3, v \div Slot) >= 0

\* A page that is taken off the free list is nowhere.
LEMMA Taken ==
    ASSUME NEW s, NEW root, Good(s, root), s.free # <<>>,
           NEW t, t = [s EXCEPT !.free = Tail(@)]
    PROVE  /\ Good(t, root) /\ Nowhere(t, root, Head(s.free))
           /\ t.ent = s.ent /\ t.flags = s.flags /\ t.nodes = s.nodes /\ t.stop = s.stop
           /\ t.stale = s.stale /\ t.free = Tail(s.free) /\ Head(s.free) \in Phys
           /\ ToSet(t.free) = ToSet(s.free) \ {Head(s.free)}
           /\ \A p : Nowhere(s, root, p) => Nowhere(t, root, p)
<1> DEFINE q == Head(s.free)
<1>1. s \in Mems /\ IsInjective(s.free) /\ Forest(s.ent, ToSet(s.free), root) /\ StaleOut(s, root)
  BY DEF Good
<1>2. /\ q \in Phys /\ q \in ToSet(s.free) /\ Tail(s.free) \in Seq(Phys)
      /\ IsInjective(Tail(s.free)) /\ ToSet(Tail(s.free)) = ToSet(s.free) \ {q}
  <2>1. s.free \in Seq(Phys)
    BY <1>1 DEF Mems
  <2> QED
    BY <1>1, <2>1, TailInjective
<1> HIDE DEF q
<1>3. /\ t \in Mems /\ t.free = Tail(s.free) /\ t.ent = s.ent /\ t.flags = s.flags
      /\ t.nodes = s.nodes /\ t.stop = s.stop /\ t.stale = s.stale
  BY <1>1, <1>2 DEF Mems
<1>4. ToSet(t.free) = ToSet(s.free) \ {q}
  BY <1>2, <1>3
<1>5. Forest(t.ent, ToSet(t.free), root)
  BY <1>1, <1>3, <1>4 DEF Forest
<1>6. StaleOut(t, root)
  BY <1>1, <1>3, <1>4 DEF StaleOut
<1>7. Good(t, root)
  BY <1>2, <1>3, <1>5, <1>6 DEF Good
<1>8. Nowhere(t, root, q)
  <2>1. \A x \in t.stale : x[2] # q
    BY <1>1, <1>2, <1>3 DEF StaleOut
  <2>2. ASSUME NEW m \in Maps, NEW k \in 0..4, NEW a \in Nat, Managed(m, k, a),
               At(t.ent, root[m], k, a) = q
        PROVE FALSE
    <3>1. q >= 0
      BY <1>2, ValsAreInts
    <3> QED
      BY <1>1, <1>2, <1>3, <2>2, <3>1 DEF Forest
  <2> QED
    BY <1>2, <1>4, <2>1, <2>2 DEF Nowhere
<1>9. \A p : Nowhere(s, root, p) => Nowhere(t, root, p)
  BY <1>3, <1>4 DEF Nowhere
<1> QED
  BY <1>2, <1>3, <1>4, <1>7, <1>8, <1>9 DEF q

LEMMA MapFreshIs ==
    ASSUME NEW s, NEW root, NEW m, NEW v, NEW f, Ready(s, root, m, v, f),
           NEW t, t = MapFresh(s, root[m], v, f)
    PROVE  Mapped(s, t, root, m, {v}, f)
<1>1. /\ Good(s, root)
      /\ m \in Maps /\ root[m] # NONE /\ v \in Nat /\ Managed(m, 0, v) /\ Own(m, 0, v)
      /\ f \in SUBSET {"user", "xd"}
      /\ m = Kernel => At(s.ent, root[m], 3, v \div Slot) >= 0
  BY DEF Ready, Managed
<1>2. s \in Mems
  BY <1>1 DEF Good
<1>3. CASE s.stop # "no"
  <2>1. t = s
    BY <1>3 DEF MapFresh
  <2> QED
    BY <1>1, <1>3, <2>1, GrownSelf DEF Mapped
<1>4. CASE s.stop = "no" /\ s.free = <<>>
  <2>1. t = [s EXCEPT !.stop = "memory"]
    BY <1>4 DEF MapFresh
  <2>2. /\ t \in Mems /\ t.free = s.free /\ t.ent = s.ent /\ t.stale = s.stale
        /\ t.flags = s.flags /\ t.nodes = s.nodes /\ t.stop # "no"
    BY <1>2, <2>1 DEF Mems, Kinds
  <2>3. Good(t, root) /\ Grown(s, t, root, m, {v}, f)
    BY <1>1, <2>2, GoodSame, GrownSelf
  <2> QED
    BY <1>4, <2>2, <2>3 DEF Mapped
<1>5. CASE s.stop = "no" /\ s.free # <<>>
  <2> DEFINE w == [s EXCEPT !.free = Tail(@)]
             p == Head(s.free)
  <2>1. t = map(w, root[m], v, p, f)
    BY <1>5 DEF MapFresh
  <2>2. /\ Good(w, root) /\ Nowhere(w, root, p)
        /\ w.ent = s.ent /\ w.flags = s.flags /\ w.nodes = s.nodes /\ w.stop = s.stop
        /\ p \in Phys /\ ToSet(w.free) = ToSet(s.free) \ {p}
    BY <1>1, <1>5, Taken
  <2> HIDE DEF w, p
  <2>3. Mapping(w, root, m, v, f)
    BY <1>1, <1>5, <2>2 DEF Mapping
  <2>4. Fits(w, root, m, v, p)
    BY <1>1, <2>2, FanFacts DEF Fits
  <2>5. Mapped(w, t, root, m, {v}, f)
    BY <2>1, <2>3, <2>4, MapIs
  <2>6. Grown(s, t, root, m, {v}, f)
    <3>1. Grown(s, w, root, m, {v}, f)
      BY <2>2, GrownSelf
    <3>2. Grown(w, t, root, m, {v}, f) /\ Forest(w.ent, ToSet(w.free), root)
      BY <2>2, <2>5 DEF Mapped, Good
    <3>3. Grown(s, t, root, m, {v} \cup {v}, f)
      BY <3>1, <3>2, GrownTrans
    <3>4. {v} \cup {v} = {v}
      OBVIOUS
    <3> QED
      BY <3>3, <3>4
  <2> QED
    BY <1>5, <2>2, <2>5, <2>6 DEF Mapped
<1> QED
  BY <1>3, <1>4, <1>5

\* The turns of mmap_range.
LEMMA RangeTurns ==
    ASSUME NEW s, NEW root, NEW base, NEW f, NEW n \in Nat
    PROVE  \E g : /\ g[0] = s
                  /\ \A k \in 1..n : g[k] = MapFresh(g[k - 1], root, (base + Offset(k - 1)) % AddressSpace, f)
                  /\ mmap_range(s, root, base, n, f) = g[n]
<1> DEFINE step(x, k) == MapFresh(x, root, (base + Offset(k - 1)) % AddressSpace, f)
           Turns(g, j) == g = [k \in 0..j |-> IF k = 0 THEN s ELSE step(g[k - 1], k)]
           S == {j \in Nat : \E g : Turns(g, j)}
<1>1. mmap_range(s, root, base, n, f) = (CHOOSE g : Turns(g, n))[n]
  BY DEF mmap_range
<1> HIDE DEF step
<1>2. 0 \in S
  <2> DEFINE g == [k \in 0..0 |-> s]
  <2>1. Turns(g, 0)
    OBVIOUS
  <2> HIDE DEF Turns
  <2> QED
    BY <2>1
<1>3. ASSUME NEW j \in Nat, j \in S PROVE j + 1 \in S
  <2>1. PICK g : Turns(g, j)
    BY <1>3
  <2> DEFINE h == [k \in 0..(j + 1) |-> IF k = j + 1 THEN step(g[j], j + 1) ELSE g[k]]
  <2>2. ASSUME NEW k \in 0..(j + 1)
        PROVE  h[k] = IF k = 0 THEN s ELSE step(h[k - 1], k)
    <3>1. CASE k = j + 1
      <4>1. k - 1 = j /\ j \in 0..(j + 1) /\ j # j + 1 /\ k # 0
        BY <3>1
      <4> QED
        BY <3>1, <4>1
    <3>2. CASE k # j + 1
      <4>1. k \in 0..j
        BY <3>2
      <4>2. h[k] = g[k] /\ g[k] = IF k = 0 THEN s ELSE step(g[k - 1], k)
        BY <2>1, <3>2, <4>1
      <4>3. k # 0 => k - 1 \in 0..(j + 1) /\ k - 1 # j + 1
        BY <4>1
      <4>4. k # 0 => h[k - 1] = g[k - 1]
        BY <4>3
      <4> QED
        BY <4>2, <4>4
    <3> QED
      BY <3>1, <3>2
  <2>3. Turns(h, j + 1)
    BY <2>2
  <2> HIDE DEF Turns, h
  <2> QED
    BY <2>3
<1> HIDE DEF S
<1>4. n \in S
  BY <1>2, <1>3, SetInduction
<1>5. \E g : Turns(g, n)
  BY <1>4 DEF S
<1> DEFINE g == CHOOSE x : Turns(x, n)
<1>6. Turns(g, n)
  <2> HIDE DEF Turns
  <2> QED
    BY <1>5, Zenon
<1> HIDE DEF g
<1>7. g[0] = s /\ \A k \in 1..n : g[k] = step(g[k - 1], k)
  BY <1>6
<1> QED
  BY <1>1, <1>7 DEF step, g

\* The map m can get pages at the n virtual pages from base on.
Ranging(s, root, m, base, n, f) ==
    /\ Good(s, root)
    /\ m \in Maps /\ root[m] # NONE /\ base \in Nat /\ n \in Nat /\ n <= OffsetPages
    /\ f \in SUBSET {"user", "xd"}
    /\ \A v \in base..(base + n - 1) :
          Managed(m, 0, v) /\ (m = Kernel => At(s.ent, root[m], 3, v \div Slot) >= 0)

LEMMA RangeIs ==
    ASSUME NEW s, NEW root, NEW m, NEW base, NEW n, NEW f, Ranging(s, root, m, base, n, f),
           NEW t, t = mmap_range(s, root[m], base, n, f)
    PROVE  Mapped(s, t, root, m, base..(base + n - 1), f)
<1>1. /\ Good(s, root)
      /\ m \in Maps /\ root[m] # NONE /\ base \in Nat /\ n \in Nat /\ n <= OffsetPages
      /\ f \in SUBSET {"user", "xd"}
  BY DEF Ranging
<1>2. \A v \in base..(base + n - 1) :
          Managed(m, 0, v) /\ (m = Kernel => At(s.ent, root[m], 3, v \div Slot) >= 0)
  BY DEF Ranging
<1>3. PICK g : /\ g[0] = s
               /\ \A k \in 1..n : g[k] = MapFresh(g[k - 1], root[m], (base + Offset(k - 1)) % AddressSpace, f)
               /\ mmap_range(s, root[m], base, n, f) = g[n]
  BY <1>1, RangeTurns
<1> DEFINE Done(k) == Mapped(s, g[k], root, m, base..(base + k - 1), f)
           S == {k \in Nat : k <= n => Done(k)}
<1>4. 0 \in S
  <2>1. Mapped(s, s, root, m, base..(base + 0 - 1), f)
    <3>1. \A v \in base..(base + 0 - 1) : FALSE
      BY <1>1
    <3>2. Grown(s, s, root, m, base..(base + 0 - 1), f)
      BY GrownSelf
    <3> QED
      BY <1>1, <3>1, <3>2 DEF Mapped
  <2> QED
    BY <1>3, <2>1
<1>5. ASSUME NEW k \in Nat, k \in S PROVE k + 1 \in S
  <2> SUFFICES ASSUME k + 1 <= n PROVE Done(k + 1)
    OBVIOUS
  <2> DEFINE v == base + k
             R == base..(base + k - 1)
  <2>1. k \in 0..n /\ k + 1 \in 1..n /\ (k + 1) - 1 = k /\ base + (k + 1) - 1 = v /\ v \in Nat
    BY <1>1
  <2>2. Done(k)
    <3> HIDE DEF Done
    <3> QED
      BY <1>1, <1>5, <2>1
  <2>4. v \in base..(base + n - 1) /\ R \subseteq base..(base + n - 1) /\ R \subseteq Nat
    BY <1>1
  <2>3. g[k + 1] = MapFresh(g[k], root[m], v, f)
    <3>1. Offset(k) = k
      BY <1>1, <2>1, IntBounds DEF Offset
    <3>2. v \in 0..(AddressSpace - 1)
      <4> HIDE DEF v
      <4>1. Managed(m, 0, v)
        BY <1>2, <2>4
      <4>2. v < (IF m = Kernel THEN AddressSpace ELSE HhdmBase)
        BY <1>1, <2>1, <4>1, OwnPages DEF Managed
      <4>3. HhdmBase <= AddressSpace /\ HhdmBase \in Nat /\ AddressSpace \in Nat
        BY Layout
      <4> QED
        BY <2>1, <4>2, <4>3
    <3>3. (base + Offset((k + 1) - 1)) % AddressSpace = v
      <4>1. base + Offset((k + 1) - 1) = v
        BY <2>1, <3>1
      <4>2. PICK A \in Nat \ {0} : A = AddressSpace
        BY Layout
      <4> HIDE DEF v
      <4>3. v % A = v
        BY <3>2, <4>2
      <4> QED
        BY <4>1, <4>2, <4>3
    <3>4. g[k + 1] = MapFresh(g[(k + 1) - 1], root[m], (base + Offset((k + 1) - 1)) % AddressSpace, f)
      BY <1>3, <2>1
    <3> HIDE DEF v
    <3> QED
      BY <2>1, <3>3, <3>4
  <2>5. R \cup {v} = base..(base + (k + 1) - 1)
    BY <1>1
  <2> HIDE DEF v, R
  <2>6. Mapped(s, g[k], root, m, R, f)
    BY <2>2 DEF R
  <2>7. Ready(g[k], root, m, v, f)
    <3>1. Managed(m, 0, v) /\ (m = Kernel => At(s.ent, root[m], 3, v \div Slot) >= 0)
      BY <1>2, <2>4
    <3>2. Good(g[k], root) /\ Grown(s, g[k], root, m, R, f)
      BY <2>6 DEF Mapped
    <3>3. ASSUME m = Kernel PROVE At(g[k].ent, root[m], 3, v \div Slot) >= 0
      <4>1. Own(m, 0, v)
        BY <3>1 DEF Managed
      <4>2. v \div Slot \in Nat
        <5>1. PICK z \in Nat \ {0} : z = Slot
          BY FanFacts
        <5>2. v \div z \in Nat
          BY <2>1, DivBounds
        <5> QED
          BY <5>1, <5>2
      <4>3. Own(m, 3, v \div Slot)
        BY <1>1, <2>1, <4>1, Digits DEF Own, Top
      <4> QED
        BY <1>1, <3>1, <3>2, <3>3, <4>2, <4>3, KeepsPresent
    <3> QED
      BY <1>1, <2>1, <3>1, <3>2, <3>3 DEF Ready
  <2>8. Mapped(g[k], g[k + 1], root, m, {v}, f)
    BY <2>3, <2>7, MapFreshIs
  <2>9. \A x \in R : x \in Nat /\ Own(m, 0, x)
    BY <1>2, <2>4 DEF Managed
  <2>10. Mapped(s, g[k + 1], root, m, R \cup {v}, f)
    BY <1>1, <2>6, <2>8, <2>9, MappedTrans
  <2> QED
    BY <2>5, <2>6, <2>8, <2>10
<1> HIDE DEF S
<1>6. n \in S
  BY <1>1, <1>4, <1>5, SetInduction
<1> QED
  BY <1>1, <1>3, <1>6 DEF S

\* With fewer free pages, and less in the TLB, all is as good.
LEMMA GoodLess ==
    ASSUME NEW s, NEW root, Good(s, root), NEW t \in Mems, t.ent = s.ent, IsInjective(t.free),
           ToSet(t.free) \subseteq ToSet(s.free), t.stale \subseteq s.stale
    PROVE  Good(t, root)
<1>1. Forest(s.ent, ToSet(s.free), root) /\ StaleOut(s, root)
  BY DEF Good
<1>2. Forest(t.ent, ToSet(t.free), root)
  BY <1>1 DEF Forest
<1>3. StaleOut(t, root)
  BY <1>1 DEF StaleOut
<1> QED
  BY <1>2, <1>3 DEF Good

\* kmalloc of a region object takes at most a page off the free list.
LEMMA NodeIs ==
    ASSUME NEW s, NEW root, Good(s, root), NEW t, t = Node(s), NEW m, NEW f
    PROVE  Mapped(s, t, root, m, {}, f)
<1>1. s \in Mems /\ s.nodes \in Nat /\ NodesPerSlab - 1 \in Nat
  <2>1. s \in Mems
    BY DEF Good
  <2>2. NodesPerSlab \in Nat \ {0}
    BY VmmAssumption
  <2> QED
    BY <2>1, <2>2 DEF Mems
<1>2. CASE s.nodes > 0
  <2>0. s.nodes - 1 \in Nat
    BY <1>1, <1>2
  <2>1. t = [s EXCEPT !.nodes = s.nodes - 1]
    BY <1>2 DEF Node
  <2>2. /\ t \in Mems /\ t.free = s.free /\ t.ent = s.ent /\ t.stale = s.stale
        /\ t.flags = s.flags /\ t.stop = s.stop
    BY <1>1, <2>0, <2>1 DEF Mems
  <2> QED
    BY <2>2, GoodSame, GrownSelf DEF Mapped
<1>3. CASE ~(s.nodes > 0) /\ s.free = <<>>
  <2>1. t = [s EXCEPT !.stop = "memory"]
    BY <1>3 DEF Node
  <2>2. /\ t \in Mems /\ t.free = s.free /\ t.ent = s.ent /\ t.stale = s.stale
        /\ t.flags = s.flags /\ t.stop # "no"
    BY <1>1, <2>1 DEF Mems, Kinds
  <2> QED
    BY <2>2, GoodSame, GrownSelf DEF Mapped
<1>4. CASE ~(s.nodes > 0) /\ s.free # <<>>
  <2> DEFINE w == [s EXCEPT !.free = Tail(@)]
  <2>1. t = [w EXCEPT !.nodes = NodesPerSlab - 1]
    BY <1>1, <1>4 DEF Node, Mems
  <2>2. /\ Good(w, root) /\ w.ent = s.ent /\ w.flags = s.flags /\ w.stop = s.stop
        /\ w.stale = s.stale /\ ToSet(w.free) = ToSet(s.free) \ {Head(s.free)}
    BY <1>4, Taken
  <2> HIDE DEF w
  <2>3. w \in Mems
    BY <2>2 DEF Good
  <2>4. /\ t \in Mems /\ t.free = w.free /\ t.ent = w.ent /\ t.stale = w.stale
        /\ t.flags = w.flags /\ t.stop = w.stop
    BY <1>1, <2>1, <2>3 DEF Mems
  <2>5. Good(t, root)
    BY <2>2, <2>4, GoodSame
  <2> QED
    BY <2>2, <2>4, <2>5, GrownSelf DEF Mapped
<1> QED
  BY <1>2, <1>3, <1>4

\* The turns of MapBoot.
LEMMA BootTurns ==
    ASSUME NEW s, NEW base, NEW p, NEW n \in Nat
    PROVE  \E g : /\ g[0] = s
                  /\ \A k \in 1..n : g[k] = map(g[k - 1], 1, base + k - 1, p + k - 1, KernelFlags)
                  /\ MapBoot(s, base, p, n) = g[n]
<1> DEFINE step(x, k) == map(x, 1, base + k - 1, p + k - 1, KernelFlags)
           Turns(g, j) == g = [k \in 0..j |-> IF k = 0 THEN s ELSE step(g[k - 1], k)]
           S == {j \in Nat : \E g : Turns(g, j)}
<1>1. MapBoot(s, base, p, n) = (CHOOSE g : Turns(g, n))[n]
  BY DEF MapBoot
<1> HIDE DEF step
<1>2. 0 \in S
  <2> DEFINE g == [k \in 0..0 |-> s]
  <2>1. Turns(g, 0)
    OBVIOUS
  <2> HIDE DEF Turns
  <2> QED
    BY <2>1
<1>3. ASSUME NEW j \in Nat, j \in S PROVE j + 1 \in S
  <2>1. PICK g : Turns(g, j)
    BY <1>3
  <2> DEFINE h == [k \in 0..(j + 1) |-> IF k = j + 1 THEN step(g[j], j + 1) ELSE g[k]]
  <2>2. ASSUME NEW k \in 0..(j + 1)
        PROVE  h[k] = IF k = 0 THEN s ELSE step(h[k - 1], k)
    <3>1. CASE k = j + 1
      <4>1. k - 1 = j /\ j \in 0..(j + 1) /\ j # j + 1 /\ k # 0
        BY <3>1
      <4> QED
        BY <3>1, <4>1
    <3>2. CASE k # j + 1
      <4>1. k \in 0..j
        BY <3>2
      <4>2. h[k] = g[k] /\ g[k] = IF k = 0 THEN s ELSE step(g[k - 1], k)
        BY <2>1, <3>2, <4>1
      <4>3. k # 0 => k - 1 \in 0..(j + 1) /\ k - 1 # j + 1
        BY <4>1
      <4>4. k # 0 => h[k - 1] = g[k - 1]
        BY <4>3
      <4> QED
        BY <4>2, <4>4
    <3> QED
      BY <3>1, <3>2
  <2>3. Turns(h, j + 1)
    BY <2>2
  <2> HIDE DEF Turns, h
  <2> QED
    BY <2>3
<1> HIDE DEF S
<1>4. n \in S
  BY <1>2, <1>3, SetInduction
<1>5. \E g : Turns(g, n)
  BY <1>4 DEF S
<1> DEFINE g == CHOOSE x : Turns(x, n)
<1>6. Turns(g, n)
  <2> HIDE DEF Turns
  <2> QED
    BY <1>5, Zenon
<1> HIDE DEF g
<1>7. g[0] = s /\ \A k \in 1..n : g[k] = step(g[k - 1], k)
  BY <1>6
<1> QED
  BY <1>1, <1>7 DEF step, g

\* No page of the n from base on is mapped to any but its frame, p for the first.
Right(s, root, base, p, n) ==
    \A v \in base..(base + n - 1) :
        \/ At(s.ent, root[Kernel], 0, v) < 0
        \/ At(s.ent, root[Kernel], 0, v) = p + (v - base)

\* The kernel's n virtual pages from base on, all of the HHDM or the image, get the
\* frames from p on, if they have not got them already.
Booting(s, root, base, p, n) ==
    /\ Good(s, root) /\ NoPrograms(root) /\ root[Kernel] = 1
    /\ base \in Nat /\ p \in Nat /\ n \in Nat
    /\ \A j \in 0..(n - 1) : p + j \in Frames
    /\ \A v \in base..(base + n - 1) : Own(Kernel, 0, v) /\ ~Managed(Kernel, 0, v)
    /\ Right(s, root, base, p, n)

LEMMA MapStopped ==
    ASSUME NEW s \in Mems, s.stop # "no", NEW r \in Int, NEW v, NEW p, NEW f
    PROVE  map(s, r, v, p, f) = [s EXCEPT !.at = r]
<1> DEFINE w == [s EXCEPT !.at = r]
<1>1. w.stop # "no"
  BY DEF Mems
<1>2. Lvl3Table(s, r, v, f) = w
  BY <1>1, Stopped DEF Lvl3Table
<1>3. Lvl2Table(s, r, v, f) = w
  BY <1>1, <1>2, Stopped DEF Lvl2Table
<1>4. Lvl1Table(s, r, v, f) = w
  BY <1>1, <1>3, Stopped DEF Lvl1Table
<1> HIDE DEF w
<1> QED
  BY <1>1, <1>4 DEF map, w

LEMMA BootIs ==
    ASSUME NEW s, NEW root, NEW base, NEW p, NEW n, Booting(s, root, base, p, n),
           NEW t, t = MapBoot(s, base, p, n)
    PROVE  Mapped(s, t, root, Kernel, base..(base + n - 1), {}) /\ Right(t, root, base, p, n)
<1>1. /\ Good(s, root) /\ NoPrograms(root) /\ root[Kernel] = 1
      /\ base \in Nat /\ p \in Nat /\ n \in Nat /\ Kernel \in Maps
  BY DEF Booting, Maps
<1>2. /\ \A j \in 0..(n - 1) : p + j \in Frames
      /\ \A v \in base..(base + n - 1) : Own(Kernel, 0, v) /\ ~Managed(Kernel, 0, v)
      /\ Right(s, root, base, p, n)
  BY DEF Booting
<1>3. PICK g : /\ g[0] = s
               /\ \A k \in 1..n : g[k] = map(g[k - 1], 1, base + k - 1, p + k - 1, KernelFlags)
               /\ MapBoot(s, base, p, n) = g[n]
  BY <1>1, BootTurns
<1> DEFINE Done(k) == /\ Mapped(s, g[k], root, Kernel, base..(base + k - 1), {})
                      /\ Right(g[k], root, base, p, n)
           S == {k \in Nat : k <= n => Done(k)}
<1>4. 0 \in S
  <2>1. Mapped(s, s, root, Kernel, base..(base + 0 - 1), {})
    <3>1. \A v \in base..(base + 0 - 1) : FALSE
      BY <1>1
    <3>2. Grown(s, s, root, Kernel, base..(base + 0 - 1), {})
      BY GrownSelf
    <3> QED
      BY <1>1, <3>1, <3>2 DEF Mapped
  <2> QED
    BY <1>2, <1>3, <2>1
<1>5. ASSUME NEW k \in Nat, k \in S PROVE k + 1 \in S
  <2> SUFFICES ASSUME k + 1 <= n PROVE Done(k + 1)
    OBVIOUS
  <2> DEFINE v == base + k
             R == base..(base + k - 1)
  <2>1. /\ k \in 0..n /\ k + 1 \in 1..n /\ (k + 1) - 1 = k /\ base + (k + 1) - 1 = v
        /\ v \in Nat /\ v \notin R /\ p + (k + 1) - 1 = p + k /\ k \in 0..(n - 1)
    BY <1>1
  <2>2. Done(k)
    <3> HIDE DEF Done
    <3> QED
      BY <1>1, <1>5, <2>1
  <2>3. g[k + 1] = map(g[k], 1, v, p + k, {})
    BY <1>3, <2>1 DEF KernelFlags
  <2>4. v \in base..(base + n - 1) /\ R \subseteq base..(base + n - 1) /\ R \subseteq Nat
    BY <1>1
  <2>5. R \cup {v} = base..(base + (k + 1) - 1)
    BY <1>1
  <2> HIDE DEF v, R
  <2>6. Mapped(s, g[k], root, Kernel, R, {}) /\ Right(g[k], root, base, p, n)
    BY <2>2 DEF R
  <2>a. Own(Kernel, 0, v) /\ ~Managed(Kernel, 0, v)
    BY <1>2, <2>4
  <2>c. At(g[k].ent, root[Kernel], 0, v) < 0 \/ At(g[k].ent, root[Kernel], 0, v) = p + k
    <3>1. p + (v - base) = p + k
      BY <1>1, <2>1
    <3> QED
      BY <2>4, <2>6, <3>1 DEF Right
  <2>b. p + k \in Frames
    BY <1>2, <2>1
  <2>7. Good(g[k], root) /\ Grown(s, g[k], root, Kernel, R, {}) /\ g[k] \in Mems
    BY <2>6 DEF Mapped, Good
  <2>8. /\ Mapped(g[k], g[k + 1], root, Kernel, {v}, {})
        /\ At(g[k + 1].ent, root[Kernel], 0, v) \in {At(g[k].ent, root[Kernel], 0, v), p + k}
    <3>1. CASE g[k].stop # "no"
      <4> DEFINE x == g[k]
                 y == g[k + 1]
      <4>0. x \in Mems /\ x.stop # "no" /\ y = map(x, 1, v, p + k, {}) /\ Good(x, root)
        BY <2>3, <2>7, <3>1
      <4> HIDE DEF x, y
      <4>1. y = [x EXCEPT !.at = 1]
        BY <4>0, MapStopped
      <4>2. /\ y \in Mems /\ y.free = x.free /\ y.ent = x.ent /\ y.stale = x.stale
            /\ y.flags = x.flags /\ y.stop = x.stop
        BY <4>0, <4>1 DEF Mems
      <4>3. Mapped(x, y, root, Kernel, {v}, {})
        BY <4>0, <4>2, GoodSame, GrownSelf DEF Mapped
      <4> QED
        BY <4>2, <4>3 DEF x, y
    <3>2. CASE g[k].stop = "no"
      <4>1. Mapping(g[k], root, Kernel, v, {})
        <5>1. root[Kernel] # NONE /\ {} \in SUBSET {"user", "xd"}
          BY <1>1 DEF NONE
        <5> QED
          BY <1>1, <2>1, <2>7, <2>a, <3>2, <5>1 DEF Mapping
      <4>2. Fits(g[k], root, Kernel, v, p + k)
        BY <2>a, <2>b, <2>c DEF Fits
      <4>3. g[k + 1] = map(g[k], root[Kernel], v, p + k, {})
        BY <1>1, <2>3
      <4> QED
        BY <4>1, <4>2, <4>3, MapIs
    <3> QED
      BY <3>1, <3>2
  <2>9. \A x \in R : x \in Nat /\ Own(Kernel, 0, x)
    BY <1>2, <2>4
  <2>10. Mapped(s, g[k + 1], root, Kernel, R \cup {v}, {})
    BY <1>1, <2>6, <2>8, <2>9, MappedTrans
  <2>11. Right(g[k + 1], root, base, p, n)
    <3> SUFFICES ASSUME NEW x \in base..(base + n - 1)
                 PROVE  \/ At(g[k + 1].ent, root[Kernel], 0, x) < 0
                        \/ At(g[k + 1].ent, root[Kernel], 0, x) = p + (x - base)
      BY DEF Right
    <3>1. CASE x = v
      <4>1. p + (x - base) = p + k
        BY <1>1, <2>1, <3>1 DEF v
      <4> QED
        BY <2>8, <2>c, <3>1, <4>1
    <3>2. CASE x # v
      <4>1. x \in Nat /\ Own(Kernel, 0, x)
        BY <1>1, <1>2
      <4>2. Grown(g[k], g[k + 1], root, Kernel, {v}, {})
        BY <2>8 DEF Mapped
      <4>3. SameAt(g[k], g[k + 1], root, Kernel, 0, x)
        BY <1>1, <3>2, <4>1, <4>2 DEF Grown
      <4>4. \/ At(g[k].ent, root[Kernel], 0, x) < 0
            \/ At(g[k].ent, root[Kernel], 0, x) = p + (x - base)
        BY <2>6 DEF Right
      <4> QED
        BY <4>3, <4>4 DEF SameAt
    <3> QED
      BY <3>1, <3>2
  <2> QED
    BY <2>5, <2>10, <2>11
<1> HIDE DEF S
<1>6. n \in S
  BY <1>1, <1>4, <1>5, SetInduction
<1> QED
  BY <1>1, <1>3, <1>6 DEF S
------------------------------------------------------------------------------
(* unmap.                                                                  *)

LEMMA WalkIs ==
    ASSUME NEW tab, NEW r, NEW v \in Nat
    PROVE  /\ Walk(tab, r, v) = At(tab, r, 1, v \div Fan)
           /\ virt_to_phys(tab, r, v) = At(tab, r, 0, v)
<1>1. /\ Index(v, 1) = v % Fan
      /\ Index(v, 2) = (v \div Fan) % Fan
      /\ Index(v, 3) = ((v \div Fan) \div Fan) % Fan
      /\ Index(v, 4) = (((v \div Fan) \div Fan) \div Fan) % Fan
  BY Digits
<1>2. Walk(tab, r, v) = At(tab, r, 1, v \div Fan)
  BY <1>1 DEF Walk, At
<1>3. virt_to_phys(tab, r, v) = At(tab, r, 0, v)
  BY <1>1 DEF virt_to_phys, Walk, At
<1> QED
  BY <1>2, <1>3

\* From s to t the kernel's pages R have gone, and nothing else has.
Unmapped(s, t, root, R) ==
    /\ Good(t, root)
    /\ \A n \in Maps, l \in 0..4, b \in Nat :
          Own(n, l, b) /\ ~(n = Kernel /\ l = 0 /\ b \in R) => SameAt(s, t, root, n, l, b)
    /\ \A v \in R : At(t.ent, root[Kernel], 0, v) = NONE
    /\ t.stop = s.stop

LEMMA UnmapAndFreeIs ==
    ASSUME NEW s, NEW root, Good(s, root), NEW v \in Nat, Managed(Kernel, 0, v),
           At(s.ent, root[Kernel], 0, v) >= 0,
           NEW t, t = UnmapAndFree(s, root[Kernel], v)
    PROVE  Unmapped(s, t, root, {v})
<1> DEFINE i == v % Fan
           p == At(s.ent, root[Kernel], 0, v)
           w == At(s.ent, root[Kernel], 1, v \div Fan)
           st == {x \in s.stale : x[1] # v}
           fr == <<p>> \o s.free
           ent2 == [s.ent EXCEPT ![w] = [@ EXCEPT ![i] = NONE]]
           fl2 == [s.flags EXCEPT ![w] = [@ EXCEPT ![i] = {}]]
<1>1. s \in Mems /\ IsInjective(s.free) /\ Forest(s.ent, ToSet(s.free), root) /\ StaleOut(s, root)
  BY DEF Good
<1>2. Kernel \in Maps /\ 0 \in 0..3 /\ 0 \in 0..4 /\ 1 \in 0..4 /\ Own(Kernel, 0, v)
  BY DEF Maps, Managed
<1>3. /\ Own(Kernel, 1, v \div Fan) /\ Managed(Kernel, 1, v \div Fan)
      /\ v \div Fan \in Nat /\ i \in 0..(Fan - 1)
  BY <1>2, OwnUp, Up
<1>4. p = get_next_table_unmap(s.ent, w, i)
  <2>1. At(s.ent, root[Kernel], 0, v) = get_next_table_unmap(s.ent, At(s.ent, root[Kernel], 0 + 1, v \div Fan), v % Fan)
    BY <1>2, AtStep, Zenon
  <2> QED
    BY <2>1
<1>5. w \in Int /\ p \in Int
  BY <1>2, <1>3, <1>1, AtType, ValsAreInts
<1>6. w >= 0
  <2> HIDE DEF w, p
  <2>1. p >= 0
    BY DEF p
  <2> QED
    BY <1>4, <1>5, <2>1 DEF get_next_table_unmap
<1>7. w \in Phys \ ToSet(s.free) /\ p \in Phys \ ToSet(s.free)
  <2>1. w \in Phys \ ToSet(s.free)
    BY <1>1, <1>2, <1>3, <1>6 DEF Forest
  <2>2. p \in Phys \ ToSet(s.free)
    BY <1>1, <1>2 DEF Forest
  <2> QED
    BY <2>1, <2>2
<1>8. t = [s EXCEPT !.free = fr, !.stale = st, !.flags = fl2, !.ent = ent2]
  <2>1. /\ Index(v, 1) = i /\ Walk(s.ent, root[Kernel], v) = w /\ virt_to_phys(s.ent, root[Kernel], v) = p
    BY Digits, WalkIs
  <2>2. ~(w < 0) /\ ~(p < 0)
    <3> HIDE DEF w
    <3>1. ~(p < 0)
      <4>1. p >= 0
        OBVIOUS
      <4> HIDE DEF p
      <4> QED
        BY <1>5, <4>1
    <3> QED
      BY <1>5, <1>6, <3>1
  <2> HIDE DEF w, p, i
  <2>3. t = [s EXCEPT !.free = <<p>> \o s.free, !.stale = {x \in s.stale : w < 0 \/ x[1] # v},
                      !.flags = [s.flags EXCEPT ![w][i] = {}],
                      !.ent = [s.ent EXCEPT ![w][i] = NONE]]
    BY <1>1, <2>1, <2>2 DEF UnmapAndFree, Mems
  <2>4. {x \in s.stale : w < 0 \/ x[1] # v} = st
    BY <2>2
  <2> QED
    BY <2>3, <2>4
<1>9. fr \in Seq(Phys) /\ IsInjective(fr) /\ ToSet(fr) = {p} \cup ToSet(s.free)
  <2>1. s.free \in Seq(Phys)
    BY <1>1 DEF Mems
  <2> HIDE DEF p
  <2>2. <<p>> \in Seq(Phys) /\ IsInjective(<<p>>) /\ ToSet(<<p>>) = {p}
    BY <1>7, Singleton
  <2> DEFINE one == <<p>>
             rest == s.free
  <2>3. /\ one \in Seq(Phys) /\ rest \in Seq(Phys) /\ IsInjective(one) /\ IsInjective(rest)
        /\ ToSet(one) \cap ToSet(rest) = {}
    BY <1>1, <1>7, <2>1, <2>2
  <2> HIDE DEF one, rest
  <2>4. /\ one \o rest \in Seq(Phys) /\ IsInjective(one \o rest)
        /\ ToSet(one \o rest) = ToSet(one) \cup ToSet(rest)
    BY <2>3, ConcatInjective
  <2> QED
    BY <2>2, <2>4 DEF one, rest
<1>10. st \subseteq s.stale /\ st \in SUBSET (Virt \X Frames)
  BY <1>1 DEF Mems
<1> HIDE DEF i, p, w, fr, st
<1>11. /\ Written(s.ent, ent2, w, i, NONE, FALSE) /\ FlagsWritten(s.flags, fl2, w, i, {}, NONE, FALSE)
  BY DEF Written, FlagsWritten
<1> HIDE DEF ent2, fl2
<1>12. ent2 \in Rows
  <2>1. s.ent \in Rows /\ NONE \in Vals
    BY <1>1 DEF Forest, Vals
  <2>2. RowsAre(s.ent, ent2, w, i, NONE, FALSE)
    BY <1>3, <1>7, <1>11, <2>1, RowsWritten
  <2> QED
    BY <2>2 DEF RowsAre
<1>13. fl2 \in FlagRows
  <2>1. s.flags \in FlagRows /\ {} \in SUBSET {"user", "xd"}
    BY <1>1 DEF Mems
  <2>2. FlagsAre(s.flags, fl2, w, i, {}, NONE, FALSE)
    BY <1>3, <1>7, <1>11, <2>1, FlagsRight
  <2> QED
    BY <2>2 DEF FlagsAre
<1>14. /\ t \in Mems /\ t.free = fr /\ t.ent = ent2 /\ t.flags = fl2 /\ t.stale = st
       /\ t.nodes = s.nodes /\ t.stop = s.stop
  BY <1>1, <1>8, <1>9, <1>10, <1>12, <1>13 DEF Mems
<1>15. Good(t, root) /\ Wrote(s, t, root, Kernel, 0, v, NONE, {})
  <2>1. OnlyHere(s.ent, ToSet(t.free), root, Kernel, 0, v)
    <3> SUFFICES ASSUME NEW n \in Maps, NEW l \in 0..4, NEW b \in Nat,
                        Managed(n, l, b), ~(n = Kernel /\ l = 0 /\ b = v),
                        At(s.ent, root[n], l, b) >= 0
                 PROVE  At(s.ent, root[n], l, b) \notin ToSet(t.free)
      BY DEF OnlyHere
    <3>1. At(s.ent, root[n], l, b) \notin ToSet(s.free)
      BY <1>1 DEF Forest
    <3>2. At(s.ent, root[n], l, b) # p
      BY <1>1, <1>2 DEF Forest, p
    <3> QED
      BY <1>9, <1>14, <3>1, <3>2
  <2>2. OnlyHere(s.ent, {NONE}, root, Kernel, 0, v)
    BY DEF OnlyHere, NONE
  <2>3. \A x \in t.stale : x[2] \notin ToSet(t.free) /\ x[2] # NONE
    <3> SUFFICES ASSUME NEW x \in t.stale PROVE x[2] \notin ToSet(t.free) /\ x[2] # NONE
      OBVIOUS
    <3>1. x \in s.stale
      BY <1>10, <1>14
    <3>2. x[2] \notin ToSet(s.free) /\ x[2] # p
      BY <1>1, <1>2, <3>1 DEF StaleOut, p
    <3>3. x[2] \in Frames
      BY <1>14 DEF Mems
    <3>4. NONE \notin Frames
      BY FanFacts DEF NONE
    <3> QED
      BY <1>9, <1>14, <3>2, <3>3, <3>4
  <2>4. OnlyHere(s.ent, {x[2] : x \in t.stale}, root, Kernel, 0, v)
    BY <1>1, <1>10, <1>14 DEF OnlyHere, StaleOut
  <2>5. /\ Written(s.ent, t.ent, w, v % Fan, NONE, FALSE)
        /\ FlagsWritten(s.flags, t.flags, w, v % Fan, {}, NONE, FALSE)
    BY <1>11, <1>14 DEF i
  <2>6. Writing(s.ent, t.ent, ToSet(s.free), root, Kernel, 0, v, w, NONE, FALSE)
    <3>1. 0 # 3 /\ FALSE \in BOOLEAN /\ FALSE # TRUE /\ 0 + 1 = 1 /\ NONE \in Vals
      BY DEF Vals
    <3>2. w = At(s.ent, root[Kernel], 0 + 1, v \div Fan)
      BY <3>1 DEF w
    <3> QED
      BY <1>1, <1>2, <1>6, <2>5, <3>1, <3>2 DEF Writing
  <2>7. {} \in SUBSET {"user", "xd"} /\ ~(NONE >= 0) /\ FALSE # TRUE
    BY DEF NONE
  <2>8. Putting(s, t, root, Kernel, 0, v, w, NONE, {}, FALSE)
    BY <1>9, <1>14, <2>1, <2>2, <2>3, <2>4, <2>5, <2>6, <2>7 DEF Putting
  <2> QED
    BY <2>8, Put
<1> QED
  BY <1>14, <1>15 DEF Unmapped, Wrote, OthersSame

\* The turns of the loop of vmm_region_dealloc.
LEMMA UnmapTurns ==
    ASSUME NEW s, NEW root, NEW base, NEW n \in Nat
    PROVE  \E g : /\ g[0] = s
                  /\ \A k \in 1..n :
                        g[k] = UnmapAndFree(g[k - 1], root, (base + Offset(k - 1)) % AddressSpace)
                  /\ UnmapRange(s, root, base, n) = g[n]
<1> DEFINE step(x, k) == UnmapAndFree(x, root, (base + Offset(k - 1)) % AddressSpace)
           Turns(g, j) == g = [k \in 0..j |-> IF k = 0 THEN s ELSE step(g[k - 1], k)]
           S == {j \in Nat : \E g : Turns(g, j)}
<1>1. UnmapRange(s, root, base, n) = (CHOOSE g : Turns(g, n))[n]
  BY DEF UnmapRange
<1> HIDE DEF step
<1>2. 0 \in S
  <2> DEFINE g == [k \in 0..0 |-> s]
  <2>1. Turns(g, 0)
    OBVIOUS
  <2> HIDE DEF Turns
  <2> QED
    BY <2>1
<1>3. ASSUME NEW j \in Nat, j \in S PROVE j + 1 \in S
  <2>1. PICK g : Turns(g, j)
    BY <1>3
  <2> DEFINE h == [k \in 0..(j + 1) |-> IF k = j + 1 THEN step(g[j], j + 1) ELSE g[k]]
  <2>2. ASSUME NEW k \in 0..(j + 1)
        PROVE  h[k] = IF k = 0 THEN s ELSE step(h[k - 1], k)
    <3>1. CASE k = j + 1
      <4>1. k - 1 = j /\ j \in 0..(j + 1) /\ j # j + 1 /\ k # 0
        BY <3>1
      <4> QED
        BY <3>1, <4>1
    <3>2. CASE k # j + 1
      <4>1. k \in 0..j
        BY <3>2
      <4>2. h[k] = g[k] /\ g[k] = IF k = 0 THEN s ELSE step(g[k - 1], k)
        BY <2>1, <3>2, <4>1
      <4>3. k # 0 => k - 1 \in 0..(j + 1) /\ k - 1 # j + 1
        BY <4>1
      <4>4. k # 0 => h[k - 1] = g[k - 1]
        BY <4>3
      <4> QED
        BY <4>2, <4>4
    <3> QED
      BY <3>1, <3>2
  <2>3. Turns(h, j + 1)
    BY <2>2
  <2> HIDE DEF Turns, h
  <2> QED
    BY <2>3
<1> HIDE DEF S
<1>4. n \in S
  BY <1>2, <1>3, SetInduction
<1>5. \E g : Turns(g, n)
  BY <1>4 DEF S
<1> DEFINE g == CHOOSE x : Turns(x, n)
<1>6. Turns(g, n)
  <2> HIDE DEF Turns
  <2> QED
    BY <1>5, Zenon
<1> HIDE DEF g
<1>7. g[0] = s /\ \A k \in 1..n : g[k] = step(g[k - 1], k)
  BY <1>6
<1> QED
  BY <1>1, <1>7 DEF step, g

LEMMA UnmapIs ==
    ASSUME NEW s, NEW root, Good(s, root), NEW base \in Nat, NEW n \in Nat, n <= OffsetPages,
           \A v \in base..(base + n - 1) :
              Managed(Kernel, 0, v) /\ At(s.ent, root[Kernel], 0, v) >= 0,
           NEW t, t = UnmapRange(s, root[Kernel], base, n)
    PROVE  Unmapped(s, t, root, base..(base + n - 1))
<1>1. Kernel \in Maps /\ 0 \in 0..4
  BY DEF Maps
<1>3. PICK g : /\ g[0] = s
               /\ \A k \in 1..n :
                     g[k] = UnmapAndFree(g[k - 1], root[Kernel], (base + Offset(k - 1)) % AddressSpace)
               /\ UnmapRange(s, root[Kernel], base, n) = g[n]
  BY UnmapTurns
<1> DEFINE Done(k) == Unmapped(s, g[k], root, base..(base + k - 1))
           S == {k \in Nat : k <= n => Done(k)}
<1>4. 0 \in S
  <2>1. \A v \in base..(base + 0 - 1) : FALSE
    OBVIOUS
  <2>2. Unmapped(s, s, root, base..(base + 0 - 1))
    BY <2>1 DEF Unmapped, SameAt
  <2> QED
    BY <1>3, <2>2
<1>5. ASSUME NEW k \in Nat, k \in S PROVE k + 1 \in S
  <2> SUFFICES ASSUME k + 1 <= n PROVE Done(k + 1)
    OBVIOUS
  <2> DEFINE v == base + k
             R == base..(base + k - 1)
  <2>1. /\ k \in 0..n /\ k + 1 \in 1..n /\ (k + 1) - 1 = k /\ base + (k + 1) - 1 = v
        /\ v \in Nat /\ v \notin R
    OBVIOUS
  <2>2. Done(k)
    <3> HIDE DEF Done
    <3> QED
      BY <1>5, <2>1
  <2>4. v \in base..(base + n - 1) /\ R \subseteq base..(base + n - 1) /\ R \subseteq Nat
    OBVIOUS
  <2>3. g[k + 1] = UnmapAndFree(g[k], root[Kernel], v)
    <3>1. Offset(k) = k
      <4>1. k < OffsetPages
        BY <2>1, IntBounds
      <4> QED
        BY <4>1 DEF Offset
    <3>2. v \in 0..(AddressSpace - 1)
      <4> HIDE DEF v
      <4>1. Managed(Kernel, 0, v)
        BY <2>4
      <4>2. v < AddressSpace
        BY <1>1, <2>1, <4>1, OwnPages DEF Managed
      <4> QED
        BY <2>1, <4>2, Layout
    <3>3. (base + Offset((k + 1) - 1)) % AddressSpace = v
      <4>1. base + Offset((k + 1) - 1) = v
        BY <2>1, <3>1
      <4>2. PICK A \in Nat \ {0} : A = AddressSpace
        BY Layout
      <4> HIDE DEF v
      <4>3. v % A = v
        BY <3>2, <4>2
      <4> QED
        BY <4>1, <4>2, <4>3
    <3>4. g[k + 1] = UnmapAndFree(g[(k + 1) - 1], root[Kernel], (base + Offset((k + 1) - 1)) % AddressSpace)
      BY <1>3, <2>1
    <3> HIDE DEF v
    <3> QED
      BY <2>1, <3>3, <3>4
  <2>5. R \cup {v} = base..(base + (k + 1) - 1)
    OBVIOUS
  <2> HIDE DEF v, R
  <2>6. Unmapped(s, g[k], root, R)
    BY <2>2 DEF R
  <2>7. Managed(Kernel, 0, v) /\ Own(Kernel, 0, v) /\ At(s.ent, root[Kernel], 0, v) >= 0
    BY <2>4 DEF Managed
  <2>8. At(g[k].ent, root[Kernel], 0, v) >= 0 /\ Good(g[k], root)
    <3>1. SameAt(s, g[k], root, Kernel, 0, v)
      BY <1>1, <2>1, <2>6, <2>7 DEF Unmapped
    <3> QED
      BY <2>6, <2>7, <3>1 DEF SameAt, Unmapped
  <2>9. Unmapped(g[k], g[k + 1], root, {v})
    BY <2>1, <2>3, <2>7, <2>8, UnmapAndFreeIs
  <2>10. Unmapped(s, g[k + 1], root, R \cup {v})
    <3>1. ASSUME NEW m \in Maps, NEW l \in 0..4, NEW b \in Nat, Own(m, l, b),
                 ~(m = Kernel /\ l = 0 /\ b \in R \cup {v})
          PROVE  SameAt(s, g[k + 1], root, m, l, b)
      <4>1. SameAt(s, g[k], root, m, l, b)
        BY <2>6, <3>1 DEF Unmapped
      <4>2. SameAt(g[k], g[k + 1], root, m, l, b)
        BY <2>9, <3>1 DEF Unmapped
      <4> QED
        BY <4>1, <4>2 DEF SameAt
    <3>2. ASSUME NEW x \in R \cup {v} PROVE At(g[k + 1].ent, root[Kernel], 0, x) = NONE
      <4>1. CASE x = v
        BY <2>9, <4>1 DEF Unmapped
      <4>2. CASE x # v
        <5>1. x \in R /\ x \in Nat /\ x \in base..(base + n - 1)
          BY <2>4, <3>2, <4>2
        <5>2. Own(Kernel, 0, x)
          BY <5>1 DEF Managed
        <5>3. SameAt(g[k], g[k + 1], root, Kernel, 0, x)
          BY <1>1, <2>9, <4>2, <5>1, <5>2 DEF Unmapped
        <5> QED
          BY <2>6, <5>1, <5>3 DEF Unmapped, SameAt
      <4> QED
        BY <4>1, <4>2
    <3> QED
      BY <2>6, <2>9, <3>1, <3>2 DEF Unmapped
  <2> QED
    BY <2>5, <2>10
<1> HIDE DEF S
<1>6. n \in S
  BY <1>4, <1>5, SetInduction
<1> QED
  BY <1>3, <1>6 DEF S
------------------------------------------------------------------------------
(* What holds of the pages between two operations.                         *)

\* The kernel's tables above the HHDM are there, once the system is up.
SlotThere(s, root) == s.stop = "no" => At(s.ent, root[Kernel], 3, UserSlots) >= 0

\* No entry of the kernel's is the user's, and every entry of a program's half is.
KernelOnly(s, root) ==
    \A k \in 0..3, a \in Nat : Own(Kernel, k, a) => Fl(s, root, Kernel, k, a) = {}
UserAll(s, root) ==
    \A u \in Users, k \in 0..3, a \in Nat :
        Own(u, k, a) /\ At(s.ent, root[u], k, a) >= 0 => "user" \in Fl(s, root, u, k, a)

\* As long as a program is loaded, all of its tables are executable.
LoadExec(s, root, ld) ==
    \A u \in Users : ld[u] <= Len(Segments) =>
        \A k \in 1..3, a \in Nat : Own(u, k, a) => "xd" \notin Fl(s, root, u, k, a)

\* The place of level k above v.
Prefix(k, v) ==
    IF k = 0 THEN v
    ELSE IF k = 1 THEN v \div Fan
    ELSE IF k = 2 THEN (v \div Fan) \div Fan ELSE ((v \div Fan) \div Fan) \div Fan

\* The tables above the segments that are loaded are there, and executable.
CodeThere(s, root, ld) ==
    \A u \in Users, g \in 1..Len(Segments) : g <= ld[u] =>
        \A v \in RegionPages(Segments[g]), k \in 1..3 :
            /\ At(s.ent, root[u], k, Prefix(k, v)) >= 0
            /\ "xd" \notin Fl(s, root, u, k, Prefix(k, v))

\* Nothing is loaded into a map that is not made.
Loads(root, ld) ==
    /\ ld \in [Users -> 0..(Len(Segments) + 1)]
    /\ \A u \in Users : root[u] = NONE => ld[u] = 0

HeapRegions(rs) == 2..(Len(rs) - 1)

\* In the kernel's heap the pages of the list's regions are mapped.
HeapMapped(s, root, rs) ==
    \A v \in Nat : End(Hhdm) <= v /\ v < ImageBase =>
        (At(s.ent, root[Kernel], 0, v) >= 0 <=> \E k \in HeapRegions(rs) : v \in RegionPages(rs[k]))

\* The kernel's list begins with the HHDM and ends with the image, and its heap is
\* in the slot of the HHDM.
KernelList(rs) ==
    /\ Len(rs) >= 2 /\ rs[1] = Hhdm /\ rs[Len(rs)] = Image
    /\ \A k \in HeapRegions(rs) :
          /\ rs[k].length \in KernelSizes /\ rs[k].length <= Pages /\ rs[k].length <= OffsetPages
          /\ End(rs[k]) <= HhdmBase + Slot

\* All but the last region of a program's list are in its half.
UserLists(rg, root) ==
    \A u \in Users : root[u] # NONE =>
        Len(rg[u]) >= 2 /\ \A k \in 1..(Len(rg[u]) - 1) : End(rg[u][k]) <= HhdmBase

PlacesInv(s, root, rg, ld) ==
    /\ Good(s, root)
    /\ SlotThere(s, root) /\ KernelOnly(s, root) /\ UserAll(s, root)
    /\ LoadExec(s, root, ld) /\ CodeThere(s, root, ld) /\ Loads(root, ld)
    /\ HeapMapped(s, root, rg[Kernel])
    /\ KernelList(rg[Kernel]) /\ UserLists(rg, root)

PageInv == PlacesInv(Now, pml4, regions, loaded)

LEMMA Kernels == Kernel \in Maps /\ Users \subseteq Maps /\ Kernel \notin Users
  BY VmmAssumption DEF Maps

LEMMA PrefixOwn ==
    ASSUME NEW m \in Maps, NEW v \in Nat, Own(m, 0, v), NEW k \in 1..3
    PROVE  /\ Prefix(k, v) \in Nat /\ Own(m, k, Prefix(k, v)) /\ k \in 0..4
           /\ Prefix(k, v) = Prefix(k - 1, v) \div Fan
<1>1. v \div Fan \in Nat /\ Own(m, 1, v \div Fan)
  <2>1. 0 \in 0..3 /\ 0 + 1 = 1
    OBVIOUS
  <2> QED
    BY <2>1, Up, OwnUp
<1> DEFINE v1 == v \div Fan
<1>2. v1 \div Fan \in Nat /\ Own(m, 2, v1 \div Fan)
  <2>1. 1 \in 0..3 /\ 1 + 1 = 2
    OBVIOUS
  <2> HIDE DEF v1
  <2> QED
    BY <1>1, <2>1, Up, OwnUp DEF v1
<1> DEFINE v2 == v1 \div Fan
<1>3. v2 \div Fan \in Nat /\ Own(m, 3, v2 \div Fan)
  <2>1. 2 \in 0..3 /\ 2 + 1 = 3
    OBVIOUS
  <2>2. v2 \in Nat /\ Own(m, 2, v2)
    BY <1>2
  <2> HIDE DEF v2
  <2> QED
    BY <2>1, <2>2, Up, OwnUp
<1>4. k = 1 \/ k = 2 \/ k = 3
  OBVIOUS
<1> QED
  BY <1>1, <1>2, <1>3, <1>4 DEF Prefix

\* What is mapped has its tables.
LEMMA PrefixPresent ==
    ASSUME NEW tab, NEW fs, NEW root, Forest(tab, fs, root),
           NEW m \in Maps, NEW v \in Nat, Own(m, 0, v), At(tab, root[m], 0, v) >= 0
    PROVE  \A k \in 1..3 : At(tab, root[m], k, Prefix(k, v)) >= 0
<1>1. ASSUME NEW k \in 1..3, At(tab, root[m], k - 1, Prefix(k - 1, v)) >= 0
      PROVE  At(tab, root[m], k, Prefix(k, v)) >= 0
  <2> DEFINE a == Prefix(k - 1, v)
             w == At(tab, root[m], k, Prefix(k, v))
             p == At(tab, root[m], k - 1, a)
  <2>1. /\ Prefix(k, v) \in Nat /\ Own(m, k, Prefix(k, v)) /\ k \in 0..4
        /\ Prefix(k, v) = a \div Fan /\ k - 1 \in 0..3 /\ (k - 1) + 1 = k
    BY PrefixOwn
  <2>2. p = get_next_table_unmap(tab, At(tab, root[m], (k - 1) + 1, a \div Fan), a % Fan)
    BY <2>1, AtStep, Zenon
  <2>3. p = get_next_table_unmap(tab, w, a % Fan)
    BY <2>1, <2>2
  <2>4. w \in Int
    BY <2>1, AtType, ValsAreInts
  <2>5. p >= 0
    BY <1>1
  <2> HIDE DEF w, p, a
  <2>6. w >= 0
    BY <2>3, <2>4, <2>5 DEF get_next_table_unmap
  <2> QED
    BY <2>6 DEF w
<1>2. At(tab, root[m], 1 - 1, Prefix(1 - 1, v)) >= 0
  BY DEF Prefix
<1>3. At(tab, root[m], 1, Prefix(1, v)) >= 0
  BY <1>1, <1>2
<1>4. At(tab, root[m], 2, Prefix(2, v)) >= 0
  <2>1. 2 \in 1..3 /\ 2 - 1 = 1
    OBVIOUS
  <2> QED
    BY <1>1, <1>3, <2>1
<1>5. At(tab, root[m], 3, Prefix(3, v)) >= 0
  <2>1. 3 \in 1..3 /\ 3 - 1 = 2
    OBVIOUS
  <2> QED
    BY <1>1, <1>4, <2>1
<1>6. \A k \in 1..3 : k = 1 \/ k = 2 \/ k = 3
  OBVIOUS
<1> QED
  BY <1>3, <1>4, <1>5, <1>6

\* The flags, after pages have been mapped.
LEMMA FlagsAfter ==
    ASSUME NEW s, NEW t, NEW root, NEW m \in Maps, NEW R, NEW f, Grown(s, t, root, m, R, f),
           KernelOnly(s, root), UserAll(s, root),
           m = Kernel => f = {}, m # Kernel => "user" \in f
    PROVE  KernelOnly(t, root) /\ UserAll(t, root)
<1>1. ASSUME NEW k \in 0..3, NEW a \in Nat, Own(Kernel, k, a)
      PROVE  Fl(t, root, Kernel, k, a) = {}
  <2>1. k \in 0..4
    OBVIOUS
  <2>2. \/ SameAt(s, t, root, Kernel, k, a)
        \/ Kernel = m /\ Fl(t, root, Kernel, k, a) = f
    BY <1>1, <2>1, Kernels DEF Grown
  <2> QED
    BY <1>1, <2>2 DEF KernelOnly, SameAt
<1>2. ASSUME NEW u \in Users, NEW k \in 0..3, NEW a \in Nat,
             Own(u, k, a), At(t.ent, root[u], k, a) >= 0
      PROVE  "user" \in Fl(t, root, u, k, a)
  <2>1. k \in 0..4 /\ u \in Maps /\ u # Kernel
    BY Kernels
  <2>2. \/ SameAt(s, t, root, u, k, a)
        \/ u = m /\ Fl(t, root, u, k, a) = f
    BY <1>2, <2>1 DEF Grown
  <2> QED
    BY <1>2, <2>1, <2>2 DEF UserAll, SameAt
<1>3. KernelOnly(t, root)
  BY <1>1 DEF KernelOnly
<1> QED
  BY <1>2, <1>3 DEF UserAll

LEMMA SlotAfter ==
    ASSUME NEW s, NEW t, NEW root, NEW m \in Maps, NEW R, NEW f, Grown(s, t, root, m, R, f),
           SlotThere(s, root), t.stop = "no" => s.stop = "no"
    PROVE  SlotThere(t, root)
<1>1. 3 \in 0..4 /\ UserSlots \in Nat /\ Own(Kernel, 3, UserSlots)
  BY FanFacts DEF Own, Top
<1> QED
  BY <1>1, Kernels, KeepsPresent DEF SlotThere

LEMMA ExecAfter ==
    ASSUME NEW s, NEW t, NEW root, NEW m \in Maps, NEW R, NEW f, Grown(s, t, root, m, R, f),
           NEW ld, NEW ld2, LoadExec(s, root, ld),
           \A u \in Users : ld2[u] <= Len(Segments) => ld[u] <= Len(Segments) /\ (u = m => "xd" \notin f)
    PROVE  LoadExec(t, root, ld2)
<1> SUFFICES ASSUME NEW u \in Users, ld2[u] <= Len(Segments), NEW k \in 1..3, NEW a \in Nat, Own(u, k, a)
             PROVE  "xd" \notin Fl(t, root, u, k, a)
  BY DEF LoadExec
<1>1. k \in 0..4 /\ u \in Maps
  BY Kernels
<1>2. \/ SameAt(s, t, root, u, k, a)
      \/ u = m /\ Fl(t, root, u, k, a) = f
  BY <1>1 DEF Grown
<1>3. "xd" \notin Fl(s, root, u, k, a)
  BY DEF LoadExec
<1> QED
  BY <1>2, <1>3 DEF SameAt

\* A segment's pages.
LEMMA SegmentPages ==
    ASSUME NEW u \in Users, NEW g \in 1..Len(Segments), NEW v \in RegionPages(Segments[g])
    PROVE  v \in Nat /\ Own(u, 0, v) /\ u \in Maps /\ u # Kernel
<1>1. u \in Maps /\ u # Kernel
  BY Kernels
<1>2. PICK b \in Nat, l \in Nat, h \in Nat : b = Segments[g].base /\ l = Segments[g].length /\ h = HhdmBase /\ b + l <= h
  BY SegmentShape, Layout DEF End
<1>3. v \in b..(b + l - 1)
  BY <1>2 DEF RegionPages, End
<1>4. v \in Nat /\ v < h
  BY <1>2, <1>3
<1> QED
  BY <1>1, <1>2, <1>4, OwnPages

LEMMA CodeAfter ==
    ASSUME NEW s, NEW t, NEW root, NEW m \in Maps, NEW R, NEW f, Grown(s, t, root, m, R, f),
           NEW ld, NEW fs, Forest(s.ent, fs, root),
           CodeThere(s, root, ld)
    PROVE  CodeThere(t, root, ld)
<1> SUFFICES ASSUME NEW u \in Users, NEW g \in 1..Len(Segments), g <= ld[u],
                    NEW v \in RegionPages(Segments[g]), NEW k \in 1..3
             PROVE  /\ At(t.ent, root[u], k, Prefix(k, v)) >= 0
                    /\ "xd" \notin Fl(t, root, u, k, Prefix(k, v))
  BY DEF CodeThere
<1>1. v \in Nat /\ Own(u, 0, v) /\ u \in Maps
  BY SegmentPages
<1> DEFINE a == Prefix(k, v)
<1>2. a \in Nat /\ Own(u, k, a) /\ k \in 0..4 /\ k # 0
  BY <1>1, PrefixOwn
<1>3. At(s.ent, root[u], k, a) >= 0 /\ "xd" \notin Fl(s, root, u, k, a)
  BY DEF CodeThere
<1> HIDE DEF a
<1>4. At(s.ent, root[u], k, a) \in Int
  BY <1>1, <1>2, AtType, ValsAreInts
<1>5. SameAt(s, t, root, u, k, a)
  BY <1>1, <1>2, <1>3, <1>4 DEF Grown
<1> QED
  BY <1>3, <1>5 DEF SameAt, a
------------------------------------------------------------------------------
(* vmm_init.                                                               *)

BootRoot == [m \in Maps |-> IF m = Kernel THEN 1 ELSE NONE]

\* The memory vmm_init finds: nothing is mapped.
FirstMemory ==
    [free |-> [p \in 1..(Pages - 1) |-> p + 1],
     ent |-> [p \in Phys |-> Blank], flags |-> [p \in Phys |-> NoFlags], stale |-> {},
     nodes |-> NodesPerSlab, at |-> 0, stop |-> "no"]

LEMMA RootIs ==
    /\ BootRoot \in [Maps -> Phys \cup {NONE}] /\ BootRoot[Kernel] = 1 /\ BootRoot[Kernel] # NONE
    /\ 1 \in Phys /\ NoPrograms(BootRoot) /\ \A u \in Users : BootRoot[u] = NONE
    /\ \A m \in Maps : BootRoot[m] = IF m = Kernel THEN 1 ELSE NONE
<1>1. 1 \in Phys
  BY VmmAssumption DEF Phys
<1> QED
  BY <1>1, Kernels DEF BootRoot, NoPrograms, NONE

LEMMA NothingMapped ==
    ASSUME NEW m \in Maps, NEW k \in 0..3, NEW a \in Nat
    PROVE  At(FirstMemory.ent, BootRoot[m], k, a) = NONE
<1> DEFINE tab == FirstMemory.ent
           None(l) == \A b \in Nat : At(tab, BootRoot[m], l, b) = NONE
<1>0. \A p \in Phys, i \in 0..(Fan - 1) : tab[p][i] = NONE
  BY DEF FirstMemory, Blank
<1> HIDE DEF tab
<1>1. None(3)
  <2> SUFFICES ASSUME NEW b \in Nat PROVE At(tab, BootRoot[m], 3, b) = NONE
    OBVIOUS
  <2>1. At(tab, BootRoot[m], 3, b) = get_next_table_unmap(tab, BootRoot[m], b % Fan)
    BY DEF At
  <2>2. b % Fan \in 0..(Fan - 1)
    BY Up
  <2>3. CASE m = Kernel
    <3>1. BootRoot[m] = 1 /\ ~(1 < 0) /\ 1 \in Phys
      BY <2>3, RootIs
    <3> QED
      BY <1>0, <2>1, <2>2, <3>1 DEF get_next_table_unmap
  <2>4. CASE m # Kernel
    <3>1. BootRoot[m] = NONE /\ NONE < 0
      BY <2>4, RootIs DEF NONE
    <3> QED
      BY <2>1, <3>1 DEF get_next_table_unmap
  <2> QED
    BY <2>3, <2>4
<1>2. ASSUME NEW l \in 0..2, None(l + 1) PROVE None(l)
  <2> SUFFICES ASSUME NEW b \in Nat PROVE At(tab, BootRoot[m], l, b) = NONE
    OBVIOUS
  <2>0. l \in 0..3 /\ b \div Fan \in Nat
    BY Up
  <2>1. At(tab, BootRoot[m], l, b) = get_next_table_unmap(tab, At(tab, BootRoot[m], l + 1, b \div Fan), b % Fan)
    BY <2>0, AtStep, Zenon
  <2>2. At(tab, BootRoot[m], l + 1, b \div Fan) = NONE
    BY <1>2, <2>0
  <2> QED
    BY <2>1, <2>2 DEF get_next_table_unmap, NONE
<1> HIDE DEF None
<1>3. None(2) /\ None(1) /\ None(0)
  BY <1>1, <1>2
<1>4. \A l \in 0..3 : None(l)
  BY <1>1, <1>3
<1> QED
  BY <1>4 DEF None, tab

LEMMA FirstGood == Good(FirstMemory, BootRoot)
<1> DEFINE s == FirstMemory
           F == [p \in 1..(Pages - 1) |-> p + 1]
<1>1. PICK n \in Nat \ {0} : n = Pages
  BY VmmAssumption
<1>2. F \in Seq(Phys) /\ IsInjective(F) /\ ToSet(F) \subseteq Phys \ {1}
  <2>1. F \in [1..(n - 1) -> 1..n]
    BY <1>1
  <2>2. F \in Seq(Phys)
    BY <1>1, <2>1 DEF Phys
  <2>3. DOMAIN F = 1..(n - 1)
    BY <1>1
  <2>4. IsInjective(F)
    BY <1>1, <2>3 DEF IsInjective
  <2>5. ToSet(F) \subseteq Phys \ {1}
    BY <1>1, <2>3 DEF ToSet, Phys
  <2> QED
    BY <2>2, <2>4, <2>5
<1> HIDE DEF F
<1>3. [p \in Phys |-> Blank] \in Rows /\ [p \in Phys |-> NoFlags] \in FlagRows
  BY DEF Blank, NoFlags, Rows, FlagRows, Vals
<1>4. s.free = F /\ s.stale = {} /\ s.ent \in Rows /\ s.stop = "no"
  BY <1>3 DEF FirstMemory, F
<1>5. s \in Mems
  <2>1. s = [free |-> F, ent |-> [p \in Phys |-> Blank], flags |-> [p \in Phys |-> NoFlags],
             stale |-> {}, nodes |-> NodesPerSlab, at |-> 0, stop |-> "no"]
    BY DEF FirstMemory, F
  <2>2. NodesPerSlab \in Nat
    BY VmmAssumption
  <2> HIDE DEF s
  <2> QED
    BY <1>2, <1>3, <2>1, <2>2 DEF Mems, Kinds
<1>6. Forest(s.ent, ToSet(s.free), BootRoot)
  <2> DEFINE P(m, k, a) == At(s.ent, BootRoot[m], k, a)
  <2>1. ASSUME NEW m \in Maps, NEW k \in 0..4, NEW a \in Nat, Managed(m, k, a), P(m, k, a) >= 0
        PROVE  m = Kernel /\ k = 4 /\ a = 0 /\ P(m, k, a) = 1
    <3>1. k \notin 0..3
      <4> SUFFICES ASSUME k \in 0..3 PROVE FALSE
        OBVIOUS
      <4>1. P(m, k, a) = NONE
        BY NothingMapped
      <4> QED
        BY <2>1, <4>1 DEF NONE
    <3>2. k = 4
      BY <3>1
    <3>3. P(m, k, a) = BootRoot[m] /\ a = 0
      BY <2>1, <3>2 DEF At, Managed, Own
    <3>4. m = Kernel
      BY <2>1, <3>3, RootIs DEF NONE
    <3> QED
      BY <3>2, <3>3, <3>4, RootIs
  <2> HIDE DEF s
  <2>2. Shared(s.ent, BootRoot)
    BY RootIs DEF Shared
  <2>3. ToSet(s.free) \subseteq Phys \ {1}
    BY <1>2, <1>4
  <2>4. \A m \in Maps, k \in 0..4, a \in Nat :
          Managed(m, k, a) /\ P(m, k, a) >= 0 => P(m, k, a) \in Phys \ ToSet(s.free)
    BY <2>1, <2>3, RootIs
  <2>5. \A m, w \in Maps, k, l \in 0..4, a, b \in Nat :
          /\ Managed(m, k, a) /\ Managed(w, l, b)
          /\ P(m, k, a) >= 0 /\ P(m, k, a) = P(w, l, b)
          => m = w /\ k = l /\ a = b
    <3> TAKE m, w \in Maps, k, l \in 0..4, a, b \in Nat
    <3>1. HAVE /\ Managed(m, k, a) /\ Managed(w, l, b)
               /\ P(m, k, a) >= 0 /\ P(m, k, a) = P(w, l, b)
    <3>2. m = Kernel /\ k = 4 /\ a = 0
      BY <2>1, <3>1
    <3>3. w = Kernel /\ l = 4 /\ b = 0
      BY <2>1, <3>1
    <3> QED
      BY <3>2, <3>3
  <2>6. ToSet(s.free) \subseteq Phys
    BY <2>3
  <2> QED
    BY <1>4, <2>2, <2>4, <2>5, <2>6, RootIs, Zenon DEF Forest
<1>7. StaleOut(s, BootRoot)
  BY <1>4 DEF StaleOut
<1>8. IsInjective(s.free)
  BY <1>2, <1>4
<1> QED
  BY <1>5, <1>6, <1>7, <1>8 DEF Good

\* The pages of the HHDM and of the image are the kernel's, and mapped twice.
LEMMA BootPages ==
    /\ \A v \in ImageBase..(ImageBase + ImageLength - 1) :
          v \in Nat /\ Own(Kernel, 0, v) /\ ~Managed(Kernel, 0, v) /\ ImageBase <= v
    /\ \A v \in HhdmBase..(HhdmBase + HhdmLength - 1) :
          /\ v \in Nat /\ Own(Kernel, 0, v) /\ ~Managed(Kernel, 0, v)
          /\ v < End(Hhdm) /\ v < ImageBase
<1>1. PICK A \in Nat, H \in Nat, I \in Nat, h \in Nat, n \in Nat :
        /\ A = AddressSpace /\ H = HhdmBase /\ I = ImageBase /\ h = HhdmLength /\ n = ImageLength
        /\ I + n = A /\ H + h <= I
  BY Layout, FanFacts DEF ImageBase
<1>2. End(Hhdm) = H + h
  BY <1>1 DEF End, Hhdm
<1>3. ASSUME NEW v \in I..(I + n - 1)
      PROVE  v \in Nat /\ Own(Kernel, 0, v) /\ ~Managed(Kernel, 0, v) /\ I <= v
  <2>1. v \in Nat /\ v < A /\ I <= v
    BY <1>1
  <2>2. Own(Kernel, 0, v)
    BY <1>1, <2>1, OwnPages, Kernels
  <2>3. ~(v < H \/ (End(Hhdm) <= v /\ v < I))
    BY <1>1, <2>1
  <2> QED
    BY <1>1, <2>1, <2>2, <2>3 DEF Managed
<1>4. ASSUME NEW v \in H..(H + h - 1)
      PROVE  /\ v \in Nat /\ Own(Kernel, 0, v) /\ ~Managed(Kernel, 0, v)
             /\ v < End(Hhdm) /\ v < I
  <2>1. v \in Nat /\ v < A /\ H <= v /\ v < H + h /\ v < I
    BY <1>1
  <2>2. Own(Kernel, 0, v)
    BY <1>1, <2>1, OwnPages, Kernels
  <2>3. ~(v < H \/ (End(Hhdm) <= v /\ v < I))
    BY <1>1, <1>2, <2>1
  <2> QED
    BY <1>1, <1>2, <2>1, <2>2, <2>3 DEF Managed
<1> QED
  BY <1>1, <1>3, <1>4

\* The pages vmm_init maps lie here.
BootRange == (ImageBase..(ImageBase + ImageLength - 1)) \cup (HhdmBase..(HhdmBase + HhdmLength - 1))

\* Between two loops of vmm_init: nothing but the image and the HHDM is mapped, and
\* the HHDM to the memory it stands for.
Booted(t) ==
    /\ Good(t, BootRoot)
    /\ Grown(FirstMemory, t, BootRoot, Kernel, BootRange, {})
    /\ Right(t, BootRoot, HhdmBase, 0, HhdmLength)

\* The turns of the loop over the memory map.
LEMMA EntryTurns ==
    ASSUME NEW s1, s1 = MapBoot(FirstMemory, ImageBase, Pages + 1, ImageLength)
    PROVE  \E g : /\ g[0] = s1
                  /\ \A k \in 1..Len(MemoryMap) :
                        g[k] = MapBoot(g[k - 1], HhdmBase + MemoryMap[k].base,
                                       MemoryMap[k].base, MemoryMap[k].length)
                  /\ BootTables = Node(Node(MapBoot(g[Len(MemoryMap)], HhdmBase, 0, LowPages)))
<1> DEFINE n == Len(MemoryMap)
           step(x, k) == MapBoot(x, HhdmBase + MemoryMap[k].base, MemoryMap[k].base,
                                 MemoryMap[k].length)
           Turns(g, j) == g = [k \in 0..j |-> IF k = 0 THEN s1 ELSE step(g[k - 1], k)]
           S == {j \in Nat : \E g : Turns(g, j)}
<1>0. n \in Nat
  BY EntryShape
<1>1. BootTables = Node(Node(MapBoot((CHOOSE g : Turns(g, n))[n], HhdmBase, 0, LowPages)))
  BY DEF BootTables, FirstMemory
<1> HIDE DEF step, n
<1>2. 0 \in S
  <2> DEFINE g == [k \in 0..0 |-> s1]
  <2>1. Turns(g, 0)
    OBVIOUS
  <2> HIDE DEF Turns
  <2> QED
    BY <2>1
<1>3. ASSUME NEW j \in Nat, j \in S PROVE j + 1 \in S
  <2>1. PICK g : Turns(g, j)
    BY <1>3
  <2> DEFINE h == [k \in 0..(j + 1) |-> IF k = j + 1 THEN step(g[j], j + 1) ELSE g[k]]
  <2>2. ASSUME NEW k \in 0..(j + 1)
        PROVE  h[k] = IF k = 0 THEN s1 ELSE step(h[k - 1], k)
    <3>1. CASE k = j + 1
      <4>1. k - 1 = j /\ j \in 0..(j + 1) /\ j # j + 1 /\ k # 0
        BY <3>1
      <4> QED
        BY <3>1, <4>1
    <3>2. CASE k # j + 1
      <4>1. k \in 0..j
        BY <3>2
      <4>2. h[k] = g[k] /\ g[k] = IF k = 0 THEN s1 ELSE step(g[k - 1], k)
        BY <2>1, <3>2, <4>1
      <4>3. k # 0 => k - 1 \in 0..(j + 1) /\ k - 1 # j + 1
        BY <4>1
      <4>4. k # 0 => h[k - 1] = g[k - 1]
        BY <4>3
      <4> QED
        BY <4>2, <4>4
    <3> QED
      BY <3>1, <3>2
  <2>3. Turns(h, j + 1)
    BY <2>2
  <2> HIDE DEF Turns, h
  <2> QED
    BY <2>3
<1> HIDE DEF S
<1>4. n \in S
  BY <1>0, <1>2, <1>3, SetInduction
<1>5. \E g : Turns(g, n)
  BY <1>4 DEF S
<1> DEFINE g == CHOOSE x : Turns(x, n)
<1>6. Turns(g, n)
  <2> HIDE DEF Turns
  <2> QED
    BY <1>5, Zenon
<1> HIDE DEF g
<1>7. g[0] = s1 /\ \A k \in 1..n : g[k] = step(g[k - 1], k)
  BY <1>0, <1>6
<1> QED
  BY <1>1, <1>7 DEF step, n, g

\* The image is mapped first.
LEMMA ImageMapped ==
    ASSUME NEW t, t = MapBoot(FirstMemory, ImageBase, Pages + 1, ImageLength)
    PROVE  Booted(t)
<1> DEFINE s == FirstMemory
           I == ImageBase..(ImageBase + ImageLength - 1)
           H == HhdmBase..(HhdmBase + HhdmLength - 1)
<1>1. Good(s, BootRoot) /\ Kernel \in Maps
  BY FirstGood, Kernels
<1>2. \A v \in I \cup H : v \in Nat /\ Own(Kernel, 0, v) /\ ~Managed(Kernel, 0, v)
  BY BootPages
<1>3. ASSUME NEW v \in Nat PROVE At(s.ent, BootRoot[Kernel], 0, v) = NONE
  <2>1. 0 \in 0..3
    OBVIOUS
  <2> QED
    BY <1>1, <2>1, NothingMapped
<1>4. Mapped(s, t, BootRoot, Kernel, I, {})
  <2>1. Booting(s, BootRoot, ImageBase, Pages + 1, ImageLength)
    <3>1. \A j \in 0..(ImageLength - 1) : Pages + 1 + j \in Frames
      BY FanFacts DEF Frames
    <3>2. Right(s, BootRoot, ImageBase, Pages + 1, ImageLength)
      BY <1>2, <1>3 DEF Right, NONE
    <3>3. ImageBase \in Nat /\ Pages + 1 \in Nat /\ ImageLength \in Nat
      BY Layout, FanFacts
    <3> HIDE DEF s
    <3> QED
      BY <1>1, <1>2, <3>1, <3>2, <3>3, RootIs DEF Booting
  <2> HIDE DEF s
  <2> QED
    BY <2>1, BootIs DEF s
<1> HIDE DEF s
<1>5. Good(t, BootRoot) /\ Grown(s, t, BootRoot, Kernel, I, {})
  BY <1>4 DEF Mapped
<1>6. Grown(s, t, BootRoot, Kernel, BootRange, {})
  BY <1>5, GrownMore DEF BootRange
<1>7. Right(t, BootRoot, HhdmBase, 0, HhdmLength)
  <2> SUFFICES ASSUME NEW v \in H PROVE At(t.ent, BootRoot[Kernel], 0, v) < 0
    BY DEF Right
  <2>1. v \in Nat /\ Own(Kernel, 0, v)
    BY <1>2
  <2>2. v \notin I
    <3>1. v < ImageBase /\ \A x \in I : ImageBase <= x /\ x \in Nat
      BY BootPages
    <3> QED
      BY <2>1, <3>1, Layout
  <2> HIDE DEF I, H
  <2>3. SameAt(s, t, BootRoot, Kernel, 0, v)
    BY <1>1, <1>5, <2>1, <2>2 DEF Grown
  <2> QED
    BY <1>3, <2>1, <2>3 DEF SameAt, NONE
<1> QED
  BY <1>5, <1>6, <1>7 DEF Booted, s

\* A stretch of memory that the HHDM's region holds is mapped in it.
LEMMA EntryMapped ==
    ASSUME NEW s, Booted(s), NEW b \in Nat, NEW n \in Nat, b + n <= HhdmLength,
           NEW t, t = MapBoot(s, HhdmBase + b, b, n)
    PROVE  /\ Booted(t)
           /\ t.stop = "no" =>
                 \A v \in (HhdmBase + b)..(HhdmBase + b + n - 1) : At(t.ent, BootRoot[Kernel], 0, v) >= 0
<1> DEFINE base == HhdmBase + b
           R == base..(base + n - 1)
           H == HhdmBase..(HhdmBase + HhdmLength - 1)
<1>1. PICK e \in Nat, h \in Nat : e = HhdmBase /\ h = HhdmLength
  BY Layout, FanFacts
<1>2. base \in Nat /\ base = e + b /\ R \subseteq H
  BY <1>1
<1>3. /\ Good(s, BootRoot) /\ Grown(FirstMemory, s, BootRoot, Kernel, BootRange, {})
      /\ Right(s, BootRoot, HhdmBase, 0, HhdmLength)
  BY DEF Booted
<1>4. \A v \in H : v \in Nat /\ Own(Kernel, 0, v) /\ ~Managed(Kernel, 0, v)
  BY BootPages
<1>5. Booting(s, BootRoot, base, b, n)
  <2>1. \A j \in 0..(n - 1) : b + j \in Frames
    BY <1>1, FanFacts DEF Frames
  <2>2. Right(s, BootRoot, base, b, n)
    <3> SUFFICES ASSUME NEW v \in R
                 PROVE  \/ At(s.ent, BootRoot[Kernel], 0, v) < 0
                        \/ At(s.ent, BootRoot[Kernel], 0, v) = b + (v - base)
      BY DEF Right
    <3>1. b + (v - base) = 0 + (v - HhdmBase) /\ v \in H
      BY <1>1, <1>2
    <3> QED
      BY <1>3, <3>1 DEF Right
  <2>3. \A v \in R : Own(Kernel, 0, v) /\ ~Managed(Kernel, 0, v)
    BY <1>2, <1>4
  <2> HIDE DEF base
  <2> QED
    BY <1>2, <1>3, <2>1, <2>2, <2>3, RootIs DEF Booting
<1>6. Mapped(s, t, BootRoot, Kernel, R, {}) /\ Right(t, BootRoot, base, b, n)
  <2> HIDE DEF base
  <2> QED
    BY <1>5, BootIs DEF base
<1>7. /\ Good(t, BootRoot) /\ Grown(s, t, BootRoot, Kernel, R, {})
      /\ t.stop = "no" => \A v \in R : At(t.ent, BootRoot[Kernel], 0, v) >= 0
  BY <1>6 DEF Mapped
<1>8. Grown(FirstMemory, t, BootRoot, Kernel, BootRange, {})
  <2>1. Forest(s.ent, ToSet(s.free), BootRoot)
    BY <1>3 DEF Good
  <2>2. Grown(FirstMemory, t, BootRoot, Kernel, BootRange \cup R, {})
    BY <1>3, <1>7, <2>1, GrownTrans
  <2>3. BootRange \cup R = BootRange
    BY <1>2 DEF BootRange
  <2> QED
    BY <2>2, <2>3
<1>9. Right(t, BootRoot, HhdmBase, 0, HhdmLength)
  <2> SUFFICES ASSUME NEW v \in H
               PROVE  \/ At(t.ent, BootRoot[Kernel], 0, v) < 0
                      \/ At(t.ent, BootRoot[Kernel], 0, v) = 0 + (v - HhdmBase)
    BY DEF Right
  <2>1. CASE v \in R
    <3>1. b + (v - base) = 0 + (v - HhdmBase)
      BY <1>1, <1>2, <2>1
    <3>2. \/ At(t.ent, BootRoot[Kernel], 0, v) < 0
          \/ At(t.ent, BootRoot[Kernel], 0, v) = b + (v - base)
      BY <1>6, <2>1 DEF Right
    <3> QED
      BY <3>1, <3>2
  <2>2. CASE v \notin R
    <3>1. v \in Nat /\ Own(Kernel, 0, v) /\ Kernel \in Maps
      BY <1>4, Kernels
    <3>2. \/ At(s.ent, BootRoot[Kernel], 0, v) < 0
          \/ At(s.ent, BootRoot[Kernel], 0, v) = 0 + (v - HhdmBase)
      BY <1>3 DEF Right
    <3> HIDE DEF R, H
    <3>3. SameAt(s, t, BootRoot, Kernel, 0, v)
      BY <1>7, <2>2, <3>1 DEF Grown
    <3> QED
      BY <3>2, <3>3 DEF SameAt
  <2> QED
    BY <2>1, <2>2
<1> QED
  BY <1>7, <1>8, <1>9 DEF Booted

LEMMA BootMapped ==
    ASSUME HhdmCovers
    PROVE  /\ Good(BootTables, BootRoot)
           /\ Grown(FirstMemory, BootTables, BootRoot, Kernel, BootRange, {})
           /\ BootTables.stop = "no" => At(BootTables.ent, BootRoot[Kernel], 0, HhdmBase) >= 0
<1> DEFINE s1 == MapBoot(FirstMemory, ImageBase, Pages + 1, ImageLength)
<1>1. Booted(s1)
  BY ImageMapped
<1>2. PICK g : /\ g[0] = s1
               /\ \A k \in 1..Len(MemoryMap) :
                     g[k] = MapBoot(g[k - 1], HhdmBase + MemoryMap[k].base,
                                    MemoryMap[k].base, MemoryMap[k].length)
               /\ BootTables = Node(Node(MapBoot(g[Len(MemoryMap)], HhdmBase, 0, LowPages)))
  BY EntryTurns
<1> HIDE DEF s1
<1>3. PICK n \in Nat : n = Len(MemoryMap)
  BY EntryShape
<1> DEFINE S == {k \in Nat : k <= n => Booted(g[k])}
<1>4. 0 \in S
  BY <1>1, <1>2
<1>5. ASSUME NEW k \in Nat, k \in S PROVE k + 1 \in S
  <2> SUFFICES ASSUME k + 1 <= n PROVE Booted(g[k + 1])
    OBVIOUS
  <2>1. k + 1 \in 1..n /\ (k + 1) - 1 = k /\ k <= n
    BY <1>3
  <2>2. Booted(g[k])
    BY <1>5, <2>1
  <2>3. PICK b \in Nat, l \in Nat : b = MemoryMap[k + 1].base /\ l = MemoryMap[k + 1].length
    BY <1>3, <2>1, EntryShape
  <2>4. b + l <= HhdmLength
    BY <1>3, <2>1, <2>3 DEF HhdmCovers, End
  <2>5. g[k + 1] = MapBoot(g[k], HhdmBase + b, b, l)
    BY <1>2, <1>3, <2>1, <2>3
  <2> QED
    BY <2>2, <2>4, <2>5, EntryMapped
<1> HIDE DEF S
<1>6. n \in S
  BY <1>4, <1>5, SetInduction
<1>7. Booted(g[n])
  BY <1>6 DEF S
<1> DEFINE s2 == MapBoot(g[n], HhdmBase, 0, LowPages)
           s3 == Node(s2)
           s4 == Node(s3)
<1>8. Booted(s2) /\ (s2.stop = "no" => At(s2.ent, BootRoot[Kernel], 0, HhdmBase) >= 0)
  <2>1. PICK l \in Nat \ {0}, e \in Nat, h \in Nat :
           l = LowPages /\ e = HhdmBase /\ h = HhdmLength /\ 0 + l <= h
    BY EntryShape, Layout, HhdmLengthIsNat
  <2>2. s2 = MapBoot(g[n], HhdmBase + 0, 0, LowPages)
    BY <2>1
  <2> HIDE DEF s2
  <2>3. /\ Booted(s2)
        /\ s2.stop = "no" =>
              \A v \in (HhdmBase + 0)..(HhdmBase + 0 + LowPages - 1) :
                  At(s2.ent, BootRoot[Kernel], 0, v) >= 0
    BY <1>7, <2>1, <2>2, EntryMapped
  <2>4. HhdmBase \in (HhdmBase + 0)..(HhdmBase + 0 + LowPages - 1)
    BY <2>1
  <2> QED
    BY <2>3, <2>4
<1>9. s4 = BootTables
  BY <1>2, <1>3
<1> HIDE DEF s2
<1>10. Good(s2, BootRoot) /\ Grown(FirstMemory, s2, BootRoot, Kernel, BootRange, {})
  BY <1>8 DEF Booted
<1>11. Mapped(s2, s3, BootRoot, Kernel, {}, {})
  BY <1>10, NodeIs
<1> HIDE DEF s3
<1>12. Mapped(s3, s4, BootRoot, Kernel, {}, {})
  <2>1. Good(s3, BootRoot)
    BY <1>11 DEF Mapped
  <2> QED
    BY <2>1, NodeIs
<1> HIDE DEF s4
<1>13. Mapped(s2, s4, BootRoot, Kernel, {}, {})
  <2>1. Mapped(s2, s4, BootRoot, Kernel, {} \cup {}, {})
    BY <1>11, <1>12, Kernels, MappedTrans
  <2>2. {} \cup {} = {}
    OBVIOUS
  <2> QED
    BY <2>1, <2>2
<1>14. Good(s4, BootRoot) /\ Grown(s2, s4, BootRoot, Kernel, {}, {}) /\ (s4.stop = "no" => s2.stop = "no")
  BY <1>13 DEF Mapped
<1>15. Grown(FirstMemory, s4, BootRoot, Kernel, BootRange, {})
  <2>1. Forest(s2.ent, ToSet(s2.free), BootRoot)
    BY <1>10 DEF Good
  <2>2. Grown(FirstMemory, s4, BootRoot, Kernel, BootRange \cup {}, {})
    BY <1>10, <1>14, <2>1, GrownTrans
  <2>3. BootRange \cup {} = BootRange
    OBVIOUS
  <2> QED
    BY <2>2, <2>3
<1>16. ASSUME s4.stop = "no" PROVE At(s4.ent, BootRoot[Kernel], 0, HhdmBase) >= 0
  <2>1. At(s2.ent, BootRoot[Kernel], 0, HhdmBase) >= 0
    BY <1>8, <1>14, <1>16
  <2>2. HhdmBase \in Nat /\ Own(Kernel, 0, HhdmBase) /\ Kernel \in Maps /\ 0 \in 0..4
    BY Layout, Kernels, OwnPages
  <2> QED
    BY <1>14, <2>1, <2>2, KeepsPresent
<1> QED
  BY <1>9, <1>14, <1>15, <1>16

LEMMA GrownSame ==
    ASSUME NEW s, NEW t, NEW w, NEW root, NEW m, NEW R, NEW f,
           Good(t, root), Grown(s, t, root, m, R, f), w.ent = t.ent, w.flags = t.flags
    PROVE  Grown(s, w, root, m, R, f)
<1>1. Grown(t, w, root, m, R, f) /\ Forest(t.ent, ToSet(t.free), root)
  BY GrownSelf DEF Good
<1>2. Grown(s, w, root, m, R \cup R, f)
  BY <1>1, GrownTrans
<1>3. R \cup R = R
  OBVIOUS
<1> QED
  BY <1>2, <1>3

\* The slot of the HHDM's first page.
LEMMA FirstSlot == HhdmBase \in Nat /\ Prefix(3, HhdmBase) = UserSlots /\ Own(Kernel, 0, HhdmBase)
<1>1. PICK z \in Nat \ {0}, u \in Nat : z = Slot /\ u = UserSlots
  BY FanFacts
<1>2. (u * z) \div z = u
  BY DivBack
<1>3. HhdmBase \in Nat /\ HhdmBase = u * z
  BY <1>1, Layout DEF HhdmBase
<1>4. Top(0, HhdmBase) = HhdmBase \div Slot
  BY <1>3, Digits
<1>5. Prefix(3, HhdmBase) = Top(0, HhdmBase)
  BY DEF Prefix, Top
<1>6. Own(Kernel, 0, HhdmBase)
  BY <1>3, Kernels, Layout, OwnPages
<1> QED
  BY <1>1, <1>2, <1>3, <1>4, <1>5, <1>6

LEMMA PageInit == HhdmCovers /\ Init => PageInv
<1> SUFFICES ASSUME HhdmCovers, Init PROVE PageInv
  OBVIOUS
<1> DEFINE b == BootTables
           s0 == FirstMemory
<1>1. /\ head = b.free /\ ent = b.ent /\ nodes = b.nodes /\ flags = b.flags /\ stale = {}
      /\ halted = b.stop /\ pml4 = BootRoot
      /\ regions = [m \in Maps |-> IF m = Kernel THEN <<Hhdm, Image>> ELSE <<>>]
      /\ loaded = [u \in Users |-> 0]
  BY DEF Init, BootRoot
<1>2. /\ Good(b, BootRoot) /\ Grown(s0, b, BootRoot, Kernel, BootRange, {})
      /\ b.stop = "no" => At(b.ent, BootRoot[Kernel], 0, HhdmBase) >= 0
  BY BootMapped
<1> HIDE DEF b
<1> DEFINE s == Now
<1>3. /\ s = [free |-> b.free, ent |-> b.ent, flags |-> b.flags, stale |-> {}, nodes |-> b.nodes,
              at |-> 0, stop |-> b.stop]
  BY <1>1 DEF Now
<1>4. Good(b, BootRoot) /\ Grown(s0, b, BootRoot, Kernel, BootRange, {}) /\ b \in Mems
  BY <1>2 DEF Good
<1>5. /\ s \in Mems /\ s.free = b.free /\ s.ent = b.ent /\ s.flags = b.flags /\ s.stale = {}
      /\ s.stop = b.stop
  <2> HIDE DEF s
  <2> QED
    BY <1>3, <1>4 DEF Mems
<1> HIDE DEF s, s0
<1>6. Good(s, BootRoot)
  BY <1>4, <1>5, GoodLess DEF Good
<1>7. Grown(s0, s, BootRoot, Kernel, BootRange, {})
  BY <1>4, <1>5, GrownSame
<1>8. \A m \in Maps, k \in 0..3, a \in Nat : At(s0.ent, BootRoot[m], k, a) = NONE /\ Fl(s0, BootRoot, m, k, a) = {}
  BY NothingMapped DEF s0, Fl, NONE
<1>9. KernelOnly(s0, BootRoot) /\ UserAll(s0, BootRoot)
  BY <1>8, Kernels DEF KernelOnly, UserAll, NONE
<1>10. KernelOnly(s, BootRoot) /\ UserAll(s, BootRoot)
  BY <1>7, <1>9, Kernels, FlagsAfter
<1>11. SlotThere(s, BootRoot)
  <2> SUFFICES ASSUME s.stop = "no" PROVE At(s.ent, BootRoot[Kernel], 3, UserSlots) >= 0
    BY DEF SlotThere
  <2>2. At(s.ent, BootRoot[Kernel], 0, HhdmBase) >= 0
    BY <1>2, <1>5
  <2>3. Forest(s.ent, ToSet(s.free), BootRoot) /\ 3 \in 1..3
    BY <1>6 DEF Good
  <2>4. At(s.ent, BootRoot[Kernel], 3, Prefix(3, HhdmBase)) >= 0
    BY <2>2, <2>3, FirstSlot, Kernels, PrefixPresent
  <2> QED
    BY <2>4, FirstSlot
<1>12. LoadExec(s, BootRoot, loaded)
  <2>1. LoadExec(s0, BootRoot, loaded)
    <3> SUFFICES ASSUME NEW u \in Users, NEW k \in 1..3, NEW a \in Nat
                 PROVE  "xd" \notin Fl(s0, BootRoot, u, k, a)
      BY DEF LoadExec
    <3>1. k \in 0..3 /\ u \in Maps
      BY Kernels
    <3> QED
      BY <1>8, <3>1
  <2>2. \A u \in Users : u # Kernel
    BY Kernels
  <2> QED
    BY <1>7, <2>1, <2>2, Kernels, ExecAfter
<1>13. Loads(BootRoot, loaded) /\ CodeThere(s, BootRoot, loaded)
  <2>1. \A u \in Users : loaded[u] = 0
    BY <1>1
  <2>2. Loads(BootRoot, loaded)
    <3>1. Len(Segments) \in Nat
      BY VmmAssumption
    <3>2. loaded \in [Users -> 0..(Len(Segments) + 1)]
      BY <1>1, <3>1
    <3> QED
      BY <2>1, <3>2 DEF Loads
  <2>3. \A u \in Users, g \in 1..Len(Segments) : ~(g <= loaded[u])
    BY <2>1
  <2>4. CodeThere(s, BootRoot, loaded)
    BY <2>3 DEF CodeThere
  <2> QED
    BY <2>2, <2>4
<1> DEFINE rs == <<Hhdm, Image>>
<1>14. regions[Kernel] = rs
  BY <1>1, Kernels
<1>15. Len(rs) = 2 /\ rs[1] = Hhdm /\ rs[2] = Image /\ HeapRegions(rs) = {}
  <2>1. Len(rs) = 2 /\ rs[1] = Hhdm /\ rs[2] = Image
    OBVIOUS
  <2>2. 2..(2 - 1) = {}
    OBVIOUS
  <2> QED
    BY <2>1, <2>2 DEF HeapRegions
<1> HIDE DEF rs
<1>16. KernelList(rs)
  BY <1>15 DEF KernelList
<1>17. UserLists(regions, BootRoot)
  BY RootIs DEF UserLists
<1>18. HeapMapped(s, BootRoot, rs)
  <2> SUFFICES ASSUME NEW v \in Nat, End(Hhdm) <= v, v < ImageBase
               PROVE  ~(At(s.ent, BootRoot[Kernel], 0, v) >= 0)
    BY <1>15 DEF HeapMapped
  <2>1. v \notin BootRange
    <3>1. PICK e \in Nat, I \in Nat : e = End(Hhdm) /\ I = ImageBase
      BY Layout, FanFacts DEF End, Hhdm
    <3>2. ~(v < e) /\ ~(I <= v)
      BY <3>1
    <3> QED
      BY <3>1, <3>2, BootPages DEF BootRange
  <2>2. Own(Kernel, 0, v)
    BY Layout, Kernels, OwnPages
  <2>3. SameAt(s0, s, BootRoot, Kernel, 0, v)
    BY <1>7, <2>1, <2>2, Kernels DEF Grown
  <2>4. At(s.ent, BootRoot[Kernel], 0, v) = NONE
    BY <1>8, <2>3, Kernels DEF SameAt
  <2> QED
    BY <2>4 DEF NONE
<1>19. pml4 = BootRoot
  BY <1>1
<1> QED
  BY <1>6, <1>10, <1>11, <1>12, <1>13, <1>14, <1>16, <1>17, <1>18, <1>19 DEF PageInv, PlacesInv, s
------------------------------------------------------------------------------
(* Steps.                                                                  *)

\* Pages have been mapped for m, and nothing else has changed in the tables.
LEMMA Advance ==
    ASSUME NEW s, NEW t, NEW root, NEW rg, NEW rg2, NEW ld, NEW ld2,
           NEW m \in Maps, NEW R, NEW f,
           PlacesInv(s, root, rg, ld), Good(t, root), Grown(s, t, root, m, R, f),
           t.stop = "no" => s.stop = "no",
           m = Kernel => f = {}, m # Kernel => "user" \in f,
           \A u \in Users : ld2[u] <= Len(Segments) =>
              ld[u] <= Len(Segments) /\ (u = m => "xd" \notin f),
           CodeThere(t, root, ld2), Loads(root, ld2),
           HeapMapped(t, root, rg2[Kernel]), KernelList(rg2[Kernel]), UserLists(rg2, root)
    PROVE  PlacesInv(t, root, rg2, ld2)
<1>1. SlotThere(s, root) /\ KernelOnly(s, root) /\ UserAll(s, root) /\ LoadExec(s, root, ld)
  BY DEF PlacesInv
<1>2. KernelOnly(t, root) /\ UserAll(t, root)
  BY <1>1, FlagsAfter
<1>3. SlotThere(t, root)
  BY <1>1, SlotAfter
<1>4. LoadExec(t, root, ld2)
  BY <1>1, ExecAfter
<1> QED
  BY <1>2, <1>3, <1>4 DEF PlacesInv

\* The kernel's heap is as it was.
LEMMA HeapSame ==
    ASSUME NEW s, NEW t, NEW root, NEW m, NEW R, NEW f, Grown(s, t, root, m, R, f),
           m = Kernel => R = {}, NEW rs, HeapMapped(s, root, rs)
    PROVE  HeapMapped(t, root, rs)
<1> SUFFICES ASSUME NEW v \in Nat, End(Hhdm) <= v, v < ImageBase
             PROVE  At(t.ent, root[Kernel], 0, v) >= 0 <=> \E k \in HeapRegions(rs) : v \in RegionPages(rs[k])
  BY DEF HeapMapped
<1>1. Own(Kernel, 0, v) /\ Kernel \in Maps /\ 0 \in 0..4
  BY Layout, Kernels, OwnPages
<1>2. SameAt(s, t, root, Kernel, 0, v)
  BY <1>1 DEF Grown
<1> QED
  BY <1>2 DEF SameAt, HeapMapped

\* The memory after an operation that is done.
After == [free |-> head', ent |-> ent', flags |-> flags', stale |-> stale', nodes |-> nodes',
          at |-> 0, stop |-> halted']

LEMMA PrimedInv == PageInv' <=> PlacesInv(After, pml4', regions', loaded')
  BY DEF PageInv, Now, After

LEMMA CommitIs ==
    ASSUME NEW t, NEW root, Good(t, root), t.stop = "no", halted = "no",
           NEW rg2, NEW ld2, Commit(t, rg2, ld2)
    PROVE  /\ pml4' = pml4 /\ regions' = rg2 /\ loaded' = ld2
           /\ Good(After, root) /\ After.stop = "no"
           /\ After.ent = t.ent /\ After.flags = t.flags
<1>1. t \in Mems
  BY DEF Good
<1>2. /\ head' = t.free /\ ent' = t.ent /\ nodes' = t.nodes /\ flags' = t.flags /\ stale' = t.stale
      /\ regions' = rg2 /\ loaded' = ld2 /\ pml4' = pml4 /\ halted' = "no"
  BY DEF Commit
<1> DEFINE w == After
<1>3. w = [free |-> t.free, ent |-> t.ent, flags |-> t.flags, stale |-> t.stale, nodes |-> t.nodes,
           at |-> 0, stop |-> "no"]
  BY <1>2 DEF After
<1> HIDE DEF w
<1>4. /\ w \in Mems /\ w.free = t.free /\ w.ent = t.ent /\ w.stale = t.stale /\ w.flags = t.flags
      /\ w.stop = "no"
  BY <1>1, <1>3 DEF Mems, Kinds
<1>5. Good(w, root)
  BY <1>4, GoodSame
<1> QED
  BY <1>2, <1>4, <1>5 DEF w

\* Of what m has mapped, nothing was, or will be, in the way of code.
LEMMA SameLoads ==
    ASSUME NEW root, NEW ld, Loads(root, ld), NEW m \in Maps, NEW f,
           m \in Users => ~(ld[m] <= Len(Segments)) \/ "xd" \notin f
    PROVE  \A u \in Users : ld[u] <= Len(Segments) =>
              ld[u] <= Len(Segments) /\ (u = m => "xd" \notin f)
  OBVIOUS

\* The tables, flags and lists stay; the memory stops or has less to it.
LEMMA Still ==
    ASSUME NEW s, NEW t, NEW root, NEW rg, NEW ld, PlacesInv(s, root, rg, ld), Good(t, root),
           t.ent = s.ent, t.flags = s.flags, t.stop = "no" => s.stop = "no"
    PROVE  PlacesInv(t, root, rg, ld)
<1>1. Grown(s, t, root, Kernel, {}, {})
  BY GrownSelf
<1>2. /\ HeapMapped(s, root, rg[Kernel]) /\ KernelList(rg[Kernel]) /\ UserLists(rg, root)
      /\ Loads(root, ld) /\ CodeThere(s, root, ld) /\ Good(s, root)
  BY DEF PlacesInv
<1>3. HeapMapped(t, root, rg[Kernel])
  BY <1>1, <1>2, HeapSame
<1>4. CodeThere(t, root, ld)
  <2>1. Forest(s.ent, ToSet(s.free), root)
    BY <1>2 DEF Good
  <2> QED
    BY <1>1, <1>2, <2>1, Kernels, CodeAfter
<1>5. \A u \in Users : u # Kernel
  BY Kernels
<1> QED
  BY <1>1, <1>2, <1>3, <1>4, <1>5, Kernels, Advance

\* The kernel stops.
LEMMA StopKeeps ==
    ASSUME PageInv, halted' \in Kinds \ {"no"},
           UNCHANGED <<head, ent, flags, stale, pml4, regions, nodes, loaded>>
    PROVE  PageInv'
<1> DEFINE s == Now
           w == After
<1>1. PlacesInv(s, pml4, regions, loaded) /\ Good(s, pml4) /\ s \in Mems
  BY DEF PageInv, PlacesInv, Good
<1>2. s = [free |-> head, ent |-> ent, flags |-> flags, stale |-> stale, nodes |-> nodes,
           at |-> 0, stop |-> halted]
  BY DEF Now
<1>3. w = [free |-> head, ent |-> ent, flags |-> flags, stale |-> stale, nodes |-> nodes,
           at |-> 0, stop |-> halted']
  BY DEF After
<1> HIDE DEF s, w
<1>4. /\ w \in Mems /\ w.free = s.free /\ w.ent = s.ent /\ w.stale = s.stale /\ w.flags = s.flags
      /\ w.stop # "no"
  BY <1>1, <1>2, <1>3 DEF Mems
<1>5. Good(w, pml4)
  BY <1>1, <1>4, GoodSame
<1>6. PlacesInv(w, pml4, regions, loaded)
  BY <1>1, <1>4, <1>5, Still
<1>7. pml4' = pml4 /\ regions' = regions /\ loaded' = loaded
  OBVIOUS
<1> QED
  BY <1>6, <1>7, PrimedInv DEF w

\* A write of CR3.
LEMMA UpdateCr3Keeps ==
    ASSUME PageInv, UpdateCr3
    PROVE  PageInv'
<1> DEFINE s == Now
           w == After
<1>1. PlacesInv(s, pml4, regions, loaded) /\ Good(s, pml4) /\ s \in Mems
  BY DEF PageInv, PlacesInv, Good
<1>2. s = [free |-> head, ent |-> ent, flags |-> flags, stale |-> stale, nodes |-> nodes,
           at |-> 0, stop |-> halted]
  BY DEF Now
<1>3. w = [free |-> head, ent |-> ent, flags |-> flags, stale |-> {}, nodes |-> nodes,
           at |-> 0, stop |-> halted]
  BY DEF After, UpdateCr3
<1> HIDE DEF s, w
<1>4. /\ w \in Mems /\ w.free = s.free /\ w.ent = s.ent /\ w.stale = {} /\ w.flags = s.flags
      /\ w.stop = s.stop
  BY <1>1, <1>2, <1>3 DEF Mems
<1>5. Good(w, pml4)
  BY <1>1, <1>4, GoodLess DEF Good
<1>6. PlacesInv(w, pml4, regions, loaded)
  BY <1>1, <1>4, <1>5, Still
<1>7. pml4' = pml4 /\ regions' = regions /\ loaded' = loaded
  BY DEF UpdateCr3
<1> QED
  BY <1>6, <1>7, PrimedInv DEF w

LEMMA StutterKeeps ==
    ASSUME PageInv, UNCHANGED vars
    PROVE  PageInv'
<1>1. After = Now /\ pml4' = pml4 /\ regions' = regions /\ loaded' = loaded
  BY DEF vars, After, Now
<1> QED
  BY <1>1, PrimedInv DEF PageInv
------------------------------------------------------------------------------
(* What a step that changes a list does to the pages of its map.           *)

\* The list of m gets region x, which is mapped with the flags f.
Grew(m, k, x, f) ==
    /\ regions' = [regions EXCEPT ![m] = InsertAt(@, k, x)]
    /\ Grown(Now, After, pml4, m, RegionPages(x), f)

ListGrew(m) ==
    \/ regions' = regions
    \/ \E k \in 2..Len(regions[m]), x \in Regions, f \in SUBSET {"user", "xd"} : Grew(m, k, x, f)

\* An operation on a program's map that is done, or stopped.
Committed(rg2, u, R, f) ==
    regions' = regions \/ (regions' = rg2 /\ Grown(Now, After, pml4, u, R, f))

\* The kernel's list loses a region, which is not mapped any more.
ListShrank ==
    regions' = regions \/ \E k \in HeapRegions(regions[Kernel]) :
                             /\ regions'[Kernel] = RemoveAt(regions[Kernel], k)
                             /\ Unmapped(Now, After, pml4, RegionPages(regions[Kernel][k]))
------------------------------------------------------------------------------
(* Steps of programs.                                                      *)

LEMMA NowIs ==
    ASSUME PageInv
    PROVE  /\ PlacesInv(Now, pml4, regions, loaded) /\ Good(Now, pml4) /\ Now \in Mems
           /\ Now.ent = ent /\ Now.flags = flags /\ Now.free = head /\ Now.stale = stale
           /\ Now.stop = halted /\ Forest(ent, ToSet(head), pml4)
<1>1. PlacesInv(Now, pml4, regions, loaded) /\ Good(Now, pml4) /\ Now \in Mems
  BY DEF PageInv, PlacesInv, Good
<1>2. /\ Now.ent = ent /\ Now.flags = flags /\ Now.free = head /\ Now.stale = stale
      /\ Now.stop = halted
  BY DEF Now
<1>3. Forest(Now.ent, ToSet(Now.free), pml4)
  BY <1>1 DEF Good
<1>4. Forest(ent, ToSet(head), pml4)
  BY <1>2, <1>3
<1> QED
  BY <1>1, <1>2, <1>4

\* A program's pages, mapped.
LEMMA UserRange ==
    ASSUME NEW s, NEW w, NEW root, NEW u \in Users, root[u] # NONE, NEW f \in SUBSET {"user", "xd"},
           Mapped(s, w, root, u, {}, f),
           NEW base \in Nat, NEW n \in Nat, base + n <= HhdmBase, n <= OffsetPages,
           NEW t, t = mmap_range(w, root[u], base, n, f)
    PROVE  Mapped(s, t, root, u, base..(base + n - 1), f)
<1>1. u \in Maps /\ u # Kernel /\ Good(w, root)
  BY Kernels DEF Mapped
<1>2. ASSUME NEW v \in base..(base + n - 1) PROVE v \in Nat /\ Managed(u, 0, v)
  <2>1. v \in Nat /\ v < HhdmBase
    BY Layout
  <2> QED
    BY <1>1, <2>1, OwnPages DEF Managed
<1>3. Ranging(w, root, u, base, n, f)
  BY <1>1, <1>2 DEF Ranging
<1>4. Mapped(w, t, root, u, base..(base + n - 1), f)
  BY <1>3, RangeIs
<1> DEFINE R == base..(base + n - 1)
<1> HIDE DEF R
<1>5. Mapped(s, t, root, u, {} \cup R, f)
  <2>1. \A v \in {} : v \in Nat /\ Own(u, 0, v)
    OBVIOUS
  <2>2. Mapped(w, t, root, u, R, f)
    BY <1>4 DEF R
  <2> QED
    BY <1>1, <2>1, <2>2, MappedTrans
<1>6. {} \cup R = R
  OBVIOUS
<1> QED
  BY <1>5, <1>6 DEF R

LEMMA MappedSelf ==
    ASSUME NEW s, NEW root, Good(s, root), NEW m, NEW f
    PROVE  Mapped(s, s, root, m, {}, f)
  BY GrownSelf DEF Mapped

LEMMA UserCommit ==
    ASSUME PageInv, halted = "no", NEW u \in Users, NEW f, "user" \in f, NEW R,
           NEW t, Mapped(Now, t, pml4, u, R, f), NEW rg2, NEW ld2, Commit(t, rg2, ld2),
           t.stop = "no" =>
              /\ \A x \in Users : ld2[x] <= Len(Segments) =>
                    loaded[x] <= Len(Segments) /\ (x = u => "xd" \notin f)
              /\ CodeThere(t, pml4, ld2) /\ Loads(pml4, ld2)
              /\ rg2[Kernel] = regions[Kernel] /\ UserLists(rg2, pml4)
    PROVE  PageInv' /\ Committed(rg2, u, R, f)
<1>1. PlacesInv(Now, pml4, regions, loaded) /\ Now.stop = halted
  BY NowIs
<1>2. Good(t, pml4) /\ Grown(Now, t, pml4, u, R, f) /\ u \in Maps /\ u # Kernel
  BY Kernels DEF Mapped
<1>3. CASE t.stop # "no"
  <2>1. t.stop \in Kinds
    BY <1>2 DEF Good, Mems
  <2>2. halted' = t.stop /\ UNCHANGED <<head, ent, flags, stale, pml4, regions, nodes, loaded>>
    BY <1>3 DEF Commit
  <2> QED
    BY <1>3, <2>1, <2>2, StopKeeps DEF Committed
<1>4. CASE t.stop = "no"
  <2>1. /\ pml4' = pml4 /\ regions' = rg2 /\ loaded' = ld2
        /\ Good(After, pml4) /\ After.stop = "no"
        /\ After.ent = t.ent /\ After.flags = t.flags
    BY <1>2, <1>4, CommitIs
  <2>2. Grown(Now, After, pml4, u, R, f)
    BY <1>2, <2>1, GrownSame
  <2>3. CodeThere(After, pml4, ld2)
    <3>1. \A x, k, a : Fl(After, pml4, x, k, a) = Fl(t, pml4, x, k, a)
      BY <2>1 DEF Fl
    <3>2. CodeThere(t, pml4, ld2)
      BY <1>4
    <3> QED
      BY <2>1, <3>1, <3>2 DEF CodeThere
  <2>4. HeapMapped(After, pml4, rg2[Kernel]) /\ KernelList(rg2[Kernel])
    BY <1>1, <1>2, <1>4, <2>2, HeapSame DEF PlacesInv
  <2>5. PlacesInv(After, pml4, rg2, ld2)
    BY <1>1, <1>2, <1>4, <2>1, <2>2, <2>3, <2>4, Advance
  <2> QED
    BY <2>1, <2>2, <2>5, PrimedInv DEF Committed
<1> QED
  BY <1>3, <1>4

LEMMA MmapFixedKeeps ==
    ASSUME PageInv, ListsInv, strayed' = {}, NEW u \in Users, NEW h \in Hints,
           NEW n \in UserSizes, NEW exec \in BOOLEAN, MmapFixed(u, h, n, exec)
    PROVE  PageInv'
<1> DEFINE f == IF exec THEN UserFlags ELSE NoExecFlags
           t == mmap_range(Now, pml4[u], h, n, f)
<1>6. h \in Nat /\ n \in Nat /\ h + n <= HhdmBase /\ n <= OffsetPages
  <2>1. h \in Nat /\ n \in Nat /\ u \in Maps /\ u # Kernel
    BY VmmAssumption, Layout, Kernels
  <2>2. Remember(u, h, n)
    BY DEF MmapFixed
  <2>3. ~Strays(u, h, n)
    BY <2>1, <2>2, RememberIs
  <2>4. HhdmBase \in Nat /\ OffsetPages \in Nat
    BY Layout, IntBounds
  <2> QED
    BY <2>1, <2>3, <2>4 DEF Strays
<1>1. /\ halted = "no" /\ loaded[u] = Len(Segments) + 1 /\ Commit(t, regions, loaded)
  <2>1. n % (2 * IntPages) = n
    BY <1>6, IntBounds
  <2> QED
    BY <2>1 DEF MmapFixed, Running
<1>2. /\ PlacesInv(Now, pml4, regions, loaded) /\ Good(Now, pml4)
      /\ Forest(Now.ent, ToSet(Now.free), pml4)
  BY NowIs DEF Good
<1>3. /\ Loads(pml4, loaded) /\ UserLists(regions, pml4) /\ CodeThere(Now, pml4, loaded)
      /\ Len(Segments) \in Nat
  BY <1>2, VmmAssumption DEF PlacesInv
<1>4. pml4[u] # NONE
  BY <1>1, <1>3 DEF Loads
<1>5. f \in SUBSET {"user", "xd"} /\ "user" \in f
  BY DEF UserFlags, NoExecFlags
<1> HIDE DEF f
<1>7. Mapped(Now, t, pml4, u, h..(h + n - 1), f)
  <2>1. Mapped(Now, Now, pml4, u, {}, f)
    BY <1>2, MappedSelf
  <2> QED
    BY <1>4, <1>5, <1>6, <2>1, UserRange
<1>8. CodeThere(t, pml4, loaded)
  <2>1. Grown(Now, t, pml4, u, h..(h + n - 1), f) /\ u \in Maps
    BY <1>7, Kernels DEF Mapped
  <2> QED
    BY <1>2, <1>3, <2>1, CodeAfter
<1>9. \A x \in Users : loaded[x] <= Len(Segments) =>
         loaded[x] <= Len(Segments) /\ (x = u => "xd" \notin f)
  BY <1>1, <1>3
<1> HIDE DEF t
<1> QED
  BY <1>1, <1>3, <1>5, <1>7, <1>8, <1>9, UserCommit

LEMMA LoadStackKeeps ==
    ASSUME PageInv, NEW u \in Users, LoadStack(u)
    PROVE  PageInv'
<1> DEFINE f == UserFlags
           t == mmap_range(Now, pml4[u], Stack.base, Stack.length, f)
           load == [loaded EXCEPT ![u] = @ + 1]
<1>1. /\ halted = "no" /\ loaded[u] = Len(Segments) /\ pml4[u] # NONE /\ Commit(t, regions, load)
  BY DEF LoadStack
<1>2. /\ PlacesInv(Now, pml4, regions, loaded) /\ Good(Now, pml4)
      /\ Forest(Now.ent, ToSet(Now.free), pml4)
  BY NowIs DEF Good
<1>3. /\ Loads(pml4, loaded) /\ UserLists(regions, pml4) /\ CodeThere(Now, pml4, loaded)
      /\ Len(Segments) \in Nat
  BY <1>2, VmmAssumption DEF PlacesInv
<1>5. f \in SUBSET {"user", "xd"} /\ "user" \in f
  BY DEF UserFlags, NoExecFlags
<1> HIDE DEF f
<1>6. /\ Stack.base \in Nat /\ Stack.length \in Nat /\ Stack.base + Stack.length <= HhdmBase
      /\ Stack.length <= OffsetPages
  <2>1. OffsetPages \in Nat
    BY IntBounds
  <2> QED
    BY <2>1, VmmAssumption
<1> DEFINE R == Stack.base..(Stack.base + Stack.length - 1)
<1>7. Mapped(Now, t, pml4, u, R, f)
  <2>1. Mapped(Now, Now, pml4, u, {}, f)
    BY <1>2, MappedSelf
  <2> QED
    BY <1>1, <1>5, <1>6, <2>1, UserRange
<1> HIDE DEF t, R
<1>10. /\ load \in [Users -> 0..(Len(Segments) + 1)] /\ load[u] = Len(Segments) + 1
       /\ \A x \in Users : x # u => load[x] = loaded[x]
  <2>1. loaded \in [Users -> 0..(Len(Segments) + 1)]
    BY <1>3 DEF Loads
  <2> QED
    BY <1>1, <1>3, <2>1
<1> HIDE DEF load
<1>8. CodeThere(t, pml4, load)
  <2>1. Grown(Now, t, pml4, u, R, f) /\ u \in Maps
    BY <1>7, Kernels DEF Mapped
  <2>2. CodeThere(t, pml4, loaded)
    BY <1>2, <1>3, <2>1, CodeAfter
  <2>3. ASSUME NEW x \in Users, NEW g \in 1..Len(Segments), g <= load[x] PROVE g <= loaded[x]
    BY <1>1, <1>3, <1>10, <2>3
  <2> QED
    BY <2>2, <2>3 DEF CodeThere
<1>9. \A x \in Users : load[x] <= Len(Segments) =>
         loaded[x] <= Len(Segments) /\ (x = u => "xd" \notin f)
  BY <1>1, <1>3, <1>10
<1>11. Loads(pml4, load)
  BY <1>1, <1>3, <1>10 DEF Loads
<1> QED
  BY <1>1, <1>3, <1>5, <1>7, <1>8, <1>9, <1>11, UserCommit

\* In an ordered list, a region ends before every later one.
LEMMA Later ==
    ASSUME NEW s \in Seq(Regions), Ordered(s), NEW j \in 1..Len(s)
    PROVE  \A k \in (j + 1)..Len(s) : End(s[j]) <= s[k].base
<1>1. PICK n \in Nat : n = Len(s) /\ j \in 1..n
  OBVIOUS
<1>2. \A k \in 1..n : s[k].base \in Nat /\ s[k].length \in Nat /\ End(s[k]) \in Nat /\ s[k].base <= End(s[k])
  <2> SUFFICES ASSUME NEW k \in 1..n
               PROVE  s[k].base \in Nat /\ s[k].length \in Nat /\ End(s[k]) \in Nat /\ s[k].base <= End(s[k])
    OBVIOUS
  <2>1. s[k] \in Regions
    BY <1>1
  <2>2. PICK b \in Nat, l \in Nat : b = s[k].base /\ l = s[k].length
    BY <2>1 DEF Regions
  <2>3. End(s[k]) = b + l
    BY <2>2 DEF End
  <2>4. b + l \in Nat /\ b <= b + l
    OBVIOUS
  <2> QED
    BY ONLY <2>2, <2>3, <2>4
<1> DEFINE S == {d \in Nat : j + 1 + d <= n => End(s[j]) <= s[j + 1 + d].base}
<1>3. 0 \in S
  <2> SUFFICES ASSUME j + 1 + 0 <= n PROVE End(s[j]) <= s[j + 1 + 0].base
    OBVIOUS
  <2>1. j + 1 \in 2..n /\ (j + 1) - 1 = j /\ j + 1 + 0 = j + 1
    BY <1>1
  <2> QED
    BY <1>1, <2>1 DEF Ordered
<1>4. ASSUME NEW d \in Nat, d \in S PROVE d + 1 \in S
  <2> SUFFICES ASSUME j + 1 + (d + 1) <= n PROVE End(s[j]) <= s[j + 1 + (d + 1)].base
    OBVIOUS
  <2>1. PICK a \in Nat : a = j + 1 + d /\ a + 1 = j + 1 + (d + 1) /\ a \in 1..n /\ a + 1 \in 2..n /\ a + 1 \in 1..n
    BY <1>1
  <2>2. End(s[j]) <= s[a].base
    BY <1>4, <2>1
  <2>3. End(s[a]) <= s[a + 1].base
    <3>1. (a + 1) - 1 = a
      OBVIOUS
    <3> QED
      BY <1>1, <2>1, <3>1 DEF Ordered
  <2>4. PICK e \in Nat, b \in Nat, c \in Nat, x \in Nat :
           e = End(s[j]) /\ b = s[a].base /\ c = End(s[a]) /\ x = s[a + 1].base /\ b <= c
    BY <1>1, <1>2, <2>1
  <2>5. e <= x
    BY <2>2, <2>3, <2>4
  <2> QED
    BY <2>1, <2>4, <2>5
<1> HIDE DEF S
<1>5. \A d \in Nat : d \in S
  BY <1>3, <1>4, SetInduction
<1> SUFFICES ASSUME NEW k \in (j + 1)..n PROVE End(s[j]) <= s[k].base
  BY <1>1
<1>6. PICK d \in Nat : j + 1 + d = k
  <2>1. k - (j + 1) \in Nat /\ j + 1 + (k - (j + 1)) = k
    BY <1>1
  <2> QED
    BY <2>1
<1>7. d \in S
  BY <1>5
<1> QED
  BY <1>1, <1>6, <1>7 DEF S

LEMMA LastIsLast ==
    ASSUME NEW s \in Seq(Regions), Ordered(s), NEW k \in 1..Len(s)
    PROVE  s[k].base <= s[Len(s)].base /\ (k < Len(s) => End(s[k]) <= s[Len(s)].base)
<1>1. PICK n \in Nat : n = Len(s) /\ k \in 1..n
  OBVIOUS
<1>2. s[k] \in Regions /\ s[n] \in Regions
  BY <1>1
<1>3. PICK b \in Nat, l \in Nat, c \in Nat : b = s[k].base /\ l = s[k].length /\ c = s[n].base
  BY <1>2 DEF Regions
<1>4. CASE k = n
  BY <1>1, <1>3, <1>4
<1>5. CASE k # n
  <2>1. n \in (k + 1)..n
    BY <1>1, <1>5
  <2>2. End(s[k]) <= s[n].base
    BY <1>1, <2>1, Later
  <2>3. b + l <= c
    BY <1>3, <2>2 DEF End
  <2>4. b <= c
    BY <1>3, <2>3
  <2> QED
    BY <1>1, <1>3, <2>2, <2>4
<1> QED
  BY <1>4, <1>5

LEMMA InsertLast ==
    ASSUME NEW s \in Seq(Regions), NEW k \in 2..Len(s), NEW x \in Regions,
           NEW t, t = InsertAt(s, k, x)
    PROVE  Len(t) = Len(s) + 1 /\ t[Len(t)] = s[Len(s)] /\ t[1] = s[1]
<1>1. PICK n \in Nat : n = Len(s)
  OBVIOUS
<1>2. Inserted(t, s, n, k, x)
  <2>1. k \in 1..n
    BY <1>1
  <2> QED
    BY <1>1, <2>1, InsertIs
<1>3. Len(t) = n + 1 /\ 1 \in 1..(k - 1) /\ n + 1 \in (k + 1)..(n + 1) /\ (n + 1) - 1 = n
  BY <1>1, <1>2 DEF Inserted
<1> QED
  BY <1>1, <1>2, <1>3 DEF Inserted

\* A list that gets a region before its last one.
LEMMA UserListGrows ==
    ASSUME OrderInv, NEW root, UserLists(regions, root), NEW u \in Users,
           NEW k \in 2..Len(regions[u]), NEW x \in Regions, End(x) <= HhdmBase,
           NEW rg2, rg2 = [regions EXCEPT ![u] = InsertAt(@, k, x)]
    PROVE  UserLists(rg2, root) /\ rg2[Kernel] = regions[Kernel]
<1>1. regions \in [Maps -> Seq(Regions)] /\ u \in Maps /\ Kernel \in Maps /\ u # Kernel /\ Users \subseteq Maps
  BY Kernels DEF OrderInv
<1> DEFINE s == regions[u]
           t == InsertAt(s, k, x)
<1>2. s \in Seq(Regions)
  BY <1>1
<1>3. PICK n \in Nat : n = Len(s) /\ k \in 2..n
  BY <1>2
<1>6. Inserted(t, s, n, k, x)
  BY <1>2, <1>3, InsertIs
<1>7. Len(t) = n + 1 /\ \A j \in 1..n :
         \/ j \in 1..(n - 1) /\ t[j] = s[j]
         \/ t[j] = x
         \/ j - 1 \in 1..(n - 1) /\ t[j] = s[j - 1]
  <2>1. Len(t) = n + 1
    BY <1>6 DEF Inserted
  <2>2. ASSUME NEW j \in 1..n
        PROVE  \/ j \in 1..(n - 1) /\ t[j] = s[j]
               \/ t[j] = x
               \/ j - 1 \in 1..(n - 1) /\ t[j] = s[j - 1]
    <3>1. CASE j < k
      <4>1. j \in 1..(n - 1) /\ j \in 1..(k - 1)
        BY <1>3, <3>1
      <4> QED
        BY <1>6, <4>1 DEF Inserted
    <3>2. CASE j = k
      BY <1>6, <3>2 DEF Inserted
    <3>3. CASE j > k
      <4>1. j - 1 \in 1..(n - 1) /\ j \in (k + 1)..(n + 1)
        BY <1>3, <3>3
      <4> QED
        BY <1>6, <4>1 DEF Inserted
    <3> QED
      BY <1>3, <3>1, <3>2, <3>3
  <2> QED
    BY <2>1, <2>2
<1>4. rg2[u] = t /\ rg2[Kernel] = regions[Kernel] /\ \A y \in Users : y # u => rg2[y] = regions[y]
  BY <1>1
<1> HIDE DEF t, s
<1>5. ASSUME root[u] # NONE
      PROVE  Len(t) >= 2 /\ \A j \in 1..(Len(t) - 1) : End(t[j]) <= HhdmBase
  <2>1. n >= 2 /\ \A j \in 1..(n - 1) : End(s[j]) <= HhdmBase
    BY <1>3, <1>5 DEF UserLists, s
  <2>2. Len(t) - 1 = n /\ Len(t) >= 2
    BY <1>7, <2>1
  <2> QED
    BY <1>7, <2>1, <2>2
<1> QED
  BY <1>4, <1>5 DEF UserLists

LEMMA LoadSegmentKeepsPages ==
    ASSUME PageInv, OrderInv, NEW u \in Users, LoadSegment(u)
    PROVE  PageInv' /\ ListGrew(u)
<1> DEFINE f == UserFlags
           i == loaded[u] + 1
           g == Segments[i]
           rs == regions[u]
           places == {k \in 2..Len(rs) : rs[k].base >= g.base /\ End(rs[k - 1]) <= g.base}
           t == mmap_range(Now, pml4[u], g.base, g.length, f)
           load == [loaded EXCEPT ![u] = @ + 1]
<1>1. /\ halted = "no" /\ loaded[u] < Len(Segments) /\ pml4[u] # NONE
      /\ IF t.stop # "no" \/ places = {} THEN Commit(t, regions, load)
         ELSE Commit(Node(t), [regions EXCEPT ![u] = InsertAt(@, Min(places), g)], load)
  BY DEF LoadSegment
<1>2. /\ PlacesInv(Now, pml4, regions, loaded) /\ Good(Now, pml4)
      /\ Forest(Now.ent, ToSet(Now.free), pml4)
  BY NowIs DEF Good
<1>3. /\ Loads(pml4, loaded) /\ UserLists(regions, pml4) /\ CodeThere(Now, pml4, loaded)
      /\ LoadExec(Now, pml4, loaded) /\ Len(Segments) \in Nat /\ loaded[u] \in Nat
  <2>1. Len(Segments) \in Nat
    BY VmmAssumption
  <2> QED
    BY <1>2, <2>1 DEF PlacesInv, Loads
<1>4. i \in 1..Len(Segments) /\ loaded[u] <= Len(Segments)
  BY <1>1, <1>3
<1>5. f \in SUBSET {"user", "xd"} /\ "user" \in f /\ "xd" \notin f
  BY DEF UserFlags
<1> HIDE DEF f, i
<1>6. /\ g \in Regions /\ g.base \in Nat /\ g.length \in Nat /\ g.base + g.length <= HhdmBase
      /\ End(g) <= HhdmBase /\ g.length <= OffsetPages
  BY <1>4, SegmentShape DEF End
<1> DEFINE R == g.base..(g.base + g.length - 1)
<1>7. Mapped(Now, t, pml4, u, R, f)
  <2>1. Mapped(Now, Now, pml4, u, {}, f)
    BY <1>2, MappedSelf
  <2> HIDE DEF g
  <2> QED
    BY <1>1, <1>5, <1>6, <2>1, UserRange
<1>8. R = RegionPages(Segments[i])
  <2>1. \A a, l \in Nat : (a + l) - 1 = a + l - 1
    OBVIOUS
  <2>2. RegionPages(g) = g.base..((g.base + g.length) - 1)
    BY DEF RegionPages, End
  <2> QED
    BY <1>6, <2>1, <2>2
<1> HIDE DEF t, R, g
<1>10. /\ load \in [Users -> 0..(Len(Segments) + 1)] /\ load[u] = i /\ i <= Len(Segments)
       /\ \A x \in Users : x # u => load[x] = loaded[x]
  <2>1. loaded \in [Users -> 0..(Len(Segments) + 1)]
    BY <1>3 DEF Loads
  <2> QED
    BY <1>3, <1>4, <2>1 DEF i
<1> HIDE DEF load
<1>9. \A x \in Users : load[x] <= Len(Segments) =>
         loaded[x] <= Len(Segments) /\ (x = u => "xd" \notin f)
  BY <1>4, <1>5, <1>10
<1>11. Loads(pml4, load)
  BY <1>1, <1>3, <1>10 DEF Loads
<1>12. ASSUME NEW w, Mapped(Now, w, pml4, u, R, f), w.stop = "no" PROVE CodeThere(w, pml4, load)
  <2>1. Grown(Now, w, pml4, u, R, f) /\ u \in Maps /\ Forest(w.ent, ToSet(w.free), pml4)
    BY <1>12, Kernels DEF Mapped, Good
  <2>2. CodeThere(w, pml4, loaded)
    BY <1>2, <1>3, <2>1, CodeAfter
  <2>3. LoadExec(w, pml4, load)
    BY <1>3, <1>9, <2>1, ExecAfter
  <2> SUFFICES ASSUME NEW x \in Users, NEW h \in 1..Len(Segments), h <= load[x],
                      NEW v \in RegionPages(Segments[h]), NEW k \in 1..3
               PROVE  /\ At(w.ent, pml4[x], k, Prefix(k, v)) >= 0
                      /\ "xd" \notin Fl(w, pml4, x, k, Prefix(k, v))
    BY DEF CodeThere
  <2>4. CASE h <= loaded[x]
    BY <2>2, <2>4 DEF CodeThere
  <2>5. CASE ~(h <= loaded[x])
    <3>1. x = u /\ h = i
      <4>1. x = u
        BY <1>10, <2>5
      <4>2. h \in Nat /\ ~(h <= loaded[u]) /\ h <= i
        BY <1>3, <1>10, <2>5, <4>1
      <4> QED
        BY <1>3, <4>1, <4>2 DEF i
    <3>2. v \in R /\ v \in Nat /\ Own(u, 0, v)
      BY <1>8, <3>1, SegmentPages
    <3>3. At(w.ent, pml4[u], 0, v) >= 0
      BY <1>12, <3>2 DEF Mapped
    <3>4. At(w.ent, pml4[u], k, Prefix(k, v)) >= 0
      BY <2>1, <3>2, <3>3, PrefixPresent
    <3>5. Prefix(k, v) \in Nat /\ Own(u, k, Prefix(k, v))
      BY <2>1, <3>2, PrefixOwn
    <3>6. "xd" \notin Fl(w, pml4, u, k, Prefix(k, v))
      BY <1>10, <2>3, <3>5 DEF LoadExec
    <3> QED
      BY <3>1, <3>4, <3>6
  <2> QED
    BY <2>4, <2>5
<1>13. CASE t.stop # "no" \/ places = {}
  <2>1. Commit(t, regions, load)
    BY <1>1, <1>13
  <2>2. t.stop = "no" => CodeThere(t, pml4, load)
    BY <1>7, <1>12
  <2> HIDE DEF places
  <2>3. PageInv' /\ Committed(regions, u, R, f)
    BY <1>1, <1>3, <1>5, <1>7, <1>9, <1>11, <2>1, <2>2, UserCommit
  <2> QED
    BY <2>3 DEF Committed, ListGrew
<1>14. CASE ~(t.stop # "no" \/ places = {})
  <2> DEFINE k == Min(places)
             w == Node(t)
             rg2 == [regions EXCEPT ![u] = InsertAt(@, k, g)]
  <2>1. Commit(w, rg2, load) /\ places # {}
    BY <1>1, <1>14
  <2>2. k \in 2..Len(rs)
    <3>1. rs \in Seq(Regions)
      BY Kernels DEF OrderInv
    <3>2. Len(rs) \in Nat
      BY <3>1
    <3>3. places \in SUBSET Nat
      BY <3>2
    <3>4. k \in places
      BY <2>1, <3>3, MinInSet
    <3> QED
      BY <3>4
  <2> HIDE DEF k, w, places
  <2>3. UserLists(rg2, pml4) /\ rg2[Kernel] = regions[Kernel]
    BY <1>3, <1>6, <2>2, UserListGrows
  <2> HIDE DEF rg2
  <2>4. Mapped(Now, w, pml4, u, R, f)
    <3>1. Good(t, pml4) /\ u \in Maps
      BY <1>7, Kernels DEF Mapped
    <3>2. Mapped(t, w, pml4, u, {}, f)
      BY <3>1, NodeIs DEF w
    <3>3. \A v \in R : v \in Nat /\ Own(u, 0, v)
      BY <1>4, <1>8, SegmentPages
    <3>4. Mapped(Now, w, pml4, u, R \cup {}, f)
      BY <1>7, <3>1, <3>2, <3>3, MappedTrans
    <3>5. R \cup {} = R
      OBVIOUS
    <3> QED
      BY <3>4, <3>5
  <2>5. w.stop = "no" => CodeThere(w, pml4, load)
    BY <1>12, <2>4
  <2>6. PageInv' /\ Committed(rg2, u, R, f)
    BY <1>1, <1>5, <1>9, <1>11, <2>1, <2>3, <2>4, <2>5, UserCommit
  <2>7. ASSUME regions' # regions PROVE Grew(u, k, g, f)
    BY <1>8, <2>6, <2>7 DEF Committed, Grew, rg2, g
  <2> QED
    BY <1>5, <1>6, <2>2, <2>6, <2>7 DEF ListGrew
<1> QED
  BY <1>13, <1>14

LEMMA MmapAnonymousKeeps ==
    ASSUME PageInv, ListsInv, strayed' = {}, NEW u \in Users, NEW n \in UserSizes, MmapAnonymous(u, n)
    PROVE  PageInv' /\ ListGrew(u)
<1> DEFINE f == UserFlags
           k == FirstFit(u, n)
           rs == regions[u]
           b == End(rs[k - 1]) % PageSpace
           x == [base |-> b, length |-> n]
           t == mmap_range(Node(Now), pml4[u], b, n, f)
           rg2 == [regions EXCEPT ![u] = InsertAt(@, k, x)]
<1>0. u \in Maps /\ u # Kernel /\ n \in Nat
  BY Kernels, VmmAssumption, Layout
<1>1. /\ halted = "no" /\ loaded[u] = Len(Segments) + 1 /\ RegionAlloc(u, n)
  BY DEF MmapAnonymous, Running
<1>2. /\ PlacesInv(Now, pml4, regions, loaded) /\ Good(Now, pml4)
      /\ Forest(Now.ent, ToSet(Now.free), pml4)
  BY NowIs DEF Good
<1>3. /\ Loads(pml4, loaded) /\ UserLists(regions, pml4) /\ CodeThere(Now, pml4, loaded)
      /\ Len(Segments) \in Nat
  BY <1>2, VmmAssumption DEF PlacesInv
<1>4. pml4[u] # NONE
  BY <1>1, <1>3 DEF Loads
<1>5. f \in SUBSET {"user", "xd"} /\ "user" \in f
  BY DEF UserFlags
<1>8. OrderInv
  <2>1. strayed = {}
    BY <1>1 DEF RegionAlloc, NoRegion, NewRegion, Remember
  <2> QED
    BY <2>1, NoneStrayed
<1>6. CASE k = 0
  <2>1. halted' = "regions" /\ UNCHANGED <<head, ent, flags, stale, pml4, regions, nodes, loaded>>
    BY <1>1, <1>6 DEF RegionAlloc, NoRegion
  <2>2. "regions" \in Kinds \ {"no"}
    BY DEF Kinds
  <2> QED
    BY <2>1, <2>2, StopKeeps DEF ListGrew
<1>7. CASE k # 0
  <2>0. NewRegion(u, n, k, b)
    BY <1>1, <1>7 DEF RegionAlloc
  <2>1. u \notin strayed /\ n <= OffsetPages /\ (b \in Nat => b + n <= HhdmBase)
    <3> HIDE DEF b
    <3>1. Remember(u, b, n)
      BY <2>0 DEF NewRegion
    <3>2. u \notin strayed /\ ~Strays(u, b, n)
      BY <1>0, <3>1, RememberIs
    <3>3. HhdmBase \in Nat /\ OffsetPages \in Nat
      BY Layout, IntBounds
    <3> QED
      BY <1>0, <3>2, <3>3 DEF Strays
  <2>2. k \in 2..Len(rs) /\ x \in Regions
    BY <1>0, <1>7, <2>1, FitIsAGap
  <2>3. Commit(t, rg2, loaded)
    <3>1. Max({0, num_of_pages(n)}) = n
      BY <1>0, <2>1, IntBounds
    <3> HIDE DEF k, b
    <3> QED
      BY <1>0, <2>0, <3>1 DEF NewRegion, RegionFlags
  <2>4. b \in Nat /\ b + n <= HhdmBase /\ x.base = b /\ x.length = n /\ End(x) <= HhdmBase
    <3> HIDE DEF k, b
    <3>1. x.base = b /\ x.length = n
      OBVIOUS
    <3>2. b \in Nat
      BY <2>2, <3>1 DEF Regions
    <3> QED
      BY <2>1, <3>1, <3>2 DEF End
  <2> HIDE DEF k, x, f
  <2> DEFINE R == b..(b + n - 1)
  <2>5. Mapped(Now, t, pml4, u, R, f)
    <3> DEFINE w == Node(Now)
    <3>1. Mapped(Now, w, pml4, u, {}, f)
      BY <1>2, NodeIs
    <3> HIDE DEF w, b
    <3>2. t = mmap_range(w, pml4[u], b, n, f)
      BY DEF w
    <3> HIDE DEF t
    <3> QED
      BY <1>0, <1>4, <1>5, <2>1, <2>4, <3>1, <3>2, UserRange
  <2> HIDE DEF t, R
  <2>6. UserLists(rg2, pml4) /\ rg2[Kernel] = regions[Kernel]
    BY <1>3, <1>8, <2>2, <2>4, UserListGrows
  <2> HIDE DEF rg2
  <2>7. CodeThere(t, pml4, loaded)
    <3>1. Grown(Now, t, pml4, u, R, f)
      BY <2>5 DEF Mapped
    <3> QED
      BY <1>0, <1>2, <1>3, <3>1, CodeAfter
  <2>8. \A y \in Users : loaded[y] <= Len(Segments) =>
           loaded[y] <= Len(Segments) /\ (y = u => "xd" \notin f)
    BY <1>1, <1>3
  <2>9. PageInv' /\ Committed(rg2, u, R, f)
    BY <1>1, <1>3, <1>5, <2>3, <2>5, <2>6, <2>7, <2>8, UserCommit
  <2>10. R = RegionPages(x)
    <3>1. \A c \in Nat : (c + n) - 1 = c + n - 1
      BY <1>0
    <3> QED
      BY <2>4, <3>1 DEF R, RegionPages, End
  <2>11. ASSUME regions' # regions PROVE Grew(u, k, x, f)
    BY <2>9, <2>10, <2>11 DEF Committed, Grew, rg2
  <2> QED
    BY <1>5, <2>2, <2>9, <2>11 DEF ListGrew
<1> QED
  BY <1>6, <1>7
------------------------------------------------------------------------------
(* What does not fit into memory is not mapped.                            *)

\* The shape of memory, whatever the tables hold.
Lean(s) ==
    s \in [free: Seq(Phys), ent: {s.ent}, flags: {s.flags}, stale: {s.stale}, nodes: {s.nodes},
           at: {s.at}, stop: Kinds]

\* From s to t at least j pages have been taken, unless there were too few.
Eats(s, t, j) ==
    /\ Lean(t)
    /\ t.stop = "no" => s.stop = "no" /\ Len(t.free) + j <= Len(s.free)

LEMMA EatsTrans ==
    ASSUME NEW s, NEW t, NEW w, NEW i \in Nat, NEW j \in Nat,
           Lean(s), Eats(s, t, i), Eats(t, w, j)
    PROVE  Eats(s, w, i + j)
<1>1. Len(s.free) \in Nat /\ Len(t.free) \in Nat /\ Len(w.free) \in Nat
  BY DEF Eats, Lean
<1>2. Lean(w)
  BY DEF Eats
<1>3. ASSUME w.stop = "no" PROVE s.stop = "no" /\ Len(w.free) + (i + j) <= Len(s.free)
  <2>1. t.stop = "no" /\ Len(w.free) + j <= Len(t.free)
    BY <1>3 DEF Eats
  <2>2. s.stop = "no" /\ Len(t.free) + i <= Len(s.free)
    BY <2>1 DEF Eats
  <2>3. PICK a \in Nat, b \in Nat, c \in Nat :
           a = Len(s.free) /\ b = Len(t.free) /\ c = Len(w.free)
    BY <1>1
  <2>4. c + j <= b /\ b + i <= a
    BY <2>1, <2>2, <2>3
  <2>5. c + (i + j) <= a
    BY <2>4
  <2> QED
    BY <2>2, <2>3, <2>5
<1> QED
  BY <1>2, <1>3 DEF Eats

LEMMA TableEats ==
    ASSUME NEW s, Lean(s), NEW i, NEW f, NEW t, t = get_next_table(s, i, f)
    PROVE  Eats(s, t, 0)
<1> DEFINE e == s.ent[s.at][i]
           q == Head(s.free)
           ent2 == [s.ent EXCEPT ![q] = Blank, ![s.at][i] = q]
           fl2 == [s.flags EXCEPT ![q] = NoFlags, ![s.at][i] = f]
<1>1. Len(s.free) \in Nat /\ s.free \in Seq(Phys)
  BY DEF Lean
<1>2. CASE s.stop # "no"
  BY <1>2 DEF get_next_table, Eats
<1>3. CASE s.stop = "no" /\ e = WILD
  <2>1. t = [s EXCEPT !.stop = "wild"]
    BY <1>3 DEF get_next_table
  <2> HIDE DEF e
  <2> QED
    BY <2>1 DEF Lean, Eats, Kinds
<1>4. CASE s.stop = "no" /\ e # WILD /\ e # NONE
  <2>1. t = [s EXCEPT !.at = e]
    BY <1>4 DEF get_next_table
  <2> HIDE DEF e
  <2> QED
    BY <1>1, <2>1 DEF Lean, Eats
<1>5. CASE s.stop = "no" /\ e # WILD /\ e = NONE /\ s.free = <<>>
  <2>1. t = [s EXCEPT !.stop = "memory"]
    BY <1>5 DEF get_next_table
  <2> HIDE DEF e
  <2> QED
    BY <2>1 DEF Lean, Eats, Kinds
<1>6. CASE s.stop = "no" /\ e # WILD /\ e = NONE /\ s.free # <<>>
  <2>1. t = [s EXCEPT !.free = Tail(s.free), !.at = q, !.ent = ent2, !.flags = fl2]
    BY <1>6 DEF get_next_table, Lean
  <2>2. Tail(s.free) \in Seq(Phys) /\ Len(Tail(s.free)) <= Len(s.free) /\ Len(Tail(s.free)) \in Nat
    BY <1>1, <1>6
  <2> HIDE DEF e, q, ent2, fl2
  <2>3. Lean(t) /\ t.free = Tail(s.free) /\ t.stop = s.stop
    BY <2>1, <2>2 DEF Lean
  <2> QED
    BY <1>1, <2>2, <2>3 DEF Eats
<1> QED
  BY <1>2, <1>3, <1>4, <1>5, <1>6

LEMMA MapEats ==
    ASSUME NEW s, Lean(s), NEW r, NEW v, NEW p, NEW f, NEW t, t = map(s, r, v, p, f)
    PROVE  Eats(s, t, 0)
<1> DEFINE s0 == [s EXCEPT !.at = r]
           s1 == Lvl3Table(s, r, v, f)
           s2 == Lvl2Table(s, r, v, f)
           w == Lvl1Table(s, r, v, f)
           i == Index(v, 1)
           old == w.ent[w.at][i]
<1>1. Lean(s0) /\ Eats(s, s0, 0)
  BY DEF Lean, Eats
<1>2. Eats(s0, s1, 0)
  <2> HIDE DEF s0
  <2>1. s1 = get_next_table(s0, Index(v, 4), f)
    BY DEF Lvl3Table, s0
  <2> QED
    BY <1>1, <2>1, TableEats
<1> HIDE DEF s0
<1>3. Eats(s1, s2, 0)
  <2>1. s2 = get_next_table(s1, Index(v, 3), f)
    BY DEF Lvl2Table
  <2>2. Lean(s1)
    BY <1>2 DEF Eats
  <2> QED
    BY <2>1, <2>2, TableEats
<1>4. Eats(s2, w, 0)
  <2>1. w = get_next_table(s2, Index(v, 2), f)
    BY DEF Lvl1Table
  <2>2. Lean(s2)
    BY <1>3 DEF Eats
  <2> QED
    BY <2>1, <2>2, TableEats
<1>5. Eats(s, w, 0)
  <2>1. Eats(s, s1, 0 + 0)
    BY <1>1, <1>2, EatsTrans
  <2>2. Eats(s, s2, (0 + 0) + 0)
    BY <1>3, <2>1, EatsTrans
  <2>3. Eats(s, w, ((0 + 0) + 0) + 0)
    BY <1>4, <2>2, EatsTrans
  <2>4. ((0 + 0) + 0) + 0 = 0
    OBVIOUS
  <2> QED
    BY <2>3, <2>4
<1>6. Lean(w)
  BY <1>4 DEF Eats
<1>7. t = IF w.stop # "no" THEN w
          ELSE [w EXCEPT !.ent[w.at][i] = p, !.flags[w.at][i] = f,
                         !.stale = IF old < 0 \/ old = p THEN @ ELSE @ \cup {<<v, old>>}]
  BY DEF map
<1> HIDE DEF w, s1, s2
<1>8. CASE w.stop # "no"
  BY <1>5, <1>7, <1>8
<1>9. CASE w.stop = "no"
  <2> DEFINE ent2 == [w.ent EXCEPT ![w.at][i] = p]
             fl2 == [w.flags EXCEPT ![w.at][i] = f]
             st == IF old < 0 \/ old = p THEN w.stale ELSE w.stale \cup {<<v, old>>}
  <2>1. t = [w EXCEPT !.ent = ent2, !.flags = fl2, !.stale = st]
    BY <1>6, <1>7, <1>9 DEF Lean
  <2> HIDE DEF ent2, fl2, st
  <2>2. Lean(t) /\ t.free = w.free /\ t.stop = w.stop
    BY <1>6, <2>1 DEF Lean
  <2> QED
    BY <1>5, <2>2 DEF Eats
<1> QED
  BY <1>8, <1>9

LEMMA FreshEats ==
    ASSUME NEW s, Lean(s), NEW r, NEW v, NEW f, NEW t, t = MapFresh(s, r, v, f)
    PROVE  Eats(s, t, 1)
<1>1. Len(s.free) \in Nat /\ s.free \in Seq(Phys)
  BY DEF Lean
<1>2. CASE s.stop # "no"
  BY <1>2 DEF MapFresh, Eats
<1>3. CASE s.stop = "no" /\ s.free = <<>>
  <2>1. t = [s EXCEPT !.stop = "memory"]
    BY <1>3 DEF MapFresh
  <2> QED
    BY <2>1 DEF Lean, Eats, Kinds
<1>4. CASE s.stop = "no" /\ s.free # <<>>
  <2> DEFINE w == [s EXCEPT !.free = Tail(@)]
  <2>1. t = map(w, r, v, Head(s.free), f)
    BY <1>4 DEF MapFresh
  <2>2. Tail(s.free) \in Seq(Phys) /\ Len(Tail(s.free)) + 1 <= Len(s.free)
    BY <1>1, <1>4
  <2>3. Eats(s, w, 1)
    BY <2>2 DEF Lean, Eats
  <2> HIDE DEF w
  <2>4. Eats(w, t, 0)
    BY <2>1, <2>3, MapEats DEF Eats
  <2>5. Eats(s, t, 1 + 0)
    BY <2>3, <2>4, EatsTrans
  <2>6. 1 + 0 = 1
    OBVIOUS
  <2> QED
    BY <2>5, <2>6
<1> QED
  BY <1>2, <1>3, <1>4

LEMMA RangeEats ==
    ASSUME NEW s, Lean(s), NEW r, NEW base, NEW f, NEW n \in Nat,
           NEW t, t = mmap_range(s, r, base, n, f)
    PROVE  Eats(s, t, n)
<1>1. PICK g : /\ g[0] = s
               /\ \A k \in 1..n : g[k] = MapFresh(g[k - 1], r, (base + Offset(k - 1)) % AddressSpace, f)
               /\ mmap_range(s, r, base, n, f) = g[n]
  BY RangeTurns
<1> DEFINE S == {k \in Nat : k <= n => Eats(s, g[k], k)}
<1>2. 0 \in S
  <2>1. Len(s.free) \in Nat
    BY DEF Lean
  <2>2. Eats(s, g[0], 0)
    BY <1>1, <2>1 DEF Eats
  <2> QED
    BY <2>2
<1>3. ASSUME NEW k \in Nat, k \in S PROVE k + 1 \in S
  <2> SUFFICES ASSUME k + 1 <= n PROVE Eats(s, g[k + 1], k + 1)
    OBVIOUS
  <2>1. k + 1 \in 1..n /\ (k + 1) - 1 = k /\ k <= n
    OBVIOUS
  <2>2. Eats(s, g[k], k)
    BY <1>3, <2>1
  <2>3. g[k + 1] = MapFresh(g[k], r, (base + Offset(k)) % AddressSpace, f)
    BY <1>1, <2>1
  <2>4. Eats(g[k], g[k + 1], 1)
    BY <2>2, <2>3, FreshEats DEF Eats
  <2> QED
    BY <2>2, <2>4, EatsTrans
<1> HIDE DEF S
<1>4. n \in S
  BY <1>2, <1>3, SetInduction
<1> QED
  BY <1>1, <1>4 DEF S

\* The free list has no page twice, so it is no longer than memory.
LEMMA FewFree ==
    ASSUME NEW fr \in Seq(Phys), IsInjective(fr)
    PROVE  Len(fr) <= Pages
<1>1. PICK n \in Nat, p \in Nat : n = Len(fr) /\ p = Pages
  BY FanFacts
<1>2. fr \in [1..n -> 1..p] /\ IsInjective(fr)
  BY <1>1 DEF Phys
<1>3. fr \in Injection(1..n, 1..p)
  BY <1>2 DEF Injection
<1>4. IsFiniteSet(1..p) /\ Cardinality(1..p) = (IF 1 > p THEN 0 ELSE p - 1 + 1)
  BY FS_Interval
<1>5. Cardinality(1..n) = (IF 1 > n THEN 0 ELSE n - 1 + 1)
  BY FS_Interval
<1>6. Cardinality(1..n) <= Cardinality(1..p)
  BY <1>3, <1>4, FS_Injection
<1> QED
  BY <1>1, <1>4, <1>5, <1>6

\* kmalloc of more than there is stops the kernel.
LEMMA TooMuch ==
    ASSUME PageInv, NEW n \in Nat, n > Pages, NEW r, NEW base, NEW f,
           NEW t, t = mmap_range(Node(Now), r, base, n, f)
    PROVE  t.stop \in Kinds \ {"no"}
<1> DEFINE s == Node(Now)
<1>1. Mapped(Now, s, pml4, Kernel, {}, {})
  BY NowIs, NodeIs
<1> HIDE DEF s
<1>2. s \in Mems /\ IsInjective(s.free)
  BY <1>1 DEF Mapped, Good
<1>3. Lean(s) /\ s.free \in Seq(Phys)
  BY <1>2 DEF Mems, Lean
<1>4. Eats(s, t, n)
  BY <1>3, RangeEats DEF s
<1>5. Len(s.free) <= Pages
  BY <1>2, <1>3, FewFree
<1>6. t.stop \in Kinds /\ Len(t.free) \in Nat /\ Len(s.free) \in Nat /\ Pages \in Nat
  BY <1>3, <1>4, FanFacts DEF Eats, Lean
<1>7. t.stop # "no"
  BY <1>4, <1>5, <1>6 DEF Eats
<1> QED
  BY <1>6, <1>7
------------------------------------------------------------------------------
(* Steps of the kernel.                                                    *)

\* Before the first gap that fits, every gap is too small.
LEMMA GapBefore ==
    ASSUME ListsInv, NEW m \in Maps \ strayed, NEW n \in Nat, n <= OffsetPages, FirstFit(m, n) # 0,
           NEW j \in 2..Len(regions[m]), j < FirstFit(m, n)
    PROVE  regions[m][j].base <= End(regions[m][j - 1]) + n
<1> DEFINE s == regions[m]
           fits == {k \in 2..Len(s) : Gap(s[k - 1], s[k]) >= Needed(n)}
           k == FirstFit(m, n)
<1>1. s \in Seq(Regions) /\ Ordered(s) /\ InSpace(s)
  BY DEF ListsInv
<1>2. fits # {} /\ k = Min(fits)
  BY DEF FirstFit
<1>3. k \in Nat /\ \A y \in fits : k <= y
  <2>1. fits \in SUBSET Nat
    BY <1>1
  <2>2. Min(fits) \in fits /\ \A y \in fits : Min(fits) <= y
    BY <1>2, <2>1, MinInSet
  <2> QED
    BY <1>2, <2>1, <2>2
<1>4. j \notin fits
  <2> HIDE DEF fits, k
  <2>1. j \in Nat /\ j < k
    BY <1>1 DEF k
  <2> QED
    BY <1>3, <2>1
<1>5. ~(Gap(s[j - 1], s[j]) >= n + 1)
  <2>1. Needed(n) = n + 1
    BY IntBounds
  <2> QED
    BY <1>4, <2>1
<1> HIDE DEF s, k, fits
<1>6. s[j - 1] \in Regions /\ s[j] \in Regions /\ s[j].base < PageSpace /\ End(s[j - 1]) <= s[j].base
  <2>1. PICK z \in Nat : z = Len(s)
    BY <1>1
  <2>2. j \in 2..z /\ j - 1 \in 1..z /\ j \in 1..z
    BY <2>1 DEF s
  <2>3. s[j - 1] \in Regions /\ s[j] \in Regions
    BY <1>1, <2>1, <2>2
  <2>4. s[j].base < PageSpace /\ End(s[j - 1]) <= s[j].base
    BY <1>1, <2>1, <2>2 DEF Ordered, InSpace
  <2> QED
    BY <2>3, <2>4
<1>7. PICK b \in Nat, e \in Nat, A \in Nat \ {0} : b = s[j].base /\ e = End(s[j - 1]) /\ A = PageSpace
  BY <1>6, Layout DEF Regions, End
<1>8. b - e \in 0..(A - 1)
  BY <1>6, <1>7
<1>9. Gap(s[j - 1], s[j]) = b - e
  <2>1. \A d \in 0..(A - 1) : d % A = d
    OBVIOUS
  <2>2. Gap(s[j - 1], s[j]) = (b - e) % A
    BY <1>7 DEF Gap
  <2> QED
    BY <1>8, <2>1, <2>2
<1>10. b <= e + n
  BY <1>5, <1>7, <1>9
<1> QED
  BY <1>7, <1>10 DEF s

\* The new region is in the heap's slot.
LEMMA HeapFits ==
    ASSUME ListsInv, Kernel \notin strayed, KernelList(regions[Kernel]),
           NEW n \in KernelSizes, n <= Pages, n <= OffsetPages,
           Len(regions[Kernel]) < 2 + MaxRegions, FirstFit(Kernel, n) # 0,
           NEW b, b = End(regions[Kernel][FirstFit(Kernel, n) - 1])
    PROVE  b \in Nat /\ End(Hhdm) <= b /\ b + n <= ImageBase /\ b + n <= HhdmBase + Slot
<1> DEFINE rs == regions[Kernel]
           k == FirstFit(Kernel, n)
<1>1. Kernel \in Maps \ strayed /\ n \in Nat \ {0} /\ n \in 1..Pages
  BY VmmAssumption, FanFacts, Layout DEF Maps
<1>2. rs \in Seq(Regions) /\ Ordered(rs)
  BY <1>1 DEF ListsInv
<1>3. k \in 2..Len(rs) /\ b + n <= rs[k].base
  <2> DEFINE x == [base |-> b % PageSpace, length |-> n]
  <2>1. k \in 2..Len(rs) /\ x.base = b /\ End(x) <= rs[k].base
    BY <1>1, FitIsAGap
  <2> HIDE DEF k, rs
  <2>2. x.length = n
    OBVIOUS
  <2> HIDE DEF x
  <2> QED
    BY <2>1, <2>2 DEF End
<1>4. \A j \in 2..Len(rs) : j < k => rs[j].base <= End(rs[j - 1]) + n
  BY <1>1, GapBefore
<1> HIDE DEF rs, k
<1>5. PICK z \in Nat, M \in Nat : z = Len(rs) /\ M = MaxRegions /\ z < 2 + M /\ k \in 2..z
  BY <1>2, <1>3, VmmAssumption DEF rs
<1>6. PICK K \in Nat : K \in KernelSizes /\ K <= Pages /\ \A y \in KernelSizes : y <= Pages => y <= K
  <2> DEFINE S == KernelSizes \cap (1..Pages)
  <2>1. S \in SUBSET (1..Pages) /\ S # {} /\ Pages \in Nat
    BY <1>1, FanFacts
  <2>2. Max(S) \in S /\ \A y \in S : y <= Max(S)
    BY <2>1, MaxOfIndices
  <2>3. \A y \in KernelSizes : y <= Pages => y \in S
    BY <2>1, VmmAssumption
  <2>4. \A y \in S : y \in KernelSizes /\ y <= Pages /\ y \in Nat
    BY <2>1
  <2> DEFINE K == Max(S)
  <2> HIDE DEF S, K
  <2>5. K \in S /\ \A y \in S : y <= K
    BY <2>2 DEF K
  <2>6. K \in Nat /\ K \in KernelSizes /\ K <= Pages /\ \A y \in KernelSizes : y <= Pages => y <= K
    BY <2>3, <2>4, <2>5
  <2> QED
    BY <2>6
<1>7. PICK H \in Nat, L \in Nat, Z \in Nat, I \in Nat :
         /\ H = HhdmBase /\ L = HhdmLength /\ Z = Slot /\ I = ImageBase
         /\ L + 2 * M * K <= Z /\ End(Hhdm) = H + L
  BY <1>5, <1>6, VmmAssumption, Layout, FanFacts DEF End, Hhdm
<1>8. /\ rs[1] = Hhdm /\ rs[z] = Image
      /\ \A j \in HeapRegions(rs) : rs[j].length \in KernelSizes /\ rs[j].length <= Pages
  BY <1>5 DEF KernelList, rs
<1>9. \A j \in 1..z : rs[j].base \in Nat /\ rs[j].length \in Nat /\ End(rs[j]) \in Nat /\ End(rs[j]) = rs[j].base + rs[j].length
  <2> SUFFICES ASSUME NEW j \in 1..z
               PROVE  rs[j].base \in Nat /\ rs[j].length \in Nat /\ End(rs[j]) \in Nat /\ End(rs[j]) = rs[j].base + rs[j].length
    OBVIOUS
  <2>1. rs[j] \in Regions
    BY <1>2, <1>5
  <2> QED
    BY <2>1 DEF Regions, End
<1> DEFINE S == {d \in Nat : d + 2 <= k => End(rs[d + 1]) <= H + L + d * (2 * K)}
<1>10. 0 \in S
  <2>1. 0 * (2 * K) = 0 /\ 0 + 1 = 1
    BY <1>6
  <2> QED
    BY <1>7, <1>8, <2>1
<1>11. ASSUME NEW d \in Nat, d \in S PROVE d + 1 \in S
  <2> SUFFICES ASSUME (d + 1) + 2 <= k PROVE End(rs[(d + 1) + 1]) <= H + L + (d + 1) * (2 * K)
    OBVIOUS
  <2>1. PICK j \in Nat : /\ j = (d + 1) + 1 /\ j \in 2..(z - 1) /\ j \in 2..z /\ j < k /\ j - 1 = d + 1
                         /\ d + 1 \in 1..z /\ j \in 1..z
    BY <1>5
  <2>2. rs[j].base <= End(rs[d + 1]) + n
    BY <1>4, <1>5, <2>1
  <2>3. rs[j].length <= K
    <3>1. j \in HeapRegions(rs)
      BY <1>5, <2>1 DEF HeapRegions
    <3> QED
      BY <1>6, <1>8, <3>1
  <2>a. PICK D \in Nat : D = d * (2 * K)
    <3>1. d * (2 * K) \in Nat
      BY SMT
    <3> QED
      BY <3>1
  <2>4. PICK e \in Nat, c \in Nat, l \in Nat, N \in Nat :
           /\ e = End(rs[d + 1]) /\ c = rs[j].base /\ l = rs[j].length /\ N = n
           /\ End(rs[j]) = c + l /\ N <= K
    <3>1. n <= K
      BY <1>1, <1>6
    <3>2. End(rs[d + 1]) \in Nat
      BY <1>9, <2>1
    <3> HIDE DEF S
    <3> QED
      BY <1>1, <1>9, <2>1, <3>1, <3>2
  <2>5. e <= H + L + D
    BY <1>5, <1>11, <2>1, <2>4, <2>a
  <2>6. (d + 1) * (2 * K) = D + 2 * K
    BY <2>a
  <2> HIDE DEF S
  <2>7. c + l <= H + L + (D + 2 * K)
    <3>1. c <= e + N /\ l <= K /\ N <= K
      BY <2>2, <2>3, <2>4
    <3> QED
      BY ONLY <2>5, <3>1, e \in Nat, c \in Nat, l \in Nat, N \in Nat, D \in Nat, H \in Nat, L \in Nat, K \in Nat
  <2> QED
    BY <2>1, <2>4, <2>6, <2>7
<1>12. PICK d \in Nat : d + 2 = k
  <2>1. k - 2 \in Nat /\ (k - 2) + 2 = k
    BY <1>5
  <2> QED
    BY <2>1
<1>13. End(rs[d + 1]) <= H + L + d * (2 * K)
  <2>1. \A x \in Nat : x \in S
    <3> HIDE DEF S
    <3> QED
      BY <1>10, <1>11, SetInduction
  <2>2. d \in S
    BY <2>1
  <2> QED
    BY <1>12, <2>2
<1> HIDE DEF S
<1>14. d + 1 = k - 1 /\ d + 1 \in 1..z /\ d + 1 <= M
  BY <1>5, <1>12
<1>15. b = End(rs[d + 1]) /\ b \in Nat
  <2>1. b = End(rs[k - 1])
    BY DEF rs, k
  <2> QED
    BY <1>9, <1>14, <2>1
<1>16. b + n <= H + Z
  <2>1. d * (2 * K) + 2 * K <= 2 * M * K
    <3>1. (d + 1) * (2 * K) <= M * (2 * K)
      <4>1. 2 * K \in Nat /\ d + 1 \in Nat
        OBVIOUS
      <4> QED
        BY <1>14, <4>1, MulMono
    <3>2. (d + 1) * (2 * K) = d * (2 * K) + 2 * K /\ M * (2 * K) = 2 * M * K
      OBVIOUS
    <3> QED
      BY <3>1, <3>2
  <2>2. PICK D \in Nat, E \in Nat, N \in Nat : D = d * (2 * K) /\ E = 2 * M * K /\ N = n /\ N <= K
    <3>1. d * (2 * K) \in Nat /\ 2 * M * K \in Nat
      BY SMT
    <3>2. n <= K
      BY <1>1, <1>6
    <3> QED
      BY <1>1, <3>1, <3>2
  <2>3. D + 2 * K <= E /\ L + E <= Z /\ b <= H + L + D
    BY <1>7, <1>13, <1>15, <2>1, <2>2
  <2> QED
    BY <1>15, <2>2, <2>3
<1>17. End(Hhdm) <= b
  <2>1. CASE k = 2
    <3>1. b = End(rs[1])
      BY <1>12, <1>15, <2>1
    <3> QED
      BY <1>7, <1>8, <1>15, <3>1
  <2>2. CASE k # 2
    <3>1. k - 1 \in (1 + 1)..Len(rs) /\ 1 \in 1..Len(rs)
      BY <1>5, <2>2
    <3>2. End(rs[1]) <= rs[k - 1].base
      BY <1>2, <3>1, Later
    <3>3. PICK c \in Nat, l \in Nat : c = rs[k - 1].base /\ l = rs[k - 1].length /\ b = c + l
      BY <1>9, <1>14, <1>15
    <3>4. H + L <= c
      BY <1>7, <1>8, <3>2, <3>3
    <3>5. H + L <= b
      BY <3>3, <3>4
    <3> QED
      BY <1>7, <3>5
  <2> QED
    BY <2>1, <2>2
<1>18. b + n <= ImageBase
  <2>1. k \in 1..Len(rs)
    BY <1>5
  <2>2. rs[k].base <= rs[z].base
    BY <1>2, <1>5, <2>1, LastIsLast
  <2>3. rs[z].base = I
    BY <1>7, <1>8 DEF Image
  <2>4. rs[k].base \in Nat
    BY <1>5, <1>9
  <2> QED
    BY <1>1, <1>3, <1>7, <1>15, <2>2, <2>3, <2>4
<1> QED
  BY <1>7, <1>15, <1>16, <1>17, <1>18

Heap(s) == {s[j] : j \in HeapRegions(s)}

\* The regions of a heap that got one, and of a heap that lost one.
LEMMA InsertHeap ==
    ASSUME NEW s \in Seq(Regions), NEW k \in 2..Len(s), NEW x \in Regions,
           NEW t, t = InsertAt(s, k, x)
    PROVE  Heap(t) = Heap(s) \cup {x}
<1>1. PICK n \in Nat : n = Len(s) /\ k \in 2..n
  OBVIOUS
<1>2. Inserted(t, s, n, k, x)
  <2>1. k \in 1..n
    BY <1>1
  <2> QED
    BY <1>1, <2>1, InsertIs
<1>3. HeapRegions(t) = 2..n /\ HeapRegions(s) = 2..(n - 1)
  BY <1>1, <1>2 DEF HeapRegions, Inserted
<1> SUFFICES ASSUME NEW r
             PROVE  (\E j \in 2..n : t[j] = r) <=> r = x \/ \E j \in 2..(n - 1) : s[j] = r
  BY <1>3 DEF Heap
<1>4. ASSUME NEW j \in 2..n, t[j] = r PROVE r = x \/ \E i \in 2..(n - 1) : s[i] = r
  <2>1. CASE j < k
    <3>1. j \in 1..(k - 1) /\ j \in 2..(n - 1)
      BY <1>1, <2>1
    <3> QED
      BY <1>2, <1>4, <3>1 DEF Inserted
  <2>2. CASE j = k
    BY <1>2, <1>4, <2>2 DEF Inserted
  <2>3. CASE j > k
    <3>1. j \in (k + 1)..(n + 1) /\ j - 1 \in 2..(n - 1)
      BY <1>1, <2>3
    <3> QED
      BY <1>2, <1>4, <3>1 DEF Inserted
  <2> QED
    BY <1>1, <2>1, <2>2, <2>3
<1>5. ASSUME NEW i \in 2..(n - 1), s[i] = r PROVE \E j \in 2..n : t[j] = r
  <2>1. CASE i < k
    <3>1. i \in 1..(k - 1) /\ i \in 2..n
      BY <1>1, <2>1
    <3> QED
      BY <1>2, <1>5, <3>1 DEF Inserted
  <2>2. CASE i >= k
    <3>1. i + 1 \in (k + 1)..(n + 1) /\ i + 1 \in 2..n /\ (i + 1) - 1 = i
      BY <1>1, <2>2
    <3> QED
      BY <1>2, <1>5, <3>1 DEF Inserted
  <2> QED
    BY <1>1, <2>1, <2>2
<1>6. t[k] = x
  BY <1>2 DEF Inserted
<1> QED
  BY <1>1, <1>4, <1>5, <1>6

LEMMA RemoveHeap ==
    ASSUME NEW s \in Seq(Regions), NEW k \in HeapRegions(s), NEW t, t = RemoveAt(s, k)
    PROVE  /\ Heap(t) = {s[j] : j \in HeapRegions(s) \ {k}}
           /\ Len(t) = Len(s) - 1 /\ t[1] = s[1] /\ t[Len(t)] = s[Len(s)] /\ Len(s) >= 3
<1>1. PICK n \in Nat : n = Len(s) /\ k \in 2..(n - 1)
  BY DEF HeapRegions
<1>2. Removed(t, s, n, k)
  <2>1. k \in 1..n
    BY <1>1
  <2> QED
    BY <1>1, <2>1, RemoveIs
<1>3. HeapRegions(t) = 2..(n - 1 - 1) /\ HeapRegions(s) = 2..(n - 1)
  BY <1>1, <1>2 DEF HeapRegions, Removed
<1>4. ASSUME NEW r, NEW j \in 2..(n - 1 - 1), t[j] = r PROVE \E i \in (2..(n - 1)) \ {k} : s[i] = r
  <2>1. CASE j < k
    <3>1. j \in 1..(k - 1) /\ j \in 2..(n - 1) /\ j # k
      BY <1>1, <2>1
    <3> QED
      BY <1>2, <1>4, <3>1 DEF Removed
  <2>2. CASE j >= k
    <3>1. j \in k..(n - 1) /\ j + 1 \in 2..(n - 1) /\ j + 1 # k
      BY <1>1, <2>2
    <3> QED
      BY <1>2, <1>4, <3>1 DEF Removed
  <2> QED
    BY <1>1, <2>1, <2>2
<1>5. ASSUME NEW r, NEW i \in 2..(n - 1), i # k, s[i] = r PROVE \E j \in 2..(n - 1 - 1) : t[j] = r
  <2>1. CASE i < k
    <3>1. i \in 1..(k - 1) /\ i \in 2..(n - 1 - 1)
      BY <1>1, <2>1
    <3> QED
      BY <1>2, <1>5, <3>1 DEF Removed
  <2>2. CASE i > k
    <3>1. i - 1 \in k..(n - 1) /\ i - 1 \in 2..(n - 1 - 1) /\ (i - 1) + 1 = i
      BY <1>1, <2>2
    <3> QED
      BY <1>2, <1>5, <3>1 DEF Removed
  <2> QED
    BY <1>1, <1>5, <2>1, <2>2
<1>6. Heap(t) = {s[j] : j \in HeapRegions(s) \ {k}}
  <2>1. \A r : (\E j \in HeapRegions(t) : t[j] = r) <=> \E j \in HeapRegions(s) \ {k} : s[j] = r
    BY <1>3, <1>4, <1>5
  <2> QED
    BY <2>1 DEF Heap
<1>7. Len(t) = n - 1 /\ n >= 3 /\ 1 \in 1..(k - 1) /\ n - 1 \in k..(n - 1) /\ (n - 1) + 1 = n
  BY <1>1, <1>2 DEF Removed
<1>8. t[1] = s[1] /\ t[n - 1] = s[(n - 1) + 1]
  BY <1>2, <1>7 DEF Removed
<1> QED
  BY <1>1, <1>6, <1>7, <1>8

\* Two regions of an ordered list have no page in common.
LEMMA Disjoint ==
    ASSUME NEW s \in Seq(Regions), Ordered(s), NEW i \in 1..Len(s), NEW j \in 1..Len(s), i # j,
           NEW v \in RegionPages(s[i])
    PROVE  v \notin RegionPages(s[j])
<1>1. PICK n \in Nat : n = Len(s) /\ i \in 1..n /\ j \in 1..n
  OBVIOUS
<1>2. s[i] \in Regions /\ s[j] \in Regions
  BY <1>1
<1>3. PICK a \in Nat, b \in Nat, c \in Nat, d \in Nat :
         a = s[i].base /\ b = s[i].length /\ c = s[j].base /\ d = s[j].length
  BY <1>2 DEF Regions
<1>4. a + b <= c \/ c + d <= a
  <2>1. CASE i < j
    <3>1. j \in (i + 1)..Len(s)
      BY <1>1, <2>1
    <3>2. End(s[i]) <= s[j].base
      BY <3>1, Later
    <3> QED
      BY <1>3, <3>2 DEF End
  <2>2. CASE j < i
    <3>1. i \in (j + 1)..Len(s)
      BY <1>1, <2>2
    <3>2. End(s[j]) <= s[i].base
      BY <3>1, Later
    <3> QED
      BY <1>3, <3>2 DEF End
  <2> QED
    BY <1>1, <2>1, <2>2
<1>5. v \in a..((a + b) - 1)
  BY <1>3 DEF RegionPages, End
<1>6. RegionPages(s[j]) = c..((c + d) - 1)
  BY <1>3 DEF RegionPages, End
<1>7. v \notin c..((c + d) - 1)
  BY <1>4, <1>5
<1> QED
  BY <1>6, <1>7

\* The kernel's lists.
LEMMA KernelListGrows ==
    ASSUME NEW s \in Seq(Regions), KernelList(s), NEW k \in 2..Len(s), NEW x \in Regions,
           x.length \in KernelSizes, x.length <= Pages, x.length <= OffsetPages,
           End(x) <= HhdmBase + Slot, NEW t, t = InsertAt(s, k, x)
    PROVE  KernelList(t)
<1>1. Len(t) = Len(s) + 1 /\ t[Len(t)] = s[Len(s)] /\ t[1] = s[1] /\ Len(s) \in Nat
  BY InsertLast
<1>2. ASSUME NEW j \in HeapRegions(t)
      PROVE  /\ t[j].length \in KernelSizes /\ t[j].length <= Pages /\ t[j].length <= OffsetPages
             /\ End(t[j]) <= HhdmBase + Slot
  <2>1. Heap(t) = Heap(s) \cup {x}
    BY InsertHeap
  <2>2. t[j] = x \/ \E i \in HeapRegions(s) : s[i] = t[j]
    BY <1>2, <2>1 DEF Heap
  <2> QED
    BY <2>2 DEF KernelList
<1> QED
  BY <1>1, <1>2 DEF KernelList

LEMMA KernelListShrinks ==
    ASSUME NEW s \in Seq(Regions), KernelList(s), NEW k \in HeapRegions(s), NEW t, t = RemoveAt(s, k)
    PROVE  KernelList(t)
<1>1. Len(t) = Len(s) - 1 /\ t[1] = s[1] /\ t[Len(t)] = s[Len(s)] /\ Len(s) >= 3 /\ Len(s) \in Nat
  BY RemoveHeap
<1>2. ASSUME NEW j \in HeapRegions(t)
      PROVE  /\ t[j].length \in KernelSizes /\ t[j].length <= Pages /\ t[j].length <= OffsetPages
             /\ End(t[j]) <= HhdmBase + Slot
  <2>1. Heap(t) = {s[i] : i \in HeapRegions(s) \ {k}}
    BY RemoveHeap
  <2>2. \E i \in HeapRegions(s) \ {k} : s[i] = t[j]
    BY <1>2, <2>1 DEF Heap
  <2> QED
    BY <2>2 DEF KernelList
<1> QED
  BY <1>1, <1>2 DEF KernelList

\* The heap, with the new region mapped.
LEMMA HeapGrows ==
    ASSUME NEW a, NEW b, NEW root, NEW s \in Seq(Regions), NEW k \in 2..Len(s), NEW x \in Regions,
           HeapMapped(a, root, s),
           Grown(a, b, root, Kernel, RegionPages(x), {}),
           \A v \in RegionPages(x) : At(b.ent, root[Kernel], 0, v) >= 0
    PROVE  HeapMapped(b, root, InsertAt(s, k, x))
<1> DEFINE t == InsertAt(s, k, x)
<1> SUFFICES ASSUME NEW v \in Nat, End(Hhdm) <= v, v < ImageBase
             PROVE  At(b.ent, root[Kernel], 0, v) >= 0 <=> \E j \in HeapRegions(t) : v \in RegionPages(t[j])
  BY DEF HeapMapped
<1>1. Own(Kernel, 0, v) /\ Kernel \in Maps /\ 0 \in 0..4
  BY Layout, Kernels, OwnPages
<1>2. (\E j \in HeapRegions(t) : v \in RegionPages(t[j]))
         <=> v \in RegionPages(x) \/ \E j \in HeapRegions(s) : v \in RegionPages(s[j])
  <2>1. Heap(t) = Heap(s) \cup {x}
    BY InsertHeap
  <2> HIDE DEF t
  <2> QED
    BY <2>1 DEF Heap
<1>3. At(a.ent, root[Kernel], 0, v) >= 0 <=> \E j \in HeapRegions(s) : v \in RegionPages(s[j])
  BY DEF HeapMapped
<1>4. SameAt(a, b, root, Kernel, 0, v) \/ v \in RegionPages(x)
  BY <1>1 DEF Grown
<1>5. At(a.ent, root[Kernel], 0, v) >= 0 => At(b.ent, root[Kernel], 0, v) >= 0
  BY <1>1, KeepsPresent
<1> HIDE DEF t
<1> QED
  BY <1>2, <1>3, <1>4, <1>5 DEF SameAt

\* The heap, with a region gone.
LEMMA HeapShrinks ==
    ASSUME NEW a, NEW b, NEW root, NEW s \in Seq(Regions), Ordered(s), NEW k \in HeapRegions(s),
           HeapMapped(a, root, s), Unmapped(a, b, root, RegionPages(s[k]))
    PROVE  HeapMapped(b, root, RemoveAt(s, k))
<1> DEFINE t == RemoveAt(s, k)
<1> SUFFICES ASSUME NEW v \in Nat, End(Hhdm) <= v, v < ImageBase
             PROVE  At(b.ent, root[Kernel], 0, v) >= 0 <=> \E j \in HeapRegions(t) : v \in RegionPages(t[j])
  BY DEF HeapMapped
<1>1. Own(Kernel, 0, v) /\ Kernel \in Maps /\ 0 \in 0..4
  BY Layout, Kernels, OwnPages
<1>2. (\E j \in HeapRegions(t) : v \in RegionPages(t[j]))
         <=> \E j \in HeapRegions(s) \ {k} : v \in RegionPages(s[j])
  <2>1. Heap(t) = {s[j] : j \in HeapRegions(s) \ {k}}
    BY RemoveHeap
  <2> HIDE DEF t
  <2> QED
    BY <2>1 DEF Heap
<1>3. At(a.ent, root[Kernel], 0, v) >= 0 <=> \E j \in HeapRegions(s) : v \in RegionPages(s[j])
  BY DEF HeapMapped
<1> HIDE DEF t
<1>4. CASE v \in RegionPages(s[k])
  <2>1. At(b.ent, root[Kernel], 0, v) = NONE
    BY <1>4 DEF Unmapped
  <2>2. ~(At(b.ent, root[Kernel], 0, v) >= 0)
    BY <2>1 DEF NONE
  <2>3. ASSUME NEW j \in HeapRegions(s) \ {k} PROVE v \notin RegionPages(s[j])
    <3>1. HeapRegions(s) \subseteq 1..Len(s) /\ k \in 1..Len(s)
      BY DEF HeapRegions
    <3> QED
      BY <1>4, <2>3, <3>1, Disjoint
  <2> QED
    BY <1>2, <2>2, <2>3
<1>5. CASE v \notin RegionPages(s[k])
  <2>1. SameAt(a, b, root, Kernel, 0, v)
    BY <1>1, <1>5 DEF Unmapped
  <2> QED
    BY <1>2, <1>3, <1>5, <2>1 DEF SameAt
<1> QED
  BY <1>4, <1>5

\* The pages of the kernel's slot of the HHDM are above one entry of the top table.
LEMMA InSlot ==
    ASSUME NEW v \in Nat, HhdmBase <= v, v < HhdmBase + Slot
    PROVE  v \div Slot = UserSlots
<1>1. PICK S \in Nat \ {0}, h \in Nat : S = Slot /\ h = UserSlots
  BY FanFacts
<1>2. PICK H \in Nat : H = HhdmBase /\ H = S * h
  <2>1. h * S = S * h /\ HhdmBase = h * S
    BY <1>1 DEF HhdmBase
  <2> QED
    BY <2>1, Layout
<1>3. v - H \in 0..(S - 1) /\ S * h + (v - H) = v
  BY <1>1, <1>2
<1>4. (S * h + (v - H)) \div S = h
  BY <1>3, DivUnique
<1> QED
  BY <1>1, <1>3, <1>4

\* The kernel's heap, mapped.
LEMMA KernelRange ==
    ASSUME NEW s, NEW w, NEW root, root[Kernel] # NONE, SlotThere(s, root), s.stop = "no",
           Mapped(s, w, root, Kernel, {}, {}),
           NEW b \in Nat, NEW n \in Nat, End(Hhdm) <= b, b + n <= ImageBase, b + n <= HhdmBase + Slot,
           n <= OffsetPages,
           NEW t, t = mmap_range(w, root[Kernel], b, n, {})
    PROVE  Mapped(s, t, root, Kernel, b..(b + n - 1), {})
<1>1. Kernel \in Maps /\ Good(w, root) /\ Grown(s, w, root, Kernel, {}, {})
  BY Kernels DEF Mapped
<1>2. At(w.ent, root[Kernel], 3, UserSlots) >= 0
  <2>1. 3 \in 0..4 /\ UserSlots \in Nat /\ Own(Kernel, 3, UserSlots)
    BY FanFacts DEF Own, Top
  <2> QED
    BY <1>1, <2>1, KeepsPresent DEF SlotThere
<1>3. ASSUME NEW v \in b..(b + n - 1)
      PROVE  v \in Nat /\ Managed(Kernel, 0, v) /\ v \div Slot = UserSlots
  <2>1. PICK H \in Nat, L \in Nat, I \in Nat, S \in Nat, A \in Nat :
           /\ H = HhdmBase /\ L = HhdmLength /\ I = ImageBase /\ S = Slot /\ A = AddressSpace
           /\ End(Hhdm) = H + L /\ I < A
    BY Layout, FanFacts DEF End, Hhdm
  <2>2. v \in Nat /\ H <= v /\ v < H + S /\ H + L <= v /\ v < I /\ v < A
    BY <1>3, <2>1
  <2>3. v \div Slot = UserSlots
    BY <2>1, <2>2, InSlot
  <2>4. Own(Kernel, 0, v)
    BY <1>1, <2>1, <2>2, OwnPages
  <2> QED
    BY <2>1, <2>2, <2>3, <2>4 DEF Managed
<1>4. Ranging(w, root, Kernel, b, n, {})
  BY <1>1, <1>2, <1>3 DEF Ranging
<1> DEFINE R == b..(b + n - 1)
<1>5. Mapped(w, t, root, Kernel, R, {})
  BY <1>4, RangeIs
<1> HIDE DEF R
<1>6. \A v \in {} : v \in Nat /\ Own(Kernel, 0, v)
  OBVIOUS
<1>7. Mapped(s, t, root, Kernel, {} \cup R, {})
  BY <1>1, <1>5, <1>6, MappedTrans
<1>8. {} \cup R = R
  OBVIOUS
<1> QED
  BY <1>7, <1>8 DEF R

LEMMA AllocKeeps ==
    ASSUME PageInv, ListsInv, strayed' = {}, NEW n \in KernelSizes, vmm_region_alloc(n)
    PROVE  PageInv' /\ ListGrew(Kernel)
<1> DEFINE k == FirstFit(Kernel, n)
           rs == regions[Kernel]
           x == [base |-> End(rs[k - 1]) % PageSpace, length |-> n]
           t == mmap_range(Node(Now), pml4[Kernel], x.base, n, {})
           rg2 == [regions EXCEPT ![Kernel] = InsertAt(@, k, x)]
<1>0. Kernel \in Maps /\ n \in Nat
  BY Kernels, VmmAssumption, Layout
<1>1. halted = "no" /\ Len(rs) < 2 + MaxRegions /\ RegionAlloc(Kernel, n)
  BY DEF vmm_region_alloc
<1>2. /\ PlacesInv(Now, pml4, regions, loaded) /\ Good(Now, pml4) /\ Now.stop = halted
      /\ Forest(Now.ent, ToSet(Now.free), pml4)
  BY NowIs DEF Good
<1>3. /\ Loads(pml4, loaded) /\ UserLists(regions, pml4) /\ CodeThere(Now, pml4, loaded)
      /\ SlotThere(Now, pml4) /\ HeapMapped(Now, pml4, rs) /\ KernelList(rs)
  BY <1>2 DEF PlacesInv
<1>4. pml4[Kernel] # NONE
  BY <1>2 DEF Forest
<1>5. rs \in Seq(Regions) /\ Ordered(rs) /\ regions \in [Maps -> Seq(Regions)]
  <2>1. strayed = {}
    BY <1>1 DEF RegionAlloc, NoRegion, NewRegion, Remember
  <2>2. OrderInv
    BY <2>1, NoneStrayed
  <2> QED
    BY <1>0, <2>2 DEF OrderInv
<1>6. CASE k = 0
  <2>1. halted' = "regions" /\ UNCHANGED <<head, ent, flags, stale, pml4, regions, nodes, loaded>>
    BY <1>1, <1>6 DEF RegionAlloc, NoRegion
  <2>2. "regions" \in Kinds \ {"no"}
    BY DEF Kinds
  <2> QED
    BY <2>1, <2>2, StopKeeps DEF ListGrew
<1>7. ASSUME k # 0
      PROVE  Commit(t, rg2, loaded) /\ Kernel \notin strayed /\ n <= OffsetPages
  <2> DEFINE b == End(rs[k - 1]) % PageSpace
  <2>1. NewRegion(Kernel, n, k, b)
    BY <1>1, <1>7 DEF RegionAlloc
  <2>2. Kernel \notin strayed /\ n <= OffsetPages
    <3> HIDE DEF b
    <3>1. Remember(Kernel, b, n)
      BY <2>1 DEF NewRegion
    <3>2. Kernel \notin strayed /\ ~Strays(Kernel, b, n)
      BY <1>0, <3>1, RememberIs
    <3>3. OffsetPages \in Nat
      BY IntBounds
    <3> QED
      BY <1>0, <3>2, <3>3 DEF Strays
  <2>3. Max({0, num_of_pages(n)}) = n
    BY <1>0, <2>2, IntBounds
  <2>4. x = [base |-> b, length |-> n] /\ x.base = b
    OBVIOUS
  <2> HIDE DEF k, b
  <2>5. Commit(t, rg2, loaded)
    BY <2>1, <2>3, <2>4 DEF NewRegion, RegionFlags, KernelFlags
  <2> QED
    BY <2>2, <2>5
<1>8. ASSUME k # 0, t.stop # "no", t.stop \in Kinds PROVE PageInv' /\ ListGrew(Kernel)
  <2>1. Commit(t, rg2, loaded)
    BY <1>7, <1>8
  <2> HIDE DEF t, rg2
  <2>2. halted' = t.stop /\ UNCHANGED <<head, ent, flags, stale, pml4, regions, nodes, loaded>>
    BY <1>8, <2>1 DEF Commit
  <2> QED
    BY <1>8, <2>2, StopKeeps DEF ListGrew
<1>9. CASE k # 0 /\ ~(n <= Pages)
  <2>1. n > Pages
    BY <1>0, <1>9, FanFacts
  <2>2. t.stop \in Kinds \ {"no"}
    BY <1>0, <2>1, TooMuch
  <2> QED
    BY <1>8, <1>9, <2>2
<1>10. CASE k # 0 /\ n <= Pages
  <2>a. Kernel \notin strayed /\ n <= OffsetPages
    BY <1>7, <1>10
  <2>1. k \in 2..Len(rs) /\ x \in Regions /\ x.base = End(rs[k - 1])
    BY <1>0, <1>10, <2>a, FitIsAGap
  <2> DEFINE b == x.base
             R == RegionPages(x)
  <2>2. b \in Nat /\ End(Hhdm) <= b /\ b + n <= ImageBase /\ b + n <= HhdmBase + Slot
    BY <1>1, <1>3, <1>10, <2>1, <2>a, HeapFits
  <2>3. /\ R = b..(b + n - 1) /\ x.length = n /\ End(x) = b + n
    <3>1. x.length = n
      OBVIOUS
    <3> HIDE DEF x
    <3>2. (b + n) - 1 = b + n - 1
      BY <1>0, <2>2
    <3> QED
      BY <3>1, <3>2 DEF RegionPages, End
  <2> HIDE DEF k, R, b, x
  <2>4. Mapped(Now, t, pml4, Kernel, R, {})
    <3> DEFINE w == Node(Now)
    <3>1. Mapped(Now, w, pml4, Kernel, {}, {})
      BY <1>2, NodeIs
    <3> HIDE DEF w
    <3>2. t = mmap_range(w, pml4[Kernel], b, n, {})
      BY DEF w, b
    <3>3. Now.stop = "no"
      BY <1>1, <1>2
    <3> HIDE DEF t
    <3> QED
      BY <1>0, <1>3, <1>4, <2>2, <2>3, <2>a, <3>1, <3>2, <3>3, KernelRange
  <2>5. Commit(t, rg2, loaded)
    BY <1>7, <1>10
  <2> HIDE DEF t
  <2>6. Good(t, pml4) /\ Grown(Now, t, pml4, Kernel, R, {}) /\ t.stop \in Kinds
    BY <2>4 DEF Mapped, Good, Mems
  <2>7. CASE t.stop # "no"
    BY <1>8, <1>10, <2>6, <2>7
  <2>8. CASE t.stop = "no"
    <3>1. \A v \in R : At(t.ent, pml4[Kernel], 0, v) >= 0
      BY <2>4, <2>8 DEF Mapped
    <3>2. /\ pml4' = pml4 /\ regions' = rg2 /\ loaded' = loaded
          /\ Good(After, pml4) /\ After.stop = "no"
          /\ After.ent = t.ent /\ After.flags = t.flags
      <4> HIDE DEF rg2
      <4> QED
        BY <1>1, <2>5, <2>6, <2>8, CommitIs
    <3>3. Grown(Now, After, pml4, Kernel, R, {})
      BY <2>6, <3>2, GrownSame
    <3>4. rg2[Kernel] = InsertAt(rs, k, x) /\ \A y \in Users : rg2[y] = regions[y]
      BY <1>0, <1>5, Kernels
    <3>a. Grew(Kernel, k, x, {})
      BY <3>2, <3>3 DEF Grew, R
    <3>b. ListGrew(Kernel)
      <4>1. {} \in SUBSET {"user", "xd"}
        OBVIOUS
      <4> HIDE DEF rg2
      <4> QED
        BY <2>1, <3>a, <4>1 DEF ListGrew
    <3> HIDE DEF rg2
    <3>5. HeapMapped(After, pml4, rg2[Kernel])
      <4>1. \A v \in RegionPages(x) : At(After.ent, pml4[Kernel], 0, v) >= 0
        BY <3>1, <3>2 DEF R
      <4>2. Grown(Now, After, pml4, Kernel, RegionPages(x), {})
        BY <3>3 DEF R
      <4>3. HeapMapped(After, pml4, InsertAt(rs, k, x))
        BY <1>3, <1>5, <2>1, <4>1, <4>2, HeapGrows
      <4> QED
        BY <3>4, <4>3
    <3>6. KernelList(rg2[Kernel])
      <4>1. KernelList(InsertAt(rs, k, x))
        BY <1>3, <1>5, <1>10, <2>a, <2>1, <2>2, <2>3, KernelListGrows
      <4> QED
        BY <3>4, <4>1
    <3>7. UserLists(rg2, pml4)
      BY <1>3, <3>4 DEF UserLists
    <3>8. CodeThere(After, pml4, loaded)
      BY <1>0, <1>2, <1>3, <3>3, CodeAfter
    <3>9. \A u \in Users : u # Kernel
      BY Kernels
    <3>10. \A u \in Users : loaded[u] <= Len(Segments) =>
              loaded[u] <= Len(Segments) /\ (u = Kernel => "xd" \notin {})
      OBVIOUS
    <3>11. PlacesInv(After, pml4, rg2, loaded)
      BY <1>0, <1>1, <1>2, <1>3, <3>2, <3>3, <3>5, <3>6, <3>7, <3>8, <3>9, <3>10, Advance
    <3> QED
      BY <3>2, <3>b, <3>11, PrimedInv
  <2> QED
    BY <2>7, <2>8
<1> QED
  BY <1>6, <1>9, <1>10

LEMMA UnmapKeeps ==
    ASSUME NEW s, NEW t, NEW root, NEW rg, NEW rg2, NEW ld, NEW R,
           PlacesInv(s, root, rg, ld), Unmapped(s, t, root, R),
           HeapMapped(t, root, rg2[Kernel]), KernelList(rg2[Kernel]), UserLists(rg2, root)
    PROVE  PlacesInv(t, root, rg2, ld)
<1>1. /\ SlotThere(s, root) /\ KernelOnly(s, root) /\ UserAll(s, root) /\ LoadExec(s, root, ld)
      /\ CodeThere(s, root, ld) /\ Loads(root, ld)
  BY DEF PlacesInv
<1>2. Good(t, root) /\ t.stop = s.stop
  BY DEF Unmapped
<1>3. ASSUME NEW u \in Users, NEW k \in 0..3, NEW a \in Nat, Own(u, k, a)
      PROVE  SameAt(s, t, root, u, k, a)
  <2>1. u \in Maps /\ u # Kernel /\ k \in 0..4
    BY Kernels
  <2> QED
    BY <1>3, <2>1 DEF Unmapped
<1>4. SlotThere(t, root)
  <2>1. 3 \in 0..4 /\ 3 # 0 /\ UserSlots \in Nat /\ Own(Kernel, 3, UserSlots)
    BY FanFacts DEF Own, Top
  <2>2. SameAt(s, t, root, Kernel, 3, UserSlots)
    BY <2>1, Kernels DEF Unmapped
  <2> QED
    BY <1>1, <1>2, <2>2 DEF SlotThere, SameAt
<1>5. KernelOnly(t, root)
  <2> SUFFICES ASSUME NEW k \in 0..3, NEW a \in Nat, Own(Kernel, k, a)
               PROVE  Fl(t, root, Kernel, k, a) = {}
    BY DEF KernelOnly
  <2>1. CASE k = 0 /\ a \in R
    <3>1. At(t.ent, root[Kernel], k, a) = NONE
      BY <2>1 DEF Unmapped
    <3>2. ~(NONE >= 0)
      BY DEF NONE
    <3> QED
      BY <3>1, <3>2 DEF Fl
  <2>2. CASE ~(k = 0 /\ a \in R)
    <3>1. k \in 0..4
      OBVIOUS
    <3>2. SameAt(s, t, root, Kernel, k, a)
      BY <2>2, <3>1, Kernels DEF Unmapped
    <3>3. Fl(s, root, Kernel, k, a) = {}
      BY <1>1 DEF KernelOnly
    <3> QED
      BY <3>2, <3>3 DEF SameAt
  <2> QED
    BY <2>1, <2>2
<1>6. UserAll(t, root)
  BY <1>1, <1>3 DEF UserAll, SameAt
<1>7. LoadExec(t, root, ld)
  <2> SUFFICES ASSUME NEW u \in Users, ld[u] <= Len(Segments), NEW k \in 1..3, NEW a \in Nat, Own(u, k, a)
               PROVE  "xd" \notin Fl(t, root, u, k, a)
    BY DEF LoadExec
  <2>1. k \in 0..3 /\ "xd" \notin Fl(s, root, u, k, a)
    BY <1>1 DEF LoadExec
  <2> QED
    BY <1>3, <2>1 DEF SameAt
<1>8. CodeThere(t, root, ld)
  <2> SUFFICES ASSUME NEW u \in Users, NEW g \in 1..Len(Segments), g <= ld[u],
                      NEW v \in RegionPages(Segments[g]), NEW k \in 1..3
               PROVE  /\ At(t.ent, root[u], k, Prefix(k, v)) >= 0
                      /\ "xd" \notin Fl(t, root, u, k, Prefix(k, v))
    BY DEF CodeThere
  <2> DEFINE a == Prefix(k, v)
  <2>0. v \in Nat /\ Own(u, 0, v) /\ u \in Maps
    BY SegmentPages
  <2>1. a \in Nat /\ Own(u, k, a) /\ k \in 0..3
    BY <2>0, PrefixOwn
  <2>2. At(s.ent, root[u], k, a) >= 0 /\ "xd" \notin Fl(s, root, u, k, a)
    BY <1>1 DEF CodeThere
  <2> HIDE DEF a
  <2>3. SameAt(s, t, root, u, k, a)
    BY <1>3, <2>1
  <2> QED
    BY <2>2, <2>3 DEF SameAt, a
<1> QED
  BY <1>1, <1>2, <1>4, <1>5, <1>6, <1>7, <1>8 DEF PlacesInv

LEMMA DeallocKeepsPages ==
    ASSUME PageInv, OrderInv, NEW k \in HeapRegions(regions[Kernel]), vmm_region_dealloc(k)
    PROVE  PageInv' /\ ListShrank
<1> DEFINE rs == regions[Kernel]
           r == rs[k]
           s == UnmapRange(Now, pml4[Kernel], r.base, Max({0, num_of_pages(r.length)}))
           t == [s EXCEPT !.nodes = @ + 1]
           rg2 == [regions EXCEPT ![Kernel] = RemoveAt(@, k)]
           R == RegionPages(r)
<1>0. Kernel \in Maps
  BY Kernels
<1>1. halted = "no" /\ Commit(t, rg2, loaded)
  BY DEF vmm_region_dealloc
<1>2. /\ PlacesInv(Now, pml4, regions, loaded) /\ Good(Now, pml4) /\ Now.stop = halted
      /\ UserLists(regions, pml4) /\ HeapMapped(Now, pml4, rs) /\ KernelList(rs)
  BY NowIs DEF PlacesInv
<1>3. rs \in Seq(Regions) /\ Ordered(rs) /\ regions \in [Maps -> Seq(Regions)]
  BY <1>0 DEF OrderInv
<1>4. PICK n \in Nat : n = Len(rs) /\ k \in 2..(n - 1) /\ rs[1] = Hhdm /\ rs[n] = Image
  BY <1>2, <1>3 DEF KernelList, HeapRegions
<1>5. End(Hhdm) <= r.base /\ End(r) <= ImageBase
  <2>1. 1 \in 1..Len(rs) /\ k \in (1 + 1)..Len(rs)
    BY <1>4
  <2>2. End(rs[1]) <= r.base
    BY <1>3, <2>1, Later
  <2>3. k \in 1..Len(rs) /\ n \in (k + 1)..Len(rs)
    BY <1>4
  <2>4. End(r) <= rs[n].base
    BY <1>3, <2>3, Later
  <2> QED
    BY <1>4, <2>2, <2>4 DEF Image
<1>6. PICK b \in Nat, l \in Nat : b = r.base /\ l = r.length
  <2>1. rs[k] \in Regions
    BY <1>3, <1>4
  <2> QED
    BY <2>1 DEF Regions
<1>7. R = b..(b + l - 1)
  <2>1. (b + l) - 1 = b + l - 1
    OBVIOUS
  <2> QED
    BY <1>6, <2>1 DEF RegionPages, End
<1>8. ASSUME NEW v \in R
      PROVE  v \in Nat /\ Managed(Kernel, 0, v) /\ At(Now.ent, pml4[Kernel], 0, v) >= 0
  <2>1. PICK H \in Nat, I \in Nat, A \in Nat :
           H = End(Hhdm) /\ I = ImageBase /\ A = AddressSpace /\ I < A
    BY Layout, FanFacts DEF End, Hhdm
  <2>2. H <= b /\ b + l <= I
    BY <1>5, <1>6, <2>1 DEF End
  <2>3. v \in b..(b + l - 1)
    BY <1>7, <1>8
  <2>4. v \in Nat /\ H <= v /\ v < I /\ v < A
    BY <2>1, <2>2, <2>3
  <2>5. Own(Kernel, 0, v)
    BY <1>0, <2>1, <2>4, OwnPages
  <2>6. At(Now.ent, pml4[Kernel], 0, v) >= 0
    BY <1>2, <1>8, <2>1, <2>4 DEF HeapMapped
  <2> QED
    BY <2>1, <2>4, <2>5, <2>6 DEF Managed
<1> HIDE DEF R
<1>9. Unmapped(Now, s, pml4, R)
  <2>1. l <= OffsetPages
    BY <1>2, <1>6 DEF KernelList
  <2>2. Max({0, num_of_pages(l)}) = l
    BY <1>6, <2>1, IntBounds
  <2>3. s = UnmapRange(Now, pml4[Kernel], b, l)
    BY <1>6, <2>2
  <2> HIDE DEF s
  <2> QED
    BY <1>2, <1>7, <1>8, <2>1, <2>3, UnmapIs
<1> HIDE DEF s
<1>10. s \in Mems /\ s.stop = "no" /\ Good(s, pml4)
  BY <1>1, <1>2, <1>9 DEF Unmapped, Good
<1>11. t \in Mems /\ t.free = s.free /\ t.ent = s.ent /\ t.stale = s.stale /\ t.flags = s.flags /\ t.stop = "no"
  BY <1>10 DEF Mems
<1> HIDE DEF t
<1>12. Good(t, pml4)
  BY <1>10, <1>11, GoodSame
<1>13. /\ pml4' = pml4 /\ regions' = rg2 /\ loaded' = loaded
       /\ Good(After, pml4) /\ After.stop = "no"
       /\ After.ent = t.ent /\ After.flags = t.flags
  <2> HIDE DEF rg2
  <2> QED
    BY <1>1, <1>11, <1>12, CommitIs
<1>14. Unmapped(Now, After, pml4, R)
  <2>1. \A n2, l2, b2 : SameAt(Now, s, pml4, n2, l2, b2) => SameAt(Now, After, pml4, n2, l2, b2)
    BY <1>11, <1>13 DEF SameAt, Fl
  <2> QED
    BY <1>1, <1>2, <1>9, <1>11, <1>13, <2>1 DEF Unmapped
<1>15. rg2[Kernel] = RemoveAt(rs, k) /\ \A y \in Users : rg2[y] = regions[y]
  BY <1>0, <1>3, Kernels
<1> HIDE DEF rg2
<1>16. HeapMapped(After, pml4, rg2[Kernel]) /\ KernelList(rg2[Kernel])
  <2>1. Unmapped(Now, After, pml4, RegionPages(rs[k]))
    BY <1>14 DEF R
  <2>2. HeapMapped(After, pml4, RemoveAt(rs, k))
    BY <1>2, <1>3, <2>1, HeapShrinks
  <2>3. KernelList(RemoveAt(rs, k))
    BY <1>2, <1>3, KernelListShrinks
  <2> QED
    BY <1>15, <2>2, <2>3
<1>17. UserLists(rg2, pml4)
  BY <1>2, <1>15 DEF UserLists
<1>18. PlacesInv(After, pml4, rg2, loaded)
  BY <1>2, <1>14, <1>16, <1>17, UnmapKeeps
<1>19. ListShrank
  <2>1. regions'[Kernel] = RemoveAt(rs, k) /\ Unmapped(Now, After, pml4, RegionPages(rs[k]))
    BY <1>13, <1>14, <1>15 DEF R
  <2> QED
    BY <2>1 DEF ListShrank
<1> QED
  BY <1>13, <1>18, <1>19, PrimedInv
------------------------------------------------------------------------------
(* A new map.                                                              *)

Missing == {NONE, WILD}

LEMMA MissingIs == \A x \in Missing : x < 0 /\ ~(x >= 0)
  BY DEF Missing, NONE, WILD

\* From s to t a free page q has become the top table of u: its upper half is the
\* kernel's, and nothing that anybody wrote is in its lower half.
Making(s, t, root, root2, u, q) ==
    /\ Good(s, root) /\ t \in Mems /\ IsInjective(t.free)
    /\ q \in ToSet(s.free) /\ ToSet(t.free) \subseteq ToSet(s.free) \ {q}
    /\ t.stale = s.stale /\ t.stop = s.stop
    /\ u \in Users /\ root[u] = NONE /\ root2 = [root EXCEPT ![u] = q]
    /\ \A p \in Phys \ {q} : t.ent[p] = s.ent[p] /\ t.flags[p] = s.flags[p]
    /\ \A i \in 0..(UserSlots - 1) : t.ent[q][i] \in Missing
    /\ \A i \in UserSlots..(Fan - 1) : t.ent[q][i] = s.ent[root[Kernel]][i]

\* Every other map is as it was.
Others(s, t, root, root2, u) ==
    \A n \in Maps, l \in 0..4, b \in Nat : n # u /\ Own(n, l, b) =>
        /\ At(t.ent, root2[n], l, b) = At(s.ent, root[n], l, b)
        /\ Fl(t, root2, n, l, b) = Fl(s, root, n, l, b)

\* The new one has nothing but its top table.
OnlyTop(t, root2, u, q) ==
    /\ At(t.ent, root2[u], 4, 0) = q
    /\ \A l \in 0..3, b \in Nat : Own(u, l, b) => At(t.ent, root2[u], l, b) \in Missing

LEMMA MakingOthers ==
    ASSUME NEW s, NEW t, NEW root, NEW root2, NEW u, NEW q, Making(s, t, root, root2, u, q)
    PROVE  Others(s, t, root, root2, u)
<1>1. /\ Forest(s.ent, ToSet(s.free), root) /\ q \in ToSet(s.free)
      /\ u \in Users /\ root2 = [root EXCEPT ![u] = q]
      /\ \A p \in Phys \ {q} : t.ent[p] = s.ent[p] /\ t.flags[p] = s.flags[p]
  BY DEF Making, Good
<1>2. root \in [Maps -> Phys \cup {NONE}]
  BY <1>1 DEF Forest
<1> DEFINE Same(l) == \A n \in Maps, b \in Nat : n # u /\ Own(n, l, b) =>
                         At(t.ent, root2[n], l, b) = At(s.ent, root[n], l, b)
<1>3. Same(4)
  <2>1. \A n \in Maps : n # u => root2[n] = root[n]
    BY <1>1, <1>2
  <2> QED
    BY <2>1 DEF At
<1>4. ASSUME NEW l \in 0..3, NEW n \in Maps, NEW b \in Nat, n # u, Own(n, l, b)
      PROVE  /\ At(s.ent, root[n], l + 1, b \div Fan) \in Int
             /\ At(s.ent, root[n], l + 1, b \div Fan) >= 0 =>
                  At(s.ent, root[n], l + 1, b \div Fan) \in Phys \ {q}
             /\ b \div Fan \in Nat /\ Own(n, l + 1, b \div Fan) /\ l + 1 \in 0..4
  <2>1. /\ Own(n, l + 1, b \div Fan) /\ Managed(n, l + 1, b \div Fan)
        /\ b \div Fan \in Nat /\ l + 1 \in 0..4
    BY <1>4, OwnUp, Up
  <2>2. At(s.ent, root[n], l + 1, b \div Fan) \in Int
    BY <1>1, <2>1, AtType, ValsAreInts
  <2>3. At(s.ent, root[n], l + 1, b \div Fan) >= 0 =>
           At(s.ent, root[n], l + 1, b \div Fan) \in Phys \ ToSet(s.free)
    BY <1>1, <2>1 DEF Forest
  <2> QED
    BY <1>1, <2>1, <2>2, <2>3
<1>5. ASSUME NEW l \in 0..3, Same(l + 1) PROVE Same(l)
  <2> SUFFICES ASSUME NEW n \in Maps, NEW b \in Nat, n # u, Own(n, l, b)
               PROVE  At(t.ent, root2[n], l, b) = At(s.ent, root[n], l, b)
    OBVIOUS
  <2> DEFINE w == At(s.ent, root[n], l + 1, b \div Fan)
             w2 == At(t.ent, root2[n], l + 1, b \div Fan)
             j == b % Fan
  <2>1. w \in Int /\ (w >= 0 => w \in Phys \ {q}) /\ w2 = w
    BY <1>4, <1>5
  <2>2. At(s.ent, root[n], l, b) = get_next_table_unmap(s.ent, w, j)
    BY AtStep, Zenon
  <2>3. At(t.ent, root2[n], l, b) = get_next_table_unmap(t.ent, w2, j)
    BY AtStep, Zenon
  <2> HIDE DEF w, w2, j
  <2>4. CASE w < 0
    BY <2>1, <2>2, <2>3, <2>4 DEF get_next_table_unmap
  <2>5. CASE ~(w < 0)
    <3>1. w \in Phys \ {q}
      BY <2>1, <2>5
    <3> QED
      BY <1>1, <2>1, <2>2, <2>3, <3>1 DEF get_next_table_unmap
  <2> QED
    BY <2>4, <2>5
<1> HIDE DEF Same
<1>6. Same(3) /\ Same(2) /\ Same(1) /\ Same(0)
  BY <1>3, <1>5
<1>7. \A l \in 0..4 : Same(l)
  BY <1>3, <1>6
<1>8. \A n \in Maps, l \in 0..4, b \in Nat : n # u /\ Own(n, l, b) =>
         At(t.ent, root2[n], l, b) = At(s.ent, root[n], l, b)
  BY <1>7 DEF Same
<1>9. ASSUME NEW n \in Maps, NEW l \in 0..4, NEW b \in Nat, n # u, Own(n, l, b)
      PROVE  Fl(t, root2, n, l, b) = Fl(s, root, n, l, b)
  <2>1. CASE l = 4
    BY <2>1 DEF Fl
  <2>2. CASE l # 4
    <3> DEFINE w == At(s.ent, root[n], l + 1, b \div Fan)
               p == At(s.ent, root[n], l, b)
               j == b % Fan
    <3>0. l \in 0..3
      BY <2>2
    <3>1. w \in Int /\ (w >= 0 => w \in Phys \ {q}) /\ b \div Fan \in Nat /\ Own(n, l + 1, b \div Fan)
          /\ l + 1 \in 0..4
      BY <1>4, <1>9, <3>0
    <3>2. At(t.ent, root2[n], l + 1, b \div Fan) = w /\ At(t.ent, root2[n], l, b) = p
      BY <1>8, <1>9, <3>1
    <3>3. p = get_next_table_unmap(s.ent, w, j)
      BY <3>0, AtStep, Zenon
    <3>4. Fl(s, root, n, l, b) = IF p >= 0 /\ l < 4 THEN s.flags[w][j] ELSE {}
      BY DEF Fl
    <3>5. Fl(t, root2, n, l, b) = IF p >= 0 /\ l < 4 THEN t.flags[w][j] ELSE {}
      BY <3>2 DEF Fl
    <3> HIDE DEF w, p, j
    <3>6. CASE w < 0
      <4>1. ~(p >= 0)
        BY <3>1, <3>3, <3>6 DEF get_next_table_unmap
      <4> QED
        BY <3>4, <3>5, <4>1
    <3>7. CASE ~(w < 0)
      <4>1. w \in Phys \ {q}
        BY <3>1, <3>7
      <4> QED
        BY <1>1, <3>4, <3>5, <4>1
    <3> QED
      BY <3>6, <3>7
  <2> QED
    BY <2>1, <2>2
<1> QED
  BY <1>8, <1>9 DEF Others

LEMMA MakingTop ==
    ASSUME NEW s, NEW t, NEW root, NEW root2, NEW u, NEW q, Making(s, t, root, root2, u, q)
    PROVE  OnlyTop(t, root2, u, q)
<1>1. /\ Forest(s.ent, ToSet(s.free), root) /\ q \in ToSet(s.free)
      /\ u \in Users /\ root2 = [root EXCEPT ![u] = q]
      /\ \A i \in 0..(UserSlots - 1) : t.ent[q][i] \in Missing
  BY DEF Making, Good
<1>2. root \in [Maps -> Phys \cup {NONE}] /\ u \in Maps /\ u # Kernel /\ q \in Phys
  BY <1>1, Kernels DEF Forest
<1>3. root2[u] = q /\ q \in Nat /\ ~(q < 0)
  BY <1>1, <1>2, ValsAreInts
<1> DEFINE Gone(l) == \A b \in Nat : Own(u, l, b) => At(t.ent, root2[u], l, b) \in Missing
<1>4. Gone(3)
  <2> SUFFICES ASSUME NEW b \in Nat, Own(u, 3, b) PROVE At(t.ent, root2[u], 3, b) \in Missing
    OBVIOUS
  <2>1. b < UserSlots /\ b < Fan /\ b \in 0..(UserSlots - 1)
    <3>1. b < UserSlots
      BY <1>2 DEF Own, Top
    <3> QED
      BY <3>1, FanFacts
  <2>2. b % Fan = b
    BY <2>1, SmallMod
  <2>3. At(t.ent, root2[u], 3, b) = get_next_table_unmap(t.ent, q, b % Fan)
    BY <1>3 DEF At
  <2>4. At(t.ent, root2[u], 3, b) = t.ent[q][b]
    BY <1>3, <2>2, <2>3 DEF get_next_table_unmap
  <2> QED
    BY <1>1, <2>1, <2>4
<1>5. ASSUME NEW l \in 0..2, Gone(l + 1) PROVE Gone(l)
  <2> SUFFICES ASSUME NEW b \in Nat, Own(u, l, b) PROVE At(t.ent, root2[u], l, b) \in Missing
    OBVIOUS
  <2> DEFINE w == At(t.ent, root2[u], l + 1, b \div Fan)
  <2>1. l \in 0..3
    OBVIOUS
  <2>2. Own(u, l + 1, b \div Fan) /\ b \div Fan \in Nat
    BY <1>2, <2>1, OwnUp, Up
  <2>3. w \in Missing /\ w < 0
    BY <1>5, <2>2, MissingIs
  <2>4. At(t.ent, root2[u], l, b) = get_next_table_unmap(t.ent, w, b % Fan)
    BY <2>1, AtStep, Zenon
  <2> HIDE DEF w
  <2> QED
    BY <2>3, <2>4 DEF get_next_table_unmap
<1> HIDE DEF Gone
<1>6. Gone(2) /\ Gone(1) /\ Gone(0)
  BY <1>4, <1>5
<1>7. \A l \in 0..3 : Gone(l)
  BY <1>4, <1>6
<1>8. At(t.ent, root2[u], 4, 0) = q
  BY <1>3 DEF At
<1> QED
  BY <1>7, <1>8 DEF Gone, OnlyTop

LEMMA MakingForest ==
    ASSUME NEW s, NEW t, NEW root, NEW root2, NEW u, NEW q, Making(s, t, root, root2, u, q),
           Others(s, t, root, root2, u), OnlyTop(t, root2, u, q)
    PROVE  Forest(t.ent, ToSet(t.free), root2)
<1>1. /\ Forest(s.ent, ToSet(s.free), root) /\ q \in ToSet(s.free) /\ t \in Mems
      /\ u \in Users /\ root2 = [root EXCEPT ![u] = q]
      /\ ToSet(t.free) \subseteq ToSet(s.free) \ {q}
      /\ \A p \in Phys \ {q} : t.ent[p] = s.ent[p]
      /\ \A i \in UserSlots..(Fan - 1) : t.ent[q][i] = s.ent[root[Kernel]][i]
  BY DEF Making, Good
<1>2. /\ root \in [Maps -> Phys \cup {NONE}] /\ root[Kernel] # NONE
      /\ u \in Maps /\ u # Kernel /\ Kernel \in Maps /\ q \in Phys /\ ToSet(s.free) \subseteq Phys
      /\ Users \subseteq Maps
  BY <1>1, Kernels DEF Forest
<1>3. /\ root2 \in [Maps -> Phys \cup {NONE}] /\ root2[Kernel] = root[Kernel] /\ root2[u] = q
      /\ \A n \in Maps : n # u => root2[n] = root[n]
  BY <1>1, <1>2
<1>4. \A n \in Maps : root[n] # NONE => root[n] \in Phys \ ToSet(s.free)
  <2> SUFFICES ASSUME NEW n \in Maps, root[n] # NONE PROVE root[n] \in Phys \ ToSet(s.free)
    OBVIOUS
  <2>1. Managed(n, 4, 0) /\ 4 \in 0..4 /\ 0 \in Nat
    BY DEF Managed, Own
  <2>2. At(s.ent, root[n], 4, 0) = root[n]
    BY DEF At
  <2>3. root[n] \in Phys /\ root[n] >= 0
    BY <1>2, ValsAreInts
  <2> QED
    BY <1>1, <2>1, <2>2, <2>3 DEF Forest
<1> DEFINE P(n, l, b) == At(t.ent, root2[n], l, b)
           O(n, l, b) == At(s.ent, root[n], l, b)
<1>5. ASSUME NEW n \in Maps, NEW l \in 0..4, NEW b \in Nat, Managed(n, l, b), P(n, l, b) >= 0
      PROVE  IF n = u THEN l = 4 /\ b = 0 /\ P(n, l, b) = q
             ELSE P(n, l, b) = O(n, l, b) /\ O(n, l, b) >= 0 /\ P(n, l, b) \in Phys \ ToSet(s.free)
  <2>1. Own(n, l, b)
    BY <1>5 DEF Managed
  <2>2. CASE n = u
    <3>1. l = 4
      <4>1. CASE l \in 0..3
        <5>1. P(n, l, b) \in Missing
          BY <2>1, <2>2, <4>1 DEF OnlyTop
        <5> QED
          BY <1>5, <5>1, MissingIs
      <4>2. CASE l \notin 0..3
        BY <4>2
      <4> QED
        BY <4>1, <4>2
    <3>2. b = 0
      BY <2>1, <3>1 DEF Own
    <3> QED
      BY <2>2, <3>1, <3>2 DEF OnlyTop
  <2>3. CASE n # u
    <3>1. P(n, l, b) = O(n, l, b)
      BY <2>1, <2>3 DEF Others
    <3>2. O(n, l, b) \in Phys \ ToSet(s.free)
      BY <1>1, <1>5, <3>1 DEF Forest
    <3> HIDE DEF P, O
    <3> QED
      BY <1>5, <2>3, <3>1, <3>2
  <2> QED
    BY <2>2, <2>3
<1>6. \A n \in Maps, l \in 0..4, b \in Nat :
         Managed(n, l, b) /\ P(n, l, b) >= 0 => P(n, l, b) \in Phys \ ToSet(t.free)
  <2> SUFFICES ASSUME NEW n \in Maps, NEW l \in 0..4, NEW b \in Nat, Managed(n, l, b), P(n, l, b) >= 0
               PROVE  P(n, l, b) \in Phys \ ToSet(t.free)
    OBVIOUS
  <2> HIDE DEF P, O
  <2>1. P(n, l, b) = q \/ P(n, l, b) \in Phys \ ToSet(s.free)
    BY <1>5
  <2> QED
    BY <1>1, <1>2, <2>1
<1>7. ASSUME NEW m \in Maps, NEW n \in Maps, NEW k \in 0..4, NEW l \in 0..4, NEW a \in Nat, NEW b \in Nat,
             Managed(m, k, a), Managed(n, l, b), P(m, k, a) >= 0, P(m, k, a) = P(n, l, b)
      PROVE  m = n /\ k = l /\ a = b
  <2> HIDE DEF P, O
  <2>1. P(n, l, b) >= 0
    BY <1>7
  <2>2. CASE m = u /\ n = u
    BY <1>5, <1>7, <2>1, <2>2
  <2>3. CASE m = u /\ n # u
    <3>1. P(m, k, a) = q /\ P(n, l, b) \notin ToSet(s.free)
      BY <1>5, <1>7, <2>1, <2>3
    <3> QED
      BY <1>1, <1>7, <3>1
  <2>4. CASE m # u /\ n = u
    <3>1. P(n, l, b) = q /\ P(m, k, a) \notin ToSet(s.free)
      BY <1>5, <1>7, <2>1, <2>4
    <3> QED
      BY <1>1, <1>7, <3>1
  <2>5. CASE m # u /\ n # u
    <3>1. P(m, k, a) = O(m, k, a) /\ O(m, k, a) >= 0 /\ P(n, l, b) = O(n, l, b)
      BY <1>5, <1>7, <2>1, <2>5
    <3>2. O(m, k, a) = O(n, l, b)
      BY <1>7, <3>1
    <3> QED
      BY <1>1, <1>7, <3>1, <3>2 DEF Forest, O
  <2> QED
    BY <2>2, <2>3, <2>4, <2>5
<1>8. Shared(t.ent, root2)
  <2> SUFFICES ASSUME NEW x \in Users, root2[x] # NONE, NEW i \in UserSlots..(Fan - 1)
               PROVE  t.ent[root2[x]][i] = t.ent[root2[Kernel]][i]
    BY DEF Shared
  <2>1. t.ent[root2[Kernel]] = s.ent[root[Kernel]]
    <3>1. root[Kernel] \in Phys \ {q}
      BY <1>1, <1>2, <1>4
    <3> QED
      BY <1>1, <1>3, <3>1
  <2>2. CASE x = u
    BY <1>1, <1>3, <2>1, <2>2
  <2>3. CASE x # u
    <3>1. x \in Maps /\ root2[x] = root[x] /\ root[x] # NONE
      BY <1>2, <1>3, <2>3
    <3>2. root[x] \in Phys \ {q}
      BY <1>1, <1>4, <3>1
    <3>3. s.ent[root[x]][i] = s.ent[root[Kernel]][i]
      BY <1>1, <3>1 DEF Forest, Shared
    <3> QED
      BY <1>1, <2>1, <3>1, <3>2, <3>3
  <2> QED
    BY <2>2, <2>3
<1>9. t.ent \in Rows /\ ToSet(t.free) \subseteq Phys /\ root2[Kernel] # NONE
  BY <1>1, <1>2, <1>3 DEF Mems
<1>10. \A m \in Maps, n \in Maps, k \in 0..4, l \in 0..4, a \in Nat, b \in Nat :
          /\ Managed(m, k, a) /\ Managed(n, l, b)
          /\ P(m, k, a) >= 0 /\ P(m, k, a) = P(n, l, b)
          => m = n /\ k = l /\ a = b
  <2> HIDE DEF P, O
  <2> TAKE m \in Maps, n \in Maps, k \in 0..4, l \in 0..4, a \in Nat, b \in Nat
  <2> HAVE /\ Managed(m, k, a) /\ Managed(n, l, b)
           /\ P(m, k, a) >= 0 /\ P(m, k, a) = P(n, l, b)
  <2> QED
    BY <1>7
<1> QED
  BY <1>3, <1>6, <1>8, <1>9, <1>10, Zenon DEF Forest

LEMMA MakingGood ==
    ASSUME NEW s, NEW t, NEW root, NEW root2, NEW u, NEW q, Making(s, t, root, root2, u, q),
           Others(s, t, root, root2, u), OnlyTop(t, root2, u, q)
    PROVE  Good(t, root2)
<1>1. Forest(t.ent, ToSet(t.free), root2)
  BY MakingForest
<1>2. /\ StaleOut(s, root) /\ q \in ToSet(s.free) /\ t \in Mems /\ IsInjective(t.free)
      /\ ToSet(t.free) \subseteq ToSet(s.free) \ {q} /\ t.stale = s.stale
  BY DEF Making, Good
<1>3. ASSUME NEW x \in t.stale, NEW n \in Maps, NEW l \in 0..4, NEW b \in Nat, Managed(n, l, b)
      PROVE  At(t.ent, root2[n], l, b) # x[2]
  <2>1. x \in s.stale /\ x[2] \in Frames /\ Own(n, l, b)
    BY <1>2, <1>3 DEF Mems, Managed
  <2>2. CASE n # u
    <3>1. At(t.ent, root2[n], l, b) = At(s.ent, root[n], l, b)
      BY <2>1, <2>2 DEF Others
    <3> QED
      BY <1>2, <1>3, <2>1, <3>1 DEF StaleOut
  <2>3. CASE n = u /\ l = 4
    <3>1. b = 0
      BY <2>1, <2>3 DEF Own
    <3>2. At(t.ent, root2[n], l, b) = q
      BY <2>3, <3>1 DEF OnlyTop
    <3> QED
      BY <1>2, <2>1, <3>2 DEF StaleOut
  <2>4. CASE n = u /\ l # 4
    <3>1. l \in 0..3
      BY <2>4
    <3>2. At(t.ent, root2[n], l, b) \in Missing
      BY <2>1, <2>4, <3>1 DEF OnlyTop
    <3>3. x[2] \in Nat
      BY <2>1, FanFacts
    <3> QED
      BY <3>2, <3>3 DEF Missing, NONE, WILD
  <2> QED
    BY <2>2, <2>3, <2>4
<1>4. StaleOut(t, root2)
  BY <1>2, <1>3 DEF StaleOut
<1> QED
  BY <1>1, <1>2, <1>4 DEF Good

LEMMA MakingKeeps ==
    ASSUME NEW s, NEW t, NEW root, NEW root2, NEW u, NEW q, Making(s, t, root, root2, u, q),
           NEW rg, NEW rg2, NEW ld, PlacesInv(s, root, rg, ld),
           rg2[Kernel] = rg[Kernel], UserLists(rg2, root2)
    PROVE  PlacesInv(t, root2, rg2, ld)
<1>1. Others(s, t, root, root2, u) /\ OnlyTop(t, root2, u, q)
  BY MakingOthers, MakingTop
<1>2. Good(t, root2)
  BY <1>1, MakingGood
<1>3. /\ u \in Users /\ u \in Maps /\ u # Kernel /\ root[u] = NONE /\ t.stop = s.stop
      /\ \A x \in Users : x # u => root2[x] = root[x]
  <2>1. root \in [Maps -> Phys \cup {NONE}]
    BY DEF Making, Good, Forest
  <2> QED
    BY <2>1, Kernels DEF Making
<1>4. /\ SlotThere(s, root) /\ KernelOnly(s, root) /\ UserAll(s, root) /\ LoadExec(s, root, ld)
      /\ CodeThere(s, root, ld) /\ Loads(root, ld) /\ HeapMapped(s, root, rg[Kernel]) /\ KernelList(rg[Kernel])
  BY DEF PlacesInv
<1>5. ASSUME NEW k \in 0..4, NEW a \in Nat, Own(Kernel, k, a)
      PROVE  /\ At(t.ent, root2[Kernel], k, a) = At(s.ent, root[Kernel], k, a)
             /\ Fl(t, root2, Kernel, k, a) = Fl(s, root, Kernel, k, a)
  BY <1>1, <1>3, <1>5, Kernels DEF Others
<1>6. ASSUME NEW x \in Users, x # u, NEW k \in 0..3, NEW a \in Nat, Own(x, k, a)
      PROVE  /\ At(t.ent, root2[x], k, a) = At(s.ent, root[x], k, a)
             /\ Fl(t, root2, x, k, a) = Fl(s, root, x, k, a)
  <2>1. k \in 0..4 /\ x \in Maps
    BY Kernels
  <2> QED
    BY <1>1, <1>6, <2>1 DEF Others
<1>7. ASSUME NEW k \in 0..3, NEW a \in Nat, Own(u, k, a)
      PROVE  ~(At(t.ent, root2[u], k, a) >= 0) /\ Fl(t, root2, u, k, a) = {}
  <2>1. At(t.ent, root2[u], k, a) \in Missing
    BY <1>1, <1>7 DEF OnlyTop
  <2>2. ~(At(t.ent, root2[u], k, a) >= 0)
    BY <2>1, MissingIs
  <2> QED
    BY <2>2 DEF Fl
<1>8. SlotThere(t, root2)
  <2>1. 3 \in 0..4 /\ UserSlots \in Nat /\ Own(Kernel, 3, UserSlots)
    BY FanFacts DEF Own, Top
  <2>2. At(t.ent, root2[Kernel], 3, UserSlots) = At(s.ent, root[Kernel], 3, UserSlots)
    BY <1>5, <2>1
  <2> QED
    BY <1>3, <1>4, <2>2 DEF SlotThere
<1>9. KernelOnly(t, root2)
  <2> SUFFICES ASSUME NEW k \in 0..3, NEW a \in Nat, Own(Kernel, k, a)
               PROVE  Fl(t, root2, Kernel, k, a) = {}
    BY DEF KernelOnly
  <2>1. k \in 0..4
    OBVIOUS
  <2>2. Fl(s, root, Kernel, k, a) = {}
    BY <1>4 DEF KernelOnly
  <2> QED
    BY <1>5, <2>1, <2>2
<1>10. UserAll(t, root2)
  <2> SUFFICES ASSUME NEW x \in Users, NEW k \in 0..3, NEW a \in Nat, Own(x, k, a),
                      At(t.ent, root2[x], k, a) >= 0
               PROVE  "user" \in Fl(t, root2, x, k, a)
    BY DEF UserAll
  <2>1. x # u
    BY <1>7
  <2>2. /\ At(t.ent, root2[x], k, a) = At(s.ent, root[x], k, a)
        /\ Fl(t, root2, x, k, a) = Fl(s, root, x, k, a)
    BY <1>6, <2>1
  <2> QED
    BY <1>4, <2>2 DEF UserAll
<1>11. LoadExec(t, root2, ld)
  <2> SUFFICES ASSUME NEW x \in Users, ld[x] <= Len(Segments), NEW k \in 1..3, NEW a \in Nat, Own(x, k, a)
               PROVE  "xd" \notin Fl(t, root2, x, k, a)
    BY DEF LoadExec
  <2>1. k \in 0..3 /\ "xd" \notin Fl(s, root, x, k, a)
    BY <1>4 DEF LoadExec
  <2>2. CASE x = u
    BY <1>7, <2>1, <2>2
  <2>3. CASE x # u
    <3>1. Fl(t, root2, x, k, a) = Fl(s, root, x, k, a)
      BY <1>6, <2>1, <2>3
    <3> QED
      BY <2>1, <3>1
  <2> QED
    BY <2>2, <2>3
<1>12. CodeThere(t, root2, ld)
  <2> SUFFICES ASSUME NEW x \in Users, NEW g \in 1..Len(Segments), g <= ld[x],
                      NEW v \in RegionPages(Segments[g]), NEW k \in 1..3
               PROVE  /\ At(t.ent, root2[x], k, Prefix(k, v)) >= 0
                      /\ "xd" \notin Fl(t, root2, x, k, Prefix(k, v))
    BY DEF CodeThere
  <2>0. v \in Nat /\ Own(x, 0, v) /\ x \in Maps
    BY SegmentPages
  <2>1. x # u
    <3>1. root[u] = NONE => ld[u] = 0
      BY <1>3, <1>4 DEF Loads
    <3>2. g >= 1 /\ g \in Nat
      BY VmmAssumption
    <3> QED
      BY <1>3, <3>1, <3>2
  <2> DEFINE a == Prefix(k, v)
  <2>2. a \in Nat /\ Own(x, k, a) /\ k \in 0..3
    BY <2>0, PrefixOwn
  <2>3. At(s.ent, root[x], k, a) >= 0 /\ "xd" \notin Fl(s, root, x, k, a)
    BY <1>4 DEF CodeThere
  <2> HIDE DEF a
  <2>4. /\ At(t.ent, root2[x], k, a) = At(s.ent, root[x], k, a)
        /\ Fl(t, root2, x, k, a) = Fl(s, root, x, k, a)
    BY <1>6, <2>1, <2>2
  <2>5. At(t.ent, root2[x], k, a) >= 0 /\ "xd" \notin Fl(t, root2, x, k, a)
    BY <2>3, <2>4
  <2> QED
    BY <2>5 DEF a
<1>13. Loads(root2, ld)
  BY <1>3, <1>4 DEF Loads
<1>14. HeapMapped(t, root2, rg2[Kernel])
  <2> SUFFICES ASSUME NEW v \in Nat, End(Hhdm) <= v, v < ImageBase
               PROVE  At(t.ent, root2[Kernel], 0, v) >= 0
                         <=> \E k \in HeapRegions(rg[Kernel]) : v \in RegionPages(rg[Kernel][k])
    BY DEF HeapMapped
  <2>1. Own(Kernel, 0, v) /\ 0 \in 0..4
    BY Layout, Kernels, OwnPages
  <2>2. At(t.ent, root2[Kernel], 0, v) = At(s.ent, root[Kernel], 0, v)
    BY <1>5, <2>1
  <2> QED
    BY <1>4, <2>2 DEF HeapMapped
<1> QED
  BY <1>2, <1>4, <1>8, <1>9, <1>10, <1>11, <1>12, <1>13, <1>14 DEF PlacesInv

\* Region objects are taken, and pages for them: the tables do not change.
NodeLike(s, t) ==
    /\ t.ent = s.ent /\ t.flags = s.flags /\ t.stale = s.stale
    /\ t.stop = "no" => s.stop = "no"

LEMMA NodeSame ==
    ASSUME NEW s \in Mems, NEW t, t = Node(s)
    PROVE  NodeLike(s, t)
<1>1. s.nodes \in Nat
  BY DEF Mems
<1>2. CASE s.nodes > 0
  BY <1>2 DEF Node, NodeLike, Mems
<1>3. CASE ~(s.nodes > 0) /\ s.free = <<>>
  BY <1>3 DEF Node, NodeLike, Mems
<1>4. CASE ~(s.nodes > 0) /\ s.free # <<>>
  BY <1>4 DEF Node, NodeLike, Mems
<1> QED
  BY <1>2, <1>3, <1>4

\* The program u gets a map, and the others keep what they have.
MapMade(u) ==
    regions' = regions \/ (/\ pml4[u] = NONE
                           /\ pml4' = [pml4 EXCEPT ![u] = Head(head)]
                           /\ Others(Now, After, pml4, pml4', u))

LEMMA NewPagemapKeepsPages ==
    ASSUME PageInv, OrderInv, NEW u \in Users, new_pagemap(u)
    PROVE  PageInv' /\ MapMade(u)
<1> DEFINE w == [Now EXCEPT !.free = Tail(@)]
           w1 == Node(w)
           s == Node(w1)
           q == Head(head)
           rg2 == [regions EXCEPT ![u] = <<[base |-> 0, length |-> 0],
                                           [base |-> HhdmBase + Hole, length |-> End(Image) + Hole]>>]
<1>0. u \in Maps /\ u # Kernel /\ Kernel \in Maps /\ Users \subseteq Maps
  BY Kernels
<1>1. halted = "no" /\ pml4[u] = NONE /\ loaded' = loaded
  BY DEF new_pagemap
<1>2. /\ PlacesInv(Now, pml4, regions, loaded) /\ Good(Now, pml4) /\ Now \in Mems
      /\ Now.ent = ent /\ Now.flags = flags /\ Now.free = head /\ Now.stale = stale
      /\ Now.stop = halted /\ Forest(ent, ToSet(head), pml4)
  BY NowIs
<1>3. CASE head = <<>>
  <2>1. halted' = "memory" /\ UNCHANGED <<head, ent, flags, stale, pml4, regions, nodes, loaded>>
    BY <1>1, <1>3 DEF new_pagemap
  <2>2. "memory" \in Kinds \ {"no"}
    BY DEF Kinds
  <2> QED
    BY <2>1, <2>2, StopKeeps DEF MapMade
<1>4. CASE head # <<>>
  <2>1. /\ Good(w, pml4) /\ w \in Mems /\ q \in Phys
        /\ w.ent = ent /\ w.flags = flags /\ w.stale = stale /\ w.stop = halted
        /\ ToSet(w.free) = ToSet(head) \ {q}
    <3>1. /\ Good(w, pml4) /\ Head(Now.free) \in Phys
          /\ w.ent = Now.ent /\ w.flags = Now.flags /\ w.stale = Now.stale /\ w.stop = Now.stop
          /\ ToSet(w.free) = ToSet(Now.free) \ {Head(Now.free)}
      BY <1>2, <1>4, Taken
    <3> HIDE DEF w
    <3> QED
      BY <1>2, <3>1 DEF Good
  <2> HIDE DEF w
  <2>2. Mapped(w, w1, pml4, u, {}, {}) /\ NodeLike(w, w1) /\ w1 \in Mems
    <3>1. Mapped(w, w1, pml4, u, {}, {}) /\ NodeLike(w, w1)
      BY <2>1, NodeIs, NodeSame
    <3> HIDE DEF w1
    <3> QED
      BY <3>1 DEF Mapped, Good
  <2> HIDE DEF w1
  <2>3. Mapped(w1, s, pml4, u, {}, {}) /\ NodeLike(w1, s)
    <3>1. Good(w1, pml4)
      BY <2>2 DEF Mapped
    <3> QED
      BY <2>2, <3>1, NodeIs, NodeSame
  <2>4. IF s.stop # "no"
        THEN halted' = s.stop /\ UNCHANGED <<head, ent, flags, stale, pml4, regions, nodes>>
        ELSE /\ head' = s.free /\ nodes' = s.nodes
             /\ pml4' = [pml4 EXCEPT ![u] = q]
             /\ \E old \in SUBSET (1..(UserSlots - 1)) : ent' = [ent EXCEPT ![q] = UserTop(old)]
             /\ flags' = [flags EXCEPT ![q] =
                            [i \in 0..(Fan - 1) |->
                                IF i >= UserSlots THEN flags[pml4[Kernel]][i] ELSE {}]]
             /\ stale' = stale /\ regions' = rg2 /\ halted' = halted
    BY <1>4 DEF new_pagemap, w, w1
  <2> HIDE DEF s
  <2>5. /\ s \in Mems /\ IsInjective(s.free) /\ ToSet(s.free) \subseteq ToSet(head) \ {q}
    BY <2>1, <2>2, <2>3 DEF Mapped, Good
  <2>6. CASE s.stop # "no"
    <3>1. s.stop \in Kinds
      BY <2>5 DEF Mems
    <3>2. halted' = s.stop /\ UNCHANGED <<head, ent, flags, stale, pml4, regions, nodes, loaded>>
      BY <1>1, <2>4, <2>6
    <3> QED
      BY <2>6, <3>1, <3>2, StopKeeps DEF MapMade
  <2>7. CASE s.stop = "no"
    <3> DEFINE frow == [i \in 0..(Fan - 1) |-> IF i >= UserSlots THEN flags[pml4[Kernel]][i] ELSE {}]
    <3>1. /\ head' = s.free /\ nodes' = s.nodes /\ pml4' = [pml4 EXCEPT ![u] = q]
          /\ flags' = [flags EXCEPT ![q] = frow] /\ stale' = stale /\ regions' = rg2
          /\ halted' = halted
      BY <2>4, <2>7
    <3>2. PICK old \in SUBSET (1..(UserSlots - 1)) : ent' = [ent EXCEPT ![q] = UserTop(old)]
      BY <2>4, <2>7
    <3>3. pml4[Kernel] \in Phys /\ ent \in Rows /\ flags \in FlagRows
      <4>1. pml4[Kernel] \in Phys /\ ent \in Rows
        BY <1>0, <1>2 DEF Forest
      <4>2. Now.flags \in FlagRows
        BY <1>2 DEF Mems
      <4> QED
        BY <1>2, <4>1, <4>2
    <3>4. /\ UserTop(old) \in [0..(Fan - 1) -> Vals]
          /\ \A i \in 0..(UserSlots - 1) : UserTop(old)[i] \in Missing
          /\ \A i \in UserSlots..(Fan - 1) : UserTop(old)[i] = ent[pml4[Kernel]][i]
      <4>1. \A i \in 0..(Fan - 1) : ent[pml4[Kernel]][i] \in Vals
        BY <3>3 DEF Rows
      <4>2. NONE \in Vals /\ WILD \in Vals
        BY DEF Vals
      <4>3. \A i \in 0..(UserSlots - 1) : i \in 0..(Fan - 1) /\ ~(i >= UserSlots)
        BY FanFacts
      <4>4. \A i \in UserSlots..(Fan - 1) : i \in 0..(Fan - 1) /\ i >= UserSlots
        BY FanFacts
      <4> QED
        BY <4>1, <4>2, <4>3, <4>4 DEF UserTop, Missing
    <3>5. frow \in [0..(Fan - 1) -> SUBSET {"user", "xd"}]
      <4>1. \A i \in 0..(Fan - 1) : flags[pml4[Kernel]][i] \in SUBSET {"user", "xd"}
        BY <3>3 DEF FlagRows
      <4> QED
        BY <4>1
    <3> HIDE DEF frow
    <3>6. /\ ent' \in Rows /\ flags' \in FlagRows
          /\ \A p \in Phys \ {q} : ent'[p] = ent[p] /\ flags'[p] = flags[p]
          /\ ent'[q] = UserTop(old)
      BY <2>1, <3>1, <3>2, <3>3, <3>4, <3>5 DEF Rows, FlagRows
    <3> DEFINE t == After
    <3>7. /\ t \in Mems /\ t.free = s.free /\ t.ent = ent' /\ t.flags = flags' /\ t.stale = stale
          /\ t.stop = halted
      <4>1. t = [free |-> s.free, ent |-> ent', flags |-> flags', stale |-> stale, nodes |-> s.nodes,
                 at |-> 0, stop |-> halted]
        BY <3>1 DEF After
      <4>2. stale \in SUBSET (Virt \X Frames) /\ halted \in Kinds
        BY <1>2 DEF Mems
      <4>3. s.free \in Seq(Phys) /\ s.nodes \in Nat
        BY <2>5 DEF Mems
      <4> HIDE DEF t
      <4> QED
        BY <3>6, <4>1, <4>2, <4>3 DEF Mems
    <3> HIDE DEF t
    <3>8. Making(Now, t, pml4, pml4', u, q)
      <4>1. q \in ToSet(head)
        <5>1. head \in Seq(Phys) /\ IsInjective(head)
          BY <1>2 DEF Good, Mems
        <5> QED
          BY <1>4, <5>1, TailInjective
      <4>2. /\ \A i \in 0..(UserSlots - 1) : t.ent[q][i] \in Missing
            /\ \A i \in UserSlots..(Fan - 1) : t.ent[q][i] = Now.ent[pml4[Kernel]][i]
        BY <1>2, <3>4, <3>6, <3>7
      <4>3. \A p \in Phys \ {q} : t.ent[p] = Now.ent[p] /\ t.flags[p] = Now.flags[p]
        BY <1>2, <3>6, <3>7
      <4> QED
        BY <1>1, <1>2, <2>5, <3>1, <3>7, <4>1, <4>2, <4>3 DEF Making
    <3>9. rg2[Kernel] = regions[Kernel] /\ UserLists(rg2, pml4')
      <4>1. regions \in [Maps -> Seq(Regions)] /\ pml4 \in [Maps -> Phys \cup {NONE}]
        BY <1>2 DEF OrderInv, Forest
      <4>2. rg2[Kernel] = regions[Kernel] /\ \A x \in Users : x # u => rg2[x] = regions[x] /\ pml4'[x] = pml4[x]
        BY <1>0, <3>1, <4>1
      <4>3. rg2[u] = <<[base |-> 0, length |-> 0],
                       [base |-> HhdmBase + Hole, length |-> End(Image) + Hole]>>
        BY <1>0, <4>1
      <4>4. Len(rg2[u]) = 2 /\ \A k \in 1..(Len(rg2[u]) - 1) : End(rg2[u][k]) <= HhdmBase
        <5>1. Len(rg2[u]) = 2 /\ rg2[u][1] = [base |-> 0, length |-> 0]
          BY <4>3
        <5>2. End(rg2[u][1]) = 0 /\ HhdmBase \in Nat
          BY <5>1, Layout DEF End
        <5> HIDE DEF rg2
        <5>3. \A k \in 1..(Len(rg2[u]) - 1) : k = 1
          BY <5>1
        <5> QED
          BY <5>1, <5>2, <5>3
      <4>5. UserLists(regions, pml4)
        BY <1>2 DEF PlacesInv
      <4> HIDE DEF rg2
      <4> DEFINE Half(x) == Len(rg2[x]) >= 2 /\ \A k \in 1..(Len(rg2[x]) - 1) : End(rg2[x][k]) <= HhdmBase
      <4>6. Half(u)
        BY <4>4
      <4>7. ASSUME NEW x \in Users, x # u, pml4'[x] # NONE PROVE Half(x)
        <5>1. rg2[x] = regions[x] /\ pml4[x] # NONE
          BY <4>2, <4>7
        <5> QED
          BY <4>5, <5>1 DEF UserLists
      <4> HIDE DEF Half
      <4>8. \A x \in Users : pml4'[x] # NONE => Half(x)
        BY <4>6, <4>7
      <4> QED
        BY <4>2, <4>8 DEF UserLists, Half
    <3> HIDE DEF rg2
    <3>10. PlacesInv(t, pml4', rg2, loaded)
      BY <1>2, <3>8, <3>9, MakingKeeps
    <3>11. Others(Now, t, pml4, pml4', u)
      BY <3>8, MakingOthers
    <3>12. MapMade(u)
      BY <1>1, <3>1, <3>11 DEF MapMade, t
    <3> QED
      BY <1>1, <3>1, <3>10, <3>12, PrimedInv DEF t
  <2> QED
    BY <2>6, <2>7
<1> QED
  BY <1>3, <1>4

\* What strayed stays so.
LEMMA StrayedGrows == ListsInv /\ [Next]_vars => strayed \subseteq strayed'
<1> SUFFICES ASSUME ListsInv, [Next]_vars PROVE strayed \subseteq strayed'
  OBVIOUS
<1>1. ASSUME NEW m \in Maps, NEW n, RegionAlloc(m, n) PROVE strayed \subseteq strayed'
  <2>1. (\E b : Remember(m, b, n)) \/ strayed' = strayed
    BY <1>1 DEF RegionAlloc, NewRegion, NoRegion
  <2> QED
    BY <2>1, RememberIs
<1>2. ASSUME NEW n \in KernelSizes, vmm_region_alloc(n) PROVE strayed \subseteq strayed'
  BY <1>1, <1>2, Kernels DEF vmm_region_alloc
<1>3. ASSUME NEW u \in Users, NEW n \in UserSizes, MmapAnonymous(u, n) PROVE strayed \subseteq strayed'
  BY <1>1, <1>3, Kernels DEF MmapAnonymous
<1>4. ASSUME NEW u \in Users, NEW h \in Hints, NEW n \in UserSizes, NEW exec \in BOOLEAN,
             MmapFixed(u, h, n, exec)
      PROVE strayed \subseteq strayed'
  <2>1. u \in Maps /\ Remember(u, h, n)
    BY <1>4, Kernels DEF MmapFixed
  <2> QED
    BY <2>1, RememberIs
<1>5. ASSUME NEW k, vmm_region_dealloc(k) PROVE strayed \subseteq strayed'
  BY <1>5 DEF vmm_region_dealloc
<1>6. ASSUME NEW u, new_pagemap(u) PROVE strayed \subseteq strayed'
  BY <1>6 DEF new_pagemap
<1>7. ASSUME NEW u, LoadSegment(u) PROVE strayed \subseteq strayed'
  BY <1>7 DEF LoadSegment
<1>8. ASSUME NEW u, LoadStack(u) PROVE strayed \subseteq strayed'
  BY <1>8 DEF LoadStack
<1>9. ASSUME UpdateCr3 \/ UNCHANGED vars PROVE strayed \subseteq strayed'
  BY <1>9 DEF UpdateCr3, vars
<1> QED
  BY <1>2, <1>3, <1>4, <1>5, <1>6, <1>7, <1>8, <1>9 DEF Next, Halt

LEMMA PageStep == ListsInv /\ strayed' = {} /\ PageInv /\ [Next]_vars => PageInv'
<1> SUFFICES ASSUME ListsInv, strayed' = {}, PageInv, [Next]_vars PROVE PageInv'
  OBVIOUS
<1>0. OrderInv
  <2>1. strayed = {}
    BY StrayedGrows
  <2> QED
    BY <2>1, NoneStrayed
<1>1. ASSUME NEW n \in KernelSizes, vmm_region_alloc(n) PROVE PageInv'
  BY <1>1, AllocKeeps
<1>2. ASSUME NEW k \in 2..(Len(regions[Kernel]) - 1), vmm_region_dealloc(k) PROVE PageInv'
  BY <1>0, <1>2, DeallocKeepsPages DEF HeapRegions
<1>3. ASSUME NEW u \in Users, new_pagemap(u) PROVE PageInv'
  BY <1>0, <1>3, NewPagemapKeepsPages
<1>4. ASSUME NEW u \in Users, LoadSegment(u) PROVE PageInv'
  BY <1>0, <1>4, LoadSegmentKeepsPages
<1>5. ASSUME NEW u \in Users, LoadStack(u) PROVE PageInv'
  BY <1>5, LoadStackKeeps
<1>6. ASSUME NEW u \in Users, NEW n \in UserSizes, MmapAnonymous(u, n) PROVE PageInv'
  BY <1>6, MmapAnonymousKeeps
<1>7. ASSUME NEW u \in Users, NEW h \in Hints, NEW n \in UserSizes, NEW exec \in BOOLEAN,
             MmapFixed(u, h, n, exec)
      PROVE PageInv'
  BY <1>7, MmapFixedKeeps
<1>8. ASSUME UpdateCr3 PROVE PageInv'
  BY <1>8, UpdateCr3Keeps
<1>9. ASSUME UNCHANGED vars PROVE PageInv'
  BY <1>9, StutterKeeps
<1> QED
  BY <1>1, <1>2, <1>3, <1>4, <1>5, <1>6, <1>7, <1>8, <1>9 DEF Next, Halt
------------------------------------------------------------------------------
(* What the tables map, by places.                                         *)

\* The pages under a place of level k, and the mappings under a table of it.
Size(k) == IF k = 0 THEN 1 ELSE IF k = 1 THEN Fan ELSE IF k = 2 THEN Fan * Fan ELSE Slot

LevelMaps(k, t, v) ==
    IF k = 0 THEN {<<v, t>>}
    ELSE IF k = 1 THEN L1Maps(t, v)
    ELSE IF k = 2 THEN L2Maps(t, v) ELSE L3Maps(t, v)

\* What is mapped under place a of level k of map m.
Leaves(m, k, a) ==
    {<<v, At(ent, pml4[m], 0, v)>> :
        v \in {w \in Nat : Own(m, 0, w) /\ Prefix(k, w) = a /\ At(ent, pml4[m], 0, w) >= 0}}

\* Under the places of level k are their leaves.
LeavesRight(m, k) ==
    \A b \in Nat : Own(m, k, b) /\ At(ent, pml4[m], k, b) >= 0 =>
        LevelMaps(k, At(ent, pml4[m], k, b), b * Size(k)) = Leaves(m, k, b)

LEMMA SizeStep ==
    ASSUME NEW k \in 0..2
    PROVE  /\ Size(k) \in Nat /\ Size(k + 1) = Fan * Size(k)
           /\ \A a \in Nat, i \in Nat : a * Size(k + 1) + i * Size(k) = (a * Fan + i) * Size(k)
<1>1. PICK F \in Nat : F = Fan
  BY FanFacts
<1>2. F * F \in Nat /\ F * F * F \in Nat /\ F * F * F = F * (F * F)
  BY SMT
<1>3. Size(k) \in Nat /\ Size(k + 1) = Fan * Size(k)
  <2>1. k = 0 \/ k = 1 \/ k = 2
    OBVIOUS
  <2>2. F * 1 = F
    OBVIOUS
  <2> QED
    BY <1>1, <1>2, <2>1, <2>2 DEF Size, Slot
<1>4. PICK z \in Nat : z = Size(k)
  BY <1>3
<1>5. \A a, i \in Nat : a * (F * z) + i * z = (a * F + i) * z
  OBVIOUS
<1> QED
  BY <1>1, <1>3, <1>4, <1>5

\* The i-th place under place a.
LEMMA Child ==
    ASSUME NEW m \in Maps, NEW k \in 0..3, NEW a \in Nat, NEW i \in 0..(Fan - 1), Own(m, k + 1, a),
           k = 3 => i < (IF m = Kernel THEN Fan ELSE UserSlots),
           NEW b, b = a * Fan + i
    PROVE  b \in Nat /\ b \div Fan = a /\ b % Fan = i /\ Own(m, k, b)
<1>1. PICK F \in Nat \ {0} : F = Fan
  BY FanFacts
<1>2. F * a + i = b /\ b \in Nat
  BY <1>1
<1>3. b \div Fan = a /\ b % Fan = i
  BY <1>1, <1>2, DivUnique
<1>4. Own(m, k, b)
  <2>1. CASE k = 3
    <3>1. a = 0
      BY <2>1 DEF Own
    <3>2. b = i
      BY <1>1, <1>2, <3>1
    <3> QED
      BY <2>1, <3>2 DEF Own, Top
  <2>2. CASE k = 2
    BY <1>3, <2>2 DEF Own, Top
  <2>3. CASE k = 1
    BY <1>3, <2>3 DEF Own, Top
  <2>4. CASE k = 0
    BY <1>3, <2>4 DEF Own, Top
  <2> QED
    BY <2>1, <2>2, <2>3, <2>4
<1> QED
  BY <1>2, <1>3, <1>4

\* One place up, and the number of the place in it.
LEMMA PrefixStep ==
    ASSUME NEW m \in Maps, NEW v \in Nat, Own(m, 0, v), NEW k \in 0..2
    PROVE  /\ Prefix(k, v) \in Nat /\ Own(m, k, Prefix(k, v)) /\ Prefix(k + 1, v) = Prefix(k, v) \div Fan
           /\ Prefix(k + 1, v) \in Nat /\ Own(m, k + 1, Prefix(k + 1, v))
           /\ Prefix(k, v) = Prefix(k + 1, v) * Fan + (Prefix(k, v) % Fan)
           /\ Prefix(k, v) % Fan \in 0..(Fan - 1)
<1>1. k + 1 \in 1..3 /\ (k + 1) - 1 = k
  OBVIOUS
<1>2. /\ Prefix(k + 1, v) \in Nat /\ Own(m, k + 1, Prefix(k + 1, v))
      /\ Prefix(k + 1, v) = Prefix(k, v) \div Fan
  BY <1>1, PrefixOwn
<1>3. Prefix(k, v) \in Nat /\ Own(m, k, Prefix(k, v))
  <2>1. CASE k = 0
    BY <2>1 DEF Prefix
  <2>2. CASE k # 0
    <3>1. k \in 1..3
      BY <2>2
    <3> QED
      BY <3>1, PrefixOwn
  <2> QED
    BY <2>1, <2>2
<1>4. PICK F \in Nat \ {0}, b \in Nat, c \in Nat : F = Fan /\ b = Prefix(k, v) /\ c = Prefix(k + 1, v)
  BY <1>2, <1>3, FanFacts
<1>5. b = F * (b \div F) + (b % F) /\ b % F \in 0..(F - 1)
  BY DivMod
<1>6. F * c = c * F
  OBVIOUS
<1> QED
  BY <1>2, <1>3, <1>4, <1>5, <1>6

LEMMA LevelStep ==
    ASSUME PageInv, NEW m \in Maps, NEW k \in 0..2, LeavesRight(m, k)
    PROVE  LeavesRight(m, k + 1)
<1>1. Forest(ent, ToSet(head), pml4) /\ k \in 0..3 /\ k \in 0..4 /\ k + 1 \in 0..4
  BY NowIs
<1> SUFFICES ASSUME NEW a \in Nat, Own(m, k + 1, a), At(ent, pml4[m], k + 1, a) >= 0
             PROVE  LevelMaps(k + 1, At(ent, pml4[m], k + 1, a), a * Size(k + 1)) = Leaves(m, k + 1, a)
  BY DEF LeavesRight
<1> DEFINE t == At(ent, pml4[m], k + 1, a)
           Under(i) == LevelMaps(k, ent[t][i], (a * Fan + i) * Size(k))
<1>2. t \in Nat /\ ~(t < 0)
  <2>1. t \in Int
    BY <1>1, AtType, ValsAreInts
  <2>2. t >= 0
    OBVIOUS
  <2> HIDE DEF t
  <2> QED
    BY <2>1, <2>2
<1>3. LevelMaps(k + 1, t, a * Size(k + 1)) = UNION {Under(i) : i \in Present(t)}
  <2>1. \A i \in Present(t) : a * Size(k + 1) + i * Size(k) = (a * Fan + i) * Size(k)
    <3>1. Present(t) \subseteq Nat
      BY FanFacts DEF Present
    <3> QED
      BY <3>1, SizeStep
  <2> DEFINE V == a * Size(k + 1)
  <2>2. LevelMaps(k + 1, t, V) = UNION {LevelMaps(k, ent[t][i], V + i * Size(k)) : i \in Present(t)}
    <3> HIDE DEF V, t
    <3>1. CASE k = 0
      <4>1. \A i \in Present(t) : i * 1 = i
        BY FanFacts DEF Present
      <4>2. LevelMaps(k + 1, t, V) = {<<V + i, ent[t][i]>> : i \in Present(t)}
        BY <3>1 DEF LevelMaps, L1Maps
      <4>3. \A i : LevelMaps(k, ent[t][i], V + i * Size(k)) = {<<V + i * 1, ent[t][i]>>}
        BY <3>1 DEF LevelMaps, Size
      <4> QED
        BY <4>1, <4>2, <4>3
    <3>2. CASE k = 1
      <4>1. LevelMaps(k + 1, t, V) = UNION {L1Maps(ent[t][i], V + i * Fan) : i \in Present(t)}
        BY <3>2 DEF LevelMaps, L2Maps
      <4>2. \A i : LevelMaps(k, ent[t][i], V + i * Size(k)) = L1Maps(ent[t][i], V + i * Fan)
        BY <3>2 DEF LevelMaps, Size
      <4> QED
        BY <4>1, <4>2
    <3>3. CASE k = 2
      <4>1. LevelMaps(k + 1, t, V) = UNION {L2Maps(ent[t][i], V + i * (Fan * Fan)) : i \in Present(t)}
        BY <3>3 DEF LevelMaps, L3Maps
      <4>2. \A i : LevelMaps(k, ent[t][i], V + i * Size(k)) = L2Maps(ent[t][i], V + i * (Fan * Fan))
        BY <3>3 DEF LevelMaps, Size
      <4> QED
        BY <4>1, <4>2
    <3> QED
      BY <3>1, <3>2, <3>3
  <2>3. {LevelMaps(k, ent[t][i], V + i * Size(k)) : i \in Present(t)} = {Under(i) : i \in Present(t)}
    <3>1. \A i \in Present(t) : V + i * Size(k) = (a * Fan + i) * Size(k)
      BY <2>1
    <3> HIDE DEF V, t
    <3> QED
      BY <3>1
  <2> QED
    BY <2>2, <2>3
<1>4. ASSUME NEW i \in 0..(Fan - 1), NEW b, b = a * Fan + i
      PROVE  b \in Nat /\ b \div Fan = a /\ b % Fan = i /\ Own(m, k, b) /\ At(ent, pml4[m], k, b) = ent[t][i]
  <2>1. b \in Nat /\ b \div Fan = a /\ b % Fan = i /\ Own(m, k, b)
    BY <1>1, <1>4, Child
  <2>2. At(ent, pml4[m], k, b) = get_next_table_unmap(ent, At(ent, pml4[m], k + 1, b \div Fan), b % Fan)
    BY <1>1, AtStep, Zenon
  <2>3. At(ent, pml4[m], k, b) = get_next_table_unmap(ent, t, i)
    BY <2>1, <2>2
  <2> HIDE DEF t
  <2> QED
    BY <1>2, <2>1, <2>3 DEF get_next_table_unmap
<1> HIDE DEF t
<1>5. ASSUME NEW i \in Present(t)
      PROVE  Under(i) = Leaves(m, k, a * Fan + i) /\ Under(i) \subseteq Leaves(m, k + 1, a)
  <2> DEFINE b == a * Fan + i
  <2>1. i \in 0..(Fan - 1) /\ ent[t][i] >= 0
    BY <1>5 DEF Present
  <2>2. b \in Nat /\ b \div Fan = a /\ b % Fan = i /\ Own(m, k, b) /\ At(ent, pml4[m], k, b) = ent[t][i]
    BY <1>4, <2>1
  <2> HIDE DEF b
  <2>3. LevelMaps(k, At(ent, pml4[m], k, b), b * Size(k)) = Leaves(m, k, b)
    BY <2>1, <2>2 DEF LeavesRight
  <2>4. Leaves(m, k, b) \subseteq Leaves(m, k + 1, a)
    <3>1. ASSUME NEW w \in Nat, Own(m, 0, w), Prefix(k, w) = b PROVE Prefix(k + 1, w) = a
      BY <2>2, <3>1, PrefixStep
    <3> QED
      BY <3>1 DEF Leaves
  <2> QED
    BY <2>2, <2>3, <2>4 DEF b
<1>6. ASSUME NEW v \in Nat, Own(m, 0, v), Prefix(k + 1, v) = a, At(ent, pml4[m], 0, v) >= 0
      PROVE  \E i \in Present(t) : <<v, At(ent, pml4[m], 0, v)>> \in Under(i)
  <2> DEFINE b == Prefix(k, v)
             i == b % Fan
  <2>1. b = a * Fan + i /\ i \in 0..(Fan - 1)
    BY <1>6, PrefixStep
  <2>2. At(ent, pml4[m], k, b) >= 0
    <3>1. CASE k = 0
      BY <1>6, <3>1 DEF Prefix
    <3>2. CASE k # 0
      <4>1. k \in 1..3
        BY <3>2
      <4> QED
        BY <1>1, <1>6, <4>1, PrefixPresent
    <3> QED
      BY <3>1, <3>2
  <2> HIDE DEF i
  <2>3. ent[t][i] >= 0
    BY <1>4, <2>1, <2>2
  <2>4. i \in Present(t)
    BY <2>1, <2>3 DEF Present
  <2>5. <<v, At(ent, pml4[m], 0, v)>> \in Leaves(m, k, b)
    BY <1>6 DEF Leaves
  <2> HIDE DEF Under, b
  <2>6. Under(i) = Leaves(m, k, b)
    BY <1>5, <2>1, <2>4
  <2> QED
    BY <2>4, <2>5, <2>6
<1> HIDE DEF Under
<1>7. Leaves(m, k + 1, a) \subseteq UNION {Under(i) : i \in Present(t)}
  BY <1>6 DEF Leaves
<1> QED
  BY <1>3, <1>5, <1>7 DEF t

\* What the slots of a top table map.
LEMMA TranslationsAre ==
    ASSUME PageInv, NEW m \in Maps, pml4[m] # NONE, NEW slots,
           slots \subseteq 0..((IF m = Kernel THEN Fan ELSE UserSlots) - 1)
    PROVE  Translations(pml4[m], slots) =
              {<<v, At(ent, pml4[m], 0, v)>> :
                  v \in {w \in Nat : Own(m, 0, w) /\ Prefix(3, w) \in slots /\ At(ent, pml4[m], 0, w) >= 0}}
<1>1. Forest(ent, ToSet(head), pml4)
  BY NowIs
<1>2. LeavesRight(m, 3)
  <2>1. LeavesRight(m, 0)
    <3> SUFFICES ASSUME NEW b \in Nat, Own(m, 0, b), At(ent, pml4[m], 0, b) >= 0
                 PROVE  LevelMaps(0, At(ent, pml4[m], 0, b), b * Size(0)) = Leaves(m, 0, b)
      BY DEF LeavesRight
    <3>1. b * Size(0) = b
      BY DEF Size
    <3>2. Leaves(m, 0, b) = {<<b, At(ent, pml4[m], 0, b)>>}
      BY DEF Leaves, Prefix
    <3> QED
      BY <3>1, <3>2 DEF LevelMaps
  <2>2. LeavesRight(m, 0 + 1)
    BY <2>1, LevelStep
  <2>3. 0 + 1 = 1 /\ 1 \in 0..2 /\ 1 + 1 = 2 /\ 2 \in 0..2 /\ 2 + 1 = 3
    OBVIOUS
  <2>4. LeavesRight(m, 1)
    BY <2>2, <2>3
  <2>5. LeavesRight(m, 2)
    BY <2>3, <2>4, LevelStep
  <2> QED
    BY <2>3, <2>5, LevelStep
<1> DEFINE r == pml4[m]
<1>3. r \in Phys /\ r \in Nat /\ ~(r < 0)
  <2>1. r \in Phys
    BY <1>1 DEF Forest
  <2> QED
    BY <2>1, ValsAreInts
<1>4. ASSUME NEW i \in 0..(Fan - 1), i \in slots
      PROVE  /\ i \in Nat /\ Own(m, 3, i) /\ At(ent, r, 3, i) = ent[r][i]
             /\ ent[r][i] >= 0 => L3Maps(ent[r][i], i * Slot) = Leaves(m, 3, i)
  <2>1. i \in Nat /\ i < Fan /\ Own(m, 3, i)
    BY <1>4, FanFacts DEF Own, Top
  <2>2. i % Fan = i
    BY <2>1, SmallMod
  <2>3. At(ent, r, 3, i) = ent[r][i]
    BY <1>3, <2>2 DEF At, get_next_table_unmap
  <2>4. ent[r][i] >= 0 => LevelMaps(3, ent[r][i], i * Size(3)) = Leaves(m, 3, i)
    BY <1>2, <2>1, <2>3 DEF LeavesRight
  <2> QED
    BY <2>1, <2>3, <2>4 DEF LevelMaps, Size
<1>5. \A i \in slots : i \in 0..(Fan - 1)
  BY FanFacts
<1> HIDE DEF r
<1>6. Translations(r, slots) = UNION {Leaves(m, 3, i) : i \in Present(r) \cap slots}
  <2>1. \A i \in Present(r) \cap slots : L3Maps(ent[r][i], i * Slot) = Leaves(m, 3, i)
    BY <1>4 DEF Present
  <2> QED
    BY <2>1 DEF Translations
<1>7. ASSUME NEW v \in Nat, Own(m, 0, v), Prefix(3, v) \in slots, At(ent, r, 0, v) >= 0
      PROVE  Prefix(3, v) \in Present(r) \cap slots
  <2>1. At(ent, r, 3, Prefix(3, v)) >= 0
    BY <1>1, <1>7, PrefixPresent DEF r
  <2>2. Prefix(3, v) \in 0..(Fan - 1)
    BY <1>5, <1>7
  <2>3. ent[r][Prefix(3, v)] >= 0
    BY <1>4, <1>7, <2>1, <2>2
  <2> QED
    BY <1>7, <2>2, <2>3 DEF Present
<1> QED
  BY <1>6, <1>7 DEF Leaves, r

\* Page p is a table of some map.
IsTable(p) ==
    p >= 0 /\ \E n \in Maps, k \in 1..4, a \in Nat : Own(n, k, a) /\ At(ent, pml4[n], k, a) = p

LEMMA TablesUnder ==
    ASSUME PageInv, NEW n \in Maps, NEW k \in 0..3, NEW a \in Nat, Own(n, k + 1, a),
           At(ent, pml4[n], k + 1, a) >= 0, NEW i \in Present(At(ent, pml4[n], k + 1, a)),
           k = 3 => i < (IF n = Kernel THEN Fan ELSE UserSlots)
    PROVE  /\ a * Fan + i \in Nat /\ Own(n, k, a * Fan + i)
           /\ ent[At(ent, pml4[n], k + 1, a)][i] = At(ent, pml4[n], k, a * Fan + i)
           /\ At(ent, pml4[n], k, a * Fan + i) >= 0
<1> DEFINE t == At(ent, pml4[n], k + 1, a)
           b == a * Fan + i
<1>1. Forest(ent, ToSet(head), pml4) /\ k + 1 \in 0..4
  BY NowIs
<1>2. t \in Nat /\ ~(t < 0)
  <2>1. t \in Int
    BY <1>1, AtType, ValsAreInts
  <2>2. t >= 0
    OBVIOUS
  <2> HIDE DEF t
  <2> QED
    BY <2>1, <2>2
<1>3. i \in 0..(Fan - 1) /\ ent[t][i] >= 0
  BY DEF Present
<1>4. b \in Nat /\ b \div Fan = a /\ b % Fan = i /\ Own(n, k, b)
  BY <1>3, Child
<1>5. At(ent, pml4[n], k, b) = get_next_table_unmap(ent, At(ent, pml4[n], k + 1, b \div Fan), b % Fan)
  BY AtStep, Zenon
<1>6. At(ent, pml4[n], k, b) = get_next_table_unmap(ent, t, i)
  BY <1>4, <1>5
<1> HIDE DEF t, b
<1>7. At(ent, pml4[n], k, b) = ent[t][i]
  BY <1>2, <1>6 DEF get_next_table_unmap
<1> QED
  BY <1>3, <1>4, <1>7 DEF t, b

LEMMA TablesArePlaces ==
    ASSUME PageInv, NEW m \in Made, NEW p \in Tables(pml4[m])
    PROVE  IsTable(p)
<1>1. Forest(ent, ToSet(head), pml4) /\ m \in Maps /\ pml4[m] # NONE /\ Kernel \in Maps /\ pml4[Kernel] # NONE
  BY NowIs, Kernels DEF Made, Forest
<1>2. \A x \in Maps : pml4[x] # NONE => pml4[x] \in Phys /\ pml4[x] >= 0 /\ At(ent, pml4[x], 4, 0) = pml4[x]
  <2>1. \A x \in Maps : pml4[x] # NONE => pml4[x] \in Phys
    BY <1>1 DEF Forest
  <2> QED
    BY <2>1, ValsAreInts DEF At
<1>3. ASSUME NEW n \in Maps, NEW a \in Nat, Own(n, 2, a), At(ent, pml4[n], 2, a) >= 0,
             NEW x \in L2Tables(At(ent, pml4[n], 2, a))
      PROVE  IsTable(x)
  <2> DEFINE t == At(ent, pml4[n], 2, a)
  <2>0. 2 \in 1..4 /\ 1 \in 1..4 /\ 1 \in 0..3 /\ 1 + 1 = 2
    OBVIOUS
  <2>1. CASE x = t
    BY <1>3, <2>0, <2>1 DEF IsTable
  <2>2. ASSUME NEW i \in Present(t) PROVE IsTable(ent[t][i])
    <3>1. /\ a * Fan + i \in Nat /\ Own(n, 1, a * Fan + i)
          /\ ent[t][i] = At(ent, pml4[n], 1, a * Fan + i)
          /\ At(ent, pml4[n], 1, a * Fan + i) >= 0
      <4>1. i \in Present(At(ent, pml4[n], 1 + 1, a)) /\ At(ent, pml4[n], 1 + 1, a) >= 0 /\ Own(n, 1 + 1, a)
        BY <1>3, <2>0, <2>2
      <4>2. /\ a * Fan + i \in Nat /\ Own(n, 1, a * Fan + i)
            /\ ent[At(ent, pml4[n], 1 + 1, a)][i] = At(ent, pml4[n], 1, a * Fan + i)
            /\ At(ent, pml4[n], 1, a * Fan + i) >= 0
        BY <2>0, <4>1, TablesUnder
      <4> QED
        BY <2>0, <4>2
    <3> HIDE DEF t
    <3> QED
      BY <2>0, <3>1 DEF IsTable
  <2> HIDE DEF t
  <2>3. x = t \/ \E i \in Present(t) : x = ent[t][i]
    BY <1>3 DEF L2Tables, t
  <2> QED
    BY <2>1, <2>2, <2>3
<1>4. ASSUME NEW n \in Maps, NEW a \in Nat, Own(n, 3, a), At(ent, pml4[n], 3, a) >= 0,
             NEW x \in L3Tables(At(ent, pml4[n], 3, a))
      PROVE  IsTable(x)
  <2> DEFINE t == At(ent, pml4[n], 3, a)
  <2>0. 3 \in 1..4 /\ 2 \in 0..3 /\ 2 + 1 = 3
    OBVIOUS
  <2>1. CASE x = t
    BY <1>4, <2>0, <2>1 DEF IsTable
  <2>2. ASSUME NEW i \in Present(t), x \in L2Tables(ent[t][i]) PROVE IsTable(x)
    <3>1. /\ a * Fan + i \in Nat /\ Own(n, 2, a * Fan + i)
          /\ ent[t][i] = At(ent, pml4[n], 2, a * Fan + i)
          /\ At(ent, pml4[n], 2, a * Fan + i) >= 0
      <4>1. i \in Present(At(ent, pml4[n], 2 + 1, a)) /\ At(ent, pml4[n], 2 + 1, a) >= 0 /\ Own(n, 2 + 1, a)
        BY <1>4, <2>0, <2>2
      <4>2. /\ a * Fan + i \in Nat /\ Own(n, 2, a * Fan + i)
            /\ ent[At(ent, pml4[n], 2 + 1, a)][i] = At(ent, pml4[n], 2, a * Fan + i)
            /\ At(ent, pml4[n], 2, a * Fan + i) >= 0
        BY <2>0, <4>1, TablesUnder
      <4> QED
        BY <2>0, <4>2
    <3> DEFINE b == a * Fan + i
    <3> HIDE DEF t, b
    <3>2. b \in Nat /\ Own(n, 2, b) /\ At(ent, pml4[n], 2, b) >= 0 /\ x \in L2Tables(At(ent, pml4[n], 2, b))
      BY <2>2, <3>1 DEF b
    <3> QED
      BY <1>3, <3>2
  <2> HIDE DEF t
  <2>3. x = t \/ \E i \in Present(t) : x \in L2Tables(ent[t][i])
    BY <1>4 DEF L3Tables, t
  <2> QED
    BY <2>1, <2>2, <2>3
<1>5. CASE p = pml4[m]
  <2>1. Own(m, 4, 0) /\ 4 \in 1..4 /\ 0 \in Nat
    BY DEF Own
  <2> QED
    BY <1>1, <1>2, <1>5, <2>1 DEF IsTable
<1>6. ASSUME NEW n \in Maps, pml4[n] # NONE, NEW i \in Present(pml4[n]),
             i < (IF n = Kernel THEN Fan ELSE UserSlots), p \in L3Tables(ent[pml4[n]][i])
      PROVE  IsTable(p)
  <2>1. Own(n, 3 + 1, 0) /\ 3 \in 0..3 /\ 3 + 1 = 4 /\ 0 \in Nat
    BY DEF Own
  <2>2. i \in Present(At(ent, pml4[n], 3 + 1, 0)) /\ At(ent, pml4[n], 3 + 1, 0) >= 0
    BY <1>2, <1>6, <2>1
  <2>3. /\ 0 * Fan + i \in Nat /\ Own(n, 3, 0 * Fan + i)
        /\ ent[At(ent, pml4[n], 3 + 1, 0)][i] = At(ent, pml4[n], 3, 0 * Fan + i)
        /\ At(ent, pml4[n], 3, 0 * Fan + i) >= 0
    BY <1>6, <2>1, <2>2, TablesUnder
  <2> DEFINE b == 0 * Fan + i
  <2> HIDE DEF b
  <2>4. b \in Nat /\ Own(n, 3, b) /\ At(ent, pml4[n], 3, b) >= 0 /\ p \in L3Tables(At(ent, pml4[n], 3, b))
    BY <1>2, <1>6, <2>1, <2>3 DEF b
  <2> QED
    BY <1>4, <2>4
<1>7. ASSUME NEW i \in Present(pml4[m]), p \in L3Tables(ent[pml4[m]][i]) PROVE IsTable(p)
  <2>1. i \in 0..(Fan - 1)
    BY DEF Present
  <2>2. CASE i < (IF m = Kernel THEN Fan ELSE UserSlots)
    BY <1>1, <1>6, <1>7, <2>2
  <2>3. CASE ~(i < (IF m = Kernel THEN Fan ELSE UserSlots))
    <3>1. m # Kernel /\ m \in Users /\ i \in UserSlots..(Fan - 1) /\ i < Fan
      BY <1>1, <2>1, <2>3, FanFacts DEF Maps
    <3>2. ent[pml4[m]][i] = ent[pml4[Kernel]][i]
      BY <1>1, <3>1 DEF Forest, Shared
    <3>3. i \in Present(pml4[Kernel])
      BY <1>7, <2>1, <3>2 DEF Present
    <3> QED
      BY <1>1, <1>6, <1>7, <3>1, <3>2, <3>3
  <2> QED
    BY <2>2, <2>3
<1> QED
  BY <1>5, <1>7 DEF Tables
------------------------------------------------------------------------------
(* The properties of a state.                                              *)

\* A mapping that owns its page: it is where it is mapped, and nowhere else.
Leaf(m, x) ==
    \E v \in Nat : /\ Managed(m, 0, v) /\ x = <<v, At(ent, pml4[m], 0, v)>>
                   /\ At(ent, pml4[m], 0, v) >= 0

LEMMA HeapLeaves ==
    ASSUME PageInv, NEW x \in KernelHeap
    PROVE  Leaf(Kernel, x)
<1>1. Kernel \in Maps /\ pml4[Kernel] # NONE
  BY NowIs, Kernels DEF Forest
<1>2. KernelSlots \subseteq 0..((IF Kernel = Kernel THEN Fan ELSE UserSlots) - 1)
  BY FanFacts DEF KernelSlots
<1>3. Translations(pml4[Kernel], KernelSlots) =
         {<<v, At(ent, pml4[Kernel], 0, v)>> :
             v \in {w \in Nat : Own(Kernel, 0, w) /\ Prefix(3, w) \in KernelSlots
                                  /\ At(ent, pml4[Kernel], 0, w) >= 0}}
  BY <1>1, <1>2, TranslationsAre
<1>4. PICK v \in Nat : /\ Own(Kernel, 0, v) /\ At(ent, pml4[Kernel], 0, v) >= 0
                       /\ x = <<v, At(ent, pml4[Kernel], 0, v)>>
                       /\ End(Hhdm) <= v /\ v < ImageBase
  BY <1>3 DEF KernelHeap
<1> QED
  BY <1>4 DEF Leaf, Managed

LEMMA UserLeaves ==
    ASSUME PageInv, NEW u \in Made \ {Kernel}, NEW x \in UserMaps(u)
    PROVE  Leaf(u, x)
<1>1. u \in Maps /\ u # Kernel /\ pml4[u] # NONE
  BY DEF Made
<1>2. 0..(UserSlots - 1) \subseteq 0..((IF u = Kernel THEN Fan ELSE UserSlots) - 1)
  BY <1>1
<1>3. UserMaps(u) =
         {<<v, At(ent, pml4[u], 0, v)>> :
             v \in {w \in Nat : Own(u, 0, w) /\ Prefix(3, w) \in 0..(UserSlots - 1)
                                  /\ At(ent, pml4[u], 0, w) >= 0}}
  BY <1>1, <1>2, TranslationsAre DEF UserMaps
<1> QED
  BY <1>1, <1>3 DEF Leaf, Managed

\* A page that is mapped is not free, is no table, and is mapped once.
LEMMA LeafIs ==
    ASSUME PageInv, NEW m \in Maps, NEW x, Leaf(m, x)
    PROVE  /\ x[2] \notin ToSet(head) /\ ~IsTable(x[2])
           /\ \A y \in stale : y[2] # x[2]
           /\ \A n \in Maps : \A y : Leaf(n, y) /\ y[2] = x[2] => n = m /\ y = x
<1>1. Forest(ent, ToSet(head), pml4) /\ 0 \in 0..4
  BY NowIs
<1>2. PICK v \in Nat : /\ Managed(m, 0, v) /\ x = <<v, At(ent, pml4[m], 0, v)>>
                       /\ At(ent, pml4[m], 0, v) >= 0
  BY DEF Leaf
<1>3. x[2] = At(ent, pml4[m], 0, v)
  BY <1>2
<1>4. x[2] \notin ToSet(head)
  BY <1>1, <1>2, <1>3 DEF Forest
<1>5. ~IsTable(x[2])
  <2> SUFFICES ASSUME NEW n \in Maps, NEW k \in 1..4, NEW a \in Nat, Own(n, k, a),
                      At(ent, pml4[n], k, a) = x[2]
               PROVE  FALSE
    BY DEF IsTable
  <2>1. Managed(n, k, a) /\ k \in 0..4 /\ k # 0
    BY DEF Managed
  <2> QED
    BY <1>1, <1>2, <1>3, <2>1 DEF Forest
<1>6. ASSUME NEW n \in Maps, NEW y, Leaf(n, y), y[2] = x[2] PROVE n = m /\ y = x
  <2>1. PICK w \in Nat : /\ Managed(n, 0, w) /\ y = <<w, At(ent, pml4[n], 0, w)>>
                         /\ At(ent, pml4[n], 0, w) >= 0
    BY <1>6 DEF Leaf
  <2>2. At(ent, pml4[n], 0, w) = At(ent, pml4[m], 0, v)
    BY <1>3, <1>6, <2>1
  <2>3. n = m /\ w = v
    BY <1>1, <1>2, <2>1, <2>2 DEF Forest
  <2> QED
    BY <1>2, <2>1, <2>3
<1>7. \A y \in stale : y[2] # x[2]
  <2>1. StaleOut(Now, pml4) /\ Now.stale = stale /\ Now.ent = ent
    BY NowIs DEF Good
  <2> QED
    BY <1>1, <1>2, <1>3, <2>1 DEF StaleOut
<1> QED
  BY <1>4, <1>5, <1>6, <1>7

LEMMA TableIs ==
    ASSUME PageInv, NEW p, IsTable(p)
    PROVE  p \notin ToSet(head) /\ \A y \in stale : y[2] # p
<1>1. Forest(ent, ToSet(head), pml4) /\ StaleOut(Now, pml4) /\ Now.stale = stale /\ Now.ent = ent
  BY NowIs DEF Good
<1>2. PICK n \in Maps, k \in 1..4, a \in Nat : Own(n, k, a) /\ At(ent, pml4[n], k, a) = p /\ p >= 0
  BY DEF IsTable
<1>3. Managed(n, k, a) /\ k \in 0..4
  BY <1>2 DEF Managed
<1> QED
  BY <1>1, <1>2, <1>3 DEF Forest, StaleOut

LEMMA TypesRight == OrderInv /\ PageInv /\ strayed = {} => TypeOK
<1> SUFFICES ASSUME OrderInv, PageInv, strayed = {} PROVE TypeOK
  OBVIOUS
<1>1. /\ PlacesInv(Now, pml4, regions, loaded) /\ Now \in Mems /\ Now.ent = ent /\ Now.flags = flags
      /\ Now.free = head /\ Now.stale = stale /\ Now.stop = halted /\ Forest(ent, ToSet(head), pml4)
  BY NowIs
<1>2. head \in Seq(Phys) /\ flags \in FlagRows /\ stale \in SUBSET (Virt \X Frames) /\ halted \in Kinds
  BY <1>1 DEF Mems
<1>3. nodes \in Nat
  <2>1. Now.nodes = nodes
    BY DEF Now
  <2> QED
    BY <1>1, <2>1 DEF Mems
<1>4. \A p \in Phys : \A i \in 0..(Fan - 1) : ent[p][i] \in {NONE, WILD} \cup Frames
  BY <1>1 DEF Forest, Rows, Vals
<1>5. pml4 \in [Maps -> Phys \cup {NONE}]
  BY <1>1 DEF Forest
<1>6. ASSUME NEW m \in Maps, NEW k \in 1..Len(regions[m])
      PROVE  regions[m][k].base \in 0..(PageSpace - 1) /\ regions[m][k].length \in Nat
  <2>1. regions[m] \in Seq(Regions) /\ InSpace(regions[m])
    BY DEF OrderInv
  <2>2. regions[m][k] \in Regions /\ regions[m][k].base < PageSpace
    BY <2>1 DEF InSpace
  <2>3. PICK b \in Nat, A \in Nat : b = regions[m][k].base /\ A = PageSpace
    <3>1. PageSpace \in Nat
      BY Layout
    <3> QED
      BY <2>2, <3>1 DEF Regions
  <2>4. b \in 0..(A - 1)
    BY <2>2, <2>3
  <2> QED
    BY <2>2, <2>3, <2>4 DEF Regions
<1>7. loaded \in [Users -> 0..(Len(Segments) + 1)]
  BY <1>1 DEF PlacesInv, Loads
<1>8. strayed \subseteq Maps
  OBVIOUS
<1> QED
  BY <1>2, <1>3, <1>4, <1>5, <1>6, <1>7, <1>8 DEF TypeOK, FlagRows

\* No page has two uses.
LEMMA OneUse == PageInv => OneUsePerPage
<1> SUFFICES ASSUME PageInv PROVE OneUsePerPage
  OBVIOUS
<1> DEFINE tables == UNION {Tables(pml4[m]) : m \in Made}
           user == UNION {{<<u, x>> : x \in UserMaps(u)} : u \in Made \ {Kernel}}
           all == {<<Kernel, x>> : x \in KernelHeap} \cup user
           mapped == {y[2][2] : y \in all}
<1>1. IsInjective(head)
  BY NowIs DEF Good
<1>2. \A p \in tables : IsTable(p)
  BY TablesArePlaces
<1>3. \A y \in all : y[1] \in Maps /\ Leaf(y[1], y[2]) /\ y = <<y[1], y[2]>>
  <2>1. ASSUME NEW x \in KernelHeap PROVE Kernel \in Maps /\ Leaf(Kernel, x)
    BY HeapLeaves, Kernels
  <2>2. ASSUME NEW u \in Made \ {Kernel}, NEW x \in UserMaps(u) PROVE u \in Maps /\ Leaf(u, x)
    BY UserLeaves DEF Made
  <2>3. ASSUME NEW y \in all
        PROVE  \/ \E x \in KernelHeap : y = <<Kernel, x>>
               \/ \E u \in Made \ {Kernel} : \E x \in UserMaps(u) : y = <<u, x>>
    OBVIOUS
  <2> HIDE DEF all
  <2> QED
    BY <2>1, <2>2, <2>3
<1> HIDE DEF tables, all
<1>4. \A q \in mapped : q \notin ToSet(head) /\ ~IsTable(q)
  BY <1>3, LeafIs
<1>5. ToSet(head) \cap (tables \cup mapped) = {}
  BY <1>2, <1>4, TableIs
<1>6. tables \cap mapped = {}
  BY <1>2, <1>4
<1>7. ASSUME NEW x \in all, NEW y \in all, x[2][2] = y[2][2] PROVE x = y
  <2>1. Leaf(x[1], x[2]) /\ Leaf(y[1], y[2]) /\ x[1] \in Maps /\ y[1] \in Maps
    BY <1>3
  <2>2. y[1] = x[1] /\ y[2] = x[2]
    BY <1>7, <2>1, LeafIs
  <2> QED
    BY <1>3, <2>2
<1> QED
  BY <1>1, <1>5, <1>6, <1>7 DEF OneUsePerPage, tables, all

LEMMA StaleIsOut == PageInv => NoStaleTranslation
<1> SUFFICES ASSUME PageInv PROVE NoStaleTranslation
  OBVIOUS
<1> DEFINE tables == UNION {Tables(pml4[m]) : m \in Made}
           mapped == {x[2] : x \in KernelHeap \cup UNION {UserMaps(u) : u \in Made \ {Kernel}}}
<1>1. \A p \in tables : IsTable(p)
  BY TablesArePlaces
<1>2. \A p \in mapped : \A y \in stale : y[2] # p
  <2>1. ASSUME NEW x \in KernelHeap PROVE \A y \in stale : y[2] # x[2]
    BY HeapLeaves, LeafIs, Kernels
  <2>2. ASSUME NEW u \in Made \ {Kernel}, NEW x \in UserMaps(u) PROVE \A y \in stale : y[2] # x[2]
    BY UserLeaves, LeafIs DEF Made
  <2> QED
    BY <2>1, <2>2
<1>3. \A y \in stale : y[2] \notin ToSet(head)
  <2>1. StaleOut(Now, pml4) /\ Now.stale = stale /\ Now.free = head
    BY NowIs DEF Good
  <2> QED
    BY <2>1 DEF StaleOut
<1> HIDE DEF tables, mapped
<1>4. \A y \in stale : y[2] \notin tables
  BY <1>1, TableIs
<1> QED
  BY <1>2, <1>3, <1>4 DEF NoStaleTranslation, tables, mapped

\* The kernel's half of a map is the kernel's.
LEMMA HalfIs ==
    ASSUME PageInv, NEW u \in Made
    PROVE  Translations(pml4[u], KernelSlots) = Translations(pml4[Kernel], KernelSlots)
<1>1. Forest(ent, ToSet(head), pml4) /\ u \in Maps /\ pml4[u] # NONE
  BY NowIs DEF Made
<1>2. CASE u = Kernel
  BY <1>2
<1>3. CASE u # Kernel
  <2>1. u \in Users
    BY <1>1, <1>3 DEF Maps
  <2>2. \A i \in KernelSlots : ent[pml4[u]][i] = ent[pml4[Kernel]][i]
    BY <1>1, <2>1 DEF Forest, Shared, KernelSlots
  <2>3. Present(pml4[u]) \cap KernelSlots = Present(pml4[Kernel]) \cap KernelSlots
    BY <2>2 DEF Present
  <2>4. {L3Maps(ent[pml4[u]][i], i * Slot) : i \in Present(pml4[u]) \cap KernelSlots}
          = {L3Maps(ent[pml4[Kernel]][i], i * Slot) : i \in Present(pml4[Kernel]) \cap KernelSlots}
    BY <2>2, <2>3
  <2> QED
    BY <2>4 DEF Translations
<1> QED
  BY <1>2, <1>3

LEMMA HalfShared == PageInv => KernelHalfShared
  BY HalfIs DEF KernelHalfShared

\* In the kernel's heap the pages of the list's regions are mapped, and no others.
LEMMA HeapIsRegions == OrderInv /\ PageInv => KernelHeapIsItsRegions
<1> SUFFICES ASSUME OrderInv, PageInv PROVE KernelHeapIsItsRegions
  OBVIOUS
<1> DEFINE rs == regions[Kernel]
           P(v) == At(ent, pml4[Kernel], 0, v)
<1>1. /\ Kernel \in Maps /\ pml4[Kernel] # NONE /\ KernelList(rs) /\ Now.ent = ent
      /\ HeapMapped(Now, pml4, rs)
  BY NowIs, Kernels DEF Forest, PlacesInv
<1>2. KernelSlots \subseteq 0..((IF Kernel = Kernel THEN Fan ELSE UserSlots) - 1)
  BY FanFacts DEF KernelSlots
<1>3. Translations(pml4[Kernel], KernelSlots) =
         {<<v, P(v)>> : v \in {w \in Nat : Own(Kernel, 0, w) /\ Prefix(3, w) \in KernelSlots /\ P(w) >= 0}}
  BY <1>1, <1>2, TranslationsAre
<1>4. rs \in Seq(Regions) /\ Ordered(rs)
  BY <1>1 DEF OrderInv
<1>5. PICK n \in Nat : n = Len(rs) /\ n >= 2 /\ rs[1] = Hhdm /\ rs[n] = Image
  BY <1>1, <1>4 DEF KernelList
<1>6. PICK H \in Nat, I \in Nat, A \in Nat, B \in Nat :
         H = End(Hhdm) /\ I = ImageBase /\ A = AddressSpace /\ B = HhdmBase /\ I < A /\ B <= H
  BY Layout, FanFacts DEF End, Hhdm
<1> DEFINE Pg == UNION {RegionPages(rs[k]) : k \in 2..(Len(rs) - 1)}
<1>7. ASSUME NEW v \in Pg
      PROVE  v \in Nat /\ H <= v /\ v < I /\ \E k \in HeapRegions(rs) : v \in RegionPages(rs[k])
  <2>1. PICK k \in 2..(n - 1) : v \in RegionPages(rs[k])
    BY <1>5
  <2>2. 1 \in 1..Len(rs) /\ k \in (1 + 1)..Len(rs) /\ k \in 1..Len(rs) /\ n \in (k + 1)..Len(rs)
    BY <1>5
  <2>3. End(rs[1]) <= rs[k].base /\ End(rs[k]) <= rs[n].base
    BY <1>4, <2>2, Later
  <2>4. PICK b \in Nat, l \in Nat : b = rs[k].base /\ l = rs[k].length
    <3>1. rs[k] \in Regions
      BY <1>4, <2>2
    <3> QED
      BY <3>1 DEF Regions
  <2>5. v \in b..((b + l) - 1)
    BY <2>1, <2>4 DEF RegionPages, End
  <2>6. H <= b /\ b + l <= I
    BY <1>5, <1>6, <2>3, <2>4 DEF End, Image
  <2>7. k \in HeapRegions(rs)
    BY <1>5 DEF HeapRegions
  <2> QED
    BY <1>6, <2>1, <2>5, <2>6, <2>7
<1>8. ASSUME NEW v \in Nat, H <= v, v < I, \E k \in HeapRegions(rs) : v \in RegionPages(rs[k])
      PROVE  v \in Pg
  BY <1>8 DEF HeapRegions
<1>9. \A v \in Nat : H <= v /\ v < I => (P(v) >= 0 <=> v \in Pg)
  <2> HIDE DEF Pg
  <2>1. \A v \in Nat : H <= v /\ v < I => (P(v) >= 0 <=> \E k \in HeapRegions(rs) : v \in RegionPages(rs[k]))
    BY <1>1, <1>6 DEF HeapMapped
  <2> HIDE DEF rs
  <2> QED
    BY <1>7, <1>8, <2>1
<1>10. ASSUME NEW v \in Nat, H <= v, v < I PROVE Own(Kernel, 0, v) /\ Prefix(3, v) \in KernelSlots
  <2>1. Own(Kernel, 0, v)
    <3>1. v < A
      BY <1>6, <1>10
    <3> QED
      BY <1>1, <1>6, <3>1, OwnPages
  <2>2. Prefix(3, v) = v \div Slot /\ Prefix(3, v) \in Nat
    <3>1. Prefix(3, v) = Top(0, v) /\ 3 \in 1..3
      BY DEF Prefix, Top
    <3> QED
      BY <1>1, <2>1, <3>1, Digits, PrefixOwn
  <2>3. PICK F \in Nat, h \in Nat, q \in Nat : F = Fan /\ h = UserSlots /\ q = v \div Slot
    BY <2>2, FanFacts
  <2>4. q < F
    BY <2>1, <2>3, Digits DEF Own
  <2>5. ~(q < h)
    <3>1. ~(v < HhdmBase)
      BY <1>6, <1>10
    <3> QED
      BY <2>3, <3>1, Halves DEF HhdmBase
  <2>6. q \in h..(F - 1)
    BY <2>3, <2>4, <2>5
  <2> QED
    BY <2>1, <2>2, <2>3, <2>6 DEF KernelSlots
<1> HIDE DEF Pg
<1>11. ASSUME NEW x \in KernelHeap PROVE x[1] \in Pg
  <2>1. PICK v \in Nat : P(v) >= 0 /\ x = <<v, P(v)>> /\ H <= v /\ v < I
    BY <1>3, <1>6 DEF KernelHeap
  <2> QED
    BY <1>9, <2>1
<1>12. ASSUME NEW v \in Pg PROVE <<v, P(v)>> \in KernelHeap
  <2>1. v \in Nat /\ H <= v /\ v < I
    BY <1>7
  <2>2. P(v) >= 0 /\ Own(Kernel, 0, v) /\ Prefix(3, v) \in KernelSlots
    BY <1>9, <1>10, <2>1
  <2>3. <<v, P(v)>> \in Translations(pml4[Kernel], KernelSlots)
    BY <1>3, <2>1, <2>2
  <2> QED
    BY <1>6, <2>1, <2>3 DEF KernelHeap
<1>13. {x[1] : x \in KernelHeap} = Pg
  <2>1. \A v \in Pg : \E x \in KernelHeap : x[1] = v
    <3> TAKE v \in Pg
    <3>1. <<v, P(v)>> \in KernelHeap /\ <<v, P(v)>>[1] = v
      BY <1>12
    <3> QED
      BY <3>1
  <2> QED
    BY <1>11, <2>1
<1> QED
  BY <1>13 DEF KernelHeapIsItsRegions, Pg
------------------------------------------------------------------------------
(* The flags on the way to a page.                                         *)

LEMMA LeafFlagsAre ==
    ASSUME PageInv, NEW m \in Maps, NEW v \in Nat, At(ent, pml4[m], 0, v) >= 0
    PROVE  LeafFlags(pml4[m], v) = Fl(Now, pml4, m, 0, v)
<1>1. Now.ent = ent /\ Now.flags = flags
  BY NowIs
<1>2. Walk(ent, pml4[m], v) = At(ent, pml4[m], 1, v \div Fan) /\ Index(v, 1) = v % Fan
  BY WalkIs, Digits
<1>3. Fl(Now, pml4, m, 0, v) = flags[At(ent, pml4[m], 1, v \div Fan)][v % Fan]
  <2>1. 0 < 4 /\ 0 + 1 = 1
    OBVIOUS
  <2> QED
    BY <1>1, <2>1 DEF Fl
<1> QED
  BY <1>2, <1>3 DEF LeafFlags

LEMMA PathIs ==
    ASSUME PageInv, NEW m \in Maps, pml4[m] # NONE, NEW v \in Nat, Own(m, 0, v),
           \A k \in 1..3 : At(ent, pml4[m], k, Prefix(k, v)) >= 0
    PROVE  PathFlags(pml4[m], v) = <<Fl(Now, pml4, m, 3, Prefix(3, v)), Fl(Now, pml4, m, 2, Prefix(2, v)),
                                     Fl(Now, pml4, m, 1, Prefix(1, v))>>
<1> DEFINE r == pml4[m]
           P(k) == Prefix(k, v)
           A(k) == At(ent, r, k, P(k))
<1>1. Now.ent = ent /\ Now.flags = flags /\ Forest(ent, ToSet(head), pml4)
  BY NowIs
<1>2. r \in Phys /\ ~(r < 0)
  <2>1. r \in Phys
    BY <1>1 DEF Forest
  <2> QED
    BY <2>1, ValsAreInts
<1>3. Index(v, 4) = P(3) % Fan /\ Index(v, 3) = P(2) % Fan /\ Index(v, 2) = P(1) % Fan
  BY Digits DEF Prefix
<1>4. /\ A(3) = get_next_table_unmap(ent, r, P(3) % Fan)
      /\ A(2) = get_next_table_unmap(ent, A(3), P(2) % Fan)
      /\ P(2) \div Fan = P(3) /\ P(1) \div Fan = P(2)
  BY DEF At, Prefix
<1>5. ASSUME NEW k \in 1..3 PROVE A(k) \in Int /\ A(k) >= 0
  <2>1. P(k) \in Nat /\ Own(m, k, P(k)) /\ k \in 0..4
    BY PrefixOwn
  <2>2. A(k) \in Vals \cup Phys
    BY <1>1, <2>1, AtType
  <2> QED
    BY <2>2, ValsAreInts
<1>6. 1 \in 1..3 /\ 2 \in 1..3 /\ 3 \in 1..3
  OBVIOUS
<1>7. A(3) >= 0 /\ A(2) >= 0 /\ A(1) >= 0 /\ A(3) \in Int
  BY <1>5, <1>6
<1>8. At(ent, r, 4, P(3) \div Fan) = r
  BY DEF At
<1>9. /\ Fl(Now, pml4, m, 3, P(3)) = flags[r][P(3) % Fan]
      /\ Fl(Now, pml4, m, 2, P(2)) = flags[A(3)][P(2) % Fan]
      /\ Fl(Now, pml4, m, 1, P(1)) = flags[A(2)][P(1) % Fan]
  <2>1. 3 + 1 = 4 /\ 2 + 1 = 3 /\ 1 + 1 = 2 /\ 3 < 4 /\ 2 < 4 /\ 1 < 4
    OBVIOUS
  <2> HIDE DEF P
  <2> QED
    BY <1>1, <1>4, <1>7, <1>8, <2>1 DEF Fl
<1> HIDE DEF A, P
<1>10. A(3) = ent[r][P(3) % Fan]
  BY <1>2, <1>4 DEF get_next_table_unmap
<1>11. A(2) = ent[A(3)][P(2) % Fan]
  <2>1. ~(A(3) < 0)
    BY <1>7
  <2> QED
    BY <1>4, <2>1 DEF get_next_table_unmap
<1>12. PathFlags(r, v) = <<flags[r][P(3) % Fan], flags[A(3)][P(2) % Fan], flags[A(2)][P(1) % Fan]>>
  BY <1>3, <1>10, <1>11 DEF PathFlags
<1> QED
  BY <1>9, <1>12 DEF P

LEMMA CodeRight == PageInv => CodeExecutable
<1> SUFFICES ASSUME PageInv, NEW u \in Made \ {Kernel}, NEW g \in 1..Min({loaded[u], Len(Segments)}),
                    NEW v \in RegionPages(Segments[g]), NEW k \in 1..3
             PROVE  "xd" \notin PathFlags(pml4[u], v)[k]
  BY DEF CodeExecutable
<1>1. u \in Users /\ u \in Maps /\ pml4[u] # NONE
  BY DEF Made, Maps
<1>2. CodeThere(Now, pml4, loaded) /\ Loads(pml4, loaded) /\ Now.ent = ent
  BY NowIs DEF PlacesInv
<1>3. g \in 1..Len(Segments) /\ g <= loaded[u]
  <2> DEFINE S == {loaded[u], Len(Segments)}
  <2>1. loaded[u] \in Nat /\ Len(Segments) \in Nat
    BY <1>1, <1>2, VmmAssumption DEF Loads
  <2>2. Min(S) \in S /\ \A y \in S : Min(S) <= y
    <3>1. S \in SUBSET Nat /\ S # {}
      BY <2>1
    <3> QED
      BY <3>1, MinInSet
  <2>3. Min(S) \in Nat /\ Min(S) <= loaded[u] /\ Min(S) <= Len(Segments) /\ g \in 1..Min(S)
    BY <2>1, <2>2
  <2> HIDE DEF S
  <2> QED
    BY <2>1, <2>3
<1>4. v \in Nat /\ Own(u, 0, v)
  BY <1>1, <1>3, SegmentPages
<1>5. \A j \in 1..3 : /\ At(ent, pml4[u], j, Prefix(j, v)) >= 0
                      /\ "xd" \notin Fl(Now, pml4, u, j, Prefix(j, v))
  BY <1>1, <1>2, <1>3 DEF CodeThere
<1>6. PathFlags(pml4[u], v) = <<Fl(Now, pml4, u, 3, Prefix(3, v)), Fl(Now, pml4, u, 2, Prefix(2, v)),
                                Fl(Now, pml4, u, 1, Prefix(1, v))>>
  BY <1>1, <1>4, <1>5, PathIs
<1>7. 1 \in 1..3 /\ 2 \in 1..3 /\ 3 \in 1..3 /\ (k = 1 \/ k = 2 \/ k = 3)
  OBVIOUS
<1> QED
  BY <1>5, <1>6, <1>7

LEMMA RingsRight == PageInv => RingsApart
<1> SUFFICES ASSUME PageInv, NEW u \in Made \ {Kernel}
             PROVE  /\ \A x \in UserMaps(u) :
                          /\ "user" \in LeafFlags(pml4[u], x[1])
                          /\ \A k \in 1..3 : "user" \in PathFlags(pml4[u], x[1])[k]
                    /\ \A x \in Translations(pml4[u], KernelSlots) : "user" \notin LeafFlags(pml4[u], x[1])
  BY DEF RingsApart
<1>1. /\ u \in Users /\ u \in Maps /\ pml4[u] # NONE /\ u # Kernel /\ u \in Made
      /\ Kernel \in Maps /\ pml4[Kernel] # NONE
  BY NowIs, Kernels DEF Made, Maps, Forest
<1>2. /\ UserAll(Now, pml4) /\ KernelOnly(Now, pml4) /\ Now.ent = ent
      /\ Forest(ent, ToSet(head), pml4) /\ pml4[u] \in Phys /\ pml4[Kernel] \in Phys
  BY <1>1, NowIs DEF PlacesInv, Forest
<1>3. ASSUME NEW x \in UserMaps(u)
      PROVE  /\ "user" \in LeafFlags(pml4[u], x[1])
             /\ \A k \in 1..3 : "user" \in PathFlags(pml4[u], x[1])[k]
  <2>1. PICK v \in Nat : /\ Managed(u, 0, v) /\ x = <<v, At(ent, pml4[u], 0, v)>>
                         /\ At(ent, pml4[u], 0, v) >= 0
    BY UserLeaves DEF Leaf
  <2>2. Own(u, 0, v) /\ x[1] = v
    BY <2>1 DEF Managed
  <2>3. \A k \in 1..3 : At(ent, pml4[u], k, Prefix(k, v)) >= 0
    BY <1>1, <1>2, <2>1, <2>2, PrefixPresent
  <2>4. "user" \in LeafFlags(pml4[u], v)
    <3>1. 0 \in 0..3
      OBVIOUS
    <3>2. "user" \in Fl(Now, pml4, u, 0, v)
      BY <1>1, <1>2, <2>1, <2>2, <3>1 DEF UserAll
    <3> QED
      BY <1>1, <2>1, <3>2, LeafFlagsAre
  <2>5. ASSUME NEW j \in 1..3 PROVE "user" \in Fl(Now, pml4, u, j, Prefix(j, v))
    <3>1. j \in 0..3 /\ Prefix(j, v) \in Nat /\ Own(u, j, Prefix(j, v))
      BY <1>1, <2>2, PrefixOwn
    <3> QED
      BY <1>1, <1>2, <2>3, <3>1 DEF UserAll
  <2>6. PathFlags(pml4[u], v) = <<Fl(Now, pml4, u, 3, Prefix(3, v)), Fl(Now, pml4, u, 2, Prefix(2, v)),
                                  Fl(Now, pml4, u, 1, Prefix(1, v))>>
    BY <1>1, <2>2, <2>3, PathIs
  <2>7. ASSUME NEW k \in 1..3 PROVE "user" \in PathFlags(pml4[u], v)[k]
    <3>1. 1 \in 1..3 /\ 2 \in 1..3 /\ 3 \in 1..3 /\ (k = 1 \/ k = 2 \/ k = 3)
      OBVIOUS
    <3> QED
      BY <2>5, <2>6, <3>1
  <2> QED
    BY <2>2, <2>4, <2>7
<1>4. ASSUME NEW x \in Translations(pml4[u], KernelSlots) PROVE "user" \notin LeafFlags(pml4[u], x[1])
  <2>1. x \in Translations(pml4[Kernel], KernelSlots)
    BY <1>1, HalfIs
  <2>2. KernelSlots \subseteq 0..((IF Kernel = Kernel THEN Fan ELSE UserSlots) - 1)
    BY FanFacts DEF KernelSlots
  <2>3. Translations(pml4[Kernel], KernelSlots) =
           {<<v, At(ent, pml4[Kernel], 0, v)>> :
               v \in {w \in Nat : Own(Kernel, 0, w) /\ Prefix(3, w) \in KernelSlots
                                    /\ At(ent, pml4[Kernel], 0, w) >= 0}}
    BY <1>1, <2>2, TranslationsAre
  <2>4. PICK v \in Nat : /\ Own(Kernel, 0, v) /\ Prefix(3, v) \in KernelSlots
                         /\ At(ent, pml4[Kernel], 0, v) >= 0 /\ x[1] = v
    BY <2>1, <2>3
  <2>5. LeafFlags(pml4[Kernel], v) = {}
    <3>1. 0 \in 0..3
      OBVIOUS
    <3>2. Fl(Now, pml4, Kernel, 0, v) = {}
      BY <1>2, <2>4, <3>1 DEF KernelOnly
    <3> QED
      BY <1>1, <2>4, <3>2, LeafFlagsAre
  <2>6. Walk(ent, pml4[u], v) = Walk(ent, pml4[Kernel], v)
    <3> DEFINE i == Index(v, 4)
    <3>1. i = Prefix(3, v)
      <4>1. i = Prefix(3, v) % Fan
        BY Digits DEF Prefix
      <4>2. Prefix(3, v) \in Nat /\ Prefix(3, v) < Fan
        BY <2>4, FanFacts DEF KernelSlots
      <4> QED
        BY <4>1, <4>2, SmallMod
    <3>2. i \in UserSlots..(Fan - 1)
      BY <2>4, <3>1 DEF KernelSlots
    <3>3. ent[pml4[u]][i] = ent[pml4[Kernel]][i]
      BY <1>1, <1>2, <3>2 DEF Forest, Shared
    <3>4. ~(pml4[u] < 0) /\ ~(pml4[Kernel] < 0)
      BY <1>2, ValsAreInts
    <3>5. get_next_table_unmap(ent, pml4[u], i) = get_next_table_unmap(ent, pml4[Kernel], i)
      BY <3>3, <3>4 DEF get_next_table_unmap
    <3> QED
      BY <3>5 DEF Walk
  <2>7. LeafFlags(pml4[u], v) = {}
    BY <2>5, <2>6 DEF LeafFlags
  <2> QED
    BY <2>4, <2>7
<1> QED
  BY <1>3, <1>4
------------------------------------------------------------------------------
(* Listed pages.                                                           *)

\* What ListedPagesKept says of a step.
Kept ==
    \A m \in Made : \A k \in 1..(Len(regions[m]) - 1) :
        regions[m][k] \in ToSet(regions'[m]) =>
            \A v \in RegionPages(regions[m][k]) :
                virt_to_phys(ent', pml4[m], v) = virt_to_phys(ent, pml4[m], v)

\* A map's regions but the last are in its half, or below the image.
LEMMA ListedOwn ==
    ASSUME OrderInv, PageInv, NEW m \in Made,
           NEW k \in 1..(Len(regions[m]) - 1), NEW v \in RegionPages(regions[m][k])
    PROVE  v \in Nat /\ Own(m, 0, v) /\ k \in 1..Len(regions[m]) /\ m \in Maps
<1> DEFINE rs == regions[m]
           top == IF m = Kernel THEN ImageBase ELSE HhdmBase
<1>1. m \in Maps /\ pml4[m] # NONE /\ rs \in Seq(Regions) /\ Ordered(rs)
  BY DEF OrderInv, Made
<1>2. KernelList(regions[Kernel]) /\ UserLists(regions, pml4)
  BY NowIs DEF PlacesInv
<1>3. PICK n \in Nat : n = Len(rs)
  BY <1>1
<1>4. k \in 1..Len(rs) /\ n \in (k + 1)..Len(rs)
  BY <1>3
<1>5. End(rs[k]) <= top
  <2>1. CASE m = Kernel
    <3>1. rs[n] = Image
      BY <1>2, <1>3, <2>1 DEF KernelList
    <3>2. End(rs[k]) <= rs[n].base
      BY <1>1, <1>4, Later
    <3> QED
      BY <2>1, <3>1, <3>2 DEF Image
  <2>2. CASE m # Kernel
    <3>1. m \in Users
      BY <1>1, <2>2 DEF Maps
    <3> QED
      BY <1>1, <1>2, <2>2, <3>1 DEF UserLists
  <2> QED
    BY <2>1, <2>2
<1>6. PICK H \in Nat, I \in Nat, A \in Nat : H = HhdmBase /\ I = ImageBase /\ A = AddressSpace /\ I < A
  BY Layout, FanFacts
<1>7. PICK b \in Nat, l \in Nat : b = rs[k].base /\ l = rs[k].length
  <2>1. rs[k] \in Regions
    BY <1>1, <1>4
  <2> QED
    BY <2>1 DEF Regions
<1>8. v \in b..((b + l) - 1) /\ b + l <= top
  BY <1>5, <1>7 DEF RegionPages, End
<1> HIDE DEF rs
<1>9. v \in Nat /\ v < (IF m = Kernel THEN AddressSpace ELSE HhdmBase)
  <2>1. CASE m = Kernel
    <3>1. v \in b..((b + l) - 1) /\ b + l <= I
      BY <1>6, <1>8, <2>1
    <3>2. v \in Nat /\ v < A
      BY <1>6, <3>1
    <3> QED
      BY <1>6, <2>1, <3>2
  <2>2. CASE m # Kernel
    <3>1. v \in b..((b + l) - 1) /\ b + l <= H
      BY <1>6, <1>8, <2>2
    <3>2. v \in Nat /\ v < H
      BY <3>1
    <3> QED
      BY <1>6, <2>2, <3>2
  <2> QED
    BY <2>1, <2>2
<1> QED
  BY <1>1, <1>4, <1>9, OwnPages DEF rs

\* It is enough that a step leaves the places of these pages.
LEMMA KeptIf ==
    ASSUME OrderInv, PageInv,
           \A m \in Made : \A k \in 1..(Len(regions[m]) - 1) :
              regions[m][k] \in ToSet(regions'[m]) =>
                 \A v \in RegionPages(regions[m][k]) : At(ent', pml4[m], 0, v) = At(ent, pml4[m], 0, v)
    PROVE  Kept
<1> SUFFICES ASSUME NEW m \in Made, NEW k \in 1..(Len(regions[m]) - 1),
                    regions[m][k] \in ToSet(regions'[m]), NEW v \in RegionPages(regions[m][k])
             PROVE  virt_to_phys(ent', pml4[m], v) = virt_to_phys(ent, pml4[m], v)
  BY DEF Kept
<1>1. v \in Nat
  BY ListedOwn
<1>2. At(ent', pml4[m], 0, v) = At(ent, pml4[m], 0, v)
  OBVIOUS
<1> QED
  BY <1>1, <1>2, WalkIs

\* The region a list gets covers none that it has.
LEMMA NewCoversNone ==
    ASSUME NEW s \in Seq(Regions), NEW k \in 2..Len(s), NEW x \in Regions,
           Ordered(InsertAt(s, k, x)), NEW j \in 1..Len(s), NEW v \in RegionPages(s[j])
    PROVE  v \notin RegionPages(x)
<1> DEFINE t == InsertAt(s, k, x)
           i == IF j < k THEN j ELSE j + 1
<1>1. PICK n \in Nat : n = Len(s)
  OBVIOUS
<1>2. Inserted(t, s, n, k, x)
  <2>1. k \in 1..n
    BY <1>1
  <2> QED
    BY <1>1, <2>1, InsertIs
<1>3. t \in Seq(Regions) /\ k \in 1..Len(t) /\ t[k] = x /\ i \in 1..Len(t) /\ i # k
  BY <1>1, <1>2 DEF Inserted
<1>4. t[i] = s[j]
  <2>1. CASE j < k
    <3>1. j \in 1..(k - 1)
      BY <1>1, <2>1
    <3> QED
      BY <1>2, <2>1, <3>1 DEF Inserted
  <2>2. CASE ~(j < k)
    <3>1. j + 1 \in (k + 1)..(n + 1) /\ (j + 1) - 1 = j
      BY <1>1, <2>2
    <3> QED
      BY <1>2, <2>2, <3>1 DEF Inserted
  <2> QED
    BY <2>1, <2>2
<1> HIDE DEF t, i
<1>5. Ordered(t) /\ v \in RegionPages(t[i])
  BY <1>4 DEF t
<1> QED
  BY <1>3, <1>5, Disjoint

LEMMA GrewKeepsListed ==
    ASSUME OrderInv, PageInv, OrderInv', regions' # regions, NEW m \in Maps, ListGrew(m)
    PROVE  Kept
<1> SUFFICES ASSUME NEW u \in Made, NEW j \in 1..(Len(regions[u]) - 1), NEW v \in RegionPages(regions[u][j])
             PROVE  At(ent', pml4[u], 0, v) = At(ent, pml4[u], 0, v)
  BY KeptIf
<1>1. PICK k \in 2..Len(regions[m]), x \in Regions, f \in SUBSET {"user", "xd"} : Grew(m, k, x, f)
  BY DEF ListGrew
<1>2. v \in Nat /\ Own(u, 0, v) /\ j \in 1..Len(regions[u]) /\ u \in Maps /\ 0 \in 0..4
  BY ListedOwn
<1>3. After.ent = ent' /\ Now.ent = ent
  BY NowIs DEF After
<1>4. CASE u = m /\ v \in RegionPages(x)
  <2>1. regions[m] \in Seq(Regions) /\ regions \in [Maps -> Seq(Regions)] /\ Ordered(regions'[m])
    BY DEF OrderInv, Ordered
  <2>2. regions'[m] = InsertAt(regions[m], k, x)
    BY <1>1, <2>1 DEF Grew
  <2>3. v \notin RegionPages(x)
    BY <1>2, <1>4, <2>1, <2>2, NewCoversNone
  <2> QED
    BY <1>4, <2>3
<1>5. CASE ~(u = m /\ v \in RegionPages(x))
  <2>1. Grown(Now, After, pml4, m, RegionPages(x), f)
    BY <1>1 DEF Grew
  <2>2. SameAt(Now, After, pml4, u, 0, v)
    BY <1>2, <1>5, <2>1 DEF Grown
  <2> QED
    BY <1>3, <2>2 DEF SameAt
<1> QED
  BY <1>4, <1>5

\* A region that was removed is not among those that are left.
LEMMA RemovedOverlapsNone ==
    ASSUME NEW s \in Seq(Regions), Ordered(s), NEW k \in 1..Len(s), NEW j \in 1..Len(s),
           s[j] \in ToSet(RemoveAt(s, k)), NEW v \in RegionPages(s[j])
    PROVE  v \notin RegionPages(s[k])
<1>1. CASE j # k
  BY <1>1, Disjoint
<1>2. CASE j = k
  <2> DEFINE t == RemoveAt(s, k)
  <2>1. PICK n \in Nat : n = Len(s) /\ k \in 1..n
    OBVIOUS
  <2>2. Removed(t, s, n, k)
    BY <2>1, RemoveIs
  <2> HIDE DEF t
  <2>3. PICK i \in 1..(n - 1) : t[i] = s[j]
    <3>1. s[j] \in ToSet(t)
      BY DEF t
    <3>2. Len(t) = n - 1
      BY <2>2 DEF Removed
    <3> QED
      BY <3>1, <3>2 DEF ToSet
  <2>4. PICK l \in 1..Len(s) : l # k /\ s[l] = s[k]
    <3>1. CASE i < k
      <4>1. i \in 1..(k - 1) /\ i \in 1..n /\ i # k
        BY <2>1, <3>1
      <4>2. s[i] = s[k]
        BY <1>2, <2>2, <2>3, <4>1 DEF Removed
      <4> QED
        BY <2>1, <4>1, <4>2
    <3>2. CASE ~(i < k)
      <4>1. i \in k..(n - 1) /\ i + 1 \in 1..n /\ i + 1 # k
        BY <2>1, <3>2
      <4>2. s[i + 1] = s[k]
        BY <1>2, <2>2, <2>3, <4>1 DEF Removed
      <4> QED
        BY <2>1, <4>1, <4>2
    <3> QED
      BY <3>1, <3>2
  <2>5. v \in RegionPages(s[l])
    BY <1>2, <2>4
  <2> QED
    BY <2>4, <2>5, Disjoint
<1> QED
  BY <1>1, <1>2

LEMMA ShrankKeepsListed ==
    ASSUME OrderInv, PageInv, regions' # regions, ListShrank
    PROVE  Kept
<1> SUFFICES ASSUME NEW u \in Made, NEW j \in 1..(Len(regions[u]) - 1),
                    regions[u][j] \in ToSet(regions'[u]), NEW v \in RegionPages(regions[u][j])
             PROVE  At(ent', pml4[u], 0, v) = At(ent, pml4[u], 0, v)
  BY KeptIf
<1>1. PICK k \in HeapRegions(regions[Kernel]) :
         /\ regions'[Kernel] = RemoveAt(regions[Kernel], k)
         /\ Unmapped(Now, After, pml4, RegionPages(regions[Kernel][k]))
  BY DEF ListShrank
<1>2. v \in Nat /\ Own(u, 0, v) /\ u \in Maps /\ 0 \in 0..4 /\ j \in 1..Len(regions[u])
  BY ListedOwn
<1>3. After.ent = ent' /\ Now.ent = ent
  BY NowIs DEF After
<1>4. u = Kernel => v \notin RegionPages(regions[Kernel][k])
  <2> HAVE u = Kernel
  <2>1. regions[Kernel] \in Seq(Regions) /\ Ordered(regions[Kernel])
    BY <1>2 DEF OrderInv
  <2>2. k \in 1..Len(regions[Kernel])
    <3>1. Len(regions[Kernel]) \in Nat
      BY <2>1
    <3> QED
      BY <3>1 DEF HeapRegions
  <2>3. j \in 1..Len(regions[Kernel]) /\ regions[Kernel][j] \in ToSet(RemoveAt(regions[Kernel], k))
    BY <1>1, <1>2
  <2> QED
    BY <2>1, <2>2, <2>3, RemovedOverlapsNone
<1>5. SameAt(Now, After, pml4, u, 0, v)
  BY <1>1, <1>2, <1>4 DEF Unmapped
<1> QED
  BY <1>3, <1>5 DEF SameAt

LEMMA MadeKeepsListed ==
    ASSUME OrderInv, PageInv, regions' # regions, NEW w \in Users, MapMade(w)
    PROVE  Kept
<1> SUFFICES ASSUME NEW u \in Made, NEW j \in 1..(Len(regions[u]) - 1), NEW v \in RegionPages(regions[u][j])
             PROVE  At(ent', pml4[u], 0, v) = At(ent, pml4[u], 0, v)
  BY KeptIf
<1>1. /\ pml4[w] = NONE /\ pml4' = [pml4 EXCEPT ![w] = Head(head)]
      /\ Others(Now, After, pml4, pml4', w)
  BY DEF MapMade
<1>2. v \in Nat /\ Own(u, 0, v) /\ u \in Maps /\ u # w /\ 0 \in 0..4
  BY <1>1, ListedOwn DEF Made
<1>3. After.ent = ent' /\ Now.ent = ent /\ pml4'[u] = pml4[u]
  BY <1>1, <1>2, NowIs DEF After, Forest
<1>4. At(After.ent, pml4'[u], 0, v) = At(Now.ent, pml4[u], 0, v)
  BY <1>1, <1>2 DEF Others
<1> QED
  BY <1>3, <1>4

LEMMA ListedStep ==
    ListsInv /\ PageInv /\ [Next]_vars /\ strayed' = {} /\ regions' # regions => Kept
<1> SUFFICES ASSUME ListsInv, PageInv, [Next]_vars, strayed' = {}, regions' # regions PROVE Kept
  OBVIOUS
<1>0. OrderInv /\ OrderInv'
  <2>1. ListsInv' /\ strayed = {}
    BY OrderStep, StrayedGrows
  <2>2. OrderInv
    BY <2>1, NoneStrayed
  <2>3. OrderInv'
    BY <2>1 DEF ListsInv, OrderInv
  <2> QED
    BY <2>2, <2>3
<1>1. ASSUME NEW n \in KernelSizes, vmm_region_alloc(n) PROVE Kept
  <2>1. Kernel \in Maps /\ ListGrew(Kernel)
    BY <1>1, AllocKeeps, Kernels
  <2> QED
    BY <1>0, <2>1, GrewKeepsListed
<1>2. ASSUME NEW k \in 2..(Len(regions[Kernel]) - 1), vmm_region_dealloc(k) PROVE Kept
  <2>1. k \in HeapRegions(regions[Kernel])
    BY DEF HeapRegions
  <2> QED
    BY <1>0, <1>2, <2>1, DeallocKeepsPages, ShrankKeepsListed
<1>3. ASSUME NEW u \in Users, new_pagemap(u) PROVE Kept
  <2>1. MapMade(u)
    BY <1>0, <1>3, NewPagemapKeepsPages
  <2> QED
    BY <1>0, <2>1, MadeKeepsListed
<1>4. ASSUME NEW u \in Users, LoadSegment(u) PROVE Kept
  <2>1. u \in Maps /\ ListGrew(u)
    BY <1>0, <1>4, LoadSegmentKeepsPages, Kernels
  <2> QED
    BY <1>0, <2>1, GrewKeepsListed
<1>5. ASSUME NEW u \in Users, NEW n \in UserSizes, MmapAnonymous(u, n) PROVE Kept
  <2>1. u \in Maps /\ ListGrew(u)
    BY <1>5, MmapAnonymousKeeps, Kernels
  <2> QED
    BY <1>0, <2>1, GrewKeepsListed
<1>6. ASSUME NEW u \in Users, LoadStack(u) PROVE Kept
  BY <1>6 DEF LoadStack, Commit
<1>7. ASSUME NEW u \in Users, NEW h \in Hints, NEW n \in UserSizes, NEW exec \in BOOLEAN,
             MmapFixed(u, h, n, exec)
      PROVE Kept
  BY <1>7 DEF MmapFixed, Commit
<1>8. UpdateCr3 \/ Halt \/ UNCHANGED vars => regions' = regions
  BY DEF UpdateCr3, Halt, vars
<1> QED
  BY <1>1, <1>2, <1>3, <1>4, <1>5, <1>6, <1>7, <1>8 DEF Next
------------------------------------------------------------------------------
(* What holds of every run.                                                *)

\* The inductive invariant: the lists, and the pages under them as long as nothing
\* strayed.
Inv == ListsInv /\ (Contained => PageInv)

LEMMA InvAlways == Spec => []Inv
<1>1. Init => Inv
  BY OrderInit, PageInit DEF Inv, Contained
<1>2. Inv /\ [Next]_vars => Inv'
  <2> SUFFICES ASSUME Inv, [Next]_vars PROVE Inv'
    OBVIOUS
  <2>1. ListsInv /\ ListsInv' /\ strayed \subseteq strayed'
    BY OrderStep, StrayedGrows DEF Inv
  <2>2. Contained' => strayed' = {} /\ Contained
    BY <2>1 DEF Contained
  <2>3. Contained' => PageInv'
    BY <2>1, <2>2, PageStep DEF Inv
  <2> QED
    BY <2>1, <2>3 DEF Inv
<1> QED
  BY <1>1, <1>2, PTL DEF Spec

LEMMA InvContained == Inv /\ Contained => OrderInv /\ PageInv /\ strayed = {}
  BY NoneStrayed DEF Inv, Contained

\* As long as every mmap asked for pages of the program's half, as few as an int
\* offset counts, on a machine whose memory map ends within the HHDM's region:
\* every value has its kind, and a physical page has one use, whatever is mapped,
\* unmapped, loaded and freed, unless new_pagemap left an entry in a lower half.
THEOREM VmmInvAlways == Spec => []VmmInv
<1>1. Inv => VmmInv
  BY InvContained, TypesRight, OneUse DEF VmmInv
<1> QED
  BY <1>1, InvAlways, PTL

\* new_pagemap copies the kernel's half of the top table once, and vmm_region_alloc
\* maps into it for ever after: until an mmap leaves the program's half, every
\* program's map has the kernel's half as it is now.
THEOREM KernelHalfSharedAlways == Spec => []KernelHalfShared
<1>1. Inv => KernelHalfShared
  BY InvContained, HalfShared DEF KernelHalfShared
<1> QED
  BY <1>1, InvAlways, PTL

\* What kmalloc returns is mapped, and what kfree took is not, on a machine whose
\* memory map ends within the HHDM's region and until an mmap leaves its half.
THEOREM KernelHeapIsItsRegionsAlways == Spec => []KernelHeapIsItsRegions
<1>1. Inv => KernelHeapIsItsRegions
  BY InvContained, HeapIsRegions DEF KernelHeapIsItsRegions
<1> QED
  BY <1>1, InvAlways, PTL

\* get_next_table gives tables the flags of the mapping they are made for: until an
\* mmap leaves its half or new_pagemap an entry in a lower one, a program reaches
\* all of its pages, and no page of the kernel's.
THEOREM RingsApartAlways == Spec => []RingsApart
<1>1. Inv => RingsApart
  BY InvContained, RingsRight DEF RingsApart
<1> QED
  BY <1>1, InvAlways, PTL

\* No mapping without PROT_EXEC makes a table above a program's segments, among all
\* requests that stay in the program's half.
THEOREM CodeExecutableAlways == Spec => []CodeExecutable
<1>1. Inv => CodeExecutable
  BY InvContained, CodeRight DEF CodeExecutable
<1> QED
  BY <1>1, InvAlways, PTL

\* What the TLB may hold of mappings that are gone leads to no page in use, under
\* the conditions of RingsApartAlways.
THEOREM NoStaleTranslationAlways == Spec => []NoStaleTranslation
<1>1. Inv => NoStaleTranslation
  BY InvContained, StaleIsOut DEF NoStaleTranslation
<1> QED
  BY <1>1, InvAlways, PTL

\* Among all requests that stay in their half of the map, no new region of an mmap,
\* a load or a kmalloc remaps a page of a region that was on a list, and kfree
\* unmaps none but the one it takes off.
THEOREM ListedPagesKeptAlways == Spec => ListedPagesKept
<1>1. Inv /\ Inv' /\ [Next]_vars => [Contained' /\ regions' # regions => Kept]_vars
  <2> SUFFICES ASSUME Inv, [Next]_vars, Contained', regions' # regions PROVE Kept
    BY DEF Inv
  <2>1. ListsInv /\ strayed' = {} /\ strayed \subseteq strayed'
    BY StrayedGrows DEF Inv, Contained
  <2>2. PageInv
    BY <2>1 DEF Inv, Contained
  <2> QED
    BY <2>1, <2>2, ListedStep
<1> QED
  BY <1>1, InvAlways, PTL DEF Spec, ListedPagesKept, Kept
==============================================================================

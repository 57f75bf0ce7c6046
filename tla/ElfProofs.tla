------------------------------- MODULE ElfProofs -------------------------------
(***************************************************************************)
(* For every root directory, page size, stack and old window: a load ends  *)
(* with the program and its interpreter whole in memory, with the words    *)
(* the interpreter starts from on an aligned stack, or without a trace;    *)
(* and the kernel faults for the two known reasons only.                   *)
(***************************************************************************)
EXTENDS Elf, Lemmas, SequenceTheorems

------------------------------------------------------------------------------
(* memmove, turn by turn, copies what the source held before the call,     *)
(* however source and destination overlap.                                 *)

\* What a copy of n cells leaves in memory.
Copied(mem, dest, src, n) ==
    [a \in DOMAIN mem |-> IF a \in dest..(dest + n - 1) THEN mem[src + (a - dest)] ELSE mem[a]]

\* The loop forwards, whenever no turn writes what a later one reads.
LEMMA ForwardCopies ==
    ASSUME NEW D \in SUBSET Int, NEW V, NEW mem \in [D -> V],
           NEW dest \in Int, NEW src \in Int, NEW n \in Nat,
           \A j \in 0..(n - 1) : src + j \in D,
           src >= dest \/ src + n <= dest
    PROVE  Forward(mem, dest, src, n) = Copied(mem, dest, src, n)
<1> DEFINE step(m, j) == [m EXCEPT ![dest + j - 1] = m[src + j - 1]]
           Turns(f) == f = [j \in 0..n |-> IF j = 0 THEN mem ELSE step(f[j - 1], j)]
           F == [j \in 0..n |-> Copied(mem, dest, src, j)]
<1>1. ASSUME NEW j \in 1..n
      PROVE  Copied(mem, dest, src, j) = step(Copied(mem, dest, src, j - 1), j)
  <2> DEFINE m == Copied(mem, dest, src, j - 1)
  <2>2. m[src + j - 1] = mem[src + j - 1]
    <3>1. src + j - 1 \in D /\ src + j - 1 \notin dest..(dest + (j - 1) - 1)
      <4>1. j - 1 \in 0..(n - 1) /\ src + (j - 1) = src + j - 1
        OBVIOUS
      <4>2. src + (j - 1) \in D
        BY <4>1
      <4>3. src + j - 1 \notin dest..(dest + (j - 1) - 1)
        OBVIOUS
      <4> QED
        BY <4>1, <4>2, <4>3
    <3> QED
      BY <3>1 DEF Copied
  <2>3. ASSUME NEW a \in D
        PROVE  Copied(mem, dest, src, j)[a] = step(m, j)[a]
    <3>1. CASE a = dest + j - 1
      <4>1. a \in dest..(dest + j - 1) /\ src + (a - dest) = src + j - 1
        BY <3>1
      <4>2. Copied(mem, dest, src, j)[a] = mem[src + j - 1]
        BY <4>1 DEF Copied
      <4>3. step(m, j)[a] = m[src + j - 1]
        BY <3>1 DEF Copied
      <4> QED
        BY <2>2, <4>2, <4>3
    <3>2. CASE a # dest + j - 1
      <4>1. a \in dest..(dest + j - 1) <=> a \in dest..(dest + (j - 1) - 1)
        BY <3>2
      <4>2. Copied(mem, dest, src, j)[a] = m[a]
        BY <4>1 DEF Copied
      <4>3. step(m, j)[a] = m[a]
        BY <3>2 DEF Copied
      <4> QED
        BY <4>2, <4>3
    <3> QED
      BY <3>1, <3>2
  <2>4. Copied(mem, dest, src, j) = [a \in D |-> Copied(mem, dest, src, j)[a]]
    BY DEF Copied
  <2>5. DOMAIN m = D
    BY DEF Copied
  <2>6. step(m, j) = [a \in D |-> step(m, j)[a]]
    <3> HIDE DEF m
    <3> QED
      BY <2>5
  <2> QED
    BY <2>3, <2>4, <2>6, Zenon
<1>2. Copied(mem, dest, src, 0) = mem
  <2>1. \A a \in D : a \notin dest..(dest + 0 - 1)
    OBVIOUS
  <2> QED
    BY <2>1 DEF Copied
<1> HIDE DEF step
<1>3. Turns(F)
  <2>1. ASSUME NEW j \in 0..n
        PROVE  F[j] = IF j = 0 THEN mem ELSE step(F[j - 1], j)
    <3>1. CASE j = 0
      BY <1>2, <3>1
    <3>2. CASE j # 0
      <4>1. j \in 1..n /\ j - 1 \in 0..n
        BY <3>2
      <4>2. F[j] = Copied(mem, dest, src, j) /\ F[j - 1] = Copied(mem, dest, src, j - 1)
        BY <4>1
      <4> QED
        BY <1>1, <3>2, <4>1, <4>2
    <3> QED
      BY <3>1, <3>2
  <2> QED
    BY <2>1
<1>4. ASSUME NEW f, Turns(f) PROVE f[n] = Copied(mem, dest, src, n)
  <2> DEFINE S == {k \in Nat : k <= n => f[k] = Copied(mem, dest, src, k)}
  <2>1. 0 \in S
    <3>1. f[0] = mem
      BY <1>4
    <3> QED
      BY <1>2, <3>1
  <2>2. ASSUME NEW k \in Nat, k \in S PROVE k + 1 \in S
    <3>1. CASE k + 1 <= n
      <4>1. k + 1 \in 1..n /\ k + 1 \in 0..n /\ (k + 1) - 1 = k /\ k <= n
        BY <3>1
      <4>2. f[k + 1] = step(f[k], k + 1)
        BY <1>4, <4>1
      <4>3. f[k] = Copied(mem, dest, src, k)
        BY <2>2, <4>1
      <4> QED
        BY <1>1, <4>1, <4>2, <4>3
    <3> QED
      BY <3>1
  <2> HIDE DEF S
  <2>3. n \in S
    BY <2>1, <2>2, SetInduction
  <2> QED
    BY <2>3 DEF S
<1>5. Forward(mem, dest, src, n) = (CHOOSE f : Turns(f))[n]
  BY DEF Forward, step
<1> HIDE DEF Turns
<1>6. Turns(CHOOSE f : Turns(f))
  BY <1>3, Zenon
<1> QED
  BY <1>4, <1>5, <1>6

\* The loop backwards, for a destination above the source.
LEMMA BackwardCopies ==
    ASSUME NEW D \in SUBSET Int, NEW V, NEW mem \in [D -> V],
           NEW dest \in Int, NEW src \in Int, NEW n \in Nat,
           \A j \in 0..(n - 1) : src + j \in D,
           src < dest
    PROVE  Backward(mem, dest, src, n) = Copied(mem, dest, src, n)
<1> DEFINE step(m, j) == [m EXCEPT ![dest + n - j] = m[src + n - j]]
           Top(j) == Copied(mem, dest + n - j, src + n - j, j)
           Turns(f) == f = [j \in 0..n |-> IF j = 0 THEN mem ELSE step(f[j - 1], j)]
           F == [j \in 0..n |-> Top(j)]
<1>1. ASSUME NEW j \in 1..n
      PROVE  Top(j) = step(Top(j - 1), j)
  <2> DEFINE m == Top(j - 1)
  <2>1. /\ m = [a \in D |-> IF a \in (dest + n - j + 1)..(dest + n - 1)
                            THEN mem[src + (a - dest)] ELSE mem[a]]
        /\ Top(j) = [a \in D |-> IF a \in (dest + n - j)..(dest + n - 1)
                                 THEN mem[src + (a - dest)] ELSE mem[a]]
    <3>1. ASSUME NEW l \in 0..n
          PROVE  Top(l) = [a \in D |-> IF a \in (dest + n - l)..(dest + n - 1)
                                       THEN mem[src + (a - dest)] ELSE mem[a]]
      <4>1. (dest + n - l) + l - 1 = dest + n - 1
        OBVIOUS
      <4>2. ASSUME NEW a \in D PROVE (src + n - l) + (a - (dest + n - l)) = src + (a - dest)
        OBVIOUS
      <4> QED
        BY <4>1, <4>2 DEF Copied
    <3>2. j \in 0..n /\ j - 1 \in 0..n /\ dest + n - (j - 1) = dest + n - j + 1
      OBVIOUS
    <3> HIDE DEF Top
    <3> QED
      BY <3>1, <3>2
  <2>2. m[src + n - j] = mem[src + n - j]
    <3>1. n - j \in 0..(n - 1) /\ src + (n - j) = src + n - j
      OBVIOUS
    <3>2. src + n - j \in D /\ src + n - j \notin (dest + n - j + 1)..(dest + n - 1)
      <4>1. src + (n - j) \in D
        BY <3>1
      <4>2. src + n - j \notin (dest + n - j + 1)..(dest + n - 1)
        OBVIOUS
      <4> QED
        BY <3>1, <4>1, <4>2
    <3> QED
      BY <2>1, <3>2
  <2>5. DOMAIN m = D /\ DOMAIN Top(j) = D
    BY DEF Copied
  <2> HIDE DEF m, Top
  <2>3. ASSUME NEW a \in D
        PROVE  Top(j)[a] = step(m, j)[a]
    <3>1. CASE a = dest + n - j
      <4>1. a \in (dest + n - j)..(dest + n - 1) /\ src + (a - dest) = src + n - j
        BY <3>1
      <4>2. Top(j)[a] = mem[src + n - j]
        BY <2>1, <4>1
      <4>3. step(m, j)[a] = m[src + n - j]
        BY <2>5, <3>1
      <4> QED
        BY <2>2, <4>2, <4>3
    <3>2. CASE a # dest + n - j
      <4>1. a \in (dest + n - j)..(dest + n - 1) <=> a \in (dest + n - j + 1)..(dest + n - 1)
        BY <3>2
      <4>2. Top(j)[a] = m[a]
        BY <2>1, <4>1
      <4>3. step(m, j)[a] = m[a]
        BY <2>5, <3>2
      <4> QED
        BY <4>2, <4>3
    <3> QED
      BY <3>1, <3>2
  <2>4. Top(j) = [a \in D |-> Top(j)[a]]
    BY <2>1
  <2>6. step(m, j) = [a \in D |-> step(m, j)[a]]
    BY <2>5
  <2>7. m = Top(j - 1)
    BY DEF m
  <2> QED
    BY <2>3, <2>4, <2>6, <2>7, Zenon
<1>2. Top(0) = mem
  <2>1. \A a \in D : a \notin (dest + n - 0)..((dest + n - 0) + 0 - 1)
    OBVIOUS
  <2> QED
    BY <2>1 DEF Copied
<1> HIDE DEF step
<1>3. Turns(F)
  <2>1. ASSUME NEW j \in 0..n
        PROVE  F[j] = IF j = 0 THEN mem ELSE step(F[j - 1], j)
    <3>1. CASE j = 0
      BY <1>2, <3>1
    <3>2. CASE j # 0
      <4>1. j \in 1..n /\ j - 1 \in 0..n
        BY <3>2
      <4>2. F[j] = Top(j) /\ F[j - 1] = Top(j - 1)
        BY <4>1
      <4> QED
        BY <1>1, <3>2, <4>1, <4>2
    <3> QED
      BY <3>1, <3>2
  <2> QED
    BY <2>1
<1>4. ASSUME NEW f, Turns(f) PROVE f[n] = Copied(mem, dest, src, n)
  <2> DEFINE S == {k \in Nat : k <= n => f[k] = Top(k)}
  <2>1. 0 \in S
    <3>1. f[0] = mem
      BY <1>4
    <3> QED
      BY <1>2, <3>1
  <2>2. ASSUME NEW k \in Nat, k \in S PROVE k + 1 \in S
    <3>1. CASE k + 1 <= n
      <4>1. k + 1 \in 1..n /\ k + 1 \in 0..n /\ (k + 1) - 1 = k /\ k <= n
        BY <3>1
      <4>2. f[k + 1] = step(f[k], k + 1)
        BY <1>4, <4>1
      <4>3. f[k] = Top(k)
        BY <2>2, <4>1
      <4> QED
        BY <1>1, <4>1, <4>2, <4>3
    <3> QED
      BY <3>1
  <2> HIDE DEF S
  <2>3. n \in S
    BY <2>1, <2>2, SetInduction
  <2>4. dest + n - n = dest /\ src + n - n = src
    OBVIOUS
  <2> QED
    BY <2>3, <2>4 DEF S
<1>5. Backward(mem, dest, src, n) = (CHOOSE f : Turns(f))[n]
  BY DEF Backward, step
<1> HIDE DEF Turns
<1>6. Turns(CHOOSE f : Turns(f))
  BY <1>3, Zenon
<1> QED
  BY <1>4, <1>5, <1>6

\* memmove copies what the source held before the call, and changes nothing
\* else, for every memory and however source and destination overlap: it picks
\* the loop whose turns read a cell before they write it.
THEOREM MemmoveCopies ==
    ASSUME NEW D \in SUBSET Int, NEW V, NEW mem \in [D -> V],
           NEW dest \in Int, NEW src \in Int, NEW n \in Nat,
           \A j \in 0..(n - 1) : src + j \in D
    PROVE  memmove(mem, dest, src, n) = Copied(mem, dest, src, n)
<1>1. CASE src > dest
  BY <1>1, ForwardCopies DEF memmove
<1>2. CASE src < dest
  BY <1>2, BackwardCopies DEF memmove
<1>3. CASE src = dest
  <2>1. memmove(mem, dest, src, n) = mem
    BY <1>3 DEF memmove
  <2>2. \A a \in D : src + (a - dest) = a
    BY <1>3
  <2> QED
    BY <2>1, <2>2 DEF Copied
<1> QED
  BY <1>1, <1>2, <1>3


------------------------------------------------------------------------------
(* Files and segments.                                                     *)

\* What ElfAssumption says of a file's header.
LEMMA HeaderShape ==
    ASSUME NEW f \in DOMAIN Files
    PROVE  /\ Header(f).phdrs \in Seq(ProgramHeaders)
           /\ Header(f).entry \in Nat /\ Header(f).phent \in Nat
<1>1. Files[f] \in ElfFiles
  BY ElfAssumption
<1>2. CASE Files[f].readable
  BY <1>1, <1>2 DEF Header, ElfFiles
<1>3. CASE ~Files[f].readable
  BY <1>3 DEF Header, NoHeader
<1> QED
  BY <1>2, <1>3

\* And of one program header.
LEMMA PhdrShape ==
    ASSUME NEW f \in DOMAIN Files, NEW k \in DOMAIN Header(f).phdrs
    PROVE  /\ Header(f).phdrs[k] \in ProgramHeaders
           /\ Header(f).phdrs[k].vaddr \in Nat /\ Header(f).phdrs[k].filesz \in Nat
           /\ Header(f).phdrs[k].memsz \in Nat
           /\ Header(f).phdrs[k].path \in DOMAIN Files \cup {Missing}
           /\ k \in Nat /\ k >= 1 /\ k <= Len(Header(f).phdrs)
<1> DEFINE s == Header(f).phdrs
<1>1. s \in Seq(ProgramHeaders)
  BY HeaderShape
<1> HIDE DEF s
<1>2. k \in DOMAIN s
  BY DEF s
<1>3. s[k] \in ProgramHeaders /\ k \in Nat /\ k >= 1 /\ k <= Len(s)
  BY <1>1, <1>2
<1> QED
  BY <1>3 DEF s, ProgramHeaders

LEMMA LoadShape ==
    ASSUME NEW f \in DOMAIN Files, NEW k \in Loads(f), NEW p, p = Header(f).phdrs[k]
    PROVE  /\ k \in DOMAIN Header(f).phdrs
           /\ p.vaddr \in Nat /\ p.filesz \in Nat /\ p.memsz \in Nat
           /\ p.filesz <= p.memsz /\ p.vaddr + p.memsz <= InterpBase
           /\ InterpBase + p.vaddr + p.memsz <= Space
           /\ p.memsz + 2 * Page <= WordSize
<1>1. k \in DOMAIN Header(f).phdrs
  BY DEF Loads
<1>2. p.vaddr \in Nat /\ p.filesz \in Nat /\ p.memsz \in Nat
  BY <1>1, PhdrShape
<1>3. /\ p.filesz <= p.memsz /\ p.vaddr + p.memsz <= InterpBase
      /\ InterpBase + p.vaddr + p.memsz <= Space
  BY ElfAssumption
<1>4. /\ InterpBase \in Nat /\ Space \in Nat /\ Page \in Nat /\ WordSize \in Nat
      /\ Space + 2 * Page <= WordSize
  BY ElfAssumption
<1>5. PICK v \in Nat, z \in Nat : v = p.vaddr /\ z = p.memsz
  BY <1>2
<1>6. z + 2 * Page <= WordSize
  BY <1>3, <1>4, <1>5
<1> QED
  BY <1>1, <1>2, <1>3, <1>5, <1>6

\* An address of a page that starts at b.
LEMMA PageOffset ==
    ASSUME NEW P \in Nat \ {0}, NEW q \in Int, NEW c \in 0..(P - 1)
    PROVE  align_down(P * q + c, P) = P * q
<1>1. (P * q + c) % P = c /\ P * q \in Int
  BY DivUnique
<1> QED
  BY <1>1 DEF align_down

\* The pages of a segment, counted by the code and by the linker.
LEMMA PageCount ==
    ASSUME NEW v \in Nat, NEW z \in Nat, z + 2 * Page <= WordSize
    PROVE  LET n == align_up(z + (v % Page), Page) \div Page IN
           n \in Int /\ (v + z - 1) \div Page = v \div Page + n - 1
<1> DEFINE P == Page
           q == v \div P
           m == v % P
           t == z + m + P - 1
           n == t \div P
<1>1. P \in Nat \ {0} /\ WordSize \in Nat
  BY ElfAssumption
<1>2. q \in Int /\ m \in 0..(P - 1) /\ v = P * q + m
  BY <1>1, DivMod
<1> HIDE DEF P, q, m
<1>3. t \in Nat /\ t < WordSize /\ t % WordSize = t
  <2>1. t \in Nat /\ t < WordSize
    BY <1>1, <1>2 DEF P
  <2> HIDE DEF t
  <2> QED
    BY <1>1, <2>1
<1>4. align_up(z + m, P) = align_down(t, P)
  BY <1>3 DEF align_up
<1>5. n \in Int /\ t % P \in 0..(P - 1) /\ t = P * n + (t % P)
  <2>1. t \in Int
    BY <1>3
  <2> HIDE DEF t
  <2> QED
    BY <1>1, <2>1, DivMod
<1> HIDE DEF n
<1>6. align_down(t, P) = P * n /\ (P * n) \div P = n
  <2>1. PICK r \in 0..(P - 1) : t = P * n + r
    BY <1>5
  <2>2. align_down(P * n + r, P) = P * n
    BY <1>1, <1>5, PageOffset
  <2>3. 0 \in 0..(P - 1) /\ P * n + 0 = P * n
    BY <1>1, <1>5
  <2>4. (P * n + 0) \div P = n
    BY <1>1, <1>5, <2>3, DivUnique
  <2> QED
    BY <2>1, <2>2, <2>3, <2>4
<1>7. (v + z - 1) \div P = q + n - 1
  <2>1. PICK r \in 0..(P - 1) : t = P * n + r
    BY <1>5
  <2>2. z + m + P - 1 = P * n + r
    BY <2>1
  <2>3. v + z - 1 = P * (q + n - 1) + r
    <3>1. P * q \in Int /\ P * n \in Int /\ P * (q + n - 1) = P * q + P * n - P
      BY <1>1, <1>2, <1>5
    <3>2. v + z - 1 = P * q + (z + m + P - 1) - P
      BY <1>1, <1>2, <3>1
    <3> QED
      BY <1>1, <2>2, <3>1, <3>2
  <2>4. q + n - 1 \in Int
    BY <1>2, <1>5
  <2> QED
    BY <1>1, <2>3, <2>4, DivUnique
<1>8. align_up(z + m, P) \div P = n
  BY <1>4, <1>6
<1> QED
  BY <1>5, <1>7, <1>8 DEF P, q, m

\* The cells mapped for a segment are those of its pages.
LEMMA CellsArePages ==
    ASSUME base \in {0, InterpBase}, NEW p, p.vaddr \in Nat, p.memsz \in Nat,
           p.memsz + 2 * Page <= WordSize, NEW a \in Int
    PROVE  a \in SegmentCells(p) <=> (a - base) \div Page \in SegmentPages(p)
<1>1. PICK P \in Nat \ {0}, v \in Nat, z \in Nat : P = Page /\ v = p.vaddr /\ z = p.memsz
  BY ElfAssumption
<1> DEFINE q == v \div P
           m == v % P
           n == align_up(z + m, P) \div P
<1>2. q \in Int /\ m \in 0..(P - 1) /\ v = P * q + m
  BY DivMod
<1>3. n \in Int /\ (v + z - 1) \div P = q + n - 1
  BY <1>1, PageCount
<1>4. PICK b \in Int : base = P * b
  <2>1. InterpBase \in Int /\ InterpBase % P = 0
    BY <1>1, ElfAssumption
  <2>2. PICK d \in Int : InterpBase = P * d + 0
    BY <2>1, DivMod
  <2>3. InterpBase = P * d
    BY <2>2
  <2>4. 0 = P * 0 /\ 0 \in Int
    OBVIOUS
  <2> QED
    BY <2>3, <2>4
<1> HIDE DEF q, m, n
<1> DEFINE start(k) == align_down(base + v + k * P, P)
<1>5. ASSUME NEW k \in Int PROVE start(k) = P * (b + q + k)
  <2>1. b + q + k \in Int /\ P * (b + q + k) = P * b + P * q + k * P
    BY <1>2, <1>4
  <2>2. P * b \in Int /\ P * q \in Int /\ k * P \in Int
    BY <1>2, <1>4
  <2>3. base + v + k * P = P * (b + q + k) + m
    BY <1>2, <1>4, <2>1, <2>2
  <2> QED
    BY <1>2, <2>1, <2>3, PageOffset
<1>6. a \in SegmentCells(p) <=> \E k \in 0..(n - 1) : \E c \in 0..(P - 1) : a = start(k) + c
  <2>1. SegmentCells(p) = UNION {{start(k) + c : c \in 0..(P - 1)} : k \in 0..(n - 1)}
    BY <1>1 DEF SegmentCells, n, m
  <2> HIDE DEF start
  <2> DEFINE cells(k) == {start(k) + c : c \in 0..(P - 1)}
  <2>2. \A k : a \in cells(k) <=> \E c \in 0..(P - 1) : a = start(k) + c
    OBVIOUS
  <2>3. SegmentCells(p) = UNION {cells(k) : k \in 0..(n - 1)}
    BY <2>1
  <2> HIDE DEF cells
  <2>4. a \in SegmentCells(p) <=> \E k \in 0..(n - 1) : a \in cells(k)
    BY <2>3
  <2> QED
    BY <2>2, <2>4
<1>7. SegmentPages(p) = q..(q + n - 1)
  BY <1>1, <1>3 DEF SegmentPages, q
<1> HIDE DEF start
<1>8. ASSUME NEW k \in 0..(n - 1), NEW c \in 0..(P - 1), a = start(k) + c
      PROVE  (a - base) \div P \in q..(q + n - 1)
  <2>1. a = P * (b + q + k) + c
    BY <1>3, <1>5, <1>8
  <2>2. P * (b + q + k) = P * b + P * (q + k) /\ P * b \in Int /\ P * (q + k) \in Int /\ q + k \in Int
    BY <1>2, <1>3, <1>4
  <2>3. a - base = P * (q + k) + c
    BY <1>4, <2>1, <2>2
  <2>4. (a - base) \div P = q + k
    BY <2>2, <2>3, DivUnique
  <2> QED
    BY <1>2, <1>3, <2>4
<1>9. ASSUME (a - base) \div P \in q..(q + n - 1)
      PROVE  \E k \in 0..(n - 1) : \E c \in 0..(P - 1) : a = start(k) + c
  <2> DEFINE e == a - base
  <2>0. e \in Int /\ base \in Int /\ P * b \in Int
    BY <1>4
  <2> HIDE DEF e
  <2>1. PICK c \in 0..(P - 1) : e = P * (e \div P) + c
    BY <2>0, DivMod
  <2>2. PICK g \in q..(q + n - 1) : g = e \div P
    BY <1>9 DEF e
  <2>3. g - q \in 0..(n - 1)
    BY <1>2, <1>3
  <2>4. start(g - q) = P * (b + g)
    <3>1. b + q + (g - q) = b + g /\ g - q \in Int
      BY <1>2, <1>3, <1>4
    <3> QED
      BY <1>5, <3>1
  <2>5. P * (b + g) = P * b + P * g /\ P * g \in Int
    BY <1>2, <1>3, <1>4
  <2>6. a = base + e
    BY <2>0 DEF e
  <2>7. a = start(g - q) + c
    BY <1>4, <2>0, <2>1, <2>2, <2>4, <2>5, <2>6
  <2> QED
    BY <2>3, <2>7
<1> QED
  BY <1>1, <1>6, <1>7, <1>8, <1>9

\* Every cell of a segment is mapped for it.
LEMMA CellsMapped ==
    ASSUME base \in {0, InterpBase}, NEW p, p.vaddr \in Nat, p.memsz \in Nat,
           p.memsz + 2 * Page <= WordSize, NEW c \in 0..(p.memsz - 1)
    PROVE  /\ base + p.vaddr + c \in SegmentCells(p)
           /\ (p.vaddr + c) \div Page \in SegmentPages(p)
<1>1. PICK P \in Nat \ {0}, v \in Nat, z \in Nat, b \in Nat :
         P = Page /\ v = p.vaddr /\ z = p.memsz /\ b = base
  BY ElfAssumption
<1>2. c \in 0..(z - 1)
  BY <1>1
<1>3. v \div P <= (v + c) \div P /\ (v + c) \div P <= (v + z - 1) \div P
  <2>1. v <= v + c /\ v + c <= v + z - 1 /\ v + c \in Int /\ v + z - 1 \in Int
    BY <1>2
  <2> QED
    BY <2>1, DivMono
<1>4. v \div P \in Int /\ (v + c) \div P \in Int /\ (v + z - 1) \div P \in Int
  <2>1. v + c \in Int /\ v + z - 1 \in Int
    BY <1>2
  <2> QED
    BY <2>1, DivMod
<1>5. (v + c) \div P \in (v \div P)..((v + z - 1) \div P)
  BY <1>3, <1>4
<1>6. (p.vaddr + c) \div Page \in SegmentPages(p)
  BY <1>1, <1>5 DEF SegmentPages
<1>7. b + v + c \in Int /\ (b + v + c) - b = v + c
  BY <1>2
<1>8. ((base + p.vaddr + c) - base) \div Page \in SegmentPages(p)
  BY <1>1, <1>6, <1>7
<1> QED
  BY <1>1, <1>6, <1>7, <1>8, CellsArePages

\* Two segments of a file are mapped apart.
LEMMA SegmentsApart ==
    ASSUME base \in {0, InterpBase}, NEW f \in DOMAIN Files, NEW k \in Loads(f),
           NEW l \in Loads(f), k # l,
           NEW c \in 0..(Header(f).phdrs[l].memsz - 1)
    PROVE  base + Header(f).phdrs[l].vaddr + c \notin SegmentCells(Header(f).phdrs[k])
<1> DEFINE p == Header(f).phdrs[k]
           r == Header(f).phdrs[l]
<1>1. p.vaddr \in Nat /\ p.memsz \in Nat /\ p.memsz + 2 * Page <= WordSize
  BY LoadShape
<1>2. r.vaddr \in Nat /\ r.memsz \in Nat /\ r.memsz + 2 * Page <= WordSize
  BY LoadShape
<1>3. SegmentPages(p) \cap SegmentPages(r) = {}
  BY ElfAssumption
<1> HIDE DEF p, r
<1>4. c \in 0..(r.memsz - 1)
  BY DEF r
<1>5. (r.vaddr + c) \div Page \in SegmentPages(r)
  BY <1>2, <1>4, CellsMapped
<1>6. base + r.vaddr + c \in Int /\ (base + r.vaddr + c) - base = r.vaddr + c
  <2>1. PICK v \in Nat, z \in Nat, b \in Nat : v = r.vaddr /\ z = r.memsz /\ b = base
    BY <1>2, ElfAssumption
  <2>2. c \in Int
    BY <1>4, <2>1
  <2> QED
    BY <2>1, <2>2
<1>7. ((base + r.vaddr + c) - base) \div Page \notin SegmentPages(p)
  BY <1>3, <1>5, <1>6
<1>8. base + r.vaddr + c \notin SegmentCells(p)
  BY <1>1, <1>6, <1>7, CellsArePages
<1> QED
  BY <1>8 DEF p, r

\* What is mapped for the interpreter is above the program.
LEMMA InterpreterAbove ==
    ASSUME base = InterpBase, NEW p, p.vaddr \in Nat, p.memsz \in Nat,
           p.memsz + 2 * Page <= WordSize, NEW a \in Int, a < InterpBase
    PROVE  a \notin SegmentCells(p)
<1>1. PICK P \in Nat \ {0}, v \in Nat, z \in Nat, b \in Nat :
         P = Page /\ v = p.vaddr /\ z = p.memsz /\ b = base
  BY ElfAssumption
<1>2. ~((a - b) \div P \in (v \div P)..((v + z - 1) \div P))
  <2>1. a - b \in Int /\ a - b <= 0 - 1
    BY <1>1
  <2>2. (0 - 1) \div P = 0 - 1
    <3>1. P - 1 \in 0..(P - 1) /\ P * (0 - 1) + (P - 1) = 0 - 1 /\ 0 - 1 \in Int
      OBVIOUS
    <3> QED
      BY <3>1, DivUnique
  <2>3. (a - b) \div P <= 0 - 1 /\ (a - b) \div P \in Int
    <3>1. PICK x \in Int : x = a - b /\ x <= 0 - 1
      BY <2>1
    <3>2. x \div P <= (0 - 1) \div P
      BY <3>1, DivMono
    <3>3. x \div P \in Int
      BY DivMod
    <3> QED
      BY <2>2, <3>1, <3>2, <3>3
  <2>4. v \div P \in Nat
    BY DivBounds
  <2> QED
    BY <2>3, <2>4
<1> QED
  BY <1>1, <1>2, CellsArePages DEF SegmentPages
------------------------------------------------------------------------------
(* The words of the stack.                                                 *)

\* The sequence r is s, of length n, with two more words.
Extended(r, s, n, x, y) ==
    /\ r \in Seq(Nat) /\ Len(r) = n + 2
    /\ \A k \in 1..n : r[k] = s[k]
    /\ r[n + 1] = x /\ r[n + 2] = y

LEMMA ConcatPair ==
    ASSUME NEW s \in Seq(Nat), NEW x \in Nat, NEW y \in Nat, NEW n \in Nat, n = Len(s)
    PROVE  Extended(s \o <<x, y>>, s, n, x, y)
<1> DEFINE t == <<x, y>>
<1>1. t \in Seq(Nat) /\ Len(t) = 2 /\ t[1] = x /\ t[2] = y
  OBVIOUS
<1> HIDE DEF t
<1>2. /\ s \o t \in Seq(Nat) /\ Len(s \o t) = Len(s) + Len(t)
      /\ \A k \in 1..(Len(s) + Len(t)) :
            (s \o t)[k] = IF k <= Len(s) THEN s[k] ELSE t[k - Len(s)]
  BY <1>1, ConcatProperties
<1>4. (n + 1) - n = 1 /\ (n + 2) - n = 2 /\ ~(n + 1 <= n) /\ ~(n + 2 <= n)
      /\ n + 1 \in 1..(n + 2) /\ n + 2 \in 1..(n + 2)
  OBVIOUS
<1>5. (s \o t)[n + 1] = t[1] /\ (s \o t)[n + 2] = t[2]
  BY <1>1, <1>2, <1>4
<1>6. Extended(s \o t, s, n, x, y)
  BY <1>1, <1>2, <1>5 DEF Extended
<1> QED
  BY <1>6 DEF t

\* The words are those of the auxiliary vector, and three zeroes.
WordsRight(ws) ==
    /\ ws \in Seq(Nat)
    /\ Len(ws) = IF args.entry # 0 THEN 13 ELSE 11
    /\ LET n == Len(ws) IN
       /\ ws[1] = 0 /\ ws[2] = 0
       /\ ws[n - 8] = args.phdr /\ ws[n - 7] = 3
       /\ ws[n - 6] = args.phent /\ ws[n - 5] = 4
       /\ ws[n - 4] = args.phnum /\ ws[n - 3] = 5
       /\ ws[n - 2] = 0 /\ ws[n - 1] = 0 /\ ws[n] = 0
    /\ args.entry # 0 => ws[3] = args.entry /\ ws[4] = 9

LEMMA WordsAre ==
    ASSUME args \in [entry: Nat, phdr: Nat, phent: Nat, phnum: Nat]
    PROVE  WordsRight(Words)
<1> DEFINE n == IF args.entry # 0 THEN 4 ELSE 2
           s0 == <<0, 0>>
           s1 == s0 \o (IF args.entry # 0 THEN <<args.entry, 9>> ELSE <<>>)
           s2 == s1 \o <<args.phdr, 3>>
           s3 == s2 \o <<args.phent, 4>>
           s4 == s3 \o <<args.phnum, 5>>
           s5 == s4 \o <<0, 0, 0>>
<1>1. args.entry \in Nat /\ args.phdr \in Nat /\ args.phent \in Nat /\ args.phnum \in Nat
  OBVIOUS
<1>2. Words = s5
  BY DEF Words
<1>3. /\ s1 \in Seq(Nat) /\ Len(s1) = n /\ s1[1] = 0 /\ s1[2] = 0
      /\ args.entry # 0 => s1[3] = args.entry /\ s1[4] = 9
  <2>1. s0 \in Seq(Nat) /\ Len(s0) = 2 /\ s0[1] = 0 /\ s0[2] = 0
    OBVIOUS
  <2>2. CASE args.entry # 0
    <3>1. s1 = s0 \o <<args.entry, 9>> /\ n = 4
      BY <2>2
    <3> HIDE DEF s0, s1, n
    <3>2. Extended(s0 \o <<args.entry, 9>>, s0, 2, args.entry, 9)
      BY <1>1, <2>1, ConcatPair
    <3>3. Extended(s1, s0, 2, args.entry, 9)
      BY <3>1, <3>2, Zenon
    <3> QED
      BY <2>1, <3>1, <3>3 DEF Extended
  <2>3. CASE args.entry = 0
    <3>1. s1 = s0 \o <<>> /\ n = 2
      BY <2>3
    <3>2. s0 \o <<>> = s0
      BY <2>1, ConcatEmptySeq
    <3> HIDE DEF s0, s1, n
    <3> QED
      BY <2>1, <2>3, <3>1, <3>2
  <2> QED
    BY <2>2, <2>3
<1>4. n \in {2, 4} /\ (n = 4 <=> args.entry # 0)
  OBVIOUS
<1> HIDE DEF s1, n
<1>5. Extended(s2, s1, n, args.phdr, 3)
  BY <1>1, <1>3, <1>4, ConcatPair
<1> HIDE DEF s2
<1>6. Extended(s3, s2, n + 2, args.phent, 4)
  <2>1. s2 \in Seq(Nat) /\ Len(s2) = n + 2 /\ n + 2 \in Nat
    BY <1>4, <1>5 DEF Extended
  <2> QED
    BY <1>1, <2>1, ConcatPair
<1> HIDE DEF s3
<1>7. Extended(s4, s3, n + 4, args.phnum, 5)
  <2>1. s3 \in Seq(Nat) /\ Len(s3) = n + 4 /\ n + 4 \in Nat
    BY <1>4, <1>6 DEF Extended
  <2> QED
    BY <1>1, <2>1, ConcatPair
<1> HIDE DEF s4
<1>8. /\ s5 \in Seq(Nat) /\ Len(s5) = n + 9 /\ (\A k \in 1..(n + 6) : s5[k] = s4[k])
      /\ s5[n + 7] = 0 /\ s5[n + 8] = 0 /\ s5[n + 9] = 0
  <2> DEFINE t == <<0, 0, 0>>
  <2>1. t \in Seq(Nat) /\ Len(t) = 3 /\ t[1] = 0 /\ t[2] = 0 /\ t[3] = 0
    OBVIOUS
  <2>2. s5 = s4 \o t
    OBVIOUS
  <2> HIDE DEF s5, t
  <2>0. s4 \in Seq(Nat) /\ Len(s4) = n + 6
    BY <1>4, <1>7 DEF Extended
  <2>3. /\ s5 \in Seq(Nat) /\ Len(s5) = Len(s4) + Len(t)
        /\ \A k \in 1..(Len(s4) + Len(t)) :
              s5[k] = IF k <= Len(s4) THEN s4[k] ELSE t[k - Len(s4)]
    BY <2>0, <2>1, <2>2, ConcatProperties
  <2>4. Len(s5) = n + 9 /\ \A k \in 1..(n + 9) : s5[k] = IF k <= n + 6 THEN s4[k] ELSE t[k - (n + 6)]
    BY <1>4, <2>0, <2>1, <2>3
  <2> QED
    BY <1>4, <2>1, <2>3, <2>4
<1> HIDE DEF s5
<1>9. CASE args.entry # 0
  <2>1. n = 4
    BY <1>4, <1>9
  <2> QED
    BY <1>2, <1>3, <1>5, <1>6, <1>7, <1>8, <1>9, <2>1 DEF WordsRight, Extended
<1>10. CASE args.entry = 0
  <2>1. n = 2
    BY <1>4, <1>10
  <2> QED
    BY <1>2, <1>3, <1>5, <1>6, <1>7, <1>8, <1>10, <2>1 DEF WordsRight, Extended
<1> QED
  BY <1>9, <1>10
------------------------------------------------------------------------------
(* The call.                                                               *)

Threads ==
    [rip: Nat, rsp: 0..StackSize, usp: 0..StackSize, window: Nat,
     pagemap: {"none", "kernel", "maps"}]

\* LoaderInv, and what every place of the call relies on: no thread before the
\* program headers are done, the page map of the program from then on, and a
\* stack that is untouched, then written to no lower than the window.
CallInv ==
    /\ TypeOK /\ CleanFailure /\ FaultExplained
    /\ thread \in Threads
    /\ pc \notin {"header", "fault"} => file \in DOMAIN Files
    /\ pc \in {"header", "reject", "phdrs"} => thread = NoThread /\ stack = <<>>
    /\ pc = "phdrs" => i <= Len(Header(file).phdrs)
    /\ pc \in {"phdrs", "push", "align", "done"} => cr3 = "maps"
    /\ pc \in {"push", "align"} => thread.usp = StackSize /\ thread.rsp = StackSize
    /\ pc = "push" => thread.pagemap = "kernel" /\ stack = OldStack
    /\ pc = "align" => /\ thread.window <= StackSize
                       /\ stack = [a \in 0..(StackSize - 1) |-> stack[a]]

LEMMA NoThreadTyped == NoThread \in Threads
<1>1. 0 \in 0..StackSize
  BY ElfAssumption
<1> QED
  BY <1>1 DEF NoThread, Threads

\* A segment of a file finds its pages mapped.
LEMMA SegmentReadable ==
    ASSUME base \in {0, InterpBase}, file \in DOMAIN Files, NEW k \in DOMAIN Header(file).phdrs,
           NEW p, p = Header(file).phdrs[k], p.type = PT_LOAD
    PROVE  \A a \in FileCells(p) : a \in SegmentCells(p)
<1>1. k \in Loads(file)
  BY DEF Loads
<1>2. /\ p.vaddr \in Nat /\ p.filesz \in Nat /\ p.memsz \in Nat /\ p.filesz <= p.memsz
      /\ p.memsz + 2 * Page <= WordSize
  BY <1>1, LoadShape
<1> SUFFICES ASSUME NEW a \in FileCells(p) PROVE a \in SegmentCells(p)
  OBVIOUS
<1>3. PICK c \in 0..(p.filesz - 1) : a = base + p.vaddr + c
  BY DEF FileCells
<1>4. c \in 0..(p.memsz - 1)
  <2>1. PICK x \in Nat, y \in Nat : x = p.filesz /\ y = p.memsz /\ x <= y
    BY <1>2
  <2>2. c \in 0..(x - 1)
    BY <2>1
  <2> QED
    BY <2>1, <2>2
<1> QED
  BY <1>2, <1>3, <1>4, CellsMapped

\* What a program header does, for a file as the linker makes it.
LEMMA HeaderStep ==
    ASSUME CallInv, ProgramHeader
    PROVE  /\ pc = "phdrs" /\ pc' = "phdrs" /\ i' = i + 1 /\ i' \in DOMAIN Header(file).phdrs
           /\ file \in DOMAIN Files
           /\ LET p == Header(file).phdrs[i + 1] IN
              \/ /\ p.type = PT_LOAD
                 /\ image' = [a \in DOMAIN image |->
                       IF a \in FileCells(p) THEN Contents(file, i + 1, a - base - p.vaddr)
                       ELSE IF a \in SegmentCells(p) THEN Zero ELSE image[a]]
                 /\ UNCHANGED <<stored, interp, found>>
              \/ OtherHeader(i + 1, p)
           /\ UNCHANGED <<first, file, base, args, cr3, thread, stack>>
<1> DEFINE s == Header(file).phdrs
           k == i + 1
           p == s[k]
<1>1. /\ pc = "phdrs" /\ k <= Len(s) /\ (LoadSegment(k, p) \/ OtherHeader(k, p))
      /\ UNCHANGED <<first, file, base, args, cr3, thread, stack>>
  BY DEF ProgramHeader
<1>2. file \in DOMAIN Files /\ i \in Nat /\ base \in {0, InterpBase}
  BY <1>1 DEF CallInv, TypeOK
<1>3. s \in Seq(ProgramHeaders)
  BY <1>2, HeaderShape
<1>4. k \in DOMAIN s
  <2> HIDE DEF s
  <2> QED
    BY <1>1, <1>2, <1>3
<1>5. CASE OtherHeader(k, p)
  BY <1>1, <1>2, <1>4, <1>5 DEF OtherHeader
<1>6. CASE LoadSegment(k, p)
  <2>1. p.type = PT_LOAD
    BY <1>6 DEF LoadSegment
  <2>2. \A a \in FileCells(p) : a \in SegmentCells(p)
    BY <1>2, <1>4, <2>1, SegmentReadable
  <2>3. /\ image' = [a \in DOMAIN image |->
                 IF a \in FileCells(p) THEN Contents(file, k, a - base - p.vaddr)
                 ELSE IF a \in SegmentCells(p) THEN Zero ELSE image[a]]
        /\ i' = k /\ UNCHANGED pc /\ UNCHANGED <<stored, interp, found>>
    BY <1>6, <2>2, Zenon DEF LoadSegment
  <2> HIDE DEF p
  <2>4. i' = i + 1 /\ pc' = "phdrs"
    BY <1>1, <2>3
  <2> QED
    BY <1>1, <1>2, <1>4, <2>1, <2>3, <2>4 DEF p
<1> QED
  BY <1>1, <1>5, <1>6

LEMMA CallInit == Init => CallInv
<1> SUFFICES ASSUME Init PROVE CallInv
  OBVIOUS
<1>1. thread \in Threads
  BY NoThreadTyped DEF Init
<1>2. args \in [entry: Nat, phdr: Nat, phent: Nat, phnum: Nat]
  BY DEF Init
<1>3. thread.rsp \in 0..StackSize /\ thread.usp \in 0..StackSize
  BY <1>1 DEF Threads
<1>4. found \in BOOLEAN
  BY DEF Init
<1>5. DOMAIN image = 0..(Space - 1)
  BY DEF Init
<1> QED
  BY <1>1, <1>2, <1>3, <1>4, <1>5 DEF Init, CallInv, TypeOK, CleanFailure, FaultExplained

\* The window grows to a multiple of the alignment inside the stack, and what
\* was in it moves down with it.
LEMMA Aligned ==
    ASSUME CallInv, pc = "align"
    PROVE  LET s == AlignWindow(thread.window) IN
           /\ s.window \in 0..StackSize /\ thread.window <= s.window /\ s.window % 4 = 0
           /\ s.stack = Copied(stack, StackSize - s.window, StackSize - thread.window, thread.window)
<1> DEFINE D == 0..(StackSize - 1)
<1>1. /\ thread.usp = StackSize /\ thread.window \in Nat /\ thread.window <= StackSize
      /\ stack = [a \in D |-> stack[a]]
  BY DEF CallInv, Threads
<1>2. PICK w \in Nat, S \in Nat : w = thread.window /\ S = StackSize /\ w <= S
  BY <1>1, ElfAssumption
<1>3. S % 4 = 0 /\ Align = 4
  BY <1>2, ElfAssumption DEF Align, Cell
<1> DEFINE new == IF w % 4 = 0 THEN w ELSE w + 4 - (w % 4)
<1>4. new \in 0..S /\ w <= new /\ new % 4 = 0
  BY <1>2, <1>3
<1>5. /\ AlignWindow(thread.window).window = new
      /\ AlignWindow(thread.window).stack = memmove(stack, S - new, S - w, w)
  BY <1>1, <1>2, <1>3 DEF AlignWindow
<1> HIDE DEF new
<1>6. memmove(stack, S - new, S - w, w) = Copied(stack, S - new, S - w, w)
  <2> DEFINE V == {stack[a] : a \in D}
  <2>1. stack \in [D -> V]
    <3> HIDE DEF D
    <3> QED
      BY <1>1
  <2>2. \A t \in 0..(w - 1) : (S - w) + t \in D
    BY <1>2
  <2>3. D \in SUBSET Int /\ S - new \in Int /\ S - w \in Int
    BY <1>2, <1>4
  <2> HIDE DEF D, V
  <2> QED
    BY <2>1, <2>2, <2>3, MemmoveCopies
<1> QED
  BY <1>2, <1>4, <1>5, <1>6

LEMMA CallStep == CallInv /\ [Next]_vars => CallInv'
<1> SUFFICES ASSUME CallInv, [Next]_vars PROVE CallInv'
  OBVIOUS
<1> DEFINE Args == [entry: Nat, phdr: Nat, phent: Nat, phnum: Nat]
<1>0. /\ first \in DOMAIN Files /\ file \in DOMAIN Files \cup {Missing}
      /\ base \in {0, InterpBase} /\ i \in Nat /\ stored \in Nat /\ found \in BOOLEAN
      /\ interp \in DOMAIN Files \cup {Missing} /\ args \in Args
      /\ cr3 \in {"kernel", "maps"} /\ DOMAIN image = 0..(Space - 1)
      /\ thread \in Threads
      /\ thread.rsp \in 0..StackSize /\ thread.usp \in 0..StackSize
      /\ stack # <<>> => DOMAIN stack = 0..(StackSize - 1)
  BY DEF CallInv, TypeOK
<1>1. CASE ReadHeader
  <2>1. /\ pc = "header" /\ cr3' = "maps" /\ thread = NoThread /\ stack = <<>>
        /\ UNCHANGED <<image, thread, stack, first, file, base, args>>
    BY <1>1 DEF ReadHeader, CallInv, call
  <2>2. CASE file = Missing
    BY <1>0, <1>1, <2>1, <2>2
       DEF ReadHeader, CallInv, TypeOK, CleanFailure, FaultExplained, call
  <2>3. CASE file # Missing
    <3>1. /\ pc' \in {"phdrs", "reject"} /\ i' = 0 /\ stored' \in OldStored /\ found' = FALSE
          /\ interp' = Missing
      BY <1>1, <2>3, Zenon DEF ReadHeader
    <3>2. stored' \in Nat /\ found' \in BOOLEAN
      BY <3>1, ElfAssumption
    <3>3. file \in DOMAIN Files
      BY <1>0, <2>3
    <3>4. Len(Header(file).phdrs) \in Nat
      BY <3>3, HeaderShape
    <3> QED
      BY <1>0, <2>1, <3>1, <3>2, <3>3, <3>4
         DEF CallInv, TypeOK, CleanFailure, FaultExplained, Header
  <2> QED
    BY <2>2, <2>3
<1>2. CASE Reject
  BY <1>0, <1>2 DEF Reject, CallInv, TypeOK, CleanFailure, FaultExplained, call
<1>3. CASE ProgramHeader
  <2> DEFINE p == Header(file).phdrs[i + 1]
  <2>1. /\ pc = "phdrs" /\ pc' = "phdrs" /\ i' = i + 1 /\ i' \in DOMAIN Header(file).phdrs
        /\ file \in DOMAIN Files /\ UNCHANGED <<first, file, base, args, cr3, thread, stack>>
    BY <1>3, HeaderStep
  <2>2. p \in ProgramHeaders /\ p.vaddr \in Nat /\ p.path \in DOMAIN Files \cup {Missing}
        /\ i + 1 <= Len(Header(file).phdrs)
    BY <2>1, PhdrShape
  <2>3. /\ stored' \in Nat /\ found' \in BOOLEAN /\ interp' \in DOMAIN Files \cup {Missing}
        /\ DOMAIN image' = 0..(Space - 1)
    <3>1. CASE OtherHeader(i + 1, p)
      <4>1. found' \in BOOLEAN
        BY <1>0, <3>1, Zenon DEF OtherHeader
      <4>2. stored' \in Nat
        <5>1. PICK b \in Nat, v \in Nat : b = base /\ v = p.vaddr
          BY <1>0, <2>2, ElfAssumption
        <5>2. stored' \in {b + v, stored}
          BY <3>1, <5>1 DEF OtherHeader
        <5> QED
          BY <1>0, <5>2
      <4> QED
        BY <1>0, <2>2, <3>1, <4>1, <4>2 DEF OtherHeader
    <3>2. CASE ~OtherHeader(i + 1, p)
      <4>1. /\ image' = [a \in DOMAIN image |->
                 IF a \in FileCells(p) THEN Contents(file, i + 1, a - base - p.vaddr)
                 ELSE IF a \in SegmentCells(p) THEN Zero ELSE image[a]]
            /\ UNCHANGED <<stored, interp, found>>
        BY <1>3, <3>2, HeaderStep
      <4>2. DOMAIN image' = DOMAIN image
        BY <4>1
      <4> QED
        BY <1>0, <4>1, <4>2
    <3> QED
      BY <3>1, <3>2
  <2>4. i' \in Nat /\ i' <= Len(Header(file).phdrs)
    BY <1>0, <2>1, <2>2
  <2>5. thread = NoThread /\ stack = <<>> /\ cr3 = "maps"
    BY <2>1 DEF CallInv
  <2> HIDE DEF p
  <2> QED
    BY <1>0, <2>1, <2>3, <2>4, <2>5 DEF CallInv, TypeOK, CleanFailure, FaultExplained, Header
<1>4. CASE Interpret
  <2>1. /\ pc = "phdrs" /\ pc' = "header" /\ file' = interp /\ base' = InterpBase
        /\ file \in DOMAIN Files
        /\ args' = [entry |-> base + Header(file).entry, phdr |-> stored,
                    phent |-> Header(file).phent, phnum |-> Len(Header(file).phdrs)]
        /\ UNCHANGED <<first, i, stored, interp, found, cr3, image, thread, stack>>
    BY <1>4 DEF Interpret, CallInv
  <2>2. Header(file).entry \in Nat /\ Header(file).phent \in Nat /\ Len(Header(file).phdrs) \in Nat
    BY <2>1, HeaderShape
  <2>3. base + Header(file).entry \in Nat
    <3>1. PICK b \in Nat, e \in Nat : b = base /\ e = Header(file).entry
      BY <1>0, <2>2, ElfAssumption
    <3>2. b + e \in Nat
      OBVIOUS
    <3> QED
      BY <3>1, <3>2
  <2>4. args' \in Args
    BY <1>0, <2>1, <2>2, <2>3
  <2>5. thread = NoThread /\ stack = <<>>
    BY <2>1 DEF CallInv
  <2> QED
    BY <1>0, <2>1, <2>4, <2>5 DEF CallInv, TypeOK, CleanFailure, FaultExplained
<1>5. CASE MakeThread
  <2>1. /\ pc = "phdrs" /\ pc' = "push" /\ file \in DOMAIN Files /\ cr3 = "maps"
        /\ stack' = OldStack /\ UNCHANGED <<call, cr3, image>>
    BY <1>5 DEF MakeThread, CallInv
  <2>2. PICK w \in OldWindows :
           thread' = [rip |-> base + Header(file).entry, rsp |-> StackSize, usp |-> StackSize,
                      window |-> w, pagemap |-> "kernel"]
    BY <1>5 DEF MakeThread
  <2>3. base + Header(file).entry \in Nat
    <3>1. Header(file).entry \in Nat
      BY <2>1, HeaderShape
    <3>2. PICK b \in Nat, e \in Nat : b = base /\ e = Header(file).entry
      BY <1>0, <3>1, ElfAssumption
    <3>3. b + e \in Nat
      OBVIOUS
    <3> QED
      BY <3>2, <3>3
  <2>4. w \in Nat /\ StackSize \in 0..StackSize
    BY ElfAssumption
  <2>5. thread' \in Threads /\ thread'.rsp = StackSize /\ thread'.usp = StackSize
        /\ thread'.pagemap = "kernel"
    BY <2>2, <2>3, <2>4 DEF Threads
  <2>6. DOMAIN stack' = 0..(StackSize - 1)
    BY <2>1 DEF OldStack
  <2> QED
    BY <1>0, <2>1, <2>4, <2>5, <2>6 DEF CallInv, TypeOK, CleanFailure, FaultExplained, call, OldStack
<1>6. CASE Push
  <2> DEFINE w == thread.window + Word * Len(Words)
  <2>1. /\ pc = "push" /\ file \in DOMAIN Files /\ cr3 = "maps" /\ thread.usp = StackSize
        /\ thread.rsp = StackSize /\ thread.pagemap = "kernel" /\ stack = OldStack
        /\ UNCHANGED <<call, cr3, image>>
    BY <1>6 DEF Push, CallInv
  <2>2. Len(Words) \in {11, 13}
    <3>1. WordsRight(Words)
      BY <1>0, WordsAre
    <3> QED
      BY <3>1 DEF WordsRight
  <2>3. thread.window \in Nat /\ Word = 2
    BY <1>0 DEF Threads, Word, Cell
  <2>4. w \in Nat /\ w <= thread.window + 26
    <3>1. PICK x \in Nat, n \in {11, 13} : x = thread.window /\ n = Len(Words)
      BY <2>2, <2>3
    <3>2. w = x + 2 * n
      BY <2>3, <3>1
    <3>3. x + 2 * n \in Nat /\ x + 2 * n <= x + 26
      OBVIOUS
    <3> QED
      BY <3>1, <3>2, <3>3
  <2>5. CASE w > thread.usp
    <3>1. pc' = "fault" /\ UNCHANGED <<thread, stack>>
      BY <1>6, <2>5 DEF Push
    <3>2. thread # NoThread
      BY <2>1 DEF NoThread
    <3>3. thread.window + 2 * 13 > StackSize
      <4>1. PICK x \in Nat, S \in Nat, y \in Nat : x = thread.window /\ S = StackSize /\ y = w
        BY <2>3, <2>4, ElfAssumption
      <4>2. y > S /\ y <= x + 26
        BY <2>1, <2>4, <2>5, <4>1
      <4> QED
        BY <4>1, <4>2
    <3> HIDE DEF w
    <3> QED
      BY <1>0, <2>1, <3>1, <3>2, <3>3 DEF CallInv, TypeOK, CleanFailure, FaultExplained, call
  <2>6. CASE ~(w > thread.usp)
    <3>1. /\ stack' = Pushed(thread.usp, thread.window, Words) /\ pc' = "align"
          /\ thread' = [thread EXCEPT !.window = w]
      BY <1>6, <2>6 DEF Push
    <3> HIDE DEF w
    <3>2. thread' \in Threads /\ thread'.window = w /\ thread'.rsp = thread.rsp
          /\ thread'.usp = thread.usp
      BY <1>0, <2>4, <3>1 DEF Threads
    <3>3. DOMAIN stack = 0..(StackSize - 1)
      BY <2>1 DEF OldStack
    <3>4. stack' = [a \in 0..(StackSize - 1) |-> stack'[a]]
      BY <3>1, <3>3 DEF Pushed
    <3>5. w <= StackSize
      BY <2>1, <2>4, <2>6, ElfAssumption
    <3>6. DOMAIN stack' = 0..(StackSize - 1)
      BY <3>4
    <3>7. thread'.rsp \in 0..StackSize /\ thread'.usp \in 0..StackSize
      BY <1>0, <3>2
    <3> QED
      BY <1>0, <2>1, <3>1, <3>2, <3>4, <3>5, <3>6, <3>7
         DEF CallInv, TypeOK, CleanFailure, FaultExplained, call
  <2> QED
    BY <2>5, <2>6
<1>7. CASE Finish
  <2> DEFINE s == AlignWindow(thread.window)
  <2>1. /\ pc = "align" /\ pc' = "done" /\ stack' = s.stack
        /\ thread' = [thread EXCEPT !.window = s.window, !.pagemap = "maps",
                                    !.usp = @ - s.window, !.rsp = @ - s.window]
        /\ UNCHANGED <<call, cr3, image>>
    BY <1>7 DEF Finish
  <2>2. /\ s.window \in 0..StackSize
        /\ s.stack = Copied(stack, StackSize - s.window, StackSize - thread.window, thread.window)
    BY <2>1, Aligned
  <2>3. /\ file \in DOMAIN Files /\ cr3 = "maps" /\ thread.usp = StackSize /\ thread.rsp = StackSize
        /\ stack = [a \in 0..(StackSize - 1) |-> stack[a]]
    BY <2>1 DEF CallInv
  <2> HIDE DEF s
  <2>4. StackSize - s.window \in 0..StackSize /\ s.window \in Nat
    BY <2>2, ElfAssumption
  <2>5. thread' \in Threads /\ thread'.rsp \in 0..StackSize /\ thread'.usp \in 0..StackSize
    BY <1>0, <2>1, <2>3, <2>4 DEF Threads
  <2>6. DOMAIN stack' = 0..(StackSize - 1)
    BY <2>1, <2>2, <2>3 DEF Copied
  <2> QED
    BY <1>0, <2>1, <2>3, <2>5, <2>6 DEF CallInv, TypeOK, CleanFailure, FaultExplained, call
<1>8. CASE UNCHANGED vars
  BY <1>8 DEF CallInv, TypeOK, CleanFailure, FaultExplained, vars, Header
<1>9. CASE Ended
  BY <1>8, <1>9 DEF Ended
<1> QED
  BY <1>1, <1>2, <1>3, <1>4, <1>5, <1>6, <1>7, <1>8, <1>9 DEF Next

LEMMA CallAlways == Spec => []CallInv
  BY CallInit, CallStep, PTL DEF Spec

\* load_elf_program turns a file away without a trace, and faults only for an
\* interpreter that is not there or an old window that does not fit: for every
\* shape of the segments, every stack and every old window.
THEOREM LoaderInvAlways == Spec => []LoaderInv
<1>1. CallInv => LoaderInv
  BY DEF CallInv, LoaderInv
<1> QED
  BY <1>1, CallAlways, PTL
------------------------------------------------------------------------------
(* The image.                                                              *)

\* Segment k of the file f is whole at b.
SegmentAt(f, b, k) ==
    LET p == Header(f).phdrs[k] IN
    \A c \in 0..(p.memsz - 1) :
        image[b + p.vaddr + c] = IF c < p.filesz THEN Contents(f, k, c) ELSE Zero

\* The segments done so far are whole, and stay so: the program's while its
\* interpreter is loaded above it.
ImageInv ==
    /\ base = 0 => file = first
    /\ base = InterpBase => \A k \in Loads(first) : SegmentAt(first, 0, k)
    /\ pc = "phdrs" => \A k \in Loads(file) : k <= i => SegmentAt(file, base, k)
    /\ pc \in {"push", "align", "done"} => \A k \in Loads(file) : SegmentAt(file, base, k)

LEMMA ImageInit == Init => ImageInv
<1> SUFFICES ASSUME Init PROVE ImageInv
  OBVIOUS
<1>1. base = 0 /\ InterpBase # 0 /\ pc = "header" /\ file = first
  BY ElfAssumption DEF Init
<1> QED
  BY <1>1 DEF ImageInv

\* A segment read in is whole.
LEMMA SegmentRead ==
    ASSUME base \in {0, InterpBase}, file \in DOMAIN Files, NEW k \in Loads(file),
           NEW p, p = Header(file).phdrs[k], DOMAIN image = 0..(Space - 1), UNCHANGED <<file, base>>,
           image' = [a \in DOMAIN image |->
                       IF a \in FileCells(p) THEN Contents(file, k, a - base - p.vaddr)
                       ELSE IF a \in SegmentCells(p) THEN Zero ELSE image[a]]
    PROVE  SegmentAt(file, base, k)'
<1>1. /\ p.vaddr \in Nat /\ p.filesz \in Nat /\ p.memsz \in Nat
      /\ p.filesz <= p.memsz /\ p.vaddr + p.memsz <= InterpBase
      /\ InterpBase + p.vaddr + p.memsz <= Space /\ p.memsz + 2 * Page <= WordSize
  BY LoadShape
<1>2. PICK v \in Nat, x \in Nat, z \in Nat, b \in Nat, I \in Nat, S \in Nat :
         /\ v = p.vaddr /\ x = p.filesz /\ z = p.memsz /\ b = base
         /\ I = InterpBase /\ S = Space
  BY <1>1, ElfAssumption
<1>3. ASSUME NEW c \in 0..(z - 1)
      PROVE  image'[b + v + c] = IF c < x THEN Contents(file, k, c) ELSE Zero
  <2>1. b + v + c \in 0..(S - 1)
    <3>1. I + v + z <= S /\ b \in {0, I}
      BY <1>1, <1>2
    <3> HIDE <1>2
    <3> QED
      BY <3>1
  <2>2. b + v + c \in DOMAIN image
    BY <1>2, <2>1
  <2>3. b + v + c \in SegmentCells(p)
    BY <1>1, <1>2, CellsMapped
  <2>4. b + v + c \in FileCells(p) <=> c < x
    <3>1. FileCells(p) = {b + v + d : d \in 0..(x - 1)}
      BY <1>2 DEF FileCells
    <3> HIDE <1>2
    <3> QED
      BY <3>1
  <2>5. (b + v + c) - b - v = c
    OBVIOUS
  <2>6. image'[b + v + c] = IF b + v + c \in FileCells(p)
                            THEN Contents(file, k, (b + v + c) - b - v) ELSE Zero
    BY <1>2, <2>2, <2>3
  <2> QED
    BY <2>4, <2>5, <2>6
<1>4. \A c \in 0..(p.memsz - 1) :
         image'[base + p.vaddr + c] = IF c < p.filesz THEN Contents(file, k, c) ELSE Zero
  BY <1>2, <1>3
<1> QED
  BY <1>4 DEF SegmentAt, Header, Contents, Zero

LEMMA ImageStep == CallInv /\ ImageInv /\ [Next]_vars => ImageInv'
<1> SUFFICES ASSUME CallInv, ImageInv, [Next]_vars PROVE ImageInv'
  OBVIOUS
<1>0. /\ first \in DOMAIN Files /\ base \in {0, InterpBase} /\ i \in Nat
      /\ DOMAIN image = 0..(Space - 1) /\ InterpBase \in Nat /\ InterpBase # 0
  BY ElfAssumption DEF CallInv, TypeOK
<1>1. CASE ReadHeader
  <2>1. /\ pc = "header" /\ UNCHANGED <<image, first, file, base>>
    BY <1>1 DEF ReadHeader, call
  <2>2. pc' \in {"fault", "reject"} \/ (pc' = "phdrs" /\ file \in DOMAIN Files /\ i' = 0)
    BY <1>1, Zenon DEF ReadHeader, CallInv, TypeOK
  <2>3. pc' = "phdrs" => \A k \in Loads(file) : ~(k <= i')
    <3> SUFFICES ASSUME pc' = "phdrs", NEW k \in Loads(file) PROVE ~(k <= i')
      OBVIOUS
    <3>1. file \in DOMAIN Files /\ i' = 0 /\ k \in DOMAIN Header(file).phdrs
      BY <2>2 DEF Loads
    <3>2. k \in Nat /\ k >= 1
      BY <3>1, PhdrShape
    <3> QED
      BY <3>1, <3>2
  <2> QED
    BY <2>1, <2>2, <2>3 DEF ImageInv, SegmentAt, Loads, Header
<1>2. CASE Reject
  BY <1>2 DEF Reject, call, ImageInv, SegmentAt, Loads, Header
<1>3. CASE ProgramHeader
  <2> DEFINE n == i + 1
             p == Header(file).phdrs[n]
  <2>1. /\ pc = "phdrs" /\ pc' = "phdrs" /\ i' = n /\ n \in DOMAIN Header(file).phdrs
        /\ file \in DOMAIN Files /\ UNCHANGED <<first, file, base>>
    BY <1>3, HeaderStep
  <2>2. CASE OtherHeader(n, p)
    <3>1. UNCHANGED image /\ n \notin Loads(file)
      BY <2>2 DEF OtherHeader, Loads
    <3>2. \A k \in Loads(file) : k <= n => k <= i
      <4> SUFFICES ASSUME NEW k \in Loads(file), k <= n PROVE k <= i
        OBVIOUS
      <4>1. k \in Nat /\ k # n
        BY <2>1, <3>1, PhdrShape DEF Loads
      <4> QED
        BY <1>0, <4>1
    <3> QED
      BY <2>1, <3>1, <3>2 DEF ImageInv, SegmentAt, Loads, Header
  <2>3. CASE ~OtherHeader(n, p)
    <3>1. /\ p.type = PT_LOAD
          /\ image' = [a \in DOMAIN image |->
                 IF a \in FileCells(p) THEN Contents(file, n, a - base - p.vaddr)
                 ELSE IF a \in SegmentCells(p) THEN Zero ELSE image[a]]
      BY <1>3, <2>3, HeaderStep
    <3>2. n \in Loads(file)
      BY <2>1, <3>1 DEF Loads
    <3>3. \A a \in FileCells(p) : a \in SegmentCells(p)
      BY <1>0, <2>1, <3>1, SegmentReadable
    <3>4. ASSUME NEW a \in DOMAIN image, a \notin SegmentCells(p) PROVE image'[a] = image[a]
      BY <3>1, <3>3, <3>4
    <3>5. ASSUME NEW k \in Loads(file), k <= n PROVE SegmentAt(file, base, k)'
      <4>1. CASE k = n
        BY <1>0, <2>1, <3>1, <3>2, <4>1, SegmentRead
      <4>2. CASE k # n
        <5> DEFINE r == Header(file).phdrs[k]
        <5>1. /\ k \in DOMAIN Header(file).phdrs /\ r.vaddr \in Nat /\ r.memsz \in Nat
              /\ r.vaddr + r.memsz <= InterpBase /\ InterpBase + r.vaddr + r.memsz <= Space
          BY <2>1, LoadShape
        <5>2. k \in Nat
          BY <2>1, <5>1, PhdrShape
        <5>3. SegmentAt(file, base, k)
          BY <1>0, <2>1, <3>5, <4>2, <5>2 DEF ImageInv
        <5>4. ASSUME NEW c \in 0..(r.memsz - 1)
              PROVE  image'[base + r.vaddr + c] = image[base + r.vaddr + c]
          <6>1. base + r.vaddr + c \notin SegmentCells(p)
            BY <1>0, <2>1, <3>2, <4>2, SegmentsApart
          <6>2. base + r.vaddr + c \in DOMAIN image
            <7>1. PICK v \in Nat, z \in Nat, b \in Nat, S \in Nat :
                     v = r.vaddr /\ z = r.memsz /\ b = base /\ S = Space
              BY <1>0, <5>1, ElfAssumption
            <7>2. c \in 0..(z - 1) /\ InterpBase + v + z <= S /\ b \in {0, InterpBase}
              BY <1>0, <5>1, <7>1
            <7>3. b + v + c \in 0..(S - 1)
              BY <1>0, <7>2
            <7> QED
              BY <1>0, <7>1, <7>3
          <6> QED
            BY <3>4, <6>1, <6>2
        <5>6. \A c \in 0..(r.memsz - 1) :
                 image'[base + r.vaddr + c] = image[base + r.vaddr + c]
          BY <5>4
        <5> QED
          BY <2>1, <5>3, <5>6 DEF SegmentAt, Header, Contents, Zero
      <4> QED
        BY <4>1, <4>2
    <3>6. ASSUME base = InterpBase, NEW k \in Loads(first) PROVE SegmentAt(first, 0, k)'
      <4> DEFINE r == Header(first).phdrs[k]
      <4>1. /\ r.vaddr \in Nat /\ r.memsz \in Nat
            /\ r.vaddr + r.memsz <= InterpBase /\ InterpBase + r.vaddr + r.memsz <= Space
        BY <1>0, LoadShape
      <4>2. SegmentAt(first, 0, k)
        BY <3>6 DEF ImageInv
      <4>3. p.vaddr \in Nat /\ p.memsz \in Nat /\ p.memsz + 2 * Page <= WordSize
        BY <2>1, <3>2, LoadShape
      <4>4. ASSUME NEW c \in 0..(r.memsz - 1)
            PROVE  image'[0 + r.vaddr + c] = image[0 + r.vaddr + c]
        <5>1. PICK v \in Nat, z \in Nat, S \in Nat : v = r.vaddr /\ z = r.memsz /\ S = Space
          BY <4>1, ElfAssumption
        <5>2. c \in 0..(z - 1) /\ v + z <= InterpBase /\ InterpBase + v + z <= S
          BY <4>1, <5>1
        <5>3. 0 + v + c \in 0..(S - 1) /\ 0 + v + c \in Int /\ 0 + v + c < InterpBase
          BY <1>0, <5>2
        <5>4. 0 + v + c \notin SegmentCells(p)
          BY <3>6, <4>3, <5>3, InterpreterAbove
        <5>5. 0 + v + c \in DOMAIN image
          BY <1>0, <5>1, <5>3
        <5> QED
          BY <3>4, <5>1, <5>4, <5>5
      <4>5. \A c \in 0..(r.memsz - 1) : image'[0 + r.vaddr + c] = image[0 + r.vaddr + c]
        BY <4>4
      <4> QED
        BY <2>1, <4>2, <4>5 DEF SegmentAt, Header, Contents, Zero
    <3>7. (\A k \in Loads(file) : k <= i => SegmentAt(file, base, k))'
      BY <2>1, <3>5 DEF Loads, Header
    <3>8. (base = InterpBase => \A k \in Loads(first) : SegmentAt(first, 0, k))'
      BY <2>1, <3>6 DEF Loads, Header
    <3> HIDE DEF p
    <3> QED
      BY <2>1, <3>7, <3>8 DEF ImageInv
  <2> QED
    BY <2>2, <2>3
<1>4. ASSUME pc = "phdrs", i = Len(Header(file).phdrs)
      PROVE  \A k \in Loads(file) : SegmentAt(file, base, k)
  <2>1. file \in DOMAIN Files
    BY <1>4 DEF CallInv
  <2> SUFFICES ASSUME NEW k \in Loads(file) PROVE SegmentAt(file, base, k)
    OBVIOUS
  <2>2. k <= i
    BY <1>4, <2>1, PhdrShape DEF Loads
  <2> QED
    BY <1>4, <2>2 DEF ImageInv
<1>5. CASE Interpret
  <2>1. /\ pc = "phdrs" /\ i = Len(Header(file).phdrs) /\ pc' = "header" /\ base' = InterpBase
        /\ UNCHANGED <<first, image>>
    BY <1>5 DEF Interpret
  <2>2. \A k \in Loads(first) : SegmentAt(first, 0, k)
    <3>1. CASE base = 0
      BY <1>4, <2>1, <3>1 DEF ImageInv
    <3>2. CASE base = InterpBase
      BY <3>2 DEF ImageInv
    <3> QED
      BY <1>0, <3>1, <3>2
  <2>3. (\A k \in Loads(first) : SegmentAt(first, 0, k))'
    BY <2>1, <2>2 DEF SegmentAt, Loads, Header
  <2> QED
    BY <1>0, <2>1, <2>3 DEF ImageInv
<1>6. CASE MakeThread
  <2>1. /\ pc = "phdrs" /\ i = Len(Header(file).phdrs) /\ pc' = "push"
        /\ UNCHANGED <<first, file, base, image>>
    BY <1>6 DEF MakeThread, call
  <2>2. \A k \in Loads(file) : SegmentAt(file, base, k)
    BY <1>4, <2>1
  <2> QED
    BY <2>1, <2>2 DEF ImageInv, SegmentAt, Loads, Header
<1>7. CASE Push
  <2>1. pc = "push" /\ pc' \in {"fault", "align"} /\ UNCHANGED <<first, file, base, image>>
    BY <1>7, Zenon DEF Push, call
  <2> QED
    BY <2>1 DEF ImageInv, SegmentAt, Loads, Header
<1>8. CASE Finish
  <2>1. pc = "align" /\ pc' = "done" /\ UNCHANGED <<first, file, base, image>>
    BY <1>8 DEF Finish, call
  <2> QED
    BY <2>1 DEF ImageInv, SegmentAt, Loads, Header
<1>9. CASE UNCHANGED vars
  BY <1>9 DEF vars, ImageInv, SegmentAt, Loads, Header
<1>10. CASE Ended
  BY <1>9, <1>10 DEF Ended
<1> QED
  BY <1>1, <1>2, <1>3, <1>5, <1>6, <1>7, <1>8, <1>9, <1>10 DEF Next

LEMMA ImageAlways == Spec => []ImageInv
  BY ImageInit, ImageStep, CallAlways, PTL DEF Spec

\* Every segment of the program and of its interpreter is whole in memory when
\* the thread is made: the pages counted by load_elf_program are the pages the
\* linker laid the segment out on, for every misalignment and page size.
THEOREM ImageRightAlways == Spec => []ImageRight
<1>1. CallInv /\ ImageInv => ImageRight
  <2> SUFFICES ASSUME CallInv, ImageInv, pc = "done"
               PROVE  ImageOf(first, 0) /\ (file # first => ImageOf(file, base))
    BY DEF ImageRight
  <2>1. base \in {0, InterpBase}
    BY DEF CallInv, TypeOK
  <2>2. \A k \in Loads(file) : SegmentAt(file, base, k)
    BY DEF ImageInv
  <2>3. \A k \in Loads(first) : SegmentAt(first, 0, k)
    BY <2>1, <2>2 DEF ImageInv
  <2> QED
    BY <2>2, <2>3 DEF ImageOf, SegmentAt
<1> QED
  BY <1>1, CallAlways, ImageAlways, PTL
------------------------------------------------------------------------------
(* The stack.                                                              *)

\* From top up the stack holds the words, the last one pushed first, whole.
Holds(top) ==
    \A k \in 1..Len(Words), h \in 0..1 :
        stack[top + 2 * (k - 1) + h] = Half(Words[Len(Words) - k + 1], h)

\* The words are at the window's end, and after the move at the stack pointer.
StackInv ==
    /\ pc = "align" => /\ thread.window >= 2 * Len(Words)
                       /\ Holds(StackSize - thread.window)
    /\ pc = "done" => /\ thread.usp = thread.rsp /\ thread.pagemap = "maps"
                      /\ (StackSize - thread.rsp) % 4 = 0
                      /\ thread.rsp + 2 * Len(Words) <= StackSize
                      /\ Holds(thread.rsp)

LEMMA StackStep == CallInv /\ StackInv /\ [Next]_vars => StackInv'
<1> SUFFICES ASSUME CallInv, StackInv, [Next]_vars PROVE StackInv'
  OBVIOUS
<1>0. args \in [entry: Nat, phdr: Nat, phent: Nat, phnum: Nat] /\ thread \in Threads
  BY DEF CallInv, TypeOK
<1>1. PICK L \in {11, 13} : L = Len(Words)
  <2>1. WordsRight(Words)
    BY <1>0, WordsAre
  <2> QED
    BY <2>1 DEF WordsRight
<1>2. PICK S \in Nat, w \in Nat : S = StackSize /\ w = thread.window
  BY <1>0, ElfAssumption DEF Threads
<1>3. CASE pc' \notin {"align", "done"}
  BY <1>3 DEF StackInv
<1>4. CASE Push
  <2>1. CASE w + 2 * L > S
    <3>1. pc' = "fault"
      BY <1>1, <1>2, <1>4, <2>1 DEF Push, CallInv, Word, Cell
    <3> QED
      BY <1>3, <3>1
  <2>2. CASE ~(w + 2 * L > S)
    <3>1. /\ pc' = "align" /\ UNCHANGED args /\ stack' = Pushed(S, w, Words)
          /\ thread' = [thread EXCEPT !.window = w + 2 * L]
          /\ stack = OldStack
      BY <1>1, <1>2, <1>4, <2>2 DEF Push, CallInv, Word, Cell, call
    <3>2. thread'.window = w + 2 * L
      BY <1>0, <3>1 DEF Threads
    <3>3. Words' = Words
      BY <3>1 DEF Words
    <3>4. ASSUME NEW k \in 1..L, NEW h \in 0..1
          PROVE  stack'[S - (w + 2 * L) + 2 * (k - 1) + h] = Half(Words[L - k + 1], h)
      <4> DEFINE a == S - (w + 2 * L) + 2 * (k - 1) + h
                 d == (S - w - 1) - a
      <4>1. a \in 0..(S - 1)
        BY <2>2
      <4>2. d = 2 * (L - k) + (1 - h)
        OBVIOUS
      <4>3. d >= 0 /\ d \div 2 + 1 = L - k + 1 /\ 1 - (d % 2) = h
        <5>1. d \in Int
          BY <4>2
        <5> HIDE DEF d
        <5>2. PICK e \in 0..12 : e = L - k
          OBVIOUS
        <5>3. d = 2 * e + (1 - h)
          BY <4>2, <5>2
        <5>4. d >= 0 /\ d \div 2 = e /\ d % 2 = 1 - h
          <6>1. CASE h = 0
            BY <5>3, <6>1
          <6>2. CASE h = 1
            BY <5>3, <6>2
          <6> QED
            BY <6>1, <6>2
        <5> QED
          BY <5>2, <5>4
      <4>4. DOMAIN stack = 0..(S - 1)
        BY <1>2, <3>1 DEF OldStack
      <4>5. stack'[a] = IF d >= 0 /\ d \div 2 + 1 <= L THEN Half(Words[d \div 2 + 1], 1 - (d % 2))
                        ELSE stack[a]
        BY <1>1, <3>1, <4>1, <4>4 DEF Pushed, Word, Cell
      <4> HIDE DEF d
      <4>6. d \div 2 + 1 <= L
        BY <4>3
      <4> QED
        BY <4>3, <4>5, <4>6
    <3>5. Holds(S - (w + 2 * L))'
      BY <1>1, <1>2, <3>3, <3>4 DEF Holds, Half
    <3>6. Holds(StackSize - thread.window)'
      BY <1>2, <3>2, <3>5
    <3> QED
      BY <1>1, <3>1, <3>2, <3>3, <3>6 DEF StackInv
  <2> QED
    BY <2>1, <2>2
<1>5. CASE Finish
  <2> DEFINE s == AlignWindow(thread.window)
  <2>0. PICK n : n = s.window
    OBVIOUS
  <2>1. /\ pc = "align" /\ pc' = "done" /\ stack' = s.stack /\ UNCHANGED args
        /\ thread' = [thread EXCEPT !.window = n, !.pagemap = "maps",
                                    !.usp = @ - n, !.rsp = @ - n]
    BY <1>5, <2>0 DEF Finish, call
  <2>2. /\ n \in 0..S /\ w <= n /\ n % 4 = 0
        /\ s.stack = Copied(stack, S - n, S - w, w)
    BY <1>2, <2>0, <2>1, Aligned
  <2>3. /\ thread.usp = S /\ thread.rsp = S /\ DOMAIN stack = 0..(S - 1)
        /\ w >= 2 * L /\ Holds(S - w)
    BY <1>1, <1>2, <2>1 DEF CallInv, StackInv
  <2> HIDE DEF s
  <2>4. thread'.usp = S - n /\ thread'.rsp = S - n /\ thread'.pagemap = "maps"
    BY <1>0, <2>1, <2>3 DEF Threads
  <2>5. Words' = Words
    BY <2>1 DEF Words
  <2>6. (S - (S - n)) % 4 = 0 /\ (S - n) + 2 * L <= S
    <3>1. S - (S - n) = n
      BY <2>2
    <3> QED
      BY <2>2, <2>3, <3>1
  <2>7. ASSUME NEW k \in 1..L, NEW h \in 0..1
        PROVE  stack'[(S - n) + 2 * (k - 1) + h] = Half(Words[L - k + 1], h)
    <3> DEFINE a == (S - n) + 2 * (k - 1) + h
    <3>1. /\ a \in 0..(S - 1) /\ a \in (S - n)..((S - n) + w - 1)
          /\ (S - w) + (a - (S - n)) = (S - w) + 2 * (k - 1) + h
      BY <2>2, <2>3
    <3> HIDE DEF a
    <3>2. stack'[a] = stack[(S - w) + (a - (S - n))]
      BY <2>1, <2>2, <2>3, <3>1 DEF Copied
    <3>3. stack[(S - w) + 2 * (k - 1) + h] = Half(Words[L - k + 1], h)
      BY <1>1, <2>3 DEF Holds
    <3> QED
      BY <3>1, <3>2, <3>3 DEF a
  <2>8. Holds(S - n)'
    BY <1>1, <2>5, <2>7 DEF Holds, Half
  <2>9. Holds(thread.rsp)'
    BY <2>4, <2>8
  <2> QED
    BY <1>1, <1>2, <2>1, <2>4, <2>5, <2>6, <2>9 DEF StackInv
<1>6. CASE UNCHANGED vars
  <2>1. Words' = Words /\ UNCHANGED <<pc, stack, thread>>
    BY <1>6 DEF vars, Words
  <2> QED
    BY <2>1 DEF StackInv, Holds, Half
<1>7. CASE Ended
  BY <1>6, <1>7 DEF Ended
<1>8. CASE ReadHeader \/ Reject \/ ProgramHeader \/ Interpret \/ MakeThread
  <2>1. CASE ReadHeader
    BY <1>3, <2>1, Zenon DEF ReadHeader
  <2>2. CASE ProgramHeader
    BY <1>3, <2>2, HeaderStep
  <2> QED
    BY <1>3, <1>8, <2>1, <2>2 DEF Reject, Interpret, MakeThread
<1> QED
  BY <1>4, <1>5, <1>6, <1>7, <1>8 DEF Next

LEMMA StackAlways == Spec => []StackInv
<1>1. Init => StackInv
  BY DEF Init, StackInv
<1> QED
  BY <1>1, StackStep, CallAlways, PTL DEF Spec

\* The words, as the program finds them.
LEMMA WordsFound ==
    ASSUME CallInv, StackInv, pc = "done", NEW n \in {11, 13}, n = Len(Words), NEW k \in 1..n
    PROVE  /\ stack[thread.rsp + Word * (k - 1)] = <<Words[n - k + 1], 0>>
           /\ stack[thread.rsp + Word * (k - 1) + 1] = <<Words[n - k + 1], 1>>
<1>1. Holds(thread.rsp) /\ thread.rsp \in Int
  BY ElfAssumption DEF StackInv, CallInv, Threads
<1>2. Word = 2 /\ 0 \in 0..1 /\ 1 \in 0..1
  BY DEF Word, Cell
<1>3. /\ stack[thread.rsp + 2 * (k - 1) + 0] = <<Words[n - k + 1], 0>>
      /\ stack[thread.rsp + 2 * (k - 1) + 1] = <<Words[n - k + 1], 1>>
  BY <1>1, <1>2 DEF Holds, Half
<1>4. thread.rsp + 2 * (k - 1) + 0 = thread.rsp + 2 * (k - 1)
  BY <1>1
<1> QED
  BY <1>2, <1>3, <1>4

LEMMA ZeroSubSeq ==
    ASSUME NEW s, NEW m \in Int, NEW n \in Int, m <= n, \A k \in m..n : s[k] = 0,
           NEW t \in Seq({0}), Len(t) = n - m + 1
    PROVE  SubSeq(s, m, n) = t
<1> DEFINE r == SubSeq(s, m, n)
<1>1. \A k \in m..n : s[k] \in {0}
  OBVIOUS
<1>2. r \in Seq({0}) /\ Len(r) = n - m + 1
  BY <1>1, SubSeqProperties
<1> HIDE DEF r
<1>3. \A k \in 1..Len(r) : r[k] = t[k]
  BY <1>2
<1>4. r = t
  BY <1>2, <1>3, SeqEqual
<1> QED
  BY <1>4 DEF r

\* The thread starts on an aligned stack and finds argc, argv, envp and the
\* auxiliary vector whole, after memmove has moved them: for every old window
\* and every size of the stack they fit in.
THEOREM StackRightAlways == Spec => []StackRight
<1>1. CallInv /\ StackInv => StackRight
  <2> SUFFICES ASSUME CallInv, StackInv, pc = "done" PROVE StackRight
    BY DEF StackRight
  <2>1. WordsRight(Words)
    BY WordsAre DEF CallInv, TypeOK
  <2> DEFINE n == IF args.entry # 0 THEN 13 ELSE 11
  <2>2. n \in {11, 13} /\ n = Len(Words)
    BY <2>1 DEF WordsRight
  <2> HIDE DEF n
  <2>3. /\ thread.usp = thread.rsp /\ thread.pagemap = cr3
        /\ (StackSize - thread.rsp) % Align = 0 /\ thread.rsp + Word * n <= StackSize
    BY <2>2 DEF StackInv, CallInv, Align, Word, Cell
  <2>4. Whole(n)
    <3> SUFFICES ASSUME NEW k \in 1..n
                 PROVE  LET a == thread.rsp + Word * (k - 1)
                        IN  stack[a][2] = 0 /\ stack[a + 1] = Half(stack[a][1], 1)
      BY DEF Whole
    <3> DEFINE x == Words[n - k + 1]
    <3>1. /\ stack[thread.rsp + Word * (k - 1)] = <<x, 0>>
          /\ stack[thread.rsp + Word * (k - 1) + 1] = <<x, 1>>
      BY <2>2, WordsFound
    <3> HIDE DEF x
    <3> QED
      BY <3>1 DEF Half
  <2>5. ASSUME NEW k \in 1..n PROVE AtStart(n)[k] = Words[n - k + 1]
    <3> DEFINE x == Words[n - k + 1]
    <3>1. stack[thread.rsp + Word * (k - 1)] = <<x, 0>>
      BY <2>2, WordsFound
    <3> HIDE DEF x
    <3>2. AtStart(n)[k] = x
      BY <3>1 DEF AtStart
    <3> QED
      BY <3>2 DEF x
  <2>6. /\ AtStart(n)[1] = 0 /\ AtStart(n)[2] = 0 /\ AtStart(n)[3] = 0
        /\ AtStart(n)[n - 1] = 0 /\ AtStart(n)[n] = 0
    <3>1. /\ 1 \in 1..n /\ 2 \in 1..n /\ 3 \in 1..n /\ n - 1 \in 1..n /\ n \in 1..n
          /\ n - 1 + 1 = n /\ n - 2 + 1 = n - 1 /\ n - 3 + 1 = n - 2
          /\ n - (n - 1) + 1 = 2 /\ n - n + 1 = 1
      BY <2>2
    <3>2. Words[n] = 0 /\ Words[n - 1] = 0 /\ Words[n - 2] = 0 /\ Words[2] = 0 /\ Words[1] = 0
      BY <2>1, <2>2 DEF WordsRight
    <3> QED
      BY <2>5, <3>1, <3>2
  <2>7. SubSeq(AtStart(n), 1, 3) = <<0, 0, 0>>
    <3> DEFINE s == AtStart(n)
               t == <<0, 0, 0>>
    <3>1. t \in Seq({0}) /\ Len(t) = 3
      OBVIOUS
    <3>2. PICK a \in Int, b \in Int : a = 1 /\ b = 3
      OBVIOUS
    <3>3. /\ a <= b /\ Len(t) = b - a + 1
          /\ \A k \in a..b : s[k] = 0
      BY <2>6, <3>1, <3>2
    <3> HIDE DEF s, t
    <3>4. SubSeq(s, a, b) = t
      BY <3>1, <3>3, ZeroSubSeq, Zenon
    <3> QED
      BY <3>2, <3>4, Zenon DEF s, t
  <2>8. SubSeq(AtStart(n), n - 1, n) = <<0, 0>>
    <3> DEFINE s == AtStart(n)
               t == <<0, 0>>
    <3>1. t \in Seq({0}) /\ Len(t) = 2
      OBVIOUS
    <3>2. \A k \in (n - 1)..n : s[k] = 0
      BY <2>2, <2>6
    <3>3. n \in Int /\ n - 1 \in Int /\ n - 1 <= n /\ n - (n - 1) + 1 = 2
      BY <2>2
    <3> HIDE DEF s, t
    <3>4. Len(t) = n - (n - 1) + 1
      BY <3>1, <3>3
    <3>5. SubSeq(s, n - 1, n) = t
      BY <3>1, <3>2, <3>3, <3>4, ZeroSubSeq, Zenon
    <3> QED
      BY <3>5 DEF s, t
  <2> QED
    BY <2>3, <2>4, <2>7, <2>8 DEF StackRight, n
<1> QED
  BY <1>1, CallAlways, StackAlways, PTL
------------------------------------------------------------------------------
(* The auxiliary vector.                                                   *)

Upto(S, n) == {k \in S : k <= n}
LastPath(f) == Header(f).phdrs[Max(Interps(f))].path

\* The arguments of the inner call are those of the program.
Describes(f) ==
    /\ args.entry = Header(f).entry /\ args.phent = Header(f).phent
    /\ args.phnum = Len(Header(f).phdrs)
    /\ Phdrs(f) # {} => args.phdr = Header(f).phdrs[Max(Phdrs(f))].vaddr

\* The locals hold what the last header of their kind said; the inner call was
\* given the program, unless the interpreter has an interpreter.
AuxvInv ==
    /\ pc = "phdrs" =>
        /\ found <=> Upto(Interps(file), i) # {}
        /\ found => interp = Header(file).phdrs[Max(Upto(Interps(file), i))].path
        /\ Upto(Phdrs(file), i) # {} =>
              stored = base + Header(file).phdrs[Max(Upto(Phdrs(file), i))].vaddr
    /\ pc \in {"push", "align", "done"} =>
          Interps(file) = {} /\ thread.rip = base + Header(file).entry
    /\ base = InterpBase =>
          /\ Interps(first) # {}
          /\ \/ file = LastPath(first) /\ Describes(first)
             \/ LastPath(first) \in DOMAIN Files /\ Interps(LastPath(first)) # {}

LEMMA KindsAreHeaders ==
    ASSUME NEW f \in DOMAIN Files
    PROVE  /\ Interps(f) \subseteq Nat /\ Phdrs(f) \subseteq Nat
           /\ \A k \in Interps(f) \cup Phdrs(f) : k >= 1 /\ k <= Len(Header(f).phdrs)
           /\ Upto(Interps(f), 0) = {} /\ Upto(Phdrs(f), 0) = {}
           /\ Upto(Interps(f), Len(Header(f).phdrs)) = Interps(f)
           /\ Upto(Phdrs(f), Len(Header(f).phdrs)) = Phdrs(f)
<1>1. ASSUME NEW k \in Interps(f) \cup Phdrs(f)
      PROVE  k \in Nat /\ k >= 1 /\ k <= Len(Header(f).phdrs)
  <2>1. k \in DOMAIN Header(f).phdrs
    BY DEF Interps, Phdrs
  <2> QED
    BY <2>1, PhdrShape
<1>2. \A k \in Interps(f) \cup Phdrs(f) :
         k \in Nat /\ k >= 1 /\ k <= Len(Header(f).phdrs) /\ ~(k <= 0)
  BY <1>1
<1> QED
  BY <1>2 DEF Upto

\* One more header: the last of a kind is this one, or the one it was.
LEMMA UptoNext ==
    ASSUME NEW S \in SUBSET Nat, NEW n \in Nat
    PROVE  /\ n + 1 \in S => Upto(S, n + 1) # {} /\ Max(Upto(S, n + 1)) = n + 1
           /\ n + 1 \notin S => Upto(S, n + 1) = Upto(S, n)
<1>1. ASSUME n + 1 \in S PROVE Upto(S, n + 1) # {} /\ Max(Upto(S, n + 1)) = n + 1
  <2> DEFINE T == Upto(S, n + 1)
  <2>1. T \in SUBSET Int /\ n + 1 \in T /\ \A y \in T : y <= n + 1
    <3>1. T = {k \in S : k <= n + 1} /\ n + 1 <= n + 1 /\ S \in SUBSET Int
      BY DEF Upto
    <3> HIDE DEF T
    <3> QED
      BY <1>1, <3>1
  <2> HIDE DEF T
  <2>2. Max(T) = n + 1
    BY <2>1, MaxIs
  <2> QED
    BY <2>1, <2>2 DEF T
<1>2. ASSUME n + 1 \notin S PROVE Upto(S, n + 1) = Upto(S, n)
  <2>1. \A k \in S : k <= n + 1 <=> k <= n
    BY <1>2
  <2> QED
    BY <2>1 DEF Upto
<1> QED
  BY <1>1, <1>2

LEMMA AuxvStep == CallInv /\ ImageInv /\ AuxvInv /\ [Next]_vars => AuxvInv'
<1> SUFFICES ASSUME CallInv, ImageInv, AuxvInv, [Next]_vars PROVE AuxvInv'
  OBVIOUS
<1> DEFINE Locals ==
              /\ found <=> Upto(Interps(file), i) # {}
              /\ found => interp = Header(file).phdrs[Max(Upto(Interps(file), i))].path
              /\ Upto(Phdrs(file), i) # {} =>
                    stored = base + Header(file).phdrs[Max(Upto(Phdrs(file), i))].vaddr
           Given ==
              base = InterpBase =>
                /\ Interps(first) # {}
                /\ \/ file = LastPath(first) /\ Describes(first)
                   \/ LastPath(first) \in DOMAIN Files /\ Interps(LastPath(first)) # {}
           Begun == Interps(file) = {} /\ thread.rip = base + Header(file).entry
<1>0. /\ (pc = "phdrs" => Locals) /\ Given
      /\ (pc \in {"push", "align", "done"} => Begun)
  BY DEF AuxvInv
<1>a. /\ first \in DOMAIN Files /\ base \in {0, InterpBase} /\ i \in Nat
      /\ InterpBase \in Nat \ {0} /\ found \in BOOLEAN /\ thread \in Threads
  BY ElfAssumption DEF CallInv, TypeOK
<1>b. ASSUME (pc = "phdrs" => Locals)', Given', (pc \in {"push", "align", "done"} => Begun)'
      PROVE  AuxvInv'
  BY <1>b DEF AuxvInv
<1>c. ASSUME UNCHANGED <<first, file, base, args>> PROVE Given'
  <2>1. Interps(first)' = Interps(first)
    BY <1>c DEF Interps, Header
  <2>2. LastPath(first)' = LastPath(first)
    BY <1>c DEF LastPath, Interps, Header
  <2>3. Interps(LastPath(first))' = Interps(LastPath(first))
    BY <2>2 DEF Interps, Header
  <2>4. Describes(first)' <=> Describes(first)
    BY <1>c DEF Describes, Phdrs, Header
  <2>5. Given
    BY <1>0
  <2> QED
    BY <1>c, <2>1, <2>2, <2>3, <2>4, <2>5
<1> HIDE DEF Given
<1>1. CASE ReadHeader
  <2>1. UNCHANGED <<first, file, base, args>>
    BY <1>1 DEF ReadHeader, call
  <2>2. \/ pc' \in {"fault", "reject"}
        \/ pc' = "phdrs" /\ file \in DOMAIN Files /\ i' = 0 /\ found' = FALSE
    BY <1>1, Zenon DEF ReadHeader, CallInv, TypeOK
  <2>3. (pc = "phdrs" => Locals)'
    <3>1. CASE pc' # "phdrs"
      BY <3>1
    <3>2. CASE pc' = "phdrs"
      <4>1. file \in DOMAIN Files /\ i' = 0 /\ found' = FALSE
        BY <2>2, <3>2
      <4>2. Upto(Interps(file), 0) = {} /\ Upto(Phdrs(file), 0) = {}
        BY <4>1, KindsAreHeaders
      <4>3. (Upto(Interps(file), i) = {})' /\ (Upto(Phdrs(file), i) = {})'
        BY <2>1, <4>1, <4>2 DEF Upto, Interps, Phdrs, Header
      <4> QED
        BY <4>1, <4>3, Zenon
    <3> QED
      BY <3>1, <3>2
  <2> HIDE DEF Locals, Begun
  <2> QED
    BY <1>b, <1>c, <2>1, <2>2, <2>3
<1>2. CASE Reject
  <2> HIDE DEF Locals, Begun
  <2> QED
    BY <1>2, <1>b, <1>c DEF Reject, call
<1>3. CASE ProgramHeader
  <2> DEFINE n == i + 1
             p == Header(file).phdrs[n]
  <2>1. /\ pc = "phdrs" /\ pc' = "phdrs" /\ i' = n /\ n \in DOMAIN Header(file).phdrs
        /\ file \in DOMAIN Files /\ UNCHANGED <<first, file, base, args>>
    BY <1>3, HeaderStep
  <2>2. Locals
    BY <1>0, <2>1
  <2>3. Interps(file) \in SUBSET Nat /\ Phdrs(file) \in SUBSET Nat
    BY <2>1, KindsAreHeaders
  <2>4. /\ (n \in Interps(file) <=> p.type = PT_INTERP)
        /\ (n \in Phdrs(file) <=> p.type = PT_PHDR)
    BY <2>1 DEF Interps, Phdrs
  <2>5. /\ found' = (found \/ p.type = PT_INTERP)
        /\ interp' = IF p.type = PT_INTERP THEN p.path ELSE interp
        /\ stored' = IF p.type = PT_PHDR THEN base + p.vaddr ELSE stored
    <3>1. CASE OtherHeader(n, p)
      BY <3>1 DEF OtherHeader
    <3>2. CASE ~OtherHeader(n, p)
      <4>1. p.type = PT_LOAD /\ UNCHANGED <<stored, interp, found>>
        BY <1>3, <3>2, HeaderStep
      <4>2. p.type # PT_INTERP /\ p.type # PT_PHDR
        BY <4>1 DEF PT_LOAD, PT_INTERP, PT_PHDR
      <4>3. found' = (found \/ p.type = PT_INTERP)
        BY <1>a, <4>1, <4>2, Zenon
      <4> QED
        BY <4>1, <4>2, <4>3
    <3> QED
      BY <3>1, <3>2
  <2> DEFINE A == Upto(Interps(file), n)
             B == Upto(Phdrs(file), n)
  <2>6. /\ found' <=> A # {}
        /\ found' => interp' = Header(file).phdrs[Max(A)].path
    <3>1. CASE p.type = PT_INTERP
      <4>1. A # {} /\ Max(A) = n
        BY <1>a, <2>3, <2>4, <3>1, UptoNext
      <4> HIDE DEF A
      <4>2. interp' = p.path
        BY <2>5, <3>1
      <4>3. found'
        BY <2>5, <3>1, Zenon
      <4> QED
        BY <4>1, <4>2, <4>3
    <3>2. CASE p.type # PT_INTERP
      <4>1. A = Upto(Interps(file), i)
        BY <1>a, <2>3, <2>4, <3>2, UptoNext
      <4> HIDE DEF A
      <4>2. interp' = interp
        BY <2>5, <3>2
      <4>3. found' <=> found
        BY <1>a, <2>5, <3>2, Zenon
      <4> QED
        BY <2>2, <4>1, <4>2, <4>3
    <3> QED
      BY <3>1, <3>2
  <2>7. B # {} => stored' = base + Header(file).phdrs[Max(B)].vaddr
    <3>1. CASE p.type = PT_PHDR
      <4>1. Max(B) = n
        BY <1>a, <2>3, <2>4, <3>1, UptoNext
      <4> HIDE DEF B
      <4> QED
        BY <2>5, <3>1, <4>1
    <3>2. CASE p.type # PT_PHDR
      <4>1. B = Upto(Phdrs(file), i)
        BY <1>a, <2>3, <2>4, <3>2, UptoNext
      <4> HIDE DEF B
      <4> QED
        BY <2>2, <2>5, <3>2, <4>1
    <3> QED
      BY <3>1, <3>2
  <2>8. /\ Interps(file)' = Interps(file) /\ Phdrs(file)' = Phdrs(file)
        /\ Header(file)' = Header(file)
    BY <2>1 DEF Interps, Phdrs, Header
  <2>9. Upto(Interps(file), i)' = A /\ Upto(Phdrs(file), i)' = B
    BY <2>1, <2>8 DEF Upto
  <2> HIDE DEF A, B
  <2>10. Locals'
    BY <2>1, <2>6, <2>7, <2>8, <2>9
  <2> HIDE DEF Locals, Begun
  <2> QED
    BY <1>b, <1>c, <2>1, <2>10
<1>4. ASSUME pc = "phdrs", i = Len(Header(file).phdrs)
      PROVE  /\ file \in DOMAIN Files
             /\ found <=> Interps(file) # {}
             /\ found => interp = LastPath(file)
             /\ Phdrs(file) # {} => stored = base + Header(file).phdrs[Max(Phdrs(file))].vaddr
  <2>1. file \in DOMAIN Files
    BY <1>4 DEF CallInv
  <2>2. Upto(Interps(file), i) = Interps(file) /\ Upto(Phdrs(file), i) = Phdrs(file)
    BY <1>4, <2>1, KindsAreHeaders
  <2> QED
    BY <1>0, <1>4, <2>1, <2>2 DEF LastPath
<1>5. CASE Interpret
  <2>1. /\ pc = "phdrs" /\ i = Len(Header(file).phdrs) /\ found
        /\ pc' = "header" /\ file' = interp /\ base' = InterpBase
        /\ args' = [entry |-> base + Header(file).entry, phdr |-> stored,
                    phent |-> Header(file).phent, phnum |-> Len(Header(file).phdrs)]
        /\ UNCHANGED first
    BY <1>5 DEF Interpret
  <2>2. file \in DOMAIN Files /\ Interps(file) # {} /\ interp = LastPath(file)
    BY <1>4, <2>1
  <2>3. CASE base = 0
    <3>1. file = first
      BY <2>3 DEF ImageInv
    <3>2. Header(first).entry \in Nat
      BY <1>a, HeaderShape
    <3>3. args'.entry = Header(first).entry
      <4>1. args'.entry = 0 + Header(first).entry
        BY <2>1, <2>3, <3>1
      <4> QED
        BY <3>2, <4>1
    <3>4. Phdrs(first) # {} => args'.phdr = Header(first).phdrs[Max(Phdrs(first))].vaddr
      <4> SUFFICES ASSUME Phdrs(first) # {}
                   PROVE  args'.phdr = Header(first).phdrs[Max(Phdrs(first))].vaddr
        OBVIOUS
      <4> DEFINE l == Max(Phdrs(first))
                 v == Header(first).phdrs[l].vaddr
      <4>1. args'.phdr = 0 + v
        BY <1>4, <2>1, <2>3, <3>1
      <4>2. l \in Phdrs(first)
        <5> DEFINE m == Len(Header(first).phdrs)
        <5>1. m \in Nat
          BY <1>a, HeaderShape
        <5>2. Phdrs(first) \in SUBSET (1..m)
          <6>1. \A k \in Phdrs(first) : k \in Nat /\ k >= 1 /\ k <= m
            BY <1>a, KindsAreHeaders
          <6> HIDE DEF m
          <6> QED
            BY <5>1, <6>1
        <5> HIDE DEF m
        <5> QED
          BY <5>1, <5>2, MaxOfIndices
      <4>3. v \in Nat
        BY <1>a, <4>2, PhdrShape DEF Phdrs
      <4> HIDE DEF v
      <4>4. 0 + v = v
        BY <4>3
      <4> QED
        BY <4>1, <4>4 DEF v
    <3>5. args'.phent = Header(first).phent /\ args'.phnum = Len(Header(first).phdrs)
      BY <2>1, <3>1
    <3>6. Describes(first)'
      BY <2>1, <3>3, <3>4, <3>5 DEF Describes, Header, Phdrs
    <3>7. (file = LastPath(first))' /\ (Interps(first) # {})'
      BY <2>1, <2>2, <3>1 DEF LastPath, Header, Interps
    <3>8. Given'
      BY <3>6, <3>7 DEF Given
    <3> HIDE DEF Locals, Begun
    <3> QED
      BY <1>b, <2>1, <3>8
  <2>4. CASE base = InterpBase
    <3>1. Interps(first) # {} /\ LastPath(first) \in DOMAIN Files /\ Interps(LastPath(first)) # {}
      BY <1>0, <2>2, <2>4 DEF Given
    <3>2. Given'
      BY <2>1, <3>1 DEF Given, LastPath, Header, Interps
    <3> HIDE DEF Locals, Begun
    <3> QED
      BY <1>b, <2>1, <3>2
  <2> QED
    BY <1>a, <2>3, <2>4
<1>6. CASE MakeThread
  <2>1. /\ pc = "phdrs" /\ i = Len(Header(file).phdrs) /\ ~found /\ pc' = "push"
        /\ thread'.rip = base + Header(file).entry /\ UNCHANGED <<first, file, base, args>>
    BY <1>6 DEF MakeThread, call
  <2>2. Interps(file) = {}
    BY <1>4, <2>1
  <2>3. Begun'
    BY <2>1, <2>2 DEF Interps, Header
  <2> HIDE DEF Locals, Begun
  <2> QED
    BY <1>b, <1>c, <2>1, <2>3
<1>7. CASE Push \/ Finish
  <2>1. /\ pc \in {"push", "align"} /\ pc' \in {"fault", "align", "done"}
        /\ UNCHANGED <<first, file, base, args>>
    BY <1>7, Zenon DEF Push, Finish, call
  <2>2. thread'.rip = thread.rip
    <3>1. CASE Push
      BY <1>a, <3>1 DEF Push, Threads
    <3>2. CASE Finish
      BY <1>a, <3>2 DEF Finish, Threads
    <3> QED
      BY <1>7, <3>1, <3>2
  <2>3. Begun'
    BY <1>0, <2>1, <2>2 DEF Interps, Header
  <2> HIDE DEF Locals, Begun
  <2> QED
    BY <1>b, <1>c, <2>1, <2>3
<1>8. CASE UNCHANGED vars
  <2>1. UNCHANGED <<first, file, base, args, pc, i, found, interp, stored, thread>>
    BY <1>8 DEF vars
  <2>2. /\ Interps(file)' = Interps(file) /\ Phdrs(file)' = Phdrs(file)
        /\ Header(file)' = Header(file)
    BY <2>1 DEF Interps, Phdrs, Header
  <2>3. /\ Upto(Interps(file), i)' = Upto(Interps(file), i)
        /\ Upto(Phdrs(file), i)' = Upto(Phdrs(file), i)
    BY <2>1, <2>2 DEF Upto
  <2>4. Locals' <=> Locals
    BY <2>1, <2>2, <2>3
  <2>5. Begun' <=> Begun
    BY <2>1, <2>2
  <2> HIDE DEF Locals, Begun
  <2> QED
    BY <1>0, <1>b, <1>c, <2>1, <2>4, <2>5
<1>9. CASE Ended
  BY <1>8, <1>9 DEF Ended
<1> QED
  BY <1>1, <1>2, <1>3, <1>5, <1>6, <1>7, <1>8, <1>9 DEF Next

\* A program with an interpreter starts in the interpreter, which finds the
\* program's entry and program headers in the auxiliary vector: for every
\* program, every interpreter and every order of the program headers.
THEOREM AuxvDescribesProgramAlways == Spec => []AuxvDescribesProgram
<1>1. Spec => []AuxvInv
  <2>1. Init => AuxvInv
    BY ElfAssumption DEF Init, AuxvInv
  <2> QED
    BY <2>1, AuxvStep, CallAlways, ImageAlways, PTL DEF Spec
<1>2. CallInv /\ ImageInv /\ StackInv /\ AuxvInv => AuxvDescribesProgram
  <2> DEFINE h == Header(first)
  <2> SUFFICES ASSUME CallInv, ImageInv, StackInv, AuxvInv, pc = "done",
                      Interps(first) # {}, Interps(file) = {}, LastPath(first) = file,
                      file # first, h.entry # 0
               PROVE  /\ thread.rip = InterpBase + Header(file).entry
                      /\ Auxv(9) = h.entry
                      /\ Auxv(4) = h.phent /\ Auxv(5) = Len(h.phdrs)
                      /\ Phdrs(first) # {} => Auxv(3) = h.phdrs[Max(Phdrs(first))].vaddr
    BY DEF AuxvDescribesProgram, LastPath
  <2>1. base = InterpBase
    BY DEF ImageInv, CallInv, TypeOK
  <2>2. thread.rip = InterpBase + Header(file).entry
    BY <2>1 DEF AuxvInv
  <2>3. Describes(first)
    BY <2>1 DEF AuxvInv
  <2>4. WordsRight(Words)
    BY WordsAre DEF CallInv, TypeOK
  <2>5. args.entry # 0
    BY <2>3 DEF Describes
  <2>6. /\ Len(Words) = 13 /\ Words[2] = 0 /\ Words[3] = args.entry /\ Words[4] = 9
        /\ Words[5] = args.phdr /\ Words[6] = 3 /\ Words[7] = args.phent /\ Words[8] = 4
        /\ Words[9] = args.phnum /\ Words[10] = 5
    BY <2>4, <2>5 DEF WordsRight
  <2>7. ASSUME NEW n \in {12, 13}, NEW k \in 1..n PROVE AtStart(n)[k] = Words[14 - k]
    <3>1. k \in 1..13 /\ 13 - k + 1 = 14 - k
      OBVIOUS
    <3> DEFINE x == Words[14 - k]
    <3>2. stack[thread.rsp + Word * (k - 1)] = <<x, 0>>
      BY <2>6, <3>1, WordsFound
    <3> HIDE DEF x
    <3>3. AtStart(n)[k] = x
      BY <3>2 DEF AtStart
    <3> QED
      BY <3>3 DEF x
  <2> DEFINE types == [k \in 2..6 |-> AtStart(12)[2 * k]]
  <2>8. types[2] = 5 /\ types[3] = 4 /\ types[4] = 3 /\ types[5] = 9 /\ types[6] = 0
    BY <2>6, <2>7
  <2>9. ASSUME NEW k \in 2..5 PROVE Auxv(types[k]) = Words[13 - 2 * k]
    <3>1. {l \in 2..6 : AtStart(12)[2 * l] = types[k]} = {l \in 2..6 : types[l] = types[k]}
      OBVIOUS
    <3> HIDE DEF types
    <3>2. \A l \in 2..6 : types[l] = types[k] => l = k
      BY <2>8
    <3>3. {l \in 2..6 : types[l] = types[k]} = {k}
      BY <3>2
    <3>4. Auxv(types[k]) = AtStart(13)[2 * k + 1]
      BY <3>1, <3>3, MinOfOne DEF Auxv
    <3>5. 2 * k + 1 \in 1..13 /\ 14 - (2 * k + 1) = 13 - 2 * k
      OBVIOUS
    <3> QED
      BY <2>7, <3>4, <3>5
  <2> HIDE DEF types
  <2>10. /\ Auxv(5) = Words[9] /\ Auxv(4) = Words[7] /\ Auxv(3) = Words[5] /\ Auxv(9) = Words[3]
    <3>1. Auxv(types[2]) = Words[9]
      BY <2>9
    <3>2. Auxv(types[3]) = Words[7]
      BY <2>9
    <3>3. Auxv(types[4]) = Words[5]
      BY <2>9
    <3>4. Auxv(types[5]) = Words[3]
      BY <2>9
    <3> QED
      BY <2>8, <3>1, <3>2, <3>3, <3>4
  <2> QED
    BY <2>2, <2>3, <2>6, <2>10 DEF Describes
<1> QED
  BY <1>1, <1>2, CallAlways, ImageAlways, StackAlways, PTL
==============================================================================

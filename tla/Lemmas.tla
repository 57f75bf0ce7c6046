--------------------------------- MODULE Lemmas ---------------------------------
(***************************************************************************)
(* Facts about numbers, sets of numbers and lists that the proofs share.   *)
(***************************************************************************)
EXTENDS Integers, SequencesExt, SequenceTheorems, WellFoundedInduction, TLAPS

\* A set of naturals has a least element.
LEMMA LeastNat ==
    ASSUME NEW T, T \subseteq Nat, T # {}
    PROVE  \E x \in T : \A y \in T : x <= y
<1>1. PICK R : IsWellFoundedOn(R, Nat) /\ \A x, y \in Nat : y < x => <<y, x>> \in R
  <2> DEFINE R == OpToRel(<, Nat)
  <2>1. IsWellFoundedOn(R, Nat)
    BY NatLessThanWellFounded
  <2>2. ASSUME NEW x \in Nat, NEW y \in Nat, y < x PROVE <<y, x>> \in R
    BY <2>2 DEF OpToRel
  <2> HIDE DEF R
  <2> QED
    BY <2>1, <2>2
<1>2. PICK x \in T : \A y \in T : ~ (<<y, x>> \in R)
  BY <1>1, WFMin
<1>3. ASSUME NEW y \in T PROVE x <= y
  <2>1. x \in Nat /\ y \in Nat /\ (y < x => <<y, x>> \in R) /\ ~ (<<y, x>> \in R)
    BY <1>1, <1>2
  <2> QED
    BY <2>1
<1> QED
  BY <1>3

\* Induction, for a set that is given as one.
LEMMA SetInduction ==
    ASSUME NEW S, 0 \in S, \A n \in Nat : n \in S => n + 1 \in S
    PROVE  \A n \in Nat : n \in S
<1> SUFFICES ASSUME NEW k \in Nat, k \notin S PROVE FALSE
  OBVIOUS
<1> DEFINE T == {n \in Nat : n \notin S}
<1>1. T \subseteq Nat /\ T # {}
  OBVIOUS
<1>2. PICK x \in T : \A y \in T : x <= y
  BY <1>1, LeastNat
<1>3. x \in Nat /\ x # 0 /\ x - 1 \in Nat /\ (x - 1) + 1 = x
  OBVIOUS
<1>4. x - 1 \notin T
  <2>1. ~(x <= x - 1)
    BY <1>3
  <2> QED
    BY <1>2, <2>1
<1> QED
  BY <1>3, <1>4
------------------------------------------------------------------------------
(* Max and Min.                                                            *)

\* The largest of a set is the element no other exceeds.
LEMMA MaxIs ==
    ASSUME NEW S \in SUBSET Int, NEW x \in S, \A y \in S : y <= x
    PROVE  Max(S) = x
<1>1. \A z \in S : (\A y \in S : z >= y) => z = x
  BY SMT
<1>2. \A y \in S : x >= y
  BY SMT
<1>3. Max(S) \in S /\ \A y \in S : Max(S) >= y
  BY <1>2, Zenon DEF Max
<1> QED
  BY <1>1, <1>3, Zenon

LEMMA MaxOfOne == ASSUME NEW v \in Int PROVE Max({v}) = v
<1>1. {v} \in SUBSET Int /\ v \in {v} /\ \A y \in {v} : y <= v
  OBVIOUS
<1> QED
  BY <1>1, MaxIs

\* The last of some indices is one of them.
LEMMA MaxOfIndices ==
    ASSUME NEW n \in Nat, NEW S \in SUBSET (1..n), S # {}
    PROVE  Max(S) \in S /\ \A y \in S : y <= Max(S)
<1> DEFINE T == {n - x : x \in S}
<1>1. T \subseteq Nat /\ T # {}
  <2>1. \A x \in S : n - x \in Nat
    BY SMT
  <2>2. T # {}
    BY Zenon
  <2> QED
    BY <2>1, <2>2
<1>2. PICK d \in T : \A y \in T : d <= y
  BY <1>1, LeastNat
<1>3. PICK x \in S : d = n - x
  OBVIOUS
<1>4. \A y \in S : y <= x
  <2> TAKE y \in S
  <2>1. d <= n - y
    BY <1>2
  <2> QED
    BY <1>3, <2>1
<1>5. S \in SUBSET Int
  BY SMT
<1>6. Max(S) = x
  BY <1>4, <1>5, MaxIs
<1> QED
  BY <1>4, <1>6

\* The least of a set of naturals is in it.
LEMMA MinInSet ==
    ASSUME NEW S \in SUBSET Nat, S # {}
    PROVE  Min(S) \in S /\ \A y \in S : Min(S) <= y
<1>1. \E x \in S : \A y \in S : x <= y
  BY LeastNat
<1> QED
  BY <1>1, Zenon DEF Min

LEMMA MinOfOne == ASSUME NEW v \in Nat PROVE Min({v}) = v
<1>1. {v} \in SUBSET Nat /\ {v} # {}
  OBVIOUS
<1>2. Min({v}) \in {v}
  BY <1>1, MinInSet
<1> QED
  BY <1>2
------------------------------------------------------------------------------
(* Division.                                                               *)

LEMMA MulMono == \A a, b, c \in Nat : a <= b => a * c <= b * c
  BY SMT

LEMMA DivBounds ==
    ASSUME NEW a \in Nat, NEW r \in Nat \ {0}
    PROVE  a \div r \in Nat /\ (a \div r) * r <= a /\ a < (a \div r + 1) * r
  BY SMT

\* Division takes a multiplication back.
LEMMA DivBack ==
    ASSUME NEW a \in Nat, NEW r \in Nat \ {0}
    PROVE  (a * r) \div r = a
<1>1. a * r \in Nat
  BY SMT
<1>2. PICK q \in Nat : q = (a * r) \div r /\ q * r <= a * r /\ a * r < (q + 1) * r
  BY <1>1, DivBounds
<1>3. ~(q + 1 <= a)
  <2>1. q + 1 <= a => (q + 1) * r <= a * r
    BY MulMono
  <2>2. (q + 1) * r \in Int /\ a * r \in Int
    BY SMT
  <2> HIDE <1>1
  <2> QED
    BY <1>2, <2>1, <2>2
<1>4. ~(a + 1 <= q)
  <2>1. a + 1 <= q => (a + 1) * r <= q * r
    BY MulMono
  <2>2. (a + 1) * r = a * r + r
    BY SMT
  <2>3. a * r \in Int /\ q * r \in Int
    BY SMT
  <2> QED
    BY <1>2, <2>1, <2>2, <2>3
<1> QED
  BY <1>2, <1>3, <1>4

LEMMA DivMod ==
    ASSUME NEW a \in Int, NEW r \in Nat \ {0}
    PROVE  a \div r \in Int /\ a % r \in 0..(r - 1) /\ a = r * (a \div r) + (a % r)
  BY SMT

LEMMA DivUnique ==
    ASSUME NEW r \in Nat \ {0}, NEW q \in Int, NEW c \in 0..(r - 1)
    PROVE  (r * q + c) \div r = q /\ (r * q + c) % r = c
  BY SMT

\* Two divisions are one.
LEMMA DivDiv ==
    ASSUME NEW v \in Nat, NEW a \in Nat \ {0}, NEW b \in Nat \ {0}
    PROVE  (v \div a) \div b = v \div (a * b)
<1>1. PICK q \in Nat, r \in 0..(a - 1) : q = v \div a /\ v = a * q + r
  <2>1. v \div a \in Nat /\ v % a \in 0..(a - 1) /\ v = a * (v \div a) + (v % a)
    BY DivMod, DivBounds
  <2> QED
    BY <2>1
<1>2. PICK p \in Nat, x \in 0..(b - 1) : p = q \div b /\ q = b * p + x
  <2>1. q \div b \in Nat
    BY ONLY q \in Nat, b \in Nat \ {0}, DivBounds
  <2>2. q % b \in 0..(b - 1) /\ q = b * (q \div b) + (q % b)
    BY ONLY q \in Int, b \in Nat \ {0}, DivMod
  <2> QED
    BY <2>1, <2>2
<1>3. v = (a * b) * p + (a * x + r)
  BY <1>1, <1>2
<1>4. PICK d \in Nat \ {0} : d = a * b
  BY SMT
<1>5. a * x + r \in 0..(d - 1)
  <2>1. PICK y \in Nat : y = a * x /\ y + a <= d
    <3>1. x + 1 <= b /\ x + 1 \in Nat
      OBVIOUS
    <3>2. (x + 1) * a <= b * a
      BY <3>1, MulMono
    <3>3. (x + 1) * a = a * x + a /\ b * a = a * b /\ a * x \in Nat
      BY SMT
    <3> QED
      BY <1>4, <3>2, <3>3
  <2> QED
    BY <2>1
<1>6. PICK z \in 0..(d - 1) : z = a * x + r
  BY <1>5
<1>7. (d * p + z) \div d = p
  BY DivUnique
<1> QED
  BY <1>1, <1>2, <1>3, <1>4, <1>6, <1>7

LEMMA DivMono ==
    ASSUME NEW r \in Nat \ {0}, NEW a \in Int, NEW b \in Int, a <= b
    PROVE  a \div r <= b \div r
  BY SMT
------------------------------------------------------------------------------
(* Lists without duplicates.                                               *)

\* What is left of a list when its first element is taken.
LEMMA TailInjective ==
    ASSUME NEW S, NEW s \in Seq(S), s # <<>>, IsInjective(s)
    PROVE  /\ Head(s) \in S /\ Head(s) \in ToSet(s)
           /\ Tail(s) \in Seq(S) /\ IsInjective(Tail(s))
           /\ ToSet(Tail(s)) = ToSet(s) \ {Head(s)}
<1>1. /\ Len(s) \in Nat \ {0} /\ DOMAIN s = 1..Len(s)
      /\ Head(s) = s[1] /\ Tail(s) \in Seq(S)
      /\ DOMAIN Tail(s) = 1..(Len(s) - 1)
      /\ \A i \in 1..(Len(s) - 1) : Tail(s)[i] = s[i + 1]
  OBVIOUS
<1>2. Head(s) \in S /\ Head(s) \in ToSet(s)
  BY <1>1 DEF ToSet
<1>3. IsInjective(Tail(s))
  BY <1>1 DEF IsInjective
<1>4. ASSUME NEW x \in ToSet(Tail(s)) PROVE x \in ToSet(s) \ {Head(s)}
  BY <1>1, <1>4 DEF ToSet, IsInjective
<1>5. ASSUME NEW x \in ToSet(s), x # Head(s) PROVE x \in ToSet(Tail(s))
  <2>1. PICK i \in 1..Len(s) : x = s[i]
    BY <1>1 DEF ToSet
  <2>2. i # 1 /\ i - 1 \in 1..(Len(s) - 1) /\ Tail(s)[i - 1] = x
    BY <1>1, <1>5, <2>1
  <2> QED
    BY <1>1, <2>2 DEF ToSet
<1> QED
  BY <1>1, <1>2, <1>3, <1>4, <1>5

\* Two lists without a common element, one behind the other.
LEMMA ConcatInjective ==
    ASSUME NEW S, NEW s \in Seq(S), NEW t \in Seq(S),
           IsInjective(s), IsInjective(t), ToSet(s) \cap ToSet(t) = {}
    PROVE  /\ s \o t \in Seq(S) /\ IsInjective(s \o t)
           /\ ToSet(s \o t) = ToSet(s) \cup ToSet(t)
<1> DEFINE u == s \o t
<1>1. /\ Len(s) \in Nat /\ DOMAIN s = 1..Len(s)
      /\ Len(t) \in Nat /\ DOMAIN t = 1..Len(t)
      /\ u \in Seq(S) /\ DOMAIN u = 1..(Len(s) + Len(t))
      /\ \A i \in 1..Len(s) : u[i] = s[i]
      /\ \A i \in 1..Len(t) : u[Len(s) + i] = t[i]
  OBVIOUS
<1>2. \A i \in DOMAIN u : \/ i \in DOMAIN s /\ u[i] = s[i]
                          \/ i - Len(s) \in DOMAIN t /\ u[i] = t[i - Len(s)]
  <2> SUFFICES ASSUME NEW i \in DOMAIN u, i \notin DOMAIN s
               PROVE  i - Len(s) \in DOMAIN t /\ u[i] = t[i - Len(s)]
    BY <1>1
  <2>1. i - Len(s) \in 1..Len(t) /\ i = Len(s) + (i - Len(s))
    BY <1>1
  <2> QED
    BY <1>1, <2>1
<1> HIDE DEF u
<1>3. ASSUME NEW i \in DOMAIN u, NEW j \in DOMAIN u, u[i] = u[j] PROVE i = j
  <2>1. CASE i \in DOMAIN s /\ j \in DOMAIN s
    BY <1>1, <1>3, <2>1 DEF IsInjective
  <2>2. CASE i \notin DOMAIN s /\ j \notin DOMAIN s
    BY <1>1, <1>2, <1>3, <2>2 DEF IsInjective
  <2>3. CASE i \in DOMAIN s /\ j \notin DOMAIN s
    <3>1. u[i] \in ToSet(s)
      BY <1>1, <2>3 DEF ToSet
    <3>2. u[j] \in ToSet(t)
      BY <1>2, <2>3 DEF ToSet
    <3> QED
      BY <1>3, <3>1, <3>2
  <2>4. CASE i \notin DOMAIN s /\ j \in DOMAIN s
    <3>1. u[j] \in ToSet(s)
      BY <1>1, <2>4 DEF ToSet
    <3>2. u[i] \in ToSet(t)
      BY <1>2, <2>4 DEF ToSet
    <3> QED
      BY <1>3, <3>1, <3>2
  <2> QED
    BY <2>1, <2>2, <2>3, <2>4
<1>4. ToSet(u) \subseteq ToSet(s) \cup ToSet(t)
  BY <1>2 DEF ToSet
<1>5. ToSet(s) \subseteq ToSet(u)
  BY <1>1 DEF ToSet
<1>6. ToSet(t) \subseteq ToSet(u)
  <2> SUFFICES ASSUME NEW i \in 1..Len(t) PROVE t[i] \in ToSet(u)
    BY <1>1 DEF ToSet
  <2>1. Len(s) + i \in DOMAIN u /\ u[Len(s) + i] = t[i]
    BY <1>1
  <2> QED
    BY <2>1 DEF ToSet
<1> QED
  BY <1>1, <1>3, <1>4, <1>5, <1>6 DEF IsInjective, u

\* A list of one element.
LEMMA Singleton ==
    ASSUME NEW S, NEW x \in S
    PROVE  <<x>> \in Seq(S) /\ IsInjective(<<x>>) /\ ToSet(<<x>>) = {x}
  BY DEF IsInjective, ToSet

\* Append is concatenation with one element.
LEMMA AppendInjectiveList ==
    ASSUME NEW S, NEW s \in Seq(S), NEW x \in S, IsInjective(s), x \notin ToSet(s)
    PROVE  /\ Append(s, x) \in Seq(S) /\ IsInjective(Append(s, x))
           /\ ToSet(Append(s, x)) = ToSet(s) \cup {x}
<1> DEFINE t == <<x>>
<1>1. Append(s, x) = s \o t
  BY AppendIsConcat
<1>2. t \in Seq(S) /\ IsInjective(t) /\ ToSet(t) = {x}
  BY Singleton
<1> HIDE DEF t
<1>3. ToSet(s) \cap ToSet(t) = {}
  BY <1>2
<1>4. s \o t \in Seq(S) /\ IsInjective(s \o t) /\ ToSet(s \o t) = ToSet(s) \cup ToSet(t)
  BY <1>2, <1>3, ConcatInjective
<1> QED
  BY <1>1, <1>2, <1>4
==============================================================================

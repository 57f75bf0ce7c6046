---------------------------- MODULE KeyboardProofs ----------------------------
(***************************************************************************)
(* For every size of events[], every set of scan codes of set 1 and every  *)
(* number of keys: the unlocked event stack stays within its bounds, the   *)
(* decoder stays in step with the keyboard, every key yields its events    *)
(* once, and without a race no event is lost, shown twice or mixed.        *)
(***************************************************************************)
EXTENDS Keyboard, TLAPS

\* One interrupt pushes no event, one, or two.
LEMMA DecodePushes ==
    \A buf : \A r \in Decode(buf) : Len(r.evs) \in 0..2 /\ (r.evs # <<>> => Len(r.evs) > 0)
<1> SUFFICES ASSUME NEW buf, NEW r \in Decode(buf)
             PROVE  Len(r.evs) \in 0..2 /\ (r.evs # <<>> => Len(r.evs) > 0)
  OBVIOUS
<1>1. \/ r.evs = <<>>
      \/ \E a : r.evs = <<a>>
      \/ \E a, b : r.evs = <<a, b>>
  <2>1. CASE buf[1] = 224
    <3>1. r = DecodeE0(buf)
      BY <2>1 DEF Decode
    <3>2. ASSUME NEW w, NEW b
          PROVE  DecodePrintScreen(buf, w, b).evs = <<>>
                 \/ \E a : DecodePrintScreen(buf, w, b).evs = <<a>>
      BY DEF DecodePrintScreen, Wait
    <3>3. DecodeE0(buf).evs = <<>> \/ \E a : DecodeE0(buf).evs = <<a>>
      <4>1. CASE Len(buf) = 1
        BY <4>1 DEF DecodeE0, Wait
      <4>2. CASE Len(buf) # 1 /\ buf[2] = 42
        <5>1. DecodeE0(buf) = DecodePrintScreen(buf, PrintScreenMake, FALSE)
          BY <4>2 DEF DecodeE0
        <5> QED
          BY <3>2, <5>1, Zenon
      <4>3. CASE Len(buf) # 1 /\ buf[2] = 183
        <5>1. DecodeE0(buf) = DecodePrintScreen(buf, PrintScreenBreak, TRUE)
          BY <4>3 DEF DecodeE0
        <5> QED
          BY <3>2, <5>1, Zenon
      <4>4. CASE Len(buf) # 1 /\ buf[2] # 42 /\ buf[2] # 183
        BY <4>4 DEF DecodeE0
      <4> QED
        BY <4>1, <4>2, <4>3, <4>4
    <3> QED
      BY <3>1, <3>3
  <2>2. CASE buf[1] = 225
    <3>1. r = DecodeE1(buf)
      BY <2>2 DEF Decode
    <3>2. DecodeE1(buf) = Wait \/ \E n, a, b : DecodeE1(buf) = [used |-> n, evs |-> <<a, b>>]
      BY DEF DecodeE1
    <3> QED
      BY <3>1, <3>2 DEF Wait
  <2>3. CASE buf[1] # 224 /\ buf[1] # 225
    BY <2>3 DEF Decode, DecodeByte
  <2> QED
    BY <2>1, <2>2, <2>3
<1>2. CASE r.evs = <<>>
  BY <1>2
<1>3. ASSUME NEW a, r.evs = <<a>> PROVE Len(r.evs) = 1
  BY <1>3
<1>4. ASSUME NEW a, NEW b, r.evs = <<a, b>> PROVE Len(r.evs) = 2
  BY <1>4
<1> QED
  BY <1>1, <1>2, <1>3, <1>4

\* The stack is empty and the thread tests it first.
LEMMA InitCountInv == Init => CountInv
  BY KeyboardAssumption DEF Init, CountInv

\* Interrupts and the thread's steps keep the counter and its copies in range.
LEMMA NextCountInv == CountInv /\ [Next]_vars => CountInv'
<1> SUFFICES ASSUME CountInv, [Next]_vars PROVE CountInv'
  OBVIOUS
<1> USE KeyboardAssumption DEF CountInv, threadVars, KAt, others
<1>1. CASE SendKey
  BY <1>1 DEF SendKey
<1>2. CASE Ps2Handler
  <2>1. /\ UNCHANGED <<pc, count, index>>
        /\ \/ UNCHANGED event_count
           \/ \E buf : \E r \in Decode(buf) :
                Room(r.evs) /\ event_count' = event_count + Len(r.evs)
    BY <1>2 DEF Ps2Handler, Push
  <2>2. CASE \E buf : \E r \in Decode(buf) :
                Room(r.evs) /\ event_count' = event_count + Len(r.evs)
    <3>0. PICK buf : \E r \in Decode(buf) :
                Room(r.evs) /\ event_count' = event_count + Len(r.evs)
      BY <2>2
    <3>1. PICK r \in Decode(buf) :
                Room(r.evs) /\ event_count' = event_count + Len(r.evs)
      BY <3>0
    <3>2. Len(r.evs) \in 0..2 /\ (r.evs # <<>> => Len(r.evs) > 0)
      BY DecodePushes
    <3>3. Len(r.evs) > 0 => event_count + Len(r.evs) <= CAP
      <4>1. CASE r.evs = <<>>
        BY <4>1
      <4>2. CASE r.evs # <<>>
        BY <3>1, <3>2, <4>2 DEF Room
      <4> QED
        BY <4>1, <4>2
    <3>4. event_count' \in 0..CAP /\ event_count' >= event_count
      BY <3>1, <3>2, <3>3
    <3> QED
      BY <2>1, <3>4
  <2> QED
    BY <2>1, <2>2
<1>3. CASE KTest
  BY <1>3 DEF KTest
<1>4. CASE KLoad
  BY <1>4 DEF KLoad
<1>5. CASE KStore
  BY <1>5 DEF KStore
<1>6. CASE KIndex
  BY <1>6 DEF KIndex
<1>7. CASE KReadPrintable
  BY <1>7 DEF KReadPrintable
<1>8. CASE KReadKey
  BY <1>8 DEF KReadKey
<1>9. CASE KShow
  BY <1>9 DEF KShow
<1>10. CASE UNCHANGED vars
  BY <1>10 DEF vars
<1> QED
  BY <1>1, <1>2, <1>3, <1>4, <1>5, <1>6, <1>7, <1>8, <1>9, <1>10
     DEF Next, KthreadStart, Idle

\* The event stack is never overrun and never popped when empty, whatever the
\* interleaving of ps2_handler with kthread_start.
THEOREM StackBounded == Spec => []CountBounded
<1>1. Init => CountInv
  BY InitCountInv
<1>2. CountInv /\ [Next]_vars => CountInv'
  BY NextCountInv
<1>3. CountInv => CountBounded
  BY DEF CountInv, CountBounded
<1> QED
  BY <1>1, <1>2, <1>3, PTL DEF Spec
------------------------------------------------------------------------------
(* What the decoder makes of a buffer.                                     *)

Bytes == 0..255
EventType == [printable: 0..127, key: KeyNames, released: BOOLEAN]

\* Lists of one event and of two.
LEMMA ShortLists ==
    ASSUME NEW S, NEW x \in S, NEW y \in S
    PROVE  /\ <<x>> \in Seq(S) /\ Len(<<x>>) = 1 /\ <<x>>[1] = x
           /\ <<x, y>> \in Seq(S) /\ Len(<<x, y>>) = 2 /\ <<x, y>>[2] = y
  OBVIOUS

\* The events of any buffer are well formed.
LEMMA DecodeTyped ==
    ASSUME NEW buf \in Seq(Bytes), buf # <<>>, NEW r \in Decode(buf)
    PROVE  r.evs \in Seq(EventType) /\ r.used \in Nat
<1>1. buf[1] \in Bytes /\ Len(buf) \in Nat /\ Len(buf) >= 1
  OBVIOUS
<1>2. Wait.evs \in Seq(EventType) /\ Wait.used \in Nat
  BY DEF Wait
<1>3. ASSUME NEW ch \in 0..127, NEW k \in KeyNames, NEW b \in BOOLEAN
      PROVE  Event(ch, k, b) \in EventType
  BY DEF Event, EventType
<1>4. {"KEY_UNKNOWN", "KEY_PAUSE", "KEY_PRINTSCRN"} \subseteq KeyNames
  BY DEF KeyNames
<1>5. CASE buf[1] = 224
  <2>1. r = DecodeE0(buf)
    BY <1>5 DEF Decode
  <2>2. ASSUME NEW w, NEW b \in BOOLEAN, r = DecodePrintScreen(buf, w, b)
        PROVE  r.evs \in Seq(EventType) /\ r.used \in Nat
    <3> DEFINE list == <<Event(0, "KEY_PRINTSCRN", b)>>
    <3>1. Event(0, "KEY_PRINTSCRN", b) \in EventType
      BY <1>3, <1>4
    <3>2. \/ r = Wait
          \/ r = [used |-> 4, evs |-> list]
      BY <2>2 DEF DecodePrintScreen
    <3>3. list \in Seq(EventType)
      BY <3>1, ShortLists
    <3> HIDE DEF list
    <3> QED
      BY <1>2, <3>2, <3>3
  <2>3. CASE Len(buf) = 1
    BY <1>2, <2>1, <2>3 DEF DecodeE0
  <2>4. CASE Len(buf) # 1 /\ buf[2] = 42
    <3>1. r = DecodePrintScreen(buf, PrintScreenMake, FALSE)
      BY <2>1, <2>4 DEF DecodeE0
    <3> QED
      BY <2>2, <3>1
  <2>5. CASE Len(buf) # 1 /\ buf[2] = 183
    <3>1. r = DecodePrintScreen(buf, PrintScreenBreak, TRUE)
      BY <2>1, <2>5 DEF DecodeE0
    <3> QED
      BY <2>2, <3>1
  <2>6. CASE Len(buf) # 1 /\ buf[2] # 42 /\ buf[2] # 183
    <3> DEFINE rel == buf[2] >= 128
    <3>1. rel \in BOOLEAN
      OBVIOUS
    <3>2. r = [used |-> 2, evs |-> <<Event(0, "KEY_UNKNOWN", rel)>>]
      BY <2>1, <2>6 DEF DecodeE0
    <3> HIDE DEF rel
    <3>3. Event(0, "KEY_UNKNOWN", rel) \in EventType
      BY <1>3, <1>4, <3>1
    <3> QED
      BY <3>2, <3>3
  <2> QED
    BY <2>3, <2>4, <2>5, <2>6
<1>6. CASE buf[1] = 225
  <2>1. r = DecodeE1(buf)
    BY <1>6 DEF Decode
  <2> DEFINE list == <<Event(0, "KEY_PAUSE", FALSE), Event(0, "KEY_PAUSE", TRUE)>>
  <2>2. r = Wait \/ r = [used |-> 6, evs |-> list]
    BY <2>1 DEF DecodeE1
  <2>3. Event(0, "KEY_PAUSE", FALSE) \in EventType /\ Event(0, "KEY_PAUSE", TRUE) \in EventType
    BY <1>4 DEF Event, EventType
  <2>4. list \in Seq(EventType)
    BY <2>3, ShortLists
  <2> HIDE DEF list
  <2> QED
    BY <1>2, <2>2, <2>4
<1>7. CASE buf[1] # 224 /\ buf[1] # 225
  <2> DEFINE i == buf[1] % 128
             rel == buf[1] >= 128
  <2>1. i \in 0..127 /\ rel \in BOOLEAN
    <3>1. \A n \in Bytes : n % 128 \in 0..127
      BY DEF Bytes
    <3>2. i \in 0..127
      BY <1>1, <3>1
    <3>3. rel \in BOOLEAN
      OBVIOUS
    <3> QED
      BY <3>2, <3>3
  <2>2. PICK ch \in us_qwerty_keyboard(i) :
          r = [used |-> 1,
               evs |-> <<Event(ch, IF ch = 0 THEN NamedKey(i) ELSE "KEY_UNKNOWN", rel)>>]
    BY <1>7 DEF Decode, DecodeByte
  <2> HIDE DEF i, rel
  <2>3. ch \in 0..127
    BY <2>1 DEF us_qwerty_keyboard, PrintableCodes
  <2>4. NamedKey(i) \in KeyNames
    BY <2>1 DEF NamedKey, KeyNames
  <2> DEFINE k == IF ch = 0 THEN NamedKey(i) ELSE "KEY_UNKNOWN"
  <2>5. k \in KeyNames
    BY <1>4, <2>4
  <2> HIDE DEF k
  <2>6. Event(ch, k, rel) \in EventType
    BY <1>3, <2>1, <2>3, <2>5
  <2>7. r = [used |-> 1, evs |-> <<Event(ch, k, rel)>>]
    BY <2>2 DEF k
  <2> QED
    BY <2>6, <2>7
<1> QED
  BY <1>5, <1>6, <1>7

\* A scan code sequence has at least one byte and at most six.
LEMMA ScanCodeSeq ==
    ASSUME NEW k \in ScanCodes
    PROVE  k \in Seq(Bytes) /\ Len(k) \in 1..6
<1> USE DEF Bytes
<1>1. CASE k \in {<<b>> : b \in (0..255) \ {224, 225}}
  <2>1. PICK b \in Bytes : k = <<b>>
    BY <1>1
  <2> QED
    BY <2>1
<1>2. CASE k \in {<<224, b>> : b \in (0..255) \ {42, 183}}
  <2>1. PICK b \in Bytes : k = <<224, b>>
    BY <1>2
  <2> QED
    BY <2>1
<1>3. CASE k = PrintScreenMake
  BY <1>3 DEF PrintScreenMake
<1>4. CASE k = PrintScreenBreak
  BY <1>4 DEF PrintScreenBreak
<1>5. CASE k = PauseMake
  BY <1>5 DEF PauseMake
<1> QED
  BY <1>1, <1>2, <1>3, <1>4, <1>5 DEF ScanCodes

\* The first n elements of a list of n.
LEMMA WholeSubSeq ==
    ASSUME NEW S, NEW s \in Seq(S), NEW t \in Seq(S), NEW n \in Nat,
           Len(s) = n, Len(t) = n, \A i \in 1..n : s[i] = t[i]
    PROVE  SubSeq(s, 1, n) = t
<1>1. SubSeq(s, 1, n) = s
  OBVIOUS
<1>2. s = t
  OBVIOUS
<1> QED
  BY <1>1, <1>2

\* What the last byte of a key of m bytes must give: as many bytes taken as the
\* key has, and its events, the last of which is a release when the byte says so.
WholeKey(k, m, r) ==
    /\ r.used = m
    /\ Len(r.evs) = IF k = PauseMake THEN 2 ELSE 1
    /\ k[m] >= 128 => r.evs[Len(r.evs)].released = TRUE
    /\ ~ (k[m] >= 128) => r.evs[Len(r.evs)].released = FALSE

\* A buffer that is a part of a key waits; the whole key is taken.
LEMMA DecodePrefix ==
    ASSUME NEW k \in Seq(Bytes), k \in ScanCodes, NEW m \in Nat, m = Len(k),
           NEW buf \in Seq(Bytes), NEW n \in Nat, n = Len(buf),
           n >= 1, n <= m, \A i \in 1..n : buf[i] = k[i],
           NEW r \in Decode(buf)
    PROVE  /\ n < m => r = Wait
           /\ n = m => WholeKey(k, m, r)
<1>0. buf[1] = k[1] /\ (n # 1 => buf[2] = k[2])
  <2>1. 1 \in 1..n /\ (n # 1 => 2 \in 1..n)
    OBVIOUS
  <2> QED
    BY <2>1
<1>all. n = m => SubSeq(buf, 1, n) = k
  BY WholeSubSeq
<1>1. CASE k \in {<<b>> : b \in (0..255) \ {224, 225}}
  <2>1. PICK b \in (0..255) \ {224, 225} : k = <<b>>
    BY <1>1
  <2>2. m = 1 /\ k[1] = b /\ n = 1 /\ buf[1] = b
    BY <1>0, <2>1
  <2>3. k # PauseMake
    BY <2>1 DEF PauseMake
  <2> DEFINE rel == b >= 128
  <2>4. PICK ch, y : r = [used |-> 1, evs |-> <<Event(ch, y, rel)>>]
    BY <2>1, <2>2 DEF Decode, DecodeByte
  <2>5. /\ b >= 128 => rel = TRUE
        /\ ~ (b >= 128) => rel = FALSE
    OBVIOUS
  <2> HIDE DEF rel
  <2>6. r.used = 1 /\ Len(r.evs) = 1 /\ r.evs[1] = Event(ch, y, rel)
    BY <2>4
  <2>7. r.evs[1].released = rel
    BY <2>6 DEF Event
  <2> QED
    BY <2>2, <2>3, <2>5, <2>6, <2>7 DEF WholeKey
<1>2. CASE k \in {<<224, b>> : b \in (0..255) \ {42, 183}}
  <2>1. PICK b \in (0..255) \ {42, 183} : k = <<224, b>>
    BY <1>2
  <2>2. m = 2 /\ k[1] = 224 /\ k[2] = b /\ buf[1] = 224
    BY <1>0, <2>1
  <2>3. k # PauseMake
    BY <2>2 DEF PauseMake
  <2>4. r = DecodeE0(buf)
    BY <2>2 DEF Decode
  <2>5. CASE n = 1
    BY <2>2, <2>4, <2>5 DEF DecodeE0
  <2>6. CASE n = 2
    <3> DEFINE rel == buf[2] >= 128
    <3>1. buf[2] = b
      BY <1>0, <2>2, <2>6
    <3>2. Len(buf) # 1 /\ buf[2] # 42 /\ buf[2] # 183
      BY <2>1, <2>6, <3>1
    <3>3. r = [used |-> 2, evs |-> <<Event(0, "KEY_UNKNOWN", rel)>>]
      BY <2>4, <3>2 DEF DecodeE0
    <3>4. /\ k[2] >= 128 => rel = TRUE
          /\ ~ (k[2] >= 128) => rel = FALSE
      BY <2>2, <3>1
    <3> HIDE DEF rel
    <3>5. r.used = 2 /\ Len(r.evs) = 1 /\ r.evs[1] = Event(0, "KEY_UNKNOWN", rel)
      BY <3>3
    <3>6. r.evs[1].released = rel
      BY <3>5 DEF Event
    <3> QED
      BY <2>2, <2>3, <2>6, <3>4, <3>5, <3>6 DEF WholeKey
  <2> QED
    BY <2>2, <2>5, <2>6
<1>3. CASE k = PrintScreenMake
  <2>1. m = 4 /\ k[1] = 224 /\ k[2] = 42 /\ k[4] = 55
    BY <1>3 DEF PrintScreenMake
  <2>2. k # PauseMake
    BY <2>1 DEF PauseMake
  <2>3. buf[1] = 224 /\ (n # 1 => buf[2] = 42)
    BY <1>0, <2>1
  <2>4. r = DecodeE0(buf)
    BY <2>3 DEF Decode
  <2>5. CASE n = 1
    BY <2>1, <2>4, <2>5 DEF DecodeE0
  <2>6. CASE n # 1
    <3>1. r = DecodePrintScreen(buf, PrintScreenMake, FALSE)
      <4>1. Len(buf) # 1 /\ buf[2] = 42 /\ 42 = 42
        BY <2>3, <2>6
      <4> QED
        BY <2>4, <4>1 DEF DecodeE0
    <3>2. CASE n < 4
      <4>1. ~ (Len(buf) > 3)
        BY <3>2
      <4>2. r = Wait
        BY <3>1, <4>1 DEF DecodePrintScreen
      <4> QED
        BY <2>1, <3>2, <4>2
    <3>3. CASE n = 4
      <4>1. SubSeq(buf, 1, 4) = k
        BY <1>all, <2>1, <3>3
      <4>2. Len(buf) > 3
        BY <3>3
      <4> DEFINE e == Event(0, "KEY_PRINTSCRN", FALSE)
      <4>3. r = [used |-> 4, evs |-> <<e>>]
        BY <1>3, <3>1, <4>1, <4>2 DEF DecodePrintScreen
      <4>4. e.released = FALSE
        BY DEF Event
      <4> HIDE DEF e
      <4>5. r.used = 4 /\ Len(r.evs) = 1 /\ r.evs[1] = e
        BY <4>3
      <4> QED
        BY <2>1, <2>2, <3>3, <4>4, <4>5 DEF WholeKey
    <3> QED
      BY <2>1, <3>2, <3>3
  <2> QED
    BY <2>5, <2>6
<1>4. CASE k = PrintScreenBreak
  <2>1. m = 4 /\ k[1] = 224 /\ k[2] = 183 /\ k[4] = 170
    BY <1>4 DEF PrintScreenBreak
  <2>2. k # PauseMake
    BY <2>1 DEF PauseMake
  <2>3. buf[1] = 224 /\ (n # 1 => buf[2] = 183)
    BY <1>0, <2>1
  <2>4. r = DecodeE0(buf)
    BY <2>3 DEF Decode
  <2>5. CASE n = 1
    BY <2>1, <2>4, <2>5 DEF DecodeE0
  <2>6. CASE n # 1
    <3>1. r = DecodePrintScreen(buf, PrintScreenBreak, TRUE)
      <4>1. Len(buf) # 1 /\ buf[2] = 183 /\ 183 # 42
        BY <2>3, <2>6
      <4> QED
        BY <2>4, <4>1 DEF DecodeE0
    <3>2. CASE n < 4
      <4>1. ~ (Len(buf) > 3)
        BY <3>2
      <4>2. r = Wait
        BY <3>1, <4>1 DEF DecodePrintScreen
      <4> QED
        BY <2>1, <3>2, <4>2
    <3>3. CASE n = 4
      <4>1. SubSeq(buf, 1, 4) = k
        BY <1>all, <2>1, <3>3
      <4>2. Len(buf) > 3
        BY <3>3
      <4> DEFINE e == Event(0, "KEY_PRINTSCRN", TRUE)
      <4>3. r = [used |-> 4, evs |-> <<e>>]
        BY <1>4, <3>1, <4>1, <4>2 DEF DecodePrintScreen
      <4>4. e.released = TRUE
        BY DEF Event
      <4> HIDE DEF e
      <4>5. r.used = 4 /\ Len(r.evs) = 1 /\ r.evs[1] = e
        BY <4>3
      <4> QED
        BY <2>1, <2>2, <3>3, <4>4, <4>5 DEF WholeKey
    <3> QED
      BY <2>1, <3>2, <3>3
  <2> QED
    BY <2>5, <2>6
<1>5. CASE k = PauseMake
  <2>1. m = 6 /\ k[1] = 225 /\ k[6] = 197
    BY <1>5 DEF PauseMake
  <2>2. r = DecodeE1(buf)
    BY <1>0, <2>1 DEF Decode
  <2>3. CASE n < 6
    <3>1. ~ (Len(buf) > 5)
      BY <2>3
    <3>2. r = Wait
      BY <2>2, <3>1 DEF DecodeE1
    <3> QED
      BY <2>1, <2>3, <3>2
  <2>4. CASE n = 6
    <3>1. SubSeq(buf, 1, 6) = k
      BY <1>all, <2>1, <2>4
    <3>2. Len(buf) > 5
      BY <2>4
    <3> DEFINE e == Event(0, "KEY_PAUSE", TRUE)
    <3>3. r = [used |-> 6, evs |-> <<Event(0, "KEY_PAUSE", FALSE), e>>]
      BY <1>5, <2>2, <3>1, <3>2 DEF DecodeE1
    <3>4. e.released = TRUE
      BY DEF Event
    <3> HIDE DEF e
    <3>5. r.used = 6 /\ Len(r.evs) = 2 /\ r.evs[2] = e
      BY <3>3
    <3> QED
      <4>1. Len(r.evs) = IF k = PauseMake THEN 2 ELSE 1
        BY <1>5, <3>5
      <4>2. k[m] >= 128 /\ r.evs[Len(r.evs)].released = TRUE /\ r.used = m
        BY <2>1, <3>4, <3>5
      <4> QED
        BY <2>1, <2>4, <4>1, <4>2 DEF WholeKey
  <2>5. n < 6 \/ n = 6
    BY <2>1
  <2> QED
    BY <2>3, <2>4, <2>5
<1> QED
  BY <1>1, <1>2, <1>3, <1>4, <1>5 DEF ScanCodes
------------------------------------------------------------------------------
(* The inductive invariant: types, the counter, and a decoder in step with *)
(* a keyboard that sends only keys.                                        *)

Sync == IF line = <<>> THEN key_buf = <<>> ELSE current \in Keys /\ key_buf \o line = current

KInv == TypeOK /\ CountInv /\ Sync

\* w is a and then l.
Joined(S, a, l, w) ==
    /\ w \in Seq(S) /\ Len(w) = Len(a) + Len(l)
    /\ \A i \in 1..Len(a) : w[i] = a[i]
    /\ \A i \in 1..Len(l) : w[Len(a) + i] = l[i]

LEMMA ConcatFacts ==
    ASSUME NEW S, NEW a \in Seq(S), NEW l \in Seq(S)
    PROVE  Joined(S, a, l, a \o l)
  BY DEF Joined

LEMMA EmptyFacts ==
    ASSUME NEW S, NEW s \in Seq(S)
    PROVE  s = <<>> <=> Len(s) = 0
  OBVIOUS

\* One more byte of a list k moves from its rest l to its start b.
Moved(S, l, k, b, n, m) ==
    /\ k \in Seq(S) /\ b \in Seq(S) /\ b # <<>> /\ Tail(l) \in Seq(S) /\ Head(l) \in S
    /\ n \in Nat /\ m \in Nat /\ n >= 1 /\ n <= m
    /\ b \o Tail(l) = k
    /\ \A i \in 1..n : b[i] = k[i]
    /\ b[n] = Head(l)
    /\ Tail(l) = <<>> <=> n = m

LEMMA MoveByte ==
    ASSUME NEW S, NEW a \in Seq(S), NEW l \in Seq(S), l # <<>>, NEW k, a \o l = k,
           NEW b, b = Append(a, Head(l)), NEW n, n = Len(b), NEW m, m = Len(k)
    PROVE  Moved(S, l, k, b, n, m)
<1> DEFINE p == Len(a)
           q == Len(l)
<1>1. /\ p \in Nat /\ q \in Nat /\ q >= 1 /\ Head(l) = l[1] /\ Head(l) \in S
      /\ Tail(l) \in Seq(S) /\ Len(Tail(l)) = q - 1
      /\ \A i \in 1..(q - 1) : Tail(l)[i] = l[i + 1]
  OBVIOUS
<1>2. /\ k \in Seq(S) /\ m = p + q
      /\ \A i \in 1..p : k[i] = a[i]
      /\ \A i \in 1..q : k[p + i] = l[i]
  <2>1. Joined(S, a, l, k)
    BY ConcatFacts
  <2> QED
    BY <2>1 DEF Joined
<1>3. /\ b \in Seq(S) /\ n = p + 1 /\ b # <<>>
      /\ \A i \in 1..p : b[i] = a[i]
      /\ b[p + 1] = l[1]
  BY <1>1
<1>4. n \in Nat /\ m \in Nat /\ n >= 1 /\ n <= m
  BY <1>1, <1>2, <1>3
<1>5. ASSUME NEW i \in 1..n PROVE b[i] = k[i]
  <2>1. CASE i \in 1..p
    BY <1>2, <1>3, <2>1
  <2>2. CASE i = p + 1
    <3>1. 1 \in 1..q
      BY <1>1
    <3> QED
      BY <1>2, <1>3, <2>2, <3>1
  <2>3. i \in 1..p \/ i = p + 1
    BY <1>1, <1>3
  <2> QED
    BY <2>1, <2>2, <2>3
<1>6. b \o Tail(l) = k
  <2> DEFINE u == b \o Tail(l)
  <2>1. /\ u \in Seq(S) /\ Len(u) = n + (q - 1)
        /\ \A i \in 1..n : u[i] = b[i]
        /\ \A i \in 1..(q - 1) : u[n + i] = Tail(l)[i]
    BY <1>1, <1>3, <1>4
  <2> HIDE DEF u
  <2>2. Len(u) = m
    BY <1>1, <1>2, <1>3, <2>1
  <2>3. ASSUME NEW i \in 1..m PROVE u[i] = k[i]
    <3>1. CASE i \in 1..n
      BY <1>5, <2>1, <3>1
    <3>2. CASE i \notin 1..n
      <4> DEFINE j == i - n
      <4>1. j \in 1..(q - 1) /\ i = n + j /\ j + 1 \in 1..q /\ i = p + (j + 1)
        BY <1>1, <1>2, <1>3, <3>2
      <4> HIDE DEF j
      <4>2. u[i] = Tail(l)[j]
        BY <2>1, <4>1
      <4>3. Tail(l)[j] = l[j + 1]
        BY <1>1, <4>1
      <4>4. k[i] = l[j + 1]
        BY <1>2, <4>1
      <4> QED
        BY <4>2, <4>3, <4>4
    <3> QED
      BY <3>1, <3>2
  <2> QED
    BY <1>2, <2>1, <2>2, <2>3 DEF u
<1>7. b[n] = Head(l)
  BY <1>1, <1>3
<1>8. Tail(l) = <<>> <=> n = m
  <2>1. Tail(l) = <<>> <=> Len(Tail(l)) = 0
    BY <1>1, EmptyFacts
  <2> HIDE DEF p, q
  <2>2. q - 1 = 0 <=> n = m
    BY <1>1, <1>2, <1>3
  <2> QED
    BY <1>1, <2>1, <2>2
<1> HIDE DEF p, q
<1> QED
  BY <1>1, <1>2, <1>3, <1>4, <1>5, <1>6, <1>7, <1>8 DEF Moved

\* The buffer with the new byte, and what the handler makes of it.
Handled(buf, n, m, r) ==
    /\ buf = Append(key_buf, Head(line)) /\ buf # <<>>
    /\ n = Len(buf) /\ m = Len(current) /\ current[m] \in Bytes
    /\ buf \o Tail(line) = current
    /\ (line' = <<>> <=> n = m)
    /\ n = m => current[m] = Head(line) /\ WholeKey(current, m, r)
    /\ n # m => r = Wait
    /\ key_buf' = SubSeq(buf, 1, n - r.used)
    /\ IF Room(r.evs)
       THEN Push(r.evs) /\ UNCHANGED halted
       ELSE halted' = TRUE /\ UNCHANGED <<events, event_count, serial, raced>>

LEMMA HandlerDecodes ==
    ASSUME TypeOK, Sync, Ps2Handler
    PROVE  \E buf \in Seq(Bytes), n, m \in Nat : \E r \in Decode(buf) : Handled(buf, n, m, r)
<1> DEFINE buf == Append(key_buf, Head(line))
           n == Len(buf)
           m == Len(current)
<1>1. /\ line \in Seq(Bytes) /\ key_buf \in Seq(Bytes) /\ line # <<>> /\ line' = Tail(line)
      /\ current \in ScanCodes /\ key_buf \o line = current
  BY KeysAssumption DEF TypeOK, Sync, Ps2Handler, Bytes
<1>2. PICK r \in Decode(buf) :
             /\ key_buf' = SubSeq(buf, 1, n - r.used)
             /\ IF Room(r.evs)
                THEN Push(r.evs) /\ UNCHANGED halted
                ELSE halted' = TRUE /\ UNCHANGED <<events, event_count, serial, raced>>
  BY DEF Ps2Handler
<1>3. /\ current \in Seq(Bytes) /\ buf \in Seq(Bytes) /\ buf # <<>>
      /\ n \in Nat /\ m \in Nat /\ n >= 1 /\ n <= m
      /\ buf \o Tail(line) = current
      /\ \A i \in 1..n : buf[i] = current[i]
      /\ buf[n] = Head(line)
      /\ Tail(line) = <<>> <=> n = m
  <2>1. buf = Append(key_buf, Head(line)) /\ n = Len(buf) /\ m = Len(current)
    OBVIOUS
  <2> HIDE DEF buf, n, m
  <2> QED
    <3>1. Moved(Bytes, line, current, buf, n, m)
      BY <1>1, <2>1, MoveByte
    <3> QED
      BY <3>1 DEF Moved
<1> HIDE DEF buf, n, m
<1>4. /\ n < m => r = Wait
      /\ n = m => WholeKey(current, m, r)
  BY <1>1, <1>2, <1>3, DecodePrefix DEF n, m
<1>5. current[m] \in Bytes /\ (n = m => current[m] = Head(line))
  BY <1>3 DEF m
<1>6. n # m => r = Wait
  BY <1>3, <1>4
<1> QED
  <2>1. buf = Append(key_buf, Head(line)) /\ n = Len(buf) /\ m = Len(current)
    BY DEF buf, n, m
  <2>2. Handled(buf, n, m, r)
    BY <1>1, <1>2, <1>3, <1>4, <1>5, <1>6, <2>1 DEF Handled
  <2> QED
    BY <1>2, <1>3, <2>2

SlotType == [id: Nat, printable: 0..127, key: KeyNames, released: BOOLEAN]

\* Pushing well formed events.
LEMMA PushTyped ==
    ASSUME events \in [0..(CAP - 1) -> SlotType], event_count \in Nat, serial \in Nat,
           raced \in BOOLEAN, NEW evs \in Seq(EventType), Push(evs)
    PROVE  /\ events' \in [0..(CAP - 1) -> SlotType] /\ event_count' \in Nat
           /\ serial' \in Nat /\ raced' \in BOOLEAN
<1> DEFINE n == Len(evs)
           slot(i) == IF event_count <= i /\ i < event_count + n
                      THEN LET k == i - event_count + 1 IN
                           [id |-> serial + k, printable |-> evs[k].printable,
                            key |-> evs[k].key, released |-> evs[k].released]
                      ELSE events[i]
<1>1. /\ n \in Nat /\ events' = [i \in 0..(CAP - 1) |-> slot(i)]
      /\ event_count' = event_count + n /\ serial' = serial + n
      /\ raced' = (raced \/ (n > 0 /\ Popping))
  BY DEF Push
<1>2. ASSUME NEW i \in 0..(CAP - 1) PROVE slot(i) \in SlotType
  <2>1. CASE event_count <= i /\ i < event_count + n
    <3> DEFINE k == i - event_count + 1
    <3>1. k \in 1..n /\ serial + k \in Nat
      BY <1>1, <2>1, KeyboardAssumption
    <3>2. evs[k] \in EventType
      BY <3>1
    <3>3. slot(i) = [id |-> serial + k, printable |-> evs[k].printable,
                     key |-> evs[k].key, released |-> evs[k].released]
      BY <2>1
    <3> HIDE DEF k, slot
    <3> QED
      BY <3>1, <3>2, <3>3 DEF EventType, SlotType
  <2>2. CASE ~ (event_count <= i /\ i < event_count + n)
    BY <2>2
  <2> QED
    BY <2>1, <2>2
<1> HIDE DEF slot, n
<1>3. events' \in [0..(CAP - 1) -> SlotType]
  BY <1>1, <1>2
<1>4. raced' \in BOOLEAN
  BY <1>1, Zenon
<1> QED
  BY <1>1, <1>3, <1>4

LEMMA InitKInv == Init => KInv
<1> SUFFICES ASSUME Init PROVE KInv
  OBVIOUS
<1>1. NoEvent \in SlotType
  BY DEF NoEvent, SlotType, KeyNames
<1>2. /\ events \in [0..(CAP - 1) -> SlotType]
      /\ event \in [pid: Nat, printable: 0..127, kid: Nat, key: KeyNames]
  BY <1>1 DEF Init, KeyNames
<1>3. TypeOK
  BY <1>2, KeyboardAssumption DEF Init, TypeOK, SlotType
<1> QED
  BY <1>3, InitCountInv DEF KInv, Sync, Init

\* What an interrupt leaves: types, and a decoder in step.
LEMMA HandlerKInv ==
    ASSUME KInv, Ps2Handler PROVE TypeOK' /\ Sync'
<1>1. TypeOK /\ Sync /\ line' = Tail(line) /\ line # <<>> /\ UNCHANGED <<current, sent, threadVars>>
  BY DEF KInv, Ps2Handler
<1>2. PICK buf \in Seq(Bytes), n \in Nat, m \in Nat : \E r \in Decode(buf) : Handled(buf, n, m, r)
  BY <1>1, HandlerDecodes
<1>3. PICK r \in Decode(buf) : Handled(buf, n, m, r)
  BY <1>2
<1>4. r.evs \in Seq(EventType)
  BY <1>3, DecodeTyped DEF Handled
<1>5. key_buf' = IF n = m THEN <<>> ELSE buf
  <2>1. CASE n = m
    <3>1. r.used = n
      BY <1>3, <2>1 DEF Handled, WholeKey
    <3>2. key_buf' = SubSeq(buf, 1, 0)
      BY <1>3, <3>1 DEF Handled
    <3> QED
      BY <2>1, <3>2
  <2>2. CASE n # m
    <3>1. r.used = 0
      BY <1>3, <2>2 DEF Handled, Wait
    <3>2. key_buf' = SubSeq(buf, 1, n) /\ n = Len(buf)
      BY <1>3, <3>1 DEF Handled
    <3> QED
      BY <2>2, <3>2, WholeSubSeq
  <2> QED
    BY <2>1, <2>2
<1>6. Sync'
  <2>1. current \in Keys /\ current' = current
    BY <1>1 DEF Sync
  <2>2. (line' = <<>> <=> n = m) /\ buf \o line' = current
    BY <1>1, <1>3 DEF Handled
  <2> QED
    BY <1>5, <2>1, <2>2 DEF Sync
<1>7. /\ line' \in Seq(0..255) /\ key_buf' \in Seq(0..255)
  <2>1. Tail(line) \in Seq(0..255)
    BY <1>1 DEF TypeOK
  <2>2. key_buf' \in Seq(Bytes)
    BY <1>5
  <2> QED
    BY <1>1, <2>1, <2>2 DEF Bytes
<1>8. /\ events' \in [0..(CAP - 1) -> SlotType] /\ event_count' \in Nat
      /\ serial' \in Nat /\ raced' \in BOOLEAN /\ halted' \in BOOLEAN
  <2>1. CASE Room(r.evs)
    BY <1>1, <1>3, <1>4, <2>1, PushTyped DEF Handled, TypeOK, SlotType
  <2>2. CASE ~ Room(r.evs)
    BY <1>1, <1>3, <2>2 DEF Handled, TypeOK, SlotType
  <2> QED
    BY <2>1, <2>2
<1>9. TypeOK'
  BY <1>1, <1>7, <1>8 DEF TypeOK, SlotType, threadVars
<1> QED
  BY <1>6, <1>9

\* A read of a slot the thread makes.
LEMMA SlotTyped ==
    ASSUME TypeOK, CountInv, NEW e \in Slot(index)
    PROVE  e \in SlotType
<1>1. CASE index < CAP
  <2>1. index \in 0..(CAP - 1) /\ e = events[index]
    BY <1>1, KeyboardAssumption DEF CountInv, Slot
  <2>2. events \in [0..(CAP - 1) -> SlotType]
    BY DEF TypeOK, SlotType
  <2> QED
    BY <2>1, <2>2
<1>2. CASE ~ (index < CAP)
  <2>1. PICK p \in {0, 1} : e = [NoEvent EXCEPT !.printable = p]
    BY <1>2 DEF Slot
  <2>2. e = [id |-> 0, printable |-> p, key |-> "KEY_ESCAPE", released |-> FALSE]
    BY <2>1 DEF NoEvent
  <2>3. p \in 0..127 /\ "KEY_ESCAPE" \in KeyNames
    BY DEF KeyNames
  <2> QED
    BY <2>2, <2>3 DEF SlotType
<1> QED
  BY <1>1, <1>2

\* The keyboard, the interrupt and the thread keep the invariant.
LEMMA NextKInv == KInv /\ [Next]_vars => KInv'
<1> SUFFICES ASSUME KInv, [Next]_vars PROVE KInv'
  OBVIOUS
<1>1. TypeOK /\ CountInv /\ Sync
  BY DEF KInv
<1>2. CountInv'
  BY <1>1, NextCountInv
<1>3. CASE SendKey
  <2>1. PICK k \in Keys : line' = k /\ current' = k
    BY <1>3 DEF SendKey
  <2>2. k \in Seq(0..255) /\ Len(k) \in 1..6
    BY KeysAssumption, ScanCodeSeq DEF Bytes
  <2>3. key_buf = <<>> /\ key_buf' = key_buf /\ k # <<>>
    <3>1. key_buf = <<>> /\ key_buf' = key_buf
      BY <1>1, <1>3 DEF SendKey, Sync
    <3>2. k # <<>>
      BY <2>2
    <3> QED
      BY <3>1, <3>2
  <2>4. <<>> \o k = k
    BY <2>2
  <2>5. Sync'
    BY <2>1, <2>3, <2>4 DEF Sync
  <2>6. sent' \in 0..MaxKeys
    BY <1>1, <1>3, KeyboardAssumption DEF SendKey, TypeOK
  <2>7. TypeOK'
    BY <1>1, <1>3, <2>1, <2>2, <2>6 DEF SendKey, TypeOK, threadVars
  <2> QED
    BY <1>2, <2>5, <2>7 DEF KInv
<1>4. CASE Ps2Handler
  BY <1>2, <1>4, HandlerKInv DEF KInv
<1>5. ASSUME UNCHANGED <<line, current, key_buf>> PROVE Sync'
  BY <1>1, <1>5 DEF Sync
<1>6. CASE KthreadStart
  <2>1. Sync'
    BY <1>5, <1>6 DEF KthreadStart, KTest, KLoad, KStore, KIndex, KReadPrintable, KReadKey, KShow,
                      others, kbdVars
  <2>2. ASSUME KReadPrintable PROVE TypeOK'
    <3>1. PICK e \in Slot(index) :
            event' = [event EXCEPT !.pid = e.id, !.printable = e.printable]
      BY <2>2 DEF KReadPrintable
    <3>2. e \in SlotType
      BY <1>1, SlotTyped
    <3>3. event' \in [pid: Nat, printable: 0..127, kid: Nat, key: KeyNames]
      BY <1>1, <3>1, <3>2 DEF TypeOK, SlotType
    <3> QED
      BY <1>1, <2>2, <3>3 DEF TypeOK, KReadPrintable, others, kbdVars
  <2>3. ASSUME KReadKey PROVE TypeOK'
    <3>1. PICK e \in Slot(index) : event' = [event EXCEPT !.kid = e.id, !.key = e.key]
      BY <2>3 DEF KReadKey
    <3>2. e \in SlotType
      BY <1>1, SlotTyped
    <3>3. event' \in [pid: Nat, printable: 0..127, kid: Nat, key: KeyNames]
      BY <1>1, <3>1, <3>2 DEF TypeOK, SlotType
    <3> QED
      BY <1>1, <2>3, <3>3 DEF TypeOK, KReadKey, others, kbdVars
  <2>4. ASSUME KTest PROVE TypeOK'
    BY <1>1, <2>4 DEF TypeOK, KTest, others, kbdVars
  <2>5. ASSUME KLoad PROVE TypeOK'
    BY <1>1, <2>5 DEF TypeOK, KLoad, others, kbdVars
  <2>6. ASSUME KStore PROVE TypeOK'
    <3>1. event_count' \in Nat
      BY <1>2, KeyboardAssumption DEF CountInv
    <3> QED
      BY <1>1, <2>6, <3>1 DEF TypeOK, KStore, others, kbdVars
  <2>7. ASSUME KIndex PROVE TypeOK'
    BY <1>1, <2>7 DEF TypeOK, KIndex, others, kbdVars
  <2>8. ASSUME KShow PROVE TypeOK'
    <3>1. Append(shown, event.pid) \in Seq(Nat)
      BY <1>1 DEF TypeOK
    <3> QED
      BY <1>1, <2>8, <3>1 DEF TypeOK, KShow, others, kbdVars
  <2>9. TypeOK'
    BY <1>6, <2>2, <2>3, <2>4, <2>5, <2>6, <2>7, <2>8 DEF KthreadStart
  <2> QED
    BY <1>2, <2>1, <2>9 DEF KInv
<1>7. CASE UNCHANGED vars
  BY <1>1, <1>2, <1>5, <1>7 DEF vars, TypeOK, KInv
<1>8. CASE Idle
  BY <1>7, <1>8 DEF Idle
<1> QED
  BY <1>3, <1>4, <1>6, <1>7, <1>8 DEF Next

LEMMA KInvAlways == Spec => []KInv
  BY InitKInv, NextKInv, PTL DEF Spec

\* The types, the counter with the thread's copies, and a decoder in step with
\* the keyboard, for every set of scan codes of set 1.
THEOREM KeyboardInvAlways == Spec => []KeyboardInv
<1>1. KInv => KeyboardInv
  BY DEF KInv, Sync, KeyboardInv, DecoderInSync
<1> QED
  BY <1>1, KInvAlways, PTL

\* Every key yields its events once, with its last byte.
THEOREM EachKeyOnceAlways == Spec => EachKeyOnce
<1> DEFINE A == (line # <<>> /\ line' = Tail(line) /\ ~halted') =>
                  /\ serial' - serial = IF line' # <<>> THEN 0
                                        ELSE IF current = PauseMake THEN 2 ELSE 1
                  /\ line' = <<>> => events'[event_count' - 1].released = (Head(line) >= 128)
<1>1. ASSUME KInv, [Next]_vars PROVE [A]_vars
  <2> SUFFICES ASSUME line # <<>>, line' = Tail(line), ~halted'
               PROVE  /\ serial' - serial = IF line' # <<>> THEN 0
                                            ELSE IF current = PauseMake THEN 2 ELSE 1
                      /\ line' = <<>> => events'[event_count' - 1].released = (Head(line) >= 128)
    OBVIOUS
  <2>1. TypeOK /\ Sync /\ CountInv
    BY <1>1 DEF KInv
  <2>2. line' # line
    BY <2>1 DEF TypeOK
  <2>3. Ps2Handler
    BY <1>1, <2>2 DEF Next, vars, SendKey, KthreadStart, KTest, KLoad, KStore, KIndex,
                      KReadPrintable, KReadKey, KShow, Idle, others, kbdVars
  <2>4. PICK buf \in Seq(Bytes), n \in Nat, m \in Nat : \E r \in Decode(buf) : Handled(buf, n, m, r)
    BY <2>1, <2>3, HandlerDecodes
  <2>5. PICK r \in Decode(buf) : Handled(buf, n, m, r)
    BY <2>4
  <2>6. Push(r.evs) /\ Room(r.evs)
    BY <2>5 DEF Handled
  <2>7. r.evs \in Seq(EventType)
    BY <2>5, DecodeTyped DEF Handled
  <2>8. CASE line' # <<>>
    <3>1. r.evs = <<>>
      BY <2>5, <2>8 DEF Handled, Wait
    <3>2. serial' = serial
      BY <2>1, <2>6, <3>1 DEF Push, TypeOK
    <3> QED
      BY <2>1, <2>8, <3>2 DEF TypeOK
  <2>9. CASE line' = <<>>
    <3> DEFINE c == Len(r.evs)
               e == r.evs[c]
    <3>1. /\ c = IF current = PauseMake THEN 2 ELSE 1
          /\ Head(line) \in Bytes
          /\ Head(line) >= 128 => e.released = TRUE
          /\ ~ (Head(line) >= 128) => e.released = FALSE
      BY <2>5, <2>9 DEF Handled, WholeKey
    <3>2. c \in {1, 2}
      BY <3>1
    <3>3. e.released = (Head(line) >= 128)
      <4>1. CASE Head(line) >= 128
        BY <3>1, <4>1
      <4>2. CASE ~ (Head(line) >= 128)
        <5>1. e.released = FALSE
          BY <3>1, <4>2
        <5>2. (Head(line) >= 128) = FALSE
          BY <4>2
        <5> QED
          BY <5>1, <5>2, Zenon
      <4> QED
        BY <4>1, <4>2
    <3>4. event_count + (c - 1) < CAP
      <4>1. r.evs # <<>>
        <5>1. Len(<<>>) = 0
          OBVIOUS
        <5>2. c # 0
          <6> HIDE DEF c
          <6> QED
            BY <3>2
        <5> QED
          BY <5>1, <5>2, Zenon
      <4> QED
        BY <2>6, <4>1 DEF Room
    <3> DEFINE i == event_count + c - 1
    <3>5. i \in 0..(CAP - 1) /\ event_count <= i /\ i < event_count + c /\ i - event_count + 1 = c
      <4> HIDE DEF c
      <4>1. event_count \in Nat /\ CAP \in Nat
        BY <2>1, KeyboardAssumption DEF TypeOK
      <4> QED
        BY <3>2, <3>4, <4>1
    <3>6. event_count' = event_count + c /\ serial' = serial + c /\ event_count' - 1 = i
      BY <2>1, <2>6, <3>2 DEF Push, TypeOK
    <3>7. events'[i].released = e.released
      BY <2>6, <3>5 DEF Push
    <3>8. serial' - serial = c
      BY <2>1, <3>2, <3>6 DEF TypeOK
    <3> HIDE DEF c, e, i
    <3> QED
      BY <2>9, <3>1, <3>3, <3>6, <3>7, <3>8
  <2> QED
    BY <2>8, <2>9
<1> QED
  BY <1>1, KInvAlways, PTL DEF Spec, EachKeyOnce
------------------------------------------------------------------------------
(* Without a race no event is lost, doubled or mixed.                      *)

StackIds == {events[i].id : i \in 0..(event_count - 1)}
ShownIds == {shown[j] : j \in 1..Len(shown)}
HandIds ==
    IF pc = "index" THEN {events[event_count].id}
    ELSE IF pc \in {"printable", "key"} THEN {events[index].id}
    ELSE IF pc = "show" THEN {event.pid}
    ELSE {}
Hands == IF pc \in {"index", "printable", "key", "show"} THEN 1 ELSE 0

\* The thread's copies are good, and the ids are where NoLossWithoutRace says.
CopiesGood ==
    /\ pc = "store" => count = event_count
    /\ pc = "index" => event_count < CAP
    /\ pc \in {"printable", "key"} => index < CAP
    /\ pc = "key" => event.pid = events[index].id
    /\ pc = "show" => event.pid = event.kid

IdsGood ==
    /\ event_count + Hands + Len(shown) = serial
    /\ StackIds \cup HandIds \cup ShownIds = 1..serial

LossInv == ~raced => CopiesGood /\ IdsGood

LEMMA InitLoss == Init => LossInv
<1> SUFFICES ASSUME Init PROVE LossInv
  OBVIOUS
<1>1. CopiesGood
  BY DEF Init, CopiesGood
<1>2. StackIds = {} /\ ShownIds = {} /\ HandIds = {} /\ Hands = 0
  BY DEF Init, StackIds, ShownIds, HandIds, Hands
<1>3. IdsGood
  BY <1>2 DEF Init, IdsGood
<1> QED
  BY <1>1, <1>3 DEF LossInv

\* Nothing the ids depend on changes.
LEMMA SameLoss ==
    ASSUME LossInv, UNCHANGED <<events, event_count, serial, raced, threadVars>>
    PROVE  LossInv'
<1>1. CopiesGood' <=> CopiesGood
  BY DEF CopiesGood, threadVars
<1>2. /\ StackIds' = StackIds /\ ShownIds' = ShownIds /\ HandIds' = HandIds /\ Hands' = Hands
  BY DEF StackIds, ShownIds, HandIds, Hands, threadVars
<1>3. IdsGood' <=> IdsGood
  BY <1>2 DEF IdsGood, threadVars
<1> QED
  BY <1>1, <1>3 DEF LossInv

\* A push on the stack while the thread is not popping.
LEMMA PushLoss ==
    ASSUME KInv, LossInv, NEW evs \in Seq(EventType), Push(evs), event_count' \in 0..CAP,
           UNCHANGED threadVars
    PROVE  LossInv'
<1> DEFINE n == Len(evs)
<1>1. TypeOK /\ CountInv /\ n \in Nat
  BY DEF KInv
<1>2. /\ event_count' = event_count + n /\ serial' = serial + n
      /\ raced' = (raced \/ (n > 0 /\ Popping))
      /\ \A i \in 0..(CAP - 1) :
            /\ ~ (event_count <= i /\ i < event_count + n) => events'[i] = events[i]
            /\ event_count <= i /\ i < event_count + n => events'[i].id = serial + (i - event_count + 1)
  BY DEF Push
<1>3. /\ event_count \in Nat /\ serial \in Nat /\ CAP \in Nat /\ event_count <= CAP
      /\ events \in [0..(CAP - 1) -> SlotType]
  BY <1>1, KeyboardAssumption DEF TypeOK, CountInv, SlotType
<1> HIDE DEF n
<1> SUFFICES ASSUME ~raced' PROVE CopiesGood' /\ IdsGood'
  BY DEF LossInv
<1>4. ~raced /\ (n = 0 \/ ~Popping) /\ CopiesGood /\ IdsGood
  <2>1. ~raced /\ ~ (n > 0 /\ Popping)
    BY <1>2, Zenon
  <2>2. n = 0 \/ n > 0
    BY <1>1
  <2> QED
    BY <2>1, <2>2 DEF LossInv
<1>5. CASE n = 0
  <2>1. events' = events
    BY <1>2, <1>3, <1>5 DEF Push, n
  <2>2. raced' = raced
    <3>1. raced \in BOOLEAN
      BY <1>1 DEF TypeOK
    <3> QED
      BY <1>2, <1>4, <3>1, Zenon
  <2>3. event_count' = event_count /\ serial' = serial
    BY <1>2, <1>3, <1>5
  <2>4. LossInv'
    BY <2>1, <2>2, <2>3, SameLoss
  <2> QED
    BY <2>4 DEF LossInv
<1>6. CASE ~Popping
  <2>1. pc \notin {"store", "index", "printable", "key"} /\ pc' = pc /\ event' = event
        /\ shown' = shown /\ Len(shown) \in Nat
    BY <1>1, <1>6 DEF Popping, threadVars, TypeOK
  <2>2. CopiesGood'
    BY <1>4, <2>1 DEF CopiesGood
  <2>3. HandIds' = HandIds /\ Hands' = Hands /\ ShownIds' = ShownIds /\ Hands \in {0, 1}
    BY <2>1 DEF HandIds, Hands, ShownIds
  <2>4. StackIds' = StackIds \cup (serial + 1)..(serial + n)
    <3>1. ASSUME NEW i \in 0..(event_count' - 1)
          PROVE  events'[i].id \in StackIds \cup (serial + 1)..(serial + n)
      <4>1. i \in 0..(CAP - 1)
        BY <1>2, <1>3, <3>1
      <4>2. CASE i < event_count
        <5>1. i \in 0..(event_count - 1) /\ events'[i] = events[i]
          BY <1>1, <1>2, <1>3, <4>1, <4>2
        <5> QED
          BY <5>1 DEF StackIds
      <4>3. CASE ~ (i < event_count)
        <5>1. events'[i].id = serial + (i - event_count + 1)
          BY <1>1, <1>2, <1>3, <4>1, <4>3
        <5>2. serial + (i - event_count + 1) \in (serial + 1)..(serial + n)
          BY <1>1, <1>2, <1>3, <4>1, <4>3
        <5> QED
          BY <5>1, <5>2
      <4> QED
        BY <4>2, <4>3
    <3>2. ASSUME NEW i \in 0..(event_count - 1) PROVE events[i].id \in StackIds'
      <4>1. i \in 0..(CAP - 1) /\ i \in 0..(event_count' - 1) /\ i < event_count
        BY <1>1, <1>2, <1>3
      <4>2. events'[i] = events[i]
        BY <1>1, <1>2, <1>3, <4>1
      <4> QED
        BY <4>1, <4>2 DEF StackIds
    <3>3. ASSUME NEW x \in (serial + 1)..(serial + n) PROVE x \in StackIds'
      <4> DEFINE i == event_count + (x - serial) - 1
      <4>1. /\ i \in 0..(event_count' - 1) /\ i \in 0..(CAP - 1)
            /\ event_count <= i /\ i < event_count + n /\ serial + (i - event_count + 1) = x
        BY <1>1, <1>2, <1>3
      <4> HIDE DEF i
      <4>2. events'[i].id = x
        BY <1>2, <4>1
      <4> QED
        BY <4>1, <4>2 DEF StackIds
    <3> QED
      BY <3>1, <3>2, <3>3 DEF StackIds
  <2>5. 1..(serial + n) = 1..serial \cup (serial + 1)..(serial + n)
    BY <1>1, <1>3
  <2>6. event_count' + Hands' + Len(shown') = serial'
    BY <1>1, <1>2, <1>3, <1>4, <2>1, <2>3 DEF IdsGood
  <2>7. StackIds' \cup HandIds' \cup ShownIds' = 1..serial'
    BY <1>2, <1>4, <2>3, <2>4, <2>5 DEF IdsGood
  <2> QED
    BY <2>2, <2>6, <2>7 DEF IdsGood
<1> QED
  BY <1>4, <1>5, <1>6

\* The thread's steps that change neither the stack nor what is shown.
LEMMA HandLoss ==
    ASSUME LossInv, UNCHANGED <<events, serial, raced, shown>>,
           ~raced => CopiesGood' /\ event_count' + Hands' = event_count + Hands
                       /\ StackIds' \cup HandIds' = StackIds \cup HandIds
    PROVE  LossInv'
<1>1. ShownIds' = ShownIds
  BY DEF ShownIds
<1> QED
  BY <1>1 DEF LossInv, IdsGood

LEMMA NextLoss == KInv /\ LossInv /\ [Next]_vars => LossInv'
<1> SUFFICES ASSUME KInv, LossInv, [Next]_vars PROVE LossInv'
  OBVIOUS
<1>1. TypeOK /\ CountInv /\ Sync /\ CountInv'
  BY NextKInv DEF KInv
<1>2. /\ CAP \in Nat /\ event_count \in Nat /\ event_count \in 0..CAP /\ count \in 0..CAP
      /\ index \in 0..CAP /\ serial \in Nat /\ shown \in Seq(Nat)
  BY <1>1, KeyboardAssumption DEF TypeOK, CountInv
<1>3. CASE SendKey
  BY <1>3, SameLoss DEF SendKey
<1>4. CASE Ps2Handler
  <2>1. PICK buf \in Seq(Bytes), n \in Nat, m \in Nat : \E r \in Decode(buf) : Handled(buf, n, m, r)
    BY <1>1, <1>4, HandlerDecodes
  <2>2. PICK r \in Decode(buf) : Handled(buf, n, m, r)
    BY <2>1
  <2>3. r.evs \in Seq(EventType) /\ UNCHANGED threadVars
    BY <1>4, <2>2, DecodeTyped DEF Handled, Ps2Handler
  <2>4. CASE Room(r.evs)
    <3>1. Push(r.evs) /\ event_count' \in 0..CAP
      BY <1>1, <2>2, <2>4 DEF Handled, CountInv
    <3> QED
      BY <2>3, <3>1, PushLoss
  <2>5. CASE ~ Room(r.evs)
    BY <2>2, <2>3, <2>5, SameLoss DEF Handled
  <2> QED
    BY <2>4, <2>5
<1>5. CASE KTest
  <2>1. /\ pc = "test" /\ pc' = "load" /\ UNCHANGED <<events, serial, raced, shown, event_count>>
    BY <1>5 DEF KTest, KAt, others
  <2>2. Hands' = Hands /\ StackIds' = StackIds /\ HandIds' = HandIds /\ CopiesGood'
    BY <2>1 DEF Hands, StackIds, HandIds, CopiesGood
  <2> QED
    BY <2>1, <2>2, HandLoss
<1>6. CASE KLoad
  <2>1. /\ pc = "load" /\ pc' = "store" /\ count' = event_count
        /\ UNCHANGED <<events, serial, raced, shown, event_count>>
    BY <1>6 DEF KLoad, KAt, others
  <2>2. Hands' = Hands /\ StackIds' = StackIds /\ HandIds' = HandIds /\ CopiesGood'
    BY <2>1 DEF Hands, StackIds, HandIds, CopiesGood
  <2> QED
    BY <2>1, <2>2, HandLoss
<1>7. CASE KStore
  <2>1. /\ pc = "store" /\ pc' = "index" /\ event_count' = count - 1 /\ count > 0
        /\ UNCHANGED <<events, serial, raced, shown>>
    BY <1>1, <1>7 DEF KStore, KAt, others, CountInv
  <2>2. ASSUME ~raced
        PROVE  CopiesGood' /\ event_count' + Hands' = event_count + Hands
                 /\ StackIds' \cup HandIds' = StackIds \cup HandIds
    <3>1. count = event_count /\ event_count' = event_count - 1 /\ event_count > 0
      BY <2>1, <2>2 DEF LossInv, CopiesGood
    <3>2. CopiesGood'
      BY <1>2, <2>1, <3>1 DEF CopiesGood
    <3>3. Hands = 0 /\ Hands' = 1 /\ HandIds = {} /\ HandIds' = {events[event_count - 1].id}
      BY <2>1, <3>1 DEF Hands, HandIds
    <3>4. StackIds = StackIds' \cup {events[event_count - 1].id}
      <4>1. 0..(event_count - 1) = 0..(event_count' - 1) \cup {event_count - 1}
        BY <1>2, <3>1
      <4>2. StackIds' = {events[i].id : i \in 0..(event_count' - 1)}
        BY <2>1 DEF StackIds
      <4> QED
        BY <4>1, <4>2 DEF StackIds
    <3>5. event_count' + Hands' = event_count + Hands
      BY <1>2, <3>1, <3>3
    <3> QED
      BY <3>2, <3>3, <3>4, <3>5
  <2> QED
    BY <2>1, <2>2, HandLoss
<1>8. CASE KIndex
  <2>1. /\ pc = "index" /\ pc' = "printable" /\ index' = event_count
        /\ UNCHANGED <<events, serial, raced, shown, event_count>>
    BY <1>8 DEF KIndex, KAt, others
  <2>2. Hands' = Hands /\ StackIds' = StackIds /\ HandIds' = HandIds
    BY <2>1 DEF Hands, StackIds, HandIds
  <2>3. ~raced => CopiesGood'
    BY <2>1 DEF LossInv, CopiesGood
  <2> QED
    BY <2>1, <2>2, <2>3, HandLoss
<1>9. CASE KReadPrintable
  <2>1. /\ pc = "printable" /\ pc' = "key"
        /\ UNCHANGED <<events, serial, raced, shown, event_count, index>>
    BY <1>9 DEF KReadPrintable, KAt, others
  <2>2. Hands' = Hands /\ StackIds' = StackIds /\ HandIds' = HandIds
    BY <2>1 DEF Hands, StackIds, HandIds
  <2>3. ASSUME ~raced PROVE CopiesGood'
    <3>1. index < CAP
      BY <2>1, <2>3 DEF LossInv, CopiesGood
    <3>2. event' = [event EXCEPT !.pid = events[index].id, !.printable = events[index].printable]
      BY <1>9, <3>1 DEF KReadPrintable, Slot
    <3>3. event'.pid = events[index].id
      BY <1>1, <3>2 DEF TypeOK
    <3> QED
      BY <2>1, <3>1, <3>3 DEF CopiesGood
  <2> QED
    BY <2>1, <2>2, <2>3, HandLoss
<1>10. CASE KReadKey
  <2>1. /\ pc = "key" /\ pc' = "show"
        /\ UNCHANGED <<events, serial, raced, shown, event_count, index>>
    BY <1>10 DEF KReadKey, KAt, others
  <2>2. ASSUME ~raced
        PROVE  CopiesGood' /\ Hands' = Hands /\ HandIds' = HandIds
    <3>1. index < CAP /\ event.pid = events[index].id
      BY <2>1, <2>2 DEF LossInv, CopiesGood
    <3>2. event' = [event EXCEPT !.kid = events[index].id, !.key = events[index].key]
      BY <1>10, <3>1 DEF KReadKey, Slot
    <3>3. event'.kid = events[index].id /\ event'.pid = events[index].id
      BY <1>1, <3>1, <3>2 DEF TypeOK
    <3> QED
      BY <2>1, <3>3 DEF CopiesGood, Hands, HandIds
  <2>3. StackIds' = StackIds
    BY <2>1 DEF StackIds
  <2> QED
    BY <2>1, <2>2, <2>3, HandLoss
<1>11. CASE KShow
  <2>1. /\ pc = "show" /\ pc' = "test" /\ shown' = Append(shown, event.pid) /\ event.pid \in Nat
        /\ UNCHANGED <<events, serial, raced, event_count>>
    BY <1>1, <1>11 DEF KShow, KAt, others, TypeOK
  <2>2. CopiesGood' /\ Hands = 1 /\ Hands' = 0 /\ HandIds = {event.pid} /\ HandIds' = {}
        /\ StackIds' = StackIds
    BY <2>1 DEF CopiesGood, Hands, HandIds, StackIds
  <2>3. Len(shown') = Len(shown) + 1 /\ Len(shown) \in Nat
        /\ (\A j \in 1..Len(shown) : shown'[j] = shown[j]) /\ shown'[Len(shown) + 1] = event.pid
    BY <1>2, <2>1
  <2>4. ShownIds' = ShownIds \cup {event.pid}
    <3>1. 1..Len(shown') = 1..Len(shown) \cup {Len(shown) + 1}
      BY <2>3
    <3>2. ASSUME NEW j \in 1..Len(shown') PROVE shown'[j] \in ShownIds \cup {event.pid}
      BY <2>3, <3>1 DEF ShownIds
    <3>3. ASSUME NEW j \in 1..Len(shown) PROVE shown[j] \in ShownIds'
      <4>1. j \in 1..Len(shown') /\ shown[j] = shown'[j]
        BY <2>3, <3>1
      <4> QED
        BY <4>1 DEF ShownIds
    <3>4. event.pid \in ShownIds'
      <4>1. Len(shown) + 1 \in 1..Len(shown')
        BY <3>1
      <4> QED
        BY <2>3, <4>1 DEF ShownIds
    <3> QED
      BY <3>2, <3>3, <3>4 DEF ShownIds
  <2>5. ASSUME ~raced PROVE IdsGood'
    <3>1. event_count' + Hands' + Len(shown') = serial'
      BY <1>2, <2>1, <2>2, <2>3, <2>5 DEF LossInv, IdsGood
    <3>2. StackIds' \cup HandIds' \cup ShownIds' = 1..serial'
      BY <2>1, <2>2, <2>4, <2>5 DEF LossInv, IdsGood
    <3> QED
      BY <3>1, <3>2 DEF IdsGood
  <2> QED
    BY <2>1, <2>2, <2>5 DEF LossInv
<1>12. CASE UNCHANGED vars
  BY <1>12, SameLoss DEF vars, threadVars
<1>13. CASE Idle
  BY <1>12, <1>13 DEF Idle
<1> QED
  BY <1>3, <1>4, <1>5, <1>6, <1>7, <1>8, <1>9, <1>10, <1>11, <1>12, <1>13 DEF Next, KthreadStart

\* w has the elements of a and of l.
Merged(S, a, l, w) ==
    /\ w \in Seq(S) /\ Len(w) = Len(a) + Len(l)
    /\ {w[i] : i \in 1..Len(w)} = {a[i] : i \in 1..Len(a)} \cup {l[i] : i \in 1..Len(l)}

LEMMA ConcatRange ==
    ASSUME NEW S, NEW a \in Seq(S), NEW l \in Seq(S), NEW w, w = a \o l
    PROVE  Merged(S, a, l, w)
<1> DEFINE p == Len(a)
           q == Len(l)
<1>1. Joined(S, a, l, w)
  BY ConcatFacts
<1>2. /\ p \in Nat /\ q \in Nat /\ w \in Seq(S) /\ Len(w) = p + q
      /\ \A i \in 1..p : w[i] = a[i]
      /\ \A i \in 1..q : w[p + i] = l[i]
  BY <1>1 DEF Joined
<1> HIDE DEF p, q
<1>3. ASSUME NEW i \in 1..(p + q) PROVE w[i] \in {a[j] : j \in 1..p} \cup {l[j] : j \in 1..q}
  <2>1. CASE i \in 1..p
    BY <1>2, <2>1
  <2>2. CASE i \notin 1..p
    <3> DEFINE j == i - p
    <3>1. j \in 1..q /\ i = p + j
      BY <1>2, <2>2
    <3> HIDE DEF j
    <3> QED
      BY <1>2, <3>1
  <2> QED
    BY <2>1, <2>2
<1>4. ASSUME NEW i \in 1..p PROVE a[i] \in {w[j] : j \in 1..(p + q)}
  <2>1. i \in 1..(p + q) /\ w[i] = a[i]
    BY <1>2
  <2> QED
    BY <2>1
<1>5. ASSUME NEW i \in 1..q PROVE l[i] \in {w[j] : j \in 1..(p + q)}
  <2>1. p + i \in 1..(p + q) /\ w[p + i] = l[i]
    BY <1>2
  <2> QED
    BY <2>1
<1>6. {w[i] : i \in 1..(p + q)} = {a[i] : i \in 1..p} \cup {l[i] : i \in 1..q}
  BY <1>3, <1>4, <1>5
<1> QED
  BY <1>2, <1>6 DEF p, q, Merged

LEMMA LossImplies == KInv /\ LossInv => NoLossWithoutRace
<1> SUFFICES ASSUME KInv, LossInv, ~raced
             PROVE  LET all == [i \in 1..event_count |-> events[i - 1].id] \o InHand \o shown IN
                    /\ Len(all) = serial
                    /\ {all[i] : i \in 1..Len(all)} = 1..serial
                    /\ pc = "show" => event.pid = event.kid
  BY DEF NoLossWithoutRace
<1> DEFINE st == [i \in 1..event_count |-> events[i - 1].id]
           u == st \o InHand
           all == u \o shown
<1>1. TypeOK /\ CountInv /\ CopiesGood /\ IdsGood
  BY DEF KInv, LossInv
<1>2. /\ CAP \in Nat /\ event_count \in Nat /\ event_count \in 0..CAP /\ index \in 0..CAP
      /\ events \in [0..(CAP - 1) -> SlotType] /\ shown \in Seq(Nat) /\ event.pid \in Nat
  BY <1>1, KeyboardAssumption DEF TypeOK, CountInv, SlotType
<1>3. \A i \in 0..(CAP - 1) : events[i].id \in Nat
  BY <1>2 DEF SlotType
<1>4. st \in Seq(Nat) /\ Len(st) = event_count /\ {st[i] : i \in 1..event_count} = StackIds
  <2>1. ASSUME NEW i \in 1..event_count PROVE i - 1 \in 0..(CAP - 1) /\ i - 1 \in 0..(event_count - 1)
    BY <1>2
  <2>2. st \in Seq(Nat) /\ Len(st) = event_count /\ \A i \in 1..event_count : st[i] = events[i - 1].id
    BY <1>2, <1>3, <2>1
  <2> HIDE DEF st
  <2>3. ASSUME NEW i \in 1..event_count PROVE st[i] \in StackIds
    BY <2>1, <2>2 DEF StackIds
  <2>4. ASSUME NEW j \in 0..(event_count - 1) PROVE events[j].id \in {st[i] : i \in 1..event_count}
    <3>1. j + 1 \in 1..event_count /\ (j + 1) - 1 = j
      BY <1>2
    <3>2. st[j + 1] = events[j].id
      BY <2>2, <3>1
    <3> QED
      BY <3>1, <3>2
  <2> QED
    BY <2>2, <2>3, <2>4 DEF StackIds
<1>5. InHand \in Seq(Nat) /\ Len(InHand) = Hands /\ {InHand[i] : i \in 1..Len(InHand)} = HandIds
  <2>1. ASSUME NEW x \in Nat
        PROVE  <<x>> \in Seq(Nat) /\ Len(<<x>>) = 1 /\ {<<x>>[i] : i \in 1..Len(<<x>>)} = {x}
    OBVIOUS
  <2>2. CASE pc = "index"
    <3>1. events[event_count].id \in Nat
      <4>1. event_count \in 0..(CAP - 1)
        BY <1>1, <1>2, <2>2 DEF CopiesGood
      <4> QED
        BY <1>3, <4>1
    <3>2. InHand = <<events[event_count].id>> /\ Hands = 1 /\ HandIds = {events[event_count].id}
      BY <2>2 DEF InHand, Hands, HandIds
    <3> QED
      BY <2>1, <3>1, <3>2
  <2>3. CASE pc \in {"printable", "key"}
    <3>1. events[index].id \in Nat
      <4>1. index \in 0..(CAP - 1)
        BY <1>1, <1>2, <2>3 DEF CopiesGood
      <4> QED
        BY <1>3, <4>1
    <3>2. InHand = <<events[index].id>> /\ Hands = 1 /\ HandIds = {events[index].id}
      BY <2>3 DEF InHand, Hands, HandIds
    <3> QED
      BY <2>1, <3>1, <3>2
  <2>4. CASE pc = "show"
    <3>1. InHand = <<event.pid>> /\ Hands = 1 /\ HandIds = {event.pid}
      BY <2>4 DEF InHand, Hands, HandIds
    <3> QED
      BY <1>2, <2>1, <3>1
  <2>5. CASE pc \notin {"index", "printable", "key", "show"}
    <3>1. InHand = <<>> /\ Hands = 0 /\ HandIds = {}
      BY <2>5 DEF InHand, Hands, HandIds
    <3> QED
      BY <3>1
  <2> QED
    BY <2>2, <2>3, <2>4, <2>5
<1> HIDE DEF st, u, all
<1>6. /\ u \in Seq(Nat) /\ Len(u) = event_count + Hands
      /\ {u[i] : i \in 1..Len(u)} = StackIds \cup HandIds
  <2>1. /\ u \in Seq(Nat) /\ Len(u) = Len(st) + Len(InHand)
        /\ {u[i] : i \in 1..Len(u)} = {st[i] : i \in 1..Len(st)} \cup {InHand[i] : i \in 1..Len(InHand)}
    <3>1. Merged(Nat, st, InHand, u)
      BY <1>4, <1>5, ConcatRange DEF u
    <3> QED
      BY <3>1 DEF Merged
  <2> QED
    BY <1>4, <1>5, <2>1
<1>7. /\ Len(all) = event_count + Hands + Len(shown)
      /\ {all[i] : i \in 1..Len(all)} = StackIds \cup HandIds \cup ShownIds
  <2>1. /\ Len(all) = Len(u) + Len(shown)
        /\ {all[i] : i \in 1..Len(all)} = {u[i] : i \in 1..Len(u)} \cup {shown[i] : i \in 1..Len(shown)}
    <3>1. Merged(Nat, u, shown, all)
      BY <1>2, <1>6, ConcatRange DEF all
    <3> QED
      BY <3>1 DEF Merged
  <2> QED
    BY <1>6, <2>1 DEF ShownIds
<1>8. /\ Len(all) = serial /\ {all[i] : i \in 1..Len(all)} = 1..serial
  BY <1>1, <1>7 DEF IdsGood
<1> QED
  BY <1>1, <1>8 DEF CopiesGood, all, u, st

\* Unless ps2_handler came into the thread's copy, no event is lost, shown
\* twice or put together from two.
THEOREM NoLossAlways == Spec => []NoLossWithoutRace
<1>1. Init => KInv /\ LossInv
  BY InitKInv, InitLoss
<1>2. KInv /\ LossInv /\ [Next]_vars => (KInv /\ LossInv)'
  BY NextKInv, NextLoss
<1> QED
  BY <1>1, <1>2, LossImplies, PTL DEF Spec
==============================================================================

--------------------------------- MODULE MCLib ---------------------------------
(* Every call of the kernel's library on a small memory, and the numbers and  *)
(* sizes it works with: one call per behaviour.                               *)
EXTENDS KLib, SizeClass

CodeSizes == <<8, 16, 32, 64, 128, 256, 512, 1024>>
SmallNumbers == 0..2047

CONSTANTS
    Last,       \* the last address of the memory; it holds a zero
    Bytes,      \* the bytes the memory is filled with
    Numbers,    \* arguments of itoa, itoah and align_up
    Page        \* page_size

VARIABLES mem, call, after, value

libVars == <<mem, call, after, value>>

Addresses == 0..Last
Zeroes == [a \in Addresses |-> 0]
Memories == {f \in [Addresses -> Bytes \cup {0}] : f[Last] = 0}

\* The string at an address.
Text(f, s) == [k \in 1..strlen(f, s) |-> f[s + k - 1]]

Init == mem \in Memories /\ call = [op |-> "none"] /\ after = mem /\ value = 0

Call(c, m, v) == call.op = "none" /\ call' = c /\ after' = m /\ value' = v /\ UNCHANGED mem

\* memmove, and memcpy where the two do not overlap.
Move == \E d, s \in Addresses : \E n \in 0..(Last + 1 - Max({d, s})) :
    \/ Call([op |-> "move", d |-> d, s |-> s, n |-> n], memmove(mem, d, s, n), 0)
    \/ /\ d + n <= s \/ s + n <= d
       /\ Call([op |-> "move", d |-> d, s |-> s, n |-> n], memcpy(mem, d, s, n), 0)

Copy == \E to, from \in Addresses :
    LET n == strlen(mem, from) + 1 IN
    /\ to + n <= Last + 1 /\ (to + n <= from \/ from + n <= to)
    /\ Call([op |-> "move", d |-> to, s |-> from, n |-> n], strcpy(mem, to, from), 0)

Compare == \E a, b \in Addresses : \E n \in 0..(Last + 1 - Max({a, b})) :
    \/ Call([op |-> "strcmp", a |-> a, b |-> b], mem, strcmp(mem, a, b))
    \/ Call([op |-> "strncmp", a |-> a, b |-> b, n |-> n], mem, strncmp(mem, a, b, n))
    \/ Call([op |-> "memcmp", a |-> a, b |-> b, n |-> n], mem, memcmp(mem, a, b, n))

Prepend == \E s, t \in Addresses :
    LET n == strlen(mem, s) + strlen(mem, t) + 1 IN
    /\ s + n <= Last + 1
    /\ t + strlen(mem, t) < s \/ s + n <= t
    /\ Call([op |-> "prepend", s |-> s, t |-> t], prepend(mem, s, t), 0)

TarType == \E t, c \in Addresses :
    Text(mem, c) \in {<<b>> : b \in Bytes}
    /\ Call([op |-> "type", t |-> t, c |-> c], mem, IF TypeIs(mem, t, c) THEN 1 ELSE 0)

Number == mem = Zeroes /\ \E k \in Numbers :
    \/ Call([op |-> "itoa", k |-> k, radix |-> 10], itoa([mem EXCEPT ![2] = 200], 0, k), 0)
    \/ Call([op |-> "itoa", k |-> k, radix |-> 16], itoah([mem EXCEPT ![2] = 200], 0, k), 0)
    \/ Call([op |-> "align", k |-> k], mem, align_up(k, Page))
    \/ k < SlabLimit /\ Call([op |-> "kmalloc", k |-> k], mem, CacheFor(k))

\* A memory without zeroes inside is read as octal digits, and cleared.
Octal == \E in \in [1..Last -> 48..49] :
    /\ mem = Zeroes
    /\ Call([op |-> "octal", in |-> in], memset(mem, 0, 0, Last), getsize(in))

Done == call.op # "none" /\ UNCHANGED libVars

Next == Move \/ Copy \/ Compare \/ Prepend \/ TarType \/ Number \/ Octal \/ Done
Spec == Init /\ [][Next]_libVars
------------------------------------------------------------------------------
\* memmove moves what the source held before the call, however source and
\* destination overlap, and touches nothing else; so do memcpy and strcpy for
\* the callers that keep the two apart.
CopiesRight ==
    call.op = "move" =>
        \A a \in Addresses :
            after[a] = IF a \in call.d..(call.d + call.n - 1) THEN mem[call.s + a - call.d]
                       ELSE mem[a]

Sign(k) == IF k < 0 THEN -1 ELSE IF k > 0 THEN 1 ELSE 0

\* The first n characters of a string, or all.
Start(t, n) == SubSeq(t, 1, Min({n, Len(t)}))

\* s comes before t in the order of unsigned bytes.
Before(s, t) ==
    \/ Len(s) < Len(t) /\ s = Start(t, Len(s))
    \/ \E k \in 1..Min({Len(s), Len(t)}) : Start(s, k - 1) = Start(t, k - 1) /\ s[k] < t[k]

\* strcmp, whose second pointer is one too far when it stops, orders strings
\* as unsigned bytes; strncmp finds the same strings equal within n, although
\* it orders characters above 127 first; memcmp agrees with strcmp's order on
\* ranges without a zero.
ComparesRight ==
    call.op \in {"strcmp", "strncmp", "memcmp"} =>
    LET s == Text(mem, call.a)
        t == Text(mem, call.b)
    IN  CASE call.op = "strcmp" ->
               Sign(value) = IF s = t THEN 0 ELSE IF Before(s, t) THEN -1 ELSE 1
          [] call.op = "strncmp" -> (value = 0) = (Start(s, call.n) = Start(t, call.n))
          [] call.op = "memcmp" -> strnlen(mem, call.a, call.n) = call.n
                                   /\ strnlen(mem, call.b, call.n) = call.n =>
               value = IF Start(s, call.n) = Start(t, call.n) THEN 0
                       ELSE IF Before(Start(s, call.n), Start(t, call.n)) THEN -1 ELSE 1

\* prepend moves a string over itself to make room: the result is the two
\* strings, ended, and the memory behind them is as it was.
PrependRight ==
    call.op = "prepend" =>
        LET joined == Text(mem, call.t) \o Text(mem, call.s) IN
        /\ Text(after, call.s) = joined
        /\ \A a \in Addresses : a < call.s \/ a > call.s + Len(joined) => after[a] = mem[a]

\* The value digits in a radix stand for, and that of a character.
Reading(digits, radix) ==
    LET v[k \in 0..Len(digits)] == IF k = 0 THEN 0 ELSE v[k - 1] * radix + digits[k]
    IN  v[Len(digits)]
DigitOf(c) == IF c >= 65 THEN c - 55 ELSE c - 48

\* itoa and itoah, which place digits from the right by a count ilog10 and
\* ilog16 make first, give the number without leading zeroes, also at every
\* power of the radix; getsize reads octal digits of fixed width.
NumbersRight ==
    /\ call.op = "itoa" =>
         LET t == Text(after, 0) IN
         /\ Reading([k \in DOMAIN t |-> DigitOf(t[k])], call.radix) = call.k
         /\ Len(t) > 1 => t[1] # 48
    /\ call.op = "octal" =>
         value = Reading([k \in DOMAIN call.in |-> DigitOf(call.in[k])], 8)

\* align_up is the least multiple at or above its argument.  In the last page
\* of the word it wraps to 0, and a caller asks for no pages at all.
AlignRight ==
    call.op = "align" =>
        /\ value % Page = 0
        /\ IF call.k > WordSize - Page THEN value = 0
           ELSE value >= call.k /\ value - call.k < Page

\* The archive's type test compares a one byte field with strlen of what
\* starts there.  It accepts the type it names with no link name behind it;
\* and also an empty field, which an old archive uses for a plain file and
\* which the first test, for directories, takes.
TarTypes ==
    call.op = "type" =>
        (value = 1) = (Text(mem, call.t) \in {<<>>, Text(mem, call.c)})

\* next_pow2 is the least power of two not below its argument, although its
\* shifts stop at 16 on a 64-bit word; next_pow2(0), which wraps twice, is 0.
NextPow2Right ==
    call.op = "kmalloc" =>
        LET p == next_pow2(Bits(call.k)) IN
        IF call.k = 0 THEN p = {}
        ELSE Cardinality(p) = 1 /\ Value(p) >= call.k /\ Value(p) < 2 * call.k

\* Every request below the limit gets the smallest cache that holds it: the
\* error branches of kmalloc (no cache, a cache that is too small) are dead
\* and at most half of an object is wasted above the smallest size.
SmallestFit ==
    call.op = "kmalloc" =>
        /\ value \in 1..Len(Sizes)
        /\ Sizes[value] >= call.k
        /\ value > 1 => Sizes[value - 1] < call.k
------------------------------------------------------------------------------
\* The routines that write memory, on copies that overlap themselves.
MemoryRight == CopiesRight /\ PrependRight

\* The comparisons of strings, and the archive's, which rests on one.
StringsRight == ComparesRight /\ TarTypes

\* Numbers, their digits, pages and size classes.
ArithmeticRight == NumbersRight /\ AlignRight /\ NextPow2Right /\ SmallestFit
==============================================================================

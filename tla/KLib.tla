---------------------------------- MODULE KLib ----------------------------------
(***************************************************************************)
(* The kernel's own memory, string and number routines (main.c), the octal *)
(* numbers of the archive (fs/tar.c) and page alignment (vmm.c).           *)
(*                                                                         *)
(* Memory is a function mem from addresses to bytes; a routine that writes *)
(* returns the new memory.  A loop is a recursive function of the number   *)
(* of its turns, so that every turn reads what the earlier ones wrote.     *)
(***************************************************************************)
EXTENDS Integers, Sequences, FiniteSetsExt

CONSTANT WordBits       \* bits of a uint64_t: 64 in the code

ASSUME WordAssumption == WordBits \in Nat \ {0}

\* for (i = 0; i < n; i++) pdest[i] = psrc[i]
Forward(mem, dest, src, n) ==
    LET turn[i \in 0..n] ==
            IF i = 0 THEN mem
            ELSE LET m == turn[i - 1] IN [m EXCEPT ![dest + i - 1] = m[src + i - 1]]
    IN  turn[n]

\* for (i = n; i > 0; i--) pdest[i-1] = psrc[i-1]
Backward(mem, dest, src, n) ==
    LET turn[i \in 0..n] ==
            IF i = 0 THEN mem
            ELSE LET m == turn[i - 1] IN [m EXCEPT ![dest + n - i] = m[src + n - i]]
    IN  turn[n]

memcpy(mem, dest, src, n) == Forward(mem, dest, src, n)

memset(mem, s, c, n) == [a \in DOMAIN mem |-> IF a \in s..(s + n - 1) THEN c % 256 ELSE mem[a]]

\* Mutant of memmove: it always copies upwards.
MemmoveForward(mem, dest, src, n) == Forward(mem, dest, src, n)

memmove(mem, dest, src, n) ==
    IF src > dest THEN Forward(mem, dest, src, n)
    ELSE IF src < dest THEN Backward(mem, dest, src, n)
    ELSE mem
------------------------------------------------------------------------------
(* Strings end at their first zero byte.                                   *)

\* The first turn at which a loop over two arrays stops, of those in turns;
\* limit if it does not.
FirstTurn(turns, limit) == IF turns = {} THEN limit ELSE Min(turns)

memcmp(mem, s1, s2, n) ==
    LET i == FirstTurn({k \in 0..(n - 1) : mem[s1 + k] # mem[s2 + k]}, n)
    IN  IF i = n THEN 0 ELSE IF mem[s1 + i] < mem[s2 + i] THEN -1 ELSE 1

\* for (s = str; *s; s++); the memory of a call has an end to its strings.
strlen(mem, str) == Min({a \in DOMAIN mem : a >= str /\ mem[a] = 0}) - str

strnlen(mem, s, maxlen) ==
    FirstTurn({k \in 0..(maxlen - 1) : s + k \in DOMAIN mem /\ mem[s + k] = 0}, maxlen)

\* A char of this target is signed.
Char(b) == IF b >= 128 THEN b - 256 ELSE b

\* The turn on which strcmp and strncmp stop: the bytes differ, or end.
Decided(mem, a, b) ==
    {k \in 0..Cardinality(DOMAIN mem) :
        /\ a + k \in DOMAIN mem /\ b + k \in DOMAIN mem
        /\ mem[a + k] # mem[b + k] \/ mem[a + k] = 0}

\* Mutant of strncmp: it goes on behind the end of the strings.
StrncmpNoEnd(mem, a, b, len) ==
    LET i == FirstTurn({k \in 0..(len - 1) : mem[a + k] # mem[b + k]}, len)
    IN  IF i >= len THEN 0 ELSE Char(mem[a + i]) - Char(mem[b + i])

strncmp(mem, a, b, len) ==
    LET i == FirstTurn(Decided(mem, a, b), len)
    IN  IF i >= len THEN 0 ELSE Char(mem[a + i]) - Char(mem[b + i])

strcmp(mem, s1, s2) ==
    LET i == Min(Decided(mem, s1, s2)) IN mem[s1 + i] - mem[s2 + i]

prepend(mem, s, t) ==
    LET len == strlen(mem, t)
    IN  memcpy(memmove(mem, s + len, s, strlen(mem, s) + 1), s, t, len)

\* Copies up to and with the zero; from does not lie in what is written.
strcpy(mem, to, from) == Forward(mem, to, from, strlen(mem, from) + 1)
------------------------------------------------------------------------------
(* Numbers.                                                                *)

\* ilog10 and ilog16: the divisions until number is 0, less one.
ilog(number, radix) ==
    LET x[n \in Nat] == IF n = 0 THEN 0 ELSE x[n \div radix] + 1
    IN  IF number = 0 THEN 0 ELSE x[number] - 1

\* digits[] and digitsh[]
Digit(d) == IF d < 10 THEN 48 + d ELSE 55 + d

\* itoa and itoah: turn i stores the last digit of what is left of number at
\* buffer[digitcnt - i]; a zero goes behind the last turn's index.
itoaRadix(mem, buffer, number, radix) ==
    LET digitcnt == ilog(number, radix)
        turn[i \in 0..(digitcnt + 1)] ==
            IF i = 0 THEN [mem |-> mem, number |-> number]
            ELSE [mem |-> [turn[i - 1].mem EXCEPT ![buffer + digitcnt - (i - 1)] =
                                Digit(turn[i - 1].number % radix)],
                  number |-> turn[i - 1].number \div radix]
    IN  [turn[digitcnt + 1].mem EXCEPT ![buffer + digitcnt + 1] = 0]

itoa(mem, buffer, number) == itoaRadix(mem, buffer, number, 10)
itoah(mem, buffer, number) == itoaRadix(mem, buffer, number, 16)

\* Octal digits, the last first; 11 of them in an archive.
getsize(in) ==
    LET turn[j \in 0..Len(in)] ==
            IF j = 0 THEN [size |-> 0, count |-> 1]
            ELSE [size |-> turn[j - 1].size + (in[Len(in) - j + 1] - 48) * turn[j - 1].count,
                  count |-> turn[j - 1].count * 8]
    IN  turn[Len(in)].size

WordSize == 2^WordBits

\* addr & ~(page_size - 1), for a page_size that is a power of two
align_down(addr, page_size) == addr - (addr % page_size)

align_up(addr, page_size) == align_down((addr + page_size - 1) % WordSize, page_size)

\* parse_tar_and_populate_tmpfs: strncmp(type, c, strlen(type)) == 0, where
\* type is one byte with the name of the link behind it.
TypeIs(mem, type, c) == strncmp(mem, type, c, strlen(mem, type)) = 0
==============================================================================

------------------------------- MODULE Keyboard -------------------------------
(***************************************************************************)
(* The keyboard path of Nyaux: ps2_handler (drivers/ps2.c) decodes scan    *)
(* codes in an interrupt handler and pushes events on a stack, which the   *)
(* kernel thread kthread_start (sched/sched.c) pops with interrupts on and *)
(* without a lock.  events and event_count are volatile, so every access   *)
(* of kthread_start is a step of its own, and the handler, which runs with *)
(* interrupts off, may come between any two of them.                       *)
(*                                                                         *)
(* External: the keyboard, which sends whole scan code sequences of set 1, *)
(* byte by byte.  Bytes are numbers; a printable character is named by its *)
(* index in us_qwerty_keyboard.  Events carry a serial number, id, that    *)
(* the program does not have; the properties use it.                       *)
(***************************************************************************)
EXTENDS Integers, Sequences

CONSTANTS
    CAP,        \* slots of events[]; 32 in the code
    Keys,       \* the scan code sequences the keyboard sends
    MaxKeys     \* bound: sequences sent in a behaviour

ASSUME KeyboardAssumption ==
    /\ CAP \in Nat /\ CAP >= 2
    /\ MaxKeys \in Nat

VARIABLES
    line,       \* bytes of the current key the keyboard has still to send
    current,    \* that key's whole sequence
    sent,       \* number of keys sent, the current one included
    key_buf,    \* key_buf[0 .. key_buf_count - 1]
    events,     \* events[0 .. CAP - 1]
    event_count,
    halted,     \* a kassert failed: kpanic
    pc,         \* where kthread_start is
    count,      \* its copy of event_count in event_count--
    index,      \* its copy of event_count in events[event_count]
    event,      \* its local copy of an event, field by field
    serial,     \* ids given so far
    shown,      \* ids the thread has finished with, in order
    raced       \* the handler pushed between the thread's load of
                \* event_count and the end of its copy of the event

kbdVars    == <<line, current, sent>>
threadVars == <<pc, count, index, event, shown>>
vars == <<line, current, sent, key_buf, events, event_count, halted,
          pc, count, index, event, serial, shown, raced>>

\* The scan codes us_qwerty_keyboard has a character for.
PrintableCodes == (2..13) \cup (16..27) \cup (30..41) \cup (43..53) \cup {55}

\* The table has 89 entries and is indexed with 0..127: beyond its end the
\* character is whatever follows in memory.
TableSize == 89

us_qwerty_keyboard(i) ==
    IF i >= TableSize THEN {0, 1}
    ELSE IF i \in PrintableCodes THEN {i} ELSE {0}

\* The keys ps2_handler names when the table has no character.
NamedKey(i) ==
    CASE i = 1  -> "KEY_ESCAPE"
      [] i = 14 -> "KEY_BACKSPACE"
      [] i = 15 -> "KEY_TAB"
      [] i = 28 -> "KEY_ENTER"
      [] i = 29 -> "KEY_LCTRL"
      [] i = 42 -> "KEY_LSHIFT"
      [] i = 54 -> "KEY_RSHIFT"
      [] OTHER  -> "KEY_UNKNOWN"

Event(ch, k, rel) == [printable |-> ch, key |-> k, released |-> rel]

PrintScreenMake  == <<224, 42, 224, 55>>            \* e0 2a e0 37
PrintScreenBreak == <<224, 183, 224, 170>>          \* e0 b7 e0 aa
PauseMake        == <<225, 29, 69, 225, 157, 197>>  \* e1 1d 45 e1 9d c5

\* The sequences of set 1: a byte; E0 and a byte; Print Screen and Pause.  The
\* false shifts some keyboards put around a cursor key (E0 2A, E0 B7) are not
\* among them.
ScanCodes ==
    {<<b>> : b \in (0..255) \ {224, 225}} \cup {<<224, b>> : b \in (0..255) \ {42, 183}}
    \cup {PrintScreenMake, PrintScreenBreak, PauseMake}

ASSUME KeysAssumption == Keys \subseteq ScanCodes

Wait == [used |-> 0, evs |-> <<>>]

\* Mutant of DecodeE0: the Print Screen sequences are not recognised.
DecodeE0NoPrintScreen(buf) ==
    IF Len(buf) = 1 THEN Wait
    ELSE [used |-> 2, evs |-> <<Event(0, "KEY_UNKNOWN", buf[2] >= 128)>>]

\* Print Screen is pressed or released with the last of its four bytes.
DecodePrintScreen(buf, whole, rel) ==
    IF Len(buf) > 3 /\ SubSeq(buf, 1, 4) = whole
    THEN [used |-> 4, evs |-> <<Event(0, "KEY_PRINTSCRN", rel)>>]
    ELSE Wait

\* A buffer that starts with 0xE0.
DecodeE0(buf) ==
    IF Len(buf) = 1 THEN Wait
    ELSE IF buf[2] = 42 THEN DecodePrintScreen(buf, PrintScreenMake, FALSE)
    ELSE IF buf[2] = 183 THEN DecodePrintScreen(buf, PrintScreenBreak, TRUE)
    ELSE [used |-> 2, evs |-> <<Event(0, "KEY_UNKNOWN", buf[2] >= 128)>>]

\* Mutant of DecodeE1: four bytes of the six are removed.
DecodeE1Short(buf) ==
    IF Len(buf) > 5 /\ SubSeq(buf, 1, 6) = PauseMake
    THEN [used |-> 4, evs |-> <<Event(0, "KEY_PAUSE", FALSE), Event(0, "KEY_PAUSE", TRUE)>>]
    ELSE Wait

\* A buffer that starts with 0xE1.
DecodeE1(buf) ==
    IF Len(buf) > 5 /\ SubSeq(buf, 1, 6) = PauseMake
    THEN [used |-> 6, evs |-> <<Event(0, "KEY_PAUSE", FALSE), Event(0, "KEY_PAUSE", TRUE)>>]
    ELSE Wait

\* Any other buffer: one byte, one event.
DecodeByte(b) ==
    {[used |-> 1,
      evs  |-> <<Event(ch, IF ch = 0 THEN NamedKey(b % 128) ELSE "KEY_UNKNOWN", b >= 128)>>] :
        ch \in us_qwerty_keyboard(b % 128)}

\* What ps2_handler can make of the buffer with the new byte in it: the bytes
\* it removes from key_buf_count and the events it pushes.
Decode(buf) ==
    CASE buf[1] = 224 -> {DecodeE0(buf)}
      [] buf[1] = 225 -> {DecodeE1(buf)}
      [] OTHER -> DecodeByte(buf[1])
------------------------------------------------------------------------------
NoEvent == [id |-> 0, printable |-> 0, key |-> "KEY_ESCAPE", released |-> FALSE]

Init ==
    /\ line = <<>> /\ current = <<>> /\ sent = 0
    /\ key_buf = <<>>
    /\ events = [i \in 0..(CAP - 1) |-> NoEvent]
    /\ event_count = 0
    /\ halted = FALSE
    /\ pc = "test" /\ count = 0 /\ index = 0
    /\ event = [pid |-> 0, printable |-> 0, kid |-> 0, key |-> "KEY_ESCAPE"]
    /\ serial = 0 /\ shown = <<>> /\ raced = FALSE

\* External: a key is pressed or released.
SendKey ==
    /\ line = <<>>
    /\ sent < MaxKeys
    /\ \E k \in Keys : line' = k /\ current' = k
    /\ sent' = sent + 1
    /\ UNCHANGED <<key_buf, events, event_count, halted, serial, raced, threadVars>>

\* The thread is between its load of event_count and the end of its copy.
Popping == pc \in {"store", "index", "printable", "key"}

\* events[event_count++] = ..., once per event.
Push(evs) ==
    LET n == Len(evs) IN
    /\ events' = [i \in 0..(CAP - 1) |->
                    IF event_count <= i /\ i < event_count + n
                    THEN LET k == i - event_count + 1 IN
                         [id |-> serial + k, printable |-> evs[k].printable,
                          key |-> evs[k].key, released |-> evs[k].released]
                    ELSE events[i]]
    /\ event_count' = event_count + n
    /\ serial' = serial + n
    /\ raced' = (raced \/ (n > 0 /\ Popping))

\* Mutant of Room: the assertion allows one event too many.
RoomOffByOne(evs) == evs = <<>> \/ event_count + (Len(evs) - 1) <= CAP

\* kassert(event_count < 32), or event_count + 1 < 32 before two pushes.
Room(evs) == evs = <<>> \/ event_count + (Len(evs) - 1) < CAP

\* One keyboard interrupt.
Ps2Handler ==
    /\ ~halted
    /\ line # <<>>
    /\ line' = Tail(line)
    /\ LET buf == Append(key_buf, Head(line)) IN
       \E r \in Decode(buf) :
          /\ key_buf' = SubSeq(buf, 1, Len(buf) - r.used)
          /\ IF Room(r.evs)
             THEN Push(r.evs) /\ UNCHANGED halted
             ELSE halted' = TRUE /\ UNCHANGED <<events, event_count, serial, raced>>
    /\ UNCHANGED <<current, sent, threadVars>>
------------------------------------------------------------------------------
(* kthread_start, one volatile access at a time.                           *)

KAt(l) == pc = l /\ ~halted

others == <<kbdVars, key_buf, halted, serial, raced, events>>

\* Mutant of KTest: a test that leaves one event behind.
KTestOffByOne ==
    /\ KAt("test")
    /\ event_count > 1
    /\ pc' = "load"
    /\ UNCHANGED <<others, event_count, count, index, event, shown>>

\* if (event_count > 0); otherwise the loop goes round.
KTest ==
    /\ KAt("test")
    /\ event_count > 0
    /\ pc' = "load"
    /\ UNCHANGED <<others, event_count, count, index, event, shown>>

\* event_count--: the load, and the store.
KLoad ==
    /\ KAt("load")
    /\ count' = event_count
    /\ pc' = "store"
    /\ UNCHANGED <<others, event_count, index, event, shown>>

KStore ==
    /\ KAt("store")
    /\ event_count' = count - 1
    /\ pc' = "index"
    /\ UNCHANGED <<others, count, index, event, shown>>

\* Mutant of KIndex: the event above the popped one is read.
KIndexStale ==
    /\ KAt("index")
    /\ index' = count
    /\ pc' = "printable"
    /\ UNCHANGED <<others, event_count, count, event, shown>>

\* events[event_count]: the load of the index, then of the fields.
KIndex ==
    /\ KAt("index")
    /\ index' = event_count
    /\ pc' = "printable"
    /\ UNCHANGED <<others, event_count, count, event, shown>>

\* A read of events[CAP] finds whatever follows the array.
Slot(i) == IF i < CAP THEN {events[i]} ELSE {[NoEvent EXCEPT !.printable = p] : p \in {0, 1}}

KReadPrintable ==
    /\ KAt("printable")
    /\ \E e \in Slot(index) :
         event' = [event EXCEPT !.pid = e.id, !.printable = e.printable]
    /\ pc' = "key"
    /\ UNCHANGED <<others, event_count, count, index, shown>>

KReadKey ==
    /\ KAt("key")
    /\ \E e \in Slot(index) : event' = [event EXCEPT !.kid = e.id, !.key = e.key]
    /\ pc' = "show"
    /\ UNCHANGED <<others, event_count, count, index, shown>>

\* The event is printed, or is the Escape key, or is dropped; released is
\* not looked at.
KShow ==
    /\ KAt("show")
    /\ shown' = Append(shown, event.pid)
    /\ pc' = "test"
    /\ UNCHANGED <<others, event_count, count, index, event>>

KthreadStart == KTest \/ KLoad \/ KStore \/ KIndex \/ KReadPrintable \/ KReadKey \/ KShow

\* kpanic, or the keyboard is done and the thread polls an empty stack.
Idle ==
    /\ halted \/ (line = <<>> /\ sent = MaxKeys /\ KAt("test") /\ event_count = 0)
    /\ UNCHANGED vars

Next == SendKey \/ Ps2Handler \/ KthreadStart \/ Idle

Spec == Init /\ [][Next]_vars

\* Module Sched shows that the thread is scheduled again and again; a byte the
\* keyboard has sent raises its interrupt.
FairSpec == Spec /\ WF_vars(KthreadStart) /\ WF_vars(Ps2Handler)
------------------------------------------------------------------------------
(* Properties.                                                             *)

KeyNames == {"KEY_ESCAPE", "KEY_BACKSPACE", "KEY_TAB", "KEY_ENTER", "KEY_LCTRL",
             "KEY_LSHIFT", "KEY_RSHIFT", "KEY_PRINTSCRN", "KEY_PAUSE", "KEY_UNKNOWN"}

\* Every variable holds a value of its kind; event_count is never negative.
TypeOK ==
    /\ line \in Seq(0..255) /\ current \in Seq(0..255) /\ sent \in 0..MaxKeys
    /\ key_buf \in Seq(0..255)
    /\ events \in [0..(CAP - 1) ->
                     [id: Nat, printable: 0..127, key: KeyNames, released: BOOLEAN]]
    /\ event_count \in Nat
    /\ halted \in BOOLEAN
    /\ pc \in {"test", "load", "store", "index", "printable", "key", "show"}
    /\ count \in Nat /\ index \in Nat
    /\ event \in [pid: Nat, printable: 0..127, kid: Nat, key: KeyNames]
    /\ serial \in Nat /\ shown \in Seq(Nat) /\ raced \in BOOLEAN

\* The stack never grows beyond events[] and the thread never pops an empty
\* one, in every interleaving of ps2_handler with the unlocked event_count--.
\* The thread's read misses the array by one slot at most.
CountBounded == event_count \in 0..CAP /\ index \in 0..CAP

\* Between interrupts key_buf holds exactly the bytes of the key in progress
\* and is empty after a whole key: no byte of a long sequence is taken for a
\* key of its own, and none is left behind to spoil the next key.
DecoderInSync ==
    IF line = <<>> THEN key_buf = <<>> ELSE key_buf \o line = current

\* Each key the keyboard sends yields its events once, with its last byte: a
\* press or a release, or both for Pause, which has no release code.
EachKeyOnce ==
    [][(line # <<>> /\ line' = Tail(line) /\ ~halted') =>
         /\ serial' - serial = IF line' # <<>> THEN 0
                               ELSE IF current = PauseMake THEN 2 ELSE 1
         /\ line' = <<>> => events'[event_count' - 1].released = (Head(line) >= 128)]_vars

\* The event the thread has taken off the stack and not shown yet.
InHand ==
    CASE pc = "index" -> <<events[event_count].id>>
      [] pc \in {"printable", "key"} -> <<events[index].id>>
      [] pc = "show" -> <<event.pid>>
      [] OTHER -> <<>>

\* As long as no interrupt pushed between the thread's load of event_count and
\* the end of its copy, every event is on the stack, in the thread's hands or
\* shown, exactly once, and no shown event is put together from two.
NoLossWithoutRace ==
    ~raced =>
        LET all == [i \in 1..event_count |-> events[i - 1].id] \o InHand \o shown IN
        /\ Len(all) = serial
        /\ {all[i] : i \in 1..Len(all)} = 1..serial
        /\ pc = "show" => event.pid = event.kid

\* Once the keyboard is quiet the thread empties the stack, raced or not,
\* unless a kassert stopped the kernel.
Drained == <>[](halted \/ (line = <<>> /\ event_count = 0))
------------------------------------------------------------------------------
\* The inductive invariant behind CountBounded: only the thread decrements,
\* so what it saw positive stays positive until it stores, and what it stores
\* is below what it loaded.
CountInv ==
    /\ event_count \in 0..CAP
    /\ index \in 0..CAP
    /\ count \in 0..CAP
    /\ pc \in {"test", "load", "store", "index", "printable", "key", "show"}
    /\ pc = "load" => event_count > 0
    /\ pc = "store" => count > 0

\* The state between two steps: types, the count and the thread's copies of it,
\* and a decoder in step with the keyboard.
KeyboardInv == TypeOK /\ CountInv /\ DecoderInSync
==============================================================================

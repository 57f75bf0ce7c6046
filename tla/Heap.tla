--------------------------------- MODULE Heap ---------------------------------
(***************************************************************************)
(* Kernel memory below one page (pmm.c): the list of free physical pages   *)
(* and the slab caches built from them.                                    *)
(*                                                                         *)
(* Linked lists are sequences: head is the list of free pages, slabs[c]    *)
(* the Headers of cache c, freelist[p] the free objects of the slab in     *)
(* page p.  An object is <<p, i>>, the i-th (from 0) behind page p's       *)
(* header.  Every operation runs with interrupts off (module Sched), so    *)
(* each is one step; krealloc, which calls two of them, is two steps with  *)
(* nothing in between.                                                     *)
(*                                                                         *)
(* The callers (the VFS, the ELF loader, the scheduler, uACPI, the VMM)    *)
(* free what they were given, once: live and held are theirs.  They give   *)
(* krealloc the size they asked for and ask for more, as its one caller    *)
(* does (vnode_rdwr, tmpfs.c:131-137): a smaller one would not hold what   *)
(* memcpy copies.  Requests of 1024 bytes and more go to the VMM and are   *)
(* not in this module.                                                     *)
(***************************************************************************)
EXTENDS SizeClass, SequencesExt

CONSTANTS
    MemMap,     \* Limine's memory map: <<[usable, base, length]...>>, in pages
    PageSize,   \* 4096 in the code
    Requests    \* sizes the callers ask kmalloc for

HeaderSize == 24    \* sizeof(struct Header)

Caches == 1..Len(Sizes)

ObjAmount(s) == (PageSize - HeaderSize) \div s

PagesOf(e) == e.base .. (e.base + e.length - 1)

\* The pages of the usable ones of the first n entries, and of all.
UsablePages(n) == UNION {PagesOf(MemMap[i]) : i \in {j \in 1..n : MemMap[j].usable}}
Pages == UsablePages(Len(MemMap))

\* Limine's entries are not empty and do not overlap; a slab holds an object;
\* kmalloc finds a cache for what it is asked for, which run library shows for
\* the code's sizes.
ASSUME HeapAssumption ==
    /\ MemMap \in Seq([usable: BOOLEAN, base: Nat, length: Nat \ {0}])
    /\ \A m, n \in 1..Len(MemMap) :
          m # n => PagesOf(MemMap[m]) \cap PagesOf(MemMap[n]) = {}
    /\ PageSize \in Nat
    /\ PageSize - HeaderSize >= SlabLimit
    /\ Requests \subseteq 0..(SlabLimit - 1)
    /\ \A n \in Requests : CacheFor(n) \in Caches

VARIABLES
    head,       \* the free pages
    slabs,      \* slabs[c]: the pages of kmalloc_cache[c].slabs, in list order
    size,       \* size[p]: Header.size of page p, 0 if it never was a slab
    freelist,   \* freelist[p]: Header.freelist of page p
    linked,     \* entries of the memory map pmm_init has been through
    ready,      \* caches init_slabs has made
    live,       \* objects the callers hold
    asked,      \* asked[o]: the size kmalloc was asked for, of o in live
    lost,       \* objects krealloc has replaced and not freed
    held,       \* pages the callers hold
    moving,     \* the old object of a krealloc in progress, or <<>>
    halted      \* "Out of Memory!"

vars == <<head, slabs, size, freelist, linked, ready, live, asked, lost,
          held, moving, halted>>

Init ==
    /\ head = <<>> /\ linked = 0
    /\ slabs = [c \in Caches |-> <<>>]
    /\ size = [p \in Pages |-> 0]
    /\ freelist = [p \in Pages |-> <<>>]
    /\ ready = 0
    /\ live = {} /\ asked = [o \in live |-> 0] /\ lost = {}
    /\ held = {} /\ moving = <<>>
    /\ halted = FALSE

\* The pages of an entry, in the order pmm_init links them.
PageList(e) == [k \in 1..e.length |-> e.base + k - 1]

\* One turn of pmm_init: the pages of a usable entry go to the end of the list.
PmmInitEntry ==
    /\ linked < Len(MemMap)
    /\ linked' = linked + 1
    /\ head' = IF MemMap[linked'].usable THEN head \o PageList(MemMap[linked']) ELSE head
    /\ UNCHANGED <<slabs, size, freelist, ready, live, asked, lost, held, moving, halted>>

Running == ~halted /\ ready = Len(Sizes)

\* pmm_alloc_singlep finds no page.
OutOfMemory ==
    /\ head = <<>>
    /\ halted' = TRUE
    /\ UNCHANGED <<head, slabs, size, freelist, linked, ready, live, asked, lost, held, moving>>

\* The objects of a new slab of size s, in the order they are linked.
Fresh(s) == [k \in 1..ObjAmount(s) |-> k - 1]

\* Mutants of NewSlab: the object that goes to a caller stays on the list, and
\* the header keeps the size it had.
NewSlabTakenStays(c, taken) ==
    LET p == Head(head) IN
    /\ head # <<>>
    /\ head' = Tail(head)
    /\ slabs' = [slabs EXCEPT ![c] = Append(@, p)]
    /\ size' = [size EXCEPT ![p] = Sizes[c]]
    /\ freelist' = [freelist EXCEPT ![p] = Fresh(Sizes[c])]

NewSlabNoSize(c, taken) ==
    LET p == Head(head) IN
    /\ head # <<>>
    /\ head' = Tail(head)
    /\ slabs' = [slabs EXCEPT ![c] = Append(@, p)]
    /\ UNCHANGED size
    /\ freelist' = [freelist EXCEPT ![p] = SubSeq(Fresh(Sizes[c]), taken + 1, ObjAmount(Sizes[c]))]

\* A page from pmm_alloc_singlep becomes the last slab of cache c: init_cache,
\* and make_slab with the link slab_alloc makes to it.  taken is the number of
\* objects that go to a caller at once.
NewSlab(c, taken) ==
    LET p == Head(head) IN
    /\ head # <<>>
    /\ head' = Tail(head)
    /\ slabs' = [slabs EXCEPT ![c] = Append(@, p)]
    /\ size' = [size EXCEPT ![p] = Sizes[c]]
    /\ freelist' = [freelist EXCEPT ![p] = SubSeq(Fresh(Sizes[c]), taken + 1, ObjAmount(Sizes[c]))]

InitCache ==
    /\ ~halted
    /\ linked = Len(MemMap) /\ ready < Len(Sizes)
    /\ \/ /\ NewSlab(ready + 1, 0)
          /\ ready' = ready + 1
          /\ UNCHANGED <<linked, live, asked, lost, held, moving, halted>>
       \/ OutOfMemory

\* A caller takes a page: a stack, a page table, a page of a region.
PmmAllocSinglep ==
    /\ Running /\ moving = <<>>
    /\ \/ /\ head # <<>>
          /\ head' = Tail(head)
          /\ held' = held \cup {Head(head)}
          /\ UNCHANGED <<slabs, size, freelist, linked, ready, live, asked, lost, moving, halted>>
       \/ OutOfMemory

\* Mutant of PmmFreeSinglep: the old list is not linked behind the page.
PmmFreeSinglepUnlinked(p) ==
    /\ Running /\ moving = <<>>
    /\ p \in held
    /\ head' = <<p>>
    /\ held' = held \ {p}
    /\ UNCHANGED <<slabs, size, freelist, linked, ready, live, asked, lost, moving, halted>>

PmmFreeSinglep(p) ==
    /\ Running /\ moving = <<>>
    /\ p \in held
    /\ head' = <<p>> \o head
    /\ held' = held \ {p}
    /\ UNCHANGED <<slabs, size, freelist, linked, ready, live, asked, lost, moving, halted>>

\* The slabs of cache c that have a free object, by their place in the list.
WithFree(c) == {k \in 1..Len(slabs[c]) : freelist[slabs[c][k]] # <<>>}

\* slab_alloc takes from the first slab that can give, or makes a new one.
SlabAlloc(c) ==
    \/ /\ WithFree(c) # {}
       /\ LET p == slabs[c][Min(WithFree(c))] IN
          /\ freelist' = [freelist EXCEPT ![p] = Tail(@)]
          /\ live' = live \cup {<<p, Head(freelist[p])>>}
       /\ UNCHANGED <<head, slabs, size>>
    \/ /\ WithFree(c) = {}
       /\ NewSlab(c, 1)
       /\ live' = live \cup {<<Head(head), 0>>}

\* The object that has become live was asked for with n bytes.
AskedFor(n) == asked' = [o \in live' |-> IF o \in live THEN asked[o] ELSE n]

Kmalloc(n) ==
    /\ Running /\ moving = <<>>
    /\ \/ /\ SlabAlloc(CacheFor(n))
          /\ AskedFor(n)
          /\ UNCHANGED <<linked, ready, lost, held, moving, halted>>
       \/ /\ WithFree(CacheFor(n)) = {}
          /\ OutOfMemory

\* free: the object goes back to the front of its slab's list.  The header is
\* at the start of the object's page; its size names the cache.  If no cache
\* has that size nothing happens; if the slab is not on the cache's list it is
\* put at its end.
Free(o) ==
    LET p == o[1]
        right == {c \in Caches : Sizes[c] = size[p]}
    IN  IF right = {} THEN UNCHANGED <<slabs, freelist>>
        ELSE /\ freelist' = [freelist EXCEPT ![p] = <<o[2]>> \o @]
             /\ slabs' = [slabs EXCEPT ![Max(right)] =
                            IF p \in ToSet(@) THEN @ ELSE Append(@, p)]

\* kfree of an object from a slab.
Kfree(o) ==
    /\ Running /\ moving = <<>>
    /\ o \in live
    /\ Free(o)
    /\ live' = live \ {o}
    /\ asked' = Restrict(asked, live')
    /\ UNCHANGED <<head, size, linked, ready, lost, held, moving, halted>>

\* krealloc of o to n bytes: the new object first.
KreallocAlloc(o, n) ==
    /\ Running /\ moving = <<>>
    /\ o \in live /\ n > asked[o]
    /\ \/ /\ SlabAlloc(CacheFor(n))
          /\ AskedFor(n)
          /\ moving' = o
          /\ UNCHANGED <<linked, ready, lost, held, halted>>
       \/ /\ WithFree(CacheFor(n)) = {}
          /\ OutOfMemory

\* Then the old one is copied and freed, unless its size was 0: krealloc tests
\* oldsz > 0, and nobody has that object any more.
KreallocFree ==
    /\ Running /\ moving # <<>>
    /\ \/ /\ asked[moving] > 0
          /\ Free(moving)
          /\ UNCHANGED lost
       \/ /\ asked[moving] = 0
          /\ lost' = lost \cup {moving}
          /\ UNCHANGED <<slabs, freelist>>
    /\ live' = live \ {moving}
    /\ asked' = Restrict(asked, live')
    /\ moving' = <<>>
    /\ UNCHANGED <<head, size, linked, ready, held, halted>>

\* The loop behind "Out of Memory!".
Halt == halted /\ UNCHANGED vars

Next ==
    \/ PmmInitEntry
    \/ InitCache
    \/ PmmAllocSinglep
    \/ \E p \in held : PmmFreeSinglep(p)
    \/ \E n \in Requests : Kmalloc(n)
    \/ \E o \in live : Kfree(o)
    \/ \E o \in live, n \in Requests : KreallocAlloc(o, n)
    \/ KreallocFree
    \/ Halt

Spec == Init /\ [][Next]_vars
------------------------------------------------------------------------------
(* Properties.                                                             *)

SlabPages == UNION {ToSet(slabs[c]) : c \in Caches}

Objects(p) == {<<p, i>> : i \in 0..(ObjAmount(size[p]) - 1)}

\* Every variable holds a value of its kind.
TypeOK ==
    /\ head \in Seq(Pages)
    /\ slabs \in [Caches -> Seq(Pages)]
    /\ size \in [Pages -> Nat]
    /\ freelist \in [Pages -> Seq(Nat)]
    /\ linked \in 0..Len(MemMap) /\ ready \in 0..Len(Sizes)
    /\ live \subseteq Pages \X Nat
    /\ asked \in [live -> Requests]
    /\ lost \subseteq Pages \X Nat
    /\ held \subseteq Pages
    /\ moving \in live \cup {<<>>}
    /\ halted \in BOOLEAN

\* Every usable page pmm_init has come to is in exactly one place: on the free
\* list, once; a slab of one cache, once; or with a caller.  No page is lost and
\* none is given out twice.
PagesConserved ==
    /\ ToSet(head) \cup SlabPages \cup held = UsablePages(linked)
    /\ ToSet(head) \cap SlabPages = {}
    /\ ToSet(head) \cap held = {}
    /\ SlabPages \cap held = {}
    /\ IsInjective(head)
    /\ \A c \in Caches : IsInjective(slabs[c])
    /\ \A c, d \in Caches : c # d => ToSet(slabs[c]) \cap ToSet(slabs[d]) = {}

\* The objects given out and not freed.
InUse == live \cup lost

\* Every object of every slab is in exactly one place: free, once; with a
\* caller; or lost in a krealloc whose old object had size 0.  kmalloc never
\* returns an object that someone still holds, whose contents would then be
\* the allocator's list, and free and krealloc lose no other.
ObjectsConserved ==
    /\ \A p \in SlabPages :
          LET free == {<<p, i>> : i \in ToSet(freelist[p])} IN
          /\ IsInjective(freelist[p])
          /\ free \cap InUse = {}
          /\ free \cup {o \in InUse : o[1] = p} = Objects(p)
    /\ \A o \in InUse : o[1] \in SlabPages
    /\ live \cap lost = {}

\* The header of a slab names the cache it is linked in, so free finds the
\* right list and both of its fallbacks (no such size, slab not on the list)
\* are dead.
HeadersRight == \A c \in Caches : \A p \in ToSet(slabs[c]) : size[p] = Sizes[c]

\* Types, and headers that lead free to its cache.
HeapInv == TypeOK /\ HeadersRight

\* What the comments of free say: a slab whose last object was given out is
\* taken off the list, for free to put it back.  slab_alloc has no such step.
FullSlabUnlinked ==
    \A c \in Caches : \A p \in ToSet(slabs[c]) : freelist[p] # <<>>
==============================================================================

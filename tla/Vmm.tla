---------------------------------- MODULE Vmm ----------------------------------
(***************************************************************************)
(* Virtual memory (vmm.c): the page tables, the list of regions of every   *)
(* page map, and the physical pages both are made of.  The kernel's map    *)
(* serves kmalloc from 1024 bytes up; a program's map is filled by         *)
(* load_elf_program (elf/elf.c) and by syscall_mmap (syscall/syscall.c).   *)
(*                                                                         *)
(* Addresses are page numbers.  A virtual page has four indices below Fan  *)
(* (512 in the code); the upper half of a pml4 is the kernel's.  ent[p] is *)
(* what page p holds when it is read as a table, and flags[p] the bits of  *)
(* its entries that programs can tell: USER and XD.  stale is what the TLB *)
(* may still hold of mappings that are gone.  Every operation runs with    *)
(* interrupts off (module Sched) and is one step.                          *)
(*                                                                         *)
(* A program may ask mmap for any address and any size.  strayed, which    *)
(* the program does not have, remembers the maps with a request that went  *)
(* out of the program's half or over what an int offset can hold; most     *)
(* properties are about runs without one.                                  *)
(***************************************************************************)
EXTENDS Integers, SequencesExt

CONSTANTS
    Kernel,         \* kernel_pagemap
    Users,          \* the page maps of programs
    Fan,            \* entries of a table
    Pages,          \* number of physical pages the PMM manages: 1..Pages
    LowPages,       \* pages below 4 GiB: 2^20
    MemoryMap,      \* the entries of the boot loader's memory map that vmm_init
                    \* maps: <<[base, length]...>>
    ImageLength,    \* pages of the kernel image, at the top of memory
    NodesPerSlab,   \* struct vmm_region objects in one slab
    KernelSizes,    \* sizes kmalloc passes on
    Hole,           \* pages between the halves of the 64-bit address space
    IntPages,       \* 2^31: no int is that large
    OffsetPages,    \* 2^19: the first i for which an int cannot hold i * 0x1000
    OffsetWraps,    \* whether the build computes that i * 0x1000 in 32 bits
    UserSizes,      \* sizes of syscall_mmap
    Hints,          \* addresses of syscall_mmap with MAP_FIXED
    Segments,       \* the PT_LOAD segments of a program, then of its
                    \* interpreter: <<[base, length]...>>
    Stack,          \* [base, length] of NEW_THREAD_STACK
    MaxRegions      \* bound: regions kmalloc, or mmap, has made in one map

Maps == {Kernel} \cup Users
Phys == 1..Pages

Slot == Fan * Fan * Fan                 \* pages under one entry of a pml4
AddressSpace == Fan * Slot
Virt == 0..(AddressSpace - 1)
UserSlots == Fan \div 2                 \* the lower half of a pml4
HhdmBase == UserSlots * Slot
ImageBase == AddressSpace - ImageLength

\* The pages of 64-bit addresses.  Page numbers are those of the 48 bits that
\* are translated, in which the halves are neighbours.
PageSpace == AddressSpace + Hole

End(r) == r.base + r.length

\* The length of the HHDM's region: hhdm_pages counts every entry, each up to
\* 4 GiB, and the low 4 GiB once more.
HhdmLength ==
    LET sum[k \in 0..Len(MemoryMap)] ==
            IF k = 0 THEN LowPages ELSE sum[k - 1] + Min({MemoryMap[k].length, LowPages})
    IN  sum[Len(MemoryMap)]

\* No entry of the memory map ends above that sum.
HhdmCovers == \A k \in 1..Len(MemoryMap) : End(MemoryMap[k]) <= HhdmLength

\* What entries can lead to: the memory of the PMM and the image behind it, or
\* whatever else the HHDM covers.
Frames == 0..(Pages + HhdmLength + ImageLength)

NONE == -1      \* an entry that is not present
WILD == -2      \* a present entry nobody wrote: what the page held before

ASSUME VmmAssumption ==
    /\ Kernel \notin Users
    /\ Fan \in Nat /\ Fan >= 4 /\ Fan % 2 = 0
    /\ Pages \in Nat \ {0} /\ LowPages \in Nat \ {0} /\ ImageLength \in Nat \ {0}
    /\ NodesPerSlab \in Nat \ {0}
    /\ MemoryMap \in Seq([base: Nat, length: Nat])
    /\ HhdmLength + Pages < Slot            \* Memory is far below 512 GiB,
    /\ ImageLength <= Slot                  \* as is the image,
    /\ Pages < IntPages                     \* and below 8 TiB.
    /\ Hole \in Nat /\ Hole % AddressSpace = 0
    /\ IntPages \in Nat /\ OffsetPages \in 1..(IntPages - 1) /\ 2 * IntPages < PageSpace
    /\ OffsetWraps \in BOOLEAN
    /\ KernelSizes \subseteq 1..(PageSpace - 1) /\ UserSizes \subseteq 0..(PageSpace - 1)
    /\ Hints \subseteq 0..(PageSpace - 1) /\ MaxRegions \in Nat
    \* The heap fits the rest of the HHDM's slot, with as much between its
    \* regions as they are long.
    /\ \A n \in KernelSizes : n <= Pages => HhdmLength + 2 * MaxRegions * n <= Slot
    \* The stack and the segments are in the program's half.
    /\ Stack \in [base: Nat, length: 0..OffsetPages] /\ Stack.base + Stack.length <= HhdmBase
    /\ Segments \in Seq([base: 0..(HhdmBase - 1), length: 1..OffsetPages])
    \* A linker lays no segment over another, or into the kernel's half.
    /\ \A g \in 1..Len(Segments) : Segments[g].base + Segments[g].length <= HhdmBase
    /\ \A g, h \in 1..Len(Segments) : g # h =>
          \/ Segments[g].base + Segments[g].length <= Segments[h].base
          \/ Segments[h].base + Segments[h].length <= Segments[g].base

VARIABLES
    head,       \* the free physical pages, in the order of the PMM's list
    ent,        \* ent[p][i]: entry i of the table in page p
    flags,      \* flags[p][i]: which of "user" and "xd" it has
    stale,      \* <<v, p>>: v led to p, and the TLB may not know that it is over
    pml4,       \* pml4[m]: the page of m's top table, NONE before new_pagemap
    regions,    \* regions[m]: m's list of [base, length]
    nodes,      \* free struct vmm_region objects
    loaded,     \* loaded[u]: segments of u loaded; one more with the stack
    strayed,    \* maps with a request that left its half or its int
    halted      \* "no", or why the kernel stopped

vars == <<head, ent, flags, stale, pml4, regions, nodes, loaded, strayed, halted>>

Blank == [i \in 0..(Fan - 1) |-> NONE]
NoFlags == [i \in 0..(Fan - 1) |-> {}]

\* PRESENT and RW, which every mapping has; with USER; with XD, too.
KernelFlags == {}
UserFlags == {"user"}
NoExecFlags == {"user", "xd"}
------------------------------------------------------------------------------
(* Page tables.  s is the memory as an operation goes along: the free      *)
(* pages, the tables and their flags, the TLB, the free region objects,    *)
(* the table it has walked to, and whether it had to stop.                 *)

\* The pages under one entry of a table of the given level.
Span == <<1, Fan, Fan * Fan, Slot>>

Index(v, level) == (v \div Span[level]) % Fan

\* Mutant of get_next_table: the flags of an entry that is there grow, too.
GetNextTableAddsFlags(s, i, f) ==
    LET e == s.ent[s.at][i] IN
    IF s.stop # "no" THEN s
    ELSE IF e = WILD THEN [s EXCEPT !.stop = "wild"]
    ELSE IF e # NONE THEN [s EXCEPT !.at = e, !.flags[s.at][i] = @ \cup f]
    ELSE IF s.free = <<>> THEN [s EXCEPT !.stop = "memory"]
    ELSE LET q == Head(s.free) IN
         [s EXCEPT !.free = Tail(@), !.at = q,
                   !.ent = [@ EXCEPT ![q] = Blank, ![s.at][i] = q],
                   !.flags = [@ EXCEPT ![q] = NoFlags, ![s.at][i] = f]]

\* The next table, made if there is none, with the flags of the mapping it is
\* made for.  A present entry that nobody wrote leads into memory the model
\* does not have.
get_next_table(s, i, f) ==
    LET e == s.ent[s.at][i] IN
    IF s.stop # "no" THEN s
    ELSE IF e = WILD THEN [s EXCEPT !.stop = "wild"]
    ELSE IF e # NONE THEN [s EXCEPT !.at = e]
    ELSE IF s.free = <<>> THEN [s EXCEPT !.stop = "memory"]
    ELSE LET q == Head(s.free) IN
         [s EXCEPT !.free = Tail(@), !.at = q,
                   !.ent = [@ EXCEPT ![q] = Blank, ![s.at][i] = q],
                   !.flags = [@ EXCEPT ![q] = NoFlags, ![s.at][i] = f]]

\* cur_table on the way of map: the tables above v, made where there are none.
Lvl3Table(s, root, v, f) == get_next_table([s EXCEPT !.at = root], Index(v, 4), f)
Lvl2Table(s, root, v, f) == get_next_table(Lvl3Table(s, root, v, f), Index(v, 3), f)
Lvl1Table(s, root, v, f) == get_next_table(Lvl2Table(s, root, v, f), Index(v, 2), f)

\* map: the entry of v becomes p, whatever it was; the TLB is not told.
map(s, root, v, p, f) ==
    LET t == Lvl1Table(s, root, v, f)
        i == Index(v, 1)
        old == t.ent[t.at][i]
    IN  IF t.stop # "no" THEN t
        ELSE [t EXCEPT !.ent[t.at][i] = p, !.flags[t.at][i] = f,
                       !.stale = IF old < 0 \/ old = p THEN @ ELSE @ \cup {<<v, old>>}]

\* A zeroed page of the PMM, mapped at v.
MapFresh(s, root, v, f) ==
    IF s.stop # "no" THEN s
    ELSE IF s.free = <<>> THEN [s EXCEPT !.stop = "memory"]
    ELSE map([s EXCEPT !.free = Tail(@)], root, v, Head(s.free), f)

\* i * 0x1000 for int i, in pages.  From OffsetPages on the product overflows;
\* a build adds the true one to the 64-bit base, or the one of 32 bits.
Offset(i) ==
    IF i < OffsetPages \/ ~OffsetWraps THEN i
    ELSE ((i + OffsetPages) % (2 * OffsetPages)) - OffsetPages

\* The n turns of the loop of mmap_range, and of those like it.
mmap_range(s, root, base, n, f) ==
    LET turn[k \in 0..n] ==
            IF k = 0 THEN s
            ELSE MapFresh(turn[k - 1], root, (base + Offset(k - 1)) % AddressSpace, f)
    IN  turn[n]

\* int num_of_pages of n pages: their number modulo 2^32, as signed.
num_of_pages(n) ==
    LET low == n % (2 * IntPages) IN IF low < IntPages THEN low ELSE low - 2 * IntPages

\* virt_to_phys and the walk of unmap: no table is made.
get_next_table_unmap(tables, p, i) == IF p < 0 THEN p ELSE tables[p][i]

Walk(tables, root, v) ==
    get_next_table_unmap(tables, get_next_table_unmap(tables,
        get_next_table_unmap(tables, root, Index(v, 4)), Index(v, 3)), Index(v, 2))

virt_to_phys(tables, root, v) == get_next_table_unmap(tables, Walk(tables, root, v), Index(v, 1))

\* Mutant of UnmapAndFree: the entry is not cleared.
UnmapAndFreeKeepsEntry(s, root, v) ==
    LET p == virt_to_phys(s.ent, root, v)
    IN  [s EXCEPT !.free = <<IF p < 0 THEN 0 ELSE p>> \o @]

\* Mutant of UnmapAndFree: no invlpg.
UnmapAndFreeNoInvlpg(s, root, v) ==
    LET t == Walk(s.ent, root, v)
        p == virt_to_phys(s.ent, root, v)
    IN  [s EXCEPT !.free = <<IF p < 0 THEN 0 ELSE p>> \o @,
                  !.stale = @ \cup {<<v, p>>},
                  !.ent = IF t < 0 THEN @ ELSE [@ EXCEPT ![t][Index(v, 1)] = NONE]]

\* unmap of v with its invlpg, and the free of the page it mapped; of page 0 if
\* it mapped none.
UnmapAndFree(s, root, v) ==
    LET t == Walk(s.ent, root, v)
        p == virt_to_phys(s.ent, root, v)
    IN  [s EXCEPT !.free = <<IF p < 0 THEN 0 ELSE p>> \o @,
                  !.stale = {x \in @ : t < 0 \/ x[1] # v},
                  !.flags = IF t < 0 THEN @ ELSE [@ EXCEPT ![t][Index(v, 1)] = {}],
                  !.ent = IF t < 0 THEN @ ELSE [@ EXCEPT ![t][Index(v, 1)] = NONE]]

\* The loop of vmm_region_dealloc.
UnmapRange(s, root, base, n) ==
    LET turn[k \in 0..n] ==
            IF k = 0 THEN s
            ELSE UnmapAndFree(turn[k - 1], root, (base + Offset(k - 1)) % AddressSpace)
    IN  turn[n]

\* kmalloc(sizeof(struct vmm_region)): a slab page when the objects run out.
Node(s) ==
    IF s.nodes > 0 THEN [s EXCEPT !.nodes = @ - 1]
    ELSE IF s.free = <<>> THEN [s EXCEPT !.stop = "memory"]
    ELSE [s EXCEPT !.free = Tail(@), !.nodes = NodesPerSlab - 1]

Now == [free |-> head, ent |-> ent, flags |-> flags, stale |-> stale, nodes |-> nodes, at |-> 0, stop |-> halted]

\* The operation is done, or the kernel stopped in it.
Commit(s, regs, load) ==
    IF s.stop = "no"
    THEN /\ head' = s.free /\ ent' = s.ent /\ nodes' = s.nodes
         /\ flags' = s.flags /\ stale' = s.stale
         /\ regions' = regs /\ loaded' = load
         /\ UNCHANGED <<pml4, halted>>
    ELSE halted' = s.stop /\ UNCHANGED <<head, ent, flags, stale, pml4, regions, nodes, loaded>>
------------------------------------------------------------------------------
(* vmm_init: the kernel's map holds its image and the HHDM.                *)

Image == [base |-> ImageBase, length |-> ImageLength]
Hhdm == [base |-> HhdmBase, length |-> HhdmLength]

\* The kernel's n pages from base on, mapped to those from p on.
MapBoot(s, base, p, n) ==
    LET turn[k \in 0..n] ==
            IF k = 0 THEN s ELSE map(turn[k - 1], 1, base + k - 1, p + k - 1, KernelFlags)
    IN  turn[n]

\* The image, the entries of the memory map in their order, then the low 4 GiB,
\* in which entries may lie that are mapped already.
BootTables ==
    LET s0 == [free |-> [p \in 1..(Pages - 1) |-> p + 1],
               ent |-> [p \in Phys |-> Blank], flags |-> [p \in Phys |-> NoFlags], stale |-> {},
               nodes |-> NodesPerSlab, at |-> 0, stop |-> "no"]
        s1 == MapBoot(s0, ImageBase, Pages + 1, ImageLength)
        entry[k \in 0..Len(MemoryMap)] ==
            IF k = 0 THEN s1
            ELSE MapBoot(entry[k - 1], HhdmBase + MemoryMap[k].base, MemoryMap[k].base,
                         MemoryMap[k].length)
        s2 == MapBoot(entry[Len(MemoryMap)], HhdmBase, 0, LowPages)
    IN  Node(Node(s2))

Init ==
    /\ head = BootTables.free /\ ent = BootTables.ent /\ nodes = BootTables.nodes
    /\ flags = BootTables.flags /\ stale = {}
    /\ pml4 = [m \in Maps |-> IF m = Kernel THEN 1 ELSE NONE]
    /\ regions = [m \in Maps |-> IF m = Kernel THEN <<Hhdm, Image>> ELSE <<>>]
    /\ loaded = [u \in Users |-> 0]
    /\ strayed = {}
    /\ halted = BootTables.stop
------------------------------------------------------------------------------
(* Regions.                                                                *)

\* The free pages between two neighbours of a list; unsigned, so it wraps.
Gap(r, q) == (q.base - End(r)) % PageSpace

\* What a region of n pages needs: one more, unsigned, too.
Needed(n) == (n + 1) % PageSpace

\* Mutant of FirstFit: the gap is measured from the start of the left region.
FirstFitFromBase(m, n) ==
    LET rs == regions[m]
        fits == {k \in 2..Len(rs) : (rs[k].base - rs[k - 1].base) % PageSpace >= Needed(n)}
    IN  IF fits = {} THEN 0 ELSE Min(fits)

\* The first neighbours with what n pages need between them, by the place of
\* the right one; 0 if there are none.
FirstFit(m, n) ==
    LET rs == regions[m]
        fits == {k \in 2..Len(rs) : Gap(rs[k - 1], rs[k]) >= Needed(n)}
    IN  IF fits = {} THEN 0 ELSE Min(fits)

\* Mutant of RegionFlags: mmap passes what kmalloc does.
RegionFlagsKernel(m) == KernelFlags

\* What kmalloc and syscall_mmap pass.
RegionFlags(m) == IF m = Kernel THEN KernelFlags ELSE UserFlags

\* A request for n pages from base on that leaves the half of map m, or of which
\* an int cannot hold the last page's offset.
Strays(m, base, n) == n > OffsetPages \/ (m # Kernel /\ base + n > HhdmBase)

Remember(m, base, n) ==
    strayed' = IF Strays(m, base, n) THEN strayed \cup {m} ELSE strayed

\* The region of n pages goes on the list of m before the k-th and its pages are
\* mapped, as many as the loop `i < num_of_pages' turns.
NewRegion(m, n, k, base) ==
    /\ Commit(mmap_range(Node(Now), pml4[m], base, Max({0, num_of_pages(n)}), RegionFlags(m)),
              [regions EXCEPT ![m] = InsertAt(@, k, [base |-> base, length |-> n])],
              loaded)
    /\ Remember(m, base, n)

NoRegion ==
    halted' = "regions"
    /\ UNCHANGED <<head, ent, flags, stale, pml4, regions, nodes, loaded, strayed>>

\* Mutant of RegionAlloc: vmm_region_alloc_user, the copy of the loop, starts
\* the new region where the left neighbour starts.
RegionAllocUserAtBase(m, n) ==
    LET k == FirstFit(m, n)
        r == regions[m][k - 1]
    IN  IF k = 0 THEN NoRegion
        ELSE NewRegion(m, n, k, IF m = Kernel THEN End(r) % PageSpace ELSE r.base)

\* vmm_region_alloc (m = Kernel) and vmm_region_alloc_user.
RegionAlloc(m, n) ==
    LET k == FirstFit(m, n)
    IN  IF k = 0 THEN NoRegion ELSE NewRegion(m, n, k, End(regions[m][k - 1]) % PageSpace)

\* kmalloc of a page or more.
vmm_region_alloc(n) ==
    /\ halted = "no"
    /\ Len(regions[Kernel]) < 2 + MaxRegions
    /\ RegionAlloc(Kernel, n)

\* Mutant of vmm_region_dealloc: the last page stays mapped.
DeallocOnePageShort(k) ==
    LET r == regions[Kernel][k]
        s == UnmapRange(Now, pml4[Kernel], r.base, Max({0, num_of_pages(r.length) - 1}))
    IN  /\ halted = "no"
        /\ Commit([s EXCEPT !.nodes = @ + 1],
                  [regions EXCEPT ![Kernel] = RemoveAt(@, k)], loaded)
        /\ UNCHANGED strayed

\* vmm_region_dealloc of a region kmalloc made, the k-th of the list.  It has
\* a successor, the image, so it is always unlinked.
vmm_region_dealloc(k) ==
    LET r == regions[Kernel][k]
        s == UnmapRange(Now, pml4[Kernel], r.base, Max({0, num_of_pages(r.length)}))
    IN  /\ halted = "no"
        /\ Commit([s EXCEPT !.nodes = @ + 1],
                  [regions EXCEPT ![Kernel] = RemoveAt(@, k)], loaded)
        /\ UNCHANGED strayed
------------------------------------------------------------------------------
(* Programs.                                                               *)

\* Mutant of UserTop: half of the kernel's half is copied.
UserTopShort(old) ==
    [i \in 0..(Fan - 1) |->
        IF i >= UserSlots THEN (IF i < Fan - 1 THEN ent[pml4[Kernel]][i] ELSE NONE)
        ELSE IF i \in old THEN WILD ELSE NONE]

\* The top table of a new map.  The upper half is the kernel's; the lower half
\* is not cleared, so an entry may be present (old) when the page was used
\* before.  The first is the PMM's next pointer, which is not.
UserTop(old) ==
    [i \in 0..(Fan - 1) |->
        IF i >= UserSlots THEN ent[pml4[Kernel]][i]
        ELSE IF i \in old THEN WILD ELSE NONE]

new_pagemap(u) ==
    /\ halted = "no"
    /\ pml4[u] = NONE
    /\ IF head = <<>>
       THEN halted' = "memory" /\ UNCHANGED <<head, ent, flags, stale, pml4, regions, nodes>>
       ELSE LET s == Node(Node([Now EXCEPT !.free = Tail(@)])) IN
            IF s.stop # "no"
            THEN halted' = s.stop /\ UNCHANGED <<head, ent, flags, stale, pml4, regions, nodes>>
            ELSE /\ head' = s.free /\ nodes' = s.nodes
                 /\ pml4' = [pml4 EXCEPT ![u] = Head(head)]
                 /\ \E old \in SUBSET (1..(UserSlots - 1)) :
                       ent' = [ent EXCEPT ![Head(head)] = UserTop(old)]
                 /\ flags' = [flags EXCEPT ![Head(head)] =
                       [i \in 0..(Fan - 1) |->
                           IF i >= UserSlots THEN flags[pml4[Kernel]][i] ELSE {}]]
                 /\ UNCHANGED stale
                 /\ regions' = [regions EXCEPT ![u] =
                       <<[base |-> 0, length |-> 0],
                         [base |-> HhdmBase + Hole, length |-> End(Image) + Hole]>>]
                 /\ UNCHANGED halted
    /\ UNCHANGED <<loaded, strayed>>

\* load_elf_program for one PT_LOAD segment: its pages are mapped, and it goes
\* on the list between the first two neighbours it lies between.
LoadSegment(u) ==
    LET g == Segments[loaded[u] + 1]
        rs == regions[u]
        places == {k \in 2..Len(rs) : rs[k].base >= g.base /\ End(rs[k - 1]) <= g.base}
        s == mmap_range(Now, pml4[u], g.base, g.length, UserFlags)
        load == [loaded EXCEPT ![u] = @ + 1]
    IN  /\ halted = "no"
        /\ pml4[u] # NONE
        /\ loaded[u] < Len(Segments)
        /\ IF s.stop # "no" \/ places = {} THEN Commit(s, regions, load)
           ELSE Commit(Node(s), [regions EXCEPT ![u] = InsertAt(@, Min(places), g)], load)
        /\ UNCHANGED strayed

\* The program's stack, which is on no list.
LoadStack(u) ==
    /\ halted = "no"
    /\ pml4[u] # NONE
    /\ loaded[u] = Len(Segments)
    /\ Commit(mmap_range(Now, pml4[u], Stack.base, Stack.length, UserFlags),
              regions, [loaded EXCEPT ![u] = @ + 1])
    /\ UNCHANGED strayed

Running(u) == halted = "no" /\ loaded[u] = Len(Segments) + 1

\* syscall_mmap with MAP_ANONYMOUS, and with MAP_FIXED too.  Any other flags
\* fail and change nothing.
MmapAnonymous(u, n) ==
    /\ Running(u)
    /\ Len(regions[u]) < 2 + Len(Segments) + MaxRegions
    /\ RegionAlloc(u, n)

\* The loop `i != num_of_pages' runs on from a negative number: past all memory.
MmapFixed(u, hint, n, exec) ==
    /\ Running(u)
    /\ Commit(mmap_range(Now, pml4[u], hint, n % (2 * IntPages),
                         IF exec THEN UserFlags ELSE NoExecFlags),
              regions, loaded)
    /\ Remember(u, hint, n)

\* A write of CR3, by switch_task, empties the TLB.
UpdateCr3 ==
    /\ halted = "no" /\ stale # {}
    /\ stale' = {}
    /\ UNCHANGED <<head, ent, flags, pml4, regions, nodes, loaded, strayed, halted>>

\* The loop behind "NO FREE REGIONS", "Out of Memory!" or a fault.
Halt == halted # "no" /\ UNCHANGED vars

Next ==
    \/ \E n \in KernelSizes : vmm_region_alloc(n)
    \/ \E k \in 2..(Len(regions[Kernel]) - 1) : vmm_region_dealloc(k)
    \/ \E u \in Users :
          \/ new_pagemap(u)
          \/ LoadSegment(u)
          \/ LoadStack(u)
          \/ \E n \in UserSizes : MmapAnonymous(u, n)
          \/ \E h \in Hints, n \in UserSizes, exec \in BOOLEAN : MmapFixed(u, h, n, exec)
    \/ UpdateCr3
    \/ Halt

Spec == Init /\ [][Next]_vars
------------------------------------------------------------------------------
(* Properties.  Two things the code does not look at decide what it can     *)
(* promise: what programs ask mmap for, and where the entries of the memory *)
(* map lie.  A third, what the lower half of a new top table held, decides  *)
(* what the processor finds there.                                         *)

\* No request has left its half of a map, and the HHDM's region holds what is
\* mapped for it.
Contained == strayed = {} /\ HhdmCovers

\* No map of a program has an entry that nobody wrote.
Clean ==
    \A u \in Users : pml4[u] # NONE =>
        \A i \in 0..(UserSlots - 1) : ent[pml4[u]][i] # WILD

Kinds == {"no", "memory", "regions", "wild"}

\* Every variable holds a value of its kind: only managed pages are free, and
\* tables point to memory.
TypeOK ==
    /\ head \in Seq(Phys)
    /\ \A p \in Phys : \A i \in 0..(Fan - 1) : ent[p][i] \in {NONE, WILD} \cup Frames
    /\ flags \in [Phys -> [0..(Fan - 1) -> SUBSET {"user", "xd"}]]
    /\ stale \subseteq Virt \X Frames
    /\ pml4 \in [Maps -> Phys \cup {NONE}]
    /\ \A m \in Maps : \A k \in 1..Len(regions[m]) :
          regions[m][k].base \in 0..(PageSpace - 1) /\ regions[m][k].length \in Nat
    /\ nodes \in Nat
    /\ loaded \in [Users -> 0..(Len(Segments) + 1)]
    /\ strayed \subseteq Maps
    /\ halted \in Kinds

Made == {m \in Maps : pml4[m] # NONE}

Present(p) == {i \in 0..(Fan - 1) : ent[p][i] >= 0}

\* The tables below page p of the given level, p included.
L2Tables(t) == {t} \cup {ent[t][i] : i \in Present(t)}
L3Tables(t) == {t} \cup UNION {L2Tables(ent[t][i]) : i \in Present(t)}
Tables(root) == {root} \cup UNION {L3Tables(ent[root][i]) : i \in Present(root)}

\* What the slots of a top table map: pairs of a virtual and a physical page.
L1Maps(t, v) == {<<v + i, ent[t][i]>> : i \in Present(t)}
L2Maps(t, v) == UNION {L1Maps(ent[t][i], v + i * Fan) : i \in Present(t)}
L3Maps(t, v) == UNION {L2Maps(ent[t][i], v + i * (Fan * Fan)) : i \in Present(t)}
Translations(root, slots) ==
    UNION {L3Maps(ent[root][i], i * Slot) : i \in Present(root) \cap slots}

KernelSlots == UserSlots..(Fan - 1)

\* The kernel's mappings between the HHDM and the image.
KernelHeap == {x \in Translations(pml4[Kernel], KernelSlots) :
                 x[1] >= End(Hhdm) /\ x[1] < ImageBase}

UserMaps(u) == Translations(pml4[u], 0..(UserSlots - 1))

RegionPages(r) == r.base .. (End(r) - 1)

\* What vmm_region_alloc assumes in capitals: the regions of a list are in
\* order and apart, through every sequence of kmalloc, kfree, mmap and loads of
\* which none strayed in this map.
RegionsInOrder ==
    \A m \in Made \ strayed : \A k \in 2..Len(regions[m]) :
        End(regions[m][k - 1]) <= regions[m][k].base

\* A physical page has one use: it is free, once, or a table, or mapped at one
\* virtual page of one map, the HHDM apart.  So no two owners of memory ever
\* share a page, and no table is reachable through a mapping.
OneUsePerPage ==
    LET tables == UNION {Tables(pml4[m]) : m \in Made}
        user == UNION {{<<u, x>> : x \in UserMaps(u)} : u \in Made \ {Kernel}}
        all == {<<Kernel, x>> : x \in KernelHeap} \cup user
        mapped == {y[2][2] : y \in all}
    IN  /\ IsInjective(head)
        /\ ToSet(head) \cap (tables \cup mapped) = {}
        /\ tables \cap mapped = {}
        /\ \A x, y \in all : x[2][2] = y[2][2] => x = y

\* Types, and no page with two uses, as long as nothing strayed and no top
\* table leads where nobody pointed it.
VmmInv == Contained => TypeOK /\ (Clean => OneUsePerPage)

\* The kernel's tables and its list of regions agree: between the HHDM and the
\* image exactly the pages of the regions on the list are mapped, so what
\* kmalloc returns is there and what kfree takes back is gone.
KernelHeapIsItsRegions ==
    Contained => {x[1] : x \in KernelHeap} =
        UNION {RegionPages(regions[Kernel][k]) : k \in 2..(Len(regions[Kernel]) - 1)}

\* The kernel's half is the same in every map, whenever the map was made and
\* whatever the kernel mapped since: a system call finds all of the heap.
KernelHalfShared ==
    Contained => \A u \in Made : Translations(pml4[u], KernelSlots) = Translations(pml4[Kernel], KernelSlots)

\* No step that changes a list remaps a page of a region that stays on one: the
\* new region of an mmap, a load or a kmalloc covers no older one, and kfree
\* unmaps no other than the one it takes off.
ListedPagesKept ==
    [][Contained' /\ regions' # regions =>
          \A m \in Made : \A k \in 1..(Len(regions[m]) - 1) :
             regions[m][k] \in ToSet(regions'[m]) =>
                \A v \in RegionPages(regions[m][k]) :
                   virt_to_phys(ent', pml4[m], v) = virt_to_phys(ent, pml4[m], v)]_vars

\* The flags on the way to v in a map: of the entries of the three tables
\* above, and of its own.
PathFlags(root, v) ==
    LET t3 == ent[root][Index(v, 4)]
        t2 == ent[t3][Index(v, 3)]
    IN  <<flags[root][Index(v, 4)], flags[t3][Index(v, 3)], flags[t2][Index(v, 2)]>>

LeafFlags(root, v) == flags[Walk(ent, root, v)][Index(v, 1)]

\* A program can reach every page that is mapped in its half, on all four
\* levels, and none of the kernel's: not the heap that was mapped after its map
\* was made, either.
RingsApart ==
    Contained /\ Clean => \A u \in Made \ {Kernel} :
        /\ \A x \in UserMaps(u) :
              /\ "user" \in LeafFlags(pml4[u], x[1])
              /\ \A k \in 1..3 : "user" \in PathFlags(pml4[u], x[1])[k]
        /\ \A x \in Translations(pml4[u], KernelSlots) : "user" \notin LeafFlags(pml4[u], x[1])

\* The code of a program stays executable.  A table gets the flags of the
\* mapping it is made for, so one that is made for a mapping without PROT_EXEC
\* takes the right from all that is mapped under it later; the tables above a
\* program's segments are made by its load, and no mmap changes them.
CodeExecutable ==
    Contained => \A u \in Made \ {Kernel} : \A g \in 1..Min({loaded[u], Len(Segments)}) :
        \A v \in RegionPages(Segments[g]) : \A k \in 1..3 : "xd" \notin PathFlags(pml4[u], v)[k]

\* What the TLB may still hold leads to no page that is free or has another use:
\* unmap is followed by invlpg, and map, which is not, never gives back the
\* page it takes the place of.
NoStaleTranslation ==
    LET tables == UNION {Tables(pml4[m]) : m \in Made}
        mapped == {x[2] : x \in KernelHeap \cup UNION {UserMaps(u) : u \in Made \ {Kernel}}}
    IN  Contained /\ Clean => \A x \in stale : x[2] \notin ToSet(head) \cup tables \cup mapped
==============================================================================

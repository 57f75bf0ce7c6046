# A verification project for Nyaux

Nyaux is a small x86-64 kernel: one processor, a round-robin scheduler, ring 3
programs linked against mlibc, a tmpfs filled from a tar archive, a slab
allocator and four-level page tables. This directory holds TLA+ models of its
core, TLC configurations that check them on small instances, and TLAPS proofs
for every value of the constants that the modules' assumptions allow. Where a
property holds only of machines or requests that the code does not check for,
the model has the others, too, and the property names its condition. Paths below
are relative to `src/kernel/src/`.

## 1. Inventory

| Component | State | Operations | Correct when |
|---|---|---|---|
| Scheduler (`sched/sched.c`) | `start_of_queue`, `current_thread`, `thread_t` | `switch_task`, `sched_init`, `create_thread`, `new_context` | a thread sees only its own registers, FPU state, thread pointer, address space; every queued thread runs again |
| Interrupt stubs (`idtstub.asm`, `idt.c`) | frame on the stack, GS pair | entry, handler, exit; exceptions | ring 0 always finds its own GS, ring 3 gets its own back |
| System call entry (`syscall/syscall.asm`, `main.c`) | entry block, kernel stack | `syscall`, `sysret` | no interrupt inside; each thread on its own kernel stack |
| Keyboard (`drivers/ps2.c`, `kthread_start`) | `key_buf`, `events[32]`, `event_count` | interrupt handler; unlocked pop in a thread | no write outside `events`; multi-byte codes stay in step; no event lost but in a race; the stack drains |
| Page list and slabs (`pmm.c`) | `head`, `kmalloc_cache[8]`, headers in pages | `pmm_alloc_singlep`, `pmm_free_singlep`, `kmalloc`, `kfree`, `krealloc` | nothing given out twice, nothing lost |
| Virtual memory (`vmm.c`) | page tables, region lists | `map`, `unmap`, `vmm_region_alloc(_user)`, `vmm_region_dealloc`, `mmap_range`, `new_pagemap`, `update_cr3` | lists in order, one use per page, kernel half equal everywhere, each mapping open to the ring it is for, no stale translation |
| ELF loader (`elf/elf.c`) | the new map, the new thread | segments, interpreter, stack, thread | the image is whole, the stack is aligned and describes the program, a failed load leaves no trace |
| File system (`fs/vfs.c`, `fs/tmpfs.c`, `fs/tar.c`) | vnodes, entry lists | lookup, create, read, boot archive | the tree is the archive; links lead where they point |
| Descriptors (`syscall/syscall.c`, `fs/vfs.c`) | `Descriptors[256]`, `descriptor_bitmap[256]` | `openat`, `read`, `seek`, `close`, `write`, `dup` | a descriptor in use is never handed out; reads are consecutive |
| Interrupt controllers (`drivers/apic.c`, `ps2_init`, `ACPI/acpi.c`) | LAPIC, IOAPIC entries, overrides, HPET, handlers | MADT, calibration, `route_irq`, delivery, EOI | interrupts reach their handler and are ended by it; no byte or tick is lost; boot ends |
| Memory, string and number routines (`main.c`, `fs/tar.c`, `vmm.c`) | none | `memmove`, `strcmp`, `prepend`, `itoa`, `getsize`, `align_up` and the like | what C says of them |
| Boot (`main.c`), GDT, FPU, panic | tables | initialisation, halt | the window with interrupts on during boot is harmless |
| other uACPI callbacks, serial, `bump.c`, flanterm, nanoprintf | | | not modelled, see section 8 |

How they interact. The timer interrupt calls `switch_task` through a stub; the
keyboard interrupt calls `ps2_handler`, whose events a kernel thread pops. A
system call reaches a C handler through `syscall_handlers[]`; the handlers call
the file system and the virtual memory, which call the slab allocator, which
takes pages. `kmalloc` goes to `vmm_region_alloc` from 1024 bytes up, and
`vmm_region_alloc` takes its nodes from `kmalloc` again.

What is hard here. All concurrency is interrupts against code with interrupts
on: the keyboard against `kthread_start` (unlocked, field by field), the timer
against everything in ring 3, against the kernel thread and against 10 ms of
boot. System calls are safe only because FMASK clears IF. State outside the
interrupt frame (FPU, FS base, GS pair, CR3) is carried by hand. The allocators
and lists have no concurrency but long histories: first fit with unsigned
arithmetic, headers found by masking pointers, one page taken in the middle of
taking another. The interrupt controllers are set up from tables the kernel does
not choose, and the loader reads files it does not choose into memory that is
not always cleared. `PROJECT.json` lists the hazards at their lines with the properties
that cover them.

## 2. Modules

| Module | Models | Depends on |
|---|---|---|
| `Sched` | scheduler, stubs, system call path, boot window | refines `ThreadMachine` |
| `ThreadMachine` | abstract: one private machine per thread | |
| `SchedProofs` | theorems about `Sched` | `Sched` |
| `Keyboard` | `ps2_handler`, `kthread_start` | |
| `KeyboardProofs` | theorems about `Keyboard` | `Keyboard` |
| `SizeClass` | `next_pow2`, `search_for_bigenoughcache` | |
| `Heap` | page list, slabs, `kmalloc`, `kfree`, `krealloc` | `SizeClass` |
| `HeapProofs` | theorems about `Heap` | `Heap`, `Lemmas` |
| `Vmm` | page tables with their flags, TLB, regions, program maps, `mmap`, loader | |
| `VmmProofs` | theorems about `Vmm`: page tables, regions, flags, TLB | `Vmm`, `Lemmas` |
| `KLib` | memory, string and number routines, alignment, the archive's fields | |
| `Elf` | `load_elf_program`: image, interpreter, thread, initial stack | `KLib` |
| `ElfProofs` | theorems about `Elf` and `memmove` | `Elf`, `Lemmas` |
| `Apic` | `apic_init`, `route_irq`, `ksleep`, `ps2_init`, delivery and EOI | |
| `ApicProofs` | theorems about `Apic` | `Apic`, `Lemmas` |
| `Lemmas` | induction over a finite range, lists, maximum and minimum, division | |
| `Vfs` | path lookup, creation, links, boot archive | |
| `FdTable` | descriptor system calls | refines `OpenFiles` |
| `OpenFiles` | abstract: a table of open files with positions | |
| `FdTableProofs` | theorems about `FdTable` | `FdTable` |
| `MCSched`, `MCKeyboard`, `MCHeap`, `MCVmm`, `MCFdTable`, `MCApic`, `MCElf` | constants for TLC | |
| `MCLib` | one call of any routine on any small memory | `KLib`, `SizeClass` |

### Sched and ThreadMachine

Variables are the processor (`mode`, `regs`, `frame`, `intr`, the GS pair
`gs`/`kgs`, `cr3`, FPU, FS base), the fields of `thread_t`, and the queue. The
label in `regs.rip` says where the boot code, a program or a system call is.
One action per step: `IrqEntry` pushes the frame and swaps GS when it came from
ring 3, `SchedMeow` calls `switch_task` whole (save, successor, restore, first
switch, or nothing when there is no thread), `Ps2Handler` returns or panics,
`StubExit` is `iretq`. `SyscallEntry`, the handler and `SyscallExit` are
separate steps because an interrupt could come between them if FMASK did not
forbid it. Boot starts inside `apic_init`, where interrupts are on and the
timer is unmasked, and continues through `sched_init` with its failing load.

The code creates one program. The model takes any set of them, pushed by the
code `sched_init` has for one, because that is what the queue is for.

`ThreadMachine` says what is promised: each thread owns a machine, one runs at
a time, only the running thread's machine changes, a switch changes none.
`Sched!ContextIsolation` is that specification under the mapping that takes a
thread's machine from the processor, from the interrupt frame or from its saved
context, depending on where it is.

### Keyboard

`events` and `event_count` are volatile, so each access of `kthread_start` is a
step (`KTest`, `KLoad`, `KStore`, `KIndex`, `KReadPrintable`, `KReadKey`,
`KShow`), and `Ps2Handler`, which runs with interrupts off, may come between
any two. `Decode` is the handler's prefix matcher. The keyboard is external and
sends any of `ScanCodes`, scan code set 1 as far as the decoder tells its codes
apart: one byte, E0 and a byte, the four bytes of Print Screen in both
directions, the six of Pause. `raced` and the serial numbers are history variables.
The stack is last in, first out: two keys in one time slice are shown in
reverse, which is what the code does and no property calls wrong.

### Apic

The boot code is a program counter from `acpi_init` to the running system: the
MADT entry by entry, the LAPIC, the HPET, the calibration by `ksleep(10)`, the
resources of the keyboard, `AllocateVector`, and the redirection entry written
half by half. `m` is the machine (tables, wiring, clock, devices); it never
changes, and `MachinesAssumption` says no more of it than ACPI says of the shape
of its tables. Pointers into the MADT (`isos[i].iso`, `ioapics[k].ioapic_info`)
are the numbers of its entries, 0 for `NULL`. The array `ioapics` has 16 places
(`MaxIoapics`); boot ends in the model when there is one more IOAPIC
(`IoapicsFull`), since the code goes on over what lies behind the array. An
IOAPIC has 120 pins at most: its own register selector has eight bits, as
`ioapic_reg` does, so the register of a pin never wraps. `ps2_port` is a byte, and
a port that is 0 in it counts as not yet found. The hardware is external: IRR and ISR with their priority classes, the
remote IRR of a level triggered pin, edges that are lost on a masked pin, a
spurious interrupt. A handler is three steps (`CallHandler`, `SendEoi`,
`Iretq`), because the order of reading the port and sending the EOI matters on
a level triggered line. `send_lapic_eoi` names no interrupt, so the model ends
the highest in service, whoever sends it. What the code drops is dropped:
interrupt numbers are eight bits, the identifier register is shifted out of the
destination field, `route_irq`'s result is ignored, the last pin of an IOAPIC
is not routed. `early`, `stale` and `spurred` are history variables; they let a
property name the cases it excludes instead of leaving them out of the model.

### KLib

Each routine is an operator from a memory to a memory or a value. Loops are
recursive functions of the turn, so a copy reads what it has written already,
which is what overlapping copies are about. `MCLib` makes one call on every
memory of a few bytes and compares with a definition that does not iterate.

### SizeClass and Heap

`SizeClass` computes `next_pow2` on 64-bit words by the code's shifts, and is
compared with a definition by minimum (in `MCLib`). `Heap` keeps the lists as sequences in
list order. `PmmInitEntry` is one turn of `pmm_init`'s loop over the memory map;
`linked` counts the turns, and the caches are made when it is over. `Free` follows the header, the search for the cache and both
fallbacks. Callers free what they hold, once. `asked` is the size a caller passed
to `kmalloc` and passes back as `oldsz`: `krealloc` frees nothing when that is 0,
so an object from `kmalloc(0)` stays behind (`lost`), which `ObjectsConserved`
counts as in use. Callers of `krealloc` ask for more than they had, as the one
there is does (`tmpfs.c:131-137`); asked for less, `krealloc` would copy the old
size into the smaller object, and the model stops short of that.

### Vmm

Physical pages, virtual pages and table indices are numbers; the fan-out is a
constant (512 in the code). An operation threads a record through the code's
steps (take a page, make a table, write an entry) and stops at "Out of Memory!"
or "NO FREE REGIONS". `Lvl3Table`, `Lvl2Table` and `Lvl1Table` are `map`'s
`cur_table` on its way down. A loop (`mmap_range`, `MapBoot` of `vmm_init`,
`UnmapRange` of `vmm_region_dealloc`) is a recursive function of the turn. `Frames`
are the pages an entry can lead to: those of the PMM, the rest of what the HHDM
covers, and the kernel's image. A program's map gets the kernel's upper half by copy;
its lower half is not cleared by the code, so an entry may be present that
nobody wrote (`WILD`), and a walk through one ends what the model can say.
An entry has a page number and two of its flags, `user` and `xd`; a table that
`get_next_table` makes gets the flags of the mapping it is made for.
`stale` holds the translations the TLB may keep: an entry that is overwritten by
another page adds one, `invlpg` and `UpdateCr3` remove them.

Numbers keep their widths. Addresses and sizes of `mmap` and `kmalloc` are any of
the 2^64; page numbers in the tables are those of the 48 bits that are
translated, and `Hole` is the difference. `Needed` is `align_up(size, 4096) +
0x1000`, which comes to 0 for a size one page short of 2^64, so that such a request
wins the first gap. `num_of_pages` goes through an int and may be negative: the
loops of `vmm_region_alloc` and `vmm_region_dealloc` then do not turn, and that of
`mmap_range`, which ends at equality, runs until memory does. In `Offset`,
`i * 0x1000` overflows an int from 2^19 on, which a build may compute either way
(`OffsetWraps`). The HHDM's region is as long as the sum `vmm_init` makes of the
memory map's entries (`HhdmLength`), while what is mapped is each entry where it
lies (`BootTables`); they need not agree. Entries are page-aligned, and memory is
below the 8 TiB at which `i` itself would overflow.

`syscall_mmap` checks neither its hint nor its size. The model lets a program pass
any, and so does run `vmm`: hints in the kernel's half, sizes beyond an int,
one page short of 2^64. `strayed` remembers the maps in which such a request was
made. `Contained` says that there is none and that no entry of the memory map
ends above the HHDM's region; `Clean`, that no top table was made with an old
entry in its lower half, through which the processor would walk wherever it
leads. Without them the properties do not hold of the code: a fixed mapping in
the kernel's half is open to ring 3, stands in one map only and takes the place
of what was there; a wrapped size puts a list out of order; an HHDM that is
longer than its region is overlaid by the heap. `RegionsInOrder` needs only that
nothing strayed in its own map.

`VmmAssumption` has what the boot protocol and a linker guarantee: the HHDM and
the image fit their slots below the top of the address space, and the segments of
a program and its stack lie in the lower half, the segments apart. It also says
that the kernel's heap, with the gaps first fit can leave in it, fits the rest of
the HHDM's slot. In the code that slot is 512 GiB, of which the HHDM's region
takes 4 GiB and what of memory is listed once more; a heap that left it would
need a new entry of the top table, which the maps made before would not have.

### Elf

`load_elf_program` from the header to the thread, one program header per step,
with the second call for the interpreter. Memory is counted in cells of four
bytes; a word of the stack is two of them, so a move by half a word shows. The
image records which cell of which segment of which file lies where, so a
segment laid over another one, a page too few or bytes that should be zero
show. What the code reads before it sets it (`parameter_window_size`, `stored`)
is a choice among old values. Files are what a linker makes, named in
`ElfAssumption`; the header, the types and the interpreter are arbitrary.

### Vfs

Nodes are numbered, directories are lists with the newest entry first, and a
path is its components with its leading and trailing slash. `Descend` is the
loop of `vnode_path_lookup`, including the scan for trailing slashes, which
runs past the copied path: the byte it finds is a nondeterministic choice. The
archive is external: parents before children, no name twice.

### FdTable and OpenFiles

The bitmap and the descriptors are the code's two arrays. All system calls are
single steps, justified by `SyscallsNotPreempted`. A full table
(`allocate_fd_from_bitmap` without a return value) and a read before the start
of a file are undefined in C: the first ends the behaviour as "wild", the
second returns garbage or faults. `OpenFiles` has one table of `[node, pos]`;
the mapping reads it off `ptr` and `offset`. `syscall_read` has the count in an
int (`AsInt`): -1 reads as a failure, other counts from 2^31 on move the offset
backwards. A buffer that goes round the end of the address space reads nothing
(`End`, with `room` bytes behind a file's data). `OpenFiles` promises consecutive
pieces where neither happens (`Counted`), and in every case that no other
descriptor moves. The size a seek from the end starts at goes through an int,
too, and the sum may overflow (`Sums`). Descriptor 0 answers reads of more
than one byte with a newline even when a file was opened there, and both
specifications say so.

## 3. Runs

| Run | Checks | Instance and why it is enough |
|---|---|---|
| `sched` | `UserModeState`, `SavedState`, `IInv`, `SyscallsNotPreempted`, `ContextIsolation` | the code's own threads, two values per register, so that a mixed-up one shows |
| `sched_two` | `ContextIsolation`, `EveryThreadRuns` | two programs: switches from ring 3 to ring 3; fair timer |
| `keyboard` | `CountBounded`, `KeyboardInv`, `NoLossWithoutRace`, `EachKeyOnce`, `Drained` | three slots and three of ten keys, of one, two, four and six bytes and up to two events each: the stack fills, overflows into the assertion and empties; the bytes of the long keys are keys themselves |
| `library` | `MemoryRight`, `StringsRight`, `ArithmeticRight` | six bytes of memory, with a byte above 127; numbers around every power of the radix; an eleven-bit word, so that the last page of it is in reach; the code's eight cache sizes and every request below 1024 |
| `heap` | `HeapInv`, `PagesConserved`, `ObjectsConserved` | four pages in two usable ranges, two caches, pages that hold one or two objects, so that slabs fill, multiply and memory runs out; requests of 0, of a cache's size and between |
| `heap_full` | `FullSlabUnlinked`: violated | see findings |
| `vmm` | `VmmInv`, `RegionsInOrder`, `KernelHalfShared`, `RingsApart`, `CodeExecutable`, `NoStaleTranslation`, `ListedPagesKept` | tables of six entries, one program of two segments, fixed mappings with and without `PROT_EXEC` beside and away from them and in the kernel's half, anonymous ones, sizes of one page and of one short of 2^64, a map whose lower half came with old entries or without, and so few pages that memory runs out; a memory map whose first entry lies in the low memory and is mapped twice; 12 pages below "4 GiB", so that its sum ends above both |
| `vmm_kernel` | `KernelHeapIsItsRegions` | the kernel's heap with more regions and sizes, up to what an int's offset counts, and one that fits nowhere: holes and refills |
| `vfs` | `TreeIsArchive`, `LinksFollowed` | four members, two names, depth two: links to files, directories, siblings and nothing |
| `fd_table` | `LiveMarked`, `ImplementsOpenFiles` | three descriptors: 0 and 1, which are special, and one that is not; a file of five bytes and an int of -3 to 2, so that a read may count as -1 or as -3, and a buffer that goes round the address space; the view leaves out `got`, which no action reads |
| `apic` | `ApicInv`, `KeyboardRouted`, `HandlersRight`, `SliceLongEnough`, `BootEnds`, `InterruptsHandled` | a plain PC and 20 machines that each differ from it in one thing: overrides of every trigger, two IOAPICs in both orders, one more than the array has places (two here), the last pin, a number above 255, a port that is 0 in a byte, no HPET or an odd clock, no device, another identifier; three bytes, any number of ticks, one spurious interrupt at any moment |
| `elf` | `LoaderInv`, `StackRight`, `AuxvDescribesProgram`, `ImageRight` | pages of four cells, a segment of every size and misalignment up to two pages, interpreters that are right, missing, empty, foreign or interpreted themselves; every remainder of the old window, and windows about and beyond what fits |

Some invariants are conjunctions whose parts have names of their own:
`KeyboardInv` is `TypeOK`, `CountInv` and `DecoderInSync`; `HeapInv` is `TypeOK` and
`HeadersRight`; `VmmInv` is, while `Contained`, `TypeOK` and, while `Clean`, `OneUsePerPage`; `ApicInv` is `TypeOK` and
`OwnEoi`; `HandlersRight` is `HandlerSet` and `NoStaleRead`; `InterruptsHandled` is
`ByteRead` and `TickHandled`; `LoaderInv` is `TypeOK`, `CleanFailure` and
`FaultExplained`; `IInv` of `Sched` holds its types and `QueueClosed`, and implies
`SyscallState`. In `MCLib`, `MemoryRight` is about copies and `prepend`,
`StringsRight` about comparisons and the archive's types, `ArithmeticRight` about
digits, alignment and size classes.

Each property has a mutant in `PROJECT.json`: a plausible slip in one
definition (a missing `swapgs`, a test off by one, an entry not cleared)
under which TLC finds the property violated.

## 4. Findings

One comment disagrees with its code and a run shows it; it is harmless today.

- `pmm.c:244` treats a full slab as unlinked; `slab_alloc` never unlinks one,
  so that branch of `free` is dead.

Met while modelling, and written into the models as the code has it:

- `fs/vfs.h:36` says `refcount` counts directory entries; nothing counts it.
- `elf.c:17` says executable or dynamic, and System V; the test is a
  disjunction, so an empty file or an object file is accepted and gets a thread.
- `apic.c:231` says vector 34; the write below it uses 32, which is the one
  with a handler.
- The spurious vector is the one `AllocateVector` gives the keyboard
  (`HandlerSet` and `NoStaleRead` name that exception).
- An IOAPIC's last pin and an identifier other than 0 are lost in `route_irq`
  (`KeyboardRouted` names both).
- `ksleep` never returns when the HPET's period is below a nanosecond, or when
  AML stalls before there is an HPET (`BootEnds` names both).
- `syscall_mmap` takes any hint with `MAP_FIXED` and any size; a size within two
  pages of 2^64 wraps in `align_up(size, 4096) + 0x1000` and takes the first gap,
  and page counts are ints (`vmm.c:183`, `206`, `294`). `Contained` names both.
- `vmm_init` maps each entry of the memory map where it lies, but the region it
  makes for them is as long as their sum, each entry counted up to 4 GiB
  (`vmm.c:442-529`); `HhdmCovers` says when that is enough.
- `new_pagemap` does not clear the lower half of the top table (`vmm.c:412`);
  `Clean` names the case.
- `krealloc` of an object of size 0 does not free it (`pmm.c:286`; `lost`).
- `ioapics[16]` has no limit in the loop over the MADT (`apic.c:137`;
  `IoapicsFull`), and a port that is 0 in a byte is overwritten by the next one
  (`ps2.c:165`).
- `syscall_read` has its result in an int (`syscall.c:165`), so 2^32 - 1 bytes
  read count as a failure.
- A member of the archive with an empty type field is taken for a directory
  (`TarTypes`).

## 5. Fairness

`sched_two`: strong fairness of the timer interrupt, since a masked tick stays
latched in the LAPIC and is delivered when interrupts are enabled, in ring 3
and in the kernel thread again and again; strong fairness of the end of the
boot window, which is 10 ms of straight-line code between ticks; weak fairness
of the kernel's own straight-line steps. Threads get none: a program may loop
for ever. `keyboard`: weak fairness of the kernel thread, which
`EveryThreadRuns` provides, and of the interrupt. The keyboard itself is not
fair; the bound `MaxKeys` makes it quiet in the end. `apic`: weak fairness of a
handler, which runs with interrupts off, of the HPET's counter and of a level
triggered pin, which are hardware that does not stop; strong fairness of the
boot code and of delivery, since an interrupt suspends the one and a system call
or a handler holds back the other, both for a bounded time. The timer, the
keyboard and the programs get none.

## 6. Proofs

All constants are arbitrary within the modules' named assumptions.

- `SchedProofs`. `Invariance`: `IInv` is inductive. It conjoins the types, that
  a created thread has all its fields and its own entry block and map
  (`ThreadsComplete`), that the queue is closed, and `CpuState`, which says for
  every label who runs, with which privilege, CR3, GS pair and interrupt flag.
  The wanted properties are not inductive alone: that `iretq` restores a
  thread's own GS needs the GS pair inside the stub, which needs the privilege
  of the interrupted code, which needs who was running. From it: `TypeCorrect`,
  `KernelEntrySafe`, `QueueSafe`, `NoPreemption`, and `Implementation`: each
  step maps to a step of `ThreadMachine` or to none.
- `KeyboardProofs`. `StackBounded`, from `CountInv`: between its test and its
  store only the thread lowers the count, so what it saw positive stays so.
  `KeyboardInvAlways`: `KInv` adds that the bytes in `key_buf` and those still on
  the line are one of `Keys`; the step of the interrupt rests on lemmas that
  run `Decode` over every proper prefix of every code of set 1 and show it waits,
  and over every whole one and show what it pushes (`WholeKey`). `EachKeyOnce` is
  the same case split read as an action property. `NoLossAlways`: `LossInv` says,
  until the first race, where each of the serial numbers 1 to `serial` is
  (stack, register, screen) and that they are as many as there are places for
  them, which makes the places distinct without counting.
- `HeapProofs`. `HInv` is inductive: the types, `PagesConserved`, `HeadersRight`
  and, for each slab, that its free list and its live objects are apart and
  together all its objects, over the part of the memory map linked so far. A
  slab is made from a page off the list, so an object is new because its page
  was. From it `HeapInvAlways`, `PagesConservedAlways`, `ObjectsConservedAlways`,
  for any memory map without overlaps, page size, caches and requests of callers
  that grow what they reallocate; the objects `krealloc` leaves behind are counted.
- `ApicProofs`. `ApicInvAlways` and `HandlersRightAlways` from `IntrInv`: which
  vectors have handlers at each place of the boot code, that every open entry
  has the keyboard's vector, that a vector in service is the one being handled,
  and where a byte is between the controller, the pin and the handler.
  `SliceLongEnoughAlways` from `SliceInv`, by division with rounding down: each
  polled tick is taken for no longer than it is. `KeyboardRoutedAlways` from
  `TablesInv` (`isos` and `ioapics` are the last entries of the MADT read so far,
  by an induction along `offset`) and `PinsInv` (every pin is masked until
  `route_irq`, one is open afterwards), on every machine the boot code gets
  through: with more IOAPICs than the array holds it does not.
- `ElfProofs`. `MemmoveCopies`: `memmove` on any memory copies what the source
  held before the call, by induction over the turns of the loop it picks.
  `CallInv` says what every place of the call relies on, and gives
  `LoaderInvAlways`. `ImageInv`: the segments done so far are whole and the pages
  of the others are not theirs; by division the pages the loader counts are the
  pages the linker meant. `StackInv`: the words pushed so far are at the window's
  end; the move to the aligned place is `MemmoveCopies`, with overlap. `AuxvInv`:
  the locals hold what the last header of their kind said, and the inner call was
  given the outer one's. They give `ImageRightAlways`, `StackRightAlways` and
  `AuxvDescribesProgramAlways`.
- `VmmProofs`. `Inv` is `ListsInv /\ (Contained => PageInv)`. A step may stray, and
  nothing is known of the pages afterwards; `StrayedGrows` says that it cannot be
  undone, so every step that ends `Contained` began so, and is a step of requests
  that stay where they belong. `RegionsInOrderAlways` needs only `ListsInv`, which
  is about one map at a time: lists are ordered and lie in the address space, and
  a map whose program is not loaded yet holds only its segments and what lies in
  the upper half, which is why a segment that is inserted below its successor
  does not reach into it. First fit looks at one gap only, so a list that was out
  of order would be searched with a difference below zero.
  The other theorems are about what the tables mean, which the variables do not
  say: the value of a page depends on who points to it. So the proof speaks of
  places. `At(ent, root, k, a)` is the table of level `k` above the pages whose
  number begins with `a`, and the page itself for `k = 0`; `Forest` says that no
  page but the doubly mapped ones is at two places of any maps and that none at
  a place is free. A write to an entry then changes one place (`Write`): without
  `Forest` the table written to could be part of a second path. On that rest, one
  level up each, `NextTable`, `MapIs`, `RangeIs`, `NodeIs` and `UnmapIs`, which say
  of a whole operation what it does to places (`Mapped`: new tables and the pages
  of a range, with the flags asked for, and nothing else; `Unmapped`).
  `PageInv` is inductive with `OrderInv` (`ListsInv` where nothing strayed). Beside `Good` (types, `Forest`, a free
  list without repetition, nothing stale in use) it says that the slot of the
  HHDM has its table from the start, so that no kernel mapping ever changes
  the top table and the copy of `new_pagemap` stays true (`Shared` in `Forest`);
  which flags the entries of the two halves have; that the tables of a program
  are executable as long as it is loaded; that the heap's mapped pages are
  those of the list's regions; and where the lists end. `HeapFits` bounds the end
  of the heap under first fit by what `VmmAssumption` grants, and `TooMuch` says
  that a request for more pages than there are runs out of memory before it
  does harm. `TranslationsAre` and `TablesArePlaces` lead back from places to the
  sets the properties are stated with. From these `VmmInvAlways`,
  `KernelHeapIsItsRegionsAlways`, `KernelHalfSharedAlways`, `RingsApartAlways`,
  `CodeExecutableAlways`, `NoStaleTranslationAlways`, and `ListedPagesKeptAlways`
  by one lemma for each kind of step: a list that grows gets a region that is
  apart from the others, because the list that results is in order. All of these
  are stated under `Contained`; `OneUsePerPage`, `RingsApart` and
  `NoStaleTranslation` under `Clean`, too.
- `FdTableProofs`. `DescriptorsMarked`: types and `LiveMarked` are inductive.
  `Refinement`: every system call is a step of `OpenFiles` or none; openat's
  step needs `LiveMarked`, because the code looks only at the bitmap. Reads an
  int cannot count and buffers that wrap are steps `AReadOdd`, which keep only the
  other descriptors.

- `Lemmas`. A set of numbers that contains 0 and each successor contains every
  number (`SetInduction`; the library's induction theorems take a predicate, which
  no installed prover can instantiate, a set can be named), lists that lose or get
  their first element, maximum and minimum as `FiniteSetsExt` chooses them, and
  division. They are cited wherever a loop
  or a table is walked to its end.

Assumptions: names of different things differ (`NULL` is no thread, vnode or
record), the table has descriptors 0 and 1, the event stack has two slots, and
what the environment promises: the shape of the memory map, the MADT, the
scan codes and the linker's segments, as named in each module. `VmmAssumption`
bounds the heap by the rest of the HHDM's slot: `MaxRegions` may be any number
for which it holds, and the theorems about the tables are about such heaps. It
says nothing of hints and sizes; what the theorems need of them is in `Contained`,
a condition they name, and which behaviours of run `vmm` leave.

Only model-checked:

- liveness, which is beyond TLAPS: `EveryThreadRuns`, `Drained`, `BootEnds`,
  `InterruptsHandled`;
- the tree (`TreeIsArchive`, `LinksFollowed`): `Vfs` descends by a recursive
  operator;
- `MemoryRight`, `StringsRight` and `ArithmeticRight`: they compare computed values
  on every small input; of their routines only `memmove` is proved.

## 7. Bounds

`MaxKeys`, `CAP` (Keyboard); `MemMap`, `PageSize`, `Requests` (Heap); `Fan`,
`Pages`, `LowPages`, `MemoryMap`, `Hole`, `IntPages`, `OffsetPages`, `OffsetWraps`,
`NodesPerSlab`, `KernelSizes`, `UserSizes`, `Hints`, `MaxRegions` (Vmm); `MaxPath`,
`MaxMembers` (Vfs); `MaxFd`, `Offsets`, `Sizes`, `IntLimit`, `room` (FdTable);
`MaxPoll`, `MaxBytes`, `MaxIoapics`, `Machines` (Apic); `WordBits`, `Last`, `Bytes`,
`Numbers` (KLib, MCLib); `Page`, `Space`, `StackSize`, `OldWindows`, `OldStored`,
`Files` (Elf). Each is a constant with its code value in the module where it has
one, and a guard or a type uses it by name. `OffsetWraps` is `TRUE` in run `vmm`
and `FALSE` in `vmm_kernel`: with it, a region of the kernel that is longer than an
int's offset may be unmapped at addresses where nothing is, and the frees of page
0 that follow leave the memory the model has.
`MaxPoll` exceeds the ticks of the slowest clock's `ksleep`, so `BootEnds` is not
cut off by it.

## 8. Not modelled

- uACPI callbacks other than the stall: stubs, port and memory accesses, and
  calls of `kmalloc` and `kfree` for a library outside the repository.
- flanterm, nanoprintf: vendored. Serial port: output. `bump.c`,
  `vmm_region_dealloc_user`: no caller. The build of the user space.
- Segments that share a page (`elf.c:35`: the second replaces the first's page):
  linkers lay none out so.
- Keyboards that send fake shifts before extended keys: `ps2_handler` has no
  branch for them.
- `load_elf_program` with arguments or environment: its one caller passes 0.
  Old windows that are not a multiple of four bytes, and interpreters that lead
  back to themselves, which recurse until the kernel stack ends.
- The branches of `vnode_rdwr` that overwrite or grow a file: no caller.
- Links in the middle of a path (`vfs.c:91` drops what follows) and links that
  lead to each other (it recurses without end); a member whose parent is missing
  (`vfs.c:107`), since tar writes parents first.
- What follows undefined behaviour: a descriptor from a full table (`vfs.c:165`),
  a mapping through an entry of a page map that nobody cleared (`vmm.c:412`), a
  MADT that was not found (`apic.c:118`) or lists too many IOAPICs (`apic.c:137`).
  The models reach these points and stop there.
- `krealloc` to a smaller size (`pmm.c:288` copies the old one): no caller.
- Memory of 8 TiB and more, where the `int i` of the loops of `vmm.c` overflows.
- Sizes that `kfree` is told wrongly (`vfs_create` gives two bytes less than it
  took): archive names are below 100 bytes, far from the limit at 1024.

## 9. Plan

Done: `Sched` with its abstract specification, `Keyboard`, `Heap` with `SizeClass`,
`Vmm` with flags and the TLB, `FdTable` with its refinement, `Apic`, `KLib`, `Elf`
and `Vfs`; theorems for every safety property of `Sched`, `Keyboard`, `FdTable`,
`Heap`, `Apic`, `Elf` and `Vmm`.

Left, in this order:

1. Theorems about `Vfs`, with the descent through a path as a recursive function
   of its depth instead of a recursive operator.
2. Theorems about the other loops of `KLib` (`memcpy`, `align_up`, `strcmp`).
3. A composition of `Heap` and `Vmm`: `kmalloc` and `kfree` on both sides of
   1024 bytes, region nodes taken in the middle of a region allocation.
4. Links in the middle of a path, and lookups of `FdTable` through `Vfs`.

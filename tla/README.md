# TLA+ verification of RTV

RTV is a small type-1 hypervisor for x86_64. It boots from multiboot2, builds
its memory management, starts the application processors (APs), synchronizes
their MTRRs and hands one Linux image to a virtual machine. This directory
models the parts of it that carry state and concurrency, checks them with TLC on
small instances and proves the central facts with TLAPS.

Paths below are relative to the repository (`src/` in `PROJECT.json`).

## 1. Inventory

| Component | State | Operations | Interacts with | What is hard |
|---|---|---|---|---|
| Ticket spinlock, `include/utils/spinlock.h` | `next`, `owner` (16 bit each) | `spin_lock`, `spin_unlock`, `spin_trylock` | everything below | counters wrap; all CPUs wait on it |
| Frame allocator, `kernel/mm/physical.c`, `utils/bits.c` | `mm_table`, `mm_limit`, `entry_end`, `phy_lock` | free/take range, set limit, next free range, alloc one / contiguous / aligned / low, free | `kernel_main`, vm.c, percpu, malloc, virt/mem.c | rounding, word boundaries, searches that hold a lock |
| Kernel mappings, `arch/x86_64/mm/vm.c` | page table and page directory windows, `pg_lock`, TLBs | map/unmap one or several 4KB or 2MB pages, unrestricted maps, `vm_init` | frame allocator (for tables), all users of physical memory | gaps, unsigned bounds, no TLB shootdown |
| malloc, `kernel/mm/malloc.c` | bucket lists and counts, preambles and postambles, `mm_lock` | `malloc`, `free`, split, merge | frame allocator and vm.c at init; boot_info, virt | in-band metadata, coalescing |
| AP boot, `smp/smp.c`, `smp/ap_boot.S`, `acpi_sec_init` | `BOOT_STATUS`, `BOOT_STACK`, `g_cpus` | `smp_boot_cpu`, trampoline, `ap_main` | percpu, GDT, `kernel_main` | timeout against a late AP, shared mailbox |
| Per-CPU areas, `cpu/percpu.c` | `pcpu_counter`, `percpu_virt`, `pcpu_id` | `percpu_init` | GDT, frame allocator, vm.c | unlocked counter read three times |
| GDT and MTRR, `cpu/mmu.c` | GDT present bits, `gdt_lock`, `mtrr_sync` | `alloc_tss_desc`, `mtrr_config` and the waits around it | AP boot | a rendezvous on one counter |
| `kernel_main`, `boot/init.c`, `kernel/boot_info.c` | `vm_config`: configuration, names, places and sizes of the modules | tags of the boot loader, the order of all initialization, matching of modules | everything | modules in any order and number, arrays that are not initialised |
| ACPI tables, `kernel/acpi.c` | `lapic_ids`, `irq_map`, `g_cpus`, the trampoline | parse RSDP/RSDT/XSDT/MADT/DMAR, `acpi_irq_to_gsi` | vm.c (temporary maps), AP boot, IOAPIC | array bounds, order of initialization |
| LAPIC and IOAPIC, `interrupt/apic.c` | LAPIC IDs, `gsi_base`, `num_gsi`, redirection table | `lapic_init`, `ioapic_init`, `ioapic_map_gsi`, `lapic_eoi` | ACPI tables, interrupts | entries of two halves, polarity and trigger mode |
| Guest memory, `virt/mem.c` | e820 table, EPT, relocated kernel and ramdisk | `virt_setup_linux`, `virt_setup_e820`, `virt_pg_table_setup` | frame allocator, vm.c | assumptions about which frames were allocated |
| VM set-up, `virt/virt.c` | `vm_structs`, `cpu_to_vm`, VMXON region, VMCS | `virt_init`, `virt_percpu_init`, `virt_main` | malloc, frame allocator, guest memory | order of the VMX instructions, unchecked `vmwrite` |
| Console, `utils/screen.c`, `kernel/debug.c` | cursor, `scr_lock` | `printf`, `vprintf`, `panic` | every component, handlers | handlers that print; unsigned widths |
| Interrupts and exceptions, `interrupt/interrupt.c`, `isr.S` | interrupt flag, LAPIC's pending and in-service bits | `isr_handler`, `exp_handler` | console, LAPIC | they interrupt what holds a lock |
| IOMMU, strings, boot assembly | - | - | - | not called, or without control |

The properties that make each modelled component correct are the named
properties of its module (section 3). `PROJECT.json` lists the hazards with the
line where each bites and the properties that cover it.

## 2. Modules

| Module | Models | State |
|---|---|---|
| `SpinLock` | `spinlock.h` | both counters, each CPU's ticket and position |
| `FifoLock` | abstract: a first-come-first-served lock | queue, who is inside |
| `SpinLockProofs` | theorems about `SpinLock` | |
| `PhysMem` | `physical.c`, `bits.c` (as sets of bits), the memory phases of `kernel_main` | the table as the set of its 1 bits, the locals of a search, the frames callers hold, the ranges taken |
| `MCPhysMem` | memory maps for TLC | |
| `PhysMemProofs` | theorems about `PhysMem` | |
| `SmpBoot` | `acpi_sec_init`, `smp_boot_cpu`, `ap_boot.S`, `ap_main`, `percpu_init`, `alloc_tss_desc`, MTRR waits | one program counter per CPU and the shared variables |
| `SmpBootProofs` | theorems about `SmpBoot` | |
| `Rendezvous` | abstract: nobody updates before all wait, nobody leaves before all have updated | stage of each CPU |
| `Buddy` | `malloc.c` | lists as sets, counts, postamble bytes, blocks in use, the locals of an operation |
| `BuddyProofs` | theorems about `Buddy` | |
| `Heap` | abstract: blocks in use are disjoint and large enough | blocks in use |
| `KernelMap` | the 4KB and 2MB windows of `vm.c`, `vm_init`, the malloc pool's entries | both tables, the mappings callers hold, each CPU's cached translations, the locals of a search |
| `KernelMapProofs` | theorems about `KernelMap` | |
| `LinuxGuest` | `virt_setup_linux`, `virt_setup_e820`, `virt_pg_table_setup` on `PhysMem` (EXTENDS) | `PhysMem`'s, the step of the set-up, the places of kernel and ramdisk, the e820 table, the locals of its scan, what the EPT maps |
| `Platform` | `acpi_init`, `lapic_init` on the BSP, `ioapic_init` | how far the tables are read, `lapic_ids`, `irq_map`, the redirection table by halves |
| `KernelMain` | `kernel_main`, `parse_boot_info`, `virt_init`, `virt_percpu_init`; composes `LinuxGuest` (with `PhysMem`) and `Platform` (EXTENDS both) | theirs, `vm_config`, the tag loop, the VMX state of the BSP |
| `MCKernelMain` | machines and firmwares for TLC | |
| `KernelMainProofs` | theorems about `KernelMain` and `Platform`; EXTENDS `PhysMemProofs` | |
| `GuestProofs` | theorems about `LinuxGuest` and about the launch in `KernelMain`; EXTENDS `KernelMainProofs` | |
| `Console` | `printf`, `vprintf`, `_putchar`, `panic_raw`, `isr_handler`, `exp_handler`, the interrupt flag; `scr_lock` is the lock of `SpinLock` (EXTENDS) | `SpinLock`'s, each CPU's place, the text to be put, the cursor, the LAPICs |
| `MCConsole` | conversions for TLC | |
| `ConsoleProofs` | theorems about `Console`; uses those about its lock | |

Actions carry the names of the functions they model; a function whose loop is
the point is split into an action that enters it and one per way through its
body. Operations under a lock are not interleaved with operations under the same
lock: `SpinLock` is what justifies that. Definitions named "Mutant of ..." are
faulty variants of the definition that follows; no specification uses them, they
show that the property named for them in `PROJECT.json` can fail.

What is abstracted:

* `PhysMem`: word arithmetic inside an entry of `mm_table`. `Bits(b, n)` is
  what `bitmap64_set_range` computes, `Least` what isolating the lowest bit
  computes. Byte-to-page rounding, unsigned subtraction and the division into
  entries are kept.
* `SmpBoot`: waiting times. `Late` says whether an AP may miss
  `LOOPS_TO_WAIT`. The wait of `smp_boot_cpu` is bounded whatever the AP does:
  without `Late` it runs out for every AP that is not on its way to the status,
  because it never started, panicked or faulted, or went past the status without
  setting it. Whether memory and virtual pages for a stack or a per-CPU area are
  there is left open: each AP's start may end in the panic of `smp_boot_cpu`
  (`stack_fails`) and each AP in that of `percpu_init` (`percpu_fails`).
  A CPU that faults or panics stops (`exp_handler` and `panic` do not return). Descriptors
  are their kind.
* `Buddy`: the order of a free list; any member of the list may be its first.
  Bytes that callers write are drawn from `Fill`, which contains the values of
  entries and of `USED`.
* `KernelMap`: flags of an entry other than present. The frame that `vm_unmap_*`
  returns is used by no caller and is left out.
* `LinuxGuest`: the contents of image, zero page and command line, and the flags
  of EPT entries. A kernel mapping succeeds or the code panics (`setup_panics`).
  `hdr.ramdisk_image` and `hdr.ramdisk_size` keep their 32 bits: they and the end
  computed from them are taken modulo 4 GB (`G4 * PG_SIZE`).
* `Platform`: bytes of the tables. A table is a sequence of structures; the
  checksums are fields that say whether they are right. The tables that
  `vm_map_page_unrestricted` adds are not cleared, so it returns, panics or
  faults (`IdentityMap`).
* `KernelMain`: names of modules are compared as a whole. Frames that page
  tables, per-CPU areas and the malloc pool take are up to `MaxBefore` calls of
  `alloc_phys_frame`. Following an uninitialised pointer or size ends in the step
  `undefined`. The VMCS has three groups of fields, one per set-up function; what
  `vmclear`, `vmptrld` and `vmwrite` do is the processor's part.
* `Console`: a message is one conversion and a newline; digits and marks stand
  for characters. `%s` is left out.

## 3. Runs

Passing runs:

| Run | Instance | Shows |
|---|---|---|
| `spin_lock` | 3 CPUs, 3 tickets | mutual exclusion, the ticket window, first come first served (refinement of `FifoLock`), every ticket served. The counters wrap all the time and the bound CPUs <= tickets is met with equality |
| `phys_mem` | 3 memory maps, pages of 4 bytes, entries of 2 bits, up to 4 allocations | frames handed out once (`FramesApart`), only usable memory (`OnlyUsableFrames`), `physical_next_free_range` equals its definition at every bit, the aligned search finds the lowest run or rightly fails, and ends; `alloc_phys_frames` finds `num` frames wherever `num + WORD - 1` in a row are free |
| `smp_boot` | 4 APs, one dead, the others may panic | own stacks, own per-CPU areas, `g_cpus` exact after timeouts and panics (`CountsOnline`), no AP needs the identity mapping when it goes (`IdentityNotMissed`), the MTRR waits implement `Rendezvous`, `acpi_sec_init` ends or panics whatever the APs do (`SecInitEnds`) |
| `buddy` | 8 units, three sizes on both sides of a block boundary | pool partitioned with its marks right (`Partition`), no premature "out of memory", operations end, refinement of `Heap` |
| `kernel_map` | 2 CPUs, 7 pages, 2 large pages, 3 mappings, one cached translation per CPU | mappings intact, accounted for and inside the windows, no stale translation in use although `invlpg` is local, searches end and find `num` entries wherever `num + 1` in a row are free |
| `kernel_main` | 35 machines and 103 firmwares, every machine with one firmware and every firmware with one machine | the whole way of the BSP: `lapic_ids` are the other CPUs (`ApsAreTheOthers`), one IOAPIC entry is open, the timer's, and none is seen half written (`PitRouted`), the trampoline survives (`TrampolineIntact`), the VM gets "linux" and "initrd" (`VmGetsItsModules`), its e820 table is sorted, holds its frames and shares none (`GuestFindsItsFrames`, `GuestRamExclusive`, if the ramdisk ends below 4 GB), no large page that could be the guest's is left when `virt_setup_e820` returns (`NoLargePageLeft`), its EPT reaches nothing of the hypervisor's (`EptPrivate`), `vmlaunch` finds a complete VMCS (`LaunchReady`), every boot ends (`BringUpEnds`) |
| `console` | 2 CPUs, three binary digits, one exception | messages whole, formatted right and inside the frame buffer (`PrintsWhole`), no interrupt handler waits for a printf of its own CPU (`NoSelfDeadlock`), `scr_lock` is served (`PrintEnds`), ticks go on being served (`TickServed`) |

Runs that violate what the code's comments and callers say (the counterexamples
are findings in `PROJECT.json`):

| Run | Violates | Because |
|---|---|---|
| `phys_overrun` | `ScanStaysInTable` | unbounded `while` at `physical.c:200` |
| `linux_ramdisk` | `RamdiskDescribed` | `hdr.ramdisk_image` has 32 bits: a ramdisk moved to 4 GB is described at address 0 (`mem.c:230`) |
| `smp_late` | `StacksApart` | a late AP reads the next AP's `BOOT_STACK` |
| `smp_gdt` | `GdtEntriesApart` | `percpu_init` scans the GDT without `gdt_lock` |
| `smp_mtrr` | `AllCpusRun` | the counter leaves `g_cpus` before every CPU has seen it |

`WideRunFound` and `WideGapFound` say what the two searches guarantee, which is
less than a caller would expect. `alloc_phys_frames` may return 0 although a run of
exactly `num` frames is free: `pos += 64` from an unaligned `pos`
(`physical.c:219`) enters the next entry in the middle. `vm_map_pages` and
`vm_map_large_pages` may return NULL although a run of exactly `num` entries is
free: `i = j + 1` is followed by the loop's `i++` (`vm.c:134`, `vm.c:352`). With
`n == op.num` in place of the wider run TLC finds both. Other limits of the
code lie outside the instances, or are stated as conditions in a property:

* a memory map entry inside one page makes the length in `physical_free_range`
  wrap (`physical.c:44`); a machine with such an entry violates
  `OnlyUsableFrames`;
* a ramdisk whose copy ends at or above 4 GB is described at another address
  (`linux_ramdisk`); `GuestRamExclusive`, `GuestFindsItsFrames` and the clause of
  `LaunchReady` about the e820 table have `RamdiskFits`, that it ends below, as a
  condition. Five of the 35 machines have such a ramdisk;
* `virt_setup_linux` frees the image (`mem.c:172`) before it looks for the ramdisk's
  frames, so the ramdisk may go below the kernel, which the comment at
  `mem.c:139-142` does not expect. Nothing checked here depends on that order;
* more than 17 large pages make the loop bound of `vm_map_large_pages` wrap
  (`vm.c:331`); a number above `LG_LIMIT + 1` in `LargeNums`, with a directory
  large enough for it, violates `WindowAccounted`;
* an AP that starts after its timeout faults in the trampoline once the identity
  mapping is gone (`init.c:192`): `Late = TRUE` violates `IdentityNotMissed`;
* `acpi_add_cpu` knows the BSP only if its LAPIC ID is 0 (`acpi.c:62`);
  `ApsAreTheOthers` has this as a condition;
* `kernel_phy` and `ramdisk_phy` are read before the relocation (`mem.c:252`):
  with `RAM_SIZE = 4` `EptPrivate` is violated, with 2, which
  `boot_info.c:76` sets, no entry uses them;
* the host pages behind 4 GB + 1 MB are not taken from the allocator
  (`mem.c:317`); the part of `EptPrivate` about free frames asks that the 2 MB
  there are memory as a whole;
* an exception inside a `printf` stops that CPU and every later `printf`
  (`interrupt.c:83`); `PrintEnds` excludes it.

Bounds and why they are enough. `PhysMem`: two bits per entry, entries before,
inside and after every region, runs of up to three pages and a large page of two
entries give every relation of run, entry and limit that the searches
distinguish; four allocations fill the smaller machines. `Buddy`: four entries
give splits and merges of up to three levels. `KernelMap`: two mappings with
gaps around them and a search for a third are the smallest instance with a short
run before a long one; a stale translation needs one cached entry. `SmpBoot`:
three APs that start give a CPU that overlaps its predecessor and its successor;
with `Late` two are enough. `KernelMain`: pages of two bytes, low memory of six
pages, a large page of twelve (`LARGE_PG`) and 4 GB at page 72 (`G4`) keep the
proportions of a PC; the machines have up to seven large pages, the hole below
and between the modules, either order of kernel and ramdisk, memory that ends in
each position the scan distinguishes, low memory whole, split or too small, ten
lists of modules and up to five processors. `RAM_SIZE` is 2 as in `boot_info.c`, so
the loop of the EPT makes one entry. `MAX_CPUS` 4 and `MAX_IRQ_OVERRIDES` 2 are
met exactly and exceeded (the panics of `acpi.c:66` and `acpi.c:109`); three pins give a first, a middle and a last one.
`Console`: three digits with widths and precisions from 0 to 4; a third CPU adds
nothing to a lock that `SpinLock` checks with three.

Fairness. A CPU keeps executing its instructions: `SpinLock` assumes that a CPU
whose ticket is served notices and that critical sections end (each is a finite
piece of code); `PhysMem`, `Buddy` and `KernelMap` that the holder of the lock
goes on; `KernelMain` that the BSP, alone until the APs start, goes on;
`Console` weak fairness per CPU, which includes that a CPU with interrupts
enabled takes a pending one, but not that anything panics or faults; `SmpBoot`
weak fairness per CPU, since CPUs run in parallel and the boot code is not
preempted. No strong fairness is assumed: the finding `smp_mtrr` depends on
that, a spinning CPU is not promised to read the counter in a particular
interval.

Deadlock is checked for `SpinLock` and `PhysMem`. The other cfgs switch it off:
CPUs end in their idle loop, `panic` halts the machine, and mappings are kept
for good.

## 4. Proofs

Every theorem is about all values of the constants that satisfy the named
assumptions of its module, so about any number of CPUs, any memory map, page,
word and table size, any pool, any list of modules. `PROJECT.json` lists them with
the property each one states; all of these properties but the type invariant of
`SpinLock` are also checked by a run.

| Theorems | Property | Hypothesis |
|---|---|---|
| `LockTypeCorrect`, `LockTicketWindow`, `LockMutualExclusion` | invariants of `SpinLock` | - |
| `LockFirstComeFirstServed` | `SpinLock` implements `FifoLock` | - |
| `PhysTypeCorrect`, `PhysFramesApart` | `TypeOK`, `FramesApart` | - |
| `PhysOnlyUsableFrames`, `PhysNextFreeRangeCorrect` | the invariants of that name | `SoundMachine` |
| `PhysWideRunFound` | action property `WideRunFound` | - |
| `PhysAlignedFindsLowest` | action property `AlignedFindsLowest` | `LargePagesFit` |
| `MapMappingsIntact`, `MapWindowAccounted`, `MapNoStaleTranslation` | invariants of `KernelMap` | `BoundNeverWraps` |
| `MapWideGapFound` | action property `WideGapFound` | `BoundNeverWraps` |
| `SmpStacksApart`, `SmpOwnPercpuArea`, `SmpCountsOnline`, `SmpIdentityNotMissed` | invariants of `SmpBoot` | `~Late` |
| `SmpMtrrRendezvous` | the MTRR waits implement `Rendezvous` | `~Late` |
| `BuddyPartition`, `BuddyNoFalseOom` | invariants of `Buddy` | - |
| `BuddyImplementsHeap` | `Buddy` implements `Heap` | - |
| `ConsoleNoSelfDeadlock` | `NoSelfDeadlock` | - |
| `ConsolePrintsWhole` | `PrintsWhole` | `ConversionsRight` |
| `KernelTrampolineIntact`, `KernelVmGetsItsModules` | invariants of `KernelMain` | - |
| `KernelApsAreTheOthers`, `KernelPitRouted` | invariants of `Platform`, over `KernelSpec` | `SoundFirmwares` |
| `GuestNoLargePageLeft` | invariant `NoLargePageLeft` of `LinuxGuest`, over `KernelSpec` | `SoundBoots` |
| `GuestRamIsExclusive`, `GuestFramesFound` | `GuestRamExclusive`, `GuestFindsItsFrames` | `SoundBoots`, `SoundLow` |
| `GuestEptPrivate` | `EptPrivate` | `SoundBoots`, `SoundLow`, `SoundHigh`, `pdt_entries = 1` |
| `KernelLaunchReady` | `LaunchReady` of `KernelMain` | the same |

The hypotheses are conditions the code takes for granted and does not test.
They stand in the theorems, not in assumptions about the constants, because the
system can be without them:

* `SoundMachine` (`PhysMem`): no available region inside one page, and modules
  in memory that share no page with each other, the kernel image or page 0.
  `MCPhysMem` evaluates it on its machines.
* `LargePagesFit`: a large page is a whole number of entries (512 and 64 in the
  code) and the search starts at one.
* `BoundNeverWraps`: no caller asks for more than `LG_LIMIT + 1` large pages,
  17 in the code (`vm.c:331`); with one TLC violates
  `WindowAccounted`.
* `~Late`: no AP answers after its timeout; with a late one TLC violates
  `StacksApart` (`smp_late`) and `IdentityNotMissed`. Which APs
  never start or panic in `percpu_init` is left open.
* `ConversionsRight`: `vprintf`'s loop turns one conversion into the digits meant.
  The loop is a recursive function over the digits, and what a recursive
  definition computes for every input is not in the provers' reach; TLC evaluates
  it for every width, precision and value of the run.
* `SoundFirmwares`: a MADT as ACPI defines it: no two enabled CPUs with one LAPIC
  ID, one override for IRQ 0, no reserved value in its flags. `ioapic_init` tests
  one bit of each two-bit field, which is enough only without the value 2.
  `MCKernelMain` evaluates it on its firmwares.
* `SoundBoots`: `SoundMachine`, and every module is above the first MB, where
  boot loaders put them, not empty, and of at most 255 large pages: `virt_setup_linux`
  counts them in a `uint8_t` (`mem.c:116`).
* `SoundLow`: if at least three pages below 1 MB are left at boot, the lowest three
  are in a row. `virt_setup_e820` does not know `zero_frame` and `cmd_frame`, it
  supposes them in the two pages before the first free range (`mem.c:88`). A memory
  map with a one-page island at its start makes that wrong.
* `SoundHigh`: what the code supposes about the 2 MB at 4 GB, of which the EPT
  maps the upper half to the guest's second MB without taking it from the allocator
  (`mem.c:317`). Either they are no memory, or all of them is memory that nothing
  occupies at boot; then there has to be a hole between the guest's kernel and 4 GB,
  which every PC has, or the range would begin below `kernel_end` and not be given
  to the guest, and below 4 GB there must be frames for everything `kernel_main`
  allocates singly, since `alloc_phys_frame` takes the lowest one. The image of the
  hypervisor is outside these 2 MB and low memory.
* `pdt_entries = 1`: `ram_size` is 2, as `parse_boot_info` hard-codes it. With 4 the
  EPT uses places of kernel and ramdisk that are out of date, and TLC violates
  `EptPrivate`.

`MCKernelMain` evaluates the last four on its machines. One of the 35, whose memory
ends inside the large page at 4 GB, is not `SoundHigh`: for it `EptPrivate` and
`LaunchReady` are model-checked only.

The inductive invariants, and why the properties alone do not do:

* `SpinLock`: `TypeOK /\ TicketWindow`. Mutual exclusion says nothing of waiting
  CPUs; the window does: tickets in use are distinct, lie within
  `Cardinality(Active)` of `owner` modulo the wrap, `next` is its end, and the CPU
  inside has ticket `owner`. The refinement orders the waiting CPUs by their
  distance from `owner`; a new ticket is the largest distance, an unlock moves all
  of them by one.
* `PhysMem`: `IInv` is `TypeOK`, `MemLimitBound` (so `entry_end` stays in the
  table), `BootFirst` (nothing is handed out before boot is over) and `FramesApart`.
  `UsableInv` adds what is reserved in which phase of the boot; `FramesSearch`
  and `AlignedSearch` say what a search under way has not passed over: of a wide
  run at most `WORD - 1` pages, of runs at large pages none. For
  `NextFreeRangeCorrect` `TableEnds` bounds the table, and the four loops of
  `physical_next_free_range` are put together at the least page that ends a run;
  that a set of pages has a least one is `WFMin` on the natural numbers, which
  stands in for the induction theorems the provers cannot instantiate.
* `KernelMap`: `MapInv`. `Accounted` says that an entry of a window is present
  exactly if it belongs to a mapping; `Cached` that a cached translation belongs to
  a mapping its CPU may use, which holds because the only user of a mapping is
  the CPU that removes it; `Unpassed` what the search has not missed.
* `SmpBoot`: `BootInv` says that at most one AP, the one the BSP waits for, is
  before its write of the status (`OneBoots`), which makes the unlocked
  `pcpu_counter` safe, and which CPUs have an id when (`IdsAssigned`, `StatusTells`,
  `CountRight`). `SyncInv` says that `mtrr_sync` is the number of CPUs that
  have stopped and not updated, that `g_cpus` is above it until the last one has
  come, and that no CPU stops after one went on.
* `Buddy`: `BuddyInv` holds in the middle of `malloc` and `free` as well: the free
  blocks, those in use and the one being freed tile the pool (`Tiles`), every
  postamble tells the state of its block (`Marked`), the lists between the entry
  wanted and the one split are empty (`UnderWay`), and no two buddies are free
  apart from those of the operation (`Merged`). That blocks which meet are nested,
  that the postamble `buddy_try_merge` reads is a postamble, and that a pool
  without a large free block has an unmerged pair are lemmas about aligned blocks;
  the laws of `2 ^ e` they need come from the number of subsets of a set.
* `Console`: `QuietInv` (the interrupt flag is set only in the idle loop, which
  prints nothing), on top of `SpinLock`'s invariant; `PrintInv` (what the holder
  has put and has still to put is its message).
* `KernelMain`: `FrameInv` (what is handed out before the APs start comes from
  `alloc_phys_frame`, which skips the first MB) and `ModInv` (which place and size
  belong to which name while modules are taken, matched and handed to the VM).
* `Platform`: `MadtInv` relates `lapic_ids` and `irq_map` to the structures read so
  far (`CpusKept`, `OverridesKept`). `PitInv` follows the redirection table: the
  firmware's, masked up to the loop's pin, then the PIT's entry with its lower half
  written last.
* `LinuxGuest` over `KernelSpec`: first, `GuestBase` carries the allocator's
  invariants through `kernel_main`: up to the copy of the ramdisk its steps are
  `PhysMem`'s (`EarlyMem`), from `virt_setup_e820` on frames also leave the
  table without being held (`LateMem`); `CopyInv` and `PendingInv` say which module or
  block of large pages image and ramdisk are at each step. `LoopInv` adds that the
  free range under way is the first from `scan.from` on (`Found`) and that every
  large page below it that is still free belongs to a run that begins below
  `kernel_end` (`LeftInv`): the property speaks of the end of the loop only.
  `GuestInv` adds which frames of low memory are free at which step (`LowFrames`,
  `LowFree`, `CompleteInv`: nothing that was free at boot gets lost), so that
  `zero_frame` and `cmd_frame` are the lowest two, where the ramdisk is
  (`RamdiskInv`), and the table so far (`E820Inv`: ascending up to the place of the
  scan, private, the ramdisk's entry in it or still ahead, if `RamdiskFits`: then
  the 32-bit fields hold the ramdisk's address, size and end, `FitsIs`).
* EPT and launch: `EptGuestInv` adds that what is held is single frames and the
  two images (`KindsInv`), that before the images are copied there are at most
  `MaxBefore + 4` of the former (`FewFrames`), so that by counting a lower frame is
  free and none of them lies in the large page at 4 GB (`SingleInv`), and that this
  page is free as a whole or not at all and after the scan not (`AboveInv`).
  `LaunchInv` adds the frames of VMXON region, VMCS and PML4T (`OwnFrames`) and which
  instructions and groups of fields have come at each step (`VmcsInv`).

Only model-checked: liveness (`EveryTicketServed`, `AlignedReturns`,
`SecInitEnds`, `OperationsEnd`, `SearchEnds`, `BringUpEnds`, `PrintEnds`,
`TickServed`) and what depends on ENABLED, which these provers do not handle;
the formatting itself (`ConversionsRight`). Every invariant and every safety
property of a step that a passing run checks is stated by a theorem.

## 5. Not modelled

* `spin_trylock`, which no code calls (its new lock word advances `owner` where
  `next` is meant); `iommu.c`, whose call is commented out.
* Memory above 64 GB (`MachineAssumption` states the limit the code takes for
  granted), sizes above the malloc pool, a second `free` of the same block: what
  they do depends on bytes outside the structures.
* The page walk of `vm_map_page_unrestricted`, beyond its outcomes: they depend on
  what uncleared frames hold.
* The values of VMCS fields, of MTRRs and of the 8259 and 8254, the IDT, boot
  assembly, `memcpy`, strings and `%s`: straight lines without control.
* `virt_percpu_init` on APs: its call is commented out (`smp.c:124`).

## 6. Plan

1. `Bits`: the word and mask algorithm of `bitmap64_set_range` and
   `bitmap64_clear_range` against `Bits`.
2. `EptPrivate` for `ram_size` above 2, once `kernel_phy` and `ramdisk_phy` are read
   after the relocation: the loop over the entries and an invariant about the
   entries made so far in place of `EptInv`.

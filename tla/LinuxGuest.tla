----------------------------- MODULE LinuxGuest -----------------------------
(***************************************************************************)
(* The memory of the Linux guest: virt_pg_table_setup, virt_setup_linux    *)
(* and virt_setup_e820 of arch/x86_64/virt/mem.c, on the frame allocator   *)
(* of PhysMem.  The BSP runs them for the VM that virt_init set up (module *)
(* KernelMain); the searches for frames are PhysMem's steps.  Pages and    *)
(* frames are PhysMem's page numbers, sizes of images are bytes.  What the *)
(* image and the command line hold is left out.  Kernel mappings are       *)
(* module KernelMap's; here a mapping succeeds or the code panics.         *)
(***************************************************************************)
EXTENDS PhysMem

CONSTANTS SETUP,        \* bytes of the image before the kernel
          RAM_SIZE,     \* ram_size of the VM in MB, 2 in boot_info.c
          G4            \* the page at 0x100000000

\* A table has as many entries as a large page has pages.  A large page is
\* 2MB, low memory the first MB of one.
ASSUME GuestAssumption ==
    /\ SETUP \in Nat /\ RAM_SIZE \in Nat
    /\ LARGE_PG = 2 * (LOWMEM * WORD)
    /\ G4 \in Nat \ {0} /\ G4 % LARGE_PG = 0

VARIABLES step,     \* how far kernel_main and the set-up are
          vm,       \* img, extra: the image and the ramdisk; zero, cmd: the
                    \* frames below 1MB; before: held when a search began
          e820,     \* the entries written, as [base, num]
          scan,     \* start_paddr, mmap_start, mmap_size and merge_ramdisk
          ept       \* pml4t: the set of its frame; count: PDT entries made; map:
                    \* what they map, as [guest, host, num]; kernel_phy, ramdisk_phy

gvars == <<step, vm, e820, scan, ept>>

GuestInit ==
    /\ step = "boot"
    /\ vm = [img |-> [addr |-> 0, len |-> 0], extra |-> [addr |-> 0, len |-> 0],
             zero |-> 0, cmd |-> 0, before |-> {}]
    /\ e820 = <<>>
    /\ scan = [from |-> 0, start |-> 0, size |-> 0, merge |-> TRUE]
    /\ ept = [pml4t |-> {}, count |-> 0, map |-> {}, kernel_phy |-> 0, ramdisk_phy |-> 0]

\* LINUX_ENTRY_POINT is 1MB, the end of low memory.
LINUX_ENTRY_POINT == LOWMEM * WORD * PG_SIZE

\* ceiling64(bytes, LARGE_PG_SIZE) >> LARGE_PG_BITS, in a uint8_t
LargePages(bytes) == (RoundUp(bytes, LARGE_PG * PG_SIZE)
                         \div (LARGE_PG * PG_SIZE)) % 256

panic ==
    /\ step' = "panic"
    /\ UNCHANGED <<vars, vm, e820, scan, ept>>

-----------------------------------------------------------------------------
(* virt_pg_table_setup: the frames of the EPT                              *)

\* A frame for a table, or a panic.
ept_frame(next) ==
    \/ alloc_phys_frame /\ step' = next
    \/ /\ FirstFrame(LOWMEM, entry_end) = {}
       /\ step' = "panic"
       /\ UNCHANGED vars

\* kernel_phy and ramdisk_phy are read here, before virt_setup_linux moves
\* the image and the ramdisk.
ept_pml4t ==
    /\ step = "ept"
    /\ ept_frame("pdpt")
    /\ ept' = [ept EXCEPT !.pml4t = FirstFrame(LOWMEM, entry_end),
                          !.kernel_phy = (vm.img.addr + LINUX_ENTRY_POINT) \div PG_SIZE,
                          !.ramdisk_phy = vm.extra.addr \div PG_SIZE]
    /\ UNCHANGED <<vm, e820, scan>>

ept_pdpt ==
    /\ step = "pdpt"
    /\ ept_frame("zero")
    /\ UNCHANGED <<vm, e820, scan, ept>>

\* One PDT entry for each 2MB of ram_size.
pdt_entries == RAM_SIZE \div 2

\* The loop over the PDPT: a frame for a PDT.
ept_pdt ==
    /\ step = "tables" /\ ept.count < pdt_entries
    /\ ept_frame("entry")
    /\ UNCHANGED <<vm, e820, scan, ept>>

\* Mutant of FirstLargePage: the identity goes on behind the first MB.
FirstLargePage_identity == {[guest |-> 0, host |-> 0, num |-> LARGE_PG]}

\* The page table of the first 2MB: identity for the first MB, then 4GB up.
FirstLargePage ==
    {[guest |-> 0, host |-> 0, num |-> LARGE_PG \div 2],
     [guest |-> LARGE_PG \div 2, host |-> G4 + LARGE_PG \div 2, num |-> LARGE_PG \div 2]}

\* The entries behind it: the kernel, the ramdisk, then 4GB up.
KernelLeft  == ept.kernel_phy * PG_SIZE < vm.img.addr + vm.img.len
RamdiskLeft == ept.ramdisk_phy * PG_SIZE < vm.extra.addr + vm.extra.len

LargePageAt(guest) ==
    {[guest |-> guest, num |-> LARGE_PG,
      host  |-> IF KernelLeft THEN ept.kernel_phy
                ELSE IF RamdiskLeft THEN ept.ramdisk_phy
                ELSE guest + G4]}

\* The loop over a PDT, up to its end or to the bound.
ept_entry ==
    /\ step = "entry"
    /\ LET n    == ept.count + 1
           next == IF n >= pdt_entries \/ n % LARGE_PG = 0 THEN "tables" ELSE "entry"
       IN  IF ept.count = 0
           THEN /\ ept_frame(next)
                /\ ept' = [ept EXCEPT !.count = n, !.map = FirstLargePage]
           ELSE /\ step' = next
                /\ ept' = [ept EXCEPT
                     !.count = n,
                     !.map = @ \cup LargePageAt(ept.count * LARGE_PG),
                     !.kernel_phy = IF KernelLeft THEN @ + LARGE_PG ELSE @,
                     !.ramdisk_phy = IF ~KernelLeft /\ RamdiskLeft
                                     THEN @ + LARGE_PG ELSE @]
                /\ UNCHANGED vars
    /\ UNCHANGED <<vm, e820, scan>>

ept_done ==
    /\ step = "tables" /\ ept.count >= pdt_entries
    /\ step' = "vmcs fields"
    /\ UNCHANGED <<vars, vm, e820, scan, ept>>

-----------------------------------------------------------------------------
(* virt_setup_linux                                                        *)

zero_frame ==
    /\ step = "zero"
    /\ \/ /\ alloc_phys_frame_lowmem
          /\ vm' = [vm EXCEPT !.zero = Min(FirstFrame(0, LOWMEM))]
          /\ step' = "kernel"
       \/ /\ FirstFrame(0, LOWMEM) = {}
          /\ step' = "panic"
          /\ UNCHANGED <<vars, vm>>
    /\ UNCHANGED <<e820, scan, ept>>

\* Allocate the frames to copy to.
dst_frames(from, to, bytes) ==
    /\ step = from
    /\ alloc_phys_frames_aligned(LargePages(bytes) * LARGE_PG)
    /\ vm' = [vm EXCEPT !.before = held]
    /\ step' = to
    /\ UNCHANGED <<e820, scan, ept>>

dst_kernel  == dst_frames("kernel", "copy kernel", vm.img.len - SETUP)
dst_ramdisk == dst_frames("ramdisk", "copy ramdisk", vm.extra.len)

\* The loop of alloc_phys_frames_aligned.
dst_search ==
    /\ aligned_skip_entry \/ aligned_try \/ aligned_fail
    /\ UNCHANGED gvars

\* alloc_phys_frames_aligned returned 0.
dst_fails ==
    /\ step \in {"copy kernel", "copy ramdisk"} /\ op = Idle
    /\ held = vm.before
    /\ panic

\* Copy the kernel, free the whole image.
copy_kernel ==
    /\ step = "copy kernel" /\ op = Idle
    /\ \E b \in held \ vm.before :
          vm' = [vm EXCEPT !.img = [addr |-> b.base * PG_SIZE,
                                    len  |-> vm.img.len - SETUP]]
    /\ physical_free_range(vm.img.addr, vm.img.len)
    /\ step' = "cmd"
    /\ UNCHANGED <<mm_limit, entry_end, op, held, machine, boot, e820, scan,
                   ept>>

\* The result 0 is not tested.
cmd_frame ==
    /\ step = "cmd"
    /\ \/ /\ alloc_phys_frame_lowmem
          /\ vm' = [vm EXCEPT !.cmd = Min(FirstFrame(0, LOWMEM))]
       \/ /\ FirstFrame(0, LOWMEM) = {}
          /\ UNCHANGED <<vars, vm>>
    /\ step' = "ramdisk"
    /\ UNCHANGED <<e820, scan, ept>>

\* Copy the ramdisk, free the original.
copy_ramdisk ==
    /\ step = "copy ramdisk" /\ op = Idle
    /\ \E b \in held \ vm.before :
          vm' = [vm EXCEPT !.extra.addr = b.base * PG_SIZE]
    /\ physical_free_range(vm.extra.addr, vm.extra.len)
    /\ step' = "e820"
    /\ UNCHANGED <<mm_limit, entry_end, op, held, machine, boot, e820, scan,
                   ept>>

\* A mapping that is needed on the way cannot be made; the image does not
\* have the magic number.
setup_panics ==
    /\ step \in {"pdpt", "zero", "kernel", "cmd", "ramdisk", "entry", "tables"}
    /\ panic

-----------------------------------------------------------------------------
(* virt_setup_e820: one action per way through the body of its loop        *)

\* hdr.ramdisk_image and hdr.ramdisk_size of the zero page, as copy_ramdisk
\* leaves them, are uint32_t, and so is their sum.
ramdisk_image == vm.extra.addr % (G4 * PG_SIZE)
ramdisk_size  == vm.extra.len % (G4 * PG_SIZE)
ramdisk_end   == (ramdisk_image + ramdisk_size) % (G4 * PG_SIZE)

kernel_end  == LINUX_ENTRY_POINT + vm.img.len

\* physical_next_free_range(start_paddr, &mmap_start, &mmap_size).  Without a
\* range mmap_start is the end of the table, or keeps its value if the search
\* began there.
e820_find ==
    /\ step = "e820"
    /\ LET start_paddr == scan.start + scan.size
           none        == IF start_paddr \div WORD >= entry_end THEN scan.start
                          ELSE (entry_end + 1) * WORD
       IN  \E r \in {next_free_range(start_paddr)} :
           scan' = [scan EXCEPT !.from = start_paddr, !.size = r[2],
                                !.start = IF r[2] > 0 THEN r[1] ELSE none]
    /\ step' = "range"
    /\ UNCHANGED <<vars, vm, e820, ept>>

\* Mutant of MergeNow: the ramdisk is not added without a range behind it.
MergeNow_before_range ==
    scan.merge /\ scan.size > 0 /\ scan.start * PG_SIZE >= ramdisk_end

\* add ramdisk to linux memory
MergeNow == scan.merge /\ scan.start * PG_SIZE >= ramdisk_end

RamdiskEntry ==
    [base |-> ramdisk_image \div PG_SIZE,
     num  |-> RoundUp(ramdisk_size, LARGE_PG * PG_SIZE) \div PG_SIZE]

\* The table after the first half of the body.
Merged == IF MergeNow THEN Append(e820, RamdiskEntry) ELSE e820

Rescan(start, size) ==
    scan' = [scan EXCEPT !.start = start, !.size = size,
                         !.merge = scan.merge /\ ~MergeNow]

e820_end ==
    /\ step = "range" /\ scan.size = 0
    /\ e820' = Merged
    /\ Rescan(scan.start, 0)
    /\ step' = "tables"
    /\ UNCHANGED <<vars, vm, ept>>

High == scan.start * PG_SIZE >= kernel_end
Low  == scan.start * PG_SIZE < LINUX_ENTRY_POINT

\* Mutant of Give: the pages stay available to the hypervisor; the search goes
\* on behind them.
Give_untaken(base, num) ==
    /\ e820' = Append(Merged, [base |-> base, num |-> num])
    /\ Rescan(base, num)
    /\ UNCHANGED <<vars, vm, ept>>
    /\ step' = "e820"

\* An entry for num pages from base on; "mark unavailable to hypervisor".
Give(base, num) ==
    /\ e820' = Append(Merged, [base |-> base, num |-> num])
    /\ physical_take_range(base * PG_SIZE, num * PG_SIZE)
    /\ Rescan(base, num)
    /\ UNCHANGED <<mm_limit, entry_end, op, held, machine, boot, vm, ept>>
    /\ step' = "e820"

\* The range without its start up to the next large page, and below the whole
\* large pages in the rest.
Aligned == RoundUp(scan.start, LARGE_PG)
Rest    == scan.start + scan.size - Aligned

\* Mutant of Whole: a range of exactly one large page is too small.
Whole_strict == ((Rest - 1) \div LARGE_PG) * LARGE_PG

Whole == (Rest \div LARGE_PG) * LARGE_PG

e820_high ==
    /\ step = "range" /\ scan.size > 0
    /\ High /\ Rest > 0 /\ Whole > 0
    /\ Give(Aligned, Whole)

Pass(start, size) ==
    /\ e820' = Merged
    /\ Rescan(start, size)
    /\ step' = "e820"
    /\ UNCHANGED <<vars, vm, ept>>

\* Mutant of e820_small: the search starts again where it was.
e820_small_again ==
    /\ step = "range" /\ scan.size > 0
    /\ High /\ Whole <= 0
    /\ Pass(scan.from, 0)

\* skip memory range smaller than large page size
e820_small ==
    /\ step = "range" /\ scan.size > 0
    /\ High
    /\ \/ Rest <= 0 /\ Pass(Aligned, 0)
       \/ Rest > 0 /\ Whole = 0 /\ Pass(Aligned, Rest)

\* for kernel mapping
e820_kernel ==
    /\ step = "range" /\ scan.size > 0
    /\ ~High /\ ~Low
    /\ Pass(scan.start, scan.size)

\* below LINUX_ENTRY_POINT; the first range comes with the two frames in front
\* of it, which are taken to be zero_frame and cmd_frame.
e820_low ==
    /\ step = "range" /\ scan.size > 0
    /\ ~High /\ Low
    /\ IF scan.from = 0 THEN Give(scan.start - 2, scan.size + 2)
                          ELSE Give(scan.start, scan.size)

-----------------------------------------------------------------------------
SetupStep ==
    \/ ept_pml4t \/ ept_pdpt \/ zero_frame
    \/ dst_kernel \/ dst_search \/ dst_fails \/ copy_kernel
    \/ cmd_frame \/ dst_ramdisk \/ copy_ramdisk \/ setup_panics
    \/ e820_find \/ e820_end \/ e820_high \/ e820_small \/ e820_kernel \/ e820_low
    \/ ept_pdt \/ ept_entry \/ ept_done

-----------------------------------------------------------------------------
(* Properties                                                              *)

Described == step \in {"tables", "entry", "vmcs fields", "controls", "host",
                       "launch", "guest"}
EptMade   == step \in {"vmcs fields", "controls", "host", "launch", "guest"}

AvailablePages == MapPages(machine)

E820Pages == UNION {Pages(e820[k]) : k \in DOMAIN e820}

\* The frames the ramdisk was copied to, and with them the frames of the guest
\* that the hypervisor's allocator handed out.
RamdiskFrames == Bits(vm.extra.addr \div PG_SIZE, LargePages(vm.extra.len) * LARGE_PG)
GuestFrames   == {vm.zero, vm.cmd} \cup RamdiskFrames

\* The end of the ramdisk fits in a uint32_t.  virt_setup_linux does not see to
\* that: the frames are searched for in all of the memory.
RamdiskFits == vm.extra.addr + vm.extra.len < G4 * PG_SIZE

\* virt_setup_e820 describes memory of the guest only: every page of an entry
\* is available memory, is not part of the hypervisor's image, not free for a
\* later allocation by the hypervisor, and not handed out by the allocator,
\* unless for the ramdisk or for the zero page and the command line.  This is
\* so if the ramdisk's copy ends below 4GB; see RamdiskDescribed.
GuestRamExclusive ==
    RamdiskFits /\ (Described \/ step \in {"e820", "range"}) =>
        /\ E820Pages \subseteq AvailablePages
        /\ E820Pages \cap Touched(machine.kernel) = {}
        /\ E820Pages \cap mm_table = {}
        /\ E820Pages \cap (HeldPages \ GuestFrames) = {}

\* The entries of the table are in ascending order and do not overlap.  When
\* it is finished the ramdisk is in it, wherever below 4GB it was moved to and
\* whatever memory is left behind it, and so are zero_frame and cmd_frame if the
\* table has low memory at all.
GuestFindsItsFrames ==
    RamdiskFits =>
        /\ \A j, k \in DOMAIN e820 :
               j < k => e820[j].base + e820[j].num <= e820[k].base
        /\ Described =>
               /\ RamdiskFrames \subseteq E820Pages
               /\ (\E k \in DOMAIN e820 : e820[k].base < LOWMEM * WORD) =>
                      {vm.zero, vm.cmd} \subseteq E820Pages

\* "add ramdisk to linux memory": wherever it was moved to, the finished table
\* has the frames of the ramdisk.
RamdiskDescribed == Described => RamdiskFrames \subseteq E820Pages

\* When virt_setup_e820 returns no large page that could be the guest's is left
\* behind: one that is still free is part of a free run that begins below
\* kernel_end.
NoLargePageLeft ==
    step = "tables" /\ ept.count = 0 =>
        \A p \in 0 .. mm_limit - LARGE_PG :
            p % LARGE_PG = 0 /\ Bits(p, LARGE_PG) \subseteq mm_table =>
                \E q \in 0 .. p : /\ q * PG_SIZE < kernel_end
                                  /\ q .. p \subseteq mm_table

KernelFrames == Bits(vm.img.addr \div PG_SIZE, LargePages(vm.img.len) * LARGE_PG)

\* The pages of the host that the EPT maps, and the guest's pages.
EptHost  == UNION {Bits(b.host, b.num) : b \in ept.map}
EptGuest == UNION {Bits(b.guest, b.num) : b \in ept.map}

\* Through the EPT the guest reaches no page of the hypervisor's image and no
\* frame the allocator handed out for anything but the guest.  It reaches no
\* free frame either, if the 2MB from 4GB on are all memory: the pages mapped
\* there are not taken from the allocator, but virt_setup_e820 gives whole
\* large pages away.  It finds the zero page, the GDT and the command line at
\* the addresses it is told, and has as much memory as ram_size says.
EptPrivate ==
    EptMade =>
        /\ EptHost \cap Touched(machine.kernel) = {}
        /\ EptHost \cap (HeldPages \ (GuestFrames \cup KernelFrames)) = {}
        /\ Bits(G4, LARGE_PG) \subseteq AvailablePages => EptHost \cap mm_table = {}
        /\ \A p \in {vm.zero, vm.cmd} : \E b \in ept.map :
               b.guest = b.host /\ p \in Bits(b.guest, b.num)
        /\ EptGuest = Bits(0, pdt_entries * LARGE_PG)

-----------------------------------------------------------------------------
(* Machines the properties hold on; the code checks none of this           *)

\* What kernel_main takes from the allocator, and what is left of low memory.
Taken(m) ==
    {0} \cup Touched(m.kernel)
        \cup UNION {Touched(m.mods[k]) : k \in 1 .. Len(m.mods)}
LowPages(m) == {p \in MapPages(m) \ Taken(m) : p < LOWMEM * WORD}

\* The modules are above the first MB; none is empty, or so large that the
\* number of its large pages does not fit in a uint8_t.
SoundModules(m) ==
    \A k \in 1 .. Len(m.mods) :
        /\ LINUX_ENTRY_POINT <= m.mods[k].addr
        /\ m.mods[k].len \in 1 .. 255 * (LARGE_PG * PG_SIZE)

\* If there are three pages of low memory the lowest three are in a row.
SoundLowMemory(m) ==
    LET low == LowPages(m)
    IN  \A p, q, r \in low :
            p < q /\ q < r =>
                \E a \in low : {a + 1, a + 2} \subseteq low /\ \A b \in low : a <= b

\* The hypervisor's image is neither in low memory nor in the 2MB from 4GB on.
\* These are not memory; or they are memory as a whole and nothing else, there
\* is a hole between the end of the guest's kernel and 4GB, and room below 4GB
\* for n frames.
Above == Bits(G4, LARGE_PG)

SoundHighMemory(m, n) ==
    /\ Touched(m.kernel) \cap (Bits(0, LOWMEM * WORD) \cup Above) = {}
    /\ \/ Above \cap MapPages(m) = {}
       \/ /\ Above \subseteq MapPages(m) \ Taken(m)
          /\ \E h \in 0 .. G4 - 1 \ MapPages(m) :
                \A k \in 1 .. Len(m.mods) :
                    LINUX_ENTRY_POINT + m.mods[k].len <= h * PG_SIZE
          /\ n <= Cardinality({p \in MapPages(m) \ Taken(m) :
                                  LOWMEM * WORD <= p /\ p < G4})
=============================================================================

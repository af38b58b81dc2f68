---------------------------- MODULE GuestProofs ----------------------------
(***************************************************************************)
(* Proofs about the memory of the guest and about the VM at its launch,    *)
(* for every memory map, module list and page geometry that satisfies the  *)
(* assumptions and is sound in the sense of LinuxGuest.                    *)
(***************************************************************************)
EXTENDS KernelMainProofs, FiniteSetTheorems

\* The first page behind low memory.
M1 == LOWMEM * WORD

\* The steps up to the copy of the ramdisk, the ones behind it, and the ones
\* without a successor.
Early == BeforeCopy \cup {"boot", "cmd", "ramdisk", "copy ramdisk"}
Loop == {"e820", "range"}
Late  == Loop \cup {"tables", "entry", "vmcs fields", "controls", "host", "launch",
                     "guest"}
Stopped == {"panic", "idle", "returned", "undefined"}

-----------------------------------------------------------------------------
(* The kinds of steps of the BSP                                           *)

\* The code stops: a panic, the idle loop, a return, undefined behaviour.
StopStep == step' \in Stopped /\ UNCHANGED <<vm, e820, scan>>

\* A step that leaves memory and guest alone.
QuietStep ==
    /\ UNCHANGED <<vars, vm, e820, scan, ept>>
    /\ \/ step' = step
       \/ step = "acpi" /\ step' = "config"
       \/ step = "config" /\ step' = "match"
       \/ step = "match" /\ step' = "aps"
       \/ step = "aps" /\ step' = "virt"
       \/ step = "virt" /\ step' = "percpu"
       \/ step = "tables" /\ step' = "vmcs fields"
       \/ step = "vmcs fields" /\ step' = "controls"
       \/ step = "controls" /\ step' = "host"
       \/ step = "host" /\ step' = "launch"
       \/ step = "launch" /\ step' = "guest"

\* The tags of the boot loader.
TagStep ==
    /\ step = "boot"
    /\ UNCHANGED <<vm, e820, scan, ept>>
    /\ \/ /\ step' = "boot"
          /\ boot_map_entry \/ boot_limit \/ boot_take_zero \/ boot_take_kernel
             \/ boot_take_module
       \/ step' = "acpi" /\ boot_done

\* The VM gets its modules.
VmStep ==
    /\ step = "virt" /\ step' = "percpu"
    /\ 0 \notin {mod[1], mod[2]}
    /\ vm' = [vm EXCEPT !.img = ModuleRange(mod[1]), !.extra = ModuleRange(mod[2])]
    /\ UNCHANGED <<vars, e820, scan, ept>>

\* A frame of alloc_phys_frame.
FrameStep ==
    /\ alloc_phys_frame
    /\ UNCHANGED <<vm, e820, scan>>
    /\ \/ /\ \/ step' = step /\ step \in {"config", "aps"} /\ Cardinality(held) < MaxBefore
             \/ step = "percpu" /\ step' = "vmcs"
             \/ step = "vmcs" /\ step' = "ept"
             \/ step = "pdpt" /\ step' = "zero"
             \/ step = "tables" /\ step' = "entry"
          /\ ept' = ept
       \/ step = "ept" /\ step' = "pdpt" /\ ept_pml4t
       \/ step = "entry" /\ step' \in {"tables", "entry"} /\ ept_entry

\* An entry of the EPT that needs no frame.
EntryStep ==
    /\ step = "entry" /\ step' \in {"tables", "entry"} /\ ept_entry
    /\ UNCHANGED <<vars, vm, e820, scan>>

\* The loop of alloc_phys_frames_aligned.
SearchStep ==
    /\ step \in {"copy kernel", "copy ramdisk"}
    /\ aligned_skip_entry \/ aligned_try \/ aligned_fail
    /\ UNCHANGED gvars

\* The frame of the zero page.
ZeroStep ==
    /\ step = "zero" /\ step' = "kernel"
    /\ alloc_phys_frame_lowmem
    /\ vm' = [vm EXCEPT !.zero = Min(FirstFrame(0, LOWMEM))]
    /\ UNCHANGED <<e820, scan, ept>>

OtherStep ==
    \/ dst_kernel \/ copy_kernel \/ cmd_frame \/ dst_ramdisk \/ copy_ramdisk
    \/ e820_find \/ e820_end \/ e820_high \/ e820_small \/ e820_kernel \/ e820_low

LEMMA StepCases ==
    ASSUME FrameInv, [KernelNext]_all
    PROVE  \/ StopStep \/ QuietStep \/ TagStep \/ VmStep \/ FrameStep \/ EntryStep
           \/ SearchStep \/ ZeroStep \/ OtherStep
<1> USE DEF Stopped
<1>1. CASE boot_return \/ boot_platform \/ boot_platform_done \/ parse_boot_info
  BY <1>1 DEF boot_return, boot_platform, boot_platform_done, parse_boot_info, Next_line,
        gvars, StopStep, QuietStep
<1>2. CASE boot_memory \/ boot_module
  BY <1>2 DEF boot_memory, boot_module, gvars, TagStep
<1>3. CASE boot_config
  BY <1>3 DEF boot_config, Next_line, TagStep, StopStep
<1>4. CASE match_module \/ match_done \/ acpi_sec_init \/ call_panics
  BY <1>4 DEF match_module, match_done, acpi_sec_init, call_panics, kernel_panic,
        panic, Next_line, StopStep, QuietStep
<1>5. CASE virt_init
  <2>1. CASE step' = "panic"
    BY <1>5, <2>1 DEF virt_init, panic, StopStep
  <2>2. CASE step' # "panic"
    BY <1>5, <2>2 DEF virt_init, panic, StopStep, QuietStep, VmStep
  <2> QED
    BY <2>1, <2>2
<1>6. CASE frame_in_use
  BY <1>6 DEF frame_in_use, gvars, FrameStep
<1>7. CASE percpu_vmxon \/ percpu_vmcs
  BY <1>7 DEF percpu_vmxon, percpu_vmcs, ept_frame, panic, StopStep, FrameStep
<1>8. CASE virt_guest_setup \/ virt_control_setup \/ virt_host_setup
  BY <1>8 DEF virt_guest_setup, virt_control_setup, virt_host_setup, Next_line, panic,
        StopStep, QuietStep
<1>9. CASE percpu_none \/ vmlaunch
  BY <1>9 DEF percpu_none, vmlaunch, Next_line, StopStep, QuietStep
<1>10. CASE UNCHANGED all
  BY <1>10 DEF all, gvars, QuietStep
<1>11. CASE percpu_ept
  <2>1. CASE ept_pml4t \/ ept_pdpt \/ ept_pdt
    BY <2>1 DEF ept_pml4t, ept_pdpt, ept_pdt, ept_frame, StopStep, FrameStep
  <2>2. CASE ept_entry
    BY <2>2 DEF ept_entry, ept_frame, StopStep, FrameStep, EntryStep
  <2>3. CASE ept_done \/ dst_fails \/ setup_panics
    BY <2>3 DEF ept_done, dst_fails, setup_panics, panic, StopStep, QuietStep
  <2>4. CASE zero_frame
    BY <2>4 DEF zero_frame, StopStep, ZeroStep
  <2>5. CASE dst_search
    <3>1. op.kind = "aligned"
      BY <2>5 DEF dst_search, aligned_skip_entry, aligned_try, aligned_fail
    <3>2. op # Idle
      BY <3>1 DEF Idle
    <3>3. step \in {"copy kernel", "copy ramdisk"}
      BY <3>2, Zenon DEF FrameInv, SearchToCopy
    <3> QED
      BY <2>5, <3>3 DEF dst_search, SearchStep
  <2> QED
    BY <1>11, <2>1, <2>2, <2>3, <2>4, <2>5 DEF percpu_ept, SetupStep, OtherStep
<1> QED
  BY <1>1, <1>2, <1>3, <1>4, <1>5, <1>6, <1>7, <1>8, <1>9, <1>10, <1>11
     DEF KernelNext, KernelStep
-----------------------------------------------------------------------------
(* Large pages and modules                                                 *)

\* The machines the theorems are about: the code checks none of this.
SoundBoots == \A m \in Machines : SoundMachine(m) /\ SoundModules(m)

LEMMA Geometry ==
    /\ M1 \in Nat \ {0} /\ LARGE_PG = 2 * M1 /\ LARGE_PG \in Nat \ {0}
    /\ AlignedStart = LARGE_PG
    /\ LargePagesFit
<1>1. M1 \in Nat \ {0} /\ LARGE_PG = 2 * M1 /\ LARGE_PG \in Nat \ {0}
  BY PhysAssumption, GuestAssumption DEF M1
<1>2. LARGE_PG = WORD * (2 * LOWMEM) /\ 2 * LOWMEM \in Nat
  BY <1>1, PhysAssumption DEF M1
<1>3. LARGE_PG \div WORD = 2 * LOWMEM
  BY <1>2, ExactDiv, PhysAssumption
<1>4. LARGE_PG % WORD = 0
  BY <1>1, <1>2, Multiple, PhysAssumption
<1>5. AlignedStart = LARGE_PG
  BY <1>2, <1>3, PhysAssumption DEF AlignedStart
<1>6. LARGE_PG % LARGE_PG = 0
  BY <1>1, Multiple
<1> QED
  BY <1>1, <1>4, <1>5, <1>6 DEF LargePagesFit

\* The frames for an image, and for an entry of the E820 table.
LEMMA ImagePages ==
    ASSUME NEW bytes \in 1 .. 255 * (LARGE_PG * PG_SIZE)
    PROVE  /\ LargePages(bytes) \in 1 .. 255
           /\ LargePages(bytes) * LARGE_PG \in Nat \ {0}
           /\ RoundUp(bytes, LARGE_PG * PG_SIZE) \div PG_SIZE
                  = LargePages(bytes) * LARGE_PG
           /\ bytes <= LargePages(bytes) * LARGE_PG * PG_SIZE
           /\ (LargePages(bytes) * LARGE_PG) % LARGE_PG = 0
<1>s. PICK size : size = LARGE_PG * PG_SIZE
  OBVIOUS
<1>1. size \in Nat \ {0} /\ bytes \in Nat /\ bytes <= 255 * size /\ bytes >= 1
  BY <1>s, Geometry, PhysAssumption
<1>u. PICK up : up = RoundUp(bytes, size)
  OBVIOUS
<1>2. up \in Nat /\ up % size = 0 /\ bytes <= up
  BY <1>1, <1>u, RoundUpIs
<1>3. up <= 255 * size
  <2>1. 255 * size \in Nat /\ (255 * size) % size = 0
    <3>1. 255 * size \in Nat /\ 255 * size = size * 255
      BY <1>1
    <3> QED
      BY <1>1, <3>1, Multiple
  <2>2. \A y \in Nat : y % size = 0 /\ bytes <= y => up <= y
    BY <1>1, <1>u, RoundUpIs
  <2> QED
    BY <1>1, <2>1, <2>2
<1>n. PICK n : n = up \div size
  OBVIOUS
<1>4. n \in Nat /\ up = size * n
  BY <1>1, <1>2, <1>n, Multiple
<1>5. n <= 255
  <2> SUFFICES ASSUME n >= 256 PROVE FALSE
    BY <1>4
  <2>1. size * 256 <= size * n
    BY <1>1, <1>4, MulLe
  <2> QED
    BY <1>1, <1>3, <1>4, <2>1
<1>6. n >= 1
  BY <1>1, <1>2, <1>4
<1>7. LargePages(bytes) = n
  <2>1. LargePages(bytes) = n % 256
    BY <1>s, <1>u, <1>n DEF LargePages
  <2> QED
    BY <1>4, <1>5, <2>1
<1>8. up = PG_SIZE * (n * LARGE_PG)
  BY <1>s, <1>4, Geometry, PhysAssumption
<1>9. n * LARGE_PG \in Nat \ {0}
  <2>1. LARGE_PG * 1 <= LARGE_PG * n
    BY <1>4, <1>6, Geometry, MulLe
  <2> QED
    BY <2>1, <1>4, Geometry
<1>10. up \div PG_SIZE = n * LARGE_PG
  BY <1>8, <1>9, ExactDiv, PhysAssumption
<1>11. n * LARGE_PG * PG_SIZE = up
  BY <1>8, <1>9, PhysAssumption
<1>12. (n * LARGE_PG) % LARGE_PG = 0
  <2>1. PICK m \in Nat : m = n * LARGE_PG
    BY <1>9
  <2>2. m = LARGE_PG * n
    BY <2>1, <1>4, Geometry
  <2>3. m % LARGE_PG = 0
    BY <2>2, <1>4, Geometry, Multiple
  <2> QED
    BY <2>1, <2>3
<1> QED
  BY <1>s, <1>u, <1>2, <1>4, <1>5, <1>6, <1>7, <1>9, <1>10, <1>11, <1>12

\* physical_take_range takes nothing but what the range touches.
LEMMA TakenPages ==
    ASSUME NEW r, ByteRange(r), NEW p \in take_bits(r.addr, r.len)
    PROVE  /\ p \in Nat /\ r.addr < (p + 1) * PG_SIZE /\ p * PG_SIZE < r.addr + r.len
           /\ p < MM_TABLE_MAX * WORD => p \in Touched(r)
<1>a. PICK a \in Nat, n \in Nat : a = r.addr /\ n = r.len
  BY DEF ByteRange
<1>q. PICK q, rem : q = a \div PG_SIZE /\ rem = a % PG_SIZE
  OBVIOUS
<1>s. PICK s \in Nat : s = a + n
  OBVIOUS
<1>e. PICK e, erem : e = s \div PG_SIZE /\ erem = s % PG_SIZE
  OBVIOUS
<1>1. q \in Nat /\ rem \in Nat /\ rem < PG_SIZE /\ a = PG_SIZE * q + rem
  BY <1>q, DivMod, PhysAssumption
<1>3. e \in Nat /\ erem \in Nat /\ erem < PG_SIZE /\ s = PG_SIZE * e + erem
  BY <1>e, DivMod, PhysAssumption
<1>2. e \in Nat /\ erem \in Nat /\ erem < PG_SIZE /\ a + n = PG_SIZE * e + erem
  BY <1>s, <1>3
<1>33. p \in q .. (IF erem = 0 THEN e ELSE e + 1) - 1
  <2>1. CASE erem = 0
    <3>1. n + rem = PG_SIZE * (e - q)
      BY <1>1, <1>2, <2>1, PhysAssumption
    <3>2. e - q \in Nat
      <4> SUFFICES ASSUME e + 1 <= q PROVE FALSE
        BY <1>1, <1>2
      <4>1. PG_SIZE * (e + 1) <= PG_SIZE * q
        BY <1>1, <1>2, MulLe, PhysAssumption
      <4> QED
        BY <1>1, <1>2, <2>1, <4>1, PhysAssumption
    <3>3. (n + rem) \div PG_SIZE = e - q
      BY <3>1, <3>2, ExactDiv, PhysAssumption
    <3>4. p \in Bits(q, e - q)
      BY <1>a, <1>q, <1>s, <1>e, <2>1, <3>3 DEF take_bits
    <3> QED
      BY <1>1, <1>2, <2>1, <3>4 DEF Bits
  <2>2. CASE erem # 0
    <3>1. n + rem + PG_SIZE - erem = PG_SIZE * (e + 1 - q)
      BY <1>1, <1>2, PhysAssumption
    <3>2. e + 1 - q \in Nat
      <4> SUFFICES ASSUME e + 1 <= q PROVE FALSE
        BY <1>1, <1>2
      <4>1. PG_SIZE * (e + 1) <= PG_SIZE * q
        BY <1>1, <1>2, MulLe, PhysAssumption
      <4> QED
        BY <1>1, <1>2, <4>1, PhysAssumption
    <3>3. (n + rem + PG_SIZE - erem) \div PG_SIZE = e + 1 - q
      BY <3>1, <3>2, ExactDiv, PhysAssumption
    <3>4. p \in Bits(q, e + 1 - q)
      BY <1>a, <1>q, <1>s, <1>e, <2>2, <3>3 DEF take_bits
    <3> QED
      BY <1>1, <1>2, <2>2, <3>4 DEF Bits
  <2> QED
    BY <2>1, <2>2
<1>4. p \in Nat
  BY <1>1, <1>2, <1>33
<1>5. a < (p + 1) * PG_SIZE
  <2>1. PG_SIZE * (q + 1) <= PG_SIZE * (p + 1)
    BY <1>1, <1>33, <1>4, MulLe, PhysAssumption
  <2> QED
    BY <1>1, <1>4, <2>1, PhysAssumption
<1>6. p * PG_SIZE < a + n
  <2>1. CASE erem = 0
    <3>1. PG_SIZE * (p + 1) <= PG_SIZE * e
      BY <1>2, <1>33, <1>4, <2>1, MulLe, PhysAssumption
    <3> QED
      BY <1>2, <1>4, <2>1, <3>1, PhysAssumption
  <2>2. CASE erem # 0
    <3>1. PG_SIZE * p <= PG_SIZE * e
      BY <1>2, <1>33, <1>4, <2>2, MulLe, PhysAssumption
    <3> QED
      BY <1>2, <1>4, <2>2, <3>1, PhysAssumption
  <2> QED
    BY <2>1, <2>2
<1>7. p < MM_TABLE_MAX * WORD => p \in 0 .. MM_TABLE_MAX * WORD - 1
  BY <1>4, PhysAssumption
<1> QED
  BY <1>a, <1>4, <1>5, <1>6, <1>7 DEF Touched
-----------------------------------------------------------------------------
(* The allocator under kernel_main                                         *)

Blocks == [base : Nat, num : Nat \ {0}]

\* What PhysMemProofs shows of the allocator.
EarlyMem == IInv /\ UsableInv /\ LimitInv /\ MapLimit /\ AlignedSearch

\* What is left of it when virt_setup_e820 takes ranges that are in use: the
\* reserved pages are no longer apart from the frames handed out.
LateMem ==
    /\ mm_table \subseteq Nat /\ entry_end \in Nat /\ machine \in Machines
    /\ held \subseteq Blocks
    /\ boot.phase = "run" /\ op = Idle
    /\ \A a, b \in held : a # b => Pages(a) \cap Pages(b) = {}
    /\ HeldPages \cap mm_table = {}
    /\ mm_table \cup HeldPages \subseteq MapPages(machine)
    /\ (mm_table \cup HeldPages) \cap Touched(machine.kernel) = {}
    /\ MapPages(machine) \subseteq 0 .. entry_end * WORD - 1

LEMMA EarlyNext ==
    ASSUME SoundBoots, EarlyMem, [Next]_vars
    PROVE  EarlyMem'
<1>1. \A m \in Machines : SoundMachine(m)
  BY DEF SoundBoots
<1>2. LargePagesFit
  BY Geometry
<1> QED
  BY <1>1, <1>2, NextIInv, NextUsable, NextLimit, NextMapLimit, NextAligned DEF EarlyMem

LEMMA EarlyIsLate == EarlyMem /\ boot.phase = "run" /\ op = Idle => LateMem
<1> SUFFICES ASSUME EarlyMem, boot.phase = "run", op = Idle PROVE LateMem
  OBVIOUS
<1> USE DEF EarlyMem
<1>1. /\ mm_table \subseteq Nat /\ entry_end \in Nat /\ machine \in Machines
      /\ held \subseteq Blocks
  BY DEF IInv, TypeInv, TypeOK, Blocks
<1>2. /\ \A a, b \in held : a # b => Pages(a) \cap Pages(b) = {}
      /\ HeldPages \cap mm_table = {}
  BY DEF IInv, FramesApart
<1>3. mm_table \cup HeldPages \subseteq MapPages(machine)
  BY DEF UsableInv
<1>4. (mm_table \cup HeldPages) \cap Touched(machine.kernel) = {}
  <2>1. Touched(machine.kernel) \subseteq reserved
    BY DEF UsableInv
  <2>2. reserved \cap mm_table = {} /\ reserved \cap HeldPages = {}
    BY DEF IInv, FramesApart
  <2> QED
    BY <2>1, <2>2
<1>5. MapPages(machine) \subseteq 0 .. entry_end * WORD - 1
  BY MapEndsInRun
<1> QED
  BY <1>1, <1>2, <1>3, <1>4, <1>5 DEF LateMem

LEMMA EarlyIsLateNext ==
    ASSUME EarlyMem', boot'.phase = "run", op' = Idle
    PROVE  LateMem'
<1>1. (EarlyMem /\ boot.phase = "run" /\ op = Idle)'
  BY DEF Idle
<1> QED
  BY <1>1, EarlyIsLate, PTL

LEMMA LateTable ==
    ASSUME LateMem
    PROVE  TableEnds
BY DEF LateMem, TableEnds

\* virt_setup_e820 only takes pages.
LEMMA LateGive ==
    ASSUME LateMem, mm_table' \subseteq mm_table,
           UNCHANGED <<entry_end, op, held, machine, boot>>
    PROVE  LateMem'
<1>1. HeldPages' = HeldPages
  BY DEF HeldPages, Pages, Bits
<1>2. (\A a, b \in held : a # b => Pages(a) \cap Pages(b) = {})'
  BY DEF LateMem, Pages, Bits
<1> QED
  BY <1>1, <1>2 DEF LateMem

\* A block of free pages that is handed out.
LEMMA TakenBlock ==
    ASSUME mm_table \subseteq Nat, NEW p \in Nat, NEW num \in Nat \ {0},
           held' = held \cup {[base |-> p, num |-> num]}
    PROVE  HeldPages' = HeldPages \cup Bits(p, num)
<1> DEFINE new == [base |-> p, num |-> num]
<1>1. Pages(new) = Bits(p, num)
  BY DEF Pages
<1>2. held' = held \cup {new}
  OBVIOUS
<1>3. HeldPages' = HeldPages \cup Pages(new)
  BY <1>2 DEF HeldPages, Pages, Bits
<1> QED
  BY <1>1, <1>3

LEMMA LateTake ==
    ASSUME LateMem, NEW p \in mm_table, Take(p, 1),
           UNCHANGED <<entry_end, op, machine, boot>>
    PROVE  LateMem'
<1> DEFINE new == [base |-> p, num |-> 1]
<1>1. p \in Nat /\ Bits(p, 1) = {p} /\ Pages(new) = {p}
  BY DEF LateMem, Bits, Pages
<1>2. held' = held \cup {new} /\ mm_table' = mm_table \ {p}
  BY <1>1 DEF Take
<1>3. HeldPages' = HeldPages \cup {p}
  BY <1>1, <1>2, TakenBlock DEF LateMem
<1>4. p \notin HeldPages /\ \A a \in held : Pages(a) \subseteq HeldPages
  BY DEF LateMem, HeldPages
<1>5. \A a, b \in held' : a # b => Pages(a) \cap Pages(b) = {}
  BY <1>1, <1>2, <1>4 DEF LateMem
<1>6. (\A a, b \in held : a # b => Pages(a) \cap Pages(b) = {})'
  BY <1>5 DEF Pages, Bits
<1>7. new \in Blocks
  BY <1>1 DEF Blocks
<1> HIDE DEF new
<1>8. /\ mm_table' \subseteq Nat /\ held' \subseteq Blocks
      /\ HeldPages' \cap mm_table' = {}
      /\ mm_table' \cup HeldPages' \subseteq MapPages(machine)
      /\ (mm_table' \cup HeldPages') \cap Touched(machine.kernel) = {}
  BY <1>1, <1>2, <1>3, <1>7 DEF LateMem
<1> QED
  BY <1>6, <1>8 DEF LateMem, Blocks
-----------------------------------------------------------------------------
(* The VM and its modules                                                  *)

\* The steps with a VM, up to the copy of the image and after it.
ToCopy   == {"vmcs", "ept", "pdpt", "zero", "kernel", "copy kernel"}
FromCopy == {"cmd", "ramdisk", "copy ramdisk"} \cup Late

VmThere == step \in ToCopy \cup FromCopy => vmx.vm

LEMMA NextVmThere ==
    ASSUME FrameInv, ModInv, VmThere, [KernelNext]_all
    PROVE  VmThere'
<1> USE DEF ToCopy, FromCopy, Late, Loop
<1>0. "vm" \in DOMAIN vmx
  BY DEF ModInv, VmMatched
<1>1. CASE vmx' = vmx
  <2>1. step' \in ToCopy \cup FromCopy => step \in ToCopy \cup FromCopy \/ percpu_vmxon
    <3>1. CASE StopStep \/ QuietStep \/ TagStep \/ VmStep
      BY <3>1 DEF StopStep, QuietStep, TagStep, VmStep, Stopped
    <3>2. CASE EntryStep \/ SearchStep \/ ZeroStep
      BY <3>2 DEF EntryStep, SearchStep, ZeroStep, gvars
    <3>3. CASE OtherStep
      <4>1. step \in ToCopy \cup FromCopy
        BY <3>3 DEF OtherStep, dst_kernel, dst_frames, copy_kernel, cmd_frame,
              dst_ramdisk, copy_ramdisk, e820_find, e820_end, e820_high, e820_small,
              e820_kernel, e820_low
      <4> QED
        BY <4>1
    <3>4. CASE FrameStep
      <4>1. CASE step = "percpu"
        BY <3>4, <4>1 DEF FrameStep, KernelNext, KernelStep, boot_return, boot_memory,
              boot_module, boot_config, boot_platform, boot_platform_done,
              parse_boot_info, match_module, match_done, acpi_sec_init, call_panics,
              kernel_panic, panic, virt_init, percpu_none, percpu_vmcs, percpu_ept,
              SetupStep, ept_pml4t, ept_pdpt, zero_frame, dst_kernel, dst_ramdisk,
              dst_frames, dst_search, dst_fails, copy_kernel, cmd_frame, copy_ramdisk,
              setup_panics, e820_find, e820_end, e820_high, e820_small, e820_kernel,
              e820_low, ept_pdt, ept_entry, ept_done, virt_guest_setup,
              virt_control_setup, virt_host_setup, vmlaunch, frame_in_use, all, gvars,
              Next_line
      <4>2. CASE step # "percpu"
        BY <3>4, <4>2 DEF FrameStep
      <4> QED
        BY <4>1, <4>2
    <3> QED
      BY <3>1, <3>2, <3>3, <3>4, StepCases
  <2> QED
    BY <1>1, <2>1 DEF VmThere, percpu_vmxon
<1>2. CASE percpu_vmxon \/ percpu_vmcs
  <2>1. vmx'.vm = vmx.vm
    BY <1>0, <1>2 DEF percpu_vmxon, percpu_vmcs, LoadVmcs, vmclear, vmptrld
  <2>2. vmx.vm
    BY <1>2 DEF percpu_vmxon, percpu_vmcs, VmThere
  <2> QED
    BY <2>1, <2>2 DEF VmThere
<1>3. CASE virt_guest_setup \/ virt_control_setup \/ virt_host_setup
  <2>1. vmx'.vm = vmx.vm
    BY <1>0, <1>3 DEF virt_guest_setup, virt_control_setup, virt_host_setup, vmwrite
  <2>2. vmx.vm
    BY <1>3 DEF virt_guest_setup, virt_control_setup, virt_host_setup, VmThere
  <2> QED
    BY <2>1, <2>2 DEF VmThere
<1>4. CASE virt_init
  BY <1>4 DEF virt_init, panic, VmThere
<1>5. vmx' = vmx \/ virt_init \/ percpu_vmxon \/ percpu_vmcs \/ virt_guest_setup
      \/ virt_control_setup \/ virt_host_setup
  BY DEF KernelNext, KernelStep, boot_return, boot_memory,
              boot_module, boot_config, boot_platform, boot_platform_done,
              parse_boot_info, match_module, match_done, acpi_sec_init, call_panics,
              kernel_panic, percpu_none, percpu_ept, vmlaunch, frame_in_use, all, kvars
<1> QED
  BY <1>1, <1>2, <1>3, <1>4, <1>5

Bytes  == [addr : Nat, len : Nat]
VmType == vm \in [img : Bytes, extra : Bytes, zero : Nat, cmd : Nat,
                  before : SUBSET Blocks]

\* The sizes of images whose large pages can be counted.
ImageSize == 1 .. 255 * (LARGE_PG * PG_SIZE)

\* The modules of the VM before the copies.
LEMMA VmModules ==
    ASSUME SoundBoots, ModInv, VmThere, step \in ToCopy
    PROVE  \E i, j \in Mods :
              /\ i # j /\ Image(i) /\ Ramdisk(j)
              /\ Touched(machine.mods[i]) \subseteq reserved
              /\ Touched(machine.mods[j]) \subseteq reserved
              /\ vm.img.len - SETUP \in ImageSize /\ vm.img.len \in ImageSize
              /\ vm.extra.len \in ImageSize
<1>1. step \in BeforeCopy /\ vmx.vm
  BY DEF ToCopy, BeforeCopy, VmThere
<1>2. PICK i \in Mods, j \in Mods : Image(i) /\ Ramdisk(j)
  BY <1>1 DEF ModInv, VmMatched
<1>3. i # j
  BY <1>2 DEF Image, Ramdisk
<1>4. \A k \in Mods : Touched(machine.mods[k]) \subseteq reserved
  BY <1>1 DEF ModInv, ModsTaken
<1>5. machine \in Machines /\ SoundModules(machine)
  BY DEF ModInv, ModsTaken, SoundBoots
<1>6. \A k \in Mods : machine.mods[k].len \in ImageSize
  BY <1>5 DEF SoundModules, Mods, ImageSize
<1>7. vm.img.len = machine.mods[i].len /\ vm.extra.len = machine.mods[j].len
  BY <1>2 DEF Image, Ramdisk, ModuleRange
<1>8. machine.mods[i].len > SETUP
  BY <1>2, <1>5, KernelAssumption DEF Image, Mods
<1>9. LARGE_PG * PG_SIZE \in Nat /\ SETUP \in Nat
  BY Geometry, PhysAssumption, GuestAssumption
<1>10. vm.img.len - SETUP \in ImageSize
  <2>1. machine.mods[i].len \in ImageSize
    BY <1>6
  <2>2. PICK s \in Nat : s = LARGE_PG * PG_SIZE
    BY <1>9
  <2> QED
    BY <1>7, <1>8, <1>9, <2>1, <2>2 DEF ImageSize
<1> QED
  BY <1>2, <1>3, <1>4, <1>6, <1>7, <1>10
-----------------------------------------------------------------------------
(* The allocator's operations in the set-up of the guest                   *)

\* alloc_phys_frame: the lowest free frame that is not in low memory.
LEMMA HighFrameIs ==
    ASSUME mm_table \subseteq Nat, entry_end \in Nat, alloc_phys_frame
    PROVE  /\ boot.phase = "run" /\ op = Idle
           /\ UNCHANGED <<mm_limit, entry_end, op, reserved, machine, boot>>
           /\ \E p \in mm_table :
                 /\ M1 <= p /\ Take(p, 1)
                 /\ FirstFrame(LOWMEM, entry_end) = {p}
                 /\ \A q \in mm_table : M1 <= q /\ q < entry_end * WORD => p <= q
<1>1. /\ boot.phase = "run" /\ op = Idle
      /\ UNCHANGED <<mm_limit, entry_end, op, reserved, machine, boot>>
  BY DEF alloc_phys_frame, Ready
<1>2. PICK p \in FirstFrame(LOWMEM, entry_end) : Take(p, 1)
  BY DEF alloc_phys_frame
<1> DEFINE S == {q \in mm_table : LOWMEM * WORD <= q /\ q < entry_end * WORD}
<1>3. p \in S /\ \A q \in S : p <= q
  BY <1>2, LeastMember DEF FirstFrame
<1>4. FirstFrame(LOWMEM, entry_end) = {p}
  <2> SUFFICES ASSUME NEW q \in FirstFrame(LOWMEM, entry_end) PROVE q = p
    BY <1>2
  <2>1. q \in S /\ \A x \in S : q <= x
    BY LeastMember DEF FirstFrame
  <2> QED
    BY <1>3, <2>1
<1> QED
  BY <1>1, <1>2, <1>3, <1>4 DEF M1

\* alloc_phys_frame_lowmem: the lowest free frame, which is in low memory.
LEMMA LowFrameIs ==
    ASSUME mm_table \subseteq Nat, alloc_phys_frame_lowmem
    PROVE  /\ boot.phase = "run" /\ op = Idle
           /\ UNCHANGED <<mm_limit, entry_end, op, reserved, machine, boot>>
           /\ \E p \in mm_table :
                 /\ p < M1 /\ Take(p, 1)
                 /\ Min(FirstFrame(0, LOWMEM)) = p
                 /\ \A q \in mm_table : p <= q
<1>1. /\ boot.phase = "run" /\ op = Idle
      /\ UNCHANGED <<mm_limit, entry_end, op, reserved, machine, boot>>
  BY DEF alloc_phys_frame_lowmem, Ready
<1>2. PICK F, p : F = FirstFrame(0, LOWMEM) /\ p \in F /\ Take(p, 1)
  BY DEF alloc_phys_frame_lowmem
<1>3. /\ p \in mm_table /\ p < LOWMEM * WORD /\ F \subseteq mm_table
      /\ \A q \in mm_table : 0 * WORD <= q /\ q < LOWMEM * WORD => p <= q
      /\ \A q \in F : p <= q
  BY <1>2, LeastMember DEF FirstFrame
<1>4. Min(F) = p
  <2>1. F \subseteq Int
    BY <1>3
  <2> QED
    BY <1>2, <1>3, <2>1, MinIs
<1>5. 0 * WORD = 0 /\ M1 \in Nat /\ M1 = LOWMEM * WORD
  BY PhysAssumption DEF M1
<1>6. \A q \in mm_table : p <= q
  BY <1>3, <1>5
<1> QED
  BY <1>1, <1>2, <1>3, <1>4, <1>5, <1>6

\* alloc_phys_frames_aligned begins.
LEMMA StartSearch ==
    ASSUME EarlyMem, NEW n \in Nat \ {0}, alloc_phys_frames_aligned(n)
    PROVE  EarlyMem' /\ boot'.phase = "run"
<1>1. /\ boot.phase = "run"
      /\ UNCHANGED <<mm_table, mm_limit, entry_end, held, reserved, machine, boot>>
  BY DEF alloc_phys_frames_aligned, Ready
<1>2. op' = [kind |-> "aligned", num |-> n, i |-> LARGE_PG \div WORD, pos |-> LARGE_PG]
  BY Geometry DEF alloc_phys_frames_aligned
<1>3. LARGE_PG \div WORD \in Nat /\ LARGE_PG \in Nat
  BY Geometry, DivMod, PhysAssumption
<1>4. op' \in Search
  BY <1>2, <1>3 DEF Search
<1>5. TypeInv'
  BY <1>1, <1>4 DEF EarlyMem, IInv, TypeInv, TypeOK, MemLimitBound
<1>6. FramesApart'
  BY <1>1 DEF EarlyMem, IInv, FramesApart, HeldPages, Pages, Bits
<1>7. IInv'
  BY <1>1, <1>5, <1>6 DEF IInv, BootFirst
<1>8. UsableInv'
  BY <1>1 DEF EarlyMem, UsableInv, HeldPages, Pages, Bits
<1>9. LimitInv' /\ MapLimit'
  BY <1>1 DEF EarlyMem, LimitInv, MapLimit
<1>10. AlignedSearch'
  <2>1. InEntry(LARGE_PG \div WORD, LARGE_PG)
    BY <1>3, DivInEntry
  <2>2. LARGE_PG % LARGE_PG = 0
    BY Geometry DEF LargePagesFit
  <2>3. AlignedStart' = LARGE_PG /\ op'.i = LARGE_PG \div WORD /\ op'.pos = LARGE_PG
    BY <1>2, Geometry DEF AlignedStart
  <2>4. \A p \in AlignedRun(op.num)' : LARGE_PG <= p
    BY <2>3, <1>5 DEF AlignedRun, TypeInv, TypeOK
  <2>5. InEntry(op.i, op.pos)'
    BY <2>1, <2>3 DEF InEntry
  <2> QED
    BY <1>3, <2>2, <2>3, <2>4, <2>5 DEF AlignedSearch
<1> QED
  BY <1>1, <1>7, <1>8, <1>9, <1>10 DEF EarlyMem

\* Copying an image gives its module back.
LEMMA CopyFrees ==
    ASSUME SoundBoots, EarlyMem, boot.phase = "run", op = Idle, NEW k \in Mods,
           Touched(machine.mods[k]) \subseteq reserved,
           physical_free_range(machine.mods[k].addr, machine.mods[k].len),
           UNCHANGED <<mm_limit, entry_end, op, held, machine, boot>>
    PROVE  /\ EarlyMem'
           /\ free_bits(machine.mods[k].addr, machine.mods[k].len)
                  = Inside(machine.mods[k])
<1> DEFINE r == machine.mods[k]
<1>1. machine \in Machines /\ SoundMachine(machine)
  BY DEF EarlyMem, IInv, TypeInv, TypeOK, SoundBoots
<1>2. ByteRange(r) /\ r.addr % PG_SIZE = 0
  BY <1>1, MachineAssumption DEF Mods
<1>3. /\ ((MM_TABLE_MAX - 1) * WORD) * PG_SIZE < ADDR
      /\ r.addr + r.len <= ((MM_TABLE_MAX - 1) * WORD) * PG_SIZE
  BY <1>1 DEF SoundMachine, Mods
<1>4. free_bits(r.addr, r.len) = Inside(r)
  <2> HIDE DEF r
  <2>1. free_bits(r.addr, r.len) \subseteq Inside(r) /\ Inside(r) \subseteq free_bits(r.addr, r.len)
    BY <1>2, <1>3, FreeIsInside
  <2> QED
    BY <2>1
<1>5. take_bits(r.addr, r.len) \subseteq reserved
  <2>0. Touched(r) \subseteq reserved
    OBVIOUS
  <2> HIDE DEF r
  <2> SUFFICES ASSUME NEW p \in take_bits(r.addr, r.len) PROVE p \in reserved
    OBVIOUS
  <2>1. PICK lim \in Nat : lim = (MM_TABLE_MAX - 1) * WORD
    BY PhysAssumption
  <2>2. p \in Nat /\ p * PG_SIZE < r.addr + r.len /\ r.addr + r.len \in Nat
    BY <1>2, TakenPages DEF ByteRange
  <2>3. p < lim
    <3> SUFFICES ASSUME lim <= p PROVE FALSE
      BY <2>1, <2>2
    <3>1. PG_SIZE * lim <= PG_SIZE * p
      BY <2>1, <2>2, MulLe, PhysAssumption
    <3>2. PG_SIZE * lim = lim * PG_SIZE /\ PG_SIZE * p = p * PG_SIZE
      BY <2>2, PhysAssumption
    <3>3. r.addr + r.len <= lim * PG_SIZE
      BY <1>3, <2>1
    <3>4. lim * PG_SIZE \in Nat /\ p * PG_SIZE \in Nat
      BY <2>2, PhysAssumption
    <3> QED
      BY <2>2, <3>1, <3>2, <3>3, <3>4
  <2>4. lim <= MM_TABLE_MAX * WORD /\ MM_TABLE_MAX * WORD \in Nat
    BY <2>1, PhysAssumption
  <2>5. p \in Touched(r)
    BY <1>2, <2>2, <2>3, <2>4, TakenPages
  <2> QED
    BY <2>0, <2>5
<1>6. free_module(k)
  BY <1>5 DEF free_module, Ready, Mods
<1>7. Next
  BY <1>6 DEF Next, Mods
<1> QED
  BY <1>4, <1>7, EarlyNext
-----------------------------------------------------------------------------
(* Memory through the whole bring-up                                       *)

MemInv ==
    /\ step \in Early => EarlyMem /\ (step # "boot" => boot.phase = "run")
    /\ step \in Late => LateMem

\* The ramdisk stays reserved until it is copied; the sizes stay sound.
CopyInv ==
    /\ step \in {"cmd", "ramdisk", "copy ramdisk"} =>
           \E k \in Mods : Ramdisk(k) /\ Touched(machine.mods[k]) \subseteq reserved
    /\ step \in FromCopy => vm.img.len \in ImageSize /\ vm.extra.len \in ImageSize

\* The frames the copy goes to: while the search is under way nothing is held
\* that was not before, then at most the one block it found.
LargeBlock(b, num) == b \in Blocks /\ b.num = num /\ b.base % LARGE_PG = 0 /\ LARGE_PG <= b.base
Pending(bytes) ==
    LET num == LargePages(bytes) * LARGE_PG
    IN  /\ op # Idle => held = vm.before /\ op.kind = "aligned" /\ op.num = num
        /\ op = Idle => \/ held = vm.before
                        \/ \E b : LargeBlock(b, num) /\ held = vm.before \cup {b}
PendingInv ==
    /\ step = "copy kernel" => Pending(vm.img.len - SETUP)
    /\ step = "copy ramdisk" => Pending(vm.extra.len)

GuestBase == FrameInv /\ ModInv /\ VmThere /\ VmType /\ MemInv /\ CopyInv /\ PendingInv

\* The table of free frames is one of page numbers.
LEMMA TableOfPages ==
    ASSUME MemInv, step \in Early \cup Late
    PROVE  /\ mm_table \subseteq Nat /\ entry_end \in Nat /\ machine \in Machines
           /\ held \subseteq Blocks
BY DEF MemInv, EarlyMem, IInv, TypeInv, TypeOK, LateMem, Blocks

LEMMA SameMem ==
    ASSUME SoundBoots, MemInv, UNCHANGED vars,
           \/ step' = step
           \/ step \in Early \ {"boot"} /\ step' \in Early \ {"boot"}
           \/ step \in Late /\ step' \in Late
    PROVE  MemInv'
<1> USE DEF Early, BeforeCopy, Late, Loop
<1>1. step \in Early => EarlyMem'
  BY EarlyNext DEF MemInv
<1>2. step \in Late => LateMem'
  BY LateGive DEF MemInv, vars
<1>3. boot' = boot
  BY DEF vars
<1>4. step' \in Early => EarlyMem' /\ (step' # "boot" => boot'.phase = "run")
  BY <1>1, <1>3 DEF MemInv
<1>5. step' \in Late => LateMem'
  BY <1>2
<1> QED
  BY <1>4, <1>5 DEF MemInv

LEMMA NextMemInv ==
    ASSUME SoundBoots, GuestBase, [KernelNext]_all
    PROVE  MemInv'
<1> USE DEF GuestBase
<1>1. CASE StopStep
  BY <1>1 DEF StopStep, Stopped, MemInv, Early, BeforeCopy, Late, Loop
<1>2. CASE QuietStep \/ VmStep \/ EntryStep
  BY <1>2, SameMem DEF QuietStep, VmStep, EntryStep, Early, BeforeCopy, Late, Loop
<1>3. ASSUME step \in Early, Next, step' \in Early \cup Late,
             step' # "boot" => boot'.phase = "run", step' \in Late => op' = Idle
      PROVE  MemInv'
  <2>1. EarlyMem'
    BY <1>3, EarlyNext DEF MemInv
  <2>2. step' \in Late => step' # "boot"
    BY DEF Late, Loop
  <2>3. step' \in Late => LateMem'
    <3> SUFFICES ASSUME step' \in Late PROVE LateMem'
      OBVIOUS
    <3>1. boot'.phase = "run" /\ op' = Idle
      BY <1>3, <2>2
    <3> QED
      BY <2>1, <3>1, EarlyIsLateNext
  <2> QED
    BY <1>3, <2>1, <2>3 DEF MemInv
<1>4. CASE TagStep
  <2>1. Next /\ step \in Early /\ step' \in {"boot", "acpi"}
    BY <1>4 DEF TagStep, Next, Early
  <2>2. step' # "boot" => boot'.phase = "run"
    BY <1>4 DEF TagStep, boot_done, MemInv, Early, EarlyMem, IInv, TypeInv, TypeOK, Boot
  <2> QED
    BY <1>3, <2>1, <2>2 DEF Early, BeforeCopy, Late, Loop
<1>5. CASE FrameStep
  <2>1. alloc_phys_frame /\ boot.phase = "run" /\ boot' = boot
    BY <1>5 DEF FrameStep, alloc_phys_frame, Ready
  <2>2. CASE step \in Early
    <3>1. step' \in Early \ {"boot"} /\ step' \notin Late
      BY <1>5, <2>2 DEF FrameStep, Early, BeforeCopy, Late, Loop
    <3> QED
      BY <1>3, <2>1, <2>2, <3>1 DEF Next
  <2>3. CASE step \in Late
    <3>1. step' \in Late \ Early
      BY <1>5, <2>3 DEF FrameStep, Early, BeforeCopy, Late, Loop
    <3>2. LateMem
      BY <2>3 DEF MemInv
    <3>3. LateMem'
      BY <2>1, <3>2, HighFrameIs, LateTake DEF LateMem
    <3> QED
      BY <3>1, <3>3 DEF MemInv
  <2> QED
    BY <1>5, <2>2, <2>3 DEF FrameStep, Early, BeforeCopy, Late, Loop
<1>6. CASE SearchStep
  <2>1. Next /\ step' = step /\ boot' = boot
    BY <1>6 DEF SearchStep, Next, gvars, aligned_skip_entry, aligned_try, aligned_fail
  <2>2. step \in Early \ ({"boot"} \cup Late) /\ boot.phase = "run"
    BY <1>6 DEF SearchStep, MemInv, Early, BeforeCopy, Late, Loop
  <2> QED
    BY <1>3, <2>1, <2>2
<1>7. CASE ZeroStep \/ cmd_frame
  <2>1. /\ step \in Early \ {"boot"} /\ step' \in Early \ ({"boot"} \cup Late)
        /\ alloc_phys_frame_lowmem \/ UNCHANGED vars
    BY <1>7 DEF ZeroStep, cmd_frame, Early, BeforeCopy, Late, Loop
  <2>2. CASE UNCHANGED vars
    BY <2>1, <2>2, SameMem
  <2>3. CASE alloc_phys_frame_lowmem
    BY <1>3, <2>1, <2>3 DEF Next, alloc_phys_frame_lowmem, Ready
  <2> QED
    BY <2>1, <2>2, <2>3
<1>8. CASE dst_kernel \/ dst_ramdisk
  <2>1. /\ step \in Early \ {"boot"} /\ step' \in Early \ ({"boot"} \cup Late)
    BY <1>8 DEF dst_kernel, dst_ramdisk, dst_frames, Early, BeforeCopy, Late, Loop
  <2>2. PICK bytes \in ImageSize : alloc_phys_frames_aligned(LargePages(bytes) * LARGE_PG)
    <3>1. CASE dst_kernel
      <4>1. step \in ToCopy
        BY <3>1 DEF dst_kernel, dst_frames, ToCopy
      <4>2. vm.img.len - SETUP \in ImageSize
        BY <4>1, VmModules
      <4> QED
        BY <3>1, <4>2 DEF dst_kernel, dst_frames
    <3>2. CASE dst_ramdisk
      <4>1. vm.extra.len \in ImageSize
        BY <3>2 DEF dst_ramdisk, dst_frames, CopyInv, FromCopy
      <4> QED
        BY <3>2, <4>1 DEF dst_ramdisk, dst_frames
    <3> QED
      BY <1>8, <3>1, <3>2
  <2>3. LargePages(bytes) * LARGE_PG \in Nat \ {0}
    BY ImagePages DEF ImageSize
  <2>4. EarlyMem' /\ boot'.phase = "run"
    BY <2>1, <2>2, <2>3, StartSearch DEF MemInv
  <2> QED
    BY <2>1, <2>4 DEF MemInv
<1>9. CASE copy_kernel
  <2>1. step \in ToCopy /\ step \in Early \ {"boot"}
    BY <1>9 DEF copy_kernel, ToCopy, Early, BeforeCopy
  <2>2. PICK k \in Mods : Image(k) /\ Touched(machine.mods[k]) \subseteq reserved
    BY <2>1, VmModules
  <2>3. vm.img.addr = machine.mods[k].addr /\ vm.img.len = machine.mods[k].len
    BY <2>2 DEF Image, ModuleRange
  <2>4. /\ physical_free_range(machine.mods[k].addr, machine.mods[k].len)
        /\ UNCHANGED <<mm_limit, entry_end, op, held, machine, boot>>
        /\ op = Idle /\ step' = "cmd"
    BY <1>9, <2>3 DEF copy_kernel
  <2>5. EarlyMem /\ boot.phase = "run"
    BY <2>1 DEF MemInv
  <2>6. EarlyMem'
    BY <2>2, <2>4, <2>5, CopyFrees
  <2> QED
    BY <2>4, <2>5, <2>6 DEF MemInv, Late, Loop
<1>10. CASE copy_ramdisk
  <2>1. step \in Early \ {"boot"} /\ step = "copy ramdisk"
    BY <1>10 DEF copy_ramdisk, Early
  <2>2. PICK k \in Mods : Ramdisk(k) /\ Touched(machine.mods[k]) \subseteq reserved
    BY <2>1 DEF CopyInv
  <2>3. vm.extra.addr = machine.mods[k].addr /\ vm.extra.len = machine.mods[k].len
    BY <2>2 DEF Ramdisk, ModuleRange
  <2>4. /\ physical_free_range(machine.mods[k].addr, machine.mods[k].len)
        /\ UNCHANGED <<mm_limit, entry_end, op, held, machine, boot>>
        /\ op = Idle /\ step' = "e820"
    BY <1>10, <2>3 DEF copy_ramdisk
  <2>5. EarlyMem /\ boot.phase = "run"
    BY <2>1 DEF MemInv
  <2>6. EarlyMem'
    BY <2>2, <2>4, <2>5, CopyFrees
  <2>7. boot'.phase = "run" /\ op' = Idle
    BY <2>4, <2>5
  <2>8. LateMem'
    BY <2>6, <2>7, EarlyIsLateNext
  <2> QED
    BY <2>4, <2>8 DEF MemInv, Early, BeforeCopy
<1>11. CASE e820_find \/ e820_end \/ e820_high \/ e820_small \/ e820_kernel \/ e820_low
  <2>1. /\ step \in Loop /\ step' \in Late \ Early
        /\ mm_table' \subseteq mm_table
        /\ UNCHANGED <<entry_end, op, held, machine, boot>>
    BY <1>11 DEF e820_find, e820_end, e820_high, e820_small, e820_kernel, e820_low, Give,
          Pass, Rescan, physical_take_range, vars, Loop, Late, Early, BeforeCopy
  <2>2. LateMem'
    BY <2>1, LateGive DEF MemInv, Late
  <2> QED
    BY <2>1, <2>2 DEF MemInv
<1> QED
  BY <1>1, <1>2, <1>4, <1>5, <1>6, <1>7, <1>8, <1>9, <1>10, <1>11, StepCases DEF OtherStep
\* The fields of vm after an assignment to one of them.
LEMMA NextVmType ==
    ASSUME SoundBoots, GuestBase, [KernelNext]_all
    PROVE  VmType'
<1> USE DEF GuestBase
<1>0. /\ vm = [img |-> vm.img, extra |-> vm.extra, zero |-> vm.zero, cmd |-> vm.cmd,
               before |-> vm.before]
      /\ vm.img \in Bytes /\ vm.extra \in Bytes /\ vm.zero \in Nat /\ vm.cmd \in Nat
      /\ vm.before \subseteq Blocks
  BY DEF VmType
<1>1. CASE vm' = vm
  BY <1>1 DEF VmType
<1>2. CASE VmStep
  <2>1. mod[1] \in Mods /\ mod[2] \in Mods /\ machine \in Machines
    BY <1>2 DEF VmStep, ModInv, ModsMatched, ModsTaken
  <2>2. ModuleRange(mod[1]) \in Bytes /\ ModuleRange(mod[2]) \in Bytes
    BY <2>1, MachineAssumption DEF ModuleRange, Bytes, Mods, ByteRange
  <2>3. vm' = [img |-> ModuleRange(mod[1]), extra |-> ModuleRange(mod[2]),
               zero |-> vm.zero, cmd |-> vm.cmd, before |-> vm.before]
    BY <1>0, <1>2 DEF VmStep
  <2> QED
    BY <1>0, <2>2, <2>3 DEF VmType
<1>3. CASE ZeroStep
  <2>1. step \in Early
    BY <1>3 DEF ZeroStep, Early, BeforeCopy
  <2>2. Min(FirstFrame(0, LOWMEM)) \in Nat
    BY <1>3, <2>1, TableOfPages, LowFrameIs DEF ZeroStep
  <2>3. PICK z \in Nat : z = Min(FirstFrame(0, LOWMEM))
    BY <2>2
  <2>4. vm' = [vm EXCEPT !.zero = z]
    BY <1>3, <2>3 DEF ZeroStep
  <2> QED
    BY <2>4 DEF VmType
<1>4. CASE cmd_frame
  <2>1. step \in Early
    BY <1>4 DEF cmd_frame, Early
  <2>2. CASE alloc_phys_frame_lowmem /\ vm' # vm
    <3>1. Min(FirstFrame(0, LOWMEM)) \in Nat
      BY <2>1, <2>2, TableOfPages, LowFrameIs
    <3>2. PICK z \in Nat : z = Min(FirstFrame(0, LOWMEM))
      BY <3>1
    <3>3. vm' = [vm EXCEPT !.cmd = z]
      BY <1>4, <2>2, <3>2 DEF cmd_frame
    <3> QED
      BY <3>3 DEF VmType
  <2> QED
    BY <1>1, <1>4, <2>2 DEF cmd_frame
<1>5. CASE dst_kernel \/ dst_ramdisk
  <2>1. held \subseteq Blocks
    BY <1>5, TableOfPages DEF dst_kernel, dst_ramdisk, dst_frames, Early, BeforeCopy
  <2>2. vm' = [vm EXCEPT !.before = held]
    BY <1>5 DEF dst_kernel, dst_ramdisk, dst_frames
  <2> QED
    BY <2>1, <2>2 DEF VmType
<1>6. CASE copy_kernel
  <2>1. step \in Early /\ step \in ToCopy
    BY <1>6 DEF copy_kernel, Early, BeforeCopy, ToCopy
  <2>2. PICK b \in held : vm' = [vm EXCEPT !.img = [addr |-> b.base * PG_SIZE,
                                                    len  |-> vm.img.len - SETUP]]
    BY <1>6 DEF copy_kernel
  <2>3. b.base * PG_SIZE \in Nat
    BY <2>1, TableOfPages, PhysAssumption DEF Blocks
  <2>4. vm.img.len - SETUP \in Nat
    BY <2>1, VmModules DEF ImageSize
  <2>5. PICK r \in Bytes : r = [addr |-> b.base * PG_SIZE, len |-> vm.img.len - SETUP]
    BY <2>3, <2>4 DEF Bytes
  <2>6. vm' = [vm EXCEPT !.img = r]
    BY <2>2, <2>5
  <2> QED
    BY <2>6 DEF VmType
<1>7. CASE copy_ramdisk
  <2>1. step \in Early
    BY <1>7 DEF copy_ramdisk, Early
  <2>2. PICK b \in held : vm' = [vm EXCEPT !.extra.addr = b.base * PG_SIZE]
    BY <1>7 DEF copy_ramdisk
  <2>3. PICK a \in Nat : a = b.base * PG_SIZE
    BY <2>1, TableOfPages, PhysAssumption DEF Blocks
  <2>4. vm' = [vm EXCEPT !.extra = [addr |-> a, len |-> vm.extra.len]]
    BY <1>0, <2>2, <2>3 DEF Bytes
  <2>5. PICK r \in Bytes : r = [addr |-> a, len |-> vm.extra.len]
    BY <1>0, <2>3 DEF Bytes
  <2>6. vm' = [vm EXCEPT !.extra = r]
    BY <2>4, <2>5
  <2> QED
    BY <2>6 DEF VmType
<1>8. \/ vm' = vm \/ VmStep \/ ZeroStep \/ cmd_frame \/ dst_kernel \/ dst_ramdisk
      \/ copy_kernel \/ copy_ramdisk
  <2>1. CASE StopStep
    BY <2>1 DEF StopStep
  <2>2. CASE QuietStep \/ TagStep \/ FrameStep \/ EntryStep \/ SearchStep
    BY <2>2 DEF QuietStep, TagStep, FrameStep, EntryStep, SearchStep, gvars
  <2>3. CASE e820_find \/ e820_end \/ e820_high \/ e820_small \/ e820_kernel \/ e820_low
    BY <2>3 DEF e820_find, e820_end, e820_high, e820_small, e820_kernel, e820_low, Give, Pass
  <2> QED
    BY <2>1, <2>2, <2>3, StepCases DEF OtherStep
<1> QED
  BY <1>1, <1>2, <1>3, <1>4, <1>5, <1>6, <1>7, <1>8
LEMMA NextCopyInv ==
    ASSUME SoundBoots, GuestBase, [KernelNext]_all
    PROVE  CopyInv'
<1> USE DEF GuestBase
<1>0. /\ vm = [img |-> vm.img, extra |-> vm.extra, zero |-> vm.zero, cmd |-> vm.cmd,
               before |-> vm.before]
      /\ vm.img \in Bytes /\ vm.extra \in Bytes
  BY DEF VmType
<1>1. CASE step' \notin FromCopy
  BY <1>1 DEF CopyInv, FromCopy
<1>2. CASE copy_kernel
  <2>1. step \in ToCopy /\ step \in Early /\ op = Idle /\ step' = "cmd" /\ machine' = machine
    BY <1>2 DEF copy_kernel, ToCopy, Early, BeforeCopy
  <2>2. PICK i \in Mods, j \in Mods :
              /\ i # j /\ Image(i) /\ Ramdisk(j)
              /\ Touched(machine.mods[i]) \subseteq reserved
              /\ Touched(machine.mods[j]) \subseteq reserved
              /\ vm.img.len - SETUP \in ImageSize /\ vm.extra.len \in ImageSize
    BY <2>1, VmModules
  <2>3. PICK b : vm' = [vm EXCEPT !.img = [addr |-> b.base * PG_SIZE,
                                           len  |-> vm.img.len - SETUP]]
    BY <1>2 DEF copy_kernel
  <2>4. vm'.extra = vm.extra /\ vm'.img.len = vm.img.len - SETUP
    BY <1>0, <2>3
  <2>5. vm.img.addr = machine.mods[i].addr /\ vm.img.len = machine.mods[i].len
    BY <2>2 DEF Image, ModuleRange
  <2>6. /\ physical_free_range(machine.mods[i].addr, machine.mods[i].len)
        /\ UNCHANGED <<mm_limit, entry_end, op, held, machine, boot>>
    BY <1>2, <2>5 DEF copy_kernel
  <2>7. EarlyMem /\ boot.phase = "run" /\ machine \in Machines
    BY <2>1, TableOfPages DEF MemInv, ToCopy
  <2>8. reserved' = reserved \ Inside(machine.mods[i])
    BY <2>1, <2>2, <2>6, <2>7, CopyFrees DEF physical_free_range
  <2>9. Touched(machine.mods[j]) \cap Inside(machine.mods[i]) = {}
    <3>1. Touched(machine.mods[i]) \cap Touched(machine.mods[j]) = {}
      BY <2>2, <2>7 DEF SoundBoots, SoundMachine, Mods
    <3>2. ByteRange(machine.mods[i])
      BY <2>7, MachineAssumption DEF Mods
    <3>3. Inside(machine.mods[i]) \subseteq Touched(machine.mods[i])
      BY <3>2, InsideTouched
    <3> QED
      BY <3>1, <3>3
  <2>10. Touched(machine.mods[j]) \subseteq reserved'
    BY <2>2, <2>8, <2>9
  <2>11. (Ramdisk(j) /\ Touched(machine.mods[j]) \subseteq reserved)' /\ j \in Mods'
    BY <2>1, <2>2, <2>4, <2>10 DEF Ramdisk, ModuleRange, Mods
  <2>12. vm'.img.len \in ImageSize /\ vm'.extra.len \in ImageSize
    BY <2>2, <2>4
  <2> QED
    BY <2>11, <2>12 DEF CopyInv
<1>3. ASSUME step \in FromCopy, vm'.img.len = vm.img.len, vm'.extra.len = vm.extra.len,
             step' \in {"cmd", "ramdisk", "copy ramdisk"} =>
                 /\ step \in {"cmd", "ramdisk", "copy ramdisk"} /\ vm'.extra = vm.extra
                 /\ UNCHANGED <<machine, reserved>>
      PROVE  CopyInv'
  <2>1. vm'.img.len \in ImageSize /\ vm'.extra.len \in ImageSize
    BY <1>3 DEF CopyInv
  <2>2. ASSUME step' \in {"cmd", "ramdisk", "copy ramdisk"}
        PROVE  (\E k \in Mods : Ramdisk(k) /\ Touched(machine.mods[k]) \subseteq reserved)'
    <3>1. PICK k \in Mods : Ramdisk(k) /\ Touched(machine.mods[k]) \subseteq reserved
      BY <1>3, <2>2 DEF CopyInv
    <3>2. (Ramdisk(k) /\ Touched(machine.mods[k]) \subseteq reserved)' /\ k \in Mods'
      BY <1>3, <2>2, <3>1 DEF Ramdisk, ModuleRange, Mods
    <3> QED
      BY <3>2
  <2> QED
    BY <2>1, <2>2 DEF CopyInv
<1>4. CASE QuietStep \/ TagStep \/ VmStep \/ FrameStep \/ EntryStep \/ ZeroStep
  <2>1. CASE step \in FromCopy
    <3>1. vm' = vm
      BY <1>4, <2>1 DEF QuietStep, TagStep, VmStep, FrameStep, EntryStep, ZeroStep,
            FromCopy, Late, Loop
    <3>2. step' \in {"cmd", "ramdisk", "copy ramdisk"} => step' = step /\ UNCHANGED vars
      BY <1>4, <2>1 DEF QuietStep, TagStep, VmStep, FrameStep, EntryStep, ZeroStep,
            FromCopy, Late, Loop
    <3> QED
      BY <1>3, <2>1, <3>1, <3>2 DEF vars
  <2>2. CASE step \notin FromCopy
    BY <1>1, <1>4, <2>2 DEF QuietStep, TagStep, VmStep, FrameStep, EntryStep, ZeroStep,
            FromCopy, Late, Loop
  <2> QED
    BY <2>1, <2>2
<1>5. CASE SearchStep
  <2>1. step' = step /\ vm' = vm /\ machine' = machine /\ reserved' = reserved
    BY <1>5 DEF SearchStep, gvars, aligned_skip_entry, aligned_try, aligned_fail
  <2> QED
    BY <1>1, <1>3, <1>5, <2>1 DEF SearchStep, FromCopy, Late, Loop
<1>6. CASE dst_kernel
  BY <1>1, <1>6 DEF dst_kernel, dst_frames, FromCopy, Late, Loop
<1>7. CASE cmd_frame
  <2>1. vm'.img = vm.img /\ vm'.extra = vm.extra
    BY <1>0, <1>7 DEF cmd_frame
  <2>2. step = "cmd" /\ step' = "ramdisk" /\ machine' = machine /\ reserved' = reserved
    BY <1>7 DEF cmd_frame, alloc_phys_frame_lowmem, vars
  <2> QED
    BY <1>3, <2>1, <2>2 DEF FromCopy
<1>8. CASE dst_ramdisk
  <2>1. vm'.img = vm.img /\ vm'.extra = vm.extra
    BY <1>0, <1>8 DEF dst_ramdisk, dst_frames
  <2>2. step = "ramdisk" /\ step' = "copy ramdisk" /\ machine' = machine /\ reserved' = reserved
    BY <1>8 DEF dst_ramdisk, dst_frames, alloc_phys_frames_aligned
  <2> QED
    BY <1>3, <2>1, <2>2 DEF FromCopy
<1>9. CASE copy_ramdisk
  <2>1. PICK b : vm' = [vm EXCEPT !.extra.addr = b.base * PG_SIZE]
    BY <1>9 DEF copy_ramdisk
  <2>2. vm'.img = vm.img /\ vm'.extra.len = vm.extra.len
    BY <1>0, <2>1 DEF Bytes
  <2> QED
    BY <1>3, <1>9, <2>2 DEF copy_ramdisk, FromCopy
<1>10. CASE e820_find \/ e820_end \/ e820_high \/ e820_small \/ e820_kernel \/ e820_low
  <2>1. vm' = vm /\ step \in Loop /\ step' \in Late
    BY <1>10 DEF e820_find, e820_end, e820_high, e820_small, e820_kernel, e820_low, Give,
          Pass, Loop, Late
  <2> QED
    BY <1>3, <2>1 DEF FromCopy, Late, Loop
<1>11. CASE StopStep
  BY <1>1, <1>11 DEF StopStep, Stopped, FromCopy, Late, Loop
<1> QED
  BY <1>2, <1>4, <1>5, <1>6, <1>7, <1>8, <1>9, <1>10, <1>11, StepCases DEF OtherStep

LEMMA NextPendingInv ==
    ASSUME SoundBoots, GuestBase, [KernelNext]_all
    PROVE  PendingInv'
<1> USE DEF GuestBase
<1>0. vm = [img |-> vm.img, extra |-> vm.extra, zero |-> vm.zero, cmd |-> vm.cmd,
            before |-> vm.before]
  BY DEF VmType
<1>1. CASE step' \notin {"copy kernel", "copy ramdisk"}
  BY <1>1 DEF PendingInv
<1>2. CASE step' = step /\ UNCHANGED <<vm, op, held>>
  <2>1. \A bytes : Pending(bytes)' <=> Pending(bytes)
    BY <1>2 DEF Pending
  <2> QED
    BY <1>2, <2>1 DEF PendingInv
<1>3. CASE dst_kernel \/ dst_ramdisk
  <2>0. PICK bytes : bytes = IF step = "kernel" THEN vm.img.len - SETUP ELSE vm.extra.len
    OBVIOUS
  <2>1. /\ vm' = [vm EXCEPT !.before = held] /\ held' = held
        /\ alloc_phys_frames_aligned(LargePages(bytes) * LARGE_PG)
        /\ step' = IF step = "kernel" THEN "copy kernel" ELSE "copy ramdisk"
    BY <1>3, <2>0 DEF dst_kernel, dst_ramdisk, dst_frames, alloc_phys_frames_aligned
  <2>2. vm'.img = vm.img /\ vm'.extra = vm.extra /\ vm'.before = held
    BY <1>0, <2>1
  <2>3. op'.kind = "aligned" /\ op'.num = LargePages(bytes) * LARGE_PG
    BY <2>1 DEF alloc_phys_frames_aligned
  <2>4. op' # Idle
    BY <2>3 DEF Idle
  <2>5. Pending(bytes)'
    BY <2>1, <2>2, <2>3, <2>4 DEF Pending, Idle
  <2> QED
    BY <2>0, <2>1, <2>2, <2>5 DEF PendingInv
<1>4. CASE SearchStep
  <2>1. step' = step /\ vm' = vm /\ step \in {"copy kernel", "copy ramdisk"}
    BY <1>4 DEF SearchStep, gvars
  <2>2. PICK bytes : /\ Pending(bytes)
                     /\ step = "copy kernel" => bytes = vm.img.len - SETUP
                     /\ step = "copy ramdisk" => bytes = vm.extra.len
    <3>1. CASE step = "copy kernel"
      BY <3>1 DEF PendingInv
    <3>2. CASE step = "copy ramdisk"
      BY <3>2 DEF PendingInv
    <3> QED
      BY <2>1, <3>1, <3>2
  <2>3. EarlyMem
    BY <2>1 DEF MemInv, Early, BeforeCopy
  <2>4. op.kind = "aligned"
    BY <1>4 DEF SearchStep, aligned_skip_entry, aligned_try, aligned_fail
  <2>5. op # Idle
    BY <2>4 DEF Idle
  <2> DEFINE num == LargePages(bytes) * LARGE_PG
  <2>6. held = vm.before /\ op.num = num
    BY <2>2, <2>5 DEF Pending
  <2>7. op \in Search
    BY <2>3, <2>4 DEF EarlyMem, IInv, TypeInv, TypeOK, NoSearch
  <2>8. Pending(bytes)'
    <3>1. CASE op'.kind = "aligned" /\ op'.num = op.num /\ held' = held
      BY <2>1, <2>6, <3>1 DEF Pending, Idle
    <3>2. CASE op' = Idle /\ held' = held
      BY <2>1, <2>6, <3>2 DEF Pending, Idle
    <3>3. ASSUME NEW p \in AlignedCandidate(op.pos), NEW cur \in AlignedEnd(p, op.num),
                 cur = p + op.num, Take(p, op.num), op' = Idle
          PROVE  Pending(bytes)'
      <4>1. p \in Nat /\ p % LARGE_PG = 0 /\ LARGE_PG <= p
        BY <2>3, <2>4, <3>3, AlignedPass, Geometry DEF EarlyMem, IInv, TypeInv
      <4>2. PICK b : b = [base |-> p, num |-> num]
        OBVIOUS
      <4>3. b \in Blocks /\ b.num = num /\ b.base = p
        BY <2>6, <2>7, <4>1, <4>2 DEF Blocks, Search
      <4>4. LargeBlock(b, num)
        BY <4>1, <4>3 DEF LargeBlock
      <4>5. held' = vm.before \cup {b}
        BY <2>6, <3>3, <4>2 DEF Take
      <4>6. op' = Idle
        BY <3>3
      <4> QED
        BY <2>1, <4>4, <4>5, <4>6 DEF Pending, Idle, LargeBlock, Blocks
    <3>4. CASE aligned_skip_entry
      BY <2>7, <3>1, <3>4 DEF aligned_skip_entry, Search
    <3>5. CASE aligned_try
      BY <2>7, <3>1, <3>3, <3>5 DEF aligned_try, Search
    <3>6. CASE aligned_fail
      BY <3>2, <3>6 DEF aligned_fail
    <3> QED
      BY <1>4, <3>4, <3>5, <3>6 DEF SearchStep
  <2> QED
    BY <2>1, <2>2, <2>8 DEF PendingInv
<1>5. CASE QuietStep \/ EntryStep
  BY <1>1, <1>2, <1>5 DEF QuietStep, EntryStep, vars
<1>6. CASE TagStep \/ VmStep \/ FrameStep \/ ZeroStep \/ StopStep
  BY <1>1, <1>6 DEF TagStep, VmStep, FrameStep, ZeroStep, StopStep, Stopped
<1>7. CASE OtherStep
  BY <1>1, <1>3, <1>7 DEF OtherStep, copy_kernel, cmd_frame, copy_ramdisk, e820_find,
        e820_end, e820_high, e820_small, e820_kernel, e820_low, Give, Pass
<1> QED
  BY <1>4, <1>5, <1>6, <1>7, StepCases

LEMMA InitGuestBase == KernelInit => GuestBase
<1> SUFFICES ASSUME KernelInit PROVE GuestBase
  OBVIOUS
<1>1. FrameInv /\ ModInv
  BY InitFrameInv, InitModInv
<1>2. step = "boot" /\ Init
  BY DEF KernelInit, GuestInit
<1>3. vm = [img |-> [addr |-> 0, len |-> 0], extra |-> [addr |-> 0, len |-> 0],
            zero |-> 0, cmd |-> 0, before |-> {}]
  BY DEF KernelInit, GuestInit
<1>4. VmType
  BY <1>3 DEF VmType, Bytes
<1>5. VmThere /\ CopyInv /\ PendingInv
  BY <1>2 DEF VmThere, CopyInv, PendingInv, ToCopy, FromCopy, Late, Loop
<1>6. MemInv
  <2>1. IInv
    BY <1>2, InitIInv
  <2>2. UsableInv
    BY <1>2 DEF Init, UsableInv, HeldPages
  <2>3. LimitInv /\ MapLimit
    BY <1>2, <2>1, MachineAssumption DEF Init, LimitInv, MapLimit, IInv, TypeInv, TypeOK, Boot
  <2>4. AlignedSearch
    BY <1>2 DEF Init, AlignedSearch, Idle
  <2> QED
    BY <1>2, <2>1, <2>2, <2>3, <2>4 DEF MemInv, EarlyMem, Late, Loop
<1> QED
  BY <1>1, <1>4, <1>5, <1>6 DEF GuestBase

LEMMA NextGuestBase ==
    ASSUME SoundBoots
    PROVE  GuestBase /\ [KernelNext]_all => GuestBase'
<1> SUFFICES ASSUME GuestBase, [KernelNext]_all PROVE GuestBase'
  OBVIOUS
<1>1. FrameInv' /\ ModInv' /\ VmThere'
  BY NextFrameInv, NextModInv, NextVmThere DEF GuestBase
<1> QED
  BY <1>1, NextVmType, NextMemInv, NextCopyInv, NextPendingInv DEF GuestBase
-----------------------------------------------------------------------------
(* The loop of virt_setup_e820                                             *)

\* The page the loop has come to.
Done == IF step = "range" THEN scan.from ELSE scan.start + scan.size

ScanType == scan \in [from : Nat, start : Int, size : Nat, merge : BOOLEAN]

\* What physical_next_free_range found: nothing, or the first free run.
Found ==
    IF scan.size = 0
    THEN /\ \A p \in mm_table : p < scan.from
         /\ scan.start = (entry_end + 1) * WORD \/ scan.from \div WORD >= entry_end
    ELSE scan.start \in Nat /\ FirstRun(scan.from, scan.start, scan.start + scan.size)

ScanInv ==
    /\ ScanType
    /\ step \in Early => /\ e820 = <<>>
                         /\ scan = [from |-> 0, start |-> 0, size |-> 0, merge |-> TRUE]
    /\ step = "e820" => Done \in Nat
    /\ step = "range" => Found

\* Division of multiples, negative ones too.
LEMMA IntMultiple ==
    ASSUME NEW k \in Int, NEW b \in Nat \ {0}
    PROVE  (k * b) \div b = k /\ (k * b) % b = 0
OBVIOUS

\* virt_setup_e820 takes the pages it writes to the table.
LEMMA GivenPages ==
    ASSUME NEW base \in Int, NEW num \in Nat
    PROVE  take_bits(base * PG_SIZE, num * PG_SIZE) = Bits(base, num)
<1>1. PICK a \in Int, n \in Nat : a = base * PG_SIZE /\ n = num * PG_SIZE
  BY PhysAssumption
<1>2. a \div PG_SIZE = base /\ a % PG_SIZE = 0
  BY <1>1, IntMultiple, PhysAssumption
<1>3. n \div PG_SIZE = num
  BY <1>1, IntMultiple, PhysAssumption
<1>4. (a + n) % PG_SIZE = 0
  <2>1. a + n = (base + num) * PG_SIZE
    BY <1>1, PhysAssumption
  <2>2. ((base + num) * PG_SIZE) % PG_SIZE = 0
    BY IntMultiple, PhysAssumption
  <2> QED
    BY <2>1, <2>2
<1>5. (n + 0) \div PG_SIZE = num
  BY <1>1, <1>3
<1> QED
  BY <1>1, <1>2, <1>4, <1>5 DEF take_bits

\* The large pages of a range: Aligned is where they begin, Whole their pages.
LEMMA RangeParts ==
    ASSUME ScanType, scan.start \in Nat
    PROVE  /\ Aligned \in Nat /\ Aligned % LARGE_PG = 0 /\ scan.start <= Aligned
           /\ \A y \in Nat : y % LARGE_PG = 0 /\ scan.start <= y => Aligned <= y
           /\ Rest \in Int /\ Rest = scan.start + scan.size - Aligned
           /\ Rest > 0 => /\ Whole \in Nat /\ Whole <= Rest /\ Rest < Whole + LARGE_PG
                          /\ Whole % LARGE_PG = 0
<1>1. scan.size \in Nat
  BY DEF ScanType
<1>2. /\ Aligned \in Nat /\ Aligned % LARGE_PG = 0 /\ scan.start <= Aligned
      /\ \A y \in Nat : y % LARGE_PG = 0 /\ scan.start <= y => Aligned <= y
  BY RoundUpIs, Geometry DEF Aligned
<1>3. Rest \in Int /\ Rest = scan.start + scan.size - Aligned
  BY <1>1, <1>2 DEF Rest
<1>4. ASSUME Rest > 0
      PROVE  /\ Whole \in Nat /\ Whole <= Rest /\ Rest < Whole + LARGE_PG
             /\ Whole % LARGE_PG = 0
  <2>1. PICK r \in Nat : r = Rest
    BY <1>3, <1>4
  <2>2. PICK n, m : n = r \div LARGE_PG /\ m = r % LARGE_PG
    OBVIOUS
  <2>3. n \in Nat /\ m \in Nat /\ m < LARGE_PG /\ r = LARGE_PG * n + m
    BY <2>2, DivMod, Geometry
  <2>4. PICK w \in Nat : w = n * LARGE_PG
    BY <2>3, Geometry
  <2>5. Whole = w
    BY <2>1, <2>2, <2>4 DEF Whole
  <2>6. w % LARGE_PG = 0
    BY <2>3, <2>4, IntMultiple, Geometry
  <2>7. w = LARGE_PG * n
    BY <2>3, <2>4, Geometry
  <2>8. w <= r /\ r < w + LARGE_PG
    BY <2>3, <2>7, Geometry
  <2> QED
    BY <2>1, <2>5, <2>6, <2>8
<1> QED
  BY <1>2, <1>3, <1>4

\* The steps of the loop that leave a range behind, as far as the pages and the
\* position are concerned.
LEMMA RangeStep ==
    ASSUME GuestBase, ScanInv, e820_high \/ e820_small \/ e820_kernel \/ e820_low
    PROVE  /\ step = "range" /\ step' = "e820" /\ UNCHANGED <<vm, ept, held, machine, entry_end>>
           /\ LateMem /\ scan.start \in Nat /\ scan.size \in Nat \ {0}
           /\ FirstRun(scan.from, scan.start, scan.start + scan.size)
           /\ scan' = [from |-> scan.from, start |-> scan'.start, size |-> scan'.size,
                       merge |-> scan.merge /\ ~MergeNow]
           /\ \/ /\ e820_high /\ Rest > 0 /\ Whole > 0
                 /\ scan'.start = Aligned /\ scan'.size = Whole
                 /\ mm_table' = mm_table \ Bits(Aligned, Whole)
                 /\ e820' = Append(Merged, [base |-> Aligned, num |-> Whole])
              \/ /\ e820_small /\ Rest <= 0 /\ scan'.start = Aligned /\ scan'.size = 0
                 /\ mm_table' = mm_table /\ e820' = Merged
              \/ /\ e820_small /\ Rest > 0 /\ Whole = 0
                 /\ scan'.start = Aligned /\ scan'.size = Rest
                 /\ mm_table' = mm_table /\ e820' = Merged
              \/ /\ e820_kernel /\ ~High /\ ~Low
                 /\ scan'.start = scan.start /\ scan'.size = scan.size
                 /\ mm_table' = mm_table /\ e820' = Merged
              \/ /\ e820_low /\ ~High /\ Low
                 /\ \/ scan.from = 0 /\ scan'.start = scan.start - 2 /\ scan'.size = scan.size + 2
                    \/ scan.from # 0 /\ scan'.start = scan.start /\ scan'.size = scan.size
                 /\ mm_table' = mm_table \ Bits(scan'.start, scan'.size)
                 /\ e820' = Append(Merged, [base |-> scan'.start, num |-> scan'.size])
<1>1. step = "range" /\ step' = "e820" /\ scan.size > 0
  BY DEF e820_high, e820_small, e820_kernel, e820_low, Give, Pass
<1>2. UNCHANGED <<vm, ept, held, machine, entry_end>>
  BY DEF e820_high, e820_small, e820_kernel, e820_low, Give, Pass, vars
<1>3. LateMem
  BY <1>1 DEF GuestBase, MemInv, Late, Loop
<1>4. /\ scan.from \in Nat /\ scan.size \in Nat \ {0} /\ scan.start \in Nat
      /\ FirstRun(scan.from, scan.start, scan.start + scan.size)
  BY <1>1 DEF ScanInv, ScanType, Found
<1>5. /\ Rest \in Int /\ Aligned \in Nat
      /\ Rest > 0 => Whole \in Nat
  BY <1>4, RangeParts DEF ScanInv
<1>6. ASSUME NEW base, NEW num, Rescan(base, num)
      PROVE  /\ scan' = [from |-> scan.from, start |-> base, size |-> num,
                         merge |-> scan.merge /\ ~MergeNow]
             /\ scan'.start = base /\ scan'.size = num
  BY <1>6 DEF Rescan, ScanInv, ScanType
<1>7. ASSUME NEW base \in Int, NEW num \in Nat, Give(base, num)
      PROVE  /\ mm_table' = mm_table \ Bits(base, num)
             /\ e820' = Append(Merged, [base |-> base, num |-> num])
             /\ Rescan(base, num)
  BY <1>7, GivenPages DEF Give, physical_take_range
<1>8. CASE e820_high
  <2>1. Give(Aligned, Whole) /\ Rest > 0 /\ Whole > 0
    BY <1>8 DEF e820_high
  <2>2. Aligned \in Int /\ Whole \in Nat
    BY <1>5, <2>1
  <2> HIDE DEF Aligned, Whole, Rest
  <2> QED
    BY <1>1, <1>2, <1>3, <1>4, <1>6, <1>7, <1>8, <2>1, <2>2
<1>9. CASE e820_small
  <2>1. CASE Rest <= 0 /\ Pass(Aligned, 0)
    BY <1>1, <1>2, <1>3, <1>4, <1>6, <1>9, <2>1 DEF Pass, vars
  <2>2. CASE Rest > 0 /\ Whole = 0 /\ Pass(Aligned, Rest)
    BY <1>1, <1>2, <1>3, <1>4, <1>6, <1>9, <2>2 DEF Pass, vars
  <2> QED
    BY <1>9, <2>1, <2>2 DEF e820_small
<1>10. CASE e820_kernel
  <2>1. ~High /\ ~Low /\ Pass(scan.start, scan.size)
    BY <1>10 DEF e820_kernel
  <2> QED
    BY <1>1, <1>2, <1>3, <1>4, <1>6, <1>10, <2>1 DEF Pass, vars
<1>11. CASE e820_low
  <2>1. PICK base \in Int, num \in Nat :
            /\ Give(base, num)
            /\ \/ scan.from = 0 /\ base = scan.start - 2 /\ num = scan.size + 2
               \/ scan.from # 0 /\ base = scan.start /\ num = scan.size
    BY <1>4, <1>11 DEF e820_low
  <2>2. ~High /\ Low
    BY <1>11 DEF e820_low
  <2> QED
    BY <1>1, <1>2, <1>3, <1>4, <1>6, <1>7, <1>11, <2>1, <2>2
<1> QED
  BY <1>8, <1>9, <1>10, <1>11
LEMMA NextScanInv ==
    ASSUME SoundBoots, GuestBase, ScanInv, [KernelNext]_all
    PROVE  ScanInv'
<1>1. CASE UNCHANGED <<scan, e820>> /\ step' \notin Early \cup Loop
  BY <1>1 DEF ScanInv, ScanType, Loop
<1>2. CASE UNCHANGED <<scan, e820>> /\ step' \in Early /\ step \in Early
  BY <1>2 DEF ScanInv, ScanType, Early, BeforeCopy
<1>3. CASE UNCHANGED <<scan, e820, mm_table, entry_end>> /\ step' = step
  BY <1>3 DEF ScanInv, ScanType, Done, Found, FirstRun, FreeRun
<1>4. CASE copy_ramdisk
  <2>1. UNCHANGED <<scan, e820>> /\ step = "copy ramdisk" /\ step' = "e820"
    BY <1>4 DEF copy_ramdisk
  <2>2. scan = [from |-> 0, start |-> 0, size |-> 0, merge |-> TRUE]
    BY <2>1 DEF ScanInv, Early
  <2>3. scan'.start = 0 /\ scan'.size = 0
    BY <2>1, <2>2
  <2>4. Done' \in Nat
    <3>1. step' = "e820"
      BY <2>1
    <3> QED
      BY <2>3, <3>1 DEF Done
  <2> QED
    BY <2>1, <2>4 DEF ScanInv, ScanType, Early, BeforeCopy
<1>5. CASE e820_find
  <2>1. step = "e820" /\ step' = "range" /\ UNCHANGED vars
    BY <1>5 DEF e820_find
  <2>2. PICK from \in Nat : from = scan.start + scan.size
    BY <2>1 DEF ScanInv, Done
  <2>3. PICK r, none, st, sz :
                 /\ r = next_free_range(from)
                 /\ none = IF from \div WORD >= entry_end THEN scan.start
                           ELSE (entry_end + 1) * WORD
                 /\ st = (IF r[2] > 0 THEN r[1] ELSE none) /\ sz = r[2]
                 /\ scan' = [scan EXCEPT !.from = from, !.size = sz, !.start = st]
    BY <1>5, <2>2 DEF e820_find
  <2>4. scan' = [from |-> from, start |-> st, size |-> sz, merge |-> scan.merge]
    <3>1. scan' = [scan EXCEPT !.from = from, !.size = sz, !.start = st]
      BY <2>3
    <3> QED
      BY <3>1 DEF ScanInv, ScanType
  <2>5. TableEnds /\ entry_end \in Nat /\ none \in Int /\ scan.merge \in BOOLEAN
        /\ (from \div WORD >= entry_end \/ none = (entry_end + 1) * WORD)
    <3>1. LateMem
      BY <2>1 DEF GuestBase, MemInv, Late, Loop
    <3>2. TableEnds /\ entry_end \in Nat
      BY <3>1, LateTable DEF LateMem
    <3>3. (entry_end + 1) * WORD \in Int /\ scan.start \in Int
      BY <3>2, PhysAssumption DEF ScanInv, ScanType
    <3>4. scan.merge \in BOOLEAN
      BY DEF ScanInv, ScanType
    <3>5. none \in Int /\ (from \div WORD >= entry_end \/ none = (entry_end + 1) * WORD)
      BY <2>3, <3>3
    <3> QED
      BY <3>2, <3>4, <3>5, Zenon
  <2>6. \/ /\ \A p \in mm_table : p < from
           /\ r = <<0, 0>>
        \/ \E s \in Nat, stop \in Nat : FirstRun(from, s, stop) /\ r = <<s, stop - s>>
    BY <2>3, <2>5, NextFreeRangeIs
  <2>7. CASE r = <<0, 0>> /\ \A p \in mm_table : p < from
    <3>0. st = none /\ sz = 0
      BY <2>3, <2>7
    <3>1. scan'.from = from /\ scan'.size = 0 /\ scan'.start = none /\ ScanType'
      BY <2>4, <2>5, <3>0 DEF ScanType
    <3>2. Found'
      BY <2>1, <2>5, <2>7, <3>1 DEF Found, vars
    <3> QED
      BY <2>1, <3>1, <3>2 DEF ScanInv, Early, BeforeCopy
  <2>8. ASSUME NEW s \in Nat, NEW stop \in Nat, FirstRun(from, s, stop), r = <<s, stop - s>>
        PROVE  ScanInv'
    <3>1. s < stop /\ stop - s \in Nat /\ stop - s > 0
      BY <2>8 DEF FirstRun
    <3>4. st = s /\ sz = stop - s
      BY <2>3, <2>8, <3>1
    <3>2. /\ scan'.from = from /\ scan'.size = stop - s /\ scan'.start = s /\ ScanType'
          /\ scan'.start + scan'.size = stop
      BY <2>4, <2>5, <3>1, <3>4 DEF ScanType
    <3>3. Found'
      BY <2>1, <2>8, <3>1, <3>2 DEF Found, vars, FirstRun, FreeRun
    <3> QED
      BY <2>1, <3>2, <3>3 DEF ScanInv, Early, BeforeCopy
  <2> QED
    BY <2>6, <2>7, <2>8
<1>6. CASE e820_high \/ e820_small \/ e820_kernel \/ e820_low
  <2> DEFINE start == scan'.start
             size  == scan'.size
  <2>1. /\ step' = "e820" /\ scan.start \in Nat /\ scan.size \in Nat \ {0}
        /\ scan.from \in Nat
    BY <1>6, RangeStep DEF ScanInv, ScanType
  <2>2. start \in Int /\ size \in Nat /\ start + size \in Nat
    BY <1>6, <2>1, RangeStep, RangeParts DEF ScanInv
  <2>3. PICK m \in BOOLEAN : scan' = [from |-> scan.from, start |-> start, size |-> size,
                                      merge |-> m]
    <3>1. PICK m \in BOOLEAN : m = (scan.merge /\ ~MergeNow)
      OBVIOUS
    <3> QED
      BY <1>6, <3>1, RangeStep
  <2> HIDE DEF start, size
  <2>4. ScanType'
    BY <2>1, <2>2, <2>3 DEF ScanType
  <2>5. Done' \in Nat
    BY <2>1, <2>2 DEF Done, start, size
  <2> QED
    BY <2>1, <2>4, <2>5 DEF ScanInv, Early, BeforeCopy
<1>7. CASE e820_end
  <2>1. step = "range" /\ step' = "tables" /\ Rescan(scan.start, 0)
    BY <1>7 DEF e820_end
  <2>2. ScanType'
    BY <2>1 DEF Rescan, ScanInv, ScanType
  <2> QED
    BY <2>1, <2>2 DEF ScanInv, Early, BeforeCopy
<1>8. CASE StopStep
  <2>1. CASE scan' = scan
    BY <1>1, <1>8, <2>1 DEF StopStep, Stopped, Early, BeforeCopy, Loop
  <2> QED
    BY <1>8, <2>1 DEF StopStep
<1>9. CASE QuietStep \/ TagStep \/ VmStep \/ FrameStep \/ EntryStep \/ ZeroStep
  <2>1. UNCHANGED <<scan, e820>>
    BY <1>9 DEF QuietStep, TagStep, VmStep, FrameStep, EntryStep, ZeroStep
  <2>2. CASE step' = step /\ UNCHANGED vars
    BY <1>3, <2>1, <2>2 DEF vars
  <2>3. CASE ~(step' = step /\ UNCHANGED vars)
    BY <1>1, <1>2, <1>9, <2>1, <2>3 DEF QuietStep, TagStep, VmStep, FrameStep, EntryStep,
          ZeroStep, Early, BeforeCopy, Loop
  <2> QED
    BY <2>2, <2>3
<1>10. CASE SearchStep \/ dst_kernel \/ dst_ramdisk \/ copy_kernel \/ cmd_frame
  BY <1>2, <1>10 DEF SearchStep, dst_kernel, dst_ramdisk, dst_frames, copy_kernel, cmd_frame,
        gvars, Early, BeforeCopy
<1> QED
  BY <1>4, <1>5, <1>6, <1>7, <1>8, <1>9, <1>10, StepCases DEF OtherStep, GuestBase

\* How many entries of the PDT there are.
EptCount == "count" \in DOMAIN ept /\ ept.count \in Nat

LEMMA NextEptCount ==
    ASSUME FrameInv, EptCount, [KernelNext]_all, step' \notin Stopped
    PROVE  EptCount'
<1>1. CASE ept' = ept
  BY <1>1 DEF EptCount
<1>2. CASE ept_pml4t
  BY <1>2 DEF ept_pml4t, EptCount
<1>3. CASE ept_entry
  <2>1. PICK n \in Nat : n = ept.count + 1
    BY DEF EptCount
  <2>2. CASE ept.count = 0
    <3>1. ept' = [ept EXCEPT !.count = n, !.map = FirstLargePage]
      BY <1>3, <2>1, <2>2 DEF ept_entry
    <3> QED
      BY <2>1, <3>1 DEF EptCount
  <2>3. CASE ept.count # 0
    <3>1. PICK map, k, r : ept' = [ept EXCEPT !.count = n, !.map = map, !.kernel_phy = k,
                                              !.ramdisk_phy = r]
      BY <1>3, <2>1, <2>3 DEF ept_entry
    <3> QED
      BY <2>1, <3>1 DEF EptCount
  <2> QED
    BY <2>2, <2>3
<1>4. CASE OtherStep
  BY <1>1, <1>4 DEF OtherStep, dst_kernel, dst_ramdisk, dst_frames, copy_kernel, cmd_frame,
        copy_ramdisk, e820_find, e820_end, e820_high, e820_small, e820_kernel, e820_low,
        Give, Pass
<1>5. CASE QuietStep \/ TagStep \/ VmStep \/ FrameStep \/ EntryStep \/ ZeroStep \/ SearchStep
  BY <1>1, <1>2, <1>3, <1>5 DEF QuietStep, TagStep, VmStep, FrameStep, EntryStep, ZeroStep,
        SearchStep, gvars
<1> QED
  BY <1>4, <1>5, StepCases DEF StopStep
-----------------------------------------------------------------------------
(* No large page is left behind                                            *)

\* Page p is in a free run that begins below the end of the kernel.
KernelRun(p) == \E q \in 0 .. p : q * PG_SIZE < kernel_end /\ q .. p \subseteq mm_table

\* Every free large page below lim is.
NoLeft(lim) ==
    \A p \in Nat : p < lim /\ p % LARGE_PG = 0 /\ Bits(p, LARGE_PG) \subseteq mm_table
                       => KernelRun(p)

LeftInv ==
    /\ step \in Loop => NoLeft(Done)
    /\ step = "tables" /\ ept.count = 0 => \A lim \in Nat : NoLeft(lim)

\* The large pages of the range that was found: the step takes them, or the
\* range begins below the end of the kernel.
LEMMA RangeLeft ==
    ASSUME GuestBase, ScanInv, e820_high \/ e820_small \/ e820_kernel \/ e820_low,
           NoLeft(scan.from)
    PROVE  NoLeft(Done)'
<1> DEFINE s    == scan.start
           stop == scan.start + scan.size
<1>1. /\ step' = "e820" /\ vm' = vm /\ s \in Nat /\ scan.size \in Nat \ {0} /\ stop \in Nat
      /\ FirstRun(scan.from, s, stop) /\ scan.from \in Nat /\ mm_table \subseteq Nat
      /\ ScanType
  BY RangeStep DEF ScanInv, ScanType, LateMem
<1>2. PICK lim \in Int : lim = scan'.start + scan'.size /\ Done' = lim
  BY <1>1, RangeStep, RangeParts DEF Done
<1>3. SUFFICES ASSUME NEW p \in Nat, p < lim, p % LARGE_PG = 0,
                      Bits(p, LARGE_PG) \subseteq mm_table'
               PROVE  KernelRun(p)'
  BY <1>2 DEF NoLeft
<1>4. /\ mm_table' \subseteq mm_table
      /\ \A q \in mm_table : q < scan.from => q \in mm_table'
  <2>1. \/ mm_table' = mm_table
        \/ mm_table' = mm_table \ Bits(scan'.start, scan'.size)
    BY RangeStep
  <2>2. CASE mm_table' = mm_table
    BY <2>2
  <2>3. CASE mm_table' # mm_table
    <3>1. \/ scan'.start >= s /\ scan'.start \in Int /\ scan'.size \in Int
          \/ scan.from = 0
      BY <1>1, <2>3, RangeStep, RangeParts
    <3>2. ASSUME NEW q \in mm_table, q < scan.from
          PROVE  q \notin Bits(scan'.start, scan'.size)
      BY <1>1, <3>1, <3>2 DEF FirstRun, Bits
    <3> QED
      BY <2>1, <2>3, <3>2
  <2> QED
    BY <2>2, <2>3
<1>5. kernel_end' = kernel_end
  BY <1>1 DEF kernel_end, LINUX_ENTRY_POINT
<1>6. p \in mm_table'
  BY <1>3, Geometry DEF Bits
<1>7. CASE p < scan.from
  <2>1. KernelRun(p)
    BY <1>3, <1>4, <1>7 DEF NoLeft
  <2>2. PICK q \in 0 .. p : q * PG_SIZE < kernel_end /\ q .. p \subseteq mm_table
    BY <2>1 DEF KernelRun
  <2>3. q .. p \subseteq mm_table'
    BY <1>1, <1>4, <1>7, <2>2
  <2> QED
    BY <1>5, <2>2, <2>3 DEF KernelRun
<1>8. CASE p >= scan.from
  <2>1. s <= p
    BY <1>1, <1>4, <1>6, <1>8 DEF FirstRun
  <2>2. /\ Aligned \in Nat /\ Aligned <= p
        /\ Rest \in Int /\ Rest = stop - Aligned
        /\ Rest > 0 => Whole \in Nat /\ Whole <= Rest /\ Rest < Whole + LARGE_PG
    BY <1>1, <1>3, <2>1, RangeParts
  <2>3. CASE e820_high /\ lim = Aligned + Whole /\ mm_table' = mm_table \ Bits(Aligned, Whole)
                /\ Rest > 0
    BY <1>3, <1>6, <2>2, <2>3 DEF Bits
  <2>4. CASE Rest <= 0 /\ lim = Aligned + 0
    BY <1>3, <2>2, <2>4
  <2>5. CASE Rest > 0 /\ Whole = 0 /\ lim = Aligned + Rest /\ mm_table' = mm_table
    <3>a. PICK t \in Nat : t = stop
      BY <1>1
    <3>1. p < stop
      BY <1>3, <2>2, <2>5, <3>a
    <3>r. Rest < LARGE_PG
      BY <2>2, <2>5, Geometry
    <3>2. stop < p + LARGE_PG
      BY <2>2, <3>a, <3>r, Geometry
    <3>3. stop \in Bits(p, LARGE_PG)
      BY <1>1, <3>1, <3>2, Geometry DEF Bits
    <3> QED
      BY <1>1, <1>3, <2>5, <3>3 DEF FirstRun
  <2>6. CASE ~High /\ lim = stop /\ mm_table' = mm_table
    <3>1. s * PG_SIZE < kernel_end
      <4>1. kernel_end \in Int
        BY PhysAssumption DEF kernel_end, LINUX_ENTRY_POINT, GuestBase, VmType, Bytes
      <4>2. s * PG_SIZE \in Int
        BY <1>1, PhysAssumption
      <4> QED
        BY <2>6, <4>1, <4>2 DEF High
    <3>2. s .. p \subseteq mm_table
      BY <1>1, <1>3, <2>6 DEF FirstRun, FreeRun
    <3> QED
      BY <1>1, <1>5, <2>1, <2>6, <3>1, <3>2 DEF KernelRun
  <2>7. CASE /\ lim = stop
             /\ mm_table' = mm_table \ Bits(scan'.start, scan'.size)
             /\ scan'.start <= s /\ scan'.start \in Int /\ scan'.size \in Int
    <3>1. p \in Bits(scan'.start, scan'.size)
      BY <1>1, <1>2, <1>3, <2>1, <2>7 DEF Bits
    <3> QED
      BY <1>6, <2>7, <3>1
  <2>8. \/ /\ e820_high /\ lim = Aligned + Whole
           /\ mm_table' = mm_table \ Bits(Aligned, Whole) /\ Rest > 0
        \/ Rest <= 0 /\ lim = Aligned + 0
        \/ Rest > 0 /\ Whole = 0 /\ lim = Aligned + Rest /\ mm_table' = mm_table
        \/ ~High /\ lim = stop /\ mm_table' = mm_table
        \/ /\ lim = stop
           /\ mm_table' = mm_table \ Bits(scan'.start, scan'.size)
           /\ scan'.start <= s /\ scan'.start \in Int /\ scan'.size \in Int
    BY <1>1, <1>2, RangeStep
  <2> QED
    BY <2>3, <2>4, <2>5, <2>6, <2>7, <2>8
<1> QED
  BY <1>1, <1>7, <1>8

LEMMA NextLeftInv ==
    ASSUME SoundBoots, GuestBase, ScanInv, EptCount, LeftInv, [KernelNext]_all
    PROVE  LeftInv'
<1>1. CASE step' \notin Loop \cup {"tables"}
  BY <1>1 DEF LeftInv
<1>2. CASE step' = step /\ UNCHANGED <<vars, vm, scan, ept>>
  BY <1>2 DEF LeftInv, NoLeft, Done, KernelRun, kernel_end, LINUX_ENTRY_POINT, vars
<1>3. CASE copy_ramdisk
  <2>1. UNCHANGED <<scan, e820>> /\ step = "copy ramdisk" /\ step' = "e820"
    BY <1>3 DEF copy_ramdisk
  <2>2. scan = [from |-> 0, start |-> 0, size |-> 0, merge |-> TRUE]
    BY <2>1 DEF ScanInv, Early
  <2>3. scan'.start = 0 /\ scan'.size = 0
    BY <2>1, <2>2
  <2>4. step' = "e820"
    BY <2>1
  <2>5. Done' = 0
    BY <2>3, <2>4 DEF Done
  <2>6. NoLeft(Done)'
    BY <2>5 DEF NoLeft
  <2> QED
    BY <2>4, <2>6 DEF LeftInv
<1>4. CASE e820_find
  <2>1. step = "e820" /\ step' = "range" /\ UNCHANGED <<vars, vm>>
    BY <1>4 DEF e820_find
  <2>2. scan'.from = scan.start + scan.size
    BY <1>4 DEF e820_find, ScanInv, ScanType
  <2>3. Done' = Done
    BY <2>1, <2>2 DEF Done
  <2>4. NoLeft(Done)
    BY <2>1 DEF LeftInv, Loop
  <2>5. NoLeft(Done)'
    BY <2>1, <2>3, <2>4 DEF NoLeft, KernelRun, kernel_end, LINUX_ENTRY_POINT, vars
  <2> QED
    BY <2>1, <2>5 DEF LeftInv
<1>5. CASE e820_high \/ e820_small \/ e820_kernel \/ e820_low
  <2>1. step = "range" /\ step' = "e820"
    BY <1>5, RangeStep
  <2>2. NoLeft(scan.from)
    BY <2>1 DEF LeftInv, Loop, Done
  <2>3. NoLeft(Done)'
    BY <1>5, <2>2, RangeLeft
  <2> QED
    BY <2>1, <2>3 DEF LeftInv
<1>6. CASE e820_end
  <2>1. step = "range" /\ step' = "tables" /\ scan.size = 0 /\ UNCHANGED <<vars, vm, ept>>
    BY <1>6 DEF e820_end
  <2>2. NoLeft(scan.from) /\ \A p \in mm_table : p < scan.from
    BY <2>1 DEF LeftInv, Loop, Done, ScanInv, Found
  <2>3. \A p \in Nat : Bits(p, LARGE_PG) \subseteq mm_table => p < scan.from
    BY <2>2, Geometry DEF Bits
  <2>4. \A lim \in Nat : NoLeft(lim)
    BY <2>2, <2>3 DEF NoLeft
  <2>5. (\A lim \in Nat : NoLeft(lim))'
    BY <2>1, <2>4 DEF NoLeft, KernelRun, kernel_end, LINUX_ENTRY_POINT, vars
  <2> QED
    BY <2>1, <2>5 DEF LeftInv, Loop
<1>7. CASE ept_entry /\ step' \in {"tables", "entry"}
  <2>1. ept'.count = ept.count + 1
    BY <1>7 DEF ept_entry, EptCount
  <2>2. ept'.count # 0
    BY <2>1 DEF EptCount
  <2> QED
    BY <1>7, <2>2 DEF LeftInv, Loop
<1>8. CASE QuietStep \/ TagStep \/ VmStep \/ FrameStep \/ EntryStep \/ ZeroStep \/ StopStep
  <2>1. CASE step' # step
    BY <1>1, <1>7, <1>8, <2>1 DEF QuietStep, TagStep, VmStep, FrameStep, EntryStep, ZeroStep,
          StopStep, Stopped, Loop
  <2>2. CASE step' = step
    BY <1>1, <1>2, <1>7, <1>8, <2>2 DEF QuietStep, TagStep, VmStep, FrameStep, EntryStep, ZeroStep,
          StopStep, Stopped, Loop
  <2> QED
    BY <2>1, <2>2
<1>9. CASE SearchStep \/ dst_kernel \/ dst_ramdisk \/ copy_kernel \/ cmd_frame
  BY <1>1, <1>9 DEF SearchStep, dst_kernel, dst_ramdisk, dst_frames, copy_kernel, cmd_frame,
        gvars, Loop
<1> QED
  BY <1>3, <1>4, <1>5, <1>6, <1>8, <1>9, StepCases DEF OtherStep, GuestBase
-----------------------------------------------------------------------------
(* The inductive invariant of virt_setup_e820                              *)

CountInv == step \notin Stopped => EptCount

LoopInv == GuestBase /\ ScanInv /\ CountInv /\ LeftInv

LEMMA InitLoopInv == KernelInit => LoopInv
<1> SUFFICES ASSUME KernelInit PROVE LoopInv
  OBVIOUS
<1>1. GuestBase
  BY InitGuestBase
<1>2. step = "boot" /\ GuestInit
  BY DEF KernelInit, GuestInit
<1>3. CountInv
  BY <1>2 DEF GuestInit, CountInv, EptCount
<1>4. LeftInv
  BY <1>2 DEF LeftInv, Loop
<1>5. ScanInv
  BY <1>2 DEF GuestInit, ScanInv, ScanType
<1> QED
  BY <1>1, <1>3, <1>4, <1>5 DEF LoopInv

\* The code that has stopped stays so.
LEMMA StoppedStays ==
    ASSUME FrameInv, [KernelNext]_all, step \in Stopped
    PROVE  step' \in Stopped
<1> USE DEF Stopped
<1>1. CASE OtherStep
  BY <1>1 DEF OtherStep, dst_kernel, dst_ramdisk, dst_frames, copy_kernel, cmd_frame,
        copy_ramdisk, e820_find, e820_end, e820_high, e820_small, e820_kernel, e820_low
<1>2. CASE StopStep \/ QuietStep \/ TagStep \/ VmStep \/ FrameStep \/ EntryStep \/ SearchStep
           \/ ZeroStep
  BY <1>2 DEF StopStep, QuietStep, TagStep, VmStep, FrameStep, EntryStep, SearchStep, ZeroStep
<1> QED
  BY <1>1, <1>2, StepCases

LEMMA NextLoopInv ==
    ASSUME SoundBoots
    PROVE  LoopInv /\ [KernelNext]_all => LoopInv'
<1> SUFFICES ASSUME LoopInv, [KernelNext]_all PROVE LoopInv'
  OBVIOUS
<1>1. GuestBase' /\ ScanInv'
  BY NextGuestBase, NextScanInv DEF LoopInv
<1>2. CountInv'
  BY NextEptCount, StoppedStays DEF LoopInv, CountInv, GuestBase
<1>3. LeftInv'
  <2>1. CASE step' \in Stopped
    BY <2>1 DEF LeftInv, Stopped, Loop
  <2>2. CASE step' \notin Stopped
    BY <2>2, StoppedStays, NextLeftInv DEF LoopInv, CountInv, GuestBase
  <2> QED
    BY <2>1, <2>2
<1> QED
  BY <1>1, <1>2, <1>3 DEF LoopInv

\* The loop of virt_setup_e820 over the free ranges misses no large page that
\* could be the guest's, however the free ranges and the large pages lie: on
\* every machine whose modules are above the first MB, share no page with
\* anything else and are neither empty nor too large to be counted in a uint8_t.
THEOREM GuestNoLargePageLeft ==
    ASSUME SoundBoots
    PROVE  KernelSpec => []NoLargePageLeft
<1>1. LoopInv => NoLargePageLeft
  <2> SUFFICES ASSUME LoopInv, step = "tables", ept.count = 0,
                      NEW p \in 0 .. mm_limit - LARGE_PG, p % LARGE_PG = 0,
                      Bits(p, LARGE_PG) \subseteq mm_table
               PROVE  \E q \in 0 .. p : q * PG_SIZE < kernel_end /\ q .. p \subseteq mm_table
    BY DEF NoLargePageLeft
  <2>1. p \in Nat
    OBVIOUS
  <2>2. NoLeft(p + 1)
    BY <2>1 DEF LoopInv, LeftInv
  <2>3. KernelRun(p)
    BY <2>1, <2>2 DEF NoLeft
  <2> QED
    BY <2>3 DEF KernelRun
<1> QED
  BY <1>1, InitLoopInv, NextLoopInv, PTL DEF KernelSpec
-----------------------------------------------------------------------------
(* What a step of the set-up does to the frames                            *)

\* The steps before the frame of the zero page, before that of the command
\* line, and after both.
ToZero  == {"acpi", "config", "match", "aps", "virt", "percpu", "vmcs", "ept", "pdpt", "zero"}
ToCmd   == {"kernel", "copy kernel", "cmd"}
FromCmd == {"ramdisk", "copy ramdisk"} \cup Late

KeepsLow ==
    /\ vm'.zero = vm.zero /\ vm'.cmd = vm.cmd
    /\ step \in ToZero <=> step' \in ToZero
    /\ step \in ToCmd <=> step' \in ToCmd
    /\ step \in FromCmd <=> step' \in FromCmd

SameFrames == UNCHANGED <<mm_table, held>>

\* alloc_phys_frame, alloc_phys_frames_aligned, alloc_phys_frame_lowmem
HighTaken ==
    FrameStep /\ \E p \in mm_table :
        /\ M1 <= p /\ Take(p, 1)
        /\ FirstFrame(LOWMEM, entry_end) = {p}
        /\ \A q \in mm_table : M1 <= q => p <= q
LargeTaken ==
    SearchStep /\ \E b : /\ LargeBlock(b, op.num) /\ Pages(b) \subseteq mm_table
                         /\ Take(b.base, b.num)
LowTaken ==
    \/ ZeroStep
    \/ cmd_frame /\ vm' = [vm EXCEPT !.cmd = Min(FirstFrame(0, LOWMEM))]
LowTakes(p) ==
    /\ p < M1 /\ Take(p, 1)
    /\ Min(FirstFrame(0, LOWMEM)) = p
    /\ \A q \in mm_table : p <= q

\* No frame for the command line.
NoCmdFrame == cmd_frame /\ UNCHANGED <<vars, vm>> /\ FirstFrame(0, LOWMEM) = {}

\* The module of a copied image is given back; pages go to the guest.
Freed ==
    /\ copy_kernel \/ copy_ramdisk
    /\ held' = held
    /\ \E k \in Mods : mm_table' = mm_table \cup Inside(machine.mods[k])
GivenAway ==
    /\ e820_high \/ e820_low
    /\ held' = held /\ mm_table' \subseteq mm_table

LEMMA MemSteps ==
    ASSUME SoundBoots, GuestBase, [KernelNext]_all, step \in ToZero \cup ToCmd \cup FromCmd,
           step' \notin Stopped
    PROVE  /\ UNCHANGED <<entry_end, machine, boot>>
           /\ \/ KeepsLow /\ (SameFrames \/ HighTaken \/ LargeTaken \/ Freed \/ GivenAway)
              \/ LowTaken /\ \E p \in mm_table : LowTakes(p)
              \/ NoCmdFrame
<1> USE DEF GuestBase
<1>0. vm = [img |-> vm.img, extra |-> vm.extra, zero |-> vm.zero, cmd |-> vm.cmd,
            before |-> vm.before]
  BY DEF VmType
<1>g. step \in Early \cup Late /\ step # "boot" /\ (step \in Early => EarlyMem /\ boot.phase = "run")
  BY DEF MemInv, Early, BeforeCopy, Late, Loop, ToZero, ToCmd, FromCmd
<1>t. mm_table \subseteq Nat /\ entry_end \in Nat /\ TableEnds
  BY <1>g, TableOfPages, LateTable, TableEndsInRun DEF MemInv, EarlyMem
<1>1. CASE QuietStep \/ EntryStep
  BY <1>1 DEF QuietStep, EntryStep, vars, KeepsLow, SameFrames, ToZero, ToCmd, FromCmd, Late, Loop
<1>2. CASE VmStep
  <2>1. /\ vm' = [vm EXCEPT !.img = ModuleRange(mod[1]), !.extra = ModuleRange(mod[2])]
        /\ UNCHANGED vars /\ step = "virt" /\ step' = "percpu"
    BY <1>2 DEF VmStep
  <2>2. vm'.zero = vm.zero /\ vm'.cmd = vm.cmd
    BY <1>0, <2>1
  <2> QED
    BY <2>1, <2>2 DEF vars, KeepsLow, SameFrames, ToZero, ToCmd, FromCmd, Late, Loop
<1>3. CASE FrameStep
  <2>1. alloc_phys_frame /\ vm' = vm
    BY <1>3 DEF FrameStep
  <2>2. UNCHANGED <<entry_end, machine, boot>>
    BY <1>t, <2>1, HighFrameIs
  <2>3. PICK p \in mm_table :
           /\ M1 <= p /\ Take(p, 1)
           /\ FirstFrame(LOWMEM, entry_end) = {p}
           /\ \A q \in mm_table : M1 <= q /\ q < entry_end * WORD => p <= q
    BY <1>t, <2>1, HighFrameIs
  <2>4. \A q \in mm_table : q < entry_end * WORD
    BY <1>t, PhysAssumption DEF TableEnds
  <2>5. HighTaken
    BY <1>3, <2>3, <2>4 DEF HighTaken
  <2>6. KeepsLow
    BY <1>3, <2>1 DEF FrameStep, KeepsLow, ToZero, ToCmd, FromCmd, Late, Loop
  <2> QED
    BY <2>2, <2>5, <2>6
<1>4. CASE SearchStep
  <2>1. /\ step' = step /\ vm' = vm /\ step \in {"copy kernel", "copy ramdisk"}
        /\ UNCHANGED <<entry_end, machine, boot>>
    BY <1>4 DEF SearchStep, gvars, aligned_skip_entry, aligned_try, aligned_fail
  <2>2. KeepsLow
    BY <2>1 DEF KeepsLow
  <2>3. EarlyMem
    BY <1>g, <2>1 DEF Early, BeforeCopy
  <2>4. op.kind = "aligned"
    BY <1>4 DEF SearchStep, aligned_skip_entry, aligned_try, aligned_fail
  <2>5. op \in Search /\ op.num \in Nat \ {0}
    BY <2>3, <2>4 DEF EarlyMem, IInv, TypeInv, TypeOK, NoSearch, Search
  <2>6. SameFrames \/ LargeTaken
    <3>1. ASSUME NEW p \in AlignedCandidate(op.pos), NEW cur \in AlignedEnd(p, op.num),
                 cur = p + op.num, Take(p, op.num)
          PROVE  LargeTaken
      <4>1. p \in Nat /\ p % LARGE_PG = 0 /\ LARGE_PG <= p
        BY <2>3, <2>4, <3>1, AlignedPass, Geometry DEF EarlyMem, IInv, TypeInv
      <4>2. Bits(p, op.num) \subseteq mm_table
        BY <2>5, <3>1, <4>1, FullAlignedRunIsFree
      <4>3. PICK b : b = [base |-> p, num |-> op.num]
        OBVIOUS
      <4>4. b \in Blocks /\ b.num = op.num /\ b.base = p
        BY <2>5, <4>1, <4>3 DEF Blocks
      <4> QED
        BY <1>4, <3>1, <4>1, <4>2, <4>4 DEF LargeTaken, LargeBlock, Pages
    <3>2. CASE aligned_try
      BY <3>1, <3>2 DEF aligned_try, SameFrames
    <3>3. CASE aligned_skip_entry \/ aligned_fail
      BY <3>3 DEF aligned_skip_entry, aligned_fail, SameFrames
    <3> QED
      BY <1>4, <3>2, <3>3 DEF SearchStep
  <2> QED
    BY <2>1, <2>2, <2>6
<1>5. CASE ZeroStep \/ cmd_frame
  <2>1. CASE alloc_phys_frame_lowmem
    <3>0. FirstFrame(0, LOWMEM) # {}
      BY <2>1 DEF alloc_phys_frame_lowmem
    <3>1. LowTaken
      BY <1>5, <3>0 DEF LowTaken, cmd_frame
    <3>2. \E p \in mm_table : LowTakes(p)
      BY <1>t, <2>1, LowFrameIs DEF LowTakes
    <3> QED
      BY <1>t, <2>1, <3>1, <3>2, LowFrameIs
  <2>2. CASE ~alloc_phys_frame_lowmem
    BY <1>5, <2>2 DEF ZeroStep, cmd_frame, NoCmdFrame, vars
  <2> QED
    BY <2>1, <2>2
<1>6. CASE dst_kernel \/ dst_ramdisk
  <2>1. /\ vm' = [vm EXCEPT !.before = held]
        /\ UNCHANGED <<mm_table, held, entry_end, machine, boot>>
        /\ \/ step = "kernel" /\ step' = "copy kernel"
           \/ step = "ramdisk" /\ step' = "copy ramdisk"
    BY <1>6 DEF dst_kernel, dst_ramdisk, dst_frames, alloc_phys_frames_aligned
  <2>2. vm'.zero = vm.zero /\ vm'.cmd = vm.cmd
    BY <1>0, <2>1
  <2> QED
    BY <2>1, <2>2 DEF KeepsLow, SameFrames, ToZero, ToCmd, FromCmd, Late, Loop
<1>7. CASE copy_kernel
  <2>1. step \in ToCopy /\ step \in Early \ {"boot"} /\ step = "copy kernel" /\ step' = "cmd"
    BY <1>7 DEF copy_kernel, ToCopy, Early, BeforeCopy
  <2>2. PICK k \in Mods : Image(k) /\ Touched(machine.mods[k]) \subseteq reserved
    BY <2>1, VmModules
  <2>3. vm.img.addr = machine.mods[k].addr /\ vm.img.len = machine.mods[k].len
    BY <2>2 DEF Image, ModuleRange
  <2>4. /\ physical_free_range(machine.mods[k].addr, machine.mods[k].len)
        /\ UNCHANGED <<mm_limit, entry_end, op, held, machine, boot>>
        /\ op = Idle
    BY <1>7, <2>3 DEF copy_kernel
  <2>5. EarlyMem /\ boot.phase = "run"
    BY <1>g, <2>1
  <2>6. mm_table' = mm_table \cup Inside(machine.mods[k])
    BY <2>2, <2>4, <2>5, CopyFrees DEF physical_free_range
  <2>7. PICK img : vm' = [vm EXCEPT !.img = img]
    BY <1>7 DEF copy_kernel
  <2>8. vm'.zero = vm.zero /\ vm'.cmd = vm.cmd
    BY <1>0, <2>7
  <2>9. KeepsLow
    BY <2>1, <2>8 DEF KeepsLow, ToZero, ToCmd, FromCmd, Late, Loop
  <2> QED
    BY <1>7, <2>4, <2>6, <2>9 DEF Freed
<1>8. CASE copy_ramdisk
  <2>1. step \in Early \ {"boot"} /\ step = "copy ramdisk" /\ step' = "e820"
    BY <1>8 DEF copy_ramdisk, Early
  <2>2. PICK k \in Mods : Ramdisk(k) /\ Touched(machine.mods[k]) \subseteq reserved
    BY <2>1 DEF CopyInv
  <2>3. vm.extra.addr = machine.mods[k].addr /\ vm.extra.len = machine.mods[k].len
    BY <2>2 DEF Ramdisk, ModuleRange
  <2>4. /\ physical_free_range(machine.mods[k].addr, machine.mods[k].len)
        /\ UNCHANGED <<mm_limit, entry_end, op, held, machine, boot>>
        /\ op = Idle
    BY <1>8, <2>3 DEF copy_ramdisk
  <2>5. EarlyMem /\ boot.phase = "run"
    BY <1>g, <2>1
  <2>6. mm_table' = mm_table \cup Inside(machine.mods[k])
    BY <2>2, <2>4, <2>5, CopyFrees DEF physical_free_range
  <2>7. PICK addr : vm' = [vm EXCEPT !.extra.addr = addr]
    BY <1>8 DEF copy_ramdisk
  <2>8. vm'.zero = vm.zero /\ vm'.cmd = vm.cmd
    BY <1>0, <2>7
  <2>9. KeepsLow
    BY <2>1, <2>8 DEF KeepsLow, ToZero, ToCmd, FromCmd, Late, Loop
  <2> QED
    BY <1>8, <2>4, <2>6, <2>9 DEF Freed
<1>9. CASE e820_find \/ e820_end \/ e820_small \/ e820_kernel
  <2>1. UNCHANGED <<vars, vm>> /\ step \in Loop /\ step' \in Late
    BY <1>9 DEF e820_find, e820_end, e820_small, e820_kernel, Pass, Loop, Late
  <2> QED
    BY <2>1 DEF vars, KeepsLow, SameFrames, ToZero, ToCmd, FromCmd, Late, Loop
<1>10. CASE e820_high \/ e820_low
  <2>1. /\ UNCHANGED <<held, entry_end, machine, boot, vm>> /\ step \in Loop /\ step' \in Late
        /\ mm_table' \subseteq mm_table
    BY <1>10 DEF e820_high, e820_low, Give, physical_take_range, Loop, Late
  <2>2. KeepsLow
    BY <2>1 DEF KeepsLow, ToZero, ToCmd, FromCmd, Late, Loop
  <2> QED
    BY <1>10, <2>1, <2>2 DEF GivenAway
<1>11. CASE OtherStep
  BY <1>5, <1>6, <1>7, <1>8, <1>9, <1>10, <1>11 DEF OtherStep
<1>12. ~StopStep /\ ~TagStep
  BY DEF StopStep, TagStep, ToZero, ToCmd, FromCmd, Late, Loop
<1> QED
  BY <1>1, <1>2, <1>3, <1>4, <1>5, <1>11, <1>12, StepCases
-----------------------------------------------------------------------------
(* No memory is lost                                                       *)

\* The regions of the map that kernel_main has seen are in the table; then all
\* memory it does not take is free or handed out until virt_setup_e820.
CompleteInv ==
    step \in Early =>
        IF boot.phase = "map"
        THEN \A k \in 1 .. Len(machine.map) :
                machine.map[k].available /\ k < boot.index =>
                    Inside(machine.map[k]) \subseteq mm_table
        ELSE MapPages(machine) \ Taken(machine) \subseteq mm_table \cup HeldPages

LEMMA TakenKept ==
    ASSUME NEW m \in Machines, NEW r, ByteRange(r), Touched(r) \subseteq Taken(m),
           NEW T
    PROVE  (MapPages(m) \ Taken(m)) \cap T = (MapPages(m) \ Taken(m)) \cap (T \ take_bits(r.addr, r.len))
<1> SUFFICES ASSUME NEW p \in MapPages(m) \ Taken(m), p \in take_bits(r.addr, r.len)
             PROVE  FALSE
  OBVIOUS
<1>1. p \in 0 .. MM_TABLE_MAX * WORD - 1
  BY DEF MapPages, Inside
<1>2. p < MM_TABLE_MAX * WORD
  BY <1>1, PhysAssumption
<1> QED
  BY <1>2, TakenPages

LEMMA ZeroPage == ByteRange([addr |-> 0, len |-> PG_SIZE]) /\ Touched([addr |-> 0, len |-> PG_SIZE]) \subseteq {0}
<1> DEFINE r == [addr |-> 0, len |-> PG_SIZE]
<1>1. ByteRange(r)
  BY PhysAssumption DEF ByteRange
<1>2. ASSUME NEW p \in Touched(r)
      PROVE  p = 0
  <2>1. p \in Int /\ 0 <= p /\ p * PG_SIZE < PG_SIZE
    BY <1>2, PhysAssumption DEF Touched
  <2>2. ASSUME p >= 1 PROVE FALSE
    <3>1. PG_SIZE * 1 <= PG_SIZE * p
      BY <2>1, <2>2, MulLe, PhysAssumption
    <3> QED
      BY <2>1, <3>1, PhysAssumption
  <2> QED
    BY <2>1, <2>2
<1> QED
  BY <1>1, <1>2

LEMMA TagComplete ==
    ASSUME SoundBoots, GuestBase, CompleteInv, TagStep
    PROVE  CompleteInv'
<1>1. EarlyMem /\ step = "boot" /\ step \in Early /\ step' \in Early
  BY DEF TagStep, GuestBase, MemInv, Early, BeforeCopy
<1>3. machine \in Machines /\ SoundMachine(machine) /\ boot \in Boot
  BY <1>1 DEF EarlyMem, IInv, TypeInv, TypeOK, SoundBoots
<1>2. Len(machine.map) \in Nat
  BY <1>3, MachineAssumption
<1>4. CASE boot_map_entry
  <2>1. /\ boot.phase = "map" /\ boot.index <= Len(machine.map) /\ boot.index \in 1 .. Len(machine.map)
        /\ machine' = machine
    BY <1>3, <1>4, <1>2 DEF boot_map_entry, Boot
  <2> DEFINE e == machine.map[boot.index]
  <2>2. PICK n \in Nat : n = boot.index + 1
    BY <1>3 DEF Boot
  <2>3. boot'.phase = "map" /\ boot'.index = n
    <3>0. boot = [phase |-> "map", index |-> boot.index, mem_limit |-> boot.mem_limit]
      BY <1>3, <2>1 DEF Boot
    <3>1. CASE e.available
      <4>1. PICK l : boot' = [boot EXCEPT !.index = n, !.mem_limit = l]
        BY <1>4, <2>2, <3>1 DEF boot_map_entry
      <4> QED
        BY <3>0, <4>1
    <3>2. CASE ~e.available
      <4>1. boot' = [boot EXCEPT !.index = n]
        BY <1>4, <2>2, <3>2 DEF boot_map_entry
      <4> QED
        BY <3>0, <4>1
    <3> QED
      BY <3>1, <3>2
  <2>4. mm_table \subseteq mm_table' /\ (e.available => Inside(e) \subseteq mm_table')
    <3>1. CASE e.available
      <4>1. mm_table' = mm_table \cup free_bits(e.addr, e.len)
        BY <1>4, <3>1 DEF boot_map_entry, physical_free_range
      <4>2. /\ ByteRange(e) /\ e.addr + e.len <= ((MM_TABLE_MAX - 1) * WORD) * PG_SIZE
            /\ ((MM_TABLE_MAX - 1) * WORD) * PG_SIZE < ADDR
            /\ \/ e.addr % PG_SIZE = 0
               \/ (e.addr \div PG_SIZE + 1) * PG_SIZE <= e.addr + e.len
        BY <1>3, <2>1, <3>1, MachineAssumption DEF SoundMachine
      <4>3. Inside(e) \subseteq free_bits(e.addr, e.len)
        <5> HIDE DEF e
        <5> QED
          BY <4>2, FreeIsInside
      <4> QED
        BY <4>1, <4>3
    <3>2. CASE ~e.available
      BY <1>4, <3>2 DEF boot_map_entry
    <3> QED
      BY <3>1, <3>2
  <2>5. \A k \in 1 .. Len(machine.map) :
            machine.map[k].available /\ k < boot.index => Inside(machine.map[k]) \subseteq mm_table
    BY <1>1, <2>1 DEF CompleteInv
  <2>6. ASSUME NEW k \in 1 .. Len(machine.map), machine.map[k].available, k < n
        PROVE  Inside(machine.map[k]) \subseteq mm_table'
    <3>1. k < boot.index \/ k = boot.index
      BY <1>3, <2>2, <2>6 DEF Boot
    <3> QED
      BY <2>4, <2>5, <2>6, <3>1
  <2> QED
    BY <2>1, <2>3, <2>6 DEF CompleteInv
<1>5. CASE boot_limit
  <2>1. /\ boot.phase = "map" /\ boot.index > Len(machine.map)
        /\ UNCHANGED <<machine, mm_table, held>> /\ boot' = [boot EXCEPT !.phase = "zero"]
    BY <1>5 DEF boot_limit
  <2>2. boot'.phase = "zero"
    BY <1>3, <2>1 DEF Boot
  <2>3. \A k \in 1 .. Len(machine.map) :
            machine.map[k].available => Inside(machine.map[k]) \subseteq mm_table
    BY <1>1, <1>3, <1>2, <2>1 DEF CompleteInv, Boot
  <2>4. MapPages(machine) \subseteq mm_table
    BY <2>3 DEF MapPages
  <2> QED
    BY <2>1, <2>2, <2>4 DEF CompleteInv
<1>6. ASSUME NEW r, ByteRange(r), Touched(r) \subseteq Taken(machine), boot.phase # "map",
             physical_take_range(r.addr, r.len), boot'.phase # "map", UNCHANGED <<machine, held>>
      PROVE  CompleteInv'
  <2>1. MapPages(machine) \ Taken(machine) \subseteq mm_table \cup HeldPages
    BY <1>1, <1>6 DEF CompleteInv
  <2>2. PICK S : S = MapPages(machine) \ Taken(machine)
    OBVIOUS
  <2>3. S \cap mm_table = S \cap mm_table'
    BY <1>3, <1>6, <2>2, TakenKept DEF physical_take_range
  <2>4. HeldPages' = HeldPages
    BY <1>6 DEF HeldPages
  <2>5. S \subseteq mm_table' \cup HeldPages'
    BY <2>1, <2>2, <2>3, <2>4
  <2> QED
    BY <1>6, <2>2, <2>5 DEF CompleteInv
<1>7. CASE boot_take_zero
  <2>1. /\ boot.phase = "zero" /\ physical_take_range(0, PG_SIZE)
        /\ boot' = [boot EXCEPT !.phase = "kernel"] /\ UNCHANGED <<machine, held>>
    BY <1>7 DEF boot_take_zero
  <2>2. boot'.phase = "kernel"
    BY <1>3, <2>1 DEF Boot
  <2>3. PICK r : r = [addr |-> 0, len |-> PG_SIZE]
    OBVIOUS
  <2>4. r.addr = 0 /\ r.len = PG_SIZE /\ ByteRange(r) /\ Touched(r) \subseteq Taken(machine)
    BY <2>3, ZeroPage DEF Taken
  <2> QED
    BY <1>6, <2>1, <2>2, <2>4
<1>8. CASE boot_take_kernel
  <2>1. /\ boot.phase = "kernel" /\ physical_take_range(machine.kernel.addr, machine.kernel.len)
        /\ boot' = [boot EXCEPT !.phase = "mods", !.index = 1] /\ UNCHANGED <<machine, held>>
    BY <1>8 DEF boot_take_kernel
  <2>2. boot'.phase = "mods"
    BY <1>3, <2>1 DEF Boot
  <2>3. ByteRange(machine.kernel) /\ Touched(machine.kernel) \subseteq Taken(machine)
    BY <1>3, MachineAssumption DEF Taken
  <2> QED
    BY <1>6, <2>1, <2>2, <2>3
<1>9. CASE boot_take_module
  <2>1. /\ boot.phase = "mods" /\ boot.index <= Len(machine.mods)
        /\ physical_take_range(machine.mods[boot.index].addr, machine.mods[boot.index].len)
        /\ boot' = [boot EXCEPT !.index = boot.index + 1] /\ UNCHANGED <<machine, held>>
    BY <1>9 DEF boot_take_module
  <2>2. boot'.phase = "mods" /\ boot.index \in 1 .. Len(machine.mods)
    BY <1>3, <2>1, MachineAssumption DEF Boot
  <2>3. ByteRange(machine.mods[boot.index]) /\ Touched(machine.mods[boot.index]) \subseteq Taken(machine)
    BY <1>3, <2>2, MachineAssumption DEF Taken
  <2> QED
    BY <1>6, <2>1, <2>2, <2>3
<1>10. CASE boot_done
  <2>1. /\ boot.phase = "mods" /\ boot' = [boot EXCEPT !.phase = "run"]
        /\ UNCHANGED <<machine, held, mm_table>>
    BY <1>10 DEF boot_done
  <2>2. boot'.phase = "run" /\ HeldPages' = HeldPages
    BY <1>3, <2>1 DEF Boot, HeldPages
  <2> QED
    BY <1>1, <2>1, <2>2 DEF CompleteInv
<1> QED
  BY <1>4, <1>5, <1>7, <1>8, <1>9, <1>10 DEF TagStep
\* Nothing leads back to an earlier part of the bring-up.
LEMMA StepOrder ==
    ASSUME FrameInv, [KernelNext]_all
    PROVE  /\ step' \in Early => step \in Early
           /\ step' \in Early \cup Late => step \in Early \cup Late
           /\ step' \in Late => step \in Late \/ copy_ramdisk
           /\ step' = "boot" => step = "boot"
<1> USE DEF Early, BeforeCopy, Late, Loop
<1>1. CASE OtherStep
  BY <1>1 DEF OtherStep, dst_kernel, dst_ramdisk, dst_frames, copy_kernel, cmd_frame,
        copy_ramdisk, e820_find, e820_end, e820_high, e820_small, e820_kernel, e820_low, Give, Pass
<1>2. CASE StopStep \/ SearchStep \/ ZeroStep \/ TagStep \/ VmStep \/ EntryStep
  BY <1>2 DEF StopStep, Stopped, SearchStep, ZeroStep, TagStep, VmStep, EntryStep, gvars
<1>3. CASE QuietStep
  BY <1>3 DEF QuietStep
<1>4. CASE FrameStep
  BY <1>4 DEF FrameStep
<1> QED
  BY <1>1, <1>2, <1>3, <1>4, StepCases

\* A block is taken: its pages are handed out.
LEMMA TakeHeld ==
    ASSUME mm_table \subseteq Nat, NEW p \in Nat, NEW num \in Nat \ {0}, Take(p, num)
    PROVE  /\ HeldPages' = HeldPages \cup Bits(p, num)
           /\ mm_table' = mm_table \ Bits(p, num)
BY TakenBlock DEF Take

\* A step of the set-up loses no memory before virt_setup_e820 gives it away.
LEMMA KeepsPages ==
    ASSUME SoundBoots, GuestBase, [KernelNext]_all, step \in ToZero \cup ToCmd \cup FromCmd,
           step' \notin Stopped
    PROVE  GivenAway \/ mm_table \cup HeldPages \subseteq mm_table' \cup HeldPages'
<1>1. mm_table \subseteq Nat
  BY TableOfPages DEF GuestBase, ToZero, ToCmd, FromCmd, Early, BeforeCopy, Late, Loop
<1>2. CASE SameFrames \/ NoCmdFrame
  BY <1>2 DEF SameFrames, NoCmdFrame, HeldPages, vars
<1>3. CASE HighTaken
  <2>1. PICK p \in mm_table : Take(p, 1)
    BY <1>3 DEF HighTaken
  <2> QED
    BY <1>1, <2>1, TakeHeld
<1>4. CASE LargeTaken
  <2>1. PICK b : LargeBlock(b, op.num) /\ Take(b.base, b.num)
    BY <1>4 DEF LargeTaken
  <2>2. b.base \in Nat /\ b.num \in Nat \ {0}
    BY <2>1 DEF LargeBlock, Blocks
  <2> QED
    BY <1>1, <2>1, <2>2, TakeHeld
<1>5. ASSUME NEW p \in mm_table, LowTakes(p)
      PROVE  mm_table \cup HeldPages \subseteq mm_table' \cup HeldPages'
  BY <1>1, <1>5, TakeHeld DEF LowTakes
<1>6. CASE Freed
  BY <1>6 DEF Freed, HeldPages
<1> QED
  BY <1>2, <1>3, <1>4, <1>5, <1>6, MemSteps

LEMMA NextCompleteInv ==
    ASSUME SoundBoots, GuestBase, CompleteInv, [KernelNext]_all
    PROVE  CompleteInv'
<1> SUFFICES ASSUME step' \in Early PROVE CompleteInv'
  BY DEF CompleteInv
<1>1. step \in Early /\ (step' = "boot" => step = "boot")
  BY StepOrder DEF GuestBase
<1>2. CASE step = "boot"
  <2>1. TagStep \/ QuietStep
    <3>1. ~StopStep
      BY DEF StopStep, Stopped, Early, BeforeCopy
    <3>2. ~OtherStep
      BY <1>2 DEF OtherStep, dst_kernel, dst_ramdisk, dst_frames, copy_kernel, cmd_frame,
            copy_ramdisk, e820_find, e820_end, e820_high, e820_small, e820_kernel, e820_low
    <3>3. ~(VmStep \/ FrameStep \/ EntryStep \/ SearchStep \/ ZeroStep)
      BY <1>2 DEF VmStep, FrameStep, EntryStep, SearchStep, ZeroStep
    <3> QED
      BY <3>1, <3>2, <3>3, StepCases DEF GuestBase
  <2>2. CASE QuietStep
    BY <1>1, <2>2 DEF QuietStep, CompleteInv, HeldPages, vars
  <2> QED
    BY <2>1, <2>2, TagComplete
<1>3. CASE step # "boot"
  <2>1. step \in ToZero \cup ToCmd \cup FromCmd /\ boot.phase = "run" /\ step' \notin Stopped
    BY <1>1, <1>3 DEF Early, BeforeCopy, ToZero, ToCmd, FromCmd, Stopped, GuestBase, MemInv
  <2>2. UNCHANGED <<machine, boot>>
    BY <2>1, MemSteps
  <2>3. ~GivenAway
    BY DEF GivenAway, e820_high, e820_low, Give, Early, BeforeCopy
  <2>4. mm_table \cup HeldPages \subseteq mm_table' \cup HeldPages'
    BY <2>1, <2>3, KeepsPages
  <2>5. MapPages(machine) \ Taken(machine) \subseteq mm_table \cup HeldPages
    BY <1>1, <2>1 DEF CompleteInv
  <2>6. PICK S : S = MapPages(machine) \ Taken(machine)
    OBVIOUS
  <2>7. S \subseteq mm_table' \cup HeldPages'
    BY <2>4, <2>5, <2>6
  <2> QED
    BY <2>1, <2>2, <2>6, <2>7 DEF CompleteInv
<1> QED
  BY <1>2, <1>3
-----------------------------------------------------------------------------
(* Low memory                                                              *)

Frame(p) == [base |-> p, num |-> 1]

\* Nothing in low memory is handed out but zero_frame and cmd_frame.
HeldInv ==
    step \in Early \cup Late =>
        \A b \in held : M1 <= b.base \/ (b = Frame(b.base) /\ b.base \in {vm.zero, vm.cmd})

\* zero_frame and cmd_frame are the lowest pages kernel_main has left in low
\* memory.  If there is only one cmd_frame is 0.
ZeroIs == vm.zero \in Least(LowPages(machine)) /\ Frame(vm.zero) \in held
CmdIs  ==
    \/ vm.cmd \in Least(LowPages(machine) \ {vm.zero}) /\ Frame(vm.cmd) \in held
    \/ vm.cmd = 0 /\ LowPages(machine) = {vm.zero}
LowFrames ==
    /\ step \in {"boot"} \cup ToZero => vm.zero = 0 /\ vm.cmd = 0
    /\ step \in ToCmd => ZeroIs /\ vm.cmd = 0
    /\ step \in FromCmd => ZeroIs /\ CmdIs

\* virt_setup_e820 gives away the low memory that is free.
LowFree ==
    /\ step \in Loop =>
           \A p \in Nat : p < M1 =>
               (p \in mm_table <=> p \in LowPages(machine) \ {vm.zero, vm.cmd} /\ Done <= p)
    /\ step \in Late \ Loop => \A p \in mm_table : M1 <= p

LEMMA LowPagesAre ==
    ASSUME NEW m \in Machines
    PROVE  /\ LowPages(m) \subseteq MapPages(m) /\ LowPages(m) \subseteq Nat
           /\ 0 \notin LowPages(m) /\ LowPages(m) \cap Touched(m.kernel) = {}
           /\ \A p \in LowPages(m) : p < M1
BY DEF LowPages, MapPages, Inside, Taken, M1

\* The modules are above low memory.
LEMMA ModulesAbove ==
    ASSUME SoundBoots, NEW m \in Machines, NEW k \in 1 .. Len(m.mods), NEW p \in Touched(m.mods[k])
    PROVE  p \in Nat /\ M1 <= p
<1> DEFINE r == m.mods[k]
<1>1. ByteRange(r) /\ LINUX_ENTRY_POINT <= r.addr
  BY MachineAssumption DEF SoundBoots, SoundModules
<1>2. p \in Nat /\ r.addr < (p + 1) * PG_SIZE
  BY PhysAssumption DEF Touched
<1>3. M1 * PG_SIZE <= r.addr /\ r.addr \in Nat
  BY <1>1 DEF LINUX_ENTRY_POINT, M1, ByteRange
<1>4. M1 \in Nat
  BY Geometry
<1>5. ASSUME p + 1 <= M1 PROVE FALSE
  <2>1. PG_SIZE * (p + 1) <= PG_SIZE * M1
    BY <1>2, <1>4, <1>5, MulLe, PhysAssumption
  <2>2. PG_SIZE * (p + 1) = (p + 1) * PG_SIZE /\ PG_SIZE * M1 = M1 * PG_SIZE
    BY <1>2, <1>4, PhysAssumption
  <2>3. M1 * PG_SIZE \in Nat /\ (p + 1) * PG_SIZE \in Nat
    BY <1>2, <1>4, PhysAssumption
  <2> QED
    BY <1>2, <1>3, <2>1, <2>2, <2>3
<1> QED
  BY <1>2, <1>4, <1>5

\* The free pages of low memory before virt_setup_e820.
LEMMA EarlyLow ==
    ASSUME SoundBoots, GuestBase, CompleteInv, HeldInv, step \in Early \ {"boot"},
           vm.zero # 0 => Frame(vm.zero) \in held, vm.cmd # 0 => Frame(vm.cmd) \in held
    PROVE  \A p \in Nat : p < M1 =>
               (p \in mm_table <=> p \in LowPages(machine) \ {vm.zero, vm.cmd})
<1>1. EarlyMem /\ boot.phase = "run" /\ machine \in Machines /\ held \subseteq Blocks
  BY TableOfPages DEF GuestBase, MemInv, EarlyMem
<1>2. /\ HeldPages \cap mm_table = {} /\ mm_table \cup HeldPages \subseteq MapPages(machine)
      /\ 0 \in reserved /\ Touched(machine.kernel) \subseteq reserved
      /\ reserved \cap (mm_table \cup HeldPages) = {}
  BY <1>1 DEF EarlyMem, IInv, FramesApart, UsableInv
<1>3. MapPages(machine) \ Taken(machine) \subseteq mm_table \cup HeldPages
  BY <1>1 DEF CompleteInv
<1>4. \A k \in 1 .. Len(machine.mods) : \A p \in Touched(machine.mods[k]) : M1 <= p
  BY <1>1, ModulesAbove
<1>5. M1 \in Nat /\ M1 = LOWMEM * WORD
  BY Geometry DEF M1
<1>6. ASSUME NEW p \in Nat, p < M1
      PROVE  p \in LowPages(machine) <=> p \in mm_table \cup HeldPages
  <2>1. CASE p \in LowPages(machine)
    BY <1>3, <2>1 DEF LowPages
  <2>2. CASE p \in mm_table \cup HeldPages
    <3>0. ~(M1 <= p)
      BY <1>5, <1>6
    <3>1. \A k \in 1 .. Len(machine.mods) : p \notin Touched(machine.mods[k])
      BY <1>4, <3>0
    <3>2. p \notin {0} \cup Touched(machine.kernel)
      BY <1>2, <2>2
    <3>3. p \notin Taken(machine)
      BY <3>1, <3>2 DEF Taken
    <3> QED
      BY <1>2, <1>5, <1>6, <2>2, <3>3 DEF LowPages
  <2> QED
    BY <2>1, <2>2
<1>7. ASSUME NEW p \in HeldPages, p < M1
      PROVE  p \in {vm.zero, vm.cmd}
  <2>1. PICK b \in held : p \in Bits(b.base, b.num)
    BY DEF HeldPages, Pages
  <2>2. b.base \in Nat /\ b.num \in Nat
    BY <1>1 DEF Blocks
  <2>3. b.base <= p /\ p \in Int
    BY <2>1, <2>2 DEF Bits
  <2>4. b = Frame(b.base) /\ b.base \in {vm.zero, vm.cmd}
    BY <1>5, <1>7, <2>2, <2>3 DEF HeldInv
  <2>5. b.num = 1
    BY <2>4 DEF Frame
  <2>6. p = b.base
    BY <2>1, <2>2, <2>5 DEF Bits
  <2> QED
    BY <2>4, <2>6
<1>8. ASSUME NEW q, q \in Nat, Frame(q) \in held
      PROVE  q \in HeldPages
  <2>1. q \in Bits(q, 1)
    BY <1>8 DEF Bits
  <2>2. Pages(Frame(q)) = Bits(q, 1)
    BY DEF Pages, Frame
  <2> QED
    BY <1>8, <2>1, <2>2 DEF HeldPages
<1>9. vm.zero \in Nat /\ vm.cmd \in Nat
  BY DEF GuestBase, VmType
<1>10. {vm.zero, vm.cmd} \subseteq HeldPages \cup {0}
  BY <1>8, <1>9
<1>11. 0 \notin LowPages(machine)
  BY <1>1, LowPagesAre
<1> QED
  BY <1>2, <1>6, <1>7, <1>10, <1>11
LEMMA NextHeldInv ==
    ASSUME SoundBoots, GuestBase, HeldInv, LowFrames, [KernelNext]_all
    PROVE  HeldInv'
<1> SUFFICES ASSUME step' \in Early \cup Late PROVE HeldInv'
  BY DEF HeldInv
<1>1. step \in Early \cup Late
  BY StepOrder DEF GuestBase
<1>2. \A b \in held : M1 <= b.base \/ (b = Frame(b.base) /\ b.base \in {vm.zero, vm.cmd})
  BY <1>1 DEF HeldInv
<1>3. CASE UNCHANGED <<held, vm>>
  BY <1>2, <1>3 DEF HeldInv
<1>4. CASE step = "boot"
  <2>1. ~(StopStep \/ VmStep \/ FrameStep \/ EntryStep \/ SearchStep \/ ZeroStep \/ OtherStep)
    BY <1>4 DEF StopStep, Stopped, VmStep, FrameStep, EntryStep, SearchStep, ZeroStep, OtherStep,
          dst_kernel, dst_ramdisk, dst_frames, copy_kernel, cmd_frame,
          copy_ramdisk, e820_find, e820_end, e820_high, e820_small, e820_kernel, e820_low,
          Early, BeforeCopy, Late, Loop
  <2>2. TagStep \/ QuietStep
    BY <2>1, StepCases DEF GuestBase
  <2>3. CASE TagStep
    BY <1>3, <2>3 DEF TagStep, boot_map_entry, boot_limit, boot_take_zero, boot_take_kernel,
          boot_take_module, boot_done
  <2>4. CASE QuietStep
    BY <1>3, <2>4 DEF QuietStep, vars
  <2> QED
    BY <2>2, <2>3, <2>4
<1>5. CASE step # "boot"
  <2>1. step \in ToZero \cup ToCmd \cup FromCmd /\ step' \notin Stopped
    BY <1>1, <1>5 DEF Early, BeforeCopy, ToZero, ToCmd, FromCmd, Late, Loop, Stopped
  <2>2. mm_table \subseteq Nat
    BY <1>1, TableOfPages DEF GuestBase
  <2>3. ASSUME KeepsLow, SameFrames \/ Freed \/ GivenAway
        PROVE  HeldInv'
    <3>1. held' = held
      BY <2>3 DEF SameFrames, Freed, GivenAway
    <3> QED
      BY <1>2, <2>3, <3>1 DEF HeldInv, KeepsLow
  <2>4. ASSUME KeepsLow, NEW c, M1 <= c.base, held' = held \cup {c}
        PROVE  HeldInv'
    BY <1>2, <2>4 DEF HeldInv, KeepsLow
  <2>5. ASSUME KeepsLow, HighTaken PROVE HeldInv'
    <3>1. PICK p \in mm_table : M1 <= p /\ held' = held \cup {Frame(p)}
      BY <2>5 DEF HighTaken, Take, Frame
    <3>2. Frame(p).base = p
      BY DEF Frame
    <3> QED
      BY <2>4, <2>5, <3>1, <3>2
  <2>6. ASSUME KeepsLow, LargeTaken PROVE HeldInv'
    <3>1. PICK b : LargeBlock(b, op.num) /\ held' = held \cup {[base |-> b.base, num |-> b.num]}
      BY <2>6 DEF LargeTaken, Take
    <3>2. PICK c : c = [base |-> b.base, num |-> b.num]
      OBVIOUS
    <3>3. c.base = b.base /\ M1 <= b.base
      BY <3>1, <3>2, Geometry DEF LargeBlock, Blocks
    <3> QED
      BY <2>4, <2>6, <3>1, <3>2, <3>3
  <2>7. CASE NoCmdFrame
    BY <1>3, <2>7 DEF NoCmdFrame, vars
  <2>8. ASSUME LowTaken, NEW p \in mm_table, LowTakes(p)
        PROVE  HeldInv'
    <3>1. held' = held \cup {Frame(p)} /\ Frame(p).base = p
      BY <2>8 DEF LowTakes, Take, Frame
    <3>2. vm = [img |-> vm.img, extra |-> vm.extra, zero |-> vm.zero, cmd |-> vm.cmd,
                before |-> vm.before]
      BY DEF GuestBase, VmType
    <3>3. p \in {vm'.zero, vm'.cmd} /\ {vm.zero, vm.cmd} \subseteq {vm'.zero, vm'.cmd, 0}
      <4>1. CASE ZeroStep
        <5>1. vm' = [vm EXCEPT !.zero = p]
          BY <2>8, <4>1 DEF ZeroStep, LowTakes
        <5>2. vm.zero = 0
          BY <4>1 DEF ZeroStep, LowFrames, ToZero
        <5> QED
          BY <3>2, <5>1, <5>2
      <4>2. CASE cmd_frame /\ vm' = [vm EXCEPT !.cmd = Min(FirstFrame(0, LOWMEM))]
        <5>1. vm' = [vm EXCEPT !.cmd = p]
          BY <2>8, <4>2 DEF LowTakes
        <5>2. vm.cmd = 0
          BY <4>2 DEF cmd_frame, LowFrames, ToCmd
        <5> QED
          BY <3>2, <5>1, <5>2
      <4> QED
        BY <2>8, <4>1, <4>2 DEF LowTaken
    <3>4. \A b \in held : b.base # 0
      <4>1. EarlyMem /\ boot.phase = "run" /\ held \subseteq Blocks
        BY <1>1, <2>8, TableOfPages DEF LowTaken, ZeroStep, cmd_frame, GuestBase, MemInv, Early, BeforeCopy
      <4>2. 0 \notin HeldPages
        BY <4>1 DEF EarlyMem, IInv, FramesApart, UsableInv
      <4> SUFFICES ASSUME NEW b \in held, b.base = 0 PROVE FALSE
        OBVIOUS
      <4>3. b.num \in Nat \ {0}
        BY <4>1 DEF Blocks
      <4>4. 0 \in Pages(b)
        BY <4>3 DEF Pages, Bits
      <4> QED
        BY <4>2, <4>4 DEF HeldPages
    <3> QED
      BY <1>2, <3>1, <3>3, <3>4 DEF HeldInv
  <2> QED
    BY <2>1, <2>3, <2>5, <2>6, <2>7, <2>8, MemSteps
<1> QED
  BY <1>4, <1>5

LEMMA NextLowFrames ==
    ASSUME SoundBoots, GuestBase, CompleteInv, HeldInv, LowFrames, [KernelNext]_all
    PROVE  LowFrames'
<1>0. vm = [img |-> vm.img, extra |-> vm.extra, zero |-> vm.zero, cmd |-> vm.cmd,
            before |-> vm.before]
  BY DEF GuestBase, VmType
<1>1. CASE step' \notin Early \cup Late
  BY <1>1 DEF LowFrames, ToZero, ToCmd, FromCmd, Early, BeforeCopy
<1>2. CASE step = "boot" /\ step' \in Early \cup Late
  <2>1. ~(StopStep \/ VmStep \/ FrameStep \/ EntryStep \/ SearchStep \/ ZeroStep \/ OtherStep)
    BY <1>2 DEF StopStep, Stopped, VmStep, FrameStep, EntryStep, SearchStep, ZeroStep, OtherStep,
          dst_kernel, dst_ramdisk, dst_frames, copy_kernel, cmd_frame,
          copy_ramdisk, e820_find, e820_end, e820_high, e820_small, e820_kernel, e820_low,
          Early, BeforeCopy, Late, Loop
  <2>2. TagStep \/ QuietStep
    BY <2>1, StepCases DEF GuestBase
  <2>3. vm' = vm /\ step' \in {"boot", "acpi"}
    BY <1>2, <2>2 DEF TagStep, QuietStep
  <2>4. vm.zero = 0 /\ vm.cmd = 0
    BY <1>2 DEF LowFrames
  <2> QED
    BY <2>3, <2>4 DEF LowFrames, ToZero, ToCmd, FromCmd, Late, Loop
<1>3. CASE step # "boot" /\ step' \in Early \cup Late
  <2>1. step \in ToZero \cup ToCmd \cup FromCmd /\ step' \notin Stopped
    <3>1. step \in Early \cup Late
      BY <1>3, StepOrder DEF GuestBase
    <3> QED
      BY <1>3, <3>1 DEF Early, BeforeCopy, ToZero, ToCmd, FromCmd, Late, Loop, Stopped
  <2>2. machine' = machine
    BY <2>1, MemSteps
  <2>b. step' # "boot"
    BY <1>3, StepOrder DEF GuestBase
  <2>3. ASSUME KeepsLow, held \subseteq held'
        PROVE  LowFrames'
    BY <2>2, <2>3, <2>b DEF LowFrames, KeepsLow, ZeroIs, CmdIs
  <2>4. ASSUME KeepsLow, SameFrames \/ HighTaken \/ LargeTaken \/ Freed \/ GivenAway
        PROVE  LowFrames'
    BY <2>3, <2>4 DEF SameFrames, HighTaken, LargeTaken, Freed, GivenAway, Take
  <2>5. ASSUME LowTaken \/ NoCmdFrame
        PROVE  /\ step \in Early \ {"boot"}
               /\ vm.zero # 0 => Frame(vm.zero) \in held
               /\ vm.cmd = 0 /\ vm.zero \in Nat
    BY <1>3, <2>5 DEF LowTaken, NoCmdFrame, ZeroStep, cmd_frame, LowFrames, ToZero, ToCmd, ZeroIs, Early, BeforeCopy, GuestBase, VmType
  <2>6. ASSUME LowTaken \/ NoCmdFrame
        PROVE  \A p \in Nat : p < M1 => (p \in mm_table <=> p \in LowPages(machine) \ {vm.zero})
    <3>1. 0 \notin LowPages(machine)
      BY <2>5, <2>6, TableOfPages, LowPagesAre DEF GuestBase
    <3> QED
      BY <2>5, <2>6, <3>1, EarlyLow
  <2>7. PICK L : L = LowPages(machine)
    OBVIOUS
  <2>8. mm_table \subseteq Nat /\ L \subseteq Nat /\ (\A p \in L : p < M1) /\ M1 \in Nat /\ 0 \notin L
    <3>1. mm_table \subseteq Nat /\ machine \in Machines
      BY <2>1, TableOfPages DEF GuestBase, ToZero, ToCmd, FromCmd, Early, BeforeCopy, Late, Loop
    <3> QED
      BY <2>7, <3>1, LowPagesAre, Geometry
  <2>9. ASSUME ZeroStep, NEW p \in mm_table, LowTakes(p)
        PROVE  LowFrames'
    <3>1. vm' = [vm EXCEPT !.zero = p] /\ step' = "kernel" /\ step = "zero"
      BY <2>9 DEF ZeroStep, LowTakes
    <3>2. vm.zero = 0 /\ vm.cmd = 0
      BY <3>1 DEF LowFrames, ToZero
    <3>3. vm'.zero = p /\ vm'.cmd = 0
      BY <1>0, <3>1, <3>2
    <3>a. LowTaken
      BY <2>9 DEF LowTaken
    <3>4. \A q \in Nat : q < M1 => (q \in mm_table <=> q \in L \ {0})
      BY <2>6, <2>7, <3>2, <3>a
    <3>5. p \in Least(L)
      BY <2>8, <2>9, <3>4 DEF LowTakes, Least
    <3>6. Frame(p) \in held'
      BY <2>9 DEF LowTakes, Take, Frame
    <3>7. ZeroIs'
      BY <2>2, <2>7, <3>3, <3>5, <3>6 DEF ZeroIs
    <3> QED
      BY <3>1, <3>3, <3>7 DEF LowFrames, ToZero, ToCmd, FromCmd, Late, Loop
  <2>10. ASSUME cmd_frame PROVE ZeroIs /\ step' = "ramdisk"
    BY <2>10 DEF cmd_frame, LowFrames, ToCmd
  <2>11. ASSUME cmd_frame, vm' = [vm EXCEPT !.cmd = Min(FirstFrame(0, LOWMEM))],
                NEW p \in mm_table, LowTakes(p)
         PROVE  LowFrames'
    <3>1. vm' = [vm EXCEPT !.cmd = p]
      BY <2>11 DEF LowTakes
    <3>3. vm'.zero = vm.zero /\ vm'.cmd = p
      BY <1>0, <3>1
    <3>4. \A q \in Nat : q < M1 => (q \in mm_table <=> q \in L \ {vm.zero})
      BY <2>6, <2>7, <2>11 DEF LowTaken
    <3>5. p \in Least(L \ {vm.zero})
      BY <2>8, <2>11, <3>4 DEF LowTakes, Least
    <3>6. Frame(p) \in held' /\ held \subseteq held'
      BY <2>11 DEF LowTakes, Take, Frame
    <3>7. ZeroIs' /\ CmdIs'
      BY <2>2, <2>7, <2>10, <2>11, <3>3, <3>5, <3>6 DEF ZeroIs, CmdIs
    <3> QED
      BY <2>10, <2>11, <3>7 DEF LowFrames, ToZero, ToCmd, FromCmd, Late, Loop
  <2>12. CASE NoCmdFrame
    <3>1. UNCHANGED <<vm, held>> /\ cmd_frame /\ FirstFrame(0, LOWMEM) = {} /\ vm.cmd = 0
      BY <2>5, <2>12 DEF NoCmdFrame, vars
    <3>2. \A p \in mm_table : ~(p < M1)
      <4> SUFFICES ASSUME NEW q \in mm_table, q < M1 PROVE FALSE
        OBVIOUS
      <4> DEFINE T == {p \in mm_table : 0 * WORD <= p /\ p < LOWMEM * WORD}
      <4>1. 0 * WORD = 0 /\ M1 = LOWMEM * WORD
        BY PhysAssumption DEF M1
      <4>2. T \subseteq Nat /\ q \in T
        <5>1. q \in Nat /\ 0 <= q
          BY <2>8
        <5>2. 0 * WORD <= q /\ q < LOWMEM * WORD
          BY <4>1, <5>1
        <5> QED
          BY <2>8, <5>2
      <4> HIDE DEF T
      <4>3. \E x \in T : \A y \in T : x <= y
        BY <4>2, LeastNat
      <4>4. Least(T) # {}
        BY <4>3 DEF Least
      <4> QED
        BY <3>1, <4>4 DEF FirstFrame, T
    <3>3. \A q \in Nat : q < M1 => (q \in mm_table <=> q \in L \ {vm.zero})
      BY <2>6, <2>7, <2>12
    <3>4. ZeroIs
      BY <2>10, <3>1
    <3>5. L = {vm.zero}
      BY <2>7, <2>8, <3>2, <3>3, <3>4 DEF ZeroIs, Least
    <3>6. ZeroIs' /\ CmdIs'
      BY <2>2, <2>7, <3>1, <3>4, <3>5 DEF ZeroIs, CmdIs
    <3> QED
      BY <2>10, <3>1, <3>6 DEF LowFrames, ToZero, ToCmd, FromCmd, Late, Loop
  <2> QED
    BY <2>1, <2>4, <2>9, <2>11, <2>12, MemSteps DEF LowTaken
<1> QED
  BY <1>1, <1>2, <1>3
\* Above 1MB a free range is not in low memory, and below it the step takes all
\* of the range.
LEMMA RangeLow ==
    ASSUME GuestBase, ScanInv, e820_high \/ e820_small \/ e820_kernel \/ e820_low
    PROVE  /\ e820_low \/ M1 <= scan.start
           /\ e820_low => scan.start < M1
           /\ scan.from \in Nat /\ scan.from <= scan.start /\ scan.start < scan.start + scan.size
           /\ Done' \in Int /\ scan.start <= Done'
<1>1. /\ scan.start \in Nat /\ scan.size \in Nat \ {0} /\ scan.from \in Nat /\ ScanType
      /\ FirstRun(scan.from, scan.start, scan.start + scan.size) /\ step' = "e820"
  BY RangeStep DEF ScanInv, ScanType
<1>2. M1 \in Nat \ {0} /\ LINUX_ENTRY_POINT = M1 * PG_SIZE
  BY Geometry DEF LINUX_ENTRY_POINT, M1
<1>3. ASSUME NEW n \in Nat, n * PG_SIZE >= M1 * PG_SIZE
      PROVE  M1 <= n
  <2> SUFFICES ASSUME n + 1 <= M1 PROVE FALSE
    BY <1>2
  <2>1. PG_SIZE * (n + 1) <= PG_SIZE * M1
    BY <1>2, MulLe, PhysAssumption
  <2>2. PG_SIZE * (n + 1) = n * PG_SIZE + PG_SIZE /\ PG_SIZE * M1 = M1 * PG_SIZE
    BY <1>2, PhysAssumption
  <2>3. M1 * PG_SIZE \in Nat /\ n * PG_SIZE \in Nat
    BY <1>2, PhysAssumption
  <2> QED
    BY <1>3, <2>1, <2>2, <2>3, PhysAssumption
<1>4. ASSUME ~Low PROVE M1 <= scan.start
  <2>1. scan.start * PG_SIZE \in Nat /\ M1 * PG_SIZE \in Nat
    BY <1>1, <1>2, PhysAssumption
  <2>2. scan.start * PG_SIZE >= M1 * PG_SIZE
    BY <1>2, <1>4, <2>1 DEF Low
  <2> QED
    BY <1>1, <1>3, <2>2
<1>5. ASSUME High PROVE M1 <= scan.start
  <2>1. vm.img.len \in Nat
    BY DEF GuestBase, VmType, Bytes
  <2>2. scan.start * PG_SIZE \in Nat /\ M1 * PG_SIZE \in Nat
    BY <1>1, <1>2, PhysAssumption
  <2>3. scan.start * PG_SIZE >= M1 * PG_SIZE
    BY <1>2, <1>5, <2>1, <2>2 DEF High, kernel_end
  <2> QED
    BY <1>1, <1>3, <2>3
<1>6. e820_low \/ M1 <= scan.start
  BY <1>4, <1>5 DEF e820_high, e820_small, e820_kernel
<1>7. ASSUME e820_low PROVE scan.start < M1
  <2>1. scan.start * PG_SIZE < M1 * PG_SIZE
    BY <1>2, <1>7 DEF e820_low, Low
  <2> SUFFICES ASSUME M1 <= scan.start PROVE FALSE
    BY <1>1, <1>2
  <2>2. PG_SIZE * M1 <= PG_SIZE * scan.start
    BY <1>1, <1>2, MulLe, PhysAssumption
  <2>3. PG_SIZE * M1 = M1 * PG_SIZE /\ PG_SIZE * scan.start = scan.start * PG_SIZE
    BY <1>1, <1>2, PhysAssumption
  <2>4. scan.start * PG_SIZE \in Nat /\ M1 * PG_SIZE \in Nat
    BY <1>1, <1>2, PhysAssumption
  <2> QED
    BY <2>1, <2>2, <2>3, <2>4
<1>8. Done' = scan'.start + scan'.size
  BY <1>1 DEF Done
<1>9. Done' \in Int /\ scan.start <= Done'
  <2>1. /\ Aligned \in Nat /\ scan.start <= Aligned /\ Rest \in Int
        /\ Rest > 0 => Whole \in Nat
    BY <1>1, RangeParts
  <2>2. \/ Rest > 0 /\ scan'.start = Aligned /\ scan'.size = Whole
        \/ scan'.start = Aligned /\ scan'.size = 0
        \/ Rest > 0 /\ scan'.start = Aligned /\ scan'.size = Rest
        \/ scan'.start = scan.start /\ scan'.size = scan.size
        \/ scan'.start = scan.start - 2 /\ scan'.size = scan.size + 2
    BY RangeStep
  <2>3. PICK d, z : d = scan'.start /\ z = scan'.size
    OBVIOUS
  <2> QED
    BY <1>1, <1>8, <2>1, <2>2, <2>3
<1> QED
  BY <1>1, <1>6, <1>7, <1>9 DEF FirstRun

LEMMA NextLowFree ==
    ASSUME SoundBoots, GuestBase, ScanInv, CompleteInv, HeldInv, LowFrames, LowFree,
           [KernelNext]_all
    PROVE  LowFree'
<1>1. CASE step' \notin Late
  BY <1>1 DEF LowFree, Late
<1>2. CASE copy_ramdisk
  <2>1. step = "copy ramdisk" /\ step' = "e820" /\ UNCHANGED scan
    BY <1>2 DEF copy_ramdisk
  <2>2. step \in Early \ {"boot"} /\ step \in FromCmd
    BY <2>1 DEF Early, FromCmd
  <2>3. ZeroIs /\ CmdIs
    BY <2>2 DEF LowFrames
  <2>4. PICK L, Z : L = LowPages(machine) /\ Z = {vm.zero, vm.cmd}
    OBVIOUS
  <2>5. \A p \in Nat : p < M1 => (p \in mm_table <=> p \in L \ Z)
    BY <2>2, <2>3, <2>4, EarlyLow DEF ZeroIs, CmdIs
  <2>6. machine' = machine /\ vm'.zero = vm.zero /\ vm'.cmd = vm.cmd /\ Freed
    <3>1. ~LowTaken /\ ~NoCmdFrame /\ ~HighTaken /\ ~LargeTaken /\ ~GivenAway
      BY <2>1 DEF LowTaken, ZeroStep, NoCmdFrame, cmd_frame, HighTaken, FrameStep, LargeTaken, SearchStep,
            gvars, GivenAway, e820_high, e820_low
    <3>2. step' \notin Stopped
      BY <2>1 DEF Stopped
    <3>3. Freed
      <4>1. PICK k \in Mods : Ramdisk(k) /\ Touched(machine.mods[k]) \subseteq reserved
        BY <2>1 DEF GuestBase, CopyInv
      <4>2. vm.extra.addr = machine.mods[k].addr /\ vm.extra.len = machine.mods[k].len
        BY <4>1 DEF Ramdisk, ModuleRange
      <4>3. /\ physical_free_range(machine.mods[k].addr, machine.mods[k].len)
            /\ UNCHANGED <<mm_limit, entry_end, op, held, machine, boot>>
            /\ op = Idle
        BY <1>2, <4>2 DEF copy_ramdisk
      <4>4. EarlyMem /\ boot.phase = "run"
        BY <2>2 DEF GuestBase, MemInv
      <4>5. mm_table' = mm_table \cup Inside(machine.mods[k])
        BY <4>1, <4>3, <4>4, CopyFrees DEF physical_free_range
      <4> QED
        BY <1>2, <4>3, <4>5 DEF Freed
    <3> QED
      BY <2>2, <3>1, <3>2, <3>3, MemSteps DEF KeepsLow
  <2>7. PICK k \in Mods : mm_table' = mm_table \cup Inside(machine.mods[k])
    BY <2>6 DEF Freed
  <2>8. \A p \in Inside(machine.mods[k]) : M1 <= p /\ p \in Nat
    <3>1. machine \in Machines
      BY <2>2, TableOfPages DEF GuestBase
    <3>2. ByteRange(machine.mods[k])
      BY <3>1, MachineAssumption DEF Mods
    <3> QED
      BY <3>1, <3>2, InsideTouched, ModulesAbove DEF Mods
  <2>9. \A p \in Nat : p < M1 => (p \in mm_table' <=> p \in L \ Z)
    BY <2>5, <2>7, <2>8, Geometry
  <2>10. Done' = 0
    <3>1. scan = [from |-> 0, start |-> 0, size |-> 0, merge |-> TRUE]
      BY <2>2 DEF ScanInv
    <3>2. scan'.start = 0 /\ scan'.size = 0
      BY <2>1, <3>1
    <3>3. step' = "e820"
      BY <2>1
    <3> QED
      BY <3>2, <3>3 DEF Done
  <2>11. step' = "e820"
    BY <2>1
  <2>12. LowPages(machine)' = L /\ {vm.zero, vm.cmd}' = Z
    BY <2>4, <2>6
  <2>13. \A p \in Nat : 0 <= p
    OBVIOUS
  <2> QED
    BY <2>9, <2>10, <2>11, <2>12, <2>13 DEF LowFree, Loop
<1>3. CASE step \in Late /\ step' \in Late
  <2>1. step \in FromCmd /\ step' \notin Stopped /\ step \in Early \cup Late
    BY <1>3 DEF FromCmd, Late, Loop, Stopped
  <2>2. ~LowTaken /\ ~NoCmdFrame
    BY <1>3 DEF LowTaken, ZeroStep, NoCmdFrame, cmd_frame, Late, Loop
  <2>3. KeepsLow /\ machine' = machine
    BY <2>1, <2>2, MemSteps
  <2>4. mm_table' \subseteq mm_table
    <3>1. ~Freed
      BY <1>3 DEF Freed, copy_kernel, copy_ramdisk, Late, Loop
    <3> QED
      BY <2>1, <2>2, <3>1, MemSteps DEF SameFrames, HighTaken, LargeTaken, GivenAway, Take
  <2>5. CASE step \in Late \ Loop /\ step' \in Late \ Loop
    BY <2>4, <2>5 DEF LowFree
  <2>6. CASE UNCHANGED <<mm_table, step, scan>>
    BY <2>3, <2>6 DEF LowFree, KeepsLow, Done
  <2>7. CASE e820_find
    <3>1. step = "e820" /\ step' = "range" /\ UNCHANGED vars
      BY <2>7 DEF e820_find
    <3>2. scan'.from = scan.start + scan.size
      BY <2>7 DEF e820_find, ScanInv, ScanType
    <3>3. Done' = Done /\ mm_table' = mm_table
      BY <3>1, <3>2 DEF Done, vars
    <3> QED
      BY <2>3, <3>1, <3>3 DEF LowFree, KeepsLow, Loop
  <2>8. CASE e820_end
    <3>1. step = "range" /\ step' = "tables" /\ scan.size = 0 /\ mm_table' = mm_table
      BY <2>8 DEF e820_end, vars
    <3>2. /\ \A p \in mm_table : p < scan.from
          /\ Done = scan.from /\ scan.from \in Nat /\ M1 \in Nat /\ mm_table \subseteq Nat
      BY <2>1, <3>1, TableOfPages, Geometry DEF ScanInv, Found, Done, GuestBase, ScanType
    <3>3. \A p \in mm_table : M1 <= p
      BY <3>1, <3>2 DEF LowFree, Loop
    <3> QED
      BY <3>1, <3>3 DEF LowFree, Loop
  <2>9. CASE e820_high \/ e820_small \/ e820_kernel \/ e820_low
    <3>1. /\ step = "range" /\ step' = "e820" /\ mm_table \subseteq Nat
          /\ Done = scan.from /\ M1 \in Nat
      BY <2>1, <2>9, RangeStep, TableOfPages, Geometry DEF Done, GuestBase
    <3>2. PICK L, Z : L = LowPages(machine) /\ Z = {vm.zero, vm.cmd}
      OBVIOUS
    <3>3. \A p \in Nat : p < M1 => (p \in mm_table <=> p \in L \ Z /\ scan.from <= p)
      BY <3>1, <3>2 DEF LowFree, Loop
    <3>4. PICK d \in Int : d = Done'
      BY <2>9, RangeLow
    <3>s. PICK s \in Nat, t \in Nat : s = scan.start /\ t = scan.start + scan.size /\ FirstRun(scan.from, s, t)
      BY <2>9, RangeStep
    <3>5. /\ e820_low \/ M1 <= s
          /\ scan.from \in Nat /\ scan.from <= s /\ s < t /\ s <= d
      BY <2>9, <3>4, <3>s, RangeLow
    <3>6. \A p \in mm_table : scan.from <= p => s <= p
      BY <3>1, <3>5, <3>s DEF FirstRun
    <3>7. ASSUME NEW p \in Nat, p < M1
          PROVE  p \in mm_table' <=> p \in L \ Z /\ d <= p
      <4>1. CASE M1 <= s
        BY <2>4, <3>1, <3>3, <3>5, <3>6, <3>7, <4>1
      <4>2. CASE e820_low
        <5>1. /\ mm_table' = mm_table \ Bits(scan'.start, scan'.size)
              /\ \/ scan'.start = s - 2 /\ scan'.size = scan.size + 2
                 \/ scan'.start = s /\ scan'.size = scan.size
              /\ scan.size \in Nat /\ t = s + scan.size
          BY <2>9, <3>s, <4>2, RangeStep DEF e820_high, e820_small, e820_kernel, e820_low
        <5>2. PICK a \in Int : a <= s /\ mm_table' = mm_table \ (a .. t - 1) /\ d = t
          <6>1. PICK a, n : a = scan'.start /\ n = scan'.size
            OBVIOUS
          <6>2. a \in Int /\ n \in Int /\ a <= s /\ a + n = t
            BY <3>5, <5>1, <6>1
          <6>3. d = t
            BY <3>1, <3>4, <6>1, <6>2 DEF Done
          <6> QED
            BY <5>1, <6>1, <6>2, <6>3 DEF Bits
        <5>3. CASE p >= t
          BY <3>3, <3>5, <3>7, <5>2, <5>3
        <5>4. CASE p < t
          BY <3>3, <3>5, <3>6, <3>7, <5>2, <5>4
        <5> QED
          BY <5>3, <5>4
      <4> QED
        BY <3>5, <4>1, <4>2
    <3> QED
      BY <2>3, <3>1, <3>2, <3>4, <3>7 DEF LowFree, Loop, KeepsLow
  <2>10. CASE QuietStep \/ EntryStep
    BY <1>3, <2>5, <2>6, <2>10 DEF QuietStep, EntryStep, Late, Loop, vars
  <2>11. CASE FrameStep \/ SearchStep
    BY <1>3, <2>5, <2>11 DEF FrameStep, SearchStep, gvars, Late, Loop
  <2>12. ~(StopStep \/ TagStep \/ VmStep \/ ZeroStep)
    BY <1>3 DEF StopStep, Stopped, TagStep, VmStep, ZeroStep, Late, Loop
  <2>13. CASE OtherStep
    BY <1>3, <2>7, <2>8, <2>9, <2>13 DEF OtherStep, dst_kernel, dst_ramdisk, dst_frames, copy_kernel,
          cmd_frame, copy_ramdisk, Late, Loop
  <2> QED
    BY <2>10, <2>11, <2>12, <2>13, StepCases DEF GuestBase
<1> QED
  BY <1>1, <1>2, <1>3, StepOrder DEF GuestBase
-----------------------------------------------------------------------------
(* The ramdisk                                                             *)

\* After the copy frames are only taken, and the VM does not change.
LEMMA LateStep ==
    ASSUME SoundBoots, GuestBase, [KernelNext]_all, step \in Late, step' \in Late
    PROVE  UNCHANGED <<vm, machine, entry_end, boot>> /\ held \subseteq held' /\ mm_table' \subseteq mm_table
<1>1. step \in FromCmd /\ step' \notin Stopped
  BY DEF FromCmd, Late, Loop, Stopped
<1>2. ~LowTaken /\ ~NoCmdFrame /\ ~Freed
  BY DEF LowTaken, ZeroStep, NoCmdFrame, cmd_frame, Freed, copy_kernel, copy_ramdisk, Late, Loop
<1>3. /\ UNCHANGED <<machine, entry_end, boot>>
      /\ SameFrames \/ HighTaken \/ LargeTaken \/ GivenAway
  BY <1>1, <1>2, MemSteps
<1>4. held \subseteq held' /\ mm_table' \subseteq mm_table
  BY <1>3 DEF SameFrames, HighTaken, LargeTaken, GivenAway, Take
<1>5. vm' = vm
  <2>1. ~(StopStep \/ TagStep \/ VmStep \/ ZeroStep)
    BY DEF StopStep, Stopped, TagStep, VmStep, ZeroStep, Late, Loop
  <2>2. CASE OtherStep
    BY <2>2 DEF OtherStep, dst_kernel, dst_ramdisk, dst_frames, copy_kernel, cmd_frame, copy_ramdisk,
          e820_find, e820_end, e820_high, e820_small, e820_kernel, e820_low, Give, Pass, Late, Loop
  <2>3. CASE QuietStep \/ FrameStep \/ EntryStep \/ SearchStep
    BY <2>3 DEF QuietStep, FrameStep, EntryStep, SearchStep, gvars
  <2> QED
    BY <2>1, <2>2, <2>3, StepCases DEF GuestBase
<1> QED
  BY <1>3, <1>4, <1>5

\* The block of large pages the ramdisk was copied to, and its end in bytes.
RamdiskBlock ==
    [base |-> vm.extra.addr \div PG_SIZE,
     num  |-> RoundUp(vm.extra.len, LARGE_PG * PG_SIZE) \div PG_SIZE]
RamdiskEnd == vm.extra.addr + vm.extra.len

RamdiskAt(r) ==
    /\ r \in held /\ LargeBlock(r, r.num)
    /\ vm.extra.addr = r.base * PG_SIZE
    /\ RamdiskEnd \in Nat
    /\ r.base * PG_SIZE < RamdiskEnd /\ RamdiskEnd <= (r.base + r.num) * PG_SIZE

RamdiskInv == step \in Late => RamdiskAt(RamdiskBlock)

LEMMA NextRamdiskInv ==
    ASSUME SoundBoots, GuestBase, RamdiskInv, [KernelNext]_all
    PROVE  RamdiskInv'
<1>1. CASE step' \notin Late
  BY <1>1 DEF RamdiskInv
<1>2. CASE step \in Late /\ step' \in Late
  <2>1. vm' = vm /\ held \subseteq held'
    BY <1>2, LateStep
  <2>2. PICK r : r = RamdiskBlock
    OBVIOUS
  <2>3. RamdiskBlock' = r /\ RamdiskEnd' = RamdiskEnd
    BY <2>1, <2>2 DEF RamdiskBlock, RamdiskEnd
  <2>4. RamdiskAt(r)
    BY <1>2, <2>2 DEF RamdiskInv
  <2>5. RamdiskAt(r)'
    BY <2>1, <2>3, <2>4 DEF RamdiskAt
  <2> QED
    BY <2>3, <2>5 DEF RamdiskInv
<1>3. CASE copy_ramdisk
  <2>1. step = "copy ramdisk" /\ op = Idle /\ held' = held
    BY <1>3 DEF copy_ramdisk
  <2>2. PICK b \in held \ vm.before : vm' = [vm EXCEPT !.extra.addr = b.base * PG_SIZE]
    BY <1>3 DEF copy_ramdisk
  <2>3. PICK len \in ImageSize : len = vm.extra.len
    BY <2>1 DEF GuestBase, CopyInv, FromCopy
  <2> DEFINE num == LargePages(len) * LARGE_PG
  <2>4. Pending(len)
    BY <2>1, <2>3 DEF GuestBase, PendingInv
  <2>5. LargeBlock(b, num)
    BY <2>1, <2>2, <2>4 DEF Pending
  <2>6. /\ num \in Nat \ {0} /\ RoundUp(len, LARGE_PG * PG_SIZE) \div PG_SIZE = num
        /\ len <= num * PG_SIZE
    BY <2>3, ImagePages DEF ImageSize
  <2>7. b \in Blocks /\ b.base \in Nat /\ b.num = num /\ b = [base |-> b.base, num |-> b.num]
    BY <2>5 DEF LargeBlock, Blocks
  <2>8. PICK a \in Nat : a = b.base * PG_SIZE
    BY <2>7, PhysAssumption
  <2>9. vm'.extra.addr = a /\ vm'.extra.len = len
    <3>1. PICK e : e = vm.extra
      OBVIOUS
    <3>2. e = [addr |-> e.addr, len |-> e.len] /\ e.len = len
      BY <2>3, <3>1 DEF GuestBase, VmType, Bytes
    <3>3. vm = [img |-> vm.img, extra |-> e, zero |-> vm.zero, cmd |-> vm.cmd, before |-> vm.before]
      BY <3>1 DEF GuestBase, VmType
    <3>4. vm' = [vm EXCEPT !.extra = [e EXCEPT !.addr = a]]
      BY <2>2, <2>8, <3>1
    <3>5. vm'.extra = [e EXCEPT !.addr = a]
      BY <3>3, <3>4
    <3> QED
      BY <3>2, <3>5
  <2>10. a \div PG_SIZE = b.base
    BY <2>7, <2>8, IntMultiple, PhysAssumption
  <2> HIDE DEF num
  <2>11. RamdiskBlock' = b
    <3>1. RamdiskBlock' = [base |-> b.base, num |-> num]
      BY <2>6, <2>9, <2>10 DEF RamdiskBlock
    <3> QED
      BY <2>7, <3>1
  <2>12. RamdiskEnd' = a + len /\ len \in Nat \ {0}
    <3>1. len \in Nat \ {0}
      BY <2>3 DEF ImageSize
    <3> QED
      BY <2>9, <3>1 DEF RamdiskEnd
  <2>13. (b.base + b.num) * PG_SIZE = a + num * PG_SIZE /\ num * PG_SIZE \in Nat
    BY <2>6, <2>7, <2>8, PhysAssumption
  <2>14. RamdiskAt(b)'
    <3>1. b \in held' /\ LargeBlock(b, b.num)
      BY <2>1, <2>2, <2>5, <2>7
    <3>2. vm'.extra.addr = b.base * PG_SIZE
      BY <2>8, <2>9
    <3>3. /\ RamdiskEnd' \in Nat /\ b.base * PG_SIZE < RamdiskEnd'
          /\ RamdiskEnd' <= (b.base + b.num) * PG_SIZE
      BY <2>6, <2>8, <2>12, <2>13
    <3> QED
      BY <3>1, <3>2, <3>3 DEF RamdiskAt
  <2> QED
    BY <2>11, <2>14 DEF RamdiskInv
<1> QED
  BY <1>1, <1>2, <1>3, StepOrder DEF GuestBase

\* That is what the ramdisk's entry says, if the end fits in a uint32_t.
LEMMA FitsIs ==
    ASSUME GuestBase, RamdiskInv, step \in Late, RamdiskFits
    PROVE  RamdiskEntry = RamdiskBlock /\ ramdisk_end = RamdiskEnd
<1>1. PICK g \in Nat \ {0} : g = G4 * PG_SIZE
  BY GuestAssumption, PhysAssumption
<1>2. PICK a \in Nat, len \in Nat \ {0} : a = vm.extra.addr /\ len = vm.extra.len
  <2>1. vm.extra.len \in ImageSize
    BY DEF GuestBase, CopyInv, FromCopy, Late, Loop
  <2>2. RamdiskAt(RamdiskBlock)
    BY DEF RamdiskInv
  <2>3. PICK r : r = RamdiskBlock
    OBVIOUS
  <2>4. r.base \in Nat /\ vm.extra.addr = r.base * PG_SIZE
    BY <2>2, <2>3 DEF RamdiskAt, LargeBlock, Blocks
  <2> QED
    BY <2>1, <2>4, PhysAssumption DEF ImageSize
<1>3. a + len < g
  BY <1>1, <1>2 DEF RamdiskFits
<1>4. \A n \in Nat : n < g => n % g = n
  BY <1>1
<1>5. a % g = a /\ len % g = len /\ (a + len) % g = a + len
  BY <1>2, <1>3, <1>4
<1>6. ramdisk_image = a /\ ramdisk_size = len
  BY <1>1, <1>2, <1>5 DEF ramdisk_image, ramdisk_size
<1>7. ramdisk_end = a + len
  BY <1>1, <1>5, <1>6 DEF ramdisk_end
<1> QED
  BY <1>2, <1>6, <1>7 DEF RamdiskEntry, RamdiskBlock, RamdiskEnd

\* The free run that is found is before the ramdisk, or behind it.
LEMMA RamdiskApart ==
    ASSUME GuestBase, ScanInv, RamdiskInv, step = "range", scan.size > 0
    PROVE  LET r == RamdiskBlock
           IN  /\ r \in Blocks /\ Pages(r) \subseteq HeldPages
               /\ scan.start * PG_SIZE >= RamdiskEnd => r.base + r.num <= scan.start
               /\ ~(scan.start * PG_SIZE >= RamdiskEnd) => scan.start + scan.size <= r.base
<1> DEFINE s == scan.start
           t == scan.start + scan.size
<1>1. PICK r : r = RamdiskBlock
  OBVIOUS
<1>2. RamdiskAt(r) /\ LateMem
  BY <1>1 DEF RamdiskInv, Late, Loop, GuestBase, MemInv
<1>3. /\ r \in Blocks /\ r.base \in Nat /\ r.num \in Nat \ {0} /\ r \in held
  BY <1>2 DEF RamdiskAt, LargeBlock, Blocks
<1>4. Pages(r) \subseteq HeldPages /\ Pages(r) \cap mm_table = {}
  BY <1>2, <1>3 DEF HeldPages, LateMem
<1>5. s \in Nat /\ t \in Nat /\ FirstRun(scan.from, s, t)
  BY DEF ScanInv, ScanType, Found
<1>6. FreeRun(s, t) /\ s < t
  BY <1>5 DEF FirstRun
<1>7. \A p \in r.base .. r.base + r.num - 1 : p \notin mm_table
  BY <1>4 DEF Pages, Bits
<1>8. s \in mm_table /\ (s <= r.base /\ r.base < t => r.base \in mm_table)
  BY <1>3, <1>5, <1>6 DEF FreeRun
<1>9. s < r.base \/ r.base + r.num <= s
  BY <1>3, <1>5, <1>7, <1>8
<1>10. s < r.base => t <= r.base
  BY <1>3, <1>5, <1>7, <1>8
<1>e. PICK e \in Nat : /\ e = RamdiskEnd /\ r.base * PG_SIZE < e
                       /\ e <= (r.base + r.num) * PG_SIZE
  BY <1>2 DEF RamdiskAt
<1> HIDE DEF s, t
<1>11. ASSUME s * PG_SIZE >= e PROVE ~(s < r.base)
  <2> SUFFICES ASSUME s < r.base PROVE FALSE
    OBVIOUS
  <2>1. PG_SIZE * s <= PG_SIZE * r.base
    BY <1>3, <1>5, MulLe, PhysAssumption
  <2>2. PG_SIZE * s = s * PG_SIZE /\ PG_SIZE * r.base = r.base * PG_SIZE
    BY <1>3, <1>5, PhysAssumption
  <2>3. s * PG_SIZE \in Nat /\ r.base * PG_SIZE \in Nat
    BY <1>3, <1>5, PhysAssumption
  <2> QED
    BY <1>11, <1>e, <2>1, <2>2, <2>3
<1>12. ASSUME ~(s * PG_SIZE >= e) PROVE ~(r.base + r.num <= s)
  <2> SUFFICES ASSUME r.base + r.num <= s PROVE FALSE
    OBVIOUS
  <2>0. PICK n \in Nat : n = r.base + r.num
    BY <1>3
  <2>1. PG_SIZE * n <= PG_SIZE * s
    BY <1>5, <2>0, MulLe, PhysAssumption
  <2>2. PG_SIZE * s = s * PG_SIZE /\ PG_SIZE * n = n * PG_SIZE
    BY <1>5, PhysAssumption
  <2>3. s * PG_SIZE \in Nat /\ n * PG_SIZE \in Nat
    BY <1>5, PhysAssumption
  <2> QED
    BY <1>12, <1>e, <2>0, <2>1, <2>2, <2>3
<1>13. /\ s * PG_SIZE >= e => r.base + r.num <= s
       /\ ~(s * PG_SIZE >= e) => t <= r.base
  BY <1>9, <1>10, <1>11, <1>12
<1> QED
  BY <1>1, <1>3, <1>4, <1>13, <1>e DEF s, t
-----------------------------------------------------------------------------
(* The E820 table                                                          *)

EntryPages(s) == UNION {Pages(s[k]) : k \in DOMAIN s}
InTable(s, b) == \E k \in DOMAIN s : s[k] = b

\* Entries in ascending order that do not overlap, up to page lim.
Ascending(s) == \A j, k \in DOMAIN s : j < k => s[j].base + s[j].num <= s[k].base
Entries(s, lim) ==
    s \in Seq(Blocks) /\ Ascending(s) /\ \A k \in DOMAIN s : s[k].base + s[k].num <= lim

LEMMA AddEntry ==
    ASSUME NEW s, NEW lim \in Int, Entries(s, lim), NEW b \in Blocks, lim <= b.base
    PROVE  /\ Entries(Append(s, b), b.base + b.num)
           /\ EntryPages(Append(s, b)) = EntryPages(s) \cup Pages(b)
           /\ \A c : InTable(Append(s, b), c) <=> c = b \/ InTable(s, c)
<1> DEFINE u == Append(s, b)
           n == Len(s)
<1>1. s \in Seq(Blocks) /\ n \in Nat /\ DOMAIN s = 1 .. n
  BY DEF Entries
<1>2. u \in Seq(Blocks) /\ DOMAIN u = 1 .. n + 1 /\ u[n + 1] = b /\ \A k \in 1 .. n : u[k] = s[k]
  BY <1>1
<1>3. b.base \in Nat /\ b.num \in Nat \ {0}
  BY DEF Blocks
<1>4. \A k \in 1 .. n : s[k] \in Blocks /\ s[k].base \in Nat /\ s[k].num \in Nat /\ s[k].base + s[k].num <= lim
  <2>1. \A c \in Blocks : c.base \in Nat /\ c.num \in Nat
    BY DEF Blocks
  <2>2. \A k \in 1 .. n : s[k] \in Blocks
    BY <1>1
  <2>3. \A k \in 1 .. n : s[k].base + s[k].num <= lim
    BY <1>1 DEF Entries
  <2> QED
    BY <2>1, <2>2, <2>3
<1> HIDE DEF u, n
<1>5. \A k \in 1 .. n + 1 : k \in 1 .. n \/ k = n + 1
  BY <1>1
<1>6. Ascending(u)
  <2> SUFFICES ASSUME NEW j \in 1 .. n + 1, NEW k \in 1 .. n + 1, j < k
               PROVE  u[j].base + u[j].num <= u[k].base
    BY <1>2 DEF Ascending
  <2>1. j \in 1 .. n
    BY <1>1
  <2>2. CASE k \in 1 .. n
    BY <1>1, <1>2, <2>1, <2>2 DEF Entries, Ascending
  <2>3. CASE k = n + 1
    BY <1>2, <1>3, <1>4, <2>1, <2>3
  <2> QED
    BY <1>5, <2>2, <2>3
<1>7. ASSUME NEW k \in 1 .. n + 1
      PROVE  u[k].base + u[k].num <= b.base + b.num
  <2>1. CASE k \in 1 .. n
    BY <1>2, <1>3, <1>4, <2>1
  <2>2. CASE k = n + 1
    BY <1>2, <1>3, <2>2
  <2> QED
    BY <1>5, <2>1, <2>2
<1>8. n + 1 \in 1 .. n + 1 /\ 1 .. n \subseteq 1 .. n + 1
  BY <1>1
<1>9. EntryPages(u) = EntryPages(s) \cup Pages(b)
  BY <1>1, <1>2, <1>5, <1>8 DEF EntryPages
<1>10. \A c : InTable(u, c) <=> c = b \/ InTable(s, c)
  BY <1>1, <1>2, <1>5, <1>8 DEF InTable
<1> QED
  BY <1>2, <1>6, <1>7, <1>9, <1>10 DEF Entries, u

LEMMA MoreRoom ==
    ASSUME NEW s, NEW lim \in Int, Entries(s, lim), NEW more \in Int, lim <= more
    PROVE  Entries(s, more)
<1>1. \A c \in Blocks : c.base + c.num \in Int
  BY DEF Blocks
<1>2. \A k \in DOMAIN s : s[k] \in Blocks
  BY DEF Entries
<1>3. \A k \in DOMAIN s : s[k].base + s[k].num \in Int
  BY <1>1, <1>2
<1> QED
  BY <1>3 DEF Entries

\* Whoever finds low memory in the table finds zero_frame and cmd_frame in it.
LowListed(s) ==
    (\E k \in DOMAIN s : s[k].base < M1) => {vm.zero, vm.cmd} \subseteq EntryPages(s)

\* The pages of the table are the guest's.
Private(s) ==
    /\ EntryPages(s) \subseteq MapPages(machine)
    /\ EntryPages(s) \cap Touched(machine.kernel) = {}
    /\ EntryPages(s) \cap mm_table = {}
    /\ EntryPages(s) \cap HeldPages \subseteq {vm.zero, vm.cmd} \cup Pages(RamdiskBlock)

LoopTable ==
    /\ Entries(e820, Done)
    /\ IF scan.merge THEN Done <= RamdiskBlock.base ELSE InTable(e820, RamdiskBlock)
    /\ Done # 0 /\ Done < M1 => {vm.zero, vm.cmd} \subseteq EntryPages(e820)

E820Table ==
    /\ Ascending(e820)
    /\ step \in Late => Private(e820) /\ LowListed(e820)
    /\ step \in Loop => LoopTable
    /\ step \in Late \ Loop => InTable(e820, RamdiskBlock)

E820Inv == RamdiskFits => E820Table

\* The table after the first half of the loop's body.
LEMMA MergedIs ==
    ASSUME GuestBase, ScanInv, RamdiskInv, RamdiskFits, E820Table, step = "range"
    PROVE  /\ ~MergeNow => Merged = e820 /\ Entries(Merged, scan.from)
           /\ MergeNow => /\ InTable(Merged, RamdiskBlock)
                          /\ Entries(Merged, RamdiskBlock.base + RamdiskBlock.num)
           /\ Private(Merged) /\ LowListed(Merged)
           /\ EntryPages(e820) \subseteq EntryPages(Merged)
           /\ \A c : InTable(e820, c) => InTable(Merged, c)
<1>1. PICK r : r = RamdiskBlock /\ r = RamdiskEntry
  BY FitsIs DEF Late, Loop
<1>2. RamdiskAt(r) /\ LateMem
  BY <1>1 DEF RamdiskInv, Late, Loop, GuestBase, MemInv
<1>3. /\ r \in Blocks /\ r.base \in Nat /\ r.num \in Nat \ {0} /\ r \in held /\ M1 <= r.base /\ M1 \in Nat
  BY <1>2, Geometry DEF RamdiskAt, LargeBlock, Blocks
<1>4. Pages(r) \subseteq HeldPages
  BY <1>3 DEF HeldPages
<1>5. /\ Done = scan.from /\ scan.from \in Nat /\ Entries(e820, scan.from) /\ Private(e820) /\ LowListed(e820)
      /\ scan.merge => scan.from <= r.base
  BY <1>1 DEF Done, E820Table, LoopTable, Late, Loop, ScanInv, ScanType
<1>6. CASE ~MergeNow
  <2>1. Merged = e820
    BY <1>6 DEF Merged
  <2> QED
    BY <1>5, <1>6, <2>1
<1>7. CASE MergeNow
  <2>1. Merged = Append(e820, r) /\ scan.from <= r.base
    BY <1>1, <1>5, <1>7 DEF Merged, MergeNow
  <2>2. /\ Entries(Merged, r.base + r.num)
        /\ EntryPages(Merged) = EntryPages(e820) \cup Pages(r)
        /\ \A c : InTable(Merged, c) <=> c = r \/ InTable(e820, c)
    BY <1>3, <1>5, <2>1, AddEntry
  <2>3. Private(Merged)
    <3>1. /\ Pages(r) \subseteq MapPages(machine) /\ Pages(r) \cap Touched(machine.kernel) = {}
          /\ Pages(r) \cap mm_table = {}
      BY <1>2, <1>4 DEF LateMem
    <3> QED
      BY <1>1, <1>5, <2>2, <3>1 DEF Private
  <2>4. LowListed(Merged)
    <3> SUFFICES ASSUME NEW k \in DOMAIN Merged, Merged[k].base < M1
                 PROVE  {vm.zero, vm.cmd} \subseteq EntryPages(Merged)
      BY DEF LowListed
    <3>1. Merged[k] # r
      BY <1>3
    <3>2. InTable(Merged, Merged[k])
      BY DEF InTable
    <3>3. InTable(e820, Merged[k])
      BY <2>2, <3>1, <3>2
    <3>4. {vm.zero, vm.cmd} \subseteq EntryPages(e820)
      BY <1>5, <3>3 DEF LowListed, InTable
    <3> QED
      BY <2>2, <3>4
  <2> QED
    BY <1>1, <1>7, <2>2, <2>3, <2>4
<1> QED
  BY <1>6, <1>7
SoundLow == \A m \in Machines : SoundLowMemory(m)

\* zero_frame and cmd_frame are in front of the first range of low memory.
LEMMA FirstLowRange ==
    ASSUME SoundLow, GuestBase, ScanInv, LowFrames, LowFree, e820_low, scan.from = 0
    PROVE  vm.zero \in Nat /\ vm.cmd = vm.zero + 1 /\ scan.start = vm.zero + 2
<1>1. /\ step = "range" /\ LateMem /\ scan.start \in Nat
      /\ FirstRun(0, scan.start, scan.start + scan.size) /\ scan.size \in Nat \ {0}
      /\ scan.start < M1
  BY RangeStep, RangeLow
<1>2. PICK s \in Nat : s = scan.start
  BY <1>1
<1>3. PICK L : L = LowPages(machine)
  OBVIOUS
<1>4. machine \in Machines /\ L \subseteq Nat /\ (\A p \in L : p < M1) /\ M1 \in Nat
  BY <1>1, <1>3, LowPagesAre, Geometry DEF LateMem
<1>5. \A p \in Nat : p < M1 => (p \in mm_table <=> p \in L \ {vm.zero, vm.cmd})
  <2>1. Done = 0
    BY <1>1 DEF Done
  <2> QED
    BY <1>1, <1>3, <2>1 DEF LowFree, Loop
<1>6. s \in mm_table /\ s < M1 /\ \A p \in 0 .. s - 1 : p \notin mm_table
  BY <1>1, <1>2 DEF FirstRun, FreeRun
<1>7. s \in L /\ s # vm.zero /\ s # vm.cmd
  BY <1>5, <1>6
<1>8. ZeroIs /\ CmdIs
  BY <1>1 DEF LowFrames, FromCmd, Late, Loop
<1>9. vm.zero \in L /\ \A p \in L : vm.zero <= p
  BY <1>3, <1>8 DEF ZeroIs, Least
<1>10. vm.cmd \in L \ {vm.zero} /\ \A p \in L \ {vm.zero} : vm.cmd <= p
  <2>1. L # {vm.zero}
    BY <1>7
  <2> QED
    BY <1>3, <1>8, <2>1 DEF CmdIs, Least
<1>11. PICK z \in Nat, c \in Nat : z = vm.zero /\ c = vm.cmd
  BY <1>4, <1>9, <1>10
<1>12. z < c
  BY <1>9, <1>10, <1>11
<1>13. c < s
  BY <1>7, <1>9, <1>10, <1>11
<1>14. PICK a \in L : {a + 1, a + 2} \subseteq L /\ \A b \in L : a <= b
  <2>1. z \in L /\ c \in L
    BY <1>9, <1>10, <1>11
  <2> QED
    BY <1>3, <1>4, <1>7, <1>12, <1>13, <2>1 DEF SoundLow, SoundLowMemory
<1>15. a = z
  BY <1>4, <1>9, <1>11, <1>14
<1>16. c = z + 1
  <2>1. z + 1 \in L \ {z}
    BY <1>14, <1>15
  <2>2. c <= z + 1
    BY <1>10, <1>11, <2>1
  <2> QED
    BY <1>12, <2>2
<1>17. s = z + 2
  <2>1. z + 2 \in L \ {z, c}
    BY <1>14, <1>15, <1>16
  <2>2. z + 2 \in mm_table
    BY <1>4, <1>5, <1>11, <2>1
  <2>3. s <= z + 2
    BY <1>6, <2>2
  <2> QED
    BY <1>13, <1>16, <2>3
<1> QED
  BY <1>2, <1>11, <1>16, <1>17

\* An entry behind the table's that the hypervisor's allocator does not hand
\* out, except for zero_frame and cmd_frame.
LEMMA GiveEntry ==
    ASSUME GuestBase, ScanInv, RamdiskInv, RamdiskFits, E820Table, step = "range", step' = "e820",
           UNCHANGED <<vm, machine, held>>,
           NEW b \in Blocks, NEW lim \in Int, Entries(Merged, lim), lim <= b.base,
           Pages(b) \subseteq mm_table \cup ({vm.zero, vm.cmd} \cap LowPages(machine)),
           mm_table' = mm_table \ Pages(b),
           e820' = Append(Merged, b),
           M1 <= b.base \/ {vm.zero, vm.cmd} \subseteq EntryPages(Merged) \cup Pages(b)
    PROVE  /\ Entries(e820', b.base + b.num)
           /\ EntryPages(e820') = EntryPages(Merged) \cup Pages(b)
           /\ \A c : InTable(Merged, c) => InTable(e820', c)
           /\ Private(e820)' /\ LowListed(e820)'
<1>1. /\ Entries(e820', b.base + b.num)
      /\ EntryPages(e820') = EntryPages(Merged) \cup Pages(b)
      /\ \A c : InTable(e820', c) <=> c = b \/ InTable(Merged, c)
  BY AddEntry
<1>2. LateMem /\ Private(Merged) /\ LowListed(Merged)
  BY MergedIs DEF GuestBase, MemInv, Late, Loop
<1>3. /\ LowPages(machine) \subseteq MapPages(machine)
      /\ LowPages(machine) \cap Touched(machine.kernel) = {}
  BY <1>2, LowPagesAre DEF LateMem
<1>4. /\ Pages(b) \subseteq MapPages(machine) /\ Pages(b) \cap Touched(machine.kernel) = {}
      /\ Pages(b) \cap HeldPages \subseteq {vm.zero, vm.cmd}
  BY <1>2, <1>3 DEF LateMem
<1>5. HeldPages' = HeldPages /\ RamdiskBlock' = RamdiskBlock
  BY DEF HeldPages, RamdiskBlock
<1>6. Private(e820)'
  <2>1. PICK u, T, Z : u = e820' /\ T = mm_table' /\ Z = {vm.zero, vm.cmd}
    OBVIOUS
  <2>2. /\ EntryPages(u) \subseteq MapPages(machine)
        /\ EntryPages(u) \cap Touched(machine.kernel) = {}
        /\ EntryPages(u) \cap T = {}
        /\ EntryPages(u) \cap HeldPages \subseteq Z \cup Pages(RamdiskBlock)
    BY <1>1, <1>2, <1>4, <2>1 DEF Private
  <2> QED
    BY <1>5, <2>1, <2>2 DEF Private
<1>7. LowListed(e820)'
  <2>1. PICK u, Z : u = e820' /\ Z = {vm.zero, vm.cmd}
    OBVIOUS
  <2>2. ASSUME NEW k \in DOMAIN u, u[k].base < M1
        PROVE  Z \subseteq EntryPages(u)
    <3>1. InTable(u, u[k])
      BY DEF InTable
    <3>2. CASE u[k] = b
      <4>1. ~(M1 <= b.base)
        BY <2>2, <3>2, Geometry DEF Blocks
      <4> QED
        BY <1>1, <2>1, <4>1
    <3>3. CASE u[k] # b
      <4>1. InTable(Merged, u[k])
        BY <1>1, <2>1, <3>1, <3>3
      <4>2. Z \subseteq EntryPages(Merged)
        BY <1>2, <2>1, <2>2, <4>1 DEF LowListed, InTable
      <4> QED
        BY <1>1, <2>1, <4>2
    <3> QED
      BY <3>2, <3>3
  <2> QED
    BY <2>1, <2>2 DEF LowListed
<1> QED
  BY <1>1, <1>6, <1>7
LEMMA RangeTable ==
    ASSUME SoundLow, GuestBase, ScanInv, RamdiskInv, LowFrames, LowFree, RamdiskFits, E820Table,
           e820_high \/ e820_small \/ e820_kernel \/ e820_low
    PROVE  E820Table'
<1>1. /\ step = "range" /\ step' = "e820" /\ UNCHANGED <<vm, held, machine>>
      /\ LateMem /\ scan.start \in Nat /\ scan.size \in Nat \ {0} /\ ScanType
      /\ scan' = [from |-> scan.from, start |-> scan'.start, size |-> scan'.size,
                  merge |-> scan.merge /\ ~MergeNow]
  BY RangeStep DEF ScanInv
<1>r. PICK r : r = RamdiskBlock
  OBVIOUS
<1>d. PICK d \in Int : d = Done'
  BY RangeLow
<1>t. PICK s \in Nat, t \in Nat :
         s = scan.start /\ t = scan.start + scan.size /\ FirstRun(scan.from, s, t)
  BY <1>1, RangeStep
<1>2. /\ s = scan.start /\ t = scan.start + scan.size /\ r = RamdiskBlock /\ d = Done'
      /\ FirstRun(scan.from, s, t)
  BY <1>r, <1>d, <1>t
<1>3. /\ e820_low \/ M1 <= s
      /\ e820_low => s < M1
      /\ scan.from \in Nat /\ scan.from <= s /\ s < t /\ s <= d /\ M1 \in Nat
  BY <1>2, RangeLow, Geometry
<1>4. /\ r \in Blocks /\ r.base \in Nat /\ r.num \in Nat \ {0} /\ M1 <= r.base /\ r.base % LARGE_PG = 0
  <2>1. RamdiskAt(r)
    BY <1>1, <1>2 DEF RamdiskInv, Late, Loop
  <2> QED
    BY <2>1, Geometry DEF RamdiskAt, LargeBlock, Blocks
<1>e. ramdisk_end = RamdiskEnd
  BY <1>1, FitsIs DEF Late, Loop
<1>5. /\ s * PG_SIZE >= ramdisk_end => r.base + r.num <= s
      /\ ~(s * PG_SIZE >= ramdisk_end) => t <= r.base
  BY <1>1, <1>2, <1>e, RamdiskApart
<1>6. /\ ~MergeNow => Merged = e820 /\ Entries(Merged, scan.from)
      /\ MergeNow => InTable(Merged, r) /\ Entries(Merged, r.base + r.num)
      /\ Private(Merged) /\ LowListed(Merged)
      /\ EntryPages(e820) \subseteq EntryPages(Merged)
      /\ \A c : InTable(e820, c) => InTable(Merged, c)
  BY <1>1, <1>2, MergedIs
<1>7. Entries(Merged, s)
  <2>1. CASE MergeNow
    <3>1. r.base + r.num <= s /\ r.base + r.num \in Int
      BY <1>2, <1>4, <1>5, <2>1 DEF MergeNow
    <3> QED
      BY <1>6, <2>1, <3>1, MoreRoom
  <2>2. CASE ~MergeNow
    BY <1>3, <1>6, <2>2, MoreRoom
  <2> QED
    BY <2>1, <2>2
<1>8. /\ Done = scan.from /\ (scan.from # 0 /\ scan.from < M1 => {vm.zero, vm.cmd} \subseteq EntryPages(e820))
      /\ ~scan.merge => InTable(e820, r)
  BY <1>1, <1>2 DEF Done, E820Table, LoopTable, Loop
<1>9. PICK m \in BOOLEAN : m = (scan.merge /\ ~MergeNow)
  OBVIOUS
<1>10. scan'.merge = m
  BY <1>1, <1>9
<1>11. m => t <= r.base
  BY <1>2, <1>5, <1>9 DEF MergeNow
<1>12. ~m => InTable(Merged, r)
  BY <1>6, <1>8, <1>9
<1>13. m => d <= r.base
  <2> SUFFICES ASSUME m PROVE d <= r.base
    OBVIOUS
  <2>1. t <= r.base
    BY <1>11
  <2>2. /\ Aligned \in Nat /\ (s <= r.base => Aligned <= r.base)
        /\ Rest \in Int /\ Rest = t - Aligned
        /\ Rest > 0 => Whole \in Nat /\ Whole <= Rest
    BY <1>1, <1>2, <1>4, RangeParts
  <2>3. PICK a, n : a = scan'.start /\ n = scan'.size
    OBVIOUS
  <2>4. d = a + n
    BY <1>1, <1>2, <2>3 DEF Done
  <2>5. \/ Rest > 0 /\ a = Aligned /\ n = Whole
        \/ a = Aligned /\ n = 0
        \/ Rest > 0 /\ a = Aligned /\ n = Rest
        \/ a = s /\ n = scan.size
        \/ a = s - 2 /\ n = scan.size + 2
    BY <1>2, <2>3, RangeStep
  <2> QED
    BY <1>1, <1>2, <1>3, <1>4, <2>1, <2>2, <2>4, <2>5
<1>14. RamdiskBlock' = r
  BY <1>1, <1>2 DEF RamdiskBlock
<1>15. ASSUME Entries(e820', d), \A c : InTable(Merged, c) => InTable(e820', c),
              Private(e820)', LowListed(e820)',
              d < M1 => {vm.zero, vm.cmd} \subseteq EntryPages(e820')
       PROVE  E820Table'
  <2>1. step' = "e820" /\ {vm.zero, vm.cmd}' = {vm.zero, vm.cmd}
    BY <1>1
  <2>2. Ascending(e820')
    BY <1>15 DEF Entries
  <2>3. m => d <= r.base
    BY <1>13
  <2>4. ~m => InTable(e820', r)
    BY <1>12, <1>15
  <2>5. LoopTable'
    BY <1>2, <1>10, <1>14, <1>15, <2>1, <2>3, <2>4 DEF LoopTable
  <2> QED
    BY <1>15, <2>1, <2>2, <2>5 DEF E820Table, Late, Loop
<1>16. ASSUME mm_table' = mm_table, e820' = Merged, M1 <= s
       PROVE  E820Table'
  <2>1. Entries(e820', d)
    BY <1>3, <1>7, <1>16, MoreRoom
  <2>2. HeldPages' = HeldPages
    BY <1>1 DEF HeldPages
  <2>3. PICK u : u = Merged
    OBVIOUS
  <2>4. Private(u)' /\ LowListed(u)'
    BY <1>1, <1>2, <1>6, <1>14, <1>16, <2>2, <2>3 DEF Private, LowListed
  <2>5. Private(e820)' /\ LowListed(e820)'
    BY <1>16, <2>3, <2>4 DEF Private, LowListed
  <2>6. ~(d < M1)
    BY <1>3, <1>16
  <2> QED
    BY <1>15, <1>16, <2>1, <2>5, <2>6
<1>17. FreeRun(s, t)
  BY <1>2 DEF FirstRun
<1>18. ASSUME NEW base \in Nat, NEW num \in Nat \ {0}, e820' = Append(Merged, [base |-> base, num |-> num]),
              mm_table' = mm_table \ Bits(base, num), d = base + num,
              Bits(base, num) \subseteq mm_table \cup ({vm.zero, vm.cmd} \cap LowPages(machine)),
              NEW lim \in Int, Entries(Merged, lim), lim <= base,
              \/ M1 <= base
              \/ {vm.zero, vm.cmd} \subseteq EntryPages(Merged) \cup Bits(base, num)
       PROVE  E820Table'
  <2>1. PICK b : b = [base |-> base, num |-> num]
    OBVIOUS
  <2>2. b \in Blocks /\ b.base = base /\ b.num = num /\ Pages(b) = Bits(base, num)
    BY <2>1 DEF Blocks, Pages
  <2>3. /\ Entries(e820', b.base + b.num)
        /\ EntryPages(e820') = EntryPages(Merged) \cup Pages(b)
        /\ \A c : InTable(Merged, c) => InTable(e820', c)
        /\ Private(e820)' /\ LowListed(e820)'
    BY <1>1, <1>18, <2>1, <2>2, GiveEntry
  <2>4. d < M1 => {vm.zero, vm.cmd} \subseteq EntryPages(e820')
    BY <1>3, <1>18, <2>2, <2>3
  <2> QED
    BY <1>15, <1>18, <2>2, <2>3, <2>4
<1>19. CASE e820_high /\ Rest > 0 /\ Whole > 0 /\ scan'.start = Aligned /\ scan'.size = Whole
            /\ mm_table' = mm_table \ Bits(Aligned, Whole)
            /\ e820' = Append(Merged, [base |-> Aligned, num |-> Whole])
  <2>1. /\ Aligned \in Nat /\ s <= Aligned /\ Rest = t - Aligned /\ Whole \in Nat \ {0} /\ Whole <= Rest
    BY <1>1, <1>2, <1>19, RangeParts
  <2>2. Bits(Aligned, Whole) \subseteq mm_table
    BY <1>17, <2>1 DEF Bits, FreeRun
  <2>3. M1 <= Aligned
    BY <1>3, <1>19, <2>1 DEF e820_high, e820_low
  <2>4. d = Aligned + Whole
    BY <1>1, <1>2, <1>19 DEF Done
  <2> QED
    BY <1>7, <1>18, <1>19, <2>1, <2>2, <2>3, <2>4
<1>20. CASE e820_low /\ scan.from # 0 /\ scan'.start = scan.start /\ scan'.size = scan.size
            /\ mm_table' = mm_table \ Bits(scan'.start, scan'.size)
            /\ e820' = Append(Merged, [base |-> scan'.start, num |-> scan'.size])
  <2>1. PICK n \in Nat \ {0} : n = scan.size /\ t = s + n
    BY <1>1, <1>2
  <2>2. Bits(s, n) \subseteq mm_table
    BY <1>17, <2>1 DEF Bits, FreeRun
  <2>3. {vm.zero, vm.cmd} \subseteq EntryPages(Merged)
    BY <1>3, <1>6, <1>8, <1>20
  <2>4. d = s + n
    BY <1>1, <1>2, <1>20, <2>1 DEF Done
  <2>5. mm_table' = mm_table \ Bits(s, n) /\ e820' = Append(Merged, [base |-> s, num |-> n])
    BY <1>2, <1>20, <2>1
  <2> QED
    BY <1>7, <1>18, <2>1, <2>2, <2>3, <2>4, <2>5
<1>21. CASE e820_low /\ scan.from = 0 /\ scan'.start = scan.start - 2 /\ scan'.size = scan.size + 2
            /\ mm_table' = mm_table \ Bits(scan'.start, scan'.size)
            /\ e820' = Append(Merged, [base |-> scan'.start, num |-> scan'.size])
  <2>1. PICK z \in Nat : z = vm.zero /\ vm.cmd = z + 1 /\ s = z + 2
    BY <1>2, <1>21, FirstLowRange
  <2>2. PICK n \in Nat \ {0} : n = scan.size + 2 /\ z + n = t
    BY <1>1, <1>2, <2>1
  <2>3. mm_table' = mm_table \ Bits(z, n) /\ e820' = Append(Merged, [base |-> z, num |-> n])
    <3>1. scan'.start = z /\ scan'.size = n
      BY <1>2, <1>21, <2>1, <2>2
    <3> QED
      BY <1>21, <3>1
  <2>4. d = z + n
    <3>1. scan'.start + scan'.size = d
      BY <1>1, <1>2 DEF Done
    <3>2. scan'.start = z /\ scan'.size = n
      BY <1>2, <1>21, <2>1, <2>2
    <3> QED
      BY <3>1, <3>2
  <2>5. ~MergeNow
    <3>1. ~(r.base + r.num <= s)
      BY <1>3, <1>4, <1>21
    <3> QED
      BY <1>2, <1>5, <3>1 DEF MergeNow
  <2>6. Entries(Merged, 0)
    BY <1>6, <1>21, <2>5
  <2>7. {vm.zero, vm.cmd} \subseteq LowPages(machine)
    <3>1. ZeroIs /\ CmdIs
      BY <1>1 DEF LowFrames, FromCmd, Late, Loop
    <3>2. vm.cmd # 0
      BY <2>1
    <3> QED
      BY <3>1, <3>2 DEF ZeroIs, CmdIs, Least
  <2>8. ASSUME NEW p \in Bits(z, n)
        PROVE  p \in mm_table \/ p \in {vm.zero, vm.cmd}
    <3>1. p \in Int /\ z <= p /\ p < t
      BY <2>2 DEF Bits
    <3>2. p = z \/ p = z + 1 \/ s <= p
      BY <2>1, <3>1
    <3> QED
      BY <1>17, <2>1, <3>1, <3>2 DEF FreeRun
  <2>9. Bits(z, n) \subseteq mm_table \cup ({vm.zero, vm.cmd} \cap LowPages(machine))
    BY <2>7, <2>8
  <2>10. {vm.zero, vm.cmd} \subseteq Bits(z, n)
    BY <2>1, <2>2, <1>3 DEF Bits
  <2>11. {vm.zero, vm.cmd} \subseteq EntryPages(Merged) \cup Bits(z, n)
    BY <2>10
  <2>12. PICK lim \in Int : Entries(Merged, lim) /\ lim <= z
    BY <2>6
  <2> QED
    BY <1>18, <2>3, <2>4, <2>9, <2>11, <2>12
<1>22. CASE e820_small \/ e820_kernel
  <2>1. mm_table' = mm_table /\ e820' = Merged
    BY <1>22 DEF e820_small, e820_kernel, Pass, vars
  <2>2. M1 <= s
    BY <1>3, <1>22 DEF e820_small, e820_kernel, e820_low
  <2> QED
    BY <1>16, <2>1, <2>2
<1> QED
  BY <1>19, <1>20, <1>21, <1>22, RangeStep
\* When no range is left the ramdisk has been merged, or it is now.
LEMMA EndMerges ==
    ASSUME GuestBase, ScanInv, RamdiskInv, RamdiskFits, E820Table,
           step = "range", scan.size = 0, scan.merge
    PROVE  MergeNow
<1>1. PICK r : r = RamdiskBlock
  OBVIOUS
<1>2. RamdiskAt(r) /\ LateMem
  BY <1>1 DEF RamdiskInv, Late, Loop, GuestBase, MemInv
<1>3. /\ r \in Blocks /\ r.base \in Nat /\ r.num \in Nat \ {0} /\ r \in held
  BY <1>2 DEF RamdiskAt, LargeBlock, Blocks
<1>4. PICK e \in Nat : e = entry_end
  BY <1>2 DEF LateMem
<1>5. PICK w \in Nat : w = e * WORD
  BY PhysAssumption
<1>6. HeldPages \subseteq 0 .. w - 1
  BY <1>2, <1>4, <1>5 DEF LateMem
<1>7. PICK n \in Nat : n = r.base + r.num
  BY <1>3
<1>8. r.base < w /\ n <= w
  <2>1. r.base \in Pages(r) /\ n - 1 \in Pages(r)
    BY <1>3, <1>7 DEF Pages, Bits
  <2>2. Pages(r) \subseteq HeldPages
    BY <1>3 DEF HeldPages
  <2>3. r.base \in 0 .. w - 1 /\ n - 1 \in 0 .. w - 1
    BY <1>6, <2>1, <2>2
  <2> QED
    BY <1>3, <1>7, <2>3
<1>9. scan.from \in Nat /\ scan.from <= r.base
  BY <1>1 DEF E820Table, LoopTable, Loop, Done, ScanInv, ScanType
<1>10. ~(scan.from \div WORD >= entry_end)
  <2> SUFFICES ASSUME scan.from \div WORD >= e PROVE FALSE
    BY <1>4
  <2>1. InEntry(scan.from \div WORD, scan.from)
    BY <1>9, DivInEntry
  <2>2. scan.from \div WORD \in Nat
    BY <1>9, DivMod, PhysAssumption
  <2>3. entry_end * WORD <= scan.from
    BY <1>4, <1>9, <2>1, <2>2, PastTable
  <2> QED
    BY <1>3, <1>4, <1>5, <1>8, <1>9, <2>3
<1>11. scan.start = (e + 1) * WORD
  BY <1>4, <1>10 DEF ScanInv, Found
<1>12. PICK s \in Nat : s = scan.start /\ w <= s
  <2>1. (e + 1) * WORD = w + WORD
    BY <1>5, PhysAssumption
  <2> QED
    BY <1>11, <2>1, PhysAssumption
<1>13. PG_SIZE * n <= PG_SIZE * s
  BY <1>8, <1>12, MulLe, PhysAssumption
<1>14. n * PG_SIZE <= s * PG_SIZE /\ n * PG_SIZE \in Nat /\ s * PG_SIZE \in Nat
  BY <1>13, PhysAssumption
<1>15. ramdisk_end \in Nat /\ ramdisk_end <= n * PG_SIZE
  BY <1>2, <1>7, FitsIs DEF RamdiskAt, Late, Loop
<1> QED
  BY <1>12, <1>14, <1>15 DEF MergeNow

LEMMA NextE820Inv ==
    ASSUME SoundBoots, SoundLow, GuestBase, ScanInv, RamdiskInv, LowFrames, LowFree, E820Inv,
           [KernelNext]_all, RamdiskInv'
    PROVE  E820Inv'
<1> SUFFICES ASSUME RamdiskFits' PROVE E820Table'
  BY DEF E820Inv
<1>1. CASE step' \in Early
  <2>1. e820' = <<>>
    BY <1>1, NextScanInv DEF ScanInv
  <2>2. Ascending(<<>>)
    BY DEF Ascending
  <2>3. Ascending(e820)'
    BY <2>1, <2>2
  <2> QED
    BY <1>1, <2>3 DEF E820Table, Early, BeforeCopy, Late, Loop
<1>2. CASE step' \notin Early \cup Late
  <2>1. ~OtherStep
    BY <1>2 DEF OtherStep, dst_kernel, dst_ramdisk, dst_frames, copy_kernel, cmd_frame, copy_ramdisk,
          e820_find, e820_end, e820_high, e820_small, e820_kernel, e820_low, Give, Pass,
          Early, BeforeCopy, Late, Loop
  <2>2. e820' = e820
    BY <2>1, StepCases DEF GuestBase, StopStep, QuietStep, TagStep, VmStep, FrameStep, EntryStep,
          SearchStep, ZeroStep, gvars
  <2>3. Ascending(e820)
    <3>1. CASE step \in Early
      <4>1. e820 = <<>>
        BY <3>1 DEF ScanInv
      <4> QED
        BY <4>1 DEF Ascending
    <3>2. CASE step \notin Early
      <4>1. vm' = vm
        BY <2>1, <3>2, StepCases
        DEF GuestBase, StopStep, QuietStep, TagStep, VmStep, FrameStep, EntryStep, SearchStep,
            ZeroStep, gvars, Early, BeforeCopy
      <4>2. RamdiskFits
        BY <4>1 DEF RamdiskFits
      <4> QED
        BY <4>2 DEF E820Inv, E820Table
    <3> QED
      BY <3>1, <3>2
  <2> QED
    BY <1>2, <2>2, <2>3 DEF E820Table, Late, Loop
<1>3. CASE copy_ramdisk
  <2>1. step = "copy ramdisk" /\ step' = "e820" /\ UNCHANGED <<scan, e820>>
    BY <1>3 DEF copy_ramdisk
  <2>2. /\ scan = [from |-> 0, start |-> 0, size |-> 0, merge |-> TRUE]
        /\ e820 = <<>>
    BY <2>1 DEF ScanInv, Early
  <2>3. e820' = <<>> /\ scan'.start = 0 /\ scan'.size = 0 /\ scan'.merge = TRUE
    BY <2>1, <2>2
  <2>4. step' = "e820"
    BY <2>1
  <2>5. Done' = 0
    BY <2>3, <2>4 DEF Done
  <2>6. EntryPages(<<>>) = {} /\ Entries(<<>>, 0) /\ DOMAIN <<>> = {}
    BY DEF EntryPages, Entries, Ascending
  <2>7. 0 <= RamdiskBlock'.base
    <3>1. RamdiskAt(RamdiskBlock)'
      BY <2>4 DEF RamdiskInv, Late, Loop
    <3>2. PICK b : b = RamdiskBlock'
      OBVIOUS
    <3>3. b \in Blocks
      BY <3>1, <3>2 DEF RamdiskAt, LargeBlock
    <3> QED
      BY <3>2, <3>3 DEF Blocks
  <2>8. Private(e820)' /\ LowListed(e820)' /\ Ascending(e820)'
    BY <2>3, <2>6 DEF Private, LowListed, Ascending
  <2>9. LoopTable'
    BY <2>3, <2>5, <2>6, <2>7 DEF LoopTable
  <2> QED
    BY <2>4, <2>8, <2>9 DEF E820Table, Late, Loop
<1>4. CASE step \in Late /\ step' \in Late
  <2>1. UNCHANGED <<vm, machine>> /\ mm_table' \subseteq mm_table
    BY <1>4, LateStep
  <2>0. RamdiskFits /\ E820Table
    BY <2>1 DEF RamdiskFits, E820Inv
  <2>2. PICK r, Z : r = RamdiskBlock /\ Z = {vm.zero, vm.cmd}
    OBVIOUS
  <2>3. RamdiskBlock' = r /\ {vm.zero, vm.cmd}' = Z
    BY <2>1, <2>2 DEF RamdiskBlock
  <2>4. LateMem
    BY <1>4 DEF GuestBase, MemInv
  <2>5. ASSUME NEW s, Private(s), LowListed(s), e820' = s, HeldPages' \subseteq HeldPages \cup mm_table
        PROVE  Private(e820)' /\ LowListed(e820)'
    <3>1. EntryPages(s) \cap mm_table' = {} /\ EntryPages(s) \cap HeldPages' \subseteq Z \cup Pages(r)
      BY <2>1, <2>2, <2>5 DEF Private
    <3>2. Private(e820)'
      BY <2>1, <2>3, <2>5, <3>1 DEF Private
    <3>3. LowListed(e820)'
      BY <2>2, <2>3, <2>5 DEF LowListed
    <3> QED
      BY <3>2, <3>3
  <2>6. Private(e820) /\ LowListed(e820) /\ Ascending(e820)
    BY <1>4, <2>0 DEF E820Table
  <2>7. CASE e820_find
    <3>1. step = "e820" /\ step' = "range" /\ UNCHANGED <<vars, e820>>
      BY <2>7 DEF e820_find
    <3>2. scan'.from = scan.start + scan.size /\ scan'.merge = scan.merge
      <4>1. PICK f, n, s : f = scan.start + scan.size
                           /\ scan' = [scan EXCEPT !.from = f, !.size = n, !.start = s]
        BY <2>7 DEF e820_find
      <4> QED
        BY <4>1 DEF ScanInv, ScanType
    <3>3. Done' = Done
      BY <3>1, <3>2 DEF Done
    <3>4. HeldPages' = HeldPages
      BY <3>1 DEF HeldPages, vars
    <3>5. Private(e820)' /\ LowListed(e820)' /\ Ascending(e820)'
      BY <2>5, <2>6, <3>1, <3>4
    <3>6. LoopTable
      BY <2>0, <3>1 DEF E820Table, Loop
    <3>7. LoopTable'
      BY <2>2, <2>3, <3>1, <3>2, <3>3, <3>6 DEF LoopTable
    <3>8. step' = "range"
      BY <3>1
    <3> QED
      BY <3>5, <3>7, <3>8 DEF E820Table, Late, Loop
  <2>8. CASE e820_end
    <3>1. step = "range" /\ step' = "tables" /\ scan.size = 0 /\ UNCHANGED vars /\ e820' = Merged
      BY <2>8 DEF e820_end
    <3>2. HeldPages' = HeldPages
      BY <3>1 DEF HeldPages, vars
    <3>3. /\ ~MergeNow => Merged = e820
          /\ MergeNow => InTable(Merged, r) /\ Entries(Merged, r.base + r.num)
          /\ Private(Merged) /\ LowListed(Merged)
      BY <2>0, <2>2, <3>1, MergedIs
    <3>4. InTable(Merged, r) /\ Ascending(Merged)
      <4>1. CASE MergeNow
        BY <3>3, <4>1 DEF Entries
      <4>2. CASE ~MergeNow
        <5>1. ~scan.merge
          BY <2>0, <3>1, <4>2, EndMerges
        <5>2. InTable(e820, r)
          BY <2>0, <2>2, <3>1, <5>1 DEF E820Table, LoopTable, Loop
        <5> QED
          BY <2>6, <3>3, <4>2, <5>2
      <4> QED
        BY <4>1, <4>2
    <3>5. Private(e820)' /\ LowListed(e820)'
      BY <2>5, <3>1, <3>2, <3>3
    <3>6. step' = "tables" /\ e820' = Merged
      BY <3>1
    <3> QED
      BY <2>3, <3>4, <3>5, <3>6 DEF E820Table, Late, Loop
  <2>9. CASE e820_high \/ e820_small \/ e820_kernel \/ e820_low
    BY <2>0, <2>9, RangeTable
  <2>10. ASSUME e820' = e820, (step \in Late \ Loop /\ step' \in Late \ Loop) \/ UNCHANGED <<step, scan>>,
                HeldPages' \subseteq HeldPages \cup mm_table
         PROVE  E820Table'
    <3>1. Private(e820)' /\ LowListed(e820)' /\ Ascending(e820)'
      BY <2>5, <2>6, <2>10
    <3>2. CASE step \in Late \ Loop /\ step' \in Late \ Loop
      <4>1. InTable(e820, r)
        BY <2>0, <2>2, <3>2 DEF E820Table
      <4> QED
        BY <2>3, <2>10, <3>1, <3>2, <4>1 DEF E820Table
    <3>3. CASE UNCHANGED <<step, scan>>
      <4>1. Done' = Done /\ scan'.merge = scan.merge
        BY <3>3 DEF Done
      <4>2. step \in Loop => LoopTable
        BY <2>0 DEF E820Table
      <4>3. LoopTable => LoopTable'
        BY <2>2, <2>3, <2>10, <4>1 DEF LoopTable
      <4>4. step \in Late \ Loop => InTable(e820, r)
        BY <2>0, <2>2 DEF E820Table
      <4>5. step' = step
        BY <3>3
      <4> QED
        BY <2>3, <2>10, <3>1, <4>2, <4>3, <4>4, <4>5 DEF E820Table
    <3> QED
      BY <2>10, <3>2, <3>3
  <2>11. CASE QuietStep \/ EntryStep
    <3>1. e820' = e820 /\ HeldPages' = HeldPages
      BY <2>11 DEF QuietStep, EntryStep, vars, HeldPages
    <3>2. (step \in Late \ Loop /\ step' \in Late \ Loop) \/ UNCHANGED <<step, scan>>
      BY <1>4, <2>11 DEF QuietStep, EntryStep, Late, Loop
    <3> QED
      BY <2>10, <3>1, <3>2
  <2>12. CASE FrameStep
    <3>1. alloc_phys_frame /\ e820' = e820 /\ step \in Late \ Loop /\ step' \in Late \ Loop
      BY <1>4, <2>12 DEF FrameStep, Late, Loop
    <3>2. PICK p \in mm_table : Take(p, 1)
      BY <2>4, <3>1, HighFrameIs DEF LateMem
    <3>3. HeldPages' = HeldPages \cup Bits(p, 1)
      BY <2>4, <3>2, TakeHeld DEF LateMem
    <3>4. Bits(p, 1) \subseteq mm_table
      BY <2>4, <3>2 DEF LateMem, Bits
    <3>5. HeldPages' \subseteq HeldPages \cup mm_table
      BY <3>3, <3>4
    <3> QED
      BY <2>10, <3>1, <3>5
  <2>13. ~(StopStep \/ TagStep \/ VmStep \/ ZeroStep \/ SearchStep)
    BY <1>4 DEF StopStep, Stopped, TagStep, VmStep, ZeroStep, SearchStep, Late, Loop
  <2>14. CASE OtherStep
    BY <1>4, <2>7, <2>8, <2>9, <2>14 DEF OtherStep, dst_kernel, dst_ramdisk, dst_frames, copy_kernel,
          cmd_frame, copy_ramdisk, Late, Loop
  <2> QED
    BY <2>11, <2>12, <2>13, <2>14, StepCases DEF GuestBase
<1> QED
  BY <1>1, <1>2, <1>3, <1>4, StepOrder DEF GuestBase
\* The inductive invariant of the guest's memory.
GuestInv ==
    LoopInv /\ CompleteInv /\ HeldInv /\ LowFrames /\ LowFree /\ RamdiskInv /\ E820Inv

LEMMA InitGuestInv == KernelInit => GuestInv
<1> SUFFICES ASSUME KernelInit PROVE GuestInv
  OBVIOUS
<1>1. LoopInv
  BY InitLoopInv
<1>2. /\ step = "boot" /\ e820 = <<>> /\ held = {} /\ Init
      /\ vm = [img |-> [addr |-> 0, len |-> 0], extra |-> [addr |-> 0, len |-> 0],
               zero |-> 0, cmd |-> 0, before |-> {}]
  BY DEF KernelInit, GuestInit, Init
<1>3. CompleteInv
  <2>1. boot.phase = "map" /\ boot.index = 1 /\ machine \in Machines
    BY <1>2 DEF Init
  <2>2. Len(machine.map) \in Nat
    BY <2>1, MachineAssumption
  <2>3. \A k \in 1 .. Len(machine.map) : ~(k < 1)
    BY <2>2
  <2> QED
    BY <2>1, <2>3 DEF CompleteInv
<1>4. HeldInv
  BY <1>2 DEF HeldInv
<1>5. LowFrames
  <2>1. vm.zero = 0 /\ vm.cmd = 0
    BY <1>2
  <2> QED
    BY <1>2, <2>1 DEF LowFrames, ToZero, ToCmd, FromCmd, Late, Loop
<1>6. LowFree /\ RamdiskInv
  BY <1>2 DEF LowFree, RamdiskInv, Late, Loop
<1>7. E820Inv
  <2>1. Ascending(<<>>)
    BY DEF Ascending
  <2> QED
    BY <1>2, <2>1 DEF E820Inv, E820Table, Late, Loop
<1> QED
  BY <1>1, <1>3, <1>4, <1>5, <1>6, <1>7 DEF GuestInv

LEMMA NextGuestInv ==
    ASSUME SoundBoots, SoundLow
    PROVE  GuestInv /\ [KernelNext]_all => GuestInv'
<1> SUFFICES ASSUME GuestInv, [KernelNext]_all PROVE GuestInv'
  OBVIOUS
<1>1. /\ GuestBase /\ ScanInv /\ LoopInv /\ CompleteInv /\ HeldInv /\ LowFrames /\ LowFree
      /\ RamdiskInv /\ E820Inv
  BY DEF GuestInv, LoopInv
<1>2. LoopInv' /\ CompleteInv' /\ HeldInv' /\ RamdiskInv'
  BY <1>1, NextLoopInv, NextCompleteInv, NextHeldInv, NextRamdiskInv
<1>3. LowFrames' /\ LowFree'
  BY <1>1, NextLowFrames, NextLowFree
<1>4. E820Inv'
  BY <1>1, <1>2, NextE820Inv
<1> QED
  BY <1>2, <1>3, <1>4 DEF GuestInv

LEMMA E820PagesAre == E820Pages = EntryPages(e820)
BY DEF E820Pages, EntryPages

\* The block has the frames of the ramdisk.
LEMMA RamdiskFramesAre ==
    ASSUME GuestBase, step \in Late
    PROVE  Pages(RamdiskBlock) = RamdiskFrames
<1>1. PICK len \in ImageSize : len = vm.extra.len
  BY DEF GuestBase, CopyInv, FromCopy, Late, Loop
<1>2. RoundUp(len, LARGE_PG * PG_SIZE) \div PG_SIZE = LargePages(len) * LARGE_PG
  BY <1>1, ImagePages DEF ImageSize
<1> QED
  BY <1>1, <1>2 DEF Pages, RamdiskBlock, RamdiskFrames

LEMMA LateSteps ==
    /\ Described => step \in Late \ Loop
    /\ Described \/ step \in {"e820", "range"} => step \in Late
BY DEF Described, Late, Loop

\* What virt_setup_e820 tells the guest is its memory is memory, and nobody
\* else's, if the ramdisk's copy ends below 4GB: over every layout of the memory map and the modules, and however the
\* frames in use before lie.  Low memory has to be so that the lowest three
\* pages left in it are in a row, if there are three.
THEOREM GuestRamIsExclusive ==
    ASSUME SoundBoots, SoundLow
    PROVE  KernelSpec => []GuestRamExclusive
<1>1. GuestInv => GuestRamExclusive
  <2> SUFFICES ASSUME GuestInv, RamdiskFits, Described \/ step \in {"e820", "range"}
               PROVE  /\ E820Pages \subseteq AvailablePages
                      /\ E820Pages \cap Touched(machine.kernel) = {}
                      /\ E820Pages \cap mm_table = {}
                      /\ E820Pages \cap (HeldPages \ GuestFrames) = {}
    BY DEF GuestRamExclusive
  <2>1. Private(e820)
    BY LateSteps DEF GuestInv, E820Inv, E820Table
  <2>2. Pages(RamdiskBlock) = RamdiskFrames
    BY LateSteps, RamdiskFramesAre DEF GuestInv, LoopInv
  <2> QED
    BY <2>1, <2>2, E820PagesAre DEF Private, AvailablePages, GuestFrames
<1> QED
  BY <1>1, InitGuestInv, NextGuestInv, PTL DEF KernelSpec

\* The entries of the table do not overlap and ascend, and a finished table has
\* the ramdisk, wherever below 4GB its copy lies, and zero_frame and cmd_frame if
\* it has low memory: on the same machines.
THEOREM GuestFramesFound ==
    ASSUME SoundBoots, SoundLow
    PROVE  KernelSpec => []GuestFindsItsFrames
<1>1. GuestInv => GuestFindsItsFrames
  <2> SUFFICES ASSUME GuestInv, RamdiskFits PROVE GuestFindsItsFrames
    BY DEF GuestFindsItsFrames
  <2>1. \A j, k \in DOMAIN e820 : j < k => e820[j].base + e820[j].num <= e820[k].base
    BY DEF GuestInv, E820Inv, E820Table, Ascending
  <2>2. ASSUME Described
        PROVE  /\ RamdiskFrames \subseteq E820Pages
               /\ (\E k \in DOMAIN e820 : e820[k].base < LOWMEM * WORD) =>
                      {vm.zero, vm.cmd} \subseteq E820Pages
    <3>1. LowListed(e820) /\ InTable(e820, RamdiskBlock)
      BY <2>2, LateSteps DEF GuestInv, E820Inv, E820Table
    <3>2. RamdiskFrames \subseteq EntryPages(e820)
      BY <2>2, <3>1, LateSteps, RamdiskFramesAre DEF InTable, EntryPages, GuestInv, LoopInv
    <3> QED
      BY <3>1, <3>2, E820PagesAre DEF LowListed, M1
  <2> QED
    BY <2>1, <2>2 DEF GuestFindsItsFrames
<1> QED
  BY <1>1, InitGuestInv, NextGuestInv, PTL DEF KernelSpec
-----------------------------------------------------------------------------
(* The frames of images and the large page at 4GB                          *)

\* The large page at 4GB on every machine, with the frames in use before the APs
\* start and four of virt_percpu_init.
SoundHigh == \A m \in Machines : SoundHighMemory(m, MaxBefore + 4)

LEMMA AboveIs ==
    /\ G4 \in Nat /\ LARGE_PG <= G4 /\ M1 < G4
    /\ Above \subseteq Nat /\ G4 \in Above
    /\ \A p \in Int : p \in Above <=> G4 <= p /\ p < G4 + LARGE_PG
<1>1. G4 \in Nat \ {0} /\ G4 % LARGE_PG = 0
  BY GuestAssumption
<1>2. LARGE_PG <= G4
  BY <1>1, Geometry
<1> QED
  BY <1>1, <1>2, Geometry DEF Above, Bits

\* Whole large pages hold all of it or nothing.
LEMMA WholeLarge ==
    ASSUME NEW a \in Nat, NEW n \in Nat, a % LARGE_PG = 0, n % LARGE_PG = 0,
           Above \cap Bits(a, n) # {}
    PROVE  Above \subseteq Bits(a, n)
<1>1. LARGE_PG \in Nat \ {0} /\ G4 \in Nat /\ G4 % LARGE_PG = 0
  BY Geometry, GuestAssumption
<1>2. PICK L \in Nat \ {0} : L = LARGE_PG
  BY <1>1
<1>3. PICK x \in Nat : a = L * x
  <2>1. a \div L \in Nat /\ a = L * (a \div L) + (a % L) /\ a % L = 0
    BY <1>1, <1>2, DivMod
  <2> QED
    BY <2>1
<1>4. PICK y \in Nat : n = L * y
  <2>1. n \div L \in Nat /\ n = L * (n \div L) + (n % L) /\ n % L = 0
    BY <1>1, <1>2, DivMod
  <2> QED
    BY <2>1
<1>5. PICK z \in Nat : G4 = L * z
  <2>1. PICK g \in Nat : g = G4
    BY <1>1
  <2>2. g \div L \in Nat /\ g = L * (g \div L) + (g % L) /\ g % L = 0
    BY <1>1, <1>2, <2>1, DivMod
  <2>3. g = L * (g \div L)
    BY <2>2
  <2> QED
    BY <2>1, <2>2, <2>3
<1>6. PICK p \in Nat : G4 <= p /\ p < G4 + L /\ a <= p /\ p < a + n
  BY <1>2, AboveIs DEF Bits
<1>7. x <= z
  <2>1. CASE z + 1 <= x
    <3>1. L * (z + 1) <= L * x
      BY <2>1, MulLe
    <3>2. L * (z + 1) = L * z + L
      OBVIOUS
    <3> QED
      BY <1>3, <1>5, <1>6, <3>1, <3>2
  <2> QED
    BY <2>1
<1>8. z + 1 <= x + y
  <2>1. CASE x + y <= z
    <3>1. L * (x + y) <= L * z
      BY <2>1, MulLe
    <3>2. L * (x + y) = L * x + L * y
      OBVIOUS
    <3> QED
      BY <1>3, <1>4, <1>5, <1>6, <3>1, <3>2
  <2> QED
    BY <2>1
<1>9. L * x <= L * z /\ L * (z + 1) <= L * (x + y)
  BY <1>7, <1>8, MulLe
<1>10. L * (z + 1) = L * z + L /\ L * (x + y) = L * x + L * y
  OBVIOUS
<1>11. a <= G4 /\ G4 + L <= a + n
  BY <1>3, <1>4, <1>5, <1>9, <1>10
<1> QED
  BY <1>2, <1>11, AboveIs DEF Bits

\* The frames an image was copied to.
LargeFrames(b) == LargeBlock(b, b.num) /\ b.num % LARGE_PG = 0

LEMMA LargeFramesAbove ==
    ASSUME NEW b, LargeFrames(b), Above \cap Pages(b) # {}
    PROVE  Above \subseteq Pages(b)
BY WholeLarge DEF LargeFrames, LargeBlock, Blocks, Pages

LEMMA LargeFramesNotOne ==
    ASSUME NEW b, LargeFrames(b)
    PROVE  b.num # 1
<1>1. b.num \in Nat \ {0} /\ b.num % LARGE_PG = 0
  BY DEF LargeFrames, LargeBlock, Blocks
<1>2. LARGE_PG \in Nat /\ LARGE_PG > 1
  BY Geometry
<1> QED
  BY <1>1, <1>2

KernelBlock ==
    [base |-> vm.img.addr \div PG_SIZE, num |-> LargePages(vm.img.len) * LARGE_PG]

\* Single frames, and the copies of image and ramdisk: the frames held, or held
\* before the search that is under way.
Before == IF step \in {"copy kernel", "copy ramdisk"} THEN vm.before ELSE held
Images == (IF step \in FromCopy THEN {KernelBlock} ELSE {})
              \cup (IF step \in Late THEN {RamdiskBlock} ELSE {})

KindsInv ==
    step \in Early \cup Late =>
        \A b \in Before : b.num = 1 \/ (b \in Images /\ LargeFrames(b))

LEMMA KeepsKinds ==
    ASSUME KindsInv, step \in Early \cup Late, Images \subseteq Images',
           \A b \in Before' : b \in Before \/ b.num = 1 \/ (b \in Images' /\ LargeFrames(b))
    PROVE  KindsInv'
<1> SUFFICES ASSUME step' \in Early \cup Late PROVE KindsInv'
  BY DEF KindsInv
<1>1. \A b \in Before : b.num = 1 \/ (b \in Images' /\ LargeFrames(b))
  BY DEF KindsInv
<1>2. \A b : LargeFrames(b)' <=> LargeFrames(b)
  BY DEF LargeFrames, LargeBlock
<1>3. \A b \in Before' : b.num = 1 \/ (b \in Images' /\ LargeFrames(b))
  BY <1>1
<1> QED
  BY <1>2, <1>3 DEF KindsInv

\* The image is copied to the block the search found.
LEMMA KernelCopied ==
    ASSUME SoundBoots, GuestBase, copy_kernel
    PROVE  /\ step = "copy kernel" /\ step' = "cmd" /\ held' = held /\ machine' = machine
           /\ held \subseteq vm.before \cup {KernelBlock'}
           /\ LargeFrames(KernelBlock')
           /\ \E k \in Mods : vm'.img.len = machine.mods[k].len - SETUP
<1>1. /\ step = "copy kernel" /\ op = Idle /\ step' = "cmd" /\ held' = held
      /\ machine' = machine
  BY DEF copy_kernel
<1>2. PICK i \in Mods : Image(i) /\ vm.img.len - SETUP \in ImageSize
  BY <1>1, VmModules DEF GuestBase, ToCopy
<1>3. PICK len \in ImageSize : len = vm.img.len - SETUP
  BY <1>2
<1>4. PICK b \in held \ vm.before :
          vm' = [vm EXCEPT !.img = [addr |-> b.base * PG_SIZE, len |-> len]]
  BY <1>3 DEF copy_kernel
<1> DEFINE num == LargePages(len) * LARGE_PG
<1>5. Pending(len)
  BY <1>1, <1>3 DEF GuestBase, PendingInv
<1>6. LargeBlock(b, num) /\ held = vm.before \cup {b}
  BY <1>1, <1>4, <1>5 DEF Pending
<1>7. num % LARGE_PG = 0
  BY <1>3, ImagePages DEF ImageSize
<1>8. b.base \in Nat /\ b.num = num /\ b = [base |-> b.base, num |-> num]
  BY <1>6 DEF LargeBlock, Blocks
<1>9. vm'.img = [addr |-> b.base * PG_SIZE, len |-> len]
  <2>1. vm = [img |-> vm.img, extra |-> vm.extra, zero |-> vm.zero, cmd |-> vm.cmd,
              before |-> vm.before]
    BY DEF GuestBase, VmType
  <2> QED
    BY <1>4, <2>1
<1>10. vm'.img.addr \div PG_SIZE = b.base /\ vm'.img.len = len
  <2>1. (b.base * PG_SIZE) \div PG_SIZE = b.base
    BY <1>8, IntMultiple, PhysAssumption
  <2> QED
    BY <1>9, <2>1
<1> HIDE DEF num
<1>11. KernelBlock' = b
  <2>1. KernelBlock' = [base |-> b.base, num |-> num]
    BY <1>10 DEF KernelBlock, num
  <2> QED
    BY <1>8, <2>1
<1>12. LargeFrames(b)
  BY <1>6, <1>7, <1>8 DEF LargeFrames
<1>13. vm.img.len = machine.mods[i].len
  BY <1>2 DEF Image, ModuleRange
<1> QED
  BY <1>1, <1>3, <1>6, <1>10, <1>11, <1>12, <1>13

\* The ramdisk too.
LEMMA RamdiskCopied ==
    ASSUME SoundBoots, GuestBase, copy_ramdisk, RamdiskInv', MemInv'
    PROVE  /\ step = "copy ramdisk" /\ step' = "e820" /\ held' = held
           /\ held \subseteq vm.before \cup {RamdiskBlock'}
           /\ LargeFrames(RamdiskBlock') /\ vm'.img = vm.img
<1>1. step = "copy ramdisk" /\ op = Idle /\ step' = "e820" /\ held' = held
  BY DEF copy_ramdisk
<1>2. PICK b \in held \ vm.before : vm' = [vm EXCEPT !.extra.addr = b.base * PG_SIZE]
  BY DEF copy_ramdisk
<1>3. PICK len \in ImageSize : len = vm.extra.len
  BY <1>1 DEF GuestBase, CopyInv, FromCopy
<1> DEFINE num == LargePages(len) * LARGE_PG
<1>4. Pending(len)
  BY <1>1, <1>3 DEF GuestBase, PendingInv
<1>5. LargeBlock(b, num) /\ held = vm.before \cup {b}
  BY <1>1, <1>2, <1>4 DEF Pending
<1>6. num % LARGE_PG = 0
  BY <1>3, ImagePages DEF ImageSize
<1>7. LargeFrames(b) /\ b \in Blocks
  BY <1>5, <1>6 DEF LargeFrames, LargeBlock
<1>8. vm'.img = vm.img /\ vm'.extra.addr = b.base * PG_SIZE
  <2>1. PICK e : e = vm.extra
    OBVIOUS
  <2>2. e = [addr |-> e.addr, len |-> e.len]
    BY <2>1 DEF GuestBase, VmType, Bytes
  <2>3. vm = [img |-> vm.img, extra |-> e, zero |-> vm.zero, cmd |-> vm.cmd, before |-> vm.before]
    BY <2>1 DEF GuestBase, VmType
  <2>4. vm' = [vm EXCEPT !.extra = [e EXCEPT !.addr = b.base * PG_SIZE]]
    BY <1>2, <2>1
  <2> QED
    BY <2>2, <2>3, <2>4
<1>9. PICK r : r = RamdiskBlock'
  OBVIOUS
<1>10. r \in held' /\ r \in Blocks /\ vm'.extra.addr = r.base * PG_SIZE
  BY <1>1, <1>9 DEF RamdiskInv, RamdiskAt, LargeBlock, Late, Loop
<1>11. r = b
  <2>1. r.base = b.base
    <3>0. r.base \in Int /\ b.base \in Int /\ PG_SIZE \in Nat \ {0}
      BY <1>7, <1>10, PhysAssumption DEF Blocks
    <3>1. (r.base * PG_SIZE) \div PG_SIZE = r.base
      BY <3>0, IntMultiple
    <3>2. (b.base * PG_SIZE) \div PG_SIZE = b.base
      BY <3>0, IntMultiple
    <3> QED
      BY <1>8, <1>10, <3>1, <3>2
  <2>2. r.base \in Pages(r) /\ r.base \in Pages(b)
    BY <1>7, <1>10, <2>1 DEF Blocks, Pages, Bits
  <2>3. \A x, y \in held' : x # y => Pages(x) \cap Pages(y) = {}
    <3>1. LateMem'
      BY <1>1 DEF MemInv, Late, Loop
    <3>2. \A x : Pages(x)' = Pages(x)
      BY DEF Pages, Bits
    <3> QED
      BY <3>1, <3>2 DEF LateMem
  <2> QED
    BY <1>1, <1>2, <1>10, <2>2, <2>3
<1> QED
  BY <1>1, <1>5, <1>7, <1>8, <1>9, <1>11

\* A single frame is handed out.
LEMMA FrameHeld ==
    ASSUME alloc_phys_frame \/ alloc_phys_frame_lowmem
    PROVE  \E p \in mm_table : held' = held \cup {Frame(p)}
BY DEF alloc_phys_frame, alloc_phys_frame_lowmem, FirstFrame, Least, Take, Frame

LEMMA NextKindsInv ==
    ASSUME SoundBoots, GuestBase, KindsInv, [KernelNext]_all, RamdiskInv', MemInv'
    PROVE  KindsInv'
<1> SUFFICES ASSUME step' \in Early \cup Late PROVE KindsInv'
  BY DEF KindsInv
<1>0. step \in Early \cup Late
  BY StepOrder DEF GuestBase
<1>a. ASSUME UNCHANGED <<vm, Images>>, Before' = Before
      PROVE  KindsInv'
  BY <1>0, <1>a, KeepsKinds
<1>b. ASSUME Images' = Images, NEW p, Before' = Before \cup {Frame(p)}
      PROVE  KindsInv'
  <2>1. Frame(p).num = 1
    BY DEF Frame
  <2> QED
    BY <1>0, <1>b, <2>1, KeepsKinds
<1>c. ASSUME vm' = vm, step' \in FromCopy <=> step \in FromCopy, step' \in Late <=> step \in Late
      PROVE  Images' = Images
  BY <1>c DEF Images, KernelBlock, RamdiskBlock
<1> USE DEF FromCopy, Late, Loop
<1>1. CASE StopStep
  BY <1>1 DEF StopStep, Stopped, Early, BeforeCopy
<1>2. CASE QuietStep
  <2>1. vm' = vm /\ held' = held /\ (step' = step \/ (step \notin {"copy kernel", "copy ramdisk"} /\ step' \notin {"copy kernel", "copy ramdisk"}))
    BY <1>2 DEF QuietStep, vars
  <2>2. Before' = Before
    BY <2>1 DEF Before
  <2>3. Images' = Images
    BY <1>2, <2>1, <1>c DEF QuietStep
  <2> QED
    BY <1>a, <2>1, <2>2, <2>3
<1>3. CASE TagStep
  <2>1. vm' = vm /\ step = "boot" /\ step' \in {"boot", "acpi"} /\ held' = held
    BY <1>3 DEF TagStep, boot_map_entry, boot_limit, boot_take_zero, boot_take_kernel,
          boot_take_module, boot_done
  <2> QED
    BY <1>a, <1>c, <2>1 DEF Before
<1>4. CASE VmStep
  <2>1. step = "virt" /\ step' = "percpu" /\ held' = held
    BY <1>4 DEF VmStep, vars
  <2>2. Images = {} /\ Images' = {} /\ Before' = Before
    BY <2>1 DEF Images, Before
  <2> QED
    BY <1>0, <2>2, KeepsKinds
<1>5. CASE FrameStep
  <2>1. vm' = vm /\ step' \notin {"copy kernel", "copy ramdisk"} /\ step \notin {"copy kernel", "copy ramdisk"}
    BY <1>5 DEF FrameStep
  <2>2. Images' = Images
    BY <1>5, <1>c, <2>1 DEF FrameStep
  <2>3. PICK p : held' = held \cup {Frame(p)}
    BY <1>5, FrameHeld DEF FrameStep
  <2>4. Before' = Before \cup {Frame(p)}
    BY <2>1, <2>3 DEF Before
  <2> QED
    BY <1>b, <2>2, <2>4
<1>6. CASE EntryStep
  <2>1. vm' = vm /\ held' = held /\ step = "entry" /\ step' \in {"tables", "entry"}
    BY <1>6 DEF EntryStep, vars
  <2> QED
    BY <1>a, <1>c, <2>1 DEF Before
<1>7. CASE SearchStep
  <2>1. vm' = vm /\ step' = step /\ step \in {"copy kernel", "copy ramdisk"}
    BY <1>7 DEF SearchStep, gvars
  <2> QED
    BY <1>a, <1>c, <2>1 DEF Before
<1>8. CASE ZeroStep
  <2>1. step = "zero" /\ step' = "kernel"
    BY <1>8 DEF ZeroStep
  <2>2. PICK p : held' = held \cup {Frame(p)}
    BY <1>8, FrameHeld DEF ZeroStep
  <2>3. Before' = Before \cup {Frame(p)} /\ Images' = Images
    BY <2>1, <2>2 DEF Before, Images
  <2> QED
    BY <1>b, <2>3
<1>9. CASE dst_kernel \/ dst_ramdisk
  <2>1. vm' = [vm EXCEPT !.before = held]
    BY <1>9 DEF dst_kernel, dst_ramdisk, dst_frames
  <2>2. vm = [img |-> vm.img, extra |-> vm.extra, zero |-> vm.zero, cmd |-> vm.cmd,
              before |-> vm.before]
    BY DEF GuestBase, VmType
  <2>3. vm'.img = vm.img /\ vm'.before = held
    BY <2>1, <2>2
  <2>4. KernelBlock' = KernelBlock
    BY <2>3 DEF KernelBlock
  <2>5. \/ step = "kernel" /\ step' = "copy kernel"
        \/ step = "ramdisk" /\ step' = "copy ramdisk"
    BY <1>9 DEF dst_kernel, dst_ramdisk, dst_frames
  <2>6. Before' = Before /\ Images' = Images
    BY <2>3, <2>4, <2>5 DEF Before, Images
  <2> QED
    BY <1>0, <2>6, KeepsKinds
<1>10. CASE copy_kernel
  <2>1. /\ step = "copy kernel" /\ step' = "cmd" /\ held' = held
        /\ held \subseteq vm.before \cup {KernelBlock'} /\ LargeFrames(KernelBlock')
    BY <1>10, KernelCopied
  <2>2. Images = {} /\ Images' = {KernelBlock'} /\ Before = vm.before /\ Before' = held
    BY <2>1 DEF Images, Before
  <2> QED
    BY <1>0, <2>1, <2>2, KeepsKinds
<1>11. CASE copy_ramdisk
  <2>1. /\ step = "copy ramdisk" /\ step' = "e820" /\ held' = held
        /\ held \subseteq vm.before \cup {RamdiskBlock'} /\ LargeFrames(RamdiskBlock')
        /\ vm'.img = vm.img
    BY <1>11, RamdiskCopied
  <2>2. KernelBlock' = KernelBlock
    BY <2>1 DEF KernelBlock
  <2>3. /\ Images = {KernelBlock} /\ Images' = {KernelBlock, RamdiskBlock'}
        /\ Before = vm.before /\ Before' = held
    BY <2>1, <2>2 DEF Images, Before
  <2> QED
    BY <1>0, <2>1, <2>3, KeepsKinds
<1>12. CASE cmd_frame
  <2>1. step = "cmd" /\ step' = "ramdisk"
    BY <1>12 DEF cmd_frame
  <2>2. vm'.img = vm.img
    <3>1. vm = [img |-> vm.img, extra |-> vm.extra, zero |-> vm.zero, cmd |-> vm.cmd,
                before |-> vm.before]
      BY DEF GuestBase, VmType
    <3> QED
      BY <1>12, <3>1 DEF cmd_frame
  <2>3. Images' = Images
    BY <2>1, <2>2 DEF Images, KernelBlock
  <2>4. held' = held \/ \E p : held' = held \cup {Frame(p)}
    BY <1>12, FrameHeld DEF cmd_frame, vars
  <2>5. Before' = Before \/ \E p : Before' = Before \cup {Frame(p)}
    BY <2>1, <2>4 DEF Before
  <2> QED
    BY <1>0, <1>b, <2>3, <2>5, KeepsKinds
<1>13. CASE e820_find \/ e820_end \/ e820_high \/ e820_small \/ e820_kernel \/ e820_low
  <2>1. vm' = vm /\ held' = held /\ step \in Loop /\ step' \in Loop \cup {"tables"}
    BY <1>13 DEF e820_find, e820_end, e820_high, e820_small, e820_kernel, e820_low, Give, Pass, vars
  <2> QED
    BY <1>a, <1>c, <2>1 DEF Before
<1> QED
  BY <1>1, <1>2, <1>3, <1>4, <1>5, <1>6, <1>7, <1>8, <1>9, <1>10, <1>11, <1>12, <1>13, StepCases
     DEF GuestBase, OtherStep

-----------------------------------------------------------------------------
(* The frames in use before the APs start                                  *)

\* The frames virt_percpu_init has asked for up to the zero page.
FramesMade ==
    IF step = "vmcs" THEN 1 ELSE IF step = "ept" THEN 2
    ELSE IF step = "pdpt" THEN 3 ELSE IF step = "zero" THEN 4 ELSE 0

FewFrames ==
    step \in {"boot"} \cup ToZero =>
        IsFiniteSet(held) /\ Cardinality(held) <= MaxBefore + FramesMade

LEMMA NextFewFrames ==
    ASSUME GuestBase, FewFrames, [KernelNext]_all
    PROVE  FewFrames'
<1> SUFFICES ASSUME step' \in {"boot"} \cup ToZero PROVE FewFrames'
  BY DEF FewFrames
<1> USE DEF ToZero
<1>0. MaxBefore \in Nat
  BY KernelAssumption
<1>1. CASE StopStep \/ EntryStep \/ SearchStep \/ ZeroStep
  BY <1>1 DEF StopStep, Stopped, EntryStep, SearchStep, ZeroStep, gvars
<1>2. CASE OtherStep
  BY <1>2 DEF OtherStep, dst_kernel, dst_ramdisk, dst_frames, copy_kernel, cmd_frame,
        copy_ramdisk, e820_find, e820_end, e820_high, e820_small, e820_kernel, e820_low, Give, Pass
<1>3. ASSUME step \in {"boot"} \cup ToZero, held' = held, FramesMade <= FramesMade'
      PROVE  FewFrames'
  <2>1. IsFiniteSet(held) /\ Cardinality(held) \in Nat /\ Cardinality(held) <= MaxBefore + FramesMade
    BY <1>3, FS_CardinalityType DEF FewFrames
  <2>2. FramesMade \in Nat /\ FramesMade' \in Nat
    BY DEF FramesMade
  <2> QED
    BY <1>0, <1>3, <2>1, <2>2 DEF FewFrames
<1>4. CASE QuietStep
  <2>1. step \in {"boot"} \cup ToZero /\ held' = held
    BY <1>4 DEF QuietStep, vars
  <2>2. step' = step \/ (step \in {"acpi", "config", "match", "aps", "virt"}
                         /\ step' \in {"config", "match", "aps", "virt", "percpu"})
    BY <1>4 DEF QuietStep
  <2>3. FramesMade' = FramesMade /\ FramesMade \in Nat
    BY <2>2 DEF FramesMade
  <2> QED
    BY <1>3, <2>1, <2>3
<1>5. CASE TagStep
  BY <1>3, <1>5 DEF TagStep, FramesMade, boot_map_entry, boot_limit, boot_take_zero,
        boot_take_kernel, boot_take_module, boot_done
<1>6. CASE VmStep
  BY <1>3, <1>6 DEF VmStep, FramesMade, vars
<1>7. CASE FrameStep
  <2>1. PICK p : held' = held \cup {Frame(p)}
    BY <1>7, FrameHeld DEF FrameStep
  <2>2. step \in ToZero
    BY <1>7 DEF FrameStep
  <2>3. PICK n \in Nat : IsFiniteSet(held) /\ n = Cardinality(held) /\ n <= MaxBefore + FramesMade
    BY <2>2, FS_CardinalityType DEF FewFrames
  <2>4. IsFiniteSet(held') /\ Cardinality(held') <= n + 1 /\ Cardinality(held') \in Nat
    BY <2>1, <2>3, FS_AddElement, FS_CardinalityType
  <2>5. n + 1 <= MaxBefore + FramesMade'
    BY <1>0, <1>7, <2>3 DEF FrameStep, FramesMade
  <2>6. PICK m \in Nat, c \in Nat : m = FramesMade' /\ c = Cardinality(held')
    BY <2>4 DEF FramesMade
  <2>7. c <= MaxBefore + m
    <3>1. c <= n + 1
      BY <2>4, <2>6
    <3>2. n + 1 <= MaxBefore + m
      BY <2>5, <2>6
    <3> QED
      BY <1>0, <3>1, <3>2
  <2> QED
    BY <2>4, <2>6, <2>7 DEF FewFrames
<1> QED
  BY <1>1, <1>2, <1>4, <1>5, <1>6, <1>7, StepCases DEF GuestBase

-----------------------------------------------------------------------------
(* The EPT                                                                 *)

\* The guards of the loop over the PDPT.
LEMMA TableSteps ==
    ASSUME FrameInv, [KernelNext]_all, step = "tables"
    PROVE  /\ step' = "entry" => ept.count < pdt_entries
           /\ step' = "vmcs fields" => ept.count >= pdt_entries
<1>1. CASE percpu_ept
  <2>0. CASE ept_pdt
    <3>1. step' \in {"entry", "panic"} /\ ept.count < pdt_entries
      BY <2>0 DEF ept_pdt, ept_frame
    <3> QED
      BY <3>1
  <2>1. CASE ept_done
    BY <2>1 DEF ept_done
  <2>2. CASE dst_search \/ setup_panics \/ dst_fails
    BY <2>2 DEF dst_search, setup_panics, dst_fails, panic, gvars
  <2>3. CASE OtherStep \/ ept_pml4t \/ ept_pdpt \/ zero_frame \/ ept_entry
    BY <2>3 DEF OtherStep, dst_kernel, dst_ramdisk, dst_frames, copy_kernel, cmd_frame,
          copy_ramdisk, e820_find, e820_end, e820_high, e820_small, e820_kernel, e820_low,
          ept_pml4t, ept_pdpt, zero_frame, ept_entry
  <2> QED
    BY <1>1, <2>0, <2>1, <2>2, <2>3 DEF percpu_ept, SetupStep, OtherStep
<1>2. CASE KernelStep /\ ~percpu_ept
  BY <1>2 DEF KernelStep, boot_return, boot_memory, boot_module, boot_config, boot_platform,
        boot_platform_done, parse_boot_info, match_module, match_done, acpi_sec_init, call_panics,
        virt_init, percpu_none, percpu_vmxon, percpu_vmcs, virt_guest_setup, virt_control_setup,
        virt_host_setup, vmlaunch
<1>3. CASE frame_in_use \/ UNCHANGED all
  BY <1>3 DEF frame_in_use, all, gvars
<1> QED
  BY <1>1, <1>2, <1>3 DEF KernelNext

\* One entry, of the first 2MB, as ram_size is 2MB.
EptInv ==
    step \in Early \cup Late =>
        /\ ept = [pml4t |-> ept.pml4t, count |-> ept.count, map |-> ept.map,
                  kernel_phy |-> ept.kernel_phy, ramdisk_phy |-> ept.ramdisk_phy]
        /\ step \in Early \cup Loop \cup {"entry"} => ept.count = 0
        /\ step = "tables" => ept.count = 0 \/ (ept.count = 1 /\ ept.map = FirstLargePage)
        /\ EptMade => ept.count = 1 /\ ept.map = FirstLargePage

LEMMA NextEptInv ==
    ASSUME pdt_entries = 1, FrameInv, EptInv, [KernelNext]_all
    PROVE  EptInv'
<1> SUFFICES ASSUME step' \in Early \cup Late PROVE EptInv'
  BY DEF EptInv
<1>0. step \in Early \cup Late
  BY StepOrder
<1> USE DEF Early, BeforeCopy, Late, Loop, EptMade
<1>1. CASE StopStep
  BY <1>1 DEF StopStep, Stopped
<1>a. ASSUME ept' = ept, step' \in Early \cup Loop \cup {"entry"} => ept.count = 0,
             step' = "tables" => step \in Loop \cup {"tables"},
             EptMade' => EptMade \/ (step = "tables" /\ step' = "vmcs fields")
      PROVE  EptInv'
  <2>1. FirstLargePage' = FirstLargePage
    BY DEF FirstLargePage
  <2>2. step = "tables" /\ step' = "vmcs fields" => ept.count >= 1
    BY TableSteps
  <2>3. step' = "tables" => ept.count = 0 \/ (ept.count = 1 /\ ept.map = FirstLargePage)
    BY <1>0, <1>a DEF EptInv
  <2> HIDE DEF EptMade, Early, Late, Loop, BeforeCopy
  <2>4. EptMade' => ept.count = 1 /\ ept.map = FirstLargePage
    <3>1. CASE EptMade
      BY <1>0, <3>1 DEF EptInv
    <3>2. CASE step = "tables" /\ step' = "vmcs fields"
      <4>1. ept.count >= 1
        BY <2>2, <3>2
      <4>2. ept.count = 0 \/ (ept.count = 1 /\ ept.map = FirstLargePage)
        BY <1>0, <3>2 DEF EptInv
      <4> QED
        BY <4>1, <4>2
    <3> QED
      BY <1>a, <3>1, <3>2
  <2>5. ept = [pml4t |-> ept.pml4t, count |-> ept.count, map |-> ept.map,
               kernel_phy |-> ept.kernel_phy, ramdisk_phy |-> ept.ramdisk_phy]
    BY <1>0 DEF EptInv
  <2> QED
    BY <1>a, <2>1, <2>3, <2>4, <2>5 DEF EptInv
<1>2. CASE QuietStep
  BY <1>0, <1>2, <1>a DEF QuietStep, EptInv
<1>3. CASE TagStep \/ VmStep \/ SearchStep \/ ZeroStep
  BY <1>0, <1>3, <1>a DEF TagStep, VmStep, SearchStep, ZeroStep, EptInv, gvars
<1>4. CASE OtherStep
  BY <1>0, <1>4, <1>a DEF OtherStep, dst_kernel, dst_ramdisk, dst_frames, copy_kernel, cmd_frame,
        copy_ramdisk, e820_find, e820_end, e820_high, e820_small, e820_kernel, e820_low, Give, Pass,
        EptInv
<1>5. CASE FrameStep /\ ept' = ept /\ step # "entry"
  <2>1. step = "tables" /\ step' = "entry" => ept.count = 0
    <3>1. step = "tables" /\ step' = "entry" => ept.count < 1
      BY TableSteps
    <3> QED
      BY <1>0, <3>1 DEF EptInv
  <2> QED
    BY <1>0, <1>5, <1>a, <2>1 DEF FrameStep, EptInv
<1>6. CASE ept_pml4t
  <2>1. step = "ept" /\ step' = "pdpt"
    BY <1>6 DEF ept_pml4t, ept_frame
  <2>2. /\ ept = [pml4t |-> ept.pml4t, count |-> ept.count, map |-> ept.map,
                  kernel_phy |-> ept.kernel_phy, ramdisk_phy |-> ept.ramdisk_phy]
        /\ ept.count = 0
    BY <1>0, <2>1 DEF EptInv
  <2>3. PICK a, k, r : ept' = [ept EXCEPT !.pml4t = a, !.kernel_phy = k, !.ramdisk_phy = r]
    BY <1>6 DEF ept_pml4t
  <2> QED
    BY <2>1, <2>2, <2>3 DEF EptInv
<1>7. CASE ept_entry
  <2>1. step = "entry"
    BY <1>7 DEF ept_entry
  <2>2. /\ ept = [pml4t |-> ept.pml4t, count |-> ept.count, map |-> ept.map,
                  kernel_phy |-> ept.kernel_phy, ramdisk_phy |-> ept.ramdisk_phy]
        /\ ept.count = 0
    BY <1>0, <2>1 DEF EptInv
  <2>3. ept' = [ept EXCEPT !.count = 1, !.map = FirstLargePage] /\ step' = "tables"
    <3> HIDE DEF Early, Late, Loop, BeforeCopy, EptMade
    <3>1. ept.count + 1 = 1 /\ 1 >= 1
      BY <2>2
    <3>2. /\ ept_frame("tables")
          /\ ept' = [ept EXCEPT !.count = 1, !.map = FirstLargePage]
      BY <1>7, <2>2, <3>1 DEF ept_entry
    <3>3. step' \in {"tables", "panic"}
      BY <3>2 DEF ept_frame
    <3>4. step' = "tables"
      BY <3>3 DEF Early, BeforeCopy, Late, Loop
    <3> QED
      BY <3>2, <3>4
  <2>4. FirstLargePage' = FirstLargePage
    BY DEF FirstLargePage
  <2>5. PICK f : f = FirstLargePage
    OBVIOUS
  <2>6. ept'.count = 1 /\ ept'.map = f /\
        ept' = [pml4t |-> ept'.pml4t, count |-> ept'.count, map |-> ept'.map,
                  kernel_phy |-> ept'.kernel_phy, ramdisk_phy |-> ept'.ramdisk_phy]
    BY <2>2, <2>3, <2>5
  <2> QED
    BY <2>3, <2>4, <2>5, <2>6 DEF EptInv
<1> QED
  BY <1>1, <1>2, <1>3, <1>4, <1>5, <1>6, <1>7, StepCases DEF FrameStep, EntryStep

-----------------------------------------------------------------------------
(* The large page at 4GB                                                   *)

\* The size of the image is that of a module without its set-up part.
SizeInv ==
    step \in FromCopy => \E k \in Mods : vm.img.len = machine.mods[k].len - SETUP

LEMMA NextSizeInv ==
    ASSUME SoundBoots, GuestBase, SizeInv, [KernelNext]_all
    PROVE  SizeInv'
<1> SUFFICES ASSUME step' \in FromCopy PROVE SizeInv'
  BY DEF SizeInv
<1>1. CASE copy_kernel
  BY <1>1, KernelCopied DEF SizeInv, Mods
<1>2. CASE ~copy_kernel
  <2> USE DEF FromCopy, Late, Loop
  <2>a. ASSUME step \in FromCopy, vm'.img = vm.img, machine' = machine
        PROVE  SizeInv'
    BY <2>a DEF SizeInv, Mods
  <2>v. vm = [img |-> vm.img, extra |-> vm.extra, zero |-> vm.zero, cmd |-> vm.cmd,
              before |-> vm.before]
    BY DEF GuestBase, VmType
  <2>1. CASE StopStep \/ TagStep \/ VmStep \/ ZeroStep
    BY <2>1 DEF StopStep, Stopped, TagStep, VmStep, ZeroStep
  <2>2. CASE QuietStep
    BY <2>2, <2>a DEF QuietStep, vars
  <2>3. CASE FrameStep \/ EntryStep \/ SearchStep
    <3>1. step \in FromCopy /\ vm' = vm
      BY <2>3 DEF FrameStep, EntryStep, SearchStep, gvars
    <3>2. machine' = machine
      BY <2>3 DEF FrameStep, EntryStep, SearchStep, alloc_phys_frame, vars, aligned_skip_entry,
            aligned_try, aligned_fail
    <3> QED
      BY <2>a, <3>1, <3>2
  <2>4. CASE dst_kernel \/ dst_ramdisk
    <3>1. step \in FromCopy /\ machine' = machine /\ vm' = [vm EXCEPT !.before = held]
      BY <2>4 DEF dst_kernel, dst_ramdisk, dst_frames, alloc_phys_frames_aligned
    <3> QED
      BY <2>a, <2>v, <3>1
  <2>5. CASE cmd_frame
    <3>1. step \in FromCopy /\ machine' = machine
      BY <2>5 DEF cmd_frame, alloc_phys_frame_lowmem, vars
    <3>2. vm' = vm \/ \E c : vm' = [vm EXCEPT !.cmd = c]
      BY <2>5 DEF cmd_frame
    <3> QED
      BY <2>a, <2>v, <3>1, <3>2
  <2>6. CASE copy_ramdisk
    <3>1. step \in FromCopy /\ machine' = machine
      BY <2>6 DEF copy_ramdisk
    <3>2. \E c : vm' = [vm EXCEPT !.extra.addr = c]
      BY <2>6 DEF copy_ramdisk
    <3>3. vm'.img = vm.img
      BY <2>v, <3>2
    <3> QED
      BY <2>a, <3>1, <3>3
  <2>7. CASE e820_find \/ e820_end \/ e820_high \/ e820_small \/ e820_kernel \/ e820_low
    <3>1. step \in FromCopy /\ machine' = machine /\ vm' = vm
      BY <2>7 DEF e820_find, e820_end, e820_high, e820_small, e820_kernel, e820_low, Give, Pass, vars
    <3> QED
      BY <2>a, <3>1
  <2> QED
    BY <1>2, <2>1, <2>2, <2>3, <2>4, <2>5, <2>6, <2>7, StepCases DEF GuestBase, OtherStep
<1> QED
  BY <1>1, <1>2

\* Only memory is free or handed out.
LEMMA OnlyMemory ==
    ASSUME MemInv, step \in Early \cup Late
    PROVE  mm_table \cup HeldPages \subseteq MapPages(machine)
BY DEF MemInv, EarlyMem, UsableInv, LateMem

\* The machine has memory at 4GB: what is required of it.
LEMMA HighMemory ==
    ASSUME SoundHigh, machine \in Machines, Above \cap MapPages(machine) # {}
    PROVE  /\ Above \subseteq MapPages(machine) \ Taken(machine)
           /\ \E h \in 0 .. G4 - 1 \ MapPages(machine) :
                 \A k \in Mods : LINUX_ENTRY_POINT + machine.mods[k].len <= h * PG_SIZE
           /\ MaxBefore + 4 <= Cardinality({p \in MapPages(machine) \ Taken(machine) :
                                               M1 <= p /\ p < G4})
BY DEF SoundHigh, SoundHighMemory, Mods, M1

\* There is a free frame below 4GB for every frame the code asks for before it
\* copies the image.
LEMMA Room ==
    ASSUME SoundHigh, GuestBase, CompleteInv, KindsInv, FewFrames, step \in ToZero \ {"zero"},
           Above \cap MapPages(machine) # {}
    PROVE  \E q \in mm_table : M1 <= q /\ q < G4
<1>1. /\ step \in Early /\ step \in {"boot"} \cup ToZero /\ step # "boot"
      /\ step \notin {"copy kernel", "copy ramdisk"} /\ step \notin FromCopy /\ step \notin Late
  BY DEF ToZero, Early, BeforeCopy, FromCopy, Late, Loop
<1>2. /\ mm_table \subseteq Nat /\ machine \in Machines /\ held \subseteq Blocks
      /\ boot.phase = "run"
  BY <1>1, TableOfPages DEF GuestBase, MemInv
<1> DEFINE S == {p \in MapPages(machine) \ Taken(machine) : M1 <= p /\ p < G4}
<1>3. S \subseteq mm_table \cup HeldPages
  BY <1>1, <1>2 DEF CompleteInv
<1>4. MaxBefore + 4 <= Cardinality(S)
  BY <1>2, HighMemory
<1> SUFFICES ASSUME S \cap mm_table = {} PROVE FALSE
  OBVIOUS
<1>5. \A b \in held : b.num = 1
  <2>1. Before = held /\ Images = {}
    BY <1>1 DEF Before, Images
  <2> QED
    BY <1>1, <2>1 DEF KindsInv
<1>6. \A p \in S : Frame(p) \in held
  <2> SUFFICES ASSUME NEW p \in S PROVE Frame(p) \in held
    OBVIOUS
  <2>1. p \in HeldPages
    BY <1>3
  <2>2. PICK b \in held : p \in Pages(b)
    BY <2>1 DEF HeldPages
  <2>3. b.num = 1 /\ b.base \in Nat /\ b = [base |-> b.base, num |-> b.num]
    BY <1>2, <1>5 DEF Blocks
  <2>4. p = b.base
    BY <2>2, <2>3 DEF Pages, Bits
  <2> QED
    BY <2>3, <2>4 DEF Frame
<1> HIDE DEF S
<1>7. [p \in S |-> Frame(p)] \in Injection(S, held)
  <2>1. \A x, y : Frame(x) = Frame(y) => x = y
    <3>1. \A x : Frame(x).base = x
      BY DEF Frame
    <3> QED
      BY <3>1
  <2> QED
    BY <1>6, <2>1 DEF Injection, IsInjective
<1>8. IsFiniteSet(held) /\ Cardinality(held) <= MaxBefore + FramesMade
  BY <1>1 DEF FewFrames
<1>9. FramesMade \in 0 .. 3
  BY DEF FramesMade, ToZero
<1>10. IsFiniteSet(S) /\ Cardinality(S) <= Cardinality(held)
  BY <1>7, <1>8, FS_Injection
<1>11. PICK x \in Nat, y \in Nat, z \in Nat, n \in Nat :
           x = Cardinality(S) /\ y = Cardinality(held) /\ z = MaxBefore /\ n = FramesMade
  BY <1>8, <1>9, <1>10, FS_CardinalityType, KernelAssumption
<1>12. z + 4 <= x /\ x <= y /\ y <= z + n /\ n <= 3
  BY <1>4, <1>8, <1>9, <1>10, <1>11
<1> QED
  BY <1>12

\* No single frame is in the large page at 4GB.
SingleInv ==
    step \in Early \cup Late => \A b \in held : b.num = 1 => b.base \notin Above

\* This is free as a whole or not at all, and the guest's at the end of
\* virt_setup_e820.
AboveInv ==
    /\ step \in Loop => Above \subseteq mm_table \/ Above \cap mm_table = {}
    /\ step \in Late \ Loop => Above \cap mm_table = {}

LEMMA NextSingleInv ==
    ASSUME SoundBoots, SoundHigh, GuestBase, CompleteInv, KindsInv, FewFrames, SingleInv, AboveInv,
           [KernelNext]_all
    PROVE  SingleInv'
<1> SUFFICES ASSUME step' \in Early \cup Late PROVE SingleInv'
  BY DEF SingleInv
<1>1. step \in Early \cup Late
  BY StepOrder DEF GuestBase
<1>2. \A b \in held : b.num = 1 => b.base \notin Above
  BY <1>1 DEF SingleInv
<1>3. Above' = Above
  BY DEF Above, Bits
<1>4. CASE held' = held
  BY <1>2, <1>3, <1>4 DEF SingleInv
<1>5. ASSUME NEW b, held' = held \cup {b}, b.num = 1 => b.base \notin Above
      PROVE  SingleInv'
  BY <1>2, <1>3, <1>5 DEF SingleInv
<1>6. CASE step = "boot"
  <2>1. ~(StopStep \/ VmStep \/ FrameStep \/ EntryStep \/ SearchStep \/ ZeroStep \/ OtherStep)
    BY <1>6 DEF StopStep, Stopped, VmStep, FrameStep, EntryStep, SearchStep, ZeroStep, OtherStep,
          dst_kernel, dst_ramdisk, dst_frames, copy_kernel, cmd_frame,
          copy_ramdisk, e820_find, e820_end, e820_high, e820_small, e820_kernel, e820_low,
          Early, BeforeCopy, Late, Loop
  <2>2. TagStep \/ QuietStep
    BY <2>1, StepCases DEF GuestBase
  <2>3. CASE TagStep
    BY <1>4, <2>3 DEF TagStep, boot_map_entry, boot_limit, boot_take_zero, boot_take_kernel,
          boot_take_module, boot_done
  <2>4. CASE QuietStep
    BY <1>4, <2>4 DEF QuietStep, vars
  <2> QED
    BY <2>2, <2>3, <2>4
<1>7. CASE step # "boot"
  <2>1. step \in ToZero \cup ToCmd \cup FromCmd /\ step' \notin Stopped
    BY <1>1, <1>7 DEF Early, BeforeCopy, ToZero, ToCmd, FromCmd, Late, Loop, Stopped
  <2>2. mm_table \subseteq Nat /\ machine \in Machines
    BY <1>1, TableOfPages DEF GuestBase
  <2>3. CASE SameFrames \/ Freed \/ GivenAway \/ NoCmdFrame
    BY <1>4, <2>3 DEF SameFrames, Freed, GivenAway, NoCmdFrame, vars
  <2>4. CASE HighTaken
    <3>1. PICK p \in mm_table : /\ held' = held \cup {Frame(p)} /\ Frame(p).base = p
                                /\ \A q \in mm_table : M1 <= q => p <= q
      BY <2>4 DEF HighTaken, Take, Frame
    <3>2. p \notin Above
      <4>1. CASE Above \cap MapPages(machine) = {}
        BY <1>1, <4>1, OnlyMemory DEF GuestBase
      <4>2. CASE Above \cap MapPages(machine) # {} /\ step \in ToZero \ {"zero"}
        <5>1. PICK q \in mm_table : M1 <= q /\ q < G4
          BY <4>2, Room
        <5>2. p <= q /\ p \in Nat /\ q \in Nat
          BY <2>2, <3>1, <5>1
        <5> QED
          BY <5>1, <5>2, AboveIs
      <4>3. CASE step \in {"tables", "entry"}
        BY <4>3 DEF AboveInv, Late, Loop
      <4>4. step \in ToZero \ {"zero"} \/ step \in {"tables", "entry"}
        BY <2>4 DEF HighTaken, FrameStep, ToZero
      <4> QED
        BY <4>1, <4>2, <4>3, <4>4
    <3> QED
      BY <1>5, <3>1, <3>2
  <2>5. CASE LargeTaken
    <3>1. PICK b : LargeBlock(b, op.num) /\ held' = held \cup {[base |-> b.base, num |-> b.num]}
      BY <2>5 DEF LargeTaken, Take
    <3>2. b = [base |-> b.base, num |-> b.num] /\ b.num = op.num /\ b.base \in Nat
      BY <3>1 DEF LargeBlock, Blocks
    <3>3. PICK bytes \in ImageSize : op # Idle => op.num = LargePages(bytes) * LARGE_PG
      <4>1. CASE step = "copy kernel"
        <5>1. vm.img.len - SETUP \in ImageSize
          BY <4>1, VmModules DEF GuestBase, ToCopy
        <5> QED
          BY <4>1, <5>1 DEF GuestBase, PendingInv, Pending
      <4>2. CASE step = "copy ramdisk"
        BY <4>2 DEF GuestBase, PendingInv, Pending, CopyInv, FromCopy
      <4> QED
        BY <2>5, <4>1, <4>2 DEF LargeTaken, SearchStep
    <3>4. op # Idle
      <4>1. op.kind = "aligned"
        BY <2>5 DEF LargeTaken, SearchStep, aligned_skip_entry, aligned_try, aligned_fail
      <4> QED
        BY <4>1 DEF Idle
    <3>5. b.num % LARGE_PG = 0
      BY <3>2, <3>3, <3>4, ImagePages DEF ImageSize
    <3>6. b.num # 1
      BY <3>1, <3>2, <3>5, LargeFramesNotOne DEF LargeFrames
    <3> QED
      BY <1>5, <3>1, <3>2, <3>6
  <2>6. ASSUME NEW p \in mm_table, LowTakes(p)
        PROVE  SingleInv'
    <3>1. held' = held \cup {Frame(p)} /\ Frame(p).base = p /\ p < M1
      BY <2>6 DEF LowTakes, Take, Frame
    <3>2. p \notin Above
      BY <2>2, <3>1, AboveIs, Geometry
    <3> QED
      BY <1>5, <3>1, <3>2
  <2> QED
    BY <2>1, <2>3, <2>4, <2>5, <2>6, MemSteps
<1> QED
  BY <1>6, <1>7

\* The large page at 4GB when virt_setup_e820 begins.
LEMMA AboveBegins ==
    ASSUME SoundBoots, SoundHigh, GuestBase, CompleteInv, KindsInv, SingleInv, copy_ramdisk,
           RamdiskInv', MemInv'
    PROVE  Above \subseteq mm_table' \/ Above \cap mm_table' = {}
<1>1. /\ step = "copy ramdisk" /\ step' = "e820" /\ held' = held
      /\ held \subseteq vm.before \cup {RamdiskBlock'} /\ LargeFrames(RamdiskBlock')
  BY RamdiskCopied
<1>2. machine' = machine /\ mm_table \subseteq mm_table'
  BY DEF copy_ramdisk, physical_free_range
<1>3. step \in Early /\ step # "boot" /\ machine \in Machines /\ held \subseteq Blocks
      /\ boot.phase = "run"
  <2>1. step \in Early /\ step # "boot"
    BY <1>1 DEF Early, BeforeCopy
  <2> QED
    BY <2>1, TableOfPages DEF GuestBase, MemInv
<1>4. LateMem'
  BY <1>1 DEF MemInv, Late, Loop
<1>5. HeldPages' = HeldPages /\ MapPages(machine)' = MapPages(machine)
  BY <1>1, <1>2 DEF HeldPages, MapPages
<1>6. HeldPages \cap mm_table' = {} /\ mm_table' \subseteq MapPages(machine)
  BY <1>4, <1>5 DEF LateMem
<1>7. CASE Above \cap MapPages(machine) = {}
  BY <1>6, <1>7
<1>8. CASE Above \cap MapPages(machine) # {}
  <2>1. Above \subseteq MapPages(machine) \ Taken(machine)
    BY <1>3, <1>8, HighMemory
  <2>2. Above \subseteq mm_table' \cup HeldPages
    BY <1>2, <1>3, <2>1 DEF CompleteInv
  <2>3. CASE Above \cap HeldPages = {}
    BY <2>2, <2>3
  <2>4. CASE Above \cap HeldPages # {}
    <3>1. PICK b \in held : Above \cap Pages(b) # {}
      BY <2>4 DEF HeldPages
    <3>2. b.num = 1 => Pages(b) = {b.base}
      BY <1>3 DEF Pages, Bits, Blocks
    <3>3. b.num # 1
      BY <1>3, <3>1, <3>2 DEF SingleInv
    <3>4. LargeFrames(b)
      <4>1. \A c \in vm.before : c.num = 1 \/ LargeFrames(c)
        BY <1>1, <1>3 DEF KindsInv, Before
      <4> QED
        BY <1>1, <3>3, <4>1
    <3>5. Above \subseteq Pages(b)
      BY <3>1, <3>4, LargeFramesAbove
    <3>6. Pages(b) \subseteq HeldPages
      BY DEF HeldPages
    <3> QED
      BY <1>6, <3>5, <3>6
  <2> QED
    BY <2>3, <2>4
<1> QED
  BY <1>7, <1>8

\* The hole in front of it: no free run from the guest's kernel reaches it.
LEMMA HoleBefore ==
    ASSUME SoundHigh, GuestBase, SizeInv, step \in Late, Above \subseteq mm_table
    PROVE  ~KernelRun(G4)
<1>1. LateMem /\ machine \in Machines /\ step \in FromCopy /\ mm_table \subseteq Nat
  BY DEF GuestBase, MemInv, LateMem, FromCopy
<1>2. mm_table \subseteq MapPages(machine)
  BY <1>1 DEF LateMem
<1>3. Above \cap MapPages(machine) # {}
  BY <1>2, AboveIs
<1>4. PICK h \in 0 .. G4 - 1 \ MapPages(machine) :
          \A k \in Mods : LINUX_ENTRY_POINT + machine.mods[k].len <= h * PG_SIZE
  BY <1>1, <1>3, HighMemory
<1>5. PICK k \in Mods : vm.img.len = machine.mods[k].len - SETUP
  BY <1>1 DEF SizeInv
<1>6. /\ LINUX_ENTRY_POINT \in Nat /\ machine.mods[k].len \in Nat /\ SETUP \in Nat
      /\ PG_SIZE \in Nat \ {0} /\ G4 \in Nat /\ h \in Nat /\ h < G4 /\ h \notin MapPages(machine)
  <2>1. LINUX_ENTRY_POINT \in Nat
    BY PhysAssumption, Geometry DEF LINUX_ENTRY_POINT, M1
  <2>2. machine.mods[k].len \in Nat
    BY <1>1, MachineAssumption DEF Mods, ByteRange
  <2> QED
    BY <1>4, <2>1, <2>2, AboveIs, PhysAssumption, GuestAssumption
<1>7. kernel_end <= h * PG_SIZE /\ kernel_end \in Int
  <2>1. PICK e \in Nat, l \in Nat, g \in Nat :
            e = LINUX_ENTRY_POINT /\ l = machine.mods[k].len /\ g = h * PG_SIZE
    BY <1>6
  <2>2. e + l <= g
    BY <1>4, <2>1
  <2>3. kernel_end = e + (l - SETUP)
    BY <1>5, <2>1 DEF kernel_end
  <2> QED
    BY <1>6, <2>1, <2>2, <2>3
<1> SUFFICES ASSUME NEW q \in 0 .. G4, q * PG_SIZE < kernel_end, q .. G4 \subseteq mm_table
             PROVE  FALSE
  BY DEF KernelRun
<1>8. q <= h
  <2>1. CASE h < q
    <3>1. PG_SIZE * h <= PG_SIZE * q
      BY <1>6, <2>1, MulLe
    <3>2. PG_SIZE * h = h * PG_SIZE /\ PG_SIZE * q = q * PG_SIZE /\ q * PG_SIZE \in Int /\ h * PG_SIZE \in Int
      BY <1>6
    <3> QED
      BY <1>7, <3>1, <3>2
  <2> QED
    BY <1>6, <2>1
<1>9. h \in q .. G4
  BY <1>6, <1>8
<1> QED
  BY <1>2, <1>6, <1>9

\* A step of the loop.
LEMMA AboveRange ==
    ASSUME GuestBase, ScanInv, e820_high \/ e820_small \/ e820_kernel \/ e820_low,
           Above \subseteq mm_table \/ Above \cap mm_table = {}
    PROVE  Above \subseteq mm_table' \/ Above \cap mm_table' = {}
<1>1. scan.start \in Nat /\ scan.size \in Nat \ {0}
      /\ FirstRun(scan.from, scan.start, scan.start + scan.size)
  BY RangeStep
<1>2. CASE mm_table' = mm_table
  BY <1>2
<1>3. CASE e820_high /\ Rest > 0 /\ Whole > 0 /\ mm_table' = mm_table \ Bits(Aligned, Whole)
  <2>1. Aligned \in Nat /\ Aligned % LARGE_PG = 0 /\ Whole \in Nat /\ Whole % LARGE_PG = 0
    BY <1>1, <1>3, RangeParts DEF ScanInv
  <2>2. Above \cap Bits(Aligned, Whole) # {} => Above \subseteq Bits(Aligned, Whole)
    BY <2>1, WholeLarge
  <2> QED
    BY <1>3, <2>2
<1>4. ASSUME e820_low, NEW d \in {0, 2},
             mm_table' = mm_table \ Bits(scan.start - d, scan.size + d)
      PROVE  Above \subseteq mm_table' \/ Above \cap mm_table' = {}
  <2>1. CASE Above \cap mm_table = {}
    BY <1>4, <2>1
  <2>2. CASE Above \subseteq mm_table
    <3>1. scan.start < M1
      BY <1>4, RangeLow
    <3>2. PICK s \in Nat, n \in Nat : s = scan.start /\ n = scan.size
      BY <1>1
    <3>3. s + n \notin mm_table
      BY <1>1, <3>2 DEF FirstRun
    <3>4. s + n \notin Above
      BY <2>2, <3>3
    <3>5. s < G4 /\ (s + n <= G4 \/ G4 + LARGE_PG <= s + n)
      BY <3>1, <3>2, <3>4, AboveIs, Geometry
    <3>6. Bits(scan.start - d, scan.size + d) = s - d .. s + n - 1
      <4>1. d \in Int /\ s - d + (n + d) - 1 = s + n - 1
        BY <3>2
      <4> QED
        BY <3>2, <4>1 DEF Bits
    <3>7. CASE s + n <= G4
      BY <1>4, <2>2, <3>2, <3>6, <3>7, AboveIs
    <3>8. CASE G4 + LARGE_PG <= s + n
      <4>1. Above \subseteq s - d .. s + n - 1
        BY <3>2, <3>5, <3>8, AboveIs, Geometry
      <4> QED
        BY <1>4, <3>6, <4>1
    <3> QED
      BY <3>5, <3>7, <3>8
  <2> QED
    BY <2>1, <2>2
<1>5. CASE e820_low /\ scan'.start = scan.start - 2 /\ scan'.size = scan.size + 2
           /\ mm_table' = mm_table \ Bits(scan'.start, scan'.size)
  BY <1>4, <1>5
<1>6. CASE e820_low /\ scan'.start = scan.start /\ scan'.size = scan.size
           /\ mm_table' = mm_table \ Bits(scan'.start, scan'.size)
  <2>1. scan.start - 0 = scan.start /\ scan.size + 0 = scan.size
    BY <1>1
  <2> QED
    BY <1>4, <1>6, <2>1
<1> QED
  BY <1>2, <1>3, <1>5, <1>6, RangeStep

LEMMA NextAboveInv ==
    ASSUME SoundBoots, SoundHigh, GuestBase, ScanInv, CompleteInv, KindsInv, SingleInv, EptInv,
           SizeInv, AboveInv, [KernelNext]_all, RamdiskInv', MemInv', LeftInv'
    PROVE  AboveInv'
<1>0. Above' = Above
  BY DEF Above, Bits
<1>1. CASE step' \notin Late
  BY <1>1 DEF AboveInv, Late
<1>2. CASE copy_ramdisk
  <2>1. Above \subseteq mm_table' \/ Above \cap mm_table' = {}
    BY <1>2, AboveBegins
  <2>2. step' \in Loop
    BY <1>2 DEF copy_ramdisk, Loop
  <2> QED
    BY <1>0, <2>1, <2>2 DEF AboveInv
<1>3. CASE step \in Late \ Loop /\ step' \in Late
  <2>1. mm_table' \subseteq mm_table
    BY <1>3, LateStep
  <2>2. Above \cap mm_table' = {}
    BY <1>3, <2>1 DEF AboveInv
  <2> QED
    BY <1>0, <2>2 DEF AboveInv
<1>4. CASE step \in Loop /\ step' \in Loop
  <2>1. Above \subseteq mm_table \/ Above \cap mm_table = {}
    BY <1>4 DEF AboveInv
  <2>2. mm_table' = mm_table \/ e820_high \/ e820_small \/ e820_kernel \/ e820_low
    <3>1. ~(StopStep \/ TagStep \/ VmStep \/ FrameStep \/ SearchStep \/ ZeroStep)
      BY <1>4 DEF StopStep, Stopped, TagStep, VmStep, FrameStep, SearchStep, ZeroStep, Loop
    <3>2. CASE QuietStep \/ EntryStep
      BY <3>2 DEF QuietStep, EntryStep, vars
    <3>3. CASE OtherStep
      BY <1>4, <3>3 DEF OtherStep, dst_kernel, dst_ramdisk, dst_frames, copy_kernel, cmd_frame,
            copy_ramdisk, e820_find, e820_end, Loop, vars
    <3> QED
      BY <3>1, <3>2, <3>3, StepCases DEF GuestBase
  <2>3. Above \subseteq mm_table' \/ Above \cap mm_table' = {}
    BY <2>1, <2>2, AboveRange
  <2> QED
    BY <1>0, <1>4, <2>3 DEF AboveInv
<1>5. CASE step \in Loop /\ step' \in Late \ Loop
  <2>1. step' = "tables" /\ UNCHANGED <<ept, vm, mm_table>>
    <3>1. ~(StopStep \/ QuietStep \/ TagStep \/ VmStep \/ FrameStep \/ EntryStep \/ SearchStep \/ ZeroStep)
      BY <1>5 DEF StopStep, Stopped, QuietStep, TagStep, VmStep, FrameStep, EntryStep, SearchStep,
            ZeroStep, Loop, Late, gvars
    <3>2. OtherStep
      BY <3>1, StepCases DEF GuestBase
    <3> QED
      BY <1>5, <3>2 DEF OtherStep, dst_kernel, dst_ramdisk, dst_frames, copy_kernel, cmd_frame,
            copy_ramdisk, e820_find, e820_end, e820_high, e820_small, e820_kernel, e820_low,
            Give, Pass, Loop, Late, vars
  <2>2. ept'.count = 0
    BY <1>5, <2>1 DEF EptInv, Late
  <2>3. (\A lim \in Nat : NoLeft(lim))'
    BY <2>1, <2>2 DEF LeftInv
  <2>4. ~(Above \subseteq mm_table')
    <3> SUFFICES ASSUME Above \subseteq mm_table' PROVE FALSE
      OBVIOUS
    <3>1. NoLeft(G4 + 1)'
      BY <2>3, AboveIs
    <3>2. KernelRun(G4)'
      BY <3>1, AboveIs, GuestAssumption DEF NoLeft, Above
    <3>3. KernelRun(G4)
      BY <2>1, <3>2 DEF KernelRun, kernel_end, LINUX_ENTRY_POINT
    <3> QED
      BY <1>5, <2>1, <3>3, HoleBefore DEF Late
  <2>5. Above \cap mm_table' = {}
    BY <1>5, <2>1, <2>4 DEF AboveInv
  <2> QED
    BY <1>0, <1>5, <2>5 DEF AboveInv
<1> QED
  BY <1>1, <1>2, <1>3, <1>4, <1>5, StepOrder DEF GuestBase

-----------------------------------------------------------------------------
(* What the guest reaches through the EPT                                  *)

\* The inductive invariant of the EPT.
EptGuestInv ==
    /\ GuestInv
    /\ KindsInv /\ FewFrames /\ EptInv /\ SizeInv /\ SingleInv /\ AboveInv

LEMMA InitEptGuestInv == KernelInit => EptGuestInv
<1> SUFFICES ASSUME KernelInit PROVE EptGuestInv
  OBVIOUS
<1>1. GuestInv
  BY InitGuestInv
<1>2. /\ step = "boot" /\ held = {}
      /\ ept = [pml4t |-> {}, count |-> 0, map |-> {}, kernel_phy |-> 0, ramdisk_phy |-> 0]
  BY DEF KernelInit, GuestInit, Init
<1>3. KindsInv /\ SingleInv
  BY <1>2 DEF KindsInv, SingleInv, Before
<1>4. FewFrames
  <2>1. IsFiniteSet({}) /\ Cardinality({}) = 0 /\ MaxBefore \in Nat
    BY FS_EmptySet, KernelAssumption
  <2>2. FramesMade = 0
    BY <1>2 DEF FramesMade
  <2> QED
    BY <1>2, <2>1, <2>2 DEF FewFrames
<1>5. EptInv
  BY <1>2 DEF EptInv, EptMade
<1>6. SizeInv /\ AboveInv
  BY <1>2 DEF SizeInv, AboveInv, FromCopy, Late, Loop
<1> QED
  BY <1>1, <1>3, <1>4, <1>5, <1>6 DEF EptGuestInv

LEMMA NextEptGuestInv ==
    ASSUME SoundBoots, SoundLow, SoundHigh, pdt_entries = 1
    PROVE  EptGuestInv /\ [KernelNext]_all => EptGuestInv'
<1> SUFFICES ASSUME EptGuestInv, [KernelNext]_all PROVE EptGuestInv'
  OBVIOUS
<1>1. /\ GuestInv /\ GuestBase /\ FrameInv /\ ScanInv /\ CompleteInv
      /\ KindsInv /\ FewFrames /\ EptInv /\ SizeInv /\ SingleInv /\ AboveInv
  BY DEF EptGuestInv, GuestInv, LoopInv, GuestBase
<1>2. GuestInv'
  BY <1>1, NextGuestInv
<1>3. RamdiskInv' /\ MemInv' /\ LeftInv'
  BY <1>2 DEF GuestInv, LoopInv, GuestBase
<1>4. KindsInv'
  BY <1>1, <1>3, NextKindsInv
<1>5. FewFrames' /\ EptInv' /\ SizeInv'
  BY <1>1, NextFewFrames, NextEptInv, NextSizeInv
<1>6. SingleInv'
  BY <1>1, NextSingleInv
<1>7. AboveInv'
  BY <1>1, <1>3, NextAboveInv
<1> QED
  BY <1>2, <1>4, <1>5, <1>6, <1>7 DEF EptGuestInv

\* The page table of the first 2MB: low memory, and the half of a large page
\* behind 4GB.
LEMMA EptPages ==
    ASSUME ept.map = FirstLargePage
    PROVE  /\ EptHost = Bits(0, M1) \cup Bits(G4 + M1, M1)
           /\ EptGuest = Bits(0, LARGE_PG)
           /\ Bits(G4 + M1, M1) \subseteq Above
<1> DEFINE lo == [guest |-> 0, host |-> 0, num |-> M1]
           hi == [guest |-> M1, host |-> G4 + M1, num |-> M1]
<1>1. LARGE_PG \div 2 = M1 /\ M1 \in Nat \ {0} /\ LARGE_PG = 2 * M1
  BY Geometry
<1>2. ept.map = {lo, hi}
  BY <1>1 DEF FirstLargePage
<1>3. EptHost = Bits(lo.host, lo.num) \cup Bits(hi.host, hi.num)
  BY <1>2 DEF EptHost
<1>4. EptGuest = Bits(lo.guest, lo.num) \cup Bits(hi.guest, hi.num)
  BY <1>2 DEF EptGuest
<1>5. EptGuest = Bits(0, M1) \cup Bits(M1, M1)
  BY <1>4
<1>6. Bits(0, M1) \cup Bits(M1, M1) = Bits(0, LARGE_PG)
  BY <1>1 DEF Bits
<1>7. Bits(G4 + M1, M1) \subseteq Above
  BY <1>1, AboveIs DEF Bits
<1> QED
  BY <1>3, <1>5, <1>6, <1>7

\* zero_frame and cmd_frame are in low memory.
LEMMA ZeroCmdLow ==
    ASSUME GuestInv, step \in Late
    PROVE  \A p \in {vm.zero, vm.cmd} : p \in Nat /\ p < M1
<1>1. ZeroIs /\ CmdIs
  BY DEF GuestInv, LowFrames, FromCmd
<1>2. machine \in Machines
  BY DEF GuestInv, LoopInv, GuestBase, MemInv, LateMem
<1>3. vm.zero \in LowPages(machine)
  BY <1>1, LeastMember DEF ZeroIs
<1>4. vm.cmd \in LowPages(machine) \/ vm.cmd = 0
  BY <1>1, LeastMember DEF CmdIs
<1> QED
  BY <1>2, <1>3, <1>4, LowPagesAre, Geometry

\* What is handed out within reach of the guest is its own.
LEMMA HeldReach ==
    ASSUME EptGuestInv, step \in Late, NEW p \in HeldPages, p < M1 \/ p \in Above
    PROVE  p \in GuestFrames \cup KernelFrames
<1>1. PICK b \in held : p \in Pages(b)
  BY DEF HeldPages
<1>2. b \in Blocks
  BY TableOfPages DEF EptGuestInv, GuestInv, LoopInv, GuestBase
<1>3. CASE b.num = 1
  <2>1. p = b.base /\ p \in Nat
    BY <1>1, <1>2, <1>3 DEF Pages, Bits, Blocks
  <2>2. p \notin Above
    BY <1>3, <2>1 DEF EptGuestInv, SingleInv
  <2>3. p \in {vm.zero, vm.cmd}
    <3>1. M1 <= b.base \/ b.base \in {vm.zero, vm.cmd}
      BY DEF EptGuestInv, GuestInv, HeldInv
    <3> QED
      BY <2>1, <2>2, <3>1, Geometry
  <2> QED
    BY <2>3 DEF GuestFrames
<1>4. CASE b.num # 1
  <2>1. Before = held /\ Images = {KernelBlock, RamdiskBlock}
    BY DEF Before, Images, FromCopy, Late, Loop
  <2>2. b \in {KernelBlock, RamdiskBlock}
    BY <1>4, <2>1 DEF EptGuestInv, KindsInv
  <2>3. Pages(KernelBlock) = KernelFrames
    BY DEF Pages, KernelBlock, KernelFrames
  <2>4. Pages(RamdiskBlock) = RamdiskFrames
    BY RamdiskFramesAre DEF EptGuestInv, GuestInv, LoopInv
  <2> QED
    BY <1>1, <2>2, <2>3, <2>4 DEF GuestFrames
<1> QED
  BY <1>3, <1>4

\* The guest reaches nothing of the hypervisor through the EPT, and no frame the
\* hypervisor could still hand out: for every memory map, module list and page
\* geometry, with the one large page that ram_size asks for.  The 2MB at 4GB,
\* which nobody takes from the allocator, are to be no memory, or memory that
\* virt_setup_e820 gives to the guest: none of it in use at boot, a hole below,
\* and enough frames below 4GB for what kernel_main asks for before.
THEOREM GuestEptPrivate ==
    ASSUME SoundBoots, SoundLow, SoundHigh, pdt_entries = 1
    PROVE  KernelSpec => []EptPrivate
<1>1. EptGuestInv => EptPrivate
  <2> SUFFICES ASSUME EptGuestInv, EptMade PROVE EptPrivate
    BY DEF EptPrivate
  <2>1. step \in Late \ Loop /\ step \in Early \cup Late
    BY DEF EptMade, Late, Loop
  <2>2. ept.map = FirstLargePage
    BY <2>1 DEF EptGuestInv, EptInv
  <2>3. /\ EptHost = Bits(0, M1) \cup Bits(G4 + M1, M1) /\ EptGuest = Bits(0, LARGE_PG)
        /\ Bits(G4 + M1, M1) \subseteq Above
    BY <2>2, EptPages
  <2>4. \A p \in EptHost : p \in Bits(0, M1) \/ p \in Above
    BY <2>3
  <2>5. LateMem /\ machine \in Machines /\ mm_table \subseteq Nat
    BY <2>1 DEF EptGuestInv, GuestInv, LoopInv, GuestBase, MemInv, LateMem
  <2>6. EptHost \cap Touched(machine.kernel) = {}
    <3>1. Touched(machine.kernel) \cap (Bits(0, M1) \cup Above) = {}
      BY <2>5 DEF SoundHigh, SoundHighMemory, M1
    <3> QED
      BY <2>4, <3>1
  <2>7. EptHost \cap (HeldPages \ (GuestFrames \cup KernelFrames)) = {}
    <3>1. \A p \in Bits(0, M1) : p < M1
      BY Geometry DEF Bits
    <3> QED
      BY <2>1, <2>4, <3>1, HeldReach
  <2>8. EptHost \cap mm_table = {}
    <3>1. Above \cap mm_table = {}
      BY <2>1 DEF EptGuestInv, AboveInv
    <3>2. \A p \in mm_table : M1 <= p
      BY <2>1 DEF EptGuestInv, GuestInv, LowFree
    <3>3. Bits(0, M1) \cap mm_table = {}
      BY <2>5, <3>2, Geometry DEF Bits
    <3> QED
      BY <2>4, <3>1, <3>3
  <2>9. \A p \in {vm.zero, vm.cmd} : \E b \in ept.map :
            b.guest = b.host /\ p \in Bits(b.guest, b.num)
    <3> SUFFICES ASSUME NEW p \in {vm.zero, vm.cmd}
                 PROVE  \E b \in ept.map : b.guest = b.host /\ p \in Bits(b.guest, b.num)
      OBVIOUS
    <3>1. PICK n \in Nat : n = LARGE_PG \div 2 /\ n = M1
      BY Geometry
    <3>2. PICK b : b = [guest |-> 0, host |-> 0, num |-> n]
      OBVIOUS
    <3>3. b \in ept.map
      BY <2>2, <3>1, <3>2 DEF FirstLargePage
    <3>4. p \in Nat /\ p < n
      BY <2>1, <3>1, ZeroCmdLow DEF EptGuestInv
    <3>5. b.guest = b.host /\ p \in Bits(b.guest, b.num)
      BY <3>2, <3>4 DEF Bits
    <3> QED
      BY <3>3, <3>5
  <2>10. EptGuest = Bits(0, pdt_entries * LARGE_PG)
    <3>1. 1 * LARGE_PG = LARGE_PG
      BY Geometry
    <3> QED
      BY <2>3, <3>1
  <2> QED
    BY <2>6, <2>7, <2>8, <2>9, <2>10 DEF EptPrivate
<1> QED
  BY <1>1, InitEptGuestInv, NextEptGuestInv, PTL DEF KernelSpec

-----------------------------------------------------------------------------
(* The VM at its launch                                                    *)

\* The steps with a VMXON region, with a VMCS, with a PML4T.
WithOn   == ToCopy \cup FromCopy
WithVmcs == WithOn \ {"vmcs"}
WithEpt  == WithVmcs \ {"ept"}
ToVmx    == Early \ WithOn

\* The frame of one of them.
OwnFrame(S) == \E p \in Nat : S = {p} /\ M1 <= p /\ Frame(p) \in held

\* The groups of fields written so far.
Groups ==
    IF step = "controls" THEN {"guest"}
    ELSE IF step = "host" THEN {"guest", "control"}
    ELSE IF step \in {"launch", "guest"} THEN {"guest", "control", "host"} ELSE {}

OwnFrames ==
    /\ step \in WithOn => OwnFrame(vmx.on)
    /\ step \in WithVmcs => OwnFrame(vmx.vmcs) /\ vmx.on \cap vmx.vmcs = {}
    /\ step \in WithEpt =>
           OwnFrame(ept.pml4t) /\ (vmx.on \cup vmx.vmcs) \cap ept.pml4t = {}

VmcsInv ==
    /\ vmx = [vm |-> vmx.vm, on |-> vmx.on, vmcs |-> vmx.vmcs, revision |-> vmx.revision,
              current |-> vmx.current, clear |-> vmx.clear, fields |-> vmx.fields,
              eptp |-> vmx.eptp]
    /\ step \in WithVmcs => vmx.current = vmx.vmcs /\ vmx.vmcs \subseteq vmx.clear
    /\ vmx.fields = Groups
    /\ step \in {"host", "launch", "guest"} => vmx.eptp = ept.pml4t

VmxInv == step \in Early \cup Late => OwnFrames /\ VmcsInv

\* The actions as far as they concern the VM's own frames and the VMCS.
BeforeVmx ==
    /\ step \in ToVmx /\ step' \in ToVmx
    /\ vmx' = vmx \/ vmx' = [vmx EXCEPT !.vm = TRUE]
SetupVmx ==
    /\ vmx' = vmx /\ ept'.pml4t = ept.pml4t
    /\ step' = step \/ (step \in WithEpt /\ step' \in WithEpt /\ Groups' = Groups
                        /\ step' \notin {"host", "launch", "guest"})
                    \/ (step = "launch" /\ step' = "guest")

LEMMA VmxSteps ==
    ASSUME FrameInv, EptInv, [KernelNext]_all, step' \in Early \cup Late
    PROVE  \/ BeforeVmx \/ SetupVmx \/ percpu_vmxon \/ percpu_vmcs \/ (ept_pml4t /\ vmx' = vmx)
           \/ virt_guest_setup \/ virt_control_setup \/ virt_host_setup
<1> USE DEF ToVmx, WithOn, WithVmcs, WithEpt, ToCopy, FromCopy, Early, BeforeCopy, Late, Loop
<1>0. step \in Early \cup Late
  BY StepOrder
<1>1. CASE boot_return \/ boot_memory \/ boot_module \/ boot_config \/ boot_platform
  BY <1>1 DEF boot_return, boot_memory, boot_module, boot_config, boot_platform, Next_line, gvars,
        kvars, BeforeVmx
<1>2. CASE boot_platform_done \/ parse_boot_info \/ match_module \/ match_done \/ acpi_sec_init
           \/ frame_in_use
  BY <1>2 DEF boot_platform_done, parse_boot_info, match_module, match_done, acpi_sec_init,
        frame_in_use, Next_line, gvars, kvars, BeforeVmx
<1>3. CASE call_panics \/ percpu_none
  BY <1>3 DEF call_panics, kernel_panic, panic, percpu_none, Next_line
<1>4. CASE virt_init
  BY <1>4 DEF virt_init, panic, BeforeVmx
<1>5. CASE vmlaunch
  BY <1>5 DEF vmlaunch, Next_line, kvars, SetupVmx
<1>6. CASE UNCHANGED all
  BY <1>6 DEF all, gvars, kvars, SetupVmx
<1>7. CASE percpu_ept
  <2>1. vmx' = vmx
    BY <1>7 DEF percpu_ept, kvars
  <2>2. CASE dst_fails \/ setup_panics
    BY <2>2 DEF dst_fails, setup_panics, panic
  <2>3. CASE ept_entry
    <3>1. step = "entry" /\ step' \in {"tables", "entry"}
      BY <2>3 DEF ept_entry, ept_frame
    <3>2. /\ ept = [pml4t |-> ept.pml4t, count |-> ept.count, map |-> ept.map,
                    kernel_phy |-> ept.kernel_phy, ramdisk_phy |-> ept.ramdisk_phy]
          /\ ept.count = 0
      BY <1>0, <3>1 DEF EptInv
    <3>3. ept' = [ept EXCEPT !.count = ept.count + 1, !.map = FirstLargePage]
      BY <2>3, <3>2 DEF ept_entry
    <3>4. ept'.pml4t = ept.pml4t
      BY <3>2, <3>3
    <3> QED
      BY <2>1, <3>1, <3>4 DEF SetupVmx, Groups
  <2>4. CASE ept_pdpt \/ zero_frame \/ ept_pdt \/ ept_done
    BY <2>1, <2>4 DEF ept_pdpt, zero_frame, ept_pdt, ept_done, ept_frame, SetupVmx, Groups
  <2>5. CASE dst_search
    BY <2>1, <2>5 DEF dst_search, gvars, SetupVmx
  <2>6. CASE OtherStep
    BY <2>1, <2>6 DEF OtherStep, dst_kernel, dst_ramdisk, dst_frames, copy_kernel, cmd_frame,
          copy_ramdisk, e820_find, e820_end, e820_high, e820_small, e820_kernel, e820_low, Give, Pass,
          SetupVmx, Groups
  <2> QED
    BY <1>7, <2>1, <2>2, <2>3, <2>4, <2>5, <2>6 DEF percpu_ept, SetupStep, OtherStep
<1> QED
  BY <1>1, <1>2, <1>3, <1>4, <1>5, <1>6, <1>7 DEF KernelNext, KernelStep

\* What is handed out stays so.
LEMMA HeldStays ==
    ASSUME SoundBoots, GuestBase, [KernelNext]_all, step \in ToZero \cup ToCmd \cup FromCmd,
           step' \notin Stopped
    PROVE  held \subseteq held'
BY MemSteps DEF SameFrames, HighTaken, LargeTaken, Freed, GivenAway, LowTakes, NoCmdFrame, Take, vars

LEMMA OwnFrameStays ==
    ASSUME held \subseteq held', NEW S, OwnFrame(S)
    PROVE  \E p \in Nat : S = {p} /\ M1 <= p /\ Frame(p) \in held'
BY DEF OwnFrame

\* A new frame is none of the frames in use.
LEMMA NewOwnFrame ==
    ASSUME GuestBase, step \in Early \ {"boot"}, alloc_phys_frame
    PROVE  /\ \E p \in Nat : NewFrame = {p} /\ M1 <= p /\ Frame(p) \in held'
           /\ held \subseteq held'
           /\ \A S : OwnFrame(S) => S \cap NewFrame = {}
<1>1. mm_table \subseteq Nat /\ entry_end \in Nat /\ EarlyMem
  BY TableOfPages DEF GuestBase, MemInv
<1>2. PICK p \in mm_table : M1 <= p /\ Take(p, 1) /\ FirstFrame(LOWMEM, entry_end) = {p}
  BY <1>1, HighFrameIs
<1>3. NewFrame = {p} /\ Frame(p) \in held' /\ held \subseteq held'
  BY <1>2 DEF NewFrame, Take, Frame
<1>4. HeldPages \cap mm_table = {}
  BY <1>1 DEF EarlyMem, IInv, FramesApart
<1>5. \A q \in Nat : Frame(q) \in held => q \in HeldPages
  <2> SUFFICES ASSUME NEW q \in Nat, Frame(q) \in held PROVE q \in HeldPages
    OBVIOUS
  <2>1. q \in Pages(Frame(q))
    BY DEF Pages, Bits, Frame
  <2> QED
    BY <2>1 DEF HeldPages
<1>6. \A S : OwnFrame(S) => S \cap NewFrame = {}
  BY <1>2, <1>3, <1>4, <1>5 DEF OwnFrame
<1> QED
  BY <1>1, <1>2, <1>3, <1>6

LEMMA NextOwnFrames ==
    ASSUME SoundBoots, GuestBase, EptInv, VmxInv, [KernelNext]_all, step' \in Early \cup Late
    PROVE  OwnFrames'
<1>0. FrameInv /\ step \in Early \cup Late
  BY StepOrder DEF GuestBase
<1>1. OwnFrames /\ VmcsInv
  BY <1>0 DEF VmxInv
<1>2. vmx = [vm |-> vmx.vm, on |-> vmx.on, vmcs |-> vmx.vmcs, revision |-> vmx.revision,
             current |-> vmx.current, clear |-> vmx.clear, fields |-> vmx.fields,
             eptp |-> vmx.eptp]
  BY <1>1 DEF VmcsInv
<1>3. CASE BeforeVmx
  BY <1>3 DEF BeforeVmx, ToVmx, WithVmcs, WithEpt, OwnFrames
<1>a. step \in WithOn => held \subseteq held'
  <2>1. step \in WithOn => step \in ToZero \cup ToCmd \cup FromCmd
    BY DEF WithOn, ToCopy, FromCopy, ToZero, ToCmd, FromCmd, Late, Loop
  <2>2. step' \notin Stopped
    BY DEF Stopped, Early, BeforeCopy, Late, Loop
  <2> QED
    BY <2>1, <2>2, HeldStays
<1>b. \A S : OwnFrame(S) /\ step \in WithOn =>
          \E p \in Nat : S = {p} /\ M1 <= p /\ Frame(p) \in held'
  BY <1>a, OwnFrameStays
<1>c. ASSUME NEW on, NEW vmcs, NEW pml4t, vmx'.on = on, vmx'.vmcs = vmcs, ept'.pml4t = pml4t,
             step' \in WithOn => \E p \in Nat : on = {p} /\ M1 <= p /\ Frame(p) \in held',
             step' \in WithVmcs => /\ \E p \in Nat : vmcs = {p} /\ M1 <= p /\ Frame(p) \in held'
                                   /\ on \cap vmcs = {},
             step' \in WithEpt => /\ \E p \in Nat : pml4t = {p} /\ M1 <= p /\ Frame(p) \in held'
                                  /\ (on \cup vmcs) \cap pml4t = {}
      PROVE  OwnFrames'
  <2>1. M1' = M1 /\ \A p : Frame(p)' = Frame(p)
    BY DEF M1, Frame
  <2> QED
    BY <1>c, <2>1 DEF OwnFrames, OwnFrame, WithOn, WithVmcs, WithEpt
<1>4. ASSUME vmx'.on = vmx.on, vmx'.vmcs = vmx.vmcs, ept'.pml4t = ept.pml4t,
             \/ step' = step
             \/ step \in WithEpt /\ step' \in WithEpt
      PROVE  OwnFrames'
  <2> USE DEF WithVmcs, WithEpt
  <2>1. PICK on, vmcs, pml4t : on = vmx.on /\ vmcs = vmx.vmcs /\ pml4t = ept.pml4t
    OBVIOUS
  <2>2. /\ step \in WithOn => OwnFrame(on)
        /\ step \in WithVmcs => OwnFrame(vmcs) /\ on \cap vmcs = {}
        /\ step \in WithEpt => OwnFrame(pml4t) /\ (on \cup vmcs) \cap pml4t = {}
    BY <1>1, <2>1 DEF OwnFrames
  <2>3. /\ step' \in WithOn => step \in WithOn
        /\ step' \in WithVmcs => step \in WithVmcs
        /\ step' \in WithEpt => step \in WithEpt
    BY <1>4
  <2>4. vmx'.on = on /\ vmx'.vmcs = vmcs /\ ept'.pml4t = pml4t
    BY <1>4, <2>1
  <2>5. step' \in WithOn => \E p \in Nat : on = {p} /\ M1 <= p /\ Frame(p) \in held'
    BY <1>b, <2>2, <2>3
  <2>6. step' \in WithVmcs => /\ \E p \in Nat : vmcs = {p} /\ M1 <= p /\ Frame(p) \in held'
                              /\ on \cap vmcs = {}
    BY <1>b, <2>2, <2>3
  <2>7. step' \in WithEpt => /\ \E p \in Nat : pml4t = {p} /\ M1 <= p /\ Frame(p) \in held'
                             /\ (on \cup vmcs) \cap pml4t = {}
    BY <1>b, <2>2, <2>3
  <2> HIDE DEF WithVmcs, WithEpt
  <2> QED
    BY <1>c, <2>4, <2>5, <2>6, <2>7
<1>5. CASE SetupVmx
  BY <1>4, <1>5 DEF SetupVmx, WithEpt, WithVmcs, WithOn, FromCopy, Late, Loop
<1>6. CASE virt_guest_setup \/ virt_control_setup \/ virt_host_setup
  <2>1. step \in WithEpt /\ step' \in WithEpt /\ ept' = ept
    BY <1>6 DEF virt_guest_setup, virt_control_setup, virt_host_setup, Next_line, panic, WithEpt,
          WithVmcs, WithOn, FromCopy, Early, BeforeCopy, Late, Loop
  <2>2. \E f, e : vmx' = [vmx EXCEPT !.fields = f] \/ vmx' = [[vmx EXCEPT !.fields = f] EXCEPT !.eptp = e]
    BY <1>6 DEF virt_guest_setup, virt_control_setup, virt_host_setup, Next_line, panic, vmwrite,
          Early, BeforeCopy, Late, Loop
  <2>3. vmx'.on = vmx.on /\ vmx'.vmcs = vmx.vmcs
    BY <1>2, <2>2
  <2> QED
    BY <1>4, <2>1, <2>3
<1>7. CASE percpu_vmxon
  <2>1. step = "percpu" /\ step' = "vmcs" /\ alloc_phys_frame
        /\ vmx' = [vmx EXCEPT !.on = NewFrame, !.revision = NewFrame]
    BY <1>7 DEF percpu_vmxon, ept_frame, panic, Early, BeforeCopy, Late, Loop
  <2>2. \E p \in Nat : NewFrame = {p} /\ M1 <= p /\ Frame(p) \in held'
    BY <2>1, NewOwnFrame DEF Early, BeforeCopy
  <2>3. vmx'.on = NewFrame
    BY <1>2, <2>1
  <2>4. PICK on, vmcs, pml4t : on = NewFrame /\ vmcs = vmx'.vmcs /\ pml4t = ept'.pml4t
    OBVIOUS
  <2>5. step' \notin WithVmcs /\ step' \notin WithEpt
    BY <2>1 DEF WithVmcs, WithEpt
  <2> QED
    BY <1>c, <2>2, <2>3, <2>4, <2>5
<1>8. CASE percpu_vmcs
  <2>1. step = "vmcs" /\ step' = "ept" /\ alloc_phys_frame /\ ept' = ept
        /\ vmx' = LoadVmcs([vmx EXCEPT !.vmcs = NewFrame, !.revision = @ \cup NewFrame], NewFrame)
    BY <1>8 DEF percpu_vmcs, ept_frame, Early, BeforeCopy, Late, Loop
  <2>2. PICK f : f = NewFrame
    OBVIOUS
  <2>3. /\ \E p \in Nat : f = {p} /\ M1 <= p /\ Frame(p) \in held'
        /\ \A S : OwnFrame(S) => S \cap f = {}
    BY <2>1, <2>2, NewOwnFrame DEF Early, BeforeCopy
  <2>4. vmx'.on = vmx.on /\ vmx'.vmcs = f
    BY <1>2, <2>1, <2>2 DEF LoadVmcs, vmclear, vmptrld
  <2>5. OwnFrame(vmx.on) /\ step \in WithOn
    BY <1>1, <2>1 DEF OwnFrames, WithOn, ToCopy
  <2>6. PICK on, pml4t : on = vmx.on /\ pml4t = ept'.pml4t
    OBVIOUS
  <2>7. \E p \in Nat : on = {p} /\ M1 <= p /\ Frame(p) \in held'
    BY <1>b, <2>5, <2>6
  <2>8. on \cap f = {} /\ step' \notin WithEpt
    BY <2>1, <2>3, <2>5, <2>6 DEF WithEpt
  <2> QED
    BY <1>c, <2>3, <2>4, <2>6, <2>7, <2>8
<1>9. CASE ept_pml4t /\ vmx' = vmx
  <2>1. step = "ept" /\ step' = "pdpt" /\ alloc_phys_frame
    BY <1>9 DEF ept_pml4t, ept_frame, Early, BeforeCopy, Late, Loop
  <2>2. PICK f : f = NewFrame
    OBVIOUS
  <2>3. /\ \E p \in Nat : f = {p} /\ M1 <= p /\ Frame(p) \in held'
        /\ \A S : OwnFrame(S) => S \cap f = {}
    BY <2>1, <2>2, NewOwnFrame DEF Early, BeforeCopy
  <2>4. ept'.pml4t = f
    <3>1. ept = [pml4t |-> ept.pml4t, count |-> ept.count, map |-> ept.map,
                 kernel_phy |-> ept.kernel_phy, ramdisk_phy |-> ept.ramdisk_phy]
      BY <1>0 DEF EptInv
    <3> QED
      BY <1>9, <2>2, <3>1 DEF ept_pml4t, NewFrame
  <2>5. OwnFrame(vmx.on) /\ OwnFrame(vmx.vmcs) /\ vmx.on \cap vmx.vmcs = {} /\ step \in WithOn
    BY <1>1, <2>1 DEF OwnFrames, WithVmcs, WithOn, ToCopy
  <2>6. PICK on, vmcs : on = vmx.on /\ vmcs = vmx.vmcs
    OBVIOUS
  <2>7. /\ \E p \in Nat : on = {p} /\ M1 <= p /\ Frame(p) \in held'
        /\ \E p \in Nat : vmcs = {p} /\ M1 <= p /\ Frame(p) \in held'
    BY <1>b, <2>5, <2>6
  <2>8. on \cap vmcs = {} /\ (on \cup vmcs) \cap f = {}
    BY <2>3, <2>5, <2>6
  <2>9. vmx'.on = on /\ vmx'.vmcs = vmcs
    BY <1>9, <2>6
  <2> QED
    BY <1>c, <2>3, <2>4, <2>7, <2>8, <2>9
<1> QED
  BY <1>0, <1>3, <1>5, <1>6, <1>7, <1>8, <1>9, VmxSteps

LEMMA NextVmcsInv ==
    ASSUME SoundBoots, GuestBase, EptInv, VmxInv, [KernelNext]_all, step' \in Early \cup Late
    PROVE  VmcsInv'
<1>0. FrameInv /\ step \in Early \cup Late
  BY StepOrder DEF GuestBase
<1>1. OwnFrames /\ VmcsInv
  BY <1>0 DEF VmxInv
<1>2. /\ vmx = [vm |-> vmx.vm, on |-> vmx.on, vmcs |-> vmx.vmcs, revision |-> vmx.revision,
                current |-> vmx.current, clear |-> vmx.clear, fields |-> vmx.fields,
                eptp |-> vmx.eptp]
      /\ step \in WithVmcs => vmx.current = vmx.vmcs /\ vmx.vmcs \subseteq vmx.clear
      /\ vmx.fields = Groups
      /\ step \in {"host", "launch", "guest"} => vmx.eptp = ept.pml4t
  BY <1>1 DEF VmcsInv
<1> USE DEF WithOn, WithVmcs, WithEpt, ToCopy, FromCopy, Late, Loop
<1>3. CASE BeforeVmx
  <2>1. step' \notin WithVmcs /\ step' \notin {"host", "launch", "guest"}
    BY <1>3 DEF BeforeVmx, ToVmx, Early, BeforeCopy
  <2>2. Groups = {} /\ Groups' = {}
    BY <1>3 DEF BeforeVmx, ToVmx, Early, BeforeCopy, Groups
  <2>3. vmx' = vmx \/ vmx' = [vmx EXCEPT !.vm = TRUE]
    BY <1>3 DEF BeforeVmx
  <2>4. /\ vmx' = [vm |-> vmx'.vm, on |-> vmx'.on, vmcs |-> vmx'.vmcs, revision |-> vmx'.revision,
                   current |-> vmx'.current, clear |-> vmx'.clear, fields |-> vmx'.fields,
                   eptp |-> vmx'.eptp]
        /\ vmx'.fields = vmx.fields
    BY <1>2, <2>3
  <2> QED
    BY <1>2, <2>1, <2>2, <2>4 DEF VmcsInv
<1>4. CASE SetupVmx
  <2>1. vmx' = vmx /\ ept'.pml4t = ept.pml4t
    BY <1>4 DEF SetupVmx
  <2>2. /\ step' \in WithVmcs => step \in WithVmcs
        /\ step' \in {"host", "launch", "guest"} => step \in {"host", "launch", "guest"}
        /\ Groups' = Groups
    BY <1>4 DEF SetupVmx, Groups
  <2> QED
    BY <1>2, <2>1, <2>2 DEF VmcsInv
<1>5. CASE percpu_vmxon
  <2>1. step = "percpu" /\ step' = "vmcs"
        /\ \E f : vmx' = [vmx EXCEPT !.on = f, !.revision = f]
    BY <1>5 DEF percpu_vmxon, ept_frame, panic, Early, BeforeCopy
  <2>2. Groups = {} /\ Groups' = {}
    BY <2>1 DEF Groups
  <2>3. /\ vmx' = [vm |-> vmx'.vm, on |-> vmx'.on, vmcs |-> vmx'.vmcs, revision |-> vmx'.revision,
                   current |-> vmx'.current, clear |-> vmx'.clear, fields |-> vmx'.fields,
                   eptp |-> vmx'.eptp]
        /\ vmx'.fields = vmx.fields
    BY <1>2, <2>1
  <2> QED
    BY <1>2, <2>1, <2>2, <2>3 DEF VmcsInv
<1>6. CASE percpu_vmcs
  <2>1. /\ step = "vmcs" /\ step' = "ept"
        /\ vmx' = LoadVmcs([vmx EXCEPT !.vmcs = NewFrame, !.revision = @ \cup NewFrame], NewFrame)
    BY <1>6 DEF percpu_vmcs, ept_frame, Early, BeforeCopy
  <2>2. Groups = {} /\ Groups' = {}
    BY <2>1 DEF Groups
  <2>3. PICK f : f = NewFrame
    OBVIOUS
  <2>4. PICK rev, cl, cur, e :
            rev = vmx.revision \cup f /\ cl = vmx.clear \cup f /\ cur = vmx.current /\ e = vmx.eptp
    OBVIOUS
  <2>5. vmx' = [vm |-> vmx.vm, on |-> vmx.on, vmcs |-> f, revision |-> rev,
                current |-> f, clear |-> cl, fields |-> vmx.fields, eptp |-> e]
    <3>1. PICK x : x = [vmx EXCEPT !.vmcs = f, !.revision = @ \cup f]
      OBVIOUS
    <3>2. x = [vm |-> vmx.vm, on |-> vmx.on, vmcs |-> f, revision |-> rev,
               current |-> cur, clear |-> vmx.clear, fields |-> vmx.fields, eptp |-> e]
      BY <1>2, <2>4, <3>1
    <3>3. PICK y, d : y = vmclear(x, f) /\ d = IF cur = f THEN {} ELSE cur
      OBVIOUS
    <3>4. y = [vm |-> vmx.vm, on |-> vmx.on, vmcs |-> f, revision |-> rev,
               current |-> d, clear |-> cl, fields |-> vmx.fields, eptp |-> e]
      BY <2>4, <3>2, <3>3 DEF vmclear
    <3>5. vmx' = vmptrld(y, f)
      BY <2>1, <2>3, <3>1, <3>3 DEF LoadVmcs
    <3>6. f \subseteq y.revision
      BY <2>4, <3>4
    <3>7. vmx' = [y EXCEPT !.current = f]
      BY <3>5, <3>6 DEF vmptrld
    <3> QED
      BY <3>4, <3>7
  <2>6. f \subseteq cl
    BY <2>4
  <2> QED
    BY <1>2, <2>1, <2>2, <2>5, <2>6 DEF VmcsInv
<1>7. CASE ept_pml4t /\ vmx' = vmx
  <2>1. step = "ept" /\ step' = "pdpt"
    BY <1>7 DEF ept_pml4t, ept_frame, Early, BeforeCopy
  <2>2. Groups = {} /\ Groups' = {}
    BY <2>1 DEF Groups
  <2> QED
    BY <1>2, <1>7, <2>1, <2>2 DEF VmcsInv
<1>8. CASE virt_guest_setup \/ virt_control_setup \/ virt_host_setup
  <2>1. step \in WithVmcs /\ ept' = ept
    BY <1>8 DEF virt_guest_setup, virt_control_setup, virt_host_setup, Next_line, panic, Early,
          BeforeCopy
  <2>2. vmx.current # {}
    <3>1. OwnFrame(vmx.vmcs)
      BY <1>1, <2>1 DEF OwnFrames
    <3> QED
      BY <1>2, <2>1, <3>1 DEF OwnFrame
  <2>3. \A g : vmwrite(vmx, g) = [vmx EXCEPT !.fields = Groups \cup {g}]
    BY <1>2, <2>2 DEF vmwrite
  <2>4. CASE virt_guest_setup
    <3>1. step = "vmcs fields" /\ step' = "controls" /\ vmx' = vmwrite(vmx, "guest")
      BY <2>4 DEF virt_guest_setup, Next_line
    <3>2. vmx' = [vmx EXCEPT !.fields = {"guest"}]
      <4>1. Groups = {}
        BY <3>1 DEF Groups
      <4>2. Groups \cup {"guest"} = {"guest"}
        BY <4>1
      <4> QED
        BY <2>3, <3>1, <4>2
    <3> QED
      BY <1>2, <2>1, <3>1, <3>2 DEF VmcsInv, Groups
  <2>5. CASE virt_control_setup
    <3>1. /\ step = "controls" /\ step' = "host"
          /\ vmx' = [vmwrite(vmx, "control") EXCEPT !.eptp = ept.pml4t]
      BY <2>5 DEF virt_control_setup, Next_line, panic, Early, BeforeCopy
    <3>2. vmwrite(vmx, "control") = [vmx EXCEPT !.fields = {"guest", "control"}]
      BY <2>3, <3>1 DEF Groups
    <3>3. vmx' = [[vmx EXCEPT !.fields = {"guest", "control"}] EXCEPT !.eptp = ept.pml4t]
      BY <3>1, <3>2
    <3> QED
      BY <1>2, <2>1, <3>1, <3>3 DEF VmcsInv, Groups
  <2>6. CASE virt_host_setup
    <3>1. step = "host" /\ step' = "launch" /\ vmx' = vmwrite(vmx, "host")
      BY <2>6 DEF virt_host_setup, Next_line
    <3>2. vmx' = [vmx EXCEPT !.fields = {"guest", "control", "host"}]
      BY <2>3, <3>1 DEF Groups
    <3> QED
      BY <1>2, <2>1, <3>1, <3>2 DEF VmcsInv, Groups
  <2> QED
    BY <1>8, <2>4, <2>5, <2>6
<1> QED
  BY <1>0, <1>3, <1>4, <1>5, <1>6, <1>7, <1>8, VmxSteps

\* The inductive invariant of the launch.
LaunchInv == EptGuestInv /\ VmxInv

LEMMA InitLaunchInv == KernelInit => LaunchInv
<1> SUFFICES ASSUME KernelInit PROVE VmxInv
  BY InitEptGuestInv DEF LaunchInv
<1>1. step = "boot" /\ vmx = Vmx
  BY DEF KernelInit, GuestInit
<1>2. OwnFrames
  BY <1>1 DEF OwnFrames, WithOn, WithVmcs, WithEpt, ToCopy, FromCopy, Late, Loop
<1>3. VmcsInv
  BY <1>1 DEF VmcsInv, Vmx, Groups, WithOn, WithVmcs, ToCopy, FromCopy, Late, Loop
<1> QED
  BY <1>2, <1>3 DEF VmxInv

LEMMA NextLaunchInv ==
    ASSUME SoundBoots, SoundLow, SoundHigh, pdt_entries = 1
    PROVE  LaunchInv /\ [KernelNext]_all => LaunchInv'
<1> SUFFICES ASSUME LaunchInv, [KernelNext]_all PROVE LaunchInv'
  OBVIOUS
<1>1. EptGuestInv /\ GuestBase /\ EptInv /\ VmxInv
  BY DEF LaunchInv, EptGuestInv, GuestInv, LoopInv
<1>2. EptGuestInv'
  BY <1>1, NextEptGuestInv
<1>3. step' \in Early \cup Late => OwnFrames' /\ VmcsInv'
  BY <1>1, NextOwnFrames, NextVmcsInv
<1>4. VmxInv'
  BY <1>3 DEF VmxInv
<1> QED
  BY <1>2, <1>4 DEF LaunchInv

\* When the guest is launched the VMCS is complete and current and leads to the
\* guest's EPT, and the three frames that hold VMXON region, VMCS and PML4T are
\* neither free nor mapped for the guest, nor described to it as its memory, if
\* the ramdisk's copy ends below 4GB.
THEOREM KernelLaunchReady ==
    ASSUME SoundBoots, SoundLow, SoundHigh, pdt_entries = 1
    PROVE  KernelSpec => []LaunchReady
<1>1. LaunchInv => LaunchReady
  <2> SUFFICES ASSUME LaunchInv, step = "guest" PROVE LaunchReady
    BY DEF LaunchReady
  <2> DEFINE own == vmx.on \cup vmx.vmcs \cup ept.pml4t
  <2>1. step \in Late /\ step \in Early \cup Late /\ EptMade
        /\ step \in WithOn /\ step \in WithVmcs /\ step \in WithEpt
    BY DEF Late, Loop, EptMade, WithOn, WithVmcs, WithEpt, FromCopy
  <2>2. EptGuestInv /\ GuestInv /\ OwnFrames /\ VmcsInv /\ LateMem
    BY <2>1 DEF LaunchInv, EptGuestInv, GuestInv, LoopInv, GuestBase, MemInv, VmxInv
  <2>3. /\ vmx.current = vmx.vmcs /\ vmx.current \subseteq vmx.clear
        /\ vmx.fields = {"guest", "control", "host"} /\ vmx.eptp = ept.pml4t
    BY <2>1, <2>2 DEF VmcsInv, Groups
  <2>4. /\ OwnFrame(vmx.on) /\ OwnFrame(vmx.vmcs) /\ OwnFrame(ept.pml4t)
        /\ vmx.on \cap vmx.vmcs = {} /\ (vmx.on \cup vmx.vmcs) \cap ept.pml4t = {}
    BY <2>1, <2>2 DEF OwnFrames
  <2>5. PICK a \in Nat, b \in Nat, c \in Nat :
            vmx.on = {a} /\ vmx.vmcs = {b} /\ ept.pml4t = {c}
    BY <2>4 DEF OwnFrame
  <2>6. a # b /\ a # c /\ b # c /\ own = {a, b, c}
    BY <2>4, <2>5
  <2>7. \A p \in {a, b, c} : p \in Nat /\ M1 <= p /\ Frame(p) \in held
    BY <2>4, <2>5 DEF OwnFrame
  <2>8. Cardinality(own) = 3
    <3>1. IsFiniteSet({a}) /\ Cardinality({a}) = 1
      BY FS_Singleton
    <3>2. IsFiniteSet({a} \cup {b}) /\ Cardinality({a} \cup {b}) = 2
      BY <2>6, <3>1, FS_AddElement
    <3>3. Cardinality(({a} \cup {b}) \cup {c}) = 3
      BY <2>6, <3>2, FS_AddElement
    <3>4. own = ({a} \cup {b}) \cup {c}
      BY <2>6
    <3> QED
      BY <3>3, <3>4
  <2> HIDE DEF own
  <2>9. ASSUME NEW p \in own
        PROVE  /\ p \in HeldPages /\ p \notin mm_table \cup EptHost
               /\ RamdiskFits => p \notin E820Pages
    <3>1. p \in Nat /\ M1 <= p /\ Frame(p) \in held
      BY <2>6, <2>7, <2>9
    <3>2. p \in Pages(Frame(p)) /\ Frame(p).num = 1 /\ Frame(p).base = p
      BY <3>1 DEF Pages, Bits, Frame
    <3>3. p \in HeldPages
      BY <3>1, <3>2 DEF HeldPages
    <3>4. p \notin mm_table
      BY <2>2, <3>3 DEF LateMem
    <3>5. p \notin EptHost
      <4>1. p \notin Above
        BY <2>1, <2>2, <3>1, <3>2 DEF EptGuestInv, SingleInv
      <4>2. /\ EptHost = Bits(0, M1) \cup Bits(G4 + M1, M1)
            /\ Bits(G4 + M1, M1) \subseteq Above
        BY <2>1, <2>2, EptPages DEF EptGuestInv, EptInv
      <4>3. p \notin Bits(0, M1)
        BY <3>1, Geometry DEF Bits
      <4> QED
        BY <4>1, <4>2, <4>3
    <3>6. ASSUME RamdiskFits PROVE p \notin E820Pages
      <4>1. EntryPages(e820) \cap HeldPages \subseteq {vm.zero, vm.cmd} \cup Pages(RamdiskBlock)
        BY <2>1, <2>2, <3>6 DEF GuestInv, E820Inv, E820Table, Private
      <4>2. p \notin {vm.zero, vm.cmd}
        BY <2>1, <2>2, <3>1, ZeroCmdLow, Geometry
      <4>3. PICK r : r = RamdiskBlock
        OBVIOUS
      <4>4. r \in held /\ r.num # 1
        <5>1. RamdiskAt(r)
          BY <2>1, <2>2, <4>3 DEF GuestInv, RamdiskInv
        <5>2. vm.extra.len \in ImageSize
          BY <2>1, <2>2 DEF GuestInv, LoopInv, GuestBase, CopyInv, FromCopy
        <5>3. r.num % LARGE_PG = 0
          BY <4>3, <5>2, ImagePages DEF RamdiskBlock, ImageSize
        <5> QED
          BY <5>1, <5>3, LargeFramesNotOne DEF RamdiskAt, LargeFrames
      <4>5. Pages(Frame(p)) \cap Pages(r) = {}
        <5>1. r # Frame(p)
          BY <3>2, <4>4
        <5> QED
          BY <2>2, <3>1, <4>4, <5>1 DEF LateMem
      <4> QED
        BY <3>2, <3>3, <4>1, <4>2, <4>3, <4>5, E820PagesAre
    <3> QED
      BY <3>3, <3>4, <3>5, <3>6
  <2>10. /\ own \subseteq HeldPages /\ own \cap (mm_table \cup EptHost) = {}
         /\ RamdiskFits => own \cap E820Pages = {}
    BY <2>9
  <2> QED
    BY <2>3, <2>8, <2>10 DEF LaunchReady, own
<1> QED
  BY <1>1, InitLaunchInv, NextLaunchInv, PTL DEF KernelSpec
=============================================================================

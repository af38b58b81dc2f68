-------------------------- MODULE KernelMainProofs --------------------------
(***************************************************************************)
(* Proofs about the way of the BSP from the boot loader to the guest, for  *)
(* every set of machines and firmwares that satisfies the assumptions of   *)
(* the modules it is composed of.                                          *)
(***************************************************************************)
EXTENDS KernelMain, PhysMemProofs

\* The lines of kernel_main up to acpi_sec_init.
BeforeAps == {"boot", "acpi", "config", "match", "aps"}

\* The steps of the set-up up to the copy of the image.
BeforeCopy == {"acpi", "config", "match", "aps", "virt", "percpu", "vmcs", "ept",
               "pdpt", "zero", "kernel", "copy kernel"}

-----------------------------------------------------------------------------
(* The trampoline                                                          *)

\* Only the copies of image and ramdisk search for contiguous frames.
SearchToCopy == op # Idle => step \in {"copy kernel", "copy ramdisk"}

\* Frames that are in use before the APs start come from alloc_phys_frame,
\* which skips the first 1MB.
HighFrames ==
    step \in BeforeAps =>
        \A b \in held : b.num = 1 /\ b.base \in Int /\ LOWMEM * WORD <= b.base

FrameInv == mm_table \subseteq Int /\ SearchToCopy /\ HighFrames

LEMMA InitFrameInv == KernelInit => FrameInv
BY DEF KernelInit, Init, GuestInit, Idle, FrameInv, SearchToCopy, HighFrames

\* A frame of alloc_phys_frame is above the first 1MB.
LEMMA HighFrame ==
    ASSUME mm_table \subseteq Int, alloc_phys_frame
    PROVE  /\ mm_table' \subseteq Int /\ op = Idle /\ op' = Idle
           /\ \E p \in Int : /\ LOWMEM * WORD <= p
                             /\ held' = held \cup {[base |-> p, num |-> 1]}
BY DEF alloc_phys_frame, FirstFrame, Least, Take, Ready

\* So are the frames of the EPT's tables, of the VMXON region and the VMCS.
LEMMA EptFrameKeeps ==
    ASSUME mm_table \subseteq Int, SearchToCopy, NEW s, ept_frame(s)
    PROVE  mm_table' \subseteq Int /\ op' = op
BY HighFrame DEF ept_frame, vars

\* Freeing and taking ranges keeps page numbers numbers.
LEMMA RangeKeepsInt ==
    ASSUME mm_table \subseteq Int, NEW a, NEW n,
           physical_free_range(a, n) \/ physical_take_range(a, n)
    PROVE  mm_table' \subseteq Int
<1>1. \A b, l : Bits(b, l) \subseteq Int
  BY DEF Bits
<1>2. free_bits(a, n) \subseteq Int
  BY <1>1 DEF free_bits
<1> QED
  BY <1>2 DEF physical_free_range, physical_take_range

LEMMA SetupFrameInv == FrameInv /\ SetupStep => FrameInv'
<1> SUFFICES ASSUME FrameInv, SetupStep PROVE FrameInv'
  OBVIOUS
<1> USE DEF FrameInv, SearchToCopy, HighFrames, BeforeAps
<1>1. CASE ept_pml4t
  BY <1>1, EptFrameKeeps DEF ept_pml4t, ept_frame
<1>2. CASE ept_pdpt
  BY <1>2, EptFrameKeeps DEF ept_pdpt, ept_frame
<1>3. CASE zero_frame
  BY <1>3 DEF zero_frame, alloc_phys_frame_lowmem, Take, Ready, vars
<1>4. CASE dst_kernel
  BY <1>4 DEF dst_kernel, dst_frames, alloc_phys_frames_aligned
<1>5. CASE dst_search
  <2>1. op.kind = "aligned" /\ UNCHANGED step
    BY <1>5 DEF dst_search, aligned_skip_entry, aligned_try, aligned_fail, gvars
  <2>2. mm_table' \subseteq mm_table
    BY <1>5 DEF dst_search, aligned_skip_entry, aligned_try, aligned_fail, Take
  <2>3. Idle.kind = "idle"
    BY DEF Idle
  <2> QED
    BY <2>1, <2>2, <2>3
<1>6. CASE dst_fails
  BY <1>6 DEF dst_fails, panic, vars
<1>7. CASE copy_kernel
  BY <1>7, RangeKeepsInt DEF copy_kernel
<1>8. CASE cmd_frame
  BY <1>8 DEF cmd_frame, alloc_phys_frame_lowmem, Take, Ready, vars
<1>9. CASE dst_ramdisk
  BY <1>9 DEF dst_ramdisk, dst_frames, alloc_phys_frames_aligned
<1>10. CASE copy_ramdisk
  BY <1>10, RangeKeepsInt DEF copy_ramdisk
<1>11. CASE setup_panics
  BY <1>11 DEF setup_panics, panic, vars
<1>12. CASE e820_find
  BY <1>12 DEF e820_find, vars
<1>13. CASE e820_end
  BY <1>13 DEF e820_end, vars
<1>14. CASE e820_high
  BY <1>14, RangeKeepsInt DEF e820_high, Give
<1>15. CASE e820_small
  BY <1>15 DEF e820_small, Pass, vars
<1>16. CASE e820_kernel
  BY <1>16 DEF e820_kernel, Pass, vars
<1>17. CASE e820_low
  BY <1>17, RangeKeepsInt DEF e820_low, Give
<1>18. CASE ept_pdt
  BY <1>18, EptFrameKeeps DEF ept_pdt, ept_frame
<1>19. CASE ept_entry
  <2>1. op' = op /\ mm_table' \subseteq Int
    BY <1>19, EptFrameKeeps DEF ept_entry, vars
  <2>2. step = "entry" /\ step' \in {"entry", "tables", "panic"}
    BY <1>19 DEF ept_entry, ept_frame
  <2> QED
    BY <2>1, <2>2
<1>20. CASE ept_done
  BY <1>20 DEF ept_done, vars
<1> QED
  BY <1>1, <1>2, <1>3, <1>4, <1>5, <1>6, <1>7, <1>8, <1>9, <1>10, <1>11, <1>12,
     <1>13, <1>14, <1>15, <1>16, <1>17, <1>18, <1>19, <1>20 DEF SetupStep

LEMMA NextFrameInv == FrameInv /\ [KernelNext]_all => FrameInv'
<1> SUFFICES ASSUME FrameInv, [KernelNext]_all PROVE FrameInv'
  OBVIOUS
<1> USE DEF FrameInv, SearchToCopy, HighFrames, BeforeAps
<1>1. CASE UNCHANGED <<mm_table, op, held, step>>
  BY <1>1
<1>2. CASE /\ UNCHANGED <<mm_table, op, held>>
           /\ step \in BeforeAps \/ step' \notin BeforeAps
           /\ step \notin {"copy kernel", "copy ramdisk"}
  BY <1>2
<1>3. CASE boot_memory
  <2>1. UNCHANGED <<op, held, step>>
    BY <1>3 DEF boot_memory, boot_map_entry, boot_limit, boot_take_zero,
                boot_take_kernel, gvars
  <2>2. mm_table' \subseteq Int
    <3>1. CASE boot_map_entry
      BY <3>1, RangeKeepsInt DEF boot_map_entry
    <3>2. CASE boot_limit \/ boot_take_zero \/ boot_take_kernel
      BY <3>2, RangeKeepsInt DEF boot_limit, boot_take_zero, boot_take_kernel
    <3> QED
      BY <1>3, <3>1, <3>2 DEF boot_memory
  <2> QED
    BY <2>1, <2>2
<1>4. CASE boot_module
  BY <1>4, RangeKeepsInt DEF boot_module, boot_take_module, gvars
<1>5. CASE frame_in_use
  BY <1>5, HighFrame DEF frame_in_use, gvars
<1>6. CASE percpu_vmxon \/ percpu_vmcs
  <2>1. step \in {"percpu", "vmcs"} /\ step' \in {"panic", "vmcs", "ept"}
    BY <1>6 DEF percpu_vmxon, percpu_vmcs, ept_frame, panic
  <2>2. mm_table' \subseteq Int /\ op' = op
    BY <1>6, EptFrameKeeps DEF percpu_vmxon, percpu_vmcs, panic, vars
  <2> QED
    BY <2>1, <2>2
<1>7. CASE percpu_ept
  BY <1>7, SetupFrameInv DEF percpu_ept
<1>8. CASE boot_return \/ boot_config \/ boot_platform \/ boot_platform_done
  BY <1>1, <1>2, <1>8 DEF boot_return, boot_config, boot_done, boot_platform,
        boot_platform_done, Next_line, vars, gvars
<1>9. CASE parse_boot_info \/ match_module \/ match_done \/ acpi_sec_init
  BY <1>1, <1>2, <1>9 DEF parse_boot_info, match_module, match_done, acpi_sec_init,
        Next_line, vars
<1>10. CASE call_panics \/ virt_init
  BY <1>2, <1>10 DEF call_panics, virt_init, kernel_panic, panic, vars
<1>11. CASE \/ percpu_none \/ virt_guest_setup \/ virt_control_setup
            \/ virt_host_setup \/ vmlaunch
  BY <1>2, <1>11 DEF percpu_none, virt_guest_setup, virt_control_setup,
        virt_host_setup, vmlaunch, Next_line, panic, vars
<1>12. CASE UNCHANGED all
  BY <1>1, <1>12 DEF all, vars, gvars
<1> QED
  BY <1>3, <1>4, <1>5, <1>6, <1>7, <1>8, <1>9, <1>10, <1>11, <1>12
     DEF KernelNext, KernelStep

\* The frame of SMP_BOOT_ADDR, which nothing takes from the allocator, is
\* handed out to nobody before the APs have started, whatever the memory map,
\* the modules and the number of frames in use.
THEOREM KernelTrampolineIntact == KernelSpec => []TrampolineIntact
<1>1. FrameInv => TrampolineIntact
  <2> SUFFICES ASSUME FrameInv, step \in BeforeAps PROVE SMP_BOOT \notin HeldPages
    BY DEF TrampolineIntact, BeforeAps
  <2> QED
    BY KernelAssumption, PhysAssumption
       DEF FrameInv, HighFrames, HeldPages, Pages, Bits
<1> QED
  BY <1>1, InitFrameInv, NextFrameInv, PTL DEF KernelSpec

-----------------------------------------------------------------------------
(* The modules                                                             *)

Mods == 1 .. Len(machine.mods)

\* The tag loop has taken the modules before boot.index; later all of them are
\* taken until the image is copied.
ModsTaken ==
    /\ machine \in Machines
    /\ {"phase", "index"} \subseteq DOMAIN boot /\ boot.index \in Int
    /\ boot.phase = "mods" /\ step = "boot" =>
           \A k \in Mods : k < boot.index => Touched(machine.mods[k]) \subseteq reserved
    /\ step \in BeforeCopy => \A k \in Mods : Touched(machine.mods[k]) \subseteq reserved

\* What is matched has the name it was matched with.
ModsMatched ==
    /\ tag \in Nat \ {0}
    /\ \A j \in 1 .. 2 : mod[j] # 0 =>
           mod[j] \in Mods /\ machine.mods[mod[j]].name = mod_str[j]

Image(k)   == machine.mods[k].name = "linux" /\ vm.img = ModuleRange(k)
Ramdisk(k) == machine.mods[k].name = "initrd" /\ vm.extra = ModuleRange(k)

\* No VM before virt_init; then one with two modules of the right names.
VmMatched ==
    /\ "vm" \in DOMAIN vmx /\ {"img", "extra"} \subseteq DOMAIN vm
    /\ step \in BeforeAps \cup {"virt"} => ~vmx.vm
    /\ vmx.vm /\ step \in BeforeCopy => (\E k \in Mods : Image(k)) /\ (\E k \in Mods : Ramdisk(k))

ModInv == ModsTaken /\ ModsMatched /\ VmMatched

LEMMA InitModInv == KernelInit => ModInv
<1> SUFFICES ASSUME KernelInit PROVE ModInv
  OBVIOUS
<1>1. ModsTaken
  BY DEF KernelInit, Init, GuestInit, ModsTaken, BeforeCopy
<1>2. ModsMatched
  BY DEF KernelInit, ModsMatched
<1>3. VmMatched
  BY DEF KernelInit, GuestInit, Vmx, VmMatched, BeforeAps, BeforeCopy
<1> QED
  BY <1>1, <1>2, <1>3 DEF ModInv

\* The steps of the set-up take nothing back before the image is copied, and
\* leave the VM's modules what they are.
LEMMA SetupModInv == ModInv /\ percpu_ept => ModInv'
<1> SUFFICES ASSUME ModInv, percpu_ept PROVE ModInv'
  OBVIOUS
<1>1. UNCHANGED <<machine, boot, tag, mod, vmx>>
  <2>1. UNCHANGED <<tag, mod, vmx>>
    BY DEF percpu_ept, kvars
  <2>2. CASE ept_pml4t \/ ept_pdpt \/ zero_frame \/ cmd_frame \/ ept_pdt
    BY <2>1, <2>2 DEF ept_pml4t, ept_pdpt, zero_frame, cmd_frame, ept_pdt, ept_frame,
          alloc_phys_frame, alloc_phys_frame_lowmem, vars
  <2>3. CASE dst_kernel \/ dst_search \/ dst_fails \/ copy_kernel \/ dst_ramdisk
             \/ copy_ramdisk \/ setup_panics
    BY <2>1, <2>3 DEF dst_kernel, dst_search, dst_fails, copy_kernel, dst_ramdisk,
          copy_ramdisk, setup_panics, dst_frames, alloc_phys_frames_aligned,
          aligned_skip_entry, aligned_try, aligned_fail, panic, vars
  <2>4. CASE e820_find \/ e820_end \/ e820_high \/ e820_small \/ e820_kernel \/ e820_low
    BY <2>1, <2>4 DEF e820_find, e820_end, e820_high, e820_small, e820_kernel, e820_low,
          Give, Pass, vars
  <2>5. CASE ept_entry \/ ept_done
    BY <2>1, <2>5 DEF ept_entry, ept_done, ept_frame, alloc_phys_frame, vars
  <2> QED
    BY <2>2, <2>3, <2>4, <2>5 DEF percpu_ept, SetupStep
<1>2. {"img", "extra"} \subseteq DOMAIN vm'
  <2>1. CASE zero_frame \/ cmd_frame \/ dst_kernel \/ dst_ramdisk
    BY <2>1 DEF ModInv, VmMatched, zero_frame, cmd_frame, dst_kernel, dst_ramdisk, dst_frames
  <2>2. CASE copy_kernel \/ copy_ramdisk
    BY <2>2 DEF ModInv, VmMatched, copy_kernel, copy_ramdisk
  <2>3. CASE vm' = vm
    BY <2>3 DEF ModInv, VmMatched
  <2>4. \/ zero_frame \/ cmd_frame \/ dst_kernel \/ dst_ramdisk
        \/ copy_kernel \/ copy_ramdisk \/ vm' = vm
    BY DEF percpu_ept, SetupStep, ept_pml4t, ept_pdpt, ept_pdt, dst_search, dst_fails,
           setup_panics, e820_find, e820_end, e820_high, e820_small, e820_kernel,
           e820_low, Give, Pass, ept_entry, ept_done, panic, gvars
  <2> QED
    BY <2>1, <2>2, <2>3, <2>4
<1>3. ASSUME step' \in BeforeAps \cup {"virt"} \cup BeforeCopy
      PROVE  /\ UNCHANGED reserved /\ vm'.img = vm.img /\ vm'.extra = vm.extra
             /\ \/ step' = step
                \/ /\ step \in BeforeCopy
                   /\ step' \in BeforeCopy \ (BeforeAps \cup {"virt"})
  <2> USE DEF BeforeAps, BeforeCopy
  <2>1. CASE ept_pml4t \/ ept_pdpt
    BY <1>3, <2>1 DEF ept_pml4t, ept_pdpt, ept_frame, alloc_phys_frame, vars
  <2>2. CASE zero_frame \/ dst_kernel
    BY <1>3, <2>2 DEF zero_frame, dst_kernel, dst_frames, alloc_phys_frame_lowmem,
          alloc_phys_frames_aligned, ModInv, VmMatched, vars
  <2>3. CASE dst_search
    BY <1>3, <2>3 DEF dst_search, aligned_skip_entry, aligned_try, aligned_fail, gvars
  <2>4. CASE dst_fails \/ setup_panics
    BY <1>3, <2>4 DEF dst_fails, setup_panics, panic
  <2>5. CASE copy_kernel \/ cmd_frame \/ dst_ramdisk \/ copy_ramdisk
    BY <1>3, <2>5 DEF copy_kernel, cmd_frame, dst_ramdisk, dst_frames, copy_ramdisk
  <2>6. CASE e820_find \/ e820_end \/ e820_high \/ e820_small \/ e820_kernel \/ e820_low
    BY <1>3, <2>6 DEF e820_find, e820_end, e820_high, e820_small, e820_kernel, e820_low,
          Give, Pass
  <2>7. CASE ept_pdt \/ ept_entry \/ ept_done
    BY <1>3, <2>7 DEF ept_pdt, ept_entry, ept_done, ept_frame
  <2> QED
    BY <2>1, <2>2, <2>3, <2>4, <2>5, <2>6, <2>7 DEF percpu_ept, SetupStep
<1>4. ModsTaken'
  BY <1>1, <1>3 DEF ModInv, ModsTaken, Mods, BeforeAps
<1>5. ModsMatched'
  BY <1>1 DEF ModInv, ModsMatched, Mods
<1>6. VmMatched'
  BY <1>1, <1>2, <1>3 DEF ModInv, VmMatched, Mods, Image, Ramdisk, ModuleRange
<1> QED
  BY <1>4, <1>5, <1>6 DEF ModInv

\* The tags: a module is taken whole, rounding outwards.
LEMMA TagsModInv ==
    ASSUME ModInv, boot_memory \/ boot_module \/ boot_config
    PROVE  ModInv'
<1>1. UNCHANGED <<machine, tag, mod, vmx, vm>> /\ step = "boot"
  BY DEF boot_memory, boot_module, boot_config, boot_map_entry, boot_limit,
         boot_take_zero, boot_take_kernel, boot_take_module, boot_done, Next_line,
         gvars, kvars
<1>2. ModsMatched' /\ VmMatched'
  <2>1. step' \in {"boot", "panic", "acpi"}
    BY <1>1 DEF boot_memory, boot_module, boot_config, Next_line, gvars
  <2>2. ModsMatched'
    BY <1>1 DEF ModInv, ModsMatched, Mods
  <2>3. VmMatched'
    BY <1>1, <2>1 DEF ModInv, VmMatched, BeforeAps, BeforeCopy
  <2> QED
    BY <2>2, <2>3
<1>3. CASE boot_memory
  <2>0. step' = "boot"
    BY <1>1, <1>3 DEF boot_memory, gvars
  <2>1. {"phase", "index"} \subseteq DOMAIN boot' /\ boot'.index \in Int
    <3>1. CASE boot_map_entry
      <4>1. DOMAIN boot' = DOMAIN boot /\ boot'.index = boot.index + 1
        BY <3>1 DEF ModInv, ModsTaken, boot_map_entry
      <4> QED
        BY <4>1 DEF ModInv, ModsTaken
    <3>2. CASE boot_limit \/ boot_take_zero \/ boot_take_kernel
      <4>1. DOMAIN boot' = DOMAIN boot /\ boot'.index \in {boot.index, 1}
        BY <3>2 DEF ModInv, ModsTaken, boot_limit, boot_take_zero, boot_take_kernel
      <4> QED
        BY <4>1 DEF ModInv, ModsTaken
    <3> QED
      BY <1>3, <3>1, <3>2 DEF boot_memory
  <2>2. boot'.phase = "mods" => boot'.index = 1
    BY <1>3 DEF ModInv, ModsTaken, boot_memory, boot_map_entry, boot_limit,
       boot_take_zero, boot_take_kernel
  <2> QED
    BY <1>1, <1>2, <2>0, <2>1, <2>2 DEF ModInv, ModsTaken, Mods, BeforeCopy
<1>4. CASE boot_module
  <2> DEFINE k == boot.index
  <2>1. /\ step' = "boot" /\ {"phase", "index"} \subseteq DOMAIN boot' /\ boot'.index \in Int
        /\ boot.phase = "mods" /\ boot'.index = k + 1
    BY <1>1, <1>4 DEF ModInv, ModsTaken, boot_module, boot_take_module, gvars
  <2>2. /\ reserved \subseteq reserved'
        /\ take_bits(machine.mods[k].addr, machine.mods[k].len) \subseteq reserved'
    BY <1>4 DEF boot_module, boot_take_module, physical_take_range
  <2>3. ASSUME NEW j \in Mods, j < k + 1
        PROVE  Touched(machine.mods[j]) \subseteq reserved'
    <3>1. CASE j < k
      BY <1>1, <2>1, <2>2, <3>1 DEF ModInv, ModsTaken
    <3>2. CASE j = k
      <4>1. ByteRange(machine.mods[k])
        BY <3>2, MachineAssumption DEF Mods, ModInv, ModsTaken
      <4> QED
        BY <2>2, <3>2, <4>1, TakeCovers
    <3> QED
      BY <2>3, <3>1, <3>2 DEF Mods, ModInv, ModsTaken
  <2> QED
    BY <1>1, <1>2, <2>1, <2>3 DEF ModInv, ModsTaken, Mods, BeforeCopy
<1>5. CASE boot_config
  <2>1. /\ boot.phase = "mods" /\ boot.index > Len(machine.mods)
        /\ UNCHANGED reserved /\ step' \in {"panic", "acpi"}
        /\ {"phase", "index"} \subseteq DOMAIN boot' /\ boot'.index \in Int
    BY <1>5 DEF ModInv, ModsTaken, boot_config, boot_done, Next_line
  <2>2. \A k \in Mods : Touched(machine.mods[k]) \subseteq reserved
    <3> SUFFICES ASSUME NEW k \in Mods PROVE k < boot.index
      BY <1>1, <2>1 DEF ModInv, ModsTaken
    <3> QED
      BY <2>1, MachineAssumption DEF Mods, ModInv, ModsTaken
  <2> QED
    BY <1>1, <1>2, <2>1, <2>2 DEF ModInv, ModsTaken, Mods
<1> QED
  BY <1>3, <1>4, <1>5

\* A step on the way to the copy that changes none of the state involved.
LEMMA QuietModInv ==
    ASSUME ModInv, UNCHANGED <<machine, boot, reserved, tag, mod, vm>>,
           "vm" \in DOMAIN vmx', vmx'.vm = vmx.vm,
           \/ step' = step
           \/ step \in BeforeCopy /\ step' \in BeforeCopy /\
              (step' \in BeforeAps \cup {"virt"} => step \in BeforeAps)
           \/ step' \notin BeforeCopy \cup BeforeAps \cup {"virt"}
    PROVE  ModInv'
<1>1. ModsTaken'
  BY DEF ModInv, ModsTaken, Mods, BeforeAps
<1>2. ModsMatched'
  BY DEF ModInv, ModsMatched, Mods
<1>3. VmMatched'
  BY DEF ModInv, VmMatched, Mods, Image, Ramdisk, ModuleRange
<1> QED
  BY <1>1, <1>2, <1>3 DEF ModInv

\* virt_init gives the VM what was matched, or makes none.
LEMMA VirtInitModInv == ModInv /\ virt_init => ModInv'
<1> SUFFICES ASSUME ModInv, virt_init PROVE ModInv'
  OBVIOUS
<1>1. UNCHANGED <<machine, boot, reserved, tag, mod>> /\ step = "virt" /\ ~vmx.vm
  BY DEF virt_init, panic, vars, ModInv, VmMatched
<1>2. CASE vmx' = vmx /\ vm' = vm
  <2>1. step' \in {"panic", "percpu", "undefined"}
    BY DEF virt_init, panic
  <2> QED
    BY <1>1, <1>2, <2>1, QuietModInv DEF BeforeAps, BeforeCopy, ModInv, VmMatched
<1>3. CASE ~(vmx' = vmx /\ vm' = vm)
  <2>1. /\ step' = "percpu" /\ mod[1] # 0 /\ mod[2] # 0
        /\ vm' = [vm EXCEPT !.img = ModuleRange(mod[1]), !.extra = ModuleRange(mod[2])]
        /\ vmx' = [vmx EXCEPT !.vm = TRUE]
    BY <1>3 DEF virt_init, panic
  <2>2. /\ {"img", "extra"} \subseteq DOMAIN vm' /\ "vm" \in DOMAIN vmx'
        /\ vm'.img = ModuleRange(mod[1]) /\ vm'.extra = ModuleRange(mod[2])
    BY <2>1 DEF ModInv, VmMatched
  <2>3. /\ mod[1] \in Mods /\ machine.mods[mod[1]].name = "linux"
        /\ mod[2] \in Mods /\ machine.mods[mod[2]].name = "initrd"
    BY <2>1 DEF ModInv, ModsMatched, mod_str
  <2>4. VmMatched'
    BY <1>1, <2>1, <2>2, <2>3 DEF VmMatched, Mods, Image, Ramdisk, ModuleRange,
          BeforeAps
  <2>5. ModsTaken' /\ ModsMatched'
    BY <1>1, <2>1 DEF ModInv, ModsTaken, ModsMatched, Mods, BeforeCopy
  <2> QED
    BY <2>4, <2>5 DEF ModInv
<1> QED
  BY <1>2, <1>3

\* A tag is matched with the names.
LEMMA MatchModInv == ModInv /\ match_module => ModInv'
<1> SUFFICES ASSUME ModInv, match_module PROVE ModInv'
  OBVIOUS
<1>1. /\ UNCHANGED <<machine, boot, reserved, vm, vmx>> /\ step = "match"
      /\ step' \in {"match", "undefined"} /\ tag' = tag + 1 /\ tag <= Len(machine.mods)
  BY DEF match_module, Next_line, vars
<1>2. ModsTaken' /\ VmMatched'
  <2>1. ModsTaken'
    BY <1>1 DEF ModInv, ModsTaken, Mods, BeforeCopy
  <2>2. VmMatched'
    BY <1>1 DEF ModInv, VmMatched, BeforeAps, BeforeCopy, Mods, Image, Ramdisk, ModuleRange
  <2> QED
    BY <2>1, <2>2
<1>3. ModsMatched'
  <2>1. machine \in Machines /\ tag \in Mods
    BY <1>1, MachineAssumption DEF ModInv, ModsTaken, ModsMatched, Mods
  <2>2. ASSUME NEW j \in 1 .. 2
        PROVE  mod'[j] = mod[j] \/ (mod'[j] = tag /\ machine.mods[tag].name = mod_str[j])
    BY DEF match_module
  <2> QED
    BY <1>1, <2>1, <2>2 DEF ModInv, ModsMatched, Mods
<1> QED
  BY <1>2, <1>3 DEF ModInv

LEMMA NextModInv == ModInv /\ [KernelNext]_all => ModInv'
<1> SUFFICES ASSUME ModInv, [KernelNext]_all PROVE ModInv'
  OBVIOUS
<1>0. "vm" \in DOMAIN vmx
  BY DEF ModInv, VmMatched
<1> USE DEF BeforeAps, BeforeCopy
<1>1. CASE boot_memory \/ boot_module \/ boot_config
  BY <1>1, TagsModInv
<1>2. CASE boot_return \/ boot_platform \/ boot_platform_done \/ parse_boot_info
  BY <1>0, <1>2, QuietModInv DEF boot_return, boot_platform, boot_platform_done,
        parse_boot_info, Next_line, vars, gvars, kvars
<1>3. CASE match_module
  BY <1>3, MatchModInv
<1>4. CASE match_done \/ acpi_sec_init \/ call_panics
  BY <1>0, <1>4, QuietModInv DEF match_done, acpi_sec_init, call_panics, kernel_panic,
        panic, Next_line, vars, kvars
<1>5. CASE virt_init
  BY <1>5, VirtInitModInv
<1>6. CASE frame_in_use
  BY <1>0, <1>6, QuietModInv DEF frame_in_use, alloc_phys_frame, gvars, kvars
<1>7. CASE percpu_vmxon \/ percpu_vmcs
  <2>1. "vm" \in DOMAIN vmx' /\ vmx'.vm = vmx.vm
    BY <1>0, <1>7 DEF percpu_vmxon, percpu_vmcs, LoadVmcs, vmclear, vmptrld
  <2>2. /\ UNCHANGED <<machine, boot, reserved, tag, mod, vm>>
        /\ step \in {"percpu", "vmcs"} /\ step' \in {"vmcs", "ept", "panic"}
    BY <1>7 DEF percpu_vmxon, percpu_vmcs, ept_frame, alloc_phys_frame, panic, vars
  <2> QED
    BY <2>1, <2>2, QuietModInv
<1>8. CASE percpu_ept
  BY <1>8, SetupModInv
<1>9. CASE virt_guest_setup \/ virt_control_setup \/ virt_host_setup
  <2>1. "vm" \in DOMAIN vmx' /\ vmx'.vm = vmx.vm
    BY <1>0, <1>9 DEF virt_guest_setup, virt_control_setup, virt_host_setup, vmwrite
  <2>2. /\ UNCHANGED <<machine, boot, reserved, tag, mod, vm>>
        /\ step' \in {"controls", "host", "launch", "panic"}
    BY <1>9 DEF virt_guest_setup, virt_control_setup, virt_host_setup, Next_line,
          panic, vars
  <2> QED
    BY <2>1, <2>2, QuietModInv
<1>10. CASE percpu_none \/ vmlaunch
  BY <1>0, <1>10, QuietModInv DEF percpu_none, vmlaunch, Next_line, vars, kvars
<1>11. CASE UNCHANGED all
  BY <1>0, <1>11, QuietModInv DEF all, vars, gvars, kvars
<1> QED
  BY <1>1, <1>2, <1>3, <1>4, <1>5, <1>6, <1>7, <1>8, <1>9, <1>10, <1>11
     DEF KernelNext, KernelStep

\* The VM gets modules of the names boot_info.c looks for, and their frames
\* are nobody else's until they are copied, for every list of modules.
THEOREM KernelVmGetsItsModules == KernelSpec => []VmGetsItsModules
<1>1. ModInv => VmGetsItsModules
  <2> SUFFICES ASSUME ModInv, vmx.vm,
                      step \in {"percpu", "vmcs", "ept", "pdpt", "zero", "kernel"}
               PROVE  /\ \E k \in DOMAIN machine.mods : Image(k)
                      /\ \E k \in DOMAIN machine.mods : Ramdisk(k)
                      /\ Touched(vm.img) \cup Touched(vm.extra) \subseteq reserved
    BY DEF VmGetsItsModules, Image, Ramdisk
  <2>1. DOMAIN machine.mods = Mods
    BY KernelAssumption DEF ModInv, ModsTaken, Mods
  <2>2. PICK i \in Mods, j \in Mods : Image(i) /\ Ramdisk(j)
    BY DEF ModInv, VmMatched, BeforeCopy
  <2>3. \A k \in Mods : Touched(ModuleRange(k)) = Touched(machine.mods[k])
    BY DEF Touched, ModuleRange
  <2>4. \A k \in Mods : Touched(machine.mods[k]) \subseteq reserved
    BY DEF ModInv, ModsTaken, BeforeCopy
  <2> QED
    BY <2>1, <2>2, <2>3, <2>4 DEF Image, Ramdisk
<1> QED
  BY <1>1, InitModInv, NextModInv, PTL DEF KernelSpec

-----------------------------------------------------------------------------
(* The structures of the MADT                                              *)

\* The boot works on tables ACPI would accept; the code checks none of it.
SoundFirmwares == \A f \in Firmwares : SoundFirmware(f)

\* Structure j of table k, and whether it has been read.
Listed(k, j) ==
    /\ k \in 1 .. Len(Tables) /\ Tables[k].sig = "APIC"
    /\ j \in 1 .. Len(Tables[k].entries)

Struct(k, j) == Tables[k].entries[j]

Read(k, j) ==
    /\ Listed(k, j)
    /\ Parsed \/ k < parse.k \/ (k = parse.k /\ j < parse.e)

Reading == parse.pc \in {"rsdt", "xsdt"}

\* An enabled CPU other than the one with LAPIC ID 0.
OtherCpu(s) == s.type = "lapic" /\ s.enabled /\ s.id # 0

\* How an override is kept in irq_map.
Kept(s) == [irq |-> s.irq, gsi |-> s.gsi, flags |-> s.flags]

\* Every CPU and override that was read is kept, once, and nothing else is.
CpusKept ==
    /\ \A i \in 1 .. Len(lapic_ids) : \E k, j \in Nat :
          Read(k, j) /\ OtherCpu(Struct(k, j)) /\ lapic_ids[i] = Struct(k, j).id
    /\ \A k, j \in Nat : Read(k, j) /\ OtherCpu(Struct(k, j)) =>
          \E i \in 1 .. Len(lapic_ids) : lapic_ids[i] = Struct(k, j).id
    /\ \A i, j \in 1 .. Len(lapic_ids) : i # j => lapic_ids[i] # lapic_ids[j]

OverridesKept ==
    /\ \A i \in 1 .. Len(irq_map) : \E k, j \in Nat :
          Read(k, j) /\ Struct(k, j).type = "override" /\ irq_map[i] = Kept(Struct(k, j))
    /\ \A k, j \in Nat : Read(k, j) /\ Struct(k, j).type = "override" =>
          \E i \in 1 .. Len(irq_map) : irq_map[i] = Kept(Struct(k, j))

PlatformPc == {"rsdp", "rsdt", "xsdt", "lapic", "ioapic", "mask", "program", "done",
               "panic", "fault"}

ParseState == [pc : PlatformPc, k : Nat \ {0}, e : Nat \ {0}]

Override == [irq : Nat, gsi : Nat, flags : Nat]

MadtTypeOK ==
    /\ fw \in Firmwares
    /\ parse \in ParseState
    /\ lapic_ids \in Seq(Nat) /\ irq_map \in Seq(Override)
    /\ ioapic \in [num : Nat, gsi_base : Nat, num_gsi : Nat]

\* The right list is read; the LAPIC ID that acpi_add_cpu compares with is
\* still 0; the bounds of the arrays are kept.
MadtInv ==
    /\ MadtTypeOK
    /\ Reading => SDT = Tables
    /\ parse.pc = "rsdp" => /\ lapic_ids = <<>> /\ irq_map = <<>>
                            /\ parse.k = 1 /\ parse.e = 1
    /\ parse.pc = "rsdp" \/ Reading => phys_id = 0
    /\ Reading \/ Parsed => CpusKept /\ OverridesKept
    /\ Parsed => (trampoline <=> lapic_ids # <<>>)
    /\ parse.pc # "panic" =>
           Len(lapic_ids) + 1 <= MAX_CPUS /\ Len(irq_map) <= MAX_IRQ_OVERRIDES

\* What SoundFirmware says of the structures.
LEMMA TablesSound ==
    ASSUME SoundFirmwares, fw \in Firmwares
    PROVE  /\ Len(Tables) \in Nat /\ DOMAIN Tables = 1 .. Len(Tables)
           /\ \A k \in 1 .. Len(Tables) : Tables[k].sig = "APIC" =>
                 /\ Len(Tables[k].entries) \in Nat
                 /\ DOMAIN Tables[k].entries = 1 .. Len(Tables[k].entries)
           /\ \A k, j \in Nat : Listed(k, j) => SoundEntry(Struct(k, j))
           /\ \A k, j, l, i \in Nat :
                 Listed(k, j) /\ Listed(l, i) /\ (k # l \/ j # i) =>
                     SoundPair(Struct(k, j), Struct(l, i))
<1>1. SoundTables(Tables)
  BY DEF SoundFirmwares, SoundFirmware, Tables
<1> PICK t : t = Tables
  OBVIOUS
<1>2. SoundTables(t)
  BY <1>1
<1>3. /\ Len(t) \in Nat /\ DOMAIN t = 1 .. Len(t)
      /\ \A k \in 1 .. Len(t) : t[k].sig = "APIC" =>
            /\ Len(t[k].entries) \in Nat
            /\ DOMAIN t[k].entries = 1 .. Len(t[k].entries)
            /\ \A j \in 1 .. Len(t[k].entries) : SoundEntry(t[k].entries[j])
  BY <1>2 DEF SoundTables
<1>4. \A k, l \in 1 .. Len(t) : t[k].sig = "APIC" /\ t[l].sig = "APIC" =>
          \A j \in 1 .. Len(t[k].entries) : \A i \in 1 .. Len(t[l].entries) :
             k # l \/ j # i => SoundPair(t[k].entries[j], t[l].entries[i])
  BY <1>2, <1>3 DEF SoundTables
<1> QED
  BY <1>3, <1>4 DEF Listed, Struct

\* The structure the code is at has not been read before.
LEMMA AtStructure ==
    ASSUME SoundFirmwares, MadtInv, NEW type, AtEntry(type)
    PROVE  /\ Reading /\ parse.k \in Nat /\ parse.e \in Nat
           /\ Listed(parse.k, parse.e) /\ ~Read(parse.k, parse.e)
           /\ Entry = Struct(parse.k, parse.e) /\ Entry.type = type
           /\ SoundEntry(Entry)
<1>1. Reading /\ parse.k \in Nat \ {0} /\ parse.e \in Nat \ {0} /\ SDT = Tables
  BY DEF ParseState, AtEntry, AtTable, Reading, MadtInv, MadtTypeOK
<1>2. parse.k <= Len(Tables) /\ parse.e <= Len(Structures) /\ Structures[parse.e].type = type
  BY <1>1 DEF AtEntry, AtTable
<1>3. Len(<<>>) = 0
  OBVIOUS
<1>4. Tables[parse.k].sig = "APIC" /\ Structures = Tables[parse.k].entries
  BY <1>1, <1>2, <1>3 DEF Structures, Table
<1>5. Listed(parse.k, parse.e) /\ Entry = Struct(parse.k, parse.e) /\ Entry.type = type
  BY <1>1, <1>2, <1>4, TablesSound DEF Listed, Struct, Entry, MadtInv, MadtTypeOK
<1>6. ~Read(parse.k, parse.e)
  BY <1>1 DEF Read, Parsed, Reading
<1> QED
  BY <1>1, <1>5, <1>6, TablesSound DEF MadtInv, MadtTypeOK

\* What a step adds to the structures read: the one the code is at.
LEMMA ReadOne ==
    ASSUME SoundFirmwares, MadtInv, NEW type, AtEntry(type), fw' = fw,
           parse' = [parse EXCEPT !.e = parse.e + 1]
                \/ parse' = [parse EXCEPT !.e = parse.e + 1, !.pc = parse.pc]
    PROVE  \A k, j \in Nat : Read(k, j)' <=> Read(k, j) \/ (k = parse.k /\ j = parse.e)
<1>1. parse'.pc = parse.pc /\ parse'.k = parse.k /\ parse'.e = parse.e + 1
  BY DEF ParseState, MadtInv, MadtTypeOK
<1>2. Tables' = Tables
  BY DEF Tables, Candidates, Signed
<1>3. \A k, j \in Nat : Listed(k, j)' <=> Listed(k, j)
  BY <1>2 DEF Listed
<1>4. ~Parsed /\ ~Parsed'
  BY <1>1, AtStructure DEF Parsed, Reading
<1> QED
  BY <1>1, <1>3, <1>4, AtStructure DEF Read, MadtInv, MadtTypeOK

\* The tables do not change.
LEMMA TablesFixed ==
    ASSUME fw' = fw
    PROVE  /\ Tables' = Tables
           /\ \A k, j \in Nat : (Listed(k, j)' <=> Listed(k, j)) /\ Struct(k, j)' = Struct(k, j)
<1>1. Tables' = Tables
  BY DEF Tables, Candidates, Signed
<1> QED
  BY <1>1 DEF Listed, Struct

\* Structures of another kind add nothing, and neither does a table's end.
LEMMA CpusSame ==
    ASSUME fw' = fw, lapic_ids' = lapic_ids, CpusKept,
           \A k, j \in Nat : Read(k, j) => Read(k, j)',
           \A k, j \in Nat : Read(k, j)' => Read(k, j) \/ ~OtherCpu(Struct(k, j))
    PROVE  CpusKept'
<1>1. \A k, j \in Nat : Struct(k, j)' = Struct(k, j)
  BY TablesFixed
<1>2. ASSUME NEW i \in 1 .. Len(lapic_ids)
      PROVE  \E k, j \in Nat : Read(k, j)' /\ OtherCpu(Struct(k, j)')
                               /\ lapic_ids[i] = Struct(k, j)'.id
  <2>1. PICK k, j \in Nat : Read(k, j) /\ OtherCpu(Struct(k, j))
                            /\ lapic_ids[i] = Struct(k, j).id
    BY <1>2 DEF CpusKept
  <2> QED
    BY <1>1, <2>1
<1>3. ASSUME NEW k \in Nat, NEW j \in Nat, Read(k, j)', OtherCpu(Struct(k, j)')
      PROVE  \E i \in 1 .. Len(lapic_ids) : lapic_ids[i] = Struct(k, j)'.id
  <2>1. Struct(k, j)' = Struct(k, j)
    BY <1>1
  <2>2. OtherCpu(Struct(k, j))
    BY <1>3, <2>1
  <2>3. Read(k, j)
    BY <1>3, <2>2
  <2>4. \E i \in 1 .. Len(lapic_ids) : lapic_ids[i] = Struct(k, j).id
    BY <2>2, <2>3, Zenon DEF CpusKept
  <2> QED
    BY <2>1, <2>4
<1> QED
  BY <1>2, <1>3 DEF CpusKept, OtherCpu

LEMMA OverridesSame ==
    ASSUME fw' = fw, irq_map' = irq_map, OverridesKept,
           \A k, j \in Nat : Read(k, j) => Read(k, j)',
           \A k, j \in Nat : Read(k, j)' => Read(k, j) \/ Struct(k, j).type # "override"
    PROVE  OverridesKept'
<1>1. \A k, j \in Nat : Struct(k, j)' = Struct(k, j)
  BY TablesFixed
<1>2. ASSUME NEW i \in 1 .. Len(irq_map)
      PROVE  \E k, j \in Nat : Read(k, j)' /\ Struct(k, j)'.type = "override"
                               /\ irq_map[i] = Kept(Struct(k, j)')
  <2>1. PICK k, j \in Nat : Read(k, j) /\ Struct(k, j).type = "override"
                            /\ irq_map[i] = Kept(Struct(k, j))
    BY <1>2 DEF OverridesKept
  <2> QED
    BY <1>1, <2>1
<1>3. ASSUME NEW k \in Nat, NEW j \in Nat, Read(k, j)', Struct(k, j)'.type = "override"
      PROVE  \E i \in 1 .. Len(irq_map) : irq_map[i] = Kept(Struct(k, j)')
  <2>1. Struct(k, j)' = Struct(k, j)
    BY <1>1
  <2>2. Read(k, j) /\ Struct(k, j).type = "override"
    BY <1>3, <2>1
  <2>3. \E i \in 1 .. Len(irq_map) : irq_map[i] = Kept(Struct(k, j))
    BY <2>2, Zenon DEF OverridesKept
  <2> QED
    BY <2>1, <2>3
<1> QED
  BY <1>2, <1>3 DEF OverridesKept, Kept

\* What Append does.
LEMMA Appended ==
    ASSUME NEW S, NEW s \in Seq(S), NEW x \in S
    PROVE  /\ Append(s, x) \in Seq(S) /\ Len(s) \in Nat /\ Len(Append(s, x)) = Len(s) + 1
           /\ \A i \in 1 .. Len(s) : Append(s, x)[i] = s[i]
           /\ Append(s, x)[Len(s) + 1] = x
OBVIOUS

\* A CPU is added: its ID is none of those that were read before.
LEMMA CpuAdded ==
    ASSUME SoundFirmwares, MadtInv, AtEntry("lapic"), fw' = fw,
           parse' = [parse EXCEPT !.e = parse.e + 1, !.pc = parse.pc],
           Entry.enabled, Entry.id # 0, lapic_ids' = Append(lapic_ids, Entry.id)
    PROVE  CpusKept'
<1> DEFINE x == Entry.id
           n == Len(lapic_ids)
           k0 == parse.k
           j0 == parse.e
<1>1. /\ k0 \in Nat /\ j0 \in Nat /\ Listed(k0, j0) /\ ~Read(k0, j0)
      /\ Entry = Struct(k0, j0) /\ OtherCpu(Entry) /\ x \in Nat /\ CpusKept
  BY AtStructure DEF SoundEntry, OtherCpu, MadtInv
<1>2. \A k, j \in Nat : Read(k, j)' <=> Read(k, j) \/ (k = k0 /\ j = j0)
  BY ReadOne
<1>3. /\ n \in Nat /\ Len(lapic_ids') = n + 1 /\ lapic_ids'[n + 1] = x
      /\ \A i \in 1 .. n : lapic_ids'[i] = lapic_ids[i]
  BY <1>1, Appended DEF MadtInv, MadtTypeOK
<1>4. \A k, j \in Nat : Struct(k, j)' = Struct(k, j)
  BY TablesFixed
<1>5. \A i \in 1 .. n : lapic_ids[i] # x
  <2> SUFFICES ASSUME NEW i \in 1 .. n, lapic_ids[i] = x PROVE FALSE
    OBVIOUS
  <2>1. PICK k, j \in Nat : Read(k, j) /\ OtherCpu(Struct(k, j)) /\ x = Struct(k, j).id
    BY <1>1 DEF CpusKept
  <2>2. Listed(k, j) /\ (k # k0 \/ j # j0)
    BY <1>1, <2>1 DEF Read
  <2>3. SoundPair(Struct(k, j), Struct(k0, j0))
    BY <1>1, <2>2, TablesSound DEF MadtInv, MadtTypeOK
  <2> QED
    BY <1>1, <2>1, <2>3 DEF SoundPair, OtherCpu
<1> HIDE DEF x, n, k0, j0
<1>6. ASSUME NEW i \in 1 .. n + 1
      PROVE  \E k, j \in Nat : Read(k, j)' /\ OtherCpu(Struct(k, j)')
                               /\ lapic_ids'[i] = Struct(k, j)'.id
  <2>1. CASE i = n + 1
    BY <1>1, <1>2, <1>3, <1>4, <2>1 DEF x
  <2>2. CASE i \in 1 .. n
    <3>1. PICK k, j \in Nat : Read(k, j) /\ OtherCpu(Struct(k, j))
                              /\ lapic_ids[i] = Struct(k, j).id
      BY <1>1, <2>2 DEF CpusKept, n
    <3> QED
      BY <1>2, <1>3, <1>4, <2>2, <3>1
  <2> QED
    BY <1>3, <1>6, <2>1, <2>2
<1>7. ASSUME NEW k \in Nat, NEW j \in Nat, Read(k, j)', OtherCpu(Struct(k, j)')
      PROVE  \E i \in 1 .. n + 1 : lapic_ids'[i] = Struct(k, j)'.id
  <2>1. CASE Read(k, j)
    <3>1. PICK i \in 1 .. n : lapic_ids[i] = Struct(k, j).id
      BY <1>1, <1>4, <1>7, <2>1 DEF CpusKept, n
    <3>2. i \in 1 .. n + 1
      BY <1>3
    <3> QED
      BY <1>3, <1>4, <3>1, <3>2
  <2>2. CASE k = k0 /\ j = j0
    <3>1. n + 1 \in 1 .. n + 1
      BY <1>3
    <3> QED
      BY <1>1, <1>3, <1>4, <2>2, <3>1 DEF x
  <2> QED
    BY <1>2, <1>7, <2>1, <2>2
<1>8. ASSUME NEW i \in 1 .. n + 1, NEW j \in 1 .. n + 1, i # j
      PROVE  lapic_ids'[i] # lapic_ids'[j]
  <2>1. /\ i \in 1 .. n \/ i = n + 1
        /\ j \in 1 .. n \/ j = n + 1
    BY <1>3
  <2>2. \A a, b \in 1 .. n : a # b => lapic_ids[a] # lapic_ids[b]
    BY <1>1 DEF CpusKept, n
  <2> QED
    BY <1>3, <1>5, <1>8, <2>1, <2>2
<1>9. 1 .. Len(lapic_ids') = 1 .. n + 1
  BY <1>3
<1>10. (\A i \in 1 .. Len(lapic_ids) : \E k, j \in Nat :
          Read(k, j) /\ OtherCpu(Struct(k, j)) /\ lapic_ids[i] = Struct(k, j).id)'
  BY <1>6, <1>9 DEF OtherCpu
<1>11. (\A k, j \in Nat : Read(k, j) /\ OtherCpu(Struct(k, j)) =>
          \E i \in 1 .. Len(lapic_ids) : lapic_ids[i] = Struct(k, j).id)'
  BY <1>7, <1>9 DEF OtherCpu
<1>12. (\A i, j \in 1 .. Len(lapic_ids) : i # j => lapic_ids[i] # lapic_ids[j])'
  BY <1>8, <1>9
<1> QED
  BY <1>10, <1>11, <1>12 DEF CpusKept

\* An override is kept.
LEMMA OverrideAdded ==
    ASSUME SoundFirmwares, MadtInv, AtEntry("override"), fw' = fw,
           parse' = [parse EXCEPT !.e = parse.e + 1, !.pc = parse.pc],
           irq_map' = Append(irq_map, Kept(Entry))
    PROVE  OverridesKept'
<1> DEFINE x == Kept(Entry)
           n == Len(irq_map)
           k0 == parse.k
           j0 == parse.e
<1>1. /\ k0 \in Nat /\ j0 \in Nat /\ Entry = Struct(k0, j0) /\ Entry.type = "override"
      /\ x \in Override /\ OverridesKept
  <2>1. /\ k0 \in Nat /\ j0 \in Nat /\ Entry = Struct(k0, j0) /\ Entry.type = "override"
        /\ OverridesKept /\ SoundEntry(Entry)
    BY AtStructure DEF MadtInv
  <2>2. Entry.irq \in Nat /\ Entry.gsi \in Nat /\ Entry.flags \in Nat
    BY <2>1 DEF SoundEntry
  <2> QED
    BY <2>1, <2>2 DEF Override, Kept
<1>2. \A k, j \in Nat : Read(k, j)' <=> Read(k, j) \/ (k = k0 /\ j = j0)
  BY ReadOne
<1>3. /\ n \in Nat /\ Len(irq_map') = n + 1 /\ irq_map'[n + 1] = x
      /\ \A i \in 1 .. n : irq_map'[i] = irq_map[i]
  BY <1>1, Appended DEF MadtInv, MadtTypeOK
<1>4. \A k, j \in Nat : Struct(k, j)' = Struct(k, j)
  BY TablesFixed
<1>5. x = Kept(Struct(k0, j0))
  BY <1>1
<1> HIDE DEF x, n, k0, j0
<1>6. ASSUME NEW i \in 1 .. n + 1
      PROVE  \E k, j \in Nat : Read(k, j)' /\ Struct(k, j)'.type = "override"
                               /\ irq_map'[i] = Kept(Struct(k, j)')
  <2>1. CASE i = n + 1
    BY <1>1, <1>2, <1>3, <1>4, <1>5, <2>1
  <2>2. CASE i \in 1 .. n
    <3>1. PICK k, j \in Nat : Read(k, j) /\ Struct(k, j).type = "override"
                              /\ irq_map[i] = Kept(Struct(k, j))
      BY <1>1, <2>2 DEF OverridesKept, n
    <3> QED
      BY <1>2, <1>3, <1>4, <2>2, <3>1
  <2> QED
    BY <1>3, <1>6, <2>1, <2>2
<1>7. ASSUME NEW k \in Nat, NEW j \in Nat, Read(k, j)', Struct(k, j)'.type = "override"
      PROVE  \E i \in 1 .. n + 1 : irq_map'[i] = Kept(Struct(k, j)')
  <2>1. CASE Read(k, j)
    <3>1. PICK i \in 1 .. n : irq_map[i] = Kept(Struct(k, j))
      BY <1>1, <1>4, <1>7, <2>1 DEF OverridesKept, n
    <3>2. i \in 1 .. n + 1
      BY <1>3
    <3> QED
      BY <1>3, <1>4, <3>1, <3>2
  <2>2. CASE k = k0 /\ j = j0
    <3>1. n + 1 \in 1 .. n + 1
      BY <1>3
    <3> QED
      BY <1>3, <1>4, <1>5, <2>2, <3>1
  <2> QED
    BY <1>2, <1>7, <2>1, <2>2
<1>8. 1 .. Len(irq_map') = 1 .. n + 1
  BY <1>3
<1>9. (\A i \in 1 .. Len(irq_map) : \E k, j \in Nat :
          Read(k, j) /\ Struct(k, j).type = "override" /\ irq_map[i] = Kept(Struct(k, j)))'
  BY <1>6, <1>8 DEF Kept
<1>10. (\A k, j \in Nat : Read(k, j) /\ Struct(k, j).type = "override" =>
          \E i \in 1 .. Len(irq_map) : irq_map[i] = Kept(Struct(k, j)))'
  BY <1>7, <1>8 DEF Kept
<1> QED
  BY <1>9, <1>10 DEF OverridesKept

\* The updates of parse.
LEMMA ParseUpdated ==
    ASSUME NEW x \in ParseState, NEW pc \in PlatformPc, NEW k \in Nat \ {0},
           NEW e \in Nat \ {0}
    PROVE  /\ [x EXCEPT !.e = e] \in ParseState
           /\ [x EXCEPT !.e = e].pc = x.pc
           /\ [x EXCEPT !.e = e, !.pc = x.pc] = [x EXCEPT !.e = e]
           /\ [x EXCEPT !.e = e, !.pc = pc] \in ParseState
           /\ [x EXCEPT !.e = e, !.pc = pc].pc = pc
           /\ [x EXCEPT !.k = k, !.e = e] \in ParseState
BY DEF ParseState

\* A step that reads no structure leaves what was kept.
LEMMA MadtSame ==
    ASSUME MadtInv, UNCHANGED <<fw, lapic_ids, irq_map>>, Reading \/ Parsed,
           \A k, j \in Nat : Read(k, j)' <=> Read(k, j)
    PROVE  CpusKept' /\ OverridesKept'
BY CpusSame, OverridesSame DEF MadtInv

\* acpi_init goes on with the list that the RSDP names.
LEMMA RsdpMadtInv == SoundFirmwares /\ MadtInv /\ acpi_init => MadtInv'
<1> SUFFICES ASSUME SoundFirmwares, MadtInv, acpi_init PROVE MadtInv'
  OBVIOUS
<1> DEFINE p == Candidates[Min(Signed)]
<1>1. /\ UNCHANGED <<fw, lapic_ids, irq_map, ioapic, phys_id, trampoline>>
      /\ parse.pc = "rsdp" /\ lapic_ids = <<>> /\ irq_map = <<>> /\ parse.k = 1 /\ parse.e = 1
      /\ phys_id = 0
  BY DEF acpi_init, acpiVars, apicVars, MadtInv
<1>2. /\ parse' = [parse EXCEPT !.pc = parse'.pc]
      /\ parse'.k = 1 /\ parse'.e = 1
      /\ parse'.pc = IF Signed = {} THEN "panic" ELSE RsdpList(p)
  BY <1>1 DEF acpi_init, Goto, MadtInv, MadtTypeOK
<1> HIDE DEF p
<1>3. /\ RsdpList(p) \in {"panic", "rsdt", "xsdt"}
      /\ RsdpList(p) = "xsdt" => p.rev = 2 /\ p.xsdt
      /\ RsdpList(p) = "rsdt" => ~(p.rev = 2 /\ p.xsdt)
  BY DEF RsdpList
<1>4. parse'.pc \in {"panic", "rsdt", "xsdt"}
  BY <1>2, <1>3
<1>5. MadtTypeOK'
  BY <1>1, <1>2, <1>4 DEF ParseState, MadtInv, MadtTypeOK, PlatformPc
<1>6. Reading' => SDT' = Tables'
  <2>1. Tables' = Tables
    BY <1>1, TablesFixed
  <2>2. Tables = IF p.rev = 2 /\ p.xsdt THEN fw.xsdt ELSE fw.rsdt
    BY DEF Tables, p
  <2>3. SDT' = IF parse'.pc = "xsdt" THEN fw.xsdt ELSE fw.rsdt
    BY <1>1 DEF SDT
  <2> QED
    BY <1>2, <1>3, <2>1, <2>2, <2>3 DEF Reading
<1>7. CpusKept' /\ OverridesKept'
  <2>1. \A k, j \in Nat : ~Read(k, j)'
    <3> SUFFICES ASSUME NEW k \in Nat, NEW j \in Nat, Read(k, j)' PROVE FALSE
      OBVIOUS
    <3>1. ~Parsed'
      BY <1>4 DEF Parsed
    <3>2. Listed(k, j) /\ (k < 1 \/ (k = 1 /\ j < 1))
      BY <1>1, <1>2, <3>1, TablesFixed DEF Read
    <3> QED
      BY <3>2 DEF Listed
  <2>2. Len(lapic_ids') = 0 /\ Len(irq_map') = 0
    BY <1>1
  <2> QED
    BY <2>1, <2>2 DEF CpusKept, OverridesKept
<1>8. Len(lapic_ids') + 1 <= MAX_CPUS /\ Len(irq_map') <= MAX_IRQ_OVERRIDES
  BY <1>1, PlatformAssumption
<1> QED
  BY <1>1, <1>4, <1>5, <1>6, <1>7, <1>8 DEF MadtInv, Reading, Parsed

\* From table to table, and the end of the list.
LEMMA TableMadtInv ==
    ASSUME SoundFirmwares, MadtInv, sdt_too_large \/ acpi_parse_dt \/ acpi_end
    PROVE  MadtInv'
<1>1. /\ UNCHANGED <<fw, lapic_ids, irq_map, ioapic, phys_id>>
      /\ Reading
  BY DEF sdt_too_large, acpi_parse_dt, acpi_end, acpiVars, apicVars, AtTable, Reading
<1>2. Tables' = Tables /\ SDT = Tables
  BY <1>1, TablesFixed DEF MadtInv
<1>3. CASE sdt_too_large
  <2>1. parse' = [parse EXCEPT !.pc = "panic"]
    BY <1>3 DEF sdt_too_large, Goto
  <2>2. MadtTypeOK' /\ parse'.pc = "panic"
    BY <1>1, <2>1 DEF ParseState, MadtInv, MadtTypeOK, PlatformPc
  <2> QED
    BY <2>2 DEF MadtInv, Reading, Parsed
<1>4. CASE acpi_parse_dt
  <2>1. parse' = [parse EXCEPT !.k = parse.k + 1, !.e = 1]
    BY <1>4 DEF acpi_parse_dt, NextTable
  <2>2. /\ MadtTypeOK' /\ parse'.pc = parse.pc /\ parse'.k = parse.k + 1 /\ parse'.e = 1
        /\ parse.k \in Nat /\ parse.e \in Nat
    <3>1. parse \in ParseState
      BY DEF MadtInv, MadtTypeOK
    <3>2. parse.k + 1 \in Nat \ {0} /\ 1 \in Nat \ {0} /\ parse.pc \in PlatformPc
      BY <3>1 DEF ParseState
    <3>3. parse' \in ParseState
      BY <2>1, <3>1, <3>2, ParseUpdated
    <3> QED
      BY <1>1, <2>1, <3>1, <3>3 DEF ParseState, MadtInv, MadtTypeOK
  <2>3. parse.k <= Len(Tables) /\ parse.e > Len(Structures)
    BY <1>2, <1>4 DEF acpi_parse_dt, AtTable
  <2>4. SDT' = Tables' /\ Reading' /\ ~Parsed /\ ~Parsed'
    BY <1>1, <1>2, <2>2 DEF SDT, Reading, Parsed
  <2>5. ASSUME NEW k \in Nat, NEW j \in Nat
        PROVE  Read(k, j)' <=> Read(k, j)
    <3>1. Listed(k, j)' <=> Listed(k, j)
      BY <1>1, TablesFixed
    <3>2. Listed(k, j) => (k < parse.k + 1 \/ (k = parse.k + 1 /\ j < 1)
                           <=> k < parse.k \/ (k = parse.k /\ j < parse.e))
      <4> SUFFICES ASSUME Listed(k, j), k = parse.k PROVE j < parse.e
        BY <2>2 DEF Listed
      <4>1. Structures = Tables[k].entries
        BY <1>2 DEF Structures, Table, Listed
      <4>2. Len(Tables[k].entries) \in Nat
        BY <1>1, TablesSound DEF Listed, MadtInv, MadtTypeOK
      <4> QED
        BY <2>2, <2>3, <4>1, <4>2 DEF Listed
    <3> QED
      BY <2>2, <2>4, <3>1, <3>2 DEF Read
  <2>6. CpusKept' /\ OverridesKept'
    BY <1>1, <2>5, MadtSame
  <2> QED
    BY <1>1, <2>2, <2>4, <2>6 DEF MadtInv, Reading
<1>5. CASE acpi_end
  <2>1. /\ parse' = [parse EXCEPT !.pc = "lapic"] /\ parse.k > Len(Tables)
        /\ trampoline' = (Len(lapic_ids) + 1 > 1)
    BY <1>2, <1>5 DEF acpi_end, Goto, g_cpus
  <2>2. MadtTypeOK' /\ parse'.pc = "lapic" /\ parse.k \in Nat
    BY <1>1, <2>1 DEF ParseState, MadtInv, MadtTypeOK, PlatformPc
  <2>3. ~Parsed /\ Parsed' /\ ~Reading'
    BY <1>1, <2>2 DEF Reading, Parsed
  <2>4. ASSUME NEW k \in Nat, NEW j \in Nat
        PROVE  Read(k, j)' <=> Read(k, j)
    <3>1. Listed(k, j)' <=> Listed(k, j)
      BY <1>1, TablesFixed
    <3>2. Listed(k, j) => k < parse.k
      BY <1>1, <2>1, <2>2, TablesSound DEF Listed, MadtInv, MadtTypeOK
    <3> QED
      BY <2>3, <3>1, <3>2 DEF Read
  <2>5. CpusKept' /\ OverridesKept'
    BY <1>1, <2>4, MadtSame
  <2>6. trampoline' <=> lapic_ids' # <<>>
    <3>1. lapic_ids \in Seq(Nat) /\ lapic_ids' = lapic_ids
      BY <1>1 DEF MadtInv, MadtTypeOK
    <3>2. lapic_ids # <<>> <=> Len(lapic_ids) + 1 > 1
      BY <3>1
    <3> QED
      BY <2>1, <3>1, <3>2, Zenon
  <2>7. Len(lapic_ids') + 1 <= MAX_CPUS /\ Len(irq_map') <= MAX_IRQ_OVERRIDES
    BY <1>1 DEF MadtInv, Reading
  <2> QED
    BY <2>2, <2>3, <2>5, <2>6, <2>7 DEF MadtInv
<1> QED
  BY <1>3, <1>4, <1>5

\* The structures one by one.  Past the bound the code panics, and nothing
\* more is claimed.
LEMMA EntryMadtInv ==
    ASSUME SoundFirmwares, MadtInv,
           acpi_add_cpu \/ add_ioapic \/ add_override \/ skip_entry
    PROVE  MadtInv'
<1>1. UNCHANGED <<fw, phys_id, trampoline>>
  BY DEF acpi_add_cpu, add_ioapic, add_override, skip_entry, acpiVars, apicVars
<1>2. Tables' = Tables
  BY <1>1, TablesFixed
<1> DEFINE Next1 == [parse EXCEPT !.e = parse.e + 1]
<1>3. /\ parse \in ParseState /\ lapic_ids \in Seq(Nat) /\ irq_map \in Seq(Override)
      /\ ioapic \in [num : Nat, gsi_base : Nat, num_gsi : Nat] /\ fw \in Firmwares
  BY DEF MadtInv, MadtTypeOK
<1>4. Next1 \in ParseState /\ Next1 = [parse EXCEPT !.e = parse.e + 1, !.pc = parse.pc]
      /\ Next1.pc = parse.pc
  <2>1. PICK e \in Nat \ {0} : e = parse.e + 1
    BY <1>3 DEF ParseState
  <2>2. parse.k \in Nat \ {0} /\ parse.pc \in PlatformPc
    BY <1>3 DEF ParseState
  <2>3. Next1 = [parse EXCEPT !.e = e]
    BY <2>1
  <2>4. [parse EXCEPT !.e = parse.e + 1, !.pc = parse.pc] = [parse EXCEPT !.e = e, !.pc = parse.pc]
    BY <2>1
  <2>5. /\ [parse EXCEPT !.e = e] \in ParseState
        /\ [parse EXCEPT !.e = e].pc = parse.pc
        /\ [parse EXCEPT !.e = e, !.pc = parse.pc] = [parse EXCEPT !.e = e]
    <3> HIDE DEF Next1
    <3> QED
      BY <1>3, <2>2, ParseUpdated
  <2> QED
    BY <2>3, <2>4, <2>5, Zenon
<1>5. PICK type : AtEntry(type)
  BY DEF acpi_add_cpu, add_ioapic, add_override, skip_entry
<1>6. Reading /\ ~Parsed /\ parse.pc \notin {"rsdp", "panic"}
  BY <1>5, AtStructure DEF Reading, Parsed
<1>7. ASSUME parse' = Next1, CpusKept', OverridesKept', lapic_ids' \in Seq(Nat),
             irq_map' \in Seq(Override),
             ioapic' \in [num : Nat, gsi_base : Nat, num_gsi : Nat],
             Len(lapic_ids') + 1 <= MAX_CPUS, Len(irq_map') <= MAX_IRQ_OVERRIDES
      PROVE  MadtInv'
  <2>1. Reading' /\ ~Parsed' /\ parse'.pc \notin {"rsdp", "panic"} /\ SDT' = SDT
    BY <1>1, <1>4, <1>6, <1>7 DEF Reading, Parsed, SDT
  <2>2. MadtTypeOK'
    BY <1>1, <1>3, <1>4, <1>7 DEF MadtTypeOK
  <2> QED
    BY <1>1, <1>2, <1>6, <1>7, <2>1, <2>2 DEF MadtInv
<1>8. ASSUME parse' \in ParseState, parse'.pc = "panic", lapic_ids' \in Seq(Nat),
             irq_map' \in Seq(Override),
             ioapic' \in [num : Nat, gsi_base : Nat, num_gsi : Nat]
      PROVE  MadtInv'
  BY <1>1, <1>3, <1>8 DEF MadtInv, MadtTypeOK, Reading, Parsed
<1>9. ASSUME NEW n \in Nat, NEW bound \in Nat, Count(n, bound)
      PROVE  \/ n <= bound /\ parse' = Next1
             \/ parse' \in ParseState /\ parse'.pc = "panic"
  <2>1. parse.e + 1 \in Nat \ {0} /\ parse.k \in Nat \ {0} /\ "panic" \in PlatformPc
    BY <1>3 DEF ParseState, PlatformPc
  <2>2. CASE n > bound
    <3>1. parse' = [parse EXCEPT !.e = parse.e + 1, !.pc = "panic"]
      BY <1>9, <2>2 DEF Count
    <3>2. PICK e \in Nat \ {0} : e = parse.e + 1
      BY <2>1
    <3>3. parse' = [parse EXCEPT !.e = e, !.pc = "panic"]
      BY <3>1, <3>2
    <3>4. /\ [parse EXCEPT !.e = e, !.pc = "panic"] \in ParseState
          /\ [parse EXCEPT !.e = e, !.pc = "panic"].pc = "panic"
      BY <1>3 DEF ParseState, PlatformPc
    <3> QED
      BY <3>3, <3>4
  <2>3. CASE n <= bound
    <3>1. parse' = [parse EXCEPT !.e = parse.e + 1, !.pc = parse.pc]
      <4>1. ~(n > bound)
        BY <2>3
      <4> QED
        BY <1>9, <4>1, Zenon DEF Count
    <3> QED
      BY <1>4, <2>3, <3>1
  <2> QED
    BY <2>2, <2>3
<1>10. ASSUME parse' = Next1
       PROVE  \A k, j \in Nat : Read(k, j)' <=> Read(k, j) \/ (k = parse.k /\ j = parse.e)
  BY <1>1, <1>5, <1>10, ReadOne
<1>11. ASSUME parse' = Next1, lapic_ids' = lapic_ids, ~OtherCpu(Entry)
       PROVE  CpusKept'
  BY <1>1, <1>5, <1>6, <1>10, <1>11, AtStructure, CpusSame DEF MadtInv
<1>12. ASSUME parse' = Next1, irq_map' = irq_map, Entry.type # "override"
       PROVE  OverridesKept'
  BY <1>1, <1>5, <1>6, <1>10, <1>12, AtStructure, OverridesSame DEF MadtInv
<1>13. Len(lapic_ids) + 1 <= MAX_CPUS /\ Len(irq_map) <= MAX_IRQ_OVERRIDES
       /\ Len(lapic_ids) \in Nat /\ Len(irq_map) \in Nat
  BY <1>3, <1>6 DEF MadtInv
<1> HIDE DEF Next1
<1>14. CASE acpi_add_cpu
  <2>1. AtEntry("lapic") /\ Entry.type = "lapic" /\ Entry.id \in Nat /\ phys_id = 0
    BY <1>6, <1>14, AtStructure DEF acpi_add_cpu, SoundEntry, MadtInv
  <2>2. UNCHANGED <<ioapic, irq_map>>
    BY <1>14 DEF acpi_add_cpu
  <2>3. CASE Entry.enabled /\ Entry.id # 0
    <3>1. lapic_ids' = Append(lapic_ids, Entry.id) /\ Count(Len(lapic_ids) + 2, MAX_CPUS)
      BY <1>14, <2>1, <2>3, <1>13 DEF acpi_add_cpu, g_cpus
    <3>2. lapic_ids' \in Seq(Nat) /\ Len(lapic_ids') = Len(lapic_ids) + 1
      BY <1>3, <2>1, <3>1, Appended
    <3>3. CASE parse'.pc = "panic" /\ parse' \in ParseState
      BY <1>3, <1>8, <2>2, <3>2, <3>3
    <3>4. CASE Len(lapic_ids) + 2 <= MAX_CPUS /\ parse' = Next1
      <4>1. CpusKept'
        BY <1>1, <1>4, <2>1, <2>3, <3>1, <3>4, CpuAdded
      <4>2. OverridesKept'
        BY <1>12, <2>1, <2>2, <3>4
      <4> QED
        BY <1>3, <1>7, <1>13, <2>2, <3>2, <3>4, <4>1, <4>2
    <3> QED
      BY <1>9, <1>13, <3>1, <3>3, <3>4, PlatformAssumption
  <2>4. CASE ~(Entry.enabled /\ Entry.id # 0)
    <3>1. lapic_ids' = lapic_ids /\ parse' = Next1
      BY <1>14, <2>1, <2>4 DEF acpi_add_cpu, Next1
    <3>2. CpusKept' /\ OverridesKept'
      BY <1>11, <1>12, <2>1, <2>2, <2>4, <3>1 DEF OtherCpu
    <3> QED
      BY <1>3, <1>7, <1>13, <2>2, <3>1, <3>2
  <2> QED
    BY <2>3, <2>4
<1>15. CASE add_ioapic
  <2>1. AtEntry("ioapic") /\ Entry.type = "ioapic" /\ Entry.gsi_base \in Nat
    BY <1>15, AtStructure DEF add_ioapic, SoundEntry
  <2>2. UNCHANGED <<lapic_ids, irq_map>> /\ Count(ioapic.num + 1, 1)
        /\ ioapic' = [ioapic EXCEPT !.num = ioapic.num + 1, !.gsi_base = Entry.gsi_base]
    BY <1>15 DEF add_ioapic, acpiVars
  <2>3. ioapic' \in [num : Nat, gsi_base : Nat, num_gsi : Nat] /\ ioapic.num + 1 \in Nat
    <3>1. PICK n \in Nat, b \in Nat : n = ioapic.num + 1 /\ b = Entry.gsi_base
      BY <1>3, <2>1
    <3>2. ioapic' = [ioapic EXCEPT !.num = n, !.gsi_base = b]
      BY <2>2, <3>1
    <3>3. ioapic' \in [num : Nat, gsi_base : Nat, num_gsi : Nat]
      BY <1>3, <3>2
    <3> QED
      BY <3>1, <3>3
  <2>4. CASE parse' = Next1
    <3>1. CpusKept' /\ OverridesKept'
      BY <1>11, <1>12, <2>1, <2>2, <2>4 DEF OtherCpu
    <3> QED
      BY <1>3, <1>7, <1>13, <2>2, <2>3, <2>4, <3>1
  <2>5. CASE parse'.pc = "panic" /\ parse' \in ParseState
    BY <1>3, <1>8, <2>2, <2>3, <2>5
  <2> QED
    BY <1>9, <2>2, <2>3, <2>4, <2>5
<1>16. CASE add_override
  <2>1. AtEntry("override") /\ Entry.type = "override" /\ SoundEntry(Entry)
    BY <1>16, AtStructure DEF add_override
  <2>2. UNCHANGED <<lapic_ids, ioapic>>
    BY <1>16 DEF add_override
  <2>3. CASE Entry.bus # 0
    <3>1. irq_map' = irq_map /\ parse' = [parse EXCEPT !.pc = "panic"]
      BY <1>16, <2>3 DEF add_override, Goto
    <3>2. parse' \in ParseState /\ parse'.pc = "panic"
      BY <1>3, <3>1 DEF ParseState, PlatformPc
    <3> QED
      BY <1>3, <1>8, <2>2, <3>1, <3>2
  <2>4. CASE Entry.bus = 0
    <3>1. irq_map' = Append(irq_map, Kept(Entry)) /\ Count(Len(irq_map) + 1, MAX_IRQ_OVERRIDES)
      BY <1>16, <2>4 DEF add_override, Kept
    <3>2. Kept(Entry) \in Override
      <4>1. Entry.irq \in Nat /\ Entry.gsi \in Nat /\ Entry.flags \in Nat
        BY <2>1 DEF SoundEntry
      <4> QED
        BY <4>1 DEF Kept, Override
    <3>3. irq_map' \in Seq(Override) /\ Len(irq_map') = Len(irq_map) + 1
      BY <1>3, <3>1, <3>2, Appended
    <3>4. CASE parse'.pc = "panic" /\ parse' \in ParseState
      BY <1>3, <1>8, <2>2, <3>3, <3>4
    <3>5. CASE Len(irq_map) + 1 <= MAX_IRQ_OVERRIDES /\ parse' = Next1
      <4>1. CpusKept'
        BY <1>11, <2>1, <2>2, <3>5 DEF OtherCpu
      <4>2. OverridesKept'
        BY <1>1, <1>4, <2>1, <3>1, <3>5, OverrideAdded
      <4> QED
        BY <1>3, <1>7, <1>13, <2>2, <3>3, <3>5, <4>1, <4>2
    <3> QED
      BY <1>9, <1>13, <3>1, <3>4, <3>5, PlatformAssumption
  <2> QED
    BY <2>3, <2>4
<1>17. CASE skip_entry
  <2>1. Entry.type = "other" /\ parse' = Next1 /\ UNCHANGED <<lapic_ids, irq_map, ioapic>>
    BY <1>17, AtStructure DEF skip_entry, acpiVars, Next1
  <2>2. CpusKept' /\ OverridesKept'
    BY <1>11, <1>12, <2>1 DEF OtherCpu
  <2> QED
    BY <1>3, <1>7, <1>13, <2>1, <2>2
<1> QED
  BY <1>14, <1>15, <1>16, <1>17

\* The LAPIC and the IOAPIC: what was read stays.
LEMMA ApicMadtInv ==
    ASSUME SoundFirmwares, MadtInv,
           \/ lapic_init \/ ioapic_start \/ ioapic_write64 \/ mask_next
           \/ ioapic_map_gsi \/ ioapic_done
    PROVE  MadtInv'
<1>1. /\ Parsed /\ UNCHANGED <<fw, lapic_ids, irq_map, trampoline>>
  BY DEF lapic_init, ioapic_start, ioapic_write64, mask_next, ioapic_map_gsi,
         ioapic_done, acpiVars, Parsed
<1>2. \E pc \in {"ioapic", "mask", "program", "done", "panic", "fault"} :
          parse' = [parse EXCEPT !.pc = pc] \/ (parse' = parse /\ parse.pc = pc)
  BY DEF lapic_init, ioapic_start, ioapic_write64, mask_next, ioapic_map_gsi,
         ioapic_done, IdentityMap, Goto
<1>3. parse' \in ParseState
      /\ parse'.pc \in {"ioapic", "mask", "program", "done", "panic", "fault"}
  BY <1>2 DEF MadtInv, MadtTypeOK, ParseState, PlatformPc
<1>4. ioapic' \in [num : Nat, gsi_base : Nat, num_gsi : Nat]
  <2>1. ioapic \in [num : Nat, gsi_base : Nat, num_gsi : Nat] /\ fw.pins \in Nat
    BY DEF MadtInv, MadtTypeOK, SoundFirmwares, SoundFirmware
  <2>2. ioapic' = ioapic \/ ioapic' = [ioapic EXCEPT !.num_gsi = fw.pins]
    BY DEF lapic_init, ioapic_start, ioapic_write64, mask_next, ioapic_map_gsi, ioapic_done
  <2> QED
    BY <2>1, <2>2
<1>5. MadtTypeOK'
  BY <1>1, <1>3, <1>4 DEF MadtInv, MadtTypeOK
<1>6. ~Reading' /\ parse'.pc # "rsdp" /\ parse.pc # "panic"
  BY <1>1, <1>3 DEF Reading, Parsed
<1>7. Parsed' => CpusKept' /\ OverridesKept'
  <2> SUFFICES ASSUME Parsed' PROVE CpusKept' /\ OverridesKept'
    OBVIOUS
  <2>1. \A k, j \in Nat : Read(k, j)' <=> Read(k, j)
    BY <1>1, TablesFixed DEF Read
  <2> QED
    BY <1>1, <2>1, MadtSame
<1> QED
  BY <1>1, <1>5, <1>6, <1>7 DEF MadtInv

LEMMA InitMadtInv == PlatformInit => MadtInv
<1> SUFFICES ASSUME PlatformInit PROVE MadtInv
  OBVIOUS
<1>1. /\ parse = [pc |-> "rsdp", k |-> 1, e |-> 1] /\ lapic_ids = <<>> /\ irq_map = <<>>
      /\ fw \in Firmwares /\ phys_id = 0
  BY DEF PlatformInit
<1>2. MadtTypeOK
  <2>1. parse \in ParseState
    BY <1>1 DEF ParseState, PlatformPc
  <2>2. lapic_ids \in Seq(Nat) /\ irq_map \in Seq(Override)
    BY <1>1
  <2>3. ioapic \in [num : Nat, gsi_base : Nat, num_gsi : Nat]
    BY DEF PlatformInit
  <2> QED
    BY <1>1, <2>1, <2>2, <2>3 DEF MadtTypeOK
<1>3. Len(lapic_ids) + 1 <= MAX_CPUS /\ Len(irq_map) <= MAX_IRQ_OVERRIDES
  BY <1>1, PlatformAssumption
<1> QED
  BY <1>1, <1>2, <1>3 DEF MadtInv, Reading, Parsed

LEMMA NextMadtInv ==
    ASSUME SoundFirmwares
    PROVE  MadtInv /\ [PlatformNext]_pvars => MadtInv'
<1> SUFFICES ASSUME MadtInv, [PlatformNext]_pvars PROVE MadtInv'
  OBVIOUS
<1>1. CASE acpi_init
  BY <1>1, RsdpMadtInv
<1>2. CASE sdt_too_large \/ acpi_parse_dt \/ acpi_end
  BY <1>2, TableMadtInv
<1>3. CASE acpi_add_cpu \/ add_ioapic \/ add_override \/ skip_entry
  BY <1>3, EntryMadtInv
<1>4. CASE \/ lapic_init \/ ioapic_start \/ ioapic_write64 \/ mask_next
           \/ ioapic_map_gsi \/ ioapic_done
  BY <1>4, ApicMadtInv
<1>5. CASE UNCHANGED pvars
  <2>1. UNCHANGED <<fw, parse, lapic_ids, trampoline, phys_id, irq_map, ioapic>>
    BY <1>5 DEF pvars
  <2>2. MadtTypeOK' /\ (Reading' <=> Reading) /\ (Parsed' <=> Parsed) /\ SDT' = SDT
        /\ Tables' = Tables
    BY <2>1, TablesFixed DEF MadtInv, MadtTypeOK, Reading, Parsed, SDT
  <2>3. Reading \/ Parsed => CpusKept' /\ OverridesKept'
    <3>1. \A k, j \in Nat : Read(k, j)' <=> Read(k, j)
      BY <2>1, <2>2, TablesFixed DEF Read
    <3> QED
      BY <2>1, <3>1, MadtSame
  <2> QED
    BY <2>1, <2>2, <2>3 DEF MadtInv
<1> QED
  BY <1>1, <1>2, <1>3, <1>4, <1>5 DEF PlatformNext

\* kernel_main changes the platform's state nowhere else.
LEMMA KernelPlatformStep == [KernelNext]_all => [PlatformNext]_pvars
BY DEF KernelNext, KernelStep, boot_return, boot_memory, boot_module, boot_config,
       boot_platform, boot_platform_done, parse_boot_info, match_module, match_done,
       acpi_sec_init, call_panics, kernel_panic, virt_init, percpu_none, percpu_vmxon,
       percpu_vmcs, percpu_ept, virt_guest_setup, virt_control_setup, virt_host_setup,
       vmlaunch, frame_in_use, all

\* What is listed in the MADT is what the loop meets.
LEMMA MadtIs ==
    ASSUME SoundFirmwares, fw \in Firmwares, NEW type
    PROVE  \A s : s \in Madt(type) <=>
               \E k, j \in Nat : Listed(k, j) /\ s = Struct(k, j) /\ s.type = type
<1> PICK t : t = Tables
  OBVIOUS
<1> DEFINE apic == {k \in DOMAIN t : t[k].sig = "APIC"}
           of(x) == {x.entries[j] : j \in {i \in DOMAIN x.entries : x.entries[i].type = type}}
<1>0. Madt(type) = UNION {of(x) : x \in {t[k] : k \in apic}}
  BY DEF Madt
<1>1. /\ Len(t) \in Nat /\ DOMAIN t = 1 .. Len(t)
      /\ \A k \in 1 .. Len(t) : t[k].sig = "APIC" =>
            /\ Len(t[k].entries) \in Nat
            /\ DOMAIN t[k].entries = 1 .. Len(t[k].entries)
  BY TablesSound
<1>2. \A k, j : Listed(k, j) <=> /\ k \in 1 .. Len(t) /\ t[k].sig = "APIC"
                                 /\ j \in 1 .. Len(t[k].entries)
  BY DEF Listed
<1>3. \A k, j : Struct(k, j) = t[k].entries[j]
  BY DEF Struct
<1>4. ASSUME NEW s, s \in Madt(type)
      PROVE  \E k, j \in Nat : Listed(k, j) /\ s = Struct(k, j) /\ s.type = type
  <2>1. PICK k \in DOMAIN t : /\ t[k].sig = "APIC"
                              /\ \E j \in DOMAIN t[k].entries :
                                    t[k].entries[j].type = type /\ s = t[k].entries[j]
    <3>1. PICK x \in {t[k] : k \in apic} : s \in of(x)
      <4> HIDE DEF of, apic
      <4> QED
        BY <1>0, <1>4
    <3>2. PICK k \in apic : x = t[k]
      BY <3>1
    <3> QED
      BY <3>1, <3>2
  <2>2. PICK j \in DOMAIN t[k].entries : t[k].entries[j].type = type /\ s = t[k].entries[j]
    BY <2>1
  <2>3. k \in 1 .. Len(t) /\ j \in 1 .. Len(t[k].entries) /\ k \in Nat /\ j \in Nat
    BY <1>1, <2>1, <2>2
  <2> QED
    BY <1>2, <1>3, <2>1, <2>2, <2>3, Zenon
<1>5. ASSUME NEW s, NEW k \in Nat, NEW j \in Nat, Listed(k, j), s = Struct(k, j), s.type = type
      PROVE  s \in Madt(type)
  <2>1. k \in DOMAIN t /\ t[k].sig = "APIC" /\ j \in DOMAIN t[k].entries
        /\ t[k].entries[j].type = type /\ s = t[k].entries[j]
    BY <1>1, <1>2, <1>3, <1>5
  <2> QED
    <3>1. t[k] \in {t[l] : l \in apic} /\ s \in of(t[k])
      BY <2>1
    <3> HIDE DEF of, apic
    <3> QED
      BY <1>0, <3>1
<1> QED
  BY <1>4, <1>5

\* acpi_init finds every enabled CPU but the BSP, once, and writes neither array
\* past its end without a panic, on every firmware whose MADT is sound.
THEOREM KernelApsAreTheOthers ==
    ASSUME SoundFirmwares
    PROVE  KernelSpec => []ApsAreTheOthers
<1>1. MadtInv => ApsAreTheOthers
  <2> SUFFICES ASSUME MadtInv PROVE ApsAreTheOthers
    OBVIOUS
  <2>1. lapic_ids \in Seq(Nat) /\ fw \in Firmwares
    BY DEF MadtInv, MadtTypeOK
  <2>2. DOMAIN lapic_ids = 1 .. Len(lapic_ids) /\ Len(lapic_ids) \in Nat
    BY <2>1
  <2>3. ASSUME Parsed, fw.bsp = 0
        PROVE  /\ {lapic_ids[j] : j \in DOMAIN lapic_ids}
                      = {s.id : s \in {t \in Madt("lapic") : t.enabled}} \ {0}
               /\ \A i, j \in DOMAIN lapic_ids : i # j => lapic_ids[i] # lapic_ids[j]
    <3>1. CpusKept
      BY <2>3 DEF MadtInv
    <3>2. \A k, j \in Nat : Read(k, j) <=> Listed(k, j)
      BY <2>3 DEF Read
    <3>3. ASSUME NEW i \in DOMAIN lapic_ids
          PROVE  lapic_ids[i] # 0 /\ \E s \in Madt("lapic") : s.enabled /\ lapic_ids[i] = s.id
      <4>1. PICK k, j \in Nat : Listed(k, j) /\ OtherCpu(Struct(k, j))
                                /\ lapic_ids[i] = Struct(k, j).id
        BY <2>2, <3>1, <3>2 DEF CpusKept
      <4> QED
        BY <2>1, <4>1, MadtIs DEF OtherCpu
    <3>4. ASSUME NEW s \in Madt("lapic"), s.enabled, s.id # 0
          PROVE  \E i \in DOMAIN lapic_ids : lapic_ids[i] = s.id
      <4>1. PICK k, j \in Nat : Listed(k, j) /\ s = Struct(k, j) /\ s.type = "lapic"
        BY <2>1, MadtIs
      <4> QED
        BY <2>2, <3>1, <3>2, <3>4, <4>1 DEF CpusKept, OtherCpu
    <3>5. {lapic_ids[j] : j \in DOMAIN lapic_ids}
              = {s.id : s \in {t \in Madt("lapic") : t.enabled}} \ {0}
      BY <3>3, <3>4
    <3> QED
      BY <2>2, <3>1, <3>5 DEF CpusKept
  <2>4. parse.pc # "panic" => g_cpus <= MAX_CPUS /\ Len(irq_map) <= MAX_IRQ_OVERRIDES
    BY DEF MadtInv, g_cpus
  <2>5. Parsed => (lapic_ids # <<>> => trampoline)
    BY DEF MadtInv
  <2> QED
    BY <2>3, <2>4, <2>5 DEF ApsAreTheOthers
<1>2. KernelInit => MadtInv
  BY InitMadtInv DEF KernelInit
<1>3. MadtInv /\ [KernelNext]_all => MadtInv'
  BY KernelPlatformStep, NextMadtInv
<1> QED
  BY <1>1, <1>2, <1>3, PTL DEF KernelSpec

-----------------------------------------------------------------------------
(* The line of the PIT                                                     *)

\* Testing one bit of a field of two is enough, the value 2 being reserved.
LEMMA FlagBits ==
    ASSUME NEW f \in 0 .. 15, f % 4 # 2, f \div 4 # 2
    PROVE  /\ Bit(f, 2) <=> f % 4 = 3
           /\ Bit(f, 8) <=> f \div 4 = 3
BY DEF Bit

\* acpi_irq_to_gsi finds the override of the PIT's IRQ if there is one.
LEMMA PitResolved ==
    ASSUME SoundFirmwares, MadtInv, Parsed, NEW r, r = acpi_irq_to_gsi(PIT_IRQ)
    PROVE  /\ r.gsi \in Nat /\ PitLine.gsi = r.gsi
           /\ PitLine.low = Bit(r.flags, 2) /\ PitLine.level = Bit(r.flags, 8)
           /\ PitLine.low \in BOOLEAN /\ PitLine.level \in BOOLEAN
<1> DEFINE found == {j \in DOMAIN irq_map : irq_map[j].irq = PIT_IRQ}
           o     == {s \in Madt("override") : s.irq = PIT_IRQ}
<1>1. /\ irq_map \in Seq(Override) /\ fw \in Firmwares /\ OverridesKept
      /\ DOMAIN irq_map = 1 .. Len(irq_map)
      /\ \A k, j \in Nat : Read(k, j) <=> Listed(k, j)
  BY DEF MadtInv, MadtTypeOK, Read
<1>2. ASSUME NEW j \in found
      PROVE  \E s \in o : irq_map[j] = Kept(s)
  <2>1. PICK k, i \in Nat : Listed(k, i) /\ Struct(k, i).type = "override"
                            /\ irq_map[j] = Kept(Struct(k, i))
    BY <1>1 DEF OverridesKept
  <2>2. Struct(k, i) \in Madt("override")
    BY <1>1, <2>1, MadtIs
  <2>3. Struct(k, i).irq = PIT_IRQ
    BY <2>1 DEF Kept
  <2> QED
    BY <2>1, <2>2, <2>3
<1>3. ASSUME NEW s \in o
      PROVE  found # {} /\ SoundEntry(s) /\ s.type = "override"
  <2>1. PICK k, i \in Nat : Listed(k, i) /\ s = Struct(k, i) /\ s.type = "override"
    BY <1>1, MadtIs
  <2>2. PICK j \in 1 .. Len(irq_map) : irq_map[j] = Kept(s)
    BY <1>1, <2>1 DEF OverridesKept
  <2>3. j \in found
    BY <1>1, <2>2 DEF Kept
  <2> QED
    BY <1>1, <2>1, <2>3, TablesSound
<1>4. ASSUME NEW s \in o, NEW t \in o PROVE s = t
  <2>1. PICK k, i \in Nat : Listed(k, i) /\ s = Struct(k, i) /\ s.type = "override"
    BY <1>1, MadtIs
  <2>2. PICK l, j \in Nat : Listed(l, j) /\ t = Struct(l, j) /\ t.type = "override"
    BY <1>1, MadtIs
  <2>3. k = l /\ i = j
    BY <1>1, <2>1, <2>2, TablesSound DEF SoundPair, PIT_IRQ
  <2> QED
    BY <2>1, <2>2, <2>3
<1>5. CASE found = {}
  <2>1. o = {}
    BY <1>3, <1>5
  <2>2. r = [gsi |-> PIT_IRQ, flags |-> 0]
    BY <1>5 DEF acpi_irq_to_gsi
  <2>3. PitLine = [gsi |-> PIT_IRQ, low |-> FALSE, level |-> FALSE]
    BY <2>1 DEF PitLine
  <2>4. ~Bit(0, 2) /\ ~Bit(0, 8)
    BY DEF Bit
  <2>5. Bit(0, 2) = FALSE /\ Bit(0, 8) = FALSE
    BY <2>4
  <2>6. /\ r.gsi = PIT_IRQ /\ r.flags = 0 /\ PitLine.gsi = PIT_IRQ
        /\ PitLine.low = FALSE /\ PitLine.level = FALSE
    BY <2>2, <2>3
  <2>7. PIT_IRQ \in Nat
    BY DEF PIT_IRQ
  <2> QED
    BY <2>5, <2>6, <2>7, Zenon
<1>6. CASE found # {}
  <2> DEFINE m == Min(found)
             c == CHOOSE s \in o : TRUE
  <2>1. m \in found
    <3>1. found \subseteq Nat
      BY <1>1
    <3> HIDE DEF found
    <3> QED
      BY <1>6, <3>1, MinFound
  <2>2. PICK s \in o : irq_map[m] = Kept(s)
    BY <1>2, <2>1
  <2>3. c = s
    <3>1. c \in o
      BY <2>2
    <3> HIDE DEF c, o
    <3> QED
      BY <1>4, <2>2, <3>1
  <2>4. r = [gsi |-> s.gsi, flags |-> s.flags]
    BY <1>6, <2>2 DEF acpi_irq_to_gsi, Kept
  <2>5. PitLine = [gsi |-> s.gsi, low |-> s.flags % 4 = 3, level |-> s.flags \div 4 = 3]
    BY <2>2, <2>3 DEF PitLine
  <2>6. s.gsi \in Nat /\ s.flags \in 0 .. 15 /\ s.flags % 4 # 2 /\ s.flags \div 4 # 2
    BY <1>3, <2>2 DEF SoundEntry
  <2>7. /\ Bit(s.flags, 2) <=> s.flags % 4 = 3
        /\ Bit(s.flags, 8) <=> s.flags \div 4 = 3
    BY <2>6, FlagBits
  <2>8. /\ (s.flags % 4 = 3) = Bit(s.flags, 2)
        /\ (s.flags \div 4 = 3) = Bit(s.flags, 8)
    BY <2>7 DEF Bit
  <2>9. /\ r.gsi = s.gsi /\ r.flags = s.flags /\ PitLine.gsi = s.gsi
        /\ PitLine.low = (s.flags % 4 = 3) /\ PitLine.level = (s.flags \div 4 = 3)
    BY <2>4, <2>5
  <2>10. (s.flags % 4 = 3) \in BOOLEAN /\ (s.flags \div 4 = 3) \in BOOLEAN
    OBVIOUS
  <2> QED
    BY <2>6, <2>8, <2>9, <2>10, Zenon
<1> QED
  BY <1>5, <1>6

Pins == 0 .. fw.pins - 1

RedHalf == [masked : BOOLEAN, vector : Nat, low : BOOLEAN, level : BOOLEAN]
Red     == [lo : RedHalf, hi : {"bios", "zero", "all"}]

WriteState == [pin : Nat, lo : RedHalf, hi : {"bios", "zero", "all"}, left : 0 .. 3]

MaskedAt(pin) == redtbl[pin].lo.masked
PitPin        == PitLine.gsi - ioapic.gsi_base

\* The pins that the loop of ioapic_init has masked.
MaskedSoFar(pin) == pin < write.pin \/ (pin = write.pin /\ write.left < 3)

\* The table is the firmware's, then masked from the first pin to the last,
\* then the PIT's entry is written, its mask being cleared last.
PitInv ==
    /\ redtbl \in [Pins -> Red]
    /\ write \in WriteState
    /\ parse.pc \in {"rsdp", "rsdt", "xsdt", "lapic", "ioapic"} =>
           /\ \A pin \in Pins : redtbl[pin] = BiosEntry(pin)
           /\ write.pin = 0 /\ write.lo = Masked
    /\ parse.pc = "mask" =>
           /\ ioapic.num_gsi = fw.pins /\ write.lo = Masked
           /\ \A pin \in Pins : IF MaskedSoFar(pin) THEN MaskedAt(pin)
                                ELSE redtbl[pin] = BiosEntry(pin)
    /\ parse.pc = "program" =>
           /\ write.pin \in Pins /\ write.pin = PitPin
           /\ write.lo = PitEntry.lo /\ write.hi = "all"
           /\ \A pin \in Pins \ {write.pin} : MaskedAt(pin)
           /\ write.left > 0 => MaskedAt(write.pin)
           /\ write.left = 1 => redtbl[write.pin].hi = "all"
           /\ write.left = 0 => redtbl[write.pin] = PitEntry
    /\ parse.pc = "done" =>
           \A pin \in Pins : IF pin = PitPin THEN redtbl[pin] = PitEntry ELSE MaskedAt(pin)
    /\ parse.pc \in {"panic", "fault"} =>
           \A pin \in Pins : MaskedAt(pin) \/ redtbl[pin] = BiosEntry(pin)

\* What depends on the firmware alone does not change.
LEMMA FirmwareFixed ==
    ASSUME fw' = fw
    PROVE  /\ Pins' = Pins /\ PitLine' = PitLine /\ PitEntry' = PitEntry
           /\ \A pin : BiosEntry(pin)' = BiosEntry(pin)
<1>1. Tables' = Tables
  BY TablesFixed
<1>2. \A type : Madt(type)' = Madt(type)
  BY <1>1 DEF Madt
<1>3. PitLine' = PitLine
  BY <1>2 DEF PitLine
<1>4. PitEntry' = PitEntry
  BY <1>3 DEF PitEntry
<1> QED
  BY <1>3, <1>4 DEF Pins, BiosEntry

LEMMA InitPitInv == SoundFirmwares /\ PlatformInit => PitInv
<1> SUFFICES ASSUME SoundFirmwares, PlatformInit PROVE PitInv
  OBVIOUS
<1>1. Masked \in RedHalf /\ Bios \in RedHalf
  BY DEF Masked, Bios, RedHalf
<1>2. \A pin \in Pins : BiosEntry(pin) \in Red
  BY <1>1 DEF BiosEntry, Red
<1>3. redtbl \in [Pins -> Red] /\ \A pin \in Pins : redtbl[pin] = BiosEntry(pin)
  BY <1>2 DEF PlatformInit, Pins
<1>4. /\ write \in WriteState
      /\ write.pin = 0 /\ write.lo = Masked
  BY <1>1 DEF PlatformInit, WriteState
<1>5. parse.pc = "rsdp"
  BY DEF PlatformInit
<1> QED
  BY <1>3, <1>4, <1>5 DEF PitInv

\* Until the IOAPIC is started nothing is written.
LEMMA EarlyPitInv ==
    ASSUME PitInv, \/ acpi_init \/ sdt_too_large \/ acpi_parse_dt \/ acpi_end
                   \/ acpi_add_cpu \/ add_ioapic \/ add_override \/ skip_entry
                   \/ lapic_init, MadtInv
    PROVE  PitInv'
<1>1. UNCHANGED <<fw, redtbl, write>>
  BY DEF acpi_init, sdt_too_large, acpi_parse_dt, acpi_end, acpi_add_cpu, add_ioapic,
         add_override, skip_entry, lapic_init, apicVars
<1>2. parse.pc \in {"rsdp", "rsdt", "xsdt", "lapic"}
  BY DEF acpi_init, sdt_too_large, acpi_parse_dt, acpi_end, acpi_add_cpu, add_ioapic,
         add_override, skip_entry, lapic_init, AtEntry, AtTable
<1>3. parse'.pc \in {"rsdt", "xsdt", "lapic", "ioapic", "panic", "fault"}
  <2>1. parse \in ParseState
    BY DEF MadtInv, MadtTypeOK
  <2>2. CASE acpi_init
    BY <2>1, <2>2 DEF ParseState, acpi_init, Goto, RsdpList
  <2>3. CASE sdt_too_large \/ acpi_parse_dt \/ acpi_end
    BY <2>1, <2>3 DEF ParseState, sdt_too_large, acpi_parse_dt, acpi_end, Goto, NextTable,
          AtTable
  <2>4. CASE acpi_add_cpu \/ add_ioapic \/ add_override \/ skip_entry
    BY <2>1, <2>4 DEF ParseState, acpi_add_cpu, add_ioapic, add_override, skip_entry,
          Goto, Count, AtEntry, AtTable
  <2>5. CASE lapic_init
    BY <2>1, <2>5 DEF ParseState, lapic_init, Goto, IdentityMap
  <2> QED
    BY <2>2, <2>3, <2>4, <2>5
<1>4. Pins' = Pins /\ \A pin : BiosEntry(pin)' = BiosEntry(pin)
  BY <1>1, FirmwareFixed
<1> QED
  BY <1>1, <1>2, <1>3, <1>4 DEF PitInv, MaskedAt

\* The loop over the pins starts and goes on.
LEMMA MaskPitInv ==
    ASSUME SoundFirmwares, MadtInv, PitInv, ioapic_start \/ mask_next
    PROVE  PitInv'
<1>1. UNCHANGED <<fw, redtbl>>
  BY DEF ioapic_start, mask_next
<1>2. /\ Pins' = Pins /\ \A pin : BiosEntry(pin)' = BiosEntry(pin)
      /\ redtbl \in [Pins -> Red] /\ write \in WriteState
  BY <1>1, FirmwareFixed DEF PitInv
<1>3. CASE ioapic_start
  <2>1. /\ \A pin \in Pins : redtbl[pin] = BiosEntry(pin)
        /\ write.pin = 0 /\ write.lo = Masked
    BY <1>3 DEF ioapic_start, PitInv
  <2>2. parse'.pc \in {"mask", "panic", "fault"}
    BY <1>3 DEF ioapic_start, IdentityMap, Goto, MadtInv, MadtTypeOK, ParseState
  <2>3. ioapic'.num_gsi = fw.pins
    BY <1>3 DEF ioapic_start, MadtInv, MadtTypeOK
  <2>4. write' = [write EXCEPT !.left = 3]
    BY <1>3 DEF ioapic_start
  <2>5. write' \in WriteState /\ write'.pin = 0 /\ write'.lo = Masked /\ write'.left = 3
    BY <1>2, <2>1, <2>4 DEF WriteState
  <2>6. \A pin \in Pins : ~MaskedSoFar(pin)'
    BY <2>5 DEF MaskedSoFar, Pins
  <2> QED
    BY <1>1, <1>2, <2>1, <2>2, <2>3, <2>5, <2>6 DEF PitInv, MaskedAt
<1>4. CASE mask_next
  <2>1. /\ parse.pc = "mask" /\ UNCHANGED <<parse, ioapic>> /\ write.left = 0
        /\ write' = [write EXCEPT !.pin = write.pin + 1, !.left = 3]
    BY <1>4 DEF mask_next
  <2>2. /\ ioapic.num_gsi = fw.pins /\ write.lo = Masked
        /\ \A pin \in Pins : IF MaskedSoFar(pin) THEN MaskedAt(pin)
                             ELSE redtbl[pin] = BiosEntry(pin)
    BY <2>1 DEF PitInv
  <2>3. PICK n \in Nat : n = write.pin + 1
    BY <1>2 DEF WriteState
  <2>4. write' = [write EXCEPT !.pin = n, !.left = 3]
    BY <2>1, <2>3
  <2>5. write' \in WriteState /\ write'.pin = n /\ write'.lo = Masked /\ write'.left = 3
    <3>1. /\ write \in WriteState
          /\ write = [pin |-> write.pin, lo |-> write.lo, hi |-> write.hi, left |-> write.left]
      BY <1>2 DEF WriteState
    <3>2. write' = [pin |-> n, lo |-> write.lo, hi |-> write.hi, left |-> 3]
      BY <2>4, <3>1
    <3> QED
      BY <2>2, <3>1, <3>2 DEF WriteState
  <2>6. ASSUME NEW pin \in Pins PROVE MaskedSoFar(pin)' <=> MaskedSoFar(pin)
    BY <1>2, <2>1, <2>3, <2>5 DEF MaskedSoFar, Pins, WriteState
  <2> QED
    BY <1>1, <1>2, <2>1, <2>2, <2>5, <2>6 DEF PitInv, MaskedAt
<1> QED
  BY <1>3, <1>4

\* One of the three writes to an entry.
LEMMA WritePitInv == MadtInv /\ PitInv /\ ioapic_write64 => PitInv'
<1> SUFFICES ASSUME MadtInv, PitInv, ioapic_write64 PROVE PitInv'
  OBVIOUS
<1> DEFINE w == write.pin
<1>1. /\ UNCHANGED <<fw, parse, ioapic>> /\ parse.pc \in {"mask", "program"}
      /\ redtbl' = [redtbl EXCEPT ![w] = HalfWritten(redtbl[w])]
      /\ write' = [write EXCEPT !.left = write.left - 1] /\ write.left > 0
  BY DEF ioapic_write64
<1>2. /\ Pins' = Pins /\ (\A pin : BiosEntry(pin)' = BiosEntry(pin))
      /\ PitEntry' = PitEntry /\ PitPin' = PitPin
      /\ redtbl \in [Pins -> Red] /\ write \in WriteState
  BY <1>1, FirmwareFixed DEF PitInv, PitPin
<1>3. PICK n \in 0 .. 2 : n = write.left - 1
  BY <1>1, <1>2 DEF WriteState
<1>4. /\ write' \in WriteState /\ write'.left = n /\ write'.pin = w
      /\ write'.lo = write.lo /\ write'.hi = write.hi
  <2>1. write' = [write EXCEPT !.left = n] /\ n \in 0 .. 3
    BY <1>1, <1>3
  <2> QED
    BY <1>2, <2>1 DEF WriteState
<1>5. Masked \in RedHalf /\ Masked.masked
  BY DEF Masked, RedHalf
<1>6. ASSUME NEW x \in Red
      PROVE  /\ HalfWritten(x) \in Red
             /\ n = 2 => HalfWritten(x).lo = Masked /\ HalfWritten(x).hi = x.hi
             /\ n = 1 => HalfWritten(x).lo = x.lo /\ HalfWritten(x).hi = write.hi
             /\ n = 0 => HalfWritten(x).lo = write.lo /\ HalfWritten(x).hi = x.hi
  <2>1. CASE n = 2
    <3>1. HalfWritten(x) = [x EXCEPT !.lo = Masked]
      BY <1>2, <1>3, <2>1 DEF HalfWritten
    <3> QED
      BY <1>5, <2>1, <3>1 DEF Red
  <2>2. CASE n = 1
    <3>1. HalfWritten(x) = [x EXCEPT !.hi = write.hi]
      BY <1>2, <1>3, <2>2 DEF HalfWritten
    <3> QED
      BY <1>2, <2>2, <3>1 DEF Red, WriteState
  <2>3. CASE n = 0
    <3>1. HalfWritten(x) = [x EXCEPT !.lo = write.lo]
      BY <1>2, <1>3, <2>3 DEF HalfWritten
    <3> QED
      BY <1>2, <2>3, <3>1 DEF Red, WriteState
  <2> QED
    BY <2>1, <2>2, <2>3
<1>7. /\ redtbl' \in [Pins -> Red]
      /\ \A pin \in Pins \ {w} : redtbl'[pin] = redtbl[pin]
      /\ w \in Pins => redtbl'[w] = HalfWritten(redtbl[w]) /\ redtbl[w] \in Red
  <2>1. CASE w \in Pins
    BY <1>1, <1>2, <1>6, <2>1
  <2>2. CASE w \notin Pins
    BY <1>1, <1>2, <2>2
  <2> QED
    BY <2>1, <2>2
<1>8. CASE parse.pc = "mask"
  <2>1. /\ ioapic.num_gsi = fw.pins /\ write.lo = Masked
        /\ \A pin \in Pins : IF MaskedSoFar(pin) THEN MaskedAt(pin)
                             ELSE redtbl[pin] = BiosEntry(pin)
    BY <1>8 DEF PitInv
  <2>2. ASSUME NEW pin \in Pins
        PROVE  IF MaskedSoFar(pin)' THEN MaskedAt(pin)' ELSE redtbl'[pin] = BiosEntry(pin)
    <3>1. CASE pin = w
      <4>1. MaskedSoFar(pin)'
        BY <1>4, <3>1 DEF MaskedSoFar
      <4>2. redtbl'[pin].lo = Masked \/ (n = 1 /\ redtbl'[pin].lo = redtbl[pin].lo)
        BY <1>3, <1>6, <1>7, <2>1, <3>1
      <4>3. n = 1 => MaskedAt(pin)
        BY <1>2, <1>3, <2>1, <3>1 DEF MaskedSoFar
      <4> QED
        BY <1>5, <4>1, <4>2, <4>3 DEF MaskedAt
    <3>2. CASE pin # w
      <4>1. MaskedSoFar(pin)' <=> MaskedSoFar(pin)
        BY <1>4, <3>2 DEF MaskedSoFar
      <4> QED
        BY <1>7, <2>1, <3>2, <4>1 DEF MaskedAt
    <3> QED
      BY <3>1, <3>2
  <2> QED
    BY <1>1, <1>2, <1>4, <1>7, <1>8, <2>1, <2>2 DEF PitInv
<1>9. CASE parse.pc = "program"
  <2>0. PICK x : x = w
    OBVIOUS
  <2>1. /\ x \in Pins /\ x = PitPin /\ write.lo = PitEntry.lo /\ write.hi = "all"
        /\ \A pin \in Pins \ {x} : MaskedAt(pin)
        /\ MaskedAt(x) /\ (write.left = 1 => redtbl[x].hi = "all")
    BY <1>1, <1>9, <2>0 DEF PitInv
  <2>2. \A pin \in Pins \ {x} : MaskedAt(pin)'
    BY <1>7, <2>0, <2>1 DEF MaskedAt
  <2>3. n > 0 => redtbl'[x].lo.masked
    BY <1>5, <1>6, <1>7, <2>0, <2>1 DEF MaskedAt
  <2>4. n = 1 => redtbl'[x].hi = "all"
    BY <1>6, <1>7, <2>0, <2>1
  <2>5. n = 0 => redtbl'[x] = PitEntry
    <3> SUFFICES ASSUME n = 0 PROVE redtbl'[x] = PitEntry
      OBVIOUS
    <3>1. redtbl'[x] \in Red /\ redtbl'[x].lo = PitEntry.lo /\ redtbl'[x].hi = "all"
      BY <1>2, <1>3, <1>6, <1>7, <2>0, <2>1
    <3>2. PitEntry = [lo |-> PitEntry.lo, hi |-> "all"]
      BY DEF PitEntry
    <3>3. redtbl'[x] = [lo |-> redtbl'[x].lo, hi |-> redtbl'[x].hi]
      BY <3>1 DEF Red
    <3> QED
      BY <3>1, <3>2, <3>3
  <2>6. /\ redtbl' \in [Pins' -> Red] /\ write' \in WriteState /\ parse'.pc = "program"
        /\ write'.pin = x /\ write'.left = n
    BY <1>1, <1>2, <1>4, <1>7, <1>9, <2>0
  <2>7. /\ write'.pin \in Pins' /\ write'.pin = PitPin'
        /\ write'.lo = PitEntry'.lo /\ write'.hi = "all"
    BY <1>2, <1>4, <2>1, <2>6
  <2>8. /\ \A pin \in Pins' \ {write'.pin} : MaskedAt(pin)'
        /\ write'.left > 0 => redtbl'[write'.pin].lo.masked
        /\ write'.left = 1 => redtbl'[write'.pin].hi = "all"
        /\ write'.left = 0 => redtbl'[write'.pin] = PitEntry'
    BY <1>2, <2>2, <2>3, <2>4, <2>5, <2>6
  <2> QED
    BY <2>6, <2>7, <2>8 DEF PitInv, MaskedAt
<1> QED
  BY <1>1, <1>8, <1>9

\* Every pin is masked when the PIT's entry is chosen.
LEMMA ChosenPitInv ==
    ASSUME SoundFirmwares, MadtInv, PitInv, ioapic_map_gsi
    PROVE  PitInv'
<1> DEFINE r == acpi_irq_to_gsi(PIT_IRQ)
           p == r.gsi - ioapic.gsi_base
<1>1. /\ UNCHANGED <<fw, ioapic, redtbl>> /\ parse.pc = "mask" /\ write.left = 0
      /\ write.pin + 1 >= ioapic.num_gsi
  BY DEF ioapic_map_gsi
<1>2. /\ Pins' = Pins /\ (\A pin : BiosEntry(pin)' = BiosEntry(pin))
      /\ PitEntry' = PitEntry /\ PitPin' = PitPin
      /\ redtbl \in [Pins -> Red] /\ write \in WriteState /\ parse \in ParseState
  BY <1>1, FirmwareFixed DEF PitInv, PitPin, MadtInv, MadtTypeOK
<1>3. /\ ioapic.num_gsi = fw.pins /\ fw.pins \in Nat
      /\ \A pin \in Pins : MaskedSoFar(pin) => MaskedAt(pin)
  BY <1>1 DEF PitInv, MadtInv, MadtTypeOK, SoundFirmwares, SoundFirmware
<1>4. \A pin \in Pins : MaskedAt(pin)
  BY <1>1, <1>2, <1>3 DEF MaskedSoFar, Pins, WriteState
<1>5. \A pin \in Pins : MaskedAt(pin)'
  BY <1>1, <1>4 DEF MaskedAt
<1>6. CASE p < 0 \/ p >= ioapic.num_gsi
  <2>1. parse'.pc = "panic" /\ write' = write
    BY <1>2, <1>6 DEF ioapic_map_gsi, Goto, ParseState
  <2> QED
    BY <1>1, <1>2, <1>5, <2>1 DEF PitInv
<1>7. CASE ~(p < 0 \/ p >= ioapic.num_gsi)
  <2>1. /\ r.gsi \in Nat /\ r.gsi = PitLine.gsi
        /\ Bit(r.flags, 2) = PitLine.low /\ Bit(r.flags, 8) = PitLine.level
        /\ ioapic.gsi_base \in Nat
    <3>1. Parsed
      BY <1>1 DEF Parsed
    <3>2. /\ r.gsi \in Nat /\ PitLine.gsi = r.gsi
          /\ PitLine.low = Bit(r.flags, 2) /\ PitLine.level = Bit(r.flags, 8)
      BY <3>1, PitResolved
    <3>3. ioapic.gsi_base \in Nat
      BY DEF MadtInv, MadtTypeOK
    <3> HIDE DEF r
    <3> QED
      BY <3>2, <3>3, Zenon
  <2>2. /\ parse'.pc = "program"
        /\ write' = [pin |-> p, hi |-> "all", left |-> 3,
                     lo |-> [masked |-> FALSE, vector |-> PIT_VECTOR,
                             low |-> Bit(r.flags, 2), level |-> Bit(r.flags, 8)]]
    BY <1>2, <1>7 DEF ioapic_map_gsi, Goto, ParseState
  <2>3. p \in Pins /\ p = PitPin
    BY <1>3, <1>7, <2>1 DEF Pins, PitPin
  <2>4. [masked |-> FALSE, vector |-> PIT_VECTOR,
         low |-> Bit(r.flags, 2), level |-> Bit(r.flags, 8)] = PitEntry.lo
    BY <2>1, Zenon DEF PitEntry
  <2>5. PitEntry.lo \in RedHalf
    <3>1. PitLine.low \in BOOLEAN /\ PitLine.level \in BOOLEAN
      <4>1. Bit(r.flags, 2) \in BOOLEAN /\ Bit(r.flags, 8) \in BOOLEAN
        BY DEF Bit
      <4> QED
        BY <2>1, <4>1, Zenon
    <3>2. PIT_VECTOR \in Nat
      BY DEF PIT_VECTOR
    <3> QED
      BY <3>1, <3>2 DEF PitEntry, RedHalf
  <2>6. /\ write'.pin = p /\ write'.hi = "all" /\ write'.left = 3
        /\ write'.lo = PitEntry.lo /\ write' \in WriteState
    <3>1. p \in Nat
      BY <1>3, <2>3 DEF Pins
    <3>2. write' = [pin |-> p, hi |-> "all", left |-> 3, lo |-> PitEntry.lo]
      BY <2>2, <2>4
    <3> HIDE DEF p
    <3> QED
      BY <2>5, <3>1, <3>2 DEF WriteState
  <2> HIDE DEF p
  <2> QED
    BY <1>1, <1>2, <1>5, <2>2, <2>3, <2>6 DEF PitInv, MaskedAt
<1> QED
  BY <1>6, <1>7

LEMMA NextPitInv ==
    ASSUME SoundFirmwares, MadtInv, PitInv, [PlatformNext]_pvars
    PROVE  PitInv'
<1>1. CASE \/ acpi_init \/ sdt_too_large \/ acpi_parse_dt \/ acpi_end
           \/ acpi_add_cpu \/ add_ioapic \/ add_override \/ skip_entry \/ lapic_init
  BY <1>1, EarlyPitInv
<1>2. CASE ioapic_start \/ mask_next
  BY <1>2, MaskPitInv
<1>3. CASE ioapic_write64
  BY <1>3, WritePitInv
<1>4. CASE ioapic_map_gsi
  BY <1>4, ChosenPitInv
<1>5. CASE ioapic_done
  <2>1. /\ UNCHANGED <<fw, ioapic, redtbl, write>> /\ write.left = 0
        /\ parse.pc = "program" /\ parse'.pc = "done"
    BY <1>5 DEF ioapic_done, apicVars, Goto, MadtInv, MadtTypeOK, ParseState
  <2>2. Pins' = Pins /\ PitEntry' = PitEntry /\ PitPin' = PitPin
    BY <2>1, FirmwareFixed DEF PitPin
  <2>3. /\ redtbl[PitPin] = PitEntry
        /\ \A pin \in Pins \ {PitPin} : MaskedAt(pin)
    BY <2>1 DEF PitInv
  <2>4. \A pin \in Pins : IF pin = PitPin THEN redtbl'[pin] = PitEntry ELSE MaskedAt(pin)'
    BY <2>1, <2>3 DEF MaskedAt
  <2> QED
    BY <2>1, <2>2, <2>4 DEF PitInv
<1>6. CASE UNCHANGED pvars
  <2>1. UNCHANGED <<fw, parse, ioapic, redtbl, write>>
    BY <1>6 DEF pvars
  <2>2. /\ Pins' = Pins /\ (\A pin : BiosEntry(pin)' = BiosEntry(pin))
        /\ PitEntry' = PitEntry /\ PitPin' = PitPin
    BY <2>1, FirmwareFixed DEF PitPin
  <2> QED
    BY <2>1, <2>2 DEF PitInv, MaskedAt, MaskedSoFar
<1> QED
  BY <1>1, <1>2, <1>3, <1>4, <1>5, <1>6 DEF PlatformNext

LEMMA PitInvImplies == PitInv /\ MadtInv => PitRouted
<1> SUFFICES ASSUME PitInv, MadtInv PROVE PitRouted
  OBVIOUS
<1>1. DOMAIN redtbl = Pins
  BY DEF PitInv
<1>2. parse.pc = "done" =>
          \A pin \in Pins : IF pin = PitPin THEN redtbl[pin] = PitEntry
                            ELSE redtbl[pin].lo.masked
  BY DEF PitInv, MaskedAt
<1>3. parse.pc \in PlatformPc
  BY DEF MadtInv, MadtTypeOK, ParseState
<1>4. ASSUME NEW pin \in Pins
      PROVE  \/ redtbl[pin].lo.masked \/ redtbl[pin] = BiosEntry(pin)
             \/ Parsed /\ redtbl[pin] = PitEntry
  <2>1. CASE parse.pc = "program"
    <3>1. pin # write.pin \/ write.left > 0 => MaskedAt(pin)
      BY <2>1 DEF PitInv
    <3>2. write.left = 0 => redtbl[write.pin] = PitEntry
      BY <2>1 DEF PitInv
    <3>3. write.left \in 0 .. 3
      BY DEF PitInv, WriteState
    <3> QED
      BY <2>1, <3>1, <3>2, <3>3 DEF MaskedAt, Parsed
  <2>2. CASE parse.pc # "program"
    BY <1>3, <2>2 DEF PitInv, MaskedAt, Parsed, PlatformPc
  <2> QED
    BY <2>1, <2>2
<1> QED
  BY <1>1, <1>2, <1>4 DEF PitRouted, PitPin

\* Whatever a sound firmware left in the IOAPIC, ioapic_init ends with the
\* PIT's entry alone open, routed as its override says, and no entry is ever
\* open while it is half the old one and half the new one.
THEOREM KernelPitRouted ==
    ASSUME SoundFirmwares
    PROVE  KernelSpec => []PitRouted
<1>1. KernelInit => MadtInv /\ PitInv
  BY InitMadtInv, InitPitInv DEF KernelInit
<1>2. MadtInv /\ PitInv /\ [KernelNext]_all => (MadtInv /\ PitInv)'
  BY NextMadtInv, NextPitInv, KernelPlatformStep
<1>3. MadtInv /\ PitInv => PitRouted
  BY PitInvImplies
<1> QED
  BY <1>1, <1>2, <1>3, PTL DEF KernelSpec
=============================================================================

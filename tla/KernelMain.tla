----------------------------- MODULE KernelMain -----------------------------
(***************************************************************************)
(* The way of the BSP from the boot loader to the guest: kernel_main       *)
(* (arch/x86_64/boot/init.c), parse_boot_info (kernel/boot_info.c),        *)
(* virt_init and virt_percpu_init (arch/x86_64/virt/virt.c), around the    *)
(* memory map (PhysMem), the firmware (Platform) and the guest's memory    *)
(* (LinuxGuest).  The start of the APs, the MTRRs, malloc and the kernel   *)
(* mappings have modules of their own; here they end, or the code panics.  *)
(* The names of modules are compared as a whole.                           *)
(***************************************************************************)
EXTENDS LinuxGuest, Platform

CONSTANTS Boots,        \* pairs of a machine and a firmware to boot on
          SMP_BOOT,     \* the page of SMP_BOOT_ADDR
          MaxBefore     \* bound: frames in use before the APs start

\* A machine has, besides its memory: whether the boot loader's structure is
\* accepted (mbi), the names of the modules, and what VMX it offers.
ASSUME KernelAssumption ==
    /\ Boots \subseteq Machines \X Firmwares
    /\ SMP_BOOT \in 1 .. LOWMEM * WORD - 1 /\ MaxBefore \in Nat
    /\ MaxHeld >= MaxBefore + 10
    /\ \A m \in Machines :
          /\ DOMAIN m.mods = 1 .. Len(m.mods)
          /\ \A k \in DOMAIN m.mods :
                m.mods[k].name = "linux" => m.mods[k].len > SETUP

VARIABLES config,   \* config_size and num_mod of vm_config
          tag,      \* the module tag the matching loop is at
          mod,      \* mod_paddr and mod_size of "linux" and "initrd": the tag
                    \* they are from, 0 while they are not initialised
          online,   \* g_cpus after acpi_sec_init
          vmx       \* the VMX state of the BSP, see Vmx

kvars == <<config, tag, mod, online, vmx>>
all   == <<vars, gvars, pvars, kvars>>

\* cpu_to_vm[0] is a VM; the frames of VMXON region and VMCS; the frames with
\* the revision written; the VMCS that is current, those that are clear; the
\* groups of fields written in the current one and the EPT it points to.
Vmx == [vm |-> FALSE, on |-> {}, vmcs |-> {}, revision |-> {}, current |-> {},
        clear |-> {}, fields |-> {}, eptp |-> {}]

KernelInit ==
    /\ Init /\ GuestInit /\ PlatformInit
    /\ <<machine, fw>> \in Boots
    /\ config = [size |-> 0, num_mod |-> 0]
    /\ tag = 1
    /\ mod = <<0, 0>>
    /\ online = 1
    /\ vmx = Vmx

\* The next line of kernel_main, and a panic.
Next_line(s) == step' = s /\ UNCHANGED <<vm, e820, scan, ept>>

kernel_panic == panic /\ UNCHANGED <<pvars, kvars>>

-----------------------------------------------------------------------------
(* The tags of the boot loader                                             *)

\* Invalid magic number; multiboot struct is too big.  boot64.S halts.
boot_return ==
    /\ step = "boot" /\ ~machine.mbi
    /\ Next_line("returned")
    /\ UNCHANGED <<vars, pvars, kvars>>

boot_memory ==
    /\ step = "boot" /\ machine.mbi
    /\ boot_map_entry \/ boot_limit \/ boot_take_zero \/ boot_take_kernel
    /\ UNCHANGED <<gvars, pvars, kvars>>

\* The last "config" is the configuration, the others are counted.
boot_module ==
    /\ step = "boot"
    /\ boot_take_module
    /\ LET m == machine.mods[boot.index]
       IN  config' = IF m.name = "config"
                     THEN [config EXCEPT !.size = m.len]
                     ELSE [config EXCEPT !.num_mod = config.num_mod + 1]
    /\ UNCHANGED <<gvars, pvars, tag, mod, online, vmx>>

\* Missing config module
boot_config ==
    /\ step = "boot"
    /\ boot_done
    /\ Next_line(IF config.size = 0 THEN "panic" ELSE "acpi")
    /\ UNCHANGED <<pvars, kvars>>

\* acpi_init, lapic_init, ioapic_init
boot_platform ==
    /\ step = "acpi"
    /\ PlatformNext
    /\ UNCHANGED <<vars, gvars, kvars>>

boot_platform_done ==
    /\ step = "acpi" /\ parse.pc = "done"
    /\ Next_line("config")
    /\ UNCHANGED <<vars, pvars, kvars>>

\* Page tables, per-CPU areas, the malloc pool and the stacks of the APs.
frame_in_use ==
    /\ step \in {"config", "aps"}
    /\ Cardinality(held) < MaxBefore
    /\ alloc_phys_frame
    /\ UNCHANGED <<gvars, pvars, kvars>>

-----------------------------------------------------------------------------
(* parse_boot_info and the modules                                         *)

\* Missing VM images.  Names and sizes are not read from the configuration.
parse_boot_info ==
    /\ step = "config"
    /\ Next_line(IF config.num_mod = 0 THEN "panic" ELSE "match")
    /\ UNCHANGED <<vars, pvars, kvars>>

\* mod_str[0] and mod_str[1]
mod_str == <<"linux", "initrd">>

\* Mutant of match_module: modules are taken in the order of their tags.
match_module_in_order ==
    /\ step = "match" /\ tag <= Len(machine.mods)
    /\ mod' = IF machine.mods[tag].name = "config" THEN mod
              ELSE IF mod[1] = 0 THEN <<tag, mod[2]>> ELSE <<mod[1], tag>>
    /\ tag' = tag + 1
    /\ UNCHANGED <<vars, gvars, pvars, config, online, vmx>>

\* One tag against the first num_mod names; the last match stays.  mod_str[2]
\* and up are not initialised: following such a pointer may fault, and what it
\* leads to is taken not to be the name of a module.
match_module ==
    /\ step = "match" /\ tag <= Len(machine.mods)
    /\ mod' = [j \in 1 .. 2 |->
                  IF j <= config.num_mod /\ mod_str[j] = machine.mods[tag].name
                  THEN tag ELSE mod[j]]
    /\ tag' = tag + 1
    /\ \E s \in {"match"} \cup (IF config.num_mod > 2 THEN {"undefined"} ELSE {}) :
          Next_line(s)
    /\ UNCHANGED <<vars, pvars, config, online, vmx>>

match_done ==
    /\ step = "match" /\ tag > Len(machine.mods)
    /\ Next_line("aps")
    /\ UNCHANGED <<vars, pvars, kvars>>

\* acpi_sec_init, the end of the identity mapping and the MTRRs: module
\* SmpBoot.  APs that do not answer are subtracted.
acpi_sec_init ==
    /\ step = "aps"
    /\ online' \in 1 .. g_cpus
    /\ Next_line("virt")
    /\ UNCHANGED <<vars, pvars, config, tag, mod, vmx>>

\* The configuration is not page aligned, there is no frame for an AP's stack,
\* malloc has no memory, a mapping cannot be made, or virt_check_error finds the
\* flags of a failed vmxon, vmptrld or vmlaunch.
call_panics ==
    /\ step \in {"config", "aps", "virt", "percpu", "vmcs", "ept", "launch"}
    /\ kernel_panic

-----------------------------------------------------------------------------
(* virt_init                                                               *)

ModuleRange(k) == [addr |-> machine.mods[k].addr, len |-> machine.mods[k].len]

\* num_mod--, then each VM takes two modules.  With one module no VM is made,
\* with four and more the second VM's name is not initialised.  Each VM has
\* one CPU; they run out only if g_cpus is 0.
virt_init ==
    /\ step = "virt"
    /\ LET vms       == config.num_mod \div 2
           undefined == vms > 1 \/ (vms = 1 /\ 0 \in {mod[1], mod[2]})
       IN  \/ /\ machine.vmx = "none" \/ vms > online
              /\ panic
              /\ UNCHANGED vmx
           \/ /\ machine.vmx # "none" /\ vms <= online
              /\ step' = IF undefined THEN "undefined" ELSE "percpu"
              /\ IF vms = 1 /\ ~undefined
                 THEN /\ vm' = [vm EXCEPT !.img = ModuleRange(mod[1]),
                                          !.extra = ModuleRange(mod[2])]
                      /\ vmx' = [vmx EXCEPT !.vm = TRUE]
                 ELSE UNCHANGED <<vm, vmx>>
              /\ UNCHANGED <<vars, e820, scan, ept>>
    /\ UNCHANGED <<pvars, config, tag, mod, online>>

-----------------------------------------------------------------------------
(* virt_percpu_init                                                        *)

\* The processor: a VMCS that is cleared is not current afterwards; only a
\* frame with the revision can become current; vmwrite without a current VMCS
\* fails, which vmwrite() does not look at.
vmclear(x, f) == [x EXCEPT !.clear = @ \cup f,
                           !.current = IF @ = f THEN {} ELSE @]
vmptrld(x, f) == [x EXCEPT !.current = IF f \subseteq x.revision THEN f ELSE @]
vmwrite(x, group) == [x EXCEPT !.fields = IF x.current = {} THEN @ ELSE @ \cup {group}]

\* No VM: virt_percpu_init returns and kernel_main idles.
percpu_none ==
    /\ step = "percpu" /\ ~vmx.vm
    /\ Next_line("idle")
    /\ UNCHANGED <<vars, pvars, kvars>>

\* A frame, or "allocation failed".
NewFrame == FirstFrame(LOWMEM, entry_end)

\* VMX is disabled; the VMXON region and vmxon.
percpu_vmxon ==
    /\ step = "percpu" /\ vmx.vm
    /\ IF machine.vmx = "locked" THEN panic /\ UNCHANGED vmx
       ELSE /\ ept_frame("vmcs")
            /\ vmx' = [vmx EXCEPT !.on = NewFrame, !.revision = NewFrame]
            /\ UNCHANGED <<vm, e820, scan, ept>>
    /\ UNCHANGED <<pvars, config, tag, mod, online>>

\* Mutant of LoadVmcs: vmptrld comes before vmclear.
LoadVmcs_cleared_last(x, f) == vmclear(vmptrld(x, f), f)

LoadVmcs(x, f) == vmptrld(vmclear(x, f), f)

\* create VMCS
percpu_vmcs ==
    /\ step = "vmcs"
    /\ ept_frame("ept")
    /\ vmx' = LoadVmcs([vmx EXCEPT !.vmcs = NewFrame,
                                   !.revision = @ \cup NewFrame], NewFrame)
    /\ UNCHANGED <<vm, e820, scan, ept, pvars, config, tag, mod, online>>

\* virt_pg_table_setup
percpu_ept == SetupStep /\ UNCHANGED <<pvars, kvars>>

virt_guest_setup ==
    /\ step = "vmcs fields"
    /\ vmx' = vmwrite(vmx, "guest")
    /\ Next_line("controls")
    /\ UNCHANGED <<vars, pvars, config, tag, mod, online>>

\* A control that is needed is not supported; the EPT pointer.
virt_control_setup ==
    /\ step = "controls"
    /\ IF machine.vmx = "few controls" THEN panic /\ UNCHANGED vmx
       ELSE /\ vmx' = [vmwrite(vmx, "control") EXCEPT !.eptp = ept.pml4t]
            /\ Next_line("host") /\ UNCHANGED vars
    /\ UNCHANGED <<pvars, config, tag, mod, online>>

virt_host_setup ==
    /\ step = "host"
    /\ vmx' = vmwrite(vmx, "host")
    /\ Next_line("launch")
    /\ UNCHANGED <<vars, pvars, config, tag, mod, online>>

\* vmlaunch: the guest runs until its first exit, which ends in virt_main.
vmlaunch ==
    /\ step = "launch"
    /\ Next_line("guest")
    /\ UNCHANGED <<vars, pvars, kvars>>

-----------------------------------------------------------------------------
KernelStep ==
    \/ boot_return \/ boot_memory \/ boot_module \/ boot_config
    \/ boot_platform \/ boot_platform_done
    \/ parse_boot_info \/ match_module \/ match_done \/ acpi_sec_init
    \/ call_panics \/ virt_init
    \/ percpu_none \/ percpu_vmxon \/ percpu_vmcs \/ percpu_ept
    \/ virt_guest_setup \/ virt_control_setup \/ virt_host_setup \/ vmlaunch

KernelNext == KernelStep \/ frame_in_use

\* The BSP goes on.
KernelSpec == KernelInit /\ [][KernelNext]_all /\ WF_all(KernelStep)

-----------------------------------------------------------------------------
(* Properties                                                              *)

\* The trampoline that acpi_init copied to SMP_BOOT_ADDR is still there when
\* acpi_sec_init starts the APs: its frame is neither checked nor taken, but
\* nothing that runs in between asks for memory below 1MB.
TrampolineIntact ==
    trampoline /\ step \in {"acpi", "config", "match", "aps"} =>
        SMP_BOOT \notin HeldPages

\* The VM is given a module called "linux" as its image and one called
\* "initrd" as its ramdisk, whatever the order and number of the modules, and
\* no frame of them is handed out before virt_setup_linux has copied it.
VmGetsItsModules ==
    vmx.vm /\ step \in {"percpu", "vmcs", "ept", "pdpt", "zero", "kernel"} =>
        /\ \E k \in DOMAIN machine.mods :
              machine.mods[k].name = "linux" /\ vm.img = ModuleRange(k)
        /\ \E k \in DOMAIN machine.mods :
              machine.mods[k].name = "initrd" /\ vm.extra = ModuleRange(k)
        /\ Touched(vm.img) \cup Touched(vm.extra) \subseteq reserved

\* When vmlaunch is executed the current VMCS is the VM's, clear and with all
\* its groups of fields, and points to the VM's EPT.  VMXON region, VMCS and
\* PML4T are three frames, none free and none within reach of the guest, nor
\* described to it if the ramdisk's copy ends below 4GB.
LaunchReady ==
    step = "guest" =>
        LET own == vmx.on \cup vmx.vmcs \cup ept.pml4t
        IN  /\ vmx.current = vmx.vmcs /\ vmx.current \subseteq vmx.clear
            /\ vmx.fields = {"guest", "control", "host"}
            /\ vmx.eptp = ept.pml4t
            /\ Cardinality(own) = 3 /\ own \subseteq HeldPages
            /\ own \cap (mm_table \cup EptHost) = {}
            /\ RamdiskFits => own \cap E820Pages = {}

\* kernel_main comes to an end: the guest runs, the BSP idles without a VM,
\* or the code has stopped.
BringUpEnds ==
    <>(\/ step \in {"guest", "idle", "returned", "panic", "undefined"}
       \/ parse.pc \in {"panic", "fault"})
=============================================================================

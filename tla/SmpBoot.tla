------------------------------ MODULE SmpBoot ------------------------------
(***************************************************************************)
(* The start of the application processors: acpi_sec_init and smp_boot_cpu *)
(* on the BSP, the trampoline ap_boot.S, ap_main, percpu_init and          *)
(* alloc_tss_desc on the APs, and the MTRR synchronization that all CPUs   *)
(* run through.  CPU 0 is the BSP; AP i is the one with lapic_ids[i].      *)
(*                                                                         *)
(* An action is the code between two accesses to shared memory that        *)
(* another CPU can observe.  The present bits of the GDT are only ever set,*)
(* so a scan for a free entry is one step, at its last read.               *)
(***************************************************************************)
EXTENDS Naturals, FiniteSets

CONSTANTS N,          \* application processors in the MADT
          Dead,       \* those that never start
          Late        \* TRUE: an AP may need longer than LOOPS_TO_WAIT

ASSUME SmpAssumption ==
    /\ N \in Nat
    /\ Dead \subseteq 1 .. N
    /\ Late \in BOOLEAN

VARIABLES pc,           \* pc[c]: where CPU c is
          i,            \* the loop variable of acpi_sec_init
          count,        \* count of acpi_sec_init: CPUs that failed
          g_cpus,       \* CPUs the system counts on
          boot_status,  \* BOOT_STATUS(), in the trampoline page
          boot_stack,   \* BOOT_STACK(): the AP whose stack it points to
          stack,        \* stack[c]: the stack c runs on
          identity,     \* TRUE: the first 2MB are identity mapped
          present,      \* GDT entries from GDT_START on with p = 1
          gdt,          \* gdt[e]: what was last written to entry e
          fs, tr,       \* fs[c], tr[c]: the entries percpu_init and
                        \* alloc_tss_desc chose for c, 0 before that
          pcpu_counter, \* the next pcpu_id
          pcpu_id,      \* pcpu_id[c]
          percpu_virt,  \* percpu_virt[id]: the CPU whose area it is
          mtrr_sync,    \* the counter of the MTRR synchronization
          virt_start    \* set by the BSP after virt_init

bootVars == <<i, count, g_cpus, boot_status, boot_stack, stack, identity>>
gdtVars  == <<present, gdt, fs, tr>>
pcpuVars == <<pcpu_counter, pcpu_id, percpu_virt>>
syncVars == <<mtrr_sync, virt_start>>
vars     == <<pc, bootVars, gdtVars, pcpuVars, syncVars>>

BSP == 0
AP  == 1 .. N
CPU == 0 .. N
NoCpu == N + 1

\* Each CPU uses three GDT entries, and MAX_CPUS of them fit in the GDT.
Entry == 1 .. 3 * (N + 1) + 3

\* Where an AP is between the SIPI and BOOT_STATUS() = 1.
Starting == {"trampoline", "gdt", "area", "entry", "load_fs", "ctor", "count",
             "status"}

\* The CPUs that run.
Online == CPU \ Dead

\* kernel_main before acpi_sec_init: the BSP has its per-CPU area, its
\* descriptors (entries 1 and 2, 3) and the table of APs.
Init ==
    /\ pc = [c \in CPU |-> IF c = BSP THEN "reset" ELSE "off"]
    /\ i = 1
    /\ count = 0
    /\ g_cpus = N + 1
    /\ boot_status = 0
    /\ boot_stack = NoCpu
    /\ stack = [c \in CPU |-> IF c = BSP THEN BSP ELSE NoCpu]
    /\ identity = TRUE
    /\ present = {1, 2, 3}
    /\ gdt = [e \in Entry |-> CASE e = 1 -> "data" [] e = 2 -> "tss"
                                [] e = 3 -> "tss_high" [] OTHER -> "empty"]
    /\ fs = [c \in CPU |-> IF c = BSP THEN 1 ELSE 0]
    /\ tr = [c \in CPU |-> IF c = BSP THEN 2 ELSE 0]
    /\ pcpu_counter = 1
    /\ pcpu_id = [c \in CPU |-> IF c = BSP THEN 0 ELSE NoCpu]
    /\ percpu_virt = [id \in CPU |-> IF id = 0 THEN BSP ELSE NoCpu]
    /\ mtrr_sync = 0
    /\ virt_start = FALSE

Goto(c, from, to) ==
    /\ pc[c] = from
    /\ pc' = [pc EXCEPT ![c] = to]

-----------------------------------------------------------------------------
(* The BSP: acpi_sec_init and smp_boot_cpu                                 *)

\* No frame for the AP's stack, or no virtual page to map it to: panic.
stack_fails ==
    /\ i < g_cpus
    /\ Goto(BSP, "reset", "panic")
    /\ UNCHANGED <<bootVars, gdtVars, pcpuVars, syncVars>>

\* The stack is there; status code is reset to 0
reset_status ==
    /\ i < g_cpus
    /\ Goto(BSP, "reset", "stack")
    /\ boot_status' = 0
    /\ UNCHANGED <<i, count, g_cpus, boot_stack, stack, identity>>
    /\ UNCHANGED <<gdtVars, pcpuVars, syncVars>>

\* stack for AP
set_stack ==
    /\ Goto(BSP, "stack", "ipi")
    /\ boot_stack' = i
    /\ UNCHANGED <<i, count, g_cpus, boot_status, stack, identity>>
    /\ UNCHANGED <<gdtVars, pcpuVars, syncVars>>

\* INIT and SIPI: the AP enters the trampoline, if it starts at all.
send_ipi ==
    /\ pc[BSP] = "ipi"
    /\ pc' = [pc EXCEPT ![BSP] = "wait",
                        ![i] = IF i \in Dead THEN "off" ELSE "trampoline"]
    /\ UNCHANGED <<bootVars, gdtVars, pcpuVars, syncVars>>

\* Mutant of ap_started: the status is not waited for.
ap_started_unseen ==
    /\ Goto(BSP, "wait", "reset")
    /\ i' = i + 1
    /\ UNCHANGED <<count, g_cpus, boot_status, boot_stack, stack, identity>>
    /\ UNCHANGED <<gdtVars, pcpuVars, syncVars>>

\* The loop of smp_boot_cpu sees the status before it runs out.
ap_started ==
    /\ Goto(BSP, "wait", "reset")
    /\ boot_status = 1
    /\ i' = i + 1
    /\ UNCHANGED <<count, g_cpus, boot_status, boot_stack, stack, identity>>
    /\ UNCHANGED <<gdtVars, pcpuVars, syncVars>>

\* Mutant of ap_timeout: the AP that does not answer is started again.
ap_timeout_again ==
    /\ Goto(BSP, "wait", "reset")
    /\ Late \/ (boot_status = 0 /\ pc[i] \notin Starting)
    /\ UNCHANGED <<bootVars, gdtVars, pcpuVars, syncVars>>

\* The loop runs out, whatever the AP does: it did not start, it stopped
\* before it set the status, or it went on without setting it.  An AP that is
\* on its way to the status runs into it only if it is late; it may then have
\* set the status after all, which is not read again after the last iteration
\* ("if (cnt >= LOOPS_TO_WAIT) return false").
ap_timeout ==
    /\ Goto(BSP, "wait", "reset")
    /\ Late \/ (boot_status = 0 /\ pc[i] \notin Starting)
    /\ i' = i + 1
    /\ count' = count + 1
    /\ UNCHANGED <<g_cpus, boot_status, boot_stack, stack, identity>>
    /\ UNCHANGED <<gdtVars, pcpuVars, syncVars>>

\* Mutant of drop_failed: the failed CPUs are subtracted twice.
drop_failed_twice ==
    /\ i >= g_cpus
    /\ Goto(BSP, "reset", "unmap")
    /\ g_cpus' = g_cpus - count - count
    /\ UNCHANGED <<i, count, boot_status, boot_stack, stack, identity>>
    /\ UNCHANGED <<gdtVars, pcpuVars, syncVars>>

\* The end of acpi_sec_init.
drop_failed ==
    /\ i >= g_cpus
    /\ Goto(BSP, "reset", "unmap")
    /\ g_cpus' = g_cpus - count
    /\ UNCHANGED <<i, count, boot_status, boot_stack, stack, identity>>
    /\ UNCHANGED <<gdtVars, pcpuVars, syncVars>>

\* remove the first 2MB identity mapping, after smp boot
unmap_identity ==
    /\ Goto(BSP, "unmap", "sync")
    /\ identity' = FALSE
    /\ UNCHANGED <<i, count, g_cpus, boot_status, boot_stack, stack>>
    /\ UNCHANGED <<gdtVars, pcpuVars, syncVars>>

-----------------------------------------------------------------------------
(* An AP: the trampoline and ap_main                                       *)

\* Mutant of load_stack: ap_main sets the status before percpu_init.
load_stack_early_status(c) ==
    /\ pc[c] = "trampoline"
    /\ stack' = [stack EXCEPT ![c] = boot_stack]
    /\ pc' = [pc EXCEPT ![c] = "gdt"]
    /\ boot_status' = 1
    /\ UNCHANGED <<i, count, g_cpus, boot_stack, identity>>
    /\ UNCHANGED <<gdtVars, pcpuVars, syncVars>>

\* ap_boot.S: load rsp from the trampoline page; without the identity
\* mapping the first fetch after paging is enabled faults.
load_stack(c) ==
    /\ pc[c] = "trampoline"
    /\ IF identity
       THEN /\ stack' = [stack EXCEPT ![c] = boot_stack]
            /\ pc' = [pc EXCEPT ![c] = "gdt"]
       ELSE /\ pc' = [pc EXCEPT ![c] = "pg_fault"]
            /\ UNCHANGED stack
    /\ UNCHANGED <<i, count, g_cpus, boot_status, boot_stack, identity>>
    /\ UNCHANGED <<gdtVars, pcpuVars, syncVars>>

FirstFree == CHOOSE e \in Entry :
                /\ e \notin present
                /\ \A f \in 1 .. e - 1 : f \in present

\* percpu_init: the scan of the GDT, without gdt_lock.
find_entry(c) ==
    /\ Goto(c, "gdt", "area")
    /\ fs' = [fs EXCEPT ![c] = FirstFree]
    /\ UNCHANGED <<bootVars, present, gdt, tr, pcpuVars, syncVars>>

\* percpu_init: no frames for the area, or no virtual pages: panic.
percpu_fails(c) ==
    /\ Goto(c, "area", "panic")
    /\ UNCHANGED <<bootVars, gdtVars, pcpuVars, syncVars>>

\* percpu_init: the area is mapped, publish it under pcpu_counter.
\* An index past the table is out of reach: an AP increments the counter once.
publish_area(c) ==
    /\ Goto(c, "area", "entry")
    /\ percpu_virt' = [percpu_virt EXCEPT ![pcpu_counter] = c]
    /\ UNCHANGED <<bootVars, gdtVars, pcpu_counter, pcpu_id, syncVars>>

\* percpu_init: fill the descriptor.
write_entry(c) ==
    /\ Goto(c, "entry", "load_fs")
    /\ present' = present \cup {fs[c]}
    /\ gdt' = [gdt EXCEPT ![fs[c]] = "data"]
    /\ UNCHANGED <<bootVars, fs, tr, pcpuVars, syncVars>>

\* percpu_init: movw %0, %%fs.  The processor reads the descriptor.
load_fs(c) ==
    /\ Goto(c, "load_fs", IF gdt[fs[c]] = "data" THEN "ctor" ELSE "gp_fault")
    /\ UNCHANGED <<bootVars, gdtVars, pcpuVars, syncVars>>

\* The constructor of pcpu_id: the read of pcpu_counter++.
read_counter(c) ==
    /\ Goto(c, "ctor", "count")
    /\ pcpu_id' = [pcpu_id EXCEPT ![c] = pcpu_counter]
    /\ UNCHANGED <<bootVars, gdtVars, pcpu_counter, percpu_virt, syncVars>>

\* and its write
write_counter(c) ==
    /\ Goto(c, "count", "status")
    /\ pcpu_counter' = pcpu_id[c] + 1
    /\ UNCHANGED <<bootVars, gdtVars, pcpu_id, percpu_virt, syncVars>>

\* BOOT_STATUS() = 1.  Once the identity mapping is gone the store goes
\* through only if the translation is still in the AP's TLB.
set_status(c) ==
    /\ pc[c] = "status"
    /\ \E mapped \in (IF identity THEN {TRUE} ELSE BOOLEAN) :
          /\ boot_status' = IF mapped THEN 1 ELSE boot_status
          /\ pc' = [pc EXCEPT ![c] = IF mapped THEN "tss" ELSE "pg_fault"]
    /\ UNCHANGED <<i, count, g_cpus, boot_stack, stack, identity>>
    /\ UNCHANGED <<gdtVars, pcpuVars, syncVars>>

FirstPair == CHOOSE e \in Entry :
                /\ e \notin present /\ e + 1 \notin present
                /\ \A f \in 1 .. e - 1 : f \in present \/ f + 1 \in present

\* alloc_tss_desc: take gdt_lock and find two free entries.
find_tss(c) ==
    /\ \A d \in CPU : pc[d] \notin {"tss_low", "tss_high"}
    /\ Goto(c, "tss", "tss_low")
    /\ tr' = [tr EXCEPT ![c] = FirstPair]
    /\ UNCHANGED <<bootVars, present, gdt, fs, pcpuVars, syncVars>>

\* alloc_tss_desc: fill the descriptor, both halves, and entry->p = 1
write_tss_low(c) ==
    /\ Goto(c, "tss_low", "tss_high")
    /\ present' = present \cup {tr[c]}
    /\ gdt' = [gdt EXCEPT ![tr[c]] = "tss", ![tr[c] + 1] = "tss_high"]
    /\ UNCHANGED <<bootVars, fs, tr, pcpuVars, syncVars>>

\* alloc_tss_desc: mark the second 8B used, release gdt_lock
write_tss_high(c) ==
    /\ Goto(c, "tss_high", "load_tr")
    /\ present' = present \cup {tr[c] + 1}
    /\ UNCHANGED <<bootVars, gdt, fs, tr, pcpuVars, syncVars>>

\* load_tr(selector): the processor reads both halves.
load_tr(c) ==
    /\ Goto(c, "load_tr",
            IF gdt[tr[c]] = "tss" /\ gdt[tr[c] + 1] = "tss_high"
            THEN "sync" ELSE "gp_fault")
    /\ UNCHANGED <<bootVars, gdtVars, pcpuVars, syncVars>>

-----------------------------------------------------------------------------
(* All CPUs: the MTRR synchronization                                      *)

\* mtrr_sync++ under mtrr_lock
sync_arrive(c) ==
    /\ Goto(c, "sync", "wait_all")
    /\ mtrr_sync' = mtrr_sync + 1
    /\ UNCHANGED <<bootVars, gdtVars, pcpuVars, virt_start>>

\* Mutant of sync_all: one CPU too few is enough.
sync_all_early(c) ==
    /\ Goto(c, "wait_all", "mtrr")
    /\ mtrr_sync + 1 >= g_cpus
    /\ UNCHANGED <<bootVars, gdtVars, pcpuVars, syncVars>>

\* while (mtrr_sync != g_cpus) ;
sync_all(c) ==
    /\ Goto(c, "wait_all", "mtrr")
    /\ mtrr_sync = g_cpus
    /\ UNCHANGED <<bootVars, gdtVars, pcpuVars, syncVars>>

\* mtrr_config, then mtrr_sync-- under mtrr_lock
sync_update(c) ==
    /\ Goto(c, "mtrr", "wait_zero")
    /\ mtrr_sync' = mtrr_sync - 1
    /\ UNCHANGED <<bootVars, gdtVars, pcpuVars, virt_start>>

\* while (mtrr_sync != 0) ;
sync_leave(c) ==
    /\ Goto(c, "wait_zero", IF c = BSP THEN "virt" ELSE "wait_virt")
    /\ mtrr_sync = 0
    /\ UNCHANGED <<bootVars, gdtVars, pcpuVars, syncVars>>

\* virt_init and virt_start = true on the BSP
start_virt ==
    /\ Goto(BSP, "virt", "run")
    /\ virt_start' = TRUE
    /\ UNCHANGED <<bootVars, gdtVars, pcpuVars, mtrr_sync>>

\* while (!virt_start) ;
see_virt_start(c) ==
    /\ Goto(c, "wait_virt", "run")
    /\ virt_start
    /\ UNCHANGED <<bootVars, gdtVars, pcpuVars, syncVars>>

-----------------------------------------------------------------------------
BspStep ==
    \/ stack_fails \/ reset_status \/ set_stack \/ send_ipi
    \/ ap_started \/ ap_timeout \/ drop_failed \/ unmap_identity \/ start_virt

ApStep(c) ==
    \/ load_stack(c) \/ find_entry(c) \/ percpu_fails(c) \/ publish_area(c)
    \/ write_entry(c) \/ load_fs(c) \/ read_counter(c) \/ write_counter(c) \/ set_status(c)
    \/ find_tss(c) \/ write_tss_low(c) \/ write_tss_high(c)
    \/ load_tr(c) \/ see_virt_start(c)

SyncStep(c) == sync_arrive(c) \/ sync_all(c) \/ sync_update(c) \/ sync_leave(c)

Next ==
    \/ BspStep
    \/ \E c \in AP : ApStep(c)
    \/ \E c \in CPU : SyncStep(c)

\* Every CPU executes its own instruction stream.
Fairness ==
    /\ WF_vars(BspStep \/ SyncStep(BSP))
    /\ \A c \in AP : WF_vars(ApStep(c) \/ SyncStep(c))

Spec == Init /\ [][Next]_vars /\ Fairness

-----------------------------------------------------------------------------
(* Properties                                                              *)

\* No two CPUs run on the same stack: an AP takes the stack that smp_boot_cpu
\* set for it before the next AP's overwrites BOOT_STACK.
StacksApart ==
    \A c, d \in CPU : c # d /\ stack[c] # NoCpu => stack[c] # stack[d]

\* percpu_pointer(get_pcpu_id(), ...) leads a CPU that has its pcpu_id to its
\* own area: pcpu_counter is read three times by percpu_init and nothing but
\* the order in which the BSP starts the APs keeps another AP from changing
\* it in between.
OwnPercpuArea ==
    \A c \in CPU : pcpu_id[c] # NoCpu =>
        /\ percpu_virt[pcpu_id[c]] = c
        /\ \A d \in CPU \ {c} : pcpu_id[d] # pcpu_id[c]

\* After acpi_sec_init g_cpus is the number of CPUs that came up: every wait
\* for mtrr_sync = g_cpus depends on it.  An AP that panicked in percpu_init
\* is one of those that did not.
CountsOnline ==
    pc[BSP] \in {"unmap", "sync", "wait_all", "mtrr", "wait_zero", "virt", "run"}
        => g_cpus = Cardinality({c \in Online : pcpu_id[c] # NoCpu})

\* No AP needs the first 2MB, where the trampoline and BOOT_STATUS() are, after
\* kernel_main has removed their identity mapping.
IdentityNotMissed == \A c \in CPU : pc[c] # "pg_fault"

\* The stage of the rendezvous that CPU c is in.
Stage(c) ==
    CASE pc[c] \in {"wait_all", "mtrr"} -> "waiting"
      [] pc[c] = "wait_zero" -> "updated"
      [] pc[c] \in {"virt", "wait_virt", "run"} -> "past"
      [] pc[c] \in {"pg_fault", "gp_fault", "panic"} -> "failed"
      [] OTHER -> "before"

Meeting == INSTANCE Rendezvous WITH
    Member <- Online,
    stage  <- [c \in Online |-> Stage(c)]

\* The MTRR synchronization implements the rendezvous, although both waits
\* read one counter that CPUs ahead of the reader have started to decrement.
MtrrRendezvous == Meeting!Spec

\* acpi_sec_init ends, or panics: no AP that does not start, stops on the way
\* or never sets the status keeps the BSP from the next one.
SecInitEnds == <>(pc[BSP] \in {"sync", "panic"})

\* No GDT entry is given to two CPUs: percpu_init's entry and the two of
\* alloc_tss_desc.
GdtEntriesApart ==
    LET used(c) == {fs[c]} \cup (IF tr[c] = 0 THEN {} ELSE {tr[c], tr[c] + 1})
    IN  \A c, d \in CPU : c # d => used(c) \cap used(d) \subseteq {0}

\* Every CPU gets through the MTRR synchronization and runs, unless one of them
\* stopped before it.
AllCpusRun ==
    <>(\/ \A c \in Online : pc[c] = "run"
       \/ \E c \in Online : pc[c] \in {"panic", "gp_fault", "pg_fault"})
=============================================================================

---------------------------- MODULE SmpBootProofs ----------------------------
(***************************************************************************)
(* Proofs about SmpBoot for every number of APs and every set of APs that  *)
(* never start, provided those that start do so before LOOPS_TO_WAIT is    *)
(* over (Late = FALSE; with late APs StacksApart is violated).             *)
(***************************************************************************)
EXTENDS SmpBoot, FiniteSetTheorems, TLAPS

-----------------------------------------------------------------------------
(* The inductive invariant                                                 *)

\* Where the BSP is while it starts the APs, and after that; where an AP is
\* before it sets the status, and after that.
StartPc   == {"reset", "stack", "ipi", "wait", "panic"}
ArrivedPc == {"wait_all", "mtrr", "wait_zero", "virt", "wait_virt", "run"}
UpdatedPc == {"wait_zero", "virt", "wait_virt", "run"}
PastPc    == {"virt", "wait_virt", "run"}
NoIdPc    == {"trampoline", "gdt", "area", "entry", "load_fs", "ctor"}
BootingPc == NoIdPc \cup {"count", "status"}
BootedPc  == {"tss", "tss_low", "tss_high", "load_tr", "sync"} \cup ArrivedPc

BspPlace == StartPc \cup {"unmap", "sync"} \cup (ArrivedPc \ {"wait_virt"})
ApPlace  == {"off", "gp_fault", "panic"} \cup BootingPc \cup (BootedPc \ {"virt"})

SmpTypeOK ==
    /\ pc \in [CPU -> BspPlace \cup ApPlace]
    /\ pc[BSP] \in BspPlace /\ \A c \in AP : pc[c] \in ApPlace
    /\ i \in 1 .. N + 1 /\ count \in Nat /\ g_cpus \in Nat
    /\ boot_status \in {0, 1} /\ identity \in BOOLEAN /\ stack \in [CPU -> Nat]
    /\ pcpu_counter \in Nat
    /\ pcpu_id \in [CPU -> Nat] /\ percpu_virt \in [CPU -> Nat]

\* One AP at a time runs percpu_init: the one the BSP waits for, which has not
\* set the status.
OneBoots ==
    \A c \in AP : pc[c] \in BootingPc =>
        c = i /\ pc[BSP] = "wait" /\ boot_status = 0

\* The APs that have not been sent an IPI, or do not start, are off; the others
\* are not.
OffNotYet ==
    /\ \A c \in AP : pc[c] = "off" <=>
          \/ c \in Dead \/ c > i
          \/ c = i /\ pc[BSP] \in {"reset", "stack", "ipi", "panic"}
    /\ pc[BSP] \in {"stack", "ipi", "wait"} => i <= N
    /\ pc[BSP] \notin StartPc => i = N + 1

\* What the BSP has put into the trampoline page.
PageSet ==
    /\ pc[BSP] \in {"stack", "ipi"} => boot_status = 0
    /\ pc[BSP] \in {"ipi", "wait"} => boot_stack = i
    /\ pc[BSP] \in StartPc => identity

\* A CPU runs on the stack made for it.
OwnStack == stack[BSP] = BSP /\ \A c \in AP : stack[c] \in {c, NoCpu}

\* Who has a pcpu_id; pcpu_counter is above all of them but the one whose
\* increment is under way.
IdsAssigned ==
    /\ pcpu_id[BSP] = 0 /\ percpu_virt[0] = BSP /\ pcpu_counter >= 1
    /\ \A c \in AP :
          /\ pc[c] \in {"off"} \cup NoIdPc => pcpu_id[c] = NoCpu
          /\ pc[c] \in {"count", "status"} \cup BootedPc => pcpu_id[c] # NoCpu
          /\ pc[c] \in {"entry", "load_fs", "ctor"} => percpu_virt[pcpu_counter] = c
    /\ \A c \in CPU : pcpu_id[c] # NoCpu =>
          /\ pcpu_id[c] <= N /\ percpu_virt[pcpu_id[c]] = c
          /\ IF pc[c] = "count" THEN pcpu_id[c] = pcpu_counter
                                ELSE pcpu_id[c] < pcpu_counter
    /\ \/ pcpu_counter <= i
       \/ /\ pcpu_counter = i + 1 /\ pc[BSP] = "wait"
          /\ pc[i] \in {"status", "gp_fault"} \cup BootedPc

\* While the BSP waits: the status says whether the AP has its pcpu_id, except
\* between the two.
StatusTells ==
    pc[BSP] = "wait" =>
        /\ boot_status = 1 => pcpu_id[i] # NoCpu
        /\ boot_status = 0 => pc[i] \in {"off", "gp_fault", "panic"} \cup BootingPc
        /\ boot_status = 0 /\ pc[i] \in {"gp_fault", "panic"} => pcpu_id[i] = NoCpu

\* Of the CPUs before i, all but count have a pcpu_id.
Numbered == {c \in Online : c < i /\ pcpu_id[c] # NoCpu}

CountRight ==
    /\ Cardinality(Numbered) + count = i
    /\ pc[BSP] \in StartPc => g_cpus = N + 1
    /\ pc[BSP] \notin StartPc => g_cpus + count = N + 1

BootInv ==
    /\ SmpTypeOK /\ OneBoots /\ OffNotYet /\ PageSet /\ OwnStack
    /\ IdsAssigned /\ StatusTells /\ CountRight

\* mtrr_sync counts the CPUs that have stopped and not yet updated.
Waiting == {c \in CPU : pc[c] \in {"wait_all", "mtrr"}}

\* A CPU that goes on from the first wait has seen all others there, one that
\* goes on from the second has seen all others updated.
SyncInv ==
    /\ mtrr_sync = Cardinality(Waiting)
    /\ (\E c \in CPU : pc[c] \in {"mtrr"} \cup UpdatedPc) =>
          \A d \in CPU : pcpu_id[d] # NoCpu => pc[d] \in ArrivedPc
    /\ (\E c \in CPU : pc[c] \in PastPc) =>
          \A d \in CPU : pcpu_id[d] # NoCpu => pc[d] \in UpdatedPc

SmpInv == BootInv /\ SyncInv

-----------------------------------------------------------------------------
(* Starting the APs                                                        *)

\* The CPUs and the places in the code.
USE DEF BSP, AP, CPU, NoCpu, StartPc, ArrivedPc, UpdatedPc, PastPc, NoIdPc,
        BootingPc, BootedPc

\* A CPU that goes on in the code leaves the others where they are.
LEMMA BspMoves ==
    ASSUME SmpTypeOK, NEW to \in BspPlace, pc' = [pc EXCEPT ![0] = to]
    PROVE  /\ pc' \in [CPU -> BspPlace \cup ApPlace]
           /\ pc'[0] \in BspPlace /\ \A d \in AP : pc'[d] \in ApPlace
<1>1. 0 \in CPU /\ \A d \in AP : d \in CPU /\ d # 0
  BY SmpAssumption
<1> QED
  BY <1>1 DEF SmpTypeOK

LEMMA ApMoves ==
    ASSUME SmpTypeOK, NEW c \in AP, NEW to \in ApPlace,
           pc' = [pc EXCEPT ![c] = to]
    PROVE  /\ pc' \in [CPU -> BspPlace \cup ApPlace]
           /\ pc'[0] \in BspPlace /\ \A d \in AP : pc'[d] \in ApPlace
<1>1. 0 \in CPU /\ \A d \in AP : d \in CPU /\ d # 0
  BY SmpAssumption
<1> QED
  BY <1>1 DEF SmpTypeOK

\* Without a stack for AP i the BSP stops where it is.
LEMMA StackFailsKeeps ==
    ASSUME BootInv, stack_fails
    PROVE  BootInv'
<1> USE SmpAssumption DEF BootInv, stack_fails, Goto, bootVars, pcpuVars
<1>1. SmpTypeOK'
  <2>1. /\ pc' \in [CPU -> BspPlace \cup ApPlace]
        /\ pc'[0] \in BspPlace /\ \A d \in AP : pc'[d] \in ApPlace
    BY BspMoves DEF BspPlace
  <2> QED
    BY <2>1 DEF SmpTypeOK
<1>2. OneBoots'
  BY DEF OneBoots, SmpTypeOK
<1>3. OffNotYet'
  BY DEF OffNotYet, SmpTypeOK, CountRight
<1>4. PageSet'
  BY DEF PageSet, SmpTypeOK
<1>5. OwnStack'
  BY DEF OwnStack, SmpTypeOK
<1>6. IdsAssigned'
  BY DEF IdsAssigned, SmpTypeOK
<1>7. StatusTells'
  BY DEF StatusTells, SmpTypeOK
<1>8. CountRight'
  BY DEF CountRight, SmpTypeOK, Numbered
<1> QED
  BY <1>1, <1>2, <1>3, <1>4, <1>5, <1>6, <1>7, <1>8

\* The BSP resets the status when no AP is booting.
LEMMA ResetKeeps ==
    ASSUME BootInv, reset_status
    PROVE  BootInv'
<1> USE SmpAssumption DEF BootInv, reset_status, Goto, bootVars, pcpuVars
<1>1. SmpTypeOK'
  <2>1. /\ pc' \in [CPU -> BspPlace \cup ApPlace]
        /\ pc'[0] \in BspPlace /\ \A d \in AP : pc'[d] \in ApPlace
    BY BspMoves DEF BspPlace
  <2> QED
    BY <2>1 DEF SmpTypeOK
<1>2. OneBoots'
  BY DEF OneBoots, SmpTypeOK
<1>3. OffNotYet'
  BY DEF OffNotYet, SmpTypeOK, CountRight
<1>4. PageSet'
  BY DEF PageSet, SmpTypeOK
<1>5. OwnStack'
  BY DEF OwnStack, SmpTypeOK
<1>6. IdsAssigned'
  BY DEF IdsAssigned, SmpTypeOK
<1>7. StatusTells'
  BY DEF StatusTells, SmpTypeOK
<1>8. CountRight'
  BY DEF CountRight, SmpTypeOK, Numbered
<1> QED
  BY <1>1, <1>2, <1>3, <1>4, <1>5, <1>6, <1>7, <1>8

\* It sets the stack of AP i, which is still off.
LEMMA SetStackKeeps ==
    ASSUME BootInv, set_stack
    PROVE  BootInv'
<1> USE SmpAssumption DEF BootInv, set_stack, Goto, bootVars, pcpuVars
<1>1. SmpTypeOK'
  <2>1. /\ pc' \in [CPU -> BspPlace \cup ApPlace]
        /\ pc'[0] \in BspPlace /\ \A d \in AP : pc'[d] \in ApPlace
    BY BspMoves DEF BspPlace
  <2> QED
    BY <2>1 DEF SmpTypeOK
<1>2. OneBoots'
  BY DEF OneBoots, SmpTypeOK
<1>3. OffNotYet'
  BY DEF OffNotYet, SmpTypeOK
<1>4. PageSet'
  BY DEF PageSet, SmpTypeOK
<1>5. OwnStack'
  BY DEF OwnStack, SmpTypeOK
<1>6. IdsAssigned'
  BY DEF IdsAssigned, SmpTypeOK
<1>7. StatusTells'
  BY DEF StatusTells, SmpTypeOK
<1>8. CountRight'
  BY DEF CountRight, SmpTypeOK, Numbered
<1> QED
  BY <1>1, <1>2, <1>3, <1>4, <1>5, <1>6, <1>7, <1>8

\* AP i enters the trampoline with the status reset and its own stack in the
\* page.
LEMMA SendIpiKeeps ==
    ASSUME BootInv, send_ipi
    PROVE  BootInv'
<1> USE SmpAssumption DEF BootInv, send_ipi, bootVars, pcpuVars
<1>1. /\ pc[0] = "ipi" /\ i \in AP /\ boot_status = 0 /\ boot_stack = i
      /\ identity /\ pc[i] = "off" /\ pcpu_id[i] = NoCpu /\ pcpu_counter <= i
  BY DEF SmpTypeOK, OffNotYet, PageSet, IdsAssigned
<1>2. /\ pc'[0] = "wait" /\ pc'[i] = IF i \in Dead THEN "off" ELSE "trampoline"
      /\ \A c \in CPU : c # 0 /\ c # i => pc'[c] = pc[c]
      /\ pc' \in [CPU -> BspPlace \cup ApPlace]
  <2> DEFINE to == IF i \in Dead THEN "off" ELSE "trampoline"
  <2>1. to \in ApPlace /\ "wait" \in BspPlace /\ 0 \in CPU /\ i \in CPU /\ i # 0
    BY <1>1 DEF ApPlace, BspPlace
  <2>2. pc' = [pc EXCEPT ![0] = "wait", ![i] = to]
    OBVIOUS
  <2> HIDE DEF to
  <2>3. pc'[0] = "wait" /\ pc'[i] = to
    BY <2>1, <2>2 DEF SmpTypeOK
  <2>4. \A c \in CPU : c # 0 /\ c # i => pc'[c] = pc[c]
    BY <2>1, <2>2 DEF SmpTypeOK
  <2>5. pc' \in [CPU -> BspPlace \cup ApPlace]
    BY <2>1, <2>2 DEF SmpTypeOK
  <2> QED
    BY <2>3, <2>4, <2>5 DEF to
<1>3. UNCHANGED <<i, count, g_cpus, boot_status, boot_stack, stack, identity>>
  OBVIOUS
<1>4. SmpTypeOK'
  <2>1. pc'[0] \in BspPlace /\ \A c \in AP : pc'[c] \in ApPlace
    BY <1>1, <1>2 DEF BspPlace, ApPlace, SmpTypeOK
  <2> QED
    BY <1>2, <1>3, <2>1 DEF SmpTypeOK
<1>5. OneBoots'
  BY <1>1, <1>2, <1>3 DEF OneBoots
<1>6. OffNotYet'
  BY <1>1, <1>2, <1>3 DEF OffNotYet, SmpTypeOK
<1>7. PageSet' /\ OwnStack'
  BY <1>1, <1>2, <1>3 DEF PageSet, OwnStack
<1>8. IdsAssigned'
  <2>1. \A c \in AP : pc'[c] \in {"off"} \cup NoIdPc => pcpu_id[c] = NoCpu
    BY <1>1, <1>2 DEF IdsAssigned
  <2>2. \A c \in AP : pc'[c] \in {"entry", "load_fs", "ctor", "count", "status"} \cup BootedPc
           => pc'[c] = pc[c]
    BY <1>1, <1>2
  <2>3. \A c \in CPU : pcpu_id[c] # NoCpu => (pc'[c] = "count" <=> pc[c] = "count")
    BY <1>1, <1>2
  <2> QED
    BY <1>1, <2>1, <2>2, <2>3 DEF IdsAssigned
<1>9. StatusTells'
  BY <1>1, <1>2 DEF StatusTells
<1>10. CountRight'
  BY <1>1, <1>2 DEF CountRight, Numbered
<1> QED
  BY <1>4, <1>5, <1>6, <1>7, <1>8, <1>9, <1>10

\* Numbered is a set of CPUs.
LEMMA NumberedFinite == IsFiniteSet(Numbered) /\ Cardinality(Numbered) \in Nat
<1>1. IsFiniteSet(0 .. N)
  BY SmpAssumption, FS_Interval
<1>2. Numbered \subseteq 0 .. N
  BY DEF Numbered, Online
<1> QED
  BY <1>1, <1>2, FS_Subset, FS_CardinalityType

\* One more CPU is passed: it is in Numbered if it has a pcpu_id.
LEMMA NumberedGrows ==
    ASSUME SmpTypeOK, i \in AP, i' = i + 1, pcpu_id' = pcpu_id
    PROVE  /\ pcpu_id[i] = NoCpu \/ i \in Dead => Numbered' = Numbered
           /\ pcpu_id[i] # NoCpu /\ i \notin Dead =>
                 Cardinality(Numbered') = Cardinality(Numbered) + 1
           /\ Cardinality(Numbered) \in Nat
<1>1. IsFiniteSet(Numbered)
  BY NumberedFinite
<1>2. i \notin Numbered /\ Cardinality(Numbered) \in Nat
  BY NumberedFinite DEF Numbered, SmpTypeOK
<1>3. Numbered' = Numbered \cup {c \in {i} : c \in Online /\ pcpu_id[c] # NoCpu}
  BY SmpAssumption DEF Numbered, Online, SmpTypeOK
<1>4. CASE pcpu_id[i] # NoCpu /\ i \notin Dead
  <2>1. Numbered' = Numbered \cup {i}
    BY <1>3, <1>4 DEF Online
  <2> QED
    BY <2>1, <1>1, <1>2, <1>4, FS_AddElement
<1>5. CASE pcpu_id[i] = NoCpu \/ i \in Dead
  BY <1>2, <1>3, <1>5 DEF Online
<1> QED
  BY <1>2, <1>4, <1>5

\* The BSP goes on to the next AP when AP i has its pcpu_id.
LEMMA ApStartedKeeps ==
    ASSUME BootInv, ap_started
    PROVE  BootInv'
<1> USE SmpAssumption DEF BootInv, ap_started, Goto, bootVars, pcpuVars
<1>0. /\ i \in AP /\ pcpu_id[i] # NoCpu /\ i \notin Dead
      /\ \A c \in AP : pc[c] \notin BootingPc
  BY DEF SmpTypeOK, OffNotYet, IdsAssigned, StatusTells, OneBoots
<1>1. SmpTypeOK'
  <2>1. /\ pc' \in [CPU -> BspPlace \cup ApPlace]
        /\ pc'[0] \in BspPlace /\ \A d \in AP : pc'[d] \in ApPlace
    BY BspMoves DEF BspPlace
  <2> QED
    BY <1>0, <2>1 DEF SmpTypeOK
<1>2. OneBoots'
  BY <1>0 DEF OneBoots, SmpTypeOK
<1>3. OffNotYet'
  BY <1>0 DEF OffNotYet, SmpTypeOK
<1>4. PageSet'
  BY DEF PageSet, SmpTypeOK
<1>5. OwnStack'
  BY DEF OwnStack, SmpTypeOK
<1>6. IdsAssigned'
  BY <1>0 DEF IdsAssigned, SmpTypeOK
<1>7. StatusTells'
  BY DEF StatusTells, SmpTypeOK
<1>8. CountRight'
  <2>1. Cardinality(Numbered)' = Cardinality(Numbered) + 1 /\ Cardinality(Numbered) \in Nat
    BY <1>0, NumberedGrows
  <2> QED
    BY <2>1 DEF CountRight, SmpTypeOK
<1> QED
  BY <1>1, <1>2, <1>3, <1>4, <1>5, <1>6, <1>7, <1>8

\* It gives AP i up only if that is off or has stopped before it got one.
LEMMA ApTimeoutKeeps ==
    ASSUME BootInv, ~Late, ap_timeout
    PROVE  BootInv'
<1> USE SmpAssumption DEF BootInv, ap_timeout, Goto, bootVars, pcpuVars
<1>0. /\ i \in AP /\ pcpu_id[i] = NoCpu
      /\ \A c \in AP : pc[c] \notin BootingPc
  BY DEF SmpTypeOK, OffNotYet, IdsAssigned, StatusTells, OneBoots, Starting
<1>1. SmpTypeOK'
  <2>1. /\ pc' \in [CPU -> BspPlace \cup ApPlace]
        /\ pc'[0] \in BspPlace /\ \A d \in AP : pc'[d] \in ApPlace
    BY BspMoves DEF BspPlace
  <2> QED
    BY <1>0, <2>1 DEF SmpTypeOK
<1>2. OneBoots'
  BY <1>0 DEF OneBoots, SmpTypeOK
<1>3. OffNotYet'
  BY <1>0 DEF OffNotYet, SmpTypeOK
<1>4. PageSet'
  BY DEF PageSet, SmpTypeOK
<1>5. OwnStack'
  BY DEF OwnStack, SmpTypeOK
<1>6. IdsAssigned'
  BY <1>0 DEF IdsAssigned, SmpTypeOK
<1>7. StatusTells'
  BY DEF StatusTells, SmpTypeOK
<1>8. CountRight'
  <2>1. Numbered' = Numbered /\ Cardinality(Numbered) \in Nat
    BY <1>0, NumberedGrows
  <2> QED
    BY <2>1 DEF CountRight, SmpTypeOK
<1> QED
  BY <1>1, <1>2, <1>3, <1>4, <1>5, <1>6, <1>7, <1>8

\* After the last AP nobody boots any more.
LEMMA DropKeeps ==
    ASSUME BootInv, drop_failed
    PROVE  BootInv'
<1> USE SmpAssumption DEF BootInv, drop_failed, Goto, bootVars, pcpuVars
<1>1. SmpTypeOK'
  <2>1. /\ pc' \in [CPU -> BspPlace \cup ApPlace]
        /\ pc'[0] \in BspPlace /\ \A d \in AP : pc'[d] \in ApPlace
    BY BspMoves DEF BspPlace
  <2>2. Cardinality(Numbered) \in Nat
    BY NumberedFinite
  <2>3. g_cpus' \in Nat
    BY <2>2 DEF CountRight, SmpTypeOK, OffNotYet
  <2> QED
    BY <2>1, <2>3 DEF SmpTypeOK
<1>2. OneBoots'
  BY DEF OneBoots, SmpTypeOK
<1>3. OffNotYet'
  BY DEF OffNotYet, SmpTypeOK, CountRight
<1>4. PageSet'
  BY DEF PageSet, SmpTypeOK
<1>5. OwnStack'
  BY DEF OwnStack, SmpTypeOK
<1>6. IdsAssigned'
  BY DEF IdsAssigned, SmpTypeOK
<1>7. StatusTells'
  BY DEF StatusTells, SmpTypeOK
<1>8. CountRight'
  BY DEF CountRight, SmpTypeOK, Numbered
<1> QED
  BY <1>1, <1>2, <1>3, <1>4, <1>5, <1>6, <1>7, <1>8

\* The identity mapping is removed when nobody needs it.
LEMMA UnmapKeeps ==
    ASSUME BootInv, unmap_identity
    PROVE  BootInv'
<1> USE SmpAssumption DEF BootInv, unmap_identity, Goto, bootVars, pcpuVars
<1>1. SmpTypeOK'
  <2>1. /\ pc' \in [CPU -> BspPlace \cup ApPlace]
        /\ pc'[0] \in BspPlace /\ \A d \in AP : pc'[d] \in ApPlace
    BY BspMoves DEF BspPlace
  <2> QED
    BY <2>1 DEF SmpTypeOK
<1>2. OneBoots'
  BY DEF OneBoots, SmpTypeOK
<1>3. OffNotYet'
  BY DEF OffNotYet, SmpTypeOK
<1>4. PageSet'
  BY DEF PageSet, SmpTypeOK
<1>5. OwnStack'
  BY DEF OwnStack, SmpTypeOK
<1>6. IdsAssigned'
  BY DEF IdsAssigned, SmpTypeOK
<1>7. StatusTells'
  BY DEF StatusTells, SmpTypeOK
<1>8. CountRight'
  BY DEF CountRight, SmpTypeOK, Numbered
<1> QED
  BY <1>1, <1>2, <1>3, <1>4, <1>5, <1>6, <1>7, <1>8

\* AP i loads the stack set for it.
LEMMA LoadStackKeeps ==
    ASSUME BootInv, NEW c \in AP, load_stack(c)
    PROVE  BootInv'
<1> USE SmpAssumption DEF BootInv, load_stack, Goto, bootVars, pcpuVars
<1>0. /\ c = i /\ pc[0] = "wait" /\ boot_status = 0 /\ i <= N /\ identity
      /\ \A d \in AP : d # c => pc[d] \notin BootingPc
  BY DEF SmpTypeOK, OneBoots, OffNotYet, PageSet
<1>1. SmpTypeOK'
  <2>1. /\ pc' \in [CPU -> BspPlace \cup ApPlace]
        /\ pc'[0] \in BspPlace /\ \A d \in AP : pc'[d] \in ApPlace
    BY <1>0, ApMoves DEF ApPlace
  <2>2. stack' = [stack EXCEPT ![c] = i] /\ i \in Nat
    BY <1>0 DEF PageSet, SmpTypeOK
  <2>3. stack' \in [CPU -> Nat]
    BY <2>2 DEF SmpTypeOK
  <2> QED
    BY <1>0, <2>1, <2>3 DEF SmpTypeOK
<1>2. OneBoots'
  BY <1>0 DEF OneBoots, SmpTypeOK
<1>3. OffNotYet'
  BY <1>0 DEF OffNotYet, SmpTypeOK
<1>4. PageSet'
  BY <1>0 DEF PageSet, SmpTypeOK
<1>5. OwnStack'
  BY <1>0 DEF OwnStack, SmpTypeOK, PageSet
<1>6. IdsAssigned'
  BY <1>0 DEF IdsAssigned, SmpTypeOK
<1>7. StatusTells'
  BY <1>0 DEF StatusTells, SmpTypeOK
<1>8. CountRight'
  BY <1>0 DEF CountRight, SmpTypeOK, Numbered
<1> QED
  BY <1>1, <1>2, <1>3, <1>4, <1>5, <1>6, <1>7, <1>8

\* The scan of the GDT changes nothing that another CPU waits for.
LEMMA FindEntryKeeps ==
    ASSUME BootInv, NEW c \in AP, find_entry(c)
    PROVE  BootInv'
<1> USE SmpAssumption DEF BootInv, find_entry, Goto, bootVars, pcpuVars
<1>0. /\ c = i /\ pc[0] = "wait" /\ boot_status = 0 /\ i <= N /\ identity
      /\ \A d \in AP : d # c => pc[d] \notin BootingPc
  BY DEF SmpTypeOK, OneBoots, OffNotYet, PageSet
<1>1. SmpTypeOK'
  <2>1. /\ pc' \in [CPU -> BspPlace \cup ApPlace]
        /\ pc'[0] \in BspPlace /\ \A d \in AP : pc'[d] \in ApPlace
    BY <1>0, ApMoves DEF ApPlace
  <2> QED
    BY <1>0, <2>1 DEF SmpTypeOK
<1>2. OneBoots'
  BY <1>0 DEF OneBoots, SmpTypeOK
<1>3. OffNotYet'
  BY <1>0 DEF OffNotYet, SmpTypeOK
<1>4. PageSet'
  BY <1>0 DEF PageSet, SmpTypeOK
<1>5. OwnStack'
  BY <1>0 DEF OwnStack, SmpTypeOK
<1>6. IdsAssigned'
  BY <1>0 DEF IdsAssigned, SmpTypeOK
<1>7. StatusTells'
  BY <1>0 DEF StatusTells, SmpTypeOK
<1>8. CountRight'
  BY <1>0 DEF CountRight, SmpTypeOK, Numbered
<1> QED
  BY <1>1, <1>2, <1>3, <1>4, <1>5, <1>6, <1>7, <1>8

\* An AP that gets no area stops without a pcpu_id.
LEMMA PercpuFailsKeeps ==
    ASSUME BootInv, NEW c \in AP, percpu_fails(c)
    PROVE  BootInv'
<1> USE SmpAssumption DEF BootInv, percpu_fails, Goto, bootVars, pcpuVars
<1>0. /\ c = i /\ pc[0] = "wait" /\ boot_status = 0 /\ i <= N /\ identity
      /\ \A d \in AP : d # c => pc[d] \notin BootingPc
  BY DEF SmpTypeOK, OneBoots, OffNotYet, PageSet
<1>1. SmpTypeOK'
  <2>1. /\ pc' \in [CPU -> BspPlace \cup ApPlace]
        /\ pc'[0] \in BspPlace /\ \A d \in AP : pc'[d] \in ApPlace
    BY <1>0, ApMoves DEF ApPlace
  <2> QED
    BY <1>0, <2>1 DEF SmpTypeOK
<1>2. OneBoots'
  BY <1>0 DEF OneBoots, SmpTypeOK
<1>3. OffNotYet'
  BY <1>0 DEF OffNotYet, SmpTypeOK
<1>4. PageSet'
  BY <1>0 DEF PageSet, SmpTypeOK
<1>5. OwnStack'
  BY <1>0 DEF OwnStack, SmpTypeOK
<1>6. IdsAssigned'
  BY <1>0 DEF IdsAssigned, SmpTypeOK
<1>7. StatusTells'
  BY <1>0 DEF StatusTells, SmpTypeOK, IdsAssigned
<1>8. CountRight'
  BY <1>0 DEF CountRight, SmpTypeOK, Numbered
<1> QED
  BY <1>1, <1>2, <1>3, <1>4, <1>5, <1>6, <1>7, <1>8

\* The area is published at an index above those in use.
LEMMA PublishKeeps ==
    ASSUME BootInv, NEW c \in AP, publish_area(c)
    PROVE  BootInv'
<1> USE SmpAssumption DEF BootInv, publish_area, Goto, bootVars, pcpuVars
<1>0. /\ c = i /\ pc[0] = "wait" /\ boot_status = 0 /\ i <= N /\ identity
      /\ \A d \in AP : d # c => pc[d] \notin BootingPc
  BY DEF SmpTypeOK, OneBoots, OffNotYet, PageSet
<1>1. SmpTypeOK'
  <2>1. /\ pc' \in [CPU -> BspPlace \cup ApPlace]
        /\ pc'[0] \in BspPlace /\ \A d \in AP : pc'[d] \in ApPlace
    BY <1>0, ApMoves DEF ApPlace
  <2>2. percpu_virt' = [percpu_virt EXCEPT ![pcpu_counter] = c] /\ c \in Nat
    OBVIOUS
  <2>3. percpu_virt' \in [CPU -> Nat]
    BY <2>2 DEF SmpTypeOK
  <2> QED
    BY <1>0, <2>1, <2>3 DEF SmpTypeOK
<1>2. OneBoots'
  BY <1>0 DEF OneBoots, SmpTypeOK
<1>3. OffNotYet'
  BY <1>0 DEF OffNotYet, SmpTypeOK
<1>4. PageSet'
  BY <1>0 DEF PageSet, SmpTypeOK
<1>5. OwnStack'
  BY <1>0 DEF OwnStack, SmpTypeOK
<1>6. IdsAssigned'
  BY <1>0 DEF IdsAssigned, SmpTypeOK
<1>7. StatusTells'
  BY <1>0 DEF StatusTells, SmpTypeOK
<1>8. CountRight'
  BY <1>0 DEF CountRight, SmpTypeOK, Numbered
<1> QED
  BY <1>1, <1>2, <1>3, <1>4, <1>5, <1>6, <1>7, <1>8

\* Neither does the descriptor: what it means for the others is left open.
LEMMA WriteEntryKeeps ==
    ASSUME BootInv, NEW c \in AP, write_entry(c)
    PROVE  BootInv'
<1> USE SmpAssumption DEF BootInv, write_entry, Goto, bootVars, pcpuVars
<1>0. /\ c = i /\ pc[0] = "wait" /\ boot_status = 0 /\ i <= N /\ identity
      /\ \A d \in AP : d # c => pc[d] \notin BootingPc
  BY DEF SmpTypeOK, OneBoots, OffNotYet, PageSet
<1>1. SmpTypeOK'
  <2>1. /\ pc' \in [CPU -> BspPlace \cup ApPlace]
        /\ pc'[0] \in BspPlace /\ \A d \in AP : pc'[d] \in ApPlace
    BY <1>0, ApMoves DEF ApPlace
  <2> QED
    BY <1>0, <2>1 DEF SmpTypeOK
<1>2. OneBoots'
  BY <1>0 DEF OneBoots, SmpTypeOK
<1>3. OffNotYet'
  BY <1>0 DEF OffNotYet, SmpTypeOK
<1>4. PageSet'
  BY <1>0 DEF PageSet, SmpTypeOK
<1>5. OwnStack'
  BY <1>0 DEF OwnStack, SmpTypeOK
<1>6. IdsAssigned'
  BY <1>0 DEF IdsAssigned, SmpTypeOK
<1>7. StatusTells'
  BY <1>0 DEF StatusTells, SmpTypeOK
<1>8. CountRight'
  BY <1>0 DEF CountRight, SmpTypeOK, Numbered
<1> QED
  BY <1>1, <1>2, <1>3, <1>4, <1>5, <1>6, <1>7, <1>8

\* An AP whose descriptor was overwritten faults without a pcpu_id.
LEMMA LoadFsKeeps ==
    ASSUME BootInv, NEW c \in AP, load_fs(c)
    PROVE  BootInv'
<1> USE SmpAssumption DEF BootInv, load_fs, Goto, bootVars, pcpuVars
<1>0. /\ c = i /\ pc[0] = "wait" /\ boot_status = 0 /\ i <= N /\ identity
      /\ \A d \in AP : d # c => pc[d] \notin BootingPc
  BY DEF SmpTypeOK, OneBoots, OffNotYet, PageSet
<1>1. SmpTypeOK'
  <2>1. /\ pc' \in [CPU -> BspPlace \cup ApPlace]
        /\ pc'[0] \in BspPlace /\ \A d \in AP : pc'[d] \in ApPlace
    BY <1>0, ApMoves DEF ApPlace
  <2> QED
    BY <1>0, <2>1 DEF SmpTypeOK
<1>2. OneBoots'
  BY <1>0 DEF OneBoots, SmpTypeOK
<1>3. OffNotYet'
  BY <1>0 DEF OffNotYet, SmpTypeOK
<1>4. PageSet'
  BY <1>0 DEF PageSet, SmpTypeOK
<1>5. OwnStack'
  BY <1>0 DEF OwnStack, SmpTypeOK
<1>6. IdsAssigned'
  BY <1>0 DEF IdsAssigned, SmpTypeOK
<1>7. StatusTells'
  BY <1>0 DEF StatusTells, SmpTypeOK, IdsAssigned
<1>8. CountRight'
  BY <1>0 DEF CountRight, SmpTypeOK, Numbered
<1> QED
  BY <1>1, <1>2, <1>3, <1>4, <1>5, <1>6, <1>7, <1>8

\* The counter is the index at which the area was published, since no other
\* AP is in percpu_init.
LEMMA ReadCounterKeeps ==
    ASSUME BootInv, NEW c \in AP, read_counter(c)
    PROVE  BootInv'
<1> USE SmpAssumption DEF BootInv, read_counter, Goto, bootVars, pcpuVars
<1>0. /\ c = i /\ pc[0] = "wait" /\ boot_status = 0 /\ i <= N /\ identity
      /\ \A d \in AP : d # c => pc[d] \notin BootingPc
  BY DEF SmpTypeOK, OneBoots, OffNotYet, PageSet
<1>1. SmpTypeOK'
  <2>1. /\ pc' \in [CPU -> BspPlace \cup ApPlace]
        /\ pc'[0] \in BspPlace /\ \A d \in AP : pc'[d] \in ApPlace
    BY <1>0, ApMoves DEF ApPlace
  <2> QED
    BY <1>0, <2>1 DEF SmpTypeOK
<1>2. OneBoots'
  BY <1>0 DEF OneBoots, SmpTypeOK
<1>3. OffNotYet'
  BY <1>0 DEF OffNotYet, SmpTypeOK
<1>4. PageSet'
  BY <1>0 DEF PageSet, SmpTypeOK
<1>5. OwnStack'
  BY <1>0 DEF OwnStack, SmpTypeOK
<1>6. IdsAssigned'
  BY <1>0 DEF IdsAssigned, SmpTypeOK
<1>7. StatusTells'
  BY <1>0 DEF StatusTells, SmpTypeOK
<1>8. CountRight'
  <2>1. Numbered' = Numbered
    BY <1>0 DEF Numbered, SmpTypeOK
  <2> QED
    BY <1>0, <2>1 DEF CountRight, SmpTypeOK
<1> QED
  BY <1>1, <1>2, <1>3, <1>4, <1>5, <1>6, <1>7, <1>8

\* The counter goes past the pcpu_id, and only past that one.
LEMMA WriteCounterKeeps ==
    ASSUME BootInv, NEW c \in AP, write_counter(c)
    PROVE  BootInv'
<1> USE SmpAssumption DEF BootInv, write_counter, Goto, bootVars, pcpuVars
<1>0. /\ c = i /\ pc[0] = "wait" /\ boot_status = 0 /\ i <= N /\ identity
      /\ \A d \in AP : d # c => pc[d] \notin BootingPc
  BY DEF SmpTypeOK, OneBoots, OffNotYet, PageSet
<1>1. SmpTypeOK'
  <2>1. /\ pc' \in [CPU -> BspPlace \cup ApPlace]
        /\ pc'[0] \in BspPlace /\ \A d \in AP : pc'[d] \in ApPlace
    BY <1>0, ApMoves DEF ApPlace
  <2> QED
    BY <1>0, <2>1 DEF SmpTypeOK
<1>2. OneBoots'
  BY <1>0 DEF OneBoots, SmpTypeOK
<1>3. OffNotYet'
  BY <1>0 DEF OffNotYet, SmpTypeOK
<1>4. PageSet'
  BY <1>0 DEF PageSet, SmpTypeOK
<1>5. OwnStack'
  BY <1>0 DEF OwnStack, SmpTypeOK
<1>6. IdsAssigned'
  <2>1. /\ pcpu_id[c] = pcpu_counter /\ pcpu_counter' = pcpu_counter + 1
        /\ pcpu_counter <= i /\ pcpu_counter \in Nat /\ pcpu_counter >= 1
    BY <1>0 DEF IdsAssigned, SmpTypeOK
  <2>2. /\ pc'[c] = "status" /\ \A d \in CPU : d # c => pc'[d] = pc[d]
        /\ pc[0] = "wait" /\ c # 0
    BY <1>0 DEF SmpTypeOK
  <2>3. ASSUME NEW d \in CPU, pcpu_id[d] # NoCpu
        PROVE  pcpu_id[d] < pcpu_counter' /\ pc'[d] # "count"
    <3>1. d # c => pc[d] # "count"
      BY <1>0, <2>2 DEF SmpTypeOK
    <3>2. pcpu_id[d] \in Nat /\ (d # c => pcpu_id[d] < pcpu_counter)
      BY <2>3, <3>1 DEF IdsAssigned, SmpTypeOK
    <3> QED
      BY <2>1, <2>2, <3>1, <3>2
  <2>4. \A d \in AP :
           /\ pc'[d] \in {"off"} \cup NoIdPc => pcpu_id[d] = NoCpu
           /\ pc'[d] \in {"count", "status"} \cup BootedPc => pcpu_id[d] # NoCpu
           /\ pc'[d] \notin {"entry", "load_fs", "ctor"}
    BY <1>0, <2>1, <2>2 DEF IdsAssigned, SmpTypeOK
  <2> QED
    BY <1>0, <2>1, <2>2, <2>3, <2>4 DEF IdsAssigned, SmpTypeOK
<1>7. StatusTells'
  BY <1>0 DEF StatusTells, SmpTypeOK
<1>8. CountRight'
  BY <1>0 DEF CountRight, SmpTypeOK, Numbered
<1> QED
  BY <1>1, <1>2, <1>3, <1>4, <1>5, <1>6, <1>7, <1>8

\* The status is set by the AP that the BSP waits for, and the page is mapped.
LEMMA SetStatusKeeps ==
    ASSUME BootInv, NEW c \in AP, set_status(c)
    PROVE  BootInv'
<1> USE SmpAssumption DEF BootInv, set_status, Goto, bootVars, pcpuVars
<1>0. /\ c = i /\ pc[0] = "wait" /\ boot_status = 0 /\ i <= N /\ identity
      /\ \A d \in AP : d # c => pc[d] \notin BootingPc
  BY DEF SmpTypeOK, OneBoots, OffNotYet, PageSet
<1>1. SmpTypeOK'
  <2>1. /\ pc' \in [CPU -> BspPlace \cup ApPlace]
        /\ pc'[0] \in BspPlace /\ \A d \in AP : pc'[d] \in ApPlace
    BY <1>0, ApMoves DEF ApPlace
  <2> QED
    BY <1>0, <2>1 DEF SmpTypeOK
<1>2. OneBoots'
  BY <1>0 DEF OneBoots, SmpTypeOK
<1>3. OffNotYet'
  BY <1>0 DEF OffNotYet, SmpTypeOK
<1>4. PageSet'
  BY <1>0 DEF PageSet, SmpTypeOK
<1>5. OwnStack'
  BY <1>0 DEF OwnStack, SmpTypeOK
<1>6. IdsAssigned'
  BY <1>0 DEF IdsAssigned, SmpTypeOK
<1>7. StatusTells'
  BY <1>0 DEF StatusTells, SmpTypeOK, IdsAssigned
<1>8. CountRight'
  BY <1>0 DEF CountRight, SmpTypeOK, Numbered
<1> QED
  BY <1>1, <1>2, <1>3, <1>4, <1>5, <1>6, <1>7, <1>8

\* A CPU past the status changes nothing of that by going on, or by a fault.
LEMMA LaterKeeps ==
    ASSUME BootInv, UNCHANGED <<bootVars, pcpuVars>>,
           NEW c \in CPU, NEW to, pc[c] \in BootedPc,
           pc' = [pc EXCEPT ![c] = to],
           c = 0 => to \in ArrivedPc \ {"wait_virt"},
           c # 0 => to \in (BootedPc \ {"virt"}) \cup {"gp_fault"}
    PROVE  BootInv'
<1> USE SmpAssumption DEF BootInv, bootVars, pcpuVars
<1>1. /\ pc'[c] = to /\ pc'[c] \in BootedPc \cup {"gp_fault"}
      /\ \A d \in CPU : d # c => pc'[d] = pc[d]
      /\ pc[0] \in StartPc => pc'[0] = pc[0]
      /\ pc'[0] \in StartPc => pc'[0] = pc[0]
  BY DEF SmpTypeOK, BspPlace
<1>2. SmpTypeOK'
  <2>1. CASE c = 0
    <3>1. to \in BspPlace
      BY <2>1 DEF BspPlace
    <3> QED
      BY <2>1, <3>1, BspMoves DEF SmpTypeOK
  <2>2. CASE c # 0
    <3>1. c \in AP /\ to \in ApPlace
      BY <2>2 DEF ApPlace
    <3> QED
      BY <2>2, <3>1, ApMoves DEF SmpTypeOK
  <2> QED
    BY <2>1, <2>2
<1>3. OneBoots' /\ PageSet' /\ OwnStack'
  BY <1>1 DEF OneBoots, PageSet, OwnStack, SmpTypeOK
<1>4. OffNotYet'
  BY <1>1 DEF OffNotYet, SmpTypeOK, BspPlace
<1>5. IdsAssigned'
  <2>1. \A d \in CPU : (pc'[d] = "count" <=> pc[d] = "count")
    BY <1>1
  <2>2. \A d \in AP :
           /\ pc'[d] \in {"off"} \cup NoIdPc => pcpu_id[d] = NoCpu
           /\ pc'[d] \in {"count", "status"} \cup BootedPc => pcpu_id[d] # NoCpu
           /\ pc'[d] \in {"entry", "load_fs", "ctor"} => percpu_virt[pcpu_counter] = d
    BY <1>1 DEF IdsAssigned
  <2>3. \/ pcpu_counter <= i
        \/ /\ pcpu_counter = i + 1 /\ pc'[0] = "wait"
           /\ pc'[i] \in {"status", "gp_fault"} \cup BootedPc
    BY <1>1 DEF IdsAssigned, OffNotYet, SmpTypeOK
  <2> QED
    BY <2>1, <2>2, <2>3 DEF IdsAssigned
<1>6. StatusTells'
  BY <1>1 DEF StatusTells, SmpTypeOK, OffNotYet, IdsAssigned
<1>7. CountRight'
  BY <1>1 DEF CountRight, Numbered
<1> QED
  BY <1>2, <1>3, <1>4, <1>5, <1>6, <1>7

-----------------------------------------------------------------------------
(* The synchronization                                                     *)

\* The CPUs that wait are CPUs that have come up.
LEMMA WaitingFinite ==
    /\ IsFiniteSet(Waiting) /\ Cardinality(Waiting) \in Nat
    /\ IsFiniteSet(0 .. N) /\ IsFiniteSet(1 .. N) /\ Cardinality(1 .. N) = N
<1>1. /\ IsFiniteSet(0 .. N) /\ IsFiniteSet(1 .. N) /\ Cardinality(1 .. N) = N
  BY SmpAssumption, FS_Interval
<1>2. Waiting \subseteq 0 .. N
  BY DEF Waiting
<1> QED
  BY <1>1, <1>2, FS_Subset, FS_CardinalityType

\* Steps of CPUs that have not stopped to wait.
LEMMA BeforeKeepsSync ==
    ASSUME BootInv, SyncInv, mtrr_sync' = mtrr_sync,
           \A d \in CPU : \/ pc'[d] = pc[d]
                          \/ pc[d] \notin ArrivedPc /\ pc'[d] \notin ArrivedPc,
           pcpu_id' = pcpu_id \/ pc[0] \notin ArrivedPc
    PROVE  SyncInv'
<1>1. Waiting' = Waiting
  BY DEF Waiting
<1>2. pcpu_id[0] # NoCpu /\ 0 \in CPU
  BY SmpAssumption DEF BootInv, IdsAssigned
<1>3. ASSUME \E c \in CPU : pc'[c] \in {"mtrr"} \cup UpdatedPc
      PROVE  /\ \E c \in CPU : pc[c] \in {"mtrr"} \cup UpdatedPc
             /\ pcpu_id' = pcpu_id
             /\ \A d \in CPU : pcpu_id[d] # NoCpu => pc'[d] = pc[d]
  <2>1. PICK c \in CPU : pc'[c] \in {"mtrr"} \cup UpdatedPc
    BY <1>3
  <2>2. pc[c] \in {"mtrr"} \cup UpdatedPc
    BY <2>1
  <2>3. \A d \in CPU : pcpu_id[d] # NoCpu => pc[d] \in ArrivedPc
    BY <2>2 DEF SyncInv
  <2> QED
    BY <2>2, <2>3, <1>2
<1>4. (\E c \in CPU : pc'[c] \in {"mtrr"} \cup UpdatedPc) =>
          \A d \in CPU : pcpu_id'[d] # NoCpu => pc'[d] \in ArrivedPc
  BY <1>3 DEF SyncInv
<1>5. (\E c \in CPU : pc'[c] \in PastPc) =>
          \A d \in CPU : pcpu_id'[d] # NoCpu => pc'[d] \in UpdatedPc
  BY <1>3 DEF SyncInv
<1> QED
  BY <1>1, <1>4, <1>5 DEF SyncInv

\* The wait for mtrr_sync = g_cpus ends only when all CPUs that came up have
\* stopped: before acpi_sec_init is over the BSP is missing, after it g_cpus
\* is their number.
LEMMA AllWaiting ==
    ASSUME BootInv, SyncInv, mtrr_sync = g_cpus
    PROVE  \A d \in CPU : pcpu_id[d] # NoCpu => d \in Waiting
<1> USE SmpAssumption DEF BootInv
<1>1. Cardinality(Waiting) = g_cpus
  BY DEF SyncInv
<1>2. ASSUME pc[0] \in StartPc PROVE FALSE
  <2>1. Waiting \subseteq 1 .. N
    BY <1>2 DEF Waiting
  <2>2. Cardinality(Waiting) <= N
    BY <2>1, WaitingFinite, FS_Subset
  <2> QED
    BY <1>1, <1>2, <2>2 DEF CountRight
<1>3. i = N + 1 /\ g_cpus + count = N + 1
  BY <1>2 DEF OffNotYet, CountRight
<1>4. \A d \in CPU : pcpu_id[d] # NoCpu => d \in Online
  BY DEF OffNotYet, IdsAssigned, Online
<1>5. Numbered = {d \in CPU : pcpu_id[d] # NoCpu}
  BY <1>3, <1>4 DEF Numbered, Online
<1>6. Waiting \subseteq Numbered
  BY <1>5 DEF Waiting, IdsAssigned
<1>7. Cardinality(Numbered) = g_cpus
  BY <1>3, NumberedFinite DEF CountRight, SmpTypeOK
<1>8. Waiting = Numbered
  BY <1>1, <1>6, <1>7, NumberedFinite, FS_Subset
<1> QED
  BY <1>5, <1>8

\* mtrr_sync follows the CPUs that stop, and no CPU stops after one went on.
LEMMA ArriveKeeps ==
    ASSUME SmpInv, NEW c \in CPU, sync_arrive(c)
    PROVE  SmpInv'
<1> USE SmpAssumption DEF SmpInv
<1>1. /\ pc[c] = "sync" /\ pc' = [pc EXCEPT ![c] = "wait_all"]
      /\ pcpu_id' = pcpu_id /\ mtrr_sync' = mtrr_sync + 1
  BY DEF sync_arrive, Goto, pcpuVars
<1>2. BootInv'
  BY <1>1, LaterKeeps DEF sync_arrive
<1>3. pc'[c] = "wait_all" /\ \A d \in CPU : d # c => pc'[d] = pc[d]
  BY <1>1 DEF BootInv, SmpTypeOK
<1>4. Waiting' = Waiting \cup {c} /\ c \notin Waiting
  BY <1>1, <1>3 DEF Waiting
<1>5. mtrr_sync' = Cardinality(Waiting')
  BY <1>1, <1>4, WaitingFinite, FS_AddElement DEF SyncInv
<1>6. pcpu_id[c] # NoCpu
  BY <1>1 DEF BootInv, IdsAssigned
<1> QED
  BY <1>1, <1>2, <1>3, <1>5, <1>6 DEF SyncInv

\* A CPU goes on to mtrr_config when all have stopped.
LEMMA AllKeeps ==
    ASSUME SmpInv, NEW c \in CPU, sync_all(c)
    PROVE  SmpInv'
<1> USE SmpAssumption DEF SmpInv
<1>1. /\ pc[c] = "wait_all" /\ pc' = [pc EXCEPT ![c] = "mtrr"]
      /\ pcpu_id' = pcpu_id /\ mtrr_sync' = mtrr_sync /\ mtrr_sync = g_cpus
  BY DEF sync_all, Goto, pcpuVars, syncVars
<1>2. BootInv'
  BY <1>1, LaterKeeps DEF sync_all
<1>3. pc'[c] = "mtrr" /\ \A d \in CPU : d # c => pc'[d] = pc[d]
  BY <1>1 DEF BootInv, SmpTypeOK
<1>4. Waiting' = Waiting
  BY <1>1, <1>3 DEF Waiting
<1>5. \A d \in CPU : pcpu_id[d] # NoCpu => pc'[d] \in {"wait_all", "mtrr"}
  BY <1>1, <1>3, AllWaiting DEF Waiting
<1>6. \A d \in CPU : pc[d] \in PastPc => FALSE
  <2> SUFFICES ASSUME NEW d \in CPU, pc[d] \in PastPc PROVE FALSE
    OBVIOUS
  <2>1. \A e \in CPU : pcpu_id[e] # NoCpu => pc[e] \in UpdatedPc
    BY DEF SyncInv
  <2>2. 0 \in CPU /\ pcpu_id[0] # NoCpu
    BY DEF BootInv, IdsAssigned
  <2>3. pc[0] \in {"wait_all", "mtrr"}
    BY <1>1, <2>2, AllWaiting DEF Waiting
  <2> QED
    BY <2>1, <2>2, <2>3
<1> QED
  BY <1>1, <1>2, <1>3, <1>4, <1>5, <1>6 DEF SyncInv

\* A CPU that has run mtrr_config is no longer counted.
LEMMA UpdateKeeps ==
    ASSUME SmpInv, NEW c \in CPU, sync_update(c)
    PROVE  SmpInv'
<1> USE SmpAssumption DEF SmpInv
<1>1. /\ pc[c] = "mtrr" /\ pc' = [pc EXCEPT ![c] = "wait_zero"]
      /\ pcpu_id' = pcpu_id /\ mtrr_sync' = mtrr_sync - 1
  BY DEF sync_update, Goto, pcpuVars
<1>2. BootInv'
  BY <1>1, LaterKeeps DEF sync_update
<1>3. pc'[c] = "wait_zero" /\ \A d \in CPU : d # c => pc'[d] = pc[d]
  BY <1>1 DEF BootInv, SmpTypeOK
<1>4. Waiting' = Waiting \ {c} /\ c \in Waiting
  BY <1>1, <1>3 DEF Waiting
<1>5. mtrr_sync' = Cardinality(Waiting')
  BY <1>1, <1>4, WaitingFinite, FS_RemoveElement DEF SyncInv
<1> QED
  BY <1>1, <1>2, <1>3, <1>5 DEF SyncInv

\* A CPU leaves when mtrr_sync is 0: all have stopped, none has not updated.
LEMMA LeaveKeeps ==
    ASSUME SmpInv, NEW c \in CPU, sync_leave(c)
    PROVE  SmpInv' /\ \A d \in CPU : pcpu_id[d] # NoCpu => pc[d] \in UpdatedPc
<1> USE SmpAssumption DEF SmpInv
<1> DEFINE to == IF c = BSP THEN "virt" ELSE "wait_virt"
<1>1. /\ pc[c] = "wait_zero" /\ pc' = [pc EXCEPT ![c] = to]
      /\ pcpu_id' = pcpu_id /\ mtrr_sync' = mtrr_sync /\ mtrr_sync = 0
      /\ to \in PastPc
  BY DEF sync_leave, Goto, pcpuVars, syncVars
<1>2. BootInv'
  BY <1>1, LaterKeeps DEF sync_leave
<1> HIDE DEF to
<1>3. pc'[c] = to /\ \A d \in CPU : d # c => pc'[d] = pc[d]
  BY <1>1 DEF BootInv, SmpTypeOK
<1>4. Waiting' = Waiting
  BY <1>1, <1>3 DEF Waiting
<1>5. Waiting = {}
  BY <1>1, WaitingFinite, FS_EmptySet DEF SyncInv
<1>6. \A d \in CPU : pcpu_id[d] # NoCpu => pc[d] \in UpdatedPc
  BY <1>1, <1>5 DEF SyncInv, Waiting
<1> QED
  BY <1>1, <1>2, <1>3, <1>4, <1>6 DEF SyncInv

\* The start of the virtual machines comes after the synchronization.
LEMMA RunKeeps ==
    ASSUME SmpInv, NEW c \in CPU, pc[c] \in {"virt", "wait_virt"},
           pc' = [pc EXCEPT ![c] = "run"],
           UNCHANGED <<bootVars, pcpuVars, mtrr_sync>>
    PROVE  SmpInv'
<1> USE SmpAssumption DEF SmpInv
<1>1. BootInv'
  BY LaterKeeps
<1>2. pc'[c] = "run" /\ \A d \in CPU : d # c => pc'[d] = pc[d]
  BY DEF BootInv, SmpTypeOK
<1>3. Waiting' = Waiting
  BY <1>2 DEF Waiting
<1> QED
  BY <1>1, <1>2, <1>3 DEF SyncInv, pcpuVars

-----------------------------------------------------------------------------
(* The invariant                                                           *)

LEMMA InitSmpInv == Init => SmpInv
<1> SUFFICES ASSUME Init PROVE SmpInv
  OBVIOUS
<1> USE SmpAssumption DEF Init
<1>1. SmpTypeOK
  BY DEF SmpTypeOK, BspPlace, ApPlace
<1>2. OneBoots /\ OffNotYet /\ PageSet /\ OwnStack /\ IdsAssigned /\ StatusTells
  BY DEF OneBoots, OffNotYet, PageSet, OwnStack, IdsAssigned, StatusTells
<1>3. CountRight
  <2>1. Numbered = {0}
    BY DEF Numbered, Online
  <2>2. Cardinality(Numbered) = 1
    BY <2>1, FS_Singleton
  <2> QED
    BY <2>2 DEF CountRight
<1>4. SyncInv
  <2>1. Waiting = {}
    BY DEF Waiting
  <2> QED
    BY <2>1, FS_EmptySet DEF SyncInv
<1> QED
  BY <1>1, <1>2, <1>3, <1>4 DEF SmpInv, BootInv

\* The steps of the BSP and of a booting AP are those of CPUs that have not
\* stopped, and they keep BootInv by the lemmas above.
LEMMA BspStartKeeps ==
    ASSUME ~Late, SmpInv,
           \/ stack_fails \/ reset_status \/ set_stack \/ send_ipi
           \/ ap_started \/ ap_timeout \/ drop_failed \/ unmap_identity
    PROVE  SmpInv'
<1> USE SmpAssumption DEF SmpInv
<1>1. BootInv'
  BY StackFailsKeeps, ResetKeeps, SetStackKeeps, SendIpiKeeps, ApStartedKeeps,
     ApTimeoutKeeps, DropKeeps, UnmapKeeps
<1>2. mtrr_sync' = mtrr_sync /\ pcpu_id' = pcpu_id
  BY DEF stack_fails, reset_status, set_stack, send_ipi, ap_started, ap_timeout,
         drop_failed, unmap_identity, syncVars, pcpuVars
<1>3. \A d \in CPU : \/ pc'[d] = pc[d]
                     \/ pc[d] \notin ArrivedPc /\ pc'[d] \notin ArrivedPc
  <2>1. CASE send_ipi
    <3>1. i \in AP /\ pc[0] = "ipi" /\ pc[i] = "off"
      BY <2>1 DEF send_ipi, BootInv, OffNotYet, SmpTypeOK
    <3>2. /\ pc'[0] = "wait" /\ pc'[i] \in {"off", "trampoline"}
          /\ \A d \in CPU : d # 0 /\ d # i => pc'[d] = pc[d]
      BY <2>1, <3>1 DEF send_ipi, BootInv, SmpTypeOK
    <3> QED
      BY <3>1, <3>2
  <2>2. CASE ~send_ipi
    BY <2>2
    DEF stack_fails, reset_status, set_stack, ap_started, ap_timeout,
        drop_failed, unmap_identity, Goto, BootInv, SmpTypeOK
  <2> QED
    BY <2>1, <2>2
<1> QED
  BY <1>1, <1>2, <1>3, BeforeKeepsSync

LEMMA ApBootKeeps ==
    ASSUME SmpInv, NEW c \in AP,
           \/ load_stack(c) \/ find_entry(c) \/ percpu_fails(c)
           \/ publish_area(c) \/ write_entry(c) \/ load_fs(c) \/ read_counter(c)
           \/ write_counter(c) \/ set_status(c)
    PROVE  SmpInv'
<1> USE SmpAssumption DEF SmpInv
<1>1. BootInv'
  BY LoadStackKeeps, FindEntryKeeps, PercpuFailsKeeps, PublishKeeps,
     WriteEntryKeeps, LoadFsKeeps, ReadCounterKeeps, WriteCounterKeeps, SetStatusKeeps
<1>2. pc[c] \in BootingPc /\ mtrr_sync' = mtrr_sync
  BY DEF load_stack, find_entry, percpu_fails, publish_area, write_entry,
         load_fs,
         read_counter, write_counter, set_status, Goto, syncVars
<1>3. pc[0] \notin ArrivedPc
  BY <1>2 DEF BootInv, OneBoots
<1>4. \E to \in BootingPc \cup {"tss", "gp_fault", "pg_fault", "panic"} :
         pc' = [pc EXCEPT ![c] = to]
  BY DEF load_stack, find_entry, percpu_fails, publish_area, write_entry,
         load_fs,
         read_counter, write_counter, set_status, Goto
<1>5. \A d \in CPU : \/ pc'[d] = pc[d]
                     \/ pc[d] \notin ArrivedPc /\ pc'[d] \notin ArrivedPc
  BY <1>2, <1>4 DEF BootInv, SmpTypeOK
<1> QED
  BY <1>1, <1>2, <1>3, <1>5, BeforeKeepsSync

LEMMA TssKeeps ==
    ASSUME SmpInv, NEW c \in AP,
           find_tss(c) \/ write_tss_low(c) \/ write_tss_high(c) \/ load_tr(c)
    PROVE  SmpInv'
<1> USE SmpAssumption DEF SmpInv
<1>1. /\ pc[c] \in {"tss", "tss_low", "tss_high", "load_tr"}
      /\ UNCHANGED <<bootVars, pcpuVars>> /\ mtrr_sync' = mtrr_sync
  BY DEF find_tss, write_tss_low, write_tss_high, load_tr, Goto, syncVars
<1>2. PICK to \in {"tss_low", "tss_high", "load_tr", "sync", "gp_fault"} :
         pc' = [pc EXCEPT ![c] = to]
  BY DEF find_tss, write_tss_low, write_tss_high, load_tr, Goto
<1>3. BootInv'
  <2>1. /\ c \in CPU /\ c # 0 /\ pc[c] \in BootedPc
        /\ to \in (BootedPc \ {"virt"}) \cup {"gp_fault"}
    BY <1>1
  <2> QED
    BY <1>1, <1>2, <2>1, LaterKeeps
<1>4. \A d \in CPU : \/ pc'[d] = pc[d]
                     \/ pc[d] \notin ArrivedPc /\ pc'[d] \notin ArrivedPc
  BY <1>1, <1>2 DEF BootInv, SmpTypeOK
<1>5. pcpu_id' = pcpu_id
  BY <1>1 DEF pcpuVars
<1> QED
  BY <1>1, <1>3, <1>4, <1>5, BeforeKeepsSync

\* Every step keeps the invariant, if no AP is late.
LEMMA NextSmpInv ==
    ASSUME ~Late
    PROVE  SmpInv /\ [Next]_vars => SmpInv'
<1> SUFFICES ASSUME SmpInv, [Next]_vars PROVE SmpInv'
  OBVIOUS
<1>1. CASE BspStep
  <2>1. CASE start_virt
    <3>1. /\ 0 \in CPU /\ pc[0] \in {"virt", "wait_virt"}
          /\ pc' = [pc EXCEPT ![0] = "run"]
          /\ UNCHANGED <<bootVars, pcpuVars, mtrr_sync>>
      BY <2>1, SmpAssumption DEF start_virt, Goto
    <3> QED
      BY <3>1, RunKeeps
  <2> QED
    BY <1>1, <2>1, BspStartKeeps DEF BspStep
<1>2. ASSUME NEW c \in AP, ApStep(c) PROVE SmpInv'
  <2>1. CASE see_virt_start(c)
    <3>1. /\ c \in CPU /\ pc[c] \in {"virt", "wait_virt"}
          /\ pc' = [pc EXCEPT ![c] = "run"]
          /\ UNCHANGED <<bootVars, pcpuVars, mtrr_sync>>
      BY <2>1 DEF see_virt_start, Goto, syncVars
    <3> QED
      BY <3>1, RunKeeps
  <2> QED
    BY <1>2, <2>1, ApBootKeeps, TssKeeps DEF ApStep
<1>3. ASSUME NEW c \in CPU, SyncStep(c) PROVE SmpInv'
  BY <1>3, ArriveKeeps, AllKeeps, UpdateKeeps, LeaveKeeps DEF SyncStep
<1>4. CASE UNCHANGED vars
  <2>1. UNCHANGED <<pc, i, count, g_cpus, boot_status, boot_stack, stack,
                    identity, pcpu_counter, pcpu_id, percpu_virt, mtrr_sync>>
    BY <1>4 DEF vars, bootVars, pcpuVars, syncVars
  <2>2. BootInv'
    BY <2>1
    DEF SmpInv, BootInv, SmpTypeOK, OneBoots, OffNotYet, PageSet, OwnStack,
        IdsAssigned, StatusTells, CountRight, Numbered
  <2>3. SyncInv'
    BY <2>1 DEF SmpInv, SyncInv, Waiting
  <2> QED
    BY <2>2, <2>3 DEF SmpInv
<1> QED
  BY <1>1, <1>2, <1>3, <1>4 DEF Next

-----------------------------------------------------------------------------
\* No two CPUs run on one stack, if no AP is late.
THEOREM SmpStacksApart ==
    ASSUME ~Late
    PROVE  Spec => []StacksApart
<1>1. SmpInv => StacksApart
  BY SmpAssumption DEF SmpInv, BootInv, OwnStack, StacksApart
<1> QED
  BY <1>1, InitSmpInv, NextSmpInv, PTL DEF Spec

\* Every CPU that has a pcpu_id finds its own area under it, although the
\* counter is read three times and incremented without a lock.
THEOREM SmpOwnPercpuArea ==
    ASSUME ~Late
    PROVE  Spec => []OwnPercpuArea
<1>1. SmpInv => OwnPercpuArea
  BY DEF SmpInv, BootInv, IdsAssigned, OwnPercpuArea
<1> QED
  BY <1>1, InitSmpInv, NextSmpInv, PTL DEF Spec

\* g_cpus is the number of CPUs that came up: those that did not start, faulted
\* or panicked before they had a pcpu_id have been subtracted, no other.
THEOREM SmpCountsOnline ==
    ASSUME ~Late
    PROVE  Spec => []CountsOnline
<1>1. SmpInv => CountsOnline
  <2> SUFFICES ASSUME SmpInv PROVE CountsOnline
    OBVIOUS
  <2>1. ASSUME pc[0] \notin StartPc
        PROVE  g_cpus = Cardinality({c \in Online : pcpu_id[c] # NoCpu})
    <3>1. i = N + 1 /\ g_cpus + count = N + 1
      BY <2>1 DEF SmpInv, BootInv, OffNotYet, CountRight
    <3>2. Numbered = {c \in Online : pcpu_id[c] # NoCpu}
      BY <3>1, SmpAssumption DEF Numbered, Online
    <3> QED
      BY <3>1, <3>2, NumberedFinite DEF SmpInv, BootInv, CountRight, SmpTypeOK
  <2> QED
    BY <2>1 DEF CountsOnline
<1> QED
  BY <1>1, InitSmpInv, NextSmpInv, PTL DEF Spec

\* No AP touches the first 2MB after kernel_main has removed the identity
\* mapping, if no AP is late: those that are on their way to the status are
\* waited for.
THEOREM SmpIdentityNotMissed ==
    ASSUME ~Late
    PROVE  Spec => []IdentityNotMissed
<1>1. SmpInv => IdentityNotMissed
  BY SmpAssumption
  DEF SmpInv, BootInv, SmpTypeOK, BspPlace, ApPlace, IdentityNotMissed
<1> QED
  BY <1>1, InitSmpInv, NextSmpInv, PTL DEF Spec

-----------------------------------------------------------------------------
(* The synchronization implements the rendezvous                           *)

\* The stage of every CPU that runs, as Rendezvous sees it.
OnlineStage == [c \in Online |-> Stage(c)]

FaultPc == {"gp_fault", "pg_fault", "panic"}

LEMMA StageOf ==
    ASSUME NEW c \in CPU
    PROVE  /\ pc[c] \in {"wait_all", "mtrr"} => Stage(c) = "waiting"
           /\ pc[c] = "wait_zero" => Stage(c) = "updated"
           /\ pc[c] \in PastPc => Stage(c) = "past"
           /\ pc[c] \in FaultPc => Stage(c) = "failed"
           /\ pc[c] \notin ArrivedPc \cup FaultPc => Stage(c) = "before"
           /\ pc'[c] \in {"wait_all", "mtrr"} => Stage(c)' = "waiting"
           /\ pc'[c] = "wait_zero" => Stage(c)' = "updated"
           /\ pc'[c] \in PastPc => Stage(c)' = "past"
           /\ pc'[c] \in FaultPc => Stage(c)' = "failed"
           /\ pc'[c] \notin ArrivedPc \cup FaultPc => Stage(c)' = "before"
           /\ pc'[c] = pc[c] => Stage(c)' = Stage(c)
BY DEF Stage, FaultPc

\* A step that moves one CPU is a step of that CPU's stage.
LEMMA StageMoves ==
    ASSUME NEW c \in Online, \A d \in CPU : d # c => pc'[d] = pc[d]
    PROVE  OnlineStage' = [OnlineStage EXCEPT ![c] = Stage(c)']
<1>1. \A d \in Online : d # c => Stage(d)' = Stage(d)
  BY StageOf DEF Online
<1> QED
  BY <1>1 DEF OnlineStage, Online

LEMMA StageStays ==
    ASSUME \A d \in CPU : Stage(d)' = Stage(d)
    PROVE  OnlineStage' = OnlineStage
BY DEF OnlineStage, Online

\* The steps before the synchronization: a CPU stays "before" it or fails.
LEMMA StackFailsStage ==
    ASSUME SmpInv, stack_fails
    PROVE  BSP \in Online /\ Meeting!Fail(BSP)
<1> USE SmpAssumption
<1>1. 0 \in CPU /\ 0 \in Online
  BY DEF Online
<1>2. pc[0] = "reset" /\ pc'[0] = "panic" /\ \A d \in CPU : d # 0 => pc'[d] = pc[d]
  BY <1>1 DEF stack_fails, Goto, SmpInv, BootInv, SmpTypeOK
<1>3. Stage(0) = "before" /\ Stage(0)' = "failed"
  BY <1>1, <1>2, StageOf DEF FaultPc
<1>4. OnlineStage' = [OnlineStage EXCEPT ![0] = "failed"]
  BY <1>1, <1>2, <1>3, StageMoves
<1>5. OnlineStage[0] = "before"
  BY <1>1, <1>3 DEF OnlineStage
<1> QED
  BY <1>1, <1>4, <1>5 DEF Meeting!Fail, OnlineStage

LEMMA BspStartStage ==
    ASSUME SmpInv,
           \/ reset_status \/ set_stack \/ send_ipi \/ ap_started \/ ap_timeout
           \/ drop_failed \/ unmap_identity
    PROVE  OnlineStage' = OnlineStage
<1> USE SmpAssumption DEF SmpInv, BootInv
<1>1. \A d \in CPU : \/ pc'[d] = pc[d]
                     \/ /\ pc[d] \notin ArrivedPc \cup FaultPc
                        /\ pc'[d] \notin ArrivedPc \cup FaultPc
  <2>1. CASE send_ipi
    <3>1. i \in AP /\ pc[0] = "ipi" /\ pc[i] = "off"
      BY <2>1 DEF send_ipi, OffNotYet, SmpTypeOK
    <3>2. /\ pc'[0] = "wait" /\ pc'[i] \in {"off", "trampoline"}
          /\ \A d \in CPU : d # 0 /\ d # i => pc'[d] = pc[d]
      BY <2>1, <3>1 DEF send_ipi, SmpTypeOK
    <3> QED
      BY <3>1, <3>2 DEF FaultPc
  <2>2. CASE ~send_ipi
    BY <2>2
    DEF reset_status, set_stack, ap_started, ap_timeout, drop_failed,
        unmap_identity, Goto, SmpTypeOK, FaultPc
  <2> QED
    BY <2>1, <2>2
<1>2. \A d \in CPU : Stage(d)' = Stage(d)
  BY <1>1, StageOf
<1> QED
  BY <1>2, StageStays

LEMMA ApBootStage ==
    ASSUME SmpInv, NEW c \in AP, ApStep(c), ~see_virt_start(c)
    PROVE  OnlineStage' = OnlineStage \/ (c \in Online /\ Meeting!Fail(c))
<1> USE SmpAssumption DEF SmpInv, BootInv
<1> DEFINE Before == BootingPc \cup {"tss", "tss_low", "tss_high", "load_tr", "sync"}
<1>1. pc[c] \in Before /\ pc[c] # "off"
  BY DEF ApStep, load_stack, find_entry, percpu_fails, publish_area,
         write_entry, load_fs,
         read_counter, write_counter, set_status, find_tss, write_tss_low,
         write_tss_high, load_tr, Goto
<1>2. PICK to \in Before \cup FaultPc : pc' = [pc EXCEPT ![c] = to]
  BY DEF ApStep, load_stack, find_entry, percpu_fails, publish_area,
         write_entry, load_fs,
         read_counter, write_counter, set_status, find_tss, write_tss_low,
         write_tss_high, load_tr, Goto, FaultPc
<1>3. c \in CPU /\ c \in Online /\ Stage(c) = "before"
  BY <1>1, StageOf DEF OffNotYet, Online, FaultPc
<1>4. pc'[c] = to /\ \A d \in CPU : d # c => pc'[d] = pc[d]
  BY <1>2 DEF SmpTypeOK
<1>5. CASE to \in FaultPc
  <2>1. OnlineStage' = [OnlineStage EXCEPT ![c] = "failed"]
    BY <1>3, <1>4, <1>5, StageMoves, StageOf
  <2>2. OnlineStage[c] = "before"
    BY <1>3 DEF OnlineStage
  <2> QED
    BY <1>3, <2>1, <2>2 DEF Meeting!Fail, OnlineStage
<1>6. CASE to \in Before
  <2>1. Stage(c)' = "before"
    BY <1>3, <1>4, <1>6, StageOf DEF FaultPc
  <2>2. \A d \in CPU : Stage(d)' = Stage(d)
    BY <2>1, <1>3, <1>4, StageOf
  <2> QED
    BY <2>2, StageStays
<1> QED
  BY <1>5, <1>6

\* A CPU that has not started is not in the synchronization.
LEMMA SyncedIsOnline ==
    ASSUME SmpInv, NEW c \in CPU, pc[c] # "off" PROVE c \in Online
BY SmpAssumption DEF SmpInv, BootInv, OffNotYet, Online

\* A CPU that runs and has no pcpu_id after the start of the APs has failed.
LEMMA UnnumberedFailed ==
    ASSUME SmpInv, pc[0] \in ArrivedPc, NEW c \in Online, pcpu_id[c] = NoCpu
    PROVE  Stage(c) = "failed"
<1> USE SmpAssumption DEF SmpInv, BootInv
<1>1. c \in AP
  BY DEF Online, IdsAssigned
<1>2. i = N + 1
  BY DEF OffNotYet
<1>3. pc[c] # "off" /\ pc[c] \notin BootingPc
  BY <1>1, <1>2 DEF OffNotYet, OneBoots, Online
<1>4. pc[c] \notin BootedPc
  BY <1>1 DEF IdsAssigned
<1>5. pc[c] \in {"gp_fault", "panic"}
  BY <1>1, <1>3, <1>4 DEF SmpTypeOK, ApPlace
<1> QED
  BY <1>1, <1>5, StageOf DEF FaultPc

\* The steps of the synchronization.
LEMMA SyncStage ==
    ASSUME SmpInv, NEW c \in CPU, SyncStep(c)
    PROVE  \/ OnlineStage' = OnlineStage
           \/ c \in Online /\ (Meeting!Arrive(c) \/ Meeting!Update(c) \/ Meeting!Leave(c))
<1> USE SmpAssumption
<1>1. pc[c] \in {"sync", "wait_all", "mtrr", "wait_zero"}
  BY DEF SyncStep, sync_arrive, sync_all, sync_update, sync_leave, Goto
<1>2. c \in Online
  BY <1>1, SyncedIsOnline
<1>3. \E to : pc' = [pc EXCEPT ![c] = to]
  BY DEF SyncStep, sync_arrive, sync_all, sync_update, sync_leave, Goto
<1>4. \A d \in CPU : d # c => pc'[d] = pc[d]
  BY <1>3 DEF SmpInv, BootInv, SmpTypeOK
<1>5. OnlineStage' = [OnlineStage EXCEPT ![c] = Stage(c)']
  BY <1>2, <1>4, StageMoves
<1>6. OnlineStage[c] = Stage(c) /\ \A d \in Online : OnlineStage[d] = Stage(d)
  BY <1>2 DEF OnlineStage
<1>7. CASE sync_arrive(c)
  <2>1. Stage(c) = "before" /\ Stage(c)' = "waiting"
    BY <1>7, StageOf DEF sync_arrive, Goto, SmpInv, BootInv, SmpTypeOK, FaultPc
  <2> QED
    BY <2>1, <1>2, <1>5, <1>6 DEF Meeting!Arrive, OnlineStage
<1>8. CASE sync_all(c)
  <2>1. Stage(c) = "waiting" /\ Stage(c)' = "waiting"
    BY <1>8, StageOf DEF sync_all, Goto, SmpInv, BootInv, SmpTypeOK
  <2>2. \A d \in CPU : Stage(d)' = Stage(d)
    BY <2>1, <1>4, StageOf
  <2> QED
    BY <2>2, StageStays
<1>9. CASE sync_update(c)
  <2>1. Stage(c) = "waiting" /\ Stage(c)' = "updated" /\ pc[c] = "mtrr"
    BY <1>9, StageOf DEF sync_update, Goto, SmpInv, BootInv, SmpTypeOK
  <2>2. \A d \in CPU : pcpu_id[d] # NoCpu => pc[d] \in ArrivedPc
    BY <2>1 DEF SmpInv, SyncInv
  <2>3. 0 \in CPU /\ pc[0] \in ArrivedPc
    BY <2>2 DEF SmpInv, BootInv, IdsAssigned
  <2>4. \A d \in Online : Stage(d) # "before"
    <3> SUFFICES ASSUME NEW d \in Online PROVE Stage(d) # "before"
      OBVIOUS
    <3>1. d \in CPU
      BY DEF Online
    <3>2. CASE pcpu_id[d] = NoCpu
      BY <2>3, <3>2, UnnumberedFailed
    <3>3. CASE pcpu_id[d] # NoCpu
      BY <2>2, <3>1, <3>3, StageOf
    <3> QED
      BY <3>2, <3>3
  <2> QED
    BY <2>1, <2>4, <1>2, <1>5, <1>6 DEF Meeting!Update, OnlineStage
<1>10. CASE sync_leave(c)
  <2>1. Stage(c) = "updated" /\ Stage(c)' = "past"
    BY <1>10, StageOf DEF sync_leave, Goto, SmpInv, BootInv, SmpTypeOK
  <2>2. \A d \in CPU : pcpu_id[d] # NoCpu => pc[d] \in UpdatedPc
    BY <1>10, LeaveKeeps
  <2>3. 0 \in CPU /\ pc[0] \in ArrivedPc
    BY <2>2 DEF SmpInv, BootInv, IdsAssigned
  <2>4. \A d \in Online : Stage(d) \in {"updated", "past", "failed"}
    <3> SUFFICES ASSUME NEW d \in Online
                 PROVE  Stage(d) \in {"updated", "past", "failed"}
      OBVIOUS
    <3>1. d \in CPU
      BY DEF Online
    <3>2. CASE pcpu_id[d] = NoCpu
      BY <2>3, <3>2, UnnumberedFailed
    <3>3. CASE pcpu_id[d] # NoCpu
      BY <2>2, <3>1, <3>3, StageOf
    <3> QED
      BY <3>2, <3>3
  <2> QED
    BY <2>1, <2>4, <1>2, <1>5, <1>6 DEF Meeting!Leave, OnlineStage
<1> QED
  BY <1>7, <1>8, <1>9, <1>10 DEF SyncStep

\* The code around mtrr_config is a rendezvous of the CPUs that came up, if no
\* AP is late: no CPU updates before all have stopped, none goes on before all
\* have updated.
THEOREM SmpMtrrRendezvous ==
    ASSUME ~Late
    PROVE  Spec => MtrrRendezvous
<1>1. Init => Meeting!Init
  BY SmpAssumption DEF Init, Meeting!Init, Stage, Online
<1>2. SmpInv /\ [Next]_vars => [Meeting!Next]_OnlineStage
  <2> SUFFICES ASSUME SmpInv, [Next]_vars, OnlineStage' # OnlineStage
               PROVE  Meeting!Next
    OBVIOUS
  <2>1. CASE BspStep
    <3>1. CASE stack_fails
      BY <3>1, StackFailsStage DEF Meeting!Next
    <3>2. CASE start_virt
      <4>1. pc[0] = "virt" /\ pc' = [pc EXCEPT ![0] = "run"]
        BY <3>2 DEF start_virt, Goto
      <4>2. pc'[0] = "run" /\ \A d \in CPU : d # 0 => pc'[d] = pc[d]
        BY <4>1, SmpAssumption DEF SmpInv, BootInv, SmpTypeOK
      <4>3. \A d \in CPU : Stage(d)' = Stage(d)
        BY <4>1, <4>2, StageOf
      <4> QED
        BY <4>3, StageStays
    <3> QED
      BY <2>1, <3>1, <3>2, BspStartStage DEF BspStep
  <2>2. ASSUME NEW c \in AP, ApStep(c) PROVE Meeting!Next
    <3>1. CASE see_virt_start(c)
      <4>1. pc[c] = "wait_virt" /\ pc' = [pc EXCEPT ![c] = "run"]
        BY <3>1 DEF see_virt_start, Goto
      <4>2. c \in CPU /\ pc'[c] = "run" /\ \A d \in CPU : d # c => pc'[d] = pc[d]
        BY <4>1 DEF SmpInv, BootInv, SmpTypeOK
      <4>3. \A d \in CPU : Stage(d)' = Stage(d)
        BY <4>1, <4>2, StageOf
      <4> QED
        BY <4>3, StageStays
    <3>2. CASE ~see_virt_start(c)
      BY <2>2, <3>2, ApBootStage DEF Meeting!Next
    <3> QED
      BY <3>1, <3>2
  <2>3. ASSUME NEW c \in CPU, SyncStep(c) PROVE Meeting!Next
    BY <2>3, SyncStage DEF Meeting!Next
  <2>4. CASE UNCHANGED vars
    BY <2>4 DEF vars, OnlineStage, Stage
  <2> QED
    BY <2>1, <2>2, <2>3, <2>4 DEF Next
<1> QED
  BY <1>1, <1>2, InitSmpInv, NextSmpInv, PTL
  DEF Spec, MtrrRendezvous, Meeting!Spec, OnlineStage
=============================================================================

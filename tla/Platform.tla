------------------------------ MODULE Platform ------------------------------
(***************************************************************************)
(* What kernel_main learns from the firmware and programs with it: the     *)
(* ACPI tables (kernel/acpi.c), the LAPIC of the BSP and the IOAPIC        *)
(* (arch/x86_64/interrupt/apic.c).  The BSP runs alone.  Tables are        *)
(* sequences; that they are mapped while they are read is module           *)
(* KernelMap's matter.  A redirection entry of the IOAPIC has a lower and  *)
(* an upper half, written one at a time.                                   *)
(***************************************************************************)
EXTENDS Integers, Sequences, FiniteSetsExt

CONSTANTS MAX_CPUS,             \* size of lapic_ids and lapic_phys_ids
          MAX_IRQ_OVERRIDES,    \* size of irq_map
          Firmwares             \* firmwares to boot on

ASSUME PlatformAssumption == MAX_CPUS \in Nat \ {0} /\ MAX_IRQ_OVERRIDES \in Nat

VARIABLES fw,           \* the member of Firmwares booted on
          parse,        \* how far the code is: pc, table k, structure e
          lapic_ids,    \* lapic_ids[1] ..: the CPUs to start
          trampoline,   \* ap_boot_start is at SMP_BOOT_ADDR
          phys_id,      \* lapic_phys_ids[0]
          irq_map,      \* the interrupt overrides
          ioapic,       \* num_ioapic, gsi_base and num_gsi
          redtbl,       \* the redirection table, pin by pin
          write         \* what ioapic_write64 writes: pin, lo, hi, and the
                        \* number of writes left

pvars == <<fw, parse, lapic_ids, trampoline, phys_id, irq_map, ioapic, redtbl, write>>

g_cpus == Len(lapic_ids) + 1

\* 0x10000 in the lower half; and what the firmware left in an open entry.
Masked == [masked |-> TRUE, vector |-> 0, low |-> FALSE, level |-> FALSE]
Bios   == [Masked EXCEPT !.masked = FALSE, !.vector = 8]

BiosEntry(pin) == [lo |-> IF pin \in fw.open THEN Bios ELSE Masked, hi |-> "bios"]

PlatformInit ==
    /\ fw \in Firmwares
    /\ parse = [pc |-> "rsdp", k |-> 1, e |-> 1]
    /\ lapic_ids = <<>>
    /\ trampoline = FALSE
    /\ phys_id = 0
    /\ irq_map = <<>>
    /\ ioapic = [num |-> 0, gsi_base |-> 0, num_gsi |-> 0]
    /\ redtbl = [pin \in 0 .. fw.pins - 1 |-> BiosEntry(pin)]
    /\ write = [pin |-> 0, lo |-> Masked, hi |-> "zero", left |-> 0]

Goto(pc) == parse' = [parse EXCEPT !.pc = pc]

acpiVars == <<lapic_ids, trampoline, irq_map>>
apicVars == <<phys_id, redtbl, write>>

-----------------------------------------------------------------------------
(* acpi_init: find and read the RSDP                                       *)

\* What acpi_parse_rsdp goes on with.
RsdpList(p) ==
    CASE ~p.sum1               -> "panic"
      [] p.sum1 /\ p.rev = 0   -> "rsdt"
      [] p.sum1 /\ p.rev = 2   -> IF ~p.sum2 THEN "panic"
                                  ELSE IF p.xsdt THEN "xsdt" ELSE "rsdt"
      [] OTHER                 -> "panic"

\* The boot loader's copy comes first, then the BIOS area 16 bytes at a time.
\* The first one with the signature decides: acpi_parse_rsdp returns true or
\* panics.
Candidates == fw.given \o fw.bios
Signed     == {j \in DOMAIN Candidates : Candidates[j].sig}

acpi_init ==
    /\ parse.pc = "rsdp"
    /\ Goto(IF Signed = {} THEN "panic" ELSE RsdpList(Candidates[Min(Signed)]))
    /\ UNCHANGED <<fw, ioapic, acpiVars, apicVars>>

-----------------------------------------------------------------------------
(* acpi_parse_rsdt and acpi_parse_xsdt: the tables one after the other     *)

SDT == IF parse.pc = "xsdt" THEN fw.xsdt ELSE fw.rsdt

AtTable == parse.pc \in {"rsdt", "xsdt"} /\ ~fw.long /\ parse.k <= Len(SDT)
Table   == SDT[parse.k]

NextTable == parse' = [parse EXCEPT !.k = parse.k + 1, !.e = 1]

\* RSDT is too large
sdt_too_large ==
    /\ parse.pc \in {"rsdt", "xsdt"} /\ fw.long
    /\ Goto("panic")
    /\ UNCHANGED <<fw, ioapic, acpiVars, apicVars>>

\* acpi_parse_dt: the structures of a MADT are read one by one; DMAR (its
\* call of iommu_init is commented out) and other tables change nothing.
Structures == IF Table.sig = "APIC" THEN Table.entries ELSE <<>>

\* the table is done
acpi_parse_dt ==
    /\ AtTable
    /\ parse.e > Len(Structures)
    /\ NextTable
    /\ UNCHANGED <<fw, ioapic, acpiVars, apicVars>>

\* END of acpi_init: the trampoline for the APs, if there are any.
acpi_end ==
    /\ parse.pc \in {"rsdt", "xsdt"} /\ ~fw.long /\ parse.k > Len(SDT)
    /\ trampoline' = (g_cpus > 1)
    /\ Goto("lapic")
    /\ UNCHANGED <<fw, ioapic, lapic_ids, irq_map, apicVars>>

-----------------------------------------------------------------------------
(* acpi_parse_apic: the structures of the MADT                             *)

AtEntry(type) ==
    /\ AtTable /\ parse.e <= Len(Structures)
    /\ Structures[parse.e].type = type

Entry == Structures[parse.e]

\* The next structure, or a panic once the count has passed the bound.
Count(n, bound) ==
    parse' = [parse EXCEPT !.e = parse.e + 1,
                           !.pc = IF n > bound THEN "panic" ELSE parse.pc]

\* Mutant of acpi_add_cpu: the BSP is not left out.
acpi_add_cpu_bsp ==
    /\ AtEntry("lapic")
    /\ IF Entry.enabled
       THEN /\ lapic_ids' = Append(lapic_ids, Entry.id)
            /\ Count(g_cpus + 1, MAX_CPUS)
       ELSE /\ parse' = [parse EXCEPT !.e = parse.e + 1]
            /\ UNCHANGED lapic_ids
    /\ UNCHANGED <<fw, ioapic, trampoline, irq_map, apicVars>>

\* cpu disabled; BSP, by lapic_phys_ids[0], which lapic_init has not filled
\* yet; any other.  The array is written before the bound is tested.
acpi_add_cpu ==
    /\ AtEntry("lapic")
    /\ IF Entry.enabled /\ Entry.id # phys_id
       THEN /\ lapic_ids' = Append(lapic_ids, Entry.id)
            /\ Count(g_cpus + 1, MAX_CPUS)
       ELSE /\ parse' = [parse EXCEPT !.e = parse.e + 1]
            /\ UNCHANGED lapic_ids
    /\ UNCHANGED <<fw, ioapic, trampoline, irq_map, apicVars>>

\* Multiple IOAPIC not supported
add_ioapic ==
    /\ AtEntry("ioapic")
    /\ ioapic' = [ioapic EXCEPT !.num = ioapic.num + 1, !.gsi_base = Entry.gsi_base]
    /\ Count(ioapic.num + 1, 1)
    /\ UNCHANGED <<fw, acpiVars, apicVars>>

\* Only bus 0 is supported
add_override ==
    /\ AtEntry("override")
    /\ IF Entry.bus # 0
       THEN Goto("panic") /\ UNCHANGED irq_map
       ELSE /\ irq_map' = Append(irq_map, [irq |-> Entry.irq, gsi |-> Entry.gsi,
                                           flags |-> Entry.flags])
            /\ Count(Len(irq_map) + 1, MAX_IRQ_OVERRIDES)
    /\ UNCHANGED <<fw, ioapic, lapic_ids, trampoline, apicVars>>

\* Unsupported APIC structure
skip_entry ==
    /\ AtEntry("other")
    /\ parse' = [parse EXCEPT !.e = parse.e + 1]
    /\ UNCHANGED <<fw, ioapic, acpiVars, apicVars>>

-----------------------------------------------------------------------------
(* lapic_init and ioapic_init                                              *)

\* vm_map_page_unrestricted: it may run out of frames, and the tables it
\* adds are not cleared: an entry that seems present makes it panic, or follow
\* an address that is no table.
IdentityMap(next) ==
    \E outcome \in {next, "panic", "fault"} : Goto(outcome)

\* The map of the LAPIC, the frequency of the TSC, the registers.  The ID
\* keeps 4 bits.
lapic_init ==
    /\ parse.pc = "lapic"
    /\ IdentityMap(IF fw.tsc THEN "ioapic" ELSE "panic")
    /\ phys_id' = IF parse'.pc = "ioapic" THEN fw.bsp % 16 ELSE phys_id
    /\ UNCHANGED <<fw, ioapic, acpiVars, redtbl, write>>

\* The map of the IOAPIC, the number of its pins.
ioapic_start ==
    /\ parse.pc = "ioapic"
    /\ IdentityMap("mask")
    /\ ioapic' = [ioapic EXCEPT !.num_gsi = fw.pins]
    /\ write' = [write EXCEPT !.left = 3]
    /\ UNCHANGED <<fw, acpiVars, phys_id, redtbl>>

\* Mutant of HalfWritten: the entry is not masked first.
HalfWritten_unmasked(entry) ==
    IF write.left = 2 THEN [entry EXCEPT !.hi = write.hi]
                      ELSE [entry EXCEPT !.lo = write.lo]

\* ioapic_write64: the mask bit, the upper half, the lower half.
HalfWritten(entry) ==
    CASE write.left = 3 -> [entry EXCEPT !.lo = Masked]
      [] write.left = 2 -> [entry EXCEPT !.hi = write.hi]
      [] write.left = 1 -> [entry EXCEPT !.lo = write.lo]

ioapic_write64 ==
    /\ parse.pc \in {"mask", "program"} /\ write.left > 0
    /\ redtbl' = [redtbl EXCEPT ![write.pin] = HalfWritten(redtbl[write.pin])]
    /\ write' = [write EXCEPT !.left = write.left - 1]
    /\ UNCHANGED <<fw, parse, ioapic, acpiVars, phys_id>>

\* The loop over the pins.
mask_next ==
    /\ parse.pc = "mask" /\ write.left = 0
    /\ write.pin + 1 < ioapic.num_gsi
    /\ write' = [write EXCEPT !.pin = write.pin + 1, !.left = 3]
    /\ UNCHANGED <<fw, parse, ioapic, acpiVars, phys_id, redtbl>>

PIT_IRQ    == 0
PIT_VECTOR == 32

\* The first override of the IRQ, or the identity.
acpi_irq_to_gsi(irq) ==
    LET found == {j \in DOMAIN irq_map : irq_map[j].irq = irq}
    IN  IF found = {} THEN [gsi |-> irq, flags |-> 0]
        ELSE [gsi |-> irq_map[Min(found)].gsi, flags |-> irq_map[Min(found)].flags]

\* flags & mask, for a mask of one bit
Bit(flags, mask) == (flags \div mask) % 2 = 1

\* ioapic_map_gsi of the PIT, broadcast.
ioapic_map_gsi ==
    /\ parse.pc = "mask" /\ write.left = 0
    /\ write.pin + 1 >= ioapic.num_gsi
    /\ LET r == acpi_irq_to_gsi(PIT_IRQ)
           p == r.gsi - ioapic.gsi_base
       IN  IF p < 0 \/ p >= ioapic.num_gsi
           THEN Goto("panic") /\ UNCHANGED write
           ELSE /\ Goto("program")
                /\ write' = [pin |-> p, hi |-> "all", left |-> 3,
                             lo |-> [masked |-> FALSE, vector |-> PIT_VECTOR,
                                     low |-> Bit(r.flags, 2), level |-> Bit(r.flags, 8)]]
    /\ UNCHANGED <<fw, ioapic, acpiVars, phys_id, redtbl>>

ioapic_done ==
    /\ parse.pc = "program" /\ write.left = 0
    /\ Goto("done")
    /\ UNCHANGED <<fw, ioapic, acpiVars, apicVars>>

PlatformNext ==
    \/ acpi_init \/ sdt_too_large \/ acpi_parse_dt \/ acpi_end
    \/ acpi_add_cpu \/ add_ioapic \/ add_override \/ skip_entry
    \/ lapic_init \/ ioapic_start \/ ioapic_write64 \/ mask_next
    \/ ioapic_map_gsi \/ ioapic_done

-----------------------------------------------------------------------------
(* Properties                                                              *)

\* The tables that the firmware means to be used: an XSDT takes the place of
\* the RSDT.
Tables ==
    LET p == Candidates[Min(Signed)]
    IN  IF p.rev = 2 /\ p.xsdt THEN fw.xsdt ELSE fw.rsdt

\* The structures of a type in their MADT.
Madt(type) ==
    UNION {{t.entries[j] : j \in {i \in DOMAIN t.entries : t.entries[i].type = type}} :
           t \in {Tables[k] : k \in {i \in DOMAIN Tables : Tables[i].sig = "APIC"}}}

Parsed == parse.pc \in {"lapic", "ioapic", "mask", "program", "done"}

\* acpi_init ends with every enabled CPU but the BSP in lapic_ids, once, if
\* the BSP's LAPIC ID is 0: acpi_add_cpu compares with an array that
\* lapic_init fills later.  Neither array is written past its end without a
\* panic.
ApsAreTheOthers ==
    /\ Parsed /\ fw.bsp = 0 =>
           /\ {lapic_ids[j] : j \in DOMAIN lapic_ids}
                  = {s.id : s \in {t \in Madt("lapic") : t.enabled}} \ {fw.bsp}
           /\ \A i, j \in DOMAIN lapic_ids : i # j => lapic_ids[i] # lapic_ids[j]
           /\ lapic_ids # <<>> => trampoline
    /\ parse.pc # "panic" => /\ g_cpus <= MAX_CPUS
                             /\ Len(irq_map) <= MAX_IRQ_OVERRIDES

\* The line of the PIT as ACPI describes it: its override or GSI 0; polarity
\* 3 is active low, trigger mode 3 is level, "conforms" is active high, edge.
PitLine ==
    LET o == {s \in Madt("override") : s.irq = PIT_IRQ}
    IN  IF o = {} THEN [gsi |-> PIT_IRQ, low |-> FALSE, level |-> FALSE]
        ELSE LET s == CHOOSE s \in o : TRUE
             IN  [gsi |-> s.gsi, low |-> s.flags % 4 = 3, level |-> s.flags \div 4 = 3]

PitEntry ==
    [lo |-> [masked |-> FALSE, vector |-> PIT_VECTOR,
             low |-> PitLine.low, level |-> PitLine.level],
     hi |-> "all"]

\* ioapic_init leaves exactly one entry open, the one of the PIT's line, with
\* the polarity and trigger mode of that line.  On the way an entry that is
\* open is as the firmware left it or complete: no interrupt meets half of an
\* old entry and half of a new one.
PitRouted ==
    /\ parse.pc = "done" =>
           \A pin \in DOMAIN redtbl :
               IF pin = PitLine.gsi - ioapic.gsi_base
               THEN redtbl[pin] = PitEntry
               ELSE redtbl[pin].lo.masked
    /\ \A pin \in DOMAIN redtbl :
           \/ redtbl[pin].lo.masked \/ redtbl[pin] = BiosEntry(pin)
           \/ Parsed /\ redtbl[pin] = PitEntry

\* The fields of a structure as ACPI defines them: the value 2 of polarity and
\* trigger mode is reserved.
SoundEntry(s) ==
    /\ s.type = "lapic" => s.id \in Nat /\ s.enabled \in BOOLEAN
    /\ s.type = "ioapic" => s.gsi_base \in Nat
    /\ s.type = "override" => /\ s.irq \in Nat /\ s.gsi \in Nat /\ s.flags \in 0 .. 15
                              /\ s.flags % 4 # 2 /\ s.flags \div 4 # 2

\* No two enabled CPUs have the same LAPIC ID, and IRQ 0 has one override.
SoundPair(s, t) ==
    /\ s.type = "lapic" /\ t.type = "lapic" /\ s.enabled /\ t.enabled => s.id # t.id
    /\ s.type = "override" /\ t.type = "override" => s.irq # 0 \/ t.irq # 0

\* A list of tables with what ApsAreTheOthers and PitRouted ask of a MADT.
SoundTables(tables) ==
    LET apic == {k \in DOMAIN tables : tables[k].sig = "APIC"}
    IN  /\ Len(tables) \in Nat /\ DOMAIN tables = 1 .. Len(tables)
        /\ \A k \in apic :
              LET list == tables[k].entries
              IN  /\ Len(list) \in Nat /\ DOMAIN list = 1 .. Len(list)
                  /\ \A i \in DOMAIN list : SoundEntry(list[i])
        /\ \A k, l \in apic : \A i \in DOMAIN tables[k].entries :
              \A j \in DOMAIN tables[l].entries :
                 k # l \/ i # j => SoundPair(tables[k].entries[i], tables[l].entries[j])

SoundFirmware(f) == f.pins \in Nat /\ SoundTables(f.rsdt) /\ SoundTables(f.xsdt)
=============================================================================

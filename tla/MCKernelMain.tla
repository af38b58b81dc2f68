---------------------------- MODULE MCKernelMain ----------------------------
(***************************************************************************)
(* Machines and firmwares for TLC.  Memory is in bytes, 2 to a page.  Low  *)
(* memory is 6 pages with the hypervisor behind it, a large page is 12     *)
(* pages, and 4GB is page 72.                                              *)
(***************************************************************************)
EXTENDS KernelMain, TLC

PageRange(p, bytes)     == [addr |-> p * PG_SIZE, len |-> bytes]
Available(p, q)         == PageRange(p, (q - p) * PG_SIZE) @@ [available |-> TRUE]
Module(name, p, bytes)  == PageRange(p, bytes) @@ [name |-> name]

PC(map, mods) ==
    [map |-> map, kernel |-> PageRange(6, 5), mods |-> mods,
     mbi |-> TRUE, vmx |-> "ok"]

-----------------------------------------------------------------------------
(* Memory: low memory of the given form, a hole of five pages, memory up   *)
(* to page end, the image (12 pages) and the ramdisk at the given pages.   *)

Memory(low, hole, end) == low \o <<Available(6, hole), Available(hole + 5, end)>>

Machine(low, hole, end, img, extra) ==
    PC(Memory(low, hole, end),
       <<Module("config", IF extra = 9 THEN 16 ELSE 10, 1),
         Module("linux", img, 23), Module("initrd", extra, 11)>>)

Whole6 == <<Available(0, 6)>>
Gap    == <<Available(0, 4), Available(5, 6)>>

\* Memory that ends inside a large page and at the end of the table's last
\* entry, the hole low and high, the modules low and high in either order; memory
\* that ends with the ramdisk, with one and two large pages behind it, and with
\* a part of the large page at 4GB.
Ordinary ==
    {Machine(Whole6, hole, end, m[1], m[2]) :
        hole \in {30, 52}, end \in {70, 90},
        m \in {<<12, 60>>, <<38, 9>>, <<38, 60>>}}
    \cup {Machine(Whole6, 30, end, 12, 24) : end \in {60, 72, 82, 84}}

\* Low memory in two pieces, of one frame and of none; too little memory for
\* a large page.
Odd ==
    {Machine(Gap, 30, 90, 12, 60), Machine(<<Available(0, 2)>>, 30, 90, 12, 60),
     Machine(<<Available(0, 1)>>, 30, 90, 12, 60),
     PC(Whole6 \o <<Available(6, 16)>>,
        <<Module("linux", 9, 5), Module("initrd", 12, 1), Module("config", 14, 1)>>)}

-----------------------------------------------------------------------------
(* Modules and processors                                                  *)

Standard == Machine(Whole6, 30, 90, 12, 60)

\* The modules one behind the other, six pages each.
Tags(names) ==
    PC(Memory(Whole6, 30, 90),
       [k \in DOMAIN names |-> Module(names[k], 36 + 6 * (k - 1), 11)])

\* Every order, a name missing, twice or unknown, one and four VM modules.
Tagged ==
    {Tags(names) : names \in {
        <<"config", "initrd", "linux">>, <<"linux", "initrd", "config">>,
        <<"linux", "initrd">>, <<"config">>, <<"config", "initrd">>,
        <<"config", "linux", "other">>, <<"initrd", "config", "initrd">>,
        <<"other", "config", "linux", "initrd">>,
        <<"config", "linux", "initrd", "linux">>,
        <<"config", "linux", "initrd", "other", "other">>}}

NoGuest == Tags(<<"config", "linux">>)

Processors ==
    {[Standard EXCEPT !.vmx = v] : v \in {"none", "locked", "few controls"}}
    \cup {[Standard EXCEPT !.mbi = FALSE]}

MCMachines == Ordinary \cup Odd \cup Tagged \cup Processors \cup {NoGuest}

\* What the theorems of GuestProofs ask of a machine holds of these, except
\* that the memory of one ends inside the large page at 4GB.
ShortAt4G == Machine(Whole6, 30, 82, 12, 24)

ASSUME SoundMachines ==
    /\ pdt_entries = 1
    /\ \A m \in MCMachines :
        /\ SoundMachine(m) /\ SoundModules(m) /\ SoundLowMemory(m)
        /\ m # ShortAt4G => SoundHighMemory(m, MaxBefore + 4)

-----------------------------------------------------------------------------
(* Firmware                                                                *)

Lapic(id, enabled)      == [type |-> "lapic", id |-> id, enabled |-> enabled]
Ioapic(base)            == [type |-> "ioapic", gsi_base |-> base]
Override(bus, irq, gsi, flags) ==
    [type |-> "override", bus |-> bus, irq |-> irq, gsi |-> gsi, flags |-> flags]

Sdt(entries) == <<[sig |-> "DMAR"], [sig |-> "APIC", entries |-> entries],
                  [sig |-> "FACP"]>>

Rsdp(rev, xsdt) ==
    [sig |-> TRUE, sum1 |-> TRUE, sum2 |-> TRUE, rev |-> rev, xsdt |-> xsdt]

Plain == <<Lapic(0, TRUE), Ioapic(0), Lapic(2, TRUE)>>

\* A firmware with an XSDT.
Firmware(entries) ==
    [given |-> <<Rsdp(2, TRUE)>>, bios |-> <<>>, xsdt |-> Sdt(entries), rsdt |-> <<>>,
     long |-> FALSE, bsp |-> 0, tsc |-> TRUE, pins |-> 3, open |-> {1}]

\* The PIT on each pin and on none, in the polarities and trigger modes ACPI
\* defines, behind another override; pins that do not start at GSI 0.
Routes ==
    {Firmware(<<Lapic(0, TRUE), Override(0, 9, 1, 15), Override(0, 0, gsi, flags),
                Ioapic(base)>>) :
        gsi \in 0 .. 3, flags \in {0, 5, 7, 13, 15}, base \in {0, 1}}

\* CPUs: disabled, in any order, up to and past MAX_CPUS; a BSP with another
\* ID; other structures, other buses, too many overrides and IOAPICs.
Cpus ==
    {Firmware(<<[type |-> "other"], Lapic(a, b[1]), Lapic(0, TRUE), Lapic(5, b[2]), Ioapic(0)>>
              \o rest) :
        a \in {1, 3}, b \in BOOLEAN \X BOOLEAN,
        rest \in {<<>>, <<Lapic(4, TRUE)>>, <<Lapic(4, TRUE), Lapic(6, TRUE)>>,
                  <<Ioapic(3)>>, <<Override(1, 0, 0, 0)>>,
                  <<Override(0, 1, 1, 0), Override(0, 2, 2, 0), Override(0, 3, 2, 0)>>}}
    \cup {[Firmware(Plain) EXCEPT !.bsp = 2]}

\* The RSDP: none, in the BIOS area, damaged, of other revisions, without an
\* XSDT; tables that are too long; no frequency of the TSC.
Unsigned == [Rsdp(0, FALSE) EXCEPT !.sig = FALSE]

Rsdps ==
    {[Firmware(Plain) EXCEPT !.given = g, !.bios = b] :
        g \in {<<>>, <<Unsigned>>},
        b \in {<<>>, <<Unsigned>>, <<Unsigned, Rsdp(2, TRUE)>>}}
    \cup {[Firmware(Plain) EXCEPT !.given = <<p>>] :
        p \in {[Rsdp(2, TRUE) EXCEPT !.sum1 = FALSE],
               [Rsdp(2, TRUE) EXCEPT !.sum2 = FALSE], Rsdp(1, FALSE)}}
    \cup {[Firmware(<<>>) EXCEPT !.given = <<p>>, !.rsdt = Sdt(Plain)] :
        p \in {Rsdp(0, FALSE), Rsdp(2, FALSE)}}
    \cup {[Firmware(Plain) EXCEPT !.long = TRUE], [Firmware(Plain) EXCEPT !.tsc = FALSE]}

MCFirmwares == Routes \cup Cpus \cup Rsdps \cup {Firmware(Plain)}

ASSUME FirmwareAssumption == \A f \in MCFirmwares : SoundFirmware(f)

\* Every machine with one firmware, every firmware with one machine.
MCBoots == (MCMachines \X {Firmware(Plain)}) \cup ({NoGuest} \X MCFirmwares)

\* The frames below 4GB that are in a row are in use when the ramdisk is copied.
HighRamdiskBoots == {Tags(<<"linux", "initrd", "config">>)} \X {Firmware(Plain)}
=============================================================================

------------------------------ MODULE MCPhysMem ------------------------------
(***************************************************************************)
(* Machines for TLC.  Addresses are in bytes, 4 to a page.                 *)
(***************************************************************************)
EXTENDS PhysMem

Region(a, l) == [addr |-> a, len |-> l, available |-> TRUE]
Hole(a, l)   == [addr |-> a, len |-> l, available |-> FALSE]
Bytes(a, l)  == [addr |-> a, len |-> l]

\* Low memory, holes, and high memory with unaligned ends; the kernel at
\* the start of high memory, modules in it, and a machine whose memory ends
\* at the last frame the table may describe.
MCMachines == {
    [map    |-> <<Region(0, 7), Hole(7, 3), Region(9, 43)>>,
     kernel |-> Bytes(12, 4),
     mods   |-> <<Bytes(20, 6)>>],
    [map    |-> <<Region(0, 8), Region(12, 18), Region(32, 19)>>,
     kernel |-> Bytes(12, 4),
     mods   |-> <<Bytes(36, 3), Bytes(24, 1)>>],
    [map    |-> <<Region(0, 8), Region(8, 48)>>,
     kernel |-> Bytes(8, 4),
     mods   |-> <<>>]}

ASSUME SoundAssumption == \A m \in Machines : SoundMachine(m)
=============================================================================

------------------------------ MODULE KernelMap ------------------------------
(***************************************************************************)
(* The dynamic kernel mappings of arch/x86_64/mm/vm.c: a page table whose  *)
(* entries map 4KB pages from KERNEL_MAPPING_BASE on, and the part of a    *)
(* page directory, LG_PG_BASE to LG_PG_LIMIT, that maps 2MB pages.  The    *)
(* entries of the directory below hold the kernel, the malloc pool and the *)
(* page table.                                                             *)
(*                                                                         *)
(* Every operation holds pg_lock, so one search is under way at a time; it *)
(* is a sequence of steps on the locals kept in op.  A table entry is the  *)
(* number of the frame it maps, 0 when its present bit is clear; a frame   *)
(* number stands for a 4KB frame in pt and for a 2MB one in pdt.           *)
(***************************************************************************)
EXTENDS Integers, FiniteSets

CONSTANTS CPU,
          PG_TABLE_ENTRIES, \* entries of a table, 512
          LG_BASE,          \* LG_PG_BASE >> LARGE_PG_BITS, 6
          LG_LIMIT,         \* LG_PG_LIMIT >> LARGE_PG_BITS, 16
          MALLOC_SLOTS,     \* directory entries of the malloc pool, {3, 4}
          PT_SLOT,          \* directory entry of the page table, 5
          U64,              \* number of values of a uint64_t
          PageNums,         \* num in calls of vm_map_pages
          LargeNums,        \* num in calls of vm_map_large_pages
          Frames,           \* first frames that callers map
          MaxMapped,        \* bound: mappings at a time
          MaxCached         \* bound: translations a CPU caches

Window == {"pt", "pdt"}
Slot   == 0 .. PG_TABLE_ENTRIES - 1

First(w) == IF w = "pt" THEN 0 ELSE LG_BASE
Limit(w) == IF w = "pt" THEN PG_TABLE_ENTRIES ELSE LG_LIMIT
Nums(w)  == IF w = "pt" THEN PageNums ELSE LargeNums

\* The callers of vm_map_large_pages keep num in a uint8_t, so a run that
\* starts inside the window ends inside the directory.
ASSUME KernelMapAssumption ==
    /\ PG_TABLE_ENTRIES \in Nat
    /\ LG_BASE \in Slot /\ LG_LIMIT \in Slot /\ LG_BASE < LG_LIMIT
    /\ PT_SLOT \in 0 .. LG_BASE - 1
    /\ MALLOC_SLOTS \subseteq 0 .. LG_BASE - 1 /\ PT_SLOT \notin MALLOC_SLOTS
    /\ PageNums \subseteq 1 .. PG_TABLE_ENTRIES
    /\ \A n \in LargeNums : n \in Nat \ {0} /\ LG_LIMIT + n <= PG_TABLE_ENTRIES
    /\ Frames \subseteq Nat \ {0}
    /\ U64 \in Nat /\ U64 > 2 * PG_TABLE_ENTRIES
    /\ MaxMapped \in Nat /\ MaxCached \in Nat

\* The frames of the static mappings and of what the tables held before
\* vm_init; no caller maps them.
Kernel  == -1
Garbage == -2
Pool    == -3

VARIABLES table,    \* table[w][s]: the frame mapped, 0 when not present
          mapped,   \* the mappings callers have: [win, slot, num, frame,
                    \* users]
          tlb,      \* tlb[c]: translations <<win, slot, frame>> c caches
          op,       \* the search under way and its locals
          up        \* vm_init is done

vars == <<table, mapped, tlb, op, up>>

Idle  == [kind |-> "idle"]
Ready == up /\ op = Idle

Run(s, num) == s .. s + num - 1
Slots(m)    == Run(m.slot, m.num)

\* boot.S leaves a directory with the kernel's entries, the rest cleared.  The
\* page table is a frame that vm_init allocates, with whatever it held.
Init ==
    /\ \E garbage \in {0, Garbage} :
          table = [pt  |-> [s \in Slot |-> garbage],
                   pdt |-> [s \in Slot |->
                              IF s < LG_BASE /\ s \notin MALLOC_SLOTS \cup {PT_SLOT}
                              THEN Kernel ELSE 0]]
    /\ mapped = {}
    /\ tlb = [c \in CPU |-> {}]
    /\ op = Idle
    /\ up = FALSE

\* Mutant of vm_init: the new page table is not cleared.
vm_init_uncleared ==
    /\ ~up
    /\ up' = TRUE
    /\ table' = [table EXCEPT !.pdt[PT_SLOT] = Kernel]
    /\ UNCHANGED <<mapped, tlb, op>>

\* vm_init: enter the page table into the directory, clear it and the
\* directory's window.  The levels above exist since boot.S.
vm_init ==
    /\ ~up
    /\ up' = TRUE
    /\ table' = [pt  |-> [s \in Slot |-> 0],
                 pdt |-> [s \in Slot |->
                            IF s = PT_SLOT THEN Kernel
                            ELSE IF s >= LG_BASE /\ s < LG_LIMIT THEN 0
                            ELSE table.pdt[s]]]
    /\ UNCHANGED <<mapped, tlb, op>>

-----------------------------------------------------------------------------
(* Mapping                                                                 *)

\* Who uses what CPU c maps: c, which unmaps it again, or every CPU, if the
\* mapping is kept for good (stacks, per-CPU areas, devices).
Users(c, keep) == IF keep THEN CPU ELSE {c}

\* Enter num frames from slot s on; the caller gets the address.
Enter(w, s, num, frame, users) ==
    /\ table' = [table EXCEPT ![w] = [t \in Slot |->
                    IF t \in Run(s, num) THEN frame + (t - s) ELSE table[w][t]]]
    /\ mapped' = mapped \cup {[win |-> w, slot |-> s, num |-> num,
                               frame |-> frame, users |-> users]}

\* The loop of vm_map_page and vm_map_large_page; empty when they return NULL.
FirstFreeSlot(w) ==
    {s \in Slot : /\ First(w) <= s /\ s < Limit(w)
                  /\ table[w][s] = 0
                  /\ \A t \in Slot : First(w) <= t /\ t < s => table[w][t] # 0}

vm_map_page(c, frame, keep) ==
    /\ Ready
    /\ Cardinality(mapped) < MaxMapped
    /\ \E s \in FirstFreeSlot("pt") : Enter("pt", s, 1, frame, Users(c, keep))
    /\ UNCHANGED <<tlb, op, up>>

vm_map_large_page(c, frame, keep) ==
    /\ Ready
    /\ Cardinality(mapped) < MaxMapped
    /\ \E s \in FirstFreeSlot("pdt") : Enter("pdt", s, 1, frame, Users(c, keep))
    /\ UNCHANGED <<tlb, op, up>>

\* The call from malloc_init for one large page of the pool.  It panics if
\* the entry is present.
vm_map_large_page_unrestricted(c, s) ==
    /\ Ready
    /\ s \in MALLOC_SLOTS
    /\ table.pdt[s] = 0
    /\ table' = [table EXCEPT !.pdt[s] = Pool]
    /\ UNCHANGED <<mapped, tlb, op, up>>

SearchFrom(w, num, frame, c, keep) ==
    /\ Ready
    /\ Cardinality(mapped) < MaxMapped
    /\ op' = [kind |-> "search", win |-> w, num |-> num, frame |-> frame,
              users |-> Users(c, keep), i |-> First(w)]
    /\ UNCHANGED <<table, mapped, tlb, up>>

vm_map_pages(c, num, frame, keep) == SearchFrom("pt", num, frame, c, keep)

vm_map_large_pages(c, num, frame, keep) == SearchFrom("pdt", num, frame, c, keep)

\* The bound of the loop, in unsigned arithmetic.
Bound == (Limit(op.win) - op.num + 1) % U64

\* The value of j after the inner loop: the first present entry after i in
\* the run, or the end of the run.
RunEnd == CHOOSE j \in op.i + 1 .. op.i + op.num :
             /\ j = op.i + op.num \/ table[op.win][j] # 0
             /\ \A k \in op.i + 1 .. j - 1 : table[op.win][k] = 0

Looking == op.kind = "search" /\ op.i < Bound

search_next ==
    /\ Looking
    /\ table[op.win][op.i] # 0
    /\ op' = [op EXCEPT !.i = @ + 1]
    /\ UNCHANGED <<table, mapped, tlb, up>>

\* Mutant of search_take: the last page of the run is not looked at.
search_take_short ==
    /\ Looking
    /\ table[op.win][op.i] = 0
    /\ RunEnd >= op.i + op.num - 1
    /\ Enter(op.win, op.i, op.num, op.frame, op.users)
    /\ op' = Idle
    /\ UNCHANGED <<tlb, up>>

\* count == num
search_take ==
    /\ Looking
    /\ table[op.win][op.i] = 0
    /\ RunEnd = op.i + op.num
    /\ Enter(op.win, op.i, op.num, op.frame, op.users)
    /\ op' = Idle
    /\ UNCHANGED <<tlb, up>>

\* Mutant of search_skip: the search starts again at the same entry.
search_skip_stuck ==
    /\ Looking
    /\ table[op.win][op.i] = 0
    /\ RunEnd # op.i + op.num
    /\ UNCHANGED vars

\* Mutant of search_skip: one more entry is passed over.
search_skip_two ==
    /\ Looking
    /\ table[op.win][op.i] = 0
    /\ RunEnd # op.i + op.num
    /\ op' = [op EXCEPT !.i = RunEnd + 3]
    /\ UNCHANGED <<table, mapped, tlb, up>>

\* i = j + 1, and the loop's i++
search_skip ==
    /\ Looking
    /\ table[op.win][op.i] = 0
    /\ RunEnd # op.i + op.num
    /\ op' = [op EXCEPT !.i = RunEnd + 2]
    /\ UNCHANGED <<table, mapped, tlb, up>>

\* return NULL
search_fail ==
    /\ op.kind = "search"
    /\ op.i >= Bound
    /\ op' = Idle
    /\ UNCHANGED <<table, mapped, tlb, up>>

-----------------------------------------------------------------------------
(* Unmapping, and the use of a mapping                                     *)

\* Mutant of Remove: the translations are not invalidated.
Remove_no_invlpg(c, m) ==
    /\ table' = [table EXCEPT ![m.win] = [t \in Slot |->
                    IF t \in Slots(m) THEN 0 ELSE table[m.win][t]]]
    /\ mapped' = mapped \ {m}
    /\ UNCHANGED <<tlb, op, up>>

\* CPU c clears the entries; invlpg for each page, on c only.
Remove(c, m) ==
    /\ table' = [table EXCEPT ![m.win] = [t \in Slot |->
                    IF t \in Slots(m) THEN 0 ELSE table[m.win][t]]]
    /\ mapped' = mapped \ {m}
    /\ tlb' = [tlb EXCEPT ![c] =
                  {e \in @ : ~(e[1] = m.win /\ e[2] \in Slots(m))}]
    /\ UNCHANGED <<op, up>>

\* A caller unmaps what it mapped, on the CPU it mapped it on.
Removable(c, m) == Ready /\ m \in mapped /\ m.users = {c}

vm_unmap_page(c, m) == Removable(c, m) /\ m.win = "pt" /\ m.num = 1 /\ Remove(c, m)

vm_unmap_pages(c, m) == Removable(c, m) /\ m.win = "pt" /\ m.num > 1 /\ Remove(c, m)

vm_unmap_large_page(c, m) == Removable(c, m) /\ m.win = "pdt" /\ m.num = 1 /\ Remove(c, m)

vm_unmap_large_pages(c, m) == Removable(c, m) /\ m.win = "pdt" /\ m.num > 1 /\ Remove(c, m)

\* An access through the mapping: the processor uses a translation it has
\* cached, or walks the tables and caches what it finds.
access(c, m, s) ==
    /\ m \in mapped
    /\ c \in m.users
    /\ s \in Slots(m)
    /\ Cardinality(tlb[c]) < MaxCached
    /\ \A e \in tlb[c] : ~(e[1] = m.win /\ e[2] = s)
    /\ tlb' = [tlb EXCEPT ![c] = @ \cup {<<m.win, s, table[m.win][s]>>}]
    /\ UNCHANGED <<table, mapped, op, up>>

-----------------------------------------------------------------------------
SearchStep == search_next \/ search_take \/ search_skip \/ search_fail

Next ==
    \/ vm_init
    \/ \E c \in CPU, f \in Frames, keep \in BOOLEAN :
          \/ vm_map_page(c, f, keep)
          \/ vm_map_large_page(c, f, keep)
          \/ \E n \in PageNums : vm_map_pages(c, n, f, keep)
          \/ \E n \in LargeNums : vm_map_large_pages(c, n, f, keep)
    \/ \E c \in CPU, s \in MALLOC_SLOTS : vm_map_large_page_unrestricted(c, s)
    \/ SearchStep
    \/ \E c \in CPU, m \in mapped :
          \/ vm_unmap_page(c, m) \/ vm_unmap_pages(c, m)
          \/ vm_unmap_large_page(c, m) \/ vm_unmap_large_pages(c, m)
    \/ \E c \in CPU : \E m \in mapped : \E s \in Slots(m) : access(c, m, s)

\* The CPU that holds pg_lock goes on.
Fairness == WF_vars(SearchStep)

Spec == Init /\ [][Next]_vars /\ Fairness

-----------------------------------------------------------------------------
(* Properties                                                              *)

\* Every mapping a caller holds stays as it was made: its entries lead to the
\* frames it was given, page by page, whatever others map and unmap.
MappingsIntact ==
    \A m \in mapped :
        /\ \A s \in Slots(m) : table[m.win][s] = m.frame + (s - m.slot)
        /\ \A n \in mapped : n # m /\ n.win = m.win => Slots(m) \cap Slots(n) = {}

\* Nothing is lost or invented: the entries present in a window are exactly
\* those of the mappings callers hold, and the entries of the directory below
\* the window belong to the kernel, the pool and the page table only, so
\* malloc_init never meets "page table entry not available".  Mappings stay
\* inside their window, and the search reads entries of its table only.
WindowAccounted ==
    /\ up =>
        /\ \A w \in Window : \A s \in First(w) .. Limit(w) - 1 :
              table[w][s] # 0 <=> \E m \in mapped : m.win = w /\ s \in Slots(m)
        /\ \A s \in 0 .. LG_BASE - 1 : table.pdt[s] \in {0, Kernel, Pool}
    /\ \A m \in mapped : Slots(m) \subseteq First(m.win) .. Limit(m.win) - 1
    /\ op # Idle /\ op.i < Bound => Run(op.i, op.num) \subseteq Slot

\* A CPU that uses a mapping reaches the mapping's frame, not the frame that
\* an earlier mapping had at the same address: vm_unmap_* invalidates on its
\* own CPU only, and a reused entry is not invalidated when it is filled.
NoStaleTranslation ==
    \A c \in CPU : \A m \in mapped : c \in m.users =>
        \A e \in tlb[c] :
            e[1] = m.win /\ e[2] \in Slots(m) => e[3] = m.frame + (e[2] - m.slot)

\* The search ends and pg_lock is released.
SearchEnds == op.kind = "search" ~> op.kind = "idle"

\* vm_map_pages and vm_map_large_pages find num entries if num + 1 entries in
\* a row are free.  A run of num alone may be missed: after a run cut short by
\* the present entry j, i = j + 1 and the loop's i++ pass over entry j + 1.
WideGapFound ==
    [][search_fail =>
          ~\E s \in First(op.win) .. Limit(op.win) - op.num - 1 :
              \A t \in Run(s, op.num + 1) : table[op.win][t] = 0]_vars
=============================================================================

-------------------------------- MODULE Buddy --------------------------------
(***************************************************************************)
(* The buddy allocator of kernel/mm/malloc.c.  Memory is counted in units  *)
(* of the smallest block, 2^BUDDY_MIN_ORDER bytes; a block of entry e is   *)
(* 2^e units that start at a multiple of 2^e.                              *)
(*                                                                         *)
(* malloc and free hold mm_lock throughout, so one operation is under way  *)
(* at a time; its loops are steps on the locals kept in op.  The order of  *)
(* a free list decides only which of its blocks is handed out next: a list *)
(* is a set, and list_first_entry any of its members.                      *)
(***************************************************************************)
EXTENDS Naturals, FiniteSets

CONSTANTS ENTRIES,    \* BUDDY_ENTRIES
          MIN_BLK,    \* BUDDY_MIN_BLK, bytes in a unit
          Sizes,      \* sizes asked of malloc
          Fill,       \* what callers write over their blocks
          USED        \* the postamble of a block in use, 0xFF

Entry == 0 .. ENTRIES - 1
Unit  == 0 .. 2 ^ (ENTRIES - 1) - 1

\* No caller asks for more than the pool holds: malloc indexes bsystem with
\* the entry it computes before it compares it with BUDDY_ENTRIES.
ASSUME BuddyAssumption ==
    /\ ENTRIES \in Nat \ {0}
    /\ MIN_BLK \in Nat \ {0}
    /\ USED \in Nat \ Entry
    /\ Sizes \subseteq Nat
    /\ \A size \in Sizes : size + 9 <= 2 ^ (ENTRIES - 1) * MIN_BLK
    /\ Fill \subseteq Nat

VARIABLES ptr,        \* ptr[e]: the blocks on bsystem[e]'s list
          count,      \* bsystem[e].count
          post,       \* post[u]: the last byte of unit u
          live,       \* blocks malloc returned: [addr, entry, size], entry being
                      \* the preamble, which no caller writes over
          op,         \* the operation under way and its locals
          panicked    \* malloc called panic("out of memory")

vars == <<ptr, count, post, live, op, panicked>>

Idle == [kind |-> "idle"]
Ready == op = Idle /\ ~panicked

Block(a, e) == a .. a + 2 ^ e - 1

\* The unit with the postamble of the block of entry e at a.
Last(a, e) == a + 2 ^ e - 1

\* (addr - mem_base) ^ size
BuddyOf(a, e) == IF (a \div 2 ^ e) % 2 = 0 THEN a + 2 ^ e ELSE a - 2 ^ e

\* malloc_init: one free block, the pool.  The rest of the pool is whatever
\* the frames held.
Init ==
    /\ ptr = [e \in Entry |-> IF e = ENTRIES - 1 THEN {0} ELSE {}]
    /\ count = [e \in Entry |-> IF e = ENTRIES - 1 THEN 1 ELSE 0]
    /\ \E v \in Fill :
          post = [u \in Unit |-> IF u = Last(0, ENTRIES - 1)
                                 THEN ENTRIES - 1 ELSE v]
    /\ live = {}
    /\ op = Idle
    /\ panicked = FALSE

-----------------------------------------------------------------------------
(* malloc                                                                  *)

\* Mutant of EntryFor: only the preamble is added to the size.
EntryFor_no_postamble(size) ==
    CHOOSE e \in Entry :
        /\ size + 8 <= 2 ^ e * MIN_BLK
        /\ \A f \in Entry : f < e => size + 8 > 2 ^ f * MIN_BLK

\* next_power2(size + 9) - BUDDY_MIN_ORDER
EntryFor(size) ==
    CHOOSE e \in Entry :
        /\ size + 9 <= 2 ^ e * MIN_BLK
        /\ \A f \in Entry : f < e => size + 9 > 2 ^ f * MIN_BLK

\* malloc finds the first entry from the wanted one on with a free block.
malloc(size) ==
    /\ Ready
    /\ \E e \in Entry :
          /\ e >= EntryFor(size)
          /\ count[e] # 0
          /\ \A f \in Entry : EntryFor(size) <= f /\ f < e => count[f] = 0
          /\ op' = [kind |-> "malloc", entry |-> e,
                    split_count |-> e - EntryFor(size), size |-> size]
    /\ UNCHANGED <<ptr, count, post, live, panicked>>

\* panic("out of memory"), with mm_lock held
malloc_panic(size) ==
    /\ Ready
    /\ \A e \in Entry : e >= EntryFor(size) => count[e] = 0
    /\ panicked' = TRUE
    /\ UNCHANGED <<ptr, count, post, live, op>>

\* Take the first block of the bucket, add two blocks to the lower order
\* bucket, write both postambles.
buddy_split ==
    /\ op.kind = "malloc"
    /\ op.split_count > 0
    /\ LET e == op.entry - 1
       IN  \E a \in ptr[op.entry] :
             /\ ptr' = [ptr EXCEPT ![op.entry] = @ \ {a},
                                   ![e] = @ \cup {a, a + 2 ^ e}]
             /\ count' = [count EXCEPT ![op.entry] = @ - 1, ![e] = @ + 2]
             /\ post' = [post EXCEPT ![Last(a, e)] = e,
                                     ![Last(a + 2 ^ e, e)] = e]
             /\ op' = [op EXCEPT !.entry = e, !.split_count = @ - 1]
    /\ UNCHANGED <<live, panicked>>

\* Take the first block, write preamble and postamble, release mm_lock.  The
\* caller then writes its data, everything between the two.
malloc_take ==
    /\ op.kind = "malloc"
    /\ op.split_count = 0
    /\ \E a \in ptr[op.entry], v \in Fill :
          /\ ptr' = [ptr EXCEPT ![op.entry] = @ \ {a}]
          /\ count' = [count EXCEPT ![op.entry] = @ - 1]
          /\ post' = [u \in Unit |-> IF u = Last(a, op.entry) THEN USED
                                     ELSE IF u \in Block(a, op.entry) THEN v
                                     ELSE post[u]]
          /\ live' = live \cup {[addr |-> a, entry |-> op.entry,
                                 size |-> op.size]}
    /\ op' = Idle
    /\ UNCHANGED panicked

-----------------------------------------------------------------------------
(* free                                                                    *)

\* free of a block malloc returned: the entry comes from the preamble, and the
\* postamble must be USED.  The other outcome, the message "double free
\* memory" and a return, never meets such a block: see Partition.
free(b) ==
    /\ Ready
    /\ b \in live
    /\ post[Last(b.addr, b.entry)] = USED
    /\ live' = live \ {b}
    /\ op' = [kind |-> "free", blt |-> b.addr, entry |-> b.entry,
              merge_count |-> 0]
    /\ UNCHANGED <<ptr, count, post, panicked>>

\* Mutant of Mergeable: at most one merge per free.
Mergeable_once ==
    /\ op.merge_count = 0
    /\ count[op.entry] # 0
    /\ op.entry < ENTRIES - 1
    /\ post[Last(BuddyOf(op.blt, op.entry), op.entry)] = op.entry

\* buddy_try_merge goes on: the first test is made once.
Mergeable ==
    /\ op.merge_count = 0 => count[op.entry] # 0
    /\ op.entry < ENTRIES - 1
    /\ post[Last(BuddyOf(op.blt, op.entry), op.entry)] = op.entry

Min2(a, b) == IF a < b THEN a ELSE b

\* Mutant of buddy_merge: the merged block is taken to start at blt.
buddy_merge_at_blt ==
    /\ op.kind = "free"
    /\ Mergeable
    /\ LET e      == op.entry
           buddy  == BuddyOf(op.blt, e)
           gone   == IF op.merge_count > 0 THEN {op.blt, buddy} ELSE {buddy}
       IN  /\ ptr' = [ptr EXCEPT ![e] = @ \ gone, ![e + 1] = @ \cup {op.blt}]
           /\ count' = [count EXCEPT ![e] = @ - Cardinality(gone),
                                     ![e + 1] = @ + 1]
           /\ post' = [post EXCEPT ![Last(Min2(op.blt, buddy), e + 1)] = e + 1]
           /\ op' = [op EXCEPT !.blt = op.blt, !.entry = e + 1,
                               !.merge_count = @ + 1]
    /\ UNCHANGED <<live, panicked>>

\* One iteration of the loop: both halves leave their list (the block being
\* freed was never on one), the merged block goes on the next.
buddy_merge ==
    /\ op.kind = "free"
    /\ Mergeable
    /\ LET e      == op.entry
           buddy  == BuddyOf(op.blt, e)
           merged == Min2(op.blt, buddy)
           gone   == IF op.merge_count > 0 THEN {op.blt, buddy} ELSE {buddy}
       IN  /\ ptr' = [ptr EXCEPT ![e] = @ \ gone, ![e + 1] = @ \cup {merged}]
           /\ count' = [count EXCEPT ![e] = @ - Cardinality(gone),
                                     ![e + 1] = @ + 1]
           /\ post' = [post EXCEPT ![Last(merged, e + 1)] = e + 1]
           /\ op' = [op EXCEPT !.blt = merged, !.entry = e + 1,
                               !.merge_count = @ + 1]
    /\ UNCHANGED <<live, panicked>>

\* no merge, add it to the list
free_add ==
    /\ op.kind = "free"
    /\ ~Mergeable
    /\ op.merge_count = 0
    /\ ptr' = [ptr EXCEPT ![op.entry] = @ \cup {op.blt}]
    /\ count' = [count EXCEPT ![op.entry] = @ + 1]
    /\ post' = [post EXCEPT ![Last(op.blt, op.entry)] = op.entry]
    /\ op' = Idle
    /\ UNCHANGED <<live, panicked>>

\* Mutant of free_merged: returns without spin_unlock(&mm_lock).
free_merged_keeps_lock ==
    /\ op.kind = "free"
    /\ ~Mergeable
    /\ op.merge_count > 0
    /\ UNCHANGED vars

\* buddy_try_merge returned a count: mm_lock is released, the block is on its
\* list already.
free_merged ==
    /\ op.kind = "free"
    /\ ~Mergeable
    /\ op.merge_count > 0
    /\ op' = Idle
    /\ UNCHANGED <<ptr, count, post, live, panicked>>

-----------------------------------------------------------------------------
Step == buddy_split \/ malloc_take \/ buddy_merge \/ free_add \/ free_merged

Next ==
    \/ \E size \in Sizes : malloc(size) \/ malloc_panic(size)
    \/ \E b \in live : free(b)
    \/ Step

\* The CPU that holds mm_lock goes on.
Fairness == WF_vars(Step)

Spec == Init /\ [][Next]_vars /\ Fairness

-----------------------------------------------------------------------------
(* Properties                                                              *)

FreeBlocks == {[addr |-> a, entry |-> e] : a \in Unit, e \in Entry}

IsFree(f) == f.addr \in ptr[f.entry]

\* malloc, free, splits and merges lose no memory and hand none out twice:
\* whenever mm_lock is free, each unit of the pool is in exactly one block,
\* free or in use.  And, what check_buddy_table tests and free relies on: a
\* list is as long as its count, the postamble of every free block is its
\* entry, that of every block in use is USED.
Partition ==
    op = Idle =>
        /\ \A u \in Unit :
              Cardinality({f \in FreeBlocks :
                             IsFree(f) /\ u \in Block(f.addr, f.entry)})
            + Cardinality({b \in live : u \in Block(b.addr, b.entry)}) = 1
        /\ \A e \in Entry : count[e] = Cardinality(ptr[e])
        /\ \A f \in FreeBlocks :
              IsFree(f) => post[Last(f.addr, f.entry)] = f.entry
        /\ \A b \in live : post[Last(b.addr, b.entry)] = USED

\* panic("out of memory") is never premature: when mm_lock is free and some
\* aligned part of the pool of the size malloc rounds up to is unused,
\* malloc finds a block to return or to split.  It needs every pair of free
\* buddies to have been merged, by whatever order of malloc and free.
NoFalseOom ==
    Ready =>
        \A size \in Sizes :
            LET e == EntryFor(size)
                Unused(a) == /\ a % 2 ^ e = 0
                             /\ \A b \in live :
                                   Block(b.addr, b.entry) \cap Block(a, e) = {}
            IN  (\E a \in Unit : Unused(a)) => \E f \in Entry : f >= e /\ count[f] # 0

\* malloc and free return: the loops of splits and merges end and mm_lock is
\* released.
OperationsEnd == op # Idle ~> op = Idle

\* A block holds the preamble (8 bytes), the data and the postamble (1).
HoldsData(units, size) == Cardinality(units) * MIN_BLK >= size + 8 + 1

HeapOf == INSTANCE Heap WITH
    used <- {[units |-> Block(b.addr, b.entry), size |-> b.size] : b \in live},
    Fits <- HoldsData

\* The buddy system implements the abstract heap: malloc returns memory that
\* no block in use overlaps and that holds the size asked for, and only free
\* gives it back.
ImplementsHeap == HeapOf!Spec
=============================================================================

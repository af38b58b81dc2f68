------------------------------ MODULE SpinLock ------------------------------
(***************************************************************************)
(* The ticket lock of include/utils/spinlock.h.  A lock is a 32-bit word   *)
(* made of two 16-bit counters, "next" (low half) and "owner" (high half). *)
(* A CPU draws a ticket from next and spins until owner reaches it.  Both  *)
(* counters wrap; TICKETS stands for 2^16.                                 *)
(***************************************************************************)
EXTENDS Naturals, FiniteSets

CONSTANTS CPU,        \* the processors that use the lock
          TICKETS     \* the number of distinct ticket values, 2^16 in the code

\* MAX_CPUS (16) is far below 2^16; the lock needs no more than this.
ASSUME LockAssumption ==
    /\ IsFiniteSet(CPU)
    /\ TICKETS \in Nat \ {0}
    /\ Cardinality(CPU) <= TICKETS

VARIABLES next,       \* obj.next: the next ticket to hand out
          owner,      \* obj.owner: the ticket being served
          me,         \* me[c]: the local variable of the call c is in
          pc          \* pc[c]: where c is

vars == <<next, owner, me, pc>>

Ticket == 0 .. TICKETS - 1

Init ==
    /\ next = 0
    /\ owner = 0
    /\ me = [c \in CPU |-> 0]
    /\ pc = [c \in CPU |-> "idle"]

\* uint16_t increment
Inc(t) == IF t = TICKETS - 1 THEN 0 ELSE t + 1

-----------------------------------------------------------------------------
\* Mutant of spin_lock: the increment of next is not atomic and may be lost.
spin_lock_lost_update(c) ==
    /\ pc[c] = "idle"
    /\ me' = [me EXCEPT ![c] = next]
    /\ next' \in {next, Inc(next)}
    /\ pc' = [pc EXCEPT ![c] = "spin"]
    /\ UNCHANGED owner

\* spin_lock: the atomic fetch_add on next.
spin_lock(c) ==
    /\ pc[c] = "idle"
    /\ me' = [me EXCEPT ![c] = next]
    /\ next' = Inc(next)
    /\ pc' = [pc EXCEPT ![c] = "spin"]
    /\ UNCHANGED owner

\* Mutant of spin_acquired: the ticket is not compared, any waiter gets in.
spin_acquired_any(c) ==
    /\ pc[c] = "spin"
    /\ \A d \in CPU : pc[d] # "crit"
    /\ pc' = [pc EXCEPT ![c] = "crit"]
    /\ UNCHANGED <<next, owner, me>>

\* spin_lock: the read of owner that ends the loop.
spin_acquired(c) ==
    /\ pc[c] = "spin"
    /\ me[c] = owner
    /\ pc' = [pc EXCEPT ![c] = "crit"]
    /\ UNCHANGED <<next, owner, me>>

\* Mutants of spin_unlock: owner skips a ticket; owner is not advanced.
spin_unlock_skips(c) ==
    /\ pc[c] = "crit"
    /\ owner' = Inc(Inc(owner))
    /\ pc' = [pc EXCEPT ![c] = "idle"]
    /\ UNCHANGED <<next, me>>

spin_unlock_forgets(c) ==
    /\ pc[c] = "crit"
    /\ pc' = [pc EXCEPT ![c] = "idle"]
    /\ UNCHANGED <<next, owner, me>>

\* spin_unlock: the atomic increment of owner.
spin_unlock(c) ==
    /\ pc[c] = "crit"
    /\ owner' = Inc(owner)
    /\ pc' = [pc EXCEPT ![c] = "idle"]
    /\ UNCHANGED <<next, me>>

-----------------------------------------------------------------------------
\* The operations that the repository's code calls.
Next ==
    \E c \in CPU : spin_lock(c) \/ spin_acquired(c) \/ spin_unlock(c)

\* The loop of spin_lock keeps reading owner, and every critical section of
\* the code is finite, so a CPU that can leave "spin" or "crit" does.
Fairness ==
    \A c \in CPU : WF_vars(spin_acquired(c) \/ spin_unlock(c))

Spec == Init /\ [][Next]_vars /\ Fairness

-----------------------------------------------------------------------------
\* The CPUs that hold a ticket not yet given back.
Active == {c \in CPU : pc[c] \in {"spin", "crit"}}

\* How many owner increments away from being served ticket t is.
Dist(t) == IF t >= owner THEN t - owner ELSE t + TICKETS - owner

\* Both halves of the lock word and every local ticket stay 16-bit values.
TypeOK ==
    /\ next \in Ticket
    /\ owner \in Ticket
    /\ me \in [CPU -> Ticket]
    /\ pc \in [CPU -> {"idle", "spin", "crit"}]

\* At most one CPU is between spin_lock and spin_unlock.  Violating it takes
\* a ticket counter that wraps or a release that serves the wrong ticket.
MutualExclusion ==
    \A c, d \in CPU : pc[c] = "crit" /\ pc[d] = "crit" => c = d

\* The tickets that are out are distinct and are exactly the ones between
\* owner and next, counted modulo 2^16: this is the fact about the two
\* wrapping counters that mutual exclusion and first-come-first-served rest
\* on (and the inductive strengthening the proof uses).
TicketWindow ==
    /\ \A c, d \in Active : me[c] = me[d] => c = d
    /\ \A c \in Active : Dist(me[c]) < Cardinality(Active)
    /\ \/ Dist(next) = Cardinality(Active)
       \/ Cardinality(Active) = TICKETS /\ next = owner
    /\ \A c \in CPU : pc[c] = "crit" => me[c] = owner

\* Every CPU that drew a ticket eventually leaves the loop of spin_lock.
EveryTicketServed ==
    \A c \in CPU : pc[c] = "spin" ~> pc[c] = "crit"

-----------------------------------------------------------------------------
\* The CPUs in the lock in the order in which their tickets are served.
LockQueue ==
    [i \in 1 .. Cardinality(Active) |->
        CHOOSE c \in Active : Dist(me[c]) = i - 1]

\* The ticket lock implements a first-come-first-served lock: the order in
\* which CPUs execute the fetch_add is the order in which they enter.
FifoLock == INSTANCE FifoLock WITH
    queue  <- LockQueue,
    inside <- {c \in CPU : pc[c] = "crit"}

\* A CPU that executed the fetch_add of spin_lock earlier enters earlier,
\* although the counters wrap.
FirstComeFirstServed == FifoLock!Spec
=============================================================================

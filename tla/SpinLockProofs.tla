--------------------------- MODULE SpinLockProofs ---------------------------
(***************************************************************************)
(* The ticket lock is a mutual exclusion lock, and serves its callers in   *)
(* the order in which they drew their tickets, for every set of at most    *)
(* TICKETS processors, wrapping counters included.                         *)
(***************************************************************************)
EXTENDS SpinLock, FiniteSetTheorems, SequenceTheorems, TLAPS

IInv == TypeOK /\ TicketWindow

\* Active is finite, and no larger than the number of tickets.
LEMMA ActiveFinite ==
    /\ IsFiniteSet(Active)
    /\ Cardinality(Active) \in Nat
    /\ Cardinality(Active) <= TICKETS
<1>1. Active \in SUBSET CPU
  BY DEF Active
<1>2. IsFiniteSet(Active) /\ Cardinality(Active) <= Cardinality(CPU)
  BY <1>1, FS_Subset, LockAssumption
<1>3. Cardinality(Active) \in Nat /\ Cardinality(CPU) \in Nat
  BY <1>2, FS_CardinalityType, LockAssumption
<1> QED
  BY <1>2, <1>3, LockAssumption

\* While some CPU is idle a ticket is left.
LEMMA IdleLeavesTicket ==
    ASSUME NEW c \in CPU, c \notin Active
    PROVE  Cardinality(Active) < TICKETS
<1>1. Active \in SUBSET (CPU \ {c})
  BY DEF Active
<1>2. IsFiniteSet(CPU \ {c}) /\ Cardinality(CPU \ {c}) = Cardinality(CPU) - 1
  BY FS_RemoveElement, LockAssumption
<1>3. Cardinality(Active) <= Cardinality(CPU \ {c})
  BY <1>1, <1>2, FS_Subset
<1>4. Cardinality(CPU) \in Nat
  BY FS_CardinalityType, LockAssumption
<1> QED
  BY <1>2, <1>3, <1>4, ActiveFinite, LockAssumption

\* The type invariant is inductive by itself.
LEMMA TypeInductive == TypeOK /\ [Next]_vars => TypeOK'
<1> SUFFICES ASSUME TypeOK, [Next]_vars
             PROVE  TypeOK'
  OBVIOUS
<1>1. \A t \in Ticket : Inc(t) \in Ticket
  BY LockAssumption DEF Ticket, Inc
<1> QED
  BY <1>1 DEF TypeOK, Next, vars, spin_lock, spin_acquired, spin_unlock

\* Drawing a ticket keeps the window: the new ticket lies at the far end of
\* the tickets that are out, and the counters have not met.
LEMMA LockKeepsWindow ==
    ASSUME IInv, NEW c \in CPU, spin_lock(c)
    PROVE  TicketWindow'
<1> DEFINE n == Cardinality(Active)
<1>1. TypeOK /\ TypeOK'
  BY TypeInductive DEF IInv, Next
<1>2. c \notin Active /\ Active' = Active \cup {c}
  BY <1>1 DEF Active, spin_lock, TypeOK
<1>3. Cardinality(Active)' = n + 1 /\ n \in Nat /\ n < TICKETS
  BY <1>2, ActiveFinite, IdleLeavesTicket, FS_AddElement
<1>4. Dist(next) = n
  BY <1>1, <1>3 DEF IInv, TicketWindow, Dist, TypeOK, Ticket
<1>5. \A t \in Ticket : Dist(t)' = Dist(t)
  BY DEF Dist, spin_lock
<1>6. me'[c] = next /\ \A d \in Active : me'[d] = me[d]
  BY <1>1, <1>2 DEF spin_lock, TypeOK
<1>7. \A d \in Active : me[d] # next
  BY <1>3, <1>4 DEF IInv, TicketWindow
<1>8. (\A d, e \in Active : me[d] = me[e] => d = e)'
  BY <1>2, <1>6, <1>7 DEF IInv, TicketWindow
<1>9. (\A d \in Active : Dist(me[d]) < Cardinality(Active))'
  <2> SUFFICES ASSUME NEW d \in Active'
               PROVE  (Dist(me[d]) < Cardinality(Active))'
    OBVIOUS
  <2>1. CASE d = c
    <3>1. next \in Ticket /\ me'[d] = next
      BY <1>1, <1>6, <2>1 DEF TypeOK
    <3>2. Dist(me[d])' = n
      BY <3>1, <1>4 DEF Dist, spin_lock
    <3> QED
      BY <3>2, <1>3
  <2>2. CASE d # c
    <3>1. d \in Active /\ me'[d] = me[d]
      BY <1>2, <1>6, <2>2
    <3>2. Dist(me[d])' = Dist(me[d])
      BY <3>1 DEF Dist, spin_lock
    <3>3. Dist(me[d]) < n
      BY <3>1 DEF IInv, TicketWindow
    <3>4. Dist(me[d]) \in Int
      BY <1>1, <3>1, LockAssumption DEF TypeOK, Dist, Ticket, Active
    <3> QED
      BY <3>2, <3>3, <3>4, <1>3
  <2> QED
    BY <2>1, <2>2
<1>10. (\/ Dist(next) = Cardinality(Active)
        \/ Cardinality(Active) = TICKETS /\ next = owner)'
  BY <1>1, <1>3, <1>4, LockAssumption
  DEF Dist, spin_lock, Inc, TypeOK, Ticket
<1>11. (\A d \in CPU : pc[d] = "crit" => me[d] = owner)'
  BY <1>1 DEF IInv, TicketWindow, spin_lock, TypeOK
<1> QED
  BY <1>8, <1>9, <1>10, <1>11 DEF TicketWindow

\* Leaving the loop changes neither the tickets nor the set of CPUs in the
\* lock, and the CPU that enters holds the ticket being served.
LEMMA AcquireKeepsWindow ==
    ASSUME IInv, NEW c \in CPU, spin_acquired(c)
    PROVE  TicketWindow'
<1>1. Active' = Active
  BY DEF IInv, TypeOK, Active, spin_acquired
<1>2. \A t : Dist(t)' = Dist(t)
  BY DEF Dist, spin_acquired
<1>3. (\A d \in CPU : pc[d] = "crit" => me[d] = owner)'
  BY DEF IInv, TicketWindow, spin_acquired, TypeOK
<1> QED
  BY <1>1, <1>2, <1>3 DEF IInv, TicketWindow, spin_acquired

\* A release moves every ticket that is out one place nearer.
LEMMA UnlockKeepsWindow ==
    ASSUME IInv, NEW c \in CPU, spin_unlock(c)
    PROVE  TicketWindow'
<1> DEFINE n == Cardinality(Active)
<1>1. TypeOK /\ TypeOK'
  BY TypeInductive DEF IInv, Next
<1>2. c \in Active /\ Active' = Active \ {c}
  BY <1>1 DEF Active, spin_unlock, TypeOK
<1>3. Cardinality(Active)' = n - 1 /\ n \in Nat /\ n <= TICKETS
  BY <1>2, ActiveFinite, FS_RemoveElement
<1>4. me' = me /\ me[c] = owner /\ owner' = Inc(owner) /\ next' = next
  BY DEF IInv, TicketWindow, spin_unlock
<1>5. \A d \in Active \ {c} : me[d] \in Ticket /\ me[d] # owner
  BY <1>1, <1>2, <1>4 DEF IInv, TicketWindow, TypeOK, Active
<1>6. ASSUME NEW t \in Ticket, t # owner
      PROVE  Dist(t)' = Dist(t) - 1 /\ Dist(t) \in Int
  BY <1>1, <1>4, <1>6, LockAssumption DEF Dist, Inc, TypeOK, Ticket
<1>7. (\A d, e \in Active : me[d] = me[e] => d = e)'
  BY <1>2, <1>4 DEF IInv, TicketWindow
<1>8. ASSUME NEW d \in Active'
      PROVE  (Dist(me[d]) < Cardinality(Active))'
  <2>1. d \in Active /\ me[d] \in Ticket /\ me[d] # owner
    BY <1>2, <1>5
  <2>2. Dist(me[d])' = Dist(me[d]) - 1 /\ Dist(me[d]) \in Int
    <3>1. Dist(me[d])' = (IF me[d] >= owner' THEN me[d] - owner'
                          ELSE me[d] + TICKETS - owner')
      BY <1>4 DEF Dist
    <3> QED
      BY <3>1, <2>1, <1>1, <1>4, LockAssumption DEF Dist, Inc, TypeOK, Ticket
  <2>3. Dist(me[d]) < n
    BY <2>1 DEF IInv, TicketWindow
  <2> QED
    BY <1>3, <2>2, <2>3
<1>9. (\/ Dist(next) = Cardinality(Active)
       \/ Cardinality(Active) = TICKETS /\ next = owner)'
  <2>1. n >= 1
    BY <1>2, <1>3, ActiveFinite, FS_EmptySet
  <2>2. CASE Dist(next) = n
    BY <1>1, <1>3, <1>4, <2>1, <2>2, LockAssumption
    DEF Dist, Inc, TypeOK, Ticket
  <2>3. CASE n = TICKETS /\ next = owner
    BY <1>1, <1>3, <1>4, <2>3, LockAssumption
    DEF Dist, Inc, TypeOK, Ticket
  <2> QED
    BY <2>2, <2>3 DEF IInv, TicketWindow
<1>10. (\A d \in CPU : pc[d] = "crit" => me[d] = owner)'
  <2> SUFFICES ASSUME NEW d \in CPU, pc'[d] = "crit"
               PROVE  FALSE
    OBVIOUS
  <2>1. d # c /\ pc[d] = "crit"
    BY <1>1 DEF spin_unlock, TypeOK
  <2>2. me[d] = owner /\ d \in Active
    BY <2>1 DEF IInv, TicketWindow, Active
  <2> QED
    BY <2>1, <2>2, <1>2, <1>4 DEF IInv, TicketWindow
<1> QED
  BY <1>7, <1>8, <1>9, <1>10 DEF TicketWindow

\* IInv holds at the start and every step of the lock keeps it.
LEMMA InitIInv == Init => IInv
<1> SUFFICES ASSUME Init PROVE IInv
  OBVIOUS
<1>1. TypeOK
  BY LockAssumption DEF Init, TypeOK, Ticket
<1>2. Active = {} /\ Cardinality(Active) = 0
  <2>1. Active = {}
    BY DEF Init, Active
  <2> QED
    BY <2>1, FS_EmptySet
<1>3. Dist(next) = 0
  BY DEF Init, Dist
<1> QED
  BY <1>1, <1>2, <1>3 DEF IInv, TicketWindow, Init

LEMMA NextIInv == IInv /\ [Next]_vars => IInv'
<1> SUFFICES ASSUME IInv, [Next]_vars PROVE IInv'
  OBVIOUS
<1>1. TypeOK'
  BY TypeInductive DEF IInv
<1>2. ASSUME NEW c \in CPU, spin_lock(c) PROVE TicketWindow'
  BY <1>2, LockKeepsWindow
<1>3. ASSUME NEW c \in CPU, spin_acquired(c) PROVE TicketWindow'
  BY <1>3, AcquireKeepsWindow
<1>4. ASSUME NEW c \in CPU, spin_unlock(c) PROVE TicketWindow'
  BY <1>4, UnlockKeepsWindow
<1>5. CASE UNCHANGED vars
  <2>1. Active' = Active
    BY <1>5 DEF vars, Active
  <2>2. TicketWindow'
    BY <1>5, <2>1 DEF vars, IInv, TicketWindow, Dist
  <2> QED
    BY <1>1, <2>2 DEF IInv
<1> QED
  BY <1>1, <1>2, <1>3, <1>4, <1>5 DEF Next, IInv

-----------------------------------------------------------------------------
\* The counters and tickets of the lock always have their types: the wrap
\* of the 16-bit counters is handled.
THEOREM LockTypeCorrect == Spec => []TypeOK
<1>1. Init => TypeOK
  BY InitIInv DEF IInv
<1> QED
  BY <1>1, TypeInductive, PTL DEF Spec

\* The tickets that are out always form the window between owner and next.
THEOREM LockTicketWindow == Spec => []TicketWindow
<1>1. IInv => TicketWindow
  BY DEF IInv
<1> QED
  BY <1>1, InitIInv, NextIInv, PTL DEF Spec

\* Mutual exclusion, for every number of CPUs up to the number of tickets.
THEOREM LockMutualExclusion == Spec => []MutualExclusion
<1>1. IInv => MutualExclusion
  BY DEF IInv, TicketWindow, MutualExclusion, Active
<1> QED
  BY <1>1, InitIInv, NextIInv, PTL DEF Spec

-----------------------------------------------------------------------------
(* The ticket lock is a first-come-first-served lock                       *)

\* Every place in the queue is taken, by one CPU: n tickets that differ and
\* lie less than n places from owner leave no place free.
LEMMA PlacesTaken ==
    ASSUME IInv, NEW k \in 0 .. Cardinality(Active) - 1
    PROVE  \E c \in Active : Dist(me[c]) = k
<1> DEFINE n == Cardinality(Active)
           f == [c \in Active |-> Dist(me[c])]
<1>1. n \in Nat /\ IsFiniteSet(Active)
  BY ActiveFinite
<1>2. \A c \in Active : me[c] \in Ticket /\ Dist(me[c]) \in 0 .. n - 1
  <2> SUFFICES ASSUME NEW c \in Active
               PROVE  me[c] \in Ticket /\ Dist(me[c]) \in 0 .. n - 1
    OBVIOUS
  <2>1. me[c] \in Ticket /\ owner \in Ticket
    BY DEF IInv, TypeOK, Active
  <2>2. Dist(me[c]) \in Nat
    BY <2>1, LockAssumption DEF Dist, Ticket
  <2>3. Dist(me[c]) < n
    BY DEF IInv, TicketWindow
  <2> QED
    BY <1>1, <2>1, <2>2, <2>3
<1>3. ASSUME NEW c \in Active, NEW d \in Active, Dist(me[c]) = Dist(me[d])
      PROVE  c = d
  <2>1. me[c] = me[d]
    BY <1>2, <1>3, LockAssumption DEF Dist, Ticket, IInv, TypeOK
  <2> QED
    BY <2>1 DEF IInv, TicketWindow
<1>4. f \in Injection(Active, 0 .. n - 1)
  BY <1>2, <1>3 DEF Injection, IsInjective
<1>5. IsFiniteSet(0 .. n - 1) /\ Cardinality(0 .. n - 1) = n
  BY <1>1, FS_Interval
<1> HIDE DEF f, n
<1>6. f \in Surjection(Active, 0 .. n - 1)
  BY <1>4, <1>5, FS_Injection DEF n
<1>7. \E c \in Active : f[c] = k
  BY <1>6 DEF Surjection, n
<1> QED
  BY <1>7 DEF f

\* What LockQueue is: a sequence of the CPUs in the lock, each at the place
\* that its ticket says.
QueueFacts ==
    /\ LockQueue \in Seq(CPU)
    /\ Len(LockQueue) = Cardinality(Active)
    /\ DOMAIN LockQueue = 1 .. Cardinality(Active)
    /\ \A j \in 1 .. Cardinality(Active) :
          LockQueue[j] \in Active /\ Dist(me[LockQueue[j]]) = j - 1
    /\ \A j \in 1 .. Cardinality(Active) : \A c \in Active :
          Dist(me[c]) = j - 1 => LockQueue[j] = c

LEMMA QueueIs == IInv => QueueFacts
<1> SUFFICES ASSUME IInv PROVE QueueFacts
  OBVIOUS
<1> DEFINE n == Cardinality(Active)
<1>1. n \in Nat
  BY ActiveFinite
<1>2. ASSUME NEW j \in 1 .. n
      PROVE  LockQueue[j] \in Active /\ Dist(me[LockQueue[j]]) = j - 1
  <2>1. j - 1 \in 0 .. n - 1
    BY <1>1
  <2>2. \E c \in Active : Dist(me[c]) = j - 1
    BY <2>1, PlacesTaken
  <2>3. LockQueue[j] = CHOOSE c \in Active : Dist(me[c]) = j - 1
    BY DEF LockQueue
  <2> QED
    BY <2>2, <2>3
<1>3. DOMAIN LockQueue = 1 .. n /\ LockQueue = [j \in 1 .. n |-> LockQueue[j]]
  BY DEF LockQueue
<1>4. LockQueue \in [1 .. n -> CPU]
  BY <1>2, <1>3 DEF Active
<1>5. LockQueue \in Seq(CPU)
  BY <1>1, <1>4, SeqDef
<1>6. Len(LockQueue) = n
  BY <1>1, <1>3, <1>5, LenProperties
<1>7. ASSUME NEW j \in 1 .. n, NEW c \in Active, Dist(me[c]) = j - 1
      PROVE  LockQueue[j] = c
  <2> DEFINE d == LockQueue[j]
  <2>1. d \in Active /\ Dist(me[d]) = Dist(me[c])
    BY <1>2, <1>7
  <2>2. me[c] \in Ticket /\ me[d] \in Ticket /\ owner \in Ticket
    BY <2>1 DEF IInv, TypeOK, Active
  <2>3. me[c] = me[d]
    BY <2>1, <2>2, LockAssumption DEF Dist, Ticket
  <2> QED
    BY <2>1, <2>3 DEF IInv, TicketWindow
<1> QED
  BY <1>2, <1>3, <1>5, <1>6, <1>7 DEF QueueFacts

\* The fetch_add of spin_lock appends the CPU to the queue.
LEMMA LockIsRequest ==
    ASSUME IInv, IInv', NEW c \in CPU, spin_lock(c)
    PROVE  FifoLock!Request(c)
<1> DEFINE n == Cardinality(Active)
<1>1. QueueFacts /\ (QueueFacts)'
  BY QueueIs, PTL
<1>2. c \notin Active /\ Active' = Active \cup {c}
  BY DEF Active, spin_lock, IInv, TypeOK
<1>3. Cardinality(Active)' = n + 1 /\ n \in Nat
  BY <1>2, ActiveFinite, FS_AddElement
<1>4. me'[c] = next /\ \A d \in Active : me'[d] = me[d]
  BY <1>2 DEF spin_lock, IInv, TypeOK, Active
<1>5. owner' = owner
  BY DEF spin_lock
<1>6. ASSUME NEW j \in 1 .. n PROVE LockQueue'[j] = LockQueue[j]
  <2>0. PICK d : d = LockQueue[j]
    OBVIOUS
  <2>1. d \in Active /\ Dist(me[d]) = j - 1
    BY <1>1, <2>0 DEF QueueFacts
  <2>2. d \in Active' /\ me'[d] = me[d]
    BY <1>2, <1>4, <2>1
  <2>3. Dist(me[d])' = j - 1
    BY <1>5, <2>1, <2>2 DEF Dist
  <2>4. j \in 1 .. Cardinality(Active)'
    BY <1>3
  <2>5. LockQueue'[j] = d
    BY <1>1, <2>2, <2>3, <2>4 DEF QueueFacts
  <2> QED
    BY <2>0, <2>5
<1>7. LockQueue'[n + 1] = c
  <2>0. PICK d : d = LockQueue'[n + 1]
    OBVIOUS
  <2>1. n + 1 \in 1 .. Cardinality(Active)'
    BY <1>3
  <2>2. d \in Active' /\ (n + 1) - 1 = n
    BY <1>1, <1>3, <2>0, <2>1 DEF QueueFacts
  <2>3. Dist(me[d])' = (n + 1) - 1
    BY <1>1, <2>0, <2>1 DEF QueueFacts
  <2>4. CASE d \in Active
    <3>1. Dist(me[d]) < n /\ me'[d] = me[d]
      BY <1>4, <2>4 DEF IInv, TicketWindow
    <3>2. Dist(me[d])' = Dist(me[d])
      BY <1>5, <3>1 DEF Dist
    <3> QED
      BY <2>2, <2>3, <3>1, <3>2, <1>3
  <2> QED
    BY <1>2, <2>0, <2>2, <2>4
<1>8. LockQueue' = Append(LockQueue, c)
  <2>1. Append(LockQueue, c) \in Seq(CPU)
        /\ Len(Append(LockQueue, c)) = n + 1
        /\ \A j \in 1 .. n : Append(LockQueue, c)[j] = LockQueue[j]
        /\ Append(LockQueue, c)[n + 1] = c
    BY <1>1, AppendProperties DEF QueueFacts
  <2>2. LockQueue' \in Seq(CPU) /\ Len(LockQueue') = n + 1
    BY <1>1, <1>3 DEF QueueFacts
  <2>3. \A j \in 1 .. n + 1 : LockQueue'[j] = Append(LockQueue, c)[j]
    BY <2>1, <1>3, <1>6, <1>7
  <2> QED
    BY <2>1, <2>2, <2>3, SeqEqual
<1>9. \A i \in DOMAIN LockQueue : LockQueue[i] # c
  BY <1>1, <1>2 DEF QueueFacts
<1>10. {d \in CPU : pc[d] = "crit"}' = {d \in CPU : pc[d] = "crit"}
  BY DEF spin_lock, IInv, TypeOK
<1> QED
  BY <1>8, <1>9, <1>10 DEF FifoLock!Request

\* The CPU that leaves the loop is the head of the queue, and finds nobody
\* inside.
LEMMA AcquireIsEnter ==
    ASSUME IInv, IInv', NEW c \in CPU, spin_acquired(c)
    PROVE  FifoLock!Enter(c)
<1> DEFINE n == Cardinality(Active)
<1>1. QueueFacts /\ n \in Nat
  BY QueueIs, ActiveFinite
<1>2. c \in Active /\ pc[c] = "spin" /\ me[c] = owner /\ me' = me
      /\ owner' = owner /\ Active' = Active
  BY DEF Active, spin_acquired, IInv, TypeOK
<1>3. Dist(me[c]) = 0
  BY <1>2 DEF Dist, IInv, TypeOK, Ticket
<1>4. 1 \in 1 .. n
  BY <1>1, <1>2, <1>3 DEF IInv, TicketWindow
<1>5. LockQueue[1] = c
  BY <1>1, <1>2, <1>3, <1>4 DEF QueueFacts
<1>6. LockQueue # <<>> /\ c = Head(LockQueue)
  BY <1>1, <1>4, <1>5, EmptySeq, HeadTailProperties DEF QueueFacts
<1>7. {d \in CPU : pc[d] = "crit"} = {}
  <2> SUFFICES ASSUME NEW d \in CPU, pc[d] = "crit"
               PROVE  FALSE
    OBVIOUS
  <2>1. d \in Active /\ me[d] = owner
    BY DEF IInv, TicketWindow, Active
  <2> QED
    BY <1>2, <2>1 DEF IInv, TicketWindow
<1>8. {d \in CPU : pc[d] = "crit"}' = {c}
  BY <1>7 DEF spin_acquired, IInv, TypeOK
<1>9. LockQueue' = LockQueue
  BY <1>2 DEF LockQueue, Dist
<1> QED
  BY <1>6, <1>7, <1>8, <1>9 DEF FifoLock!Enter

\* The increment of owner takes the head off the queue.
LEMMA UnlockIsLeave ==
    ASSUME IInv, IInv', NEW c \in CPU, spin_unlock(c)
    PROVE  FifoLock!Leave(c)
<1> DEFINE n == Cardinality(Active)
<1>1. QueueFacts /\ (QueueFacts)'
  BY QueueIs, PTL
<1>2. c \in Active /\ Active' = Active \ {c}
  BY DEF Active, spin_unlock, IInv, TypeOK
<1>3. Cardinality(Active)' = n - 1 /\ n \in Nat
  BY <1>2, ActiveFinite, FS_RemoveElement
<1>4. me' = me /\ me[c] = owner /\ owner' = Inc(owner)
  BY DEF IInv, TicketWindow, spin_unlock
<1>5. Dist(me[c]) = 0
  BY <1>4 DEF Dist, IInv, TypeOK, Ticket
<1>6. n >= 1
  BY <1>2, <1>3, <1>5 DEF IInv, TicketWindow
<1>7. ASSUME NEW j \in 1 .. n - 1 PROVE LockQueue'[j] = LockQueue[j + 1]
  <2>0. PICK d : d = LockQueue[j + 1]
    OBVIOUS
  <2>1. j + 1 \in 1 .. n /\ j \in 1 .. Cardinality(Active)' /\ (j + 1) - 1 = j
    BY <1>3
  <2>2. d \in Active /\ Dist(me[d]) = j
    BY <1>1, <2>0, <2>1 DEF QueueFacts
  <2>3. d # c
    BY <1>5, <2>2
  <2>4. d \in Active' /\ me[d] # owner /\ me[d] \in Ticket
    BY <1>2, <1>4, <2>2, <2>3 DEF IInv, TicketWindow, TypeOK, Active
  <2>5. Dist(me[d])' = (IF me[d] >= owner' THEN me[d] - owner'
                        ELSE me[d] + TICKETS - owner')
    BY <1>4 DEF Dist
  <2>6. Dist(me[d])' = j - 1
    BY <1>4, <2>2, <2>4, <2>5, LockAssumption
    DEF Dist, Inc, IInv, TypeOK, Ticket
  <2>7. LockQueue'[j] = d
    BY <1>1, <2>1, <2>4, <2>6 DEF QueueFacts
  <2> QED
    BY <2>0, <2>7
<1>8. LockQueue' = Tail(LockQueue)
  <2>1. LockQueue # <<>>
    BY <1>1, <1>6, EmptySeq DEF QueueFacts
  <2>2. Tail(LockQueue) \in Seq(CPU)
        /\ Len(Tail(LockQueue)) = n - 1
        /\ \A j \in 1 .. n - 1 : Tail(LockQueue)[j] = LockQueue[j + 1]
    BY <1>1, <2>1, HeadTailProperties DEF QueueFacts
  <2>3. LockQueue' \in Seq(CPU) /\ Len(LockQueue') = n - 1
    BY <1>1, <1>3 DEF QueueFacts
  <2> QED
    BY <2>2, <2>3, <1>7, SeqEqual
<1>9. {d \in CPU : pc[d] = "crit"} = {c}
  BY DEF spin_unlock, IInv, TicketWindow, Active
<1>10. {d \in CPU : pc[d] = "crit"}' = {}
  BY <1>9 DEF spin_unlock, IInv, TypeOK
<1> QED
  BY <1>8, <1>9, <1>10 DEF FifoLock!Leave

\* The ticket lock implements the first-come-first-served lock: the order in
\* which CPUs execute the fetch_add is the order in which they enter, for
\* every number of CPUs and however often the counters wrap.
THEOREM LockFirstComeFirstServed == Spec => FirstComeFirstServed
<1>1. Init => FifoLock!Init
  <2> SUFFICES ASSUME Init PROVE FifoLock!Init
    OBVIOUS
  <2>1. Active = {} /\ Cardinality(Active) = 0
    <3>1. Active = {}
      BY DEF Init, Active
    <3> QED
      BY <3>1, FS_EmptySet
  <2>2. LockQueue \in Seq(CPU) /\ Len(LockQueue) = 0
    BY <2>1, InitIInv, QueueIs DEF QueueFacts
  <2>3. LockQueue = <<>>
    BY <2>2, EmptySeq
  <2>4. {c \in CPU : pc[c] = "crit"} = {}
    BY DEF Init
  <2> QED
    BY <2>3, <2>4 DEF FifoLock!Init
<1>2. IInv /\ [Next]_vars => [FifoLock!Next]_(FifoLock!vars)
  <2> SUFFICES ASSUME IInv, [Next]_vars
               PROVE  [FifoLock!Next]_(FifoLock!vars)
    OBVIOUS
  <2>1. IInv'
    BY NextIInv
  <2>2. ASSUME NEW c \in CPU, spin_lock(c) PROVE FifoLock!Next
    BY <2>1, <2>2, LockIsRequest DEF FifoLock!Next
  <2>3. ASSUME NEW c \in CPU, spin_acquired(c) PROVE FifoLock!Next
    BY <2>1, <2>3, AcquireIsEnter DEF FifoLock!Next
  <2>4. ASSUME NEW c \in CPU, spin_unlock(c) PROVE FifoLock!Next
    BY <2>1, <2>4, UnlockIsLeave DEF FifoLock!Next
  <2>5. CASE UNCHANGED vars
    <3>1. Active' = Active
      BY <2>5 DEF vars, Active
    <3>2. LockQueue' = LockQueue
      BY <2>5, <3>1 DEF vars, LockQueue, Dist
    <3>3. {c \in CPU : pc[c] = "crit"}' = {c \in CPU : pc[c] = "crit"}
      BY <2>5 DEF vars
    <3> QED
      BY <3>2, <3>3 DEF FifoLock!vars
  <2> QED
    BY <2>2, <2>3, <2>4, <2>5 DEF Next
<1> QED
  BY <1>1, <1>2, InitIInv, NextIInv, PTL
  DEF Spec, FirstComeFirstServed, FifoLock!Spec
=============================================================================

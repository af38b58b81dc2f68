----------------------------- MODULE Rendezvous -----------------------------
(***************************************************************************)
(* What the synchronization around mtrr_config promises: no CPU changes    *)
(* its memory types before every CPU has stopped to wait, and none goes on *)
(* before every CPU has changed them.  A CPU that failed is not waited for.*)
(***************************************************************************)
CONSTANT Member       \* the CPUs that take part

VARIABLE stage        \* stage[c]: where c is with respect to the update

Stages == {"before", "waiting", "updated", "past", "failed"}

Init == stage = [c \in Member |-> "before"]

Arrive(c) ==
    /\ stage[c] = "before"
    /\ stage' = [stage EXCEPT ![c] = "waiting"]

Fail(c) ==
    /\ stage[c] = "before"
    /\ stage' = [stage EXCEPT ![c] = "failed"]

Update(c) ==
    /\ stage[c] = "waiting"
    /\ \A m \in Member : stage[m] # "before"
    /\ stage' = [stage EXCEPT ![c] = "updated"]

Leave(c) ==
    /\ stage[c] = "updated"
    /\ \A m \in Member : stage[m] \in {"updated", "past", "failed"}
    /\ stage' = [stage EXCEPT ![c] = "past"]

Next == \E c \in Member : Arrive(c) \/ Fail(c) \/ Update(c) \/ Leave(c)

Spec == Init /\ [][Next]_stage
=============================================================================

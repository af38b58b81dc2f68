----------------------------- MODULE MCConsole -----------------------------
(***************************************************************************)
(* Conversions for TLC, three binary digits: numbers of one, two and three *)
(* digits, 0 and a negative one, widths and precisions up to one more than *)
(* the digits there are.                                                   *)
(***************************************************************************)
EXTENDS Console

MCArgs ==
    {[x |-> x, width |-> w, precision |-> p, padding |-> z] :
        x \in {-2, 0, 1, 2, 5}, w \in 0 .. 4, p \in {0, 2, 3, 4}, z \in {SPACE, 0}}
=============================================================================

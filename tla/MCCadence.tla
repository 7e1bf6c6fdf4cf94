------------------------------ MODULE MCCadence ------------------------------
(* Cadence on small instances: a provider like Codex, whose floor is the      *)
(* shortest one, and one like the others, whose floor is twice as long.       *)
EXTENDS Cadence, TLC

CONSTANTS p1, p2

TwoFloors == p1 :> 1 @@ p2 :> 2
==============================================================================

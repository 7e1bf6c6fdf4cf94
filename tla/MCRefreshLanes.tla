--------------------------- MODULE MCRefreshLanes ---------------------------
(* RefreshLanes on small instances.  Callers and providers are               *)
(* interchangeable, which the safety runs use as a symmetry.  Slots are not  *)
(* a symmetry set, because FreeSlot chooses among them; the temporal runs    *)
(* use no symmetry.                                                          *)
EXTENDS RefreshLanes, TLC

Symmetry == Permutations(Callers) \cup Permutations(Provider)
=============================================================================

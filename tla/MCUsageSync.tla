----------------------------- MODULE MCUsageSync -----------------------------
(* UsageSync on small instances.  Requests are interchangeable. *)
EXTENDS UsageSync, TLC

Symmetry == Permutations(Flight)
===============================================================================

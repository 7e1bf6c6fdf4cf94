---------------------------- MODULE MCHistorySync ----------------------------
(* HistorySync on small instances: windows of four buckets and of two. *)
EXTENDS HistorySync, TLC

CONSTANTS d1, d2

Alone == d1 :> 4
Disagree == d1 :> 4 @@ d2 :> 2
===============================================================================

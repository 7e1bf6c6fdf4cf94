----------------------------- MODULE MCUsageScan -----------------------------
(***************************************************************************)
(* UsageScan on small instances, and the events they allow.                *)
(***************************************************************************)
EXTENDS UsageScan

(* Agents only append; everything but a cancelled scan may happen around them. *)
OnlyGrows == {"torn", "open", "remove", "hidden", "fail", "cut", "cache"}

(* Logs are rewritten, lines are malformed, scans are cancelled. *)
AnythingGoes == OnlyGrows \cup {"bad", "rewrite", "stop"}
===============================================================================

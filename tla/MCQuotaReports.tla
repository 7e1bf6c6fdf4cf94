---------------------------- MODULE MCQuotaReports ----------------------------
(* QuotaReports on small instances. *)
EXTENDS QuotaReports, TLC
===============================================================================

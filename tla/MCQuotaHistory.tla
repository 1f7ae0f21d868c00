--------------------------- MODULE MCQuotaHistory ---------------------------
(***************************************************************************)
(* The small instances of QuotaManager, with the history variable.         *)
(***************************************************************************)
EXTENDS MCQuotaManager, QuotaHistory
=============================================================================

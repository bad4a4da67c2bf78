---------------------------- MODULE MCSettlement ----------------------------
(***************************************************************************)
(* The bound of the configuration.  Tickets do not meet in this module, so *)
(* that one ticket, of either kind, shows what any number of them do.      *)
(***************************************************************************)
EXTENDS Settlement

CONSTANT t1
=============================================================================

----------------------------- MODULE MCHedgeEod ------------------------------
(***************************************************************************)
(* Values for the constants of HedgeEod that a configuration file cannot   *)
(* write.                                                                  *)
(***************************************************************************)
EXTENDS HedgeEod

CONSTANTS l1, l2, d1, d2

Separate == {{l1, l2}, {d1, d2}}
Mixed == {{l1, d1}}
Hedges == {-24, 24, 72}
Trades == {-48, 48}
=============================================================================

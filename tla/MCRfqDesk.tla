------------------------------ MODULE MCRfqDesk ------------------------------
(***************************************************************************)
(* The names of the instance for TLC.  Tickets share only the EMS's        *)
(* attention, so that one of them shows what any number of them do.        *)
(***************************************************************************)
EXTENDS RfqDesk

CONSTANTS t1, w1, w2, good
=============================================================================

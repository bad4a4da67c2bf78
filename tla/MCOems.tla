------------------------------- MODULE MCOems -------------------------------
(***************************************************************************)
(* Values for the constants of Oems that a configuration file cannot write.*)
(***************************************************************************)
EXTENDS OemsDesk, TLC

TicketSymmetry == Permutations(Ticket)
ClientSymmetry == Permutations(Client)
=============================================================================

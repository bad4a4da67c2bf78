------------------------------ MODULE DealDesk ------------------------------
(***************************************************************************)
(* What the order path promises about a ticket, whatever processes, copies *)
(* and messages it is made of: a quote may become an order, an order is    *)
(* handed to the execution desk once, the desk deals it once or gives it   *)
(* up, and what is dealt or over stays so.  OemsDesk shows that Oems keeps *)
(* the promise while nobody dies and no old row is written back.           *)
(***************************************************************************)
EXTENDS Naturals

CONSTANT Ticket

VARIABLES
  stage,   \* how far the ticket has come
  deals    \* deals made for it

deskVars == <<stage, deals>>

Stages == {"none", "quoted", "ordered", "sent", "dealt", "over"}

Move(t, from, to) ==
  /\ stage[t] \in from
  /\ stage' = [stage EXCEPT ![t] = to]

\* A client gets a quote, or a refusal.
Quote(t) ==
  /\ Move(t, {"none"}, "quoted") \/ Move(t, {"none"}, "over")
  /\ UNCHANGED deals

\* A client orders, on a quote or without one.
Order(t) == Move(t, {"none", "quoted"}, "ordered") /\ UNCHANGED deals

\* The order goes to the desk that executes it.
Send(t) == Move(t, {"ordered"}, "sent") /\ UNCHANGED deals

\* Whatever was not dealt may be refused, cancelled or expire.
GiveUp(t) == Move(t, {"quoted", "ordered", "sent"}, "over") /\ UNCHANGED deals

Deal(t) ==
  /\ Move(t, {"sent"}, "dealt")
  /\ deals' = [deals EXCEPT ![t] = @ + 1]

Init ==
  /\ stage = [t \in Ticket |-> "none"]
  /\ deals = [t \in Ticket |-> 0]

Next == \E t \in Ticket : Quote(t) \/ Order(t) \/ Send(t) \/ GiveUp(t) \/ Deal(t)

Spec == Init /\ [][Next]_deskVars

\* What was sent is dealt or given up in the end.
Resolved == \A t \in Ticket : stage[t] = "sent" ~> stage[t] \in {"dealt", "over"}

LiveSpec == Spec /\ Resolved
=============================================================================

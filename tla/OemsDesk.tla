------------------------------ MODULE OemsDesk ------------------------------
(***************************************************************************)
(* Oems implements DealDesk.  How far a ticket has come is read off the    *)
(* places that can still make something of it: the deals booked, the EMS's *)
(* topic and job, then the requests and the OMS's copy that can still lead *)
(* to a CREATE, and last the row.  The state in the row alone does not     *)
(* say: it reads CANCELED while the EMS is executing, or RFQ_DONE.         *)
(***************************************************************************)
EXTENDS Oems

\* The EMS has the ticket, or will read of it.
AtTheDesk(t) ==
  \/ job[t] # "idle"
  \/ \E i \in 1..Len(emsQ) : emsQ[i].t = t

\* A copy the OMS may still send: a draft, a ticket before its dispatch.
Sendable(tk) ==
  /\ Exists(tk)
  /\ tk.phase = "PRETRADE"
  /\ tk.internal_state \notin OmsTerminal \cup {"ERROR"}

\* The OMS has an order to send, or will read of one.
Ordered(t) ==
  \/ Sendable(oms[t])
  \/ \E i \in 1..Len(apiQ) : apiQ[i].t = t /\ apiQ[i].op \in {"CREATE", "EXECUTE_RFQ"}

\* Somebody can still execute the quote, or is about to.
Quoted(t) ==
  /\ row[t].action = "rfq"
  /\ row[t].internal_state = "RFQ_DONE"

Stage(t) ==
  IF booked[t] > 0 THEN "dealt"
  ELSE IF AtTheDesk(t) THEN "sent"
  ELSE IF Ordered(t) THEN "ordered"
  ELSE IF Quoted(t) THEN "quoted"
  ELSE IF Exists(row[t]) THEN "over" ELSE "none"

Desk == INSTANCE DealDesk WITH
          stage <- [t \in Ticket |-> Stage(t)],
          deals <- booked

\* The order path implements the desk: each ticket is ordered, sent and dealt
\* at most once and in that order, and a ticket that is over is never dealt,
\* whatever controls, expiries and stale copies are at work.
ImplementsDealDesk == Desk!Spec

\* And the processes' fairness brings what was sent to an end: dealt, or over.
ImplementsLiveDesk == Desk!LiveSpec
=============================================================================

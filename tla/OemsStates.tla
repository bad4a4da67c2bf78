----------------------------- MODULE OemsStates -----------------------------
(***************************************************************************)
(* The vocabulary of the order management backend: the internal and        *)
(* external states of a ticket, the groups of states its guards test, and  *)
(* the ticket record that the database row, the OMS cache, the EMS cache   *)
(* and the queue messages all hold a copy of.                              *)
(***************************************************************************)

\* The internal states the modelled handlers test or assign.  "NONE" stands
\* for a ticket that has not been created (there is no such row).
InternalStates ==
  {"NONE", "NEW", "DRAFT", "PENDAUTH", "PENDMARGIN", "PENDFUNDS", "SCHEDULED",
   "WAITING", "ACCEPTED", "WORKING", "PARTIAL", "PEND_RFQ", "RFQ_DONE",
   "FILLED", "PTLCANCEL", "PENDSETTLE", "PENDBENE", "PENDRECON", "DONE",
   "DONE_PENDSETTLE", "ERROR", "FAILED", "EXPIRED", "CANCELED",
   "BOOKING_FAILURE", "SETTLE_FAIL"}

OmsTerminal == {"DONE", "FAILED", "CANCELED", "EXPIRED", "RFQ_DONE", "DONE_PENDSETTLE"}
EmsTerminal == {"DONE", "FAILED", "CANCELED", "EXPIRED", "RFQ_DONE"}

Cancellable ==
  {"NEW", "DRAFT", "PENDAUTH", "PENDMARGIN", "SCHEDULED", "WAITING", "ACCEPTED",
   "RFQ_DONE", "PEND_RFQ"}
Pauseable ==
  {"NEW", "DRAFT", "PENDAUTH", "PENDMARGIN", "SCHEDULED", "WAITING", "ACCEPTED"}

SettlementStates == {"FILLED", "PTLCANCEL"}

\* States a ticket reaches only after its deal has been booked.
PostTrade ==
  SettlementStates \cup {"PENDSETTLE", "PENDBENE", "PENDRECON", "DONE",
                         "DONE_PENDSETTLE", "BOOKING_FAILURE", "SETTLE_FAIL"}

ExternalStates ==
  {"NONE", "PENDING", "ACTIVE", "PAUSED", "PENDCANCEL", "CANCELED", "DONE", "FAILED"}

Phases == {"PRETRADE", "WORKING", "SETTLE", "RECON"}
Trading == {"PRETRADE", "WORKING"}

Actions == {"rfq", "execute"}

\* One copy of a ticket, cut down to the fields the handlers test or write.
\* The owners are booleans: one OMS and one EMS serve these tickets, and the
\* field is either that process's id or None.
TicketRec ==
  [internal_state : InternalStates,
   external_state : ExternalStates,
   phase          : Phases,
   action         : Actions,
   oms_owner      : BOOLEAN,
   ems_owner      : BOOLEAN,
   paused         : BOOLEAN,
   auth_user      : BOOLEAN,
   quote_id       : BOOLEAN]

NoTicket ==
  [internal_state |-> "NONE", external_state |-> "NONE", phase |-> "PRETRADE",
   action |-> "rfq", oms_owner |-> FALSE, ems_owner |-> FALSE, paused |-> FALSE,
   auth_user |-> FALSE, quote_id |-> FALSE]

Exists(tk) == tk.internal_state # "NONE"

(***************************************************************************)
(* Ticket.save: __setattr__ records which fields of a copy changed since   *)
(* the last save or refresh, and save() UPDATEs only those columns.  "was" *)
(* is the copy as it was last clean, "now" the copy being saved, "r" the   *)
(* row, whose other columns keep what other processes wrote.               *)
(***************************************************************************)
Dirty(was, now, r) == IF now # was THEN now ELSE r

\* Faulty variant: every column is written, as Django's own save() does.
SavedWhole(was, now, r) == now

Saved(was, now, r) ==
  [internal_state |-> Dirty(was.internal_state, now.internal_state, r.internal_state),
   external_state |-> Dirty(was.external_state, now.external_state, r.external_state),
   phase          |-> Dirty(was.phase, now.phase, r.phase),
   action         |-> Dirty(was.action, now.action, r.action),
   oms_owner      |-> Dirty(was.oms_owner, now.oms_owner, r.oms_owner),
   ems_owner      |-> Dirty(was.ems_owner, now.ems_owner, r.ems_owner),
   paused         |-> Dirty(was.paused, now.paused, r.paused),
   auth_user      |-> Dirty(was.auth_user, now.auth_user, r.auth_user),
   quote_id       |-> Dirty(was.quote_id, now.quote_id, r.quote_id)]
=============================================================================

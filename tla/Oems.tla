-------------------------------- MODULE Oems --------------------------------
(***************************************************************************)
(* The order path of the OEMS: API views, one OMS process, one execution   *)
(* EMS process and the broker, over a shared ticket table and three queue  *)
(* topics of one database table.                                           *)
(*                                                                         *)
(* Every process works on its own cached copy of a ticket.  A copy is      *)
(* written back column by column (Saved), re-read only when a message from *)
(* the other process arrives, and handed to the other process as a         *)
(* snapshot inside a message.  The steps of the model are the handlers;    *)
(* a handler that waits for the broker in the middle is split where it     *)
(* waits, and every database commit inside a handler is a place where the  *)
(* process may die.                                                        *)
(***************************************************************************)
EXTENDS OemsStates, Naturals, Sequences

CONSTANTS
  Ticket,      \* ticket ids
  Client,      \* API threads that can execute a quoted ticket at the same time
  Routed,      \* tickets with a destination (the tickets command creates some without)
  Dated,       \* tickets with an end_time
  MassPaid,    \* tickets that may have several beneficiaries (quoted as a mass payment, CORPAY_MP)
  Outright,    \* NDFs, and forwards at Monex
  Ops,         \* requests clients make about a ticket they have: a subset of ClientOps
  MaxAsks,     \* bound: control requests and quote refreshes per ticket
  MaxRestarts  \* bound: process deaths, of the OMS, the EMS and API workers together

ControlOps == {"CANCEL", "PAUSE", "RESUME", "ACTIVATE", "AUTHORIZE"}
ClientOps == ControlOps \cup {"REFRESH"}

ASSUME ConstantsAssumption ==
  /\ Routed \subseteq Ticket
  /\ Dated \subseteq Ticket
  /\ MassPaid \subseteq Ticket
  /\ Outright \subseteq Ticket
  /\ Ops \subseteq ClientOps
  /\ MaxAsks \in Nat
  /\ MaxRestarts \in Nat

VARIABLES
  row,       \* oems_ticket: the ticket table
  oms,       \* the OMS's cached copies (OmsBase.tickets)
  ems,       \* the EMS's cached copies (EmsBase.tickets)
  job,       \* where the EMS stands in do_accept for a ticket
  apiQ,      \* topic api2oms: requests from the API
  emsQ,      \* topic oms2ems_<destination>: CREATE messages, with a snapshot
  notes,     \* topic ems2oms_<oms>: notifications waiting, per ticket
  req,       \* an API thread between reading a ticket and saving its copy of it
  ended,     \* the ticket's end_time has passed
  lapsed,    \* the ticket's external quote has expired
  asks,      \* control requests and refreshes so far
  admitted,  \* times the OMS has taken the ticket in (CREATE or EXECUTE_RFQ)
  sent,      \* times the OMS has sent the ticket to the EMS
  taken,     \* times the EMS has taken the ticket in
  booked,    \* deals the broker has booked for the ticket
  overwrites,\* times an API thread wrote its old copy over a ticket being executed
  restarts   \* process deaths so far

dbVars == <<row, apiQ, emsQ, notes>>
envVars == <<ended, lapsed>>
countVars == <<asks, admitted, sent, taken, booked, overwrites, restarts>>
vars == <<row, apiQ, emsQ, notes, oms, ems, job, req, ended, lapsed,
          asks, admitted, sent, taken, booked, overwrites, restarts>>

Held(t) == Exists(oms[t])        \* the OMS has the ticket in its cache
Working(t) == Exists(ems[t])     \* the EMS has the ticket in its cache
EmsIdle == \A t \in Ticket : job[t] = "idle"

\* A control request carries a snapshot too, but the OMS reads only its id.
\* Every kind of EMS notification is handled the same way, by re-reading the
\* row, so only how many are waiting is kept.
ApiMsg == [t : Ticket, op : ControlOps \cup {"CREATE", "EXECUTE_RFQ"}, tk : TicketRec]
EmsMsg == [t : Ticket, tk : TicketRec]
Reading == [t : Ticket, op : {"EXECUTE_RFQ", "REFRESH"}, tk : TicketRec]
NoReq == [t |-> "none", op |-> "NONE", tk |-> NoTicket]

-----------------------------------------------------------------------------
(***************************************************************************)
(* API views                                                               *)
(***************************************************************************)

\* The row an API call writes for a new ticket.
NewTicket(action, state, auth, quote) ==
  [NoTicket EXCEPT !.internal_state = state, !.external_state = "PENDING",
                   !.action = action, !.auth_user = auth, !.quote_id = quote]

\* ExecuteSerializer.save: insert the ticket, NEW or DRAFT, and enqueue CREATE
\* with a copy of it.  The view puts auth_user in the payload, the trading
\* provider does not (it sets it after the copy was enqueued, and never saves).
CreateExecute(t) ==
  /\ ~Exists(row[t])
  /\ \E state \in {"NEW", "DRAFT"}, auth \in BOOLEAN :
       LET tk == NewTicket("execute", state, auth, FALSE) IN
       /\ row' = [row EXCEPT ![t] = tk]
       /\ apiQ' = Append(apiQ, [t |-> t, op |-> "CREATE", tk |-> tk])
  /\ UNCHANGED <<emsQ, notes, oms, ems, job, req, envVars, countVars>>

\* What a quote from the broker makes of a ticket.
Requoted(tk) ==
  [tk EXCEPT !.internal_state = "RFQ_DONE", !.quote_id = TRUE, !.phase = "PRETRADE",
             !.external_state = IF tk.action = "rfq" THEN "DONE" ELSE "PENDING"]

\* RfqSerializer.save in an API-quoted market: the quote is fetched in the
\* request.  RFQ_DONE is saved with it; a failed fetch saves nothing more (or
\* FAILED, when it ended in an exception) and the OMS never hears of the ticket.
CreateRfq(t) ==
  /\ ~Exists(row[t])
  /\ \/ row' = [row EXCEPT ![t] = Requoted(NewTicket("rfq", "NEW", FALSE, FALSE))]
     \/ \E state \in {"NEW", "FAILED"} :
          row' = [row EXCEPT ![t] = NewTicket("rfq", state, FALSE, FALSE)]
  /\ UNCHANGED <<apiQ, emsQ, notes, oms, ems, job, req, envVars, countVars>>

\* do_execute_rfq up to its calls to the configuration service and the broker:
\* the guards are evaluated on the row read here.
ReadQuoted(c, t) ==
  /\ req[c] = NoReq
  /\ row[t].action = "rfq"
  /\ row[t].quote_id
  /\ ~lapsed[t]
  /\ row[t].internal_state = "RFQ_DONE"
  /\ req' = [req EXCEPT ![c] = [t |-> t, op |-> "EXECUTE_RFQ", tk |-> row[t]]]
  /\ UNCHANGED <<dbVars, oms, ems, job, envVars, countVars>>

\* refresh_rfq up to its call to the broker: any ticket of the company will do.
ReadToRefresh(c, t) ==
  /\ "REFRESH" \in Ops
  /\ asks[t] < MaxAsks
  /\ req[c] = NoReq
  /\ Exists(row[t])
  /\ req' = [req EXCEPT ![c] = [t |-> t, op |-> "REFRESH", tk |-> row[t]]]
  /\ asks' = [asks EXCEPT ![t] = @ + 1]
  /\ UNCHANGED <<dbVars, oms, ems, job, envVars, admitted, sent, taken, booked, overwrites, restarts>>

\* Both end in a Django save() of that copy.  It writes every column, so that an
\* old copy also undoes what was done to a ticket that is being executed already.
SaveRequest(c, op, tk) ==
  LET t == req[c].t
  IN /\ req[c] # NoReq
     /\ req[c].op = op
     /\ row' = [row EXCEPT ![t] = tk]
     /\ overwrites' = [overwrites EXCEPT ![t] = @ + (IF row[t].action = "execute" THEN 1 ELSE 0)]
     /\ req' = [req EXCEPT ![c] = NoReq]

Executing(tk, state) ==
  [tk EXCEPT !.action = "execute", !.auth_user = TRUE, !.internal_state = state]

Execution(c) ==
  [Executing(req[c].tk, "ACCEPTED") EXCEPT !.external_state = "ACTIVE", !.phase = "PRETRADE"]

\* do_execute_rfq from there on: save ACCEPTED and enqueue EXECUTE_RFQ.
CommitExecute(c) ==
  /\ SaveRequest(c, "EXECUTE_RFQ", Execution(c))
  /\ apiQ' = Append(apiQ, [t |-> req[c].t, op |-> "EXECUTE_RFQ", tk |-> Execution(c)])
  /\ UNCHANGED <<emsQ, notes, oms, ems, job, envVars, asks, admitted, sent, taken, booked, restarts>>

\* ... or the broker's pre-execution check refuses, and saves FAILED.
RefuseExecute(c) ==
  /\ SaveRequest(c, "EXECUTE_RFQ", Executing(req[c].tk, "FAILED"))
  /\ UNCHANGED <<apiQ, emsQ, notes, oms, ems, job, envVars,
                 asks, admitted, sent, taken, booked, restarts>>

\* refresh_rfq from there on: the states start over, whatever they were.  A new
\* quote is saved, and so is the failure when the broker module raised.
Unquoted(tk) ==
  [tk EXCEPT !.internal_state = "FAILED", !.external_state = "PENDING", !.phase = "PRETRADE"]

CommitRefresh(c) ==
  /\ \/ /\ SaveRequest(c, "REFRESH", Requoted(req[c].tk))
        /\ lapsed' = [lapsed EXCEPT ![req[c].t] = FALSE]
     \/ /\ SaveRequest(c, "REFRESH", Unquoted(req[c].tk))
        /\ UNCHANGED lapsed
  /\ UNCHANGED <<apiQ, emsQ, notes, oms, ems, job, ended,
                 asks, admitted, sent, taken, booked, restarts>>

\* Validation or an empty answer of the broker ends either without a save.
DropRequest(c) ==
  /\ req[c] # NoReq
  /\ req' = [req EXCEPT ![c] = NoReq]
  /\ UNCHANGED <<dbVars, oms, ems, job, envVars, countVars>>

\* What do_req_action checks on the row before it forwards a request.
Allowed(op, tk) ==
  \/ op = "CANCEL" /\ tk.internal_state \in Cancellable
  \/ op = "PAUSE" /\ tk.action = "execute" /\ tk.internal_state \in Pauseable
  \/ op = "RESUME" /\ tk.action = "execute" /\ tk.paused
  \/ op = "ACTIVATE" /\ tk.action = "execute" /\ tk.internal_state = "DRAFT"
  \/ op = "AUTHORIZE" /\ tk.action = "execute" /\ ~tk.auth_user /\ Exists(tk)

\* do_req_action: the request only travels; the OMS acts on it later.
RequestControl(t, op) ==
  /\ asks[t] < MaxAsks
  /\ Allowed(op, row[t])
  /\ apiQ' = Append(apiQ, [t |-> t, op |-> op, tk |-> NoTicket])
  /\ asks' = [asks EXCEPT ![t] = @ + 1]
  /\ UNCHANGED <<row, emsQ, notes, oms, ems, job, req, envVars,
                 admitted, sent, taken, booked, overwrites, restarts>>

-----------------------------------------------------------------------------
(***************************************************************************)
(* The OMS.  Cycle gives what one pass of cycle_ticket can make of a copy: *)
(* the copy it ends with, whether the ticket stays in the cache, and       *)
(* whether a CREATE was sent to the EMS on the way.                        *)
(***************************************************************************)
Stay(tk) == [tk |-> tk, keep |-> TRUE, send |-> FALSE]

\* rem_ticket, and the clean_up that ends the same cycle.
Remove(tk) ==
  IF ~tk.oms_owner THEN Stay(tk)
  ELSE [tk |-> [tk EXCEPT !.external_state = IF tk.internal_state = "FAILED" THEN "FAILED" ELSE "DONE",
                          !.oms_owner = FALSE],
        keep |-> FALSE, send |-> FALSE]

Cancelled(tk) == [tk EXCEPT !.internal_state = "CANCELED"]

Expired(t, tk) ==
  /\ tk.internal_state \in Cancellable
  /\ tk.phase \in Trading
  /\ ~tk.ems_owner
  /\ ended[t]

\* Faulty variants of Dispatch: the phase is not looked at, ...
DispatchAgain(t, tk) ==
  IF tk.paused THEN Stay(tk) ELSE [Stay([tk EXCEPT !.phase = "WORKING"]) EXCEPT !.send = TRUE]

\* ... a ticket without a destination is tried again for ever.
DispatchUnrouted(t, tk) ==
  IF tk.paused \/ tk.phase = "WORKING" \/ t \notin Routed THEN Stay(tk)
  ELSE [Stay([tk EXCEPT !.phase = "WORKING"]) EXCEPT !.send = TRUE]

\* check_accepted and enqueue_ems.  A ticket the EMS already owns is sent to a
\* topic whose name was never formatted and which no process reads.
Dispatch(t, tk) ==
  IF tk.paused \/ tk.phase = "WORKING" THEN Stay(tk)
  ELSE IF tk.ems_owner THEN Stay([tk EXCEPT !.phase = "WORKING"])
  ELSE IF t \in Routed THEN [Stay([tk EXCEPT !.phase = "WORKING"]) EXCEPT !.send = TRUE]
  ELSE Stay([tk EXCEPT !.internal_state = "ERROR"])

Chain == {"NEW", "PENDAUTH", "PENDMARGIN", "SCHEDULED", "WAITING"}

\* Faulty variant: nothing waits for authorisation.
AuthorisedAll(tk) == TRUE

Authorised(tk) == tk.action = "rfq" \/ tk.auth_user

\* How far check_new, check_for_auth, check_for_margin, check_scheduled and
\* check_waiting take an unpaused ticket in one pass: start times and triggers
\* may hold it at SCHEDULED or WAITING.
Rests(tk) ==
  IF tk.internal_state \in {"NEW", "PENDAUTH"} /\ ~Authorised(tk) THEN {"PENDAUTH"}
  ELSE IF tk.internal_state = "WAITING" THEN {"WAITING", "ACCEPTED"}
  ELSE {"SCHEDULED", "WAITING", "ACCEPTED"}

Advance(t, tk, state) ==
  LET now == [tk EXCEPT !.internal_state = state]
  IN IF state = "ACCEPTED" THEN Dispatch(t, now) ELSE Stay(now)

\* check_filled: what comes after depends on the beneficiaries and on the
\* broker completing the deal.
Settling(tk, state) ==
  Stay([tk EXCEPT !.internal_state = state, !.phase = "SETTLE", !.external_state = "DONE"])

\* check_done lets an outright go only when it is DONE_PENDSETTLE (see Settlement).
Lingers(t, tk) ==
  t \in Outright /\ tk.internal_state \in {"DONE", "EXPIRED", "DONE_PENDSETTLE"}

Cycle(t, tk) ==
  IF Expired(t, tk) THEN {Remove(Cancelled(tk))}
  ELSE IF tk.internal_state \in Chain /\ ~tk.paused THEN {Advance(t, tk, s) : s \in Rests(tk)}
  ELSE IF tk.internal_state = "ACCEPTED" THEN {Dispatch(t, tk)}
  ELSE IF tk.internal_state \in SettlementStates
    THEN {Settling(tk, s) : s \in {"PENDSETTLE", "PENDBENE", "BOOKING_FAILURE"}}
  ELSE IF tk.internal_state \in OmsTerminal /\ ~Lingers(t, tk) THEN {Remove(tk)}
  ELSE {Stay(tk)}

\* The commits of one pass: r is the row so far, "was" the copy as last saved.
\* The CREATE is enqueued before the phase is moved to WORKING.
Commit(t, r, was, o) ==
  /\ row' = [row EXCEPT ![t] = Saved(was, o.tk, r)]
  /\ oms' = [oms EXCEPT ![t] = IF o.keep THEN o.tk ELSE NoTicket]
  /\ emsQ' = IF o.send
               THEN Append(emsQ, [t |-> t, tk |-> [o.tk EXCEPT !.phase = was.phase]])
               ELSE emsQ
  /\ sent' = [sent EXCEPT ![t] = @ + (IF o.send THEN 1 ELSE 0)]

\* cycle_tickets, for one ticket
OmsCycle(t) ==
  /\ Held(t)
  /\ \E o \in Cycle(t, oms[t]) : Commit(t, row[t], oms[t], o)
  /\ UNCHANGED <<apiQ, notes, ems, job, req, envVars,
                 asks, admitted, taken, booked, overwrites, restarts>>

\* Faulty variant: a notification that is not there is taken.
OmsReceiveTwice(t) ==
  /\ notes' = [notes EXCEPT ![t] = @ - 1]
  /\ oms' = [oms EXCEPT ![t] = IF Held(t) THEN row[t] ELSE @]
  /\ UNCHANGED <<row, apiQ, emsQ, ems, job, req, envVars, countVars>>

\* cycle_internal_queue: UPDATE, ACCEPT, DONE, CANCEL and CANCELREJECT all
\* re-read the row; a ticket that is not in the cache is logged and skipped.
OmsReceive(t) ==
  /\ notes[t] > 0
  /\ notes' = [notes EXCEPT ![t] = @ - 1]
  /\ oms' = [oms EXCEPT ![t] = IF Held(t) THEN row[t] ELSE @]
  /\ UNCHANGED <<row, apiQ, emsQ, ems, job, req, envVars, countVars>>

\* create_ticket and execute_rfq_ticket build the copy from the message.
Admitted(m) ==
  IF m.op = "CREATE" THEN [m.tk EXCEPT !.oms_owner = TRUE]
  ELSE [m.tk EXCEPT !.oms_owner = TRUE, !.internal_state = "ACCEPTED",
                    !.external_state = "ACTIVE", !.phase = "PRETRADE"]

\* The owner is assigned, and so saved, even when the snapshot names it already.
AdmittedRow(m) == [Saved(m.tk, Admitted(m), row[m.t]) EXCEPT !.oms_owner = TRUE]

Next1(op) == apiQ # <<>> /\ Head(apiQ).op = op

OmsAdmit ==
  /\ Next1("CREATE") \/ Next1("EXECUTE_RFQ")
  /\ LET m == Head(apiQ)
         tk == Admitted(m)
     IN /\ \E o \in Cycle(m.t, tk) : Commit(m.t, AdmittedRow(m), tk, o)
        /\ admitted' = [admitted EXCEPT ![m.t] = @ + 1]
  /\ apiQ' = Tail(apiQ)
  /\ UNCHANGED <<notes, ems, job, req, envVars, asks, taken, booked, overwrites, restarts>>

\* What each control request requires of the cached copy.
Accepts(op, tk) ==
  \/ op = "CANCEL" /\ tk.internal_state \in Cancellable
  \/ op = "PAUSE" /\ ~tk.paused /\ tk.internal_state \in Pauseable
  \/ op = "RESUME" /\ tk.paused
  \/ op = "ACTIVATE" /\ tk.internal_state = "DRAFT"
  \/ op = "AUTHORIZE" /\ tk.internal_state = "PENDAUTH"

\* Faulty variant: the cancel is saved, and the cached copy forgotten.
OmsCancelRowOnly ==
  /\ Next1("CANCEL")
  /\ LET t == Head(apiQ).t IN
       /\ Held(t) /\ Accepts("CANCEL", oms[t])
       /\ row' = [row EXCEPT ![t].internal_state = "CANCELED"]
  /\ apiQ' = Tail(apiQ)
  /\ UNCHANGED <<emsQ, notes, oms, ems, job, req, envVars, countVars>>

\* cancel_ticket: saved, then cycled.  A ticket the EMS owns only becomes
\* PENDCANCEL: the CANCEL goes to the topic no process reads.
OmsCancel ==
  /\ Next1("CANCEL")
  /\ LET t == Head(apiQ).t
         tk == IF oms[t].ems_owner THEN [oms[t] EXCEPT !.external_state = "PENDCANCEL"]
                                   ELSE Cancelled(oms[t])
     IN /\ Held(t) /\ Accepts("CANCEL", oms[t])
        /\ \E o \in Cycle(t, tk) : Commit(t, Saved(oms[t], tk, row[t]), tk, o)
  /\ apiQ' = Tail(apiQ)
  /\ UNCHANGED <<notes, ems, job, req, envVars,
                 asks, admitted, taken, booked, overwrites, restarts>>

\* The requests that only change and save the copy.  authorize_ticket also
\* cycles it, but check_for_funds does nothing with a PENDFUNDS ticket.
Controlled(op, tk) ==
  IF op = "PAUSE" THEN [tk EXCEPT !.paused = TRUE, !.external_state = "PAUSED"]
  ELSE IF op = "RESUME" THEN [tk EXCEPT !.paused = FALSE, !.external_state = "ACTIVE"]
  ELSE IF op = "ACTIVATE" THEN [tk EXCEPT !.internal_state = "NEW", !.external_state = "ACTIVE"]
  ELSE [tk EXCEPT !.internal_state = "PENDFUNDS", !.auth_user = TRUE]

\* Faulty variant: the request is saved, and the cached copy forgotten.
OmsControlRowOnly(op) ==
  /\ Next1(op)
  /\ LET t == Head(apiQ).t IN
       /\ Held(t) /\ Accepts(op, oms[t])
       /\ row' = [row EXCEPT ![t] = Saved(oms[t], Controlled(op, oms[t]), @)]
  /\ apiQ' = Tail(apiQ)
  /\ UNCHANGED <<emsQ, notes, oms, ems, job, req, envVars, countVars>>

OmsControl(op) ==
  /\ Next1(op)
  /\ LET t == Head(apiQ).t IN
       /\ Held(t) /\ Accepts(op, oms[t])
       /\ Commit(t, row[t], oms[t], Stay(Controlled(op, oms[t])))
  /\ apiQ' = Tail(apiQ)
  /\ UNCHANGED <<notes, ems, job, req, envVars,
                 asks, admitted, taken, booked, overwrites, restarts>>

\* Not in the cache, or too late: an error response is all that happens.
OmsRefuse ==
  /\ apiQ # <<>>
  /\ Head(apiQ).op \in ControlOps
  /\ LET t == Head(apiQ).t IN ~(Held(t) /\ Accepts(Head(apiQ).op, oms[t]))
  /\ apiQ' = Tail(apiQ)
  /\ UNCHANGED <<row, emsQ, notes, oms, ems, job, req, envVars, countVars>>

OmsApi ==
  \/ OmsAdmit
  \/ OmsCancel
  \/ \E op \in ControlOps \ {"CANCEL"} : OmsControl(op)
  \/ OmsRefuse

-----------------------------------------------------------------------------
(***************************************************************************)
(* The EMS handles one message or one ticket at a time; while it waits for *)
(* the broker inside do_accept (job # "idle") it does nothing else, but    *)
(* everybody else goes on.                                                 *)
(***************************************************************************)

\* enqueue_oms addresses the owner named in the EMS's own copy.
Notify(t, tk, n) == [n EXCEPT ![t] = @ + (IF tk.oms_owner THEN 1 ELSE 0)]

\* rem_ticket on a copy: nothing happens when it has been given up already.
Release(t, was, tk) ==
  IF ~tk.ems_owner THEN UNCHANGED <<row, notes>>
  ELSE /\ row' = [row EXCEPT ![t] = Saved(was, [tk EXCEPT !.ems_owner = FALSE], @)]
       /\ notes' = Notify(t, tk, notes)

\* The EMS ends its work on a ticket, leaving it in "state".
Finish(t, state) ==
  /\ Release(t, ems[t], [ems[t] EXCEPT !.internal_state = state])
  /\ ems' = [ems EXCEPT ![t] = NoTicket]
  /\ job' = [job EXCEPT ![t] = "idle"]

\* A call to the broker module fails.  An exception in it is caught by a wrapper
\* that saves FAILED itself, so that even a ticket given up before is changed.
Fail(t) ==
  \/ Finish(t, "FAILED")
  \/ /\ ~ems[t].ems_owner
     /\ row' = [row EXCEPT ![t].internal_state = "FAILED"]
     /\ ems' = [ems EXCEPT ![t] = NoTicket]
     /\ job' = [job EXCEPT ![t] = "idle"]
     /\ UNCHANGED notes

\* check_expiry releases an ended ticket as EXPIRED, but returns False: the
\* cycle goes on with the state it read before, and executes the ticket.
AfterExpiry(t, tk) ==
  IF ended[t] THEN [tk EXCEPT !.internal_state = "EXPIRED", !.ems_owner = FALSE] ELSE tk

\* cycle_ticket up to do_accept, for an ACCEPTED copy that is saved in r and
\* of which the OMS has been notified in n.
StartJob(t, tk, r, n) ==
  /\ row' = [row EXCEPT ![t] = Saved(tk, AfterExpiry(t, tk), r)]
  /\ notes' = IF ended[t] THEN Notify(t, tk, n) ELSE n
  /\ ems' = [ems EXCEPT ![t] = AfterExpiry(t, tk)]
  /\ job' = [job EXCEPT ![t] = "accept"]

\* create_ticket: the copy is the snapshot in the message; ACCEPT is sent.
EmsTake ==
  /\ EmsIdle
  /\ emsQ # <<>>
  /\ LET t == Head(emsQ).t
         tk == [Head(emsQ).tk EXCEPT !.ems_owner = TRUE]
     IN /\ StartJob(t, tk, Saved(Head(emsQ).tk, tk, row[t]), Notify(t, tk, notes))
        /\ taken' = [taken EXCEPT ![t] = @ + 1]
  /\ emsQ' = Tail(emsQ)
  /\ UNCHANGED <<apiQ, oms, req, envVars, asks, admitted, sent, booked, overwrites, restarts>>

\* cycle_ticket for a ticket that load() found owned after a restart ...
EmsResume(t) ==
  /\ EmsIdle
  /\ ems[t].internal_state = "ACCEPTED"
  /\ StartJob(t, ems[t], row[t], notes)
  /\ UNCHANGED <<apiQ, emsQ, oms, req, envVars, countVars>>

\* Faulty variant of EmsLetGo: a quoted ticket is kept for ever.
EmsLetGoTerminal(t) ==
  /\ EmsIdle
  /\ ems[t].internal_state \in EmsTerminal \ {"RFQ_DONE"}
  /\ Finish(t, ems[t].internal_state)
  /\ UNCHANGED <<apiQ, emsQ, oms, req, envVars, countVars>>

\* ... and for one it can only let go of: ended, with an expired quote, or terminal.
EmsLetGo(t) ==
  /\ EmsIdle
  /\ Working(t)
  /\ ems[t].internal_state # "ACCEPTED"
  /\ \/ /\ ended[t] \/ (ems[t].internal_state = "RFQ_DONE" /\ lapsed[t])
        /\ Finish(t, "EXPIRED")
     \/ /\ ~ended[t]
        /\ ems[t].internal_state \in EmsTerminal \ {"RFQ_DONE"}
        /\ Finish(t, ems[t].internal_state)
  /\ UNCHANGED <<apiQ, emsQ, oms, req, envVars, countVars>>

\* do_accept: the quote it has is still good; go on with it ...
EmsUseQuote(t) ==
  /\ job[t] = "accept"
  /\ ems[t].quote_id
  /\ ~lapsed[t]
  /\ job' = [job EXCEPT ![t] = "execute"]
  /\ UNCHANGED <<dbVars, oms, ems, req, envVars, countVars>>

\* Faulty variant of EmsQuoteGone: the ticket waits for a better quote.
EmsQuoteGoneWaits(t) ==
  /\ job[t] = "accept"
  /\ ems[t].quote_id /\ lapsed[t]
  /\ job' = [job EXCEPT ![t] = "idle"]
  /\ UNCHANGED <<dbVars, oms, ems, req, envVars, countVars>>

\* ... the quote has expired at the customer's end ...
EmsQuoteGone(t) ==
  /\ job[t] = "accept"
  /\ ems[t].quote_id
  /\ lapsed[t]
  /\ Finish(t, "EXPIRED")
  /\ UNCHANGED <<apiQ, emsQ, oms, req, envVars, countVars>>

\* ... or there is none, or the broker's has run out: ask for a new one.  It is
\* saved before the deal is booked, and with it the state RFQ_DONE.
EmsRequote(t) ==
  /\ job[t] = "accept"
  /\ ~(ems[t].quote_id /\ lapsed[t])
  /\ LET tk == [ems[t] EXCEPT !.internal_state = "RFQ_DONE", !.quote_id = TRUE]
     IN /\ row' = [row EXCEPT ![t] = Saved(ems[t], tk, @)]
        /\ ems' = [ems EXCEPT ![t] = tk]
  /\ job' = [job EXCEPT ![t] = "execute"]
  /\ lapsed' = [lapsed EXCEPT ![t] = FALSE]
  /\ UNCHANGED <<apiQ, emsQ, notes, oms, req, ended, countVars>>

EmsRequoteFails(t) ==
  /\ job[t] = "accept"
  /\ ~(ems[t].quote_id /\ lapsed[t])
  /\ Fail(t)
  /\ UNCHANGED <<apiQ, emsQ, oms, req, envVars, countVars>>

\* do_pre_exec_check or the broker refuses.
EmsRefused(t) ==
  /\ job[t] = "execute"
  /\ Fail(t)
  /\ UNCHANGED <<apiQ, emsQ, oms, req, envVars, countVars>>

Book(t) == booked' = [booked EXCEPT ![t] = @ + 1]

\* When it was quoted for several beneficiaries, as a mass payment, the broker module returns
\* before it would record anything.
Outcomes(t) == {"FILLED"} \cup (IF t \in MassPaid THEN {ems[t].internal_state} ELSE {})

\* do_api_execute: the deal is booked.
EmsFill(t) ==
  /\ job[t] = "execute"
  /\ \E outcome \in Outcomes(t) : Finish(t, outcome)
  /\ Book(t)
  /\ UNCHANGED <<apiQ, emsQ, oms, req, envVars,
                 asks, admitted, sent, taken, overwrites, restarts>>

\* Faulty variant: when the answer is lost the deal is asked for once more.
EmsAnswerRetried(t) ==
  /\ job[t] = "execute"
  /\ Book(t)
  /\ UNCHANGED <<dbVars, oms, ems, job, req, envVars,
                 asks, admitted, sent, taken, overwrites, restarts>>

\* The deal is booked but the answer is an error or a timeout.
EmsAnswerLost(t) ==
  /\ job[t] = "execute"
  /\ Fail(t)
  /\ Book(t)
  /\ UNCHANGED <<apiQ, emsQ, oms, req, envVars,
                 asks, admitted, sent, taken, overwrites, restarts>>

EmsJob(t) ==
  \/ EmsUseQuote(t) \/ EmsQuoteGone(t) \/ EmsRequote(t) \/ EmsRequoteFails(t)
  \/ EmsRefused(t) \/ EmsFill(t) \/ EmsAnswerLost(t)

-----------------------------------------------------------------------------
(***************************************************************************)
(* Process deaths.  A dequeued message is gone (the dequeue commits before *)
(* it is handled), every commit made before the death stays, and what is   *)
(* loaded afterwards is the rows the process still owns.                   *)
(***************************************************************************)
Die ==
  /\ restarts < MaxRestarts
  /\ restarts' = restarts + 1

\* Faulty variant: nothing is loaded.
OmsRestartEmpty ==
  /\ Die
  /\ oms' = [t \in Ticket |-> NoTicket]
  /\ UNCHANGED <<notes, ems, job, req, envVars, asks, taken, booked, overwrites>>

\* load and replay: the replay consumes the notifications waiting for a ticket.
OmsRestart ==
  /\ Die
  /\ oms' = [t \in Ticket |-> IF row'[t].oms_owner THEN row'[t] ELSE NoTicket]
  /\ notes' = [t \in Ticket |-> IF row'[t].oms_owner THEN 0 ELSE notes[t]]
  /\ UNCHANGED <<ems, job, req, envVars, asks, taken, booked, overwrites>>

EmsRestart ==
  /\ Die
  /\ ems' = [t \in Ticket |-> IF row'[t].ems_owner THEN row'[t] ELSE NoTicket]
  /\ job' = [t \in Ticket |-> "idle"]
  /\ UNCHANGED <<apiQ, oms, req, envVars, asks, admitted, sent, overwrites>>

\* An API worker dies between saving ACCEPTED and enqueueing EXECUTE_RFQ.
ApiCrash(c) ==
  /\ Die
  /\ SaveRequest(c, "EXECUTE_RFQ", Execution(c))
  /\ UNCHANGED <<apiQ, emsQ, notes, oms, ems, job, envVars,
                 asks, admitted, sent, taken, booked>>

OmsCrash ==
  /\ UNCHANGED <<row, apiQ, emsQ, admitted, sent>>
  /\ OmsRestart

\* With a request dequeued and nothing done about it yet ...
OmsCrashHandling ==
  /\ apiQ # <<>>
  /\ apiQ' = Tail(apiQ)
  /\ UNCHANGED <<row, emsQ, admitted, sent>>
  /\ OmsRestart

\* ... between enqueueing CREATE for the EMS and saving the phase ...
SentOnly(t, r, was) ==
  /\ \E o \in Cycle(t, was) :
       LET tk == [o.tk EXCEPT !.phase = was.phase] IN
       /\ o.send
       /\ row' = [row EXCEPT ![t] = Saved(was, tk, r)]
       /\ emsQ' = Append(emsQ, [t |-> t, tk |-> tk])
  /\ sent' = [sent EXCEPT ![t] = @ + 1]

OmsCrashSending(t) ==
  /\ Held(t)
  /\ SentOnly(t, row[t], oms[t])
  /\ UNCHANGED <<apiQ, admitted>>
  /\ OmsRestart

\* ... and with a new ticket, after the owner was saved, before or after that.
OmsCrashAdmitting ==
  /\ Next1("CREATE") \/ Next1("EXECUTE_RFQ")
  /\ LET m == Head(apiQ)
         tk == Admitted(m)
         r == AdmittedRow(m)
     IN /\ \/ SentOnly(m.t, r, tk)
           \/ /\ row' = [row EXCEPT ![m.t] = r]
              /\ UNCHANGED <<emsQ, sent>>
        /\ admitted' = [admitted EXCEPT ![m.t] = @ + 1]
  /\ apiQ' = Tail(apiQ)
  /\ OmsRestart

EmsCrash ==
  /\ UNCHANGED <<row, emsQ, notes, taken, booked>>
  /\ EmsRestart

\* With a CREATE dequeued, before or after the owner was saved ...
EmsCrashTaking ==
  /\ EmsIdle
  /\ emsQ # <<>>
  /\ LET m == Head(emsQ)
     IN \/ UNCHANGED row
        \/ row' = [row EXCEPT ![m.t] = Saved(m.tk, [m.tk EXCEPT !.ems_owner = TRUE], @)]
  /\ emsQ' = Tail(emsQ)
  /\ UNCHANGED <<notes, taken, booked>>
  /\ EmsRestart

\* ... with the deal booked and nothing saved ...
EmsCrashBooked(t) ==
  /\ job[t] = "execute"
  /\ Book(t)
  /\ UNCHANGED <<row, emsQ, notes, taken>>
  /\ EmsRestart

\* ... and with the deal saved and the OMS not notified.
EmsCrashUnreported(t) ==
  /\ job[t] = "execute"
  /\ ems[t].ems_owner
  /\ Book(t)
  /\ \E outcome \in Outcomes(t) :
       row' = [row EXCEPT ![t] =
         Saved(ems[t], [ems[t] EXCEPT !.internal_state = outcome, !.ems_owner = FALSE], @)]
  /\ UNCHANGED <<emsQ, notes, taken>>
  /\ EmsRestart

-----------------------------------------------------------------------------
(***************************************************************************)
(* Time, and the whole system                                              *)
(***************************************************************************)
EndTime(t) ==
  /\ t \in Dated
  /\ Exists(row[t])
  /\ ~ended[t]
  /\ ended' = [ended EXCEPT ![t] = TRUE]
  /\ UNCHANGED <<dbVars, oms, ems, job, req, lapsed, countVars>>

QuoteLapse(t) ==
  /\ row[t].quote_id \/ ems[t].quote_id
  /\ ~lapsed[t]
  /\ lapsed' = [lapsed EXCEPT ![t] = TRUE]
  /\ UNCHANGED <<dbVars, oms, ems, job, req, ended, countVars>>

Init ==
  /\ row = [t \in Ticket |-> NoTicket]
  /\ oms = [t \in Ticket |-> NoTicket]
  /\ ems = [t \in Ticket |-> NoTicket]
  /\ job = [t \in Ticket |-> "idle"]
  /\ apiQ = <<>>
  /\ emsQ = <<>>
  /\ notes = [t \in Ticket |-> 0]
  /\ req = [c \in Client |-> NoReq]
  /\ ended = [t \in Ticket |-> FALSE]
  /\ lapsed = [t \in Ticket |-> FALSE]
  /\ asks = [t \in Ticket |-> 0]
  /\ admitted = [t \in Ticket |-> 0]
  /\ sent = [t \in Ticket |-> 0]
  /\ taken = [t \in Ticket |-> 0]
  /\ booked = [t \in Ticket |-> 0]
  /\ overwrites = [t \in Ticket |-> 0]
  /\ restarts = 0

ApiNext ==
  \/ \E t \in Ticket : CreateExecute(t) \/ CreateRfq(t)
  \/ \E t \in Ticket, op \in Ops \cap ControlOps : RequestControl(t, op)
  \/ \E c \in Client : CommitExecute(c) \/ RefuseExecute(c) \/ CommitRefresh(c) \/ DropRequest(c)
  \/ \E c \in Client, t \in Ticket : ReadQuoted(c, t) \/ ReadToRefresh(c, t)

OmsNext == OmsApi \/ \E t \in Ticket : OmsReceive(t) \/ OmsCycle(t)

EmsNext == EmsTake \/ \E t \in Ticket : EmsResume(t) \/ EmsLetGo(t) \/ EmsJob(t)

Deaths ==
  \/ OmsCrash \/ OmsCrashHandling \/ OmsCrashAdmitting
  \/ EmsCrash \/ EmsCrashTaking
  \/ \E c \in Client : ApiCrash(c)
  \/ \E t \in Ticket : OmsCrashSending(t) \/ EmsCrashBooked(t) \/ EmsCrashUnreported(t)

Time == \E t \in Ticket : EndTime(t) \/ QuoteLapse(t)

Next == ApiNext \/ OmsNext \/ EmsNext \/ Deaths \/ Time

Spec == Init /\ [][Next]_vars

\* Both processes loop for ever over their queues and their cached tickets, and
\* every call to the broker returns or times out; quotes expire.  Clients owe nothing.
Fairness ==
  /\ WF_vars(OmsApi)
  /\ WF_vars(EmsTake)
  /\ \A t \in Ticket :
       /\ WF_vars(OmsReceive(t))
       /\ WF_vars(OmsCycle(t))
       /\ WF_vars(EmsResume(t))
       /\ WF_vars(EmsLetGo(t))
       /\ WF_vars(EmsJob(t))
       /\ WF_vars(QuoteLapse(t))

FairSpec == Spec /\ Fairness

-----------------------------------------------------------------------------
(***************************************************************************)
(* Properties                                                              *)
(***************************************************************************)
Jobs == {"idle", "accept", "execute"}

\* Every variable holds a value of its kind.
TypeOK ==
  /\ row \in [Ticket -> TicketRec]
  /\ oms \in [Ticket -> TicketRec]
  /\ ems \in [Ticket -> TicketRec]
  /\ job \in [Ticket -> Jobs]
  /\ apiQ \in Seq(ApiMsg)
  /\ emsQ \in Seq(EmsMsg)
  /\ notes \in [Ticket -> Nat]
  /\ req \in [Client -> Reading \cup {NoReq}]
  /\ ended \in [Ticket -> BOOLEAN]
  /\ lapsed \in [Ticket -> BOOLEAN]
  /\ asks \in [Ticket -> Nat]
  /\ admitted \in [Ticket -> Nat]
  /\ sent \in [Ticket -> Nat]
  /\ taken \in [Ticket -> Nat]
  /\ booked \in [Ticket -> Nat]
  /\ overwrites \in [Ticket -> Nat]
  /\ restarts \in Nat

\* A ticket whose row names an owner is in that owner's cache, so that somebody
\* is working on it, unless an API thread has put an old row back.
OwnedIsHeld ==
  \A t \in Ticket : overwrites[t] = 0 =>
    /\ row[t].oms_owner => Held(t)
    /\ row[t].ems_owner => Working(t) /\ ems[t].ems_owner

\* The OMS sends a ticket to the EMS once for every time it took it in; only a
\* death or an old row put back can make it send once more.
SendAccounted ==
  \A t \in Ticket : sent[t] <= admitted[t] + restarts + overwrites[t]

\* The broker books at most one deal for every time the EMS took the ticket in,
\* and one more for every death: nothing is executed twice from one CREATE.
DealAccounted ==
  \A t \in Ticket : booked[t] <= taken[t] + restarts

\* Without deaths and without old rows put back, a ticket is dealt only once,
\* whatever control requests, expiries and re-reads happen in between.
OneDeal ==
  \A t \in Ticket : restarts = 0 /\ overwrites[t] = 0 => booked[t] <= 1

\* What the EMS executes somebody has authorised.  (Only an old row put back and
\* then reloaded by a restarted EMS can make it forget.)
DealsAuthorised ==
  \A t \in Ticket :
    job[t] # "idle" /\ (restarts = 0 \/ overwrites[t] = 0) => ems[t].auth_user

\* When nothing is under way for a ticket the OMS holds, its copy is the row:
\* column-wise saves, snapshots and notifications converge.  (A ticket past its
\* end time is excepted: the EMS goes on with it after telling the OMS.)
AtRest(t) ==
  /\ job[t] = "idle"
  /\ notes[t] = 0
  /\ \A i \in 1..Len(apiQ) : apiQ[i].t # t
  /\ \A i \in 1..Len(emsQ) : emsQ[i].t # t
  /\ \A c \in Client : req[c].t # t

CopiesAgree ==
  \A t \in Ticket :
    restarts = 0 /\ overwrites[t] = 0 /\ ~ended[t] /\ AtRest(t) /\ Held(t) => oms[t] = row[t]

\* A ticket whose pause has been saved is not sent to the EMS.
PauseHolds ==
  [][\A t \in Ticket :
       sent'[t] > sent[t] /\ overwrites[t] = 0 => ~row[t].paused]_vars

\* Once the deal is in the row it stays: a filled ticket goes on to settlement
\* and is not cancelled, failed or quoted again.
FilledKept ==
  [][\A t \in Ticket :
       row[t].internal_state \in PostTrade => row'[t].internal_state \in PostTrade]_vars

\* A ticket that is over (cancelled, expired, failed, dealt) is not sent either:
\* a cancel that was answered with success before the send is final.
OverNotSent ==
  [][\A t \in Ticket :
       sent'[t] > sent[t] /\ overwrites[t] = 0 /\ restarts = 0 =>
         row[t].internal_state \notin OmsTerminal \cup PostTrade]_vars

\* An accepted ticket that is not paused is decided: it does not stay ACCEPTED.
Decided ==
  \A t \in Ticket :
    row[t].internal_state = "ACCEPTED" ~> (row[t].internal_state # "ACCEPTED" \/ row[t].paused)

\* What the EMS has taken it gives back, whatever dies, unless the ticket was sent to it twice.
EmsGivesBack ==
  \A t \in Ticket : Working(t) ~> (~Working(t) \/ sent[t] > admitted[t])

-----------------------------------------------------------------------------
(***************************************************************************)
(* What comments and messages of the code say, and the code does not keep. *)
(***************************************************************************)

\* "from EMS to SETTLEMENT" (oms.py:698): a fill has an OMS to settle it.
FilledOwned ==
  \A t \in Ticket : row[t].internal_state = "FILLED" => row[t].oms_owner

=============================================================================

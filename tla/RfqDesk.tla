------------------------------- MODULE RfqDesk -------------------------------
(***************************************************************************)
(* A quote by hand.  The RFQ EMS turns a ticket into a manual request,     *)
(* posts it to the desk as a Slack form and polls it; the desk answers     *)
(* through the web workers that handle the form's buttons.  Both sides     *)
(* read a request, work on their copy and save the whole row, with calls   *)
(* to Slack in between.  The module begins with tickets the EMS has taken  *)
(* (EmsTake of Oems) and ends with their release to the OMS.               *)
(***************************************************************************)
EXTENDS Naturals, Sequences, FiniteSets

CONSTANTS
  Ticket,     \* ids of rfq tickets with a manual rfq_type
  Worker,     \* web workers that handle the desk's clicks
  Rate,       \* the rates the desk may enter, but for zero
  MaxClicks,  \* bound: clicks of the desk
  MaxDeaths   \* bound: deaths of the EMS

Zero == "zero"
NoRate == "none"

ASSUME ConstantsAssumption ==
  /\ MaxClicks \in Nat /\ MaxDeaths \in Nat
  /\ Rate \cap {Zero, NoRate} = {}

VARIABLES
  row,      \* the manual requests in the database; a request's id is its place
  state,    \* internal_state of the ticket's row
  quoteId,  \* internal_quote_id, 0 for None
  quote,    \* internal_quote
  held,     \* ems_owner is set, and the ticket is in the EMS's cache
  ended,    \* the ticket's end_time has passed
  lapsed,   \* requests whose expiration_time has passed
  job,      \* what the EMS is in the middle of
  desk,     \* what each worker is in the middle of
  entered,  \* the rates the desk entered: pairs of request and rate
  clicks,   \* clicks of the desk so far
  deaths    \* deaths of the EMS so far

ticketVars == <<state, quoteId, quote, held>>
timeVars == <<ended, lapsed>>
deskVars == <<desk, entered, clicks>>
vars == <<row, ticketVars, timeVars, job, deskVars, deaths>>

States == {"ACCEPTED", "PEND_RFQ", "PENDRECON", "FAILED", "EXPIRED"}
Rates == Rate \cup {Zero}

\* A manual request, cut down to what its handlers test.  "form" says that Slack
\* has the form and that the form names the request, as it does for an NDF only.
Request ==
  [ticket : Ticket, form : BOOLEAN, status : {"PENDING", "EXPIRED", "COMPLETE", "CANCELED"},
   rate : Rates \cup {NoRate}]

Idle == [kind |-> "idle"]
Job(kind, t, r, c, to) == [kind |-> kind, t |-> t, r |-> r, copy |-> c, to |-> to]

Free == [kind |-> "free"]
Click(kind, r, c) == [kind |-> kind, r |-> r, copy |-> c]

-----------------------------------------------------------------------------
(***************************************************************************)
(* Manual requests                                                         *)
(***************************************************************************)

\* A save writes every column of the copy.
Save(r, c) == row' = [row EXCEPT ![r] = c]

\* close(): a pending request is complete if it has a rate other than zero.
Closed(c) ==
  IF c.status # "PENDING" THEN c
  ELSE [c EXCEPT !.status = IF c.rate \in Rate THEN "COMPLETE" ELSE "EXPIRED"]

\* ... and is saved if it was pending; another is left as it is.
SaveClosed(r, c) == IF c.status = "PENDING" THEN Save(r, Closed(c)) ELSE UNCHANGED row

\* The end of close(): the form of a request that came to nothing is deleted,
\* and the copy saved once more after Slack's answer.
SaveDeleted(r, c) ==
  IF c.form /\ c.status \in {"EXPIRED", "CANCELED"} THEN Save(r, c) ELSE UNCHANGED row

-----------------------------------------------------------------------------
(***************************************************************************)
(* The EMS                                                                 *)
(***************************************************************************)

\* cycle_ticket begins with check_expiry, which releases an ended ticket as
\* EXPIRED but answers False: the cycle goes on with the state it read before.
CheckExpiry(t) ==
  IF ended[t] THEN /\ state' = [state EXCEPT ![t] = "EXPIRED"]
                   /\ held' = [held EXCEPT ![t] = FALSE]
              ELSE UNCHANGED <<state, held>>

Cycled(t, s) == job = Idle /\ held[t] /\ state[t] = s

\* do_rfq: the request is made and its form posted, or not.  (An exception of
\* Slack's is not caught here, and is a death of the EMS.)
AskDesk(t) ==
  /\ Cycled(t, "ACCEPTED")
  /\ \E form \in BOOLEAN :
       LET c == [ticket |-> t, form |-> form, status |-> "PENDING", rate |-> NoRate]
       IN /\ row' = Append(row, c)
          /\ job' = Job("form", t, Len(row) + 1, c, "PEND_RFQ")
  /\ CheckExpiry(t)
  /\ UNCHANGED <<quoteId, quote, timeVars, deskVars, deaths>>

\* do_rfq when the request cannot be made: the ticket is released as FAILED,
\* unless check_expiry has just released it.
AskFails(t) ==
  /\ Cycled(t, "ACCEPTED")
  /\ state' = [state EXCEPT ![t] = IF ended[t] THEN "EXPIRED" ELSE "FAILED"]
  /\ held' = [held EXCEPT ![t] = FALSE]
  /\ UNCHANGED <<row, quoteId, quote, timeVars, job, deskVars, deaths>>

\* With what Slack said of the form.
SavePosted(r, c) == IF c.form THEN Save(r, c) ELSE UNCHANGED row

\* Faulty variant: the ticket stays ACCEPTED.
FormPostedOnly(t) ==
  /\ job.kind = "form" /\ job.t = t
  /\ SavePosted(job.r, job.copy)
  /\ quoteId' = [quoteId EXCEPT ![t] = job.r]
  /\ job' = Idle
  /\ UNCHANGED <<state, quote, held, timeVars, deskVars, deaths>>

\* The request is saved again, and check_accepted saves the ticket: an ended one
\* too, though it is no longer the EMS's.
FormPosted(t) ==
  /\ job.kind = "form" /\ job.t = t
  /\ SavePosted(job.r, job.copy)
  /\ state' = [state EXCEPT ![t] = job.to]
  /\ quoteId' = [quoteId EXCEPT ![t] = job.r]
  /\ job' = Idle
  /\ UNCHANGED <<quote, held, timeVars, deskVars, deaths>>

\* The newest pending request of the ticket, of which the desk is reminded.
Reminded(t, r) ==
  LET open == {q \in DOMAIN row : row[q].ticket = t /\ row[q].status = "PENDING"}
  IN r \in open /\ row[r].form /\ \A q \in open : q <= r

\* check_pend_rfq: a reminder is due, or the link to the form still missing, ...
Remind(t) ==
  /\ Cycled(t, "PEND_RFQ")
  /\ \E r \in DOMAIN row : Reminded(t, r) /\ job' = Job("remind", t, r, row[r], "PEND_RFQ")
  /\ CheckExpiry(t)
  /\ UNCHANGED <<row, quoteId, quote, timeVars, deskVars, deaths>>

\* ... and sent (or looked up); that request is saved, and the one polled is read.
RemindSave(t) ==
  /\ job.kind = "remind" /\ job.t = t
  /\ Save(job.r, job.copy)
  /\ job' = Job("poll", t, quoteId[t], row'[quoteId[t]], "PEND_RFQ")
  /\ UNCHANGED <<ticketVars, timeVars, deskVars, deaths>>

\* check_pend_rfq: no reminder is due, and the request is read.
Poll(t) ==
  /\ Cycled(t, "PEND_RFQ")
  /\ job' = Job("poll", t, quoteId[t], row[quoteId[t]], "PEND_RFQ")
  /\ CheckExpiry(t)
  /\ UNCHANGED <<row, quoteId, quote, timeVars, deskVars, deaths>>

\* Faulty variants of Verdict: what is no longer pending counts as answered, ...
VerdictByStatus(r, c) ==
  IF c.status # "PENDING" THEN "PENDRECON" ELSE IF r \in lapsed THEN "EXPIRED" ELSE "PEND_RFQ"

\* ... the expiration is looked at first, ...
VerdictExpiryFirst(r, c) ==
  IF r \in lapsed THEN "EXPIRED"
  ELSE IF c.rate # NoRate THEN "PENDRECON"
  ELSE IF c.status = "CANCELED" THEN "FAILED" ELSE "PEND_RFQ"

\* ... or a request is waited for until it is answered.
VerdictPatient(r, c) ==
  IF c.rate # NoRate THEN "PENDRECON" ELSE IF c.status = "CANCELED" THEN "FAILED" ELSE "PEND_RFQ"

\* What the copy that was read makes of the ticket.
Verdict(r, c) ==
  IF c.rate # NoRate THEN "PENDRECON"
  ELSE IF c.status = "CANCELED" THEN "FAILED"
  ELSE IF r \in lapsed THEN "EXPIRED"
  ELSE "PEND_RFQ"

\* Faulty variant: an expired request is not marked.
DecideUnmarked(t) ==
  /\ job.kind = "poll" /\ job.t = t
  /\ LET to == Verdict(job.r, job.copy)
     IN job' = IF to = "PEND_RFQ" THEN Idle ELSE Job("close", t, job.r, job.copy, to)
  /\ UNCHANGED <<row, ticketVars, timeVars, deskVars, deaths>>

\* check_pend_rfq after the reading, up to the first save of the request.
Decide(t) ==
  /\ job.kind = "poll" /\ job.t = t
  /\ LET to == Verdict(job.r, job.copy)
         c == IF to = "EXPIRED" THEN [job.copy EXCEPT !.status = "EXPIRED"] ELSE Closed(job.copy)
     IN IF to = "PEND_RFQ"
        THEN job' = Idle /\ UNCHANGED row
        ELSE /\ job' = Job("close", t, job.r, c, to)
             /\ IF to = "EXPIRED" THEN Save(job.r, c) ELSE SaveClosed(job.r, job.copy)
  /\ UNCHANGED <<ticketVars, timeVars, deskVars, deaths>>

\* The form is dealt with and the ticket released, unless check_expiry has
\* released it: what the desk answered is then left unsaved.
Release(t) ==
  /\ job.kind = "close" /\ job.t = t
  /\ SaveDeleted(job.r, job.copy)
  /\ IF held[t]
     THEN /\ state' = [state EXCEPT ![t] = job.to]
          /\ quote' = [quote EXCEPT ![t] = IF job.to = "PENDRECON" THEN job.copy.rate ELSE @]
          /\ held' = [held EXCEPT ![t] = FALSE]
     ELSE UNCHANGED <<state, quote, held>>
  /\ job' = Idle
  /\ UNCHANGED <<quoteId, timeVars, deskVars, deaths>>

\* The EMS dies, before or after its last save of a request but before the ticket's,
\* and loads the tickets it owns as their rows are.
EmsCrash ==
  /\ deaths < MaxDeaths
  /\ deaths' = deaths + 1
  /\ \/ UNCHANGED row
     \/ job.kind = "form" /\ SavePosted(job.r, job.copy)
     \/ job.kind = "close" /\ SaveDeleted(job.r, job.copy)
  /\ job' = Idle
  /\ UNCHANGED <<ticketVars, timeVars, deskVars>>

-----------------------------------------------------------------------------
(***************************************************************************)
(* The desk                                                                *)
(***************************************************************************)

\* A click: a worker reads the request.  The form may have been dealt with since.
DeskRead(w, kind, r) ==
  /\ desk[w] = Free
  /\ row[r].form
  /\ clicks < MaxClicks
  /\ clicks' = clicks + 1
  /\ desk' = [desk EXCEPT ![w] = Click(kind, r, row[r])]
  /\ UNCHANGED <<row, ticketVars, timeVars, job, entered, deaths>>

\* handle_rfq_submit: the rate is entered, and saved if the copy read was pending.
\* (Of a copy that was expired or cancelled, by the deletion of the form.)
DeskSubmit(w) ==
  /\ desk[w].kind = "submit"
  /\ \E rate \in Rates :
       LET r == desk[w].r
           c == [desk[w].copy EXCEPT !.rate = rate]
       IN /\ SaveClosed(r, c)
          /\ entered' = entered \cup {<<r, rate>>}
          /\ desk' = [desk EXCEPT ![w] = Click("close", r, Closed(c))]
  /\ UNCHANGED <<ticketVars, timeVars, job, clicks, deaths>>

\* handle_execute_cancel, which the form's cancel button calls
DeskCancel(w) ==
  /\ desk[w].kind = "cancel"
  /\ desk[w].copy.status # "CANCELED"
  /\ LET r == desk[w].r
         c == [desk[w].copy EXCEPT !.status = "CANCELED"]
     IN /\ Save(r, c)
        /\ desk' = [desk EXCEPT ![w] = Click("close", r, c)]
  /\ UNCHANGED <<ticketVars, timeVars, job, entered, clicks, deaths>>

\* The end of close()
DeskClose(w) ==
  /\ desk[w].kind = "close"
  /\ SaveDeleted(desk[w].r, desk[w].copy)
  /\ desk' = [desk EXCEPT ![w] = Free]
  /\ UNCHANGED <<ticketVars, timeVars, job, entered, clicks, deaths>>

\* A worker has nothing to do (the request is cancelled already), or dies.
DeskDrop(w) ==
  /\ desk[w] # Free
  /\ desk' = [desk EXCEPT ![w] = Free]
  /\ UNCHANGED <<row, ticketVars, timeVars, job, entered, clicks, deaths>>

-----------------------------------------------------------------------------
\* Time
EndTime(t) ==
  /\ ~ended[t]
  /\ ended' = [ended EXCEPT ![t] = TRUE]
  /\ UNCHANGED <<row, ticketVars, lapsed, job, deskVars, deaths>>

Lapse(r) ==
  /\ r \notin lapsed
  /\ lapsed' = lapsed \cup {r}
  /\ UNCHANGED <<row, ticketVars, ended, job, deskVars, deaths>>

Init ==
  /\ row = <<>>
  /\ state = [t \in Ticket |-> "ACCEPTED"]
  /\ quoteId = [t \in Ticket |-> 0]
  /\ quote = [t \in Ticket |-> NoRate]
  /\ held = [t \in Ticket |-> TRUE]
  /\ ended = [t \in Ticket |-> FALSE]
  /\ lapsed = {}
  /\ job = Idle
  /\ desk = [w \in Worker |-> Free]
  /\ entered = {}
  /\ clicks = 0
  /\ deaths = 0

EmsStep(t) ==
  \/ AskDesk(t) \/ AskFails(t) \/ FormPosted(t)
  \/ Remind(t) \/ RemindSave(t) \/ Poll(t) \/ Decide(t) \/ Release(t)

DeskStep(w) ==
  \/ \E r \in DOMAIN row : DeskRead(w, "submit", r) \/ DeskRead(w, "cancel", r)
  \/ DeskSubmit(w) \/ DeskCancel(w) \/ DeskClose(w) \/ DeskDrop(w)

Next ==
  \/ \E t \in Ticket : EmsStep(t) \/ EndTime(t)
  \/ \E w \in Worker : DeskStep(w)
  \/ \E r \in DOMAIN row : Lapse(r)
  \/ EmsCrash

Spec == Init /\ [][Next]_vars

\* The EMS's loop reaches every ticket it holds in every pass, its calls to Slack
\* return or time out, and a day goes by.  Nobody needs to be at the desk.
Fairness ==
  /\ \A t \in Ticket : SF_vars(EmsStep(t))
  /\ \A n \in 1 .. (Cardinality(Ticket) + MaxDeaths) : WF_vars(n \in DOMAIN row /\ Lapse(n))

FairSpec == Spec /\ Fairness

-----------------------------------------------------------------------------
(***************************************************************************)
(* Properties                                                              *)
(***************************************************************************)
\* Every variable holds a value of its kind; requests, jobs and clicks point at rows.
TypeOK ==
  /\ row \in Seq(Request)
  /\ state \in [Ticket -> States]
  /\ quoteId \in [Ticket -> 0 .. Len(row)]
  /\ quote \in [Ticket -> Rates \cup {NoRate}]
  /\ held \in [Ticket -> BOOLEAN]
  /\ ended \in [Ticket -> BOOLEAN]
  /\ lapsed \subseteq DOMAIN row
  /\ job \in {Idle} \cup [kind : {"form", "remind", "poll", "close"}, t : Ticket,
                          r : DOMAIN row, copy : Request, to : States]
  /\ desk \in [Worker -> {Free} \cup [kind : {"submit", "cancel", "close"}, r : DOMAIN row, copy : Request]]
  /\ entered \subseteq (DOMAIN row) \X Rates
  /\ clicks \in Nat
  /\ deaths \in Nat

\* A ticket goes on as quoted only with a rate somebody entered for its own request,
\* however clicks, reminders and old copies overwrite one another.
QuotedByDesk ==
  \A t \in Ticket : state[t] = "PENDRECON" =>
    /\ <<quoteId[t], quote[t]>> \in entered
    /\ row[quoteId[t]].ticket = t

\* The desk is asked about a ticket once, and once more for each death of the EMS.
RequestsAccounted ==
  \A t \in Ticket : Cardinality({r \in DOMAIN row : row[r].ticket = t}) <= 1 + deaths

\* Once a ticket is decided (otherwise than by its end time) its request is no longer
\* pending, whichever of the EMS and the workers saved it last.
DecidedClosed ==
  \A t \in Ticket :
    /\ state[t] \in {"PENDRECON", "FAILED", "EXPIRED"} /\ ~ended[t]
    /\ quoteId[t] # 0
    => row[quoteId[t]].status # "PENDING"

\* The desk has given a rate or cancelled, and no copy in the EMS's hands can undo it.
Said(t) ==
  /\ Cycled(t, "PEND_RFQ")
  /\ row[quoteId[t]].rate # NoRate \/ row[quoteId[t]].status = "CANCELED"

\* What the desk has said by the time the EMS is between two passes decides the ticket: it
\* does not expire instead, whatever is clicked next, and though the EMS should die.  (What
\* it says while the EMS holds a copy read before is lost when the EMS saves that copy.)
DeskHeard ==
  \A t \in Ticket : Said(t) ~> (state[t] \in {"PENDRECON", "FAILED"} \/ ended[t])

\* The EMS lets go of every ticket, though nobody may be at the desk.
Released == \A t \in Ticket : <>(~held[t])
=============================================================================

------------------------------ MODULE Payment -------------------------------
(***************************************************************************)
(* One payment of a company that wants payments approved: its approval,    *)
(* its quotes and executions, changes and cancellation, by requests that   *)
(* run at the same time.  Every request reads the payment and its cash     *)
(* flow generator when it begins and writes both rows whole, as it read    *)
(* them but for what it changes, when its transaction commits.  Meanwhile  *)
(* the OEMS works on the tickets and reports their states to the payment.  *)
(*                                                                         *)
(* The payment is a one-time payment with one cash flow.  Its tickets are  *)
(* what DealDesk promises of a ticket, without the quote's price.          *)
(***************************************************************************)
EXTENDS Naturals, Sequences, FiniteSets

CONSTANTS
  User,        \* users of the company that may be named as approvers
  Nobody,      \* no user
  Thread,      \* web workers
  FirstTimings,\* execution timings the payment may be created with
  MaxRequests  \* bound: requests begun

Timings == {"IMMEDIATE", "SCHEDULED", "STRATEGIC_EXECUTION"}

ASSUME PaymentAssumption ==
  /\ Nobody \notin User
  /\ FirstTimings \subseteq Timings
  /\ MaxRequests \in Nat

VARIABLES
  policy,   \* the company's settings: dual approval, exemption of this payment
  gen,      \* cashflow_generator: status, approvers, dates of approval
  pay,      \* payment: status and timing
  flow,     \* cashflow_singlecashflow: whether it is there, its id, the ticket it names
  tickets,  \* tickets made for the cash flow, in the order of their creation
  req,      \* the request each worker is in, with the rows as it read them
  lock,     \* the worker whose open transaction has locked both rows
  cancels,  \* CANCEL requests waiting for the OMS
  chores,   \* background tasks waiting: 0 for the payment, k for ticket k
  acts,     \* approvals given: who, for which of the two approvers
  begun, requests, withdrawn, resets, overlaps, orders, asked
            \* what happened: requests begun, approval requests, whether the
            \* payment was ever canceled, cash flows cut off from their ticket,
            \* tickets made or ordered on an old view of them, orders given to the OMS,
            \* tickets whose cancel was requested since they were last ordered

rows == <<gen, pay>>
oems == <<tickets, cancels>>
history == <<acts, begun, requests, withdrawn, resets, overlaps, orders, asked>>
vars == <<policy, gen, pay, flow, tickets, req, lock, cancels, chores,
          acts, begun, requests, withdrawn, resets, overlaps, orders, asked>>

Slots == {1, 2}
GenStatus == {"DRAFT", "PENDAUTH", "APPROVED", "CANCELED", "DELETED"}

\* WORKING stands for every status of an ordered ticket that is not dealt or over, BOOKED for
\* every one after the deal.
PayStatus ==
  {"DRAFTING", "PENDAUTH", "APPROVED", "WORKING", "SCHEDULED", "STRATEGIC_EXECUTION",
   "BOOKED", "PAYMENT_ISSUE", "CANCELED", "DELETED"}

\* How far a ticket has come.  "unquoted" is an RFQ that failed.
Stages == {"quoted", "unquoted", "ordered", "dealt", "over"}

Generator ==
  [status : GenStatus, is_dual_approval : BOOLEAN,
   approver : [Slots -> User \cup {Nobody}], approval_date : [Slots -> BOOLEAN]]
NewGenerator ==
  [status |-> "DRAFT", is_dual_approval |-> FALSE,
   approver |-> [i \in Slots |-> Nobody], approval_date |-> [i \in Slots |-> FALSE]]

PaymentRow == [payment_status : PayStatus, execution_timing : Timings]

\* ours: the ticket's cashflow_id names the cash flow
TicketRow == [stage : Stages, ours : BOOLEAN]

Kinds == {"request", "approve", "rfq", "execute", "update", "delete"}
Request ==
  [kind : Kinds, user : User \cup {Nobody}, gen : Generator, pay : PaymentRow,
   cash : Nat, seen : Seq(TicketRow)]

Idle == [kind |-> "none"]

ASSUME ThreadAssumption == Idle \notin Thread

Ours(ts) == {k \in DOMAIN ts : ts[k].ours}
Linked(k) == flow.ticket = k /\ k # 0

\* The cash flow's id, 0 if it was deleted.
CashFlow == IF flow.there THEN flow.id ELSE 0

\* Nothing, or the ticket the cash flow names.
LinkedTicket == {flow.ticket} \ {0}

-----------------------------------------------------------------------------
(***************************************************************************)
(* Requests begin: get_object_or_404, and what the views and services      *)
(* check before they change anything.                                      *)
(***************************************************************************)
\* The rows as a request of this kind read them.  An execution or a request for quotes looks
\* for the tickets, and saves no generator unless it follows an approval.
Read(kind, user) ==
  IF kind \in {"execute", "rfq"}
    THEN [kind |-> kind, user |-> user, gen |-> NewGenerator, pay |-> pay,
          cash |-> CashFlow, seen |-> tickets]
    ELSE [kind |-> kind, user |-> user, gen |-> gen, pay |-> pay, cash |-> 0, seen |-> <<>>]

Begin(c, kind, user) ==
  /\ begun < MaxRequests
  /\ begun' = begun + 1
  /\ req[c] = Idle
  /\ pay.payment_status # "DELETED"
  /\ req' = [req EXCEPT ![c] = Read(kind, user)]

\* The request for approval, an execution and a change check nothing of the payment.
BeginUnchecked(c) ==
  /\ \E kind \in {"request", "execute", "update"} : Begin(c, kind, Nobody)
  /\ UNCHANGED <<policy, rows, flow, oems, lock, chores, acts, requests, withdrawn, resets, overlaps, orders, asked>>

BeginApprove(c) ==
  /\ \E i \in Slots : gen.approver[i] # Nobody /\ Begin(c, "approve", gen.approver[i])
  /\ UNCHANGED <<policy, rows, flow, oems, lock, chores, acts, requests, withdrawn, resets, overlaps, orders, asked>>

\* Faulty variant: approval is not looked at.
NoApprovalNeeded == TRUE

\* validate_transaction_limit_and_approval
NoApprovalNeededNow == gen.status \in {"DRAFT", "PENDAUTH"} => policy.exempt

BeginRfq(c) ==
  /\ pay.execution_timing # "SCHEDULED"
  /\ NoApprovalNeededNow
  /\ Begin(c, "rfq", Nobody)
  /\ UNCHANGED <<policy, rows, flow, oems, lock, chores, acts, requests, withdrawn, resets, overlaps, orders, asked>>

\* do_req_action passes a cancel to the OMS, or answers that it is too late.  An ordered
\* ticket may be in a state of either kind.
Cancellable(k) == tickets[k].stage \in {"quoted", "ordered"}
TooLate(k) == tickets[k].stage # "quoted"

\* delete_payment: cancel the ticket the cash flow names; a refusal ends the request.
BeginDelete(c) ==
  /\ Begin(c, "delete", Nobody)
  /\ \A k \in LinkedTicket : Cancellable(k)
  /\ cancels' = cancels \cup LinkedTicket
  /\ asked' = asked \cup LinkedTicket
  /\ UNCHANGED <<policy, rows, flow, tickets, lock, chores, acts, requests, withdrawn, resets, overlaps, orders>>

-----------------------------------------------------------------------------
(***************************************************************************)
(* Requests commit.  A save writes every column; of a row that has been    *)
(* deleted it makes a new one.  The save of a CANCELED payment leaves a    *)
(* background task behind (post_save).                                     *)
(***************************************************************************)
Done(c) == req' = [req EXCEPT ![c] = Idle]

\* Faulty variant: no task is left behind.
ChoresOfNone(p) == {}

ChoresOf(p) == IF p.payment_status = "CANCELED" THEN {0} ELSE {}

SavePayment(p) ==
  /\ lock = Idle
  /\ pay' = p
  /\ chores' = chores \cup ChoresOf(p)

\* request_approval, for one or two users in the order the database returns them.
Requested(g, named) ==
  [g EXCEPT !.is_dual_approval = policy.dual,
            !.approver = [i \in Slots |-> IF i <= Len(named) THEN named[i] ELSE @[i]],
            !.status = IF @ = "DRAFT" THEN "PENDAUTH" ELSE @]

CommitRequest(c) ==
  /\ req[c].kind = "request"
  /\ \E a \in User, b \in User \cup {Nobody} :
       /\ a # b
       /\ gen' = Requested(req[c].gen, IF b = Nobody THEN <<a>> ELSE <<a, b>>)
  /\ SavePayment([req[c].pay EXCEPT !.payment_status = IF @ = "DRAFTING" THEN "PENDAUTH" ELSE @])
  /\ requests' = requests + 1
  /\ Done(c)
  /\ UNCHANGED <<policy, flow, oems, lock, acts, begun, withdrawn, resets, overlaps, orders, asked>>

\* The approver an approving user stands for: the first, if named twice.
SlotOf(r) == IF r.user = r.gen.approver[1] THEN 1 ELSE 2

\* Faulty variant: an approval counts for both approvers.
DatedBoth(r) == [r.gen EXCEPT !.approval_date = [i \in Slots |-> TRUE]]

DatedBy(r) == [r.gen EXCEPT !.approval_date[SlotOf(r)] = TRUE]

Complete(g) == g.approval_date[1] /\ (g.is_dual_approval => g.approval_date[2])

Approve(r) ==
  [r EXCEPT !.gen = [DatedBy(r) EXCEPT !.status = "APPROVED"], !.pay.payment_status = "APPROVED"]

\* approve_request, when more approvals are wanted ...
CommitApproval(c) ==
  LET r == req[c]
  IN /\ r.kind = "approve"
     /\ r.gen.status = "PENDAUTH"
     /\ ~Complete(DatedBy(r))
     /\ gen' = DatedBy(r)
     /\ SavePayment(r.pay)
     /\ acts' = acts \cup {<<r.user, SlotOf(r)>>}
     /\ Done(c)
     /\ UNCHANGED <<policy, flow, oems, lock, begun, requests, withdrawn, resets, overlaps, orders, asked>>

\* ... and when it is the last: both rows are saved, and locked until the
\* payment has been executed in the same transaction.
ApproveAndExecute(c) ==
  LET r == req[c]
  IN /\ r.kind = "approve"
     /\ r.gen.status = "PENDAUTH"
     /\ Complete(DatedBy(r))
     /\ lock = Idle
     /\ lock' = c
     /\ req' = [req EXCEPT ![c] = [Approve(r) EXCEPT !.kind = "execute", !.cash = CashFlow, !.seen = tickets]]
     /\ UNCHANGED <<policy, rows, flow, oems, chores, history>>

\* An execution ends its transaction, with the approval in front of it if any; sent are
\* the tasks it has sent before.
CommitBoth(c, status, sent) ==
  /\ \/ lock = c /\ gen' = req[c].gen
     \/ lock = Idle /\ gen.status # "DELETED" /\ UNCHANGED gen
  /\ lock' = Idle
  /\ pay' = [req[c].pay EXCEPT !.payment_status = status]
  /\ chores' = chores \cup ChoresOf(pay') \cup sent
  /\ acts' = acts \cup (IF lock = c THEN {<<req[c].user, SlotOf(req[c])>>} ELSE {})
  /\ Done(c)

Put(ks, stage) == [k \in DOMAIN tickets |-> IF k \in ks THEN [tickets[k] EXCEPT !.stage = stage] ELSE tickets[k]]

\* A request looked for the tickets before they, or the cash flow, were changed.
Overtaken(c) == tickets # req[c].seen \/ req[c].cash # CashFlow

\* n orders were given.
Ordered(c, n) ==
  /\ orders' = orders + n
  /\ overlaps' = overlaps + (IF Overtaken(c) THEN n ELSE 0)

Quotes(c) == {k \in Ours(req[c].seen) : req[c].seen[k].stage = "quoted"}

\* execute_rfq_payment: every quoted ticket that was found becomes an order, or is
\* refused (and fails, if the broker refused).  The payment is WORKING in any case; before
\* that the tickets' states are reported to it, and save it as it is.
ExecuteQuotes(c) ==
  /\ req[c].pay.execution_timing = "IMMEDIATE"
  /\ \E done \in SUBSET Quotes(c), failed \in SUBSET Quotes(c) :
       /\ done \cap failed = {}
       /\ CommitBoth(c, "WORKING",
            IF lock = Idle /\ LinkedTicket \cap (done \cup failed) # {} THEN ChoresOf(pay) ELSE {})
       /\ tickets' = [k \in DOMAIN tickets |->
                        IF k \in failed THEN [tickets[k] EXCEPT !.stage = "over"] ELSE Put(done, "ordered")[k]]
       /\ Ordered(c, Cardinality(done))
       /\ asked' = asked \ done
  /\ UNCHANGED <<policy, flow, cancels, begun, requests, withdrawn, resets>>

\* A ticket for the cash flow that was read.  If that one was replaced meanwhile, the
\* ticket is made all the same, and update_cashflow_ticket_id_task finds nobody to tell.
NewTicket(c, stage) ==
  /\ req[c].cash # 0
  /\ tickets' = Append(tickets, [stage |-> stage, ours |-> req[c].cash = CashFlow])
  /\ flow' = IF req[c].cash = CashFlow THEN [flow EXCEPT !.ticket = Len(tickets) + 1] ELSE flow

\* Faulty variant: the ticket that exists already is not looked for.
ExecutableAlways(c) == TRUE

\* ExecuteSerializer.save raises when the cash flow has a ticket already.
Executable(c) == Ours(req[c].seen) = {}

\* execute_non_rfq_payment: a new ticket, straight to the OMS.  Without one (refused,
\* or one exists) the payment's status is the same.
ExecuteDirectly(c) ==
  /\ req[c].pay.execution_timing # "IMMEDIATE"
  /\ CommitBoth(c, req[c].pay.execution_timing, {})
  /\ \/ Executable(c) /\ NewTicket(c, "ordered") /\ Ordered(c, 1)
     \/ UNCHANGED <<flow, tickets, orders, overlaps>>
  /\ UNCHANGED <<policy, cancels, begun, requests, withdrawn, resets, asked>>

\* An exception in the execution after an approval is swallowed.
ExecuteRaises(c) ==
  /\ lock = c
  /\ CommitBoth(c, "APPROVED", {})
  /\ UNCHANGED <<policy, flow, oems, begun, requests, withdrawn, resets, overlaps, orders, asked>>

CommitExecute(c) ==
  /\ req[c].kind = "execute"
  /\ ExecuteQuotes(c) \/ ExecuteDirectly(c) \/ ExecuteRaises(c)

\* create_ticket_with_rfq_api_view without a ticket: the first quote, or a failed one ...
CommitRfq(c) ==
  /\ req[c].kind = "rfq"
  /\ Ours(req[c].seen) = {}
  /\ \E stage \in {"quoted", "unquoted"} : NewTicket(c, stage)
  /\ overlaps' = overlaps + (IF Overtaken(c) THEN 1 ELSE 0)
  /\ Done(c)
  /\ UNCHANGED <<policy, rows, cancels, lock, chores, acts, begun, requests, withdrawn, resets, orders, asked>>

\* ... and with one: a new quote for it, whatever has become of it.  Either way the payment
\* is saved; of one that was ordered, the states on the way to the quote are its status.
Requoted(k) ==
  IF tickets[k].stage \in {"quoted", "unquoted"}
    THEN /\ \E stage \in {"quoted", "unquoted"} : tickets' = Put({k}, stage)
         /\ IF Linked(k) THEN SavePayment(pay) ELSE UNCHANGED <<pay, chores>>
    ELSE /\ UNCHANGED tickets
         /\ IF Linked(k)
              THEN \E status \in {"DRAFTING", "WORKING", "PAYMENT_ISSUE"} :
                     SavePayment([pay EXCEPT !.payment_status = status])
              ELSE UNCHANGED <<pay, chores>>

CommitRequote(c) ==
  /\ req[c].kind = "rfq"
  /\ \E k \in Ours(req[c].seen) : Ours(req[c].seen) = {k} /\ Requoted(k)
  /\ Done(c)
  /\ UNCHANGED <<policy, gen, flow, cancels, lock, acts, begun, requests, withdrawn, resets, overlaps, orders, asked>>

\* The tickets there are for the cash flow are no longer for it.
CutOff ==
  /\ resets' = resets + (IF Ours(tickets) = {} THEN 0 ELSE 1)
  /\ tickets' = [k \in DOMAIN tickets |-> [tickets[k] EXCEPT !.ours = FALSE]]

\* update_payment: a change that matters to the ticket cuts it off from the cash flow, and
\* leaves it to the OMS; a change of the payment's type replaces the cash flow, and
\* with it asks (pre_delete) for the ticket to be cancelled.
CommitUpdate(c) ==
  /\ req[c].kind = "update"
  /\ gen' = req[c].gen
  /\ \E timing \in Timings, reset, retype \in BOOLEAN :
       /\ flow.there \/ retype
       /\ timing # req[c].pay.execution_timing => reset
       /\ lock = Idle
       /\ pay' = [req[c].pay EXCEPT !.execution_timing = timing]
       /\ chores' = chores \cup ChoresOf(pay') \cup (IF retype THEN LinkedTicket ELSE {})
       /\ IF reset \/ retype
            THEN /\ CutOff
                 /\ flow' = [there |-> TRUE, id |-> IF retype THEN flow.id + 1 ELSE flow.id, ticket |-> 0]
            ELSE UNCHANGED <<tickets, flow, resets>>
  /\ Done(c)
  /\ UNCHANGED <<policy, cancels, lock, acts, begun, requests, withdrawn, overlaps, orders, asked>>

\* delete_payment, when the cancel was accepted: a payment that was read as DRAFTING
\* is deleted with its cash flow, any other is CANCELED.
CommitDelete(c) ==
  /\ req[c].kind = "delete"
  /\ lock = Idle
  /\ IF req[c].pay.payment_status = "DRAFTING"
       THEN /\ gen' = [gen EXCEPT !.status = "DELETED"]
            /\ pay' = [pay EXCEPT !.payment_status = "DELETED"]
            /\ flow' = [flow EXCEPT !.there = FALSE, !.ticket = 0]
            /\ CutOff
            /\ chores' = chores \cup LinkedTicket
       ELSE /\ gen' = [req[c].gen EXCEPT !.status = "CANCELED"]
            /\ SavePayment([req[c].pay EXCEPT !.payment_status = "CANCELED"])
            /\ UNCHANGED <<flow, tickets, resets>>
  /\ withdrawn' = TRUE
  /\ Done(c)
  /\ UNCHANGED <<policy, cancels, lock, acts, begun, requests, overlaps, orders, asked>>

\* The tasks a request may have left: they are sent before its transaction commits.
LeftBy(r) ==
  IF r.kind = "delete" /\ r.pay.payment_status # "DRAFTING"
    THEN {0}
    ELSE ChoresOf(r.pay) \cup (IF r.kind \in {"update", "delete"} THEN LinkedTicket ELSE {})

\* A request that is refused, raises or dies: its transaction is rolled back, but not
\* the tasks it has sent.
DropRequest(c) ==
  /\ req[c] # Idle
  /\ Done(c)
  /\ lock' = IF lock = c THEN Idle ELSE lock
  /\ \E left \in SUBSET LeftBy(req[c]) : chores' = chores \cup left
  /\ UNCHANGED <<policy, rows, flow, oems, history>>

-----------------------------------------------------------------------------
(***************************************************************************)
(* Background tasks and the OEMS                                           *)
(***************************************************************************)

\* bulk_ticket_cancel_task: a task for the ticket of the payment's cash flow.
RunBulkTask ==
  /\ 0 \in chores
  /\ chores' = (chores \ {0}) \cup LinkedTicket
  /\ UNCHANGED <<policy, rows, flow, oems, req, lock, history>>

\* cancel_single_ticket_task: asks the OMS, or is refused, which is logged.
RunTask(k) ==
  /\ k \in chores
  /\ chores' = chores \ {k}
  /\ asked' = asked \cup {k}
  /\ \/ Cancellable(k) /\ cancels' = cancels \cup {k}
     \/ TooLate(k) /\ UNCHANGED cancels
  /\ UNCHANGED <<policy, rows, flow, tickets, req, lock, acts, begun, requests, withdrawn, resets, overlaps, orders>>

\* Faulty variant: the state of the ticket is not translated.
ReportUntranslated(k, status) ==
  IF Linked(k) THEN SavePayment([pay EXCEPT !.payment_status = tickets[k].stage])
               ELSE UNCHANGED <<pay, chores>>

\* update_payment_status_from_ticket_state: the payment whose cash flow names the
\* ticket is read and saved at once, unless a transaction has locked it.
Report(k, status) ==
  IF Linked(k) THEN SavePayment([pay EXCEPT !.payment_status = status])
               ELSE UNCHANGED <<pay, chores>>

OemsChange(k, from, stage, status) ==
  /\ tickets[k].stage \in from
  /\ tickets' = Put({k}, stage)
  /\ Report(k, status)
  /\ UNCHANGED <<policy, gen, flow, req, lock, history>>

OemsWork(k) ==
  /\ \/ OemsChange(k, {"ordered"}, "ordered", "WORKING")
     \/ OemsChange(k, {"ordered", "dealt"}, "dealt", "BOOKED")
     \/ OemsChange(k, {"ordered"}, "over", "PAYMENT_ISSUE")
  /\ UNCHANGED cancels

\* The OMS refuses a cancel, or carries it out; even then the EMS may go on with a
\* ticket it has (see Oems).
OemsCancel(k) ==
  /\ k \in cancels
  /\ cancels' = cancels \ {k}
  /\ \/ OemsChange(k, {"ordered"}, "over", "CANCELED")
     \/ OemsChange(k, {"ordered"}, "ordered", "CANCELED")
     \/ UNCHANGED <<policy, rows, flow, tickets, req, lock, chores, history>>

-----------------------------------------------------------------------------
Init ==
  /\ policy \in [dual : BOOLEAN, exempt : BOOLEAN]
  /\ gen = NewGenerator
  /\ pay \in [payment_status : {"DRAFTING"}, execution_timing : FirstTimings]
  /\ flow = [there |-> TRUE, id |-> 1, ticket |-> 0]
  /\ tickets = <<>> /\ cancels = {} /\ chores = {}
  /\ req = [c \in Thread |-> Idle] /\ lock = Idle
  /\ acts = {} /\ asked = {} /\ withdrawn = FALSE
  /\ begun = 0 /\ requests = 0 /\ resets = 0 /\ overlaps = 0 /\ orders = 0

Work(c) ==
  \/ BeginUnchecked(c) \/ BeginApprove(c) \/ BeginRfq(c) \/ BeginDelete(c)
  \/ CommitRequest(c) \/ CommitApproval(c) \/ ApproveAndExecute(c) \/ CommitExecute(c)
  \/ CommitRfq(c) \/ CommitRequote(c) \/ CommitUpdate(c) \/ CommitDelete(c)
  \/ DropRequest(c)

Next ==
  \/ \E c \in Thread : Work(c)
  \/ RunBulkTask
  \/ \E k \in DOMAIN tickets : RunTask(k) \/ OemsWork(k) \/ OemsCancel(k)

Spec == Init /\ [][Next]_vars

-----------------------------------------------------------------------------
(***************************************************************************)
(* Properties                                                              *)
(***************************************************************************)

\* Type invariant.
TypeOK ==
  /\ policy \in [dual : BOOLEAN, exempt : BOOLEAN]
  /\ gen \in Generator
  /\ pay \in PaymentRow
  /\ tickets \in Seq(TicketRow)
  /\ flow \in [there : BOOLEAN, id : Nat \ {0}, ticket : 0..Len(tickets)]
  /\ req \in [Thread -> Request \cup {Idle}]
  /\ lock \in Thread \cup {Idle}
  /\ cancels \in SUBSET DOMAIN tickets
  /\ chores \in SUBSET (0..Len(tickets))
  /\ acts \in SUBSET (User \X Slots)
  /\ asked \in SUBSET DOMAIN tickets
  /\ withdrawn \in BOOLEAN
  /\ begun \in 0..MaxRequests
  /\ requests \in Nat /\ resets \in Nat /\ overlaps \in Nat /\ orders \in Nat

\* A payment of a company with dual approval is APPROVED only by two different users,
\* and a date of approval is there only because its approver gave it, as long as the
\* approvers are named once (payment_approval.py:53-71).
DualControl ==
  requests <= 1 =>
    /\ \A i \in Slots : gen.approval_date[i] => <<gen.approver[i], i>> \in acts
    /\ gen.status = "APPROVED" /\ policy.dual =>
         \E a, b \in acts : a[1] # b[1]

\* The OMS is given one order for the payment's cash flow, and one more only for each time
\* it was cut off from its ticket or executed on an old view of its tickets.
OrdersAccounted == orders <= 1 + resets + overlaps

\* The cash flow has one ticket, which every look-up relies on, but for those made on an old
\* view of its tickets; the ticket it names is one of them (payment_rfq.py:140,
\* execute.py:105).
TicketsAccounted ==
  /\ Cardinality(Ours(tickets)) <= 1 + overlaps
  /\ LinkedTicket \subseteq Ours(tickets)

\* Every approver that the company asks for has approved.
Approved == \A i \in Slots : i = 1 \/ policy.dual => \E u \in User : <<u, i>> \in acts

\* No broker is asked for a quote before the approvals the company asks for were given,
\* except where the creator may do without or the payment was canceled
\* (validate_transaction_limit_and_approval).
QuotedApproved ==
  (\E k \in DOMAIN tickets : tickets[k].stage \in {"quoted", "unquoted"}) =>
    policy.exempt \/ withdrawn \/ Approved

\* As long as a canceled payment has a ticket on order, its cancel has been requested
\* since it was ordered, or a task that will ask is on its way, whatever was saved
\* in between (handlers.py:77-98, cancel_ticket.py).
CancelUnderway ==
  \A k \in DOMAIN tickets :
    pay.payment_status = "CANCELED" /\ Linked(k) /\ tickets[k].stage = "ordered" =>
      k \in asked \/ chores \cap {0, k} # {}
=============================================================================

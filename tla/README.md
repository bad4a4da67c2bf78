# TLA+ models of the order management backend, the payments and the hedge

This directory holds TLA+ models of the part of the repository where processes meet: the order
management backend, OEMS (`src/main/apps/oems`), which takes a client's FX ticket from an API call to a
deal at a broker and to settlement; the payments in front of it (`src/main/apps/payment`,
`src/main/apps/approval`), which are approved, quoted, executed, changed and canceled by requests that run at
the same time; the end-of-day hedge beside it (`src/main/apps/hedge`), a chain of tasks that orders what a company's
accounts want and attributes to them what the broker then holds; and the beneficiaries (`src/main/apps/settlement`), which are kept
here and at up to three brokers at once. TLC checks the models on small instances, and TLAPS proves the main results for all values
of the constants.

## 1. Inventory

### The processes of the OEMS and what they keep

| Part | Code | State | Operations |
|---|---|---|---|
| API views and trading provider | `services/trading.py`, `api/serializers/*.py` | none of its own between requests; a request holds a copy of a row while it calls services | create an execution or an RFQ, refresh an RFQ, execute a quoted RFQ, forward CANCEL, PAUSE, RESUME, ACTIVATE, AUTHORIZE |
| Ticket table | `models/ticket.py`, `backend/ticket.py` | one row per ticket | `save` (changed columns only in the backend; every column in the API), `refresh_from_db` |
| Message queue | `backend/db.py` | one table, a topic per direction | `enqueue`, `dequeue` (commits at once), `replay_queue`, `delete_from_queue` |
| OMS process | `backend/oms.py` | `tickets`, cached copies of the rows it owns | `cycle_api_queue`, `cycle_internal_queue`, `cycle_tickets`, `load`; settlement |
| Execution EMS | `backend/ems.py`, `rfq_ems.py`, `corpay_ems.py` | its own `tickets` cache | take a CREATE, expire, quote, execute, give back, `load` |
| Broker modules | `backend/rfq_utils.py` | none; remote services | `rfq`, `pre_exec_check`, `execute`, `complete`, `settle`, `time_to_settle` |
| Manual desk | `models/manual_request.py`, `backend/slack_registry.py`, `rfq_ems.py` | manual requests, one row each; web workers hold copies while they handle a click | create, remind, answer, cancel, expire |
| Strategy EMS | `backend/strat_ex_ems.py` | its own `tickets` cache | hold a ticket until a strategy is ready |
| Administration site | `admin.py` | none | edit any column of a ticket |
| Payments | `payment/services/*.py`, `payment/api/views/*.py` | a payment row, its generator row, its cash flows; each names a ticket and is named by one | create, change, delete, request quotes, execute |
| Approvals | `approval/services/payment_approval.py` | approvers and dates, columns of the generator row | request, approve; the last approval executes the payment |
| Background tasks and signals | `payment/tasks/*.py`, `payment/signals/handlers.py` | none; a queue of tasks | cancel a payment's tickets; write a ticket's state to the payment |
| End-of-day hedge | `hedge/tasks/*.py`, `hedge/services/{eod_and_intra,hedger,broker_reconcile,oms}.py`, `hedge/calculators/*.py`, `oems/tasks/check_if_company_orders_are_done.py` | rows found by time: company events with their snapshots of the company's and of the accounts' positions, hedge actions with requests, desired positions and orders | take and attribute the position, hedge, wait for the orders, take and attribute it again |
| Beneficiaries | `settlement/api/views/beneficiary.py`, `settlement/api/serializers/beneficiary.py`, `settlement/tasks.py`, `settlement/services/beneficiary.py` | a row per beneficiary, a link (`BeneficiaryBroker`) per broker it was told to, and the brokers' own payees | create, activate, change, delete; tell each broker; import from a broker |

The repository's other applications (accounts, market data, broker API
clients, reporting and so on) are listed one by one in `PROJECT.json`, each with the reason it is
not modelled or with its place in the plan.

### How they interact

```
 API threads --api2oms--> OMS --oms2ems_<destination>--> EMS --HTTP--> broker
      |                    ^  |                           |
      |                    |  +------ complete, settle ---|--HTTP--> broker
      |                    +-------- ems2oms_<oms> -------+
      +---- row (all columns)   row (changed columns)   row (changed columns)
```

All processes share the ticket table; the OMS and the EMS each also keep a copy that is *not* re-read
before it is acted on. The OMS refreshes its copy when it handles a notification from the EMS, and
never otherwise. The EMS works on the snapshot it received in the CREATE message. API threads
check a row, call remote services, and write the whole row back. Ownership (`oms_owner`,
`ems_owner`) is a column that each process sets when it takes a ticket and clears when it gives it up.

A payment calls the trading provider in its own request, for quotes and orders, and for cancels before it is
deleted; the OEMS answers by signals, whenever a ticket's state changes in whichever process. Payment and
generator are read when a request begins and written back whole when it ends.

A request that activates or changes a beneficiary tells the brokers itself, one after the other, and saves each answer; an import, a
background task, writes the brokers' payees into the same rows. Nothing is locked, so that two requests, a deletion or an import may
come between any two of these steps.

The tasks of a company's hedge run one after the other every day, and hand nothing to each other: each looks up the latest
event or the latest action of the kind it wants. The orders they send to the OMS fill while they run, or after.

### What is hard, and what must hold

* **Ownership**: a row that names an owner is in that owner's cache, whatever dies (`OwnedIsHeld`).
* **Exactly one deal**: one CREATE, one deal; deaths and lost answers cost a bounded number more
  (`SendAccounted`, `DealAccounted`, `OneDeal`).
* **Authorisation**: what is executed was authorised (`DealsAuthorised`).
* **Control requests race with the work**: a pause or a cancel that took effect is final for what
  was not sent yet (`PauseHolds`, `OverNotSent`).
* **Stale copies**: the copies agree with the row once nothing is under way (`CopiesAgree`); a fill is
  not undone by an older copy (`FilledKept`, which cancels break: see the findings).
* **Nothing gets stuck**: accepted tickets are decided, the EMS gives back what it took, filled tickets
  leave the OMS or are explicitly abandoned (`Decided`, `EmsGivesBack`, `LetGo`).
* **Settlement**: complete once, settle once, retries and deaths counted; DONE means settled
  (`CompleteAccounted`, `SettleAccounted`, `DoneIsSettled`, `NotSettledAgain`).

* **The desk's word counts**: a quote is a rate somebody entered for that ticket, an answer or a cancellation
  decides the ticket, a decided ticket's request is closed, and nobody is asked more often than deaths explain
  (`QuotedByDesk`, `DeskHeard`, `DecidedClosed`, `RequestsAccounted`).

* **Payments**: an approved payment was approved by the people asked, and not quoted before (`DualControl`,
  `QuotedApproved`); it is ordered once, and again only for reasons that are counted (`OrdersAccounted`,
  `TicketsAccounted`); the cancel of a canceled payment's ticket is not lost (`CancelUnderway`).

* **Hedge positions**: the LIVE accounts' rows add up to what the broker reports (`Attributed`), taking them again
  moves nothing (`Unmoved`), and every active account gets to what it wants (`Converges`).

* **Beneficiaries**: what a payment is sent to is the payee meant (`LinkTrue`); SYNCED means that the brokers were told
  (`SyncedTold`), PENDING that somebody is telling them (`PendingWorked`); a payee is made once, and again only for reasons that are
  counted (`PayeesAccounted`).

`PROJECT.json` lists the hazards behind these, each at its line, with the properties that cover it.

## 2. Modules

| Module | Models |
|---|---|
| `OemsStates` | The vocabulary: internal and external states, phases, the groups of states the guards test, the ticket record cut down to nine fields, and `Saved`, the column-wise save of a copy |
| `Oems` | API, OMS, EMS, broker, queues and table, up to the fill |
| `Settlement` | What the OMS does with a filled ticket: completion, settlement, retries, clean-up by date |
| `RfqDesk` | Quotes by hand: manual requests between the EMS that polls them and the desk that answers them |
| `DealDesk` | What the order path promises about a ticket, abstractly: quoted, ordered, sent, dealt or over |
| `OemsDesk` | The refinement mapping from `Oems` to `DealDesk` |
| `Payment` | A payment: approvals, quotes, executions, changes, deletion, background tasks; the OEMS as `DealDesk` sees it |
| `HedgeEod` | The end-of-day hedge of one company in one pair: snapshot, attribution, hedge, waiting, fills, failures |
| `Beneficiary` | The beneficiaries of one company in one currency: requests, synchronisation to the brokers, import from them |
| `MCOems`, `MCSettlement`, `MCRfqDesk`, `MCPayment`, `MCHedgeEod`, `MCBeneficiary` | Symmetry sets and model values for TLC |
| `OemsProofs`, `OemsOrderProofs`, `OemsDeskProofs`, `SettlementProofs`, `PaymentProofs`, `RfqDeskProofs`, `HedgeEodProofs`, `BeneficiaryProofs` | Theorems |

### Oems: state and actions against the code

A ticket is a record of the fields the handlers test or write. There are up to four copies of it:
`row` (the table), `oms` and `ems` (the two caches; `NoTicket` when the process does not hold the
ticket) and the snapshots inside messages (`apiQ`, `emsQ`) and inside API requests (`req`).
`Saved(was, now, r)` is `Ticket.save`: only the columns that differ between the copy as it was last
clean and the copy as it is now are written over `r`.

* **API.** `CreateExecute` and `CreateRfq` are the two serializers. `do_execute_rfq` and `refresh_rfq` are
  split where they call remote services: `ReadQuoted`/`ReadToRefresh` evaluate the guards and take the
  copy; `CommitExecute`, `RefuseExecute`, `CommitRefresh` or `DropRequest` end the request later.
  `RequestControl` is `do_req_action`: it checks the row and forwards the request.
* **OMS.** `OmsAdmit` is `create_ticket`/`execute_rfq_ticket`, `OmsCancel`, `OmsControl(op)` and `OmsRefuse`
  the control requests, `OmsReceive` a notification, `OmsCycle` one pass of `cycle_ticket`. The code's checks
  call `cycle_ticket` recursively, so a pass may carry a ticket through several states; `Cycle(t, tk)` is the
  set of all the outcomes of such a pass, and `Dispatch` its end, the CREATE for the EMS.
* **EMS.** `EmsTake` takes a CREATE and enters `do_accept`; the broker calls inside it are
  points where everybody else goes on (`job`): `EmsRequote`, `EmsUseQuote`, `EmsQuoteGone`, `EmsRefused`,
  `EmsFill`, `EmsAnswerLost`. The EMS does one thing at a time (`EmsIdle`), as its loop does. `EmsResume` and
  `EmsLetGo` are the cycle of a ticket that `load` found after a restart.
* **Deaths.** Each process may die wherever the code commits something: with a message dequeued and not
  handled, between the CREATE and the save of the phase, with a deal booked and not saved, with the last save
  made and DONE not sent, between an API worker's save and its enqueue. A restart is `load`: the
  rows the process owns.
* **Time.** `EndTime` and `QuoteLapse`.

Some branches look strange and are what the code does. A message for a ticket the EMS already owns goes
to a topic whose name is an unformatted literal (`oms.py:139`). `check_expiry` of the EMS lets go of the
ticket and executes it all the same (`ems.py:246-252`). A mass payment is booked and nothing is
recorded (`rfq_utils.py:994`); whether a ticket has the several beneficiaries that make it one is left open (`Outcomes`). An authorised ticket stays in PENDFUNDS (`oms.py:261`).

Counters (`admitted`, `sent`, `taken`, `booked`, `overwrites`, `restarts`) record what happened for the
properties; no action's guard reads them, except the two bounds `asks` and `restarts`.

### Settlement: state and actions against the code

One step is one pass of `cycle_ticket`: `CheckFilled`, `CheckSettlement` (with the clean-up that ends it,
`Settle`), `CheckFailedSettle`, `CheckRecon`, `CheckDone`. The broker may do its part and report a failure
(`Called`). The dates the handlers compare with are points on one clock relative to the value date. `known`
is the cached copy's view of the beneficiaries, which only a restart brings up to date; `cutoff` is the
attribute `_cleanup_date` of the cached copy, which `check_recon` takes over from `check_settlement`. The
OMS may die after each broker call and before the save. Whether a ticket is `outright` (an NDF, or a forward
at Monex) is chosen at the start and never changes. At this stage tickets do not influence one another, so
that one ticket shows what any number does.

### RfqDesk: state and actions against the code

`row` is the table of manual requests, in the order of their ids, each cut down to its status, its booked rate
and whether the desk can answer it (`form`: Slack has a form, and the ticket is an NDF, since
`get_text` names no request in another's form). A ticket is its `state`, `quoteId`, `quote` and `held` (owned and cached
by the EMS). Every save of a request writes the whole row from a copy, and Slack is called between readings and
saves, so that the EMS and each web worker is a small sequence of steps over a copy:

* **EMS** (`job`): `AskDesk` or `AskFails`, `FormPosted` (do_accept); `Remind` and `RemindSave`, or `Poll`, then
  `Decide` and `Release` (check_pend_rfq). It does one thing at a time. Its death (`EmsCrash`) forgets the job and
  reloads the ticket as its row is, which asks the desk again if the ticket is still ACCEPTED.
* **Desk** (`desk`): `DeskRead` is a click, `DeskSubmit` and `DeskCancel` what its handler saves, `DeskClose` the
  second save after the form was deleted; a worker may die in between (`DeskDrop`).
* **Time**: `Lapse` is the request's expiration, `EndTime` the ticket's.

What the code does and the model shows: a submit on a request that is cancelled or expired already is saved all the
same, by the deletion of its form (`manual_request.py:189`), and the EMS then quotes the ticket, since it looks at
the rate first; a rate of 0 marks the request expired and quotes the ticket; an answer saved while the EMS is
posting the form or sending a reminder is overwritten; an ACCEPTED ticket past its end time is asked about and
left in PEND_RFQ with no owner; a quoted ticket goes to PENDRECON and then DONE, so
that `do_execute_rfq`, which wants RFQ_DONE (`trading.py:255`), never executes it. The properties are what is true in spite of these, with their exceptions spelled out.

### DealDesk and OemsDesk: what the order path implements

`DealDesk` has one variable per promise: how far a ticket has come (`stage`), and its deals. `OemsDesk` reads the
stage off the places in `Oems` that can still make something of the ticket: a deal booked; else the EMS's topic or
job (sent); else a copy or request that the OMS may still turn into a CREATE (ordered); else a quote that can be
executed; else over. The state in the row does not say, as it reads CANCELED or RFQ_DONE while the EMS executes.
`ImplementsDealDesk` is the safety part: no step of any process skips a stage, goes back, or deals twice, with three
control requests, expiry and stale copies about. `ImplementsLiveDesk` adds `Resolved`: what was sent is dealt or given
up. Both are claimed where nobody dies and one API thread works on a ticket; with deaths or two threads a ticket
can be sent or ordered twice, and `SendAccounted` and `DealAccounted` say what is left. The safety part is also a theorem (section 4).

### Payment: state and actions against the code

`gen` and `pay` are the generator's and the payment's rows cut down to what guards read; `flow` is the cash flow, its
identity and the ticket it names, and `tickets[k].ours` says that ticket `k` names it back. A request (`req`) is begun by one of
the `Begin` actions, with the rows as it read them, and ended by one of the `Commit` actions or `DropRequest`; in
between every other request, task and process goes on. What a commit does not change it writes back as it was
read, as Django's `save` does, and a row that was deleted is made again.

* **Approval.** `CommitRequest` is `request_approval`, `CommitApproval` an approval that wants another,
  `ApproveAndExecute` the last one, which keeps its transaction (and the rows' locks, `lock`) while the payment is executed.
* **Execution.** `ExecuteQuotes` (every quoted ticket found), `ExecuteDirectly` (a new ticket, refused if one was
  found), `ExecuteRaises` (swallowed after an approval). Whether anything was ordered or not, the payment gets its status.
* **Quotes.** `CommitRfq` makes a ticket, `CommitRequote` asks again for the one found.
* **Change and deletion.** `CommitUpdate` may cut the ticket off from the cash flow, or replace the cash flow;
  `BeginDelete` requests the cancel of the ticket, `CommitDelete` deletes or cancels the payment.
* **Background and OEMS.** `RunBulkTask` and `RunTask` are the cancel tasks; `OemsWork` and `OemsCancel` are steps of
  `DealDesk` for an ordered ticket, with the report to the payment.

What the code does and the model shows: executing an immediate payment needs quotes, and quotes need approval, but scheduled
and strategic payments are executed without either; an execution that orders nothing leaves the payment WORKING,
SCHEDULED or STRATEGIC_EXECUTION; a payment canceled before its approval can be quoted, and one that was canceled is
executed like any other; approvals given at the same time lose one of the two dates; approvers named again keep the earlier dates; a
ticket cut off by a change is still dealt; a payment whose ticket cannot be cancelled any more cannot be deleted.
`DualControl`, `OrdersAccounted`, `TicketsAccounted` and `QuotedApproved` hold with these exceptions spelled out.

### HedgeEod: state and actions against the code

Three rows matter, each found by time: `snap`, the latest event with a company snapshot, with its account rows; `held`,
the account rows of the latest event with an account snapshot; `wish`, the desired positions of the latest hedge action. They
are the same event and action on a good day, and not after a failure. `cur` is the event being written, with the two
flags as they were *saved*: `create_company_positions` saves the company's, `create_fx_positions` both.
`window` is what queries from the time of `snap` on find: which accounts made a request, and the DEMO orders. `market` is the
company's position at the broker; `working` and `late` are orders of the latest and of earlier actions, not filled yet.

* **Snapshot.** `TakeSnapshot` is `create_company_fx_positions`: the LIVE position from the broker, the DEMO position
  (`ExpectedDemo`) from rows and orders. In a company with LIVE accounts the rows it finds are those of the event being
  written, which has none yet.
* **Attribution.** `ReconcileDemo` and `ReconcileLive` are the two calls of `_reconcile_for_single_type`. `Distribute` gives each
  account what it wanted and shares excess or shortfall by size; `KeepHolding` is the case that all want nothing.
  `Stored` says when rows are written at all. `Conclude` makes of the event what later queries find of it.
* **Chain.** `StartEod`, `Hedge`, `EndEod`. In `Hedge` each part may fail for itself, as the code logs and goes on: the
  calculation of an account, its requests, its desired position, an order; and the margin may cut the LIVE positions.
  Exceptions of the start of the day (`StartFails`) and of the time-out (`Timeout`) are dropped by a `return` in a `finally` block, so
  that the next task runs; `ChainDies` is the end failing, or the worker killed.
* **World.** `Fill`, `FillShort`, `FillLate`, `TradeOutside`, `ChangeWant`, `Deactivate`, `Activate`.

What the code does and the model shows: the wait for the orders gives up after its time-out and the day ends all the
same, with orders working ("Timeout for OMS to fill orders", `check_if_company_orders_are_done.py:37`, is discarded at `:56`); positions are
attributed by the latest wishes, even of another day; a position nobody wanted and nobody held is split evenly, and the split is not
stored unless another pair has something to store; what an account held when it was
switched off is not closed, but falls at the next attribution to those that want something, whose next hedge sells it.

### Beneficiary: state and actions against the code

`row` is the table, cut down to the status, what the beneficiary says (one value for all its fields) and `external_id`; `link[b][k]` is
`BeneficiaryBroker`, the identifier of row `b` at broker `k` (`Blank` between `get_or_create` and `save`); `held` is what the brokers hold,
with the row it was made for. A request is a sequence of steps, each one commit or one call:

* **Views.** `Create`, `Destroy`; `ActivateRead`, `ActivateSave` (the column `status` alone); `UpdateRead`, `UpdateSave`,
  `UpdatePending` (the whole row, twice).
* **Synchronisation** (`sync_beneficiary_to_brokers`, which the views call in their own request). `Load`; for each service, in any
  order, `TryService` (look for a link), `Accepted` or `Refused` (the broker), `LinkFind`, `LinkSave` (`update_bene_broker`); `Finish` with the `Verdict`.
* **Import.** `ImportView` asks for one payee, `ImportSave` writes it in one transaction, `ImportGivesUp` stands for every way it does not.
* **Faults.** `Die` ends a request anywhere: the worker, or an exception outside the services, such as the factory's when a configured broker
  has no settings; an answer may be lost (`Accepted` with `answered` false).

`hitches`, `loose`, `killed` and a request's `alone` record what happened for the properties, and the bound on it.

What the code does and the model shows: `BeneficiaryBroker` has no column `company`, so that an update at Nium always fails
(`services/beneficiary.py:935-938`) and such a beneficiary is PARTIALLY_SYNCED after its first change, or DRAFT again if Nium is its only broker;
a deletion tells no broker, and the next import brings the beneficiary back; an update under way brings it back too, without its links;
an import that meets a payee before its link is saved makes a second row of it, and once both have their links every later import fails on
`MultipleObjectsReturned`, Monex's for that payee and Corpay's altogether; a row imported from Corpay that is then changed is filed there a second
time, under its own `beneficiary_id` (`:876`); an import from one broker says SYNCED for all; an activation with no broker
configured answers "activated successfully" and leaves the row in DRAFT.

### Composition

`Payment` uses of a ticket what `DealDesk` promises of it, and `Oems` implements `DealDesk`; only an `unquoted` ticket, a
failed RFQ that can be asked for again, is finer than `DealDesk`, where it is over. A second execution of a quote, which
`DealDesk` excludes with one API thread, is allowed in `Payment` and counted.


`Oems` stops where `Settlement` begins: `Settling` sets one of the states in which `Settlement` goes on, and
the first step of `Settlement` is that same `check_filled`. In `Oems` a ticket past it is only watched
(`FilledKept`). `RfqDesk` begins with a ticket that the RFQ EMS has taken (`EmsTake` of `Oems`) and ends with its
release; cancels by the OMS meanwhile are those of `Oems`, and only the EMS's copy is followed here.

### Faulty variants

Operators under a comment `Faulty variant` are not used by the specifications. Each is a plausible mistake in
the definition that follows it. Replacing the definition by the variant must make TLC find
the property violated (`PROJECT.json`, "mutants"); this shows that each property says something about the code
and that the bounds of its run are large enough for it to matter.

## 3. Runs

| Run | Instance | What it shows |
|---|---|---|
| `race` | 1 ticket, 2 API threads, cancel, pause and refresh, 1 request | Deals and their authorisation in every interleaving of two executions or refreshes of one quoted ticket with the OMS and the EMS. The threads are symmetric. Two threads suffice: a third only repeats an overwrite, which is counted |
| `control` | 1 ticket with an end time, outright, 1 API thread, 3 requests of any of five kinds | Pauses, resumes, activations and cancels behind one another; `Oems` implements `DealDesk` |
| `crash` | 1 ticket with an end time that may be a mass payment, a cancel or a pause, 2 deaths, fair | Every pair of deaths at every commit; the broker module that reports nothing; a loaded RFQ_DONE ticket leaves the EMS |
| `live` | 2 tickets, one without a destination, pause and activate, fair | Decisions; what is sent is resolved; a fill survives concurrent control requests other than a cancel |
| `settlement` | 1 ticket, 2 deaths, fair | All settlement properties, every order of dates, refusals, retries and late beneficiaries |
| `rfq_desk` | 1 ticket, 2 web workers, 2 clicks, 1 death, fair | All desk properties but `TypeOK`, which is proved; two clicks are enough for a stale copy to be saved over a newer one, the EMS's or the desk's |
| `payment` | 2 web workers, 2 users, 4 requests of any kind, a payment created for immediate or strategic execution | All payment properties. Two overlapping requests make every stale view, four are needed for two approvals between a request for them and a quote; the third timing is reached by a change. Workers and users are symmetric |
| `hedge` | 2 LIVE or 2 DEMO accounts, 2 things that fail or change, fair | All hedge properties, day after day. One disturbance makes rows and wishes of different days, a second one hits the repair |
| `beneficiary` | 2 requests, 2 rows, 3 identifiers, 2 values, 2 imported payees, 1 hitch per row, 4 companies | All beneficiary properties. Two requests overlap in every way, with each other and with an import; one hitch per row already makes two payees or a stale status, and one more only repeats it. The companies have Nium and Monex, Monex with a payee from outside, Corpay with one, and no broker. Requests and rows are symmetric |
| `late_cancel`, `fill_orphaned` | 1 ticket | Findings, see below |
| `demo_lost` | 1 LIVE and 1 DEMO account, nothing fails | Finding, see below |

`HedgeEod` has one currency pair, since pairs meet only in the even split, and days without end: only what goes wrong is bounded
(`MaxDisturb`). Two accounts show every sharing there is, long against short included. The positions wanted (-24, 24, 72, none),
the lot (48), the trades (48 either way) and the cut (to two fifths) are chosen so that some orders are whole lots and some are
not, and every division is exact; a division that is not stops TLC.

Bounds: `MaxAsks` limits control requests and refreshes per ticket, `MaxRestarts` limits deaths; in `RfqDesk`, `MaxClicks` and `MaxDeaths` do the same, in `Payment` `MaxRequests` and `FirstTimings`. Every queue is
unbounded, and its length follows from these two. One ticket is enough in most
runs because tickets share nothing but the order of the queues and the EMS's attention; `live` has two, so that
the EMS is busy with one while the other waits. The retry limit is the code's own (3).
Deadlock is not checked except in `hedge`, whose days go on: with the bounds used up and all tickets handled the system may stop.

### Fairness

`Oems!Fairness`: weak fairness of the OMS's reading of each queue, of its pass over each ticket, of the EMS's
taking, resuming and letting go, of the end of each broker call, and of the expiry of quotes. The code justifies
it: both processes loop for ever over their queues and caches (`OmsBase.run`, `EmsBase.run`), HTTP
calls have timeouts, and a quote carries an expiry time. Nothing is assumed of API threads, clients, end times or
deaths. `Settlement!Fairness`: the OMS goes on cycling each ticket, and the days go by. Nothing is assumed of
brokers or of who supplies beneficiaries. `RfqDesk!Fairness`: strong fairness of the EMS for each ticket, since
`cycle_tickets` passes over every ticket in turn, and weak fairness of the expiration of requests. Nobody needs to be
at the desk, and a click need not come to an end. `Payment` assumes none: `CancelUnderway` says as an invariant that the cancel
is requested or its task waits, and the broker of the tasks keeps them until they have run. `HedgeEod!Fairness`: the tasks of each
day are scheduled and run, and the broker fills or ends each order.

### Findings

Each of these runs checks what a comment or a message of the code says, and TLC finds the code not doing it.

* `late_cancel`: a cancel is judged on a cached copy (`oms.py:974`) and undoes a fill, against "the ticket is
  underway... you can't really modify or cancel except settlement information" (`oms.py:424`).
* `fill_orphaned`: the OMS reads RFQ_DONE in the middle of an execution and gives the ticket up
  (`oms.py:700`); the fill never goes "from EMS to SETTLEMENT" (`oms.py:698`).
* `demo_lost`: in a company with a LIVE account the DEMO position is made up from the event being written
  (`broker_reconcile.py:298`), so that every snapshot without orders since the last one loses what the DEMO accounts held, and the next hedge
  buys it again; against "to have exactly the positions we expect them to have" (`broker_reconcile.py:228`).

The passing runs say what remains true around them. `OneDeal`, `SendAccounted` and `OwnedIsHeld`, for
example, carry the exceptions "unless an old row was written back" (two requests execute one quote, both past the check at
`trading.py:239`) and "unless a process died" (a death between the CREATE, `oms.py:414`, and the save of the phase sends the ticket again, whatever the comment
"only send to the EMS once" at `oms.py:409` says) exactly where they are needed, `EmsGivesBack` the one "unless the ticket was sent
twice", and `DealAccounted` holds with no exception.

## 4. Proofs

Assumptions: only `ConstantsAssumption` of each module (sets of tickets are subsets of `Ticket`, bounds are
natural numbers), for `Payment` that nobody and idleness are no users and no workers, and for `Beneficiary` that the keys of
rows are no identifiers of brokers, and that no identifier, an empty link, an unused and a deleted row are none of the things they stand in for. Tickets, clients, users, workers,
requests and deaths are arbitrary in number. `HedgeEod` assumes a finite set of accounts, a positive lot and whole amounts
(`HedgeAssumption`), and its theorems that shares divide (`Exact`, below).

* **`OemsProofs!TypeCorrect`** (`TypeOK`). `TypeOK` is not inductive: the EMS releases and saves what it finds in a
  message, and its resumed copy must be an ACCEPTED one. `Typed` adds that `emsQ` holds ACCEPTED tickets only.
  The proof has one lemma per group of actions (`ApiTyped`, `OmsTyped`, `EmsTyped`, `DeathsTyped`, `TimeTyped`),
  over lemmas on what the record operators return (`SavedType`, `CycleType`, `FinishTyped`, and others).
* **`OemsProofs!DealAccountedHolds`** (`DealAccounted`). The bound alone does not survive a deal. The invariant
  `DealInv` says what the EMS has in hand: while it holds a ticket, one more taking or death than deals has
  been counted (`Covered`), and it only executes tickets it holds. Each deal ends with the ticket dropped or the
  process dead, so it uses up exactly what was in hand.
* **`OemsOrderProofs`**, the rest of the safety of the order path: `SendAccountedHolds`, `OwnedIsHeldHolds`,
  `DealsAuthorisedHolds`, `OneDealHolds`, `CopiesAgreeHolds`, and as action properties `PauseHoldsHolds` and `OverNotSentHolds`.
  `EveryStep` first says what any step of any process is to one ticket (`TicketStep`): nothing (`Alone`), a call of the
  API (`ApiFor`), a turn, an intake or a notification (`OmsFor`), work of the EMS (`EmsFor`), or a death. `Moves` is what a turn of the OMS
  may make of a copy, by whichever handler. The invariant comes in layers, as the properties' exceptions do.
  `OrderInv` holds whoever dies and whatever is overwritten: `Origin` (nothing is held before it was taken in, nothing is
  with the EMS before it was sent), `Start` (an early state is that of a ticket executed without a quote), and `SendInv`, which counts as one
  sending to come what the OMS may still send and, once more, a quote that can still be executed; without these two the bound is lost
  on the next turn. `FlowInv` adds, each under its condition: without overwrites `Orderly` (one order at most, which is the row; the OMS's
  copy agrees with the row in what only the OMS writes) and `Vouched` (what passed the check was authorised); without deaths `Straight` (a copy in an early
  state was never sent); without either `Quiet` (before the ticket is sent the OMS's copy is the row; one call at most, and none
  while the EMS works; a copy that differs has a notification on its way).
* **`OemsDeskProofs`**: the refinement (`ImplementsDealDesk`) and `FilledKept`, both without refreshes, and both twice: `Unspoilt...`, for any number of API
  threads, on every behaviour where nobody dies and no executed row is overwritten; and `LoneThread...`, with one API thread and
  `MaxRestarts = 0`, which is the setting of the runs, with no condition on the behaviour. `DeskInv` adds to `FlowInv` that who has
  read a quoted row read the quote still in it, and that an order not sent is not settled. `StageIs` then gives the stage of a ticket
  by whether it was sent: before, the row and the requests say it, since the OMS's copy is the row; after, only what is with the EMS counts.
  Every step advances one ticket as the desk allows (`Advances`) and leaves the others (`OneAtATime`). `FilledKept` also assumes
  that clients do not cancel and that tickets have no end time: with either it is false (`late_cancel`). `FillInv` says that the EMS
  has let go of what is filled, and that the OMS's copy shows a fill or a settlement only if the row does. A turn on a copy from before the fill
  (`Firm`) changes its state only if the copy was never sent, which `Straight` and `Quiet` exclude.
* **`SettlementProofs`**: `SettlementTypeCorrect`, `SettleAccountedHolds`, `CompleteAccountedHolds`, `DoneIsSettledHolds`, and
  `NotSettledAgainHolds` as an action property, from one invariant `IInv`. `Explained` says that
  before completion (settlement) there have been no more calls than deaths (deaths and counted retries);
  `Recorded` ties the states and the phase to the counts. Without the first the bound is lost on the next call,
  without the second nothing links RECON to a state from which no further settlement is possible.

* **`PaymentProofs`**, all six invariants of the run, over `TInv` (`TypeOK`, and that who approves is a user).
  `StepTickets` sorts every step by what it does to the tickets: nothing (`Quiet`), orders (`OrderStep`), a new ticket
  (`MakeStep`), a cut (`CutStep`); `TicketsAccounted` is then inductive. `OrdersAccounted` is not: `OrdersInv` counts
  each ticket that is still open as an order to come, and says that a cash flow without tickets had its orders cut
  off, which gives the next order its place. `DualControl` and `QuotedApproved` are about the row, but any request may put
  back what it read: `CopyInv` says of every copy, against the approvals given when it would be saved (`Given`), what
  must hold of the row (`Good`), and that there was nothing to approve before the first request for approval (`Blank`).
  `QuotedApproved` adds that a request for quotes under way passed its check (`LicenseInv`). `CancelUnderway` is inductive.

* **`RfqDeskProofs`**, the four invariants of the run. None is inductive, since each is about rows that anybody may save
  over: `IInv` says of every copy in the hands of the EMS (`JobInv`) and of the workers (`DeskInv`) that it is of its
  request's ticket and that its rate was entered for that request (`Entered`). For `DecidedClosed` the saves are sorted into
  those that only close (`ClosesOnly`: every save of a worker's, and those of a decision) and the two that may open a request
  again, the posting of a form and a reminder (`JobSaves`), which are about a ticket that is not decided or has ended.
  `CountInv` pairs each request beyond the first with a death: a ticket that is ACCEPTED and not being asked about has
  only requests of processes that died.

* **`BeneficiaryProofs`**, the five invariants of the run. `TypeOK` needs `TypeInv`, which says of each request, by where
  it is, that its row was made, that the broker it is at is not among those still to tell, and that its counts add up; and
  `LinkedExist`, a row with a link is there, without which an import would take its external identifier from nowhere.
  `PendingWorked` is inductive over it. `LinkTrue` is not: a link is set by a request long after it chose the payee, and an
  update may put a deleted row back with the external identifier it once read. `Owns` says that whatever a request, an
  import or a link names is there and is the row's (`Owned`), and that a row and all the copies of it agree on that
  identifier (`ExtIs`); no step changes an identifier (`RowsExt`, `CopiesExt`), or takes a payee away (`PayeesKept`). For
  `PayeesAccounted`, `Accounts` counts the payees there are together with the requests that may still make one: one at most, and
  one for each hitch, and one if the row has a link, because whoever comes next will find it; one less if nobody is left to make a payee or
  somebody who has not looked at the link since is at the broker. `SyncedTold` is about rows nobody is at work on, and says nothing of
  how they came to be so. `SyncInv` puts each row in one of three cases: `Crowd` (loose, and nobody who is at work on it will change that),
  `Idle`, where the property holds, and `Lone`, one request that has the row to itself. Of that one `StatusOK` says that SYNCED is
  as true as it was until PENDING is saved and is not there from then to the end, and `TellsOK` that the brokers it is done with hold what the row says, under the
  row's link or the one it is about to save. The end needs the counts of `TypeInv` (a request without failures has told all of them), and a
  step for another row leaves this one (`Aside`). Requests, rows and identifiers need not be finite.

* **`HedgeEodProofs`**, the three safety properties of the run: `HedgeTypeOK`, `HedgeAttributed` and the action property `HedgeUnmoved`, for any
  accounts, wishes, lots and margins. Each assumes `[]Exact`: the shares that the next attribution computes and stores divide
  without remainder. The code divides floats; the model divides whole amounts, of whatever unit, and `Share` stops TLC where the unit is too large, so that
  every state of the run satisfies `Exact`. The sums come first. `Total` and `Gross` are folds of the community modules, recursive functions
  underneath: `SumExists` shows that there is such a function, `SumUnique` that it is the same from any larger set, `TotalStep` that a total is one amount and the total of the
  rest. The induction is `SubsetInduction`, with the property given as a set: of the subsets that are not in it one is minimal, since strict inclusion
  of finite sets is well-founded. From there, `ShareOut`: whatever is shared out in proportion to amounts of a total other than zero is shared out
  whole, and with it both ways of attributing give the accounts of a type exactly the company's position (`KeepFacts`, `DistributeFacts`).
  `Attributed` is not inductive: `EventInv` adds that a company with LIVE accounts has its position in the event being attributed, so that
  the rows and the position of the snapshot come from one event, and that no LIVE rows are written before the event is concluded, which
  is what a death leaves. For `Unmoved`, `SettledInv` says where the rows of the snapshot come from while no hedge has
  changed the wishes: nowhere, from accounts that wanted nothing, or from these wishes.

Model-checked only:

* The liveness properties (`Decided`, `EmsGivesBack`, `LetGo`, `DeskHeard`, `Released`, `Converges`), and of `ImplementsLiveDesk` the
  fairness; its safety part is `ImplementsDealDesk`. The prover reaches neither fairness nor ENABLED.
* That the amounts of the run divide (`Share` asserts it), the premise of the theorems about `HedgeEod`.

## 5. Not modelled

* Validation of requests, prices, fees, wallets, netting, calendars: data that no modelled guard depends on.
* The strategy EMS: its `is_ticket_ready` returns False before its own code (`strat_ex_ems.py:49`), so that a ticket given to
  it rests. Indicative quotes: priced within the API request, sent to no broker.
* Tickets executed by hand: `execute_manual_trade` passes the backend ticket where the model class wants a row
  (`corpay_ems.py:41`), so that its request is never created and the ticket FAILS, a refusal like the others in `Oems`.
* The REST endpoint and the administration form for manual requests, which write any value into any column.
* `MODIFY` and `DELETE` (they change nothing), `DBSYNC` and the EMS's `UPDATE` and `CANCEL` (nothing that
  a process reads carries them).
* A stale administration form: it can put any old row back.
* Responses the API polls for, the advisory locks that keep a second OMS with the same name out, SQLite.
* Of payments: creation and limits, payments of several cash flows, bulk uploads, times of execution, mail. Of the
  generator: calendars.
* Exposures that are modelled and that no property is about, since nothing in the code promises otherwise: an authorised
  ticket goes to PENDFUNDS, which no handler leaves (`oms.py:953`); `create_and_execute` sets `auth_user` after CREATE and
  does not save it (`trading.py:377`); a CANCEL for a ticket the EMS has is sent to a topic nobody reads (`oms.py:139`); a
  rate of 0 quotes a ticket and marks its request expired (`manual_request.py:144`); a payment is WORKING with no order behind it
  (`payment_execution.py:37`).
* Of the hedge: several pairs, prices, profits and costs, forwards, parachute accounts, the liquidity pool, paper broker
  accounts, and `run_eod`, which changes the status of accounts and companies.
* Of beneficiaries: aliases (every import of Monex's makes new ones), validation and its schemas, the translation of fields, the
  deletion at the brokers (`sync_delete_beneficiary_to_broker`, which nothing calls), two imports at once, wallets, and the administration form. An
  exception in an environment called dev or local puts DRAFT back (`views/beneficiary.py:224`); elsewhere, as modelled, it does not.
* The other applications of the repository (see `PROJECT.json`).

## 6. Plan

1. Done: `OemsStates`, `Oems`, `Settlement`, `RfqDesk`, `DealDesk` and its refinement, `Payment`, `HedgeEod`, `Beneficiary`, and the proofs above.
2. Done: every safety property of a passing run is a theorem.
3. `HedgeEod`: account and company status changes of `run_eod`, and the orders as tickets of `DealDesk`.

---------------------------- MODULE PaymentProofs ----------------------------
(***************************************************************************)
(* Proofs about Payment, for any users, web workers and number of          *)
(* requests.                                                               *)
(***************************************************************************)
EXTENDS Payment, FiniteSetTheorems, SequenceTheorems, TLAPS

-----------------------------------------------------------------------------
(***************************************************************************)
(* The type invariant                                                      *)
(***************************************************************************)

\* Idle is no request: what a worker is in is a request if its kind says so.
LEMMA InRequest ==
  ASSUME TypeOK, NEW c \in Thread, req[c].kind \in Kinds
  PROVE  req[c] \in Request
  BY DEF TypeOK, Idle, Kinds

\* A worker that finished is in no request.
LEMMA DoneType ==
  ASSUME TypeOK, NEW c \in Thread, Done(c)
  PROVE  req' \in [Thread -> Request \cup {Idle}]
  BY DEF TypeOK, Done

\* The rows a request reads are rows.
LEMMA BeginType ==
  ASSUME TypeOK, NEW c \in Thread, NEW kind \in Kinds, NEW user \in User \cup {Nobody},
         Begin(c, kind, user)
  PROVE  req' \in [Thread -> Request \cup {Idle}] /\ begun' \in 0..MaxRequests
<1>1. NewGenerator \in Generator
  BY DEF NewGenerator, Generator, GenStatus
<1>2. CashFlow \in Nat
  BY DEF TypeOK, CashFlow
<1>3. Read(kind, user) \in Request
  BY <1>1, <1>2 DEF TypeOK, Read, Request
<1>4. begun' \in 0..MaxRequests
  BY PaymentAssumption DEF TypeOK, Begin
<1> QED
  BY <1>3, <1>4 DEF TypeOK, Begin

\* The ticket the cash flow names is one of the tickets.
LEMMA LinkedType ==
  ASSUME TypeOK
  PROVE  LinkedTicket \subseteq DOMAIN tickets /\ LinkedTicket \subseteq 0..Len(tickets)
  BY DEF TypeOK, LinkedTicket

\* A change of the stage of tickets keeps them tickets.
LEMMA PutType ==
  ASSUME TypeOK, NEW ks, NEW stage \in Stages
  PROVE  /\ Put(ks, stage) \in Seq(TicketRow)
         /\ Len(Put(ks, stage)) = Len(tickets)
         /\ \A k \in 1..Len(tickets) :
              Put(ks, stage)[k].ours = tickets[k].ours
              /\ Put(ks, stage)[k].stage = IF k \in ks THEN stage ELSE tickets[k].stage
<1>1. Put(ks, stage) = [k \in 1..Len(tickets) |->
          IF k \in ks THEN [tickets[k] EXCEPT !.stage = stage] ELSE tickets[k]]
  BY DEF Put, TypeOK
<1>2. \A k \in 1..Len(tickets) : tickets[k] \in TicketRow
  BY DEF TypeOK
<1>3. \A k \in 1..Len(tickets) : Put(ks, stage)[k] \in TicketRow
  BY <1>1, <1>2 DEF TicketRow
<1>4. Len(tickets) \in Nat
  BY DEF TypeOK
<1>5. Put(ks, stage) \in Seq(TicketRow) /\ Len(Put(ks, stage)) = Len(tickets)
  BY <1>1, <1>3, <1>4
<1> QED
  BY <1>1, <1>2, <1>5 DEF TicketRow

\* What saves of the payment write is a payment, and the tasks are for it or its ticket.
LEMMA SaveType ==
  ASSUME TypeOK, NEW p \in PaymentRow, SavePayment(p)
  PROVE  pay' \in PaymentRow /\ chores' \in SUBSET (0..Len(tickets))
  BY DEF TypeOK, SavePayment, ChoresOf

\* Those who approve are users, and an approval whose transaction has locked the
\* rows is in its execution.
Approving ==
  \A c \in Thread :
    /\ req[c].kind = "approve" => req[c].user \in User
    /\ lock = c => req[c].kind = "execute" /\ req[c].user \in User

TInv == TypeOK /\ Approving

LEMMA ApprovingKept ==
  ASSUME TInv, NEW c \in Thread, Done(c), lock' = lock, lock # c
  PROVE  req' \in [Thread -> Request \cup {Idle}] /\ Approving'
<1>1. \A d \in Thread : req'[d] = IF d = c THEN Idle ELSE req[d]
  BY DEF Done, TInv, TypeOK
<1> QED
  BY <1>1, DoneType DEF TInv, Approving, Idle

\* What an execution writes when it ends.
LEMMA BothType ==
  ASSUME TInv, NEW c \in Thread, req[c] \in Request, NEW status \in PayStatus,
         NEW sent \in SUBSET {0}, CommitBoth(c, status, sent)
  PROVE  /\ gen' \in Generator /\ pay' \in PaymentRow /\ lock' = Idle
         /\ chores' \in SUBSET (0..Len(tickets))
         /\ acts' \in SUBSET (User \X Slots)
         /\ req' \in [Thread -> Request \cup {Idle}]
         /\ Approving'
<1> USE DEF TInv
<1>1. gen' \in Generator
  BY DEF TypeOK, CommitBoth, Request
<1>2. pay' \in PaymentRow
  BY DEF CommitBoth, Request, PaymentRow
<1>3. chores' \in SUBSET (0..Len(tickets))
  BY DEF CommitBoth, TypeOK, ChoresOf
<1>4. acts' \in SUBSET (User \X Slots)
  <2>1. lock = c => req[c].user \in User
    BY DEF Approving
  <2>2. SlotOf(req[c]) \in Slots
    BY DEF SlotOf, Slots
  <2> QED
    BY <2>1, <2>2 DEF CommitBoth, TypeOK
<1>5. req' \in [Thread -> Request \cup {Idle}]
  BY DoneType DEF CommitBoth
<1>6. lock' = Idle /\ \A d \in Thread : req'[d] = IF d = c THEN Idle ELSE req[d]
  BY DEF CommitBoth, Done, TypeOK
<1>7. Approving'
  BY <1>6, ThreadAssumption DEF Approving, Idle
<1> QED
  BY <1>1, <1>2, <1>3, <1>5, <1>4, <1>6, <1>7

\* A new ticket is one ticket more.
LEMMA NewType ==
  ASSUME TypeOK, NEW c \in Thread, req[c] \in Request, NEW stage \in Stages, NewTicket(c, stage)
  PROVE  /\ tickets' \in Seq(TicketRow) /\ Len(tickets') = Len(tickets) + 1
         /\ flow' \in [there : BOOLEAN, id : Nat \ {0}, ticket : 0..Len(tickets')]
<1>1. tickets' = Append(tickets, [stage |-> stage, ours |-> req[c].cash = CashFlow])
  BY DEF NewTicket
<1>2. [stage |-> stage, ours |-> req[c].cash = CashFlow] \in TicketRow
  BY DEF TicketRow
<1>3. tickets' \in Seq(TicketRow) /\ Len(tickets') = Len(tickets) + 1 /\ Len(tickets) \in Nat
  BY <1>1, <1>2 DEF TypeOK
<1>4. flow' = flow \/ flow' = [flow EXCEPT !.ticket = Len(tickets) + 1]
  BY DEF NewTicket
<1> QED
  BY <1>3, <1>4 DEF TypeOK

\* Cut off, tickets are tickets.
LEMMA CutOffType ==
  ASSUME TypeOK, CutOff
  PROVE  tickets' \in Seq(TicketRow) /\ Len(tickets') = Len(tickets) /\ resets' \in Nat
<1>1. tickets' = [k \in 1..Len(tickets) |-> [tickets[k] EXCEPT !.ours = FALSE]]
  BY DEF CutOff, TypeOK
<1>2. \A k \in 1..Len(tickets) : tickets[k] \in TicketRow
  BY DEF TypeOK
<1>3. \A k \in 1..Len(tickets) : [tickets[k] EXCEPT !.ours = FALSE] \in TicketRow
  BY <1>2 DEF TicketRow
<1>4. Len(tickets) \in Nat
  BY DEF TypeOK
<1> QED
  BY <1>1, <1>3, <1>4 DEF CutOff, TypeOK

\* A report of the OEMS.
LEMMA OemsChangeType ==
  ASSUME TypeOK, NEW k \in DOMAIN tickets, NEW from, NEW stage \in Stages, NEW status \in PayStatus,
         OemsChange(k, from, stage, status)
  PROVE  /\ tickets' \in Seq(TicketRow) /\ Len(tickets') = Len(tickets)
         /\ pay' \in PaymentRow /\ chores' \in SUBSET (0..Len(tickets))
<1>1. tickets' \in Seq(TicketRow) /\ Len(tickets') = Len(tickets)
  BY PutType DEF OemsChange
<1>2. [pay EXCEPT !.payment_status = status] \in PaymentRow
  BY DEF TypeOK, PaymentRow
<1>3. pay' \in PaymentRow /\ chores' \in SUBSET (0..Len(tickets))
  BY <1>2, SaveType DEF OemsChange, Report, TypeOK
<1> QED
  BY <1>1, <1>3

\* A beginning keeps the types, ...
LEMMA BeginKeeps ==
  ASSUME TInv, NEW c \in Thread,
         BeginUnchecked(c) \/ BeginApprove(c) \/ BeginRfq(c) \/ BeginDelete(c)
  PROVE  TInv'
<1> USE DEF TInv
<1>0. ASSUME NEW kind \in Kinds, NEW user \in User \cup {Nobody}, Begin(c, kind, user),
             kind = "approve" => user \in User, lock' = lock
      PROVE  /\ req' \in [Thread -> Request \cup {Idle}] /\ begun' \in 0..MaxRequests
             /\ Approving'
  <2>1. req' \in [Thread -> Request \cup {Idle}] /\ begun' \in 0..MaxRequests
    BY <1>0, BeginType
  <2>2. \A d \in Thread : req'[d] = IF d = c THEN Read(kind, user) ELSE req[d]
    BY <1>0 DEF Begin, TypeOK
  <2>3. Read(kind, user).kind = kind /\ Read(kind, user).user = user
    BY DEF Read
  <2>4. lock # c
    BY <1>0 DEF Begin, Approving, Idle
  <2> QED
    BY <1>0, <2>1, <2>2, <2>3, <2>4 DEF Approving
<1>1. CASE BeginUnchecked(c)
  <2>1. PICK kind \in {"request", "execute", "update"} : Begin(c, kind, Nobody)
    BY <1>1 DEF BeginUnchecked
  <2> QED
    BY <1>0, <1>1, <2>1 DEF BeginUnchecked, TypeOK, Kinds, rows, oems
<1>2. CASE BeginApprove(c)
  <2>1. PICK i \in Slots : gen.approver[i] # Nobody /\ Begin(c, "approve", gen.approver[i])
    BY <1>2 DEF BeginApprove
  <2>2. gen.approver[i] \in User
    BY <2>1 DEF TypeOK, Generator
  <2> QED
    BY <1>0, <1>2, <2>1, <2>2 DEF BeginApprove, TypeOK, Kinds, rows, oems
<1>3. CASE BeginRfq(c)
  BY <1>0, <1>3 DEF BeginRfq, TypeOK, Kinds, rows, oems
<1>4. CASE BeginDelete(c)
  BY <1>0, <1>4, LinkedType DEF BeginDelete, TypeOK, Kinds, rows
<1> QED
  BY <1>1, <1>2, <1>3, <1>4

\* ... so does the end of a request for approval or of an approval, ...
LEMMA ApprovalKeeps ==
  ASSUME TInv, NEW c \in Thread, CommitRequest(c) \/ CommitApproval(c) \/ ApproveAndExecute(c)
  PROVE  TInv'
<1> USE DEF TInv
<1>0. req[c] \in Request
  BY InRequest DEF CommitRequest, CommitApproval, ApproveAndExecute, Kinds
<1>9. DatedBy(req[c]) \in Generator /\ SlotOf(req[c]) \in Slots
  <2>1. SlotOf(req[c]) \in Slots
    BY DEF SlotOf, Slots
  <2>2. req[c].gen \in Generator
    BY <1>0 DEF Request
  <2> QED
    BY <2>1, <2>2 DEF DatedBy, Generator
<1>1. CASE CommitRequest(c)
  <2>1. gen' \in Generator
    <3>1. PICK a \in User, b \in User \cup {Nobody} :
            gen' = Requested(req[c].gen, IF b = Nobody THEN <<a>> ELSE <<a, b>>)
      BY <1>1 DEF CommitRequest
    <3>2. req[c].gen \in Generator /\ policy.dual \in BOOLEAN
      BY <1>0 DEF Request, TypeOK
    <3>3. ASSUME NEW named \in Seq(User \cup {Nobody})
          PROVE  Requested(req[c].gen, named) \in Generator
      <4>1. \A i \in Slots : i <= Len(named) => named[i] \in User \cup {Nobody}
        BY <3>3 DEF Slots
      <4> QED
        BY <3>2, <4>1 DEF Requested, Generator, GenStatus
    <3>4. <<a>> \in Seq(User \cup {Nobody}) /\ <<a, b>> \in Seq(User \cup {Nobody})
      OBVIOUS
    <3>5. CASE b = Nobody
      BY <3>1, <3>3, <3>4, <3>5
    <3>6. CASE b # Nobody
      BY <3>1, <3>3, <3>4, <3>6
    <3> QED
      BY <3>5, <3>6
  <2>2. pay' \in PaymentRow /\ chores' \in SUBSET (0..Len(tickets))
    <3>1. [req[c].pay EXCEPT !.payment_status = IF @ = "DRAFTING" THEN "PENDAUTH" ELSE @] \in PaymentRow
      BY <1>0 DEF Request, PaymentRow, PayStatus
    <3> QED
      BY <1>1, <3>1, SaveType DEF CommitRequest
  <2>3. req' \in [Thread -> Request \cup {Idle}] /\ Approving'
    BY <1>1, ApprovingKept, ThreadAssumption DEF CommitRequest, SavePayment
  <2> QED
    BY <1>1, <2>1, <2>2, <2>3 DEF CommitRequest, TypeOK, oems
<1>2. CASE CommitApproval(c)
  <2>1. pay' \in PaymentRow /\ chores' \in SUBSET (0..Len(tickets))
    BY <1>0, <1>2, SaveType DEF CommitApproval, Request
  <2>2. req' \in [Thread -> Request \cup {Idle}] /\ Approving'
    BY <1>2, ApprovingKept, ThreadAssumption DEF CommitApproval, SavePayment
  <2>3. req[c].user \in User
    BY <1>2 DEF CommitApproval, Approving
  <2> QED
    BY <1>2, <1>9, <2>1, <2>2, <2>3 DEF CommitApproval, TypeOK, oems
<1>3. CASE ApproveAndExecute(c)
  <2>1. req' = [req EXCEPT ![c] = [Approve(req[c]) EXCEPT !.kind = "execute", !.cash = CashFlow, !.seen = tickets]]
    BY <1>3 DEF ApproveAndExecute
  <2>2. CashFlow \in Nat
    BY DEF CashFlow, TypeOK
  <2>3. [DatedBy(req[c]) EXCEPT !.status = "APPROVED"] \in Generator
    BY <1>9 DEF Generator, GenStatus
  <2>4. [req[c].pay EXCEPT !.payment_status = "APPROVED"] \in PaymentRow
    BY <1>0 DEF Request, PaymentRow, PayStatus
  <2>5. Approve(req[c]) \in Request /\ Approve(req[c]).user = req[c].user
    BY <1>0, <2>3, <2>4 DEF Approve, Request
  <2>6. [Approve(req[c]) EXCEPT !.kind = "execute", !.cash = CashFlow, !.seen = tickets] \in Request
    BY <2>2, <2>5 DEF Request, Kinds, TypeOK
  <2>7. req' \in [Thread -> Request \cup {Idle}]
    BY <2>1, <2>6 DEF TypeOK
  <2>8. \A d \in Thread : IF d = c THEN req'[d].kind = "execute" /\ req'[d].user = req[c].user
                                   ELSE req'[d] = req[d]
    BY <2>1, <2>5, <2>6 DEF TypeOK, Request
  <2>9. Approving'
    BY <1>3, <2>8, ThreadAssumption DEF ApproveAndExecute, Approving
  <2> QED
    BY <1>3, <2>7, <2>9 DEF ApproveAndExecute, TypeOK, rows, oems, history
<1> QED
  BY <1>1, <1>2, <1>3

\* ... of an execution, ...
LEMMA ExecuteKeeps ==
  ASSUME TInv, NEW c \in Thread, CommitExecute(c)
  PROVE  TInv'
<1> USE DEF TInv
<1>0. req[c] \in Request
  BY InRequest DEF CommitExecute, Kinds
<1>1. CASE ExecuteQuotes(c)
  <2>1. PICK done \in SUBSET Quotes(c), failed \in SUBSET Quotes(c) :
       /\ CommitBoth(c, "WORKING",
            IF lock = Idle /\ LinkedTicket \cap (done \cup failed) # {} THEN ChoresOf(pay) ELSE {})
       /\ tickets' = [k \in DOMAIN tickets |->
                        IF k \in failed THEN [tickets[k] EXCEPT !.stage = "over"] ELSE Put(done, "ordered")[k]]
       /\ Ordered(c, Cardinality(done))
       /\ asked' = asked \ done
    BY <1>1 DEF ExecuteQuotes, Quotes
  <2>2. Cardinality(done) \in Nat
    <3>1. IsFiniteSet(DOMAIN req[c].seen)
      BY <1>0, FS_Interval DEF Request
    <3>2. done \in SUBSET DOMAIN req[c].seen
      BY DEF Ours, Quotes
    <3> QED
      BY <3>1, <3>2, FS_Subset, FS_CardinalityType
  <2>3. tickets' \in Seq(TicketRow) /\ Len(tickets') = Len(tickets)
    <3>1. \A k \in 1..Len(tickets) : tickets[k] \in TicketRow /\ Put(done, "ordered")[k] \in TicketRow
      BY PutType DEF TypeOK, Stages
    <3>2. \A k \in 1..Len(tickets) : [tickets[k] EXCEPT !.stage = "over"] \in TicketRow
      BY <3>1 DEF TicketRow, Stages
    <3>3. DOMAIN tickets = 1..Len(tickets) /\ Len(tickets) \in Nat
      BY DEF TypeOK
    <3>4. tickets' = [k \in 1..Len(tickets) |->
                        IF k \in failed THEN [tickets[k] EXCEPT !.stage = "over"] ELSE Put(done, "ordered")[k]]
      BY <2>1, <3>3
    <3>5. \A k \in 1..Len(tickets) : tickets'[k] \in TicketRow
      BY <3>1, <3>2, <3>4
    <3> QED
      BY <3>3, <3>4, <3>5
  <2>4. (IF lock = Idle /\ LinkedTicket \cap (done \cup failed) # {} THEN ChoresOf(pay) ELSE {}) \in SUBSET {0}
    BY DEF ChoresOf
  <2>5. /\ gen' \in Generator /\ pay' \in PaymentRow /\ lock' = Idle
        /\ chores' \in SUBSET (0..Len(tickets)) /\ acts' \in SUBSET (User \X Slots)
        /\ req' \in [Thread -> Request \cup {Idle}] /\ Approving'
    BY <1>0, <2>1, <2>4, BothType DEF PayStatus
  <2>6. orders' \in Nat /\ overlaps' \in Nat
    BY <2>1, <2>2 DEF Ordered, TypeOK
  <2> QED
    BY <1>1, <2>1, <2>3, <2>5, <2>6 DEF ExecuteQuotes, TypeOK
<1>2. CASE ExecuteDirectly(c)
  <2>1. req[c].pay.execution_timing \in PayStatus
    BY <1>0, <1>2 DEF ExecuteDirectly, Request, PaymentRow, Timings, PayStatus
  <2>2. /\ gen' \in Generator /\ pay' \in PaymentRow /\ lock' = Idle
        /\ chores' \in SUBSET (0..Len(tickets)) /\ acts' \in SUBSET (User \X Slots)
        /\ req' \in [Thread -> Request \cup {Idle}] /\ Approving'
    BY <1>0, <1>2, <2>1, BothType DEF ExecuteDirectly
  <2>3. CASE NewTicket(c, "ordered") /\ Ordered(c, 1)
    <3>1. /\ tickets' \in Seq(TicketRow) /\ Len(tickets') = Len(tickets) + 1
          /\ flow' \in [there : BOOLEAN, id : Nat \ {0}, ticket : 0..Len(tickets')]
      BY <1>0, <2>3, NewType DEF Stages
    <3>2. orders' \in Nat /\ overlaps' \in Nat
      BY <2>3 DEF Ordered, TypeOK
    <3> QED
      BY <1>2, <2>2, <3>1, <3>2 DEF ExecuteDirectly, TypeOK
  <2>4. CASE UNCHANGED <<flow, tickets, orders, overlaps>>
    BY <1>2, <2>2, <2>4 DEF ExecuteDirectly, TypeOK
  <2> QED
    BY <1>2, <2>3, <2>4 DEF ExecuteDirectly
<1>3. CASE ExecuteRaises(c)
  BY <1>0, <1>3, BothType DEF ExecuteRaises, TypeOK, PayStatus, oems
<1> QED
  BY <1>1, <1>2, <1>3 DEF CommitExecute

\* ... of a request for quotes, ...
LEMMA RfqKeeps ==
  ASSUME TInv, NEW c \in Thread, CommitRfq(c) \/ CommitRequote(c)
  PROVE  TInv'
<1> USE DEF TInv
<1>0. req[c] \in Request /\ lock # c
  BY InRequest DEF CommitRfq, CommitRequote, Kinds, Approving
<1>1. CASE CommitRfq(c)
  <2>1. PICK stage \in {"quoted", "unquoted"} : NewTicket(c, stage)
    BY <1>1 DEF CommitRfq
  <2>2. /\ tickets' \in Seq(TicketRow) /\ Len(tickets') = Len(tickets) + 1
        /\ flow' \in [there : BOOLEAN, id : Nat \ {0}, ticket : 0..Len(tickets')]
    BY <1>0, <2>1, NewType DEF Stages
  <2>3. req' \in [Thread -> Request \cup {Idle}] /\ Approving' /\ overlaps' \in Nat
    BY <1>0, <1>1, ApprovingKept DEF CommitRfq, TypeOK
  <2>4. UNCHANGED <<policy, gen, pay, cancels, lock, chores, acts, begun, requests, withdrawn, resets,
                    orders, asked>>
    BY <1>1 DEF CommitRfq, rows
  <2>5. DOMAIN tickets \subseteq DOMAIN tickets' /\ 0..Len(tickets) \subseteq 0..Len(tickets')
    BY <2>2 DEF TypeOK
  <2> QED
    BY <2>2, <2>3, <2>4, <2>5 DEF TypeOK
<1>2. CASE CommitRequote(c)
  <2>1. PICK k \in Ours(req[c].seen) : Requoted(k)
    BY <1>2 DEF CommitRequote
  <2>2. tickets' \in Seq(TicketRow) /\ Len(tickets') = Len(tickets)
    BY <2>1, PutType DEF Requoted, Stages, TypeOK
  <2>3. \A status \in PayStatus : [pay EXCEPT !.payment_status = status] \in PaymentRow
    BY DEF TypeOK, PaymentRow
  <2>4. pay' \in PaymentRow /\ chores' \in SUBSET (0..Len(tickets))
    BY <2>1, <2>3, SaveType DEF Requoted, TypeOK, PayStatus
  <2>5. req' \in [Thread -> Request \cup {Idle}] /\ Approving'
    BY <1>0, <1>2, ApprovingKept DEF CommitRequote
  <2> QED
    BY <1>2, <2>2, <2>4, <2>5 DEF CommitRequote, TypeOK
<1> QED
  BY <1>1, <1>2

\* ... of a change, of a deletion and of a request that fails, ...
LEMMA ChangeKeeps ==
  ASSUME TInv, NEW c \in Thread, CommitUpdate(c) \/ CommitDelete(c) \/ DropRequest(c)
  PROVE  TInv'
<1> USE DEF TInv
<1>1. CASE CommitUpdate(c)
  <2>0. req[c] \in Request /\ lock = Idle
    BY <1>1, InRequest DEF CommitUpdate, Kinds
  <2>1. PICK timing \in Timings, reset, retype \in BOOLEAN :
       /\ pay' = [req[c].pay EXCEPT !.execution_timing = timing]
       /\ chores' = chores \cup ChoresOf(pay') \cup (IF retype THEN LinkedTicket ELSE {})
       /\ IF reset \/ retype
            THEN /\ CutOff
                 /\ flow' = [there |-> TRUE, id |-> IF retype THEN flow.id + 1 ELSE flow.id, ticket |-> 0]
            ELSE UNCHANGED <<tickets, flow, resets>>
    BY <1>1 DEF CommitUpdate
  <2>2. pay' \in PaymentRow /\ gen' \in Generator
    BY <1>1, <2>0, <2>1 DEF CommitUpdate, Request, PaymentRow
  <2>3. /\ tickets' \in Seq(TicketRow) /\ Len(tickets') = Len(tickets) /\ resets' \in Nat
        /\ flow' \in [there : BOOLEAN, id : Nat \ {0}, ticket : 0..Len(tickets)]
    <3>1. CASE reset \/ retype
      <4>1. flow' = [there |-> TRUE, id |-> IF retype THEN flow.id + 1 ELSE flow.id, ticket |-> 0]
        BY <2>1, <3>1
      <4>2. flow'  \in [there : BOOLEAN, id : Nat \ {0}, ticket : 0..Len(tickets)]
        BY <4>1 DEF TypeOK
      <4> QED
        BY <2>1, <3>1, <4>2, CutOffType
    <3>2. CASE ~(reset \/ retype)
      BY <2>1, <3>2 DEF TypeOK
    <3> QED
      BY <3>1, <3>2
  <2>4. chores' \in SUBSET (0..Len(tickets))
    BY <2>1, LinkedType DEF TypeOK, ChoresOf
  <2>5. req' \in [Thread -> Request \cup {Idle}] /\ Approving'
    BY <1>1, <2>0, ApprovingKept, ThreadAssumption DEF CommitUpdate
  <2>6. UNCHANGED <<policy, cancels, lock, acts, begun, requests, withdrawn, overlaps, orders, asked>>
    BY <1>1 DEF CommitUpdate
  <2>7. DOMAIN tickets' = DOMAIN tickets
    BY <2>3 DEF TypeOK
  <2> QED
    BY <2>2, <2>3, <2>4, <2>5, <2>6, <2>7 DEF TypeOK
<1>2. CASE CommitDelete(c)
  <2>0. req[c] \in Request
    BY <1>2, InRequest DEF CommitDelete, Kinds
  <2>1. req' \in [Thread -> Request \cup {Idle}] /\ Approving'
    BY <1>2, ApprovingKept, ThreadAssumption DEF CommitDelete
  <2>2. CASE req[c].pay.payment_status = "DRAFTING"
    <3>1. gen' \in Generator
      BY <1>2, <2>2 DEF CommitDelete, TypeOK, Generator, GenStatus
    <3>2. pay' \in PaymentRow
      BY <1>2, <2>2 DEF CommitDelete, TypeOK, PaymentRow, PayStatus
    <3>3. tickets' \in Seq(TicketRow) /\ Len(tickets') = Len(tickets) /\ resets' \in Nat
      BY <1>2, <2>2, CutOffType DEF CommitDelete
    <3>4. flow' \in [there : BOOLEAN, id : Nat \ {0}, ticket : 0..Len(tickets)]
      <4>1. flow' = [flow EXCEPT !.there = FALSE, !.ticket = 0]
        BY <1>2, <2>2 DEF CommitDelete
      <4>2. flow \in [there : BOOLEAN, id : Nat \ {0}, ticket : 0..Len(tickets)] /\ 0 \in 0..Len(tickets)
        BY DEF TypeOK
      <4> QED
        BY <4>1, <4>2
    <3>5. chores' \in SUBSET (0..Len(tickets))
      BY <1>2, <2>2, LinkedType DEF CommitDelete, TypeOK
    <3> QED
      BY <1>2, <2>1, <3>1, <3>2, <3>3, <3>4, <3>5 DEF CommitDelete, TypeOK
  <2>3. CASE req[c].pay.payment_status # "DRAFTING"
    <3>1. gen' \in Generator
      BY <1>2, <2>0, <2>3 DEF CommitDelete, Request, Generator, GenStatus
    <3>2. [req[c].pay EXCEPT !.payment_status = "CANCELED"] \in PaymentRow
      BY <2>0 DEF Request, PaymentRow, PayStatus
    <3>3. pay' \in PaymentRow /\ chores' \in SUBSET (0..Len(tickets))
      BY <1>2, <2>3, <3>2, SaveType DEF CommitDelete
    <3> QED
      BY <1>2, <2>1, <2>3, <3>1, <3>3 DEF CommitDelete, TypeOK
  <2> QED
    BY <2>2, <2>3
<1>3. CASE DropRequest(c)
  <2>0. req[c] \in Request
    BY <1>3 DEF DropRequest, TypeOK
  <2>1. req' \in [Thread -> Request \cup {Idle}]
    BY <1>3, DoneType DEF DropRequest
  <2>2. \A d \in Thread : req'[d] = IF d = c THEN Idle ELSE req[d]
    BY <1>3 DEF DropRequest, Done, TypeOK
  <2>3. lock' = (IF lock = c THEN Idle ELSE lock)
    BY <1>3 DEF DropRequest
  <2>4. Approving'
    BY <2>2, <2>3, ThreadAssumption DEF Approving, Idle
  <2>5. LeftBy(req[c]) \subseteq 0..Len(tickets)
    BY LinkedType DEF LeftBy, ChoresOf, TypeOK
  <2>6. chores' \in SUBSET (0..Len(tickets))
    BY <1>3, <2>5 DEF DropRequest, TypeOK
  <2> QED
    BY <1>3, <2>1, <2>3, <2>4, <2>6 DEF DropRequest, TypeOK, rows, oems, history
<1> QED
  BY <1>1, <1>2, <1>3

\* ... and a step of the background tasks or of the OEMS.
LEMMA OemsKeeps ==
  ASSUME TInv,
         RunBulkTask \/ \E k \in DOMAIN tickets : RunTask(k) \/ OemsWork(k) \/ OemsCancel(k)
  PROVE  TInv'
<1> USE DEF TInv
<1>1. CASE RunBulkTask
  BY <1>1, LinkedType DEF RunBulkTask, TypeOK, Approving, rows, oems, history
<1>2. ASSUME NEW k \in DOMAIN tickets, RunTask(k)
      PROVE  TInv'
  BY <1>2 DEF RunTask, TypeOK, Approving, rows
<1>3. ASSUME NEW k \in DOMAIN tickets, NEW from, NEW stage \in Stages, NEW status \in PayStatus,
             OemsChange(k, from, stage, status), cancels' \in SUBSET cancels
      PROVE  TInv'
  <2>1. /\ tickets' \in Seq(TicketRow) /\ Len(tickets') = Len(tickets)
        /\ pay' \in PaymentRow /\ chores' \in SUBSET (0..Len(tickets))
    BY <1>3, OemsChangeType
  <2>2. DOMAIN tickets' = DOMAIN tickets
    BY <2>1 DEF TypeOK
  <2>3. UNCHANGED <<policy, gen, flow, req, lock, acts, begun, requests, withdrawn, resets, overlaps, orders, asked>>
    BY <1>3 DEF OemsChange, history
  <2>4. Approving'
    BY <2>3 DEF Approving
  <2>5. cancels' \in SUBSET DOMAIN tickets
    BY <1>3 DEF TypeOK
  <2> QED
    BY <2>1, <2>2, <2>3, <2>4, <2>5 DEF TypeOK
<1>4. ASSUME NEW k \in DOMAIN tickets, OemsWork(k)
      PROVE  TInv'
  BY <1>3, <1>4 DEF OemsWork, Stages, PayStatus
<1>5. ASSUME NEW k \in DOMAIN tickets, OemsCancel(k)
      PROVE  TInv'
  <2>1. CASE OemsChange(k, {"ordered"}, "over", "CANCELED") \/ OemsChange(k, {"ordered"}, "ordered", "CANCELED")
    BY <1>3, <1>5, <2>1 DEF OemsCancel, Stages, PayStatus
  <2>2. CASE UNCHANGED <<policy, rows, flow, tickets, req, lock, chores, history>>
    BY <1>5, <2>2 DEF OemsCancel, TypeOK, Approving, rows, history
  <2> QED
    BY <1>5, <2>1, <2>2 DEF OemsCancel
<1> QED
  BY <1>1, <1>2, <1>4, <1>5

LEMMA TInit == Init => TInv
<1> SUFFICES ASSUME Init PROVE TInv
  OBVIOUS
<1>1. gen \in Generator
  BY DEF Init, NewGenerator, Generator, GenStatus
<1>2. pay \in PaymentRow
  BY PaymentAssumption DEF Init, PaymentRow, PayStatus
<1>3. req \in [Thread -> Request \cup {Idle}] /\ Approving
  BY ThreadAssumption DEF Init, Approving, Idle
<1>4. 0 \in 0..MaxRequests
  BY PaymentAssumption
<1>5. tickets \in Seq(TicketRow) /\ Len(tickets) = 0 /\ DOMAIN tickets = {}
  BY DEF Init
<1>6. flow \in [there : BOOLEAN, id : Nat \ {0}, ticket : 0..Len(tickets)]
  BY <1>5 DEF Init
<1> QED
  BY <1>1, <1>2, <1>3, <1>4, <1>5, <1>6 DEF Init, TInv, TypeOK

LEMMA TStep == TInv /\ [Next]_vars => TInv'
<1> SUFFICES ASSUME TInv, [Next]_vars PROVE TInv'
  OBVIOUS
<1>1. ASSUME NEW c \in Thread, Work(c) PROVE TInv'
  BY <1>1, BeginKeeps, ApprovalKeeps, ExecuteKeeps, RfqKeeps, ChangeKeeps DEF Work
<1>2. CASE UNCHANGED vars
  BY <1>2 DEF TInv, TypeOK, Approving, vars
<1> QED
  BY <1>1, <1>2, OemsKeeps DEF Next

\* The rows, the tickets, what the requests have read and what waits are always of the
\* types the columns and the messages have.
THEOREM PaymentTypeCorrect == Spec => []TypeOK
<1>1. TInv => TypeOK
  BY DEF TInv
<1> QED
  BY <1>1, TInit, TStep, PTL DEF Spec

-----------------------------------------------------------------------------
(***************************************************************************)
(* Tickets of the cash flow                                                *)
(***************************************************************************)

\* The tickets are finitely many, and so are those of the cash flow.
LEMMA OursFinite ==
  ASSUME NEW ts \in Seq(TicketRow)
  PROVE  IsFiniteSet(Ours(ts)) /\ Cardinality(Ours(ts)) \in Nat
<1>1. IsFiniteSet(1..Len(ts))
  BY FS_Interval
<1>2. Ours(ts) \subseteq 1..Len(ts)
  BY DEF Ours
<1> QED
  BY <1>1, <1>2, FS_Subset, FS_CardinalityType

\* The tickets that may still become an order.
Open(ts) == {k \in Ours(ts) : ts[k].stage \in {"quoted", "unquoted"}}

\* What a step does to the tickets and to what is counted of them.  It leaves them the cash
\* flow's and makes no quote of an order, ...
Quiet ==
  /\ Ours(tickets') = Ours(tickets) /\ Open(tickets') \subseteq Open(tickets)
  /\ LinkedTicket' = LinkedTicket
  /\ UNCHANGED <<resets, overlaps, orders>>

\* ... or orders those in done, which if it is not late are still open, ...
OrderStep(done, late) ==
  /\ Ours(tickets') = Ours(tickets) /\ LinkedTicket' = LinkedTicket
  /\ resets' = resets /\ orders' = orders + Cardinality(done)
  /\ IF late THEN overlaps' = overlaps + Cardinality(done) /\ Open(tickets') \subseteq Open(tickets)
             ELSE overlaps' = overlaps /\ done \subseteq Open(tickets)
                  /\ Open(tickets') \subseteq Open(tickets) \ done

\* ... or makes ticket n, if it is not late the only one, ...
MakeStep(n, late, ordered) ==
  /\ late \/ Ours(tickets) = {}
  /\ resets' = resets
  /\ overlaps' = overlaps + (IF late THEN 1 ELSE 0)
  /\ orders' = orders + (IF ordered THEN 1 ELSE 0)
  /\ \/ /\ Ours(tickets') = Ours(tickets) \cup {n} /\ LinkedTicket' = {n}
        /\ Open(tickets') \subseteq Open(tickets) \cup (IF ordered THEN {} ELSE {n})
     \/ /\ late /\ Ours(tickets') = Ours(tickets) /\ LinkedTicket' = LinkedTicket
        /\ Open(tickets') \subseteq Open(tickets)

\* ... or cuts all of them off.
CutStep ==
  /\ Ours(tickets') = {} /\ LinkedTicket' = {}
  /\ resets' = resets + (IF Ours(tickets) = {} THEN 0 ELSE 1)
  /\ UNCHANGED <<overlaps, orders>>

TicketStep ==
  \/ Quiet \/ CutStep
  \/ \E done \in SUBSET Nat, late \in BOOLEAN : IsFiniteSet(done) /\ OrderStep(done, late)
  \/ \E n \in Nat, late, ordered \in BOOLEAN : MakeStep(n, late, ordered)

\* A change of the stages of tickets that are no quote, or no order, ...
LEMMA QuietStep ==
  ASSUME DOMAIN tickets' = DOMAIN tickets,
         \A k \in DOMAIN tickets :
           /\ tickets'[k].ours = tickets[k].ours
           /\ tickets'[k].stage \in {"quoted", "unquoted"} => tickets[k].stage \in {"quoted", "unquoted"},
         flow' = flow, UNCHANGED <<resets, overlaps, orders>>
  PROVE  Quiet
  BY DEF Quiet, Ours, Open, LinkedTicket

\* ... and a new ticket, for the cash flow or for one that was replaced.
LEMMA NewStep ==
  ASSUME TInv, NEW c \in Thread, req[c] \in Request, NEW stage \in Stages, NewTicket(c, stage),
         Ours(req[c].seen) = {},
         resets' = resets,
         overlaps' = overlaps + (IF Overtaken(c) THEN 1 ELSE 0),
         orders' = orders + (IF stage = "ordered" THEN 1 ELSE 0)
  PROVE  TicketStep
<1> DEFINE n == Len(tickets) + 1
           t == [stage |-> stage, ours |-> req[c].cash = CashFlow]
<1>1. tickets' = Append(tickets, t) /\ t \in TicketRow
  BY DEF NewTicket, TicketRow
<1>2. /\ tickets \in Seq(TicketRow) /\ flow \in [there : BOOLEAN, id : Nat \ {0}, ticket : 0..Len(tickets)]
      /\ Len(tickets) \in Nat
  BY DEF TInv, TypeOK
<1> HIDE DEF t
<1>3. /\ DOMAIN tickets' = DOMAIN tickets \cup {n} /\ n \notin DOMAIN tickets
      /\ tickets'[n] = t /\ \A k \in DOMAIN tickets : tickets'[k] = tickets[k]
  BY <1>1, <1>2
<1>4. t.ours = (req[c].cash = CashFlow) /\ t.stage = stage
  BY DEF t
<1>5. Overtaken(c) \/ Ours(tickets) = {}
  BY DEF Overtaken
<1>6. n \in Nat /\ n # 0
  BY <1>2
<1>7. CASE req[c].cash = CashFlow
  <2>1. Ours(tickets') = Ours(tickets) \cup {n}
    BY <1>3, <1>4, <1>7 DEF Ours
  <2>2. LinkedTicket' = {n}
    <3>1. flow'.ticket = n
      BY <1>2, <1>7 DEF NewTicket
    <3> QED
      BY <1>6, <3>1 DEF LinkedTicket
  <2>3. Open(tickets') \subseteq Open(tickets) \cup (IF stage = "ordered" THEN {} ELSE {n})
    BY <1>3, <1>4, <2>1 DEF Open, Ours
  <2>4. MakeStep(n, Overtaken(c), stage = "ordered")
    BY <1>5, <2>1, <2>2, <2>3 DEF MakeStep
  <2>5. Overtaken(c) \in BOOLEAN /\ (stage = "ordered") \in BOOLEAN
    BY DEF Overtaken
  <2> QED
    BY <1>6, <2>4, <2>5, Zenon DEF TicketStep
<1>8. CASE req[c].cash # CashFlow
  <2>1. Overtaken(c)
    BY <1>8 DEF Overtaken
  <2>2. Ours(tickets') = Ours(tickets) /\ Open(tickets') \subseteq Open(tickets)
    BY <1>3, <1>4, <1>8 DEF Ours, Open
  <2>3. LinkedTicket' = LinkedTicket
    BY <1>8 DEF NewTicket, LinkedTicket
  <2>4. MakeStep(n, TRUE, stage = "ordered")
    BY <2>1, <2>2, <2>3 DEF MakeStep
  <2> QED
    BY <1>6, <2>4 DEF TicketStep
<1> QED
  BY <1>7, <1>8

\* The quotes an execution found, if none has changed since, become orders.
LEMMA QuotesStep ==
  ASSUME TInv, NEW c \in Thread, req[c] \in Request, ExecuteQuotes(c)
  PROVE  TicketStep
<1>1. PICK done \in SUBSET Quotes(c), failed \in SUBSET Quotes(c) :
       /\ done \cap failed = {}
       /\ tickets' = [k \in DOMAIN tickets |->
                        IF k \in failed THEN [tickets[k] EXCEPT !.stage = "over"] ELSE Put(done, "ordered")[k]]
       /\ Ordered(c, Cardinality(done))
  BY DEF ExecuteQuotes, Quotes
<1>2. IsFiniteSet(done) /\ done \in SUBSET Nat
  <2>1. req[c].seen \in Seq(TicketRow)
    BY DEF Request
  <2>2. done \in SUBSET (1..Len(req[c].seen)) /\ Len(req[c].seen) \in Nat
    BY <2>1 DEF Ours, Quotes
  <2>3. IsFiniteSet(1..Len(req[c].seen))
    BY <2>2, FS_Interval
  <2>4. IsFiniteSet(done)
    BY <2>2, <2>3, FS_Subset
  <2> QED
    BY <2>2, <2>4
<1>3. tickets \in Seq(TicketRow)
  BY DEF TInv, TypeOK
<1>4. /\ DOMAIN tickets' = DOMAIN tickets
      /\ \A k \in DOMAIN tickets : tickets'[k].ours = tickets[k].ours
      /\ \A k \in DOMAIN tickets \ (done \cup failed) : tickets'[k] = tickets[k]
      /\ \A k \in DOMAIN tickets \cap (done \cup failed) : tickets'[k].stage \in {"ordered", "over"}
  <2>1. \A k \in DOMAIN tickets : tickets[k] \in TicketRow
    BY <1>3
  <2>2. \A k \in DOMAIN tickets : tickets'[k] =
          IF k \in failed THEN [tickets[k] EXCEPT !.stage = "over"]
          ELSE IF k \in done THEN [tickets[k] EXCEPT !.stage = "ordered"] ELSE tickets[k]
    BY <1>1 DEF Put
  <2> QED
    BY <1>1, <2>1, <2>2 DEF TicketRow
<1>5. Ours(tickets') = Ours(tickets) /\ LinkedTicket' = LinkedTicket
  BY <1>4 DEF Ours, LinkedTicket, ExecuteQuotes
<1>6. Open(tickets') \subseteq Open(tickets) \ done
  BY <1>4, <1>5 DEF Open, Ours
<1>7. orders' = orders + Cardinality(done) /\ resets' = resets
  BY <1>1 DEF Ordered, ExecuteQuotes
<1>8. CASE Overtaken(c)
  <2>1. overlaps' = overlaps + Cardinality(done)
    BY <1>1, <1>8 DEF Ordered
  <2>2. OrderStep(done, TRUE)
    BY <1>5, <1>6, <1>7, <2>1 DEF OrderStep
  <2> QED
    BY <1>2, <2>2 DEF TicketStep
<1>9. CASE ~Overtaken(c)
  <2>1. overlaps' = overlaps
    BY <1>1, <1>9 DEF Ordered, TInv, TypeOK
  <2>2. done \subseteq Open(tickets)
    BY <1>9 DEF Overtaken, Open, Quotes
  <2>3. OrderStep(done, FALSE)
    BY <1>5, <1>6, <1>7, <2>1, <2>2 DEF OrderStep
  <2> QED
    BY <1>2, <2>3 DEF TicketStep
<1> QED
  BY <1>8, <1>9

\* What a change of the stage of tickets leaves, ...
LEMMA PutQuiet ==
  ASSUME TInv, NEW ks, NEW stage \in Stages, tickets' = Put(ks, stage),
         \/ stage \notin {"quoted", "unquoted"}
         \/ \A k \in DOMAIN tickets : k \in ks => tickets[k].stage \in {"quoted", "unquoted"},
         flow' = flow, UNCHANGED <<resets, overlaps, orders>>
  PROVE  Quiet
<1>1. DOMAIN tickets = 1..Len(tickets)
  BY DEF TInv, TypeOK
<1>2. DOMAIN tickets' = DOMAIN tickets
  BY DEF Put
<1>3. \A k \in DOMAIN tickets :
        tickets'[k].ours = tickets[k].ours
        /\ tickets'[k].stage = IF k \in ks THEN stage ELSE tickets[k].stage
  BY <1>1, PutType DEF TInv
<1> QED
  BY <1>2, <1>3, QuietStep

\* ... and of cutting all of them off.
LEMMA CutOffStep ==
  ASSUME CutOff, flow'.ticket = 0, UNCHANGED <<overlaps, orders>>
  PROVE  TicketStep
  BY DEF CutOff, CutStep, TicketStep, Ours, LinkedTicket

\* Every step does one of these to the tickets.
LEMMA StepTickets ==
  ASSUME TInv, [Next]_vars
  PROVE  TicketStep
<1>0. ASSUME UNCHANGED <<tickets, flow, resets, overlaps, orders>>
      PROVE  TicketStep
  BY <1>0, QuietStep DEF TicketStep
<1>1. ASSUME NEW c \in Thread, Work(c)
      PROVE  TicketStep
  <2>1. CASE BeginUnchecked(c) \/ BeginApprove(c) \/ BeginRfq(c) \/ BeginDelete(c)
    BY <1>0, <2>1 DEF BeginUnchecked, BeginApprove, BeginRfq, BeginDelete, oems
  <2>2. CASE CommitRequest(c) \/ CommitApproval(c) \/ ApproveAndExecute(c) \/ DropRequest(c)
    BY <1>0, <2>2 DEF CommitRequest, CommitApproval, ApproveAndExecute, DropRequest, oems, history
  <2>3. CASE CommitExecute(c)
    <3>0. req[c] \in Request
      BY <2>3, InRequest DEF CommitExecute, Kinds, TInv
    <3>1. CASE ExecuteQuotes(c)
      BY <3>0, <3>1, QuotesStep
    <3>2. CASE ExecuteDirectly(c)
      <4>1. CASE Executable(c) /\ NewTicket(c, "ordered") /\ Ordered(c, 1)
        <5>1. orders' = orders + 1 /\ overlaps' = overlaps + (IF Overtaken(c) THEN 1 ELSE 0)
          BY <4>1 DEF Ordered
        <5> QED
          BY <3>0, <3>2, <4>1, <5>1, NewStep DEF ExecuteDirectly, Executable, Stages
      <4>2. CASE UNCHANGED <<flow, tickets, orders, overlaps>>
        BY <1>0, <3>2, <4>2 DEF ExecuteDirectly
      <4> QED
        BY <3>2, <4>1, <4>2 DEF ExecuteDirectly
    <3>3. CASE ExecuteRaises(c)
      BY <1>0, <3>3 DEF ExecuteRaises, oems
    <3> QED
      BY <2>3, <3>1, <3>2, <3>3 DEF CommitExecute
  <2>4. CASE CommitRfq(c)
    <3>1. PICK stage \in {"quoted", "unquoted"} : NewTicket(c, stage)
      BY <2>4 DEF CommitRfq
    <3>2. req[c] \in Request
      BY <2>4, InRequest DEF CommitRfq, Kinds, TInv
    <3>3. orders' = orders + (IF stage = "ordered" THEN 1 ELSE 0)
      BY <2>4 DEF CommitRfq, TInv, TypeOK
    <3> QED
      BY <2>4, <3>1, <3>2, <3>3, NewStep DEF CommitRfq, Stages
  <2>5. CASE CommitRequote(c)
    <3>1. PICK k \in Ours(req[c].seen) : Requoted(k)
      BY <2>5 DEF CommitRequote
    <3>2. flow' = flow /\ UNCHANGED <<resets, overlaps, orders>>
      BY <2>5 DEF CommitRequote
    <3>3. CASE tickets[k].stage \in {"quoted", "unquoted"}
      <4>1. PICK stage \in {"quoted", "unquoted"} : tickets' = Put({k}, stage)
        BY <3>1, <3>3 DEF Requoted
      <4> QED
        BY <3>2, <3>3, <4>1, PutQuiet DEF Stages, TicketStep
    <3>4. CASE tickets[k].stage \notin {"quoted", "unquoted"}
      BY <1>0, <3>1, <3>2, <3>4 DEF Requoted
    <3> QED
      BY <3>3, <3>4
  <2>6. CASE CommitUpdate(c)
    <3>1. \/ CutOff /\ flow'.ticket = 0
          \/ UNCHANGED <<tickets, flow, resets>>
      BY <2>6 DEF CommitUpdate
    <3> QED
      BY <1>0, <2>6, <3>1, CutOffStep DEF CommitUpdate
  <2>7. CASE CommitDelete(c)
    <3>1. \/ CutOff /\ flow' = [flow EXCEPT !.there = FALSE, !.ticket = 0]
          \/ UNCHANGED <<tickets, flow, resets>>
      BY <2>7 DEF CommitDelete
    <3>2. (CutOff /\ flow'.ticket = 0) \/ UNCHANGED <<tickets, flow, resets>>
      BY <3>1 DEF TInv, TypeOK
    <3> QED
      BY <1>0, <2>7, <3>2, CutOffStep DEF CommitDelete
  <2> QED
    BY <1>1, <2>1, <2>2, <2>3, <2>4, <2>5, <2>6, <2>7 DEF Work
<1>2. CASE RunBulkTask
  BY <1>0, <1>2 DEF RunBulkTask, oems, history
<1>3. ASSUME NEW k \in DOMAIN tickets, RunTask(k)
      PROVE  TicketStep
  BY <1>0, <1>3 DEF RunTask
<1>4. ASSUME NEW k \in DOMAIN tickets, NEW from, NEW stage \in {"ordered", "dealt", "over"}, NEW status,
             OemsChange(k, from, stage, status)
      PROVE  TicketStep
  BY <1>4, PutQuiet DEF OemsChange, Stages, TicketStep, history
<1>5. ASSUME NEW k \in DOMAIN tickets, OemsWork(k)
      PROVE  TicketStep
  BY <1>4, <1>5 DEF OemsWork
<1>6. ASSUME NEW k \in DOMAIN tickets, OemsCancel(k)
      PROVE  TicketStep
  <2>1. CASE UNCHANGED <<policy, rows, flow, tickets, req, lock, chores, history>>
    BY <1>0, <2>1 DEF history
  <2> QED
    BY <1>4, <1>6, <2>1 DEF OemsCancel
<1>7. CASE UNCHANGED vars
  BY <1>0, <1>7 DEF vars
<1> QED
  BY <1>1, <1>2, <1>3, <1>5, <1>6, <1>7 DEF Next

\* The cash flow has one ticket, and one more for every one made on an old view.
LEMMA TicketsStep ==
  ASSUME TInv, TInv', TicketsAccounted, TicketStep
  PROVE  TicketsAccounted'
<1>0. /\ IsFiniteSet(Ours(tickets)) /\ Cardinality(Ours(tickets)) \in Nat
      /\ overlaps \in Nat /\ Cardinality({}) = 0
  BY OursFinite, FS_EmptySet DEF TInv, TypeOK
<1>1. CASE Quiet
  BY <1>1 DEF Quiet, TicketsAccounted
<1>2. CASE CutStep
  BY <1>0, <1>2 DEF CutStep, TicketsAccounted
<1>3. ASSUME NEW done \in SUBSET Nat, NEW late \in BOOLEAN, IsFiniteSet(done), OrderStep(done, late)
      PROVE  TicketsAccounted'
  <2>1. Cardinality(done) \in Nat
    BY <1>3, FS_CardinalityType
  <2>2. overlaps' \in Nat /\ overlaps' >= overlaps
    BY <1>0, <1>3, <2>1 DEF OrderStep
  <2> QED
    BY <1>0, <1>3, <2>2 DEF OrderStep, TicketsAccounted
<1>4. ASSUME NEW n \in Nat, NEW late \in BOOLEAN, NEW ordered \in BOOLEAN, MakeStep(n, late, ordered)
      PROVE  TicketsAccounted'
  <2>1. Cardinality(Ours(tickets) \cup {n}) \in {Cardinality(Ours(tickets)), Cardinality(Ours(tickets)) + 1}
    BY <1>0, FS_AddElement
  <2>2. late \/ Cardinality(Ours(tickets)) = 0
    BY <1>0, <1>4 DEF MakeStep
  <2>3. CASE Ours(tickets') = Ours(tickets) \cup {n} /\ LinkedTicket' = {n}
    BY <1>0, <1>4, <2>1, <2>2, <2>3 DEF MakeStep, TicketsAccounted
  <2>4. CASE late /\ Ours(tickets') = Ours(tickets) /\ LinkedTicket' = LinkedTicket
    BY <1>0, <1>4, <2>4 DEF MakeStep, TicketsAccounted
  <2> QED
    BY <1>4, <2>3, <2>4 DEF MakeStep
<1> QED
  BY <1>1, <1>2, <1>3, <1>4 DEF TicketStep

\* However the requests of one payment meet each other and the OEMS, its cash flow has one
\* ticket, but for those made on an old view, and names one of its own.
THEOREM PaymentTicketsAccounted == Spec => []TicketsAccounted
<1>1. Init => TicketsAccounted
  BY FS_EmptySet DEF Init, TicketsAccounted, Ours, LinkedTicket
<1>2. TInv /\ TicketsAccounted /\ [Next]_vars => TInv' /\ TicketsAccounted'
  BY TStep, StepTickets, TicketsStep
<1> QED
  BY <1>1, <1>2, TInit, PTL DEF Spec

-----------------------------------------------------------------------------
(***************************************************************************)
(* Orders                                                                  *)
(***************************************************************************)

\* What explains the orders: a ticket that is still open is an order to come, and a cash
\* flow without a ticket had all its orders cut off from it.
OrdersInv ==
  /\ orders + Cardinality(Open(tickets)) <= 1 + resets + overlaps
  /\ Ours(tickets) = {} => orders <= resets + overlaps

\* A part of the open tickets, with one more at most.
LEMMA OpenParts ==
  ASSUME TInv
  PROVE  /\ IsFiniteSet(Open(tickets)) /\ Cardinality(Open(tickets)) \in Nat
         /\ \A T \in SUBSET Open(tickets) :
              IsFiniteSet(T) /\ Cardinality(T) \in Nat /\ Cardinality(T) <= Cardinality(Open(tickets))
<1>1. IsFiniteSet(Ours(tickets))
  BY OursFinite DEF TInv, TypeOK
<1>2. Open(tickets) \subseteq Ours(tickets)
  BY DEF Open
<1>3. IsFiniteSet(Open(tickets)) /\ Cardinality(Open(tickets)) \in Nat
  BY <1>1, <1>2, FS_Subset, FS_CardinalityType
<1> QED
  BY <1>3, FS_Subset, FS_CardinalityType

\* The first conjunct speaks of all open tickets, so that an order given for one of them
\* costs nothing; the second gives the order for a new ticket its place.
LEMMA OrdersStep ==
  ASSUME TInv, TInv', OrdersInv, TicketStep
  PROVE  OrdersInv'
<1> DEFINE old == Cardinality(Open(tickets))
           new == Cardinality(Open(tickets'))
<1>1. /\ orders \in Nat /\ resets \in Nat /\ overlaps \in Nat /\ old \in Nat /\ new \in Nat
      /\ orders' \in Nat /\ resets' \in Nat /\ overlaps' \in Nat
  <2>1. IsFiniteSet(Ours(tickets'))
    BY OursFinite DEF TInv, TypeOK
  <2>2. Open(tickets') \in SUBSET Ours(tickets')
    BY DEF Open
  <2>3. new \in Nat
    BY <2>1, <2>2, FS_Subset, FS_CardinalityType
  <2> QED
    BY <2>3, OpenParts DEF TInv, TypeOK
<1>2. Open(tickets') \subseteq Open(tickets) => new <= old
  BY OpenParts
<1>3. Ours(tickets) = {} => old = 0
  BY FS_EmptySet DEF Open
<1>4. Ours(tickets') = {} => new = 0
  BY FS_EmptySet DEF Open
<1>5. /\ orders + old <= 1 + resets + overlaps
      /\ Ours(tickets) = {} => orders <= resets + overlaps
  BY DEF OrdersInv
<1>6. SUFFICES /\ orders' + new <= 1 + resets' + overlaps'
               /\ Ours(tickets') = {} => orders' <= resets' + overlaps'
  BY DEF OrdersInv
<1> HIDE DEF old, new
<1>7. CASE Quiet
  BY <1>1, <1>2, <1>5, <1>7 DEF Quiet
<1>8. CASE CutStep
  BY <1>1, <1>4, <1>5, <1>8 DEF CutStep
<1>9. ASSUME NEW done \in SUBSET Nat, NEW late \in BOOLEAN, IsFiniteSet(done), OrderStep(done, late)
      PROVE  /\ orders' + new <= 1 + resets' + overlaps'
             /\ Ours(tickets') = {} => orders' <= resets' + overlaps'
  <2>1. Cardinality(done) \in Nat
    BY <1>9, FS_CardinalityType
  <2>2. CASE late
    BY <1>1, <1>2, <1>5, <1>9, <2>1, <2>2 DEF OrderStep
  <2>3. CASE ~late
    <3>1. done \subseteq Open(tickets) /\ Open(tickets') \subseteq Open(tickets) \ done
      BY <1>9, <2>3 DEF OrderStep
    <3>2. new + Cardinality(done) <= old
      <4>1. Open(tickets') \cup done \in SUBSET Open(tickets) /\ Open(tickets') \cap done = {}
        BY <3>1
      <4>2. IsFiniteSet(Open(tickets')) /\ IsFiniteSet(done)
        BY <3>1, OpenParts
      <4>3. Cardinality(Open(tickets') \cup done) = new + Cardinality(done) - Cardinality({})
        BY <4>1, <4>2, FS_Union DEF new
      <4>4. Cardinality(Open(tickets') \cup done) <= old
        BY <4>1, OpenParts DEF old
      <4> QED
        BY <1>1, <2>1, <4>3, <4>4, FS_EmptySet
    <3>3. Ours(tickets) = {} => Cardinality(done) = 0
      BY <3>1, FS_EmptySet DEF Open
    <3>4. orders' = orders + Cardinality(done) /\ UNCHANGED <<resets, overlaps>> /\ Ours(tickets') = Ours(tickets)
      BY <1>9, <2>3 DEF OrderStep
    <3> QED
      BY <1>1, <1>5, <2>1, <3>2, <3>3, <3>4
  <2> QED
    BY <2>2, <2>3
<1>10. ASSUME NEW n \in Nat, NEW late \in BOOLEAN, NEW ordered \in BOOLEAN, MakeStep(n, late, ordered)
       PROVE  /\ orders' + new <= 1 + resets' + overlaps'
              /\ Ours(tickets') = {} => orders' <= resets' + overlaps'
  <2>1. ~late => Ours(tickets) = {} /\ old = 0 /\ orders <= resets + overlaps
    <3>1. ~late => Ours(tickets) = {}
      BY <1>10 DEF MakeStep
    <3> QED
      BY <1>3, <1>5, <3>1
  <2>2. resets' = resets /\ overlaps' = overlaps + (IF late THEN 1 ELSE 0)
        /\ orders' = orders + (IF ordered THEN 1 ELSE 0)
    BY <1>10 DEF MakeStep
  <2>3. new <= old + (IF ordered THEN 0 ELSE 1)
    <3>1. CASE Open(tickets') \subseteq Open(tickets)
      BY <1>1, <1>2, <3>1
    <3>2. CASE ~ordered /\ Open(tickets') \subseteq Open(tickets) \cup {n}
      <4>1. IsFiniteSet(Open(tickets) \cup {n}) /\ Cardinality(Open(tickets) \cup {n}) <= old + 1
        BY <1>1, OpenParts, FS_AddElement DEF old
      <4>2. new <= Cardinality(Open(tickets) \cup {n}) /\ Cardinality(Open(tickets) \cup {n}) \in Nat
        BY <3>2, <4>1, FS_Subset, FS_CardinalityType DEF new
      <4> QED
        BY <1>1, <3>2, <4>1, <4>2
    <3> QED
      BY <1>10, <3>1, <3>2 DEF MakeStep
  <2>4. Ours(tickets') = {} => Ours(tickets) = {} /\ late
    BY <1>10 DEF MakeStep
  <2> QED
    BY <1>1, <1>5, <2>1, <2>2, <2>3, <2>4
<1> QED
  BY <1>7, <1>8, <1>9, <1>10 DEF TicketStep

\* However the requests of one payment meet each other and the OEMS, every order beyond the
\* first has its reason in a cash flow cut off from its ticket or in an execution on an
\* old view of the tickets.
THEOREM PaymentOrdersAccounted == Spec => []OrdersAccounted
<1>1. Init => OrdersInv
  <2>1. Init => Open(tickets) = {} /\ orders = 0 /\ resets = 0 /\ overlaps = 0
    BY DEF Init, Open, Ours
  <2> QED
    BY <2>1, FS_EmptySet DEF OrdersInv
<1>2. TInv /\ OrdersInv /\ [Next]_vars => TInv' /\ OrdersInv'
  BY TStep, StepTickets, OrdersStep
<1>3. TInv /\ OrdersInv => OrdersAccounted
  <2> SUFFICES ASSUME TInv, OrdersInv PROVE OrdersAccounted
    OBVIOUS
  <2>1. Cardinality(Open(tickets)) \in Nat /\ orders \in Nat /\ resets \in Nat /\ overlaps \in Nat
    BY OpenParts DEF TInv, TypeOK
  <2> QED
    BY <2>1 DEF OrdersInv, OrdersAccounted
<1> QED
  BY <1>1, <1>2, <1>3, TInit, PTL DEF Spec

-----------------------------------------------------------------------------
(***************************************************************************)
(* Approvals                                                               *)
(***************************************************************************)

\* A user has approved for approver i, of those in the set A of approvals.
For(i, A) == \E u \in User : <<u, i>> \in A

\* What is true of a generator, the row or what a request has read of it, whichever of
\* them is saved last: A are the approvals given, n the requests for approval made and
\* w whether the payment was ever canceled.  A date is there only because somebody
\* approved, and APPROVED because all had to, ...
Sound(g, A) ==
  /\ \A i \in Slots : g.approval_date[i] => For(i, A)
  /\ g.status = "PENDAUTH" => g.is_dual_approval = policy.dual
  /\ g.status = "APPROVED" => g.approval_date[1] /\ (policy.dual => g.approval_date[2])

\* ... with approvers named once, each date is by the approver that is named ...
Own(g, A) ==
  /\ \A i \in Slots : g.approval_date[i] => <<g.approver[i], i>> \in A
  /\ g.approver[1] = g.approver[2] => g.approver[1] = Nobody

\* ... and before that there is none.
Blank(g) ==
  /\ \A i \in Slots : g.approver[i] = Nobody /\ ~g.approval_date[i]
  /\ g.status \notin {"PENDAUTH", "APPROVED"}

Good(g, A, n, w) ==
  /\ Sound(g, A)
  /\ n <= 1 => Own(g, A)
  /\ n = 0 => Blank(g)
  /\ g.status \in {"CANCELED", "DELETED"} => w

\* The approvals given when the transaction commits that request c has open.
Given(c) == acts \cup (IF lock = c THEN {<<req[c].user, SlotOf(req[c])>>} ELSE {})

GoodCopy(c) == req[c] # Idle => Good(req[c].gen, Given(c), requests, withdrawn)

\* An approving user is an approver.
Named(c) == req[c].kind = "approve" => req[c].user = req[c].gen.approver[SlotOf(req[c])]

CopyInv ==
  /\ Good(gen, acts, requests, withdrawn)
  /\ \A c \in Thread : GoodCopy(c) /\ Named(c)

\* More approvals, requests or cancellations leave it so.
LEMMA GoodKept ==
  ASSUME NEW g, NEW A, NEW B, A \subseteq B, NEW n \in Nat, NEW m \in Nat, n <= m,
         NEW v, NEW w, v => w, Good(g, A, n, v)
  PROVE  Good(g, B, m, w)
  BY DEF Good, Sound, Own, Blank, For

\* What the invariant asks of a step: more approvals, requests or cancellations only.
Grows ==
  /\ acts \subseteq acts' /\ requests' \in Nat /\ requests <= requests' /\ (withdrawn => withdrawn')
  /\ policy' = policy

\* A step by which a request ends, or nothing changes of any but one that is as it should be.
LEMMA CopiesKept ==
  ASSUME TInv, CopyInv, Grows,
         \A c \in Thread : \/ req'[c] = Idle
                           \/ req'[c] = req[c] /\ (lock = c => lock' = c)
                           \/ GoodCopy(c)' /\ Named(c)',
         Good(gen, acts, requests, withdrawn) => Good(gen', acts', requests', withdrawn')
  PROVE  CopyInv'
<1>1. requests \in Nat
  BY DEF TInv, TypeOK
<1>2. ASSUME NEW c \in Thread PROVE GoodCopy(c)' /\ Named(c)'
  <2>1. CASE req'[c] = Idle
    BY <2>1 DEF GoodCopy, Named, Idle
  <2>2. CASE req'[c] = req[c] /\ req[c] # Idle /\ (lock = c => lock' = c)
    <3>1. Given(c) \subseteq Given(c)'
      BY <2>2 DEF Given, Grows, SlotOf
    <3>2. Good(req[c].gen, Given(c), requests, withdrawn)
      BY <2>2 DEF CopyInv, GoodCopy
    <3>3. Good(req[c].gen, Given(c)', requests', withdrawn')
      BY <1>1, <3>1, <3>2, GoodKept DEF Grows
    <3>4. Good(req[c].gen, Given(c), requests, withdrawn)'
      BY <2>2, <3>3 DEF Grows, Good, Sound, Own, Blank
    <3> QED
      BY <2>2, <3>4 DEF GoodCopy, Named, CopyInv, SlotOf
  <2> QED
    BY <1>2, <2>1, <2>2
<1>3. Good(gen, acts, requests, withdrawn)'
  BY DEF CopyInv, Grows, Good, Sound, Own, Blank
<1> QED
  BY <1>2, <1>3 DEF CopyInv

\* A request begins with a row as it is, or with none.
LEMMA BeginCopies ==
  ASSUME TInv, CopyInv, NEW c \in Thread,
         BeginUnchecked(c) \/ BeginApprove(c) \/ BeginRfq(c) \/ BeginDelete(c)
  PROVE  CopyInv'
<1>1. PICK kind \in Kinds, user \in User \cup {Nobody} :
        /\ Begin(c, kind, user)
        /\ kind = "approve" => \E i \in Slots : user = gen.approver[i]
  <2>1. CASE BeginUnchecked(c)
    BY <2>1 DEF BeginUnchecked, Kinds
  <2>2. CASE BeginApprove(c)
    <3>1. PICK i \in Slots : Begin(c, "approve", gen.approver[i])
      BY <2>2 DEF BeginApprove
    <3>2. gen.approver[i] \in User \cup {Nobody}
      BY DEF TInv, TypeOK, Generator
    <3> QED
      BY <3>1, <3>2 DEF Kinds
  <2>3. CASE BeginRfq(c) \/ BeginDelete(c)
    BY <2>3 DEF BeginRfq, BeginDelete, Kinds
  <2> QED
    BY <2>1, <2>2, <2>3
<1>2. UNCHANGED <<policy, gen, lock, acts, requests, withdrawn>>
  BY DEF BeginUnchecked, BeginApprove, BeginRfq, BeginDelete, rows
<1>3. Grows
  BY <1>2 DEF Grows, TInv, TypeOK
<1>4. req[c] = Idle /\ \A d \in Thread : req'[d] = IF d = c THEN Read(kind, user) ELSE req[d]
  BY <1>1 DEF Begin, TInv, TypeOK
<1>5. GoodCopy(c)'
  <2>1. lock # c
    BY <1>4 DEF TInv, Approving, Idle
  <2>2. Given(c)' = acts
    BY <1>2, <2>1 DEF Given
  <2>3. req'[c].gen = NewGenerator \/ req'[c].gen = gen
    BY <1>4 DEF Read
  <2>4. Good(NewGenerator, acts, requests, withdrawn)
    <3>1. /\ NewGenerator.status = "DRAFT"
          /\ \A i \in Slots : NewGenerator.approver[i] = Nobody /\ NewGenerator.approval_date[i] = FALSE
      BY DEF NewGenerator
    <3>2. Blank(NewGenerator) /\ Sound(NewGenerator, acts) /\ Own(NewGenerator, acts)
      BY <3>1 DEF Blank, Sound, Own, Slots
    <3> QED
      BY <3>1, <3>2 DEF Good
  <2>5. Good(req'[c].gen, acts, requests, withdrawn)
    BY <2>3, <2>4 DEF CopyInv
  <2> QED
    BY <1>2, <2>2, <2>5 DEF GoodCopy, Good, Sound, Own, Blank
<1>6. Named(c)'
  <2>1. Read(kind, user).kind = kind /\ Read(kind, user).user = user
        /\ (kind = "approve" => Read(kind, user).gen = gen)
    BY DEF Read
  <2> QED
    BY <1>1, <1>4, <2>1 DEF Named, SlotOf, Slots
<1> QED
  BY <1>2, <1>3, <1>4, <1>5, <1>6, CopiesKept

\* A request that ends leaves the others.
LEMMA DoneOthers ==
  ASSUME TInv, NEW c \in Thread, Done(c)
  PROVE  \A d \in Thread : req'[d] = Idle \/ (d # c /\ req'[d] = req[d])
<1>1. \A d \in Thread : req'[d] = IF d = c THEN Idle ELSE req[d]
  BY DEF TInv, TypeOK, Done
<1> QED
  BY <1>1

\* What an approving user adds to the rows as they were read is as it should be, the
\* approval being given.
LEMMA DatedGood ==
  ASSUME TInv, CopyInv, NEW c \in Thread, req[c].kind = "approve", req[c].gen.status = "PENDAUTH",
         NEW A, acts \subseteq A, <<req[c].user, SlotOf(req[c])>> \in A
  PROVE  /\ Good(DatedBy(req[c]), A, requests, withdrawn)
         /\ Complete(DatedBy(req[c])) =>
              Good([DatedBy(req[c]) EXCEPT !.status = "APPROVED"], A, requests, withdrawn)
<1> DEFINE r == req[c]
           g == DatedBy(r)
           h == [g EXCEPT !.status = "APPROVED"]
           s == SlotOf(r)
<1>1. r \in Request /\ r.gen \in Generator /\ r.user \in User /\ s \in Slots
  BY InRequest DEF Kinds, Request, TInv, Approving, SlotOf, Slots
<1>2. lock # c
  BY DEF TInv, Approving
<1>3. Good(r.gen, acts, requests, withdrawn) /\ r.user = r.gen.approver[s]
  BY <1>2 DEF CopyInv, GoodCopy, Named, Given, Idle
<1>4. requests # 0
  BY <1>3 DEF Good, Blank
<1>5. /\ g = [r.gen EXCEPT !.approval_date = [r.gen.approval_date EXCEPT ![s] = TRUE]]
      /\ g \in Generator
  BY <1>1 DEF DatedBy, Generator
<1>6. /\ g.status = r.gen.status /\ g.approver = r.gen.approver
      /\ g.is_dual_approval = r.gen.is_dual_approval
      /\ \A i \in Slots : g.approval_date[i] => i = s \/ r.gen.approval_date[i]
  BY <1>1, <1>5 DEF Generator
<1>7. /\ h.status = "APPROVED" /\ h.approver = g.approver /\ h.approval_date = g.approval_date
      /\ h.is_dual_approval = g.is_dual_approval
  BY <1>5 DEF Generator
<1> HIDE DEF g, h, s
<1>8. \A i \in Slots : g.approval_date[i] => For(i, A)
  BY <1>1, <1>3, <1>6 DEF Good, Sound, For, s
<1>9. requests <= 1 => Own(g, A)
  BY <1>1, <1>3, <1>6 DEF Good, Own, s
<1>10. Good(g, A, requests, withdrawn)
  BY <1>3, <1>4, <1>6, <1>8, <1>9 DEF Good, Sound
<1>11. ASSUME Complete(g) PROVE Good(h, A, requests, withdrawn)
  <2>1. g.is_dual_approval = policy.dual
    BY <1>3, <1>6 DEF Good, Sound
  <2>2. Sound(h, A)
    BY <1>7, <1>8, <1>11, <2>1 DEF Sound, Complete
  <2>3. requests <= 1 => Own(h, A)
    BY <1>7, <1>9 DEF Own
  <2> QED
    BY <1>4, <1>7, <2>2, <2>3 DEF Good
<1> QED
  BY <1>10, <1>11 DEF g, h

\* What a request for approval makes of the row it read.
LEMMA RequestedGood ==
  ASSUME TInv, CopyInv, NEW c \in Thread, CommitRequest(c)
  PROVE  Good(gen', acts, requests', withdrawn)
<1> DEFINE g == req[c].gen
<1>1. PICK a \in User, b \in User \cup {Nobody} :
        a # b /\ gen' = Requested(g, IF b = Nobody THEN <<a>> ELSE <<a, b>>)
  BY DEF CommitRequest
<1>2. lock = Idle /\ lock # c /\ req[c] # Idle /\ requests' = requests + 1 /\ requests \in Nat
  BY ThreadAssumption DEF CommitRequest, SavePayment, Idle, TInv, TypeOK
<1>3. Good(g, acts, requests, withdrawn) /\ g \in Generator
  BY <1>2, InRequest DEF CopyInv, GoodCopy, Given, CommitRequest, Kinds, Request, TInv
<1>4. /\ gen'.approval_date = g.approval_date
      /\ gen'.status = (IF g.status = "DRAFT" THEN "PENDAUTH" ELSE g.status)
      /\ gen'.is_dual_approval = policy.dual
      /\ \A i \in Slots : gen'.approver[i] =
           IF i = 1 THEN a ELSE IF b = Nobody THEN g.approver[2] ELSE b
  <2>1. gen' = [g EXCEPT !.is_dual_approval = policy.dual,
                         !.approver = [i \in Slots |->
                            IF i = 1 THEN a ELSE IF b = Nobody THEN g.approver[2] ELSE b],
                         !.status = IF g.status = "DRAFT" THEN "PENDAUTH" ELSE g.status]
    <3>1. [i \in Slots |-> IF i = 1 THEN a ELSE IF b = Nobody THEN g.approver[2] ELSE b]
            = [i \in Slots |-> LET named == IF b = Nobody THEN <<a>> ELSE <<a, b>>
                               IN IF i <= Len(named) THEN named[i] ELSE g.approver[i]]
      BY DEF Slots
    <3> QED
      BY <1>1, <1>3, <3>1 DEF Requested, Generator
  <2> QED
    BY <1>3, <2>1 DEF Generator
<1> HIDE DEF g
<1>5. Sound(gen', acts)
  BY <1>3, <1>4 DEF Good, Sound
<1>6. requests' <= 1 => Own(gen', acts)
  <2>1. SUFFICES ASSUME requests = 0 PROVE Own(gen', acts)
    BY <1>2
  <2>2. Blank(g)
    BY <1>3, <2>1 DEF Good
  <2>3. gen'.approver[1] = a /\ gen'.approver[2] = b
    BY <1>4, <2>2 DEF Blank, Slots
  <2> QED
    BY <1>1, <1>4, <2>2, <2>3 DEF Own, Blank
<1> QED
  BY <1>2, <1>3, <1>4, <1>5, <1>6 DEF Good

\* Every step keeps the generator as it should be, whichever copy of it is saved.
LEMMA CopyStep ==
  ASSUME TInv, CopyInv, [Next]_vars
  PROVE  CopyInv'
<1>0. ASSUME UNCHANGED <<policy, gen, req, lock, acts, requests, withdrawn>>
      PROVE  CopyInv'
  <2>1. Grows
    BY <1>0 DEF Grows, TInv, TypeOK
  <2> QED
    BY <1>0, <2>1, CopiesKept
<1>1. ASSUME NEW c \in Thread, Work(c)
      PROVE  CopyInv'
  <2>1. ASSUME Done(c), Grows, lock' = lock,
               gen' = gen \/ Good(gen', acts', requests', withdrawn')
        PROVE  CopyInv'
    <3>1. requests \in Nat
      BY DEF TInv, TypeOK
    <3>2. Good(gen, acts, requests, withdrawn) => Good(gen', acts', requests', withdrawn')
      BY <2>1, <3>1, GoodKept DEF Grows
    <3> QED
      BY <2>1, <3>2, DoneOthers, CopiesKept
  <2>2. ASSUME req[c] # Idle, lock # c
        PROVE  Good(req[c].gen, acts, requests, withdrawn)
    BY <2>2 DEF CopyInv, GoodCopy, Given
  <2>3. CASE BeginUnchecked(c) \/ BeginApprove(c) \/ BeginRfq(c) \/ BeginDelete(c)
    BY <2>3, BeginCopies
  <2>4. CASE CommitRequest(c)
    <3>1. Grows
      BY <2>4 DEF CommitRequest, Grows, TInv, TypeOK
    <3>2. UNCHANGED <<acts, withdrawn, lock>>
      BY <2>4 DEF CommitRequest
    <3> QED
      BY <2>1, <2>4, <3>1, <3>2, RequestedGood DEF CommitRequest
  <2>5. CASE CommitApproval(c)
    <3>1. Grows
      BY <2>5 DEF CommitApproval, Grows, TInv, TypeOK
    <3>2. Good(gen', acts', requests', withdrawn')
      BY <2>5, DatedGood DEF CommitApproval
    <3> QED
      BY <2>1, <2>5, <3>1, <3>2 DEF CommitApproval
  <2>6. CASE ApproveAndExecute(c)
    <3> DEFINE r == req[c]
    <3>1. /\ lock' = c
          /\ req' = [req EXCEPT ![c] = [Approve(r) EXCEPT !.kind = "execute", !.cash = CashFlow, !.seen = tickets]]
          /\ UNCHANGED <<policy, gen, acts, requests, withdrawn>>
      BY <2>6 DEF ApproveAndExecute, rows, history
    <3>2. r \in Request
      BY <2>6, InRequest DEF ApproveAndExecute, Kinds, TInv
    <3>3. /\ req'[c].kind = "execute" /\ req'[c].user = r.user
          /\ req'[c].gen = [DatedBy(r) EXCEPT !.status = "APPROVED"]
          /\ \A d \in Thread \ {c} : req'[d] = req[d]
      BY <3>1, <3>2 DEF Approve, Request, TInv, TypeOK
    <3>4. SlotOf(r)' = SlotOf(r)
      <4>1. req'[c].gen.approver = r.gen.approver
        BY <3>2, <3>3 DEF DatedBy, Request, Generator
      <4> QED
        BY <3>3, <4>1 DEF SlotOf
    <3>5. Given(c)' = acts \cup {<<r.user, SlotOf(r)>>}
      BY <3>1, <3>3, <3>4 DEF Given
    <3>6. Good(req'[c].gen, Given(c)', requests, withdrawn)
      BY <2>6, <3>3, <3>5, DatedGood DEF ApproveAndExecute
    <3>7. GoodCopy(c)' /\ Named(c)'
      BY <3>1, <3>3, <3>6 DEF GoodCopy, Named, Good, Sound, Own, Blank
    <3>8. Grows
      BY <3>1 DEF Grows, TInv, TypeOK
    <3>9. \A d \in Thread \ {c} : lock # d
      BY <2>6, ThreadAssumption DEF ApproveAndExecute
    <3> QED
      BY <3>1, <3>3, <3>7, <3>8, <3>9, CopiesKept
  <2>7. CASE CommitExecute(c)
    <3>1. PICK status, sent : CommitBoth(c, status, sent)
      BY <2>7 DEF CommitExecute, ExecuteQuotes, ExecuteDirectly, ExecuteRaises
    <3>2. UNCHANGED <<policy, requests, withdrawn>>
      BY <2>7 DEF CommitExecute, ExecuteQuotes, ExecuteDirectly, ExecuteRaises
    <3>3. acts' = Given(c) /\ lock' = Idle /\ Done(c)
      BY <3>1 DEF CommitBoth, Given
    <3>4. Grows
      BY <3>2, <3>3 DEF Grows, Given, TInv, TypeOK
    <3>5. gen' = gen \/ Good(gen', acts', requests', withdrawn')
      <4>1. req[c] # Idle
        BY <2>7 DEF CommitExecute, Idle
      <4>2. Good(req[c].gen, Given(c), requests, withdrawn)
        BY <4>1 DEF CopyInv, GoodCopy
      <4>3. gen' = req[c].gen \/ gen' = gen
        BY <3>1 DEF CommitBoth
      <4> QED
        BY <3>2, <3>3, <4>2, <4>3
    <3>6. \A d \in Thread \ {c} : lock # d
      BY <3>1, ThreadAssumption DEF CommitBoth
    <3>7. Good(gen, acts, requests, withdrawn) => Good(gen', acts', requests', withdrawn')
      BY <3>4, <3>5, GoodKept DEF Grows, TInv, TypeOK
    <3> QED
      BY <3>3, <3>4, <3>6, <3>7, DoneOthers, CopiesKept
  <2>8. CASE CommitRfq(c) \/ CommitRequote(c)
    <3>1. Grows /\ UNCHANGED <<gen, lock>>
      BY <2>8 DEF CommitRfq, CommitRequote, Grows, TInv, TypeOK, rows
    <3> QED
      BY <2>1, <2>8, <3>1 DEF CommitRfq, CommitRequote
  <2>9. CASE CommitUpdate(c)
    <3>1. Grows /\ lock = Idle /\ UNCHANGED <<acts, requests, withdrawn, lock>> /\ gen' = req[c].gen
      BY <2>9 DEF CommitUpdate, Grows, TInv, TypeOK
    <3>2. req[c] # Idle /\ lock # c
      BY <2>9, <3>1, ThreadAssumption DEF CommitUpdate, Idle
    <3> QED
      BY <2>1, <2>2, <2>9, <3>1, <3>2 DEF CommitUpdate
  <2>10. CASE CommitDelete(c)
    <3>1. Grows /\ lock = Idle /\ UNCHANGED <<acts, requests, lock>> /\ withdrawn'
      BY <2>10 DEF CommitDelete, Grows, TInv, TypeOK
    <3>2. req[c] # Idle /\ lock # c
      BY <2>10, <3>1, ThreadAssumption DEF CommitDelete, Idle
    <3>3. PICK g \in {gen, req[c].gen}, status \in {"CANCELED", "DELETED"} : gen' = [g EXCEPT !.status = status]
      BY <2>10 DEF CommitDelete
    <3>4. Good(g, acts, requests, withdrawn) /\ g \in Generator
      <4>1. gen \in Generator
        BY DEF TInv, TypeOK
      <4>2. req[c].gen \in Generator
        BY <2>10, InRequest DEF CommitDelete, Kinds, Request, TInv
      <4> QED
        BY <2>2, <3>2, <3>3, <4>1, <4>2 DEF CopyInv
    <3>5. /\ gen'.status = status /\ gen'.approver = g.approver /\ gen'.approval_date = g.approval_date
          /\ gen'.is_dual_approval = g.is_dual_approval
      BY <3>3, <3>4 DEF Generator
    <3>6. Good(gen', acts, requests, TRUE)
      BY <3>3, <3>4, <3>5 DEF Good, Sound, Own, Blank
    <3>7. Good(gen', acts', requests', withdrawn')
      BY <3>1, <3>6, GoodKept DEF TInv, TypeOK
    <3> QED
      BY <2>1, <2>10, <3>1, <3>7 DEF CommitDelete
  <2>11. CASE DropRequest(c)
    <3>1. Grows /\ UNCHANGED <<policy, gen, acts, requests, withdrawn>>
      BY <2>11 DEF DropRequest, Grows, TInv, TypeOK, rows, history
    <3>2. \A d \in Thread \ {c} : lock = d => lock' = d
      BY <2>11 DEF DropRequest
    <3> QED
      BY <2>11, <3>1, <3>2, DoneOthers, CopiesKept DEF DropRequest
  <2> QED
    BY <1>1, <2>3, <2>4, <2>5, <2>6, <2>7, <2>8, <2>9, <2>10, <2>11 DEF Work
<1>2. CASE RunBulkTask
  BY <1>0, <1>2 DEF RunBulkTask, rows, history
<1>3. ASSUME NEW k \in DOMAIN tickets, RunTask(k) \/ OemsWork(k) \/ OemsCancel(k)
      PROVE  CopyInv'
  BY <1>0, <1>3 DEF RunTask, OemsWork, OemsCancel, OemsChange, rows, history
<1>4. CASE UNCHANGED vars
  BY <1>0, <1>4 DEF vars
<1> QED
  BY <1>1, <1>2, <1>3, <1>4 DEF Next

LEMMA CopyInit == Init => CopyInv
<1> SUFFICES ASSUME Init PROVE CopyInv
  OBVIOUS
<1>1. /\ gen.status = "DRAFT"
      /\ \A i \in Slots : gen.approver[i] = Nobody /\ gen.approval_date[i] = FALSE
  BY DEF Init, NewGenerator
<1>2. Blank(gen) /\ Sound(gen, acts) /\ Own(gen, acts)
  BY <1>1 DEF Blank, Sound, Own, Slots
<1>3. Good(gen, acts, requests, withdrawn)
  BY <1>1, <1>2 DEF Good
<1> QED
  BY <1>3 DEF Init, CopyInv, GoodCopy, Named, Idle

\* Of a company with dual approval a payment is APPROVED only by two users, and each date
\* of approval is by the approver it is for, whichever requests overlap and whichever of
\* them dies, as long as approvers are named once.
THEOREM PaymentDualControl == Spec => []DualControl
<1>1. TInv /\ CopyInv => DualControl
  <2> SUFFICES ASSUME TInv, CopyInv, requests <= 1
               PROVE  /\ \A i \in Slots : gen.approval_date[i] => <<gen.approver[i], i>> \in acts
                      /\ gen.status = "APPROVED" /\ policy.dual => \E a, b \in acts : a[1] # b[1]
    BY DEF DualControl
  <2>1. Own(gen, acts) /\ Sound(gen, acts)
    BY DEF CopyInv, Good
  <2>2. ASSUME gen.status = "APPROVED", policy.dual
        PROVE  \E a, b \in acts : a[1] # b[1]
    <3>1. <<gen.approver[1], 1>> \in acts /\ <<gen.approver[2], 2>> \in acts
      BY <2>1, <2>2 DEF Own, Sound, Slots
    <3>2. gen.approver[1] \in User
      BY <3>1 DEF TInv, TypeOK
    <3>3. gen.approver[1] # gen.approver[2]
      BY <2>1, <3>2, PaymentAssumption DEF Own
    <3> QED
      BY <3>1, <3>3
  <2> QED
    BY <2>1, <2>2 DEF Own
<1>2. TInv /\ CopyInv /\ [Next]_vars => TInv' /\ CopyInv'
  BY TStep, CopyStep
<1> QED
  BY <1>1, <1>2, TInit, CopyInit, PTL DEF Spec

-----------------------------------------------------------------------------
(***************************************************************************)
(* Quotes                                                                  *)
(***************************************************************************)

\* A quote may be asked for.
Licensed == policy.exempt \/ withdrawn \/ Approved

\* A request for quotes was licensed when it was checked, and stays so.
LicenseInv ==
  /\ \A c \in Thread : req[c].kind = "rfq" => Licensed
  /\ QuotedApproved

\* What the check lets pass is licensed.
LEMMA PassesLicensed ==
  ASSUME TInv, CopyInv, NoApprovalNeededNow
  PROVE  Licensed
<1>1. CASE gen.status \in {"DRAFT", "PENDAUTH"}
  BY <1>1 DEF NoApprovalNeededNow, Licensed
<1>2. CASE gen.status \in {"CANCELED", "DELETED"}
  BY <1>2 DEF CopyInv, Good, Licensed
<1>3. CASE gen.status = "APPROVED"
  <2>1. \A i \in Slots : i = 1 \/ policy.dual => For(i, acts)
    BY <1>3 DEF CopyInv, Good, Sound, Slots
  <2> QED
    BY <2>1 DEF Licensed, Approved, For
<1> QED
  BY <1>1, <1>2, <1>3 DEF TInv, TypeOK, Generator, GenStatus

\* No step takes a licence away.
LEMMA LicenseKept ==
  ASSUME Licensed, policy' = policy, acts \subseteq acts', withdrawn => withdrawn'
  PROVE  Licensed'
  BY DEF Licensed, Approved

LEMMA StepGrows ==
  ASSUME [Next]_vars
  PROVE  policy' = policy /\ acts \subseteq acts' /\ (withdrawn => withdrawn')
<1>1. ASSUME NEW c \in Thread, Work(c)
      PROVE  policy' = policy /\ acts \subseteq acts' /\ (withdrawn => withdrawn')
  <2>1. CASE BeginUnchecked(c) \/ BeginApprove(c) \/ BeginRfq(c) \/ BeginDelete(c)
    BY <2>1 DEF BeginUnchecked, BeginApprove, BeginRfq, BeginDelete
  <2>2. CASE CommitRequest(c) \/ CommitApproval(c) \/ ApproveAndExecute(c)
    BY <2>2 DEF CommitRequest, CommitApproval, ApproveAndExecute, history
  <2>3. CASE CommitExecute(c)
    BY <2>3 DEF CommitExecute, ExecuteQuotes, ExecuteDirectly, ExecuteRaises, CommitBoth
  <2>4. CASE CommitRfq(c) \/ CommitRequote(c) \/ CommitUpdate(c) \/ CommitDelete(c) \/ DropRequest(c)
    BY <2>4 DEF CommitRfq, CommitRequote, CommitUpdate, CommitDelete, DropRequest, history
  <2> QED
    BY <1>1, <2>1, <2>2, <2>3, <2>4 DEF Work
<1>2. CASE RunBulkTask
  BY <1>2 DEF RunBulkTask, history
<1>3. ASSUME NEW k \in DOMAIN tickets, RunTask(k) \/ OemsWork(k) \/ OemsCancel(k)
      PROVE  policy' = policy /\ acts \subseteq acts' /\ (withdrawn => withdrawn')
  BY <1>3 DEF RunTask, OemsWork, OemsCancel, OemsChange, history
<1>4. CASE UNCHANGED vars
  BY <1>4 DEF vars
<1> QED
  BY <1>1, <1>2, <1>3, <1>4 DEF Next

\* A request for quotes is one that passed the check just now, or was one before.
LEMMA RfqBegun ==
  ASSUME TInv, [Next]_vars, NEW c \in Thread, req'[c].kind = "rfq"
  PROVE  NoApprovalNeededNow \/ req[c].kind = "rfq"
<1>1. ASSUME NEW d \in Thread, Done(d)
      PROVE  req[c].kind = "rfq"
  BY <1>1, DoneOthers DEF Idle
<1>2. ASSUME req' = req
      PROVE  req[c].kind = "rfq"
  BY <1>2
<1>3. ASSUME NEW d \in Thread, NEW kind \in Kinds \ {"rfq"}, NEW user, Begin(d, kind, user)
      PROVE  req[c].kind = "rfq"
  <2>1. req'[c] = req[c] \/ req'[c] = Read(kind, user)
    BY <1>3 DEF Begin, TInv, TypeOK
  <2> QED
    BY <1>3, <2>1 DEF Read
<1>4. ASSUME NEW d \in Thread, Work(d)
      PROVE  NoApprovalNeededNow \/ req[c].kind = "rfq"
  <2>1. CASE BeginUnchecked(d) \/ BeginApprove(d) \/ BeginDelete(d)
    BY <1>3, <2>1 DEF BeginUnchecked, BeginApprove, BeginDelete, Kinds
  <2>2. CASE BeginRfq(d)
    BY <2>2 DEF BeginRfq
  <2>3. CASE CommitExecute(d)
    BY <1>1, <2>3 DEF CommitExecute, ExecuteQuotes, ExecuteDirectly, ExecuteRaises, CommitBoth
  <2>4. CASE CommitRequest(d) \/ CommitApproval(d) \/ CommitRfq(d) \/ CommitRequote(d)
             \/ CommitUpdate(d) \/ CommitDelete(d) \/ DropRequest(d)
    BY <1>1, <2>4 DEF CommitRequest, CommitApproval, CommitRfq, CommitRequote, CommitUpdate,
                      CommitDelete, DropRequest
  <2>5. CASE ApproveAndExecute(d)
    <3>1. req[d] \in Request
      BY <2>5, InRequest DEF ApproveAndExecute, Kinds, TInv
    <3>2. req'[c] = req[c] \/ req'[c].kind = "execute"
      BY <2>5, <3>1 DEF ApproveAndExecute, Approve, Request, TInv, TypeOK
    <3> QED
      BY <3>2
  <2> QED
    BY <1>4, <2>1, <2>2, <2>3, <2>4, <2>5 DEF Work
<1>5. CASE RunBulkTask \/ UNCHANGED vars
  BY <1>2, <1>5 DEF RunBulkTask, vars
<1>6. ASSUME NEW k \in DOMAIN tickets, RunTask(k) \/ OemsWork(k) \/ OemsCancel(k)
      PROVE  req[c].kind = "rfq"
  BY <1>2, <1>6 DEF RunTask, OemsWork, OemsCancel, OemsChange
<1> QED
  BY <1>4, <1>5, <1>6 DEF Next

AnyQuote(ts) == \E k \in DOMAIN ts : ts[k].stage \in {"quoted", "unquoted"}

\* Only a request for quotes makes the first quote.
LEMMA QuoteMade ==
  ASSUME TInv, [Next]_vars, AnyQuote(tickets')
  PROVE  AnyQuote(tickets) \/ \E c \in Thread : req[c].kind = "rfq"
<1>0. ASSUME DOMAIN tickets' = DOMAIN tickets,
             \A k \in DOMAIN tickets : \/ tickets'[k].stage = tickets[k].stage
                                       \/ tickets'[k].stage \notin {"quoted", "unquoted"}
      PROVE  AnyQuote(tickets)
  BY <1>0 DEF AnyQuote
<1>1. ASSUME NEW ks, NEW stage \in Stages \ {"quoted", "unquoted"}, tickets' = Put(ks, stage)
      PROVE  AnyQuote(tickets)
  <2>1. DOMAIN tickets' = DOMAIN tickets /\ DOMAIN tickets = 1..Len(tickets)
    BY <1>1 DEF Put, TInv, TypeOK
  <2>2. \A k \in DOMAIN tickets : tickets'[k].stage = IF k \in ks THEN stage ELSE tickets[k].stage
    BY <1>1, <2>1, PutType DEF TInv
  <2> QED
    BY <1>0, <1>1, <2>1, <2>2
<1>2. ASSUME CutOff
      PROVE  AnyQuote(tickets)
  <2>1. /\ DOMAIN tickets' = DOMAIN tickets
        /\ \A k \in DOMAIN tickets : tickets[k] \in TicketRow /\ tickets'[k] = [tickets[k] EXCEPT !.ours = FALSE]
    BY <1>2 DEF CutOff, TInv, TypeOK
  <2>2. \A k \in DOMAIN tickets : tickets'[k].stage = tickets[k].stage
    BY <2>1 DEF TicketRow
  <2> QED
    BY <1>0, <2>1, <2>2
<1>3. ASSUME NEW c \in Thread, NewTicket(c, "ordered")
      PROVE  AnyQuote(tickets)
  <2> DEFINE t == [stage |-> "ordered", ours |-> req[c].cash = CashFlow]
  <2>1. tickets' = Append(tickets, t) /\ t \in TicketRow /\ t.stage = "ordered"
    BY <1>3 DEF NewTicket, TicketRow, Stages
  <2>2. tickets \in Seq(TicketRow)
    BY DEF TInv, TypeOK
  <2> HIDE DEF t
  <2>3. \A k \in DOMAIN tickets' : (k \in DOMAIN tickets /\ tickets'[k] = tickets[k]) \/ tickets'[k] = t
    BY <2>1, <2>2
  <2> QED
    BY <2>1, <2>3 DEF AnyQuote
<1>4. ASSUME NEW c \in Thread, ExecuteQuotes(c)
      PROVE  AnyQuote(tickets)
  <2>1. PICK done \in SUBSET Quotes(c), failed \in SUBSET Quotes(c) :
          tickets' = [k \in DOMAIN tickets |->
                        IF k \in failed THEN [tickets[k] EXCEPT !.stage = "over"] ELSE Put(done, "ordered")[k]]
    BY <1>4 DEF ExecuteQuotes, Quotes
  <2>2. DOMAIN tickets' = DOMAIN tickets /\ DOMAIN tickets = 1..Len(tickets)
    BY <2>1 DEF TInv, TypeOK
  <2>3. \A k \in DOMAIN tickets :
          /\ tickets[k] \in TicketRow
          /\ Put(done, "ordered")[k].stage = IF k \in done THEN "ordered" ELSE tickets[k].stage
    BY <2>2, PutType DEF TInv, TypeOK, Stages
  <2>4. \A k \in DOMAIN tickets : tickets'[k].stage =
          IF k \in failed THEN "over" ELSE IF k \in done THEN "ordered" ELSE tickets[k].stage
    BY <2>1, <2>3 DEF TicketRow
  <2> QED
    BY <1>0, <2>2, <2>4
<1>5. ASSUME NEW c \in Thread, Work(c)
      PROVE  AnyQuote(tickets) \/ req[c].kind = "rfq"
  <2>1. CASE BeginUnchecked(c) \/ BeginApprove(c) \/ BeginRfq(c) \/ BeginDelete(c)
    BY <1>0, <2>1 DEF BeginUnchecked, BeginApprove, BeginRfq, BeginDelete, oems
  <2>2. CASE CommitRequest(c) \/ CommitApproval(c) \/ ApproveAndExecute(c) \/ DropRequest(c)
    BY <1>0, <2>2 DEF CommitRequest, CommitApproval, ApproveAndExecute, DropRequest, oems
  <2>3. CASE CommitExecute(c)
    BY <1>0, <1>3, <1>4, <2>3 DEF CommitExecute, ExecuteDirectly, ExecuteRaises, oems
  <2>4. CASE CommitRfq(c) \/ CommitRequote(c)
    BY <2>4 DEF CommitRfq, CommitRequote
  <2>5. CASE CommitUpdate(c) \/ CommitDelete(c)
    BY <1>0, <1>2, <2>5 DEF CommitUpdate, CommitDelete
  <2> QED
    BY <1>5, <2>1, <2>2, <2>3, <2>4, <2>5 DEF Work
<1>6. CASE RunBulkTask \/ UNCHANGED vars
  BY <1>0, <1>6 DEF RunBulkTask, vars, oems
<1>7. ASSUME NEW k \in DOMAIN tickets, RunTask(k) \/ OemsWork(k) \/ OemsCancel(k)
      PROVE  AnyQuote(tickets)
  BY <1>0, <1>1, <1>7 DEF RunTask, OemsWork, OemsCancel, OemsChange, Stages
<1> QED
  BY <1>5, <1>6, <1>7 DEF Next

LEMMA LicenseStep ==
  ASSUME TInv, CopyInv, LicenseInv, [Next]_vars
  PROVE  LicenseInv'
<1>1. Licensed => Licensed'
  BY StepGrows, LicenseKept
<1>2. ASSUME NEW c \in Thread, req'[c].kind = "rfq" PROVE Licensed'
  BY <1>1, <1>2, RfqBegun, PassesLicensed DEF LicenseInv
<1>3. AnyQuote(tickets') => Licensed'
  BY <1>1, QuoteMade DEF LicenseInv, QuotedApproved, AnyQuote, Licensed
<1> QED
  BY <1>2, <1>3 DEF LicenseInv, QuotedApproved, AnyQuote, Licensed

\* No broker is asked for a quote before the approvals were given, however the check of a
\* request, the approvals and the quote are interleaved.
THEOREM PaymentQuotedApproved == Spec => []QuotedApproved
<1>1. Init => LicenseInv
  BY DEF Init, LicenseInv, QuotedApproved, Idle
<1>2. TInv /\ CopyInv /\ LicenseInv /\ [Next]_vars => TInv' /\ CopyInv' /\ LicenseInv'
  BY TStep, CopyStep, LicenseStep
<1>3. LicenseInv => QuotedApproved
  BY DEF LicenseInv
<1> QED
  BY <1>1, <1>2, <1>3, TInit, CopyInit, PTL DEF Spec

-----------------------------------------------------------------------------
(***************************************************************************)
(* Cancellations                                                           *)
(***************************************************************************)

\* A payment saved as CANCELED leaves a task behind.
LEMMA CanceledSaved ==
  ASSUME NEW p, SavePayment(p), pay'.payment_status = "CANCELED"
  PROVE  0 \in chores'
  BY DEF SavePayment, ChoresOf

\* Nothing but that makes a payment CANCELED, no ticket of a CANCELED payment is ordered,
\* and a task runs only when it has done its part.
LEMMA UnderwayStep ==
  ASSUME TInv, CancelUnderway, [Next]_vars
  PROVE  CancelUnderway'
<1>0. SUFFICES ASSUME NEW k \in DOMAIN tickets', pay'.payment_status = "CANCELED", Linked(k)',
                      tickets'[k].stage = "ordered"
               PROVE  k \in asked' \/ chores' \cap {0, k} # {}
  BY DEF CancelUnderway
<1>1. CASE 0 \in chores'
  BY <1>1
<1>2. ASSUME pay' = pay, flow' = flow, k \in DOMAIN tickets, tickets[k].stage = "ordered",
             asked \subseteq asked', chores \subseteq chores'
      PROVE  k \in asked' \/ chores' \cap {0, k} # {}
  BY <1>0, <1>2 DEF CancelUnderway, Linked
<1>3. ASSUME NEW c \in Thread, Work(c)
      PROVE  k \in asked' \/ chores' \cap {0, k} # {}
  <2>1. CASE BeginUnchecked(c) \/ BeginApprove(c) \/ BeginRfq(c) \/ BeginDelete(c)
    BY <1>0, <1>2, <2>1 DEF BeginUnchecked, BeginApprove, BeginRfq, BeginDelete, rows, oems
  <2>2. CASE CommitRequest(c) \/ CommitApproval(c)
    BY <1>0, <1>1, <2>2, CanceledSaved DEF CommitRequest, CommitApproval
  <2>3. CASE ApproveAndExecute(c) \/ DropRequest(c)
    BY <1>0, <1>2, <2>3 DEF ApproveAndExecute, DropRequest, rows, oems, history
  <2>4. CASE CommitExecute(c)
    BY <1>1, <2>4, <1>0 DEF CommitExecute, ExecuteQuotes, ExecuteDirectly, ExecuteRaises, CommitBoth, ChoresOf
  <2>5. CASE CommitRfq(c)
    <3>1. PICK stage \in {"quoted", "unquoted"} : NewTicket(c, stage)
      BY <2>5 DEF CommitRfq
    <3> DEFINE t == [stage |-> stage, ours |-> req[c].cash = CashFlow]
    <3>2. tickets' = Append(tickets, t) /\ t \in TicketRow /\ t.stage # "ordered"
      BY <3>1 DEF NewTicket, TicketRow, Stages
    <3>3. tickets \in Seq(TicketRow) /\ flow \in [there : BOOLEAN, id : Nat \ {0}, ticket : 0..Len(tickets)]
      BY DEF TInv, TypeOK
    <3> HIDE DEF t
    <3>4. k \in DOMAIN tickets /\ tickets'[k] = tickets[k] /\ k # Len(tickets) + 1
      BY <1>0, <3>2, <3>3
    <3>5. flow'.ticket = flow.ticket
      BY <1>0, <3>1, <3>3, <3>4 DEF NewTicket, Linked
    <3> QED
      BY <1>0, <2>5, <3>4, <3>5 DEF CommitRfq, CancelUnderway, Linked, rows
  <2>6. CASE CommitRequote(c)
    <3>1. PICK q \in Ours(req[c].seen) : Requoted(q)
      BY <2>6 DEF CommitRequote
    <3>2. CASE UNCHANGED <<pay, chores>>
      <4>1. k \in DOMAIN tickets /\ tickets[k].stage = "ordered"
        <5>1. CASE UNCHANGED tickets
          BY <1>0, <5>1
        <5>2. ASSUME NEW stage \in {"quoted", "unquoted"}, tickets' = Put({q}, stage)
              PROVE  k \in DOMAIN tickets /\ tickets[k].stage = "ordered"
          BY <1>0, <5>2 DEF Put
        <5> QED
          BY <3>1, <5>1, <5>2 DEF Requoted
      <4> QED
        BY <1>2, <2>6, <3>2, <4>1 DEF CommitRequote
    <3>3. CASE \E p : SavePayment(p)
      BY <1>0, <1>1, <3>3, CanceledSaved
    <3> QED
      BY <3>1, <3>2, <3>3 DEF Requoted
  <2>7. CASE CommitUpdate(c)
    BY <1>0, <1>1, <2>7 DEF CommitUpdate, ChoresOf
  <2>8. CASE CommitDelete(c)
    <3>1. CASE req[c].pay.payment_status = "DRAFTING"
      <4>1. pay' = [pay EXCEPT !.payment_status = "DELETED"]
        BY <2>8, <3>1 DEF CommitDelete
      <4> QED
        BY <1>0, <4>1 DEF TInv, TypeOK, PaymentRow
    <3>2. CASE req[c].pay.payment_status # "DRAFTING"
      BY <1>0, <1>1, <2>8, <3>2, CanceledSaved DEF CommitDelete
    <3> QED
      BY <3>1, <3>2
  <2> QED
    BY <1>3, <2>1, <2>2, <2>3, <2>4, <2>5, <2>6, <2>7, <2>8 DEF Work
<1>4. CASE RunBulkTask
  <2>1. k \in LinkedTicket
    BY <1>0, <1>4 DEF RunBulkTask, Linked, LinkedTicket
  <2> QED
    BY <1>4, <2>1 DEF RunBulkTask
<1>5. ASSUME NEW q \in DOMAIN tickets, RunTask(q)
      PROVE  k \in asked' \/ chores' \cap {0, k} # {}
  <2>1. k \in asked \/ chores \cap {0, k} # {}
    BY <1>0, <1>5 DEF RunTask, CancelUnderway, Linked, rows
  <2>2. 0 # q
    BY DEF TInv, TypeOK
  <2> QED
    BY <1>5, <2>1, <2>2 DEF RunTask
<1>6. ASSUME NEW q \in DOMAIN tickets, NEW stage \in Stages, NEW status, OemsChange(q, {"ordered"}, stage, status)
                                       \/ OemsChange(q, {"ordered", "dealt"}, "dealt", status)
      PROVE  k \in asked' \/ chores' \cap {0, k} # {}
  <2>1. CASE UNCHANGED <<pay, chores>>
    <3>1. k \in DOMAIN tickets /\ tickets[k].stage = "ordered"
      <4>1. PICK s : tickets' = Put({q}, s) /\ (s = "ordered" => tickets[q].stage = "ordered")
        BY <1>6 DEF OemsChange
      <4> QED
        BY <1>0, <4>1, PutType DEF Put, TInv, TypeOK, TicketRow
    <3> QED
      BY <1>2, <1>6, <2>1, <3>1 DEF OemsChange, history
  <2>2. CASE \E p : SavePayment(p)
    BY <1>0, <1>1, <2>2, CanceledSaved
  <2> QED
    BY <1>6, <2>1, <2>2 DEF OemsChange, Report
<1>7. ASSUME NEW q \in DOMAIN tickets, OemsWork(q)
      PROVE  k \in asked' \/ chores' \cap {0, k} # {}
  BY <1>6, <1>7 DEF OemsWork, Stages
<1>8. ASSUME NEW q \in DOMAIN tickets, OemsCancel(q)
      PROVE  k \in asked' \/ chores' \cap {0, k} # {}
  <2>1. CASE UNCHANGED <<policy, rows, flow, tickets, req, lock, chores, history>>
    BY <1>0, <1>2, <2>1 DEF rows, history
  <2> QED
    BY <1>6, <1>8, <2>1 DEF OemsCancel, Stages
<1>9. CASE UNCHANGED vars
  BY <1>0, <1>2, <1>9 DEF vars
<1> QED
  BY <1>3, <1>4, <1>5, <1>7, <1>8, <1>9 DEF Next

\* A ticket on order of a canceled payment has been asked to cancel, or will be, whatever
\* the requests and the OEMS save of the payment in between.
THEOREM PaymentCancelUnderway == Spec => []CancelUnderway
<1>1. Init => CancelUnderway
  BY DEF Init, CancelUnderway
<1>2. TInv /\ CancelUnderway /\ [Next]_vars => TInv' /\ CancelUnderway'
  BY TStep, UnderwayStep
<1> QED
  BY <1>1, <1>2, TInit, PTL DEF Spec

=============================================================================

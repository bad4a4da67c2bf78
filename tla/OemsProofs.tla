----------------------------- MODULE OemsProofs -----------------------------
(***************************************************************************)
(* Proofs about Oems, for any tickets, clients and bounds.                 *)
(***************************************************************************)
EXTENDS Oems, TLAPS

-----------------------------------------------------------------------------
(***************************************************************************)
(* What the operators on ticket records return.                            *)
(***************************************************************************)

\* The value that stands for no ticket is a record of the right kind.
LEMMA NoTicketType == NoTicket \in TicketRec /\ ~Exists(NoTicket)
  BY DEF NoTicket, TicketRec, InternalStates, ExternalStates, Phases, Actions, Exists

\* A column-wise save of two copies gives a ticket.
LEMMA SavedType ==
  ASSUME NEW was \in TicketRec, NEW now \in TicketRec, NEW r \in TicketRec
  PROVE  Saved(was, now, r) \in TicketRec
  BY DEF Saved, Dirty, TicketRec

\* Giving a ticket up leaves a ticket, and sends nothing.
LEMMA RemoveType ==
  ASSUME NEW tk \in TicketRec
  PROVE  Remove(tk).tk \in TicketRec /\ Remove(tk).keep \in BOOLEAN /\ Remove(tk).send = FALSE
  BY DEF Remove, Stay, TicketRec, ExternalStates

\* check_accepted leaves a ticket, ACCEPTED as it was when it was sent.
LEMMA DispatchType ==
  ASSUME NEW t, NEW tk \in TicketRec
  PROVE  /\ Dispatch(t, tk).tk \in TicketRec
         /\ Dispatch(t, tk).keep \in BOOLEAN
         /\ Dispatch(t, tk).send \in BOOLEAN
         /\ Dispatch(t, tk).send => Dispatch(t, tk).tk.internal_state = tk.internal_state
  BY DEF Dispatch, Stay, TicketRec, Phases, InternalStates

\* So does the walk through the pre-trade checks.
LEMMA AdvanceType ==
  ASSUME NEW t, NEW tk \in TicketRec, NEW s \in Rests(tk)
  PROVE  /\ Advance(t, tk, s).tk \in TicketRec
         /\ Advance(t, tk, s).keep \in BOOLEAN
         /\ Advance(t, tk, s).send \in BOOLEAN
         /\ Advance(t, tk, s).send => Advance(t, tk, s).tk.internal_state = "ACCEPTED"
<1>1. s \in InternalStates
  BY DEF Rests, InternalStates
<1>2. [tk EXCEPT !.internal_state = s] \in TicketRec
  BY <1>1 DEF TicketRec
<1>3. CASE s = "ACCEPTED"
  <2>1. [tk EXCEPT !.internal_state = s].internal_state = "ACCEPTED"
    BY <1>3 DEF TicketRec
  <2> QED
    BY <1>2, <1>3, <2>1, DispatchType DEF Advance
<1>4. CASE s # "ACCEPTED"
  BY <1>2, <1>4 DEF Advance, Stay
<1> QED
  BY <1>3, <1>4

\* check_filled leaves a ticket, and sends nothing.
LEMMA SettlingType ==
  ASSUME NEW tk \in TicketRec, NEW s \in {"PENDSETTLE", "PENDBENE", "BOOKING_FAILURE"}
  PROVE  Settling(tk, s).tk \in TicketRec /\ Settling(tk, s).keep = TRUE /\ Settling(tk, s).send = FALSE
  BY ZenonT(60) DEF Settling, Stay, TicketRec, InternalStates, ExternalStates, Phases

\* A pass of the OMS ends with a ticket, and sends only an ACCEPTED one.
LEMMA CycleType ==
  ASSUME NEW t, NEW tk \in TicketRec, NEW o \in Cycle(t, tk)
  PROVE  /\ o.tk \in TicketRec
         /\ o.keep \in BOOLEAN
         /\ o.send \in BOOLEAN
         /\ o.send => o.tk.internal_state = "ACCEPTED"
<1>1. CASE Expired(t, tk)
  <2>1. Cancelled(tk) \in TicketRec
    BY DEF Cancelled, TicketRec, InternalStates
  <2> QED
    BY <1>1, <2>1, RemoveType DEF Cycle
<1>2. CASE ~Expired(t, tk)
  <2>1. CASE tk.internal_state \in Chain /\ ~tk.paused
    BY <1>2, <2>1, AdvanceType DEF Cycle
  <2>2. CASE tk.internal_state = "ACCEPTED"
    BY <1>2, <2>2, DispatchType DEF Cycle, Chain
  <2>3. CASE tk.internal_state \in SettlementStates
    <3>1. o \in {Settling(tk, s) : s \in {"PENDSETTLE", "PENDBENE", "BOOKING_FAILURE"}}
      BY <1>2, <2>3 DEF Cycle, Chain, SettlementStates
    <3>2. PICK s \in {"PENDSETTLE", "PENDBENE", "BOOKING_FAILURE"} : o = Settling(tk, s)
      BY <3>1
    <3>3. o.tk \in TicketRec /\ o.keep = TRUE /\ o.send = FALSE
      BY <3>2, SettlingType
    <3> QED
      BY <3>3
  <2>4. CASE tk.internal_state \in OmsTerminal /\ ~Lingers(t, tk)
    BY <1>2, <2>4, RemoveType DEF Cycle, Chain, SettlementStates, OmsTerminal
  <2>5. CASE /\ ~(tk.internal_state \in Chain /\ ~tk.paused)
             /\ tk.internal_state # "ACCEPTED"
             /\ tk.internal_state \notin SettlementStates
             /\ ~(tk.internal_state \in OmsTerminal /\ ~Lingers(t, tk))
    <3>1. o = Stay(tk)
      BY <1>2, <2>5 DEF Cycle
    <3> QED
      BY <3>1 DEF Stay
  <2> QED
    BY <2>1, <2>2, <2>3, <2>4, <2>5
<1> QED
  BY <1>1, <1>2
-----------------------------------------------------------------------------
(***************************************************************************)
(* Type correctness.  Only ACCEPTED tickets are sent to the EMS, which the *)
(* proofs about deals need of the messages.                                *)
(***************************************************************************)
Dispatched == [t : Ticket, tk : {tk \in TicketRec : tk.internal_state = "ACCEPTED"}]

Typed == TypeOK /\ emsQ \in Seq(Dispatched)

\* A message appended to a topic, or taken from it, leaves a topic.
LEMMA QueueType ==
  ASSUME NEW S, NEW q \in Seq(S)
  PROVE  /\ q # <<>> => Head(q) \in S /\ Tail(q) \in Seq(S)
         /\ \A e \in S : Append(q, e) \in Seq(S)
  OBVIOUS

\* What the OMS sends is what the EMS reads.
LEMMA DispatchedType == Dispatched \subseteq EmsMsg
  BY DEF Dispatched, EmsMsg

\* A ticket an API call creates is of its kind.
LEMMA NewTicketType ==
  ASSUME NEW action \in Actions, NEW state \in InternalStates, NEW auth \in BOOLEAN, NEW quote \in BOOLEAN
  PROVE  NewTicket(action, state, auth, quote) \in TicketRec
  BY ZenonT(60) DEF NewTicket, NoTicket, TicketRec, InternalStates, ExternalStates, Phases, Actions

\* A ticket an API call executes is of its kind.
LEMMA ExecutingType ==
  ASSUME NEW tk \in TicketRec, NEW state \in InternalStates
  PROVE  Executing(tk, state) \in TicketRec
  BY DEF Executing, TicketRec, Actions

\* A ticket that was quoted, or failed to be, is of its kind.
LEMMA QuoteType ==
  ASSUME NEW tk \in TicketRec
  PROVE  Requoted(tk) \in TicketRec /\ Unquoted(tk) \in TicketRec
  BY ZenonT(60) DEF Requoted, Unquoted, TicketRec, InternalStates, ExternalStates, Phases

\* An API thread that holds a ticket holds a ticket of its kind.
LEMMA ReqType ==
  ASSUME TypeOK, NEW c \in Client, req[c] # NoReq
  PROVE  req[c] \in Reading /\ req[c].t \in Ticket /\ req[c].tk \in TicketRec
  BY DEF TypeOK, Reading

\* What do_execute_rfq saves and enqueues is of its kind.
LEMMA ExecutionType ==
  ASSUME TypeOK, NEW c \in Client, req[c] # NoReq
  PROVE  Execution(c) \in TicketRec
<1>1. Executing(req[c].tk, "ACCEPTED") \in TicketRec
  BY ReqType, ExecutingType DEF InternalStates
<1> QED
  BY <1>1 DEF Execution, TicketRec, ExternalStates, Phases

\* A save of an API thread's copy keeps the table and the threads typed.
LEMMA SaveRequestType ==
  ASSUME TypeOK, NEW c \in Client, NEW op, NEW tk \in TicketRec, SaveRequest(c, op, tk)
  PROVE  /\ req[c] # NoReq
         /\ row' \in [Ticket -> TicketRec]
         /\ overwrites' \in [Ticket -> Nat]
         /\ req' \in [Client -> Reading \cup {NoReq}]
<1>1. req[c] # NoReq /\ req[c] \in Reading
  BY ReqType DEF SaveRequest
<1>2. row' \in [Ticket -> TicketRec]
  BY DEF SaveRequest, TypeOK
<1>3. overwrites' \in [Ticket -> Nat]
  <2>1. PICK n \in Nat : overwrites' = [overwrites EXCEPT ![req[c].t] = @ + n]
    BY DEF SaveRequest
  <2>2. overwrites \in [Ticket -> Nat]
    BY DEF TypeOK
  <2>3. \A t \in Ticket : overwrites[t] + n \in Nat
    BY <2>2
  <2> QED
    BY <2>1, <2>2, <2>3
<1>4. req' \in [Client -> Reading \cup {NoReq}]
  BY ReqType DEF SaveRequest, TypeOK
<1> QED
  BY <1>1, <1>2, <1>3, <1>4

\* Every step of an API call keeps every variable of its kind.
LEMMA ApiTyped ==
  ASSUME Typed, ApiNext
  PROVE  Typed'
<1> USE DEF Typed, TypeOK, envVars, countVars, dbVars
<1>1. ASSUME NEW t \in Ticket, CreateExecute(t)
      PROVE  Typed'
  <2>1. PICK state \in {"NEW", "DRAFT"}, auth \in BOOLEAN :
          LET tk == NewTicket("execute", state, auth, FALSE) IN
          /\ row' = [row EXCEPT ![t] = tk]
          /\ apiQ' = Append(apiQ, [t |-> t, op |-> "CREATE", tk |-> tk])
    BY <1>1 DEF CreateExecute
  <2>2. NewTicket("execute", state, auth, FALSE) \in TicketRec
    BY NewTicketType DEF InternalStates, Actions
  <2>3. [t |-> t, op |-> "CREATE", tk |-> NewTicket("execute", state, auth, FALSE)] \in ApiMsg
    BY <2>2 DEF ApiMsg
  <2>4. row' \in [Ticket -> TicketRec] /\ apiQ' \in Seq(ApiMsg)
    BY <2>1, <2>2, <2>3, QueueType
  <2> QED
    BY <1>1, <2>4 DEF CreateExecute
<1>2. ASSUME NEW t \in Ticket, CreateRfq(t)
      PROVE  Typed'
  <2>1. \A state \in {"NEW", "FAILED"} : NewTicket("rfq", state, FALSE, FALSE) \in TicketRec
    BY NewTicketType DEF InternalStates, Actions
  <2>2. Requoted(NewTicket("rfq", "NEW", FALSE, FALSE)) \in TicketRec
    BY <2>1, QuoteType
  <2>3. PICK tk \in TicketRec : row' = [row EXCEPT ![t] = tk]
    BY <1>2, <2>1, <2>2 DEF CreateRfq
  <2> QED
    BY <1>2, <2>3 DEF CreateRfq
<1>3. ASSUME NEW t \in Ticket, NEW op \in ControlOps, RequestControl(t, op)
      PROVE  Typed'
  <2>1. [t |-> t, op |-> op, tk |-> NoTicket] \in ApiMsg
    BY NoTicketType DEF ApiMsg
  <2>2. apiQ' \in Seq(ApiMsg) /\ asks' \in [Ticket -> Nat]
    BY <1>3, <2>1, QueueType DEF RequestControl
  <2> QED
    BY <1>3, <2>2 DEF RequestControl
<1>4. ASSUME NEW c \in Client, CommitExecute(c)
      PROVE  Typed'
  <2>1. req[c] # NoReq
    BY <1>4 DEF CommitExecute, SaveRequest
  <2>2. Execution(c) \in TicketRec /\ req[c].t \in Ticket
    BY <2>1, ExecutionType, ReqType
  <2>3. [t |-> req[c].t, op |-> "EXECUTE_RFQ", tk |-> Execution(c)] \in ApiMsg
    BY <2>2 DEF ApiMsg
  <2>4. apiQ' \in Seq(ApiMsg)
    BY <1>4, <2>3, QueueType DEF CommitExecute
  <2> QED
    BY <1>4, <2>2, <2>4, SaveRequestType DEF CommitExecute
<1>5. ASSUME NEW c \in Client, RefuseExecute(c)
      PROVE  Typed'
  <2>1. req[c] # NoReq
    BY <1>5 DEF RefuseExecute, SaveRequest
  <2>2. Executing(req[c].tk, "FAILED") \in TicketRec
    BY <2>1, ExecutingType, ReqType DEF InternalStates
  <2> QED
    BY <1>5, <2>2, SaveRequestType DEF RefuseExecute
<1>6. ASSUME NEW c \in Client, CommitRefresh(c)
      PROVE  Typed'
  <2>1. req[c] # NoReq
    BY <1>6 DEF CommitRefresh, SaveRequest
  <2>2. Requoted(req[c].tk) \in TicketRec /\ Unquoted(req[c].tk) \in TicketRec
    BY <2>1, ReqType, QuoteType
  <2>3. /\ row' \in [Ticket -> TicketRec]
        /\ overwrites' \in [Ticket -> Nat]
        /\ req' \in [Client -> Reading \cup {NoReq}]
        /\ lapsed' \in [Ticket -> BOOLEAN]
    BY <1>6, <2>1, <2>2, ReqType, SaveRequestType DEF CommitRefresh
  <2> QED
    BY <1>6, <2>3 DEF CommitRefresh
<1>7. ASSUME NEW c \in Client, DropRequest(c)
      PROVE  Typed'
  BY <1>7 DEF DropRequest
<1>8. ASSUME NEW c \in Client, NEW t \in Ticket, ReadQuoted(c, t)
      PROVE  Typed'
  <2>1. [t |-> t, op |-> "EXECUTE_RFQ", tk |-> row[t]] \in Reading
    BY DEF Reading
  <2>2. req' \in [Client -> Reading \cup {NoReq}]
    BY <1>8, <2>1 DEF ReadQuoted
  <2>3. asks' \in [Ticket -> Nat]
    BY <1>8 DEF ReadQuoted
  <2>4. UNCHANGED <<row, apiQ, emsQ, notes, oms, ems, job, ended, lapsed, admitted, sent, taken,
                    booked, overwrites, restarts>>
    BY <1>8 DEF ReadQuoted
  <2> QED
    BY <2>2, <2>3, <2>4
<1>9. ASSUME NEW c \in Client, NEW t \in Ticket, ReadToRefresh(c, t)
      PROVE  Typed'
  <2>1. [t |-> t, op |-> "REFRESH", tk |-> row[t]] \in Reading
    BY DEF Reading
  <2>2. req' \in [Client -> Reading \cup {NoReq}]
    BY <1>9, <2>1 DEF ReadToRefresh
  <2>3. asks' \in [Ticket -> Nat]
    BY <1>9 DEF ReadToRefresh
  <2>4. UNCHANGED <<row, apiQ, emsQ, notes, oms, ems, job, ended, lapsed, admitted, sent, taken,
                    booked, overwrites, restarts>>
    BY <1>9 DEF ReadToRefresh
  <2> QED
    BY <2>2, <2>3, <2>4
<1> QED
  BY <1>1, <1>2, <1>3, <1>4, <1>5, <1>6, <1>7, <1>8, <1>9 DEF ApiNext

\* What a pass of the OMS saves, keeps and sends is of its kind.
LEMMA CommitTyped ==
  ASSUME Typed, NEW t \in Ticket, NEW r \in TicketRec, NEW was \in TicketRec, NEW o,
         o.tk \in TicketRec, o.keep \in BOOLEAN, o.send \in BOOLEAN,
         o.send => o.tk.internal_state = "ACCEPTED",
         Commit(t, r, was, o)
  PROVE  /\ row' \in [Ticket -> TicketRec]
         /\ oms' \in [Ticket -> TicketRec]
         /\ emsQ' \in Seq(EmsMsg) /\ emsQ' \in Seq(Dispatched)
         /\ sent' \in [Ticket -> Nat]
<1>1. row' \in [Ticket -> TicketRec]
  BY SavedType DEF Commit, Typed, TypeOK
<1>2. oms' \in [Ticket -> TicketRec]
  BY NoTicketType DEF Commit, Typed, TypeOK
<1>3. sent' \in [Ticket -> Nat]
  BY DEF Commit, Typed, TypeOK
<1>4. emsQ' \in Seq(EmsMsg) /\ emsQ' \in Seq(Dispatched)
  <2>1. CASE o.send
    <3> DEFINE tk == [o.tk EXCEPT !.phase = was.phase]
    <3>1. tk \in TicketRec /\ tk.internal_state = "ACCEPTED"
      BY <2>1 DEF TicketRec
    <3>2. emsQ' = Append(emsQ, [t |-> t, tk |-> tk])
      BY <2>1 DEF Commit
    <3> HIDE DEF tk
    <3>3. [t |-> t, tk |-> tk] \in Dispatched /\ [t |-> t, tk |-> tk] \in EmsMsg
      BY <3>1 DEF Dispatched, EmsMsg
    <3> QED
      BY <3>2, <3>3, QueueType DEF Typed, TypeOK
  <2>2. CASE ~o.send
    BY <2>2 DEF Commit, Typed, TypeOK
  <2> QED
    BY <2>1, <2>2
<1> QED
  BY <1>1, <1>2, <1>3, <1>4

\* The first request of the API topic is a request.
LEMMA ApiHeadType ==
  ASSUME Typed, apiQ # <<>>
  PROVE  /\ Head(apiQ).t \in Ticket /\ Head(apiQ).tk \in TicketRec
         /\ Tail(apiQ) \in Seq(ApiMsg)
<1>1. Head(apiQ) \in ApiMsg /\ Tail(apiQ) \in Seq(ApiMsg)
  BY QueueType DEF Typed, TypeOK
<1> QED
  BY <1>1 DEF ApiMsg

\* A ticket the OMS takes in is of its kind.
LEMMA AdmittedType ==
  ASSUME NEW m, m.tk \in TicketRec
  PROVE  Admitted(m) \in TicketRec
  BY ZenonT(60) DEF Admitted, TicketRec, InternalStates, ExternalStates, Phases

\* The row of such a ticket is of its kind.
LEMMA AdmittedRowType ==
  ASSUME Typed, NEW m, m.t \in Ticket, m.tk \in TicketRec
  PROVE  AdmittedRow(m) \in TicketRec
<1>1. row[m.t] \in TicketRec /\ Admitted(m) \in TicketRec
  BY AdmittedType DEF Typed, TypeOK
<1>2. Saved(m.tk, Admitted(m), row[m.t]) \in TicketRec
  BY <1>1, SavedType
<1> QED
  BY <1>2 DEF AdmittedRow, TicketRec

\* A ticket a control request has changed is of its kind.
LEMMA ControlledType ==
  ASSUME NEW op \in ControlOps \ {"CANCEL"}, NEW tk \in TicketRec
  PROVE  Controlled(op, tk) \in TicketRec
  BY ZenonT(60) DEF Controlled, ControlOps, TicketRec, InternalStates, ExternalStates

\* Every step of the OMS keeps every variable of its kind.
LEMMA OmsTyped ==
  ASSUME Typed, OmsNext
  PROVE  Typed'
<1> USE DEF envVars, countVars, dbVars
<1>1. CASE OmsAdmit
  <2> DEFINE m == Head(apiQ)
             tk == Admitted(m)
             r == AdmittedRow(m)
  <2>1. apiQ # <<>>
    BY <1>1 DEF OmsAdmit, Next1
  <2>2. m.t \in Ticket /\ m.tk \in TicketRec /\ tk \in TicketRec /\ Tail(apiQ) \in Seq(ApiMsg)
    BY <2>1, ApiHeadType, AdmittedType
  <2>3. r \in TicketRec
    BY <2>2, AdmittedRowType
  <2>4. PICK o \in Cycle(m.t, tk) : Commit(m.t, r, tk, o)
    BY <1>1 DEF OmsAdmit
  <2>5. admitted' \in [Ticket -> Nat]
    <3>1. admitted' = [admitted EXCEPT ![m.t] = @ + 1]
      BY <1>1 DEF OmsAdmit
    <3>2. admitted \in [Ticket -> Nat]
      BY DEF Typed, TypeOK
    <3> QED
      BY <2>2, <3>1, <3>2
  <2> HIDE DEF m, tk, r
  <2>6. /\ row' \in [Ticket -> TicketRec]
        /\ oms' \in [Ticket -> TicketRec]
        /\ emsQ' \in Seq(EmsMsg) /\ emsQ' \in Seq(Dispatched)
        /\ sent' \in [Ticket -> Nat]
    BY <2>2, <2>3, <2>4, CycleType, CommitTyped
  <2> QED
    BY <1>1, <2>2, <2>5, <2>6 DEF OmsAdmit, Typed, TypeOK
<1>2. CASE OmsCancel
  <2> DEFINE t == Head(apiQ).t
             tk == IF oms[t].ems_owner THEN [oms[t] EXCEPT !.external_state = "PENDCANCEL"]
                                       ELSE Cancelled(oms[t])
             r == Saved(oms[t], tk, row[t])
  <2>1. t \in Ticket /\ Tail(apiQ) \in Seq(ApiMsg)
    BY <1>2, ApiHeadType DEF OmsCancel, Next1
  <2>2. oms[t] \in TicketRec /\ row[t] \in TicketRec
    BY <2>1 DEF Typed, TypeOK
  <2>3. PICK o \in Cycle(t, tk) : Commit(t, r, tk, o)
    BY <1>2 DEF OmsCancel
  <2> HIDE DEF t
  <2>4. tk \in TicketRec
    BY <2>2 DEF Cancelled, TicketRec, InternalStates, ExternalStates
  <2> HIDE DEF tk
  <2>5. r \in TicketRec
    BY <2>2, <2>4, SavedType
  <2> HIDE DEF r
  <2>6. /\ row' \in [Ticket -> TicketRec]
        /\ oms' \in [Ticket -> TicketRec]
        /\ emsQ' \in Seq(EmsMsg) /\ emsQ' \in Seq(Dispatched)
        /\ sent' \in [Ticket -> Nat]
    BY <2>1, <2>3, <2>4, <2>5, CycleType, CommitTyped
  <2> QED
    BY <1>2, <2>1, <2>6 DEF OmsCancel, Typed, TypeOK
<1>3. ASSUME NEW op \in ControlOps \ {"CANCEL"}, OmsControl(op)
      PROVE  Typed'
  <2> DEFINE t == Head(apiQ).t
             o == Stay(Controlled(op, oms[t]))
  <2>1. t \in Ticket /\ Tail(apiQ) \in Seq(ApiMsg)
    BY <1>3, ApiHeadType DEF OmsControl, Next1
  <2>2. oms[t] \in TicketRec /\ row[t] \in TicketRec
    BY <2>1 DEF Typed, TypeOK
  <2>3. o.tk \in TicketRec /\ o.keep = TRUE /\ o.send = FALSE
    BY <2>2, ControlledType DEF Stay
  <2>4. Commit(t, row[t], oms[t], o)
    BY <1>3 DEF OmsControl
  <2> HIDE DEF t, o
  <2>5. /\ row' \in [Ticket -> TicketRec]
        /\ oms' \in [Ticket -> TicketRec]
        /\ emsQ' \in Seq(EmsMsg) /\ emsQ' \in Seq(Dispatched)
        /\ sent' \in [Ticket -> Nat]
    BY <2>1, <2>2, <2>3, <2>4, CommitTyped
  <2> QED
    BY <1>3, <2>1, <2>5 DEF OmsControl, Typed, TypeOK
<1>4. CASE OmsRefuse
  BY <1>4, ApiHeadType DEF OmsRefuse, Typed, TypeOK
<1>5. ASSUME NEW t \in Ticket, OmsReceive(t)
      PROVE  Typed'
  <2>1. notes' \in [Ticket -> Nat]
    BY <1>5 DEF OmsReceive, Typed, TypeOK
  <2>2. oms' \in [Ticket -> TicketRec]
    BY <1>5 DEF OmsReceive, Typed, TypeOK
  <2>3. UNCHANGED <<row, apiQ, emsQ, ems, job, req, ended, lapsed, asks, admitted, sent, taken,
                    booked, overwrites, restarts>>
    BY <1>5 DEF OmsReceive
  <2> QED
    BY <2>1, <2>2, <2>3 DEF Typed, TypeOK
<1>6. ASSUME NEW t \in Ticket, OmsCycle(t)
      PROVE  Typed'
  <2>1. oms[t] \in TicketRec /\ row[t] \in TicketRec
    BY DEF Typed, TypeOK
  <2>2. PICK o \in Cycle(t, oms[t]) : Commit(t, row[t], oms[t], o)
    BY <1>6 DEF OmsCycle
  <2>3. /\ row' \in [Ticket -> TicketRec]
        /\ oms' \in [Ticket -> TicketRec]
        /\ emsQ' \in Seq(EmsMsg) /\ emsQ' \in Seq(Dispatched)
        /\ sent' \in [Ticket -> Nat]
    BY <2>1, <2>2, CycleType, CommitTyped
  <2> QED
    BY <1>6, <2>3 DEF OmsCycle, Typed, TypeOK
<1> QED
  BY <1>1, <1>2, <1>3, <1>4, <1>5, <1>6 DEF OmsNext, OmsApi

\* A notification leaves a count of notifications.
LEMMA NotifyType ==
  ASSUME NEW n \in [Ticket -> Nat], NEW t \in Ticket, NEW tk
  PROVE  Notify(t, tk, n) \in [Ticket -> Nat]
  BY DEF Notify

\* A ticket that check_expiry let go of is of its kind.
LEMMA AfterExpiryType ==
  ASSUME NEW t, NEW tk \in TicketRec
  PROVE  AfterExpiry(t, tk) \in TicketRec
  BY ZenonT(60) DEF AfterExpiry, TicketRec, InternalStates

\* A ticket whose EMS owner is set or cleared is of its kind.
LEMMA OwnType ==
  ASSUME NEW tk \in TicketRec, NEW b \in BOOLEAN
  PROVE  /\ [tk EXCEPT !.ems_owner = b] \in TicketRec
         /\ [tk EXCEPT !.ems_owner = b].internal_state = tk.internal_state
  BY DEF TicketRec

\* The end of the work of the EMS on a ticket keeps every variable of its kind.
LEMMA FinishTyped ==
  ASSUME Typed, NEW t \in Ticket, NEW state \in InternalStates, Finish(t, state)
  PROVE  /\ row' \in [Ticket -> TicketRec]
         /\ ems' \in [Ticket -> TicketRec]
         /\ job' \in [Ticket -> Jobs]
         /\ notes' \in [Ticket -> Nat]
<1> DEFINE tk == [ems[t] EXCEPT !.internal_state = state]
           given == [tk EXCEPT !.ems_owner = FALSE]
<1>0. ems[t] \in TicketRec /\ row[t] \in TicketRec /\ notes \in [Ticket -> Nat]
  BY DEF Typed, TypeOK
<1>1. tk \in TicketRec
  BY <1>0 DEF TicketRec
<1>2. \/ UNCHANGED <<row, notes>>
      \/ row' = [row EXCEPT ![t] = Saved(ems[t], given, @)] /\ notes' = Notify(t, tk, notes)
  BY DEF Finish, Release
<1> HIDE DEF tk
<1>3. given \in TicketRec
  BY <1>1, OwnType
<1> HIDE DEF given
<1>4. row' \in [Ticket -> TicketRec] /\ notes' \in [Ticket -> Nat]
  <2>1. Saved(ems[t], given, row[t]) \in TicketRec /\ Notify(t, tk, notes) \in [Ticket -> Nat]
    BY <1>0, <1>3, SavedType, NotifyType
  <2> QED
    BY <1>2, <2>1 DEF Typed, TypeOK
<1>5. ems' \in [Ticket -> TicketRec] /\ job' \in [Ticket -> Jobs]
  BY NoTicketType DEF Finish, Typed, TypeOK, Jobs
<1> QED
  BY <1>4, <1>5

\* So does a failed call to the broker.
LEMMA FailTyped ==
  ASSUME Typed, NEW t \in Ticket, Fail(t)
  PROVE  /\ row' \in [Ticket -> TicketRec]
         /\ ems' \in [Ticket -> TicketRec]
         /\ job' \in [Ticket -> Jobs]
         /\ notes' \in [Ticket -> Nat]
<1>1. CASE Finish(t, "FAILED")
  BY <1>1, FinishTyped DEF InternalStates
<1>2. CASE /\ row' = [row EXCEPT ![t].internal_state = "FAILED"]
           /\ ems' = [ems EXCEPT ![t] = NoTicket]
           /\ job' = [job EXCEPT ![t] = "idle"]
           /\ UNCHANGED notes
  <2>1. row[t] \in TicketRec
    BY DEF Typed, TypeOK
  <2>2. [row[t] EXCEPT !.internal_state = "FAILED"] \in TicketRec
    BY <2>1 DEF TicketRec, InternalStates
  <2>3. row' = [row EXCEPT ![t] = [row[t] EXCEPT !.internal_state = "FAILED"]]
    BY <1>2
  <2>4. row' \in [Ticket -> TicketRec]
    BY <2>2, <2>3 DEF Typed, TypeOK
  <2> QED
    BY <1>2, <2>4, NoTicketType DEF Typed, TypeOK, Jobs
<1> QED
  BY <1>1, <1>2 DEF Fail

\* So does the start of do_accept.
LEMMA StartJobTyped ==
  ASSUME Typed, NEW t \in Ticket, NEW tk \in TicketRec, NEW r \in TicketRec,
         NEW n \in [Ticket -> Nat], StartJob(t, tk, r, n)
  PROVE  /\ row' \in [Ticket -> TicketRec]
         /\ ems' \in [Ticket -> TicketRec]
         /\ job' \in [Ticket -> Jobs]
         /\ notes' \in [Ticket -> Nat]
<1>1. AfterExpiry(t, tk) \in TicketRec /\ Saved(tk, AfterExpiry(t, tk), r) \in TicketRec
  BY AfterExpiryType, SavedType
<1> QED
  BY <1>1, NotifyType DEF StartJob, Typed, TypeOK, Jobs

\* The first message of the EMS topic is an ACCEPTED ticket.
LEMMA EmsHeadType ==
  ASSUME Typed, emsQ # <<>>
  PROVE  /\ Head(emsQ).t \in Ticket /\ Head(emsQ).tk \in TicketRec
         /\ Head(emsQ).tk.internal_state = "ACCEPTED"
         /\ Tail(emsQ) \in Seq(EmsMsg) /\ Tail(emsQ) \in Seq(Dispatched)
<1>1. Head(emsQ) \in Dispatched /\ Tail(emsQ) \in Seq(Dispatched) /\ Tail(emsQ) \in Seq(EmsMsg)
  BY QueueType DEF Typed, TypeOK
<1> QED
  BY <1>1 DEF Dispatched

\* Every step of the EMS keeps every variable of its kind.
LEMMA EmsTyped ==
  ASSUME Typed, EmsNext
  PROVE  Typed'
<1> USE DEF envVars, countVars, dbVars
<1>1. CASE EmsTake
  <2> DEFINE t == Head(emsQ).t
             was == Head(emsQ).tk
             tk == [was EXCEPT !.ems_owner = TRUE]
             r == Saved(was, tk, row[t])
  <2>1. t \in Ticket /\ was \in TicketRec /\ Tail(emsQ) \in Seq(EmsMsg) /\ Tail(emsQ) \in Seq(Dispatched)
    BY <1>1, EmsHeadType DEF EmsTake
  <2>2. StartJob(t, tk, r, Notify(t, tk, notes)) /\ taken' = [taken EXCEPT ![t] = @ + 1]
    BY <1>1 DEF EmsTake
  <2> HIDE DEF t, was
  <2>3. tk \in TicketRec
    BY <2>1, OwnType
  <2> HIDE DEF tk
  <2>4. r \in TicketRec /\ Notify(t, tk, notes) \in [Ticket -> Nat]
    BY <2>1, <2>3, SavedType, NotifyType DEF Typed, TypeOK
  <2> HIDE DEF r
  <2>5. /\ row' \in [Ticket -> TicketRec]
        /\ ems' \in [Ticket -> TicketRec]
        /\ job' \in [Ticket -> Jobs]
        /\ notes' \in [Ticket -> Nat]
    BY <2>1, <2>2, <2>3, <2>4, StartJobTyped
  <2>6. taken' \in [Ticket -> Nat]
    BY <2>1, <2>2 DEF Typed, TypeOK
  <2> QED
    BY <1>1, <2>1, <2>5, <2>6 DEF EmsTake, t, Typed, TypeOK
<1>2. ASSUME NEW t \in Ticket, EmsResume(t)
      PROVE  Typed'
  <2>1. ems[t] \in TicketRec /\ row[t] \in TicketRec /\ notes \in [Ticket -> Nat]
    BY DEF Typed, TypeOK
  <2>2. /\ row' \in [Ticket -> TicketRec]
        /\ ems' \in [Ticket -> TicketRec]
        /\ job' \in [Ticket -> Jobs]
        /\ notes' \in [Ticket -> Nat]
    BY <1>2, <2>1, StartJobTyped DEF EmsResume
  <2> QED
    BY <1>2, <2>2 DEF EmsResume, Typed, TypeOK
<1>3. ASSUME NEW t \in Ticket, EmsLetGo(t)
      PROVE  Typed'
  <2>1. ems[t].internal_state \in InternalStates /\ "EXPIRED" \in InternalStates
    BY DEF Typed, TypeOK, TicketRec, InternalStates
  <2>2. /\ row' \in [Ticket -> TicketRec]
        /\ ems' \in [Ticket -> TicketRec]
        /\ job' \in [Ticket -> Jobs]
        /\ notes' \in [Ticket -> Nat]
    BY <1>3, <2>1, FinishTyped DEF EmsLetGo
  <2> QED
    BY <1>3, <2>2 DEF EmsLetGo, Typed, TypeOK
<1>4. ASSUME NEW t \in Ticket, EmsUseQuote(t)
      PROVE  Typed'
  BY <1>4 DEF EmsUseQuote, Typed, TypeOK, Jobs
<1>5. ASSUME NEW t \in Ticket, EmsQuoteGone(t)
      PROVE  Typed'
  <2>1. /\ row' \in [Ticket -> TicketRec]
        /\ ems' \in [Ticket -> TicketRec]
        /\ job' \in [Ticket -> Jobs]
        /\ notes' \in [Ticket -> Nat]
    BY <1>5, FinishTyped DEF EmsQuoteGone, InternalStates
  <2> QED
    BY <1>5, <2>1 DEF EmsQuoteGone, Typed, TypeOK
<1>6. ASSUME NEW t \in Ticket, EmsRequote(t)
      PROVE  Typed'
  <2> DEFINE tk == [ems[t] EXCEPT !.internal_state = "RFQ_DONE", !.quote_id = TRUE]
  <2>1. ems[t] \in TicketRec /\ row[t] \in TicketRec
    BY DEF Typed, TypeOK
  <2>2. tk \in TicketRec
    BY <2>1 DEF TicketRec, InternalStates
  <2>3. row' = [row EXCEPT ![t] = Saved(ems[t], tk, row[t])] /\ ems' = [ems EXCEPT ![t] = tk]
    BY <1>6 DEF EmsRequote
  <2> HIDE DEF tk
  <2>4. row' \in [Ticket -> TicketRec] /\ ems' \in [Ticket -> TicketRec]
    BY <2>1, <2>2, <2>3, SavedType DEF Typed, TypeOK
  <2> QED
    BY <1>6, <2>4 DEF EmsRequote, Typed, TypeOK, Jobs
<1>7. ASSUME NEW t \in Ticket, EmsRequoteFails(t) \/ EmsRefused(t) \/ EmsAnswerLost(t)
      PROVE  Typed'
  <2>1. /\ row' \in [Ticket -> TicketRec]
        /\ ems' \in [Ticket -> TicketRec]
        /\ job' \in [Ticket -> Jobs]
        /\ notes' \in [Ticket -> Nat]
    BY <1>7, FailTyped DEF EmsRequoteFails, EmsRefused, EmsAnswerLost
  <2>2. booked' \in [Ticket -> Nat]
    <3>1. booked' = booked \/ booked' = [booked EXCEPT ![t] = @ + 1]
      BY <1>7 DEF EmsRequoteFails, EmsRefused, EmsAnswerLost, Book
    <3>2. booked \in [Ticket -> Nat]
      BY DEF Typed, TypeOK
    <3> QED
      BY <3>1, <3>2
  <2>3. UNCHANGED <<apiQ, emsQ, oms, req, ended, lapsed, asks, admitted, sent, taken, overwrites, restarts>>
    BY <1>7 DEF EmsRequoteFails, EmsRefused, EmsAnswerLost
  <2> QED
    BY <2>1, <2>2, <2>3, SMTT(30) DEF Typed, TypeOK
<1>8. ASSUME NEW t \in Ticket, EmsFill(t)
      PROVE  Typed'
  <2>1. PICK outcome \in Outcomes(t) : Finish(t, outcome)
    BY <1>8 DEF EmsFill
  <2>5. outcome \in InternalStates
    BY DEF Outcomes, Typed, TypeOK, TicketRec, InternalStates
  <2>2. /\ row' \in [Ticket -> TicketRec]
        /\ ems' \in [Ticket -> TicketRec]
        /\ job' \in [Ticket -> Jobs]
        /\ notes' \in [Ticket -> Nat]
    BY <2>1, <2>5, FinishTyped
  <2>3. booked' \in [Ticket -> Nat]
    <3>1. booked' = [booked EXCEPT ![t] = @ + 1]
      BY <1>8 DEF EmsFill, Book
    <3>2. booked \in [Ticket -> Nat]
      BY DEF Typed, TypeOK
    <3> QED
      BY <3>1, <3>2
  <2>4. UNCHANGED <<apiQ, emsQ, oms, req, ended, lapsed, asks, admitted, sent, taken, overwrites, restarts>>
    BY <1>8 DEF EmsFill
  <2> QED
    BY <2>2, <2>3, <2>4 DEF Typed, TypeOK
<1> QED
  BY <1>1, <1>2, <1>3, <1>4, <1>5, <1>6, <1>7, <1>8 DEF EmsNext, EmsJob

\* What the OMS loads after a death is of its kind.
LEMMA OmsRestartTyped ==
  ASSUME Typed, OmsRestart, row' \in [Ticket -> TicketRec]
  PROVE  /\ oms' \in [Ticket -> TicketRec]
         /\ notes' \in [Ticket -> Nat]
         /\ restarts' \in Nat
         /\ UNCHANGED <<ems, job, req, ended, lapsed, asks, taken, booked, overwrites>>
  BY NoTicketType DEF OmsRestart, Die, envVars, Typed, TypeOK

\* What the EMS loads after a death is of its kind.
LEMMA EmsRestartTyped ==
  ASSUME Typed, EmsRestart, row' \in [Ticket -> TicketRec]
  PROVE  /\ ems' \in [Ticket -> TicketRec]
         /\ job' \in [Ticket -> Jobs]
         /\ restarts' \in Nat
         /\ UNCHANGED <<apiQ, oms, req, ended, lapsed, asks, admitted, sent, overwrites>>
  BY NoTicketType DEF EmsRestart, Die, envVars, Typed, TypeOK, Jobs

\* What a death between the CREATE and the save of the phase leaves.
LEMMA SentOnlyTyped ==
  ASSUME Typed, NEW t \in Ticket, NEW r \in TicketRec, NEW was \in TicketRec, SentOnly(t, r, was)
  PROVE  /\ row' \in [Ticket -> TicketRec]
         /\ emsQ' \in Seq(EmsMsg) /\ emsQ' \in Seq(Dispatched)
         /\ sent' \in [Ticket -> Nat]
<1>1. PICK o \in Cycle(t, was) :
        LET tk == [o.tk EXCEPT !.phase = was.phase] IN
        /\ o.send
        /\ row' = [row EXCEPT ![t] = Saved(was, tk, r)]
        /\ emsQ' = Append(emsQ, [t |-> t, tk |-> tk])
  BY DEF SentOnly
<1> DEFINE tk == [o.tk EXCEPT !.phase = was.phase]
<1>2. o.tk \in TicketRec /\ o.tk.internal_state = "ACCEPTED"
  BY <1>1, CycleType
<1>3. tk \in TicketRec /\ tk.internal_state = "ACCEPTED"
  BY <1>2 DEF TicketRec
<1>4. row' = [row EXCEPT ![t] = Saved(was, tk, r)] /\ emsQ' = Append(emsQ, [t |-> t, tk |-> tk])
  BY <1>1
<1> HIDE DEF tk
<1>5. Saved(was, tk, r) \in TicketRec
  BY <1>3, SavedType
<1>6. [t |-> t, tk |-> tk] \in Dispatched /\ [t |-> t, tk |-> tk] \in EmsMsg
  BY <1>3 DEF Dispatched, EmsMsg
<1>7. emsQ' \in Seq(EmsMsg) /\ emsQ' \in Seq(Dispatched)
  BY <1>4, <1>6, QueueType DEF Typed, TypeOK
<1>8. sent' \in [Ticket -> Nat]
  BY DEF SentOnly, Typed, TypeOK
<1> QED
  BY <1>4, <1>5, <1>7, <1>8 DEF Typed, TypeOK

\* Every death keeps every variable of its kind.
LEMMA DeathsTyped ==
  ASSUME Typed, Deaths
  PROVE  Typed'
<1>1. ASSUME OmsRestart, row' \in [Ticket -> TicketRec], apiQ' \in Seq(ApiMsg),
             emsQ' \in Seq(EmsMsg), emsQ' \in Seq(Dispatched),
             admitted' \in [Ticket -> Nat], sent' \in [Ticket -> Nat]
      PROVE  Typed'
  BY <1>1, OmsRestartTyped DEF Typed, TypeOK
<1>2. ASSUME EmsRestart, row' \in [Ticket -> TicketRec],
             emsQ' \in Seq(EmsMsg), emsQ' \in Seq(Dispatched), notes' \in [Ticket -> Nat],
             taken' \in [Ticket -> Nat], booked' \in [Ticket -> Nat]
      PROVE  Typed'
  BY <1>2, EmsRestartTyped DEF Typed, TypeOK
<1>3. CASE OmsCrash
  BY <1>1, <1>3 DEF OmsCrash, Typed, TypeOK
<1>4. CASE OmsCrashHandling
  <2>1. apiQ' \in Seq(ApiMsg)
    BY <1>4, ApiHeadType DEF OmsCrashHandling
  <2> QED
    BY <1>1, <1>4, <2>1 DEF OmsCrashHandling, Typed, TypeOK
<1>5. CASE OmsCrashAdmitting
  <2> DEFINE m == Head(apiQ)
             tk == Admitted(m)
             r == AdmittedRow(m)
  <2>1. apiQ # <<>>
    BY <1>5 DEF OmsCrashAdmitting, Next1
  <2>2. m.t \in Ticket /\ m.tk \in TicketRec /\ tk \in TicketRec /\ Tail(apiQ) \in Seq(ApiMsg)
    BY <2>1, ApiHeadType, AdmittedType
  <2>3. r \in TicketRec
    BY <2>2, AdmittedRowType
  <2>4. \/ SentOnly(m.t, r, tk)
        \/ row' = [row EXCEPT ![m.t] = r] /\ UNCHANGED <<emsQ, sent>>
    BY <1>5 DEF OmsCrashAdmitting
  <2>5. admitted' = [admitted EXCEPT ![m.t] = @ + 1] /\ apiQ' = Tail(apiQ) /\ OmsRestart
    BY <1>5 DEF OmsCrashAdmitting
  <2> HIDE DEF m, tk, r
  <2>6. admitted' \in [Ticket -> Nat]
    BY <2>2, <2>5 DEF Typed, TypeOK
  <2>7. /\ row' \in [Ticket -> TicketRec]
        /\ emsQ' \in Seq(EmsMsg) /\ emsQ' \in Seq(Dispatched)
        /\ sent' \in [Ticket -> Nat]
    <3>1. CASE SentOnly(m.t, r, tk)
      BY <2>2, <2>3, <3>1, SentOnlyTyped
    <3>2. CASE row' = [row EXCEPT ![m.t] = r] /\ UNCHANGED <<emsQ, sent>>
      BY <2>2, <2>3, <3>2 DEF Typed, TypeOK
    <3> QED
      BY <2>4, <3>1, <3>2
  <2> QED
    BY <1>1, <2>2, <2>5, <2>6, <2>7
<1>6. CASE EmsCrash
  BY <1>2, <1>6 DEF EmsCrash, Typed, TypeOK
<1>7. CASE EmsCrashTaking
  <2> DEFINE m == Head(emsQ)
             tk == [m.tk EXCEPT !.ems_owner = TRUE]
  <2>1. m.t \in Ticket /\ m.tk \in TicketRec /\ Tail(emsQ) \in Seq(EmsMsg) /\ Tail(emsQ) \in Seq(Dispatched)
    BY <1>7, EmsHeadType DEF EmsCrashTaking
  <2>2. tk \in TicketRec
    BY <2>1, OwnType
  <2>3. \/ UNCHANGED row
        \/ row' = [row EXCEPT ![m.t] = Saved(m.tk, tk, row[m.t])]
    BY <1>7 DEF EmsCrashTaking
  <2> HIDE DEF m, tk
  <2>4. row' \in [Ticket -> TicketRec]
    <3>1. Saved(m.tk, tk, row[m.t]) \in TicketRec
      BY <2>1, <2>2, SavedType DEF Typed, TypeOK
    <3> QED
      BY <2>3, <3>1 DEF Typed, TypeOK
  <2> QED
    BY <1>2, <1>7, <2>1, <2>4 DEF EmsCrashTaking, Typed, TypeOK
<1>8. ASSUME NEW c \in Client, ApiCrash(c)
      PROVE  Typed'
  <2>1. req[c] # NoReq
    BY <1>8 DEF ApiCrash, SaveRequest
  <2>2. Execution(c) \in TicketRec
    BY <2>1, ExecutionType DEF Typed
  <2>3. /\ row' \in [Ticket -> TicketRec]
        /\ overwrites' \in [Ticket -> Nat]
        /\ req' \in [Client -> Reading \cup {NoReq}]
    BY <1>8, <2>2, SaveRequestType DEF ApiCrash, Typed
  <2> QED
    BY <1>8, <2>3 DEF ApiCrash, Die, envVars, Typed, TypeOK
<1>9. ASSUME NEW t \in Ticket, OmsCrashSending(t)
      PROVE  Typed'
  <2>1. oms[t] \in TicketRec /\ row[t] \in TicketRec
    BY DEF Typed, TypeOK
  <2>2. /\ row' \in [Ticket -> TicketRec]
        /\ emsQ' \in Seq(EmsMsg) /\ emsQ' \in Seq(Dispatched)
        /\ sent' \in [Ticket -> Nat]
    BY <1>9, <2>1, SentOnlyTyped DEF OmsCrashSending
  <2> QED
    BY <1>1, <1>9, <2>2 DEF OmsCrashSending, Typed, TypeOK
<1>10. ASSUME NEW t \in Ticket, EmsCrashBooked(t)
       PROVE  Typed'
  <2>1. booked' \in [Ticket -> Nat]
    BY <1>10 DEF EmsCrashBooked, Book, Typed, TypeOK
  <2> QED
    BY <1>2, <1>10, <2>1 DEF EmsCrashBooked, Typed, TypeOK
<1>11. ASSUME NEW t \in Ticket, EmsCrashUnreported(t)
       PROVE  Typed'
  <2>8. PICK outcome \in Outcomes(t) :
          row' = [row EXCEPT ![t] =
            Saved(ems[t], [ems[t] EXCEPT !.internal_state = outcome, !.ems_owner = FALSE], @)]
    BY <1>11 DEF EmsCrashUnreported
  <2> DEFINE tk == [ems[t] EXCEPT !.internal_state = outcome, !.ems_owner = FALSE]
  <2>1. ems[t] \in TicketRec /\ row[t] \in TicketRec
    BY DEF Typed, TypeOK
  <2>2. outcome \in InternalStates
    BY <2>1 DEF Outcomes, TicketRec, InternalStates
  <2>3. tk \in TicketRec
    BY <2>1, <2>2 DEF TicketRec
  <2>4. row' = [row EXCEPT ![t] = Saved(ems[t], tk, row[t])]
    BY <2>8
  <2> HIDE DEF tk
  <2>5. row' \in [Ticket -> TicketRec]
    BY <2>1, <2>3, <2>4, SavedType DEF Typed, TypeOK
  <2>6. booked' \in [Ticket -> Nat]
    BY <1>11 DEF EmsCrashUnreported, Book, Typed, TypeOK
  <2> QED
    BY <1>2, <1>11, <2>5, <2>6 DEF EmsCrashUnreported, Typed, TypeOK
<1> QED
  BY <1>3, <1>4, <1>5, <1>6, <1>7, <1>8, <1>9, <1>10, <1>11 DEF Deaths

\* The passing of time keeps every variable of its kind.
LEMMA TimeTyped ==
  ASSUME Typed, Time
  PROVE  Typed'
<1>1. ASSUME NEW t \in Ticket, EndTime(t)
      PROVE  Typed'
  BY <1>1 DEF EndTime, dbVars, countVars, Typed, TypeOK
<1>2. ASSUME NEW t \in Ticket, QuoteLapse(t)
      PROVE  Typed'
  BY <1>2 DEF QuoteLapse, dbVars, countVars, Typed, TypeOK
<1> QED
  BY <1>1, <1>2 DEF Time

\* Every step keeps every variable of its kind, and only ACCEPTED tickets in emsQ.
THEOREM TypedHolds == Spec => []Typed
<1>1. Init => Typed
  <2> SUFFICES ASSUME Init PROVE Typed
    OBVIOUS
  <2>1. apiQ \in Seq(ApiMsg) /\ emsQ \in Seq(EmsMsg) /\ emsQ \in Seq(Dispatched)
    BY DEF Init
  <2> QED
    BY <2>1, NoTicketType DEF Init, Typed, TypeOK, Jobs
<1>2. Typed /\ [Next]_vars => Typed'
  <2> SUFFICES ASSUME Typed, [Next]_vars PROVE Typed'
    OBVIOUS
  <2>1. CASE UNCHANGED vars
    BY <2>1 DEF vars, Typed, TypeOK
  <2> QED
    BY <2>1, ApiTyped, OmsTyped, EmsTyped, DeathsTyped, TimeTyped DEF Next
<1> QED
  BY <1>1, <1>2, PTL DEF Spec

\* Every variable always holds a value of its kind.
THEOREM TypeCorrect == Spec => []TypeOK
<1>1. Typed => TypeOK
  BY DEF Typed
<1> QED
  BY <1>1, TypedHolds, PTL

-----------------------------------------------------------------------------
(***************************************************************************)
(* Deals.  A ticket the EMS holds has not been dealt for the last time it  *)
(* was taken in (or reloaded after a death), so one deal more is covered;  *)
(* and the EMS only executes tickets it holds.                             *)
(***************************************************************************)
Covered(t) ==
  /\ job[t] # "idle" => Working(t)
  /\ booked[t] <= taken[t] + restarts
  /\ Working(t) => booked[t] < taken[t] + restarts

DealInv == Typed /\ \A t \in Ticket : Covered(t)

\* An expired copy is still a copy.
LEMMA AfterExpiryExists ==
  ASSUME NEW t, NEW tk \in TicketRec, tk.internal_state = "ACCEPTED"
  PROVE  Exists(AfterExpiry(t, tk))
  BY DEF AfterExpiry, TicketRec, Exists

\* After a failed call to the broker the EMS has let go of the ticket.
LEMMA FailLetsGo ==
  ASSUME NEW t, Fail(t)
  PROVE  ems' = [ems EXCEPT ![t] = NoTicket] /\ job' = [job EXCEPT ![t] = "idle"]
  BY DEF Fail, Finish

\* No step of the EMS books a deal it has not taken a ticket in for.
LEMMA EmsCovered ==
  ASSUME DealInv, EmsNext, NEW u \in Ticket
  PROVE  Covered(u)'
<1> USE DEF DealInv, envVars, countVars, dbVars
<1>0. /\ Covered(u)
      /\ ems \in [Ticket -> TicketRec] /\ job \in [Ticket -> Jobs]
      /\ taken \in [Ticket -> Nat] /\ booked \in [Ticket -> Nat] /\ restarts \in Nat
  BY DEF Typed, TypeOK
<1>1. CASE EmsTake
  <2> DEFINE t == Head(emsQ).t
             was == Head(emsQ).tk
             tk == [was EXCEPT !.ems_owner = TRUE]
  <2>1. t \in Ticket /\ was \in TicketRec /\ was.internal_state = "ACCEPTED"
    BY <1>1, EmsHeadType DEF EmsTake
  <2>2. /\ ems' = [ems EXCEPT ![t] = AfterExpiry(t, tk)]
        /\ job' = [job EXCEPT ![t] = "accept"]
        /\ taken' = [taken EXCEPT ![t] = @ + 1]
        /\ UNCHANGED <<booked, restarts>>
    BY <1>1 DEF EmsTake, StartJob
  <2> HIDE DEF t, was
  <2>3. tk \in TicketRec /\ tk.internal_state = "ACCEPTED"
    BY <2>1, OwnType
  <2> HIDE DEF tk
  <2>4. Exists(AfterExpiry(t, tk))
    BY <2>3, AfterExpiryExists
  <2> QED
    BY <1>0, <2>1, <2>2, <2>4 DEF Covered, Working
<1>2. ASSUME NEW t \in Ticket, EmsResume(t)
      PROVE  Covered(u)'
  <2>1. /\ ems' = [ems EXCEPT ![t] = AfterExpiry(t, ems[t])]
        /\ job' = [job EXCEPT ![t] = "accept"]
        /\ UNCHANGED <<taken, booked, restarts>>
    BY <1>2 DEF EmsResume, StartJob
  <2>2. Exists(AfterExpiry(t, ems[t])) /\ Working(t)
    BY <1>0, <1>2, AfterExpiryExists DEF EmsResume, Working, Exists
  <2> QED
    BY <1>0, <2>1, <2>2 DEF Covered, Working
<1>3. ASSUME NEW t \in Ticket, ems' = [ems EXCEPT ![t] = NoTicket], job' = [job EXCEPT ![t] = "idle"],
             UNCHANGED <<taken, restarts>>,
             \/ UNCHANGED booked
             \/ Book(t) /\ job[t] = "execute"
      PROVE  Covered(u)'
  <2>1. ~Exists(ems'[t])
    BY <1>0, <1>3, NoTicketType
  <2>2. Covered(t)
    OBVIOUS
  <2> QED
    BY <1>0, <1>3, <2>1, <2>2 DEF Covered, Working, Book
<1>4. ASSUME NEW t \in Ticket, EmsUseQuote(t)
      PROVE  Covered(u)'
  <2>1. Covered(t)
    OBVIOUS
  <2> QED
    BY <1>0, <1>4, <2>1 DEF EmsUseQuote, Covered, Working
<1>5. ASSUME NEW t \in Ticket, EmsRequote(t)
      PROVE  Covered(u)'
  <2> DEFINE tk == [ems[t] EXCEPT !.internal_state = "RFQ_DONE", !.quote_id = TRUE]
  <2>1. /\ ems' = [ems EXCEPT ![t] = tk] /\ job[t] = "accept"
        /\ job' = [job EXCEPT ![t] = "execute"]
        /\ UNCHANGED <<taken, booked, restarts>>
    BY <1>5 DEF EmsRequote
  <2>2. Exists(tk)
    <3>1. ems[t] \in TicketRec
      BY <1>0
    <3> QED
      BY <3>1 DEF TicketRec, Exists
  <2>3. Covered(t)
    OBVIOUS
  <2> HIDE DEF tk
  <2> QED
    BY <1>0, <2>1, <2>2, <2>3 DEF Covered, Working
<1>6. ASSUME NEW t \in Ticket, EmsLetGo(t) \/ EmsQuoteGone(t)
      PROVE  Covered(u)'
  BY <1>3, <1>6 DEF EmsLetGo, EmsQuoteGone, Finish
<1>7. ASSUME NEW t \in Ticket, EmsRequoteFails(t) \/ EmsRefused(t) \/ EmsAnswerLost(t)
      PROVE  Covered(u)'
  BY <1>3, <1>7, FailLetsGo DEF EmsRequoteFails, EmsRefused, EmsAnswerLost
<1>8. ASSUME NEW t \in Ticket, EmsFill(t)
      PROVE  Covered(u)'
  BY <1>3, <1>8 DEF EmsFill, Finish
<1> QED
  BY <1>1, <1>2, <1>4, <1>5, <1>6, <1>7, <1>8 DEF EmsNext, EmsJob

\* A death adds one deal that may have been booked and forgotten.
LEMMA DeathsCovered ==
  ASSUME DealInv, Deaths, NEW u \in Ticket
  PROVE  Covered(u)'
<1> USE DEF DealInv, envVars
<1>0. /\ Covered(u)
      /\ taken \in [Ticket -> Nat] /\ booked \in [Ticket -> Nat] /\ restarts \in Nat
  BY DEF Typed, TypeOK
<1>1. ASSUME restarts' = restarts + 1, UNCHANGED <<ems, job, taken, booked>>
      PROVE  Covered(u)'
  BY <1>0, <1>1 DEF Covered, Working
<1>2. ASSUME EmsRestart, UNCHANGED taken,
             UNCHANGED booked \/ \E t \in Ticket : Book(t) /\ job[t] = "execute"
      PROVE  Covered(u)'
  <2>1. job'[u] = "idle" /\ restarts' = restarts + 1
    BY <1>2 DEF EmsRestart, Die
  <2>2. booked'[u] <= taken[u] + restarts
    BY <1>0, <1>2 DEF Covered, Book
  <2>3. booked'[u] \in Nat
    BY <1>0, <1>2 DEF Book
  <2> QED
    BY <1>0, <1>2, <2>1, <2>2, <2>3 DEF Covered
<1> QED
  BY <1>1, <1>2 DEF Deaths, OmsCrash, OmsCrashHandling, OmsCrashAdmitting, EmsCrash, EmsCrashTaking,
     ApiCrash, OmsCrashSending, EmsCrashBooked, EmsCrashUnreported, OmsRestart, Die

\* Nobody else books deals, or makes the EMS start over.
LEMMA OthersCovered ==
  ASSUME DealInv, ApiNext \/ OmsNext \/ Time \/ UNCHANGED vars, NEW u \in Ticket
  PROVE  Covered(u)'
<1>1. CASE ApiNext
  <2>1. UNCHANGED <<ems, job, taken, booked, restarts>>
    BY <1>1 DEF ApiNext, CreateExecute, CreateRfq, RequestControl, CommitExecute, RefuseExecute,
       CommitRefresh, DropRequest, ReadQuoted, ReadToRefresh, countVars
  <2> QED
    BY <2>1 DEF DealInv, Covered, Working
<1>2. CASE OmsNext
  <2>1. UNCHANGED <<ems, job, taken, booked, restarts>>
    BY <1>2 DEF OmsNext, OmsApi, OmsAdmit, OmsCancel, OmsControl, OmsRefuse, OmsReceive, OmsCycle, countVars
  <2> QED
    BY <2>1 DEF DealInv, Covered, Working
<1>3. CASE Time \/ UNCHANGED vars
  <2>1. UNCHANGED <<ems, job, taken, booked, restarts>>
    BY <1>3 DEF Time, EndTime, QuoteLapse, countVars, vars
  <2> QED
    BY <2>1 DEF DealInv, Covered, Working
<1> QED
  BY <1>1, <1>2, <1>3

\* The deals of a ticket are covered by the times it was taken in, all but one
\* of them while the EMS still works on it.
THEOREM DealInvHolds == Spec => []DealInv
<1>1. Init => DealInv
  <2> SUFFICES ASSUME Init PROVE DealInv
    OBVIOUS
  <2>1. \A t \in Ticket : Covered(t)
    BY NoTicketType DEF Init, Covered, Working
  <2>2. Typed
    <3>1. apiQ \in Seq(ApiMsg) /\ emsQ \in Seq(EmsMsg) /\ emsQ \in Seq(Dispatched)
      BY DEF Init
    <3> QED
      BY <3>1, NoTicketType DEF Init, Typed, TypeOK, Jobs
  <2> QED
    BY <2>1, <2>2 DEF DealInv
<1>2. DealInv /\ Typed' /\ [Next]_vars => DealInv'
  BY EmsCovered, DeathsCovered, OthersCovered DEF DealInv, Next
<1> QED
  BY <1>1, <1>2, TypedHolds, PTL DEF Spec

\* However messages, requests, quotes and process deaths interleave, the broker
\* books at most one deal for every time the EMS took a ticket in, and one for
\* every death.
THEOREM DealAccountedHolds == Spec => []DealAccounted
<1>1. DealInv => DealAccounted
  BY DEF DealInv, Covered, DealAccounted
<1> QED
  BY <1>1, DealInvHolds, PTL
=============================================================================

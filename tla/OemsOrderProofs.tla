--------------------------- MODULE OemsOrderProofs ---------------------------
(***************************************************************************)
(* What becomes of an order in Oems, for any tickets, clients and bounds:  *)
(* how often it is sent to the EMS, who holds what the row says is owned,  *)
(* and what is authorised and agreed between the copies.                   *)
(***************************************************************************)
EXTENDS OemsProofs

-----------------------------------------------------------------------------
(***************************************************************************)
(* The messages of a topic.                                                *)
(***************************************************************************)
Msgs(q) == {q[i] : i \in 1..Len(q)}

\* At most one message of the topic is in S.
Once(q, S) == \A i, j \in 1..Len(q) : q[i] \in S /\ q[j] \in S => i = j

\* Appending adds one message.
LEMMA MsgsAppend ==
  ASSUME NEW S, NEW q \in Seq(S), NEW e \in S
  PROVE  Msgs(Append(q, e)) = Msgs(q) \cup {e}
<1> DEFINE p == Append(q, e)
<1>1. Len(p) = Len(q) + 1 /\ p[Len(q) + 1] = e /\ \A i \in 1..Len(q) : p[i] = q[i]
  OBVIOUS
<1>2. Len(q) \in Nat
  OBVIOUS
<1> HIDE DEF p
<1>3. 1..Len(p) = (1..Len(q)) \cup {Len(q) + 1}
  BY <1>1, <1>2
<1> QED
  BY <1>1, <1>3 DEF Msgs, p

\* Dequeuing takes the first one.
LEMMA MsgsTail ==
  ASSUME NEW S, NEW q \in Seq(S), q # <<>>
  PROVE  Msgs(q) = {Head(q)} \cup Msgs(Tail(q))
<1>1. /\ Len(q) \in Nat /\ Len(q) > 0 /\ Head(q) = q[1]
      /\ Len(Tail(q)) = Len(q) - 1 /\ \A i \in 1..(Len(q) - 1) : Tail(q)[i] = q[i + 1]
  OBVIOUS
<1> DEFINE r == Tail(q)
<1> HIDE DEF r
<1>2. 1..Len(q) = {1} \cup {i + 1 : i \in 1..(Len(q) - 1)}
  BY <1>1
<1>3. {q[i] : i \in 1..Len(q)} = {q[1]} \cup {q[i + 1] : i \in 1..(Len(q) - 1)}
  BY <1>2
<1>4. {r[i] : i \in 1..(Len(q) - 1)} = {q[i + 1] : i \in 1..(Len(q) - 1)}
  BY <1>1 DEF r
<1> QED
  BY <1>1, <1>3, <1>4 DEF Msgs, r

\* The messages of a topic are of its kind.
LEMMA MsgsType ==
  ASSUME NEW S, NEW q \in Seq(S)
  PROVE  Msgs(q) \subseteq S /\ (q # <<>> => Head(q) \in Msgs(q))
  BY DEF Msgs

\* A first message of its kind is the only one.
LEMMA OnceAppend ==
  ASSUME NEW M, NEW S, NEW q \in Seq(M), NEW e \in M, Once(q, S), e \in S => Msgs(q) \cap S = {}
  PROVE  Once(Append(q, e), S)
<1> DEFINE p == Append(q, e)
<1>1. Len(p) = Len(q) + 1 /\ p[Len(q) + 1] = e /\ (\A i \in 1..Len(q) : p[i] = q[i]) /\ Len(q) \in Nat
  OBVIOUS
<1> HIDE DEF p
<1>2. ASSUME NEW i \in 1..Len(p), NEW j \in 1..Len(p), p[i] \in S, p[j] \in S
      PROVE  i = j
  <2>1. CASE i \in 1..Len(q) /\ j \in 1..Len(q)
    BY <1>1, <1>2, <2>1 DEF Once
  <2>2. CASE i = Len(q) + 1 /\ j = Len(q) + 1
    BY <2>2
  <2>3. CASE i \in 1..Len(q) /\ j = Len(q) + 1
    BY <1>1, <1>2, <2>3 DEF Msgs
  <2>4. CASE j \in 1..Len(q) /\ i = Len(q) + 1
    BY <1>1, <1>2, <2>4 DEF Msgs
  <2> QED
    BY <1>1, <2>1, <2>2, <2>3, <2>4
<1> QED
  BY <1>2 DEF Once, p

\* Once the only message of its kind is taken, there is none.
LEMMA OnceTail ==
  ASSUME NEW M, NEW S, NEW q \in Seq(M), q # <<>>, Once(q, S)
  PROVE  Once(Tail(q), S) /\ (Head(q) \in S => Msgs(Tail(q)) \cap S = {})
<1> DEFINE p == Tail(q)
<1>1. /\ Len(q) \in Nat /\ Len(q) > 0 /\ Head(q) = q[1]
      /\ Len(p) = Len(q) - 1 /\ \A i \in 1..(Len(q) - 1) : p[i] = q[i + 1]
  OBVIOUS
<1> HIDE DEF p
<1>2. ASSUME NEW i \in 1..Len(p), NEW j \in 1..Len(p), p[i] \in S, p[j] \in S
      PROVE  i = j
  <2>1. i + 1 \in 1..Len(q) /\ j + 1 \in 1..Len(q) /\ q[i + 1] \in S /\ q[j + 1] \in S
    BY <1>1, <1>2
  <2>2. i + 1 = j + 1
    BY <2>1 DEF Once
  <2> QED
    BY <1>1, <2>2
<1>3. ASSUME Head(q) \in S, NEW i \in 1..Len(p), p[i] \in S
      PROVE  FALSE
  <2>1. i + 1 \in 1..Len(q) /\ 1 \in 1..Len(q) /\ q[i + 1] \in S /\ q[1] \in S
    BY <1>1, <1>3
  <2>2. i + 1 = 1
    BY <2>1 DEF Once
  <2> QED
    BY <1>1, <2>2
<1>4. Once(p, S)
  BY <1>2 DEF Once
<1>5. Head(q) \in S => Msgs(p) \cap S = {}
  BY <1>3 DEF Msgs
<1> QED
  BY <1>4, <1>5 DEF p

-----------------------------------------------------------------------------
(***************************************************************************)
(* What a save, or two of the same copy, writes.  A column holds the new   *)
(* value, or is what it was and the saved copy did not change it.  The     *)
(* columns that only one of two saves can change are written exactly.      *)
(***************************************************************************)
Col(was, now, r, new) == new = now \/ (new = r /\ now = was)

Written(was, now, r, new) ==
  /\ new \in TicketRec
  /\ new.internal_state = Dirty(was.internal_state, now.internal_state, r.internal_state)
  /\ Col(was.external_state, now.external_state, r.external_state, new.external_state)
  /\ Col(was.oms_owner, now.oms_owner, r.oms_owner, new.oms_owner)
  /\ new.phase = Dirty(was.phase, now.phase, r.phase)
  /\ new.action = Dirty(was.action, now.action, r.action)
  /\ new.ems_owner = Dirty(was.ems_owner, now.ems_owner, r.ems_owner)
  /\ new.paused = Dirty(was.paused, now.paused, r.paused)
  /\ new.auth_user = Dirty(was.auth_user, now.auth_user, r.auth_user)
  /\ new.quote_id = Dirty(was.quote_id, now.quote_id, r.quote_id)

\* Copies that differ in the states and the OMS as owner at most.
SameBut(a, b) ==
  /\ a.phase = b.phase /\ a.action = b.action /\ a.ems_owner = b.ems_owner
  /\ a.paused = b.paused /\ a.auth_user = b.auth_user /\ a.quote_id = b.quote_id

\* A save writes the columns that changed.
LEMMA SavedWritten ==
  ASSUME NEW was \in TicketRec, NEW now \in TicketRec, NEW r \in TicketRec
  PROVE  Written(was, now, r, Saved(was, now, r))
<1>1. Saved(was, now, r) \in TicketRec
  BY SavedType
<1> QED
  BY <1>1 DEF Written, Col, Saved, Dirty

\* Two saves of a copy write what one save of both changes does.
LEMMA WrittenTwice ==
  ASSUME NEW a, NEW b, NEW c, NEW r, NEW r1, NEW r2, SameBut(a, b),
         b.internal_state \in {a.internal_state, c.internal_state}, Written(a, b, r, r1), Written(b, c, r1, r2)
  PROVE  Written(a, c, r, r2)
  BY DEF Written, Col, Dirty, SameBut

\* A copy that agrees with the row is the row again after its save.
LEMMA WrittenSame ==
  ASSUME NEW was \in TicketRec, NEW now \in TicketRec, NEW new, Written(was, now, was, new)
  PROVE  new = now
  BY DEF Written, Col, Dirty, TicketRec

-----------------------------------------------------------------------------
(***************************************************************************)
(* What one turn of the OMS makes of a copy: "was" is the copy it starts   *)
(* from, "now" the one it ends with.                                       *)
(***************************************************************************)

\* States before the order is accepted, in which only the OMS puts a ticket.
Early == Chain \cup {"DRAFT", "PENDFUNDS"}

\* States an order reaches when it was authorised.
Unsure == {"PENDMARGIN", "SCHEDULED", "WAITING"}

CanSend(tk) ==
  \/ tk.internal_state \in Early
  \/ tk.internal_state = "ACCEPTED" /\ tk.phase # "WORKING"

Settled == {"PENDSETTLE", "PENDBENE", "BOOKING_FAILURE"}

Moves(was, now, keep, send) ==
  /\ now \in TicketRec /\ keep \in BOOLEAN /\ send \in BOOLEAN
  /\ now.action = was.action /\ now.ems_owner = was.ems_owner /\ now.quote_id = was.quote_id
  /\ IF keep THEN now.oms_owner = was.oms_owner ELSE was.oms_owner /\ ~now.oms_owner
  /\ send => /\ keep
             /\ was.phase # "WORKING" /\ now.phase = "WORKING"
             /\ was.internal_state \in Chain \cup {"ACCEPTED"} /\ now.internal_state = "ACCEPTED"
             /\ ~was.paused /\ ~now.paused /\ ~was.ems_owner
             /\ now.auth_user = was.auth_user
  /\ \/ now.phase = was.phase
     \/ now.phase = "WORKING" /\ now.internal_state = "ACCEPTED"
     \/ now.phase = "SETTLE" /\ now.internal_state \in Settled /\ was.internal_state \in SettlementStates
  /\ now.internal_state \in Early => was.internal_state \in Early
  /\ now.internal_state = "ACCEPTED" /\ was.internal_state # "ACCEPTED"
       => was.internal_state \in Early /\ now.phase = "WORKING"
  /\ was.internal_state \in OmsTerminal \cup {"ERROR"} => now.internal_state \in {was.internal_state, "CANCELED"}
  /\ now.auth_user = was.auth_user \/ now.auth_user
  /\ now.internal_state \in Unsure \cup {"ACCEPTED"}
       => was.internal_state \in Unsure \cup {"ACCEPTED"} \/ was.action = "rfq" \/ was.auth_user

\* Giving up a ticket moves it nowhere else.
LEMMA RemoveMoves ==
  ASSUME NEW tk \in TicketRec, Exists(tk)
  PROVE  Moves(tk, Remove(tk).tk, Remove(tk).keep, Remove(tk).send) /\ Exists(Remove(tk).tk)
<1>1. Remove(tk).tk \in TicketRec /\ Remove(tk).keep \in BOOLEAN /\ Remove(tk).send = FALSE
  BY RemoveType
<1>2. /\ Remove(tk).tk.internal_state = tk.internal_state /\ Remove(tk).tk.phase = tk.phase
      /\ Remove(tk).tk.action = tk.action /\ Remove(tk).tk.ems_owner = tk.ems_owner
      /\ Remove(tk).tk.quote_id = tk.quote_id /\ Remove(tk).tk.auth_user = tk.auth_user
      /\ IF Remove(tk).keep THEN Remove(tk).tk.oms_owner = tk.oms_owner
                            ELSE tk.oms_owner /\ ~Remove(tk).tk.oms_owner
  BY DEF Remove, Stay, TicketRec
<1> QED
  BY <1>1, <1>2 DEF Moves, Exists

\* Sending moves an accepted ticket to WORKING, and sends it if it was not there.
LEMMA DispatchMoves ==
  ASSUME NEW t, NEW tk \in TicketRec, tk.internal_state = "ACCEPTED"
  PROVE  LET o == Dispatch(t, tk) IN Moves(tk, o.tk, o.keep, o.send) /\ Exists(o.tk)
<1>1. CASE tk.paused \/ tk.phase = "WORKING"
  BY <1>1 DEF Dispatch, Stay, Moves, Exists, Early, Chain
<1>2. CASE ~tk.paused /\ tk.phase # "WORKING" /\ tk.ems_owner
  <2> DEFINE now == [tk EXCEPT !.phase = "WORKING"]
  <2>1. Dispatch(t, tk) = Stay(now)
    BY <1>2 DEF Dispatch
  <2>2. Moves(tk, now, TRUE, FALSE) /\ Exists(now)
    BY DEF Moves, TicketRec, Phases, Exists, Early, Chain
  <2> HIDE DEF now
  <2>3. Dispatch(t, tk) = [tk |-> now, keep |-> TRUE, send |-> FALSE]
    BY <2>1 DEF Stay
  <2>4. Dispatch(t, tk).tk = now /\ Dispatch(t, tk).keep = TRUE /\ Dispatch(t, tk).send = FALSE
    BY <2>3
  <2> QED
    BY <2>2, <2>4
<1>3. CASE ~tk.paused /\ tk.phase # "WORKING" /\ ~tk.ems_owner /\ t \in Routed
  <2> DEFINE now == [tk EXCEPT !.phase = "WORKING"]
  <2>1. Dispatch(t, tk) = [Stay(now) EXCEPT !.send = TRUE]
    BY <1>3 DEF Dispatch
  <2>2. Moves(tk, now, TRUE, TRUE) /\ Exists(now)
    BY <1>3 DEF Moves, TicketRec, Phases, Exists, Early, Chain
  <2> HIDE DEF now
  <2>3. Dispatch(t, tk) = [tk |-> now, keep |-> TRUE, send |-> TRUE]
    BY <2>1 DEF Stay
  <2>4. Dispatch(t, tk).tk = now /\ Dispatch(t, tk).keep = TRUE /\ Dispatch(t, tk).send = TRUE
    BY <2>3
  <2> QED
    BY <2>2, <2>4
<1>4. CASE ~tk.paused /\ tk.phase # "WORKING" /\ ~tk.ems_owner /\ t \notin Routed
  <2> DEFINE now == [tk EXCEPT !.internal_state = "ERROR"]
  <2>1. Dispatch(t, tk) = Stay(now)
    BY <1>4 DEF Dispatch
  <2>2. Moves(tk, now, TRUE, FALSE) /\ Exists(now)
    BY DEF Moves, TicketRec, InternalStates, Exists, Early, Chain, Unsure, OmsTerminal
  <2> HIDE DEF now
  <2>3. Dispatch(t, tk) = [tk |-> now, keep |-> TRUE, send |-> FALSE]
    BY <2>1 DEF Stay
  <2>4. Dispatch(t, tk).tk = now /\ Dispatch(t, tk).keep = TRUE /\ Dispatch(t, tk).send = FALSE
    BY <2>3
  <2> QED
    BY <2>2, <2>4
<1> QED
  BY <1>1, <1>2, <1>3, <1>4 DEF TicketRec

\* So does the walk through the pre-trade checks, which stops unauthorised tickets.
LEMMA AdvanceMoves ==
  ASSUME NEW t, NEW tk \in TicketRec, tk.internal_state \in Chain, ~tk.paused, NEW s \in Rests(tk)
  PROVE  LET o == Advance(t, tk, s) IN Moves(tk, o.tk, o.keep, o.send) /\ Exists(o.tk)
<1> DEFINE now == [tk EXCEPT !.internal_state = s]
<1>1. s \in {"PENDAUTH", "SCHEDULED", "WAITING", "ACCEPTED"}
  BY DEF Rests
<1>2. s # "PENDAUTH" => tk.internal_state \in Unsure \/ tk.action = "rfq" \/ tk.auth_user
  BY DEF Rests, Authorised, Chain, Unsure
<1>3. now \in TicketRec /\ now.internal_state = s /\ Exists(now)
  BY <1>1 DEF TicketRec, InternalStates, Exists
<1>4. CASE s # "ACCEPTED"
  <2>1. Moves(tk, now, TRUE, FALSE)
    BY <1>1, <1>2, <1>3, <1>4 DEF Moves, TicketRec, Early, Chain, Unsure, OmsTerminal
  <2> QED
    BY <1>3, <1>4, <2>1 DEF Advance, Stay
<1>5. CASE s = "ACCEPTED"
  <2> DEFINE o == Dispatch(t, now)
  <2>1. Moves(now, o.tk, o.keep, o.send) /\ Exists(o.tk)
    BY <1>3, <1>5, DispatchMoves
  <2>2. o.keep /\ (o.tk.phase = "WORKING" \/ o.tk.internal_state = "ERROR")
    BY <1>3 DEF Dispatch, Stay, TicketRec
  <2>3. Advance(t, tk, s) = o
    BY <1>5 DEF Advance
  <2>4. /\ now.phase = tk.phase /\ now.action = tk.action /\ now.ems_owner = tk.ems_owner
        /\ now.oms_owner = tk.oms_owner /\ now.quote_id = tk.quote_id
        /\ now.auth_user = tk.auth_user /\ now.paused = tk.paused
    BY DEF TicketRec
  <2> HIDE DEF now, o
  <2>5. Moves(tk, o.tk, o.keep, o.send)
    BY <1>2, <1>3, <1>5, <2>1, <2>2, <2>4 DEF Moves, Early, Chain, Unsure, OmsTerminal, Settled, SettlementStates
  <2> QED
    BY <2>1, <2>3, <2>5
<1> QED
  BY <1>4, <1>5

\* A fill is settled.
LEMMA SettlingMoves ==
  ASSUME NEW tk \in TicketRec, tk.internal_state \in SettlementStates, NEW s \in Settled
  PROVE  LET o == Settling(tk, s) IN Moves(tk, o.tk, o.keep, o.send) /\ Exists(o.tk)
<1> DEFINE o == Settling(tk, s)
<1>1. o.tk \in TicketRec /\ o.keep = TRUE /\ o.send = FALSE
  BY SettlingType DEF Settled
<1>2. /\ o.tk.internal_state = s /\ o.tk.phase = "SETTLE" /\ o.tk.action = tk.action
      /\ o.tk.ems_owner = tk.ems_owner /\ o.tk.oms_owner = tk.oms_owner
      /\ o.tk.quote_id = tk.quote_id /\ o.tk.auth_user = tk.auth_user
  BY DEF Settling, Stay, TicketRec
<1> HIDE DEF o
<1>3. Moves(tk, o.tk, o.keep, o.send) /\ Exists(o.tk)
  BY <1>1, <1>2 DEF Moves, Exists, Early, Chain, Unsure, OmsTerminal, Settled, SettlementStates
<1> QED
  BY <1>3 DEF o

\* One pass of cycle_ticket.
LEMMA CycleMoves ==
  ASSUME NEW t, NEW tk \in TicketRec, Exists(tk), NEW o \in Cycle(t, tk)
  PROVE  Moves(tk, o.tk, o.keep, o.send) /\ Exists(o.tk)
<1>1. CASE Expired(t, tk)
  <2> DEFINE now == Cancelled(tk)
             p == Remove(now)
  <2>1. now \in TicketRec /\ Exists(now) /\ now.internal_state = "CANCELED"
    BY DEF Cancelled, TicketRec, InternalStates, Exists
  <2>2. Moves(now, p.tk, p.keep, p.send) /\ Exists(p.tk)
    BY <2>1, RemoveMoves
  <2>3. /\ now.phase = tk.phase /\ now.action = tk.action /\ now.ems_owner = tk.ems_owner
        /\ now.oms_owner = tk.oms_owner /\ now.quote_id = tk.quote_id /\ now.auth_user = tk.auth_user
    BY DEF Cancelled, TicketRec
  <2>4. p.send = FALSE /\ p.tk.internal_state = "CANCELED"
    BY <2>1 DEF Remove, Stay, TicketRec
  <2>5. o = p
    BY <1>1 DEF Cycle
  <2> HIDE DEF now, p
  <2> QED
    BY <2>1, <2>2, <2>3, <2>4, <2>5 DEF Moves, Early, Chain, Unsure, OmsTerminal, Settled, SettlementStates
<1>2. CASE ~Expired(t, tk)
  <2>1. CASE tk.internal_state \in Chain /\ ~tk.paused
    BY <1>2, <2>1, AdvanceMoves DEF Cycle
  <2>2. CASE tk.internal_state = "ACCEPTED"
    BY <1>2, <2>2, DispatchMoves DEF Cycle, Chain
  <2>3. CASE tk.internal_state \in SettlementStates
    <3>1. o \in {Settling(tk, s) : s \in {"PENDSETTLE", "PENDBENE", "BOOKING_FAILURE"}}
      BY <1>2, <2>3 DEF Cycle, Chain, SettlementStates
    <3>2. PICK s \in Settled : o = Settling(tk, s)
      BY <3>1 DEF Settled
    <3> QED
      BY <2>3, <3>2, SettlingMoves
  <2>4. CASE tk.internal_state \in OmsTerminal /\ ~Lingers(t, tk)
    BY <1>2, <2>4, RemoveMoves DEF Cycle, Chain, SettlementStates, OmsTerminal
  <2>5. CASE /\ ~(tk.internal_state \in Chain /\ ~tk.paused)
             /\ tk.internal_state # "ACCEPTED"
             /\ tk.internal_state \notin SettlementStates
             /\ ~(tk.internal_state \in OmsTerminal /\ ~Lingers(t, tk))
    <3>1. o = Stay(tk)
      BY <1>2, <2>5 DEF Cycle
    <3> QED
      BY <3>1 DEF Stay, Moves
  <2> QED
    BY <2>1, <2>2, <2>3, <2>4, <2>5
<1> QED
  BY <1>1, <1>2

\* A control request moves a ticket only before it is accepted.
LEMMA ControlledMoves ==
  ASSUME NEW op \in ControlOps \ {"CANCEL"}, NEW tk \in TicketRec, Exists(tk), Accepts(op, tk)
  PROVE  Moves(tk, Controlled(op, tk), TRUE, FALSE) /\ Exists(Controlled(op, tk))
<1>1. Controlled(op, tk) \in TicketRec
  BY ControlledType
<1>2. CASE op = "PAUSE" \/ op = "RESUME"
  BY <1>1, <1>2 DEF Controlled, Moves, TicketRec, Exists, Early, Chain
<1>3. CASE op = "ACTIVATE"
  BY <1>1, <1>3 DEF Controlled, Accepts, Moves, TicketRec, Exists, Early, Chain, Unsure, OmsTerminal
<1>4. CASE op = "AUTHORIZE"
  BY <1>1, <1>4 DEF Controlled, Accepts, Moves, TicketRec, Exists, Early, Chain, Unsure, OmsTerminal
<1> QED
  BY <1>2, <1>3, <1>4 DEF ControlOps

\* So does a cancel, and the pass of the OMS that ends it.
LEMMA CancelMoves ==
  ASSUME NEW t, NEW tk \in TicketRec, Exists(tk), Accepts("CANCEL", tk),
         NEW now, now = IF tk.ems_owner THEN [tk EXCEPT !.external_state = "PENDCANCEL"] ELSE Cancelled(tk),
         NEW o \in Cycle(t, now)
  PROVE  now \in TicketRec /\ Moves(tk, o.tk, o.keep, o.send) /\ Exists(o.tk)
<1>1. /\ now \in TicketRec /\ Exists(now)
      /\ now.phase = tk.phase /\ now.action = tk.action /\ now.ems_owner = tk.ems_owner
      /\ now.oms_owner = tk.oms_owner /\ now.quote_id = tk.quote_id
      /\ now.auth_user = tk.auth_user /\ now.paused = tk.paused
      /\ IF tk.ems_owner THEN now.internal_state = tk.internal_state ELSE now.internal_state = "CANCELED"
  BY DEF Cancelled, TicketRec, InternalStates, ExternalStates, Exists
<1>2. Moves(now, o.tk, o.keep, o.send) /\ Exists(o.tk)
  BY <1>1, CycleMoves
<1>3. Moves(tk, o.tk, o.keep, o.send)
  BY <1>1, <1>2 DEF Moves, Early, Chain, Unsure, OmsTerminal, Settled, SettlementStates
<1> QED
  BY <1>1, <1>2, <1>3

-----------------------------------------------------------------------------
(***************************************************************************)
(* The steps, by what they do to one ticket.  First the API: it creates a  *)
(* ticket, asks for something, reads a ticket, writes a copy of one, or    *)
(* forgets what it read.                                                   *)
(***************************************************************************)
OrderOps == {"CREATE", "EXECUTE_RFQ"}

Reads(c, t) == req[c] # NoReq /\ req[c].t = t

\* What no API call touches.
Aside == UNCHANGED <<emsQ, notes, oms, ems, job, ended, admitted, sent, taken, booked>>

Created(t, tk) ==
  /\ ~Exists(row[t])
  /\ row' = [row EXCEPT ![t] = tk]
  /\ tk \in TicketRec /\ Exists(tk) /\ tk.phase = "PRETRADE"
  /\ ~tk.oms_owner /\ ~tk.ems_owner /\ ~tk.paused
  /\ \/ /\ tk.action = "execute" /\ tk.internal_state \in {"NEW", "DRAFT"}
        /\ apiQ' = Append(apiQ, [t |-> t, op |-> "CREATE", tk |-> tk])
     \/ /\ tk.action = "rfq" /\ tk.internal_state \in {"NEW", "FAILED", "RFQ_DONE"} /\ ~tk.auth_user
        /\ UNCHANGED apiQ
  /\ UNCHANGED <<req, lapsed, overwrites, restarts>>
  /\ Aside

Asked(t, op) ==
  /\ op \in ControlOps
  /\ apiQ' = Append(apiQ, [t |-> t, op |-> op, tk |-> NoTicket])
  /\ UNCHANGED <<row, req, lapsed, overwrites, restarts>>
  /\ Aside

Took(c, t, op) ==
  /\ req[c] = NoReq
  /\ Exists(row[t])
  /\ \/ op = "EXECUTE_RFQ" /\ row[t].action = "rfq" /\ row[t].internal_state = "RFQ_DONE"
     \/ op = "REFRESH" /\ "REFRESH" \in Ops
  /\ req' = [req EXCEPT ![c] = [t |-> t, op |-> op, tk |-> row[t]]]
  /\ UNCHANGED <<row, apiQ, lapsed, overwrites, restarts>>
  /\ Aside

Wrote(c, tk) ==
  /\ req[c] # NoReq
  /\ row' = [row EXCEPT ![req[c].t] = tk]
  /\ overwrites' = [overwrites EXCEPT ![req[c].t] = @ + (IF row[req[c].t].action = "execute" THEN 1 ELSE 0)]
  /\ req' = [req EXCEPT ![c] = NoReq]
  /\ tk \in TicketRec
  /\ tk.oms_owner = req[c].tk.oms_owner /\ tk.ems_owner = req[c].tk.ems_owner /\ tk.paused = req[c].tk.paused
  /\ \/ /\ req[c].op = "EXECUTE_RFQ" /\ tk.action = "execute" /\ tk.auth_user
        /\ tk.internal_state = "ACCEPTED" /\ tk.phase = "PRETRADE" /\ tk.external_state = "ACTIVE"
        /\ \/ UNCHANGED restarts /\ apiQ' = Append(apiQ, [t |-> req[c].t, op |-> "EXECUTE_RFQ", tk |-> tk])
           \/ restarts' = restarts + 1 /\ UNCHANGED apiQ
     \/ /\ req[c].op = "EXECUTE_RFQ" /\ tk.action = "execute" /\ tk.auth_user
        /\ tk.internal_state = "FAILED" /\ tk.phase = req[c].tk.phase
        /\ UNCHANGED <<apiQ, restarts>>
     \/ /\ req[c].op = "REFRESH" /\ tk.action = req[c].tk.action /\ tk.auth_user = req[c].tk.auth_user
        /\ tk.internal_state \in {"RFQ_DONE", "FAILED"} /\ tk.phase = "PRETRADE"
        /\ UNCHANGED <<apiQ, restarts>>
  /\ Aside

Dropped(c) ==
  /\ req[c] # NoReq
  /\ req' = [req EXCEPT ![c] = NoReq]
  /\ UNCHANGED <<row, apiQ, lapsed, overwrites, restarts>>
  /\ Aside

\* A new ticket belongs to nobody.
LEMMA NewTicketFacts ==
  ASSUME NEW action \in Actions, NEW state \in InternalStates \ {"NONE"}, NEW auth \in BOOLEAN
  PROVE  LET tk == NewTicket(action, state, auth, FALSE) IN
         /\ tk \in TicketRec /\ Exists(tk) /\ tk.phase = "PRETRADE"
         /\ ~tk.oms_owner /\ ~tk.ems_owner /\ ~tk.paused
         /\ tk.action = action /\ tk.internal_state = state /\ tk.auth_user = auth
<1>1. NewTicket(action, state, auth, FALSE) \in TicketRec
  BY NewTicketType
<1>2. NoTicket \in TicketRec /\ NoTicket.phase = "PRETRADE" /\ ~NoTicket.oms_owner
      /\ ~NoTicket.ems_owner /\ ~NoTicket.paused
  BY NoTicketType DEF NoTicket
<1> QED
  BY <1>1, <1>2 DEF NewTicket, TicketRec, Exists

\* A quote changes the state of a ticket only.
LEMMA QuoteFacts ==
  ASSUME NEW tk \in TicketRec, NEW new \in {Requoted(tk), Unquoted(tk)}
  PROVE  /\ new \in TicketRec /\ new.phase = "PRETRADE" /\ new.internal_state \in {"RFQ_DONE", "FAILED"}
         /\ new.oms_owner = tk.oms_owner /\ new.ems_owner = tk.ems_owner /\ new.paused = tk.paused
         /\ new.action = tk.action /\ new.auth_user = tk.auth_user
<1>1. new \in TicketRec
  BY QuoteType
<1> QED
  BY <1>1 DEF Requoted, Unquoted, TicketRec

\* An execution authorises a ticket.
LEMMA ExecutingFacts ==
  ASSUME NEW tk \in TicketRec, NEW state \in InternalStates
  PROVE  LET new == Executing(tk, state) IN
         /\ new \in TicketRec /\ new.internal_state = state /\ new.action = "execute" /\ new.auth_user
         /\ new.oms_owner = tk.oms_owner /\ new.ems_owner = tk.ems_owner /\ new.paused = tk.paused
         /\ new.phase = tk.phase
<1>1. Executing(tk, state) \in TicketRec
  BY ExecutingType
<1> QED
  BY <1>1 DEF Executing, TicketRec

\* What do_execute_rfq saves.
LEMMA ExecutionFacts ==
  ASSUME TypeOK, NEW c \in Client, req[c] # NoReq
  PROVE  LET new == Execution(c) IN
         /\ new \in TicketRec /\ new.internal_state = "ACCEPTED" /\ new.action = "execute" /\ new.auth_user
         /\ new.phase = "PRETRADE" /\ new.external_state = "ACTIVE"
         /\ new.oms_owner = req[c].tk.oms_owner /\ new.ems_owner = req[c].tk.ems_owner
         /\ new.paused = req[c].tk.paused
<1> DEFINE old == Executing(req[c].tk, "ACCEPTED")
<1>1. req[c].tk \in TicketRec
  BY ReqType
<1>2. /\ old \in TicketRec /\ old.internal_state = "ACCEPTED" /\ old.action = "execute" /\ old.auth_user
      /\ old.oms_owner = req[c].tk.oms_owner /\ old.ems_owner = req[c].tk.ems_owner
      /\ old.paused = req[c].tk.paused
  BY <1>1, ExecutingFacts DEF InternalStates
<1>3. Execution(c) = [old EXCEPT !.external_state = "ACTIVE", !.phase = "PRETRADE"]
  BY DEF Execution
<1> HIDE DEF old
<1> QED
  BY <1>2, <1>3 DEF TicketRec, ExternalStates, Phases

\* Every API step is one of these.
LEMMA ApiSteps ==
  ASSUME Typed, ApiNext \/ \E c \in Client : ApiCrash(c)
  PROVE  \/ \E t \in Ticket, tk \in TicketRec : Created(t, tk)
         \/ \E t \in Ticket, op \in ControlOps : Asked(t, op)
         \/ \E c \in Client, t \in Ticket, op \in {"EXECUTE_RFQ", "REFRESH"} : Took(c, t, op)
         \/ \E c \in Client, tk \in TicketRec : Wrote(c, tk)
         \/ \E c \in Client : Dropped(c)
<1> USE DEF Aside, envVars, countVars, dbVars
<1>1. ASSUME NEW t \in Ticket, CreateExecute(t)
      PROVE  \E tk \in TicketRec : Created(t, tk)
  <2>1. PICK state \in {"NEW", "DRAFT"}, auth \in BOOLEAN :
          LET tk == NewTicket("execute", state, auth, FALSE) IN
          /\ row' = [row EXCEPT ![t] = tk]
          /\ apiQ' = Append(apiQ, [t |-> t, op |-> "CREATE", tk |-> tk])
    BY <1>1 DEF CreateExecute
  <2> DEFINE tk == NewTicket("execute", state, auth, FALSE)
  <2>2. /\ tk \in TicketRec /\ Exists(tk) /\ tk.phase = "PRETRADE"
        /\ ~tk.oms_owner /\ ~tk.ems_owner /\ ~tk.paused
        /\ tk.action = "execute" /\ tk.internal_state = state
    BY NewTicketFacts DEF InternalStates, Actions
  <2> HIDE DEF tk
  <2>3. Created(t, tk)
    BY <1>1, <2>1, <2>2 DEF tk, Created, CreateExecute
  <2> QED
    BY <2>2, <2>3
<1>2. ASSUME NEW t \in Ticket, CreateRfq(t)
      PROVE  \E tk \in TicketRec : Created(t, tk)
  <2>1. ASSUME NEW state \in {"NEW", "FAILED"}
        PROVE  LET tk == NewTicket("rfq", state, FALSE, FALSE) IN
               /\ tk \in TicketRec /\ Exists(tk) /\ tk.phase = "PRETRADE"
               /\ ~tk.oms_owner /\ ~tk.ems_owner /\ ~tk.paused
               /\ tk.action = "rfq" /\ tk.internal_state = state /\ tk.auth_user = FALSE
    <3>1. state \in InternalStates \ {"NONE"} /\ "rfq" \in Actions
      BY DEF InternalStates, Actions
    <3> QED
      BY <3>1, NewTicketFacts
  <2> DEFINE new == NewTicket("rfq", "NEW", FALSE, FALSE)
             quoted == Requoted(new)
  <2>2. new \in TicketRec /\ ~new.oms_owner /\ ~new.ems_owner /\ ~new.paused /\ new.action = "rfq" /\ ~new.auth_user
    BY <2>1
  <2> HIDE DEF new
  <2>3. quoted.internal_state = "RFQ_DONE"
    BY <2>2 DEF Requoted, TicketRec
  <2>4. /\ quoted \in TicketRec /\ Exists(quoted) /\ quoted.phase = "PRETRADE"
        /\ ~quoted.oms_owner /\ ~quoted.ems_owner /\ ~quoted.paused
        /\ quoted.action = "rfq" /\ ~quoted.auth_user
    BY <2>2, <2>3, QuoteFacts DEF Exists
  <2> HIDE DEF quoted
  <2>5. CASE row' = [row EXCEPT ![t] = quoted]
    BY <1>2, <2>3, <2>4, <2>5 DEF Created, CreateRfq
  <2>6. CASE \E state \in {"NEW", "FAILED"} : row' = [row EXCEPT ![t] = NewTicket("rfq", state, FALSE, FALSE)]
    <3>1. PICK state \in {"NEW", "FAILED"} : row' = [row EXCEPT ![t] = NewTicket("rfq", state, FALSE, FALSE)]
      BY <2>6
    <3> QED
      BY <1>2, <2>1, <3>1 DEF Created, CreateRfq
  <2> QED
    BY <1>2, <2>5, <2>6 DEF CreateRfq, new, quoted
<1>3. ASSUME NEW t \in Ticket, NEW op \in ControlOps, RequestControl(t, op)
      PROVE  Asked(t, op)
  BY <1>3 DEF RequestControl, Asked
<1>4. ASSUME NEW c \in Client, CommitExecute(c) \/ ApiCrash(c)
      PROVE  Wrote(c, Execution(c)) /\ Execution(c) \in TicketRec
  <2>1. req[c] # NoReq /\ TypeOK
    BY <1>4 DEF CommitExecute, ApiCrash, SaveRequest, Typed
  <2>2. LET new == Execution(c) IN
         /\ new \in TicketRec /\ new.internal_state = "ACCEPTED" /\ new.action = "execute" /\ new.auth_user
         /\ new.phase = "PRETRADE" /\ new.external_state = "ACTIVE"
         /\ new.oms_owner = req[c].tk.oms_owner /\ new.ems_owner = req[c].tk.ems_owner
         /\ new.paused = req[c].tk.paused
    BY <2>1, ExecutionFacts
  <2> DEFINE tk == Execution(c)
  <2> HIDE DEF tk
  <2> QED
    BY <1>4, <2>1, <2>2 DEF tk, CommitExecute, ApiCrash, Die, SaveRequest, Wrote
<1>5. ASSUME NEW c \in Client, RefuseExecute(c)
      PROVE  \E tk \in TicketRec : Wrote(c, tk)
  <2>1. req[c] # NoReq /\ req[c].tk \in TicketRec
    BY <1>5, ReqType DEF RefuseExecute, SaveRequest, Typed
  <2> DEFINE tk == Executing(req[c].tk, "FAILED")
  <2>2. /\ tk \in TicketRec /\ tk.internal_state = "FAILED" /\ tk.action = "execute" /\ tk.auth_user
        /\ tk.oms_owner = req[c].tk.oms_owner /\ tk.ems_owner = req[c].tk.ems_owner
        /\ tk.paused = req[c].tk.paused /\ tk.phase = req[c].tk.phase
    BY <2>1, ExecutingFacts DEF InternalStates
  <2> HIDE DEF tk
  <2>3. Wrote(c, tk)
    BY <1>5, <2>1, <2>2 DEF tk, RefuseExecute, SaveRequest, Wrote
  <2> QED
    BY <2>2, <2>3
<1>6. ASSUME NEW c \in Client, CommitRefresh(c)
      PROVE  \E tk \in TicketRec : Wrote(c, tk)
  <2>1. req[c] # NoReq /\ req[c].tk \in TicketRec
    BY <1>6, ReqType DEF CommitRefresh, SaveRequest, Typed
  <2>2. PICK tk \in {Requoted(req[c].tk), Unquoted(req[c].tk)} : SaveRequest(c, "REFRESH", tk)
    BY <1>6 DEF CommitRefresh
  <2>3. /\ tk \in TicketRec /\ tk.phase = "PRETRADE" /\ tk.internal_state \in {"RFQ_DONE", "FAILED"}
        /\ tk.oms_owner = req[c].tk.oms_owner /\ tk.ems_owner = req[c].tk.ems_owner
        /\ tk.paused = req[c].tk.paused
        /\ tk.action = req[c].tk.action /\ tk.auth_user = req[c].tk.auth_user
    BY <2>1, QuoteFacts
  <2>4. Wrote(c, tk)
    BY <1>6, <2>1, <2>2, <2>3 DEF CommitRefresh, SaveRequest, Wrote
  <2> QED
    BY <2>3, <2>4
<1>7. ASSUME NEW c \in Client, DropRequest(c)
      PROVE  Dropped(c)
  BY <1>7 DEF DropRequest, Dropped
<1>8. ASSUME NEW c \in Client, NEW t \in Ticket, ReadQuoted(c, t)
      PROVE  Took(c, t, "EXECUTE_RFQ")
  BY <1>8 DEF ReadQuoted, Took, Exists
<1>9. ASSUME NEW c \in Client, NEW t \in Ticket, ReadToRefresh(c, t)
      PROVE  Took(c, t, "REFRESH")
  BY <1>9 DEF ReadToRefresh, Took
<1> QED
  BY <1>1, <1>2, <1>3, <1>4, <1>5, <1>6, <1>7, <1>8, <1>9 DEF ApiNext

-----------------------------------------------------------------------------
(***************************************************************************)
(* Requests are as the API makes them: a CREATE carries a new ticket, an   *)
(* EXECUTE_RFQ an accepted and authorised one, made of a quoted one.       *)
(***************************************************************************)
Request ==
  {m \in ApiMsg :
     /\ m.op = "CREATE" =>
          /\ m.tk.internal_state \in {"NEW", "DRAFT"} /\ m.tk.action = "execute" /\ m.tk.phase = "PRETRADE"
          /\ ~m.tk.oms_owner /\ ~m.tk.ems_owner /\ ~m.tk.paused
     /\ m.op = "EXECUTE_RFQ" =>
          /\ m.tk.internal_state = "ACCEPTED" /\ m.tk.external_state = "ACTIVE"
          /\ m.tk.action = "execute" /\ m.tk.phase = "PRETRADE" /\ m.tk.auth_user}

Shaped ==
  /\ Typed
  /\ apiQ \in Seq(Request)
  /\ \A c \in Client : req[c] # NoReq /\ req[c].op = "EXECUTE_RFQ" => req[c].tk.action = "rfq"

-----------------------------------------------------------------------------
(***************************************************************************)
(* The steps of the OMS: a turn on a ticket it holds, the intake of one, a *)
(* notification, a refusal.                                                *)
(***************************************************************************)
OmsAside == UNCHANGED <<notes, ems, job, req, ended, lapsed, asks, taken, booked, overwrites, restarts>>

Own(tk) == [tk EXCEPT !.oms_owner = TRUE]

\* What becomes of the cache and of the EMS's topic.
Kept(t, now, keep, send, phase) ==
  /\ oms' = [oms EXCEPT ![t] = IF keep THEN now ELSE NoTicket]
  /\ IF send
       THEN /\ emsQ' = Append(emsQ, [t |-> t, tk |-> [now EXCEPT !.phase = phase]])
            /\ sent' = [sent EXCEPT ![t] = @ + 1]
       ELSE UNCHANGED <<emsQ, sent>>

Turned(t, now, new, keep, send) ==
  /\ Held(t)
  /\ Moves(oms[t], now, keep, send) /\ Exists(now)
  /\ Written(oms[t], now, row[t], new)
  /\ row' = [row EXCEPT ![t] = new]
  /\ Kept(t, now, keep, send, oms[t].phase)
  /\ \/ UNCHANGED apiQ
     \/ apiQ # <<>> /\ Head(apiQ).op \in ControlOps /\ apiQ' = Tail(apiQ)
  /\ UNCHANGED admitted
  /\ OmsAside

TookIn(t, now, new, keep, send) ==
  /\ apiQ # <<>> /\ Head(apiQ).t = t /\ Head(apiQ).op \in OrderOps
  /\ Moves(Own(Head(apiQ).tk), now, keep, send) /\ Exists(now)
  /\ Written(Head(apiQ).tk, now, row[t], new) /\ new.oms_owner = now.oms_owner
  /\ row' = [row EXCEPT ![t] = new]
  /\ Kept(t, now, keep, send, Head(apiQ).tk.phase)
  /\ apiQ' = Tail(apiQ)
  /\ admitted' = [admitted EXCEPT ![t] = @ + 1]
  /\ OmsAside

\* Owning a ticket changes nothing else.
LEMMA OwnFacts ==
  ASSUME NEW tk \in TicketRec
  PROVE  /\ Own(tk) \in TicketRec /\ Own(tk).oms_owner = TRUE /\ Own(tk).ems_owner = tk.ems_owner
         /\ Own(tk).internal_state = tk.internal_state /\ Own(tk).phase = tk.phase
         /\ Own(tk).action = tk.action /\ Own(tk).quote_id = tk.quote_id
         /\ Own(tk).auth_user = tk.auth_user /\ Own(tk).paused = tk.paused
         /\ tk.internal_state = "ACCEPTED" /\ tk.external_state = "ACTIVE" /\ tk.phase = "PRETRADE"
              => Own(tk) = [tk EXCEPT !.oms_owner = TRUE, !.internal_state = "ACCEPTED",
                                      !.external_state = "ACTIVE", !.phase = "PRETRADE"]
  BY DEF Own, TicketRec

\* A ticket taken in is the one in the request, owned.
LEMMA AdmittedFacts ==
  ASSUME Shaped, apiQ # <<>>, NEW m, m = Head(apiQ), m.op \in OrderOps
  PROVE  /\ m \in Request /\ m.t \in Ticket /\ m.tk \in TicketRec /\ Exists(m.tk)
         /\ Admitted(m) = Own(m.tk) /\ Own(m.tk) \in TicketRec /\ Exists(Own(m.tk))
         /\ Own(m.tk).phase = m.tk.phase
<1>1. m \in Request
  BY QueueType DEF Shaped
<1>2. m.t \in Ticket /\ m.tk \in TicketRec
  BY <1>1 DEF Request, ApiMsg
<1>3. m.tk.internal_state \in {"NEW", "DRAFT", "ACCEPTED"}
  BY <1>1 DEF Request, OrderOps
<1>4. Own(m.tk) \in TicketRec /\ Exists(Own(m.tk)) /\ Exists(m.tk) /\ Own(m.tk).phase = m.tk.phase
  BY <1>2, <1>3, OwnFacts DEF Exists
<1>5. ASSUME m.op = "CREATE" PROVE Admitted(m) = Own(m.tk)
  BY <1>5 DEF Admitted, Own
<1>6. ASSUME m.op = "EXECUTE_RFQ" PROVE Admitted(m) = Own(m.tk)
  <2>1. m.tk.internal_state = "ACCEPTED" /\ m.tk.external_state = "ACTIVE" /\ m.tk.phase = "PRETRADE"
    BY <1>1, <1>6 DEF Request
  <2> QED
    BY <1>2, <1>6, <2>1, OwnFacts DEF Admitted
<1> QED
  BY <1>1, <1>2, <1>4, <1>5, <1>6 DEF OrderOps

\* What a pass commits.
LEMMA CommitFacts ==
  ASSUME Typed, NEW t \in Ticket, NEW r \in TicketRec, NEW was \in TicketRec, NEW o,
         o.tk \in TicketRec, o.send \in BOOLEAN, o.keep \in BOOLEAN, Commit(t, r, was, o)
  PROVE  /\ Written(was, o.tk, r, Saved(was, o.tk, r))
         /\ Saved(was, o.tk, r) \in TicketRec
         /\ row' = [row EXCEPT ![t] = Saved(was, o.tk, r)]
         /\ Kept(t, o.tk, o.keep, o.send, was.phase)
<1>1. CASE o.send
  <2>1. sent' = [sent EXCEPT ![t] = @ + 1]
    BY <1>1 DEF Commit
  <2> QED
    BY <1>1, <2>1, SavedWritten, SavedType DEF Commit, Kept
<1>2. CASE ~o.send
  <2>1. sent' = sent
    BY <1>2 DEF Commit, Typed, TypeOK
  <2> QED
    BY <1>2, <2>1, SavedWritten, SavedType DEF Commit, Kept
<1> QED
  BY <1>1, <1>2

\* The intake of a ticket.
LEMMA IntakeSteps ==
  ASSUME Shaped, OmsAdmit
  PROVE  \E t \in Ticket, now, new \in TicketRec, keep, send \in BOOLEAN : TookIn(t, now, new, keep, send)
<1> DEFINE m == Head(apiQ)
           t == m.t
           was == m.tk
           own == Own(was)
           r1 == Saved(was, own, row[t])
           r == AdmittedRow(m)
<1>1. apiQ # <<>> /\ m.op \in OrderOps
  BY DEF OmsAdmit, Next1, OrderOps
<1>2. /\ t \in Ticket /\ was \in TicketRec /\ own \in TicketRec /\ Exists(own) /\ own.phase = was.phase
      /\ Admitted(m) = own
  BY <1>1, AdmittedFacts
<1>3. PICK o \in Cycle(t, own) : Commit(t, r, own, o)
  BY <1>2 DEF OmsAdmit
<1>4. row[t] \in TicketRec
  BY <1>2 DEF Shaped, Typed, TypeOK
<1>5. r1 \in TicketRec /\ Written(was, own, row[t], r1)
  BY <1>2, <1>4, SavedWritten, SavedType
<1>6. r = [r1 EXCEPT !.oms_owner = TRUE]
  BY <1>2 DEF AdmittedRow
<1>7. own.oms_owner = TRUE
  BY <1>2 DEF Own, TicketRec
<1> DEFINE new == Saved(own, o.tk, r)
<1>8. r \in TicketRec /\ r.oms_owner = TRUE /\ Written(was, own, row[t], r)
  <2> HIDE DEF r1, own, was, t, r
  <2> QED
    BY <1>5, <1>6, <1>7 DEF Written, Col, TicketRec
<1> HIDE DEF r1, r
<1>9. Moves(own, o.tk, o.keep, o.send) /\ Exists(o.tk)
  BY <1>2, <1>3, CycleMoves
<1>10. o.tk \in TicketRec /\ o.keep \in BOOLEAN /\ o.send \in BOOLEAN
  BY <1>9 DEF Moves
<1>11. /\ Written(own, o.tk, r, new) /\ new \in TicketRec
       /\ row' = [row EXCEPT ![t] = new]
       /\ Kept(t, o.tk, o.keep, o.send, own.phase)
  BY <1>2, <1>3, <1>8, <1>10, CommitFacts DEF Shaped
<1>12. Written(was, o.tk, row[t], new)
  <2>1. SameBut(was, own) /\ own.internal_state = was.internal_state
    BY <1>2, OwnFacts DEF SameBut
  <2> HIDE DEF was, own, new
  <2> QED
    BY <1>8, <1>11, <2>1, WrittenTwice
<1>13. new.oms_owner = o.tk.oms_owner
  BY <1>7, <1>8, <1>11 DEF Written, Col
<1> HIDE DEF new, own, was
<1>14. TookIn(t, o.tk, new, o.keep, o.send)
  <2>1. Moves(Own(Head(apiQ).tk), o.tk, o.keep, o.send)
    BY <1>9 DEF own, was
  <2>2. Kept(t, o.tk, o.keep, o.send, Head(apiQ).tk.phase)
    BY <1>2, <1>11 DEF was
  <2>3. Written(Head(apiQ).tk, o.tk, row[t], new)
    BY <1>12 DEF was
  <2>4. apiQ' = Tail(apiQ) /\ admitted' = [admitted EXCEPT ![t] = @ + 1] /\ OmsAside
    BY DEF OmsAdmit, OmsAside, envVars
  <2> QED
    BY <1>1, <1>9, <1>11, <1>13, <2>1, <2>2, <2>3, <2>4 DEF TookIn
<1> QED
  BY <1>2, <1>10, <1>11, <1>14

\* A ticket's copy is replaced by the row when the EMS tells of a change.
Noticed(t) ==
  /\ notes[t] > 0
  /\ notes' = [notes EXCEPT ![t] = @ - 1]
  /\ oms' = [oms EXCEPT ![t] = IF Held(t) THEN row[t] ELSE @]
  /\ UNCHANGED <<row, apiQ, emsQ, ems, job, req, ended, lapsed, asks, admitted, sent, taken, booked,
                 overwrites, restarts>>

\* A control request is dropped.
Refused ==
  /\ apiQ # <<>> /\ Head(apiQ).op \in ControlOps /\ apiQ' = Tail(apiQ)
  /\ UNCHANGED <<row, emsQ, notes, oms, ems, job, req, ended, lapsed, asks, admitted, sent, taken, booked,
                 overwrites, restarts>>

\* A pass over a ticket in the cache.
LEMMA PassTurns ==
  ASSUME Typed, NEW t \in Ticket, OmsCycle(t)
  PROVE  \E now, new \in TicketRec, keep, send \in BOOLEAN : Turned(t, now, new, keep, send)
<1>1. PICK o \in Cycle(t, oms[t]) : Commit(t, row[t], oms[t], o)
  BY DEF OmsCycle
<1>2. oms[t] \in TicketRec /\ row[t] \in TicketRec /\ Exists(oms[t])
  BY DEF Typed, TypeOK, OmsCycle, Held
<1>3. Moves(oms[t], o.tk, o.keep, o.send) /\ Exists(o.tk)
  BY <1>2, CycleMoves
<1>4. o.tk \in TicketRec /\ o.keep \in BOOLEAN /\ o.send \in BOOLEAN
  BY <1>3 DEF Moves
<1> DEFINE new == Saved(oms[t], o.tk, row[t])
<1>5. /\ Written(oms[t], o.tk, row[t], new) /\ new \in TicketRec
      /\ row' = [row EXCEPT ![t] = new]
      /\ Kept(t, o.tk, o.keep, o.send, oms[t].phase)
  BY <1>1, <1>2, <1>4, CommitFacts
<1> HIDE DEF new
<1>6. UNCHANGED apiQ /\ UNCHANGED admitted /\ OmsAside /\ Held(t)
  BY DEF OmsCycle, OmsAside, envVars
<1>7. Turned(t, o.tk, new, o.keep, o.send)
  BY <1>3, <1>5, <1>6 DEF Turned
<1> QED
  BY <1>4, <1>5, <1>7

\* A control request carried out.
LEMMA ControlTurns ==
  ASSUME Typed, NEW op \in ControlOps \ {"CANCEL"}, OmsControl(op)
  PROVE  \E t \in Ticket, now, new \in TicketRec, keep, send \in BOOLEAN : Turned(t, now, new, keep, send)
<1> DEFINE t == Head(apiQ).t
           now == Controlled(op, oms[t])
           new == Saved(oms[t], now, row[t])
<1>1. apiQ # <<>> /\ Head(apiQ).op \in ControlOps /\ apiQ' = Tail(apiQ)
  BY DEF OmsControl, Next1
<1>2. t \in Ticket
  BY <1>1, ApiHeadType
<1>3. oms[t] \in TicketRec /\ row[t] \in TicketRec /\ Exists(oms[t]) /\ Accepts(op, oms[t])
  BY <1>2 DEF Typed, TypeOK, OmsControl, Held
<1>4. Moves(oms[t], now, TRUE, FALSE) /\ Exists(now) /\ now \in TicketRec
  BY <1>3, ControlledMoves, ControlledType
<1>5. Commit(t, row[t], oms[t], Stay(now))
  BY DEF OmsControl
<1> HIDE DEF t, now
<1>6. PICK o : o = Stay(now)
  OBVIOUS
<1>10. o.tk = now /\ o.keep = TRUE /\ o.send = FALSE /\ o.keep \in BOOLEAN /\ o.send \in BOOLEAN
  BY <1>6 DEF Stay
<1>7. /\ Written(oms[t], now, row[t], new) /\ new \in TicketRec
      /\ row' = [row EXCEPT ![t] = new]
      /\ Kept(t, now, TRUE, FALSE, oms[t].phase)
  <2>1. Commit(t, row[t], oms[t], o)
    BY <1>5, <1>6
  <2>2. /\ Written(oms[t], o.tk, row[t], Saved(oms[t], o.tk, row[t])) /\ Saved(oms[t], o.tk, row[t]) \in TicketRec
        /\ row' = [row EXCEPT ![t] = Saved(oms[t], o.tk, row[t])]
        /\ Kept(t, o.tk, o.keep, o.send, oms[t].phase)
    BY <1>2, <1>3, <1>4, <1>10, <2>1, CommitFacts
  <2> QED
    BY <1>10, <2>2
<1> HIDE DEF new
<1>8. UNCHANGED admitted /\ OmsAside /\ Held(t)
  BY DEF t, OmsControl, OmsAside, envVars
<1>9. Turned(t, now, new, TRUE, FALSE)
  BY <1>1, <1>4, <1>7, <1>8 DEF Turned
<1> QED
  BY <1>2, <1>4, <1>7, <1>9

\* A cancel carried out: saved, and cycled.
LEMMA CancelTurns ==
  ASSUME Typed, OmsCancel
  PROVE  \E t \in Ticket, now, new \in TicketRec, keep, send \in BOOLEAN : Turned(t, now, new, keep, send)
<1> DEFINE t == Head(apiQ).t
           was == oms[t]
           mid == IF was.ems_owner THEN [was EXCEPT !.external_state = "PENDCANCEL"] ELSE Cancelled(was)
           r1 == Saved(was, mid, row[t])
<1>1. apiQ # <<>> /\ Head(apiQ).op = "CANCEL" /\ apiQ' = Tail(apiQ)
  BY DEF OmsCancel, Next1
<1>2. t \in Ticket
  BY <1>1, ApiHeadType
<1>3. was \in TicketRec /\ row[t] \in TicketRec /\ Exists(was) /\ Accepts("CANCEL", was)
  BY <1>2 DEF Typed, TypeOK, OmsCancel, Held
<1>4. PICK o \in Cycle(t, mid) : Commit(t, r1, mid, o)
  BY DEF OmsCancel
<1>5. mid \in TicketRec /\ Moves(was, o.tk, o.keep, o.send) /\ Exists(o.tk)
  BY <1>3, CancelMoves
<1>6. SameBut(was, mid) /\ mid.internal_state \in {was.internal_state, "CANCELED"}
  BY <1>3 DEF SameBut, Cancelled, TicketRec
<1>7. o.tk \in TicketRec /\ o.keep \in BOOLEAN /\ o.send \in BOOLEAN
  BY <1>5 DEF Moves
<1>8. r1 \in TicketRec /\ Written(was, mid, row[t], r1)
  BY <1>3, <1>5, SavedWritten, SavedType
<1> DEFINE new == Saved(mid, o.tk, r1)
<1> HIDE DEF r1
<1>9. /\ Written(mid, o.tk, r1, new) /\ new \in TicketRec
      /\ row' = [row EXCEPT ![t] = new]
      /\ Kept(t, o.tk, o.keep, o.send, mid.phase)
  <2> HIDE DEF mid, was, t
  <2> QED
    BY <1>2, <1>4, <1>5, <1>7, <1>8, CommitFacts
<1> HIDE DEF new
<1>10. Written(was, o.tk, row[t], new) /\ mid.phase = was.phase
  <2>1. Exists(mid)
    BY <1>3 DEF Cancelled, TicketRec, Exists
  <2>2. Moves(mid, o.tk, o.keep, o.send)
    BY <1>4, <1>5, <2>1, CycleMoves
  <2>3. mid.internal_state \in {was.internal_state, o.tk.internal_state}
    BY <1>6, <2>2 DEF Moves, OmsTerminal
  <2> HIDE DEF mid, was
  <2> QED
    BY <1>6, <1>8, <1>9, <2>3, WrittenTwice DEF SameBut
<1> HIDE DEF mid
<1>11. UNCHANGED admitted /\ OmsAside /\ Held(t)
  BY DEF OmsCancel, OmsAside, envVars
<1>12. Turned(t, o.tk, new, o.keep, o.send)
  BY <1>1, <1>5, <1>9, <1>10, <1>11 DEF Turned, ControlOps
<1> QED
  BY <1>2, <1>7, <1>9, <1>12

\* Every step of the OMS is one of these.
LEMMA OmsSteps ==
  ASSUME Shaped, OmsNext
  PROVE  \/ \E t \in Ticket, now, new \in TicketRec, keep, send \in BOOLEAN :
              Turned(t, now, new, keep, send) \/ TookIn(t, now, new, keep, send)
         \/ \E t \in Ticket : Noticed(t)
         \/ Refused
<1>1. ASSUME NEW t \in Ticket, OmsReceive(t)
      PROVE  Noticed(t)
  BY <1>1 DEF OmsReceive, Noticed, envVars, countVars
<1>2. ASSUME OmsRefuse
      PROVE  Refused
  BY <1>2 DEF OmsRefuse, Refused, envVars, countVars
<1> QED
  BY <1>1, <1>2, PassTurns, ControlTurns, CancelTurns, IntakeSteps DEF OmsNext, OmsApi, Shaped

-----------------------------------------------------------------------------
(***************************************************************************)
(* The same steps as one ticket u sees them.  What waits for it in the     *)
(* topics: orders from the API, and calls to the EMS.                      *)
(***************************************************************************)
OrdersFor(u) == {m \in ApiMsg : m.t = u /\ m.op \in OrderOps}
CallsFor(u) == {m \in EmsMsg : m.t = u}

Orders(u) == Msgs(apiQ) \cap OrdersFor(u)
Calls(u) == Msgs(emsQ) \cap CallsFor(u)

OneOrder(u) == Once(apiQ, OrdersFor(u))
OneCall(u) == Once(emsQ, CallsFor(u))

SameOrders(u) == Orders(u)' = Orders(u) /\ (OneOrder(u) => OneOrder(u)')
MoreOrders(u, m) == Orders(u)' = Orders(u) \cup {m} /\ (OneOrder(u) /\ Orders(u) = {} => OneOrder(u)')
LessOrders(u, m) ==
  /\ m \in Orders(u) /\ Orders(u)' \subseteq Orders(u)
  /\ OneOrder(u) => OneOrder(u)' /\ Orders(u)' = {}

SameCalls(u) == Calls(u)' = Calls(u) /\ (OneCall(u) => OneCall(u)')
MoreCalls(u, m) == Calls(u)' = Calls(u) \cup {m} /\ (OneCall(u) /\ Calls(u) = {} => OneCall(u)')
LessCalls(u, m) ==
  /\ m \in Calls(u) /\ Calls(u)' \subseteq Calls(u)
  /\ OneCall(u) => OneCall(u)' /\ Calls(u)' = {}

\* A topic that did not change holds the same.
LEMMA QueueSame ==
  ASSUME NEW u
  PROVE  /\ UNCHANGED apiQ => SameOrders(u)
         /\ UNCHANGED emsQ => SameCalls(u)
  BY DEF SameOrders, Orders, OneOrder, OrdersFor, SameCalls, Calls, OneCall, CallsFor, Msgs, Once

\* What an enqueued request adds.
LEMMA OrdersAppend ==
  ASSUME Typed, NEW u, NEW m \in ApiMsg, apiQ' = Append(apiQ, m)
  PROVE  IF m.t = u /\ m.op \in OrderOps THEN MoreOrders(u, m) ELSE SameOrders(u)
<1>1. apiQ \in Seq(ApiMsg)
  BY DEF Typed, TypeOK
<1>2. Msgs(apiQ') = Msgs(apiQ) \cup {m}
  BY <1>1, MsgsAppend
<1>3. OneOrder(u) /\ (m \in OrdersFor(u) => Orders(u) = {}) => Once(apiQ', OrdersFor(u))
  BY <1>1, OnceAppend DEF OneOrder, Orders
<1>4. (m \in OrdersFor(u)) = (m.t = u /\ m.op \in OrderOps) /\ OrdersFor(u)' = OrdersFor(u)
  BY DEF OrdersFor
<1>5. Orders(u)' = Msgs(apiQ') \cap OrdersFor(u) /\ OneOrder(u)' = Once(apiQ', OrdersFor(u))
  BY <1>4 DEF Orders, OneOrder, Msgs, Once
<1> QED
  BY <1>2, <1>3, <1>4, <1>5 DEF MoreOrders, SameOrders, Orders

\* What a dequeued request takes away.
LEMMA OrdersTail ==
  ASSUME Typed, NEW u, apiQ # <<>>, apiQ' = Tail(apiQ)
  PROVE  IF Head(apiQ).t = u /\ Head(apiQ).op \in OrderOps THEN LessOrders(u, Head(apiQ)) ELSE SameOrders(u)
<1>1. apiQ \in Seq(ApiMsg)
  BY DEF Typed, TypeOK
<1>2. Msgs(apiQ) = {Head(apiQ)} \cup Msgs(apiQ')
  BY <1>1, MsgsTail
<1>3. OneOrder(u) => Once(apiQ', OrdersFor(u)) /\ (Head(apiQ) \in OrdersFor(u) => Msgs(apiQ') \cap OrdersFor(u) = {})
  BY <1>1, OnceTail DEF OneOrder
<1>4. (Head(apiQ) \in OrdersFor(u)) = (Head(apiQ).t = u /\ Head(apiQ).op \in OrderOps) /\ OrdersFor(u)' = OrdersFor(u)
  <2>1. Head(apiQ) \in ApiMsg
    BY <1>1, QueueType
  <2> QED
    BY <2>1 DEF OrdersFor
<1>5. Orders(u)' = Msgs(apiQ') \cap OrdersFor(u) /\ OneOrder(u)' = Once(apiQ', OrdersFor(u))
  BY <1>4 DEF Orders, OneOrder, Msgs, Once
<1> QED
  BY <1>2, <1>3, <1>4, <1>5 DEF LessOrders, SameOrders, Orders

\* What a CREATE sent to the EMS adds.
LEMMA CallsAppend ==
  ASSUME Typed, NEW u, NEW m \in EmsMsg, emsQ' = Append(emsQ, m)
  PROVE  IF m.t = u THEN MoreCalls(u, m) ELSE SameCalls(u)
<1>1. emsQ \in Seq(EmsMsg)
  BY DEF Typed, TypeOK
<1>2. Msgs(emsQ') = Msgs(emsQ) \cup {m}
  BY <1>1, MsgsAppend
<1>3. OneCall(u) /\ (m \in CallsFor(u) => Calls(u) = {}) => Once(emsQ', CallsFor(u))
  BY <1>1, OnceAppend DEF OneCall, Calls
<1>4. (m \in CallsFor(u)) = (m.t = u) /\ CallsFor(u)' = CallsFor(u)
  BY DEF CallsFor
<1>5. Calls(u)' = Msgs(emsQ') \cap CallsFor(u) /\ OneCall(u)' = Once(emsQ', CallsFor(u))
  BY <1>4 DEF Calls, OneCall, Msgs, Once
<1> QED
  BY <1>2, <1>3, <1>4, <1>5 DEF MoreCalls, SameCalls, Calls

\* What the EMS takes out of its topic.
LEMMA CallsTail ==
  ASSUME Typed, NEW u, emsQ # <<>>, emsQ' = Tail(emsQ)
  PROVE  IF Head(emsQ).t = u THEN LessCalls(u, Head(emsQ)) ELSE SameCalls(u)
<1>1. emsQ \in Seq(EmsMsg)
  BY DEF Typed, TypeOK
<1>2. Msgs(emsQ) = {Head(emsQ)} \cup Msgs(emsQ')
  BY <1>1, MsgsTail
<1>3. OneCall(u) => Once(emsQ', CallsFor(u)) /\ (Head(emsQ) \in CallsFor(u) => Msgs(emsQ') \cap CallsFor(u) = {})
  BY <1>1, OnceTail DEF OneCall
<1>4. (Head(emsQ) \in CallsFor(u)) = (Head(emsQ).t = u) /\ CallsFor(u)' = CallsFor(u)
  <2>1. Head(emsQ) \in EmsMsg
    BY <1>1, QueueType
  <2> QED
    BY <2>1 DEF CallsFor
<1>5. Calls(u)' = Msgs(emsQ') \cap CallsFor(u) /\ OneCall(u)' = Once(emsQ', CallsFor(u))
  BY <1>4 DEF Calls, OneCall, Msgs, Once
<1> QED
  BY <1>2, <1>3, <1>4, <1>5 DEF LessCalls, SameCalls, Calls

-----------------------------------------------------------------------------
\* What an API thread has read it still holds, or has written or forgotten.
StillRead(u) == \A c \in Client : Reads(c, u)' => Reads(c, u) /\ req'[c] = req[c]

EmsKept(u) ==
  /\ ems'[u] = ems[u] /\ job'[u] = job[u] /\ taken'[u] = taken[u] /\ booked'[u] = booked[u]

\* Nothing happens to the ticket; requests of other tickets come and go.
Alone(u) ==
  /\ row'[u] = row[u] /\ oms'[u] = oms[u] /\ notes'[u] = notes[u]
  /\ EmsKept(u) /\ SameOrders(u) /\ SameCalls(u) /\ StillRead(u)
  /\ admitted'[u] = admitted[u] /\ sent'[u] = sent[u] /\ overwrites'[u] = overwrites[u]
  /\ restarts' \in {restarts, restarts + 1}
  /\ ended[u] => ended'[u]

\* What no API call touches.
ApiSide(u) ==
  /\ oms'[u] = oms[u] /\ notes'[u] = notes[u] /\ ended'[u] = ended[u]
  /\ EmsKept(u) /\ SameCalls(u)
  /\ admitted'[u] = admitted[u] /\ sent'[u] = sent[u]

NewFor(u, tk) ==
  /\ ~Exists(row[u]) /\ row'[u] = tk
  /\ tk \in TicketRec /\ Exists(tk) /\ tk.phase = "PRETRADE"
  /\ ~tk.oms_owner /\ ~tk.ems_owner /\ ~tk.paused
  /\ \/ /\ tk.action = "execute" /\ tk.internal_state \in {"NEW", "DRAFT"}
        /\ MoreOrders(u, [t |-> u, op |-> "CREATE", tk |-> tk])
     \/ /\ tk.action = "rfq" /\ tk.internal_state \in {"NEW", "FAILED", "RFQ_DONE"} /\ ~tk.auth_user
        /\ SameOrders(u)
  /\ StillRead(u) /\ ApiSide(u)
  /\ overwrites'[u] = overwrites[u] /\ restarts' = restarts

ReadFor(u) ==
  /\ Exists(row[u]) /\ row'[u] = row[u]
  /\ \A c \in Client : Reads(c, u)' =>
       \/ Reads(c, u) /\ req'[c] = req[c]
       \/ /\ req'[c].tk = row[u]
          /\ \/ req'[c].op = "EXECUTE_RFQ" /\ row[u].action = "rfq" /\ row[u].internal_state = "RFQ_DONE"
             \/ req'[c].op = "REFRESH" /\ "REFRESH" \in Ops
  /\ SameOrders(u) /\ ApiSide(u)
  /\ overwrites'[u] = overwrites[u] /\ restarts' = restarts

WriteFor(u, c, tk) ==
  /\ Reads(c, u) /\ ~Reads(c, u)' /\ row'[u] = tk
  /\ overwrites'[u] = overwrites[u] + (IF row[u].action = "execute" THEN 1 ELSE 0)
  /\ tk \in TicketRec
  /\ tk.oms_owner = req[c].tk.oms_owner /\ tk.ems_owner = req[c].tk.ems_owner /\ tk.paused = req[c].tk.paused
  /\ \/ /\ req[c].op = "EXECUTE_RFQ" /\ tk.action = "execute" /\ tk.auth_user
        /\ tk.internal_state = "ACCEPTED" /\ tk.phase = "PRETRADE"
        /\ \/ restarts' = restarts /\ MoreOrders(u, [t |-> u, op |-> "EXECUTE_RFQ", tk |-> tk])
           \/ restarts' = restarts + 1 /\ SameOrders(u)
     \/ /\ req[c].op = "EXECUTE_RFQ" /\ tk.action = "execute" /\ tk.auth_user
        /\ tk.internal_state = "FAILED" /\ tk.phase = req[c].tk.phase
        /\ restarts' = restarts /\ SameOrders(u)
     \/ /\ req[c].op = "REFRESH" /\ tk.action = req[c].tk.action /\ tk.auth_user = req[c].tk.auth_user
        /\ tk.internal_state \in {"RFQ_DONE", "FAILED"} /\ tk.phase = "PRETRADE"
        /\ restarts' = restarts /\ SameOrders(u)
  /\ StillRead(u) /\ ApiSide(u)

ApiFor(u) ==
  \/ \E tk \in TicketRec : NewFor(u, tk)
  \/ ReadFor(u)
  \/ \E c \in Client, tk \in TicketRec : WriteFor(u, c, tk)

\* What an API call means for a ticket.
LEMMA ApiTicket ==
  ASSUME Shaped, ApiNext \/ \E c \in Client : ApiCrash(c), NEW u \in Ticket
  PROVE  Alone(u) \/ ApiFor(u)
<1>0. Typed /\ (UNCHANGED emsQ => SameCalls(u))
  BY QueueSame DEF Shaped
<1>1. ASSUME NEW t \in Ticket, NEW tk \in TicketRec, Created(t, tk)
      PROVE  Alone(u) \/ NewFor(u, tk)
  <2> DEFINE m == [t |-> t, op |-> "CREATE", tk |-> tk]
  <2>1. m \in ApiMsg
    BY DEF ApiMsg
  <2>2. apiQ' = Append(apiQ, m) => IF t = u THEN MoreOrders(u, m) ELSE SameOrders(u)
    BY <1>0, <2>1, OrdersAppend DEF OrderOps
  <2>3. UNCHANGED apiQ => SameOrders(u)
    BY QueueSame
  <2>4. SameCalls(u) /\ StillRead(u)
    BY <1>0, <1>1 DEF Created, Aside, StillRead, Reads
  <2>5. CASE t = u
    <3>1. row'[u] = tk
      BY <1>0, <1>1, <2>5 DEF Created, Typed, TypeOK
    <3> QED
      BY <1>1, <2>2, <2>3, <2>4, <2>5, <3>1 DEF Created, Aside, NewFor, ApiSide, EmsKept
  <2>6. CASE t # u
    <3>1. row'[u] = row[u]
      BY <1>0, <1>1, <2>6 DEF Created, Typed, TypeOK
    <3> QED
      BY <1>1, <2>2, <2>3, <2>4, <2>6, <3>1 DEF Created, Aside, Alone, EmsKept
  <2> QED
    BY <2>5, <2>6
<1>2. ASSUME NEW t \in Ticket, NEW op \in ControlOps, Asked(t, op)
      PROVE  Alone(u)
  <2> DEFINE m == [t |-> t, op |-> op, tk |-> NoTicket]
  <2>1. m \in ApiMsg /\ m.op \notin OrderOps
    BY NoTicketType DEF ApiMsg, OrderOps, ControlOps
  <2>2. SameOrders(u)
    BY <1>0, <1>2, <2>1, OrdersAppend DEF Asked
  <2> QED
    BY <1>0, <1>2, <2>2 DEF Asked, Aside, Alone, EmsKept, StillRead, Reads
<1>3. ASSUME NEW c \in Client, NEW t \in Ticket, NEW op \in {"EXECUTE_RFQ", "REFRESH"}, Took(c, t, op)
      PROVE  Alone(u) \/ ReadFor(u)
  <2>1. req'[c] = [t |-> t, op |-> op, tk |-> row[t]] /\ \A d \in Client \ {c} : req'[d] = req[d]
    BY <1>0, <1>3 DEF Took, Typed, TypeOK
  <2>2. SameOrders(u) /\ SameCalls(u)
    BY <1>3, QueueSame DEF Took, Aside
  <2>3. CASE t = u
    <3>1. \A d \in Client : Reads(d, u)' =>
            \/ Reads(d, u) /\ req'[d] = req[d]
            \/ d = c /\ req'[d].tk = row[u] /\ req'[d].op = op
      BY <2>1, <2>3 DEF Reads
    <3> QED
      BY <1>3, <2>2, <2>3, <3>1 DEF Took, Aside, ReadFor, ApiSide, EmsKept
  <2>4. CASE t # u
    <3>1. StillRead(u)
      BY <2>1, <2>4 DEF Reads, StillRead
    <3> QED
      BY <1>3, <2>2, <3>1 DEF Took, Aside, Alone, EmsKept
  <2> QED
    BY <2>3, <2>4
<1>4. ASSUME NEW c \in Client, NEW tk \in TicketRec, Wrote(c, tk)
      PROVE  Alone(u) \/ WriteFor(u, c, tk)
  <2> DEFINE t == req[c].t
             m == [t |-> t, op |-> "EXECUTE_RFQ", tk |-> tk]
  <2>1. t \in Ticket /\ req[c] # NoReq
    BY <1>0, <1>4, ReqType DEF Wrote, Typed
  <2>2. m \in ApiMsg
    BY <2>1 DEF ApiMsg
  <2>3. apiQ' = Append(apiQ, m) => IF t = u THEN MoreOrders(u, m) ELSE SameOrders(u)
    BY <1>0, <2>2, OrdersAppend DEF OrderOps
  <2>4. UNCHANGED apiQ => SameOrders(u)
    BY QueueSame
  <2>5. SameCalls(u)
    BY <1>0, <1>4 DEF Wrote, Aside
  <2>6. StillRead(u)
    <3>1. req'[c] = NoReq /\ \A d \in Client \ {c} : req'[d] = req[d]
      BY <1>0, <1>4 DEF Wrote, Typed, TypeOK
    <3> QED
      BY <3>1 DEF StillRead, Reads
  <2>7. CASE t = u
    <3>1. row'[u] = tk /\ overwrites'[u] = overwrites[u] + (IF row[u].action = "execute" THEN 1 ELSE 0)
      BY <1>0, <1>4, <2>1, <2>7 DEF Wrote, Typed, TypeOK
    <3>2. Reads(c, u) /\ ~Reads(c, u)'
      BY <1>0, <1>4, <2>1, <2>7 DEF Reads, Wrote, Typed, TypeOK
    <3>3. m = [t |-> u, op |-> "EXECUTE_RFQ", tk |-> tk]
      BY <2>7
    <3> HIDE DEF m
    <3> QED
      BY <1>4, <2>3, <2>4, <2>5, <2>6, <2>7, <3>1, <3>2, <3>3 DEF m, Wrote, Aside, WriteFor, ApiSide, EmsKept
  <2>8. CASE t # u
    <3>1. row'[u] = row[u] /\ overwrites'[u] = overwrites[u]
      BY <1>0, <1>4, <2>1, <2>8 DEF Wrote, Typed, TypeOK
    <3>2. SameOrders(u)
      BY <1>4, <2>3, <2>4, <2>8 DEF Wrote
    <3>3. restarts' \in {restarts, restarts + 1}
      BY <1>4 DEF Wrote
    <3> QED
      BY <1>4, <2>5, <2>6, <3>1, <3>2, <3>3 DEF Wrote, Aside, Alone, EmsKept
  <2> QED
    BY <2>7, <2>8
<1>5. ASSUME NEW c \in Client, Dropped(c)
      PROVE  Alone(u)
  <2>1. req'[c] = NoReq /\ \A d \in Client \ {c} : req'[d] = req[d]
    BY <1>0, <1>5 DEF Dropped, Typed, TypeOK
  <2>2. StillRead(u)
    BY <2>1 DEF StillRead, Reads
  <2> QED
    BY <1>5, <2>2, QueueSame DEF Dropped, Aside, Alone, EmsKept
<1> QED
  BY <1>0, <1>1, <1>2, <1>3, <1>4, <1>5, ApiSteps DEF ApiFor

-----------------------------------------------------------------------------
\* What no turn of the OMS touches.
OmsSide(u) ==
  /\ EmsKept(u) /\ StillRead(u)
  /\ notes'[u] = notes[u] /\ ended'[u] = ended[u]
  /\ overwrites'[u] = overwrites[u] /\ restarts' = restarts

\* The EMS gets a copy that is still in the phase the OMS had it in.
SendsFor(u, now, send, phase) ==
  IF send THEN /\ MoreCalls(u, [t |-> u, tk |-> [now EXCEPT !.phase = phase]])
               /\ sent'[u] = sent[u] + 1
          ELSE SameCalls(u) /\ sent'[u] = sent[u]

TurnFor(u, now, new, keep, send) ==
  /\ Held(u) /\ Moves(oms[u], now, keep, send) /\ Exists(now)
  /\ row'[u] = new /\ Written(oms[u], now, row[u], new)
  /\ oms'[u] = IF keep THEN now ELSE NoTicket
  /\ SendsFor(u, now, send, oms[u].phase)
  /\ SameOrders(u) /\ admitted'[u] = admitted[u]
  /\ OmsSide(u)

IntakeFor(u, m, now, new, keep, send) ==
  /\ LessOrders(u, m) /\ m \in Request
  /\ Moves(Own(m.tk), now, keep, send) /\ Exists(now)
  /\ row'[u] = new /\ Written(m.tk, now, row[u], new) /\ new.oms_owner = now.oms_owner
  /\ oms'[u] = IF keep THEN now ELSE NoTicket
  /\ SendsFor(u, now, send, m.tk.phase)
  /\ admitted'[u] = admitted[u] + 1
  /\ OmsSide(u)

NoticeFor(u) ==
  /\ notes[u] > 0 /\ notes'[u] = notes[u] - 1
  /\ oms'[u] = IF Held(u) THEN row[u] ELSE oms[u]
  /\ row'[u] = row[u] /\ EmsKept(u) /\ StillRead(u) /\ SameOrders(u) /\ SameCalls(u)
  /\ ended'[u] = ended[u] /\ admitted'[u] = admitted[u] /\ sent'[u] = sent[u]
  /\ overwrites'[u] = overwrites[u] /\ restarts' = restarts

OmsFor(u) ==
  \/ \E now, new \in TicketRec, keep, send \in BOOLEAN : TurnFor(u, now, new, keep, send)
  \/ \E m \in Request, now, new \in TicketRec, keep, send \in BOOLEAN : IntakeFor(u, m, now, new, keep, send)
  \/ NoticeFor(u)

\* Where the message for the EMS goes.
LEMMA KeptTicket ==
  ASSUME Typed, NEW t \in Ticket, NEW now \in TicketRec, NEW keep \in BOOLEAN, NEW send \in BOOLEAN,
         NEW phase \in Phases, Kept(t, now, keep, send, phase), NEW u \in Ticket
  PROVE  IF u = t THEN /\ oms'[u] = IF keep THEN now ELSE NoTicket
                       /\ SendsFor(u, now, send, phase)
                  ELSE oms'[u] = oms[u] /\ SameCalls(u) /\ sent'[u] = sent[u]
<1> DEFINE tk == [now EXCEPT !.phase = phase]
           m == [t |-> t, tk |-> tk]
<1>1. tk \in TicketRec
  BY DEF TicketRec
<1> HIDE DEF tk
<1>2. m \in EmsMsg /\ m.t = t
  BY <1>1 DEF EmsMsg
<1>3. u = t => m = [t |-> u, tk |-> tk]
  OBVIOUS
<1> HIDE DEF m
<1>4. IF u = t THEN oms'[u] = IF keep THEN now ELSE NoTicket ELSE oms'[u] = oms[u]
  BY DEF Kept, Typed, TypeOK
<1>5. CASE send
  <2>1. emsQ' = Append(emsQ, m) /\ sent' = [sent EXCEPT ![t] = @ + 1]
    BY <1>5 DEF Kept, m, tk
  <2>2. IF u = t THEN sent'[u] = sent[u] + 1 ELSE sent'[u] = sent[u]
    BY <2>1 DEF Typed, TypeOK
  <2>3. IF m.t = u THEN MoreCalls(u, m) ELSE SameCalls(u)
    BY <1>2, <2>1, CallsAppend
  <2> QED
    BY <1>2, <1>3, <1>4, <1>5, <2>2, <2>3 DEF SendsFor, tk
<1>6. CASE ~send
  <2>1. emsQ' = emsQ /\ sent' = sent
    BY <1>6 DEF Kept
  <2> QED
    BY <1>4, <1>6, <2>1, QueueSame DEF SendsFor
<1> QED
  BY <1>5, <1>6

\* What a step of the OMS means for a ticket.
LEMMA OmsTicket ==
  ASSUME Shaped, OmsNext, NEW u \in Ticket
  PROVE  Alone(u) \/ OmsFor(u)
<1>0. Typed
  BY DEF Shaped
<1>1. ASSUME NEW t \in Ticket, NEW now \in TicketRec, NEW new \in TicketRec, NEW keep \in BOOLEAN,
             NEW send \in BOOLEAN, Turned(t, now, new, keep, send)
      PROVE  Alone(u) \/ TurnFor(u, now, new, keep, send)
  <2>1. oms[t] \in TicketRec /\ oms[t].phase \in Phases
    BY <1>0 DEF Typed, TypeOK, TicketRec
  <2>2. IF u = t THEN /\ oms'[u] = IF keep THEN now ELSE NoTicket
                      /\ SendsFor(u, now, send, oms[t].phase)
                 ELSE oms'[u] = oms[u] /\ SameCalls(u) /\ sent'[u] = sent[u]
    BY <1>0, <1>1, <2>1, KeptTicket DEF Turned
  <2>3. IF u = t THEN row'[u] = new ELSE row'[u] = row[u]
    BY <1>0, <1>1 DEF Turned, Typed, TypeOK
  <2>4. SameOrders(u)
    <3>1. CASE UNCHANGED apiQ
      BY <3>1, QueueSame
    <3>2. CASE apiQ # <<>> /\ Head(apiQ).op \in ControlOps /\ apiQ' = Tail(apiQ)
      BY <1>0, <3>2, OrdersTail DEF ControlOps, OrderOps
    <3> QED
      BY <1>1, <3>1, <3>2 DEF Turned
  <2>5. OmsSide(u) /\ admitted'[u] = admitted[u]
    BY <1>1 DEF Turned, OmsAside, OmsSide, EmsKept, StillRead, Reads
  <2>6. CASE u = t
    BY <1>1, <2>2, <2>3, <2>4, <2>5, <2>6 DEF Turned, TurnFor
  <2>7. CASE u # t
    BY <2>2, <2>3, <2>4, <2>5, <2>7 DEF Alone, OmsSide
  <2> QED
    BY <2>6, <2>7
<1>2. ASSUME NEW t \in Ticket, NEW now \in TicketRec, NEW new \in TicketRec, NEW keep \in BOOLEAN,
             NEW send \in BOOLEAN, TookIn(t, now, new, keep, send)
      PROVE  Alone(u) \/ \E m \in Request : IntakeFor(u, m, now, new, keep, send)
  <2>1. PICK m : m = Head(apiQ)
    OBVIOUS
  <2>2. m \in Request /\ m.t = t /\ m.tk \in TicketRec /\ m.tk.phase \in Phases /\ m.op \in OrderOps /\ apiQ # <<>>
    <3>1. apiQ # <<>> /\ m.t = t /\ m.op \in OrderOps
      BY <1>2, <2>1 DEF TookIn
    <3>2. m \in Request /\ m.tk \in TicketRec
      BY <2>1, <3>1, AdmittedFacts
    <3> QED
      BY <3>1, <3>2 DEF TicketRec
  <2>3. IF u = t THEN /\ oms'[u] = IF keep THEN now ELSE NoTicket
                      /\ SendsFor(u, now, send, m.tk.phase)
                 ELSE oms'[u] = oms[u] /\ SameCalls(u) /\ sent'[u] = sent[u]
    <3>1. Kept(t, now, keep, send, m.tk.phase)
      BY <1>2, <2>1 DEF TookIn
    <3> QED
      BY <1>0, <2>2, <3>1, KeptTicket
  <2>4. IF u = t THEN row'[u] = new ELSE row'[u] = row[u]
    BY <1>0, <1>2 DEF TookIn, Typed, TypeOK
  <2>5. IF u = t THEN LessOrders(u, m) ELSE SameOrders(u)
    BY <1>0, <1>2, <2>1, <2>2, OrdersTail DEF TookIn
  <2>6. OmsSide(u) /\ admitted'[u] = IF u = t THEN admitted[u] + 1 ELSE admitted[u]
    BY <1>0, <1>2 DEF TookIn, OmsAside, OmsSide, EmsKept, StillRead, Reads, Typed, TypeOK
  <2>7. CASE u = t
    BY <1>2, <2>1, <2>2, <2>3, <2>4, <2>5, <2>6, <2>7 DEF TookIn, IntakeFor
  <2>8. CASE u # t
    BY <2>3, <2>4, <2>5, <2>6, <2>8 DEF Alone, OmsSide
  <2> QED
    BY <2>7, <2>8
<1>3. ASSUME NEW t \in Ticket, Noticed(t)
      PROVE  Alone(u) \/ NoticeFor(u)
  <2>1. SameOrders(u) /\ SameCalls(u)
    BY <1>3, QueueSame DEF Noticed
  <2>2. IF u = t THEN notes'[u] = notes[u] - 1 /\ oms'[u] = IF Held(u) THEN row[u] ELSE oms[u]
                 ELSE notes'[u] = notes[u] /\ oms'[u] = oms[u]
    BY <1>0, <1>3 DEF Noticed, Typed, TypeOK
  <2>3. CASE u = t
    BY <1>3, <2>1, <2>2, <2>3 DEF Noticed, NoticeFor, EmsKept, StillRead, Reads
  <2>4. CASE u # t
    BY <1>3, <2>1, <2>2, <2>4 DEF Noticed, Alone, EmsKept, StillRead, Reads
  <2> QED
    BY <2>3, <2>4
<1>4. ASSUME Refused
      PROVE  Alone(u)
  <2>1. SameOrders(u) /\ SameCalls(u)
    BY <1>0, <1>4, OrdersTail, QueueSame DEF Refused, ControlOps, OrderOps
  <2> QED
    BY <1>4, <2>1 DEF Refused, Alone, EmsKept, StillRead, Reads
<1> QED
  BY <1>1, <1>2, <1>3, <1>4, OmsSteps DEF OmsFor

-----------------------------------------------------------------------------
(***************************************************************************)
(* Deaths of the OMS.  The copy it died with was sent, and saved but for   *)
(* the phase, or it was a new ticket, owned, and perhaps sent as well.     *)
(***************************************************************************)
HalfMoves(was, now) ==
  /\ now \in TicketRec
  /\ now.phase = was.phase /\ was.phase # "WORKING"
  /\ now.internal_state = "ACCEPTED" /\ was.internal_state \in Chain \cup {"ACCEPTED"}
  /\ ~was.paused /\ ~now.paused /\ ~was.ems_owner
  /\ now.auth_user = was.auth_user /\ now.action = was.action /\ now.ems_owner = was.ems_owner
  /\ now.quote_id = was.quote_id /\ now.oms_owner = was.oms_owner
  /\ was.internal_state \in Unsure \cup {"ACCEPTED"} \/ was.action = "rfq" \/ was.auth_user

\* A CREATE that was sent before the phase was saved.
LEMMA HalfSent ==
  ASSUME NEW t \in Ticket, NEW r \in TicketRec, NEW was \in TicketRec, Exists(was), SentOnly(t, r, was)
  PROVE  \E now \in TicketRec :
           /\ HalfMoves(was, now)
           /\ Written(was, now, r, Saved(was, now, r)) /\ Saved(was, now, r) \in TicketRec
           /\ row' = [row EXCEPT ![t] = Saved(was, now, r)]
           /\ emsQ' = Append(emsQ, [t |-> t, tk |-> now])
           /\ sent' = [sent EXCEPT ![t] = @ + 1]
<1>1. PICK o \in Cycle(t, was) :
        LET tk == [o.tk EXCEPT !.phase = was.phase] IN
        /\ o.send
        /\ row' = [row EXCEPT ![t] = Saved(was, tk, r)]
        /\ emsQ' = Append(emsQ, [t |-> t, tk |-> tk])
  BY DEF SentOnly
<1> DEFINE now == [o.tk EXCEPT !.phase = was.phase]
<1>2. Moves(was, o.tk, o.keep, o.send)
  BY CycleMoves
<1>3. o.send /\ o.tk \in TicketRec
  BY <1>1, <1>2 DEF Moves
<1>4. /\ now \in TicketRec /\ now.phase = was.phase
      /\ now.internal_state = o.tk.internal_state /\ now.action = o.tk.action
      /\ now.oms_owner = o.tk.oms_owner /\ now.ems_owner = o.tk.ems_owner /\ now.paused = o.tk.paused
      /\ now.auth_user = o.tk.auth_user /\ now.quote_id = o.tk.quote_id
  BY <1>3 DEF TicketRec
<1>5. row' = [row EXCEPT ![t] = Saved(was, now, r)] /\ emsQ' = Append(emsQ, [t |-> t, tk |-> now])
  BY <1>1
<1> HIDE DEF now
<1>6. HalfMoves(was, now)
  BY <1>2, <1>3, <1>4 DEF Moves, HalfMoves
<1> QED
  BY <1>4, <1>5, <1>6, SavedWritten, SavedType DEF SentOnly

OmsDied(u) ==
  /\ restarts' = restarts + 1
  /\ oms'[u] = IF row'[u].oms_owner THEN row'[u] ELSE NoTicket
  /\ notes'[u] = IF row'[u].oms_owner THEN 0 ELSE notes[u]
  /\ EmsKept(u) /\ StillRead(u)
  /\ overwrites'[u] = overwrites[u] /\ ended'[u] = ended[u]

\* Nothing was done for the ticket; a request for it may be lost.
OmsLostFor(u) ==
  /\ row'[u] = row[u] /\ SameCalls(u) /\ sent'[u] = sent[u] /\ admitted'[u] = admitted[u]
  /\ SameOrders(u) \/ \E m \in Request : LessOrders(u, m)

\* The ticket was sent.
OmsSentFor(u, now, new) ==
  /\ Held(u) /\ HalfMoves(oms[u], now)
  /\ row'[u] = new /\ Written(oms[u], now, row[u], new)
  /\ MoreCalls(u, [t |-> u, tk |-> now]) /\ sent'[u] = sent[u] + 1
  /\ SameOrders(u) /\ admitted'[u] = admitted[u]

\* The ticket was taken in, and perhaps sent.
OmsTakenFor(u, m, now, new) ==
  /\ LessOrders(u, m) /\ m \in Request /\ admitted'[u] = admitted[u] + 1
  /\ row'[u] = new /\ Written(m.tk, now, row[u], new) /\ new.oms_owner
  /\ \/ now = Own(m.tk) /\ SameCalls(u) /\ sent'[u] = sent[u]
     \/ /\ HalfMoves(Own(m.tk), now)
        /\ MoreCalls(u, [t |-> u, tk |-> now]) /\ sent'[u] = sent[u] + 1

OmsDiedFor(u) ==
  /\ OmsDied(u)
  /\ \/ OmsLostFor(u)
     \/ \E now, new \in TicketRec : OmsSentFor(u, now, new)
     \/ \E m \in Request, now, new \in TicketRec : OmsTakenFor(u, m, now, new)

OmsDeaths ==
  \/ OmsCrash \/ OmsCrashHandling \/ OmsCrashAdmitting
  \/ \E t \in Ticket : OmsCrashSending(t)

\* A death of the OMS with a ticket taken in.
LEMMA AdmittingTicket ==
  ASSUME Shaped, OmsCrashAdmitting, NEW u \in Ticket
  PROVE  OmsLostFor(u) \/ \E m \in Request, now, new \in TicketRec : OmsTakenFor(u, m, now, new)
<1>0. Typed
  BY DEF Shaped
<1>1. PICK m : m = Head(apiQ)
  OBVIOUS
<1>2. apiQ # <<>> /\ m.op \in OrderOps /\ apiQ' = Tail(apiQ)
  BY <1>1 DEF OmsCrashAdmitting, Next1, OrderOps
<1>3. PICK own : own = Own(m.tk)
  OBVIOUS
<1>4. /\ m \in Request /\ m.t \in Ticket /\ m.tk \in TicketRec
      /\ Admitted(m) = own /\ own \in TicketRec /\ Exists(own) /\ own.oms_owner = TRUE
      /\ SameBut(m.tk, own) /\ own.internal_state = m.tk.internal_state
  BY <1>1, <1>2, <1>3, AdmittedFacts, OwnFacts DEF SameBut
<1>5. IF u = m.t THEN LessOrders(u, m) ELSE SameOrders(u)
  BY <1>0, <1>1, <1>2, OrdersTail
<1>6. admitted' = [admitted EXCEPT ![m.t] = @ + 1]
  BY <1>1 DEF OmsCrashAdmitting
<1>7. row[m.t] \in TicketRec
  BY <1>0, <1>4 DEF Typed, TypeOK
<1>8. PICK r1 : r1 = Saved(m.tk, own, row[m.t])
  OBVIOUS
<1>9. r1 \in TicketRec /\ Written(m.tk, own, row[m.t], r1)
  BY <1>4, <1>7, <1>8, SavedWritten, SavedType
<1>10. PICK r : r = AdmittedRow(m)
  OBVIOUS
<1>11. r = [r1 EXCEPT !.oms_owner = TRUE]
  BY <1>4, <1>8, <1>10 DEF AdmittedRow
<1>12. r \in TicketRec /\ r.oms_owner = TRUE /\ Written(m.tk, own, row[m.t], r)
  BY <1>4, <1>9, <1>11 DEF Written, Col, TicketRec
<1>13. CASE SentOnly(m.t, r, own)
  <2>1. PICK now \in TicketRec :
           /\ HalfMoves(own, now)
           /\ Written(own, now, r, Saved(own, now, r)) /\ Saved(own, now, r) \in TicketRec
           /\ row' = [row EXCEPT ![m.t] = Saved(own, now, r)]
           /\ emsQ' = Append(emsQ, [t |-> m.t, tk |-> now])
           /\ sent' = [sent EXCEPT ![m.t] = @ + 1]
    BY <1>4, <1>12, <1>13, HalfSent
  <2>2. PICK new : new = Saved(own, now, r)
    OBVIOUS
  <2>3. Written(m.tk, now, row[m.t], new)
    BY <1>4, <1>12, <2>1, <2>2, WrittenTwice
  <2>4. new.oms_owner
    BY <1>4, <1>12, <2>1, <2>2 DEF Written, Col, HalfMoves
  <2> DEFINE e == [t |-> m.t, tk |-> now]
  <2>5. e \in EmsMsg /\ e.t = m.t /\ (u = m.t => e = [t |-> u, tk |-> now])
    BY <1>4, <2>1 DEF EmsMsg
  <2>6. IF u = m.t THEN MoreCalls(u, e) ELSE SameCalls(u)
    <3>1. emsQ' = Append(emsQ, e)
      BY <2>1
    <3> HIDE DEF e
    <3> QED
      BY <1>0, <2>5, <3>1, CallsAppend
  <2> HIDE DEF e
  <2>7. CASE u = m.t
    <3>1. row'[u] = new /\ sent'[u] = sent[u] + 1 /\ admitted'[u] = admitted[u] + 1
      BY <1>0, <1>6, <2>1, <2>2, <2>7 DEF Typed, TypeOK
    <3>2. OmsTakenFor(u, m, now, new)
      BY <1>3, <1>4, <1>5, <2>1, <2>3, <2>4, <2>5, <2>6, <2>7, <3>1 DEF OmsTakenFor
    <3> QED
      BY <1>4, <2>1, <2>2, <3>2
  <2>8. CASE u # m.t
    <3>1. row'[u] = row[u] /\ sent'[u] = sent[u] /\ admitted'[u] = admitted[u]
      BY <1>0, <1>6, <2>1, <2>8 DEF Typed, TypeOK
    <3> QED
      BY <1>5, <2>6, <2>8, <3>1 DEF OmsLostFor
  <2> QED
    BY <2>7, <2>8
<1>14. CASE row' = [row EXCEPT ![m.t] = r] /\ UNCHANGED <<emsQ, sent>>
  <2>1. SameCalls(u)
    BY <1>14, QueueSame
  <2>2. CASE u = m.t
    <3>1. row'[u] = r /\ sent'[u] = sent[u] /\ admitted'[u] = admitted[u] + 1
      BY <1>0, <1>6, <1>14, <2>2 DEF Typed, TypeOK
    <3>2. OmsTakenFor(u, m, own, r)
      BY <1>3, <1>4, <1>5, <1>12, <2>1, <2>2, <3>1 DEF OmsTakenFor
    <3> QED
      BY <1>4, <1>12, <3>2
  <2>3. CASE u # m.t
    <3>1. row'[u] = row[u] /\ sent'[u] = sent[u] /\ admitted'[u] = admitted[u]
      BY <1>0, <1>6, <1>14, <2>3 DEF Typed, TypeOK
    <3> QED
      BY <1>5, <2>1, <2>3, <3>1 DEF OmsLostFor
  <2> QED
    BY <2>2, <2>3
<1> QED
  BY <1>1, <1>4, <1>10, <1>13, <1>14 DEF OmsCrashAdmitting

\* A death of the OMS with a ticket sent.
LEMMA SendingTicket ==
  ASSUME Shaped, NEW t \in Ticket, OmsCrashSending(t), NEW u \in Ticket
  PROVE  OmsLostFor(u) \/ \E now, new \in TicketRec : OmsSentFor(u, now, new)
<1>0. Typed
  BY DEF Shaped
<1>1. oms[t] \in TicketRec /\ row[t] \in TicketRec /\ Exists(oms[t])
  BY <1>0 DEF Typed, TypeOK, OmsCrashSending, Held
<1>2. PICK now \in TicketRec :
         /\ HalfMoves(oms[t], now)
         /\ Written(oms[t], now, row[t], Saved(oms[t], now, row[t])) /\ Saved(oms[t], now, row[t]) \in TicketRec
         /\ row' = [row EXCEPT ![t] = Saved(oms[t], now, row[t])]
         /\ emsQ' = Append(emsQ, [t |-> t, tk |-> now])
         /\ sent' = [sent EXCEPT ![t] = @ + 1]
  BY <1>1, HalfSent DEF OmsCrashSending
<1>3. PICK new : new = Saved(oms[t], now, row[t])
  OBVIOUS
<1> DEFINE e == [t |-> t, tk |-> now]
<1>4. e \in EmsMsg /\ e.t = t /\ (u = t => e = [t |-> u, tk |-> now])
  BY <1>2 DEF EmsMsg
<1>5. IF u = t THEN MoreCalls(u, e) ELSE SameCalls(u)
  <2>1. emsQ' = Append(emsQ, e)
    BY <1>2
  <2> HIDE DEF e
  <2> QED
    BY <1>0, <1>4, <2>1, CallsAppend
<1> HIDE DEF e
<1>6. SameOrders(u) /\ admitted'[u] = admitted[u]
  BY QueueSame DEF OmsCrashSending
<1>7. CASE u = t
  <2>1. row'[u] = new /\ sent'[u] = sent[u] + 1
    BY <1>0, <1>2, <1>3, <1>7 DEF Typed, TypeOK
  <2>2. OmsSentFor(u, now, new)
    BY <1>2, <1>3, <1>4, <1>5, <1>6, <1>7, <2>1 DEF OmsSentFor, OmsCrashSending
  <2> QED
    BY <1>2, <1>3, <2>2
<1>8. CASE u # t
  <2>1. row'[u] = row[u] /\ sent'[u] = sent[u]
    BY <1>0, <1>2, <1>8 DEF Typed, TypeOK
  <2> QED
    BY <1>5, <1>6, <1>8, <2>1 DEF OmsLostFor
<1> QED
  BY <1>7, <1>8

\* What a death of the OMS means for a ticket.
LEMMA OmsDeathTicket ==
  ASSUME Shaped, OmsDeaths, NEW u \in Ticket
  PROVE  OmsDiedFor(u)
<1>0. Typed
  BY DEF Shaped
<1>1. OmsDied(u)
  <2>1. OmsRestart
    BY DEF OmsDeaths, OmsCrash, OmsCrashHandling, OmsCrashAdmitting, OmsCrashSending
  <2> QED
    BY <1>0, <2>1 DEF OmsRestart, Die, OmsDied, EmsKept, StillRead, Reads, envVars, Typed, TypeOK
<1>2. CASE OmsCrash
  <2>1. OmsLostFor(u)
    BY <1>2, QueueSame DEF OmsCrash, OmsLostFor
  <2> QED
    BY <1>1, <2>1 DEF OmsDiedFor
<1>3. CASE OmsCrashHandling
  <2>1. PICK m : m = Head(apiQ)
    OBVIOUS
  <2>2. m \in Request
    BY <1>3, <2>1, QueueType DEF OmsCrashHandling, Shaped
  <2>3. SameOrders(u) \/ LessOrders(u, m)
    BY <1>0, <1>3, <2>1, OrdersTail DEF OmsCrashHandling
  <2>4. OmsLostFor(u)
    BY <1>3, <2>2, <2>3, QueueSame DEF OmsCrashHandling, OmsLostFor
  <2> QED
    BY <1>1, <2>4 DEF OmsDiedFor
<1>4. CASE OmsCrashAdmitting
  BY <1>1, <1>4, AdmittingTicket DEF OmsDiedFor
<1>5. ASSUME NEW t \in Ticket, OmsCrashSending(t)
      PROVE  OmsDiedFor(u)
  BY <1>1, <1>5, SendingTicket DEF OmsDiedFor
<1> QED
  BY <1>2, <1>3, <1>4, <1>5 DEF OmsDeaths

-----------------------------------------------------------------------------
(***************************************************************************)
(* The EMS.  In the row it writes its own column and the state, to one     *)
(* that no order is sent from.                                             *)
(***************************************************************************)
Given == {"EXPIRED", "FAILED", "RFQ_DONE", "FILLED"}

EmsSaved(r, new) ==
  /\ new \in TicketRec
  /\ new.external_state = r.external_state /\ new.phase = r.phase /\ new.action = r.action
  /\ new.oms_owner = r.oms_owner /\ new.paused = r.paused /\ new.auth_user = r.auth_user
  /\ new.internal_state = r.internal_state \/ new.internal_state \in Given

EmsWrote(t, new) ==
  /\ row' = [row EXCEPT ![t] = new] /\ EmsSaved(row[t], new)
  /\ \A u \in Ticket : notes'[u] >= notes[u] /\ (u # t => notes'[u] = notes[u])
  /\ UNCHANGED <<apiQ, oms, req, ended, admitted, sent, overwrites, restarts>>

EmsMoved(t, new, tk, stage) ==
  /\ EmsWrote(t, new)
  /\ ems' = [ems EXCEPT ![t] = tk] /\ job' = [job EXCEPT ![t] = stage]

Takes(t, m, new, tk) ==
  /\ emsQ # <<>> /\ m = Head(emsQ) /\ m.t = t /\ emsQ' = Tail(emsQ)
  /\ job[t] = "idle"
  /\ EmsMoved(t, new, tk, "accept")
  /\ Exists(tk) /\ tk.auth_user = m.tk.auth_user /\ tk.oms_owner = m.tk.oms_owner
  /\ ~ended[t] => tk.ems_owner
  /\ new.ems_owner => tk.ems_owner
  /\ taken' = [taken EXCEPT ![t] = @ + 1] /\ UNCHANGED booked

Works(t, new, tk, stage) ==
  /\ Working(t)
  /\ EmsMoved(t, new, tk, stage) /\ stage \in {"accept", "execute"}
  /\ Exists(tk) /\ tk.auth_user = ems[t].auth_user /\ tk.oms_owner = ems[t].oms_owner
  /\ ~ended[t] => tk.ems_owner = ems[t].ems_owner
  /\ new.ems_owner => row[t].ems_owner /\ (ems[t].ems_owner => tk.ems_owner)
  /\ UNCHANGED <<emsQ, taken, booked>>

Ends(t, new) ==
  /\ Working(t)
  /\ EmsMoved(t, new, NoTicket, "idle")
  /\ new.ems_owner => row[t].ems_owner /\ ~ems[t].ems_owner
  /\ ems[t].ems_owner /\ ems[t].oms_owner => notes'[t] > 0
  /\ \/ UNCHANGED booked
     \/ job[t] = "execute" /\ booked' = [booked EXCEPT ![t] = @ + 1]
  /\ UNCHANGED <<emsQ, taken>>

\* A save of a copy in which only the state and the owner changed.
LEMMA SavedByEms ==
  ASSUME NEW was \in TicketRec, NEW state \in {was.internal_state} \cup Given, NEW own \in BOOLEAN,
         NEW r \in TicketRec
  PROVE  LET now == [was EXCEPT !.internal_state = state, !.ems_owner = own]
             new == Saved(was, now, r)
         IN /\ now \in TicketRec /\ EmsSaved(r, new)
            /\ new.ems_owner = Dirty(was.ems_owner, own, r.ems_owner)
<1> DEFINE now == [was EXCEPT !.internal_state = state, !.ems_owner = own]
           new == Saved(was, now, r)
<1>1. now \in TicketRec
  BY DEF TicketRec, InternalStates, Given
<1>2. new \in TicketRec
  BY <1>1, SavedType
<1>3. /\ now.external_state = was.external_state /\ now.phase = was.phase /\ now.action = was.action
      /\ now.oms_owner = was.oms_owner /\ now.paused = was.paused /\ now.auth_user = was.auth_user
      /\ now.internal_state = state /\ now.ems_owner = own
  BY DEF TicketRec
<1> HIDE DEF now
<1>4. EmsSaved(r, new) /\ new.ems_owner = Dirty(was.ems_owner, own, r.ems_owner)
  BY <1>2, <1>3 DEF EmsSaved, Saved, Dirty
<1> QED
  BY <1>1, <1>4 DEF now

\* A row that is left alone.
LEMMA SavedNothing ==
  ASSUME NEW r \in TicketRec
  PROVE  EmsSaved(r, r)
  BY DEF EmsSaved

\* What notifying adds.
LEMMA NotifyAdds ==
  ASSUME NEW n \in [Ticket -> Nat], NEW t \in Ticket, NEW tk
  PROVE  /\ Notify(t, tk, n) \in [Ticket -> Nat]
         /\ \A u \in Ticket : Notify(t, tk, n)[u] >= n[u] /\ (u # t => Notify(t, tk, n)[u] = n[u])
         /\ tk.oms_owner => Notify(t, tk, n)[t] > 0
  BY DEF Notify

\* What the EMS writes when it ends its work.
LEMMA FinishWrites ==
  ASSUME Typed, NEW t \in Ticket, Exists(ems[t]), NEW state \in {ems[t].internal_state} \cup Given,
         Finish(t, state)
  PROVE  \E new \in TicketRec :
           /\ row' = [row EXCEPT ![t] = new] /\ EmsSaved(row[t], new)
           /\ \A u \in Ticket : notes'[u] >= notes[u] /\ (u # t => notes'[u] = notes[u])
           /\ new.ems_owner => row[t].ems_owner /\ ~ems[t].ems_owner
           /\ ems[t].ems_owner /\ ems[t].oms_owner => notes'[t] > 0
<1>1. ems[t] \in TicketRec /\ row[t] \in TicketRec /\ row \in [Ticket -> TicketRec] /\ notes \in [Ticket -> Nat]
  BY DEF Typed, TypeOK
<1>2. PICK was : was = ems[t]
  OBVIOUS
<1>3. PICK tk : tk = [was EXCEPT !.internal_state = state]
  OBVIOUS
<1>4. tk.ems_owner = was.ems_owner /\ tk.oms_owner = was.oms_owner
  BY <1>1, <1>2, <1>3 DEF TicketRec
<1>5. Release(t, was, tk)
  BY <1>2, <1>3 DEF Finish
<1>6. CASE ~was.ems_owner
  <2>1. UNCHANGED <<row, notes>>
    BY <1>4, <1>5, <1>6 DEF Release
  <2>2. row' = [row EXCEPT ![t] = row[t]] /\ EmsSaved(row[t], row[t])
    BY <1>1, <2>1, SavedNothing
  <2> QED
    BY <1>1, <1>2, <1>6, <2>1, <2>2
<1>7. CASE was.ems_owner
  <2>1. PICK now : now = [was EXCEPT !.internal_state = state, !.ems_owner = FALSE]
    OBVIOUS
  <2>2. [tk EXCEPT !.ems_owner = FALSE] = now
    BY <1>1, <1>2, <1>3, <2>1 DEF TicketRec
  <2>3. PICK new : new = Saved(was, now, row[t])
    OBVIOUS
  <2>4. row' = [row EXCEPT ![t] = new] /\ notes' = Notify(t, tk, notes)
    BY <1>4, <1>5, <1>7, <2>2, <2>3 DEF Release
  <2>5. EmsSaved(row[t], new) /\ new.ems_owner = Dirty(was.ems_owner, FALSE, row[t].ems_owner)
    BY <1>1, <1>2, <2>1, <2>3, SavedByEms
  <2>6. ~new.ems_owner /\ new \in TicketRec
    BY <1>7, <2>5 DEF Dirty, EmsSaved
  <2> QED
    BY <1>1, <1>2, <1>4, <2>4, <2>5, <2>6, NotifyAdds
<1> QED
  BY <1>1, <1>2, <1>6, <1>7 DEF TicketRec

\* ... or fails at it.
LEMMA FailWrites ==
  ASSUME Typed, NEW t \in Ticket, Exists(ems[t]), Fail(t)
  PROVE  /\ ems' = [ems EXCEPT ![t] = NoTicket] /\ job' = [job EXCEPT ![t] = "idle"]
         /\ \E new \in TicketRec :
              /\ row' = [row EXCEPT ![t] = new] /\ EmsSaved(row[t], new)
              /\ \A u \in Ticket : notes'[u] >= notes[u] /\ (u # t => notes'[u] = notes[u])
              /\ new.ems_owner => row[t].ems_owner /\ ~ems[t].ems_owner
              /\ ems[t].ems_owner /\ ems[t].oms_owner => notes'[t] > 0
<1>1. /\ row[t] \in TicketRec /\ notes \in [Ticket -> Nat] /\ row \in [Ticket -> TicketRec]
      /\ ems' = [ems EXCEPT ![t] = NoTicket] /\ job' = [job EXCEPT ![t] = "idle"]
  BY FailLetsGo DEF Typed, TypeOK
<1>2. CASE Finish(t, "FAILED")
  BY <1>1, <1>2, FinishWrites DEF Given
<1>3. CASE ~ems[t].ems_owner /\ row' = [row EXCEPT ![t].internal_state = "FAILED"] /\ UNCHANGED notes
  <2>1. PICK new : new = [row[t] EXCEPT !.internal_state = "FAILED"]
    OBVIOUS
  <2>2. row' = [row EXCEPT ![t] = new]
    BY <1>1, <1>3, <2>1
  <2>3. EmsSaved(row[t], new) /\ new.ems_owner = row[t].ems_owner /\ new \in TicketRec
    BY <1>1, <2>1 DEF EmsSaved, TicketRec, InternalStates, Given
  <2>4. \A u \in Ticket : notes'[u] >= notes[u] /\ notes'[u] = notes[u]
    BY <1>1, <1>3
  <2>5. /\ new.ems_owner => row[t].ems_owner /\ ~ems[t].ems_owner
        /\ ems[t].ems_owner /\ ems[t].oms_owner => notes'[t] > 0
    BY <1>3, <2>3
  <2> QED
    BY <1>1, <2>2, <2>3, <2>4, <2>5
<1> QED
  BY <1>2, <1>3 DEF Fail

\* How a job starts: an ended ticket is given up before it is worked on.
LEMMA StartWrites ==
  ASSUME Typed, NEW t \in Ticket, NEW tk \in TicketRec, tk.internal_state = "ACCEPTED",
         NEW r \in TicketRec, NEW n \in [Ticket -> Nat], StartJob(t, tk, r, n)
  PROVE  \E new, now \in TicketRec :
           /\ row' = [row EXCEPT ![t] = new] /\ EmsSaved(r, new)
           /\ ems' = [ems EXCEPT ![t] = now] /\ job' = [job EXCEPT ![t] = "accept"]
           /\ \A u \in Ticket : notes'[u] >= n[u] /\ (u # t => notes'[u] = n[u])
           /\ Exists(now) /\ now.auth_user = tk.auth_user /\ now.oms_owner = tk.oms_owner
           /\ ~ended[t] => now.ems_owner = tk.ems_owner
           /\ new.ems_owner => r.ems_owner /\ (tk.ems_owner => now.ems_owner)
<1>1. PICK now : now = AfterExpiry(t, tk)
  OBVIOUS
<1>2. PICK new : new = Saved(tk, now, r)
  OBVIOUS
<1>3. /\ row' = [row EXCEPT ![t] = new] /\ ems' = [ems EXCEPT ![t] = now] /\ job' = [job EXCEPT ![t] = "accept"]
      /\ notes' = IF ended[t] THEN Notify(t, tk, n) ELSE n
  BY <1>1, <1>2 DEF StartJob
<1>4. \A u \in Ticket : notes'[u] >= n[u] /\ (u # t => notes'[u] = n[u])
  <2>1. CASE ended[t]
    BY <1>3, <2>1, NotifyAdds
  <2>2. CASE ~ended[t]
    <3>1. notes' = n
      BY <1>3, <2>2
    <3> QED
      BY <3>1
  <2> QED
    BY <2>1, <2>2
<1>5. CASE ended[t]
  <2>1. now = [tk EXCEPT !.internal_state = "EXPIRED", !.ems_owner = FALSE]
    BY <1>1, <1>5 DEF AfterExpiry
  <2>2. now \in TicketRec /\ EmsSaved(r, new) /\ new.ems_owner = Dirty(tk.ems_owner, FALSE, r.ems_owner)
    BY <1>2, <2>1, SavedByEms DEF Given
  <2>3. Exists(now) /\ now.auth_user = tk.auth_user /\ now.oms_owner = tk.oms_owner
    BY <2>1 DEF Exists, TicketRec
  <2>4. new.ems_owner => r.ems_owner /\ ~tk.ems_owner
    BY <2>2 DEF Dirty, TicketRec
  <2>5. new \in TicketRec
    BY <2>2 DEF EmsSaved
  <2> QED
    BY <1>3, <1>4, <1>5, <2>2, <2>3, <2>4, <2>5
<1>6. CASE ~ended[t]
  <2>1. now = tk
    BY <1>1, <1>6 DEF AfterExpiry
  <2>2. new = r
    BY <1>2, <2>1 DEF Saved, Dirty, TicketRec
  <2>3. EmsSaved(r, r) /\ Exists(tk)
    BY SavedNothing DEF Exists
  <2> QED
    BY <1>3, <1>4, <2>1, <2>2, <2>3
<1> QED
  BY <1>5, <1>6

\* One save after another.
LEMMA SavedTwice ==
  ASSUME NEW a, NEW b, NEW c, EmsSaved(a, b), EmsSaved(b, c)
  PROVE  EmsSaved(a, c)
  BY DEF EmsSaved

\* What the EMS saves when it takes a ticket.
LEMMA TakenByEms ==
  ASSUME NEW was \in TicketRec, NEW r \in TicketRec
  PROVE  LET now == [was EXCEPT !.ems_owner = TRUE] IN
         /\ now \in TicketRec /\ now.ems_owner = TRUE /\ now.internal_state = was.internal_state
         /\ now.auth_user = was.auth_user /\ now.oms_owner = was.oms_owner
         /\ Saved(was, now, r) \in TicketRec /\ EmsSaved(r, Saved(was, now, r))
<1>1. PICK now : now = [was EXCEPT !.ems_owner = TRUE]
  OBVIOUS
<1>2. /\ now \in TicketRec /\ now.ems_owner = TRUE /\ now.internal_state = was.internal_state
      /\ now.auth_user = was.auth_user /\ now.oms_owner = was.oms_owner
      /\ now = [was EXCEPT !.internal_state = was.internal_state, !.ems_owner = TRUE]
  BY <1>1 DEF TicketRec
<1>3. EmsSaved(r, Saved(was, now, r))
  BY <1>2, SavedByEms
<1> QED
  BY <1>1, <1>2, <1>3, SavedType

\* The EMS takes a ticket out of its topic.
LEMMA EmsTakes ==
  ASSUME Typed, EmsTake
  PROVE  \E t \in Ticket, m \in Dispatched, new, tk \in TicketRec : Takes(t, m, new, tk)
<1>1. PICK m : m = Head(emsQ)
  OBVIOUS
<1>2. emsQ # <<>> /\ m \in Dispatched /\ m.t \in Ticket /\ m.tk \in TicketRec /\ m.tk.internal_state = "ACCEPTED"
  <2>1. emsQ # <<>> /\ emsQ \in Seq(Dispatched)
    BY DEF EmsTake, Typed
  <2>2. m \in Dispatched
    BY <1>1, <2>1, QueueType
  <2> QED
    BY <2>1, <2>2 DEF Dispatched
<1>3. PICK t : t = m.t
  OBVIOUS
<1>4. row[t] \in TicketRec /\ notes \in [Ticket -> Nat]
  BY <1>2, <1>3 DEF Typed, TypeOK
<1>5. PICK tk : tk = [m.tk EXCEPT !.ems_owner = TRUE]
  OBVIOUS
<1>6. PICK r : r = Saved(m.tk, tk, row[t])
  OBVIOUS
<1>7. /\ tk \in TicketRec /\ tk.ems_owner = TRUE /\ tk.internal_state = "ACCEPTED"
      /\ tk.auth_user = m.tk.auth_user /\ tk.oms_owner = m.tk.oms_owner
      /\ r \in TicketRec /\ EmsSaved(row[t], r)
  BY <1>2, <1>4, <1>5, <1>6, TakenByEms
<1>8. StartJob(t, tk, r, Notify(t, tk, notes)) /\ taken' = [taken EXCEPT ![t] = @ + 1]
  BY <1>1, <1>3, <1>5, <1>6 DEF EmsTake
<1>9. PICK n : n = Notify(t, tk, notes)
  OBVIOUS
<1>10. n \in [Ticket -> Nat] /\ \A u \in Ticket : n[u] >= notes[u] /\ (u # t => n[u] = notes[u])
  BY <1>2, <1>3, <1>4, <1>9, NotifyAdds
<1>11. PICK new \in TicketRec, now \in TicketRec :
         /\ row' = [row EXCEPT ![t] = new] /\ EmsSaved(r, new)
         /\ ems' = [ems EXCEPT ![t] = now] /\ job' = [job EXCEPT ![t] = "accept"]
         /\ \A u \in Ticket : notes'[u] >= n[u] /\ (u # t => notes'[u] = n[u])
         /\ Exists(now) /\ now.auth_user = tk.auth_user /\ now.oms_owner = tk.oms_owner
         /\ ~ended[t] => now.ems_owner = tk.ems_owner
         /\ new.ems_owner => r.ems_owner /\ (tk.ems_owner => now.ems_owner)
  BY <1>2, <1>3, <1>7, <1>8, <1>9, <1>10, StartWrites
<1>12. EmsSaved(row[t], new)
  BY <1>7, <1>11, SavedTwice
<1>13. \A u \in Ticket : notes'[u] >= notes[u] /\ (u # t => notes'[u] = notes[u])
  <2>1. ASSUME NEW u \in Ticket PROVE notes'[u] >= notes[u] /\ (u # t => notes'[u] = notes[u])
    <3>1. notes[u] \in Nat /\ n[u] \in Nat /\ notes' \in [Ticket -> Nat]
      <4>1. notes' = IF ended[t] THEN Notify(t, tk, n) ELSE n
        BY <1>8, <1>9 DEF StartJob
      <4> QED
        BY <1>2, <1>3, <1>4, <1>10, <4>1, NotifyAdds
    <3> QED
      BY <1>10, <1>11, <3>1
  <2> QED
    BY <2>1
<1>14. EmsMoved(t, new, now, "accept")
  BY <1>11, <1>12, <1>13 DEF EmsMoved, EmsWrote, EmsTake, envVars
<1>15. Takes(t, m, new, now)
  <2>1. job[t] = "idle" /\ UNCHANGED booked /\ emsQ' = Tail(emsQ)
    BY <1>2, <1>3 DEF EmsTake, EmsIdle
  <2> QED
    BY <1>1, <1>2, <1>3, <1>7, <1>8, <1>11, <1>14, <2>1 DEF Takes
<1> QED
  BY <1>2, <1>3, <1>11, <1>15

\* The EMS goes on with a ticket it has.
LEMMA EmsWorks ==
  ASSUME DealInv, NEW t \in Ticket, EmsResume(t) \/ EmsUseQuote(t) \/ EmsRequote(t)
  PROVE  \E new, tk \in TicketRec, stage \in Jobs : Works(t, new, tk, stage)
<1>1. /\ ems[t] \in TicketRec /\ row[t] \in TicketRec /\ row \in [Ticket -> TicketRec]
      /\ ems \in [Ticket -> TicketRec] /\ notes \in [Ticket -> Nat] /\ Typed
  BY DEF DealInv, Typed, TypeOK
<1>2. Working(t)
  BY DEF DealInv, Covered, EmsResume, EmsUseQuote, EmsRequote, Working, Exists
<1>3. CASE EmsResume(t)
  <2>1. StartJob(t, ems[t], row[t], notes) /\ ems[t].internal_state = "ACCEPTED"
    BY <1>3 DEF EmsResume
  <2>2. PICK new \in TicketRec, now \in TicketRec :
           /\ row' = [row EXCEPT ![t] = new] /\ EmsSaved(row[t], new)
           /\ ems' = [ems EXCEPT ![t] = now] /\ job' = [job EXCEPT ![t] = "accept"]
           /\ \A u \in Ticket : notes'[u] >= notes[u] /\ (u # t => notes'[u] = notes[u])
           /\ Exists(now) /\ now.auth_user = ems[t].auth_user /\ now.oms_owner = ems[t].oms_owner
           /\ ~ended[t] => now.ems_owner = ems[t].ems_owner
           /\ new.ems_owner => row[t].ems_owner /\ (ems[t].ems_owner => now.ems_owner)
    BY <1>1, <2>1, StartWrites
  <2>3. Works(t, new, now, "accept")
    BY <1>2, <1>3, <2>2 DEF Works, EmsMoved, EmsWrote, EmsResume, envVars, countVars
  <2> QED
    BY <2>2, <2>3 DEF Jobs
<1>4. CASE EmsUseQuote(t)
  <2>1. row' = [row EXCEPT ![t] = row[t]] /\ EmsSaved(row[t], row[t]) /\ ems' = [ems EXCEPT ![t] = ems[t]]
        /\ job' = [job EXCEPT ![t] = "execute"] /\ \A u \in Ticket : notes'[u] >= notes[u] /\ notes'[u] = notes[u]
    BY <1>1, <1>4, SavedNothing DEF EmsUseQuote, dbVars
  <2>2. Works(t, row[t], ems[t], "execute")
    BY <1>2, <1>4, <2>1 DEF Works, EmsMoved, EmsWrote, EmsUseQuote, dbVars, envVars, countVars, Working
  <2> QED
    BY <1>1, <2>2 DEF Jobs
<1>5. CASE EmsRequote(t)
  <2>1. PICK tk : tk = [ems[t] EXCEPT !.internal_state = "RFQ_DONE", !.quote_id = TRUE]
    OBVIOUS
  <2>2. PICK new : new = Saved(ems[t], tk, row[t])
    OBVIOUS
  <2>3. /\ tk \in TicketRec /\ Exists(tk) /\ tk.internal_state = "RFQ_DONE"
        /\ tk.external_state = ems[t].external_state /\ tk.phase = ems[t].phase /\ tk.action = ems[t].action
        /\ tk.oms_owner = ems[t].oms_owner /\ tk.paused = ems[t].paused /\ tk.auth_user = ems[t].auth_user
        /\ tk.ems_owner = ems[t].ems_owner
    BY <1>1, <2>1 DEF TicketRec, InternalStates, Exists
  <2>4. new \in TicketRec
    BY <1>1, <2>2, <2>3, SavedType
  <2>5. EmsSaved(row[t], new) /\ new.ems_owner = row[t].ems_owner
    BY <2>2, <2>3, <2>4 DEF EmsSaved, Saved, Dirty, Given
  <2>6. row' = [row EXCEPT ![t] = new] /\ ems' = [ems EXCEPT ![t] = tk] /\ job' = [job EXCEPT ![t] = "execute"]
    BY <1>5, <2>1, <2>2 DEF EmsRequote
  <2>7. \A u \in Ticket : notes'[u] >= notes[u] /\ notes'[u] = notes[u]
    BY <1>1, <1>5 DEF EmsRequote
  <2>8. Works(t, new, tk, "execute")
    BY <1>2, <1>5, <2>3, <2>5, <2>6, <2>7 DEF Works, EmsMoved, EmsWrote, EmsRequote, countVars
  <2> QED
    BY <2>3, <2>4, <2>8 DEF Jobs
<1> QED
  BY <1>3, <1>4, <1>5

\* The EMS is done with a ticket.
LEMMA EmsEnds ==
  ASSUME DealInv, NEW t \in Ticket,
         \/ EmsLetGo(t) \/ EmsQuoteGone(t) \/ EmsRequoteFails(t)
         \/ EmsRefused(t) \/ EmsFill(t) \/ EmsAnswerLost(t)
  PROVE  \E new \in TicketRec : Ends(t, new)
<1>1. Typed
  BY DEF DealInv
<1>2. Working(t)
  BY DEF DealInv, Covered, EmsLetGo, EmsQuoteGone, EmsRequoteFails, EmsRefused, EmsFill, EmsAnswerLost
<1>3. UNCHANGED <<apiQ, emsQ, oms, req, ended, admitted, sent, taken, overwrites, restarts>>
  BY DEF EmsLetGo, EmsQuoteGone, EmsRequoteFails, EmsRefused, EmsFill, EmsAnswerLost, envVars, countVars
<1>4. \/ UNCHANGED booked
      \/ job[t] = "execute" /\ booked' = [booked EXCEPT ![t] = @ + 1]
  BY DEF EmsLetGo, EmsQuoteGone, EmsRequoteFails, EmsRefused, EmsFill, EmsAnswerLost, Book, countVars
<1>5. Fail(t) \/ \E state \in {ems[t].internal_state} \cup Given : Finish(t, state)
  BY DEF EmsLetGo, EmsQuoteGone, EmsRequoteFails, EmsRefused, EmsFill, EmsAnswerLost, Given, Outcomes
<1>6. PICK new \in TicketRec :
         /\ ems' = [ems EXCEPT ![t] = NoTicket] /\ job' = [job EXCEPT ![t] = "idle"]
         /\ row' = [row EXCEPT ![t] = new] /\ EmsSaved(row[t], new)
         /\ \A u \in Ticket : notes'[u] >= notes[u] /\ (u # t => notes'[u] = notes[u])
         /\ new.ems_owner => row[t].ems_owner /\ ~ems[t].ems_owner
         /\ ems[t].ems_owner /\ ems[t].oms_owner => notes'[t] > 0
  <2>1. CASE Fail(t)
    BY <1>1, <1>2, <2>1, FailWrites DEF Working
  <2>2. ASSUME NEW state \in {ems[t].internal_state} \cup Given, Finish(t, state)
        PROVE  /\ ems' = [ems EXCEPT ![t] = NoTicket] /\ job' = [job EXCEPT ![t] = "idle"]
               /\ \E new \in TicketRec :
                    /\ row' = [row EXCEPT ![t] = new] /\ EmsSaved(row[t], new)
                    /\ \A u \in Ticket : notes'[u] >= notes[u] /\ (u # t => notes'[u] = notes[u])
                    /\ new.ems_owner => row[t].ems_owner /\ ~ems[t].ems_owner
                    /\ ems[t].ems_owner /\ ems[t].oms_owner => notes'[t] > 0
    <3>1. ems' = [ems EXCEPT ![t] = NoTicket] /\ job' = [job EXCEPT ![t] = "idle"]
      BY <2>2 DEF Finish
    <3> QED
      BY <1>1, <1>2, <2>2, <3>1, FinishWrites DEF Working
  <2> QED
    BY <1>5, <2>1, <2>2
<1>7. Ends(t, new)
  BY <1>2, <1>3, <1>4, <1>6 DEF Ends, EmsMoved, EmsWrote
<1> QED
  BY <1>6, <1>7

\* Every step of the EMS is one of these.
LEMMA EmsSteps ==
  ASSUME DealInv, EmsNext
  PROVE  \E t \in Ticket, new \in TicketRec :
           \/ \E m \in Dispatched, tk \in TicketRec : Takes(t, m, new, tk)
           \/ \E tk \in TicketRec, stage \in Jobs : Works(t, new, tk, stage)
           \/ Ends(t, new)
<1>1. Typed
  BY DEF DealInv
<1>2. CASE EmsTake
  BY <1>1, <1>2, EmsTakes
<1>3. ASSUME NEW t \in Ticket, EmsResume(t) \/ EmsUseQuote(t) \/ EmsRequote(t)
      PROVE  \E new, tk \in TicketRec, stage \in Jobs : Works(t, new, tk, stage)
  BY <1>3, EmsWorks
<1>4. ASSUME NEW t \in Ticket, \/ EmsLetGo(t) \/ EmsQuoteGone(t) \/ EmsRequoteFails(t)
                               \/ EmsRefused(t) \/ EmsFill(t) \/ EmsAnswerLost(t)
      PROVE  \E new \in TicketRec : Ends(t, new)
  BY <1>4, EmsEnds
<1> QED
  BY <1>2, <1>3, <1>4 DEF EmsNext, EmsJob

-----------------------------------------------------------------------------
\* What no step of the EMS touches.
EmsSide(u) ==
  /\ row'[u] \in TicketRec /\ EmsSaved(row[u], row'[u])
  /\ oms'[u] = oms[u] /\ ended'[u] = ended[u] /\ notes'[u] >= notes[u]
  /\ SameOrders(u) /\ StillRead(u)
  /\ admitted'[u] = admitted[u] /\ sent'[u] = sent[u]
  /\ overwrites'[u] = overwrites[u] /\ restarts' = restarts

TakeFor(u, m) ==
  /\ LessCalls(u, m) /\ EmsSide(u)
  /\ job[u] = "idle" /\ job'[u] = "accept"
  /\ Exists(ems'[u]) /\ ems'[u].auth_user = m.tk.auth_user /\ ems'[u].oms_owner = m.tk.oms_owner
  /\ ~ended[u] => ems'[u].ems_owner
  /\ row'[u].ems_owner => ems'[u].ems_owner
  /\ taken'[u] = taken[u] + 1 /\ booked'[u] = booked[u]

WorkFor(u) ==
  /\ Working(u) /\ SameCalls(u) /\ EmsSide(u)
  /\ job'[u] \in {"accept", "execute"}
  /\ Exists(ems'[u]) /\ ems'[u].auth_user = ems[u].auth_user /\ ems'[u].oms_owner = ems[u].oms_owner
  /\ ~ended[u] => ems'[u].ems_owner = ems[u].ems_owner
  /\ row'[u].ems_owner => row[u].ems_owner /\ (ems[u].ems_owner => ems'[u].ems_owner)
  /\ taken'[u] = taken[u] /\ booked'[u] = booked[u]

EndFor(u) ==
  /\ Working(u) /\ SameCalls(u) /\ EmsSide(u)
  /\ ems'[u] = NoTicket /\ job'[u] = "idle"
  /\ row'[u].ems_owner => row[u].ems_owner /\ ~ems[u].ems_owner
  /\ ems[u].ems_owner /\ ems[u].oms_owner => notes'[u] > 0
  /\ taken'[u] = taken[u]
  /\ booked'[u] = booked[u] \/ (job[u] = "execute" /\ booked'[u] = booked[u] + 1)

EmsFor(u) == (\E m \in Dispatched : TakeFor(u, m)) \/ WorkFor(u) \/ EndFor(u)

\* What the EMS's write means for a ticket.
LEMMA EmsWroteTicket ==
  ASSUME Typed, NEW t \in Ticket, NEW new \in TicketRec, NEW tk, NEW stage, EmsMoved(t, new, tk, stage),
         NEW u \in Ticket
  PROVE  /\ EmsSide(u)
         /\ IF u = t THEN row'[u] = new /\ ems'[u] = tk /\ job'[u] = stage
                     ELSE row'[u] = row[u] /\ ems'[u] = ems[u] /\ job'[u] = job[u] /\ notes'[u] = notes[u]
<1>1. IF u = t THEN row'[u] = new /\ ems'[u] = tk /\ job'[u] = stage
               ELSE row'[u] = row[u] /\ ems'[u] = ems[u] /\ job'[u] = job[u] /\ notes'[u] = notes[u]
  BY DEF EmsMoved, EmsWrote, Typed, TypeOK
<1>2. EmsSaved(row[u], row'[u])
  <2>1. row[u] \in TicketRec
    BY DEF Typed, TypeOK
  <2> QED
    BY <1>1, <2>1, SavedNothing DEF EmsMoved, EmsWrote
<1>3. SameOrders(u) /\ StillRead(u)
  BY QueueSame DEF EmsMoved, EmsWrote, StillRead, Reads
<1>4. row'[u] \in TicketRec
  BY <1>2 DEF EmsSaved
<1>5. /\ oms'[u] = oms[u] /\ ended'[u] = ended[u] /\ notes'[u] >= notes[u]
      /\ admitted'[u] = admitted[u] /\ sent'[u] = sent[u]
      /\ overwrites'[u] = overwrites[u] /\ restarts' = restarts
  BY DEF EmsMoved, EmsWrote
<1> QED
  BY <1>1, <1>2, <1>3, <1>4, <1>5 DEF EmsSide

\* What a step of the EMS means for a ticket.
LEMMA EmsTicket ==
  ASSUME DealInv, EmsNext, NEW u \in Ticket
  PROVE  Alone(u) \/ EmsFor(u)
<1>0. Typed
  BY DEF DealInv
<1>1. ASSUME NEW t \in Ticket, NEW m \in Dispatched, NEW new \in TicketRec, NEW tk \in TicketRec,
             Takes(t, m, new, tk)
      PROVE  Alone(u) \/ TakeFor(u, m)
  <2>1. /\ EmsSide(u)
        /\ IF u = t THEN row'[u] = new /\ ems'[u] = tk /\ job'[u] = "accept"
                    ELSE row'[u] = row[u] /\ ems'[u] = ems[u] /\ job'[u] = job[u] /\ notes'[u] = notes[u]
    BY <1>0, <1>1, EmsWroteTicket DEF Takes
  <2>2. IF u = t THEN LessCalls(u, m) ELSE SameCalls(u)
    BY <1>0, <1>1, CallsTail DEF Takes
  <2>3. booked'[u] = booked[u] /\ taken'[u] = IF u = t THEN taken[u] + 1 ELSE taken[u]
    BY <1>0, <1>1 DEF Takes, Typed, TypeOK
  <2>4. CASE u = t
    BY <1>1, <2>1, <2>2, <2>3, <2>4 DEF Takes, TakeFor
  <2>5. CASE u # t
    BY <2>1, <2>2, <2>3, <2>5 DEF Alone, EmsSide, EmsKept
  <2> QED
    BY <2>4, <2>5
<1>2. ASSUME NEW t \in Ticket, NEW new \in TicketRec, NEW tk \in TicketRec, NEW stage \in Jobs,
             Works(t, new, tk, stage)
      PROVE  Alone(u) \/ WorkFor(u)
  <2>1. /\ EmsSide(u)
        /\ IF u = t THEN row'[u] = new /\ ems'[u] = tk /\ job'[u] = stage
                    ELSE row'[u] = row[u] /\ ems'[u] = ems[u] /\ job'[u] = job[u] /\ notes'[u] = notes[u]
    BY <1>0, <1>2, EmsWroteTicket DEF Works
  <2>2. SameCalls(u) /\ booked'[u] = booked[u] /\ taken'[u] = taken[u]
    BY <1>2, QueueSame DEF Works
  <2>3. CASE u = t
    BY <1>2, <2>1, <2>2, <2>3 DEF Works, WorkFor
  <2>4. CASE u # t
    BY <2>1, <2>2, <2>4 DEF Alone, EmsSide, EmsKept
  <2> QED
    BY <2>3, <2>4
<1>3. ASSUME NEW t \in Ticket, NEW new \in TicketRec, Ends(t, new)
      PROVE  Alone(u) \/ EndFor(u)
  <2>1. /\ EmsSide(u)
        /\ IF u = t THEN row'[u] = new /\ ems'[u] = NoTicket /\ job'[u] = "idle"
                    ELSE row'[u] = row[u] /\ ems'[u] = ems[u] /\ job'[u] = job[u] /\ notes'[u] = notes[u]
    BY <1>0, <1>3, EmsWroteTicket DEF Ends
  <2>2. SameCalls(u) /\ taken'[u] = taken[u]
    BY <1>3, QueueSame DEF Ends
  <2>3. IF u = t THEN booked'[u] = booked[u] \/ (job[u] = "execute" /\ booked'[u] = booked[u] + 1)
                 ELSE booked'[u] = booked[u]
    BY <1>0, <1>3 DEF Ends, Typed, TypeOK
  <2>4. CASE u = t
    BY <1>3, <2>1, <2>2, <2>3, <2>4 DEF Ends, EndFor
  <2>5. CASE u # t
    BY <2>1, <2>2, <2>3, <2>5 DEF Alone, EmsSide, EmsKept
  <2> QED
    BY <2>4, <2>5
<1> QED
  BY <1>1, <1>2, <1>3, EmsSteps DEF EmsFor

\* A death of the EMS: it may lose a CREATE, have saved what it did, or not.
EmsDiedFor(u) ==
  /\ restarts' = restarts + 1
  /\ row'[u] \in TicketRec /\ EmsSaved(row[u], row'[u])
  /\ ems'[u] = IF row'[u].ems_owner THEN row'[u] ELSE NoTicket
  /\ job'[u] = "idle"
  /\ oms'[u] = oms[u] /\ notes'[u] = notes[u] /\ ended'[u] = ended[u]
  /\ SameOrders(u) /\ StillRead(u)
  /\ SameCalls(u) \/ \E m \in Dispatched : LessCalls(u, m)
  /\ \/ row'[u] = row[u] /\ booked'[u] = booked[u]
     \/ Calls(u) # {} /\ booked'[u] = booked[u]
     \/ job[u] # "idle"
  /\ admitted'[u] = admitted[u] /\ sent'[u] = sent[u] /\ taken'[u] = taken[u]
  /\ overwrites'[u] = overwrites[u]

EmsDeaths ==
  \/ EmsCrash \/ EmsCrashTaking
  \/ \E t \in Ticket : EmsCrashBooked(t) \/ EmsCrashUnreported(t)

\* What a death of the EMS means for a ticket.
LEMMA EmsDeathTicket ==
  ASSUME Typed, EmsDeaths, NEW u \in Ticket
  PROVE  EmsDiedFor(u)
<1>0. /\ row \in [Ticket -> TicketRec] /\ row[u] \in TicketRec /\ EmsSaved(row[u], row[u])
      /\ booked \in [Ticket -> Nat] /\ ems \in [Ticket -> TicketRec]
  BY SavedNothing DEF Typed, TypeOK
<1>1. EmsRestart /\ UNCHANGED <<notes, taken>>
  BY DEF EmsDeaths, EmsCrash, EmsCrashTaking, EmsCrashBooked, EmsCrashUnreported
<1>2. /\ restarts' = restarts + 1 /\ job'[u] = "idle"
      /\ ems'[u] = IF row'[u].ems_owner THEN row'[u] ELSE NoTicket
      /\ oms'[u] = oms[u] /\ notes'[u] = notes[u] /\ ended'[u] = ended[u]
      /\ admitted'[u] = admitted[u] /\ sent'[u] = sent[u] /\ taken'[u] = taken[u]
      /\ overwrites'[u] = overwrites[u]
      /\ SameOrders(u) /\ StillRead(u)
  BY <1>1, QueueSame DEF EmsRestart, Die, envVars, StillRead, Reads
<1>3. CASE EmsCrash
  BY <1>0, <1>2, <1>3, QueueSame DEF EmsCrash, EmsDiedFor
<1>4. CASE EmsCrashTaking
  <2>1. PICK m : m = Head(emsQ)
    OBVIOUS
  <2>2. emsQ # <<>> /\ m \in Dispatched /\ m.t \in Ticket /\ m.tk \in TicketRec
    <3>1. emsQ # <<>> /\ emsQ \in Seq(Dispatched)
      BY <1>4 DEF EmsCrashTaking, Typed
    <3>2. m \in Dispatched
      BY <2>1, <3>1, QueueType
    <3> QED
      BY <3>1, <3>2 DEF Dispatched
  <2>3. IF m.t = u THEN LessCalls(u, m) ELSE SameCalls(u)
    BY <1>4, <2>1, <2>2, CallsTail DEF EmsCrashTaking
  <2>4. UNCHANGED row \/ row' = [row EXCEPT ![m.t] = Saved(m.tk, [m.tk EXCEPT !.ems_owner = TRUE], @)]
    BY <1>4, <2>1 DEF EmsCrashTaking
  <2>5. row[m.t] \in TicketRec
    BY <1>0, <2>2
  <2>6. PICK new : new = Saved(m.tk, [m.tk EXCEPT !.ems_owner = TRUE], row[m.t])
    OBVIOUS
  <2>7. new \in TicketRec /\ EmsSaved(row[m.t], new)
    BY <2>2, <2>5, <2>6, TakenByEms
  <2>8. UNCHANGED row \/ row' = [row EXCEPT ![m.t] = new]
    BY <2>4, <2>6
  <2>9. row'[u] \in TicketRec /\ EmsSaved(row[u], row'[u]) /\ (row'[u] = row[u] \/ m.t = u)
    BY <1>0, <2>2, <2>7, <2>8
  <2>10. m.t = u => Calls(u) # {}
    BY <2>3 DEF LessCalls
  <2> QED
    BY <1>2, <1>4, <2>2, <2>3, <2>9, <2>10 DEF EmsCrashTaking, EmsDiedFor
<1>5. ASSUME NEW t \in Ticket, EmsCrashBooked(t)
      PROVE  EmsDiedFor(u)
  <2>1. booked'[u] = booked[u] \/ job[u] # "idle"
    BY <1>0, <1>5 DEF EmsCrashBooked, Book
  <2> QED
    BY <1>0, <1>2, <1>5, <2>1, QueueSame DEF EmsCrashBooked, EmsDiedFor
<1>6. ASSUME NEW t \in Ticket, EmsCrashUnreported(t)
      PROVE  EmsDiedFor(u)
  <2>1. PICK outcome \in Outcomes(t) :
          row' = [row EXCEPT ![t] =
            Saved(ems[t], [ems[t] EXCEPT !.internal_state = outcome, !.ems_owner = FALSE], @)]
    BY <1>6 DEF EmsCrashUnreported
  <2>2. outcome \in {ems[t].internal_state} \cup Given /\ ems[t] \in TicketRec /\ row[t] \in TicketRec
    BY <1>0 DEF Outcomes, Given
  <2>3. PICK new : new = Saved(ems[t], [ems[t] EXCEPT !.internal_state = outcome, !.ems_owner = FALSE], row[t])
    OBVIOUS
  <2>4. EmsSaved(row[t], new)
    BY <2>2, <2>3, SavedByEms
  <2>5. new \in TicketRec
    BY <2>4 DEF EmsSaved
  <2>6. row' = [row EXCEPT ![t] = new]
    BY <2>1, <2>3
  <2>7. row'[u] \in TicketRec /\ EmsSaved(row[u], row'[u]) /\ (row'[u] = row[u] \/ t = u)
    BY <1>0, <2>4, <2>5, <2>6
  <2>8. booked'[u] = booked[u] \/ t = u
    BY <1>0, <1>6 DEF EmsCrashUnreported, Book
  <2> QED
    BY <1>2, <1>6, <2>7, <2>8, QueueSame DEF EmsCrashUnreported, EmsDiedFor
<1> QED
  BY <1>3, <1>4, <1>5, <1>6 DEF EmsDeaths

-----------------------------------------------------------------------------
\* What one step of the whole system means for one ticket.
TicketStep(u) ==
  \/ Alone(u) \/ ApiFor(u) \/ OmsFor(u) \/ EmsFor(u)
  \/ OmsDiedFor(u) \/ EmsDiedFor(u)

\* Every step is one of these for every ticket.
LEMMA EveryStep ==
  ASSUME Shaped, DealInv, [Next]_vars, NEW u \in Ticket
  PROVE  TicketStep(u)
<1>1. CASE UNCHANGED vars \/ Time
  <2>1. /\ UNCHANGED <<row, apiQ, emsQ, notes, oms, ems, job, req, asks, admitted, sent, taken, booked,
                      overwrites, restarts>>
        /\ ended[u] => ended'[u]
    BY <1>1 DEF vars, Time, EndTime, QuoteLapse, dbVars, countVars, Shaped, Typed, TypeOK
  <2>2. Alone(u)
    BY <2>1, QueueSame DEF Alone, EmsKept, StillRead, Reads
  <2> QED
    BY <2>2 DEF TicketStep
<1>2. CASE ApiNext \/ \E c \in Client : ApiCrash(c)
  BY <1>2, ApiTicket DEF TicketStep
<1>3. CASE OmsNext
  BY <1>3, OmsTicket DEF TicketStep
<1>4. CASE EmsNext
  BY <1>4, EmsTicket DEF TicketStep
<1>5. CASE OmsDeaths
  BY <1>5, OmsDeathTicket DEF TicketStep
<1>6. CASE EmsDeaths
  BY <1>6, EmsDeathTicket DEF TicketStep, DealInv
<1> QED
  BY <1>1, <1>2, <1>3, <1>4, <1>5, <1>6 DEF Next, Deaths, OmsDeaths, EmsDeaths

-----------------------------------------------------------------------------
\* Requests keep their shape.
LEMMA ShapedStep ==
  ASSUME Shaped, Typed', [Next]_vars
  PROVE  Shaped'
<1>0. Typed /\ apiQ \in Seq(Request)
  BY DEF Shaped
<1>1. ASSUME UNCHANGED apiQ \/ (apiQ # <<>> /\ apiQ' = Tail(apiQ)), UNCHANGED req
      PROVE  Shaped'
  <2>1. apiQ' \in Seq(Request)
    BY <1>0, <1>1, QueueType
  <2>2. Seq(Request)' = Seq(Request)
    BY DEF Request
  <2> QED
    BY <1>1, <2>1, <2>2 DEF Shaped, Request
<1>2. ASSUME apiQ' \in Seq(Request),
             \A c \in Client : \/ req'[c] = NoReq \/ req'[c] = req[c]
                               \/ req'[c].op = "EXECUTE_RFQ" => req'[c].tk.action = "rfq"
      PROVE  Shaped'
  BY <1>2 DEF Shaped, Request
<1>3. CASE ApiNext \/ \E c \in Client : ApiCrash(c)
  <2>1. ASSUME NEW t \in Ticket, NEW tk \in TicketRec, Created(t, tk)
        PROVE  Shaped'
    <3> DEFINE m == [t |-> t, op |-> "CREATE", tk |-> tk]
    <3>1. tk.action = "execute" /\ tk.internal_state \in {"NEW", "DRAFT"} => m \in Request
      BY <2>1 DEF Request, ApiMsg, Created
    <3> HIDE DEF m
    <3>2. apiQ' \in Seq(Request)
      BY <1>0, <2>1, <3>1, QueueType DEF Created, m
    <3> QED
      BY <1>2, <2>1, <3>2 DEF Created
  <2>2. ASSUME NEW t \in Ticket, NEW op \in ControlOps, Asked(t, op)
        PROVE  Shaped'
    <3> DEFINE m == [t |-> t, op |-> op, tk |-> NoTicket]
    <3>1. m \in Request
      BY NoTicketType DEF Request, ApiMsg, ControlOps
    <3> HIDE DEF m
    <3>2. apiQ' \in Seq(Request)
      BY <1>0, <2>2, <3>1, QueueType DEF Asked, m
    <3> QED
      BY <1>2, <2>2, <3>2 DEF Asked
  <2>3. ASSUME NEW c \in Client, NEW t \in Ticket, NEW op \in {"EXECUTE_RFQ", "REFRESH"}, Took(c, t, op)
        PROVE  Shaped'
    <3>1. req'[c] = [t |-> t, op |-> op, tk |-> row[t]] /\ \A d \in Client \ {c} : req'[d] = req[d]
      BY <1>0, <2>3 DEF Took, Typed, TypeOK
    <3>2. req'[c].op = "EXECUTE_RFQ" => req'[c].tk.action = "rfq"
      BY <2>3, <3>1 DEF Took
    <3> QED
      BY <1>0, <1>2, <2>3, <3>1, <3>2 DEF Took
  <2>4. ASSUME NEW c \in Client, NEW tk \in TicketRec, Wrote(c, tk)
        PROVE  Shaped'
    <3> DEFINE m == [t |-> req[c].t, op |-> "EXECUTE_RFQ", tk |-> tk]
    <3>1. req[c].t \in Ticket
      BY <1>0, <2>4, ReqType DEF Wrote, Typed
    <3>5. m \in ApiMsg /\ m.op = "EXECUTE_RFQ" /\ m.tk = tk
      BY <3>1 DEF ApiMsg
    <3> HIDE DEF m
    <3>2. ASSUME tk.internal_state = "ACCEPTED", tk.phase = "PRETRADE", tk.external_state = "ACTIVE",
                 tk.action = "execute", tk.auth_user
          PROVE  m \in Request
      BY <3>2, <3>5 DEF Request
    <3>3. apiQ' \in Seq(Request)
      BY <1>0, <2>4, <3>2, QueueType DEF Wrote, m
    <3>4. \A d \in Client : req'[d] = NoReq \/ req'[d] = req[d]
      BY <1>0, <2>4 DEF Wrote, Typed, TypeOK
    <3> QED
      BY <1>2, <3>3, <3>4
  <2>5. ASSUME NEW c \in Client, Dropped(c)
        PROVE  Shaped'
    <3>1. \A d \in Client : req'[d] = NoReq \/ req'[d] = req[d]
      BY <1>0, <2>5 DEF Dropped, Typed, TypeOK
    <3> QED
      BY <1>0, <1>2, <2>5, <3>1 DEF Dropped
  <2> QED
    BY <1>0, <1>3, <2>1, <2>2, <2>3, <2>4, <2>5, ApiSteps
<1>4. CASE OmsNext
  BY <1>1, <1>4 DEF OmsNext, OmsApi, OmsAdmit, OmsCancel, OmsControl, OmsRefuse, OmsReceive, OmsCycle, Next1
<1>5. CASE EmsNext
  BY <1>1, <1>5 DEF EmsNext, EmsJob, EmsTake, EmsResume, EmsLetGo, EmsUseQuote, EmsQuoteGone, EmsRequote,
     EmsRequoteFails, EmsRefused, EmsFill, EmsAnswerLost, dbVars
<1>6. CASE OmsDeaths \/ EmsDeaths
  BY <1>1, <1>6 DEF OmsDeaths, OmsCrash, OmsCrashHandling, OmsCrashAdmitting, OmsCrashSending, Next1, OmsRestart,
     EmsDeaths, EmsCrash, EmsCrashTaking, EmsCrashBooked, EmsCrashUnreported, EmsRestart
<1>7. CASE UNCHANGED vars \/ Time
  BY <1>1, <1>7 DEF vars, Time, EndTime, QuoteLapse, dbVars
<1> QED
  BY <1>3, <1>4, <1>5, <1>6, <1>7 DEF Next, Deaths, OmsDeaths, EmsDeaths

\* Requests always have the shape the API gives them.
LEMMA ShapedHolds == Spec => []Shaped
<1>1. Init => Shaped
  <2> SUFFICES ASSUME Init PROVE Shaped
    OBVIOUS
  <2>1. Typed
    <3>1. apiQ \in Seq(ApiMsg) /\ emsQ \in Seq(EmsMsg) /\ emsQ \in Seq(Dispatched)
      BY DEF Init
    <3> QED
      BY <3>1, NoTicketType DEF Init, Typed, TypeOK, Jobs
  <2>2. apiQ \in Seq(Request)
    BY DEF Init
  <2> QED
    BY <2>1, <2>2 DEF Init, Shaped
<1>2. Shaped /\ Typed' /\ [Next]_vars => Shaped'
  BY ShapedStep
<1> QED
  BY <1>1, <1>2, TypedHolds, PTL DEF Spec

-----------------------------------------------------------------------------
(***************************************************************************)
(* How far a ticket has come, whoever dies and whatever is overwritten:    *)
(* before it is created there is nothing of it, before it is taken in the  *)
(* OMS has nothing, before it is sent the EMS has nothing.                 *)
(***************************************************************************)
Unborn(u) ==
  ~Exists(row[u]) => Orders(u) = {} /\ admitted[u] = 0 /\ \A c \in Client : ~Reads(c, u)

Unadmitted(u) ==
  admitted[u] = 0 =>
    /\ ~Held(u) /\ ~row[u].oms_owner /\ sent[u] = 0
    /\ \A c \in Client : Reads(c, u) => ~req[c].tk.oms_owner

Unsent(u) ==
  sent[u] = 0 =>
    /\ Calls(u) = {} /\ ~Working(u) /\ job[u] = "idle"
    /\ notes[u] = 0 /\ taken[u] = 0 /\ booked[u] = 0 /\ ~row[u].ems_owner
    /\ \A c \in Client : Reads(c, u) => ~req[c].tk.ems_owner

Origin(u) == Unborn(u) /\ Unadmitted(u) /\ Unsent(u)

\* What a ticket's variables hold.
LEMMA TicketTyped ==
  ASSUME Typed, NEW u \in Ticket
  PROVE  /\ row[u] \in TicketRec /\ oms[u] \in TicketRec /\ ems[u] \in TicketRec /\ job[u] \in Jobs
         /\ notes[u] \in Nat /\ admitted[u] \in Nat /\ sent[u] \in Nat /\ taken[u] \in Nat
         /\ booked[u] \in Nat /\ overwrites[u] \in Nat /\ restarts \in Nat
         /\ \A c \in Client : Reads(c, u) => req[c].tk \in TicketRec
  BY ReqType DEF Typed, TypeOK, Reads

\* An order waiting is a request for the ticket.
LEMMA OrderFacts ==
  ASSUME Shaped, NEW u, NEW m \in Orders(u)
  PROVE  m \in Request /\ m.t = u /\ m.op \in OrderOps /\ m.tk \in TicketRec
<1>1. m \in Msgs(apiQ) /\ m \in OrdersFor(u)
  BY DEF Orders
<1>2. m \in Request
  BY <1>1, MsgsType DEF Shaped
<1> QED
  BY <1>1, <1>2 DEF OrdersFor, ApiMsg

\* A save of a turn leaves a ticket.
LEMMA WrittenExists ==
  ASSUME NEW was, NEW now, NEW r, NEW new, Written(was, now, r, new), Exists(now), Exists(r)
  PROVE  Exists(new)
  BY DEF Written, Dirty, Exists

\* A step that is not about the ticket keeps what is said of its beginning.
LEMMA OriginStep ==
  ASSUME Shaped, Typed', NEW u \in Ticket, Origin(u), TicketStep(u)
  PROVE  Origin(u)'
<1>0. /\ Typed
      /\ row[u] \in TicketRec /\ oms[u] \in TicketRec /\ ems[u] \in TicketRec
      /\ notes[u] \in Nat /\ admitted[u] \in Nat /\ sent[u] \in Nat /\ taken[u] \in Nat /\ booked[u] \in Nat
  BY TicketTyped DEF Shaped
<1> USE DEF Origin
<1>1. CASE Alone(u)
  BY <1>1 DEF Alone, EmsKept, SameOrders, SameCalls, StillRead, Unborn, Unadmitted, Unsent, Held, Working, Reads
<1>2. ASSUME NEW tk \in TicketRec, NewFor(u, tk)
      PROVE  Origin(u)'
  BY <1>2 DEF NewFor, ApiSide, EmsKept, SameCalls, StillRead, Unborn, Unadmitted, Unsent, Held, Working, Reads
<1>3. CASE ReadFor(u)
  BY <1>3 DEF ReadFor, ApiSide, EmsKept, SameOrders, SameCalls, Unborn, Unadmitted, Unsent, Held, Working, Reads
<1>4. ASSUME NEW c \in Client, NEW tk \in TicketRec, WriteFor(u, c, tk)
      PROVE  Origin(u)'
  <2>1. Exists(tk)
    BY <1>4 DEF WriteFor, Exists
  <2> QED
    BY <1>4, <2>1 DEF WriteFor, ApiSide, EmsKept, SameCalls, StillRead, Unborn, Unadmitted, Unsent, Held, Working, Reads
<1>5. ASSUME NEW now \in TicketRec, NEW new \in TicketRec, NEW keep \in BOOLEAN, NEW send \in BOOLEAN,
             TurnFor(u, now, new, keep, send)
      PROVE  Origin(u)'
  <2>1. admitted[u] # 0 /\ Exists(row[u])
    BY <1>5 DEF TurnFor, Unadmitted, Unborn
  <2>2. Exists(row'[u])
    BY <1>5, <2>1, WrittenExists DEF TurnFor
  <2>3. new.ems_owner = row[u].ems_owner
    BY <1>5 DEF TurnFor, Written, Moves, Dirty
  <2>4. Unsent(u)'
    <3>1. CASE send
      BY <1>0, <1>5, <3>1 DEF TurnFor, SendsFor, Unsent
    <3>2. CASE ~send
      BY <1>5, <2>3, <3>2 DEF TurnFor, SendsFor, SameCalls, OmsSide, EmsKept, StillRead, Unsent, Working, Reads
    <3> QED
      BY <3>1, <3>2
  <2> QED
    BY <1>5, <2>1, <2>2, <2>4 DEF TurnFor, Unborn, Unadmitted
<1>6. ASSUME NEW m \in Request, NEW now \in TicketRec, NEW new \in TicketRec, NEW keep \in BOOLEAN,
             NEW send \in BOOLEAN, IntakeFor(u, m, now, new, keep, send)
      PROVE  Origin(u)'
  <2>1. Exists(row[u]) /\ m \in Orders(u)
    BY <1>6 DEF IntakeFor, LessOrders, Unborn
  <2>2. Exists(row'[u]) /\ admitted'[u] # 0
    BY <1>0, <1>6, <2>1, WrittenExists DEF IntakeFor
  <2>3. m.tk \in TicketRec
    BY <2>1, OrderFacts
  <2>4. new.ems_owner = row[u].ems_owner
    <3>1. now.ems_owner = m.tk.ems_owner
      BY <1>6, <2>3, OwnFacts DEF IntakeFor, Moves
    <3> QED
      BY <1>6, <3>1 DEF IntakeFor, Written, Dirty
  <2>5. Unsent(u)'
    <3>1. CASE send
      BY <1>0, <1>6, <3>1 DEF IntakeFor, SendsFor, Unsent
    <3>2. CASE ~send
      BY <1>6, <2>4, <3>2 DEF IntakeFor, SendsFor, SameCalls, OmsSide, EmsKept, StillRead, Unsent, Working, Reads
    <3> QED
      BY <3>1, <3>2
  <2> QED
    BY <2>2, <2>5 DEF Unborn, Unadmitted
<1>7. CASE NoticeFor(u)
  BY <1>7, NoTicketType DEF NoticeFor, EmsKept, SameOrders, SameCalls, StillRead, Unborn, Unadmitted, Unsent, Held, Working, Reads
<1>8. CASE EmsFor(u)
  <2>1. sent[u] # 0
    BY <1>8 DEF EmsFor, TakeFor, WorkFor, EndFor, LessCalls, Unsent
  <2>2. EmsSide(u)
    BY <1>8 DEF EmsFor, TakeFor, WorkFor, EndFor
  <2>3. Exists(row'[u])
    <3>1. Exists(row[u])
      BY <2>1 DEF Unborn, Unadmitted
    <3> QED
      BY <2>2, <3>1 DEF EmsSide, EmsSaved, Exists, Given
  <2> QED
    BY <2>1, <2>2, <2>3 DEF EmsSide, EmsSaved, StillRead, Unborn, Unadmitted, Unsent, Held, Reads
<1>9. CASE OmsDied(u) /\ OmsLostFor(u)
  <2>1. Orders(u)' \subseteq Orders(u)
    BY <1>9 DEF OmsLostFor, SameOrders, LessOrders
  <2> QED
    BY <1>9, <2>1, NoTicketType DEF OmsDied, OmsLostFor, EmsKept, SameCalls, StillRead, Unborn, Unadmitted, Unsent, Held, Working, Reads
<1>10. ASSUME NEW now \in TicketRec, NEW new \in TicketRec, OmsDied(u), OmsSentFor(u, now, new)
       PROVE  Origin(u)'
  <2>1. admitted[u] # 0 /\ Exists(row[u])
    BY <1>10 DEF OmsSentFor, Unadmitted, Unborn
  <2>2. Exists(row'[u])
    BY <1>10, <2>1, WrittenExists DEF OmsSentFor, HalfMoves, Exists
  <2> QED
    BY <1>0, <1>10, <2>1, <2>2 DEF OmsSentFor, Unborn, Unadmitted, Unsent
<1>11. ASSUME NEW m \in Request, NEW now \in TicketRec, NEW new \in TicketRec, OmsDied(u),
              OmsTakenFor(u, m, now, new)
       PROVE  Origin(u)'
  <2>1. Exists(row[u]) /\ m \in Orders(u)
    BY <1>11 DEF OmsTakenFor, LessOrders, Unborn
  <2>2. m.tk \in TicketRec /\ m.tk.internal_state \in {"NEW", "DRAFT", "ACCEPTED"}
    BY <2>1, OrderFacts DEF Request, OrderOps
  <2>3. Exists(now)
    <3>1. CASE HalfMoves(Own(m.tk), now)
      BY <3>1 DEF HalfMoves, Exists
    <3>2. CASE now = Own(m.tk)
      BY <2>2, <3>2, OwnFacts DEF Exists
    <3> QED
      BY <1>11, <3>1, <3>2 DEF OmsTakenFor
  <2>4. Exists(row'[u]) /\ admitted'[u] # 0
    BY <1>0, <1>11, <2>1, <2>3, WrittenExists DEF OmsTakenFor
  <2>5. Unsent(u)'
    <3>1. CASE sent'[u] = sent[u] + 1
      BY <1>0, <3>1 DEF Unsent
    <3>2. CASE now = Own(m.tk) /\ SameCalls(u) /\ sent'[u] = sent[u]
      <4>1. new.ems_owner = row[u].ems_owner
        BY <1>11, <2>2, <3>2, OwnFacts DEF OmsTakenFor, Written, Dirty
      <4> QED
        BY <1>11, <3>2, <4>1 DEF OmsTakenFor, OmsDied, EmsKept, SameCalls, StillRead, Unsent, Working, Reads
    <3> QED
      BY <1>11, <3>1, <3>2 DEF OmsTakenFor
  <2> QED
    BY <2>4, <2>5 DEF Unborn, Unadmitted
<1>12. CASE EmsDiedFor(u)
  <2>1. Exists(row[u]) => Exists(row'[u])
    BY <1>12 DEF EmsDiedFor, EmsSaved, Exists, Given
  <2>2. sent[u] = 0 => row'[u] = row[u] /\ booked'[u] = booked[u] /\ SameCalls(u)
    BY <1>12 DEF EmsDiedFor, LessCalls, Unsent
  <2> QED
    BY <1>12, <2>1, <2>2, NoTicketType DEF EmsDiedFor, EmsSaved, SameOrders, SameCalls, StillRead, Unborn, Unadmitted,
       Unsent, Held, Working, Reads
<1> QED
  BY <1>1, <1>2, <1>3, <1>4, <1>5, <1>6, <1>7, <1>8, <1>9, <1>10, <1>11, <1>12
     DEF TicketStep, ApiFor, OmsFor, OmsDiedFor

\* Where no request waits, none waits twice.
LEMMA NoOrders ==
  ASSUME NEW u
  PROVE  (Orders(u) = {} => OneOrder(u)) /\ (Calls(u) = {} => OneCall(u))
  BY DEF Orders, OneOrder, Calls, OneCall, Msgs, Once

\* Neither process changes the action of a ticket, unmakes it, or takes an authorisation back.
Backend(u) == OmsFor(u) \/ EmsFor(u) \/ OmsDiedFor(u) \/ EmsDiedFor(u)

\* What a save of an unchanged action and a kept authorisation leaves.
LEMMA WrittenKeeps ==
  ASSUME NEW was, NEW now, NEW r, NEW new, Written(was, now, r, new), now.action = was.action,
         now.auth_user = was.auth_user \/ now.auth_user
  PROVE  new.action = r.action /\ (r.auth_user => new.auth_user)
  BY DEF Written, Dirty

\* What a step of either process leaves of a ticket.
LEMMA BackendFacts ==
  ASSUME Shaped, NEW u \in Ticket, Exists(row[u]), Backend(u)
  PROVE  /\ row'[u] \in TicketRec /\ Exists(row'[u]) /\ row'[u].action = row[u].action
         /\ row[u].auth_user => row'[u].auth_user
         /\ StillRead(u) /\ Orders(u)' \subseteq Orders(u)
         /\ overwrites'[u] = overwrites[u] /\ restarts' \in {restarts, restarts + 1}
         /\ ended'[u] = ended[u]
<1>0. row[u] \in TicketRec
  BY TicketTyped DEF Shaped
<1>1. ASSUME NEW now \in TicketRec, NEW new \in TicketRec, NEW keep \in BOOLEAN, NEW send \in BOOLEAN,
             TurnFor(u, now, new, keep, send)
      PROVE  /\ row'[u] \in TicketRec /\ Exists(row'[u]) /\ row'[u].action = row[u].action
             /\ row[u].auth_user => row'[u].auth_user
  BY <1>1, WrittenExists, WrittenKeeps DEF TurnFor, Moves
<1>2. ASSUME NEW m \in Request, NEW now \in TicketRec, NEW new \in TicketRec, NEW keep \in BOOLEAN,
             NEW send \in BOOLEAN, IntakeFor(u, m, now, new, keep, send)
      PROVE  /\ row'[u] \in TicketRec /\ Exists(row'[u]) /\ row'[u].action = row[u].action
             /\ row[u].auth_user => row'[u].auth_user
  <2>1. m.tk \in TicketRec
    BY DEF Request, ApiMsg
  <2>2. now.action = m.tk.action /\ (now.auth_user = m.tk.auth_user \/ now.auth_user)
    BY <1>2, <2>1, OwnFacts DEF IntakeFor, Moves
  <2> QED
    BY <1>2, <2>2, WrittenExists, WrittenKeeps DEF IntakeFor
<1>3. ASSUME NEW now \in TicketRec, NEW new \in TicketRec, OmsSentFor(u, now, new)
      PROVE  /\ row'[u] \in TicketRec /\ Exists(row'[u]) /\ row'[u].action = row[u].action
             /\ row[u].auth_user => row'[u].auth_user
  <2>1. Exists(now)
    BY <1>3 DEF OmsSentFor, HalfMoves, Exists
  <2> QED
    BY <1>3, <2>1, WrittenExists, WrittenKeeps DEF OmsSentFor, HalfMoves
<1>4. ASSUME NEW m \in Request, NEW now \in TicketRec, NEW new \in TicketRec, OmsTakenFor(u, m, now, new)
      PROVE  /\ row'[u] \in TicketRec /\ Exists(row'[u]) /\ row'[u].action = row[u].action
             /\ row[u].auth_user => row'[u].auth_user
  <2>1. m \in Orders(u)
    BY <1>4 DEF OmsTakenFor, LessOrders
  <2>2. m.tk \in TicketRec /\ Exists(m.tk)
    BY <2>1, OrderFacts DEF Request, OrderOps, Exists
  <2> DEFINE own == Own(m.tk)
  <2>3. own.action = m.tk.action /\ own.auth_user = m.tk.auth_user /\ Exists(own)
    BY <2>2, OwnFacts DEF Exists
  <2>4. now = own \/ HalfMoves(own, now)
    BY <1>4 DEF OmsTakenFor
  <2> HIDE DEF own
  <2>5. now.action = m.tk.action /\ now.auth_user = m.tk.auth_user /\ Exists(now)
    BY <2>3, <2>4 DEF HalfMoves, Exists
  <2> QED
    BY <1>4, <2>5, WrittenExists, WrittenKeeps DEF OmsTakenFor
<1>5. CASE OmsFor(u)
  <2>1. StillRead(u) /\ Orders(u)' \subseteq Orders(u) /\ overwrites'[u] = overwrites[u] /\ restarts' = restarts
        /\ ended'[u] = ended[u]
    BY <1>5 DEF OmsFor, TurnFor, IntakeFor, NoticeFor, OmsSide, SameOrders, LessOrders
  <2>2. CASE NoticeFor(u)
    BY <1>0, <2>1, <2>2 DEF NoticeFor
  <2> QED
    BY <1>1, <1>2, <1>5, <2>1, <2>2 DEF OmsFor
<1>6. CASE EmsFor(u)
  <2>1. EmsSide(u)
    BY <1>6 DEF EmsFor, TakeFor, WorkFor, EndFor
  <2> QED
    BY <2>1 DEF EmsSide, EmsSaved, SameOrders, Exists, Given
<1>7. CASE OmsDiedFor(u)
  <2>1. StillRead(u) /\ Orders(u)' \subseteq Orders(u) /\ overwrites'[u] = overwrites[u] /\ restarts' = restarts + 1
        /\ ended'[u] = ended[u]
    BY <1>7 DEF OmsDiedFor, OmsDied, OmsLostFor, OmsSentFor, OmsTakenFor, SameOrders, LessOrders
  <2>2. CASE OmsLostFor(u)
    BY <1>0, <2>1, <2>2 DEF OmsLostFor
  <2> QED
    BY <1>3, <1>4, <1>7, <2>1, <2>2 DEF OmsDiedFor
<1>8. CASE EmsDiedFor(u)
  BY <1>8 DEF EmsDiedFor, EmsSaved, SameOrders, Exists, Given
<1> QED
  BY <1>5, <1>6, <1>7, <1>8 DEF Backend

-----------------------------------------------------------------------------
(***************************************************************************)
(* A ticket that was executed without a quote stays one: nobody holds a    *)
(* quoted copy of it, and no EXECUTE_RFQ will come.                        *)
(***************************************************************************)
Direct(u) ==
  /\ Exists(row[u]) /\ row[u].action = "execute"
  /\ \A m \in Orders(u) : m.op # "EXECUTE_RFQ"
  /\ \A c \in Client : Reads(c, u) => req[c].op = "REFRESH" /\ req[c].tk.action = "execute"

\* Whatever happens to it.
LEMMA DirectStep ==
  ASSUME Shaped, NEW u \in Ticket, Direct(u), TicketStep(u)
  PROVE  Direct(u)'
<1>1. CASE Alone(u)
  BY <1>1 DEF Alone, SameOrders, StillRead, Direct, Reads
<1>2. ASSUME NEW tk \in TicketRec, NewFor(u, tk)
      PROVE  FALSE
  BY <1>2 DEF NewFor, Direct
<1>3. CASE ReadFor(u)
  BY <1>3 DEF ReadFor, SameOrders, Direct, Reads
<1>4. ASSUME NEW c \in Client, NEW tk \in TicketRec, WriteFor(u, c, tk)
      PROVE  Direct(u)'
  BY <1>4 DEF WriteFor, SameOrders, StillRead, Direct, Exists, Reads
<1>5. CASE Backend(u)
  BY <1>5, BackendFacts DEF StillRead, Direct, Reads
<1> QED
  BY <1>1, <1>2, <1>3, <1>4, <1>5 DEF TicketStep, ApiFor, Backend

\* The request an OMS takes in.
LEMMA RequestFacts ==
  ASSUME Shaped, NEW u \in Ticket, NEW m \in Orders(u)
  PROVE  /\ m \in Request /\ m.t = u /\ m.op \in OrderOps /\ m.tk \in TicketRec
         /\ Exists(m.tk) /\ m.tk.action = "execute" /\ m.tk.phase = "PRETRADE"
         /\ m.op = "CREATE" => /\ m.tk.internal_state \in {"NEW", "DRAFT"} /\ ~m.tk.paused
                               /\ ~m.tk.oms_owner /\ ~m.tk.ems_owner
         /\ m.op # "CREATE" => m.op = "EXECUTE_RFQ" /\ m.tk.internal_state = "ACCEPTED" /\ m.tk.auth_user
  BY OrderFacts DEF Request, OrderOps, Exists

\* What an OMS that died had made of the request.
LEMMA TakenFacts ==
  ASSUME Shaped, NEW u \in Ticket, NEW m \in Request, NEW now \in TicketRec, NEW new \in TicketRec,
         OmsTakenFor(u, m, now, new)
  PROVE  /\ m \in Orders(u)
         /\ now.phase = m.tk.phase /\ now.action = m.tk.action /\ now.auth_user = m.tk.auth_user
         /\ now.paused = m.tk.paused /\ now.ems_owner = m.tk.ems_owner /\ now.oms_owner
         /\ now.internal_state \in {m.tk.internal_state, "ACCEPTED"}
         /\ Written(m.tk, now, row[u], new) /\ row'[u] = new /\ new.oms_owner
         /\ admitted'[u] = admitted[u] + 1
<1>1. m \in Orders(u)
  BY DEF OmsTakenFor, LessOrders
<1>2. m.tk \in TicketRec
  BY <1>1, RequestFacts
<1> DEFINE own == Own(m.tk)
<1>3. /\ own.phase = m.tk.phase /\ own.action = m.tk.action /\ own.auth_user = m.tk.auth_user
      /\ own.paused = m.tk.paused /\ own.ems_owner = m.tk.ems_owner /\ own.oms_owner
      /\ own.internal_state = m.tk.internal_state /\ own \in TicketRec
  BY <1>2, OwnFacts
<1>4. now = own \/ HalfMoves(own, now)
  BY DEF OmsTakenFor
<1> HIDE DEF own
<1>5. /\ now.phase = m.tk.phase /\ now.action = m.tk.action /\ now.auth_user = m.tk.auth_user
      /\ now.ems_owner = m.tk.ems_owner /\ now.oms_owner
      /\ now.internal_state \in {m.tk.internal_state, "ACCEPTED"}
  BY <1>3, <1>4 DEF HalfMoves
<1>6. now.paused = m.tk.paused
  <2>1. now.paused \in BOOLEAN /\ own.paused \in BOOLEAN
    BY <1>3 DEF TicketRec
  <2> QED
    BY <1>3, <1>4, <2>1 DEF HalfMoves
<1> QED
  BY <1>1, <1>5, <1>6 DEF OmsTakenFor

\* The states, early or not.
LEMMA EarlyFacts ==
  /\ Chain \subseteq Early /\ "NEW" \in Early /\ "DRAFT" \in Early
  /\ "ACCEPTED" \notin Early /\ "FAILED" \notin Early /\ "RFQ_DONE" \notin Early /\ "CANCELED" \notin Early
  /\ "NONE" \notin Early /\ "ERROR" \notin Early
  /\ \A s \in Given : s \notin Early /\ s # "ACCEPTED" /\ s # "NEW"
  /\ \A s \in Settled \cup SettlementStates : s \notin Early /\ s # "ACCEPTED"
  /\ "ACCEPTED" \notin Chain
  BY DEF Early, Chain, Given, Settled, SettlementStates

-----------------------------------------------------------------------------
(***************************************************************************)
(* Whoever dies and whatever is overwritten, an early state is that of a   *)
(* ticket executed without a quote: a quoted copy put back is quoted again *)
(* or failed.  The OMS's copy is not past what an early row says.          *)
(***************************************************************************)
EarlyDirect(u) ==
  /\ oms[u].internal_state \in Early => Direct(u)
  /\ \A m \in Orders(u) : m.op = "CREATE" => Direct(u) /\ admitted[u] = 0 /\ OneOrder(u)
  /\ row[u].internal_state \in Early /\ row[u].action = "execute" => Direct(u)
  /\ Held(u) /\ row[u].internal_state \in Early => oms[u].internal_state \in Early /\ row[u].action = "execute"

RfqRow(u) ==
  row[u].action = "rfq" =>
    /\ row[u].internal_state \in Early => row[u].internal_state = "NEW"
    /\ row[u].internal_state # "ACCEPTED"
    /\ row[u].internal_state = "NEW" => admitted[u] = 0 /\ Orders(u) = {}

Start(u) == EarlyDirect(u) /\ RfqRow(u)

\* A request for a ticket with an early row is a CREATE.
LEMMA EarlyRequest ==
  ASSUME Shaped, NEW u \in Ticket, Start(u), NEW m \in Orders(u)
  PROVE  /\ m.op = "CREATE" => Direct(u)
         /\ row[u].internal_state \in Early => Direct(u) /\ m.op = "CREATE"
<1>1. row[u].action \in {"rfq", "execute"}
  BY TicketTyped DEF Shaped, TicketRec, Actions
<1>2. m.op \in OrderOps
  BY OrderFacts
<1>3. row[u].internal_state \in Early => Direct(u)
  BY <1>1 DEF Start, EarlyDirect, RfqRow
<1> QED
  BY <1>2, <1>3 DEF Start, EarlyDirect, Direct, OrderOps

\* What a turn or an intake makes of it.  The copy it starts from is early only in a direct ticket.
LEMMA StartWritten ==
  ASSUME Shaped, NEW u \in Ticket, Start(u), Direct(u) => Direct(u)',
         NEW was \in TicketRec, NEW now \in TicketRec, NEW new \in TicketRec,
         Written(was, now, row[u], new), row'[u] = new, new.action = row[u].action,
         was.internal_state \in Early => Direct(u),
         now.internal_state \in Early => was.internal_state \in Early,
         now.internal_state = "ACCEPTED" /\ was.internal_state # "ACCEPTED" => was.internal_state \in Early,
         row[u].internal_state \in Early => was.internal_state \in Early,
         row[u].action = "rfq" => row[u].internal_state # "NEW",
         Orders(u)' \subseteq Orders(u), \A m \in Orders(u)' : m.op = "CREATE" => admitted'[u] = 0 /\ OneOrder(u)'
  PROVE  /\ RfqRow(u)'
         /\ \A m \in Orders(u)' : m.op = "CREATE" => Direct(u)' /\ admitted'[u] = 0 /\ OneOrder(u)'
         /\ row'[u].internal_state \in Early /\ row'[u].action = "execute" => Direct(u)'
         /\ row'[u].internal_state \in Early => now.internal_state \in Early /\ Direct(u)'
<1>1. new.internal_state = IF now.internal_state # was.internal_state THEN now.internal_state
                                                                      ELSE row[u].internal_state
  BY DEF Written, Dirty
<1>2. row'[u].internal_state \in Early => now.internal_state \in Early /\ was.internal_state \in Early
  BY <1>1
<1>3. row[u].action = "rfq" => ~Direct(u)
  BY DEF Direct
<1>4. RfqRow(u)'
  BY <1>1, <1>2, <1>3, EarlyFacts DEF RfqRow, Start
<1> QED
  BY <1>2, <1>4 DEF Start, EarlyDirect

\* A copy re-read from the row is early in a direct ticket only.
LEMMA StartReread ==
  ASSUME NEW u, RfqRow(u)', Unadmitted(u)', row'[u].action \in {"rfq", "execute"},
         row'[u].internal_state \in Early /\ row'[u].action = "execute" => Direct(u)',
         oms'[u] = (IF row'[u].oms_owner THEN row'[u] ELSE NoTicket),
         \A m \in Orders(u)' : m.op = "CREATE" => Direct(u)' /\ admitted'[u] = 0 /\ OneOrder(u)'
  PROVE  EarlyDirect(u)'
<1>1. NoTicket.internal_state \notin Early /\ ~Exists(NoTicket)
  BY NoTicketType, EarlyFacts DEF Exists
<1>2. row'[u].oms_owner /\ row'[u].internal_state \in Early => row'[u].action = "execute"
  BY DEF RfqRow, Unadmitted
<1> QED
  BY <1>1, <1>2 DEF EarlyDirect, Held

\* The steps keep it.
LEMMA StartStep ==
  ASSUME Shaped, Shaped', NEW u \in Ticket, Origin(u), Origin(u)', Start(u), TicketStep(u)
  PROVE  Start(u)'
<1>0. /\ row[u] \in TicketRec /\ oms[u] \in TicketRec /\ row'[u] \in TicketRec
      /\ row[u].action \in {"rfq", "execute"} /\ row'[u].action \in {"rfq", "execute"}
      /\ admitted[u] \in Nat
  BY DEF Shaped, Typed, TypeOK, TicketRec, Actions
<1>d. Direct(u) => Direct(u)'
  BY DirectStep
<1>n. NoTicket.internal_state \notin Early /\ ~Exists(NoTicket)
  BY NoTicketType, EarlyFacts DEF Exists
<1>1. CASE Alone(u)
  BY <1>1, <1>d DEF Alone, SameOrders, Start, EarlyDirect, RfqRow, Held
<1>2. ASSUME NEW tk \in TicketRec, NewFor(u, tk)
      PROVE  Start(u)'
  <2>1. Orders(u) = {} /\ OneOrder(u) /\ admitted'[u] = 0 /\ admitted[u] = 0 /\ \A c \in Client : ~Reads(c, u)'
    BY <1>2, NoOrders DEF NewFor, ApiSide, StillRead, Origin, Unborn
  <2>2. ~Held(u)' /\ oms'[u].internal_state \notin Early
    BY <1>2, <2>1, EarlyFacts DEF NewFor, ApiSide, Origin, Unadmitted, Held, Exists
  <2>3. CASE tk.action = "execute"
    <3>1. MoreOrders(u, [t |-> u, op |-> "CREATE", tk |-> tk]) /\ row'[u] = tk /\ Exists(tk)
      BY <1>2, <2>3 DEF NewFor
    <3>2. Direct(u)' /\ OneOrder(u)'
      BY <2>1, <2>3, <3>1 DEF MoreOrders, Direct
    <3> QED
      BY <2>1, <2>2, <2>3, <3>1, <3>2 DEF Start, EarlyDirect, RfqRow
  <2>4. CASE tk.action = "rfq"
    <3>1. Orders(u)' = {} /\ row'[u] = tk /\ tk.internal_state \in {"NEW", "FAILED", "RFQ_DONE"}
      BY <1>2, <2>1, <2>4 DEF NewFor, SameOrders
    <3> QED
      BY <2>1, <2>2, <2>4, <3>1, EarlyFacts DEF Start, EarlyDirect, RfqRow
  <2> QED
    BY <1>2, <2>3, <2>4 DEF NewFor
<1>3. CASE ReadFor(u)
  BY <1>3, <1>d DEF ReadFor, ApiSide, SameOrders, Start, EarlyDirect, RfqRow, Held
<1>4. ASSUME NEW c \in Client, NEW tk \in TicketRec, WriteFor(u, c, tk)
      PROVE  Start(u)'
  <2>1. row'[u] = tk /\ tk.internal_state \in {"ACCEPTED", "FAILED", "RFQ_DONE"}
        /\ (tk.action = "rfq" => tk.internal_state # "ACCEPTED")
    BY <1>4 DEF WriteFor
  <2>2. RfqRow(u)' /\ row'[u].internal_state \notin Early
    BY <2>1, EarlyFacts DEF RfqRow
  <2>3. oms'[u] = oms[u] /\ admitted'[u] = admitted[u]
    BY <1>4 DEF WriteFor, ApiSide
  <2>4. \A m \in Orders(u)' : m.op = "CREATE" => m \in Orders(u)
    BY <1>4 DEF WriteFor, SameOrders, MoreOrders
  <2>5. Direct(u) => SameOrders(u)
    BY <1>4 DEF WriteFor, Direct
  <2> QED
    BY <1>d, <2>2, <2>3, <2>4, <2>5 DEF Start, EarlyDirect, SameOrders
<1>5. ASSUME NEW now \in TicketRec, NEW new \in TicketRec, NEW keep \in BOOLEAN, NEW send \in BOOLEAN,
             TurnFor(u, now, new, keep, send)
      PROVE  Start(u)'
  <2>1. Held(u) /\ Moves(oms[u], now, keep, send) /\ Exists(now) /\ Written(oms[u], now, row[u], new)
        /\ row'[u] = new /\ SameOrders(u) /\ admitted'[u] = admitted[u]
        /\ oms'[u] = (IF keep THEN now ELSE NoTicket)
    BY <1>5 DEF TurnFor
  <2>2. /\ new.action = row[u].action
        /\ now.internal_state \in Early => oms[u].internal_state \in Early
        /\ now.internal_state = "ACCEPTED" /\ oms[u].internal_state # "ACCEPTED" => oms[u].internal_state \in Early
    BY <2>1, WrittenKeeps DEF Moves
  <2>3. row[u].action = "rfq" => row[u].internal_state # "NEW"
    BY <2>1 DEF Start, RfqRow, Origin, Unadmitted
  <2>4. /\ RfqRow(u)'
        /\ \A m \in Orders(u)' : m.op = "CREATE" => Direct(u)' /\ admitted'[u] = 0 /\ OneOrder(u)'
        /\ row'[u].internal_state \in Early /\ row'[u].action = "execute" => Direct(u)'
        /\ row'[u].internal_state \in Early => now.internal_state \in Early /\ Direct(u)'
    <3>1. oms[u].internal_state \in Early => Direct(u)
      BY DEF Start, EarlyDirect
    <3>2. row[u].internal_state \in Early => oms[u].internal_state \in Early
      BY <2>1 DEF Start, EarlyDirect
    <3>3. Orders(u)' \subseteq Orders(u) /\ \A m \in Orders(u)' : m.op = "CREATE" => admitted'[u] = 0 /\ OneOrder(u)'
      BY <2>1 DEF SameOrders, Start, EarlyDirect
    <3> HIDE DEF Early
    <3> QED
      BY <1>0, <1>d, <2>1, <2>2, <2>3, <3>1, <3>2, <3>3, StartWritten
  <2> QED
    BY <1>d, <1>n, <2>1, <2>2, <2>4 DEF Start, EarlyDirect, Held, Direct
<1>6. ASSUME NEW m \in Request, NEW now \in TicketRec, NEW new \in TicketRec, NEW keep \in BOOLEAN,
             NEW send \in BOOLEAN, IntakeFor(u, m, now, new, keep, send)
      PROVE  Start(u)'
  <2>1. /\ LessOrders(u, m) /\ Written(m.tk, now, row[u], new) /\ row'[u] = new
        /\ admitted'[u] = admitted[u] + 1 /\ oms'[u] = (IF keep THEN now ELSE NoTicket)
        /\ m \in Orders(u)
    BY <1>6 DEF IntakeFor, LessOrders
  <2>2. m.tk \in TicketRec
    BY <2>1, RequestFacts
  <2>3. /\ new.action = row[u].action
        /\ now.internal_state \in Early => m.tk.internal_state \in Early
        /\ now.internal_state = "ACCEPTED" /\ m.tk.internal_state # "ACCEPTED" => m.tk.internal_state \in Early
    <3> DEFINE own == Own(m.tk)
    <3>1. own.action = m.tk.action /\ own.auth_user = m.tk.auth_user /\ own.internal_state = m.tk.internal_state
      BY <2>2, OwnFacts
    <3>2. Moves(own, now, keep, send)
      BY <1>6 DEF IntakeFor
    <3> HIDE DEF own
    <3>3. /\ now.action = m.tk.action /\ (now.auth_user = m.tk.auth_user \/ now.auth_user)
          /\ now.internal_state \in Early => m.tk.internal_state \in Early
          /\ now.internal_state = "ACCEPTED" /\ m.tk.internal_state # "ACCEPTED" => m.tk.internal_state \in Early
      BY <3>1, <3>2 DEF Moves
    <3> QED
      BY <2>1, <3>3, WrittenKeeps
  <2>4. /\ m.tk.internal_state \in Early => Direct(u)
        /\ row[u].internal_state \in Early => m.tk.internal_state \in Early
        /\ row[u].action = "rfq" => row[u].internal_state # "NEW"
    BY <2>1, RequestFacts, EarlyRequest, EarlyFacts DEF Start, RfqRow
  <2>5. Orders(u)' \subseteq Orders(u) /\ \A n \in Orders(u)' : n.op = "CREATE" => admitted'[u] = 0 /\ OneOrder(u)'
    BY <2>1 DEF LessOrders, Start, EarlyDirect
  <2>6. /\ RfqRow(u)'
        /\ \A n \in Orders(u)' : n.op = "CREATE" => Direct(u)' /\ admitted'[u] = 0 /\ OneOrder(u)'
        /\ row'[u].internal_state \in Early /\ row'[u].action = "execute" => Direct(u)'
        /\ row'[u].internal_state \in Early => now.internal_state \in Early /\ Direct(u)'
    BY <1>d, <2>1, <2>2, <2>3, <2>4, <2>5, StartWritten
  <2>7. oms'[u].internal_state \in Early => Direct(u)'
    BY <1>d, <1>n, <2>1, <2>3, <2>4
  <2> QED
    BY <1>d, <1>n, <2>1, <2>6, <2>7 DEF Start, EarlyDirect, Held, Direct
<1>7. CASE NoticeFor(u)
  BY <1>0, <1>7, <1>d DEF NoticeFor, SameOrders, Start, EarlyDirect, RfqRow, Held
<1>8. CASE EmsFor(u)
  <2>1. EmsSide(u)
    BY <1>8 DEF EmsFor, TakeFor, WorkFor, EndFor
  <2>2. /\ row'[u].action = row[u].action /\ oms'[u] = oms[u] /\ admitted'[u] = admitted[u] /\ SameOrders(u)
        /\ row'[u].internal_state = row[u].internal_state \/ row'[u].internal_state \in Given
    BY <2>1 DEF EmsSide, EmsSaved
  <2> QED
    BY <2>2, <1>d, EarlyFacts DEF SameOrders, Start, EarlyDirect, RfqRow, Held
<1>9. CASE OmsDied(u) /\ OmsLostFor(u)
  <2>1. row'[u] = row[u] /\ admitted'[u] = admitted[u] /\ Orders(u)' \subseteq Orders(u) /\ (OneOrder(u) => OneOrder(u)')
    BY <1>9 DEF OmsLostFor, SameOrders, LessOrders
  <2>2. RfqRow(u)'
    BY <2>1 DEF Start, RfqRow
  <2> QED
    BY <1>0, <1>9, <1>d, <2>1, <2>2, StartReread DEF OmsDied, Start, EarlyDirect, Origin
<1>10. ASSUME NEW now \in TicketRec, NEW new \in TicketRec, OmsDied(u), OmsSentFor(u, now, new)
       PROVE  Start(u)'
  <2>1. /\ Held(u) /\ HalfMoves(oms[u], now) /\ Written(oms[u], now, row[u], new)
        /\ row'[u] = new /\ SameOrders(u) /\ admitted'[u] = admitted[u]
    BY <1>10 DEF OmsSentFor
  <2>2. /\ new.action = row[u].action
        /\ now.internal_state = "ACCEPTED" /\ (oms[u].internal_state # "ACCEPTED" => oms[u].internal_state \in Early)
    BY <2>1, WrittenKeeps, EarlyFacts DEF HalfMoves
  <2>3. row[u].action = "rfq" => row[u].internal_state # "NEW"
    BY <2>1 DEF Start, RfqRow, Origin, Unadmitted
  <2>4. /\ RfqRow(u)'
        /\ \A m \in Orders(u)' : m.op = "CREATE" => Direct(u)' /\ admitted'[u] = 0 /\ OneOrder(u)'
        /\ row'[u].internal_state \in Early /\ row'[u].action = "execute" => Direct(u)'
    <3>1. oms[u].internal_state \in Early => Direct(u)
      BY DEF Start, EarlyDirect
    <3>2. row[u].internal_state \in Early => oms[u].internal_state \in Early
      BY <2>1 DEF Start, EarlyDirect
    <3>3. Orders(u)' \subseteq Orders(u) /\ \A m \in Orders(u)' : m.op = "CREATE" => admitted'[u] = 0 /\ OneOrder(u)'
      BY <2>1 DEF SameOrders, Start, EarlyDirect
    <3>4. now.internal_state \in Early => oms[u].internal_state \in Early
      BY <2>2, EarlyFacts
    <3> QED
      BY <1>0, <1>d, <2>1, <2>2, <2>3, <3>1, <3>2, <3>3, <3>4, StartWritten
  <2> QED
    BY <1>0, <1>10, <2>4, StartReread DEF OmsDied, Start, Origin
<1>11. ASSUME NEW m \in Request, NEW now \in TicketRec, NEW new \in TicketRec, OmsDied(u),
              OmsTakenFor(u, m, now, new)
       PROVE  Start(u)'
  <2>1. /\ LessOrders(u, m) /\ Written(m.tk, now, row[u], new) /\ row'[u] = new
        /\ admitted'[u] = admitted[u] + 1 /\ m \in Orders(u)
        /\ now.internal_state \in {m.tk.internal_state, "ACCEPTED"}
        /\ now.action = m.tk.action /\ now.auth_user = m.tk.auth_user
    BY <1>11, TakenFacts DEF OmsTakenFor
  <2>2. m.tk \in TicketRec
    BY <2>1, RequestFacts
  <2>3. /\ new.action = row[u].action
        /\ now.internal_state \in Early => m.tk.internal_state \in Early
        /\ now.internal_state = "ACCEPTED" /\ m.tk.internal_state # "ACCEPTED" => m.tk.internal_state \in Early
    BY <2>1, RequestFacts, WrittenKeeps, EarlyFacts
  <2>4. /\ m.tk.internal_state \in Early => Direct(u)
        /\ row[u].internal_state \in Early => m.tk.internal_state \in Early
        /\ row[u].action = "rfq" => row[u].internal_state # "NEW"
    BY <2>1, RequestFacts, EarlyRequest, EarlyFacts DEF Start, RfqRow
  <2>5. Orders(u)' \subseteq Orders(u) /\ \A n \in Orders(u)' : n.op = "CREATE" => admitted'[u] = 0 /\ OneOrder(u)'
    BY <2>1 DEF LessOrders, Start, EarlyDirect
  <2>6. /\ RfqRow(u)'
        /\ \A n \in Orders(u)' : n.op = "CREATE" => Direct(u)' /\ admitted'[u] = 0 /\ OneOrder(u)'
        /\ row'[u].internal_state \in Early /\ row'[u].action = "execute" => Direct(u)'
    BY <1>d, <2>1, <2>2, <2>3, <2>4, <2>5, StartWritten
  <2> QED
    BY <1>0, <1>11, <2>6, StartReread DEF OmsDied, Start, Origin
<1>12. CASE EmsDiedFor(u)
  <2>1. /\ row'[u].action = row[u].action /\ oms'[u] = oms[u] /\ admitted'[u] = admitted[u] /\ SameOrders(u)
        /\ row'[u].internal_state = row[u].internal_state \/ row'[u].internal_state \in Given
    BY <1>12 DEF EmsDiedFor, EmsSaved
  <2> QED
    BY <2>1, <1>d, EarlyFacts DEF SameOrders, Start, EarlyDirect, RfqRow, Held
<1> QED
  BY <1>1, <1>2, <1>3, <1>4, <1>5, <1>6, <1>7, <1>8, <1>9, <1>10, <1>11, <1>12
     DEF TicketStep, ApiFor, OmsFor, OmsDiedFor

-----------------------------------------------------------------------------
(***************************************************************************)
(* How often a ticket is sent.  Each intake, death and overwriting may     *)
(* bring one more sending; what the OMS has yet to send, and a quoted      *)
(* ticket it has or will read of (put back by an old copy, it can be       *)
(* executed again without being counted as overwritten), are paid already. *)
(***************************************************************************)
One(b) == IF b THEN 1 ELSE 0

MaySend(u) == Held(u) /\ (CanSend(oms[u]) \/ CanSend(row[u]))
Requotable(u) == row[u].action = "rfq" /\ (Held(u) \/ Orders(u) # {})

SendInv(u) == sent[u] + One(MaySend(u)) + One(Requotable(u)) <= admitted[u] + restarts + overwrites[u]

\* An intake is a turn on the snapshot once it is owned.
LEMMA IntakeFacts ==
  ASSUME Shaped, NEW u \in Ticket, NEW m \in Request, NEW now \in TicketRec, NEW new \in TicketRec,
         NEW keep \in BOOLEAN, NEW send \in BOOLEAN, IntakeFor(u, m, now, new, keep, send)
  PROVE  /\ m \in Orders(u)
         /\ \E own \in TicketRec :
              /\ SameBut(m.tk, own) /\ own.internal_state = m.tk.internal_state /\ own.oms_owner
              /\ Moves(own, now, keep, send)
<1>1. m \in Orders(u)
  BY DEF IntakeFor, LessOrders
<1>2. m.tk \in TicketRec
  BY <1>1, RequestFacts
<1> DEFINE own == Own(m.tk)
<1>3. own \in TicketRec /\ SameBut(m.tk, own) /\ own.internal_state = m.tk.internal_state /\ own.oms_owner
  BY <1>2, OwnFacts DEF SameBut
<1>4. Moves(own, now, keep, send)
  BY DEF IntakeFor
<1> HIDE DEF own
<1> QED
  BY <1>1, <1>3, <1>4

\* A turn does not make a ticket sendable, and one that was sent is not any more.
LEMMA SendWritten ==
  ASSUME NEW was \in TicketRec, NEW now \in TicketRec, NEW r \in TicketRec, NEW new, NEW keep, NEW send,
         NEW snap, SameBut(snap, was), snap.internal_state = was.internal_state,
         Moves(was, now, keep, send), Written(snap, now, r, new)
  PROVE  /\ CanSend(now) => CanSend(was)
         /\ CanSend(new) => CanSend(was) \/ CanSend(r)
         /\ send => CanSend(was) /\ ~CanSend(now)
         /\ send /\ (r.internal_state \in Early => was.internal_state \in Early) => ~CanSend(new)
<1>1. now.internal_state \in Early => was.internal_state \in Early
  BY DEF Moves
<1>2. now.internal_state = "ACCEPTED" => now.phase \in {was.phase, "WORKING"}
  BY DEF Moves, Settled
<1>3. CanSend(now) => CanSend(was)
  BY <1>1, <1>2 DEF Moves, CanSend
<1>4. /\ new.internal_state = IF now.internal_state # was.internal_state THEN now.internal_state ELSE r.internal_state
      /\ new.phase = IF now.phase # was.phase THEN now.phase ELSE r.phase
  BY DEF Written, Dirty, SameBut
<1>5. CanSend(new) => CanSend(was) \/ CanSend(r)
  <2>1. CASE now.internal_state # was.internal_state
    <3>1. new.internal_state = now.internal_state
      BY <1>4, <2>1
    <3>2. now.internal_state = "ACCEPTED" => was.internal_state \in Early
      BY <2>1 DEF Moves
    <3> QED
      BY <1>1, <3>1, <3>2 DEF CanSend
  <2>2. CASE now.internal_state = was.internal_state
    <3>1. new.internal_state = r.internal_state
      BY <1>4, <2>2
    <3>2. now.phase # was.phase => now.phase = "WORKING"
      BY <2>2, EarlyFacts DEF Moves, Settled, SettlementStates
    <3> QED
      BY <1>4, <3>1, <3>2 DEF CanSend
  <2> QED
    BY <2>1, <2>2
<1>6. send => CanSend(was) /\ ~CanSend(now)
  BY EarlyFacts DEF Moves, CanSend
<1>7. ASSUME send, r.internal_state \in Early => was.internal_state \in Early
      PROVE  ~CanSend(new)
  <2>1. now.phase = "WORKING" /\ was.phase # "WORKING" /\ now.internal_state = "ACCEPTED"
    BY <1>7 DEF Moves
  <2>2. new.phase = "WORKING"
    BY <1>4, <2>1
  <2>3. new.internal_state \notin Early
    BY <1>4, <1>7, <2>1, EarlyFacts
  <2> QED
    BY <2>2, <2>3 DEF CanSend
<1> QED
  BY <1>3, <1>5, <1>6, <1>7

\* What the EMS writes does not make a ticket sendable.
LEMMA EmsSavedSend ==
  ASSUME NEW r, NEW new, EmsSaved(r, new)
  PROVE  (CanSend(new) => CanSend(r)) /\ new.action = r.action
  BY EarlyFacts DEF EmsSaved, CanSend

\* The steps keep the account.
LEMMA SendStep ==
  ASSUME Shaped, Shaped', NEW u \in Ticket, Origin(u), Origin(u)', Start(u), Start(u)', SendInv(u), TicketStep(u)
  PROVE  SendInv(u)'
<1>a. PICK A : A = One(MaySend(u))
  OBVIOUS
<1>b. PICK B : B = One(Requotable(u))
  OBVIOUS
<1>c. PICK a : a = One(MaySend(u)')
  OBVIOUS
<1>f. PICK b : b = One(Requotable(u)')
  OBVIOUS
<1>0. /\ row[u] \in TicketRec /\ oms[u] \in TicketRec /\ row'[u] \in TicketRec /\ oms'[u] \in TicketRec
      /\ row[u].action \in {"rfq", "execute"} /\ row'[u].action \in {"rfq", "execute"}
      /\ admitted[u] \in Nat /\ sent[u] \in Nat /\ overwrites[u] \in Nat /\ restarts \in Nat
  BY DEF Shaped, Typed, TypeOK, TicketRec, Actions
<1>r. /\ A \in 0..1 /\ B \in 0..1 /\ a \in 0..1 /\ b \in 0..1
      /\ MaySend(u) => A = 1
      /\ Requotable(u) => B = 1
      /\ ~MaySend(u)' => a = 0
      /\ ~Requotable(u)' => b = 0
      /\ (MaySend(u)' => MaySend(u)) => a <= A
      /\ (Requotable(u)' => Requotable(u)) => b <= B
  BY <1>a, <1>b, <1>c, <1>f DEF One
<1>i. sent[u] + A + B <= admitted[u] + restarts + overwrites[u]
  BY <1>a, <1>b DEF SendInv
<1>q. sent'[u] + a + b <= admitted'[u] + restarts' + overwrites'[u] => SendInv(u)'
  BY <1>c, <1>f DEF SendInv, One
<1>n. ~Exists(NoTicket) /\ ~CanSend(NoTicket)
  BY EarlyFacts DEF NoTicket, Exists, CanSend
<1>e. Held(u) /\ row[u].internal_state \in Early => oms[u].internal_state \in Early
  BY DEF Start, EarlyDirect
<1>1. CASE Alone(u)
  <2>1. MaySend(u)' = MaySend(u) /\ Requotable(u)' = Requotable(u)
    BY <1>1 DEF Alone, MaySend, Requotable, SameOrders, Held
  <2> QED
    BY <1>0, <1>1, <1>r, <1>i, <1>q, <2>1 DEF Alone
<1>2. ASSUME NEW tk \in TicketRec, NewFor(u, tk)
      PROVE  SendInv(u)'
  <2>1. ~Held(u)' /\ (tk.action = "execute" \/ Orders(u)' = {}) /\ row'[u] = tk
    BY <1>2 DEF NewFor, ApiSide, SameOrders, Held, Origin, Unborn, Unadmitted
  <2>2. ~MaySend(u)' /\ ~Requotable(u)'
    BY <2>1 DEF MaySend, Requotable
  <2> QED
    BY <1>0, <1>2, <1>r, <1>i, <1>q, <2>2 DEF NewFor, ApiSide
<1>3. CASE ReadFor(u)
  <2>1. MaySend(u)' = MaySend(u) /\ Requotable(u)' = Requotable(u)
    BY <1>3 DEF ReadFor, ApiSide, MaySend, Requotable, SameOrders, Held
  <2> QED
    BY <1>0, <1>3, <1>r, <1>i, <1>q, <2>1 DEF ReadFor, ApiSide
<1>4. ASSUME NEW c \in Client, NEW tk \in TicketRec, WriteFor(u, c, tk)
      PROVE  SendInv(u)'
  <2>1. /\ row'[u] = tk /\ oms'[u] = oms[u] /\ sent'[u] = sent[u] /\ admitted'[u] = admitted[u]
        /\ overwrites'[u] = overwrites[u] + (IF row[u].action = "execute" THEN 1 ELSE 0)
        /\ restarts' \in {restarts, restarts + 1}
    BY <1>4 DEF WriteFor, ApiSide
  <2>2. \/ tk.action = "execute"
        \/ tk.internal_state \in {"RFQ_DONE", "FAILED"} /\ SameOrders(u)
    BY <1>4 DEF WriteFor
  <2>3. CASE tk.action = "execute"
    <3>1. ~Requotable(u)'
      BY <2>1, <2>3 DEF Requotable
    <3>2. CASE row[u].action = "execute"
      BY <1>0, <1>r, <1>i, <1>q, <2>1, <3>1, <3>2
    <3>3. CASE row[u].action = "rfq" /\ Held(u)
      <4>1. Requotable(u)
        BY <3>3 DEF Requotable
      <4> QED
        BY <1>0, <1>r, <1>i, <1>q, <2>1, <3>1, <3>3, <4>1
    <3>4. CASE row[u].action = "rfq" /\ ~Held(u)
      <4>1. ~MaySend(u)'
        BY <2>1, <3>4 DEF MaySend, Held
      <4> QED
        BY <1>0, <1>r, <1>i, <1>q, <2>1, <3>1, <3>4, <4>1
    <3> QED
      BY <1>0, <3>2, <3>3, <3>4
  <2>4. CASE tk.internal_state \in {"RFQ_DONE", "FAILED"} /\ SameOrders(u)
    <3>1. MaySend(u)' => MaySend(u)
      BY <2>1, <2>4, EarlyFacts DEF MaySend, CanSend, Held
    <3>2. row[u].action = "rfq" => (Requotable(u)' => Requotable(u))
      BY <2>1, <2>4 DEF Requotable, SameOrders, Held
    <3> QED
      BY <1>0, <1>r, <1>i, <1>q, <2>1, <3>1, <3>2
  <2> QED
    BY <2>2, <2>3, <2>4
<1>5. ASSUME NEW now \in TicketRec, NEW new \in TicketRec, NEW keep \in BOOLEAN, NEW send \in BOOLEAN,
             TurnFor(u, now, new, keep, send)
      PROVE  SendInv(u)'
  <2>1. Held(u) /\ Moves(oms[u], now, keep, send) /\ Exists(now) /\ Written(oms[u], now, row[u], new)
        /\ row'[u] = new /\ SameOrders(u) /\ admitted'[u] = admitted[u]
        /\ oms'[u] = (IF keep THEN now ELSE NoTicket)
        /\ overwrites'[u] = overwrites[u] /\ restarts' = restarts
        /\ sent'[u] = sent[u] + (IF send THEN 1 ELSE 0)
    BY <1>0, <1>5 DEF TurnFor, OmsSide, SendsFor
  <2>2. /\ CanSend(now) => CanSend(oms[u])
        /\ CanSend(new) => CanSend(oms[u]) \/ CanSend(row[u])
        /\ send => CanSend(oms[u]) /\ ~CanSend(now) /\ ~CanSend(new)
    <3>1. SameBut(oms[u], oms[u])
      BY DEF SameBut
    <3> QED
      BY <1>0, <1>e, <2>1, <3>1, SendWritten
  <2>3. new.action = row[u].action
    BY <2>1, WrittenKeeps DEF Moves
  <2>4. Requotable(u)' => Requotable(u)
    BY <2>1, <2>3 DEF Requotable, SameOrders
  <2>5. MaySend(u)' => MaySend(u)
    BY <1>n, <2>1, <2>2 DEF MaySend
  <2>6. send => MaySend(u) /\ ~MaySend(u)'
    BY <1>n, <2>1, <2>2 DEF MaySend
  <2> QED
    BY <1>0, <1>r, <1>i, <1>q, <2>1, <2>4, <2>5, <2>6
<1>6. ASSUME NEW m \in Request, NEW now \in TicketRec, NEW new \in TicketRec, NEW keep \in BOOLEAN,
             NEW send \in BOOLEAN, IntakeFor(u, m, now, new, keep, send)
      PROVE  SendInv(u)'
  <2>1. /\ Written(m.tk, now, row[u], new) /\ row'[u] = new
        /\ admitted'[u] = admitted[u] + 1 /\ oms'[u] = (IF keep THEN now ELSE NoTicket)
        /\ overwrites'[u] = overwrites[u] /\ restarts' = restarts
        /\ sent'[u] = sent[u] + (IF send THEN 1 ELSE 0)
    BY <1>0, <1>6 DEF IntakeFor, OmsSide, SendsFor
  <2>2. PICK own \in TicketRec :
          /\ SameBut(m.tk, own) /\ own.internal_state = m.tk.internal_state
          /\ Moves(own, now, keep, send)
    BY <1>6, IntakeFacts
  <2>3. m \in Orders(u)
    BY <1>6, IntakeFacts
  <2>4. row[u].internal_state \in Early => own.internal_state \in Early
    BY <2>2, <2>3, RequestFacts, EarlyRequest, EarlyFacts
  <2>5. send => ~CanSend(now) /\ ~CanSend(new)
    <3>1. PICK snap : snap = m.tk
      OBVIOUS
    <3>2. PICK r \in TicketRec : r = row[u]
      BY <1>0
    <3>3. SameBut(snap, own) /\ snap.internal_state = own.internal_state /\ Written(snap, now, r, new)
      BY <2>1, <2>2, <3>1, <3>2
    <3>4. r.internal_state \in Early => own.internal_state \in Early
      BY <2>4, <3>2
    <3>5. /\ send => CanSend(own) /\ ~CanSend(now)
          /\ send /\ (r.internal_state \in Early => own.internal_state \in Early) => ~CanSend(new)
      BY <2>2, <3>3, SendWritten
    <3> QED
      BY <3>4, <3>5
  <2>6. new.action = row[u].action
    BY <2>1, <2>2, WrittenKeeps DEF Moves, SameBut
  <2>7. Requotable(u)' => Requotable(u)
    BY <2>1, <2>3, <2>6 DEF Requotable
  <2>8. send => ~MaySend(u)'
    BY <1>n, <2>1, <2>5 DEF MaySend
  <2> QED
    BY <1>0, <1>r, <1>i, <1>q, <2>1, <2>7, <2>8
<1>7. CASE NoticeFor(u)
  <2>1. (MaySend(u)' => MaySend(u)) /\ (Requotable(u)' => Requotable(u))
    BY <1>7 DEF NoticeFor, MaySend, Requotable, SameOrders, Held
  <2> QED
    BY <1>0, <1>7, <1>r, <1>i, <1>q, <2>1 DEF NoticeFor
<1>8. CASE EmsFor(u)
  <2>1. EmsSide(u)
    BY <1>8 DEF EmsFor, TakeFor, WorkFor, EndFor
  <2>2. (MaySend(u)' => MaySend(u)) /\ (Requotable(u)' => Requotable(u))
    BY <2>1, EmsSavedSend DEF EmsSide, MaySend, Requotable, SameOrders, Held
  <2> QED
    BY <1>0, <1>r, <1>i, <1>q, <2>1, <2>2 DEF EmsSide
<1>9. ASSUME OmsDied(u)
      PROVE  a + b <= 1
  <2>1. oms'[u] = IF row'[u].oms_owner THEN row'[u] ELSE NoTicket
    BY <1>9 DEF OmsDied
  <2>2. ASSUME MaySend(u)', Requotable(u)'
        PROVE  FALSE
    <3>1. CanSend(row'[u]) /\ row'[u].action = "rfq" /\ Held(u)'
      BY <1>n, <2>1, <2>2 DEF MaySend, Requotable
    <3>2. row'[u].internal_state = "NEW"
      BY <3>1 DEF CanSend, Start, RfqRow
    <3> QED
      BY <3>1, <3>2 DEF Start, RfqRow, Origin, Unadmitted
  <2> QED
    BY <1>r, <2>2
<1>10. CASE OmsDied(u) /\ OmsLostFor(u)
  BY <1>0, <1>9, <1>10, <1>r, <1>i, <1>q DEF OmsDied, OmsLostFor
<1>11. ASSUME NEW now \in TicketRec, NEW new \in TicketRec, OmsDied(u), OmsSentFor(u, now, new)
       PROVE  SendInv(u)'
  <2>1. MaySend(u)
    BY <1>11, EarlyFacts DEF OmsSentFor, HalfMoves, MaySend, CanSend
  <2> QED
    BY <1>0, <1>9, <1>11, <1>r, <1>i, <1>q, <2>1 DEF OmsDied, OmsSentFor
<1>12. ASSUME NEW m \in Request, NEW now \in TicketRec, NEW new \in TicketRec, OmsDied(u),
              OmsTakenFor(u, m, now, new)
       PROVE  SendInv(u)'
  BY <1>0, <1>9, <1>12, <1>r, <1>i, <1>q DEF OmsDied, OmsTakenFor
<1>13. CASE EmsDiedFor(u)
  <2>1. (MaySend(u)' => MaySend(u)) /\ (Requotable(u)' => Requotable(u))
    BY <1>13, EmsSavedSend DEF EmsDiedFor, MaySend, Requotable, SameOrders, Held
  <2> QED
    BY <1>0, <1>13, <1>r, <1>i, <1>q, <2>1 DEF EmsDiedFor
<1> QED
  BY <1>1, <1>2, <1>3, <1>4, <1>5, <1>6, <1>7, <1>8, <1>10, <1>11, <1>12, <1>13
     DEF TicketStep, ApiFor, OmsFor, OmsDiedFor

-----------------------------------------------------------------------------
\* The inductive invariant of the account.
OrderInv == Shaped /\ DealInv /\ \A u \in Ticket : Origin(u) /\ Start(u) /\ SendInv(u)

\* It holds whatever dies and whatever is overwritten.
THEOREM OrderInvHolds == Spec => []OrderInv
<1>1. Init /\ Shaped /\ DealInv => OrderInv
  <2> SUFFICES ASSUME Init, Shaped, DealInv, NEW u \in Ticket PROVE Origin(u) /\ Start(u) /\ SendInv(u)
    BY DEF OrderInv
  <2>1. /\ row[u] = NoTicket /\ oms[u] = NoTicket /\ ems[u] = NoTicket /\ job[u] = "idle" /\ notes[u] = 0
        /\ admitted[u] = 0 /\ sent[u] = 0 /\ taken[u] = 0 /\ booked[u] = 0 /\ overwrites[u] = 0 /\ restarts = 0
    BY DEF Init
  <2>2. Orders(u) = {} /\ Calls(u) = {} /\ \A c \in Client : ~Reads(c, u)
    BY DEF Init, Orders, Calls, Msgs, Reads
  <2>3. ~Exists(NoTicket) /\ ~NoTicket.oms_owner /\ ~NoTicket.ems_owner /\ NoTicket.internal_state \notin Early
        /\ NoTicket.internal_state # "ACCEPTED"
    BY EarlyFacts DEF NoTicket, Exists
  <2>4. Origin(u)
    BY <2>1, <2>2, <2>3 DEF Origin, Unborn, Unadmitted, Unsent, Held, Working
  <2>5. Start(u)
    BY <2>1, <2>2, <2>3 DEF Start, EarlyDirect, RfqRow
  <2>6. SendInv(u)
    BY <2>1, <2>2, <2>3 DEF SendInv, One, MaySend, Requotable, Held
  <2> QED
    BY <2>4, <2>5, <2>6
<1>2. OrderInv /\ Shaped' /\ DealInv' /\ [Next]_vars => OrderInv'
  <2> SUFFICES ASSUME OrderInv, Shaped', DealInv', [Next]_vars, NEW u \in Ticket
               PROVE  Origin(u)' /\ Start(u)' /\ SendInv(u)'
    BY DEF OrderInv
  <2>1. Shaped /\ DealInv /\ Typed' /\ Origin(u) /\ Start(u) /\ SendInv(u)
    BY DEF OrderInv, Shaped
  <2>2. TicketStep(u)
    BY <2>1, EveryStep
  <2>3. Origin(u)'
    BY <2>1, <2>2, OriginStep
  <2>4. Start(u)'
    BY <2>1, <2>2, <2>3, StartStep
  <2> QED
    BY <2>1, <2>2, <2>3, <2>4, SendStep
<1> QED
  BY <1>1, <1>2, ShapedHolds, DealInvHolds, PTL DEF Spec

\* The OMS sends a ticket to the EMS once for every time it took it in, but for
\* deaths and old rows put back: Oems!SendAccounted, for any number of both.
THEOREM SendAccountedHolds == Spec => []SendAccounted
<1>1. OrderInv => SendAccounted
  <2> SUFFICES ASSUME OrderInv, NEW u \in Ticket PROVE sent[u] <= admitted[u] + restarts + overwrites[u]
    BY DEF SendAccounted
  <2>1. SendInv(u) /\ sent[u] \in Nat /\ admitted[u] \in Nat /\ restarts \in Nat /\ overwrites[u] \in Nat
    BY TicketTyped DEF OrderInv, Shaped
  <2>2. One(MaySend(u)) \in Nat /\ One(Requotable(u)) \in Nat
    BY DEF One
  <2> QED
    BY <2>1, <2>2 DEF SendInv
<1> QED
  BY <1>1, OrderInvHolds, PTL

-----------------------------------------------------------------------------
(***************************************************************************)
(* A ticket whose executed row was never overwritten, whoever dies.  It is *)
(* ordered once and taken in once; the request carries the row itself; the *)
(* OMS's copy and the row differ in the states at most, and in what the    *)
(* EMS wrote; and the owners in the row are those who have the ticket.     *)
(***************************************************************************)
Agree(a, b) ==
  /\ a.action = b.action /\ a.phase = b.phase /\ a.oms_owner = b.oms_owner
  /\ a.paused = b.paused /\ a.auth_user = b.auth_user

Orderly(u) ==
  /\ row[u].action = "rfq" =>
       admitted[u] = 0 /\ Orders(u) = {} /\ \A c \in Client : Reads(c, u) => req[c].tk.action = "rfq"
  /\ Orders(u) # {} => admitted[u] = 0 /\ OneOrder(u)
  /\ \A m \in Orders(u) : m.tk = row[u]
  /\ admitted[u] = 0 => ~row[u].paused /\ \A c \in Client : Reads(c, u) => ~req[c].tk.paused
  /\ admitted[u] <= 1
  /\ Held(u) => Agree(oms[u], row[u])
  /\ row[u].oms_owner <=> Held(u)
  /\ row[u].ems_owner => Working(u) /\ ems[u].ems_owner

\* A turn on an agreeing copy leaves agreeing copies.
LEMMA WrittenAgree ==
  ASSUME NEW was, NEW now, NEW r, NEW new, Written(was, now, r, new), Agree(was, r)
  PROVE  Agree(now, new)
  BY DEF Written, Dirty, Col, Agree

\* The steps keep it, but for an overwriting.
LEMMA OrderlyStep ==
  ASSUME Shaped, Shaped', NEW u \in Ticket, Origin(u), Origin(u)', TicketStep(u),
         overwrites'[u] = 0, overwrites[u] = 0 => Orderly(u)
  PROVE  overwrites[u] = 0 /\ Orderly(u)'
<1>0. /\ row[u] \in TicketRec /\ oms[u] \in TicketRec /\ row'[u] \in TicketRec /\ oms'[u] \in TicketRec
      /\ row[u].action \in {"rfq", "execute"} /\ row'[u].action \in {"rfq", "execute"}
      /\ row[u].oms_owner \in BOOLEAN /\ row'[u].oms_owner \in BOOLEAN
      /\ admitted[u] \in Nat /\ overwrites[u] \in Nat
  BY DEF Shaped, Typed, TypeOK, TicketRec, Actions
<1>n. NoTicket.oms_owner = FALSE /\ ~Exists(NoTicket) /\ (Held(u)' <=> Exists(oms'[u])) /\ (Working(u)' <=> Exists(ems'[u]))
  BY DEF NoTicket, Exists, Held, Working
<1>o. overwrites[u] = 0
  <2>1. overwrites'[u] \in {overwrites[u], overwrites[u] + 1}
    <3>1. ASSUME NEW c \in Client, NEW tk \in TicketRec, WriteFor(u, c, tk)
          PROVE  overwrites'[u] \in {overwrites[u], overwrites[u] + 1}
      BY <1>0, <3>1 DEF WriteFor
    <3>2. CASE Alone(u) \/ ReadFor(u) \/ \E tk \in TicketRec : NewFor(u, tk)
      BY <3>2 DEF Alone, ReadFor, NewFor
    <3>3. CASE OmsFor(u)
      BY <3>3 DEF OmsFor, TurnFor, IntakeFor, NoticeFor, OmsSide
    <3>4. CASE EmsFor(u) \/ OmsDiedFor(u) \/ EmsDiedFor(u)
      BY <3>4 DEF EmsFor, TakeFor, WorkFor, EndFor, EmsSide, OmsDiedFor, OmsDied, EmsDiedFor
    <3> QED
      BY <3>1, <3>2, <3>3, <3>4 DEF TicketStep, ApiFor
  <2> QED
    BY <1>0, <2>1
<1> SUFFICES Orderly(u)'
  BY <1>o
<1>p. Orderly(u)
  BY <1>o
<1>1. CASE Alone(u)
  BY <1>1, <1>p DEF Alone, EmsKept, SameOrders, StillRead, Orderly, Held, Working, Reads
<1>2. ASSUME NEW tk \in TicketRec, NewFor(u, tk)
      PROVE  Orderly(u)'
  <2>1. /\ Orders(u) = {} /\ OneOrder(u) /\ admitted'[u] = 0 /\ ~Held(u)'
        /\ \A c \in Client : ~Reads(c, u)'
    BY <1>2, NoOrders DEF NewFor, ApiSide, StillRead, Held, Origin, Unborn, Unadmitted
  <2>2. row'[u] = tk /\ ~tk.oms_owner /\ ~tk.ems_owner /\ ~tk.paused
    BY <1>2 DEF NewFor
  <2>3. CASE tk.action = "execute"
    <3>1. MoreOrders(u, [t |-> u, op |-> "CREATE", tk |-> tk])
      BY <1>2, <2>3 DEF NewFor
    <3> QED
      BY <1>0, <2>1, <2>2, <2>3, <3>1 DEF MoreOrders, Orderly
  <2>4. CASE tk.action = "rfq"
    <3>1. Orders(u)' = {}
      BY <1>2, <2>1, <2>4 DEF NewFor, SameOrders
    <3> QED
      BY <1>0, <2>1, <2>2, <2>4, <3>1 DEF Orderly
  <2> QED
    BY <1>2, <2>3, <2>4 DEF NewFor
<1>3. CASE ReadFor(u)
  BY <1>3, <1>p DEF ReadFor, ApiSide, EmsKept, SameOrders, Orderly, Held, Working, Reads
<1>4. ASSUME NEW c \in Client, NEW tk \in TicketRec, WriteFor(u, c, tk)
      PROVE  Orderly(u)'
  <2>1. row[u].action = "rfq"
    BY <1>0, <1>4, <1>o DEF WriteFor
  <2>2. /\ admitted[u] = 0 /\ Orders(u) = {} /\ OneOrder(u) /\ ~Held(u) /\ sent[u] = 0
        /\ \A d \in Client : Reads(d, u) => /\ req[d].tk.action = "rfq" /\ ~req[d].tk.paused
                                            /\ ~req[d].tk.oms_owner /\ ~req[d].tk.ems_owner
    BY <1>p, <2>1, NoOrders DEF Orderly, Origin, Unadmitted, Unsent
  <2>3. /\ admitted'[u] = 0 /\ ~Held(u)' /\ row'[u] = tk /\ ~tk.oms_owner /\ ~tk.ems_owner /\ ~tk.paused
        /\ \A d \in Client : Reads(d, u)' => req'[d].tk.action = "rfq" /\ ~req'[d].tk.paused
    BY <1>4, <2>2 DEF WriteFor, ApiSide, StillRead, Held
  <2>4. \/ tk.action = "execute" /\ MoreOrders(u, [t |-> u, op |-> "EXECUTE_RFQ", tk |-> tk])
        \/ SameOrders(u)
    BY <1>4 DEF WriteFor
  <2> QED
    BY <1>0, <2>2, <2>3, <2>4 DEF MoreOrders, SameOrders, Orderly
<1>5. ASSUME NEW now \in TicketRec, NEW new \in TicketRec, NEW keep \in BOOLEAN, NEW send \in BOOLEAN,
             TurnFor(u, now, new, keep, send)
      PROVE  Orderly(u)'
  <2>1. Held(u) /\ Moves(oms[u], now, keep, send) /\ Exists(now) /\ Written(oms[u], now, row[u], new)
        /\ row'[u] = new /\ SameOrders(u) /\ admitted'[u] = admitted[u]
        /\ oms'[u] = (IF keep THEN now ELSE NoTicket) /\ EmsKept(u)
    BY <1>5 DEF TurnFor, OmsSide
  <2>2. admitted[u] # 0 /\ row[u].action # "rfq" /\ Orders(u) = {} /\ Agree(oms[u], row[u]) /\ row[u].oms_owner
    BY <1>p, <2>1 DEF Orderly, Origin, Unadmitted
  <2>3. Agree(now, new)
    BY <2>1, <2>2, WrittenAgree
  <2>4. new.action = row[u].action /\ new.ems_owner = row[u].ems_owner /\ (new.oms_owner <=> keep)
    <3>1. now.action = oms[u].action /\ now.ems_owner = oms[u].ems_owner
      BY <2>1 DEF Moves
    <3>2. IF keep THEN now.oms_owner = oms[u].oms_owner ELSE ~now.oms_owner
      BY <2>1 DEF Moves
    <3>3. oms[u].oms_owner = TRUE
      BY <2>2 DEF Agree
    <3>4. now.oms_owner \in BOOLEAN
      BY DEF TicketRec
    <3>5. (now.oms_owner <=> keep)
      BY <3>2, <3>3, <3>4
    <3> QED
      BY <2>1, <2>3, <3>1, <3>5 DEF Agree, Written, Dirty
  <2>5. (Held(u)' <=> keep)
    BY <1>n, <2>1
  <2> QED
    BY <1>n, <1>p, <2>1, <2>2, <2>3, <2>4, <2>5 DEF EmsKept, SameOrders, Orderly, Working
<1>6. ASSUME NEW m \in Request, NEW now \in TicketRec, NEW new \in TicketRec, NEW keep \in BOOLEAN,
             NEW send \in BOOLEAN, IntakeFor(u, m, now, new, keep, send)
      PROVE  Orderly(u)'
  <2>1. /\ Written(m.tk, now, row[u], new) /\ row'[u] = new /\ LessOrders(u, m) /\ Exists(now)
        /\ admitted'[u] = admitted[u] + 1 /\ oms'[u] = (IF keep THEN now ELSE NoTicket) /\ m \in Orders(u)
    BY <1>6 DEF IntakeFor, LessOrders
  <2>2. PICK own \in TicketRec :
          SameBut(m.tk, own) /\ own.oms_owner /\ Moves(own, now, keep, send)
    BY <1>6, IntakeFacts
  <2>3. m.tk = row[u] /\ admitted[u] = 0 /\ OneOrder(u) /\ sent[u] = 0 /\ row[u].action # "rfq"
    BY <1>p, <2>1 DEF Orderly, Origin, Unadmitted
  <2>4. new = now /\ Orders(u)' = {}
    BY <1>0, <2>1, <2>3, WrittenSame DEF LessOrders
  <2>5. now.action = row[u].action /\ now.ems_owner = row[u].ems_owner
    BY <2>2, <2>3 DEF SameBut, Moves
  <2>6. (now.oms_owner <=> keep)
    <3>1. IF keep THEN now.oms_owner = own.oms_owner ELSE ~now.oms_owner
      BY <2>2 DEF Moves
    <3>2. now.oms_owner \in BOOLEAN /\ own.oms_owner = TRUE
      BY <2>2 DEF TicketRec
    <3> QED
      BY <3>1, <3>2
  <2>7. (Held(u)' <=> keep)
    BY <1>n, <2>1
  <2>8. ~row[u].ems_owner
    BY <2>3 DEF Origin, Unsent
  <2> QED
    BY <1>0, <1>n, <2>1, <2>3, <2>4, <2>5, <2>6, <2>7, <2>8 DEF Orderly, Agree
<1>7. CASE NoticeFor(u)
  <2>1. Agree(row[u], row[u])
    BY DEF Agree
  <2> QED
    <3>1. CASE Held(u)
      <4>1. oms'[u] = row[u] /\ Exists(row[u])
        BY <1>7, <3>1 DEF NoticeFor, Origin, Unborn, Unadmitted
      <4>2. Held(u)' /\ Agree(oms'[u], row'[u])
        BY <1>7, <1>n, <2>1, <4>1 DEF NoticeFor
      <4> QED
        BY <1>7, <1>p, <3>1, <4>2 DEF NoticeFor, EmsKept, SameOrders, StillRead, Orderly, Working, Reads
    <3>2. CASE ~Held(u)
      BY <1>7, <1>p, <3>2 DEF NoticeFor, EmsKept, SameOrders, StillRead, Orderly, Held, Working, Reads
    <3> QED
      BY <3>1, <3>2
<1>8. CASE EmsFor(u)
  <2>1. EmsSide(u) /\ sent[u] # 0
    BY <1>8 DEF EmsFor, TakeFor, WorkFor, EndFor, LessCalls, Origin, Unsent
  <2>2. admitted[u] # 0 /\ Orders(u) = {} /\ row[u].action # "rfq"
    BY <1>p, <2>1 DEF Origin, Unadmitted, Orderly
  <2>3. /\ row'[u].action = row[u].action /\ row'[u].phase = row[u].phase /\ row'[u].oms_owner = row[u].oms_owner
        /\ row'[u].paused = row[u].paused /\ row'[u].auth_user = row[u].auth_user
        /\ oms'[u] = oms[u] /\ admitted'[u] = admitted[u] /\ Orders(u)' = {}
    BY <2>1, <2>2 DEF EmsSide, EmsSaved, SameOrders
  <2>4. row'[u].ems_owner => Working(u)' /\ ems'[u].ems_owner
    BY <1>8, <1>n, <1>p DEF EmsFor, TakeFor, WorkFor, EndFor, Orderly
  <2> QED
    BY <1>p, <2>2, <2>3, <2>4 DEF Orderly, Agree, Held
<1>9. CASE OmsDied(u) /\ OmsLostFor(u)
  <2>1. /\ row'[u] = row[u] /\ admitted'[u] = admitted[u] /\ Orders(u)' \subseteq Orders(u)
        /\ OneOrder(u) => OneOrder(u)'
    BY <1>9 DEF OmsLostFor, SameOrders, LessOrders
  <2>2. oms'[u] = (IF row'[u].oms_owner THEN row'[u] ELSE NoTicket) /\ EmsKept(u) /\ StillRead(u)
    BY <1>9 DEF OmsDied
  <2>3. row'[u].oms_owner => Exists(row'[u])
    BY <2>1, <1>p DEF Orderly, Origin, Unborn, Unadmitted
  <2>4. (row'[u].oms_owner <=> Held(u)')
    BY <1>0, <1>n, <2>2, <2>3
  <2> QED
    BY <1>n, <1>p, <2>1, <2>2, <2>4 DEF EmsKept, StillRead, Orderly, Agree, Working, Reads
<1>10. ASSUME NEW now \in TicketRec, NEW new \in TicketRec, OmsDied(u), OmsSentFor(u, now, new)
       PROVE  Orderly(u)'
  <2>1. /\ Held(u) /\ HalfMoves(oms[u], now) /\ Written(oms[u], now, row[u], new) /\ row'[u] = new
        /\ SameOrders(u) /\ admitted'[u] = admitted[u]
        /\ oms'[u] = (IF row'[u].oms_owner THEN row'[u] ELSE NoTicket) /\ EmsKept(u)
    BY <1>10 DEF OmsSentFor, OmsDied
  <2>2. admitted[u] # 0 /\ row[u].action # "rfq" /\ Orders(u) = {} /\ Agree(oms[u], row[u]) /\ row[u].oms_owner
    BY <1>p, <2>1 DEF Orderly, Origin, Unadmitted
  <2>3. Agree(now, new)
    BY <2>1, <2>2, WrittenAgree
  <2>4. new.action = row[u].action /\ new.ems_owner = row[u].ems_owner /\ new.oms_owner
    BY <2>1, <2>2, <2>3 DEF HalfMoves, Agree, Written, Dirty
  <2>5. Held(u)'
    <3>1. Exists(row[u])
      BY <2>2 DEF Origin, Unborn
    <3>2. Exists(new)
      BY <2>1, <3>1, WrittenExists DEF HalfMoves, Exists
    <3> QED
      BY <1>n, <2>1, <2>4, <3>2
  <2> QED
    BY <1>0, <1>n, <1>p, <2>1, <2>2, <2>3, <2>4, <2>5 DEF EmsKept, SameOrders, Orderly, Working, Agree
<1>11. ASSUME NEW m \in Request, NEW now \in TicketRec, NEW new \in TicketRec, OmsDied(u),
              OmsTakenFor(u, m, now, new)
       PROVE  Orderly(u)'
  <2>1. /\ Written(m.tk, now, row[u], new) /\ row'[u] = new /\ LessOrders(u, m) /\ m \in Orders(u)
        /\ now.action = m.tk.action /\ now.ems_owner = m.tk.ems_owner /\ new.oms_owner
        /\ admitted'[u] = admitted[u] + 1
        /\ oms'[u] = (IF row'[u].oms_owner THEN row'[u] ELSE NoTicket) /\ EmsKept(u)
    BY <1>11, TakenFacts DEF OmsTakenFor, OmsDied
  <2>2. m.tk = row[u] /\ admitted[u] = 0 /\ OneOrder(u) /\ sent[u] = 0 /\ row[u].action # "rfq"
    BY <1>p, <2>1 DEF Orderly, Origin, Unadmitted
  <2>3. new = now /\ Orders(u)' = {}
    BY <1>0, <2>1, <2>2, WrittenSame DEF LessOrders
  <2>4. ~row[u].ems_owner
    BY <2>2 DEF Origin, Unsent
  <2>5. Held(u)'
    <3>1. Exists(row'[u])
      BY <1>0, <2>1 DEF Origin, Unborn
    <3> QED
      BY <1>n, <2>1, <3>1
  <2> QED
    BY <1>0, <1>n, <2>1, <2>2, <2>3, <2>4, <2>5 DEF Orderly, Agree
<1>12. CASE EmsDiedFor(u)
  <2>1. /\ row'[u].action = row[u].action /\ row'[u].phase = row[u].phase /\ row'[u].oms_owner = row[u].oms_owner
        /\ row'[u].paused = row[u].paused /\ row'[u].auth_user = row[u].auth_user
        /\ oms'[u] = oms[u] /\ admitted'[u] = admitted[u] /\ SameOrders(u) /\ StillRead(u)
        /\ ems'[u] = (IF row'[u].ems_owner THEN row'[u] ELSE NoTicket)
    BY <1>12 DEF EmsDiedFor, EmsSaved
  <2>2. sent[u] = 0 => row'[u] = row[u]
    BY <1>12 DEF EmsDiedFor, Origin, Unsent
  <2>3. row'[u].ems_owner => Working(u)' /\ ems'[u].ems_owner
    <3>1. row'[u].ems_owner => sent'[u] # 0
      BY DEF Origin, Unsent
    <3>2. sent'[u] # 0 => Exists(row'[u])
      BY DEF Origin, Unborn, Unadmitted
    <3> QED
      BY <1>n, <2>1, <3>1, <3>2
  <2>4. Orders(u) # {} => row'[u] = row[u]
    BY <1>p, <2>2 DEF Orderly, Origin, Unadmitted
  <2> QED
    BY <1>p, <2>1, <2>3, <2>4 DEF SameOrders, StillRead, Orderly, Agree, Held, Reads
<1> QED
  BY <1>1, <1>2, <1>3, <1>4, <1>5, <1>6, <1>7, <1>8, <1>9, <1>10, <1>11, <1>12
     DEF TicketStep, ApiFor, OmsFor, OmsDiedFor

\* What it has been authorised to do: nobody has passed the authorisation check,
\* or been called, without one.
Passed == Unsure \cup {"ACCEPTED"}

Vouched(u) ==
  /\ row[u].internal_state \in Passed => row[u].auth_user
  /\ oms[u].internal_state \in Passed => oms[u].auth_user
  /\ Calls(u) # {} \/ Working(u) \/ row[u].ems_owner => row[u].auth_user
  /\ \A m \in Calls(u) : m.tk.auth_user
  /\ Working(u) => ems[u].auth_user

\* A turn does not pass the check without an authorisation.
LEMMA MovesVouched ==
  ASSUME NEW was, NEW now, NEW keep, NEW send, Moves(was, now, keep, send), was.action # "rfq",
         was.internal_state \in Passed => was.auth_user
  PROVE  /\ now.internal_state \in Passed => now.auth_user
         /\ send => now.auth_user
         /\ was.auth_user => now.auth_user
  BY DEF Moves, Passed

\* Nor does the half of one.
LEMMA HalfVouched ==
  ASSUME NEW was, NEW now, HalfMoves(was, now), was.action # "rfq",
         was.internal_state \in Passed => was.auth_user
  PROVE  now.auth_user
  BY DEF HalfMoves, Passed

\* The EMS's states are not passed ones.
LEMMA GivenNotPassed == \A s \in Given : s \notin Passed
  BY DEF Given, Passed, Unsure

\* A call's snapshot.
LEMMA SnapFacts ==
  ASSUME NEW now \in TicketRec, NEW phase
  PROVE  LET s == [now EXCEPT !.phase = phase] IN
         s.auth_user = now.auth_user /\ s.oms_owner = now.oms_owner
  BY DEF TicketRec

\* The steps keep it, but for an overwriting.
LEMMA VouchedStep ==
  ASSUME Shaped, Shaped', NEW u \in Ticket, job[u] # "idle" => Working(u),
         Origin(u), Origin(u)', Orderly(u), Orderly(u)', Vouched(u), TicketStep(u),
         overwrites[u] = 0, overwrites'[u] = 0
  PROVE  Vouched(u)'
<1>0. /\ row[u] \in TicketRec /\ oms[u] \in TicketRec /\ row'[u] \in TicketRec /\ oms'[u] \in TicketRec
      /\ row[u].action \in {"rfq", "execute"}
  BY DEF Shaped, Typed, TypeOK, TicketRec, Actions
<1>n. /\ ~Exists(NoTicket) /\ NoTicket.internal_state \notin Passed
      /\ (Held(u)' <=> Exists(oms'[u])) /\ (Working(u)' <=> Exists(ems'[u]))
      /\ "NONE" \notin Passed
  BY DEF NoTicket, Exists, Held, Working, Passed, Unsure
<1>1. CASE Alone(u)
  BY <1>1 DEF Alone, EmsKept, SameCalls, Vouched, Working
<1>2. ASSUME NEW tk \in TicketRec, NewFor(u, tk)
      PROVE  Vouched(u)'
  <2>1. /\ Calls(u) = {} /\ ~Working(u) /\ ~Held(u)
    BY <1>2 DEF NewFor, Origin, Unborn, Unadmitted, Unsent
  <2>2. Calls(u)' = {} /\ ~Working(u)' /\ oms'[u].internal_state = "NONE"
    BY <1>2, <2>1 DEF NewFor, ApiSide, EmsKept, SameCalls, Working, Held, Exists
  <2>3. row'[u] = tk /\ ~tk.ems_owner /\ tk.internal_state \notin Passed
    BY <1>2 DEF NewFor, Passed, Unsure
  <2> QED
    BY <1>n, <2>2, <2>3 DEF Vouched
<1>3. CASE ReadFor(u)
  BY <1>3 DEF ReadFor, ApiSide, EmsKept, SameCalls, Vouched, Working
<1>4. ASSUME NEW c \in Client, NEW tk \in TicketRec, WriteFor(u, c, tk)
      PROVE  Vouched(u)'
  <2>1. row[u].action = "rfq"
    BY <1>0, <1>4 DEF WriteFor
  <2>2. admitted[u] = 0 /\ sent[u] = 0 /\ ~Held(u) /\ ~req[c].tk.ems_owner
    BY <1>4, <2>1 DEF WriteFor, Orderly, Origin, Unadmitted, Unsent
  <2>3. Calls(u) = {} /\ ~Working(u)
    BY <2>2 DEF Origin, Unsent
  <2>4. Calls(u)' = {} /\ ~Working(u)' /\ oms'[u].internal_state = "NONE"
    BY <1>4, <2>2, <2>3 DEF WriteFor, ApiSide, EmsKept, SameCalls, Working, Held, Exists
  <2>5. row'[u] = tk /\ ~tk.ems_owner /\ (tk.internal_state \in Passed => tk.auth_user)
    BY <1>4, <2>2 DEF WriteFor, Passed, Unsure
  <2> QED
    BY <1>n, <2>4, <2>5 DEF Vouched
<1>5. ASSUME NEW now \in TicketRec, NEW new \in TicketRec, NEW keep \in BOOLEAN, NEW send \in BOOLEAN,
             TurnFor(u, now, new, keep, send)
      PROVE  Vouched(u)'
  <2>1. Held(u) /\ Moves(oms[u], now, keep, send) /\ Exists(now) /\ Written(oms[u], now, row[u], new)
        /\ row'[u] = new /\ oms'[u] = (IF keep THEN now ELSE NoTicket) /\ EmsKept(u)
    BY <1>5 DEF TurnFor, OmsSide
  <2>2. Agree(oms[u], row[u]) /\ row[u].action # "rfq"
    BY <2>1 DEF Orderly, Origin, Unadmitted
  <2>3. Agree(now, new)
    BY <2>1, <2>2, WrittenAgree
  <2>4. /\ now.internal_state \in Passed => now.auth_user
        /\ send => now.auth_user
        /\ oms[u].auth_user => now.auth_user
    BY <2>1, <2>2, MovesVouched DEF Agree, Vouched
  <2>5. (row[u].auth_user => new.auth_user) /\ (now.auth_user => new.auth_user)
    BY <2>2, <2>3, <2>4 DEF Agree
  <2>6. new.internal_state \in Passed => new.auth_user
    BY <2>1, <2>4, <2>5 DEF Written, Dirty, Vouched
  <2>7. new.ems_owner = row[u].ems_owner
    BY <2>1 DEF Moves, Written, Dirty
  <2>8. CASE send
    <3> DEFINE call == [t |-> u, tk |-> [now EXCEPT !.phase = oms[u].phase]]
    <3>1. Calls(u)' = Calls(u) \cup {call}
      BY <1>5, <2>8 DEF TurnFor, SendsFor, MoreCalls
    <3>2. call.tk.auth_user
      BY <2>4, <2>8, SnapFacts
    <3> HIDE DEF call
    <3> QED
      BY <1>n, <2>1, <2>4, <2>5, <2>6, <2>8, <3>1, <3>2 DEF Vouched, EmsKept, Working
  <2>9. CASE ~send
    <3>1. Calls(u)' = Calls(u)
      BY <1>5, <2>9 DEF TurnFor, SendsFor, SameCalls
    <3> QED
      BY <1>n, <2>1, <2>4, <2>5, <2>6, <2>7, <3>1 DEF Vouched, EmsKept, Working
  <2> QED
    BY <2>8, <2>9
<1>6. ASSUME NEW m \in Request, NEW now \in TicketRec, NEW new \in TicketRec, NEW keep \in BOOLEAN,
             NEW send \in BOOLEAN, IntakeFor(u, m, now, new, keep, send)
      PROVE  Vouched(u)'
  <2>1. /\ Written(m.tk, now, row[u], new) /\ row'[u] = new
        /\ oms'[u] = (IF keep THEN now ELSE NoTicket) /\ m \in Orders(u) /\ EmsKept(u)
    BY <1>6 DEF IntakeFor, LessOrders, OmsSide
  <2>2. PICK own \in TicketRec :
          SameBut(m.tk, own) /\ own.internal_state = m.tk.internal_state /\ Moves(own, now, keep, send)
    BY <1>6, IntakeFacts
  <2>3. m.tk = row[u] /\ admitted[u] = 0 /\ sent[u] = 0 /\ row[u].action # "rfq"
    BY <2>1 DEF Orderly, Origin, Unadmitted
  <2>4. new = now /\ Calls(u) = {} /\ ~Working(u) /\ ~row[u].ems_owner
    BY <1>0, <2>1, <2>3, WrittenSame DEF Origin, Unsent
  <2>5. /\ now.internal_state \in Passed => now.auth_user
        /\ send => now.auth_user
    BY <2>2, <2>3, MovesVouched DEF SameBut, Vouched
  <2>6. now.ems_owner = row[u].ems_owner
    BY <2>2, <2>3 DEF SameBut, Moves
  <2>7. CASE send
    <3> DEFINE call == [t |-> u, tk |-> [now EXCEPT !.phase = m.tk.phase]]
    <3>1. Calls(u)' = {call}
      BY <1>6, <2>4, <2>7 DEF IntakeFor, SendsFor, MoreCalls
    <3>2. call.tk.auth_user
      BY <2>5, <2>7, SnapFacts
    <3> HIDE DEF call
    <3> QED
      BY <1>n, <2>1, <2>4, <2>5, <2>7, <3>1, <3>2 DEF Vouched, EmsKept, Working
  <2>8. CASE ~send
    <3>1. Calls(u)' = {}
      BY <1>6, <2>4, <2>8 DEF IntakeFor, SendsFor, SameCalls
    <3> QED
      BY <1>n, <2>1, <2>4, <2>5, <2>6, <3>1 DEF Vouched, EmsKept, Working
  <2> QED
    BY <2>7, <2>8
<1>7. CASE NoticeFor(u)
  BY <1>7 DEF NoticeFor, EmsKept, SameCalls, Vouched, Working
<1>8. CASE EmsFor(u)
  <2>1. /\ row'[u].auth_user = row[u].auth_user /\ oms'[u] = oms[u]
        /\ row'[u].internal_state \in Passed => row[u].internal_state \in Passed
        /\ Calls(u)' \subseteq Calls(u)
    BY <1>8, GivenNotPassed DEF EmsFor, TakeFor, WorkFor, EndFor, EmsSide, EmsSaved, SameCalls, LessCalls
  <2>2. Working(u)' => ems'[u].auth_user
    BY <1>8, <1>n DEF EmsFor, TakeFor, WorkFor, EndFor, LessCalls, Vouched
  <2>3. Calls(u) # {} \/ Working(u)
    BY <1>8 DEF EmsFor, TakeFor, WorkFor, EndFor, LessCalls
  <2> QED
    BY <2>1, <2>2, <2>3 DEF Vouched
<1>9. CASE OmsDied(u) /\ OmsLostFor(u)
  BY <1>9, <1>n DEF OmsDied, OmsLostFor, EmsKept, SameCalls, Vouched, Working
<1>10. ASSUME NEW now \in TicketRec, NEW new \in TicketRec, OmsDied(u), OmsSentFor(u, now, new)
       PROVE  Vouched(u)'
  <2>1. /\ Held(u) /\ HalfMoves(oms[u], now) /\ Written(oms[u], now, row[u], new) /\ row'[u] = new
        /\ oms'[u] = (IF row'[u].oms_owner THEN row'[u] ELSE NoTicket) /\ EmsKept(u)
    BY <1>10 DEF OmsSentFor, OmsDied
  <2>2. Agree(oms[u], row[u]) /\ row[u].action # "rfq"
    BY <2>1 DEF Orderly, Origin, Unadmitted
  <2>3. Agree(now, new)
    BY <2>1, <2>2, WrittenAgree
  <2>4. now.auth_user
    BY <2>1, <2>2, HalfVouched DEF Agree, Vouched
  <2>5. new.auth_user
    BY <2>3, <2>4 DEF Agree
  <2> DEFINE call == [t |-> u, tk |-> now]
  <2>6. Calls(u)' = Calls(u) \cup {call}
    BY <1>10 DEF OmsSentFor, MoreCalls
  <2>7. call.tk.auth_user
    BY <2>4
  <2> HIDE DEF call
  <2> QED
    BY <1>n, <2>1, <2>5, <2>6, <2>7 DEF Vouched, EmsKept, Working
<1>11. ASSUME NEW m \in Request, NEW now \in TicketRec, NEW new \in TicketRec, OmsDied(u),
              OmsTakenFor(u, m, now, new)
       PROVE  Vouched(u)'
  <2>1. /\ Written(m.tk, now, row[u], new) /\ row'[u] = new /\ m \in Orders(u)
        /\ now.action = m.tk.action /\ now.ems_owner = m.tk.ems_owner /\ now.auth_user = m.tk.auth_user
        /\ oms'[u] = (IF row'[u].oms_owner THEN row'[u] ELSE NoTicket) /\ EmsKept(u)
    BY <1>11, TakenFacts DEF OmsTakenFor, OmsDied
  <2>2. m.tk = row[u] /\ admitted[u] = 0 /\ sent[u] = 0 /\ row[u].action # "rfq"
    BY <2>1 DEF Orderly, Origin, Unadmitted
  <2>3. new = now /\ Calls(u) = {} /\ ~Working(u) /\ ~row[u].ems_owner
    BY <1>0, <2>1, <2>2, WrittenSame DEF Origin, Unsent
  <2>4. PICK own \in TicketRec :
          SameBut(m.tk, own) /\ own.internal_state = m.tk.internal_state /\ own = Own(m.tk)
    BY <1>0, <2>2, OwnFacts DEF SameBut
  <2>5. CASE now = own /\ SameCalls(u)
    <3>1. (now.internal_state \in Passed => now.auth_user) /\ Calls(u)' = {}
      BY <2>2, <2>3, <2>4, <2>5 DEF SameBut, SameCalls, Vouched
    <3> QED
      BY <1>n, <2>1, <2>2, <2>3, <3>1 DEF Vouched, EmsKept, Working
  <2>6. CASE HalfMoves(own, now) /\ MoreCalls(u, [t |-> u, tk |-> now])
    <3>1. now.auth_user
      BY <2>2, <2>4, <2>6, HalfVouched DEF SameBut, Vouched
    <3> DEFINE call == [t |-> u, tk |-> now]
    <3>2. Calls(u)' = {call} /\ call.tk.auth_user
      BY <2>3, <2>6, <3>1 DEF MoreCalls
    <3> HIDE DEF call
    <3> QED
      BY <1>n, <2>1, <2>3, <3>1, <3>2 DEF Vouched, EmsKept, Working
  <2> QED
    BY <1>11, <2>4, <2>5, <2>6 DEF OmsTakenFor
<1>12. CASE EmsDiedFor(u)
  <2>1. /\ row'[u].auth_user = row[u].auth_user /\ oms'[u] = oms[u]
        /\ row'[u].internal_state \in Passed => row[u].internal_state \in Passed
        /\ Calls(u)' \subseteq Calls(u)
        /\ ems'[u] = (IF row'[u].ems_owner THEN row'[u] ELSE NoTicket)
    BY <1>12, GivenNotPassed DEF EmsDiedFor, EmsSaved, SameCalls, LessCalls
  <2>2. row'[u].ems_owner => row[u].auth_user
    BY <1>12 DEF EmsDiedFor, Vouched
  <2> QED
    BY <1>n, <2>1, <2>2 DEF Vouched
<1> QED
  BY <1>1, <1>2, <1>3, <1>4, <1>5, <1>6, <1>7, <1>8, <1>9, <1>10, <1>11, <1>12
     DEF TicketStep, ApiFor, OmsFor, OmsDiedFor

-----------------------------------------------------------------------------
(***************************************************************************)
(* While nobody has died, whatever is overwritten: an early copy has never *)
(* been sent, a copy that may be sent is authorised, and so is what was.   *)
(***************************************************************************)
Straight(u) ==
  /\ oms[u].internal_state \in Early =>
       sent[u] = 0 /\ oms[u].phase = "PRETRADE" /\ oms[u].action = "execute"
  /\ oms[u].internal_state \in Unsure => oms[u].auth_user
  /\ oms[u].internal_state = "ACCEPTED" /\ oms[u].phase # "WORKING" => oms[u].auth_user
  /\ row[u].internal_state = "ACCEPTED" /\ row[u].phase # "WORKING" => row[u].auth_user
  /\ \A m \in Calls(u) : m.tk.auth_user
  /\ Working(u) => ems[u].auth_user

\* What is said of the OMS's copy.
Fit(tk, n) ==
  /\ tk.internal_state \in Early => n = 0 /\ tk.phase = "PRETRADE" /\ tk.action = "execute"
  /\ tk.internal_state \in Unsure => tk.auth_user
  /\ tk.internal_state = "ACCEPTED" /\ tk.phase # "WORKING" => tk.auth_user

\* A turn on a fit copy leaves a fit one, and sends it authorised.
LEMMA MovesFit ==
  ASSUME NEW was, NEW now, NEW r, NEW new, NEW keep, NEW send, NEW n, NEW snap,
         Moves(was, now, keep, send), Fit(was, n), SameBut(snap, was), snap.internal_state = was.internal_state,
         Written(snap, now, r, new),
         r.internal_state = "ACCEPTED" /\ r.phase # "WORKING" => r.auth_user
  PROVE  /\ Fit(now, n) /\ (now.internal_state \in Early => ~send)
         /\ send => now.auth_user
         /\ new.internal_state = "ACCEPTED" /\ new.phase # "WORKING" => new.auth_user
<1>1. Unsure \subseteq Early /\ "ACCEPTED" \notin Early /\ Unsure \subseteq Chain /\ Chain \subseteq Early
  BY DEF Early, Unsure, Chain
<1>2. now.internal_state \in Early => was.internal_state \in Early /\ now.phase = was.phase /\ ~send
  BY <1>1, EarlyFacts DEF Moves
<1>3. now.action = was.action /\ (was.auth_user => now.auth_user)
  BY DEF Moves
<1>4. now.internal_state \in Unsure => now.auth_user
  BY <1>1, <1>2, <1>3 DEF Moves, Fit
<1>5. now.internal_state = "ACCEPTED" /\ now.phase # "WORKING" => was.internal_state = "ACCEPTED" /\ was.phase # "WORKING"
  BY DEF Moves, Settled
<1>6. send => now.auth_user
  BY <1>1 DEF Moves, Fit
<1>7. /\ new.internal_state = IF now.internal_state # was.internal_state THEN now.internal_state ELSE r.internal_state
      /\ new.phase = IF now.phase # was.phase THEN now.phase ELSE r.phase
      /\ new.auth_user = IF now.auth_user # was.auth_user THEN now.auth_user ELSE r.auth_user
  BY DEF Written, Dirty, SameBut
<1>8. ASSUME new.internal_state = "ACCEPTED", new.phase # "WORKING"
      PROVE  new.auth_user
  <2>1. CASE now.internal_state # was.internal_state
    <3>1. was.internal_state \in Early /\ now.phase = "WORKING"
      BY <1>7, <1>8, <2>1 DEF Moves
    <3>2. was.phase = "PRETRADE"
      BY <3>1 DEF Fit
    <3> QED
      BY <1>7, <1>8, <3>1, <3>2
  <2>2. CASE now.internal_state = was.internal_state
    <3>1. r.internal_state = "ACCEPTED"
      BY <1>7, <1>8, <2>2
    <3>2. now.phase # was.phase => now.phase = "WORKING"
      BY <2>2 DEF Moves, Settled, SettlementStates
    <3>3. r.auth_user
      BY <1>7, <1>8, <3>1, <3>2
    <3> QED
      BY <1>3, <1>7, <3>3 DEF Moves
  <2> QED
    BY <2>1, <2>2
<1> QED
  BY <1>2, <1>3, <1>4, <1>5, <1>6, <1>8 DEF Fit

\* The steps keep it until somebody dies.
LEMMA StraightStep ==
  ASSUME Shaped, Shaped', NEW u \in Ticket, Origin(u), Origin(u)', Start(u), Straight(u), TicketStep(u),
         restarts = 0, restarts' = 0
  PROVE  Straight(u)'
<1>0. /\ row[u] \in TicketRec /\ oms[u] \in TicketRec /\ row'[u] \in TicketRec /\ oms'[u] \in TicketRec
      /\ notes[u] \in Nat
  BY DEF Shaped, Typed, TypeOK
<1>n. /\ ~Exists(NoTicket) /\ \A n : Fit(NoTicket, n)
      /\ (Working(u)' <=> Exists(ems'[u]))
  BY EarlyFacts DEF NoTicket, Exists, Working, Fit, Unsure
<1>f. Fit(oms[u], sent[u])
  BY DEF Straight, Fit
<1>1. CASE Alone(u)
  BY <1>1 DEF Alone, EmsKept, SameCalls, Straight, Working
<1>2. ASSUME NEW tk \in TicketRec, NewFor(u, tk)
      PROVE  Straight(u)'
  BY <1>2 DEF NewFor, ApiSide, EmsKept, SameCalls, Straight, Working
<1>3. CASE ReadFor(u)
  BY <1>3 DEF ReadFor, ApiSide, EmsKept, SameCalls, Straight, Working
<1>4. ASSUME NEW c \in Client, NEW tk \in TicketRec, WriteFor(u, c, tk)
      PROVE  Straight(u)'
  BY <1>4 DEF WriteFor, ApiSide, EmsKept, SameCalls, Straight, Working
<1>5. ASSUME NEW now \in TicketRec, NEW new \in TicketRec, NEW keep \in BOOLEAN, NEW send \in BOOLEAN,
             TurnFor(u, now, new, keep, send)
      PROVE  Straight(u)'
  <2>1. Held(u) /\ Moves(oms[u], now, keep, send) /\ Exists(now) /\ Written(oms[u], now, row[u], new)
        /\ row'[u] = new /\ oms'[u] = (IF keep THEN now ELSE NoTicket) /\ EmsKept(u)
    BY <1>5 DEF TurnFor, OmsSide
  <2>2. SameBut(oms[u], oms[u]) /\ (row[u].internal_state = "ACCEPTED" /\ row[u].phase # "WORKING" => row[u].auth_user)
    BY DEF SameBut, Straight
  <2>3. /\ Fit(now, sent[u]) /\ (now.internal_state \in Early => ~send)
        /\ send => now.auth_user
        /\ new.internal_state = "ACCEPTED" /\ new.phase # "WORKING" => new.auth_user
    BY <1>f, <2>1, <2>2, MovesFit
  <2>4. CASE send
    <3> DEFINE call == [t |-> u, tk |-> [now EXCEPT !.phase = oms[u].phase]]
    <3>1. Calls(u)' = Calls(u) \cup {call}
      BY <1>5, <2>4 DEF TurnFor, SendsFor, MoreCalls
    <3>2. call.tk.auth_user
      BY <2>3, <2>4, SnapFacts
    <3> HIDE DEF call
    <3>3. Fit(oms'[u], sent'[u])
      BY <1>n, <2>1, <2>3, <2>4 DEF Fit
    <3> QED
      BY <1>n, <2>1, <2>3, <3>1, <3>2, <3>3 DEF Straight, Fit, EmsKept, Working
  <2>5. CASE ~send
    <3>1. Calls(u)' = Calls(u) /\ sent'[u] = sent[u]
      BY <1>5, <2>5 DEF TurnFor, SendsFor, SameCalls
    <3>2. Fit(oms'[u], sent'[u])
      BY <1>n, <2>1, <2>3, <3>1
    <3> QED
      BY <1>n, <2>1, <2>3, <3>1, <3>2 DEF Straight, Fit, EmsKept, Working
  <2> QED
    BY <2>4, <2>5
<1>6. ASSUME NEW m \in Request, NEW now \in TicketRec, NEW new \in TicketRec, NEW keep \in BOOLEAN,
             NEW send \in BOOLEAN, IntakeFor(u, m, now, new, keep, send)
      PROVE  Straight(u)'
  <2>1. /\ Written(m.tk, now, row[u], new) /\ row'[u] = new
        /\ oms'[u] = (IF keep THEN now ELSE NoTicket) /\ m \in Orders(u) /\ EmsKept(u)
    BY <1>6 DEF IntakeFor, LessOrders, OmsSide
  <2>2. PICK own \in TicketRec :
          SameBut(m.tk, own) /\ own.internal_state = m.tk.internal_state /\ Moves(own, now, keep, send)
    BY <1>6, IntakeFacts
  <2>3. Fit(own, sent[u])
    <3>1. m.op = "CREATE" => sent[u] = 0
      BY <2>1 DEF Start, EarlyDirect, Origin, Unadmitted
    <3> QED
      BY <2>1, <2>2, <3>1, RequestFacts, EarlyFacts DEF Fit, SameBut, Unsure
  <2>4. PICK snap : snap = m.tk
    OBVIOUS
  <2>5. SameBut(snap, own) /\ snap.internal_state = own.internal_state /\ Written(snap, now, row[u], new)
        /\ (row[u].internal_state = "ACCEPTED" /\ row[u].phase # "WORKING" => row[u].auth_user)
    BY <2>1, <2>2, <2>4 DEF Straight
  <2>6. /\ Fit(now, sent[u]) /\ (now.internal_state \in Early => ~send)
        /\ send => now.auth_user
        /\ new.internal_state = "ACCEPTED" /\ new.phase # "WORKING" => new.auth_user
    BY <2>2, <2>3, <2>5, MovesFit
  <2>7. CASE send
    <3> DEFINE call == [t |-> u, tk |-> [now EXCEPT !.phase = m.tk.phase]]
    <3>1. Calls(u)' = Calls(u) \cup {call}
      BY <1>6, <2>7 DEF IntakeFor, SendsFor, MoreCalls
    <3>2. call.tk.auth_user
      BY <2>6, <2>7, SnapFacts
    <3> HIDE DEF call
    <3>3. Fit(oms'[u], sent'[u])
      BY <1>n, <2>1, <2>6, <2>7 DEF Fit
    <3> QED
      BY <1>n, <2>1, <2>6, <3>1, <3>2, <3>3 DEF Straight, Fit, EmsKept, Working
  <2>8. CASE ~send
    <3>1. Calls(u)' = Calls(u) /\ sent'[u] = sent[u]
      BY <1>6, <2>8 DEF IntakeFor, SendsFor, SameCalls
    <3>2. Fit(oms'[u], sent'[u])
      BY <1>n, <2>1, <2>6, <3>1
    <3> QED
      BY <1>n, <2>1, <2>6, <3>1, <3>2 DEF Straight, Fit, EmsKept, Working
  <2> QED
    BY <2>7, <2>8
<1>7. CASE NoticeFor(u)
  <2>1. sent[u] # 0
    BY <1>7 DEF NoticeFor, Origin, Unsent
  <2>2. Held(u) => row[u].internal_state \notin Early
    BY <2>1 DEF Straight, Start, EarlyDirect
  <2>3. Fit(oms'[u], sent[u])
    <3>1. CASE Held(u)
      <4>1. oms'[u] = row[u] /\ row[u].internal_state \notin Early /\ row[u].internal_state \notin Unsure
        BY <1>7, <2>2, <3>1 DEF NoticeFor, Early, Unsure, Chain
      <4> QED
        BY <4>1 DEF Straight, Fit
    <3>2. CASE ~Held(u)
      BY <1>7, <1>f, <3>2 DEF NoticeFor
    <3> QED
      BY <3>1, <3>2
  <2> QED
    BY <1>7, <2>3 DEF NoticeFor, EmsKept, SameCalls, Straight, Fit, Working
<1>8. CASE EmsFor(u)
  <2>1. /\ oms'[u] = oms[u] /\ sent'[u] = sent[u]
        /\ row'[u].internal_state = "ACCEPTED" => row[u].internal_state = "ACCEPTED"
        /\ row'[u].phase = row[u].phase /\ row'[u].auth_user = row[u].auth_user
        /\ Calls(u)' \subseteq Calls(u)
    BY <1>8, EarlyFacts DEF EmsFor, TakeFor, WorkFor, EndFor, EmsSide, EmsSaved, SameCalls, LessCalls
  <2>2. Working(u)' => ems'[u].auth_user
    BY <1>8, <1>n DEF EmsFor, TakeFor, WorkFor, EndFor, LessCalls, Straight
  <2> QED
    BY <2>1, <2>2 DEF Straight
<1>9. ASSUME OmsDiedFor(u) \/ EmsDiedFor(u)
      PROVE  FALSE
  BY <1>9 DEF OmsDiedFor, OmsDied, EmsDiedFor
<1> QED
  BY <1>1, <1>2, <1>3, <1>4, <1>5, <1>6, <1>7, <1>8, <1>9 DEF TicketStep, ApiFor, OmsFor

-----------------------------------------------------------------------------
(***************************************************************************)
(* While nobody has died and the executed row was not overwritten: the     *)
(* order is sent once, read by the EMS once and dealt once, and whenever   *)
(* neither a message nor the EMS is on its way to it, the OMS's copy is    *)
(* the row.                                                                *)
(***************************************************************************)
Quiet(u) ==
  /\ Held(u) /\ sent[u] = 0 => oms[u] = row[u]
  /\ sent[u] # 0 => row[u].phase # "PRETRADE"
  /\ OneCall(u)
  /\ Calls(u) # {} => taken[u] = 0 /\ sent[u] = 1 /\ ~Working(u) /\ notes[u] = 0
  /\ taken[u] <= sent[u]
  /\ Working(u) => job[u] # "idle" /\ booked[u] = 0
  /\ \A m \in Calls(u) : m.tk.oms_owner
  /\ Working(u) => ems[u].oms_owner
  /\ ~ended[u] /\ Working(u) => ems[u].ems_owner
  /\ ~ended[u] /\ Held(u) /\ ~Working(u) /\ notes[u] = 0 => oms[u] = row[u]

\* What a ticket that was never sent leaves of it.
LEMMA QuietUnsent ==
  ASSUME NEW u, sent[u] = 0, Origin(u), Held(u) => oms[u] = row[u]
  PROVE  Quiet(u)
<1>1. Calls(u) = {} /\ ~Working(u) /\ taken[u] = 0 /\ OneCall(u)
  BY NoOrders DEF Origin, Unsent
<1> QED
  BY <1>1 DEF Quiet

\* What sending it for the first time leaves of it.
LEMMA QuietSent ==
  ASSUME Shaped, NEW u \in Ticket, Origin(u), sent[u] = 0, sent'[u] = sent[u] + 1,
         NEW call, MoreCalls(u, call), call.tk.oms_owner, EmsKept(u), notes'[u] = notes[u],
         row'[u].phase = "WORKING", Held(u)' => oms'[u] = row'[u]
  PROVE  Quiet(u)'
<1>1. Calls(u) = {} /\ ~Working(u) /\ taken[u] = 0 /\ OneCall(u) /\ notes[u] = 0
  BY NoOrders DEF Origin, Unsent
<1>2. Calls(u)' = {call} /\ ~Working(u)' /\ taken'[u] = 0 /\ OneCall(u)' /\ notes'[u] = 0 /\ sent'[u] = 1
  BY <1>1 DEF MoreCalls, EmsKept, Working
<1> QED
  BY <1>2 DEF Quiet

\* What may be sent has not been sent yet.
LEMMA SentOnce ==
  ASSUME Shaped, NEW u \in Ticket, SendInv(u), Orderly(u), restarts = 0, overwrites[u] = 0
  PROVE  sent[u] <= admitted[u] /\ sent[u] <= 1 /\ (MaySend(u) => sent[u] = 0)
<1>1. sent[u] \in Nat /\ admitted[u] \in Nat
  BY TicketTyped DEF Shaped
<1>2. PICK A : A = One(MaySend(u))
  OBVIOUS
<1>3. PICK B : B = One(Requotable(u))
  OBVIOUS
<1>4. A \in Nat /\ B \in Nat /\ (MaySend(u) => A = 1)
  BY <1>2, <1>3 DEF One
<1>5. sent[u] + A + B <= admitted[u] /\ admitted[u] <= 1
  BY <1>1, <1>2, <1>3, <1>4 DEF SendInv, Orderly
<1> QED
  BY <1>1, <1>4, <1>5

\* The steps keep it until somebody dies or overwrites the row.
LEMMA QuietStep ==
  ASSUME Shaped, Shaped', NEW u \in Ticket, job[u] # "idle" => Working(u), booked[u] <= taken[u],
         Origin(u), Origin(u)', Start(u), SendInv(u), Orderly(u), Orderly(u)', Quiet(u), TicketStep(u),
         restarts = 0, restarts' = 0, overwrites[u] = 0, overwrites'[u] = 0
  PROVE  Quiet(u)'
<1>0. /\ row[u] \in TicketRec /\ oms[u] \in TicketRec /\ row'[u] \in TicketRec /\ oms'[u] \in TicketRec
      /\ row[u].action \in {"rfq", "execute"}
      /\ notes[u] \in Nat /\ notes'[u] \in Nat /\ sent[u] \in Nat /\ admitted[u] \in Nat /\ booked[u] \in Nat
      /\ taken[u] \in Nat
  BY DEF Shaped, Typed, TypeOK, TicketRec, Actions
<1>n. /\ ~Exists(NoTicket) /\ (Held(u)' <=> Exists(oms'[u])) /\ (Working(u)' <=> Exists(ems'[u]))
  BY DEF NoTicket, Exists, Held, Working
<1>s. MaySend(u) => sent[u] = 0
  BY SentOnce
<1>1. CASE Alone(u)
  BY <1>1 DEF Alone, EmsKept, SameCalls, Quiet, Held, Working
<1>2. ASSUME NEW tk \in TicketRec, NewFor(u, tk)
      PROVE  Quiet(u)'
  <2>1. sent'[u] = 0 /\ ~Held(u)'
    BY <1>2 DEF NewFor, ApiSide, Held, Origin, Unborn, Unadmitted
  <2>2. Calls(u)' = {} /\ ~Working(u)' /\ taken'[u] = 0 /\ OneCall(u)'
    BY <1>2, <2>1 DEF NewFor, ApiSide, SameCalls, Quiet, Origin, Unsent
  <2> QED
    BY <2>1, <2>2 DEF Quiet
<1>3. CASE ReadFor(u)
  BY <1>3 DEF ReadFor, ApiSide, EmsKept, SameCalls, Quiet, Held, Working
<1>4. ASSUME NEW c \in Client, NEW tk \in TicketRec, WriteFor(u, c, tk)
      PROVE  Quiet(u)'
  <2>1. row[u].action = "rfq"
    BY <1>0, <1>4 DEF WriteFor
  <2>2. sent'[u] = 0 /\ ~Held(u)'
    BY <1>4, <2>1 DEF WriteFor, ApiSide, Held, Orderly, Origin, Unadmitted
  <2>3. Calls(u)' = {} /\ ~Working(u)' /\ taken'[u] = 0 /\ OneCall(u)'
    BY <1>4, <2>2 DEF WriteFor, ApiSide, SameCalls, Quiet, Origin, Unsent
  <2> QED
    BY <2>2, <2>3 DEF Quiet
<1>5. ASSUME NEW now \in TicketRec, NEW new \in TicketRec, NEW keep \in BOOLEAN, NEW send \in BOOLEAN,
             TurnFor(u, now, new, keep, send)
      PROVE  Quiet(u)'
  <2>1. Held(u) /\ Moves(oms[u], now, keep, send) /\ Exists(now) /\ Written(oms[u], now, row[u], new)
        /\ row'[u] = new /\ oms'[u] = (IF keep THEN now ELSE NoTicket) /\ EmsKept(u)
        /\ notes'[u] = notes[u] /\ ended'[u] = ended[u]
    BY <1>5 DEF TurnFor, OmsSide
  <2>2. Agree(oms[u], row[u]) /\ row[u].oms_owner
    BY <2>1 DEF Orderly
  <2>3. Agree(now, new)
    BY <2>1, <2>2, WrittenAgree
  <2>4. oms[u] = row[u] => new = now
    BY <1>0, <2>1, WrittenSame
  <2>5. CASE send
    <3> DEFINE call == [t |-> u, tk |-> [now EXCEPT !.phase = oms[u].phase]]
    <3>1. sent[u] = 0
      BY <1>s, <2>1, <2>5, EarlyFacts DEF Moves, MaySend, CanSend
    <3>2. oms[u] = row[u] /\ keep /\ now.phase = "WORKING" /\ now.oms_owner
      BY <2>1, <2>2, <2>5, <3>1 DEF Quiet, Moves
    <3>3. MoreCalls(u, call) /\ sent'[u] = sent[u] + 1
      BY <1>5, <2>5 DEF TurnFor, SendsFor
    <3>4. call.tk.oms_owner
      BY <3>2, SnapFacts
    <3> HIDE DEF call
    <3> QED
      BY <2>1, <2>4, <3>1, <3>2, <3>3, <3>4, QuietSent
  <2>6. CASE ~send
    <3>1. SameCalls(u) /\ sent'[u] = sent[u]
      BY <1>5, <2>6 DEF TurnFor, SendsFor
    <3>2. Held(u)' /\ oms[u] = row[u] => oms'[u] = row'[u]
      BY <1>n, <2>1, <2>4
    <3>3. row'[u].phase = "PRETRADE" => row[u].phase = "PRETRADE"
      BY <2>1, <2>2, <2>3 DEF Moves, Agree
    <3> QED
      BY <2>1, <3>1, <3>2, <3>3 DEF Quiet, SameCalls, EmsKept, Working
  <2> QED
    BY <2>5, <2>6
<1>6. ASSUME NEW m \in Request, NEW now \in TicketRec, NEW new \in TicketRec, NEW keep \in BOOLEAN,
             NEW send \in BOOLEAN, IntakeFor(u, m, now, new, keep, send)
      PROVE  Quiet(u)'
  <2>1. /\ Written(m.tk, now, row[u], new) /\ row'[u] = new /\ oms'[u] = (IF keep THEN now ELSE NoTicket)
        /\ m \in Orders(u) /\ EmsKept(u) /\ notes'[u] = notes[u]
    BY <1>6 DEF IntakeFor, LessOrders, OmsSide
  <2>2. PICK own \in TicketRec :
          own.oms_owner /\ SameBut(m.tk, own) /\ Moves(own, now, keep, send)
    BY <1>6, IntakeFacts
  <2>3. m.tk = row[u] /\ sent[u] = 0
    BY <2>1 DEF Orderly, Origin, Unadmitted
  <2>4. new = now
    BY <1>0, <2>1, <2>3, WrittenSame
  <2>5. Held(u)' => oms'[u] = row'[u]
    BY <1>n, <2>1, <2>4
  <2>6. CASE send
    <3> DEFINE call == [t |-> u, tk |-> [now EXCEPT !.phase = m.tk.phase]]
    <3>1. now.phase = "WORKING" /\ now.oms_owner
      BY <2>2, <2>6 DEF Moves
    <3>2. MoreCalls(u, call) /\ sent'[u] = sent[u] + 1
      BY <1>6, <2>6 DEF IntakeFor, SendsFor
    <3>3. call.tk.oms_owner
      BY <3>1, SnapFacts
    <3> HIDE DEF call
    <3> QED
      BY <2>1, <2>3, <2>4, <2>5, <3>1, <3>2, <3>3, QuietSent
  <2>7. CASE ~send
    <3>1. sent'[u] = 0
      BY <1>6, <2>3, <2>7 DEF IntakeFor, SendsFor
    <3>2. Calls(u)' = {} /\ ~Working(u)' /\ taken'[u] = 0 /\ OneCall(u)'
      BY <1>6, <2>3, <2>7 DEF IntakeFor, SendsFor, OmsSide, EmsKept, SameCalls, Quiet, Origin, Unsent, Working
    <3> QED
      BY <2>5, <3>1, <3>2 DEF Quiet
  <2> QED
    BY <2>6, <2>7
<1>7. CASE NoticeFor(u)
  <2>1. Calls(u) = {} /\ sent[u] # 0
    BY <1>0, <1>7 DEF NoticeFor, Quiet, Origin, Unsent
  <2>2. Held(u)' => oms'[u] = row'[u]
    BY <1>7, <1>n DEF NoticeFor, Held
  <2> QED
    BY <1>7, <2>1, <2>2 DEF NoticeFor, EmsKept, SameCalls, Quiet, Working
<1>8. CASE EmsFor(u)
  <2>1. /\ EmsSide(u) /\ sent[u] # 0 /\ Calls(u)' \subseteq Calls(u) /\ (OneCall(u) => OneCall(u)')
    BY <1>8 DEF EmsFor, TakeFor, WorkFor, EndFor, SameCalls, LessCalls, Origin, Unsent
  <2>2. row'[u].phase = row[u].phase /\ oms'[u] = oms[u] /\ sent'[u] = sent[u] /\ ended'[u] = ended[u]
    BY <2>1 DEF EmsSide, EmsSaved
  <2>3. ASSUME NEW m \in Dispatched, TakeFor(u, m)
        PROVE  Quiet(u)'
    <3>1. m \in Calls(u) /\ Calls(u)' = {}
      BY <2>3 DEF TakeFor, LessCalls, Quiet
    <3>2. taken[u] = 0 /\ sent[u] = 1 /\ booked[u] = 0 /\ m.tk.oms_owner
      BY <1>0, <3>1 DEF Quiet
    <3>3. taken'[u] = 1 /\ booked'[u] = 0 /\ Working(u)' /\ ems'[u].oms_owner /\ job'[u] # "idle"
          /\ (~ended[u] => ems'[u].ems_owner)
      BY <1>n, <2>3, <3>2 DEF TakeFor
    <3> QED
      BY <2>1, <2>2, <3>1, <3>2, <3>3 DEF Quiet
  <2>4. CASE WorkFor(u)
    <3>1. Working(u) /\ Calls(u) = {} /\ Calls(u)' = {}
      BY <2>1, <2>4 DEF WorkFor, Quiet
    <3>2. /\ taken'[u] = taken[u] /\ booked'[u] = 0 /\ Working(u)' /\ ems'[u].oms_owner /\ job'[u] # "idle"
          /\ ~ended[u] => ems'[u].ems_owner
      BY <1>n, <2>4, <3>1 DEF WorkFor, Quiet
    <3> QED
      BY <2>1, <2>2, <3>1, <3>2 DEF Quiet
  <2>5. CASE EndFor(u)
    <3>1. Working(u) /\ Calls(u) = {} /\ Calls(u)' = {}
      BY <2>1, <2>5 DEF EndFor, Quiet
    <3>2. taken'[u] = taken[u] /\ ~Working(u)' /\ (~ended[u] => notes'[u] > 0)
      BY <1>n, <2>5, <3>1 DEF EndFor, Quiet
    <3> QED
      BY <1>0, <2>1, <2>2, <3>1, <3>2 DEF Quiet
  <2> QED
    BY <1>8, <2>3, <2>4, <2>5 DEF EmsFor
<1>9. ASSUME OmsDiedFor(u) \/ EmsDiedFor(u)
      PROVE  FALSE
  BY <1>9 DEF OmsDiedFor, OmsDied, EmsDiedFor
<1> QED
  BY <1>1, <1>2, <1>3, <1>4, <1>5, <1>6, <1>7, <1>8, <1>9 DEF TicketStep, ApiFor, OmsFor

-----------------------------------------------------------------------------
(***************************************************************************)
(* All of it together, and what the runs check of it.                      *)
(***************************************************************************)
FlowInv ==
  /\ OrderInv
  /\ \A u \in Ticket :
       /\ overwrites[u] = 0 => Orderly(u) /\ Vouched(u)
       /\ restarts = 0 => Straight(u)
       /\ restarts = 0 /\ overwrites[u] = 0 => Quiet(u)

\* Every reachable state is in it.
THEOREM FlowInvHolds == Spec => []FlowInv
<1>1. Init /\ OrderInv => FlowInv
  <2> SUFFICES ASSUME Init, OrderInv, NEW u \in Ticket PROVE Orderly(u) /\ Vouched(u) /\ Straight(u) /\ Quiet(u)
    BY DEF FlowInv
  <2>1. /\ row[u] = NoTicket /\ oms[u] = NoTicket /\ ems[u] = NoTicket /\ admitted[u] = 0 /\ sent[u] = 0
    BY DEF Init
  <2>2. Orders(u) = {} /\ Calls(u) = {} /\ \A c \in Client : ~Reads(c, u)
    BY DEF Init, Orders, Calls, Msgs, Reads
  <2>3. /\ ~Exists(NoTicket) /\ ~NoTicket.oms_owner /\ ~NoTicket.ems_owner /\ ~NoTicket.paused
        /\ NoTicket.internal_state \notin Early /\ NoTicket.internal_state \notin Passed
        /\ NoTicket.internal_state \notin Unsure /\ NoTicket.internal_state # "ACCEPTED"
    BY EarlyFacts DEF NoTicket, Exists, Passed, Unsure
  <2>4. ~Held(u) /\ ~Working(u)
    BY <2>1, <2>3 DEF Held, Working
  <2>5. Orderly(u)
    BY <2>1, <2>2, <2>3, <2>4 DEF Orderly
  <2>6. Vouched(u)
    BY <2>1, <2>2, <2>3, <2>4 DEF Vouched
  <2>7. Straight(u)
    BY <2>1, <2>2, <2>3, <2>4 DEF Straight
  <2>8. Quiet(u)
    BY <2>1, <2>4, QuietUnsent DEF OrderInv
  <2> QED
    BY <2>5, <2>6, <2>7, <2>8
<1>2. FlowInv /\ OrderInv' /\ [Next]_vars => FlowInv'
  <2> SUFFICES ASSUME FlowInv, OrderInv', [Next]_vars, NEW u \in Ticket
               PROVE  /\ overwrites'[u] = 0 => Orderly(u)' /\ Vouched(u)'
                      /\ restarts' = 0 => Straight(u)'
                      /\ restarts' = 0 /\ overwrites'[u] = 0 => Quiet(u)'
    BY DEF FlowInv
  <2>1. /\ Shaped /\ DealInv /\ Origin(u) /\ Start(u) /\ SendInv(u) /\ Shaped' /\ Origin(u)'
        /\ overwrites[u] = 0 => Orderly(u) /\ Vouched(u)
        /\ restarts = 0 => Straight(u)
        /\ restarts = 0 /\ overwrites[u] = 0 => Quiet(u)
    BY DEF FlowInv, OrderInv
  <2>2. TicketStep(u)
    BY <2>1, EveryStep
  <2>3. (job[u] # "idle" => Working(u)) /\ booked[u] <= taken[u] + restarts
    BY <2>1 DEF DealInv, Covered
  <2>4. overwrites'[u] = 0 => overwrites[u] = 0 /\ Orderly(u)'
    BY <2>1, <2>2, OrderlyStep
  <2>5. overwrites'[u] = 0 => Vouched(u)'
    BY <2>1, <2>2, <2>3, <2>4, VouchedStep
  <2>6. restarts' = 0 => restarts = 0
    <3>1. restarts \in Nat
      BY <2>1, TicketTyped DEF Shaped
    <3>2. CASE Backend(u)
      BY <3>1, <3>2 DEF Backend, OmsFor, TurnFor, IntakeFor, NoticeFor, OmsSide, EmsFor, TakeFor, WorkFor, EndFor,
         EmsSide, OmsDiedFor, OmsDied, EmsDiedFor
    <3>3. CASE Alone(u)
      BY <3>1, <3>3 DEF Alone
    <3>4. ASSUME NEW c \in Client, NEW tk \in TicketRec, WriteFor(u, c, tk)
          PROVE  restarts' = 0 => restarts = 0
      BY <3>4, <3>1 DEF WriteFor, ApiSide
    <3>5. ReadFor(u) => restarts' = restarts
      BY DEF ReadFor
    <3>6. ASSUME NEW tk \in TicketRec, NewFor(u, tk)
          PROVE  restarts' = 0 => restarts = 0
      BY <3>6, <3>1 DEF NewFor, ApiSide
    <3> QED
      BY <2>2, <3>2, <3>3, <3>4, <3>5, <3>6 DEF TicketStep, Backend, ApiFor
  <2>7. restarts' = 0 => Straight(u)'
    BY <2>1, <2>2, <2>6, StraightStep
  <2>8. restarts' = 0 /\ overwrites'[u] = 0 => Quiet(u)'
    <3> SUFFICES ASSUME restarts' = 0, overwrites'[u] = 0 PROVE Quiet(u)'
      OBVIOUS
    <3>1. restarts = 0 /\ overwrites[u] = 0 /\ Orderly(u) /\ Orderly(u)' /\ Quiet(u)
      BY <2>1, <2>4, <2>6
    <3>2. booked[u] <= taken[u]
      BY <2>1, <2>3, <3>1, TicketTyped DEF Shaped
    <3> QED
      BY <2>1, <2>2, <2>3, <3>1, <3>2, QuietStep
  <2> QED
    BY <2>4, <2>5, <2>7, <2>8
<1> QED
  BY <1>1, <1>2, OrderInvHolds, PTL DEF Spec

\* Who is named as the owner in a row has the ticket, whoever died, unless the
\* executed row was overwritten: Oems!OwnedIsHeld.
THEOREM OwnedIsHeldHolds == Spec => []OwnedIsHeld
<1>1. FlowInv => OwnedIsHeld
  BY DEF FlowInv, Orderly, OwnedIsHeld
<1> QED
  BY <1>1, FlowInvHolds, PTL

\* What the EMS executes somebody has authorised, unless a death and an
\* overwriting come together: Oems!DealsAuthorised.
THEOREM DealsAuthorisedHolds == Spec => []DealsAuthorised
<1>1. FlowInv => DealsAuthorised
  BY DEF FlowInv, OrderInv, DealInv, Covered, Vouched, Straight, DealsAuthorised
<1> QED
  BY <1>1, FlowInvHolds, PTL

\* A ticket is dealt once while nobody dies or overwrites it: Oems!OneDeal.
THEOREM OneDealHolds == Spec => []OneDeal
<1>1. FlowInv => OneDeal
  <2> SUFFICES ASSUME FlowInv, NEW u \in Ticket, restarts = 0, overwrites[u] = 0 PROVE booked[u] <= 1
    BY DEF OneDeal
  <2>1. Shaped /\ SendInv(u) /\ Orderly(u) /\ Quiet(u) /\ booked[u] <= taken[u] + restarts
    BY DEF FlowInv, OrderInv, DealInv, Covered
  <2>2. sent[u] <= 1
    BY <2>1, SentOnce
  <2> QED
    BY <2>1, <2>2, TicketTyped DEF Shaped, Quiet
<1> QED
  BY <1>1, FlowInvHolds, PTL

\* When nothing is on its way to the OMS or the EMS, the OMS's copy is the row:
\* Oems!CopiesAgree.
THEOREM CopiesAgreeHolds == Spec => []CopiesAgree
<1>1. FlowInv => CopiesAgree
  <2> SUFFICES ASSUME FlowInv, NEW u \in Ticket, restarts = 0, overwrites[u] = 0, ~ended[u], AtRest(u), Held(u)
               PROVE  oms[u] = row[u]
    BY DEF CopiesAgree
  <2>1. Quiet(u)
    BY DEF FlowInv
  <2>2. ~Working(u) /\ notes[u] = 0
    BY <2>1 DEF AtRest, Quiet
  <2> QED
    BY <2>1, <2>2 DEF Quiet
<1> QED
  BY <1>1, FlowInvHolds, PTL

-----------------------------------------------------------------------------
\* A step that sends: from the OMS's copy, or with the row the request carries.
LEMMA SendingSteps ==
  ASSUME FlowInv, [Next]_vars, NEW u \in Ticket, sent'[u] > sent[u]
  PROVE  \/ /\ Held(u) /\ MaySend(u) /\ ~oms[u].paused
            /\ oms[u].internal_state \in Chain \cup {"ACCEPTED"}
         \/ \E m \in Orders(u) : TRUE
<1>1. Shaped /\ TicketStep(u) /\ sent[u] \in Nat
  BY EveryStep, TicketTyped DEF FlowInv, OrderInv, Shaped
<1>2. sent'[u] # sent[u]
  BY <1>1
<1>3. ~Alone(u) /\ ~EmsDiedFor(u) /\ ~NoticeFor(u) /\ ~OmsLostFor(u)
  BY <1>2 DEF Alone, EmsDiedFor, NoticeFor, OmsLostFor
<1>4. ~ApiFor(u)
  BY <1>2 DEF ApiFor, NewFor, ReadFor, WriteFor, ApiSide
<1>5. ~EmsFor(u)
  BY <1>2 DEF EmsFor, TakeFor, WorkFor, EndFor, EmsSide
<1>6. ASSUME NEW now \in TicketRec, NEW new \in TicketRec, NEW keep \in BOOLEAN, NEW send \in BOOLEAN,
             TurnFor(u, now, new, keep, send)
      PROVE  Held(u) /\ MaySend(u) /\ ~oms[u].paused /\ oms[u].internal_state \in Chain \cup {"ACCEPTED"}
  <2>1. send
    BY <1>1, <1>6 DEF TurnFor, SendsFor
  <2> QED
    BY <1>6, <2>1, EarlyFacts DEF TurnFor, Moves, MaySend, CanSend
<1>7. ASSUME NEW now \in TicketRec, NEW new \in TicketRec, OmsSentFor(u, now, new)
      PROVE  Held(u) /\ MaySend(u) /\ ~oms[u].paused /\ oms[u].internal_state \in Chain \cup {"ACCEPTED"}
  BY <1>7, EarlyFacts DEF OmsSentFor, HalfMoves, MaySend, CanSend
<1>8. ASSUME NEW m \in Request, NEW now, NEW new,
             OmsTakenFor(u, m, now, new) \/ \E keep, send \in BOOLEAN : IntakeFor(u, m, now, new, keep, send)
      PROVE  m \in Orders(u)
  BY <1>8 DEF OmsTakenFor, IntakeFor, LessOrders
<1> QED
  BY <1>1, <1>3, <1>4, <1>5, <1>6, <1>7, <1>8 DEF TicketStep, OmsFor, OmsDiedFor

\* A ticket whose pause is in the row is not sent, whoever dies: Oems!PauseHolds.
THEOREM PauseHoldsHolds == Spec => PauseHolds
<1>1. FlowInv /\ [Next]_vars => [\A t \in Ticket : sent'[t] > sent[t] /\ overwrites[t] = 0 => ~row[t].paused]_vars
  <2> SUFFICES ASSUME FlowInv, [Next]_vars, NEW u \in Ticket, sent'[u] > sent[u], overwrites[u] = 0
               PROVE  ~row[u].paused
    OBVIOUS
  <2>1. Orderly(u)
    BY DEF FlowInv
  <2>2. CASE Held(u) /\ ~oms[u].paused
    BY <2>1, <2>2 DEF Orderly, Agree
  <2>3. CASE Orders(u) # {}
    BY <2>1, <2>3 DEF Orderly
  <2> QED
    BY <2>2, <2>3, SendingSteps
<1> QED
  BY <1>1, FlowInvHolds, PTL DEF Spec, PauseHolds

\* A ticket that is over is not sent while nobody has died: Oems!OverNotSent.
THEOREM OverNotSentHolds == Spec => OverNotSent
<1>1. FlowInv /\ [Next]_vars =>
        [\A t \in Ticket : sent'[t] > sent[t] /\ overwrites[t] = 0 /\ restarts = 0 =>
           row[t].internal_state \notin OmsTerminal \cup PostTrade]_vars
  <2> SUFFICES ASSUME FlowInv, [Next]_vars, NEW u \in Ticket, sent'[u] > sent[u], overwrites[u] = 0, restarts = 0
               PROVE  row[u].internal_state \notin OmsTerminal \cup PostTrade
    OBVIOUS
  <2>1. Shaped /\ SendInv(u) /\ Orderly(u) /\ Quiet(u)
    BY DEF FlowInv, OrderInv
  <2>2. CASE Held(u) /\ MaySend(u) /\ oms[u].internal_state \in Chain \cup {"ACCEPTED"}
    <3>1. oms[u] = row[u]
      BY <2>1, <2>2, SentOnce DEF Quiet
    <3> QED
      BY <2>2, <3>1 DEF Chain, OmsTerminal, PostTrade, SettlementStates
  <2>3. ASSUME NEW m \in Orders(u)
        PROVE  row[u].internal_state \notin OmsTerminal \cup PostTrade
    <3>1. m.tk = row[u] /\ m.tk.internal_state \in {"NEW", "DRAFT", "ACCEPTED"}
      BY <2>1, RequestFacts DEF Orderly
    <3> QED
      BY <3>1 DEF OmsTerminal, PostTrade, SettlementStates
  <2> QED
    BY <2>2, <2>3, SendingSteps
<1> QED
  BY <1>1, FlowInvHolds, PTL DEF Spec, OverNotSent
=============================================================================

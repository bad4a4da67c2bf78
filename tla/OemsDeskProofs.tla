--------------------------- MODULE OemsDeskProofs ---------------------------
(***************************************************************************)
(* The order path implements the desk that DealDesk describes: proofs of   *)
(* the refinement that OemsDesk states, over the invariant of              *)
(* OemsOrderProofs.  A ticket that was never sent is what the row and the  *)
(* requests for it say, since the OMS's copy is the row; one that was sent *)
(* is with the EMS, or it is over, whatever the row says.                  *)
(* Then, over the same invariant, that a fill is kept.                     *)
(***************************************************************************)
EXTENDS OemsDesk, OemsOrderProofs

\* Nobody has died and no executed row was overwritten.
Unspoilt == restarts = 0 /\ \A t \in Ticket : overwrites[t] = 0

(***************************************************************************)
(* Two facts more than FlowInv has: whoever has read a quoted row read the *)
(* quote that is still in it, since nothing but an execution changes such  *)
(* a row, and an accepted order that was not sent has not been settled.    *)
(***************************************************************************)
ReadsQuote(u) ==
  row[u].action = "rfq" =>
    \A c \in Client : Reads(c, u) => req[c].op = "EXECUTE_RFQ" /\ row[u].internal_state = "RFQ_DONE"

Unsettled(u) ==
  sent[u] = 0 /\ row[u].internal_state = "ACCEPTED" => row[u].phase \in {"PRETRADE", "WORKING"}

DeskInv(u) == ReadsQuote(u) /\ Unsettled(u)

\* What FlowInv says of a ticket of an unspoilt system.
Regular(u) ==
  /\ Shaped /\ Origin(u) /\ Start(u) /\ SendInv(u) /\ Orderly(u) /\ Straight(u) /\ Quiet(u)
  /\ restarts = 0 /\ overwrites[u] = 0 /\ (job[u] # "idle" => Working(u))

\* It is part of the invariant.
LEMMA RegularHolds ==
  ASSUME FlowInv, Unspoilt, NEW u \in Ticket
  PROVE  Regular(u)
<1>1. restarts = 0 /\ overwrites[u] = 0
  BY DEF Unspoilt
<1>2. OrderInv /\ Orderly(u) /\ Straight(u) /\ Quiet(u)
  BY <1>1 DEF FlowInv
<1>3. DealInv /\ Shaped /\ Origin(u) /\ Start(u) /\ SendInv(u)
  BY <1>2 DEF OrderInv
<1>4. job[u] # "idle" => Working(u)
  BY <1>3 DEF DealInv, Covered
<1> QED
  BY <1>1, <1>2, <1>3, <1>4 DEF Regular

\* A ticket before it is sent, ...
LEMMA UnsentFacts ==
  ASSUME NEW u \in Ticket, Regular(u), sent[u] = 0
  PROVE  /\ job[u] = "idle" /\ Calls(u) = {} /\ booked[u] = 0 /\ notes[u] = 0 /\ ~Working(u)
         /\ Held(u) => oms[u] = row[u] /\ row[u].action = "execute" /\ Orders(u) = {} /\ Exists(row[u])
         /\ Orders(u) # {} => ~Held(u) /\ row[u].action = "execute" /\ Exists(row[u])
  BY DEF Regular, Origin, Unsent, Unborn, Unadmitted, Quiet, Orderly, Shaped, Typed, TypeOK, TicketRec, Actions

\* ... and after.
LEMMA SentFacts ==
  ASSUME NEW u \in Ticket, Regular(u), sent[u] # 0
  PROVE  /\ Orders(u) = {} /\ row[u].action = "execute" /\ row[u].phase # "PRETRADE" /\ Exists(row[u])
         /\ Held(u) => oms[u].phase # "PRETRADE"
  BY DEF Regular, Origin, Unadmitted, Unborn, Quiet, Orderly, Agree, Shaped, Typed, TypeOK, TicketRec, Actions

-----------------------------------------------------------------------------
(***************************************************************************)
(* The stage of a ticket.                                                  *)
(***************************************************************************)

\* Where a ticket waits, as OemsOrderProofs counts messages.
LEMMA StagePlaces ==
  ASSUME Shaped, NEW u \in Ticket
  PROVE  /\ AtTheDesk(u) <=> job[u] # "idle" \/ Calls(u) # {}
         /\ Ordered(u) <=> Sendable(oms[u]) \/ Orders(u) # {}
<1>1. apiQ \in Seq(ApiMsg) /\ emsQ \in Seq(EmsMsg)
  BY DEF Shaped, Typed, TypeOK
<1>2. (\E i \in 1..Len(emsQ) : emsQ[i].t = u) <=> Calls(u) # {}
  <2>1. \A i \in 1..Len(emsQ) : emsQ[i] \in EmsMsg
    BY <1>1
  <2> QED
    BY <2>1 DEF Calls, CallsFor, Msgs
<1>3. (\E i \in 1..Len(apiQ) : apiQ[i].t = u /\ apiQ[i].op \in {"CREATE", "EXECUTE_RFQ"}) <=> Orders(u) # {}
  <2>1. \A i \in 1..Len(apiQ) : apiQ[i] \in ApiMsg
    BY <1>1
  <2> QED
    BY <2>1 DEF Orders, OrdersFor, OrderOps, Msgs
<1> QED
  BY <1>2, <1>3 DEF AtTheDesk, Ordered

\* The stage of a ticket that was not sent, and of one that was.
StageIs(u) ==
  Stage(u) =
    IF sent[u] = 0
      THEN IF (Held(u) /\ Sendable(row[u])) \/ Orders(u) # {} THEN "ordered"
           ELSE IF Quoted(u) THEN "quoted" ELSE IF Exists(row[u]) THEN "over" ELSE "none"
      ELSE IF booked[u] > 0 THEN "dealt"
           ELSE IF job[u] # "idle" \/ Calls(u) # {} THEN "sent" ELSE "over"

\* It holds of the ticket now ...
LEMMA StageNow == \A u \in Ticket : Regular(u) => StageIs(u)
<1> SUFFICES ASSUME NEW u \in Ticket, Regular(u) PROVE StageIs(u)
  OBVIOUS
<1>1. CASE sent[u] = 0
  <2>1. ~AtTheDesk(u) /\ booked[u] = 0
    BY <1>1, UnsentFacts, StagePlaces DEF Regular
  <2>2. Ordered(u) <=> (Held(u) /\ Sendable(row[u])) \/ Orders(u) # {}
    BY <1>1, UnsentFacts, StagePlaces DEF Regular, Sendable, Held
  <2> QED
    BY <1>1, <2>1, <2>2 DEF Stage, StageIs
<1>2. CASE sent[u] # 0
  <2>1. ~Ordered(u)
    BY <1>2, SentFacts, StagePlaces DEF Regular, Sendable, Held
  <2>2. ~Quoted(u) /\ Exists(row[u])
    BY <1>2, SentFacts DEF Quoted
  <2> QED
    BY <1>2, <2>1, <2>2, StagePlaces DEF Regular, Stage, StageIs
<1> QED
  BY <1>1, <1>2

\* ... and of the ticket after a step.
LEMMA StageThen == (\A u \in Ticket : Regular(u) => StageIs(u))'
  BY StageNow, PTL

\* What the desk allows with one ticket.
Advances(u) ==
  \/ Stage(u)' = Stage(u) /\ booked'[u] = booked[u]
  \/ Stage(u) = "none" /\ Stage(u)' \in {"quoted", "over"} /\ booked'[u] = booked[u]
  \/ Stage(u) \in {"none", "quoted"} /\ Stage(u)' = "ordered" /\ booked'[u] = booked[u]
  \/ Stage(u) = "ordered" /\ Stage(u)' = "sent" /\ booked'[u] = booked[u]
  \/ Stage(u) \in {"quoted", "ordered", "sent"} /\ Stage(u)' = "over" /\ booked'[u] = booked[u]
  \/ Stage(u) = "sent" /\ Stage(u)' = "dealt" /\ booked'[u] = booked[u] + 1

\* A request that ends with a save ends with that of a quoted ticket.
LEMMA WriteQuoted ==
  ASSUME NEW u \in Ticket, Regular(u), DeskInv(u), overwrites'[u] = 0, NEW c \in Client, NEW tk \in TicketRec,
         WriteFor(u, c, tk)
  PROVE  /\ row[u].action = "rfq" /\ row[u].internal_state = "RFQ_DONE" /\ req[c].op = "EXECUTE_RFQ"
         /\ tk.action = "execute" /\ tk.phase \in Phases
         /\ ~Held(u) /\ Orders(u) = {} /\ sent[u] = 0
<1>1. row[u] \in TicketRec
  BY DEF Regular, Shaped, Typed, TypeOK
<1>2. row[u].action # "execute" /\ row[u].action \in Actions
  BY <1>1 DEF WriteFor, Regular, TicketRec
<1>3. row[u].action = "rfq"
  BY <1>2 DEF Actions
<1>4. row[u].internal_state = "RFQ_DONE" /\ req[c].op = "EXECUTE_RFQ"
  BY <1>3 DEF WriteFor, DeskInv, ReadsQuote
<1>5. ~Held(u) /\ Orders(u) = {} /\ sent[u] = 0
  BY <1>3 DEF Regular, Orderly, Origin, Unadmitted
<1> QED
  BY <1>3, <1>4, <1>5 DEF WriteFor, TicketRec

\* What a turn of the OMS leaves to send.
LEMMA MovesSendable ==
  ASSUME NEW was, NEW now, NEW keep, NEW send, Moves(was, now, keep, send), Exists(was), Exists(now)
  PROVE  Sendable(now) => Sendable(was)
  BY DEF Moves, Sendable, OmsTerminal

\* The two facts hold of every reachable ticket of an unspoilt system.
LEMMA DeskInvStep ==
  ASSUME NEW u \in Ticket, Regular(u), Regular(u)', DeskInv(u), TicketStep(u), "REFRESH" \notin Ops
  PROVE  DeskInv(u)'
<1>0. /\ row[u] \in TicketRec /\ oms[u] \in TicketRec /\ row'[u] \in TicketRec /\ oms'[u] \in TicketRec
      /\ row[u].action \in Actions /\ row'[u].action \in Actions /\ sent[u] \in Nat
  BY DEF Regular, Shaped, Typed, TypeOK, TicketRec
<1>1. CASE Alone(u)
  BY <1>1 DEF Alone, DeskInv, ReadsQuote, Unsettled, StillRead
<1>2. ASSUME NEW tk \in TicketRec, NewFor(u, tk)
      PROVE  DeskInv(u)'
  <2>1. \A c \in Client : ~Reads(c, u)'
    BY <1>2 DEF NewFor, Regular, Origin, Unborn, StillRead
  <2>2. row'[u].internal_state # "ACCEPTED"
    BY <1>2 DEF NewFor
  <2> QED
    BY <2>1, <2>2 DEF DeskInv, ReadsQuote, Unsettled
<1>3. CASE ReadFor(u)
  BY <1>3 DEF ReadFor, ApiSide, DeskInv, ReadsQuote, Unsettled
<1>4. ASSUME NEW c \in Client, NEW tk \in TicketRec, WriteFor(u, c, tk)
      PROVE  DeskInv(u)'
  <2>1. row'[u] = tk /\ tk.action = "execute"
    BY <1>4, WriteQuoted DEF Regular, WriteFor
  <2>2. tk.internal_state = "ACCEPTED" => tk.phase = "PRETRADE"
    BY <1>4 DEF WriteFor
  <2> QED
    BY <2>1, <2>2 DEF DeskInv, ReadsQuote, Unsettled
<1>5. ASSUME NEW now \in TicketRec, NEW new \in TicketRec, NEW keep \in BOOLEAN, NEW send \in BOOLEAN,
             TurnFor(u, now, new, keep, send)
      PROVE  DeskInv(u)'
  <2>1. Held(u) /\ Moves(oms[u], now, keep, send) /\ row'[u] = new /\ Written(oms[u], now, row[u], new)
    BY <1>5 DEF TurnFor
  <2>2. row'[u].action = "execute"
    <3>1. row[u].action = "execute"
      BY <2>1, UnsentFacts, SentFacts
    <3> QED
      BY <2>1, <3>1 DEF Moves, Written, Dirty
  <2>3. ASSUME sent'[u] = 0, row'[u].internal_state = "ACCEPTED"
        PROVE  row'[u].phase \in {"PRETRADE", "WORKING"}
    <3>1. sent[u] = 0
      BY <1>0, <1>5, <2>3 DEF TurnFor, SendsFor
    <3>2. oms[u] = row[u]
      BY <2>1, <3>1, UnsentFacts
    <3>3. new = now
      BY <1>0, <2>1, <3>2, WrittenSame
    <3> QED
      BY <2>1, <2>3, <3>1, <3>2, <3>3 DEF Moves, DeskInv, Unsettled, Settled
  <2> QED
    BY <2>2, <2>3 DEF DeskInv, ReadsQuote, Unsettled
<1>6. ASSUME NEW m \in Request, NEW now \in TicketRec, NEW new \in TicketRec, NEW keep \in BOOLEAN,
             NEW send \in BOOLEAN, IntakeFor(u, m, now, new, keep, send)
      PROVE  DeskInv(u)'
  <2>1. /\ Written(m.tk, now, row[u], new) /\ row'[u] = new /\ m \in Orders(u)
    BY <1>6 DEF IntakeFor, LessOrders
  <2>2. PICK own \in TicketRec :
          own.oms_owner /\ SameBut(m.tk, own) /\ Moves(own, now, keep, send)
    BY <1>6, IntakeFacts DEF Regular
  <2>3. m.tk = row[u] /\ m.tk.action = "execute" /\ m.tk.phase = "PRETRADE"
    BY <2>1, RequestFacts DEF Regular, Orderly
  <2>4. new = now
    BY <1>0, <2>1, <2>3, WrittenSame
  <2>5. now.action = "execute" /\ (now.internal_state = "ACCEPTED" => now.phase \in {"PRETRADE", "WORKING"})
    BY <2>2, <2>3 DEF Moves, SameBut, Settled
  <2> QED
    BY <2>1, <2>4, <2>5 DEF DeskInv, ReadsQuote, Unsettled
<1>7. CASE NoticeFor(u)
  BY <1>7 DEF NoticeFor, StillRead, DeskInv, ReadsQuote, Unsettled
<1>8. CASE EmsFor(u)
  <2>1. EmsSide(u) /\ sent[u] # 0
    BY <1>8, UnsentFacts DEF EmsFor, TakeFor, WorkFor, EndFor, LessCalls
  <2>2. row'[u].action = "execute" /\ sent'[u] # 0
    BY <2>1, SentFacts DEF EmsSide, EmsSaved
  <2> QED
    BY <2>2 DEF DeskInv, ReadsQuote, Unsettled
<1>9. ~OmsDiedFor(u) /\ ~EmsDiedFor(u)
  BY DEF OmsDiedFor, OmsDied, EmsDiedFor, Regular
<1> QED
  BY <1>1, <1>2, <1>3, <1>4, <1>5, <1>6, <1>7, <1>8, <1>9 DEF TicketStep, ApiFor, OmsFor

\* Sending a ticket takes it from the order to the desk.
LEMMA SendAdvances ==
  ASSUME NEW u \in Ticket, Regular(u), Regular(u)', sent[u] = 0, sent'[u] = sent[u] + 1, EmsKept(u),
         NEW call, MoreCalls(u, call), (Held(u) /\ Sendable(row[u])) \/ Orders(u) # {}
  PROVE  Advances(u)
<1>1. Stage(u) = "ordered"
  BY StageNow DEF StageIs
<1>2. booked'[u] = booked[u] /\ booked[u] = 0 /\ Calls(u)' # {} /\ sent'[u] # 0
  BY UnsentFacts DEF EmsKept, MoreCalls
<1>3. Stage(u)' = IF booked'[u] > 0 THEN "dealt"
                  ELSE IF job'[u] # "idle" \/ Calls(u)' # {} THEN "sent" ELSE "over"
  BY <1>2, StageThen DEF StageIs
<1> QED
  BY <1>1, <1>2, <1>3 DEF Advances

\* A turn of the OMS: a ticket that was not sent is sent, stays an order, or is over.
LEMMA TurnAdvances ==
  ASSUME NEW u \in Ticket, Regular(u), Regular(u)', DeskInv(u),
         NEW now \in TicketRec, NEW new \in TicketRec, NEW keep \in BOOLEAN, NEW send \in BOOLEAN,
         TurnFor(u, now, new, keep, send)
  PROVE  Advances(u)
<1>0. row[u] \in TicketRec /\ oms[u] \in TicketRec /\ sent[u] \in Nat /\ booked[u] \in Nat
  BY DEF Regular, Shaped, Typed, TypeOK
<1>1. /\ Held(u) /\ Moves(oms[u], now, keep, send) /\ Exists(now) /\ row'[u] = new
      /\ Written(oms[u], now, row[u], new) /\ oms'[u] = (IF keep THEN now ELSE NoTicket)
      /\ Orders(u)' = Orders(u) /\ EmsKept(u) /\ SendsFor(u, now, send, oms[u].phase)
  BY DEF TurnFor, OmsSide, SameOrders
<1>2. CASE sent[u] = 0
  <2>1. oms[u] = row[u] /\ row[u].action = "execute" /\ Orders(u) = {} /\ Exists(row[u])
    BY <1>1, <1>2, UnsentFacts
  <2>2. new = now
    BY <1>0, <1>1, <2>1, WrittenSame
  <2>3. CASE send
    <3>1. Sendable(row[u])
      BY <1>1, <1>2, <2>1, <2>3, EarlyFacts
         DEF Moves, Sendable, Chain, OmsTerminal, Regular, Straight, DeskInv, Unsettled
    <3>2. sent'[u] = sent[u] + 1 /\ MoreCalls(u, [t |-> u, tk |-> [now EXCEPT !.phase = oms[u].phase]])
      BY <1>1, <2>3 DEF SendsFor
    <3> QED
      BY <1>1, <1>2, <3>1, <3>2, SendAdvances
  <2>4. CASE ~send
    <3>1. sent'[u] = 0 /\ booked'[u] = booked[u]
      BY <1>1, <1>2, <2>4 DEF SendsFor, EmsKept
    <3>2. ~Quoted(u) /\ ~Quoted(u)' /\ Exists(row'[u])
      BY <1>1, <2>1, <2>2 DEF Moves, Quoted
    <3>3. Sendable(row'[u]) => Sendable(row[u])
      BY <1>1, <2>1, <2>2, MovesSendable
    <3>4. Stage(u) = IF Sendable(row[u]) THEN "ordered" ELSE "over"
      BY <1>1, <1>2, <2>1, <3>2, StageNow DEF StageIs
    <3>5. Stage(u)' = IF (Held(u)' /\ Sendable(row'[u])) \/ Orders(u)' # {} THEN "ordered"
                      ELSE IF Quoted(u)' THEN "quoted" ELSE IF Exists(row'[u]) THEN "over" ELSE "none"
      BY <3>1, StageThen DEF StageIs
    <3> QED
      BY <1>1, <2>1, <3>1, <3>2, <3>3, <3>4, <3>5 DEF Advances
  <2> QED
    BY <2>3, <2>4
<1>3. CASE sent[u] # 0
  <2>1. ~send
    <3>1. MaySend(u) => sent[u] = 0
      BY SentOnce DEF Regular
    <3> QED
      BY <1>1, <1>3, <3>1, EarlyFacts DEF Moves, MaySend, CanSend
  <2>2. sent'[u] # 0 /\ Calls(u)' = Calls(u) /\ booked'[u] = booked[u] /\ job'[u] = job[u]
    BY <1>1, <1>3, <2>1 DEF SendsFor, SameCalls, EmsKept
  <2> QED
    BY <1>3, <2>2, StageNow, StageThen DEF StageIs, Advances
<1> QED
  BY <1>2, <1>3

\* The intake of an order, likewise.
LEMMA IntakeAdvances ==
  ASSUME NEW u \in Ticket, Regular(u), Regular(u)', NEW m \in Request,
         NEW now \in TicketRec, NEW new \in TicketRec, NEW keep \in BOOLEAN, NEW send \in BOOLEAN,
         IntakeFor(u, m, now, new, keep, send)
  PROVE  Advances(u)
<1>0. row[u] \in TicketRec /\ sent[u] \in Nat /\ booked[u] \in Nat
  BY DEF Regular, Shaped, Typed, TypeOK
<1>1. /\ Exists(now) /\ row'[u] = new /\ Written(m.tk, now, row[u], new)
      /\ m \in Orders(u) /\ Orders(u)' = {} /\ EmsKept(u) /\ SendsFor(u, now, send, m.tk.phase)
  BY DEF IntakeFor, OmsSide, LessOrders, Regular, Orderly
<1>2. PICK own \in TicketRec : SameBut(m.tk, own) /\ Moves(own, now, keep, send)
  BY IntakeFacts DEF Regular
<1>3. m.tk = row[u] /\ row[u].action = "execute" /\ sent[u] = 0
  BY <1>1, RequestFacts DEF Regular, Orderly, Origin, Unadmitted
<1>4. Stage(u) = "ordered"
  BY <1>1, <1>3, StageNow DEF StageIs
<1>5. CASE send
  <2>1. sent'[u] = sent[u] + 1 /\ MoreCalls(u, [t |-> u, tk |-> [now EXCEPT !.phase = m.tk.phase]])
    BY <1>1, <1>5 DEF SendsFor
  <2> QED
    BY <1>1, <1>3, <2>1, SendAdvances
<1>6. CASE ~send
  <2>1. sent'[u] = 0 /\ booked'[u] = booked[u]
    BY <1>1, <1>3, <1>6 DEF SendsFor, EmsKept
  <2>2. new = now
    BY <1>0, <1>1, <1>3, WrittenSame
  <2>3. ~Quoted(u)' /\ Exists(row'[u])
    BY <1>1, <1>2, <1>3, <2>2 DEF Moves, SameBut, Quoted
  <2>4. Stage(u)' = IF (Held(u)' /\ Sendable(row'[u])) \/ Orders(u)' # {} THEN "ordered"
                    ELSE IF Quoted(u)' THEN "quoted" ELSE IF Exists(row'[u]) THEN "over" ELSE "none"
    BY <2>1, StageThen DEF StageIs
  <2> QED
    BY <1>4, <2>1, <2>3, <2>4 DEF Advances
<1> QED
  BY <1>5, <1>6

\* What touches neither the ticket's row nor its places leaves it at its stage.
Untouched(u) ==
  /\ row'[u] = row[u] /\ oms'[u] = oms[u] /\ job'[u] = job[u] /\ booked'[u] = booked[u] /\ sent'[u] = sent[u]
  /\ Orders(u)' = Orders(u) /\ Calls(u)' = Calls(u)

\* Then nothing has happened to it.
LEMMA UntouchedStays ==
  ASSUME NEW u \in Ticket, Regular(u), Regular(u)', Untouched(u)
  PROVE  Stage(u)' = Stage(u) /\ booked'[u] = booked[u]
<1>1. StageIs(u) /\ StageIs(u)'
  BY StageNow, StageThen
<1> QED
  BY <1>1 DEF Untouched, StageIs, Held, Quoted

\* An API thread makes an order or a quote of nothing, and an order of a quote.
LEMMA ApiAdvances ==
  ASSUME NEW u \in Ticket, Regular(u), Regular(u)', DeskInv(u), ApiFor(u)
  PROVE  Advances(u)
<1>0. StageIs(u) /\ StageIs(u)' /\ booked[u] \in Nat
  BY StageNow, StageThen DEF Regular, Shaped, Typed, TypeOK
<1>1. ASSUME NEW tk \in TicketRec, NewFor(u, tk)
      PROVE  Advances(u)
  <2>1. Orders(u) = {} /\ ~Held(u) /\ sent[u] = 0 /\ ~Exists(row[u])
    BY <1>1 DEF NewFor, Regular, Origin, Unborn, Unadmitted
  <2>2. Stage(u) = "none"
    BY <1>0, <2>1 DEF StageIs, Quoted, Exists
  <2>3. sent'[u] = 0 /\ booked'[u] = booked[u] /\ ~Held(u)' /\ Exists(row'[u])
    BY <1>1, <2>1 DEF NewFor, ApiSide, EmsKept, Held
  <2>4. Stage(u)' \in {"ordered", "quoted", "over"}
    BY <1>0, <2>3 DEF StageIs
  <2> QED
    BY <2>2, <2>3, <2>4 DEF Advances
<1>2. CASE ReadFor(u)
  BY <1>2, UntouchedStays DEF ReadFor, ApiSide, EmsKept, SameOrders, SameCalls, Untouched, Advances
<1>3. ASSUME NEW c \in Client, NEW tk \in TicketRec, WriteFor(u, c, tk)
      PROVE  Advances(u)
  <2>1. /\ row[u].action = "rfq" /\ row[u].internal_state = "RFQ_DONE" /\ tk.action = "execute"
        /\ ~Held(u) /\ Orders(u) = {} /\ sent[u] = 0 /\ req[c].op = "EXECUTE_RFQ"
    BY <1>3, WriteQuoted DEF Regular
  <2>2. Stage(u) = "quoted"
    BY <1>0, <2>1 DEF StageIs, Quoted
  <2>3. sent'[u] = 0 /\ booked'[u] = booked[u] /\ ~Held(u)' /\ row'[u] = tk
    BY <1>3, <2>1 DEF WriteFor, ApiSide, EmsKept, Held
  <2>4. Exists(tk) /\ ~Quoted(u)'
    BY <1>3, <2>1, <2>3 DEF WriteFor, Exists, Quoted
  <2>5. Stage(u)' \in {"ordered", "over"}
    BY <1>0, <2>3, <2>4 DEF StageIs
  <2> QED
    BY <2>2, <2>3, <2>5 DEF Advances
<1> QED
  BY <1>1, <1>2, <1>3 DEF ApiFor

\* The EMS deals what it has, or gives it up.
LEMMA EmsAdvances ==
  ASSUME NEW u \in Ticket, Regular(u), Regular(u)', EmsFor(u)
  PROVE  Advances(u)
<1>0. StageIs(u) /\ StageIs(u)' /\ booked[u] \in Nat
  BY StageNow, StageThen DEF Regular, Shaped, Typed, TypeOK
<1>1. sent[u] # 0 /\ sent'[u] # 0
  BY UnsentFacts DEF EmsFor, TakeFor, WorkFor, EndFor, LessCalls, EmsSide
<1>2. ASSUME NEW m \in Dispatched, TakeFor(u, m)
      PROVE  Advances(u)
  <2>1. Calls(u) # {} /\ job'[u] # "idle" /\ booked'[u] = booked[u]
    BY <1>2 DEF TakeFor, LessCalls
  <2> QED
    BY <1>0, <1>1, <2>1 DEF StageIs, Advances
<1>3. CASE WorkFor(u)
  <2>1. job[u] # "idle" /\ job'[u] # "idle" /\ booked'[u] = booked[u]
    BY <1>3 DEF WorkFor, Regular, Quiet
  <2> QED
    BY <1>0, <1>1, <2>1 DEF StageIs, Advances
<1>4. CASE EndFor(u)
  <2>1. job[u] # "idle" /\ booked[u] = 0 /\ Calls(u) = {}
    BY <1>4 DEF EndFor, Regular, Quiet
  <2>2. job'[u] = "idle" /\ Calls(u)' = {} /\ booked'[u] \in {booked[u], booked[u] + 1}
    BY <1>4, <2>1 DEF EndFor, SameCalls
  <2>3. Stage(u) = "sent"
    BY <1>0, <1>1, <2>1 DEF StageIs
  <2>4. CASE booked'[u] = booked[u]
    BY <1>0, <1>1, <2>1, <2>2, <2>3, <2>4 DEF StageIs, Advances
  <2>5. CASE booked'[u] = booked[u] + 1
    BY <1>0, <1>1, <2>1, <2>2, <2>3, <2>5 DEF StageIs, Advances
  <2> QED
    BY <2>2, <2>4, <2>5
<1> QED
  BY <1>2, <1>3, <1>4 DEF EmsFor

\* No step takes a ticket anywhere else.
LEMMA EveryAdvance ==
  ASSUME NEW u \in Ticket, Regular(u), Regular(u)', DeskInv(u), TicketStep(u)
  PROVE  Advances(u)
<1>1. CASE Alone(u)
  BY <1>1, UntouchedStays DEF Alone, EmsKept, SameOrders, SameCalls, Untouched, Advances
<1>2. CASE ApiFor(u)
  BY <1>2, ApiAdvances
<1>3. CASE OmsFor(u)
  <2>1. CASE NoticeFor(u)
    <3>1. StageIs(u) /\ StageIs(u)'
      BY StageNow, StageThen
    <3>2. sent[u] # 0
      BY <2>1, UnsentFacts DEF NoticeFor
    <3>3. sent'[u] # 0 /\ booked'[u] = booked[u] /\ job'[u] = job[u] /\ Calls(u)' = Calls(u)
      BY <2>1, <3>2 DEF NoticeFor, EmsKept, SameCalls
    <3> QED
      BY <3>1, <3>2, <3>3 DEF StageIs, Advances
  <2> QED
    BY <1>3, <2>1, TurnAdvances, IntakeAdvances DEF OmsFor
<1>4. CASE EmsFor(u)
  BY <1>4, EmsAdvances
<1>5. ~OmsDiedFor(u) /\ ~EmsDiedFor(u)
  BY DEF OmsDiedFor, OmsDied, EmsDiedFor, Regular
<1> QED
  BY <1>1, <1>2, <1>3, <1>4, <1>5 DEF TicketStep

-----------------------------------------------------------------------------
(***************************************************************************)
(* One ticket at a time: a step that is no death leaves all others where   *)
(* they were.                                                              *)
(***************************************************************************)
OthersUntouched(t) == \A u \in Ticket \ {t} : Untouched(u)

\* An API thread serves one ticket at a time, ...
LEMMA ApiAlone ==
  ASSUME Shaped, ApiNext
  PROVE  \E t \in Ticket : OthersUntouched(t)
<1>0. Typed
  BY DEF Shaped
<1>1. ASSUME NEW t \in Ticket, NEW tk \in TicketRec, Created(t, tk)
      PROVE  OthersUntouched(t)
  <2> SUFFICES ASSUME NEW u \in Ticket \ {t} PROVE Untouched(u)
    BY DEF OthersUntouched
  <2> DEFINE m == [t |-> t, op |-> "CREATE", tk |-> tk]
  <2>1. m \in ApiMsg /\ m.t # u
    BY DEF ApiMsg
  <2> HIDE DEF m
  <2>2. SameOrders(u) /\ SameCalls(u)
    BY <1>0, <1>1, <2>1, OrdersAppend, QueueSame DEF Created, Aside, m
  <2>3. row'[u] = row[u]
    BY <1>0, <1>1 DEF Created, Typed, TypeOK
  <2> QED
    BY <1>1, <2>2, <2>3 DEF Created, Aside, Untouched, SameOrders, SameCalls
<1>2. ASSUME NEW t \in Ticket, NEW op \in ControlOps, Asked(t, op)
      PROVE  OthersUntouched(t)
  <2> SUFFICES ASSUME NEW u \in Ticket \ {t} PROVE Untouched(u)
    BY DEF OthersUntouched
  <2> DEFINE m == [t |-> t, op |-> op, tk |-> NoTicket]
  <2>1. m \in ApiMsg /\ m.t # u
    BY NoTicketType DEF ApiMsg
  <2> HIDE DEF m
  <2>2. SameOrders(u) /\ SameCalls(u)
    BY <1>0, <1>2, <2>1, OrdersAppend, QueueSame DEF Asked, Aside, m
  <2> QED
    BY <1>2, <2>2 DEF Asked, Aside, Untouched, SameOrders, SameCalls
<1>3. ASSUME NEW c \in Client, NEW t \in Ticket, NEW op \in {"EXECUTE_RFQ", "REFRESH"}, Took(c, t, op)
      PROVE  OthersUntouched(t)
  BY <1>3, QueueSame DEF Took, Aside, OthersUntouched, Untouched, SameOrders, SameCalls
<1>4. ASSUME NEW c \in Client, NEW tk \in TicketRec, Wrote(c, tk)
      PROVE  req[c].t \in Ticket /\ OthersUntouched(req[c].t)
  <2> DEFINE t == req[c].t
             m == [t |-> t, op |-> "EXECUTE_RFQ", tk |-> tk]
  <2>1. t \in Ticket
    BY <1>0, <1>4, ReqType DEF Wrote, Typed
  <2>2. m \in ApiMsg
    BY <2>1 DEF ApiMsg
  <2> SUFFICES ASSUME NEW u \in Ticket \ {t} PROVE Untouched(u)
    BY <2>1 DEF OthersUntouched
  <2>3. m.t # u
    OBVIOUS
  <2>4. apiQ' = Append(apiQ, m) \/ UNCHANGED apiQ
    BY <1>4 DEF Wrote
  <2> HIDE DEF m
  <2>5. SameOrders(u) /\ SameCalls(u)
    BY <1>0, <1>4, <2>2, <2>3, <2>4, OrdersAppend, QueueSame DEF Wrote, Aside
  <2>6. row'[u] = row[u]
    BY <1>0, <1>4, <2>1 DEF Wrote, Typed, TypeOK
  <2> QED
    BY <1>4, <2>5, <2>6 DEF Wrote, Aside, Untouched, SameOrders, SameCalls
<1>5. ASSUME NEW c \in Client, Dropped(c)
      PROVE  \E t \in Ticket : OthersUntouched(t)
  <2>1. \A u \in Ticket : Untouched(u)
    BY <1>5, QueueSame DEF Dropped, Aside, Untouched, SameOrders, SameCalls
  <2>2. req[c].t \in Ticket
    BY <1>0, <1>5, ReqType DEF Dropped, Typed
  <2> QED
    BY <2>1, <2>2 DEF OthersUntouched
<1> QED
  BY <1>0, <1>1, <1>2, <1>3, <1>4, <1>5, ApiSteps

\* ... so does the OMS, ...
LEMMA OmsAlone ==
  ASSUME Shaped, OmsNext
  PROVE  \E t \in Ticket : OthersUntouched(t)
<1>0. Typed
  BY DEF Shaped
<1>1. ASSUME NEW t \in Ticket, NEW now \in TicketRec, NEW new \in TicketRec, NEW keep \in BOOLEAN,
             NEW send \in BOOLEAN, NEW phase \in Phases, Kept(t, now, keep, send, phase),
             row' = [row EXCEPT ![t] = new], OmsAside,
             \/ UNCHANGED apiQ
             \/ apiQ # <<>> /\ apiQ' = Tail(apiQ) /\ (Head(apiQ).t = t \/ Head(apiQ).op \notin OrderOps)
      PROVE  OthersUntouched(t)
  <2> SUFFICES ASSUME NEW u \in Ticket \ {t} PROVE Untouched(u)
    BY DEF OthersUntouched
  <2>1. oms'[u] = oms[u] /\ SameCalls(u) /\ sent'[u] = sent[u]
    BY <1>0, <1>1, KeptTicket
  <2>2. SameOrders(u)
    BY <1>0, <1>1, OrdersTail, QueueSame
  <2>3. row'[u] = row[u]
    BY <1>0, <1>1 DEF Typed, TypeOK
  <2> QED
    BY <1>1, <2>1, <2>2, <2>3 DEF OmsAside, Untouched, SameOrders, SameCalls
<1>2. ASSUME NEW t \in Ticket, NEW now \in TicketRec, NEW new \in TicketRec, NEW keep \in BOOLEAN,
             NEW send \in BOOLEAN, Turned(t, now, new, keep, send)
      PROVE  OthersUntouched(t)
  <2>1. oms[t].phase \in Phases
    BY <1>0 DEF Typed, TypeOK, TicketRec
  <2> QED
    BY <1>1, <1>2, <2>1 DEF Turned, ControlOps, OrderOps
<1>3. ASSUME NEW t \in Ticket, NEW now \in TicketRec, NEW new \in TicketRec, NEW keep \in BOOLEAN,
             NEW send \in BOOLEAN, TookIn(t, now, new, keep, send)
      PROVE  OthersUntouched(t)
  <2>1. PICK m : m = Head(apiQ)
    OBVIOUS
  <2>2. m.tk \in TicketRec
    BY <1>3, <2>1, AdmittedFacts DEF TookIn
  <2>3. m.tk.phase \in Phases
    BY <2>2 DEF TicketRec
  <2> QED
    BY <1>1, <1>3, <2>1, <2>3 DEF TookIn
<1>4. ASSUME NEW t \in Ticket, Noticed(t)
      PROVE  OthersUntouched(t)
  BY <1>0, <1>4, QueueSame DEF Noticed, Typed, TypeOK, OthersUntouched, Untouched, SameOrders, SameCalls
<1>5. ASSUME Refused
      PROVE  \E t \in Ticket : OthersUntouched(t)
  <2>1. Head(apiQ).t \in Ticket
    <3>1. Head(apiQ) \in ApiMsg
      BY <1>0, <1>5, QueueType DEF Refused, Typed, TypeOK
    <3> QED
      BY <3>1 DEF ApiMsg
  <2>2. \A u \in Ticket : SameOrders(u) /\ SameCalls(u)
    BY <1>0, <1>5, OrdersTail, QueueSame DEF Refused, ControlOps, OrderOps
  <2> QED
    BY <1>5, <2>1, <2>2 DEF Refused, OthersUntouched, Untouched, SameOrders, SameCalls
<1> QED
  BY <1>2, <1>3, <1>4, <1>5, OmsSteps

\* ... and the EMS.
LEMMA EmsAlone ==
  ASSUME DealInv, EmsNext
  PROVE  \E t \in Ticket : OthersUntouched(t)
<1>0. Typed
  BY DEF DealInv
<1>1. ASSUME NEW t \in Ticket, NEW new \in TicketRec, NEW tk, NEW stage, EmsMoved(t, new, tk, stage),
             \A u \in Ticket \ {t} : SameCalls(u) /\ booked'[u] = booked[u]
      PROVE  OthersUntouched(t)
  <2> SUFFICES ASSUME NEW u \in Ticket \ {t} PROVE Untouched(u)
    BY DEF OthersUntouched
  <2>1. EmsSide(u) /\ row'[u] = row[u] /\ job'[u] = job[u]
    BY <1>0, <1>1, EmsWroteTicket
  <2> QED
    BY <1>1, <2>1 DEF EmsSide, Untouched, SameOrders, SameCalls
<1>2. ASSUME NEW t \in Ticket, NEW m \in Dispatched, NEW new \in TicketRec, NEW tk \in TicketRec,
             Takes(t, m, new, tk)
      PROVE  OthersUntouched(t)
  <2>1. \A u \in Ticket \ {t} : SameCalls(u) /\ booked'[u] = booked[u]
    BY <1>0, <1>2, CallsTail DEF Takes
  <2> QED
    BY <1>1, <1>2, <2>1 DEF Takes
<1>3. ASSUME NEW t \in Ticket, NEW new \in TicketRec, NEW tk \in TicketRec, NEW stage \in Jobs,
             Works(t, new, tk, stage)
      PROVE  OthersUntouched(t)
  <2>1. \A u \in Ticket \ {t} : SameCalls(u) /\ booked'[u] = booked[u]
    BY <1>3, QueueSame DEF Works
  <2> QED
    BY <1>1, <1>3, <2>1 DEF Works
<1>4. ASSUME NEW t \in Ticket, NEW new \in TicketRec, Ends(t, new)
      PROVE  OthersUntouched(t)
  <2>1. \A u \in Ticket \ {t} : SameCalls(u) /\ booked'[u] = booked[u]
    BY <1>0, <1>4, QueueSame DEF Ends, Typed, TypeOK
  <2> QED
    BY <1>1, <1>4, <2>1 DEF Ends
<1> QED
  BY <1>2, <1>3, <1>4, EmsSteps

\* So it is for every step.
LEMMA OneAtATime ==
  ASSUME Shaped, DealInv, [Next]_vars, restarts = 0, restarts' = 0
  PROVE  (\A u \in Ticket : Untouched(u)) \/ \E t \in Ticket : OthersUntouched(t)
<1>1. CASE UNCHANGED vars \/ Time
  <2>1. UNCHANGED <<row, apiQ, emsQ, oms, job, sent, booked>>
    BY <1>1 DEF vars, Time, EndTime, QuoteLapse, dbVars, countVars
  <2> QED
    BY <2>1, QueueSame DEF Untouched, SameOrders, SameCalls
<1>2. ~Deaths
  BY DEF Deaths, ApiCrash, OmsCrash, OmsCrashHandling, OmsCrashAdmitting, OmsCrashSending, OmsRestart,
     EmsCrash, EmsCrashTaking, EmsCrashBooked, EmsCrashUnreported, EmsRestart, Die
<1> QED
  BY <1>1, <1>2, ApiAlone, OmsAlone, EmsAlone DEF Next

-----------------------------------------------------------------------------
(***************************************************************************)
(* The refinement.                                                         *)
(***************************************************************************)
stages == [t \in Ticket |-> Stage(t)]

\* In the beginning nothing has been asked for.
LEMMA DeskInit ==
  ASSUME Init, FlowInv, Unspoilt
  PROVE  Desk!Init /\ \A u \in Ticket : DeskInv(u)
<1>1. ASSUME NEW u \in Ticket
      PROVE  Stage(u) = "none" /\ DeskInv(u)
  <2>1. Regular(u)
    BY RegularHolds
  <2>2. row[u] = NoTicket /\ oms[u] = NoTicket /\ sent[u] = 0 /\ Orders(u) = {} /\ \A c \in Client : ~Reads(c, u)
    BY DEF Init, Orders, Msgs, Reads
  <2>3. StageIs(u)
    BY <2>1, StageNow
  <2> QED
    BY <2>2, <2>3 DEF StageIs, Held, Quoted, Exists, NoTicket, DeskInv, ReadsQuote, Unsettled
<1> QED
  BY <1>1 DEF Desk!Init, Init

\* A step of the system is a step of the desk, or none.
LEMMA DeskStep ==
  ASSUME FlowInv, FlowInv', Unspoilt, Unspoilt', [Next]_vars, \A u \in Ticket : Regular(u)',
         \A u \in Ticket : DeskInv(u)
  PROVE  [Desk!Next]_(Desk!deskVars)
<1>1. Shaped /\ DealInv /\ restarts = 0 /\ restarts' = 0 /\ booked \in [Ticket -> Nat] /\ booked' \in [Ticket -> Nat]
  BY DEF FlowInv, OrderInv, Shaped, Typed, TypeOK, Unspoilt
<1>2. \A u \in Ticket : Regular(u)
  BY RegularHolds
<1>3. \A u \in Ticket : Untouched(u) => Stage(u)' = Stage(u) /\ booked'[u] = booked[u]
  BY <1>2, UntouchedStays
<1>4. CASE \A u \in Ticket : Untouched(u)
  <2>1. stages' = stages /\ booked' = booked
    BY <1>1, <1>3, <1>4 DEF stages
  <2> QED
    BY <2>1 DEF stages, Desk!deskVars
<1>5. ASSUME NEW t \in Ticket, OthersUntouched(t)
      PROVE  [Desk!Next]_(Desk!deskVars)
  <2>1. TicketStep(t)
    BY <1>1, EveryStep
  <2>2. Advances(t)
    BY <1>2, <2>1, EveryAdvance
  <2>3. \A u \in Ticket \ {t} : Stage(u)' = Stage(u) /\ booked'[u] = booked[u]
    BY <1>3, <1>5 DEF OthersUntouched
  <2>4. stages' = [stages EXCEPT ![t] = Stage(t)'] /\ booked' = [booked EXCEPT ![t] = booked'[t]]
    BY <1>1, <2>3 DEF stages
  <2>5. stages[t] = Stage(t)
    BY DEF stages
  <2>6. booked'[t] = booked[t] => booked' = booked
    BY <1>1, <2>3
  <2>7. Stage(t)' = Stage(t) => stages' = stages
    BY <1>1, <2>3 DEF stages
  <2>8. ASSUME NEW from, NEW to, Stage(t) \in from, Stage(t)' = to
        PROVE  Desk!Move(t, from, to)
    BY <2>4, <2>5, <2>8 DEF Desk!Move, stages
  <2>9. CASE Stage(t)' = Stage(t) /\ booked'[t] = booked[t]
    BY <2>6, <2>7, <2>9 DEF Desk!deskVars, stages
  <2>10. CASE Stage(t) = "none" /\ Stage(t)' \in {"quoted", "over"} /\ booked'[t] = booked[t]
    BY <2>6, <2>8, <2>10 DEF Desk!Next, Desk!Quote
  <2>11. CASE Stage(t) \in {"none", "quoted"} /\ Stage(t)' = "ordered" /\ booked'[t] = booked[t]
    BY <2>6, <2>8, <2>11 DEF Desk!Next, Desk!Order
  <2>12. CASE Stage(t) = "ordered" /\ Stage(t)' = "sent" /\ booked'[t] = booked[t]
    BY <2>6, <2>8, <2>12 DEF Desk!Next, Desk!Send
  <2>13. CASE Stage(t) \in {"quoted", "ordered", "sent"} /\ Stage(t)' = "over" /\ booked'[t] = booked[t]
    BY <2>6, <2>8, <2>13 DEF Desk!Next, Desk!GiveUp
  <2>14. CASE Stage(t) = "sent" /\ Stage(t)' = "dealt" /\ booked'[t] = booked[t] + 1
    BY <1>1, <2>4, <2>8, <2>14 DEF Desk!Next, Desk!Deal
  <2> QED
    BY <2>2, <2>9, <2>10, <2>11, <2>12, <2>13, <2>14 DEF Advances
<1> QED
  BY <1>1, <1>4, <1>5, OneAtATime

\* The invariants of the next state.
LEMMA RegularThen == (FlowInv /\ Unspoilt => \A u \in Ticket : Regular(u))'
<1>1. FlowInv /\ Unspoilt => \A u \in Ticket : Regular(u)
  BY RegularHolds
<1> QED
  BY <1>1, PTL

\* While nobody dies and no executed row is overwritten, the order path of any
\* number of tickets and API threads does what the desk does: OemsDesk!ImplementsDealDesk.
THEOREM UnspoiltImplementsDealDesk ==
  ASSUME "REFRESH" \notin Ops
  PROVE  Spec /\ []Unspoilt => ImplementsDealDesk
<1> DEFINE Inv == FlowInv /\ Unspoilt /\ \A u \in Ticket : DeskInv(u)
<1>1. Init /\ FlowInv /\ Unspoilt => Inv /\ Desk!Init
  BY DeskInit
<1>2. Inv /\ FlowInv' /\ Unspoilt' /\ [Next]_vars => Inv' /\ [Desk!Next]_(Desk!deskVars)
  <2> SUFFICES ASSUME Inv, FlowInv', Unspoilt', [Next]_vars
               PROVE  (\A u \in Ticket : DeskInv(u)') /\ [Desk!Next]_(Desk!deskVars)
    OBVIOUS
  <2>1. \A u \in Ticket : Regular(u) /\ Regular(u)' /\ TicketStep(u)
    BY RegularHolds, RegularThen, EveryStep DEF FlowInv, OrderInv
  <2>2. \A u \in Ticket : DeskInv(u)'
    BY <2>1, DeskInvStep
  <2> QED
    BY <2>1, <2>2, DeskStep
<1> HIDE DEF Inv
<1> QED
  BY <1>1, <1>2, FlowInvHolds, PTL DEF Spec, ImplementsDealDesk, Desk!Spec

\* With one API thread at most, nobody overwrites an executed row: what the
\* thread has read is a quote, until it writes or forgets it.
LoneReader == \A c \in Client, u \in Ticket : Reads(c, u) => row[u].action = "rfq"

\* It stays so.
LEMMA LoneStep ==
  ASSUME FlowInv, FlowInv', Unspoilt, LoneReader, [Next]_vars, restarts' = 0,
         "REFRESH" \notin Ops, \A c, d \in Client : c = d
  PROVE  Unspoilt' /\ LoneReader'
<1> SUFFICES ASSUME NEW u \in Ticket
             PROVE  overwrites'[u] = 0 /\ \A c \in Client : Reads(c, u)' => row'[u].action = "rfq"
  BY DEF Unspoilt, LoneReader
<1>1. Regular(u) /\ TicketStep(u)
  BY RegularHolds, EveryStep DEF FlowInv, OrderInv
<1>2. (\E c \in Client : Reads(c, u)) => ~Held(u) /\ Orders(u) = {} /\ sent[u] = 0 /\ row[u].action = "rfq"
  BY <1>1 DEF LoneReader, Regular, Orderly, Origin, Unadmitted
<1>3. CASE Alone(u)
  BY <1>1, <1>3 DEF Alone, StillRead, LoneReader, Regular
<1>4. ASSUME NEW tk \in TicketRec, NewFor(u, tk)
      PROVE  overwrites'[u] = 0 /\ \A c \in Client : ~Reads(c, u)'
  BY <1>1, <1>4 DEF NewFor, StillRead, Regular, Origin, Unborn
<1>5. CASE ReadFor(u)
  BY <1>1, <1>5 DEF ReadFor, LoneReader, Regular
<1>6. ASSUME NEW c \in Client, NEW tk \in TicketRec, WriteFor(u, c, tk)
      PROVE  overwrites'[u] = 0 /\ \A d \in Client : ~Reads(d, u)'
  <2>1. Reads(c, u) /\ ~Reads(c, u)' /\ overwrites'[u] = overwrites[u] + (IF row[u].action = "execute" THEN 1 ELSE 0)
    BY <1>6 DEF WriteFor
  <2> QED
    BY <1>1, <1>2, <2>1 DEF Regular
<1>7. CASE OmsFor(u)
  <2>1. overwrites'[u] = overwrites[u] /\ StillRead(u)
    BY <1>7 DEF OmsFor, TurnFor, IntakeFor, NoticeFor, OmsSide
  <2>2. Held(u) \/ Orders(u) # {} \/ row'[u] = row[u]
    BY <1>7 DEF OmsFor, TurnFor, IntakeFor, NoticeFor, LessOrders
  <2> QED
    BY <1>1, <1>2, <2>1, <2>2 DEF StillRead, Regular
<1>8. CASE EmsFor(u)
  <2>1. EmsSide(u)
    BY <1>8 DEF EmsFor, TakeFor, WorkFor, EndFor
  <2> QED
    BY <1>1, <1>2, <2>1 DEF EmsSide, EmsSaved, StillRead, Regular
<1>9. ~OmsDiedFor(u) /\ ~EmsDiedFor(u)
  BY <1>1 DEF OmsDiedFor, OmsDied, EmsDiedFor, Regular
<1> QED
  BY <1>1, <1>3, <1>4, <1>5, <1>6, <1>7, <1>8, <1>9 DEF TicketStep, ApiFor

\* Where no death is allowed, none happens.
LEMMA NobodyDies ==
  ASSUME [Next]_vars, restarts = 0, MaxRestarts = 0
  PROVE  restarts' = 0
<1>1. ~Deaths
  BY DEF Deaths, ApiCrash, OmsCrash, OmsCrashHandling, OmsCrashAdmitting, OmsCrashSending, OmsRestart,
     EmsCrash, EmsCrashTaking, EmsCrashBooked, EmsCrashUnreported, EmsRestart, Die
<1>2. CASE ApiNext
  BY <1>2 DEF ApiNext, CreateExecute, CreateRfq, ReadQuoted, ReadToRefresh, CommitExecute, RefuseExecute,
     CommitRefresh, DropRequest, RequestControl, countVars
<1>3. CASE OmsNext
  BY <1>3 DEF OmsNext, OmsApi, OmsAdmit, OmsCancel, OmsControl, OmsRefuse, OmsReceive, OmsCycle, countVars
<1>4. CASE EmsNext
  BY <1>4 DEF EmsNext, EmsJob, EmsTake, EmsResume, EmsLetGo, EmsUseQuote, EmsQuoteGone, EmsRequote,
     EmsRequoteFails, EmsRefused, EmsFill, EmsAnswerLost, dbVars, countVars
<1>5. CASE UNCHANGED vars \/ Time
  BY <1>5 DEF vars, Time, EndTime, QuoteLapse, countVars
<1> QED
  BY <1>1, <1>2, <1>3, <1>4, <1>5 DEF Next

\* Where no death is allowed, no quote is refreshed and there is one API thread,
\* nobody dies and no executed row is overwritten.
LEMMA LoneThreadUnspoilt ==
  ASSUME "REFRESH" \notin Ops, MaxRestarts = 0, \A c, d \in Client : c = d
  PROVE  Spec => []Unspoilt
<1> DEFINE Inv == FlowInv /\ Unspoilt /\ LoneReader
<1>1. Init /\ FlowInv => Inv
  BY DEF Init, Unspoilt, LoneReader, Reads
<1>2. Inv /\ FlowInv' /\ [Next]_vars => Inv'
  <2> SUFFICES ASSUME Inv, FlowInv', [Next]_vars PROVE Unspoilt' /\ LoneReader'
    OBVIOUS
  <2>1. restarts' = 0
    BY NobodyDies DEF Unspoilt
  <2> QED
    BY <2>1, LoneStep
<1>3. Inv => Unspoilt
  OBVIOUS
<1> HIDE DEF Inv
<1> QED
  BY <1>1, <1>2, <1>3, FlowInvHolds, PTL DEF Spec

\* So where nobody dies, no quote is refreshed and there is one API thread, as in
\* the run that checks it, the order path of any number of tickets implements
\* the desk with no further condition: OemsDesk!ImplementsDealDesk.
THEOREM LoneThreadImplementsDealDesk ==
  ASSUME "REFRESH" \notin Ops, MaxRestarts = 0, \A c, d \in Client : c = d
  PROVE  Spec => ImplementsDealDesk
  BY LoneThreadUnspoilt, UnspoiltImplementsDealDesk, PTL

-----------------------------------------------------------------------------
(***************************************************************************)
(* A fill is kept.  What undoes one is a turn of the OMS on a copy from    *)
(* before it: a cancel, or the end of the ticket's time.  Without these a  *)
(* turn on a copy that was sent changes no state but that of a fill, and   *)
(* the EMS, which has let go of the ticket, writes nothing more.           *)
(***************************************************************************)

\* What a turn does to a copy that is not cancelled and has not ended.
Firm(was, now) ==
  /\ now.internal_state \in PostTrade <=> was.internal_state \in PostTrade
  /\ \/ now.internal_state = was.internal_state
     \/ was.internal_state \in Early \cup PostTrade
     \/ was.internal_state = "ACCEPTED" /\ was.phase # "WORKING"
  /\ now.phase \in Trading \/ now.phase = was.phase \/ now.internal_state \in PostTrade

\* The end of the walk to the EMS, ...
LEMMA DispatchFirm ==
  ASSUME NEW t, NEW tk \in TicketRec, tk.internal_state = "ACCEPTED"
  PROVE  /\ Dispatch(t, tk).tk.internal_state \in {"ACCEPTED", "ERROR"}
         /\ tk.phase = "WORKING" => Dispatch(t, tk).tk.internal_state = "ACCEPTED"
         /\ Dispatch(t, tk).tk.phase \in Trading \/ Dispatch(t, tk).tk.phase = tk.phase
  BY DEF Dispatch, Stay, TicketRec, Trading

\* ... one pass of cycle_ticket ...
LEMMA CycleFirm ==
  ASSUME NEW t, NEW tk \in TicketRec, ~ended[t], NEW o \in Cycle(t, tk)
  PROVE  Firm(tk, o.tk)
<1>0. /\ "ACCEPTED" \notin PostTrade /\ "ERROR" \notin PostTrade /\ Chain \cap PostTrade = {} /\ Chain \subseteq Early
      /\ "PENDAUTH" \notin PostTrade /\ "SCHEDULED" \notin PostTrade /\ "WAITING" \notin PostTrade
      /\ "ACCEPTED" \notin Chain /\ SettlementStates \subseteq PostTrade
      /\ \A s \in {"PENDSETTLE", "PENDBENE", "BOOKING_FAILURE"} : s \in PostTrade
  BY DEF PostTrade, SettlementStates, Chain, Early
<1>1. ~Expired(t, tk)
  BY DEF Expired
<1>2. CASE tk.internal_state \in Chain /\ ~tk.paused
  <2>1. PICK s \in Rests(tk) : o = Advance(t, tk, s)
    BY <1>1, <1>2 DEF Cycle
  <2>2. PICK now : now = [tk EXCEPT !.internal_state = s]
    OBVIOUS
  <2>3. s \in {"PENDAUTH", "SCHEDULED", "WAITING", "ACCEPTED"}
    BY DEF Rests
  <2>4. now \in TicketRec /\ now.internal_state = s /\ now.phase = tk.phase
    BY <2>2, <2>3 DEF TicketRec, InternalStates
  <2>5. CASE s = "ACCEPTED"
    <3>1. o = Dispatch(t, now)
      BY <2>1, <2>2, <2>5 DEF Advance
    <3>2. o.tk.internal_state \in {"ACCEPTED", "ERROR"} /\ (o.tk.phase \in Trading \/ o.tk.phase = tk.phase)
      BY <2>4, <2>5, <3>1, DispatchFirm
    <3>3. o.tk.internal_state \notin PostTrade /\ tk.internal_state \notin PostTrade /\ tk.internal_state \in Early
      BY <1>0, <1>2, <3>2
    <3> QED
      BY <3>2, <3>3 DEF Firm
  <2>6. CASE s # "ACCEPTED"
    <3>1. o = Stay(now)
      BY <2>1, <2>2, <2>6 DEF Advance
    <3>2. o.tk = now
      BY <3>1 DEF Stay
    <3> QED
      BY <1>0, <1>2, <2>3, <2>4, <2>6, <3>2 DEF Firm
  <2> QED
    BY <2>5, <2>6
<1>3. CASE tk.internal_state = "ACCEPTED"
  <2>1. o = Dispatch(t, tk)
    BY <1>0, <1>1, <1>3 DEF Cycle
  <2>2. /\ o.tk.internal_state \in {"ACCEPTED", "ERROR"}
        /\ tk.phase = "WORKING" => o.tk.internal_state = "ACCEPTED"
        /\ o.tk.phase \in Trading \/ o.tk.phase = tk.phase
    BY <1>3, <2>1, DispatchFirm
  <2>3. o.tk.internal_state \notin PostTrade /\ tk.internal_state \notin PostTrade
    BY <1>0, <1>3, <2>2
  <2> QED
    BY <1>3, <2>2, <2>3 DEF Firm
<1>4. CASE tk.internal_state \in SettlementStates
  <2>1. o \in {Settling(tk, s) : s \in {"PENDSETTLE", "PENDBENE", "BOOKING_FAILURE"}}
    BY <1>1, <1>4 DEF Cycle, Chain, SettlementStates
  <2>2. PICK s \in {"PENDSETTLE", "PENDBENE", "BOOKING_FAILURE"} : o = Settling(tk, s)
    BY <2>1
  <2>3. o.tk = [tk EXCEPT !.internal_state = s, !.phase = "SETTLE", !.external_state = "DONE"]
    BY <2>2 DEF Settling, Stay
  <2>4. o.tk.internal_state = s
    BY <2>3 DEF TicketRec
  <2> QED
    BY <1>0, <1>4, <2>4 DEF Firm
<1>5. CASE /\ ~(tk.internal_state \in Chain /\ ~tk.paused) /\ tk.internal_state # "ACCEPTED"
           /\ tk.internal_state \notin SettlementStates
  <2>1. o = Remove(tk) \/ o = Stay(tk)
    BY <1>1, <1>5 DEF Cycle
  <2>2. o.tk = tk \/ \E s : o.tk = [tk EXCEPT !.external_state = s, !.oms_owner = FALSE]
    <3>1. PICK s : s = IF tk.internal_state = "FAILED" THEN "FAILED" ELSE "DONE"
      OBVIOUS
    <3>2. PICK now : now = [tk EXCEPT !.external_state = s, !.oms_owner = FALSE]
      OBVIOUS
    <3>3. o = [tk |-> tk, keep |-> TRUE, send |-> FALSE] \/ o = [tk |-> now, keep |-> FALSE, send |-> FALSE]
      BY <2>1, <3>1, <3>2 DEF Remove, Stay
    <3>4. o.tk = tk \/ o.tk = now
      BY <3>3
    <3> QED
      BY <3>2, <3>4
  <2>3. o.tk.internal_state = tk.internal_state /\ o.tk.phase = tk.phase
    BY <2>2 DEF TicketRec
  <2> QED
    BY <2>3 DEF Firm
<1> QED
  BY <1>2, <1>3, <1>4, <1>5

\* ... and a control request that is no cancel.
LEMMA ControlledFirm ==
  ASSUME NEW op \in ControlOps \ {"CANCEL"}, NEW tk \in TicketRec, Accepts(op, tk)
  PROVE  Firm(tk, Controlled(op, tk))
<1>1. {"DRAFT", "PENDAUTH"} \subseteq Early /\ \A s \in {"DRAFT", "PENDAUTH", "NEW", "PENDFUNDS"} : s \notin PostTrade
  BY DEF Early, Chain, PostTrade, SettlementStates
<1>2. CASE op = "PAUSE" \/ op = "RESUME"
  BY <1>2 DEF Controlled, TicketRec, Firm
<1>3. CASE op = "ACTIVATE"
  BY <1>1, <1>3 DEF Controlled, Accepts, TicketRec, Firm
<1>4. CASE op = "AUTHORIZE"
  BY <1>1, <1>4 DEF Controlled, Accepts, TicketRec, Firm
<1> QED
  BY <1>2, <1>3, <1>4 DEF ControlOps

\* What such a turn, or the intake of an order, leaves of a ticket.
FirmFor(u) ==
  \/ row'[u] = row[u] /\ oms'[u] \in {oms[u], row[u]}
  \/ \E was, now \in TicketRec :
       /\ \/ Held(u) /\ was = oms[u]
          \/ \E m \in Orders(u) : was.internal_state = m.tk.internal_state /\ was.phase = m.tk.phase
       /\ Firm(was, now)
       /\ row'[u].internal_state = Dirty(was.internal_state, now.internal_state, row[u].internal_state)
       /\ row'[u].phase = Dirty(was.phase, now.phase, row[u].phase)
       /\ oms'[u] \in {now, NoTicket}

\* A pass that is committed.
LEMMA CommitFirm ==
  ASSUME Typed, NEW t \in Ticket, NEW r \in TicketRec, NEW was \in TicketRec, NEW o, o.tk \in TicketRec,
         Commit(t, r, was, o), Firm(was, o.tk), NEW u \in Ticket,
         r.internal_state = row[t].internal_state, r.phase = row[t].phase,
         \/ Held(t) /\ was = oms[t]
         \/ \E m \in Orders(t) : was.internal_state = m.tk.internal_state /\ was.phase = m.tk.phase
  PROVE  FirmFor(u)
<1>1. row \in [Ticket -> TicketRec] /\ oms \in [Ticket -> TicketRec]
  BY DEF Typed, TypeOK
<1>2. CASE u # t
  <2>1. row'[u] = row[u] /\ oms'[u] = oms[u]
    BY <1>1, <1>2 DEF Commit
  <2> QED
    BY <2>1 DEF FirmFor
<1>3. CASE u = t
  <2>1. row'[u] = Saved(was, o.tk, r) /\ oms'[u] \in {o.tk, NoTicket}
    BY <1>1, <1>3 DEF Commit
  <2>2. /\ row'[u].internal_state = Dirty(was.internal_state, o.tk.internal_state, row[u].internal_state)
        /\ row'[u].phase = Dirty(was.phase, o.tk.phase, row[u].phase)
    BY <1>3, <2>1 DEF Saved
  <2> QED
    BY <1>3, <2>1, <2>2 DEF FirmFor
<1> QED
  BY <1>2, <1>3

\* Nobody has asked for a cancel, and no ticket has ended.
Unhurried == (\A m \in Msgs(apiQ) : m.op # "CANCEL") /\ \A t \in Ticket : ~ended[t]

\* Each step of the OMS is such a turn.
LEMMA OmsFirm ==
  ASSUME Shaped, OmsNext, Unhurried, NEW u \in Ticket
  PROVE  FirmFor(u)
<1>0. Typed /\ row \in [Ticket -> TicketRec] /\ oms \in [Ticket -> TicketRec] /\ apiQ \in Seq(Request)
  BY DEF Shaped, Typed, TypeOK
<1>1. ASSUME NEW t \in Ticket, OmsReceive(t)
      PROVE  FirmFor(u)
  BY <1>0, <1>1 DEF OmsReceive, FirmFor
<1>2. CASE OmsRefuse
  BY <1>2 DEF OmsRefuse, FirmFor
<1>3. ASSUME NEW t \in Ticket, OmsCycle(t)
      PROVE  FirmFor(u)
  <2>1. PICK o \in Cycle(t, oms[t]) : Commit(t, row[t], oms[t], o)
    BY <1>3 DEF OmsCycle
  <2>2. oms[t] \in TicketRec /\ row[t] \in TicketRec /\ ~ended[t] /\ Held(t)
    BY <1>0, <1>3 DEF OmsCycle, Unhurried
  <2>3. o.tk \in TicketRec
    BY <2>2, CycleType
  <2> QED
    BY <1>0, <2>1, <2>2, <2>3, CycleFirm, CommitFirm
<1>4. ASSUME NEW op \in ControlOps \ {"CANCEL"}, OmsControl(op)
      PROVE  FirmFor(u)
  <2>1. PICK t : t = Head(apiQ).t
    OBVIOUS
  <2>2. t \in Ticket
    BY <1>0, <1>4, <2>1, ApiHeadType DEF OmsControl, Next1
  <2>3. oms[t] \in TicketRec /\ row[t] \in TicketRec /\ Held(t) /\ Accepts(op, oms[t])
    BY <1>0, <1>4, <2>1, <2>2 DEF OmsControl
  <2>4. PICK now : now = Controlled(op, oms[t])
    OBVIOUS
  <2>5. now \in TicketRec /\ Firm(oms[t], now)
    BY <2>3, <2>4, ControlledType, ControlledFirm
  <2>6. PICK o : o = Stay(now)
    OBVIOUS
  <2>7. o.tk = now
    BY <2>6 DEF Stay
  <2>8. Commit(t, row[t], oms[t], o)
    BY <1>4, <2>1, <2>4, <2>6 DEF OmsControl
  <2> QED
    BY <1>0, <2>2, <2>3, <2>5, <2>7, <2>8, CommitFirm
<1>5. CASE OmsAdmit
  <2>1. PICK m : m = Head(apiQ)
    OBVIOUS
  <2>2. apiQ # <<>> /\ m.op \in OrderOps
    BY <1>5, <2>1 DEF OmsAdmit, Next1, OrderOps
  <2>3. /\ m \in Request /\ m.t \in Ticket /\ m.tk \in TicketRec /\ Admitted(m) = Own(m.tk)
        /\ Own(m.tk) \in TicketRec
    BY <2>1, <2>2, AdmittedFacts
  <2>4. PICK own : own = Own(m.tk)
    OBVIOUS
  <2>5. own.internal_state = m.tk.internal_state /\ own.phase = m.tk.phase /\ own \in TicketRec
    BY <2>3, <2>4, OwnFacts
  <2>6. PICK r : r = AdmittedRow(m)
    OBVIOUS
  <2>7. PICK o \in Cycle(m.t, own) : Commit(m.t, r, own, o)
    BY <1>5, <2>1, <2>3, <2>4, <2>6 DEF OmsAdmit
  <2>8. PICK r1 : r1 = Saved(m.tk, own, row[m.t])
    OBVIOUS
  <2>9. /\ r1 \in TicketRec /\ r1.internal_state = row[m.t].internal_state /\ r1.phase = row[m.t].phase
    <3>1. r1 \in TicketRec
      BY <1>0, <2>3, <2>5, <2>8, SavedType
    <3> QED
      BY <2>5, <2>8, <3>1 DEF Saved, Dirty
  <2>10. r = [r1 EXCEPT !.oms_owner = TRUE]
    BY <2>3, <2>4, <2>6, <2>8 DEF AdmittedRow
  <2>11. r \in TicketRec /\ r.internal_state = row[m.t].internal_state /\ r.phase = row[m.t].phase
    BY <2>9, <2>10 DEF TicketRec
  <2>12. m \in Orders(m.t)
    <3>1. m \in Msgs(apiQ)
      BY <1>0, <2>1, <2>2, MsgsType
    <3> QED
      BY <2>2, <2>3, <3>1 DEF Orders, OrdersFor, Request
  <2>13. o.tk \in TicketRec /\ Firm(own, o.tk)
    BY <2>3, <2>5, <2>7, CycleType, CycleFirm DEF Unhurried
  <2> QED
    BY <1>0, <2>3, <2>5, <2>7, <2>11, <2>12, <2>13, CommitFirm
<1>6. ~OmsCancel
  <2>1. ASSUME OmsCancel PROVE FALSE
    <3>1. apiQ # <<>> /\ Head(apiQ).op = "CANCEL"
      BY <2>1 DEF OmsCancel, Next1
    <3>2. Head(apiQ) \in Msgs(apiQ)
      BY <1>0, <3>1, MsgsType
    <3> QED
      BY <3>1, <3>2 DEF Unhurried
  <2> QED
    BY <2>1
<1> QED
  BY <1>1, <1>2, <1>3, <1>4, <1>5, <1>6 DEF OmsNext, OmsApi

\* While the EMS has a ticket it writes no fill.
LEMMA EmsUnfilled ==
  ASSUME Typed, EmsNext, NEW u \in Ticket, Working(u)'
  PROVE  row'[u].internal_state \in {row[u].internal_state, "EXPIRED", "RFQ_DONE"}
<1>0. /\ row \in [Ticket -> TicketRec] /\ ems \in [Ticket -> TicketRec] /\ job \in [Ticket -> Jobs]
      /\ row[u] \in TicketRec /\ emsQ \in Seq(Dispatched)
  BY DEF Typed, TypeOK
<1>1. ASSUME NEW t \in Ticket, NEW tk \in TicketRec, NEW r \in TicketRec, NEW n, StartJob(t, tk, r, n),
             r.internal_state = row[t].internal_state
      PROVE  row'[u].internal_state \in {row[u].internal_state, "EXPIRED"}
  <2>1. PICK now : now = AfterExpiry(t, tk)
    OBVIOUS
  <2>2. now.internal_state \in {tk.internal_state, "EXPIRED"}
    BY <1>1, <2>1 DEF AfterExpiry, TicketRec
  <2>3. PICK new : new = Saved(tk, now, r)
    OBVIOUS
  <2>4. new.internal_state \in {r.internal_state, "EXPIRED"}
    BY <2>2, <2>3 DEF Saved, Dirty
  <2>5. row' = [row EXCEPT ![t] = new]
    BY <1>1, <2>1, <2>3 DEF StartJob
  <2> QED
    BY <1>0, <1>1, <2>4, <2>5
<1>2. CASE EmsTake
  <2>1. PICK m : m = Head(emsQ)
    OBVIOUS
  <2>2. m \in Dispatched /\ m.t \in Ticket /\ m.tk \in TicketRec
    <3>1. m \in Dispatched
      BY <1>0, <1>2, <2>1, QueueType DEF EmsTake
    <3> QED
      BY <3>1 DEF Dispatched
  <2>3. PICK tk : tk = [m.tk EXCEPT !.ems_owner = TRUE]
    OBVIOUS
  <2>4. tk \in TicketRec /\ tk.internal_state = m.tk.internal_state
    BY <2>2, <2>3 DEF TicketRec
  <2>5. PICK r : r = Saved(m.tk, tk, row[m.t])
    OBVIOUS
  <2>6. r \in TicketRec
    BY <1>0, <2>2, <2>4, <2>5, SavedType
  <2>7. r.internal_state = row[m.t].internal_state
    BY <2>4, <2>5 DEF Saved, Dirty
  <2>8. StartJob(m.t, tk, r, Notify(m.t, tk, notes))
    BY <1>2, <2>1, <2>3, <2>5 DEF EmsTake
  <2> QED
    BY <1>1, <2>2, <2>4, <2>6, <2>7, <2>8
<1>3. ASSUME NEW t \in Ticket, EmsResume(t)
      PROVE  row'[u].internal_state \in {row[u].internal_state, "EXPIRED"}
  BY <1>0, <1>1, <1>3 DEF EmsResume
<1>4. ASSUME NEW t \in Ticket, EmsRequote(t)
      PROVE  row'[u].internal_state \in {row[u].internal_state, "RFQ_DONE"}
  <2>1. PICK tk : tk = [ems[t] EXCEPT !.internal_state = "RFQ_DONE", !.quote_id = TRUE]
    OBVIOUS
  <2>2. tk.internal_state = "RFQ_DONE"
    BY <1>0, <2>1 DEF TicketRec
  <2>3. PICK new : new = Saved(ems[t], tk, row[t])
    OBVIOUS
  <2>4. new.internal_state \in {row[t].internal_state, "RFQ_DONE"}
    BY <2>2, <2>3 DEF Saved, Dirty
  <2>5. row' = [row EXCEPT ![t] = new]
    BY <1>4, <2>1, <2>3 DEF EmsRequote
  <2> QED
    BY <1>0, <2>4, <2>5
<1>5. ASSUME NEW t \in Ticket, EmsUseQuote(t)
      PROVE  row'[u] = row[u]
  BY <1>5 DEF EmsUseQuote, dbVars
<1>6. ASSUME NEW t \in Ticket, NEW state, Finish(t, state)
      PROVE  row'[u] = row[u]
  <2>1. u # t
    BY <1>0, <1>6 DEF Finish, Working, Exists, NoTicket
  <2> QED
    BY <1>0, <1>6, <2>1 DEF Finish, Release
<1>7. ASSUME NEW t \in Ticket, Fail(t)
      PROVE  row'[u] = row[u]
  <2>1. CASE Finish(t, "FAILED")
    BY <1>6, <2>1
  <2>2. CASE row' = [row EXCEPT ![t].internal_state = "FAILED"] /\ ems' = [ems EXCEPT ![t] = NoTicket]
    <3>1. u # t
      BY <1>0, <2>2 DEF Working, Exists, NoTicket
    <3> QED
      BY <1>0, <2>2, <3>1
  <2> QED
    BY <1>7, <2>1, <2>2 DEF Fail
<1>8. ASSUME NEW t \in Ticket,
             \/ EmsLetGo(t) \/ EmsQuoteGone(t) \/ EmsRequoteFails(t)
             \/ EmsRefused(t) \/ EmsFill(t) \/ EmsAnswerLost(t)
      PROVE  row'[u] = row[u]
  BY <1>6, <1>7, <1>8 DEF EmsLetGo, EmsQuoteGone, EmsRequoteFails, EmsRefused, EmsFill, EmsAnswerLost
<1>9. PICK t \in Ticket : EmsTake \/ EmsResume(t) \/ EmsLetGo(t) \/ EmsJob(t)
  BY DEF EmsNext
<1> QED
  BY <1>2, <1>3, <1>4, <1>5, <1>8, <1>9 DEF EmsJob

\* Once the deal is in the row the EMS has let go of the ticket; the OMS's copy shows
\* a fill, or a settlement, only if the row does; and a ticket is in a phase after
\* trading only once it is filled.
FillInv(u) ==
  /\ Working(u) => taken[u] # 0
  /\ row[u].internal_state \in PostTrade => taken[u] # 0 /\ ~Working(u)
  /\ oms[u].internal_state \in PostTrade => row[u].internal_state \in PostTrade
  /\ row[u].phase \notin Trading => row[u].internal_state \in PostTrade
  /\ oms[u].phase \notin Trading => oms[u].internal_state \in PostTrade
  /\ \A c \in Client : Reads(c, u) => req[c].tk.phase \in Trading

KeepsFill(u) == row[u].internal_state \in PostTrade => row'[u].internal_state \in PostTrade

\* What is no fill.
LEMMA NoFill ==
  /\ \A s \in {"NONE", "NEW", "DRAFT", "ACCEPTED", "RFQ_DONE", "FAILED", "EXPIRED", "CANCELED"} : s \notin PostTrade
  /\ "PRETRADE" \in Trading /\ "WORKING" \in Trading
  /\ NoTicket.internal_state = "NONE" /\ NoTicket.phase = "PRETRADE"
  BY DEF PostTrade, SettlementStates, Trading, NoTicket

\* A turn of the OMS keeps a fill, since the copy it is on was sent.
LEMMA TurnKeepsFill ==
  ASSUME NEW u \in Ticket, Regular(u), FillInv(u), FirmFor(u), EmsKept(u), StillRead(u)
  PROVE  FillInv(u)' /\ KeepsFill(u)
<1>1. CASE row'[u] = row[u] /\ oms'[u] \in {oms[u], row[u]}
  BY <1>1 DEF FillInv, KeepsFill, EmsKept, StillRead, Working
<1>2. ASSUME NEW was \in TicketRec, NEW now \in TicketRec,
             \/ Held(u) /\ was = oms[u]
             \/ \E m \in Orders(u) : was.internal_state = m.tk.internal_state /\ was.phase = m.tk.phase,
             Firm(was, now),
             row'[u].internal_state = Dirty(was.internal_state, now.internal_state, row[u].internal_state),
             row'[u].phase = Dirty(was.phase, now.phase, row[u].phase),
             oms'[u] \in {now, NoTicket}
      PROVE  FillInv(u)' /\ KeepsFill(u)
  <2>1. was.internal_state \in PostTrade => row[u].internal_state \in PostTrade
    <3>1. CASE Held(u) /\ was = oms[u]
      BY <3>1 DEF FillInv
    <3>2. CASE \E m \in Orders(u) : was.internal_state = m.tk.internal_state /\ was.phase = m.tk.phase
      <4>1. PICK m \in Orders(u) : was.internal_state = m.tk.internal_state
        BY <3>2
      <4>2. m.tk = row[u]
        BY DEF Regular, Orderly
      <4> QED
        BY <4>1, <4>2
    <3> QED
      BY <1>2, <3>1, <3>2
  <2>2. was.phase \notin Trading => was.internal_state \in PostTrade
    <3>1. CASE Held(u) /\ was = oms[u]
      BY <3>1 DEF FillInv
    <3>2. CASE \E m \in Orders(u) : was.internal_state = m.tk.internal_state /\ was.phase = m.tk.phase
      BY <3>2, RequestFacts, NoFill DEF Regular
    <3> QED
      BY <1>2, <3>1, <3>2
  <2>3. ASSUME row[u].internal_state \in PostTrade, was.internal_state \notin PostTrade
        PROVE  now.internal_state = was.internal_state
    <3>1. sent[u] # 0
      BY <2>3 DEF FillInv, Regular, Origin, Unsent
    <3>2. Orders(u) = {}
      BY <3>1, SentFacts
    <3>3. Held(u) /\ was = oms[u]
      BY <1>2, <3>2
    <3>4. was.phase # "PRETRADE" /\ was.internal_state \notin Early
      BY <3>1, <3>3, SentFacts DEF Regular, Straight
    <3>5. was.phase = "WORKING"
      BY <2>2, <2>3, <3>4 DEF Trading
    <3> QED
      BY <1>2, <2>3, <3>4, <3>5 DEF Firm
  <2>4. KeepsFill(u)
    BY <1>2, <2>3 DEF KeepsFill, Firm, Dirty
  <2>5. row'[u].internal_state \in PostTrade => row[u].internal_state \in PostTrade
    BY <1>2, <2>1 DEF Firm, Dirty
  <2>6. oms'[u].internal_state \in PostTrade => row'[u].internal_state \in PostTrade
    BY <1>2, <2>1, <2>4, NoFill DEF Firm, KeepsFill
  <2>7. oms'[u].phase \notin Trading => oms'[u].internal_state \in PostTrade
    BY <1>2, <2>2, NoFill DEF Firm
  <2>8. row'[u].phase \notin Trading => row'[u].internal_state \in PostTrade
    <3>1. ASSUME row'[u].phase \notin Trading PROVE row[u].internal_state \in PostTrade
      <4>1. CASE now.phase = was.phase
        BY <1>2, <3>1, <4>1 DEF Dirty, FillInv
      <4>2. CASE now.phase # was.phase
        BY <1>2, <2>1, <3>1, <4>2 DEF Dirty, Firm
      <4> QED
        BY <4>1, <4>2
    <3> QED
      BY <2>4, <3>1 DEF KeepsFill
  <2>9. Working(u)' = Working(u) /\ taken'[u] = taken[u]
    BY DEF EmsKept, Working
  <2> QED
    BY <2>4, <2>5, <2>6, <2>7, <2>8, <2>9 DEF FillInv, StillRead
<1> QED
  BY <1>1, <1>2 DEF FirmFor

\* So does whatever an API thread does: what it writes over is a quote.
LEMMA ApiKeepsFill ==
  ASSUME NEW u \in Ticket, Regular(u), DeskInv(u), FillInv(u), overwrites'[u] = 0, ApiFor(u), "REFRESH" \notin Ops
  PROVE  FillInv(u)' /\ KeepsFill(u)
<1>1. ASSUME NEW tk \in TicketRec, NewFor(u, tk)
      PROVE  FillInv(u)' /\ KeepsFill(u)
  <2>1. row[u].internal_state \notin PostTrade /\ row'[u] = tk
    BY <1>1, NoFill DEF NewFor, Exists
  <2>2. tk.internal_state \notin PostTrade /\ tk.phase \in Trading
    BY <1>1, NoFill DEF NewFor
  <2>3. oms'[u] = oms[u] /\ Working(u)' = Working(u) /\ taken'[u] = taken[u] /\ StillRead(u)
    BY <1>1 DEF NewFor, ApiSide, EmsKept, Working
  <2> QED
    BY <2>1, <2>2, <2>3 DEF FillInv, KeepsFill, StillRead
<1>2. CASE ReadFor(u)
  <2>1. row'[u] = row[u] /\ oms'[u] = oms[u] /\ Working(u)' = Working(u) /\ taken'[u] = taken[u]
    BY <1>2 DEF ReadFor, ApiSide, EmsKept, Working
  <2>2. ASSUME NEW c \in Client, Reads(c, u)'
        PROVE  req'[c].tk.phase \in Trading
    BY <1>2, <2>2, NoFill DEF ReadFor, FillInv
  <2> QED
    BY <2>1, <2>2 DEF FillInv, KeepsFill
<1>3. ASSUME NEW c \in Client, NEW tk \in TicketRec, WriteFor(u, c, tk)
      PROVE  FillInv(u)' /\ KeepsFill(u)
  <2>1. row[u].internal_state \notin PostTrade /\ row'[u] = tk /\ req[c].op = "EXECUTE_RFQ" /\ Reads(c, u)
    BY <1>3, WriteQuoted, NoFill DEF WriteFor
  <2>2. tk.internal_state \notin PostTrade
    BY <1>3, NoFill DEF WriteFor
  <2>3. oms'[u] = oms[u] /\ Working(u)' = Working(u) /\ taken'[u] = taken[u] /\ StillRead(u)
    BY <1>3 DEF WriteFor, ApiSide, EmsKept, Working
  <2>4. tk.phase \in Trading
    BY <1>3, <2>1, NoFill DEF WriteFor, FillInv
  <2> QED
    BY <2>1, <2>2, <2>3, <2>4 DEF FillInv, KeepsFill, StillRead
<1> QED
  BY <1>1, <1>2, <1>3 DEF ApiFor

\* And the EMS, which works on what is not filled, and fills what it lets go.
LEMMA EmsKeepsFill ==
  ASSUME NEW u \in Ticket, Regular(u), FillInv(u), EmsFor(u),
         Working(u)' => row'[u].internal_state \in {row[u].internal_state, "EXPIRED", "RFQ_DONE"}
  PROVE  FillInv(u)' /\ KeepsFill(u)
<1>1. row'[u].phase = row[u].phase /\ oms'[u] = oms[u] /\ StillRead(u)
  BY DEF EmsFor, TakeFor, WorkFor, EndFor, EmsSide, EmsSaved
<1>2. taken[u] \in Nat
  BY DEF Regular, Shaped, Typed, TypeOK
<1>3. ASSUME NEW m \in Dispatched, TakeFor(u, m)
      PROVE  taken[u] = 0 /\ taken'[u] = 1
  <2>1. Calls(u) # {} /\ taken'[u] = taken[u] + 1
    BY <1>3 DEF TakeFor, LessCalls
  <2> QED
    BY <1>2, <2>1 DEF Regular, Quiet
<1>4. CASE WorkFor(u) \/ EndFor(u)
  <2>1. Working(u) /\ taken'[u] = taken[u]
    BY <1>4 DEF WorkFor, EndFor
  <2> QED
    BY <1>1, <2>1, NoFill DEF FillInv, KeepsFill, StillRead
<1>5. ASSUME NEW m \in Dispatched, TakeFor(u, m)
      PROVE  FillInv(u)' /\ KeepsFill(u)
  <2>1. Working(u)' /\ taken[u] = 0 /\ taken'[u] = 1
    BY <1>3, <1>5 DEF TakeFor, Working
  <2> QED
    BY <1>1, <2>1, NoFill DEF FillInv, KeepsFill, StillRead
<1> QED
  BY <1>4, <1>5 DEF EmsFor

\* Where clients cancel nothing and tickets have no end time, it stays so.
LEMMA UnhurriedStep ==
  ASSUME Shaped, Unhurried, [Next]_vars, restarts = 0, restarts' = 0, "CANCEL" \notin Ops, Dated = {}
  PROVE  Unhurried'
<1>0. apiQ \in Seq(Request)
  BY DEF Shaped
<1>1. ASSUME NEW m, m.op # "CANCEL", apiQ' = Append(apiQ, m)
      PROVE  \A k \in Msgs(apiQ)' : k.op # "CANCEL"
  <2>1. apiQ \in Seq(Request \cup {m})
    BY <1>0
  <2>2. Msgs(Append(apiQ, m)) = Msgs(apiQ) \cup {m}
    BY <2>1, MsgsAppend
  <2>3. Msgs(apiQ)' = Msgs(Append(apiQ, m))
    BY <1>1 DEF Msgs
  <2> QED
    BY <1>1, <2>2, <2>3 DEF Unhurried
<1>2. ASSUME apiQ # <<>>, apiQ' = Tail(apiQ)
      PROVE  \A k \in Msgs(apiQ)' : k.op # "CANCEL"
  <2>1. Msgs(Tail(apiQ)) \subseteq Msgs(apiQ)
    BY <1>0, <1>2, MsgsTail
  <2>2. Msgs(apiQ)' = Msgs(Tail(apiQ))
    BY <1>2 DEF Msgs
  <2> QED
    BY <2>1, <2>2 DEF Unhurried
<1>3. ASSUME UNCHANGED <<apiQ, ended>>
      PROVE  Unhurried'
  BY <1>3 DEF Unhurried, Msgs
<1>4. ~Deaths
  BY DEF Deaths, ApiCrash, OmsCrash, OmsCrashHandling, OmsCrashAdmitting, OmsCrashSending, OmsRestart,
     EmsCrash, EmsCrashTaking, EmsCrashBooked, EmsCrashUnreported, EmsRestart, Die
<1>5. CASE ApiNext
  <2>1. ended' = ended
    BY <1>5 DEF ApiNext, CreateExecute, CreateRfq, ReadQuoted, ReadToRefresh, CommitExecute, RefuseExecute,
       CommitRefresh, DropRequest, RequestControl, envVars
  <2>2. ASSUME NEW t \in Ticket, CreateExecute(t)
        PROVE  Unhurried'
    <3>1. PICK tk : apiQ' = Append(apiQ, [t |-> t, op |-> "CREATE", tk |-> tk])
      BY <2>2 DEF CreateExecute
    <3> QED
      BY <1>1, <2>1, <3>1 DEF Unhurried
  <2>3. ASSUME NEW c \in Client, CommitExecute(c)
        PROVE  Unhurried'
    <3>1. apiQ' = Append(apiQ, [t |-> req[c].t, op |-> "EXECUTE_RFQ", tk |-> Execution(c)])
      BY <2>3 DEF CommitExecute
    <3> QED
      BY <1>1, <2>1, <3>1 DEF Unhurried
  <2>4. ASSUME NEW t \in Ticket, NEW op \in Ops \cap ControlOps, RequestControl(t, op)
        PROVE  Unhurried'
    <3>1. apiQ' = Append(apiQ, [t |-> t, op |-> op, tk |-> NoTicket]) /\ op # "CANCEL"
      BY <2>4 DEF RequestControl
    <3> QED
      BY <1>1, <2>1, <3>1 DEF Unhurried
  <2>5. ASSUME NEW c \in Client, NEW t \in Ticket,
               ReadQuoted(c, t) \/ ReadToRefresh(c, t)
        PROVE  Unhurried'
    BY <1>3, <2>1, <2>5 DEF ReadQuoted, ReadToRefresh, dbVars
  <2>6. ASSUME NEW t \in Ticket, CreateRfq(t)
        PROVE  Unhurried'
    BY <1>3, <2>1, <2>6 DEF CreateRfq
  <2>7. ASSUME NEW c \in Client, RefuseExecute(c) \/ CommitRefresh(c) \/ DropRequest(c)
        PROVE  Unhurried'
    BY <1>3, <2>1, <2>7 DEF RefuseExecute, CommitRefresh, DropRequest, dbVars
  <2> QED
    BY <1>5, <2>2, <2>3, <2>4, <2>5, <2>6, <2>7 DEF ApiNext
<1>6. CASE OmsNext
  BY <1>2, <1>3, <1>6 DEF OmsNext, OmsApi, OmsAdmit, OmsCancel, OmsControl, OmsRefuse, OmsReceive, OmsCycle,
     Next1, envVars, Unhurried
<1>7. CASE EmsNext
  BY <1>3, <1>7 DEF EmsNext, EmsJob, EmsTake, EmsResume, EmsLetGo, EmsUseQuote, EmsQuoteGone, EmsRequote,
     EmsRequoteFails, EmsRefused, EmsFill, EmsAnswerLost, dbVars, envVars
<1>8. CASE UNCHANGED vars \/ Time
  BY <1>3, <1>8 DEF vars, Time, EndTime, QuoteLapse, dbVars, countVars
<1> QED
  BY <1>4, <1>5, <1>6, <1>7, <1>8 DEF Next

\* Every step keeps the fills, of every ticket.
LEMMA FillStep ==
  ASSUME FlowInv, Unspoilt, Unspoilt', Unhurried, [Next]_vars, "REFRESH" \notin Ops,
         NEW u \in Ticket, DeskInv(u), FillInv(u)
  PROVE  FillInv(u)' /\ KeepsFill(u)
<1>0. Shaped /\ DealInv /\ Typed /\ Regular(u) /\ overwrites'[u] = 0 /\ restarts = 0 /\ restarts' = 0
  BY RegularHolds DEF FlowInv, OrderInv, DealInv, Unspoilt
<1>1. ASSUME Alone(u)
      PROVE  FillInv(u)' /\ KeepsFill(u)
  BY <1>1 DEF Alone, EmsKept, StillRead, Working, FillInv, KeepsFill
<1>2. CASE ApiNext
  BY <1>0, <1>1, <1>2, ApiTicket, ApiKeepsFill
<1>3. CASE OmsNext
  <2>1. FirmFor(u)
    BY <1>0, <1>3, OmsFirm
  <2>2. EmsKept(u) /\ StillRead(u)
    BY <1>0, <1>3, OmsTicket DEF Alone, OmsFor, TurnFor, IntakeFor, NoticeFor, OmsSide
  <2> QED
    BY <1>0, <2>1, <2>2, TurnKeepsFill
<1>4. CASE EmsNext
  <2>1. Alone(u) \/ EmsFor(u)
    BY <1>0, <1>4, EmsTicket
  <2>2. Working(u)' => row'[u].internal_state \in {row[u].internal_state, "EXPIRED", "RFQ_DONE"}
    BY <1>0, <1>4, EmsUnfilled
  <2> QED
    BY <1>0, <1>1, <2>1, <2>2, EmsKeepsFill
<1>5. ~Deaths
  BY <1>0 DEF Deaths, ApiCrash, OmsCrash, OmsCrashHandling, OmsCrashAdmitting, OmsCrashSending, OmsRestart,
     EmsCrash, EmsCrashTaking, EmsCrashBooked, EmsCrashUnreported, EmsRestart, Die
<1>6. CASE UNCHANGED vars \/ Time
  BY <1>6 DEF vars, Time, EndTime, QuoteLapse, dbVars, countVars, Working, Reads, FillInv, KeepsFill
<1> QED
  BY <1>2, <1>3, <1>4, <1>5, <1>6 DEF Next

\* A ticket that was dealt goes on to settlement and is not cancelled, failed or
\* quoted again, where clients cancel and refresh nothing and tickets have no end
\* time, while nobody dies and no executed row is overwritten: Oems!FilledKept.
THEOREM UnspoiltFilledKept ==
  ASSUME "CANCEL" \notin Ops, "REFRESH" \notin Ops, Dated = {}
  PROVE  Spec /\ []Unspoilt => FilledKept
<1> DEFINE Inv == FlowInv /\ Unspoilt /\ Unhurried /\ \A u \in Ticket : DeskInv(u) /\ FillInv(u)
           Keeps == \A t \in Ticket : row[t].internal_state \in PostTrade => row'[t].internal_state \in PostTrade
<1>1. Init /\ FlowInv /\ Unspoilt => Inv
  <2> SUFFICES ASSUME Init, FlowInv, Unspoilt
               PROVE  Unhurried /\ \A u \in Ticket : DeskInv(u) /\ FillInv(u)
    OBVIOUS
  <2>1. Unhurried
    BY DEF Init, Unhurried, Msgs
  <2>2. ASSUME NEW u \in Ticket
        PROVE  FillInv(u)
    BY NoFill DEF Init, FillInv, Working, Exists, Reads
  <2> QED
    BY <2>1, <2>2, DeskInit
<1>2. Inv /\ FlowInv' /\ Unspoilt' /\ [Next]_vars => Inv' /\ Keeps
  <2> SUFFICES ASSUME Inv, FlowInv', Unspoilt', [Next]_vars
               PROVE  Unhurried' /\ (\A u \in Ticket : DeskInv(u)' /\ FillInv(u)') /\ Keeps
    OBVIOUS
  <2>1. \A u \in Ticket : Regular(u) /\ Regular(u)' /\ TicketStep(u)
    BY RegularHolds, RegularThen, EveryStep DEF FlowInv, OrderInv
  <2>2. \A u \in Ticket : DeskInv(u)'
    BY <2>1, DeskInvStep
  <2>3. Unhurried'
    BY UnhurriedStep DEF FlowInv, OrderInv, Unspoilt
  <2>4. \A u \in Ticket : FillInv(u)' /\ KeepsFill(u)
    BY FillStep
  <2> QED
    BY <2>2, <2>3, <2>4 DEF KeepsFill
<1>3. Keeps => [Keeps]_vars
  OBVIOUS
<1> HIDE DEF Inv
<1> QED
  BY <1>1, <1>2, FlowInvHolds, PTL DEF Spec, FilledKept

\* So where nobody dies and there is one API thread, as in the run that checks it,
\* a fill is kept with no further condition: Oems!FilledKept.
THEOREM LoneThreadFilledKept ==
  ASSUME "CANCEL" \notin Ops, "REFRESH" \notin Ops, Dated = {},
         MaxRestarts = 0, \A c, d \in Client : c = d
  PROVE  Spec => FilledKept
  BY LoneThreadUnspoilt, UnspoiltFilledKept, PTL
=============================================================================

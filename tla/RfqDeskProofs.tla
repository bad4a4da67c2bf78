---------------------------- MODULE RfqDeskProofs ----------------------------
(***************************************************************************)
(* Proofs about RfqDesk, for any tickets, rates, workers, clicks and       *)
(* deaths.                                                                 *)
(***************************************************************************)
EXTENDS RfqDesk, FiniteSetTheorems, TLAPS

-----------------------------------------------------------------------------
(***************************************************************************)
(* The invariant                                                           *)
(***************************************************************************)

\* A rate that request r has was entered for it.
Entered(r, rate) == rate # NoRate => <<r, rate>> \in entered

\* A ticket has a request once it is PEND_RFQ, its own; it is quoted with what was entered for it,
\* and when it is decided the request is closed.
TicketInv(t) ==
  /\ state[t] = "ACCEPTED" => quoteId[t] = 0
  /\ state[t] = "PEND_RFQ" => quoteId[t] # 0
  /\ quoteId[t] # 0 => row[quoteId[t]].ticket = t
  /\ state[t] = "PENDRECON" => <<quoteId[t], quote[t]>> \in entered /\ quoteId[t] # 0
  /\ state[t] \in {"PENDRECON", "FAILED", "EXPIRED"} /\ ~ended[t] /\ quoteId[t] # 0 =>
       row[quoteId[t]].status # "PENDING"

\* What the EMS is in the middle of is about a request of the ticket; as long as the
\* ticket has not ended, it is not decided; and what was closed stays closed.
JobInv ==
  job # Idle =>
    /\ job.copy.ticket = job.t /\ row[job.r].ticket = job.t
    /\ Entered(job.r, job.copy.rate)
    /\ job.kind = "form" => job.to = "PEND_RFQ" /\ (~ended[job.t] => state[job.t] = "ACCEPTED")
    /\ job.kind # "form" => quoteId[job.t] # 0 /\ (~ended[job.t] => state[job.t] = "PEND_RFQ")
    /\ job.kind \in {"poll", "close"} => job.r = quoteId[job.t]
    /\ job.kind = "poll" /\ job.copy.status # "PENDING" => row[job.r].status # "PENDING"
    /\ job.kind = "close" =>
         /\ row[job.r].status # "PENDING"
         /\ job.to \in {"PENDRECON", "FAILED", "EXPIRED"}
         /\ job.to = "PENDRECON" => job.copy.rate # NoRate

\* What a worker has read is of its request.
DeskInv ==
  \A w \in Worker : desk[w] # Free =>
    /\ desk[w].copy.ticket = row[desk[w].r].ticket
    /\ Entered(desk[w].r, desk[w].copy.rate)

RowInv == \A r \in DOMAIN row : Entered(r, row[r].rate)

\* Before a ticket is asked about, there are requests for it only of EMS processes that died.
Requests(t) == {r \in DOMAIN row : row[r].ticket = t}
Asking(t) == job.kind = "form" /\ job.t = t

CountInv(t) ==
  /\ Cardinality(Requests(t)) <= 1 + deaths
  /\ state[t] = "ACCEPTED" /\ ~Asking(t) => Cardinality(Requests(t)) <= deaths

IInv == TypeOK /\ RowInv /\ JobInv /\ DeskInv /\ \A t \in Ticket : TicketInv(t) /\ CountInv(t)

Jobs == [kind : {"form", "remind", "poll", "close"}, t : Ticket, r : DOMAIN row, copy : Request, to : States]
Clicks == [kind : {"submit", "cancel", "close"}, r : DOMAIN row, copy : Request]

-----------------------------------------------------------------------------
(***************************************************************************)
(* Saves of requests                                                       *)
(***************************************************************************)

\* What a save of a copy may do to the requests: each stays a request of its ticket, with
\* no rate nobody entered, ...
SavesWell ==
  /\ row' \in Seq(Request) /\ Len(row') = Len(row)
  /\ \A r \in DOMAIN row : row'[r].ticket = row[r].ticket
  /\ RowInv'

\* ... and is pending only if it was, or the copy saved was.
ClosesOnly == \A r \in DOMAIN row : row'[r].status = "PENDING" => row[r].status = "PENDING"

LEMMA SaveWell ==
  ASSUME TypeOK, RowInv, NEW r \in DOMAIN row, NEW c \in Request, c.ticket = row[r].ticket,
         Save(r, c), entered \subseteq entered', c.rate # NoRate => <<r, c.rate>> \in entered'
  PROVE  SavesWell /\ (c.status # "PENDING" => ClosesOnly)
         /\ row'[r] = c /\ \A q \in DOMAIN row \ {r} : row'[q] = row[q]
<1>1. row \in Seq(Request) /\ DOMAIN row = 1..Len(row) /\ Len(row) \in Nat
  BY DEF TypeOK
<1>2. row' = [row EXCEPT ![r] = c]
  BY DEF Save
<1>3. row' \in Seq(Request) /\ Len(row') = Len(row) /\ DOMAIN row' = DOMAIN row
  BY <1>1, <1>2
<1>4. row'[r] = c /\ \A q \in DOMAIN row \ {r} : row'[q] = row[q]
  BY <1>1, <1>2
<1>5. RowInv'
  BY <1>3, <1>4 DEF RowInv, Entered
<1>6. \A q \in DOMAIN row : row'[q].ticket = row[q].ticket
  BY <1>4
<1> QED
  BY <1>3, <1>4, <1>5, <1>6 DEF SavesWell, ClosesOnly

\* Nothing saved is a good save.
LEMMA NoSave ==
  ASSUME TypeOK, RowInv, UNCHANGED row, entered \subseteq entered'
  PROVE  SavesWell /\ ClosesOnly
  BY DEF SavesWell, ClosesOnly, RowInv, Entered, TypeOK

\* A closed copy is a request of the same ticket, with the same rate, and not pending.
LEMMA ClosedType ==
  ASSUME NEW c \in Request
  PROVE  /\ Closed(c) \in Request /\ Closed(c).ticket = c.ticket /\ Closed(c).rate = c.rate
         /\ Closed(c).status # "PENDING" /\ Closed(c).form = c.form
  BY DEF Closed, Request

-----------------------------------------------------------------------------
(***************************************************************************)
(* What a step leaves as it was                                            *)
(***************************************************************************)

\* Saves change neither the places of the requests nor, then, what points at them.
LEMMA SameDomain ==
  ASSUME TypeOK, SavesWell
  PROVE  DOMAIN row' = DOMAIN row /\ Len(row') = Len(row) /\ row' \in Seq(Request)
         /\ row \in Seq(Request) /\ DOMAIN row = 1 .. Len(row) /\ Len(row) \in Nat
  BY DEF TypeOK, SavesWell

\* A job that is not idle is about a request, and so is what a worker does.
LEMMA JobType ==
  ASSUME TypeOK, job # Idle
  PROVE  /\ job.kind \in {"form", "remind", "poll", "close"} /\ job.t \in Ticket
         /\ job.r \in DOMAIN row /\ job.copy \in Request /\ job.to \in States
  BY DEF TypeOK

LEMMA DeskType ==
  ASSUME TypeOK, NEW w \in Worker, desk[w] # Free
  PROVE  /\ desk[w].kind \in {"submit", "cancel", "close"} /\ desk[w].r \in DOMAIN row
         /\ desk[w].copy \in Request
  BY DEF TypeOK

\* A ticket with a request points at a row.
LEMMA QuoteType ==
  ASSUME TypeOK, NEW t \in Ticket, quoteId[t] # 0
  PROVE  quoteId[t] \in DOMAIN row /\ row[quoteId[t]] \in Request
<1>1. row \in Seq(Request) /\ DOMAIN row = 1 .. Len(row) /\ Len(row) \in Nat
  BY DEF TypeOK
<1>2. quoteId[t] \in 0 .. Len(row)
  BY DEF TypeOK
<1>3. quoteId[t] \in DOMAIN row
  BY <1>1, <1>2
<1> QED
  BY <1>1, <1>3

\* The workers' copies stay copies of their requests.
LEMMA DeskKept ==
  ASSUME TypeOK, DeskInv, SavesWell, entered \subseteq entered', NEW w \in Worker,
         desk[w] # Free
  PROVE  /\ desk[w].copy.ticket = row'[desk[w].r].ticket
         /\ desk[w].copy.rate # NoRate => <<desk[w].r, desk[w].copy.rate>> \in entered'
  BY DeskType DEF DeskInv, SavesWell, Entered

\* A ticket the step does not touch keeps its part of the invariant, if the step does
\* not open its request again.
LEMMA TicketKept ==
  ASSUME TypeOK, SavesWell, entered \subseteq entered', NEW u \in Ticket, TicketInv(u),
         state'[u] = state[u], quoteId'[u] = quoteId[u], quote'[u] = quote[u],
         ended[u] => ended'[u],
         \/ ClosesOnly
         \/ ended[u]
         \/ state[u] \in {"ACCEPTED", "PEND_RFQ"}
  PROVE  TicketInv(u)'
<1>1. quoteId[u] # 0 => quoteId[u] \in DOMAIN row
  BY QuoteType
<1> QED
  BY <1>1 DEF TicketInv, SavesWell, ClosesOnly

\* The requests for a ticket are as many as they were.
LEMMA CountKept ==
  ASSUME TypeOK, SavesWell, NEW u \in Ticket, CountInv(u), deaths' = deaths,
         state'[u] = "ACCEPTED" => state[u] = "ACCEPTED",
         state'[u] = "ACCEPTED" /\ ~Asking(u)' => ~Asking(u)
  PROVE  CountInv(u)'
<1>1. Requests(u)' = Requests(u)
  BY SameDomain DEF Requests, SavesWell
<1> QED
  BY <1>1 DEF CountInv

\* Other users' steps leave what the EMS is in the middle of.
LEMMA JobKept ==
  ASSUME TypeOK, JobInv, SavesWell, ClosesOnly, entered \subseteq entered',
         UNCHANGED <<state, quoteId, job>>, \A u \in Ticket : ended[u] => ended'[u]
  PROVE  JobInv'
<1>1. SUFFICES ASSUME job # Idle
               PROVE  JobInv'
  BY DEF JobInv
<1>2. job.t \in Ticket /\ job.r \in DOMAIN row
  BY <1>1, JobType
<1> QED
  BY <1>1, <1>2 DEF JobInv, SavesWell, ClosesOnly, Entered

\* ... and with it the tickets.
LEMMA AsideKept ==
  ASSUME IInv, SavesWell, ClosesOnly, entered \subseteq entered',
         UNCHANGED <<ticketVars, job, deaths>>, \A u \in Ticket : ended[u] => ended'[u]
  PROVE  RowInv' /\ JobInv' /\ \A u \in Ticket : TicketInv(u)' /\ CountInv(u)'
<1>1. RowInv' /\ JobInv'
  BY JobKept DEF SavesWell, IInv, ticketVars
<1>2. ASSUME NEW u \in Ticket
      PROVE  TicketInv(u)' /\ CountInv(u)'
  <2>1. TicketInv(u)'
    BY TicketKept DEF IInv, ticketVars
  <2>2. CountInv(u)'
    BY CountKept DEF IInv, ticketVars, Asking
  <2> QED
    BY <2>1, <2>2
<1> QED
  BY <1>1, <1>2

-----------------------------------------------------------------------------
(***************************************************************************)
(* The desk's steps, and time                                              *)
(***************************************************************************)

\* What a worker's next copy must be for the invariant.
LEMMA DeskMoves ==
  ASSUME IInv, SavesWell, entered \subseteq entered', NEW w \in Worker,
         NEW d \in {Free} \cup Clicks, desk' = [desk EXCEPT ![w] = d],
         d # Free => /\ d.copy.ticket = row[d.r].ticket
                     /\ d.copy.rate # NoRate => <<d.r, d.copy.rate>> \in entered'
  PROVE  desk' \in [Worker -> {Free} \cup Clicks] /\ DeskInv'
<1>1. desk \in [Worker -> {Free} \cup Clicks]
  BY DEF IInv, TypeOK, Clicks
<1>2. desk' \in [Worker -> {Free} \cup Clicks]
  BY <1>1
<1>3. ASSUME NEW v \in Worker, desk'[v] # Free
      PROVE  /\ desk'[v].copy.ticket = row'[desk'[v].r].ticket
             /\ desk'[v].copy.rate # NoRate => <<desk'[v].r, desk'[v].copy.rate>> \in entered'
  <2>1. CASE v = w
    <3>1. desk'[v] = d
      BY <1>1, <2>1
    <3>2. d \in Clicks
      BY <3>1, <1>3
    <3>3. d.r \in DOMAIN row
      BY <3>2 DEF Clicks
    <3> QED
      BY <3>1, <3>3, <1>3 DEF SavesWell
  <2>2. CASE v # w
    <3>1. desk'[v] = desk[v]
      BY <1>1, <2>2
    <3> QED
      BY <3>1, <1>3, DeskKept DEF IInv
  <2> QED
    BY <2>1, <2>2
<1>4. DeskInv'
  BY <1>3 DEF DeskInv, Entered
<1> QED
  BY <1>2, <1>4

LEMMA DeskReadKeeps ==
  ASSUME IInv, NEW w \in Worker, NEW r \in DOMAIN row, NEW kind \in {"submit", "cancel"},
         DeskRead(w, kind, r)
  PROVE  IInv'
<1> DEFINE d == Click(kind, r, row[r])
<1>1. SavesWell /\ ClosesOnly
  BY NoSave DEF IInv, DeskRead
<1>2. row[r] \in Request
  BY DEF IInv, TypeOK
<1>3. d \in Clicks /\ d.r = r /\ d.copy = row[r]
  BY <1>2 DEF Clicks, Click
<1>4. row[r].rate # NoRate => <<r, row[r].rate>> \in entered
  BY DEF IInv, RowInv, Entered
<1>5. UNCHANGED <<row, ticketVars, timeVars, job, entered, deaths>>
  BY DEF DeskRead
<1>6. desk' = [desk EXCEPT ![w] = d] /\ clicks' = clicks + 1
  BY DEF DeskRead
<1> HIDE DEF d
<1>7. desk' \in [Worker -> {Free} \cup Clicks] /\ DeskInv'
  BY <1>1, <1>3, <1>4, <1>5, <1>6, DeskMoves
<1>8. RowInv' /\ JobInv' /\ \A u \in Ticket : TicketInv(u)' /\ CountInv(u)'
  BY <1>1, <1>5, AsideKept DEF timeVars
<1>9. TypeOK'
  BY <1>5, <1>6, <1>7 DEF IInv, TypeOK, ticketVars, timeVars, Clicks
<1> QED
  BY <1>7, <1>8, <1>9 DEF IInv

LEMMA DeskSubmitKeeps ==
  ASSUME IInv, NEW w \in Worker, DeskSubmit(w)
  PROVE  IInv'
<1> DEFINE r == desk[w].r
<1>1. PICK rate \in Rates :
        LET c == [desk[w].copy EXCEPT !.rate = rate]
        IN /\ SaveClosed(r, c)
           /\ entered' = entered \cup {<<r, rate>>}
           /\ desk' = [desk EXCEPT ![w] = Click("close", r, Closed(c))]
  BY DEF DeskSubmit
<1> DEFINE c == [desk[w].copy EXCEPT !.rate = rate]
           d == Click("close", r, Closed(c))
<1>2. desk[w] # Free
  BY DEF DeskSubmit, Free
<1>3. r \in DOMAIN row /\ desk[w].copy \in Request
  BY <1>2, DeskType DEF IInv
<1>4. desk[w].copy.ticket = row[r].ticket
  BY <1>2 DEF IInv, DeskInv
<1>5. c \in Request /\ c.ticket = row[r].ticket /\ c.rate = rate
  BY <1>3, <1>4, ZenonT(60) DEF Request
<1>6. SaveClosed(r, c) /\ entered' = entered \cup {<<r, rate>>} /\ desk' = [desk EXCEPT ![w] = d]
  BY <1>1
<1>7. UNCHANGED <<ticketVars, timeVars, job, clicks, deaths>>
  BY DEF DeskSubmit
<1>8. r \in DOMAIN row
  BY <1>3
<1> HIDE DEF r, c
<1>9. Closed(c) \in Request /\ Closed(c).ticket = row[r].ticket /\ Closed(c).rate = rate
      /\ Closed(c).status # "PENDING"
  BY <1>5, ClosedType
<1>10. d \in Clicks /\ d.r = r /\ d.copy = Closed(c)
  BY <1>8, <1>9 DEF Clicks, Click
<1> HIDE DEF d
<1>11. SavesWell /\ ClosesOnly
  <2>1. CASE c.status = "PENDING"
    <3>1. Save(r, Closed(c))
      BY <1>6, <2>1 DEF SaveClosed
    <3> QED
      BY <3>1, <1>6, <1>8, <1>9, SaveWell DEF IInv
  <2>2. CASE c.status # "PENDING"
    BY <1>6, <2>2, NoSave DEF IInv, SaveClosed
  <2> QED
    BY <2>1, <2>2
<1>12. desk' \in [Worker -> {Free} \cup Clicks] /\ DeskInv'
  BY <1>6, <1>9, <1>10, <1>11, DeskMoves
<1>13. RowInv' /\ JobInv' /\ \A u \in Ticket : TicketInv(u)' /\ CountInv(u)'
  BY <1>6, <1>7, <1>11, AsideKept DEF timeVars
<1>14. TypeOK'
  <2>1. DOMAIN row' = DOMAIN row /\ Len(row') = Len(row) /\ row' \in Seq(Request)
    BY <1>11, SameDomain DEF IInv
  <2>2. entered' \subseteq (DOMAIN row') \X Rates
    BY <2>1, <1>6, <1>8 DEF IInv, TypeOK
  <2> QED
    BY <2>1, <2>2, <1>7, <1>12 DEF IInv, TypeOK, ticketVars, timeVars, Clicks
<1> QED
  BY <1>12, <1>13, <1>14 DEF IInv

\* A save by a worker that goes on with the copy it saved, or is done.
LEMMA DeskSaves ==
  ASSUME IInv, NEW w \in Worker, desk[w] # Free, NEW d \in {Free} \cup Clicks,
         desk' = [desk EXCEPT ![w] = d],
         d # Free => d.r = desk[w].r /\ d.copy.ticket = desk[w].copy.ticket
                                     /\ d.copy.rate = desk[w].copy.rate,
         SavesWell, ClosesOnly,
         UNCHANGED <<ticketVars, timeVars, job, entered, clicks, deaths>>
  PROVE  IInv'
<1>1. /\ desk[w].copy.ticket = row[desk[w].r].ticket
      /\ desk[w].copy.rate # NoRate => <<desk[w].r, desk[w].copy.rate>> \in entered
  BY DEF IInv, DeskInv, Entered
<1>2. entered' = entered
  OBVIOUS
<1>3. desk' \in [Worker -> {Free} \cup Clicks] /\ DeskInv'
  BY <1>1, <1>2, DeskMoves
<1>4. RowInv' /\ JobInv' /\ \A u \in Ticket : TicketInv(u)' /\ CountInv(u)'
  BY <1>2, AsideKept DEF timeVars
<1>5. TypeOK'
  <2>1. DOMAIN row' = DOMAIN row /\ Len(row') = Len(row) /\ row' \in Seq(Request)
    BY SameDomain DEF IInv
  <2> QED
    BY <2>1, <1>3 DEF IInv, TypeOK, ticketVars, timeVars, Clicks
<1> QED
  BY <1>3, <1>4, <1>5 DEF IInv

LEMMA DeskCancelKeeps ==
  ASSUME IInv, NEW w \in Worker, DeskCancel(w)
  PROVE  IInv'
<1> DEFINE r == desk[w].r
           c == [desk[w].copy EXCEPT !.status = "CANCELED"]
           d == Click("close", r, c)
<1>1. desk[w] # Free
  BY DEF DeskCancel, Free
<1>2. r \in DOMAIN row /\ desk[w].copy \in Request
  BY <1>1, DeskType DEF IInv
<1>3. desk[w].copy.ticket = row[r].ticket
      /\ (desk[w].copy.rate # NoRate => <<r, desk[w].copy.rate>> \in entered)
  BY <1>1 DEF IInv, DeskInv, Entered
<1>4. c \in Request /\ c.ticket = desk[w].copy.ticket /\ c.rate = desk[w].copy.rate
      /\ c.status = "CANCELED"
  BY <1>2, ZenonT(60) DEF Request
<1>5. Save(r, c) /\ desk' = [desk EXCEPT ![w] = d]
      /\ UNCHANGED <<ticketVars, timeVars, job, entered, clicks, deaths>>
  BY DEF DeskCancel
<1>6. r = desk[w].r
  OBVIOUS
<1> HIDE DEF r, c
<1>7. d \in Clicks /\ d.r = r /\ d.copy = c
  BY <1>2, <1>4 DEF Clicks, Click
<1> HIDE DEF d
<1>8. SavesWell /\ ClosesOnly
  BY <1>2, <1>3, <1>4, <1>5, SaveWell DEF IInv
<1> QED
  BY <1>1, <1>4, <1>5, <1>6, <1>7, <1>8, DeskSaves

\* The last save of close() saves a closed copy, or nothing.
LEMMA DeletedWell ==
  ASSUME TypeOK, RowInv, NEW r \in DOMAIN row, NEW c \in Request, c.ticket = row[r].ticket,
         c.rate # NoRate => <<r, c.rate>> \in entered, SaveDeleted(r, c), entered' = entered
  PROVE  SavesWell /\ ClosesOnly
<1>1. CASE c.form /\ c.status \in {"EXPIRED", "CANCELED"}
  <2>1. Save(r, c) /\ c.status # "PENDING"
    BY <1>1 DEF SaveDeleted
  <2> QED
    BY <2>1, SaveWell
<1>2. CASE ~(c.form /\ c.status \in {"EXPIRED", "CANCELED"})
  BY <1>2, NoSave DEF SaveDeleted
<1> QED
  BY <1>1, <1>2

LEMMA DeskCloseKeeps ==
  ASSUME IInv, NEW w \in Worker, DeskClose(w)
  PROVE  IInv'
<1>1. desk[w] # Free
  BY DEF DeskClose, Free
<1>2. desk[w].r \in DOMAIN row /\ desk[w].copy \in Request
  BY <1>1, DeskType DEF IInv
<1>3. desk[w].copy.ticket = row[desk[w].r].ticket
      /\ (desk[w].copy.rate # NoRate => <<desk[w].r, desk[w].copy.rate>> \in entered)
  BY <1>1 DEF IInv, DeskInv, Entered
<1>4. SaveDeleted(desk[w].r, desk[w].copy) /\ desk' = [desk EXCEPT ![w] = Free]
      /\ UNCHANGED <<ticketVars, timeVars, job, entered, clicks, deaths>>
  BY DEF DeskClose
<1>5. SavesWell /\ ClosesOnly
  BY <1>2, <1>3, <1>4, DeletedWell DEF IInv
<1> QED
  BY <1>1, <1>4, <1>5, DeskSaves

LEMMA DeskDropKeeps ==
  ASSUME IInv, NEW w \in Worker, DeskDrop(w)
  PROVE  IInv'
<1>1. SavesWell /\ ClosesOnly
  BY NoSave DEF IInv, DeskDrop
<1> QED
  BY <1>1, DeskSaves DEF DeskDrop

LEMMA EndTimeKeeps ==
  ASSUME IInv, NEW t \in Ticket, EndTime(t)
  PROVE  IInv'
<1>1. SavesWell /\ ClosesOnly
  BY NoSave DEF IInv, EndTime, deskVars
<1>2. \A u \in Ticket : ended[u] => ended'[u]
  BY DEF EndTime, IInv, TypeOK
<1>3. RowInv' /\ JobInv' /\ \A u \in Ticket : TicketInv(u)' /\ CountInv(u)'
  BY <1>1, <1>2, AsideKept DEF EndTime, deskVars
<1>4. TypeOK'
  BY DEF EndTime, IInv, TypeOK, ticketVars, deskVars
<1>5. DeskInv'
  BY DEF EndTime, IInv, DeskInv, deskVars, Entered
<1> QED
  BY <1>3, <1>4, <1>5 DEF IInv

LEMMA LapseKeeps ==
  ASSUME IInv, NEW r \in DOMAIN row, Lapse(r)
  PROVE  IInv'
<1>1. SavesWell /\ ClosesOnly
  BY NoSave DEF IInv, Lapse, deskVars
<1>2. RowInv' /\ JobInv' /\ \A u \in Ticket : TicketInv(u)' /\ CountInv(u)'
  BY <1>1, AsideKept DEF Lapse, deskVars
<1>3. TypeOK'
  BY DEF Lapse, IInv, TypeOK, ticketVars, deskVars
<1>4. DeskInv'
  BY DEF Lapse, IInv, DeskInv, deskVars, Entered
<1> QED
  BY <1>2, <1>3, <1>4 DEF IInv

-----------------------------------------------------------------------------
(***************************************************************************)
(* The EMS's steps                                                         *)
(***************************************************************************)

\* The place of a ticket in its functions after check_expiry.
LEMMA ExpiryType ==
  ASSUME TypeOK, NEW t \in Ticket, CheckExpiry(t)
  PROVE  /\ state' \in [Ticket -> States] /\ held' \in [Ticket -> BOOLEAN]
         /\ \A u \in Ticket \ {t} : state'[u] = state[u]
         /\ state'[t] = IF ended[t] THEN "EXPIRED" ELSE state[t]
  BY DEF TypeOK, CheckExpiry, States

\* A new job is of its type.
LEMMA NewJob ==
  ASSUME NEW kind \in {"form", "remind", "poll", "close"}, NEW t \in Ticket,
         NEW r \in DOMAIN row, NEW c \in Request, NEW to \in States
  PROVE  /\ Job(kind, t, r, c, to) \in Jobs /\ Job(kind, t, r, c, to) # Idle
         /\ Job(kind, t, r, c, to).kind = kind /\ Job(kind, t, r, c, to).t = t
         /\ Job(kind, t, r, c, to).r = r /\ Job(kind, t, r, c, to).copy = c
         /\ Job(kind, t, r, c, to).to = to
<1>1. Job(kind, t, r, c, to).kind = kind /\ Job(kind, t, r, c, to).t = t
      /\ Job(kind, t, r, c, to).r = r /\ Job(kind, t, r, c, to).copy = c
      /\ Job(kind, t, r, c, to).to = to
  BY DEF Job
<1>2. Job(kind, t, r, c, to) \in Jobs
  BY DEF Job, Jobs
<1>3. Job(kind, t, r, c, to) # Idle
  BY <1>1 DEF Idle
<1> QED
  BY <1>1, <1>2, <1>3

\* The step in which the desk is asked about t: one more request.
LEMMA AskDeskKeeps ==
  ASSUME IInv, NEW t \in Ticket, AskDesk(t)
  PROVE  IInv'
<1> DEFINE n == Len(row) + 1
<1>1. PICK form \in BOOLEAN :
        LET c == [ticket |-> t, form |-> form, status |-> "PENDING", rate |-> NoRate]
        IN /\ row' = Append(row, c)
           /\ job' = Job("form", t, Len(row) + 1, c, "PEND_RFQ")
  BY DEF AskDesk
<1> DEFINE c == [ticket |-> t, form |-> form, status |-> "PENDING", rate |-> NoRate]
<1>2. row' = Append(row, c) /\ job' = Job("form", t, n, c, "PEND_RFQ")
  BY <1>1
<1>3. c \in Request /\ c.ticket = t /\ c.rate = NoRate
  BY DEF Request
<1>4. job = Idle /\ state[t] = "ACCEPTED" /\ CheckExpiry(t)
      /\ UNCHANGED <<quoteId, quote, timeVars, deskVars, deaths>>
  BY DEF AskDesk, Cycled
<1> HIDE DEF c
<1>5. row \in Seq(Request) /\ Len(row) \in Nat /\ DOMAIN row = 1 .. Len(row) /\ n \in Nat
  BY DEF IInv, TypeOK
<1>6. /\ row' \in Seq(Request) /\ Len(row') = n /\ DOMAIN row' = 1 .. n /\ row'[n] = c
      /\ \A r \in DOMAIN row : row'[r] = row[r]
  BY <1>2, <1>3, <1>5
<1>7. DOMAIN row' = DOMAIN row \cup {n} /\ n \notin DOMAIN row
  BY <1>5, <1>6
<1>8. /\ job'.kind = "form" /\ job'.t = t /\ job'.r = n /\ job'.copy = c /\ job'.to = "PEND_RFQ"
      /\ job' # Idle
  BY <1>2 DEF Job, Idle
<1>9. /\ state' \in [Ticket -> States] /\ held' \in [Ticket -> BOOLEAN]
      /\ \A u \in Ticket \ {t} : state'[u] = state[u]
      /\ state'[t] = IF ended[t] THEN "EXPIRED" ELSE state[t]
  BY <1>4, ExpiryType DEF IInv
<1>10. TypeOK'
  <2>1. job' \in Jobs'
    <3>1. n \in DOMAIN row'
      BY <1>7
    <3> QED
      BY <1>2, <1>3, <3>1 DEF Jobs, Job, States
  <2>2. quoteId' \in [Ticket -> 0 .. Len(row')]
    BY <1>4, <1>5, <1>6 DEF IInv, TypeOK
  <2>3. lapsed' \subseteq DOMAIN row' /\ entered' \subseteq (DOMAIN row') \X Rates
    BY <1>4, <1>7 DEF IInv, TypeOK, timeVars, deskVars
  <2>4. desk' \in [Worker -> {Free} \cup Clicks']
    <3>1. desk' = desk /\ desk \in [Worker -> {Free} \cup Clicks]
      BY <1>4 DEF IInv, TypeOK, deskVars, Clicks
    <3>2. Clicks \subseteq Clicks'
      BY <1>7 DEF Clicks
    <3> QED
      BY <3>1, <3>2
  <2> HIDE DEF n
  <2> QED
    BY <1>4, <1>6, <1>9, <2>1, <2>2, <2>3, <2>4
    DEF IInv, TypeOK, timeVars, deskVars, Jobs, Clicks
<1>11. RowInv'
  BY <1>3, <1>4, <1>6, <1>7 DEF IInv, RowInv, Entered, deskVars
<1>12. JobInv'
  BY <1>3, <1>4, <1>6, <1>8, <1>9 DEF JobInv, Entered, timeVars
<1>13. DeskInv'
  <2>1. ASSUME NEW w \in Worker, desk[w] # Free
        PROVE  desk[w].copy.ticket = row'[desk[w].r].ticket
    BY <2>1, <1>6, DeskType DEF IInv, DeskInv
  <2> QED
    BY <2>1, <1>4 DEF IInv, DeskInv, Entered, deskVars
<1>14. ASSUME NEW u \in Ticket
       PROVE  TicketInv(u)' /\ CountInv(u)'
  <2>1. TicketInv(u) /\ CountInv(u)
    BY DEF IInv
  <2>2. TicketInv(u)'
    <3>1. quoteId[u] # 0 => row'[quoteId[u]] = row[quoteId[u]]
      BY <1>6, QuoteType DEF IInv
    <3> QED
      BY <2>1, <3>1, <1>4, <1>9 DEF TicketInv, timeVars, deskVars
  <2>3. CountInv(u)'
    <3>1. CASE u = t
      <4>1. Requests(t)' = Requests(t) \cup {n} /\ n \notin Requests(t)
        BY <1>3, <1>6, <1>7 DEF Requests
      <4>2. IsFiniteSet(Requests(t)) /\ Requests(t) \subseteq 1 .. Len(row)
        <5>1. Requests(t) \subseteq 1 .. Len(row)
          BY <1>5 DEF Requests
        <5>2. 1 \in Int /\ Len(row) \in Int
          BY <1>5
        <5>3. IsFiniteSet(1 .. Len(row))
          BY <5>2, FS_Interval
        <5> QED
          BY <5>1, <5>3, FS_Subset
      <4>3. Cardinality(Requests(t)') = Cardinality(Requests(t)) + 1
        BY <4>1, <4>2, FS_AddElement
      <4>4. Cardinality(Requests(t)) <= deaths
        BY <2>1, <3>1, <1>4 DEF CountInv, Asking, Idle
      <4>5. Cardinality(Requests(t)) \in Nat /\ deaths \in Nat
        BY <4>2, FS_CardinalityType DEF IInv, TypeOK
      <4>6. Cardinality(Requests(t)') <= 1 + deaths
        BY <4>3, <4>4, <4>5
      <4> QED
        BY <4>6, <3>1, <1>4, <1>8 DEF CountInv, Asking
    <3>2. CASE u # t
      <4>1. Requests(u)' = Requests(u)
        BY <1>3, <1>6, <1>7, <3>2 DEF Requests
      <4> QED
        BY <4>1, <2>1, <3>2, <1>4, <1>8, <1>9 DEF CountInv, Asking, Idle
    <3> QED
      BY <3>1, <3>2
  <2> QED
    BY <2>2, <2>3
<1> QED
  BY <1>10, <1>11, <1>12, <1>13, <1>14 DEF IInv

\* Nothing of the desk's is touched by a step of the EMS.
LEMMA DeskAside ==
  ASSUME IInv, SavesWell, UNCHANGED <<desk, entered>>
  PROVE  DeskInv' /\ RowInv'
<1>1. ASSUME NEW w \in Worker, desk[w] # Free
      PROVE  /\ desk[w].copy.ticket = row'[desk[w].r].ticket
             /\ desk[w].copy.rate # NoRate => <<desk[w].r, desk[w].copy.rate>> \in entered'
  BY <1>1, DeskKept DEF IInv
<1> QED
  BY <1>1 DEF DeskInv, Entered, SavesWell

\* The types of what the EMS's steps change, if the requests stay in their places.
LEMMA EmsType ==
  ASSUME TypeOK, SavesWell, state' \in [Ticket -> States], held' \in [Ticket -> BOOLEAN],
         quoteId' \in [Ticket -> 0 .. Len(row)], quote' \in [Ticket -> Rates \cup {NoRate}],
         job' \in {Idle} \cup Jobs, deaths' \in Nat, UNCHANGED <<timeVars, deskVars>>
  PROVE  TypeOK'
<1>1. DOMAIN row' = DOMAIN row /\ Len(row') = Len(row) /\ row' \in Seq(Request)
  BY SameDomain
<1> QED
  BY <1>1 DEF TypeOK, timeVars, deskVars, Jobs

LEMMA AskFailsKeeps ==
  ASSUME IInv, NEW t \in Ticket, AskFails(t)
  PROVE  IInv'
<1>1. job = Idle /\ state[t] = "ACCEPTED" /\ job' = Idle /\ deaths' = deaths
      /\ UNCHANGED <<row, quoteId, quote, timeVars, deskVars>>
  BY DEF AskFails, Cycled
<1>2. /\ state' \in [Ticket -> States] /\ held' \in [Ticket -> BOOLEAN]
      /\ \A u \in Ticket \ {t} : state'[u] = state[u]
      /\ state'[t] \in {"EXPIRED", "FAILED"}
  BY DEF AskFails, IInv, TypeOK, States
<1>3. SavesWell /\ ClosesOnly
  BY <1>1, NoSave DEF IInv, deskVars
<1>4. TypeOK'
  BY <1>1, <1>2, <1>3, EmsType DEF IInv, TypeOK
<1>5. DeskInv' /\ RowInv'
  BY <1>1, <1>3, DeskAside DEF deskVars
<1>6. JobInv'
  BY <1>1 DEF JobInv
<1>7. ASSUME NEW u \in Ticket
      PROVE  TicketInv(u)' /\ CountInv(u)'
  <2>1. TicketInv(u) /\ CountInv(u) /\ TicketInv(t) /\ TypeOK
    BY DEF IInv
  <2>2. CountInv(u)'
    BY <2>1, <1>1, <1>2, <1>3, CountKept DEF Asking
  <2>3. CASE u = t
    <3>1. quoteId'[u] = 0
      BY <1>1, <2>1, <2>3 DEF TicketInv
    <3> QED
      BY <3>1, <2>2, <2>3, <1>2 DEF TicketInv
  <2>4. CASE u # t
    <3>1. TicketInv(u)'
      BY <2>1, <2>4, <1>1, <1>2, <1>3, TicketKept DEF timeVars, deskVars
    <3> QED
      BY <3>1, <2>2
  <2> QED
    BY <2>3, <2>4
<1> QED
  BY <1>4, <1>5, <1>6, <1>7 DEF IInv

\* A pass over a ticket that is PEND_RFQ: check_expiry, and a request of the ticket is read.
LEMMA PassReads ==
  ASSUME IInv, NEW t \in Ticket, job = Idle, state[t] = "PEND_RFQ", CheckExpiry(t),
         UNCHANGED <<row, quoteId, quote, timeVars, deskVars, deaths>>,
         NEW kind \in {"remind", "poll"}, NEW r \in DOMAIN row, row[r].ticket = t,
         kind = "poll" => r = quoteId[t],
         job' = Job(kind, t, r, row[r], "PEND_RFQ")
  PROVE  IInv'
<1>1. row[r] \in Request
  BY DEF IInv, TypeOK
<1>2. /\ job' \in Jobs /\ job' # Idle /\ job'.kind = kind /\ job'.t = t /\ job'.r = r
      /\ job'.copy = row[r]
  BY <1>1, NewJob DEF States
<1>3. /\ state' \in [Ticket -> States] /\ held' \in [Ticket -> BOOLEAN]
      /\ \A u \in Ticket \ {t} : state'[u] = state[u]
      /\ state'[t] = IF ended[t] THEN "EXPIRED" ELSE state[t]
  BY ExpiryType DEF IInv
<1>4. SavesWell /\ ClosesOnly
  BY NoSave DEF IInv, deskVars
<1>5. TypeOK'
  BY <1>2, <1>3, <1>4, EmsType DEF IInv, TypeOK
<1>6. DeskInv' /\ RowInv'
  BY <1>4, DeskAside DEF deskVars
<1>7. quoteId[t] # 0
  BY DEF IInv, TicketInv
<1>8. JobInv'
  <2>1. row[r].rate # NoRate => <<r, row[r].rate>> \in entered
    BY DEF IInv, RowInv, Entered
  <2> QED
    BY <2>1, <1>2, <1>3, <1>7 DEF JobInv, Entered, timeVars, deskVars
<1>9. ASSUME NEW u \in Ticket
      PROVE  TicketInv(u)' /\ CountInv(u)'
  <2>1. TicketInv(u) /\ CountInv(u) /\ TypeOK
    BY DEF IInv
  <2>2. CountInv(u)'
    BY <2>1, <1>2, <1>3, <1>4, CountKept DEF Asking, Idle
  <2>3. CASE u = t /\ ended[t]
    <3>1. TicketInv(u)'
      BY <2>1, <2>3, <1>3 DEF TicketInv, timeVars, deskVars
    <3> QED
      BY <3>1, <2>2
  <2>4. CASE ~(u = t /\ ended[t])
    <3>1. state'[u] = state[u]
      BY <2>4, <1>3
    <3>2. TicketInv(u)'
      BY <2>1, <3>1, <1>4, TicketKept DEF timeVars, deskVars
    <3> QED
      BY <3>2, <2>2
  <2> QED
    BY <2>2, <2>3, <2>4
<1> QED
  BY <1>5, <1>6, <1>8, <1>9 DEF IInv

LEMMA RemindKeeps ==
  ASSUME IInv, NEW t \in Ticket, Remind(t)
  PROVE  IInv'
<1>1. PICK r \in DOMAIN row : Reminded(t, r) /\ job' = Job("remind", t, r, row[r], "PEND_RFQ")
  BY DEF Remind
<1>2. row[r].ticket = t
  BY <1>1 DEF Reminded
<1> QED
  BY <1>1, <1>2, PassReads DEF Remind, Cycled

LEMMA PollKeeps ==
  ASSUME IInv, NEW t \in Ticket, Poll(t)
  PROVE  IInv'
<1>1. state[t] = "PEND_RFQ" /\ job = Idle /\ CheckExpiry(t)
      /\ UNCHANGED <<row, quoteId, quote, timeVars, deskVars, deaths>>
      /\ job' = Job("poll", t, quoteId[t], row[quoteId[t]], "PEND_RFQ")
  BY DEF Poll, Cycled
<1>2. quoteId[t] # 0 /\ row[quoteId[t]].ticket = t
  BY <1>1 DEF IInv, TicketInv
<1>3. quoteId[t] \in DOMAIN row
  BY <1>2, QuoteType DEF IInv
<1> QED
  BY <1>1, <1>2, <1>3, PassReads

\* A save of a copy that may open the request again, which is why no decided ticket has it.
LEMMA JobSaves ==
  ASSUME IInv, job # Idle, job.kind \in {"form", "remind"}, entered' = entered,
         UNCHANGED row \/ Save(job.r, job.copy)
  PROVE  /\ SavesWell
         /\ \A u \in Ticket : \/ ended[u]
                              \/ state[u] \in {"ACCEPTED", "PEND_RFQ"}
                              \/ quoteId[u] # 0 => row'[quoteId[u]] = row[quoteId[u]]
<1>1. job.t \in Ticket /\ job.r \in DOMAIN row /\ job.copy \in Request
  BY JobType DEF IInv
<1>2. job.copy.ticket = row[job.r].ticket /\ row[job.r].ticket = job.t
      /\ (job.copy.rate # NoRate => <<job.r, job.copy.rate>> \in entered)
  BY DEF IInv, JobInv, Entered
<1>3. SavesWell /\ \A q \in DOMAIN row \ {job.r} : row'[q] = row[q]
  <2>1. CASE UNCHANGED row
    BY <2>1, NoSave DEF IInv
  <2>2. CASE Save(job.r, job.copy)
    BY <2>2, <1>1, <1>2, SaveWell DEF IInv
  <2> QED
    BY <2>1, <2>2
<1>4. ASSUME NEW u \in Ticket, ~ended[u], quoteId[u] # 0,
             state[u] \notin {"ACCEPTED", "PEND_RFQ"}
      PROVE  row'[quoteId[u]] = row[quoteId[u]]
  <2>1. quoteId[u] \in DOMAIN row
    BY <1>4, QuoteType DEF IInv
  <2>2. row[quoteId[u]].ticket = u
    BY <1>4 DEF IInv, TicketInv
  <2>3. job.t # u
    BY <1>4 DEF IInv, JobInv
  <2> QED
    BY <2>1, <2>2, <2>3, <1>2, <1>3
<1> QED
  BY <1>3, <1>4

\* A ticket a save may touch keeps its part of the invariant.
LEMMA TicketOpened ==
  ASSUME TypeOK, SavesWell, entered' = entered, NEW u \in Ticket, TicketInv(u),
         state'[u] = state[u], quoteId'[u] = quoteId[u], quote'[u] = quote[u],
         ended' = ended,
         \/ ended[u]
         \/ state[u] \in {"ACCEPTED", "PEND_RFQ"}
         \/ quoteId[u] # 0 => row'[quoteId[u]] = row[quoteId[u]]
  PROVE  TicketInv(u)'
<1>1. quoteId[u] # 0 => quoteId[u] \in DOMAIN row
  BY QuoteType
<1> QED
  BY <1>1 DEF TicketInv, SavesWell

LEMMA FormPostedKeeps ==
  ASSUME IInv, NEW t \in Ticket, FormPosted(t)
  PROVE  IInv'
<1>1. /\ job # Idle /\ job.kind = "form" /\ job.t = t /\ SavePosted(job.r, job.copy)
      /\ state' = [state EXCEPT ![t] = job.to] /\ quoteId' = [quoteId EXCEPT ![t] = job.r]
      /\ job' = Idle /\ deaths' = deaths
      /\ UNCHANGED <<quote, held, timeVars, deskVars>>
  BY DEF FormPosted, Idle
<1>2. UNCHANGED row \/ Save(job.r, job.copy)
  BY <1>1 DEF SavePosted
<1>3. SavesWell
      /\ \A u \in Ticket : \/ ended[u]
                           \/ state[u] \in {"ACCEPTED", "PEND_RFQ"}
                           \/ quoteId[u] # 0 => row'[quoteId[u]] = row[quoteId[u]]
  BY <1>1, <1>2, JobSaves DEF deskVars
<1>4. job.r \in DOMAIN row /\ row[job.r].ticket = t /\ job.to = "PEND_RFQ" /\ job.r # 0
      /\ DOMAIN row = 1 .. Len(row) /\ Len(row) \in Nat
  <2>1. job.r \in DOMAIN row /\ row[job.r].ticket = t /\ job.to = "PEND_RFQ"
    BY <1>1, JobType DEF IInv, JobInv
  <2>2. DOMAIN row = 1 .. Len(row) /\ Len(row) \in Nat
    BY DEF IInv, TypeOK
  <2> QED
    BY <2>1, <2>2
<1>5. state' \in [Ticket -> States] /\ quoteId' \in [Ticket -> 0 .. Len(row)]
      /\ state'[t] = "PEND_RFQ" /\ quoteId'[t] = job.r
      /\ \A u \in Ticket \ {t} : state'[u] = state[u] /\ quoteId'[u] = quoteId[u]
  BY <1>1, <1>4 DEF IInv, TypeOK, States
<1>6. TypeOK'
  BY <1>1, <1>3, <1>5, EmsType DEF IInv, TypeOK
<1>7. DeskInv' /\ RowInv'
  BY <1>1, <1>3, DeskAside DEF deskVars
<1>8. JobInv'
  BY <1>1 DEF JobInv
<1>9. ASSUME NEW u \in Ticket
      PROVE  TicketInv(u)' /\ CountInv(u)'
  <2>1. TicketInv(u) /\ CountInv(u) /\ TypeOK
    BY DEF IInv
  <2>2. CountInv(u)'
    BY <2>1, <1>1, <1>3, <1>5, CountKept DEF Asking
  <2>3. CASE u = t
    <3>1. row'[job.r].ticket = t
      BY <1>3, <1>4 DEF SavesWell
    <3> QED
      BY <3>1, <2>2, <2>3, <1>4, <1>5 DEF TicketInv
  <2>4. CASE u # t
    <3>1. TicketInv(u)'
      BY <2>1, <2>4, <1>1, <1>3, <1>5, TicketOpened DEF timeVars, deskVars
    <3> QED
      BY <3>1, <2>2
  <2> QED
    BY <2>3, <2>4
<1> QED
  BY <1>6, <1>7, <1>8, <1>9 DEF IInv

LEMMA RemindSaveKeeps ==
  ASSUME IInv, NEW t \in Ticket, RemindSave(t)
  PROVE  IInv'
<1>1. /\ job # Idle /\ job.kind = "remind" /\ job.t = t /\ Save(job.r, job.copy)
      /\ job' = Job("poll", t, quoteId[t], row'[quoteId[t]], "PEND_RFQ") /\ deaths' = deaths
      /\ UNCHANGED <<state, quoteId, quote, held, timeVars, deskVars>>
  BY DEF RemindSave, Idle, ticketVars
<1>2. SavesWell
      /\ \A u \in Ticket : \/ ended[u]
                           \/ state[u] \in {"ACCEPTED", "PEND_RFQ"}
                           \/ quoteId[u] # 0 => row'[quoteId[u]] = row[quoteId[u]]
  BY <1>1, JobSaves DEF deskVars
<1>3. quoteId[t] # 0 /\ (~ended[t] => state[t] = "PEND_RFQ")
  BY <1>1 DEF IInv, JobInv
<1>4. quoteId[t] \in DOMAIN row /\ row[quoteId[t]].ticket = t
  BY <1>3, QuoteType DEF IInv, TicketInv
<1>5. row'[quoteId[t]] \in Request /\ row'[quoteId[t]].ticket = t
  BY <1>2, <1>4, SameDomain DEF IInv, SavesWell
<1>6. /\ job' \in Jobs /\ job' # Idle /\ job'.kind = "poll" /\ job'.t = t
      /\ job'.r = quoteId[t] /\ job'.copy = row'[quoteId[t]]
  BY <1>1, <1>4, <1>5, NewJob DEF States
<1>7. TypeOK'
  BY <1>1, <1>2, <1>6, EmsType DEF IInv, TypeOK
<1>8. DeskInv' /\ RowInv'
  BY <1>1, <1>2, DeskAside DEF deskVars
<1>9. JobInv'
  <2>1. row'[quoteId[t]].rate # NoRate => <<quoteId[t], row'[quoteId[t]].rate>> \in entered'
    BY <1>2, <1>4, <1>8, SameDomain DEF IInv, RowInv, Entered
  <2> QED
    BY <2>1, <1>1, <1>3, <1>5, <1>6 DEF JobInv, Entered, timeVars
<1>10. ASSUME NEW u \in Ticket
       PROVE  TicketInv(u)' /\ CountInv(u)'
  <2>1. TicketInv(u) /\ CountInv(u) /\ TypeOK
    BY DEF IInv
  <2>2. CountInv(u)'
    BY <2>1, <1>1, <1>2, CountKept DEF Asking
  <2>3. TicketInv(u)'
    BY <2>1, <1>1, <1>2, TicketOpened DEF timeVars, deskVars
  <2> QED
    BY <2>2, <2>3
<1> QED
  BY <1>7, <1>8, <1>9, <1>10 DEF IInv

\* What the copy that was read makes of the ticket.
LEMMA VerdictType ==
  ASSUME NEW r, NEW c
  PROVE  /\ Verdict(r, c) \in {"PENDRECON", "FAILED", "EXPIRED", "PEND_RFQ"}
         /\ Verdict(r, c) = "PENDRECON" => c.rate # NoRate
  BY DEF Verdict

\* The copy the EMS goes on with, and what it saved of it: the request is closed by then.
LEMMA DecideSaves ==
  ASSUME IInv, job # Idle, job.kind = "poll", entered' = entered,
         NEW to \in {"PENDRECON", "FAILED", "EXPIRED"}, NEW c,
         c = IF to = "EXPIRED" THEN [job.copy EXCEPT !.status = "EXPIRED"] ELSE Closed(job.copy),
         IF to = "EXPIRED" THEN Save(job.r, c) ELSE SaveClosed(job.r, job.copy)
  PROVE  /\ SavesWell /\ ClosesOnly /\ row'[job.r].status # "PENDING"
         /\ c \in Request /\ c.ticket = job.copy.ticket /\ c.rate = job.copy.rate
<1>1. job.r \in DOMAIN row /\ job.copy \in Request
  BY JobType DEF IInv
<1>2. /\ job.copy.ticket = row[job.r].ticket
      /\ job.copy.rate # NoRate => <<job.r, job.copy.rate>> \in entered
      /\ job.copy.status # "PENDING" => row[job.r].status # "PENDING"
  BY DEF IInv, JobInv, Entered
<1>3. c \in Request /\ c.ticket = job.copy.ticket /\ c.rate = job.copy.rate
      /\ c.status # "PENDING"
  <2>1. CASE to = "EXPIRED"
    <3> DEFINE e == [job.copy EXCEPT !.status = "EXPIRED"]
    <3>1. e \in Request /\ e.ticket = job.copy.ticket /\ e.rate = job.copy.rate
          /\ e.status = "EXPIRED"
      BY <1>1, ZenonT(60) DEF Request
    <3>2. c = e
      BY <2>1
    <3> HIDE DEF e
    <3> QED
      BY <3>1, <3>2
  <2>2. CASE to # "EXPIRED"
    BY <1>1, <2>2, ClosedType
  <2> QED
    BY <2>1, <2>2
<1>4. CASE Save(job.r, c)
  <2>1. TypeOK /\ RowInv /\ c.ticket = row[job.r].ticket /\ entered \subseteq entered'
        /\ (c.rate # NoRate => <<job.r, c.rate>> \in entered')
    BY <1>2, <1>3 DEF IInv
  <2>2. SavesWell /\ (c.status # "PENDING" => ClosesOnly) /\ row'[job.r] = c
    BY <2>1, <1>1, <1>3, <1>4, SaveWell
  <2> QED
    BY <2>2, <1>3
<1>5. CASE UNCHANGED row /\ job.copy.status # "PENDING"
  <2>1. SavesWell /\ ClosesOnly
    BY <1>5, NoSave DEF IInv
  <2> QED
    BY <2>1, <1>2, <1>3, <1>5
<1> QED
  BY <1>4, <1>5 DEF SaveClosed

LEMMA DecideKeeps ==
  ASSUME IInv, NEW t \in Ticket, Decide(t)
  PROVE  IInv'
<1> DEFINE to == Verdict(job.r, job.copy)
           c == IF to = "EXPIRED" THEN [job.copy EXCEPT !.status = "EXPIRED"] ELSE Closed(job.copy)
<1>1. /\ job # Idle /\ job.kind = "poll" /\ job.t = t
      /\ IF to = "PEND_RFQ" THEN job' = Idle /\ UNCHANGED row
         ELSE /\ job' = Job("close", t, job.r, c, to)
              /\ IF to = "EXPIRED" THEN Save(job.r, c) ELSE SaveClosed(job.r, job.copy)
      /\ UNCHANGED <<state, quoteId, quote, held, timeVars, deskVars, deaths>>
  BY DEF Decide, Idle, ticketVars
<1>2. to \in {"PENDRECON", "FAILED", "EXPIRED", "PEND_RFQ"}
      /\ (to = "PENDRECON" => job.copy.rate # NoRate)
  BY VerdictType
<1>3. c = IF to = "EXPIRED" THEN [job.copy EXCEPT !.status = "EXPIRED"] ELSE Closed(job.copy)
  OBVIOUS
<1> HIDE DEF to, c
<1>4. job.r \in DOMAIN row /\ job.copy \in Request
  BY <1>1, JobType DEF IInv
<1>5. /\ job.copy.ticket = t /\ row[job.r].ticket = t
      /\ job.copy.rate # NoRate => <<job.r, job.copy.rate>> \in entered
      /\ quoteId[t] # 0 /\ job.r = quoteId[t] /\ (~ended[t] => state[t] = "PEND_RFQ")
  BY <1>1 DEF IInv, JobInv, Entered
<1>6. entered' = entered /\ ended' = ended /\ desk' = desk
  BY <1>1 DEF deskVars, timeVars
<1>7. to # "PEND_RFQ" => /\ SavesWell /\ ClosesOnly /\ row'[job.r].status # "PENDING"
                         /\ c \in Request /\ c.ticket = t /\ c.rate = job.copy.rate
  <2>1. SUFFICES ASSUME to # "PEND_RFQ"
                 PROVE  /\ SavesWell /\ ClosesOnly /\ row'[job.r].status # "PENDING"
                        /\ c \in Request /\ c.ticket = t /\ c.rate = job.copy.rate
    OBVIOUS
  <2>2. to \in {"PENDRECON", "FAILED", "EXPIRED"}
    BY <2>1, <1>2
  <2>3. IF to = "EXPIRED" THEN Save(job.r, c) ELSE SaveClosed(job.r, job.copy)
    BY <2>1, <1>1
  <2> QED
    BY <2>2, <2>3, <1>1, <1>3, <1>5, <1>6, DecideSaves
<1>8. SavesWell /\ ClosesOnly
  BY <1>1, <1>6, <1>7, NoSave DEF IInv
<1>9. \/ job' = Idle
      \/ /\ job' \in Jobs /\ job' # Idle /\ job'.kind = "close" /\ job'.t = t /\ job'.r = job.r
         /\ job'.copy = c /\ job'.to = to /\ to # "PEND_RFQ"
  <2>1. CASE to # "PEND_RFQ"
    <3>1. to \in States /\ t \in Ticket
      BY <1>2 DEF States
    <3> QED
      BY <2>1, <3>1, <1>1, <1>4, <1>7, NewJob
  <2> QED
    BY <2>1, <1>1
<1>10. TypeOK'
  <2>1. job' \in {Idle} \cup Jobs
    BY <1>9
  <2> QED
    BY <2>1, <1>1, <1>8, EmsType DEF IInv, TypeOK
<1>11. DeskInv' /\ RowInv'
  BY <1>6, <1>8, DeskAside
<1>12. JobInv'
  <2>1. CASE job' = Idle
    BY <2>1 DEF JobInv
  <2>2. CASE job' # Idle
    <3>1. row'[job.r].ticket = t
      BY <1>4, <1>5, <1>8 DEF SavesWell
    <3> QED
      BY <2>2, <3>1, <1>1, <1>2, <1>5, <1>6, <1>7, <1>9 DEF JobInv, Entered
  <2> QED
    BY <2>1, <2>2
<1>13. ASSUME NEW u \in Ticket
       PROVE  TicketInv(u)' /\ CountInv(u)'
  <2>1. TicketInv(u) /\ CountInv(u) /\ TypeOK
    BY DEF IInv
  <2>2. ~Asking(u)
    BY <1>1 DEF Asking
  <2>3. CountInv(u)'
    BY <2>1, <2>2, <1>1, <1>8, CountKept
  <2>4. TicketInv(u)'
    BY <2>1, <1>1, <1>6, <1>8, TicketKept
  <2> QED
    BY <2>3, <2>4
<1> QED
  BY <1>10, <1>11, <1>12, <1>13 DEF IInv

LEMMA ReleaseKeeps ==
  ASSUME IInv, NEW t \in Ticket, Release(t)
  PROVE  IInv'
<1>1. /\ job # Idle /\ job.kind = "close" /\ job.t = t /\ SaveDeleted(job.r, job.copy)
      /\ job' = Idle /\ UNCHANGED <<quoteId, timeVars, deskVars, deaths>>
  BY DEF Release, Idle
<1>2. job.r \in DOMAIN row /\ job.copy \in Request
  BY <1>1, JobType DEF IInv
<1>3. /\ job.copy.ticket = t /\ row[job.r].ticket = t
      /\ job.copy.rate # NoRate => <<job.r, job.copy.rate>> \in entered
      /\ quoteId[t] # 0 /\ job.r = quoteId[t] /\ row[job.r].status # "PENDING"
      /\ job.to \in {"PENDRECON", "FAILED", "EXPIRED"}
      /\ job.to = "PENDRECON" => job.copy.rate # NoRate
  BY <1>1 DEF IInv, JobInv, Entered
<1>4. entered' = entered /\ ended' = ended /\ desk' = desk
  BY <1>1 DEF deskVars, timeVars
<1>5. SavesWell /\ ClosesOnly
  BY <1>1, <1>2, <1>3, <1>4, DeletedWell DEF IInv
<1>6. row'[job.r].ticket = t /\ row'[job.r].status # "PENDING"
  BY <1>2, <1>3, <1>5 DEF SavesWell, ClosesOnly
<1>7. job.copy.rate \in Rates \cup {NoRate} /\ job.to \in States
  BY <1>2, <1>3 DEF Request, States
<1>8. /\ state' \in [Ticket -> States] /\ held' \in [Ticket -> BOOLEAN]
      /\ quote' \in [Ticket -> Rates \cup {NoRate}]
      /\ \A u \in Ticket \ {t} : state'[u] = state[u] /\ quote'[u] = quote[u]
      /\ \/ state'[t] = state[t] /\ quote'[t] = quote[t]
         \/ state'[t] = job.to /\ (job.to = "PENDRECON" => quote'[t] = job.copy.rate)
  <2>1. state \in [Ticket -> States] /\ held \in [Ticket -> BOOLEAN]
        /\ quote \in [Ticket -> Rates \cup {NoRate}]
    BY DEF IInv, TypeOK
  <2>2. CASE held[t]
    <3>1. /\ state' = [state EXCEPT ![t] = job.to]
          /\ quote' = [quote EXCEPT ![t] = IF job.to = "PENDRECON" THEN job.copy.rate ELSE @]
          /\ held' = [held EXCEPT ![t] = FALSE]
      BY <2>2 DEF Release
    <3>2. state' \in [Ticket -> States] /\ held' \in [Ticket -> BOOLEAN] /\ state'[t] = job.to
          /\ \A u \in Ticket \ {t} : state'[u] = state[u]
      BY <3>1, <2>1, <1>7
    <3>3. quote' \in [Ticket -> Rates \cup {NoRate}]
          /\ \A u \in Ticket \ {t} : quote'[u] = quote[u]
      BY <3>1, <2>1, <1>7
    <3>4. job.to = "PENDRECON" => quote'[t] = job.copy.rate
      BY <3>1, <2>1
    <3> QED
      BY <3>2, <3>3, <3>4
  <2>3. CASE ~held[t]
    BY <2>1, <2>3 DEF Release
  <2> QED
    BY <2>2, <2>3
<1>9. TypeOK'
  BY <1>1, <1>5, <1>8, EmsType DEF IInv, TypeOK
<1>10. DeskInv' /\ RowInv'
  BY <1>4, <1>5, DeskAside
<1>11. JobInv'
  BY <1>1 DEF JobInv
<1>12. ASSUME NEW u \in Ticket
       PROVE  TicketInv(u)' /\ CountInv(u)'
  <2>1. TicketInv(u) /\ CountInv(u) /\ TypeOK /\ ~Asking(u)
    BY <1>1 DEF IInv, Asking
  <2>2. state'[u] = "ACCEPTED" => state[u] = "ACCEPTED"
    BY <1>3, <1>8
  <2>3. CountInv(u)'
    BY <2>1, <2>2, <1>1, <1>5, CountKept
  <2>4. CASE state'[u] = state[u] /\ quote'[u] = quote[u]
    <3>1. TicketInv(u)'
      BY <2>1, <2>4, <1>1, <1>4, <1>5, TicketKept
    <3> QED
      BY <3>1, <2>3
  <2>5. CASE /\ u = t /\ state'[t] = job.to
             /\ job.to = "PENDRECON" => quote'[t] = job.copy.rate
    <3>1. quoteId'[t] = job.r
      BY <1>1, <1>3
    <3>2. TicketInv(t)'
      BY <2>5, <3>1, <1>3, <1>4, <1>6 DEF TicketInv
    <3> QED
      BY <3>2, <2>3, <2>5
  <2> QED
    BY <2>4, <2>5, <1>8
<1> QED
  BY <1>9, <1>10, <1>11, <1>12 DEF IInv

LEMMA EmsCrashKeeps ==
  ASSUME IInv, EmsCrash
  PROVE  IInv'
<1>1. /\ deaths' = deaths + 1 /\ job' = Idle
      /\ \/ UNCHANGED row
         \/ job.kind = "form" /\ SavePosted(job.r, job.copy)
         \/ job.kind = "close" /\ SaveDeleted(job.r, job.copy)
      /\ UNCHANGED <<state, quoteId, quote, held, timeVars, deskVars>>
  BY DEF EmsCrash, ticketVars
<1>2. entered' = entered /\ ended' = ended /\ desk' = desk
  BY <1>1 DEF deskVars, timeVars
<1>3. /\ SavesWell
      /\ \/ ClosesOnly
         \/ \A u \in Ticket : \/ ended[u]
                              \/ state[u] \in {"ACCEPTED", "PEND_RFQ"}
                              \/ quoteId[u] # 0 => row'[quoteId[u]] = row[quoteId[u]]
  <2>1. CASE UNCHANGED row
    BY <2>1, <1>2, NoSave DEF IInv
  <2>2. CASE job.kind = "form" /\ SavePosted(job.r, job.copy)
    <3>1. job # Idle
      BY <2>2 DEF Idle
    <3>2. UNCHANGED row \/ Save(job.r, job.copy)
      BY <2>2 DEF SavePosted
    <3> QED
      BY <3>1, <3>2, <2>2, <1>2, JobSaves
  <2>3. CASE job.kind = "close" /\ SaveDeleted(job.r, job.copy)
    <3>1. job # Idle
      BY <2>3 DEF Idle
    <3>2. job.r \in DOMAIN row /\ job.copy \in Request
      BY <3>1, JobType DEF IInv
    <3>3. job.copy.ticket = row[job.r].ticket
          /\ (job.copy.rate # NoRate => <<job.r, job.copy.rate>> \in entered)
      BY <3>1 DEF IInv, JobInv, Entered
    <3> QED
      BY <2>3, <3>2, <3>3, <1>2, DeletedWell DEF IInv
  <2> QED
    BY <2>1, <2>2, <2>3, <1>1
<1>4. TypeOK'
  <2>1. deaths' \in Nat
    BY <1>1 DEF IInv, TypeOK
  <2> QED
    BY <2>1, <1>1, <1>3, EmsType DEF IInv, TypeOK
<1>5. DeskInv' /\ RowInv'
  BY <1>2, <1>3, DeskAside
<1>6. JobInv'
  BY <1>1 DEF JobInv
<1>7. ASSUME NEW u \in Ticket
      PROVE  TicketInv(u)' /\ CountInv(u)'
  <2>1. TicketInv(u) /\ TypeOK
    BY DEF IInv
  <2>2. TicketInv(u)'
    BY <2>1, <1>1, <1>2, <1>3, TicketKept, TicketOpened
  <2>3. Requests(u)' = Requests(u)
    BY <2>1, <1>3, SameDomain DEF Requests, SavesWell
  <2>4. Cardinality(Requests(u)) <= 1 + deaths /\ deaths \in Nat
        /\ Cardinality(Requests(u)) \in Nat
    <3>1. DOMAIN row = 1 .. Len(row) /\ Len(row) \in Int /\ 1 \in Int
      BY DEF IInv, TypeOK
    <3>2. IsFiniteSet(1 .. Len(row))
      BY <3>1, FS_Interval
    <3>3. Requests(u) \subseteq 1 .. Len(row)
      BY <3>1 DEF Requests
    <3>4. IsFiniteSet(Requests(u))
      BY <3>2, <3>3, FS_Subset
    <3> QED
      BY <3>4, FS_CardinalityType DEF IInv, CountInv, TypeOK
  <2>5. CountInv(u)'
    BY <2>3, <2>4, <1>1 DEF CountInv
  <2> QED
    BY <2>2, <2>5
<1> QED
  BY <1>4, <1>5, <1>6, <1>7 DEF IInv

-----------------------------------------------------------------------------
(***************************************************************************)
(* The theorems                                                            *)
(***************************************************************************)

LEMMA InitInv == Init => IInv
<1> SUFFICES ASSUME Init
             PROVE  IInv
  OBVIOUS
<1>1. TypeOK
  BY DEF Init, TypeOK, States, Rates
<1>2. RowInv /\ JobInv /\ DeskInv
  BY DEF Init, RowInv, JobInv, DeskInv
<1>3. ASSUME NEW t \in Ticket
      PROVE  TicketInv(t) /\ CountInv(t)
  <2>1. TicketInv(t)
    BY DEF Init, TicketInv
  <2>2. Requests(t) = {}
    BY DEF Init, Requests
  <2>3. Cardinality(Requests(t)) = 0
    BY <2>2, FS_EmptySet
  <2>4. CountInv(t)
    BY <2>3 DEF Init, CountInv
  <2> QED
    BY <2>1, <2>4
<1> QED
  BY <1>1, <1>2, <1>3 DEF IInv

LEMMA NextInv == IInv /\ [Next]_vars => IInv'
<1> SUFFICES ASSUME IInv, [Next]_vars
             PROVE  IInv'
  OBVIOUS
<1>1. ASSUME NEW t \in Ticket, EmsStep(t)
      PROVE  IInv'
  BY <1>1, AskDeskKeeps, AskFailsKeeps, FormPostedKeeps, RemindKeeps, RemindSaveKeeps, PollKeeps,
     DecideKeeps, ReleaseKeeps DEF EmsStep
<1>2. ASSUME NEW t \in Ticket, EndTime(t)
      PROVE  IInv'
  BY <1>2, EndTimeKeeps
<1>3. ASSUME NEW w \in Worker, DeskStep(w)
      PROVE  IInv'
  BY <1>3, DeskReadKeeps, DeskSubmitKeeps, DeskCancelKeeps, DeskCloseKeeps, DeskDropKeeps
  DEF DeskStep
<1>4. ASSUME NEW r \in DOMAIN row, Lapse(r)
      PROVE  IInv'
  BY <1>4, LapseKeeps
<1>5. ASSUME EmsCrash
      PROVE  IInv'
  BY <1>5, EmsCrashKeeps
<1>6. ASSUME UNCHANGED vars
      PROVE  IInv'
  <2>1. UNCHANGED <<row, state, quoteId, quote, held, ended, lapsed, job, desk, entered, clicks, deaths>>
    BY <1>6 DEF vars, ticketVars, timeVars, deskVars
  <2>2. TypeOK'
    BY <2>1 DEF IInv, TypeOK
  <2>3. RowInv' /\ JobInv' /\ DeskInv'
    BY <2>1 DEF IInv, RowInv, JobInv, DeskInv, Entered
  <2>4. ASSUME NEW t \in Ticket
        PROVE  TicketInv(t)' /\ CountInv(t)'
    BY <2>1 DEF IInv, TicketInv, CountInv, Requests, Asking
  <2> QED
    BY <2>2, <2>3, <2>4 DEF IInv
<1> QED
  BY <1>1, <1>2, <1>3, <1>4, <1>5, <1>6 DEF Next

LEMMA InvAlways == Spec => []IInv
  BY InitInv, NextInv, PTL DEF Spec

\* Every variable holds a value of its kind, and what the EMS and the workers are in the
\* middle of is about a request in the database.
THEOREM DeskTypeCorrect == Spec => []TypeOK
<1>1. IInv => TypeOK
  BY DEF IInv
<1> QED
  BY <1>1, InvAlways, PTL

\* However many workers click, and whichever copy is saved over which, a ticket goes on as
\* quoted only with a rate somebody entered for its own request.
THEOREM DeskQuotedByDesk == Spec => []QuotedByDesk
<1>1. IInv => QuotedByDesk
  BY DEF IInv, TicketInv, QuotedByDesk
<1> QED
  BY <1>1, InvAlways, PTL

\* The desk is asked about a ticket at most once for each process the EMS has been.
THEOREM DeskRequestsAccounted == Spec => []RequestsAccounted
<1>1. IInv => RequestsAccounted
  BY DEF IInv, CountInv, Requests, RequestsAccounted
<1> QED
  BY <1>1, InvAlways, PTL

\* A ticket the EMS decided before its end time has no pending request left, whoever saved
\* the request last.
THEOREM DeskDecidedClosed == Spec => []DecidedClosed
<1>1. IInv => DecidedClosed
  BY DEF IInv, TicketInv, DecidedClosed
<1> QED
  BY <1>1, InvAlways, PTL

=============================================================================

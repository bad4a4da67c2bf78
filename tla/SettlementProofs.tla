-------------------------- MODULE SettlementProofs --------------------------
(***************************************************************************)
(* Proofs about Settlement, for any tickets and any number of deaths.      *)
(***************************************************************************)
EXTENDS Settlement, TLAPS

\* The state of a ticket that is still to be completed, or still to be settled.
ToComplete == {"FILLED", "PENDBENE"}
ToSettle == ToComplete \cup {"PENDSETTLE"}

\* What holds of one ticket in every reachable state: until a deal is completed
\* (settled) the calls to the broker are those that a death or a failure, counted
\* in restarts and attempt, explains; and a recorded settlement is behind it.
Explained(t) ==
  /\ completed[t] <= 1 + restarts
  /\ state[t] \in ToComplete => completed[t] <= restarts
  /\ settled[t] <= 1 + attempt[t] + restarts
  /\ state[t] \in ToSettle => settled[t] <= attempt[t] + restarts

Recorded(t) ==
  /\ state[t] \in {"PENDSETTLE", "SETTLE_FAIL", "PENDRECON", "DONE"} => completed[t] > 0
  /\ state[t] \in {"PENDRECON", "DONE"} => settled[t] > 0
  /\ phase[t] = "RECON" => state[t] \in {"PENDRECON", "DONE", "DONE_PENDSETTLE"}

TicketInv(t) == Explained(t) /\ Recorded(t)

IInv == TypeOK /\ \A t \in Ticket : TicketInv(t)

\* A call is counted for its own ticket only, at most once, and surely when the
\* broker reports success.
LEMMA CalledCounts ==
  ASSUME NEW count \in [Ticket -> Nat], NEW new, NEW t \in Ticket, NEW ok \in BOOLEAN,
         \E n \in (IF ok THEN {1} ELSE {0, 1}) : new = [count EXCEPT ![t] = @ + n]
  PROVE  /\ new \in [Ticket -> Nat]
         /\ new[t] \in {count[t], count[t] + 1}
         /\ ok => new[t] = count[t] + 1
         /\ \A u \in Ticket \ {t} : new[u] = count[u]
  OBVIOUS

\* The clean-up dates stay among those the handlers compute.
LEMMA CutOffKept ==
  ASSUME cutoff \in [Ticket -> {NoDate, Evening, Week}], NEW t \in Ticket,
         NEW d \in {Evening, Week}, KeepCutOff(t, d)
  PROVE  cutoff' \in [Ticket -> {NoDate, Evening, Week}]
  BY DEF KeepCutOff, CutOff

\* What check_settlement leaves behind, whatever the date.
LEMMA SettleLeaves ==
  ASSUME TypeOK, NEW t \in Ticket, NEW s \in States, NEW p \in Phases, Settle(t, s, p)
  PROVE  /\ state' \in [Ticket -> States] /\ phase' \in [Ticket -> Phases]
         /\ owned' \in [Ticket -> BOOLEAN] /\ cutoff' \in [Ticket -> {NoDate, Evening, Week}]
         /\ state'[t] \in {s, "DONE_PENDSETTLE"} /\ phase'[t] = p
         /\ \A u \in Ticket \ {t} : state'[u] = state[u] /\ phase'[u] = phase[u]
<1>1. cutoff' \in [Ticket -> {NoDate, Evening, Week}]
  BY CutOffKept DEF TypeOK, Settle
<1>2. Set(t, s, p, TRUE) \/ Set(t, "DONE_PENDSETTLE", p, FALSE)
  BY DEF Settle
<1>3. /\ state' \in [Ticket -> States] /\ phase' \in [Ticket -> Phases]
      /\ owned' \in [Ticket -> BOOLEAN]
  <2>1. \E u \in States, o \in BOOLEAN :
          /\ state' = [state EXCEPT ![t] = u] /\ phase' = [phase EXCEPT ![t] = p]
          /\ owned' = [owned EXCEPT ![t] = o]
    BY <1>2 DEF Set, States
  <2>2. state \in [Ticket -> States] /\ phase \in [Ticket -> Phases] /\ owned \in [Ticket -> BOOLEAN]
    BY DEF TypeOK
  <2> QED
    BY <2>1, <2>2
<1>4. /\ state'[t] \in {s, "DONE_PENDSETTLE"} /\ phase'[t] = p
      /\ \A u \in Ticket \ {t} : state'[u] = state[u] /\ phase'[u] = phase[u]
  BY <1>2 DEF TypeOK, Set
<1> QED
  BY <1>1, <1>3, <1>4

\* A step about one ticket leaves what holds of the others.
LEMMA OneTicket ==
  ASSUME IInv, NEW t \in Ticket, TypeOK', TicketInv(t)', restarts' = restarts,
         \A u \in Ticket \ {t} :
           /\ state'[u] = state[u] /\ phase'[u] = phase[u] /\ attempt'[u] = attempt[u]
           /\ completed'[u] = completed[u] /\ settled'[u] = settled[u]
  PROVE  IInv'
  BY DEF IInv, TicketInv, Explained, Recorded

\* The steps of the OMS keep the invariant: check_filled, ...
LEMMA FilledKeeps ==
  ASSUME IInv, NEW t \in Ticket, CheckFilled(t),
         UNCHANGED <<outright, attempt, benes, known, clock, restarts>>
  PROVE  IInv'
<1> USE DEF IInv, TypeOK
<1>1. CASE known[t] /\ \E ok \in BOOLEAN :
             /\ Called(completed, t, ok)
             /\ Set(t, IF ok THEN "PENDSETTLE" ELSE "BOOKING_FAILURE", "SETTLE", TRUE)
  <2>1. PICK ok \in BOOLEAN :
             /\ Called(completed, t, ok)
             /\ Set(t, IF ok THEN "PENDSETTLE" ELSE "BOOKING_FAILURE", "SETTLE", TRUE)
    BY <1>1
  <2>2. /\ completed' \in [Ticket -> Nat]
        /\ completed'[t] \in {completed[t], completed[t] + 1}
        /\ ok => completed'[t] = completed[t] + 1
        /\ \A u \in Ticket \ {t} : completed'[u] = completed[u]
    BY <2>1, CalledCounts DEF Called
  <2>3. settled' = settled /\ cutoff' = cutoff
    BY DEF CheckFilled
  <2>4. /\ state' \in [Ticket -> States] /\ phase' \in [Ticket -> Phases]
        /\ owned' \in [Ticket -> BOOLEAN]
        /\ state'[t] = IF ok THEN "PENDSETTLE" ELSE "BOOKING_FAILURE"
        /\ phase'[t] = "SETTLE"
        /\ \A u \in Ticket \ {t} : state'[u] = state[u] /\ phase'[u] = phase[u]
    BY <2>1 DEF Set, States, Phases
  <2>5. TypeOK'
    BY <2>2, <2>3, <2>4
  <2>6. state[t] = "FILLED" /\ TicketInv(t)
    BY DEF CheckFilled
  <2>7. TicketInv(t)'
    BY <2>2, <2>3, <2>4, <2>6, ConstantsAssumption DEF TicketInv, Explained, Recorded, ToComplete, ToSettle
  <2> QED
    BY <2>2, <2>3, <2>4, <2>5, <2>7, OneTicket
<1>2. CASE ~known[t] /\ Set(t, "PENDBENE", "SETTLE", TRUE) /\ UNCHANGED completed
  <2>1. settled' = settled /\ completed' = completed /\ cutoff' = cutoff /\ state[t] = "FILLED"
    BY <1>2 DEF CheckFilled
  <2>2. /\ state' \in [Ticket -> States] /\ phase' \in [Ticket -> Phases]
        /\ owned' \in [Ticket -> BOOLEAN]
        /\ state'[t] = "PENDBENE" /\ phase'[t] = "SETTLE"
        /\ \A u \in Ticket \ {t} : state'[u] = state[u] /\ phase'[u] = phase[u]
    BY <1>2 DEF Set, States, Phases
  <2>3. TypeOK' /\ TicketInv(t)'
    BY <2>1, <2>2 DEF TicketInv, Explained, Recorded, ToComplete, ToSettle
  <2> QED
    BY <2>1, <2>2, <2>3, OneTicket
<1> QED
  BY <1>1, <1>2 DEF CheckFilled

\* ... the second half of check_settlement, with the deal completed before or just now, ...
LEMMA TryKeeps ==
  ASSUME IInv, NEW t \in Ticket, TrySettle(t), state[t] \in {"PENDSETTLE", "PENDBENE"},
         completed' \in [Ticket -> Nat], completed'[t] > 0, completed'[t] <= 1 + restarts,
         \A u \in Ticket \ {t} : completed'[u] = completed[u],
         UNCHANGED <<outright, attempt, benes, known, clock, restarts>>
  PROVE  IInv'
<1> USE DEF IInv, TypeOK
<1>0. TicketInv(t) /\ TypeOK
  OBVIOUS
<1>1. ASSUME settled' = settled, NEW s \in {"DONE_PENDSETTLE", "PENDSETTLE"},
             NEW p \in {"SETTLE", phase[t]}, Settle(t, s, p)
      PROVE  IInv'
  <2>1. /\ state' \in [Ticket -> States] /\ phase' \in [Ticket -> Phases]
        /\ owned' \in [Ticket -> BOOLEAN] /\ cutoff' \in [Ticket -> {NoDate, Evening, Week}]
        /\ state'[t] \in {s, "DONE_PENDSETTLE"} /\ phase'[t] = p
        /\ \A u \in Ticket \ {t} : state'[u] = state[u] /\ phase'[u] = phase[u]
    BY <1>0, <1>1, SettleLeaves DEF States, Phases
  <2>2. phase[t] # "RECON"
    BY <1>0 DEF TicketInv, Recorded
  <2>3. TicketInv(t)'
    BY <1>0, <1>1, <2>1, <2>2, ConstantsAssumption DEF TicketInv, Explained, Recorded, ToComplete, ToSettle
  <2> QED
    BY <1>1, <2>1, <2>3, OneTicket
<1>2. ASSUME NEW ok \in BOOLEAN, Called(settled, t, ok),
             IF ok THEN Settle(t, "PENDRECON", "RECON") ELSE Settle(t, "SETTLE_FAIL", phase[t])
      PROVE  IInv'
  <2>1. /\ settled' \in [Ticket -> Nat]
        /\ settled'[t] \in {settled[t], settled[t] + 1}
        /\ ok => settled'[t] = settled[t] + 1
        /\ \A u \in Ticket \ {t} : settled'[u] = settled[u]
    BY <1>2, CalledCounts DEF Called
  <2> DEFINE s == IF ok THEN "PENDRECON" ELSE "SETTLE_FAIL"
             p == IF ok THEN "RECON" ELSE phase[t]
  <2>2. s \in States /\ p \in Phases /\ Settle(t, s, p)
    BY <1>2 DEF States, Phases
  <2>3. /\ state' \in [Ticket -> States] /\ phase' \in [Ticket -> Phases]
        /\ owned' \in [Ticket -> BOOLEAN] /\ cutoff' \in [Ticket -> {NoDate, Evening, Week}]
        /\ state'[t] \in {s, "DONE_PENDSETTLE"} /\ phase'[t] = p
        /\ \A u \in Ticket \ {t} : state'[u] = state[u] /\ phase'[u] = phase[u]
    BY <1>0, <2>2, SettleLeaves
  <2>4. TicketInv(t)'
    <3>1. phase[t] # "RECON"
      BY <1>0 DEF TicketInv, Recorded
    <3> QED
      BY <1>0, <2>1, <2>3, <3>1 DEF TicketInv, Explained, Recorded, ToComplete, ToSettle
  <2> QED
    BY <2>1, <2>3, <2>4, OneTicket
<1> QED
  BY <1>1, <1>2 DEF TrySettle

\* ... all of it, ...
LEMMA SettlementKeeps ==
  ASSUME IInv, NEW t \in Ticket, CheckSettlement(t),
         UNCHANGED <<outright, attempt, benes, known, clock, restarts>>
  PROVE  IInv'
<1> USE DEF IInv, TypeOK
<1>0. TicketInv(t) /\ TypeOK
  OBVIOUS
<1>1. CASE state[t] = "PENDSETTLE" /\ TrySettle(t) /\ UNCHANGED completed
  <2>1. completed'[t] > 0 /\ completed'[t] <= 1 + restarts
    BY <1>0, <1>1 DEF TicketInv, Explained, Recorded
  <2> QED
    BY <1>1, <2>1, TryKeeps
<1>2. CASE state[t] = "PENDBENE" /\ Called(completed, t, TRUE) /\ TrySettle(t)
  <2>1. /\ completed' \in [Ticket -> Nat]
        /\ completed'[t] = completed[t] + 1
        /\ \A u \in Ticket \ {t} : completed'[u] = completed[u]
    BY <1>2, CalledCounts DEF Called
  <2>2. completed'[t] > 0 /\ completed'[t] <= 1 + restarts
    BY <1>0, <1>2, <2>1 DEF TicketInv, Explained, ToComplete
  <2> QED
    BY <1>2, <2>1, <2>2, TryKeeps
<1>3. ASSUME state[t] = "PENDBENE", UNCHANGED settled,
             NEW s \in {"BOOKING_FAILURE", "PENDBENE"}, Settle(t, s, phase[t]),
             \/ completed' = completed
             \/ s = "BOOKING_FAILURE" /\ Called(completed, t, FALSE)
      PROVE  IInv'
  <2>1. /\ completed' \in [Ticket -> Nat]
        /\ completed'[t] \in {completed[t], completed[t] + 1}
        /\ s = "PENDBENE" => completed' = completed
        /\ \A u \in Ticket \ {t} : completed'[u] = completed[u]
    BY <1>3, CalledCounts DEF Called
  <2>2. s \in States /\ phase[t] \in Phases
    BY DEF States
  <2>3. /\ state' \in [Ticket -> States] /\ phase' \in [Ticket -> Phases]
        /\ owned' \in [Ticket -> BOOLEAN] /\ cutoff' \in [Ticket -> {NoDate, Evening, Week}]
        /\ state'[t] \in {s, "DONE_PENDSETTLE"} /\ phase'[t] = phase[t]
        /\ \A u \in Ticket \ {t} : state'[u] = state[u] /\ phase'[u] = phase[u]
    BY <1>0, <1>3, <2>2, SettleLeaves
  <2>4. TicketInv(t)'
    BY <1>0, <1>3, <2>1, <2>3, ConstantsAssumption DEF TicketInv, Explained, Recorded, ToComplete, ToSettle
  <2> QED
    BY <1>3, <2>1, <2>3, <2>4, OneTicket
<1> QED
  BY <1>1, <1>2, <1>3 DEF CheckSettlement, brokerVars

\* ... check_failed_settle, ...
LEMMA FailedSettleKeeps ==
  ASSUME IInv, NEW t \in Ticket, CheckFailedSettle(t), UNCHANGED <<outright, benes, known, clock, restarts>>
  PROVE  IInv'
<1> USE DEF IInv, TypeOK
<1>1. /\ state' \in [Ticket -> States] /\ state'[t] = "PENDSETTLE" /\ state[t] = "SETTLE_FAIL"
      /\ attempt' \in [Ticket -> 0 .. MaxSettlementRetryAttempt]
      /\ attempt'[t] = attempt[t] + 1
      /\ \A u \in Ticket \ {t} : state'[u] = state[u] /\ attempt'[u] = attempt[u]
      /\ UNCHANGED <<phase, owned, cutoff, completed, settled>>
  BY DEF CheckFailedSettle, States, brokerVars, MaxSettlementRetryAttempt
<1>2. TicketInv(t)'
  BY <1>1, ConstantsAssumption DEF TicketInv, Explained, Recorded, ToComplete, ToSettle, MaxSettlementRetryAttempt
<1> QED
  BY <1>1, <1>2, OneTicket

\* ... check_recon and check_done.
LEMMA ReleaseKeeps ==
  ASSUME IInv, NEW t \in Ticket, CheckRecon(t) \/ CheckDone(t),
         UNCHANGED <<outright, attempt, benes, known, clock, restarts>>
  PROVE  IInv'
<1> USE DEF IInv, TypeOK
<1>0. cutoff' \in [Ticket -> {NoDate, Evening, Week}]
  BY CutOffKept DEF CheckRecon, CheckDone
<1>1. /\ state' \in [Ticket -> States] /\ owned' \in [Ticket -> BOOLEAN]
      /\ phase' = phase /\ completed' = completed /\ settled' = settled
      /\ \/ state[t] = "PENDRECON" /\ state'[t] = "DONE"
         \/ state'[t] = state[t]
      /\ \A u \in Ticket \ {t} : state'[u] = state[u]
  BY DEF CheckRecon, CheckDone, Set, States, brokerVars
<1>2. TicketInv(t)'
  BY <1>1 DEF TicketInv, Explained, Recorded, ToComplete, ToSettle
<1> QED
  BY <1>0, <1>1, <1>2, OneTicket

\* A death explains one more call to the broker, for whichever ticket.
LEMMA DeathKeeps ==
  ASSUME IInv, Deaths
  PROVE  IInv'
<1> USE DEF IInv, TypeOK
<1>1. /\ restarts' = restarts + 1
      /\ UNCHANGED <<outright, state, phase, owned, benes, attempt, clock>>
      /\ known' = benes /\ cutoff' \in [Ticket -> {NoDate, Evening, Week}]
  BY DEF Deaths, Crash, CrashCompleted, CrashSettled, Restart
<1>2. /\ completed' \in [Ticket -> Nat] /\ settled' \in [Ticket -> Nat]
      /\ \A u \in Ticket : /\ completed'[u] \in {completed[u], completed[u] + 1}
                           /\ settled'[u] \in {settled[u], settled[u] + 1}
                           /\ completed'[u] # completed[u] => state[u] \in ToComplete
                           /\ settled'[u] # settled[u] => state[u] \in ToSettle
  <2>1. CASE Crash
    BY <2>1 DEF Crash, brokerVars
  <2>2. ASSUME NEW t \in Ticket, CrashCompleted(t)
        PROVE  <1>2!:
    <3>1. /\ completed' \in [Ticket -> Nat]
          /\ completed'[t] = completed[t] + 1
          /\ \A u \in Ticket \ {t} : completed'[u] = completed[u]
      BY <2>2, CalledCounts DEF Called, CrashCompleted
    <3> QED
      BY <2>2, <3>1 DEF CrashCompleted, ToComplete
  <2>3. ASSUME NEW t \in Ticket, CrashSettled(t)
        PROVE  <1>2!:
    <3>1. /\ settled' \in [Ticket -> Nat]
          /\ settled'[t] = settled[t] + 1
          /\ \A u \in Ticket \ {t} : settled'[u] = settled[u]
      BY <2>3, CalledCounts DEF Called, CrashSettled
    <3> QED
      BY <2>3, <3>1 DEF CrashSettled, ToSettle
  <2> QED
    BY <2>1, <2>2, <2>3 DEF Deaths
<1>3. TypeOK'
  BY <1>1, <1>2
<1>4. ASSUME NEW u \in Ticket
      PROVE  TicketInv(u)'
  BY <1>1, <1>2 DEF TicketInv, Explained, Recorded, ToComplete, ToSettle
<1> QED
  BY <1>3, <1>4

\* The inductive invariant holds of every behaviour.
THEOREM InvariantHolds == Spec => []IInv
<1>1. Init => IInv
  BY DEF Init, IInv, TypeOK, States, Phases, TicketInv, Explained, Recorded, ToComplete,
         ToSettle, Before, Evening, Week, NoDate, MaxSettlementRetryAttempt
<1>2. IInv /\ [Next]_vars => IInv'
  <2> SUFFICES ASSUME IInv, [Next]_vars
               PROVE  IInv'
    OBVIOUS
  <2>1. ASSUME NEW t \in Ticket, CycleTicket(t)
        PROVE  IInv'
    BY <2>1, FilledKeeps, SettlementKeeps, ReleaseKeeps, FailedSettleKeeps DEF CycleTicket
  <2>2. ASSUME NEW t \in Ticket, GiveBeneficiaries(t)
        PROVE  IInv'
    BY <2>2 DEF GiveBeneficiaries, IInv, TypeOK, TicketInv, Explained, Recorded, brokerVars
  <2>3. ASSUME NEW t \in Ticket, Tick(t)
        PROVE  IInv'
    BY <2>3 DEF Tick, IInv, TypeOK, TicketInv, Explained, Recorded, brokerVars, Before, Week
  <2>4. CASE UNCHANGED vars
    BY <2>4 DEF vars, IInv, TypeOK, TicketInv, Explained, Recorded
  <2> QED
    BY <2>1, <2>2, <2>3, <2>4, DeathKeeps DEF Next
<1> QED
  BY <1>1, <1>2, PTL DEF Spec

\* Every variable holds a value of its kind: a step of the handlers leaves each deal in a
\* state and a phase there are, whatever the broker answered.
THEOREM SettlementTypeCorrect == Spec => []TypeOK
<1>1. IInv => TypeOK
  BY DEF IInv
<1> QED
  BY <1>1, InvariantHolds, PTL

\* The calls that settle a deal are one, and one for every retry and every death.
THEOREM SettleAccountedHolds == Spec => []SettleAccounted
<1>1. IInv => SettleAccounted
  BY DEF IInv, TicketInv, Explained, SettleAccounted
<1> QED
  BY <1>1, InvariantHolds, PTL

\* The calls that complete a deal are one, and one for every death.
THEOREM CompleteAccountedHolds == Spec => []CompleteAccounted
<1>1. IInv => CompleteAccounted
  BY DEF IInv, TicketInv, Explained, CompleteAccounted
<1> QED
  BY <1>1, InvariantHolds, PTL

\* A ticket that is DONE was completed and settled at the broker.
THEOREM DoneIsSettledHolds == Spec => []DoneIsSettled
<1>1. IInv => DoneIsSettled
  BY DEF IInv, TicketInv, Recorded, DoneIsSettled
<1> QED
  BY <1>1, InvariantHolds, PTL

\* No step settles a deal whose settlement has been recorded.
THEOREM NotSettledAgainHolds == Spec => NotSettledAgain
<1>1. IInv /\ [Next]_vars => [\A t \in Ticket : phase[t] = "RECON" => settled'[t] = settled[t]]_vars
  <2> SUFFICES ASSUME IInv, Next, NEW t \in Ticket, phase[t] = "RECON"
               PROVE  settled'[t] = settled[t]
    OBVIOUS
  <2>1. settled \in [Ticket -> Nat] /\ state[t] \notin {"PENDSETTLE", "PENDBENE", "FILLED"}
    BY DEF IInv, TypeOK, TicketInv, Recorded
  <2>2. ASSUME NEW u \in Ticket, Called(settled, u, TRUE) \/ Called(settled, u, FALSE), u # t
        PROVE  settled'[t] = settled[t]
    BY <2>1, <2>2, CalledCounts DEF Called
  <2>3. ASSUME NEW u \in Ticket, CycleTicket(u)
        PROVE  settled'[t] = settled[t]
    BY <2>1, <2>2, <2>3 DEF CycleTicket, CheckFilled, CheckSettlement, TrySettle, CheckRecon,
                            CheckDone, CheckFailedSettle, brokerVars
  <2>4. CASE Deaths
    BY <2>1, <2>2, <2>4 DEF Deaths, Crash, CrashCompleted, CrashSettled, brokerVars
  <2>5. ASSUME NEW u \in Ticket, GiveBeneficiaries(u) \/ Tick(u)
        PROVE  settled'[t] = settled[t]
    BY <2>5 DEF GiveBeneficiaries, Tick, brokerVars
  <2> QED
    BY <2>3, <2>4, <2>5 DEF Next
<1> QED
  BY <1>1, InvariantHolds, PTL DEF Spec, NotSettledAgain
=============================================================================

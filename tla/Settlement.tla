----------------------------- MODULE Settlement -----------------------------
(***************************************************************************)
(* What the OMS does with a ticket after its deal: complete it with the    *)
(* broker, settle it when it is time, retry a failed settlement, and let   *)
(* go of the ticket by date.  No other process writes a ticket now (an     *)
(* administrator may add beneficiaries), so the cached copy is the row but *)
(* for the beneficiaries.  A step is one pass of cycle_ticket; the process *)
(* may die between a call to the broker and the save that follows it.      *)
(***************************************************************************)
EXTENDS Naturals

CONSTANTS
  Ticket,      \* ids of filled tickets
  MaxRestarts  \* bound: deaths of the OMS

ASSUME ConstantsAssumption == MaxRestarts \in Nat

VARIABLES
  outright,  \* the ticket is an NDF, or a forward at Monex
  state,     \* internal_state
  phase,     \* phase
  owned,     \* oms_owner is set, so the ticket is in the OMS's cache
  benes,     \* the row has beneficiaries
  known,     \* ... and so has the cached copy
  attempt,   \* settlement_attempt
  cutoff,    \* _cleanup_date of the cached copy, kept from when it is first computed
  clock,     \* the date, relative to the ticket's value date
  completed, \* calls that completed the deal at the broker
  settled,   \* calls that settled the deal at the broker
  restarts   \* deaths of the OMS so far

vars == <<outright, state, phase, owned, benes, known, attempt, cutoff, clock, completed, settled, restarts>>
brokerVars == <<completed, settled>>

MaxSettlementRetryAttempt == 3

States == {"FILLED", "PENDSETTLE", "PENDBENE", "PENDRECON", "DONE", "DONE_PENDSETTLE",
           "BOOKING_FAILURE", "SETTLE_FAIL"}
Phases == {"WORKING", "SETTLE", "RECON"}

\* The dates the handlers compare with, in order.
Before == 0        \* before the value date
ValueDate == 1     \* on it, before 18:00
Evening == 2       \* on it, after 18:00
After == 3         \* after the value date
TwoDays == 4       \* two days after it
Week == 5          \* a week after it, and later
NoDate == 0        \* no _cleanup_date yet

-----------------------------------------------------------------------------
\* time_to_settle: an outright settles on the very value date, anything else
\* when the broker says so (for a spot, at once).
OnTheDate(t) == clock[t] \in {ValueDate, Evening}

\* do_api_complete and do_api_settle are called: ok is what they report, the
\* broker may have done its part all the same when they report a failure.
Called(count, t, ok) ==
  \E n \in (IF ok THEN {1} ELSE {0, 1}) : count' = [count EXCEPT ![t] = @ + n]

Set(t, s, p, o) ==
  /\ state' = [state EXCEPT ![t] = s]
  /\ phase' = [phase EXCEPT ![t] = p]
  /\ owned' = [owned EXCEPT ![t] = o]

\* Faulty variant: a deal that was not completed is tried again.
CheckFilledRetries(t) ==
  /\ state[t] = "FILLED" /\ known[t]
  /\ \E ok \in BOOLEAN :
       Called(completed, t, ok) /\ Set(t, IF ok THEN "PENDSETTLE" ELSE "FILLED", "SETTLE", TRUE)
  /\ UNCHANGED <<settled, cutoff>>

\* check_filled
CheckFilled(t) ==
  /\ state[t] = "FILLED"
  /\ \/ /\ known[t]
        /\ \E ok \in BOOLEAN :
             /\ Called(completed, t, ok)
             /\ Set(t, IF ok THEN "PENDSETTLE" ELSE "BOOKING_FAILURE", "SETTLE", TRUE)
     \/ /\ ~known[t]
        /\ Set(t, "PENDBENE", "SETTLE", TRUE)
        /\ UNCHANGED completed
  /\ UNCHANGED <<settled, cutoff>>

\* The date a clean-up waits for: the one the copy has, or else d.
CutOff(t, d) == IF cutoff[t] = NoDate THEN d ELSE cutoff[t]
KeepCutOff(t, d) == cutoff' = [cutoff EXCEPT ![t] = CutOff(t, d)]

\* Faulty variant: no clean-up.
SettleOnly(t, s, p) == Set(t, s, p, TRUE) /\ KeepCutOff(t, Week)

\* check_settlement ends with the clean-up: a week after the value date a ticket
\* is written off, whatever this same pass has just made of it.
Settle(t, s, p) ==
  /\ KeepCutOff(t, Week)
  /\ IF clock[t] >= CutOff(t, Week) THEN Set(t, "DONE_PENDSETTLE", p, FALSE) ELSE Set(t, s, p, TRUE)

\* Faulty variant: the phase is moved on, the state is not.
TrySettlePhaseOnly(t) ==
  /\ \E ok \in BOOLEAN : Called(settled, t, ok)
  /\ Settle(t, "PENDSETTLE", "RECON")

\* The second half of check_settlement, in PENDSETTLE.  The time is asked for
\* once more after an outright was found not due, so that one whose value date
\* begins between the two questions is settled like a spot.
TrySettle(t) ==
  \/ /\ outright[t] /\ OnTheDate(t)
     /\ Settle(t, "DONE_PENDSETTLE", "SETTLE")
     /\ UNCHANGED settled
  \/ /\ outright[t] => clock[t] = Before
     /\ \E ok \in BOOLEAN :
          /\ Called(settled, t, ok)
          /\ IF ok THEN Settle(t, "PENDRECON", "RECON")
                   ELSE Settle(t, "SETTLE_FAIL", phase[t])
  \/ /\ ~(outright[t] /\ OnTheDate(t))
     /\ Settle(t, "PENDSETTLE", phase[t])
     /\ UNCHANGED settled

CheckSettlement(t) ==
  \/ /\ state[t] = "PENDSETTLE"
     /\ TrySettle(t)
     /\ UNCHANGED completed
  \/ /\ state[t] = "PENDBENE" /\ known[t]
     /\ \/ Called(completed, t, TRUE) /\ TrySettle(t)
        \/ /\ Called(completed, t, FALSE)
           /\ Settle(t, "BOOKING_FAILURE", phase[t])
           /\ UNCHANGED settled
  \/ /\ state[t] = "PENDBENE" /\ ~known[t]
     /\ Settle(t, "PENDBENE", phase[t])
     /\ UNCHANGED brokerVars

\* Faulty variants: a retry is not counted, ...
RetryUncounted(t) ==
  /\ state[t] = "SETTLE_FAIL"
  /\ state' = [state EXCEPT ![t] = "PENDSETTLE"]
  /\ UNCHANGED <<attempt, phase, owned, cutoff, brokerVars>>

\* ... or not limited.
RetryUnlimited(t) ==
  /\ state[t] = "SETTLE_FAIL"
  /\ attempt' = [attempt EXCEPT ![t] = @ + 1]
  /\ state' = [state EXCEPT ![t] = "PENDSETTLE"]
  /\ UNCHANGED <<phase, owned, cutoff, brokerVars>>

\* check_failed_settle and retry_failed_settle_ticket: so many times, no more.
CheckFailedSettle(t) ==
  /\ state[t] = "SETTLE_FAIL"
  /\ attempt[t] < MaxSettlementRetryAttempt
  /\ attempt' = [attempt EXCEPT ![t] = @ + 1]
  /\ state' = [state EXCEPT ![t] = "PENDSETTLE"]
  /\ UNCHANGED <<phase, owned, cutoff, brokerVars>>

\* check_recon: meant for the evening of the value date, but a copy that was
\* settled by this same process still has check_settlement's date.
CheckRecon(t) ==
  /\ state[t] = "PENDRECON"
  /\ KeepCutOff(t, Evening)
  /\ IF clock[t] >= CutOff(t, Evening) THEN Set(t, "DONE", phase[t], FALSE)
                                      ELSE UNCHANGED <<state, phase, owned>>
  /\ UNCHANGED brokerVars

\* Faulty variant: a ticket let go of by date is called DONE.
CheckDoneRenames(t) ==
  /\ state[t] = "DONE_PENDSETTLE"
  /\ Set(t, "DONE", phase[t], FALSE)
  /\ UNCHANGED <<cutoff, brokerVars>>

\* check_done
CheckDone(t) ==
  /\ state[t] = "DONE_PENDSETTLE"
  /\ outright[t] => clock[t] >= TwoDays
  /\ Set(t, state[t], phase[t], FALSE)
  /\ UNCHANGED <<cutoff, brokerVars>>

\* cycle_ticket for a ticket of the cache
CycleTicket(t) ==
  /\ owned[t]
  /\ \/ (CheckFilled(t) \/ CheckSettlement(t) \/ CheckRecon(t) \/ CheckDone(t)) /\ UNCHANGED attempt
     \/ CheckFailedSettle(t)
  /\ UNCHANGED <<outright, benes, known, clock, restarts>>

-----------------------------------------------------------------------------
\* The OMS dies and loads its tickets again.
Restart ==
  /\ restarts < MaxRestarts
  /\ restarts' = restarts + 1
  /\ known' = benes
  /\ cutoff' = [t \in Ticket |-> NoDate]
  /\ UNCHANGED <<outright, state, phase, owned, benes, attempt, clock>>

Crash == Restart /\ UNCHANGED brokerVars

\* It dies when the broker has done what it was asked for, and nothing is saved.
CrashCompleted(t) ==
  /\ owned[t] /\ known[t]
  /\ state[t] \in {"FILLED", "PENDBENE"}
  /\ Called(completed, t, TRUE)
  /\ UNCHANGED settled
  /\ Restart

CrashSettled(t) ==
  /\ owned[t]
  /\ state[t] = "PENDSETTLE"
  /\ outright[t] => clock[t] = Before
  /\ Called(settled, t, TRUE)
  /\ UNCHANGED completed
  /\ Restart

\* The ticket form of the administration site, opened and saved between two steps
\* of the OMS (it writes every column as it was when the form was opened).
GiveBeneficiaries(t) ==
  /\ ~benes[t]
  /\ benes' = [benes EXCEPT ![t] = TRUE]
  /\ UNCHANGED <<outright, state, phase, owned, known, attempt, cutoff, clock, brokerVars, restarts>>

\* Time passes; the OMS may sleep or be down through any of the dates.
Tick(t) ==
  /\ clock[t] < Week
  /\ clock' = [clock EXCEPT ![t] = @ + 1]
  /\ UNCHANGED <<outright, state, phase, owned, benes, known, attempt, cutoff, brokerVars, restarts>>

Init ==
  /\ outright \in [Ticket -> BOOLEAN]
  /\ state = [t \in Ticket |-> "FILLED"]
  /\ phase = [t \in Ticket |-> "WORKING"]
  /\ owned = [t \in Ticket |-> TRUE]
  /\ benes \in [Ticket -> BOOLEAN]
  /\ known = benes
  /\ attempt = [t \in Ticket |-> 0]
  /\ cutoff = [t \in Ticket |-> NoDate]
  /\ clock = [t \in Ticket |-> Before]
  /\ completed = [t \in Ticket |-> 0]
  /\ settled = [t \in Ticket |-> 0]
  /\ restarts = 0

Deaths == Crash \/ \E t \in Ticket : CrashCompleted(t) \/ CrashSettled(t)

Next ==
  \/ \E t \in Ticket : CycleTicket(t) \/ GiveBeneficiaries(t) \/ Tick(t)
  \/ Deaths

Spec == Init /\ [][Next]_vars

\* The OMS loops for ever over the tickets it holds, and the days go by.
Fairness == \A t \in Ticket : WF_vars(CycleTicket(t)) /\ WF_vars(Tick(t))

FairSpec == Spec /\ Fairness

-----------------------------------------------------------------------------
\* Every variable holds a value of its kind.
TypeOK ==
  /\ outright \in [Ticket -> BOOLEAN]
  /\ state \in [Ticket -> States]
  /\ phase \in [Ticket -> Phases]
  /\ owned \in [Ticket -> BOOLEAN]
  /\ benes \in [Ticket -> BOOLEAN]
  /\ known \in [Ticket -> BOOLEAN]
  /\ attempt \in [Ticket -> 0 .. MaxSettlementRetryAttempt]
  /\ cutoff \in [Ticket -> {NoDate, Evening, Week}]
  /\ clock \in [Ticket -> Before .. Week]
  /\ completed \in [Ticket -> Nat]
  /\ settled \in [Ticket -> Nat]
  /\ restarts \in Nat

\* The broker is told to settle a deal once, once more for every retry, and once
\* more for every death of the OMS, however failures, dates and deaths mix.
SettleAccounted ==
  \A t \in Ticket : settled[t] <= 1 + attempt[t] + restarts

\* A deal is completed at the broker once, and once more for every death.
CompleteAccounted ==
  \A t \in Ticket : completed[t] <= 1 + restarts

\* A ticket is DONE only when its deal was completed and settled at the broker: no
\* retry, clean-up or death leads an unsettled one there.
DoneIsSettled ==
  \A t \in Ticket : state[t] = "DONE" => completed[t] > 0 /\ settled[t] > 0

\* A deal whose settlement has been recorded is not settled again.
NotSettledAgain ==
  [][\A t \in Ticket : phase[t] = "RECON" => settled'[t] = settled[t]]_vars

\* Every filled ticket leaves the OMS in the end, unless the broker refused to
\* complete it or refused to settle it as often as the OMS tries.
Abandoned(t) ==
  \/ state[t] = "BOOKING_FAILURE"
  \/ state[t] = "SETTLE_FAIL" /\ attempt[t] = MaxSettlementRetryAttempt

LetGo == \A t \in Ticket : <>(~owned[t] \/ Abandoned(t))
=============================================================================

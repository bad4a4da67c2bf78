------------------------------ MODULE HedgeEod -------------------------------
(***************************************************************************)
(* The end-of-day hedge of one company in one currency pair, day after     *)
(* day: a chain of background tasks takes the company's position from the  *)
(* broker, attributes it to the company's accounts, computes what each     *)
(* account wants, orders the difference, waits for the orders, and takes   *)
(* and attributes the position again.                                      *)
(*                                                                         *)
(* LIVE accounts trade at the broker, which alone knows what the company   *)
(* holds; DEMO accounts trade nowhere, and the company's DEMO position is  *)
(* made up from their last positions and the orders they would have sent.  *)
(*                                                                         *)
(* Rows are found by time: the latest event with a company snapshot, the   *)
(* latest event with an account snapshot, the latest hedge action.  The    *)
(* module keeps those three and the event being written.  Prices, profits, *)
(* costs, forwards and parachute accounts are left out; amounts are        *)
(* integers, with values for which every division is exact.                *)
(***************************************************************************)
EXTENDS Integers, FiniteSets, FiniteSetsExt, TLC

CONSTANTS
  Account,     \* accounts
  Live,        \* those of type LIVE; the others are DEMO
  Companies,   \* sets of accounts the company may consist of
  Wishes,      \* positions the hedge calculation may want for an account
  None,        \* no position wanted, not even a zero one
  Lot,         \* lot size of orders
  Moves,       \* trades done at the broker past the system
  Cuts,        \* fifths of the positions wanted that the margin may leave
  MaxDisturb   \* bound: things that go wrong or change

ASSUME HedgeAssumption ==
  /\ IsFiniteSet(Account)
  /\ Live \subseteq Account
  /\ \A c \in Companies : c \subseteq Account
  /\ Wishes \subseteq Int /\ None \notin Int
  /\ Lot \in Nat \ {0}
  /\ Moves \subseteq Int
  /\ Cuts \subseteq 0 .. 4
  /\ MaxDisturb \in Nat

VARIABLES
  company,    \* its accounts
  active,     \* those that are active
  want,       \* what the calculation would want for each account now
  market,     \* the company's position at the broker
  working,    \* orders of the latest hedge action not filled yet
  late,       \* orders of earlier actions not filled yet
  snap,       \* the latest event with a company snapshot: both positions and its account rows
  held,       \* account rows of the latest event with an account snapshot
  wish,       \* AccountDesiredPositions of the latest hedge action
  window,     \* since the event of snap: accounts with a request, whether an action, DemoOrders
  cur,        \* the event being written
  stage,      \* where the chain of tasks is
  ending,     \* whether the reconciliation is the one that ends the day
  disturbed   \* things that went wrong or changed

books == <<snap, held, window, cur>>
vars == <<company, active, want, market, working, late, snap, held, wish, window,
          cur, stage, ending, disturbed>>

----------------------------------------------------------------------------
(* Positions *)

Types == {"live", "demo"}
OfType(type) == company \cap (IF type = "live" THEN Live ELSE Account \ Live)
Abs(n) == IF n < 0 THEN -n ELSE n
Total(f, S) == MapThenSumSet(LAMBDA a : f[a], S)
Gross(f, S) == MapThenSumSet(LAMBDA a : Abs(f[a]), S)
Flat == [a \in Account |-> 0]
Amount(w) == [a \in Account |-> IF w[a] = None THEN 0 ELSE w[a]]

\* n * part / whole.
Share(n, part, whole) ==
  LET signed == IF whole < 0 THEN -(n * part) ELSE n * part
  IN  IF signed % Abs(whole) = 0 THEN signed \div Abs(whole)
      ELSE Assert(FALSE, <<"inexact share", n, part, whole>>)

\* Faulty variant: orders are not rounded to lots.
RoundNothing(n) == n \div 5

\* So many fifths, in whole lots, towards zero.
RoundToLot(n) == IF n < 0 THEN -Lot * ((-n) \div (5 * Lot)) ELSE Lot * (n \div (5 * Lot))

NoEvent == [co |-> FALSE, fx |-> FALSE, live |-> 0, demo |-> 0, rows |-> Flat]
NoNews == [asked |-> {}, acted |-> FALSE, ordered |-> FALSE, demo |-> 0]

Disturb == disturbed < MaxDisturb /\ disturbed' = disturbed + 1
DisturbIf(p) == IF p THEN Disturb ELSE UNCHANGED disturbed

Init ==
  /\ company \in Companies
  /\ active = company
  /\ want \in {w \in [Account -> Wishes \cup {None}] : \A a \in Account \ company : w[a] = None}
  /\ market = 0 /\ working = 0 /\ late = 0
  /\ snap = [live |-> 0, demo |-> 0, rows |-> Flat]
  /\ held = Flat
  /\ wish = [a \in Account |-> None]
  /\ window = NoNews
  /\ cur = NoEvent
  /\ stage = "idle" /\ ending = FALSE
  /\ disturbed = 0

----------------------------------------------------------------------------
(* Taking the company's position *)

\* The DEMO position is made up from the rows of the latest event with a company snapshot.  In
\* a company with LIVE accounts that is already the event being written, which has no rows yet.
ExpectedDemo ==
  LET rows == IF OfType("live") = {} THEN snap.rows ELSE Flat
  IN  [some |-> OfType("demo") \cap active # {}
                /\ (window.ordered \/ \E a \in Account : rows[a] # 0),
       amount |-> Total(rows, Account) + window.demo]

TakeSnapshot(end) ==
  LET demo == ExpectedDemo
      atBroker == OfType("live") # {}
  IN  /\ cur' = [NoEvent EXCEPT !.co = atBroker \/ demo.some,
                                !.live = IF atBroker THEN market ELSE 0,
                                !.demo = IF demo.some THEN demo.amount ELSE 0]
      /\ stage' = "demo"
      /\ ending' = end
      /\ UNCHANGED <<company, active, want, market, working, late, snap, held, wish, window>>

----------------------------------------------------------------------------
(* Attributing it to the accounts *)

\* The position the reconciliation starts from: of the event being written, if it was saved.
CompanyAmount(type) == IF cur.co THEN cur[type] ELSE snap[type]

\* All accounts want nothing and the company holds something.
Unwanted(type) == Gross(Amount(wish), OfType(type)) = 0 /\ CompanyAmount(type) # 0

\* The accounts that held the pair keep it, in proportion to what they held; when they held
\* it against each other, in proportion to its size.
KeepHolding(type) ==
  LET S == OfType(type)
      total == Total(held, S)
  IN  [a \in S |->
        IF held[a] = 0 THEN 0
        ELSE IF total = 0 THEN Share(CompanyAmount(type), Abs(held[a]), Gross(held, S))
        ELSE Share(held[a], CompanyAmount(type), total)]

\* Faulty variant: excess and shortfall are left to nobody.
DistributeWishes(type) == [a \in OfType(type) |-> Amount(wish)[a]]

\* Each account gets what it wanted; excess or shortfall goes by the size of what it wanted.
Distribute(type) ==
  LET S == OfType(type)
      desired == Amount(wish)
      excess == CompanyAmount(type) - Total(desired, S)
      gross == Gross(desired, S)
  IN  [a \in S |->
        IF desired[a] = 0 THEN 0 ELSE desired[a] + Share(excess, Abs(desired[a]), gross)]

FinalPositions(type) == IF Unwanted(type) THEN KeepHolding(type) ELSE Distribute(type)

\* Faulty variant: the account positions there were do not count.
StoredResults(type) == ~Unwanted(type) /\ \E a \in OfType(type) \cap window.asked : wish[a] # None

\* The positions are stored only if there were account positions before, or a request got a
\* result.  A company that holds what no account wanted or held is split evenly between the
\* accounts, but in one pair that split is never stored.
Stored(type) ==
  \/ \E a \in OfType(type) : held[a] # 0
  \/ ~Unwanted(type) /\ \E a \in OfType(type) \cap window.asked : wish[a] # None

\* Saving the account snapshot saves the event with both flags.
Reconciled(type) ==
  IF Stored(type)
    THEN [cur EXCEPT !.co = TRUE, !.fx = TRUE,
                     !.rows = [a \in Account |-> IF a \in OfType(type) THEN FinalPositions(type)[a]
                                                 ELSE cur.rows[a]]]
    ELSE cur

\* Once an event is over, what was saved of it is what later tasks find.
Conclude(event) ==
  /\ snap' = IF event.co THEN [live |-> event.live, demo |-> event.demo, rows |-> event.rows]
             ELSE snap
  /\ held' = IF event.fx THEN event.rows ELSE held
  /\ window' = IF event.co THEN NoNews ELSE window
  /\ cur' = NoEvent

ReconcileDemo ==
  /\ stage = "demo"
  /\ cur' = Reconciled("demo")
  /\ stage' = "live"
  /\ UNCHANGED <<company, active, want, market, working, late, snap, held, wish, window,
                 ending, disturbed>>

ReconcileLive ==
  /\ stage = "live"
  /\ Conclude(Reconciled("live"))
  /\ stage' = IF ending THEN "idle" ELSE "hedge"
  /\ ending' = FALSE
  /\ UNCHANGED <<company, active, want, market, working, late, wish, disturbed>>

----------------------------------------------------------------------------
(* The chain of tasks *)

StartEod ==
  /\ stage = "idle"
  /\ TakeSnapshot(FALSE)
  /\ UNCHANGED disturbed

Wanting(S) == {a \in S : want[a] # None}

\* Faulty variant: an account that wants no position any more does not close the old one.
ConcernedByNew(S) == {a \in S : want[a] # None}

\* The accounts with an old or a new position: those that request a change, if only of 0.
Concerned(S) == Wanting(S) \cup {a \in S : snap.rows[a] # 0}

\* What to trade for the accounts of a type, in fifths, when the margin leaves so many fifths
\* of the positions they want.
Delta(S, fifths) == fifths * Total(Amount(want), S) - 5 * Total(snap.rows, S)

\* A new hedge action.  hedged: active accounts whose calculation succeeded; asked and told:
\* those whose request and desired position were stored; placed: types whose order reached the
\* OMS or was recorded; fifths: what the margin leaves of the LIVE positions.  A failure in
\* one of these is logged and the rest goes on.
Hedge ==
  /\ stage = "hedge"
  /\ \E hedged \in SUBSET active, placed \in SUBSET Types, fifths \in {5} \cup Cuts :
     \E asked \in SUBSET Concerned(hedged), told \in SUBSET Wanting(hedged) :
       LET live == Concerned(hedged \cap Live)
           demo == Concerned(hedged \ Live)
       IN  /\ live = {} => "live" \in placed /\ fifths = 5
           /\ demo = {} => "demo" \in placed
           /\ DisturbIf(\/ hedged # active
                        \/ asked # live \cup demo
                        \/ told # Wanting(hedged)
                        \/ placed # Types
                        \/ fifths # 5)
           /\ wish' = [a \in Account |-> IF a \in told THEN want[a] ELSE None]
           /\ late' = late + working
           /\ working' = IF "live" \in placed THEN RoundToLot(Delta(live, fifths)) ELSE 0
           /\ window' =
                [asked |-> window.asked \cup asked,
                 acted |-> TRUE,
                 ordered |-> window.ordered \/ ("demo" \in placed /\ demo # {}),
                 demo |-> window.demo
                          + IF "demo" \in placed THEN RoundToLot(Delta(demo, 5)) ELSE 0]
  /\ stage' = "waiting"
  /\ UNCHANGED <<company, active, want, market, snap, held, cur, ending>>

\* The task that waits goes on at once when no LIVE account is active.
OrdersDone == working = 0 \/ OfType("live") \cap active = {}

EndEod ==
  /\ stage = "waiting"
  /\ OrdersDone
  /\ TakeSnapshot(TRUE)
  /\ UNCHANGED disturbed

\* The exception of the time-out is dropped by the return of the finally block: the chain goes
\* on to the end of the day.
Timeout ==
  /\ stage = "waiting"
  /\ ~OrdersDone
  /\ TakeSnapshot(TRUE)
  /\ Disturb

\* So is an exception of the start of the day: the waiting follows, on the last action there is.
StartFails ==
  /\ stage \in {"idle", "demo", "live", "hedge"} /\ ~ending
  /\ Disturb
  /\ Conclude(cur)
  /\ stage' = "waiting"
  /\ UNCHANGED <<company, active, want, market, working, late, wish, ending>>

\* The end of the day fails, or the worker is killed: the chain is over.
ChainDies ==
  /\ stage # "idle"
  /\ Disturb
  /\ Conclude(cur)
  /\ stage' = "idle"
  /\ ending' = FALSE
  /\ UNCHANGED <<company, active, want, market, working, late, wish>>

----------------------------------------------------------------------------
(* The broker, and the company *)

Fill ==
  /\ working # 0
  /\ market' = market + working
  /\ working' = 0
  /\ UNCHANGED <<company, active, want, late, books, wish, stage, ending, disturbed>>

\* Part of the order is filled, or nothing, and the order is over.
FillShort ==
  /\ working # 0
  /\ Disturb
  /\ \E lots \in 0 .. Abs(working) \div Lot - 1 :
       market' = market + (IF working < 0 THEN -lots ELSE lots) * Lot
  /\ working' = 0
  /\ UNCHANGED <<company, active, want, late, books, wish, stage, ending>>

FillLate ==
  /\ late # 0
  /\ market' \in {market + late, market}
  /\ late' = 0
  /\ UNCHANGED <<company, active, want, working, books, wish, stage, ending, disturbed>>

TradeOutside ==
  /\ OfType("live") # {}
  /\ Disturb
  /\ \E m \in Moves : market' = market + m
  /\ UNCHANGED <<company, active, want, working, late, books, wish, stage, ending>>

\* Cash flows are added, changed, or roll off.
ChangeWant ==
  /\ Disturb
  /\ \E a \in company, w \in Wishes \cup {None} :
       w # want[a] /\ want' = [want EXCEPT ![a] = w]
  /\ UNCHANGED <<company, active, market, working, late, books, wish, stage, ending>>

Deactivate ==
  /\ Disturb
  /\ \E a \in active : active' = active \ {a}
  /\ UNCHANGED <<company, want, market, working, late, books, wish, stage, ending>>

Activate ==
  /\ Disturb
  /\ \E a \in company \ active : active' = active \cup {a}
  /\ UNCHANGED <<company, want, market, working, late, books, wish, stage, ending>>

Chain == StartEod \/ ReconcileDemo \/ ReconcileLive \/ Hedge \/ EndEod

Next ==
  \/ Chain
  \/ Timeout \/ StartFails \/ ChainDies
  \/ Fill \/ FillShort \/ FillLate \/ TradeOutside
  \/ ChangeWant \/ Deactivate \/ Activate

\* The tasks of every day are scheduled, and the broker fills or ends every order.
Fairness == WF_vars(Chain) /\ WF_vars(Fill)

Spec == Init /\ [][Next]_vars /\ Fairness

----------------------------------------------------------------------------
(* Properties *)

\* Rows are well-formed; what the system trades at the broker is whole lots, and so is what the
\* company holds there if that is how it trades past the system.
TypeOK ==
  /\ active \subseteq company
  /\ want \in [Account -> Wishes \cup {None}] /\ wish \in [Account -> Wishes \cup {None}]
  /\ \A n \in {working, late} : n \in Int /\ n % Lot = 0
  /\ market \in Int /\ ((\A m \in Moves : m % Lot = 0) => market % Lot = 0)
  /\ snap.live \in Int /\ snap.demo \in Int /\ DOMAIN snap.rows = Account
  /\ held \in [Account -> Int] /\ snap.rows \in [Account -> Int]
  /\ window.asked \subseteq company
  /\ stage \in {"idle", "demo", "live", "hedge", "waiting"}
  /\ disturbed \in 0 .. MaxDisturb

\* In the latest snapshot the LIVE accounts together hold exactly what the broker reported for
\* the company, unless none is said to hold anything: whatever was filled short or late,
\* traded outside, cut by the margin, left out, crashed or deactivated.  (FxPosition: positions
\* "must be reconciled to maintain agreement with the broker".)
Attributed == Total(snap.rows, OfType("live")) \in {0, snap.live}

\* A second reconciliation with no hedge between and nothing new at the broker gives every
\* account what the first one gave it.
Unmoved ==
  [][(/\ stage = "live" /\ stage' # stage /\ disturbed' = disturbed /\ ~window.acted
      /\ snap.rows = held /\ Total(held, OfType("live")) = snap.live
      /\ cur.co /\ cur.live = snap.live)
     => \A a \in OfType("live") : snap'.rows[a] = snap.rows[a]]_vars

\* Once things stop going wrong and changing, every active account ends up, day after day,
\* within a lot of what it wants.
Converges ==
  <>[](\A a \in active : Abs(held[a] - Amount(want)[a]) < Lot)

\* Claimed by create_company_fx_positions: without a paper account the company's DEMO position
\* is set "to have exactly the positions we expect them to have", those of its DEMO accounts
\* and what they would have ordered since.
DemoAsExpected ==
  [][(stage \in {"idle", "waiting"} /\ stage' = "demo" /\ OfType("demo") \cap active # {})
     => cur'.demo = Total(snap.rows, OfType("demo")) + window.demo]_vars
=============================================================================

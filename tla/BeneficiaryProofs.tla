-------------------------- MODULE BeneficiaryProofs --------------------------
(***************************************************************************)
(* Proofs about Beneficiary, for any rows, requests, identifiers, payees   *)
(* set up past the system, and number of things that go wrong.             *)
(***************************************************************************)
EXTENDS Beneficiary, FiniteSetTheorems, TLAPS

-----------------------------------------------------------------------------
(* Types.                                                                   *)

Telling == {"sync", "call", "link", "fill"}

\* What TypeOK needs to know of a request: it is about a row that was made, and
\* at a broker it will not call again if it is at one; it has counted nothing
\* before it tells the brokers.  A request that has not begun, or is done, is
\* about no row.
WorkOK(s, rows, n) ==
  /\ s \in Work
  /\ s.pc \notin {"new", "done"} => s.row \in Row /\ rows[s.row] # Unused
  /\ s.pc \in {"new", "done"} => s.row = None
  /\ s.pc \in {"call", "link", "fill"} => s.at \in Broker \ s.todo
  /\ s.pc \in {"link", "fill"} => s.id \in Name
  /\ IF s.pc \in Telling
       THEN n = s.ok + s.bad + Cardinality(s.todo) + (IF s.pc = "sync" THEN 0 ELSE 1)
       ELSE s.ok = 0 /\ s.bad = 0

Imports == [at : Broker, id : Name, data : Data]

StoreOK ==
  /\ company \in Companies
  /\ row \in [Row -> Saved \cup {Unused, Deleted}]
  /\ link \in [Row -> [Broker -> Name \cup {None, Blank}]]
  /\ held \in [Broker -> [Name -> Payee \cup {None}]]
  /\ imp \in Imports \cup {NoImport}
  /\ views \in 0 .. MaxViews
  /\ hitches \in [Row -> 0 .. MaxHitches]
  /\ loose \subseteq Row /\ killed \subseteq Row

All == Cardinality(company.configured)

RequestsOK ==
  /\ req \in [Request -> Work]
  /\ \A r \in Request : WorkOK(req[r], row, All)

TypeInv == StoreOK /\ RequestsOK

\* A row with a link is there, which an import that finds its row by the link needs.
LinkedExist == \A b \in Row, k \in Broker : link[b][k] # None => Exists(b)

\* The types hold, and the count of the brokers with them.
LEMMA TypeInvType ==
  ASSUME TypeInv PROVE TypeOK
<1>1. \A r \in Request : req[r].pc \in {"sync", "call", "link", "fill"} =>
        Cardinality(company.configured) = req[r].ok + req[r].bad + Cardinality(req[r].todo)
                                  + (IF req[r].pc = "sync" THEN 0 ELSE 1)
  BY DEF TypeInv, RequestsOK, WorkOK, Telling, All
<1>2. req \in [Request -> Work]
  BY DEF TypeInv, RequestsOK
<1> QED
  BY <1>1, <1>2 DEF TypeInv, StoreOK, TypeOK, Imports

\* A row once made stays or is deleted.
RowsKept == \A b \in Row : row'[b] = Unused => row[b] = Unused

\* Two requests that differ in whether they were disturbed only.
Same(s, u) ==
  /\ s.pc = u.pc /\ s.row = u.row /\ s.copy = u.copy /\ s.todo = u.todo
  /\ s.ok = u.ok /\ s.bad = u.bad /\ s.at = u.at /\ s.id = u.id

\* Request r becomes s, or the like, and the others stay.
Moves(r, s) ==
  /\ req' \in [Request -> Work]
  /\ Same(req'[r], s)
  /\ \A q \in Request \ {r} : Same(req'[q], req[q])

Rest ==
  /\ req' \in [Request -> Work]
  /\ \A q \in Request : Same(req'[q], req[q])

\* A request that goes on moves, and the others stay.
LEMMA GoesMoves ==
  ASSUME req \in [Request -> Work], NEW r \in Request, NEW s \in Work, Goes(r, s)
  PROVE  Moves(r, s)
  BY DEF Goes, Moves, Same

\* A disturbance marks requests and changes nothing else of them.
LEMMA DisturbMoves ==
  ASSUME NEW f \in [Request -> Work], NEW S, Disturb(f, S)
  PROVE  /\ req' \in [Request -> Work]
         /\ \A q \in Request : Same(req'[q], f[q])
<1>1. ASSUME NEW q \in Request
      PROVE  /\ [f[q] EXCEPT !.alone = @ /\ f[q].row \notin S] \in Work
             /\ Same([f[q] EXCEPT !.alone = @ /\ f[q].row \notin S], f[q])
  <2>1. f[q] \in Work
    OBVIOUS
  <2>2. (f[q].alone /\ f[q].row \notin S) \in BOOLEAN
    OBVIOUS
  <2> QED
    BY <2>1, <2>2 DEF Work, Same
<1>2. req' = [q \in Request |-> [f[q] EXCEPT !.alone = @ /\ f[q].row \notin S]]
  BY DEF Disturb
<1> QED
  BY <1>1, <1>2

\* So a disturbance by itself leaves the requests as they are.
LEMMA DisturbRest ==
  ASSUME req \in [Request -> Work], NEW S, Disturb(req, S)
  PROVE  Rest
  BY DisturbMoves DEF Rest

\* A request that begins.
LEMMA BeginMoves ==
  ASSUME req \in [Request -> Work], NEW r \in Request, NEW b \in Row, NEW s \in Work,
         Begin(r, b, s)
  PROVE  /\ req[r].pc = "new"
         /\ Moves(r, [s EXCEPT !.row = b])
         /\ IF Working(b) = {} THEN hitches' = hitches /\ loose' = loose
                               ELSE Hitch(b) /\ loose' = loose \cup {b}
<1> DEFINE new == [s EXCEPT !.row = b]
           begun == [req EXCEPT ![r] = new]
<1>1. new \in Work
  BY DEF Work
<1>2. begun \in [Request -> Work] /\ begun[r] = new /\ \A q \in Request \ {r} : begun[q] = req[q]
  BY <1>1
<1> HIDE DEF new, begun
<1>3. Begin(r, b, s) =>
        /\ req[r].pc = "new"
        /\ IF Working(b) = {} THEN req' = begun /\ UNCHANGED <<hitches, loose>>
           ELSE Hitch(b) /\ Disturb(begun, {b})
  BY DEF Begin, begun, new
<1>4. CASE Working(b) = {}
  <2>1. req' = begun /\ hitches' = hitches /\ loose' = loose /\ req[r].pc = "new"
    BY <1>3, <1>4
  <2>2. Moves(r, new)
    BY <2>1, <1>2 DEF Moves, Same
  <2> QED
    BY <2>1, <2>2, <1>4 DEF new
<1>5. CASE Working(b) # {}
  <2>1. Hitch(b) /\ Disturb(begun, {b}) /\ req[r].pc = "new"
    BY <1>3, <1>5
  <2>2. req' \in [Request -> Work] /\ \A q \in Request : Same(req'[q], begun[q])
    BY <2>1, <1>2, DisturbMoves
  <2>3. Moves(r, new)
    BY <2>2, <1>2 DEF Moves
  <2>4. loose' = loose \cup {b}
    BY <2>1 DEF Disturb
  <2> QED
    BY <1>5, <2>1, <2>3, <2>4 DEF new
<1> QED
  BY <1>4, <1>5

\* The requests keep what TypeOK needs when one moves on.
LEMMA RequestsKept ==
  ASSUME RequestsOK, RowsKept, company' = company, NEW r \in Request, NEW s, Moves(r, s),
         WorkOK(s, row', All)
  PROVE  RequestsOK'
<1>1. All' = All
  BY DEF All
<1>2. ASSUME NEW q \in Request PROVE WorkOK(req'[q], row', All)
  <2>1. req'[q] \in Work
    BY DEF Moves
  <2>2. CASE q = r
    BY <2>1, <2>2 DEF Moves, Same, WorkOK
  <2>3. CASE q # r
    <3>1. WorkOK(req[q], row, All) /\ Same(req'[q], req[q])
      BY <2>3 DEF RequestsOK, Moves
    <3> QED
      BY <2>1, <3>1 DEF RowsKept, Same, WorkOK
  <2> QED
    BY <2>2, <2>3
<1>3. req' \in [Request -> Work]
  BY DEF Moves
<1> QED
  BY <1>1, <1>2, <1>3 DEF RequestsOK

\* They keep it when none moves.
LEMMA RequestsRest ==
  ASSUME RequestsOK, RowsKept, company' = company, Rest
  PROVE  RequestsOK'
<1>1. All' = All
  BY DEF All
<1>2. ASSUME NEW q \in Request PROVE WorkOK(req'[q], row', All)
  BY DEF Rest, RequestsOK, RowsKept, Same, WorkOK
<1> QED
  BY <1>1, <1>2 DEF RequestsOK, Rest

\* The values a row and a request start from have their types.
LEMMA CopyTyped ==
  /\ NoCopy \in Saved /\ NoCopy.ext = None /\ NoCopy.status = "DRAFT"
  /\ Fresh \in Work /\ Done \in Work
<1>1. (CHOOSE d \in Data : TRUE) \in Data
  BY BeneficiaryAssumption
<1>2. NoCopy \in Saved /\ NoCopy.ext = None /\ NoCopy.status = "DRAFT"
  BY <1>1 DEF NoCopy, Saved, Status
<1>3. Fresh \in Work
  BY <1>2 DEF Fresh, Work, Step
<1> QED
  BY <1>2, <1>3 DEF Done, Work, Step

\* A request that is done.
LEMMA DoneOK ==
  ASSUME NEW rows, NEW n PROVE WorkOK(Done, rows, n)
  BY CopyTyped DEF Done, Fresh, WorkOK, Telling

\* What is not unused or deleted is a row.
LEMMA ExistsSaved ==
  ASSUME StoreOK, NEW b \in Row, Exists(b)
  PROVE  row[b] \in Saved
  BY DEF StoreOK, Exists

\* What is saved is neither unused nor deleted.
LEMMA SavedExists ==
  ASSUME NEW s \in Saved PROVE s \notin {Unused, Deleted}
  BY BeneficiaryAssumption

\* The hitches stay within their bound.
LEMMA HitchType ==
  ASSUME StoreOK, NEW b \in Row, Hitch(b)
  PROVE  hitches' \in [Row -> 0 .. MaxHitches]
  BY BeneficiaryAssumption DEF StoreOK, Hitch

\* Configured brokers can be counted.
LEMMA ToDoFinite ==
  ASSUME NEW S \in SUBSET Broker
  PROVE  IsFiniteSet(S) /\ Cardinality(S) \in Nat
<1>1. IsFiniteSet({CORPAY, NIUM, MONEX})
  <2>1. IsFiniteSet({CORPAY})
    BY FS_Singleton
  <2>2. IsFiniteSet({CORPAY} \cup {NIUM})
    BY <2>1, FS_AddElement
  <2>3. IsFiniteSet(({CORPAY} \cup {NIUM}) \cup {MONEX})
    BY <2>2, FS_AddElement
  <2>4. ({CORPAY} \cup {NIUM}) \cup {MONEX} = {CORPAY, NIUM, MONEX}
    OBVIOUS
  <2> QED
    BY <2>3, <2>4
<1>2. IsFiniteSet(S)
  BY <1>1, FS_Subset DEF Broker
<1> QED
  BY <1>2, FS_CardinalityType

\* Create keeps the types: it makes a row of an unused one.
LEMMA CreateTyped ==
  ASSUME TypeInv, NEW b \in Row, Create(b) PROVE TypeInv'
<1> USE DEF TypeInv
<1>1. StoreOK'
  BY CopyTyped DEF StoreOK, Create, Imports, NoImport
<1>2. RowsKept
  BY CopyTyped, SavedExists DEF StoreOK, Create, RowsKept
<1>3. Rest
  BY DEF Create, RequestsOK, Rest, Same
<1>4. company' = company
  BY DEF Create
<1> QED
  BY <1>1, <1>2, <1>3, <1>4, RequestsRest

\* Destroy keeps them: a deleted row was made once.
LEMMA DestroyTyped ==
  ASSUME TypeInv, NEW b \in Row, Destroy(b) PROVE TypeInv'
<1> USE DEF TypeInv
<1>1. hitches' \in [Row -> 0 .. MaxHitches]
  BY HitchType DEF Destroy
<1>2. StoreOK'
  BY <1>1 DEF StoreOK, Destroy
<1>3. RowsKept
  BY BeneficiaryAssumption DEF StoreOK, Destroy, RowsKept, Exists
<1>4. Rest
  BY DEF Destroy, RequestsOK, Rest, Same
<1>5. company' = company
  BY DEF Destroy
<1> QED
  BY <1>2, <1>3, <1>4, <1>5, RequestsRest

\* What a beginning leaves of the store.
LEMMA BegunTyped ==
  ASSUME TypeInv, NEW r \in Request, NEW b \in Row, NEW s \in Work, Exists(b),
         Begin(r, b, s), s.pc \in {"activate", "update"}, s.ok = 0, s.bad = 0,
         UNCHANGED <<company, row, link, held, imp, views, killed>>
  PROVE  TypeInv'
<1> USE DEF TypeInv
<1>1. /\ Moves(r, [s EXCEPT !.row = b])
      /\ IF Working(b) = {} THEN hitches' = hitches /\ loose' = loose
                            ELSE Hitch(b) /\ loose' = loose \cup {b}
  BY BeginMoves DEF RequestsOK
<1>2. hitches' \in [Row -> 0 .. MaxHitches] /\ loose' \subseteq Row
  BY <1>1, HitchType DEF StoreOK
<1>3. StoreOK'
  BY <1>2 DEF StoreOK
<1>4. WorkOK([s EXCEPT !.row = b], row', All)
  BY DEF WorkOK, Work, Telling, Exists
<1>5. RowsKept
  BY DEF RowsKept
<1> HIDE DEF TypeInv
<1>6. RequestsOK'
  BY <1>1, <1>4, <1>5, RequestsKept DEF TypeInv
<1> QED
  BY <1>3, <1>6 DEF TypeInv

\* An activation begins without a copy of the row.
LEMMA ActivateReadTyped ==
  ASSUME TypeInv, NEW r \in Request, NEW b \in Row, ActivateRead(r, b) PROVE TypeInv'
<1>1. [Fresh EXCEPT !.pc = "activate"] \in Work
  BY CopyTyped DEF Work, Step
<1>2. /\ [Fresh EXCEPT !.pc = "activate"].pc = "activate"
      /\ [Fresh EXCEPT !.pc = "activate"].ok = 0 /\ [Fresh EXCEPT !.pc = "activate"].bad = 0
  BY DEF Fresh
<1> QED
  BY <1>1, <1>2, BegunTyped DEF ActivateRead

\* An update begins with a copy of the row that is there.
LEMMA UpdateReadTyped ==
  ASSUME TypeInv, NEW r \in Request, NEW b \in Row, NEW d \in Data, UpdateRead(r, b, d)
  PROVE  TypeInv'
<1> DEFINE copy == [row[b] EXCEPT !.data = d]
           s == [Fresh EXCEPT !.pc = "update", !.copy = copy]
<1>1. row[b] \in Saved
  BY ExistsSaved DEF UpdateRead, TypeInv
<1>2. copy \in Saved
  BY <1>1 DEF Saved
<1>3. s \in Work
  BY <1>2, CopyTyped DEF Work, Step
<1>4. s.pc = "update" /\ s.ok = 0 /\ s.bad = 0
  BY DEF Fresh
<1>5. Exists(b) /\ Begin(r, b, s) /\ UNCHANGED <<company, row, link, held, imp, views, killed>>
  BY DEF UpdateRead
<1> QED
  BY <1>3, <1>4, <1>5, BegunTyped

\* A step of request r that changes rows, links and the marks of the specification
\* within their types.
LEMMA AdvanceTyped ==
  ASSUME TypeInv, NEW r \in Request, NEW s \in Work, Goes(r, s), WorkOK(s, row', All),
         row' \in [Row -> Saved \cup {Unused, Deleted}], RowsKept,
         link' \in [Row -> [Broker -> Name \cup {None, Blank}]],
         hitches' \in [Row -> 0 .. MaxHitches], loose' \subseteq Row, killed' \subseteq Row,
         UNCHANGED <<company, held, imp, views>>
  PROVE  TypeInv'
<1>1. Moves(r, s)
  BY GoesMoves DEF TypeInv, RequestsOK
<1>2. RequestsOK'
  BY <1>1, RequestsKept DEF TypeInv
<1>3. StoreOK'
  BY DEF StoreOK, TypeInv
<1> QED
  BY <1>2, <1>3 DEF TypeInv

\* The request at hand, and its row.
LEMMA ActingOK ==
  ASSUME TypeInv, NEW r \in Request
  PROVE  /\ req[r] \in Work /\ WorkOK(req[r], row, All)
         /\ req[r].pc \notin {"new", "done"} =>
              /\ req[r].row \in Row /\ row[req[r].row] # Unused
              /\ row[req[r].row] \in Saved \cup {Unused, Deleted}
  BY DEF TypeInv, StoreOK, RequestsOK, WorkOK

\* The row turns PENDING, or the request is done because it is gone.
LEMMA ActivateSaveTyped ==
  ASSUME TypeInv, NEW r \in Request, ActivateSave(r) PROVE TypeInv'
<1> DEFINE b == req[r].row
           s == [req[r] EXCEPT !.pc = "load"]
<1>1. b \in Row /\ row[b] # Unused /\ req[r] \in Work /\ WorkOK(req[r], row, All)
  BY ActingOK DEF ActivateSave
<1>2. UNCHANGED <<company, link, held, imp, views, hitches, loose, killed>>
  BY DEF ActivateSave
<1>3. CASE Exists(b)
  <2>1. Goes(r, s) /\ row' = [row EXCEPT ![b].status = "PENDING"]
    BY <1>3 DEF ActivateSave
  <2>2. row[b] \in Saved
    BY <1>1, <1>3, ExistsSaved DEF TypeInv
  <2>3. [row[b] EXCEPT !.status = "PENDING"] \in Saved
    BY <2>2 DEF Saved, Status
  <2>4. row' \in [Row -> Saved \cup {Unused, Deleted}] /\ RowsKept
    BY <1>1, <2>1, <2>3, SavedExists DEF TypeInv, StoreOK, RowsKept
  <2>5. s \in Work /\ WorkOK(s, row', All)
    <3>1. s \in Work
      BY <1>1 DEF Work, Step
    <3>2. s.pc = "load" /\ s.row = b /\ s.ok = req[r].ok /\ s.bad = req[r].bad
      BY <1>1 DEF Work
    <3>3. req[r].ok = 0 /\ req[r].bad = 0
      BY <1>1 DEF ActivateSave, WorkOK, Telling
    <3> HIDE DEF s
    <3> QED
      BY <1>1, <2>4, <3>1, <3>2, <3>3 DEF WorkOK, Telling, RowsKept
  <2> QED
    BY <1>2, <2>1, <2>4, <2>5, AdvanceTyped DEF TypeInv, StoreOK
<1>4. CASE ~Exists(b)
  <2>1. Goes(r, Done) /\ row' = row
    BY <1>4 DEF ActivateSave
  <2>2. RowsKept
    BY <2>1 DEF RowsKept
  <2> QED
    BY <1>2, <2>1, <2>2, DoneOK, CopyTyped, AdvanceTyped DEF TypeInv, StoreOK
<1> QED
  BY <1>3, <1>4

\* A request that goes on with the next step before it tells the brokers.
LEMMA StepOn ==
  ASSUME NEW s \in Work, NEW rows, NEW n, WorkOK(s, rows, n),
         s.pc \in {"activate", "update", "pending"}, NEW p \in {"pending", "load"}
  PROVE  [s EXCEPT !.pc = p] \in Work /\ WorkOK([s EXCEPT !.pc = p], rows, n)
<1> DEFINE u == [s EXCEPT !.pc = p]
<1>1. u \in Work /\ u.pc = p /\ u.row = s.row /\ u.ok = s.ok /\ u.bad = s.bad
  BY DEF Work, Step
<1>2. s.row \in Row /\ rows[s.row] # Unused /\ s.ok = 0 /\ s.bad = 0
  BY DEF WorkOK, Telling
<1> HIDE DEF u
<1>3. WorkOK(u, rows, n)
  BY <1>1, <1>2 DEF WorkOK, Telling
<1> QED
  BY <1>1, <1>3 DEF u

\* A whole row saved from a copy.
LEMMA CopySaved ==
  ASSUME TypeInv, NEW b \in Row, NEW c \in Saved, row' = [row EXCEPT ![b] = c]
  PROVE  row' \in [Row -> Saved \cup {Unused, Deleted}] /\ RowsKept
  BY SavedExists DEF TypeInv, StoreOK, RowsKept

\* What is true of a request stays true as rows stay made.
LEMMA WorkKept ==
  ASSUME RowsKept, NEW s, NEW n, WorkOK(s, row, n)
  PROVE  WorkOK(s, row', n)
  BY DEF WorkOK, RowsKept

\* The copy is saved over the row.
LEMMA UpdateSaveTyped ==
  ASSUME TypeInv, NEW r \in Request, UpdateSave(r) PROVE TypeInv'
<1> DEFINE s == [req[r] EXCEPT !.pc = "pending"]
<1>1. req[r] \in Work /\ WorkOK(req[r], row, All) /\ req[r].row \in Row /\ req[r].pc = "update"
  BY ActingOK DEF UpdateSave
<1>2. req[r].copy \in Saved
  BY <1>1 DEF Work
<1>3. row' \in [Row -> Saved \cup {Unused, Deleted}] /\ RowsKept
  BY <1>1, <1>2, CopySaved DEF UpdateSave
<1>4. s \in Work /\ WorkOK(s, row, All)
  BY <1>1, StepOn
<1>5. WorkOK(s, row', All)
  BY <1>3, <1>4, WorkKept
<1> HIDE DEF s
<1>6. Goes(r, s) /\ UNCHANGED <<company, link, held, imp, views, hitches, loose, killed>>
  BY DEF UpdateSave, s
<1> QED
  BY <1>3, <1>4, <1>5, <1>6, AdvanceTyped DEF TypeInv, StoreOK

\* And saved once more, PENDING.
LEMMA UpdatePendingTyped ==
  ASSUME TypeInv, NEW r \in Request, UpdatePending(r) PROVE TypeInv'
<1> DEFINE s == [req[r] EXCEPT !.pc = "load"]
<1>1. req[r] \in Work /\ WorkOK(req[r], row, All) /\ req[r].row \in Row /\ req[r].pc = "pending"
  BY ActingOK DEF UpdatePending
<1>2. [req[r].copy EXCEPT !.status = "PENDING"] \in Saved
  BY <1>1 DEF Work, Saved, Status
<1>3. row' \in [Row -> Saved \cup {Unused, Deleted}] /\ RowsKept
  BY <1>1, <1>2, CopySaved DEF UpdatePending
<1>4. s \in Work /\ WorkOK(s, row, All)
  BY <1>1, StepOn
<1>5. WorkOK(s, row', All)
  BY <1>3, <1>4, WorkKept
<1> HIDE DEF s
<1>6. Goes(r, s) /\ UNCHANGED <<company, link, held, imp, views, hitches, loose, killed>>
  BY DEF UpdatePending, s
<1> QED
  BY <1>3, <1>4, <1>5, <1>6, AdvanceTyped DEF TypeInv, StoreOK

\* A step that leaves the rows and the marks alone.
LEMMA QuietTyped ==
  ASSUME TypeInv, NEW r \in Request, NEW s \in Work, Goes(r, s), WorkOK(s, row, All),
         link' \in [Row -> [Broker -> Name \cup {None, Blank}]],
         UNCHANGED <<company, row, held, imp, views, hitches, loose, killed>>
  PROVE  TypeInv'
<1>1. RowsKept
  BY DEF RowsKept
<1> QED
  BY <1>1, AdvanceTyped DEF TypeInv, StoreOK

\* A request that loads its row has all brokers to tell, and has counted none.
LEMMA LoadTyped ==
  ASSUME TypeInv, NEW r \in Request, Load(r) PROVE TypeInv'
<1> DEFINE b == req[r].row
           s == [req[r] EXCEPT !.pc = "sync", !.todo = company.configured,
                               !.copy = [NoCopy EXCEPT !.data = row[b].data]]
<1>1. req[r] \in Work /\ WorkOK(req[r], row, All) /\ b \in Row /\ row[b] # Unused /\ req[r].pc = "load"
  BY ActingOK DEF Load
<1>2. UNCHANGED <<company, row, link, held, imp, views, hitches, loose, killed>>
  BY DEF Load
<1>3. CASE Exists(b)
  <2>1. Goes(r, s)
    BY <1>3 DEF Load
  <2>2. row[b] \in Saved
    BY <1>1, <1>3, ExistsSaved DEF TypeInv
  <2>3. [NoCopy EXCEPT !.data = row[b].data] \in Saved
    BY <2>2, CopyTyped DEF Saved
  <2>4. company.configured \subseteq Broker
    BY BeneficiaryAssumption DEF TypeInv, StoreOK
  <2>5. s \in Work
    BY <1>1, <2>3, <2>4 DEF Work, Step
  <2>6. /\ s.pc = "sync" /\ s.row = b /\ s.ok = 0 /\ s.bad = 0 /\ s.todo = company.configured
    BY <1>1 DEF Work, WorkOK, Telling
  <2>7. All \in Nat
    BY <2>4, ToDoFinite DEF All
  <2> HIDE DEF s
  <2>8. WorkOK(s, row, All)
    BY <1>1, <2>5, <2>6, <2>7 DEF WorkOK, Telling, All
  <2> QED
    BY <1>2, <2>1, <2>5, <2>8, QuietTyped DEF TypeInv, StoreOK
<1>4. CASE ~Exists(b)
  <2>1. Goes(r, Done)
    BY <1>4 DEF Load
  <2> QED
    BY <1>2, <2>1, DoneOK, CopyTyped, QuietTyped DEF TypeInv, StoreOK
<1> QED
  BY <1>3, <1>4

\* A request that goes on to its next broker, with what it has counted.
LEMMA CountedIs ==
  ASSUME NEW s \in Work, NEW ok \in BOOLEAN
  PROVE  /\ Counted(s, ok) \in Work /\ Counted(s, ok).pc = "sync"
         /\ Counted(s, ok).row = s.row /\ Counted(s, ok).todo = s.todo
         /\ Counted(s, ok).copy = s.copy
         /\ Counted(s, ok).ok = (IF ok THEN s.ok + 1 ELSE s.ok)
         /\ Counted(s, ok).bad = (IF ok THEN s.bad ELSE s.bad + 1)
<1>1. s.ok \in Nat /\ s.bad \in Nat
  BY DEF Work
<1>3. ASSUME ok = TRUE
      PROVE  Counted(s, ok) =
               [s EXCEPT !.pc = "sync", !.at = None, !.id = None, !.ok = s.ok + 1, !.bad = s.bad]
  BY <1>3, Zenon DEF Counted
<1>4. ASSUME ok = FALSE
      PROVE  Counted(s, ok) =
               [s EXCEPT !.pc = "sync", !.at = None, !.id = None, !.ok = s.ok, !.bad = s.bad + 1]
  BY <1>4, Zenon DEF Counted
<1>5. s.ok + 1 \in Nat /\ s.bad + 1 \in Nat
  BY <1>1
<1> DEFINE u == Counted(s, ok)
<1> HIDE DEF u
<1>6. CASE ok = TRUE
  <2>1. u = [s EXCEPT !.pc = "sync", !.at = None, !.id = None, !.ok = s.ok + 1, !.bad = s.bad]
    BY <1>3, <1>6 DEF u
  <2>2. u \in Work /\ u.pc = "sync" /\ u.row = s.row /\ u.todo = s.todo
        /\ u.copy = s.copy /\ u.ok = s.ok + 1 /\ u.bad = s.bad
    BY <1>1, <1>5, <2>1 DEF Work, Step
  <2> QED
    BY <2>2, <1>6 DEF u
<1>7. CASE ok = FALSE
  <2>1. u = [s EXCEPT !.pc = "sync", !.at = None, !.id = None, !.ok = s.ok, !.bad = s.bad + 1]
    BY <1>4, <1>7 DEF u
  <2>2. u \in Work /\ u.pc = "sync" /\ u.row = s.row /\ u.todo = s.todo
        /\ u.copy = s.copy /\ u.ok = s.ok /\ u.bad = s.bad + 1
    BY <1>1, <1>5, <2>1 DEF Work, Step
  <2> QED
    BY <2>2, <1>7 DEF u
<1> QED
  BY <1>6, <1>7

\* A request that has counted one more broker, after the steps at it ...
LEMMA CountedOK ==
  ASSUME NEW s \in Work, NEW rows, NEW n, WorkOK(s, rows, n), NEW ok \in BOOLEAN,
         s.pc \in {"call", "link", "fill"}
  PROVE  Counted(s, ok) \in Work /\ WorkOK(Counted(s, ok), rows, n)
<1> DEFINE u == Counted(s, ok)
<1>1. u \in Work /\ u.pc = "sync" /\ u.row = s.row /\ u.todo = s.todo
  BY CountedIs
<1>2. u.ok = (IF ok THEN s.ok + 1 ELSE s.ok) /\ u.bad = (IF ok THEN s.bad ELSE s.bad + 1)
  BY CountedIs
<1>3. s.row \in Row /\ rows[s.row] # Unused /\ n = s.ok + s.bad + Cardinality(s.todo) + 1
  BY DEF WorkOK, Telling
<1>4. s.ok \in Nat /\ s.bad \in Nat /\ Cardinality(s.todo) \in Nat
  BY ToDoFinite DEF Work
<1> HIDE DEF u
<1>5. n = u.ok + u.bad + Cardinality(u.todo)
  BY <1>1, <1>2, <1>3, <1>4
<1>6. n = u.ok + u.bad + Cardinality(u.todo) + 0
  BY <1>1, <1>2, <1>4, <1>5
<1>7. WorkOK(u, rows, n)
  BY <1>1, <1>3, <1>6 DEF WorkOK, Telling
<1> QED
  BY <1>1, <1>7 DEF u

\* ... and at once.
LEMMA TryOK ==
  ASSUME NEW s \in Work, NEW rows, NEW n, WorkOK(s, rows, n), s.pc = "sync",
         NEW k \in s.todo, NEW id \in Name \cup {None}
  PROVE  /\ Counted([s EXCEPT !.todo = @ \ {k}], FALSE) \in Work
         /\ WorkOK(Counted([s EXCEPT !.todo = @ \ {k}], FALSE), rows, n)
         /\ [[s EXCEPT !.todo = @ \ {k}] EXCEPT !.pc = "call", !.at = k, !.id = id] \in Work
         /\ WorkOK([[s EXCEPT !.todo = @ \ {k}] EXCEPT !.pc = "call", !.at = k, !.id = id], rows, n)
<1> DEFINE v == [s EXCEPT !.todo = @ \ {k}]
           u == Counted(v, FALSE)
           w == [v EXCEPT !.pc = "call", !.at = k, !.id = id]
<1>1. k \in Broker /\ v \in Work /\ v.todo = s.todo \ {k} /\ v.row = s.row /\ v.ok = s.ok /\ v.bad = s.bad
  BY DEF Work
<1>2. Cardinality(s.todo \ {k}) = Cardinality(s.todo) - 1 /\ Cardinality(s.todo) \in Nat
  BY ToDoFinite, FS_RemoveElement DEF Work
<1>3. s.row \in Row /\ rows[s.row] # Unused /\ n = s.ok + s.bad + Cardinality(s.todo)
  <2>1. n = s.ok + s.bad + Cardinality(s.todo) + 0
    BY DEF WorkOK, Telling
  <2> QED
    BY <2>1, <1>2 DEF WorkOK, Work
<1>4. s.ok \in Nat /\ s.bad \in Nat
  BY DEF Work
<1> HIDE DEF v
<1>5. /\ u \in Work /\ u.pc = "sync" /\ u.row = s.row /\ u.todo = s.todo \ {k}
      /\ u.ok = s.ok /\ u.bad = s.bad + 1
  BY <1>1, CountedIs
<1>6. /\ w \in Work /\ w.pc = "call" /\ w.row = s.row /\ w.todo = s.todo \ {k} /\ w.at = k
      /\ w.ok = s.ok /\ w.bad = s.bad
  BY <1>1 DEF Work, Step
<1> HIDE DEF u, w
<1>7. n = u.ok + u.bad + Cardinality(u.todo) + 0
  BY <1>2, <1>3, <1>4, <1>5
<1>8. n = w.ok + w.bad + Cardinality(w.todo) + 1
  BY <1>2, <1>3, <1>4, <1>6
<1>9. WorkOK(u, rows, n) /\ WorkOK(w, rows, n)
  BY <1>1, <1>3, <1>5, <1>6, <1>7, <1>8 DEF WorkOK, Telling
<1> QED
  BY <1>5, <1>6, <1>9 DEF u, v, w

\* A broker is told an identifier, or none.
LEMMA AddressedType ==
  ASSUME StoreOK, NEW b \in Row, NEW k \in Broker
  PROVE  Addressed(b, k) \in Name \cup {None}
  BY DEF StoreOK, Addressed, Name

\* A service takes one broker from those to tell, and counts it or is at it.
LEMMA TryServiceTyped ==
  ASSUME TypeInv, NEW r \in Request, NEW k \in Broker, TryService(r, k) PROVE TypeInv'
<1> DEFINE b == req[r].row
           v == [req[r] EXCEPT !.todo = @ \ {k}]
<1>1. req[r] \in Work /\ WorkOK(req[r], row, All) /\ b \in Row /\ req[r].pc = "sync" /\ k \in req[r].todo
  BY ActingOK DEF TryService
<1>2. UNCHANGED <<company, row, link, held, imp, views, hitches, loose, killed>>
  BY DEF TryService
<1>3. Addressed(b, k) \in Name \cup {None}
  BY <1>1, AddressedType DEF TypeInv
<1>4. \/ Goes(r, Counted(v, FALSE))
      \/ Goes(r, [v EXCEPT !.pc = "call", !.at = k, !.id = Addressed(b, k)])
  BY DEF TryService
<1>5. link' \in [Row -> [Broker -> Name \cup {None, Blank}]]
  BY <1>2 DEF TypeInv, StoreOK
<1>6. /\ Counted(v, FALSE) \in Work /\ WorkOK(Counted(v, FALSE), row, All)
      /\ [v EXCEPT !.pc = "call", !.at = k, !.id = Addressed(b, k)] \in Work
      /\ WorkOK([v EXCEPT !.pc = "call", !.at = k, !.id = Addressed(b, k)], row, All)
  BY <1>1, <1>3, TryOK
<1> HIDE DEF v
<1> QED
  BY <1>2, <1>4, <1>5, <1>6, QuietTyped

\* A refusal is counted.
LEMMA RefusedTyped ==
  ASSUME TypeInv, NEW r \in Request, Refused(r) PROVE TypeInv'
<1>1. req[r] \in Work /\ WorkOK(req[r], row, All) /\ req[r].pc = "call"
  BY ActingOK DEF Refused
<1>2. Counted(req[r], FALSE) \in Work /\ WorkOK(Counted(req[r], FALSE), row, All)
  BY <1>1, CountedOK
<1> QED
  BY <1>2, QuietTyped DEF Refused, TypeInv, StoreOK

\* What a broker is told under, and what becomes of the request.
AcceptedId(r) == IF req[r].id = None THEN NewId(req[r].at) ELSE req[r].id
AcceptedWork(r, answered) ==
  IF answered THEN [req[r] EXCEPT !.pc = "link", !.id = AcceptedId(r)] ELSE Counted(req[r], FALSE)

\* What the step in which a broker takes a beneficiary does to each variable.
LEMMA AcceptedFacts ==
  ASSUME TypeInv, NEW r \in Request, NEW answered \in BOOLEAN, Accepted(r, answered)
  PROVE  /\ req[r] \in Work /\ WorkOK(req[r], row, All) /\ req[r].pc = "call"
         /\ req[r].row \in Row /\ req[r].at \in Broker
         /\ AcceptedId(r) \in Name
         /\ req[r].id = None => AcceptedId(r) \in Id /\ held[req[r].at][AcceptedId(r)] = None
         /\ AcceptedWork(r, answered) \in Work /\ WorkOK(AcceptedWork(r, answered), row, All)
         /\ Moves(r, AcceptedWork(r, answered))
         /\ held' = [held EXCEPT ![req[r].at][AcceptedId(r)] =
                      [of |-> IF held[req[r].at][AcceptedId(r)] = None THEN req[r].row
                              ELSE held[req[r].at][AcceptedId(r)].of,
                       data |-> req[r].copy.data]]
         /\ held' \in [Broker -> [Name -> Payee \cup {None}]]
         /\ loose' = loose \cup (Sharing(req[r].at, AcceptedId(r)) \ {req[r].row})
         /\ IF answered THEN hitches' = hitches ELSE Hitch(req[r].row)
         /\ UNCHANGED <<company, row, link, imp, views, killed>>
<1> DEFINE s == req[r]
           k == s.at
           id == AcceptedId(r)
           u == AcceptedWork(r, answered)
<1>1. s \in Work /\ WorkOK(s, row, All) /\ s.pc = "call" /\ s.row \in Row /\ k \in Broker
  BY ActingOK DEF Accepted, WorkOK
<1>2. s.id = None => NewId(k) \in Id /\ held[k][NewId(k)] = None
  BY DEF Accepted, NewId
<1>3. id \in Name /\ (s.id = None => id \in Id /\ held[k][id] = None)
  BY <1>1, <1>2 DEF AcceptedId, Name, Work
<1>4. u \in Work /\ WorkOK(u, row, All)
  <2>1. CASE answered
    <3> DEFINE v == [s EXCEPT !.pc = "link", !.id = id]
    <3>1. /\ v \in Work /\ v.pc = "link" /\ v.row = s.row /\ v.at = s.at /\ v.id = id
          /\ v.todo = s.todo /\ v.ok = s.ok /\ v.bad = s.bad
      BY <1>1, <1>3 DEF Work, Step
    <3> HIDE DEF v
    <3>2. WorkOK(v, row, All)
      BY <1>1, <1>3, <3>1 DEF WorkOK, Telling
    <3> QED
      BY <2>1, <3>1, <3>2 DEF v, AcceptedWork
  <2>2. CASE ~answered
    BY <1>1, <2>2, CountedOK DEF AcceptedWork
  <2> QED
    BY <2>1, <2>2
<1>5. Disturb([req EXCEPT ![r] = u], Sharing(k, id) \ {s.row})
  BY DEF Accepted, AcceptedWork, AcceptedId
<1>6. Moves(r, u)
  <2> DEFINE f == [req EXCEPT ![r] = u]
  <2>1. f \in [Request -> Work] /\ f[r] = u /\ \A q \in Request \ {r} : f[q] = req[q]
    BY <1>4 DEF TypeInv, RequestsOK
  <2>2. Disturb(f, Sharing(k, id) \ {s.row})
    BY <1>5
  <2> HIDE DEF f
  <2>3. req' \in [Request -> Work] /\ \A q \in Request : Same(req'[q], f[q])
    BY <2>1, <2>2, DisturbMoves
  <2> QED
    BY <2>1, <2>3 DEF Moves
<1>7. held' = [held EXCEPT ![k][id] =
                [of |-> IF held[k][id] = None THEN s.row ELSE held[k][id].of, data |-> s.copy.data]]
  BY DEF Accepted, AcceptedId
<1>8. held' \in [Broker -> [Name -> Payee \cup {None}]]
  <2>1. held \in [Broker -> [Name -> Payee \cup {None}]]
    BY DEF TypeInv, StoreOK
  <2>2. s.copy.data \in Data
    BY <1>1 DEF Work, Saved
  <2>3. held[k][id] # None => held[k][id].of \in Row \cup {None}
    BY <1>1, <1>3, <2>1 DEF Payee
  <2>4. [of |-> IF held[k][id] = None THEN s.row ELSE held[k][id].of, data |-> s.copy.data] \in Payee
    BY <1>1, <2>2, <2>3 DEF Payee
  <2> QED
    BY <1>1, <1>3, <1>7, <2>1, <2>4
<1>9. loose' = loose \cup (Sharing(k, id) \ {s.row})
  BY <1>5 DEF Disturb
<1>10. IF answered THEN hitches' = hitches ELSE Hitch(s.row)
  BY DEF Accepted
<1>11. UNCHANGED <<company, row, link, imp, views, killed>>
  BY DEF Accepted
<1> QED
  BY <1>1, <1>3, <1>4, <1>6, <1>7, <1>8, <1>9, <1>10, <1>11

\* It keeps the types.
LEMMA AcceptedTyped ==
  ASSUME TypeInv, NEW r \in Request, NEW answered \in BOOLEAN, Accepted(r, answered)
  PROVE  TypeInv'
<1>1. /\ Moves(r, AcceptedWork(r, answered)) /\ WorkOK(AcceptedWork(r, answered), row, All)
      /\ held' \in [Broker -> [Name -> Payee \cup {None}]]
      /\ IF answered THEN hitches' = hitches ELSE Hitch(req[r].row)
      /\ loose' = loose \cup (Sharing(req[r].at, AcceptedId(r)) \ {req[r].row})
      /\ req[r].row \in Row /\ req[r].at \in Broker /\ AcceptedId(r) \in Name
      /\ UNCHANGED <<company, row, link, imp, views, killed>>
  BY AcceptedFacts
<1>2. hitches' \in [Row -> 0 .. MaxHitches]
  BY <1>1, HitchType DEF TypeInv, StoreOK
<1>3. Sharing(req[r].at, AcceptedId(r)) \subseteq Row
  BY <1>1 DEF TypeInv, StoreOK, Sharing, Linked, Payee
<1>4. loose' \subseteq Row
  BY <1>1, <1>3 DEF TypeInv, StoreOK
<1>5. RowsKept
  BY <1>1 DEF RowsKept
<1>6. RequestsOK'
  BY <1>1, <1>5, RequestsKept DEF TypeInv
<1>7. StoreOK'
  BY <1>1, <1>2, <1>4 DEF TypeInv, StoreOK
<1> QED
  BY <1>6, <1>7 DEF TypeInv

\* The link is found or made, or the attempt counted.
LEMMA LinkFindTyped ==
  ASSUME TypeInv, NEW r \in Request, LinkFind(r) PROVE TypeInv'
<1> DEFINE s == req[r]
           u == [s EXCEPT !.pc = "fill"]
<1>1. s \in Work /\ WorkOK(s, row, All) /\ s.row \in Row /\ s.pc = "link" /\ s.at \in Broker
  BY ActingOK DEF LinkFind, WorkOK
<1>2. UNCHANGED <<company, row, held, imp, views, hitches, loose, killed>>
  BY DEF LinkFind
<1>3. link' \in [Row -> [Broker -> Name \cup {None, Blank}]]
  BY <1>1 DEF LinkFind, TypeInv, StoreOK
<1>4. CASE Exists(s.row)
  <2>1. /\ u \in Work /\ u.pc = "fill" /\ u.row = s.row /\ u.at = s.at /\ u.id = s.id
        /\ u.todo = s.todo /\ u.ok = s.ok /\ u.bad = s.bad
    BY <1>1 DEF Work, Step
  <2>2. Goes(r, u)
    BY <1>4 DEF LinkFind
  <2> HIDE DEF u
  <2>3. WorkOK(u, row, All)
    BY <1>1, <2>1 DEF WorkOK, Telling
  <2> QED
    BY <1>2, <1>3, <2>1, <2>2, <2>3, QuietTyped
<1>5. CASE ~Exists(s.row)
  <2>1. Goes(r, Counted(s, FALSE))
    BY <1>5 DEF LinkFind
  <2>2. Counted(s, FALSE) \in Work /\ WorkOK(Counted(s, FALSE), row, All)
    BY <1>1, CountedOK
  <2> QED
    BY <1>2, <1>3, <2>1, <2>2, QuietTyped
<1> QED
  BY <1>4, <1>5

\* The link is set, and the attempt counted.
LEMMA LinkSaveTyped ==
  ASSUME TypeInv, NEW r \in Request, LinkSave(r) PROVE TypeInv'
<1> DEFINE s == req[r]
<1>1. /\ s \in Work /\ WorkOK(s, row, All) /\ s.row \in Row /\ s.pc = "fill"
      /\ s.at \in Broker /\ s.id \in Name
  BY ActingOK DEF LinkSave, WorkOK
<1>2. UNCHANGED <<company, row, held, imp, views, hitches, loose, killed>>
  BY DEF LinkSave
<1>3. link' \in [Row -> [Broker -> Name \cup {None, Blank}]]
  BY <1>1 DEF LinkSave, TypeInv, StoreOK
<1>4. Goes(r, Counted(s, Exists(s.row))) /\ Exists(s.row) \in BOOLEAN
  BY DEF LinkSave, Exists
<1>5. Counted(s, Exists(s.row)) \in Work /\ WorkOK(Counted(s, Exists(s.row)), row, All)
  BY <1>1, <1>4, CountedOK
<1> QED
  BY <1>2, <1>3, <1>4, <1>5, QuietTyped

\* One of the cases of Verdict applies.
LEMMA VerdictType ==
  ASSUME NEW ok \in Nat, NEW all
  PROVE  Verdict(ok, all) \in {"DRAFT", "SYNCED", "PARTIALLY_SYNCED"}
  BY DEF Verdict

\* The status told is one of a row.
LEMMA FinishTyped ==
  ASSUME TypeInv, NEW r \in Request, Finish(r) PROVE TypeInv'
<1> DEFINE s == req[r]
           status == Verdict(s.ok, Cardinality(company.configured))
<1>1. s \in Work /\ s.row \in Row
  BY ActingOK DEF Finish
<1>2. status \in Status
  BY <1>1, VerdictType DEF Work, Status
<1> HIDE DEF status
<1>3. row' \in [Row -> Saved \cup {Unused, Deleted}] /\ RowsKept
  <2>1. CASE Exists(s.row)
    <3>1. row' = [row EXCEPT ![s.row].status = status]
      BY <2>1 DEF Finish, status
    <3>2. row[s.row] \in Saved
      BY <1>1, <2>1, ExistsSaved DEF TypeInv
    <3>3. [row[s.row] EXCEPT !.status = status] \in Saved
      BY <1>2, <3>2 DEF Saved
    <3>4. row' = [row EXCEPT ![s.row] = [row[s.row] EXCEPT !.status = status]]
      BY <1>1, <3>1
    <3> QED
      BY <1>1, <3>3, <3>4, CopySaved
  <2>2. CASE ~Exists(s.row)
    BY <2>2 DEF Finish, TypeInv, StoreOK, RowsKept
  <2> QED
    BY <2>1, <2>2
<1>4. loose' \subseteq Row /\ killed' \subseteq Row
  BY DEF Finish, TypeInv, StoreOK
<1>5. Goes(r, Done) /\ UNCHANGED <<company, link, held, imp, views, hitches>>
  BY DEF Finish
<1> QED
  BY <1>3, <1>4, <1>5, DoneOK, CopyTyped, AdvanceTyped DEF TypeInv, StoreOK

\* A request that dies is done.
LEMMA DieTyped ==
  ASSUME TypeInv, NEW r \in Request, Die(r) PROVE TypeInv'
<1> DEFINE b == req[r].row
<1>1. b \in Row
  BY ActingOK DEF Die
<1>2. hitches' \in [Row -> 0 .. MaxHitches]
  BY <1>1, HitchType DEF Die, TypeInv
<1>3. loose' \subseteq Row /\ killed' \subseteq Row
  BY <1>1 DEF Die, TypeInv, StoreOK
<1>4. Goes(r, Done) /\ UNCHANGED <<company, row, link, held, imp, views>>
  BY DEF Die
<1>5. RowsKept
  BY <1>4 DEF RowsKept
<1> QED
  BY <1>2, <1>3, <1>4, <1>5, DoneOK, CopyTyped, AdvanceTyped DEF TypeInv, StoreOK

\* The import holds a payee the broker has.
LEMMA ImportViewTyped ==
  ASSUME TypeInv, NEW k \in Broker, NEW id \in Name, ImportView(k, id) PROVE TypeInv'
<1>1. held[k][id] \in Payee
  BY DEF ImportView, TypeInv, StoreOK
<1>2. imp' \in Imports
  BY <1>1 DEF ImportView, Payee, Imports
<1>3. views' \in 0 .. MaxViews
  BY BeneficiaryAssumption DEF ImportView, TypeInv, StoreOK
<1>4. StoreOK'
  BY <1>2, <1>3 DEF ImportView, TypeInv, StoreOK
<1>5. RowsKept /\ Rest /\ company' = company
  BY DEF ImportView, TypeInv, RequestsOK, RowsKept, Rest, Same
<1> QED
  BY <1>4, <1>5, RequestsRest DEF TypeInv

\* A row takes what the import brings.
LEMMA ImportTyped ==
  ASSUME TypeInv, imp \in Imports, NEW b \in Row, row[b] # Deleted,
         NEW ext \in Name \cup {None}, NEW linking \in BOOLEAN, Import(b, ext, linking),
         imp' = NoImport, UNCHANGED <<company, held, views, hitches, killed>>
  PROVE  TypeInv'
<1> DEFINE new == [status |-> "SYNCED", data |-> imp.data, ext |-> ext]
<1>1. new \in Saved
  BY DEF Imports, Saved, Status
<1>2. row' = [row EXCEPT ![b] = new]
  BY DEF Import
<1> HIDE DEF new
<1>3. row' \in [Row -> Saved \cup {Unused, Deleted}] /\ RowsKept
  BY <1>1, <1>2, CopySaved
<1>4. link' \in [Row -> [Broker -> Name \cup {None, Blank}]]
  BY DEF Import, Imports, TypeInv, StoreOK
<1>5. Disturb(req, {b})
  BY DEF Import
<1>6. Rest
  BY <1>5, DisturbRest DEF TypeInv, RequestsOK
<1>7. loose' \subseteq Row
  BY <1>5 DEF Disturb, TypeInv, StoreOK
<1>8. StoreOK'
  BY <1>3, <1>4, <1>7 DEF TypeInv, StoreOK
<1> QED
  BY <1>3, <1>6, <1>8, RequestsRest DEF TypeInv

\* Which row takes it, and under which external identifier: its own, or, new, the
\* payee's.
LEMMA ImportTakes ==
  ASSUME StoreOK, LinkedExist, ImportSave
  PROVE  /\ imp \in Imports /\ imp' = NoImport
         /\ UNCHANGED <<company, held, views, hitches, killed>>
         /\ \E b \in Row, ext \in Name \cup {None}, linking \in BOOLEAN :
              /\ Import(b, ext, linking)
              /\ row[b] # Deleted
              /\ \/ /\ Exists(b) /\ ext = row[b].ext
                    /\ link[b][imp.at] = imp.id \/ row[b].ext = imp.id
                 \/ row[b] = Unused /\ ext = imp.id
<1> DEFINE linked == Linked(imp.at, imp.id)
           known == Known(imp.id)
<1>1. imp \in Imports /\ imp' = NoImport /\ UNCHANGED <<company, held, views, hitches, killed>>
  BY DEF StoreOK, ImportSave
<1>2. /\ \A b \in Row : b \in linked => link[b][imp.at] = imp.id
      /\ \A b \in Row : b \in known => Exists(b) /\ row[b].ext = imp.id
  BY DEF Linked, Known
<1>3. ImportSave =>
        \/ \E b \in Row :
             /\ linked = {b} \/ (linked = {} /\ known = {b})
             /\ Import(b, row[b].ext, imp.at = MONEX)
        \/ /\ linked = {} /\ known = {}
           /\ \E b \in Row : row[b] = Unused /\ Import(b, imp.id, TRUE)
  BY DEF ImportSave
<1> HIDE DEF linked, known
<1>4. CASE \E b \in Row : /\ linked = {b} \/ (linked = {} /\ known = {b})
                          /\ Import(b, row[b].ext, imp.at = MONEX)
  <2>1. PICK b \in Row : /\ linked = {b} \/ (linked = {} /\ known = {b})
                         /\ Import(b, row[b].ext, imp.at = MONEX)
    BY <1>4
  <2>2. imp.at \in Broker /\ imp.id \in Name
    BY <1>1 DEF Imports
  <2>3. imp.id # None
    BY <2>2, BeneficiaryAssumption
  <2>4. Exists(b) /\ (link[b][imp.at] = imp.id \/ row[b].ext = imp.id)
    BY <1>2, <2>1, <2>2, <2>3 DEF LinkedExist
  <2>5. row[b].ext \in Name \cup {None} /\ row[b] # Deleted /\ (imp.at = MONEX) \in BOOLEAN
    BY <2>4, ExistsSaved DEF Saved, Exists
  <2> QED
    BY <1>1, <2>1, <2>4, <2>5
<1>5. CASE \E b \in Row : row[b] = Unused /\ Import(b, imp.id, TRUE)
  <2>1. PICK b \in Row : row[b] = Unused /\ Import(b, imp.id, TRUE)
    BY <1>5
  <2>2. row[b] # Deleted /\ imp.id \in Name
    BY <1>1, <2>1, BeneficiaryAssumption DEF Imports
  <2> QED
    BY <1>1, <2>1, <2>2
<1> QED
  BY <1>3, <1>4, <1>5

\* An import saves what it holds over a row that is there, or makes one.
LEMMA ImportSaveTyped ==
  ASSUME TypeInv, LinkedExist, ImportSave PROVE TypeInv'
<1>1. PICK b \in Row, ext \in Name \cup {None}, linking \in BOOLEAN :
        Import(b, ext, linking) /\ row[b] # Deleted
  BY ImportTakes DEF TypeInv
<1>2. imp \in Imports /\ imp' = NoImport /\ UNCHANGED <<company, held, views, hitches, killed>>
  BY ImportTakes DEF TypeInv
<1> QED
  BY <1>1, <1>2, ImportTyped

\* An import that gives up changes no row.
LEMMA ImportGivesUpTyped ==
  ASSUME TypeInv, ImportGivesUp PROVE TypeInv'
<1>1. StoreOK'
  BY DEF ImportGivesUp, TypeInv, StoreOK
<1>2. RowsKept /\ Rest /\ company' = company
  BY DEF ImportGivesUp, TypeInv, RequestsOK, RowsKept, Rest, Same
<1> QED
  BY <1>1, <1>2, RequestsRest DEF TypeInv

\* Every step keeps the types.
LEMMA NextTyped ==
  ASSUME TypeInv, LinkedExist, Next PROVE TypeInv'
<1>1. ASSUME NEW b \in Row, Create(b) \/ Destroy(b) PROVE TypeInv'
  BY <1>1, CreateTyped, DestroyTyped
<1>2. ASSUME NEW r \in Request, NEW b \in Row, ActivateRead(r, b) PROVE TypeInv'
  BY <1>2, ActivateReadTyped
<1>3. ASSUME NEW r \in Request, NEW b \in Row, NEW d \in Data, UpdateRead(r, b, d) PROVE TypeInv'
  BY <1>3, UpdateReadTyped
<1>4. ASSUME NEW r \in Request, Advance(r) PROVE TypeInv'
  BY <1>4, ActivateSaveTyped, UpdateSaveTyped, UpdatePendingTyped, LoadTyped, TryServiceTyped,
     RefusedTyped, AcceptedTyped, LinkFindTyped, LinkSaveTyped, FinishTyped DEF Advance
<1>5. ASSUME NEW r \in Request, Die(r) PROVE TypeInv'
  BY <1>5, DieTyped
<1>6. ASSUME NEW k \in Broker, NEW id \in Name, ImportView(k, id) PROVE TypeInv'
  BY <1>6, ImportViewTyped
<1> QED
  BY <1>1, <1>2, <1>3, <1>4, <1>5, <1>6, ImportSaveTyped, ImportGivesUpTyped DEF Next

-----------------------------------------------------------------------------
(* A row with a link is there.                                              *)

\* It is enough that rows stay, and that links are set at rows that are there.
LEMMA LinkedKept ==
  ASSUME LinkedExist, \A b \in Row : Exists(b) => Exists(b)',
         \A b \in Row : link'[b] = link[b] \/ Exists(b)'
  PROVE  LinkedExist'
  BY DEF LinkedExist

\* A row that is saved is there, and the others stay.
LEMMA UpdatedExist ==
  ASSUME StoreOK, NEW b \in Row, NEW c \in Saved, row' = [row EXCEPT ![b] = c]
  PROVE  Exists(b)' /\ \A q \in Row : Exists(q) => Exists(q)'
  BY SavedExists DEF StoreOK, Exists

\* No step of a request sets a link at a row that is gone.
LEMMA AdvanceLinked ==
  ASSUME TypeInv, LinkedExist, NEW r \in Request, Advance(r) PROVE LinkedExist'
<1> DEFINE s == req[r]
<1>1. s \in Work /\ s.copy \in Saved /\ (s.pc \notin {"new", "done"} => s.row \in Row)
  BY ActingOK DEF Work
<1>2. CASE ActivateSave(r)
  <2>1. s.row \in Row /\ link' = link
    BY <1>1, <1>2 DEF ActivateSave
  <2>2. CASE Exists(s.row)
    <3>1. row[s.row] \in Saved
      BY <2>1, <2>2, ExistsSaved DEF TypeInv
    <3>2. [row[s.row] EXCEPT !.status = "PENDING"] \in Saved
      BY <3>1 DEF Saved, Status
    <3>3. row' = [row EXCEPT ![s.row] = [row[s.row] EXCEPT !.status = "PENDING"]]
      BY <1>2, <2>1, <2>2 DEF ActivateSave
    <3> QED
      BY <2>1, <3>2, <3>3, UpdatedExist, LinkedKept DEF TypeInv
  <2>3. CASE ~Exists(s.row)
    BY <1>2, <2>1, <2>3, LinkedKept DEF ActivateSave, Exists
  <2> QED
    BY <2>2, <2>3
<1>3. CASE UpdateSave(r)
  BY <1>1, <1>3, UpdatedExist, LinkedKept DEF UpdateSave, TypeInv
<1>4. CASE UpdatePending(r)
  <2>1. [s.copy EXCEPT !.status = "PENDING"] \in Saved
    BY <1>1 DEF Saved, Status
  <2> QED
    BY <1>1, <1>4, <2>1, UpdatedExist, LinkedKept DEF UpdatePending, TypeInv
<1>5. CASE Load(r)
  BY <1>5, LinkedKept DEF Load, Exists
<1>6. ASSUME NEW k \in Broker, TryService(r, k) PROVE LinkedExist'
  BY <1>6, LinkedKept DEF TryService, Exists
<1>7. CASE Refused(r)
  BY <1>7, LinkedKept DEF Refused, Exists
<1>8. ASSUME NEW answered \in BOOLEAN, Accepted(r, answered) PROVE LinkedExist'
  BY <1>8, LinkedKept DEF Accepted, Exists
<1>9. CASE LinkFind(r)
  BY <1>1, <1>9, LinkedKept DEF LinkFind, Exists, TypeInv, StoreOK
<1>10. CASE LinkSave(r)
  BY <1>1, <1>10, LinkedKept DEF LinkSave, Exists, TypeInv, StoreOK
<1>11. CASE Finish(r)
  <2>1. s.row \in Row /\ link' = link
    BY <1>1, <1>11 DEF Finish
  <2>2. CASE Exists(s.row)
    <3> DEFINE status == Verdict(s.ok, Cardinality(company.configured))
    <3>1. row[s.row] \in Saved
      BY <2>1, <2>2, ExistsSaved DEF TypeInv
    <3>2. status \in Status
      BY <1>1, VerdictType DEF Work, Status
    <3>3. [row[s.row] EXCEPT !.status = status] \in Saved
      BY <3>1, <3>2 DEF Saved
    <3>4. row' = [row EXCEPT ![s.row] = [row[s.row] EXCEPT !.status = status]]
      BY <1>11, <2>1, <2>2 DEF Finish
    <3> QED
      BY <2>1, <3>3, <3>4, UpdatedExist, LinkedKept DEF TypeInv
  <2>3. CASE ~Exists(s.row)
    BY <1>11, <2>1, <2>3, LinkedKept DEF Finish, Exists
  <2> QED
    BY <2>2, <2>3
<1> QED
  BY <1>2, <1>3, <1>4, <1>5, <1>6, <1>7, <1>8, <1>9, <1>10, <1>11 DEF Advance

\* Nor does any other step.
LEMMA NextLinked ==
  ASSUME TypeInv, LinkedExist, Next PROVE LinkedExist'
<1>1. ASSUME NEW b \in Row, Create(b) PROVE LinkedExist'
  BY <1>1, CopyTyped, UpdatedExist, LinkedKept DEF Create, TypeInv
<1>2. ASSUME NEW b \in Row, Destroy(b) PROVE LinkedExist'
  BY <1>2 DEF Destroy, LinkedExist, Exists, TypeInv, StoreOK
<1>3. ASSUME NEW r \in Request, NEW b \in Row, ActivateRead(r, b) PROVE LinkedExist'
  BY <1>3, LinkedKept DEF ActivateRead, Exists
<1>4. ASSUME NEW r \in Request, NEW b \in Row, NEW d \in Data, UpdateRead(r, b, d)
      PROVE  LinkedExist'
  BY <1>4, LinkedKept DEF UpdateRead, Exists
<1>5. ASSUME NEW r \in Request, Die(r) PROVE LinkedExist'
  BY <1>5, LinkedKept DEF Die, Exists
<1>6. ASSUME NEW k \in Broker, NEW id \in Name, ImportView(k, id) PROVE LinkedExist'
  BY <1>6, LinkedKept DEF ImportView, Exists
<1>7. CASE ImportSave
  <2>1. PICK b \in Row, ext \in Name \cup {None}, linking \in BOOLEAN : Import(b, ext, linking)
    BY <1>7, ImportTakes DEF TypeInv
  <2>2. imp \in Imports
    BY <1>7, ImportTakes DEF TypeInv
  <2>3. [status |-> "SYNCED", data |-> imp.data, ext |-> ext] \in Saved
    BY <2>2 DEF Imports, Saved, Status
  <2>4. Exists(b)' /\ \A q \in Row : Exists(q) => Exists(q)'
    BY <2>1, <2>3, UpdatedExist DEF Import, TypeInv
  <2>5. \A q \in Row : link'[q] = link[q] \/ Exists(q)'
    BY <2>1, <2>4 DEF Import, TypeInv, StoreOK
  <2> QED
    BY <2>4, <2>5, LinkedKept
<1>8. CASE ImportGivesUp
  BY <1>8, LinkedKept DEF ImportGivesUp, Exists
<1> QED
  BY <1>1, <1>2, <1>3, <1>4, <1>5, <1>6, <1>7, <1>8, AdvanceLinked DEF Next

\* The first states have the types, and no links.
LEMMA InitTyped ==
  ASSUME Init PROVE TypeInv /\ LinkedExist
<1>1. NoCopy.data \in Data /\ Fresh \in Work
  BY CopyTyped DEF Saved
<1>2. StoreOK
  <2>1. held \in [Broker -> [Name -> Payee \cup {None}]]
    BY <1>1 DEF Init, Payee
  <2>2. company \in Companies /\ imp \in Imports \cup {NoImport}
        /\ row \in [Row -> Saved \cup {Unused, Deleted}]
        /\ link \in [Row -> [Broker -> Name \cup {None, Blank}]]
    BY DEF Init
  <2>3. views \in 0 .. MaxViews /\ hitches \in [Row -> 0 .. MaxHitches]
    BY BeneficiaryAssumption DEF Init
  <2>4. loose \subseteq Row /\ killed \subseteq Row
    BY DEF Init
  <2> QED
    BY <2>1, <2>2, <2>3, <2>4 DEF StoreOK
<1>3. \A n, rows : WorkOK(Fresh, rows, n)
  BY <1>1 DEF WorkOK, Fresh, Telling
<1>4. req = [r \in Request |-> Fresh]
  BY DEF Init
<1>5. RequestsOK
  BY <1>1, <1>3, <1>4 DEF RequestsOK
<1>6. LinkedExist
  BY DEF Init, LinkedExist
<1> QED
  BY <1>2, <1>5, <1>6 DEF TypeInv

\* No step gives a variable a value it may not have, and no request that tells
\* the brokers counts one twice or forgets one, whatever dies, is deleted or is
\* imported around it.
THEOREM BeneficiaryTypeCorrect == Spec => []TypeOK
<1>1. Init => TypeInv /\ LinkedExist
  BY InitTyped
<1>2. TypeInv /\ LinkedExist /\ [Next]_vars => (TypeInv /\ LinkedExist)'
  <2>1. TypeInv /\ LinkedExist /\ UNCHANGED vars => (TypeInv /\ LinkedExist)'
    BY DEF vars, TypeInv, StoreOK, RequestsOK, WorkOK, All, LinkedExist, Exists
  <2> QED
    BY <2>1, NextTyped, NextLinked
<1>3. TypeInv => TypeOK
  BY TypeInvType
<1> QED
  BY <1>1, <1>2, <1>3, PTL DEF Spec

-----------------------------------------------------------------------------
(* PENDING.                                                                 *)

\* Every request that is at work on a row stays at it.
AtWork == \A b \in Row : Working(b) \subseteq Working(b)'

\* A request that moves stays at its row, or begins with one.
LEMMA MovesAtWork ==
  ASSUME NEW r \in Request, NEW s, Moves(r, s), s.row = req[r].row \/ req[r].row = None
  PROVE  AtWork
  BY BeneficiaryAssumption DEF Moves, Same, AtWork, Working, Name

\* So does one that goes on.
LEMMA GoesAtWork ==
  ASSUME RequestsOK, NEW r \in Request, NEW s, Goes(r, s), s.row = req[r].row
  PROVE  AtWork
  BY DEF RequestsOK, Goes, AtWork, Working

\* A step that saves no row and takes nobody from one leaves no row PENDING by itself.
LEMMA PendingKept ==
  ASSUME PendingWorked, row' = row, killed' = killed, AtWork
  PROVE  PendingWorked'
  BY DEF PendingWorked, Exists, AtWork

\* A row is saved as PENDING by somebody at work on it.
LEMMA PendingSaved ==
  ASSUME StoreOK, PendingWorked, killed' = killed, AtWork, NEW b \in Row, NEW c \in Saved,
         row' = [row EXCEPT ![b] = c], c.status = "PENDING" => Working(b) # {}
  PROVE  PendingWorked'
  BY DEF StoreOK, PendingWorked, Exists, AtWork

\* A request that is done leaves a row that is gone, or lists it among the killed.
LEMMA PendingDone ==
  ASSUME RequestsOK, PendingWorked, row' = row, NEW r \in Request, Goes(r, Done),
         ~Exists(req[r].row) \/ req[r].row \in killed',
         \A b \in Row \ {req[r].row} : b \in killed => b \in killed'
  PROVE  PendingWorked'
<1>1. ASSUME NEW b \in Row, Exists(b)', row'[b].status = "PENDING"
      PROVE  Working(b)' # {} \/ b \in killed'
  <2>1. CASE b = req[r].row
    BY <1>1, <2>1 DEF Exists
  <2>2. CASE b # req[r].row
    <3>1. Working(b) # {} \/ b \in killed
      BY <1>1 DEF PendingWorked, Exists
    <3>2. Working(b) \subseteq Working(b)'
      BY <2>2 DEF RequestsOK, Goes, Working
    <3> QED
      BY <2>2, <3>1, <3>2
  <2> QED
    BY <2>1, <2>2
<1> QED
  BY <1>1 DEF PendingWorked

\* The steps of a request keep PENDING rows worked on.
LEMMA AdvancePending ==
  ASSUME TypeInv, PendingWorked, NEW r \in Request, Advance(r) PROVE PendingWorked'
<1> DEFINE s == req[r]
<1>1. s \in Work /\ s.copy \in Saved /\ (s.pc \notin {"new", "done"} => s.row \in Row)
  BY ActingOK DEF Work
<1>2. s.row \in Row => Working(s.row) # {}
  BY DEF Working
<1>3. CASE ActivateSave(r)
  <2>1. s.row \in Row /\ killed' = killed
    BY <1>1, <1>3 DEF ActivateSave
  <2>2. CASE Exists(s.row)
    <3>1. row[s.row] \in Saved
      BY <2>1, <2>2, ExistsSaved DEF TypeInv
    <3>2. [row[s.row] EXCEPT !.status = "PENDING"] \in Saved
      BY <3>1 DEF Saved, Status
    <3>3. row' = [row EXCEPT ![s.row] = [row[s.row] EXCEPT !.status = "PENDING"]]
      BY <1>3, <2>1, <2>2 DEF ActivateSave
    <3>4. Goes(r, [s EXCEPT !.pc = "load"]) /\ [s EXCEPT !.pc = "load"].row = s.row
      BY <1>1, <1>3, <2>2 DEF ActivateSave, Work
    <3>5. AtWork
      BY <3>4, GoesAtWork DEF TypeInv
    <3> QED
      BY <1>2, <2>1, <3>2, <3>3, <3>5, PendingSaved DEF TypeInv
  <2>3. CASE ~Exists(s.row)
    BY <1>3, <2>1, <2>3, PendingDone DEF ActivateSave, TypeInv
  <2> QED
    BY <2>2, <2>3
<1>4. CASE UpdateSave(r)
  <2>1. Goes(r, [s EXCEPT !.pc = "pending"]) /\ [s EXCEPT !.pc = "pending"].row = s.row
    BY <1>1, <1>4 DEF UpdateSave, Work
  <2>2. AtWork
    BY <2>1, GoesAtWork DEF TypeInv
  <2> QED
    BY <1>1, <1>2, <1>4, <2>2, PendingSaved DEF UpdateSave, TypeInv
<1>5. CASE UpdatePending(r)
  <2>1. Goes(r, [s EXCEPT !.pc = "load"]) /\ [s EXCEPT !.pc = "load"].row = s.row
    BY <1>1, <1>5 DEF UpdatePending, Work
  <2>2. AtWork
    BY <2>1, GoesAtWork DEF TypeInv
  <2>3. [s.copy EXCEPT !.status = "PENDING"] \in Saved
    BY <1>1 DEF Saved, Status
  <2> QED
    BY <1>1, <1>2, <1>5, <2>2, <2>3, PendingSaved DEF UpdatePending, TypeInv
<1>6. CASE Load(r)
  <2>1. row' = row /\ killed' = killed
    BY <1>6 DEF Load
  <2>2. CASE Exists(s.row)
    <3> DEFINE u == [s EXCEPT !.pc = "sync", !.todo = company.configured,
                              !.copy = [NoCopy EXCEPT !.data = row[s.row].data]]
    <3>1. Goes(r, u) /\ u.row = s.row
      BY <1>1, <1>6, <2>2 DEF Load, Work
    <3> HIDE DEF u
    <3> QED
      BY <2>1, <3>1, GoesAtWork, PendingKept DEF TypeInv
  <2>3. CASE ~Exists(s.row)
    BY <1>6, <2>1, <2>3, PendingDone DEF Load, TypeInv
  <2> QED
    BY <2>2, <2>3
<1>7. ASSUME NEW k \in Broker, TryService(r, k) PROVE PendingWorked'
  <2> DEFINE v == [s EXCEPT !.todo = @ \ {k}]
             w == [v EXCEPT !.pc = "call", !.at = k, !.id = Addressed(s.row, k)]
  <2>1. v \in Work /\ v.row = s.row
    BY <1>1 DEF Work
  <2>2. Counted(v, FALSE).row = s.row /\ w.row = s.row
    BY <2>1, CountedIs DEF Work
  <2>3. row' = row /\ killed' = killed /\ (Goes(r, Counted(v, FALSE)) \/ Goes(r, w))
    BY <1>7 DEF TryService
  <2> HIDE DEF v, w
  <2> QED
    BY <2>2, <2>3, GoesAtWork, PendingKept DEF TypeInv
<1>8. CASE Refused(r)
  <2>1. Goes(r, Counted(s, FALSE)) /\ Counted(s, FALSE).row = s.row
    BY <1>1, <1>8, CountedIs DEF Refused
  <2> QED
    BY <1>8, <2>1, GoesAtWork, PendingKept DEF Refused, TypeInv
<1>9. ASSUME NEW answered \in BOOLEAN, Accepted(r, answered) PROVE PendingWorked'
  <2>1. Moves(r, AcceptedWork(r, answered)) /\ row' = row /\ killed' = killed
    BY <1>9, AcceptedFacts
  <2>2. AcceptedWork(r, answered).row = s.row
    BY <1>1, CountedIs DEF AcceptedWork, Work
  <2> QED
    BY <2>1, <2>2, MovesAtWork, PendingKept
<1>10. CASE LinkFind(r)
  <2>1. row' = row /\ killed' = killed
        /\ (Goes(r, [s EXCEPT !.pc = "fill"]) \/ Goes(r, Counted(s, FALSE)))
    BY <1>10 DEF LinkFind
  <2>2. [s EXCEPT !.pc = "fill"].row = s.row /\ Counted(s, FALSE).row = s.row
    BY <1>1, CountedIs DEF Work
  <2> QED
    BY <2>1, <2>2, GoesAtWork, PendingKept DEF TypeInv
<1>11. CASE LinkSave(r)
  <2>1. row' = row /\ killed' = killed /\ Goes(r, Counted(s, Exists(s.row)))
        /\ Exists(s.row) \in BOOLEAN
    BY <1>11 DEF LinkSave, Exists
  <2>2. Counted(s, Exists(s.row)).row = s.row
    BY <1>1, <2>1, CountedIs
  <2> QED
    BY <2>1, <2>2, GoesAtWork, PendingKept DEF TypeInv
<1>12. CASE Finish(r)
  <2>1. s.row \in Row /\ Goes(r, Done) /\ killed' = killed \ {s.row}
    BY <1>1, <1>12 DEF Finish
  <2>2. CASE Exists(s.row)
    <3> DEFINE status == Verdict(s.ok, Cardinality(company.configured))
    <3>1. row[s.row] \in Saved
      BY <2>1, <2>2, ExistsSaved DEF TypeInv
    <3>2. status # "PENDING"
      BY <1>1, VerdictType DEF Work
    <3>3. row' = [row EXCEPT ![s.row] = [row[s.row] EXCEPT !.status = status]]
      BY <1>12, <2>1, <2>2 DEF Finish
    <3>4. [row[s.row] EXCEPT !.status = status].status = status
      BY <3>1 DEF Saved
    <3> HIDE DEF status
    <3>5. row'[s.row].status # "PENDING" /\ \A b \in Row \ {s.row} : row'[b] = row[b]
      BY <2>1, <3>2, <3>3, <3>4 DEF TypeInv, StoreOK
    <3>6. ASSUME NEW b \in Row \ {s.row} PROVE Working(b) \subseteq Working(b)'
      BY <2>1, <3>6 DEF TypeInv, RequestsOK, Goes, Working
    <3> QED
      BY <2>1, <3>5, <3>6 DEF PendingWorked, Exists
  <2>3. CASE ~Exists(s.row)
    BY <1>12, <2>1, <2>3, PendingDone DEF Finish, TypeInv
  <2> QED
    BY <2>2, <2>3
<1> QED
  BY <1>3, <1>4, <1>5, <1>6, <1>7, <1>8, <1>9, <1>10, <1>11, <1>12 DEF Advance

\* And so do the others.
LEMMA NextPending ==
  ASSUME TypeInv, LinkedExist, PendingWorked, Next PROVE PendingWorked'
<1>1. ASSUME NEW b \in Row, Create(b) PROVE PendingWorked'
  <2>1. req' = req /\ killed' = killed /\ row' = [row EXCEPT ![b] = NoCopy]
    BY <1>1 DEF Create
  <2>2. AtWork
    BY <2>1 DEF AtWork, Working
  <2> QED
    BY <2>1, <2>2, CopyTyped, PendingSaved DEF TypeInv
<1>2. ASSUME NEW b \in Row, Destroy(b) PROVE PendingWorked'
  BY <1>2 DEF Destroy, PendingWorked, Exists, Working, TypeInv, StoreOK
<1>3. ASSUME NEW r \in Request, NEW b \in Row, NEW s \in Work, Begin(r, b, s),
             row' = row, killed' = killed
      PROVE  PendingWorked'
  <2>1. req[r].pc = "new" /\ Moves(r, [s EXCEPT !.row = b])
    BY <1>3, BeginMoves DEF TypeInv, RequestsOK
  <2>2. req[r].row = None
    BY <2>1 DEF TypeInv, RequestsOK, WorkOK
  <2> QED
    BY <1>3, <2>1, <2>2, MovesAtWork, PendingKept
<1>4. ASSUME NEW r \in Request, NEW b \in Row, ActivateRead(r, b) PROVE PendingWorked'
  <2>1. [Fresh EXCEPT !.pc = "activate"] \in Work
    BY CopyTyped DEF Work, Step
  <2> QED
    BY <1>3, <1>4, <2>1 DEF ActivateRead
<1>5. ASSUME NEW r \in Request, NEW b \in Row, NEW d \in Data, UpdateRead(r, b, d)
      PROVE  PendingWorked'
  <2> DEFINE s == [Fresh EXCEPT !.pc = "update", !.copy = [row[b] EXCEPT !.data = d]]
  <2>1. row[b] \in Saved
    BY <1>5, ExistsSaved DEF UpdateRead, TypeInv
  <2>2. [row[b] EXCEPT !.data = d] \in Saved
    BY <2>1 DEF Saved
  <2>3. s \in Work
    BY <2>2, CopyTyped DEF Work, Step
  <2>4. Begin(r, b, s) /\ row' = row /\ killed' = killed
    BY <1>5 DEF UpdateRead
  <2> QED
    BY <1>3, <2>3, <2>4
<1>6. ASSUME NEW r \in Request, Die(r) PROVE PendingWorked'
  BY <1>6, PendingDone DEF Die, TypeInv
<1>7. ASSUME NEW k \in Broker, NEW id \in Name, ImportView(k, id) PROVE PendingWorked'
  BY <1>7 DEF ImportView, PendingWorked, Exists, Working
<1>8. CASE ImportSave
  <2>1. PICK b \in Row, ext \in Name \cup {None}, linking \in BOOLEAN : Import(b, ext, linking)
    BY <1>8, ImportTakes DEF TypeInv
  <2>2. imp \in Imports /\ killed' = killed
    BY <1>8, ImportTakes DEF TypeInv
  <2> DEFINE new == [status |-> "SYNCED", data |-> imp.data, ext |-> ext]
  <2>3. new \in Saved /\ new.status # "PENDING"
    BY <2>2 DEF Imports, Saved, Status
  <2>4. row' = [row EXCEPT ![b] = new]
    BY <2>1 DEF Import
  <2> HIDE DEF new
  <2>5. Rest
    BY <2>1, DisturbRest DEF Import, TypeInv, RequestsOK
  <2>6. AtWork
    BY <2>5 DEF Rest, Same, AtWork, Working
  <2> QED
    BY <2>2, <2>3, <2>4, <2>6, PendingSaved DEF TypeInv
<1>9. CASE ImportGivesUp
  BY <1>9 DEF ImportGivesUp, PendingWorked, Exists, Working
<1> QED
  BY <1>1, <1>2, <1>4, <1>5, <1>6, <1>7, <1>8, <1>9, AdvancePending DEF Next

\* A beneficiary is PENDING only while some request is at work on it, unless the
\* last one was killed: whoever else wrote over its status, no row is left PENDING
\* with nobody to take it further.
THEOREM BeneficiaryPendingWorked == Spec => []PendingWorked
<1>1. Init => TypeInv /\ LinkedExist /\ PendingWorked
  BY InitTyped DEF Init, PendingWorked, Exists
<1>2. TypeInv /\ LinkedExist /\ PendingWorked /\ [Next]_vars
        => (TypeInv /\ LinkedExist /\ PendingWorked)'
  <2>1. ASSUME TypeInv, LinkedExist, PendingWorked, UNCHANGED vars
        PROVE  (TypeInv /\ LinkedExist /\ PendingWorked)'
    BY <2>1 DEF vars, TypeInv, StoreOK, RequestsOK, WorkOK, All, LinkedExist, Exists,
                PendingWorked, Working
  <2> QED
    BY <2>1, NextTyped, NextLinked, NextPending
<1> QED
  BY <1>1, <1>2, PTL DEF Spec

-----------------------------------------------------------------------------
(* Links.                                                                   *)

\* An update holds a whole row, its external identifier with it, and may put it
\* back after the row was deleted.
Holding(s) == s.pc \in {"update", "pending"}

\* x is the external identifier of b in the table and in every copy of the row.
ExtIs(rows, reqs, b, x) ==
  /\ rows[b] \notin {Unused, Deleted} => rows[b].ext = x
  /\ \A r \in Request : Holding(reqs[r]) /\ reqs[r].row = b => reqs[r].copy.ext = x

\* Payee id of broker k is of b, or b is and stays imported from it.
Owned(rows, reqs, payees, b, k, id) ==
  /\ payees[k][id] # None
  /\ payees[k][id].of = b \/ ExtIs(rows, reqs, b, id)

\* A request that has an identifier has one of its row.  Corpay's is the row's
\* own, and need not be there before the call.
WorkOwned(rows, reqs, payees, s) ==
  /\ s.pc \in {"call", "link", "fill"} /\ s.at = CORPAY => s.id = s.row
  /\ \/ s.pc \in {"link", "fill"}
     \/ s.pc = "call" /\ s.at # CORPAY /\ s.id # None
     => Owned(rows, reqs, payees, s.row, s.at, s.id)

LinksOwned ==
  \A b \in Row, k \in Broker : link[b][k] \notin {None, Blank} =>
    Owned(row, req, held, b, k, link[b][k])

OwnRowOnly == \A k \in Broker, b \in Row : held[k][b] # None => held[k][b].of = b

ImportHeld == imp # NoImport => held[imp.at][imp.id] # None

CopiesMatch == \A b \in Row : \E x : ExtIs(row, req, b, x)

Owns ==
  /\ \A r \in Request : WorkOwned(row, req, held, req[r])
  /\ LinksOwned /\ OwnRowOnly /\ ImportHeld /\ CopiesMatch

\* That gives the property of the links.
LEMMA OwnsLinkTrue ==
  ASSUME LinkedExist, Owns PROVE LinkTrue
<1>1. ASSUME NEW b \in Row, NEW k \in Broker, link[b][k] \notin {None, Blank}
      PROVE  /\ Exists(b)
             /\ held[k][link[b][k]] # None
             /\ held[k][link[b][k]].of = b \/ row[b].ext = link[b][k]
  <2>1. Exists(b)
    BY <1>1 DEF LinkedExist
  <2>2. Owned(row, req, held, b, k, link[b][k])
    BY <1>1 DEF Owns, LinksOwned
  <2> QED
    BY <2>1, <2>2 DEF Owned, ExtIs, Exists
<1> QED
  BY <1>1 DEF LinkTrue

\* What no step does: give a row that was made another external identifier than
\* it, or a copy of it, had; give a copy another than its row has; take a payee
\* from a broker, or give it to another row.
RowsExt ==
  \A b \in Row : row'[b] \notin {Unused, Deleted} =>
    \/ row[b] = Unused
    \/ Exists(b) /\ row'[b].ext = row[b].ext
    \/ \E r \in Request : Holding(req[r]) /\ req[r].row = b /\ row'[b].ext = req[r].copy.ext

CopiesExt ==
  \A r \in Request : Holding(req'[r]) =>
    \/ Holding(req[r]) /\ req'[r].row = req[r].row /\ req'[r].copy.ext = req[r].copy.ext
    \/ Exists(req'[r].row) /\ req'[r].copy.ext = row[req'[r].row].ext

PayeesKept ==
  \A k \in Broker, id \in Name : held[k][id] # None =>
    held'[k][id] # None /\ held'[k][id].of = held[k][id].of

\* The external identifier of a row that was made does not change.
LEMMA ExtStays ==
  ASSUME RowsExt, CopiesExt, NEW b \in Row, row[b] # Unused, NEW x, ExtIs(row, req, b, x)
  PROVE  ExtIs(row', req', b, x)
<1>1. row'[b] \notin {Unused, Deleted} => row'[b].ext = x
  BY DEF RowsExt, ExtIs, Exists
<1>2. ASSUME NEW r \in Request, Holding(req'[r]), req'[r].row = b PROVE req'[r].copy.ext = x
  BY <1>2 DEF CopiesExt, ExtIs, Exists
<1> QED
  BY <1>1, <1>2 DEF ExtIs

\* Nor does whose a payee is.
LEMMA OwnedStays ==
  ASSUME RowsExt, CopiesExt, PayeesKept, NEW b \in Row, row[b] # Unused, NEW k \in Broker,
         NEW id \in Name, Owned(row, req, held, b, k, id)
  PROVE  Owned(row', req', held', b, k, id)
  BY ExtStays DEF Owned, PayeesKept

\* Nobody holds a copy of a row that was not made before the step.
LEMMA NewUnheld ==
  ASSUME RequestsOK, CopiesExt, NEW b \in Row, row[b] = Unused, NEW r \in Request,
         Holding(req'[r])
  PROVE  req'[r].row # b
  BY DEF RequestsOK, WorkOK, CopiesExt, Holding, Exists

\* The row and its copies go on to agree.
LEMMA CopiesStay ==
  ASSUME RequestsOK, RowsExt, CopiesExt, CopiesMatch
  PROVE  CopiesMatch'
<1>1. ASSUME NEW b \in Row PROVE \E x : ExtIs(row', req', b, x)
  <2>1. CASE row[b] = Unused
    <3>1. ExtIs(row', req', b, row'[b].ext)
      BY <2>1, NewUnheld DEF ExtIs
    <3> QED
      BY <3>1
  <2>2. CASE row[b] # Unused
    BY <2>2, ExtStays DEF CopiesMatch
  <2> QED
    BY <2>1, <2>2
<1> QED
  BY <1>1 DEF CopiesMatch

\* A link is kept, or newly set to a payee of the row.
LinksSet ==
  \A b \in Row, k \in Broker :
    \/ link'[b][k] \in {None, Blank, link[b][k]}
    \/ Owned(row', req', held', b, k, link'[b][k])

\* Links go on to name payees of their row.
LEMMA LinksStay ==
  ASSUME TypeInv, LinkedExist, Owns, RowsExt, CopiesExt, PayeesKept, LinksSet
  PROVE  LinksOwned'
<1>1. ASSUME NEW b \in Row, NEW k \in Broker, link[b][k] \notin {None, Blank}
      PROVE  Owned(row', req', held', b, k, link[b][k])
  <2>1. link[b][k] \in Name
    BY <1>1 DEF TypeInv, StoreOK
  <2>2. row[b] # Unused
    BY <1>1 DEF LinkedExist, Exists
  <2>3. Owned(row, req, held, b, k, link[b][k])
    BY <1>1 DEF Owns, LinksOwned
  <2> QED
    BY <2>1, <2>2, <2>3, OwnedStays
<1> QED
  BY <1>1 DEF LinksSet, LinksOwned

\* A request that stays as it is keeps its payee.
LEMMA WorkOwnedStays ==
  ASSUME TypeInv, Owns, RowsExt, CopiesExt, PayeesKept, NEW q \in Request, NEW s,
         Same(s, req[q])
  PROVE  WorkOwned(row', req', held', s)
<1>1. WorkOwned(row, req, held, req[q]) /\ req[q] \in Work /\ WorkOK(req[q], row, All)
  BY DEF Owns, TypeInv, RequestsOK
<1>2. s.pc \in {"call", "link", "fill"} /\ s.at = CORPAY => s.id = s.row
  BY <1>1 DEF Same, WorkOwned
<1>3. ASSUME s.pc \in {"link", "fill"} \/ (s.pc = "call" /\ s.at # CORPAY /\ s.id # None)
      PROVE  Owned(row', req', held', s.row, s.at, s.id)
  <2>1. Owned(row, req, held, s.row, s.at, s.id)
    BY <1>1, <1>3 DEF Same, WorkOwned
  <2>2. s.row \in Row /\ row[s.row] # Unused /\ s.at \in Broker /\ s.id \in Name
    BY <1>1, <1>3 DEF Same, WorkOK, Work
  <2> QED
    BY <2>1, <2>2, OwnedStays
<1> QED
  BY <1>2, <1>3 DEF WorkOwned

\* A step in which request r becomes s.
LEMMA OwnsKept ==
  ASSUME TypeInv, LinkedExist, Owns, NEW r \in Request, NEW s, Moves(r, s), RowsExt, PayeesKept,
         LinksSet, OwnRowOnly', imp' = imp,
         Holding(s) => \/ Holding(req[r]) /\ s.row = req[r].row /\ s.copy.ext = req[r].copy.ext
                       \/ Exists(s.row) /\ s.copy.ext = row[s.row].ext,
         WorkOwned(row', req', held', s)
  PROVE  Owns'
<1>1. CopiesExt
  BY DEF Moves, Same, Holding, CopiesExt
<1>2. ASSUME NEW q \in Request PROVE WorkOwned(row', req', held', req'[q])
  <2>1. CASE q = r
    BY <2>1 DEF Moves, Same, WorkOwned
  <2>2. CASE q # r
    BY <1>1, <2>2, WorkOwnedStays DEF Moves
  <2> QED
    BY <2>1, <2>2
<1>3. LinksOwned'
  BY <1>1, LinksStay
<1>4. CopiesMatch'
  BY <1>1, CopiesStay DEF TypeInv, Owns
<1>5. ImportHeld'
  <2>1. imp # NoImport => imp.at \in Broker /\ imp.id \in Name
    BY DEF TypeInv, StoreOK, Imports
  <2> QED
    BY <2>1 DEF Owns, ImportHeld, PayeesKept
<1> QED
  BY <1>2, <1>3, <1>4, <1>5 DEF Owns

\* A step in which no request moves.
LEMMA OwnsRest ==
  ASSUME TypeInv, LinkedExist, Owns, Rest, RowsExt, held' = held, LinksSet, ImportHeld'
  PROVE  Owns'
<1>1. CopiesExt
  BY DEF Rest, Same, Holding, CopiesExt
<1>2. PayeesKept
  BY DEF PayeesKept
<1>3. ASSUME NEW q \in Request PROVE WorkOwned(row', req', held', req'[q])
  BY <1>1, <1>2, WorkOwnedStays DEF Rest
<1>4. LinksOwned'
  BY <1>1, <1>2, LinksStay
<1>5. CopiesMatch'
  BY <1>1, CopiesStay DEF TypeInv, Owns
<1>6. OwnRowOnly'
  BY DEF Owns, OwnRowOnly
<1> QED
  BY <1>3, <1>4, <1>5, <1>6 DEF Owns

\* A save that keeps the external identifier, or makes the row.
LEMMA RowsExtSet ==
  ASSUME StoreOK, NEW b \in Row, NEW c \in Saved, row' = [row EXCEPT ![b] = c],
         \/ row[b] = Unused
         \/ Exists(b) /\ c.ext = row[b].ext
         \/ \E r \in Request : Holding(req[r]) /\ req[r].row = b /\ c.ext = req[r].copy.ext
  PROVE  RowsExt
  BY DEF StoreOK, RowsExt, Exists

\* A step that saves no row.
LEMMA RowsExtSame ==
  ASSUME row' = row PROVE RowsExt
  BY DEF RowsExt, Exists

\* A row that is there takes another status.
LEMMA StatusSaved ==
  ASSUME StoreOK, NEW b \in Row, Exists(b), NEW status \in Status,
         row' = [row EXCEPT ![b].status = status]
  PROVE  /\ RowsExt
         /\ \A q \in Row : Exists(q)' <=> Exists(q)
<1> DEFINE c == [row[b] EXCEPT !.status = status]
<1>1. row[b] \in Saved
  BY ExistsSaved
<1>2. c \in Saved /\ c.ext = row[b].ext
  BY <1>1 DEF Saved
<1>3. row' = [row EXCEPT ![b] = c]
  BY DEF StoreOK
<1> HIDE DEF c
<1>4. \A q \in Row : Exists(q)' <=> Exists(q)
  BY <1>2, <1>3, SavedExists DEF StoreOK, Exists
<1> QED
  BY <1>2, <1>3, <1>4, RowsExtSet

\* A step at the payees' side of a request, or a step to its end.
LEMMA OwnsQuiet ==
  ASSUME TypeInv, LinkedExist, Owns, NEW r \in Request, NEW s \in Work, Goes(r, s), RowsExt,
         held' = held, imp' = imp, LinksSet, ~Holding(s), WorkOwned(row', req', held', s)
  PROVE  Owns'
<1>1. Moves(r, s)
  BY GoesMoves DEF TypeInv, RequestsOK
<1>2. PayeesKept /\ OwnRowOnly'
  BY DEF PayeesKept, Owns, OwnRowOnly
<1> QED
  BY <1>1, <1>2, OwnsKept

\* A request that names no payee.
LEMMA Unnamed ==
  ASSUME NEW s, s.pc \notin {"call", "link", "fill"}, NEW rows, NEW reqs, NEW payees
  PROVE  WorkOwned(rows, reqs, payees, s)
  BY DEF WorkOwned

\* A request that is done holds nothing and names no payee.
LEMMA DoneUnnamed ==
  /\ Done \in Work /\ ~Holding(Done)
  /\ \A rows, reqs, payees : WorkOwned(rows, reqs, payees, Done)
<1>1. Done \in Work /\ Done.pc = "done"
  BY CopyTyped DEF Done, Fresh
<1> QED
  BY <1>1 DEF Holding, WorkOwned

\* A step that sets no link.
LEMMA LinksSame ==
  ASSUME link' = link PROVE LinksSet
  BY DEF LinksSet

\* The save of an activation touches the status only.
LEMMA ActivateSaveOwns ==
  ASSUME TypeInv, LinkedExist, Owns, NEW r \in Request, ActivateSave(r) PROVE Owns'
<1> DEFINE s == req[r]
           u == [s EXCEPT !.pc = "load"]
<1>1. s \in Work /\ s.row \in Row
  BY ActingOK DEF ActivateSave
<1>2. link' = link /\ held' = held /\ imp' = imp
  BY DEF ActivateSave
<1>3. CASE Exists(s.row)
  <2>1. Goes(r, u) /\ row' = [row EXCEPT ![s.row].status = "PENDING"]
    BY <1>3 DEF ActivateSave
  <2>2. u \in Work /\ u.pc = "load"
    BY <1>1 DEF Work, Step
  <2>3. RowsExt
    BY <1>1, <1>3, <2>1, StatusSaved DEF TypeInv, Status
  <2> HIDE DEF u
  <2> QED
    BY <1>2, <2>1, <2>2, <2>3, OwnsQuiet, Unnamed, LinksSame DEF Holding
<1>4. CASE ~Exists(s.row)
  <2>1. Goes(r, Done) /\ row' = row
    BY <1>4 DEF ActivateSave
  <2> QED
    BY <1>2, <2>1, OwnsQuiet, DoneUnnamed, RowsExtSame, LinksSame
<1> QED
  BY <1>3, <1>4

\* An update puts back the external identifier it read.
LEMMA UpdateSaveOwns ==
  ASSUME TypeInv, LinkedExist, Owns, NEW r \in Request, UpdateSave(r) PROVE Owns'
<1> DEFINE s == req[r]
           u == [s EXCEPT !.pc = "pending"]
<1>1. s \in Work /\ s.row \in Row /\ s.pc = "update" /\ s.copy \in Saved
  BY ActingOK DEF UpdateSave, Work
<1>2. link' = link /\ held' = held /\ imp' = imp /\ Goes(r, u) /\ row' = [row EXCEPT ![s.row] = s.copy]
  BY DEF UpdateSave
<1>3. u \in Work /\ u.pc = "pending" /\ u.row = s.row /\ u.copy = s.copy
  BY <1>1 DEF Work, Step
<1> HIDE DEF u
<1>4. RowsExt
  BY <1>1, <1>2, RowsExtSet DEF TypeInv, Holding
<1>5. Moves(r, u)
  BY <1>2, <1>3, GoesMoves DEF TypeInv, RequestsOK
<1>6. PayeesKept /\ OwnRowOnly'
  BY <1>2 DEF PayeesKept, Owns, OwnRowOnly
<1>7. Holding(s)
  BY <1>1 DEF Holding
<1>8. WorkOwned(row', req', held', u)
  BY <1>3, Unnamed
<1> QED
  BY <1>2, <1>3, <1>4, <1>5, <1>6, <1>7, <1>8, LinksSame, OwnsKept

\* Both times.
LEMMA UpdatePendingOwns ==
  ASSUME TypeInv, LinkedExist, Owns, NEW r \in Request, UpdatePending(r) PROVE Owns'
<1> DEFINE s == req[r]
           u == [s EXCEPT !.pc = "load"]
           c == [s.copy EXCEPT !.status = "PENDING"]
<1>1. s \in Work /\ s.row \in Row /\ s.pc = "pending" /\ s.copy \in Saved
  BY ActingOK DEF UpdatePending, Work
<1>2. link' = link /\ held' = held /\ imp' = imp /\ Goes(r, u) /\ row' = [row EXCEPT ![s.row] = c]
  BY DEF UpdatePending
<1>3. u \in Work /\ u.pc = "load"
  BY <1>1 DEF Work, Step
<1>4. c \in Saved /\ c.ext = s.copy.ext
  BY <1>1 DEF Saved, Status
<1> HIDE DEF u, c
<1>5. Holding(s)
  BY <1>1 DEF Holding
<1>6. RowsExt
  BY <1>1, <1>2, <1>4, <1>5, RowsExtSet DEF TypeInv
<1> QED
  BY <1>2, <1>3, <1>6, LinksSame, Unnamed, OwnsQuiet DEF Holding

\* A request that loads its row names no payee yet.
LEMMA LoadOwns ==
  ASSUME TypeInv, LinkedExist, Owns, NEW r \in Request, Load(r) PROVE Owns'
<1> DEFINE s == req[r]
           u == [s EXCEPT !.pc = "sync", !.todo = company.configured,
                          !.copy = [NoCopy EXCEPT !.data = row[s.row].data]]
<1>1. s \in Work /\ s.row \in Row
  BY ActingOK DEF Load
<1>2. row' = row /\ link' = link /\ held' = held /\ imp' = imp
  BY DEF Load
<1>3. CASE Exists(s.row)
  <2>1. row[s.row] \in Saved
    BY <1>1, <1>3, ExistsSaved DEF TypeInv
  <2>2. [NoCopy EXCEPT !.data = row[s.row].data] \in Saved
    BY <2>1, CopyTyped DEF Saved
  <2>3. company.configured \subseteq Broker
    BY BeneficiaryAssumption DEF TypeInv, StoreOK
  <2>4. u \in Work /\ u.pc = "sync"
    BY <1>1, <2>2, <2>3 DEF Work, Step
  <2>5. Goes(r, u)
    BY <1>3 DEF Load
  <2> HIDE DEF u
  <2> QED
    BY <1>2, <2>4, <2>5, RowsExtSame, LinksSame, Unnamed, OwnsQuiet DEF Holding
<1>4. CASE ~Exists(s.row)
  <2>1. Goes(r, Done)
    BY <1>4 DEF Load
  <2> QED
    BY <1>2, <2>1, OwnsQuiet, DoneUnnamed, RowsExtSame, LinksSame
<1> QED
  BY <1>3, <1>4

\* A request that has counted a broker names no payee of it any more.
LEMMA CountedUnnamed ==
  ASSUME NEW s \in Work, NEW ok \in BOOLEAN
  PROVE  /\ Counted(s, ok) \in Work /\ ~Holding(Counted(s, ok))
         /\ \A rows, reqs, payees : WorkOwned(rows, reqs, payees, Counted(s, ok))
<1>1. Counted(s, ok) \in Work /\ Counted(s, ok).pc = "sync"
  BY CountedIs
<1> QED
  BY <1>1 DEF Holding, WorkOwned

\* The service finds the row's own payee, or none.
LEMMA TryServiceOwns ==
  ASSUME TypeInv, LinkedExist, Owns, NEW r \in Request, NEW k \in Broker, TryService(r, k)
  PROVE  Owns'
<1> DEFINE s == req[r]
           b == s.row
           v == [s EXCEPT !.todo = @ \ {k}]
           w == [v EXCEPT !.pc = "call", !.at = k, !.id = Addressed(b, k)]
<1>1. s \in Work /\ b \in Row
  BY ActingOK DEF TryService
<1>2. UNCHANGED <<row, link, held, imp>> /\ (Goes(r, Counted(v, FALSE)) \/ Goes(r, w))
  BY DEF TryService
<1>3. v \in Work /\ v.row = s.row
  BY <1>1 DEF Work
<1>4. Addressed(b, k) \in Name \cup {None}
  BY <1>1, AddressedType DEF TypeInv
<1>5. w \in Work /\ w.pc = "call" /\ w.at = k /\ w.id = Addressed(b, k) /\ w.row = b
  BY <1>1, <1>3, <1>4 DEF Work, Step
<1> HIDE DEF v, w
<1>6. CASE Goes(r, Counted(v, FALSE))
  BY <1>2, <1>3, <1>6, CountedUnnamed, RowsExtSame, LinksSame, OwnsQuiet
<1>7. CASE Goes(r, w)
  <2>1. Moves(r, w) /\ ~Holding(w)
    BY <1>5, <1>7, GoesMoves DEF TypeInv, RequestsOK, Holding
  <2>2. RowsExt /\ CopiesExt /\ PayeesKept
    BY <1>2, <2>1, RowsExtSame DEF Moves, Same, Holding, CopiesExt, PayeesKept
  <2>3. ASSUME k # CORPAY, Addressed(b, k) # None
        PROVE  Owned(row', req', held', b, k, Addressed(b, k))
    <3>1. link[b][k] \notin {None, Blank} /\ Addressed(b, k) = link[b][k]
      BY <2>3 DEF Addressed
    <3>2. link[b][k] \in Name /\ row[b] # Unused
      BY <1>1, <3>1 DEF TypeInv, StoreOK, LinkedExist, Exists
    <3>3. Owned(row, req, held, b, k, link[b][k])
      BY <1>1, <3>1 DEF Owns, LinksOwned
    <3> QED
      BY <1>1, <2>2, <3>1, <3>2, <3>3, OwnedStays
  <2>4. k = CORPAY => Addressed(b, k) = b
    BY DEF Addressed
  <2>5. WorkOwned(row', req', held', w)
    BY <1>5, <2>3, <2>4 DEF WorkOwned
  <2> QED
    BY <1>2, <1>5, <1>7, <2>1, <2>5, RowsExtSame, LinksSame, OwnsQuiet
<1> QED
  BY <1>2, <1>6, <1>7

\* One that was refused names none any more.
LEMMA RefusedOwns ==
  ASSUME TypeInv, LinkedExist, Owns, NEW r \in Request, Refused(r) PROVE Owns'
<1>1. req[r] \in Work
  BY ActingOK
<1>2. UNCHANGED <<row, link, held, imp>> /\ Goes(r, Counted(req[r], FALSE))
  BY DEF Refused
<1> QED
  BY <1>1, <1>2, CountedUnnamed, RowsExtSame, LinksSame, OwnsQuiet

\* What the broker holds afterwards.
LEMMA AcceptedHeld ==
  ASSUME TypeInv, NEW r \in Request, NEW answered \in BOOLEAN, Accepted(r, answered)
  PROVE  LET k == req[r].at
             id == AcceptedId(r)
         IN /\ \A j \in Broker, i \in Name : j # k \/ i # id => held'[j][i] = held[j][i]
            /\ held'[k][id].of = (IF held[k][id] = None THEN req[r].row ELSE held[k][id].of)
            /\ held'[k][id] # None
<1> DEFINE s == req[r]
           k == s.at
           id == AcceptedId(r)
           old == held[k][id]
<1>1. /\ s \in Work /\ s.row \in Row /\ k \in Broker /\ id \in Name
      /\ held' = [held EXCEPT ![k][id] = [of |-> IF old = None THEN s.row ELSE old.of,
                                          data |-> s.copy.data]]
      /\ held' \in [Broker -> [Name -> Payee \cup {None}]]
  BY AcceptedFacts
<1>2. held \in [Broker -> [Name -> Payee \cup {None}]]
  BY DEF TypeInv, StoreOK
<1>3. /\ \A j \in Broker, i \in Name : j # k \/ i # id => held'[j][i] = held[j][i]
      /\ held'[k][id] = [of |-> IF old = None THEN s.row ELSE old.of, data |-> s.copy.data]
  BY <1>1, <1>2
<1>4. held'[k][id].of = (IF old = None THEN s.row ELSE old.of)
  BY <1>3
<1>5. held'[k][id].of \in Row \cup {None} /\ s.copy.data \in Data
  BY <1>1, <1>2, <1>4 DEF Payee, Work, Saved
<1>6. held'[k][id] \in Payee
  BY <1>3, <1>4, <1>5 DEF Payee
<1> QED
  BY <1>3, <1>4, <1>6, BeneficiaryAssumption

\* What a broker takes is a payee of the row: a new one, the one it was told, or
\* at Corpay the one under the row's own name.
LEMMA AcceptedOwns ==
  ASSUME TypeInv, LinkedExist, Owns, NEW r \in Request, NEW answered \in BOOLEAN,
         Accepted(r, answered)
  PROVE  Owns'
<1> DEFINE s == req[r]
           k == s.at
           id == AcceptedId(r)
           old == held[k][id]
           u == AcceptedWork(r, answered)
<1>1. /\ s \in Work /\ WorkOK(s, row, All) /\ s.pc = "call" /\ s.row \in Row /\ k \in Broker
      /\ id \in Name /\ (s.id = None => id \in Id /\ old = None)
      /\ u \in Work /\ WorkOK(u, row, All) /\ Moves(r, u)
      /\ held' = [held EXCEPT ![k][id] = [of |-> IF old = None THEN s.row ELSE old.of,
                                          data |-> s.copy.data]]
      /\ held' \in [Broker -> [Name -> Payee \cup {None}]]
      /\ UNCHANGED <<row, link, imp>>
  BY AcceptedFacts
<1>2. held \in [Broker -> [Name -> Payee \cup {None}]] /\ row[s.row] # Unused
  BY <1>1 DEF TypeInv, StoreOK, WorkOK
<1>3. WorkOwned(row, req, held, s)
  BY DEF Owns
<1>4. /\ \A j \in Broker, i \in Name : j # k \/ i # id => held'[j][i] = held[j][i]
      /\ held'[k][id].of = (IF old = None THEN s.row ELSE old.of)
  BY AcceptedHeld
<1>5. held'[k][id] # None
  BY AcceptedHeld
<1>6. PayeesKept
  BY <1>1, <1>4, <1>5 DEF PayeesKept
<1>7. AcceptedId(r) = IF s.id = None THEN NewId(k) ELSE s.id
  BY DEF AcceptedId
<1> HIDE DEF id, u
<1>8. k = CORPAY => id = s.row
  <2>1. k = CORPAY => s.id = s.row
    BY <1>1, <1>3 DEF WorkOwned
  <2>2. s.row # None
    BY <1>1, BeneficiaryAssumption DEF Name
  <2> QED
    BY <2>1, <2>2, <1>7 DEF id
<1>9. s.id # None => id = s.id
  BY <1>7 DEF id
<1>10. OwnRowOnly'
  <2>1. ASSUME NEW b \in Row, id = b PROVE held'[k][id].of = b
    <3>1. s.id # None
      BY <1>1, <2>1, BeneficiaryAssumption
    <3>2. old # None => old.of = b
      BY <1>1, <2>1 DEF Owns, OwnRowOnly
    <3>3. old = None => s.row = b
      <4>1. CASE k = CORPAY
        BY <1>8, <2>1, <4>1
      <4>2. CASE k # CORPAY
        BY <1>1, <1>3, <1>9, <3>1, <4>2 DEF WorkOwned, Owned
      <4> QED
        BY <4>1, <4>2
    <3> QED
      BY <1>4, <3>2, <3>3
  <2> QED
    BY <1>4, <2>1 DEF Owns, OwnRowOnly, Name
<1>11. RowsExt /\ LinksSet
  BY <1>1, RowsExtSame, LinksSame
<1>12. u.pc \in {"link", "sync"} /\ (u.pc = "link" => u.row = s.row /\ u.at = k /\ u.id = id)
  BY <1>1, CountedIs DEF u, AcceptedWork, id, Work
<1>13. WorkOwned(row', req', held', u)
  <2>1. CASE u.pc = "sync"
    BY <2>1, Unnamed
  <2>2. CASE u.pc = "link"
    <3>1. Owned(row', req', held', s.row, k, id)
      <4>1. CASE old = None
        BY <1>4, <1>5, <4>1 DEF Owned
      <4>2. CASE old # None /\ k = CORPAY
        <5>1. old.of = s.row
          BY <1>1, <1>8, <4>2 DEF Owns, OwnRowOnly
        <5> QED
          BY <1>4, <1>5, <4>2, <5>1 DEF Owned
      <4>3. CASE old # None /\ k # CORPAY
        <5>1. s.id # None
          BY <1>1, <4>3
        <5>2. Owned(row, req, held, s.row, k, id)
          BY <1>1, <1>3, <1>9, <4>3, <5>1 DEF WorkOwned
        <5>3. CopiesExt
          BY <1>1, <1>12 DEF Moves, Same, Holding, CopiesExt
        <5> QED
          BY <1>1, <1>2, <1>6, <1>11, <5>2, <5>3, OwnedStays
      <4> QED
        BY <4>1, <4>2, <4>3
    <3> QED
      BY <1>8, <1>12, <2>2, <3>1 DEF WorkOwned
  <2> QED
    BY <1>12, <2>1, <2>2
<1>14. ~Holding(u)
  BY <1>12 DEF Holding
<1> QED
  BY <1>1, <1>6, <1>10, <1>11, <1>13, <1>14, OwnsKept

\* A link that is made names nothing yet.
LEMMA LinkFindOwns ==
  ASSUME TypeInv, LinkedExist, Owns, NEW r \in Request, LinkFind(r) PROVE Owns'
<1> DEFINE s == req[r]
           u == [s EXCEPT !.pc = "fill"]
<1>1. s \in Work /\ s.row \in Row /\ s.pc = "link" /\ s.at \in Broker /\ WorkOK(s, row, All)
  BY ActingOK DEF LinkFind, WorkOK
<1>2. UNCHANGED <<row, held, imp>>
  BY DEF LinkFind
<1>3. RowsExt /\ LinksSet /\ PayeesKept
  <2>1. LinksSet
    BY <1>1 DEF LinkFind, LinksSet, TypeInv, StoreOK
  <2> QED
    BY <1>2, <2>1, RowsExtSame DEF PayeesKept
<1>4. u \in Work /\ u.pc = "fill" /\ u.row = s.row /\ u.at = s.at /\ u.id = s.id
  BY <1>1 DEF Work, Step
<1>5. Goes(r, u) \/ Goes(r, Counted(s, FALSE))
  BY DEF LinkFind
<1> HIDE DEF u
<1>6. CASE Goes(r, u)
  <2>1. Moves(r, u) /\ ~Holding(u)
    BY <1>4, <1>6, GoesMoves DEF TypeInv, RequestsOK, Holding
  <2>2. CopiesExt
    BY <2>1 DEF Moves, Same, Holding, CopiesExt
  <2>3. WorkOwned(row', req', held', s)
    BY <1>3, <2>2, WorkOwnedStays DEF Same
  <2>4. WorkOwned(row', req', held', u)
    BY <1>1, <1>4, <2>3 DEF WorkOwned
  <2> QED
    BY <1>2, <1>3, <1>4, <1>6, <2>1, <2>4, OwnsQuiet
<1>7. CASE Goes(r, Counted(s, FALSE))
  BY <1>1, <1>2, <1>3, <1>7, CountedUnnamed, OwnsQuiet
<1> QED
  BY <1>5, <1>6, <1>7

\* A link is set to the payee the broker answered with.
LEMMA LinkSaveOwns ==
  ASSUME TypeInv, LinkedExist, Owns, NEW r \in Request, LinkSave(r) PROVE Owns'
<1> DEFINE s == req[r]
           u == Counted(s, Exists(s.row))
<1>1. s \in Work /\ s.row \in Row /\ s.pc = "fill" /\ s.at \in Broker /\ WorkOK(s, row, All)
  BY ActingOK DEF LinkSave, WorkOK
<1>2. UNCHANGED <<row, held, imp>> /\ Goes(r, u) /\ Exists(s.row) \in BOOLEAN
  BY DEF LinkSave, Exists
<1>3. u \in Work /\ ~Holding(u) /\ WorkOwned(row', req', held', u)
  BY <1>1, <1>2, CountedUnnamed
<1> HIDE DEF u
<1>4. Moves(r, u)
  BY <1>2, <1>3, GoesMoves DEF TypeInv, RequestsOK
<1>5. RowsExt /\ CopiesExt /\ PayeesKept
  BY <1>2, <1>3, <1>4, RowsExtSame DEF Moves, Same, Holding, CopiesExt, PayeesKept
<1>6. Owned(row', req', held', s.row, s.at, s.id)
  <2>1. WorkOwned(row', req', held', s)
    BY <1>5, WorkOwnedStays DEF Same
  <2> QED
    BY <1>1, <2>1 DEF WorkOwned
<1>7. LinksSet
  BY <1>1, <1>6 DEF LinkSave, LinksSet, TypeInv, StoreOK
<1> QED
  BY <1>2, <1>3, <1>5, <1>7, OwnsQuiet

\* The status is all that a request leaves at its end.
LEMMA FinishOwns ==
  ASSUME TypeInv, LinkedExist, Owns, NEW r \in Request, Finish(r) PROVE Owns'
<1> DEFINE s == req[r]
           status == Verdict(s.ok, Cardinality(company.configured))
<1>1. s \in Work /\ s.row \in Row
  BY ActingOK DEF Finish
<1>2. status \in Status
  BY <1>1, VerdictType DEF Work, Status
<1>3. UNCHANGED <<link, held, imp>> /\ Goes(r, Done)
      /\ row' = IF Exists(s.row) THEN [row EXCEPT ![s.row].status = status] ELSE row
  BY DEF Finish
<1> HIDE DEF status
<1>4. RowsExt
  <2>1. CASE Exists(s.row)
    BY <1>1, <1>2, <1>3, <2>1, StatusSaved DEF TypeInv
  <2>2. CASE ~Exists(s.row)
    BY <1>3, <2>2, RowsExtSame
  <2> QED
    BY <2>1, <2>2
<1> QED
  BY <1>3, <1>4, DoneUnnamed, LinksSame, OwnsQuiet

\* Death changes no row.
LEMMA DieOwns ==
  ASSUME TypeInv, LinkedExist, Owns, NEW r \in Request, Die(r) PROVE Owns'
<1>1. UNCHANGED <<row, link, held, imp>> /\ Goes(r, Done)
  BY DEF Die
<1> QED
  BY <1>1, DoneUnnamed, RowsExtSame, LinksSame, OwnsQuiet

\* A request that begins holds nothing, or the row as it is.
LEMMA BeginOwns ==
  ASSUME TypeInv, LinkedExist, Owns, NEW r \in Request, NEW b \in Row, NEW s \in Work,
         Exists(b), Begin(r, b, s), UNCHANGED <<row, link, held, imp>>,
         s.pc = "activate" \/ (s.pc = "update" /\ s.copy.ext = row[b].ext)
  PROVE  Owns'
<1> DEFINE u == [s EXCEPT !.row = b]
<1>1. Moves(r, u)
  BY BeginMoves DEF TypeInv, RequestsOK
<1>2. u.pc = s.pc /\ u.row = b /\ u.copy = s.copy
  BY DEF Work
<1> HIDE DEF u
<1>3. WorkOwned(row', req', held', u)
  BY <1>2, Unnamed
<1>4. RowsExt /\ LinksSet /\ PayeesKept /\ OwnRowOnly'
  BY RowsExtSame, LinksSame DEF PayeesKept, Owns, OwnRowOnly
<1>5. Holding(u) => Exists(u.row) /\ u.copy.ext = row[u.row].ext
  BY <1>2 DEF Holding
<1> QED
  BY <1>1, <1>3, <1>4, <1>5, OwnsKept

\* An import links the payee to the row it found by the link or by the external
\* identifier, or to one it made with that identifier.
LEMMA ImportSaveOwns ==
  ASSUME TypeInv, LinkedExist, Owns, ImportSave PROVE Owns'
<1>1. /\ imp \in Imports /\ imp' = NoImport /\ held' = held
      /\ \E b \in Row, ext \in Name \cup {None}, linking \in BOOLEAN :
           /\ Import(b, ext, linking)
           /\ \/ /\ Exists(b) /\ ext = row[b].ext
                 /\ link[b][imp.at] = imp.id \/ row[b].ext = imp.id
              \/ row[b] = Unused /\ ext = imp.id
  BY ImportTakes DEF TypeInv
<1>2. PICK b \in Row, ext \in Name \cup {None}, linking \in BOOLEAN :
           /\ Import(b, ext, linking)
           /\ \/ /\ Exists(b) /\ ext = row[b].ext
                 /\ link[b][imp.at] = imp.id \/ row[b].ext = imp.id
              \/ row[b] = Unused /\ ext = imp.id
  BY <1>1
<1> DEFINE new == [status |-> "SYNCED", data |-> imp.data, ext |-> ext]
           k == imp.at
           id == imp.id
<1>3. new \in Saved /\ new.ext = ext /\ k \in Broker /\ id \in Name
  BY <1>1 DEF Imports, Saved, Status
<1>4. row' = [row EXCEPT ![b] = new] /\ Disturb(req, {b})
      /\ link' = IF linking THEN [link EXCEPT ![b][k] = id] ELSE link
  BY <1>2 DEF Import
<1> HIDE DEF new
<1>5. RowsExt
  BY <1>2, <1>3, <1>4, RowsExtSet DEF TypeInv
<1>6. Rest
  BY <1>4, DisturbRest DEF TypeInv, RequestsOK
<1>7. CopiesExt /\ PayeesKept
  BY <1>1, <1>6 DEF Rest, Same, Holding, CopiesExt, PayeesKept
<1>8. held[k][id] # None
  BY <1>1, <1>3, BeneficiaryAssumption DEF Owns, ImportHeld, NoImport, Name
<1>9. Owned(row', req', held', b, k, id)
  <2>1. CASE Exists(b) /\ link[b][k] = id
    <3>1. Owned(row, req, held, b, k, id)
      BY <1>3, <2>1, BeneficiaryAssumption DEF Owns, LinksOwned
    <3> QED
      BY <1>3, <1>5, <1>7, <2>1, <3>1, OwnedStays DEF Exists
  <2>2. CASE Exists(b) /\ row[b].ext = id
    <3>1. ExtIs(row, req, b, id)
      BY <2>2 DEF Owns, CopiesMatch, ExtIs, Exists
    <3> QED
      BY <1>1, <1>5, <1>7, <1>8, <2>2, <3>1, ExtStays DEF Owned, Exists
  <2>3. CASE row[b] = Unused /\ ext = id
    <3>1. row'[b].ext = id
      BY <1>3, <1>4, <2>3 DEF TypeInv, StoreOK
    <3>2. ExtIs(row', req', b, id)
      BY <1>7, <2>3, <3>1, NewUnheld DEF TypeInv, ExtIs
    <3> QED
      BY <1>1, <1>8, <3>2 DEF Owned
  <2> QED
    BY <1>2, <2>1, <2>2, <2>3
<1>10. LinksSet
  BY <1>3, <1>4, <1>9 DEF LinksSet, TypeInv, StoreOK
<1>11. ImportHeld'
  BY <1>1 DEF ImportHeld
<1> QED
  BY <1>1, <1>5, <1>6, <1>10, <1>11, OwnsRest

\* Every step keeps links, requests and copies true.
LEMMA NextOwns ==
  ASSUME TypeInv, LinkedExist, Owns, Next PROVE Owns'
<1>1. ASSUME NEW b \in Row, Create(b) PROVE Owns'
  <2>1. UNCHANGED <<link, held, req, imp>> /\ row[b] = Unused /\ row' = [row EXCEPT ![b] = NoCopy]
    BY <1>1 DEF Create
  <2>2. RowsExt
    BY <2>1, CopyTyped, RowsExtSet DEF TypeInv
  <2>3. Rest /\ ImportHeld'
    BY <2>1 DEF TypeInv, RequestsOK, Rest, Same, Owns, ImportHeld
  <2> QED
    BY <2>1, <2>2, <2>3, LinksSame, OwnsRest
<1>2. ASSUME NEW b \in Row, Destroy(b) PROVE Owns'
  <2>1. UNCHANGED <<held, req, imp>>
    BY <1>2 DEF Destroy
  <2>2. RowsExt
    BY <1>2 DEF Destroy, RowsExt, Exists, TypeInv, StoreOK
  <2>3. LinksSet
    BY <1>2 DEF Destroy, LinksSet, TypeInv, StoreOK
  <2>4. Rest /\ ImportHeld'
    BY <2>1 DEF TypeInv, RequestsOK, Rest, Same, Owns, ImportHeld
  <2> QED
    BY <2>1, <2>2, <2>3, <2>4, OwnsRest
<1>3. ASSUME NEW r \in Request, NEW b \in Row, ActivateRead(r, b) PROVE Owns'
  <2>1. [Fresh EXCEPT !.pc = "activate"] \in Work /\ [Fresh EXCEPT !.pc = "activate"].pc = "activate"
    BY CopyTyped DEF Work, Step
  <2> QED
    BY <1>3, <2>1, BeginOwns DEF ActivateRead
<1>4. ASSUME NEW r \in Request, NEW b \in Row, NEW d \in Data, UpdateRead(r, b, d) PROVE Owns'
  <2> DEFINE c == [row[b] EXCEPT !.data = d]
             s == [Fresh EXCEPT !.pc = "update", !.copy = c]
  <2>1. row[b] \in Saved
    BY <1>4, ExistsSaved DEF UpdateRead, TypeInv
  <2>2. c \in Saved /\ c.ext = row[b].ext
    BY <2>1 DEF Saved
  <2>3. Begin(r, b, s) /\ Exists(b) /\ UNCHANGED <<row, link, held, imp>>
    BY <1>4 DEF UpdateRead
  <2> HIDE DEF c
  <2>4. s \in Work /\ s.pc = "update" /\ s.copy = c
    BY <2>2, CopyTyped DEF Work, Step
  <2> HIDE DEF s
  <2> QED
    BY <2>2, <2>3, <2>4, BeginOwns
<1>5. ASSUME NEW r \in Request, Advance(r) PROVE Owns'
  BY <1>5, ActivateSaveOwns, UpdateSaveOwns, UpdatePendingOwns, LoadOwns, TryServiceOwns,
     RefusedOwns, AcceptedOwns, LinkFindOwns, LinkSaveOwns, FinishOwns DEF Advance
<1>6. ASSUME NEW r \in Request, Die(r) PROVE Owns'
  BY <1>6, DieOwns
<1>7. ASSUME NEW k \in Broker, NEW id \in Name, ImportView(k, id) PROVE Owns'
  <2>1. UNCHANGED <<row, link, held, req>> /\ imp' = [at |-> k, id |-> id, data |-> held[k][id].data]
        /\ held[k][id] # None
    BY <1>7 DEF ImportView
  <2>2. Rest /\ ImportHeld'
    BY <2>1 DEF TypeInv, RequestsOK, Rest, Same, ImportHeld
  <2> QED
    BY <2>1, <2>2, RowsExtSame, LinksSame, OwnsRest
<1>8. CASE ImportGivesUp
  <2>1. UNCHANGED <<row, link, held, req>> /\ imp' = NoImport
    BY <1>8 DEF ImportGivesUp
  <2>2. Rest /\ ImportHeld'
    BY <2>1 DEF TypeInv, RequestsOK, Rest, Same, ImportHeld
  <2> QED
    BY <2>1, <2>2, RowsExtSame, LinksSame, OwnsRest
<1> QED
  BY <1>1, <1>2, <1>3, <1>4, <1>5, <1>6, <1>7, <1>8, ImportSaveOwns DEF Next

\* They are at first: no broker holds a payee under the key of a row.
LEMMA InitOwns ==
  ASSUME Init PROVE Owns
<1>1. req = [r \in Request |-> Fresh] /\ Fresh.pc = "new"
  BY DEF Init, Fresh
<1>2. \A r \in Request : WorkOwned(row, req, held, req[r])
  BY <1>1 DEF WorkOwned
<1>3. LinksOwned /\ ImportHeld
  BY DEF Init, LinksOwned, ImportHeld
<1>4. OwnRowOnly
  <2>1. ASSUME NEW k \in Broker, NEW b \in Row PROVE held[k][b] = None
    <3>1. b \notin company.outside
      BY BeneficiaryAssumption DEF Init
    <3> QED
      BY <3>1 DEF Init, Name
  <2> QED
    BY <2>1 DEF OwnRowOnly
<1>5. CopiesMatch
  <2>1. \A b \in Row : ExtIs(row, req, b, None)
    BY <1>1 DEF Init, ExtIs, Holding
  <2> QED
    BY <2>1 DEF CopiesMatch
<1> QED
  BY <1>2, <1>3, <1>4, <1>5 DEF Owns

\* A payment follows the link of its beneficiary, and finds a payee that was made
\* for it, or that it was imported from: no order of requests, deletions, deaths
\* and imports puts another row's payee behind a link, or one that is not there.
THEOREM BeneficiaryLinkTrue == Spec => []LinkTrue
<1>1. Init => TypeInv /\ LinkedExist /\ Owns
  BY InitTyped, InitOwns
<1>2. TypeInv /\ LinkedExist /\ Owns /\ [Next]_vars => (TypeInv /\ LinkedExist /\ Owns)'
  <2>1. ASSUME TypeInv, LinkedExist, Owns, UNCHANGED vars
        PROVE  (TypeInv /\ LinkedExist /\ Owns)'
    <3>1. (TypeInv /\ LinkedExist)'
      BY <2>1 DEF vars, TypeInv, StoreOK, RequestsOK, WorkOK, All, LinkedExist, Exists
    <3>2. Rest /\ ImportHeld' /\ RowsExt /\ LinksSet /\ held' = held
      BY <2>1, RowsExtSame, LinksSame DEF vars, TypeInv, RequestsOK, Rest, Same, Owns, ImportHeld
    <3> QED
      BY <2>1, <3>1, <3>2, OwnsRest
  <2> QED
    BY <2>1, NextTyped, NextLinked, NextOwns
<1>3. LinkedExist /\ Owns => LinkTrue
  BY OwnsLinkTrue
<1> QED
  BY <1>1, <1>2, <1>3, PTL DEF Spec

-----------------------------------------------------------------------------
(* Payees.                                                                  *)

\* The payees made for a row at a broker.
Made(b, k) == {id \in Name : held[k][id] # None /\ held[k][id].of = b}

\* A request that may still make a payee for row b at k,
Seeks(s, b, k) ==
  /\ s.row = b
  /\ \/ s.pc \in {"activate", "update", "pending", "load"}
     \/ s.pc \in Telling /\ k \in s.todo
     \/ s.pc = "call" /\ s.at = k /\ s.id = None

\* that is making one, which is not linked yet, or is to set the link to one,
Makes(s, b, k) ==
  s.row = b /\ s.at = k /\ (s.pc \in {"link", "fill"} \/ (s.pc = "call" /\ s.id = None))

\* and that is at the broker.
Deals(s, b, k) == s.row = b /\ s.at = k /\ s.pc \in {"call", "link", "fill"}

Seekers(b, k) == {r \in Request : Seeks(req[r], b, k)}
Makers(b, k) == {r \in Request : Makes(req[r], b, k)}
Dealers(b, k) == {r \in Request : Deals(req[r], b, k)}

\* 1 if the row has a link that names a payee.
Named(b, k) == IF link[b][k] \notin {None, Blank} THEN 1 ELSE 0

Total(b, k) == Cardinality(Made(b, k)) + Cardinality(Seekers(b, k))

\* The payees there are, and those that are still to come, are one at most unless
\* something went wrong, or there is a link, so that whoever comes next will find
\* it and make none.  With nobody left to make one, or somebody at the broker who
\* has not found the link, there is one less.
Accounts(b, k) ==
  /\ IsFiniteSet(Made(b, k)) /\ IsFiniteSet(Seekers(b, k))
  /\ Total(b, k) <= 1 + hitches[b] + Named(b, k)
  /\ Exists(b) /\ Seekers(b, k) \cup Makers(b, k) = {} => Total(b, k) <= hitches[b] + Named(b, k)
  /\ Named(b, k) = 1 /\ Dealers(b, k) # {} => Total(b, k) <= 1 + hitches[b]

\* A row that was not made has no payee, and Corpay's payee of a row has its name.
MadeWhole ==
  /\ \A b \in Row, k \in Broker : row[b] = Unused => Made(b, k) = {}
  /\ \A b \in Row : Made(b, CORPAY) \subseteq {b}

AllAccounts == \A b \in Row, k \in Broker \ {CORPAY} : Accounts(b, k)

\* The totals are numbers.
LEMMA TotalType ==
  ASSUME NEW b \in Row, NEW k \in Broker, IsFiniteSet(Made(b, k)), IsFiniteSet(Seekers(b, k))
  PROVE  /\ Total(b, k) \in Nat
         /\ Cardinality(Made(b, k)) \in Nat /\ Cardinality(Seekers(b, k)) \in Nat
<1>1. Cardinality(Made(b, k)) \in Nat /\ Cardinality(Seekers(b, k)) \in Nat
  BY FS_CardinalityType
<1> QED
  BY <1>1 DEF Total

\* The accounts bound the payees.
LEMMA AccountsEnough ==
  ASSUME TypeInv, LinkedExist, AllAccounts, MadeWhole PROVE PayeesAccounted
<1>1. ASSUME NEW b \in Row, NEW k \in Broker, k # CORPAY
      PROVE  Cardinality(Made(b, k)) <= 1 + hitches[b]
  <2>1. Accounts(b, k)
    BY <1>1 DEF AllAccounts
  <2>2. /\ Cardinality(Made(b, k)) \in Nat /\ Cardinality(Seekers(b, k)) \in Nat
        /\ Total(b, k) = Cardinality(Made(b, k)) + Cardinality(Seekers(b, k))
    BY <2>1, TotalType DEF Accounts, Total
  <2>3. hitches[b] \in Nat
    BY BeneficiaryAssumption DEF TypeInv, StoreOK
  <2>4. CASE link[b][k] \in {None, Blank}
    <3>1. Named(b, k) = 0
      BY <2>4 DEF Named
    <3> QED
      BY <2>1, <2>2, <2>3, <3>1 DEF Accounts
  <2>5. CASE link[b][k] \notin {None, Blank}
    <3>1. Named(b, k) = 1 /\ Exists(b)
      BY <2>5 DEF Named, LinkedExist
    <3>2. CASE Seekers(b, k) = {} /\ Makers(b, k) = {}
      BY <2>1, <2>2, <2>3, <3>1, <3>2 DEF Accounts
    <3>3. CASE Seekers(b, k) # {}
      <4>1. Cardinality(Seekers(b, k)) >= 1
        BY <2>1, <2>2, <3>3, FS_EmptySet DEF Accounts
      <4> QED
        BY <2>1, <2>2, <2>3, <3>1, <4>1 DEF Accounts
    <3>4. CASE Makers(b, k) # {}
      <4>1. Dealers(b, k) # {}
        BY <3>4 DEF Makers, Dealers, Makes, Deals
      <4> QED
        BY <2>1, <2>2, <2>3, <3>1, <4>1 DEF Accounts
    <3> QED
      BY <3>2, <3>3, <3>4
  <2> QED
    BY <2>4, <2>5
<1>2. ASSUME NEW b \in Row, NEW k \in Broker, k = CORPAY
      PROVE  Cardinality(Made(b, k)) <= 1 /\ hitches[b] \in Nat
  <2>1. Made(b, k) = {} \/ Made(b, k) = {b}
    BY <1>2 DEF MadeWhole
  <2>2. Cardinality({}) = 0 /\ Cardinality({b}) = 1
    BY FS_EmptySet, FS_Singleton
  <2>3. hitches[b] \in Nat
    BY BeneficiaryAssumption DEF TypeInv, StoreOK
  <2> QED
    BY <2>1, <2>2, <2>3
<1>3. ASSUME NEW b \in Row, NEW k \in Broker
      PROVE  Cardinality(Made(b, k)) <= 1 + (IF k = CORPAY THEN 0 ELSE hitches[b])
  BY <1>1, <1>2
<1> QED
  BY <1>3 DEF PayeesAccounted, Made

\* How a step may change the accounts of a row at a broker.  Nothing that counts;
LEMMA Even ==
  ASSUME NEW b \in Row, NEW k \in Broker, TypeInv, Accounts(b, k), IsFiniteSet(Made(b, k)'),
         IsFiniteSet(Seekers(b, k)'), Total(b, k)' = Total(b, k), hitches'[b] = hitches[b],
         Named(b, k)' = Named(b, k),
         Exists(b)' /\ (Seekers(b, k) \cup Makers(b, k))' = {} =>
           Exists(b) /\ Seekers(b, k) \cup Makers(b, k) = {},
         Dealers(b, k)' # {} => Dealers(b, k) # {} \/ Named(b, k) = 0
  PROVE  Accounts(b, k)'
  BY DEF Accounts

\* a request that gives up, or finds the link and will make no payee;
LEMMA Fewer ==
  ASSUME NEW b \in Row, NEW k \in Broker, TypeInv, Accounts(b, k), IsFiniteSet(Made(b, k)'),
         IsFiniteSet(Seekers(b, k)'), Total(b, k)' = Total(b, k) - 1, hitches'[b] = hitches[b],
         Named(b, k)' = Named(b, k)
  PROVE  Accounts(b, k)'
<1>1. Total(b, k) \in Nat /\ hitches[b] \in Nat /\ Named(b, k) \in {0, 1}
  BY BeneficiaryAssumption, TotalType DEF Accounts, TypeInv, StoreOK, Named
<1>2. Named(b, k)' \in {0, 1}
  BY <1>1
<1> QED
  BY <1>1, <1>2 DEF Accounts

\* something that goes wrong;
LEMMA Wrong ==
  ASSUME NEW b \in Row, NEW k \in Broker, TypeInv, Accounts(b, k), IsFiniteSet(Made(b, k)'),
         IsFiniteSet(Seekers(b, k)'), Total(b, k)' \in {Total(b, k), Total(b, k) - 1},
         hitches'[b] = hitches[b] + 1, Named(b, k)' = Named(b, k),
         Dealers(b, k)' # {} => Dealers(b, k) # {}
  PROVE  Accounts(b, k)'
<1>1. Total(b, k) \in Nat /\ hitches[b] \in Nat /\ Named(b, k) \in {0, 1}
  BY BeneficiaryAssumption, TotalType DEF Accounts, TypeInv, StoreOK, Named
<1> QED
  BY <1>1 DEF Accounts

\* a link that is set by somebody who dealt with the broker, or by an import.
LEMMA Sets ==
  ASSUME NEW b \in Row, NEW k \in Broker, TypeInv, Accounts(b, k), IsFiniteSet(Made(b, k)'),
         IsFiniteSet(Seekers(b, k)'), Total(b, k)' = Total(b, k), hitches'[b] = hitches[b],
         Named(b, k)' = 1,
         \/ Dealers(b, k) # {}
         \/ /\ Exists(b) /\ Seekers(b, k)' = Seekers(b, k)
            /\ Makers(b, k)' = Makers(b, k) /\ Dealers(b, k)' = Dealers(b, k)
  PROVE  Accounts(b, k)'
<1>1. Total(b, k) \in Nat /\ hitches[b] \in Nat /\ Named(b, k) \in {0, 1}
  BY BeneficiaryAssumption, TotalType DEF Accounts, TypeInv, StoreOK, Named
<1> QED
  BY <1>1 DEF Accounts

\* Who may make a payee after request r became s.
LEMMA SeekersMove ==
  ASSUME NEW r \in Request, NEW s, Moves(r, s), NEW b \in Row, NEW k \in Broker
  PROVE  /\ Seekers(b, k)' = IF Seeks(s, b, k) THEN Seekers(b, k) \cup {r} ELSE Seekers(b, k) \ {r}
         /\ Makers(b, k)' = IF Makes(s, b, k) THEN Makers(b, k) \cup {r} ELSE Makers(b, k) \ {r}
         /\ Dealers(b, k)' = IF Deals(s, b, k) THEN Dealers(b, k) \cup {r} ELSE Dealers(b, k) \ {r}
<1>1. \A q \in Request \ {r} : /\ Seeks(req'[q], b, k) <=> Seeks(req[q], b, k)
                               /\ Makes(req'[q], b, k) <=> Makes(req[q], b, k)
                               /\ Deals(req'[q], b, k) <=> Deals(req[q], b, k)
  BY DEF Moves, Same, Seeks, Makes, Deals
<1>2. /\ Seeks(req'[r], b, k) <=> Seeks(s, b, k)
      /\ Makes(req'[r], b, k) <=> Makes(s, b, k)
      /\ Deals(req'[r], b, k) <=> Deals(s, b, k)
  BY DEF Moves, Same, Seeks, Makes, Deals
<1>3. /\ Seekers(b, k)' = {q \in Request : Seeks(req'[q], b, k)}
      /\ Makers(b, k)' = {q \in Request : Makes(req'[q], b, k)}
      /\ Dealers(b, k)' = {q \in Request : Deals(req'[q], b, k)}
  BY DEF Seekers, Makers, Dealers, Seeks, Makes, Deals
<1>4. Seekers(b, k)' = IF Seeks(s, b, k) THEN Seekers(b, k) \cup {r} ELSE Seekers(b, k) \ {r}
  BY <1>1, <1>2, <1>3 DEF Seekers
<1>5. Makers(b, k)' = IF Makes(s, b, k) THEN Makers(b, k) \cup {r} ELSE Makers(b, k) \ {r}
  BY <1>1, <1>2, <1>3 DEF Makers
<1>6. Dealers(b, k)' = IF Deals(s, b, k) THEN Dealers(b, k) \cup {r} ELSE Dealers(b, k) \ {r}
  BY <1>1, <1>2, <1>3 DEF Dealers
<1> QED
  BY <1>4, <1>5, <1>6

\* What that does to the total, no payee being made.
LEMMA TotalMoves ==
  ASSUME NEW b \in Row, NEW k \in Broker, IsFiniteSet(Made(b, k)), IsFiniteSet(Seekers(b, k)),
         Made(b, k)' = Made(b, k), NEW r \in Request, NEW s, Moves(r, s)
  PROVE  /\ IsFiniteSet(Made(b, k)') /\ IsFiniteSet(Seekers(b, k)')
         /\ (Seeks(s, b, k) <=> Seeks(req[r], b, k)) =>
              Seekers(b, k)' = Seekers(b, k) /\ Total(b, k)' = Total(b, k)
         /\ Seeks(req[r], b, k) /\ ~Seeks(s, b, k) => Total(b, k)' = Total(b, k) - 1
         /\ ~Seeks(req[r], b, k) /\ Seeks(s, b, k) => Total(b, k)' = Total(b, k) + 1
<1>1. Seekers(b, k)' = IF Seeks(s, b, k) THEN Seekers(b, k) \cup {r} ELSE Seekers(b, k) \ {r}
  BY SeekersMove
<1>2. r \in Seekers(b, k) <=> Seeks(req[r], b, k)
  BY DEF Seekers
<1>3. /\ IsFiniteSet(Seekers(b, k) \cup {r}) /\ IsFiniteSet(Seekers(b, k) \ {r})
      /\ r \in Seekers(b, k) =>
           Cardinality(Seekers(b, k) \ {r}) = Cardinality(Seekers(b, k)) - 1
      /\ r \notin Seekers(b, k) =>
           Cardinality(Seekers(b, k) \cup {r}) = Cardinality(Seekers(b, k)) + 1
  BY FS_AddElement, FS_RemoveElement
<1>4. Cardinality(Made(b, k)) \in Nat /\ Cardinality(Seekers(b, k)) \in Nat
  BY TotalType
<1>5. Total(b, k)' = Cardinality(Made(b, k)) + Cardinality(Seekers(b, k)')
  BY DEF Total
<1>6. CASE Seeks(s, b, k) <=> Seeks(req[r], b, k)
  <2>1. Seekers(b, k)' = Seekers(b, k)
    BY <1>1, <1>2, <1>6
  <2> QED
    BY <1>5, <1>6, <2>1 DEF Total
<1>7. CASE Seeks(req[r], b, k) /\ ~Seeks(s, b, k)
  <2>1. Seekers(b, k)' = Seekers(b, k) \ {r} /\ r \in Seekers(b, k)
    BY <1>1, <1>2, <1>7
  <2> QED
    BY <1>3, <1>4, <1>5, <1>7, <2>1 DEF Total
<1>8. CASE ~Seeks(req[r], b, k) /\ Seeks(s, b, k)
  <2>1. Seekers(b, k)' = Seekers(b, k) \cup {r} /\ r \notin Seekers(b, k)
    BY <1>1, <1>2, <1>8
  <2> QED
    BY <1>3, <1>4, <1>5, <1>8, <2>1 DEF Total
<1> QED
  BY <1>6, <1>7, <1>8

\* A step of a request that goes right and makes no payee: it gives up, or it goes on
\* as likely to make one as before.
LEMMA MoveAccounts ==
  ASSUME TypeInv, NEW b \in Row, NEW k \in Broker, Accounts(b, k), NEW r \in Request, NEW s,
         Moves(r, s), Made(b, k)' = Made(b, k), hitches'[b] = hitches[b],
         Named(b, k)' = Named(b, k),
         \/ Seeks(req[r], b, k) /\ ~Seeks(s, b, k)
         \/ /\ Seeks(s, b, k) <=> Seeks(req[r], b, k)
            /\ Exists(b)' => Exists(b) \/ Seeks(s, b, k)
            /\ Exists(b)' /\ Makes(req[r], b, k) => Makes(s, b, k) \/ Seeks(s, b, k)
            /\ Deals(s, b, k) => Deals(req[r], b, k) \/ Named(b, k) = 0
  PROVE  Accounts(b, k)'
<1>1. IsFiniteSet(Made(b, k)) /\ IsFiniteSet(Seekers(b, k))
  BY DEF Accounts
<1>2. CASE Seeks(req[r], b, k) /\ ~Seeks(s, b, k)
  <2>1. /\ IsFiniteSet(Made(b, k)') /\ IsFiniteSet(Seekers(b, k)')
        /\ Total(b, k)' = Total(b, k) - 1
    BY <1>1, <1>2, TotalMoves
  <2> QED
    BY <2>1, Fewer
<1>3. CASE Seeks(s, b, k) <=> Seeks(req[r], b, k)
  <2>1. /\ IsFiniteSet(Made(b, k)') /\ IsFiniteSet(Seekers(b, k)')
        /\ Total(b, k)' = Total(b, k) /\ Seekers(b, k)' = Seekers(b, k)
    BY <1>1, <1>3, TotalMoves
  <2>2. /\ Seekers(b, k)' = IF Seeks(s, b, k) THEN Seekers(b, k) \cup {r} ELSE Seekers(b, k) \ {r}
        /\ Makers(b, k)' = IF Makes(s, b, k) THEN Makers(b, k) \cup {r} ELSE Makers(b, k) \ {r}
        /\ Dealers(b, k)' = IF Deals(s, b, k) THEN Dealers(b, k) \cup {r} ELSE Dealers(b, k) \ {r}
    BY SeekersMove
  <2>3. /\ r \in Makers(b, k) <=> Makes(req[r], b, k)
        /\ r \in Dealers(b, k) <=> Deals(req[r], b, k)
    BY DEF Makers, Dealers
  <2>4. /\ Exists(b)' => Exists(b) \/ Seeks(s, b, k)
        /\ Exists(b)' /\ Makes(req[r], b, k) => Makes(s, b, k) \/ Seeks(s, b, k)
        /\ Deals(s, b, k) => Deals(req[r], b, k) \/ Named(b, k) = 0
    BY <1>3
  <2>5. Exists(b)' /\ (Seekers(b, k) \cup Makers(b, k))' = {} =>
          Exists(b) /\ Seekers(b, k) \cup Makers(b, k) = {}
    <3>1. ASSUME Exists(b)', Seekers(b, k)' = {}, Makers(b, k)' = {}
          PROVE  Exists(b) /\ Seekers(b, k) = {} /\ Makers(b, k) = {}
      <4>1. ~Seeks(s, b, k) /\ ~Makes(s, b, k)
        BY <2>2, <3>1
      <4> QED
        BY <2>1, <2>2, <2>3, <2>4, <3>1, <4>1
    <3> QED
      BY <3>1
  <2>6. Dealers(b, k)' # {} => Dealers(b, k) # {} \/ Named(b, k) = 0
    BY <2>2, <2>3, <2>4
  <2> QED
    BY <2>1, <2>5, <2>6, Even
<1> QED
  BY <1>2, <1>3

\* A request about another row.
LEMMA ElsewhereAccounts ==
  ASSUME TypeInv, NEW b \in Row, NEW k \in Broker, Accounts(b, k), NEW r \in Request, NEW s,
         Moves(r, s), req[r].row # b, s.row # b, Made(b, k)' = Made(b, k),
         hitches'[b] = hitches[b], Named(b, k)' = Named(b, k), Exists(b)' => Exists(b)
  PROVE  Accounts(b, k)'
<1>1. /\ ~Seeks(s, b, k) /\ ~Seeks(req[r], b, k) /\ ~Makes(req[r], b, k)
      /\ ~Deals(s, b, k)
  BY DEF Seeks, Makes, Deals
<1> QED
  BY <1>1, MoveAccounts

\* The steps of a request before it tells the brokers leave the payees alone.
LEMMA EarlyAccounts ==
  ASSUME TypeInv, NEW b \in Row, NEW k \in Broker, Accounts(b, k), NEW r \in Request, NEW s,
         Moves(r, s), req[r].pc \in {"activate", "update", "pending", "load"},
         held' = held, link' = link, hitches' = hitches,
         s.row \in {req[r].row, None}, ~Makes(s, b, k), ~Deals(s, b, k),
         b # req[r].row => (Exists(b)' => Exists(b))
  PROVE  Accounts(b, k)'
<1>1. Made(b, k)' = Made(b, k) /\ Named(b, k)' = Named(b, k) /\ hitches'[b] = hitches[b]
  BY DEF Made, Named
<1>2. b # None
  BY BeneficiaryAssumption DEF Name
<1>3. CASE req[r].row # b
  BY <1>1, <1>2, <1>3, ElsewhereAccounts
<1>4. CASE req[r].row = b
  <2>1. Seeks(req[r], b, k) /\ ~Makes(req[r], b, k)
    BY <1>4 DEF Seeks, Makes
  <2> QED
    BY <1>1, <2>1, MoveAccounts
<1> QED
  BY <1>3, <1>4

\* The save of an activation.
LEMMA ActivateSaveAccounts ==
  ASSUME TypeInv, NEW b \in Row, NEW k \in Broker, Accounts(b, k), NEW r \in Request,
         ActivateSave(r)
  PROVE  Accounts(b, k)'
<1> DEFINE s == req[r]
           u == [s EXCEPT !.pc = "load"]
<1>1. s \in Work /\ s.row \in Row /\ s.pc = "activate"
  BY ActingOK DEF ActivateSave
<1>2. UNCHANGED <<link, held, hitches>>
  BY DEF ActivateSave
<1>3. CASE Exists(s.row)
  <2>1. Goes(r, u) /\ row' = [row EXCEPT ![s.row].status = "PENDING"]
    BY <1>3 DEF ActivateSave
  <2>2. u \in Work /\ u.pc = "load" /\ u.row = s.row
    BY <1>1 DEF Work, Step
  <2>3. \A q \in Row : Exists(q)' <=> Exists(q)
    BY <1>1, <1>3, <2>1, StatusSaved DEF TypeInv, Status
  <2> HIDE DEF u
  <2>4. Moves(r, u)
    BY <2>1, <2>2, GoesMoves DEF TypeInv, RequestsOK
  <2>5. ~Makes(u, b, k) /\ ~Deals(u, b, k)
    BY <2>2 DEF Makes, Deals
  <2> QED
    BY <1>1, <1>2, <2>2, <2>3, <2>4, <2>5, EarlyAccounts
<1>4. CASE ~Exists(s.row)
  <2>1. Goes(r, Done) /\ row' = row
    BY <1>4 DEF ActivateSave
  <2>2. Moves(r, Done) /\ Done.row = None /\ Done.pc = "done"
    BY <2>1, CopyTyped, GoesMoves DEF TypeInv, RequestsOK, Done, Fresh
  <2>3. ~Makes(Done, b, k) /\ ~Deals(Done, b, k)
    BY <2>2 DEF Makes, Deals
  <2>4. \A q : Exists(q)' <=> Exists(q)
    BY <2>1 DEF Exists
  <2> QED
    BY <1>1, <1>2, <1>4, <2>2, <2>3, <2>4, EarlyAccounts
<1> QED
  BY <1>3, <1>4

\* The saves of an update, which may bring a deleted row back.
LEMMA UpdateAccounts ==
  ASSUME TypeInv, NEW b \in Row, NEW k \in Broker, Accounts(b, k), NEW r \in Request,
         UpdateSave(r) \/ UpdatePending(r)
  PROVE  Accounts(b, k)'
<1> DEFINE s == req[r]
<1>1. s \in Work /\ s.row \in Row /\ s.pc \in {"update", "pending"} /\ s.copy \in Saved
  BY ActingOK DEF UpdateSave, UpdatePending, Work
<1>2. UNCHANGED <<link, held, hitches>>
  BY DEF UpdateSave, UpdatePending
<1>3. [s.copy EXCEPT !.status = "PENDING"] \in Saved
  BY <1>1 DEF Saved, Status
<1>4. \E c \in Saved : row' = [row EXCEPT ![s.row] = c]
  BY <1>1, <1>3 DEF UpdateSave, UpdatePending
<1>5. \A q \in Row \ {s.row} : Exists(q)' <=> Exists(q)
  BY <1>1, <1>4 DEF TypeInv, StoreOK, Exists
<1>6. \E p \in {"pending", "load"} : Goes(r, [s EXCEPT !.pc = p])
  BY DEF UpdateSave, UpdatePending
<1>7. PICK p \in {"pending", "load"} : Goes(r, [s EXCEPT !.pc = p])
  BY <1>6
<1> DEFINE u == [s EXCEPT !.pc = p]
<1>8. u \in Work /\ u.pc = p /\ u.row = s.row
  BY <1>1 DEF Work, Step
<1>9. Goes(r, u)
  BY <1>7
<1> HIDE DEF u
<1>10. Moves(r, u)
  BY <1>8, <1>9, GoesMoves DEF TypeInv, RequestsOK
<1>11. ~Makes(u, b, k) /\ ~Deals(u, b, k)
  BY <1>8 DEF Makes, Deals
<1> QED
  BY <1>1, <1>2, <1>5, <1>8, <1>10, <1>11, EarlyAccounts

\* A request that loads its row, or finds it gone.
LEMMA LoadAccounts ==
  ASSUME TypeInv, NEW b \in Row, NEW k \in Broker, Accounts(b, k), NEW r \in Request, Load(r)
  PROVE  Accounts(b, k)'
<1> DEFINE s == req[r]
           u == [s EXCEPT !.pc = "sync", !.todo = company.configured,
                          !.copy = [NoCopy EXCEPT !.data = row[s.row].data]]
<1>1. s \in Work /\ s.row \in Row /\ s.pc = "load"
  BY ActingOK DEF Load
<1>2. UNCHANGED <<row, link, held, hitches>>
  BY DEF Load
<1>3. \A q : Exists(q)' <=> Exists(q)
  BY <1>2 DEF Exists
<1>4. CASE Exists(s.row)
  <2>1. row[s.row] \in Saved
    BY <1>1, <1>4, ExistsSaved DEF TypeInv
  <2>2. [NoCopy EXCEPT !.data = row[s.row].data] \in Saved
    BY <2>1, CopyTyped DEF Saved
  <2>3. company.configured \subseteq Broker
    BY BeneficiaryAssumption DEF TypeInv, StoreOK
  <2>4. u \in Work /\ u.pc = "sync" /\ u.row = s.row
    BY <1>1, <2>2, <2>3 DEF Work, Step
  <2>5. Goes(r, u)
    BY <1>4 DEF Load
  <2> HIDE DEF u
  <2>6. Moves(r, u)
    BY <2>4, <2>5, GoesMoves DEF TypeInv, RequestsOK
  <2>7. ~Makes(u, b, k) /\ ~Deals(u, b, k)
    BY <2>4 DEF Makes, Deals
  <2> QED
    BY <1>1, <1>2, <1>3, <2>4, <2>6, <2>7, EarlyAccounts
<1>5. CASE ~Exists(s.row)
  <2>1. Goes(r, Done)
    BY <1>5 DEF Load
  <2>2. Moves(r, Done) /\ Done.row = None /\ Done.pc = "done"
    BY <2>1, CopyTyped, GoesMoves DEF TypeInv, RequestsOK, Done, Fresh
  <2>3. ~Makes(Done, b, k) /\ ~Deals(Done, b, k)
    BY <2>2 DEF Makes, Deals
  <2> QED
    BY <1>1, <1>2, <1>3, <1>5, <2>2, <2>3, EarlyAccounts
<1> QED
  BY <1>4, <1>5

\* A service that finds the link makes no payee; one that finds none may.
LEMMA TryServiceAccounts ==
  ASSUME TypeInv, NEW b \in Row, NEW k \in Broker \ {CORPAY}, Accounts(b, k), NEW r \in Request,
         NEW j \in Broker, TryService(r, j)
  PROVE  Accounts(b, k)'
<1> DEFINE s == req[r]
           v == [s EXCEPT !.todo = @ \ {j}]
           c == Counted(v, FALSE)
           w == [v EXCEPT !.pc = "call", !.at = j, !.id = Addressed(s.row, j)]
<1>1. s \in Work /\ s.row \in Row /\ s.pc = "sync" /\ j \in s.todo
  BY ActingOK DEF TryService
<1>2. UNCHANGED <<row, link, held, hitches>>
  BY DEF TryService
<1>3. Made(b, k)' = Made(b, k) /\ Named(b, k)' = Named(b, k) /\ hitches'[b] = hitches[b]
      /\ (Exists(b)' <=> Exists(b))
  BY <1>2 DEF Made, Named, Exists
<1>4. v \in Work /\ v.row = s.row /\ v.todo = s.todo \ {j}
  BY <1>1 DEF Work
<1>5. Addressed(s.row, j) \in Name \cup {None}
  BY <1>1, AddressedType DEF TypeInv
<1>6. /\ w \in Work /\ w.pc = "call" /\ w.at = j /\ w.id = Addressed(s.row, j) /\ w.row = s.row
      /\ w.todo = s.todo \ {j}
  BY <1>1, <1>4, <1>5 DEF Work, Step
<1>7. Goes(r, c) \/ Goes(r, w)
  BY DEF TryService
<1> HIDE DEF v
<1>8. c \in Work /\ c.pc = "sync" /\ c.row = s.row /\ c.todo = s.todo \ {j}
  BY <1>4, CountedIs
<1> HIDE DEF c, w
<1>9. CASE s.row # b
  <2>1. \E u \in {c, w} : Moves(r, u) /\ u.row # b
    BY <1>6, <1>7, <1>8, <1>9, GoesMoves DEF TypeInv, RequestsOK
  <2> QED
    BY <1>3, <1>9, <2>1, ElsewhereAccounts
<1>10. CASE s.row = b /\ Goes(r, c)
  <2>1. Moves(r, c)
    BY <1>8, <1>10, GoesMoves DEF TypeInv, RequestsOK
  <2>2. ~Makes(s, b, k) /\ ~Deals(c, b, k) /\ (Seeks(c, b, k) => Seeks(s, b, k))
    BY <1>1, <1>8, <1>10 DEF Seeks, Makes, Deals, Telling
  <2> QED
    BY <1>3, <2>1, <2>2, MoveAccounts
<1>11. CASE s.row = b /\ Goes(r, w)
  <2>1. Moves(r, w)
    BY <1>6, <1>11, GoesMoves DEF TypeInv, RequestsOK
  <2>2. ~Makes(s, b, k)
    BY <1>1 DEF Makes
  <2>3. CASE j # k
    <3>1. ~Deals(w, b, k) /\ (Seeks(w, b, k) => Seeks(s, b, k))
      BY <1>1, <1>6, <1>11, <2>3 DEF Seeks, Deals, Telling
    <3> QED
      BY <1>3, <2>1, <2>2, <3>1, MoveAccounts
  <2>4. CASE j = k /\ w.id # None
    <3>1. Seeks(s, b, k) /\ ~Seeks(w, b, k)
      BY <1>1, <1>6, <1>11, <2>4 DEF Seeks, Telling
    <3> QED
      BY <1>3, <2>1, <3>1, MoveAccounts
  <2>5. CASE j = k /\ w.id = None
    <3>1. Seeks(s, b, k) /\ Seeks(w, b, k)
      BY <1>1, <1>6, <1>11, <2>5 DEF Seeks, Telling
    <3>2. Named(b, k) = 0
      BY <1>6, <1>11, <2>5 DEF Addressed, Named
    <3> QED
      BY <1>3, <2>1, <2>2, <3>1, <3>2, MoveAccounts
  <2> QED
    BY <2>3, <2>4, <2>5
<1> QED
  BY <1>7, <1>9, <1>10, <1>11

\* A request counts the broker it is at, and leaves no payee unlinked behind at a
\* row that is there.
LEMMA CountedAccounts ==
  ASSUME TypeInv, NEW b \in Row, NEW k \in Broker, Accounts(b, k), NEW r \in Request,
         NEW ok \in BOOLEAN, Moves(r, Counted(req[r], ok)), req[r].pc \in {"call", "link", "fill"},
         UNCHANGED <<row, link, held, hitches>>,
         req[r].pc = "call" \/ ~Exists(req[r].row) \/ req[r].at # k
  PROVE  Accounts(b, k)'
<1> DEFINE s == req[r]
           u == Counted(s, ok)
<1>1. s \in Work
  BY ActingOK
<1>2. u.pc = "sync" /\ u.row = s.row /\ u.todo = s.todo
  BY <1>1, CountedIs
<1>3. Made(b, k)' = Made(b, k) /\ Named(b, k)' = Named(b, k) /\ hitches'[b] = hitches[b]
      /\ (Exists(b)' <=> Exists(b))
  BY DEF Made, Named, Exists
<1> HIDE DEF u
<1>4. ~Deals(u, b, k) /\ (Seeks(u, b, k) => Seeks(s, b, k))
  BY <1>2 DEF Seeks, Deals, Telling
<1>5. Makes(s, b, k) => Seeks(s, b, k) \/ ~Exists(b)
  BY DEF Seeks, Makes, Telling
<1>6. Moves(r, u)
  BY DEF u
<1> QED
  BY <1>3, <1>4, <1>5, <1>6, MoveAccounts

\* A refusal makes none.
LEMMA RefusedAccounts ==
  ASSUME TypeInv, NEW b \in Row, NEW k \in Broker, Accounts(b, k), NEW r \in Request, Refused(r)
  PROVE  Accounts(b, k)'
<1>1. req[r] \in Work /\ req[r].pc = "call" /\ UNCHANGED <<row, link, held, hitches>>
      /\ Goes(r, Counted(req[r], FALSE))
  BY ActingOK DEF Refused
<1>2. Moves(r, Counted(req[r], FALSE))
  BY <1>1, CountedIs, GoesMoves DEF TypeInv, RequestsOK
<1> QED
  BY <1>1, <1>2, CountedAccounts

\* An empty link does not count.
LEMMA LinkFindAccounts ==
  ASSUME TypeInv, NEW b \in Row, NEW k \in Broker, Accounts(b, k), NEW r \in Request, LinkFind(r)
  PROVE  Accounts(b, k)'
<1> DEFINE s == req[r]
           u == [s EXCEPT !.pc = "fill"]
<1>1. s \in Work /\ s.row \in Row /\ s.pc = "link" /\ UNCHANGED <<row, held, hitches>>
  BY ActingOK DEF LinkFind
<1>2. CASE Exists(s.row)
  <2>1. Goes(r, u)
    BY <1>2 DEF LinkFind
  <2>2. /\ u \in Work /\ u.pc = "fill" /\ u.row = s.row /\ u.at = s.at /\ u.todo = s.todo
    BY <1>1 DEF Work, Step
  <2> HIDE DEF u
  <2>3. Moves(r, u)
    BY <2>1, <2>2, GoesMoves DEF TypeInv, RequestsOK
  <2>4. /\ Seeks(u, b, k) <=> Seeks(s, b, k)
        /\ Makes(u, b, k) <=> Makes(s, b, k)
        /\ Deals(u, b, k) <=> Deals(s, b, k)
    BY <1>1, <2>2 DEF Seeks, Makes, Deals, Telling
  <2>5. Named(b, k)' = Named(b, k)
    BY <1>1 DEF LinkFind, Named, TypeInv, StoreOK
  <2>6. Made(b, k)' = Made(b, k) /\ hitches'[b] = hitches[b] /\ (Exists(b)' <=> Exists(b))
    BY <1>1 DEF Made, Exists
  <2> QED
    BY <2>3, <2>4, <2>5, <2>6, MoveAccounts
<1>3. CASE ~Exists(s.row)
  <2>1. link' = link /\ Goes(r, Counted(s, FALSE))
    BY <1>3 DEF LinkFind
  <2>2. Moves(r, Counted(s, FALSE))
    BY <1>1, <2>1, CountedIs, GoesMoves DEF TypeInv, RequestsOK
  <2> QED
    BY <1>1, <1>3, <2>1, <2>2, CountedAccounts
<1> QED
  BY <1>2, <1>3

\* A link that is set makes up for the payee it names.
LEMMA LinkSaveAccounts ==
  ASSUME TypeInv, NEW b \in Row, NEW k \in Broker, Accounts(b, k), NEW r \in Request, LinkSave(r)
  PROVE  Accounts(b, k)'
<1> DEFINE s == req[r]
           u == Counted(s, Exists(s.row))
<1>1. /\ s \in Work /\ s.row \in Row /\ s.pc = "fill" /\ s.at \in Broker /\ s.id \in Name
      /\ s.at \notin s.todo
  BY ActingOK DEF LinkSave, WorkOK
<1>2. UNCHANGED <<row, held, hitches>> /\ Goes(r, u) /\ Exists(s.row) \in BOOLEAN
  BY DEF LinkSave, Exists
<1>3. u \in Work /\ u.pc = "sync" /\ u.row = s.row /\ u.todo = s.todo
  BY <1>1, <1>2, CountedIs
<1>4. Moves(r, u)
  BY <1>2, <1>3, GoesMoves DEF TypeInv, RequestsOK
<1>5. Made(b, k)' = Made(b, k) /\ hitches'[b] = hitches[b] /\ (Exists(b)' <=> Exists(b))
  BY <1>2 DEF Made, Exists
<1>6. CASE ~Exists(s.row)
  <2>1. link' = link
    BY <1>6 DEF LinkSave
  <2> QED
    BY <1>1, <1>2, <1>4, <1>6, <2>1, CountedAccounts
<1> HIDE DEF u
<1>7. Seeks(u, b, k) <=> Seeks(s, b, k)
  BY <1>1, <1>3 DEF Seeks, Telling
<1>8. CASE Exists(s.row) /\ (b # s.row \/ k # s.at)
  <2>1. Named(b, k)' = Named(b, k)
    BY <1>1, <1>8 DEF LinkSave, Named, TypeInv, StoreOK
  <2>2. ~Makes(s, b, k) /\ ~Deals(u, b, k)
    BY <1>3, <1>8 DEF Makes, Deals
  <2> QED
    BY <1>4, <1>5, <1>7, <2>1, <2>2, MoveAccounts
<1>9. CASE Exists(s.row) /\ b = s.row /\ k = s.at
  <2>1. Named(b, k)' = 1
    <3>1. link'[b][k] = s.id
      BY <1>1, <1>9 DEF LinkSave, TypeInv, StoreOK
    <3> QED
      BY <1>1, <3>1, BeneficiaryAssumption DEF Named
  <2>2. Dealers(b, k) # {}
    BY <1>1, <1>9 DEF Dealers, Deals
  <2>3. IsFiniteSet(Made(b, k)') /\ IsFiniteSet(Seekers(b, k)') /\ Total(b, k)' = Total(b, k)
    BY <1>4, <1>5, <1>7, TotalMoves DEF Accounts
  <2> QED
    BY <1>5, <2>1, <2>2, <2>3, Sets
<1> QED
  BY <1>6, <1>8, <1>9

\* A request that finishes has no broker left to tell.
LEMMA FinishAccounts ==
  ASSUME TypeInv, NEW b \in Row, NEW k \in Broker, Accounts(b, k), NEW r \in Request, Finish(r)
  PROVE  Accounts(b, k)'
<1> DEFINE s == req[r]
           status == Verdict(s.ok, Cardinality(company.configured))
<1>1. s \in Work /\ s.row \in Row /\ s.pc = "sync" /\ s.todo = {}
  BY ActingOK DEF Finish
<1>2. status \in Status
  BY <1>1, VerdictType DEF Work, Status
<1>3. UNCHANGED <<link, held, hitches>> /\ Goes(r, Done)
      /\ row' = IF Exists(s.row) THEN [row EXCEPT ![s.row].status = status] ELSE row
  BY DEF Finish
<1> HIDE DEF status
<1>4. Exists(b)' <=> Exists(b)
  <2>1. CASE Exists(s.row)
    BY <1>1, <1>2, <1>3, <2>1, StatusSaved DEF TypeInv
  <2>2. CASE ~Exists(s.row)
    BY <1>3, <2>2 DEF Exists
  <2> QED
    BY <2>1, <2>2
<1>5. Moves(r, Done) /\ Done.pc = "done"
  BY <1>3, CopyTyped, GoesMoves DEF TypeInv, RequestsOK, Done, Fresh
<1>6. ~Seeks(s, b, k) /\ ~Makes(s, b, k) /\ ~Seeks(Done, b, k) /\ ~Deals(Done, b, k)
  BY <1>1, <1>5 DEF Seeks, Makes, Deals, Telling
<1>7. Made(b, k)' = Made(b, k) /\ Named(b, k)' = Named(b, k) /\ hitches'[b] = hitches[b]
  BY <1>3 DEF Made, Named
<1> QED
  BY <1>4, <1>5, <1>6, <1>7, MoveAccounts

\* A step that goes wrong for request r and makes no payee.
LEMMA WrongMoves ==
  ASSUME TypeInv, NEW b \in Row, NEW k \in Broker, Accounts(b, k), NEW r \in Request, NEW s,
         Moves(r, s), Made(b, k)' = Made(b, k), hitches'[b] = hitches[b] + 1,
         Named(b, k)' = Named(b, k), Seeks(s, b, k) => Seeks(req[r], b, k),
         Deals(s, b, k) => Deals(req[r], b, k)
  PROVE  Accounts(b, k)'
<1>1. /\ IsFiniteSet(Made(b, k)') /\ IsFiniteSet(Seekers(b, k)')
      /\ Total(b, k)' \in {Total(b, k), Total(b, k) - 1}
  BY TotalMoves DEF Accounts
<1>2. Dealers(b, k)' # {} => Dealers(b, k) # {}
  <2>1. Dealers(b, k)' = IF Deals(s, b, k) THEN Dealers(b, k) \cup {r} ELSE Dealers(b, k) \ {r}
    BY SeekersMove
  <2>2. Deals(s, b, k) => r \in Dealers(b, k)
    BY DEF Dealers
  <2> QED
    BY <2>1, <2>2
<1> QED
  BY <1>1, <1>2, Wrong

\* A hitch is counted at its row only.
LEMMA HitchIs ==
  ASSUME TypeInv, NEW b \in Row, Hitch(b)
  PROVE  hitches'[b] = hitches[b] + 1 /\ \A q \in Row \ {b} : hitches'[q] = hitches[q]
  BY DEF TypeInv, StoreOK, Hitch

\* A death leaves at most the payee it did not link.
LEMMA DieAccounts ==
  ASSUME TypeInv, NEW b \in Row, NEW k \in Broker, Accounts(b, k), NEW r \in Request, Die(r)
  PROVE  Accounts(b, k)'
<1> DEFINE s == req[r]
<1>1. s \in Work /\ s.row \in Row /\ UNCHANGED <<row, link, held>> /\ Goes(r, Done) /\ Hitch(s.row)
  BY ActingOK DEF Die
<1>2. Moves(r, Done) /\ Done.pc = "done" /\ Done.row = None
  BY <1>1, CopyTyped, GoesMoves DEF TypeInv, RequestsOK, Done, Fresh
<1>3. ~Seeks(Done, b, k) /\ ~Deals(Done, b, k)
  BY <1>2 DEF Seeks, Deals, Telling
<1>4. Made(b, k)' = Made(b, k) /\ Named(b, k)' = Named(b, k) /\ (Exists(b)' <=> Exists(b))
  BY <1>1 DEF Made, Named, Exists
<1>5. /\ hitches'[s.row] = hitches[s.row] + 1
      /\ \A q \in Row \ {s.row} : hitches'[q] = hitches[q]
  BY <1>1, HitchIs
<1>6. CASE s.row = b
  BY <1>2, <1>3, <1>4, <1>5, <1>6, WrongMoves
<1>7. CASE s.row # b
  BY <1>2, <1>4, <1>5, <1>7, BeneficiaryAssumption, ElsewhereAccounts DEF Name
<1> QED
  BY <1>6, <1>7

\* A payee that is made takes the place of the request that sought it, and one whose
\* answer is lost is paid for by the hitch.
LEMMA AcceptedAccounts ==
  ASSUME TypeInv, Owns, NEW b \in Row, NEW k \in Broker \ {CORPAY}, Accounts(b, k),
         NEW r \in Request, NEW answered \in BOOLEAN, Accepted(r, answered)
  PROVE  Accounts(b, k)'
<1> DEFINE s == req[r]
           id == AcceptedId(r)
           old == held[s.at][id]
           u == AcceptedWork(r, answered)
<1>1. /\ s \in Work /\ s.pc = "call" /\ s.row \in Row /\ s.at \in Broker /\ s.at \notin s.todo
      /\ id \in Name /\ Moves(r, u) /\ UNCHANGED <<row, link>>
      /\ IF answered THEN hitches' = hitches ELSE Hitch(s.row)
  <2>1. s.pc = "call" /\ WorkOK(s, row, All)
    BY AcceptedFacts
  <2>2. s.at \notin s.todo
    BY <2>1 DEF WorkOK
  <2> QED
    BY <2>2, AcceptedFacts
<1>2. /\ \A j \in Broker, i \in Name : j # s.at \/ i # id => held'[j][i] = held[j][i]
      /\ held'[s.at][id].of = (IF old = None THEN s.row ELSE old.of)
      /\ held'[s.at][id] # None
  BY AcceptedHeld
<1>3. s.id = None => old = None
  BY AcceptedFacts
<1>4. s.at # CORPAY /\ s.id # None => old # None
  BY <1>1 DEF Owns, WorkOwned, Owned, AcceptedId
<1>5. /\ u.row = s.row /\ u.todo = s.todo
      /\ answered => u.pc = "link" /\ u.at = s.at
      /\ ~answered => u.pc = "sync"
  BY <1>1, CountedIs DEF AcceptedWork, Work
<1> HIDE DEF id, old, u
<1>6. Named(b, k)' = Named(b, k) /\ (Exists(b)' <=> Exists(b))
  BY <1>1 DEF Named, Exists
<1>7. ASSUME s.at # k \/ s.row # b \/ s.id # None
      PROVE  Made(b, k)' = Made(b, k)
  <2>1. ASSUME NEW i \in Name
        PROVE  (held'[k][i] # None /\ held'[k][i].of = b) <=> (held[k][i] # None /\ held[k][i].of = b)
    <3>1. CASE s.at # k \/ i # id
      BY <1>2, <3>1
    <3>2. CASE s.at = k /\ i = id
      <4>1. CASE old = None
        BY <1>1, <1>2, <1>4, <1>7, <3>2, <4>1 DEF old
      <4>2. CASE old # None
        BY <1>2, <3>2, <4>2 DEF old
      <4> QED
        BY <4>1, <4>2
    <3> QED
      BY <3>1, <3>2
  <2> QED
    BY <2>1 DEF Made
<1>8. CASE s.row # b
  <2>1. hitches'[b] = hitches[b]
    BY <1>1, <1>8, HitchIs
  <2> QED
    BY <1>1, <1>5, <1>6, <1>7, <1>8, <2>1, ElsewhereAccounts
<1>9. CASE s.row = b /\ (s.at # k \/ s.id # None)
  <2>1. ~Makes(s, b, k)
    BY <1>1, <1>9 DEF Makes
  <2>2. (Seeks(u, b, k) <=> Seeks(s, b, k)) /\ (Deals(u, b, k) => Deals(s, b, k))
    BY <1>1, <1>5, <1>9 DEF Seeks, Deals, Telling
  <2>3. CASE answered
    <3>1. hitches'[b] = hitches[b]
      BY <1>1, <2>3
    <3> QED
      BY <1>1, <1>6, <1>7, <1>9, <2>1, <2>2, <3>1, MoveAccounts
  <2>4. CASE ~answered
    <3>1. hitches'[b] = hitches[b] + 1
      BY <1>1, <1>9, <2>4, HitchIs
    <3> QED
      BY <1>1, <1>6, <1>7, <1>9, <2>2, <3>1, WrongMoves
  <2> QED
    BY <2>3, <2>4
<1>10. CASE s.row = b /\ s.at = k /\ s.id = None
  <2>1. Made(b, k)' = Made(b, k) \cup {id} /\ id \notin Made(b, k)
    <3>1. id \notin Made(b, k)
      BY <1>3, <1>10 DEF Made, old
    <3>2. ASSUME NEW i \in Name, i # id PROVE held'[k][i] = held[k][i]
      BY <1>2, <3>2
    <3>3. held'[k][id] # None /\ held'[k][id].of = b
      BY <1>2, <1>3, <1>10
    <3>4. Made(b, k)' = {i \in Name : held'[k][i] # None /\ held'[k][i].of = b}
      BY DEF Made
    <3> QED
      BY <1>1, <3>1, <3>2, <3>3, <3>4 DEF Made
  <2>2. Seeks(s, b, k) /\ ~Seeks(u, b, k) /\ Deals(s, b, k)
    BY <1>1, <1>5, <1>10 DEF Seeks, Deals, Telling
  <2>3. /\ Seekers(b, k)' = Seekers(b, k) \ {r} /\ r \in Seekers(b, k)
        /\ Makers(b, k)' = IF Makes(u, b, k) THEN Makers(b, k) \cup {r} ELSE Makers(b, k) \ {r}
    BY <1>1, <2>2, SeekersMove DEF Seekers
  <2>4. IsFiniteSet(Made(b, k)) /\ IsFiniteSet(Seekers(b, k))
    BY DEF Accounts
  <2>5. /\ IsFiniteSet(Made(b, k)') /\ Cardinality(Made(b, k)') = Cardinality(Made(b, k)) + 1
        /\ IsFiniteSet(Seekers(b, k)')
        /\ Cardinality(Seekers(b, k)') = Cardinality(Seekers(b, k)) - 1
    BY <2>1, <2>3, <2>4, FS_AddElement, FS_RemoveElement
  <2>6. Total(b, k)' = Total(b, k)
    <3>1. Cardinality(Made(b, k)) \in Nat /\ Cardinality(Seekers(b, k)) \in Nat
      BY <2>4, TotalType
    <3>2. Total(b, k)' = Cardinality(Made(b, k)') + Cardinality(Seekers(b, k)')
      BY DEF Total
    <3> QED
      BY <2>5, <3>1, <3>2 DEF Total
  <2>7. Dealers(b, k) # {}
    BY <2>2 DEF Dealers
  <2>8. CASE answered
    <3>1. Makes(u, b, k)
      BY <1>5, <1>10, <2>8 DEF Makes
    <3>2. (Seekers(b, k) \cup Makers(b, k))' # {}
      BY <2>3, <3>1
    <3>3. hitches'[b] = hitches[b]
      BY <1>1, <2>8
    <3> QED
      BY <1>6, <2>5, <2>6, <2>7, <3>2, <3>3, Even
  <2>9. CASE ~answered
    <3>1. hitches'[b] = hitches[b] + 1
      BY <1>1, <1>10, <2>9, HitchIs
    <3> QED
      BY <1>6, <2>5, <2>6, <2>7, <3>1, Wrong
  <2> QED
    BY <2>8, <2>9
<1> QED
  BY <1>8, <1>9, <1>10

\* A request that begins is one more that may make a payee: the only one, or an
\* overlap.
LEMMA BeginAccounts ==
  ASSUME TypeInv, NEW b \in Row, NEW k \in Broker, Accounts(b, k), NEW r \in Request,
         NEW a \in Row, NEW s \in Work, Exists(a), Begin(r, a, s), s.pc \in {"activate", "update"},
         UNCHANGED <<row, link, held>>
  PROVE  Accounts(b, k)'
<1> DEFINE u == [s EXCEPT !.row = a]
<1>1. /\ req[r].pc = "new" /\ Moves(r, u)
      /\ IF Working(a) = {} THEN hitches' = hitches ELSE Hitch(a)
  BY BeginMoves DEF TypeInv, RequestsOK
<1>2. u.pc = s.pc /\ u.row = a /\ req[r].row = None
  BY <1>1 DEF Work, TypeInv, RequestsOK, WorkOK
<1> HIDE DEF u
<1>3. Made(b, k)' = Made(b, k) /\ Named(b, k)' = Named(b, k) /\ (Exists(b)' <=> Exists(b))
  BY DEF Made, Named, Exists
<1>4. CASE a # b
  <2>1. hitches'[b] = hitches[b]
    BY <1>1, <1>4, HitchIs
  <2> QED
    BY <1>1, <1>2, <1>3, <1>4, <2>1, BeneficiaryAssumption, ElsewhereAccounts DEF Name
<1>5. CASE a = b
  <2>1. Seeks(u, b, k) /\ ~Seeks(req[r], b, k) /\ ~Deals(u, b, k)
    BY <1>1, <1>2, <1>5 DEF Seeks, Deals, Telling
  <2>2. /\ IsFiniteSet(Made(b, k)') /\ IsFiniteSet(Seekers(b, k)')
        /\ Total(b, k)' = Total(b, k) + 1
    BY <1>1, <1>3, <2>1, TotalMoves DEF Accounts
  <2>3. /\ (Seekers(b, k) \cup Makers(b, k))' # {}
        /\ Dealers(b, k)' = Dealers(b, k) \ {r}
    BY <1>1, <2>1, SeekersMove
  <2>4. Total(b, k) \in Nat /\ hitches[b] \in Nat /\ Named(b, k) \in {0, 1}
    BY BeneficiaryAssumption, TotalType DEF Accounts, TypeInv, StoreOK, Named
  <2>5. CASE Working(b) = {}
    <3>1. Seekers(b, k) = {} /\ Makers(b, k) = {} /\ Dealers(b, k) = {}
      BY <2>5 DEF Working, Seekers, Makers, Dealers, Seeks, Makes, Deals
    <3>2. hitches'[b] = hitches[b]
      BY <1>1, <1>5, <2>5
    <3>3. Total(b, k) <= hitches[b] + Named(b, k)
      BY <1>5, <3>1 DEF Accounts
    <3>4. Dealers(b, k)' = {}
      BY <2>3, <3>1
    <3> QED
      BY <1>3, <2>2, <2>3, <2>4, <3>2, <3>3, <3>4 DEF Accounts
  <2>6. CASE Working(b) # {}
    <3>1. hitches'[b] = hitches[b] + 1
      BY <1>1, <1>5, <2>6, HitchIs
    <3>2. Dealers(b, k)' # {} => Dealers(b, k) # {}
      BY <2>3
    <3> QED
      BY <1>3, <2>2, <2>3, <2>4, <3>1, <3>2 DEF Accounts
  <2> QED
    BY <2>5, <2>6
<1> QED
  BY <1>4, <1>5

\* A step of no request, which makes no payee.
LEMMA RestSame ==
  ASSUME Rest, NEW b \in Row, NEW k \in Broker, held' = held
  PROVE  /\ Seekers(b, k)' = Seekers(b, k) /\ Makers(b, k)' = Makers(b, k)
         /\ Dealers(b, k)' = Dealers(b, k) /\ Made(b, k)' = Made(b, k)
         /\ Total(b, k)' = Total(b, k)
<1>1. \A q \in Request : /\ Seeks(req'[q], b, k) <=> Seeks(req[q], b, k)
                         /\ Makes(req'[q], b, k) <=> Makes(req[q], b, k)
                         /\ Deals(req'[q], b, k) <=> Deals(req[q], b, k)
  BY DEF Rest, Same, Seeks, Makes, Deals
<1>2. /\ Seekers(b, k)' = {q \in Request : Seeks(req'[q], b, k)}
      /\ Makers(b, k)' = {q \in Request : Makes(req'[q], b, k)}
      /\ Dealers(b, k)' = {q \in Request : Deals(req'[q], b, k)}
  BY DEF Seekers, Makers, Dealers, Seeks, Makes, Deals
<1>3. Seekers(b, k)' = Seekers(b, k) /\ Makers(b, k)' = Makers(b, k) /\ Dealers(b, k)' = Dealers(b, k)
  BY <1>1, <1>2 DEF Seekers, Makers, Dealers
<1>4. Made(b, k)' = Made(b, k)
  BY DEF Made
<1> QED
  BY <1>3, <1>4 DEF Total

\* A step of no request that makes no row and sets no link.
LEMMA RestAccounts ==
  ASSUME TypeInv, NEW b \in Row, NEW k \in Broker, Accounts(b, k), Rest, held' = held,
         hitches'[b] = hitches[b], Exists(b)' => Exists(b), Named(b, k)' = Named(b, k)
  PROVE  Accounts(b, k)'
<1>1. /\ Seekers(b, k)' = Seekers(b, k) /\ Makers(b, k)' = Makers(b, k)
      /\ Dealers(b, k)' = Dealers(b, k) /\ Made(b, k)' = Made(b, k)
      /\ Total(b, k)' = Total(b, k)
  BY RestSame
<1>2. IsFiniteSet(Made(b, k)') /\ IsFiniteSet(Seekers(b, k)')
  BY <1>1 DEF Accounts
<1>3. (Seekers(b, k) \cup Makers(b, k))' = Seekers(b, k) \cup Makers(b, k)
  BY <1>1
<1> QED
  BY <1>1, <1>2, <1>3, Even

\* A row that is made has no payee yet, and nobody is at work on it.
LEMMA NewAccounts ==
  ASSUME TypeInv, MadeWhole, NEW b \in Row, NEW k \in Broker, row[b] = Unused, Rest, held' = held,
         hitches' = hitches
  PROVE  Accounts(b, k)'
<1>1. Made(b, k) = {}
  BY DEF MadeWhole
<1>2. Seekers(b, k) = {}
  <2>1. ASSUME NEW r \in Request PROVE ~Seeks(req[r], b, k)
    BY DEF TypeInv, RequestsOK, WorkOK, Seeks, Telling
  <2> QED
    BY <2>1 DEF Seekers
<1>3. IsFiniteSet({}) /\ Cardinality({}) = 0
  BY FS_EmptySet
<1>4. Made(b, k)' = {} /\ Seekers(b, k)' = {} /\ Total(b, k)' = 0
  BY <1>1, <1>2, <1>3, RestSame DEF Total
<1>5. hitches'[b] \in Nat
  BY BeneficiaryAssumption DEF TypeInv, StoreOK
<1>6. Named(b, k)' \in {0, 1}
  BY DEF Named
<1> QED
  BY <1>3, <1>4, <1>5, <1>6 DEF Accounts

\* A deletion takes the link away, which the hitch pays for.
LEMMA DestroyAccounts ==
  ASSUME TypeInv, NEW b \in Row, NEW k \in Broker, Accounts(b, k), NEW a \in Row, Destroy(a)
  PROVE  Accounts(b, k)'
<1>1. Rest /\ held' = held /\ Hitch(a)
  BY DEF Destroy, TypeInv, RequestsOK, Rest, Same
<1>2. hitches'[a] = hitches[a] + 1 /\ \A q \in Row \ {a} : hitches'[q] = hitches[q]
  BY <1>1, HitchIs
<1>3. CASE a # b
  <2>1. (Exists(b)' => Exists(b)) /\ Named(b, k)' = Named(b, k)
    BY <1>3 DEF Destroy, Exists, Named, TypeInv, StoreOK
  <2> QED
    BY <1>1, <1>2, <1>3, <2>1, RestAccounts
<1>4. CASE a = b
  <2>1. Named(b, k)' = 0 /\ ~Exists(b)'
    BY <1>4 DEF Destroy, Exists, Named, TypeInv, StoreOK
  <2>2. /\ Seekers(b, k)' = Seekers(b, k) /\ Made(b, k)' = Made(b, k)
        /\ Total(b, k)' = Total(b, k)
    BY <1>1, RestSame
  <2>3. IsFiniteSet(Made(b, k)') /\ IsFiniteSet(Seekers(b, k)')
    BY <2>2 DEF Accounts
  <2>4. Total(b, k) \in Nat /\ hitches[b] \in Nat /\ Named(b, k) \in {0, 1}
    BY BeneficiaryAssumption, TotalType DEF Accounts, TypeInv, StoreOK, Named
  <2> QED
    BY <1>2, <1>4, <2>1, <2>2, <2>3, <2>4 DEF Accounts
<1> QED
  BY <1>3, <1>4

\* An import may set a link, and makes no payee.
LEMMA ImportSaveAccounts ==
  ASSUME TypeInv, LinkedExist, MadeWhole, NEW b \in Row, NEW k \in Broker, Accounts(b, k), ImportSave
  PROVE  Accounts(b, k)'
<1>1. /\ imp \in Imports /\ UNCHANGED <<held, hitches>>
      /\ \E a \in Row, ext \in Name \cup {None}, linking \in BOOLEAN :
           Import(a, ext, linking) /\ (Exists(a) \/ row[a] = Unused)
  BY ImportTakes DEF TypeInv
<1>2. PICK a \in Row, ext \in Name \cup {None}, linking \in BOOLEAN :
        Import(a, ext, linking) /\ (Exists(a) \/ row[a] = Unused)
  BY <1>1
<1>3. Rest
  BY <1>2, DisturbRest DEF Import, TypeInv, RequestsOK
<1>4. CASE a # b
  <2>1. (Exists(b)' => Exists(b)) /\ Named(b, k)' = Named(b, k)
    BY <1>2, <1>4 DEF Import, Exists, Named, TypeInv, StoreOK
  <2> QED
    BY <1>1, <1>3, <2>1, RestAccounts
<1>5. CASE a = b /\ row[a] = Unused
  BY <1>1, <1>3, <1>5, NewAccounts
<1>6. CASE a = b /\ Exists(a)
  <2>1. /\ Seekers(b, k)' = Seekers(b, k) /\ Makers(b, k)' = Makers(b, k)
        /\ Dealers(b, k)' = Dealers(b, k) /\ Made(b, k)' = Made(b, k)
        /\ Total(b, k)' = Total(b, k)
    BY <1>1, <1>3, RestSame
  <2>2. IsFiniteSet(Made(b, k)') /\ IsFiniteSet(Seekers(b, k)')
    BY <2>1 DEF Accounts
  <2>3. Named(b, k)' = Named(b, k) \/ Named(b, k)' = 1
    <3>1. imp.id \notin {None, Blank} /\ imp.at \in Broker
      BY <1>1, BeneficiaryAssumption DEF Imports
    <3>2. link'[b][k] = link[b][k] \/ link'[b][k] = imp.id
      BY <1>2, <3>1 DEF Import, TypeInv, StoreOK
    <3> QED
      BY <3>1, <3>2 DEF Named
  <2>4. CASE Named(b, k)' = Named(b, k)
    BY <1>1, <1>3, <1>6, <2>4, RestAccounts
  <2>5. CASE Named(b, k)' = 1
    BY <1>1, <1>6, <2>1, <2>2, <2>5, Sets
  <2> QED
    BY <2>3, <2>4, <2>5
<1> QED
  BY <1>2, <1>4, <1>5, <1>6

\* Every step keeps the accounts.
LEMMA NextAccounts ==
  ASSUME TypeInv, LinkedExist, Owns, MadeWhole, AllAccounts, Next
  PROVE  AllAccounts'
<1> SUFFICES ASSUME NEW b \in Row, NEW k \in Broker \ {CORPAY} PROVE Accounts(b, k)'
  BY DEF AllAccounts
<1>1. Accounts(b, k)
  BY DEF AllAccounts
<1>2. ASSUME NEW a \in Row, Create(a) PROVE Accounts(b, k)'
  <2>1. Rest /\ UNCHANGED <<held, hitches, link>> /\ row[a] = Unused
    BY <1>2 DEF Create, TypeInv, RequestsOK, Rest, Same
  <2>2. CASE a = b
    BY <2>1, <2>2, NewAccounts
  <2>3. CASE a # b
    <3>1. (Exists(b)' => Exists(b)) /\ Named(b, k)' = Named(b, k)
      BY <1>2, <2>3 DEF Create, Exists, Named, TypeInv, StoreOK
    <3> QED
      BY <1>1, <2>1, <3>1, RestAccounts
  <2> QED
    BY <2>2, <2>3
<1>3. ASSUME NEW a \in Row, Destroy(a) PROVE Accounts(b, k)'
  BY <1>1, <1>3, DestroyAccounts
<1>4. ASSUME NEW r \in Request, NEW a \in Row, ActivateRead(r, a) PROVE Accounts(b, k)'
  <2>1. [Fresh EXCEPT !.pc = "activate"] \in Work /\ [Fresh EXCEPT !.pc = "activate"].pc = "activate"
    BY CopyTyped DEF Work, Step
  <2> QED
    BY <1>1, <1>4, <2>1, BeginAccounts DEF ActivateRead
<1>5. ASSUME NEW r \in Request, NEW a \in Row, NEW d \in Data, UpdateRead(r, a, d)
      PROVE  Accounts(b, k)'
  <2> DEFINE s == [Fresh EXCEPT !.pc = "update", !.copy = [row[a] EXCEPT !.data = d]]
  <2>1. row[a] \in Saved
    BY <1>5, ExistsSaved DEF UpdateRead, TypeInv
  <2>2. [row[a] EXCEPT !.data = d] \in Saved
    BY <2>1 DEF Saved
  <2>3. s \in Work /\ s.pc = "update"
    BY <2>2, CopyTyped DEF Work, Step
  <2>4. Begin(r, a, s) /\ Exists(a) /\ UNCHANGED <<row, link, held>>
    BY <1>5 DEF UpdateRead
  <2> HIDE DEF s
  <2> QED
    BY <1>1, <2>3, <2>4, BeginAccounts
<1>6. ASSUME NEW r \in Request, Advance(r) PROVE Accounts(b, k)'
  BY <1>1, <1>6, ActivateSaveAccounts, UpdateAccounts, LoadAccounts, TryServiceAccounts,
     RefusedAccounts, AcceptedAccounts, LinkFindAccounts, LinkSaveAccounts, FinishAccounts
     DEF Advance
<1>7. ASSUME NEW r \in Request, Die(r) PROVE Accounts(b, k)'
  BY <1>1, <1>7, DieAccounts
<1>8. ASSUME NEW j \in Broker, NEW id \in Name, ImportView(j, id) PROVE Accounts(b, k)'
  <2>1. Rest /\ UNCHANGED <<held, hitches, row, link>>
    BY <1>8 DEF ImportView, TypeInv, RequestsOK, Rest, Same
  <2>2. (Exists(b)' => Exists(b)) /\ Named(b, k)' = Named(b, k)
    BY <2>1 DEF Exists, Named
  <2> QED
    BY <1>1, <2>1, <2>2, RestAccounts
<1>9. CASE ImportSave
  BY <1>1, <1>9, ImportSaveAccounts
<1>10. CASE ImportGivesUp
  <2>1. Rest /\ UNCHANGED <<held, hitches, row, link>>
    BY <1>10 DEF ImportGivesUp, TypeInv, RequestsOK, Rest, Same
  <2>2. (Exists(b)' => Exists(b)) /\ Named(b, k)' = Named(b, k)
    BY <2>1 DEF Exists, Named
  <2> QED
    BY <1>1, <2>1, <2>2, RestAccounts
<1> QED
  BY <1>2, <1>3, <1>4, <1>5, <1>6, <1>7, <1>8, <1>9, <1>10 DEF Next

\* What the brokers hold is whole as long as no row is unmade, and as a broker
\* takes one more.
LEMMA WholeKept ==
  ASSUME MadeWhole, RowsKept, held' = held PROVE MadeWhole'
  BY DEF MadeWhole, RowsKept, Made

\* A payee is made for a row that is there, at Corpay under its own name.
LEMMA AcceptedWhole ==
  ASSUME TypeInv, Owns, MadeWhole, NEW r \in Request, NEW answered \in BOOLEAN,
         Accepted(r, answered)
  PROVE  MadeWhole'
<1> DEFINE s == req[r]
           id == AcceptedId(r)
           old == held[s.at][id]
<1>1. s.pc = "call" /\ s.row \in Row /\ s.at \in Broker /\ id \in Name /\ row' = row
      /\ WorkOK(s, row, All)
  BY AcceptedFacts
<1>2. /\ \A j \in Broker, i \in Name : j # s.at \/ i # id => held'[j][i] = held[j][i]
      /\ held'[s.at][id].of = (IF old = None THEN s.row ELSE old.of)
  BY AcceptedHeld
<1>3. s.at = CORPAY => id = s.row
  <2>1. s.at = CORPAY => s.id = s.row
    BY <1>1 DEF Owns, WorkOwned
  <2>2. s.row # None
    BY <1>1, BeneficiaryAssumption DEF Name
  <2> QED
    BY <2>1, <2>2 DEF AcceptedId
<1>4. row[s.row] # Unused
  BY <1>1 DEF WorkOK
<1> HIDE DEF id, old
<1>5. ASSUME NEW b \in Row, NEW k \in Broker, NEW i \in Made(b, k)'
      PROVE  i \in Made(b, k) \/ (b = s.row /\ k = s.at /\ i = id)
  BY <1>2 DEF Made, old
<1>6. ASSUME NEW b \in Row, NEW k \in Broker, row'[b] = Unused PROVE Made(b, k)' = {}
  BY <1>1, <1>4, <1>5, <1>6 DEF MadeWhole
<1>7. ASSUME NEW b \in Row PROVE Made(b, CORPAY)' \subseteq {b}
  BY <1>3, <1>5 DEF MadeWhole, Broker
<1> QED
  BY <1>6, <1>7 DEF MadeWhole

\* No step unmakes a row.
LEMMA NextRowsKept ==
  ASSUME TypeInv, LinkedExist, Next PROVE RowsKept
<1>1. ASSUME NEW b \in Row, NEW c \in Saved, row' = [row EXCEPT ![b] = c] PROVE RowsKept
  BY <1>1, CopySaved
<1>2. ASSUME row' = row PROVE RowsKept
  BY <1>2 DEF RowsKept
<1>3. ASSUME NEW b \in Row, Create(b) \/ Destroy(b) PROVE RowsKept
  BY <1>1, <1>3, CopyTyped, BeneficiaryAssumption
     DEF Create, Destroy, RowsKept, Exists, TypeInv, StoreOK
<1>4. ASSUME NEW b \in Row, NEW status \in Status, Exists(b),
             row' = [row EXCEPT ![b].status = status]
      PROVE  RowsKept
  <2>1. row[b] \in Saved
    BY <1>4, ExistsSaved DEF TypeInv
  <2>2. [row[b] EXCEPT !.status = status] \in Saved
    BY <2>1 DEF Saved
  <2>3. row' = [row EXCEPT ![b] = [row[b] EXCEPT !.status = status]]
    BY <1>4 DEF TypeInv, StoreOK
  <2> QED
    BY <1>1, <2>2, <2>3
<1>5. ASSUME NEW r \in Request, Advance(r) PROVE RowsKept
  <2> DEFINE s == req[r]
  <2>1. s \in Work /\ s.copy \in Saved /\ (s.pc \notin {"new", "done"} => s.row \in Row)
    BY ActingOK DEF Work
  <2>2. CASE ActivateSave(r)
    BY <1>2, <1>4, <2>1, <2>2 DEF ActivateSave, Status
  <2>3. CASE UpdateSave(r)
    BY <1>1, <2>1, <2>3 DEF UpdateSave
  <2>4. CASE UpdatePending(r)
    <3>1. [s.copy EXCEPT !.status = "PENDING"] \in Saved
      BY <2>1 DEF Saved, Status
    <3> QED
      BY <1>1, <2>1, <2>4, <3>1 DEF UpdatePending
  <2>5. CASE Finish(r)
    <3>1. Verdict(s.ok, Cardinality(company.configured)) \in Status
      BY <2>1, VerdictType DEF Work, Status
    <3> QED
      BY <1>2, <1>4, <2>1, <2>5, <3>1 DEF Finish
  <2>6. ASSUME ~ActivateSave(r), ~UpdateSave(r), ~UpdatePending(r), ~Finish(r) PROVE row' = row
    BY <1>5, <2>6 DEF Advance, Load, TryService, Refused, Accepted, LinkFind, LinkSave
  <2> QED
    BY <1>2, <2>2, <2>3, <2>4, <2>5, <2>6
<1>6. CASE ImportSave
  <2>1. PICK b \in Row, ext \in Name \cup {None}, linking \in BOOLEAN : Import(b, ext, linking)
    BY <1>6, ImportTakes DEF TypeInv
  <2>2. imp \in Imports
    BY <1>6, ImportTakes DEF TypeInv
  <2>3. [status |-> "SYNCED", data |-> imp.data, ext |-> ext] \in Saved
    BY <2>2 DEF Imports, Saved, Status
  <2> QED
    BY <1>1, <2>1, <2>3 DEF Import
<1> QED
  BY <1>2, <1>3, <1>5, <1>6 DEF Next, ActivateRead, UpdateRead, Die, ImportView, ImportGivesUp

\* No other step makes a payee.
LEMMA NextWhole ==
  ASSUME TypeInv, LinkedExist, Owns, MadeWhole, Next PROVE MadeWhole'
<1>1. RowsKept
  BY NextRowsKept
<1>2. ASSUME NEW r \in Request, NEW answered \in BOOLEAN, Accepted(r, answered) PROVE MadeWhole'
  BY <1>2, AcceptedWhole
<1>3. ASSUME ~\E r \in Request, answered \in BOOLEAN : Accepted(r, answered)
      PROVE  held' = held
  BY <1>3 DEF Next, Create, Destroy, ActivateRead, UpdateRead, Advance, ActivateSave, UpdateSave,
              UpdatePending, Load, TryService, Refused, LinkFind, LinkSave, Finish, Die,
              ImportView, ImportSave, ImportGivesUp
<1> QED
  BY <1>1, <1>2, <1>3, WholeKept

\* At first no row has a payee, and nobody seeks one.
LEMMA InitAccounts ==
  ASSUME Init PROVE MadeWhole /\ AllAccounts
<1>1. ASSUME NEW b \in Row, NEW k \in Broker PROVE Made(b, k) = {}
  <2>1. None \notin Row
    BY BeneficiaryAssumption DEF Name
  <2> QED
    BY <2>1 DEF Init, Made
<1>2. ASSUME NEW b \in Row, NEW k \in Broker
      PROVE  Seekers(b, k) = {} /\ Dealers(b, k) = {} /\ Named(b, k) = 0
  BY DEF Init, Fresh, Seekers, Seeks, Telling, Dealers, Deals, Named
<1>3. IsFiniteSet({}) /\ Cardinality({}) = 0
  BY FS_EmptySet
<1>4. \A b \in Row : hitches[b] = 0
  BY DEF Init
<1>5. ASSUME NEW b \in Row, NEW k \in Broker PROVE Accounts(b, k)
  <2>1. Total(b, k) = 0
    BY <1>1, <1>2, <1>3 DEF Total
  <2> QED
    BY <1>1, <1>2, <1>3, <1>4, <2>1 DEF Accounts
<1>6. MadeWhole
  BY <1>1 DEF MadeWhole, Broker
<1> QED
  BY <1>5, <1>6 DEF AllAccounts

\* However requests overlap and imports come between, a beneficiary has one payee
\* at a broker, and one more for each death, lost answer, deletion or overlap, at
\* Corpay not even that.
THEOREM BeneficiaryPayeesAccounted == Spec => []PayeesAccounted
<1> DEFINE Inv == TypeInv /\ LinkedExist /\ Owns /\ MadeWhole /\ AllAccounts
<1>1. Init => Inv
  BY InitTyped, InitOwns, InitAccounts
<1>2. Inv /\ [Next]_vars => Inv'
  <2>1. ASSUME Inv, UNCHANGED vars PROVE Inv'
    <3>1. (TypeInv /\ LinkedExist)'
      BY <2>1 DEF vars, TypeInv, StoreOK, RequestsOK, WorkOK, All, LinkedExist, Exists
    <3>2. Rest /\ ImportHeld' /\ RowsExt /\ LinksSet /\ RowsKept /\ UNCHANGED <<row, link, held, hitches>>
      BY <2>1, RowsExtSame, LinksSame
         DEF vars, TypeInv, RequestsOK, Rest, Same, Owns, ImportHeld, RowsKept
    <3>3. Owns' /\ MadeWhole'
      BY <2>1, <3>2, OwnsRest, WholeKept
    <3>4. ASSUME NEW b \in Row, NEW k \in Broker \ {CORPAY} PROVE Accounts(b, k)'
      <4>1. Accounts(b, k)
        BY <2>1 DEF AllAccounts
      <4>2. (Exists(b)' => Exists(b)) /\ Named(b, k)' = Named(b, k)
        BY <3>2 DEF Exists, Named
      <4> QED
        BY <2>1, <3>2, <4>1, <4>2, RestAccounts
    <3>5. AllAccounts'
      BY <3>4 DEF AllAccounts
    <3> QED
      BY <3>1, <3>3, <3>5
  <2>2. ASSUME Inv, Next PROVE Inv'
    BY <2>2, NextTyped, NextLinked, NextOwns, NextWhole, NextAccounts
  <2> QED
    BY <2>1, <2>2
<1>3. Inv => PayeesAccounted
  BY AccountsEnough
<1> QED
  BY <1>1, <1>2, <1>3, PTL DEF Spec

-----------------------------------------------------------------------------
(* SYNCED is true.                                                          *)

Synced(b) == Exists(b) /\ row[b].status = "SYNCED"

\* Broker k holds, under the row's link, what row b says
Told(b, k) ==
  /\ link[b][k] \notin {None, Blank}
  /\ held[k][link[b][k]].data = row[b].data

AllTold(b) == \A k \in company.configured : Told(b, k)

\* Row b is loose, and no request that is at work on it will change that
Crowd(b) == b \in loose /\ \A q \in Request : req[q].row = b => ~req[q].alone

\* Nobody is at work on row b, or r by itself
Idle(b) == \A q \in Request : req[q].row # b
Lone(b, r) == req[r].alone /\ \A q \in Request : req[q].row = b <=> q = r

\* SYNCED is as true as it was until an update is saved, and is not there between
\* the PENDING that it saves and the end
StatusOK(b, s) ==
  (b \notin loose /\ Synced(b)) =>
    /\ s.pc \in {"update", "pending"}
    /\ s.pc = "update" => AllTold(b)

\* A request tells the brokers what its row says: those that took it hold that,
\* under the row's link or one that is about to be saved
TellsOK(b, s) ==
  (Exists(b) /\ s.pc \in Telling) =>
    /\ row[b].data = s.copy.data
    /\ s.bad = 0 => \A k \in company.configured \ s.todo :
                      (s.pc # "sync" /\ k = s.at) \/ Told(b, k)
    /\ s.pc = "call" => IF s.at = CORPAY THEN s.id = b ELSE s.id \in {None, link[b][s.at]}
    /\ s.pc \in {"link", "fill"} =>
         /\ held[s.at][s.id] # None
         /\ held[s.at][s.id].data = s.copy.data
         /\ held[s.at][s.id].of = b \/ link[b][s.at] = s.id

RowOK(b) ==
  \/ Crowd(b)
  \/ Idle(b) /\ (b \notin loose /\ Synced(b) => AllTold(b))
  \/ \E r \in Request : Lone(b, r) /\ StatusOK(b, req[r]) /\ TellsOK(b, req[r])

SyncInv == \A b \in Row : RowOK(b)

\* That gives the property.
LEMMA SyncInvTold ==
  ASSUME SyncInv PROVE SyncedTold
<1>1. ASSUME NEW b \in Row \ loose, Exists(b), Working(b) = {}, row[b].status = "SYNCED",
             NEW k \in company.configured
      PROVE  link[b][k] \notin {None, Blank} /\ held[k][link[b][k]].data = row[b].data
  <2>1. RowOK(b) /\ Idle(b) /\ ~Crowd(b) /\ \A r \in Request : ~Lone(b, r)
    BY <1>1 DEF SyncInv, Working, Idle, Crowd, Lone
  <2>2. AllTold(b)
    BY <1>1, <2>1 DEF RowOK, Synced
  <2> QED
    BY <2>2 DEF AllTold, Told
<1> QED
  BY <1>1 DEF SyncedTold

\* A step passes row b by: it leaves the row, its links, the payees that it stands
\* for and the requests that are at work on it.
Aside(b) ==
  /\ row'[b] = row[b] /\ link'[b] = link[b]
  /\ b \in loose' <=> b \in loose
  /\ \A k \in Broker, id \in Name : held'[k][id] = held[k][id] \/ b \notin Sharing(k, id)
  /\ \A q \in Request : req[q].row = b \/ req'[q].row = b =>
       Same(req'[q], req[q]) /\ (req'[q].alone <=> req[q].alone)

\* Then the brokers have been told what they had been.
LEMMA ToldAside ==
  ASSUME TypeInv, NEW b \in Row, Aside(b), NEW k \in Broker, Told(b, k)
  PROVE  Told(b, k)'
<1> DEFINE id == link[b][k]
<1>1. id \in Name /\ id \notin {None, Blank}
  BY DEF Told, TypeInv, StoreOK
<1>2. b \in Sharing(k, id)
  BY DEF Sharing, Linked
<1>3. held'[k][id] = held[k][id]
  BY <1>1, <1>2 DEF Aside
<1> QED
  BY <1>1, <1>3 DEF Told, Aside

\* And the row stays as it should be.
LEMMA RowAside ==
  ASSUME TypeInv, NEW b \in Row, RowOK(b), Aside(b), company' = company
  PROVE  RowOK(b)'
<1>1. company.configured \subseteq Broker
  BY BeneficiaryAssumption DEF TypeInv, StoreOK
<1>2. Synced(b)' <=> Synced(b)
  BY DEF Aside, Synced, Exists
<1>3. AllTold(b) => AllTold(b)'
  BY <1>1, ToldAside DEF AllTold
<1>4. CASE Crowd(b)
  <2>1. Crowd(b)'
    BY <1>4 DEF Crowd, Aside, Same
  <2> QED
    BY <2>1 DEF RowOK
<1>5. CASE Idle(b) /\ (b \notin loose /\ Synced(b) => AllTold(b))
  <2>1. Idle(b)'
    BY <1>5 DEF Idle, Aside, Same
  <2>2. (b \notin loose)' <=> b \notin loose
    BY DEF Aside
  <2>3. (b \notin loose /\ Synced(b) => AllTold(b))'
    BY <1>2, <1>3, <1>5, <2>2
  <2> QED
    BY <2>1, <2>3 DEF RowOK
<1>6. ASSUME NEW r \in Request, Lone(b, r), StatusOK(b, req[r]), TellsOK(b, req[r])
      PROVE  RowOK(b)'
  <2>1. Lone(b, r)'
    BY <1>6 DEF Lone, Aside, Same
  <2>2. Same(req'[r], req[r]) /\ (b \in loose' <=> b \in loose)
    BY <1>6 DEF Lone, Aside
  <2>3. StatusOK(b, req[r])'
    BY <1>2, <1>3, <1>6, <2>2 DEF StatusOK, Same
  <2>4. TellsOK(b, req[r])'
    <3>1. ASSUME Exists(b)', req'[r].pc \in Telling
          PROVE  /\ row'[b].data = req'[r].copy.data
                 /\ req'[r].bad = 0 => \A k \in company'.configured \ req'[r].todo :
                      (req'[r].pc # "sync" /\ k = req'[r].at) \/ Told(b, k)'
                 /\ req'[r].pc = "call" => IF req'[r].at = CORPAY THEN req'[r].id = b
                                           ELSE req'[r].id \in {None, link'[b][req'[r].at]}
                 /\ req'[r].pc \in {"link", "fill"} =>
                      /\ held'[req'[r].at][req'[r].id] # None
                      /\ held'[req'[r].at][req'[r].id].data = req'[r].copy.data
                      /\ \/ held'[req'[r].at][req'[r].id].of = b
                         \/ link'[b][req'[r].at] = req'[r].id
      <4>1. Exists(b) /\ req[r].pc \in Telling
        BY <2>2, <3>1 DEF Aside, Exists, Same
      <4>2. /\ row[b].data = req[r].copy.data
            /\ req[r].bad = 0 => \A k \in company.configured \ req[r].todo :
                 (req[r].pc # "sync" /\ k = req[r].at) \/ Told(b, k)
            /\ req[r].pc = "call" => IF req[r].at = CORPAY THEN req[r].id = b
                                     ELSE req[r].id \in {None, link[b][req[r].at]}
            /\ req[r].pc \in {"link", "fill"} =>
                 /\ held[req[r].at][req[r].id] # None
                 /\ held[req[r].at][req[r].id].data = req[r].copy.data
                 /\ held[req[r].at][req[r].id].of = b \/ link[b][req[r].at] = req[r].id
        BY <1>6, <4>1 DEF TellsOK
      <4>3. \A k \in company.configured : Told(b, k) => Told(b, k)'
        BY <1>1, ToldAside
      <4>4. ASSUME req[r].pc \in {"link", "fill"}
            PROVE  held'[req[r].at][req[r].id] = held[req[r].at][req[r].id]
        <5>1. req[r].at \in Broker /\ req[r].id \in Name
          BY <4>4, ActingOK DEF WorkOK
        <5>2. b \in Sharing(req[r].at, req[r].id)
          <6>1. b # None
            BY BeneficiaryAssumption DEF Name
          <6> QED
            BY <4>2, <4>4, <6>1 DEF Sharing, Linked
        <5> QED
          BY <5>1, <5>2 DEF Aside
      <4>5. link'[b] = link[b] /\ row'[b] = row[b]
        BY DEF Aside
      <4> QED
        BY <2>2, <4>2, <4>3, <4>4, <4>5 DEF Same
    <3> QED
      BY <3>1 DEF TellsOK
  <2> QED
    BY <1>6, <2>1, <2>3, <2>4 DEF RowOK
<1> QED
  BY <1>4, <1>5, <1>6 DEF RowOK

\* A request at work on a row that it has not to itself works on a crowded row; one
\* that has it to itself is the only one there.
LEMMA ActorAlone ==
  ASSUME NEW c \in Row, RowOK(c), NEW r \in Request, req[r].row = c
  PROVE  IF req[r].alone THEN Lone(c, r) /\ StatusOK(c, req[r]) /\ TellsOK(c, req[r])
                         ELSE Crowd(c)
  BY DEF RowOK, Crowd, Idle, Lone

\* A step of request r at its row c keeps the rows as they should be, if it does
\* when r has the row to itself.
LEMMA StepSync ==
  ASSUME TypeInv, SyncInv, NEW r \in Request, NEW c \in Row, req[r].row = c,
         \/ req'[r].row = c /\ (req'[r].alone <=> req[r].alone)
         \/ req'[r].row = None,
         \A q \in Request \ {r} : /\ req'[q].row = req[q].row
                                  /\ req[q].row = c => (req'[q].alone <=> req[q].alone),
         \A b \in Row \ {c} : Crowd(b)' \/ Aside(b),
         company' = company,
         ~req[r].alone /\ c \in loose => c \in loose',
         req[r].alone /\ StatusOK(c, req[r]) /\ TellsOK(c, req[r]) =>
           IF req'[r].row = c THEN StatusOK(c, req[r])' /\ TellsOK(c, req[r])'
                              ELSE (c \notin loose /\ Synced(c) => AllTold(c))'
  PROVE  SyncInv'
<1>1. ASSUME NEW b \in Row \ {c} PROVE RowOK(b)'
  <2>1. CASE Crowd(b)'
    BY <2>1 DEF RowOK
  <2>2. CASE Aside(b)
    BY <2>2, RowAside DEF SyncInv
  <2> QED
    BY <2>1, <2>2
<1>2. RowOK(c)'
  <2>1. None # c
    BY BeneficiaryAssumption DEF Name
  <2>2. RowOK(c)
    BY DEF SyncInv
  <2>3. CASE req[r].alone
    <3>1. Lone(c, r) /\ StatusOK(c, req[r]) /\ TellsOK(c, req[r])
      BY <2>2, <2>3, ActorAlone
    <3>2. CASE req'[r].row = c
      <4>1. Lone(c, r)'
        BY <2>1, <2>3, <3>1, <3>2 DEF Lone
      <4>2. StatusOK(c, req[r])' /\ TellsOK(c, req[r])'
        BY <2>3, <3>1, <3>2
      <4> QED
        BY <4>1, <4>2 DEF RowOK
    <3>3. CASE req'[r].row # c
      <4>1. Idle(c)'
        BY <3>1, <3>3 DEF Lone, Idle
      <4>2. (c \notin loose /\ Synced(c) => AllTold(c))'
        BY <2>3, <3>1, <3>3
      <4> QED
        BY <4>1, <4>2 DEF RowOK
    <3> QED
      BY <3>2, <3>3
  <2>4. CASE ~req[r].alone
    <3>1. Crowd(c)
      BY <2>2, <2>4, ActorAlone
    <3>2. Crowd(c)'
      BY <2>1, <2>4, <3>1 DEF Crowd
    <3> QED
      BY <3>2 DEF RowOK
  <2> QED
    BY <2>3, <2>4
<1> QED
  BY <1>1, <1>2 DEF SyncInv

\* A step that passes all rows by.
LEMMA AsideSync ==
  ASSUME TypeInv, SyncInv, company' = company, \A b \in Row : RowOK(b)' \/ Aside(b)
  PROVE  SyncInv'
  BY RowAside DEF SyncInv

\* A step of a request that touches no other row and tells no broker.
LEMMA GoesSync ==
  ASSUME TypeInv, SyncInv, NEW r \in Request, NEW c \in Row, req[r].row = c,
         \/ req'[r].row = c /\ (req'[r].alone <=> req[r].alone)
         \/ req'[r].row = None,
         \A q \in Request \ {r} : req'[q] = req[q],
         held' = held, company' = company,
         \A b \in Row \ {c} : /\ row'[b] = row[b] /\ link'[b] = link[b]
                              /\ b \in loose' <=> b \in loose,
         ~req[r].alone /\ c \in loose => c \in loose',
         req[r].alone /\ StatusOK(c, req[r]) /\ TellsOK(c, req[r]) =>
           IF req'[r].row = c THEN StatusOK(c, req[r])' /\ TellsOK(c, req[r])'
                              ELSE (c \notin loose /\ Synced(c) => AllTold(c))'
  PROVE  SyncInv'
<1>1. ASSUME NEW b \in Row \ {c} PROVE Aside(b)
  <2>1. b # None
    BY BeneficiaryAssumption DEF Name
  <2> QED
    BY <2>1 DEF Aside, Same
<1> QED
  BY <1>1, StepSync

\* What a step of a request by itself does to the requests.
LEMMA GoesIs ==
  ASSUME req \in [Request -> Work], NEW r \in Request, NEW s \in Work, Goes(r, s)
  PROVE  req'[r] = s /\ \A q \in Request \ {r} : req'[q] = req[q]
  BY DEF Goes

\* The fields of a request that is done, and of one that has counted a broker.
LEMMA DoneIs == Done.row = None /\ Done \in Work
  BY CopyTyped DEF Done, Fresh

\* A failure is counted.
LEMMA CountedFails ==
  ASSUME NEW s \in Work
  PROVE  LET u == Counted(s, FALSE) IN
         u \in Work /\ u.pc = "sync" /\ u.row = s.row /\ u.alone = s.alone /\ u.copy = s.copy
         /\ u.todo = s.todo /\ u.bad # 0
<1>1. s.bad \in Nat /\ s.bad + 1 # 0
  BY DEF Work
<1>2. Counted(s, FALSE).alone = s.alone
  BY DEF Counted, Work
<1> QED
  BY <1>1, <1>2, CountedIs

\* A request that is not about to save an update finds its row not SYNCED.
LEMMA NotSynced ==
  ASSUME NEW c, NEW s, StatusOK(c, s), s.pc \notin {"update", "pending"}
  PROVE  c \notin loose => ~Synced(c)
  BY DEF StatusOK

\* The row turns PENDING.
LEMMA ActivateSaveSync ==
  ASSUME TypeInv, SyncInv, NEW r \in Request, ActivateSave(r) PROVE SyncInv'
<1>1. PICK c \in Row : req[r].row = c
  BY ActingOK DEF ActivateSave
<1>2. req[r] \in Work /\ req \in [Request -> Work]
  BY ActingOK DEF TypeInv, RequestsOK
<1>3. UNCHANGED <<company, link, held, loose>> /\ row \in [Row -> Saved \cup {Unused, Deleted}]
  BY DEF ActivateSave, TypeInv, StoreOK
<1>4. CASE Exists(c)
  <2> DEFINE s == [req[r] EXCEPT !.pc = "load"]
  <2>1. s \in Work /\ s.pc = "load" /\ s.row = c /\ s.alone = req[r].alone
    BY <1>1, <1>2 DEF Work, Step
  <2>2. Goes(r, s) /\ row' = [row EXCEPT ![c].status = "PENDING"]
    BY <1>1, <1>4 DEF ActivateSave
  <2> HIDE DEF s
  <2>3. req'[r] = s /\ \A q \in Request \ {r} : req'[q] = req[q]
    BY <1>2, <2>1, <2>2, GoesIs
  <2>4. row'[c].status = "PENDING" /\ \A b \in Row \ {c} : row'[b] = row[b]
    <3>1. row[c] \in Saved
      BY <1>4, ExistsSaved DEF TypeInv
    <3> QED
      BY <1>3, <2>2, <3>1 DEF Saved
  <2>5. StatusOK(c, req[r])'
    BY <2>4 DEF StatusOK, Synced
  <2>6. TellsOK(c, req[r])'
    BY <2>1, <2>3 DEF TellsOK, Telling
  <2> QED
    BY <1>1, <1>3, <2>1, <2>3, <2>4, <2>5, <2>6, GoesSync
<1>5. CASE ~Exists(c)
  <2>1. Goes(r, Done) /\ row' = row
    BY <1>1, <1>5 DEF ActivateSave
  <2>2. req'[r].row = None /\ \A q \in Request \ {r} : req'[q] = req[q]
    BY <1>2, <2>1, GoesIs, DoneIs
  <2>3. ~Synced(c)' /\ c # None
    BY <1>5, <2>1, BeneficiaryAssumption DEF Synced, Exists, Name
  <2> QED
    BY <1>1, <1>3, <2>1, <2>2, <2>3, GoesSync
<1> QED
  BY <1>4, <1>5

\* The copy is saved, and the row may be SYNCED before the brokers know.
LEMMA UpdateSaveSync ==
  ASSUME TypeInv, SyncInv, NEW r \in Request, UpdateSave(r) PROVE SyncInv'
<1>1. PICK c \in Row : req[r].row = c
  BY ActingOK DEF UpdateSave
<1>2. req[r] \in Work /\ req \in [Request -> Work]
  BY ActingOK DEF TypeInv, RequestsOK
<1>3. UNCHANGED <<company, link, held, loose>> /\ row \in [Row -> Saved \cup {Unused, Deleted}]
  BY DEF UpdateSave, TypeInv, StoreOK
<1> DEFINE s == [req[r] EXCEPT !.pc = "pending"]
<1>4. s \in Work /\ s.pc = "pending" /\ s.row = c /\ s.alone = req[r].alone
  BY <1>1, <1>2 DEF Work, Step
<1>5. Goes(r, s) /\ row' = [row EXCEPT ![c] = req[r].copy]
  BY <1>1 DEF UpdateSave
<1> HIDE DEF s
<1>6. req'[r] = s /\ \A q \in Request \ {r} : req'[q] = req[q]
  BY <1>2, <1>4, <1>5, GoesIs
<1>7. \A b \in Row \ {c} : row'[b] = row[b]
  BY <1>3, <1>5
<1>8. StatusOK(c, req[r])'
  BY <1>4, <1>6 DEF StatusOK
<1>9. TellsOK(c, req[r])'
  BY <1>4, <1>6 DEF TellsOK, Telling
<1> QED
  BY <1>1, <1>3, <1>4, <1>6, <1>7, <1>8, <1>9, GoesSync

\* It is saved again, PENDING.
LEMMA UpdatePendingSync ==
  ASSUME TypeInv, SyncInv, NEW r \in Request, UpdatePending(r) PROVE SyncInv'
<1>1. PICK c \in Row : req[r].row = c
  BY ActingOK DEF UpdatePending
<1>2. req[r] \in Work /\ req \in [Request -> Work]
  BY ActingOK DEF TypeInv, RequestsOK
<1>3. UNCHANGED <<company, link, held, loose>> /\ row \in [Row -> Saved \cup {Unused, Deleted}]
  BY DEF UpdatePending, TypeInv, StoreOK
<1> DEFINE s == [req[r] EXCEPT !.pc = "load"]
<1>4. s \in Work /\ s.pc = "load" /\ s.row = c /\ s.alone = req[r].alone
  BY <1>1, <1>2 DEF Work, Step
<1>5. Goes(r, s) /\ row' = [row EXCEPT ![c] = [req[r].copy EXCEPT !.status = "PENDING"]]
  BY <1>1 DEF UpdatePending
<1> HIDE DEF s
<1>6. req'[r] = s /\ \A q \in Request \ {r} : req'[q] = req[q]
  BY <1>2, <1>4, <1>5, GoesIs
<1>7. row'[c].status = "PENDING" /\ \A b \in Row \ {c} : row'[b] = row[b]
  <2>1. [req[r].copy EXCEPT !.status = "PENDING"].status = "PENDING"
    BY <1>2 DEF Work, Saved
  <2> QED
    BY <1>3, <1>5, <2>1
<1>8. StatusOK(c, req[r])'
  BY <1>7 DEF StatusOK, Synced
<1>9. TellsOK(c, req[r])'
  BY <1>4, <1>6 DEF TellsOK, Telling
<1> QED
  BY <1>1, <1>3, <1>4, <1>6, <1>7, <1>8, <1>9, GoesSync

\* A step that leaves the row keeps what its status says.
LEMMA StatusRests ==
  ASSUME NEW c, NEW r \in Request, StatusOK(c, req[r]), req[r].pc \notin {"update", "pending"},
         row' = row, loose' = loose
  PROVE  StatusOK(c, req[r])' /\ (c \notin loose /\ Synced(c) => AllTold(c))'
<1>1. (c \notin loose)' => ~Synced(c)'
  BY NotSynced DEF Synced, Exists
<1> QED
  BY <1>1 DEF StatusOK

\* All brokers are to tell.
LEMMA LoadSync ==
  ASSUME TypeInv, SyncInv, NEW r \in Request, Load(r) PROVE SyncInv'
<1>1. PICK c \in Row : req[r].row = c
  BY ActingOK DEF Load
<1>2. req[r] \in Work /\ WorkOK(req[r], row, All) /\ req \in [Request -> Work] /\ c # None
  BY ActingOK, BeneficiaryAssumption DEF TypeInv, RequestsOK, Name
<1>3. UNCHANGED <<company, row, link, held, loose>> /\ req[r].pc = "load"
  BY DEF Load
<1>4. StatusOK(c, req[r]) =>
        StatusOK(c, req[r])' /\ (c \notin loose /\ Synced(c) => AllTold(c))'
  BY <1>3, StatusRests
<1>5. CASE Exists(c)
  <2> DEFINE s == [req[r] EXCEPT !.pc = "sync", !.todo = company.configured,
                                 !.copy = [NoCopy EXCEPT !.data = row[c].data]]
  <2>1. Goes(r, s)
    BY <1>1, <1>5 DEF Load
  <2>2. row[c] \in Saved
    BY <1>5, ExistsSaved DEF TypeInv
  <2>3. [NoCopy EXCEPT !.data = row[c].data] \in Saved /\ [NoCopy EXCEPT !.data = row[c].data].data = row[c].data
    BY <2>2, CopyTyped DEF Saved
  <2>4. company.configured \subseteq Broker
    BY BeneficiaryAssumption DEF TypeInv, StoreOK
  <2>5. /\ s \in Work /\ s.pc = "sync" /\ s.row = c /\ s.alone = req[r].alone
        /\ s.todo = company.configured /\ s.copy.data = row[c].data
    BY <1>1, <1>2, <2>3, <2>4 DEF Work, Step
  <2> HIDE DEF s
  <2>6. req'[r] = s /\ \A q \in Request \ {r} : req'[q] = req[q]
    BY <1>2, <2>1, <2>5, GoesIs
  <2>7. TellsOK(c, req[r])'
    BY <1>3, <2>5, <2>6 DEF TellsOK
  <2> QED
    BY <1>1, <1>3, <1>4, <2>5, <2>6, <2>7, GoesSync
<1>6. CASE ~Exists(c)
  <2>1. Goes(r, Done)
    BY <1>1, <1>6 DEF Load
  <2>2. req'[r].row = None /\ \A q \in Request \ {r} : req'[q] = req[q]
    BY <1>2, <2>1, GoesIs, DoneIs
  <2> QED
    BY <1>1, <1>2, <1>3, <1>4, <2>2, GoesSync
<1> QED
  BY <1>5, <1>6

\* A request that counts a failure while its row stays.
LEMMA FailureSync ==
  ASSUME TypeInv, SyncInv, NEW r \in Request, req[r].pc \in Telling,
         NEW v \in Work, v.row = req[r].row, v.alone = req[r].alone, v.copy = req[r].copy,
         Goes(r, Counted(v, FALSE)), UNCHANGED <<company, row, link, held, loose>>
  PROVE  SyncInv'
<1>1. PICK c \in Row : req[r].row = c
  BY ActingOK DEF Telling
<1>2. req[r] \in Work /\ req \in [Request -> Work]
  BY ActingOK DEF TypeInv, RequestsOK
<1> DEFINE u == Counted(v, FALSE)
<1>3. /\ u \in Work /\ u.pc = "sync" /\ u.row = c /\ u.alone = req[r].alone
      /\ u.copy = req[r].copy /\ u.bad # 0
  BY <1>1, CountedFails
<1> HIDE DEF u
<1>4. req'[r] = u /\ \A q \in Request \ {r} : req'[q] = req[q]
  BY <1>2, <1>3, GoesIs DEF u
<1>5. StatusOK(c, req[r]) => StatusOK(c, req[r])'
  BY StatusRests DEF Telling
<1>6. TellsOK(c, req[r]) => TellsOK(c, req[r])'
  BY <1>3, <1>4 DEF TellsOK, Exists
<1> QED
  BY <1>1, <1>3, <1>4, <1>5, <1>6, GoesSync

\* A service fails, or goes on to call its broker under what the link says.
LEMMA TryServiceSync ==
  ASSUME TypeInv, SyncInv, NEW r \in Request, NEW k \in Broker, TryService(r, k) PROVE SyncInv'
<1> DEFINE v == [req[r] EXCEPT !.todo = @ \ {k}]
<1>1. PICK c \in Row : req[r].row = c
  BY ActingOK DEF TryService
<1>2. /\ req[r] \in Work /\ WorkOK(req[r], row, All) /\ req \in [Request -> Work]
      /\ req[r].pc = "sync" /\ k \in req[r].todo
  BY ActingOK DEF TryService, TypeInv, RequestsOK
<1>3. UNCHANGED <<company, row, link, held, loose>>
  BY DEF TryService
<1>4. /\ v \in Work /\ v.row = c /\ v.alone = req[r].alone /\ v.copy = req[r].copy
      /\ v.todo = req[r].todo \ {k} /\ v.bad = req[r].bad
  BY <1>1, <1>2 DEF Work
<1>5. CASE Goes(r, Counted(v, FALSE))
  BY <1>1, <1>2, <1>3, <1>4, <1>5, FailureSync DEF Telling
<1>6. CASE Goes(r, [v EXCEPT !.pc = "call", !.at = k, !.id = Addressed(c, k)])
  <2> DEFINE w == [v EXCEPT !.pc = "call", !.at = k, !.id = Addressed(c, k)]
  <2>1. Addressed(c, k) \in Name \cup {None}
    BY AddressedType DEF TypeInv
  <2>2. /\ w \in Work /\ w.pc = "call" /\ w.row = c /\ w.alone = req[r].alone
        /\ w.copy = req[r].copy /\ w.todo = req[r].todo \ {k} /\ w.bad = req[r].bad
        /\ w.at = k /\ w.id = Addressed(c, k)
    <3> HIDE DEF v
    <3> QED
      BY <1>4, <2>1 DEF Work, Step
  <2> HIDE DEF w
  <2>3. req'[r] = w /\ \A q \in Request \ {r} : req'[q] = req[q]
    BY <1>2, <1>6, <2>2, GoesIs DEF w
  <2>4. StatusOK(c, req[r]) => StatusOK(c, req[r])'
    BY <1>2, <1>3, StatusRests
  <2>5. TellsOK(c, req[r]) => TellsOK(c, req[r])'
    <3> SUFFICES ASSUME TellsOK(c, req[r]), Exists(c)' PROVE TellsOK(c, req[r])'
      BY DEF TellsOK
    <3>1. /\ row[c].data = req[r].copy.data
          /\ req[r].bad = 0 => \A q \in company.configured \ req[r].todo : Told(c, q)
      BY <1>2, <1>3 DEF TellsOK, Telling, Exists
    <3>2. \A q \in company.configured : Told(c, q) => Told(c, q)'
      BY <1>3 DEF Told
    <3>3. IF k = CORPAY THEN w.id = c ELSE w.id \in {None, link[c][k]}
      BY <2>2 DEF Addressed
    <3> QED
      BY <1>3, <2>2, <2>3, <3>1, <3>2, <3>3 DEF TellsOK
  <2> QED
    BY <1>1, <1>3, <2>2, <2>3, <2>4, <2>5, GoesSync
<1>7. Goes(r, Counted(v, FALSE))
      \/ Goes(r, [v EXCEPT !.pc = "call", !.at = k, !.id = Addressed(c, k)])
  BY <1>1 DEF TryService
<1> QED
  BY <1>5, <1>6, <1>7

\* A refusal.
LEMMA RefusedSync ==
  ASSUME TypeInv, SyncInv, NEW r \in Request, Refused(r) PROVE SyncInv'
<1>1. req[r] \in Work /\ req[r].pc \in Telling
  BY ActingOK DEF Refused, Telling
<1> QED
  BY <1>1, FailureSync DEF Refused

\* A link that is looked for is there, or made without an identifier.
LEMMA LinkFindSync ==
  ASSUME TypeInv, SyncInv, NEW r \in Request, LinkFind(r) PROVE SyncInv'
<1>1. PICK c \in Row : req[r].row = c
  BY ActingOK DEF LinkFind
<1>2. /\ req[r] \in Work /\ WorkOK(req[r], row, All) /\ req \in [Request -> Work]
      /\ req[r].pc = "link" /\ req[r].at \in Broker /\ req[r].id \in Name
  BY ActingOK DEF LinkFind, TypeInv, RequestsOK, WorkOK
<1>3. UNCHANGED <<company, row, held, loose>> /\ link \in [Row -> [Broker -> Name \cup {None, Blank}]]
  BY DEF LinkFind, TypeInv, StoreOK
<1>4. CASE Exists(c)
  <2> DEFINE s == [req[r] EXCEPT !.pc = "fill"]
  <2>1. /\ s \in Work /\ s.pc = "fill" /\ s.row = c /\ s.alone = req[r].alone
        /\ s.copy = req[r].copy /\ s.todo = req[r].todo /\ s.bad = req[r].bad
        /\ s.at = req[r].at /\ s.id = req[r].id
    BY <1>1, <1>2 DEF Work, Step
  <2>2. Goes(r, s) /\ link' = IF link[c][s.at] = None THEN [link EXCEPT ![c][s.at] = Blank] ELSE link
    BY <1>1, <1>4, <2>1 DEF LinkFind
  <2> HIDE DEF s
  <2>3. req'[r] = s /\ \A q \in Request \ {r} : req'[q] = req[q]
    BY <1>2, <2>1, <2>2, GoesIs
  <2>4. /\ \A b \in Row \ {c} : link'[b] = link[b]
        /\ \A k \in Broker : link[c][k] # None => link'[c][k] = link[c][k]
    BY <1>2, <1>3, <2>1, <2>2
  <2>5. StatusOK(c, req[r]) => StatusOK(c, req[r])'
    BY <1>2, <1>3, StatusRests
  <2>6. TellsOK(c, req[r]) => TellsOK(c, req[r])'
    <3> SUFFICES ASSUME TellsOK(c, req[r]) PROVE TellsOK(c, req[r])'
      OBVIOUS
    <3>1. /\ row[c].data = s.copy.data
          /\ s.bad = 0 => \A k \in company.configured \ s.todo : k = s.at \/ Told(c, k)
          /\ held[s.at][s.id] # None
          /\ held[s.at][s.id].data = s.copy.data
          /\ held[s.at][s.id].of = c \/ link[c][s.at] = s.id
      BY <1>2, <1>4, <2>1 DEF TellsOK, Telling
    <3>2. company.configured \subseteq Broker
      BY BeneficiaryAssumption DEF TypeInv, StoreOK
    <3>3. \A k \in Broker : Told(c, k) => Told(c, k)'
      BY <1>3, <2>4 DEF Told
    <3>4. link[c][s.at] = s.id => link'[c][s.at] = s.id
      BY <1>2, <2>1, <2>4, BeneficiaryAssumption
    <3> QED
      BY <1>3, <2>1, <2>3, <3>1, <3>2, <3>3, <3>4 DEF TellsOK
  <2> QED
    BY <1>1, <1>3, <2>1, <2>3, <2>4, <2>5, <2>6, GoesSync
<1>5. CASE ~Exists(c)
  <2>1. link' = link /\ Goes(r, Counted(req[r], FALSE)) /\ req[r].pc \in Telling
    BY <1>1, <1>2, <1>5 DEF LinkFind, Telling
  <2> QED
    BY <1>2, <1>3, <2>1, FailureSync
<1> QED
  BY <1>4, <1>5

\* The link names the payee that holds what the row says.
LEMMA LinkSaveSync ==
  ASSUME TypeInv, SyncInv, NEW r \in Request, LinkSave(r) PROVE SyncInv'
<1>1. PICK c \in Row : req[r].row = c
  BY ActingOK DEF LinkSave
<1>2. /\ req[r] \in Work /\ WorkOK(req[r], row, All) /\ req \in [Request -> Work]
      /\ req[r].pc = "fill" /\ req[r].at \in Broker /\ req[r].id \in Name
  BY ActingOK DEF LinkSave, TypeInv, RequestsOK, WorkOK
<1>3. UNCHANGED <<company, row, held, loose>> /\ link \in [Row -> [Broker -> Name \cup {None, Blank}]]
  BY DEF LinkSave, TypeInv, StoreOK
<1>4. CASE Exists(c)
  <2> DEFINE s == Counted(req[r], TRUE)
  <2>1. /\ s \in Work /\ s.pc = "sync" /\ s.row = c /\ s.copy = req[r].copy
        /\ s.todo = req[r].todo /\ s.bad = req[r].bad
    BY <1>1, <1>2, CountedIs
  <2>2. s.alone = req[r].alone
    BY <1>2 DEF Counted, Work
  <2>3. /\ Goes(r, s) /\ link' = [link EXCEPT ![c][req[r].at] = req[r].id]
    <3>1. Exists(c) = TRUE
      BY <1>4 DEF Exists
    <3> QED
      BY <1>1, <1>4, <3>1 DEF LinkSave
  <2> HIDE DEF s
  <2>4. req'[r] = s /\ \A q \in Request \ {r} : req'[q] = req[q]
    BY <1>2, <2>1, <2>3, GoesIs
  <2>5. /\ \A b \in Row \ {c} : link'[b] = link[b]
        /\ link'[c][req[r].at] = req[r].id
        /\ \A k \in Broker \ {req[r].at} : link'[c][k] = link[c][k]
    BY <1>2, <1>3, <2>3
  <2>6. StatusOK(c, req[r]) => StatusOK(c, req[r])'
    BY <1>2, <1>3, StatusRests
  <2>7. TellsOK(c, req[r]) => TellsOK(c, req[r])'
    <3> SUFFICES ASSUME TellsOK(c, req[r]) PROVE TellsOK(c, req[r])'
      OBVIOUS
    <3>1. /\ row[c].data = req[r].copy.data
          /\ req[r].bad = 0 => \A k \in company.configured \ req[r].todo : k = req[r].at \/ Told(c, k)
          /\ held[req[r].at][req[r].id].data = req[r].copy.data
      BY <1>2, <1>4 DEF TellsOK, Telling
    <3>2. company.configured \subseteq Broker
      BY BeneficiaryAssumption DEF TypeInv, StoreOK
    <3>3. \A k \in Broker \ {req[r].at} : Told(c, k) => Told(c, k)'
      BY <1>3, <2>5 DEF Told
    <3>4. \A k \in Broker : k = req[r].at => Told(c, k)'
      <4>1. req[r].id \notin {None, Blank}
        BY <1>2, BeneficiaryAssumption
      <4> QED
        BY <1>3, <2>5, <3>1, <4>1 DEF Told
    <3> QED
      BY <1>3, <2>1, <2>4, <3>1, <3>2, <3>3, <3>4 DEF TellsOK
  <2> QED
    BY <1>1, <1>3, <2>1, <2>2, <2>4, <2>5, <2>6, <2>7, GoesSync
<1>5. CASE ~Exists(c)
  <2>1. Exists(c) = FALSE
    BY <1>5 DEF Exists
  <2>2. link' = link /\ Goes(r, Counted(req[r], FALSE)) /\ req[r].pc \in Telling
    BY <1>1, <1>2, <2>1 DEF LinkSave, Telling
  <2> QED
    BY <1>2, <1>3, <2>2, FailureSync
<1> QED
  BY <1>4, <1>5

\* Every broker took it if as many did as there are, and the row is then SYNCED.
LEMMA VerdictSynced ==
  ASSUME TypeInv, NEW r \in Request, req[r].pc = "sync", req[r].todo = {},
         Verdict(req[r].ok, Cardinality(company.configured)) = "SYNCED"
  PROVE  req[r].bad = 0
<1>1. req[r].ok \in Nat /\ req[r].bad \in Nat
  BY ActingOK DEF Work
<1>2. Cardinality(company.configured) = req[r].ok + req[r].bad + Cardinality({}) + 0
  BY DEF TypeInv, RequestsOK, WorkOK, Telling, All
<1>3. Cardinality({}) = 0
  BY FS_EmptySet
<1>4. req[r].ok = Cardinality(company.configured)
  BY <1>1 DEF Verdict
<1> QED
  BY <1>1, <1>2, <1>3, <1>4

\* The status tells how it went.
LEMMA FinishSync ==
  ASSUME TypeInv, SyncInv, NEW r \in Request, Finish(r) PROVE SyncInv'
<1>1. PICK c \in Row : req[r].row = c
  BY ActingOK DEF Finish
<1>2. /\ req[r] \in Work /\ req \in [Request -> Work] /\ c # None
      /\ req[r].pc = "sync" /\ req[r].todo = {}
  BY ActingOK, BeneficiaryAssumption DEF Finish, TypeInv, RequestsOK, Name
<1>3. UNCHANGED <<company, link, held>> /\ row \in [Row -> Saved \cup {Unused, Deleted}]
  BY DEF Finish, TypeInv, StoreOK
<1>4. req'[r].row = None /\ \A q \in Request \ {r} : req'[q] = req[q]
  <2>1. Goes(r, Done)
    BY DEF Finish
  <2> QED
    BY <1>2, <2>1, GoesIs, DoneIs
<1>5. loose' = IF req[r].alone THEN loose \ {c} ELSE loose
  BY <1>1 DEF Finish
<1> DEFINE verdict == Verdict(req[r].ok, Cardinality(company.configured))
<1>6. row' = IF Exists(c) THEN [row EXCEPT ![c].status = verdict] ELSE row
  BY <1>1 DEF Finish
<1>7. \A b \in Row \ {c} : row'[b] = row[b] /\ (b \in loose' <=> b \in loose)
  BY <1>3, <1>5, <1>6
<1>8. ASSUME TellsOK(c, req[r]), Synced(c)' PROVE AllTold(c)'
  <2>1. Exists(c)
    BY <1>6, <1>8 DEF Synced, Exists
  <2>2. row[c] \in Saved
    BY <2>1, ExistsSaved DEF TypeInv
  <2> HIDE DEF verdict
  <2>3. row'[c].status = verdict /\ row'[c].data = row[c].data
    BY <1>3, <1>6, <2>1, <2>2 DEF Saved
  <2>4. req[r].bad = 0
    BY <1>2, <1>8, <2>3, VerdictSynced DEF Synced, verdict
  <2>5. \A k \in company.configured : Told(c, k)
    BY <1>2, <1>8, <2>1, <2>4 DEF TellsOK, Telling
  <2> QED
    BY <1>3, <2>3, <2>5 DEF AllTold, Told
<1> QED
  BY <1>1, <1>2, <1>3, <1>4, <1>5, <1>7, <1>8, GoesSync

\* A request that dies leaves the row as SYNCED as it was, or loose.
LEMMA DieSync ==
  ASSUME TypeInv, SyncInv, NEW r \in Request, Die(r) PROVE SyncInv'
<1>1. PICK c \in Row : req[r].row = c
  BY ActingOK DEF Die
<1>2. req[r] \in Work /\ req \in [Request -> Work] /\ c # None
  BY ActingOK, BeneficiaryAssumption DEF TypeInv, RequestsOK, Name
<1>3. UNCHANGED <<company, row, link, held>>
  BY DEF Die
<1>4. req'[r].row = None /\ \A q \in Request \ {r} : req'[q] = req[q]
  <2>1. Goes(r, Done)
    BY DEF Die
  <2> QED
    BY <1>2, <2>1, GoesIs, DoneIs
<1>5. loose' = IF req[r].pc = "pending" THEN loose \cup {c} ELSE loose
  BY <1>1 DEF Die
<1>6. ASSUME StatusOK(c, req[r]), c \notin loose', Synced(c)' PROVE AllTold(c)'
  <2>1. c \notin loose /\ req[r].pc # "pending" /\ Synced(c)
    BY <1>3, <1>5, <1>6 DEF Synced, Exists
  <2>2. AllTold(c)
    BY <1>6, <2>1 DEF StatusOK
  <2> QED
    BY <1>3, <2>2 DEF AllTold, Told
<1>7. \A b \in Row \ {c} : b \in loose' <=> b \in loose
  BY <1>5
<1> QED
  BY <1>1, <1>2, <1>3, <1>4, <1>5, <1>6, <1>7, GoesSync

\* What the acceptance does to who is alone.
LEMMA AcceptedAlone ==
  ASSUME TypeInv, NEW r \in Request, NEW answered \in BOOLEAN, Accepted(r, answered)
  PROVE  /\ req'[r].alone <=> req[r].alone
         /\ answered => req'[r].todo = req[r].todo /\ req'[r].bad = req[r].bad /\ req'[r].copy = req[r].copy
         /\ \A q \in Request \ {r} :
              req'[q].alone <=> (req[q].alone /\ req[q].row \notin Sharing(req[r].at, AcceptedId(r)) \ {req[r].row})
<1> DEFINE u == AcceptedWork(r, answered)
           S == Sharing(req[r].at, AcceptedId(r)) \ {req[r].row}
<1>1. u \in Work /\ Moves(r, u) /\ req[r] \in Work /\ req \in [Request -> Work]
  BY AcceptedFacts DEF TypeInv, RequestsOK
<1>2. Disturb([req EXCEPT ![r] = u], S)
  BY DEF Accepted, AcceptedWork, AcceptedId
<1>3. u.row = req[r].row /\ u.alone = req[r].alone
  <2>1. CASE answered
    BY <1>1, <2>1 DEF AcceptedWork, Work
  <2>2. CASE ~answered
    BY <1>1, <2>2, CountedFails DEF AcceptedWork
  <2> QED
    BY <2>1, <2>2
<1>4. answered => u.todo = req[r].todo /\ u.bad = req[r].bad /\ u.copy = req[r].copy
  BY <1>1 DEF AcceptedWork, Work
<1> HIDE DEF u
<1>5. \A q \in Request : IF q = r THEN [req EXCEPT ![r] = u][q] = u ELSE [req EXCEPT ![r] = u][q] = req[q]
  BY <1>1
<1> DEFINE f == [req EXCEPT ![r] = u]
<1>6. f \in [Request -> Work] /\ f[r] = u /\ \A q \in Request \ {r} : f[q] = req[q]
  BY <1>1, <1>5
<1> HIDE DEF f
<1>7. req' = [q \in Request |-> [f[q] EXCEPT !.alone = @ /\ f[q].row \notin S]]
  BY <1>2 DEF Disturb, f
<1>8. \A q \in Request : req'[q].alone <=> (f[q].alone /\ f[q].row \notin S)
  <2>1. ASSUME NEW q \in Request PROVE req'[q].alone = (f[q].alone /\ f[q].row \notin S)
    <3>1. f[q] \in Work
      BY <1>6
    <3> QED
      BY <1>7, <3>1 DEF Work
  <2> QED
    BY <2>1
<1>9. req'[r].alone <=> req[r].alone
  BY <1>3, <1>6, <1>8
<1>10. \A q \in Request \ {r} : req'[q].alone <=> (req[q].alone /\ req[q].row \notin S)
  BY <1>6, <1>8
<1>11. answered => req'[r].todo = req[r].todo /\ req'[r].bad = req[r].bad /\ req'[r].copy = req[r].copy
  BY <1>1, <1>4 DEF Moves, Same
<1> QED
  BY <1>9, <1>10, <1>11

\* The broker holds what the row says, under an identifier of the row's link or a
\* new one; a row that shares the payee is loose, and its requests no more alone.
LEMMA AcceptedSync ==
  ASSUME TypeInv, OwnRowOnly, SyncInv, NEW r \in Request, NEW answered \in BOOLEAN,
         Accepted(r, answered)
  PROVE  SyncInv'
<1> DEFINE id == AcceptedId(r)
           k == req[r].at
           u == AcceptedWork(r, answered)
<1>1. PICK c \in Row : req[r].row = c
  BY AcceptedFacts
<1>2. /\ req[r] \in Work /\ req[r].pc = "call" /\ k \in Broker /\ id \in Name
      /\ req[r].id = None => id \in Id /\ held[k][id] = None
      /\ u \in Work /\ Moves(r, u)
      /\ held' = [held EXCEPT ![k][id] =
                   [of |-> IF held[k][id] = None THEN c ELSE held[k][id].of,
                    data |-> req[r].copy.data]]
      /\ loose' = loose \cup (Sharing(k, id) \ {c})
      /\ UNCHANGED <<company, row, link>>
  BY <1>1, AcceptedFacts
<1>3. /\ req'[r].alone <=> req[r].alone
      /\ answered => req'[r].todo = req[r].todo /\ req'[r].bad = req[r].bad /\ req'[r].copy = req[r].copy
      /\ \A q \in Request \ {r} :
           req'[q].alone <=> (req[q].alone /\ req[q].row \notin Sharing(k, id) \ {c})
  BY <1>1, AcceptedAlone
<1>4. req'[r].row = c /\ \A q \in Request \ {r} : Same(req'[q], req[q])
  <2>1. u.row = c
    BY <1>1, <1>2, CountedIs DEF AcceptedWork, Work
  <2> QED
    BY <1>2, <2>1 DEF Moves, Same
<1>5. held \in [Broker -> [Name -> Payee \cup {None}]]
  BY DEF TypeInv, StoreOK
<1>6. \A k2 \in Broker, id2 \in Name : (k2 # k \/ id2 # id) => held'[k2][id2] = held[k2][id2]
  BY <1>2, <1>5
<1>7. ASSUME NEW b \in Row \ {c} PROVE Crowd(b)' \/ Aside(b)
  <2>1. CASE b \in Sharing(k, id)
    <3>1. b \in loose'
      BY <1>2, <2>1
    <3>2. ASSUME NEW q \in Request, req'[q].row = b PROVE ~req'[q].alone
      <4>1. q # r /\ req[q].row = b
        BY <1>4, <3>2 DEF Same
      <4> QED
        BY <1>3, <2>1, <4>1
    <3> QED
      BY <3>1, <3>2 DEF Crowd
  <2>2. CASE b \notin Sharing(k, id)
    <3>1. \A k2 \in Broker, id2 \in Name : held'[k2][id2] = held[k2][id2] \/ b \notin Sharing(k2, id2)
      BY <1>6, <2>2
    <3>2. b \in loose' <=> b \in loose
      BY <1>2, <2>2
    <3>3. ASSUME NEW q \in Request, req[q].row = b \/ req'[q].row = b
          PROVE  Same(req'[q], req[q]) /\ (req'[q].alone <=> req[q].alone)
      <4>1. q # r /\ req[q].row = b
        BY <1>1, <1>4, <3>3 DEF Same
      <4> QED
        BY <1>3, <1>4, <2>2, <4>1
    <3> QED
      BY <1>2, <3>1, <3>2, <3>3 DEF Aside
  <2> QED
    BY <2>1, <2>2
<1>8. c \in loose' <=> c \in loose
  BY <1>2
<1>9. ASSUME StatusOK(c, req[r]) PROVE StatusOK(c, req[r])'
  <2>1. (c \notin loose)' => ~Synced(c)'
    BY <1>2, <1>8, <1>9, NotSynced DEF Synced, Exists
  <2> QED
    BY <2>1 DEF StatusOK
<1>10. ASSUME TellsOK(c, req[r]) PROVE TellsOK(c, req[r])'
  <2>1. CASE ~answered
    <3>1. u.pc = "sync" /\ u.bad # 0 /\ u.copy = req[r].copy
      BY <1>2, <2>1, CountedFails DEF AcceptedWork
    <3>2. req'[r].pc = "sync" /\ req'[r].bad # 0 /\ req'[r].copy = req[r].copy
      BY <1>2, <3>1 DEF Moves, Same
    <3> QED
      BY <1>2, <1>10, <3>2 DEF TellsOK, Telling, Exists
  <2>2. CASE answered
    <3>1. u.pc = "link" /\ u.at = k /\ u.id = id
      BY <1>2, <2>2 DEF AcceptedWork, Work
    <3>2. req'[r].pc = "link" /\ req'[r].at = k /\ req'[r].id = id
      BY <1>2, <3>1 DEF Moves, Same
    <3>3. ASSUME Exists(c)
          PROVE  /\ row[c].data = req[r].copy.data
                 /\ req[r].bad = 0 => \A k2 \in company.configured \ req[r].todo : k2 = k \/ Told(c, k2)
                 /\ IF k = CORPAY THEN req[r].id = c ELSE req[r].id \in {None, link[c][k]}
      BY <1>2, <1>10, <3>3 DEF TellsOK, Telling
    <3>4. company.configured \subseteq Broker
      BY BeneficiaryAssumption DEF TypeInv, StoreOK
    <3>5. \A k2 \in Broker \ {k} : Told(c, k2) => Told(c, k2)'
      <4>1. ASSUME NEW k2 \in Broker \ {k}, Told(c, k2) PROVE Told(c, k2)'
        <5>1. link[c][k2] \in Name
          BY <4>1 DEF Told, TypeInv, StoreOK
        <5> QED
          BY <1>2, <1>6, <4>1, <5>1 DEF Told
      <4> QED
        BY <4>1
    <3>6. /\ held'[k][id] = [of |-> IF held[k][id] = None THEN c ELSE held[k][id].of,
                             data |-> req[r].copy.data]
      BY <1>2, <1>5
    <3>7. req[r].copy.data \in Data /\ (held[k][id] # None => held[k][id].of \in Row \cup {None})
      BY <1>2, <1>5 DEF Work, Saved, Payee
    <3>8. held'[k][id] \in Payee
      BY <3>6, <3>7 DEF Payee
    <3>9. held'[k][id] # None /\ held'[k][id].data = req[r].copy.data
      BY <3>6, <3>8, BeneficiaryAssumption
    <3>10. ASSUME Exists(c) PROVE held'[k][id].of = c \/ link[c][k] = id
      <4>1. CASE held[k][id] = None
        BY <3>6, <4>1
      <4>2. CASE held[k][id] # None
        <5>1. req[r].id # None /\ id = req[r].id
          BY <1>2, <4>2 DEF AcceptedId
        <5>2. CASE k = CORPAY
          <6>1. id = c /\ held[k][c].of = c
            BY <1>2, <3>3, <3>10, <4>2, <5>1, <5>2 DEF OwnRowOnly
          <6> QED
            BY <3>6, <4>2, <6>1
        <5>3. CASE k # CORPAY
          BY <3>3, <3>10, <5>1, <5>3
        <5> QED
          BY <5>2, <5>3
      <4> QED
        BY <4>1, <4>2
    <3> HIDE DEF id, k, u
    <3>11. PICK k2, id2 : k2 = k /\ id2 = id
      OBVIOUS
    <3>12. ASSUME Exists(c)' PROVE Exists(c)
      BY <1>2, <3>12 DEF Exists
    <3>13. ASSUME Exists(c)', req'[r].bad = 0, NEW k3 \in company'.configured \ req'[r].todo, k3 # k2
           PROVE  Told(c, k3)'
      BY <1>2, <1>3, <2>2, <3>3, <3>4, <3>5, <3>11, <3>12, <3>13
    <3> QED
      BY <1>2, <1>3, <2>2, <3>2, <3>3, <3>9, <3>10, <3>11, <3>12, <3>13 DEF TellsOK
  <2> QED
    BY <2>1, <2>2
<1> HIDE DEF id, k, u
<1>11. \A q \in Request \ {r} : /\ req'[q].row = req[q].row
                                /\ req[q].row = c => (req'[q].alone <=> req[q].alone)
  BY <1>3, <1>4 DEF Same
<1> QED
  BY <1>1, <1>2, <1>3, <1>4, <1>7, <1>8, <1>9, <1>10, <1>11, StepSync

\* A request begins by itself at a row that is as SYNCED as it will be, or the row
\* is crowded.
LEMMA BeginSync ==
  ASSUME TypeInv, SyncInv, NEW r \in Request, NEW b \in Row, NEW s \in Work,
         Begin(r, b, s), s.alone, s.pc \in {"activate", "update"},
         s.pc = "activate" => ~Synced(b),
         UNCHANGED <<company, row, link, held>>
  PROVE  SyncInv'
<1>1. req[r].row = None /\ None \notin Row /\ req \in [Request -> Work]
  BY BeneficiaryAssumption DEF Begin, TypeInv, RequestsOK, WorkOK, Name
<1> DEFINE new == [s EXCEPT !.row = b]
           begun == [req EXCEPT ![r] = new]
<1>2. new \in Work /\ new.row = b /\ new.alone = s.alone /\ new.pc = s.pc
  BY DEF Work
<1> HIDE DEF new
<1>3. begun \in [Request -> Work] /\ begun[r] = new /\ \A q \in Request \ {r} : begun[q] = req[q]
  BY <1>1, <1>2
<1> HIDE DEF begun
<1>4. CASE Working(b) = {}
  <2>1. req' = begun /\ loose' = loose
    BY <1>4 DEF Begin, begun, new
  <2>2. ASSUME NEW c \in Row \ {b} PROVE Aside(c)
    BY <1>1, <1>2, <1>3, <2>1 DEF Aside, Same
  <2>3. Lone(b, r)'
    BY <1>2, <1>3, <1>4, <2>1 DEF Lone, Working
  <2>4. b \notin loose /\ Synced(b) => AllTold(b)
    BY <1>4 DEF SyncInv, RowOK, Crowd, Lone, Working
  <2>5. StatusOK(b, req[r])'
    <3>1. req'[r].pc = s.pc
      BY <1>2, <1>3, <2>1
    <3>2. (Synced(b)' <=> Synced(b)) /\ (AllTold(b) => AllTold(b)')
      BY DEF Synced, Exists, AllTold, Told
    <3> QED
      BY <2>1, <2>4, <3>1, <3>2 DEF StatusOK
  <2>6. TellsOK(b, req[r])'
    BY <1>2, <1>3, <2>1 DEF TellsOK, Telling
  <2>7. RowOK(b)'
    BY <2>3, <2>5, <2>6 DEF RowOK
  <2> QED
    BY <2>2, <2>7, AsideSync
<1>5. CASE Working(b) # {}
  <2>1. Disturb(begun, {b})
    BY <1>5 DEF Begin, begun, new
  <2>2. req' = [q \in Request |-> [begun[q] EXCEPT !.alone = @ /\ begun[q].row \notin {b}]]
        /\ loose' = loose \cup {b}
    BY <2>1 DEF Disturb
  <2>3. ASSUME NEW q \in Request
        PROVE  Same(req'[q], begun[q]) /\ (req'[q].alone <=> (begun[q].alone /\ begun[q].row # b))
    <3>1. begun[q] \in Work
      BY <1>3
    <3>2. Same(req'[q], begun[q])
      BY <1>3, <2>1, DisturbMoves
    <3>3. req'[q].alone = (begun[q].alone /\ begun[q].row \notin {b})
      BY <2>2, <3>1 DEF Work
    <3> QED
      BY <3>2, <3>3
  <2>4. Crowd(b)'
    BY <2>2, <2>3 DEF Crowd, Same
  <2>5. ASSUME NEW c \in Row \ {b} PROVE Aside(c)
    <3>1. \A q \in Request : req[q].row = c \/ req'[q].row = c =>
            q # r /\ begun[q] = req[q] /\ req[q].row # b
      BY <1>1, <1>2, <1>3, <2>3 DEF Same
    <3>2. \A q \in Request : req[q].row = c \/ req'[q].row = c =>
            Same(req'[q], req[q]) /\ (req'[q].alone <=> req[q].alone)
      BY <2>3, <3>1
    <3> QED
      BY <2>2, <3>2 DEF Aside
  <2>6. RowOK(b)'
    BY <2>4 DEF RowOK
  <2> QED
    BY <2>5, <2>6, AsideSync
<1> QED
  BY <1>4, <1>5

\* An import disturbs who is at work on the row it writes over, and the row is
\* loose.
LEMMA ImportSaveSync ==
  ASSUME TypeInv, LinkedExist, SyncInv, ImportSave PROVE SyncInv'
<1>1. PICK b \in Row, ext \in Name \cup {None}, linking \in BOOLEAN : Import(b, ext, linking)
  BY ImportTakes DEF TypeInv
<1>2. UNCHANGED <<company, held>> /\ imp \in Imports /\ req \in [Request -> Work]
  BY ImportTakes DEF TypeInv, RequestsOK
<1>3. Disturb(req, {b})
  BY <1>1 DEF Import
<1>4. req' = [q \in Request |-> [req[q] EXCEPT !.alone = @ /\ req[q].row \notin {b}]]
      /\ loose' = loose \cup {b}
  BY <1>3 DEF Disturb
<1>5. ASSUME NEW q \in Request
      PROVE  Same(req'[q], req[q]) /\ (req'[q].alone <=> (req[q].alone /\ req[q].row # b))
  <2>1. req[q] \in Work
    BY <1>2
  <2>2. Same(req'[q], req[q])
    BY <1>2, <1>3, DisturbMoves
  <2>3. req'[q].alone = (req[q].alone /\ req[q].row \notin {b})
    BY <1>4, <2>1 DEF Work
  <2> QED
    BY <2>2, <2>3
<1>6. Crowd(b)'
  BY <1>4, <1>5 DEF Crowd, Same
<1>7. \A c \in Row \ {b} : row'[c] = row[c] /\ link'[c] = link[c]
  BY <1>1 DEF Import, TypeInv, StoreOK
<1>8. ASSUME NEW c \in Row \ {b} PROVE Aside(c)
  <2>1. c \in loose' <=> c \in loose
    BY <1>4
  <2>2. \A q \in Request : req[q].row = c \/ req'[q].row = c =>
          Same(req'[q], req[q]) /\ (req'[q].alone <=> req[q].alone)
    BY <1>5 DEF Same
  <2> QED
    BY <1>2, <1>7, <2>1, <2>2 DEF Aside
<1>9. RowOK(b)'
  BY <1>6 DEF RowOK
<1> QED
  BY <1>2, <1>8, <1>9, AsideSync

\* Every step keeps the rows as they should be.
LEMMA NextSync ==
  ASSUME TypeInv, LinkedExist, OwnRowOnly, SyncInv, Next PROVE SyncInv'
<1>1. ASSUME NEW b \in Row, Create(b) PROVE SyncInv'
  <2>1. UNCHANGED <<company, link, held, req, loose>> /\ row' = [row EXCEPT ![b] = NoCopy]
        /\ row[b] = Unused /\ row \in [Row -> Saved \cup {Unused, Deleted}]
    BY <1>1 DEF Create, TypeInv, StoreOK
  <2>2. ASSUME NEW c \in Row \ {b} PROVE Aside(c)
    BY <2>1 DEF Aside, Same
  <2>3. RowOK(b)'
    <3>1. Idle(b)
      <4>1. b # None
        BY BeneficiaryAssumption DEF Name
      <4> QED
        BY <2>1, <4>1 DEF TypeInv, RequestsOK, WorkOK, Idle
    <3>2. Idle(b)'
      BY <2>1, <3>1 DEF Idle
    <3>3. ~Synced(b)'
      BY <2>1, CopyTyped DEF Synced
    <3> QED
      BY <3>2, <3>3 DEF RowOK
  <2> QED
    BY <2>1, <2>2, <2>3, AsideSync
<1>2. ASSUME NEW b \in Row, Destroy(b) PROVE SyncInv'
  <2>1. UNCHANGED <<company, held, req, loose>> /\ row' = [row EXCEPT ![b] = Deleted]
        /\ link' = [link EXCEPT ![b] = [k \in Broker |-> None]]
        /\ row \in [Row -> Saved \cup {Unused, Deleted}]
        /\ link \in [Row -> [Broker -> Name \cup {None, Blank}]]
    BY <1>2 DEF Destroy, TypeInv, StoreOK
  <2>2. ASSUME NEW c \in Row \ {b} PROVE Aside(c)
    BY <2>1 DEF Aside, Same
  <2>3. ~Exists(b)'
    BY <2>1 DEF Exists
  <2>4. ~Synced(b)'
    BY <2>3 DEF Synced
  <2>5. ASSUME Crowd(b) PROVE RowOK(b)'
    BY <2>1, <2>5 DEF RowOK, Crowd
  <2>6. ASSUME Idle(b) PROVE RowOK(b)'
    <3>1. Idle(b)'
      BY <2>1, <2>6 DEF Idle
    <3> QED
      BY <2>4, <3>1 DEF RowOK
  <2>7. ASSUME NEW r \in Request, Lone(b, r) PROVE RowOK(b)'
    <3>1. Lone(b, r)'
      BY <2>1, <2>7 DEF Lone
    <3>2. StatusOK(b, req[r])' /\ TellsOK(b, req[r])'
      BY <2>3, <2>4 DEF StatusOK, TellsOK
    <3> QED
      BY <3>1, <3>2 DEF RowOK
  <2>8. RowOK(b)'
    BY <2>5, <2>6, <2>7 DEF SyncInv, RowOK
  <2> QED
    BY <2>1, <2>2, <2>8, AsideSync
<1>3. ASSUME NEW r \in Request, NEW b \in Row, ActivateRead(r, b) PROVE SyncInv'
  <2> DEFINE s == [Fresh EXCEPT !.pc = "activate"]
  <2>1. s \in Work
    BY CopyTyped DEF Work, Step
  <2>2. s.alone /\ s.pc = "activate"
    BY DEF Fresh
  <2>3. Begin(r, b, s) /\ ~Synced(b) /\ UNCHANGED <<company, row, link, held>>
    BY <1>3 DEF ActivateRead, Synced
  <2> HIDE DEF s
  <2> QED
    BY <2>1, <2>2, <2>3, BeginSync
<1>4. ASSUME NEW r \in Request, NEW b \in Row, NEW d \in Data, UpdateRead(r, b, d) PROVE SyncInv'
  <2> DEFINE copy == [row[b] EXCEPT !.data = d]
             s == [Fresh EXCEPT !.pc = "update", !.copy = copy]
  <2>1. row[b] \in Saved
    BY <1>4, ExistsSaved DEF UpdateRead, TypeInv
  <2>2. copy \in Saved
    BY <2>1 DEF Saved
  <2>3. s \in Work
    BY <2>2, CopyTyped DEF Work, Step
  <2>4. s.alone /\ s.pc = "update"
    BY DEF Fresh
  <2>5. Begin(r, b, s) /\ UNCHANGED <<company, row, link, held>>
    BY <1>4 DEF UpdateRead
  <2> HIDE DEF s
  <2> QED
    BY <2>3, <2>4, <2>5, BeginSync
<1>5. ASSUME NEW r \in Request, Advance(r) PROVE SyncInv'
  BY <1>5, ActivateSaveSync, UpdateSaveSync, UpdatePendingSync, LoadSync, TryServiceSync,
     RefusedSync, AcceptedSync, LinkFindSync, LinkSaveSync, FinishSync DEF Advance
<1>6. ASSUME NEW r \in Request, Die(r) PROVE SyncInv'
  BY <1>6, DieSync
<1>7. ASSUME UNCHANGED <<company, row, link, held, req, loose>> PROVE SyncInv'
  BY <1>7, AsideSync DEF Aside, Same
<1>8. ASSUME NEW k \in Broker, NEW id \in Name, ImportView(k, id) PROVE SyncInv'
  BY <1>7, <1>8 DEF ImportView
<1>9. CASE ImportGivesUp
  BY <1>7, <1>9 DEF ImportGivesUp
<1> QED
  BY <1>1, <1>2, <1>3, <1>4, <1>5, <1>6, <1>8, <1>9, ImportSaveSync DEF Next

\* SYNCED is never a word too much: at a row that nobody is at work on, and that
\* no import, overlap, half update or second row has touched since a request last
\* had it to itself, every configured broker holds under the row's link what the
\* row says.  Requests may die between any two saves, lose answers, find their
\* row deleted or a link half made.
THEOREM BeneficiarySyncedTold == Spec => []SyncedTold
<1> DEFINE Inv == TypeInv /\ LinkedExist /\ Owns /\ SyncInv
<1>1. Init => Inv
  <2>1. ASSUME Init, NEW b \in Row PROVE RowOK(b)
    <3>1. Idle(b) /\ ~Synced(b)
      <4>1. b # None
        BY BeneficiaryAssumption DEF Name
      <4> QED
        BY <2>1, <4>1 DEF Init, Idle, Fresh, Synced, Exists
    <3> QED
      BY <3>1 DEF RowOK
  <2> QED
    BY <2>1, InitTyped, InitOwns DEF SyncInv
<1>2. Inv /\ [Next]_vars => Inv'
  <2>1. ASSUME Inv, UNCHANGED vars PROVE Inv'
    <3>1. (TypeInv /\ LinkedExist)'
      BY <2>1 DEF vars, TypeInv, StoreOK, RequestsOK, WorkOK, All, LinkedExist, Exists
    <3>2. Rest /\ ImportHeld' /\ RowsExt /\ LinksSet /\ held' = held
      BY <2>1, RowsExtSame, LinksSame DEF vars, TypeInv, RequestsOK, Rest, Same, Owns, ImportHeld
    <3>3. Owns'
      BY <2>1, <3>2, OwnsRest
    <3>4. company' = company /\ \A b \in Row : Aside(b)
      BY <2>1 DEF vars, Aside, Same
    <3> QED
      BY <2>1, <3>1, <3>3, <3>4, AsideSync
  <2>2. ASSUME Inv, Next PROVE Inv'
    <3>1. OwnRowOnly
      BY <2>2 DEF Owns
    <3> QED
      BY <2>2, <3>1, NextTyped, NextLinked, NextOwns, NextSync
  <2> QED
    BY <2>1, <2>2
<1>3. Inv => SyncedTold
  BY SyncInvTold
<1> QED
  BY <1>1, <1>2, <1>3, PTL DEF Spec
=============================================================================

----------------------------- MODULE Beneficiary -----------------------------
(***************************************************************************)
(* The beneficiaries of one company in one currency, kept in the system's  *)
(* own table and at its brokers.  A user creates, activates, updates and   *)
(* deletes them; an activation or an update tells every broker configured  *)
(* for the currency, one after the other, and records in the status how    *)
(* many took it.  A background import does the reverse: it writes what a   *)
(* broker holds over the rows, and makes rows for what it does not know.   *)
(*                                                                         *)
(* Each web request is a process of its own, and nothing is locked: it     *)
(* loads a row, saves the whole of it, calls a broker and saves the        *)
(* broker's identifier (a BeneficiaryBroker, here a link), each by itself. *)
(* What a beneficiary says (names, accounts, addresses) is one value; its  *)
(* alias, the validation of its fields and their translation into a        *)
(* broker's words are left out.                                            *)
(***************************************************************************)
EXTENDS Integers, FiniteSets

CONSTANTS
  Request,              \* requests of the user to activate or change a row
  Row,                  \* primary keys of beneficiaries
  Data,                 \* what a beneficiary may say
  Id,                   \* identifiers that brokers give out
  CORPAY, NIUM, MONEX,  \* the brokers
  Companies,            \* companies, as below
  Unused, Deleted,      \* rows that are not there: not yet, or no more
  None,                 \* no identifier, no broker
  Blank,                \* the identifier in a link that has just been made
  MaxHitches,           \* bound: deaths, lost answers, deletions, overlaps
  MaxViews              \* bound: payees imported

Broker == {CORPAY, NIUM, MONEX}
\* Corpay files a payee under the beneficiary_id the system sends along
Name == Row \cup Id

VARIABLES
  company,  \* the brokers configured for the currency, those the import asks, and
            \* the payees set up at these past the system
  row,      \* the table: status, what it says, external_id
  link,     \* the identifier of a row at a broker
  held,     \* what the brokers hold: what it says, and the row it was made for
  req,      \* the requests at work
  imp,      \* the import
  views,    \* payees it has asked for
  hitches,  \* deaths, lost answers, deletions and overlaps about a row
  loose,    \* rows changed by an import, an overlap, half an update or a second row
  killed    \* rows whose last request did not come to its end

vars == <<company, row, link, held, req, imp, views, hitches, loose, killed>>

Status == {"DRAFT", "PENDING", "SYNCED", "PARTIALLY_SYNCED"}
Saved == [status : Status, data : Data, ext : Name \cup {None}]
Payee == [of : Row \cup {None}, data : Data]
Step == {"new", "done", "activate", "update", "pending", "load", "sync", "call", "link", "fill"}
Work == [pc : Step, row : Row \cup {None}, copy : Saved, todo : SUBSET Broker,
         ok : Nat, bad : Nat, at : Broker \cup {None}, id : Name \cup {None}, alone : BOOLEAN]

ASSUME BeneficiaryAssumption ==
  /\ Companies \subseteq [configured : SUBSET Broker, enabled : SUBSET Broker,
                          outside : SUBSET Id]
  /\ Row \cap Id = {} /\ Data # {}
  /\ {None, Blank} \cap (Name \cup Broker \cup Payee) = {}
  /\ {Unused, Deleted} \cap Saved = {} /\ Unused # Deleted
  /\ MaxHitches \in Nat /\ MaxViews \in Nat

NoCopy == [status |-> "DRAFT", data |-> CHOOSE d \in Data : TRUE, ext |-> None]
Fresh == [pc |-> "new", row |-> None, copy |-> NoCopy, todo |-> {}, ok |-> 0, bad |-> 0,
          at |-> None, id |-> None, alone |-> TRUE]
Done == [Fresh EXCEPT !.pc = "done"]
NoImport == [at |-> None, id |-> None, data |-> None]

Exists(b) == row[b] \notin {Unused, Deleted}
Working(b) == {r \in Request : req[r].row = b}

\* Faulty variant: the link is looked up by the identifier alone.
LinkedAnywhere(k, id) == {b \in Row : \E k2 \in Broker : link[b][k2] = id}

Linked(k, id) == {b \in Row : link[b][k] = id}

Known(id) == {b \in Row : Exists(b) /\ row[b].ext = id}
\* The rows that stand for a payee: two, if an import met it before its row was
\* linked to it
Sharing(k, id) ==
  Linked(k, id) \cup (IF held[k][id] = None THEN {} ELSE {held[k][id].of} \ {None})
NewId(k) == CHOOSE id \in Id : held[k][id] = None

Init ==
  /\ company \in Companies
  /\ row = [b \in Row |-> Unused]
  /\ link = [b \in Row |-> [k \in Broker |-> None]]
  /\ held = [k \in Broker |-> [id \in Name |->
               IF k \in company.enabled /\ id \in company.outside
                 THEN [of |-> None, data |-> NoCopy.data] ELSE None]]
  /\ req = [r \in Request |-> Fresh]
  /\ imp = NoImport /\ views = 0
  /\ hitches = [b \in Row |-> 0]
  /\ loose = {} /\ killed = {}

-----------------------------------------------------------------------------
(* Bookkeeping of the specification, no state of the program: what happened
   to a row that excuses a second payee, or a status that is out of date.   *)

Hitch(b) ==
  /\ hitches[b] < MaxHitches
  /\ hitches' = [hitches EXCEPT ![b] = @ + 1]

\* Something happened to rows S behind the back of whoever is at work on them
Disturb(requests, S) ==
  /\ req' = [r \in Request |-> [requests[r] EXCEPT !.alone = @ /\ requests[r].row \notin S]]
  /\ loose' = loose \cup S

\* req[r] becomes s
Goes(r, s) == req' = [req EXCEPT ![r] = s]

\* A request about row b begins; another one at work makes it an overlap
Begin(r, b, s) ==
  /\ req[r].pc = "new"
  /\ LET begun == [req EXCEPT ![r] = [s EXCEPT !.row = b]] IN
     IF Working(b) = {}
       THEN req' = begun /\ UNCHANGED <<hitches, loose>>
       ELSE Hitch(b) /\ Disturb(begun, {b})

-----------------------------------------------------------------------------
(* Requests of the user.                                                    *)

\* POST: the serializer saves a new row; no broker is told
Create(b) ==
  /\ row[b] = Unused
  /\ row' = [row EXCEPT ![b] = NoCopy]
  /\ UNCHANGED <<company, link, held, req, imp, views, hitches, loose, killed>>

\* DELETE: the row goes, its links with it; the brokers are not told
Destroy(b) ==
  /\ Exists(b)
  /\ Hitch(b)
  /\ row' = [row EXCEPT ![b] = Deleted]
  /\ link' = [link EXCEPT ![b] = [k \in Broker |-> None]]
  /\ UNCHANGED <<company, held, req, imp, views, loose, killed>>

\* activate: the status is read, and PENDING saved by itself
ActivateRead(r, b) ==
  /\ Exists(b)
  /\ row[b].status = "DRAFT"
  /\ Begin(r, b, [Fresh EXCEPT !.pc = "activate"])
  /\ UNCHANGED <<company, row, link, held, imp, views, killed>>

ActivateSave(r) ==
  LET b == req[r].row IN
  /\ req[r].pc = "activate"
  /\ IF Exists(b)
       THEN /\ row' = [row EXCEPT ![b].status = "PENDING"]
            /\ Goes(r, [req[r] EXCEPT !.pc = "load"])
       ELSE Goes(r, Done) /\ UNCHANGED row
  /\ UNCHANGED <<company, link, held, imp, views, hitches, loose, killed>>

\* PUT, PATCH: the row is read,
UpdateRead(r, b, d) ==
  /\ Exists(b)
  /\ Begin(r, b, [Fresh EXCEPT !.pc = "update", !.copy = [row[b] EXCEPT !.data = d]])
  /\ UNCHANGED <<company, row, link, held, imp, views, killed>>

\* saved whole with what the user says (inserted again if it is gone),
UpdateSave(r) ==
  /\ req[r].pc = "update"
  /\ row' = [row EXCEPT ![req[r].row] = req[r].copy]
  /\ Goes(r, [req[r] EXCEPT !.pc = "pending"])
  /\ UNCHANGED <<company, link, held, imp, views, hitches, loose, killed>>

\* and saved whole once more, PENDING
UpdatePending(r) ==
  /\ req[r].pc = "pending"
  /\ row' = [row EXCEPT ![req[r].row] = [req[r].copy EXCEPT !.status = "PENDING"]]
  /\ Goes(r, [req[r] EXCEPT !.pc = "load"])
  /\ UNCHANGED <<company, link, held, imp, views, hitches, loose, killed>>

-----------------------------------------------------------------------------
(* sync_beneficiary_to_brokers.                                             *)

\* The row is read again and the services are made
Load(r) ==
  LET b == req[r].row IN
  /\ req[r].pc = "load"
  /\ Goes(r, IF Exists(b)
               THEN [req[r] EXCEPT !.pc = "sync", !.todo = company.configured,
                                   !.copy = [NoCopy EXCEPT !.data = row[b].data]]
               ELSE Done)
  /\ UNCHANGED <<company, row, link, held, imp, views, hitches, loose, killed>>

\* Faulty variant: a service that fails before its broker is called is not counted.
CountedUnlessEarly(s, ok) ==
  [s EXCEPT !.pc = "sync", !.at = None, !.id = None, !.ok = IF ok THEN @ + 1 ELSE @,
            !.bad = IF ok \/ s.at = None THEN @ ELSE @ + 1]

\* The request as it goes on to the next service
Counted(s, ok) ==
  [s EXCEPT !.pc = "sync", !.at = None, !.id = None,
            !.ok = IF ok THEN @ + 1 ELSE @, !.bad = IF ok THEN @ ELSE @ + 1]

\* Faulty variant: every row is new to a broker that is not told the identifier.
AddressedNew(b, k) == IF k = CORPAY THEN b ELSE None

\* Under which identifier broker k is told: Corpay's is the row's own, and a
\* row whose link names nothing is new to the others
Addressed(b, k) ==
  IF k = CORPAY THEN b ELSE IF link[b][k] = Blank THEN None ELSE link[b][k]

\* The next service looks whether the row has a link.  An update at Nium looks
\* for the link by a column it does not have, and always fails.
TryService(r, k) ==
  LET b == req[r].row
      s == [req[r] EXCEPT !.todo = @ \ {k}]
  IN
  /\ req[r].pc = "sync"
  /\ k \in req[r].todo
  /\ Goes(r, IF k = NIUM /\ link[b][k] # None
               THEN Counted(s, FALSE)
               ELSE [s EXCEPT !.pc = "call", !.at = k, !.id = Addressed(b, k)])
  /\ UNCHANGED <<company, row, link, held, imp, views, hitches, loose, killed>>

\* The broker, or the service before it gets there, refuses
Refused(r) ==
  /\ req[r].pc = "call"
  /\ Goes(r, Counted(req[r], FALSE))
  /\ UNCHANGED <<company, row, link, held, imp, views, hitches, loose, killed>>

\* The broker takes it: as a new payee, or over the one it holds.  The answer
\* brings the identifier, or is lost and counts as a failure.
Accepted(r, answered) ==
  LET s == req[r]
      k == s.at
      id == IF s.id = None THEN NewId(k) ELSE s.id
      old == held[k][id]
  IN
  /\ s.pc = "call"
  /\ s.id = None => \E free \in Id : held[k][free] = None
  /\ held' = [held EXCEPT ![k][id] =
                [of |-> IF old = None THEN s.row ELSE old.of, data |-> s.copy.data]]
  /\ Disturb([req EXCEPT ![r] = IF answered THEN [s EXCEPT !.pc = "link", !.id = id]
                                           ELSE Counted(s, FALSE)],
             Sharing(k, id) \ {s.row})
  /\ IF answered THEN UNCHANGED hitches ELSE Hitch(s.row)
  /\ UNCHANGED <<company, row, link, imp, views, killed>>

\* update_bene_broker: the link is looked for, or made, and then saved with the
\* identifier.  A row that is gone can have no link, and the attempt counts as a
\* failure.
LinkFind(r) ==
  LET s == req[r] IN
  /\ s.pc = "link"
  /\ link' = IF Exists(s.row) /\ link[s.row][s.at] = None
               THEN [link EXCEPT ![s.row][s.at] = Blank] ELSE link
  /\ Goes(r, IF Exists(s.row) THEN [s EXCEPT !.pc = "fill"] ELSE Counted(s, FALSE))
  /\ UNCHANGED <<company, row, held, imp, views, hitches, loose, killed>>

LinkSave(r) ==
  LET s == req[r] IN
  /\ s.pc = "fill"
  /\ link' = IF Exists(s.row) THEN [link EXCEPT ![s.row][s.at] = s.id] ELSE link
  /\ Goes(r, Counted(s, Exists(s.row)))
  /\ UNCHANGED <<company, row, held, imp, views, hitches, loose, killed>>

\* Faulty variants of Verdict: one broker that took it is enough, ...
VerdictAny(ok, all) == IF ok = 0 THEN "DRAFT" ELSE "SYNCED"

\* ... what no broker took is left to be tried again.
VerdictNone(ok, all) ==
  IF ok = 0 THEN "PENDING" ELSE IF ok = all THEN "SYNCED" ELSE "PARTIALLY_SYNCED"

\* The status after ok services of all took it
Verdict(ok, all) ==
  CASE ok = 0 -> "DRAFT"
    [] ok > 0 /\ ok = all -> "SYNCED"
    [] ok > 0 /\ ok # all -> "PARTIALLY_SYNCED"

Finish(r) ==
  LET s == req[r] IN
  /\ s.pc = "sync"
  /\ s.todo = {}
  /\ row' = IF Exists(s.row)
              THEN [row EXCEPT ![s.row].status = Verdict(s.ok, Cardinality(company.configured))]
              ELSE row
  /\ Goes(r, Done)
  /\ loose' = IF s.alone THEN loose \ {s.row} ELSE loose
  /\ killed' = killed \ {s.row}
  /\ UNCHANGED <<company, link, held, imp, views, hitches>>

\* The worker dies, or an exception that nobody turns into a status ends the
\* request: the settings of a configured broker are missing, say
Die(r) ==
  LET b == req[r].row IN
  /\ req[r].pc \notin {"new", "done"}
  /\ Hitch(b)
  /\ Goes(r, Done)
  /\ killed' = killed \cup {b}
  /\ loose' = IF req[r].pc = "pending" THEN loose \cup {b} ELSE loose
  /\ UNCHANGED <<company, row, link, held, imp, views>>

-----------------------------------------------------------------------------
(* sync_beneficiaries_from_broker; Nium's asks for nothing.                 *)

\* A payee of the broker's list is asked for.  An import is any sequence of
\* these: the list has each payee once, in any order, and one the broker does
\* not answer for is passed over.
ImportView(k, id) ==
  /\ imp = NoImport
  /\ k \in company.enabled \ {NIUM}
  /\ held[k][id] # None
  /\ views < MaxViews
  /\ views' = views + 1
  /\ imp' = [at |-> k, id |-> id, data |-> held[k][id].data]
  /\ UNCHANGED <<company, row, link, held, req, hitches, loose, killed>>

\* Row b takes what the broker holds.  Monex's import then sets the link, and
\* Corpay's when the row is new.
Import(b, ext, linking) ==
  /\ row' = [row EXCEPT ![b] = [status |-> "SYNCED", data |-> imp.data, ext |-> ext]]
  /\ link' = IF linking THEN [link EXCEPT ![b][imp.at] = imp.id] ELSE link
  /\ Disturb(req, {b})

\* The row linked to the payee, else the one imported from it, else a new one
ImportSave ==
  /\ imp # NoImport
  /\ imp' = NoImport
  /\ LET linked == Linked(imp.at, imp.id)
         known == Known(imp.id)
     IN
     \/ \E b \in Row :
          /\ linked = {b} \/ (linked = {} /\ known = {b})
          /\ Import(b, row[b].ext, imp.at = MONEX)
     \/ /\ linked = {} /\ known = {}
        /\ \E b \in Row : row[b] = Unused /\ Import(b, imp.id, TRUE)
  /\ UNCHANGED <<company, held, views, hitches, killed>>

\* Two rows are linked to the payee and the look-up fails, so that Monex's
\* import passes it over and Corpay's gives up; or the import dies
ImportGivesUp ==
  /\ imp # NoImport
  /\ imp' = NoImport
  /\ UNCHANGED <<company, row, link, held, req, views, hitches, loose, killed>>

-----------------------------------------------------------------------------

\* What a request does by itself once it has begun
Advance(r) ==
  \/ ActivateSave(r)
  \/ UpdateSave(r)
  \/ UpdatePending(r)
  \/ Load(r)
  \/ \E k \in Broker : TryService(r, k)
  \/ Refused(r)
  \/ \E answered \in BOOLEAN : Accepted(r, answered)
  \/ LinkFind(r)
  \/ LinkSave(r)
  \/ Finish(r)

Next ==
  \/ \E b \in Row : Create(b) \/ Destroy(b)
  \/ \E r \in Request, b \in Row : ActivateRead(r, b)
  \/ \E r \in Request, b \in Row, d \in Data : UpdateRead(r, b, d)
  \/ \E r \in Request : Advance(r)
  \/ \E r \in Request : Die(r)
  \/ \E k \in Broker, id \in Name : ImportView(k, id)
  \/ ImportSave
  \/ ImportGivesUp

Spec == Init /\ [][Next]_vars

-----------------------------------------------------------------------------
(* Properties.                                                              *)

\* The variables have their types, and a request that tells the brokers counts
\* each of them once, as one that took it or one that did not.
TypeOK ==
  /\ company \in Companies
  /\ row \in [Row -> Saved \cup {Unused, Deleted}]
  /\ link \in [Row -> [Broker -> Name \cup {None, Blank}]]
  /\ held \in [Broker -> [Name -> Payee \cup {None}]]
  /\ req \in [Request -> Work]
  /\ imp \in [at : Broker, id : Name, data : Data] \cup {NoImport}
  /\ views \in 0 .. MaxViews
  /\ hitches \in [Row -> 0 .. MaxHitches]
  /\ loose \subseteq Row /\ killed \subseteq Row
  /\ \A r \in Request : req[r].pc \in {"sync", "call", "link", "fill"} =>
       Cardinality(company.configured) = req[r].ok + req[r].bad + Cardinality(req[r].todo)
                                 + (IF req[r].pc = "sync" THEN 0 ELSE 1)

\* A payment to a beneficiary goes to the payee its link names (the broker
\* modules look nothing else up).  A link belongs to a row that is there, and
\* names a payee the broker holds, made for that very row or the one the row
\* was imported from, whatever was lost, deleted or imported in between.
LinkTrue ==
  \A b \in Row, k \in Broker : link[b][k] \notin {None, Blank} =>
    LET payee == held[k][link[b][k]] IN
    /\ Exists(b)
    /\ payee # None
    /\ payee.of = b \/ row[b].ext = link[b][k]

\* SYNCED is true: at a row nobody is at work on, each configured broker holds,
\* under the row's link, what the row says.  The exceptions are rows last
\* written by an import (which asks one broker and speaks for all), by two
\* requests at once, or by a request that died between the two saves of an
\* update, and rows whose payee was changed through a second row that an import
\* had made of it; the next request that has the row to itself ends them.
SyncedTold ==
  \A b \in Row \ loose :
    (Exists(b) /\ Working(b) = {} /\ row[b].status = "SYNCED") =>
      \A k \in company.configured :
        /\ link[b][k] \notin {None, Blank}
        /\ held[k][link[b][k]].data = row[b].data

\* A beneficiary has one payee at a broker.  At Corpay, which is told the
\* identifier, that is so always; at the others each death, lost answer,
\* deletion or overlap may leave one more.
PayeesAccounted ==
  \A b \in Row, k \in Broker :
    LET payees == {id \in Name : held[k][id] # None /\ held[k][id].of = b} IN
    Cardinality(payees) <= 1 + (IF k = CORPAY THEN 0 ELSE hitches[b])

\* A beneficiary does not stay PENDING: some request is at work on it that will
\* say how it went, even if that is not the one that wrote PENDING, or wrote it
\* over a newer status; unless the last one died.
PendingWorked ==
  \A b \in Row : (Exists(b) /\ row[b].status = "PENDING") =>
    (Working(b) # {} \/ b \in killed)

=============================================================================

---------------------------- MODULE LedgerProofs ----------------------------
(***************************************************************************)
(* The books of a branch agree with their sources, and nothing leaves them *)
(* but to the archive or by a user's deletion, for every number of         *)
(* requests, sources and batches.                                          *)
(*                                                                         *)
(* The invariant says what an open transaction may rely on: the row it has *)
(* locked, the mirrors it has found, the ids the archive run has captured. *)
(***************************************************************************)
EXTENDS Ledger, TLAPS

-----------------------------------------------------------------------------
(* The invariant *)

\* What each kind of transaction works on.
Shape(t) ==
    \/ t = Idle
    \/ /\ t.op = "update" /\ t.pc \in {"row", "mirror", "commit"}
       /\ t.src \in Expense
    \/ t.op = "delete" /\ t.pc \in {"mirror", "drop"} /\ t.src \in Expense
    \/ t.op = "record" /\ t.pc = "insert" /\ t.src \in Payroll
    \/ /\ t.op = "mark" /\ t.pc = "pay" /\ t.src \in Payroll
       /\ t.amount \in Nat

Typed == TypeOK /\ \A r \in Req : Shape(req[r])

\* A source that is not there yet has no ledger row and is not paid.
Blank ==
    \A s \in Source : sources[s].state = "new" =>
        ~sources[s].paid /\ MirrorsOf(s) = {}

\* Ids are given once, in order.
Numbered ==
    /\ \A e, f \in ledger : e.id = f.id => e = f
    /\ \A e \in ledger \cup archivedLedger : e.id <= posted

\* What is in the archive is gone for good.
Archived ==
    /\ \A e \in archivedLedger : sources[e.ref].state = "gone"
    /\ \A a \in archive : sources[a.src].state = "gone"

Books == Blank /\ Numbered /\ Archived /\ SourcesMirrored /\ NoSplitPair

\* The transaction of q has locked the row of s.
Updating(q, s) ==
    req[q].op = "update" /\ req[q].src = s /\ req[q].pc \in {"mirror", "commit"}

\* What an open transaction relies on until it commits.
Holds(r) ==
    LET t == req[r] IN
    /\ \A i \in t.entries : i <= posted
    /\ \A e \in ledger : e.id \in t.entries => e.ref = t.src
    /\ Updating(r, t.src) =>
         Live(t.src) /\ \A q \in Req \ {r} : ~Updating(q, t.src)
    /\ t.op = "update" /\ t.pc = "commit" /\ t.amount # None =>
         \A e \in MirrorsOf(t.src) : e.id \in t.entries
    /\ t.op = "record" =>
         /\ sources[t.src].state = "new"
         /\ \A q \in Req \ {r} : ~(req[q].op = "record" /\ req[q].src = t.src)
    /\ t.op = "mark" =>
         t.amount = sources[t.src].amount /\ sources[t.src].state # "new"

Holders == \A r \in Req : Holds(r)

\* What the archive run relies on until its batch commits.
Captured ==
    /\ job.pc = "select" => job.copied = {} /\ job.moved = {}
    /\ \A s \in job.ids : sources[s].state # "new"
    /\ \A a \in job.copied : a.src \in job.ids
    /\ job.pc \in {"mirrors", "unlink", "remove"} =>
         \A s \in job.ids : Live(s) => \E a \in job.copied : a.src = s
    /\ \A m \in job.moved :
         /\ m.ref \in job.ids /\ m.id <= posted
         /\ \A e \in ledger : e.id = m.id => e.ref = m.ref
    /\ job.pc \in {"unlink", "remove"} =>
         \A e \in ledger : e.ref \in job.ids \cap Expense => e.id \in Ids(job.moved)

Inv == Books /\ Holders /\ Captured

-----------------------------------------------------------------------------
(* Types *)

LEMMA IdleTransaction ==
  /\ Idle \in Transaction /\ Shape(Idle)
  /\ Idle.op = "none" /\ Idle.pc = "idle" /\ Idle.src = None /\ Idle.entries = {}
  BY DEF Idle, Transaction, Shape

LEMMA Runs ==
  /\ NoRun \in Run /\ NoRun.pc = "idle" /\ NoRun.ids = {}
  /\ NoRun.copied = {} /\ NoRun.moved = {}
  /\ \A k \in Steps : /\ At(k) \in Run /\ At(k).pc = "select" /\ At(k).ids = {}
                      /\ At(k).copied = {} /\ At(k).moved = {}
  BY DEF NoRun, At, Run, Steps

LEMMA NextRuns ==
  ASSUME NEW k \in Steps
  PROVE  /\ NextStep(k) \in {NoRun} \cup {At(j) : j \in Steps}
         /\ \A n : NextBatch(k, n) \in {NoRun} \cup {At(j) : j \in Steps}
  BY DEF NextStep, NextBatch, Steps

LEMMA TypeInit == Init => Typed
  BY IdleTransaction, Runs DEF Init, Typed, TypeOK, SourceRow

\* A step of one request changes its own transaction only.
LEMMA TypeRequest ==
  ASSUME LedgerAssumption, Typed, NEW r \in Req, NEW t \in Transaction, Shape(t),
         req' = [req EXCEPT ![r] = t],
         sources' \in [Source -> SourceRow], ledger' \subseteq Entry,
         posted' \in Nat, UNCHANGED <<archive, archivedLedger, job>>
  PROVE  Typed'
  BY DEF Typed, TypeOK, Shape, Idle

\* Posting a row.
LEMMA TypePost ==
  ASSUME LedgerAssumption, Typed, NEW s \in Source, NEW a \in Nat,
         recordLedgerEntry(s, a)
  PROVE  ledger' \subseteq Entry /\ posted' \in Nat
  <1>0. posted + 1 \in Nat
    BY DEF Typed, TypeOK
  <1> DEFINE n == [id |-> posted + 1, ref |-> s, amount |-> a, old |-> FALSE]
  <1>1. PICK e \in Entry : e = n
    <2>1. n \in Entry
      BY <1>0 DEF Entry
    <2> QED
      BY <2>1
  <1>2. ledger' = ledger \cup {e} /\ posted' = posted + 1
    BY <1>1 DEF recordLedgerEntry
  <1> QED
    BY <1>2 DEF Typed, TypeOK

LEMMA TypeUpdateStart ==
  ASSUME LedgerAssumption, Typed, NEW r \in Req, NEW s \in Expense,
         NEW a \in Amounts \cup {None}, UpdateStart(r, s, a)
  PROVE  Typed'
  <1> DEFINE t == [Idle EXCEPT !.op = "update", !.pc = "row", !.src = s, !.amount = a]
  <1>1. t \in Transaction /\ Shape(t)
    BY DEF LedgerAssumption, Source, Transaction, Shape, Idle
  <1> QED
    BY <1>1, TypeRequest DEF UpdateStart, Typed, TypeOK, db

LEMMA TypeUpdateRow ==
  ASSUME LedgerAssumption, Typed, NEW r \in Req, UpdateRow(r)
  PROVE  Typed'
  <1>1. PICK pc \in {"mirror", "commit"} : req' = [req EXCEPT ![r].pc = pc]
    BY DEF UpdateRow
  <1> DEFINE t == [req[r] EXCEPT !.pc = pc]
  <1>2. t \in Transaction /\ Shape(t)
    BY DEF UpdateRow, Transaction, Shape, Typed, TypeOK, Idle
  <1> QED
    BY <1>1, <1>2, TypeRequest DEF UpdateRow, Typed, TypeOK, db

LEMMA TypeUpdateEntry ==
  ASSUME LedgerAssumption, Typed, NEW r \in Req, updateLedgerEntry(r)
  PROVE  Typed'
  <1>0. Ids(MirrorsOf(req[r].src)) \in SUBSET Nat
    BY DEF Ids, MirrorsOf, Typed, TypeOK, Entry
  <1>1. PICK E \in SUBSET Nat : E = Ids(MirrorsOf(req[r].src))
    BY <1>0
  <1> DEFINE t == [req[r] EXCEPT !.pc = "commit", !.entries = E]
  <1>4. req[r] \in Transaction /\ req[r].op = "update" /\ req[r].src \in Expense
    BY IdleTransaction DEF updateLedgerEntry, Shape, Typed, TypeOK
  <1>5. t \in Transaction /\ t.op = "update" /\ t.pc = "commit" /\ t.src \in Expense
    BY <1>4 DEF Transaction
  <1>2. t \in Transaction /\ Shape(t)
    BY <1>5 DEF Shape
  <1>3. req' = [req EXCEPT ![r] = t]
    BY <1>1 DEF updateLedgerEntry
  <1> QED
    BY <1>2, <1>3, TypeRequest DEF updateLedgerEntry, Typed, TypeOK, db

LEMMA TypeCommitUpdate ==
  ASSUME LedgerAssumption, Typed, NEW r \in Req, CommitUpdate(r)
  PROVE  Typed'
  <1>1. \A a \in Nat : Edited(r, a) \in Nat
    BY DEF Edited, Typed, TypeOK, Transaction
  <1>2. ledger' \subseteq Entry
    BY <1>1 DEF CommitUpdate, Typed, TypeOK, Entry
  <1>3. sources' \in [Source -> SourceRow]
    BY <1>1 DEF CommitUpdate, Typed, TypeOK, SourceRow
  <1> QED
    BY <1>2, <1>3, TypeRequest, IdleTransaction DEF CommitUpdate, Typed, TypeOK

LEMMA TypeDelete ==
  ASSUME LedgerAssumption, Typed, NEW r \in Req,
         (\E s \in Expense : DeleteStart(r, s)) \/ removeLedgerEntry(r) \/ CommitDelete(r)
  PROVE  Typed'
  <1>1. ASSUME NEW s \in Expense, DeleteStart(r, s)
        PROVE  Typed'
    <2> DEFINE t == [Idle EXCEPT !.op = "delete", !.pc = "mirror", !.src = s]
    <2>1. t \in Transaction /\ Shape(t)
      BY DEF LedgerAssumption, Source, Transaction, Shape, Idle
    <2> QED
      BY <1>1, <2>1, TypeRequest DEF DeleteStart, Typed, TypeOK, db
  <1>2. CASE removeLedgerEntry(r)
    <2>0. Ids(MirrorsOf(req[r].src)) \in SUBSET Nat
      BY DEF Ids, MirrorsOf, Typed, TypeOK, Entry
    <2>1. PICK E \in SUBSET Nat : E = Ids(MirrorsOf(req[r].src))
      BY <2>0
    <2> DEFINE t == [req[r] EXCEPT !.pc = "drop", !.entries = E]
    <2>4. req[r] \in Transaction /\ req[r].op = "delete" /\ req[r].src \in Expense
      BY <1>2, IdleTransaction DEF removeLedgerEntry, Shape, Typed, TypeOK
    <2>5. t \in Transaction /\ t.op = "delete" /\ t.pc = "drop" /\ t.src \in Expense
      BY <2>4 DEF Transaction
    <2>2. t \in Transaction /\ Shape(t)
      BY <2>5 DEF Shape
    <2>3. req' = [req EXCEPT ![r] = t]
      BY <1>2, <2>1 DEF removeLedgerEntry
    <2> QED
      BY <1>2, <2>2, <2>3, TypeRequest DEF removeLedgerEntry, Typed, TypeOK, db
  <1>3. CASE CommitDelete(r)
    <2>1. sources' \in [Source -> SourceRow] /\ ledger' \subseteq Entry
      BY <1>3 DEF CommitDelete, Typed, TypeOK, SourceRow
    <2> QED
      BY <1>3, <2>1, TypeRequest, IdleTransaction DEF CommitDelete, Typed, TypeOK
  <1> QED
    BY <1>1, <1>2, <1>3

LEMMA TypePayroll ==
  ASSUME LedgerAssumption, Typed, NEW r \in Req,
         \/ \E p \in Payroll : RecordStart(r, p) \/ MarkStart(r, p)
         \/ \E a \in Amounts : CommitRecord(r, a)
         \/ CommitMark(r)
  PROVE  Typed'
  <1>1. ASSUME NEW p \in Payroll, RecordStart(r, p)
        PROVE  Typed'
    <2> DEFINE t == [Idle EXCEPT !.op = "record", !.pc = "insert", !.src = p]
    <2>1. t \in Transaction /\ Shape(t)
      BY DEF LedgerAssumption, Source, Transaction, Shape, Idle
    <2> QED
      BY <1>1, <2>1, TypeRequest DEF RecordStart, Typed, TypeOK, db
  <1>2. ASSUME NEW p \in Payroll, MarkStart(r, p)
        PROVE  Typed'
    <2> DEFINE t == [Idle EXCEPT !.op = "mark", !.pc = "pay", !.src = p,
                                 !.amount = sources[p].amount]
    <2>1. sources[p].amount \in Nat
      BY DEF Typed, TypeOK, SourceRow, Source
    <2>2. t \in Transaction /\ Shape(t)
      BY <2>1 DEF LedgerAssumption, Source, Transaction, Shape, Idle
    <2> QED
      BY <1>2, <2>2, TypeRequest DEF MarkStart, Typed, TypeOK, db
  <1>3. ASSUME NEW a \in Amounts, CommitRecord(r, a)
        PROVE  Typed'
    <2>1. sources' \in [Source -> SourceRow]
      BY <1>3 DEF CommitRecord, Typed, TypeOK, SourceRow, LedgerAssumption
    <2> QED
      BY <1>3, <2>1, TypeRequest, IdleTransaction DEF CommitRecord, Typed, TypeOK
  <1>4. CASE CommitMark(r)
    <2>1. req[r].src \in Payroll /\ req[r].amount \in Nat
      BY <1>4 DEF CommitMark, Typed, Shape, Idle
    <2>2. ledger' \subseteq Entry /\ posted' \in Nat
      BY <1>4, <2>1, TypePost DEF CommitMark, Source
    <2>3. sources' \in [Source -> SourceRow]
      BY <1>4 DEF CommitMark, Typed, TypeOK, SourceRow
    <2> QED
      BY <1>4, <2>2, <2>3, TypeRequest, IdleTransaction DEF CommitMark, Typed, TypeOK
  <1> QED
    BY <1>1, <1>2, <1>3, <1>4

LEMMA TypeJob ==
  ASSUME LedgerAssumption, Typed, ArchiveJob
  PROVE  Typed'
  <1>1. req' = req
    BY DEF ArchiveJob, BatchStep, JobStart, JobSelect, JobCopy, moveLedgerMirrors,
       moveLedgerRows, JobCommit, StepFails, archiveLedgerLeftovers, JobCrash
  <1>2. ASSUME TypeOK'
        PROVE  Typed'
    BY <1>1, <1>2 DEF Typed, Shape, Idle
  <1>3. CASE JobStart
    <2>1. PICK S \in SUBSET {s \in Source : Live(s)}, E \in SUBSET ledger :
            /\ sources' = [s \in Source |->
                 IF s \in S THEN [sources[s] EXCEPT !.old = TRUE] ELSE sources[s]]
            /\ ledger' = (ledger \ E) \cup {[e EXCEPT !.old = TRUE] : e \in E}
      BY <1>3 DEF JobStart
    <2>2. sources' \in [Source -> SourceRow]
      BY <2>1 DEF Typed, TypeOK, SourceRow
    <2>4. \A e \in Entry : [e EXCEPT !.old = TRUE] \in Entry
      BY DEF Entry
    <2>3. ledger' \subseteq Entry
      BY <2>1, <2>4 DEF Typed, TypeOK
    <2> QED
      BY <1>1, <1>2, <1>3, <2>2, <2>3, Runs DEF JobStart, Typed, TypeOK, Steps
  <1>4. ASSUME NEW k \in Steps, JobSelect(k) \/ StepFails(k)
        PROVE  Typed'
    <2>1. UNCHANGED db
      BY <1>4 DEF JobSelect, StepFails
    <2>2. job' \in Run
      <3>1. CASE StepFails(k)
        BY <3>1, Runs, NextRuns DEF StepFails
      <3>2. CASE JobSelect(k)
        <4>1. PICK ids \in SUBSET Eligible(k) :
                job' = IF ids = {} THEN NextStep(k)
                       ELSE [job EXCEPT !.pc = "copy", !.ids = ids]
          BY <3>2 DEF JobSelect
        <4>2. ids \subseteq Source
          BY DEF Eligible, Source
        <4>3. NextStep(k) \in Run
          BY Runs, NextRuns
        <4> QED
          BY <4>1, <4>2, <4>3 DEF Typed, TypeOK, Run
      <3> QED
        BY <1>4, <3>1, <3>2
    <2> QED
      BY <1>1, <1>2, <2>1, <2>2 DEF Typed, TypeOK, db
  <1>5. ASSUME NEW k \in Steps, JobCopy(k)
        PROVE  Typed'
    <2> DEFINE C == {[src |-> s, amount |-> sources[s].amount, paid |-> sources[s].paid] :
                       s \in {t \in job.ids : Live(t)}}
    <2>1. job.ids \subseteq Source
      BY DEF Typed, TypeOK, Run
    <2>2. C \subseteq ArchivedRow
      BY <2>1 DEF Typed, TypeOK, SourceRow, ArchivedRow
    <2>3. job' = [job EXCEPT !.pc = "mirrors", !.copied = C]
      BY <1>5 DEF JobCopy
    <2>4. job' \in Run
      BY <2>2, <2>3 DEF Typed, TypeOK, Run
    <2> QED
      BY <1>1, <1>2, <1>5, <2>4 DEF JobCopy, Typed, TypeOK, db
  <1>6. ASSUME NEW k \in Steps, moveLedgerMirrors(k) \/ moveLedgerRows(k)
        PROVE  Typed'
    <2>1. ASSUME moveLedgerRows(k) PROVE job' \in Run
      BY <2>1 DEF moveLedgerRows, Typed, TypeOK, Run
    <2>2. ASSUME moveLedgerMirrors(k) PROVE job' \in Run
      <3>1. {e \in ledger : e.ref \in job.ids} \in SUBSET Entry
        BY DEF Typed, TypeOK
      <3>2. PICK M \in SUBSET Entry : M = {e \in ledger : e.ref \in job.ids}
        BY <3>1
      <3>3. job' = [job EXCEPT !.pc = "unlink", !.moved = M]
        BY <2>2, <3>2 DEF moveLedgerMirrors
      <3> QED
        BY <3>3 DEF Typed, TypeOK, Run
    <2>3. job' \in Run
      BY <1>6, <2>1, <2>2
    <2> QED
      BY <1>1, <1>2, <1>6, <2>3 DEF moveLedgerMirrors, moveLedgerRows, Typed, TypeOK, db
  <1>7. ASSUME NEW k \in Steps, JobCommit(k)
        PROVE  Typed'
    <2>1. job' \in Run
      BY <1>7, Runs, NextRuns DEF JobCommit
    <2>2. sources' \in [Source -> SourceRow]
      BY <1>7 DEF JobCommit, Typed, TypeOK, SourceRow
    <2>3. ledger' \subseteq Entry /\ archive' \subseteq ArchivedRow
          /\ archivedLedger' \subseteq Entry
      BY <1>7 DEF JobCommit, Typed, TypeOK, Run
    <2> QED
      BY <1>1, <1>2, <1>7, <2>1, <2>2, <2>3 DEF JobCommit, Typed, TypeOK
  <1>8. CASE archiveLedgerLeftovers
    <2>1. job' \in Run
      BY <1>8, Runs, NextRuns DEF archiveLedgerLeftovers, Steps
    <2>2. ledger' \subseteq Entry /\ archivedLedger' \subseteq Entry
      BY <1>8 DEF archiveLedgerLeftovers, Leftovers, Typed, TypeOK
    <2> QED
      BY <1>1, <1>2, <1>8, <2>1, <2>2 DEF archiveLedgerLeftovers, Typed, TypeOK
  <1>9. CASE JobCrash
    BY <1>1, <1>2, <1>9, Runs DEF JobCrash, Typed, TypeOK, db
  <1> QED
    BY <1>3, <1>4, <1>5, <1>6, <1>7, <1>8, <1>9 DEF ArchiveJob, BatchStep

LEMMA TypeNext ==
  ASSUME LedgerAssumption, Typed, [Next]_vars
  PROVE  Typed'
  <1>1. ASSUME NEW s \in Expense, NEW a \in Amounts, createExpense(s, a)
        PROVE  Typed'
    <2>1. a \in Nat /\ s \in Source
      BY DEF LedgerAssumption, Source
    <2>2. ledger' \subseteq Entry /\ posted' \in Nat
      BY <1>1, <2>1, TypePost DEF createExpense
    <2>3. sources' \in [Source -> SourceRow]
      BY <1>1, <2>1 DEF createExpense, Typed, TypeOK, SourceRow
    <2> QED
      BY <1>1, <2>2, <2>3 DEF createExpense, Typed, TypeOK, Shape, Idle
  <1>2. ASSUME NEW r \in Req, Rollback(r)
        PROVE  Typed'
    BY <1>2, TypeRequest, IdleTransaction DEF Rollback, Typed, TypeOK, db
  <1>3. CASE UNCHANGED vars
    BY <1>3 DEF vars, Typed, TypeOK, Shape, Idle
  <1> QED
    BY <1>1, <1>2, <1>3, TypeUpdateStart, TypeUpdateRow, TypeUpdateEntry,
       TypeCommitUpdate, TypeDelete, TypePayroll, TypeJob
       DEF Next, Request, Commit

\* Every variable keeps its type.
THEOREM TypeCorrect ==
  ASSUME LedgerAssumption
  PROVE  Spec => []TypeOK
  <1>1. Typed /\ [Next]_vars => Typed'
    BY TypeNext
  <1>2. Typed => TypeOK
    BY DEF Typed
  <1> QED
    BY <1>1, <1>2, TypeInit, PTL DEF Spec

-----------------------------------------------------------------------------
(* Steps of a transaction that others do not see yet *)

LEMMA InvInit ==
  ASSUME Init
  PROVE  Inv
  <1>1. /\ \A s \in Source : ~Live(s) /\ MirrorsOf(s) = {} /\ ~sources[s].paid
        /\ ledger = {} /\ archive = {} /\ archivedLedger = {}
    BY DEF Init, Live, MirrorsOf
  <1>2. Books
    BY <1>1 DEF Books, Blank, Numbered, Archived, SourcesMirrored, NoSplitPair, Source, Ids
  <1>3. Holders
    BY IdleTransaction DEF Init, Holders, Holds, Updating
  <1>4. Captured
    BY Runs DEF Init, Captured
  <1> QED
    BY <1>2, <1>3, <1>4 DEF Inv

\* The tables and the other transactions stay as they are.
LEMMA PrivateStep ==
  ASSUME Inv, NEW r \in Req, UNCHANGED <<db, job>>,
         \A q \in Req \ {r} : req'[q] = req[q], Holds(r)'
  PROVE  Inv'
  <1>1. Books' /\ Captured'
    BY DEF Inv, Books, Blank, Numbered, Archived, SourcesMirrored, NoSplitPair,
       Captured, Live, MirrorsOf, Ids, db
  <1>2. ASSUME NEW q \in Req \ {r}
        PROVE  Holds(q)'
    BY <1>2 DEF Inv, Holders, Holds, Updating, Live, MirrorsOf, db
  <1> QED
    BY <1>1, <1>2 DEF Inv, Holders

\* The mirrors a transaction locks are its source's.
LEMMA FoundMirrors ==
  ASSUME Typed, Inv, NEW s, NEW E, E = Ids(MirrorsOf(s))
  PROVE  /\ \A i \in E : i <= posted
         /\ \A e \in ledger : e.id \in E => e.ref = s
         /\ \A e \in MirrorsOf(s) : e.id \in E
  BY DEF Inv, Books, Numbered, Ids, MirrorsOf

LEMMA InvPrivate ==
  ASSUME LedgerAssumption, Typed, Inv, NEW r \in Req,
         \/ \E s \in Expense, a \in Amounts \cup {None} : UpdateStart(r, s, a)
         \/ \E s \in Expense : DeleteStart(r, s)
         \/ \E p \in Payroll : RecordStart(r, p) \/ MarkStart(r, p)
         \/ UpdateRow(r) \/ updateLedgerEntry(r) \/ removeLedgerEntry(r)
         \/ Rollback(r)
  PROVE  Inv'
  <1>1. /\ UNCHANGED <<db, job>>
        /\ \A q \in Req \ {r} : req'[q] = req[q]
    BY DEF UpdateStart, DeleteStart, RecordStart, MarkStart, UpdateRow,
       updateLedgerEntry, removeLedgerEntry, Rollback, Typed, TypeOK
  <1>2. Holds(r)
    BY DEF Inv, Holders
  <1> SUFFICES Holds(r)'
    BY <1>1, PrivateStep
  <1>3. ASSUME NEW s \in Expense, NEW a \in Amounts \cup {None}, UpdateStart(r, s, a)
        PROVE  Holds(r)'
    <2>1. /\ req'[r].op = "update" /\ req'[r].pc = "row" /\ req'[r].entries = {}
      BY <1>3 DEF UpdateStart, Typed, TypeOK, Idle
    <2> QED
      BY <2>1 DEF Holds, Updating
  <1>4. ASSUME NEW s \in Expense, DeleteStart(r, s)
        PROVE  Holds(r)'
    <2>1. /\ req'[r].op = "delete" /\ req'[r].entries = {}
      BY <1>4 DEF DeleteStart, Typed, TypeOK, Idle
    <2> QED
      BY <2>1 DEF Holds, Updating
  <1>5. ASSUME NEW p \in Payroll, RecordStart(r, p)
        PROVE  Holds(r)'
    <2>1. /\ req'[r].op = "record" /\ req'[r].entries = {} /\ req'[r].src = p
      BY <1>5 DEF RecordStart, Typed, TypeOK, Idle
    <2> QED
      BY <1>1, <1>5, <2>1 DEF Holds, Updating, RecordStart, db
  <1>6. ASSUME NEW p \in Payroll, MarkStart(r, p)
        PROVE  Holds(r)'
    <2>1. /\ req'[r].op = "mark" /\ req'[r].entries = {} /\ req'[r].src = p
          /\ req'[r].amount = sources[p].amount
      BY <1>6 DEF MarkStart, Typed, TypeOK, Idle
    <2> QED
      BY <1>1, <1>6, <2>1 DEF Holds, Updating, MarkStart, Live, db
  <1>7. CASE UpdateRow(r)
    <2>1. /\ req'[r].op = "update" /\ req'[r].src = req[r].src
          /\ req'[r].entries = req[r].entries /\ req'[r].amount = req[r].amount
          /\ req'[r].pc = "commit" => req[r].amount = None
          /\ Live(req[r].src) /\ \A q \in Req : ~Updating(q, req[r].src)
      BY <1>7 DEF UpdateRow, Typed, TypeOK, RowFree, Updating
    <2> QED
      BY <1>1, <1>2, <2>1 DEF Holds, Updating, Live, db
  <1>8. CASE updateLedgerEntry(r)
    <2>1. /\ req[r].op = "update" /\ req[r].pc = "mirror"
          /\ req'[r].op = "update" /\ req'[r].pc = "commit"
          /\ req'[r].src = req[r].src
          /\ req'[r].entries = Ids(MirrorsOf(req[r].src))
      BY <1>8 DEF updateLedgerEntry, Typed, TypeOK
    <2>2. Live(req[r].src) /\ \A q \in Req \ {r} : ~Updating(q, req[r].src)
      BY <1>2, <2>1 DEF Holds, Updating
    <2>3. /\ \A i \in req'[r].entries : i <= posted
          /\ \A e \in ledger : e.id \in req'[r].entries => e.ref = req[r].src
          /\ \A e \in MirrorsOf(req[r].src) : e.id \in req'[r].entries
      BY <2>1, FoundMirrors
    <2> QED
      BY <1>1, <2>1, <2>2, <2>3 DEF Holds, Updating, Live, MirrorsOf, db
  <1>9. CASE removeLedgerEntry(r)
    <2>1. /\ req'[r].op = "delete" /\ req'[r].src = req[r].src
          /\ req'[r].entries = Ids(MirrorsOf(req[r].src))
      BY <1>9 DEF removeLedgerEntry, Typed, TypeOK
    <2> QED
      BY <1>1, <2>1, FoundMirrors DEF Holds, Updating, db
  <1>10. CASE Rollback(r)
    <2>1. req'[r].op = "none" /\ req'[r].entries = {}
      BY <1>10, IdleTransaction DEF Rollback, Typed, TypeOK
    <2> QED
      BY <2>1 DEF Holds, Updating
  <1> QED
    BY <1>3, <1>4, <1>5, <1>6, <1>7, <1>8, <1>9, <1>10

-----------------------------------------------------------------------------
(* Steps that write to the live tables *)

\* A transaction that has ended relies on nothing.
LEMMA EndedHolds ==
  ASSUME NEW r \in Req, req'[r] = Idle
  PROVE  Holds(r)'
  BY IdleTransaction DEF Holds, Updating

LEMMA InvCreate ==
  ASSUME LedgerAssumption, Typed, Inv, NEW s \in Expense, NEW a \in Amounts,
         createExpense(s, a)
  PROVE  Inv'
  <1>1. s \in Source /\ sources[s].state = "new" /\ posted \in Nat
    BY DEF createExpense, Source, Typed, TypeOK
  <1>2. /\ sources'[s].state = "live" /\ sources'[s].amount = a
        /\ \A x \in Source \ {s} : sources'[x] = sources[x]
        /\ UNCHANGED <<archive, archivedLedger, req, job>>
    BY <1>1 DEF createExpense, Typed, TypeOK, SourceRow
  <1>3. PICK n : /\ n.id = posted + 1 /\ n.ref = s /\ n.amount = a
                 /\ ledger' = ledger \cup {n} /\ posted' = posted + 1
    BY DEF createExpense, recordLedgerEntry
  <1>4. /\ \A e \in ledger : e.id # posted + 1 /\ e.ref # s
        /\ \A e \in archivedLedger : e.id # posted + 1
        /\ \A e \in ledger \cup archivedLedger : e.id \in Nat /\ e.id <= posted /\ e.ref \in Source
    BY <1>1 DEF Inv, Books, Blank, Numbered, MirrorsOf, Typed, TypeOK, Entry
  <1>5. \A x \in Source \ {s} : MirrorsOf(x)' = MirrorsOf(x)
    BY <1>3 DEF MirrorsOf
  <1>6. MirrorsOf(s)' = {n}
    BY <1>3, <1>4 DEF MirrorsOf
  <1>7. Blank' /\ Numbered' /\ Archived'
    BY <1>1, <1>2, <1>3, <1>4, <1>5 DEF Inv, Books, Blank, Numbered, Archived,
       Typed, TypeOK, ArchivedRow
  <1>8. SourcesMirrored'
    BY <1>1, <1>2, <1>3, <1>5, <1>6, LedgerAssumption
       DEF Inv, Books, SourcesMirrored, Live, Source, LedgerAssumption
  <1>9. NoSplitPair'
    <2>1. \A x \in archive : x.src # s /\ x.src \in Source
      BY <1>1 DEF Inv, Books, Archived, Typed, TypeOK, ArchivedRow
    <2>2. \A e \in archivedLedger : e.ref # s
      BY <1>1 DEF Inv, Books, Archived
    <2>3. \A e \in archivedLedger' : ~Live(e.ref)'
      BY <1>2, <1>4, <2>2 DEF Inv, Books, NoSplitPair, Live
    <2>4. \A x \in archive' : ~Live(x.src)' /\ (x.src \in Expense => MirrorsOf(x.src)' = {})
      BY <1>2, <1>5, <2>1 DEF Inv, Books, NoSplitPair, Live
    <2>5. \A e \in ledger', f \in archivedLedger' : e.id # f.id
      BY <1>2, <1>3, <1>4 DEF Inv, Books, NoSplitPair, Ids
    <2> QED
      BY <2>3, <2>4, <2>5 DEF NoSplitPair, Ids
  <1>10. ASSUME NEW r \in Req
         PROVE  Holds(r)'
    <2>1. \A i \in req[r].entries : i \in Nat
      BY DEF Typed, TypeOK, Transaction
    <2>2. req[r].op \in {"record", "mark"} => req[r].src \in Payroll
      BY DEF Typed, Shape, Idle
    <2>3. Holds(r) /\ (Updating(r, req[r].src) => req[r].src \in Source \ {s})
      BY <1>1 DEF Inv, Holders, Holds, Updating, Live, Typed, Shape, Idle, Source
    <2>4. req[r].src \in Payroll => req[r].src \in Source \ {s}
      BY DEF Source, LedgerAssumption
    <2> QED
      BY <1>1, <1>2, <1>3, <1>5, <2>1, <2>2, <2>3, <2>4
         DEF Holds, Updating, Live
  <1>11. Captured'
    <2>1. \A x \in job.ids : x \in Source \ {s}
      BY <1>1 DEF Inv, Captured, Typed, TypeOK, Run
    <2>2. \A m \in job.moved : m.id \in Nat
      BY DEF Typed, TypeOK, Run, Entry
    <2> QED
      BY <1>1, <1>2, <1>3, <2>1, <2>2 DEF Inv, Captured, Live, Ids
  <1> QED
    BY <1>7, <1>8, <1>9, <1>10, <1>11 DEF Inv, Books, Holders

LEMMA InvUpdate ==
  ASSUME LedgerAssumption, Typed, Inv, NEW r \in Req, CommitUpdate(r)
  PROVE  Inv'
  <1>0. PICK s \in Expense : s = req[r].src
    BY DEF CommitUpdate, Typed, Shape, Idle
  <1>1. /\ s \in Source /\ s \notin Payroll /\ Live(s)
        /\ \A e \in ledger : e.id \in req[r].entries => e.ref = s
        /\ req[r].amount # None => \A e \in MirrorsOf(s) : e.id \in req[r].entries
        /\ \A q \in Req \ {r} : ~Updating(q, s)
    BY <1>0 DEF CommitUpdate, Inv, Holders, Holds, Updating, Source, LedgerAssumption
  <1>2. /\ \A x \in Source : /\ sources'[x].state = sources[x].state
                             /\ sources'[x].paid = sources[x].paid
        /\ \A x \in Source \ {s} : sources'[x].amount = sources[x].amount
        /\ sources'[s].amount = Edited(r, sources[s].amount)
        /\ UNCHANGED <<archive, archivedLedger, posted, job>>
        /\ req'[r] = Idle /\ \A q \in Req \ {r} : req'[q] = req[q]
    BY <1>0, <1>1 DEF CommitUpdate, Typed, TypeOK, SourceRow
  <1> DEFINE Up(e) == IF e.id \in req[r].entries
                      THEN [e EXCEPT !.amount = Edited(r, @)] ELSE e
  <1>3. ledger' = {Up(e) : e \in ledger}
    BY DEF CommitUpdate
  <1>4. \A e \in ledger : /\ Up(e).id = e.id /\ Up(e).ref = e.ref
                          /\ e.ref # s => Up(e) = e
                          /\ e.ref = s => Up(e).amount \in {e.amount, Edited(r, e.amount)}
                          /\ e.ref = s /\ req[r].amount # None =>
                               Up(e).amount = Edited(r, e.amount)
    BY <1>1 DEF MirrorsOf, Typed, TypeOK, Entry
  <1>5. \A e, f \in ledger : e.id = f.id => e = f
    BY DEF Inv, Books, Numbered
  <1> HIDE DEF Up
  <1>6. \A x : MirrorsOf(x)' = {Up(e) : e \in MirrorsOf(x)}
    BY <1>3, <1>4 DEF MirrorsOf
  <1>7. Ids(ledger)' = Ids(ledger)
    BY <1>3, <1>4 DEF Ids
  <1>8. \A x : x # s => MirrorsOf(x)' = MirrorsOf(x)
    BY <1>4, <1>6 DEF MirrorsOf
  <1>9. Blank' /\ Numbered' /\ Archived'
    <2>1. \A x \in Source : (MirrorsOf(x) = {}) => (MirrorsOf(x)' = {})
      BY <1>6
    <2>2. Blank'
      BY <1>2, <2>1 DEF Inv, Books, Blank
    <2>3. Numbered'
      BY <1>2, <1>3, <1>4, <1>5 DEF Inv, Books, Numbered
    <2>4. Archived'
      BY <1>2 DEF Inv, Books, Archived, Typed, TypeOK, ArchivedRow, Entry
    <2> QED
      BY <2>2, <2>3, <2>4
  <1>10. SourcesMirrored'
    <2>1. PICK e \in ledger : MirrorsOf(s) = {e} /\ e.amount = sources[s].amount
      BY <1>1 DEF Inv, Books, SourcesMirrored
    <2>2. MirrorsOf(s)' = {Up(e)} /\ Up(e) \in ledger'
      BY <1>3, <1>6, <2>1
    <2>3. e.ref = s
      BY <2>1 DEF MirrorsOf
    <2>4. Up(e).amount = sources'[s].amount
      BY <1>2, <1>4, <2>1, <2>3 DEF Edited
    <2>5. \A x \in Expense : Live(x)' =>
             \E f \in ledger' : MirrorsOf(x)' = {f} /\ f.amount = sources'[x].amount
      <3> SUFFICES ASSUME NEW x \in Expense, Live(x)', x # s
                   PROVE  \E f \in ledger' : MirrorsOf(x)' = {f} /\ f.amount = sources'[x].amount
        BY <2>2, <2>4
      <3>1. PICK f \in ledger : MirrorsOf(x) = {f} /\ f.amount = sources[x].amount
        BY <1>2 DEF Inv, Books, SourcesMirrored, Live, Source
      <3>2. f \in ledger'
        BY <1>8, <3>1 DEF MirrorsOf
      <3> QED
        BY <1>2, <1>8, <3>1, <3>2 DEF Source
    <2>6. \A p \in Payroll : Live(p)' =>
             /\ sources'[p].paid <=> MirrorsOf(p)' # {}
             /\ \A f \in MirrorsOf(p)' : f.amount = sources'[p].amount
      BY <1>1, <1>2, <1>8 DEF Inv, Books, SourcesMirrored, Live, Source
    <2> QED
      BY <2>5, <2>6 DEF SourcesMirrored
  <1>11. NoSplitPair'
    <2>1. \A x \in archive' : ~Live(x.src)' /\ (x.src \in Expense => MirrorsOf(x.src)' = {})
      BY <1>2, <1>6 DEF Inv, Books, NoSplitPair, Live, Typed, TypeOK, ArchivedRow
    <2>2. \A x \in archivedLedger' : ~Live(x.ref)'
      BY <1>2 DEF Inv, Books, NoSplitPair, Live, Typed, TypeOK, Entry
    <2> QED
      BY <1>2, <1>7, <2>1, <2>2 DEF Inv, Books, NoSplitPair, Ids
  <1>12. ASSUME NEW q \in Req \ {r}
         PROVE  Holds(q)'
    <2>1. Holds(q) /\ (req[q].op # "none" => req[q].src \in Source)
          /\ (req[q].op = "mark" => req[q].src \in Source \ {s})
      BY <1>1 DEF Inv, Holders, Typed, Shape, Idle, Source
    <2>2. \A e \in ledger' : \E f \in ledger : e.id = f.id /\ e.ref = f.ref
      BY <1>3, <1>4
    <2>3. \A x : \A e \in MirrorsOf(x)' : \E f \in MirrorsOf(x) : e.id = f.id
      BY <1>4, <1>6 DEF MirrorsOf
    <2>4. req'[q] = req[q] /\ posted' = posted
          /\ \A x \in Req : req'[x].op # "none" => req'[x] = req[x]
      BY <1>2, IdleTransaction
    <2>5. PICK y : y = req[q].src
      OBVIOUS
    <2>6. \A x \in Req : Updating(x, y)' => Updating(x, y)
      BY <2>4 DEF Updating
    <2>7. Updating(q, y)' => Live(y)' /\ \A x \in Req \ {q} : ~Updating(x, y)'
      <3> SUFFICES ASSUME Updating(q, y)'
                   PROVE  Live(y)' /\ \A x \in Req \ {q} : ~Updating(x, y)'
        OBVIOUS
      <3>1. Updating(q, y) /\ req[q].op # "none"
        BY <2>6 DEF Updating
      <3> QED
        BY <1>2, <2>1, <2>5, <2>6, <3>1 DEF Holds, Live
    <2>8. req[q].op = "update" /\ req[q].pc = "commit" /\ req[q].amount # None =>
             \A e \in MirrorsOf(y)' : e.id \in req[q].entries
      BY <2>1, <2>3, <2>5 DEF Holds
    <2> QED
      BY <1>2, <2>1, <2>2, <2>4, <2>5, <2>7, <2>8 DEF Holds
  <1>13. Captured'
    <2>1. \A e \in ledger' : \E f \in ledger : e.id = f.id /\ e.ref = f.ref
      BY <1>3, <1>4
    <2>2. job.ids \subseteq Source
      BY DEF Typed, TypeOK, Run
    <2> QED
      BY <1>2, <2>1, <2>2 DEF Inv, Captured, Live, Ids
  <1> QED
    BY <1>2, <1>9, <1>10, <1>11, <1>12, <1>13, EndedHolds DEF Inv, Books, Holders

\* Rows leave the live tables: sources G, and ledger rows of sources that are
\* gone.
LEMMA InvRemoval ==
  ASSUME LedgerAssumption, Typed, Inv, Typed', Captured', posted' = posted,
         NEW G \in SUBSET Source, \A s \in G : sources[s].state # "new" /\ RowFree(s),
         \A s \in Source : /\ sources'[s].amount = sources[s].amount
                           /\ sources'[s].paid = sources[s].paid
                           /\ sources'[s].state = IF s \in G THEN "gone"
                                                             ELSE sources[s].state,
         ledger' \subseteq ledger,
         \A e \in ledger \ ledger' : sources'[e.ref].state = "gone",
         \A e \in archivedLedger' : \/ e \in archivedLedger
                                    \/ /\ e.id <= posted /\ sources'[e.ref].state = "gone"
                                       /\ \A f \in ledger' : f.id # e.id,
         \A a \in archive' : \/ a \in archive
                             \/ /\ sources'[a.src].state = "gone"
                                /\ a.src \in Expense => MirrorsOf(a.src)' = {},
         \A q \in Req : req'[q] = req[q] \/ req'[q] = Idle
  PROVE  Inv'
  <1>1. \A s : MirrorsOf(s)' \subseteq MirrorsOf(s)
    BY DEF MirrorsOf
  <1>2. \A s \in Source : Live(s)' => Live(s) /\ MirrorsOf(s)' = MirrorsOf(s)
    BY DEF MirrorsOf, Live
  <1>3. /\ \A e \in ledger \cup archivedLedger : e.ref \in Source
        /\ \A a \in archive : a.src \in Source
    BY DEF Typed, TypeOK, Entry, ArchivedRow
  <1>4. Blank' /\ Numbered'
    BY <1>1 DEF Inv, Books, Blank, Numbered
  <1>5. Archived'
    BY <1>3 DEF Inv, Books, Archived
  <1>6. SourcesMirrored'
    <2>1. \A s \in Expense : Live(s)' =>
             \E e \in ledger' : MirrorsOf(s)' = {e} /\ e.amount = sources'[s].amount
      <3> SUFFICES ASSUME NEW s \in Expense, Live(s)'
                   PROVE  \E e \in ledger' : MirrorsOf(s)' = {e} /\ e.amount = sources'[s].amount
        OBVIOUS
      <3>1. PICK e \in ledger : MirrorsOf(s) = {e} /\ e.amount = sources[s].amount
        BY <1>2 DEF Inv, Books, SourcesMirrored, Source
      <3>2. MirrorsOf(s)' = {e} /\ s \in Source
        BY <1>2, <3>1 DEF Source
      <3>3. e \in ledger'
        BY <3>2 DEF MirrorsOf
      <3> QED
        BY <3>1, <3>2, <3>3
    <2>2. \A p \in Payroll : Live(p)' =>
             /\ sources'[p].paid <=> MirrorsOf(p)' # {}
             /\ \A e \in MirrorsOf(p)' : e.amount = sources'[p].amount
      BY <1>2 DEF Inv, Books, SourcesMirrored, Source
    <2> QED
      BY <2>1, <2>2 DEF SourcesMirrored
  <1>7. NoSplitPair'
    <2>1. \A a \in archive' : ~Live(a.src)' /\ (a.src \in Expense => MirrorsOf(a.src)' = {})
      BY <1>1, <1>2, <1>3 DEF Inv, Books, NoSplitPair, Live
    <2>2. \A e \in archivedLedger' : ~Live(e.ref)'
      BY <1>2, <1>3 DEF Inv, Books, NoSplitPair, Live
    <2>3. \A e \in archivedLedger', f \in ledger' : f.id # e.id
      BY DEF Inv, Books, NoSplitPair, Ids
    <2> QED
      BY <2>1, <2>2, <2>3 DEF NoSplitPair, Ids
  <1>8. ASSUME NEW q \in Req, req'[q] = req[q]
        PROVE  Holds(q)'
    <2>1. Holds(q) /\ (req[q].op # "none" => req[q].src \in Source)
      BY DEF Inv, Holders, Typed, Shape, Idle, Source
    <2>2. PICK y : y = req[q].src
      OBVIOUS
    <2>3. \A x \in Req : req'[x].op # "none" => req'[x] = req[x]
      BY IdleTransaction
    <2>4. \A x \in Req : Updating(x, y)' => Updating(x, y)
      BY <2>3 DEF Updating
    <2>5. Updating(q, y)' => Live(y)' /\ \A x \in Req \ {q} : ~Updating(x, y)'
      <3> SUFFICES ASSUME Updating(q, y)'
                   PROVE  Live(y)' /\ \A x \in Req \ {q} : ~Updating(x, y)'
        OBVIOUS
      <3>1. Updating(q, y) /\ y \notin G /\ y \in Source
        BY <2>1, <2>2, <2>4 DEF RowFree, Updating
      <3> QED
        BY <2>1, <2>2, <2>4, <3>1 DEF Holds, Live
    <2>6. req[q].op = "update" /\ req[q].pc = "commit" /\ req[q].amount # None =>
             \A e \in MirrorsOf(y)' : e.id \in req[q].entries
      BY <1>1, <2>1, <2>2 DEF Holds
    <2> QED
      BY <1>8, <2>1, <2>2, <2>3, <2>5, <2>6 DEF Holds
  <1> QED
    BY <1>4, <1>5, <1>6, <1>7, <1>8, EndedHolds DEF Inv, Books, Holders

LEMMA InvDelete ==
  ASSUME LedgerAssumption, Typed, Inv, Typed', NEW r \in Req, CommitDelete(r)
  PROVE  Inv'
  <1>1. PICK s \in Source : s = req[r].src
    BY DEF CommitDelete, Typed, Shape, Idle, Source
  <1>2. /\ Live(s) /\ RowFree(s)
        /\ sources' = [sources EXCEPT ![s].state = "gone"]
        /\ ledger' = {e \in ledger : e.id \notin req[r].entries}
        /\ req' = [req EXCEPT ![r] = Idle]
        /\ UNCHANGED <<archive, archivedLedger, posted, job>>
    BY <1>1 DEF CommitDelete
  <1>3. \A x \in Source : /\ sources'[x].amount = sources[x].amount
                          /\ sources'[x].paid = sources[x].paid
                          /\ sources'[x].state = IF x \in {s} THEN "gone" ELSE sources[x].state
    BY <1>2 DEF Typed, TypeOK, SourceRow
  <1>4. \A e \in ledger \ ledger' : e.ref = s
    BY <1>1, <1>2 DEF Inv, Holders, Holds
  <1>5. Captured'
    <2>1. job.ids \subseteq Source
      BY DEF Typed, TypeOK, Run
    <2> QED
      BY <1>2, <1>3, <2>1 DEF Inv, Captured, Live
  <1>6. \A q \in Req : req'[q] = req[q] \/ req'[q] = Idle
    BY <1>2 DEF Typed, TypeOK
  <1>7. \A x \in {s} : sources[x].state # "new" /\ RowFree(x)
    BY <1>2 DEF Live
  <1>8. /\ posted' = posted /\ ledger' \subseteq ledger /\ {s} \in SUBSET Source
        /\ \A e \in ledger \ ledger' : sources'[e.ref].state = "gone"
        /\ \A e \in archivedLedger' : e \in archivedLedger
        /\ \A a \in archive' : a \in archive
    BY <1>2, <1>3, <1>4
  <1> QED
    BY <1>3, <1>5, <1>6, <1>7, <1>8, InvRemoval

\* A batch that has ended has captured nothing.
LEMMA NewBatch ==
  ASSUME job' \in {NoRun} \cup {At(k) : k \in Steps}
  PROVE  Captured'
  <1>1. job'.ids = {} /\ job'.copied = {} /\ job'.moved = {} /\ job'.pc \in {"idle", "select"}
    BY Runs
  <1> QED
    BY <1>1 DEF Captured

LEMMA InvJobCommit ==
  ASSUME LedgerAssumption, Typed, Inv, Typed', NEW k \in Steps, JobCommit(k)
  PROVE  Inv'
  <1>1. PICK G \in SUBSET Source : G = job.ids
    BY DEF Typed, TypeOK, Run
  <1>2. /\ job.pc = "remove" /\ \A s \in G : RowFree(s)
        /\ sources' = [s \in Source |-> IF s \in G THEN [sources[s] EXCEPT !.state = "gone"]
                                                   ELSE sources[s]]
        /\ ledger' = {e \in ledger : e.id \notin Ids(job.moved)}
        /\ archive' = archive \cup job.copied
        /\ archivedLedger' = archivedLedger \cup job.moved
        /\ UNCHANGED <<posted, req>>
    BY <1>1 DEF JobCommit
  <1>3. \A s \in Source : /\ sources'[s].amount = sources[s].amount
                          /\ sources'[s].paid = sources[s].paid
                          /\ sources'[s].state = IF s \in G THEN "gone" ELSE sources[s].state
    BY <1>2 DEF Typed, TypeOK, SourceRow
  <1>4. Captured'
    BY NextRuns, NewBatch DEF JobCommit
  <1>5. /\ \A s \in G : sources[s].state # "new"
        /\ \A m \in job.moved : m.ref \in G /\ m.id <= posted
        /\ \A m \in job.moved, e \in ledger : e.id = m.id => e.ref \in G
        /\ \A a \in job.copied : a.src \in G
        /\ \A e \in ledger : e.ref \in G \cap Expense => e.id \in Ids(job.moved)
    BY <1>1, <1>2 DEF Inv, Captured
  <1>6. \A e \in ledger \ ledger' : sources'[e.ref].state = "gone"
    <2>1. \A e \in ledger \ ledger' : e.ref \in G
      BY <1>2, <1>5 DEF Ids
    <2> QED
      BY <1>3, <2>1
  <1>7. \A e \in archivedLedger' : \/ e \in archivedLedger
                                   \/ /\ e.id <= posted /\ sources'[e.ref].state = "gone"
                                      /\ \A f \in ledger' : f.id # e.id
    BY <1>2, <1>3, <1>5 DEF Ids
  <1>8. \A a \in archive' : \/ a \in archive
                            \/ /\ sources'[a.src].state = "gone"
                               /\ a.src \in Expense => MirrorsOf(a.src)' = {}
    BY <1>2, <1>3, <1>5 DEF MirrorsOf
  <1>9. \A q \in Req : req'[q] = req[q] \/ req'[q] = Idle
    BY <1>2
  <1>10. ledger' \subseteq ledger /\ posted' = posted
         /\ \A s \in G : sources[s].state # "new" /\ RowFree(s)
    BY <1>2, <1>5
  <1> QED
    BY <1>3, <1>4, <1>6, <1>7, <1>8, <1>9, <1>10, InvRemoval

LEMMA InvLeftovers ==
  ASSUME LedgerAssumption, Typed, Inv, Typed', archiveLedgerLeftovers
  PROVE  Inv'
  <1>1. PICK E \in SUBSET Leftovers : ledger' = ledger \ E /\ archivedLedger' = archivedLedger \cup E
    BY DEF archiveLedgerLeftovers
  <1>2. UNCHANGED <<sources, archive, posted, req>>
    BY DEF archiveLedgerLeftovers
  <1>3. \A e \in E : e \in ledger /\ sources[e.ref].state = "gone"
    <2>1. \A e \in E : e \in ledger /\ e.ref \in Source /\ ~Live(e.ref)
      BY DEF Leftovers, Typed, TypeOK, Entry
    <2>2. \A e \in E : sources[e.ref].state # "new"
      BY <2>1 DEF Inv, Books, Blank, MirrorsOf
    <2> QED
      BY <2>1, <2>2 DEF Live, Typed, TypeOK, SourceRow
  <1>4. \A e \in E : e.id <= posted /\ \A f \in ledger' : f.id # e.id
    BY <1>1, <1>3 DEF Inv, Books, Numbered
  <1>5. Captured'
    BY NextRuns, NewBatch DEF archiveLedgerLeftovers, Steps
  <1>6. \A s \in {} : sources[s].state # "new" /\ RowFree(s)
    OBVIOUS
  <1> QED
    BY <1>1, <1>2, <1>3, <1>4, <1>5, <1>6, InvRemoval

LEMMA InvRecord ==
  ASSUME LedgerAssumption, Typed, Inv, NEW r \in Req, NEW a \in Amounts, CommitRecord(r, a)
  PROVE  Inv'
  <1>0. PICK p \in Payroll : p = req[r].src
    BY DEF CommitRecord, Typed, Shape, Idle
  <1>1. /\ p \in Source /\ p \notin Expense /\ sources[p].state = "new"
        /\ ~sources[p].paid /\ MirrorsOf(p) = {}
        /\ \A q \in Req \ {r} : req[q].op = "record" => req[q].src # p
    BY <1>0 DEF CommitRecord, Inv, Holders, Holds, Books, Blank, Source, LedgerAssumption
  <1>2. /\ \A x \in Source \ {p} : sources'[x] = sources[x]
        /\ sources'[p].state = "live" /\ ~sources'[p].paid /\ sources'[p].amount = a
        /\ UNCHANGED <<ledger, archive, archivedLedger, posted, job>>
        /\ req'[r] = Idle /\ \A q \in Req \ {r} : req'[q] = req[q]
    BY <1>0, <1>1 DEF CommitRecord, Typed, TypeOK, SourceRow
  <1>3. \A x : MirrorsOf(x)' = MirrorsOf(x)
    BY <1>2 DEF MirrorsOf
  <1>4. /\ \A e \in archivedLedger : e.ref \in Source \ {p}
        /\ \A x \in archive : x.src \in Source \ {p}
        /\ \A x \in job.ids : x \in Source \ {p}
    BY <1>1 DEF Inv, Books, Archived, Captured, Typed, TypeOK, Entry, ArchivedRow, Run
  <1>5. Blank' /\ Numbered' /\ Archived' /\ NoSplitPair'
    BY <1>2, <1>3, <1>4 DEF Inv, Books, Blank, Numbered, Archived, NoSplitPair, Live, Ids
  <1>6. SourcesMirrored'
    BY <1>1, <1>2, <1>3 DEF Inv, Books, SourcesMirrored, Live, Source
  <1>7. ASSUME NEW q \in Req \ {r}
        PROVE  Holds(q)'
    <2>1. PICK y : y = req[q].src
      OBVIOUS
    <2>2. /\ Holds(q) /\ (req[q].op # "none" => y \in Source)
          /\ req[q].op \in {"mark", "record"} => y \in Source \ {p}
          /\ Live(y) => y # p
      BY <1>1, <2>1 DEF Inv, Holders, Holds, Typed, Shape, Idle, Source, Live
    <2>3. \A x \in Req : req'[x].op # "none" => req'[x] = req[x]
      BY <1>2, IdleTransaction
    <2>4. \A x \in Req : Updating(x, y)' => Updating(x, y)
      BY <2>3 DEF Updating
    <2>5. Updating(q, y)' => Live(y)' /\ \A x \in Req \ {q} : ~Updating(x, y)'
      <3> SUFFICES ASSUME Updating(q, y)'
                   PROVE  Live(y)' /\ \A x \in Req \ {q} : ~Updating(x, y)'
        OBVIOUS
      <3>1. Updating(q, y) /\ req[q].op # "none"
        BY <2>4 DEF Updating
      <3> QED
        BY <1>2, <2>1, <2>2, <2>4, <3>1 DEF Holds, Live
    <2> QED
      BY <1>2, <1>3, <2>1, <2>2, <2>3, <2>5 DEF Holds
  <1>8. Captured'
    BY <1>2, <1>4 DEF Inv, Captured, Live
  <1> QED
    BY <1>2, <1>5, <1>6, <1>7, <1>8, EndedHolds DEF Inv, Books, Holders

LEMMA InvMark ==
  ASSUME LedgerAssumption, Typed, Inv, NEW r \in Req, CommitMark(r)
  PROVE  Inv'
  <1>0. PICK p \in Payroll : p = req[r].src
    BY DEF CommitMark, Typed, Shape, Idle
  <1>1. /\ p \in Source /\ p \notin Expense /\ Live(p) /\ posted \in Nat
        /\ req[r].amount = sources[p].amount
    BY <1>0 DEF CommitMark, Inv, Holders, Holds, Source, LedgerAssumption, Typed, TypeOK
  <1>2. /\ \A x \in Source : sources'[x].state = sources[x].state
                             /\ sources'[x].amount = sources[x].amount
        /\ \A x \in Source \ {p} : sources'[x] = sources[x]
        /\ sources'[p].paid
        /\ UNCHANGED <<archive, archivedLedger, job>>
        /\ req'[r] = Idle /\ \A q \in Req \ {r} : req'[q] = req[q]
    BY <1>0, <1>1 DEF CommitMark, Typed, TypeOK, SourceRow
  <1>3. PICK n : /\ n.id = posted + 1 /\ n.ref = p /\ n.amount = sources[p].amount
                 /\ ledger' = ledger \cup {n} /\ posted' = posted + 1
    BY <1>0, <1>1 DEF CommitMark, recordLedgerEntry
  <1>4. /\ \A e \in ledger \cup archivedLedger :
             e.id \in Nat /\ e.id <= posted /\ e.ref \in Source
        /\ \A m \in job.moved : m.id \in Nat /\ m.id <= posted
        /\ \A q \in Req : \A i \in req[q].entries : i \in Nat /\ i <= posted
        /\ \A x \in archive : x.src \in Source
    BY DEF Inv, Books, Numbered, Captured, Holders, Holds, Typed, TypeOK, Entry, Run,
           Transaction, ArchivedRow
  <1>5. /\ \A x : x # p => MirrorsOf(x)' = MirrorsOf(x)
        /\ MirrorsOf(p)' = MirrorsOf(p) \cup {n}
    BY <1>3 DEF MirrorsOf
  <1>6. Blank' /\ Numbered' /\ Archived'
    <2>1. Blank'
      BY <1>1, <1>2, <1>5 DEF Inv, Books, Blank, Live
    <2>2. Numbered'
      BY <1>1, <1>2, <1>3, <1>4 DEF Inv, Books, Numbered
    <2>3. Archived'
      BY <1>2, <1>4 DEF Inv, Books, Archived
    <2> QED
      BY <2>1, <2>2, <2>3
  <1>7. SourcesMirrored'
    <2>1. \A s \in Expense : Live(s)' =>
             \E e \in ledger' : MirrorsOf(s)' = {e} /\ e.amount = sources'[s].amount
      BY <1>1, <1>2, <1>3, <1>5 DEF Inv, Books, SourcesMirrored, Live, Source
    <2>2. \A q \in Payroll \ {p} : Live(q)' =>
             /\ sources'[q].paid <=> MirrorsOf(q)' # {}
             /\ \A e \in MirrorsOf(q)' : e.amount = sources'[q].amount
      BY <1>2, <1>5 DEF Inv, Books, SourcesMirrored, Live, Source
    <2>3. /\ sources'[p].paid <=> MirrorsOf(p)' # {}
          /\ \A e \in MirrorsOf(p)' : e.amount = sources'[p].amount
      BY <1>1, <1>2, <1>3, <1>5 DEF Inv, Books, SourcesMirrored
    <2> QED
      BY <2>1, <2>2, <2>3 DEF SourcesMirrored
  <1>8. NoSplitPair'
    <2>1. \A x \in archive' : ~Live(x.src)' /\ (x.src \in Expense => MirrorsOf(x.src)' = {})
      BY <1>1, <1>2, <1>4, <1>5 DEF Inv, Books, NoSplitPair, Live
    <2>2. \A e \in archivedLedger' : ~Live(e.ref)'
      BY <1>2, <1>4 DEF Inv, Books, NoSplitPair, Live
    <2>3. \A e \in ledger', f \in archivedLedger' : e.id # f.id
      BY <1>1, <1>2, <1>3, <1>4 DEF Inv, Books, NoSplitPair, Ids
    <2> QED
      BY <2>1, <2>2, <2>3 DEF NoSplitPair, Ids
  <1>9. ASSUME NEW q \in Req \ {r}
        PROVE  Holds(q)'
    <2>1. PICK y : y = req[q].src
      OBVIOUS
    <2>2. /\ Holds(q) /\ (req[q].op # "none" => y \in Source)
          /\ req[q].op = "update" => y \in Expense
          /\ \A e \in ledger' : e.id \in req[q].entries => e.ref = y
      BY <1>1, <1>3, <1>4, <2>1 DEF Inv, Holders, Holds, Typed, Shape, Idle, Source
    <2>3. \A x \in Req : req'[x].op # "none" => req'[x] = req[x]
      BY <1>2, IdleTransaction
    <2>4. \A x \in Req : Updating(x, y)' => Updating(x, y)
      BY <2>3 DEF Updating
    <2>5. Updating(q, y)' => Live(y)' /\ \A x \in Req \ {q} : ~Updating(x, y)'
      <3> SUFFICES ASSUME Updating(q, y)'
                   PROVE  Live(y)' /\ \A x \in Req \ {q} : ~Updating(x, y)'
        OBVIOUS
      <3>1. Updating(q, y) /\ req[q].op # "none"
        BY <2>4 DEF Updating
      <3> QED
        BY <1>2, <2>1, <2>2, <2>4, <3>1 DEF Holds, Live
    <2>6. \A i \in req[q].entries : i <= posted'
      BY <1>1, <1>3, <1>4
    <2>7. req[q].op = "update" /\ req[q].pc = "commit" /\ req[q].amount # None =>
             \A e \in MirrorsOf(y)' : e.id \in req[q].entries
      BY <1>1, <1>5, <2>1, <2>2 DEF Holds
    <2> QED
      BY <1>2, <2>1, <2>2, <2>3, <2>5, <2>6, <2>7 DEF Holds
  <1>10. Captured'
    <2>1. job.ids \subseteq Source
      BY DEF Typed, TypeOK, Run
    <2> QED
      BY <1>1, <1>2, <1>3, <1>4, <2>1 DEF Inv, Captured, Live
  <1> QED
    BY <1>2, <1>6, <1>7, <1>8, <1>9, <1>10, EndedHolds DEF Inv, Books, Holders

-----------------------------------------------------------------------------
(* The archive run *)

\* Rows grow old; nothing else about them changes.
LEMMA InvJobStart ==
  ASSUME LedgerAssumption, Typed, Inv, JobStart
  PROVE  Inv'
  <1>1. PICK S \in SUBSET {s \in Source : Live(s)}, E \in SUBSET ledger :
          /\ sources' = [s \in Source |->
               IF s \in S THEN [sources[s] EXCEPT !.old = TRUE] ELSE sources[s]]
          /\ ledger' = (ledger \ E) \cup {[e EXCEPT !.old = TRUE] : e \in E}
    BY DEF JobStart
  <1> DEFINE Up(e) == IF e \in E THEN [e EXCEPT !.old = TRUE] ELSE e
  <1>2. ledger' = {Up(e) : e \in ledger}
    BY <1>1
  <1>3. \A e \in ledger : Up(e).id = e.id /\ Up(e).ref = e.ref /\ Up(e).amount = e.amount
    BY DEF Typed, TypeOK, Entry
  <1> HIDE DEF Up
  <1>4. \A s \in Source : /\ sources'[s].state = sources[s].state
                          /\ sources'[s].paid = sources[s].paid
                          /\ sources'[s].amount = sources[s].amount
    BY <1>1 DEF Typed, TypeOK, SourceRow
  <1>5. UNCHANGED <<archive, archivedLedger, posted, req>>
    BY DEF JobStart
  <1>6. \A s : MirrorsOf(s)' = {Up(e) : e \in MirrorsOf(s)}
    BY <1>2, <1>3 DEF MirrorsOf
  <1>7. Ids(ledger)' = Ids(ledger)
    BY <1>2, <1>3 DEF Ids
  <1>8. Blank' /\ Numbered' /\ Archived'
    <2>1. \A s \in Source : (MirrorsOf(s) = {}) => (MirrorsOf(s)' = {})
      BY <1>6
    <2>2. Blank'
      BY <1>4, <2>1 DEF Inv, Books, Blank
    <2>3. Numbered'
      BY <1>2, <1>3, <1>5 DEF Inv, Books, Numbered
    <2>4. Archived'
      BY <1>4, <1>5 DEF Inv, Books, Archived, Typed, TypeOK, ArchivedRow, Entry
    <2> QED
      BY <2>2, <2>3, <2>4
  <1>9. SourcesMirrored'
    <2>1. \A s \in Expense : Live(s)' =>
             \E e \in ledger' : MirrorsOf(s)' = {e} /\ e.amount = sources'[s].amount
      <3> SUFFICES ASSUME NEW s \in Expense, Live(s)'
                   PROVE  \E e \in ledger' : MirrorsOf(s)' = {e} /\ e.amount = sources'[s].amount
        OBVIOUS
      <3>1. PICK e \in ledger : MirrorsOf(s) = {e} /\ e.amount = sources[s].amount
        BY <1>4 DEF Inv, Books, SourcesMirrored, Live, Source
      <3>2. MirrorsOf(s)' = {Up(e)} /\ Up(e) \in ledger'
        BY <1>2, <1>6, <3>1
      <3>3. Up(e).amount = sources'[s].amount
        BY <1>3, <1>4, <3>1 DEF Source
      <3> QED
        BY <3>2, <3>3
    <2>2. \A p \in Payroll : Live(p)' =>
             /\ sources'[p].paid <=> MirrorsOf(p)' # {}
             /\ \A e \in MirrorsOf(p)' : e.amount = sources'[p].amount
      <3> SUFFICES ASSUME NEW p \in Payroll, Live(p)'
                   PROVE  /\ sources'[p].paid <=> MirrorsOf(p)' # {}
                          /\ \A e \in MirrorsOf(p)' : e.amount = sources'[p].amount
        OBVIOUS
      <3>1. /\ p \in Source /\ sources[p].paid <=> MirrorsOf(p) # {}
            /\ \A e \in MirrorsOf(p) : e \in ledger /\ e.amount = sources[p].amount
        BY <1>4 DEF Inv, Books, SourcesMirrored, Live, Source, MirrorsOf
      <3>2. MirrorsOf(p) # {} <=> MirrorsOf(p)' # {}
        BY <1>6
      <3>3. \A e \in MirrorsOf(p)' : e.amount = sources[p].amount
        BY <1>3, <1>6, <3>1
      <3>4. p \in Source /\ sources'[p].paid = sources[p].paid
            /\ sources'[p].amount = sources[p].amount
        BY <1>4 DEF Source
      <3>5. sources'[p].paid <=> MirrorsOf(p)' # {}
        BY <3>1, <3>2, <3>4
      <3> QED
        BY <3>3, <3>4, <3>5
    <2> QED
      BY <2>1, <2>2 DEF SourcesMirrored
  <1>10. NoSplitPair'
    <2>1. \A x \in archive' : ~Live(x.src)' /\ (x.src \in Expense => MirrorsOf(x.src)' = {})
      BY <1>4, <1>5, <1>6 DEF Inv, Books, NoSplitPair, Live, Typed, TypeOK, ArchivedRow
    <2>2. \A x \in archivedLedger' : ~Live(x.ref)'
      BY <1>4, <1>5 DEF Inv, Books, NoSplitPair, Live, Typed, TypeOK, Entry
    <2> QED
      BY <1>5, <1>7, <2>1, <2>2 DEF Inv, Books, NoSplitPair, Ids
  <1>11. ASSUME NEW q \in Req
         PROVE  Holds(q)'
    <2>1. PICK y : y = req[q].src
      OBVIOUS
    <2>2. Holds(q) /\ (req[q].op # "none" => y \in Source)
      BY <2>1 DEF Inv, Holders, Typed, Shape, Idle, Source
    <2>3. \A e \in ledger' : \E f \in ledger : e.id = f.id /\ e.ref = f.ref
      BY <1>2, <1>3
    <2>4. \A x \in Req : Updating(x, y)' <=> Updating(x, y)
      BY <1>5 DEF Updating
    <2>5. Updating(q, y)' => Live(y)' /\ \A x \in Req \ {q} : ~Updating(x, y)'
      <3> SUFFICES ASSUME Updating(q, y)'
                   PROVE  Live(y)' /\ \A x \in Req \ {q} : ~Updating(x, y)'
        OBVIOUS
      <3>1. Updating(q, y) /\ req[q].op # "none"
        BY <2>4 DEF Updating
      <3> QED
        BY <1>4, <2>1, <2>2, <2>4, <3>1 DEF Holds, Live
    <2>6. \A e \in MirrorsOf(y)' : \E f \in MirrorsOf(y) : e.id = f.id
      BY <1>3, <1>6 DEF MirrorsOf
    <2>7. req[q].op = "update" /\ req[q].pc = "commit" /\ req[q].amount # None =>
             \A e \in MirrorsOf(y)' : e.id \in req[q].entries
      BY <2>1, <2>2, <2>6 DEF Holds
    <2> QED
      BY <1>4, <1>5, <2>1, <2>2, <2>3, <2>5, <2>7 DEF Holds
  <1>12. Captured'
    BY NewBatch DEF JobStart, Steps
  <1> QED
    BY <1>8, <1>9, <1>10, <1>11, <1>12 DEF Inv, Books, Holders

\* Steps of the run that the tables do not show yet.
LEMMA InvBatch ==
  ASSUME LedgerAssumption, Typed, Inv, NEW k \in Steps,
         \/ JobSelect(k) \/ JobCopy(k) \/ moveLedgerMirrors(k) \/ moveLedgerRows(k)
         \/ StepFails(k) \/ JobCrash
  PROVE  Inv'
  <1>1. UNCHANGED <<db, req>>
    BY DEF JobSelect, JobCopy, moveLedgerMirrors, moveLedgerRows, StepFails, JobCrash
  <1>2. Books' /\ Holders'
    BY <1>1 DEF Inv, Books, Blank, Numbered, Archived, SourcesMirrored, NoSplitPair,
       Holders, Holds, Updating, Live, MirrorsOf, Ids, db
  <1> SUFFICES Captured'
    BY <1>2 DEF Inv
  <1>3. Captured /\ job.pc \in {"idle", "select", "copy", "mirrors", "unlink", "remove"}
    BY DEF Inv, Typed, TypeOK, Run
  <1>4. CASE StepFails(k) \/ JobCrash
    BY <1>4, NextRuns, NewBatch DEF StepFails, JobCrash
  <1>5. CASE JobSelect(k)
    <2>1. PICK ids \in SUBSET Eligible(k) :
            job' = IF ids = {} THEN NextStep(k) ELSE [job EXCEPT !.pc = "copy", !.ids = ids]
      BY <1>5 DEF JobSelect
    <2>2. CASE ids = {}
      BY <2>1, <2>2, NextRuns, NewBatch
    <2>3. CASE ids # {}
      <3>1. /\ job'.pc = "copy" /\ job'.ids = ids /\ job'.copied = {} /\ job'.moved = {}
        BY <1>3, <1>5, <2>1, <2>3 DEF JobSelect, Captured, Typed, TypeOK, Run
      <3>2. \A s \in ids : sources'[s].state # "new"
        BY <1>1 DEF Eligible, Live, db
      <3> QED
        BY <3>1, <3>2 DEF Captured
    <2> QED
      BY <2>2, <2>3
  <1>6. CASE JobCopy(k)
    <2>1. PICK C : /\ job' = [job EXCEPT !.pc = "mirrors", !.copied = C]
                   /\ C = {[src |-> s, amount |-> sources[s].amount, paid |-> sources[s].paid] :
                             s \in {t \in job.ids : Live(t)}}
      BY <1>6 DEF JobCopy
    <2>2. /\ \A a \in C : a.src \in job.ids
          /\ \A s \in job.ids : Live(s) => \E a \in C : a.src = s
      <3> DEFINE Copy(s) == [src |-> s, amount |-> sources[s].amount, paid |-> sources[s].paid]
      <3>1. \A s : Copy(s).src = s
        OBVIOUS
      <3>2. C = {Copy(s) : s \in {t \in job.ids : Live(t)}}
        BY <2>1
      <3> HIDE DEF Copy
      <3> QED
        BY <3>1, <3>2
    <2>3. /\ job'.pc = "mirrors" /\ job'.ids = job.ids /\ job'.copied = C
          /\ job'.moved = job.moved
      BY <2>1 DEF Typed, TypeOK, Run
    <2> QED
      BY <1>1, <1>3, <2>2, <2>3 DEF Captured, Live, db
  <1>7. CASE moveLedgerMirrors(k)
    <2>1. PICK M : /\ job' = [job EXCEPT !.pc = "unlink", !.moved = M]
                   /\ M = {e \in ledger : e.ref \in job.ids}
      BY <1>7 DEF moveLedgerMirrors
    <2>2. /\ job'.pc = "unlink" /\ job'.ids = job.ids /\ job'.copied = job.copied
          /\ job'.moved = M /\ job.pc = "mirrors"
      BY <1>7, <2>1 DEF moveLedgerMirrors, Typed, TypeOK, Run
    <2>3. /\ \A m \in M : m.ref \in job.ids /\ m.id <= posted
                          /\ \A e \in ledger : e.id = m.id => e.ref = m.ref
          /\ \A e \in ledger : e.ref \in job.ids => e.id \in Ids(M)
      BY <2>1 DEF Ids, Inv, Books, Numbered
    <2> QED
      BY <1>1, <1>3, <2>2, <2>3 DEF Captured, Live, db
  <1>8. CASE moveLedgerRows(k)
    <2>1. /\ job'.pc = "remove" /\ job'.ids = job.ids /\ job'.copied = job.copied
          /\ job'.moved = job.moved /\ job.pc = "unlink"
      BY <1>8 DEF moveLedgerRows, Typed, TypeOK, Run
    <2> QED
      BY <1>1, <1>3, <2>1 DEF Captured, Live, db, Ids
  <1> QED
    BY <1>4, <1>5, <1>6, <1>7, <1>8

LEMMA InvNext ==
  ASSUME LedgerAssumption, Typed, Inv, [Next]_vars
  PROVE  Inv'
  <1>1. Typed'
    BY TypeNext
  <1>2. CASE ArchiveJob
    BY <1>1, <1>2, InvJobStart, InvBatch, InvJobCommit, InvLeftovers
       DEF ArchiveJob, BatchStep, Steps
  <1>3. ASSUME NEW r \in Req, Commit(r)
        PROVE  Inv'
    BY <1>1, <1>3, InvUpdate, InvDelete, InvRecord, InvMark DEF Commit
  <1>4. ASSUME NEW r \in Req, Request(r)
        PROVE  Inv'
    BY <1>3, <1>4, InvPrivate DEF Request
  <1>5. CASE UNCHANGED vars
    <2>1. Books'
      BY <1>5 DEF vars, Inv, Books, Blank, Numbered, Archived, SourcesMirrored,
         NoSplitPair, Live, MirrorsOf, Ids
    <2>2. Holders'
      BY <1>5 DEF vars, Inv, Holders, Holds, Updating, Live, MirrorsOf
    <2>3. Captured'
      BY <1>5 DEF vars, Inv, Captured, Live, Ids
    <2> QED
      BY <2>1, <2>2, <2>3 DEF Inv
  <1> QED
    BY <1>2, <1>4, <1>5, InvCreate DEF Next

-----------------------------------------------------------------------------
(* What follows *)

\* The P&L sums the mirrors: whatever requests and batches overlap, a live
\* expense has exactly one mirror, with its amount, and a live payroll has one
\* if and only if it is paid.
THEOREM BooksAgree ==
  ASSUME LedgerAssumption
  PROVE  Spec => []SourcesMirrored
  <1>1. Init => Typed /\ Inv
    BY TypeInit, InvInit
  <1>2. Typed /\ Inv /\ [Next]_vars => (Typed /\ Inv)'
    BY TypeNext, InvNext
  <1>3. Inv => SourcesMirrored
    BY DEF Inv, Books
  <1> QED
    BY <1>1, <1>2, <1>3, PTL DEF Spec

\* A source and its ledger row are archived together.
THEOREM PairsMoveTogether ==
  ASSUME LedgerAssumption
  PROVE  Spec => []NoSplitPair
  <1>1. Init => Typed /\ Inv
    BY TypeInit, InvInit
  <1>2. Typed /\ Inv /\ [Next]_vars => (Typed /\ Inv)'
    BY TypeNext, InvNext
  <1>3. Inv => NoSplitPair
    BY DEF Inv, Books
  <1> QED
    BY <1>1, <1>2, <1>3, PTL DEF Spec

\* What a step takes out of the live tables.
LEMMA RowsLeave ==
  ASSUME LedgerAssumption, Typed, Inv, Typed', [Next]_vars
  PROVE  /\ \A s \in Source : Live(s) /\ ~Live(s)' =>
              (\E a \in archive' : a.src = s) \/ (\E r \in Req : Deletes(r, s))
         /\ \A e \in ledger : e.id \notin Ids(ledger)' =>
              e.id \in Ids(archivedLedger)' \/ (\E r \in Req : Deletes(r, e.ref))
  <1> DEFINE A == /\ \A s \in Source : Live(s) /\ ~Live(s)' =>
                       (\E a \in archive' : a.src = s) \/ (\E r \in Req : Deletes(r, s))
                  /\ \A e \in ledger : e.id \notin Ids(ledger)' =>
                       e.id \in Ids(archivedLedger)' \/ (\E r \in Req : Deletes(r, e.ref))
  <1> SUFFICES A
    OBVIOUS
  <1>1. ASSUME NEW r \in Req, CommitDelete(r)
        PROVE  A
    <2>1. /\ req[r].op = "delete" /\ req[r].pc = "drop" /\ req'[r].pc = "idle"
          /\ \A s \in Source : s # req[r].src => sources'[s] = sources[s]
          /\ \A e \in ledger : e.id \notin req[r].entries => e \in ledger'
      BY <1>1, IdleTransaction DEF CommitDelete, Typed, TypeOK
    <2>2. \A e \in ledger : e.id \in req[r].entries => e.ref = req[r].src
      BY DEF Inv, Holders, Holds
    <2> QED
      BY <2>1, <2>2 DEF Deletes, Live, Ids
  <1>2. ASSUME NEW k \in Steps, JobCommit(k)
        PROVE  A
    <2>1. /\ \A s \in Source : s \notin job.ids => sources'[s] = sources[s]
          /\ \A s \in job.ids : Live(s) => \E a \in archive' : a.src = s
          /\ \A e \in ledger : e.id \notin Ids(job.moved) => e \in ledger'
          /\ job.moved \subseteq archivedLedger'
      BY <1>2 DEF JobCommit, Inv, Captured
    <2> QED
      BY <2>1 DEF Live, Ids
  <1>3. CASE archiveLedgerLeftovers
    BY <1>3 DEF archiveLedgerLeftovers, Live, Ids
  <1>4. ASSUME \A s \in Source : Live(s) => Live(s)',
               \A e \in ledger : \E f \in ledger' : e.id = f.id
        PROVE  A
    BY <1>4 DEF Ids
  <1>5. ASSUME UNCHANGED <<sources, ledger>>
        PROVE  A
    BY <1>4, <1>5 DEF Live
  <1>6. ASSUME NEW s \in Expense, NEW a \in Amounts, createExpense(s, a)
        PROVE  A
    BY <1>4, <1>6 DEF createExpense, recordLedgerEntry, Live, Typed, TypeOK, SourceRow
  <1>7. ASSUME NEW r \in Req, CommitUpdate(r)
        PROVE  A
    <2>1. \A s \in Source : Live(s) => Live(s)'
      BY <1>7 DEF CommitUpdate, Live, Typed, TypeOK, SourceRow
    <2>2. \A e \in ledger : \E f \in ledger' : e.id = f.id
      <3>1. \A e \in ledger : [e EXCEPT !.amount = Edited(r, @)].id = e.id
        BY DEF Typed, TypeOK, Entry
      <3> QED
        BY <1>7, <3>1 DEF CommitUpdate
    <2> QED
      BY <1>4, <2>1, <2>2
  <1>8. ASSUME NEW r \in Req, (\E a \in Amounts : CommitRecord(r, a)) \/ CommitMark(r)
        PROVE  A
    <2>1. \A s \in Source : Live(s) => Live(s)'
      <3>1. CASE CommitMark(r)
        BY <3>1 DEF CommitMark, Live, Typed, TypeOK, SourceRow
      <3>2. ASSUME NEW a \in Amounts, CommitRecord(r, a)
            PROVE  \A s \in Source : Live(s) => Live(s)'
        BY <3>2 DEF CommitRecord, Live, Typed, TypeOK, SourceRow
      <3> QED
        BY <1>8, <3>1, <3>2
    <2>2. ledger \subseteq ledger'
      BY <1>8 DEF CommitRecord, CommitMark, recordLedgerEntry
    <2> QED
      BY <1>4, <2>1, <2>2
  <1>9. CASE JobStart
    <2>1. \A s \in Source : Live(s) => Live(s)'
      BY <1>9 DEF JobStart, Live, Typed, TypeOK, SourceRow
    <2>2. \A e \in ledger : \E f \in ledger' : e.id = f.id
      <3>1. \A e \in ledger : [e EXCEPT !.old = TRUE].id = e.id
        BY DEF Typed, TypeOK, Entry
      <3> QED
        BY <1>9, <3>1 DEF JobStart
    <2> QED
      BY <1>4, <2>1, <2>2
  <1>10. ASSUME NEW r \in Req, Request(r), ~Commit(r)
         PROVE  A
    BY <1>5, <1>10 DEF Request, UpdateStart, DeleteStart, RecordStart, MarkStart, UpdateRow,
       updateLedgerEntry, removeLedgerEntry, Rollback, db
  <1>11. ASSUME NEW k \in Steps, JobSelect(k) \/ JobCopy(k) \/ moveLedgerMirrors(k)
                                 \/ moveLedgerRows(k) \/ StepFails(k) \/ JobCrash
         PROVE  A
    BY <1>5, <1>11 DEF JobSelect, JobCopy, moveLedgerMirrors, moveLedgerRows, StepFails,
       JobCrash, db
  <1>12. CASE UNCHANGED vars
    BY <1>5, <1>12 DEF vars
  <1> HIDE DEF A
  <1>13. CASE ArchiveJob
    BY <1>2, <1>3, <1>9, <1>11, <1>13 DEF ArchiveJob, BatchStep, Steps
  <1>14. ASSUME NEW r \in Req, Request(r)
         PROVE  A
    BY <1>1, <1>7, <1>8, <1>10, <1>14 DEF Commit
  <1> QED
    BY <1>6, <1>12, <1>13, <1>14 DEF Next

\* No row is lost: what leaves a live table without a user's deletion is in
\* the archive.
THEOREM NothingLost ==
  ASSUME LedgerAssumption
  PROVE  Spec => RowsLeaveOnlyToArchive
  <1>1. Init => Typed /\ Inv
    BY TypeInit, InvInit
  <1>2. Typed /\ Inv /\ [Next]_vars => (Typed /\ Inv)'
    BY TypeNext, InvNext
  <1> DEFINE A == /\ \A s \in Source : Live(s) /\ ~Live(s)' =>
                       (\E a \in archive' : a.src = s) \/ (\E r \in Req : Deletes(r, s))
                  /\ \A e \in ledger : e.id \notin Ids(ledger)' =>
                       e.id \in Ids(archivedLedger)' \/ (\E r \in Req : Deletes(r, e.ref))
  <1>3. Typed /\ Inv /\ [Next]_vars => [A]_vars
    BY TypeNext, RowsLeave
  <1> QED
    BY <1>1, <1>2, <1>3, PTL DEF Spec, RowsLeaveOnlyToArchive
=============================================================================

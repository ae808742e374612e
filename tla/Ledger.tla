------------------------------- MODULE Ledger -------------------------------
(***************************************************************************)
(* The ledger of one branch: every expense, manual income and paid payroll *)
(* has a mirror in financial_transactions, which is what the P&L sums.     *)
(* Requests create, edit, delete and pay; the weekly archive job moves old *)
(* rows and their mirrors to the archived_* tables in batches.             *)
(*                                                                         *)
(* As in Enrollment, every handler and every batch is one PostgreSQL       *)
(* transaction at READ COMMITTED, and takes one step per statement whose   *)
(* position matters.  Expense stands for expenses and manual incomes: the  *)
(* handlers are the same but for the type of the mirror.                   *)
(*                                                                         *)
(* Abstracted: categories, dates and descriptions (edits that leave the    *)
(* amount alone), audit rows, and the archiving of attendance.  Module     *)
(* Retention has the archiving of receipts and subscriptions.              *)
(***************************************************************************)
EXTENDS Naturals, FiniteSets

CONSTANTS
    Req,          \* transactions that may be open at the same time
    Expense,      \* ids of expenses and manual incomes
    Payroll,      \* ids of captain payrolls
    Slot,         \* captain and period of a payroll; overlapping ones are equal
    Amounts,
    Batch,        \* ARCHIVE_BATCH_SIZE
    MaxEntries,   \* bound: ledger rows ever posted
    None

Source == Expense \cup Payroll

ASSUME LedgerAssumption ==
    /\ Expense \cap Payroll = {}
    /\ None \notin Source \cup Amounts
    /\ DOMAIN Slot = Payroll
    /\ Amounts \subseteq Nat
    /\ Batch \in Nat \ {0}
    /\ MaxEntries \in Nat

VARIABLES
    sources,        \* expenses, manual_incomes, captain_payrolls
    ledger,         \* financial_transactions
    archive,        \* archived_expenses, .._manual_incomes, .._captain_payrolls
    archivedLedger, \* archived_financial_transactions
    posted,         \* number of ledger rows ever posted: their ids
    req,            \* the open transaction of each request
    job             \* the archive run

db == <<sources, ledger, archive, archivedLedger, posted>>
vars == <<sources, ledger, archive, archivedLedger, posted, req, job>>

\* old: created before the cutoff, which a run computes once when it starts.
SourceRow == [state : {"new", "live", "gone"}, amount : Nat, paid : BOOLEAN,
              old : BOOLEAN]
Entry == [id : Nat, ref : Source, amount : Nat, old : BOOLEAN]
ArchivedRow == [src : Source, amount : Nat, paid : BOOLEAN]

\* entries: ids of the ledger rows the transaction has locked.
Transaction ==
    [op : {"none", "update", "delete", "record", "mark"},
     pc : {"idle", "row", "mirror", "drop", "insert", "pay", "commit"},
     src : Source \cup {None}, amount : Nat \cup {None}, entries : SUBSET Nat]

Idle == [op |-> "none", pc |-> "idle", src |-> None, amount |-> None, entries |-> {}]

Steps == {"expenses", "payrolls", "ledger"}

\* ids: the captured ids of the batch; copied, moved: what it has inserted
\* into the archive tables.
Run == [pc : {"idle", "select", "copy", "mirrors", "unlink", "remove"},
        step : Steps, ids : SUBSET Source, copied : SUBSET ArchivedRow,
        moved : SUBSET Entry]

At(step) == [pc |-> "select", step |-> step, ids |-> {}, copied |-> {}, moved |-> {}]
NoRun == [At("expenses") EXCEPT !.pc = "idle"]

Live(s) == sources[s].state = "live"
MirrorsOf(s) == {e \in ledger : e.ref = s}
Ids(E) == {e.id : e \in E}

RowFree(s) ==
    \A q \in Req : ~(req[q].op = "update" /\ req[q].src = s
                                          /\ req[q].pc \in {"mirror", "commit"})
EntriesFree(r, E) == \A q \in Req \ {r} : req[q].entries \cap Ids(E) = {}
NotMoving(E) == job.pc = "remove" => Ids(job.moved) \cap Ids(E) = {}

Init ==
    /\ sources = [s \in Source |->
                    [state |-> "new", amount |-> 0, paid |-> FALSE, old |-> FALSE]]
    /\ ledger = {}
    /\ archive = {}
    /\ archivedLedger = {}
    /\ posted = 0
    /\ req = [r \in Req |-> Idle]
    /\ job = NoRun

-----------------------------------------------------------------------------
(* Expenses and manual incomes *)

\* Mutant: reference_id, which may be null, is left out.
recordLedgerEntry_NoRef(s, amount) ==
    /\ posted < MaxEntries
    /\ posted' = posted + 1
    /\ ledger' = ledger \cup
         {[id |-> posted + 1, ref |-> None, amount |-> amount, old |-> FALSE]}

\* Bound: MaxEntries.
recordLedgerEntry(s, amount) ==
    /\ posted < MaxEntries
    /\ posted' = posted + 1
    /\ ledger' = ledger \cup
         {[id |-> posted + 1, ref |-> s, amount |-> amount, old |-> FALSE]}

\* The row and its mirror; nothing that others could change is read.
createExpense(s, a) ==
    /\ s \in Expense
    /\ sources[s].state = "new"
    /\ sources' = [sources EXCEPT ![s].state = "live", ![s].amount = a]
    /\ recordLedgerEntry(s, a)
    /\ UNCHANGED <<archive, archivedLedger, req, job>>

\* updateExpense finds the row; amount None leaves the amount alone.
UpdateStart(r, s, amount) ==
    /\ req[r].pc = "idle"
    /\ s \in Expense /\ Live(s)
    /\ req' = [req EXCEPT ![r] =
                 [Idle EXCEPT !.op = "update", !.pc = "row", !.src = s, !.amount = amount]]
    /\ UNCHANGED <<db, job>>

\* It updates the row, and so locks it, if the row is still there.  The mirror
\* is of no concern when neither amount nor date nor category changes.
UpdateRow(r) ==
    /\ req[r].op = "update" /\ req[r].pc = "row"
    /\ RowFree(req[r].src) /\ Live(req[r].src)
    /\ \E pc \in {"mirror", "commit"} :
        /\ pc = "commit" => req[r].amount = None
        /\ req' = [req EXCEPT ![r].pc = pc]
    /\ UNCHANGED <<db, job>>

\* updateLedgerEntry is strict: exactly one mirror, or the edit is refused.
updateLedgerEntry(r) ==
    LET mirrors == MirrorsOf(req[r].src)
    IN  /\ req[r].op = "update" /\ req[r].pc = "mirror"
        /\ EntriesFree(r, mirrors) /\ NotMoving(mirrors)
        /\ Cardinality(mirrors) = 1
        /\ req' = [req EXCEPT ![r].pc = "commit", ![r].entries = Ids(mirrors)]
        /\ UNCHANGED <<db, job>>

\* An edit writes the fields it was given.
Edited(r, amount) == IF req[r].amount = None THEN amount ELSE req[r].amount

\* Mutant: an edit does not reach the mirror.
CommitUpdate_NoSync(r) ==
    /\ req[r].op = "update" /\ req[r].pc = "commit"
    /\ sources' = [sources EXCEPT ![req[r].src].amount = Edited(r, @)]
    /\ req' = [req EXCEPT ![r] = Idle]
    /\ UNCHANGED <<ledger, archive, archivedLedger, posted, job>>

CommitUpdate(r) ==
    /\ req[r].op = "update" /\ req[r].pc = "commit"
    /\ sources' = [sources EXCEPT ![req[r].src].amount = Edited(r, @)]
    /\ ledger' = {IF e.id \in req[r].entries THEN [e EXCEPT !.amount = Edited(r, @)]
                                             ELSE e : e \in ledger}
    /\ req' = [req EXCEPT ![r] = Idle]
    /\ UNCHANGED <<archive, archivedLedger, posted, job>>

\* deleteExpense finds the row ...
DeleteStart(r, s) ==
    /\ req[r].pc = "idle"
    /\ s \in Expense /\ Live(s)
    /\ req' = [req EXCEPT ![r] = [Idle EXCEPT !.op = "delete", !.pc = "mirror", !.src = s]]
    /\ UNCHANGED <<db, job>>

\* ... deletes the mirrors first, as many as there are ...
removeLedgerEntry(r) ==
    LET mirrors == MirrorsOf(req[r].src)
    IN  /\ req[r].op = "delete" /\ req[r].pc = "mirror"
        /\ EntriesFree(r, mirrors) /\ NotMoving(mirrors)
        /\ req' = [req EXCEPT ![r].pc = "drop", ![r].entries = Ids(mirrors)]
        /\ UNCHANGED <<db, job>>

\* ... and then the row, which must still be there.
CommitDelete(r) ==
    /\ req[r].op = "delete" /\ req[r].pc = "drop"
    /\ RowFree(req[r].src) /\ Live(req[r].src)
    /\ sources' = [sources EXCEPT ![req[r].src].state = "gone"]
    /\ ledger' = {e \in ledger : e.id \notin req[r].entries}
    /\ req' = [req EXCEPT ![r] = Idle]
    /\ UNCHANGED <<archive, archivedLedger, posted, job>>

-----------------------------------------------------------------------------
(* Payroll *)

\* recordPayroll: no payroll of the captain overlaps the period, says a
\* plain SELECT ...
RecordStart(r, p) ==
    /\ req[r].pc = "idle"
    /\ sources[p].state = "new"
    /\ \A q \in Payroll : Slot[q] = Slot[p] => ~Live(q)
    /\ \A q \in Req : ~(req[q].op = "record" /\ req[q].src = p)  \* a fresh id
    /\ req' = [req EXCEPT ![r] = [Idle EXCEPT !.op = "record", !.pc = "insert", !.src = p]]
    /\ UNCHANGED <<db, job>>

\* ... and it is inserted, unpaid: no constraint looks again.
CommitRecord(r, a) ==
    /\ req[r].op = "record" /\ req[r].pc = "insert"
    /\ sources' = [sources EXCEPT ![req[r].src].state = "live",
                                  ![req[r].src].amount = a]
    /\ req' = [req EXCEPT ![r] = Idle]
    /\ UNCHANGED <<ledger, archive, archivedLedger, posted, job>>

\* markPayrollPaid reads isPaid ...
MarkStart(r, p) ==
    /\ req[r].pc = "idle"
    /\ p \in Payroll /\ Live(p) /\ ~sources[p].paid
    /\ req' = [req EXCEPT ![r] = [Idle EXCEPT !.op = "mark", !.pc = "pay", !.src = p,
                                               !.amount = sources[p].amount]]
    /\ UNCHANGED <<db, job>>

\* ... sets it by id and posts the expense.
CommitMark(r) ==
    /\ req[r].op = "mark" /\ req[r].pc = "pay"
    /\ Live(req[r].src)
    /\ sources' = [sources EXCEPT ![req[r].src].paid = TRUE]
    /\ recordLedgerEntry(req[r].src, req[r].amount)
    /\ req' = [req EXCEPT ![r] = Idle]
    /\ UNCHANGED <<archive, archivedLedger, job>>

\* A refused check, a deadlock that PostgreSQL breaks, the 30 s limit.
Rollback(r) ==
    /\ req[r].pc # "idle"
    /\ req' = [req EXCEPT ![r] = Idle]
    /\ UNCHANGED <<db, job>>

-----------------------------------------------------------------------------
(* The archive job *)

\* The state of the run after step k.
NextStep(k) ==
    CASE k = "expenses" -> At("payrolls")
      [] k = "payrolls" -> At("ledger")
      [] k = "ledger"   -> NoRun

\* After a batch of n rows: a full one is followed by another of its step.
NextBatch(k, n) == IF n < Batch THEN NextStep(k) ELSE At(k)

IsBatchOf(B, S) == B \subseteq S /\ Cardinality(B) <= Batch
                                 /\ (B = S \/ Cardinality(B) = Batch)

Eligible(k) ==
    IF k = "expenses" THEN {s \in Expense : Live(s) /\ sources[s].old}
    ELSE {p \in Payroll : Live(p) /\ sources[p].old /\ sources[p].paid}

\* The cutoffs are computed once per run: what is old changes only here.  A
\* mirror is never older than its source.
JobStart ==
    /\ job.pc = "idle"
    /\ \E S \in SUBSET {s \in Source : Live(s)}, E \in SUBSET ledger :
        /\ sources' = [s \in Source |->
                         IF s \in S THEN [sources[s] EXCEPT !.old = TRUE] ELSE sources[s]]
        /\ \A e \in E : sources'[e.ref].old
        /\ ledger' = (ledger \ E) \cup {[e EXCEPT !.old = TRUE] : e \in E}
    /\ job' = At("expenses")
    /\ UNCHANGED <<archive, archivedLedger, posted, req>>

\* The SELECT that captures the ids of a batch.
JobSelect(k) ==
    /\ job.pc = "select" /\ job.step = k /\ k # "ledger"
    /\ \E ids \in SUBSET Eligible(k) :
        /\ IsBatchOf(ids, Eligible(k))
        /\ job' = IF ids = {} THEN NextStep(k)
                  ELSE [job EXCEPT !.pc = "copy", !.ids = ids]
    /\ UNCHANGED <<db, req>>

\* INSERT INTO archived_.. SELECT the rows of those ids.
JobCopy(k) ==
    /\ job.pc = "copy" /\ job.step = k
    /\ job' = [job EXCEPT !.pc = "mirrors",
                 !.copied = {[src |-> s, amount |-> sources[s].amount, paid |-> sources[s].paid] :
                               s \in {t \in job.ids : Live(t)}}]
    /\ UNCHANGED <<db, req>>

\* moveLedgerMirrors: the mirrors are picked by reference and copied ...
moveLedgerMirrors(k) ==
    /\ job.pc = "mirrors" /\ job.step = k
    /\ job' = [job EXCEPT !.pc = "unlink",
                 !.moved = {e \in ledger : e.ref \in job.ids}]
    /\ UNCHANGED <<db, req>>

\* ... and deleted by id, which waits for whoever edits or deletes them ...
moveLedgerRows(k) ==
    /\ job.pc = "unlink" /\ job.step = k
    /\ \A q \in Req : req[q].entries \cap Ids(job.moved) = {}
    /\ job' = [job EXCEPT !.pc = "remove"]
    /\ UNCHANGED <<db, req>>

\* Mutant: the DELETE runs the WHERE clause again.
JobCommit_Reselect(k) ==
    /\ job.pc = "remove" /\ job.step = k
    /\ \A s \in Eligible(k) : RowFree(s)
    /\ sources' = [s \in Source |-> IF s \in Eligible(k)
                     THEN [sources[s] EXCEPT !.state = "gone"] ELSE sources[s]]
    /\ ledger' = {e \in ledger : e.id \notin Ids(job.moved)}
    /\ archive' = archive \cup job.copied
    /\ archivedLedger' = archivedLedger \cup job.moved
    /\ job' = NextBatch(k, Cardinality(job.ids))
    /\ UNCHANGED <<posted, req>>

\* ... then the sources, by the captured ids, and the commit.
JobCommit(k) ==
    /\ job.pc = "remove" /\ job.step = k
    /\ \A s \in job.ids : RowFree(s)
    /\ sources' = [s \in Source |-> IF s \in job.ids
                     THEN [sources[s] EXCEPT !.state = "gone"] ELSE sources[s]]
    /\ ledger' = {e \in ledger : e.id \notin Ids(job.moved)}
    /\ archive' = archive \cup job.copied
    /\ archivedLedger' = archivedLedger \cup job.moved
    /\ job' = NextBatch(k, Cardinality(job.ids))
    /\ UNCHANGED <<posted, req>>

\* Mutant: old ledger rows by their own age alone.
Leftovers_Any == {e \in ledger : e.old}

\* Old ledger rows no live source points at.
Leftovers == {e \in ledger : e.old /\ ~Live(e.ref)}

\* The last step; nobody else can lock such a row.
archiveLedgerLeftovers ==
    /\ job.pc = "select" /\ job.step = "ledger"
    /\ \E E \in SUBSET Leftovers :
        /\ IsBatchOf(E, Leftovers)
        /\ ledger' = ledger \ E
        /\ archivedLedger' = archivedLedger \cup E
        /\ job' = NextBatch("ledger", Cardinality(E))
    /\ UNCHANGED <<sources, archive, posted, req>>

\* Mutant: one try/catch around all steps.
StepFails_All(k) ==
    /\ job.pc # "idle" /\ job.step = k
    /\ job' = NoRun
    /\ UNCHANGED <<db, req>>

\* A batch fails and is rolled back: runArchiveSteps goes on to the next step.
StepFails(k) ==
    /\ job.pc # "idle" /\ job.step = k
    /\ job' = NextStep(k)
    /\ UNCHANGED <<db, req>>

\* The process stops: the batch is rolled back, the run is over.
JobCrash ==
    /\ job.pc # "idle"
    /\ job' = NoRun
    /\ UNCHANGED <<db, req>>

-----------------------------------------------------------------------------
Commit(r) ==
    \/ CommitUpdate(r)
    \/ CommitDelete(r)
    \/ \E a \in Amounts : CommitRecord(r, a)
    \/ CommitMark(r)

Request(r) ==
    \/ \E s \in Expense, a \in Amounts \cup {None} : UpdateStart(r, s, a)
    \/ \E s \in Expense : DeleteStart(r, s)
    \/ \E p \in Payroll : RecordStart(r, p) \/ MarkStart(r, p)
    \/ UpdateRow(r)
    \/ updateLedgerEntry(r)
    \/ removeLedgerEntry(r)
    \/ Commit(r)
    \/ Rollback(r)

BatchStep(k) ==
    \/ JobSelect(k)
    \/ JobCopy(k)
    \/ moveLedgerMirrors(k)
    \/ moveLedgerRows(k)
    \/ JobCommit(k)

ArchiveJob ==
    \/ JobStart
    \/ \E k \in Steps : BatchStep(k) \/ StepFails(k)
    \/ archiveLedgerLeftovers
    \/ JobCrash

Next ==
    \/ \E s \in Expense, a \in Amounts : createExpense(s, a)
    \/ \E r \in Req : Request(r)
    \/ ArchiveJob

Spec == Init /\ [][Next]_vars

\* The run gets past the step of the expenses, by success or by failure.
LeavesExpenses ==
    (BatchStep("expenses") \/ StepFails("expenses")) /\ job' = At("payrolls")

\* The job runs every week and every run ends; the process does not die in
\* every single run before the payrolls, and the payroll step does not fail
\* for ever.  Nothing is assumed of the other steps: they may always fail.
FairSpec ==
    /\ Spec
    /\ WF_vars(ArchiveJob)
    /\ SF_vars(LeavesExpenses)
    /\ SF_vars(JobSelect("payrolls"))
    /\ SF_vars(JobCopy("payrolls"))
    /\ SF_vars(moveLedgerMirrors("payrolls"))
    /\ SF_vars(moveLedgerRows("payrolls"))
    /\ SF_vars(JobCommit("payrolls"))

-----------------------------------------------------------------------------
(* Properties *)

\* Every variable has its type.
TypeOK ==
    /\ sources \in [Source -> SourceRow]
    /\ ledger \subseteq Entry
    /\ archive \subseteq ArchivedRow
    /\ archivedLedger \subseteq Entry
    /\ posted \in Nat
    /\ req \in [Req -> Transaction]
    /\ job \in Run

\* The books agree with their sources whatever edits, deletions, payments and
\* batches overlap: a live expense has exactly one mirror, with its amount, and
\* a live payroll is posted if and only if it is paid (ledger.ts).
SourcesMirrored ==
    /\ \A s \in Expense : Live(s) =>
         \E e \in ledger : MirrorsOf(s) = {e} /\ e.amount = sources[s].amount
    /\ \A p \in Payroll : Live(p) =>
         /\ sources[p].paid <=> MirrorsOf(p) # {}
         /\ \A e \in MirrorsOf(p) : e.amount = sources[p].amount

\* A source and its ledger row move together: no archived ledger row has a
\* live source, no archived expense a live ledger row, and no row is in both
\* tables (archive-records.job.ts, header).
NoSplitPair ==
    /\ \A e \in archivedLedger : ~Live(e.ref)
    /\ \A a \in archive : ~Live(a.src) /\ (a.src \in Expense => MirrorsOf(a.src) = {})
    /\ Ids(ledger) \cap Ids(archivedLedger) = {}

\* r commits the deletion of s in this step.
Deletes(r, s) ==
    /\ req[r].op = "delete" /\ req[r].src = s
    /\ req[r].pc = "drop" /\ req'[r].pc = "idle"

\* No row is lost: whatever leaves a live table without being deleted by a
\* user is in the archive (the id-capture pattern).
RowsLeaveOnlyToArchive ==
    [][/\ \A s \in Source : Live(s) /\ ~Live(s)' =>
             (\E a \in archive' : a.src = s) \/ (\E r \in Req : Deletes(r, s))
       /\ \A e \in ledger : e.id \notin Ids(ledger)' =>
             e.id \in Ids(archivedLedger)' \/ (\E r \in Req : Deletes(r, e.ref))]_vars

\* Each step stands alone: although the steps before it may fail in every run,
\* an old paid payroll leaves in the end (runArchiveSteps).
PayrollsLeave ==
    \A p \in Payroll : p \in Eligible("payrolls") ~> ~Live(p)

\* What the comments of recordPayroll and markPayrollPaid promise: a captain is
\* paid once for a period.
PaidOncePerPeriod ==
    \A e, f \in ledger \cup archivedLedger :
        /\ e.ref \in Payroll /\ f.ref \in Payroll
        /\ Slot[e.ref] = Slot[f.ref]
        => e.id = f.id
=============================================================================

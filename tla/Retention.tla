------------------------------ MODULE Retention ------------------------------
(***************************************************************************)
(* What becomes of subscriptions and their receipts in the end: the steps  *)
(* "receipts", "subscriptions" and "ledger" of the weekly archive job,     *)
(* which must follow the foreign keys, against the payments that are still *)
(* made on a subscription that ended long ago.                             *)
(*                                                                         *)
(* Ledger has the other steps of the job and its style: one transaction at *)
(* READ COMMITTED per handler and per batch, one step per statement whose  *)
(* position matters.                                                       *)
(*                                                                         *)
(* Abstracted: plans, dates (whether a row is past the cutoff is all that  *)
(* matters), receipt numbers (Enrollment), and the amount of a mirror,     *)
(* which nobody edits.                                                     *)
(***************************************************************************)
EXTENDS Integers, FiniteSets

CONSTANTS
    Req,          \* payments that may be open at the same time
    Sub,          \* ids of subscriptions
    Price,        \* the price of a plan
    Amounts,      \* amounts that may be paid, more than the price among them
    Batch,        \* ARCHIVE_BATCH_SIZE
    MaxReceipts,  \* bound: receipts ever issued
    None

ASSUME RetentionAssumption ==
    /\ None \notin Sub
    /\ Price \in Nat
    /\ Amounts \subseteq Nat \ {0}
    /\ Batch \in Nat \ {0}
    /\ MaxReceipts \in Nat

VARIABLES
    subs,             \* trainee_subscriptions
    receipts,         \* receipts
    mirrors,          \* their rows in financial_transactions
    archivedSubs,     \* archived_trainee_subscriptions
    archivedReceipts, \* archived_receipts
    archivedMirrors,  \* their rows in archived_financial_transactions
    issued,           \* number of receipts ever issued: their ids
    req,              \* the open payment of each request
    job               \* the archive run

live == <<subs, receipts, mirrors, issued>>
archives == <<archivedSubs, archivedReceipts, archivedMirrors>>
db == <<live, archives>>
vars == <<db, req, job>>

\* ended: EXPIRED, and the end date is past the cutoff of the year; old:
\* created before the cutoff of the five years.  Cutoffs are computed once per
\* run.  A row that is gone keeps the values it left with.  The due of a
\* subscription that was sold for more than its price is negative.
Subscription == [state : {"new", "live", "gone"}, paid : Nat, due : Int, ended : BOOLEAN]
Receipt == [id : Nat, sub : Sub, old : BOOLEAN]
Mirror == [ref : Nat, old : BOOLEAN]
ArchivedSubscription == [sub : Sub, paid : Nat, due : Int]

\* paid, due: the balance that the payment will write.
Payment == [pc : {"idle", "write", "commit"}, sub : Sub \cup {None}, paid : Nat, due : Int]
Idle == [pc |-> "idle", sub |-> None, paid |-> 0, due |-> 0]

Steps == {"receipts", "subscriptions", "ledger"}

\* ids, copied: the captured ids and the copied rows of a batch of
\* subscriptions; failed: some step of this run has failed.
Run == [pc : {"idle", "select", "copy", "remove"}, step : Steps, ids : SUBSET Sub,
        copied : SUBSET ArchivedSubscription, failed : BOOLEAN]

At(step, failed) ==
    [pc |-> "select", step |-> step, ids |-> {}, copied |-> {}, failed |-> failed]
NoRun == [At("receipts", FALSE) EXCEPT !.pc = "idle"]

Live(s) == subs[s].state = "live"
ReceiptsOf(s) == {x \in receipts : x.sub = s}
Ids(R) == {x.id : x \in R}
Refs(M) == {m.ref : m \in M}
RowFree(s) == \A q \in Req : ~(req[q].pc = "commit" /\ req[q].sub = s)

Init ==
    /\ subs = [s \in Sub |-> [state |-> "new", paid |-> 0, due |-> 0, ended |-> FALSE]]
    /\ receipts = {}
    /\ mirrors = {}
    /\ archivedSubs = {}
    /\ archivedReceipts = {}
    /\ archivedMirrors = {}
    /\ issued = 0
    /\ req = [r \in Req |-> Idle]
    /\ job = NoRun

-----------------------------------------------------------------------------
(* Subscriptions and payments *)

\* The receipt and, in the same transaction, its mirror.  Bound: MaxReceipts.
Issue(s) ==
    /\ issued < MaxReceipts
    /\ issued' = issued + 1
    /\ receipts' = receipts \cup {[id |-> issued + 1, sub |-> s, old |-> FALSE]}
    /\ mirrors' = mirrors \cup {[ref |-> issued + 1, old |-> FALSE]}

\* enrollTrainee and renewSubscription: a receipt and its mirror whatever is
\* paid, for an amount of 0 too, and no check that it is not too much.
Sell(s, a) ==
    /\ subs[s].state = "new"
    /\ subs' = [subs EXCEPT ![s].state = "live", ![s].paid = a, ![s].due = Price - a]
    /\ Issue(s)
    /\ UNCHANGED <<archives, req, job>>

\* recordPayment reads the balance, of a subscription of whatever status ...
PayStart(r, s, a) ==
    /\ req[r].pc = "idle"
    /\ Live(s) /\ a <= subs[s].due
    /\ req' = [req EXCEPT ![r] = [pc |-> "write", sub |-> s, paid |-> subs[s].paid + a,
                                                  due |-> subs[s].due - a]]
    /\ UNCHANGED <<db, job>>

\* ... updates the row, and so locks it, if it is still there ...
PayWrite(r) ==
    /\ req[r].pc = "write"
    /\ RowFree(req[r].sub) /\ Live(req[r].sub)
    /\ req' = [req EXCEPT ![r].pc = "commit"]
    /\ UNCHANGED <<db, job>>

\* Mutant: the amount is subtracted from the row as it is now.
PayCommit_Decrement(r) ==
    LET s == req[r].sub
    IN  /\ req[r].pc = "commit"
        /\ \E a \in Amounts : subs' = [subs EXCEPT ![s].paid = @ + a, ![s].due = @ - a]
        /\ Issue(s)
        /\ req' = [req EXCEPT ![r] = Idle]
        /\ UNCHANGED <<archives, job>>

\* ... and issues the receipt.
PayCommit(r) ==
    LET s == req[r].sub
    IN  /\ req[r].pc = "commit"
        /\ subs' = [subs EXCEPT ![s].paid = req[r].paid, ![s].due = req[r].due]
        /\ Issue(s)
        /\ req' = [req EXCEPT ![r] = Idle]
        /\ UNCHANGED <<archives, job>>

\* The row is gone, or the 30 s limit.
Rollback(r) ==
    /\ req[r].pc # "idle"
    /\ req' = [req EXCEPT ![r] = Idle]
    /\ UNCHANGED <<db, job>>

-----------------------------------------------------------------------------
(* The archive job *)

\* The steps in their order; a run that is over forgets its failures, which
\* runArchiveSteps has reported by then.
NextStep(k, failed) ==
    CASE k = "receipts"      -> At("subscriptions", failed)
      [] k = "subscriptions" -> At("ledger", failed)
      [] k = "ledger"        -> NoRun

\* Mutant: a step is one batch.
NextBatch_Once(k, n) == NextStep(k, job.failed)

\* After a batch of n rows: a full one is followed by another of its step.
NextBatch(k, n) == IF n < Batch THEN NextStep(k, job.failed) ELSE At(k, job.failed)

IsBatchOf(B, S) == B \subseteq S /\ Cardinality(B) <= Batch
                                 /\ (B = S \/ Cardinality(B) = Batch)

\* Time passes between two runs: what is old changes only when a run computes
\* its cutoffs.  A mirror is never older than its receipt.
JobStart ==
    /\ job.pc = "idle"
    /\ \E S \in SUBSET {s \in Sub : Live(s)}, R \in SUBSET receipts, M \in SUBSET mirrors :
        /\ subs' = [s \in Sub |-> IF s \in S THEN [subs[s] EXCEPT !.ended = TRUE] ELSE subs[s]]
        /\ receipts' = (receipts \ R) \cup {[x EXCEPT !.old = TRUE] : x \in R}
        /\ mirrors' = (mirrors \ M) \cup {[m EXCEPT !.old = TRUE] : m \in M}
        /\ \A m \in M, x \in receipts' : x.id = m.ref => x.old
    /\ job' = At("receipts", FALSE)
    /\ UNCHANGED <<archives, issued, req>>

\* A batch of receipts leaves with its mirrors, picked by reference.  Receipts
\* and their mirrors are neither edited nor deleted by anyone else, so it does
\* not matter where in the batch a statement runs.
archiveReceipts ==
    LET old == {x \in receipts : x.old}
    IN  /\ job.pc = "select" /\ job.step = "receipts"
        /\ \E R \in SUBSET old :
            LET M == {m \in mirrors : m.ref \in Ids(R)}
            IN  /\ IsBatchOf(R, old)
                /\ receipts' = receipts \ R
                /\ archivedReceipts' = archivedReceipts \cup R
                /\ mirrors' = mirrors \ M
                /\ archivedMirrors' = archivedMirrors \cup M
                /\ job' = NextBatch("receipts", Cardinality(R))
        /\ UNCHANGED <<subs, archivedSubs, issued, req>>

\* archiveSubscriptions captures the ids of ended subscriptions that no live
\* receipt points at ...
Eligible == {s \in Sub : Live(s) /\ subs[s].ended /\ ReceiptsOf(s) = {}}

SelectSubscriptions ==
    /\ job.pc = "select" /\ job.step = "subscriptions"
    /\ \E ids \in SUBSET Eligible :
        /\ IsBatchOf(ids, Eligible)
        /\ job' = IF ids = {} THEN NextStep("subscriptions", job.failed)
                  ELSE [job EXCEPT !.pc = "copy", !.ids = ids]
    /\ UNCHANGED <<db, req>>

\* ... copies the rows as they are now ...
CopySubscriptions ==
    /\ job.pc = "copy"
    /\ job' = [job EXCEPT !.pc = "remove",
                 !.copied = {[sub |-> s, paid |-> subs[s].paid, due |-> subs[s].due] :
                               s \in job.ids}]
    /\ UNCHANGED <<db, req>>

\* Mutant: no foreign key.
RemoveSubscriptions_NoKey ==
    /\ job.pc = "remove"
    /\ \A s \in job.ids : RowFree(s)
    /\ subs' = [s \in Sub |-> IF s \in job.ids THEN [subs[s] EXCEPT !.state = "gone"]
                                               ELSE subs[s]]
    /\ archivedSubs' = archivedSubs \cup job.copied
    /\ job' = NextBatch("subscriptions", Cardinality(job.ids))
    /\ UNCHANGED <<receipts, mirrors, archivedReceipts, archivedMirrors, issued, req>>

\* ... and deletes them by id.  The delete waits for a payment that holds the
\* row; receipts.subscription_id is ON DELETE RESTRICT, so if a receipt has
\* been issued meanwhile the step fails.
RemoveSubscriptions ==
    /\ job.pc = "remove"
    /\ \A s \in job.ids : RowFree(s) /\ ReceiptsOf(s) = {}
    /\ subs' = [s \in Sub |-> IF s \in job.ids THEN [subs[s] EXCEPT !.state = "gone"]
                                               ELSE subs[s]]
    /\ archivedSubs' = archivedSubs \cup job.copied
    /\ job' = NextBatch("subscriptions", Cardinality(job.ids))
    /\ UNCHANGED <<receipts, mirrors, archivedReceipts, archivedMirrors, issued, req>>

\* Mutant: old rows by their own age alone.
Leftovers_ByAge == {m \in mirrors : m.old}

\* Old ledger rows no live source points at.
Leftovers == {m \in mirrors : m.old /\ m.ref \notin Ids(receipts)}

\* The last step.
archiveLedgerLeftovers ==
    /\ job.pc = "select" /\ job.step = "ledger"
    /\ \E M \in SUBSET Leftovers :
        /\ IsBatchOf(M, Leftovers)
        /\ mirrors' = mirrors \ M
        /\ archivedMirrors' = archivedMirrors \cup M
        /\ job' = NextBatch("ledger", Cardinality(M))
    /\ UNCHANGED <<subs, receipts, archivedSubs, archivedReceipts, issued, req>>

\* A batch fails and is rolled back: the next step runs regardless.
StepFails ==
    /\ job.pc # "idle"
    /\ job' = NextStep(job.step, TRUE)
    /\ UNCHANGED <<db, req>>

\* The process stops: the batch is rolled back, the run is over.
JobCrash ==
    /\ job.pc # "idle"
    /\ job' = NoRun
    /\ UNCHANGED <<db, req>>

-----------------------------------------------------------------------------
Request(r) ==
    \/ \E s \in Sub, a \in Amounts : PayStart(r, s, a)
    \/ PayWrite(r)
    \/ PayCommit(r)
    \/ Rollback(r)

ArchiveJob ==
    \/ JobStart
    \/ archiveReceipts
    \/ SelectSubscriptions
    \/ CopySubscriptions
    \/ RemoveSubscriptions
    \/ archiveLedgerLeftovers
    \/ StepFails
    \/ JobCrash

Next ==
    \/ \E s \in Sub, a \in Amounts \cup {0} : Sell(s, a)
    \/ \E r \in Req : Request(r)
    \/ ArchiveJob

Spec == Init /\ [][Next]_vars

-----------------------------------------------------------------------------
(* Properties *)

\* Every variable has its type.
TypeOK ==
    /\ subs \in [Sub -> Subscription]
    /\ receipts \subseteq Receipt
    /\ mirrors \subseteq Mirror
    /\ archivedSubs \subseteq ArchivedSubscription
    /\ archivedReceipts \subseteq Receipt
    /\ archivedMirrors \subseteq Mirror
    /\ issued \in Nat
    /\ req \in [Req -> Payment]
    /\ job \in Run

\* Whoever enrolled or renewed has a receipt, live or archived.
EverySaleHasItsReceipt ==
    \A s \in Sub : subs[s].state # "new" =>
        \E x \in receipts \cup archivedReceipts : x.sub = s

\* No receipt is ever lost, doubled, or parted from its ledger row: each one
\* issued is in exactly one of the two tables, its mirror in the same one
\* (archive-records.job.ts, "a source and its ledger row move together"), a
\* live receipt has a live subscription, and every subscription ever sold has
\* a receipt, live or archived.
ReceiptsKeepTheirOwn ==
    /\ Ids(receipts) \cup Ids(archivedReceipts) = 1 .. issued
    /\ Ids(receipts) \cap Ids(archivedReceipts) = {}
    /\ Refs(mirrors) = Ids(receipts)
    /\ Refs(archivedMirrors) = Ids(archivedReceipts)
    /\ \A x \in receipts : Live(x.sub)
    /\ EverySaleHasItsReceipt

\* The archive has every subscription that left, as it was when it left: no
\* payment slips in between the copy and the delete of a batch, which take no
\* lock between them.
ArchivedAsLeft ==
    /\ \A s \in Sub : subs[s].state = "gone" <=> \E a \in archivedSubs : a.sub = s
    /\ \A a \in archivedSubs : a.paid = subs[a.sub].paid /\ a.due = subs[a.sub].due

\* A subscription follows its receipts in the same run: when a run in which no
\* step failed has come to the ledger, an ended subscription that is still
\* live has a live receipt younger than five years (ARCHIVE_STEPS, "receipts
\* before subscriptions is load-bearing").
FollowsInTheSameRun ==
    job.step = "ledger" /\ ~job.failed =>
        \A s \in Sub : Live(s) /\ subs[s].ended => \E x \in ReceiptsOf(s) : ~x.old
=============================================================================

----------------------------- MODULE Enrollment -----------------------------
(***************************************************************************)
(* One branch of one academy: subscriptions, group seats, receipts and the *)
(* INCOME rows that mirror them, as the request handlers and the daily     *)
(* expiry job change them concurrently.                                    *)
(*                                                                         *)
(* Every handler body runs inside withTenantContext: one PostgreSQL        *)
(* transaction at READ COMMITTED.  A request is therefore a process that   *)
(* takes one step per SQL statement whose position matters.  A statement   *)
(* reads what is committed when it runs; what the transaction wrote stays  *)
(* in req[r] until its commit; the fields of req[r] also say which rows,   *)
(* index keys and counters it has locked, so ending the transaction        *)
(* (req[r] = Idle) releases its locks.  Statements that follow the last    *)
(* read of shared data are folded into the commit.                         *)
(*                                                                         *)
(* Abstracted: names, dates, levels, payment methods, paymentStatus (a     *)
(* function of due) and audit rows.  Dates become the "life" of a          *)
(* subscription, which only the clock and attendance move.                 *)
(***************************************************************************)
EXTENDS Integers, Sequences, FiniteSets, FiniteSetsExt

CONSTANTS
    Req,          \* transactions that may be open at the same time
    Trainee,
    Group,
    Plan,
    Price,        \* plan.amount, per plan
    Amounts,      \* sums of money a request may carry
    Capacities,   \* values staff may give maxTrainees
    Ops,          \* the kinds of request that arrive
    MaxSubs,      \* bound: subscriptions ever created
    MaxReceipts,  \* bound: receipts ever issued
    None

Kinds == {"enroll", "renew", "pay", "assign", "remove", "update", "mark", "expire"}

ASSUME ConstantAssumption ==
    /\ Price \in [Plan -> Nat]
    /\ Amounts \subseteq Nat
    /\ Capacities \subseteq Nat
    /\ Ops \subseteq Kinds
    /\ MaxSubs \in Nat
    /\ MaxReceipts \in Nat
    /\ None \notin Trainee \cup Group \cup Plan
    /\ IsFiniteSet(Req)

VARIABLES
    subs,         \* trainee_subscriptions, in creation order
    seats,        \* group_trainees: a set of <<group, trainee>>
    groups,       \* groups: maxTrainees, planId, isActive
    receipts,     \* receipts
    ledger,       \* financial_transactions of type INCOME
    receiptSeq,   \* branches.receipt_seq
    req,          \* the open transaction of each request
    job           \* the open transaction of releaseLapsedSeats

db == <<subs, seats, groups, receipts, ledger, receiptSeq>>
vars == <<subs, seats, groups, receipts, ledger, receiptSeq, req, job>>

-----------------------------------------------------------------------------
(* Rows and transactions *)

\* running: the period is on; ended: the date passed or the sessions are
\* used up; lapsed: the retake window (freezeRetakeDays) is over as well.
Lives == {"running", "ended", "lapsed"}

Subscription ==
    [trainee : Trainee, plan : Plan, price : Int, paid : Int, due : Int,
     status : {"ACTIVE", "EXPIRED"}, life : Lives]

GroupRow == [max : Nat, plan : Plan, active : BOOLEAN]
Receipt == [seq : Nat, sub : Nat, amount : Nat]
LedgerEntry == [receipt : Nat, amount : Nat]

PCs == {"idle", "close", "load", "insert", "place", "move", "receipt",
        "commit", "write", "level"}

Transaction ==
    [op : {"none", "enroll", "renew", "pay", "assign"}, pc : PCs,
     trainee : Trainee \cup {None}, group : Group \cup {None},
     plan : Plan \cup {None}, amount : Nat,
     sub : Nat,             \* the subscription paid or anchored on
     paid : Int, due : Int, \* its balance as read
     price : Int,           \* plan.amount as read
     cap : Nat,             \* group.maxTrainees as read
     rows : SUBSET Nat,     \* subscription rows this transaction has locked
     dropped : SUBSET Group,\* memberships it deletes
     fresh : BOOLEAN,       \* its upsert inserted the membership
     seq : Nat]             \* receipt number taken, 0 before

Idle ==
    [op |-> "none", pc |-> "idle", trainee |-> None, group |-> None,
     plan |-> None, amount |-> 0, sub |-> 0, paid |-> 0, due |-> 0,
     price |-> 0, cap |-> 0, rows |-> {}, dropped |-> {}, fresh |-> FALSE,
     seq |-> 0]

Job == [pc : {"idle", "read", "deleting"}, lapsed : SUBSET (Group \X Trainee)]

JobIdle == [pc |-> "idle", lapsed |-> {}]

Others(r) == Req \ {r}
SeatsOf(t) == {g \in Group : <<g, t>> \in seats}
Members(g) == {t \in Trainee : <<g, t>> \in seats}
SubsOf(t) == {s \in DOMAIN subs : subs[s].trainee = t}
ActiveSubs(t) == {s \in SubsOf(t) : subs[s].status = "ACTIVE"}
IsLatest(s) == \A u \in SubsOf(subs[s].trainee) : u <= s

\* r's INSERT of an ACTIVE row has gone into the partial unique index.
Inserted(r) ==
    /\ req[r].op \in {"enroll", "renew"}
    /\ req[r].pc \in {"place", "move", "receipt", "commit"}

\* r holds FOR UPDATE on its group: from placeTraineeInGroup to the commit.
HoldsGroup(r, g) ==
    req[r].group = g /\ req[r].pc \in {"move", "receipt", "commit"}

RowFree(r, s) == \A q \in Others(r) : s \notin req[q].rows
RowsUnlocked(S) == \A q \in Req : req[q].rows \cap S = {}
SeatUnlocked(g, t) ==
    \A q \in Req : ~(/\ req[q].trainee = t
                      /\ req[q].pc \in {"receipt", "commit"}
                      /\ g \in req[q].dropped)

Init ==
    /\ subs = <<>>
    /\ seats = {}
    /\ groups \in [Group -> [max : Capacities, plan : Plan, active : {TRUE}]]
    /\ receipts = {}
    /\ ledger = {}
    /\ receiptSeq = 0
    /\ req = [r \in Req |-> Idle]
    /\ job = JobIdle

-----------------------------------------------------------------------------
(* enrollTrainee and renewSubscription *)

\* enrollTrainee opens: its first check refuses a trainee with an ACTIVE
\* subscription, then it loads the plan.
EnrollStart(r, t, g, p, a) ==
    /\ "enroll" \in Ops
    /\ req[r].pc = "idle"
    /\ ActiveSubs(t) = {}
    /\ req' = [req EXCEPT ![r] = [Idle EXCEPT
                 !.op = "enroll", !.pc = "load", !.trainee = t, !.group = g,
                 !.plan = p, !.amount = a, !.price = Price[p]]]
    /\ UNCHANGED <<db, job>>

\* renewSubscription opens: the snapshot of its updateMany finds the ACTIVE
\* rows, before it waits for any of their locks.
RenewStart(r, t, g, p, a) ==
    /\ "renew" \in Ops
    /\ req[r].pc = "idle"
    /\ \E s \in {0} \cup ActiveSubs(t) :
        /\ s = 0 => ActiveSubs(t) = {}
        /\ req' = [req EXCEPT ![r] = [Idle EXCEPT
                     !.op = "renew", !.pc = "close", !.trainee = t,
                     !.group = g, !.plan = p, !.amount = a, !.sub = s,
                     !.price = Price[p]]]
    /\ UNCHANGED <<db, job>>

\* The same updateMany, once the row is free: it re-checks the status of the
\* row it waited for, and never sees a row inserted since its snapshot.
RenewClose(r) ==
    /\ req[r].pc = "close"
    /\ RowFree(r, req[r].sub)
    /\ req' = [req EXCEPT ![r].pc = "load",
                          ![r].rows = {req[r].sub} \cap ActiveSubs(req[r].trainee)]
    /\ UNCHANGED <<db, job>>

\* The group is read, and with it the maxTrainees used later.  A change of
\* group looks at the newest membership first and goes on if it is another.
LoadGroup(r) ==
    /\ req[r].pc = "load"
    /\ req[r].op = "assign" => SeatsOf(req[r].trainee) # {req[r].group}
    /\ groups[req[r].group].active
    /\ groups[req[r].group].plan = req[r].plan
    /\ req' = [req EXCEPT
                 ![r].pc = IF req[r].op = "assign" THEN "place" ELSE "insert",
                 ![r].cap = groups[req[r].group].max]
    /\ UNCHANGED <<db, job>>

\* Mutant: the application check alone, as before the index existed.
insertActiveSubscription_NoIndex(r) ==
    /\ req[r].pc = "insert"
    /\ Len(subs) + Cardinality({q \in Req : Inserted(q)}) < MaxSubs
    /\ req' = [req EXCEPT ![r].pc = "place"]
    /\ UNCHANGED <<db, job>>

\* The partial unique index: the insert waits for another transaction that
\* has inserted for this trainee, and is refused by an ACTIVE row that this
\* transaction has not closed.  Bound: MaxSubs.
insertActiveSubscription(r) ==
    /\ req[r].pc = "insert"
    /\ \A q \in Others(r) : Inserted(q) => req[q].trainee # req[r].trainee
    /\ ActiveSubs(req[r].trainee) \subseteq req[r].rows
    /\ Len(subs) + Cardinality({q \in Req : Inserted(q)}) < MaxSubs
    /\ req' = [req EXCEPT ![r].pc = "place"]
    /\ UNCHANGED <<db, job>>

\* Mutant: capacity counted without locking the group.
placeTraineeInGroup_NoLock(r) ==
    /\ req[r].pc = "place"
    /\ Cardinality(Members(req[r].group) \ {req[r].trainee}) < req[r].cap
    /\ req' = [req EXCEPT ![r].pc = "move",
                 ![r].dropped = SeatsOf(req[r].trainee) \ {req[r].group}]
    /\ UNCHANGED <<db, job>>

\* Mutant: the old memberships are kept.
placeTraineeInGroup_Stays(r) ==
    /\ req[r].pc = "place"
    /\ \A q \in Others(r) : ~HoldsGroup(q, req[r].group)
    /\ Cardinality(Members(req[r].group) \ {req[r].trainee}) < req[r].cap
    /\ req' = [req EXCEPT ![r].pc = "move"]
    /\ UNCHANGED <<db, job>>

\* placeTraineeInGroup locks the group, counts the OTHER members against the
\* capacity read before the lock, and starts to delete the trainee's other
\* memberships: those its snapshot shows.
placeTraineeInGroup(r) ==
    LET g == req[r].group
        t == req[r].trainee
    IN  /\ req[r].pc = "place"
        /\ \A q \in Others(r) : ~HoldsGroup(q, g)
        /\ Cardinality(Members(g) \ {t}) < req[r].cap
        /\ req' = [req EXCEPT ![r].pc = "move",
                              ![r].dropped = SeatsOf(t) \ {g}]
        /\ UNCHANGED <<db, job>>

\* The delete goes through once those rows are free, for the ones that are
\* still there; the upsert then inserts the membership or finds it.
MoveTrainee(r) ==
    LET here == SeatsOf(req[r].trainee)
    IN  /\ req[r].pc = "move"
        /\ \A h \in req[r].dropped \cup {req[r].group} :
              SeatUnlocked(h, req[r].trainee)
        /\ req' = [req EXCEPT
                     ![r].pc = IF req[r].op = "assign" THEN "commit" ELSE "receipt",
                     ![r].dropped = req[r].dropped \cap here,
                     ![r].fresh = req[r].group \notin here]
        /\ UNCHANGED <<db, job>>

\* Mutant: MAX(seq) + 1 read without a lock.
generateReceiptNumber_Max(r) ==
    /\ req[r].pc = "receipt"
    /\ receiptSeq < MaxReceipts
    /\ req' = [req EXCEPT ![r].pc = "commit", ![r].seq = receiptSeq + 1]
    /\ UNCHANGED <<db, job>>

\* Mutant: a payment may take its number before it locks the subscription.
generateReceiptNumber_Early(r) ==
    /\ req[r].pc \in {"receipt", "write"}
    /\ \A q \in Others(r) : req[q].seq = 0
    /\ receiptSeq < MaxReceipts
    /\ req' = [req EXCEPT ![r].seq = receiptSeq + 1,
                 ![r].pc = IF req[r].pc = "write" THEN "write" ELSE "commit"]
    /\ UNCHANGED <<db, job>>

\* UPDATE branches SET receipt_seq = receipt_seq + 1: the row stays locked
\* until the transaction ends.  Bound: MaxReceipts.
generateReceiptNumber(r) ==
    /\ req[r].pc = "receipt"
    /\ \A q \in Others(r) : req[q].seq = 0
    /\ receiptSeq < MaxReceipts
    /\ req' = [req EXCEPT ![r].pc = "commit", ![r].seq = receiptSeq + 1]
    /\ UNCHANGED <<db, job>>

\* What a placement does to group_trainees: the deleted memberships go, and
\* an upsert that found the row existing wrote nothing.
SeatsAfter(r) ==
    (seats \ {<<h, req[r].trainee>> : h \in req[r].dropped})
        \cup (IF req[r].fresh THEN {<<req[r].group, req[r].trainee>>} ELSE {})

\* A membership deleted by somebody else is out of releaseLapsedSeats' reach:
\* it deletes by id, and a membership created again has another id.
JobForgets(gone) == job' = [job EXCEPT !.lapsed = @ \ gone]

\* Mutant: one ledger row per subscription instead of one per receipt.
BookReceipt_FirstOnly(r, s) ==
    /\ receiptSeq' = req[r].seq
    /\ receipts' = receipts \cup
           {[seq |-> req[r].seq, sub |-> s, amount |-> req[r].amount]}
    /\ ledger' = IF \E x \in receipts : x.sub = s THEN ledger
                 ELSE ledger \cup {[receipt |-> req[r].seq, amount |-> req[r].amount]}

\* The receipt and the ledger row that mirrors it (recordLedgerEntry).
BookReceipt(r, s) ==
    /\ receiptSeq' = req[r].seq
    /\ receipts' = receipts \cup
           {[seq |-> req[r].seq, sub |-> s, amount |-> req[r].amount]}
    /\ ledger' = ledger \cup
           {[receipt |-> req[r].seq, amount |-> req[r].amount]}

\* The rows of subs once those that r closed are EXPIRED.
Closed(r) ==
    [s \in DOMAIN subs |->
        IF s \in req[r].rows THEN [subs[s] EXCEPT !.status = "EXPIRED"] ELSE subs[s]]

\* Mutant: the plan is not passed on.
NewSubscription_NoPlan(r) ==
    [trainee |-> req[r].trainee, plan |-> None, price |-> req[r].price,
     paid |-> req[r].amount, due |-> req[r].price - req[r].amount,
     status |-> "ACTIVE", life |-> "running"]

NewSubscription(r) ==
    [trainee |-> req[r].trainee, plan |-> req[r].plan, price |-> req[r].price,
     paid |-> req[r].amount, due |-> req[r].price - req[r].amount,
     status |-> "ACTIVE", life |-> "running"]

CommitEnrollment(r) ==
    /\ req[r].pc = "commit"
    /\ req[r].op \in {"enroll", "renew"}
    /\ subs' = Append(Closed(r), NewSubscription(r))
    /\ seats' = SeatsAfter(r)
    /\ BookReceipt(r, Len(subs) + 1)
    /\ req' = [req EXCEPT ![r] = Idle]
    /\ JobForgets(seats \ seats')
    /\ UNCHANGED groups

-----------------------------------------------------------------------------
(* recordPayment *)

\* Reads the balance and refuses an amount above the amount due.
PayStart(r, s, a) ==
    /\ "pay" \in Ops
    /\ req[r].pc = "idle"
    /\ a > 0
    /\ a <= subs[s].due
    /\ req' = [req EXCEPT ![r] = [Idle EXCEPT
                 !.op = "pay", !.pc = "write", !.sub = s, !.amount = a,
                 !.trainee = subs[s].trainee, !.paid = subs[s].paid,
                 !.due = subs[s].due]]
    /\ UNCHANGED <<db, job>>

\* Writes the balance computed from that read: takes the row lock.
PayWrite(r) ==
    /\ req[r].pc = "write"
    /\ RowFree(r, req[r].sub)
    /\ req' = [req EXCEPT ![r].pc = "receipt", ![r].rows = {req[r].sub}]
    /\ UNCHANGED <<db, job>>

\* Mutant: the amount due is decremented, the amount paid overwritten.
CommitPayment_Decrement(r) ==
    /\ req[r].pc = "commit"
    /\ req[r].op = "pay"
    /\ subs' = [subs EXCEPT ![req[r].sub].paid = req[r].paid + req[r].amount,
                            ![req[r].sub].due = @ - req[r].amount]
    /\ BookReceipt(r, req[r].sub)
    /\ req' = [req EXCEPT ![r] = Idle]
    /\ UNCHANGED <<seats, groups, job>>

CommitPayment(r) ==
    /\ req[r].pc = "commit"
    /\ req[r].op = "pay"
    /\ subs' = [subs EXCEPT ![req[r].sub].paid = req[r].paid + req[r].amount,
                            ![req[r].sub].due = req[r].due - req[r].amount]
    /\ BookReceipt(r, req[r].sub)
    /\ req' = [req EXCEPT ![r] = Idle]
    /\ UNCHANGED <<seats, groups, job>>

-----------------------------------------------------------------------------
(* updateTraineeAssignment, removeTraineeFromGroup, updateGroup *)

\* Anchors on the ACTIVE subscription.  A change of level (changesLevel)
\* comes first and locks the subscription's row.
AssignStart(r, t, g, changesLevel) ==
    /\ "assign" \in Ops
    /\ req[r].pc = "idle"
    /\ \E s \in ActiveSubs(t) :
        req' = [req EXCEPT ![r] = [Idle EXCEPT
                  !.op = "assign", !.pc = IF changesLevel THEN "level" ELSE "load",
                  !.trainee = t, !.group = g, !.plan = subs[s].plan, !.sub = s]]
    /\ UNCHANGED <<db, job>>

AssignLevel(r) ==
    /\ req[r].pc = "level"
    /\ RowFree(r, req[r].sub)
    /\ req' = [req EXCEPT ![r].pc = "load", ![r].rows = {req[r].sub}]
    /\ UNCHANGED <<db, job>>

\* The requested group is the newest membership already: only the level
\* changes.
AssignNothing(r) ==
    /\ req[r].op = "assign"
    /\ req[r].pc = "load"
    /\ req[r].group \in SeatsOf(req[r].trainee)
    /\ req' = [req EXCEPT ![r] = Idle]
    /\ UNCHANGED <<db, job>>

CommitAssignment(r) ==
    /\ req[r].pc = "commit"
    /\ req[r].op = "assign"
    /\ seats' = SeatsAfter(r)
    /\ req' = [req EXCEPT ![r] = Idle]
    /\ JobForgets(seats \ seats')
    /\ UNCHANGED <<subs, groups, receipts, ledger, receiptSeq>>

removeTraineeFromGroup(g, t) ==
    /\ "remove" \in Ops
    /\ <<g, t>> \in seats
    /\ SeatUnlocked(g, t)
    /\ seats' = seats \ {<<g, t>>}
    /\ JobForgets({<<g, t>>})
    /\ UNCHANGED <<subs, groups, receipts, ledger, receiptSeq, req>>

\* Capacity, plan and activity change without a look at the members.
updateGroup(g, max, p, active) ==
    /\ "update" \in Ops
    /\ \A q \in Req : ~HoldsGroup(q, g)
    /\ groups' = [groups EXCEPT ![g] = [max |-> max, plan |-> p, active |-> active]]
    /\ UNCHANGED <<subs, seats, receipts, ledger, receiptSeq, req, job>>

\* Any failure before the commit (a refused check, the unique index, a full
\* group, the 30 s limit, a lost process): PostgreSQL rolls everything back.
Rollback(r) ==
    /\ req[r].pc # "idle"
    /\ req' = [req EXCEPT ![r] = Idle]
    /\ UNCHANGED <<db, job>>

-----------------------------------------------------------------------------
(* The clock, attendance, and the daily subscription-expiry job *)

\* Time moves a subscription through its period and its retake window.
TimePasses(s) ==
    /\ "expire" \in Ops
    /\ subs[s].life # "lapsed"
    /\ subs' = [subs EXCEPT ![s].life =
                   IF subs[s].life = "running" THEN "ended" ELSE "lapsed"]
    /\ UNCHANGED <<seats, groups, receipts, ledger, receiptSeq, req, job>>

\* submitAttendance writes a status too: EXPIRED with the last session, and
\* ACTIVE again when a mark is corrected, if the unique index allows it.  s
\* was the trainee's latest subscription when the transaction read it and need
\* not be any more.
submitAttendanceExpires(s) ==
    /\ "mark" \in Ops
    /\ subs[s].status = "ACTIVE"
    /\ RowsUnlocked({s})
    /\ subs' = [subs EXCEPT ![s].status = "EXPIRED",
                            ![s].life = IF @ = "running" THEN "ended" ELSE @]
    /\ UNCHANGED <<seats, groups, receipts, ledger, receiptSeq, req, job>>

submitAttendanceRevives(s) ==
    /\ "mark" \in Ops
    /\ subs[s].status = "EXPIRED"
    /\ RowsUnlocked({s})
    /\ ActiveSubs(subs[s].trainee) = {}
    /\ \A q \in Req : Inserted(q) => req[q].trainee # subs[s].trainee
    /\ subs' = [subs EXCEPT ![s].status = "ACTIVE", ![s].life = "running"]
    /\ UNCHANGED <<seats, groups, receipts, ledger, receiptSeq, req, job>>

\* Mutant: only the subscriptions that ended since yesterday.
Ended_Yesterday ==
    {s \in DOMAIN subs : subs[s].status = "ACTIVE" /\ subs[s].life = "ended"}

Ended == {s \in DOMAIN subs : subs[s].status = "ACTIVE" /\ subs[s].life # "running"}

\* The job's first transaction: one UPDATE over every ended ACTIVE row.
runSubscriptionExpiryJob ==
    /\ job.pc = "idle"
    /\ Ended # {}
    /\ RowsUnlocked(Ended)
    /\ subs' = [s \in DOMAIN subs |->
                  IF s \in Ended THEN [subs[s] EXCEPT !.status = "EXPIRED"] ELSE subs[s]]
    /\ UNCHANGED <<seats, groups, receipts, ledger, receiptSeq, req, job>>

\* getSubscriptionState(latest).pastGrace of an EXPIRED latest subscription.
PastGrace(t) ==
    \E s \in SubsOf(t) : /\ IsLatest(s)
                         /\ subs[s].status = "EXPIRED"
                         /\ subs[s].life = "lapsed"

LapsedSeats ==
    {m \in seats : ActiveSubs(m[2]) = {} /\ PastGrace(m[2])}

\* releaseLapsedSeats, its second transaction: the candidates ...
ReleaseRead ==
    /\ job.pc = "idle"
    /\ LapsedSeats # {}
    /\ job' = [pc |-> "read", lapsed |-> LapsedSeats]
    /\ UNCHANGED <<db, req>>

\* ... the DELETE, whose snapshot re-checks for an ACTIVE subscription ...
ReleaseDelete ==
    /\ job.pc = "read"
    /\ job' = [pc |-> "deleting",
               lapsed |-> {m \in job.lapsed : ActiveSubs(m[2]) = {}}]
    /\ UNCHANGED <<db, req>>

\* ... and, when the rows it waits for are free, the commit.
ReleaseCommit ==
    /\ job.pc = "deleting"
    /\ \A m \in job.lapsed : SeatUnlocked(m[1], m[2])
    /\ seats' = seats \ job.lapsed
    /\ job' = JobIdle
    /\ UNCHANGED <<subs, groups, receipts, ledger, receiptSeq, req>>

ReleaseRollback ==
    /\ job.pc # "idle"
    /\ job' = JobIdle
    /\ UNCHANGED <<db, req>>

-----------------------------------------------------------------------------
Start(r) ==
    \/ \E t \in Trainee, g \in Group, p \in Plan, a \in Amounts :
        EnrollStart(r, t, g, p, a) \/ RenewStart(r, t, g, p, a)
    \/ \E s \in DOMAIN subs, a \in Amounts : PayStart(r, s, a)
    \/ \E t \in Trainee, g \in Group, b \in BOOLEAN : AssignStart(r, t, g, b)

Commit(r) == CommitEnrollment(r) \/ CommitPayment(r) \/ CommitAssignment(r)

Continue(r) ==
    \/ RenewClose(r)
    \/ LoadGroup(r)
    \/ insertActiveSubscription(r)
    \/ placeTraineeInGroup(r)
    \/ MoveTrainee(r)
    \/ generateReceiptNumber(r)
    \/ PayWrite(r)
    \/ AssignLevel(r)
    \/ AssignNothing(r)
    \/ Commit(r)

Staff ==
    \/ \E g \in Group, t \in Trainee : removeTraineeFromGroup(g, t)
    \/ \E g \in Group, max \in Capacities, p \in Plan, b \in BOOLEAN :
        updateGroup(g, max, p, b)
    \/ \E s \in DOMAIN subs :
        submitAttendanceExpires(s) \/ submitAttendanceRevives(s)

ExpiryJob ==
    \/ runSubscriptionExpiryJob
    \/ ReleaseRead
    \/ ReleaseDelete
    \/ ReleaseCommit
    \/ ReleaseRollback

Next ==
    \/ \E r \in Req : Start(r) \/ Continue(r) \/ Rollback(r)
    \/ \E s \in DOMAIN subs : TimePasses(s)
    \/ Staff
    \/ ExpiryJob

Spec == Init /\ [][Next]_vars

\* The scheduler runs the job every day, PostgreSQL grants row locks in queue
\* order (strong fairness for the statements that wait), and a transaction
\* that does not commit is rolled back after 30 s.
FairSpec ==
    /\ Spec
    /\ SF_vars(runSubscriptionExpiryJob)
    /\ WF_vars(ReleaseRead)
    /\ SF_vars(ReleaseDelete)
    /\ SF_vars(ReleaseCommit)
    /\ \A r \in Req : WF_vars(Commit(r) \/ Rollback(r))

-----------------------------------------------------------------------------
(* Properties *)

\* Every variable has its type; the rows a transaction points at exist.
TypeOK ==
    /\ subs \in Seq(Subscription)
    /\ seats \subseteq Group \X Trainee
    /\ groups \in [Group -> GroupRow]
    /\ receipts \subseteq Receipt
    /\ ledger \subseteq LedgerEntry
    /\ receiptSeq \in Nat
    /\ req \in [Req -> Transaction]
    /\ job \in Job
    /\ \A r \in Req : req[r].sub \in {0} \cup DOMAIN subs

\* At most one ACTIVE subscription per trainee, whatever enrolments, renewals
\* and attendance corrections overlap (subscription.service.ts, invariant 2).
OneActivePerTrainee ==
    \A i, j \in DOMAIN subs :
        /\ subs[i].trainee = subs[j].trainee
        /\ subs[i].status = "ACTIVE"
        /\ subs[j].status = "ACTIVE"
        => i = j

\* Receipts carry the numbers 1..receipt_seq, each once: no duplicate when
\* requests overlap, no gap when one rolls back (generateReceiptNumber).
ReceiptNumbersGapFree ==
    /\ {x.seq : x \in receipts} = 1 .. receiptSeq
    /\ \A x, y \in receipts : x.seq = y.seq => x = y

\* A step that seats a trainee leaves the group within the capacity its
\* transaction read, however placements overlap (placeTraineeInGroup).
NoOverbooking ==
    [][\A g \in Group :
         ~(Members(g)' \subseteq Members(g)) =>
            \E r \in Req : /\ req[r].pc = "commit"
                           /\ req'[r].pc = "idle"
                           /\ req[r].group = g
                           /\ Cardinality(Members(g)') <= req[r].cap]_vars

\* Enrolment and renewal move a trainee rather than seat them twice: one
\* active subscription means one group (placeTraineeInGroup).
OneGroupPerTrainee == \A t \in Trainee : Cardinality(SeatsOf(t)) <= 1

\* The balance of a subscription adds up to its price in every committed
\* state, although recordPayment writes absolute values from an earlier read.
BalanceAddsUp ==
    \A s \in DOMAIN subs : subs[s].paid + subs[s].due = subs[s].price

Booked(s) ==
    MapThenSumSet(LAMBDA e : e.amount,
        {e \in ledger : \E x \in receipts : x.sub = s /\ x.seq = e.receipt})

\* A subscription is never credited with money that the ledger does not hold.
CreditedMoneyIsBooked == \A s \in DOMAIN subs : subs[s].paid <= Booked(s)

\* No payment takes an amount due below zero (recordPayment's warning: "that
\* would drive amountDue negative").
PaymentsNeverOverdraw ==
    [][\A s \in DOMAIN subs :
         subs'[s].due < subs[s].due => subs'[s].due >= 0]_vars

\* What the ACTIVE flag and the balances say of a subscription.
Entries ==
    [s \in DOMAIN subs |->
        [trainee |-> subs[s].trainee, price |-> subs[s].price,
         paid |-> subs[s].paid, due |-> subs[s].due, status |-> subs[s].status]]

\* The receipts with their ledger row.
Income == {x \in receipts : [receipt |-> x.seq, amount |-> x.amount] \in ledger}

Books == INSTANCE Book WITH
            rows <- Entries, income <- Income, number <- receiptSeq,
            Prices <- {Price[p] : p \in Plan}

\* Every interleaving of enrolments, renewals, payments, attendance and the job
\* shows as a sequence of whole enrolments, renewals and payments, each with
\* the next receipt and its ledger row, and none with an ACTIVE subscription
\* left beside the new one (subscription.service.ts:300-324, 454-461, 575-584).
KeepsTheBook == Books!Spec

\* r's next statement has to wait for a lock of q.
WaitsFor(r, q) ==
    \/ req[r].pc \in {"close", "write", "level"} /\ req[r].sub \in req[q].rows
    \/ /\ req[r].pc = "insert"
       /\ \/ Inserted(q) /\ req[q].trainee = req[r].trainee
          \/ ActiveSubs(req[r].trainee) \cap req[q].rows # {}
    \/ req[r].pc = "place" /\ HoldsGroup(q, req[r].group)
    \/ /\ req[r].pc = "move"
       /\ req[q].trainee = req[r].trainee
       /\ req[q].pc \in {"receipt", "commit"}
       /\ req[q].dropped \cap (req[r].dropped \cup {req[r].group}) # {}
    \/ req[r].pc = "receipt" /\ req[q].seq # 0

\* No set of transactions each waits for another of the set: the order row,
\* index key, group, membership, branch counter is the same in every handler.
NoDeadlock ==
    \A S \in (SUBSET Req) \ {{}} : \E r \in S : \A q \in S \ {r} : ~WaitsFor(r, q)

\* Nobody keeps a seat for ever after their retake window: the daily job
\* expires the subscription and then releases the seat.
LapsedSeatsReleased ==
    \A t \in Trainee :
        []<>~(SeatsOf(t) # {} /\ \E s \in SubsOf(t) : /\ IsLatest(s)
                                                     /\ subs[s].life = "lapsed")

\* What placeTraineeInGroup and the header of releaseLapsedSeats promise: a
\* trainee with an ACTIVE subscription has a seat.
ActiveHasSeat == \A t \in Trainee : ActiveSubs(t) # {} => SeatsOf(t) # {}

\* What recordPayment's warning promises: payments that overlap do not
\* collect more than the price (enrolments within the price).
CollectedWithinPrice == \A s \in DOMAIN subs : Booked(s) <= subs[s].price
=============================================================================

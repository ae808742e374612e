# TLA+ for Academy Platform

Academy Platform runs sports academies: one Next.js application, one PostgreSQL
database, one schema per academy (tenant). This directory models the parts of it
whose correctness depends on an order of events that nobody wrote down: concurrent
requests and jobs on shared rows, steps that fail half-way, replicas that die, tabs
that share cookies, answers that are late or lost, and one table of rights that the
server and forty pages must read alike. Paths below are relative to the repository;
`src/services` is `src/src/services` in the manifest `PROJECT.json`, which maps every
definition to the lines it stands for.

| module | what it is | run by |
|---|---|---|
| `Enrollment` | subscriptions, seats, receipts and INCOME rows of a branch, the expiry job | `MCEnrollment`: `enrollment`, `money`, `expiry` |
| `Book` | abstract: enrolment, renewal and payment as single steps | implemented by `Enrollment` (`KeepsTheBook`) |
| `Attendance` | marks, counters, revivals, retakes, cancelled sessions | `MCAttendance`: `attendance` |
| `SessionJob` | generation of sessions by the weekly job, on several replicas, and by requests | `MCSessionJob`: `sessionjob` |
| `JobLock` | abstract: at most one replica runs a job | implemented by `SessionJob` (`OneRunner`) |
| `Ledger` | expenses, manual income, payroll, their ledger rows, and their archive steps | `MCLedger`: `ledger`, `archive` |
| `Retention` | the archive steps for receipts, subscriptions and leftover ledger rows, against late payments | `MCRetention`: `retention` |
| `Accounts` | the accounts of an academy and its rows of the login index | `MCAccounts`: `accounts` |
| `Academies` | creation, suspension and deletion of an academy | `MCAcademies`: `academies` |
| `BrowserSession` | the cookies, tabs and refreshes of a signed-in browser | `MCBrowserSession`: `session` |
| `Access` | roles, privileges, the access table | used by `Routes` |
| `Routes` | the handlers of `src/app/api` that pages call: guard, and whether they read, create or set | used by `Pages` |
| `Pages` | every page behind the sign-in: gate, loads, buttons, links, handlers | used by `Screens` |
| `Screens` | one user in front of a page, the privilege cache, changes of privileges | `MCScreens`: `screens` |
| `EnrollmentProofs` | theorems about `Enrollment`: one active subscription, receipt numbers, balances, seats, no deadlock, the refinement of `Book` | TLAPS |
| `AttendanceProofs` | theorems about `Attendance`: counters, ended subscriptions, cancelled sessions | TLAPS |
| `SessionJobProofs` | theorems about `SessionJob`: the lock, one session per date | TLAPS |
| `LedgerProofs` | theorems about `Ledger`: rows and their mirrors, also in the archive; nothing is lost | TLAPS |
| `AccountsProofs` | theorems about `Accounts`: one active account per number, the index, the parent's login | TLAPS |
| `AcademiesProofs` | theorems about `Academies`: whole academies, their logins, deletion | TLAPS |
| `RetentionProofs` | theorems about `Retention`: receipts, archived subscriptions, the order of the steps | TLAPS |
| `WebProofs` | theorems about `BrowserSession`: the next refresh, the branch, tabs served for what they show; and about `Screens`: revoked privileges, rows made once, true messages, views that settle, nothing shown that is refused | TLAPS |

To check: `tlc -config enrollment.cfg MCEnrollment.tla`, and likewise for the other
runs (each takes less than two minutes); `tlapm EnrollmentProofs.tla` and the other proof modules check the theorems.

## 1. Inventory of the system

Every request goes through a route of `src/app/api` (parse, check access, call one
service) and every tenant operation of a service runs inside `withTenantContext`
(`src/lib/db/tenant-client.ts`): one interactive Prisma transaction on the schema of
the tenant, at PostgreSQL's default READ COMMITTED, rolled back after 30 s. So the
services meet each other only in the database, through row locks, unique
constraints and what a statement's snapshot shows; several application replicas
make no difference, except for what is cached in a process. The browser meets the
server only through requests, whose answers come in any order.

| component | state | operations | interacts through | hard because |
|---|---|---|---|---|
| Subscriptions (`subscription.service`) | `trainee_subscriptions`: period, balance, status | enrol, renew, pay | seats, receipts, ledger, expiry job, attendance | check-then-act on the ACTIVE row; balance computed from a read |
| Group membership (`group.service`) | `groups`, `group_trainees` | place, remove, update group, release lapsed seats | subscriptions, job | capacity count, move between groups, job against renewal |
| Trainees (`trainee.service`) | profiles, active flag | register, reassign group/level, activate | seats, login accounts | siblings share a login account |
| Receipts (`receipt.service`) | `branches.receipt_seq`, `receipts` | number, issue | every money handler | no gaps and no duplicates |
| Ledger, finance, payroll (`ledger`, `finance.service`, `payroll.service`) | `financial_transactions` and the rows it mirrors | record, update, remove, pay a captain | receipts, archive | each row and its mirror must change together; double payment |
| Attendance (`attendance.service`) | records, counters on the subscription | submit, correct, retake | subscriptions (expires and revives them) | deltas from a previous read; latest subscription may change |
| Schedule (`schedule.service`) | `sessions` | generate, cancel, reschedule | attendance, groups | generation is check-then-insert without a unique key |
| Expiry job (`jobs/subscription-expiry.job`) | none | expire, release seats | subscriptions, seats | two transactions, races with renewals |
| Archive job (`jobs/archive-records.job`) | archive tables | move batches | ledger, receipts, subscriptions | crash between batches, edits during a batch, foreign keys |
| Scheduler (`jobs/scheduler`) | advisory locks | run a job for all tenants, once over all replicas | jobs, tenants | crash with the lock held, one tenant failing |
| Login index (`login-index`, `user.service`, `captain.service`) | `users` per tenant, `user_phone_index` in the platform schema | sync, reconcile | accounts | two copies of a phone number, written by racing requests |
| Tenants (`tenant.service`, `migration-runner`) | `tenants`, schemas | provision, suspend, delete | login index, clients | several steps with compensation, no transaction over them |
| Tenant clients (`tenant-client`, `tenant-resolver`) | cache of Prisma clients and schema names | get, evict | everything | stale names |
| Browser session (`lib/auth/auth-context`, `app/api/auth`) | two cookies, the stored user, a timer per tab | sign in, refresh, switch branch, sign out, fetch | all tabs of the browser | answers out of order, several refreshes at once, lost bodies |
| Access (`lib/auth/access`, `permissions`, `middleware`, `privilege-cache`) | the table; privileges cached per instance | check, cache, revoke | routes, pages | the same rule on both sides; a stale cache |
| Pages (`src/app/[locale]`) | what is shown, loads and handlers in flight | load, choose, press | routes | late answers, double clicks, handlers of several calls |
| Rate limiter | a counter per key in one process | count | auth routes | window edges |
| Branches, ratings, feedback, leads, audit, portal, reports, dashboard | single rows or reads | CRUD, queries | - | - |
| Texts, mail, migrations, scripts | - | - | - | - |

What makes them correct: a trainee has one active subscription and one group; a group
is not over-booked; receipts of a branch are numbered without gap or duplicate;
balances, receipts and the ledger agree; a seat is kept for those who pay and given
back after the retake window; every ledger row mirrors one row, also in the archive; a
session is generated once and a mark counted once; the phone index equals the
users' phones, and one active account has a phone; a job runs at most once at a time
and serves every tenant; an academy is whole or not there, and one that is gone has
left no login; a tab is served for what it shows; a page offers what the API grants,
shows what was chosen last, and says what happened. `PROJECT.json` lists the hazards
at their lines, with the properties that watch each one.

Conventions. A request that runs in the database is a process with one step per SQL
statement whose position matters; a wait is a disabled step; what it wrote is visible at
its commit; `Rollback` stands for every refusal, error, deadlock victim, timeout and
dead process. A constant such as `Apart`, `Solo` or `Overlap` names an assumption under which
the code keeps its promise: the run has the value under which the properties hold, section
6 lists the values under which TLC shows the ones that break. A variable called history
(`clashed`, `lost`, `interrupted`, `moved`, `failed`, `away`) is read by properties only, and says in
which states a promise is not made. Mutated forms stand in the modules right before the
definition they are of, marked `Mutant:`; each is a plausible bug that the run of its
property must find.


## 2. State and actions

### Enrollment

| variable | code |
|---|---|
| `subs` | `trainee_subscriptions` in creation order: balance, status, and `life` |
| `seats` | `group_trainees` |
| `groups` | `groups`: `maxTrainees`, `planId`, `isActive` |
| `receipts`, `ledger` | `receipts`, and `financial_transactions` of type INCOME that mirror them |
| `receiptSeq` | `branches.receipt_seq` |
| `req[r]` | the open transaction of request `r`: what it has read, what it holds locked, what it will write |
| `job` | the open transaction of `releaseLapsedSeats` |

READ COMMITTED is modelled as it is: a statement sees what is committed
when it starts; it waits for a row that another transaction has written, then
re-checks that row only, and sees no row inserted since its snapshot; a
transaction's own writes become visible, and its locks go, when it ends. So each
handler that waits is split where it waits:

| code | actions |
|---|---|
| `enrollTrainee` | `EnrollStart` (check, plan), `LoadGroup`, `insertActiveSubscription`, `placeTraineeInGroup`, `MoveTrainee`, `generateReceiptNumber`, `CommitEnrollment` |
| `renewSubscription` | `RenewStart`, `RenewClose` (its `updateMany`: snapshot, then lock), then as above |
| `recordPayment` | `PayStart` (read, check), `PayWrite` (row lock), `generateReceiptNumber`, `CommitPayment` |
| `updateTraineeAssignment` | `AssignStart`, `AssignLevel`, `AssignNothing`, `LoadGroup`, `placeTraineeInGroup`, `MoveTrainee`, `CommitAssignment` |
| `removeTraineeFromGroup`, `updateGroup` | one action each (a single write) |
| `submitAttendance` | the statuses it writes: `submitAttendanceExpires`, `submitAttendanceRevives` |
| `runSubscriptionExpiryJob` | `runSubscriptionExpiryJob` (the UPDATE), `ReleaseRead`, `ReleaseDelete`, `ReleaseCommit`, `ReleaseRollback` |
| a refused check, an error, the 30 s limit, a lost process | `Rollback` at any point |

Abstractions, each chosen so that no property can tell the difference: dates, sessions and
the retake window are the `life` of a subscription: running, ended, lapsed. `TimePasses` and
attendance move it; because both ways of ending are one state, no instance has the clock and
attendance together (`mark` and `expire` are never both in `Ops`). Levels, names, payment
methods and audit rows are left out; `paymentStatus` is a function of the amount due. The price
of a plan is a constant: a subscription keeps the price it was sold at. Subscriptions are numbered
in commit order (the code orders by `created_at`). Prisma's `upsert` is PostgreSQL's
`INSERT .. ON CONFLICT`. Where PostgreSQL refuses (unique index, full group), the model's guard is false
and the only way on is `Rollback`. Locks, lock waits and the partial unique index are PostgreSQL's: the
operators that state them are marked external in the manifest.
Bounds: `MaxSubs` subscriptions and `MaxReceipts` receipts are ever created (guards of
`insertActiveSubscription` and `generateReceiptNumber`).

`Book` is what this looks like from outside: `Sell`, `Pay`, `End`, `Revive` as single steps on
`rows`, `income` and `number`. `Enrollment` implements it with its committed rows for `rows`, the receipts
the ledger also holds for `income` and `receiptSeq` for `number`; `Pay` leaves open which of several
overlapping payments the new balance takes into account, because the code does.

### Attendance

| variable | code |
|---|---|
| `subs` | `trainee_subscriptions` in creation order: `attendedSessions`, `freezeUsed`, status; `past` and `late` say that the end date and the retake window have passed |
| `marks` | `attendance_records`: status and `isRetake` per session and trainee |
| `sessions` | `sessions.status` |
| `req[r]` | an open `submitAttendance` or `cancelSession`: the record at hand, what was read for it (`old`, `was`), the upserts and updated rows so far |

`submitAttendance` is `StartSubmit` (refuses a cancelled session), per record `ReadRecord` (previous mark,
latest subscription, the refusal after the retake window) and `WriteRecord` (upsert, counters as increments,
status as the read called for), then `CommitSubmit` (the session is COMPLETED). `scheduleRetake`
is `ScheduleRetake`: the dates of sessions are left out, so any session may lie inside the window; `cancelSession` is `StartCancel` and `CommitCancel`. `Renew` and
`ExpireSubscriptions` are the effects of a renewal and of the daily job on these rows; `TimePasses` is time.
`Enrollment` keeps the statuses attendance writes, this module keeps what they are computed from.
Bounds: `MaxSubs`, `MaxTicks`.

### SessionJob and JobLock

| variable | code |
|---|---|
| `lock` | the session-level advisory lock of the job |
| `worker[w]` | `withJobLock`, `runForAllTenants` and `generateRollingSessionsForAllGroups` on replica `w` |
| `active` | tenants of status ACTIVE |
| `days`, `horizon` | the dates a group's schedule falls on, the end of the four-week window |
| `sessions` | per group and date: sessions still open, and those kept as a record |
| `req[q]` | a PATCH of a group between its two transactions |

A run is `TryLock`, `ListTenants`, per tenant `ReadGroups` or `TenantFails`, per group `JobReads` and `JobInserts`
(`generateSessionsForGroup`, a read and an insert) or `JobGroupFails`, `GroupsDone`, `Unlock`. A replica may `Die`
(PostgreSQL ends its session later: `SessionEnds`) or lose the connection that holds the lock while the job goes
on (`Disconnect`, history `lost`). A PATCH is `UpdateGroup`, `ReqReads`, `ReqInserts`, `ReqFails`.
`JobLock` is the promise of `withJobLock`; the refinement maps `running` to the replicas
inside the job that have not lost their connection. Bounds: `MaxDate`, `MaxFaults`.

### Ledger

| variable | code |
|---|---|
| `sources` | `expenses`, `manual_incomes` (one set of ids, `Expense`: their handlers differ only in the type of the mirror) and `captain_payrolls` |
| `ledger` | `financial_transactions` of those sources, each with `reference_id` |
| `archive`, `archivedLedger` | the `archived_*` tables |
| `req[r]` | the open transaction of a request, with the ledger rows it has locked |
| `job` | the archive run: step, statement, captured ids, what it has copied |

| code | actions |
|---|---|
| `createExpense`, `createManualIncome` | `createExpense` (reads nothing that others change) |
| `updateExpense`, `updateManualIncome` | `UpdateStart`, `UpdateRow` (row lock), `updateLedgerEntry` (mirror, strict count), `CommitUpdate` |
| `deleteExpense`, `deleteManualIncome` | `DeleteStart`, `removeLedgerEntry` (mirror first), `CommitDelete` |
| `recordPayroll` | `RecordStart` (overlap check), `CommitRecord` |
| `markPayrollPaid` | `MarkStart` (reads isPaid), `CommitMark` |
| `runArchiveJob`, `runArchiveSteps` | `JobStart` (cutoffs), `NextStep`, `NextBatch`, `StepFails`, `JobCrash` |
| one batch | `JobSelect` (ids), `JobCopy`, `moveLedgerMirrors`, `moveLedgerRows`, `JobCommit` |
| `archiveLedgerLeftovers` | the action of that name |

A row is `old` when it was created before the cutoff of the run; cutoffs are computed once
per run, so only `JobStart` makes rows old. Every ledger row that is not a receipt's is a
row of this model; those of receipts are in `Enrollment` and `Retention`. `updateExpense` locks the row before the
mirror, `deleteExpense` and the batches the mirror before the row: they can wait for each other, PostgreSQL then
fails one, which is a `Rollback` or a `StepFails`, so the invariants are checked across it.
`MaxEntries` bounds the ledger rows ever posted.

### Retention

`subs`, `receipts`, `mirrors` and their `archived` forms are the tables of the steps "receipts", "subscriptions"
and "ledger"; `issued` numbers receipts. `Sell` is an enrolment or a renewal, which always issues a receipt with its ledger
row, for an amount of 0 too, and may be over-paid, so `due` may be negative. A payment is `PayStart`, `PayWrite`, `PayCommit`. The job is
`JobStart`, `archiveReceipts` (one batch, which moves receipt and mirror together), `SelectSubscriptions`
(`NOT EXISTS` receipt), `CopySubscriptions`, `RemoveSubscriptions` (the foreign key of a receipt that a payment
inserted meanwhile fails it), `archiveLedgerLeftovers`, `StepFails`, `JobCrash`. `ended` and `old` say that a row is
past the cutoff of the run. Attendance records, which the job moves by one statement pair and nobody points
at, are left out. Bound: `MaxReceipts`.

### Accounts

| variable | code |
|---|---|
| `users` | `users`: phone, `isActive`, and whether it is a guardian's account of this branch |
| `kids` | `trainee_profiles`: the account and the active flag |
| `entries` | the academy's rows of `user_phone_index` |
| `req[r]` | an open transaction: kind, the columns it sets, what it wrote or read back (`seen`), the index rows it deleted |

Each handler begins with its reads and refusals (`StartCreate`, `StartCreateCaptain`, `StartUpdate`,
`StartUpdateCaptain`, `StartDeactivate`, `StartDeactivateCaptain`, `StartRephone` for `updateTrainee`, `StartEnrol` for `createTrainee` with
`resolveGuardianAccount`, `StartKidOff`, `StartKidOn`), then writes the account (`Write`: row lock and
partial unique index), the profile (`WriteKid`), and ends with `syncLoginIndex`: `SyncRead`, `Clean` (its DELETE), and the
upsert in `Commit`. A transaction that has written the account reads its own version in the sync; one that
has not (`Solo` names those kinds) reads the committed one.

`reconcileLoginIndex` with repair is one statement per action: `StartReconcile` reads the active accounts, `ReadEntries` the
index, which ends it when the two agree, `Clean` is its DELETE, whose condition is evaluated on both tables at once, and
`Select` the snapshot of its INSERT .. SELECT. The keys may be waited for after that, so what `Commit` upserts are the
`rows` of that snapshot, not of the accounts as they are by then. `Solo` with "reconcile" says that no account is committed
between the two (`Undisturbed`); section 6 has what happens otherwise.

### Academies

`tenants`, `schemas` (none, bare, migrated, seeded) and `entries` (index rows) are three stores with no
transaction over them. `createTenant` is `CreateRecord`, `CreateSchema`, `Migrate`, `Seed`, and on a failure `CleanSchema`,
`CleanRecord`; `changeTenantStatus` is `ReadStatus`, `UpdateStatus`, `RemoveLogins`, `DropDeleted`. `Faults` are the
steps that may fail; the process may `Crash` between any two, which forgets its requests; `OpenWriter` and `CloseWriter`
are a request of the academy that adds a login, whatever its status.

### BrowserSession

`jar` holds the two cookies, `stored` the user in localStorage, `tab[t]` the `AuthProvider` of a tab (user, page load,
`refreshing`, `timer`, `switching`), `req` the requests in flight with the token they carry. A positive answer sets its
cookies before the code that waits for it runs; `BodyLost` is an answer that brings cookies and no body; `RequestFails` any
error; `CookieExpires` a Max-Age. `Login`, `Logout`, `SwitchBranch`, `TimerFires`, `Reload`, `Fetch` are the calls,
`..Answered`, `RefreshRefused`, `FetchBounced` (401: refresh, then retry) what follows them. The history `moved` are the tabs whose
session another tab has changed, `failed` those whose last refresh ended in an error.

### Access, Routes, Pages and Screens

`Access` is `ACCESS` and `canAccess` as the set `Table`; a `Gate` is a condition on a user, and the guards of routes, pages and
buttons are all gates. `Routes` names each handler with its gate and its kind: `read`, `create` (sending it
twice makes two rows) or `set`. `Pages` is a record per page: the roles of its layout and its gate, what it
loads and which pickers it fills, whether there is something to choose (filter, week, child), what a late answer does
(`shown`, `keyed`, `dropped`), buttons with their gates, the flags they wait for and their handlers (calls in order, what a
refusal does, what follows), and links. A flag that belongs to one row, or to a dialog that may be closed and opened again while
its handler runs (the feedback panel, the session dialog of the schedule), bars nobody else and not even its own button then: it is none.
What follows a change (`after`): the page reloads, shows the row of the answer in place of its own (`show`: the portal's rating, an
academy), marks in what it has the change it has sent (`mark`: a cancelled session), changes before the answer and takes it back
(`optimistic`), keeps what it shows, or leaves.

`Screens` puts one user before them. `subject` is the user in the database, `shown` the browser's copy of the
privileges, `cache`, `reading` and `change` the privilege cache of an instance, a request about to fill it and `setPrivileges`
before its commit; `screen` is the open page: the choice, the loads in flight (`asked`), what it shows
(`view`), the changes made (`version`) and the newest one it promised to show (`mine`), the handlers at
`work`, what a handler that is not over has `made`, and what the user was `told`. Actions: `ReadPrivileges`,
`CachePrivileges`, `Expire`, `SetPrivileges`, `CommitPrivileges`, `RefreshUser` (which closes a page the user may no longer open, and
asks for what has become visible on one that stays); `Open`, `Leave`, `Choose`; `Arrive` and `Miss` (a load
answered or not); `Press`, `Answer`, `AnswerLost`. `WebInit`, `WebNext` and `WebSpec` carry their prefix because `WebProofs` extends
`Screens` and `BrowserSession` together. A request is served when it is sent and answered any time
later, for the state of the data right after it was served; a page that shows an answer shows that state, however old it is by
then. `InOrder` orders the answers whose order a page does not check: of loads that are shown as they come (`MayArrive`), and of
handlers whose answers are shown or marked (`AnswersInOrder`). Changes by other users are left out; a handler whose page is left has no more effect; what React Query
has cached for an earlier choice is forgotten. Bounds: `MaxAsked`, `MaxWork`, `MaxVersion`.


## 3. Runs

Two concurrent transactions, next to the job, staff and clock steps, are enough for
every pairwise race; none of the hazards needs three requests on the same rows.

| run | instance | shows |
|---|---|---|
| `enrollment` | 2 requests, 2 trainees, 2 groups, capacities 1 and 2, 3 subscriptions; enrol, renew, remove, edit the group | `TypeOK`; `OneActivePerTrainee`; `ReceiptNumbersGapFree`; `OneGroupPerTrainee`; `NoOverbooking` |
| `money` | 2 requests, 1 trainee, 2 groups, amounts 1 and 3 of a price of 2 (an enrolment may be over-paid: the schema sets no upper limit); enrol, renew, pay, reassign, mark | `BalanceAddsUp`; `NoDeadlock`; `PaymentsNeverOverdraw`; `KeepsTheBook`, the refinement of `Book` |
| `expiry` | 2 requests, 1 trainee, 1 group; enrol, renew, the clock and the job, with fairness | `LapsedSeatsReleased` |
| `attendance` | 2 submissions or cancellations of different sessions, 1 trainee, 3 sessions of a subscription of 2, one renewal, two dates that pass | `CountersFollowMarks` over all periods; `ExpiredIsOver`; `CancelledCostsNothing` |
| `sessionjob` | 2 replicas, one tenant with a group and one that always fails, 1 request, 2 dates, one death, lost connection or failed generation; with fairness | `TypeOK`; `OneRunner`, the refinement of `JobLock`; `SessionsFollowSchedule`; `Backfilled` |
| `ledger` | 2 requests, 1 expense, 1 payroll, amounts 1 and 2, 3 ledger rows, batches of one | `TypeOK`; `SourcesMirrored`; `NoSplitPair` |
| `archive` | 1 request, 1 expense, 2 payrolls of different slots, batches of one, with fairness | `RowsLeaveOnlyToArchive`; `PayrollsLeave` |
| `retention` | 2 payments, 2 subscriptions, 3 receipts, amounts 0 (of a sale), 1 and 3 of a price of 2, batches of one | `ReceiptsKeepTheirOwn`; `ArchivedAsLeft`; `FollowsInTheSameRun` |
| `accounts` | 2 requests of every kind, 3 accounts, 2 children, 2 numbers | `TypeOK`; `OneActivePerPhone`; `IndexFollowsAccounts`; `ParentKeepsLogin` |
| `academies` | 2 creations, 2 status changes, 3 academies, 3 slugs, every fault but that of the index clean-up | `EntriesHaveSchema`; `WholeAcademy` |
| `session` | 2 tabs, 2 users, 2 branches, 2 requests in flight, refreshes that lose their body | `TypeOK`; `BranchSurvives`; `ServedAsShown`; `KeepsRefreshing` |
| `screens` | every role, and moderators with no privilege, each single one, and two pairs; 2 loads and 2 handlers at once, 3 changes; one privilege taken away, one given, one given for another | `ShownIsServed`; `SettledView`; `SaysWhatHappened`; `CreatesOnce`; `RevokedAtOnce` |

Why these are enough. Batches of one make an archive run take several batches of a step;
amounts 1 and 2 tell an edit that reached the mirror from one that did not; two payrolls in `archive` let one
become paid while the batch of the other is on its way. Three sessions of a subscription of two reach the cap, go
past it and come back by a correction; the renewal puts marks on both sides of a period. Two dates and a horizon that moves
let a schedule change between two generations of the same date. Three accounts on two numbers are needed for a swap of
numbers while a third account wants one. Three slugs let two creations fail and another succeed. A single privilege
shows whatever a page offers beyond it; the pairs are those of pages that need two areas at once. Two loads in
flight are the smallest number that can cross.

Symmetry is used for safety only. Deadlock is checked by TLC everywhere but in `attendance` and
`academies`, where at the bounds everything may be over; where requests may always start or roll back TLC's
check says little, and `NoDeadlock` states the real question for the handlers of `Enrollment`, that no set of transactions
wait for each other's locks in a circle. The run has two of them; `DeadlockFree` (section 5) says it for any number. Every property of every run
has a mutant in `PROJECT.json` that the run must catch.

Definitions that no run checks, because they are violated as section 6 says or add nothing to a run, are kept
for reading: `CreditedMoneyIsBooked`, `CollectedWithinPrice`, `ActiveHasSeat`, `PaidOncePerPeriod`,
`RetriesWithToken`, `DeletedForGood`, the `TypeOK` of `Academies`, `Attendance` and `Retention`, and the `WebTypeOK` of `Screens`. The last five hold
at the values of the runs, and all but `WebTypeOK` are proved in section 5.

## 4. Fairness

`expiry`, `archive` and `sessionjob` are about liveness; `session`, `screens` and the others
are safety only.

In `Enrollment` (`FairSpec`):

- the scheduler starts the job every day, a failed run is repeated the next day: strong
  fairness of the UPDATE, weak fairness of the read of the candidates;
- PostgreSQL grants row locks in queue order, so a statement that waits again and again is
  granted in the end: strong fairness of `ReleaseDelete` and `ReleaseCommit`;
- a transaction that does not commit is rolled back after 30 s: weak fairness of
  `Commit(r) \/ Rollback(r)`.

Nothing is assumed of users: no enrolment, renewal or payment has to happen, and a
request may roll back for ever. The job's own rollback is never forced and never forbidden.

In `Ledger` (`FairSpec`): the job starts every week and every run ends (weak fairness of `ArchiveJob`); the
process does not die in every single run before the payrolls are reached (strong fairness of
`LeavesExpenses`, which a failing step also satisfies), and the payroll step itself does not fail
for ever (strong fairness of its statements). The step before it may fail in every run: that it
then does not hold up the payrolls is what `PayrollsLeave` says.

In `SessionJob` (`Spec`): the cron keeps firing and a replica that is up goes on (weak fairness of `JobStep`), a dead
connection is noticed (weak fairness of `SessionEnds`), a request ends (weak fairness of `ReqStep`).
Deaths, lost connections and failed generations are bounded by `MaxFaults`, so they end; `Backfilled` is the claim
that whatever was missed by then is made up for.

## 5. Proofs

TLC looks at the instances of section 3; the theorems below hold for every value of
the constants that the named assumptions of the modules allow: any number of requests,
replicas, tabs, rows, amounts, dates, and any size of a batch.

| module | theorem | states |
|---|---|---|
| `EnrollmentProofs` | `TypeCorrect` | `Spec => []TypeOK` |
| | `AtMostOneActive` | `Spec => []OneActivePerTrainee` |
| | `GapFreeReceipts` | `Spec => []ReceiptNumbersGapFree` |
| | `BalancesAddUp` | `Spec => []BalanceAddsUp` |
| | `NoOverdraw` | `Spec => PaymentsNeverOverdraw` |
| | `DeadlockFree` | `Spec => []NoDeadlock` |
| | `OneGroup` | `"assign" \notin Ops /\ Spec => []OneGroupPerTrainee` |
| | `WithinCapacity` | `Spec => NoOverbooking` |
| | `ImplementsBook` | `Spec => KeepsTheBook`: the handlers refine `Book` |
| `AttendanceProofs` | `TypeCorrect` | `Spec => []TypeOK` |
| | `EndedIsOver` | `Spec => []ExpiredIsOver` |
| | `CancelledFree` | `Apart /\ Spec => []CancelledCostsNothing` |
| | `CountersKept` | `Apart /\ ~FixesRetakes /\ Spec => []CountersFollowMarks` |
| `SessionJobProofs` | `TypeCorrect` | `Spec => []TypeOK` |
| | `ImplementsLock` | `Spec => OneRunner`: the replicas refine `JobLock` |
| | `OnSchedule` | `Apart /\ Shift = 0 /\ Spec => []SessionsFollowSchedule` |
| `LedgerProofs` | `TypeCorrect` | `Spec => []TypeOK` |
| | `BooksAgree` | `Spec => []SourcesMirrored` |
| | `PairsMoveTogether` | `Spec => []NoSplitPair` |
| | `NothingLost` | `Spec => RowsLeaveOnlyToArchive` |
| `RetentionProofs` | `TypeCorrect` | `Spec => []TypeOK` |
| | `ReceiptsKept` | `Spec => []ReceiptsKeepTheirOwn` |
| | `LeftAsArchived` | `Spec => []ArchivedAsLeft` |
| | `FollowedInTheSameRun` | `Spec => []FollowsInTheSameRun` |
| `AccountsProofs` | `TypeCorrect` | `Spec => []TypeOK` |
| | `OneActive` | `Spec => []OneActivePerPhone` |
| | `IndexFollows` | `Solitary /\ Spec => []IndexFollowsAccounts`, `Solitary` being that `Solo` has the kinds it has in the run, "reconcile" included |
| | `ParentKept` | `"kidoff" \in Solo /\ Spec => ParentKeepsLogin` |
| `AcademiesProofs` | `TypeCorrect` | `Spec => []TypeOK` |
| | `AllOrNothing` | `~TakenSlugs /\ ~Overlap /\ Spec => []WholeAcademy` |
| | `LoginsLeadSomewhere` | the same and `"index" \notin Faults`: `Spec => []EntriesHaveSchema` |
| | `DeletedStays` | `Spec => DeletedForGood`, whatever overlaps and fails |
| `WebProofs` | `TypeCorrect` | `Spec => []TypeOK` |
| | `RefreshAhead` | `Spec => []KeepsRefreshing` |
| | `BranchKept` | `Apart /\ Spec => []BranchSurvives` |
| | `Served` | `Apart /\ Cut \subseteq {"refresh"} /\ Spec => []ServedAsShown` |
| | `RevokedHere` | `~Straddle /\ WebSpec => []RevokedAtOnce` |
| | `MadeOnce` | `<<"feedback", "twice">> \in Excused /\ WebSpec => []CreatesOnce` |
| | `TellsWhatHappened` | `<<"users", "done">> \in Excused /\ WebSpec => []SaysWhatHappened` |
| | `Settles` | `InOrder /\ Patient /\ WebSpec => []SettledView` |
| | `OffersWhatIsServed` | `Known \subseteq Excused /\ WebSpec => []ShownIsServed` |

Each property is strengthened to an inductive invariant first, because it says nothing of what is under
way: of open transactions, of a batch between its copy and its delete, of answers in flight.

**Enrollment** (from `ConstantAssumption`: finite `Req`, natural prices and sums, `None` outside the other sets).

- `Typed` adds to `TypeOK` the `Shape` of a transaction: which operation may be at which
  statement, and what it must know by then.
- `OneActiveInv` adds `Pending`: when a transaction has inserted into the unique index,
  every ACTIVE row of its trainee is one it has locked and will close, and no other
  open transaction has inserted for that trainee. A commit then replaces the rows it
  closes by one row. Revival by attendance must be excluded while an insert is pending, which
  is why the index counts uncommitted rows.
- `NumberInv` adds `Numbered`: at most one open transaction holds a number, and it is
  `receiptSeq + 1`; this is the lock on the branch row. Without it two commits could issue the same number.
- `MoneyInv` adds `OpenPayments`: the balance an open payment has read adds up to the price,
  and its amount is within the amount due it read. The read may be stale; a balance that was
  consistent once stays consistent when written back whole.

- `Locks`, for `DeadlockFree`, adds that the subscriptions two transactions have locked are different ones, each of the trainee it
  is about. With it a transaction that waits is of lower `Rank` than the one it waits for (`WaitsUp`): every handler takes the subscription, the
  index key, the group, the membership and the branch counter in this order. In any set of transactions one of highest rank
  waits for nobody in the set, so there is no circle of any length.
- `SeatInv` adds `Moving`: a transaction that has placed a trainee deletes all other memberships of that trainee, as it
  commits. Two of them for one trainee are excluded by the unique index of `OneActiveInv`, but not for a change of group, which
  inserts no subscription; hence `"assign" \notin Ops`.
- `Room` adds `Placing`: who has placed a trainee holds the group alone, so the seat it has counted stays free until it
  commits, and finitely many members sit in a group.
- `BookInv` adds `Bids`: amounts and prices under way are those `Book` knows, a payment is positive, and no
  balance, read or stored, is negative. With it and the invariants above each of the `StepClasses` is a step of `Book` or a stutter.

`StepClasses` splits a step by what it does to the variables, and the frame
lemmas (`StartFrame`, `StatementFrame`, `EndFrame`) say what it leaves alone; `CommittedSubs`, `PaidSubs`,
`TimeSubs`, `ExpiresSubs`, `RevivesSubs`, `JobSubs`, `ClosedRow` say what each kind of step does
to the rows of `subs`.

**Attendance** (from `AttendanceAssumption`). `Typed` adds the `Shape` of a request and that who is being marked has a
subscription (`Owned`). `Claims`, for `CancelledCostsNothing`, says what `Apart` grants: requests on one session keep apart, each
found it in a state it may work on, and only a COMPLETED session has marks that count. `Settled`, for `ExpiredIsOver`, is three parts:
a trainee nobody's history calls clashed is worked on by one request at a time (`OneByOne`); the latest row is fair - ACTIVE with
sessions left, or EXPIRED and past its end or used up - and so is what an open request will leave of it (`Current`); and
since a request has read it, only the end may have passed and the job may have noticed (`Fresh`). The last is why a status
computed from a read may be written back later. `Tallied`, for `CountersFollowMarks`, is the sum over all periods with what an open submission still
owes: the rows it has written are locked by nobody else (`Locked`), one for each trainee it moves, and differ from the table by
exactly the marks it is about to commit (`Pending`). Without it nothing is known of the sums when the commit brings marks and rows in one
step. The counters are summed over finite sets by a fold; that a sum moves by what one of its rows moves is proved without an
induction theorem that takes an operator: of the subsets for which it fails, one is minimal under strict inclusion (`WFMin`), and it cannot fail there.

**SessionJob** (from `JobAssumption`). `LockInv` adds `Held`: a replica inside the job whose connection is alive holds the
advisory lock. With it every step of the detailed system is a step of `JobLock` or a stutter; a replica that
loses its connection leaves `running` in the step in which it loses it. `ScheduleInv` adds `Tidy`: at most one session
per group and date and open ones only on dates of the schedule (`OneEach`), no request
generates for a group while a replica does (`Exclusive`, which is what `Apart` grants), and the dates a process is about to
insert are without a session (`Ready`). `Ready` is lost when two replicas run at once, so the invariant stands
on `LockInv` and is claimed as long as no connection was lost, as the property is.

**Ledger** (from `LedgerAssumption`). `Books` is `SourcesMirrored` and `NoSplitPair` with `Blank`, `Numbered` and `Archived`: a source that
is not there yet has no ledger row, ids are given once and in order, and what is in the archive has left its table. `Holders` is what an open
transaction relies on until its commit - whose mirrors it has found, that nobody else updates the row it has locked, that the
payroll it pays has the amount it read - and `Captured` what the
archive run relies on until its batch commits: the ids it took, what it has copied of them, and which mirrors it holds.

**Retention** (from `RetentionAssumption`). `Own` adds that a receipt has its id for itself (`Unique`), that a payment which has
locked its subscription will find it there (`Held`): the delete of a batch waits for it, and then fails on the
foreign key; and that the subscriptions of a batch are live (`Captured`), so that with `EverySaleHasItsReceipt` each of them
has a receipt in the archive when it goes. `Left` adds `Copies`: what a batch has copied is right for every row for which no receipt has been issued since;
a row for which one has been is kept by the foreign key, so the copy and the delete need no lock between them. `Order` adds
that past the step of the receipts no old receipt is left, and that a batch which is not full has every row that qualifies;
no step but the first of a run makes more rows qualify.

**Accounts** (from `AccountAssumption`). `Sound` relates an open transaction to the rows it works on (`Rows`, `Refers`). `Unique` is
`OneActivePerPhone` with `Holds`: a transaction that has written an active account holds the key of the partial index, as a committed
row does. For the index, `Apart` says that a transaction of a kind in `Solo` meets no other on its account, and `InStep` adds
`Synced`: the version of the account a transaction has seen is the one that will be committed, the rows a reconciliation has selected
are still the active accounts when it commits, and the index rows a transaction deletes are
those of the account that this version does not describe.
For `ParentKeepsLogin`, `LastChild` and `Counted` say that the count of siblings by which a login is switched off is still
true when it is.

**Academies** (from `AcademyAssumption`). `Apart` relates the stores to the requests that work on them: two creations or two status changes of one
academy are not under way (`MakersApart`, `ChangersApart`), a slug names one academy (`SlugsUnique`), a schema with data has its record
(`DataHasOwner`), and a request of an academy is served from its schema (`WritersServed`); `WholeAcademy` is its last conjunct, because
each needs the others. `LoginsServed` adds `LoginsFirst`: a deletion removes the logins before it drops the schema.
`DeletedForGood` is inductive with the types alone and needs none of these assumptions: it speaks of a deleted academy that no creation is
undoing and no change to another status has passed its check on (`Gone`), and says that it stays so. A change that had read its status
before the deletion can still bring it back, which is the finding of section 6.

**BrowserSession** (from `SessionAssumption` and `TokenAssumption`). `Typed` adds that the refresh in flight of a page load is that page
load's own, so that its end shows the page; `RefreshStep` is the one lemma on a step that changes one tab and one request, and each
action is an instance of it. `Separate` is the strengthening for `BranchSurvives`: with `Apart`, a change of the session is in flight
alone, and a refresh in flight carries the refresh token of the jar. `Separate` is what breaks without `Apart`
(section 6). For `ServedAsShown`, `Session(s)` says that one session `s` is behind the cookies, the stored user, every refresh and page load in flight, and what
every tab shows that no other tab has left behind (`moved`); `Switches`, that a switch on its way is for the user its tab
shows. A change of the session that is answered has nothing beside it, and sets a new `s`.

**Screens** (from `ScreensAssumption`). What the tables contribute is proved page by page and then used as a few rules (`Ruled`). Two
buttons that make the same row bar each other by a flag, on every page but the feedback panel (`KeepApart`);
only the first call of a handler makes it give up, and its calls make different rows (`GoesOn`); what a page loads depends
on privileges only where no button changes it (`Steady`); where one handler shows its answer no other asks again (`Rules`); and on every page but that of users a handler looks at every answer (`Heeds`).

- `Doing`, for `MadeOnce` and `TellsWhatHappened`: of the handlers that run no two make the same row, and a row that was made belongs to one
  of them (`Careful`), which has had the call served (`Job`). Without it nothing says why the next call makes a new row.
- `Settling`, for `Settles`: until the page owes nothing more, either it shows an error, an optimistic handler will ask again, the load it awaits last
  fits the choice and the changes it promised, or, with nothing awaited, the view does (`Settled`); and the ways of
  treating late answers leave in flight what they should (`Ordered`), while the handlers at work were started for the choice that is shown (`Still`),
  and what they have changed is in the order of their calls: none that will show its answer is behind what the page has promised (`Timed`).
  `Patient` is what keeps the choice, `InOrder` what makes the last load, and the last row a handler shows, the newest.
- `Revoking`, for `RevokedHere`: with `~Straddle` nobody is about to cache what he read before a change.
- For `OffersWhatIsServed` the state contributes that the open page is one the privileges in the browser open (`Allowed`), the tables the rest: `Guards`
  says whom each route serves, `Opened` for whom each linked page opens, `Grants` which keys of `ACCESS` grant which others, and
  `AllHonest` goes through the thirty-eight pages. TLC tries every role, single privileges and two pairs; the theorem is for every set of privileges.

The strengthenings were tried with TLC, as invariants, before they were proved. A lemma per action says that it keeps the
invariant; the theorem then combines `Init`, the step and the implication by one PTL step.

Only model-checked: `LapsedSeatsReleased`, `PayrollsLeave` and `Backfilled`, liveness under fairness, which is out of reach of the
prover. Every other property of every run is stated by a theorem, under the assumptions the table names; section 6 says what
happens without them.


## 6. What the code does not keep

While the modules were written, the places below came up where the code does something else than its own
comments say. None of them is hidden by the runs: each is an assumption with a name, or a property that
its instance violates. `PROJECT.json` quotes the lines under `findings`.

| module | to see it | what then fails | what happens |
|---|---|---|---|
| `Enrollment` | the instance `money` | `CollectedWithinPrice` | two payments read the same amount due; one credit is lost, more is booked than the price |
| | `Ops` = renew, enrol, expire | `ActiveHasSeat` | a renewal that keeps its group commits between the snapshot and the commit of the DELETE in `releaseLapsedSeats` |
| | `assign` in `Ops`, two changes of group | `OneGroupPerTrainee` | `placeTraineeInGroup` locks the group entered, so two moves of a trainee do not meet |
| `Ledger` | two payrolls of one `Slot` | `PaidOncePerPeriod` | neither `isPaid` nor the overlap check is repeated in the write |
| | always | - | an edit of an old expense between copy and DELETE of its batch is not in the archived copy |
| `Attendance` | `Apart = FALSE` | `CountersFollowMarks`, `CancelledCostsNothing` | two submissions of one session count a mark twice; a cancellation overtakes a submission |
| | `FixesRetakes = TRUE` | `CountersFollowMarks` | correcting a retake subtracts a session that was never counted |
| `SessionJob` | `Shift = 1` | `SessionsFollowSchedule` | a session between the server's midnight and the branch's is generated again |
| | `Apart = FALSE` | `SessionsFollowSchedule` | a PATCH and the job both generate, no unique key refuses |
| `Accounts` | `Solo = {}` | `IndexFollowsAccounts`, `ParentKeepsLogin` | `syncLoginIndex` and the count of siblings read what an open transaction is changing |
| | `Solo` without "reconcile" | `IndexFollowsAccounts` | an update moves an account to another number and has deleted the old entry; the INSERT of a reconciliation waits for it, and writes the old entry of its snapshot again |
| `Academies` | `TakenSlugs = TRUE` | `WholeAcademy` | a creation with a slug in use fails, and its clean-up drops the schema of the academy that has it |
| | `Overlap = TRUE` | `EntriesHaveSchema`; that DELETED is never left | a late account leaves a login behind; a suspension that read the status before a deletion writes after it (`DeletedForGood` holds: it starts when the requests beside the deletion are over) |
| | `"index"` in `Faults` | `EntriesHaveSchema` | the failed clean-up of the login index is logged and never repeated |
| `BrowserSession` | `Apart = FALSE` | `BranchSurvives`, `ServedAsShown` | a refresh answered after a switch brings back the old branch in the access cookie only |
| | `"switch"` or `"login"` in `Cut` | `ServedAsShown` | cookies arrive, the body does not: the page shows the old session |
| | always | `RetriesWithToken` | a second 401 during a refresh retries at once without a token |
| `Screens` | `InOrder = FALSE` | `SettledView` | pages that show whatever comes last show an older choice when answers cross |
| | `InOrder = FALSE` | `SettledView` | two ratings in flight, or a save and a change of status of an academy, whose answers cross: the page takes the row of the older one last, and keeps it |
| | `<<"feedback", "twice">>` not in `Excused` | `CreatesOnce` | the feedback dialog, closed and opened again while its POST is in flight, sends it a second time |
| | `Patient = FALSE` | `SettledView` | a handler reloads with the filter it was pressed under |
| | `Straddle = TRUE` | `RevokedAtOnce` | the privilege cache is dropped before the commit, a request in between fills it again |

**What pages promise and do not keep** (`Known` of `Screens`, the value of `Excused`; without any one of the
sixteen entries the run `screens` fails):

- loads: the forms that make and edit a group, the list of groups and the reports load the captains; the page of
  a trainee loads a plan and the groups, the form of a new trainee the plans and the groups; the pages of
  branches and of users load before they look at the role;
- links: "add trainee" on the list of groups, the renewals tile of the dashboard to the plans, the name of the
  group in the session dialog of the schedule, the settings entry of the sidebar, which has no page;
- the message of success of the users page, which does not look at the answers to its two PATCH requests;
- the feedback panel, which may make a row twice (above).

The other findings are about comments and code that need no run: the "sliding window" of the rate limiter is
fixed; `generateRollingSessionsForAllGroups` is said to throw and does not; a freeze is counted above the quota;
a failed deletion of an academy is not made up for; the privilege cache lives longer than its TTL by the read that
filled it; `setPrivileges` may leave the union of two lists; nothing retries a refresh that ended in an error;
archived subscriptions take what they owe out of the outstanding balance; live and archived rows are summed by two
statements; two pages show a failed load as an empty day or week; React Query's cache outlives a sign-out; and an enrolment
whose answer is lost registers the trainee again when it is repeated.


## 7. Not modelled, and why

- **Rate limiter**: one counter per key in one process, without shared state. In `BrowserSession` a 429 is one of
  the errors in which any request may end.
- **Tokens, passwords, phone strings**: signing and verifying, password rules and the normalisation of a phone number are
  sequential functions of their arguments, unit-tested in the repository.
- **The pool of Prisma clients** (`tenant-client.ts`): between the look-up of a client and `inFlight++` there is no
  `await`, so in one process nothing can come between; the cache of schema names is the hazard that `EntriesHaveSchema` watches.
- **Reports, dashboard, portal and the other readers**: they change nothing. Whom they serve and how their pages follow a
  choice is in `Routes`, `Pages` and `Screens`; their sums are not: they
  are arithmetic on what one or more statements see. That live and archived rows are summed by two
  statements is in the findings.
- **Plans, branches, ratings, feedback, leads, evaluations, audit rows**: writes of single rows that no modelled check
  reads twice. Their routes and pages are in the web modules.
- **`rescheduleSession`, change of captain**: one row changed on purpose, read by nobody in between.
- **Archive of attendance records**: the same statement pair as a batch of `Ledger`, on rows without mirror.
- **Marketing pages, texts, layout, wording, field checks that never leave a page, one-off scripts.**

What the plan has left: the archive of attendance records next to a late correction.

----------------------------- MODULE SessionJob -----------------------------
(***************************************************************************)
(* The sessions of the groups, and the two things that create them: the    *)
(* weekly job, which every replica schedules and one runs under an         *)
(* advisory lock (src/jobs/scheduler.ts, generateRollingSessionsForAll-    *)
(* Groups), and the request that changes a group's schedule (PATCH         *)
(* /api/groups/[id]).  Both call generateSessionsForGroup, a transaction   *)
(* that reads which dates have a session and inserts the others; no unique *)
(* key stands behind it.                                                   *)
(*                                                                         *)
(* The lock is held by a database session of its own.  PostgreSQL releases *)
(* it when that session ends: at the unlock, some time after its replica   *)
(* died, or when the connection is lost while the job goes on.             *)
(*                                                                         *)
(* Abstracted: times of day (but for the date the server takes a session   *)
(* to be on), captains, plans, inactive groups, and rescheduling, which    *)
(* moves a session to another date on purpose.  The other two jobs take a  *)
(* lock of their own the same way.                                         *)
(***************************************************************************)
EXTENDS Integers, FiniteSets

CONSTANTS
    Worker,     \* replicas with RUN_SCHEDULER
    Req,        \* requests that change a group
    Tenant,
    Broken,     \* the tenants whose job always throws
    Group,
    TenantOf,   \* the tenant of each group
    MaxDate,    \* bound: the last date that ever comes into the window
    MaxFaults,  \* bound: deaths, lost connections and failed generations
    Apart,      \* TRUE: a request meets no other generation of its group
    Shift,      \* the server's date of a session less the branch's: 0 unless
                \* it starts in the hours between the two midnights
    None

ASSUME JobAssumption ==
    /\ Broken \subseteq Tenant
    /\ TenantOf \in [Group -> Tenant]
    /\ MaxDate \in Nat \ {0} /\ MaxFaults \in Nat
    /\ Apart \in BOOLEAN
    /\ Shift \in {-1, 0, 1}
    /\ None \notin Worker \cup Group \cup Tenant

VARIABLES
    lock,      \* the replica whose database session holds the advisory lock
    worker,    \* what each replica is at
    active,    \* the tenants with status ACTIVE
    days,      \* groups: the dates its schedule falls on
    sessions,  \* per group and date: sessions still open, and those kept as
               \* a record (marked, completed, cancelled)
    horizon,   \* the last date of the four-week window
    req,       \* what each request is at
    faults,    \* faults so far
    lost       \* history: the replicas that lost the lock while they ran

vars == <<lock, worker, active, days, sessions, horizon, req, faults, lost>>
tables == <<active, days, sessions, horizon>>

Date == 1..MaxDate
Schedules == (SUBSET Date) \ {{}}
NoSession == [open |-> 0, kept |-> 0]

WorkerIdle ==
    [pc |-> "idle", left |-> {}, groups |-> {}, group |-> None, dates |-> {}]
ReqIdle == [pc |-> "idle", group |-> None, dates |-> {}]

Running(w) == worker[w].pc # "idle"
Has(g, d) == sessions[g][d] # NoSession
Groups(t) == {g \in Group : TenantOf[g] = t}
RequestOn(g) == \E q \in Req : req[q].group = g
JobOn(g) == \E w \in Worker : worker[w].group = g

\* existingDates: the dates of a group's sessions, as the server's clock says.
ExistingDates(g) == {d + Shift : d \in {e \in Date : Has(g, e)}}

\* generateSessionsForGroup's reads: the scheduled dates of the window, in the
\* branch's time, that are not among them.
MissingDates(g) == {d \in days[g] : d <= horizon} \ ExistingDates(g)

\* Its createMany.
Inserted(g, D) ==
    [sessions EXCEPT
       ![g] = [d \in Date |->
                 [open |-> IF d \in D THEN @[d].open + 1 ELSE @[d].open,
                  kept |-> @[d].kept]]]

Init ==
    /\ lock = None
    /\ worker = [w \in Worker |-> WorkerIdle]
    /\ active = Tenant
    /\ days \in [Group -> Schedules]
    /\ sessions = [g \in Group |-> [d \in Date |-> NoSession]]
    /\ horizon = 1
    /\ req = [q \in Req |-> ReqIdle]
    /\ faults = 0
    /\ lost = {}

-----------------------------------------------------------------------------
(* withJobLock and runForAllTenants *)

\* Mutant: the answer of pg_try_advisory_lock is not looked at.
RunsAnyway(w) ==
    /\ ~Running(w)
    /\ lock' = IF lock = None THEN w ELSE lock
    /\ worker' = [worker EXCEPT ![w].pc = "list"]
    /\ UNCHANGED <<tables, req, faults, lost>>

\* The cron fires; pg_try_advisory_lock fails while another session has the
\* lock, and then the replica skips this turn.
TryLock(w) ==
    /\ ~Running(w)
    /\ lock = None
    /\ lock' = w
    /\ worker' = [worker EXCEPT ![w].pc = "list"]
    /\ UNCHANGED <<tables, req, faults, lost>>

\* getActiveTenantIds, read once.
ListTenants(w) ==
    /\ worker[w].pc = "list"
    /\ worker' = [worker EXCEPT ![w].pc = "tenant", ![w].left = active]
    /\ UNCHANGED <<lock, tables, req, faults, lost>>

\* generateRollingSessionsForAllGroups reads the groups of the next tenant and
\* commits that read.
ReadGroups(w, t) ==
    /\ worker[w].pc = "tenant"
    /\ t \in worker[w].left \ Broken
    /\ worker' = [worker EXCEPT ![w].pc = "group", ![w].left = @ \ {t},
                                ![w].groups = Groups(t)]
    /\ UNCHANGED <<lock, tables, req, faults, lost>>

\* Mutant: a tenant that throws ends the whole run.
FirstFailureEndsTheRun(w, t) ==
    /\ worker[w].pc = "tenant"
    /\ t \in worker[w].left \cap Broken
    /\ worker' = [worker EXCEPT ![w].left = {}]
    /\ UNCHANGED <<lock, tables, req, faults, lost>>

\* The job of a tenant throws: it is counted, and the next one is served.
TenantFails(w, t) ==
    /\ worker[w].pc = "tenant"
    /\ t \in worker[w].left \cap Broken
    /\ worker' = [worker EXCEPT ![w].left = @ \ {t}]
    /\ UNCHANGED <<lock, tables, req, faults, lost>>

\* generateSessionsForGroup, called by the job: the reads of its transaction.
JobReads(w, g) ==
    /\ worker[w].pc = "group"
    /\ g \in worker[w].groups
    /\ Apart => ~RequestOn(g)
    /\ worker' = [worker EXCEPT ![w].pc = "insert", ![w].groups = @ \ {g},
                                ![w].group = g, ![w].dates = MissingDates(g)]
    /\ UNCHANGED <<lock, tables, req, faults, lost>>

\* Its insert and commit.
JobInserts(w) ==
    /\ worker[w].pc = "insert"
    /\ sessions' = Inserted(worker[w].group, worker[w].dates)
    /\ worker' = [worker EXCEPT ![w].pc = "group", ![w].group = None,
                                ![w].dates = {}]
    /\ UNCHANGED <<lock, active, days, horizon, req, faults, lost>>

\* One group failing is logged, and the next one is served.
JobGroupFails(w) ==
    /\ worker[w].pc = "insert" /\ faults < MaxFaults
    /\ faults' = faults + 1
    /\ worker' = [worker EXCEPT ![w].pc = "group", ![w].group = None,
                                ![w].dates = {}]
    /\ UNCHANGED <<lock, tables, req, lost>>

GroupsDone(w) ==
    /\ worker[w].pc = "group" /\ worker[w].groups = {}
    /\ worker' = [worker EXCEPT ![w].pc = "tenant"]
    /\ UNCHANGED <<lock, tables, req, faults, lost>>

\* pg_advisory_unlock, which does nothing if this session lost the lock.
Unlock(w) ==
    /\ worker[w].pc = "tenant" /\ worker[w].left = {}
    /\ lock' = IF lock = w THEN None ELSE lock
    /\ worker' = [worker EXCEPT ![w] = WorkerIdle]
    /\ UNCHANGED <<tables, req, faults, lost>>

\* The process dies: its open transaction is gone, and its database session
\* ends a moment later.
Die(w) ==
    /\ Running(w) /\ faults < MaxFaults
    /\ faults' = faults + 1
    /\ worker' = [worker EXCEPT ![w] = WorkerIdle]
    /\ UNCHANGED <<lock, tables, req, lost>>

SessionEnds(w) ==
    /\ lock = w /\ ~Running(w)
    /\ lock' = None
    /\ UNCHANGED <<worker, tables, req, faults, lost>>

\* The connection that holds the lock drops; the job does not notice.
Disconnect(w) ==
    /\ lock = w /\ Running(w) /\ faults < MaxFaults
    /\ faults' = faults + 1
    /\ lock' = None
    /\ lost' = lost \cup {w}
    /\ UNCHANGED <<worker, tables, req>>

-----------------------------------------------------------------------------
(* PATCH /api/groups/[id] *)

\* Mutant: the sessions of the old schedule stay.
OldSessionsStay(q, g, D) ==
    /\ req[q].pc = "idle"
    /\ D # days[g]
    /\ Apart => ~RequestOn(g) /\ ~JobOn(g)
    /\ days' = [days EXCEPT ![g] = D]
    /\ req' = [req EXCEPT ![q].pc = "read", ![q].group = g]
    /\ UNCHANGED <<lock, worker, active, horizon, sessions, faults, lost>>

\* updateGroup changes the schedule and deletes the open sessions it can see,
\* in one transaction; sessions with a record are kept.
UpdateGroup(q, g, D) ==
    /\ req[q].pc = "idle"
    /\ D # days[g]
    /\ Apart => ~RequestOn(g) /\ ~JobOn(g)
    /\ days' = [days EXCEPT ![g] = D]
    /\ sessions' = [sessions EXCEPT ![g] = [d \in Date |-> [@[d] EXCEPT !.open = 0]]]
    /\ req' = [req EXCEPT ![q].pc = "read", ![q].group = g]
    /\ UNCHANGED <<lock, worker, active, horizon, faults, lost>>

\* The handler then generates in a transaction of its own.
ReqReads(q) ==
    /\ req[q].pc = "read"
    /\ req' = [req EXCEPT ![q].pc = "insert",
                          ![q].dates = MissingDates(req[q].group)]
    /\ UNCHANGED <<lock, worker, tables, faults, lost>>

ReqInserts(q) ==
    /\ req[q].pc = "insert"
    /\ sessions' = Inserted(req[q].group, req[q].dates)
    /\ req' = [req EXCEPT ![q] = ReqIdle]
    /\ UNCHANGED <<lock, worker, active, days, horizon, faults, lost>>

\* A failure there is logged: "the weekly cron backfills".
ReqFails(q) ==
    /\ req[q].pc # "idle" /\ faults < MaxFaults
    /\ faults' = faults + 1
    /\ req' = [req EXCEPT ![q] = ReqIdle]
    /\ UNCHANGED <<lock, worker, tables, lost>>

-----------------------------------------------------------------------------
(* The rest of the world *)

\* Mutant: a session that is gone is kept all the same.
KeepsGoneSession(g, d) ==
    /\ sessions[g][d] # NoSession
    /\ sessions' = [sessions EXCEPT ![g][d] = [open |-> @.open - 1,
                                               kept |-> @.kept + 1]]
    /\ UNCHANGED <<lock, worker, active, days, horizon, req, faults, lost>>

\* Attendance or a cancellation makes a session part of the record.
KeepSession(g, d) ==
    /\ sessions[g][d].open > 0
    /\ sessions' = [sessions EXCEPT ![g][d] = [open |-> @.open - 1,
                                               kept |-> @.kept + 1]]
    /\ UNCHANGED <<lock, worker, active, days, horizon, req, faults, lost>>

\* The super admin suspends an academy or takes it back.
ToggleTenant(t) ==
    /\ active' = IF t \in active THEN active \ {t} ELSE active \cup {t}
    /\ UNCHANGED <<lock, worker, days, sessions, horizon, req, faults, lost>>

DatePasses ==
    /\ horizon < MaxDate
    /\ horizon' = horizon + 1
    /\ UNCHANGED <<lock, worker, active, days, sessions, req, faults, lost>>

JobStep(w) ==
    \/ TryLock(w) \/ ListTenants(w) \/ JobInserts(w) \/ GroupsDone(w) \/ Unlock(w)
    \/ \E t \in Tenant : ReadGroups(w, t) \/ TenantFails(w, t)
    \/ \E g \in Group : JobReads(w, g)

ReqStep(q) == ReqReads(q) \/ ReqInserts(q)

Next ==
    \/ \E w \in Worker :
          \/ JobStep(w)
          \/ JobGroupFails(w) \/ Die(w) \/ SessionEnds(w) \/ Disconnect(w)
    \/ \E q \in Req :
          \/ \E g \in Group, D \in Schedules : UpdateGroup(q, g, D)
          \/ ReqStep(q) \/ ReqFails(q)
    \/ \E g \in Group, d \in Date : KeepSession(g, d)
    \/ \E t \in Tenant : ToggleTenant(t)
    \/ DatePasses

\* The cron keeps firing and a replica that is up goes on; a request ends; the
\* server notices a dead connection.
Fairness ==
    /\ \A w \in Worker : WF_vars(JobStep(w)) /\ WF_vars(SessionEnds(w))
    /\ \A q \in Req : WF_vars(ReqStep(q))

Safe == Init /\ [][Next]_vars
Spec == Safe /\ Fairness

-----------------------------------------------------------------------------
(* Properties *)

\* The variables have the shapes they should.
TypeOK ==
    /\ lock \in Worker \cup {None}
    /\ worker \in [Worker -> [pc : {"idle", "list", "tenant", "group", "insert"},
                              left : SUBSET Tenant, groups : SUBSET Group,
                              group : Group \cup {None}, dates : SUBSET Date]]
    /\ active \subseteq Tenant
    /\ days \in [Group -> Schedules]
    /\ sessions \in [Group -> [Date -> [open : Nat, kept : Nat]]]
    /\ horizon \in Date
    /\ req \in [Req -> [pc : {"idle", "read", "insert"},
                        group : Group \cup {None}, dates : SUBSET Date]]
    /\ faults \in 0..MaxFaults
    /\ lost \subseteq Worker

\* Generation is idempotent (schedule.service.ts:45): a group has one session
\* on a date at most, and an open one only on a day of its schedule, as long as
\* no replica lost the lock while it ran.
SessionsFollowSchedule ==
    lost = {} =>
        \A g \in Group, d \in Date :
            /\ sessions[g][d].open + sessions[g][d].kept <= 1
            /\ sessions[g][d].open > 0 => d \in days[g]

Lock == INSTANCE JobLock WITH
            running <- {w \in Worker : Running(w) /\ w \notin lost}

\* The replicas implement the abstract lock: whoever dies or fails, one at a
\* time runs the job, of those that have kept their connection
\* (scheduler.ts:69-73).
OneRunner == Lock!Spec

Unfilled(g, d) ==
    /\ TenantOf[g] \in active
    /\ d \in days[g] /\ d <= horizon /\ ~Has(g, d)

\* A scheduled date of the window gets its session in the end, whoever failed
\* or died on the way, and whatever the other tenants do ("the weekly cron
\* backfills", app/api/groups/route.ts:91; scheduler.ts:191-198).
Backfilled ==
    \A g \in Group, d \in Date :
        TenantOf[g] \notin Broken => (Unfilled(g, d) ~> ~Unfilled(g, d))
=============================================================================

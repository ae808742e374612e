-------------------------- MODULE SessionJobProofs --------------------------
(***************************************************************************)
(* What TLAPS proves about SessionJob, for any number of replicas,         *)
(* requests, tenants, groups and dates: its types, that the replicas       *)
(* implement the abstract lock, and, when generations of one group do not  *)
(* overlap and the clocks agree on the date, one session per date.         *)
(***************************************************************************)
EXTENDS SessionJob, TLAPS

-----------------------------------------------------------------------------
(* Types *)

\* TypeOK, and what a replica or a request knows where it stands.
Typed ==
    /\ TypeOK
    /\ \A w \in Worker : worker[w].pc = "insert" => worker[w].group \in Group
    /\ \A q \in Req : req[q].pc # "idle" => req[q].group \in Group

LEMMA MissingType ==
  ASSUME Typed, NEW g \in Group
  PROVE  MissingDates(g) \subseteq Date
  BY DEF Typed, TypeOK, MissingDates, Schedules

LEMMA InsertedType ==
  ASSUME Typed, NEW g \in Group, NEW D \in SUBSET Date
  PROVE  Inserted(g, D) \in [Group -> [Date -> [open : Nat, kept : Nat]]]
  <1>1. sessions[g] \in [Date -> [open : Nat, kept : Nat]]
    BY DEF Typed, TypeOK
  <1>2. \A d \in Date : sessions[g][d].open \in Nat /\ sessions[g][d].kept \in Nat
    BY <1>1
  <1>3. [d \in Date |->
          [open |-> IF d \in D THEN sessions[g][d].open + 1
                               ELSE sessions[g][d].open,
           kept |-> sessions[g][d].kept]]
           \in [Date -> [open : Nat, kept : Nat]]
    BY <1>2
  <1> QED
    BY <1>3 DEF Typed, TypeOK, Inserted

LEMMA TypeInit == ASSUME JobAssumption, Init PROVE Typed
  <1>1. 1 \in Date /\ 0 \in 0 .. MaxFaults
    BY JobAssumption DEF JobAssumption, Date
  <1>2. [g \in Group |-> [d \in Date |-> NoSession]]
          \in [Group -> [Date -> [open : Nat, kept : Nat]]]
    BY DEF NoSession
  <1> QED
    BY <1>1, <1>2 DEF Init, Typed, TypeOK, WorkerIdle, ReqIdle

WorkerState ==
    [pc : {"idle", "list", "tenant", "group", "insert"}, left : SUBSET Tenant,
     groups : SUBSET Group, group : Group \cup {None}, dates : SUBSET Date]

RequestState ==
    [pc : {"idle", "read", "insert"}, group : Group \cup {None},
     dates : SUBSET Date]

LEMMA IdleType ==
  /\ WorkerIdle \in WorkerState /\ WorkerIdle.pc = "idle"
  /\ ReqIdle \in RequestState /\ ReqIdle.pc = "idle"
  BY DEF WorkerIdle, WorkerState, ReqIdle, RequestState

\* Replica w gets another record, and nothing else changes but the lock, the
\* faults and the lost.
LEMMA TypeRecord ==
  ASSUME Typed, NEW w \in Worker, NEW v \in WorkerState,
         v.pc = "insert" => v.group \in Group,
         worker' = [worker EXCEPT ![w] = v],
         lock' \in Worker \cup {None}, lost' \subseteq Worker,
         faults' \in 0 .. MaxFaults,
         UNCHANGED <<active, days, horizon, req>>,
         sessions' \in [Group -> [Date -> [open : Nat, kept : Nat]]]
  PROVE  Typed'
  <1>1. worker \in [Worker -> WorkerState]
    BY DEF Typed, TypeOK, WorkerState
  <1>2. worker' \in [Worker -> WorkerState]
    BY <1>1
  <1>3. \A u \in Worker : worker'[u].pc = "insert" => worker'[u].group \in Group
    BY <1>1 DEF Typed
  <1> QED
    BY <1>2, <1>3 DEF Typed, TypeOK, WorkerState

\* Request q gets another record.
LEMMA TypeReqRecord ==
  ASSUME Typed, NEW q \in Req, NEW v \in RequestState,
         v.pc # "idle" => v.group \in Group,
         req' = [req EXCEPT ![q] = v],
         faults' \in 0 .. MaxFaults, days' \in [Group -> Schedules],
         sessions' \in [Group -> [Date -> [open : Nat, kept : Nat]]],
         UNCHANGED <<lock, worker, active, horizon, lost>>
  PROVE  Typed'
  <1>1. req \in [Req -> RequestState]
    BY DEF Typed, TypeOK, RequestState
  <1>2. req' \in [Req -> RequestState]
    BY <1>1
  <1>3. \A p \in Req : req'[p].pc # "idle" => req'[p].group \in Group
    BY <1>1 DEF Typed
  <1> QED
    BY <1>2, <1>3 DEF Typed, TypeOK, RequestState

\* A step of the job.
LEMMA TypeWorker ==
  ASSUME JobAssumption, Typed, NEW w \in Worker,
         \/ JobStep(w) \/ JobGroupFails(w) \/ Die(w) \/ SessionEnds(w)
         \/ Disconnect(w)
  PROVE  Typed'
  <1>0. /\ worker[w] \in WorkerState
        /\ worker[w].pc = "insert" => worker[w].group \in Group
        /\ lock \in Worker \cup {None} /\ lost \subseteq Worker
        /\ faults \in 0 .. MaxFaults /\ MaxFaults \in Nat
        /\ sessions \in [Group -> [Date -> [open : Nat, kept : Nat]]]
        /\ active \subseteq Tenant
    BY DEF Typed, TypeOK, WorkerState, JobAssumption
  <1>f. faults < MaxFaults => faults + 1 \in 0 .. MaxFaults
    BY <1>0
  <1>1. CASE TryLock(w)
    <2> DEFINE v == [worker[w] EXCEPT !.pc = "list"]
    <2>1. v \in WorkerState /\ (v.pc = "insert" => v.group \in Group)
      BY <1>0, <1>1 DEF WorkerState, TryLock
    <2>2. /\ worker' = [worker EXCEPT ![w] = v]
          /\ lock' \in {lock, w} /\ lost' = lost
          /\ faults' \in {faults, faults + 1} /\ (faults' = faults \/ faults < MaxFaults)
          /\ UNCHANGED <<active, days, sessions, horizon, req>>
      BY <1>1 DEF TryLock, tables
    <2> HIDE DEF v
    <2> QED
      BY <1>0, <1>f, <2>1, <2>2, TypeRecord
  <1>2. CASE ListTenants(w)
    <2> DEFINE v == [worker[w] EXCEPT !.pc = "tenant", !.left = active]
    <2>1. v \in WorkerState /\ (v.pc = "insert" => v.group \in Group)
      BY <1>0, <1>2 DEF WorkerState, ListTenants
    <2>2. /\ worker' = [worker EXCEPT ![w] = v]
          /\ lock' \in {lock, w} /\ lost' = lost
          /\ faults' \in {faults, faults + 1} /\ (faults' = faults \/ faults < MaxFaults)
          /\ UNCHANGED <<active, days, sessions, horizon, req>>
      BY <1>2 DEF ListTenants, tables
    <2> HIDE DEF v
    <2> QED
      BY <1>0, <1>f, <2>1, <2>2, TypeRecord
  <1>4. CASE GroupsDone(w)
    <2> DEFINE v == [worker[w] EXCEPT !.pc = "tenant"]
    <2>1. v \in WorkerState /\ (v.pc = "insert" => v.group \in Group)
      BY <1>0, <1>4 DEF WorkerState, GroupsDone
    <2>2. /\ worker' = [worker EXCEPT ![w] = v]
          /\ lock' \in {lock, w} /\ lost' = lost
          /\ faults' \in {faults, faults + 1} /\ (faults' = faults \/ faults < MaxFaults)
          /\ UNCHANGED <<active, days, sessions, horizon, req>>
      BY <1>4 DEF GroupsDone, tables
    <2> HIDE DEF v
    <2> QED
      BY <1>0, <1>f, <2>1, <2>2, TypeRecord
  <1>6. ASSUME NEW t \in Tenant, ReadGroups(w, t) PROVE Typed'
    <2> DEFINE v == [worker[w] EXCEPT !.pc = "group", !.left = worker[w].left \ {t},
                                     !.groups = Groups(t)]
    <2>1. v \in WorkerState /\ (v.pc = "insert" => v.group \in Group)
      BY <1>0, <1>6 DEF WorkerState, ReadGroups, Groups
    <2>2. /\ worker' = [worker EXCEPT ![w] = v]
          /\ lock' \in {lock, w} /\ lost' = lost
          /\ faults' \in {faults, faults + 1} /\ (faults' = faults \/ faults < MaxFaults)
          /\ UNCHANGED <<active, days, sessions, horizon, req>>
      BY <1>6 DEF ReadGroups, tables
    <2> HIDE DEF v
    <2> QED
      BY <1>0, <1>f, <2>1, <2>2, TypeRecord
  <1>7. ASSUME NEW t \in Tenant, TenantFails(w, t) PROVE Typed'
    <2> DEFINE v == [worker[w] EXCEPT !.left = worker[w].left \ {t}]
    <2>1. v \in WorkerState /\ (v.pc = "insert" => v.group \in Group)
      BY <1>0, <1>7 DEF WorkerState, TenantFails
    <2>2. /\ worker' = [worker EXCEPT ![w] = v]
          /\ lock' \in {lock, w} /\ lost' = lost
          /\ faults' \in {faults, faults + 1} /\ (faults' = faults \/ faults < MaxFaults)
          /\ UNCHANGED <<active, days, sessions, horizon, req>>
      BY <1>7 DEF TenantFails, tables
    <2> HIDE DEF v
    <2> QED
      BY <1>0, <1>f, <2>1, <2>2, TypeRecord
  <1>8. ASSUME NEW g \in Group, JobReads(w, g) PROVE Typed'
    <2> DEFINE v == [worker[w] EXCEPT !.pc = "insert", !.groups = worker[w].groups \ {g},
                                     !.group = g, !.dates = MissingDates(g)]
    <2>0. MissingDates(g) \subseteq Date
      BY MissingType
    <2>1. v \in WorkerState /\ (v.pc = "insert" => v.group \in Group)
      BY <1>0, <1>8, <2>0 DEF WorkerState, JobReads
    <2>2. /\ worker' = [worker EXCEPT ![w] = v]
          /\ lock' \in {lock, w} /\ lost' = lost
          /\ faults' \in {faults, faults + 1} /\ (faults' = faults \/ faults < MaxFaults)
          /\ UNCHANGED <<active, days, sessions, horizon, req>>
      BY <1>8 DEF JobReads, tables
    <2> HIDE DEF v
    <2> QED
      BY <1>0, <1>f, <2>1, <2>2, TypeRecord
  <1>9. CASE JobGroupFails(w)
    <2> DEFINE v == [worker[w] EXCEPT !.pc = "group", !.group = None, !.dates = {}]
    <2>1. v \in WorkerState /\ (v.pc = "insert" => v.group \in Group)
      BY <1>0, <1>9 DEF WorkerState, JobGroupFails
    <2>2. /\ worker' = [worker EXCEPT ![w] = v]
          /\ lock' \in {lock, w} /\ lost' = lost
          /\ faults' \in {faults, faults + 1} /\ (faults' = faults \/ faults < MaxFaults)
          /\ UNCHANGED <<active, days, sessions, horizon, req>>
      BY <1>9 DEF JobGroupFails, tables
    <2> HIDE DEF v
    <2> QED
      BY <1>0, <1>f, <2>1, <2>2, TypeRecord
  <1>3. CASE JobInserts(w)
    <2> DEFINE v == [worker[w] EXCEPT !.pc = "group", !.group = None, !.dates = {}]
    <2>1. v \in WorkerState /\ v.pc # "insert"
      BY <1>0 DEF WorkerState
    <2>2. worker[w].group \in Group /\ worker[w].dates \in SUBSET Date
      BY <1>0, <1>3 DEF JobInserts, WorkerState
    <2>3. /\ worker' = [worker EXCEPT ![w] = v]
          /\ sessions' = Inserted(worker[w].group, worker[w].dates)
          /\ UNCHANGED <<lock, lost, faults, active, days, horizon, req>>
      BY <1>3 DEF JobInserts
    <2> HIDE DEF v
    <2> QED
      BY <1>0, <2>1, <2>2, <2>3, InsertedType, TypeRecord
  <1>5. CASE Unlock(w) \/ Die(w)
    <2>1. /\ worker' = [worker EXCEPT ![w] = WorkerIdle]
          /\ lock' \in {lock, None} /\ lost' = lost
          /\ faults' = faults \/ (faults < MaxFaults /\ faults' = faults + 1)
          /\ UNCHANGED <<active, days, sessions, horizon, req>>
      BY <1>5 DEF Unlock, Die, tables
    <2> QED
      BY <1>0, <1>f, <2>1, IdleType, TypeRecord
  <1>11. CASE SessionEnds(w) \/ Disconnect(w)
    <2>1. /\ worker' = worker
          /\ lock' = None /\ lost' \subseteq Worker
          /\ faults' = faults \/ (faults < MaxFaults /\ faults' = faults + 1)
          /\ UNCHANGED <<active, days, sessions, horizon, req>>
      BY <1>0, <1>11 DEF SessionEnds, Disconnect, tables
    <2> QED
      BY <1>0, <1>f, <2>1 DEF Typed, TypeOK
  <1> QED
    BY <1>1, <1>2, <1>3, <1>4, <1>5, <1>6, <1>7, <1>8, <1>9, <1>11 DEF JobStep

\* A step of a request.
LEMMA TypeRequest ==
  ASSUME JobAssumption, Typed, NEW q \in Req,
         \/ \E g \in Group, D \in Schedules : UpdateGroup(q, g, D)
         \/ ReqStep(q) \/ ReqFails(q)
  PROVE  Typed'
  <1>0. /\ req[q] \in RequestState
        /\ req[q].pc # "idle" => req[q].group \in Group
        /\ faults \in 0 .. MaxFaults /\ MaxFaults \in Nat
        /\ sessions \in [Group -> [Date -> [open : Nat, kept : Nat]]]
        /\ days \in [Group -> Schedules]
    BY DEF Typed, TypeOK, RequestState, JobAssumption
  <1>1. ASSUME NEW g \in Group, NEW D \in Schedules, UpdateGroup(q, g, D)
        PROVE  Typed'
    <2> DEFINE v == [req[q] EXCEPT !.pc = "read", !.group = g]
    <2>1. v \in RequestState /\ v.group = g
      BY <1>0 DEF RequestState
    <2>2. [d \in Date |-> [sessions[g][d] EXCEPT !.open = 0]]
             \in [Date -> [open : Nat, kept : Nat]]
      BY <1>0
    <2>3. /\ req' = [req EXCEPT ![q] = v] /\ days' = [days EXCEPT ![g] = D]
          /\ sessions' = [sessions EXCEPT
                ![g] = [d \in Date |-> [sessions[g][d] EXCEPT !.open = 0]]]
          /\ UNCHANGED <<lock, worker, active, horizon, faults, lost>>
      BY <1>1 DEF UpdateGroup
    <2>4. /\ sessions' \in [Group -> [Date -> [open : Nat, kept : Nat]]]
          /\ days' \in [Group -> Schedules]
      BY <1>0, <2>2, <2>3
    <2> HIDE DEF v
    <2> QED
      BY <1>0, <2>1, <2>3, <2>4, TypeReqRecord
  <1>2. CASE ReqReads(q)
    <2> DEFINE v == [req[q] EXCEPT !.pc = "insert",
                                   !.dates = MissingDates(req[q].group)]
    <2>0. MissingDates(req[q].group) \subseteq Date /\ req[q].group \in Group
      BY <1>0, <1>2, MissingType DEF ReqReads
    <2>1. v \in RequestState /\ v.group \in Group
      BY <1>0, <2>0 DEF RequestState
    <2>2. /\ req' = [req EXCEPT ![q] = v]
          /\ UNCHANGED <<lock, worker, active, days, sessions, horizon, faults,
                         lost>>
      BY <1>2 DEF ReqReads, tables
    <2> HIDE DEF v
    <2> QED
      BY <1>0, <2>1, <2>2, TypeReqRecord
  <1>3. CASE ReqInserts(q)
    <2>1. req[q].group \in Group /\ req[q].dates \in SUBSET Date
      BY <1>0, <1>3 DEF ReqInserts, RequestState
    <2>2. /\ req' = [req EXCEPT ![q] = ReqIdle]
          /\ sessions' = Inserted(req[q].group, req[q].dates)
          /\ UNCHANGED <<lock, worker, active, days, horizon, faults, lost>>
      BY <1>3 DEF ReqInserts
    <2> QED
      BY <1>0, <2>1, <2>2, InsertedType, IdleType, TypeReqRecord
  <1>4. CASE ReqFails(q)
    <2>1. /\ req' = [req EXCEPT ![q] = ReqIdle]
          /\ faults < MaxFaults /\ faults' = faults + 1
          /\ UNCHANGED <<lock, worker, active, days, sessions, horizon, lost>>
      BY <1>4 DEF ReqFails, tables
    <2>2. faults' \in 0 .. MaxFaults
      BY <1>0, <2>1
    <2>3. /\ days' \in [Group -> Schedules]
          /\ sessions' \in [Group -> [Date -> [open : Nat, kept : Nat]]]
      BY <1>0, <2>1
    <2> QED
      BY <2>1, <2>2, <2>3, IdleType, TypeReqRecord
  <1> QED
    BY <1>1, <1>2, <1>3, <1>4 DEF ReqStep

\* A step of the rest of the world, or none.
LEMMA TypeWorld ==
  ASSUME JobAssumption, Typed,
         \/ \E g \in Group, d \in Date : KeepSession(g, d)
         \/ \E t \in Tenant : ToggleTenant(t)
         \/ DatePasses
         \/ UNCHANGED vars
  PROVE  Typed'
  <1> USE DEF Typed, TypeOK
  <1>1. ASSUME NEW g \in Group, NEW d \in Date, KeepSession(g, d) PROVE Typed'
    <2> DEFINE s == sessions[g][d]
    <2>1. s \in [open : Nat, kept : Nat] /\ s.open > 0
      BY <1>1 DEF KeepSession
    <2>2. [open |-> s.open - 1, kept |-> s.kept + 1] \in [open : Nat, kept : Nat]
      <3> HIDE DEF s
      <3> QED
        BY <2>1
    <2>3. sessions' \in [Group -> [Date -> [open : Nat, kept : Nat]]]
      BY <1>1, <2>2 DEF KeepSession
    <2> QED
      BY <1>1, <2>3 DEF KeepSession
  <1>2. ASSUME NEW t \in Tenant, ToggleTenant(t) PROVE Typed'
    BY <1>2 DEF ToggleTenant
  <1>3. CASE DatePasses
    BY <1>3, JobAssumption DEF DatePasses, Date, JobAssumption
  <1>4. CASE UNCHANGED vars
    BY <1>4 DEF vars
  <1> QED
    BY <1>1, <1>2, <1>3, <1>4

LEMMA TypeNext == ASSUME JobAssumption, Typed, [Next]_vars PROVE Typed'
  BY TypeWorker, TypeRequest, TypeWorld DEF Next

\* TypeOK: every variable keeps its shape, whatever dies, fails or is lost.
THEOREM TypeCorrect == Spec => []TypeOK
  <1>1. Init => Typed
    BY JobAssumption, TypeInit
  <1>2. Typed /\ [Next]_vars => Typed'
    BY JobAssumption, TypeNext
  <1>3. Typed => TypeOK
    BY DEF Typed
  <1> QED
    BY <1>1, <1>2, <1>3, PTL DEF Spec, Safe

-----------------------------------------------------------------------------
(* The lock *)

\* A replica that is inside the job and has kept its connection has the lock.
Held == \A w \in Worker : Running(w) /\ w \notin lost => lock = w

LockInv == Typed /\ Held

\* The replicas inside the job, as JobLock counts them.
Inside == {w \in Worker : Running(w) /\ w \notin lost}

\* A step that leaves the lock, the lost and who is running alone.
LEMMA SameInside ==
  ASSUME Held, UNCHANGED <<lock, lost>>,
         \A v \in Worker : Running(v)' = Running(v)
  PROVE  Held' /\ Inside' = Inside
  BY DEF Held, Inside

\* A step of the job is a step of the lock, and keeps Held.
LEMMA LockWorker ==
  ASSUME JobAssumption, LockInv, NEW w \in Worker,
         \/ JobStep(w) \/ JobGroupFails(w) \/ Die(w) \/ SessionEnds(w)
         \/ Disconnect(w)
  PROVE  Held' /\ (Lock!Next \/ Inside' = Inside)
  <1>0. None \notin Worker /\ worker \in [Worker -> WorkerState]
    BY JobAssumption DEF LockInv, Typed, TypeOK, JobAssumption, WorkerState
  <1>1. ASSUME \/ ListTenants(w) \/ JobInserts(w) \/ GroupsDone(w)
               \/ \E t \in Tenant : ReadGroups(w, t) \/ TenantFails(w, t)
               \/ \E g \in Group : JobReads(w, g)
               \/ JobGroupFails(w)
        PROVE  Held' /\ Inside' = Inside
    <2>1. UNCHANGED <<lock, lost>>
      BY <1>1 DEF ListTenants, JobInserts, GroupsDone, ReadGroups, TenantFails,
           JobReads, JobGroupFails
    <2>2. worker[w].pc # "idle" /\ worker'[w].pc # "idle"
      <3>0. worker[w] \in WorkerState
        BY <1>0
      <3>1. CASE ListTenants(w) \/ GroupsDone(w)
        BY <1>0, <3>0, <3>1 DEF ListTenants, GroupsDone, WorkerState
      <3>2. CASE JobInserts(w) \/ JobGroupFails(w)
        BY <1>0, <3>0, <3>2 DEF JobInserts, JobGroupFails, WorkerState
      <3>3. ASSUME NEW t \in Tenant, ReadGroups(w, t) \/ TenantFails(w, t)
            PROVE  worker[w].pc # "idle" /\ worker'[w].pc # "idle"
        BY <1>0, <3>0, <3>3 DEF ReadGroups, TenantFails, WorkerState
      <3>4. ASSUME NEW g \in Group, JobReads(w, g)
            PROVE  worker[w].pc # "idle" /\ worker'[w].pc # "idle"
        <4> HIDE DEF MissingDates
        <4> QED
          BY <1>0, <3>0, <3>4 DEF JobReads, WorkerState
      <3> QED
        BY <1>1, <3>1, <3>2, <3>3, <3>4
    <2>3. \A v \in Worker : v # w => worker'[v] = worker[v]
      BY <1>0, <1>1 DEF ListTenants, JobInserts, GroupsDone, ReadGroups, TenantFails,
           JobReads, JobGroupFails
    <2>4. \A v \in Worker : Running(v)' = Running(v)
      BY <2>2, <2>3 DEF Running
    <2> QED
      BY <2>1, <2>4, SameInside DEF LockInv
  <1>2. CASE TryLock(w)
    <2>1. Inside = {}
      BY <1>0, <1>2 DEF TryLock, LockInv, Held, Inside
    <2>2. /\ lost' = lost /\ lock' = w
          /\ \A v \in Worker : Running(v)' <=> v = w \/ Running(v)
      BY <1>0, <1>2 DEF TryLock, Running
    <2>3. Inside' = IF w \in lost THEN {} ELSE {w}
      BY <2>1, <2>2 DEF Inside
    <2>4. Lock!Start(w) \/ Inside' = Inside
      BY <2>1, <2>3 DEF Lock!Start, Inside
    <2>5. Held'
      BY <2>1, <2>2 DEF Held, Inside
    <2> QED
      BY <2>4, <2>5 DEF Lock!Next
  <1>3. ASSUME Unlock(w) \/ Die(w) \/ Disconnect(w)
        PROVE  Held' /\ (Lock!Next \/ Inside' = Inside)
    <2>1. Inside' = Inside \ {w}
      <3>1. CASE Unlock(w) \/ Die(w)
        <4>1. lost' = lost /\ \A v \in Worker : Running(v)' <=> v # w /\ Running(v)
          BY <1>0, <3>1 DEF Unlock, Die, Running, WorkerIdle
        <4> QED
          BY <4>1 DEF Inside
      <3>2. CASE Disconnect(w)
        <4>1. lost' = lost \cup {w} /\ \A v \in Worker : Running(v)' = Running(v)
          BY <3>2 DEF Disconnect, Running
        <4> QED
          BY <4>1 DEF Inside
      <3> QED
        BY <1>3, <3>1, <3>2
    <2>2. \A v \in Worker : v # w /\ lock = v => lock' = v
      BY <1>3 DEF Unlock, Die, Disconnect
    <2>3. Held'
      BY <2>1, <2>2 DEF LockInv, Held, Inside
    <2>4. Lock!Stop(w) \/ Inside' = Inside
      BY <2>1 DEF Lock!Stop, Inside
    <2> QED
      BY <2>3, <2>4 DEF Lock!Next
  <1>4. CASE SessionEnds(w)
    <2>1. Inside' = Inside
      BY <1>4 DEF SessionEnds, Inside, Running
    <2>2. Inside = {}
      BY <1>4 DEF SessionEnds, LockInv, Held, Inside
    <2> QED
      BY <2>1, <2>2 DEF Held, Inside
  <1> QED
    BY <1>1, <1>2, <1>3, <1>4 DEF JobStep

LEMMA LockNext ==
  ASSUME JobAssumption, LockInv, [Next]_vars
  PROVE  LockInv' /\ (Lock!Next \/ Inside' = Inside)
  <1>1. Typed'
    BY TypeNext DEF LockInv
  <1>2. ASSUME NEW w \in Worker,
               \/ JobStep(w) \/ JobGroupFails(w) \/ Die(w) \/ SessionEnds(w)
               \/ Disconnect(w)
        PROVE  Held' /\ (Lock!Next \/ Inside' = Inside)
    BY <1>2, LockWorker
  <1>3. ASSUME UNCHANGED <<lock, worker, lost>>
        PROVE  Held' /\ Inside' = Inside
    BY <1>3, SameInside DEF LockInv, Running
  <1>4. ASSUME NEW q \in Req,
               \/ \E g \in Group, D \in Schedules : UpdateGroup(q, g, D)
               \/ ReqStep(q) \/ ReqFails(q)
        PROVE  UNCHANGED <<lock, worker, lost>>
    BY <1>4 DEF UpdateGroup, ReqStep, ReqReads, ReqInserts, ReqFails
  <1>5. ASSUME \/ \E g \in Group, d \in Date : KeepSession(g, d)
               \/ \E t \in Tenant : ToggleTenant(t)
               \/ DatePasses
               \/ UNCHANGED vars
        PROVE  UNCHANGED <<lock, worker, lost>>
    BY <1>5 DEF KeepSession, ToggleTenant, DatePasses, vars
  <1> QED
    BY <1>1, <1>2, <1>3, <1>4, <1>5 DEF Next, LockInv

LEMMA LockInit == ASSUME JobAssumption, Init PROVE LockInv /\ Lock!Init
  BY TypeInit DEF Init, LockInv, Held, Running, WorkerIdle, Lock!Init

\* OneRunner: whoever dies, fails or is late, the replicas that have kept their
\* connection run the job one at a time.
THEOREM ImplementsLock == Spec => OneRunner
  <1>1. Init => LockInv /\ Lock!Init
    BY JobAssumption, LockInit
  <1>2. LockInv /\ [Next]_vars => LockInv' /\ [Lock!Next]_Inside
    BY JobAssumption, LockNext
  <1>3. LockInv /\ [Next]_vars => [Lock!Next]_({w \in Worker : Running(w) /\ w \notin lost})
    BY <1>2 DEF Inside
  <1> QED
    BY <1>1, <1>2, <1>3, PTL DEF Spec, Safe, OneRunner, Lock!Spec

-----------------------------------------------------------------------------
(* One session per date *)

OneEach ==
    \A g \in Group, d \in Date :
        /\ sessions[g][d].open + sessions[g][d].kept <= 1
        /\ sessions[g][d].open > 0 => d \in days[g]

\* Whoever generates for a group is alone with it.
Exclusive ==
    /\ \A w \in Worker : worker[w].group # None <=> worker[w].pc = "insert"
    /\ \A q \in Req : req[q].group # None <=> req[q].pc # "idle"
    /\ \A w \in Worker, q \in Req :
          worker[w].group # None => worker[w].group # req[q].group
    /\ \A p, q \in Req :
          p # q /\ req[p].group # None => req[p].group # req[q].group

\* The dates D of a group are scheduled and have no session.
Free(g, D) ==
    \A d \in D : d \in days[g] /\ sessions[g][d].open = 0
                               /\ sessions[g][d].kept = 0

\* What a generation is about to insert is still missing.
Ready ==
    /\ \A w \in Worker :
          worker[w].pc = "insert" => Free(worker[w].group, worker[w].dates)
    /\ \A q \in Req :
          req[q].pc = "insert" => Free(req[q].group, req[q].dates)

Tidy == OneEach /\ Exclusive /\ Ready

ScheduleInv == LockInv /\ (lost = {} => Tidy)

LEMMA MissingFree ==
  ASSUME Shift = 0, Typed, NEW g \in Group
  PROVE  Free(g, MissingDates(g))
  <1> SUFFICES ASSUME NEW d \in MissingDates(g)
               PROVE  d \in days[g] /\ sessions[g][d].open = 0
                                    /\ sessions[g][d].kept = 0
    BY DEF Free
  <1>1. d \in days[g] /\ d \in Date /\ d \notin ExistingDates(g)
    BY MissingType DEF MissingDates
  <1>2. d + Shift = d
    BY <1>1 DEF Date
  <1>3. ~Has(g, d)
    BY <1>1, <1>2 DEF ExistingDates
  <1> QED
    BY <1>1, <1>3 DEF Has, NoSession

\* Inserting missing dates puts one session on each, and touches no other group.
LEMMA InsertFree ==
  ASSUME Typed, OneEach, NEW g \in Group, NEW D \in SUBSET Date, Free(g, D),
         sessions' = Inserted(g, D), days' = days
  PROVE  /\ OneEach'
         /\ \A h \in Group : \A E : h # g /\ Free(h, E) => Free(h, E)'
  <1>1. sessions \in [Group -> [Date -> [open : Nat, kept : Nat]]]
    BY DEF Typed, TypeOK
  <1>2. \A h \in Group : h # g => sessions'[h] = sessions[h]
    BY <1>1 DEF Inserted
  <1>3. \A d \in Date :
           /\ sessions'[g][d].open = IF d \in D THEN sessions[g][d].open + 1
                                                ELSE sessions[g][d].open
           /\ sessions'[g][d].kept = sessions[g][d].kept
    BY <1>1 DEF Inserted
  <1>4. \A d \in Date : /\ sessions'[g][d].open + sessions'[g][d].kept <= 1
                        /\ sessions'[g][d].open > 0 => d \in days[g]
    <2> TAKE d \in Date
    <2>1. sessions[g][d].open \in Nat /\ sessions[g][d].kept \in Nat
      BY <1>1
    <2>2. CASE d \in D
      <3>1. d \in days[g] /\ sessions[g][d].open = 0 /\ sessions[g][d].kept = 0
        BY <2>2 DEF Free
      <3>2. sessions'[g][d].open = 1 /\ sessions'[g][d].kept = 0
        BY <1>3, <2>2, <3>1
      <3>3. sessions'[g][d].open + sessions'[g][d].kept = 1
        BY <3>2
      <3> QED
        BY <3>1, <3>3
    <2>3. CASE d \notin D
      <3>1. /\ sessions'[g][d].open = sessions[g][d].open
            /\ sessions'[g][d].kept = sessions[g][d].kept
        BY <1>3, <2>3
      <3>2. /\ sessions[g][d].open + sessions[g][d].kept <= 1
            /\ sessions[g][d].open > 0 => d \in days[g]
        BY DEF OneEach
      <3> QED
        BY <3>1, <3>2
    <2> QED
      BY <2>2, <2>3
  <1>5. OneEach'
    BY <1>2, <1>4 DEF OneEach
  <1>6. \A h \in Group : \A E : h # g /\ Free(h, E) => Free(h, E)'
    BY <1>2 DEF Free
  <1> QED
    BY <1>5, <1>6

\* A step of the job keeps the sessions in order.
LEMMA TidyWorker ==
  ASSUME JobAssumption, Apart, Shift = 0, LockInv, Tidy, lost' = {}, lost = {},
         NEW w \in Worker,
         \/ JobStep(w) \/ JobGroupFails(w) \/ Die(w) \/ SessionEnds(w)
         \/ Disconnect(w)
  PROVE  Tidy'
  <1>0. /\ worker \in [Worker -> WorkerState] /\ worker[w] \in WorkerState
        /\ Typed /\ None \notin Group
    BY DEF LockInv, Typed, TypeOK, WorkerState, JobAssumption
  <1>1. ASSUME UNCHANGED <<sessions, days, req>>,
               \A v \in Worker : v # w => worker'[v] = worker[v],
               worker'[w].group = None /\ worker'[w].pc # "insert"
        PROVE  Tidy'
    <2>1. OneEach'
      BY <1>1 DEF Tidy, OneEach
    <2>2. Exclusive'
      BY <1>1 DEF Tidy, Exclusive
    <2>3. Ready'
      BY <1>1 DEF Tidy, Ready, Free
    <2> QED
      BY <2>1, <2>2, <2>3 DEF Tidy
  <1>2. ASSUME \/ ListTenants(w) \/ GroupsDone(w) \/ TryLock(w)
               \/ \E t \in Tenant : ReadGroups(w, t) \/ TenantFails(w, t)
        PROVE  Tidy'
    <2>1. /\ worker[w].pc # "insert"
          /\ UNCHANGED <<sessions, days, req>>
          /\ \A v \in Worker : v # w => worker'[v] = worker[v]
      BY <1>0, <1>2 DEF ListTenants, GroupsDone, TryLock, ReadGroups, TenantFails,
           tables, Running
    <2>2. worker[w].group = None
      BY <2>1 DEF Tidy, Exclusive
    <2>3. worker'[w].group = None /\ worker'[w].pc # "insert"
      <3>1. CASE ListTenants(w) \/ GroupsDone(w)
        BY <1>0, <2>2, <3>1 DEF ListTenants, GroupsDone, WorkerState
      <3>2. CASE TryLock(w)
        BY <1>0, <2>2, <3>2 DEF TryLock, WorkerState
      <3>3. ASSUME NEW t \in Tenant, ReadGroups(w, t) \/ TenantFails(w, t)
            PROVE  worker'[w].group = None /\ worker'[w].pc # "insert"
        BY <1>0, <2>2, <3>3 DEF ReadGroups, TenantFails, WorkerState
      <3> QED
        BY <1>2, <3>1, <3>2, <3>3
    <2> QED
      BY <1>1, <2>1, <2>3
  <1>3. CASE JobGroupFails(w) \/ Unlock(w) \/ Die(w)
    <2>1. /\ UNCHANGED <<sessions, days, req>>
          /\ \A v \in Worker : v # w => worker'[v] = worker[v]
      BY <1>0, <1>3 DEF JobGroupFails, Unlock, Die, tables
    <2>2. worker'[w].group = None /\ worker'[w].pc # "insert"
      BY <1>0, <1>3 DEF JobGroupFails, Unlock, Die, WorkerState, WorkerIdle
    <2> QED
      BY <1>1, <2>1, <2>2
  <1>4. CASE SessionEnds(w) \/ Disconnect(w)
    <2>1. UNCHANGED <<sessions, days, req, worker>>
      BY <1>4 DEF SessionEnds, Disconnect, tables
    <2> QED
      BY <2>1 DEF Tidy, OneEach, Exclusive, Ready, Free
  <1>5. ASSUME NEW g \in Group, JobReads(w, g) PROVE Tidy'
    <2> DEFINE v == [worker[w] EXCEPT !.pc = "insert", !.groups = worker[w].groups \ {g},
                                      !.group = g, !.dates = MissingDates(g)]
    <2>1. v.pc = "insert" /\ v.group = g /\ v.dates = MissingDates(g)
      BY <1>0 DEF WorkerState
    <2>2. worker' = [worker EXCEPT ![w] = v] /\ UNCHANGED <<sessions, days, req>>
      BY <1>5 DEF JobReads, tables
    <2>3. \A q \in Req : req[q].group # g
      BY <1>5 DEF JobReads, RequestOn
    <2>4. Free(g, MissingDates(g))
      BY <1>0, MissingFree
    <2> HIDE DEF v, MissingDates
    <2>5. worker'[w] = v /\ \A u \in Worker : u # w => worker'[u] = worker[u]
      BY <1>0, <2>2
    <2>6. OneEach'
      BY <2>2 DEF Tidy, OneEach
    <2>7. Exclusive'
      BY <1>0, <2>1, <2>2, <2>3, <2>5 DEF Tidy, Exclusive
    <2>8. Ready'
      BY <2>1, <2>2, <2>4, <2>5 DEF Tidy, Ready, Free
    <2> QED
      BY <2>6, <2>7, <2>8 DEF Tidy
  <1>6. CASE JobInserts(w)
    <2> DEFINE g == worker[w].group
               D == worker[w].dates
               v == [worker[w] EXCEPT !.pc = "group", !.group = None, !.dates = {}]
    <2>1. g \in Group /\ D \in SUBSET Date /\ Free(g, D) /\ worker[w].pc = "insert"
      BY <1>0, <1>6 DEF JobInserts, WorkerState, Typed, Tidy, Ready
    <2>2. v.pc = "group" /\ v.group = None
      BY <1>0 DEF WorkerState
    <2>3. /\ worker' = [worker EXCEPT ![w] = v]
          /\ sessions' = Inserted(g, D) /\ UNCHANGED <<days, req>>
      BY <1>6 DEF JobInserts
    <2> HIDE DEF v, g, D
    <2>4. worker'[w] = v /\ \A u \in Worker : u # w => worker'[u] = worker[u]
      BY <1>0, <2>3
    <2>5. OneEach' /\ \A h \in Group : \A E : h # g /\ Free(h, E) => Free(h, E)'
      BY <1>0, <2>1, <2>3, InsertFree DEF Tidy
    <2>6. \A u \in Worker : u # w => worker[u].pc # "insert"
      BY <2>1 DEF LockInv, Held, Running
    <2>7. \A q \in Req : req[q].group # g
      BY <1>0, <2>1 DEF Tidy, Exclusive, g
    <2>8. Exclusive'
      BY <2>2, <2>3, <2>4 DEF Tidy, Exclusive
    <2>9. Ready'
      <3>1. ASSUME NEW u \in Worker PROVE worker'[u].pc # "insert"
        BY <2>2, <2>4, <2>6
      <3>2. ASSUME NEW q \in Req, req'[q].pc = "insert"
            PROVE  Free(req[q].group, req[q].dates)'
        <4>1. req[q].group \in Group /\ req'[q] = req[q]
          BY <1>0, <2>3, <3>2 DEF Typed
        <4>2. Free(req[q].group, req[q].dates)
          BY <2>3, <3>2 DEF Tidy, Ready
        <4> QED
          BY <2>3, <2>5, <2>7, <4>1, <4>2 DEF Free
      <3> QED
        BY <3>1, <3>2 DEF Ready
    <2> QED
      BY <2>5, <2>8, <2>9 DEF Tidy
  <1> QED
    BY <1>2, <1>3, <1>4, <1>5, <1>6 DEF JobStep

\* So does a step of a request.
LEMMA TidyRequest ==
  ASSUME JobAssumption, Apart, Shift = 0, LockInv, Tidy, NEW q \in Req,
         \/ \E g \in Group, D \in Schedules : UpdateGroup(q, g, D)
         \/ ReqStep(q) \/ ReqFails(q)
  PROVE  Tidy'
  <1>0. /\ req \in [Req -> RequestState] /\ req[q] \in RequestState
        /\ sessions \in [Group -> [Date -> [open : Nat, kept : Nat]]]
        /\ days \in [Group -> Schedules]
        /\ Typed /\ None \notin Group
    BY DEF LockInv, Typed, TypeOK, RequestState, JobAssumption
  <1>1. ASSUME NEW g \in Group, NEW D \in Schedules, UpdateGroup(q, g, D)
        PROVE  Tidy'
    <2> DEFINE v == [req[q] EXCEPT !.pc = "read", !.group = g]
    <2>1. v.pc = "read" /\ v.group = g
      BY <1>0 DEF RequestState
    <2>2. /\ req' = [req EXCEPT ![q] = v] /\ days' = [days EXCEPT ![g] = D]
          /\ sessions' = [sessions EXCEPT
                ![g] = [d \in Date |-> [sessions[g][d] EXCEPT !.open = 0]]]
          /\ UNCHANGED worker
      BY <1>1 DEF UpdateGroup
    <2>3. /\ \A p \in Req : req[p].group # g
          /\ \A w \in Worker : worker[w].group # g
      BY <1>1 DEF UpdateGroup, RequestOn, JobOn
    <2> HIDE DEF v
    <2>4. req'[q] = v /\ \A p \in Req : p # q => req'[p] = req[p]
      BY <1>0, <2>2
    <2>5. \A h \in Group : h # g => sessions'[h] = sessions[h] /\ days'[h] = days[h]
      BY <1>0, <2>2
    <2>6. \A d \in Date : /\ sessions'[g][d].open = 0
                          /\ sessions'[g][d].kept = sessions[g][d].kept
      BY <1>0, <2>2
    <2>7. OneEach'
      <3> SUFFICES ASSUME NEW h \in Group, NEW d \in Date
                   PROVE  /\ sessions'[h][d].open + sessions'[h][d].kept <= 1
                          /\ sessions'[h][d].open > 0 => d \in days'[h]
        BY DEF OneEach
      <3>1. /\ sessions[h][d].open \in Nat /\ sessions[h][d].kept \in Nat
            /\ sessions[h][d].open + sessions[h][d].kept <= 1
            /\ sessions[h][d].open > 0 => d \in days[h]
        BY <1>0 DEF Tidy, OneEach
      <3>2. CASE h = g
        <4>1. sessions'[h][d].open = 0 /\ sessions'[h][d].kept = sessions[h][d].kept
          BY <2>6, <3>2
        <4> QED
          BY <3>1, <4>1
      <3>3. CASE h # g
        BY <2>5, <3>1, <3>3
      <3> QED
        BY <3>2, <3>3
    <2>8. Exclusive'
      BY <1>0, <1>1, <2>1, <2>2, <2>3, <2>4 DEF Tidy, Exclusive
    <2>9. Ready'
      <3>1. \A h \in Group : \A E : h # g /\ Free(h, E) => Free(h, E)'
        BY <2>5 DEF Free
      <3>2. ASSUME NEW w \in Worker, worker'[w].pc = "insert"
            PROVE  Free(worker[w].group, worker[w].dates)'
        <4>1. /\ worker[w].group \in Group /\ worker[w].group # g
              /\ Free(worker[w].group, worker[w].dates)
          BY <1>0, <2>2, <2>3, <3>2 DEF Tidy, Ready, Typed
        <4> QED
          BY <2>2, <3>1, <4>1 DEF Free
      <3>3. ASSUME NEW p \in Req, req'[p].pc = "insert"
            PROVE  Free(req[p].group, req[p].dates)'
        <4>1. p # q /\ req'[p] = req[p]
          BY <2>1, <2>4, <3>3
        <4>2. /\ req[p].group \in Group /\ req[p].group # g
              /\ Free(req[p].group, req[p].dates)
          BY <1>0, <2>3, <3>3, <4>1 DEF Tidy, Ready, Typed
        <4> QED
          BY <3>1, <4>1, <4>2 DEF Free
      <3> QED
        BY <3>2, <3>3 DEF Ready
    <2> QED
      BY <2>7, <2>8, <2>9 DEF Tidy
  <1>2. CASE ReqReads(q)
    <2> DEFINE D == MissingDates(req[q].group)
               v == [req[q] EXCEPT !.pc = "insert", !.dates = D]
    <2>1. v.pc = "insert" /\ v.group = req[q].group /\ v.dates = D
      BY <1>0 DEF RequestState
    <2>2. req' = [req EXCEPT ![q] = v] /\ UNCHANGED <<worker, sessions, days>>
      BY <1>2 DEF ReqReads, tables
    <2>3. req[q].pc = "read" /\ Free(req[q].group, D)
      BY <1>0, <1>2, MissingFree DEF ReqReads, Typed
    <2> HIDE DEF v, D
    <2>4. req'[q] = v /\ \A p \in Req : p # q => req'[p] = req[p]
      BY <1>0, <2>2
    <2>5. OneEach'
      BY <2>2 DEF Tidy, OneEach
    <2>6. Exclusive'
      BY <2>1, <2>2, <2>3, <2>4 DEF Tidy, Exclusive
    <2>7. Ready'
      BY <2>1, <2>2, <2>3, <2>4 DEF Tidy, Ready, Free
    <2> QED
      BY <2>5, <2>6, <2>7 DEF Tidy
  <1>3. CASE ReqInserts(q)
    <2> DEFINE g == req[q].group
               D == req[q].dates
    <2>1. g \in Group /\ D \in SUBSET Date /\ Free(g, D) /\ req[q].pc = "insert"
      BY <1>0, <1>3 DEF ReqInserts, RequestState, Typed, Tidy, Ready
    <2>2. /\ req' = [req EXCEPT ![q] = ReqIdle]
          /\ sessions' = Inserted(g, D) /\ UNCHANGED <<worker, days>>
      BY <1>3 DEF ReqInserts
    <2>3. /\ \A p \in Req : p # q => req[p].group # g
          /\ \A w \in Worker : worker[w].group # g
      BY <1>0, <2>1 DEF Tidy, Exclusive
    <2> HIDE DEF g, D
    <2>4. req'[q] = ReqIdle /\ \A p \in Req : p # q => req'[p] = req[p]
      BY <1>0, <2>2
    <2>5. OneEach' /\ \A h \in Group : \A E : h # g /\ Free(h, E) => Free(h, E)'
      BY <1>0, <2>1, <2>2, InsertFree DEF Tidy
    <2>6. Exclusive'
      BY <2>2, <2>4 DEF Tidy, Exclusive, ReqIdle
    <2>7. Ready'
      <3>1. ASSUME NEW w \in Worker, worker'[w].pc = "insert"
            PROVE  Free(worker[w].group, worker[w].dates)'
        <4>1. /\ worker[w].group \in Group /\ worker[w].group # g
              /\ Free(worker[w].group, worker[w].dates)
          BY <1>0, <2>2, <2>3, <3>1 DEF Tidy, Ready, Typed
        <4> QED
          BY <2>2, <2>5, <4>1 DEF Free
      <3>2. ASSUME NEW p \in Req, req'[p].pc = "insert"
            PROVE  Free(req[p].group, req[p].dates)'
        <4>1. p # q /\ req'[p] = req[p]
          BY <2>4, <3>2 DEF ReqIdle
        <4>2. /\ req[p].group \in Group /\ req[p].group # g
              /\ Free(req[p].group, req[p].dates)
          BY <1>0, <2>3, <3>2, <4>1 DEF Tidy, Ready, Typed
        <4> QED
          BY <2>5, <4>1, <4>2 DEF Free
      <3> QED
        BY <3>1, <3>2 DEF Ready
    <2> QED
      BY <2>5, <2>6, <2>7 DEF Tidy
  <1>4. CASE ReqFails(q)
    <2>1. req' = [req EXCEPT ![q] = ReqIdle] /\ UNCHANGED <<worker, sessions, days>>
      BY <1>4 DEF ReqFails, tables
    <2>2. req'[q] = ReqIdle /\ \A p \in Req : p # q => req'[p] = req[p]
      BY <1>0, <2>1
    <2>3. OneEach'
      BY <2>1 DEF Tidy, OneEach
    <2>4. Exclusive'
      BY <2>1, <2>2 DEF Tidy, Exclusive, ReqIdle
    <2>5. Ready'
      BY <2>1, <2>2 DEF Tidy, Ready, Free, ReqIdle
    <2> QED
      BY <2>3, <2>4, <2>5 DEF Tidy
  <1> QED
    BY <1>1, <1>2, <1>3, <1>4 DEF ReqStep

\* And a step of the rest of the world.
LEMMA TidyWorld ==
  ASSUME LockInv, Tidy,
         \/ \E g \in Group, d \in Date : KeepSession(g, d)
         \/ \E t \in Tenant : ToggleTenant(t)
         \/ DatePasses
         \/ UNCHANGED vars
  PROVE  Tidy'
  <1>0. sessions \in [Group -> [Date -> [open : Nat, kept : Nat]]] /\ Typed
    BY DEF LockInv, Typed, TypeOK
  <1>1. ASSUME UNCHANGED <<worker, req, days, sessions>> PROVE Tidy'
    BY <1>1 DEF Tidy, OneEach, Exclusive, Ready, Free
  <1>2. ASSUME NEW g \in Group, NEW d \in Date, KeepSession(g, d) PROVE Tidy'
    <2>1. /\ sessions[g][d].open \in Nat /\ sessions[g][d].kept \in Nat
          /\ sessions[g][d].open > 0
          /\ UNCHANGED <<worker, req, days>>
      BY <1>0, <1>2 DEF KeepSession
    <2>2. /\ sessions'[g][d].open = sessions[g][d].open - 1
          /\ sessions'[g][d].kept = sessions[g][d].kept + 1
      BY <1>0, <1>2 DEF KeepSession
    <2>3. \A h \in Group, e \in Date :
             h # g \/ e # d => sessions'[h][e] = sessions[h][e]
      BY <1>0, <1>2 DEF KeepSession
    <2>4. OneEach'
      <3> SUFFICES ASSUME NEW h \in Group, NEW e \in Date
                   PROVE  /\ sessions'[h][e].open + sessions'[h][e].kept <= 1
                          /\ sessions'[h][e].open > 0 => e \in days[h]
        BY <2>1 DEF OneEach
      <3>1. /\ sessions[h][e].open + sessions[h][e].kept <= 1
            /\ sessions[h][e].open > 0 => e \in days[h]
        BY DEF Tidy, OneEach
      <3>2. CASE h = g /\ e = d
        BY <2>1, <2>2, <3>1, <3>2
      <3>3. CASE h # g \/ e # d
        BY <2>3, <3>1, <3>3
      <3> QED
        BY <3>2, <3>3
    <2>5. Exclusive'
      BY <2>1 DEF Tidy, Exclusive
    <2>6. \A h \in Group, E \in SUBSET Date : Free(h, E) => Free(h, E)'
      <3> SUFFICES ASSUME NEW h \in Group, NEW E \in SUBSET Date, Free(h, E),
                          NEW e \in E
                   PROVE  e \in days[h] /\ sessions'[h][e].open = 0
                                        /\ sessions'[h][e].kept = 0
        BY <2>1 DEF Free
      <3>1. /\ e \in days[h]
            /\ sessions[h][e].open = 0 /\ sessions[h][e].kept = 0
        BY DEF Free
      <3>2. h # g \/ e # d
        BY <2>1, <3>1
      <3> QED
        BY <2>3, <3>1, <3>2
    <2>7. Ready'
      <3>1. ASSUME NEW w \in Worker, worker'[w].pc = "insert"
            PROVE  Free(worker[w].group, worker[w].dates)'
        <4>1. /\ worker[w].group \in Group /\ worker[w].dates \in SUBSET Date
              /\ Free(worker[w].group, worker[w].dates)
          BY <1>0, <2>1, <3>1 DEF Tidy, Ready, Typed, TypeOK
        <4> QED
          BY <2>1, <2>6, <4>1 DEF Free
      <3>2. ASSUME NEW p \in Req, req'[p].pc = "insert"
            PROVE  Free(req[p].group, req[p].dates)'
        <4>1. /\ req[p].group \in Group /\ req[p].dates \in SUBSET Date
              /\ Free(req[p].group, req[p].dates)
          BY <1>0, <2>1, <3>2 DEF Tidy, Ready, Typed, TypeOK
        <4> QED
          BY <2>1, <2>6, <4>1 DEF Free
      <3> QED
        BY <3>1, <3>2 DEF Ready
    <2> QED
      BY <2>4, <2>5, <2>7 DEF Tidy
  <1>3. ASSUME \/ \E t \in Tenant : ToggleTenant(t)
               \/ DatePasses
               \/ UNCHANGED vars
        PROVE  UNCHANGED <<worker, req, days, sessions>>
    BY <1>3 DEF ToggleTenant, DatePasses, vars
  <1> QED
    BY <1>1, <1>2, <1>3

LEMMA ScheduleNext ==
  ASSUME JobAssumption, Apart, Shift = 0, ScheduleInv, [Next]_vars
  PROVE  ScheduleInv'
  <1>1. LockInv'
    BY LockNext DEF ScheduleInv
  <1>2. ASSUME lost' = {} PROVE Tidy'
    <2>1. lost = {}
      BY <1>2 DEF Next, JobStep, TryLock, ListTenants, JobInserts, GroupsDone, Unlock,
           ReadGroups, TenantFails, JobReads, JobGroupFails, Die, SessionEnds, Disconnect,
           UpdateGroup, ReqStep, ReqReads, ReqInserts, ReqFails, KeepSession,
           ToggleTenant, DatePasses, vars
    <2>2. Tidy /\ LockInv
      BY <2>1 DEF ScheduleInv
    <2> QED
      BY <1>2, <2>1, <2>2, TidyWorker, TidyRequest, TidyWorld DEF Next
  <1> QED
    BY <1>1, <1>2 DEF ScheduleInv

LEMMA ScheduleInit == ASSUME JobAssumption, Init PROVE ScheduleInv
  <1>1. OneEach
    <2> SUFFICES ASSUME NEW g \in Group, NEW d \in Date
                 PROVE  /\ sessions[g][d].open + sessions[g][d].kept <= 1
                        /\ sessions[g][d].open > 0 => d \in days[g]
      BY DEF OneEach
    <2>1. sessions[g][d].open = 0 /\ sessions[g][d].kept = 0
      BY DEF Init, NoSession
    <2> QED
      BY <2>1
  <1>2. Exclusive /\ Ready
    BY DEF Init, Exclusive, Ready, WorkerIdle, ReqIdle
  <1> QED
    BY <1>1, <1>2, LockInit DEF ScheduleInv, Tidy

\* SessionsFollowSchedule, where generations of one group do not overlap and
\* the server's date of a session is the branch's: neither deaths nor the
\* change of the runner nor a new schedule puts two sessions on a date.
THEOREM OnSchedule == Apart /\ Shift = 0 /\ Spec => []SessionsFollowSchedule
  <1> DEFINE Inv == Apart /\ Shift = 0 /\ ScheduleInv
  <1>1. Apart /\ Shift = 0 /\ Init => Inv
    BY JobAssumption, ScheduleInit
  <1>2. Inv /\ [Next]_vars => Inv'
    BY JobAssumption, ScheduleNext
  <1>3. Inv => SessionsFollowSchedule
    BY DEF ScheduleInv, Tidy, OneEach, SessionsFollowSchedule
  <1> QED
    BY <1>1, <1>2, <1>3, PTL DEF Spec, Safe
=============================================================================

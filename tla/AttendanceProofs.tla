-------------------------- MODULE AttendanceProofs --------------------------
(***************************************************************************)
(* What TLAPS proves about Attendance, for any number of requests,         *)
(* trainees, sessions and subscriptions: its types, that a subscription    *)
(* that ended has run out, and, when requests on one session keep apart,   *)
(* that a cancelled session counts nobody's mark and that the counters add *)
(* up to the marks.                                                        *)
(***************************************************************************)
EXTENDS Attendance, FiniteSetTheorems, TLAPS

-----------------------------------------------------------------------------
(* Types *)

Read == [status : {"ACTIVE", "EXPIRED"}, attended : Int, past : BOOLEAN]

\* An open transaction.  A record is still to come or done, not both, and a
\* request that cancels a session has none.
Shape(x) ==
    /\ x \in [pc : {"idle", "next", "write", "cancel"},
              session : Session \cup {None}, todo : {x.todo},
              now : Trainee \cup {None}, old : Statuses \cup {None},
              sub : {x.sub}, was : Read, done : {x.done}, rows : {x.rows}]
    /\ DOMAIN x.todo \subseteq Trainee /\ DOMAIN x.done \subseteq Trainee
    /\ DOMAIN x.todo \cap DOMAIN x.done = {}
    /\ \A t \in DOMAIN x.todo : x.todo[t] \in Statuses
    /\ \A t \in DOMAIN x.done : x.done[t] \in Statuses
    /\ x.pc = "idle" => x = Idle
    /\ x.pc # "idle" => x.session \in Session
    /\ IF x.pc = "write" THEN x.now \in DOMAIN x.todo ELSE x.now = None
    /\ x.pc = "cancel" => DOMAIN x.todo \cup DOMAIN x.done \cup DOMAIN x.rows = {}

\* A row a transaction updated is that of a trainee it is done with.
Holds(x) ==
    \A i \in DOMAIN x.rows :
       /\ i \in DOMAIN subs /\ x.rows[i] \in Subscription
       /\ x.rows[i].trainee = subs[i].trainee
       /\ subs[i].trainee \in DOMAIN x.done

Reads(x) == x.pc = "write" => x.sub \in SubsOf(x.now)

\* Every trainee has a subscription that is the latest.
Owned == \A t \in Trainee : \E i \in SubsOf(t) : \A j \in SubsOf(t) : j <= i

Typed ==
    /\ TypeOK
    /\ subs \in Seq(Subscription)
    /\ Owned
    /\ req = [r \in Req |-> req[r]]
    /\ \A r \in Req : Shape(req[r]) /\ Holds(req[r]) /\ Reads(req[r])

LEMMA IdleIs ==
  /\ Shape(Idle) /\ Holds(Idle) /\ Reads(Idle)
  /\ Idle.pc = "idle" /\ Idle.session = None /\ Idle.now = None
  /\ DOMAIN Idle.todo = {} /\ DOMAIN Idle.done = {} /\ DOMAIN Idle.rows = {}
  <1>1. /\ Idle.pc = "idle" /\ Idle.session = None /\ Idle.now = None
        /\ DOMAIN Idle.todo = {} /\ DOMAIN Idle.done = {} /\ DOMAIN Idle.rows = {}
        /\ Idle.was = NotRead
    BY DEF Idle
  <1>2. NotRead \in Read
    BY DEF NotRead, Read
  <1>3. Shape(Idle)
    BY <1>1, <1>2 DEF Shape, Idle
  <1> QED
    BY <1>1, <1>3 DEF Holds, Reads

LEMMA NewSubIs ==
  ASSUME NEW t \in Trainee
  PROVE  /\ NewSub(t) \in Subscription /\ NewSub(t).trainee = t
         /\ NewSub(t).status = "ACTIVE" /\ NewSub(t).attended = 0
         /\ NewSub(t).freeze = 0
  BY DEF NewSub, Subscription

\* The latest subscription exists.
LEMMA LatestIs ==
  ASSUME Owned, NEW t \in Trainee
  PROVE  Latest(t) \in SubsOf(t) /\ \A j \in SubsOf(t) : j <= Latest(t)
  <1>1. PICK i \in SubsOf(t) : \A j \in SubsOf(t) : i >= j
    BY DEF Owned
  <1> QED
    BY <1>1 DEF Latest, Max

\* The order in which the trainees got their first subscription names them all.
LEMMA Everybody ==
  ASSUME NEW order \in [1..Cardinality(Trainee) -> Trainee], IsInjective(order),
         NEW t \in Trainee
  PROVE  \E i \in 1..Cardinality(Trainee) : order[i] = t
  <1> DEFINE n == Cardinality(Trainee)
  <1>1. IsFiniteSet(Trainee)
    BY AttendanceAssumption DEF AttendanceAssumption
  <1>2. n \in Nat
    BY <1>1, FS_CardinalityType
  <1>3. IsFiniteSet(1..n) /\ Cardinality(1..n) = n
    BY <1>2, FS_Interval
  <1> HIDE DEF n
  <1>4. order \in Injection(1..n, Trainee)
    BY DEF Injection, IsInjective, n
  <1>5. order \in Surjection(1..n, Trainee)
    BY <1>1, <1>3, <1>4, FS_Injection DEF n
  <1> QED
    BY <1>5 DEF Surjection, n

\* A step that leaves every row with its trainee.
LEMMA RowsStay ==
  ASSUME subs \in Seq(Subscription), Owned,
         subs' = [i \in DOMAIN subs |-> subs'[i]],
         \A i \in DOMAIN subs : /\ subs'[i] \in Subscription
                                /\ subs'[i].trainee = subs[i].trainee
  PROVE  /\ subs' \in Seq(Subscription) /\ DOMAIN subs' = DOMAIN subs /\ Owned'
         /\ \A t \in Trainee : SubsOf(t)' = SubsOf(t) /\ Latest(t)' = Latest(t)
  <1>1. DOMAIN subs' = DOMAIN subs
    OBVIOUS
  <1>2. \A t \in Trainee : SubsOf(t)' = SubsOf(t)
    BY <1>1 DEF SubsOf
  <1>3. \A t \in Trainee : Latest(t)' = Latest(t)
    BY <1>2 DEF Latest
  <1>4. PICK n \in Nat : DOMAIN subs = 1..n
    OBVIOUS
  <1>5. subs' \in [1..n -> Subscription]
    BY <1>4
  <1>6. subs' \in Seq(Subscription)
    BY <1>5
  <1>7. Owned'
    BY <1>2 DEF Owned
  <1> QED
    BY <1>1, <1>2, <1>3, <1>6, <1>7

LEMMA TypedInit == Init => Typed
  <1> SUFFICES ASSUME Init PROVE Typed
    OBVIOUS
  <1> DEFINE n == Cardinality(Trainee)
  <1>1. PICK order \in [1..n -> Trainee] :
          IsInjective(order) /\ subs = [i \in 1..n |-> NewSub(order[i])]
    BY DEF Init
  <1>2. n \in Nat
    BY AttendanceAssumption, FS_CardinalityType DEF AttendanceAssumption
  <1> HIDE DEF n
  <1>3. \A i \in 1..n : subs[i] \in Subscription /\ subs[i].trainee = order[i]
    BY <1>1, NewSubIs
  <1>4. subs \in Seq(Subscription) /\ DOMAIN subs = 1..n
    BY <1>1, <1>2, <1>3
  <1>5. Owned
    <2> SUFFICES ASSUME NEW t \in Trainee
                 PROVE  \E i \in SubsOf(t) : \A j \in SubsOf(t) : j <= i
      BY DEF Owned
    <2>1. PICK i \in 1..n : order[i] = t
      BY <1>1, Everybody DEF n
    <2>2. SubsOf(t) = {i}
      BY <1>1, <1>3, <1>4, <2>1 DEF SubsOf, IsInjective
    <2> QED
      BY <2>1, <2>2
  <1>6. NoMark \in Mark
    BY DEF NoMark, Mark
  <1>7. /\ req = [r \in Req |-> req[r]]
        /\ \A r \in Req : req[r] = Idle
    BY DEF Init
  <1>8. \A r \in Req : Shape(req[r]) /\ Holds(req[r]) /\ Reads(req[r])
    BY <1>7, IdleIs
  <1>9. TypeOK
    <2>1. /\ marks \in [Session -> [Trainee -> Mark]]
          /\ sessions \in [Session -> {"SCHEDULED", "COMPLETED", "CANCELLED"}]
          /\ clashed \subseteq Trainee
      BY <1>6 DEF Init
    <2>2. \A r \in Req : req[r].was = NotRead
      BY <1>7 DEF Idle
    <2>3. \A r \in Req :
             req[r] = Idle /\ req[r].pc = "idle" /\ DOMAIN req[r].rows = {}
      BY <1>7, IdleIs
    <2>4. \A i \in DOMAIN subs : subs[i] \in Subscription
      BY <1>3, <1>4
    <2>5. NotRead \in [status : {"ACTIVE", "EXPIRED"}, attended : Int, past : BOOLEAN]
      BY DEF NotRead
    <2> QED
      BY <2>1, <2>2, <2>3, <2>4, <2>5 DEF TypeOK
  <1> QED
    BY <1>4, <1>5, <1>7, <1>8, <1>9 DEF Typed

\* What TypeOK says of the requests follows from their shapes.
LEMMA TypeFromShapes ==
  ASSUME \A i \in DOMAIN subs' : subs'[i] \in Subscription,
         marks' \in [Session -> [Trainee -> Mark]],
         sessions' \in [Session -> {"SCHEDULED", "COMPLETED", "CANCELLED"}],
         clashed' \subseteq Trainee,
         \A r \in Req : Shape(req'[r]),
         \A r \in Req : \A i \in DOMAIN req'[r].rows :
            i \in DOMAIN subs' /\ req'[r].rows[i] \in Subscription
  PROVE  TypeOK'
  <1>1. ASSUME NEW r \in Req
        PROVE  /\ req'[r].pc \in {"idle", "next", "write", "cancel"}
               /\ req'[r].pc = "idle" => req'[r] = Idle
               /\ req'[r].pc = "write" => req'[r].now \in DOMAIN req'[r].todo
               /\ req'[r].was \in Read
    BY <1>1 DEF Shape
  <1> QED
    BY <1>1 DEF TypeOK, Read

\* A step of one request that leaves the subscriptions alone.
LEMMA RequestStep ==
  ASSUME Typed, subs' = subs,
         marks' \in [Session -> [Trainee -> Mark]],
         sessions' \in [Session -> {"SCHEDULED", "COMPLETED", "CANCELLED"}],
         clashed' \subseteq Trainee,
         NEW r \in Req, NEW x, req' = [req EXCEPT ![r] = x],
         Shape(x), Holds(x), Reads(x)
  PROVE  Typed'
  <1>1. /\ req' = [q \in Req |-> req'[q]] /\ req'[r] = x
        /\ \A q \in Req : q # r => req'[q] = req[q]
    BY DEF Typed
  <1>2. \A q \in Req : Shape(req'[q]) /\ Holds(req[q])' /\ Reads(req[q])'
    BY <1>1 DEF Typed, Holds, Reads, SubsOf
  <1>3. \A q \in Req : \A i \in DOMAIN req'[q].rows :
           i \in DOMAIN subs' /\ req'[q].rows[i] \in Subscription
    BY <1>2 DEF Holds
  <1>4. Owned'
    BY DEF Typed, Owned, SubsOf
  <1>5. TypeOK'
    BY <1>2, <1>3, TypeFromShapes DEF Typed, TypeOK
  <1> QED
    BY <1>1, <1>2, <1>4, <1>5 DEF Typed

\* What the invariant says of a request, and of a row.
LEMMA RequestIs ==
  ASSUME Typed, NEW r \in Req
  PROVE  /\ Shape(req[r]) /\ Holds(req[r]) /\ Reads(req[r])
         /\ req[r].pc \in {"idle", "next", "write", "cancel"}
         /\ req[r].session \in Session \cup {None} /\ req[r].was \in Read
         /\ req[r].pc = "idle" => req[r] = Idle
         /\ req[r].pc # "idle" => req[r].session \in Session
         /\ req[r].pc # "write" => req[r].now = None
         /\ req[r].pc = "write" =>
               req[r].now \in DOMAIN req[r].todo /\ req[r].sub \in SubsOf(req[r].now)
         /\ DOMAIN req[r].todo \subseteq Trainee /\ DOMAIN req[r].done \subseteq Trainee
         /\ DOMAIN req[r].todo \cap DOMAIN req[r].done = {}
  BY DEF Typed, Shape, Reads

\* A step of request r alone.
Alone(r) == \A q \in Req : q # r => req'[q] = req[q]

LEMMA OneMoves ==
  ASSUME Typed, NEW r \in Req, NEW x, req' = [req EXCEPT ![r] = x]
  PROVE  req'[r] = x /\ Alone(r)
  BY DEF Typed, Alone

LEMMA StartSubmitIs ==
  ASSUME Typed, NEW r \in Req, NEW s \in Session, NEW T \in SUBSET Trainee,
         StartSubmit(r, s, T)
  PROVE  /\ Typed' /\ Alone(r) /\ req[r].pc = "idle"
         /\ req'[r].pc = "next" /\ req'[r].session = s /\ req'[r].now = None
         /\ DOMAIN req'[r].todo = T
         /\ DOMAIN req'[r].done = {} /\ DOMAIN req'[r].rows = {}
  <1>1. PICK todo \in [T -> Marked] :
           req' = [req EXCEPT ![r] = [Idle EXCEPT !.pc = "next", !.session = s, !.todo = todo]]
    BY DEF StartSubmit
  <1> DEFINE x == [Idle EXCEPT !.pc = "next", !.session = s, !.todo = todo]
  <1>2. /\ x.pc = "next" /\ x.session = s /\ x.todo = todo /\ x.now = None
        /\ DOMAIN x.done = {} /\ DOMAIN x.rows = {}
    BY IdleIs DEF Idle
  <1>3. Shape(x)
    <2>1. \A t \in T : todo[t] \in Statuses
      BY AttendanceAssumption DEF AttendanceAssumption
    <2>2. NotRead \in Read
      BY DEF NotRead, Read
    <2>3. x \in [pc : {"idle", "next", "write", "cancel"},
              session : Session \cup {None}, todo : {x.todo},
              now : Trainee \cup {None}, old : Statuses \cup {None},
              sub : {x.sub}, was : Read, done : {x.done}, rows : {x.rows}]
      BY <2>2 DEF Idle
    <2> HIDE DEF x
    <2> QED
      BY <1>2, <2>1, <2>3 DEF Shape
  <1> HIDE DEF x
  <1>4. Holds(x) /\ Reads(x)
    BY <1>2 DEF Holds, Reads
  <1>5. req' = [req EXCEPT ![r] = x]
    BY <1>1 DEF x
  <1>6. /\ UNCHANGED <<subs, marks, sessions>> /\ clashed' \subseteq Trainee
        /\ req[r].pc = "idle"
    BY DEF StartSubmit, Typed, TypeOK
  <1>7. Typed'
    BY <1>3, <1>4, <1>5, <1>6, RequestStep DEF Typed, TypeOK
  <1> QED
    BY <1>2, <1>5, <1>6, <1>7, OneMoves

\* A record that is refused.
LEMMA SkipRecordIs ==
  ASSUME Typed, NEW r \in Req, NEW t \in Trainee, ReadRecord(r, t),
         marks[req[r].session][t].status = None /\ PastGrace(subs[Latest(t)])
  PROVE  /\ Typed' /\ Alone(r) /\ req[r].pc = "next"
         /\ req'[r].pc = "next" /\ req'[r].session = req[r].session /\ req'[r].now = None
         /\ DOMAIN req'[r].todo \subseteq DOMAIN req[r].todo
         /\ req'[r].done = req[r].done /\ req'[r].rows = req[r].rows
  <1> DEFINE y == req[r]
             todo == Restrict(y.todo, DOMAIN y.todo \ {t})
             x == [y EXCEPT !.todo = todo]
  <1>1. /\ req' = [req EXCEPT ![r] = x] /\ y.pc = "next"
        /\ UNCHANGED <<subs, marks, sessions, clashed>>
    BY DEF ReadRecord
  <1>2. /\ DOMAIN todo \subseteq DOMAIN y.todo /\ \A u \in DOMAIN todo : todo[u] = y.todo[u]
    BY DEF Restrict
  <1>3. Shape(y) /\ Holds(y) /\ Reads(y)
    BY RequestIs
  <1> HIDE DEF todo, y
  <1>4. /\ x.pc = y.pc /\ x.session = y.session /\ x.todo = todo /\ x.now = y.now
        /\ x.done = y.done /\ x.rows = y.rows /\ x.sub = y.sub
    BY <1>3 DEF Shape
  <1>5. x \in [pc : {"idle", "next", "write", "cancel"},
              session : Session \cup {None}, todo : {x.todo},
              now : Trainee \cup {None}, old : Statuses \cup {None},
              sub : {x.sub}, was : Read, done : {x.done}, rows : {x.rows}]
    BY <1>3 DEF Shape
  <1> HIDE DEF x
  <1>6. Shape(x) /\ Holds(x) /\ Reads(x)
    <2>1. Shape(x)
      BY <1>1, <1>2, <1>3, <1>4, <1>5 DEF Shape
    <2> QED
      BY <1>1, <1>3, <1>4, <2>1 DEF Holds, Reads
  <1>7. Typed'
    BY <1>1, <1>6, RequestStep DEF Typed, TypeOK
  <1>8. y.now = None
    BY <1>1, <1>3 DEF Shape
  <1> QED
    BY <1>1, <1>2, <1>4, <1>7, <1>8, OneMoves DEF y

\* A record that is read.
LEMMA ReadRecordIs ==
  ASSUME Typed, NEW r \in Req, NEW t \in Trainee, ReadRecord(r, t),
         ~(marks[req[r].session][t].status = None /\ PastGrace(subs[Latest(t)]))
  PROVE  /\ Typed' /\ Alone(r) /\ req[r].pc = "next" /\ t \in DOMAIN req[r].todo
         /\ req'[r].pc = "write" /\ req'[r].session = req[r].session /\ req'[r].now = t
         /\ req'[r].todo = req[r].todo
         /\ req'[r].done = req[r].done /\ req'[r].rows = req[r].rows
         /\ req'[r].sub = Latest(t) /\ req'[r].old = marks[req[r].session][t].status
         /\ req'[r].was.status = subs[Latest(t)].status
         /\ req'[r].was.attended = subs[Latest(t)].attended
         /\ req'[r].was.past = subs[Latest(t)].past
  <1> DEFINE y == req[r]
             row == subs[Latest(t)]
             was == Restrict(row, DOMAIN NotRead)
             old == marks[req[r].session][t].status
             x == [y EXCEPT !.pc = "write", !.now = t, !.old = old, !.sub = Latest(t),
                            !.was = was]
  <1>1. /\ req' = [req EXCEPT ![r] = x] /\ y.pc = "next" /\ t \in DOMAIN y.todo
        /\ UNCHANGED <<subs, marks, sessions, clashed>>
    BY DEF ReadRecord
  <1>2. Latest(t) \in SubsOf(t) /\ row \in Subscription
    BY LatestIs DEF Typed, SubsOf
  <1>3. /\ was.status = row.status /\ was.attended = row.attended /\ was.past = row.past
        /\ was \in Read
    <2>1. DOMAIN NotRead = {"status", "attended", "past"}
      BY DEF NotRead
    <2>2. was = [f \in {"status", "attended", "past"} |-> row[f]]
      BY <2>1 DEF Restrict
    <2>3. was = [status |-> row.status, attended |-> row.attended, past |-> row.past]
      BY <2>2
    <2> HIDE DEF was
    <2> QED
      BY <1>2, <2>3 DEF Subscription, Read
  <1>4. Shape(y) /\ Holds(y) /\ y.session \in Session
    BY <1>1, RequestIs
  <1>5. old \in Statuses \cup {None}
    BY <1>4 DEF Typed, TypeOK, Mark
  <1> HIDE DEF y, was, old
  <1>6. /\ x.pc = "write" /\ x.session = y.session /\ x.todo = y.todo /\ x.now = t
        /\ x.done = y.done /\ x.rows = y.rows /\ x.sub = Latest(t) /\ x.was = was
        /\ x.old = old
    BY <1>4 DEF Shape
  <1>7. x \in [pc : {"idle", "next", "write", "cancel"},
              session : Session \cup {None}, todo : {x.todo},
              now : Trainee \cup {None}, old : Statuses \cup {None},
              sub : {x.sub}, was : Read, done : {x.done}, rows : {x.rows}]
    BY <1>3, <1>4, <1>5 DEF Shape
  <1> HIDE DEF x
  <1>8. Shape(x)
    BY <1>1, <1>4, <1>6, <1>7 DEF Shape
  <1>9. Holds(x) /\ Reads(x)
    BY <1>2, <1>4, <1>6 DEF Holds, Reads
  <1>10. Typed'
    BY <1>1, <1>8, <1>9, RequestStep DEF Typed, TypeOK
  <1> QED
    BY <1>1, <1>3, <1>6, <1>10, OneMoves DEF y, old

\* A request that ends.
LEMMA EndIs ==
  ASSUME Typed, NEW r \in Req, Rollback(r) \/ CommitCancel(r)
  PROVE  Typed' /\ Alone(r) /\ req'[r] = Idle
  <1>1. /\ req' = [req EXCEPT ![r] = Idle] /\ UNCHANGED <<subs, marks, clashed>>
        /\ sessions' \in {sessions, [sessions EXCEPT ![req[r].session] = "CANCELLED"]}
    BY DEF Rollback, CommitCancel
  <1>2. sessions' \in [Session -> {"SCHEDULED", "COMPLETED", "CANCELLED"}]
    BY <1>1 DEF Typed, TypeOK
  <1>3. Typed'
    BY <1>1, <1>2, IdleIs, RequestStep DEF Typed, TypeOK
  <1> QED
    BY <1>1, <1>3, OneMoves

LEMMA StartCancelIs ==
  ASSUME Typed, NEW r \in Req, NEW s \in Session, StartCancel(r, s)
  PROVE  /\ Typed' /\ Alone(r) /\ req[r].pc = "idle"
         /\ req'[r].pc = "cancel" /\ req'[r].session = s /\ req'[r].now = None
         /\ DOMAIN req'[r].todo = {}
         /\ DOMAIN req'[r].done = {} /\ DOMAIN req'[r].rows = {}
  <1> DEFINE x == [Idle EXCEPT !.pc = "cancel", !.session = s]
  <1>1. /\ req' = [req EXCEPT ![r] = x] /\ req[r].pc = "idle"
        /\ UNCHANGED <<subs, marks, sessions, clashed>>
    BY DEF StartCancel
  <1>2. /\ x.pc = "cancel" /\ x.session = s /\ x.now = None
        /\ DOMAIN x.todo = {} /\ DOMAIN x.done = {} /\ DOMAIN x.rows = {}
    BY IdleIs DEF Idle
  <1>3. x \in [pc : {"idle", "next", "write", "cancel"},
              session : Session \cup {None}, todo : {x.todo},
              now : Trainee \cup {None}, old : Statuses \cup {None},
              sub : {x.sub}, was : Read, done : {x.done}, rows : {x.rows}]
    <2>1. NotRead \in Read
      BY DEF NotRead, Read
    <2> QED
      BY <2>1 DEF Idle
  <1> HIDE DEF x
  <1>4. Shape(x) /\ Holds(x) /\ Reads(x)
    BY <1>2, <1>3 DEF Shape, Holds, Reads
  <1>5. Typed'
    BY <1>1, <1>4, RequestStep DEF Typed, TypeOK
  <1> QED
    BY <1>1, <1>2, <1>5, OneMoves

LEMMA DeltaType ==
  ASSUME NEW status, NEW new, NEW old
  PROVE  Delta(status, new, old) \in Int
  BY DEF Delta

\* The row that a record leaves: its counters and status, of the same trainee
\* and period.
LEMMA CountedIs ==
  ASSUME NEW row \in Subscription, NEW was \in Read, NEW new, NEW old
  PROVE  LET c == Counted(row, was, new, old)
             d == Delta("PRESENT", new, old)
             over == was.attended + d >= Total \/ was.past
         IN  /\ c \in Subscription /\ c.trainee = row.trainee /\ c.past = row.past
             /\ d \in Int /\ c.attended = row.attended + d
             /\ c.freeze = row.freeze + Delta("ABSENT", new, old)
             /\ c.status = IF over /\ was.status = "ACTIVE" THEN "EXPIRED"
                           ELSE IF ~over /\ was.status = "EXPIRED" THEN "ACTIVE"
                           ELSE row.status
  <1> DEFINE d == Delta("PRESENT", new, old)
             e == Delta("ABSENT", new, old)
             over == was.attended + d >= Total \/ was.past
             status == IF over /\ was.status = "ACTIVE" THEN "EXPIRED"
                       ELSE IF ~over /\ was.status = "EXPIRED" THEN "ACTIVE" ELSE row.status
             late == row.late /\ ~(~over /\ was.status = "EXPIRED")
             c == [row EXCEPT !.attended = row.attended + d, !.freeze = row.freeze + e,
                              !.status = status, !.late = late]
  <1>1. Counted(row, was, new, old) = c
    BY DEF Counted
  <1>2. d \in Int /\ e \in Int
    BY DeltaType
  <1>3. status \in {"ACTIVE", "EXPIRED"} /\ late \in BOOLEAN
    BY DEF Subscription
  <1>4. /\ row.trainee \in Trainee /\ row.attended \in Int /\ row.freeze \in Int
        /\ row.past \in BOOLEAN
    BY DEF Subscription
  <1> HIDE DEF d, e, status, late
  <1>5. /\ c \in Subscription /\ c.trainee = row.trainee /\ c.past = row.past
        /\ c.attended = row.attended + d /\ c.freeze = row.freeze + e
        /\ c.status = status
    <2>1. row.attended + d \in Int /\ row.freeze + e \in Int
      BY <1>2, <1>4
    <2>2. PICK m, n \in Int : m = row.attended + d /\ n = row.freeze + e
      BY <2>1
    <2>3. c = [row EXCEPT !.attended = m, !.freeze = n, !.status = status, !.late = late]
      BY <2>2
    <2> HIDE DEF c
    <2>4. /\ c \in Subscription /\ c.trainee = row.trainee /\ c.past = row.past
          /\ c.attended = m /\ c.freeze = n /\ c.status = status
      BY <1>3, <2>2, <2>3 DEF Subscription
    <2> QED
      BY <2>2, <2>4
  <1> HIDE DEF c
  <1> QED
    BY <1>1, <1>2, <1>5 DEF d, e, status

LEMMA WriteRecordIs ==
  ASSUME Typed, NEW r \in Req, WriteRecord(r)
  PROVE  LET t == req[r].now
             i == req[r].sub
             row == Counted(subs[i], req[r].was, req[r].todo[t], req[r].old)
         IN  /\ Typed' /\ Alone(r) /\ req[r].pc = "write"
             /\ t \in DOMAIN req[r].todo /\ i \in SubsOf(t)
             /\ row \in Subscription
             /\ req'[r].pc = "next" /\ req'[r].session = req[r].session
             /\ req'[r].now = None
             /\ DOMAIN req'[r].todo = DOMAIN req[r].todo \ {t}
             /\ DOMAIN req'[r].done = DOMAIN req[r].done \cup {t}
             /\ DOMAIN req'[r].rows \subseteq DOMAIN req[r].rows \cup {i}
             /\ \A j \in DOMAIN req'[r].rows :
                   \/ j \in DOMAIN req[r].rows /\ req'[r].rows[j] = req[r].rows[j]
                   \/ j = i /\ req'[r].rows[j] = row
             /\ \A u \in DOMAIN req'[r].done :
                   req'[r].done[u] = IF u = t THEN req[r].todo[t] ELSE req[r].done[u]
             /\ IF row = subs[i] THEN req'[r].rows = req[r].rows
                                 ELSE /\ DOMAIN req'[r].rows = DOMAIN req[r].rows \cup {i}
                                      /\ RowUnlocked(r, i)
  <1> DEFINE y == req[r]
             t == y.now
             i == y.sub
             new == y.todo[t]
             row == Counted(subs[i], y.was, new, y.old)
             todo == Restrict(y.todo, DOMAIN y.todo \ {t})
             done == With(y.done, t, new)
             rows == IF row = subs[i] THEN y.rows ELSE With(y.rows, i, row)
             x == [Idle EXCEPT !.pc = "next", !.session = y.session, !.todo = todo,
                               !.done = done, !.rows = rows]
  <1>1. /\ req' = [req EXCEPT ![r] = x] /\ y.pc = "write"
        /\ UNCHANGED <<subs, marks, sessions, clashed>>
        /\ row # subs[i] => RowUnlocked(r, i)
    BY DEF WriteRecord
  <1>2. /\ Shape(y) /\ Holds(y) /\ t \in DOMAIN y.todo /\ i \in SubsOf(t)
        /\ t \in Trainee /\ y.was \in Read /\ y.session \in Session
    BY <1>1, RequestIs
  <1>3. i \in DOMAIN subs /\ subs[i].trainee = t /\ subs[i] \in Subscription
    BY <1>2 DEF SubsOf, Typed
  <1>4. row \in Subscription /\ row.trainee = t
    BY <1>2, <1>3, CountedIs
  <1> HIDE DEF row
  <1>5. DOMAIN todo = DOMAIN y.todo \ {t} /\ \A u \in DOMAIN todo : todo[u] = y.todo[u]
    BY DEF Restrict
  <1>6. /\ DOMAIN done = DOMAIN y.done \cup {t}
        /\ \A u \in DOMAIN done : IF u = t THEN done[u] = new ELSE done[u] = y.done[u]
    BY DEF With
  <1>7. /\ DOMAIN rows \subseteq DOMAIN y.rows \cup {i}
        /\ \A j \in DOMAIN rows : \/ j \in DOMAIN y.rows /\ rows[j] = y.rows[j]
                                  \/ j = i /\ rows[j] = row
        /\ IF row = subs[i] THEN rows = y.rows ELSE DOMAIN rows = DOMAIN y.rows \cup {i}
    BY DEF With
  <1> HIDE DEF y, todo, done, rows
  <1>8. /\ x.pc = "next" /\ x.session = y.session /\ x.todo = todo /\ x.now = None
        /\ x.done = done /\ x.rows = rows
    BY DEF Idle
  <1>9. x \in [pc : {"idle", "next", "write", "cancel"},
              session : Session \cup {None}, todo : {x.todo},
              now : Trainee \cup {None}, old : Statuses \cup {None},
              sub : {x.sub}, was : Read, done : {x.done}, rows : {x.rows}]
    <2>1. NotRead \in Read
      BY DEF NotRead, Read
    <2> QED
      BY <1>2, <2>1 DEF Idle
  <1> HIDE DEF x
  <1>10. Shape(x)
    <2>1. /\ DOMAIN y.todo \subseteq Trainee /\ DOMAIN y.done \subseteq Trainee
          /\ DOMAIN y.todo \cap DOMAIN y.done = {}
          /\ \A u \in DOMAIN y.todo : y.todo[u] \in Statuses
          /\ \A u \in DOMAIN y.done : y.done[u] \in Statuses
      BY <1>2 DEF Shape
    <2>2. \A u \in DOMAIN todo : todo[u] \in Statuses
      BY <1>5, <2>1
    <2>3. \A u \in DOMAIN done : done[u] \in Statuses
      BY <1>2, <1>6, <2>1
    <2>4. DOMAIN todo \cap DOMAIN done = {}
      BY <1>5, <1>6, <2>1
    <2> QED
      BY <1>2, <1>5, <1>6, <1>8, <1>9, <2>1, <2>2, <2>3, <2>4 DEF Shape
  <1>11. Holds(x)
    <2> SUFFICES ASSUME NEW j \in DOMAIN rows
                 PROVE  /\ j \in DOMAIN subs /\ rows[j] \in Subscription
                        /\ rows[j].trainee = subs[j].trainee
                        /\ subs[j].trainee \in DOMAIN done
      BY <1>8 DEF Holds
    <2>1. CASE j \in DOMAIN y.rows /\ rows[j] = y.rows[j]
      BY <1>2, <1>6, <2>1 DEF Holds
    <2>2. CASE j = i /\ rows[j] = row
      BY <1>3, <1>4, <1>6, <2>2
    <2> QED
      BY <1>7, <2>1, <2>2
  <1>12. Reads(x)
    BY <1>8 DEF Reads
  <1>13. Typed'
    BY <1>1, <1>10, <1>11, <1>12, RequestStep DEF Typed, TypeOK
  <1>14. req'[r] = x /\ Alone(r)
    BY <1>1, OneMoves
  <1> QED
    BY <1>1, <1>2, <1>4, <1>5, <1>6, <1>7, <1>8, <1>13, <1>14 DEF y, new, row

\* A step that leaves the requests alone.
LEMMA RowsStep ==
  ASSUME Typed, req' = req, clashed' = clashed, sessions' = sessions,
         marks' \in [Session -> [Trainee -> Mark]],
         subs' \in Seq(Subscription), Owned', DOMAIN subs \subseteq DOMAIN subs',
         \A i \in DOMAIN subs : subs'[i].trainee = subs[i].trainee
  PROVE  Typed'
  <1>1. \A r \in Req : Shape(req'[r]) /\ Holds(req[r])' /\ Reads(req[r])'
    BY DEF Typed, Holds, Reads, SubsOf
  <1>2. \A r \in Req : \A i \in DOMAIN req'[r].rows :
           i \in DOMAIN subs' /\ req'[r].rows[i] \in Subscription
    BY <1>1 DEF Holds
  <1>3. TypeOK'
    <2>1. \A i \in DOMAIN subs' : subs'[i] \in Subscription
      OBVIOUS
    <2> QED
      BY <1>1, <1>2, <2>1, TypeFromShapes DEF Typed, TypeOK
  <1> QED
    BY <1>1, <1>3 DEF Typed

LEMMA CommitSubmitIs ==
  ASSUME Typed, NEW r \in Req, CommitSubmit(r)
  PROVE  /\ Typed' /\ Alone(r) /\ req[r].pc = "next" /\ req'[r] = Idle
         /\ req[r].session \in Session
         /\ \A i \in DOMAIN subs :
               subs'[i] = IF i \in DOMAIN req[r].rows THEN req[r].rows[i] ELSE subs[i]
         /\ DOMAIN subs' = DOMAIN subs
         /\ \A t \in Trainee : SubsOf(t)' = SubsOf(t) /\ Latest(t)' = Latest(t)
  <1> DEFINE y == req[r]
  <1>1. /\ req' = [req EXCEPT ![r] = Idle] /\ y.pc = "next"
        /\ subs' = [i \in DOMAIN subs |-> IF i \in DOMAIN y.rows THEN y.rows[i] ELSE subs[i]]
        /\ marks' = [marks EXCEPT ![y.session] =
                       [t \in Trainee |-> IF t \in DOMAIN y.done
                            THEN [marks[y.session][t] EXCEPT !.status = y.done[t]]
                            ELSE marks[y.session][t]]]
        /\ sessions' = [sessions EXCEPT ![y.session] = "COMPLETED"]
        /\ clashed' = clashed
    BY DEF CommitSubmit
  <1>2. Shape(y) /\ Holds(y) /\ y.session \in Session
    BY <1>1, RequestIs
  <1> HIDE DEF y
  <1>3. \A i \in DOMAIN subs : /\ subs'[i] \in Subscription
                               /\ subs'[i].trainee = subs[i].trainee
    BY <1>1, <1>2 DEF Typed, Holds
  <1>4. /\ subs' \in Seq(Subscription) /\ DOMAIN subs' = DOMAIN subs /\ Owned'
        /\ \A t \in Trainee : SubsOf(t)' = SubsOf(t) /\ Latest(t)' = Latest(t)
    BY <1>1, <1>3, RowsStay DEF Typed
  <1>5. marks' \in [Session -> [Trainee -> Mark]]
    <2>1. \A t \in DOMAIN y.done : y.done[t] \in Statuses
      BY <1>2 DEF Shape
    <2>2. \A t \in Trainee : marks[y.session][t] \in Mark
      BY <1>2 DEF Typed, TypeOK
    <2>3. \A t \in DOMAIN y.done \cap Trainee :
             [marks[y.session][t] EXCEPT !.status = y.done[t]] \in Mark
      BY <2>1, <2>2 DEF Mark
    <2> QED
      BY <1>1, <1>2, <2>2, <2>3 DEF Typed, TypeOK
  <1>6. req'[r] = Idle /\ Alone(r) /\ req' = [q \in Req |-> req'[q]]
    BY <1>1, OneMoves DEF Typed
  <1>7. \A q \in Req : Shape(req'[q]) /\ Holds(req[q])' /\ Reads(req[q])'
    <2>1. Shape(req'[r]) /\ Holds(req[r])' /\ Reads(req[r])'
      BY <1>6, IdleIs DEF Holds, Reads
    <2>2. \A q \in Req : q # r => Shape(req'[q]) /\ Holds(req[q])' /\ Reads(req[q])'
      BY <1>3, <1>4, <1>6 DEF Alone, Typed, Holds, Reads, SubsOf
    <2> QED
      BY <2>1, <2>2
  <1>8. \A q \in Req : \A i \in DOMAIN req'[q].rows :
           i \in DOMAIN subs' /\ req'[q].rows[i] \in Subscription
    BY <1>7 DEF Holds
  <1>9. TypeOK'
    <2>1. sessions' \in [Session -> {"SCHEDULED", "COMPLETED", "CANCELLED"}]
      BY <1>1 DEF Typed, TypeOK
    <2>2. \A i \in DOMAIN subs' : subs'[i] \in Subscription
      BY <1>4
    <2>3. clashed' \subseteq Trainee
      BY <1>1 DEF Typed, TypeOK
    <2> QED
      BY <1>5, <1>7, <1>8, <2>1, <2>2, <2>3, TypeFromShapes
  <1>10. Typed'
    BY <1>4, <1>6, <1>7, <1>9 DEF Typed
  <1> QED
    BY <1>1, <1>2, <1>4, <1>6, <1>10 DEF y

LEMMA RetakeIs ==
  ASSUME Typed, NEW t \in Trainee, NEW s \in Session, NEW i, ScheduleRetake(t, s, i)
  PROVE  Typed'
  <1>1. marks' \in [Session -> [Trainee -> Mark]]
    BY DEF ScheduleRetake, Typed, TypeOK, Mark, Statuses
  <1>2. UNCHANGED <<subs, sessions, req, clashed>>
    BY DEF ScheduleRetake
  <1>3. Owned'
    BY <1>2 DEF Typed, Owned, SubsOf
  <1> QED
    BY <1>1, <1>2, <1>3, RowsStep DEF Typed

LEMMA RenewIs ==
  ASSUME Typed, NEW t \in Trainee, Renew(t)
  PROVE  /\ Typed'
         /\ subs'[Latest(t)'] = NewSub(t) /\ Latest(t)' \notin DOMAIN subs
         /\ \A u \in Trainee : u # t =>
               Latest(u)' = Latest(u) /\ subs'[Latest(u)] = subs[Latest(u)]
         /\ \A i \in DOMAIN subs :
               /\ subs'[i].trainee = subs[i].trainee
               /\ subs'[i].attended = subs[i].attended /\ subs'[i].freeze = subs[i].freeze
               /\ subs'[i].past = subs[i].past
               /\ i \notin SubsOf(t) => subs'[i] = subs[i]
         /\ SubsOf(t) \subseteq DOMAIN subs
         /\ DOMAIN subs' = DOMAIN subs \cup {Latest(t)'}
         /\ \A u \in Trainee :
               SubsOf(u)' = IF u = t THEN SubsOf(u) \cup {Latest(t)'} ELSE SubsOf(u)
  <1> DEFINE old == [i \in DOMAIN subs |->
                       IF i \in SubsOf(t) THEN [subs[i] EXCEPT !.status = "EXPIRED"]
                                          ELSE subs[i]]
  <1>1. subs' = Append(old, NewSub(t)) /\ UNCHANGED <<marks, sessions, req, clashed>>
    BY DEF Renew
  <1>2. \A i \in DOMAIN subs : subs[i] \in Subscription
    BY DEF Typed
  <1>3. \A i \in DOMAIN subs :
           /\ old[i] \in Subscription /\ old[i].trainee = subs[i].trainee
           /\ old[i].attended = subs[i].attended /\ old[i].freeze = subs[i].freeze
           /\ old[i].past = subs[i].past
           /\ i \notin SubsOf(t) => old[i] = subs[i]
    BY <1>2 DEF Subscription
  <1>4. old \in Seq(Subscription) /\ DOMAIN old = DOMAIN subs
    <2>1. PICK n \in Nat : DOMAIN subs = 1..n
      BY DEF Typed
    <2>2. old \in [1..n -> Subscription] /\ DOMAIN old = 1..n
      BY <1>3, <2>1
    <2> HIDE DEF old
    <2> QED
      BY <2>1, <2>2
  <1> HIDE DEF old
  <1> DEFINE k == Len(old) + 1
  <1>5. /\ subs' \in Seq(Subscription) /\ DOMAIN subs' = DOMAIN subs \cup {k}
        /\ subs'[k] = NewSub(t) /\ k \notin DOMAIN subs
        /\ \A i \in DOMAIN subs : subs'[i] = old[i] /\ i < k /\ i \in Nat
        /\ k \in Nat
    BY <1>1, <1>4, NewSubIs
  <1> HIDE DEF k
  <1>6. SubsOf(t)' = SubsOf(t) \cup {k}
    BY <1>3, <1>5, NewSubIs DEF SubsOf
  <1>7. \A u \in Trainee : u # t => SubsOf(u)' = SubsOf(u)
    BY <1>3, <1>5, NewSubIs DEF SubsOf
  <1>8. Latest(t)' = k
    <2>1. \A j \in SubsOf(t) \cup {k} : k >= j /\ j \in Nat
      BY <1>5 DEF SubsOf
    <2>2. \A x \in SubsOf(t) \cup {k} :
             (\A j \in SubsOf(t) \cup {k} : x >= j) => x = k
      BY <1>5, <2>1
    <2> QED
      BY <1>6, <2>1, <2>2 DEF Latest, Max
  <1>9. Owned'
    <2> SUFFICES ASSUME NEW u \in Trainee
                 PROVE  (\E i \in SubsOf(u) : \A j \in SubsOf(u) : j <= i)'
      BY DEF Owned
    <2>1. CASE u = t
      <3>1. \A j \in SubsOf(t) \cup {k} : j <= k
        BY <1>5 DEF SubsOf
      <3> QED
        BY <1>6, <2>1, <3>1
    <2>2. CASE u # t
      BY <1>7, <2>2 DEF Typed, Owned
    <2> QED
      BY <2>1, <2>2
  <1>10. Typed'
    BY <1>1, <1>3, <1>5, <1>9, RowsStep DEF Typed, TypeOK
  <1>11. ASSUME NEW u \in Trainee, u # t
         PROVE  Latest(u)' = Latest(u) /\ subs'[Latest(u)] = subs[Latest(u)]
    <2>1. Latest(u)' = Latest(u)
      BY <1>7, <1>11 DEF Latest
    <2>2. Latest(u) \in SubsOf(u)
      BY LatestIs DEF Typed
    <2>3. Latest(u) \in DOMAIN subs /\ Latest(u) \notin SubsOf(t)
      BY <1>11, <2>2 DEF SubsOf
    <2> QED
      BY <1>3, <1>5, <2>1, <2>3
  <1>12. SubsOf(t) \subseteq DOMAIN subs
    BY DEF SubsOf
  <1> QED
    BY <1>3, <1>5, <1>6, <1>7, <1>8, <1>10, <1>11, <1>12

\* The daily job and time.
LEMMA ClockIs ==
  ASSUME Typed, ExpireSubscriptions \/ \E k \in DOMAIN subs : TimePasses(k)
  PROVE  /\ Typed' /\ UNCHANGED <<marks, sessions, req, clashed>>
         /\ \A t \in Trainee : SubsOf(t)' = SubsOf(t) /\ Latest(t)' = Latest(t)
         /\ DOMAIN subs' = DOMAIN subs
         /\ \A i \in DOMAIN subs :
               /\ subs'[i].trainee = subs[i].trainee
               /\ subs'[i].attended = subs[i].attended /\ subs'[i].freeze = subs[i].freeze
               /\ subs[i].past => subs'[i].past
               /\ \/ subs'[i].status = subs[i].status
                  \/ subs'[i].status = "EXPIRED" /\ i \in Over
  <1>1. \A i \in DOMAIN subs : subs[i] \in Subscription
    BY DEF Typed
  <1>2. UNCHANGED <<marks, sessions, req, clashed>>
    BY DEF ExpireSubscriptions, TimePasses
  <1>3. /\ subs' = [i \in DOMAIN subs |-> subs'[i]]
        /\ \A i \in DOMAIN subs :
             /\ subs'[i] \in Subscription /\ subs'[i].trainee = subs[i].trainee
             /\ subs'[i].attended = subs[i].attended /\ subs'[i].freeze = subs[i].freeze
             /\ subs[i].past => subs'[i].past
             /\ \/ subs'[i].status = subs[i].status
                \/ subs'[i].status = "EXPIRED" /\ i \in Over
    <2>1. CASE ExpireSubscriptions
      <3>1. subs' = [i \in DOMAIN subs |->
                       IF i \in Over THEN [subs[i] EXCEPT !.status = "EXPIRED"] ELSE subs[i]]
        BY <2>1 DEF ExpireSubscriptions
      <3>2. subs' = [i \in DOMAIN subs |-> subs'[i]]
        BY <3>1
      <3> QED
        BY <1>1, <3>1, <3>2 DEF Subscription
    <2>2. ASSUME NEW k \in DOMAIN subs, TimePasses(k)
          PROVE  /\ subs' = [i \in DOMAIN subs |-> subs'[i]]
                 /\ \A i \in DOMAIN subs :
                      /\ subs'[i] \in Subscription /\ subs'[i].trainee = subs[i].trainee
                      /\ subs'[i].attended = subs[i].attended
                      /\ subs'[i].freeze = subs[i].freeze
                      /\ subs[i].past => subs'[i].past
                      /\ subs'[i].status = subs[i].status
      <3>1. PICK v \in {[subs[k] EXCEPT !.past = TRUE], [subs[k] EXCEPT !.late = TRUE]} :
               subs' = [subs EXCEPT ![k] = v]
        BY <2>2 DEF TimePasses
      <3>2. /\ v \in Subscription /\ v.trainee = subs[k].trainee
            /\ v.attended = subs[k].attended /\ v.freeze = subs[k].freeze
            /\ v.status = subs[k].status
            /\ subs[k].past => v.past
        BY <1>1, <3>1 DEF Subscription
      <3>3. subs' = [i \in DOMAIN subs |-> subs'[i]]
        BY <3>1 DEF Typed
      <3> QED
        BY <1>1, <3>1, <3>2, <3>3
    <2> QED
      BY <2>1, <2>2
  <1>4. /\ subs' \in Seq(Subscription) /\ DOMAIN subs' = DOMAIN subs /\ Owned'
        /\ \A t \in Trainee : SubsOf(t)' = SubsOf(t) /\ Latest(t)' = Latest(t)
    BY <1>3, RowsStay DEF Typed
  <1>5. Typed'
    BY <1>2, <1>3, <1>4, RowsStep DEF Typed, TypeOK
  <1> QED
    BY <1>2, <1>3, <1>4, <1>5

LEMMA TypedNext == Typed /\ [Next]_vars => Typed'
  <1> SUFFICES ASSUME Typed, [Next]_vars PROVE Typed'
    OBVIOUS
  <1>1. ASSUME NEW r \in Req, NEW s \in Session,
               (\E T \in SUBSET Trainee : StartSubmit(r, s, T)) \/ StartCancel(r, s)
        PROVE  Typed'
    BY <1>1, StartSubmitIs, StartCancelIs
  <1>2. ASSUME NEW r \in Req, Step(r) PROVE Typed'
    BY <1>2, SkipRecordIs, ReadRecordIs, WriteRecordIs, CommitSubmitIs, EndIs DEF Step
  <1>3. CASE \E t \in Trainee, s \in Session : \E i \in SubsOf(t) : ScheduleRetake(t, s, i)
    BY <1>3, RetakeIs
  <1>4. CASE \E t \in Trainee : Renew(t)
    BY <1>4, RenewIs
  <1>5. CASE ExpireSubscriptions \/ \E i \in DOMAIN subs : TimePasses(i)
    BY <1>5, ClockIs
  <1>6. CASE UNCHANGED vars
    <2>1. Owned'
      BY <1>6 DEF vars, Typed, Owned, SubsOf
    <2> QED
      BY <1>6, <2>1, RowsStep DEF vars, Typed, TypeOK
  <1> QED
    BY <1>1, <1>2, <1>3, <1>4, <1>5, <1>6 DEF Next

\* The rows and requests always have the shapes they should, and a request that
\* has ended holds nothing.
THEOREM TypeCorrect == Spec => []TypeOK
  <1>1. Typed => TypeOK
    BY DEF Typed
  <1> QED
    BY <1>1, TypedInit, TypedNext, PTL DEF Spec

-----------------------------------------------------------------------------
(* A cancelled session counts nobody's mark *)

\* Requests on one session keep apart, a request found its session in a state
\* it may work on, and only completed sessions have marks that count.
Claims ==
    /\ \A r, q \in Req :
          r # q /\ req[r].session = req[q].session => req[r].session = None
    /\ \A r \in Req :
          /\ req[r].pc \in {"next", "write"} =>
                sessions[req[r].session] # "CANCELLED"
          /\ req[r].pc = "cancel" => sessions[req[r].session] = "SCHEDULED"
    /\ \A s \in Session, t \in Trainee :
          sessions[s] # "COMPLETED" => marks[s][t].status = None \/ marks[s][t].retake

\* A step of one request that leaves sessions and marks alone.
LEMMA ClaimsKept ==
  ASSUME Claims, NEW r \in Req, Alone(r), marks' = marks, sessions' = sessions,
         \/ req'[r].session \in {None, req[r].session}
         \/ ~Busy(req'[r].session),
         req'[r].pc \in {"next", "write"} => sessions[req'[r].session] # "CANCELLED",
         req'[r].pc = "cancel" => sessions[req'[r].session] = "SCHEDULED"
  PROVE  Claims'
  <1>1. ASSUME NEW p \in Req, NEW q \in Req, p # q, req'[p].session = req'[q].session
        PROVE  req'[p].session = None
    <2>1. CASE p # r /\ q # r
      BY <1>1, <2>1 DEF Claims, Alone
    <2>2. CASE p = r
      BY <1>1, <2>2 DEF Claims, Alone, Busy
    <2>3. CASE q = r
      BY <1>1, <2>3 DEF Claims, Alone, Busy
    <2> QED
      BY <2>1, <2>2, <2>3
  <1>2. ASSUME NEW q \in Req
        PROVE  /\ req'[q].pc \in {"next", "write"} =>
                     sessions'[req'[q].session] # "CANCELLED"
               /\ req'[q].pc = "cancel" => sessions'[req'[q].session] = "SCHEDULED"
    BY <1>2 DEF Claims, Alone
  <1> QED
    BY <1>1, <1>2 DEF Claims

\* A step that ends a request and settles its session.
LEMMA ClaimsSettled ==
  ASSUME Typed, Claims, NEW r \in Req, Alone(r), req'[r] = Idle,
         req[r].session \in Session,
         \A s \in Session : s # req[r].session =>
            sessions'[s] = sessions[s] /\ marks'[s] = marks[s],
         \A t \in Trainee : sessions'[req[r].session] # "COMPLETED" =>
            marks'[req[r].session][t].status = None \/ marks'[req[r].session][t].retake
  PROVE  Claims'
  <1>1. req[r].session # None /\ req'[r].session = None /\ req'[r].pc = "idle"
    BY IdleIs, AttendanceAssumption DEF AttendanceAssumption
  <1>2. ASSUME NEW p \in Req, NEW q \in Req, p # q, req'[p].session = req'[q].session
        PROVE  req'[p].session = None
    BY <1>1, <1>2 DEF Claims, Alone
  <1>3. ASSUME NEW q \in Req
        PROVE  /\ req'[q].pc \in {"next", "write"} =>
                     sessions'[req'[q].session] # "CANCELLED"
               /\ req'[q].pc = "cancel" => sessions'[req'[q].session] = "SCHEDULED"
    <2>1. CASE q = r
      BY <1>1, <2>1
    <2>2. CASE q # r /\ req[q].pc # "idle"
      <3>1. req'[q] = req[q] /\ req[q].session \in Session
        BY <2>2, RequestIs DEF Alone
      <3>2. req[q].session # req[r].session
        BY <1>1, <2>2 DEF Claims
      <3>3. sessions'[req[q].session] = sessions[req[q].session]
        BY <3>1, <3>2
      <3> QED
        BY <3>1, <3>3 DEF Claims
    <2>3. CASE q # r /\ req[q].pc = "idle"
      BY <2>3 DEF Alone
    <2> QED
      BY <2>1, <2>2, <2>3
  <1>4. ASSUME NEW s \in Session, NEW t \in Trainee, sessions'[s] # "COMPLETED"
        PROVE  marks'[s][t].status = None \/ marks'[s][t].retake
    BY <1>4 DEF Claims
  <1> QED
    BY <1>2, <1>3, <1>4 DEF Claims

LEMMA ClaimsInit == Init => Claims
  <1> SUFFICES ASSUME Init PROVE Claims
    OBVIOUS
  <1>1. \A r \in Req : req[r].session = None /\ req[r].pc = "idle"
    BY IdleIs DEF Init
  <1>2. \A s \in Session, t \in Trainee : marks[s][t].status = None
    BY DEF Init, NoMark
  <1> QED
    BY <1>1, <1>2 DEF Claims

LEMMA ClaimsNext ==
  ASSUME Apart, Typed, Claims, [Next]_vars
  PROVE  Claims'
  <1>1. ASSUME NEW r \in Req, NEW s \in Session, NEW T \in SUBSET Trainee,
               StartSubmit(r, s, T)
        PROVE  Claims'
    <2>1. /\ sessions[s] # "CANCELLED" /\ ~Busy(s)
          /\ UNCHANGED <<marks, sessions>>
      BY <1>1 DEF StartSubmit
    <2>2. Alone(r) /\ req'[r].pc = "next" /\ req'[r].session = s
      BY <1>1, StartSubmitIs
    <2> QED
      BY <2>1, <2>2, ClaimsKept
  <1>2. ASSUME NEW r \in Req, NEW s \in Session, StartCancel(r, s)
        PROVE  Claims'
    <2>1. /\ sessions[s] = "SCHEDULED" /\ ~Busy(s)
          /\ UNCHANGED <<marks, sessions>>
      BY <1>2 DEF StartCancel
    <2>2. Alone(r) /\ req'[r].pc = "cancel" /\ req'[r].session = s
      BY <1>2, StartCancelIs
    <2> QED
      BY <2>1, <2>2, ClaimsKept
  <1>3. ASSUME NEW r \in Req,
               WriteRecord(r) \/ \E t \in Trainee : ReadRecord(r, t)
        PROVE  Claims'
    <2>1. /\ Alone(r) /\ req'[r].session = req[r].session
          /\ req[r].pc \in {"next", "write"} /\ req'[r].pc \in {"next", "write"}
      BY <1>3, SkipRecordIs, ReadRecordIs, WriteRecordIs
    <2>2. UNCHANGED <<marks, sessions>>
      BY <1>3 DEF WriteRecord, ReadRecord
    <2>3. sessions[req'[r].session] # "CANCELLED" /\ req'[r].pc # "cancel"
      BY <2>1 DEF Claims
    <2> QED
      BY <2>1, <2>2, <2>3, ClaimsKept
  <1>4. ASSUME NEW r \in Req, Rollback(r) PROVE Claims'
    <2>1. Alone(r) /\ req'[r].session = None /\ req'[r].pc = "idle"
      BY <1>4, EndIs, IdleIs
    <2>2. UNCHANGED <<marks, sessions>>
      BY <1>4 DEF Rollback
    <2> QED
      BY <2>1, <2>2, ClaimsKept
  <1>5. ASSUME NEW r \in Req, CommitCancel(r) PROVE Claims'
    <2>1. Alone(r) /\ req'[r] = Idle
      BY <1>5, EndIs
    <2>2. /\ req[r].pc = "cancel" /\ marks' = marks
          /\ sessions' = [sessions EXCEPT ![req[r].session] = "CANCELLED"]
      BY <1>5 DEF CommitCancel
    <2>3. req[r].session \in Session /\ sessions[req[r].session] = "SCHEDULED"
      BY <2>2, RequestIs DEF Claims
    <2>4. \A t \in Trainee : \/ marks'[req[r].session][t].status = None
                             \/ marks'[req[r].session][t].retake
      BY <2>2, <2>3 DEF Claims
    <2>5. \A s \in Session : s # req[r].session => sessions'[s] = sessions[s]
      BY <2>2 DEF Typed, TypeOK
    <2> QED
      BY <2>1, <2>2, <2>3, <2>4, <2>5, ClaimsSettled
  <1>6. ASSUME NEW r \in Req, CommitSubmit(r) PROVE Claims'
    <2>1. Alone(r) /\ req'[r] = Idle /\ req[r].session \in Session
      BY <1>6, CommitSubmitIs
    <2>2. /\ sessions' = [sessions EXCEPT ![req[r].session] = "COMPLETED"]
          /\ \E m : marks' = [marks EXCEPT ![req[r].session] = m]
      BY <1>6 DEF CommitSubmit
    <2>3. /\ sessions'[req[r].session] = "COMPLETED"
          /\ \A s \in Session : s # req[r].session =>
                sessions'[s] = sessions[s] /\ marks'[s] = marks[s]
      BY <2>1, <2>2 DEF Typed, TypeOK
    <2> QED
      BY <2>1, <2>3, ClaimsSettled
  <1>7. ASSUME NEW t \in Trainee, NEW s \in Session, NEW i, ScheduleRetake(t, s, i)
        PROVE  Claims'
    <2>1. /\ marks' = [marks EXCEPT ![s][t] = [status |-> "PRESENT", retake |-> TRUE]]
          /\ UNCHANGED <<sessions, req>>
      BY <1>7 DEF ScheduleRetake
    <2>2. ASSUME NEW z \in Session, NEW u \in Trainee
          PROVE  marks'[z][u] = marks[z][u] \/ marks'[z][u].retake
      <3>1. marks'[s][t] = [status |-> "PRESENT", retake |-> TRUE]
        BY <2>1 DEF Typed, TypeOK
      <3>2. z # s \/ u # t => marks'[z][u] = marks[z][u]
        BY <2>1, <2>2 DEF Typed, TypeOK
      <3> QED
        BY <3>1, <3>2
    <2> QED
      BY <2>1, <2>2 DEF Claims
  <1>8. CASE \/ \E t \in Trainee : Renew(t)
             \/ ExpireSubscriptions \/ \E i \in DOMAIN subs : TimePasses(i)
             \/ UNCHANGED vars
    <2>1. UNCHANGED <<marks, sessions, req>>
      BY <1>8 DEF Renew, ExpireSubscriptions, TimePasses, vars
    <2> QED
      BY <2>1 DEF Claims
  <1>9. ASSUME NEW r \in Req, Step(r) PROVE Claims'
    BY <1>3, <1>4, <1>5, <1>6, <1>9 DEF Step
  <1> QED
    BY <1>1, <1>2, <1>7, <1>8, <1>9 DEF Next

\* When requests on one session keep apart, a cancelled session has no mark
\* that was counted: for any number of submissions, corrections, retakes and
\* cancellations.
THEOREM CancelledFree == Apart /\ Spec => []CancelledCostsNothing
  <1> DEFINE I == Apart /\ Typed /\ Claims
  <1>1. Apart /\ Init => I
    BY TypedInit, ClaimsInit
  <1>2. I /\ [Next]_vars => I'
    BY TypedNext, ClaimsNext
  <1>3. I => CancelledCostsNothing
    BY DEF Claims, CancelledCostsNothing
  <1> HIDE DEF I
  <1> QED
    BY <1>1, <1>2, <1>3, PTL DEF Spec

-----------------------------------------------------------------------------
(* A subscription that ended has run out *)

OneByOne ==
    \A t \in Trainee \ clashed, r, q \in Req :
       r # q => ~(Touches(r, t) /\ Touches(q, t))

Fair(row) ==
    IF row.status = "EXPIRED" THEN row.past \/ UsedUp(row) ELSE ~UsedUp(row)

\* The latest subscription of a trainee, as it stands and as the request that
\* is busy with it will leave it.
Current ==
    \A t \in Trainee \ clashed :
       /\ Fair(subs[Latest(t)])
       /\ \A r \in Req : Latest(t) \in DOMAIN req[r].rows => Fair(req[r].rows[Latest(t)])

\* What a request read of a subscription it has yet to write: since then only
\* its end may have passed, and the daily job may have noticed.
Fresh ==
    \A r \in Req :
       req[r].pc = "write" /\ req[r].now \notin clashed =>
          LET row == subs[req[r].sub]
              was == req[r].was
          IN  /\ was.attended = row.attended
              /\ was.past => row.past
              /\ req[r].sub = Latest(req[r].now) =>
                    \/ was.status = row.status
                    \/ row.status = "EXPIRED" /\ row.past

Settled == OneByOne /\ Current /\ Fresh

\* The requests that are busy with a trainee.
LEMMA TouchesIs ==
  ASSUME Typed, NEW r \in Req, NEW t \in Trainee
  PROVE  Touches(r, t) <=> /\ req[r].pc # "idle"
                           /\ t \in DOMAIN req[r].todo \cup DOMAIN req[r].done
  <1>1. t # None
    BY AttendanceAssumption DEF AttendanceAssumption
  <1>2. req[r].now \in DOMAIN req[r].todo \cup {None}
    BY RequestIs
  <1> QED
    BY <1>1, <1>2 DEF Touches

LEMMA TouchesNext ==
  ASSUME Typed', NEW r \in Req, NEW t \in Trainee
  PROVE  Touches(r, t)' <=> /\ req'[r].pc # "idle"
                            /\ t \in DOMAIN req'[r].todo \cup DOMAIN req'[r].done
  <1>1. t # None
    BY AttendanceAssumption DEF AttendanceAssumption
  <1>2. req'[r].now \in DOMAIN req'[r].todo \cup {None}
    BY DEF Typed, Shape
  <1> QED
    BY <1>1, <1>2 DEF Touches

\* A row in the hands of a request belongs to a trainee it is busy with.
LEMMA HeldRow ==
  ASSUME Typed, NEW r \in Req, NEW i \in DOMAIN req[r].rows
  PROVE  /\ i \in DOMAIN subs /\ subs[i].trainee \in DOMAIN req[r].done
         /\ subs[i].trainee \in Trainee /\ Touches(r, subs[i].trainee)
  <1>1. i \in DOMAIN subs /\ subs[i].trainee \in DOMAIN req[r].done
    BY RequestIs DEF Holds
  <1>2. req[r].pc # "idle"
    BY RequestIs, IdleIs
  <1>3. subs[i].trainee \in Trainee
    BY <1>1, RequestIs
  <1> QED
    BY <1>1, <1>2, <1>3, TouchesIs

\* A request that goes on with the trainees it was busy with.
LEMMA StillOneByOne ==
  ASSUME Typed, Typed', OneByOne, clashed' = clashed, NEW r \in Req, Alone(r),
         \A t \in Trainee : Touches(r, t)' => Touches(r, t)
  PROVE  OneByOne'
  <1>1. \A q \in Req, t \in Trainee : Touches(q, t)' => Touches(q, t)
    BY DEF Alone, Touches
  <1> QED
    BY <1>1 DEF OneByOne

\* Steps that leave the subscriptions, and what is to become of them, alone.
LEMMA CurrentKept ==
  ASSUME Current, subs' = subs, clashed \subseteq clashed', NEW r \in Req, Alone(r),
         \A j \in DOMAIN req'[r].rows :
            j \in DOMAIN req[r].rows /\ req'[r].rows[j] = req[r].rows[j]
  PROVE  Current'
  <1>1. \A t \in Trainee : Latest(t)' = Latest(t)
    BY DEF Latest, SubsOf
  <1>2. ASSUME NEW t \in Trainee \ clashed', NEW q \in Req, Latest(t) \in DOMAIN req'[q].rows
        PROVE  Fair(req'[q].rows[Latest(t)])
    BY <1>2 DEF Current, Alone
  <1>3. \A t \in Trainee \ clashed' : Fair(subs[Latest(t)])
    BY DEF Current
  <1> QED
    BY <1>1, <1>2, <1>3 DEF Current, Fair, UsedUp

LEMMA FreshKept ==
  ASSUME Fresh, subs' = subs, clashed \subseteq clashed', NEW r \in Req, Alone(r),
         req'[r].pc # "write"
  PROVE  Fresh'
  <1>1. \A t : Latest(t)' = Latest(t)
    BY DEF Latest, SubsOf
  <1> QED
    BY <1>1 DEF Fresh, Alone

LEMMA SettledInit == Init => Settled
  <1> SUFFICES ASSUME Init PROVE Settled
    OBVIOUS
  <1>1. \A r \in Req : req[r].pc = "idle" /\ DOMAIN req[r].rows = {}
    BY IdleIs DEF Init
  <1>2. OneByOne /\ Fresh
    BY <1>1 DEF OneByOne, Fresh, Touches
  <1>3. ASSUME NEW t \in Trainee PROVE Fair(subs[Latest(t)])
    <2>1. Latest(t) \in DOMAIN subs
      BY TypedInit, LatestIs DEF Typed, SubsOf
    <2>2. PICK u \in Trainee : subs[Latest(t)] = NewSub(u)
      BY <2>1 DEF Init
    <2> QED
      BY <2>2, NewSubIs, AttendanceAssumption DEF Fair, UsedUp, AttendanceAssumption
  <1>4. Current
    BY <1>1, <1>3 DEF Current
  <1> QED
    BY <1>2, <1>4 DEF Settled

LEMMA SettledStart ==
  ASSUME Typed, Settled, NEW r \in Req, NEW s \in Session, NEW T \in SUBSET Trainee,
         StartSubmit(r, s, T)
  PROVE  Settled'
  <1>1. /\ Typed' /\ Alone(r) /\ req'[r].pc = "next" /\ DOMAIN req'[r].todo = T
        /\ DOMAIN req'[r].done = {} /\ DOMAIN req'[r].rows = {}
    BY StartSubmitIs
  <1>2. /\ subs' = subs
        /\ clashed' = clashed \cup {t \in T : \E q \in Others(r) : Touches(q, t)}
    BY DEF StartSubmit
  <1>3. \A t \in Trainee : Touches(r, t)' <=> t \in T
    BY <1>1, TouchesNext
  <1>4. \A q \in Req, t \in Trainee : q # r => (Touches(q, t)' <=> Touches(q, t))
    BY <1>1 DEF Alone, Touches
  <1>5. OneByOne'
    <2> SUFFICES ASSUME NEW t \in Trainee \ clashed', NEW p \in Req, NEW q \in Req, p # q
                 PROVE  ~(Touches(p, t)' /\ Touches(q, t)')
      BY DEF OneByOne
    <2>1. CASE p # r /\ q # r
      BY <1>2, <1>4, <2>1 DEF Settled, OneByOne
    <2>2. CASE p = r
      BY <1>2, <1>3, <1>4, <2>2 DEF Others
    <2>3. CASE q = r
      BY <1>2, <1>3, <1>4, <2>3 DEF Others
    <2> QED
      BY <2>1, <2>2, <2>3
  <1>6. Current' /\ Fresh'
    BY <1>1, <1>2, CurrentKept, FreshKept DEF Settled
  <1> QED
    BY <1>5, <1>6 DEF Settled

LEMMA SettledRead ==
  ASSUME Typed, Settled, NEW r \in Req, NEW t \in Trainee, ReadRecord(r, t)
  PROVE  Settled'
  <1>1. UNCHANGED <<subs, clashed>>
    BY DEF ReadRecord
  <1>2. /\ Typed' /\ Alone(r) /\ req[r].pc = "next" /\ req'[r].pc # "idle"
        /\ DOMAIN req'[r].todo \subseteq DOMAIN req[r].todo
        /\ req'[r].done = req[r].done /\ req'[r].rows = req[r].rows
    BY SkipRecordIs, ReadRecordIs
  <1>3. OneByOne'
    <2>1. \A u \in Trainee : Touches(r, u)' => Touches(r, u)
      BY <1>2, TouchesIs, TouchesNext
    <2> QED
      BY <1>1, <1>2, <2>1, StillOneByOne DEF Settled
  <1>4. Current'
    BY <1>1, <1>2, CurrentKept DEF Settled
  <1>5. Fresh'
    <2>1. CASE marks[req[r].session][t].status = None /\ PastGrace(subs[Latest(t)])
      BY <1>1, <1>2, <2>1, SkipRecordIs, FreshKept DEF Settled
    <2>2. CASE ~(marks[req[r].session][t].status = None /\ PastGrace(subs[Latest(t)]))
      <3>1. /\ req'[r].now = t /\ req'[r].sub = Latest(t)
            /\ req'[r].was.status = subs[Latest(t)].status
            /\ req'[r].was.attended = subs[Latest(t)].attended
            /\ req'[r].was.past = subs[Latest(t)].past
        BY <2>2, ReadRecordIs
      <3>2. \A u : Latest(u)' = Latest(u)
        BY <1>1 DEF Latest, SubsOf
      <3> QED
        BY <1>1, <1>2, <3>1, <3>2 DEF Settled, Fresh, Alone
    <2> QED
      BY <2>1, <2>2
  <1> QED
    BY <1>3, <1>4, <1>5 DEF Settled

\* The status a record is given fits its counter and its end.
LEMMA FairRow ==
  ASSUME Typed, Settled, NEW r \in Req, req[r].pc = "write",
         req[r].now \notin clashed, req[r].sub = Latest(req[r].now)
  PROVE  Fair(Counted(subs[req[r].sub], req[r].was, req[r].todo[req[r].now], req[r].old))
  <1> DEFINE t == req[r].now
             was == req[r].was
             row == subs[req[r].sub]
             new == req[r].todo[t]
             c == Counted(row, was, new, req[r].old)
             d == Delta("PRESENT", new, req[r].old)
  <1>1. /\ t \in Trainee \ clashed /\ was \in Read /\ row \in Subscription
    BY RequestIs DEF Typed, SubsOf
  <1>2. /\ was.attended = row.attended
        /\ was.past => row.past
        /\ \/ was.status = row.status
           \/ row.status = "EXPIRED" /\ row.past
    BY DEF Settled, Fresh
  <1>3. Fair(row)
    BY <1>1 DEF Settled, Current
  <1>4. /\ c.past = row.past /\ c.attended = row.attended + d /\ d \in Int
        /\ c.status = IF (was.attended + d >= Total \/ was.past) /\ was.status = "ACTIVE"
                      THEN "EXPIRED"
                      ELSE IF ~(was.attended + d >= Total \/ was.past)
                              /\ was.status = "EXPIRED"
                      THEN "ACTIVE" ELSE row.status
    BY <1>1, CountedIs
  <1>5. /\ was.status \in {"ACTIVE", "EXPIRED"} /\ row.status \in {"ACTIVE", "EXPIRED"}
        /\ row.attended \in Int /\ Total \in Nat
    BY <1>1, AttendanceAssumption DEF Read, Subscription, AttendanceAssumption
  <1> HIDE DEF was, row, c, d
  <1>6. Fair(c)
    BY <1>2, <1>3, <1>4, <1>5 DEF Fair, UsedUp
  <1> QED
    BY <1>6 DEF c, d, row, was

LEMMA SettledWrite ==
  ASSUME Typed, Settled, NEW r \in Req, WriteRecord(r)
  PROVE  Settled'
  <1> DEFINE t == req[r].now
             i == req[r].sub
             row == Counted(subs[i], req[r].was, req[r].todo[t], req[r].old)
  <1>1. UNCHANGED <<subs, clashed>>
    BY DEF WriteRecord
  <1>2. /\ Typed' /\ Alone(r) /\ req[r].pc = "write" /\ req'[r].pc = "next"
        /\ t \in DOMAIN req[r].todo /\ i \in SubsOf(t)
        /\ DOMAIN req'[r].todo = DOMAIN req[r].todo \ {t}
        /\ DOMAIN req'[r].done = DOMAIN req[r].done \cup {t}
        /\ \A j \in DOMAIN req'[r].rows :
              \/ j \in DOMAIN req[r].rows /\ req'[r].rows[j] = req[r].rows[j]
              \/ j = i /\ req'[r].rows[j] = row
    BY WriteRecordIs
  <1>3. t \notin clashed /\ i = Latest(t) => Fair(row)
    BY <1>2, FairRow
  <1> HIDE DEF row
  <1>4. OneByOne'
    <2>1. \A u \in Trainee : Touches(r, u)' => Touches(r, u)
      BY <1>2, TouchesIs, TouchesNext
    <2> QED
      BY <1>1, <1>2, <2>1, StillOneByOne DEF Settled
  <1>5. Current'
    <2>1. \A u \in Trainee : Latest(u)' = Latest(u)
      BY <1>1 DEF Latest, SubsOf
    <2>2. ASSUME NEW u \in Trainee \ clashed, NEW q \in Req, Latest(u) \in DOMAIN req'[q].rows
          PROVE  Fair(req'[q].rows[Latest(u)])
      <3>1. CASE q # r
        BY <1>2, <2>2, <3>1 DEF Settled, Current, Alone
      <3>2. CASE q = r /\ Latest(u) # i
        BY <1>2, <2>2, <3>2 DEF Settled, Current
      <3>3. CASE q = r /\ Latest(u) = i
        <4>1. u = t
          BY <1>2, <3>3, LatestIs DEF Typed, SubsOf
        <4> QED
          BY <1>2, <1>3, <2>2, <3>3, <4>1 DEF Settled, Current
      <3> QED
        BY <3>1, <3>2, <3>3
    <2>3. \A u \in Trainee \ clashed : Fair(subs[Latest(u)])
      BY DEF Settled, Current
    <2> QED
      BY <1>1, <2>1, <2>2, <2>3 DEF Current, Fair, UsedUp
  <1>6. Fresh'
    BY <1>1, <1>2, FreshKept DEF Settled
  <1> QED
    BY <1>4, <1>5, <1>6 DEF Settled

LEMMA SettledCommit ==
  ASSUME Typed, Settled, NEW r \in Req, CommitSubmit(r)
  PROVE  Settled'
  <1>1. /\ Typed' /\ Alone(r) /\ req[r].pc = "next" /\ req'[r] = Idle
        /\ \A i \in DOMAIN subs :
              subs'[i] = IF i \in DOMAIN req[r].rows THEN req[r].rows[i] ELSE subs[i]
        /\ \A t \in Trainee : SubsOf(t)' = SubsOf(t) /\ Latest(t)' = Latest(t)
    BY CommitSubmitIs
  <1>2. clashed' = clashed
    BY DEF CommitSubmit
  <1>3. /\ req'[r].pc = "idle" /\ DOMAIN req'[r].rows = {}
        /\ \A t \in Trainee : ~Touches(r, t)'
    BY <1>1, IdleIs DEF Touches
  <1>4. OneByOne'
    BY <1>1, <1>2, <1>3, StillOneByOne DEF Settled
  <1>5. Current'
    <2> SUFFICES ASSUME NEW t \in Trainee \ clashed
                 PROVE  /\ Fair(subs'[Latest(t)])
                        /\ \A q \in Req : Latest(t) \in DOMAIN req'[q].rows =>
                              Fair(req'[q].rows[Latest(t)])
      BY <1>1, <1>2 DEF Current, Fair, UsedUp
    <2>1. Latest(t) \in DOMAIN subs
      BY LatestIs DEF Typed, SubsOf
    <2> QED
      BY <1>1, <1>3, <2>1 DEF Settled, Current, Alone
  <1>6. ASSUME NEW q \in Req, req'[q].pc = "write", req'[q].now \notin clashed
        PROVE  /\ req'[q] = req[q] /\ subs'[req[q].sub] = subs[req[q].sub]
               /\ Latest(req[q].now)' = Latest(req[q].now)
    <2>1. q # r /\ req'[q] = req[q]
      BY <1>1, <1>3, <1>6 DEF Alone
    <2>2. /\ req[q].now \in Trainee \ clashed /\ req[q].now \in DOMAIN req[q].todo
          /\ req[q].sub \in SubsOf(req[q].now)
      BY <1>6, <2>1, RequestIs
    <2>3. Touches(q, req[q].now)
      BY <1>6, <2>1, <2>2, TouchesIs
    <2>4. req[q].sub \in DOMAIN subs /\ subs[req[q].sub].trainee = req[q].now
      BY <2>2 DEF SubsOf
    <2>5. req[q].sub \notin DOMAIN req[r].rows
      BY <2>1, <2>2, <2>3, <2>4, HeldRow DEF Settled, OneByOne
    <2>6. subs'[req[q].sub] = subs[req[q].sub]
      BY <1>1, <2>4, <2>5
    <2>7. PICK t \in Trainee : t = req[q].now
      BY <2>2
    <2>8. Latest(t)' = Latest(t)
      BY <1>1
    <2> QED
      BY <2>1, <2>6, <2>7, <2>8
  <1>7. Fresh'
    BY <1>2, <1>6 DEF Settled, Fresh
  <1> QED
    BY <1>4, <1>5, <1>7 DEF Settled

LEMMA SettledEnd ==
  ASSUME Typed, Settled, NEW r \in Req,
         Rollback(r) \/ CommitCancel(r) \/ \E s \in Session : StartCancel(r, s)
  PROVE  Settled'
  <1>1. UNCHANGED <<subs, clashed>>
    BY DEF Rollback, CommitCancel, StartCancel
  <1>2. /\ Typed' /\ Alone(r) /\ req'[r].pc # "write"
        /\ DOMAIN req'[r].todo = {} /\ DOMAIN req'[r].done = {} /\ DOMAIN req'[r].rows = {}
    BY EndIs, StartCancelIs, IdleIs
  <1>3. OneByOne'
    BY <1>1, <1>2, TouchesNext, StillOneByOne DEF Settled
  <1>4. Current' /\ Fresh'
    BY <1>1, <1>2, CurrentKept, FreshKept DEF Settled
  <1> QED
    BY <1>3, <1>4 DEF Settled

LEMMA SettledRenew ==
  ASSUME Typed, Settled, NEW t \in Trainee, Renew(t)
  PROVE  Settled'
  <1>1. UNCHANGED <<req, clashed>>
    BY DEF Renew
  <1>2. /\ subs'[Latest(t)'] = NewSub(t) /\ Latest(t)' \notin DOMAIN subs
        /\ \A u \in Trainee : u # t =>
              Latest(u)' = Latest(u) /\ subs'[Latest(u)] = subs[Latest(u)]
        /\ \A i \in DOMAIN subs :
              subs'[i].attended = subs[i].attended /\ subs'[i].past = subs[i].past
    BY RenewIs
  <1>3. OneByOne'
    BY <1>1 DEF Settled, OneByOne, Touches
  <1>4. Current'
    <2>1. Fair(NewSub(t))'
      BY NewSubIs, AttendanceAssumption DEF Fair, UsedUp, AttendanceAssumption
    <2>2. \A q \in Req : Latest(t)' \notin DOMAIN req[q].rows
      BY <1>2, HeldRow
    <2>3. ASSUME NEW u \in Trainee \ clashed
          PROVE  /\ Fair(subs'[Latest(u)'])
                 /\ \A q \in Req : Latest(u)' \in DOMAIN req[q].rows =>
                       Fair(req[q].rows[Latest(u)'])
      <3>1. CASE u = t
        BY <1>2, <2>1, <2>2, <3>1 DEF Fair, UsedUp
      <3>2. CASE u # t
        BY <1>2, <3>2 DEF Settled, Current
      <3> QED
        BY <3>1, <3>2
    <2> QED
      BY <1>1, <2>3 DEF Current, Fair, UsedUp
  <1>5. Fresh'
    <2> SUFFICES ASSUME NEW q \in Req, req[q].pc = "write", req[q].now \notin clashed
                 PROVE  LET row == subs'[req[q].sub]
                            was == req[q].was
                        IN  /\ was.attended = row.attended
                            /\ was.past => row.past
                            /\ req[q].sub = Latest(req[q].now)' =>
                                  \/ was.status = row.status
                                  \/ row.status = "EXPIRED" /\ row.past
      BY <1>1 DEF Fresh
    <2>1. PICK u \in Trainee : u = req[q].now /\ req[q].sub \in SubsOf(u)
      BY RequestIs
    <2>2. req[q].sub \in DOMAIN subs
      BY <2>1 DEF SubsOf
    <2>3. Latest(req[q].now)' = Latest(u)'
      BY <1>1, <2>1
    <2>4. req[q].sub = Latest(u)' =>
             u # t /\ Latest(u)' = Latest(u) /\ subs'[req[q].sub] = subs[req[q].sub]
      BY <1>2, <2>2
    <2> QED
      BY <1>2, <2>1, <2>2, <2>3, <2>4 DEF Settled, Fresh
  <1> QED
    BY <1>3, <1>4, <1>5 DEF Settled

LEMMA SettledClock ==
  ASSUME Typed, Settled, ExpireSubscriptions \/ \E k \in DOMAIN subs : TimePasses(k)
  PROVE  Settled'
  <1>1. /\ UNCHANGED <<marks, sessions, req, clashed>>
        /\ \A t \in Trainee : SubsOf(t)' = SubsOf(t) /\ Latest(t)' = Latest(t)
        /\ \A i \in DOMAIN subs :
              /\ subs'[i].attended = subs[i].attended
              /\ subs[i].past => subs'[i].past
              /\ \/ subs'[i].status = subs[i].status
                 \/ subs'[i].status = "EXPIRED" /\ i \in Over
    BY ClockIs
  <1>2. OneByOne'
    BY <1>1 DEF Settled, OneByOne, Touches
  <1>3. ASSUME NEW t \in Trainee \ clashed
        PROVE  /\ Latest(t) \in DOMAIN subs /\ Fair(subs[Latest(t)])
               /\ Fair(subs'[Latest(t)])
               /\ \/ subs'[Latest(t)].status = subs[Latest(t)].status
                  \/ subs'[Latest(t)].status = "EXPIRED" /\ subs'[Latest(t)].past
    <2>1. Latest(t) \in DOMAIN subs
      BY LatestIs DEF Typed, SubsOf
    <2>2. Fair(subs[Latest(t)])
      BY DEF Settled, Current
    <2>3. Latest(t) \in Over =>
             /\ subs[Latest(t)].status = "ACTIVE"
             /\ subs[Latest(t)].past \/ UsedUp(subs[Latest(t)])
      BY DEF Over
    <2> QED
      BY <1>1, <2>1, <2>2, <2>3 DEF Fair, UsedUp
  <1>4. Current'
    BY <1>1, <1>3 DEF Settled, Current, Fair, UsedUp
  <1>5. Fresh'
    <2> SUFFICES ASSUME NEW q \in Req, req[q].pc = "write", req[q].now \notin clashed
                 PROVE  LET row == subs'[req[q].sub]
                            was == req[q].was
                        IN  /\ was.attended = row.attended
                            /\ was.past => row.past
                            /\ req[q].sub = Latest(req[q].now)' =>
                                  \/ was.status = row.status
                                  \/ row.status = "EXPIRED" /\ row.past
      BY <1>1 DEF Fresh
    <2>1. PICK u \in Trainee : u = req[q].now /\ req[q].sub \in SubsOf(u)
      BY RequestIs
    <2>2. req[q].sub \in DOMAIN subs
      BY <2>1 DEF SubsOf
    <2>3. Latest(req[q].now)' = Latest(u)
      BY <1>1, <2>1
    <2>4. /\ req[q].was.attended = subs[req[q].sub].attended
          /\ req[q].was.past => subs[req[q].sub].past
          /\ req[q].sub = Latest(u) =>
                \/ req[q].was.status = subs[req[q].sub].status
                \/ subs[req[q].sub].status = "EXPIRED" /\ subs[req[q].sub].past
      BY <2>1 DEF Settled, Fresh
    <2>5. req[q].sub = Latest(u) =>
             \/ subs'[req[q].sub].status = subs[req[q].sub].status
             \/ subs'[req[q].sub].status = "EXPIRED" /\ subs'[req[q].sub].past
      BY <1>3, <2>1
    <2> QED
      BY <1>1, <2>2, <2>3, <2>4, <2>5
  <1> QED
    BY <1>2, <1>4, <1>5 DEF Settled

LEMMA SettledNext ==
  ASSUME Typed, Settled, [Next]_vars
  PROVE  Settled'
  <1>1. ASSUME NEW r \in Req, NEW s \in Session,
               (\E T \in SUBSET Trainee : StartSubmit(r, s, T)) \/ StartCancel(r, s)
        PROVE  Settled'
    BY <1>1, SettledStart, SettledEnd
  <1>2. ASSUME NEW r \in Req, Step(r) PROVE Settled'
    BY <1>2, SettledRead, SettledWrite, SettledCommit, SettledEnd DEF Step
  <1>3. ASSUME UNCHANGED <<subs, req, clashed>> PROVE Settled'
    BY <1>3 DEF Settled, OneByOne, Touches, Current, Fresh, Fair, UsedUp, Latest, SubsOf
  <1>4. CASE \E t \in Trainee, s \in Session : \E i \in SubsOf(t) : ScheduleRetake(t, s, i)
    BY <1>3, <1>4 DEF ScheduleRetake
  <1>5. CASE \E t \in Trainee : Renew(t)
    BY <1>5, SettledRenew
  <1>6. CASE ExpireSubscriptions \/ \E i \in DOMAIN subs : TimePasses(i)
    BY <1>6, SettledClock
  <1>7. CASE UNCHANGED vars
    BY <1>3, <1>7 DEF vars
  <1> QED
    BY <1>1, <1>2, <1>4, <1>5, <1>6, <1>7 DEF Next

\* A trainee's current subscription that is EXPIRED has run out of sessions or
\* of time, also after corrections, if no two requests were busy with the
\* trainee at once: for any number of submissions, renewals and runs of the
\* daily job, whether or not requests on one session keep apart.
THEOREM EndedIsOver == Spec => []ExpiredIsOver
  <1> DEFINE I == Typed /\ Settled
  <1>1. Init => I
    BY TypedInit, SettledInit
  <1>2. I /\ [Next]_vars => I'
    BY TypedNext, SettledNext
  <1>3. I => ExpiredIsOver
    BY DEF Settled, Current, Fair, ExpiredIsOver
  <1> HIDE DEF I
  <1> QED
    BY <1>1, <1>2, <1>3, PTL DEF Spec

-----------------------------------------------------------------------------
(* Sums over a finite set *)

\* The element a sum takes out next.
One(T) == CHOOSE x \in T : TRUE

\* F adds up f over every subset of S, taking out one element at a time.
Adds(F, f, S) ==
    F = [T \in SUBSET S |->
           IF T = {} THEN 0 ELSE f[CHOOSE x \in T : TRUE] + F[T \ {CHOOSE x \in T : TRUE}]]

LEMMA SumDef ==
  ASSUME NEW f, NEW S
  PROVE  SumFunctionOnSet(f, S) = (CHOOSE F : Adds(F, f, S))[S]
  BY DEF SumFunctionOnSet, FoldFunctionOnSet, MapThenFoldSet, Adds

\* Induction on a finite set: a set of subsets that contains whatever subset
\* all of whose proper subsets it contains.
LEMMA SubsetInduction ==
  ASSUME NEW S, IsFiniteSet(S), NEW Good,
         \A T \in SUBSET S : (\A U \in SUBSET T : U # T => U \in Good) => T \in Good
  PROVE  \A T \in SUBSET S : T \in Good
  <1> DEFINE Bad == {T \in SUBSET S : T \notin Good}
  <1> SUFFICES ASSUME Bad # {} PROVE FALSE
    OBVIOUS
  <1>1. Bad \subseteq FiniteSubsetsOf(S)
    BY FS_Subset DEF FiniteSubsetsOf
  <1>2. IsWellFoundedOn(StrictSubsetOrdering(S), FiniteSubsetsOf(S))
    BY FS_StrictSubsetOrderingWellFounded
  <1> HIDE DEF Bad
  <1>3. PICK T \in Bad : \A U \in Bad : <<U, T>> \notin StrictSubsetOrdering(S)
    BY <1>1, <1>2, WFMin
  <1> USE DEF Bad
  <1>4. \A U \in SUBSET T : U # T => U \in Good
    BY <1>3 DEF StrictSubsetOrdering
  <1> QED
    BY <1>4

LEMMA AddsAt ==
  ASSUME NEW F, NEW f, NEW S, Adds(F, f, S), NEW T \in SUBSET S
  PROVE  F[T] = IF T = {} THEN 0 ELSE f[One(T)] + F[T \ {One(T)}]
  BY DEF Adds, One

\* Two such functions agree where both are defined.
LEMMA AddsAgree ==
  ASSUME NEW f, NEW S, IsFiniteSet(S), NEW U, NEW V, S \subseteq U, S \subseteq V,
         NEW F, NEW G, Adds(F, f, U), Adds(G, f, V)
  PROVE  F[S] = G[S]
  <1> DEFINE Good == {T \in SUBSET S : F[T] = G[T]}
  <1>1. ASSUME NEW T \in SUBSET S, \A X \in SUBSET T : X # T => X \in Good
        PROVE  T \in Good
    <2>1. CASE T = {}
      BY <2>1, AddsAt
    <2>2. CASE T # {}
      <3>1. One(T) \in T
        BY <2>2 DEF One
      <3>2. F[T \ {One(T)}] = G[T \ {One(T)}]
        BY <1>1, <3>1
      <3>3. T \in SUBSET U /\ T \in SUBSET V
        OBVIOUS
      <3> QED
        BY <2>2, <3>2, <3>3, AddsAt
    <2> QED
      BY <2>1, <2>2
  <1> HIDE DEF Good
  <1>2. \A T \in SUBSET S : T \in Good
    BY <1>1, SubsetInduction
  <1> QED
    BY <1>2 DEF Good

\* There is one for every finite set.
LEMMA AddsExists ==
  ASSUME NEW f, NEW S, IsFiniteSet(S)
  PROVE  \E F : Adds(F, f, S)
  <1> DEFINE Good == {T \in SUBSET S : \E F : Adds(F, f, T)}
             G(T) == CHOOSE F : Adds(F, f, T)
  <1>1. ASSUME NEW T \in SUBSET S, \A X \in SUBSET T : X # T => X \in Good
        PROVE  T \in Good
    <2> DEFINE F == [X \in SUBSET T |->
                      IF X = {} THEN 0
                      ELSE f[One(X)] + G(X \ {One(X)})[X \ {One(X)}]]
    <2>1. ASSUME NEW X \in SUBSET T, X # T PROVE Adds(G(X), f, X)
      BY <1>1, <2>1
    <2> HIDE DEF G
    <2>2. ASSUME NEW X \in SUBSET T, X # {}
          PROVE  F[X \ {One(X)}] = G(X \ {One(X)})[X \ {One(X)}]
      <3> DEFINE Y == X \ {One(X)}
                 Z == Y \ {One(Y)}
      <3>1. One(X) \in X /\ Y \in SUBSET T /\ Y # T
        BY <2>2 DEF One
      <3>2. Adds(G(Y), f, Y)
        BY <2>1, <3>1
      <3>3. CASE Y = {}
        BY <3>1, <3>2, <3>3, AddsAt
      <3>4. CASE Y # {}
        <4>1. One(Y) \in Y /\ Z \in SUBSET T /\ Z # T /\ Z \in SUBSET S
          BY <3>1, <3>4 DEF One
        <4>2. Adds(G(Z), f, Z) /\ IsFiniteSet(Z)
          BY <2>1, <4>1, FS_Subset
        <4>3. G(Z)[Z] = G(Y)[Z]
          BY <3>2, <4>1, <4>2, AddsAgree
        <4>4. F[Y] = f[One(Y)] + G(Z)[Z]
          BY <3>1, <3>4
        <4>5. G(Y)[Y] = f[One(Y)] + G(Y)[Z]
          <5>1. Y \in SUBSET Y
            OBVIOUS
          <5> HIDE DEF Y, Z
          <5>2. G(Y)[Y] = f[One(Y)] + G(Y)[Y \ {One(Y)}]
            BY <3>2, <3>4, <5>1, AddsAt
          <5> QED
            BY <5>2 DEF Z
        <4> QED
          BY <4>3, <4>4, <4>5
      <3> QED
        BY <3>3, <3>4
    <2>3. F = [X \in SUBSET T |->
                 IF X = {} THEN 0 ELSE f[One(X)] + F[X \ {One(X)}]]
      <3>1. \A X \in SUBSET T :
               F[X] = IF X = {} THEN 0 ELSE f[One(X)] + F[X \ {One(X)}]
        BY <2>2
      <3>2. F = [X \in SUBSET T |-> F[X]]
        OBVIOUS
      <3> QED
        BY <3>1, <3>2
    <2> HIDE DEF F
    <2>4. Adds(F, f, T)
      BY <2>3 DEF Adds, One
    <2> QED
      BY <2>4
  <1> HIDE DEF Good
  <1>2. \A T \in SUBSET S : T \in Good
    BY <1>1, SubsetInduction
  <1> QED
    BY <1>2 DEF Good

\* The sum over a set of which one element is set apart.
LEMMA SumWithout ==
  ASSUME NEW f, NEW S, IsFiniteSet(S), \A x \in S : f[x] \in Int
  PROVE  /\ SumFunctionOnSet(f, {}) = 0
         /\ SumFunctionOnSet(f, S) \in Int
         /\ \A x \in S : SumFunctionOnSet(f, S) = SumFunctionOnSet(f, S \ {x}) + f[x]
  <1>1. PICK F : Adds(F, f, S)
    BY AddsExists
  <1>2. ASSUME NEW T \in SUBSET S PROVE SumFunctionOnSet(f, T) = F[T]
    <2>1. IsFiniteSet(T)
      BY FS_Subset
    <2>2. PICK G : G = CHOOSE H : Adds(H, f, T)
      OBVIOUS
    <2>3. Adds(G, f, T)
      BY <2>1, <2>2, AddsExists
    <2>4. T \subseteq T /\ T \subseteq S
      OBVIOUS
    <2>5. G[T] = F[T]
      BY <1>1, <2>1, <2>3, <2>4, AddsAgree
    <2> QED
      BY <2>2, <2>5, SumDef
  <1> DEFINE Good == {T \in SUBSET S :
                        F[T] \in Int /\ \A x \in T : F[T] = F[T \ {x}] + f[x]}
  <1>3. ASSUME NEW T \in SUBSET S, \A X \in SUBSET T : X # T => X \in Good
        PROVE  T \in Good
    <2>1. CASE T = {}
      <3>1. F[T] = 0
        BY <1>1, <2>1, AddsAt
      <3> QED
        BY <2>1, <3>1
    <2>2. CASE T # {}
      <3>1. PICK c \in T : c = One(T)
        BY <2>2 DEF One
      <3>2. F[T] = f[c] + F[T \ {c}]
        BY <1>1, <2>2, <3>1, AddsAt
      <3>3. F[T \ {c}] \in Int /\ f[c] \in Int
        BY <1>3
      <3>4. ASSUME NEW x \in T PROVE F[T] = F[T \ {x}] + f[x]
        <4>1. CASE x = c
          BY <3>2, <3>3, <4>1
        <4>2. CASE x # c
          <5>1. T \ {c} \in Good /\ T \ {x} \in Good /\ T \ {c, x} \in Good
            BY <1>3, <4>2
          <5>2. (T \ {c}) \ {x} = T \ {c, x} /\ (T \ {x}) \ {c} = T \ {c, x}
            OBVIOUS
          <5>3. F[T \ {c}] = F[T \ {c, x}] + f[x]
            BY <4>2, <5>1, <5>2
          <5>4. F[T \ {x}] = F[T \ {c, x}] + f[c]
            BY <4>2, <5>1, <5>2
          <5>5. F[T \ {c, x}] \in Int /\ f[x] \in Int
            BY <5>1
          <5> QED
            BY <3>2, <3>3, <5>3, <5>4, <5>5
        <4> QED
          BY <4>1, <4>2
      <3>5. F[T] \in Int
        BY <3>2, <3>3
      <3> QED
        BY <3>4, <3>5
    <2> QED
      BY <2>1, <2>2
  <1> HIDE DEF Good
  <1>4. \A T \in SUBSET S : T \in Good
    BY <1>3, SubsetInduction
  <1>5. F[{}] = 0
    BY <1>1, AddsAt
  <1> QED
    BY <1>2, <1>4, <1>5 DEF Good

LEMMA SumSame ==
  ASSUME NEW S, IsFiniteSet(S), NEW f, NEW g,
         \A x \in S : f[x] \in Int /\ g[x] = f[x]
  PROVE  SumFunctionOnSet(g, S) = SumFunctionOnSet(f, S)
  <1> DEFINE Good == {T \in SUBSET S : SumFunctionOnSet(g, T) = SumFunctionOnSet(f, T)}
  <1>1. ASSUME NEW T \in SUBSET S, \A X \in SUBSET T : X # T => X \in Good
        PROVE  T \in Good
    <2>1. /\ IsFiniteSet(T)
          /\ \A x \in T : f[x] \in Int /\ g[x] \in Int
      BY FS_Subset
    <2>2. CASE T = {}
      BY <2>1, <2>2, SumWithout
    <2>3. CASE T # {}
      <3>1. PICK x \in T : TRUE
        BY <2>3
      <3>2. /\ SumFunctionOnSet(f, T) = SumFunctionOnSet(f, T \ {x}) + f[x]
            /\ SumFunctionOnSet(g, T) = SumFunctionOnSet(g, T \ {x}) + g[x]
        BY <2>1, SumWithout
      <3>3. T \ {x} \in Good
        BY <1>1
      <3> QED
        BY <3>2, <3>3
    <2> QED
      BY <2>2, <2>3
  <1> HIDE DEF Good
  <1>2. \A T \in SUBSET S : T \in Good
    BY <1>1, SubsetInduction
  <1> QED
    BY <1>2 DEF Good

LEMMA SumZero ==
  ASSUME NEW S, IsFiniteSet(S), NEW f, \A x \in S : f[x] = 0
  PROVE  SumFunctionOnSet(f, S) = 0
  <1> DEFINE Good == {T \in SUBSET S : SumFunctionOnSet(f, T) = 0}
  <1>1. ASSUME NEW T \in SUBSET S, \A X \in SUBSET T : X # T => X \in Good
        PROVE  T \in Good
    <2>1. IsFiniteSet(T) /\ \A x \in T : f[x] \in Int
      BY FS_Subset
    <2>2. CASE T = {}
      BY <2>1, <2>2, SumWithout
    <2>3. CASE T # {}
      <3>1. PICK x \in T : TRUE
        BY <2>3
      <3>2. SumFunctionOnSet(f, T) = SumFunctionOnSet(f, T \ {x}) + f[x]
        BY <2>1, SumWithout
      <3>3. T \ {x} \in Good
        BY <1>1
      <3> QED
        BY <3>2, <3>3
    <2> QED
      BY <2>2, <2>3
  <1> HIDE DEF Good
  <1>2. \A T \in SUBSET S : T \in Good
    BY <1>1, SubsetInduction
  <1> QED
    BY <1>2 DEF Good

\* One value changes by d.
LEMMA SumMoves ==
  ASSUME NEW S, IsFiniteSet(S), NEW f, NEW g, NEW i \in S, NEW d \in Int,
         \A x \in S : f[x] \in Int,
         \A x \in S : g[x] = IF x = i THEN f[x] + d ELSE f[x]
  PROVE  SumFunctionOnSet(g, S) = SumFunctionOnSet(f, S) + d
  <1>1. IsFiniteSet(S \ {i}) /\ \A x \in S : g[x] \in Int
    BY FS_RemoveElement
  <1>2. SumFunctionOnSet(g, S \ {i}) = SumFunctionOnSet(f, S \ {i})
    BY <1>1, SumSame
  <1>3. /\ SumFunctionOnSet(f, S) = SumFunctionOnSet(f, S \ {i}) + f[i]
        /\ SumFunctionOnSet(g, S) = SumFunctionOnSet(g, S \ {i}) + g[i]
    BY <1>1, SumWithout
  <1>4. SumFunctionOnSet(f, S \ {i}) \in Int
    BY <1>1, SumWithout
  <1> QED
    BY <1>2, <1>3, <1>4

\* A new element with the value 0.
LEMMA SumGrows ==
  ASSUME NEW S, IsFiniteSet(S), NEW f, NEW g, NEW k, k \notin S, g[k] = 0,
         \A x \in S : f[x] \in Int /\ g[x] = f[x]
  PROVE  SumFunctionOnSet(g, S \cup {k}) = SumFunctionOnSet(f, S)
  <1>1. IsFiniteSet(S \cup {k}) /\ \A x \in S \cup {k} : g[x] \in Int
    BY FS_AddElement
  <1>2. SumFunctionOnSet(g, S \cup {k}) = SumFunctionOnSet(g, (S \cup {k}) \ {k}) + 0
    BY <1>1, SumWithout
  <1>3. (S \cup {k}) \ {k} = S
    OBVIOUS
  <1>4. SumFunctionOnSet(g, S) = SumFunctionOnSet(f, S) /\ SumFunctionOnSet(f, S) \in Int
    BY SumSame, SumWithout
  <1>5. SumFunctionOnSet(g, S \cup {k}) = SumFunctionOnSet(g, S) + 0
    BY <1>2, <1>3
  <1> QED
    BY <1>4, <1>5

\* Two finite sets that differ in s at most.
LEMMA CountMoves ==
  ASSUME NEW A, IsFiniteSet(A), NEW B, NEW s, B \ {s} = A \ {s}
  PROVE  /\ IsFiniteSet(B)
         /\ Cardinality(B) =
               Cardinality(A) + ((IF s \in B THEN 1 ELSE 0) - (IF s \in A THEN 1 ELSE 0))
  <1>1. CASE s \in A /\ s \in B
    <2>1. A = B
      BY <1>1
    <2> QED
      BY <1>1, <2>1, FS_CardinalityType
  <1>2. CASE s \notin A /\ s \notin B
    <2>1. A = B
      BY <1>2
    <2> QED
      BY <1>2, <2>1, FS_CardinalityType
  <1>3. CASE s \in A /\ s \notin B
    <2>1. B = A \ {s}
      BY <1>3
    <2>2. IsFiniteSet(B) /\ Cardinality(B) = Cardinality(A) - 1
      BY <1>3, <2>1, FS_RemoveElement
    <2> QED
      BY <1>3, <2>2, FS_CardinalityType
  <1>4. CASE s \notin A /\ s \in B
    <2>1. B = A \cup {s}
      BY <1>4
    <2>2. IsFiniteSet(B) /\ Cardinality(B) = Cardinality(A) + 1
      BY <1>4, <2>1, FS_AddElement
    <2> QED
      BY <1>4, <2>2, FS_CardinalityType
  <1> QED
    BY <1>1, <1>2, <1>3, <1>4

-----------------------------------------------------------------------------
(* The counters follow the marks *)

Both == {"PRESENT", "ABSENT"}

\* The counter of a row for one status, and that of all rows.
Count(row, status) == IF status = "PRESENT" THEN row.attended ELSE row.freeze
Counters(status) == [i \in DOMAIN subs |-> Count(subs[i], status)]

\* By how much an open submission moves a trainee's counter.
Change(r, t, status) ==
    IF t \in DOMAIN req[r].done
    THEN Delta(status, req[r].done[t], marks[req[r].session][t].status)
    ELSE 0

\* What a submission wrote is still what the marks of its session call for: it
\* has at most one row of each trainee, with the counters of the table moved by
\* its marks, and none where nothing moves.
Pending(r) ==
    LET x == req[r] IN
    /\ \A t \in DOMAIN x.todo \cup DOMAIN x.done : ~marks[x.session][t].retake
    /\ x.pc = "write" => x.old = marks[x.session][x.now].status
    /\ \A i, j \in DOMAIN x.rows : subs[i].trainee = subs[j].trainee => i = j
    /\ \A status \in Both :
          /\ \A i \in DOMAIN x.rows :
                Count(x.rows[i], status) =
                   Count(subs[i], status) + Change(r, subs[i].trainee, status)
          /\ \A t \in DOMAIN x.done :
                \/ \E i \in DOMAIN x.rows : subs[i].trainee = t
                \/ Change(r, t, status) = 0

\* No two transactions hold one row.
Locked ==
    \A r, q \in Req : r # q => DOMAIN req[r].rows \cap DOMAIN req[q].rows = {}

Tally(t, status) ==
    /\ IsFiniteSet(CountedOn(t, status))
    /\ SumFunctionOnSet(Counters(status), SubsOf(t)) = Cardinality(CountedOn(t, status))

Tallied ==
    /\ Locked
    /\ \A r \in Req : req[r].pc \in {"next", "write"} => Pending(r)
    /\ \A t \in Trainee, status \in Both : Tally(t, status)

LEMMA TalliedIs == Tallied => CountersFollowMarks
  <1>1. Counters("PRESENT") = Attended /\ Counters("ABSENT") = Freezes
    BY DEF Counters, Count, Attended, Freezes
  <1> QED
    BY <1>1 DEF Tallied, Tally, Both, CountersFollowMarks

\* The marks that count.
LEMMA CountedOnIs ==
  ASSUME NEW m \in Mark, NEW status
  PROVE  m = [status |-> status, retake |-> FALSE] <=> m.status = status /\ ~m.retake
  BY DEF Mark

LEMMA SubsFinite ==
  ASSUME Typed, NEW t
  PROVE  /\ IsFiniteSet(SubsOf(t)) /\ SubsOf(t) \subseteq DOMAIN subs
         /\ \A i \in DOMAIN subs, status \in Both :
               Counters(status)[i] = Count(subs[i], status) /\ Counters(status)[i] \in Int
  <1>1. PICK n \in Nat : DOMAIN subs = 1..n
    BY DEF Typed
  <1>2. IsFiniteSet(DOMAIN subs)
    BY <1>1, FS_Interval
  <1>3. SubsOf(t) \subseteq DOMAIN subs
    BY DEF SubsOf
  <1>4. \A i \in DOMAIN subs : subs[i].attended \in Int /\ subs[i].freeze \in Int
    BY DEF Typed, TypeOK, Subscription
  <1> QED
    BY <1>2, <1>3, <1>4, FS_Subset DEF Counters, Count

LEMMA TalliedInit == Init => Tallied
  <1> SUFFICES ASSUME Init PROVE Tallied
    OBVIOUS
  <1>1. \A r \in Req : req[r].pc = "idle" /\ DOMAIN req[r].rows = {}
    BY IdleIs DEF Init
  <1>2. ASSUME NEW t \in Trainee, NEW status \in Both PROVE Tally(t, status)
    <2>1. CountedOn(t, status) = {}
      <3>1. \A s \in Session : marks[s][t].status = None
        BY DEF Init, NoMark
      <3>2. status # None
        BY AttendanceAssumption DEF AttendanceAssumption, Statuses, Both
      <3> QED
        BY <3>1, <3>2 DEF CountedOn
    <2>2. \A i \in DOMAIN subs : subs[i].attended = 0 /\ subs[i].freeze = 0
      BY DEF Init, NewSub
    <2>3. \A i \in SubsOf(t) : Counters(status)[i] = 0
      BY <2>2 DEF SubsOf, Counters, Count
    <2>4. IsFiniteSet(SubsOf(t))
      BY TypedInit, SubsFinite
    <2>5. SumFunctionOnSet(Counters(status), SubsOf(t)) = 0
      BY <2>3, <2>4, SumZero
    <2> QED
      BY <2>1, <2>5, FS_EmptySet DEF Tally
  <1> QED
    BY <1>1, <1>2 DEF Tallied, Locked

\* A submission others leave alone: its own marks, its rows' counters and
\* trainees stay.
LEMMA PendingKept ==
  ASSUME Typed, NEW r \in Req, Pending(r), req'[r] = req[r],
         marks'[req[r].session] = marks[req[r].session],
         \A i \in DOMAIN req[r].rows :
            /\ subs'[i].trainee = subs[i].trainee
            /\ subs'[i].attended = subs[i].attended /\ subs'[i].freeze = subs[i].freeze
  PROVE  Pending(r)'
  <1>1. \A t, status : Change(r, t, status)' = Change(r, t, status)
    BY DEF Change, Delta
  <1>2. \A i \in DOMAIN req[r].rows, status \in Both :
           Count(subs'[i], status) = Count(subs[i], status)
    BY DEF Count
  <1> QED
    BY <1>1, <1>2 DEF Pending, Count

\* A step that leaves a trainee's marks and the counters of his rows.
LEMMA TallyKept ==
  ASSUME Typed, NEW t \in Trainee, NEW status \in Both, Tally(t, status),
         CountedOn(t, status)' = CountedOn(t, status), SubsOf(t)' = SubsOf(t),
         SubsOf(t) \subseteq DOMAIN subs',
         \A i \in SubsOf(t) :
            subs'[i].attended = subs[i].attended /\ subs'[i].freeze = subs[i].freeze
  PROVE  Tally(t, status)'
  <1>1. \A i \in SubsOf(t) : /\ Counters(status)[i] \in Int
                             /\ Counters(status)'[i] = Counters(status)[i]
    BY SubsFinite DEF Counters, Count
  <1>2. SumFunctionOnSet(Counters(status)', SubsOf(t)) =
           SumFunctionOnSet(Counters(status), SubsOf(t))
    BY <1>1, SubsFinite, SumSame
  <1> QED
    BY <1>2 DEF Tally

\* A step of one request that leaves the table and the marks alone.
LEMMA TalliedStep ==
  ASSUME Typed, Tallied, NEW r \in Req, Alone(r), UNCHANGED <<subs, marks>>,
         req'[r].pc \in {"next", "write"} => Pending(r)',
         \A i \in DOMAIN req'[r].rows : i \in DOMAIN req[r].rows \/ RowUnlocked(r, i)
  PROVE  Tallied'
  <1>1. Locked'
    BY DEF Tallied, Locked, Alone, RowUnlocked, Others
  <1>2. ASSUME NEW q \in Req, q # r, req'[q].pc \in {"next", "write"} PROVE Pending(q)'
    BY <1>2, PendingKept DEF Tallied, Alone
  <1>3. ASSUME NEW t \in Trainee, NEW status \in Both PROVE Tally(t, status)'
    BY DEF Tallied, Tally, Counters, CountedOn, SubsOf
  <1> QED
    BY <1>1, <1>2, <1>3 DEF Tallied

LEMMA TalliedStart ==
  ASSUME Typed, Tallied, ~FixesRetakes, NEW r \in Req, NEW s \in Session,
         NEW T \in SUBSET Trainee, StartSubmit(r, s, T)
  PROVE  Tallied'
  <1>1. /\ Alone(r) /\ req'[r].pc = "next" /\ req'[r].session = s
        /\ DOMAIN req'[r].todo = T
        /\ DOMAIN req'[r].done = {} /\ DOMAIN req'[r].rows = {}
    BY StartSubmitIs
  <1>2. UNCHANGED <<subs, marks>> /\ \A t \in T : ~marks[s][t].retake
    BY DEF StartSubmit
  <1>3. Pending(r)'
    BY <1>1, <1>2 DEF Pending
  <1> QED
    BY <1>1, <1>2, <1>3, TalliedStep

LEMMA TalliedRead ==
  ASSUME Typed, Tallied, NEW r \in Req, NEW t \in Trainee, ReadRecord(r, t)
  PROVE  Tallied'
  <1>1. /\ Alone(r) /\ req[r].pc = "next" /\ req'[r].session = req[r].session
        /\ DOMAIN req'[r].todo \subseteq DOMAIN req[r].todo
        /\ req'[r].done = req[r].done /\ req'[r].rows = req[r].rows
        /\ req'[r].pc = "write" => /\ req'[r].now = t
                                  /\ req'[r].old = marks[req[r].session][t].status
    BY SkipRecordIs, ReadRecordIs
  <1>2. UNCHANGED <<subs, marks>>
    BY DEF ReadRecord
  <1>3. Pending(r)
    BY <1>1 DEF Tallied
  <1>4. \A u, status : Change(r, u, status)' = Change(r, u, status)
    BY <1>1, <1>2 DEF Change, Delta
  <1>5. Pending(r)'
    BY <1>1, <1>2, <1>3, <1>4 DEF Pending, Count
  <1> QED
    BY <1>1, <1>2, <1>5, TalliedStep

LEMMA TalliedWrite ==
  ASSUME Typed, Tallied, NEW r \in Req, WriteRecord(r)
  PROVE  Tallied'
  <1>a. PICK t \in Trainee : t = req[r].now
    BY RequestIs, WriteRecordIs
  <1>b. PICK i : i = req[r].sub
    OBVIOUS
  <1>0. t = req[r].now /\ i = req[r].sub
    BY <1>a, <1>b
  <1> DEFINE s == req[r].session
             new == req[r].todo[t]
             row == Counted(subs[i], req[r].was, new, req[r].old)
             rows == req[r].rows
  <1>1. /\ Alone(r) /\ req[r].pc = "write" /\ t \in DOMAIN req[r].todo /\ i \in SubsOf(t)
        /\ req'[r].pc = "next" /\ req'[r].session = s
        /\ DOMAIN req'[r].todo = DOMAIN req[r].todo \ {t}
        /\ DOMAIN req'[r].done = DOMAIN req[r].done \cup {t}
        /\ \A j \in DOMAIN req'[r].rows :
              \/ j \in DOMAIN rows /\ req'[r].rows[j] = rows[j]
              \/ j = i /\ req'[r].rows[j] = row
        /\ \A u \in DOMAIN req'[r].done :
              req'[r].done[u] = IF u = t THEN new ELSE req[r].done[u]
        /\ IF row = subs[i] THEN req'[r].rows = rows
                            ELSE /\ DOMAIN req'[r].rows = DOMAIN rows \cup {i}
                                 /\ RowUnlocked(r, i)
    BY <1>0, WriteRecordIs
  <1>2. UNCHANGED <<subs, marks>>
    BY DEF WriteRecord
  <1>3. Pending(r) /\ Holds(req[r]) /\ req[r].was \in Read /\ t \notin DOMAIN req[r].done
    BY <1>1, RequestIs DEF Tallied
  <1>4. i \in DOMAIN subs /\ subs[i].trainee = t /\ subs[i] \in Subscription
    BY <1>1 DEF SubsOf, Typed
  <1>5. \A j \in DOMAIN rows : subs[j].trainee # t /\ subs[j].trainee \in DOMAIN req[r].done
    BY <1>3 DEF Holds
  <1>6. ASSUME NEW status \in Both
        PROVE  /\ Count(row, status) = Count(subs[i], status) + Change(r, t, status)'
               /\ Count(subs[i], status) \in Int /\ Change(r, t, status)' \in Int
               /\ \A u \in DOMAIN req[r].done :
                     Change(r, u, status)' = Change(r, u, status)
    <2>1. Change(r, t, status)' = Delta(status, new, req[r].old)
      BY <1>0, <1>1, <1>2, <1>3 DEF Change, Pending, Delta
    <2>2. /\ row.attended = subs[i].attended + Delta("PRESENT", new, req[r].old)
          /\ row.freeze = subs[i].freeze + Delta("ABSENT", new, req[r].old)
      BY <1>3, <1>4, CountedIs
    <2>3. ASSUME NEW u \in DOMAIN req[r].done
          PROVE  Change(r, u, status)' = Change(r, u, status)
      BY <1>1, <1>2, <1>3 DEF Change, Delta
    <2>4. Count(subs[i], status) \in Int
      BY <1>4 DEF Count, Subscription
    <2> HIDE DEF row, new
    <2> QED
      BY <2>1, <2>2, <2>3, <2>4, DeltaType DEF Count, Both
  <1> HIDE DEF row, new
  <1>7. Pending(r)'
    <2>1. \A u \in DOMAIN req'[r].todo \cup DOMAIN req'[r].done : ~marks'[req'[r].session][u].retake
      BY <1>1, <1>2, <1>3 DEF Pending
    <2>2. \A j, k \in DOMAIN req'[r].rows : subs'[j].trainee = subs'[k].trainee => j = k
      BY <1>1, <1>2, <1>3, <1>4, <1>5 DEF Pending
    <2>3. ASSUME NEW status \in Both, NEW j \in DOMAIN req'[r].rows
          PROVE  Count(req'[r].rows[j], status) =
                    Count(subs[j], status) + Change(r, subs[j].trainee, status)'
      <3>1. CASE j \in DOMAIN rows /\ req'[r].rows[j] = rows[j]
        BY <1>2, <1>3, <1>5, <1>6, <3>1 DEF Pending
      <3>2. CASE j = i /\ req'[r].rows[j] = row
        BY <1>2, <1>4, <1>6, <3>2
      <3> QED
        BY <1>1, <3>1, <3>2
    <2>4. ASSUME NEW status \in Both, NEW u \in DOMAIN req'[r].done
          PROVE  \/ \E j \in DOMAIN req'[r].rows : subs[j].trainee = u
                 \/ Change(r, u, status)' = 0
      <3>1. CASE u # t
        <4>1. DOMAIN rows \subseteq DOMAIN req'[r].rows
          BY <1>1
        <4> QED
          BY <1>1, <1>3, <1>6, <3>1, <4>1 DEF Pending
      <3>2. CASE u = t /\ row = subs[i]
        BY <1>6, <3>2
      <3>3. CASE u = t /\ row # subs[i]
        BY <1>1, <1>4, <3>3
      <3> QED
        BY <3>1, <3>2, <3>3
    <2> QED
      BY <1>1, <1>2, <2>1, <2>2, <2>3, <2>4 DEF Pending, Count
  <1> QED
    BY <1>1, <1>2, <1>7, TalliedStep

\* A request that ends with nothing written to the table.
LEMMA TalliedEnd ==
  ASSUME Typed, Tallied, NEW r \in Req,
         Rollback(r) \/ CommitCancel(r) \/ \E s \in Session : StartCancel(r, s)
  PROVE  Tallied'
  <1>1. /\ Alone(r) /\ req'[r].pc \in {"idle", "cancel"} /\ DOMAIN req'[r].rows = {}
    BY EndIs, StartCancelIs, IdleIs
  <1>2. UNCHANGED <<subs, marks>>
    BY DEF Rollback, CommitCancel, StartCancel
  <1> QED
    BY <1>1, <1>2, TalliedStep

LEMMA TalliedRetake ==
  ASSUME Apart, Typed, Tallied, NEW t \in Trainee, NEW s \in Session, NEW i,
         ScheduleRetake(t, s, i)
  PROVE  Tallied'
  <1>1. /\ marks' = [marks EXCEPT ![s][t] = [status |-> "PRESENT", retake |-> TRUE]]
        /\ marks[s][t] = NoMark /\ ~Busy(s)
        /\ UNCHANGED <<subs, sessions, req>>
    BY DEF ScheduleRetake
  <1>2. ASSUME NEW r \in Req, req[r].pc \in {"next", "write"} PROVE Pending(r)'
    <2>1. marks'[req[r].session] = marks[req[r].session]
      BY <1>1, <1>2, RequestIs DEF Busy, Typed, TypeOK
    <2> QED
      BY <1>1, <1>2, <2>1, PendingKept DEF Tallied
  <1>3. ASSUME NEW u \in Trainee, NEW status \in Both PROVE Tally(u, status)'
    <2>1. CountedOn(u, status)' = CountedOn(u, status)
      <3>1. status # None
        BY AttendanceAssumption DEF AttendanceAssumption, Statuses, Both
      <3>2. ASSUME NEW z \in Session, z # s \/ u # t PROVE marks'[z][u] = marks[z][u]
        BY <1>1, <3>2 DEF Typed, TypeOK
      <3>3. marks'[s][t] = [status |-> "PRESENT", retake |-> TRUE]
        BY <1>1 DEF Typed, TypeOK
      <3>4. /\ marks'[s][t] # [status |-> status, retake |-> FALSE]
            /\ marks[s][t] # [status |-> status, retake |-> FALSE]
        BY <1>1, <3>1, <3>3 DEF NoMark
      <3> QED
        BY <3>2, <3>4 DEF CountedOn
    <2> QED
      BY <1>1, <2>1, TallyKept, SubsFinite DEF Tallied, SubsOf
  <1> QED
    BY <1>1, <1>2, <1>3 DEF Tallied, Locked

\* The commit moves the marks of its session and the counters together.
LEMMA TalliedCommit ==
  ASSUME Typed, Claims, Tallied, NEW r \in Req, CommitSubmit(r)
  PROVE  Tallied'
  <1>a. PICK s \in Session : s = req[r].session
    BY CommitSubmitIs
  <1>b. PICK done, rows : done = req[r].done /\ rows = req[r].rows
    OBVIOUS
  <1>0. s = req[r].session /\ done = req[r].done /\ rows = req[r].rows
    BY <1>a, <1>b
  <1>1. /\ Alone(r) /\ req[r].pc = "next" /\ req'[r] = Idle
        /\ \A i \in DOMAIN subs : subs'[i] = IF i \in DOMAIN rows THEN rows[i] ELSE subs[i]
        /\ DOMAIN subs' = DOMAIN subs
        /\ \A t \in Trainee : SubsOf(t)' = SubsOf(t)
        /\ req'[r].pc = "idle" /\ DOMAIN req'[r].rows = {}
    BY <1>0, CommitSubmitIs, IdleIs
  <1>2. marks' = [marks EXCEPT ![s] =
                    [t \in Trainee |-> IF t \in DOMAIN done
                         THEN [marks[s][t] EXCEPT !.status = done[t]] ELSE marks[s][t]]]
    BY <1>0 DEF CommitSubmit
  <1>3. Pending(r) /\ Holds(req[r]) /\ DOMAIN done \subseteq Trainee
    BY <1>0, <1>1, RequestIs DEF Tallied
  <1>4. Locked'
    BY <1>1 DEF Tallied, Locked, Alone
  <1>5. ASSUME NEW q \in Req, req'[q].pc \in {"next", "write"} PROVE Pending(q)'
    <2>1. q # r /\ req'[q] = req[q] /\ Pending(q) /\ Holds(req[q])
      BY <1>1, <1>5, RequestIs DEF Alone, Tallied
    <2>2. req[q].session # s /\ req[q].session \in Session
      BY <1>0, <1>5, <2>1, RequestIs, AttendanceAssumption DEF Claims, AttendanceAssumption
    <2>3. marks'[req[q].session] = marks[req[q].session]
      BY <1>2, <2>2 DEF Typed, TypeOK
    <2>4. \A i \in DOMAIN req[q].rows : subs'[i] = subs[i]
      BY <1>0, <1>1, <2>1 DEF Tallied, Locked, Holds
    <2> QED
      BY <2>1, <2>3, <2>4, PendingKept
  <1>6. ASSUME NEW t \in Trainee, NEW status \in Both PROVE Tally(t, status)'
    <2>1. PICK d \in Int : d = Change(r, t, status)
      BY DeltaType DEF Change
    <2>2. /\ Tally(t, status) /\ IsFiniteSet(SubsOf(t)) /\ SubsOf(t) \subseteq DOMAIN subs
          /\ \A i \in DOMAIN subs :
                Counters(status)[i] = Count(subs[i], status) /\ Counters(status)[i] \in Int
          /\ \A i \in DOMAIN subs : Counters(status)'[i] = Count(subs'[i], status)
      BY <1>1, SubsFinite DEF Tallied, Counters
    <2>3. SumFunctionOnSet(Counters(status)', SubsOf(t)) =
             SumFunctionOnSet(Counters(status), SubsOf(t)) + d
      <3>1. CASE \E i \in DOMAIN rows : subs[i].trainee = t
        <4>1. PICK i \in DOMAIN rows : subs[i].trainee = t
          BY <3>1
        <4>2. i \in SubsOf(t)
          BY <1>0, <1>3, <4>1 DEF Holds, SubsOf
        <4>3. Count(rows[i], status) = Count(subs[i], status) + d
          BY <1>0, <1>3, <2>1, <4>1 DEF Pending
        <4>4. \A j \in SubsOf(t) : j # i => j \notin DOMAIN rows
          BY <1>0, <1>3, <4>1 DEF Pending, SubsOf
        <4>5. \A j \in SubsOf(t) :
                 Counters(status)'[j] = IF j = i THEN Counters(status)[j] + d
                                                 ELSE Counters(status)[j]
          BY <1>1, <2>2, <4>2, <4>3, <4>4
        <4> QED
          BY <2>2, <4>2, <4>5, SumMoves
      <3>2. CASE \A i \in DOMAIN rows : subs[i].trainee # t
        <4>1. d = 0
          BY <1>0, <1>3, <2>1, <3>2 DEF Pending, Change
        <4>2. \A j \in SubsOf(t) : j \notin DOMAIN rows
          BY <3>2 DEF SubsOf
        <4>3. \A j \in SubsOf(t) : Counters(status)'[j] = Counters(status)[j]
          BY <1>1, <2>2, <4>2
        <4>4. /\ SumFunctionOnSet(Counters(status)', SubsOf(t)) =
                    SumFunctionOnSet(Counters(status), SubsOf(t))
              /\ SumFunctionOnSet(Counters(status), SubsOf(t)) \in Int
          BY <2>2, <4>3, SumSame, SumWithout
        <4> QED
          BY <4>1, <4>4
      <3> QED
        BY <3>1, <3>2
    <2>4. /\ IsFiniteSet(CountedOn(t, status)')
          /\ Cardinality(CountedOn(t, status)') = Cardinality(CountedOn(t, status)) + d
      <3>1. /\ marks[s][t] \in Mark
            /\ \A z \in Session : z # s => marks'[z] = marks[z]
            /\ marks'[s][t] = IF t \in DOMAIN done
                              THEN [marks[s][t] EXCEPT !.status = done[t]] ELSE marks[s][t]
        BY <1>2 DEF Typed, TypeOK
      <3>2. CountedOn(t, status)' \ {s} = CountedOn(t, status) \ {s}
        BY <3>1 DEF CountedOn
      <3>3. s \in CountedOn(t, status) <=> marks[s][t].status = status /\ ~marks[s][t].retake
        BY <3>1, CountedOnIs DEF CountedOn
      <3>4. CASE t \in DOMAIN done
        <4>1. ~marks[s][t].retake
          BY <1>0, <1>3, <3>4 DEF Pending
        <4>2. marks'[s][t] = [status |-> done[t], retake |-> FALSE]
          BY <3>1, <3>4, <4>1 DEF Mark
        <4>3. s \in CountedOn(t, status)' <=> done[t] = status
          <5>1. [status |-> done[t], retake |-> FALSE] = [status |-> status, retake |-> FALSE]
                   <=> done[t] = status
            OBVIOUS
          <5> QED
            BY <4>2, <5>1 DEF CountedOn
        <4>4. d = (IF s \in CountedOn(t, status)' THEN 1 ELSE 0)
                    - (IF s \in CountedOn(t, status) THEN 1 ELSE 0)
          BY <1>0, <2>1, <3>3, <3>4, <4>1, <4>3 DEF Change, Delta
        <4> QED
          BY <2>2, <3>2, <4>4, CountMoves DEF Tally
      <3>5. CASE t \notin DOMAIN done
        <4>1. CountedOn(t, status)' = CountedOn(t, status)
          BY <3>1, <3>2, <3>5 DEF CountedOn
        <4>2. d = 0
          BY <1>0, <2>1, <3>5 DEF Change
        <4> QED
          BY <2>2, <4>1, <4>2, FS_CardinalityType DEF Tally
      <3> QED
        BY <3>4, <3>5
    <2> QED
      BY <1>1, <2>2, <2>3, <2>4 DEF Tally
  <1> QED
    BY <1>4, <1>5, <1>6 DEF Tallied

LEMMA TalliedRenew ==
  ASSUME Typed, Tallied, NEW t \in Trainee, Renew(t)
  PROVE  Tallied'
  <1>1. UNCHANGED <<marks, req>>
    BY DEF Renew
  <1>2. PICK k : k = Latest(t)'
    OBVIOUS
  <1>3. /\ subs'[k] = NewSub(t) /\ k \notin DOMAIN subs /\ DOMAIN subs' = DOMAIN subs \cup {k}
        /\ \A i \in DOMAIN subs :
              /\ subs'[i].trainee = subs[i].trainee
              /\ subs'[i].attended = subs[i].attended /\ subs'[i].freeze = subs[i].freeze
        /\ \A u \in Trainee :
              SubsOf(u)' = IF u = t THEN SubsOf(u) \cup {k} ELSE SubsOf(u)
    BY <1>2, RenewIs
  <1>4. Locked'
    BY <1>1 DEF Tallied, Locked
  <1>5. ASSUME NEW r \in Req, req'[r].pc \in {"next", "write"} PROVE Pending(r)'
    <2>1. Pending(r) /\ Holds(req[r])
      BY <1>1, <1>5, RequestIs DEF Tallied
    <2> QED
      BY <1>1, <1>3, <2>1, PendingKept DEF Holds
  <1>6. ASSUME NEW u \in Trainee, NEW status \in Both PROVE Tally(u, status)'
    <2>1. CountedOn(u, status)' = CountedOn(u, status)
      BY <1>1 DEF CountedOn
    <2>2. CASE u # t
      BY <1>3, <2>1, <2>2, SubsFinite, TallyKept DEF Tallied
    <2>3. CASE u = t
      <3>1. /\ IsFiniteSet(SubsOf(t)) /\ SubsOf(t) \subseteq DOMAIN subs
            /\ \A i \in SubsOf(t) : /\ Counters(status)[i] \in Int
                                    /\ Counters(status)'[i] = Counters(status)[i]
        BY <1>3, SubsFinite DEF Counters, Count
      <3>2. Counters(status)'[k] = 0
        BY <1>3, NewSubIs DEF Counters, Count
      <3>3. k \notin SubsOf(t)
        BY <1>3, <3>1
      <3>4. SumFunctionOnSet(Counters(status)', SubsOf(t) \cup {k}) =
               SumFunctionOnSet(Counters(status), SubsOf(t))
        BY <3>1, <3>2, <3>3, SumGrows
      <3> QED
        BY <1>3, <2>1, <2>3, <3>4 DEF Tallied, Tally
    <2> QED
      BY <2>2, <2>3
  <1> QED
    BY <1>4, <1>5, <1>6 DEF Tallied

LEMMA TalliedClock ==
  ASSUME Typed, Tallied, ExpireSubscriptions \/ \E k \in DOMAIN subs : TimePasses(k)
  PROVE  Tallied'
  <1>1. /\ UNCHANGED <<marks, sessions, req, clashed>>
        /\ \A t \in Trainee : SubsOf(t)' = SubsOf(t)
        /\ DOMAIN subs' = DOMAIN subs
        /\ \A i \in DOMAIN subs :
              /\ subs'[i].trainee = subs[i].trainee
              /\ subs'[i].attended = subs[i].attended /\ subs'[i].freeze = subs[i].freeze
    BY ClockIs
  <1>2. ASSUME NEW r \in Req, req'[r].pc \in {"next", "write"} PROVE Pending(r)'
    <2>1. Pending(r) /\ Holds(req[r])
      BY <1>1, <1>2, RequestIs DEF Tallied
    <2> QED
      BY <1>1, <2>1, PendingKept DEF Holds
  <1>3. ASSUME NEW t \in Trainee, NEW status \in Both PROVE Tally(t, status)'
    <2>1. CountedOn(t, status)' = CountedOn(t, status)
      BY <1>1 DEF CountedOn
    <2> QED
      BY <1>1, <2>1, SubsFinite, TallyKept DEF Tallied
  <1> QED
    BY <1>1, <1>2, <1>3 DEF Tallied, Locked

LEMMA TalliedNext ==
  ASSUME Apart, ~FixesRetakes, Typed, Claims, Tallied, [Next]_vars
  PROVE  Tallied'
  <1>1. ASSUME NEW r \in Req, NEW s \in Session,
               (\E T \in SUBSET Trainee : StartSubmit(r, s, T)) \/ StartCancel(r, s)
        PROVE  Tallied'
    BY <1>1, TalliedStart, TalliedEnd
  <1>2. ASSUME NEW r \in Req, Step(r) PROVE Tallied'
    BY <1>2, TalliedRead, TalliedWrite, TalliedCommit, TalliedEnd DEF Step
  <1>3. CASE \E t \in Trainee, s \in Session : \E i \in SubsOf(t) : ScheduleRetake(t, s, i)
    BY <1>3, TalliedRetake
  <1>4. CASE \E t \in Trainee : Renew(t)
    BY <1>4, TalliedRenew
  <1>5. CASE ExpireSubscriptions \/ \E i \in DOMAIN subs : TimePasses(i)
    BY <1>5, TalliedClock
  <1>6. CASE UNCHANGED vars
    <2>1. \A r \in Req : Pending(r) => Pending(r)'
      BY <1>6 DEF vars, Pending, Change, Count, Delta
    <2>2. \A t, status : Tally(t, status) => Tally(t, status)'
      BY <1>6 DEF vars, Tally, Counters, Count, CountedOn, SubsOf
    <2> QED
      BY <1>6, <2>1, <2>2 DEF vars, Tallied, Locked
  <1> QED
    BY <1>1, <1>2, <1>3, <1>4, <1>5, <1>6 DEF Next

\* When requests on one session keep apart and no submission corrects a retake,
\* the counters of a trainee's subscriptions add up to the marks that count:
\* for any number of sessions, trainees, periods and submissions at once.
THEOREM CountersKept == Apart /\ ~FixesRetakes /\ Spec => []CountersFollowMarks
  <1> DEFINE I == Apart /\ ~FixesRetakes /\ Typed /\ Claims /\ Tallied
  <1>1. Apart /\ ~FixesRetakes /\ Init => I
    BY TypedInit, ClaimsInit, TalliedInit
  <1>2. I /\ [Next]_vars => I'
    BY TypedNext, ClaimsNext, TalliedNext
  <1>3. I => CountersFollowMarks
    BY TalliedIs
  <1> HIDE DEF I
  <1> QED
    BY <1>1, <1>2, <1>3, PTL DEF Spec
====

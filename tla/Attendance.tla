----------------------------- MODULE Attendance -----------------------------
(***************************************************************************)
(* Marking attendance: the marks of a session, the counters and the status *)
(* of the subscriptions they are counted on, and the status of the session *)
(* (src/services/attendance.service.ts and the session handlers of         *)
(* src/services/schedule.service.ts), against renewals and the daily       *)
(* expiry job.                                                             *)
(*                                                                         *)
(* submitAttendance is one transaction that treats its records one after   *)
(* the other.  For each it reads the previous mark and the latest          *)
(* subscription of the trainee without a lock, and only then writes: the   *)
(* counters as increments, the status as the reads said.  What it wrote    *)
(* stays in req[r] until its commit; a row in req[r].rows is locked.       *)
(*                                                                         *)
(* Abstracted: dates (a subscription's endDate has passed or not, and so   *)
(* has its retake window), notes, evaluations and audit rows.  Every       *)
(* trainee has a subscription.  Renewal is one step here; module           *)
(* Enrollment has its own.                                                 *)
(***************************************************************************)
EXTENDS Integers, Sequences, FiniteSets, FiniteSetsExt, Functions, TLC

CONSTANTS
    Req,           \* transactions that may be open at the same time
    Trainee,
    Session,
    Marked,        \* the statuses staff give
    Total,         \* totalSessions of a subscription
    Freeze,        \* freezeSessions of the plan
    MaxSubs,       \* bound: subscriptions ever created
    MaxTicks,      \* bound: times a date passes on a current subscription
    Apart,         \* TRUE: requests on one session do not overlap
    FixesRetakes,  \* TRUE: a submission may correct a retake
    None

Statuses == {"PRESENT", "ABSENT", "EXCUSED"}

ASSUME AttendanceAssumption ==
    /\ Marked \subseteq Statuses
    /\ Total \in Nat \ {0}
    /\ Freeze \in Nat
    /\ MaxSubs \in Nat /\ MaxTicks \in Nat
    /\ {Apart, FixesRetakes} \subseteq BOOLEAN
    /\ None \notin Session \cup Statuses \cup Trainee
    /\ IsFiniteSet(Trainee)

VARIABLES
    subs,      \* trainee_subscriptions, in creation order
    marks,     \* attendance_records: status (None: no row) and isRetake
    sessions,  \* the status of each session
    req,       \* the open transaction of each request
    clashed    \* history: trainees two requests were busy with at once

vars == <<subs, marks, sessions, req, clashed>>

Mark == [status : Statuses \cup {None}, retake : BOOLEAN]
NoMark == [status |-> None, retake |-> FALSE]

\* past: the day after endDate has begun; late: so has the end of the retake
\* window, counted from expiredAt or endDate.
Subscription ==
    [trainee : Trainee, attended : Int, freeze : Int,
     status : {"ACTIVE", "EXPIRED"}, past : BOOLEAN, late : BOOLEAN]

NewSub(t) ==
    [trainee |-> t, attended |-> 0, freeze |-> 0, status |-> "ACTIVE",
     past |-> FALSE, late |-> FALSE]

NotRead == [status |-> "ACTIVE", attended |-> 0, past |-> FALSE]

Idle ==
    [pc |-> "idle", session |-> None,
     todo |-> <<>>,      \* trainee -> status, of the records to come
     now |-> None,       \* the trainee of the record at hand
     old |-> None,       \* prior?.status
     sub |-> 0,          \* the latest subscription
     was |-> NotRead,    \* its status, attendedSessions and endDate as read
     done |-> <<>>,      \* trainee -> status, of the records it upserted
     rows |-> <<>>]      \* the subscription rows it updated

\* Function f with the value v at x.
With(f, x, v) == [y \in DOMAIN f \cup {x} |-> IF y = x THEN v ELSE f[y]]

Others(r) == Req \ {r}
SubsOf(t) == {i \in DOMAIN subs : subs[i].trainee = t}
Latest(t) == Max(SubsOf(t))
UsedUp(row) == row.attended >= Total
Touches(r, t) ==
    /\ req[r].pc # "idle"
    /\ t \in DOMAIN req[r].todo \cup {req[r].now} \cup DOMAIN req[r].done
RowUnlocked(r, i) == \A q \in Others(r) : i \notin DOMAIN req[q].rows
Busy(s) == \E q \in Req : req[q].session = s

Init ==
    /\ \E order \in {f \in [1..Cardinality(Trainee) -> Trainee] : IsInjective(f)} :
          subs = [i \in DOMAIN order |-> NewSub(order[i])]
    /\ marks = [s \in Session |-> [t \in Trainee |-> NoMark]]
    /\ sessions = [s \in Session |-> "SCHEDULED"]
    /\ req = [r \in Req |-> Idle]
    /\ clashed = {}

-----------------------------------------------------------------------------
(* submitAttendance *)

\* It refuses a cancelled session; the others stay open to corrections.
StartSubmit(r, s, T) ==
    /\ req[r].pc = "idle"
    /\ sessions[s] # "CANCELLED"
    /\ Apart => ~Busy(s)
    /\ T # {}
    /\ FixesRetakes \/ \A t \in T : ~marks[s][t].retake
    /\ \E todo \in [T -> Marked] :
          req' = [req EXCEPT ![r] = [Idle EXCEPT !.pc = "next", !.session = s,
                                                 !.todo = todo]]
    /\ clashed' = clashed \cup {t \in T : \E q \in Others(r) : Touches(q, t)}
    /\ UNCHANGED <<subs, marks, sessions>>

\* getSubscriptionState(...).pastGrace.
PastGrace(row) ==
    (row.status = "EXPIRED" \/ row.past \/ UsedUp(row)) /\ row.late

\* The reads of the next record.  A new mark is refused once the retake
\* window has closed; a correction never is.
ReadRecord(r, t) ==
    LET old == marks[req[r].session][t].status
        row == subs[Latest(t)]
        todo == req[r].todo
    IN  /\ req[r].pc = "next"
        /\ t \in DOMAIN todo
        /\ req' = [req EXCEPT
              ![r] = IF old = None /\ PastGrace(row)
                     THEN [@ EXCEPT !.todo = Restrict(todo, DOMAIN todo \ {t})]
                     ELSE [@ EXCEPT !.pc = "write", !.now = t, !.old = old,
                                    !.sub = Latest(t),
                                    !.was = Restrict(row, DOMAIN NotRead)]]
        /\ UNCHANGED <<subs, marks, sessions, clashed>>

Delta(status, new, old) ==
    (IF new = status THEN 1 ELSE 0) - (IF old = status THEN 1 ELSE 0)

\* Mutant: the counter is written as the value computed from the read.
AbsoluteCount(row, was, new, old) ==
    LET attended == was.attended + Delta("PRESENT", new, old)
        over == attended >= Total \/ was.past
    IN  [row EXCEPT
           !.attended = attended,
           !.freeze = @ + Delta("ABSENT", new, old),
           !.status = IF over /\ was.status = "ACTIVE" THEN "EXPIRED"
                      ELSE IF ~over /\ was.status = "EXPIRED" THEN "ACTIVE" ELSE @,
           !.late = IF ~over /\ was.status = "EXPIRED" THEN FALSE ELSE @]

\* Mutant: a correction below the cap does not revive the subscription.
NeverRevived(row, was, new, old) ==
    LET attended == was.attended + Delta("PRESENT", new, old)
        over == attended >= Total \/ was.past
    IN  [row EXCEPT
           !.attended = @ + Delta("PRESENT", new, old),
           !.freeze = @ + Delta("ABSENT", new, old),
           !.status = IF over /\ was.status = "ACTIVE" THEN "EXPIRED" ELSE @]

\* The UPDATE: the counters are increments on the newest row, the status is
\* what the earlier read calls for.
Counted(row, was, new, old) ==
    LET attended == was.attended + Delta("PRESENT", new, old)
        over == attended >= Total \/ was.past
        revived == ~over /\ was.status = "EXPIRED"
    IN  [row EXCEPT
           !.attended = @ + Delta("PRESENT", new, old),
           !.freeze = @ + Delta("ABSENT", new, old),
           !.status = IF over /\ was.status = "ACTIVE" THEN "EXPIRED"
                      ELSE IF revived THEN "ACTIVE" ELSE @,
           !.late = @ /\ ~revived]

\* The upsert of the mark, which waits for another upsert of the same one, and
\* the UPDATE of the subscription, which waits for its row; at most one
\* subscription of a trainee is ACTIVE.
WriteRecord(r) ==
    LET t == req[r].now
        i == req[r].sub
        new == req[r].todo[t]
        row == Counted(subs[i], req[r].was, new, req[r].old)
    IN  /\ req[r].pc = "write"
        /\ \A q \in Others(r) :
              req[q].session = req[r].session => t \notin DOMAIN req[q].done
        /\ row # subs[i] =>
              /\ RowUnlocked(r, i)
              /\ row.status = "ACTIVE" =>
                    \A j \in SubsOf(t) \ {i} : subs[j].status = "EXPIRED"
        /\ req' = [req EXCEPT
                     ![r] = [Idle EXCEPT
                       !.pc = "next", !.session = req[r].session,
                       !.todo = Restrict(req[r].todo, DOMAIN req[r].todo \ {t}),
                       !.done = With(req[r].done, t, new),
                       !.rows = IF row = subs[i] THEN req[r].rows
                                                 ELSE With(req[r].rows, i, row)]]
        /\ UNCHANGED <<subs, marks, sessions, clashed>>

\* After the last record the session is COMPLETED, whatever it is by now.
CommitSubmit(r) ==
    LET s == req[r].session
        done == req[r].done
        rows == req[r].rows
    IN  /\ req[r].pc = "next" /\ req[r].todo = <<>>
        /\ marks' = [marks EXCEPT ![s] =
                       [t \in Trainee |-> IF t \in DOMAIN done
                                          THEN [@[t] EXCEPT !.status = done[t]]
                                          ELSE @[t]]]
        /\ subs' = [i \in DOMAIN subs |-> IF i \in DOMAIN rows THEN rows[i]
                                                              ELSE subs[i]]
        /\ sessions' = [sessions EXCEPT ![s] = "COMPLETED"]
        /\ req' = [req EXCEPT ![r] = Idle]
        /\ UNCHANGED clashed

\* An error, a deadlock victim or the 30 s timeout.
Rollback(r) ==
    /\ req[r].pc # "idle"
    /\ req' = [req EXCEPT ![r] = Idle]
    /\ UNCHANGED <<subs, marks, sessions, clashed>>

-----------------------------------------------------------------------------
(* scheduleRetake and cancelSession *)

\* A retake is a PRESENT mark that counts for nothing, for a subscription with
\* freeze credit left.  The date of its session must lie in the retake window;
\* dates of sessions are abstracted, and neither today's date nor the status
\* of the session is looked at, so any session may be the retake.
ScheduleRetake(t, s, i) ==
    /\ i \in SubsOf(t)
    /\ subs[i].freeze < Freeze
    /\ marks[s][t] = NoMark
    /\ Apart => ~Busy(s)
    /\ \A q \in Req : req[q].session = s => t \notin DOMAIN req[q].done
    /\ marks' = [marks EXCEPT ![s][t] = [status |-> "PRESENT", retake |-> TRUE]]
    /\ UNCHANGED <<subs, sessions, req, clashed>>

\* Mutant: a completed session may be cancelled.
CancelsCompleted(r, s) ==
    /\ req[r].pc = "idle"
    /\ sessions[s] # "CANCELLED"
    /\ Apart => ~Busy(s)
    /\ req' = [req EXCEPT ![r] = [Idle EXCEPT !.pc = "cancel", !.session = s]]
    /\ UNCHANGED <<subs, marks, sessions, clashed>>

\* cancelSession reads the status and refuses what is over.
StartCancel(r, s) ==
    /\ req[r].pc = "idle"
    /\ sessions[s] = "SCHEDULED"
    /\ Apart => ~Busy(s)
    /\ req' = [req EXCEPT ![r] = [Idle EXCEPT !.pc = "cancel", !.session = s]]
    /\ UNCHANGED <<subs, marks, sessions, clashed>>

\* Mutant: the request ends without letting go of its session.
CancelNeverEnds(r) ==
    /\ req[r].pc = "cancel"
    /\ sessions' = [sessions EXCEPT ![req[r].session] = "CANCELLED"]
    /\ req' = [req EXCEPT ![r].pc = "idle"]
    /\ UNCHANGED <<subs, marks, clashed>>

\* It updates by id and touches no counter.
CommitCancel(r) ==
    /\ req[r].pc = "cancel"
    /\ sessions' = [sessions EXCEPT ![req[r].session] = "CANCELLED"]
    /\ req' = [req EXCEPT ![r] = Idle]
    /\ UNCHANGED <<subs, marks, clashed>>

-----------------------------------------------------------------------------
(* Renewal, the daily job and time *)

\* renewSubscription closes the current subscription and opens the next.
Renew(t) ==
    /\ Len(subs) < MaxSubs
    /\ \A q \in Req : SubsOf(t) \cap DOMAIN req[q].rows = {}
    /\ subs' = Append([i \in DOMAIN subs |->
                         IF i \in SubsOf(t) THEN [subs[i] EXCEPT !.status = "EXPIRED"]
                                            ELSE subs[i]], NewSub(t))
    /\ UNCHANGED <<marks, sessions, req, clashed>>

\* The rows the daily job's UPDATE matches.
Over == {i \in DOMAIN subs : subs[i].status = "ACTIVE"
                              /\ (subs[i].past \/ UsedUp(subs[i]))}

\* The UPDATE waits for the rows open transactions hold.
ExpireSubscriptions ==
    /\ Over # {}
    /\ \A i \in Over, q \in Req : i \notin DOMAIN req[q].rows
    /\ subs' = [i \in DOMAIN subs |->
                  IF i \in Over THEN [subs[i] EXCEPT !.status = "EXPIRED"]
                                ELSE subs[i]]
    /\ UNCHANGED <<marks, sessions, req, clashed>>

\* endDate passes, or the retake window closes.  A row an open transaction
\* holds shows the new time at its commit, and nobody asks how old one is that
\* has been renewed.
TimePasses(i) ==
    /\ i = Latest(subs[i].trainee)
    /\ Quantify(DOMAIN subs, LAMBDA j : subs[j].past)
          + Quantify(DOMAIN subs, LAMBDA j : subs[j].late) < MaxTicks
    /\ \A q \in Req : i \notin DOMAIN req[q].rows
    /\ \/ ~subs[i].past /\ subs' = [subs EXCEPT ![i].past = TRUE]
       \/ /\ ~subs[i].late /\ (subs[i].past \/ subs[i].status = "EXPIRED")
          /\ subs' = [subs EXCEPT ![i].late = TRUE]
    /\ UNCHANGED <<marks, sessions, req, clashed>>

-----------------------------------------------------------------------------

Step(r) ==
    \/ \E t \in Trainee : ReadRecord(r, t)
    \/ WriteRecord(r)
    \/ CommitSubmit(r)
    \/ CommitCancel(r)
    \/ Rollback(r)

Next ==
    \/ \E r \in Req, s \in Session :
          (\E T \in SUBSET Trainee : StartSubmit(r, s, T)) \/ StartCancel(r, s)
    \/ \E r \in Req : Step(r)
    \/ \E t \in Trainee, s \in Session :
          \E i \in SubsOf(t) : ScheduleRetake(t, s, i)
    \/ \E t \in Trainee : Renew(t)
    \/ ExpireSubscriptions
    \/ \E i \in DOMAIN subs : TimePasses(i)

Spec == Init /\ [][Next]_vars

-----------------------------------------------------------------------------
(* Properties *)

\* The rows and requests have the shapes they should, and a request that has
\* ended holds nothing.
TypeOK ==
    /\ \A i \in DOMAIN subs : subs[i] \in Subscription
    /\ marks \in [Session -> [Trainee -> Mark]]
    /\ sessions \in [Session -> {"SCHEDULED", "COMPLETED", "CANCELLED"}]
    /\ clashed \subseteq Trainee
    /\ \A r \in Req :
          /\ req[r].pc \in {"idle", "next", "write", "cancel"}
          /\ req[r].pc = "idle" => req[r] = Idle
          /\ req[r].pc = "write" => req[r].now \in DOMAIN req[r].todo
          /\ req[r].was \in [status : {"ACTIVE", "EXPIRED"}, attended : Int,
                              past : BOOLEAN]
          /\ \A i \in DOMAIN req[r].rows :
                i \in DOMAIN subs /\ req[r].rows[i] \in Subscription

CountedOn(t, status) ==
    {s \in Session : marks[s][t] = [status |-> status, retake |-> FALSE]}

Attended == [i \in DOMAIN subs |-> subs[i].attended]
Freezes == [i \in DOMAIN subs |-> subs[i].freeze]

\* Over all periods of a trainee the counters add up to the marks, through
\* corrections, renewals and submissions of several sessions at once
\* (attendance.service.ts:62-66).
CountersFollowMarks ==
    \A t \in Trainee :
        /\ SumFunctionOnSet(Attended, SubsOf(t)) = Cardinality(CountedOn(t, "PRESENT"))
        /\ SumFunctionOnSet(Freezes, SubsOf(t)) = Cardinality(CountedOn(t, "ABSENT"))

\* A current subscription that is EXPIRED has run out of sessions or of time,
\* also after corrections (attendance.service.ts:143-146), if no two requests
\* were busy with the trainee at once.
ExpiredIsOver ==
    \A t \in Trainee \ clashed :
        LET row == subs[Latest(t)] IN
        row.status = "EXPIRED" => row.past \/ UsedUp(row)

\* A cancelled session has no marks that were counted: a trainee does not lose
\* a session for a practice that did not take place (schedule.service.ts:276).
CancelledCostsNothing ==
    \A s \in Session, t \in Trainee :
        sessions[s] = "CANCELLED" => marks[s][t].status = None \/ marks[s][t].retake
=============================================================================

-------------------------- MODULE EnrollmentProofs --------------------------
(***************************************************************************)
(* What TLAPS proves about Enrollment, for any number of requests,         *)
(* trainees, groups and plans: its types, at most one ACTIVE subscription  *)
(* per trainee, gap-free receipt numbers, balances that add up and are     *)
(* never overdrawn by a payment, no deadlock, one group per trainee,       *)
(* placements within the capacity, and that it implements Book.            *)
(***************************************************************************)
EXTENDS Enrollment, SequenceTheorems, FiniteSetTheorems, TLAPS

-----------------------------------------------------------------------------
(* Types *)

\* Which statements each kind of request reaches, and what it has looked up
\* by then; D is the set of subscriptions that exist.
Shape(v, D) ==
  \/ v.op = "none" /\ v.pc = "idle"
  \/ /\ v.op \in {"enroll", "renew"}
     /\ v.pc \in {"close", "load", "insert", "place", "move", "receipt", "commit"}
     /\ v.trainee \in Trainee /\ v.group \in Group /\ v.plan \in Plan
  \/ /\ v.op = "assign"
     /\ v.pc \in {"level", "load", "place", "move", "commit"}
     /\ v.trainee \in Trainee /\ v.group \in Group /\ v.plan \in Plan
  \/ /\ v.op = "pay"
     /\ v.pc \in {"write", "receipt", "commit"}
     /\ v.sub \in D

\* The inductive strengthening of TypeOK.
Typed == TypeOK /\ \A r \in Req : Shape(req[r], DOMAIN subs)

LEMMA IdleType ==
  Idle \in Transaction /\ Idle.sub = 0 /\ Idle.seq = 0
    /\ Idle.pc = "idle" /\ Idle.op = "none" /\ \A D : Shape(Idle, D)
  BY DEF Idle, Transaction, PCs, Shape

\* Rewriting rows one by one keeps the sequence of subscriptions a sequence.
LEMMA RewriteSubs ==
  ASSUME NEW S \in Seq(Subscription), NEW f,
         f = [s \in DOMAIN S |-> f[s]],
         \A s \in DOMAIN S : f[s] \in Subscription
  PROVE  f \in Seq(Subscription) /\ DOMAIN f = DOMAIN S
  <1>1. DOMAIN S = 1 .. Len(S) /\ Len(S) \in Nat
    BY LenProperties
  <1>2. f \in [1 .. Len(S) -> Subscription]
    BY <1>1
  <1> QED
    BY <1>1, <1>2, SeqDef

\* A subscription's index is a positive number, and its row has the type.
LEMMA SubscriptionIds ==
  ASSUME Typed
  PROVE  /\ Len(subs) \in Nat /\ DOMAIN subs = 1 .. Len(subs)
         /\ DOMAIN subs \subseteq Nat \ {0}
         /\ \A s \in DOMAIN subs : subs[s] \in Subscription
  <1>1. subs \in Seq(Subscription)
    BY DEF Typed, TypeOK
  <1>2. Len(subs) \in Nat /\ DOMAIN subs = 1 .. Len(subs)
    BY <1>1, LenProperties
  <1>3. \A s \in 1 .. Len(subs) : subs[s] \in Subscription
    BY <1>1, ElementOfSeq
  <1> QED
    BY <1>2, <1>3

\* A step that only gives transaction r another record.
LEMMA TypeRecord ==
  ASSUME Typed, NEW r \in Req, NEW v \in Transaction,
         v.sub \in {0} \cup DOMAIN subs, Shape(v, DOMAIN subs),
         req' = [req EXCEPT ![r] = v], UNCHANGED <<db, job>>
  PROVE  Typed'
  <1>1. /\ req' \in [Req -> Transaction]
        /\ \A q \in Req : req'[q].sub \in {0} \cup DOMAIN subs
        /\ \A q \in Req : Shape(req'[q], DOMAIN subs)
    BY DEF Typed, TypeOK
  <1> QED
    BY <1>1 DEF Typed, TypeOK, db

\* The steps of a transaction between its first statement and its commit.
LEMMA TypeStep ==
  ASSUME ConstantAssumption, Typed, NEW r \in Req,
         \/ RenewClose(r)
         \/ LoadGroup(r)
         \/ insertActiveSubscription(r)
         \/ placeTraineeInGroup(r)
         \/ MoveTrainee(r)
         \/ generateReceiptNumber(r)
         \/ PayWrite(r)
         \/ AssignLevel(r)
         \/ AssignNothing(r)
         \/ Rollback(r)
  PROVE  Typed'
  <1>0. /\ req[r] \in Transaction
        /\ req[r].sub \in {0} \cup DOMAIN subs
        /\ Shape(req[r], DOMAIN subs)
    BY DEF Typed, TypeOK
  <1>1. CASE RenewClose(r)
    <2> DEFINE v == [req[r] EXCEPT
                !.pc = "load", !.rows = {req[r].sub} \cap ActiveSubs(req[r].trainee)]
    <2>0. {req[r].sub} \cap ActiveSubs(req[r].trainee) \in SUBSET Nat
      BY <1>0 DEF Transaction
    <2>1. /\ v \in Transaction
          /\ v.sub = req[r].sub /\ v.op = req[r].op
          /\ v.trainee = req[r].trainee /\ v.group = req[r].group
          /\ v.plan = req[r].plan
      BY <1>0, <2>0 DEF Transaction, PCs
    <2>2. req' = [req EXCEPT ![r] = v] /\ UNCHANGED <<db, job>>
      BY <1>1 DEF RenewClose
    <2>3. v.pc = "load"
      BY <1>0 DEF Transaction
    <2>4. Shape(v, DOMAIN subs)
      <3> HIDE DEF v
      <3> QED
        BY <1>0, <1>1, <2>1, <2>3 DEF Shape, RenewClose
    <2> HIDE DEF v
    <2> QED
      BY <1>0, <2>1, <2>2, <2>4, TypeRecord
  <1>2. CASE LoadGroup(r)
    <2> DEFINE v == [req[r] EXCEPT
                !.pc = IF req[r].op = "assign" THEN "place" ELSE "insert",
                !.cap = groups[req[r].group].max]
    <2>0. groups[req[r].group].max \in Nat
      <3>1. req[r].group \in Group
        BY <1>0, <1>2 DEF LoadGroup, Shape
      <3> QED
        BY <3>1 DEF Typed, TypeOK, GroupRow
    <2>1. /\ v \in Transaction
          /\ v.sub = req[r].sub /\ v.op = req[r].op
          /\ v.trainee = req[r].trainee /\ v.group = req[r].group
          /\ v.plan = req[r].plan
      BY <1>0, <2>0 DEF Transaction, PCs
    <2>2. req' = [req EXCEPT ![r] = v] /\ UNCHANGED <<db, job>>
      BY <1>2 DEF LoadGroup
    <2>3. v.pc = IF req[r].op = "assign" THEN "place" ELSE "insert"
      BY <1>0 DEF Transaction
    <2>4. Shape(v, DOMAIN subs)
      <3> HIDE DEF v
      <3> QED
        BY <1>0, <1>2, <2>1, <2>3 DEF Shape, LoadGroup
    <2> HIDE DEF v
    <2> QED
      BY <1>0, <2>1, <2>2, <2>4, TypeRecord
  <1>3. CASE insertActiveSubscription(r)
    <2> DEFINE v == [req[r] EXCEPT
                !.pc = "place"]
    <2>1. /\ v \in Transaction
          /\ v.sub = req[r].sub /\ v.op = req[r].op
          /\ v.trainee = req[r].trainee /\ v.group = req[r].group
          /\ v.plan = req[r].plan
      BY <1>0 DEF Transaction, PCs
    <2>2. req' = [req EXCEPT ![r] = v] /\ UNCHANGED <<db, job>>
      BY <1>3 DEF insertActiveSubscription
    <2>3. v.pc = "place"
      BY <1>0 DEF Transaction
    <2>4. Shape(v, DOMAIN subs)
      <3> HIDE DEF v
      <3> QED
        BY <1>0, <1>3, <2>1, <2>3 DEF Shape, insertActiveSubscription
    <2> HIDE DEF v
    <2> QED
      BY <1>0, <2>1, <2>2, <2>4, TypeRecord
  <1>4. CASE placeTraineeInGroup(r)
    <2> DEFINE v == [req[r] EXCEPT
                !.pc = "move",
                !.dropped = SeatsOf(req[r].trainee) \ {req[r].group}]
    <2>1. /\ v \in Transaction
          /\ v.sub = req[r].sub /\ v.op = req[r].op
          /\ v.trainee = req[r].trainee /\ v.group = req[r].group
          /\ v.plan = req[r].plan
      BY <1>0 DEF Transaction, PCs, SeatsOf
    <2>2. req' = [req EXCEPT ![r] = v] /\ UNCHANGED <<db, job>>
      BY <1>4 DEF placeTraineeInGroup
    <2>3. v.pc = "move"
      BY <1>0 DEF Transaction
    <2>4. Shape(v, DOMAIN subs)
      <3> HIDE DEF v
      <3> QED
        BY <1>0, <1>4, <2>1, <2>3 DEF Shape, placeTraineeInGroup
    <2> HIDE DEF v
    <2> QED
      BY <1>0, <2>1, <2>2, <2>4, TypeRecord
  <1>5. CASE MoveTrainee(r)
    <2> DEFINE v == [req[r] EXCEPT
                !.pc = IF req[r].op = "assign" THEN "commit" ELSE "receipt",
                !.dropped = req[r].dropped \cap SeatsOf(req[r].trainee),
                !.fresh = req[r].group \notin SeatsOf(req[r].trainee)]
    <2>0. /\ v.pc \in PCs
          /\ req[r].dropped \cap SeatsOf(req[r].trainee) \in SUBSET Group
          /\ (req[r].group \notin SeatsOf(req[r].trainee)) \in BOOLEAN
      BY <1>0 DEF Transaction, PCs
    <2>1. /\ v \in Transaction
          /\ v.sub = req[r].sub /\ v.op = req[r].op
          /\ v.trainee = req[r].trainee /\ v.group = req[r].group
          /\ v.plan = req[r].plan
      BY <1>0, <2>0 DEF Transaction
    <2>2. req' = [req EXCEPT ![r] = v] /\ UNCHANGED <<db, job>>
      BY <1>5 DEF MoveTrainee
    <2>3. v.pc = IF req[r].op = "assign" THEN "commit" ELSE "receipt"
      BY <1>0 DEF Transaction
    <2>4. Shape(v, DOMAIN subs)
      <3> HIDE DEF v
      <3> QED
        BY <1>0, <1>5, <2>1, <2>3 DEF Shape, MoveTrainee
    <2> HIDE DEF v
    <2> QED
      BY <1>0, <2>1, <2>2, <2>4, TypeRecord
  <1>6. CASE generateReceiptNumber(r)
    <2> DEFINE v == [req[r] EXCEPT
                !.pc = "commit", !.seq = receiptSeq + 1]
    <2>0. receiptSeq + 1 \in Nat
      BY DEF Typed, TypeOK
    <2>1. /\ v \in Transaction
          /\ v.sub = req[r].sub /\ v.op = req[r].op
          /\ v.trainee = req[r].trainee /\ v.group = req[r].group
          /\ v.plan = req[r].plan
      BY <1>0, <2>0 DEF Transaction, PCs
    <2>2. req' = [req EXCEPT ![r] = v] /\ UNCHANGED <<db, job>>
      BY <1>6 DEF generateReceiptNumber
    <2>3. v.pc = "commit"
      BY <1>0 DEF Transaction
    <2>4. Shape(v, DOMAIN subs)
      <3> HIDE DEF v
      <3> QED
        BY <1>0, <1>6, <2>1, <2>3 DEF Shape, generateReceiptNumber
    <2> HIDE DEF v
    <2> QED
      BY <1>0, <2>1, <2>2, <2>4, TypeRecord
  <1>7. CASE PayWrite(r)
    <2> DEFINE v == [req[r] EXCEPT
                !.pc = "receipt", !.rows = {req[r].sub}]
    <2>1. /\ v \in Transaction
          /\ v.sub = req[r].sub /\ v.op = req[r].op
          /\ v.trainee = req[r].trainee /\ v.group = req[r].group
          /\ v.plan = req[r].plan
      BY <1>0 DEF Transaction, PCs
    <2>2. req' = [req EXCEPT ![r] = v] /\ UNCHANGED <<db, job>>
      BY <1>7 DEF PayWrite
    <2>3. v.pc = "receipt"
      BY <1>0 DEF Transaction
    <2>4. Shape(v, DOMAIN subs)
      <3> HIDE DEF v
      <3> QED
        BY <1>0, <1>7, <2>1, <2>3 DEF Shape, PayWrite
    <2> HIDE DEF v
    <2> QED
      BY <1>0, <2>1, <2>2, <2>4, TypeRecord
  <1>8. CASE AssignLevel(r)
    <2> DEFINE v == [req[r] EXCEPT
                !.pc = "load", !.rows = {req[r].sub}]
    <2>1. /\ v \in Transaction
          /\ v.sub = req[r].sub /\ v.op = req[r].op
          /\ v.trainee = req[r].trainee /\ v.group = req[r].group
          /\ v.plan = req[r].plan
      BY <1>0 DEF Transaction, PCs
    <2>2. req' = [req EXCEPT ![r] = v] /\ UNCHANGED <<db, job>>
      BY <1>8 DEF AssignLevel
    <2>3. v.pc = "load"
      BY <1>0 DEF Transaction
    <2>4. Shape(v, DOMAIN subs)
      <3> HIDE DEF v
      <3> QED
        BY <1>0, <1>8, <2>1, <2>3 DEF Shape, AssignLevel
    <2> HIDE DEF v
    <2> QED
      BY <1>0, <2>1, <2>2, <2>4, TypeRecord
  <1>9. CASE AssignNothing(r) \/ Rollback(r)
    <2>1. req' = [req EXCEPT ![r] = Idle] /\ UNCHANGED <<db, job>>
      BY <1>9 DEF AssignNothing, Rollback
    <2> QED
      BY <2>1, IdleType, TypeRecord
  <1> QED
    BY <1>1, <1>2, <1>3, <1>4, <1>5, <1>6, <1>7, <1>8, <1>9

\* The first statement of each kind of request.
LEMMA TypeStart ==
  ASSUME ConstantAssumption, Typed, NEW r \in Req, Start(r)
  PROVE  Typed'
  <1>1. ASSUME NEW t \in Trainee, NEW g \in Group, NEW p \in Plan,
               NEW a \in Amounts, EnrollStart(r, t, g, p, a)
        PROVE  Typed'
    <2> DEFINE v == [Idle EXCEPT
                !.op = "enroll", !.pc = "load", !.trainee = t, !.group = g,
                !.plan = p, !.amount = a, !.price = Price[p]]
    <2>0. a \in Nat /\ Price[p] \in Int
      BY DEF ConstantAssumption
    <2>1. v \in Transaction /\ v.sub = 0
      BY <2>0, IdleType DEF Transaction, PCs
    <2>2. Shape(v, DOMAIN subs)
      <3>1. /\ v.op = "enroll" /\ v.pc = "load"
            /\ v.trainee = t /\ v.group = g /\ v.plan = p
        BY DEF Idle
      <3> HIDE DEF v
      <3> QED
        BY <3>1 DEF Shape
    <2>3. req' = [req EXCEPT ![r] = v] /\ UNCHANGED <<db, job>>
      BY <1>1 DEF EnrollStart
    <2> HIDE DEF v
    <2> QED
      BY <2>1, <2>2, <2>3, TypeRecord
  <1>2. ASSUME NEW t \in Trainee, NEW g \in Group, NEW p \in Plan,
               NEW a \in Amounts, RenewStart(r, t, g, p, a)
        PROVE  Typed'
    <2>0. a \in Nat /\ Price[p] \in Int
      BY DEF ConstantAssumption
    <2>1. PICK s \in {0} \cup ActiveSubs(t) :
            req' = [req EXCEPT ![r] = [Idle EXCEPT
                     !.op = "renew", !.pc = "close", !.trainee = t,
                     !.group = g, !.plan = p, !.amount = a, !.sub = s,
                     !.price = Price[p]]]
      BY <1>2 DEF RenewStart
    <2>2. s \in Nat /\ s \in {0} \cup DOMAIN subs
      BY SubscriptionIds DEF ActiveSubs, SubsOf
    <2> DEFINE v == [Idle EXCEPT
                     !.op = "renew", !.pc = "close", !.trainee = t,
                     !.group = g, !.plan = p, !.amount = a, !.sub = s,
                     !.price = Price[p]]
    <2>3. v \in Transaction /\ v.sub = s
      BY <2>0, <2>2, IdleType DEF Transaction, PCs
    <2>4. Shape(v, DOMAIN subs)
      <3>1. /\ v.op = "renew" /\ v.pc = "close"
            /\ v.trainee = t /\ v.group = g /\ v.plan = p
        BY DEF Idle
      <3> HIDE DEF v
      <3> QED
        BY <3>1 DEF Shape
    <2>5. req' = [req EXCEPT ![r] = v] /\ UNCHANGED <<db, job>>
      BY <1>2, <2>1 DEF RenewStart
    <2> HIDE DEF v
    <2> QED
      BY <2>2, <2>3, <2>4, <2>5, TypeRecord
  <1>3. ASSUME NEW s \in DOMAIN subs, NEW a \in Amounts, PayStart(r, s, a)
        PROVE  Typed'
    <2> DEFINE v == [Idle EXCEPT
                 !.op = "pay", !.pc = "write", !.sub = s, !.amount = a,
                 !.trainee = subs[s].trainee, !.paid = subs[s].paid,
                 !.due = subs[s].due]
    <2>0. a \in Nat /\ s \in Nat /\ subs[s] \in Subscription
      BY SubscriptionIds DEF ConstantAssumption
    <2>1. /\ subs[s].trainee \in Trainee
          /\ subs[s].paid \in Int /\ subs[s].due \in Int
      BY <2>0 DEF Subscription
    <2>2. v \in Transaction /\ v.sub = s
      BY <2>0, <2>1, IdleType DEF Transaction, PCs
    <2>3. Shape(v, DOMAIN subs)
      <3>1. v.op = "pay" /\ v.pc = "write"
        BY DEF Idle
      <3> HIDE DEF v
      <3> QED
        BY <2>2, <3>1 DEF Shape
    <2>4. req' = [req EXCEPT ![r] = v] /\ UNCHANGED <<db, job>>
      BY <1>3 DEF PayStart
    <2> HIDE DEF v
    <2> QED
      BY <2>2, <2>3, <2>4, TypeRecord
  <1>4. ASSUME NEW t \in Trainee, NEW g \in Group, NEW b \in BOOLEAN,
               AssignStart(r, t, g, b)
        PROVE  Typed'
    <2>1. PICK s \in ActiveSubs(t) :
            req' = [req EXCEPT ![r] = [Idle EXCEPT
                     !.op = "assign", !.pc = IF b THEN "level" ELSE "load",
                     !.trainee = t, !.group = g, !.plan = subs[s].plan,
                     !.sub = s]]
      BY <1>4 DEF AssignStart
    <2>2. s \in DOMAIN subs /\ s \in Nat /\ subs[s] \in Subscription
      BY SubscriptionIds DEF ActiveSubs, SubsOf
    <2> DEFINE pc == IF b THEN "level" ELSE "load"
               v == [Idle EXCEPT
                     !.op = "assign", !.pc = pc,
                     !.trainee = t, !.group = g, !.plan = subs[s].plan,
                     !.sub = s]
    <2>3. subs[s].plan \in Plan /\ pc \in {"level", "load"}
      BY <2>2 DEF Subscription
    <2>4. req' = [req EXCEPT ![r] = v] /\ UNCHANGED <<db, job>>
      BY <1>4, <2>1 DEF AssignStart
    <2> HIDE DEF pc
    <2>5. v \in Transaction /\ v.sub = s
      BY <2>2, <2>3, IdleType DEF Transaction, PCs
    <2>6. Shape(v, DOMAIN subs)
      <3>1. /\ v.op = "assign" /\ v.pc = pc
            /\ v.trainee = t /\ v.group = g /\ v.plan = subs[s].plan
        BY DEF Idle
      <3> HIDE DEF v
      <3> QED
        BY <2>3, <3>1 DEF Shape
    <2> HIDE DEF v
    <2> QED
      BY <2>2, <2>4, <2>5, <2>6, TypeRecord
  <1> QED
    BY <1>1, <1>2, <1>3, <1>4 DEF Start

\* A step that changes rows, and ends at most one transaction.
LEMMA TypeRows ==
  ASSUME Typed,
         subs' \in Seq(Subscription), DOMAIN subs \subseteq DOMAIN subs',
         seats' \subseteq Group \X Trainee, groups' \in [Group -> GroupRow],
         receipts' \subseteq Receipt, ledger' \subseteq LedgerEntry,
         receiptSeq' \in Nat, job' \in Job,
         req' = req \/ \E r \in Req : req' = [req EXCEPT ![r] = Idle]
  PROVE  Typed'
  <1>1. /\ req' \in [Req -> Transaction]
        /\ \A q \in Req : req'[q] = req[q] \/ req'[q] = Idle
    BY IdleType DEF Typed, TypeOK
  <1>2. \A q \in Req : req'[q].sub \in {0} \cup DOMAIN subs'
    BY <1>1, IdleType DEF Typed, TypeOK
  <1>3. \A q \in Req : Shape(req[q], DOMAIN subs')
    BY DEF Typed, Shape
  <1>4. \A q \in Req : Shape(req'[q], DOMAIN subs')
    BY <1>1, <1>3, IdleType
  <1> QED
    BY <1>1, <1>2, <1>4 DEF Typed, TypeOK

LEMMA TypeBook ==
  ASSUME Typed, NEW r \in Req, NEW s \in Nat, BookReceipt(r, s)
  PROVE  receipts' \subseteq Receipt /\ ledger' \subseteq LedgerEntry /\ receiptSeq' \in Nat
  <1>1. req[r].seq \in Nat /\ req[r].amount \in Nat
    BY DEF Typed, TypeOK, Transaction
  <1> QED
    BY <1>1 DEF BookReceipt, Typed, TypeOK, Receipt, LedgerEntry

LEMMA TypeForgets ==
  ASSUME Typed, NEW gone, JobForgets(gone)
  PROVE  job' \in Job
  BY DEF Typed, TypeOK, JobForgets, Job

LEMMA TypeSeatsAfter ==
  ASSUME Typed, NEW r \in Req, req[r].op \in {"enroll", "renew", "assign"}
  PROVE  SeatsAfter(r) \subseteq Group \X Trainee
  BY DEF Typed, TypeOK, SeatsAfter, Shape

\* What a commit of enrollTrainee or renewSubscription leaves in subs.
LEMMA CommittedSubs ==
  ASSUME Typed, NEW r \in Req, CommitEnrollment(r)
  PROVE  /\ NewSubscription(r) \in Subscription
         /\ subs' \in Seq(Subscription)
         /\ DOMAIN subs' = DOMAIN subs \cup {Len(subs) + 1}
         /\ subs'[Len(subs) + 1] = NewSubscription(r)
         /\ \A s \in DOMAIN subs : subs'[s] = Closed(r)[s]
  <1>0. /\ req[r] \in Transaction
        /\ req[r].trainee \in Trainee /\ req[r].plan \in Plan
    BY DEF Typed, TypeOK, CommitEnrollment, Shape
  <1>1. /\ req[r].amount \in Int /\ req[r].price \in Int
        /\ req[r].price - req[r].amount \in Int
    BY <1>0 DEF Transaction
  <1>2. NewSubscription(r) \in Subscription
    BY <1>0, <1>1 DEF NewSubscription, Subscription, Lives
  <1>3. \A s \in DOMAIN subs : Closed(r)[s] \in Subscription
    BY SubscriptionIds DEF Closed, Subscription
  <1>4. Closed(r) = [s \in DOMAIN subs |-> Closed(r)[s]]
    BY DEF Closed
  <1>5. Closed(r) \in Seq(Subscription) /\ DOMAIN Closed(r) = DOMAIN subs
    BY <1>3, <1>4, RewriteSubs DEF Typed, TypeOK
  <1>6. Len(Closed(r)) = Len(subs)
    BY <1>5, LenProperties, SubscriptionIds
  <1>7. subs' = Append(Closed(r), NewSubscription(r))
    BY DEF CommitEnrollment
  <1>8. /\ subs' \in Seq(Subscription) /\ Len(subs') = Len(subs) + 1
        /\ \A i \in 1 .. Len(subs) : subs'[i] = Closed(r)[i]
        /\ subs'[Len(subs) + 1] = NewSubscription(r)
    BY <1>2, <1>5, <1>6, <1>7, AppendProperties
  <1>9. DOMAIN subs' = 1 .. Len(subs) + 1
    BY <1>8, LenProperties
  <1> QED
    BY <1>2, <1>8, <1>9, SubscriptionIds

\* A step that rewrites one subscription.
LEMMA OneRow ==
  ASSUME Typed, NEW s \in DOMAIN subs, NEW w \in Subscription,
         subs' = [subs EXCEPT ![s] = w]
  PROVE  /\ subs' \in Seq(Subscription) /\ DOMAIN subs' = DOMAIN subs
         /\ subs'[s] = w
         /\ \A u \in DOMAIN subs : u # s => subs'[u] = subs[u]
  <1>1. /\ DOMAIN subs' = DOMAIN subs /\ subs'[s] = w
        /\ \A u \in DOMAIN subs : u # s => subs'[u] = subs[u]
    BY SubscriptionIds
  <1>2. subs' = [u \in DOMAIN subs |-> subs'[u]]
    OBVIOUS
  <1>3. \A u \in DOMAIN subs : subs'[u] \in Subscription
    BY <1>1, SubscriptionIds
  <1> QED
    BY <1>1, <1>2, <1>3, RewriteSubs DEF Typed, TypeOK

LEMMA PaidSubs ==
  ASSUME Typed, NEW r \in Req, CommitPayment(r)
  PROVE  /\ req[r].sub \in DOMAIN subs
         /\ subs' \in Seq(Subscription) /\ DOMAIN subs' = DOMAIN subs
         /\ \A s \in DOMAIN subs :
              /\ s # req[r].sub => subs'[s] = subs[s]
              /\ subs'[s].trainee = subs[s].trainee
              /\ subs'[s].status = subs[s].status
              /\ subs'[s].price = subs[s].price
         /\ subs'[req[r].sub].paid = req[r].paid + req[r].amount
         /\ subs'[req[r].sub].due = req[r].due - req[r].amount
  <1>0. req[r] \in Transaction /\ req[r].sub \in DOMAIN subs
    BY DEF Typed, TypeOK, CommitPayment, Shape
  <1> DEFINE w == [subs[req[r].sub] EXCEPT !.paid = req[r].paid + req[r].amount,
                                           !.due = req[r].due - req[r].amount]
  <1>1. /\ req[r].paid + req[r].amount \in Int
        /\ req[r].due - req[r].amount \in Int
    BY <1>0 DEF Transaction
  <1>2. /\ w \in Subscription /\ w.trainee = subs[req[r].sub].trainee
        /\ w.status = subs[req[r].sub].status /\ w.price = subs[req[r].sub].price
        /\ w.paid = req[r].paid + req[r].amount
        /\ w.due = req[r].due - req[r].amount
    BY <1>0, <1>1, SubscriptionIds DEF Subscription
  <1>3. subs' = [subs EXCEPT ![req[r].sub] = w]
    BY DEF CommitPayment
  <1> HIDE DEF w
  <1>4. /\ subs' \in Seq(Subscription) /\ DOMAIN subs' = DOMAIN subs
        /\ subs'[req[r].sub] = w
        /\ \A s \in DOMAIN subs : s # req[r].sub => subs'[s] = subs[s]
    BY <1>0, <1>2, <1>3, OneRow
  <1> QED
    BY <1>0, <1>2, <1>4

\* What the clock, attendance and the expiry job never touch in a row.
SameRow(u) ==
  /\ subs'[u].trainee = subs[u].trainee
  /\ subs'[u].price = subs[u].price
  /\ subs'[u].paid = subs[u].paid
  /\ subs'[u].due = subs[u].due

LEMMA TimeSubs ==
  ASSUME Typed, NEW s \in DOMAIN subs, TimePasses(s)
  PROVE  /\ subs' \in Seq(Subscription) /\ DOMAIN subs' = DOMAIN subs
         /\ \A u \in DOMAIN subs : SameRow(u) /\ subs'[u].status = subs[u].status
  <1> DEFINE l == IF subs[s].life = "running" THEN "ended" ELSE "lapsed"
             w == [subs[s] EXCEPT !.life = l]
  <1>1. l \in Lives
    BY DEF Lives
  <1>2. subs' = [subs EXCEPT ![s] = w]
    BY DEF TimePasses
  <1> HIDE DEF l
  <1>3. /\ w \in Subscription /\ w.trainee = subs[s].trainee
        /\ w.price = subs[s].price /\ w.paid = subs[s].paid
        /\ w.due = subs[s].due /\ w.status = subs[s].status
    BY <1>1, SubscriptionIds DEF Subscription
  <1> HIDE DEF w
  <1> QED
    BY <1>2, <1>3, OneRow DEF SameRow

LEMMA ExpiresSubs ==
  ASSUME Typed, NEW s \in DOMAIN subs, submitAttendanceExpires(s)
  PROVE  /\ subs' \in Seq(Subscription) /\ DOMAIN subs' = DOMAIN subs
         /\ \A u \in DOMAIN subs :
              SameRow(u) /\ (subs'[u].status = "ACTIVE" => subs[u].status = "ACTIVE")
  <1> DEFINE l == IF subs[s].life = "running" THEN "ended" ELSE subs[s].life
             w == [subs[s] EXCEPT !.status = "EXPIRED", !.life = l]
  <1>1. l \in Lives
    BY SubscriptionIds DEF Lives, Subscription
  <1>2. subs' = [subs EXCEPT ![s] = w]
    BY DEF submitAttendanceExpires
  <1> HIDE DEF l
  <1>3. /\ w \in Subscription /\ w.trainee = subs[s].trainee
        /\ w.price = subs[s].price /\ w.paid = subs[s].paid
        /\ w.due = subs[s].due /\ w.status = "EXPIRED"
    BY <1>1, SubscriptionIds DEF Subscription
  <1> HIDE DEF w
  <1> QED
    BY <1>2, <1>3, OneRow DEF SameRow

LEMMA RevivesSubs ==
  ASSUME Typed, NEW s \in DOMAIN subs, submitAttendanceRevives(s)
  PROVE  /\ subs' \in Seq(Subscription) /\ DOMAIN subs' = DOMAIN subs
         /\ \A u \in DOMAIN subs :
              SameRow(u) /\ (u # s => subs'[u].status = subs[u].status)
  <1> DEFINE w == [subs[s] EXCEPT !.status = "ACTIVE", !.life = "running"]
  <1>1. subs' = [subs EXCEPT ![s] = w]
    BY DEF submitAttendanceRevives
  <1>2. /\ w \in Subscription /\ w.trainee = subs[s].trainee
        /\ w.price = subs[s].price /\ w.paid = subs[s].paid
        /\ w.due = subs[s].due
    BY SubscriptionIds DEF Subscription, Lives
  <1> HIDE DEF w
  <1> QED
    BY <1>1, <1>2, OneRow DEF SameRow

LEMMA RevivedRow ==
  ASSUME Typed, NEW s \in DOMAIN subs, submitAttendanceRevives(s)
  PROVE  subs'[s].status = "ACTIVE"
  <1> DEFINE w == [subs[s] EXCEPT !.status = "ACTIVE", !.life = "running"]
  <1>1. subs' = [subs EXCEPT ![s] = w]
    BY DEF submitAttendanceRevives
  <1>2. w \in Subscription /\ w.status = "ACTIVE"
    BY SubscriptionIds DEF Subscription, Lives
  <1> HIDE DEF w
  <1> QED
    BY <1>1, <1>2, OneRow

LEMMA JobSubs ==
  ASSUME Typed, runSubscriptionExpiryJob
  PROVE  /\ subs' \in Seq(Subscription) /\ DOMAIN subs' = DOMAIN subs
         /\ \A u \in DOMAIN subs :
              SameRow(u) /\ (subs'[u].status = "ACTIVE" => subs[u].status = "ACTIVE")
  <1>1. subs' = [s \in DOMAIN subs |->
                  IF s \in Ended THEN [subs[s] EXCEPT !.status = "EXPIRED"] ELSE subs[s]]
    BY DEF runSubscriptionExpiryJob
  <1>2. \A s \in DOMAIN subs :
          /\ [subs[s] EXCEPT !.status = "EXPIRED"] \in Subscription
          /\ [subs[s] EXCEPT !.status = "EXPIRED"].trainee = subs[s].trainee
          /\ [subs[s] EXCEPT !.status = "EXPIRED"].price = subs[s].price
          /\ [subs[s] EXCEPT !.status = "EXPIRED"].paid = subs[s].paid
          /\ [subs[s] EXCEPT !.status = "EXPIRED"].due = subs[s].due
          /\ [subs[s] EXCEPT !.status = "EXPIRED"].status = "EXPIRED"
    BY SubscriptionIds DEF Subscription
  <1>3. \A s \in DOMAIN subs : subs'[s] \in Subscription
    BY <1>1, <1>2, SubscriptionIds
  <1>4. subs' = [s \in DOMAIN subs |-> subs'[s]]
    BY <1>1
  <1>5. subs' \in Seq(Subscription) /\ DOMAIN subs' = DOMAIN subs
    BY <1>3, <1>4, RewriteSubs DEF Typed, TypeOK
  <1>6. ASSUME NEW u \in DOMAIN subs
        PROVE  SameRow(u) /\ (subs'[u].status = "ACTIVE" => subs[u].status = "ACTIVE")
    <2>1. subs'[u] = subs[u] \/ subs'[u] = [subs[u] EXCEPT !.status = "EXPIRED"]
      BY <1>1
    <2> QED
      BY <1>2, <2>1 DEF SameRow
  <1> QED
    BY <1>5, <1>6

LEMMA TypeInit ==
  ASSUME ConstantAssumption, Init
  PROVE  Typed
  <1>1. subs \in Seq(Subscription) /\ DOMAIN subs = {}
    BY EmptySeq DEF Init
  <1>2. groups \in [Group -> GroupRow]
    BY DEF Init, ConstantAssumption, GroupRow
  <1>3. req \in [Req -> Transaction] /\ \A r \in Req : req[r] = Idle
    BY IdleType DEF Init
  <1>4. job \in Job
    BY DEF Init, Job, JobIdle
  <1>5. \A r \in Req : req[r].sub = 0 /\ Shape(req[r], DOMAIN subs)
    BY <1>3, IdleType
  <1> QED
    BY <1>1, <1>2, <1>3, <1>4, <1>5 DEF Init, Typed, TypeOK

LEMMA TypeCommit ==
  ASSUME Typed, NEW r \in Req, Commit(r)
  PROVE  Typed'
  <1>0. /\ req' = [req EXCEPT ![r] = Idle]
        /\ groups' = groups
        /\ req[r].sub \in Nat
    BY DEF Commit, CommitEnrollment, CommitPayment, CommitAssignment,
           Typed, TypeOK, Transaction
  <1>1. CASE CommitEnrollment(r)
    <2>1. subs' \in Seq(Subscription) /\ DOMAIN subs \subseteq DOMAIN subs'
      BY <1>1, CommittedSubs
    <2>2. seats' \subseteq Group \X Trainee
      BY <1>1, TypeSeatsAfter DEF CommitEnrollment
    <2>3. Len(subs) + 1 \in Nat /\ BookReceipt(r, Len(subs) + 1)
      BY <1>1, SubscriptionIds DEF CommitEnrollment
    <2>4. receipts' \subseteq Receipt /\ ledger' \subseteq LedgerEntry /\ receiptSeq' \in Nat
      BY <2>3, TypeBook
    <2>5. job' \in Job
      BY <1>1, TypeForgets DEF CommitEnrollment
    <2> QED
      BY <1>0, <2>1, <2>2, <2>4, <2>5, TypeRows DEF Typed, TypeOK
  <1>2. CASE CommitPayment(r)
    <2>1. subs' \in Seq(Subscription) /\ DOMAIN subs \subseteq DOMAIN subs'
      BY <1>2, PaidSubs
    <2>2. BookReceipt(r, req[r].sub) /\ UNCHANGED <<seats, job>>
      BY <1>2 DEF CommitPayment
    <2>3. receipts' \subseteq Receipt /\ ledger' \subseteq LedgerEntry /\ receiptSeq' \in Nat
      BY <1>0, <2>2, TypeBook
    <2> QED
      BY <1>0, <2>1, <2>2, <2>3, TypeRows DEF Typed, TypeOK
  <1>3. CASE CommitAssignment(r)
    <2>1. seats' \subseteq Group \X Trainee
      BY <1>3, TypeSeatsAfter DEF CommitAssignment
    <2>2. job' \in Job
      BY <1>3, TypeForgets DEF CommitAssignment
    <2>3. UNCHANGED <<subs, groups, receipts, ledger, receiptSeq>>
      BY <1>3 DEF CommitAssignment
    <2> QED
      BY <1>0, <2>1, <2>2, <2>3, TypeRows DEF Typed, TypeOK
  <1> QED
    BY <1>1, <1>2, <1>3 DEF Commit

LEMMA TypeStaff ==
  ASSUME ConstantAssumption, Typed, Staff
  PROVE  Typed'
  <1>1. ASSUME NEW g \in Group, NEW t \in Trainee, removeTraineeFromGroup(g, t)
        PROVE  Typed'
    <2>1. seats' \subseteq Group \X Trainee
      BY <1>1 DEF removeTraineeFromGroup, Typed, TypeOK
    <2>2. job' \in Job
      BY <1>1, TypeForgets DEF removeTraineeFromGroup
    <2>3. UNCHANGED <<subs, groups, receipts, ledger, receiptSeq, req>>
      BY <1>1 DEF removeTraineeFromGroup
    <2> QED
      BY <2>1, <2>2, <2>3, TypeRows DEF Typed, TypeOK
  <1>2. ASSUME NEW g \in Group, NEW max \in Capacities, NEW p \in Plan,
               NEW b \in BOOLEAN, updateGroup(g, max, p, b)
        PROVE  Typed'
    <2>1. [max |-> max, plan |-> p, active |-> b] \in GroupRow
      BY DEF ConstantAssumption, GroupRow
    <2>2. groups' \in [Group -> GroupRow]
      BY <1>2, <2>1 DEF updateGroup, Typed, TypeOK
    <2>3. UNCHANGED <<subs, seats, receipts, ledger, receiptSeq, req, job>>
      BY <1>2 DEF updateGroup
    <2> QED
      BY <2>2, <2>3, TypeRows DEF Typed, TypeOK
  <1>3. ASSUME NEW s \in DOMAIN subs,
               submitAttendanceExpires(s) \/ submitAttendanceRevives(s)
        PROVE  Typed'
    <2>1. subs' \in Seq(Subscription) /\ DOMAIN subs' = DOMAIN subs
      BY <1>3, ExpiresSubs, RevivesSubs
    <2>2. UNCHANGED <<seats, groups, receipts, ledger, receiptSeq, req, job>>
      BY <1>3 DEF submitAttendanceExpires, submitAttendanceRevives
    <2> QED
      BY <2>1, <2>2, TypeRows DEF Typed, TypeOK
  <1> QED
    BY <1>1, <1>2, <1>3 DEF Staff

LEMMA TypeTimeAndJob ==
  ASSUME Typed, ExpiryJob \/ \E s \in DOMAIN subs : TimePasses(s)
  PROVE  Typed'
  <1>1. CASE runSubscriptionExpiryJob
    <2>1. subs' \in Seq(Subscription) /\ DOMAIN subs' = DOMAIN subs
      BY <1>1, JobSubs
    <2>2. UNCHANGED <<seats, groups, receipts, ledger, receiptSeq, req, job>>
      BY <1>1 DEF runSubscriptionExpiryJob
    <2> QED
      BY <2>1, <2>2, TypeRows DEF Typed, TypeOK
  <1>2. CASE ReleaseRead \/ ReleaseDelete \/ ReleaseRollback
    <2>1. LapsedSeats \subseteq Group \X Trainee /\ job.lapsed \subseteq Group \X Trainee
      BY DEF LapsedSeats, Typed, TypeOK, Job
    <2>2. job' \in Job
      BY <1>2, <2>1 DEF ReleaseRead, ReleaseDelete, ReleaseRollback, Job, JobIdle
    <2>3. UNCHANGED <<db, req>>
      BY <1>2 DEF ReleaseRead, ReleaseDelete, ReleaseRollback
    <2> QED
      BY <2>2, <2>3, TypeRows DEF Typed, TypeOK, db
  <1>3. CASE ReleaseCommit
    <2>1. seats' \subseteq Group \X Trainee /\ job' \in Job
      BY <1>3 DEF ReleaseCommit, Typed, TypeOK, Job, JobIdle
    <2>2. UNCHANGED <<subs, groups, receipts, ledger, receiptSeq, req>>
      BY <1>3 DEF ReleaseCommit
    <2> QED
      BY <2>1, <2>2, TypeRows DEF Typed, TypeOK
  <1>4. ASSUME NEW s \in DOMAIN subs, TimePasses(s)
        PROVE  Typed'
    <2>1. subs' \in Seq(Subscription) /\ DOMAIN subs' = DOMAIN subs
      BY <1>4, TimeSubs
    <2>2. UNCHANGED <<seats, groups, receipts, ledger, receiptSeq, req, job>>
      BY <1>4 DEF TimePasses
    <2> QED
      BY <2>1, <2>2, TypeRows DEF Typed, TypeOK
  <1> QED
    BY <1>1, <1>2, <1>3, <1>4 DEF ExpiryJob

LEMMA TypeNext ==
  ASSUME ConstantAssumption, Typed, [Next]_vars
  PROVE  Typed'
  <1>1. ASSUME NEW r \in Req, Start(r) \/ Continue(r) \/ Rollback(r)
        PROVE  Typed'
    BY <1>1, TypeStart, TypeStep, TypeCommit DEF Continue
  <1>2. CASE UNCHANGED vars
    BY <1>2, TypeRows DEF vars, Typed, TypeOK
  <1> QED
    BY <1>1, <1>2, TypeStaff, TypeTimeAndJob DEF Next

\* Every variable keeps its type and no transaction points at a subscription
\* that does not exist, in every reachable state.
THEOREM TypeCorrect == Spec => []TypeOK
  <1>1. Init => Typed
    BY ConstantAssumption, TypeInit
  <1>2. Typed /\ [Next]_vars => Typed'
    BY ConstantAssumption, TypeNext
  <1>3. Typed => TypeOK
    BY DEF Typed
  <1> QED
    BY <1>1, <1>2, <1>3, PTL DEF Spec

-----------------------------------------------------------------------------
(* What each class of steps does to the transactions *)

LEMMA StartFrame ==
  ASSUME Typed, NEW r \in Req, Start(r)
  PROVE  /\ UNCHANGED db
         /\ \A q \in Req \ {r} : req'[q] = req[q]
         /\ req'[r].seq = 0
         /\ req'[r].pc \in {"load", "close", "write", "level"}
         /\ req'[r].op = "pay" =>
              /\ req'[r].sub \in DOMAIN subs
              /\ req'[r].amount <= req'[r].due
              /\ req'[r].paid = subs[req'[r].sub].paid
              /\ req'[r].due = subs[req'[r].sub].due
  <1>0. req \in [Req -> Transaction]
    BY DEF Typed, TypeOK
  <1>1. ASSUME NEW t \in Trainee, NEW g \in Group, NEW p \in Plan,
               NEW a \in Amounts, EnrollStart(r, t, g, p, a)
        PROVE  /\ UNCHANGED db
               /\ \A q \in Req \ {r} : req'[q] = req[q]
               /\ req'[r].seq = 0 /\ req'[r].pc = "load" /\ req'[r].op = "enroll"
    BY <1>0, <1>1 DEF EnrollStart, Idle
  <1>2. ASSUME NEW t \in Trainee, NEW g \in Group, NEW p \in Plan,
               NEW a \in Amounts, RenewStart(r, t, g, p, a)
        PROVE  /\ UNCHANGED db
               /\ \A q \in Req \ {r} : req'[q] = req[q]
               /\ req'[r].seq = 0 /\ req'[r].pc = "close" /\ req'[r].op = "renew"
    BY <1>0, <1>2 DEF RenewStart, Idle
  <1>3. ASSUME NEW s \in DOMAIN subs, NEW a \in Amounts, PayStart(r, s, a)
        PROVE  /\ UNCHANGED db
               /\ \A q \in Req \ {r} : req'[q] = req[q]
               /\ req'[r].seq = 0 /\ req'[r].pc = "write" /\ req'[r].op = "pay"
               /\ req'[r].sub = s /\ req'[r].amount = a /\ a <= subs[s].due
               /\ req'[r].paid = subs[s].paid /\ req'[r].due = subs[s].due
    BY <1>0, <1>3 DEF PayStart, Idle
  <1>4. ASSUME NEW t \in Trainee, NEW g \in Group, NEW b \in BOOLEAN,
               AssignStart(r, t, g, b)
        PROVE  /\ UNCHANGED db
               /\ \A q \in Req \ {r} : req'[q] = req[q]
               /\ req'[r].seq = 0 /\ req'[r].pc \in {"level", "load"}
               /\ req'[r].op = "assign"
    BY <1>0, <1>4 DEF AssignStart, Idle
  <1> QED
    BY <1>1, <1>2, <1>3, <1>4 DEF Start

LEMMA EndFrame ==
  ASSUME Typed, NEW r \in Req, Commit(r) \/ Rollback(r) \/ AssignNothing(r)
  PROVE  req'[r] = Idle /\ \A q \in Req \ {r} : req'[q] = req[q]
  BY DEF Typed, TypeOK, Commit, CommitEnrollment, CommitPayment,
         CommitAssignment, Rollback, AssignNothing

\* The statements between the first one and the commit.
Statement(r) ==
  \/ RenewClose(r)
  \/ LoadGroup(r)
  \/ insertActiveSubscription(r)
  \/ placeTraineeInGroup(r)
  \/ MoveTrainee(r)
  \/ generateReceiptNumber(r)
  \/ PayWrite(r)
  \/ AssignLevel(r)

LEMMA StatementFrame ==
  ASSUME Typed, NEW r \in Req, Statement(r)
  PROVE  /\ UNCHANGED db
         /\ \A q \in Req \ {r} : req'[q] = req[q]
         /\ req'[r].op = req[r].op /\ req'[r].trainee = req[r].trainee
         /\ req'[r].sub = req[r].sub /\ req'[r].amount = req[r].amount
         /\ req'[r].paid = req[r].paid /\ req'[r].due = req[r].due
         /\ \/ generateReceiptNumber(r)
            \/ /\ req'[r].seq = req[r].seq
               /\ req'[r].pc = "commit" => req[r].op = "assign"
         /\ Inserted(r)' =>
              /\ Inserted(r) \/ insertActiveSubscription(r)
              /\ req'[r].rows = req[r].rows
  <1>0. req[r] \in Transaction /\ Shape(req[r], DOMAIN subs)
    BY DEF Typed, TypeOK
  <1>1. UNCHANGED db /\ \A q \in Req \ {r} : req'[q] = req[q]
    BY DEF Typed, TypeOK, Statement, RenewClose, LoadGroup,
           insertActiveSubscription, placeTraineeInGroup, MoveTrainee,
           generateReceiptNumber, PayWrite, AssignLevel
  <1>2. /\ req'[r].op = req[r].op /\ req'[r].trainee = req[r].trainee
        /\ req'[r].sub = req[r].sub /\ req'[r].amount = req[r].amount
        /\ req'[r].paid = req[r].paid /\ req'[r].due = req[r].due
    BY <1>0 DEF Typed, TypeOK, Transaction, Statement, RenewClose, LoadGroup,
           insertActiveSubscription, placeTraineeInGroup, MoveTrainee,
           generateReceiptNumber, PayWrite, AssignLevel
  <1>3. generateReceiptNumber(r) \/ req'[r].seq = req[r].seq
    BY <1>0 DEF Typed, TypeOK, Transaction, Statement, RenewClose, LoadGroup,
           insertActiveSubscription, placeTraineeInGroup, MoveTrainee,
           PayWrite, AssignLevel
  <1>4. \/ req[r].pc \in {"close", "level"} /\ req'[r].pc = "load"
        \/ req[r].pc = "load" /\ req[r].op = "assign" /\ req'[r].pc = "place"
        \/ req[r].pc = "load" /\ req'[r].pc = "insert"
        \/ req[r].pc = "insert" /\ req'[r].pc = "place" /\ insertActiveSubscription(r)
        \/ req[r].pc = "place" /\ req'[r].pc = "move"
        \/ req[r].pc = "move" /\ req[r].op = "assign" /\ req'[r].pc = "commit"
        \/ req[r].pc = "move" /\ req'[r].pc = "receipt"
        \/ req[r].pc = "receipt" /\ req'[r].pc = "commit" /\ generateReceiptNumber(r)
        \/ req[r].pc = "write" /\ req'[r].pc = "receipt"
    BY <1>0 DEF Typed, TypeOK, Transaction, Statement, RenewClose, LoadGroup,
           insertActiveSubscription, placeTraineeInGroup, MoveTrainee,
           generateReceiptNumber, PayWrite, AssignLevel
  <1>5. req'[r].rows = req[r].rows \/ req[r].pc \in {"close", "level", "write"}
    BY <1>0 DEF Typed, TypeOK, Transaction, Statement, RenewClose, LoadGroup,
           insertActiveSubscription, placeTraineeInGroup, MoveTrainee,
           generateReceiptNumber, PayWrite, AssignLevel
  <1>6. generateReceiptNumber(r) \/ (req'[r].pc = "commit" => req[r].op = "assign")
    BY <1>4
  <1>7. Inserted(r)' => /\ Inserted(r) \/ insertActiveSubscription(r)
                       /\ req'[r].rows = req[r].rows
    BY <1>0, <1>2, <1>4, <1>5 DEF Inserted, Shape
  <1> QED
    BY <1>1, <1>2, <1>3, <1>6, <1>7

LEMMA ClosedRow ==
  ASSUME Typed, NEW r \in Req, NEW s \in DOMAIN subs
  PROVE  /\ Closed(r)[s].trainee = subs[s].trainee
         /\ Closed(r)[s].price = subs[s].price
         /\ Closed(r)[s].paid = subs[s].paid
         /\ Closed(r)[s].due = subs[s].due
         /\ Closed(r)[s].status = "ACTIVE" =>
              s \notin req[r].rows /\ subs[s].status = "ACTIVE"
  <1>1. CASE s \in req[r].rows
    <2>1. Closed(r)[s] = [subs[s] EXCEPT !.status = "EXPIRED"]
      BY <1>1 DEF Closed
    <2> QED
      BY <1>1, <2>1, SubscriptionIds DEF Subscription
  <1>2. CASE s \notin req[r].rows
    BY <1>2 DEF Closed
  <1> QED
    BY <1>1, <1>2

\* Staff other than a mark corrected back, the clock and the job: no
\* transaction and no balance changes, and no row becomes ACTIVE.
Outside ==
  /\ UNCHANGED <<receipts, ledger, receiptSeq, req>>
  /\ DOMAIN subs' = DOMAIN subs
  /\ \A u \in DOMAIN subs :
       SameRow(u) /\ (subs'[u].status = "ACTIVE" => subs[u].status = "ACTIVE")

\* A transaction that ends without having written a subscription.
EndsUnbooked(r) == CommitAssignment(r) \/ Rollback(r) \/ AssignNothing(r)

\* The classes of steps that the invariants below are preserved by.
LEMMA StepClasses ==
  ASSUME Typed, [Next]_vars
  PROVE  \/ \E r \in Req : \/ Start(r)
                           \/ Statement(r)
                           \/ CommitEnrollment(r)
                           \/ CommitPayment(r)
                           \/ EndsUnbooked(r)
         \/ \E s \in DOMAIN subs : submitAttendanceRevives(s)
         \/ Outside
  <1>1. ASSUME NEW s \in DOMAIN subs, TimePasses(s)
        PROVE  Outside
    <2>1. UNCHANGED <<receipts, ledger, receiptSeq, req>>
      BY <1>1 DEF TimePasses
    <2> QED
      BY <1>1, <2>1, TimeSubs DEF Outside
  <1>2. ASSUME NEW s \in DOMAIN subs, submitAttendanceExpires(s)
        PROVE  Outside
    <2>1. UNCHANGED <<receipts, ledger, receiptSeq, req>>
      BY <1>2 DEF submitAttendanceExpires
    <2> QED
      BY <1>2, <2>1, ExpiresSubs DEF Outside
  <1>3. CASE runSubscriptionExpiryJob
    <2>1. UNCHANGED <<receipts, ledger, receiptSeq, req>>
      BY <1>3 DEF runSubscriptionExpiryJob
    <2> QED
      BY <1>3, <2>1, JobSubs DEF Outside
  <1>4. CASE \/ \E g \in Group, t \in Trainee : removeTraineeFromGroup(g, t)
             \/ \E g \in Group, max \in Capacities, p \in Plan, b \in BOOLEAN :
                  updateGroup(g, max, p, b)
             \/ ReleaseRead \/ ReleaseDelete \/ ReleaseCommit \/ ReleaseRollback
             \/ UNCHANGED vars
    <2>1. UNCHANGED <<subs, receipts, ledger, receiptSeq, req>>
      BY <1>4 DEF removeTraineeFromGroup, updateGroup, ReleaseRead,
                  ReleaseDelete, ReleaseCommit, ReleaseRollback, db, vars
    <2> QED
      BY <2>1 DEF Outside, SameRow
  <1> QED
    BY <1>1, <1>2, <1>3, <1>4
       DEF Next, Staff, ExpiryJob, Continue, Statement, Commit, EndsUnbooked

-----------------------------------------------------------------------------
(* One ACTIVE subscription per trainee *)

\* The index entries that are not committed yet: a transaction that inserted
\* for a trainee has closed that trainee's ACTIVE rows, and is the only one.
Pending ==
  /\ \A r \in Req, s \in DOMAIN subs :
       /\ Inserted(r)
       /\ subs[s].trainee = req[r].trainee
       /\ subs[s].status = "ACTIVE"
       => s \in req[r].rows
  /\ \A r, q \in Req :
       Inserted(r) /\ Inserted(q) /\ req[r].trainee = req[q].trainee => r = q

OneActiveInv == OneActivePerTrainee /\ Pending

\* Steps that make no row ACTIVE and no transaction Inserted.
LEMMA OneActiveKept ==
  ASSUME OneActiveInv,
         DOMAIN subs' = DOMAIN subs,
         \A s \in DOMAIN subs :
            /\ subs'[s].trainee = subs[s].trainee
            /\ subs'[s].status = "ACTIVE" => subs[s].status = "ACTIVE",
         \A q \in Req : Inserted(q)' =>
            /\ Inserted(q)
            /\ req'[q].trainee = req[q].trainee
            /\ req'[q].rows = req[q].rows
  PROVE  OneActiveInv'
  <1>1. OneActivePerTrainee'
    BY DEF OneActiveInv, OneActivePerTrainee
  <1>2. Pending'
    BY DEF OneActiveInv, Pending
  <1> QED
    BY <1>1, <1>2 DEF OneActiveInv

LEMMA OneActiveInsert ==
  ASSUME Typed, OneActiveInv, NEW r \in Req, insertActiveSubscription(r)
  PROVE  OneActiveInv'
  <1>0. /\ UNCHANGED subs
        /\ \A q \in Req \ {r} : req'[q] = req[q]
        /\ req'[r].trainee = req[r].trainee
        /\ Inserted(r)' => req'[r].rows = req[r].rows
    BY StatementFrame DEF Statement, db
  <1>1. OneActivePerTrainee'
    BY <1>0 DEF OneActiveInv, OneActivePerTrainee
  <1>2. \A q \in Req \ {r} : Inserted(q)' => Inserted(q) /\ req[q].trainee # req[r].trainee
    BY <1>0 DEF insertActiveSubscription, Inserted, Others
  <1>3. \A s \in DOMAIN subs :
          subs[s].trainee = req[r].trainee /\ subs[s].status = "ACTIVE" => s \in req[r].rows
    BY DEF insertActiveSubscription, ActiveSubs, SubsOf
  <1>4. Pending'
    BY <1>0, <1>2, <1>3 DEF OneActiveInv, Pending
  <1> QED
    BY <1>1, <1>4 DEF OneActiveInv

LEMMA OneActiveCommit ==
  ASSUME Typed, OneActiveInv, NEW r \in Req, CommitEnrollment(r)
  PROVE  OneActiveInv'
  <1> DEFINE n == Len(subs) + 1
             t == req[r].trainee
  <1>0. /\ Inserted(r)
        /\ ~Inserted(r)'
        /\ \A q \in Req \ {r} : req'[q] = req[q]
    BY EndFrame, IdleType DEF CommitEnrollment, Commit, Inserted
  <1>1. /\ DOMAIN subs' = DOMAIN subs \cup {n}
        /\ subs'[n].trainee = t
    <2>1. NewSubscription(r).trainee = t
      BY DEF NewSubscription
    <2> QED
      BY <2>1, CommittedSubs
  <1>2. \A s \in DOMAIN subs :
          /\ subs'[s].trainee = subs[s].trainee
          /\ subs'[s].status = "ACTIVE" => subs[s].status = "ACTIVE" /\ subs[s].trainee # t
    BY <1>0, CommittedSubs, ClosedRow DEF OneActiveInv, Pending
  <1> HIDE DEF n, t
  <1>3. OneActivePerTrainee'
    BY <1>1, <1>2 DEF OneActiveInv, OneActivePerTrainee
  <1>4. \A q \in Req : Inserted(q)' =>
          q # r /\ Inserted(q) /\ req'[q] = req[q] /\ req[q].trainee # t
    BY <1>0 DEF OneActiveInv, Pending, Inserted, t
  <1>5. Pending'
    BY <1>1, <1>2, <1>4 DEF OneActiveInv, Pending
  <1> QED
    BY <1>3, <1>5 DEF OneActiveInv

LEMMA OneActiveRevives ==
  ASSUME Typed, OneActiveInv, NEW s \in DOMAIN subs, submitAttendanceRevives(s)
  PROVE  OneActiveInv'
  <1>1. /\ UNCHANGED req
        /\ \A u \in DOMAIN subs : ~(subs[u].trainee = subs[s].trainee /\ subs[u].status = "ACTIVE")
        /\ \A q \in Req : Inserted(q) => req[q].trainee # subs[s].trainee
    BY DEF submitAttendanceRevives, ActiveSubs, SubsOf
  <1>2. /\ DOMAIN subs' = DOMAIN subs
        /\ \A u \in DOMAIN subs : /\ subs'[u].trainee = subs[u].trainee
                                  /\ u # s => subs'[u].status = subs[u].status
    BY RevivesSubs DEF SameRow
  <1>3. OneActivePerTrainee'
    BY <1>1, <1>2 DEF OneActiveInv, OneActivePerTrainee
  <1>4. Pending'
    BY <1>1, <1>2 DEF OneActiveInv, Pending, Inserted
  <1> QED
    BY <1>3, <1>4 DEF OneActiveInv

LEMMA OneActiveNext ==
  ASSUME Typed, OneActiveInv, [Next]_vars
  PROVE  OneActiveInv'
  <1>1. ASSUME NEW r \in Req, Start(r)
        PROVE  OneActiveInv'
    <2>1. ~Inserted(r)'
      BY <1>1, StartFrame DEF Inserted
    <2> QED
      BY <1>1, <2>1, StartFrame, OneActiveKept DEF db, Inserted
  <1>2. ASSUME NEW r \in Req, Statement(r), ~insertActiveSubscription(r)
        PROVE  OneActiveInv'
    BY <1>2, StatementFrame, OneActiveKept DEF db, Inserted
  <1>3. ASSUME NEW r \in Req, CommitPayment(r) \/ EndsUnbooked(r)
        PROVE  OneActiveInv'
    <2>1. \A q \in Req : Inserted(q)' => Inserted(q) /\ req'[q] = req[q]
      BY <1>3, EndFrame, IdleType DEF Commit, EndsUnbooked, Inserted
    <2>2. /\ DOMAIN subs' = DOMAIN subs
          /\ \A s \in DOMAIN subs : /\ subs'[s].trainee = subs[s].trainee
                                    /\ subs'[s].status = subs[s].status
      BY <1>3, PaidSubs
         DEF EndsUnbooked, CommitAssignment, Rollback, AssignNothing, db
    <2> QED
      BY <2>1, <2>2, OneActiveKept
  <1>4. CASE Outside
    BY <1>4, OneActiveKept DEF Outside, SameRow, Inserted
  <1> QED
    BY <1>1, <1>2, <1>3, <1>4, StepClasses,
       OneActiveInsert, OneActiveCommit, OneActiveRevives

LEMMA OneActiveInit ==
  ASSUME Init
  PROVE  OneActiveInv
  <1>1. DOMAIN subs = {} /\ \A r \in Req : req[r] = Idle
    BY EmptySeq DEF Init
  <1> QED
    BY <1>1, IdleType DEF OneActiveInv, OneActivePerTrainee, Pending, Inserted

\* A trainee never has two ACTIVE subscriptions, however enrolments, renewals,
\* corrected marks and the expiry job interleave.
THEOREM AtMostOneActive == Spec => []OneActivePerTrainee
  <1>1. Init => Typed /\ OneActiveInv
    BY ConstantAssumption, TypeInit, OneActiveInit
  <1>2. (Typed /\ OneActiveInv) /\ [Next]_vars => (Typed /\ OneActiveInv)'
    BY ConstantAssumption, TypeNext, OneActiveNext
  <1>3. OneActiveInv => OneActivePerTrainee
    BY DEF OneActiveInv
  <1> QED
    BY <1>1, <1>2, <1>3, PTL DEF Spec

-----------------------------------------------------------------------------
(* Receipt numbers *)

\* The holder of the branch counter: a transaction that has taken a number is
\* about to commit, is alone, and holds the next number.
Numbered ==
  /\ \A r \in Req : req[r].seq # 0 =>
       req[r].pc = "commit" /\ req[r].seq = receiptSeq + 1
  /\ \A r \in Req : req[r].pc = "commit" /\ req[r].op # "assign" => req[r].seq # 0
  /\ \A r, q \in Req : req[r].seq # 0 /\ req[q].seq # 0 => r = q

NumberInv == ReceiptNumbersGapFree /\ Numbered

\* Steps that issue no receipt and take no number.
LEMMA NumberKept ==
  ASSUME NumberInv, UNCHANGED <<receipts, receiptSeq>>,
         \A q \in Req :
            \/ req'[q] = req[q]
            \/ req'[q].seq = 0 /\ (req'[q].pc = "commit" => req'[q].op = "assign")
  PROVE  NumberInv'
  <1>1. ReceiptNumbersGapFree'
    BY DEF NumberInv, ReceiptNumbersGapFree
  <1>2. Numbered'
    BY DEF NumberInv, Numbered
  <1> QED
    BY <1>1, <1>2 DEF NumberInv

LEMMA NumberTaken ==
  ASSUME Typed, NumberInv, NEW r \in Req, generateReceiptNumber(r)
  PROVE  NumberInv'
  <1>1. /\ UNCHANGED <<receipts, receiptSeq>>
        /\ \A q \in Req \ {r} : req'[q] = req[q] /\ req[q].seq = 0
        /\ req'[r].pc = "commit" /\ req'[r].seq = receiptSeq + 1
    BY DEF generateReceiptNumber, Others, db, Typed, TypeOK, Transaction
  <1>2. receiptSeq \in Nat
    BY DEF Typed, TypeOK
  <1>3. ReceiptNumbersGapFree'
    BY <1>1 DEF NumberInv, ReceiptNumbersGapFree
  <1>4. Numbered'
    BY <1>1, <1>2 DEF NumberInv, Numbered
  <1> QED
    BY <1>3, <1>4 DEF NumberInv

\* The commit of the counter's holder issues the receipt with its number.
LEMMA NumberBooked ==
  ASSUME Typed, NumberInv, NEW r \in Req, CommitEnrollment(r) \/ CommitPayment(r)
  PROVE  NumberInv'
  <1>1. PICK s : BookReceipt(r, s)
    BY DEF CommitEnrollment, CommitPayment
  <1>2. /\ req'[r] = Idle
        /\ \A q \in Req \ {r} : req'[q] = req[q]
    BY EndFrame DEF Commit
  <1>3. /\ req[r].seq = receiptSeq + 1 /\ receiptSeq \in Nat
        /\ \A q \in Req \ {r} : req[q].seq = 0
    BY DEF NumberInv, Numbered, CommitEnrollment, CommitPayment, Typed, TypeOK
  <1> DEFINE x == [seq |-> req[r].seq, sub |-> s, amount |-> req[r].amount]
  <1>4. /\ receiptSeq' = receiptSeq + 1
        /\ receipts' = receipts \cup {x} /\ x.seq = receiptSeq + 1
    BY <1>1, <1>3 DEF BookReceipt
  <1> HIDE DEF x
  <1>5. ReceiptNumbersGapFree'
    <2>1. \A y \in receipts : y.seq \in 1 .. receiptSeq
      BY DEF NumberInv, ReceiptNumbersGapFree
    <2>2. {y.seq : y \in receipts'} = 1 .. receiptSeq'
      <3>1. {y.seq : y \in receipts'} = {y.seq : y \in receipts} \cup {receiptSeq + 1}
        BY <1>4
      <3>2. {y.seq : y \in receipts} = 1 .. receiptSeq
        BY DEF NumberInv, ReceiptNumbersGapFree
      <3>3. 1 .. receiptSeq + 1 = (1 .. receiptSeq) \cup {receiptSeq + 1}
        BY <1>3
      <3> QED
        BY <1>4, <3>1, <3>2, <3>3
    <2>3. \A y, z \in receipts' : y.seq = z.seq => y = z
      BY <1>3, <1>4, <2>1 DEF NumberInv, ReceiptNumbersGapFree
    <2> QED
      BY <2>2, <2>3 DEF ReceiptNumbersGapFree
  <1>6. Numbered'
    BY <1>2, <1>3, IdleType DEF Numbered, NumberInv
  <1> QED
    BY <1>5, <1>6 DEF NumberInv

LEMMA NumberNext ==
  ASSUME Typed, NumberInv, [Next]_vars
  PROVE  NumberInv'
  <1>1. ASSUME NEW r \in Req, Start(r)
        PROVE  NumberInv'
    BY <1>1, StartFrame, NumberKept DEF db
  <1>2. ASSUME NEW r \in Req, Statement(r), ~generateReceiptNumber(r)
        PROVE  NumberInv'
    <2>1. req[r].pc # "commit"
      BY <1>2 DEF Statement, RenewClose, LoadGroup, insertActiveSubscription,
             placeTraineeInGroup, MoveTrainee, PayWrite, AssignLevel
    <2>2. req[r].seq = 0
      BY <2>1 DEF NumberInv, Numbered
    <2> QED
      BY <1>2, <2>2, StatementFrame, NumberKept DEF db
  <1>3. ASSUME NEW r \in Req, EndsUnbooked(r)
        PROVE  NumberInv'
    <2>1. UNCHANGED <<receipts, receiptSeq>>
      BY <1>3 DEF EndsUnbooked, CommitAssignment, Rollback, AssignNothing, db
    <2>2. req'[r] = Idle /\ \A q \in Req \ {r} : req'[q] = req[q]
      BY <1>3, EndFrame DEF EndsUnbooked, Commit
    <2> QED
      BY <2>1, <2>2, IdleType, NumberKept
  <1>4. ASSUME NEW s \in DOMAIN subs, submitAttendanceRevives(s)
        PROVE  NumberInv'
    BY <1>4, NumberKept DEF submitAttendanceRevives
  <1>5. CASE Outside
    BY <1>5, NumberKept DEF Outside
  <1> QED
    BY <1>1, <1>2, <1>3, <1>4, <1>5, StepClasses, NumberTaken, NumberBooked

LEMMA NumberInit ==
  ASSUME Init
  PROVE  NumberInv
  <1>1. receipts = {} /\ receiptSeq = 0 /\ \A r \in Req : req[r] = Idle
    BY DEF Init
  <1> QED
    BY <1>1, IdleType DEF NumberInv, ReceiptNumbersGapFree, Numbered

\* The receipts of the branch carry the numbers 1..receipt_seq, each once,
\* whatever overlaps and whatever rolls back.
THEOREM GapFreeReceipts == Spec => []ReceiptNumbersGapFree
  <1>1. Init => Typed /\ NumberInv
    BY ConstantAssumption, TypeInit, NumberInit
  <1>2. (Typed /\ NumberInv) /\ [Next]_vars => (Typed /\ NumberInv)'
    BY ConstantAssumption, TypeNext, NumberNext
  <1>3. NumberInv => ReceiptNumbersGapFree
    BY DEF NumberInv
  <1> QED
    BY <1>1, <1>2, <1>3, PTL DEF Spec

-----------------------------------------------------------------------------
(* Balances *)

\* What an open payment has read still bounds what it will write: the price
\* never moves, and the amount was checked against the due it read.
OpenPayments ==
  \A r \in Req : req[r].op = "pay" =>
    /\ req[r].sub \in DOMAIN subs
    /\ req[r].amount <= req[r].due
    /\ req[r].paid + req[r].due = subs[req[r].sub].price

MoneyInv == BalanceAddsUp /\ OpenPayments

\* Steps that leave the balances and the open payments alone.
LEMMA MoneyKept ==
  ASSUME MoneyInv, DOMAIN subs' = DOMAIN subs, \A s \in DOMAIN subs : SameRow(s),
         \A q \in Req : req'[q].op = "pay" =>
            \/ /\ req[q].op = "pay" /\ req'[q].sub = req[q].sub
               /\ req'[q].amount = req[q].amount
               /\ req'[q].paid = req[q].paid /\ req'[q].due = req[q].due
            \/ /\ req'[q].sub \in DOMAIN subs
               /\ req'[q].amount <= req'[q].due
               /\ req'[q].paid = subs[req'[q].sub].paid
               /\ req'[q].due = subs[req'[q].sub].due
  PROVE  MoneyInv'
  <1>1. BalanceAddsUp'
    BY DEF MoneyInv, BalanceAddsUp, SameRow
  <1>2. OpenPayments'
    BY DEF MoneyInv, BalanceAddsUp, OpenPayments, SameRow
  <1> QED
    BY <1>1, <1>2 DEF MoneyInv

LEMMA MoneyPaid ==
  ASSUME Typed, MoneyInv, NEW r \in Req, CommitPayment(r)
  PROVE  /\ MoneyInv'
         /\ subs'[req[r].sub].due >= 0
  <1>1. /\ req[r].op = "pay"
        /\ req[r].amount \in Int /\ req[r].paid \in Int /\ req[r].due \in Int
    BY DEF CommitPayment, Typed, TypeOK, Transaction
  <1>2. /\ req[r].amount <= req[r].due
        /\ req[r].paid + req[r].due = subs[req[r].sub].price
    BY <1>1 DEF MoneyInv, OpenPayments
  <1>3. BalanceAddsUp'
    <2>1. (req[r].paid + req[r].amount) + (req[r].due - req[r].amount)
            = subs[req[r].sub].price
      BY <1>1, <1>2
    <2>2. subs'[req[r].sub].paid + subs'[req[r].sub].due = subs'[req[r].sub].price
      BY <2>1, PaidSubs
    <2>3. \A s \in DOMAIN subs : s # req[r].sub => subs'[s] = subs[s]
      BY PaidSubs
    <2>4. DOMAIN subs' = DOMAIN subs
      BY PaidSubs
    <2> QED
      BY <2>2, <2>3, <2>4 DEF MoneyInv, BalanceAddsUp
  <1>4. \A q \in Req : req'[q].op = "pay" => req'[q] = req[q]
    BY EndFrame, IdleType DEF Commit
  <1>5. OpenPayments'
    BY <1>4, PaidSubs DEF MoneyInv, OpenPayments
  <1>6. subs'[req[r].sub].due >= 0
    BY <1>1, <1>2, PaidSubs
  <1> QED
    BY <1>3, <1>5, <1>6 DEF MoneyInv

LEMMA MoneyEnrolled ==
  ASSUME Typed, MoneyInv, NEW r \in Req, CommitEnrollment(r)
  PROVE  /\ MoneyInv'
         /\ \A s \in DOMAIN subs : SameRow(s)
  <1>1. req[r].amount \in Int /\ req[r].price \in Int
    BY DEF Typed, TypeOK, Transaction
  <1>2. NewSubscription(r).paid + NewSubscription(r).due = NewSubscription(r).price
    BY <1>1 DEF NewSubscription
  <1>3. \A s \in DOMAIN subs : SameRow(s)
    BY CommittedSubs, ClosedRow DEF SameRow
  <1>4. BalanceAddsUp'
    BY <1>2, <1>3, CommittedSubs DEF MoneyInv, BalanceAddsUp, SameRow
  <1>5. \A q \in Req : req'[q].op = "pay" => req'[q] = req[q]
    BY EndFrame, IdleType DEF Commit
  <1>6. OpenPayments'
    BY <1>3, <1>5, CommittedSubs DEF MoneyInv, OpenPayments, SameRow
  <1> QED
    BY <1>3, <1>4, <1>6 DEF MoneyInv

\* One step: the invariant, and no due taken below zero.
LEMMA MoneyNext ==
  ASSUME Typed, MoneyInv, [Next]_vars
  PROVE  /\ MoneyInv'
         /\ \A s \in DOMAIN subs : subs'[s].due < subs[s].due => subs'[s].due >= 0
  <1>0. \A s \in DOMAIN subs : subs[s].due \in Int
    BY SubscriptionIds DEF Subscription
  <1>1. ASSUME \A s \in DOMAIN subs : SameRow(s)
        PROVE  \A s \in DOMAIN subs : subs'[s].due < subs[s].due => subs'[s].due >= 0
    BY <1>0, <1>1 DEF SameRow
  <1>2. ASSUME NEW r \in Req, Start(r) \/ Statement(r) \/ EndsUnbooked(r)
        PROVE  MoneyInv' /\ \A s \in DOMAIN subs : SameRow(s)
    <2>1. UNCHANGED subs
      BY <1>2, StartFrame, StatementFrame
         DEF db, EndsUnbooked, CommitAssignment, Rollback, AssignNothing
    <2>2. DOMAIN subs' = DOMAIN subs /\ \A s \in DOMAIN subs : SameRow(s)
      BY <2>1 DEF SameRow
    <2>3. CASE Start(r)
      BY <2>2, <2>3, StartFrame, MoneyKept
    <2>4. CASE Statement(r)
      BY <2>2, <2>4, StatementFrame, MoneyKept
    <2>5. CASE EndsUnbooked(r)
      <3>1. \A q \in Req : req'[q].op = "pay" => req'[q] = req[q]
        BY <2>5, EndFrame, IdleType DEF EndsUnbooked, Commit
      <3> QED
        BY <2>2, <3>1, MoneyKept
    <2> QED
      BY <1>2, <2>2, <2>3, <2>4, <2>5
  <1>3. ASSUME NEW s \in DOMAIN subs, submitAttendanceRevives(s)
        PROVE  MoneyInv' /\ \A u \in DOMAIN subs : SameRow(u)
    BY <1>3, RevivesSubs, MoneyKept DEF submitAttendanceRevives
  <1>4. CASE Outside
    BY <1>1, <1>4, MoneyKept DEF Outside
  <1>5. ASSUME NEW r \in Req, CommitPayment(r)
        PROVE  \A s \in DOMAIN subs : subs'[s].due < subs[s].due => subs'[s].due >= 0
    BY <1>0, <1>5, PaidSubs, MoneyPaid
  <1> QED
    BY <1>1, <1>2, <1>3, <1>4, <1>5, StepClasses, MoneyPaid, MoneyEnrolled

LEMMA MoneyInit ==
  ASSUME Init
  PROVE  MoneyInv
  <1>1. DOMAIN subs = {} /\ \A r \in Req : req[r] = Idle
    BY EmptySeq DEF Init
  <1> QED
    BY <1>1, IdleType DEF MoneyInv, BalanceAddsUp, OpenPayments

\* In every committed state each subscription's paid and due add up to its
\* price, even when overlapping payments overwrite one another.
THEOREM BalancesAddUp == Spec => []BalanceAddsUp
  <1>1. Init => Typed /\ MoneyInv
    BY ConstantAssumption, TypeInit, MoneyInit
  <1>2. (Typed /\ MoneyInv) /\ [Next]_vars => (Typed /\ MoneyInv)'
    BY ConstantAssumption, TypeNext, MoneyNext
  <1>3. MoneyInv => BalanceAddsUp
    BY DEF MoneyInv
  <1> QED
    BY <1>1, <1>2, <1>3, PTL DEF Spec

\* No step takes the amount due of a subscription below zero.
THEOREM NoOverdraw == Spec => PaymentsNeverOverdraw
  <1>1. Init => Typed /\ MoneyInv
    BY ConstantAssumption, TypeInit, MoneyInit
  <1>2. (Typed /\ MoneyInv) /\ [Next]_vars => (Typed /\ MoneyInv)'
    BY ConstantAssumption, TypeNext, MoneyNext
  <1>3. (Typed /\ MoneyInv) /\ [Next]_vars =>
          [\A s \in DOMAIN subs :
             subs'[s].due < subs[s].due => subs'[s].due >= 0]_vars
    BY MoneyNext
  <1> QED
    BY <1>1, <1>2, <1>3, PTL DEF Spec, PaymentsNeverOverdraw

-----------------------------------------------------------------------------
(* Row locks *)

\* A transaction locks rows of its own trainee, after its first statement, and
\* no two transactions lock the same one.
Locks ==
  /\ \A r \in Req : \A s \in req[r].rows :
       s \in DOMAIN subs /\ subs[s].trainee = req[r].trainee
  /\ \A r \in Req : req[r].op = "none" \/ req[r].pc \in {"close", "write", "level"} =>
       req[r].rows = {}
  /\ \A r \in Req : req[r].op \in {"pay", "assign"} =>
       req[r].sub \in DOMAIN subs /\ subs[req[r].sub].trainee = req[r].trainee
  /\ \A r, q \in Req : r # q => req[r].rows \cap req[q].rows = {}

\* The fields a statement sets, but for the rows it locks.
LEMMA StatementRows ==
  ASSUME Typed, NEW r \in Req, Statement(r)
  PROVE  /\ req'[r].price = req[r].price /\ req'[r].group = req[r].group
         /\ req'[r].pc \notin {"close", "write", "level"}
         /\ \/ req'[r].rows = req[r].rows /\ req[r].pc \notin {"close", "write", "level"}
            \/ /\ RowFree(r, req[r].sub) /\ req[r].pc \in {"close", "write", "level"}
               /\ req'[r].rows = {req[r].sub} \cap ActiveSubs(req[r].trainee)
            \/ /\ RowFree(r, req[r].sub) /\ req[r].pc \in {"write", "level"}
               /\ req'[r].rows = {req[r].sub}
  <1>0. req[r] \in Transaction /\ req \in [Req -> Transaction]
    BY DEF Typed, TypeOK
  <1>1. CASE RenewClose(r)
    BY <1>0, <1>1 DEF RenewClose, Transaction
  <1>2. CASE PayWrite(r) \/ AssignLevel(r)
    BY <1>0, <1>2 DEF PayWrite, AssignLevel, Transaction
  <1>3. CASE LoadGroup(r) \/ insertActiveSubscription(r) \/ placeTraineeInGroup(r)
    BY <1>0, <1>3 DEF LoadGroup, insertActiveSubscription, placeTraineeInGroup, Transaction
  <1>4. CASE MoveTrainee(r) \/ generateReceiptNumber(r)
    BY <1>0, <1>4 DEF MoveTrainee, generateReceiptNumber, Transaction
  <1> QED
    BY <1>1, <1>2, <1>3, <1>4 DEF Statement

\* What the first statement of a request knows.
LEMMA StartKnows ==
  ASSUME ConstantAssumption, Typed, NEW r \in Req, Start(r)
  PROVE  /\ req'[r].rows = {} /\ req'[r].op # "none"
         /\ req'[r].op \in {"enroll", "renew"} =>
              req'[r].amount \in Amounts /\ req'[r].price \in {Price[p] : p \in Plan}
         /\ req'[r].op = "pay" =>
              /\ req'[r].amount \in Amounts /\ req'[r].amount > 0 /\ req'[r].group = None
              /\ req'[r].paid = subs[req'[r].sub].paid
         /\ req'[r].op = "assign" => "assign" \in Ops
         /\ req'[r].op \in {"pay", "assign"} =>
              req'[r].sub \in DOMAIN subs /\ subs[req'[r].sub].trainee = req'[r].trainee
  <1>0. req \in [Req -> Transaction]
    BY DEF Typed, TypeOK
  <1>1. ASSUME NEW t \in Trainee, NEW g \in Group, NEW p \in Plan,
               NEW a \in Amounts, EnrollStart(r, t, g, p, a)
        PROVE  /\ req'[r].rows = {} /\ req'[r].op = "enroll"
               /\ req'[r].amount = a /\ req'[r].price = Price[p]
    BY <1>0, <1>1 DEF EnrollStart, Idle
  <1>2. ASSUME NEW t \in Trainee, NEW g \in Group, NEW p \in Plan,
               NEW a \in Amounts, RenewStart(r, t, g, p, a)
        PROVE  /\ req'[r].rows = {} /\ req'[r].op = "renew"
               /\ req'[r].amount = a /\ req'[r].price = Price[p]
    BY <1>0, <1>2 DEF RenewStart, Idle
  <1>3. ASSUME NEW s \in DOMAIN subs, NEW a \in Amounts, PayStart(r, s, a)
        PROVE  /\ req'[r].rows = {} /\ req'[r].op = "pay"
               /\ req'[r].amount = a /\ a > 0 /\ req'[r].group = None
               /\ req'[r].paid = subs[req'[r].sub].paid
               /\ req'[r].sub \in DOMAIN subs /\ subs[req'[r].sub].trainee = req'[r].trainee
    BY <1>0, <1>3 DEF PayStart, Idle, SubsOf
  <1>4. ASSUME NEW t \in Trainee, NEW g \in Group, NEW b \in BOOLEAN,
               AssignStart(r, t, g, b)
        PROVE  /\ req'[r].rows = {} /\ req'[r].op = "assign" /\ "assign" \in Ops
               /\ req'[r].sub \in DOMAIN subs /\ subs[req'[r].sub].trainee = req'[r].trainee
    BY <1>0, <1>4 DEF AssignStart, Idle, ActiveSubs, SubsOf
  <1> QED
    BY <1>1, <1>2, <1>3, <1>4 DEF Start

\* Subscriptions stay where they are and whose they are.
LEMMA SubsGrow ==
  ASSUME Typed, [Next]_vars
  PROVE  \A s \in DOMAIN subs : s \in DOMAIN subs' /\ subs'[s].trainee = subs[s].trainee
  <1>1. ASSUME NEW r \in Req, Start(r) \/ Statement(r) \/ EndsUnbooked(r)
        PROVE  UNCHANGED subs
    BY <1>1, StartFrame, StatementFrame
       DEF db, EndsUnbooked, CommitAssignment, Rollback, AssignNothing
  <1>2. ASSUME NEW r \in Req, CommitEnrollment(r)
        PROVE  \A s \in DOMAIN subs : s \in DOMAIN subs' /\ subs'[s].trainee = subs[s].trainee
    BY <1>2, CommittedSubs, ClosedRow
  <1>3. ASSUME NEW r \in Req, CommitPayment(r)
        PROVE  \A s \in DOMAIN subs : s \in DOMAIN subs' /\ subs'[s].trainee = subs[s].trainee
    BY <1>3, PaidSubs
  <1>4. ASSUME NEW s \in DOMAIN subs, submitAttendanceRevives(s)
        PROVE  \A u \in DOMAIN subs : u \in DOMAIN subs' /\ subs'[u].trainee = subs[u].trainee
    BY <1>4, RevivesSubs DEF SameRow
  <1>5. CASE Outside
    BY <1>5 DEF Outside, SameRow
  <1> QED
    BY <1>1, <1>2, <1>3, <1>4, <1>5, StepClasses

LEMMA LocksNext ==
  ASSUME ConstantAssumption, Typed, Locks, [Next]_vars
  PROVE  Locks'
  <1>1. \A s \in DOMAIN subs : s \in DOMAIN subs' /\ subs'[s].trainee = subs[s].trainee
    BY SubsGrow
  <1>3. ASSUME \A q \in Req :
                 \/ req'[q] = req[q]
                 \/ /\ req'[q].rows = {}
                    /\ req'[q].op \in {"pay", "assign"} =>
                         /\ req'[q].sub \in DOMAIN subs
                         /\ subs[req'[q].sub].trainee = req'[q].trainee
        PROVE  Locks'
    BY <1>1, <1>3 DEF Locks
  <1>4. ASSUME NEW r \in Req, Start(r)
        PROVE  Locks'
    BY <1>3, <1>4, StartKnows, StartFrame
  <1>5. ASSUME NEW r \in Req, Statement(r)
        PROVE  Locks'
    <2>1. /\ \A q \in Req \ {r} : req'[q] = req[q]
          /\ req'[r].trainee = req[r].trainee /\ req'[r].op = req[r].op
          /\ req'[r].sub = req[r].sub
      BY <1>5, StatementFrame
    <2>2. \A s \in req'[r].rows : s \in DOMAIN subs /\ subs[s].trainee = req[r].trainee
      <3>1. CASE req'[r].rows = {req[r].sub} /\ req[r].pc \in {"write", "level"}
        <4>1. req[r].op \in {"pay", "assign"}
          BY <3>1 DEF Typed, Shape
        <4> QED
          BY <3>1, <4>1 DEF Locks
      <3>2. CASE req'[r].rows = req[r].rows
        BY <3>2 DEF Locks
      <3> QED
        BY <1>5, <3>1, <3>2, StatementRows DEF ActiveSubs, SubsOf
    <2>3. \A q \in Req \ {r} : req'[r].rows \cap req[q].rows = {}
      BY <1>5, StatementRows DEF Locks, RowFree, Others
    <2>4. req[r].op # "none"
      BY <1>5 DEF Typed, Shape, Statement, RenewClose, LoadGroup, insertActiveSubscription,
                  placeTraineeInGroup, MoveTrainee, generateReceiptNumber, PayWrite, AssignLevel
    <2> QED
      BY <1>1, <1>5, <2>1, <2>2, <2>3, <2>4, StatementRows DEF Locks
  <1>6. ASSUME NEW r \in Req, CommitEnrollment(r) \/ CommitPayment(r) \/ EndsUnbooked(r)
        PROVE  Locks'
    BY <1>3, <1>6, EndFrame, IdleType DEF Commit, EndsUnbooked, Idle
  <1>7. ASSUME UNCHANGED req
        PROVE  Locks'
    BY <1>3, <1>7
  <1> QED
    BY <1>4, <1>5, <1>6, <1>7, StepClasses DEF Outside, submitAttendanceRevives

-----------------------------------------------------------------------------
(* No deadlock *)

\* The order in which a transaction takes its locks: rows and index key,
\* group, memberships, branch counter.  Who holds the ACTIVE row it replaces
\* comes before who still waits for it.
Rank(r) ==
  CASE req[r].pc \in {"close", "write", "level"} -> 0
    [] req[r].pc = "insert" ->
         IF req[r].rows \cap ActiveSubs(req[r].trainee) = {} THEN 1 ELSE 2
    [] req[r].pc = "place" -> 3
    [] req[r].pc = "move" -> 4
    [] req[r].pc = "receipt" -> 5
    [] req[r].pc = "commit" -> 6
    [] OTHER -> 7

LEMMA WaitsUp ==
  ASSUME Typed, OneActiveInv, NumberInv, Locks,
         NEW r \in Req, NEW q \in Req, r # q, WaitsFor(r, q)
  PROVE  Rank(r) < Rank(q)
  <1>1. CASE req[r].pc \in {"close", "write", "level"} /\ req[r].sub \in req[q].rows
    <2>1. req[q].pc \notin {"close", "write", "level"}
      BY <1>1 DEF Locks
    <2> QED
      BY <1>1, <2>1 DEF Rank
  <1>2. CASE req[r].pc = "insert" /\ Inserted(q)
    BY <1>2 DEF Rank, Inserted
  <1>3. ASSUME req[r].pc = "insert", NEW s \in ActiveSubs(req[r].trainee), s \in req[q].rows
        PROVE  Rank(r) < Rank(q)
    <2>1. s \in DOMAIN subs /\ subs[s].trainee = req[r].trainee /\ subs[s].status = "ACTIVE"
      BY <1>3 DEF ActiveSubs, SubsOf
    <2>2. req[r].rows \cap ActiveSubs(req[r].trainee) = {}
      <3>1. \A u \in ActiveSubs(req[r].trainee) : u = s
        BY <2>1 DEF OneActiveInv, OneActivePerTrainee, ActiveSubs, SubsOf
      <3> QED
        BY <1>3, <3>1 DEF Locks
    <2>3. req[q].trainee = req[r].trainee /\ req[q].pc \notin {"close", "write", "level"}
      BY <1>3, <2>1 DEF Locks
    <2> QED
      BY <1>3, <2>2, <2>3 DEF Rank
  <1>4. CASE req[r].pc = "place" /\ HoldsGroup(q, req[r].group)
    BY <1>4 DEF Rank, HoldsGroup
  <1>5. CASE req[r].pc = "move" /\ req[q].pc \in {"receipt", "commit"}
    BY <1>5 DEF Rank
  <1>6. CASE req[r].pc = "receipt" /\ req[q].seq # 0
    BY <1>6 DEF Rank, NumberInv, Numbered
  <1> QED
    BY <1>1, <1>2, <1>3, <1>4, <1>5, <1>6 DEF WaitsFor

LEMMA Highest ==
  ASSUME NEW S \in SUBSET Req, S # {}
  PROVE  \E r \in S : \A q \in S : Rank(q) <= Rank(r)
  <1>1. \A r \in S : Rank(r) \in 0 .. 7
    BY DEF Rank
  <1> QED
    BY <1>1

LEMMA LocksInit ==
  ASSUME Init
  PROVE  Locks
  BY IdleType DEF Init, Locks, Idle

\* No set of transactions wait for one another in a circle: every handler
\* takes subscription, index key, group, membership and counter in one order.
THEOREM DeadlockFree == Spec => []NoDeadlock
  <1> DEFINE I == Typed /\ OneActiveInv /\ NumberInv /\ Locks
  <1>1. Init => I
    BY ConstantAssumption, TypeInit, OneActiveInit, NumberInit, LocksInit
  <1>2. I /\ [Next]_vars => I'
    BY ConstantAssumption, TypeNext, OneActiveNext, NumberNext, LocksNext
  <1>3. I => NoDeadlock
    <2> SUFFICES ASSUME I, NEW S \in (SUBSET Req) \ {{}}
                 PROVE  \E r \in S : \A q \in S \ {r} : ~WaitsFor(r, q)
      BY DEF NoDeadlock
    <2>1. PICK r \in S : \A q \in S : Rank(q) <= Rank(r)
      BY Highest
    <2>2. \A q \in S : Rank(q) \in 0 .. 7
      BY DEF Rank
    <2>3. \A q \in S \ {r} : WaitsFor(r, q) => Rank(r) < Rank(q)
      BY WaitsUp
    <2> QED
      BY <2>1, <2>2, <2>3
  <1> QED
    BY <1>1, <1>2, <1>3, PTL DEF Spec

-----------------------------------------------------------------------------
(* Seats *)

\* A commit that places a trainee.
Places(r) ==
  /\ req[r].pc = "commit" /\ req[r].op \in {"enroll", "renew", "assign"}
  /\ req'[r] = Idle /\ \A q \in Req \ {r} : req'[q] = req[q]
  /\ seats' = SeatsAfter(r)

LEMMA SeatSteps ==
  ASSUME Typed, [Next]_vars
  PROVE  \/ \E r \in Req : Places(r)
         \/ seats' \subseteq seats /\ req' = req
         \/ /\ seats' = seats
            /\ \E r \in Req : \/ Start(r) \/ Statement(r)
                              \/ req'[r] = Idle /\ \A q \in Req \ {r} : req'[q] = req[q]
  <1>1. ASSUME NEW r \in Req, CommitEnrollment(r) \/ CommitAssignment(r)
        PROVE  Places(r)
    BY <1>1, EndFrame DEF Places, Commit, CommitEnrollment, CommitAssignment
  <1>2. ASSUME NEW r \in Req, CommitPayment(r) \/ Rollback(r) \/ AssignNothing(r)
        PROVE  seats' = seats /\ req'[r] = Idle /\ \A q \in Req \ {r} : req'[q] = req[q]
    BY <1>2, EndFrame DEF Commit, CommitPayment, Rollback, AssignNothing, db
  <1>3. ASSUME NEW r \in Req, Start(r) \/ Statement(r)
        PROVE  seats' = seats
    BY <1>3, StartFrame, StatementFrame DEF db
  <1>4. Staff => seats' \subseteq seats /\ req' = req
    BY DEF Staff, removeTraineeFromGroup, updateGroup, submitAttendanceExpires,
           submitAttendanceRevives
  <1>5. ExpiryJob => seats' \subseteq seats /\ req' = req
    BY DEF ExpiryJob, runSubscriptionExpiryJob, ReleaseRead, ReleaseDelete, ReleaseCommit,
           ReleaseRollback, db
  <1>6. (\E s \in DOMAIN subs : TimePasses(s)) \/ UNCHANGED vars => seats' \subseteq seats /\ req' = req
    BY DEF TimePasses, vars
  <1> QED
    BY <1>1, <1>2, <1>3, <1>4, <1>5, <1>6 DEF Next, Continue, Statement, Commit

LEMMA SeatsPlaced ==
  ASSUME Typed, NEW r \in Req, Places(r)
  PROVE  /\ req[r].trainee \in Trainee /\ req[r].group \in Group
         /\ \A g \in Group, t \in Trainee :
              <<g, t>> \in seats' <=>
                IF t = req[r].trainee
                THEN \/ <<g, t>> \in seats /\ g \notin req[r].dropped
                     \/ req[r].fresh /\ g = req[r].group
                ELSE <<g, t>> \in seats
  <1>1. req[r].trainee \in Trainee /\ req[r].group \in Group
    BY DEF Places, Typed, Shape
  <1>2. ASSUME NEW g \in Group, NEW t \in Trainee
        PROVE  <<g, t>> \in seats' <=>
                \/ <<g, t>> \in seats /\ ~(t = req[r].trainee /\ g \in req[r].dropped)
                \/ req[r].fresh /\ g = req[r].group /\ t = req[r].trainee
    BY DEF Places, SeatsAfter
  <1> QED
    BY <1>1, <1>2

\* What a statement does to the placement of its trainee.
LEMMA StatementSeats ==
  ASSUME Typed, NEW r \in Req, Statement(r)
  PROVE  /\ req'[r].group = req[r].group
         /\ req'[r].pc \in {"move", "receipt", "commit"} =>
              \/ req[r].op = "pay"
              \/ placeTraineeInGroup(r) /\ req'[r].cap = req[r].cap
              \/ /\ req[r].pc \in {"move", "receipt"} /\ req'[r].cap = req[r].cap
                 /\ req'[r].dropped = req[r].dropped
              \/ /\ req[r].pc = "move" /\ req'[r].cap = req[r].cap
                 /\ req'[r].dropped = req[r].dropped \cap SeatsOf(req[r].trainee)
  <1>0. req[r] \in Transaction /\ Shape(req[r], DOMAIN subs) /\ req \in [Req -> Transaction]
    BY DEF Typed, TypeOK
  <1>1. CASE RenewClose(r) \/ AssignLevel(r) \/ insertActiveSubscription(r)
    BY <1>0, <1>1 DEF RenewClose, AssignLevel, insertActiveSubscription, Transaction
  <1>2. CASE LoadGroup(r)
    BY <1>0, <1>2 DEF LoadGroup, Transaction
  <1>3. CASE PayWrite(r)
    BY <1>0, <1>3 DEF PayWrite, Transaction, Shape
  <1>4. CASE placeTraineeInGroup(r)
    BY <1>0, <1>4 DEF placeTraineeInGroup, Transaction
  <1>5. CASE MoveTrainee(r)
    BY <1>0, <1>5 DEF MoveTrainee, Transaction
  <1>6. CASE generateReceiptNumber(r)
    BY <1>0, <1>6 DEF generateReceiptNumber, Transaction
  <1> QED
    BY <1>1, <1>2, <1>3, <1>4, <1>5, <1>6 DEF Statement

LEMMA PlaceStep ==
  ASSUME Typed, NEW r \in Req, placeTraineeInGroup(r)
  PROVE  /\ req'[r].dropped = SeatsOf(req[r].trainee) \ {req[r].group}
         /\ Cardinality(Members(req[r].group) \ {req[r].trainee}) < req[r].cap
         /\ \A q \in Req \ {r} : ~HoldsGroup(q, req[r].group)
         /\ req[r].op # "pay" /\ req[r].op # "none"
  <1>1. req[r] \in Transaction /\ req \in [Req -> Transaction] /\ Shape(req[r], DOMAIN subs)
    BY DEF Typed, TypeOK
  <1> QED
    BY <1>1 DEF placeTraineeInGroup, Transaction, Others, Shape

-----------------------------------------------------------------------------
(* One group *)

\* Whoever has placed a trainee deletes every other membership, those it
\* waits for included; nobody else places the same trainee meanwhile.
Moving ==
  /\ \A r \in Req : req[r].op # "assign"
  /\ \A r \in Req : Inserted(r) /\ req[r].pc # "place" =>
       SeatsOf(req[r].trainee) \ {req[r].group} \subseteq req[r].dropped

SeatInv == Moving /\ \A t \in Trainee : \A g, h \in SeatsOf(t) : g = h

LEMMA MovingNext ==
  ASSUME ConstantAssumption, "assign" \notin Ops, Typed, OneActiveInv, SeatInv, [Next]_vars
  PROVE  SeatInv'
  <1>1. ASSUME seats' \subseteq seats
        PROVE  \A t : SeatsOf(t)' \subseteq SeatsOf(t)
    BY <1>1 DEF SeatsOf
  <1>2. ASSUME NEW r \in Req, Places(r)
        PROVE  SeatInv'
    <2>1. PICK t \in Trainee, h \in Group : t = req[r].trainee /\ h = req[r].group
      BY <1>2, SeatsPlaced
    <2>2. Inserted(r)
      BY <1>2 DEF Places, SeatInv, Moving, Inserted
    <2>3. \A g \in Group : <<g, t>> \in seats' => g = h
      <3>1. \A g \in Group : <<g, t>> \in seats => g = h \/ g \in req[r].dropped
        BY <1>2, <2>1, <2>2 DEF SeatInv, Moving, SeatsOf, Places
      <3> QED
        BY <1>2, <2>1, <3>1, SeatsPlaced
    <2>4. \A g \in Group, u \in Trainee \ {t} : <<g, u>> \in seats' <=> <<g, u>> \in seats
      BY <1>2, <2>1, SeatsPlaced
    <2>5. \A q \in Req \ {r} : Inserted(q)' =>
             Inserted(q) /\ req'[q] = req[q] /\ req[q].trainee \in Trainee \ {t}
      BY <1>2, <2>1, <2>2 DEF Places, Inserted, OneActiveInv, Pending, Typed, Shape
    <2>6. Moving'
      BY <1>2, <2>4, <2>5, IdleType DEF SeatInv, Moving, SeatsOf, Places, Inserted
    <2>7. \A u \in Trainee : \A g, k \in SeatsOf(u)' : g = k
      BY <2>3, <2>4 DEF SeatInv, SeatsOf
    <2> QED
      BY <2>6, <2>7 DEF SeatInv
  <1>3. ASSUME seats' \subseteq seats, req' = req
        PROVE  SeatInv'
    <2>1. Moving'
      BY <1>1, <1>3 DEF SeatInv, Moving, Inserted
    <2> QED
      BY <1>1, <1>3, <2>1 DEF SeatInv
  <1>4. ASSUME seats' = seats, NEW r \in Req, req'[r].op # "assign",
               \A q \in Req \ {r} : req'[q] = req[q],
               Inserted(r)' /\ req'[r].pc # "place" =>
                 SeatsOf(req'[r].trainee) \ {req'[r].group} \subseteq req'[r].dropped
        PROVE  SeatInv'
    <2>1. \A t : SeatsOf(t)' = SeatsOf(t)
      BY <1>4 DEF SeatsOf
    <2>2. Moving'
      BY <1>4 DEF SeatInv, Moving, Inserted, SeatsOf
    <2> QED
      BY <2>1, <2>2 DEF SeatInv
  <1>5. ASSUME seats' = seats, NEW r \in Req, Start(r)
        PROVE  SeatInv'
    <2>1. req'[r].op # "assign" /\ ~Inserted(r)'
      BY <1>5, StartKnows, StartFrame DEF Inserted
    <2> QED
      BY <1>4, <1>5, <2>1, StartFrame
  <1>6. ASSUME seats' = seats, NEW r \in Req, Statement(r)
        PROVE  SeatInv'
    <2>1. /\ req'[r].op = req[r].op /\ req'[r].trainee = req[r].trainee
          /\ req'[r].group = req[r].group /\ \A q \in Req \ {r} : req'[q] = req[q]
      BY <1>6, StatementFrame, StatementSeats
    <2>2. ASSUME Inserted(r)', req'[r].pc # "place"
          PROVE  SeatsOf(req[r].trainee) \ {req[r].group} \subseteq req'[r].dropped
      <3>1. req'[r].pc \in {"move", "receipt", "commit"} /\ req[r].op \in {"enroll", "renew"}
        BY <2>1, <2>2 DEF Inserted
      <3>2. CASE placeTraineeInGroup(r)
        BY <3>2, PlaceStep
      <3>3. CASE ~placeTraineeInGroup(r)
        <4>0. req[r].pc \in {"move", "receipt"}
          BY <1>6, <3>1, <3>3, StatementSeats
        <4>1. SeatsOf(req[r].trainee) \ {req[r].group} \subseteq req[r].dropped
          BY <3>1, <4>0 DEF SeatInv, Moving, Inserted
        <4> QED
          BY <1>6, <3>1, <3>3, <4>1, StatementSeats
      <3> QED
        BY <3>2, <3>3
    <2> QED
      BY <1>4, <1>6, <2>1, <2>2 DEF SeatInv, Moving
  <1>7. ASSUME seats' = seats, NEW r \in Req, req'[r] = Idle,
               \A q \in Req \ {r} : req'[q] = req[q]
        PROVE  SeatInv'
    BY <1>4, <1>7, IdleType DEF Inserted
  <1> QED
    BY <1>2, <1>3, <1>5, <1>6, <1>7, SeatSteps

\* Without changes of group by staff, which lock the group entered and not
\* the trainee, a trainee never sits in two groups.
THEOREM OneGroup ==
  ASSUME "assign" \notin Ops
  PROVE  Spec => []OneGroupPerTrainee
  <1> DEFINE I == Typed /\ OneActiveInv /\ SeatInv
  <1>1. Init => I
    <2>1. Init => SeatInv
      BY IdleType DEF Init, SeatInv, Moving, Inserted, SeatsOf
    <2> QED
      BY <2>1, ConstantAssumption, TypeInit, OneActiveInit
  <1>2. I /\ [Next]_vars => I'
    BY ConstantAssumption, TypeNext, OneActiveNext, MovingNext
  <1>3. I => OneGroupPerTrainee
    <2> SUFFICES ASSUME I, NEW t \in Trainee PROVE Cardinality(SeatsOf(t)) <= 1
      BY DEF OneGroupPerTrainee
    <2>1. CASE SeatsOf(t) = {}
      BY <2>1, FS_EmptySet
    <2>2. CASE SeatsOf(t) # {}
      <3>1. PICK g \in SeatsOf(t) : SeatsOf(t) = {g}
        BY <2>2 DEF SeatInv
      <3>2. Cardinality({g}) = 1
        BY FS_Singleton
      <3> QED
        BY <3>1, <3>2
    <2> QED
      BY <2>1, <2>2
  <1> QED
    BY <1>1, <1>2, <1>3, PTL DEF Spec

-----------------------------------------------------------------------------
(* Capacity *)

Placing(r) ==
  req[r].op \in {"enroll", "renew", "assign"} /\ req[r].pc \in {"move", "receipt", "commit"}

Finite == \A g \in Group : IsFiniteSet(Members(g))

\* Who has placed a trainee holds the group alone, so the place it has
\* counted stays free.
Room ==
  /\ Finite
  /\ \A r \in Req : req[r].op = "pay" => req[r].group = None
  /\ \A r \in Req, g \in Group, t \in Trainee :
       Placing(r) /\ req[r].group = g /\ req[r].trainee = t =>
         g \notin req[r].dropped /\ Cardinality(Members(g) \ {t}) < req[r].cap
  /\ \A r, q \in Req :
       Placing(r) /\ Placing(q) /\ req[r].group = req[q].group => r = q

LEMMA FewerMembers ==
  ASSUME NEW S, IsFiniteSet(S), NEW T \in SUBSET S, NEW x, NEW c \in Nat,
         Cardinality(S \ {x}) < c
  PROVE  IsFiniteSet(T) /\ Cardinality(T \ {x}) < c
  <1>1. IsFiniteSet(S \ {x}) /\ T \ {x} \in SUBSET (S \ {x})
    BY FS_Subset
  <1>2. Cardinality(T \ {x}) <= Cardinality(S \ {x}) /\ IsFiniteSet(T \ {x})
    BY <1>1, FS_Subset
  <1>3. Cardinality(S \ {x}) \in Nat /\ Cardinality(T \ {x}) \in Nat
    BY <1>1, <1>2, FS_CardinalityType
  <1> QED
    BY <1>2, <1>3, FS_Subset

\* The placement that commits fills the place it has counted.
LEMMA PlacedWithin ==
  ASSUME Typed, Room, NEW r \in Req, Places(r)
  PROVE  \E h \in Group :
           /\ h = req[r].group
           /\ IsFiniteSet(Members(h)')
           /\ Cardinality(Members(h)') <= req[r].cap
           /\ \A g \in Group \ {h} : Members(g)' \subseteq Members(g)
  <1>1. PICK t \in Trainee, h \in Group : t = req[r].trainee /\ h = req[r].group
    BY SeatsPlaced
  <1>2. \A g \in Group \ {h} : Members(g)' \subseteq Members(g)
    BY <1>1, SeatsPlaced DEF Members
  <1>3. Members(h)' \subseteq (Members(h) \ {t}) \cup {t}
    BY <1>1, SeatsPlaced DEF Members
  <1>4. IsFiniteSet(Members(h) \ {t}) /\ Cardinality(Members(h) \ {t}) < req[r].cap
    BY <1>1, FS_Subset DEF Room, Finite, Placing, Places
  <1>5. /\ IsFiniteSet((Members(h) \ {t}) \cup {t})
        /\ Cardinality((Members(h) \ {t}) \cup {t}) = Cardinality(Members(h) \ {t}) + 1
    BY <1>4, FS_AddElement
  <1>6. /\ IsFiniteSet(Members(h)')
        /\ Cardinality(Members(h)') <= Cardinality((Members(h) \ {t}) \cup {t})
    BY <1>3, <1>5, FS_Subset
  <1>7. Cardinality(Members(h) \ {t}) \in Nat /\ req[r].cap \in Nat /\ Cardinality(Members(h)') \in Nat
    BY <1>4, <1>6, FS_CardinalityType DEF Typed, TypeOK, Transaction
  <1>8. Cardinality(Members(h)') <= req[r].cap
    BY <1>4, <1>5, <1>6, <1>7
  <1> QED
    BY <1>1, <1>2, <1>6, <1>8

LEMMA RoomNext ==
  ASSUME ConstantAssumption, Typed, Room, [Next]_vars
  PROVE  Room'
  <1>0. \A r \in Req : /\ req[r].cap \in Nat
                       /\ Placing(r) => req[r].group \in Group /\ req[r].trainee \in Trainee
    BY DEF Typed, TypeOK, Transaction, Placing, Shape
  <1>1. ASSUME Finite',
               \A q \in Req : \/ /\ req'[q] = req[q]
                                 /\ \A h \in Group, t \in Trainee :
                                      h = req[q].group /\ Placing(q) /\ <<h, t>> \in seats' =>
                                        <<h, t>> \in seats
                              \/ ~Placing(q)' /\ (req'[q].op = "pay" => req'[q].group = None)
        PROVE  Room'
    <2>1. ASSUME NEW q \in Req, NEW g \in Group, NEW t \in Trainee, Placing(q)',
                 req'[q].group = g, req'[q].trainee = t
          PROVE  g \notin req'[q].dropped /\ Cardinality(Members(g)' \ {t}) < req'[q].cap
      <3>1. req'[q] = req[q] /\ Placing(q) /\ Members(g)' \subseteq Members(g)
        BY <1>1, <2>1 DEF Placing, Members
      <3>2. /\ g \notin req[q].dropped /\ Cardinality(Members(g) \ {t}) < req[q].cap
            /\ IsFiniteSet(Members(g)) /\ req[q].cap \in Nat
        BY <1>0, <2>1, <3>1 DEF Room, Finite
      <3>3. Cardinality(Members(g)' \ {t}) < req[q].cap
        BY <3>1, <3>2, FewerMembers
      <3> QED
        BY <3>1, <3>2, <3>3
    <2>2. \A q \in Req : Placing(q)' => Placing(q) /\ req'[q] = req[q]
      BY <1>1 DEF Placing
    <2>3. \A q \in Req : req'[q].op = "pay" => req'[q].group = None
      BY <1>1 DEF Room
    <2> QED
      BY <1>1, <2>1, <2>2, <2>3 DEF Room
  <1>2. ASSUME seats' \subseteq seats
        PROVE  Finite'
    <2>1. \A g \in Group : Members(g)' \subseteq Members(g)
      BY <1>2 DEF Members
    <2> QED
      BY <2>1, FS_Subset DEF Room, Finite
  <1>3. ASSUME NEW r \in Req, Places(r)
        PROVE  Room'
    <2>1. PICK h \in Group : /\ h = req[r].group
                            /\ IsFiniteSet(Members(h)')
                            /\ \A g \in Group \ {h} : Members(g)' \subseteq Members(g)
      BY <1>3, PlacedWithin
    <2>2. Finite'
      BY <2>1, FS_Subset DEF Room, Finite
    <2>3. ~Placing(r)' /\ (req'[r].op = "pay" => req'[r].group = None)
      BY <1>3, IdleType DEF Places, Placing
    <2>4. Placing(r) /\ \A q \in Req \ {r} : req'[q] = req[q] /\ (Placing(q) => req[q].group # h)
      BY <1>3, <2>1 DEF Places, Placing, Room
    <2> QED
      BY <1>1, <2>1, <2>2, <2>3, <2>4 DEF Members
  <1>4. ASSUME seats' \subseteq seats, req' = req
        PROVE  Room'
    BY <1>1, <1>2, <1>4
  <1>5. ASSUME seats' = seats, NEW r \in Req, ~Placing(r)', req'[r].op = "pay" => req'[r].group = None,
               \A q \in Req \ {r} : req'[q] = req[q]
        PROVE  Room'
    BY <1>1, <1>2, <1>5
  <1>6. ASSUME seats' = seats, NEW r \in Req, Start(r)
        PROVE  Room'
    <2>1. ~Placing(r)'
      BY <1>6, StartFrame DEF Placing
    <2>2. req'[r].op = "pay" => req'[r].group = None
      BY <1>6, StartKnows
    <2> QED
      BY <1>5, <1>6, <2>1, <2>2, StartFrame
  <1>7. ASSUME seats' = seats, NEW r \in Req, Statement(r)
        PROVE  Room'
    <2>1. /\ req'[r].op = req[r].op /\ req'[r].trainee = req[r].trainee
          /\ req'[r].group = req[r].group /\ \A q \in Req \ {r} : req'[q] = req[q]
          /\ req[r].op = "pay" => req[r].group = None
      BY <1>7, StatementFrame, StatementSeats DEF Room
    <2>2. \A g : Members(g)' = Members(g)
      BY <1>7 DEF Members
    <2>3. CASE ~Placing(r)'
      BY <1>5, <1>7, <2>1, <2>3
    <2>4. CASE Placing(r)' /\ placeTraineeInGroup(r)
      <3>1. PICK h \in Group, u \in Trainee : h = req[r].group /\ u = req[r].trainee
        BY <2>1, <2>4 DEF Placing, Typed, Shape
      <3>2. /\ h \notin req'[r].dropped /\ req'[r].cap = req[r].cap
            /\ Cardinality(Members(h) \ {u}) < req[r].cap
            /\ \A q \in Req \ {r} : Placing(q) => req[q].group # h
        BY <1>7, <2>4, <3>1, PlaceStep, StatementSeats DEF Placing, HoldsGroup, placeTraineeInGroup
      <3>3. \A q \in Req \ {r} : Placing(q)' => Placing(q)
        BY <2>1 DEF Placing
      <3> QED
        BY <1>2, <1>7, <2>1, <2>2, <3>1, <3>2, <3>3 DEF Room
    <2>5. CASE Placing(r)' /\ ~placeTraineeInGroup(r)
      <3>1. /\ req[r].pc \in {"move", "receipt"} /\ req'[r].cap = req[r].cap
            /\ req'[r].dropped \subseteq req[r].dropped
        BY <1>7, <2>1, <2>5, StatementSeats DEF Placing
      <3>2. \A q \in Req : Placing(q)' => Placing(q)
        BY <2>1, <2>5, <3>1 DEF Placing
      <3> QED
        BY <1>2, <1>7, <2>1, <2>2, <3>1, <3>2 DEF Room
    <2> QED
      BY <2>3, <2>4, <2>5
  <1>8. ASSUME seats' = seats, NEW r \in Req, req'[r] = Idle,
               \A q \in Req \ {r} : req'[q] = req[q]
        PROVE  Room'
    BY <1>5, <1>8, IdleType DEF Placing
  <1> QED
    BY <1>3, <1>4, <1>6, <1>7, <1>8, SeatSteps

\* A step that seats somebody leaves the group within the capacity its
\* transaction has read: the lock on the group orders the placements, and
\* what else changes memberships only takes them away.
THEOREM WithinCapacity == Spec => NoOverbooking
  <1> DEFINE I == Typed /\ Room
  <1>1. Init => I
    <2>1. Init => Room
      BY IdleType, FS_EmptySet DEF Init, Room, Finite, Members, Placing, Idle
    <2> QED
      BY <2>1, ConstantAssumption, TypeInit
  <1>2. I /\ [Next]_vars => I'
    BY ConstantAssumption, TypeNext, RoomNext
  <1>3. I /\ [Next]_vars =>
          [\A g \in Group :
             ~(Members(g)' \subseteq Members(g)) =>
                \E r \in Req : /\ req[r].pc = "commit"
                               /\ req'[r].pc = "idle"
                               /\ req[r].group = g
                               /\ Cardinality(Members(g)') <= req[r].cap]_vars
    <2> SUFFICES ASSUME I, [Next]_vars, NEW g \in Group, ~(Members(g)' \subseteq Members(g))
                 PROVE  \E r \in Req : /\ req[r].pc = "commit"
                                       /\ req'[r].pc = "idle"
                                       /\ req[r].group = g
                                       /\ Cardinality(Members(g)') <= req[r].cap
      OBVIOUS
    <2>1. ~(seats' \subseteq seats)
      BY DEF Members
    <2>2. PICK r \in Req : Places(r)
      BY <2>1, SeatSteps
    <2>3. PICK h \in Group : /\ h = req[r].group
                             /\ Cardinality(Members(h)') <= req[r].cap
                             /\ \A k \in Group \ {h} : Members(k)' \subseteq Members(k)
      BY <2>2, PlacedWithin
    <2>4. h = g
      BY <2>3
    <2> QED
      BY <2>2, <2>3, <2>4, IdleType DEF Places
  <1> QED
    BY <1>1, <1>2, <1>3, PTL DEF Spec, NoOverbooking

-----------------------------------------------------------------------------
(* Enrollment implements Book *)

\* What a request was sent for, and what it has read of a balance.
Bids ==
  /\ \A r \in Req : req[r].op \in {"enroll", "renew"} =>
       req[r].amount \in Amounts /\ req[r].price \in {Price[p] : p \in Plan}
  /\ \A r \in Req : req[r].op = "pay" =>
       req[r].amount \in Amounts /\ req[r].amount > 0 /\ req[r].paid >= 0
  /\ \A s \in DOMAIN subs : subs[s].paid >= 0

LEMMA BidsNext ==
  ASSUME ConstantAssumption, Typed, Bids, [Next]_vars
  PROVE  Bids'
  <1>1. ASSUME DOMAIN subs' = DOMAIN subs, \A s \in DOMAIN subs : SameRow(s),
               \A q \in Req :
                 \/ req'[q] = req[q]
                 \/ req'[q].op = "none"
                 \/ /\ req'[q].op = req[q].op /\ req'[q].amount = req[q].amount
                    /\ req'[q].price = req[q].price /\ req'[q].paid = req[q].paid
                 \/ Start(q)
        PROVE  Bids'
    <2>1. \A s \in DOMAIN subs' : subs'[s].paid >= 0
      BY <1>1 DEF Bids, SameRow
    <2>2. ASSUME NEW q \in Req, Start(q)
          PROVE  /\ req'[q].op \in {"enroll", "renew"} =>
                      req'[q].amount \in Amounts /\ req'[q].price \in {Price[p] : p \in Plan}
                 /\ req'[q].op = "pay" =>
                      req'[q].amount \in Amounts /\ req'[q].amount > 0 /\ req'[q].paid >= 0
      BY <2>2, StartKnows DEF Bids
    <2> QED
      BY <1>1, <2>1, <2>2 DEF Bids
  <1>2. ASSUME NEW r \in Req, Start(r) \/ Statement(r) \/ EndsUnbooked(r)
        PROVE  Bids'
    <2>1. UNCHANGED subs
      BY <1>2, StartFrame, StatementFrame
         DEF db, EndsUnbooked, CommitAssignment, Rollback, AssignNothing
    <2>2. DOMAIN subs' = DOMAIN subs /\ \A s \in DOMAIN subs : SameRow(s)
      BY <2>1 DEF SameRow
    <2>3. CASE Start(r)
      BY <1>1, <2>2, <2>3, StartFrame
    <2>4. CASE Statement(r)
      BY <1>1, <2>2, <2>4, StatementFrame, StatementRows
    <2>5. CASE EndsUnbooked(r)
      BY <1>1, <2>2, <2>5, EndFrame, IdleType DEF EndsUnbooked, Commit
    <2> QED
      BY <1>2, <2>3, <2>4, <2>5
  <1>3. ASSUME NEW r \in Req, CommitPayment(r)
        PROVE  Bids'
    <2>1. req[r].amount \in Nat /\ req[r].paid \in Int /\ req[r].op = "pay"
      BY <1>3 DEF CommitPayment, Typed, TypeOK, Transaction
    <2>2. req[r].paid + req[r].amount >= 0
      BY <2>1 DEF Bids
    <2>3. \A s \in DOMAIN subs' : subs'[s].paid >= 0
      BY <1>3, <2>2, PaidSubs DEF Bids
    <2>4. \A q \in Req : req'[q] = req[q] \/ req'[q].op = "none"
      BY <1>3, EndFrame, IdleType DEF Commit
    <2> QED
      BY <2>3, <2>4 DEF Bids
  <1>4. ASSUME NEW r \in Req, CommitEnrollment(r)
        PROVE  Bids'
    <2>1. NewSubscription(r).paid >= 0
      BY DEF NewSubscription, Typed, TypeOK, Transaction
    <2>2. \A s \in DOMAIN subs' : subs'[s].paid >= 0
      BY <1>4, <2>1, CommittedSubs, ClosedRow DEF Bids
    <2>3. \A q \in Req : req'[q] = req[q] \/ req'[q].op = "none"
      BY <1>4, EndFrame, IdleType DEF Commit
    <2> QED
      BY <2>2, <2>3 DEF Bids
  <1>5. ASSUME NEW s \in DOMAIN subs, submitAttendanceRevives(s)
        PROVE  Bids'
    BY <1>1, <1>5, RevivesSubs DEF submitAttendanceRevives
  <1>6. CASE Outside
    BY <1>1, <1>6 DEF Outside
  <1> QED
    BY <1>2, <1>3, <1>4, <1>5, <1>6, StepClasses

\* A row of Book.
EntryRow ==
  [trainee : Trainee, price : Int, paid : Int, due : Int, status : {"ACTIVE", "EXPIRED"}]

\* The part of a row that Book shows.
Entry(row) ==
  [trainee |-> row.trainee, price |-> row.price, paid |-> row.paid, due |-> row.due,
   status |-> row.status]

LEMMA EntryRows ==
  ASSUME NEW S \in Seq(Subscription), NEW E, E = [s \in DOMAIN S |-> Entry(S[s])]
  PROVE  /\ E \in Seq(EntryRow) /\ Len(E) = Len(S) /\ DOMAIN E = DOMAIN S
         /\ \A s \in DOMAIN S : E[s] = Entry(S[s]) /\ E[s] \in EntryRow
  <1>1. DOMAIN S = 1 .. Len(S) /\ Len(S) \in Nat
    BY LenProperties
  <1>2. \A s \in DOMAIN S : S[s] \in Subscription
    BY <1>1, ElementOfSeq
  <1>3. \A s \in DOMAIN S : E[s] = Entry(S[s]) /\ E[s] \in EntryRow
    BY <1>2 DEF Entry, EntryRow, Subscription
  <1>4. E \in [1 .. Len(S) -> EntryRow]
    BY <1>1, <1>3
  <1>5. E \in Seq(EntryRow)
    BY <1>1, <1>4, SeqDef
  <1>6. Len(E) = Len(S)
    BY <1>1, <1>4, <1>5, LenProperties
  <1> QED
    BY <1>3, <1>5, <1>6

LEMMA ShownRows ==
  ASSUME ConstantAssumption, Typed, [Next]_vars
  PROVE  /\ Entries \in Seq(EntryRow) /\ Len(Entries) = Len(subs) /\ DOMAIN Entries = DOMAIN subs
         /\ \A s \in DOMAIN subs : Entries[s] = Entry(subs[s]) /\ Entries[s] \in EntryRow
         /\ Entries' \in Seq(EntryRow) /\ Len(Entries') = Len(subs') /\ DOMAIN Entries' = DOMAIN subs'
         /\ \A s \in DOMAIN subs' : Entries'[s] = Entry(subs'[s]) /\ Entries'[s] \in EntryRow
  <1>1. subs \in Seq(Subscription) /\ subs' \in Seq(Subscription)
    BY TypeNext DEF Typed, TypeOK
  <1>2. /\ Entries = [s \in DOMAIN subs |-> Entry(subs[s])]
        /\ Entries' = [s \in DOMAIN subs' |-> Entry(subs'[s])]
    BY DEF Entries, Entry
  <1> QED
    BY <1>1, <1>2, EntryRows

\* A booked receipt is the next one, and the ledger has its row.
LEMMA IncomeGrows ==
  ASSUME Typed, NumberInv, NEW r \in Req, NEW s \in Nat, BookReceipt(r, s),
         req[r].pc = "commit", req[r].op # "assign"
  PROVE  Books!Issue(s, req[r].amount)
  <1>1. req[r].seq = receiptSeq + 1 /\ receiptSeq \in Nat
    BY DEF NumberInv, Numbered, Typed, TypeOK
  <1> DEFINE x == [seq |-> receiptSeq + 1, sub |-> s, amount |-> req[r].amount]
             e == [receipt |-> receiptSeq + 1, amount |-> req[r].amount]
             Mirror(y) == [receipt |-> y.seq, amount |-> y.amount]
  <1>2. receipts' = receipts \cup {x} /\ ledger' = ledger \cup {e} /\ receiptSeq' = receiptSeq + 1
    BY <1>1 DEF BookReceipt
  <1>3. Mirror(x) = e
    OBVIOUS
  <1>4. \A y \in receipts : Mirror(y) # e
    <2>1. \A y \in receipts : y.seq \in 1 .. receiptSeq
      BY DEF NumberInv, ReceiptNumbersGapFree
    <2>2. \A y \in receipts : Mirror(y).receipt # e.receipt
      BY <1>1, <2>1
    <2> QED
      BY <2>2
  <1>5. /\ Income = {y \in receipts : Mirror(y) \in ledger}
        /\ Income' = {y \in receipts' : Mirror(y) \in ledger'}
    BY DEF Income
  <1> HIDE DEF x, e, Mirror
  <1>6. Income' = Income \cup {x}
    BY <1>2, <1>3, <1>4, <1>5
  <1> QED
    BY <1>2, <1>6 DEF Books!Issue, x

\* A row stays as Book shows it, or its status becomes "EXPIRED".
LEMMA RowEnds ==
  ASSUME NEW E \in Seq(EntryRow), NEW W,
         W = [s \in DOMAIN E |-> W[s]],
         \A s \in DOMAIN E : W[s] = E[s] \/ W[s] = [E[s] EXCEPT !.status = "EXPIRED"]
  PROVE  W \in Seq(EntryRow) /\ Len(W) = Len(E)
  <1>1. DOMAIN E = 1 .. Len(E) /\ Len(E) \in Nat
    BY LenProperties
  <1>2. \A s \in DOMAIN E : E[s] \in EntryRow
    BY <1>1, ElementOfSeq
  <1>3. \A s \in DOMAIN E : W[s] \in EntryRow
    <2>1. \A s \in DOMAIN E : [E[s] EXCEPT !.status = "EXPIRED"] \in EntryRow
      BY <1>2 DEF EntryRow
    <2> QED
      BY <1>2, <2>1
  <1>4. DOMAIN W = 1 .. Len(E)
    BY <1>1
  <1>5. W \in [1 .. Len(E) -> EntryRow]
    BY <1>1, <1>3, <1>4
  <1>6. W \in Seq(EntryRow)
    BY <1>1, <1>5, SeqDef
  <1>7. Len(W) = Len(E)
    BY <1>1, <1>4, <1>6, LenProperties
  <1> QED
    BY <1>6, <1>7

\* The commit of an enrolment or a renewal is a sale.
LEMMA CommitSells ==
  ASSUME ConstantAssumption, Typed, OneActiveInv, NumberInv, Locks, Bids, [Next]_vars,
         NEW r \in Req, CommitEnrollment(r)
  PROVE  Books!Next
  <1>1. PICK t \in Trainee, price \in {Price[p] : p \in Plan}, a \in Amounts :
          t = req[r].trainee /\ price = req[r].price /\ a = req[r].amount
    BY DEF CommitEnrollment, Bids, Typed, Shape
  <1>2. Books!Issue(Len(Entries) + 1, a)
    <2>1. BookReceipt(r, Len(subs) + 1) /\ req[r].pc = "commit" /\ req[r].op # "assign"
      BY DEF CommitEnrollment
    <2>2. Len(subs) + 1 \in Nat
      BY SubscriptionIds
    <2> QED
      BY <1>1, <2>1, <2>2, IncomeGrows, ShownRows
  <1> DEFINE S == {s \in DOMAIN Entries : Entries[s].trainee = t}
             W == Books!Without(S)
             new == [trainee |-> t, price |-> price, paid |-> a, due |-> price - a,
                     status |-> "ACTIVE"]
  <1>3. W = [s \in DOMAIN Entries |-> IF s \in S THEN [Entries[s] EXCEPT !.status = "EXPIRED"]
                                                 ELSE Entries[s]]
    BY DEF Books!Without
  <1>4. W \in Seq(EntryRow) /\ Len(W) = Len(subs) /\ Len(subs) \in Nat
    <2> HIDE DEF W, S
    <2>1. Entries \in Seq(EntryRow) /\ Len(Entries) = Len(subs)
      BY ShownRows
    <2>2. W \in Seq(EntryRow) /\ Len(W) = Len(Entries)
      <3>1. /\ W = [s \in DOMAIN Entries |-> W[s]]
            /\ \A s \in DOMAIN Entries :
                  W[s] = Entries[s] \/ W[s] = [Entries[s] EXCEPT !.status = "EXPIRED"]
        BY <1>3
      <3> QED
        BY <2>1, <3>1, RowEnds
    <2> QED
      BY <2>1, <2>2, SubscriptionIds
  <1>5. new \in EntryRow
    BY <1>1, CommittedSubs, ConstantAssumption DEF EntryRow, ConstantAssumption
  <1>6. /\ Append(W, new) \in Seq(EntryRow) /\ Len(Append(W, new)) = Len(subs) + 1
        /\ \A s \in 1 .. Len(subs) : Append(W, new)[s] = W[s]
        /\ Append(W, new)[Len(subs) + 1] = new
    <2> HIDE DEF W, new
    <2> QED
      BY <1>4, <1>5, AppendProperties
  <1>7. Len(Entries') = Len(subs) + 1
    <2>1. PICK n \in Nat : n = Len(subs)
      BY <1>4
    <2>2. DOMAIN subs' = (1 .. n) \cup {n + 1} /\ subs' \in Seq(Subscription)
      BY <2>1, CommittedSubs, SubscriptionIds
    <2>3. (1 .. n) \cup {n + 1} = 1 .. n + 1
      OBVIOUS
    <2>4. DOMAIN subs' = 1 .. Len(subs') /\ Len(subs') \in Nat
      BY <2>2, LenProperties
    <2>5. Len(subs') = n + 1
      BY <2>2, <2>3, <2>4
    <2> QED
      BY <2>1, <2>5, ShownRows
  <1>8. Entries'[Len(subs) + 1] = new
    <2>1. Entries'[Len(subs) + 1] = Entry(NewSubscription(r))
      BY CommittedSubs, ShownRows
    <2> QED
      BY <1>1, <2>1 DEF Entry, NewSubscription
  <1>9. ASSUME NEW s \in 1 .. Len(subs)
        PROVE  Entries'[s] = W[s]
    <2>1. /\ s \in DOMAIN subs /\ subs[s] \in Subscription
          /\ Entries[s] = Entry(subs[s]) /\ Entries'[s] = Entry(Closed(r)[s])
          /\ s \in DOMAIN Entries
      BY CommittedSubs, ShownRows, SubscriptionIds
    <2>2. s \in S <=> subs[s].trainee = t
      BY <2>1 DEF Entry
    <2>3. s \in req[r].rows => subs[s].trainee = t
      BY <1>1 DEF Locks
    <2>4. subs[s].trainee = t /\ s \notin req[r].rows => subs[s].status = "EXPIRED"
      <3>1. Inserted(r)
        BY DEF CommitEnrollment, Inserted
      <3> QED
        BY <1>1, <2>1, <3>1 DEF OneActiveInv, Pending, Subscription
    <2>5. W[s] = IF s \in S THEN [Entries[s] EXCEPT !.status = "EXPIRED"] ELSE Entries[s]
      BY <1>3, <2>1
    <2> HIDE DEF W, S
    <2>6. CASE s \in req[r].rows
      <3>1. Closed(r)[s] = [subs[s] EXCEPT !.status = "EXPIRED"]
        BY <2>1, <2>6 DEF Closed
      <3>2. Entry(Closed(r)[s]) = [Entry(subs[s]) EXCEPT !.status = "EXPIRED"]
        BY <2>1, <3>1 DEF Entry, Subscription
      <3> QED
        BY <2>1, <2>2, <2>3, <2>5, <2>6, <3>2
    <2>7. CASE s \notin req[r].rows
      <3>1. Closed(r)[s] = subs[s]
        BY <2>1, <2>7 DEF Closed
      <3>2. subs[s].status = "EXPIRED" => [Entry(subs[s]) EXCEPT !.status = "EXPIRED"] = Entry(subs[s])
        BY DEF Entry
      <3> QED
        BY <2>1, <2>2, <2>4, <2>5, <2>7, <3>1, <3>2
    <2> QED
      BY <2>6, <2>7
  <1>10. Entries' = Append(W, new)
    <2> DEFINE A == Append(W, new)
    <2>1. A \in Seq(EntryRow) /\ Len(A) = Len(subs) + 1 /\ Entries' \in Seq(EntryRow)
      BY <1>6, ShownRows
    <2>2. \A s \in 1 .. Len(subs) + 1 : Entries'[s] = A[s]
      BY <1>4, <1>6, <1>8, <1>9
    <2> HIDE DEF A
    <2>3. Entries' = A
      BY <1>7, <2>1, <2>2, SeqEqual
    <2> QED
      BY <2>3 DEF A
  <1>11. Books!Sell(t, price, a)
    BY <1>2, <1>10 DEF Books!Sell
  <1> QED
    BY <1>1, <1>11 DEF Books!Next

\* The commit of a payment is a payment: what other payments wrote since it
\* read the balance is in the due that it leaves open.
LEMMA CommitPays ==
  ASSUME ConstantAssumption, Typed, NumberInv, MoneyInv, Bids, [Next]_vars,
         NEW r \in Req, CommitPayment(r)
  PROVE  Books!Next
  <1>1. PICK s \in DOMAIN Entries, a \in Amounts : s = req[r].sub /\ a = req[r].amount
    BY PaidSubs, ShownRows DEF CommitPayment, Bids
  <1>2. Books!Issue(s, a)
    <2>1. BookReceipt(r, s) /\ req[r].pc = "commit" /\ req[r].op # "assign"
      BY <1>1 DEF CommitPayment
    <2>2. s \in Nat
      BY <1>1, ShownRows, SubscriptionIds
    <2> QED
      BY <1>1, <2>1, <2>2, IncomeGrows
  <1>3. PICK price \in Int, due \in Int, paid \in Int :
          /\ price = subs[s].price /\ due = req[r].due - a /\ paid = req[r].paid + a
    <2>1. subs[s].price \in Int
      BY <1>1, ShownRows, SubscriptionIds DEF Subscription
    <2>2. req[r].due \in Int /\ req[r].paid \in Int /\ a \in Int
      BY <1>1 DEF Typed, TypeOK, Transaction
    <2>3. req[r].due - a \in Int /\ req[r].paid + a \in Int
      BY <2>2
    <2> QED
      BY <2>1, <2>3
  <1>4. /\ a \in Int /\ a > 0 /\ due >= 0 /\ paid >= a /\ paid + due = price
    <2>1. /\ req[r].op = "pay" /\ req[r].amount \in Int
          /\ req[r].paid \in Int /\ req[r].due \in Int
      BY DEF CommitPayment, Typed, TypeOK, Transaction
    <2>2. /\ req[r].amount <= req[r].due /\ req[r].paid + req[r].due = price
          /\ req[r].amount > 0 /\ req[r].paid >= 0
      BY <1>1, <1>3, <2>1 DEF MoneyInv, OpenPayments, Bids
    <2> QED
      BY <1>1, <1>3, <2>1, <2>2
  <1>5. due \in 0 .. price - a /\ price - due = paid
    BY <1>4
  <1>6. /\ Entries[s].price = price /\ DOMAIN Entries = DOMAIN subs /\ DOMAIN Entries' = DOMAIN subs
        /\ \A u \in DOMAIN subs : Entries[u] = Entry(subs[u]) /\ Entries'[u] = Entry(subs'[u])
    <2>1. DOMAIN Entries = DOMAIN subs /\ DOMAIN Entries' = DOMAIN subs' /\ DOMAIN subs' = DOMAIN subs
      BY ShownRows, PaidSubs
    <2>2. \A u \in DOMAIN subs : Entries[u] = Entry(subs[u]) /\ Entries'[u] = Entry(subs'[u])
      BY <2>1, ShownRows
    <2>3. Entries[s].price = price
      BY <1>1, <1>3, <2>1, <2>2 DEF Entry
    <2> QED
      BY <2>1, <2>2, <2>3
  <1>7. Entries' = [Entries EXCEPT ![s].paid = price - due, ![s].due = due]
    <2> DEFINE F == [Entries EXCEPT ![s] = [Entry(subs[s]) EXCEPT !.paid = paid, !.due = due]]
    <2>1. F = [Entries EXCEPT ![s].paid = price - due, ![s].due = due]
      BY <1>1, <1>5, <1>6
    <2>2. Entries'[s] = [Entry(subs[s]) EXCEPT !.paid = paid, !.due = due]
      <3>1. /\ subs'[s].paid = paid /\ subs'[s].due = due
            /\ subs'[s].trainee = subs[s].trainee /\ subs'[s].status = subs[s].status
            /\ subs'[s].price = subs[s].price
        BY <1>1, <1>3, PaidSubs
      <3>2. Entries'[s] = Entry(subs'[s])
        BY <1>1, <1>6
      <3>3. PICK e \in EntryRow, f \in EntryRow : e = Entry(subs[s]) /\ f = Entry(subs'[s])
        BY <1>1, <1>6, PaidSubs, ShownRows
      <3>4. /\ f.paid = paid /\ f.due = due /\ f.trainee = e.trainee
            /\ f.status = e.status /\ f.price = e.price
        BY <3>1, <3>3 DEF Entry
      <3>5. f = [e EXCEPT !.paid = paid, !.due = due]
        BY <3>4 DEF EntryRow
      <3> QED
        BY <3>2, <3>3, <3>5
    <2>3. \A u \in DOMAIN subs : Entries'[u] = F[u]
      BY <1>1, <1>6, <2>2, PaidSubs
    <2>4. Entries' = F
      <3>1. Entries' = [u \in DOMAIN Entries' |-> Entries'[u]]
        BY DEF Entries
      <3>2. F = [u \in DOMAIN F |-> F[u]] /\ DOMAIN F = DOMAIN subs
        BY <1>6
      <3> HIDE DEF F
      <3> QED
        BY <1>6, <2>3, <3>1, <3>2
    <2> QED
      BY <2>1, <2>4
  <1>8. Books!Pay(s, a)
    BY <1>2, <1>4, <1>5, <1>6, <1>7 DEF Books!Pay
  <1> QED
    BY <1>1, <1>8 DEF Books!Next

LEMMA RevivesOne ==
  ASSUME ConstantAssumption, Typed, [Next]_vars,
         NEW s \in DOMAIN subs, submitAttendanceRevives(s)
  PROVE  Books!Next
  <1>1. UNCHANGED <<Income, receiptSeq>>
    BY DEF submitAttendanceRevives, Income
  <1>2. /\ DOMAIN Entries = DOMAIN subs /\ DOMAIN Entries' = DOMAIN subs
        /\ \A u \in DOMAIN subs : Entries[u] = Entry(subs[u]) /\ Entries'[u] = Entry(subs'[u])
    BY ShownRows, RevivesSubs
  <1>3. \A u \in DOMAIN Entries :
          Entries[u].trainee = Entries[s].trainee => Entries[u].status = "EXPIRED"
    BY <1>2, SubscriptionIds DEF submitAttendanceRevives, ActiveSubs, SubsOf, Entry, Subscription
  <1>4. Entries' = [Entries EXCEPT ![s].status = "ACTIVE"]
    <2> DEFINE F == [Entries EXCEPT ![s].status = "ACTIVE"]
    <2>1. \A u \in DOMAIN subs : Entries'[u] = F[u]
      <3>1. ASSUME NEW u \in DOMAIN subs
            PROVE  Entries'[u] = F[u]
        <4>1. /\ subs'[u].trainee = subs[u].trainee /\ subs'[u].price = subs[u].price
              /\ subs'[u].paid = subs[u].paid /\ subs'[u].due = subs[u].due
              /\ subs'[u].status = IF u = s THEN "ACTIVE" ELSE subs[u].status
          BY RevivesSubs, RevivedRow DEF SameRow
        <4>2. F[u] = IF u = s THEN [Entry(subs[u]) EXCEPT !.status = "ACTIVE"] ELSE Entry(subs[u])
          BY <1>2
        <4>3. Entries'[u] = Entry(subs'[u])
          BY <1>2
        <4> HIDE DEF F
        <4> QED
          BY <4>1, <4>2, <4>3 DEF Entry
      <3> QED
        BY <3>1
    <2>2. Entries' = [u \in DOMAIN Entries' |-> Entries'[u]]
      BY DEF Entries
    <2>3. F = [u \in DOMAIN F |-> F[u]] /\ DOMAIN F = DOMAIN subs
      BY <1>2
    <2> HIDE DEF F
    <2>4. Entries' = F
      BY <1>2, <2>1, <2>2, <2>3
    <2> QED
      BY <2>4 DEF F
  <1>5. Books!Revive(s)
    BY <1>1, <1>3, <1>4 DEF Books!Revive
  <1> QED
    BY <1>2, <1>5 DEF Books!Next

LEMMA OutsideEnds ==
  ASSUME ConstantAssumption, Typed, [Next]_vars, Outside
  PROVE  Books!Next
  <1> DEFINE S == {u \in DOMAIN Entries : subs'[u].status = "EXPIRED"}
             W == Books!Without(S)
  <1>1. UNCHANGED <<Income, receiptSeq>>
    BY DEF Outside, Income
  <1>2. /\ DOMAIN Entries = DOMAIN subs /\ DOMAIN Entries' = DOMAIN subs
        /\ \A u \in DOMAIN subs : /\ Entries[u] = Entry(subs[u]) /\ Entries'[u] = Entry(subs'[u])
                                  /\ Entries[u] \in EntryRow /\ Entries'[u] \in EntryRow
    BY ShownRows DEF Outside
  <1>3. W = [s \in DOMAIN Entries |-> IF s \in S THEN [Entries[s] EXCEPT !.status = "EXPIRED"]
                                                 ELSE Entries[s]]
    BY DEF Books!Without
  <1>4. ASSUME NEW u \in DOMAIN subs
        PROVE  Entries'[u] = W[u]
    <2>1. SameRow(u) /\ (subs'[u].status = "ACTIVE" => subs[u].status = "ACTIVE")
      BY DEF Outside
    <2>2. subs'[u].status \in {"ACTIVE", "EXPIRED"}
      BY <1>2 DEF EntryRow, Entry
    <2>3. W[u] = IF u \in S THEN [Entry(subs[u]) EXCEPT !.status = "EXPIRED"] ELSE Entry(subs[u])
      BY <1>2, <1>3
    <2>4. u \in S <=> subs'[u].status = "EXPIRED"
      BY <1>2
    <2> HIDE DEF W, S
    <2> QED
      BY <1>2, <2>1, <2>2, <2>3, <2>4 DEF Entry, SameRow
  <1>5. Entries' = W
    <2>1. Entries' = [u \in DOMAIN Entries' |-> Entries'[u]]
      BY DEF Entries
    <2>2. W = [u \in DOMAIN W |-> W[u]] /\ DOMAIN W = DOMAIN subs
      BY <1>2, <1>3
    <2> HIDE DEF W
    <2> QED
      BY <1>2, <1>4, <2>1, <2>2
  <1>6. Books!End(S) /\ S \in SUBSET DOMAIN Entries
    BY <1>1, <1>5 DEF Books!End
  <1> QED
    BY <1>6 DEF Books!Next

LEMMA BookNext ==
  ASSUME ConstantAssumption, Typed, OneActiveInv, NumberInv, MoneyInv, Locks, Bids, [Next]_vars
  PROVE  [Books!Next]_<<Entries, Income, receiptSeq>>
  <1>1. ASSUME NEW r \in Req, Start(r) \/ Statement(r) \/ EndsUnbooked(r)
        PROVE  UNCHANGED <<Entries, Income, receiptSeq>>
    <2>1. UNCHANGED <<subs, receipts, ledger, receiptSeq>>
      BY <1>1, StartFrame, StatementFrame
         DEF db, EndsUnbooked, CommitAssignment, Rollback, AssignNothing
    <2> QED
      BY <2>1 DEF Entries, Income
  <1> QED
    BY <1>1, StepClasses, CommitSells, CommitPays, RevivesOne, OutsideEnds

\* What the refinement rests on.
BookInv == Typed /\ OneActiveInv /\ NumberInv /\ MoneyInv /\ Locks /\ Bids

\* Whatever enrolments, renewals, payments, corrected marks and the job do at
\* the same time looks like whole enrolments, renewals and payments one after
\* the other, each with the next receipt and its ledger row.
THEOREM ImplementsBook == Spec => KeepsTheBook
  <1>1. Init => BookInv /\ Books!Init
    <2> SUFFICES ASSUME Init PROVE BookInv /\ Books!Init
      OBVIOUS
    <2>1. BookInv
      <3>1. DOMAIN subs = {} /\ \A r \in Req : req[r] = Idle
        BY EmptySeq DEF Init
      <3>2. Bids
        BY <3>1, IdleType DEF Bids
      <3> QED
        BY <3>2, ConstantAssumption, TypeInit, OneActiveInit, NumberInit, MoneyInit, LocksInit
           DEF BookInv
    <2>2. Entries = <<>>
      <3>1. subs = <<>> /\ subs \in Seq(Subscription) /\ Len(subs) = 0
        BY EmptySeq DEF Init
      <3>2. Entries \in Seq(EntryRow) /\ Len(Entries) = 0
        BY <3>1, EntryRows DEF Entries, Entry
      <3> QED
        BY <3>2, EmptySeq
    <2>3. Income = {} /\ receiptSeq = 0
      BY DEF Init, Income
    <2> QED
      BY <2>1, <2>2, <2>3 DEF Books!Init
  <1>2. BookInv /\ [Next]_vars => BookInv' /\ [Books!Next]_<<Entries, Income, receiptSeq>>
    <2> SUFFICES ASSUME BookInv, [Next]_vars
                 PROVE  BookInv' /\ [Books!Next]_<<Entries, Income, receiptSeq>>
      OBVIOUS
    <2>1. BookInv'
      BY ConstantAssumption, TypeNext, OneActiveNext, NumberNext, MoneyNext, LocksNext, BidsNext
         DEF BookInv
    <2> QED
      BY <2>1, ConstantAssumption, BookNext DEF BookInv
  <1> QED
    BY <1>1, <1>2, PTL DEF Spec, KeepsTheBook, Books!Spec

=============================================================================

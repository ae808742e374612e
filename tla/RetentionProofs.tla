-------------------------- MODULE RetentionProofs --------------------------
(***************************************************************************)
(* What TLAPS proves about Retention, for any number of payments,          *)
(* subscriptions and receipts and any size of a batch: no receipt is lost  *)
(* or parted from its ledger row, a subscription is archived as it left,   *)
(* and it follows its receipts in the same run.                            *)
(***************************************************************************)
EXTENDS Retention, FiniteSetTheorems, TLAPS

-----------------------------------------------------------------------------
(* Types *)

\* An open payment is of a subscription.
Typed == TypeOK /\ \A r \in Req : req[r].pc # "idle" => req[r].sub \in Sub

LEMMA Records ==
  /\ Idle \in Payment /\ Idle.pc = "idle"
  /\ \A k \in Steps, f \in BOOLEAN :
        /\ At(k, f) \in Run /\ At(k, f).pc = "select" /\ At(k, f).step = k
        /\ At(k, f).failed = f /\ At(k, f).ids = {} /\ At(k, f).copied = {}
  /\ NoRun \in Run /\ NoRun.pc = "idle" /\ NoRun.step = "receipts" /\ ~NoRun.failed
  /\ NoRun.ids = {} /\ NoRun.copied = {}
  <1>1. Idle \in Payment /\ Idle.pc = "idle"
    BY DEF Idle, Payment
  <1>2. ASSUME NEW k \in Steps, NEW f \in BOOLEAN
        PROVE  /\ At(k, f) \in Run /\ At(k, f).pc = "select" /\ At(k, f).step = k
               /\ At(k, f).failed = f /\ At(k, f).ids = {} /\ At(k, f).copied = {}
    BY DEF At, Run
  <1>3. /\ NoRun \in Run /\ NoRun.pc = "idle" /\ NoRun.step = "receipts" /\ ~NoRun.failed
        /\ NoRun.ids = {} /\ NoRun.copied = {}
    BY DEF NoRun, At, Run, Steps
  <1> QED
    BY <1>1, <1>2, <1>3

\* Where a run goes after a step.
LEMMA Following ==
  ASSUME NEW k \in Steps, NEW f \in BOOLEAN
  PROVE  /\ NextStep(k, f) \in Run /\ NextStep(k, f).pc \in {"idle", "select"}
         /\ k = "receipts" => NextStep(k, f) = At("subscriptions", f)
         /\ k = "subscriptions" => NextStep(k, f) = At("ledger", f)
         /\ k = "ledger" => NextStep(k, f) = NoRun
  <1>1. /\ k = "receipts" => NextStep(k, f) = At("subscriptions", f)
        /\ k = "subscriptions" => NextStep(k, f) = At("ledger", f)
        /\ k = "ledger" => NextStep(k, f) = NoRun
    BY DEF NextStep
  <1>2. k \in {"receipts", "subscriptions", "ledger"}
        /\ "subscriptions" \in Steps /\ "ledger" \in Steps
    BY DEF Steps
  <1> QED
    BY <1>1, <1>2, Records

\* ... and after a batch.
LEMMA Continued ==
  ASSUME NEW k \in Steps, NEW n, Typed
  PROVE  /\ NextBatch(k, n) \in Run /\ NextBatch(k, n).pc \in {"idle", "select"}
         /\ n < Batch => NextBatch(k, n) = NextStep(k, job.failed)
         /\ ~(n < Batch) => NextBatch(k, n) = At(k, job.failed)
  <1>1. job.failed \in BOOLEAN
    BY DEF Typed, TypeOK, Run
  <1> QED
    BY <1>1, Following, Records DEF NextBatch

LEMMA TypeInit == Init => Typed
  BY Records DEF Init, Typed, TypeOK, Subscription

LEMMA IssueType ==
  ASSUME Typed, NEW s \in Sub, Issue(s)
  PROVE  receipts' \subseteq Receipt /\ mirrors' \subseteq Mirror /\ issued' \in Nat
  <1> DEFINE x == [id |-> issued + 1, sub |-> s, old |-> FALSE]
             m == [ref |-> issued + 1, old |-> FALSE]
  <1>1. issued \in Nat /\ receipts \subseteq Receipt /\ mirrors \subseteq Mirror
    BY DEF Typed, TypeOK
  <1>2. x \in Receipt /\ m \in Mirror
    BY <1>1 DEF Receipt, Mirror
  <1>3. receipts' = receipts \cup {x} /\ mirrors' = mirrors \cup {m} /\ issued' = issued + 1
    BY DEF Issue
  <1> HIDE DEF x, m
  <1> QED
    BY <1>1, <1>2, <1>3

LEMMA TypeRequest ==
  ASSUME RetentionAssumption, Typed, NEW r \in Req, Request(r)
  PROVE  Typed'
  <1>1. /\ subs \in [Sub -> Subscription] /\ req \in [Req -> Payment] /\ issued \in Nat
        /\ req[r].pc # "idle" => req[r].sub \in Sub
    BY DEF Typed, TypeOK
  <1>2. ASSUME NEW s \in Sub, NEW a \in Amounts, PayStart(r, s, a) PROVE Typed'
    <2> DEFINE p == [pc |-> "write", sub |-> s, paid |-> subs[s].paid + a,
                     due |-> subs[s].due - a]
    <2>1. p \in Payment /\ p.sub = s
      <3>1. a \in Nat /\ subs[s].paid \in Nat /\ subs[s].due \in Int
        BY <1>1, RetentionAssumption DEF Subscription, RetentionAssumption
      <3> QED
        BY <3>1 DEF Payment
    <2>2. req' = [req EXCEPT ![r] = p] /\ UNCHANGED <<db, job>>
      BY <1>2 DEF PayStart
    <2> HIDE DEF p
    <2>3. req' \in [Req -> Payment] /\ \A q \in Req : req'[q].pc # "idle" => req'[q].sub \in Sub
      BY <1>1, <2>1, <2>2 DEF Typed
    <2> QED
      BY <2>2, <2>3 DEF Typed, TypeOK, db, live, archives
  <1>3. CASE PayWrite(r)
    <2>1. /\ req' \in [Req -> Payment] /\ UNCHANGED <<db, job>>
          /\ \A q \in Req : req'[q].pc # "idle" => req'[q].sub \in Sub
      BY <1>1, <1>3 DEF Typed, PayWrite, Payment
    <2> QED
      BY <2>1 DEF Typed, TypeOK, db, live, archives
  <1>4. CASE PayCommit(r)
    <2>1. /\ req' \in [Req -> Payment]
          /\ \A q \in Req : req'[q].pc # "idle" => req'[q].sub \in Sub
      BY <1>1, <1>4, Records DEF Typed, PayCommit
    <2>2. subs' \in [Sub -> Subscription]
      BY <1>1, <1>4 DEF PayCommit, Subscription, Payment
    <2>3. receipts' \subseteq Receipt /\ mirrors' \subseteq Mirror /\ issued' \in Nat
      BY <1>1, <1>4, IssueType DEF PayCommit
    <2> QED
      BY <1>4, <2>1, <2>2, <2>3 DEF PayCommit, Typed, TypeOK, archives
  <1>5. CASE Rollback(r)
    <2>1. /\ req' \in [Req -> Payment] /\ UNCHANGED <<db, job>>
          /\ \A q \in Req : req'[q].pc # "idle" => req'[q].sub \in Sub
      BY <1>1, <1>5, Records DEF Typed, Rollback
    <2> QED
      BY <2>1 DEF Typed, TypeOK, db, live, archives
  <1> QED
    BY <1>2, <1>3, <1>4, <1>5 DEF Request

LEMMA TypeSell ==
  ASSUME RetentionAssumption, Typed, NEW s \in Sub, NEW a \in Amounts \cup {0}, Sell(s, a)
  PROVE  Typed'
  <1>1. subs \in [Sub -> Subscription] /\ issued \in Nat /\ Price \in Nat /\ a \in Nat
    BY DEF Typed, TypeOK, RetentionAssumption
  <1>2. subs' \in [Sub -> Subscription]
    <2> DEFINE v == [subs[s] EXCEPT !.state = "live", !.paid = a, !.due = Price - a]
    <2>1. v \in Subscription
      <3>1. a \in Nat /\ Price - a \in Int /\ subs[s] \in Subscription
        BY <1>1
      <3> QED
        BY <3>1 DEF Subscription
    <2>2. subs' = [subs EXCEPT ![s] = v]
      BY <1>1 DEF Sell, Subscription
    <2> HIDE DEF v
    <2> QED
      BY <1>1, <2>1, <2>2
  <1>3. receipts' \subseteq Receipt /\ mirrors' \subseteq Mirror /\ issued' \in Nat
    BY IssueType DEF Sell, Typed, TypeOK
  <1> QED
    BY <1>2, <1>3 DEF Sell, Typed, TypeOK, archives

LEMMA TypeJob ==
  ASSUME Typed, ArchiveJob
  PROVE  Typed'
  <1>1. /\ req' = req /\ issued' = issued /\ subs \in [Sub -> Subscription]
        /\ receipts \subseteq Receipt /\ mirrors \subseteq Mirror /\ job \in Run
        /\ archivedSubs \subseteq ArchivedSubscription /\ archivedReceipts \subseteq Receipt
        /\ archivedMirrors \subseteq Mirror
    BY DEF ArchiveJob, JobStart, archiveReceipts, SelectSubscriptions, CopySubscriptions,
           RemoveSubscriptions, archiveLedgerLeftovers, StepFails, JobCrash,
           db, live, Typed, TypeOK
  <1>2. /\ job.step \in Steps /\ job.failed \in BOOLEAN /\ job.ids \subseteq Sub
        /\ job.copied \subseteq ArchivedSubscription /\ TRUE \in BOOLEAN /\ FALSE \in BOOLEAN
        /\ "receipts" \in Steps /\ "subscriptions" \in Steps /\ "ledger" \in Steps
    BY <1>1 DEF Run, Steps
  <1> SUFFICES /\ subs' \in [Sub -> Subscription]
               /\ receipts' \subseteq Receipt /\ mirrors' \subseteq Mirror /\ job' \in Run
               /\ archivedSubs' \subseteq ArchivedSubscription /\ archivedReceipts' \subseteq Receipt
               /\ archivedMirrors' \subseteq Mirror
    BY <1>1 DEF Typed, TypeOK
  <1>3. CASE JobStart
    <2>1. job' \in Run /\ UNCHANGED archives
      BY <1>2, <1>3, Records DEF JobStart
    <2>2. PICK S \in SUBSET {s \in Sub : Live(s)}, R \in SUBSET receipts, M \in SUBSET mirrors :
             /\ subs' = [s \in Sub |-> IF s \in S THEN [subs[s] EXCEPT !.ended = TRUE] ELSE subs[s]]
             /\ receipts' = (receipts \ R) \cup {[x EXCEPT !.old = TRUE] : x \in R}
             /\ mirrors' = (mirrors \ M) \cup {[m EXCEPT !.old = TRUE] : m \in M}
      BY <1>3 DEF JobStart
    <2>3. \A s \in Sub : [subs[s] EXCEPT !.ended = TRUE] \in Subscription
      BY <1>1 DEF Subscription
    <2>4. /\ \A x \in receipts : [x EXCEPT !.old = TRUE] \in Receipt
          /\ \A m \in mirrors : [m EXCEPT !.old = TRUE] \in Mirror
      BY <1>1 DEF Receipt, Mirror
    <2> QED
      BY <1>1, <2>1, <2>2, <2>3, <2>4 DEF archives
  <1>4. CASE archiveReceipts
    <2>1. PICK R \in SUBSET receipts : job' = NextBatch("receipts", Cardinality(R))
            /\ receipts' = receipts \ R /\ archivedReceipts' = archivedReceipts \cup R
      BY <1>4 DEF archiveReceipts
    <2>2. mirrors' \subseteq mirrors /\ archivedMirrors' \subseteq archivedMirrors \cup mirrors
      BY <1>4 DEF archiveReceipts
    <2>3. UNCHANGED <<subs, archivedSubs>>
      BY <1>4 DEF archiveReceipts
    <2> QED
      BY <1>1, <1>2, <2>1, <2>2, <2>3, Continued
  <1>5. CASE SelectSubscriptions
    <2>1. PICK ids \in SUBSET Eligible :
             job' = IF ids = {} THEN NextStep("subscriptions", job.failed)
                    ELSE [job EXCEPT !.pc = "copy", !.ids = ids]
      BY <1>5 DEF SelectSubscriptions
    <2>2. [job EXCEPT !.pc = "copy", !.ids = ids] \in Run
      BY <1>1 DEF Run, Eligible
    <2>3. NextStep("subscriptions", job.failed) \in Run
      BY <1>2, Following
    <2> QED
      BY <1>1, <1>5, <2>1, <2>2, <2>3 DEF SelectSubscriptions, db, live, archives
  <1>6. CASE CopySubscriptions
    <2> DEFINE C == {[sub |-> s, paid |-> subs[s].paid, due |-> subs[s].due] : s \in job.ids}
    <2>1. C \subseteq ArchivedSubscription
      BY <1>1, <1>2 DEF ArchivedSubscription, Subscription
    <2>2. job' = [job EXCEPT !.pc = "remove", !.copied = C]
      BY <1>6 DEF CopySubscriptions
    <2> HIDE DEF C
    <2>3. job' \in Run
      BY <1>1, <2>1, <2>2 DEF Run
    <2> QED
      BY <1>1, <1>6, <2>3 DEF CopySubscriptions, db, live, archives
  <1>7. CASE RemoveSubscriptions
    <2>1. \A s \in Sub : [subs[s] EXCEPT !.state = "gone"] \in Subscription
      BY <1>1 DEF Subscription
    <2>2. subs' = [s \in Sub |-> IF s \in job.ids THEN [subs[s] EXCEPT !.state = "gone"]
                                               ELSE subs[s]]
      BY <1>7 DEF RemoveSubscriptions
    <2>3. subs' \in [Sub -> Subscription]
      BY <1>1, <2>1, <2>2
    <2>4. job' \in Run
      BY <1>2, <1>7, Continued DEF RemoveSubscriptions
    <2> QED
      BY <1>1, <1>2, <1>7, <2>3, <2>4 DEF RemoveSubscriptions
  <1>8. CASE archiveLedgerLeftovers
    <2>1. job' \in Run
      BY <1>2, <1>8, Continued DEF archiveLedgerLeftovers
    <2> QED
      BY <1>1, <1>8, <2>1 DEF archiveLedgerLeftovers, Leftovers
  <1>9. CASE StepFails
    BY <1>1, <1>2, <1>9, Following DEF StepFails, db, live, archives
  <1>10. CASE JobCrash
    BY <1>1, <1>10, Records DEF JobCrash, db, live, archives
  <1> QED
    BY <1>3, <1>4, <1>5, <1>6, <1>7, <1>8, <1>9, <1>10 DEF ArchiveJob

LEMMA TypeNext == RetentionAssumption /\ Typed /\ [Next]_vars => Typed'
  <1>1. Typed /\ UNCHANGED vars => Typed'
    BY DEF Typed, TypeOK, vars, db, live, archives
  <1> QED
    BY <1>1, TypeRequest, TypeSell, TypeJob DEF Next

\* The variables always have the shapes they should.
THEOREM TypeCorrect == Spec => []TypeOK
  <1>1. Typed => TypeOK
    BY DEF Typed
  <1> QED
    BY <1>1, TypeInit, TypeNext, RetentionAssumption, PTL DEF Spec

-----------------------------------------------------------------------------
(* Receipts, their ledger rows and their subscriptions *)

\* A receipt has its id for itself, and a payment that has locked its
\* subscription will find it there.
Unique == \A x, y \in receipts : x.id = y.id => x = y
Held == \A r \in Req : req[r].pc = "commit" => Live(req[r].sub)

\* A batch of subscriptions that has been captured is still there.
Captured == job.pc \in {"copy", "remove"} => \A s \in job.ids : Live(s)

Own == ReceiptsKeepTheirOwn /\ Unique /\ Held /\ Captured

\* No step but RemoveSubscriptions takes a subscription away.
StaysLive == \A s \in Sub : Live(s) => Live(s)'

\* Nobody but s enrols or renews.
NoSaleBut(S) == \A u \in Sub \ S : subs'[u].state # "new" => subs[u].state # "new"

\* Who has a receipt keeps one, live or archived.
LEMMA ReceiptedFrame ==
  ASSUME Own, NoSaleBut({}),
         \A x \in receipts \cup archivedReceipts :
            \E y \in receipts' \cup archivedReceipts' : y.sub = x.sub
  PROVE  EverySaleHasItsReceipt'
  <1> SUFFICES ASSUME NEW s \in Sub, subs'[s].state # "new"
               PROVE  \E y \in receipts' \cup archivedReceipts' : y.sub = s
    BY DEF EverySaleHasItsReceipt
  <1>1. PICK x \in receipts \cup archivedReceipts : x.sub = s
    BY DEF NoSaleBut, Own, ReceiptsKeepTheirOwn, EverySaleHasItsReceipt
  <1> QED
    BY <1>1

\* A receipt is issued, with its mirror.
LEMMA OwnIssue ==
  ASSUME Typed, Own, NEW s \in Sub, Issue(s), Live(s)', StaysLive, UNCHANGED archives,
         NoSaleBut({s})
  PROVE  ReceiptsKeepTheirOwn' /\ Unique'
  <1> DEFINE x == [id |-> issued + 1, sub |-> s, old |-> FALSE]
             m == [ref |-> issued + 1, old |-> FALSE]
  <1>1. /\ receipts' = receipts \cup {x} /\ mirrors' = mirrors \cup {m} /\ issued' = issued + 1
        /\ x.id = issued + 1 /\ x.sub = s /\ m.ref = issued + 1
        /\ issued \in Nat /\ receipts \subseteq Receipt
        /\ archivedReceipts' = archivedReceipts /\ archivedMirrors' = archivedMirrors
    BY DEF Issue, Typed, TypeOK, archives
  <1>2. \A y \in receipts : y.sub \in Sub /\ Live(y.sub) /\ y.id # issued + 1
    <2> SUFFICES ASSUME NEW y \in receipts
                 PROVE  y.sub \in Sub /\ Live(y.sub) /\ y.id # issued + 1
      OBVIOUS
    <2>1. y.id \in Ids(receipts)
      BY DEF Ids
    <2>2. y.id \in 1 .. issued
      BY <2>1 DEF Own, ReceiptsKeepTheirOwn
    <2> QED
      BY <1>1, <2>2 DEF Own, ReceiptsKeepTheirOwn, Receipt
  <1> HIDE DEF x, m
  <1>3. Ids(receipts)' = Ids(receipts) \cup {issued + 1}
    BY <1>1 DEF Ids
  <1>4. Refs(mirrors)' = Refs(mirrors) \cup {issued + 1}
    BY <1>1 DEF Refs
  <1>5. Ids(archivedReceipts)' = Ids(archivedReceipts) /\ Refs(archivedMirrors)' = Refs(archivedMirrors)
    BY <1>1 DEF Ids, Refs
  <1>6. /\ Ids(receipts) \cup Ids(archivedReceipts) = 1 .. issued
        /\ Ids(receipts) \cap Ids(archivedReceipts) = {}
        /\ Refs(mirrors) = Ids(receipts)
        /\ Refs(archivedMirrors) = Ids(archivedReceipts)
    BY DEF Own, ReceiptsKeepTheirOwn
  <1>7. 1 .. issued' = (1 .. issued) \cup {issued + 1} /\ issued + 1 \notin 1 .. issued
    BY <1>1
  <1>8. /\ (Ids(receipts) \cup Ids(archivedReceipts) = 1 .. issued)'
        /\ (Ids(receipts) \cap Ids(archivedReceipts) = {})'
        /\ (Refs(mirrors) = Ids(receipts))'
        /\ (Refs(archivedMirrors) = Ids(archivedReceipts))'
    BY <1>3, <1>4, <1>5, <1>6, <1>7
  <1>9. \A y \in receipts' : Live(y.sub)'
    BY <1>1, <1>2 DEF StaysLive
  <1>10. Unique'
    BY <1>1, <1>2 DEF Own, Unique
  <1>11. EverySaleHasItsReceipt'
    <2> SUFFICES ASSUME NEW u \in Sub, subs'[u].state # "new"
                 PROVE  \E y \in receipts' \cup archivedReceipts' : y.sub = u
      BY DEF EverySaleHasItsReceipt
    <2>1. CASE u = s
      BY <1>1, <2>1
    <2>2. CASE u # s
      <3>1. PICK y \in receipts \cup archivedReceipts : y.sub = u
        BY <2>2 DEF NoSaleBut, Own, ReceiptsKeepTheirOwn, EverySaleHasItsReceipt
      <3> QED
        BY <1>1, <3>1
    <2> QED
      BY <2>1, <2>2
  <1> QED
    BY <1>8, <1>9, <1>10, <1>11 DEF ReceiptsKeepTheirOwn

\* Nothing happens to receipts and mirrors.
LEMMA OwnFrame ==
  ASSUME Typed, Own, StaysLive, NoSaleBut({}),
         UNCHANGED <<receipts, mirrors, archivedReceipts, archivedMirrors, issued>>
  PROVE  ReceiptsKeepTheirOwn' /\ Unique'
  <1>1. \A y \in receipts : y.sub \in Sub
    BY DEF Typed, TypeOK, Receipt
  <1>2. \A y \in receipts' : Live(y.sub)'
    BY <1>1 DEF Own, ReceiptsKeepTheirOwn, StaysLive
  <1>3. /\ (Ids(receipts) \cup Ids(archivedReceipts) = 1 .. issued)'
        /\ (Ids(receipts) \cap Ids(archivedReceipts) = {})'
        /\ (Refs(mirrors) = Ids(receipts))'
        /\ (Refs(archivedMirrors) = Ids(archivedReceipts))'
    BY DEF Own, ReceiptsKeepTheirOwn, Ids, Refs
  <1>4. EverySaleHasItsReceipt'
    BY ReceiptedFrame
  <1> QED
    BY <1>2, <1>3, <1>4 DEF ReceiptsKeepTheirOwn, Own, Unique

LEMMA HeldFrame ==
  ASSUME Typed, Own, StaysLive,
         \A r \in Req : req'[r].pc = "commit" =>
                          req[r].pc = "commit" /\ req'[r].sub = req[r].sub
  PROVE  Held'
  <1>1. \A r \in Req : req[r].pc = "commit" => req[r].sub \in Sub
    BY DEF Typed
  <1> QED
    BY <1>1 DEF Own, Held, StaysLive

LEMMA CapturedFrame ==
  ASSUME Typed, Own, StaysLive, job' = job
  PROVE  Captured'
  <1>1. job.ids \subseteq Sub
    BY DEF Typed, TypeOK, Run
  <1> QED
    BY <1>1 DEF Own, Captured, StaysLive

\* The job is not inside a batch of subscriptions.
LEMMA CapturedOutside == ASSUME job'.pc \in {"idle", "select"} PROVE Captured'
  BY DEF Captured

LEMMA OwnRequest ==
  ASSUME RetentionAssumption, Typed, Own, NEW r \in Req, Request(r)
  PROVE  Own'
  <1>1. /\ subs \in [Sub -> Subscription] /\ req \in [Req -> Payment]
        /\ req[r].pc # "idle" => req[r].sub \in Sub
    BY DEF Typed, TypeOK
  <1>2. ASSUME NEW s \in Sub, NEW a \in Amounts, PayStart(r, s, a) PROVE Own'
    <2>1. UNCHANGED db /\ \A q \in Req : req'[q].pc = "commit" =>
                              req[q].pc = "commit" /\ req'[q].sub = req[q].sub
      BY <1>1, <1>2 DEF PayStart
    <2>2. StaysLive /\ NoSaleBut({})
      BY <2>1 DEF StaysLive, Live, NoSaleBut, db, live
    <2> QED
      BY <2>1, <2>2, OwnFrame, HeldFrame, CapturedFrame, <1>2 DEF Own, PayStart, db, live, archives
  <1>3. CASE PayWrite(r)
    <2>1. UNCHANGED <<db, job>>
      BY <1>3 DEF PayWrite
    <2>2. StaysLive /\ NoSaleBut({})
      BY <2>1 DEF StaysLive, Live, NoSaleBut, db, live
    <2>3. /\ req'[r].sub = req[r].sub /\ \A q \in Req : q # r => req'[q] = req[q]
          /\ Live(req[r].sub) /\ req[r].sub \in Sub
      BY <1>1, <1>3 DEF PayWrite, Payment
    <2>4. Held'
      <3> SUFFICES ASSUME NEW q \in Req, req'[q].pc = "commit" PROVE Live(req[q].sub)'
        BY DEF Held
      <3>1. CASE q = r
        BY <2>2, <2>3, <3>1 DEF StaysLive, Live
      <3>2. CASE q # r
        BY <2>2, <2>3, <3>2 DEF StaysLive, Live, Own, Held, Typed
      <3> QED
        BY <3>1, <3>2
    <2> QED
      BY <2>1, <2>2, <2>4, OwnFrame, CapturedFrame DEF Own, db, live, archives
  <1>4. CASE PayCommit(r)
    <2>0. PICK s \in Sub : s = req[r].sub
      BY <1>1, <1>4 DEF PayCommit
    <2>1. /\ Live(s) /\ Issue(s) /\ UNCHANGED <<archives, job>>
          /\ subs' = [subs EXCEPT ![s].paid = req[r].paid, ![s].due = req[r].due]
          /\ req' = [req EXCEPT ![r] = Idle]
      BY <1>1, <1>4, <2>0 DEF PayCommit, Own, Held
    <2>2. \A u \in Sub : subs'[u].state = subs[u].state
      BY <1>1, <2>1 DEF Subscription
    <2>3. StaysLive /\ Live(s)' /\ NoSaleBut({s})
      BY <2>1, <2>2 DEF StaysLive, Live, NoSaleBut
    <2>4. \A q \in Req : req'[q].pc = "commit" =>
                              req[q].pc = "commit" /\ req'[q].sub = req[q].sub
      BY <1>1, <2>1, Records
    <2>5. ReceiptsKeepTheirOwn' /\ Unique'
      BY <2>1, <2>3, OwnIssue
    <2> QED
      BY <2>1, <2>3, <2>4, <2>5, HeldFrame, CapturedFrame DEF Own
  <1>5. CASE Rollback(r)
    <2>1. UNCHANGED <<db, job>> /\ \A q \in Req : req'[q].pc = "commit" =>
                              req[q].pc = "commit" /\ req'[q].sub = req[q].sub
      BY <1>1, <1>5, Records DEF Rollback
    <2>2. StaysLive /\ NoSaleBut({})
      BY <2>1 DEF StaysLive, Live, NoSaleBut, db, live
    <2> QED
      BY <2>1, <2>2, OwnFrame, HeldFrame, CapturedFrame DEF Own, db, live, archives
  <1> QED
    BY <1>2, <1>3, <1>4, <1>5 DEF Request

LEMMA OwnSell ==
  ASSUME RetentionAssumption, Typed, Own, NEW s \in Sub, NEW a \in Amounts \cup {0}, Sell(s, a)
  PROVE  Own'
  <1>1. /\ subs \in [Sub -> Subscription] /\ req' = req /\ UNCHANGED <<archives, job>>
        /\ subs' = [subs EXCEPT ![s].state = "live", ![s].paid = a, ![s].due = Price - a]
    BY DEF Typed, TypeOK, Sell
  <1>2. StaysLive /\ Live(s)' /\ NoSaleBut({s})
    BY <1>1 DEF StaysLive, Live, NoSaleBut, Subscription
  <1>3. Held'
    BY <1>1, <1>2, HeldFrame
  <1> QED
    BY <1>1, <1>2, <1>3, OwnIssue, CapturedFrame DEF Own, Sell

\* Ageing changes no id, no reference and no subscription.
LEMMA OwnStart ==
  ASSUME Typed, Own, JobStart
  PROVE  Own'
  <1>1. PICK S \in SUBSET {s \in Sub : Live(s)}, R \in SUBSET receipts, M \in SUBSET mirrors :
           /\ subs' = [s \in Sub |-> IF s \in S THEN [subs[s] EXCEPT !.ended = TRUE] ELSE subs[s]]
           /\ receipts' = (receipts \ R) \cup {[x EXCEPT !.old = TRUE] : x \in R}
           /\ mirrors' = (mirrors \ M) \cup {[m EXCEPT !.old = TRUE] : m \in M}
    BY DEF JobStart
  <1>2. /\ req' = req /\ issued' = issued /\ archivedReceipts' = archivedReceipts
        /\ archivedMirrors' = archivedMirrors
        /\ subs \in [Sub -> Subscription] /\ receipts \subseteq Receipt /\ mirrors \subseteq Mirror
    BY DEF JobStart, archives, Typed, TypeOK
  <1>3. \A s \in Sub : subs'[s].state = subs[s].state
    BY <1>1, <1>2 DEF Subscription
  <1>4. StaysLive
    BY <1>3 DEF StaysLive, Live
  <1> DEFINE aged(x) == [x EXCEPT !.old = TRUE]
  <1>5. /\ \A x \in receipts : aged(x).id = x.id /\ aged(x).sub = x.sub
        /\ \A m \in mirrors : aged(m).ref = m.ref
    BY <1>2 DEF Receipt, Mirror
  <1>6. /\ \A y \in receipts' : \E x \in receipts : (y = x /\ x \notin R) \/ (y = aged(x) /\ x \in R)
        /\ \A x \in receipts : (IF x \in R THEN aged(x) ELSE x) \in receipts'
        /\ \A y \in mirrors' : \E m \in mirrors : y = m \/ y = aged(m)
        /\ \A m \in mirrors : m \in mirrors' \/ aged(m) \in mirrors'
    BY <1>1
  <1> HIDE DEF aged
  <1>7. Ids(receipts') = Ids(receipts) /\ Refs(mirrors') = Refs(mirrors)
    BY <1>5, <1>6 DEF Ids, Refs
  <1>8. \A y \in receipts' : Live(y.sub)'
    <2> SUFFICES ASSUME NEW y \in receipts' PROVE Live(y.sub)'
      OBVIOUS
    <2>1. PICK x \in receipts : y.sub = x.sub
      BY <1>5, <1>6
    <2> QED
      BY <1>2, <1>4, <2>1 DEF Own, ReceiptsKeepTheirOwn, StaysLive, Receipt
  <1>9. Unique'
    <2> SUFFICES ASSUME NEW y \in receipts', NEW z \in receipts', y.id = z.id PROVE y = z
      BY DEF Unique
    <2>1. PICK v \in receipts : (y = v /\ v \notin R) \/ (y = aged(v) /\ v \in R)
      BY <1>6
    <2>2. PICK w \in receipts : (z = w /\ w \notin R) \/ (z = aged(w) /\ w \in R)
      BY <1>6
    <2>3. v.id = w.id
      BY <1>5, <2>1, <2>2
    <2>4. v = w
      BY <2>3 DEF Own, Unique
    <2> QED
      BY <2>1, <2>2, <2>4
  <1>10. Held'
    BY <1>2, <1>4, HeldFrame
  <1>11. EverySaleHasItsReceipt'
    <2>1. NoSaleBut({})
      BY <1>3 DEF NoSaleBut
    <2>2. \A x \in receipts : \E y \in receipts' : y.sub = x.sub
      BY <1>5, <1>6
    <2> QED
      BY <1>2, <2>1, <2>2, ReceiptedFrame
  <1>12. Captured'
    <2>1. job' = At("receipts", FALSE) /\ "receipts" \in Steps /\ FALSE \in BOOLEAN
      BY DEF JobStart, Steps
    <2> QED
      BY <2>1, CapturedOutside, Records
  <1> QED
    BY <1>2, <1>7, <1>8, <1>9, <1>10, <1>11, <1>12 DEF Own, ReceiptsKeepTheirOwn

\* A batch of receipts takes its mirrors along, and no other.
LEMMA OwnMove ==
  ASSUME Typed, Own, archiveReceipts
  PROVE  Own'
  <1> DEFINE mine(R) == {m \in mirrors : m.ref \in Ids(R)}
  <1>1. PICK R \in SUBSET receipts :
           /\ receipts' = receipts \ R /\ archivedReceipts' = archivedReceipts \cup R
           /\ mirrors' = mirrors \ mine(R) /\ archivedMirrors' = archivedMirrors \cup mine(R)
    BY DEF archiveReceipts
  <1>2. UNCHANGED <<subs, issued, req>>
    BY DEF archiveReceipts
  <1>3. StaysLive
    BY <1>2 DEF StaysLive, Live
  <1>4. /\ Ids(receipts') = Ids(receipts) \ Ids(R) /\ Ids(R) \subseteq Ids(receipts)
        /\ Ids(archivedReceipts') = Ids(archivedReceipts) \cup Ids(R)
    BY <1>1 DEF Ids, Own, Unique
  <1>5. Ids(R) \subseteq Refs(mirrors)
    BY <1>4 DEF Own, ReceiptsKeepTheirOwn
  <1>6. Refs(mine(R)) = Ids(R) /\ Refs(mirrors \ mine(R)) = Refs(mirrors) \ Ids(R)
    BY <1>5 DEF Refs
  <1>7. /\ Refs(mirrors') = Refs(mirrors) \ Ids(R)
        /\ Refs(archivedMirrors') = Refs(archivedMirrors) \cup Ids(R)
    <2> HIDE DEF mine
    <2>1. Refs(archivedMirrors \cup mine(R)) = Refs(archivedMirrors) \cup Refs(mine(R))
      BY DEF Refs
    <2> QED
      BY <1>1, <1>6, <2>1
  <1>8. \A y \in receipts' : Live(y.sub)'
    BY <1>1, <1>3 DEF Own, ReceiptsKeepTheirOwn, StaysLive, Typed, TypeOK, Receipt
  <1>9. Unique' /\ Held'
    BY <1>1, <1>2, <1>3, HeldFrame DEF Own, Unique
  <1>10. EverySaleHasItsReceipt'
    BY <1>1, <1>2, ReceiptedFrame DEF NoSaleBut
  <1>11. Captured'
    BY CapturedOutside, Continued DEF archiveReceipts, Steps
  <1> QED
    BY <1>2, <1>4, <1>7, <1>8, <1>9, <1>10, <1>11 DEF Own, ReceiptsKeepTheirOwn

\* No subscription with a receipt or an open payment is taken away.
LEMMA OwnRemove ==
  ASSUME Typed, Own, RemoveSubscriptions
  PROVE  Own'
  <1>1. /\ \A s \in job.ids : RowFree(s) /\ ReceiptsOf(s) = {}
        /\ subs' = [s \in Sub |-> IF s \in job.ids THEN [subs[s] EXCEPT !.state = "gone"]
                                               ELSE subs[s]]
        /\ UNCHANGED <<receipts, mirrors, archivedReceipts, archivedMirrors, issued, req>>
    BY DEF RemoveSubscriptions
  <1>2. \A s \in Sub \ job.ids : Live(s) => Live(s)'
    BY <1>1 DEF Live
  <1>3. \A y \in receipts : y.sub \in Sub \ job.ids
    BY <1>1 DEF ReceiptsOf, Typed, TypeOK, Receipt
  <1>4. \A r \in Req : req[r].pc = "commit" => req[r].sub \in Sub \ job.ids
    BY <1>1 DEF RowFree, Typed
  <1>5. Held'
    <2> SUFFICES ASSUME NEW r \in Req, req[r].pc = "commit" PROVE Live(req[r].sub)'
      BY <1>1 DEF Held
    <2> QED
      BY <1>1, <1>2, <1>4 DEF Own, Held, Live
  <1>6. \A y \in receipts' : Live(y.sub)'
    BY <1>1, <1>2, <1>3 DEF Own, ReceiptsKeepTheirOwn
  <1>7. EverySaleHasItsReceipt'
    <2>1. \A s \in job.ids : Live(s)
      BY DEF RemoveSubscriptions, Own, Captured
    <2>2. NoSaleBut({})
      BY <1>1, <2>1 DEF NoSaleBut, Live
    <2> QED
      BY <1>1, <2>2, ReceiptedFrame
  <1>8. Captured'
    BY CapturedOutside, Continued DEF RemoveSubscriptions, Steps
  <1> QED
    BY <1>1, <1>5, <1>6, <1>7, <1>8 DEF Own, ReceiptsKeepTheirOwn, Unique

\* There are no leftovers: every ledger row of this model has its receipt.
LEMMA NoLeftovers == ASSUME Own PROVE Leftovers = {}
  BY DEF Own, ReceiptsKeepTheirOwn, Leftovers, Refs, Ids

LEMMA OwnJob ==
  ASSUME Typed, Own, ArchiveJob
  PROVE  Own'
  <1>0. /\ job \in Run /\ job.step \in Steps /\ job.failed \in BOOLEAN
        /\ TRUE \in BOOLEAN /\ "subscriptions" \in Steps /\ "ledger" \in Steps
    BY DEF Typed, TypeOK, Run, Steps
  <1>1. ASSUME UNCHANGED <<db, req>>, Captured' PROVE Own'
    <2>1. StaysLive /\ NoSaleBut({})
      BY <1>1 DEF StaysLive, Live, NoSaleBut, db, live
    <2> QED
      BY <1>1, <2>1, OwnFrame, HeldFrame DEF Own, db, live, archives
  <1>2. CASE archiveLedgerLeftovers
    <2>1. PICK M \in SUBSET Leftovers :
             mirrors' = mirrors \ M /\ archivedMirrors' = archivedMirrors \cup M
      BY <1>2 DEF archiveLedgerLeftovers
    <2>2. mirrors' = mirrors /\ archivedMirrors' = archivedMirrors
      BY <2>1, NoLeftovers
    <2>3. UNCHANGED <<subs, receipts, archivedReceipts, issued, req>>
      BY <1>2 DEF archiveLedgerLeftovers
    <2>4. StaysLive /\ NoSaleBut({})
      BY <2>3 DEF StaysLive, Live, NoSaleBut
    <2>5. Captured'
      BY <1>0, <1>2, CapturedOutside, Continued DEF archiveLedgerLeftovers
    <2> QED
      BY <2>2, <2>3, <2>4, <2>5, OwnFrame, HeldFrame DEF Own
  <1>3. CASE SelectSubscriptions
    <2>1. PICK ids \in SUBSET Eligible :
             job' = IF ids = {} THEN NextStep("subscriptions", job.failed)
                    ELSE [job EXCEPT !.pc = "copy", !.ids = ids]
      BY <1>3 DEF SelectSubscriptions
    <2>2. UNCHANGED <<db, req>>
      BY <1>3 DEF SelectSubscriptions
    <2>3. CASE ids = {}
      BY <1>0, <1>1, <2>1, <2>2, <2>3, Following, CapturedOutside
    <2>4. CASE ids # {}
      <3>1. job'.ids = ids
        BY <1>0, <2>1, <2>4 DEF Run
      <3>2. Captured'
        BY <2>2, <3>1 DEF Captured, Eligible, Live, db, live
      <3> QED
        BY <1>1, <2>2, <3>2
    <2> QED
      BY <2>3, <2>4
  <1>4. CASE CopySubscriptions
    <2>1. /\ job.pc = "copy" /\ job'.ids = job.ids /\ UNCHANGED <<db, req>>
      BY <1>0, <1>4 DEF CopySubscriptions, Run
    <2>2. Captured'
      BY <2>1 DEF Own, Captured, Live, db, live
    <2> QED
      BY <1>1, <2>1, <2>2
  <1>5. CASE StepFails
    BY <1>0, <1>1, <1>5, Following, CapturedOutside DEF StepFails
  <1>6. CASE JobCrash
    BY <1>1, <1>6, Records, CapturedOutside DEF JobCrash
  <1> QED
    BY <1>2, <1>3, <1>4, <1>5, <1>6, OwnStart, OwnMove, OwnRemove DEF ArchiveJob

LEMMA OwnNext == RetentionAssumption /\ Typed /\ Own /\ [Next]_vars => Own'
  <1>1. ASSUME Typed, Own, UNCHANGED vars PROVE Own'
    <2>1. StaysLive /\ NoSaleBut({})
      BY <1>1 DEF StaysLive, Live, NoSaleBut, vars, db, live
    <2> QED
      BY <1>1, <2>1, OwnFrame, HeldFrame, CapturedFrame DEF Own, vars, db, live, archives
  <1> QED
    BY <1>1, OwnRequest, OwnSell, OwnJob DEF Next

LEMMA OwnInit == Init => Own
  <1> SUFFICES ASSUME Init PROVE Own
    OBVIOUS
  <1>1. Ids({}) = {} /\ Refs({}) = {} /\ 1 .. 0 = {}
    BY DEF Ids, Refs
  <1>2. EverySaleHasItsReceipt
    BY DEF Init, EverySaleHasItsReceipt
  <1> QED
    BY <1>1, <1>2, Records DEF Init, Own, ReceiptsKeepTheirOwn, Unique, Held, Captured

\* Every receipt issued is in exactly one of the two tables, its ledger row in
\* the same one, and a live receipt has a live subscription.
THEOREM ReceiptsKept == Spec => []ReceiptsKeepTheirOwn
  <1>1. Own => ReceiptsKeepTheirOwn
    BY DEF Own
  <1> QED
    BY <1>1, TypeInit, TypeNext, OwnInit, OwnNext, RetentionAssumption, PTL DEF Spec

-----------------------------------------------------------------------------
(* Subscriptions are archived as they left *)

\* What a batch has copied is right for every row of it that no receipt has
\* been issued for since.
Copies ==
    job.pc = "remove" =>
      /\ \A s \in job.ids : \E c \in job.copied : c.sub = s
      /\ \A c \in job.copied :
            /\ c.sub \in job.ids
            /\ ReceiptsOf(c.sub) = {} => /\ c.paid = subs[c.sub].paid
                                         /\ c.due = subs[c.sub].due

Left == ArchivedAsLeft /\ Copies

\* Nothing is archived, and nothing changes that has been.
LEMMA ArchiveFrame ==
  ASSUME Typed, ArchivedAsLeft, archivedSubs' = archivedSubs,
         \A s \in Sub : /\ subs'[s].state = "gone" <=> subs[s].state = "gone"
                        /\ subs[s].state = "gone" => /\ subs'[s].paid = subs[s].paid
                                                     /\ subs'[s].due = subs[s].due
  PROVE  ArchivedAsLeft'
  <1>1. \A a \in archivedSubs : a.sub \in Sub
    BY DEF Typed, TypeOK, ArchivedSubscription
  <1>2. \A a \in archivedSubs : subs[a.sub].state = "gone"
    BY <1>1 DEF ArchivedAsLeft
  <1> QED
    BY <1>1, <1>2 DEF ArchivedAsLeft

\* The job stands still, and a balance changes only with a receipt.
LEMMA CopiesFrame ==
  ASSUME Typed, Own, Copies, job' = job,
         \A s \in Sub : Live(s) /\ ReceiptsOf(s)' = {} =>
            /\ ReceiptsOf(s) = {}
            /\ subs'[s].paid = subs[s].paid /\ subs'[s].due = subs[s].due
  PROVE  Copies'
  <1>1. job.ids \subseteq Sub
    BY DEF Typed, TypeOK, Run
  <1>2. ASSUME job'.pc = "remove", NEW c \in job'.copied
        PROVE  /\ c.sub \in job'.ids
               /\ ReceiptsOf(c.sub)' = {} => /\ c.paid = subs'[c.sub].paid
                                             /\ c.due = subs'[c.sub].due
    <2>1. /\ c.sub \in job.ids /\ c.sub \in Sub
          /\ ReceiptsOf(c.sub) = {} => c.paid = subs[c.sub].paid /\ c.due = subs[c.sub].due
      BY <1>1, <1>2 DEF Copies
    <2>2. Live(c.sub)
      BY <1>2, <2>1 DEF Own, Captured
    <2> QED
      BY <2>1, <2>2
  <1> QED
    BY <1>2 DEF Copies

\* The job is not inside a batch of subscriptions.
LEMMA CopiesOutside == ASSUME job'.pc \in {"idle", "select"} PROVE Copies'
  BY DEF Copies

LEMMA LeftStill ==
  ASSUME Typed, Left, UNCHANGED <<db, job>>
  PROVE  Left'
  <1>1. ArchivedAsLeft'
    BY DEF Left, ArchivedAsLeft, db, live, archives
  <1>2. Copies'
    BY DEF Left, Copies, Live, ReceiptsOf, db, live, archives
  <1> QED
    BY <1>1, <1>2 DEF Left

LEMMA LeftRequest ==
  ASSUME Typed, Own, Left, NEW r \in Req, Request(r)
  PROVE  Left'
  <1>1. CASE UNCHANGED <<db, job>>
    BY <1>1, LeftStill
  <1>2. CASE PayCommit(r)
    <2>0. /\ subs \in [Sub -> Subscription] /\ req[r].pc = "commit" /\ req[r].sub \in Sub
      BY <1>2 DEF PayCommit, Typed, TypeOK
    <2>1. PICK s \in Sub : s = req[r].sub
      BY <2>0
    <2>2. /\ Live(s) /\ Issue(s) /\ job' = job /\ archivedSubs' = archivedSubs
          /\ subs' = [subs EXCEPT ![s].paid = req[r].paid, ![s].due = req[r].due]
      BY <1>2, <2>0, <2>1 DEF PayCommit, Own, Held, archives
    <2>3. /\ \A u \in Sub : subs'[u].state = subs[u].state
          /\ \A u \in Sub : u # s => subs'[u] = subs[u]
      BY <2>0, <2>2 DEF Subscription
    <2>4. /\ [id |-> issued + 1, sub |-> s, old |-> FALSE] \in receipts'
          /\ receipts \subseteq receipts'
      BY <2>2 DEF Issue
    <2>5. \A u \in Sub : ReceiptsOf(u)' = {} => u # s /\ ReceiptsOf(u) = {}
      BY <2>4 DEF ReceiptsOf
    <2>6. ArchivedAsLeft'
      BY <2>2, <2>3, ArchiveFrame DEF Left, Live
    <2>7. Copies'
      BY <2>2, <2>3, <2>5, CopiesFrame DEF Left
    <2> QED
      BY <2>6, <2>7 DEF Left
  <1> QED
    BY <1>1, <1>2 DEF Request, PayStart, PayWrite, Rollback

LEMMA LeftSell ==
  ASSUME Typed, Own, Left, NEW s \in Sub, NEW a \in Amounts \cup {0}, Sell(s, a)
  PROVE  Left'
  <1>1. /\ subs \in [Sub -> Subscription] /\ job' = job /\ archivedSubs' = archivedSubs
        /\ subs' = [subs EXCEPT ![s].state = "live", ![s].paid = a, ![s].due = Price - a]
        /\ subs[s].state = "new"
    BY DEF Typed, TypeOK, Sell, archives
  <1>2. subs'[s].state = "live" /\ \A u \in Sub : u # s => subs'[u] = subs[u]
    BY <1>1 DEF Subscription
  <1>3. receipts \subseteq receipts'
    BY DEF Sell, Issue
  <1>4. \A u \in Sub : ReceiptsOf(u)' = {} => ReceiptsOf(u) = {}
    BY <1>3 DEF ReceiptsOf
  <1>5. ArchivedAsLeft'
    BY <1>1, <1>2, ArchiveFrame DEF Left
  <1>6. Copies'
    BY <1>1, <1>2, <1>4, CopiesFrame DEF Left, Live
  <1> QED
    BY <1>5, <1>6 DEF Left

LEMMA LeftJob ==
  ASSUME Typed, Own, Left, ArchiveJob
  PROVE  Left'
  <1>0. /\ subs \in [Sub -> Subscription] /\ job \in Run
        /\ job.step \in Steps /\ job.failed \in BOOLEAN /\ job.ids \subseteq Sub
        /\ TRUE \in BOOLEAN /\ FALSE \in BOOLEAN
        /\ "receipts" \in Steps /\ "subscriptions" \in Steps /\ "ledger" \in Steps
    BY DEF Typed, TypeOK, Run, Steps
  <1>1. ASSUME job'.pc \in {"idle", "select"}, UNCHANGED <<subs, archivedSubs>>
        PROVE  Left'
    BY <1>1, ArchiveFrame, CopiesOutside DEF Left
  <1>2. CASE JobStart
    <2>1. job'.pc = "select" /\ archivedSubs' = archivedSubs
      BY <1>0, <1>2, Records DEF JobStart, archives
    <2>2. PICK S \in SUBSET Sub :
             subs' = [s \in Sub |-> IF s \in S THEN [subs[s] EXCEPT !.ended = TRUE] ELSE subs[s]]
      BY <1>2 DEF JobStart
    <2>3. \A s \in Sub : /\ subs'[s].state = subs[s].state /\ subs'[s].paid = subs[s].paid
                         /\ subs'[s].due = subs[s].due
      BY <1>0, <2>2 DEF Subscription
    <2> QED
      BY <2>1, <2>3, ArchiveFrame, CopiesOutside DEF Left
  <1>3. CASE archiveReceipts
    BY <1>0, <1>1, <1>3, Continued DEF archiveReceipts
  <1>4. CASE SelectSubscriptions
    <2>1. PICK ids \in SUBSET Eligible :
             job' = IF ids = {} THEN NextStep("subscriptions", job.failed)
                    ELSE [job EXCEPT !.pc = "copy", !.ids = ids]
      BY <1>4 DEF SelectSubscriptions
    <2>2. UNCHANGED <<subs, archivedSubs>>
      BY <1>4 DEF SelectSubscriptions, db, live, archives
    <2>3. CASE ids = {}
      BY <1>0, <1>1, <2>1, <2>2, <2>3, Following
    <2>4. CASE ids # {}
      <3>1. job'.pc = "copy"
        BY <1>0, <2>1, <2>4 DEF Run
      <3>2. Copies'
        BY <3>1 DEF Copies
      <3> QED
        BY <2>2, <3>2, ArchiveFrame DEF Left
    <2> QED
      BY <2>3, <2>4
  <1>5. CASE CopySubscriptions
    <2> DEFINE row(s) == [sub |-> s, paid |-> subs[s].paid, due |-> subs[s].due]
               C == {row(s) : s \in job.ids}
    <2>0. \A s : row(s).sub = s /\ row(s).paid = subs[s].paid /\ row(s).due = subs[s].due
      OBVIOUS
    <2> HIDE DEF row
    <2>1. /\ \A s \in job.ids : \E c \in C : c.sub = s
          /\ \A c \in C : c.sub \in job.ids /\ c.paid = subs[c.sub].paid /\ c.due = subs[c.sub].due
      <3>1. ASSUME NEW s \in job.ids PROVE \E c \in C : c.sub = s
        <4>1. row(s) \in C /\ row(s).sub = s
          BY <2>0
        <4> QED
          BY <4>1
      <3>2. ASSUME NEW c \in C
            PROVE  c.sub \in job.ids /\ c.paid = subs[c.sub].paid /\ c.due = subs[c.sub].due
        <4>1. PICK s \in job.ids : c = row(s)
          OBVIOUS
        <4>2. c.sub = s /\ c.paid = subs[s].paid /\ c.due = subs[s].due
          BY <2>0, <4>1
        <4> QED
          BY <4>2
      <3> QED
        BY <3>1, <3>2
    <2>2. /\ job.pc = "copy" /\ job' = [job EXCEPT !.pc = "remove", !.copied = C]
          /\ UNCHANGED <<subs, archivedSubs>>
      BY <1>5 DEF CopySubscriptions, db, live, archives, row
    <2> HIDE DEF C
    <2>3. job'.pc = "remove" /\ job'.ids = job.ids /\ job'.copied = C
      BY <1>0, <2>2 DEF Run
    <2>4. Copies'
      BY <2>1, <2>2, <2>3 DEF Copies
    <2> QED
      BY <2>2, <2>4, ArchiveFrame DEF Left
  <1>6. CASE RemoveSubscriptions
    <2>1. /\ job.pc = "remove" /\ \A s \in job.ids : ReceiptsOf(s) = {}
          /\ subs' = [s \in Sub |-> IF s \in job.ids THEN [subs[s] EXCEPT !.state = "gone"]
                                               ELSE subs[s]]
          /\ archivedSubs' = archivedSubs \cup job.copied
      BY <1>6 DEF RemoveSubscriptions
    <2>2. job'.pc \in {"idle", "select"}
      BY <1>0, <1>6, Continued DEF RemoveSubscriptions
    <2>3. /\ \A s \in job.ids : subs'[s].state = "gone"
          /\ \A s \in Sub \ job.ids : subs'[s] = subs[s]
          /\ \A s \in Sub : subs'[s].paid = subs[s].paid /\ subs'[s].due = subs[s].due
      BY <1>0, <2>1 DEF Subscription
    <2>4. /\ \A s \in job.ids : subs[s].state = "live" /\ \E c \in job.copied : c.sub = s
          /\ \A c \in job.copied : /\ c.sub \in job.ids
                                   /\ c.paid = subs[c.sub].paid /\ c.due = subs[c.sub].due
      BY <2>1 DEF Left, Copies, Own, Captured, Live
    <2>5. \A a \in archivedSubs : a.sub \in Sub
      BY DEF Typed, TypeOK, ArchivedSubscription
    <2>6. ASSUME NEW s \in Sub
          PROVE  subs'[s].state = "gone" <=> \E a \in archivedSubs' : a.sub = s
      <3>1. CASE s \in job.ids
        BY <2>1, <2>3, <2>4, <3>1
      <3>2. CASE s \notin job.ids
        BY <2>1, <2>3, <2>4, <3>2 DEF Left, ArchivedAsLeft
      <3> QED
        BY <3>1, <3>2
    <2>7. \A a \in archivedSubs' : a.paid = subs'[a.sub].paid /\ a.due = subs'[a.sub].due
      BY <1>0, <2>1, <2>3, <2>4, <2>5 DEF Left, ArchivedAsLeft
    <2> QED
      BY <2>2, <2>6, <2>7, CopiesOutside DEF Left, ArchivedAsLeft
  <1>7. CASE archiveLedgerLeftovers
    BY <1>0, <1>1, <1>7, Continued DEF archiveLedgerLeftovers
  <1>8. CASE StepFails
    BY <1>0, <1>1, <1>8, Following DEF StepFails, db, live, archives
  <1>9. CASE JobCrash
    BY <1>1, <1>9, Records DEF JobCrash, db, live, archives
  <1> QED
    BY <1>2, <1>3, <1>4, <1>5, <1>6, <1>7, <1>8, <1>9 DEF ArchiveJob

LEMMA LeftInit == Init => Left
  BY Records DEF Init, Left, ArchivedAsLeft, Copies

LEMMA LeftNext == Typed /\ Own /\ Left /\ [Next]_vars => Left'
  BY LeftStill, LeftRequest, LeftSell, LeftJob DEF Next, vars

\* The archive has every subscription that left, as it was when it left,
\* although a batch is copied and deleted without a lock in between.
THEOREM LeftAsArchived == Spec => []ArchivedAsLeft
  <1>1. Left => ArchivedAsLeft
    BY DEF Left
  <1> QED
    BY <1>1, TypeInit, TypeNext, OwnInit, OwnNext, LeftInit, LeftNext, RetentionAssumption,
       PTL DEF Spec

-----------------------------------------------------------------------------
(* A subscription follows its receipts *)

\* Past the step of the receipts no old one is left; a batch that is not full
\* has every row that qualifies; past the step of the subscriptions none does.
Order ==
    /\ \A s \in Sub : subs[s].state = "new" => ~subs[s].ended
    /\ job.step # "receipts" /\ ~job.failed => \A x \in receipts : ~x.old
    /\ job.pc \in {"copy", "remove"} =>
          /\ job.step = "subscriptions"
          /\ Eligible \subseteq job.ids \/ Cardinality(job.ids) = Batch
    /\ job.step = "ledger" /\ ~job.failed => Eligible = {}

\* The job stands still: no receipt ages, no further subscription qualifies.
LEMMA OrderFrame ==
  ASSUME Order, job' = job, Eligible' \subseteq Eligible,
         \A x \in receipts' : x \in receipts \/ ~x.old,
         \A s \in Sub : subs'[s].state = "new" => ~subs'[s].ended
  PROVE  Order'
  BY DEF Order

LEMMA OrderStill ==
  ASSUME Order, UNCHANGED <<db, job>>
  PROVE  Order'
  <1>1. Eligible' = Eligible
    BY DEF Eligible, Live, ReceiptsOf, db, live
  <1> QED
    BY <1>1 DEF Order, db, live

LEMMA OrderRequest ==
  ASSUME Typed, Order, NEW r \in Req, Request(r)
  PROVE  Order'
  <1>1. CASE UNCHANGED <<db, job>>
    BY <1>1, OrderStill
  <1>2. CASE PayCommit(r)
    <2>0. /\ subs \in [Sub -> Subscription] /\ req[r].pc = "commit" /\ req[r].sub \in Sub
      BY <1>2 DEF PayCommit, Typed, TypeOK
    <2>1. PICK s \in Sub : s = req[r].sub
      BY <2>0
    <2>2. /\ job' = job
          /\ subs' = [subs EXCEPT ![s].paid = req[r].paid, ![s].due = req[r].due]
          /\ receipts' = receipts \cup {[id |-> issued + 1, sub |-> s, old |-> FALSE]}
      BY <1>2, <2>1 DEF PayCommit, Issue
    <2>3. \A u \in Sub : subs'[u].state = subs[u].state /\ subs'[u].ended = subs[u].ended
      BY <2>0, <2>2 DEF Subscription
    <2>4. Eligible' \subseteq Eligible
      BY <2>2, <2>3 DEF Eligible, Live, ReceiptsOf
    <2>5. \A x \in receipts' : x \in receipts \/ ~x.old
      BY <2>2
    <2>6. \A u \in Sub : subs'[u].state = "new" => ~subs'[u].ended
      BY <2>3 DEF Order
    <2> QED
      BY <2>2, <2>4, <2>5, <2>6, OrderFrame
  <1> QED
    BY <1>1, <1>2 DEF Request, PayStart, PayWrite, Rollback

LEMMA OrderSell ==
  ASSUME Typed, Order, NEW s \in Sub, NEW a \in Amounts \cup {0}, Sell(s, a)
  PROVE  Order'
  <1>1. /\ subs \in [Sub -> Subscription] /\ job' = job
        /\ subs' = [subs EXCEPT ![s].state = "live", ![s].paid = a, ![s].due = Price - a]
        /\ subs[s].state = "new"
    BY DEF Typed, TypeOK, Sell
  <1>2. /\ subs'[s].state = "live" /\ ~subs'[s].ended
        /\ \A u \in Sub : u # s => subs'[u] = subs[u]
    BY <1>1 DEF Subscription, Order
  <1>3. receipts \subseteq receipts' /\ \A x \in receipts' : x \in receipts \/ ~x.old
    BY DEF Sell, Issue
  <1>4. Eligible' \subseteq Eligible
    BY <1>2, <1>3 DEF Eligible, Live, ReceiptsOf
  <1> QED
    BY <1>1, <1>2, <1>3, <1>4, OrderFrame DEF Order

LEMMA OrderJob ==
  ASSUME RetentionAssumption, Typed, Own, Order, ArchiveJob
  PROVE  Order'
  <1>0. /\ subs \in [Sub -> Subscription] /\ job \in Run /\ Batch \in Nat \ {0}
        /\ job.step \in Steps /\ job.failed \in BOOLEAN /\ job.ids \subseteq Sub
        /\ TRUE \in BOOLEAN /\ FALSE \in BOOLEAN
        /\ "receipts" \in Steps /\ "subscriptions" \in Steps /\ "ledger" \in Steps
    BY DEF Typed, TypeOK, Run, Steps, RetentionAssumption
  \* A run that is over, at its first step, or has failed promises nothing.
  <1>1. ASSUME job'.pc \in {"idle", "select"}, job'.step = "receipts" \/ job'.failed,
               \A s \in Sub : subs'[s].state = "new" => ~subs'[s].ended
        PROVE  Order'
    BY <1>1 DEF Order
  <1>2. CASE JobStart
    <2>1. job'.pc = "select" /\ job'.step = "receipts"
      BY <1>0, <1>2, Records DEF JobStart
    <2>2. PICK S \in SUBSET {s \in Sub : Live(s)} :
             subs' = [s \in Sub |-> IF s \in S THEN [subs[s] EXCEPT !.ended = TRUE] ELSE subs[s]]
      BY <1>2 DEF JobStart
    <2>3. \A s \in Sub : subs'[s].state = "new" => ~subs'[s].ended
      BY <1>0, <2>2 DEF Subscription, Live, Order
    <2> QED
      BY <1>1, <2>1, <2>3
  <1>3. CASE archiveReceipts
    <2> DEFINE old == {x \in receipts : x.old}
    <2>1. PICK R \in SUBSET old :
             /\ IsBatchOf(R, old) /\ receipts' = receipts \ R
             /\ job' = NextBatch("receipts", Cardinality(R))
      BY <1>3 DEF archiveReceipts
    <2>2. subs' = subs
      BY <1>3 DEF archiveReceipts
    <2>3. CASE Cardinality(R) < Batch
      <3>1. R = old
        BY <1>0, <2>1, <2>3 DEF IsBatchOf
      <3>2. /\ job'.pc = "select" /\ job'.step = "subscriptions"
        BY <1>0, <2>1, <2>3, Continued, Following, Records
      <3>3. \A x \in receipts' : ~x.old
        BY <2>1, <3>1
      <3> QED
        BY <2>2, <3>2, <3>3 DEF Order
    <2>4. CASE ~(Cardinality(R) < Batch)
      <3>1. job'.pc = "select" /\ job'.step = "receipts"
        BY <1>0, <2>1, <2>4, Continued, Records
      <3> QED
        BY <1>1, <2>2, <3>1 DEF Order
    <2> QED
      BY <2>3, <2>4
  <1>4. CASE SelectSubscriptions
    <2>1. PICK ids \in SUBSET Eligible :
             /\ IsBatchOf(ids, Eligible)
             /\ job' = IF ids = {} THEN NextStep("subscriptions", job.failed)
                       ELSE [job EXCEPT !.pc = "copy", !.ids = ids]
      BY <1>4 DEF SelectSubscriptions
    <2>2. UNCHANGED <<subs, receipts>> /\ job.step = "subscriptions"
      BY <1>4 DEF SelectSubscriptions, db, live
    <2>3. Eligible' = Eligible
      BY <2>2 DEF Eligible, Live, ReceiptsOf
    <2>4. CASE ids = {}
      <3>1. Eligible = {}
        BY <1>0, <2>1, <2>4, FS_EmptySet DEF IsBatchOf
      <3>2. job'.pc = "select" /\ job'.step = "ledger" /\ job'.failed = job.failed
        BY <1>0, <2>1, <2>4, Following, Records
      <3> QED
        BY <2>2, <2>3, <3>1, <3>2 DEF Order
    <2>5. CASE ids # {}
      <3>1. /\ job'.pc = "copy" /\ job'.ids = ids /\ job'.step = "subscriptions"
            /\ job'.failed = job.failed
        BY <1>0, <2>1, <2>2, <2>5 DEF Run
      <3>2. Eligible' \subseteq ids \/ Cardinality(ids) = Batch
        BY <2>1, <2>3 DEF IsBatchOf
      <3> QED
        BY <2>2, <3>1, <3>2 DEF Order
    <2> QED
      BY <2>4, <2>5
  <1>5. CASE CopySubscriptions
    <2>1. /\ job'.pc = "remove" /\ job'.ids = job.ids /\ job'.step = job.step
          /\ job'.failed = job.failed /\ job.pc = "copy" /\ UNCHANGED <<subs, receipts>>
      BY <1>0, <1>5 DEF CopySubscriptions, Run, db, live
    <2>2. Eligible' = Eligible
      BY <2>1 DEF Eligible, Live, ReceiptsOf
    <2> QED
      BY <2>1, <2>2 DEF Order
  <1>6. CASE RemoveSubscriptions
    <2>1. /\ job.pc = "remove" /\ receipts' = receipts
          /\ subs' = [s \in Sub |-> IF s \in job.ids THEN [subs[s] EXCEPT !.state = "gone"]
                                               ELSE subs[s]]
          /\ job' = NextBatch("subscriptions", Cardinality(job.ids))
      BY <1>6 DEF RemoveSubscriptions
    <2>2. /\ \A s \in job.ids : subs'[s].state = "gone"
          /\ \A s \in Sub \ job.ids : subs'[s] = subs[s]
      BY <1>0, <2>1 DEF Subscription
    <2>3. job.step = "subscriptions"
      BY <2>1 DEF Order
    <2>4. \A s \in Sub : subs'[s].state = "new" => ~subs'[s].ended
      BY <2>2 DEF Order
    <2>5. CASE Cardinality(job.ids) < Batch
      <3>1. Eligible \subseteq job.ids
        BY <1>0, <2>1, <2>5 DEF Order
      <3>2. Eligible' = {}
        BY <2>1, <2>2, <3>1 DEF Eligible, Live, ReceiptsOf
      <3>3. job'.pc = "select" /\ job'.step = "ledger" /\ job'.failed = job.failed
        BY <1>0, <2>1, <2>5, Continued, Following, Records
      <3> QED
        BY <2>1, <2>3, <2>4, <3>2, <3>3 DEF Order
    <2>6. CASE ~(Cardinality(job.ids) < Batch)
      <3>1. job'.pc = "select" /\ job'.step = "subscriptions" /\ job'.failed = job.failed
        BY <1>0, <2>1, <2>6, Continued, Records
      <3> QED
        BY <2>1, <2>3, <2>4, <3>1 DEF Order
    <2> QED
      BY <2>5, <2>6
  <1>7. CASE archiveLedgerLeftovers
    <2>1. PICK n : job' = NextBatch("ledger", n)
      BY <1>7 DEF archiveLedgerLeftovers
    <2>2. UNCHANGED <<subs, receipts>> /\ job.step = "ledger"
      BY <1>7 DEF archiveLedgerLeftovers
    <2>3. Eligible' = Eligible
      BY <2>2 DEF Eligible, Live, ReceiptsOf
    <2>4. CASE n < Batch
      <3>1. job'.pc = "idle" /\ job'.step = "receipts"
        BY <1>0, <2>1, <2>4, Continued, Following, Records
      <3> QED
        BY <1>1, <2>2, <3>1 DEF Order
    <2>5. CASE ~(n < Batch)
      <3>1. job'.pc = "select" /\ job'.step = "ledger" /\ job'.failed = job.failed
        BY <1>0, <2>1, <2>5, Continued, Records
      <3> QED
        BY <2>2, <2>3, <3>1 DEF Order
    <2> QED
      BY <2>4, <2>5
  <1>8. CASE StepFails
    <2>1. job'.pc \in {"idle", "select"} /\ (job'.step = "receipts" \/ job'.failed) /\ subs' = subs
      <3>1. job' = NextStep(job.step, TRUE) /\ subs' = subs
        BY <1>8 DEF StepFails, db, live
      <3>2. job.step \in {"receipts", "subscriptions", "ledger"}
        BY <1>0 DEF Steps
      <3>3. CASE job.step = "ledger"
        <4>1. job' = NoRun
          BY <1>0, <3>1, <3>3, Following
        <4> QED
          BY <3>1, <4>1, Records
      <3>4. CASE job.step # "ledger"
        <4>1. job' = At("subscriptions", TRUE) \/ job' = At("ledger", TRUE)
          BY <1>0, <3>1, <3>2, <3>4, Following
        <4>2. At("subscriptions", TRUE).pc = "select" /\ At("subscriptions", TRUE).failed
              /\ At("ledger", TRUE).pc = "select" /\ At("ledger", TRUE).failed
          BY DEF At
        <4> QED
          BY <3>1, <4>1, <4>2
      <3> QED
        BY <3>3, <3>4
    <2> QED
      BY <1>1, <2>1 DEF Order
  <1>9. CASE JobCrash
    BY <1>1, <1>9, Records DEF JobCrash, Order, db, live
  <1> QED
    BY <1>2, <1>3, <1>4, <1>5, <1>6, <1>7, <1>8, <1>9 DEF ArchiveJob

LEMMA OrderInit == Init => Order
  BY Records DEF Init, Order

LEMMA OrderNext == RetentionAssumption /\ Typed /\ Own /\ Order /\ [Next]_vars => Order'
  BY OrderStill, OrderRequest, OrderSell, OrderJob DEF Next, vars

\* When a run without a failed step has come to the ledger, an ended
\* subscription that is still live has a receipt younger than five years.
THEOREM FollowedInTheSameRun == Spec => []FollowsInTheSameRun
  <1>1. Order => FollowsInTheSameRun
    <2> SUFFICES ASSUME Order, job.step = "ledger", ~job.failed,
                        NEW s \in Sub, Live(s), subs[s].ended
                 PROVE  \E x \in ReceiptsOf(s) : ~x.old
      BY DEF FollowsInTheSameRun
    <2>1. ReceiptsOf(s) # {}
      BY DEF Order, Eligible
    <2>2. \A x \in receipts : ~x.old
      BY DEF Order
    <2> QED
      BY <2>1, <2>2 DEF ReceiptsOf
  <1> QED
    BY <1>1, TypeInit, TypeNext, OwnInit, OwnNext, OrderInit, OrderNext, RetentionAssumption,
       PTL DEF Spec
=============================================================================

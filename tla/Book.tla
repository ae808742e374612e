-------------------------------- MODULE Book --------------------------------
(***************************************************************************)
(* What the subscriptions and the income of a branch look like from        *)
(* outside: enrolment, renewal and payment are single steps, as if no two  *)
(* requests ever overlapped (the headers of enrollTrainee,                 *)
(* renewSubscription and recordPayment in                                  *)
(* src/services/subscription.service.ts).  Enrollment implements it.       *)
(***************************************************************************)
EXTENDS Integers, Sequences

CONSTANTS Trainee, Prices, Amounts

VARIABLES
    rows,    \* the subscriptions: trainee, price, paid, due, status
    income,  \* the receipts the ledger holds too
    number   \* the last receipt number

Init == rows = <<>> /\ income = {} /\ number = 0

\* The next number goes to a receipt over a for subscription s.
Issue(s, a) ==
    /\ number' = number + 1
    /\ income' = income \cup {[seq |-> number + 1, sub |-> s, amount |-> a]}

\* The rows with those of S no longer ACTIVE.
Without(S) ==
    [s \in DOMAIN rows |-> IF s \in S THEN [rows[s] EXCEPT !.status = "EXPIRED"]
                                      ELSE rows[s]]

\* Enrolment and renewal: the new subscription replaces any ACTIVE one, and
\* its first payment is on a receipt.
Sell(t, price, a) ==
    /\ rows' = Append(Without({s \in DOMAIN rows : rows[s].trainee = t}),
                      [trainee |-> t, price |-> price, paid |-> a,
                       due |-> price - a, status |-> "ACTIVE"])
    /\ Issue(Len(rows) + 1, a)

\* Payment: what is left to pay afterwards is not negative, and at most the
\* price less this payment.  Which of several overlapping payments it takes
\* into account is open.
Pay(s, a) ==
    /\ a > 0
    /\ \E due \in 0 .. rows[s].price - a :
          rows' = [rows EXCEPT ![s].paid = rows[s].price - due, ![s].due = due]
    /\ Issue(s, a)

\* The expiry job and attendance end subscriptions ...
End(S) ==
    /\ rows' = Without(S)
    /\ UNCHANGED <<income, number>>

\* ... and a corrected mark may revive one if the trainee has no other.
Revive(s) ==
    /\ \A u \in DOMAIN rows :
          rows[u].trainee = rows[s].trainee => rows[u].status = "EXPIRED"
    /\ rows' = [rows EXCEPT ![s].status = "ACTIVE"]
    /\ UNCHANGED <<income, number>>

Next ==
    \/ \E t \in Trainee, price \in Prices, a \in Amounts : Sell(t, price, a)
    \/ \E s \in DOMAIN rows, a \in Amounts : Pay(s, a)
    \/ \E S \in SUBSET DOMAIN rows : End(S)
    \/ \E s \in DOMAIN rows : Revive(s)

Spec == Init /\ [][Next]_<<rows, income, number>>
=============================================================================

---- MODULE MCAccounts ----
(* Small instances of Accounts: two open transactions on two accounts, two *)
(* numbers and two children.                                               *)
EXTENDS Accounts, TLC

AllKinds == Kinds

\* The kinds that may sync from a row they have not locked, and the one that
\* writes entries from an older snapshot.
ReadThenSync == {"profile", "rephone", "enrol", "kidoff", "kidon", "reconcile"}

\* Requests, numbers and children are interchangeable; so are accounts.
Symmetry == Permutations(Req) \cup Permutations(Phone) \cup Permutations(Kid)
            \cup Permutations(User)
====

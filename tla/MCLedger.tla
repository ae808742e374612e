------------------------------ MODULE MCLedger ------------------------------
(* TLC instances of Ledger. *)
EXTENDS Ledger, TLC

\* All payrolls are of one captain and overlap.
SameSlot == [p \in Payroll |-> "s"]
\* Every payroll has a captain or a period of its own.
OwnSlot == [p \in Payroll |-> p]
Symmetry == Permutations(Req)
=============================================================================

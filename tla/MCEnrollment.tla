---------------------------- MODULE MCEnrollment ----------------------------
(* TLC instances of Enrollment. *)
EXTENDS Enrollment, TLC

PriceOf == [p \in Plan |-> 2]
Symmetry == Permutations(Req) \cup Permutations(Trainee)
SymmetryAll == Symmetry \cup Permutations(Group)

SeatOps == {"enroll", "renew", "remove", "update"}
MoneyOps == {"enroll", "renew", "pay", "assign", "mark"}
ExpiryOps == {"enroll", "renew", "expire"}
=============================================================================

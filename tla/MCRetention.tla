---------------------------- MODULE MCRetention ----------------------------
(* TLC instance of Retention. *)
EXTENDS Retention, TLC

Symmetry == Permutations(Req) \cup Permutations(Sub)
=============================================================================

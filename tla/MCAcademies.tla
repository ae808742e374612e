---- MODULE MCAcademies ----
(* Small instances of Academies: three academies and slugs, two requests of *)
(* each kind.                                                              *)
EXTENDS Academies, TLC

\* Every step may fail but the removal of the logins of a deleted academy.
ToleratedFaults == FaultKinds \ {"index"}

Symmetry == Permutations(Academy) \cup Permutations(Slug)
            \cup Permutations(Creator) \cup Permutations(Changer)
====

---- MODULE MCAttendance ----
(* Small instances of Attendance: two open transactions over the sessions  *)
(* of one trainee, whose subscription is renewed once.                     *)
EXTENDS Attendance

PresentAbsent == {"PRESENT", "ABSENT"}

Symmetry == Permutations(Req) \cup Permutations(Session)
            \cup Permutations(Trainee)
====

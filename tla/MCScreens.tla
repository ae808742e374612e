---- MODULE MCScreens ----
(* Every role, and moderators who hold one privilege or some telling pair. *)
EXTENDS Screens, TLC

Holdings ==
    {{}} \cup {{p} : p \in Privilege}
    \cup {{"can_manage_trainees", "can_create_subscriptions"},
          {"can_mark_attendance", "can_manage_schedule"}}

Everyone ==
    {[role |-> "MODERATOR", held |-> h] : h \in Holdings}
    \cup {[role |-> r, held |-> {}] : r \in Role \ {"MODERATOR"}}

\* A privilege is taken away, given, and given for another.
Revoked ==
    {<<{"can_manage_payroll"}, {}>>, <<{}, {"can_view_captains"}>>,
     <<{"can_manage_payroll"}, {"can_view_finances"}>>}
====

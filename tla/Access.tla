-------------------------------- MODULE Access --------------------------------
(***************************************************************************)
(* Who may do what: the roles, the privileges of a moderator, and the one  *)
(* table that the API routes and the browser both consult                  *)
(* (src/lib/auth/access.ts, src/lib/auth/permissions.ts).                  *)
(*                                                                         *)
(* A gate is a condition on a user: some roles pass it whatever they hold, *)
(* and whoever the table grants one of its keys passes it too.  The guard  *)
(* of a route, of a page and of a button are all gates.                    *)
(***************************************************************************)
EXTENDS Naturals

Role == {"SUPER_ADMIN", "ADMIN", "MODERATOR", "CAPTAIN", "TRAINEE"}

Rank == [TRAINEE |-> 0, CAPTAIN |-> 1, MODERATOR |-> 2, ADMIN |-> 3,
         SUPER_ADMIN |-> 4]

Privilege ==
    {"can_manage_trainees", "can_view_trainees", "can_manage_captains",
     "can_view_captains", "can_manage_subscriptions", "can_view_subscriptions",
     "can_create_subscriptions", "can_manage_groups", "can_view_groups",
     "can_mark_attendance", "can_view_attendance", "can_manage_schedule",
     "can_view_schedule", "can_view_finances", "can_manage_expenses",
     "can_view_reports", "can_manage_payroll"}

\* The privileges that grant each key, any one of them.
Table ==
    [viewTrainees |-> {"can_view_trainees", "can_manage_trainees"},
     manageTrainees |-> {"can_manage_trainees"},
     viewCaptains |-> {"can_view_captains", "can_manage_captains",
                       "can_manage_payroll"},
     manageCaptains |-> {"can_manage_captains"},
     viewAttendance |-> {"can_view_attendance", "can_mark_attendance"},
     markAttendance |-> {"can_mark_attendance"},
     viewSchedule |-> {"can_view_schedule", "can_manage_schedule",
                       "can_view_attendance", "can_mark_attendance"},
     manageSchedule |-> {"can_manage_schedule"},
     listGroups |-> {"can_view_groups", "can_manage_groups",
                     "can_create_subscriptions", "can_manage_subscriptions"},
     viewGroups |-> {"can_view_groups", "can_manage_groups"},
     manageGroups |-> {"can_manage_groups"},
     viewPlans |-> {"can_view_subscriptions", "can_create_subscriptions",
                    "can_manage_subscriptions", "can_view_groups",
                    "can_manage_groups"},
     viewSubscriptions |-> {"can_view_subscriptions", "can_create_subscriptions",
                            "can_manage_subscriptions"},
     enroll |-> {"can_create_subscriptions", "can_manage_subscriptions"},
     recordPayments |-> {"can_manage_subscriptions"},
     viewReceipts |-> {"can_view_finances", "can_view_subscriptions",
                       "can_create_subscriptions", "can_manage_subscriptions"},
     viewRenewals |-> {"can_view_subscriptions", "can_create_subscriptions",
                       "can_manage_subscriptions", "can_view_trainees",
                       "can_manage_trainees"},
     viewFinances |-> {"can_view_finances"},
     viewExpenses |-> {"can_view_finances", "can_manage_expenses"},
     manageExpenses |-> {"can_manage_expenses"},
     managePayroll |-> {"can_manage_payroll"},
     viewReports |-> {"can_view_reports"}]

Keys == DOMAIN Table

\* canAccess: a user is a role and the privileges it is believed to hold.
CanAccess(user, key) ==
    \/ user.role = "ADMIN"
    \/ user.role = "MODERATOR" /\ Table[key] \cap user.held # {}

-----------------------------------------------------------------------------
(* Gates *)

Gate(roles, keys) == [roles |-> roles, keys |-> keys]

Passes(gate, user) ==
    user.role \in gate.roles \/ \E key \in gate.keys : CanAccess(user, key)

\* Role checks, privilege checks, and routes where captains see their own.
RequireRole(roles) == Gate(roles, {})
HasMinRole(role) == {r \in Role : Rank[r] >= Rank[role]}
RequireMinRole(role) == Gate(HasMinRole(role), {})
RequireAccess(key) == Gate({}, {key})
CaptainOr(key) == Gate({"CAPTAIN"}, {key})

\* What the wrappers of the routes let through to the handler's own check.
Tenant == Role \ {"SUPER_ADMIN"}

\* withAuth turns a platform token away from every tenant route.
WithAuth(gate) == [gate EXCEPT !.roles = @ \cap Tenant]
WithSuperAdminAuth == RequireRole({"SUPER_ADMIN"})
WithTraineeAuth == WithAuth(RequireRole({"TRAINEE"}))
WithAdminAuth == WithAuth(RequireRole({"ADMIN"}))

=============================================================================

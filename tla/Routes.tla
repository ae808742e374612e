------------------------------- MODULE Routes --------------------------------
(***************************************************************************)
(* The API as a caller meets it: what each handler under src/app/api reads *)
(* or changes, and whom it serves.  A route that creates makes a new row   *)
(* each time it is called; one that sets leaves the same state when it is  *)
(* called again.                                                           *)
(*                                                                         *)
(* Abstracted: the rows.  What the handlers do to them is the subject of   *)
(* Enrollment, Accounts, Attendance, Ledger, SessionJob and Academies.  A  *)
(* captain sees their own groups and sessions only, a parent their own     *)
(* children only: here either is served.                                   *)
(***************************************************************************)
EXTENDS Access

Route(name, kind, guard) == [name |-> name, kind |-> kind, guard |-> guard]

-----------------------------------------------------------------------------
(* Trainees and their groups *)

ListTrainees ==
    Route("GET trainees", "read",
          WithAuth(RequireAccess("viewTrainees")))
CreateTrainee ==
    Route("POST trainees", "create",
          WithAuth(RequireAccess("manageTrainees")))
SearchTrainees ==
    Route("GET trainees/search", "read",
          WithAuth(RequireAccess("viewTrainees")))
GetTrainee ==
    Route("GET trainees/[id]", "read",
          WithAuth(RequireAccess("viewTrainees")))
PatchTrainee ==
    Route("PATCH trainees/[id]", "set",
          WithAuth(RequireAccess("manageTrainees")))
AssignTrainee ==
    Route("PATCH trainees/[id]/assignment", "set",
          WithAuth(RequireAccess("manageTrainees")))
ListFeedback ==
    Route("GET trainees/[id]/feedback", "read",
          WithAuth(CaptainOr("viewTrainees")))
CreateFeedback ==
    Route("POST trainees/[id]/feedback", "create",
          WithAuth(RequireRole({"CAPTAIN"})))
ListGroups == Route("GET groups", "read", WithAuth(CaptainOr("listGroups")))
CreateGroup ==
    Route("POST groups", "create",
          WithAuth(RequireAccess("manageGroups")))
GetGroup == Route("GET groups/[id]", "read", WithAuth(CaptainOr("viewGroups")))
PatchGroup ==
    Route("PATCH groups/[id]", "set",
          WithAuth(RequireAccess("manageGroups")))
RemoveFromGroup ==
    Route("DELETE groups/[id]/trainees/[traineeId]", "set",
          WithAuth(RequireAccess("manageGroups")))

-----------------------------------------------------------------------------
(* Captains, schedule and attendance *)

ListCaptains ==
    Route("GET captains", "read",
          WithAuth(RequireAccess("viewCaptains")))
CreateCaptain ==
    Route("POST captains", "create",
          WithAuth(RequireAccess("manageCaptains")))
GetCaptain ==
    Route("GET captains/[id]", "read",
          WithAuth(RequireAccess("viewCaptains")))
PatchCaptain ==
    Route("PATCH captains/[id]", "set",
          WithAuth(RequireAccess("manageCaptains")))
GetOwnRating ==
    Route("GET captains/me/rating", "read",
          WithAuth(RequireRole({"CAPTAIN"})))
\* Mutant: whoever marks attendance is not given the schedule it starts from.
ListSchedule_OwnAreaOnly ==
    Route("GET schedule", "read", WithAuth(CaptainOr("manageSchedule")))

ListSchedule ==
    Route("GET schedule", "read",
          WithAuth(CaptainOr("viewSchedule")))
CreateSession ==
    Route("POST schedule", "create",
          WithAuth(RequireAccess("manageSchedule")))
GetSession ==
    Route("GET schedule/[id]", "read",
          WithAuth(CaptainOr("viewSchedule")))
PatchSession ==
    Route("PATCH schedule/[id]", "set",
          WithAuth(RequireAccess("manageSchedule")))
CancelSession ==
    Route("POST schedule/[id]/cancel", "set",
          WithAuth(RequireAccess("manageSchedule")))
GetSheet ==
    Route("GET attendance/[sessionId]", "read",
          WithAuth(RequireAccess("viewAttendance")))
SubmitAttendance ==
    Route("POST attendance", "set",
          WithAuth(RequireAccess("markAttendance")))
ListAttendance ==
    Route("GET attendance", "read",
          WithAuth(RequireAccess("viewAttendance")))
ScheduleRetake ==
    Route("POST attendance/retake", "create",
          WithAuth(RequireAccess("markAttendance")))
ListEvaluations ==
    Route("GET evaluations", "read",
          WithAuth(CaptainOr("viewAttendance")))
CreateEvaluation ==
    Route("POST evaluations", "set",
          WithAuth(CaptainOr("markAttendance")))
PatchEvaluation ==
    Route("PATCH evaluations/[id]", "set",
          WithAuth(RequireMinRole("CAPTAIN")))
DeleteEvaluation ==
    Route("DELETE evaluations/[id]", "set",
          WithAuth(RequireMinRole("CAPTAIN")))

-----------------------------------------------------------------------------
(* Subscriptions and money *)

ListPlans ==
    Route("GET subscriptions/plans", "read",
          WithAuth(RequireAccess("viewPlans")))
CreatePlan ==
    Route("POST subscriptions/plans", "create",
          WithAuth(RequireMinRole("ADMIN")))
GetPlan ==
    Route("GET subscriptions/plans/[id]", "read",
          WithAuth(RequireAccess("viewPlans")))
PatchPlan ==
    Route("PATCH subscriptions/plans/[id]", "set",
          WithAuth(RequireMinRole("ADMIN")))
DeletePlan ==
    Route("DELETE subscriptions/plans/[id]", "set",
          WithAuth(RequireMinRole("ADMIN")))
Enroll ==
    Route("POST subscriptions/enroll", "create",
          WithAuth(RequireAccess("enroll")))
Renew ==
    Route("POST subscriptions/renew", "create",
          WithAuth(RequireAccess("enroll")))
RecordPayment ==
    Route("POST subscriptions/[id]/payments", "create",
          WithAuth(RequireAccess("recordPayments")))
GetIncome ==
    Route("GET finance/income", "read",
          WithAuth(RequireAccess("viewFinances")))
ListExpenses ==
    Route("GET finance/expenses", "read",
          WithAuth(RequireAccess("viewExpenses")))
CreateExpense ==
    Route("POST finance/expenses", "create",
          WithAuth(RequireAccess("manageExpenses")))
PatchExpense ==
    Route("PATCH finance/expenses/[id]", "set",
          WithAuth(RequireAccess("manageExpenses")))
DeleteExpense ==
    Route("DELETE finance/expenses/[id]", "set",
          WithAuth(RequireAccess("manageExpenses")))
ListManualIncomes ==
    Route("GET finance/manual-income", "read",
          WithAuth(RequireAccess("viewExpenses")))
CreateManualIncome ==
    Route("POST finance/manual-income", "create",
          WithAuth(RequireAccess("manageExpenses")))
PatchManualIncome ==
    Route("PATCH finance/manual-income/[id]", "set",
          WithAuth(RequireAccess("manageExpenses")))
DeleteManualIncome ==
    Route("DELETE finance/manual-income/[id]", "set",
          WithAuth(RequireAccess("manageExpenses")))
ListPayrolls ==
    Route("GET finance/payroll", "read",
          WithAuth(RequireAccess("managePayroll")))
RecordPayroll ==
    Route("POST finance/payroll", "create",
          WithAuth(RequireAccess("managePayroll")))
CalculatePayroll ==
    Route("GET finance/payroll/calculate", "read",
          WithAuth(RequireAccess("managePayroll")))
MarkPayrollPaid ==
    Route("PATCH finance/payroll/[id]", "set",
          WithAuth(RequireAccess("managePayroll")))
ListReceipts ==
    Route("GET finance/receipts", "read",
          WithAuth(RequireAccess("viewReceipts")))
GetReceipt ==
    Route("GET finance/receipts/[id]", "read",
          WithAuth(RequireAccess("viewReceipts")))
GetReport ==
    Route("GET reports", "read",
          WithAuth(RequireAccess("viewReports")))

-----------------------------------------------------------------------------
(* The academy *)

GetDashboard ==
    Route("GET dashboard", "read",
          WithAuth(RequireMinRole("CAPTAIN")))
ListBranches ==
    Route("GET branches", "read",
          WithAuth(RequireMinRole("MODERATOR")))
CreateBranch ==
    Route("POST branches", "create",
          WithAuth(RequireRole({"ADMIN"})))
GetBranch ==
    Route("GET branches/[id]", "read",
          WithAuth(RequireMinRole("MODERATOR")))
PatchBranch ==
    Route("PATCH branches/[id]", "set",
          WithAuth(RequireRole({"ADMIN"})))
ListUsers == Route("GET users", "read", WithAuth(RequireRole({"ADMIN"})))
CreateUser == Route("POST users", "create", WithAuth(RequireRole({"ADMIN"})))
GetUser == Route("GET users/[id]", "read", WithAuth(RequireRole({"ADMIN"})))
PatchUser == Route("PATCH users/[id]", "set", WithAuth(RequireRole({"ADMIN"})))
PostSwitchBranch ==
    Route("POST auth/switch-branch", "set",
          WithAuth(RequireRole({"ADMIN"})))
ChangePassword ==
    Route("POST auth/change-password", "set",
          WithAuth(RequireRole(Role)))
ResetPassword == Route("POST auth/password-reset", "set", WithAdminAuth)

-----------------------------------------------------------------------------
(* The portal of the parents *)

PortalDashboard == Route("GET portal/dashboard", "read", WithTraineeAuth)
PortalTrainees == Route("GET portal/trainees", "read", WithTraineeAuth)
PortalAttendance == Route("GET portal/attendance", "read", WithTraineeAuth)
PortalSchedule == Route("GET portal/schedule", "read", WithTraineeAuth)
PortalSubscription == Route("GET portal/subscription", "read", WithTraineeAuth)
PortalReceipts == Route("GET portal/receipts", "read", WithTraineeAuth)
PortalReceipt == Route("GET portal/receipts/[id]/pdf", "read", WithTraineeAuth)
PortalFeedback == Route("GET portal/feedback", "read", WithTraineeAuth)
GetCaptainRating == Route("GET portal/captain-rating", "read", WithTraineeAuth)
RateCaptain == Route("PUT portal/captain-rating", "set", WithTraineeAuth)

-----------------------------------------------------------------------------
(* The platform *)

ListTenants == Route("GET superadmin/tenants", "read", WithSuperAdminAuth)
CreateTenant == Route("POST superadmin/tenants", "create", WithSuperAdminAuth)
GetTenant == Route("GET superadmin/tenants/[id]", "read", WithSuperAdminAuth)
PatchTenant ==
    Route("PATCH superadmin/tenants/[id]", "set",
          WithSuperAdminAuth)
PatchTenantStatus ==
    Route("PATCH superadmin/tenants/[id]/status", "set",
          WithSuperAdminAuth)
GetUsage ==
    Route("GET superadmin/tenants/[id]/usage", "read",
          WithSuperAdminAuth)
ListLeads == Route("GET superadmin/leads", "read", WithSuperAdminAuth)
PatchLead == Route("PATCH superadmin/leads/[id]", "set", WithSuperAdminAuth)
DeleteLead == Route("DELETE superadmin/leads/[id]", "set", WithSuperAdminAuth)
GetSettings == Route("GET superadmin/settings", "read", WithSuperAdminAuth)
PutSettings == Route("PUT superadmin/settings", "set", WithSuperAdminAuth)

=============================================================================

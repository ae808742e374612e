-------------------------------- MODULE Pages ---------------------------------
(***************************************************************************)
(* The pages under src/app/[locale]: whom each opens for, what it loads,   *)
(* which buttons and links it shows to whom, and what a button does: the   *)
(* calls it makes, in order, what it does with a refusal, whether a flag   *)
(* keeps it from being pressed again, and how the page follows the change. *)
(*                                                                         *)
(* Abstracted: texts, layout, checks of a form that never leave the page,  *)
(* and the rows themselves.  The loads a page makes for one choice (a      *)
(* search, a filter, a week, a session, a child) are one load, and moving  *)
(* to another page of a list is no choice: the number shown comes with the *)
(* answer.                                                                 *)
(***************************************************************************)
EXTENDS Routes, Sequences

Staff == {"ADMIN", "MODERATOR", "CAPTAIN"}
Anyone == Gate(Role, {})
Only(role) == Gate({role}, {})
AnyOf(keys) == Gate({}, keys)

\* To whom a load, a button or a link is there.
Item(gate, what) == [gate |-> gate, what |-> what]
All(routes) == {Item(Anyone, route) : route \in routes}
To(key, pages) == {Item(RequireAccess(key), page) : page \in pages}

\* What follows a refused call: the handler gives up, tells the user and goes
\* on, or does not look at the answer.
Call(route) == [route |-> route, refused |-> "stops"]
Told(route) == [route |-> route, refused |-> "tells"]
Blind(route) == [route |-> route, refused |-> "ignores"]

\* after: the page reloads, shows the answer in place of what it had, marks in
\* what it has the change that was sent, makes that change before the answer
\* and takes it back ("optimistic"), keeps what it shows, or leaves.
Handler(calls, flag, after) == [calls |-> calls, flag |-> flag, after |-> after]

\* A button is dead while one of the flags it waits for is up.  A flag that
\* one row or one open dialog has for itself keeps no other button dead, nor
\* this one once the dialog is opened again: it is none.
Button(gate, waits, handler) ==
    Item(gate, [waits |-> waits, handler |-> handler])

\* late: what an answer does that is no longer waited for (it is shown, kept
\* under its own key, or dropped).
RequireAccessPage(roles, gate) ==
    [area |-> roles, gate |-> gate, loads |-> {}, pickers |-> {},
     chosen |-> FALSE, late |-> "shown", buttons |-> {}, links |-> {}]

-----------------------------------------------------------------------------
(* What frames every page: header, sidebar, portal and platform layouts *)

\* There is no page under /settings.
SidebarLinks ==
    {Item(Gate(Staff, {}), "dashboard"), Item(Only("ADMIN"), "branches"),
     Item(Only("ADMIN"), "users"), Item(Only("ADMIN"), "academy_settings"),
     Item(CaptainOr("viewGroups"), "groups"),
     Item(CaptainOr("viewSchedule"), "schedule")}
    \cup To("viewTrainees", {"trainees"}) \cup To("viewCaptains", {"captains"})
    \cup To("viewSubscriptions", {"plans"})
    \cup To("viewAttendance", {"attendance"}) \cup To("viewReports", {"reports"})
    \cup {Item(AnyOf({"viewFinances", "viewExpenses", "viewReceipts",
                      "managePayroll"}), "finance")}

HeaderLoads ==
    {Item(Only("ADMIN"), ListBranches), Item(Only("CAPTAIN"), GetOwnRating)}

HeaderBranch ==
    Button(Only("ADMIN"), {"switchingId"},
           Handler(<<Call(PostSwitchBranch)>>, "switchingId", "leave"))

HeaderPassword ==
    Button(Anyone, {"isSubmittingPassword"},
           Handler(<<Call(ChangePassword)>>, "isSubmittingPassword", "keep"))

\* The layout sends parents to the portal.
DashboardLayout ==
    [RequireAccessPage(Staff, Anyone) EXCEPT
        !.loads = HeaderLoads, !.late = "dropped", !.links = SidebarLinks,
        !.buttons = {HeaderBranch, HeaderPassword}]

PortalPassword ==
    Button(Anyone, {"isSubmittingPassword"},
           Handler(<<Call(ChangePassword)>>, "isSubmittingPassword", "keep"))

PortalLinks ==
    {Item(Anyone, page) : page \in {"portal", "portal_attendance",
        "portal_subscription", "portal_receipts", "portal_schedule"}}

PortalTraineeProvider == All({PortalTrainees})

PortalLayout ==
    [RequireAccessPage({"TRAINEE"}, Only("TRAINEE")) EXCEPT
        !.loads = PortalTraineeProvider, !.links = PortalLinks,
        !.buttons = {PortalPassword}]

SuperAdminLayout ==
    [RequireAccessPage({"SUPER_ADMIN"}, Anyone) EXCEPT
        !.loads = All({ListLeads}), !.late = "keyed",
        !.links = {Item(Anyone, p) : p \in {"tenants", "leads", "settings"}}]

-----------------------------------------------------------------------------
(* The dashboard and the branches *)

\* A tile is there if the server put its figures into the answer.
DashboardLinks ==
    {Item(CaptainOr("viewSchedule"), "schedule"),
     Item(RequireAccess("viewRenewals"), "plans")}

DashboardPage ==
    [RequireAccessPage(Staff, Anyone) EXCEPT
        !.loads = All({GetDashboard}), !.late = "keyed",
        !.links = DashboardLinks]

HandleCreateBranch ==
    Handler(<<Call(CreateBranch)>>, "isSubmitting", "reload")
HandleEditBranch == Handler(<<Call(PatchBranch)>>, "isSubmitting", "reload")
HandleToggleStatus == Handler(<<Call(PatchBranch)>>, "none", "reload")

CreateBranchModal ==
    Button(Only("ADMIN"), {"isSubmitting"}, HandleCreateBranch)
EditBranchModal == Button(Only("ADMIN"), {"isSubmitting"}, HandleEditBranch)
BranchRows == Button(Only("ADMIN"), {}, HandleToggleStatus)

\* The hooks, the load among them, run before the page looks at the role.
BranchesPage ==
    [RequireAccessPage(Staff, Anyone) EXCEPT
        !.loads = All({ListBranches}), !.chosen = TRUE,
        !.buttons = {CreateBranchModal, EditBranchModal, BranchRows}]

-----------------------------------------------------------------------------
(* Users *)

HandleCreateUser == Handler(<<Call(CreateUser)>>, "isSubmitting", "reload")

\* Name and phone first, the privileges of a moderator second.
HandleUpdateUser ==
    Handler(<<Blind(PatchUser), Blind(PatchUser)>>, "isSubmitting", "reload")

HandleDeactivateUser == Handler(<<Call(PatchUser)>>, "none", "reload")
HandlePasswordReset == Handler(<<Call(PatchUser)>>, "none", "keep")

UserRows ==
    {Button(Only("ADMIN"), {}, HandleDeactivateUser),
     Button(Only("ADMIN"), {}, HandlePasswordReset)}

UserDialog ==
    {Button(Only("ADMIN"), {"isSubmitting"}, HandleCreateUser),
     Button(Only("ADMIN"), {"isSubmitting"}, HandleUpdateUser)}

UsersPage ==
    [RequireAccessPage(Staff, Anyone) EXCEPT
        !.loads = All({ListUsers}), !.chosen = TRUE,
        !.buttons = UserRows \cup UserDialog]

-----------------------------------------------------------------------------
(* Trainees *)

TraineesLinks ==
    {Item(Anyone, "trainee")} \cup To("manageTrainees", {"trainee_new"})

TraineesPage ==
    [RequireAccessPage(Staff, RequireAccess("viewTrainees")) EXCEPT
        !.loads = All({ListTrainees}), !.chosen = TRUE, !.links = TraineesLinks]

\* Mutant: a refused enrolment is taken for a failure of the whole.
HandleRegister_AllOrNothing ==
    Handler(<<Call(CreateTrainee), Call(Enroll)>>, "isSubmitting", "leave")

\* Registers, then enrols; a refused enrolment is told, and the form is over.
HandleRegister ==
    Handler(<<Call(CreateTrainee), Told(Enroll)>>, "isSubmitting", "leave")
HandleRegisterOnly ==
    Handler(<<Call(CreateTrainee)>>, "isSubmitting", "leave")

\* Step 0 leads to step 1, whose plans and groups only an enroller is asked.
HandleNext == {Item(RequireAccess("enroll"), ListPlans)}
GroupsForPlan == {Item(RequireAccess("enroll"), ListGroups)}

EnrollStep == Button(RequireAccess("enroll"), {"isSubmitting"}, HandleRegister)
PersonalStep == Button(Anyone, {"isSubmitting"}, HandleRegisterOnly)

RegisteredDialog == {Item(RequireAccess("viewTrainees"), "trainees")}

\* Arriving from a group's row, the plan and its groups are loaded for anyone.
PrefilledPlan == All({ListPlans, ListGroups})

NewTraineePage ==
    [RequireAccessPage(Staff, RequireAccess("manageTrainees")) EXCEPT
        !.pickers = HandleNext \cup GroupsForPlan \cup PrefilledPlan,
        !.buttons = {EnrollStep, PersonalStep}, !.links = RegisteredDialog]

HandleSaveTrainee == Handler(<<Call(PatchTrainee)>>, "isSaving", "reload")
SetTraineeActive == Handler(<<Call(PatchTrainee)>>, "none", "reload")
HandleRecordPayment ==
    Handler(<<Call(RecordPayment)>>, "isRecordingPayment", "reload")
HandleSaveAssignment ==
    Handler(<<Call(AssignTrainee)>>, "isSavingAssign", "reload")
HandleEnroll(route) == Handler(<<Call(route)>>, "isEnrolling", "reload")

OpenAssignDialog == {Item(RequireAccess("manageTrainees"), GetPlan),
                     Item(RequireAccess("manageTrainees"), ListGroups)}
OpenEnrollDialog == {Item(RequireAccess("enroll"), ListPlans)}
LoadEnrollGroups == {Item(RequireAccess("enroll"), ListGroups)}

TraineeHeader ==
    {Button(RequireAccess("manageTrainees"), {"isSaving"}, HandleSaveTrainee),
     Button(RequireAccess("manageTrainees"), {}, SetTraineeActive)}

\* Mutant: the button stays enabled while a payment is being recorded.
PaymentDialog_Enabled ==
    Button(RequireAccess("recordPayments"), {}, HandleRecordPayment)

PaymentDialog ==
    Button(RequireAccess("recordPayments"), {"isRecordingPayment"},
           HandleRecordPayment)

AssignDialog ==
    Button(RequireAccess("manageTrainees"), {"isSavingAssign"},
           HandleSaveAssignment)

\* Enrols, or renews when the page shows a subscription.
EnrollDialog ==
    {Button(RequireAccess("enroll"), {"isEnrolling"}, HandleEnroll(route)) :
        route \in {Enroll, Renew}}

TraineePage ==
    [RequireAccessPage(Staff, RequireAccess("viewTrainees")) EXCEPT
        !.loads = All({GetTrainee, ListFeedback}),
        !.pickers = OpenAssignDialog \cup OpenEnrollDialog
                        \cup LoadEnrollGroups,
        !.buttons = TraineeHeader \cup EnrollDialog
                        \cup {PaymentDialog, AssignDialog}]

-----------------------------------------------------------------------------
(* Captains *)

CaptainsLinks ==
    {Item(Anyone, "captain")} \cup To("manageCaptains", {"captain_new"})

CaptainsPage ==
    [RequireAccessPage(Staff, RequireAccess("viewCaptains")) EXCEPT
        !.loads = All({ListCaptains}), !.chosen = TRUE, !.links = CaptainsLinks]

HandleSaveCaptain == Handler(<<Call(PatchCaptain)>>, "isSaving", "reload")
HandleDeactivateCaptain == Handler(<<Call(PatchCaptain)>>, "none", "reload")

CaptainHeader ==
    {Button(RequireAccess("manageCaptains"), {"isSaving"}, HandleSaveCaptain),
     Button(RequireAccess("manageCaptains"), {}, HandleDeactivateCaptain)}

CaptainPage ==
    [RequireAccessPage(Staff, RequireAccess("viewCaptains")) EXCEPT
        !.loads = All({GetCaptain}), !.buttons = CaptainHeader]

HandleRegisterCaptain ==
    Handler(<<Call(CreateCaptain)>>, "isSubmitting", "leave")

CaptainForm == Button(Anyone, {"isSubmitting"}, HandleRegisterCaptain)

NewCaptainPage ==
    [RequireAccessPage(Staff, RequireAccess("manageCaptains")) EXCEPT
        !.buttons = {CaptainForm},
        !.links = {Item(RequireAccess("viewCaptains"), "captains")}]

-----------------------------------------------------------------------------
(* Subscription plans *)

HandleDeactivatePlan ==
    Handler(<<Call(DeletePlan)>>, "none", "reload")

PlanRows == Button(Only("ADMIN"), {}, HandleDeactivatePlan)

PlansLinks == {Item(Anyone, "plan"), Item(Only("ADMIN"), "plan_new")}

PlansPage ==
    [RequireAccessPage(Staff, RequireAccess("viewSubscriptions")) EXCEPT
        !.loads = All({ListPlans}), !.buttons = {PlanRows},
        !.links = PlansLinks]

HandleSavePlan == Handler(<<Call(PatchPlan)>>, "isSaving", "leave")

PlanForm == Button(Only("ADMIN"), {"isSaving"}, HandleSavePlan)

PlanPage ==
    [RequireAccessPage(Staff, RequireAccess("viewSubscriptions")) EXCEPT
        !.loads = All({GetPlan}), !.buttons = {PlanForm}]

HandleCreatePlan == Handler(<<Call(CreatePlan)>>, "isSubmitting", "leave")

NewPlanForm == Button(Anyone, {"isSubmitting"}, HandleCreatePlan)

NewPlanPage ==
    [RequireAccessPage(Staff, Only("ADMIN")) EXCEPT !.buttons = {NewPlanForm}]

-----------------------------------------------------------------------------
(* Groups *)

GroupsFilters ==
    {Item(Gate({"ADMIN", "MODERATOR"}, {}), ListPlans),
     Item(Gate({"ADMIN", "MODERATOR"}, {}), ListCaptains)}

\* "Add trainee" is there for whoever may filter.
GroupsLinks ==
    {Item(Anyone, "group"), Item(RequireAccess("manageGroups"), "group_new"),
     Item(Gate({"ADMIN", "MODERATOR"}, {}), "trainee_new")}

GroupsPage ==
    [RequireAccessPage(Staff, CaptainOr("viewGroups")) EXCEPT
        !.loads = All({ListGroups}), !.chosen = TRUE,
        !.pickers = GroupsFilters, !.links = GroupsLinks]

HandleRemoveTrainee ==
    Handler(<<Call(RemoveFromGroup)>>, "none", "reload")

GroupRows ==
    Button(RequireAccess("manageGroups"), {}, HandleRemoveTrainee)

GroupLinks ==
    To("manageGroups", {"group_edit"}) \cup To("viewTrainees", {"trainee"})
    \cup {Item(CaptainOr("viewTrainees"), "feedback")}

GroupPage ==
    [RequireAccessPage(Staff, CaptainOr("viewGroups")) EXCEPT
        !.loads = All({GetGroup}), !.buttons = {GroupRows},
        !.links = GroupLinks]

HandleFeedback == Handler(<<Call(CreateFeedback)>>, "none", "reload")

\* Captains write in the panel.  It hangs over the page of a group, and may be
\* closed and opened again while it is saving.
FeedbackForm == Button(Only("CAPTAIN"), {}, HandleFeedback)

FeedbackPanel ==
    [RequireAccessPage(Staff, CaptainOr("viewTrainees")) EXCEPT
        !.loads = All({ListFeedback}), !.buttons = {FeedbackForm}]

HandleEditGroup == Handler(<<Call(PatchGroup)>>, "isSubmitting", "leave")

EditGroupForm == Button(Anyone, {"isSubmitting"}, HandleEditGroup)

EditGroupPage ==
    [RequireAccessPage(Staff, RequireAccess("manageGroups")) EXCEPT
        !.loads = All({GetGroup}), !.pickers = All({ListCaptains, ListPlans}),
        !.buttons = {EditGroupForm}]

HandleCreateGroup == Handler(<<Call(CreateGroup)>>, "isSubmitting", "leave")

NewGroupForm == Button(Anyone, {"isSubmitting"}, HandleCreateGroup)

NewGroupPage ==
    [RequireAccessPage(Staff, RequireAccess("manageGroups")) EXCEPT
        !.pickers = All({ListCaptains, ListPlans}), !.buttons = {NewGroupForm}]

-----------------------------------------------------------------------------
(* Schedule and attendance *)

HandleCancel == Handler(<<Call(CancelSession)>>, "none", "mark")
HandleReschedule == Handler(<<Call(PatchSession)>>, "none", "reload")

\* The backdrop closes it at any time, for another session or the same.
SessionModal ==
    {Button(RequireAccess("manageSchedule"), {}, HandleCancel),
     Button(RequireAccess("manageSchedule"), {}, HandleReschedule)}

\* The group's name in the modal leads to its page.
SchedulePage ==
    [RequireAccessPage(Staff, CaptainOr("viewSchedule")) EXCEPT
        !.loads = All({ListSchedule}), !.chosen = TRUE,
        !.buttons = SessionModal, !.links = {Item(Anyone, "group")}]

HandleSubmitAttendance ==
    Handler(<<Call(SubmitAttendance)>>, "submitting", "keep")

AttendanceForm ==
    Button(RequireAccess("markAttendance"), {"submitting"},
           HandleSubmitAttendance)

\* Today's sessions are listed once; the choice is the session of the sheet.
AttendancePage ==
    [RequireAccessPage(Staff, RequireAccess("viewAttendance")) EXCEPT
        !.loads = All({ListSchedule, GetSheet}), !.chosen = TRUE,
        !.buttons = {AttendanceForm}]

-----------------------------------------------------------------------------
(* Finance and reports *)

FinanceLinks ==
    To("viewExpenses", {"manual_income", "expenses"})
    \cup To("viewReceipts", {"receipts"}) \cup To("managePayroll", {"payroll"})

FinancePage ==
    [RequireAccessPage(Staff, AnyOf({"viewFinances", "viewExpenses",
                                     "viewReceipts", "managePayroll"})) EXCEPT
        !.loads = {Item(RequireAccess("viewFinances"), GetIncome)},
        !.chosen = TRUE, !.late = "keyed", !.links = FinanceLinks]

HandleCreateExpense ==
    Handler(<<Call(CreateExpense)>>, "isSubmitting", "reload")
HandleDeleteExpense == Handler(<<Call(DeleteExpense)>>, "none", "reload")

ExpenseControls ==
    {Button(RequireAccess("manageExpenses"), {"isSubmitting"},
            HandleCreateExpense),
     Button(RequireAccess("manageExpenses"), {}, HandleDeleteExpense)}

ExpensesPage ==
    [RequireAccessPage(Staff, RequireAccess("viewExpenses")) EXCEPT
        !.loads = All({ListExpenses}), !.buttons = ExpenseControls]

HandleCreateIncome ==
    Handler(<<Call(CreateManualIncome)>>, "isSubmitting", "reload")
HandleDeleteIncome == Handler(<<Call(DeleteManualIncome)>>, "none", "reload")

IncomeControls ==
    {Button(RequireAccess("manageExpenses"), {"isSubmitting"},
            HandleCreateIncome),
     Button(RequireAccess("manageExpenses"), {}, HandleDeleteIncome)}

ManualIncomePage ==
    [RequireAccessPage(Staff, RequireAccess("viewExpenses")) EXCEPT
        !.loads = All({ListManualIncomes}), !.buttons = IncomeControls]

HandleCalculate == Handler(<<Call(CalculatePayroll)>>, "isCalculating", "keep")
HandleRecordPayroll ==
    Handler(<<Call(RecordPayroll)>>, "isRecording", "reload")
HandleMarkPaid == Handler(<<Call(MarkPayrollPaid)>>, "none", "reload")

PayrollControls ==
    {Button(Anyone, {"isCalculating"}, HandleCalculate),
     Button(Anyone, {"isRecording"}, HandleRecordPayroll),
     Button(Anyone, {}, HandleMarkPaid)}

PayrollPage ==
    [RequireAccessPage(Staff, RequireAccess("managePayroll")) EXCEPT
        !.loads = All({ListPayrolls}), !.pickers = All({ListCaptains}),
        !.buttons = PayrollControls]

HandleDownload == Handler(<<Call(GetReceipt)>>, "none", "keep")

ReceiptRows == Button(Anyone, {}, HandleDownload)

ReceiptsPage ==
    [RequireAccessPage(Staff, RequireAccess("viewReceipts")) EXCEPT
        !.loads = All({ListReceipts}), !.chosen = TRUE,
        !.buttons = {ReceiptRows}]

HandleGenerate == Handler(<<Call(GetReport)>>, "isLoading", "keep")
HandleExport == Handler(<<Call(GetReport)>>, "isExporting", "keep")

ReportControls ==
    {Button(Anyone, {"isLoading"}, HandleGenerate),
     Button(Anyone, {"isExporting"}, HandleExport)}

ReportsPage ==
    [RequireAccessPage(Staff, RequireAccess("viewReports")) EXCEPT
        !.pickers = All({ListCaptains}), !.buttons = ReportControls]

-----------------------------------------------------------------------------
(* The portal of the parents: every page follows the child chosen above it *)

PortalScreen(routes) ==
    [RequireAccessPage({"TRAINEE"}, Only("TRAINEE")) EXCEPT
        !.loads = All(routes), !.chosen = TRUE]

HandleRate == Handler(<<Call(RateCaptain)>>, "none", "show")

PortalPage ==
    [PortalScreen({PortalDashboard, GetCaptainRating, PortalFeedback}) EXCEPT
        !.buttons = {Button(Anyone, {}, HandleRate)}, !.links = PortalLinks]

PortalAttendancePage == PortalScreen({PortalAttendance})
PortalSchedulePage == PortalScreen({PortalSchedule})
PortalSubscriptionPage == PortalScreen({PortalSubscription})

HandlePortalDownload == Handler(<<Call(PortalReceipt)>>, "none", "keep")

PortalReceiptsPage ==
    [PortalScreen({PortalReceipts}) EXCEPT
        !.buttons = {Button(Anyone, {}, HandlePortalDownload)}]

-----------------------------------------------------------------------------
(* The platform *)

HandleTenantStatus ==
    Handler(<<Call(PatchTenantStatus)>>, "isActionLoading", "reload")

TenantRows == Button(Anyone, {"isActionLoading"}, HandleTenantStatus)

TenantsPage ==
    [RequireAccessPage({"SUPER_ADMIN"}, Anyone) EXCEPT
        !.loads = All({ListTenants}), !.chosen = TRUE, !.buttons = {TenantRows},
        !.links = {Item(Anyone, "tenant"), Item(Anyone, "tenant_new")}]

HandleSaveTenant == Handler(<<Call(PatchTenant)>>, "isSaving", "show")
HandleOneTenantStatus ==
    Handler(<<Call(PatchTenantStatus)>>, "isActionLoading", "show")

TenantForm == Button(Anyone, {"isSaving"}, HandleSaveTenant)
TenantActions == Button(Anyone, {"isActionLoading"}, HandleOneTenantStatus)

TenantPage ==
    [RequireAccessPage({"SUPER_ADMIN"}, Anyone) EXCEPT
        !.loads = All({GetTenant, GetUsage}),
        !.buttons = {TenantForm, TenantActions}]

HandleCreateTenant == Handler(<<Call(CreateTenant)>>, "isSubmitting", "leave")

NewTenantNavigation == Button(Anyone, {"isSubmitting"}, HandleCreateTenant)

NewTenantPage ==
    [RequireAccessPage({"SUPER_ADMIN"}, Anyone) EXCEPT
        !.buttons = {NewTenantNavigation}, !.links = {Item(Anyone, "tenants")}]

\* Shown before it is saved, and put back if it is not.
UpdateLead == Handler(<<Call(PatchLead)>>, "isPending", "optimistic")
RemoveLead == Handler(<<Call(DeleteLead)>>, "isDeleting", "reload")

LeadRows ==
    {Button(Anyone, {"isPending"}, UpdateLead),
     Button(Anyone, {"isDeleting"}, RemoveLead)}

LeadsPage ==
    [RequireAccessPage({"SUPER_ADMIN"}, Anyone) EXCEPT
        !.loads = All({ListLeads}), !.chosen = TRUE, !.late = "keyed",
        !.buttons = LeadRows]

SaveSettings == Handler(<<Call(PutSettings)>>, "isPending", "show")

LeadEmailForm == Button(Anyone, {"isPending"}, SaveSettings)

SettingsPage ==
    [RequireAccessPage({"SUPER_ADMIN"}, Anyone) EXCEPT
        !.loads = All({GetSettings}), !.late = "keyed",
        !.buttons = {LeadEmailForm}]

-----------------------------------------------------------------------------

\* A name for each page, the folder it lives in as far as that is telling.
Pages ==
    [shell |-> DashboardLayout, dashboard |-> DashboardPage,
     branches |-> BranchesPage, users |-> UsersPage,
     trainees |-> TraineesPage, trainee |-> TraineePage,
     trainee_new |-> NewTraineePage, captains |-> CaptainsPage,
     captain |-> CaptainPage, captain_new |-> NewCaptainPage,
     plans |-> PlansPage, plan |-> PlanPage, plan_new |-> NewPlanPage,
     groups |-> GroupsPage, group |-> GroupPage, feedback |-> FeedbackPanel,
     group_edit |-> EditGroupPage, group_new |-> NewGroupPage,
     schedule |-> SchedulePage, attendance |-> AttendancePage,
     finance |-> FinancePage,
     expenses |-> ExpensesPage, manual_income |-> ManualIncomePage,
     payroll |-> PayrollPage, receipts |-> ReceiptsPage,
     reports |-> ReportsPage, portal_shell |-> PortalLayout,
     portal |-> PortalPage, portal_attendance |-> PortalAttendancePage,
     portal_schedule |-> PortalSchedulePage,
     portal_subscription |-> PortalSubscriptionPage,
     portal_receipts |-> PortalReceiptsPage,
     platform_shell |-> SuperAdminLayout, tenants |-> TenantsPage,
     tenant |-> TenantPage, tenant_new |-> NewTenantPage,
     leads |-> LeadsPage, settings |-> SettingsPage]

=============================================================================

------------------------------ MODULE Accounts ------------------------------
(***************************************************************************)
(* The accounts of one academy and its rows of user_phone_index, the       *)
(* platform table login reads to find which account a phone signs in to    *)
(* (src/services/login-index.ts).                                          *)
(*                                                                         *)
(* The index is a copy: every handler that changes an account ends with    *)
(* syncLoginIndex, which reads the account back and makes the index match  *)
(* in the same transaction.  A request is a process with one step per SQL  *)
(* statement whose position matters, at READ COMMITTED; what it wrote is   *)
(* visible to others at its commit.  A wait for a row or an index key is a *)
(* disabled step, and Rollback stands for every error, refusal, deadlock   *)
(* victim and timeout.                                                     *)
(*                                                                         *)
(* Abstracted: names, passwords, languages, roles other than "a guardian   *)
(* account of this branch" (an account of another branch is refused by     *)
(* createTrainee as staff are), profile fields and audit rows.             *)
(***************************************************************************)
EXTENDS Integers, FiniteSets

CONSTANTS
    Req,      \* transactions that may be open at the same time
    User,     \* accounts that may ever exist
    Kid,      \* trainee profiles that may ever exist
    Phone,
    Ops,      \* the kinds of request that arrive
    Solo,     \* kinds that no other request on the same account overlaps;
              \* "reconcile": no account changes while its INSERT runs
    None

Kinds == {"create", "update", "profile", "rephone", "enrol", "kidoff",
          "kidon", "reconcile"}

ASSUME AccountAssumption ==
    /\ Ops \subseteq Kinds
    /\ Solo \subseteq Kinds
    /\ None \notin User \cup Kid \cup Phone
    /\ IsFiniteSet(Req)

VARIABLES
    users,    \* users: phone (None: no row yet), active, guardian
    kids,     \* trainee_profiles: the account (None: no row yet), active
    entries,  \* user_phone_index of this academy: phone -> account or None
    req       \* the open transaction of each request

vars == <<users, kids, entries, req>>

-----------------------------------------------------------------------------
(* Rows and transactions *)

Account == [phone : Phone \cup {None}, active : BOOLEAN, guardian : BOOLEAN]
Profile == [account : User \cup {None}, active : BOOLEAN]

NoAccount == [phone |-> None, active |-> FALSE, guardian |-> FALSE]
NoProfile == [account |-> None, active |-> FALSE]

Transaction ==
    [op : Kinds \cup {"none"},
     pc : {"idle", "write", "kid", "sync", "read", "clean", "insert", "commit"},
     user : User \cup {None}, kid : Kid \cup {None},
     phone : Phone \cup {None},        \* phoneNumber to set, None: keep it
     active : {"on", "off", "keep"},   \* isActive to set
     mirrors : BOOLEAN,                \* it ends with syncLoginIndex
     wrote : BOOLEAN,                  \* it has updated or inserted the account
     seen : Account,                   \* the version it wrote, or sync read
     drop : SUBSET Phone,              \* index rows its DELETE removed
     rows : SUBSET (Phone \X User)]    \* active accounts a reconciliation read

Idle ==
    [op |-> "none", pc |-> "idle", user |-> None, kid |-> None,
     phone |-> None, active |-> "keep", mirrors |-> TRUE, wrote |-> FALSE,
     seen |-> NoAccount, drop |-> {}, rows |-> {}]

Others(r) == Req \ {r}
Exists(u) == users[u].phone # None
HasKid(k) == kids[k].account # None
SignsIn(u, f) == users[u].active /\ users[u].phone = f
ActiveAccounts == {p \in Phone \X User : SignsIn(p[2], p[1])}
Indexed == {p \in Phone \X User : entries[p[1]] = p[2]}

\* findActiveAccountByPhone, as assertPhoneAvailable asks it: no other
\* committed active account uses the number.
PhoneAvailable(u, f) == \A v \in User \ {u} : ~SignsIn(v, f)

\* A new row's id is nobody else's.
FreshUser(u) == ~Exists(u) /\ \A q \in Req : req[q].user # u
FreshKid(k) == ~HasKid(k) /\ \A q \in Req : req[q].kid # k

\* The UPDATE of a trainee_profiles row by an open transaction.
KidUnlocked(r, k) ==
    \A q \in Others(r) :
        req[q].kid = k =>
            /\ req[q].op # "kidoff"
            /\ req[q].op = "kidon" => req[q].pc \in {"write", "kid"}

\* Requests of the kinds in Solo meet no other request on their account.
Admitted(r, op, u) ==
    /\ op \in Ops
    /\ req[r].pc = "idle"
    /\ \A q \in Others(r) :
        (req[q].pc # "idle" /\ {op, req[q].op} \cap Solo # {}) =>
            req[q].user # u

Init ==
    /\ \E u \in User, k \in Kid, f \in Phone :
        /\ users = [v \in User |->
                      IF v = u
                      THEN [phone |-> f, active |-> TRUE, guardian |-> TRUE]
                      ELSE NoAccount]
        /\ kids = [c \in Kid |->
                     IF c = k THEN [account |-> u, active |-> TRUE]
                              ELSE NoProfile]
        /\ entries = [g \in Phone |-> IF g = f THEN u ELSE None]
    /\ req = [r \in Req |-> Idle]

Begin(r, fields) ==
    /\ req' = [req EXCEPT ![r] = fields]
    /\ UNCHANGED <<users, kids, entries>>

-----------------------------------------------------------------------------
(* The first statements of each handler: its reads and its refusals *)

\* createUser: the number must be free in the whole academy.
StartCreate(r, u, f) ==
    /\ Admitted(r, "create", u)
    /\ FreshUser(u)
    /\ PhoneAvailable(u, f)
    /\ Begin(r, [Idle EXCEPT !.op = "create", !.pc = "write", !.user = u,
                             !.phone = f, !.active = "on"])

\* createCaptain: the same, with a profile only it refers to.
StartCreateCaptain(r, u, f) == StartCreate(r, u, f)

\* Whoever is active after the change needs a number nobody else signs in with.
ChangeAllowed(u, f, a) ==
    (a = "on" \/ (a = "keep" /\ users[u].active)) =>
        PhoneAvailable(u, IF f = None THEN users[u].phone ELSE f)

\* updateUser always updates the row, be it only the name.
StartUpdate(r, u, f, a) ==
    /\ Admitted(r, "update", u)
    /\ Exists(u)
    /\ ChangeAllowed(u, f, a)
    /\ Begin(r, [Idle EXCEPT !.op = "update", !.pc = "write", !.user = u,
                             !.phone = f, !.active = a])

\* updateCaptain checks as updateUser does; with no user field in the request
\* it writes only the profile, and still syncs.
StartUpdateCaptain(r, u, f, a) ==
    /\ ~users[u].guardian
    /\ \/ StartUpdate(r, u, f, a)
       \/ /\ f = None /\ a = "keep"
          /\ Admitted(r, "profile", u)
          /\ Exists(u)
          /\ ChangeAllowed(u, None, "keep")
          /\ Begin(r, [Idle EXCEPT !.op = "profile", !.pc = "sync",
                                   !.user = u])

\* deactivateUser, and deactivateCaptain, check no number.
StartDeactivate(r, u) ==
    /\ Admitted(r, "update", u)
    /\ Exists(u)
    /\ Begin(r, [Idle EXCEPT !.op = "update", !.pc = "write", !.user = u,
                             !.active = "off"])

StartDeactivateCaptain(r, u) == ~users[u].guardian /\ StartDeactivate(r, u)

\* updateTrainee with a phone: it always writes the number, but checks it and
\* syncs only when it differs from the one just read.
StartRephone(r, k, f) ==
    LET u == kids[k].account
        phoneChanges == f # users[u].phone
    IN  /\ HasKid(k)
        /\ Admitted(r, "rephone", u)
        /\ (phoneChanges /\ users[u].active) => PhoneAvailable(u, f)
        /\ Begin(r, [Idle EXCEPT !.op = "rephone", !.pc = "write", !.user = u,
                                 !.phone = f, !.mirrors = phoneChanges])

\* createTrainee: resolveGuardianAccount links the active guardian account of
\* the number, wakes a dormant one, or makes a new one; another active
\* account with the number refuses the registration.
StartEnrol(r, k, u, f) ==
    /\ Admitted(r, "enrol", u)
    /\ FreshKid(k)
    /\ \/ /\ SignsIn(u, f) /\ users[u].guardian
          /\ Begin(r, [Idle EXCEPT !.op = "enrol", !.pc = "kid", !.user = u,
                                   !.kid = k])
       \/ /\ \A v \in User : ~SignsIn(v, f)
          /\ users[u].phone = f /\ users[u].guardian
          /\ Begin(r, [Idle EXCEPT !.op = "enrol", !.pc = "write", !.user = u,
                                   !.kid = k, !.active = "on"])
       \/ /\ \A v \in User :
               ~SignsIn(v, f) /\ ~(users[v].phone = f /\ users[v].guardian)
          /\ FreshUser(u)
          /\ Begin(r, [Idle EXCEPT !.op = "enrol", !.pc = "write", !.user = u,
                                   !.kid = k, !.phone = f, !.active = "on"])

\* Mutant: the account goes with the child, whatever its siblings do.
ActiveSiblingsIgnored(k) == {}

\* deactivateTrainee's count, after its own UPDATE of the profile.
ActiveSiblings(k) ==
    {c \in Kid \ {k} : kids[c].account = kids[k].account /\ kids[c].active}

\* deactivateTrainee updates the profile, then counts the siblings; only the
\* last active child takes the account with it.
StartKidOff(r, k) ==
    /\ HasKid(k)
    /\ Admitted(r, "kidoff", kids[k].account)
    /\ KidUnlocked(r, k)
    /\ Begin(r, [Idle EXCEPT !.op = "kidoff", !.user = kids[k].account,
                             !.kid = k, !.active = "off",
                             !.pc = IF ActiveSiblings(k) = {} THEN "write"
                                                              ELSE "sync"])

\* activateTrainee reads whether the account is active; an inactive one is
\* checked and reactivated before the profile.
StartKidOn(r, k) ==
    LET u == kids[k].account IN
    /\ HasKid(k)
    /\ Admitted(r, "kidon", u)
    /\ ~users[u].active => PhoneAvailable(u, users[u].phone)
    /\ Begin(r, [Idle EXCEPT !.op = "kidon", !.user = u, !.kid = k,
                             !.active = "on",
                             !.pc = IF users[u].active THEN "kid" ELSE "write"])

\* reconcileLoginIndex with repair: it reads the active accounts ...
StartReconcile(r) ==
    /\ Admitted(r, "reconcile", None)
    /\ Begin(r, [Idle EXCEPT !.op = "reconcile", !.pc = "read",
                             !.rows = ActiveAccounts])

\* ... and, by another statement, the entries.  It repairs when they differ, be
\* it in the branch or the role, which are abstracted, or because an account
\* has changed between the two reads; a clean index ends it.
ReadEntries(r) ==
    /\ req[r].pc = "read"
    /\ \/ Begin(r, [req[r] EXCEPT !.pc = "clean", !.rows = {}])
       \/ req[r].rows = Indexed /\ Begin(r, Idle)

-----------------------------------------------------------------------------
(* The statements that write *)

\* Mutant: a number the request does not name is written as NULL.
WrittenBlank(r) ==
    LET u == req[r].user IN
    [phone    |-> req[r].phone,
     active   |-> IF req[r].active = "keep" THEN users[u].active
                                            ELSE req[r].active = "on",
     guardian |-> IF Exists(u) THEN users[u].guardian ELSE req[r].op = "enrol"]

\* The row after the UPDATE: the given columns over the newest version.
Written(r) ==
    LET u == req[r].user IN
    [phone    |-> IF req[r].phone = None THEN users[u].phone ELSE req[r].phone,
     active   |-> IF req[r].active = "keep" THEN users[u].active
                                            ELSE req[r].active = "on",
     guardian |-> IF Exists(u) THEN users[u].guardian ELSE req[r].op = "enrol"]

RowUnlocked(r) ==
    \A q \in Others(r) : ~(req[q].wrote /\ req[q].user = req[r].user)

\* Mutant: the pre-check is the only guarantee, there is no partial index.
NoIndex(r, f) == TRUE

\* users_one_active_account_per_phone: no other account is active with the
\* number, committed or in an open transaction (which the INSERT waits for).
KeyFree(r, f) ==
    /\ PhoneAvailable(req[r].user, f)
    /\ \A q \in Others(r) :
          (req[q].wrote /\ req[q].user # req[r].user) =>
              ~(req[q].seen.active /\ req[q].seen.phone = f)

\* INSERT or UPDATE of the account.
Write(r) ==
    /\ req[r].pc = "write"
    /\ RowUnlocked(r)
    /\ Written(r).active => KeyFree(r, Written(r).phone)
    /\ req' = [req EXCEPT
                 ![r].wrote = TRUE,
                 ![r].seen = Written(r),
                 ![r].pc = CASE req[r].op \in {"enrol", "kidon"} -> "kid"
                             [] ~req[r].mirrors -> "commit"
                             [] OTHER -> "clean"]
    /\ UNCHANGED <<users, kids, entries>>

\* The profile row: createTrainee takes branches.trainee_seq, which its
\* branch's other registrations wait for, and inserts; activateTrainee
\* updates.
WriteKid(r) ==
    /\ req[r].pc = "kid"
    /\ IF req[r].op = "enrol"
       THEN \A q \in Others(r) :
               req[q].op = "enrol" => req[q].pc \in {"write", "kid"}
       ELSE KidUnlocked(r, req[r].kid)
    /\ req' = [req EXCEPT ![r].pc = IF req[r].wrote THEN "clean" ELSE "sync"]
    /\ UNCHANGED <<users, kids, entries>>

\* syncLoginIndex reads the account; a transaction that has written it reads
\* its own version instead, and holds the row.
SyncRead(r) ==
    /\ req[r].pc = "sync"
    /\ req' = [req EXCEPT ![r].seen = users[req[r].user], ![r].pc = "clean"]
    /\ UNCHANGED <<users, kids, entries>>

\* Mutant: only a deactivation removes entries; the old number of a changed
\* one stays.
StaleKeptOnRephone(r) ==
    {f \in Phone : entries[f] = req[r].user /\ ~req[r].seen.active}

\* The rows the DELETE matches: the account's own that no longer describe it,
\* or for a reconciliation all that describe no active account.  Its snapshot
\* has both tables: there is no such row while the index follows the accounts.
Stale(r) ==
    IF req[r].op = "reconcile"
    THEN {f \in Phone : entries[f] # None /\ ~SignsIn(entries[f], f)}
    ELSE {f \in Phone :
            /\ entries[f] = req[r].user
            /\ ~(req[r].seen.active /\ req[r].seen.phone = f)}

EntriesUnlocked(r, S) == \A q \in Others(r) : req[q].drop \cap S = {}

Clean(r) ==
    /\ req[r].pc = "clean"
    /\ EntriesUnlocked(r, Stale(r))
    /\ req' = [req EXCEPT ![r].drop = Stale(r),
                          ![r].pc = IF req[r].op = "reconcile" THEN "insert"
                                                               ELSE "commit"]
    /\ UNCHANGED <<users, kids, entries>>

\* The INSERT ... SELECT of a reconciliation takes its rows from the snapshot
\* of its start, however long it then waits for the keys.
Select(r) ==
    /\ req[r].pc = "insert"
    /\ Begin(r, [req[r] EXCEPT !.rows = ActiveAccounts, !.pc = "commit"])

\* The rows of the INSERT ... ON CONFLICT DO UPDATE.
Upserts(r) ==
    IF req[r].op = "reconcile"
    THEN req[r].rows
    ELSE {p \in Phone \X User :
            /\ req[r].mirrors
            /\ p[2] = req[r].user
            /\ req[r].seen.active /\ req[r].seen.phone = p[1]}

EntriesAfter(r) ==
    [f \in Phone |->
        IF \E u \in User : <<f, u>> \in Upserts(r)
        THEN CHOOSE u \in User : <<f, u>> \in Upserts(r)
        ELSE IF f \in req[r].drop THEN None ELSE entries[f]]

KidsAfter(r) ==
    CASE req[r].op = "enrol" ->
           [kids EXCEPT ![req[r].kid] = [account |-> req[r].user,
                                         active |-> TRUE]]
      [] req[r].op \in {"kidon", "kidoff"} ->
           [kids EXCEPT ![req[r].kid].active = (req[r].op = "kidon")]
      [] OTHER -> kids

\* With "reconcile" in Solo, no account changes between the snapshot of a
\* reconciliation's INSERT and its commit.
Undisturbed(r) ==
    "reconcile" \in Solo =>
        \A q \in Others(r) : ~(req[q].op = "reconcile" /\ req[q].pc = "commit")

\* The upsert, which waits for a row another transaction has deleted, and the
\* commit.
Commit(r) ==
    /\ req[r].pc = "commit"
    /\ req[r].wrote => Undisturbed(r)
    /\ EntriesUnlocked(r, {p[1] : p \in Upserts(r)})
    /\ entries' = EntriesAfter(r)
    /\ users' = IF req[r].wrote
                THEN [users EXCEPT ![req[r].user] = req[r].seen] ELSE users
    /\ kids' = KidsAfter(r)
    /\ req' = [req EXCEPT ![r] = Idle]

Rollback(r) ==
    /\ req[r].pc # "idle"
    /\ Begin(r, Idle)

-----------------------------------------------------------------------------

Next ==
    \E r \in Req :
        \/ \E u \in User, f \in Phone :
              StartCreate(r, u, f) \/ StartCreateCaptain(r, u, f)
        \/ \E u \in User, f \in Phone \cup {None}, a \in {"on", "off", "keep"} :
              StartUpdate(r, u, f, a) \/ StartUpdateCaptain(r, u, f, a)
        \/ \E u \in User : StartDeactivate(r, u) \/ StartDeactivateCaptain(r, u)
        \/ \E k \in Kid, f \in Phone : StartRephone(r, k, f)
        \/ \E k \in Kid, u \in User, f \in Phone : StartEnrol(r, k, u, f)
        \/ \E k \in Kid : StartKidOff(r, k) \/ StartKidOn(r, k)
        \/ StartReconcile(r)
        \/ Write(r) \/ WriteKid(r) \/ SyncRead(r) \/ ReadEntries(r)
        \/ Clean(r) \/ Select(r) \/ Commit(r) \/ Rollback(r)

Spec == Init /\ [][Next]_vars

-----------------------------------------------------------------------------
(* Properties *)

\* The rows have the shapes the schema gives them: an active account has a
\* number, an active child an account.
TypeOK ==
    /\ users \in [User -> Account]
    /\ \A u \in User : users[u].active => Exists(u)
    /\ \A k \in Kid : kids[k].active => HasKid(k)
    /\ kids \in [Kid -> Profile]
    /\ entries \in [Phone -> User \cup {None}]
    /\ req \in [Req -> Transaction]

\* One active account per phone (user.service.ts:131-134, the partial unique
\* index users_one_active_account_per_phone): two requests that both found
\* the number free do not both end up holding it.
OneActivePerPhone ==
    \A u, v \in User :
        (u # v /\ users[u].active /\ users[v].active) =>
            users[u].phone # users[v].phone

\* The index says what the accounts say: a number signs in to the account
\* that is active with it, and to nobody when there is none
\* (login-index.ts:21-28).
IndexFollowsAccounts ==
    \A f \in Phone :
        /\ entries[f] # None => SignsIn(entries[f], f)
        /\ \A u \in User : SignsIn(u, f) => entries[f] = u

\* Deactivating one child never closes the account of another that still
\* trains (trainee.service.ts:671-674).
ParentKeepsLogin ==
    [][\A r \in Req :
         LET u == req[r].user IN
         (req[r].op = "kidoff" /\ req[r].wrote /\ users'[u] # users[u]) =>
             \A k \in Kid : kids'[k].account = u => ~kids'[k].active]_vars
=============================================================================

----------------------------- MODULE Academies -----------------------------
(***************************************************************************)
(* The life of an academy (tenant): its row in the platform schema, the    *)
(* PostgreSQL schema that holds its data, and its rows of                  *)
(* user_phone_index, as the super admin's requests create, suspend and     *)
(* delete it (src/services/tenant.service.ts) while the academy's own      *)
(* requests add logins.                                                    *)
(*                                                                         *)
(* No transaction spans these three: every step below is committed on its  *)
(* own, each may fail, and the process may die between two of them.  The   *)
(* schema of an academy is named after its slug.                           *)
(*                                                                         *)
(* Abstracted: names, contacts, configuration; the accounts of an academy, *)
(* which module Accounts details, are here "it has a row in the index".    *)
(***************************************************************************)
EXTENDS FiniteSets

CONSTANTS
    Academy,    \* tenant ids
    Slug,
    Creator,    \* createTenant requests that may run at the same time
    Changer,    \* changeTenantStatus requests that may
    Faults,     \* the steps that may fail, and "crash"
    TakenSlugs, \* TRUE: a request may name a slug that is in use
    Overlap,    \* TRUE: a status change may meet other requests on its academy
    None

FaultKinds == {"provision", "seed", "drop", "record", "index", "crash"}

ASSUME AcademyAssumption ==
    /\ Faults \subseteq FaultKinds
    /\ {TakenSlugs, Overlap} \subseteq BOOLEAN
    /\ None \notin Academy \cup Slug

VARIABLES
    tenants,    \* tenants: status ("none": no row) and slug
    schemas,    \* what the schema of each slug holds
    entries,    \* the academies user_phone_index has rows of
    writing,    \* the academies with an open transaction that adds a login
    making,     \* the createTenant requests
    changing,   \* the changeTenantStatus requests
    interrupted \* history: the academies a request was cut short on, by a
                \* crash or by a row it could not delete

vars == <<tenants, schemas, entries, writing, making, changing, interrupted>>

Statuses == {"ACTIVE", "SUSPENDED", "DELETED"}
NoTenant == [status |-> "none", slug |-> None]
NotMaking == [pc |-> "idle", academy |-> None, slug |-> None]
NotChanging == [pc |-> "idle", academy |-> None, to |-> "ACTIVE"]

HasRow(a) == tenants[a].status # "none"
Uses(a, s) == HasRow(a) /\ tenants[a].slug = s
InTheMaking(a) == \E c \in Creator : making[c].academy = a
UnderChange(a) == \E g \in Changer : changing[g].academy = a

Init ==
    /\ tenants = [a \in Academy |-> NoTenant]
    /\ schemas = [s \in Slug |-> "none"]
    /\ entries = {}
    /\ writing = {}
    /\ making = [c \in Creator |-> NotMaking]
    /\ changing = [g \in Changer |-> NotChanging]
    /\ interrupted = {}

-----------------------------------------------------------------------------
(* createTenant *)

\* The tenants row, ACTIVE from the start.  Its slug is unique among all rows,
\* those of deleted academies included; a slug in use fails the insert, and
\* the catch block runs without a row of its own.
CreateRecord(c, a, s) ==
    LET taken == \E b \in Academy : Uses(b, s) IN
    /\ making[c].pc = "idle"
    /\ ~HasRow(a) /\ ~InTheMaking(a)
    /\ ~TakenSlugs => ~taken /\ \A d \in Creator : making[d].slug # s
    /\ IF taken
       THEN /\ making' = [making EXCEPT
                            ![c] = [pc |-> "drop", academy |-> None, slug |-> s]]
            /\ UNCHANGED tenants
       ELSE /\ making' = [making EXCEPT
                            ![c] = [pc |-> "schema", academy |-> a, slug |-> s]]
            /\ tenants' = [tenants EXCEPT ![a] = [status |-> "ACTIVE",
                                                  slug |-> s]]
    /\ UNCHANGED <<schemas, entries, writing, changing, interrupted>>

\* provisionTenantSchema: CREATE SCHEMA IF NOT EXISTS.
CreateSchema(c) ==
    LET s == making[c].slug IN
    /\ making[c].pc = "schema"
    /\ schemas' = [schemas EXCEPT ![s] = IF @ = "none" THEN "bare" ELSE @]
    /\ making' = [making EXCEPT ![c].pc = "migrate"]
    /\ UNCHANGED <<tenants, entries, writing, changing, interrupted>>

\* provisionTenantSchema: prisma migrate deploy, which creates a schema that
\* is missing and leaves an up-to-date one alone.
Migrate(c) ==
    LET s == making[c].slug IN
    /\ making[c].pc = "migrate"
    /\ schemas' = [schemas EXCEPT ![s] = IF @ = "seeded" THEN @ ELSE "migrated"]
    /\ making' = [making EXCEPT ![c].pc = "seed"]
    /\ UNCHANGED <<tenants, entries, writing, changing, interrupted>>

\* Mutant: the request ends without letting go of its academy.
SeedNeverEnds(c) ==
    LET a == making[c].academy
        s == making[c].slug
    IN  /\ making[c].pc = "seed"
        /\ HasRow(a) /\ schemas[s] # "none"
        /\ schemas' = [schemas EXCEPT ![s] = "seeded"]
        /\ entries' = entries \cup {a}
        /\ making' = [making EXCEPT ![c].pc = "idle"]
        /\ UNCHANGED <<tenants, writing, changing, interrupted>>

\* One transaction: the branch, the admin and the admin's login.
Seed(c) ==
    LET a == making[c].academy
        s == making[c].slug
    IN  /\ making[c].pc = "seed"
        /\ HasRow(a) /\ schemas[s] # "none"
        /\ schemas' = [schemas EXCEPT ![s] = "seeded"]
        /\ entries' = entries \cup {a}
        /\ making' = [making EXCEPT ![c] = NotMaking]
        /\ UNCHANGED <<tenants, writing, changing, interrupted>>

\* A step throws, or the schema is gone when the seed looks for it.
Fail(c) ==
    /\ \/ making[c].pc \in {"schema", "migrate"} /\ "provision" \in Faults
       \/ making[c].pc = "seed" /\ "seed" \in Faults
       \/ making[c].pc = "seed" /\ schemas[making[c].slug] = "none"
    /\ making' = [making EXCEPT ![c].pc = "drop"]
    /\ UNCHANGED <<tenants, schemas, entries, writing, changing, interrupted>>

\* DROP SCHEMA waits for the transactions that use its tables; when it fails
\* the error is logged and the handler goes on.
Dropped(s) ==
    \/ /\ \A a \in writing : ~Uses(a, s)
       /\ schemas' = [schemas EXCEPT ![s] = "none"]
    \/ "drop" \in Faults /\ UNCHANGED schemas

\* Mutant: the cleanup drops the schema and leaves the row.
KeepsTheRow(c) ==
    /\ making[c].pc = "drop"
    /\ Dropped(making[c].slug)
    /\ making' = [making EXCEPT ![c] = NotMaking]
    /\ UNCHANGED <<tenants, entries, writing, changing, interrupted>>

\* The catch block drops the schema of the slug, whoever made it.
CleanSchema(c) ==
    /\ making[c].pc = "drop"
    /\ Dropped(making[c].slug)
    /\ making' = [making EXCEPT
                    ![c] = IF @.academy = None THEN NotMaking
                                               ELSE [@ EXCEPT !.pc = "unrecord"]]
    /\ UNCHANGED <<tenants, entries, writing, changing, interrupted>>

\* Then it deletes its own row, and the index rows go with it (onDelete:
\* Cascade); a failure is logged.
CleanRecord(c) ==
    LET a == making[c].academy IN
    /\ making[c].pc = "unrecord"
    /\ \/ /\ tenants' = [tenants EXCEPT ![a] = NoTenant]
          /\ entries' = entries \ {a}
          /\ UNCHANGED interrupted
       \/ /\ "record" \in Faults
          /\ interrupted' = interrupted \cup {a}
          /\ UNCHANGED <<tenants, entries>>
    /\ making' = [making EXCEPT ![c] = NotMaking]
    /\ UNCHANGED <<schemas, writing, changing>>

-----------------------------------------------------------------------------
(* changeTenantStatus *)

\* Mutant: the terminal status is forgotten.
NothingTerminal(from, to) == from # to

\* isValidStatusTransition.
ValidTransition(from, to) == from # to /\ from # "DELETED"

\* It reads the status and checks the transition.
ReadStatus(g, a, to) ==
    /\ changing[g].pc = "idle"
    /\ HasRow(a)
    /\ ValidTransition(tenants[a].status, to)
    /\ ~Overlap => ~InTheMaking(a) /\ ~UnderChange(a) /\ a \notin writing
    /\ changing' = [changing EXCEPT
                      ![g] = [pc |-> "update", academy |-> a, to |-> to]]
    /\ UNCHANGED <<tenants, schemas, entries, writing, making, interrupted>>

\* Mutant: a deleted academy keeps its logins.
KeepsTheLogins(g) ==
    LET a == changing[g].academy IN
    /\ changing[g].pc = "update"
    /\ HasRow(a)
    /\ tenants' = [tenants EXCEPT ![a].status = changing[g].to]
    /\ changing' = [changing EXCEPT
                      ![g] = IF @.to = "DELETED" THEN [@ EXCEPT !.pc = "drop"]
                                                 ELSE NotChanging]
    /\ UNCHANGED <<schemas, entries, writing, making, interrupted>>

\* It updates the row by id, whatever the status is by now.
UpdateStatus(g) ==
    LET a == changing[g].academy IN
    /\ changing[g].pc = "update"
    /\ HasRow(a)
    /\ tenants' = [tenants EXCEPT ![a].status = changing[g].to]
    /\ changing' = [changing EXCEPT
                      ![g] = IF @.to = "DELETED" THEN [@ EXCEPT !.pc = "unindex"]
                                                 ELSE NotChanging]
    /\ UNCHANGED <<schemas, entries, writing, making, interrupted>>

\* removeTenantFromLoginIndex deletes the committed rows; a failure is logged.
RemoveLogins(g) ==
    /\ changing[g].pc = "unindex"
    /\ \/ entries' = entries \ {changing[g].academy}
       \/ "index" \in Faults /\ UNCHANGED entries
    /\ changing' = [changing EXCEPT ![g].pc = "drop"]
    /\ UNCHANGED <<tenants, schemas, writing, making, interrupted>>

DropDeleted(g) ==
    /\ changing[g].pc = "drop"
    /\ Dropped(tenants[changing[g].academy].slug)
    /\ changing' = [changing EXCEPT ![g] = NotChanging]
    /\ UNCHANGED <<tenants, entries, writing, making, interrupted>>

-----------------------------------------------------------------------------
(* The academy's own requests, and the process dying *)

\* A request of the academy writes an account and its login (Accounts).  Nobody
\* looks at the status: a token issued before a suspension is good until it
\* expires.
OpenWriter(a) ==
    /\ HasRow(a) /\ a \notin writing
    /\ schemas[tenants[a].slug] = "seeded"
    /\ ~Overlap => ~UnderChange(a)
    /\ writing' = writing \cup {a}
    /\ UNCHANGED <<tenants, schemas, entries, making, changing, interrupted>>

\* It commits, or it rolls back.
CloseWriter(a) ==
    /\ a \in writing
    /\ writing' = writing \ {a}
    /\ entries' \in {entries, entries \cup {a}}
    /\ UNCHANGED <<tenants, schemas, making, changing, interrupted>>

\* The super admin's requests of a process die with it.
Crash ==
    /\ "crash" \in Faults
    /\ interrupted' = interrupted \cup
                        {a \in Academy : InTheMaking(a) \/ UnderChange(a)}
    /\ making' = [c \in Creator |-> NotMaking]
    /\ changing' = [g \in Changer |-> NotChanging]
    /\ UNCHANGED <<tenants, schemas, entries, writing>>

Next ==
    \/ \E c \in Creator :
          \/ \E a \in Academy, s \in Slug : CreateRecord(c, a, s)
          \/ CreateSchema(c) \/ Migrate(c) \/ Seed(c) \/ Fail(c)
          \/ CleanSchema(c) \/ CleanRecord(c)
    \/ \E g \in Changer :
          \/ \E a \in Academy, to \in Statuses : ReadStatus(g, a, to)
          \/ UpdateStatus(g) \/ RemoveLogins(g) \/ DropDeleted(g)
    \/ \E a \in Academy : OpenWriter(a) \/ CloseWriter(a)
    \/ Crash

Spec == Init /\ [][Next]_vars

-----------------------------------------------------------------------------
(* Properties *)

\* The rows and requests have the shapes they should, and a request that has
\* ended holds nothing.
TypeOK ==
    /\ tenants \in [Academy -> [status : Statuses \cup {"none"},
                                slug : Slug \cup {None}]]
    /\ \A a \in Academy : HasRow(a) <=> tenants[a].slug # None
    /\ \A c \in Creator : making[c].pc = "idle" => making[c] = NotMaking
    /\ \A g \in Changer : changing[g].pc = "idle" => changing[g] = NotChanging
    /\ schemas \in [Slug -> {"none", "bare", "migrated", "seeded"}]
    /\ entries \subseteq Academy
    /\ writing \subseteq Academy
    /\ interrupted \subseteq Academy
    /\ making \in [Creator ->
                     [pc : {"idle", "schema", "migrate", "seed", "drop",
                            "unrecord"},
                      academy : Academy \cup {None}, slug : Slug \cup {None}]]
    /\ changing \in [Changer ->
                       [pc : {"idle", "update", "unindex", "drop"},
                        academy : Academy \cup {None}, to : Statuses]]

\* Every row of the login index leads to an academy whose data is there.
\* verifyCandidate throws for one whose schema is gone, which ends the sign-in
\* of the same phone at every other academy (app/api/auth/login/route.ts:133).
EntriesHaveSchema ==
    \A a \in entries : HasRow(a) /\ schemas[tenants[a].slug] = "seeded"

\* A provisioning leaves a whole academy or none (tenant.service.ts:89-90): one
\* that is not deleted, and that no request is busy with or was cut short on, has
\* its data and its logins.
WholeAcademy ==
    \A a \in Academy :
        tenants[a].status \in {"ACTIVE", "SUSPENDED"} =>
            \/ InTheMaking(a) \/ UnderChange(a) \/ a \in interrupted
            \/ a \in entries /\ schemas[tenants[a].slug] = "seeded"

\* An academy is deleted, and nobody is left who read its row before that: no
\* change to another status, and no creation that still has to take it back.
Gone(a) ==
    /\ tenants[a].status = "DELETED"
    /\ ~InTheMaking(a)
    /\ \A g \in Changer :
          changing[g].pc = "update" /\ changing[g].academy = a =>
             changing[g].to = "DELETED"

\* A deletion is final (schemas/tenant.schema.ts:101): once the requests that
\* ran beside it are over, no request, however many run at once, changes the
\* row again, which keeps its slug, nor gets ready to.
DeletedForGood ==
    [][\A a \in Academy :
         Gone(a) => tenants'[a] = tenants[a] /\ Gone(a)']_vars
=============================================================================

--------------------------- MODULE AcademiesProofs ---------------------------
(***************************************************************************)
(* What TLAPS proves about Academies, for any number of academies, slugs   *)
(* and requests: its types, that a deletion is final, that a creation      *)
(* leaves a whole academy or none, and that every row of the login index   *)
(* leads to a schema.  The last two need that a creation names a slug of   *)
(* its own and that a status change meets no other request on its academy; *)
(* without them the code breaks both.                                      *)
(***************************************************************************)
EXTENDS Academies, TLAPS

-----------------------------------------------------------------------------
(* Types *)

\* The rows and requests there may be: a running request knows its academy,
\* and a creation its slug.
Tenants ==
    {v \in [status : Statuses \cup {"none"}, slug : Slug \cup {None}] :
        v.status # "none" <=> v.slug # None}

Creations ==
    {v \in [pc : {"idle", "schema", "migrate", "seed", "drop", "unrecord"},
             academy : Academy \cup {None}, slug : Slug \cup {None}] :
        /\ v.pc = "idle" => v = NotMaking
        /\ v.pc # "idle" => v.slug \in Slug
        /\ v.pc \notin {"idle", "drop"} => v.academy \in Academy}

Changes ==
    {v \in [pc : {"idle", "update", "unindex", "drop"},
             academy : Academy \cup {None}, to : Statuses] :
        /\ v.pc = "idle" => v = NotChanging
        /\ v.pc # "idle" => v.academy \in Academy}

Typed ==
    /\ tenants \in [Academy -> Tenants]
    /\ schemas \in [Slug -> {"none", "bare", "migrated", "seeded"}]
    /\ entries \subseteq Academy
    /\ writing \subseteq Academy
    /\ interrupted \subseteq Academy
    /\ making \in [Creator -> Creations]
    /\ changing \in [Changer -> Changes]

LEMMA Empty ==
  /\ NoTenant \in Tenants /\ NoTenant.status = "none" /\ NoTenant.slug = None
  /\ NotMaking \in Creations /\ NotMaking.pc = "idle" /\ NotMaking.academy = None
  /\ NotChanging \in Changes /\ NotChanging.pc = "idle" /\ NotChanging.academy = None
  BY AcademyAssumption
  DEF NoTenant, NotMaking, NotChanging, Tenants, Creations, Changes, Statuses

\* A creation that goes on to another step.
LEMMA Advance ==
  ASSUME Typed, NEW c \in Creator, making[c].pc # "idle",
         NEW pc \in {"schema", "migrate", "seed", "drop", "unrecord"},
         pc # "drop" => making[c].academy \in Academy
  PROVE  [making[c] EXCEPT !.pc = pc] \in Creations
  BY DEF Typed, Creations

LEMMA TypeInit == Init => Typed
  BY Empty DEF Init, Typed

LEMMA TypeNext == Typed /\ [Next]_vars => Typed'
  <1> SUFFICES ASSUME Typed, [Next]_vars PROVE Typed'
    OBVIOUS
  <1>0. /\ \A c \in Creator : making[c] \in Creations
        /\ \A g \in Changer : changing[g] \in Changes
        /\ \A a \in Academy : tenants[a] \in Tenants
    BY DEF Typed
  <1>1. ASSUME NEW c \in Creator, NEW a \in Academy, NEW s \in Slug, CreateRecord(c, a, s)
        PROVE  Typed'
    <2>1. /\ [pc |-> "drop", academy |-> None, slug |-> s] \in Creations
          /\ [pc |-> "schema", academy |-> a, slug |-> s] \in Creations
          /\ [status |-> "ACTIVE", slug |-> s] \in Tenants
      BY AcademyAssumption DEF Creations, Tenants, Statuses
    <2>2. \/ /\ making' = [making EXCEPT ![c] = [pc |-> "drop", academy |-> None, slug |-> s]]
             /\ tenants' = tenants
          \/ /\ making' = [making EXCEPT ![c] = [pc |-> "schema", academy |-> a, slug |-> s]]
             /\ tenants' = [tenants EXCEPT ![a] = [status |-> "ACTIVE", slug |-> s]]
      BY <1>1 DEF CreateRecord
    <2> QED
      BY <1>1, <2>1, <2>2 DEF CreateRecord, Typed
  <1>2. ASSUME NEW c \in Creator, CreateSchema(c)
        PROVE  Typed'
    <2>1. [making[c] EXCEPT !.pc = "migrate"] \in Creations
      BY <1>0, <1>2, Advance DEF CreateSchema, Creations
    <2> QED
      BY <1>2, <2>1 DEF CreateSchema, Typed
  <1>3. ASSUME NEW c \in Creator, Migrate(c)
        PROVE  Typed'
    <2>1. [making[c] EXCEPT !.pc = "seed"] \in Creations
      BY <1>0, <1>3, Advance DEF Migrate, Creations
    <2> QED
      BY <1>3, <2>1 DEF Migrate, Typed
  <1>4. ASSUME NEW c \in Creator, Seed(c)
        PROVE  Typed'
    <2>1. making[c].academy \in Academy
      BY <1>0, <1>4 DEF Seed, Creations
    <2> QED
      BY <1>4, <2>1, Empty DEF Seed, Typed
  <1>5. ASSUME NEW c \in Creator, Fail(c)
        PROVE  Typed'
    <2>1. [making[c] EXCEPT !.pc = "drop"] \in Creations
      BY <1>0, <1>5, Advance DEF Fail
    <2> QED
      BY <1>5, <2>1 DEF Fail, Typed
  <1>6. ASSUME NEW c \in Creator, CleanSchema(c)
        PROVE  Typed'
    <2>1. making[c].academy # None => [making[c] EXCEPT !.pc = "unrecord"] \in Creations
      BY <1>0, <1>6, Advance DEF CleanSchema, Creations
    <2>2. schemas' \in [Slug -> {"none", "bare", "migrated", "seeded"}]
      BY <1>6 DEF CleanSchema, Dropped, Typed
    <2> QED
      BY <1>6, <2>1, <2>2, Empty DEF CleanSchema, Typed
  <1>7. ASSUME NEW c \in Creator, CleanRecord(c)
        PROVE  Typed'
    <2>1. making[c].academy \in Academy
      BY <1>0, <1>7 DEF CleanRecord, Creations
    <2> QED
      BY <1>7, <2>1, Empty DEF CleanRecord, Typed
  <1>8. ASSUME NEW g \in Changer, NEW a \in Academy, NEW to \in Statuses, ReadStatus(g, a, to)
        PROVE  Typed'
    <2>1. [pc |-> "update", academy |-> a, to |-> to] \in Changes
      BY DEF Changes
    <2> QED
      BY <1>8, <2>1 DEF ReadStatus, Typed
  <1>9. ASSUME NEW g \in Changer, UpdateStatus(g)
        PROVE  Typed'
    <2> DEFINE a == changing[g].academy
    <2>1. a \in Academy /\ [tenants[a] EXCEPT !.status = changing[g].to] \in Tenants
      BY <1>0, <1>9 DEF UpdateStatus, Changes, Tenants, HasRow, Statuses
    <2>2. [changing[g] EXCEPT !.pc = "unindex"] \in Changes
      BY <1>0, <2>1 DEF Changes
    <2> QED
      BY <1>9, <2>1, <2>2, Empty DEF UpdateStatus, Typed
  <1>10. ASSUME NEW g \in Changer, RemoveLogins(g)
        PROVE  Typed'
    <2>1. [changing[g] EXCEPT !.pc = "drop"] \in Changes
      BY <1>0, <1>10 DEF RemoveLogins, Changes
    <2> QED
      BY <1>10, <2>1 DEF RemoveLogins, Typed
  <1>11. ASSUME NEW g \in Changer, DropDeleted(g)
        PROVE  Typed'
    <2>1. schemas' \in [Slug -> {"none", "bare", "migrated", "seeded"}]
      BY <1>11 DEF DropDeleted, Dropped, Typed
    <2> QED
      BY <1>11, <2>1, Empty DEF DropDeleted, Typed
  <1>12. ASSUME NEW a \in Academy, OpenWriter(a) \/ CloseWriter(a)
        PROVE  Typed'
    BY <1>12 DEF OpenWriter, CloseWriter, Typed
  <1>13. CASE Crash
    BY <1>13, Empty DEF Crash, Typed
  <1>14. CASE UNCHANGED vars
    BY <1>14 DEF vars, Typed
  <1> QED
    BY <1>1, <1>2, <1>3, <1>4, <1>5, <1>6, <1>7, <1>8, <1>9, <1>10, <1>11, <1>12, <1>13, <1>14
    DEF Next

\* Rows and requests have their shapes, and a request that has ended holds
\* nothing, whatever fails and whatever overlaps.
THEOREM TypeCorrect == Spec => []TypeOK
  <1>1. Typed => TypeOK
    BY AcademyAssumption, Empty DEF Typed, TypeOK, Tenants, Creations, Changes, HasRow
  <1> QED
    BY <1>1, TypeInit, TypeNext, PTL DEF Spec

-----------------------------------------------------------------------------
(* The inductive invariant *)

Seeded(a) == schemas[tenants[a].slug] = "seeded"

\* A running creation has a row of its own, of an academy nobody has deleted
\* and on a slug whose schema holds no data yet.
MakersApart ==
    \A c \in Creator : making[c].pc # "idle" =>
        /\ making[c].academy \in Academy
        /\ Uses(making[c].academy, making[c].slug)
        /\ tenants[making[c].academy].status # "DELETED"
        /\ schemas[making[c].slug] # "seeded"
        /\ \A d \in Creator \ {c} : making[d].academy # making[c].academy

\* A running status change has its academy for itself; until the row is
\* updated, the academy was not deleted.
ChangersApart ==
    \A g \in Changer : changing[g].pc # "idle" =>
        LET a == changing[g].academy IN
        /\ a \in Academy /\ HasRow(a)
        /\ ~InTheMaking(a) /\ a \notin writing
        /\ \A h \in Changer \ {g} : changing[h].academy # a
        /\ IF changing[g].pc = "update"
           THEN /\ tenants[a].status # "DELETED"
                /\ a \in interrupted \/ (a \in entries /\ Seeded(a))
           ELSE tenants[a].status = "DELETED"

\* The unique key on tenants.slug.
SlugsUnique ==
    \A a, b \in Academy : \A s \in Slug : Uses(a, s) /\ Uses(b, s) => a = b

\* Nobody's data stays behind in a schema that a new academy could be given.
DataHasOwner == \A s \in Slug : schemas[s] = "seeded" => \E a \in Academy : Uses(a, s)

\* An academy's own requests run on its data.
WritersServed == \A a \in writing : HasRow(a) /\ Seeded(a)

Apart ==
    /\ MakersApart
    /\ ChangersApart
    /\ SlugsUnique
    /\ DataHasOwner
    /\ WritersServed
    /\ WholeAcademy

\* What the theorems below assume of the requests.
Alone == ~TakenSlugs /\ ~Overlap

\* The schema of a deleted academy goes after its logins.
LoginsFirst ==
    \A g \in Changer : changing[g].pc = "drop" => changing[g].academy \notin entries

\* What EntriesHaveSchema needs beside Apart.
LoginsServed == EntriesHaveSchema /\ LoginsFirst

-----------------------------------------------------------------------------
(* Apart is kept *)

LEMMA ApartInit == Init => Apart
  BY Empty DEF Init, Apart, MakersApart, ChangersApart, SlugsUnique, DataHasOwner,
     WritersServed, WholeAcademy, Uses, HasRow

\* A row knows its slug.
LEMMA RowSlug ==
  ASSUME Typed
  PROVE  /\ \A a \in Academy : HasRow(a) => tenants[a].slug \in Slug
         /\ \A a \in Academy, s \in Slug : Uses(a, s) => HasRow(a) /\ tenants[a].slug = s
  BY AcademyAssumption DEF Typed, Tenants, HasRow, Uses

\* A creation that goes on, and leaves no data in the schema of its slug.
LEMMA ApartAdvance ==
  ASSUME Typed, Apart, NEW c \in Creator, making[c].pc # "idle", NEW pc, pc # "idle",
         making' = [making EXCEPT ![c].pc = pc],
         \A s \in Slug : schemas'[s] = "seeded" <=> schemas[s] = "seeded",
         UNCHANGED <<tenants, entries, writing, changing, interrupted>>
  PROVE  Apart'
  <1>1. \A d \in Creator : /\ making'[d].academy = making[d].academy
                           /\ making'[d].slug = making[d].slug
                           /\ making'[d].pc = "idle" <=> making[d].pc = "idle"
    BY DEF Typed, Creations
  <1>2. /\ \A a \in Academy : InTheMaking(a)' <=> InTheMaking(a)
        /\ \A a \in Academy : UnderChange(a)' <=> UnderChange(a)
        /\ \A a, s : Uses(a, s)' <=> Uses(a, s)
        /\ \A a : HasRow(a)' <=> HasRow(a)
        /\ \A a \in Academy : HasRow(a) => (Seeded(a)' <=> Seeded(a))
    BY <1>1, RowSlug DEF InTheMaking, UnderChange, Uses, HasRow, Seeded
  <1>3. MakersApart'
    BY <1>1, <1>2 DEF Apart, MakersApart, Typed, Creations
  <1>4. ChangersApart'
    BY <1>2 DEF Apart, ChangersApart
  <1>5. SlugsUnique' /\ DataHasOwner'
    BY <1>2 DEF Apart, SlugsUnique, DataHasOwner
  <1>6. WritersServed'
    BY <1>2 DEF Apart, WritersServed, Typed
  <1>7. WholeAcademy'
    BY <1>2 DEF Apart, WholeAcademy, HasRow, Seeded
  <1> QED
    BY <1>3, <1>4, <1>5, <1>6, <1>7 DEF Apart

LEMMA ApartCreate ==
  ASSUME Alone, Typed, Apart, NEW c \in Creator, NEW a \in Academy, NEW s \in Slug,
         CreateRecord(c, a, s)
  PROVE  Apart'
  <1>1. /\ making[c].pc = "idle" /\ ~HasRow(a) /\ ~InTheMaking(a)
        /\ \A b \in Academy : ~Uses(b, s)
        /\ \A d \in Creator : making[d].slug # s
        /\ making' = [making EXCEPT ![c] = [pc |-> "schema", academy |-> a, slug |-> s]]
        /\ tenants' = [tenants EXCEPT ![a] = [status |-> "ACTIVE", slug |-> s]]
        /\ UNCHANGED <<schemas, entries, writing, changing, interrupted>>
    BY DEF CreateRecord, Alone
  <1>2. /\ tenants'[a].status = "ACTIVE" /\ tenants'[a].slug = s
        /\ \A b \in Academy \ {a} : tenants'[b] = tenants[b]
        /\ making'[c].academy = a /\ making'[c].slug = s /\ making'[c].pc = "schema"
        /\ \A d \in Creator \ {c} : making'[d] = making[d]
    BY <1>1 DEF Typed
  <1>3. schemas[s] # "seeded"
    BY <1>1 DEF Apart, DataHasOwner
  <1>4. /\ \A b \in Academy \ {a} : InTheMaking(b)' <=> InTheMaking(b)
        /\ InTheMaking(a)'
        /\ \A b : UnderChange(b)' <=> UnderChange(b)
        /\ HasRow(a)' /\ Uses(a, s)'
        /\ \A u \in Slug \ {s} : ~Uses(a, u)'
        /\ \A b \in Academy \ {a} : HasRow(b)' <=> HasRow(b)
        /\ \A b \in Academy \ {a}, u \in Slug : Uses(b, u)' <=> Uses(b, u)
        /\ \A b \in Academy \ {a} : Seeded(b)' <=> Seeded(b)
    <2>1. making[c].academy = None
      BY <1>1, Empty DEF Typed, Creations
    <2> QED
      BY <1>1, <1>2, <2>1, AcademyAssumption DEF InTheMaking, UnderChange, Uses, HasRow, Seeded
  <1>5. MakersApart'
    BY <1>1, <1>2, <1>3, <1>4 DEF Apart, MakersApart, InTheMaking, Uses, HasRow
  <1>6. ChangersApart'
    BY <1>1, <1>2, <1>4 DEF Apart, ChangersApart
  <1>7. SlugsUnique' /\ DataHasOwner'
    <2>1. \A u : ~Uses(a, u)
      BY <1>1 DEF Uses
    <2> QED
      BY <1>1, <1>4, <2>1 DEF Apart, SlugsUnique, DataHasOwner
  <1>8. WritersServed'
    BY <1>1, <1>4 DEF Apart, WritersServed, Typed
  <1>9. WholeAcademy'
    BY <1>1, <1>2, <1>4 DEF Apart, WholeAcademy, Seeded
  <1> QED
    BY <1>5, <1>6, <1>7, <1>8, <1>9 DEF Apart

\* The end of a creation, by success or after the clean-up.
LEMMA ApartSeed ==
  ASSUME Typed, Apart, NEW c \in Creator, Seed(c)
  PROVE  Apart'
  <1>0. PICK a \in Academy, s \in Slug : a = making[c].academy /\ s = making[c].slug
    BY DEF Seed, Typed, Creations
  <1>1. /\ making[c].pc # "idle" /\ a \in Academy /\ s \in Slug /\ Uses(a, s)
        /\ schemas' = [schemas EXCEPT ![s] = "seeded"] /\ entries' = entries \cup {a}
        /\ making' = [making EXCEPT ![c] = NotMaking]
        /\ UNCHANGED <<tenants, writing, changing, interrupted>>
    BY <1>0 DEF Seed, Typed, Creations, Apart, MakersApart
  <1>2. /\ making'[c] = NotMaking
        /\ \A d \in Creator \ {c} : making'[d] = making[d] /\ making[d].academy # a
        /\ schemas'[s] = "seeded" /\ \A u \in Slug \ {s} : schemas'[u] = schemas[u]
    BY <1>0, <1>1 DEF Typed, Apart, MakersApart
  <1>3. /\ \A b \in Academy \ {a} : InTheMaking(b)' <=> InTheMaking(b)
        /\ ~InTheMaking(a)'
        /\ \A b : UnderChange(b)' <=> UnderChange(b)
        /\ \A b : HasRow(b)' <=> HasRow(b)
        /\ \A b, u : Uses(b, u)' <=> Uses(b, u)
    <2>1. /\ \A b \in Academy \ {a} : InTheMaking(b)' <=> InTheMaking(b)
          /\ ~InTheMaking(a)'
      BY <1>0, <1>2, Empty, AcademyAssumption DEF InTheMaking
    <2> QED
      BY <1>1, <2>1 DEF UnderChange, Uses, HasRow
  <1>4. /\ Seeded(a)'
        /\ \A b \in Academy : HasRow(b) /\ Seeded(b) => Seeded(b)'
    BY <1>1, <1>2, RowSlug DEF Seeded
  <1>5. \A d \in Creator \ {c} : making[d].pc # "idle" => making[d].slug \in Slug \ {s}
    BY <1>0, <1>1, <1>2 DEF Apart, MakersApart, SlugsUnique, Typed, Creations
  <1>6. MakersApart'
    BY <1>1, <1>2, <1>3, <1>5, Empty, AcademyAssumption DEF Apart, MakersApart
  <1>7. ChangersApart'
    <2>1. InTheMaking(a)
      BY <1>0, <1>1 DEF InTheMaking
    <2> QED
      BY <1>1, <1>3, <1>4, <2>1 DEF Apart, ChangersApart
  <1>8. SlugsUnique' /\ DataHasOwner'
    BY <1>1, <1>2, <1>3 DEF Apart, SlugsUnique, DataHasOwner
  <1>9. WritersServed'
    BY <1>1, <1>3, <1>4 DEF Apart, WritersServed, Typed
  <1>10. WholeAcademy'
    BY <1>1, <1>3, <1>4 DEF Apart, WholeAcademy, HasRow, Seeded
  <1> QED
    BY <1>6, <1>7, <1>8, <1>9, <1>10 DEF Apart

LEMMA ApartCleaned ==
  ASSUME Typed, Apart, NEW c \in Creator, CleanRecord(c)
  PROVE  Apart'
  <1>0. PICK a \in Academy : a = making[c].academy
    BY DEF CleanRecord, Typed, Creations
  <1>1. /\ making[c].pc # "idle" /\ a \in Academy
        /\ making' = [making EXCEPT ![c] = NotMaking]
        /\ UNCHANGED <<schemas, writing, changing>>
        /\ \/ /\ tenants' = [tenants EXCEPT ![a] = NoTenant]
              /\ entries' = entries \ {a} /\ interrupted' = interrupted
           \/ /\ interrupted' = interrupted \cup {a}
              /\ UNCHANGED <<tenants, entries>>
    BY <1>0 DEF CleanRecord, Typed, Creations
  <1>2. /\ making'[c] = NotMaking
        /\ \A d \in Creator \ {c} : making'[d] = making[d] /\ making[d].academy # a
        /\ \A b \in Academy \ {a} : tenants'[b] = tenants[b]
        /\ tenants'[a] = tenants[a] \/ tenants'[a] = NoTenant
    BY <1>0, <1>1 DEF Typed, Apart, MakersApart
  <1>3. /\ \A b \in Academy \ {a} : InTheMaking(b)' <=> InTheMaking(b)
        /\ \A b : UnderChange(b)' <=> UnderChange(b)
        /\ \A b \in Academy \ {a} : HasRow(b)' <=> HasRow(b)
        /\ \A b \in Academy \ {a}, u \in Slug : Uses(b, u)' <=> Uses(b, u)
        /\ \A u \in Slug : Uses(a, u)' => Uses(a, u)
        /\ \A b \in Academy \ {a} : Seeded(b)' <=> Seeded(b)
    <2>1. \A b \in Academy \ {a} : InTheMaking(b)' <=> InTheMaking(b)
      BY <1>0, <1>2, Empty, AcademyAssumption DEF InTheMaking
    <2>2. \A u \in Slug : Uses(a, u)' => Uses(a, u)
      BY <1>2, Empty DEF Uses, HasRow
    <2> QED
      BY <1>1, <1>2, <2>1, <2>2 DEF UnderChange, Uses, HasRow, Seeded
  <1>4. InTheMaking(a) /\ (\A u \in Slug : Uses(a, u) => schemas[u] # "seeded") /\ a \notin writing
    BY <1>0, <1>1, RowSlug DEF InTheMaking, Uses, Apart, MakersApart, WritersServed, Seeded
  <1>5. MakersApart'
    BY <1>1, <1>2, <1>3, Empty, AcademyAssumption DEF Apart, MakersApart, Typed, Creations
  <1>6. ChangersApart'
    <2>1. \A g \in Changer : changing[g].pc # "idle" => changing[g].academy \in Academy \ {a}
      BY <1>4 DEF Apart, ChangersApart
    <2>2. \A b \in Academy \ {a} : tenants'[b] = tenants[b] /\ (b \in entries' <=> b \in entries)
                                  /\ (b \in interrupted' <=> b \in interrupted)
      BY <1>1, <1>2
    <2> QED
      BY <1>1, <1>3, <2>1, <2>2 DEF Apart, ChangersApart
  <1>7. SlugsUnique' /\ DataHasOwner'
    BY <1>1, <1>3, <1>4 DEF Apart, SlugsUnique, DataHasOwner
  <1>8. WritersServed'
    BY <1>1, <1>3, <1>4 DEF Apart, WritersServed, Typed
  <1>9. WholeAcademy'
    <2>1. tenants'[a].status \in {"ACTIVE", "SUSPENDED"} => a \in interrupted'
      BY <1>1, <1>2, Empty DEF Typed
    <2>2. \A b \in Academy \ {a} : tenants'[b] = tenants[b] /\ (b \in entries' <=> b \in entries)
                                  /\ (b \in interrupted' <=> b \in interrupted)
      BY <1>1, <1>2
    <2> QED
      BY <1>1, <1>3, <2>1, <2>2 DEF Apart, WholeAcademy
  <1> QED
    BY <1>5, <1>6, <1>7, <1>8, <1>9 DEF Apart

\* Every step of a creation.
LEMMA ApartMaking ==
  ASSUME Typed, Apart, NEW c \in Creator,
         \/ CreateSchema(c) \/ Migrate(c) \/ Seed(c) \/ Fail(c)
         \/ CleanSchema(c) \/ CleanRecord(c)
  PROVE  Apart'
  <1>1. making[c].pc # "idle" => /\ schemas[making[c].slug] # "seeded"
                                 /\ making[c].slug \in Slug
                                 /\ making[c].academy \in Academy
    BY DEF Apart, MakersApart, Typed, Creations
  <1>2. CASE CreateSchema(c)
    BY <1>1, <1>2, ApartAdvance DEF CreateSchema, Typed
  <1>3. CASE Migrate(c)
    BY <1>1, <1>3, ApartAdvance DEF Migrate, Typed
  <1>4. CASE Fail(c)
    BY <1>4, ApartAdvance DEF Fail
  <1>5. CASE CleanSchema(c)
    <2>1. making' = [making EXCEPT ![c].pc = "unrecord"]
      BY <1>1, <1>5, AcademyAssumption DEF CleanSchema
    <2> QED
      BY <1>1, <1>5, <2>1, ApartAdvance DEF CleanSchema, Dropped, Typed
  <1> QED
    BY <1>2, <1>3, <1>4, <1>5, ApartSeed, ApartCleaned

LEMMA ApartRead ==
  ASSUME Alone, Typed, Apart, NEW g \in Changer, NEW a \in Academy, NEW to \in Statuses,
         ReadStatus(g, a, to)
  PROVE  Apart'
  <1>1. /\ changing[g].pc = "idle" /\ HasRow(a) /\ tenants[a].status # "DELETED"
        /\ ~InTheMaking(a) /\ ~UnderChange(a) /\ a \notin writing
        /\ changing' = [changing EXCEPT ![g] = [pc |-> "update", academy |-> a, to |-> to]]
        /\ UNCHANGED <<tenants, schemas, entries, writing, making, interrupted>>
    BY DEF ReadStatus, Alone, ValidTransition
  <1>2. /\ changing'[g].pc = "update" /\ changing'[g].academy = a
        /\ \A h \in Changer \ {g} : changing'[h] = changing[h] /\ changing[h].academy # a
        /\ changing[g].academy = None
    BY <1>1, Empty DEF Typed, Changes, UnderChange
  <1>3. /\ \A b : InTheMaking(b)' <=> InTheMaking(b)
        /\ \A b \in Academy : UnderChange(b) => UnderChange(b)'
        /\ \A b : HasRow(b)' <=> HasRow(b)
        /\ \A b, u : Uses(b, u)' <=> Uses(b, u)
        /\ \A b : Seeded(b)' <=> Seeded(b)
    <2>1. \A b \in Academy : UnderChange(b) => UnderChange(b)'
      BY <1>2, AcademyAssumption DEF UnderChange
    <2> QED
      BY <1>1, <2>1 DEF InTheMaking, Uses, HasRow, Seeded
  <1>4. a \in interrupted \/ (a \in entries /\ Seeded(a))
    <2>1. tenants[a].status \in {"ACTIVE", "SUSPENDED"}
      BY <1>1 DEF Typed, Tenants, HasRow, Statuses
    <2> QED
      BY <1>1, <2>1 DEF Apart, WholeAcademy, Seeded
  <1>5. ChangersApart'
    BY <1>1, <1>2, <1>3, <1>4 DEF Apart, ChangersApart
  <1>6. MakersApart' /\ SlugsUnique' /\ DataHasOwner' /\ WritersServed'
    BY <1>1, <1>3 DEF Apart, MakersApart, SlugsUnique, DataHasOwner, WritersServed
  <1>7. WholeAcademy'
    BY <1>1, <1>3 DEF Apart, WholeAcademy, Seeded
  <1> QED
    BY <1>5, <1>6, <1>7 DEF Apart

LEMMA ApartUpdate ==
  ASSUME Typed, Apart, NEW g \in Changer, UpdateStatus(g)
  PROVE  Apart'
  <1>0. PICK a \in Academy : a = changing[g].academy
    BY DEF UpdateStatus, Typed, Changes
  <1>1. /\ changing[g].pc = "update" /\ HasRow(a) /\ changing[g].to \in Statuses
        /\ tenants' = [tenants EXCEPT ![a].status = changing[g].to]
        /\ \/ /\ changing[g].to = "DELETED"
              /\ changing' = [changing EXCEPT ![g].pc = "unindex"]
           \/ /\ changing[g].to # "DELETED"
              /\ changing' = [changing EXCEPT ![g] = NotChanging]
        /\ UNCHANGED <<schemas, entries, writing, making, interrupted>>
    BY <1>0 DEF UpdateStatus, Typed, Changes
  <1>2. /\ ~InTheMaking(a) /\ a \notin writing
        /\ a \in interrupted \/ (a \in entries /\ Seeded(a))
        /\ \A h \in Changer \ {g} : changing[h].academy # a /\ changing'[h] = changing[h]
    BY <1>0, <1>1 DEF Apart, ChangersApart, Typed
  <1>3. /\ tenants'[a].slug = tenants[a].slug /\ tenants'[a].status = changing[g].to
        /\ \A b \in Academy \ {a} : tenants'[b] = tenants[b]
    BY <1>1 DEF Typed, Tenants
  <1>4. /\ \A b : InTheMaking(b)' <=> InTheMaking(b)
        /\ \A b \in Academy \ {a} : UnderChange(b)' <=> UnderChange(b)
        /\ \A b \in Academy : HasRow(b)' <=> HasRow(b)
        /\ \A b \in Academy : \A u : Uses(b, u)' <=> Uses(b, u)
        /\ \A b \in Academy : Seeded(b)' <=> Seeded(b)
    <2>1. \A b \in Academy \ {a} : UnderChange(b)' <=> UnderChange(b)
      <3>1. \A b \in Academy \ {a} : changing[g].academy # b /\ changing'[g].academy # b
        BY <1>0, <1>1, Empty, AcademyAssumption DEF Typed, Changes
      <3> QED
        BY <1>2, <3>1 DEF UnderChange
    <2> QED
      BY <1>1, <1>3, <2>1 DEF InTheMaking, Uses, HasRow, Seeded, Statuses
  <1>5. ChangersApart'
    <2>1. changing'[g].pc # "idle" =>
            /\ changing[g].to = "DELETED" /\ changing'[g].pc = "unindex"
            /\ changing'[g].academy = a
      BY <1>0, <1>1, Empty DEF Typed, Changes
    <2>2. \A h \in Changer \ {g} : changing[h].pc # "idle" => changing[h].academy \in Academy \ {a}
      BY <1>2 DEF Typed, Changes
    <2>3. \A h \in Changer \ {g} : changing'[h].pc # "idle" => changing'[g].academy # changing'[h].academy
      BY <1>0, <1>1, <1>2, <2>2, Empty, AcademyAssumption DEF Typed, Changes
    <2> QED
      BY <1>0, <1>1, <1>2, <1>3, <1>4, <2>1, <2>2, <2>3 DEF Apart, ChangersApart
  <1>6. MakersApart'
    <2>1. \A c \in Creator : making[c].pc # "idle" =>
             making[c].academy \in Academy \ {a}
      BY <1>2 DEF Apart, MakersApart, InTheMaking
    <2> QED
      BY <1>1, <1>3, <1>4, <2>1 DEF Apart, MakersApart
  <1>8. SlugsUnique' /\ DataHasOwner' /\ WritersServed'
    BY <1>1, <1>4 DEF Apart, SlugsUnique, DataHasOwner, WritersServed, Seeded, Typed
  <1>7. WholeAcademy'
    BY <1>1, <1>2, <1>3, <1>4 DEF Apart, WholeAcademy, Seeded
  <1> QED
    BY <1>5, <1>6, <1>7, <1>8 DEF Apart

LEMMA ApartRemove ==
  ASSUME Typed, Apart, NEW g \in Changer, RemoveLogins(g)
  PROVE  Apart'
  <1>0. PICK a \in Academy : a = changing[g].academy
    BY DEF RemoveLogins, Typed, Changes
  <1>1. /\ changing[g].pc = "unindex" /\ entries \ {a} \subseteq entries'
        /\ entries' \subseteq entries
        /\ changing' = [changing EXCEPT ![g].pc = "drop"]
        /\ UNCHANGED <<tenants, schemas, writing, making, interrupted>>
    BY <1>0 DEF RemoveLogins
  <1>2. /\ tenants[a].status = "DELETED"
        /\ \A h \in Changer \ {g} : changing[h].academy # a
        /\ \A h \in Changer \ {g} : changing'[h] = changing[h]
        /\ changing'[g].pc = "drop" /\ changing'[g].academy = a
    BY <1>0, <1>1 DEF Apart, ChangersApart, Typed, Changes
  <1>3. /\ \A b : InTheMaking(b)' <=> InTheMaking(b)
        /\ \A b \in Academy : UnderChange(b)' <=> UnderChange(b)
        /\ \A b : HasRow(b)' <=> HasRow(b)
        /\ \A b, u : Uses(b, u)' <=> Uses(b, u)
        /\ \A b : Seeded(b)' <=> Seeded(b)
    <2>1. \A b \in Academy : UnderChange(b)' <=> UnderChange(b)
      BY <1>0, <1>2 DEF UnderChange
    <2> QED
      BY <1>1, <2>1 DEF InTheMaking, Uses, HasRow, Seeded
  <1>4. ChangersApart'
    <2>1. \A h \in Changer \ {g} : changing[h].pc # "idle" =>
             changing[h].academy \in Academy \ {a}
      BY <1>2 DEF Typed, Changes
    <2>2. \A h \in Changer : changing'[h].academy = changing[h].academy
      BY <1>0, <1>2
    <2> QED
      BY <1>0, <1>1, <1>2, <1>3, <2>1, <2>2 DEF Apart, ChangersApart
  <1>5. MakersApart' /\ SlugsUnique' /\ DataHasOwner' /\ WritersServed'
    BY <1>1, <1>3 DEF Apart, MakersApart, SlugsUnique, DataHasOwner, WritersServed
  <1>6. WholeAcademy'
    BY <1>1, <1>2, <1>3 DEF Apart, WholeAcademy, Seeded
  <1> QED
    BY <1>4, <1>5, <1>6 DEF Apart

LEMMA ApartDrop ==
  ASSUME Typed, Apart, NEW g \in Changer, DropDeleted(g)
  PROVE  Apart'
  <1>0. PICK a \in Academy : a = changing[g].academy
    BY DEF DropDeleted, Typed, Changes
  <1>1. /\ changing[g].pc = "drop" /\ Dropped(tenants[a].slug)
        /\ changing' = [changing EXCEPT ![g] = NotChanging]
        /\ UNCHANGED <<tenants, entries, writing, making, interrupted>>
    BY <1>0 DEF DropDeleted
  <1>2. /\ tenants[a].status = "DELETED" /\ HasRow(a) /\ ~InTheMaking(a) /\ a \notin writing
        /\ \A h \in Changer \ {g} : changing[h].academy # a
        /\ \A h \in Changer \ {g} : changing'[h] = changing[h]
        /\ changing'[g] = NotChanging
    BY <1>0, <1>1 DEF Apart, ChangersApart, Typed
  <1>3. /\ \A s \in Slug : schemas'[s] = "seeded" => schemas[s] = "seeded"
        /\ \A s \in Slug : s # tenants[a].slug => schemas'[s] = schemas[s]
    BY <1>1 DEF Dropped, Typed
  <1>4. /\ \A b : InTheMaking(b)' <=> InTheMaking(b)
        /\ \A b \in Academy \ {a} : UnderChange(b)' <=> UnderChange(b)
        /\ \A b : HasRow(b)' <=> HasRow(b)
        /\ \A b, u : Uses(b, u)' <=> Uses(b, u)
        /\ \A b \in Academy \ {a} : HasRow(b) => (Seeded(b)' <=> Seeded(b))
    <2>1. \A b \in Academy \ {a} : UnderChange(b)' <=> UnderChange(b)
      BY <1>0, <1>2, Empty, AcademyAssumption DEF UnderChange
    <2>2. \A b \in Academy \ {a} : HasRow(b) => tenants[b].slug # tenants[a].slug
      BY <1>2, RowSlug DEF Apart, SlugsUnique, Uses
    <2> QED
      BY <1>1, <1>3, <2>1, <2>2, RowSlug DEF InTheMaking, Uses, HasRow, Seeded
  <1>5. ChangersApart'
    <2>1. \A h \in Changer \ {g} : changing[h].pc # "idle" =>
             changing[h].academy \in Academy \ {a}
      BY <1>2 DEF Typed, Changes
    <2>2. \A h \in Changer \ {g} : changing'[h].pc # "idle" =>
             changing'[g].academy # changing'[h].academy
      BY <1>2, <2>1, Empty, AcademyAssumption
    <2> QED
      BY <1>0, <1>1, <1>2, <1>4, <2>1, <2>2, Empty DEF Apart, ChangersApart
  <1>6. MakersApart'
    BY <1>1, <1>3, <1>4 DEF Apart, MakersApart, Typed, Creations
  <1>7. SlugsUnique' /\ DataHasOwner'
    BY <1>1, <1>3, <1>4 DEF Apart, SlugsUnique, DataHasOwner
  <1>8. WritersServed'
    BY <1>1, <1>2, <1>4 DEF Apart, WritersServed, Typed
  <1>9. WholeAcademy'
    BY <1>1, <1>2, <1>4 DEF Apart, WholeAcademy, Seeded, HasRow
  <1> QED
    BY <1>5, <1>6, <1>7, <1>8, <1>9 DEF Apart

LEMMA ApartWriter ==
  ASSUME Alone, Typed, Apart, NEW a \in Academy, OpenWriter(a) \/ CloseWriter(a)
  PROVE  Apart'
  <1>1. /\ UNCHANGED <<tenants, schemas, making, changing, interrupted>>
        /\ entries \subseteq entries'
    BY DEF OpenWriter, CloseWriter
  <1>2. /\ \A b : InTheMaking(b)' <=> InTheMaking(b)
        /\ \A b : UnderChange(b)' <=> UnderChange(b)
        /\ \A b : HasRow(b)' <=> HasRow(b)
        /\ \A b, u : Uses(b, u)' <=> Uses(b, u)
        /\ \A b : Seeded(b)' <=> Seeded(b)
    BY <1>1 DEF InTheMaking, UnderChange, Uses, HasRow, Seeded
  <1>3. MakersApart' /\ SlugsUnique' /\ DataHasOwner'
    BY <1>1, <1>2 DEF Apart, MakersApart, SlugsUnique, DataHasOwner
  <1>4. WholeAcademy'
    BY <1>1, <1>2 DEF Apart, WholeAcademy, Seeded
  <1>5. CASE OpenWriter(a)
    <2>1. HasRow(a) /\ Seeded(a) /\ ~UnderChange(a) /\ writing' = writing \cup {a}
      BY <1>5 DEF OpenWriter, Alone, Seeded
    <2>2. ChangersApart'
      BY <1>1, <1>2, <2>1 DEF Apart, ChangersApart, UnderChange
    <2>3. WritersServed'
      BY <1>2, <2>1 DEF Apart, WritersServed
    <2> QED
      BY <1>3, <1>4, <2>2, <2>3 DEF Apart
  <1>6. CASE CloseWriter(a)
    <2>1. writing' \subseteq writing
      BY <1>6 DEF CloseWriter
    <2>2. ChangersApart'
      BY <1>1, <1>2, <2>1 DEF Apart, ChangersApart
    <2>3. WritersServed'
      BY <1>2, <2>1 DEF Apart, WritersServed
    <2> QED
      BY <1>3, <1>4, <2>2, <2>3 DEF Apart
  <1> QED
    BY <1>5, <1>6

\* A process dies: what its requests were busy with is marked.
LEMMA ApartCrash ==
  ASSUME Typed, Apart, Crash
  PROVE  Apart'
  <1>1. /\ \A c \in Creator : making'[c] = NotMaking
        /\ \A g \in Changer : changing'[g] = NotChanging
        /\ UNCHANGED <<tenants, schemas, entries, writing>>
        /\ \A a \in Academy : InTheMaking(a) \/ UnderChange(a) \/ a \in interrupted
                                => a \in interrupted'
    BY DEF Crash
  <1>2. MakersApart' /\ ChangersApart'
    BY <1>1, Empty DEF MakersApart, ChangersApart
  <1>3. SlugsUnique' /\ DataHasOwner' /\ WritersServed'
    BY <1>1 DEF Apart, SlugsUnique, DataHasOwner, WritersServed, Uses, HasRow, Seeded
  <1>4. WholeAcademy'
    BY <1>1 DEF Apart, WholeAcademy
  <1> QED
    BY <1>2, <1>3, <1>4 DEF Apart

LEMMA ApartNext == Alone /\ Typed /\ Apart /\ [Next]_vars => Apart'
  <1> SUFFICES ASSUME Alone, Typed, Apart, [Next]_vars PROVE Apart'
    OBVIOUS
  <1>1. CASE UNCHANGED vars
    BY <1>1 DEF vars, Apart, MakersApart, ChangersApart, SlugsUnique, DataHasOwner,
       WritersServed, WholeAcademy, Uses, HasRow, InTheMaking, UnderChange, Seeded
  <1>2. CASE Next
    BY <1>2, ApartCreate, ApartMaking, ApartRead, ApartUpdate, ApartRemove, ApartDrop,
       ApartWriter, ApartCrash DEF Next
  <1> QED
    BY <1>1, <1>2

\* A creation leaves a whole academy or none, wherever it fails: an academy
\* that is not deleted, and that no request is busy with or was cut short on,
\* has its data and its logins (tenant.service.ts:89-90).
THEOREM AllOrNothing == ASSUME Alone PROVE Spec => []WholeAcademy
  <1>1. Apart => WholeAcademy
    BY DEF Apart
  <1> QED
    BY <1>1, TypeInit, TypeNext, ApartInit, ApartNext, PTL DEF Spec

LEMMA DeletedStep ==
  ASSUME Typed, [Next]_vars, NEW a \in Academy, Gone(a)
  PROVE  tenants'[a] = tenants[a] /\ Gone(a)'
  <1>1. /\ tenants[a].status = "DELETED" /\ HasRow(a)
        /\ \A c \in Creator : making[c].academy # a
        /\ \A g \in Changer :
              changing[g].pc = "update" /\ changing[g].academy = a =>
                 changing[g].to = "DELETED"
    BY DEF Gone, HasRow, InTheMaking
  <1>2. ASSUME tenants'[a] = tenants[a],
               \A c \in Creator : making'[c].academy # a,
               \A g \in Changer :
                  changing'[g].pc = "update" /\ changing'[g].academy = a =>
                     changing'[g].to = "DELETED"
        PROVE  tenants'[a] = tenants[a] /\ Gone(a)'
    BY <1>1, <1>2 DEF Gone, InTheMaking
  <1>3. NotMaking.academy # a /\ NotChanging.pc = "idle"
    BY Empty, AcademyAssumption
  <1>4. ASSUME NEW c \in Creator, NEW b \in Academy, NEW s \in Slug,
               CreateRecord(c, b, s)
        PROVE  tenants'[a] = tenants[a] /\ Gone(a)'
    <2>1. b # a /\ None # a /\ changing' = changing
      BY <1>1, <1>4, AcademyAssumption DEF CreateRecord
    <2>2. tenants'[a] = tenants[a]
      BY <1>4, <2>1 DEF CreateRecord, Typed
    <2>3. \E x \in {b, None}, pc \in {"drop", "schema"} :
             making' = [making EXCEPT ![c] = [pc |-> pc, academy |-> x, slug |-> s]]
      BY <1>4 DEF CreateRecord
    <2>4. \A d \in Creator : making'[d].academy # a
      BY <1>1, <2>1, <2>3 DEF Typed
    <2> QED
      BY <1>1, <1>2, <2>1, <2>2, <2>4
  <1>5. ASSUME NEW c \in Creator,
               CreateSchema(c) \/ Migrate(c) \/ Seed(c) \/ Fail(c) \/ CleanSchema(c)
        PROVE  tenants'[a] = tenants[a] /\ Gone(a)'
    <2>1. UNCHANGED <<tenants, changing>>
      BY <1>5 DEF CreateSchema, Migrate, Seed, Fail, CleanSchema
    <2>2. \A d \in Creator : making'[d].academy \in {making[d].academy, None}
      BY <1>5, Empty
      DEF CreateSchema, Migrate, Seed, Fail, CleanSchema, Typed, Creations
    <2> QED
      BY <1>1, <1>2, <2>1, <2>2, AcademyAssumption
  <1>6. ASSUME NEW c \in Creator, CleanRecord(c)
        PROVE  tenants'[a] = tenants[a] /\ Gone(a)'
    <2>1. /\ tenants'[a] = tenants[a] /\ changing' = changing
          /\ making' = [making EXCEPT ![c] = NotMaking]
      BY <1>1, <1>6 DEF CleanRecord, Typed
    <2> QED
      BY <1>1, <1>2, <1>3, <2>1 DEF Typed
  <1>7. ASSUME NEW g \in Changer, NEW b \in Academy, NEW to \in Statuses,
               ReadStatus(g, b, to)
        PROVE  tenants'[a] = tenants[a] /\ Gone(a)'
    <2>1. /\ b # a /\ UNCHANGED <<tenants, making>>
          /\ changing' = [changing EXCEPT
                            ![g] = [pc |-> "update", academy |-> b, to |-> to]]
      BY <1>1, <1>7 DEF ReadStatus, ValidTransition
    <2> QED
      BY <1>1, <1>2, <2>1 DEF Typed
  <1>8. ASSUME NEW g \in Changer, UpdateStatus(g)
        PROVE  tenants'[a] = tenants[a] /\ Gone(a)'
    <2>1. tenants'[a] = tenants[a]
      <3>1. /\ tenants[a] \in Tenants
            /\ changing[g].academy = a => changing[g].to = tenants[a].status
        BY <1>1, <1>8 DEF UpdateStatus, Typed
      <3>2. changing[g].academy = a =>
               tenants'[a] = [tenants[a] EXCEPT !.status = tenants[a].status]
        BY <1>8, <3>1 DEF UpdateStatus, Typed
      <3>3. changing[g].academy # a => tenants'[a] = tenants[a]
        BY <1>8 DEF UpdateStatus, Typed
      <3> QED
        BY <3>1, <3>2, <3>3 DEF Tenants
    <2>2. /\ making' = making
          /\ \A h \in Changer : changing'[h].pc = "update" =>
                changing'[h] = changing[h]
      BY <1>3, <1>8 DEF UpdateStatus, Typed, Changes
    <2> QED
      BY <1>1, <1>2, <2>1, <2>2
  <1>9. ASSUME NEW g \in Changer, RemoveLogins(g) \/ DropDeleted(g)
        PROVE  tenants'[a] = tenants[a] /\ Gone(a)'
    <2>1. /\ UNCHANGED <<tenants, making>>
          /\ \A h \in Changer : changing'[h].pc = "update" =>
                changing'[h] = changing[h]
      BY <1>3, <1>9 DEF RemoveLogins, DropDeleted, Typed, Changes
    <2> QED
      BY <1>1, <1>2, <2>1
  <1>10. CASE Crash
    BY <1>1, <1>2, <1>3, <1>10 DEF Crash
  <1>11. CASE \/ \E b \in Academy : OpenWriter(b) \/ CloseWriter(b)
              \/ UNCHANGED vars
    BY <1>1, <1>2, <1>11 DEF OpenWriter, CloseWriter, vars
  <1> QED
    BY <1>4, <1>5, <1>6, <1>7, <1>8, <1>9, <1>10, <1>11 DEF Next

\* A deletion is final (schemas/tenant.schema.ts:101), for any number of
\* requests at once: only a change that read the status before the deletion, or
\* a creation that still undoes itself, can touch the row after it.
THEOREM DeletedStays == Spec => DeletedForGood
  <1>1. Typed /\ [Next]_vars =>
          [\A a \in Academy :
              Gone(a) => tenants'[a] = tenants[a] /\ Gone(a)']_vars
    BY DeletedStep
  <1> QED
    BY <1>1, TypeInit, TypeNext, PTL DEF Spec, DeletedForGood

-----------------------------------------------------------------------------
(* Logins *)

LEMMA LoginsNext ==
  ASSUME "index" \notin Faults, Alone
  PROVE  Typed /\ Apart /\ LoginsServed /\ [Next]_vars => LoginsServed'
  <1> SUFFICES ASSUME Typed, Apart, LoginsServed, [Next]_vars PROVE LoginsServed'
    OBVIOUS
  <1>1. ASSUME NEW c \in Creator, NEW a \in Academy, NEW s \in Slug, CreateRecord(c, a, s)
        PROVE  LoginsServed'
    <2>1. UNCHANGED <<schemas, entries, changing>> /\ ~HasRow(a)
      BY <1>1 DEF CreateRecord
    <2>2. \A b \in Academy \ {a} : tenants'[b] = tenants[b]
      BY <1>1 DEF CreateRecord, Typed
    <2> QED
      BY <2>1, <2>2 DEF LoginsServed, EntriesHaveSchema, LoginsFirst, HasRow, Typed
  <1>2. ASSUME NEW c \in Creator,
               CreateSchema(c) \/ Migrate(c) \/ Fail(c) \/ CleanSchema(c)
        PROVE  LoginsServed'
    <2>1. UNCHANGED <<tenants, entries, changing>>
      BY <1>2 DEF CreateSchema, Migrate, Fail, CleanSchema
    <2>2. /\ making[c].pc # "idle" /\ making[c].slug \in Slug
          /\ schemas[making[c].slug] # "seeded"
      BY <1>2 DEF CreateSchema, Migrate, Fail, CleanSchema, Apart, MakersApart, Typed, Creations
    <2>3. \A s \in Slug : schemas[s] = "seeded" => schemas'[s] = "seeded"
      BY <1>2, <2>2 DEF CreateSchema, Migrate, Fail, CleanSchema, Dropped, Typed
    <2> QED
      BY <2>1, <2>3, RowSlug DEF LoginsServed, EntriesHaveSchema, LoginsFirst, HasRow, Typed
  <1>3. ASSUME NEW c \in Creator, Seed(c)
        PROVE  LoginsServed'
    <2>0. PICK a \in Academy, s \in Slug : a = making[c].academy /\ s = making[c].slug
      BY <1>3 DEF Seed, Typed, Creations
    <2>1. /\ schemas' = [schemas EXCEPT ![s] = "seeded"] /\ entries' = entries \cup {a}
          /\ Uses(a, s) /\ InTheMaking(a) /\ UNCHANGED <<tenants, changing>>
      BY <1>3, <2>0 DEF Seed, Apart, MakersApart, InTheMaking
    <2>2. EntriesHaveSchema'
      BY <2>1, RowSlug DEF LoginsServed, EntriesHaveSchema, HasRow, Uses, Typed
    <2>3. LoginsFirst'
      BY <2>1 DEF LoginsServed, LoginsFirst, Apart, ChangersApart
    <2> QED
      BY <2>2, <2>3 DEF LoginsServed
  <1>4. ASSUME NEW c \in Creator, CleanRecord(c)
        PROVE  LoginsServed'
    <2>1. UNCHANGED <<schemas, changing>>
      BY <1>4 DEF CleanRecord
    <2>2. \A b \in entries' : b \in entries /\ tenants'[b] = tenants[b]
      BY <1>4 DEF CleanRecord, Typed
    <2> QED
      BY <2>1, <2>2 DEF LoginsServed, EntriesHaveSchema, LoginsFirst, HasRow
  <1>5. ASSUME NEW g \in Changer, NEW a \in Academy, NEW to \in Statuses, ReadStatus(g, a, to)
        PROVE  LoginsServed'
    <2>1. \A h \in Changer : changing'[h].pc = "drop" => changing'[h] = changing[h]
      BY <1>5 DEF ReadStatus, Typed
    <2> QED
      BY <1>5, <2>1 DEF ReadStatus, LoginsServed, EntriesHaveSchema, LoginsFirst, HasRow
  <1>6. ASSUME NEW g \in Changer, UpdateStatus(g)
        PROVE  LoginsServed'
    <2>1. \A h \in Changer : changing'[h].pc = "drop" => changing'[h] = changing[h]
      BY <1>6, Empty DEF UpdateStatus, Typed, Changes
    <2>2. /\ UNCHANGED <<schemas, entries>> /\ changing[g].to # "none"
          /\ \A b \in Academy : /\ tenants'[b].slug = tenants[b].slug
                               /\ tenants'[b].status \in {tenants[b].status, changing[g].to}
      BY <1>6 DEF UpdateStatus, Typed, Changes, Tenants, Statuses
    <2> QED
      BY <2>1, <2>2 DEF LoginsServed, EntriesHaveSchema, LoginsFirst, HasRow, Typed
  <1>7. ASSUME NEW g \in Changer, RemoveLogins(g)
        PROVE  LoginsServed'
    <2>1. /\ entries' = entries \ {changing[g].academy}
          /\ changing' = [changing EXCEPT ![g].pc = "drop"]
          /\ UNCHANGED <<tenants, schemas>>
      BY <1>7 DEF RemoveLogins
    <2>2. \A h \in Changer : /\ changing'[h].academy = changing[h].academy
                             /\ h # g => changing'[h] = changing[h]
      BY <2>1 DEF Typed, Changes
    <2> QED
      BY <2>1, <2>2 DEF LoginsServed, EntriesHaveSchema, LoginsFirst, HasRow
  <1>8. ASSUME NEW g \in Changer, DropDeleted(g)
        PROVE  LoginsServed'
    <2>0. PICK a \in Academy : a = changing[g].academy
      BY <1>8 DEF DropDeleted, Typed, Changes
    <2>1. /\ a \notin entries /\ HasRow(a) /\ UNCHANGED <<tenants, entries>>
          /\ changing' = [changing EXCEPT ![g] = NotChanging]
          /\ \A s \in Slug : s # tenants[a].slug => schemas'[s] = schemas[s]
      BY <1>8, <2>0 DEF DropDeleted, Dropped, LoginsServed, LoginsFirst, Apart, ChangersApart, Typed
    <2>2. \A b \in entries : tenants[b].slug \in Slug /\ tenants[b].slug # tenants[a].slug
      <3> SUFFICES ASSUME NEW b \in entries
                   PROVE  tenants[b].slug \in Slug /\ tenants[b].slug # tenants[a].slug
        OBVIOUS
      <3>1. b \in Academy /\ HasRow(b) /\ b # a
        BY <2>1 DEF LoginsServed, EntriesHaveSchema, Typed
      <3> QED
        BY <2>1, <3>1, RowSlug DEF Apart, SlugsUnique, Uses
    <2>3. EntriesHaveSchema'
      BY <2>1, <2>2 DEF LoginsServed, EntriesHaveSchema, HasRow
    <2>4. LoginsFirst'
      BY <2>1, Empty DEF LoginsServed, LoginsFirst, Typed
    <2> QED
      BY <2>3, <2>4 DEF LoginsServed
  <1>9. ASSUME NEW a \in Academy, OpenWriter(a)
        PROVE  LoginsServed'
    BY <1>9 DEF OpenWriter, LoginsServed, EntriesHaveSchema, LoginsFirst, HasRow
  <1>10. ASSUME NEW a \in Academy, CloseWriter(a)
         PROVE  LoginsServed'
    <2>1. /\ a \in writing /\ entries' \subseteq entries \cup {a}
          /\ UNCHANGED <<tenants, schemas, changing>>
      BY <1>10 DEF CloseWriter
    <2>2. HasRow(a) /\ Seeded(a)
      BY <2>1 DEF Apart, WritersServed
    <2>3. \A g \in Changer : changing[g].pc = "drop" => changing[g].academy # a
      BY <2>1 DEF Apart, ChangersApart
    <2> QED
      BY <2>1, <2>2, <2>3 DEF LoginsServed, EntriesHaveSchema, LoginsFirst, HasRow, Seeded
  <1>11. CASE Crash
    BY <1>11, Empty DEF Crash, LoginsServed, EntriesHaveSchema, LoginsFirst, HasRow
  <1>12. CASE UNCHANGED vars
    BY <1>12 DEF vars, LoginsServed, EntriesHaveSchema, LoginsFirst, HasRow
  <1> QED
    BY <1>1, <1>2, <1>3, <1>4, <1>5, <1>6, <1>7, <1>8, <1>9, <1>10, <1>11, <1>12 DEF Next

\* Every row of the login index leads to an academy whose data is there, if
\* the clean-up of the index at a deletion does not fail
\* (app/api/auth/login/route.ts:133 throws where it does not).
THEOREM LoginsLeadSomewhere ==
  ASSUME "index" \notin Faults, Alone PROVE Spec => []EntriesHaveSchema
  <1>1. Init => LoginsServed
    BY Empty DEF Init, LoginsServed, EntriesHaveSchema, LoginsFirst
  <1>2. LoginsServed => EntriesHaveSchema
    BY DEF LoginsServed
  <1> QED
    BY <1>1, <1>2, TypeInit, TypeNext, ApartInit, ApartNext, LoginsNext, PTL DEF Spec
=============================================================================

--------------------------- MODULE AccountsProofs ---------------------------
(***************************************************************************)
(* No two accounts of an academy are active with one phone, whatever       *)
(* requests overlap; and where the requests that sync from a row they have *)
(* not locked meet no other on their account, and no account changes while *)
(* a reconciliation inserts, the login index says what the accounts say    *)
(* and a parent keeps the login while a child trains.                      *)
(***************************************************************************)
EXTENDS Accounts, TLAPS

-----------------------------------------------------------------------------
(* The invariants *)

\* What an open transaction may look like.
Shape(t) ==
    \/ t = Idle
    \/ /\ t.op = "reconcile" /\ t.pc \in {"read", "clean", "insert", "commit"}
       /\ t.user = None /\ t.mirrors /\ ~t.wrote
    \/ /\ t.op \in Kinds \ {"reconcile"} /\ t.pc \notin {"idle", "read", "insert"}
       /\ t.user \in User
       /\ t.op \in {"enrol", "kidoff", "kidon"} => t.kid \in Kid
       /\ t.wrote => t.pc \in {"kid", "clean", "commit"} /\ t.seen.phone # None
       /\ t.pc = "kid" => t.op \in {"enrol", "kidon"}
       /\ ~t.mirrors => t.op = "rephone" /\ t.active = "keep"

Typed ==
    /\ users \in [User -> Account]
    /\ kids \in [Kid -> Profile]
    /\ entries \in [Phone -> User \cup {None}]
    /\ req \in [Req -> Transaction]
    /\ \A r \in Req : Shape(req[r])

\* Rows refer to rows.
Rows ==
    /\ \A u \in User : users[u].active => Exists(u)
    /\ \A k \in Kid : kids[k].active => HasKid(k)
    /\ \A k \in Kid : HasKid(k) => Exists(kids[k].account)

\* An open transaction refers to rows that are there.
Refers(r) ==
    LET t == req[r] IN
    /\ t.pc = "write" => t.phone # None \/ Exists(t.user)
    /\ t.pc \in {"kid", "sync", "clean", "commit"} /\ t.op # "reconcile" =>
          t.wrote \/ Exists(t.user)
    /\ t.op \in {"kidoff", "kidon"} => kids[t.kid].account = t.user
    /\ t.op = "enrol" =>
          ~HasKid(t.kid) /\ \A q \in Others(r) : req[q].op = "enrol" => req[q].kid # t.kid

Sound == Rows /\ \A r \in Req : Refers(r)

\* Who has written an account holds its row and its key of the partial index.
Holds(r) ==
    LET t == req[r] IN
    t.wrote =>
        /\ \A q \in Others(r) : req[q].wrote => req[q].user # t.user
        /\ t.seen.active =>
             /\ PhoneAvailable(t.user, t.seen.phone)
             /\ \A q \in Others(r) :
                   req[q].wrote => ~(req[q].seen.active /\ req[q].seen.phone = t.seen.phone)

Unique == OneActivePerPhone /\ \A r \in Req : Holds(r)

\* What Admitted lets in.
Alone(r) ==
    \A q \in Others(r) :
        (req[r].pc # "idle" /\ req[q].pc # "idle" /\ {req[r].op, req[q].op} \cap Solo # {}) =>
            req[q].user # req[r].user

Apart == \A r \in Req : Alone(r)

\* What the last theorem assumes: a request that may sync from a row it has
\* not locked is alone on its account, and no account changes while the INSERT
\* of a reconciliation runs.
Solitary ==
    {"profile", "rephone", "enrol", "kidoff", "kidon", "reconcile"} \subseteq Solo

\* What a transaction that syncs relies on: the version it has seen is the
\* one that will be committed, and the index rows it deletes are those of
\* its account that this version does not describe.
Synced(r) ==
    LET t == req[r] IN
    /\ t.op \in Kinds \ {"reconcile"} /\ ~t.wrote =>
         /\ t.pc \in {"kid", "sync", "clean", "commit"} => t.op \in Solo
         /\ t.pc \in {"clean", "commit"} => t.seen = users[t.user]
    /\ ~t.mirrors =>
         /\ t.pc \in {"write", "commit"}
         /\ t.phone = users[t.user].phone /\ t.drop = {}
         /\ t.wrote => t.seen = users[t.user]
    /\ t.pc # "commit" => t.drop = {}
    /\ t.op = "reconcile" => t.drop = {} /\ (t.pc = "commit" => t.rows = ActiveAccounts)
    /\ t.pc = "commit" /\ t.op # "reconcile" /\ t.mirrors => t.drop = Stale(r)

InStep == IndexFollowsAccounts /\ \A r \in Req : Synced(r)

\* Whoever is about to close an account has counted no other active child.
Counted(r) ==
    LET t == req[r] IN
    t.op = "kidoff" /\ (t.pc = "write" \/ t.wrote) =>
        \A c \in Kid \ {t.kid} : kids[c].account = t.user => ~kids[c].active

LastChild == \A r \in Req : Counted(r)

-----------------------------------------------------------------------------
(* How a request starts *)

LEMMA IdleTransaction ==
  /\ Idle \in Transaction /\ Shape(Idle)
  /\ Idle.op = "none" /\ Idle.pc = "idle" /\ Idle.user = None /\ Idle.kid = None
  /\ ~Idle.wrote /\ Idle.mirrors /\ Idle.drop = {} /\ Idle.phone = None /\ Idle.rows = {}
  BY DEF Idle, Transaction, Shape, NoAccount, Account

\* The first statement of some handler.
Start(r) ==
    \/ \E u \in User, f \in Phone : StartCreate(r, u, f) \/ StartCreateCaptain(r, u, f)
    \/ \E u \in User, f \in Phone \cup {None}, a \in {"on", "off", "keep"} :
          StartUpdate(r, u, f, a) \/ StartUpdateCaptain(r, u, f, a)
    \/ \E u \in User : StartDeactivate(r, u) \/ StartDeactivateCaptain(r, u)
    \/ \E k \in Kid, f \in Phone : StartRephone(r, k, f)
    \/ \E k \in Kid, u \in User, f \in Phone : StartEnrol(r, k, u, f)
    \/ \E k \in Kid : StartKidOff(r, k) \/ StartKidOn(r, k)
    \/ StartReconcile(r)

\* What the first statement of every handler has seen to.
Starting(r, t) ==
    /\ req[r].pc = "idle" /\ Begin(r, t)
    /\ t \in Transaction /\ Shape(t)
    /\ t.pc \in {"write", "kid", "sync", "read"} /\ ~t.wrote /\ t.drop = {}
    /\ t.pc = "read" <=> t.op = "reconcile"
    /\ t.pc \in {"kid", "sync"} => t.op \in {"profile", "enrol", "kidoff", "kidon"}
    /\ \A q \in Others(r) :
          (req[q].pc # "idle" /\ {t.op, req[q].op} \cap Solo # {}) => req[q].user # t.user
    /\ t.pc = "write" => t.phone # None \/ Exists(t.user)
    /\ t.pc \in {"kid", "sync"} => Exists(t.user)
    /\ t.op \in {"kidoff", "kidon"} => kids[t.kid].account = t.user
    /\ t.op = "enrol" => FreshKid(t.kid)
    /\ ~t.mirrors => t.phone = users[t.user].phone
    /\ t.op = "kidoff" /\ t.pc = "write" => ActiveSiblings(t.kid) = {}

LEMMA StartsUser ==
  ASSUME AccountAssumption, Typed, Sound, NEW r \in Req, NEW u \in User,
         NEW f \in Phone \cup {None}, NEW a \in {"on", "off", "keep"},
         \/ f \in Phone /\ StartCreate(r, u, f)
         \/ StartUpdate(r, u, f, a) \/ StartDeactivate(r, u)
         \/ StartUpdateCaptain(r, u, f, a)
  PROVE  \E t : Starting(r, t)
  <1>1. ASSUME f \in Phone, StartCreate(r, u, f)
        PROVE  \E t : Starting(r, t)
    <2>1. PICK t : t = [Idle EXCEPT !.op = "create", !.pc = "write", !.user = u,
                                    !.phone = f, !.active = "on"]
      OBVIOUS
    <2>2. Begin(r, t) /\ Admitted(r, "create", u)
      BY <1>1, <2>1 DEF StartCreate
    <2>3. /\ t \in Transaction /\ t.op = "create" /\ t.pc = "write" /\ t.user = u
          /\ t.phone = f /\ t.mirrors /\ ~t.wrote /\ t.drop = {}
      BY <2>1 DEF Idle, Transaction, NoAccount, Account, Kinds
    <2>4. Shape(t)
      BY <2>3 DEF Shape, Kinds
    <2>5. Starting(r, t)
      BY <1>1, <2>2, <2>3, <2>4 DEF Starting, Admitted, AccountAssumption
    <2> QED
      BY <2>5
  <1>2. ASSUME NEW t, Admitted(r, "update", u), Exists(u), Begin(r, t),
               t \in Transaction, t.op = "update", t.pc = "write", t.user = u,
               t.mirrors, ~t.wrote, t.drop = {}
        PROVE  \E x : Starting(r, x)
    <2>1. Shape(t)
      BY <1>2 DEF Shape, Kinds
    <2>2. Starting(r, t)
      BY <1>2, <2>1 DEF Starting, Admitted
    <2> QED
      BY <2>2
  <1>3. ASSUME StartUpdate(r, u, f, a)
        PROVE  \E t : Starting(r, t)
    <2>1. PICK t : t = [Idle EXCEPT !.op = "update", !.pc = "write", !.user = u,
                                    !.phone = f, !.active = a]
      OBVIOUS
    <2>2. /\ t \in Transaction /\ t.op = "update" /\ t.pc = "write" /\ t.user = u
          /\ t.mirrors /\ ~t.wrote /\ t.drop = {}
      BY <2>1 DEF Idle, Transaction, NoAccount, Account, Kinds
    <2>3. Begin(r, t) /\ Admitted(r, "update", u) /\ Exists(u)
      BY <1>3, <2>1 DEF StartUpdate
    <2> QED
      BY <1>2, <2>2, <2>3
  <1>4. ASSUME StartDeactivate(r, u)
        PROVE  \E t : Starting(r, t)
    <2>1. PICK t : t = [Idle EXCEPT !.op = "update", !.pc = "write", !.user = u,
                                    !.active = "off"]
      OBVIOUS
    <2>2. /\ t \in Transaction /\ t.op = "update" /\ t.pc = "write" /\ t.user = u
          /\ t.mirrors /\ ~t.wrote /\ t.drop = {}
      BY <2>1 DEF Idle, Transaction, NoAccount, Account, Kinds
    <2>3. Begin(r, t) /\ Admitted(r, "update", u) /\ Exists(u)
      BY <1>4, <2>1 DEF StartDeactivate
    <2> QED
      BY <1>2, <2>2, <2>3
  <1>5. ASSUME StartUpdateCaptain(r, u, f, a), ~StartUpdate(r, u, f, a)
        PROVE  \E t : Starting(r, t)
    <2>1. PICK t : t = [Idle EXCEPT !.op = "profile", !.pc = "sync", !.user = u]
      OBVIOUS
    <2>2. /\ t \in Transaction /\ t.op = "profile" /\ t.pc = "sync" /\ t.user = u
          /\ t.mirrors /\ ~t.wrote /\ t.drop = {}
      BY <2>1 DEF Idle, Transaction, NoAccount, Account, Kinds
    <2>3. Begin(r, t) /\ Admitted(r, "profile", u) /\ Exists(u)
      BY <1>5, <2>1 DEF StartUpdateCaptain
    <2>4. Shape(t)
      BY <2>2 DEF Shape, Kinds
    <2>5. Starting(r, t)
      BY <2>2, <2>3, <2>4 DEF Starting, Admitted
    <2> QED
      BY <2>5
  <1> QED
    BY <1>1, <1>3, <1>4, <1>5

LEMMA StartsEnrol ==
  ASSUME AccountAssumption, Typed, NEW r \in Req, NEW k \in Kid,
         NEW u \in User, NEW f \in Phone, StartEnrol(r, k, u, f)
  PROVE  \E t : Starting(r, t)
  <1>1. ASSUME NEW t, Begin(r, t), t \in Transaction, t.op = "enrol", t.user = u,
               t.kid = k, t.mirrors, ~t.wrote, t.drop = {},
               \/ t.pc = "kid" /\ Exists(u)
               \/ t.pc = "write" /\ (t.phone # None \/ Exists(u))
        PROVE  \E x : Starting(r, x)
    <2>1. Shape(t)
      BY <1>1 DEF Shape, Kinds
    <2>2. Admitted(r, "enrol", u) /\ FreshKid(k)
      BY DEF StartEnrol
    <2>3. Starting(r, t)
      BY <1>1, <2>1, <2>2 DEF Starting, Admitted
    <2> QED
      BY <2>3
  <1>2. f # None
    BY DEF AccountAssumption
  <1>3. ASSUME SignsIn(u, f),
               Begin(r, [Idle EXCEPT !.op = "enrol", !.pc = "kid", !.user = u, !.kid = k])
        PROVE  \E t : Starting(r, t)
    <2>1. PICK t : t = [Idle EXCEPT !.op = "enrol", !.pc = "kid", !.user = u, !.kid = k]
      OBVIOUS
    <2>2. /\ t \in Transaction /\ t.op = "enrol" /\ t.pc = "kid" /\ t.user = u
          /\ t.kid = k /\ t.mirrors /\ ~t.wrote /\ t.drop = {}
      BY <2>1 DEF Idle, Transaction, NoAccount, Account, Kinds
    <2> QED
      BY <1>1, <1>2, <1>3, <2>1, <2>2 DEF SignsIn, Exists
  <1>4. ASSUME users[u].phone = f,
               Begin(r, [Idle EXCEPT !.op = "enrol", !.pc = "write", !.user = u,
                                     !.kid = k, !.active = "on"])
        PROVE  \E t : Starting(r, t)
    <2>1. PICK t : t = [Idle EXCEPT !.op = "enrol", !.pc = "write", !.user = u,
                                    !.kid = k, !.active = "on"]
      OBVIOUS
    <2>2. /\ t \in Transaction /\ t.op = "enrol" /\ t.pc = "write" /\ t.user = u
          /\ t.kid = k /\ t.mirrors /\ ~t.wrote /\ t.drop = {}
      BY <2>1 DEF Idle, Transaction, NoAccount, Account, Kinds
    <2> QED
      BY <1>1, <1>2, <1>4, <2>1, <2>2 DEF Exists
  <1>5. ASSUME Begin(r, [Idle EXCEPT !.op = "enrol", !.pc = "write", !.user = u,
                                     !.kid = k, !.phone = f, !.active = "on"])
        PROVE  \E t : Starting(r, t)
    <2>1. PICK t : t = [Idle EXCEPT !.op = "enrol", !.pc = "write", !.user = u,
                                    !.kid = k, !.phone = f, !.active = "on"]
      OBVIOUS
    <2>2. /\ t \in Transaction /\ t.op = "enrol" /\ t.pc = "write" /\ t.user = u
          /\ t.kid = k /\ t.mirrors /\ ~t.wrote /\ t.drop = {} /\ t.phone = f
      BY <2>1 DEF Idle, Transaction, NoAccount, Account, Kinds
    <2> QED
      BY <1>1, <1>2, <1>5, <2>1, <2>2
  <1> QED
    BY <1>3, <1>4, <1>5 DEF StartEnrol

LEMMA StartsKid ==
  ASSUME AccountAssumption, Typed, Sound, NEW r \in Req, NEW k \in Kid, NEW f \in Phone,
         StartRephone(r, k, f) \/ StartKidOff(r, k) \/ StartKidOn(r, k)
  PROVE  \E t : Starting(r, t)
  <1>1. PICK v \in User : v = kids[k].account /\ Exists(v)
    BY DEF Sound, Rows, HasKid, Typed, Profile, StartRephone, StartKidOff, StartKidOn
  <1>2. ASSUME StartRephone(r, k, f)
        PROVE  \E t : Starting(r, t)
    <2>1. PICK m \in BOOLEAN : m = (f # users[v].phone)
      OBVIOUS
    <2>2. PICK t : t = [Idle EXCEPT !.op = "rephone", !.pc = "write", !.user = v,
                                    !.phone = f, !.mirrors = m]
      OBVIOUS
    <2>3. /\ t \in Transaction /\ t.op = "rephone" /\ t.pc = "write" /\ t.user = v
          /\ t.phone = f /\ t.active = "keep" /\ t.mirrors = m /\ ~t.wrote /\ t.drop = {}
      BY <2>2 DEF Idle, Transaction, NoAccount, Account, Kinds
    <2>4. Begin(r, t) /\ Admitted(r, "rephone", v)
      BY <1>1, <1>2, <2>1, <2>2 DEF StartRephone
    <2>5. Shape(t)
      BY <2>3 DEF Shape, Kinds
    <2>6. ~t.mirrors => t.phone = users[t.user].phone
      BY <2>1, <2>3
    <2>7. Starting(r, t)
      BY <1>1, <2>3, <2>4, <2>5, <2>6 DEF Starting, Admitted
    <2> QED
      BY <2>7
  <1>3. ASSUME StartKidOff(r, k)
        PROVE  \E t : Starting(r, t)
    <2>1. PICK pc \in {"write", "sync"} :
            pc = IF ActiveSiblings(k) = {} THEN "write" ELSE "sync"
      OBVIOUS
    <2>2. PICK t : t = [Idle EXCEPT !.op = "kidoff", !.user = v, !.kid = k,
                                    !.active = "off", !.pc = pc]
      OBVIOUS
    <2>3. /\ t \in Transaction /\ t.op = "kidoff" /\ t.pc = pc /\ t.user = v
          /\ t.kid = k /\ t.mirrors /\ ~t.wrote /\ t.drop = {}
      BY <2>2 DEF Idle, Transaction, NoAccount, Account, Kinds
    <2>4. Begin(r, t) /\ Admitted(r, "kidoff", v)
      BY <1>1, <1>3, <2>1, <2>2 DEF StartKidOff
    <2>5. Shape(t)
      BY <2>3 DEF Shape, Kinds
    <2>6. Starting(r, t)
      BY <1>1, <2>1, <2>3, <2>4, <2>5 DEF Starting, Admitted
    <2> QED
      BY <2>6
  <1>4. ASSUME StartKidOn(r, k)
        PROVE  \E t : Starting(r, t)
    <2>1. PICK pc \in {"write", "kid"} : pc = IF users[v].active THEN "kid" ELSE "write"
      OBVIOUS
    <2>2. PICK t : t = [Idle EXCEPT !.op = "kidon", !.user = v, !.kid = k,
                                    !.active = "on", !.pc = pc]
      OBVIOUS
    <2>3. /\ t \in Transaction /\ t.op = "kidon" /\ t.pc = pc /\ t.user = v
          /\ t.kid = k /\ t.mirrors /\ ~t.wrote /\ t.drop = {}
      BY <2>2 DEF Idle, Transaction, NoAccount, Account, Kinds
    <2>4. Begin(r, t) /\ Admitted(r, "kidon", v)
      BY <1>1, <1>4, <2>1, <2>2 DEF StartKidOn
    <2>5. Shape(t)
      BY <2>3 DEF Shape, Kinds
    <2>6. Starting(r, t)
      BY <1>1, <2>1, <2>3, <2>4, <2>5 DEF Starting, Admitted
    <2> QED
      BY <2>6
  <1> QED
    BY <1>2, <1>3, <1>4

LEMMA Starts ==
  ASSUME AccountAssumption, Typed, Sound, NEW r \in Req, Start(r)
  PROVE  \E t : Starting(r, t)
  <1>1. ASSUME StartReconcile(r)
        PROVE  \E t : Starting(r, t)
    <2>0. PICK S \in SUBSET (Phone \X User) : S = ActiveAccounts
      BY DEF ActiveAccounts
    <2>1. PICK t : t = [Idle EXCEPT !.op = "reconcile", !.pc = "read", !.rows = S]
      OBVIOUS
    <2>2. /\ t \in Transaction /\ t.op = "reconcile" /\ t.pc = "read" /\ t.user = None
          /\ t.mirrors /\ ~t.wrote /\ t.drop = {}
      BY <2>1 DEF Idle, Transaction, NoAccount, Account, Kinds
    <2>3. Shape(t)
      BY <2>2 DEF Shape
    <2>4. Starting(r, t)
      BY <1>1, <2>0, <2>1, <2>2, <2>3 DEF Starting, StartReconcile, Admitted
    <2> QED
      BY <2>4
  <1>2. ASSUME NEW u \in User, NEW f \in Phone, StartCreate(r, u, f)
        PROVE  \E t : Starting(r, t)
    BY <1>2, StartsUser
  <1>3. ASSUME NEW u \in User, NEW f \in Phone \cup {None}, NEW a \in {"on", "off", "keep"},
               StartUpdate(r, u, f, a) \/ StartUpdateCaptain(r, u, f, a)
        PROVE  \E t : Starting(r, t)
    BY <1>3, StartsUser
  <1>4. ASSUME NEW u \in User, StartDeactivate(r, u)
        PROVE  \E t : Starting(r, t)
    <2>1. "on" \in {"on", "off", "keep"} /\ None \in Phone \cup {None}
      OBVIOUS
    <2> QED
      BY <1>4, <2>1, StartsUser
  <1>5. ASSUME NEW k \in Kid, StartKidOff(r, k) \/ StartKidOn(r, k)
        PROVE  \E t : Starting(r, t)
    <2>1. PICK f \in Phone : TRUE
      BY <1>5 DEF StartKidOff, StartKidOn, Sound, Rows, HasKid, Exists, Typed, Profile, Account
    <2> QED
      BY <1>5, <2>1, StartsKid
  <1> QED
    BY <1>1, <1>2, <1>3, <1>4, <1>5, StartsKid, StartsEnrol
       DEF Start, StartCreateCaptain, StartDeactivateCaptain

-----------------------------------------------------------------------------
(* What the other steps do *)

\* The columns an open transaction never changes.
SameRequest(r) ==
    /\ UNCHANGED <<users, kids, entries>>
    /\ \A q \in Others(r) : req'[q] = req[q]
    /\ req'[r] \in Transaction /\ Shape(req'[r])
    /\ req[r].pc # "idle" /\ req'[r].pc # "idle"
    /\ req'[r].op = req[r].op /\ req'[r].user = req[r].user /\ req'[r].kid = req[r].kid
    /\ req'[r].phone = req[r].phone /\ req'[r].mirrors = req[r].mirrors

LEMMA WriteStep ==
  ASSUME AccountAssumption, Typed, Sound, NEW r \in Req, Write(r)
  PROVE  /\ SameRequest(r) /\ req[r].user \in User /\ req[r].op # "reconcile"
         /\ req[r].pc = "write" /\ ~req[r].wrote
         /\ req'[r].wrote /\ req'[r].seen = Written(r) /\ req'[r].drop = req[r].drop
         /\ Written(r) \in Account /\ Written(r).phone # None
         /\ req'[r].pc \in {"kid", "clean", "commit"}
         /\ req'[r].pc = "commit" <=> ~req[r].mirrors
         /\ req[r].op = "kidoff" => ~Written(r).active \/ req[r].active # "off"
  <1>1. /\ req[r] \in Transaction /\ req[r].op \in Kinds \ {"reconcile"} /\ req[r].pc = "write"
        /\ req[r].user \in User /\ ~req[r].wrote
        /\ req[r].op \in {"enrol", "kidoff", "kidon"} => req[r].kid \in Kid
        /\ ~req[r].mirrors => req[r].op = "rephone" /\ req[r].active = "keep"
    BY IdleTransaction DEF Write, Typed, Shape
  <1>2. /\ Written(r) \in Account /\ Written(r).phone # None
        /\ req[r].op = "kidoff" => ~Written(r).active \/ req[r].active # "off"
    <2>1. /\ req[r].phone # None \/ users[req[r].user].phone # None
          /\ req[r].phone \in Phone \cup {None} /\ users[req[r].user] \in Account
      BY <1>1 DEF Sound, Refers, Exists, Typed, Transaction
    <2>2. /\ Written(r).phone = (IF req[r].phone = None THEN users[req[r].user].phone
                                                        ELSE req[r].phone)
          /\ Written(r).active \in BOOLEAN
          /\ req[r].active = "off" => ~Written(r).active
      BY <2>1 DEF Written, Account
    <2>3. Written(r) \in Account
      BY <1>1, <2>1 DEF Written, Account, Exists
    <2> QED
      BY <2>1, <2>2, <2>3
  <1>3. PICK w \in Account : w = Written(r)
    BY <1>2
  <1>4. PICK pc \in {"kid", "clean", "commit"} :
          pc = CASE req[r].op \in {"enrol", "kidon"} -> "kid"
                 [] ~req[r].mirrors -> "commit"
                 [] OTHER -> "clean"
    OBVIOUS
  <1>5. PICK t : t = [req[r] EXCEPT !.wrote = TRUE, !.seen = w, !.pc = pc]
    OBVIOUS
  <1>6. req' = [req EXCEPT ![r] = t] /\ UNCHANGED <<users, kids, entries>>
    BY <1>3, <1>4, <1>5 DEF Write
  <1>7. /\ t \in Transaction /\ t.op = req[r].op /\ t.user = req[r].user /\ t.kid = req[r].kid
        /\ t.phone = req[r].phone /\ t.mirrors = req[r].mirrors /\ t.active = req[r].active
        /\ t.wrote /\ t.seen = w /\ t.drop = req[r].drop /\ t.pc = pc
    BY <1>1, <1>5 DEF Transaction
  <1>8. /\ pc = "commit" <=> ~req[r].mirrors
        /\ pc = "kid" => req[r].op \in {"enrol", "kidon"}
    BY <1>1, <1>4
  <1>9. Shape(t)
    BY <1>1, <1>2, <1>3, <1>7, <1>8 DEF Shape
  <1>10. req'[r] = t /\ \A q \in Others(r) : req'[q] = req[q]
    BY <1>6 DEF Typed, Others
  <1> QED
    BY <1>1, <1>2, <1>3, <1>6, <1>7, <1>8, <1>9, <1>10 DEF SameRequest

LEMMA QuietStep ==
  ASSUME AccountAssumption, Typed, NEW r \in Req,
         WriteKid(r) \/ SyncRead(r) \/ Clean(r)
  PROVE  /\ SameRequest(r) /\ req'[r].wrote = req[r].wrote
         /\ req[r].wrote => req'[r].seen = req[r].seen
         /\ req[r].pc \in {"kid", "sync", "clean"}
         /\ req'[r].pc \in {"sync", "clean", "insert", "commit"}
         /\ req[r].pc \in {"kid", "sync"} => req'[r].drop = req[r].drop
         /\ req'[r].pc \in {"insert", "commit"} <=> Clean(r)
         /\ req'[r].pc = "insert" <=> Clean(r) /\ req[r].op = "reconcile"
         /\ Clean(r) => req'[r].drop = Stale(r) /\ req'[r].seen = req[r].seen
         /\ req'[r].pc = "clean" /\ ~req[r].wrote => req'[r].seen = users[req[r].user]
  <1>1. /\ req[r] \in Transaction /\ Shape(req[r]) /\ req[r].pc \in {"kid", "sync", "clean"}
    BY DEF WriteKid, SyncRead, Clean, Typed
  <1>2. /\ req[r].op = "reconcile" => req[r].pc = "clean"
        /\ req[r].pc = "sync" => ~req[r].wrote
        /\ req[r].op # "reconcile" => req[r].user \in User
    BY <1>1, IdleTransaction DEF Shape
  <1>3. CASE WriteKid(r)
    <2>1. PICK t : t = [req[r] EXCEPT !.pc = IF req[r].wrote THEN "clean" ELSE "sync"]
      OBVIOUS
    <2>2. req' = [req EXCEPT ![r] = t] /\ UNCHANGED <<users, kids, entries>>
          /\ req[r].pc = "kid"
      BY <1>3, <2>1 DEF WriteKid
    <2>3. /\ t \in Transaction /\ t.op = req[r].op /\ t.user = req[r].user /\ t.kid = req[r].kid
          /\ t.phone = req[r].phone /\ t.mirrors = req[r].mirrors /\ t.active = req[r].active
          /\ t.wrote = req[r].wrote /\ t.seen = req[r].seen /\ t.drop = req[r].drop
          /\ t.pc = IF req[r].wrote THEN "clean" ELSE "sync"
      BY <1>1, <2>1 DEF Transaction
    <2>4. Shape(t)
      BY <1>1, <1>2, <2>2, <2>3, IdleTransaction DEF Shape
    <2>5. req'[r] = t /\ \A q \in Others(r) : req'[q] = req[q]
      BY <2>2 DEF Typed, Others
    <2> QED
      BY <1>1, <1>2, <2>2, <2>3, <2>4, <2>5 DEF SameRequest, Clean
  <1>4. CASE SyncRead(r)
    <2>1. PICK v \in Account : v = users[req[r].user]
      BY <1>2, <1>4, <1>1 DEF SyncRead, Typed
    <2>2. PICK t : t = [req[r] EXCEPT !.seen = v, !.pc = "clean"]
      OBVIOUS
    <2>3. req' = [req EXCEPT ![r] = t] /\ UNCHANGED <<users, kids, entries>>
          /\ req[r].pc = "sync"
      BY <1>4, <2>1, <2>2 DEF SyncRead
    <2>4. /\ t \in Transaction /\ t.op = req[r].op /\ t.user = req[r].user /\ t.kid = req[r].kid
          /\ t.phone = req[r].phone /\ t.mirrors = req[r].mirrors /\ t.active = req[r].active
          /\ t.wrote = req[r].wrote /\ t.seen = v /\ t.drop = req[r].drop
          /\ t.pc = "clean"
      BY <1>1, <2>2 DEF Transaction
    <2>5. Shape(t)
      BY <1>1, <1>2, <2>3, <2>4, IdleTransaction DEF Shape
    <2>6. req'[r] = t /\ \A q \in Others(r) : req'[q] = req[q]
      BY <2>3 DEF Typed, Others
    <2> QED
      BY <1>1, <1>2, <2>1, <2>3, <2>4, <2>5, <2>6 DEF SameRequest, Clean
  <1>5. CASE Clean(r)
    <2>1. PICK S \in SUBSET Phone : S = Stale(r)
      BY DEF Stale
    <2>0. PICK p \in {"insert", "commit"} :
             p = IF req[r].op = "reconcile" THEN "insert" ELSE "commit"
      OBVIOUS
    <2>2. PICK t : t = [req[r] EXCEPT !.drop = S, !.pc = p]
      OBVIOUS
    <2>3. req' = [req EXCEPT ![r] = t] /\ UNCHANGED <<users, kids, entries>>
          /\ req[r].pc = "clean"
      BY <1>5, <2>0, <2>1, <2>2 DEF Clean
    <2>4. /\ t \in Transaction /\ t.op = req[r].op /\ t.user = req[r].user /\ t.kid = req[r].kid
          /\ t.phone = req[r].phone /\ t.mirrors = req[r].mirrors /\ t.active = req[r].active
          /\ t.wrote = req[r].wrote /\ t.seen = req[r].seen /\ t.drop = S
          /\ t.pc = p
      BY <1>1, <2>2 DEF Transaction
    <2>5. Shape(t)
      BY <1>1, <1>2, <2>0, <2>3, <2>4, IdleTransaction DEF Shape
    <2>6. req'[r] = t /\ \A q \in Others(r) : req'[q] = req[q]
      BY <2>3 DEF Typed, Others
    <2> QED
      BY <1>1, <1>2, <1>5, <2>0, <2>1, <2>3, <2>4, <2>5, <2>6 DEF SameRequest
  <1> QED
    BY <1>3, <1>4, <1>5

\* A reconciliation goes on: it repairs, or its INSERT takes its snapshot.
Reconciles(r) ==
    \/ /\ req[r].pc = "read"
       /\ Begin(r, [req[r] EXCEPT !.pc = "clean", !.rows = {}])
    \/ Select(r)

LEMMA ReconcileStep ==
  ASSUME AccountAssumption, Typed, NEW r \in Req, Reconciles(r)
  PROVE  /\ SameRequest(r) /\ req' = [req EXCEPT ![r] = req'[r]]
         /\ req[r].op = "reconcile" /\ req[r].mirrors /\ ~req[r].wrote /\ ~req'[r].wrote
         /\ req'[r].pc \in {"clean", "commit"} /\ req'[r].drop = req[r].drop
         /\ req'[r].pc = "commit" => req'[r].rows = ActiveAccounts
  <1>1. PICK S \in SUBSET (Phone \X User), p \in {"clean", "commit"} :
           /\ req[r].pc \in {"read", "insert"}
           /\ Begin(r, [req[r] EXCEPT !.pc = p, !.rows = S])
           /\ p = "commit" => S = ActiveAccounts
    <2>1. ActiveAccounts \in SUBSET (Phone \X User)
      BY DEF ActiveAccounts
    <2>2. [req[r] EXCEPT !.rows = ActiveAccounts, !.pc = "commit"] =
          [req[r] EXCEPT !.pc = "commit", !.rows = ActiveAccounts]
      BY DEF Typed, Transaction
    <2>3. CASE Select(r)
      BY <2>1, <2>2, <2>3 DEF Select
    <2>4. CASE ~Select(r)
      BY <2>4 DEF Reconciles
    <2> QED
      BY <2>3, <2>4
  <1>2. /\ req[r] \in Transaction /\ Shape(req[r])
    BY DEF Typed
  <1>3. /\ req[r].op = "reconcile" /\ req[r].user = None /\ req[r].mirrors /\ ~req[r].wrote
    BY <1>1, <1>2, IdleTransaction DEF Shape
  <1>4. PICK t : t = [req[r] EXCEPT !.pc = p, !.rows = S]
    OBVIOUS
  <1>5. req' = [req EXCEPT ![r] = t] /\ UNCHANGED <<users, kids, entries>>
    BY <1>1, <1>4 DEF Begin
  <1>6. /\ t \in Transaction /\ t.op = req[r].op /\ t.user = req[r].user /\ t.kid = req[r].kid
        /\ t.phone = req[r].phone /\ t.mirrors = req[r].mirrors /\ t.wrote = req[r].wrote
        /\ t.drop = req[r].drop /\ t.rows = S /\ t.pc = p
    BY <1>1, <1>2, <1>4 DEF Transaction
  <1>7. Shape(t)
    BY <1>1, <1>3, <1>6 DEF Shape
  <1>8. req'[r] = t /\ \A q \in Others(r) : req'[q] = req[q]
    BY <1>5 DEF Typed, Others
  <1> QED
    BY <1>1, <1>3, <1>5, <1>6, <1>7, <1>8 DEF SameRequest

\* The row of user u after the commit of r.
LEMMA CommitStep ==
  ASSUME AccountAssumption, Typed, NEW r \in Req, Commit(r)
  PROVE  /\ req[r].pc = "commit" /\ req'[r] = Idle /\ \A q \in Others(r) : req'[q] = req[q]
         /\ \A u \in User : users'[u] = IF req[r].wrote /\ u = req[r].user THEN req[r].seen
                                                                          ELSE users[u]
         /\ \A k \in Kid :
              kids'[k].account = IF req[r].op = "enrol" /\ k = req[r].kid
                                 THEN req[r].user ELSE kids[k].account
         /\ \A k \in Kid :
              kids'[k].active = IF req[r].op \in {"enrol", "kidoff", "kidon"} /\ k = req[r].kid
                                THEN req[r].op # "kidoff" ELSE kids[k].active
         /\ entries' = EntriesAfter(r)
         /\ req[r].op # "reconcile" => req[r].user \in User
         /\ users' \in [User -> Account] /\ kids' \in [Kid -> Profile]
  <1>1. /\ req[r] \in Transaction /\ Shape(req[r]) /\ req[r].pc = "commit"
        /\ req' = [req EXCEPT ![r] = Idle]
        /\ users' = IF req[r].wrote THEN [users EXCEPT ![req[r].user] = req[r].seen] ELSE users
        /\ kids' = KidsAfter(r) /\ entries' = EntriesAfter(r)
    BY DEF Commit, Typed
  <1>2. /\ req[r].op \in {"enrol", "kidoff", "kidon"} => req[r].kid \in Kid
        /\ req[r].op # "reconcile" => req[r].user \in User
        /\ req[r].op = "reconcile" => ~req[r].wrote
    BY <1>1, IdleTransaction DEF Shape
  <1>3. req'[r] = Idle /\ \A q \in Others(r) : req'[q] = req[q]
    BY <1>1 DEF Typed, Others
  <1>4. /\ \A u \in User : users'[u] = IF req[r].wrote /\ u = req[r].user THEN req[r].seen
                                                                         ELSE users[u]
        /\ users' \in [User -> Account]
    BY <1>1, <1>2 DEF Typed, Transaction
  <1>5. /\ \A k \in Kid :
             kids'[k].account = IF req[r].op = "enrol" /\ k = req[r].kid
                                THEN req[r].user ELSE kids[k].account
        /\ \A k \in Kid :
             kids'[k].active = IF req[r].op \in {"enrol", "kidoff", "kidon"} /\ k = req[r].kid
                               THEN req[r].op # "kidoff" ELSE kids[k].active
        /\ kids' \in [Kid -> Profile]
    <2>1. \A k \in Kid : kids[k] \in Profile
      BY DEF Typed
    <2>2. CASE req[r].op = "enrol"
      <3>1. PICK n \in Profile : n = [account |-> req[r].user, active |-> TRUE]
        BY <1>2, <2>2 DEF Profile
      <3>2. kids' = [kids EXCEPT ![req[r].kid] = n] /\ n.account = req[r].user /\ n.active
        BY <1>1, <2>2, <3>1 DEF KidsAfter
      <3> QED
        BY <1>2, <2>2, <3>1, <3>2 DEF Typed
    <2>3. CASE req[r].op \in {"kidoff", "kidon"}
      <3>1. PICK b \in BOOLEAN : b = (req[r].op = "kidon")
        OBVIOUS
      <3>2. PICK k \in Kid : k = req[r].kid
        BY <1>2, <2>3
      <3>3. kids' = [kids EXCEPT ![k].active = b]
        BY <1>1, <2>3, <3>1, <3>2 DEF KidsAfter
      <3>4. /\ kids' \in [Kid -> Profile] /\ kids'[k].active = b
            /\ kids'[k].account = kids[k].account
            /\ \A c \in Kid \ {k} : kids'[c] = kids[c]
        BY <2>1, <3>3 DEF Typed, Profile
      <3> QED
        BY <2>3, <3>1, <3>2, <3>4
    <2>4. CASE req[r].op \notin {"enrol", "kidoff", "kidon"}
      BY <1>1, <2>4 DEF KidsAfter, Typed
    <2> QED
      BY <2>2, <2>3, <2>4
  <1> QED
    BY <1>1, <1>2, <1>3, <1>4, <1>5

LEMMA EntriesTyped ==
  ASSUME Typed, NEW r \in Req
  PROVE  EntriesAfter(r) \in [Phone -> User \cup {None}]
  <1>1. \A f \in Phone :
          (\E u \in User : <<f, u>> \in Upserts(r)) =>
            (CHOOSE u \in User : <<f, u>> \in Upserts(r)) \in User
    OBVIOUS
  <1> QED
    BY <1>1 DEF EntriesAfter, Typed

LEMMA Steps ==
  ASSUME [Next]_vars
  PROVE  \/ UNCHANGED vars
         \/ \E r \in Req : \/ Start(r) \/ Write(r)
                           \/ WriteKid(r) \/ SyncRead(r) \/ Clean(r)
                           \/ Reconciles(r) \/ Commit(r) \/ Rollback(r)
  <1>1. \A r \in Req : ReadEntries(r) => Reconciles(r) \/ Rollback(r)
    BY DEF ReadEntries, Reconciles, Rollback
  <1>2. \A r \in Req : Select(r) => Reconciles(r)
    BY DEF Reconciles
  <1> QED
    BY <1>1, <1>2 DEF Next, Start

LEMMA TypeInit == Init => Typed
  <1> SUFFICES ASSUME Init PROVE Typed
    OBVIOUS
  <1>1. PICK u \in User, k \in Kid, f \in Phone :
          /\ users = [v \in User |-> IF v = u THEN [phone |-> f, active |-> TRUE,
                                                    guardian |-> TRUE] ELSE NoAccount]
          /\ kids = [c \in Kid |-> IF c = k THEN [account |-> u, active |-> TRUE]
                                            ELSE NoProfile]
          /\ entries = [g \in Phone |-> IF g = f THEN u ELSE None]
    BY DEF Init
  <1>2. users \in [User -> Account] /\ kids \in [Kid -> Profile]
    BY <1>1 DEF NoAccount, NoProfile, Account, Profile
  <1> QED
    BY <1>1, <1>2, IdleTransaction DEF Init, Typed

LEMMA TypeNext ==
  ASSUME AccountAssumption, Typed, Sound, [Next]_vars
  PROVE  Typed'
  <1>1. ASSUME NEW r \in Req, Start(r)
        PROVE  Typed'
    <2>1. PICK t : Starting(r, t)
      BY <1>1, Starts
    <2> QED
      BY <2>1 DEF Starting, Begin, Typed, Shape, Idle, NoAccount
  <1>2. ASSUME NEW r \in Req, SameRequest(r), req' \in [Req -> Transaction]
        PROVE  Typed'
    BY <1>2 DEF SameRequest, Typed, Others, Shape, Idle, NoAccount
  <1>3. ASSUME NEW r \in Req,
               Write(r) \/ WriteKid(r) \/ SyncRead(r) \/ Clean(r) \/ Reconciles(r)
        PROVE  Typed'
    <2>1. SameRequest(r)
      BY <1>3, WriteStep, QuietStep, ReconcileStep
    <2>2. req' = [req EXCEPT ![r] = req'[r]]
      BY <1>3, ReconcileStep DEF Write, WriteKid, SyncRead, Clean, Typed
    <2>3. req' \in [Req -> Transaction]
      BY <2>1, <2>2 DEF SameRequest, Typed
    <2> QED
      BY <1>2, <2>1, <2>3
  <1>4. ASSUME NEW r \in Req, Commit(r)
        PROVE  Typed'
    <2>1. req' = [req EXCEPT ![r] = Idle]
      BY <1>4 DEF Commit
    <2>2. /\ users' \in [User -> Account] /\ kids' \in [Kid -> Profile]
          /\ entries' \in [Phone -> User \cup {None}]
      BY <1>4, CommitStep, EntriesTyped
    <2>3. req' \in [Req -> Transaction]
      BY <2>1, IdleTransaction DEF Typed
    <2>4. \A q \in Req : req'[q] = req[q] \/ req'[q] = Idle
      BY <2>1 DEF Typed
    <2> QED
      BY <2>2, <2>3, <2>4, IdleTransaction DEF Typed, Shape, Idle, NoAccount
  <1>5. ASSUME NEW r \in Req, Rollback(r)
        PROVE  Typed'
    BY <1>5, IdleTransaction DEF Rollback, Begin, Typed, Shape, Idle, NoAccount
  <1>6. CASE UNCHANGED vars
    BY <1>6 DEF vars, Typed, Shape, Idle, NoAccount
  <1> QED
    BY <1>1, <1>3, <1>4, <1>5, <1>6, Steps

-----------------------------------------------------------------------------
(* Rows refer to rows *)

LEMMA SoundInit ==
  ASSUME AccountAssumption, Init
  PROVE  Sound
  <1>1. PICK u \in User, k \in Kid, f \in Phone :
          /\ users = [v \in User |-> IF v = u THEN [phone |-> f, active |-> TRUE,
                                                    guardian |-> TRUE] ELSE NoAccount]
          /\ kids = [c \in Kid |-> IF c = k THEN [account |-> u, active |-> TRUE]
                                            ELSE NoProfile]
    BY DEF Init
  <1>2. Rows
    BY <1>1 DEF Rows, Exists, HasKid, NoAccount, NoProfile, AccountAssumption
  <1>3. \A r \in Req : Refers(r)
    BY IdleTransaction DEF Init, Refers
  <1> QED
    BY <1>2, <1>3 DEF Sound

LEMMA SoundNext ==
  ASSUME AccountAssumption, Typed, Sound, [Next]_vars
  PROVE  Sound'
  <1>1. ASSUME UNCHANGED <<users, kids>>, NEW r \in Req, Refers(r)',
               \A q \in Others(r) : req'[q] = req[q],
               req'[r].op = "enrol" => \A q \in Others(r) : req[q].kid # req'[r].kid
        PROVE  Sound'
    <2>1. Rows'
      BY <1>1 DEF Sound, Rows, Exists, HasKid
    <2>2. ASSUME NEW q \in Others(r)
          PROVE  Refers(q)'
      BY <1>1, <2>2 DEF Sound, Refers, Exists, HasKid, Others
    <2> QED
      BY <1>1, <2>1, <2>2 DEF Sound, Others
  <1>2. ASSUME NEW r \in Req, Start(r)
        PROVE  Sound'
    <2>1. PICK t : Starting(r, t)
      BY <1>2, Starts
    <2>2. /\ UNCHANGED <<users, kids>> /\ req'[r] = t
          /\ \A q \in Others(r) : req'[q] = req[q]
      BY <2>1 DEF Starting, Begin, Typed, Others
    <2>3. t.op = "enrol" => ~HasKid(t.kid) /\ \A q \in Req : req[q].kid # t.kid
      BY <2>1 DEF Starting, FreshKid
    <2>4. Refers(r)'
      BY <2>1, <2>2, <2>3 DEF Starting, Refers, Exists, HasKid, Others
    <2> QED
      BY <1>1, <2>2, <2>3, <2>4 DEF Others
  <1>3. ASSUME NEW r \in Req, SameRequest(r), req'[r].pc # "write",
               req'[r].wrote \/ req'[r].op = "reconcile" \/ Exists(req[r].user)
        PROVE  Sound'
    <2>1. Refers(r) /\ \A q \in Others(r) : Refers(q)
      BY DEF Sound, Others
    <2>2. Refers(r)'
      BY <1>3, <2>1 DEF SameRequest, Refers, Exists, HasKid, Others
    <2>3. Rows'
      BY <1>3 DEF SameRequest, Sound, Rows, Exists, HasKid
    <2>4. ASSUME NEW q \in Others(r)
          PROVE  Refers(q)'
      <3>1. \A x \in Req : req'[x].op = req[x].op /\ req'[x].kid = req[x].kid
        BY <1>3 DEF SameRequest, Others
      <3>2. req'[q] = req[q] /\ UNCHANGED <<users, kids>>
        BY <1>3, <2>4 DEF SameRequest
      <3> QED
        BY <2>1, <3>1, <3>2 DEF Refers, Exists, HasKid, Others
    <2> QED
      BY <2>2, <2>3, <2>4 DEF Sound, Others
  <1>4. ASSUME NEW r \in Req,
               Write(r) \/ WriteKid(r) \/ SyncRead(r) \/ Clean(r) \/ Reconciles(r)
        PROVE  Sound'
    <2>1. CASE Write(r)
      BY <1>3, <2>1, WriteStep
    <2>2. CASE WriteKid(r) \/ SyncRead(r) \/ Clean(r)
      <3>1. Refers(r)
        BY DEF Sound
      <3>2. req[r].wrote \/ req[r].op = "reconcile" \/ Exists(req[r].user)
        BY <2>2, <3>1, QuietStep DEF Refers
      <3> QED
        BY <1>3, <2>2, <3>2, QuietStep DEF SameRequest
    <2>3. CASE Reconciles(r)
      BY <1>3, <2>3, ReconcileStep DEF SameRequest
    <2> QED
      BY <1>4, <2>1, <2>2, <2>3
  <1>5. ASSUME NEW r \in Req, Commit(r)
        PROVE  Sound'
    <2>1. PICK t : t = req[r]
      OBVIOUS
    <2>2. /\ t.wrote => t.seen.phone # None
          /\ t.op \in {"enrol", "kidoff", "kidon"} => t.kid \in Kid /\ t.user \in User
      BY <1>5, <2>1, IdleTransaction DEF Typed, Shape
    <2>3. /\ t.op # "reconcile" => t.wrote \/ Exists(t.user)
          /\ t.op \in {"kidoff", "kidon"} => kids[t.kid].account = t.user
          /\ t.op = "enrol" => ~HasKid(t.kid)
          /\ t.op = "enrol" => \A q \in Others(r) : req[q].op = "enrol" => req[q].kid # t.kid
      BY <1>5, <2>1 DEF Commit, Sound, Refers
    <2>4. /\ \A u \in User : users'[u] = IF t.wrote /\ u = t.user THEN t.seen ELSE users[u]
          /\ \A k \in Kid : kids'[k].account = IF t.op = "enrol" /\ k = t.kid
                                               THEN t.user ELSE kids[k].account
          /\ \A k \in Kid :
               kids'[k].active = IF t.op \in {"enrol", "kidoff", "kidon"} /\ k = t.kid
                                 THEN t.op # "kidoff" ELSE kids[k].active
          /\ req'[r] = Idle /\ \A q \in Others(r) : req'[q] = req[q]
      BY <1>5, <2>1, CommitStep
    <2>5. \A u \in User : Exists(u) => Exists(u)'
      BY <2>2, <2>4 DEF Exists
    <2>6. \A k \in Kid : kids[k].account \in User \cup {None}
      BY DEF Typed, Profile
    <2>7. Rows'
      <3>1. \A u \in User : users'[u].active => Exists(u)'
        BY <2>2, <2>4 DEF Sound, Rows, Exists
      <3>2. \A k \in Kid : kids'[k].active => HasKid(k)'
        BY <2>2, <2>3, <2>4 DEF Sound, Rows, HasKid, AccountAssumption
      <3>3. ASSUME NEW k \in Kid, HasKid(k)'
            PROVE  Exists(kids[k].account)'
        <4>1. CASE t.op = "enrol" /\ k = t.kid
          <5>1. kids'[k].account = t.user /\ t.user \in User
            BY <2>2, <2>4, <4>1
          <5>2. Exists(t.user) => users'[t.user].phone # None
            BY <2>5, <5>1 DEF Exists
          <5>3. t.wrote => users'[t.user].phone # None
            BY <2>2, <2>4, <5>1
          <5> QED
            BY <2>3, <4>1, <5>1, <5>2, <5>3 DEF Exists
        <4>2. CASE ~(t.op = "enrol" /\ k = t.kid)
          <5>1. kids'[k].account = kids[k].account /\ HasKid(k)
            BY <2>4, <3>3, <4>2 DEF HasKid
          <5>2. kids[k].account \in User /\ Exists(kids[k].account)
            BY <2>6, <5>1 DEF Sound, Rows, HasKid
          <5>3. users'[kids[k].account].phone # None
            BY <2>5, <5>2 DEF Exists
          <5> QED
            BY <5>1, <5>3 DEF Exists
        <4> QED
          BY <4>1, <4>2
      <3> QED
        BY <3>1, <3>2, <3>3 DEF Rows
    <2>8. ASSUME NEW q \in Others(r)
          PROVE  Refers(q)'
      <3>1. PICK x : x = req[q]
        OBVIOUS
      <3>2. /\ req[q].pc # "idle" /\ x.op # "reconcile" => x.user \in User
            /\ x.op \in {"enrol", "kidoff", "kidon"} => x.kid \in Kid /\ x.user \in User
        BY <3>1, IdleTransaction DEF Typed, Shape, Others
      <3>3. Refers(q)
        BY DEF Sound, Others
      <3>4. x.op \in {"kidoff", "kidon"} => kids'[x.kid].account = x.user
        <4>1. x.op \in {"kidoff", "kidon"} => kids[x.kid].account = x.user /\ HasKid(x.kid)
          BY <3>1, <3>2, <3>3 DEF Refers, HasKid, AccountAssumption
        <4> QED
          BY <2>3, <2>4, <3>2, <4>1
      <3>5. x.op = "enrol" => kids'[x.kid].account = None
        BY <2>3, <2>4, <3>1, <3>2, <3>3 DEF Refers, HasKid
      <3>6. \A y \in Req : req'[y].op = "enrol" => req'[y] = req[y]
        BY <2>4, IdleTransaction DEF Others
      <3>7. req'[q] = x
        BY <2>4, <3>1
      <3>8. x.pc # "idle" /\ x.op # "reconcile" /\ Exists(x.user) => users'[x.user].phone # None
        BY <2>5, <3>1, <3>2 DEF Exists
      <3> QED
        BY <3>1, <3>3, <3>4, <3>5, <3>6, <3>7, <3>8, IdleTransaction
           DEF Refers, Exists, HasKid, Others, Typed, Shape
    <2>9. Refers(r)'
      BY <2>4, IdleTransaction DEF Refers
    <2> QED
      BY <2>7, <2>8, <2>9 DEF Sound, Others
  <1>6. ASSUME NEW r \in Req, Rollback(r)
        PROVE  Sound'
    <2>1. /\ UNCHANGED <<users, kids>> /\ req'[r] = Idle
          /\ \A q \in Others(r) : req'[q] = req[q]
      BY <1>6 DEF Rollback, Begin, Typed, Others
    <2>2. Refers(r)'
      BY <2>1, IdleTransaction DEF Refers
    <2> QED
      BY <1>1, <2>1, <2>2, IdleTransaction
  <1>7. CASE UNCHANGED vars
    BY <1>7 DEF vars, Sound, Rows, Refers, Exists, HasKid
  <1> QED
    BY <1>2, <1>4, <1>5, <1>6, <1>7, Steps

\* Every variable keeps its type; an active account has a number and an
\* active child an account.
THEOREM TypeCorrect ==
  ASSUME AccountAssumption
  PROVE  Spec => []TypeOK
  <1>1. Init => Typed /\ Sound
    BY TypeInit, SoundInit
  <1>2. Typed /\ Sound /\ [Next]_vars => (Typed /\ Sound)'
    BY TypeNext, SoundNext
  <1>3. Typed /\ Sound => TypeOK
    BY DEF Typed, Sound, Rows, TypeOK
  <1> QED
    BY <1>1, <1>2, <1>3, PTL DEF Spec

-----------------------------------------------------------------------------
(* One active account per phone *)

LEMMA UniqueInit ==
  ASSUME AccountAssumption, Init
  PROVE  Unique
  <1>1. PICK u \in User, f \in Phone :
          users = [v \in User |-> IF v = u THEN [phone |-> f, active |-> TRUE,
                                                 guardian |-> TRUE] ELSE NoAccount]
    BY DEF Init
  <1>2. OneActivePerPhone
    BY <1>1 DEF OneActivePerPhone, NoAccount
  <1> QED
    BY <1>2, IdleTransaction DEF Init, Unique, Holds

\* Who has not written holds nothing.
LEMMA UniqueQuiet ==
  ASSUME Unique, UNCHANGED users,
         \A q \in Req : req'[q].wrote =>
             /\ req[q].wrote /\ req'[q].seen = req[q].seen /\ req'[q].user = req[q].user
  PROVE  Unique'
  BY DEF Unique, OneActivePerPhone, Holds, PhoneAvailable, SignsIn, Others

LEMMA UniqueNext ==
  ASSUME AccountAssumption, Typed, Sound, Unique, [Next]_vars
  PROVE  Unique'
  <1>1. ASSUME NEW r \in Req, Start(r)
        PROVE  Unique'
    <2>1. PICK t : Starting(r, t)
      BY <1>1, Starts
    <2>2. UNCHANGED users /\ req'[r] = t /\ ~t.wrote /\ \A q \in Others(r) : req'[q] = req[q]
      BY <2>1 DEF Starting, Begin, Typed, Others
    <2> QED
      BY <2>2, UniqueQuiet DEF Others
  <1>2. ASSUME NEW r \in Req, WriteKid(r) \/ SyncRead(r) \/ Clean(r) \/ Reconciles(r)
        PROVE  Unique'
    BY <1>2, QuietStep, ReconcileStep, UniqueQuiet DEF SameRequest, Others
  <1>3. ASSUME NEW r \in Req, Rollback(r)
        PROVE  Unique'
    <2>1. UNCHANGED users /\ req'[r] = Idle /\ \A q \in Others(r) : req'[q] = req[q]
      BY <1>3 DEF Rollback, Begin, Typed, Others
    <2> QED
      BY <2>1, IdleTransaction, UniqueQuiet DEF Others
  <1>4. ASSUME NEW r \in Req, Write(r)
        PROVE  Unique'
    <2>1. PICK u : u = req[r].user
      OBVIOUS
    <2>2. PICK w : w = Written(r)
      OBVIOUS
    <2>3. /\ UNCHANGED users /\ req'[r].wrote /\ req'[r].seen = w /\ req'[r].user = u
          /\ \A q \in Others(r) : req'[q] = req[q]
      BY <1>4, <2>1, <2>2, WriteStep DEF SameRequest
    <2>4. /\ \A q \in Others(r) : req[q].wrote => req[q].user # u
          /\ w.active => PhoneAvailable(u, w.phone)
          /\ w.active => \A q \in Others(r) : req[q].wrote =>
                             ~(req[q].seen.active /\ req[q].seen.phone = w.phone)
      BY <1>4, <2>1, <2>2 DEF Write, RowUnlocked, KeyFree
    <2>5. OneActivePerPhone'
      BY <2>3 DEF Unique, OneActivePerPhone
    <2>6. Holds(r)'
      BY <2>3, <2>4 DEF Holds, PhoneAvailable, SignsIn
    <2>7. ASSUME NEW q \in Others(r)
          PROVE  Holds(q)'
      <3>1. Holds(q) /\ req'[q] = req[q] /\ r \in Others(q)
        BY <2>3 DEF Unique, Others
      <3> QED
        BY <2>3, <2>4, <3>1 DEF Holds, PhoneAvailable, SignsIn, Others
    <2> QED
      BY <2>5, <2>6, <2>7 DEF Unique, Others
  <1>5. ASSUME NEW r \in Req, Commit(r)
        PROVE  Unique'
    <2>1. PICK t : t = req[r]
      OBVIOUS
    <2>2. /\ \A v \in User : users'[v] = IF t.wrote /\ v = t.user THEN t.seen ELSE users[v]
          /\ req'[r] = Idle /\ \A q \in Others(r) : req'[q] = req[q]
      BY <1>5, <2>1, CommitStep
    <2>3. t.wrote /\ t.seen.active =>
             \A v \in User \ {t.user} : ~(users[v].active /\ users[v].phone = t.seen.phone)
      BY <2>1 DEF Unique, Holds, PhoneAvailable, SignsIn
    <2>4. OneActivePerPhone'
      BY <2>2, <2>3 DEF Unique, OneActivePerPhone
    <2>5. ASSUME NEW q \in Others(r), req[q].wrote
          PROVE  Holds(q)'
      <3>1. Holds(q) /\ req'[q] = req[q] /\ r \in Others(q)
        BY <2>2 DEF Unique, Others
      <3>2. \A x \in Others(q) : req'[x].wrote => req[x].wrote /\ req'[x] = req[x]
        BY <2>2, IdleTransaction DEF Others
      <3>3. req[q].seen.active =>
              \A v \in User \ {req[q].user} :
                 ~(users'[v].active /\ users'[v].phone = req[q].seen.phone)
        BY <2>1, <2>2, <2>5, <3>1 DEF Holds, PhoneAvailable, SignsIn
      <3> QED
        BY <3>1, <3>2, <3>3 DEF Holds, PhoneAvailable, SignsIn
    <2>6. \A q \in Req : ~req'[q].wrote => Holds(q)'
      BY DEF Holds
    <2>7. ~req'[r].wrote
      BY <2>2, IdleTransaction
    <2> QED
      BY <2>2, <2>4, <2>5, <2>6, <2>7 DEF Unique, Others
  <1>6. CASE UNCHANGED vars
    BY <1>6, UniqueQuiet DEF vars
  <1> QED
    BY <1>1, <1>2, <1>3, <1>4, <1>5, <1>6, Steps

\* Two requests that both found a number free do not both end up holding it:
\* the row lock and the partial unique index see to it, and no other
\* assumption is needed.
THEOREM OneActive ==
  ASSUME AccountAssumption
  PROVE  Spec => []OneActivePerPhone
  <1> DEFINE I == Typed /\ Sound /\ Unique
  <1>1. Init => I
    BY TypeInit, SoundInit, UniqueInit
  <1>2. I /\ [Next]_vars => I'
    BY TypeNext, SoundNext, UniqueNext
  <1>3. I => OneActivePerPhone
    BY DEF Unique
  <1> QED
    BY <1>1, <1>2, <1>3, PTL DEF Spec

-----------------------------------------------------------------------------
(* A parent keeps the login *)

LEMMA ApartNext ==
  ASSUME AccountAssumption, Typed, Sound, Apart, [Next]_vars
  PROVE  Apart'
  <1>1. ASSUME \A q \in Req : req'[q].pc # "idle" =>
                  req[q].pc # "idle" /\ req'[q].op = req[q].op /\ req'[q].user = req[q].user
        PROVE  Apart'
    BY <1>1 DEF Apart, Alone, Others
  <1>2. ASSUME NEW r \in Req, Start(r)
        PROVE  Apart'
    <2>1. PICK t : Starting(r, t)
      BY <1>2, Starts
    <2>2. /\ req'[r] = t /\ \A q \in Others(r) : req'[q] = req[q]
          /\ \A q \in Others(r) :
                (req[q].pc # "idle" /\ {t.op, req[q].op} \cap Solo # {}) => req[q].user # t.user
      BY <2>1 DEF Starting, Begin, Typed, Others
    <2>3. Alone(r)'
      BY <2>2 DEF Alone
    <2>4. ASSUME NEW q \in Others(r)
          PROVE  Alone(q)'
      <3>1. /\ req'[q] = req[q] /\ Alone(q)
            /\ (req[q].pc # "idle" /\ {req[q].op, t.op} \cap Solo # {}) => req[q].user # t.user
        BY <2>2 DEF Apart, Others
      <3> QED
        BY <2>2, <3>1 DEF Alone, Others
    <2> QED
      BY <2>3, <2>4 DEF Apart, Others
  <1>3. ASSUME NEW r \in Req,
               Write(r) \/ WriteKid(r) \/ SyncRead(r) \/ Clean(r) \/ Reconciles(r)
        PROVE  Apart'
    <2>1. SameRequest(r)
      BY <1>3, WriteStep, QuietStep, ReconcileStep
    <2> QED
      BY <1>1, <2>1 DEF SameRequest, Others
  <1>4. ASSUME NEW r \in Req, Commit(r) \/ Rollback(r)
        PROVE  Apart'
    <2>1. req'[r] = Idle /\ \A q \in Others(r) : req'[q] = req[q]
      BY <1>4, CommitStep DEF Rollback, Begin, Typed, Others
    <2> QED
      BY <1>1, <2>1, IdleTransaction DEF Others
  <1>5. CASE UNCHANGED vars
    BY <1>1, <1>5 DEF vars
  <1> QED
    BY <1>2, <1>3, <1>4, <1>5, Steps

LEMMA LastChildNext ==
  ASSUME AccountAssumption, Typed, Sound, Apart, LastChild, "kidoff" \in Solo, [Next]_vars
  PROVE  LastChild'
  <1>1. ASSUME UNCHANGED kids, NEW r \in Req, \A q \in Others(r) : req'[q] = req[q],
               Counted(r)'
        PROVE  LastChild'
    BY <1>1 DEF LastChild, Counted, Others
  <1>2. ASSUME NEW r \in Req, Start(r)
        PROVE  LastChild'
    <2>1. PICK t : Starting(r, t)
      BY <1>2, Starts
    <2>2. UNCHANGED kids /\ req'[r] = t /\ \A q \in Others(r) : req'[q] = req[q]
      BY <2>1 DEF Starting, Begin, Typed, Others
    <2>3. Counted(r)'
      BY <2>1, <2>2 DEF Starting, Counted, ActiveSiblings
    <2> QED
      BY <1>1, <2>2, <2>3
  <1>3. ASSUME NEW r \in Req,
               Write(r) \/ WriteKid(r) \/ SyncRead(r) \/ Clean(r) \/ Reconciles(r)
        PROVE  LastChild'
    <2>1. /\ SameRequest(r) /\ req'[r].pc # "write"
          /\ req'[r].wrote => req[r].pc = "write" \/ req[r].wrote
      BY <1>3, WriteStep, QuietStep, ReconcileStep
    <2>2. Counted(r)
      BY DEF LastChild
    <2>3. Counted(r)'
      BY <2>1, <2>2 DEF SameRequest, Counted
    <2> QED
      BY <1>1, <2>1, <2>3 DEF SameRequest
  <1>4. ASSUME NEW r \in Req, Rollback(r)
        PROVE  LastChild'
    <2>1. UNCHANGED kids /\ req'[r] = Idle /\ \A q \in Others(r) : req'[q] = req[q]
      BY <1>4 DEF Rollback, Begin, Typed, Others
    <2>2. Counted(r)'
      BY <2>1, IdleTransaction DEF Counted
    <2> QED
      BY <1>1, <2>1, <2>2
  <1>5. ASSUME NEW r \in Req, Commit(r)
        PROVE  LastChild'
    <2>1. PICK t : t = req[r]
      OBVIOUS
    <2>2. /\ \A k \in Kid : kids'[k].account = IF t.op = "enrol" /\ k = t.kid
                                               THEN t.user ELSE kids[k].account
          /\ \A k \in Kid :
               kids'[k].active = IF t.op \in {"enrol", "kidoff", "kidon"} /\ k = t.kid
                                 THEN t.op # "kidoff" ELSE kids[k].active
          /\ t.pc = "commit" /\ req'[r] = Idle /\ \A q \in Others(r) : req'[q] = req[q]
      BY <1>5, <2>1, CommitStep
    <2>3. t.op \in {"kidoff", "kidon"} => kids[t.kid].account = t.user
      BY <2>1 DEF Sound, Refers
    <2>4. Counted(r)'
      BY <2>2, IdleTransaction DEF Counted
    <2>5. ASSUME NEW q \in Others(r)
          PROVE  Counted(q)'
      <3>1. Counted(q) /\ req'[q] = req[q]
        BY <2>2 DEF LastChild, Others
      <3>2. req[q].op = "kidoff" /\ (req[q].pc = "write" \/ req[q].wrote) => req[q].user # t.user
        <4>1. req[q].wrote => req[q].pc # "idle"
          BY IdleTransaction DEF Typed, Shape, Others
        <4> QED
          BY <2>1, <2>2, <4>1 DEF Apart, Alone, Others
      <3> QED
        BY <2>2, <2>3, <3>1, <3>2 DEF Counted
    <2> QED
      BY <2>4, <2>5 DEF LastChild, Others
  <1>6. CASE UNCHANGED vars
    BY <1>6 DEF vars, LastChild, Counted
  <1> QED
    BY <1>2, <1>3, <1>4, <1>5, <1>6, Steps

LEMMA LastChildStep ==
  ASSUME AccountAssumption, Typed, Sound, Unique, LastChild, [Next]_vars, NEW r \in Req,
         NEW u, u = req[r].user, req[r].op = "kidoff", req[r].wrote, users'[u] # users[u],
         NEW k \in Kid, kids'[k].account = u
  PROVE  ~kids'[k].active
  <1>1. u \in User /\ req[r].kid \in Kid
    BY IdleTransaction DEF Typed, Shape
  <1>2. PICK q \in Req : Commit(q)
    <2>1. \A q \in Req : Start(q) => UNCHANGED users
      BY Starts DEF Starting, Begin
    <2>2. \A q \in Req : (Write(q) \/ WriteKid(q) \/ SyncRead(q) \/ Clean(q) \/ Reconciles(q))
                            => UNCHANGED users
      BY WriteStep, QuietStep, ReconcileStep DEF SameRequest
    <2> QED
      BY <2>1, <2>2, Steps DEF Rollback, Begin, vars
  <1>3. req[q].wrote /\ req[q].user = u
    BY <1>1, <1>2, CommitStep
  <1>4. q = r
    BY <1>3 DEF Unique, Holds, Others
  <1>6. Commit(r)
    BY <1>2, <1>4
  <1>7. /\ kids'[k].account = IF req[r].op = "enrol" /\ k = req[r].kid
                              THEN req[r].user ELSE kids[k].account
        /\ kids'[k].active = IF req[r].op \in {"enrol", "kidoff", "kidon"} /\ k = req[r].kid
                             THEN req[r].op # "kidoff" ELSE kids[k].active
    BY <1>6, CommitStep
  <1>5. /\ kids'[k].account = kids[k].account
        /\ k = req[r].kid => ~kids'[k].active
        /\ k # req[r].kid => kids'[k].active = kids[k].active
    BY <1>7
  <1> QED
    BY <1>5 DEF LastChild, Counted

\* Deactivating one child never closes the account of another that still
\* trains, if nothing else happens to the account meanwhile.
THEOREM ParentKept ==
  ASSUME AccountAssumption, "kidoff" \in Solo
  PROVE  Spec => ParentKeepsLogin
  <1> DEFINE I == Typed /\ Sound /\ Unique /\ Apart /\ LastChild
  <1>1. Init => I
    <2>1. Init => Apart /\ LastChild
      BY IdleTransaction DEF Init, Apart, Alone, LastChild, Counted
    <2> QED
      BY <2>1, TypeInit, SoundInit, UniqueInit
  <1>2. I /\ [Next]_vars => I'
    BY TypeNext, SoundNext, UniqueNext, ApartNext, LastChildNext
  <1> DEFINE A == \A r \in Req :
                    LET u == req[r].user IN
                    (req[r].op = "kidoff" /\ req[r].wrote /\ users'[u] # users[u]) =>
                        \A k \in Kid : kids'[k].account = u => ~kids'[k].active
  <1>3. I /\ [Next]_vars => [A]_vars
    BY LastChildStep
  <1> QED
    BY <1>1, <1>2, <1>3, PTL DEF Spec, ParentKeepsLogin

-----------------------------------------------------------------------------
(* The login index *)

\* The version that the commit of r leaves of its account.
Describes(t, f) == t.seen.active /\ t.seen.phone = f

\* What the commit of a transaction that syncs does to the index.
LEMMA CommitEntries ==
  ASSUME AccountAssumption, Typed, Unique, InStep, NEW r \in Req, Commit(r),
         req[r].op # "reconcile", req[r].mirrors
  PROVE  \A f \in Phone :
            entries'[f] = IF Describes(req[r], f) THEN req[r].user
                          ELSE IF entries[f] = req[r].user THEN None ELSE entries[f]
  <1> SUFFICES ASSUME NEW f \in Phone
               PROVE  entries'[f] = IF Describes(req[r], f) THEN req[r].user
                                    ELSE IF entries[f] = req[r].user THEN None ELSE entries[f]
    OBVIOUS
  <1>1. PICK u \in User : u = req[r].user
    BY CommitStep
  <1>2. \A v \in User : <<f, v>> \in Upserts(r) <=> v = u /\ Describes(req[r], f)
    BY <1>1 DEF Upserts, Describes
  <1>3. f \in req[r].drop <=> entries[f] = u /\ ~Describes(req[r], f)
    <2>1. Synced(r) /\ req[r].pc = "commit"
      BY DEF InStep, Commit
    <2>2. req[r].drop = Stale(r)
      BY <2>1 DEF Synced
    <2> QED
      BY <1>1, <2>2 DEF Stale, Describes
  <1>4. entries'[f] = IF \E v \in User : <<f, v>> \in Upserts(r)
                      THEN CHOOSE v \in User : <<f, v>> \in Upserts(r)
                      ELSE IF f \in req[r].drop THEN None ELSE entries[f]
    <2>1. entries' = EntriesAfter(r)
      BY CommitStep
    <2> QED
      BY <2>1 DEF EntriesAfter
  <1>5. CASE Describes(req[r], f)
    <2>1. (CHOOSE v \in User : <<f, v>> \in Upserts(r)) = u
      BY <1>2, <1>5
    <2> QED
      BY <1>1, <1>2, <1>4, <1>5, <2>1
  <1>6. CASE ~Describes(req[r], f)
    BY <1>1, <1>2, <1>3, <1>4, <1>6
  <1> QED
    BY <1>5, <1>6

\* What the commit of any other one does: nothing.
LEMMA CommitElsewhere ==
  ASSUME AccountAssumption, Typed, InStep, NEW r \in Req, Commit(r),
         req[r].op = "reconcile" \/ ~req[r].mirrors
  PROVE  /\ \A u \in User : users'[u] = users[u]
         /\ \A f \in Phone : entries'[f] = entries[f]
  <1>1. /\ req[r].op = "reconcile" => ~req[r].wrote
        /\ ~req[r].mirrors => req[r].op # "reconcile"
    BY IdleTransaction DEF Typed, Shape
  <1>2. /\ req[r].drop = {}
        /\ ~req[r].mirrors /\ req[r].wrote => req[r].seen = users[req[r].user]
    BY DEF InStep, Synced
  <1>3. \A u \in User : users'[u] = users[u]
    BY <1>1, <1>2, CommitStep
  <1>4. ASSUME NEW f \in Phone
        PROVE  entries'[f] = entries[f]
    <2>1. entries'[f] = IF \E v \in User : <<f, v>> \in Upserts(r)
                        THEN CHOOSE v \in User : <<f, v>> \in Upserts(r)
                        ELSE entries[f]
      <3>1. entries' = EntriesAfter(r)
        BY CommitStep
      <3> QED
        BY <1>2, <3>1 DEF EntriesAfter
    <2>2. CASE ~req[r].mirrors
      <3>1. \A v \in User : <<f, v>> \notin Upserts(r)
        BY <1>1, <2>2 DEF Upserts
      <3> QED
        BY <2>1, <3>1
    <2>3. CASE req[r].op = "reconcile"
      <3>1. \A v \in User : <<f, v>> \in Upserts(r) <=> SignsIn(v, f)
        <4>1. req[r].pc = "commit" /\ Synced(r)
          BY DEF Commit, InStep
        <4>2. Upserts(r) = ActiveAccounts
          BY <2>3, <4>1 DEF Upserts, Synced
        <4> QED
          BY <4>2 DEF ActiveAccounts
      <3>2. \A v \in User : SignsIn(v, f) => entries[f] = v
        BY DEF InStep, IndexFollowsAccounts
      <3>3. ASSUME NEW v \in User, SignsIn(v, f)
            PROVE  (CHOOSE x \in User : <<f, x>> \in Upserts(r)) = entries[f]
        <4>1. \A x \in User : <<f, x>> \in Upserts(r) <=> x = entries[f]
          BY <3>1, <3>2, <3>3
        <4> QED
          BY <3>1, <3>3, <4>1
      <3> QED
        BY <2>1, <3>1, <3>3
    <2> QED
      BY <2>2, <2>3
  <1> QED
    BY <1>3, <1>4

LEMMA InStepInit ==
  ASSUME AccountAssumption, Init
  PROVE  InStep
  <1>1. PICK u \in User, f \in Phone :
          /\ users = [v \in User |-> IF v = u THEN [phone |-> f, active |-> TRUE,
                                                    guardian |-> TRUE] ELSE NoAccount]
          /\ entries = [g \in Phone |-> IF g = f THEN u ELSE None]
    BY DEF Init
  <1>2. IndexFollowsAccounts
    BY <1>1 DEF IndexFollowsAccounts, SignsIn, NoAccount, AccountAssumption
  <1>3. \A r \in Req : Synced(r)
    BY IdleTransaction DEF Init, Synced, Kinds
  <1> QED
    BY <1>2, <1>3 DEF InStep

\* The tables stay as they are, and so do the other transactions.
LEMMA InStepQuiet ==
  ASSUME InStep, UNCHANGED <<users, entries>>, NEW r \in Req,
         \A q \in Others(r) : req'[q] = req[q], Synced(r)'
  PROVE  InStep'
  <1>1. IndexFollowsAccounts'
    BY DEF InStep, IndexFollowsAccounts, SignsIn
  <1>2. ASSUME NEW q \in Others(r)
        PROVE  Synced(q)'
    <2>1. Stale(q)' = Stale(q) /\ ActiveAccounts' = ActiveAccounts
      BY DEF Stale, ActiveAccounts, SignsIn
    <2> QED
      BY <2>1 DEF InStep, Synced, Others
  <1> QED
    BY <1>1, <1>2 DEF InStep, Others

LEMMA InStepStart ==
  ASSUME AccountAssumption, Solitary, Typed, Sound, InStep, NEW r \in Req, Start(r)
  PROVE  InStep'
  <1>1. PICK t : Starting(r, t)
    BY Starts
  <1>2. /\ UNCHANGED <<users, entries>> /\ req'[r] = t
        /\ \A q \in Others(r) : req'[q] = req[q]
    BY <1>1 DEF Starting, Begin, Typed, Others
  <1>3. /\ t.pc \in {"write", "kid", "sync", "read"} /\ ~t.wrote /\ t.drop = {}
        /\ t.pc = "read" <=> t.op = "reconcile"
        /\ t.pc \in {"kid", "sync"} => t.op \in Solo
        /\ ~t.mirrors => t.phone = users[t.user].phone
        /\ ~t.mirrors => t.pc = "write"
    BY <1>1 DEF Starting, Solitary, Shape, Idle
  <1>4. Synced(r)'
    BY <1>2, <1>3 DEF Synced
  <1> QED
    BY <1>2, <1>4, InStepQuiet

LEMMA InStepWrite ==
  ASSUME AccountAssumption, Typed, Sound, InStep, NEW r \in Req, Write(r)
  PROVE  InStep'
  <1>1. PICK u \in User : u = req[r].user
    BY WriteStep
  <1>2. /\ UNCHANGED <<users, entries>> /\ \A q \in Others(r) : req'[q] = req[q]
        /\ req'[r].wrote /\ req'[r].seen = Written(r) /\ req'[r].user = u
        /\ req'[r].op = req[r].op /\ req[r].op # "reconcile"
        /\ req'[r].drop = {} /\ req'[r].mirrors = req[r].mirrors
        /\ req'[r].phone = req[r].phone
        /\ req'[r].pc = "commit" <=> ~req[r].mirrors
    BY <1>1, WriteStep DEF SameRequest, InStep, Synced
  <1>3. ASSUME ~req[r].mirrors
        PROVE  req[r].phone = users[u].phone /\ Written(r) = users[u]
    <2>1. req[r].phone = users[u].phone /\ req[r].active = "keep"
      BY <1>1, <1>3, IdleTransaction DEF InStep, Synced, Typed, Shape
    <2>2. Written(r).phone # None
      BY WriteStep
    <2>3. users[u].phone # None /\ users[u] \in Account
      BY <1>1, <2>1, <2>2 DEF Written, Typed
    <2> QED
      BY <1>1, <2>1, <2>3 DEF Written, Exists, Account
  <1>4. Synced(r)'
    BY <1>1, <1>2, <1>3 DEF Synced
  <1> QED
    BY <1>2, <1>4, InStepQuiet

LEMMA InStepSync ==
  ASSUME AccountAssumption, Typed, Sound, InStep, NEW r \in Req,
         WriteKid(r) \/ SyncRead(r) \/ Clean(r)
  PROVE  InStep'
  <1>1. /\ UNCHANGED <<users, entries>> /\ \A q \in Others(r) : req'[q] = req[q]
        /\ req'[r].op = req[r].op /\ req'[r].user = req[r].user
        /\ req'[r].wrote = req[r].wrote /\ req'[r].mirrors = req[r].mirrors
        /\ req'[r].phone = req[r].phone
        /\ req[r].pc \in {"kid", "sync", "clean"}
        /\ req'[r].pc \in {"sync", "clean", "insert", "commit"}
    BY QuietStep DEF SameRequest
  <1>2. /\ Synced(r) /\ req[r].mirrors
    BY <1>1 DEF InStep, Synced
  <1>3. CASE Clean(r)
    <2>1. /\ req'[r].pc = IF req[r].op = "reconcile" THEN "insert" ELSE "commit"
          /\ req'[r].drop = Stale(r) /\ req'[r].seen = req[r].seen
          /\ req[r].pc = "clean"
      BY <1>3, QuietStep DEF Clean
    <2>2. Stale(r)' = Stale(r)
      BY <1>1, <2>1 DEF Stale, SignsIn
    <2>3. req[r].op = "reconcile" => Stale(r) = {}
      BY DEF Stale, InStep, IndexFollowsAccounts
    <2>4. Synced(r)'
      BY <1>1, <1>2, <2>1, <2>2, <2>3 DEF Synced
    <2> QED
      BY <1>1, <2>4, InStepQuiet
  <1>4. CASE ~Clean(r)
    <2>1. req[r].pc \in {"kid", "sync"}
      BY <1>4 DEF WriteKid, SyncRead
    <2>2. /\ req'[r].pc \in {"sync", "clean"} /\ req'[r].drop = {}
          /\ req'[r].pc = "clean" /\ ~req[r].wrote => req'[r].seen = users[req[r].user]
      BY <1>2, <1>4, <2>1, QuietStep DEF Synced
    <2>3. Synced(r)'
      BY <1>1, <1>2, <2>1, <2>2 DEF Synced
    <2> QED
      BY <1>1, <2>3, InStepQuiet
  <1> QED
    BY <1>3, <1>4

LEMMA InStepReconcile ==
  ASSUME AccountAssumption, Typed, InStep, NEW r \in Req, Reconciles(r)
  PROVE  InStep'
  <1>1. /\ UNCHANGED <<users, entries>> /\ \A q \in Others(r) : req'[q] = req[q]
        /\ req'[r].op = "reconcile" /\ req[r].op = "reconcile"
        /\ req'[r].mirrors /\ req'[r].drop = req[r].drop
        /\ req'[r].pc = "commit" => req'[r].rows = ActiveAccounts
    BY ReconcileStep DEF SameRequest
  <1>2. ActiveAccounts' = ActiveAccounts
    BY <1>1 DEF ActiveAccounts, SignsIn
  <1>3. req'[r].drop = {}
    BY <1>1 DEF InStep, Synced
  <1>4. Synced(r)'
    BY <1>1, <1>2, <1>3 DEF Synced
  <1> QED
    BY <1>1, <1>4, InStepQuiet

LEMMA InStepCommit ==
  ASSUME AccountAssumption, Solitary, Typed, Sound, Unique, Apart, InStep,
         NEW r \in Req, Commit(r)
  PROVE  InStep'
  <1>1. req[r].pc = "commit" /\ req'[r] = Idle /\ \A q \in Others(r) : req'[q] = req[q]
    BY CommitStep
  <1>2. Synced(r)'
    BY <1>1, IdleTransaction DEF Synced
  <1>3. CASE req[r].op = "reconcile" \/ ~req[r].mirrors
    <2>1. /\ \A u \in User : users'[u] = users[u]
          /\ \A f \in Phone : entries'[f] = entries[f]
      BY <1>3, CommitElsewhere
    <2>2. /\ \A f \in Phone : entries[f] \in User \cup {None}
          /\ \A q \in Req : req[q].op \in Kinds \ {"reconcile"} => req[q].user \in User
          /\ \A q \in Req : ~req[q].mirrors => req[q].user \in User
      <3>1. ASSUME NEW q \in Req
            PROVE  /\ req[q].op \in Kinds \ {"reconcile"} => req[q].user \in User
                   /\ ~req[q].mirrors => req[q].user \in User
        <4>1. Shape(req[q])
          BY DEF Typed
        <4>2. PICK t : t = req[q]
          OBVIOUS
        <4>3. "none" \notin Kinds
          BY DEF Kinds
        <4>4. CASE t = Idle
          BY <4>2, <4>3, <4>4, IdleTransaction
        <4>5. CASE t # Idle
          BY <4>1, <4>2, <4>5 DEF Shape
        <4> QED
          BY <4>4, <4>5
      <3> QED
        BY <3>1 DEF Typed
    <2>3. IndexFollowsAccounts'
      BY <2>1, <2>2 DEF InStep, IndexFollowsAccounts, SignsIn
    <2>4. ASSUME NEW q \in Others(r)
          PROVE  Synced(q)'
      <3>1. Synced(q) /\ req'[q] = req[q] /\ q \in Req
        BY <1>1 DEF InStep, Others
      <3>2. Stale(q)' = Stale(q)
        <4>2. \A f \in Phone : entries[f] # None =>
                 (SignsIn(entries[f], f)' <=> SignsIn(entries[f], f))
          <5>1. ASSUME NEW f \in Phone, entries[f] # None
                PROVE  SignsIn(entries[f], f)' <=> SignsIn(entries[f], f)
            <6>1. PICK u \in User : u = entries[f] /\ u = entries'[f]
              BY <2>1, <2>2, <5>1
            <6> QED
              BY <2>1, <6>1 DEF SignsIn
          <5> QED
            BY <5>1
        <4>3. CASE req[q].op = "reconcile"
          BY <2>1, <3>1, <4>2, <4>3 DEF Stale
        <4>4. CASE req[q].op # "reconcile"
          BY <2>1, <3>1, <4>4 DEF Stale
        <4> QED
          BY <4>3, <4>4
      <3>3. ActiveAccounts' = ActiveAccounts
        BY <2>1 DEF ActiveAccounts, SignsIn
      <3> QED
        BY <2>1, <2>2, <3>1, <3>2, <3>3 DEF Synced
    <2> QED
      BY <1>2, <2>3, <2>4 DEF InStep, Others
  <1>4. CASE req[r].op # "reconcile" /\ req[r].mirrors
    <2>1. PICK u \in User : u = req[r].user
      BY <1>4, CommitStep
    <2>2. PICK t : t = req[r]
      OBVIOUS
    <2>3. t.op \in Kinds \ {"reconcile"} /\ t.seen \in Account
      BY <1>1, <1>4, <2>2, IdleTransaction DEF Typed, Shape, Transaction
    <2>4. ~t.wrote => t.seen = users[u] /\ t.op \in Solo
      BY <1>1, <2>1, <2>2, <2>3 DEF InStep, Synced
    <2>5. \A v \in User : users'[v] = IF v = u THEN t.seen ELSE users[v]
      BY <2>1, <2>2, <2>4, CommitStep
    <2>6. \A f \in Phone : entries'[f] = IF Describes(t, f) THEN u
                                         ELSE IF entries[f] = u THEN None ELSE entries[f]
      BY <1>4, <2>1, <2>2, CommitEntries
    <2>7. \A f \in Phone, v \in User \ {u} : SignsIn(v, f) => ~Describes(t, f)
      <3>1. t.wrote => \A f \in Phone, v \in User \ {u} : SignsIn(v, f) => ~Describes(t, f)
        BY <2>1, <2>2 DEF Unique, Holds, PhoneAvailable, SignsIn, Describes
      <3>2. ~t.wrote => \A f \in Phone, v \in User \ {u} : SignsIn(v, f) => ~Describes(t, f)
        BY <2>4 DEF Unique, OneActivePerPhone, SignsIn, Describes
      <3> QED
        BY <3>1, <3>2
    <2>8. \A f \in Phone : entries[f] \in User \cup {None}
      BY DEF Typed
    <2>9. \A f \in Phone : /\ SignsIn(u, f)' <=> Describes(t, f)
                           /\ \A v \in User \ {u} : SignsIn(v, f)' <=> SignsIn(v, f)
      BY <2>5 DEF SignsIn, Describes
    <2>10. IndexFollowsAccounts'
      <3>1. ASSUME NEW f \in Phone, NEW e, e = entries'[f], e # None
            PROVE  SignsIn(e, f)'
        <4>1. CASE Describes(t, f)
          BY <2>6, <2>9, <3>1, <4>1
        <4>2. CASE ~Describes(t, f)
          <5>1. e = entries[f] /\ e \in User \ {u}
            BY <2>6, <2>8, <3>1, <4>2
          <5>2. SignsIn(e, f)
            BY <3>1, <5>1 DEF InStep, IndexFollowsAccounts
          <5> QED
            BY <2>9, <5>1, <5>2
        <4> QED
          BY <4>1, <4>2
      <3>2. ASSUME NEW f \in Phone, NEW v \in User, SignsIn(v, f)'
            PROVE  entries'[f] = v
        <4>1. CASE v = u
          BY <2>6, <2>9, <3>2, <4>1
        <4>2. CASE v # u
          <5>1. SignsIn(v, f) /\ ~Describes(t, f)
            BY <2>7, <2>9, <3>2, <4>2
          <5>2. entries[f] = v
            BY <5>1 DEF InStep, IndexFollowsAccounts
          <5> QED
            BY <2>6, <4>2, <5>1, <5>2
        <4> QED
          BY <4>1, <4>2
      <3>3. \A f \in Phone : entries'[f] # None => SignsIn(entries[f], f)'
        BY <3>1
      <3> QED
        BY <3>2, <3>3 DEF IndexFollowsAccounts
    <2>11. ASSUME NEW q \in Others(r)
           PROVE  Synced(q)'
      <3>1. PICK x : x = req[q]
        OBVIOUS
      <3>2. /\ Synced(q) /\ Alone(r) /\ req'[q] = x /\ q \in Req
            /\ x.op \in Kinds \ {"reconcile"} /\ x.pc # "idle" => x.user \in User
            /\ ~x.mirrors => x.op = "rephone" /\ x.pc # "idle" /\ x.user \in User
            /\ x.op \in Kinds => x.pc # "idle"
        BY <1>1, <3>1, IdleTransaction DEF InStep, Apart, Typed, Shape, Others, Kinds
      <3>3. x.op \in Solo /\ x.pc # "idle" => x.user # u
        BY <1>1, <2>1, <3>1, <3>2 DEF Alone
      <3>4. ~x.mirrors => x.user # u
        BY <3>2, <3>3 DEF Solitary
      <3>5. x.op \in Kinds \ {"reconcile"} /\ ~x.wrote /\ x.pc \in {"clean", "commit"} =>
               x.user # u /\ x.seen = users'[x.user]
        <4>1. x.op \in Kinds \ {"reconcile"} /\ ~x.wrote /\ x.pc \in {"clean", "commit"} =>
                 x.op \in Solo /\ x.seen = users[x.user] /\ x.user \in User
          BY <3>1, <3>2 DEF Synced
        <4> QED
          BY <2>5, <3>3, <4>1
      <3>6. ~x.mirrors => users'[x.user] = users[x.user]
        BY <2>5, <3>2, <3>4
      <3>7. x.pc = "commit" /\ x.op # "reconcile" /\ x.mirrors => x.drop = Stale(q)'
        <4> SUFFICES ASSUME x.pc = "commit", x.op # "reconcile", x.mirrors
                     PROVE  x.drop = Stale(q)'
          OBVIOUS
        <4>1. x.op \in Kinds \ {"reconcile"} /\ x.user \in User
          BY <3>1, <3>2, IdleTransaction DEF Typed, Shape
        <4>2. x.user # u
          <5>1. CASE ~x.wrote
            BY <3>5, <4>1, <5>1
          <5>2. CASE x.wrote /\ t.wrote
            BY <2>1, <2>2, <3>1, <5>2 DEF Unique, Holds
          <5>3. CASE ~t.wrote
            BY <1>1, <2>1, <2>2, <2>4, <3>1, <3>2, <4>1, <5>3 DEF Alone
          <5> QED
            BY <5>1, <5>2, <5>3
        <4>3. \A f \in Phone : entries[f] = x.user => SignsIn(x.user, f)
          BY <4>1 DEF InStep, IndexFollowsAccounts, AccountAssumption
        <4>4. \A f \in Phone : entries'[f] = x.user <=> entries[f] = x.user
          BY <2>6, <2>7, <4>1, <4>2, <4>3, AccountAssumption DEF AccountAssumption
        <4>5. Stale(q)' = Stale(q)
          BY <3>1, <3>2, <4>4 DEF Stale
        <4> QED
          BY <3>1, <3>2, <4>5 DEF Synced
      <3>8. x.op = "reconcile" /\ x.pc = "commit" => ActiveAccounts' = ActiveAccounts
        <4> SUFFICES ASSUME x.op = "reconcile", x.pc = "commit"
                     PROVE  ActiveAccounts' = ActiveAccounts
          OBVIOUS
        <4>1. ~t.wrote
          BY <2>2, <3>1 DEF Commit, Undisturbed, Solitary
        <4>2. \A v \in User : users'[v] = users[v]
          BY <2>4, <2>5, <4>1
        <4> QED
          BY <4>2 DEF ActiveAccounts, SignsIn
      <3> QED
        BY <3>1, <3>2, <3>5, <3>6, <3>7, <3>8 DEF Synced
    <2> QED
      BY <1>2, <2>10, <2>11 DEF InStep, Others
  <1> QED
    BY <1>3, <1>4

LEMMA InStepNext ==
  ASSUME AccountAssumption, Solitary, Typed, Sound, Unique, Apart, InStep, [Next]_vars
  PROVE  InStep'
  <1>1. ASSUME NEW r \in Req, Rollback(r)
        PROVE  InStep'
    <2>1. /\ UNCHANGED <<users, entries>> /\ req'[r] = Idle
          /\ \A q \in Others(r) : req'[q] = req[q]
      BY <1>1 DEF Rollback, Begin, Typed, Others
    <2>2. Synced(r)'
      BY <2>1, IdleTransaction DEF Synced, Kinds
    <2> QED
      BY <2>1, <2>2, InStepQuiet
  <1>2. CASE UNCHANGED vars
    <2>1. UNCHANGED <<users, entries, req>>
      BY <1>2 DEF vars
    <2>2. \A q \in Req : Stale(q)' = Stale(q)
      BY <2>1 DEF Stale, SignsIn
    <2>3. ActiveAccounts' = ActiveAccounts
      BY <2>1 DEF ActiveAccounts, SignsIn
    <2> QED
      BY <2>1, <2>2, <2>3 DEF InStep, IndexFollowsAccounts, SignsIn, Synced
  <1> QED
    BY <1>1, <1>2, InStepStart, InStepWrite, InStepSync, InStepReconcile, InStepCommit, Steps

\* The login index says what the accounts say, where a request that may sync
\* from a row it has not locked meets no other on its account, and no account
\* changes while the INSERT of a reconciliation runs.
THEOREM IndexFollows ==
  ASSUME AccountAssumption, Solitary
  PROVE  Spec => []IndexFollowsAccounts
  <1> DEFINE I == Typed /\ Sound /\ Unique /\ Apart /\ InStep
  <1>1. Init => I
    <2>1. Init => Apart
      BY IdleTransaction DEF Init, Apart, Alone
    <2> QED
      BY <2>1, TypeInit, SoundInit, UniqueInit, InStepInit
  <1>2. I /\ [Next]_vars => I'
    BY TypeNext, SoundNext, UniqueNext, ApartNext, InStepNext
  <1>3. I => IndexFollowsAccounts
    BY DEF InStep
  <1> QED
    BY <1>1, <1>2, <1>3, PTL DEF Spec
=============================================================================

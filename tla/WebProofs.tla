----------------------------- MODULE WebProofs ------------------------------
(***************************************************************************)
(* What TLAPS proves about the browser.                                    *)
(*                                                                         *)
(* Of BrowserSession, for any number of tabs, users, branches and requests *)
(* in flight: its types, that a signed-in tab has its next refresh before  *)
(* it, and, when changes of the session keep apart, that the cookies speak *)
(* for one session and a tab is served for what it shows.                  *)
(*                                                                         *)
(* Of Screens, for every page of Pages and any number of loads and         *)
(* handlers in flight: that a revoked privilege is not served from the     *)
(* cache of the instance that revoked it, that rows are made once, that    *)
(* handlers say what happened, that the view settles, and that what a page *)
(* shows is served.                                                        *)
(***************************************************************************)
EXTENDS BrowserSession, Screens, TLAPS

-----------------------------------------------------------------------------
(* Types, and the next refresh *)

\* A request in flight belongs to a tab, and a login carries a token.
Shape(x) ==
    /\ x.kind # "none" => x.tab \in Tab
    /\ x.kind = "login" => x.carried \in Token

Refreshes(x, t) == x.kind = "refresh" /\ x.tab = t

\* While a page load waits for its refresh the tab sends no other.
Typed ==
    /\ TypeOK
    /\ \A q \in Req : Shape(req[q])
    /\ \A t \in Tab, q \in Req :
          tab[t].boot # None /\ Refreshes(req[q], t) => req[q].why = "boot"

LEMMA Constructors ==
  /\ SignedOut \in TabState /\ SignedOut.user = None /\ SignedOut.boot = None
  /\ ~SignedOut.refreshing
  /\ NoRequest \in Request /\ Shape(NoRequest) /\ NoRequest.kind = "none"
  /\ None \notin Token /\ None \notin Tab
  BY SessionAssumption, TokenAssumption
  DEF SignedOut, TabState, NoRequest, Request, Shape, Kinds, Changes, SessionAssumption

\* A step that gives tab t and request q other records.
LEMMA RefreshStep ==
  ASSUME Typed, KeepsRefreshing,
         NEW t \in Tab, NEW q \in Req, NEW v \in TabState, NEW x \in Request,
         tab' = [tab EXCEPT ![t] = v], req' = [req EXCEPT ![q] = x],
         Shape(x),
         \A u \in Tab \ {t} : Refreshes(req[q], u) \/ Refreshes(x, u) => x = req[q],
         v.boot # None => /\ v.refreshing /\ tab[t].boot # None
                          /\ Refreshes(x, t) => x.why = "boot",
         v.refreshing => \/ Refreshes(x, t)
                         \/ tab[t].refreshing /\ ~Refreshes(req[q], t),
         v.user # None => v.timer \/ v.refreshing \/ t \in failed',
         jar' \in [access : Token \cup {None}, refresh : Token \cup {None}],
         stored' \in Token \cup {None},
         moved' \subseteq Tab, failed' \subseteq Tab, failed \ {t} \subseteq failed'
  PROVE  Typed' /\ KeepsRefreshing'
  <1>1. tab \in [Tab -> TabState] /\ req \in [Req -> Request]
    BY DEF Typed, TypeOK
  <1>2. tab' \in [Tab -> TabState] /\ req' \in [Req -> Request]
    BY <1>1
  <1>3. /\ tab'[t] = v /\ req'[q] = x
        /\ \A u \in Tab : u # t => tab'[u] = tab[u]
        /\ \A p \in Req : p # q => req'[p] = req[p]
    BY <1>1
  <1>4. ASSUME NEW u \in Tab, tab'[u].refreshing
        PROVE  \E p \in InFlight({"refresh"})' : req'[p].tab = u
    <2> SUFFICES \E p \in Req : Refreshes(req'[p], u)
      BY DEF InFlight, Refreshes
    <2>1. CASE u = t /\ Refreshes(x, t)
      BY <1>3, <2>1
    <2>2. CASE u = t /\ ~Refreshes(x, t)
      <3>1. tab[u].refreshing /\ ~Refreshes(req[q], u)
        BY <1>3, <1>4, <2>2
      <3>2. PICK p \in Req : Refreshes(req[p], u)
        BY <3>1 DEF Typed, TypeOK, InFlight, Refreshes
      <3> QED
        BY <1>3, <3>1, <3>2
    <2>3. CASE u # t
      <3>1. tab[u].refreshing
        BY <1>3, <1>4, <2>3
      <3>2. PICK p \in Req : Refreshes(req[p], u)
        BY <3>1 DEF Typed, TypeOK, InFlight, Refreshes
      <3>3. Refreshes(req'[p], u)
        <4>1. CASE p = q
          BY <1>3, <2>3, <3>2, <4>1
        <4>2. CASE p # q
          BY <1>3, <3>2, <4>2
        <4> QED
          BY <4>1, <4>2
      <3> QED
        BY <3>3
    <2> QED
      BY <2>1, <2>2, <2>3
  <1>5. \A u \in Tab : tab'[u].boot # None => tab'[u].refreshing
    BY <1>3 DEF Typed, TypeOK
  <1>6. \A p \in Req : Shape(req'[p])
    BY <1>3 DEF Typed
  <1>8. ASSUME NEW u \in Tab, NEW p \in Req, tab'[u].boot # None, Refreshes(req'[p], u)
        PROVE  req'[p].why = "boot"
    <2>1. CASE u = t /\ p = q
      BY <1>3, <1>8, <2>1
    <2>2. CASE u = t /\ p # q
      BY <1>3, <1>8, <2>2 DEF Typed
    <2>3. CASE u # t /\ p = q
      BY <1>3, <1>8, <2>3 DEF Typed
    <2>4. CASE u # t /\ p # q
      BY <1>3, <1>8, <2>4 DEF Typed
    <2> QED
      BY <2>1, <2>2, <2>3, <2>4
  <1>7. KeepsRefreshing'
    BY <1>3 DEF KeepsRefreshing
  <1> QED
    BY <1>2, <1>4, <1>5, <1>6, <1>7, <1>8 DEF Typed, TypeOK

Inv == Typed /\ KeepsRefreshing

\* What the invariant says of one tab and one request.
LEMMA InvAt ==
  ASSUME Inv, NEW t \in Tab, NEW q \in Req
  PROVE  /\ tab[t] \in TabState /\ req[q] \in Request /\ Shape(req[q])
         /\ tab[t].boot # None => tab[t].refreshing
         /\ tab[t].user # None => tab[t].timer \/ tab[t].refreshing \/ t \in failed
         /\ jar \in [access : Token \cup {None}, refresh : Token \cup {None}]
         /\ stored \in Token \cup {None} /\ moved \subseteq Tab /\ failed \subseteq Tab
  BY DEF Inv, Typed, TypeOK, KeepsRefreshing

\* A request that a tab sends.
LEMMA SentType ==
  ASSUME NEW t \in Tab, NEW kind \in Kinds, NEW carried \in Token \cup {None},
         NEW why \in {"boot", "timer", "fetch", "none"},
         kind = "login" => carried \in Token
  PROVE  LET x == [kind |-> kind, tab |-> t, why |-> why, carried |-> carried]
         IN  x \in Request /\ Shape(x) /\ (x.kind = "refresh" <=> kind = "refresh")
             /\ x.tab = t
  BY DEF Request, Shape, Kinds, Changes

\* A step that only gives a request another record, which is no refresh.
LEMMA QuietStep ==
  ASSUME Inv, NEW q \in Req, NEW x \in Request, Shape(x),
         x.kind # "refresh", req[q].kind # "refresh",
         UNCHANGED <<jar, stored, tab, moved, failed>>, req' = [req EXCEPT ![q] = x]
  PROVE  Inv'
  <1>1. req' \in [Req -> Request]
    BY DEF Inv, Typed, TypeOK
  <1>2. /\ req'[q] = x /\ \A p \in Req : p # q => req'[p] = req[p]
        /\ \A u \in Tab : ~Refreshes(req[q], u) /\ ~Refreshes(x, u)
    BY DEF Inv, Typed, TypeOK, Refreshes
  <1>3. ASSUME NEW u \in Tab, tab[u].refreshing
        PROVE  \E p \in InFlight({"refresh"})' : req'[p].tab = u
    <2>1. PICK p \in Req : Refreshes(req[p], u)
      BY <1>3 DEF Inv, Typed, TypeOK, InFlight, Refreshes
    <2>2. Refreshes(req'[p], u)
      BY <1>2, <2>1
    <2> QED
      BY <2>2 DEF InFlight, Refreshes
  <1>4. TypeOK'
    BY <1>1, <1>3 DEF Inv, Typed, TypeOK
  <1>5. \A p \in Req : Shape(req'[p])
    BY <1>2 DEF Inv, Typed
  <1>6. ASSUME NEW u \in Tab, NEW p \in Req, tab'[u].boot # None, Refreshes(req'[p], u)
        PROVE  req'[p].why = "boot"
    BY <1>2, <1>6 DEF Inv, Typed
  <1>7. KeepsRefreshing'
    BY DEF Inv, KeepsRefreshing
  <1> QED
    BY <1>4, <1>5, <1>6, <1>7 DEF Inv, Typed

\* login, logout and switchBranch.
LEMMA ChangeInv ==
  ASSUME Inv, NEW q \in Req, NEW t \in Tab,
         \/ \E u \in User : Login(q, t, u)
         \/ Logout(q, t)
         \/ \E b \in Branch : SwitchBranch(q, t, b)
  PROVE  Inv'
  <1>0. /\ tab[t] \in TabState /\ req[q] \in Request
        /\ tab[t].boot # None => tab[t].refreshing
        /\ tab[t].user # None => tab[t].timer \/ tab[t].refreshing \/ t \in failed
        /\ jar \in [access : Token \cup {None}, refresh : Token \cup {None}]
        /\ stored \in Token \cup {None} /\ moved \subseteq Tab /\ failed \subseteq Tab
        /\ Typed /\ KeepsRefreshing
    BY InvAt DEF Inv
  <1>1. ASSUME NEW u \in User, Login(q, t, u) PROVE Inv'
    <2> DEFINE token == [user |-> u, branch |-> Home[u]]
               x == [kind |-> "login", tab |-> t, why |-> "none", carried |-> token]
    <2>1. token \in Token
      BY SessionAssumption DEF SessionAssumption, Token
    <2>2. x \in Request /\ Shape(x) /\ x.kind # "refresh"
      BY <2>1, SentType DEF Kinds, Changes
    <2>3. /\ req[q].kind # "refresh" /\ req' = [req EXCEPT ![q] = x] /\ tab' = tab
          /\ UNCHANGED <<jar, stored, moved, failed>>
      BY <1>1, Constructors DEF Login, Sent
    <2> HIDE DEF x
    <2> QED
      BY <2>2, <2>3, QuietStep
  <1>2. CASE Logout(q, t)
    <2> DEFINE x == [kind |-> "logout", tab |-> t, why |-> "none", carried |-> None]
               v == [tab[t] EXCEPT !.user = None, !.timer = FALSE, !.switching = FALSE]
    <2>1. v \in TabState /\ v.user = None /\ v.boot = tab[t].boot
             /\ v.refreshing = tab[t].refreshing
      BY <1>0 DEF TabState
    <2>2. x \in Request /\ Shape(x) /\ x.kind # "refresh"
      BY SentType DEF Kinds, Changes
    <2>3. /\ req[q] = NoRequest /\ req' = [req EXCEPT ![q] = x]
          /\ tab' = [tab EXCEPT ![t] = v] /\ stored' = None
          /\ UNCHANGED <<jar, moved, failed>>
      BY <1>2 DEF Logout, Sent
    <2>4. \A u \in Tab : ~Refreshes(req[q], u) /\ ~Refreshes(x, u)
      BY <2>2, <2>3, Constructors DEF Refreshes
    <2> HIDE DEF x, v
    <2> QED
      BY <1>0, <2>1, <2>2, <2>3, <2>4, RefreshStep DEF Inv
  <1>3. ASSUME NEW b \in Branch, SwitchBranch(q, t, b) PROVE Inv'
    <2> DEFINE token == IF jar.access = None THEN None
                        ELSE [user |-> jar.access.user, branch |-> b]
               x == [kind |-> "switch", tab |-> t, why |-> "none", carried |-> token]
               v == [tab[t] EXCEPT !.switching = TRUE]
    <2>1. v \in TabState /\ v.user = tab[t].user /\ v.boot = tab[t].boot
             /\ v.refreshing = tab[t].refreshing /\ v.timer = tab[t].timer
      BY <1>0 DEF TabState
    <2>2. token \in Token \cup {None}
      BY <1>0 DEF Token
    <2>3. x \in Request /\ Shape(x) /\ x.kind # "refresh"
      <3> HIDE DEF token
      <3> QED
        BY <2>2, SentType DEF Kinds, Changes
    <2>4. /\ req[q] = NoRequest /\ req' = [req EXCEPT ![q] = x]
          /\ tab' = [tab EXCEPT ![t] = v]
          /\ UNCHANGED <<jar, stored, moved, failed>>
      BY <1>3 DEF SwitchBranch, Sent
    <2>5. \A u \in Tab : ~Refreshes(req[q], u) /\ ~Refreshes(x, u)
      BY <2>3, <2>4, Constructors DEF Refreshes
    <2>6. /\ jar' \in [access : Token \cup {None}, refresh : Token \cup {None}]
          /\ stored' \in Token \cup {None}
          /\ moved' \subseteq Tab /\ failed' \subseteq Tab /\ failed \ {t} \subseteq failed'
          /\ v.user # None => v.timer \/ v.refreshing \/ t \in failed'
          /\ v.boot # None => v.refreshing /\ tab[t].boot # None
      BY <1>0, <2>1, <2>4
    <2> HIDE DEF x, v
    <2> QED
      BY <1>0, <2>1, <2>3, <2>4, <2>5, <2>6, RefreshStep DEF Inv
  <1> QED
    BY <1>1, <1>2, <1>3

\* The request of a tab whose answer has come in.
LEMMA OwnRequest ==
  ASSUME Inv, NEW q \in Req, req[q].kind # "none"
  PROVE  /\ req[q].tab \in Tab
         /\ \A u \in Tab : Refreshes(req[q], u) => u = req[q].tab
         /\ tab[req[q].tab] \in TabState
  BY DEF Inv, Typed, TypeOK, Shape, Refreshes

\* Answers to login, logout and switchBranch.
LEMMA AnswerInv ==
  ASSUME Inv, NEW q \in Req,
         LoginAnswered(q) \/ LogoutAnswered(q) \/ SwitchAnswered(q)
  PROVE  Inv'
  <1> DEFINE t == req[q].tab
             token == req[q].carried
  <1>1. req[q].kind \in Changes
    BY DEF LoginAnswered, LogoutAnswered, SwitchAnswered, Changes
  <1>2. /\ t \in Tab /\ tab[t] \in TabState /\ req[q] \in Request
        /\ tab[t].boot # None => tab[t].refreshing
        /\ tab[t].user # None => tab[t].timer \/ tab[t].refreshing \/ t \in failed
        /\ jar \in [access : Token \cup {None}, refresh : Token \cup {None}]
        /\ stored \in Token \cup {None} /\ moved \subseteq Tab /\ failed \subseteq Tab
        /\ \A u \in Tab : ~Refreshes(req[q], u) /\ ~Refreshes(NoRequest, u)
        /\ req[q].kind = "login" => token \in Token
        /\ token \in Token \cup {None}
        /\ Typed /\ KeepsRefreshing
    <2>1. req[q].kind # "none" /\ req[q].kind # "refresh"
      BY <1>1 DEF Changes
    <2>2. /\ t \in Tab /\ tab[t] \in TabState
          /\ \A u \in Tab : ~Refreshes(req[q], u) /\ ~Refreshes(NoRequest, u)
      BY <2>1, OwnRequest, Constructors DEF Refreshes
    <2>3. req[q] \in Request /\ Shape(req[q])
      BY <2>1, <2>2, InvAt
    <2>4. token \in Token \cup {None} /\ (req[q].kind = "login" => token \in Token)
      BY <2>3 DEF Request, Shape
    <2> QED
      BY <2>2, <2>3, <2>4, InvAt DEF Inv
  <1>3. CASE LoginAnswered(q)
    <2> DEFINE v == [tab[t] EXCEPT !.user = token, !.timer = TRUE]
    <2>1. /\ token \in Token /\ req' = [req EXCEPT ![q] = NoRequest]
          /\ jar' = [access |-> token, refresh |-> token] /\ stored' = token
          /\ tab' = [tab EXCEPT ![t].user = token, ![t].timer = TRUE]
          /\ moved' = (moved \cup Tab) \ {t} /\ failed' = failed \ {t}
      BY <1>2, <1>3 DEF LoginAnswered, Ended
    <2>2. v \in TabState /\ v.timer /\ v.boot = tab[t].boot
             /\ v.refreshing = tab[t].refreshing
      BY <1>2, <2>1 DEF TabState
    <2>3. tab' = [tab EXCEPT ![t] = v]
      BY <1>2, <2>1 DEF Typed, TypeOK, TabState
    <2>4. jar' \in [access : Token \cup {None}, refresh : Token \cup {None}]
      BY <2>1
    <2>5. moved' \subseteq Tab /\ failed' \subseteq Tab /\ failed \ {t} \subseteq failed'
      BY <1>2, <2>1
    <2>6. stored' \in Token \cup {None}
      BY <2>1
    <2>7. v.boot # None => v.refreshing /\ tab[t].boot # None
      BY <1>2, <2>2
    <2> HIDE DEF v, t, token
    <2> QED
      BY <1>2, <2>1, <2>2, <2>3, <2>4, <2>5, <2>6, <2>7, Constructors, RefreshStep DEF Inv
  <1>4. CASE LogoutAnswered(q)
    <2>1. /\ req' = [req EXCEPT ![q] = NoRequest]
          /\ jar' = [access |-> None, refresh |-> None]
          /\ tab' = [tab EXCEPT ![t] = tab[t]]
          /\ UNCHANGED <<stored, moved, failed>>
      BY <1>2, <1>4 DEF LogoutAnswered, Ended, Typed, TypeOK
    <2>2. jar' \in [access : Token \cup {None}, refresh : Token \cup {None}]
      BY <2>1
    <2> HIDE DEF t, token
    <2> QED
      BY <1>2, <2>1, <2>2, Constructors, RefreshStep DEF Inv
  <1>5. CASE SwitchAnswered(q)
    <2> DEFINE showing == IF tab[t].user = None THEN None
                        ELSE [tab[t].user EXCEPT !.branch = token.branch]
               v == [tab[t] EXCEPT !.user = showing, !.timer = TRUE]
    <2>1. /\ token \in Token /\ req' = [req EXCEPT ![q] = NoRequest]
          /\ jar' = [access |-> token, refresh |-> token]
          /\ stored' = IF showing = None THEN stored ELSE showing
          /\ tab' = [tab EXCEPT ![t].user = showing, ![t].timer = TRUE]
          /\ moved' = moved \cup (Tab \ {t}) /\ failed' = failed \ {t}
      BY <1>2, <1>5 DEF SwitchAnswered, SwitchCookies, Ended
    <2>2. showing \in Token \cup {None}
      <3>1. tab[t].user \in Token \cup {None} /\ token \in Token
        BY <1>2, <2>1 DEF TabState
      <3> QED
        BY <3>1 DEF Token
    <2>3. stored' \in Token \cup {None}
      <3> HIDE DEF showing
      <3> QED
        BY <1>2, <2>1, <2>2
    <2> HIDE DEF showing
    <2>4. v \in TabState /\ v.timer /\ v.boot = tab[t].boot
             /\ v.refreshing = tab[t].refreshing
      BY <1>2, <2>2 DEF TabState
    <2>5. tab' = [tab EXCEPT ![t] = v]
      BY <1>2, <2>1 DEF Typed, TypeOK, TabState
    <2>6. jar' \in [access : Token \cup {None}, refresh : Token \cup {None}]
      BY <2>1
    <2>7. moved' \subseteq Tab /\ failed' \subseteq Tab /\ failed \ {t} \subseteq failed'
      BY <1>2, <2>1
    <2>8. v.boot # None => v.refreshing /\ tab[t].boot # None
      BY <1>2, <2>4
    <2>9. req' = [req EXCEPT ![q] = NoRequest]
      BY <2>1
    <2> HIDE DEF v, t, token
    <2> QED
      BY <1>2, <2>3, <2>4, <2>5, <2>6, <2>7, <2>8, <2>9, Constructors, RefreshStep DEF Inv
  <1> QED
    BY <1>3, <1>4, <1>5

\* What a tab becomes once a refresh of its own has ended.
LEMMA BootedType ==
  ASSUME Inv, NEW q \in Req, req[q].kind = "refresh"
  PROVE  /\ Booted(q, req[q].tab) \in TabState
         /\ Booted(q, req[q].tab).boot = None
         /\ ~Booted(q, req[q].tab).refreshing
         /\ Booted(q, req[q].tab).timer = tab[req[q].tab].timer
  <1> DEFINE t == req[q].tab
  <1>1. t \in Tab /\ tab[t] \in TabState
    BY OwnRequest
  <1>2. tab[t].boot # None => req[q].why = "boot"
    BY <1>1 DEF Inv, Typed, Refreshes
  <1> QED
    BY <1>1, <1>2 DEF Booted, TabState

\* A refresh ends.
LEMMA RefreshInv ==
  ASSUME Inv, NEW q \in Req, RefreshAnswered(q) \/ RefreshRefused(q)
  PROVE  Inv'
  <1> DEFINE t == req[q].tab
             b == Booted(q, t)
  <1>1. req[q].kind = "refresh"
    BY DEF RefreshAnswered, RefreshRefused
  <1>2. /\ t \in Tab /\ tab[t] \in TabState /\ req[q] \in Request
        /\ jar \in [access : Token \cup {None}, refresh : Token \cup {None}]
        /\ stored \in Token \cup {None} /\ moved \subseteq Tab /\ failed \subseteq Tab
        /\ Typed /\ KeepsRefreshing
    BY <1>1, OwnRequest, InvAt DEF Inv
  <1>3. b \in TabState /\ b.boot = None /\ ~b.refreshing
    BY <1>1, BootedType
  <1>4. \A u \in Tab \ {t} : ~Refreshes(req[q], u)
    BY DEF Refreshes
  <1>5. CASE RefreshAnswered(q)
    <2> DEFINE token == req[q].carried
               v == [b EXCEPT !.timer = TRUE]
               retry == [kind |-> "retry", tab |-> t, why |-> "none", carried |-> token]
               x == IF req[q].why = "fetch" THEN retry ELSE NoRequest
    <2>1. /\ token # None /\ jar' = [jar EXCEPT !.access = token]
          /\ tab' = [tab EXCEPT ![t] = v] /\ req' = [req EXCEPT ![q] = x]
          /\ failed' = failed \ {t} /\ UNCHANGED <<stored, moved>>
      BY <1>5 DEF RefreshAnswered, RefreshedToken, Sent, Ended
    <2>2. token \in Token
      BY <1>2, <2>1 DEF Request
    <2>3. v \in TabState /\ v.boot = None /\ v.timer /\ ~v.refreshing
      <3> HIDE DEF b
      <3> QED
        BY <1>3 DEF TabState
    <2>4. retry \in Request /\ Shape(retry) /\ retry.kind # "refresh"
      BY <1>2, <2>2, SentType DEF Kinds, Changes
    <2>5. x \in Request /\ Shape(x) /\ \A u \in Tab : ~Refreshes(x, u)
      BY <2>4, Constructors DEF Refreshes
    <2>6. /\ jar' \in [access : Token \cup {None}, refresh : Token \cup {None}]
          /\ stored' \in Token \cup {None}
          /\ moved' \subseteq Tab /\ failed' \subseteq Tab /\ failed \ {t} \subseteq failed'
      BY <1>2, <2>1, <2>2
    <2> HIDE DEF x, v, t, b, token
    <2> QED
      BY <1>2, <1>4, <2>1, <2>3, <2>5, <2>6, RefreshStep DEF Inv
  <1>6. CASE RefreshRefused(q)
    <2>1. /\ tab' = [tab EXCEPT ![t] = SignedOut] /\ req' = [req EXCEPT ![q] = NoRequest]
          /\ stored' = None /\ UNCHANGED <<jar, moved, failed>>
      BY <1>6 DEF RefreshRefused, Ended
    <2>2. \A u \in Tab : ~Refreshes(NoRequest, u)
      BY Constructors DEF Refreshes
    <2>3. /\ jar' \in [access : Token \cup {None}, refresh : Token \cup {None}]
          /\ stored' \in Token \cup {None}
          /\ moved' \subseteq Tab /\ failed' \subseteq Tab /\ failed \ {t} \subseteq failed'
      BY <1>2, <2>1
    <2> HIDE DEF t, b
    <2> QED
      BY <1>2, <1>4, <2>1, <2>2, <2>3, Constructors, RefreshStep DEF Inv
  <1> QED
    BY <1>5, <1>6

\* A request ends in an error, its cookies having arrived or not.
LEMMA ErrorInv ==
  ASSUME Inv, NEW q \in Req, RequestFails(q) \/ BodyLost(q)
  PROVE  Inv'
  <1> DEFINE t == req[q].tab
             v == CASE req[q].kind = "refresh" -> Booted(q, t)
                    [] req[q].kind = "switch" -> [tab[t] EXCEPT !.switching = FALSE]
                    [] OTHER -> tab[t]
  <1>1. req[q].kind # "none"
    BY SessionAssumption
    DEF RequestFails, BodyLost, SessionAssumption
  <1>2. /\ t \in Tab /\ tab[t] \in TabState /\ req[q] \in Request
        /\ tab[t].boot # None => tab[t].refreshing
        /\ tab[t].user # None => tab[t].timer \/ tab[t].refreshing \/ t \in failed
        /\ jar \in [access : Token \cup {None}, refresh : Token \cup {None}]
        /\ stored \in Token \cup {None} /\ moved \subseteq Tab /\ failed \subseteq Tab
        /\ Typed /\ KeepsRefreshing
    BY <1>1, OwnRequest, InvAt DEF Inv
  <1>3. /\ tab' = [tab EXCEPT ![t] = v] /\ req' = [req EXCEPT ![q] = NoRequest]
        /\ failed' = IF req[q].kind = "refresh" THEN failed \cup {t} ELSE failed
        /\ UNCHANGED <<stored, moved>>
    BY DEF RequestFails, BodyLost, AfterError, Ended
  <1>4. v \in TabState /\ (v.boot # None => v.refreshing /\ tab[t].boot # None)
        /\ (v.refreshing => tab[t].refreshing /\ req[q].kind # "refresh")
        /\ (v.user # None => v.timer \/ v.refreshing \/ t \in failed')
    <2>1. CASE req[q].kind = "refresh"
      <3>1. v = Booted(q, t)
        BY <2>1
      <3> QED
        BY <2>1, <3>1, <1>2, <1>3, BootedType
    <2>2. CASE req[q].kind = "switch"
      <3>1. v = [tab[t] EXCEPT !.switching = FALSE]
        BY <2>2
      <3> HIDE DEF v
      <3> QED
        BY <2>2, <3>1, <1>2, <1>3 DEF TabState
    <2>3. CASE req[q].kind # "refresh" /\ req[q].kind # "switch"
      <3>1. v = tab[t]
        BY <2>3
      <3> HIDE DEF v
      <3> QED
        BY <2>3, <3>1, <1>2, <1>3
    <2> QED
      BY <2>1, <2>2, <2>3
  <1>5. jar' \in [access : Token \cup {None}, refresh : Token \cup {None}]
    <2>1. CASE RequestFails(q)
      BY <1>2, <2>1 DEF RequestFails
    <2>2. CASE BodyLost(q)
      <3>1. req[q].carried \in Token
        BY <1>2, <2>2 DEF BodyLost, Request
      <3> QED
        BY <1>2, <2>2, <3>1 DEF BodyLost, RefreshedToken
    <2> QED
      BY <2>1, <2>2
  <1>6. /\ \A u \in Tab : ~Refreshes(NoRequest, u)
        /\ \A u \in Tab \ {t} : ~Refreshes(req[q], u)
        /\ v.refreshing => tab[t].refreshing /\ ~Refreshes(req[q], t)
    BY <1>4, Constructors DEF Refreshes
  <1>7. /\ stored' \in Token \cup {None}
        /\ moved' \subseteq Tab /\ failed' \subseteq Tab /\ failed \ {t} \subseteq failed'
    BY <1>2, <1>3
  <1> HIDE DEF v, t
  <1> QED
    BY <1>2, <1>3, <1>4, <1>5, <1>6, <1>7, Constructors, RefreshStep DEF Inv

\* The refresh a timer, a page load or an unanswered fetch sends.
LEMMA RefreshRequest ==
  ASSUME Inv, NEW t \in Tab, NEW why \in {"boot", "timer", "fetch"}
  PROVE  LET x == [kind |-> "refresh", tab |-> t, why |-> why, carried |-> jar.refresh]
         IN  x \in Request /\ Shape(x) /\ x.why = why /\ Refreshes(x, t)
             /\ \A u \in Tab \ {t} : ~Refreshes(x, u)
  <1>1. jar.refresh \in Token \cup {None}
    BY DEF Inv, Typed, TypeOK
  <1> QED
    BY <1>1 DEF Request, Shape, Kinds, Changes, Refreshes

LEMMA TimerInv ==
  ASSUME Inv, NEW q \in Req, NEW t \in Tab, TimerFires(q, t)
  PROVE  Inv'
  <1>1. /\ tab[t] \in TabState /\ req[q] \in Request /\ Shape(req[q])
        /\ tab[t].boot # None => tab[t].refreshing
        /\ jar \in [access : Token \cup {None}, refresh : Token \cup {None}]
        /\ stored \in Token \cup {None} /\ moved \subseteq Tab /\ failed \subseteq Tab
        /\ Typed /\ KeepsRefreshing
    BY InvAt DEF Inv
  <1>2. UNCHANGED <<jar, stored, moved, failed>>
    BY DEF TimerFires
  <1>3. /\ jar' \in [access : Token \cup {None}, refresh : Token \cup {None}]
        /\ stored' \in Token \cup {None}
        /\ moved' \subseteq Tab /\ failed' \subseteq Tab /\ failed \ {t} \subseteq failed'
    BY <1>1, <1>2
  <1>4. CASE tab[t].refreshing
    <2> DEFINE v == [tab[t] EXCEPT !.timer = FALSE]
    <2>1. /\ v \in TabState /\ v.refreshing /\ v.boot = tab[t].boot
      BY <1>1, <1>4 DEF TabState
    <2>2. tab' = [tab EXCEPT ![t] = v] /\ req' = [req EXCEPT ![q] = req[q]]
      BY <1>1, <1>4 DEF TimerFires, Typed, TypeOK
    <2>3. Refreshes(req[q], t) /\ tab[t].boot # None => req[q].why = "boot"
      BY <1>1 DEF Typed
    <2> HIDE DEF v
    <2> QED
      BY <1>1, <1>3, <1>4, <2>1, <2>2, <2>3, RefreshStep DEF Inv
  <1>5. CASE ~tab[t].refreshing
    <2> DEFINE v == [tab[t] EXCEPT !.timer = FALSE, !.refreshing = TRUE]
               x == [kind |-> "refresh", tab |-> t, why |-> "timer", carried |-> jar.refresh]
    <2>1. /\ v \in TabState /\ v.refreshing /\ v.boot = None
      BY <1>1, <1>5 DEF TabState
    <2>2. /\ tab' = [tab EXCEPT ![t] = v] /\ req' = [req EXCEPT ![q] = x]
          /\ req[q] = NoRequest
      BY <1>5 DEF TimerFires, Sent
    <2>3. /\ x \in Request /\ Shape(x) /\ Refreshes(x, t)
          /\ \A u \in Tab \ {t} : ~Refreshes(x, u)
      BY RefreshRequest
    <2>4. \A u \in Tab : ~Refreshes(req[q], u)
      BY <2>2, Constructors DEF Refreshes
    <2> HIDE DEF v, x
    <2> QED
      BY <1>1, <1>3, <2>1, <2>2, <2>3, <2>4, RefreshStep DEF Inv
  <1> QED
    BY <1>4, <1>5

LEMMA FetchInv ==
  ASSUME Inv, NEW q \in Req,
         \/ \E t \in Tab : Fetch(q, t)
         \/ FetchAnswered(q)
         \/ FetchBounced(q)
  PROVE  Inv'
  <1>0. /\ jar \in [access : Token \cup {None}, refresh : Token \cup {None}]
        /\ stored \in Token \cup {None} /\ moved \subseteq Tab /\ failed \subseteq Tab
        /\ UNCHANGED <<jar, stored, moved, failed>>
        /\ Typed /\ KeepsRefreshing
    BY DEF Inv, Typed, TypeOK, Fetch, FetchAnswered, FetchBounced
  <1>1. /\ jar' \in [access : Token \cup {None}, refresh : Token \cup {None}]
        /\ stored' \in Token \cup {None}
        /\ moved' \subseteq Tab /\ failed' = failed /\ failed' \subseteq Tab
    BY <1>0
  <1>3. ASSUME NEW t \in Tab, Fetch(q, t) PROVE Inv'
    <2> DEFINE x == [kind |-> "fetch", tab |-> t, why |-> "none", carried |-> jar.access]
    <2>1. x \in Request /\ Shape(x) /\ x.kind # "refresh"
      BY <1>0, SentType DEF Kinds, Changes
    <2>2. req[q].kind # "refresh" /\ tab' = tab /\ req' = [req EXCEPT ![q] = x]
      BY <1>3, Constructors DEF Fetch, Sent
    <2> HIDE DEF x
    <2> QED
      BY <1>0, <2>1, <2>2, QuietStep
  <1>4. CASE FetchAnswered(q)
    <2>1. req[q].kind \notin {"refresh", "none"} /\ tab' = tab /\ req' = [req EXCEPT ![q] = NoRequest]
      BY <1>4 DEF FetchAnswered, Ended
    <2>2. req[q].tab \in Tab
      BY <2>1, OwnRequest
    <2> QED
      BY <1>0, <2>1, <2>2, Constructors, QuietStep
  <1>5. CASE FetchBounced(q)
    <2> DEFINE t == req[q].tab
    <2>1. req[q].kind = "fetch"
      BY <1>5 DEF FetchBounced
    <2>2. /\ t \in Tab /\ tab[t] \in TabState
          /\ tab[t].boot # None => tab[t].refreshing
          /\ \A u \in Tab : ~Refreshes(req[q], u)
      BY <2>1, OwnRequest, InvAt DEF Refreshes
    <2>3. CASE tab[t].refreshing
      <3> DEFINE x == [kind |-> "retry", tab |-> t, why |-> "none", carried |-> jar.access]
      <3>1. x \in Request /\ Shape(x) /\ x.kind # "refresh"
        BY <1>0, <2>2, SentType DEF Kinds, Changes
      <3>2. tab' = tab /\ req' = [req EXCEPT ![q] = x]
        BY <1>5, <2>3 DEF FetchBounced, Sent
      <3> HIDE DEF x, t
      <3> QED
        BY <1>0, <2>1, <2>2, <3>1, <3>2, QuietStep
    <2>4. CASE ~tab[t].refreshing
      <3> DEFINE x == [kind |-> "refresh", tab |-> t, why |-> "fetch", carried |-> jar.refresh]
                 v == [tab[t] EXCEPT !.refreshing = TRUE]
      <3>1. /\ x \in Request /\ Shape(x) /\ Refreshes(x, t)
            /\ \A u \in Tab \ {t} : ~Refreshes(x, u)
        BY <2>2, RefreshRequest
      <3>2. tab' = [tab EXCEPT ![t] = v] /\ req' = [req EXCEPT ![q] = x]
        BY <1>5, <2>2, <2>4 DEF FetchBounced, Sent, TabState
      <3>3. v \in TabState /\ v.refreshing /\ v.boot = None
        BY <2>2, <2>4 DEF TabState
      <3>4. failed \ {t} \subseteq failed'
        BY <1>1
      <3> HIDE DEF x, v, t
      <3> QED
        BY <1>0, <1>1, <2>2, <3>1, <3>2, <3>3, <3>4, RefreshStep DEF Inv
    <2> QED
      BY <2>3, <2>4
  <1> QED
    BY <1>3, <1>4, <1>5

\* A page load drops the requests of the old page and may send a refresh.
LEMMA ReloadInv ==
  ASSUME Inv, NEW q \in Req, NEW t \in Tab, Reload(q, t)
  PROVE  Inv'
  <1> DEFINE kept == [p \in Req |-> IF req[p].tab = t THEN NoRequest ELSE req[p]]
             boots == stored # None
             x == [kind |-> "refresh", tab |-> t, why |-> "boot", carried |-> jar.refresh]
             v == [SignedOut EXCEPT !.boot = stored, !.refreshing = boots]
  <1>1. /\ jar \in [access : Token \cup {None}, refresh : Token \cup {None}]
        /\ stored \in Token \cup {None} /\ moved \subseteq Tab /\ failed \subseteq Tab
        /\ tab \in [Tab -> TabState] /\ req \in [Req -> Request]
    BY DEF Inv, Typed, TypeOK
  <1>2. /\ tab' = [tab EXCEPT ![t] = v]
        /\ kept[q] = NoRequest
        /\ req' = IF boots THEN [kept EXCEPT ![q] = x] ELSE kept
        /\ moved' = moved \ {t} /\ failed' = failed \ {t} /\ UNCHANGED <<jar, stored>>
    BY DEF Reload
  <1>3. v \in TabState /\ v.user = None /\ v.boot = stored /\ v.refreshing = boots
    BY <1>1 DEF SignedOut, TabState
  <1>4. /\ x \in Request /\ Shape(x) /\ x.why = "boot" /\ Refreshes(x, t)
        /\ \A u \in Tab \ {t} : ~Refreshes(x, u)
    BY RefreshRequest
  <1>5. /\ \A p \in Req : kept[p] \in Request /\ Shape(kept[p]) /\ ~Refreshes(kept[p], t)
        /\ \A p \in Req, u \in Tab : Refreshes(kept[p], u) => kept[p] = req[p]
        /\ \A p \in Req, u \in Tab \ {t} : Refreshes(req[p], u) => kept[p] = req[p]
    BY <1>1, Constructors DEF Inv, Typed, Refreshes
  <1>6. kept \in [Req -> Request]
    BY <1>5
  <1> HIDE DEF x, v, kept
  <1>7. /\ tab' \in [Tab -> TabState] /\ req' \in [Req -> Request]
        /\ tab'[t] = v /\ \A u \in Tab \ {t} : tab'[u] = tab[u]
        /\ \A p \in Req : req'[p] = kept[p] \/ (boots /\ p = q /\ req'[p] = x)
        /\ \A p \in Req : p # q => req'[p] = kept[p]
        /\ boots => req'[q] = x
    BY <1>1, <1>2, <1>3, <1>4, <1>6
  <1>8. \A p \in Req : Shape(req'[p])
    BY <1>4, <1>5, <1>7
  <1>9. ASSUME NEW u \in Tab, tab'[u].refreshing
        PROVE  \E p \in InFlight({"refresh"})' : req'[p].tab = u
    <2> SUFFICES \E p \in Req : Refreshes(req'[p], u)
      BY DEF InFlight, Refreshes
    <2>1. CASE u = t
      BY <1>3, <1>4, <1>7, <1>9, <2>1
    <2>2. CASE u # t
      <3>1. PICK p \in Req : Refreshes(req[p], u)
        BY <1>7, <1>9, <2>2 DEF Inv, Typed, TypeOK, InFlight, Refreshes
      <3>2. kept[p] = req[p]
        BY <1>5, <2>2, <3>1
      <3>3. p # q
        BY <1>2, <3>1, <3>2, Constructors DEF Refreshes
      <3> QED
        BY <1>7, <3>1, <3>2, <3>3
    <2> QED
      BY <2>1, <2>2
  <1>10. ASSUME NEW u \in Tab, tab'[u].boot # None
         PROVE  tab'[u].refreshing
    <2>1. CASE u = t
      BY <1>3, <1>7, <1>10, <2>1
    <2>2. CASE u # t
      BY <1>7, <1>10, <2>2 DEF Inv, Typed, TypeOK
    <2> QED
      BY <2>1, <2>2
  <1>11. ASSUME NEW u \in Tab, NEW p \in Req, tab'[u].boot # None, Refreshes(req'[p], u)
         PROVE  req'[p].why = "boot"
    <2>1. CASE u = t
      BY <1>4, <1>5, <1>7, <1>11, <2>1
    <2>2. CASE u # t
      <3>1. req'[p] = kept[p] /\ tab'[u] = tab[u]
        BY <1>4, <1>7, <1>11, <2>2
      <3>2. req'[p] = req[p]
        BY <1>5, <1>11, <3>1
      <3> QED
        BY <1>11, <3>1, <3>2 DEF Inv, Typed
    <2> QED
      BY <2>1, <2>2
  <1>12. /\ jar' \in [access : Token \cup {None}, refresh : Token \cup {None}]
         /\ stored' \in Token \cup {None} /\ moved' \subseteq Tab /\ failed' \subseteq Tab
    BY <1>1, <1>2
  <1>13. KeepsRefreshing'
    BY <1>2, <1>3, <1>7 DEF Inv, KeepsRefreshing
  <1> QED
    BY <1>7, <1>8, <1>9, <1>10, <1>11, <1>12, <1>13 DEF Inv, Typed, TypeOK

\* Steps that leave the tabs and the requests alone.
LEMMA CookieInv ==
  ASSUME Inv, CookieExpires \/ UNCHANGED vars
  PROVE  Inv'
  <1>1. UNCHANGED <<stored, tab, req, moved, failed>>
    BY DEF CookieExpires, vars
  <1>2. jar' \in [access : Token \cup {None}, refresh : Token \cup {None}]
    BY DEF Inv, Typed, TypeOK, CookieExpires, vars
  <1>3. TypeOK'
    BY <1>1, <1>2 DEF Inv, Typed, TypeOK, InFlight
  <1> QED
    BY <1>1, <1>3 DEF Inv, Typed, KeepsRefreshing

LEMMA InvInit == Init => Inv
  <1> SUFFICES ASSUME Init PROVE Inv
    OBVIOUS
  <1>1. \A t \in Tab : tab[t] = SignedOut
    BY DEF Init
  <1>2. \A q \in Req : req[q] = NoRequest
    BY DEF Init
  <1>3. TypeOK
    BY <1>1, Constructors DEF Init, TypeOK
  <1> QED
    BY <1>1, <1>2, <1>3, Constructors DEF Inv, Typed, KeepsRefreshing, Refreshes

LEMMA InvNext == Inv /\ [Next]_vars => Inv'
  <1> SUFFICES ASSUME Inv, [Next]_vars PROVE Inv'
    OBVIOUS
  <1>1. ASSUME NEW q \in Req, NEW t \in Tab,
               \/ \E u \in User : Login(q, t, u)
               \/ \E b \in Branch : SwitchBranch(q, t, b)
               \/ Logout(q, t) \/ TimerFires(q, t) \/ Reload(q, t) \/ Fetch(q, t)
        PROVE  Inv'
    BY <1>1, ChangeInv, TimerInv, ReloadInv, FetchInv
  <1>2. ASSUME NEW q \in Req,
               \/ LoginAnswered(q) \/ LogoutAnswered(q) \/ SwitchAnswered(q)
               \/ RefreshAnswered(q) \/ RefreshRefused(q)
               \/ FetchAnswered(q) \/ FetchBounced(q)
               \/ RequestFails(q) \/ BodyLost(q)
        PROVE  Inv'
    BY <1>2, AnswerInv, RefreshInv, FetchInv, ErrorInv
  <1>3. CASE CookieExpires \/ UNCHANGED vars
    BY <1>3, CookieInv
  <1> QED
    BY <1>1, <1>2, <1>3 DEF Next

\* The variables always have the shapes they should, and a page load that
\* shows nothing yet has its refresh in flight.
THEOREM TypeCorrect == Spec => []TypeOK
  <1>1. Inv => TypeOK
    BY DEF Inv, Typed
  <1> QED
    BY <1>1, InvInit, InvNext, PTL DEF Spec

\* A signed-in tab always has its next refresh before it, unless its last one
\* ended in an error: for any number of tabs and any overlap of requests.
THEOREM RefreshAhead == Spec => []KeepsRefreshing
  <1>1. Inv => KeepsRefreshing
    BY DEF Inv
  <1> QED
    BY <1>1, InvInit, InvNext, PTL DEF Spec

-----------------------------------------------------------------------------
(* The branch survives a refresh *)

\* Requests that neither change nor refresh the session.
Idle(x) == x.kind \notin Changes \cup {"refresh"}

\* A change of the session is in flight alone, and a refresh in flight carries
\* the refresh token of the jar, if that is still there.
Separate ==
    /\ \A p, q \in Req : p # q /\ req[p].kind \in Changes => Idle(req[q])
    /\ \A q \in Req : req[q].kind = "refresh" /\ req[q].carried # None
                       => jar.refresh \in {None, req[q].carried}

OneSession == Separate /\ BranchSurvives

LEMMA IdleNoRequest == Idle(NoRequest)
  BY Constructors DEF Idle, NoRequest, Changes

\* The jar stays, and nothing but idle requests is sent.
LEMMA IdleSession ==
  ASSUME OneSession, jar' = jar,
         \A p \in Req : req'[p] = req[p] \/ Idle(req'[p])
  PROVE  OneSession'
  <1>1. \A p \in Req : Idle(req'[p]) => req'[p].kind \notin Changes /\ req'[p].kind # "refresh"
    BY DEF Idle
  <1>2. Separate'
    BY <1>1 DEF OneSession, Separate
  <1> QED
    BY <1>2 DEF OneSession, BranchSurvives

\* A refresh is sent while no change is in flight.
LEMMA RefreshSent ==
  ASSUME OneSession, jar' = jar, NEW q \in Req,
         req'[q].kind = "refresh", req'[q].carried = jar.refresh,
         \A p \in Req : p # q => req'[p] = req[p] \/ Idle(req'[p]),
         InFlight(Changes) = {}
  PROVE  OneSession'
  <1>1. \A p \in Req : req'[p].kind \notin Changes
    BY DEF InFlight, Idle, Changes
  <1>2. ASSUME NEW p \in Req, req'[p].kind = "refresh", req'[p].carried # None
        PROVE  jar'.refresh \in {None, req'[p].carried}
    BY <1>2 DEF OneSession, Separate, Idle
  <1>3. Separate'
    BY <1>1, <1>2 DEF Separate
  <1> QED
    BY <1>3 DEF OneSession, BranchSurvives

\* A change is sent while neither a change nor a refresh is in flight.
LEMMA ChangeSent ==
  ASSUME OneSession, jar' = jar, NEW q \in Req, req'[q].kind \in Changes,
         \A p \in Req : p # q => req'[p] = req[p],
         InFlight(Changes \cup {"refresh"}) = {}
  PROVE  OneSession'
  <1>1. \A p \in Req : p # q => Idle(req'[p])
    BY DEF InFlight, Idle
  <1>2. \A p \in Req : req'[p].kind # "refresh"
    BY <1>1 DEF Idle, Changes
  <1>3. \A p \in Req : req'[p].kind \in Changes => p = q
    BY <1>1 DEF Idle
  <1>4. Separate'
    BY <1>1, <1>2, <1>3 DEF Separate
  <1> QED
    BY <1>4 DEF OneSession, BranchSurvives

\* The answer to a change sets both cookies.
LEMMA ChangeAnswered ==
  ASSUME OneSession, NEW q \in Req, req[q].kind \in Changes,
         jar'.access = jar'.refresh,
         \A p \in Req : req'[p] = req[p] \/ Idle(req'[p])
  PROVE  OneSession'
  <1>0. "refresh" \notin Changes
    BY DEF Changes
  <1>1. \A p \in Req : req'[p].kind # "refresh"
    BY <1>0 DEF OneSession, Separate, Idle
  <1>2. Separate'
    BY <1>1 DEF OneSession, Separate, Idle
  <1> QED
    BY <1>2 DEF OneSession, BranchSurvives

\* The answer to a refresh sets the access cookie from the token it carried.
LEMMA RefreshSetsAccess ==
  ASSUME OneSession, NEW q \in Req, req[q].kind = "refresh", req[q].carried # None,
         jar \in [access : Token \cup {None}, refresh : Token \cup {None}],
         jar' = [jar EXCEPT !.access = req[q].carried],
         \A p \in Req : req'[p] = req[p] \/ Idle(req'[p])
  PROVE  OneSession'
  <1>1. jar'.access = req[q].carried /\ jar'.refresh = jar.refresh
    OBVIOUS
  <1>2. jar.refresh \in {None, req[q].carried}
    BY DEF OneSession, Separate
  <1>3. Separate'
    BY <1>1 DEF OneSession, Separate, Idle
  <1> QED
    BY <1>1, <1>2, <1>3 DEF OneSession, BranchSurvives

\* The records of the requests after a step that replaces one.
LEMMA Replaced ==
  ASSUME Inv, NEW q \in Req, NEW x, req' = [req EXCEPT ![q] = x]
  PROVE  req'[q] = x /\ \A p \in Req : p # q => req'[p] = req[p]
  BY DEF Inv, Typed, TypeOK

LEMMA OneSessionInit == Init => OneSession
  BY Constructors DEF Init, OneSession, Separate, BranchSurvives, Changes

LEMMA OneSessionSent ==
  ASSUME Apart, Inv, OneSession, NEW q \in Req, NEW t \in Tab,
         \/ \E u \in User : Login(q, t, u)
         \/ \E b \in Branch : SwitchBranch(q, t, b)
         \/ Logout(q, t)
  PROVE  OneSession'
  <1>1. ASSUME NEW kind \in Changes, NEW carried, Admitted(kind), jar' = jar,
               req' = Sent(q, t, kind, "none", carried)
        PROVE  OneSession'
    <2> DEFINE x == [kind |-> kind, tab |-> t, why |-> "none", carried |-> carried]
    <2>1. InFlight(Changes \cup {"refresh"}) = {}
      BY <1>1 DEF Admitted
    <2>2. req' = [req EXCEPT ![q] = x] /\ x.kind = kind
      BY <1>1 DEF Sent
    <2>3. req'[q].kind \in Changes /\ \A p \in Req : p # q => req'[p] = req[p]
      <3> HIDE DEF x
      <3> QED
        BY <2>2, Replaced
    <2> QED
      BY <1>1, <2>1, <2>3, ChangeSent
  <1>2. "login" \in Changes /\ "logout" \in Changes /\ "switch" \in Changes
    BY DEF Changes
  <1>3. ASSUME NEW u \in User, Login(q, t, u) PROVE OneSession'
    BY <1>1, <1>2, <1>3 DEF Login
  <1>4. ASSUME NEW b \in Branch, SwitchBranch(q, t, b) PROVE OneSession'
    BY <1>1, <1>2, <1>4 DEF SwitchBranch
  <1>5. ASSUME Logout(q, t) PROVE OneSession'
    BY <1>1, <1>2, <1>5 DEF Logout
  <1> QED
    BY <1>3, <1>4, <1>5

LEMMA OneSessionTab ==
  ASSUME Apart, Inv, OneSession, NEW q \in Req, NEW t \in Tab,
         TimerFires(q, t) \/ Reload(q, t) \/ Fetch(q, t)
  PROVE  OneSession'
  <1>1. jar' = jar
    BY DEF TimerFires, Reload, Fetch
  <1>2. "refresh" \notin Changes
    BY DEF Changes
  <1>3. CASE TimerFires(q, t)
    <2> DEFINE x == [kind |-> "refresh", tab |-> t, why |-> "timer", carried |-> jar.refresh]
    <2>1. CASE tab[t].refreshing
      BY <1>1, <1>3, <2>1, IdleSession DEF TimerFires
    <2>2. CASE ~tab[t].refreshing
      <3>1. InFlight(Changes) = {} /\ req' = [req EXCEPT ![q] = x]
        BY <1>2, <1>3, <2>2 DEF TimerFires, Admitted, Sent
      <3>2. x.kind = "refresh" /\ x.carried = jar.refresh
        OBVIOUS
      <3> HIDE DEF x
      <3> QED
        BY <1>1, <3>1, <3>2, Replaced, RefreshSent
    <2> QED
      BY <2>1, <2>2
  <1>4. CASE Reload(q, t)
    <2> DEFINE kept == [p \in Req |-> IF req[p].tab = t THEN NoRequest ELSE req[p]]
               x == [kind |-> "refresh", tab |-> t, why |-> "boot", carried |-> jar.refresh]
    <2>1. \A p \in Req : kept[p] = req[p] \/ Idle(kept[p])
      BY IdleNoRequest
    <2>2. CASE stored # None
      <3>1. InFlight(Changes) = {} /\ req' = [kept EXCEPT ![q] = x]
        BY <1>2, <1>4, <2>2 DEF Reload, Admitted
      <3>2. /\ x.kind = "refresh" /\ x.carried = jar.refresh
            /\ \E S : kept \in [Req -> S]
        <4>1. kept \in [Req -> {kept[p] : p \in Req}]
          OBVIOUS
        <4> QED
          BY <4>1
      <3> HIDE DEF x, kept
      <3>3. req'[q] = x /\ \A p \in Req : p # q => req'[p] = kept[p]
        BY <3>1, <3>2
      <3> QED
        BY <1>1, <2>1, <3>1, <3>2, <3>3, RefreshSent
    <2>3. CASE stored = None
      <3>1. req' = kept
        BY <1>4, <2>3 DEF Reload
      <3> HIDE DEF kept
      <3> QED
        BY <1>1, <2>1, <3>1, IdleSession
    <2> QED
      BY <2>2, <2>3
  <1>5. CASE Fetch(q, t)
    <2> DEFINE x == [kind |-> "fetch", tab |-> t, why |-> "none", carried |-> jar.access]
    <2>1. req' = [req EXCEPT ![q] = x]
      BY <1>5 DEF Fetch, Sent
    <2>2. Idle(x)
      BY DEF Idle, Changes
    <2> HIDE DEF x
    <2> QED
      BY <1>1, <2>1, <2>2, Replaced, IdleSession
  <1> QED
    BY <1>3, <1>4, <1>5

LEMMA OneSessionAnswer ==
  ASSUME Inv, OneSession, NEW q \in Req,
         LoginAnswered(q) \/ LogoutAnswered(q) \/ SwitchAnswered(q)
  PROVE  OneSession'
  <1>1. req[q].kind \in Changes /\ req' = [req EXCEPT ![q] = NoRequest]
    BY DEF LoginAnswered, LogoutAnswered, SwitchAnswered, Changes, Ended
  <1>2. jar'.access = jar'.refresh
    <2>1. PICK token : jar' = [access |-> token, refresh |-> token]
      BY DEF LoginAnswered, LogoutAnswered, SwitchAnswered, SwitchCookies
    <2> QED
      BY <2>1
  <1> QED
    BY <1>1, <1>2, IdleNoRequest, Replaced, ChangeAnswered

LEMMA OneSessionRefresh ==
  ASSUME Inv, OneSession, NEW q \in Req, RefreshAnswered(q) \/ RefreshRefused(q)
  PROVE  OneSession'
  <1>1. CASE RefreshAnswered(q)
    <2> DEFINE retry == [kind |-> "retry", tab |-> req[q].tab, why |-> "none",
                         carried |-> req[q].carried]
               x == IF req[q].why = "fetch" THEN retry ELSE NoRequest
    <2>1. /\ req[q].kind = "refresh" /\ req[q].carried # None
          /\ jar' = [jar EXCEPT !.access = req[q].carried]
          /\ req' = [req EXCEPT ![q] = x]
      BY <1>1 DEF RefreshAnswered, RefreshedToken, Sent, Ended
    <2>2. Idle(x)
      BY IdleNoRequest DEF Idle, Changes
    <2>3. jar \in [access : Token \cup {None}, refresh : Token \cup {None}]
      BY DEF Inv, Typed, TypeOK
    <2> HIDE DEF x
    <2> QED
      BY <2>1, <2>2, <2>3, Replaced, RefreshSetsAccess
  <1>2. CASE RefreshRefused(q)
    <2>1. jar' = jar /\ req' = [req EXCEPT ![q] = NoRequest]
      BY <1>2 DEF RefreshRefused, Ended
    <2> QED
      BY <2>1, IdleNoRequest, Replaced, IdleSession
  <1> QED
    BY <1>1, <1>2

LEMMA OneSessionFetch ==
  ASSUME Apart, Inv, OneSession, NEW q \in Req, FetchAnswered(q) \/ FetchBounced(q)
  PROVE  OneSession'
  <1> DEFINE t == req[q].tab
             r == [kind |-> "refresh", tab |-> t, why |-> "fetch", carried |-> jar.refresh]
             x == [kind |-> "retry", tab |-> t, why |-> "none", carried |-> jar.access]
  <1>1. jar' = jar
    BY DEF FetchAnswered, FetchBounced
  <1>2. Idle(x) /\ r.kind = "refresh" /\ r.carried = jar.refresh /\ "refresh" \notin Changes
    BY DEF Idle, Changes
  <1>3. CASE FetchAnswered(q)
    <2>1. req' = [req EXCEPT ![q] = NoRequest]
      BY <1>3 DEF FetchAnswered, Ended
    <2> QED
      BY <1>1, <2>1, IdleNoRequest, Replaced, IdleSession
  <1>4. CASE FetchBounced(q) /\ tab[t].refreshing
    <2>1. req' = [req EXCEPT ![q] = x]
      BY <1>4 DEF FetchBounced, Sent
    <2> HIDE DEF x
    <2> QED
      BY <1>1, <1>2, <2>1, Replaced, IdleSession
  <1>5. CASE FetchBounced(q) /\ ~tab[t].refreshing
    <2>1. req' = [req EXCEPT ![q] = r] /\ InFlight(Changes) = {}
      BY <1>2, <1>5 DEF FetchBounced, Sent, Admitted
    <2> HIDE DEF r
    <2> QED
      BY <1>1, <1>2, <2>1, Replaced, RefreshSent
  <1> QED
    BY <1>3, <1>4, <1>5

LEMMA OneSessionError ==
  ASSUME Inv, OneSession, NEW q \in Req, RequestFails(q) \/ BodyLost(q)
  PROVE  OneSession'
  <1>1. req' = [req EXCEPT ![q] = NoRequest]
    BY DEF RequestFails, BodyLost, AfterError, Ended
  <1>2. \A p \in Req : req'[p] = req[p] \/ Idle(req'[p])
    BY <1>1, IdleNoRequest, Replaced
  <1>3. CASE RequestFails(q)
    BY <1>2, <1>3, IdleSession DEF RequestFails
  <1>4. CASE BodyLost(q) /\ req[q].kind = "refresh"
    <2>1. jar' = [jar EXCEPT !.access = req[q].carried] /\ req[q].carried # None
      BY <1>4 DEF BodyLost, RefreshedToken
    <2>2. jar \in [access : Token \cup {None}, refresh : Token \cup {None}]
      BY DEF Inv, Typed, TypeOK
    <2> QED
      BY <1>2, <1>4, <2>1, <2>2, RefreshSetsAccess
  <1>5. CASE BodyLost(q) /\ req[q].kind # "refresh"
    <2>1. jar'.access = jar'.refresh /\ req[q].kind \in Changes
      BY <1>5, SessionAssumption DEF BodyLost, SessionAssumption, Changes
    <2> QED
      BY <1>2, <2>1, ChangeAnswered
  <1> QED
    BY <1>3, <1>4, <1>5

LEMMA OneSessionCookie ==
  ASSUME Inv, OneSession, CookieExpires \/ UNCHANGED vars
  PROVE  OneSession'
  <1>1. jar \in [access : Token \cup {None}, refresh : Token \cup {None}]
    BY DEF Inv, Typed, TypeOK
  <1>2. /\ req' = req
        /\ jar'.access \in {None, jar.access} /\ jar'.refresh \in {None, jar.refresh}
    BY <1>1 DEF CookieExpires, vars
  <1>3. Separate'
    BY <1>2 DEF OneSession, Separate
  <1> QED
    BY <1>2, <1>3 DEF OneSession, BranchSurvives

LEMMA OneSessionNext ==
  ASSUME Apart, Inv, OneSession, [Next]_vars
  PROVE  OneSession'
  <1>1. ASSUME NEW q \in Req, NEW t \in Tab,
               \/ \E u \in User : Login(q, t, u)
               \/ \E b \in Branch : SwitchBranch(q, t, b)
               \/ Logout(q, t) \/ TimerFires(q, t) \/ Reload(q, t) \/ Fetch(q, t)
        PROVE  OneSession'
    BY <1>1, OneSessionSent, OneSessionTab
  <1>2. ASSUME NEW q \in Req,
               \/ LoginAnswered(q) \/ LogoutAnswered(q) \/ SwitchAnswered(q)
               \/ RefreshAnswered(q) \/ RefreshRefused(q)
               \/ FetchAnswered(q) \/ FetchBounced(q)
               \/ RequestFails(q) \/ BodyLost(q)
        PROVE  OneSession'
    BY <1>2, OneSessionAnswer, OneSessionRefresh, OneSessionFetch, OneSessionError
  <1>3. CASE CookieExpires \/ UNCHANGED vars
    BY <1>3, OneSessionCookie
  <1> QED
    BY <1>1, <1>2, <1>3 DEF Next

\* When changes of the session meet neither each other nor a refresh, the two
\* cookies never speak for different sessions: a refresh keeps the branch the
\* user switched to.
THEOREM BranchKept == Apart /\ Spec => []BranchSurvives
  <1> DEFINE I == Apart /\ Inv /\ OneSession
  <1>1. Apart /\ Init => I
    BY InvInit, OneSessionInit
  <1>2. I /\ [Next]_vars => I'
    BY InvNext, OneSessionNext
  <1>3. I => BranchSurvives
    BY DEF OneSession
  <1> HIDE DEF I
  <1> QED
    BY <1>1, <1>2, <1>3, PTL DEF Spec

-----------------------------------------------------------------------------
(* A tab is served for what it shows *)

\* One session s is behind the cookies, the stored user and the refreshes in
\* flight, and it is what the tabs show or are about to show.
Session(s) ==
    /\ {jar.access, jar.refresh, stored} \subseteq {None, s}
    /\ \A t \in Tab : tab[t].boot \in {None, s}
    /\ \A t \in Tab \ moved : tab[t].user \in {None, s}
    /\ \A q \in Req : req[q].kind = "refresh" => req[q].carried \in {None, s}

\* A switch of branch on its way is for the user its tab shows.
Switches ==
    \A q \in Req, t \in Tab :
        req[q].kind = "switch" /\ req[q].tab = t /\ req[q].carried # None =>
          /\ req[q].carried \in Token /\ tab[t].user \in Token
          /\ tab[t].user.user = req[q].carried.user

ShownInv ==
    /\ Inv /\ OneSession /\ Switches
    /\ \E s \in Token \cup {None} : Session(s)

\* Steps that send no switch and leave alone what the tabs of those in flight
\* show.
LEMMA SwitchesKept ==
  ASSUME Switches,
         \A q \in Req, t \in Tab : req'[q].kind = "switch" /\ req'[q].tab = t =>
            req'[q] = req[q] /\ tab'[t].user = tab[t].user
  PROVE  Switches'
  BY DEF Switches

\* While a change is in flight there is no other request like it, no refresh,
\* and no page load that waits for one.
LEMMA AloneInFlight ==
  ASSUME Inv, OneSession, NEW q \in Req, req[q].kind \in Changes
  PROVE  /\ \A p \in Req : p # q => req[p].kind \notin Changes \cup {"refresh"}
         /\ \A t \in Tab : tab[t].boot = None
  <1>1. \A p \in Req : p # q => req[p].kind \notin Changes \cup {"refresh"}
    BY DEF OneSession, Separate, Idle
  <1>2. \A p \in Req : req[p].kind # "refresh"
    BY <1>1 DEF Changes
  <1>3. \A t \in Tab : tab[t].boot = None
    BY <1>2 DEF Inv, Typed, TypeOK, InFlight
  <1> QED
    BY <1>1, <1>3

\* The records of the tabs after a step that replaces one.
LEMMA ReplacedTab ==
  ASSUME Inv, NEW t \in Tab, NEW v, tab' = [tab EXCEPT ![t] = v]
  PROVE  tab'[t] = v /\ \A u \in Tab : u # t => tab'[u] = tab[u]
  BY DEF Inv, Typed, TypeOK

LEMMA SendShown ==
  ASSUME Apart, Inv, OneSession, Switches, NEW s \in Token \cup {None}, Session(s),
         NEW q \in Req, NEW t \in Tab,
         \/ \E u \in User : Login(q, t, u)
         \/ \E b \in Branch : SwitchBranch(q, t, b)
         \/ Logout(q, t)
  PROVE  Switches' /\ Session(s)'
  <1>0. tab[t] \in TabState
    BY InvAt
  <1>1. ASSUME NEW kind \in Changes, NEW carried, Admitted(kind),
               req' = Sent(q, t, kind, "none", carried)
        PROVE  /\ req'[q].kind = kind /\ req'[q].tab = t /\ req'[q].carried = carried
               /\ \A p \in Req : p # q => req'[p] = req[p]
               /\ \A p \in Req : p # q => req'[p].kind \notin Changes \cup {"refresh"}
    <2> DEFINE x == [kind |-> kind, tab |-> t, why |-> "none", carried |-> carried]
    <2>1. InFlight(Changes \cup {"refresh"}) = {}
      BY <1>1 DEF Admitted
    <2>2. req' = [req EXCEPT ![q] = x] /\ x.kind = kind /\ x.tab = t /\ x.carried = carried
      BY <1>1 DEF Sent
    <2> HIDE DEF x
    <2>3. req'[q] = x /\ \A p \in Req : p # q => req'[p] = req[p]
      BY <2>2, Replaced
    <2> QED
      BY <2>1, <2>2, <2>3 DEF InFlight
  <1>2. "login" \in Changes /\ "logout" \in Changes /\ "switch" \in Changes /\ "refresh" \notin Changes
    BY DEF Changes
  <1>3. ASSUME NEW u \in User, Login(q, t, u) PROVE Switches' /\ Session(s)'
    <2>1. /\ req'[q].kind = "login"
          /\ \A p \in Req : p # q => req'[p].kind \notin Changes \cup {"refresh"}
          /\ UNCHANGED <<jar, stored, tab, moved>>
      BY <1>1, <1>2, <1>3 DEF Login
    <2>2. Switches'
      BY <1>2, <2>1, SwitchesKept
    <2>3. Session(s)'
      BY <2>1 DEF Session
    <2> QED
      BY <2>2, <2>3
  <1>4. ASSUME NEW b \in Branch, SwitchBranch(q, t, b) PROVE Switches' /\ Session(s)'
    <2> DEFINE v == [tab[t] EXCEPT !.switching = TRUE]
    <2>1. PICK carried :
            /\ carried = IF jar.access = None
                         THEN None ELSE [user |-> jar.access.user, branch |-> b]
            /\ req'[q].kind = "switch" /\ req'[q].tab = t /\ req'[q].carried = carried
            /\ \A p \in Req : p # q => req'[p].kind \notin Changes \cup {"refresh"}
      BY <1>1, <1>2, <1>4 DEF SwitchBranch
    <2>2. UNCHANGED <<jar, stored, moved>> /\ tab' = [tab EXCEPT ![t] = v]
      BY <1>4 DEF SwitchBranch
    <2>3. v.user = tab[t].user /\ v.boot = tab[t].boot
      BY <1>0 DEF TabState
    <2>4. /\ \A u \in Tab : tab'[u].user = tab[u].user /\ tab'[u].boot = tab[u].boot
      <3> HIDE DEF v
      <3> QED
        BY <2>2, <2>3, ReplacedTab
    <2>5. Session(s)'
      BY <2>1, <2>2, <2>4 DEF Session
    <2>6. ASSUME carried # None
          PROVE  carried \in Token /\ tab[t].user \in Token /\ tab[t].user.user = carried.user
      <3>1. t \notin moved /\ tab[t].user # None /\ jar.access # None
        BY <1>4, <2>1, <2>6 DEF SwitchBranch
      <3>2. tab[t].user = s /\ jar.access = s /\ s \in Token
        BY <3>1 DEF Session
      <3>3. carried = [user |-> s.user, branch |-> b]
        BY <2>1, <3>1, <3>2
      <3> QED
        BY <3>2, <3>3 DEF Token
    <2>7. Switches'
      BY <1>2, <2>1, <2>4, <2>6 DEF Switches
    <2> QED
      BY <2>5, <2>7
  <1>5. CASE Logout(q, t)
    <2> DEFINE v == [tab[t] EXCEPT !.user = None, !.timer = FALSE, !.switching = FALSE]
    <2>1. /\ req'[q].kind = "logout"
          /\ \A p \in Req : p # q => req'[p].kind \notin Changes \cup {"refresh"}
          /\ UNCHANGED <<jar, moved>> /\ stored' = None /\ tab' = [tab EXCEPT ![t] = v]
      BY <1>1, <1>2, <1>5 DEF Logout
    <2>2. v.user = None /\ v.boot = tab[t].boot
      BY <1>0 DEF TabState
    <2>3. \A u \in Tab : tab'[u].user \in {None, tab[u].user} /\ tab'[u].boot = tab[u].boot
      <3> HIDE DEF v
      <3> QED
        BY <2>1, <2>2, ReplacedTab
    <2>4. Switches'
      BY <1>2, <2>1, SwitchesKept
    <2>5. Session(s)'
      BY <2>1, <2>3 DEF Session
    <2> QED
      BY <2>4, <2>5
  <1> QED
    BY <1>3, <1>4, <1>5

LEMMA TabShown ==
  ASSUME Apart, Inv, OneSession, Switches, NEW s \in Token \cup {None}, Session(s),
         NEW q \in Req, NEW t \in Tab,
         TimerFires(q, t) \/ Reload(q, t) \/ Fetch(q, t)
  PROVE  Switches' /\ Session(s)'
  <1>0. tab[t] \in TabState
    BY InvAt
  <1>3. CASE TimerFires(q, t)
    <2> DEFINE x == [kind |-> "refresh", tab |-> t, why |-> "timer", carried |-> jar.refresh]
    <2>1. UNCHANGED <<jar, stored, moved>>
      BY <1>3 DEF TimerFires
    <2>2. \A u \in Tab : tab'[u].user = tab[u].user /\ tab'[u].boot = tab[u].boot
      <3>1. PICK v : tab' = [tab EXCEPT ![t] = v] /\ v.user = tab[t].user /\ v.boot = tab[t].boot
        <4>1. PICK v \in {[tab[t] EXCEPT !.timer = FALSE],
                          [tab[t] EXCEPT !.timer = FALSE, !.refreshing = TRUE]} :
                tab' = [tab EXCEPT ![t] = v]
          BY <1>3 DEF TimerFires
        <4>2. v.user = tab[t].user /\ v.boot = tab[t].boot
          BY <1>0, <4>1 DEF TabState
        <4> QED
          BY <4>1, <4>2
      <3> QED
        BY <3>1, ReplacedTab
    <2>3. \A p \in Req : \/ req'[p] = req[p]
                         \/ req'[p].kind = "refresh" /\ req'[p].carried = jar.refresh
      <3>1. req' = req \/ req' = [req EXCEPT ![q] = x]
        BY <1>3 DEF TimerFires, Sent
      <3>2. x.kind = "refresh" /\ x.carried = jar.refresh
        OBVIOUS
      <3> HIDE DEF x
      <3> QED
        BY <3>1, <3>2, Replaced
    <2>4. Switches'
      BY <2>2, <2>3, SwitchesKept
    <2>5. Session(s)'
      BY <2>1, <2>2, <2>3 DEF Session
    <2> QED
      BY <2>4, <2>5
  <1>4. CASE Reload(q, t)
    <2> DEFINE kept == [p \in Req |-> IF req[p].tab = t THEN NoRequest ELSE req[p]]
               x == [kind |-> "refresh", tab |-> t, why |-> "boot", carried |-> jar.refresh]
               v == [SignedOut EXCEPT !.boot = stored, !.refreshing = stored # None]
    <2>1. UNCHANGED <<jar, stored>> /\ moved' = moved \ {t} /\ tab' = [tab EXCEPT ![t] = v]
      BY <1>4 DEF Reload
    <2>2. v.user = None /\ v.boot = stored
      BY DEF SignedOut
    <2>3. tab'[t].user = None /\ tab'[t].boot = stored /\ \A u \in Tab : u # t => tab'[u] = tab[u]
      <3> HIDE DEF v
      <3> QED
        BY <2>1, <2>2, ReplacedTab
    <2>4. \A p \in Req : \/ req'[p] = req[p] /\ req[p].tab # t
                         \/ req'[p].kind = "none"
                         \/ req'[p].kind = "refresh" /\ req'[p].carried = jar.refresh
      <3>1. req' = kept \/ req' = [kept EXCEPT ![q] = x]
        BY <1>4 DEF Reload
      <3>2. x.kind = "refresh" /\ x.carried = jar.refresh
        OBVIOUS
      <3>3. \A p \in Req : \/ kept[p] = req[p] /\ req[p].tab # t
                         \/ kept[p].kind = "none"
        BY Constructors
      <3>4. DOMAIN kept = Req
        OBVIOUS
      <3>5. \A p \in Req : req'[p] = kept[p] \/ req'[p] = x
        BY <3>1, <3>4
      <3> HIDE DEF x, kept
      <3> QED
        BY <3>2, <3>3, <3>5
    <2>5. Switches'
      BY <2>3, <2>4, SwitchesKept
    <2>6. Session(s)'
      BY <2>1, <2>3, <2>4 DEF Session
    <2> QED
      BY <2>5, <2>6
  <1>5. CASE Fetch(q, t)
    <2> DEFINE x == [kind |-> "fetch", tab |-> t, why |-> "none", carried |-> jar.access]
    <2>1. req' = [req EXCEPT ![q] = x] /\ UNCHANGED <<jar, stored, tab, moved>>
      BY <1>5 DEF Fetch, Sent
    <2>2. x.kind = "fetch"
      OBVIOUS
    <2>3. \A p \in Req : req'[p] = req[p] \/ req'[p].kind = "fetch"
      <3> HIDE DEF x
      <3> QED
        BY <2>1, <2>2, Replaced
    <2>4. Switches'
      BY <2>1, <2>3, SwitchesKept
    <2>5. Session(s)'
      BY <2>1, <2>3 DEF Session
    <2> QED
      BY <2>4, <2>5
  <1> QED
    BY <1>3, <1>4, <1>5

\* The answer to a change brings a session: the one that the tab goes on to
\* show, and no other tab is expected to.
LEMMA AnswerShown ==
  ASSUME Inv, OneSession, Switches, NEW s \in Token \cup {None}, Session(s), NEW q \in Req,
         LoginAnswered(q) \/ LogoutAnswered(q) \/ SwitchAnswered(q)
  PROVE  Switches' /\ \E n \in Token \cup {None} : Session(n)'
  <1>0. /\ req[q] \in Request /\ Shape(req[q]) /\ req[q].kind \in Changes
        /\ req' = [req EXCEPT ![q] = NoRequest]
    BY DEF LoginAnswered, LogoutAnswered, SwitchAnswered, Changes, Ended, Inv, Typed, TypeOK
  <1>1. PICK t \in Tab : t = req[q].tab /\ tab[t] \in TabState
    BY <1>0 DEF Shape, Changes, Inv, Typed, TypeOK
  <1>2. /\ \A p \in Req : req'[p].kind \notin Changes \cup {"refresh"}
        /\ \A u \in Tab : tab[u].boot = None
    <2>1. NoRequest.kind \notin Changes \cup {"refresh"}
      BY Constructors DEF Changes
    <2> QED
      BY <1>0, <2>1, AloneInFlight, Replaced
  <1>3. Switches'
    BY <1>2, SwitchesKept DEF Changes
  <1>4. CASE LogoutAnswered(q)
    <2>1. jar'.access = None /\ jar'.refresh = None /\ UNCHANGED <<stored, tab, moved>>
      BY <1>4 DEF LogoutAnswered
    <2>2. Session(s)'
      BY <1>2, <2>1 DEF Session
    <2> QED
      BY <1>3, <2>2
  <1>5. ASSUME NEW n \in Token, tab' = [tab EXCEPT ![t].user = n, ![t].timer = TRUE],
               jar' = [access |-> n, refresh |-> n], stored' = n,
               Tab \ {t} \subseteq moved'
        PROVE  Session(n)'
    <2> DEFINE v == [tab[t] EXCEPT !.user = n, !.timer = TRUE]
    <2>1. tab' = [tab EXCEPT ![t] = v]
      BY <1>1, <1>5
    <2>2. v.user = n /\ v.boot = None
      BY <1>1, <1>2 DEF TabState
    <2>3. tab'[t].user = n /\ \A u \in Tab : tab'[u].boot = None
      <3> HIDE DEF v
      <3> QED
        BY <1>2, <2>1, <2>2, ReplacedTab
    <2>4. \A p \in Req : req'[p].kind # "refresh"
      BY <1>2
    <2>5. jar'.access = n /\ jar'.refresh = n
      BY <1>5
    <2> QED
      BY <1>5, <2>3, <2>4, <2>5 DEF Session
  <1>6. CASE LoginAnswered(q)
    <2>1. req[q].carried \in Token /\ moved' = (moved \cup Tab) \ {t}
      BY <1>0, <1>1, <1>6 DEF LoginAnswered, Shape
    <2>2. PICK n \in Token : n = req[q].carried
      BY <2>1
    <2>3. Session(n)'
      BY <1>1, <1>5, <1>6, <2>1, <2>2 DEF LoginAnswered
    <2> QED
      BY <1>3, <2>3
  <1>7. CASE SwitchAnswered(q)
    <2>1. /\ req[q].carried \in Token /\ tab[t].user \in Token
          /\ tab[t].user.user = req[q].carried.user /\ None \notin Token
      BY <1>1, <1>7, Constructors DEF SwitchAnswered, Switches
    <2>2. [tab[t].user EXCEPT !.branch = req[q].carried.branch] = req[q].carried
      BY <2>1 DEF Token
    <2>3. PICK n \in Token : n = req[q].carried
      BY <2>1
    <2>4. /\ tab' = [tab EXCEPT ![t].user = n, ![t].timer = TRUE]
          /\ jar' = [access |-> n, refresh |-> n] /\ stored' = n
          /\ Tab \ {t} \subseteq moved'
      BY <1>1, <1>7, <2>1, <2>2, <2>3 DEF SwitchAnswered, SwitchCookies
    <2>5. Session(n)'
      BY <1>5, <2>4
    <2> QED
      BY <1>3, <2>5
  <1> QED
    BY <1>4, <1>6, <1>7

\* What a tab shows when its refresh is over.
LEMMA BootedShows ==
  ASSUME NEW q, NEW t \in Tab, tab[t] \in TabState, NEW v,
         \/ v = Booted(q, t)
         \/ v = [Booted(q, t) EXCEPT !.timer = TRUE]
         \/ v = SignedOut
  PROVE  v.boot \in {None, tab[t].boot} /\ v.user \in {None, tab[t].boot, tab[t].user}
  <1>1. CASE v = SignedOut
    BY <1>1 DEF SignedOut
  <1>2. CASE v # SignedOut /\ req[q].why = "boot"
    BY <1>2 DEF Booted, TabState
  <1>3. CASE v # SignedOut /\ req[q].why # "boot"
    BY <1>3 DEF Booted, TabState
  <1> QED
    BY <1>1, <1>2, <1>3

\* However a refresh ends.
LEMMA RefreshShown ==
  ASSUME Inv, OneSession, Switches, NEW s \in Token \cup {None}, Session(s), NEW q \in Req,
         req[q].kind = "refresh",
         RefreshAnswered(q) \/ RefreshRefused(q) \/ RequestFails(q) \/ BodyLost(q)
  PROVE  Switches' /\ Session(s)'
  <1>0. /\ req[q] \in Request /\ Shape(req[q])
        /\ jar \in [access : Token \cup {None}, refresh : Token \cup {None}]
    BY DEF Inv, Typed, TypeOK
  <1>1. PICK t \in Tab : t = req[q].tab /\ tab[t] \in TabState
    BY <1>0 DEF Shape, Inv, Typed, TypeOK
  <1>2. \A p \in Req : req[p].kind \notin Changes
    BY DEF OneSession, Separate, Idle, Changes
  <1>3. \A p \in Req : req'[p] = req[p] \/ req'[p].kind \in {"none", "retry"}
    <2> DEFINE retry == [kind |-> "retry", tab |-> req[q].tab, why |-> "none",
                         carried |-> req[q].carried]
    <2>1. req' = [req EXCEPT ![q] = NoRequest] \/ req' = [req EXCEPT ![q] = retry]
      BY DEF RefreshAnswered, RefreshRefused, RequestFails, BodyLost, AfterError, RefreshedToken,
             Sent, Ended
    <2>2. retry.kind = "retry" /\ NoRequest.kind = "none"
      BY Constructors
    <2> HIDE DEF retry
    <2> QED
      BY <2>1, <2>2, Replaced
  <1>4. PICK v : /\ tab' = [tab EXCEPT ![t] = v]
                 /\ \/ v = Booted(q, t)
                    \/ v = [Booted(q, t) EXCEPT !.timer = TRUE]
                    \/ v = SignedOut
    BY <1>1 DEF RefreshAnswered, RefreshRefused, RequestFails, BodyLost, AfterError
  <1>5. \A u \in Tab : /\ tab'[u].boot \in {None, tab[u].boot}
                       /\ tab'[u].user \in {None, tab[u].boot, tab[u].user}
    BY <1>1, <1>4, BootedShows, ReplacedTab
  <1>6. moved' = moved /\ stored' \in {None, stored}
    BY DEF RefreshAnswered, RefreshRefused, RequestFails, BodyLost, AfterError
  <1>7. jar'.access \in {jar.access, req[q].carried} /\ jar'.refresh = jar.refresh
    <2>1. jar' = jar \/ jar' = [jar EXCEPT !.access = req[q].carried]
      BY DEF RefreshAnswered, RefreshRefused, RequestFails, BodyLost, RefreshedToken
    <2> QED
      BY <1>0, <2>1
  <1>8. Switches'
    BY <1>2, <1>3, SwitchesKept DEF Changes
  <1>9. Session(s)'
    BY <1>3, <1>5, <1>6, <1>7 DEF Session
  <1> QED
    BY <1>8, <1>9

\* Requests of the pages, requests that end in an error, and cookies that end.
LEMMA OtherShown ==
  ASSUME Inv, OneSession, Switches, NEW s \in Token \cup {None}, Session(s),
         Cut \subseteq {"refresh"},
         \/ CookieExpires \/ UNCHANGED vars
         \/ \E q \in Req : /\ req[q].kind # "refresh"
                           /\ \/ FetchAnswered(q) \/ FetchBounced(q)
                              \/ RequestFails(q) \/ BodyLost(q)
  PROVE  Switches' /\ Session(s)'
  <1>1. UNCHANGED <<stored, moved>>
    BY DEF CookieExpires, vars, FetchAnswered, FetchBounced, RequestFails, BodyLost, AfterError
  <1>2. jar \in [access : Token \cup {None}, refresh : Token \cup {None}]
    BY DEF Inv, Typed, TypeOK
  <1>3. jar'.access \in {None, jar.access} /\ jar'.refresh \in {None, jar.refresh}
    BY <1>2 DEF CookieExpires, vars, FetchAnswered, FetchBounced, RequestFails, BodyLost
  <1>4. CASE CookieExpires \/ UNCHANGED vars
    <2>1. tab' = tab /\ req' = req
      BY <1>4 DEF CookieExpires, vars
    <2> QED
      BY <1>1, <1>3, <2>1, SwitchesKept DEF Session
  <1>5. ASSUME NEW q \in Req, req[q].kind # "refresh",
               FetchAnswered(q) \/ FetchBounced(q) \/ RequestFails(q)
        PROVE  Switches' /\ Session(s)'
    <2>1. req[q].kind # "none" /\ Shape(req[q])
      BY <1>5 DEF FetchAnswered, FetchBounced, RequestFails, Inv, Typed, TypeOK
    <2>2. PICK t \in Tab : t = req[q].tab /\ tab[t] \in TabState
      BY <2>1 DEF Shape, Inv, Typed, TypeOK
    <2>3. \A u \in Tab : tab'[u].user = tab[u].user /\ tab'[u].boot = tab[u].boot
      <3>1. PICK v : (tab' = tab \/ tab' = [tab EXCEPT ![t] = v])
                     /\ v.user = tab[t].user /\ v.boot = tab[t].boot
        <4>1. PICK v \in {tab[t], [tab[t] EXCEPT !.refreshing = TRUE],
                          [tab[t] EXCEPT !.switching = FALSE]} :
                tab' = tab \/ tab' = [tab EXCEPT ![t] = v]
          BY <1>5, <2>2 DEF FetchAnswered, FetchBounced, RequestFails, AfterError
        <4>2. v.user = tab[t].user /\ v.boot = tab[t].boot
          BY <2>2, <4>1 DEF TabState
        <4> QED
          BY <4>1, <4>2
      <3> QED
        BY <3>1, ReplacedTab
    <2>4. \A p \in Req : \/ req'[p] = req[p]
                         \/ req'[p].kind \in {"none", "retry"}
                         \/ req'[p].kind = "refresh" /\ req'[p].carried = jar.refresh
      <3>1. PICK x : /\ req' = [req EXCEPT ![q] = x]
                     /\ \/ x.kind \in {"none", "retry"}
                        \/ x.kind = "refresh" /\ x.carried = jar.refresh
        <4> DEFINE y == [kind |-> "retry", tab |-> t, why |-> "none", carried |-> jar.access]
                   z == [kind |-> "refresh", tab |-> t, why |-> "fetch", carried |-> jar.refresh]
        <4>1. \E x \in {NoRequest, y, z} : req' = [req EXCEPT ![q] = x]
          BY <1>5, <2>2 DEF FetchAnswered, FetchBounced, RequestFails, AfterError, Sent, Ended
        <4>2. /\ NoRequest.kind = "none" /\ y.kind = "retry"
              /\ z.kind = "refresh" /\ z.carried = jar.refresh
          BY Constructors
        <4> HIDE DEF y, z
        <4> QED
          BY <4>1, <4>2
      <3> QED
        BY <3>1, Replaced
    <2>5. Switches'
      BY <2>3, <2>4, SwitchesKept
    <2>6. Session(s)'
      BY <1>1, <1>3, <2>3, <2>4 DEF Session
    <2> QED
      BY <2>5, <2>6
  <1> QED
    BY <1>4, <1>5 DEF BodyLost

LEMMA ShownNext ==
  ASSUME Apart, Cut \subseteq {"refresh"}, ShownInv, OneSession', [Next]_vars
  PROVE  ShownInv'
  <1>0. PICK s \in Token \cup {None} : Session(s)
    BY DEF ShownInv
  <1>1. Inv /\ OneSession /\ Switches /\ Inv'
    BY InvNext DEF ShownInv
  <1>2. ASSUME NEW q \in Req, NEW t \in Tab,
               \/ \E u \in User : Login(q, t, u)
               \/ \E b \in Branch : SwitchBranch(q, t, b)
               \/ Logout(q, t) \/ TimerFires(q, t) \/ Reload(q, t) \/ Fetch(q, t)
        PROVE  Switches' /\ Session(s)'
    BY <1>0, <1>1, <1>2, SendShown, TabShown
  <1>3. ASSUME NEW q \in Req,
               LoginAnswered(q) \/ LogoutAnswered(q) \/ SwitchAnswered(q)
        PROVE  Switches' /\ \E n \in Token \cup {None} : Session(n)'
    BY <1>0, <1>1, <1>3, AnswerShown
  <1>4. ASSUME NEW q \in Req,
               \/ RefreshAnswered(q) \/ RefreshRefused(q)
               \/ FetchAnswered(q) \/ FetchBounced(q)
               \/ RequestFails(q) \/ BodyLost(q)
        PROVE  Switches' /\ Session(s)'
    <2>1. CASE req[q].kind = "refresh"
      <3>1. RefreshAnswered(q) \/ RefreshRefused(q) \/ RequestFails(q) \/ BodyLost(q)
        BY <1>4, <2>1 DEF FetchAnswered, FetchBounced
      <3> QED
        BY <1>0, <1>1, <2>1, <3>1, RefreshShown
    <2>2. CASE req[q].kind # "refresh"
      <3>1. FetchAnswered(q) \/ FetchBounced(q) \/ RequestFails(q) \/ BodyLost(q)
        BY <1>4, <2>2 DEF RefreshAnswered, RefreshRefused
      <3> QED
        BY <1>0, <1>1, <2>2, <3>1, OtherShown
    <2> QED
      BY <2>1, <2>2
  <1>5. ASSUME CookieExpires \/ UNCHANGED vars
        PROVE  Switches' /\ Session(s)'
    BY <1>0, <1>1, <1>5, OtherShown
  <1> DEFINE Found == \E n \in Token \cup {None} : Session(n)'
  <1>6. Session(s)' => Found
    BY <1>0
  <1>7. Switches' /\ Found
    <2>1. ASSUME NEW q \in Req, NEW t \in Tab,
                 \/ \E u \in User : Login(q, t, u)
                 \/ \E b \in Branch : SwitchBranch(q, t, b)
                 \/ Logout(q, t) \/ TimerFires(q, t) \/ Reload(q, t) \/ Fetch(q, t)
          PROVE  Switches' /\ Found
      <3>1. Switches' /\ Session(s)'
        BY <1>2, <2>1
      <3> QED
        BY <1>6, <3>1
    <2>2. ASSUME NEW q \in Req,
                 \/ LoginAnswered(q) \/ LogoutAnswered(q) \/ SwitchAnswered(q)
                 \/ RefreshAnswered(q) \/ RefreshRefused(q)
                 \/ FetchAnswered(q) \/ FetchBounced(q)
                 \/ RequestFails(q) \/ BodyLost(q)
          PROVE  Switches' /\ Found
      <3>1. CASE LoginAnswered(q) \/ LogoutAnswered(q) \/ SwitchAnswered(q)
        BY <1>3, <3>1
      <3>2. CASE \/ RefreshAnswered(q) \/ RefreshRefused(q)
                 \/ FetchAnswered(q) \/ FetchBounced(q)
                 \/ RequestFails(q) \/ BodyLost(q)
        <4>1. Switches' /\ Session(s)'
          BY <1>4, <3>2
        <4> QED
          BY <1>6, <4>1
      <3> QED
        BY <2>2, <3>1, <3>2
    <2>3. CASE CookieExpires \/ UNCHANGED vars
      <3>1. Switches' /\ Session(s)'
        BY <1>5, <2>3
      <3> QED
        BY <1>6, <3>1
    <2> HIDE DEF Found
    <2> QED
      BY <2>1, <2>2, <2>3 DEF Next
  <1>8. \E n \in Token \cup {None} : Session(n)'
    BY <1>7
  <1> QED
    BY <1>1, <1>7, <1>8 DEF ShownInv

LEMMA ShownInit == Init => ShownInv
  <1> SUFFICES ASSUME Init PROVE ShownInv
    OBVIOUS
  <1>1. \A t \in Tab : tab[t].user = None /\ tab[t].boot = None
    BY Constructors DEF Init
  <1>2. \A q \in Req : req[q].kind = "none"
    BY Constructors DEF Init
  <1>3. Session(None) /\ Switches
    BY <1>1, <1>2 DEF Init, Session, Switches
  <1> QED
    BY <1>3, InvInit, OneSessionInit DEF ShownInv

\* When changes of the session meet neither each other nor a refresh, and their
\* answers arrive whole, a tab shows the user and the branch the access cookie
\* stands for, until another tab changes the session: for any number of tabs,
\* page loads, refreshes and cookies that expire.
THEOREM Served == Apart /\ Cut \subseteq {"refresh"} /\ Spec => []ServedAsShown
  <1> DEFINE I == Apart /\ Cut \subseteq {"refresh"} /\ ShownInv
  <1>1. Apart /\ Cut \subseteq {"refresh"} /\ Init => I
    BY ShownInit
  <1>2. I /\ [Next]_vars => I'
    <2> SUFFICES ASSUME Apart, Cut \subseteq {"refresh"}, ShownInv, [Next]_vars
                 PROVE  ShownInv'
      OBVIOUS
    <2>1. OneSession'
      BY OneSessionNext DEF ShownInv
    <2> QED
      BY <2>1, ShownNext
  <1>3. I => ServedAsShown
    BY DEF ShownInv, Session, ServedAsShown
  <1> HIDE DEF I
  <1> QED
    BY <1>1, <1>2, <1>3, PTL DEF Spec

-----------------------------------------------------------------------------
(* The pages: what an instance has cached of the privileges *)

\* Between a change and its commit the instance that makes it caches nothing,
\* and nobody is about to cache what he read before the change.
Revoking ==
    /\ subject \in [role : Role, held : {subject.held}] /\ subject.held # Nothing
    /\ reading # Nothing => change = Nothing /\ reading = subject.held
    /\ change # Nothing =>
          change.held # Nothing /\ (change.here => cache = Nothing)
    /\ change = Nothing /\ ~away => cache \in {Nothing, subject.held}

LEMMA RevokingInit == WebInit => Revoking
  BY ScreensAssumption DEF ScreensAssumption, WebInit, Revoking

LEMMA RevokingNext ==
  ASSUME ~Straddle, Revoking, [WebNext]_webVars
  PROVE Revoking'
  <1>1. CASE ReadPrivileges
    BY <1>1 DEF ReadPrivileges, Revoking
  <1>2. CASE CachePrivileges
    BY <1>2 DEF CachePrivileges, Revoking
  <1>3. CASE Expire
    BY <1>3 DEF Expire, Revoking
  <1>4. ASSUME NEW move \in Moves, NEW here \in BOOLEAN, SetPrivileges(move[2], here)
        PROVE Revoking'
    BY <1>4, ScreensAssumption DEF ScreensAssumption, SetPrivileges, Revoking
  <1>5. CASE CommitPrivileges
    BY <1>5 DEF CommitPrivileges, Revoking
  <1>6. CASE UNCHANGED server
    BY <1>6 DEF Revoking, server
  <1>7. CASE RefreshUser
    BY <1>6, <1>7 DEF RefreshUser
  <1>8. ASSUME NEW name \in DOMAIN Pages, Open(name) PROVE UNCHANGED server
    BY <1>8 DEF Open
  <1>9. CASE Leave \/ Choose
    BY <1>6, <1>9 DEF Leave, Choose
  <1>10. ASSUME NEW i, Arrive(i) \/ Miss(i) PROVE UNCHANGED server
    BY <1>10 DEF Arrive, Miss
  <1>11. ASSUME NEW button, NEW served, Press(button, served) PROVE UNCHANGED server
    BY <1>11 DEF Press
  <1>12. ASSUME NEW i, NEW served, Answer(i, served) PROVE UNCHANGED server
    BY <1>12 DEF Answer
  <1>13. ASSUME NEW i, AnswerLost(i) PROVE UNCHANGED server
    BY <1>13 DEF AnswerLost
  <1>14. CASE UNCHANGED webVars
    BY <1>6, <1>14 DEF webVars
  <1> QED
    BY <1>1, <1>2, <1>3, <1>4, <1>5, <1>6, <1>7, <1>8, <1>9, <1>10, <1>11, <1>12, <1>13, <1>14 DEF WebNext

\* Once a change of privileges is committed, the instance that made it serves
\* nobody for the old ones: for any users and any changes, as long as nobody
\* reads the privileges before a change and caches them after it.
THEOREM RevokedHere == ~Straddle /\ WebSpec => []RevokedAtOnce
  <1> DEFINE I == ~Straddle /\ Revoking
  <1>1. ~Straddle /\ WebInit => I
    BY RevokingInit
  <1>2. I /\ [WebNext]_webVars => I'
    BY RevokingNext
  <1>3. I => RevokedAtOnce
    BY DEF Revoking, RevokedAtOnce
  <1> HIDE DEF I
  <1> QED
    BY <1>1, <1>2, <1>3, PTL DEF WebSpec

-----------------------------------------------------------------------------
(* The pages: how the handlers of one page keep out of each other's way *)

\* The rows a handler makes.
Makes(h) ==
    {h.calls[k].route.name :
        k \in {j \in DOMAIN h.calls : h.calls[j].route.kind = "create"}}

\* A handler of one call, that cannot be pressed again while it makes a row.
One(b, own, afters) ==
    LET h == b.what.handler IN
    /\ DOMAIN h.calls = {1} /\ h.calls[1].refused = "stops"
    /\ Len(h.calls) = 1 /\ h.after \in afters
    /\ h.calls[1].route.kind = "create" => h.flag = own /\ own \in b.what.waits

Reloads == {"reload", "optimistic", "mark", "keep", "leave"}
Replies == {"show", "keep", "leave"}

\* What a page loads does not depend on privileges, unless nothing on it can
\* change what it loads.
Steady(page) ==
    /\ page.late \in {"shown", "keyed", "dropped"}
    /\ \/ \A item \in page.loads : item.gate.keys = {}
       \/ page.buttons = {} /\ page.late = "keyed"

Plain(page, own, afters) ==
    Steady(page) /\ \A b \in page.buttons : One(b, own, afters)

LEMMA Alone ==
  ASSUME NEW gate, NEW waits, NEW route, NEW flag, NEW after, NEW own,
         NEW afters, after \in afters,
         route.kind = "create" => flag = own /\ own \in waits
  PROVE  One(Button(gate, waits, Handler(<<Call(route)>>, flag, after)), own,
             afters)
  BY DEF One, Button, Item, Handler, Call

LEMMA Everyones ==
  ASSUME NEW routes, NEW item \in All(routes)
  PROVE  item.gate.keys = {}
  BY DEF All, Item, Anyone, Gate

LEMMA NotMade ==
  \A route \in {AssignTrainee, CalculatePayroll, CancelSession,
    ChangePassword, DeleteExpense, DeleteLead, DeleteManualIncome,
    DeletePlan, GetReceipt, GetReport, MarkPayrollPaid, PatchBranch,
    PatchCaptain, PatchGroup, PatchLead, PatchPlan, PatchSession,
    PatchTenant, PatchTenantStatus, PatchTrainee, PatchUser, PortalReceipt,
    PostSwitchBranch, PutSettings, RateCaptain, RemoveFromGroup,
    SubmitAttendance} : route.kind # "create"
  <1>1. /\ AssignTrainee.kind # "create"
        /\ CalculatePayroll.kind # "create"
        /\ CancelSession.kind # "create"
        /\ ChangePassword.kind # "create"
        /\ DeleteExpense.kind # "create"
        /\ DeleteLead.kind # "create"
        /\ DeleteManualIncome.kind # "create"
        /\ DeletePlan.kind # "create"
        /\ GetReceipt.kind # "create"
    BY DEF AssignTrainee, CalculatePayroll, CancelSession, ChangePassword,
      DeleteExpense, DeleteLead, DeleteManualIncome, DeletePlan,
      GetReceipt, Route
  <1>2. /\ GetReport.kind # "create"
        /\ MarkPayrollPaid.kind # "create"
        /\ PatchBranch.kind # "create"
        /\ PatchCaptain.kind # "create"
        /\ PatchGroup.kind # "create"
        /\ PatchLead.kind # "create"
        /\ PatchPlan.kind # "create"
        /\ PatchSession.kind # "create"
        /\ PatchTenant.kind # "create"
    BY DEF GetReport, MarkPayrollPaid, PatchBranch, PatchCaptain,
      PatchGroup, PatchLead, PatchPlan, PatchSession, PatchTenant, Route
  <1>3. /\ PatchTenantStatus.kind # "create"
        /\ PatchTrainee.kind # "create"
        /\ PatchUser.kind # "create"
        /\ PortalReceipt.kind # "create"
        /\ PostSwitchBranch.kind # "create"
        /\ PutSettings.kind # "create"
        /\ RateCaptain.kind # "create"
        /\ RemoveFromGroup.kind # "create"
        /\ SubmitAttendance.kind # "create"
    BY DEF PatchTenantStatus, PatchTrainee, PatchUser, PortalReceipt,
      PostSwitchBranch, PutSettings, RateCaptain, RemoveFromGroup,
      SubmitAttendance, Route
  <1> QED
    BY <1>1, <1>2, <1>3

LEMMA PlainPages ==
  /\ Plain(DashboardLayout, "isSubmitting", Reloads)
  /\ Plain(BranchesPage, "isSubmitting", Reloads)
  /\ Plain(CaptainPage, "isSubmitting", Reloads)
  /\ Plain(NewCaptainPage, "isSubmitting", Reloads)
  /\ Plain(PlansPage, "isSubmitting", Reloads)
  /\ Plain(PlanPage, "isSubmitting", Reloads)
  /\ Plain(NewPlanPage, "isSubmitting", Reloads)
  /\ Plain(GroupPage, "isSubmitting", Reloads)
  /\ Plain(EditGroupPage, "isSubmitting", Reloads)
  /\ Plain(NewGroupPage, "isSubmitting", Reloads)
  /\ Plain(SchedulePage, "isSubmitting", Reloads)
  /\ Plain(AttendancePage, "isSubmitting", Reloads)
  /\ Plain(ExpensesPage, "isSubmitting", Reloads)
  /\ Plain(ManualIncomePage, "isSubmitting", Reloads)
  /\ Plain(PayrollPage, "isRecording", Reloads)
  /\ Plain(ReceiptsPage, "isSubmitting", Reloads)
  /\ Plain(ReportsPage, "isSubmitting", Reloads)
  /\ Plain(PortalLayout, "isSubmitting", Reloads)
  /\ Plain(PortalPage, "isSubmitting", Replies)
  /\ Plain(PortalReceiptsPage, "isSubmitting", Reloads)
  /\ Plain(TenantsPage, "isSubmitting", Reloads)
  /\ Plain(TenantPage, "isSubmitting", Replies)
  /\ Plain(NewTenantPage, "isSubmitting", Reloads)
  /\ Plain(LeadsPage, "isSubmitting", Reloads)
  /\ Plain(SettingsPage, "isSubmitting", Replies)
  /\ Plain(DashboardPage, "none", {})
  /\ Plain(TraineesPage, "none", {})
  /\ Plain(CaptainsPage, "none", {})
  /\ Plain(GroupsPage, "none", {})
  /\ Plain(FinancePage, "none", {})
  /\ Plain(PortalAttendancePage, "none", {})
  /\ Plain(PortalSchedulePage, "none", {})
  /\ Plain(PortalSubscriptionPage, "none", {})
  /\ Plain(SuperAdminLayout, "none", {})
  <1>1. Plain(DashboardLayout, "isSubmitting", Reloads)
    <2>1. DashboardLayout.buttons = {HeaderBranch, HeaderPassword}
             /\ Steady(DashboardLayout)
      BY Everyones DEF DashboardLayout, RequireAccessPage, Steady,
        HeaderLoads, Item, Only, Gate
    <2>2. One(HeaderBranch, "isSubmitting", Reloads)
      BY NotMade, Alone DEF HeaderBranch, Reloads
    <2>3. One(HeaderPassword, "isSubmitting", Reloads)
      BY NotMade, Alone DEF HeaderPassword, Reloads
    <2> QED
      BY <2>1, <2>2, <2>3 DEF Plain
  <1>2. Plain(BranchesPage, "isSubmitting", Reloads)
    <2>1. BranchesPage.buttons =
             {CreateBranchModal, EditBranchModal, BranchRows}
             /\ Steady(BranchesPage)
      BY Everyones DEF BranchesPage, RequireAccessPage, Steady
    <2>2. One(CreateBranchModal, "isSubmitting", Reloads)
      BY NotMade, Alone DEF CreateBranchModal, HandleCreateBranch,
        Reloads
    <2>3. One(EditBranchModal, "isSubmitting", Reloads)
      BY NotMade, Alone DEF EditBranchModal, HandleEditBranch, Reloads
    <2>4. One(BranchRows, "isSubmitting", Reloads)
      BY NotMade, Alone DEF BranchRows, HandleToggleStatus, Reloads
    <2> QED
      BY <2>1, <2>2, <2>3, <2>4 DEF Plain
  <1>3. Plain(CaptainPage, "isSubmitting", Reloads)
    <2>1. CaptainPage.buttons = CaptainHeader /\ Steady(CaptainPage)
      BY Everyones DEF CaptainPage, RequireAccessPage, Steady
    <2>2. \A b \in CaptainHeader : One(b, "isSubmitting", Reloads)
      BY NotMade, Alone DEF CaptainHeader, HandleSaveCaptain,
        HandleDeactivateCaptain, Reloads
    <2> QED
      BY <2>1, <2>2 DEF Plain
  <1>4. Plain(NewCaptainPage, "isSubmitting", Reloads)
    <2>1. NewCaptainPage.buttons = {CaptainForm} /\ Steady(NewCaptainPage)
      BY Everyones DEF NewCaptainPage, RequireAccessPage, Steady
    <2>2. One(CaptainForm, "isSubmitting", Reloads)
      BY NotMade, Alone DEF CaptainForm, HandleRegisterCaptain, Reloads
    <2> QED
      BY <2>1, <2>2 DEF Plain
  <1>5. Plain(PlansPage, "isSubmitting", Reloads)
    <2>1. PlansPage.buttons = {PlanRows} /\ Steady(PlansPage)
      BY Everyones DEF PlansPage, RequireAccessPage, Steady
    <2>2. One(PlanRows, "isSubmitting", Reloads)
      BY NotMade, Alone DEF PlanRows, HandleDeactivatePlan, Reloads
    <2> QED
      BY <2>1, <2>2 DEF Plain
  <1>6. Plain(PlanPage, "isSubmitting", Reloads)
    <2>1. PlanPage.buttons = {PlanForm} /\ Steady(PlanPage)
      BY Everyones DEF PlanPage, RequireAccessPage, Steady
    <2>2. One(PlanForm, "isSubmitting", Reloads)
      BY NotMade, Alone DEF PlanForm, HandleSavePlan, Reloads
    <2> QED
      BY <2>1, <2>2 DEF Plain
  <1>7. Plain(NewPlanPage, "isSubmitting", Reloads)
    <2>1. NewPlanPage.buttons = {NewPlanForm} /\ Steady(NewPlanPage)
      BY Everyones DEF NewPlanPage, RequireAccessPage, Steady
    <2>2. One(NewPlanForm, "isSubmitting", Reloads)
      BY NotMade, Alone DEF NewPlanForm, HandleCreatePlan, Reloads
    <2> QED
      BY <2>1, <2>2 DEF Plain
  <1>8. Plain(GroupPage, "isSubmitting", Reloads)
    <2>1. GroupPage.buttons = {GroupRows} /\ Steady(GroupPage)
      BY Everyones DEF GroupPage, RequireAccessPage, Steady
    <2>2. One(GroupRows, "isSubmitting", Reloads)
      BY NotMade, Alone DEF GroupRows, HandleRemoveTrainee, Reloads
    <2> QED
      BY <2>1, <2>2 DEF Plain
  <1>9. Plain(EditGroupPage, "isSubmitting", Reloads)
    <2>1. EditGroupPage.buttons = {EditGroupForm} /\ Steady(EditGroupPage)
      BY Everyones DEF EditGroupPage, RequireAccessPage, Steady
    <2>2. One(EditGroupForm, "isSubmitting", Reloads)
      BY NotMade, Alone DEF EditGroupForm, HandleEditGroup, Reloads
    <2> QED
      BY <2>1, <2>2 DEF Plain
  <1>10. Plain(NewGroupPage, "isSubmitting", Reloads)
    <2>1. NewGroupPage.buttons = {NewGroupForm} /\ Steady(NewGroupPage)
      BY Everyones DEF NewGroupPage, RequireAccessPage, Steady
    <2>2. One(NewGroupForm, "isSubmitting", Reloads)
      BY NotMade, Alone DEF NewGroupForm, HandleCreateGroup, Reloads
    <2> QED
      BY <2>1, <2>2 DEF Plain
  <1>11. Plain(AttendancePage, "isSubmitting", Reloads)
    <2>1. AttendancePage.buttons = {AttendanceForm} /\ Steady(AttendancePage)
      BY Everyones DEF AttendancePage, RequireAccessPage, Steady
    <2>2. One(AttendanceForm, "isSubmitting", Reloads)
      BY NotMade, Alone DEF AttendanceForm, HandleSubmitAttendance,
        Reloads
    <2> QED
      BY <2>1, <2>2 DEF Plain
  <1>12. Plain(ExpensesPage, "isSubmitting", Reloads)
    <2>1. ExpensesPage.buttons = ExpenseControls /\ Steady(ExpensesPage)
      BY Everyones DEF ExpensesPage, RequireAccessPage, Steady
    <2>2. \A b \in ExpenseControls : One(b, "isSubmitting", Reloads)
      BY NotMade, Alone DEF ExpenseControls, HandleCreateExpense,
        HandleDeleteExpense, Reloads
    <2> QED
      BY <2>1, <2>2 DEF Plain
  <1>13. Plain(ManualIncomePage, "isSubmitting", Reloads)
    <2>1. ManualIncomePage.buttons = IncomeControls /\ Steady(ManualIncomePage)
      BY Everyones DEF ManualIncomePage, RequireAccessPage, Steady
    <2>2. \A b \in IncomeControls : One(b, "isSubmitting", Reloads)
      BY NotMade, Alone DEF IncomeControls, HandleCreateIncome,
        HandleDeleteIncome, Reloads
    <2> QED
      BY <2>1, <2>2 DEF Plain
  <1>14. Plain(PayrollPage, "isRecording", Reloads)
    <2>1. PayrollPage.buttons = PayrollControls /\ Steady(PayrollPage)
      BY Everyones DEF PayrollPage, RequireAccessPage, Steady
    <2>2. \A b \in PayrollControls : One(b, "isRecording", Reloads)
      BY NotMade, Alone DEF PayrollControls, HandleCalculate,
        HandleRecordPayroll, HandleMarkPaid, Reloads
    <2> QED
      BY <2>1, <2>2 DEF Plain
  <1>15. Plain(ReceiptsPage, "isSubmitting", Reloads)
    <2>1. ReceiptsPage.buttons = {ReceiptRows} /\ Steady(ReceiptsPage)
      BY Everyones DEF ReceiptsPage, RequireAccessPage, Steady
    <2>2. One(ReceiptRows, "isSubmitting", Reloads)
      BY NotMade, Alone DEF ReceiptRows, HandleDownload, Reloads
    <2> QED
      BY <2>1, <2>2 DEF Plain
  <1>16. Plain(ReportsPage, "isSubmitting", Reloads)
    <2>1. ReportsPage.buttons = ReportControls /\ Steady(ReportsPage)
      BY Everyones DEF ReportsPage, RequireAccessPage, Steady
    <2>2. \A b \in ReportControls : One(b, "isSubmitting", Reloads)
      BY NotMade, Alone DEF ReportControls, HandleGenerate, HandleExport,
        Reloads
    <2> QED
      BY <2>1, <2>2 DEF Plain
  <1>17. Plain(PortalLayout, "isSubmitting", Reloads)
    <2>1. PortalLayout.buttons = {PortalPassword} /\ Steady(PortalLayout)
      BY Everyones DEF PortalLayout, RequireAccessPage, Steady,
        PortalTraineeProvider
    <2>2. One(PortalPassword, "isSubmitting", Reloads)
      BY NotMade, Alone DEF PortalPassword, Reloads
    <2> QED
      BY <2>1, <2>2 DEF Plain
  <1>18. Plain(PortalPage, "isSubmitting", Replies)
    <2>1. PortalPage.buttons = {Button(Anyone, {}, HandleRate)}
             /\ Steady(PortalPage)
      BY Everyones DEF PortalPage, PortalScreen, RequireAccessPage,
        Steady
    <2>2. One(Button(Anyone, {}, HandleRate), "isSubmitting", Replies)
      BY NotMade, Alone DEF HandleRate, Replies
    <2> QED
      BY <2>1, <2>2 DEF Plain
  <1>19. Plain(PortalReceiptsPage, "isSubmitting", Reloads)
    <2>1. PortalReceiptsPage.buttons =
             {Button(Anyone, {}, HandlePortalDownload)}
             /\ Steady(PortalReceiptsPage)
      BY Everyones DEF PortalReceiptsPage, PortalScreen,
        RequireAccessPage, Steady
    <2>2. One(Button(Anyone, {}, HandlePortalDownload), "isSubmitting", Reloads)
      BY NotMade, Alone DEF HandlePortalDownload, Reloads
    <2> QED
      BY <2>1, <2>2 DEF Plain
  <1>20. Plain(TenantsPage, "isSubmitting", Reloads)
    <2>1. TenantsPage.buttons = {TenantRows} /\ Steady(TenantsPage)
      BY Everyones DEF TenantsPage, RequireAccessPage, Steady
    <2>2. One(TenantRows, "isSubmitting", Reloads)
      BY NotMade, Alone DEF TenantRows, HandleTenantStatus, Reloads
    <2> QED
      BY <2>1, <2>2 DEF Plain
  <1>21. Plain(TenantPage, "isSubmitting", Replies)
    <2>1. TenantPage.buttons = {TenantForm, TenantActions}
             /\ Steady(TenantPage)
      BY Everyones DEF TenantPage, RequireAccessPage, Steady
    <2>2. One(TenantForm, "isSubmitting", Replies)
      BY NotMade, Alone DEF TenantForm, HandleSaveTenant, Replies
    <2>3. One(TenantActions, "isSubmitting", Replies)
      BY NotMade, Alone DEF TenantActions, HandleOneTenantStatus, Replies
    <2> QED
      BY <2>1, <2>2, <2>3 DEF Plain
  <1>22. Plain(NewTenantPage, "isSubmitting", Reloads)
    <2>1. NewTenantPage.buttons = {NewTenantNavigation}
             /\ Steady(NewTenantPage)
      BY Everyones DEF NewTenantPage, RequireAccessPage, Steady
    <2>2. One(NewTenantNavigation, "isSubmitting", Reloads)
      BY NotMade, Alone DEF NewTenantNavigation, HandleCreateTenant,
        Reloads
    <2> QED
      BY <2>1, <2>2 DEF Plain
  <1>23. Plain(LeadsPage, "isSubmitting", Reloads)
    <2>1. LeadsPage.buttons = LeadRows /\ Steady(LeadsPage)
      BY Everyones DEF LeadsPage, RequireAccessPage, Steady
    <2>2. \A b \in LeadRows : One(b, "isSubmitting", Reloads)
      BY NotMade, Alone DEF LeadRows, UpdateLead, RemoveLead, Reloads
    <2> QED
      BY <2>1, <2>2 DEF Plain
  <1>24. Plain(SettingsPage, "isSubmitting", Replies)
    <2>1. SettingsPage.buttons = {LeadEmailForm} /\ Steady(SettingsPage)
      BY Everyones DEF SettingsPage, RequireAccessPage, Steady
    <2>2. One(LeadEmailForm, "isSubmitting", Replies)
      BY NotMade, Alone DEF LeadEmailForm, SaveSettings, Replies
    <2> QED
      BY <2>1, <2>2 DEF Plain
  <1>25. Plain(DashboardPage, "none", {})
    BY Everyones DEF DashboardPage, RequireAccessPage, Steady, Plain
  <1>26. Plain(TraineesPage, "none", {})
    BY Everyones DEF TraineesPage, RequireAccessPage, Steady, Plain
  <1>27. Plain(CaptainsPage, "none", {})
    BY Everyones DEF CaptainsPage, RequireAccessPage, Steady, Plain
  <1>28. Plain(GroupsPage, "none", {})
    BY Everyones DEF GroupsPage, RequireAccessPage, Steady, Plain
  <1>29. Plain(FinancePage, "none", {})
    BY Everyones DEF FinancePage, RequireAccessPage, Steady, Plain
  <1>30. Plain(PortalAttendancePage, "none", {})
    BY Everyones DEF PortalAttendancePage, PortalScreen, RequireAccessPage,
      Steady, Plain
  <1>31. Plain(PortalSchedulePage, "none", {})
    BY Everyones DEF PortalSchedulePage, PortalScreen, RequireAccessPage,
      Steady, Plain
  <1>32. Plain(PortalSubscriptionPage, "none", {})
    BY Everyones DEF PortalSubscriptionPage, PortalScreen,
      RequireAccessPage, Steady, Plain
  <1>33. Plain(SuperAdminLayout, "none", {})
    BY Everyones DEF SuperAdminLayout, RequireAccessPage, Steady, Plain
  <1>34. Plain(SchedulePage, "isSubmitting", Reloads)
    <2>1. SchedulePage.buttons = SessionModal /\ Steady(SchedulePage)
      BY Everyones DEF SchedulePage, RequireAccessPage, Steady
    <2>2. \A b \in SessionModal : One(b, "isSubmitting", Reloads)
      BY NotMade, Alone DEF SessionModal, HandleCancel, HandleReschedule,
        Reloads
    <2> QED
      BY <2>1, <2>2 DEF Plain
  <1> QED
    BY <1>1, <1>2, <1>3, <1>4, <1>5, <1>6, <1>7, <1>8, <1>9, <1>10, <1>11,
      <1>12, <1>13, <1>14, <1>15, <1>16, <1>17, <1>18, <1>19, <1>20, <1>21,
      <1>22, <1>23, <1>24, <1>25, <1>26, <1>27, <1>28, <1>29, <1>30, <1>31,
      <1>32, <1>33, <1>34

\* Of two buttons that make the same row, neither can be pressed while the
\* other's handler runs.
KeepApart(b, c) ==
    Makes(b.what.handler) \cap Makes(c.what.handler) # {} =>
       b.what.handler.flag \in c.what.waits \ {"none"}

\* Only the first call of a handler makes it give up, and no two make the same
\* row.
GoesOn(h) ==
    /\ Len(h.calls) \in 1..2 /\ DOMAIN h.calls = 1..Len(h.calls)
    /\ h.after \in Reloads \cup Replies
    /\ Len(h.calls) = 2 =>
          /\ h.calls[2].refused # "stops"
          /\ ~ /\ h.calls[1].route.kind = "create"
               /\ h.calls[2].route.kind = "create"
               /\ h.calls[1].route.name = h.calls[2].route.name

\* The answer to every call counts.
Heeds(h) ==
    /\ Len(h.calls) = 2 => h.calls[1].refused = "stops"
    /\ h.calls[Len(h.calls)].refused # "ignores"

\* What the proofs use of a page: where one handler shows its answer, none
\* asks again or changes what is shown in another way.
Rules(page) ==
    /\ Steady(page)
    /\ \A b \in page.buttons : GoesOn(b.what.handler)
    /\ \A b, c \in page.buttons :
          b.what.handler.after = "show" => c.what.handler.after \in Replies

Guarded(page) == \A b, c \in page.buttons : KeepApart(b, c)

Heedful(page) == \A b \in page.buttons : Heeds(b.what.handler)

LEMMA OneMakes ==
  ASSUME NEW b, NEW own, NEW afters, One(b, own, afters)
  PROVE  LET r == b.what.handler.calls[1].route IN
         /\ r.kind # "create" => Makes(b.what.handler) = {}
         /\ Makes(b.what.handler) \subseteq {r.name}
  BY DEF One, Makes

LEMMA OneGoesOn ==
  ASSUME NEW b, NEW own, NEW afters, One(b, own, afters),
         afters \subseteq Reloads \cup Replies
  PROVE  GoesOn(b.what.handler) /\ Heeds(b.what.handler)
  BY DEF One, GoesOn, Heeds

LEMMA PlainRules ==
  ASSUME NEW page, NEW own, NEW afters, Plain(page, own, afters),
         \/ own # "none" /\ afters \in {Reloads, Replies}
         \/ afters = {}
  PROVE  Rules(page) /\ Guarded(page) /\ Heedful(page)
  <1>1. \A b \in page.buttons : afters \in {Reloads, Replies} /\ own # "none"
    BY DEF Plain, One
  <1>2. \A b \in page.buttons : GoesOn(b.what.handler) /\ Heeds(b.what.handler)
    BY <1>1, OneGoesOn DEF Plain
  <1>3. ASSUME NEW b \in page.buttons, NEW c \in page.buttons
        PROVE  /\ KeepApart(b, c)
               /\ b.what.handler.after = "show" =>
                     c.what.handler.after \in Replies
    <2>1. Makes(b.what.handler) # {} =>
             b.what.handler.flag = own
      BY OneMakes DEF Plain, One
    <2>2. Makes(c.what.handler) # {} => own \in c.what.waits
      BY OneMakes DEF Plain, One
    <2>3. b.what.handler.after = "show" => c.what.handler.after \in Replies
      BY <1>1 DEF Plain, One, Reloads, Replies
    <2> QED
      BY <1>1, <2>1, <2>2, <2>3 DEF KeepApart
  <1>4. Steady(page)
    BY DEF Plain
  <1> QED
    BY <1>2, <1>3, <1>4 DEF Rules, Guarded, Heedful

LEMMA UsersRules ==
  /\ Rules(UsersPage) /\ Guarded(UsersPage)
  /\ \A b \in UsersPage.buttons : b.what.handler.after # "leave"
  <1> DEFINE flag == "isSubmitting"
             twice == Button(Only("ADMIN"), {flag}, HandleUpdateUser)
             new == Button(Only("ADMIN"), {flag}, HandleCreateUser)
  <1>1. /\ UsersPage.buttons = UserRows \cup {new, twice}
        /\ Steady(UsersPage)
    BY Everyones DEF UsersPage, RequireAccessPage, Steady, UserDialog
  <1>2. \A b \in UserRows : One(b, flag, Reloads)
    BY NotMade, Alone DEF UserRows, HandleDeactivateUser, HandlePasswordReset,
      Reloads
  <1>3. One(new, flag, Reloads)
    BY Alone DEF HandleCreateUser, Reloads
  <1>4. /\ twice.what.handler.calls = <<Blind(PatchUser), Blind(PatchUser)>>
        /\ twice.what.handler.after = "reload"
    BY DEF Button, Item, HandleUpdateUser, Handler
  <1> HIDE DEF twice, new
  <1>5. /\ GoesOn(twice.what.handler)
        /\ Makes(twice.what.handler) = {}
    BY <1>4, NotMade DEF GoesOn, Makes, Blind, Reloads
  <1>6. \A b \in UsersPage.buttons :
           \/ One(b, flag, Reloads)
           \/ b = twice
    BY <1>1, <1>2, <1>3
  <1>7. \A b \in UsersPage.buttons :
           /\ GoesOn(b.what.handler) 
           /\ b.what.handler.after # "leave" /\ b.what.handler.after # "show"
    <2>1. \A b \in UserRows : b.what.handler.after \in {"reload", "keep"}
      BY DEF UserRows, HandleDeactivateUser, HandlePasswordReset, Button, Item,
        Handler
    <2>2. new.what.handler.after = "reload"
      BY DEF new, HandleCreateUser, Button, Item, Handler
    <2> QED
      BY <1>1, <1>2, <1>3, <1>4, <1>5, <2>1, <2>2, OneGoesOn
  <1>8. ASSUME NEW b \in UsersPage.buttons, NEW c \in UsersPage.buttons
        PROVE  KeepApart(b, c)
    <2>1. \A x \in UsersPage.buttons : Makes(x.what.handler) # {} =>
             x.what.handler.flag = flag /\ flag \in x.what.waits
      BY <1>5, <1>6, OneMakes DEF One
    <2> QED
      BY <1>7, <2>1 DEF KeepApart
  <1> QED
    BY <1>1, <1>7, <1>8 DEF Rules, Guarded

\* The form may be opened again, and sent again, while it is saving.
LEMMA FeedbackRules == Rules(FeedbackPanel) /\ Heedful(FeedbackPanel)
  <1>1. FeedbackPanel.buttons = {FeedbackForm} /\ Steady(FeedbackPanel)
    BY Everyones DEF FeedbackPanel, RequireAccessPage, Steady
  <1>2. /\ FeedbackForm.what.handler.calls = <<Call(CreateFeedback)>>
        /\ FeedbackForm.what.handler.after = "reload"
    BY DEF FeedbackForm, HandleFeedback, Button, Item, Handler
  <1>3. /\ GoesOn(FeedbackForm.what.handler)
        /\ Heeds(FeedbackForm.what.handler)
    BY <1>2 DEF GoesOn, Heeds, Call, Reloads
  <1> QED
    BY <1>1, <1>2, <1>3 DEF Rules, Heedful

LEMMA NewTraineeRules ==
  /\ Rules(NewTraineePage) /\ Guarded(NewTraineePage)
  /\ Heedful(NewTraineePage)
  <1> DEFINE flag == "isSubmitting"
  <1>1. NewTraineePage.buttons = {EnrollStep, PersonalStep}
           /\ Steady(NewTraineePage)
    BY DEF NewTraineePage, RequireAccessPage, Steady
  <1>2. One(PersonalStep, flag, Reloads)
    BY Alone DEF PersonalStep, HandleRegisterOnly, Reloads
  <1>3. /\ EnrollStep.what.handler.calls =
              <<Call(CreateTrainee), Told(Enroll)>>
        /\ EnrollStep.what.handler.after = "leave"
        /\ EnrollStep.what.handler.flag = flag
              /\ EnrollStep.what.waits = {flag}
        /\ PersonalStep.what.handler.flag = flag
              /\ PersonalStep.what.waits = {flag}
    BY DEF EnrollStep, PersonalStep, HandleRegisterOnly, Button, Item,
      HandleRegister, Handler
  <1>4. CreateTrainee.name # Enroll.name
    BY DEF CreateTrainee, Enroll, Route
  <1>5. GoesOn(EnrollStep.what.handler) /\ Heeds(EnrollStep.what.handler)
    BY <1>3, <1>4 DEF GoesOn, Heeds, Call, Told, Reloads
  <1>6. GoesOn(PersonalStep.what.handler) /\ Heeds(PersonalStep.what.handler)
    BY <1>2, OneGoesOn
  <1>7. PersonalStep.what.handler.after # "show"
           /\ EnrollStep.what.handler.after # "show"
    BY <1>2, <1>3 DEF One, Reloads
  <1>8. \A b, c \in NewTraineePage.buttons : KeepApart(b, c)
    BY <1>1, <1>3 DEF KeepApart
  <1> QED
    BY <1>1, <1>5, <1>6, <1>7, <1>8 DEF Rules, Guarded, Heedful

LEMMA TraineeRules ==
  Rules(TraineePage) /\ Guarded(TraineePage) /\ Heedful(TraineePage)
  <1> DEFINE paying == "isRecordingPayment"
             enrolling == "isEnrolling"
             paid == "POST subscriptions/[id]/payments"
  <1>1. /\ TraineePage.buttons =
              TraineeHeader \cup EnrollDialog
                 \cup {PaymentDialog, AssignDialog}
        /\ Steady(TraineePage)
    BY Everyones DEF TraineePage, RequireAccessPage, Steady
  <1>2. \A b \in TraineeHeader : One(b, enrolling, Reloads)
    BY NotMade, Alone DEF TraineeHeader, HandleSaveTrainee, SetTraineeActive,
       Reloads
  <1>3. One(AssignDialog, enrolling, Reloads)
    BY NotMade, Alone DEF AssignDialog, HandleSaveAssignment, Reloads
  <1>4. \A b \in EnrollDialog : One(b, enrolling, Reloads)
    BY Alone DEF EnrollDialog, HandleEnroll, Reloads
  <1>5. One(PaymentDialog, paying, Reloads)
    BY Alone DEF PaymentDialog, HandleRecordPayment, Reloads
  <1>6. Makes(PaymentDialog.what.handler) \subseteq {paid}
    <2>1. PaymentDialog.what.handler.calls[1].route.name = paid
      BY DEF PaymentDialog, HandleRecordPayment, Button, Item, Handler, Call,
        RecordPayment, Route
    <2> QED
      BY <1>5, <2>1, OneMakes
  <1>7. \A b \in EnrollDialog : paid \notin Makes(b.what.handler)
    <2>1. Enroll.name # paid /\ Renew.name # paid
      BY DEF Enroll, Renew, Route
    <2>2. \A b \in EnrollDialog :
             b.what.handler.calls[1].route \in {Enroll, Renew}
      BY DEF EnrollDialog, HandleEnroll, Button, Item, Handler, Call
    <2> QED
      BY <1>4, <2>1, <2>2, OneMakes
  <1>8. \A b \in TraineeHeader \cup {AssignDialog} : Makes(b.what.handler) = {}
    <2>1. \A b \in TraineeHeader \cup {AssignDialog} :
             b.what.handler.calls[1].route \in {PatchTrainee, AssignTrainee}
      BY DEF TraineeHeader, HandleSaveTrainee, SetTraineeActive, AssignDialog,
        HandleSaveAssignment, Button, Item, Handler, Call
    <2> QED
      BY <1>2, <1>3, <2>1, OneMakes, NotMade
  <1>9. \A b \in TraineePage.buttons : One(b, enrolling, Reloads)
           \/ b = PaymentDialog
    BY <1>1, <1>2, <1>3, <1>4
  <1>10. \A b \in TraineePage.buttons : GoesOn(b.what.handler)
            /\ Heeds(b.what.handler) /\ b.what.handler.after # "show"
    <2>1. \A b \in TraineePage.buttons : b.what.handler.after # "show"
      BY <1>5, <1>9 DEF One, Reloads
    <2> QED
      BY <1>5, <1>9, <2>1, OneGoesOn
  <1>11. \A x \in TraineePage.buttons :
            x # PaymentDialog => paid \notin Makes(x.what.handler)
    BY <1>1, <1>7, <1>8
  <1>12. ASSUME NEW b \in TraineePage.buttons, NEW c \in TraineePage.buttons
         PROVE  KeepApart(b, c)
    <2>1. CASE b = PaymentDialog /\ c = PaymentDialog
      <3>1. Makes(b.what.handler) # {} =>
               b.what.handler.flag = paying /\ paying \in c.what.waits
        BY <1>5, <2>1, OneMakes DEF One
      <3> QED
        BY <1>10, <3>1 DEF KeepApart
    <2>2. CASE b # PaymentDialog /\ c # PaymentDialog
      <3>1. One(b, enrolling, Reloads) /\ One(c, enrolling, Reloads)
        BY <1>9, <2>2
      <3>2. /\ Makes(b.what.handler) # {} => b.what.handler.flag = enrolling
            /\ Makes(c.what.handler) # {} => enrolling \in c.what.waits
        BY <3>1, OneMakes DEF One
      <3> QED
        BY <1>10, <3>2 DEF KeepApart
    <2>3. CASE b = PaymentDialog /\ c # PaymentDialog
      <3>1. Makes(b.what.handler) \cap Makes(c.what.handler) = {}
        BY <1>6, <1>11, <2>3
      <3> QED
        BY <1>10, <3>1 DEF KeepApart
    <2>4. CASE b # PaymentDialog /\ c = PaymentDialog
      <3>1. Makes(b.what.handler) \cap Makes(c.what.handler) = {}
        BY <1>6, <1>11, <2>4
      <3> QED
        BY <1>10, <3>1 DEF KeepApart
    <2> QED
      BY <2>1, <2>2, <2>3, <2>4
  <1> QED
    BY <1>1, <1>10, <1>12 DEF Rules, Guarded, Heedful

LEMMA Ruled ==
  ASSUME NEW name \in DOMAIN Pages
  PROVE  /\ Rules(Pages[name])
         /\ name = "feedback" \/ Guarded(Pages[name])
         /\ \/ Heedful(Pages[name])
            \/ /\ name = "users"
               /\ \A b \in Pages[name].buttons :
                     b.what.handler.after # "leave"
  <1>1. \/ Pages[name] \in {DashboardLayout, BranchesPage, CaptainPage,
             NewCaptainPage, PlansPage, PlanPage, NewPlanPage, GroupPage,
             EditGroupPage, NewGroupPage, SchedulePage, AttendancePage,
             ExpensesPage, ManualIncomePage, PayrollPage, ReceiptsPage, ReportsPage,
             PortalLayout, PortalPage, PortalReceiptsPage, TenantsPage,
             TenantPage, NewTenantPage, LeadsPage, SettingsPage, DashboardPage,
             TraineesPage, CaptainsPage, GroupsPage, FinancePage,
             PortalAttendancePage, PortalSchedulePage, PortalSubscriptionPage,
             SuperAdminLayout}
        \/ name = "users" /\ Pages[name] = UsersPage
        \/ name = "trainee" /\ Pages[name] = TraineePage
        \/ name = "trainee_new" /\ Pages[name] = NewTraineePage
        \/ name = "feedback" /\ Pages[name] = FeedbackPanel
    BY DEF Pages
  <1>2. \A page \in {DashboardLayout, BranchesPage, CaptainPage,
    NewCaptainPage, PlansPage, PlanPage, NewPlanPage, GroupPage,
    EditGroupPage, NewGroupPage, SchedulePage, AttendancePage, ExpensesPage,
    ManualIncomePage, PayrollPage, ReceiptsPage, ReportsPage, PortalLayout,
    PortalPage, PortalReceiptsPage, TenantsPage, TenantPage, NewTenantPage,
    LeadsPage, SettingsPage, DashboardPage, TraineesPage, CaptainsPage,
    GroupsPage, FinancePage, PortalAttendancePage, PortalSchedulePage,
    PortalSubscriptionPage, SuperAdminLayout} :
       Rules(page) /\ Guarded(page) /\ Heedful(page)
    BY PlainPages, PlainRules
  <1> QED
    BY <1>1, <1>2, UsersRules, TraineeRules, NewTraineeRules, FeedbackRules

-----------------------------------------------------------------------------
(* The pages: what is left of a sequence, and what the steps keep *)

LEMMA Removed ==
  ASSUME NEW S, NEW s \in Seq(S), NEW i \in DOMAIN s
  PROVE  /\ RemoveAt(s, i) \in Seq(S)
         /\ Len(RemoveAt(s, i)) = Len(s) - 1
         /\ \A j \in 1..(Len(s) - 1) :
               RemoveAt(s, i)[j] = s[IF j < i THEN j ELSE j + 1]
  <1>1. i \in 1..Len(s) /\ Len(s) \in Nat
    OBVIOUS
  <1> DEFINE a == SubSeq(s, 1, i - 1)
             b == SubSeq(s, i + 1, Len(s))
  <1>2. /\ a \in Seq(S) /\ Len(a) = i - 1 /\ \A j \in 1..(i - 1) : a[j] = s[j]
    BY <1>1
  <1>3. /\ b \in Seq(S) /\ Len(b) = Len(s) - i
        /\ \A j \in 1..(Len(s) - i) : b[j] = s[i + j]
    BY <1>1
  <1>4. RemoveAt(s, i) = a \o b
    BY DEF RemoveAt
  <1> HIDE DEF a, b
  <1>5. a \o b \in Seq(S) /\ Len(a \o b) = Len(s) - 1
    BY <1>1, <1>2, <1>3
  <1>6. ASSUME NEW j \in 1..(Len(s) - 1)
        PROVE  (a \o b)[j] = s[IF j < i THEN j ELSE j + 1]
    <2>1. CASE j < i
      BY <1>1, <1>2, <1>3, <2>1
    <2>2. CASE j >= i
      <3>1. (a \o b)[j] = b[j - (i - 1)]
        BY <1>1, <1>2, <1>3, <2>2
      <3> QED
        BY <1>1, <1>3, <2>2, <3>1
    <2>3. j < i \/ j >= i
      BY <1>1
    <2> QED
      BY <2>1, <2>2, <2>3
  <1> QED
    BY <1>4, <1>5, <1>6

\* What is left, and that nothing else is gone.
LEMMA Rest ==
  ASSUME NEW S, NEW s \in Seq(S), NEW i \in DOMAIN s
  PROVE  LET r == RemoveAt(s, i) IN
         /\ r \in Seq(S)
         /\ \A k \in DOMAIN r : \E j \in DOMAIN s \ {i} : r[k] = s[j]
         /\ \A j \in DOMAIN s \ {i} : \E k \in DOMAIN r : r[k] = s[j]
         /\ \A k, l \in DOMAIN r : k # l =>
               \E j, m \in DOMAIN s \ {i} : j # m /\ r[k] = s[j] /\ r[l] = s[m]
  <1> DEFINE r == RemoveAt(s, i)
             at(k) == IF k < i THEN k ELSE k + 1
  <1>1. /\ r \in Seq(S) /\ DOMAIN r = 1..(Len(s) - 1)
        /\ \A k \in DOMAIN r : r[k] = s[at(k)]
        /\ i \in 1..Len(s) /\ Len(s) \in Nat /\ DOMAIN s = 1..Len(s)
    <2>1. r \in Seq(S) /\ Len(r) = Len(s) - 1
      BY Removed
    <2>2. \A k \in 1..(Len(s) - 1) : r[k] = s[at(k)]
      BY Removed
    <2> HIDE DEF r, at
    <2> QED
      BY <2>1, <2>2
  <1> HIDE DEF r
  <1>2. \A k \in DOMAIN r : at(k) \in DOMAIN s \ {i}
    BY <1>1
  <1>3. \A k, l \in DOMAIN r : k # l => at(k) # at(l)
    BY <1>1
  <1>4. ASSUME NEW j \in DOMAIN s \ {i}
        PROVE  \E k \in DOMAIN r : at(k) = j
    <2>1. CASE j < i
      BY <1>1, <2>1
    <2>2. CASE j > i
      <3>1. j - 1 \in DOMAIN r /\ at(j - 1) = j
        BY <1>1, <2>2
      <3> QED
        BY <3>1
    <2> QED
      BY <1>1, <2>1, <2>2
  <1> HIDE DEF at
  <1>5. \A k \in DOMAIN r : \E j \in DOMAIN s \ {i} : r[k] = s[j]
    BY <1>1, <1>2
  <1>6. \A j \in DOMAIN s \ {i} : \E k \in DOMAIN r : r[k] = s[j]
    BY <1>1, <1>4
  <1>7. \A k, l \in DOMAIN r : k # l =>
           \E j, m \in DOMAIN s \ {i} : j # m /\ r[k] = s[j] /\ r[l] = s[m]
    BY <1>1, <1>2, <1>3
  <1> QED
    BY <1>1, <1>5, <1>6, <1>7 DEF r

\* The handlers of a page.
Handlers(name) ==
    IF name = Nothing THEN {} ELSE {b.what.handler : b \in Pages[name].buttons}

Work(name) ==
    [handler : Handlers(name), step : 1..2, choice : 1..2,
     back : Load \cup {Nothing}, served : BOOLEAN, all : BOOLEAN,
     some : BOOLEAN, version : Nat]

\* A handler that runs: the first call it has had served is the first it knows
\* of, and one that heeds its answers has gone on only from calls served.
Job(name) ==
    {x \in Work(name) :
        /\ x.step \in DOMAIN x.handler.calls
        /\ x.step = 1 => x.some = x.served
        /\ Heeds(x.handler) => x.all = x.served}

Shown(name) ==
    [page : {name}, choice : 1..2, asked : Seq(Load),
     view : Load \cup {Nothing}, version : Nat, mine : Nat, failed : BOOLEAN,
     work : Seq(Job(name)),
     made : SUBSET UNION {Makes(h) : h \in Handlers(name)},
     repeated : BOOLEAN, told : Notice \cup {Nothing}]

Name == DOMAIN Pages \cup {Nothing}

LEMMA ClosedShown == Closed \in Shown(Nothing) /\ Closed.work = <<>>
  BY DEF Closed, Blank, Shown

LEMMA BlankShown == ASSUME NEW name \in Name PROVE Blank(name) \in Shown(name)
  BY DEF Blank, Shown

LEMMA Late ==
  ASSUME screen.page \in DOMAIN Pages
  PROVE  Page.late \in {"shown", "keyed", "dropped"} /\ Rules(Page)
  BY Ruled DEF Rules, Steady, Page

LEMMA WaitedIs ==
  ASSUME screen.page \in DOMAIN Pages, NEW s \in Shown(screen.page),
         NEW c \in 1..2
  PROVE  Waited(s, c) \in Seq(Load)
  <1>1. s.asked \in Seq(Load)
    BY DEF Shown
  <1>2. CASE \E i \in DOMAIN s.asked : s.asked[i].choice = c
    <2> DEFINE i == CHOOSE i \in DOMAIN s.asked : s.asked[i].choice = c
    <2>1. i \in DOMAIN s.asked
      BY <1>2
    <2>2. RemoveAt(s.asked, i) \in Seq(Load)
      BY <1>1, <2>1, Removed
    <2> QED
      BY <1>1, <1>2, <2>2, Late DEF Waited
  <1>3. CASE ~\E i \in DOMAIN s.asked : s.asked[i].choice = c
    BY <1>1, <1>3, Late DEF Waited
  <1> QED
    BY <1>2, <1>3

\* Asking changes what is waited for and whether the page shows an error.
LEMMA AskKeeps ==
  ASSUME screen.page \in DOMAIN Pages, NEW s \in Shown(screen.page),
         NEW c \in 1..2, NEW held
  PROVE  LET t == AskFor(held, s, c) IN
         /\ t \in Shown(screen.page)
         /\ t.choice = s.choice /\ t.view = s.view /\ t.version = s.version
         /\ t.mine = s.mine /\ t.work = s.work /\ t.made = s.made
         /\ t.repeated = s.repeated /\ t.told = s.told
  <1> DEFINE a == Append(Waited(s, c), [choice |-> c, version |-> s.version])
  <1>1. Waited(s, c) \in Seq(Load) /\ <<>> \in Seq(Load)
    BY WaitedIs
  <1>2. a \in Seq(Load)
    BY <1>1 DEF Shown, Load
  <1>3. \/ AskFor(held, s, c) = [s EXCEPT !.failed = FALSE, !.asked = <<>>]
        \/ AskFor(held, s, c) = [s EXCEPT !.failed = FALSE, !.asked = a]
        \/ AskFor(held, s, c) =
              [s EXCEPT !.failed = TRUE, !.asked = Waited(s, c)]
    BY DEF AskFor
  <1> HIDE DEF a
  <1>4. ASSUME NEW bad \in BOOLEAN, NEW asked \in Seq(Load),
               AskFor(held, s, c) = [s EXCEPT !.failed = bad, !.asked = asked]
        PROVE  LET t == AskFor(held, s, c) IN
               /\ t \in Shown(screen.page)
               /\ t.choice = s.choice /\ t.view = s.view
               /\ t.version = s.version /\ t.mine = s.mine
               /\ t.work = s.work /\ t.made = s.made
               /\ t.repeated = s.repeated /\ t.told = s.told
    BY <1>4 DEF Shown
  <1> QED
    BY <1>1, <1>2, <1>3, <1>4

\* A handler about to call.
Draft(name) ==
    {x \in Work(name) :
        /\ x.step \in DOMAIN x.handler.calls
        /\ x.step = 1 => ~x.some
        /\ Heeds(x.handler) => x.all}

Called(w, served, version) ==
    [w EXCEPT !.served = served, !.all = @ /\ served, !.some = @ \/ served,
              !.version = version]

Creating(w) == w.handler.calls[w.step].route.kind = "create"
Row(w) == w.handler.calls[w.step].route.name

LEMMA HandlerRules ==
  ASSUME NEW name \in DOMAIN Pages, NEW h \in Handlers(name)
  PROVE  GoesOn(h) /\ (Heeds(h) \/ (name = "users" /\ h.after # "leave"))
  <1>1. name # Nothing
    BY ScreensAssumption DEF ScreensAssumption
  <1>2. PICK b \in Pages[name].buttons : h = b.what.handler
    BY <1>1 DEF Handlers
  <1> DEFINE page == Pages[name]
  <1>3. Rules(page)
    BY Ruled
  <1>4. \/ Heedful(page)
        \/ name = "users" /\ \A x \in page.buttons :
              x.what.handler.after # "leave"
    BY Ruled
  <1>5. b \in page.buttons
    BY <1>2
  <1> HIDE DEF page
  <1>6. GoesOn(b.what.handler)
    BY <1>3, <1>5 DEF Rules
  <1>7. Heeds(b.what.handler)
           \/ (name = "users" /\ b.what.handler.after # "leave")
    BY <1>4, <1>5 DEF Heedful
  <1> QED
    BY <1>2, <1>6, <1>7

LEMMA DraftCalls ==
  ASSUME NEW name \in DOMAIN Pages, NEW w, w \in Draft(name) \/ w \in Job(name)
  PROVE  /\ w.handler \in Handlers(name)
         /\ w.step \in DOMAIN w.handler.calls
         /\ w.step \in 1..2 /\ Len(w.handler.calls) \in 1..2
         /\ Creating(w) => Row(w) \in Makes(w.handler)
  <1>1. /\ w.handler \in Handlers(name) /\ w.step \in 1..2
        /\ w.step \in DOMAIN w.handler.calls
    BY DEF Draft, Job, Work
  <1>2. Len(w.handler.calls) \in 1..2
    BY <1>1, HandlerRules DEF GoesOn
  <1> QED
    BY <1>1, <1>2 DEF Creating, Row, Makes

LEMMA CalledIs ==
  ASSUME NEW name \in DOMAIN Pages, NEW w \in Draft(name),
         NEW served \in BOOLEAN, NEW version \in Nat
  PROVE  LET j == Called(w, served, version) IN
         /\ j \in Job(name)
         /\ j.handler = w.handler /\ j.step = w.step /\ j.choice = w.choice
         /\ j.back = w.back /\ j.served = served /\ j.version = version
  BY DEF Called, Draft, Job, Work

LEMMA SendKeeps ==
  ASSUME NEW name \in DOMAIN Pages, NEW s \in Shown(name),
         NEW w \in Draft(name),
         NEW served \in BOOLEAN
  PROVE  LET t == Send(s, w, served) IN
         /\ t \in Shown(name)
         /\ t.choice = s.choice /\ t.asked = s.asked /\ t.view = s.view
         /\ t.mine = s.mine /\ t.failed = s.failed /\ t.told = s.told
         /\ t.version \in {s.version, s.version + 1}
         /\ t.work = Append(s.work, Called(w, served, t.version))
         /\ t.made = IF Creating(w) /\ served THEN s.made \cup {Row(w)}
                                              ELSE s.made
         /\ t.repeated =
               (s.repeated \/ ((Creating(w) /\ served) /\ Row(w) \in s.made))
  <1> DEFINE made == IF Creating(w) /\ served THEN s.made \cup {Row(w)}
                                              ELSE s.made
             version ==
                s.version + (IF served
                                /\ w.handler.calls[w.step].route.kind # "read"
                             THEN 1 ELSE 0)
             work == Append(s.work, Called(w, served, version))
             repeated == s.repeated
                \/ ((Creating(w) /\ served) /\ Row(w) \in s.made)
  <1>1. work \in Seq(Job(name))
    <2>1. version \in Nat
      BY DEF Shown
    <2> HIDE DEF version
    <2> QED
      BY <2>1, CalledIs DEF Shown
  <1>2. made \in SUBSET UNION {Makes(h) : h \in Handlers(name)}
    BY DraftCalls DEF Shown
  <1>3. version \in Nat /\ version \in {s.version, s.version + 1}
    BY DEF Shown
  <1>4. repeated \in BOOLEAN
    BY DEF Shown
  <1>5. Send(s, w, served) =
           [s EXCEPT !.work = work, !.version = version, !.repeated = repeated,
                     !.made = made]
    BY DEF Send, Creating, Row, Called
  <1> HIDE DEF work, made, version, repeated
  <1>6. Send(s, w, served) \in Shown(name)
    BY <1>1, <1>2, <1>3, <1>4, <1>5 DEF Shown
  <1>7. LET t == Send(s, w, served) IN
        /\ t.choice = s.choice /\ t.asked = s.asked /\ t.view = s.view
        /\ t.mine = s.mine /\ t.failed = s.failed /\ t.told = s.told
        /\ t.version = version /\ t.work = work /\ t.made = made
        /\ t.repeated = repeated
    BY <1>5 DEF Shown
  <1> QED
    BY <1>3, <1>6, <1>7 DEF work, made, repeated

Ends == {"done", "told", "failed"}

Said(w, says, lost) ==
    [says |-> says, all |-> w.all, some |-> w.some, lost |-> lost]

\* A handler that is over leaves the page, or leaves the others running.
LEMMA FinishKeeps ==
  ASSUME screen.page \in DOMAIN Pages, NEW s \in Shown(screen.page),
         NEW w \in Job(screen.page), NEW says \in Ends, NEW lost \in BOOLEAN
  PROVE  LET t == Finish(s, w, says, lost)
             told == Said(w, says, lost)
         IN  \/ /\ says # "failed" /\ w.handler.after = "leave"
                /\ t = [Closed EXCEPT !.told = told]
             \/ /\ t \in Shown(screen.page)
                /\ says = "failed" \/ w.handler.after # "leave"
                /\ t.choice = s.choice /\ t.version = s.version
                /\ t.work = s.work /\ t.repeated = s.repeated /\ t.told = told
                /\ t.made = IF says = "failed" /\ ~lost THEN s.made ELSE {}
  <1> DEFINE told == Said(w, says, lost)
             made == IF says = "failed" /\ ~lost THEN s.made ELSE {}
             u == [s EXCEPT !.told = told, !.made = made]
  <1>1. told \in Notice
    BY DEF Said, Ends, Job, Work, Notice
  <1>2. /\ u \in Shown(screen.page)
        /\ u.choice = s.choice /\ u.version = s.version /\ u.work = s.work
        /\ u.repeated = s.repeated /\ u.told = told /\ u.made = made
        /\ u.view = s.view
    BY <1>1 DEF Shown
  <1>3. Finish(s, w, says, lost) = IF says = "failed" THEN TakeBack(u, w)
           ELSE Follow(u, w)
    BY DEF Finish, Said
  <1>4. w.handler.after \in Reloads \cup Replies /\ w.choice \in 1..2
           /\ u.choice \in 1..2
        /\ w.back \in Load \cup {Nothing}
    <2>1. w.handler \in Handlers(screen.page) /\ w.choice \in 1..2
             /\ w.back \in Load \cup {Nothing}
      BY DEF Job, Work
    <2> QED
      BY <2>1, HandlerRules DEF GoesOn, Shown
  <1> HIDE DEF u, told, made
  <1>5. CASE says = "failed"
    <2>1. CASE w.handler.after = "optimistic"
      <3> DEFINE v == [u EXCEPT !.view = w.back]
      <3>1. v \in Shown(screen.page) /\ v.choice = s.choice
               /\ v.version = s.version /\ v.work = s.work
               /\ v.repeated = s.repeated /\ v.told = told /\ v.made = made
        BY <1>2, <1>4 DEF Shown
      <3>2. Finish(s, w, says, lost) = AskFor(shown, v, u.choice)
        BY <1>3, <1>5, <2>1 DEF TakeBack, Ask
      <3> HIDE DEF v
      <3> QED
        BY <1>4, <1>5, <3>1, <3>2, AskKeeps DEF told, made
    <2>2. CASE w.handler.after # "optimistic"
      BY <1>2, <1>3, <1>5, <2>2 DEF TakeBack, told, made
    <2> QED
      BY <2>1, <2>2
  <1>6. CASE says # "failed"
    <2> DEFINE v == [u EXCEPT !.mine = u.version]
    <2>1. v \in Shown(screen.page) /\ v.choice = s.choice
             /\ v.version = s.version /\ v.work = s.work
             /\ v.repeated = s.repeated /\ v.told = told /\ v.made = made
      BY <1>2 DEF Shown
    <2> HIDE DEF v
    <2>2. CASE w.handler.after = "reload"
      <3>1. Finish(s, w, says, lost) = AskFor(shown, v, w.choice)
        BY <1>3, <1>6, <2>2 DEF Follow, Ask, v
      <3> QED
        BY <1>4, <1>6, <2>1, <2>2, <3>1, AskKeeps DEF told, made
    <2>3. CASE w.handler.after = "optimistic"
      <3>1. Finish(s, w, says, lost) = AskFor(shown, v, u.choice)
        BY <1>3, <1>6, <2>3 DEF Follow, Ask, v
      <3> QED
        BY <1>4, <1>6, <2>1, <2>3, <3>1, AskKeeps DEF told, made
    <2>4. CASE w.handler.after \in {"mark", "show"}
      <3> DEFINE new == IF w.handler.after = "mark"
                        THEN Later(u.view.version, w.version) ELSE w.version
                 view == IF u.view = Nothing THEN Nothing
                         ELSE [u.view EXCEPT !.version = new]
                 mine == Later(u.mine, w.version)
      <3>1. w.version \in Nat
        BY DEF Job, Work
      <3>2. mine \in Nat
        BY <1>2, <3>1 DEF Shown, Later
      <3>3. u.view # Nothing => u.view \in Load /\ new \in Nat
        <4>1. u.view # Nothing => u.view \in Load /\ u.view.version \in Nat
          BY <1>2 DEF Shown, Load
        <4> QED
          BY <3>1, <4>1 DEF Later
      <3> HIDE DEF new
      <3>4. view \in Load \cup {Nothing}
        BY <3>3 DEF Load
      <3> USE DEF new
      <3>5. Finish(s, w, says, lost) =
               [u EXCEPT !.mine = mine, !.view = view]
        BY <1>3, <1>6, <2>4 DEF Follow
      <3> HIDE DEF view, mine, new
      <3> QED
        BY <1>2, <1>6, <2>4, <3>2, <3>4, <3>5 DEF Shown, told, made
    <2>5. CASE w.handler.after = "keep"
      BY <1>2, <1>3, <1>6, <2>5 DEF Follow, told, made
    <2>6. CASE w.handler.after = "leave"
      BY <1>2, <1>3, <1>6, <2>6 DEF Follow, told, made
    <2> QED
      BY <1>4, <2>2, <2>3, <2>4, <2>5, <2>6 DEF Reloads, Replies
  <1> QED
    BY <1>5, <1>6

-----------------------------------------------------------------------------
(* The pages: rows are made once, and handlers say what happened *)

\* A handler has made a row that its call was served for.
Has(w, row) ==
    \E k \in 1..w.step :
        /\ w.handler.calls[k].route.kind = "create"
        /\ w.handler.calls[k].route.name = row
        /\ k = w.step => w.served

\* No two handlers that run make the same row, and a row that was made belongs
\* to one that still runs.
Careful(s) ==
    /\ ~s.repeated
    /\ \A i, j \in DOMAIN s.work : i # j =>
          Makes(s.work[i].handler) \cap Makes(s.work[j].handler) = {}
    /\ \A row \in s.made : \E i \in DOMAIN s.work : Has(s.work[i], row)

\* What a handler said of its calls, and the one page that does not heed them.
Truthful(s) ==
    s.told # Nothing =>
        /\ s.told.says = "done" => s.told.all \/ s.page = "users"
        /\ s.told.says = "failed" /\ ~s.told.lost => ~s.told.some

LEMMA NothingOpens == Nothing \notin DOMAIN Pages
  BY ScreensAssumption DEF ScreensAssumption

LEMMA Two == \A a, b \in 1..2 : a < b => a = 1 /\ b = 2
  OBVIOUS

LEMMA NextDraft ==
  ASSUME NEW name, NEW w \in Job(name), 2 \in DOMAIN w.handler.calls,
         Heeds(w.handler) => w.all
  PROVE  LET v == [w EXCEPT !.step = 2] IN
         /\ v \in Draft(name) /\ v.handler = w.handler /\ v.step = 2
         /\ v.choice = w.choice /\ v.back = w.back
  <1> DEFINE v == [w EXCEPT !.step = 2]
  <1>1. /\ v \in Work(name)
        /\ v.handler = w.handler /\ v.step = 2
        /\ v.choice = w.choice /\ v.back = w.back /\ v.all = w.all
    BY DEF Job, Work
  <1> HIDE DEF v
  <1>2. v \in Draft(name)
    BY <1>1 DEF Draft
  <1> QED
    BY <1>1, <1>2 DEF v

LEMMA FirstDraft ==
  ASSUME NEW name,
         NEW w \in Work(name), w.step = 1, 1 \in DOMAIN w.handler.calls, w.all, ~w.some
  PROVE w \in Draft(name)
  BY DEF Draft

LEMMA HasMakes ==
  ASSUME NEW name \in DOMAIN Pages, NEW w \in Job(name), NEW row, Has(w, row)
  PROVE  row \in Makes(w.handler)
  <1>1. PICK k \in 1..w.step : /\ w.handler.calls[k].route.kind = "create"
                               /\ w.handler.calls[k].route.name = row
    BY DEF Has
  <1>2. w.handler \in Handlers(name) /\ w.step \in 1..2
           /\ w.step \in DOMAIN w.handler.calls
    BY DEF Job, Work
  <1>3. k \in DOMAIN w.handler.calls
    BY <1>2, HandlerRules DEF GoesOn
  <1> QED
    BY <1>1, <1>3 DEF Makes

LEMMA SendCareful ==
  ASSUME NEW name \in DOMAIN Pages, NEW s \in Shown(name),
         NEW w \in Draft(name),
         NEW served \in BOOLEAN
  PROVE  /\ ~s.repeated
         /\ \A i, j \in DOMAIN s.work : i # j =>
               Makes(s.work[i].handler) \cap Makes(s.work[j].handler) = {}
         /\ \A i \in DOMAIN s.work :
               Makes(s.work[i].handler) \cap Makes(w.handler) = {}
         /\ \A row \in s.made :
               \/ \E i \in DOMAIN s.work : Has(s.work[i], row)
               \/ /\ w.step = 2 /\ w.handler.calls[1].route.kind = "create"
                  /\ w.handler.calls[1].route.name = row
         => Careful(Send(s, w, served))
  <1> DEFINE t == Send(s, w, served)
             j == Called(w, served, t.version)
             n == Len(s.work) + 1
  <1>1. /\ j \in Job(name) /\ j.handler = w.handler /\ j.step = w.step
        /\ j.served = served
    <2>1. t.version \in Nat
      BY SendKeeps DEF Shown
    <2> HIDE DEF t
    <2> QED
      BY <2>1, CalledIs
  <1>2. /\ t.work = Append(s.work, j)
        /\ t.made = IF Creating(w) /\ served THEN s.made \cup {Row(w)}
              ELSE s.made
        /\ t.repeated = (s.repeated
              \/ ((Creating(w) /\ served) /\ Row(w) \in s.made))
    <2>1. t.work = Append(s.work, j)
      BY SendKeeps
    <2>2. t.made = IF Creating(w) /\ served THEN s.made \cup {Row(w)}
             ELSE s.made
      BY SendKeeps
    <2>3. t.repeated = (s.repeated
             \/ ((Creating(w) /\ served) /\ Row(w) \in s.made))
      BY SendKeeps
    <2> QED
      BY <2>1, <2>2, <2>3
  <1>3. s.work \in Seq(Job(name))
    BY DEF Shown
  <1>4. /\ w.handler \in Handlers(name) /\ w.step \in 1..2
        /\ w.step \in DOMAIN w.handler.calls /\ Len(w.handler.calls) \in 1..2
        /\ Creating(w) => Row(w) \in Makes(w.handler)
    BY DraftCalls
  <1>5. GoesOn(w.handler)
    BY <1>4, HandlerRules
  <1> SUFFICES ASSUME
         ~s.repeated,
         \A i, k \in DOMAIN s.work : i # k =>
            Makes(s.work[i].handler) \cap Makes(s.work[k].handler) = {},
         \A i \in DOMAIN s.work :
            Makes(s.work[i].handler) \cap Makes(w.handler) = {},
         \A row \in s.made :
            \/ \E i \in DOMAIN s.work : Has(s.work[i], row)
            \/ /\ w.step = 2 /\ w.handler.calls[1].route.kind = "create"
               /\ w.handler.calls[1].route.name = row
         PROVE Careful(t)
    OBVIOUS
  <1> HIDE DEF j, t
  <1>6. /\ DOMAIN t.work = 1..n /\ n \in Nat \ {0}
              /\ DOMAIN s.work = 1..(n - 1)
        /\ t.work[n] = j /\ \A i \in 1..(n - 1) : t.work[i] = s.work[i]
    BY <1>1, <1>2, <1>3
  <1>7. Creating(w) => Row(w) \notin s.made
    <2> SUFFICES ASSUME Creating(w), Row(w) \in s.made PROVE FALSE
      OBVIOUS
    <2>1. CASE \E i \in DOMAIN s.work : Has(s.work[i], Row(w))
      <3>1. PICK i \in DOMAIN s.work : Has(s.work[i], Row(w))
        BY <2>1
      <3>2. s.work[i] \in Job(name)
        BY <1>3
      <3>3. Row(w) \in Makes(s.work[i].handler)
        BY <3>1, <3>2, HasMakes
      <3> QED
        BY <1>4, <3>3
    <2>2. CASE /\ w.step = 2 /\ w.handler.calls[1].route.kind = "create"
               /\ w.handler.calls[1].route.name = Row(w)
      BY <1>4, <1>5, <2>2 DEF GoesOn, Creating, Row
    <2> QED
      BY <2>1, <2>2
  <1>8. ~t.repeated
    BY <1>2, <1>7
  <1>9. ASSUME NEW i \in DOMAIN t.work, NEW k \in DOMAIN t.work, i # k
        PROVE  Makes(t.work[i].handler) \cap Makes(t.work[k].handler) = {}
    <2>1. CASE i = n
      BY <1>1, <1>6, <1>9, <2>1
    <2>2. CASE k = n
      BY <1>1, <1>6, <1>9, <2>2
    <2>3. CASE i # n /\ k # n
      <3>1. i \in DOMAIN s.work /\ k \in DOMAIN s.work
        BY <1>6, <2>3
      <3>2. t.work[i] = s.work[i] /\ t.work[k] = s.work[k]
        BY <1>6, <3>1
      <3> QED
        BY <1>9, <3>1, <3>2
    <2> QED
      BY <2>1, <2>2, <2>3
  <1>10. ASSUME NEW row \in t.made
         PROVE  \E i \in DOMAIN t.work : Has(t.work[i], row)
    <2>1. CASE row \in s.made
      <3>1. CASE \E i \in DOMAIN s.work : Has(s.work[i], row)
        BY <1>6, <3>1
      <3>2. CASE /\ w.step = 2 /\ w.handler.calls[1].route.kind = "create"
                 /\ w.handler.calls[1].route.name = row
        <4>1. Has(j, row)
          BY <1>1, <3>2 DEF Has
        <4> QED
          BY <1>6, <4>1
      <3> QED
        BY <2>1, <3>1, <3>2
    <2>2. CASE Creating(w) /\ served /\ row = Row(w)
      <3>1. Has(j, row)
        <4>1. j.step = w.step /\ j.handler = w.handler /\ j.served
          BY <1>1, <2>2
        <4>2. /\ w.handler.calls[w.step].route.kind = "create"
              /\ w.handler.calls[w.step].route.name = row
          BY <2>2 DEF Creating, Row
        <4>3. w.step \in 1..w.step
          BY <1>4
        <4> QED
          BY <4>1, <4>2, <4>3 DEF Has
      <3> QED
        BY <1>6, <3>1
    <2> QED
      BY <1>2, <2>1, <2>2
  <1> QED
    BY <1>8, <1>9, <1>10 DEF Careful, t

\* A handler whose button is pressed.
Fresh(h) ==
    [handler |-> h, step |-> 1, choice |-> screen.choice, back |-> screen.view,
     served |-> FALSE, all |-> TRUE, some |-> FALSE, version |-> 0]

\* A page is open.
Here == screen.page \in DOMAIN Pages /\ screen \in Shown(screen.page)

\* What pressing a button does.
LEMMA Pressing ==
  ASSUME Here, NEW button \in Page.buttons, NEW served \in BOOLEAN,
         Press(button, served)
  PROVE  LET h == button.what.handler
             w == Fresh(h)
             t == screen'
         IN  /\ w \in Draft(screen.page) /\ h \in Handlers(screen.page)
             /\ button.what.waits \cap Flags = {}
             /\ h.after \in {"mark", "show"} => screen.view # Nothing
             /\ t \in Shown(screen.page) /\ t.told = Nothing
             /\ t.choice = screen.choice /\ t.mine = screen.mine
             /\ t.version \in {screen.version, screen.version + 1}
             /\ t.failed = screen.failed
             /\ t.work = Append(screen.work, Called(w, served, t.version))
             /\ t.made = Send(screen, w, served).made
             /\ t.repeated = Send(screen, w, served).repeated
             /\ t.work = Send(screen, w, served).work
             /\ \/ h.after = "optimistic"
                \/ t.asked = screen.asked /\ t.view = screen.view
             /\ h.after = "optimistic" =>
                   /\ t.asked = <<>>
                   /\ \/ t.view = screen.view
                      \/ /\ screen.view # Nothing /\ t.view \in Load
                         /\ t.view.choice = screen.view.choice
  <1> DEFINE h == button.what.handler
             w == Fresh(h)
             s == [screen EXCEPT !.told = Nothing]
             u == Send(s, w, served)
  <1>1. h \in Handlers(screen.page)
    BY NothingOpens DEF Here, Handlers, Page
  <1>2. w \in Draft(screen.page)
    <2>1. 1 \in DOMAIN h.calls
      BY <1>1, HandlerRules DEF Here, GoesOn
    <2>2. screen.choice \in 1..2 /\ screen.view \in Load \cup {Nothing}
      BY DEF Here, Shown
    <2> HIDE DEF h
    <2>3. w \in Work(screen.page)
      BY <1>1, <2>2 DEF Fresh, Work
    <2>4. w.step = 1 /\ w.handler = h /\ w.all = TRUE /\ w.some = FALSE
      BY DEF Fresh
    <2> HIDE DEF w
    <2> QED
      BY <2>1, <2>3, <2>4, FirstDraft
  <1>3. /\ s \in Shown(screen.page) /\ s.told = Nothing
        /\ s.choice = screen.choice /\ s.mine = screen.mine
        /\ s.version = screen.version /\ s.failed = screen.failed
        /\ s.work = screen.work /\ s.made = screen.made
        /\ s.repeated = screen.repeated /\ s.asked = screen.asked
        /\ s.view = screen.view
    BY DEF Here, Shown
  <1>4. /\ button.what.waits \cap Flags = {}
        /\ h.after \in {"mark", "show"} => screen.view # Nothing
        /\ screen' = IF h.after # "optimistic" THEN u
                     ELSE [u EXCEPT !.asked = <<>>,
                              !.view = IF u.view = Nothing THEN Nothing
                                       ELSE [u.view EXCEPT !.version =
                                          u.version]]
    BY DEF Press, Fresh
  <1> HIDE DEF w, s
  <1>5. /\ u \in Shown(screen.page) /\ u.told = Nothing
        /\ u.choice = screen.choice /\ u.mine = screen.mine
        /\ u.version \in {screen.version, screen.version + 1}
        /\ u.failed = screen.failed
        /\ u.work = Append(screen.work, Called(w, served, u.version))
        /\ u.asked = screen.asked /\ u.view = screen.view
    <2>1. screen.page \in DOMAIN Pages
      BY DEF Here
    <2>2. u \in Shown(screen.page)
      BY <1>2, <1>3, <2>1, SendKeeps
    <2>3. /\ u.told = s.told /\ u.choice = s.choice /\ u.mine = s.mine
          /\ u.version \in {s.version, s.version + 1}
          /\ u.failed = s.failed /\ u.asked = s.asked /\ u.view = s.view
      BY <1>2, <1>3, <2>1, SendKeeps
    <2>4. u.work = Append(s.work, Called(w, served, u.version))
      BY <1>2, <1>3, <2>1, SendKeeps
    <2> QED
      BY <1>3, <2>2, <2>3, <2>4
  <1>6. /\ u.made = Send(screen, w, served).made
        /\ u.repeated = Send(screen, w, served).repeated
        /\ u.work = Send(screen, w, served).work
    <2>1. screen.page \in DOMAIN Pages /\ screen \in Shown(screen.page)
      BY DEF Here
    <2>2. u.made = IF Creating(w) /\ served THEN s.made \cup {Row(w)}
             ELSE s.made
      BY <1>2, <1>3, <2>1, SendKeeps
    <2>3. Send(screen, w, served).made =
             IF Creating(w) /\ served THEN screen.made \cup {Row(w)}
                ELSE screen.made
      BY <1>2, <2>1, SendKeeps
    <2>4. u.repeated = (s.repeated
             \/ ((Creating(w) /\ served) /\ Row(w) \in s.made))
      BY <1>2, <1>3, <2>1, SendKeeps
    <2>5. Send(screen, w, served).repeated =
             (screen.repeated \/ ((Creating(w) /\ served)
                /\ Row(w) \in screen.made))
      BY <1>2, <2>1, SendKeeps
    <2>6. u.work = Send(screen, w, served).work
      <3>1. s.version = screen.version /\ s.work = screen.work
        BY <1>3
      <3> QED
        BY <3>1 DEF u, Send
    <2> QED
      BY <1>3, <2>2, <2>3, <2>4, <2>5, <2>6
  <1> HIDE DEF u
  <1>7. CASE h.after # "optimistic"
    BY <1>1, <1>2, <1>4, <1>5, <1>6, <1>7 DEF w
  <1>8. CASE h.after = "optimistic"
    <2> DEFINE v == IF u.view = Nothing THEN Nothing
                    ELSE [u.view EXCEPT !.version = u.version]
    <2>1. v \in Load \cup {Nothing}
             /\ (u.view # Nothing => v \in Load /\ v.choice = u.view.choice)
          /\ (u.view = Nothing => v = Nothing)
      BY <1>5 DEF Shown, Load
    <2>2. screen' = [u EXCEPT !.asked = <<>>, !.view = v]
      BY <1>4, <1>8
    <2> HIDE DEF v
    <2>3. <<>> \in Seq(Load)
      OBVIOUS
    <2>4. screen' \in Shown(screen.page)
      BY <1>5, <2>1, <2>2, <2>3 DEF Shown
    <2>5. LET t == screen' IN
          /\ t.told = u.told /\ t.choice = u.choice /\ t.mine = u.mine
          /\ t.version = u.version /\ t.failed = u.failed /\ t.work = u.work
          /\ t.made = u.made /\ t.repeated = u.repeated
          /\ t.asked = <<>> /\ t.view = v
      BY <1>5, <2>2 DEF Shown
    <2> QED
      BY <1>1, <1>2, <1>4, <1>5, <1>6, <1>8, <2>1, <2>4, <2>5 DEF w
  <1> QED
    BY <1>7, <1>8

\* The page while handler i is looked at.
Without(i) == [screen EXCEPT !.work = RemoveAt(@, i)]

LEMMA WithoutIs ==
  ASSUME Here, NEW i \in DOMAIN screen.work
  PROVE  LET s == Without(i) IN
         /\ screen.work[i] \in Job(screen.page)
         /\ s \in Shown(screen.page) /\ s.work = RemoveAt(screen.work, i)
         /\ s.choice = screen.choice /\ s.mine = screen.mine
         /\ s.version = screen.version /\ s.failed = screen.failed
         /\ s.made = screen.made /\ s.told = screen.told
         /\ s.repeated = screen.repeated /\ s.asked = screen.asked
         /\ s.view = screen.view
  <1>1. RemoveAt(screen.work, i) \in Seq(Job(screen.page))
    BY Removed DEF Here, Shown
  <1>2. screen.work[i] \in Job(screen.page)
    BY DEF Here, Shown
  <1> DEFINE r == RemoveAt(screen.work, i)
  <1>3. Without(i) = [screen EXCEPT !.work = r]
    BY DEF Without
  <1> HIDE DEF r
  <1> QED
    BY <1>1, <1>2, <1>3 DEF Here, Shown, r

\* What an answer does: the handler is over, or it calls again.
LEMMA Answering ==
  ASSUME Here, NEW i \in DOMAIN screen.work, NEW served \in BOOLEAN,
         Answer(i, served)
  PROVE  LET w == screen.work[i]
             next == [w EXCEPT !.step = 2]
         IN  \/ \E says \in Ends :
                   /\ screen' = Finish(Without(i), w, says, FALSE)
                   /\ says = "failed" => w.step = 1 /\ ~w.served
                   /\ says = "done" /\ Heeds(w.handler) => w.served
                   /\ InOrder => AnswersInOrder(i)
             \/ /\ w.step = 1 /\ next \in Draft(screen.page)
                /\ next.handler = w.handler /\ next.step = 2
                /\ next.choice = w.choice /\ next.back = w.back
                /\ screen' = Send(Without(i), next, served)
  <1> DEFINE w == screen.work[i]
             call == w.handler.calls[w.step]
             goesOn == w.served \/ call.refused # "stops"
             next == [w EXCEPT !.step = @ + 1]
  <1>1. w \in Job(screen.page)
    BY WithoutIs
  <1>2. /\ w.handler \in Handlers(screen.page) /\ w.step \in 1..2
        /\ Len(w.handler.calls) \in 1..2
    BY <1>1, DraftCalls DEF Here
  <1>3. GoesOn(w.handler)
    BY <1>2, HandlerRules DEF Here
  <1>4. w.step \in DOMAIN w.handler.calls
    BY <1>1 DEF Job
  <1>5. \/ ~goesOn /\ screen' = Finish(Without(i), w, "failed", FALSE)
        \/ /\ w.step = Len(w.handler.calls) /\ goesOn
           /\ screen' = Finish(Without(i), w,
                               IF w.served \/ call.refused = "ignores"
                               THEN "done" ELSE "told", FALSE)
        \/ /\ w.step < Len(w.handler.calls) /\ goesOn
           /\ screen' = Send(Without(i), next, served)
    BY DEF Answer, Without
  <1>9. InOrder => AnswersInOrder(i)
    BY DEF Answer
  <1>6. CASE ~goesOn /\ screen' = Finish(Without(i), w, "failed", FALSE)
    <2>1. ~w.served /\ w.step = 1
      BY <1>2, <1>3, <1>4, <1>6 DEF GoesOn
    <2> QED
      BY <1>6, <1>9, <2>1 DEF Ends
  <1>7. CASE /\ w.step = Len(w.handler.calls) /\ goesOn
             /\ screen' = Finish(Without(i), w,
                                 IF w.served \/ call.refused = "ignores"
                                 THEN "done" ELSE "told", FALSE)
    <2>1. Heeds(w.handler) => call.refused # "ignores"
      BY <1>7 DEF Heeds
    <2>2. CASE w.served \/ call.refused = "ignores"
      BY <1>7, <1>9, <2>1, <2>2 DEF Ends
    <2>3. CASE ~(w.served \/ call.refused = "ignores")
      BY <1>7, <1>9, <2>3 DEF Ends
    <2> QED
      BY <2>2, <2>3
  <1>8. CASE /\ w.step < Len(w.handler.calls) /\ goesOn
             /\ screen' = Send(Without(i), next, served)
    <2>1. w.step = 1 /\ Len(w.handler.calls) = 2
      BY <1>2, <1>8, Two
    <2>2. 2 \in DOMAIN w.handler.calls
      BY <1>3, <2>1 DEF GoesOn
    <2>3. Heeds(w.handler) => w.all
      BY <1>1, <1>8, <2>1 DEF Heeds, Job
    <2>4. next = [w EXCEPT !.step = 2]
      BY <2>1
    <2> HIDE DEF w, next, call, goesOn
    <2>5. /\ next \in Draft(screen.page) /\ next.handler = w.handler
          /\ next.step = 2 /\ next.choice = w.choice /\ next.back = w.back
      BY <1>1, <2>2, <2>3, <2>4, NextDraft
    <2> QED
      BY <1>8, <2>1, <2>4, <2>5 DEF w
  <1> QED
    BY <1>5, <1>6, <1>7, <1>8

\* Types, and what the handlers that run have done so far.
Doing ==
    /\ screen.page \in Name /\ screen \in Shown(screen.page)
    /\ screen.page = "feedback" \/ Careful(screen)
    /\ Truthful(screen)

LEMMA DoingInit == WebInit => Doing
  <1> SUFFICES ASSUME WebInit PROVE Doing
    OBVIOUS
  <1>1. /\ screen = Closed /\ Closed.page = Nothing /\ Closed.made = {}
        /\ Closed.told = Nothing /\ Closed.repeated = FALSE
    BY DEF WebInit, Closed, Blank
  <1> QED
    BY <1>1, ClosedShown DEF Doing, Careful, Truthful, Name

\* A page that closes forgets its handlers.
LEMMA DoingClosed ==
  ASSUME NEW told \in Notice \cup {Nothing},
         screen' = [Closed EXCEPT !.told = told],
         told # Nothing =>
            /\ told.says = "done" => told.all
            /\ told.says = "failed" /\ ~told.lost => ~told.some
  PROVE  Doing'
  <1>1. /\ screen'.page = Nothing /\ screen'.made = {} /\ screen'.told = told
        /\ screen'.repeated = FALSE /\ screen'.work = <<>>
    BY DEF Closed, Blank
  <1>2. screen' \in Shown(Nothing)
    BY ClosedShown DEF Shown
  <1> QED
    BY <1>1, <1>2 DEF Doing, Careful, Truthful, Name

LEMMA DoingSame ==
  ASSUME Doing, NEW s \in Shown(screen.page), screen' = s,
         s.work = screen.work, s.made = screen.made,
         s.repeated = screen.repeated, s.told = screen.told
  PROVE  Doing'
  <1>1. s.page = screen.page
    BY DEF Shown
  <1> QED
    BY <1>1 DEF Doing, Careful, Truthful

LEMMA DoingOpen ==
  ASSUME NEW name \in DOMAIN Pages, Open(name)
  PROVE  Doing'
  <1> DEFINE loads == {item \in Pages[name].loads : Sees(item)}
             bad == ~(\A item \in loads : Serves(item.what))
             asked == IF (\A item \in loads : Serves(item.what)) /\ loads # {}
                      THEN <<[choice |-> 1, version |-> 0]>> ELSE <<>>
  <1>1. screen' = [Blank(name) EXCEPT !.failed = bad, !.asked = asked]
    BY DEF Open
  <1>2. bad \in BOOLEAN
    OBVIOUS
  <1>3. asked \in Seq(Load)
    <2>1. [choice |-> 1, version |-> 0] \in Load
      BY DEF Load
    <2> QED
      BY <2>1
  <1> HIDE DEF bad, asked
  <1>4. Blank(name) \in Shown(name)
    BY BlankShown DEF Name
  <1>5. screen' \in Shown(name)
    BY <1>1, <1>2, <1>3, <1>4 DEF Shown
  <1>6. /\ screen'.page = name /\ screen'.work = <<>> /\ screen'.made = {}
        /\ screen'.told = Nothing /\ screen'.repeated = FALSE
    BY <1>1 DEF Blank
  <1> QED
    BY <1>5, <1>6 DEF Doing, Careful, Truthful, Name

LEMMA Busy ==
  ASSUME Doing, NEW i \in DOMAIN screen.work
  PROVE  Here
  <1>1. screen.work[i] \in Job(screen.page)
    BY DEF Doing, Shown
  <1>2. screen.page # Nothing
    BY <1>1 DEF Job, Work, Handlers
  <1> QED
    BY <1>2 DEF Here, Doing, Name

LEMMA RestDisjoint ==
  ASSUME NEW S, NEW work \in Seq(S), NEW i \in DOMAIN work,
         \A j, m \in DOMAIN work : j # m =>
            Makes(work[j].handler) \cap Makes(work[m].handler) = {}
  PROVE  LET r == RemoveAt(work, i) IN
         \A k, l \in DOMAIN r : k # l =>
            Makes(r[k].handler) \cap Makes(r[l].handler) = {}
  <1> DEFINE r == RemoveAt(work, i)
  <1>1. \A k, l \in DOMAIN r : k # l =>
           \E j, m \in DOMAIN work \ {i} :
              j # m /\ r[k] = work[j] /\ r[l] = work[m]
    BY Rest
  <1> HIDE DEF r
  <1>2. ASSUME NEW k \in DOMAIN r, NEW l \in DOMAIN r, k # l
        PROVE  Makes(r[k].handler) \cap Makes(r[l].handler) = {}
    <2>1. PICK j \in DOMAIN work, m \in DOMAIN work :
             j # m /\ r[k] = work[j] /\ r[l] = work[m]
      BY <1>1, <1>2
    <2> QED
      BY <2>1
  <1> QED
    BY <1>2 DEF r

LEMMA DoingPress ==
  ASSUME Doing, screen.page # Nothing, NEW button \in Page.buttons,
         NEW served \in BOOLEAN, Press(button, served)
  PROVE  Doing'
  <1> DEFINE h == button.what.handler
             w == Fresh(h)
  <1>1. Here
    BY DEF Doing, Here, Name
  <1>2. /\ w \in Draft(screen.page) /\ h \in Handlers(screen.page)
        /\ button.what.waits \cap Flags = {}
        /\ screen' \in Shown(screen.page) /\ screen'.told = Nothing
        /\ screen'.work = Append(screen.work,
                                 Called(w, served, screen'.version))
        /\ screen'.made = Send(screen, w, served).made
        /\ screen'.repeated = Send(screen, w, served).repeated
    BY <1>1, Pressing
  <1>3. w.handler = h
    BY DEF Fresh
  <1> HIDE DEF w
  <1>4. ASSUME screen.page # "feedback", NEW i \in DOMAIN screen.work
        PROVE  Makes(screen.work[i].handler) \cap Makes(h) = {}
    <2>1. screen.work[i].handler \in Handlers(screen.page)
      BY DEF Doing, Shown, Job, Work
    <2>2. PICK b \in Page.buttons : screen.work[i].handler = b.what.handler
      BY <2>1, NothingOpens DEF Handlers, Page
    <2>3. KeepApart(b, button)
      BY <1>1, <1>4, <2>2, Ruled DEF Guarded, Here, Page
    <2>4. b.what.handler.flag # "none" => b.what.handler.flag \in Flags
      BY <2>2 DEF Flags
    <2> QED
      BY <1>2, <2>2, <2>3, <2>4 DEF KeepApart
  <1>5. screen.page # "feedback" => Careful(Send(screen, w, served))
    <2> SUFFICES ASSUME screen.page # "feedback"
                 PROVE  Careful(Send(screen, w, served))
      OBVIOUS
    <2>1. screen.page \in DOMAIN Pages /\ screen \in Shown(screen.page)
      BY <1>1 DEF Here
    <2>2. /\ ~screen.repeated
          /\ \A i, j \in DOMAIN screen.work : i # j =>
                Makes(screen.work[i].handler)
                   \cap Makes(screen.work[j].handler) = {}
          /\ \A row \in screen.made :
                \E i \in DOMAIN screen.work : Has(screen.work[i], row)
      BY DEF Doing, Careful
    <2> QED
      BY <1>2, <1>3, <1>4, <2>1, <2>2, SendCareful
  <1>6. screen'.work = Send(screen, w, served).work
    BY <1>1, Pressing DEF w
  <1>7. screen.page # "feedback" => Careful(screen')
    BY <1>2, <1>5, <1>6 DEF Careful
  <1>8. screen'.page = screen.page
    BY <1>2 DEF Shown
  <1> QED
    BY <1>2, <1>7, <1>8 DEF Doing, Truthful

LEMMA DoingFinish ==
  ASSUME Doing, NEW i \in DOMAIN screen.work, NEW says \in Ends,
         NEW lost \in BOOLEAN,
         screen' = Finish(Without(i), screen.work[i], says, lost),
         says = "failed" /\ ~lost =>
            screen.work[i].step = 1 /\ ~screen.work[i].served,
         says = "done" /\ Heeds(screen.work[i].handler) =>
            screen.work[i].served
  PROVE  Doing'
  <1> DEFINE w == screen.work[i]
             s == Without(i)
             told == Said(w, says, lost)
  <1>1. Here
    BY Busy
  <1>2. /\ w \in Job(screen.page) /\ s \in Shown(screen.page)
        /\ s.work = RemoveAt(screen.work, i) /\ s.made = screen.made
        /\ s.repeated = screen.repeated
    BY <1>1, WithoutIs
  <1>3. /\ told \in Notice /\ told.says = says /\ told.all = w.all
        /\ told.some = w.some /\ told.lost = lost
    BY <1>2 DEF Said, Notice, Job, Work, Ends
  <1>4. /\ says = "done" /\ Heeds(w.handler) => told.all
        /\ says = "failed" /\ ~lost => ~told.some
    BY <1>2, <1>3 DEF Job
  <1>5. Heeds(w.handler) \/ (screen.page = "users"
           /\ w.handler.after # "leave")
    BY <1>1, <1>2, HandlerRules DEF Here, Job, Work
  <1>6. says = "failed" /\ ~lost => \A row : ~Has(w, row)
    BY DEF Has
  <1> HIDE DEF w, s, told
  <1>7. CASE /\ says # "failed" /\ w.handler.after = "leave"
             /\ screen' = [Closed EXCEPT !.told = told]
    BY <1>3, <1>4, <1>5, <1>7, DoingClosed
  <1>8. CASE /\ screen' \in Shown(screen.page)
             /\ screen'.work = s.work /\ screen'.repeated = s.repeated
             /\ screen'.told = told
             /\ screen'.made = IF says = "failed" /\ ~lost THEN s.made ELSE {}
    <2> DEFINE r == RemoveAt(screen.work, i)
    <2>1. screen.work \in Seq(Job(screen.page))
      BY DEF Doing, Shown
    <2>2. \A j \in DOMAIN screen.work \ {i} :
             \E k \in DOMAIN r : r[k] = screen.work[j]
      BY <2>1, Rest
    <2> HIDE DEF r
    <2>6. ASSUME screen.page # "feedback" PROVE Careful(screen')
      <3>1. screen'.work = r /\ ~screen'.repeated
        BY <1>2, <1>8, <2>6 DEF Doing, Careful, r
      <3>2. \A k, l \in DOMAIN r : k # l =>
               Makes(r[k].handler) \cap Makes(r[l].handler) = {}
        BY <2>1, <2>6, RestDisjoint DEF Doing, Careful, r
      <3>3. ASSUME NEW row \in screen'.made
            PROVE  \E k \in DOMAIN r : Has(r[k], row)
        <4>1. says = "failed" /\ ~lost /\ row \in screen.made
          BY <1>2, <1>8, <3>3
        <4>2. PICK j \in DOMAIN screen.work : Has(screen.work[j], row)
          BY <2>6, <4>1 DEF Doing, Careful
        <4>3. j # i
          BY <1>6, <4>1, <4>2 DEF w
        <4> QED
          BY <2>2, <4>2, <4>3
      <3> QED
        BY <3>1, <3>2, <3>3 DEF Careful
    <2>7. screen'.page = screen.page
      BY <1>8 DEF Shown
    <2>8. Truthful(screen')
      BY <1>3, <1>4, <1>5, <1>8, <2>7 DEF Truthful
    <2> QED
      BY <1>8, <2>6, <2>7, <2>8 DEF Doing
  <1> QED
    <2>1. screen.page \in DOMAIN Pages
      BY <1>1 DEF Here
    <2>2. screen' = Finish(s, w, says, lost)
      BY DEF s, w
    <2> QED
      BY <1>2, <1>7, <1>8, <2>1, <2>2, FinishKeeps DEF told

LEMMA DoingAnswer ==
  ASSUME Doing, NEW i \in DOMAIN screen.work, NEW served \in BOOLEAN,
         Answer(i, served)
  PROVE  Doing'
  <1> DEFINE w == screen.work[i]
             s == Without(i)
             next == [w EXCEPT !.step = 2]
  <1>1. Here
    BY Busy
  <1>2. CASE \E says \in Ends :
               /\ screen' = Finish(s, w, says, FALSE)
               /\ says = "failed" => w.step = 1 /\ ~w.served
               /\ says = "done" /\ Heeds(w.handler) => w.served
    BY <1>2, DoingFinish
  <1>3. CASE /\ w.step = 1 /\ next \in Draft(screen.page)
             /\ next.handler = w.handler /\ next.step = 2
             /\ screen' = Send(s, next, served)
    <2>1. /\ w \in Job(screen.page) /\ s \in Shown(screen.page)
          /\ s.work = RemoveAt(screen.work, i) /\ s.made = screen.made
          /\ s.repeated = screen.repeated /\ s.told = screen.told
      BY <1>1, WithoutIs
    <2>2. \A row : Has(w, row) => /\ w.handler.calls[1].route.kind = "create"
                                  /\ w.handler.calls[1].route.name = row
      BY <1>3 DEF Has
    <2> DEFINE r == RemoveAt(screen.work, i)
    <2>3. screen.work \in Seq(Job(screen.page))
      BY DEF Doing, Shown
    <2>4. \A k \in DOMAIN r : \E j \in DOMAIN screen.work \ {i} :
             r[k] = screen.work[j]
      BY <2>3, Rest
    <2>11. \A j \in DOMAIN screen.work \ {i} :
              \E k \in DOMAIN r : r[k] = screen.work[j]
      BY <2>3, Rest
    <2> HIDE DEF r, s, next
    <2>8. ASSUME screen.page # "feedback" PROVE Careful(Send(s, next, served))
      <3>1. Careful(screen)
        BY <2>8 DEF Doing
      <3>2. \A k, l \in DOMAIN r : k # l =>
               Makes(r[k].handler) \cap Makes(r[l].handler) = {}
        BY <2>3, <3>1, RestDisjoint DEF Careful, r
      <3>3. \A k \in DOMAIN r :
               Makes(r[k].handler) \cap Makes(next.handler) = {}
        BY <1>3, <2>4, <3>1 DEF Careful
      <3>4. ASSUME NEW row \in s.made
            PROVE  \/ \E k \in DOMAIN r : Has(r[k], row)
                   \/ /\ next.handler.calls[1].route.kind = "create"
                      /\ next.handler.calls[1].route.name = row
        <4>1. PICK j \in DOMAIN screen.work : Has(screen.work[j], row)
          BY <2>1, <3>1, <3>4 DEF Careful
        <4> QED
          BY <1>3, <2>2, <2>11, <4>1
      <3>5. screen.page \in DOMAIN Pages /\ s.work = r /\ ~s.repeated
        BY <1>1, <2>1, <3>1 DEF Here, Careful, r
      <3> QED
        BY <1>3, <2>1, <3>2, <3>3, <3>4, <3>5, SendCareful
    <2>9. /\ Send(s, next, served) \in Shown(screen.page)
          /\ Send(s, next, served).told = s.told
      <3>1. screen.page \in DOMAIN Pages
        BY <1>1 DEF Here
      <3> QED
        BY <1>3, <2>1, <3>1, SendKeeps
    <2>10. screen'.page = screen.page /\ screen'.told = screen.told
      BY <1>3, <2>1, <2>9 DEF Shown
    <2> QED
      BY <1>3, <2>8, <2>9, <2>10 DEF Doing, Truthful
  <1> QED
    BY <1>1, <1>2, <1>3, Answering

\* An answer changes what the page waits for and what it shows.
LEMMA ArriveKeeps ==
  ASSUME Doing, NEW i \in DOMAIN screen.asked, Arrive(i) \/ Miss(i)
  PROVE  /\ screen' \in Shown(screen.page)
         /\ screen'.choice = screen.choice /\ screen'.version = screen.version
         /\ screen'.mine = screen.mine /\ screen'.work = screen.work
         /\ screen'.made = screen.made /\ screen'.repeated = screen.repeated
         /\ screen'.told = screen.told
         /\ screen'.asked = RemoveAt(screen.asked, i)
  <1> DEFINE rest == RemoveAt(screen.asked, i)
  <1>1. rest \in Seq(Load) /\ screen.asked[i] \in Load
    BY Removed DEF Doing, Shown
  <1>2. \E view \in Load \cup {Nothing}, bad \in BOOLEAN :
           screen' = [screen EXCEPT !.asked = rest, !.view = view,
                                    !.failed = bad]
    <2>1. screen.view \in Load \cup {Nothing} /\ screen.failed \in BOOLEAN
      BY DEF Doing, Shown
    <2>2. CASE Arrive(i)
      <3> DEFINE view == IF Shows(screen.asked[i]) THEN screen.asked[i]
                            ELSE screen.view
      <3>1. screen' = [screen EXCEPT !.asked = rest, !.view = view]
        BY <2>2 DEF Arrive
      <3>2. view \in Load \cup {Nothing}
        BY <1>1, <2>1
      <3> HIDE DEF rest, view
      <3>3. screen' = [screen EXCEPT !.asked = rest, !.view = view,
                                     !.failed = screen.failed]
        BY <3>1 DEF Doing, Shown
      <3> QED
        BY <2>1, <3>2, <3>3
    <2>3. CASE Miss(i)
      <3>1. screen' = [screen EXCEPT !.asked = rest, !.failed = TRUE]
        BY <2>3 DEF Miss
      <3> HIDE DEF rest
      <3>2. screen' = [screen EXCEPT !.asked = rest, !.view = screen.view,
                                     !.failed = TRUE]
        BY <3>1 DEF Doing, Shown
      <3> QED
        BY <2>1, <3>2
    <2> QED
      BY <2>2, <2>3
  <1> HIDE DEF rest
  <1> QED
    BY <1>1, <1>2 DEF Doing, Shown, rest

LEMMA ChooseIs ==
  ASSUME Doing, Choose
  PROVE  LET c == 3 - screen.choice
             view == IF Page.late = "keyed" THEN Nothing ELSE screen.view
             s == [screen EXCEPT !.choice = c, !.view = view]
         IN  /\ screen.page \in DOMAIN Pages /\ c \in 1..2
             /\ screen' = AskFor(shown, s, c) /\ s \in Shown(screen.page)
             /\ s.choice = c /\ s.view = view /\ s.version = screen.version
             /\ s.mine = screen.mine /\ s.work = screen.work
             /\ s.made = screen.made /\ s.repeated = screen.repeated
             /\ s.told = screen.told /\ s.asked = screen.asked
  <1> DEFINE c == 3 - screen.choice
             view == IF Page.late = "keyed" THEN Nothing ELSE screen.view
             s == [screen EXCEPT !.choice = c, !.view = view]
  <1>1. screen.page \in DOMAIN Pages
    BY DEF Choose, Doing, Name
  <1>2. c \in 1..2 /\ view \in Load \cup {Nothing}
    BY DEF Doing, Shown
  <1>3. screen' = AskFor(shown, s, c)
    BY DEF Choose, Ask
  <1> HIDE DEF c, view
  <1>4. /\ s \in Shown(screen.page) /\ s.choice = c /\ s.view = view
        /\ s.version = screen.version
        /\ s.mine = screen.mine /\ s.work = screen.work
        /\ s.made = screen.made /\ s.repeated = screen.repeated
        /\ s.told = screen.told /\ s.asked = screen.asked
    BY <1>2 DEF Doing, Shown
  <1> QED
    BY <1>1, <1>2, <1>3, <1>4 DEF c, view

LEMMA DoingNext == Doing /\ [WebNext]_webVars => Doing'
  <1> SUFFICES ASSUME Doing, [WebNext]_webVars PROVE Doing'
    OBVIOUS
  <1>1. CASE screen' = screen
    BY <1>1, DoingSame DEF Doing
  <1>2. CASE ReadPrivileges \/ CachePrivileges \/ Expire \/ CommitPrivileges
    BY <1>1, <1>2 DEF ReadPrivileges, CachePrivileges, Expire, CommitPrivileges
  <1>3. ASSUME NEW move \in Moves, NEW here \in BOOLEAN,
               SetPrivileges(move[2], here)
        PROVE  Doing'
    BY <1>1, <1>3 DEF SetPrivileges
  <1>4. CASE screen' = Closed
    <2>1. /\ Closed.page = Nothing /\ Closed.made = {}
          /\ Closed.told = Nothing /\ Closed.repeated = FALSE
      BY DEF Closed, Blank
    <2> QED
      BY <1>4, <2>1, ClosedShown DEF Doing, Careful, Truthful, Name
  <1>5. ASSUME NEW held, NEW s \in Shown(screen.page), NEW c \in 1..2,
               screen.page \in DOMAIN Pages, screen' = AskFor(held, s, c),
               s.work = screen.work, s.made = screen.made,
               s.repeated = screen.repeated, s.told = screen.told
        PROVE  Doing'
    <2>1. /\ screen' \in Shown(screen.page)
          /\ screen'.work = s.work /\ screen'.made = s.made
          /\ screen'.repeated = s.repeated /\ screen'.told = s.told
      BY <1>5, AskKeeps
    <2> QED
      BY <1>5, <2>1, DoingSame
  <1>6. CASE RefreshUser
    <2>1. screen.page \in Name /\ screen \in Shown(screen.page)
             /\ screen.choice \in 1..2
      BY DEF Doing, Shown
    <2>2. CASE OpensFor(screen.page, subject.held)
                  /\ screen' = AskFor(subject.held, screen, screen.choice)
      <3>1. screen.page \in DOMAIN Pages
        BY <2>2 DEF OpensFor
      <3> QED
        BY <1>5, <2>1, <2>2, <3>1
    <2> QED
      BY <1>1, <1>4, <1>6, <2>2 DEF RefreshUser
  <1>7. ASSUME NEW name \in DOMAIN Pages, Open(name)
        PROVE  Doing'
    BY <1>7, DoingOpen
  <1>8. CASE Leave
    BY <1>4, <1>8 DEF Leave
  <1>9. CASE Choose
    BY <1>5, <1>9, ChooseIs
  <1>10. ASSUME NEW i \in DOMAIN screen.asked, Arrive(i) \/ Miss(i)
         PROVE  Doing'
    BY <1>10, ArriveKeeps, DoingSame
  <1>11. ASSUME screen.page # Nothing, NEW button \in Page.buttons,
                NEW served \in BOOLEAN, Press(button, served)
         PROVE  Doing'
    BY <1>11, DoingPress
  <1>12. ASSUME NEW i \in DOMAIN screen.work, NEW served \in BOOLEAN,
                Answer(i, served)
         PROVE  Doing'
    BY <1>12, DoingAnswer
  <1>13. ASSUME NEW i \in DOMAIN screen.work, AnswerLost(i)
         PROVE  Doing'
    <2>1. screen' = Finish(Without(i), screen.work[i], "failed", TRUE)
      BY <1>13 DEF AnswerLost, Without
    <2>2. "failed" \in Ends /\ "failed" # "done"
      BY DEF Ends
    <2> QED
      BY <2>1, <2>2, DoingFinish
  <1>14. CASE UNCHANGED webVars
    BY <1>1, <1>14 DEF webVars
  <1> QED
    BY <1>2, <1>3, <1>6, <1>7, <1>8, <1>9, <1>10, <1>11, <1>12, <1>13, <1>14
      DEF WebNext

\* Unless an answer was lost, no row is made a second time before the user has
\* been told of the first: on every page but the feedback panel, which is known
\* to take a second press once its modal is opened again, for any users, loads
\* and handlers in flight, whatever the privileges and however the answers are
\* ordered.
THEOREM MadeOnce == <<"feedback", "twice">> \in Excused /\ WebSpec => []CreatesOnce
  <1> DEFINE I == <<"feedback", "twice">> \in Excused /\ Doing
  <1>1. <<"feedback", "twice">> \in Excused /\ WebInit => I
    BY DoingInit
  <1>2. I /\ [WebNext]_webVars => I'
    BY DoingNext
  <1>3. I => CreatesOnce
    BY DEF Doing, Careful, CreatesOnce
  <1> HIDE DEF I
  <1> QED
    BY <1>1, <1>2, <1>3, PTL DEF WebSpec

\* A handler that says it is done has had all its calls served, and one that
\* says it failed, without having lost an answer, has changed nothing: on every
\* page but the users page, which is known to say "done" of a second call it
\* does not look at.
THEOREM TellsWhatHappened ==
  <<"users", "done">> \in Excused /\ WebSpec => []SaysWhatHappened
  <1> DEFINE I == <<"users", "done">> \in Excused /\ Doing
  <1>1. <<"users", "done">> \in Excused /\ WebInit => I
    BY DoingInit
  <1>2. I /\ [WebNext]_webVars => I'
    BY DoingNext
  <1>3. I => SaysWhatHappened
    BY DEF Doing, Truthful, SaysWhatHappened
  <1> HIDE DEF I
  <1> QED
    BY <1>1, <1>2, <1>3, PTL DEF WebSpec

-----------------------------------------------------------------------------
(* The pages: the view settles *)

\* A load that answers the choice, and knows of every change that was followed.
Fits(s, load) == load.choice = s.choice /\ s.mine <= load.version

LateOf(s) == Pages[s.page].late

\* The loads whose answers the page will show.
Awaited(s) ==
    {i \in DOMAIN s.asked :
        LateOf(s) = "keyed" => s.asked[i].choice = s.choice}

\* The last of them fits, or the page shows one that does.
Showing(s) ==
    \/ Awaited(s) = {} /\ s.view # Nothing /\ Fits(s, s.view)
    \/ \E i \in Awaited(s) :
          Fits(s, s.asked[i]) /\ \A j \in Awaited(s) : j <= i

Distinct(asked) ==
    \A i, j \in DOMAIN asked : asked[i].choice = asked[j].choice => i = j

\* What the ways a page treats late answers leave in flight.
Ordered(s) ==
    /\ LateOf(s) = "keyed" =>
          /\ Distinct(s.asked)
          /\ s.view = Nothing \/ s.view.choice = s.choice
    /\ LateOf(s) = "dropped" => DOMAIN s.asked \subseteq {1}
    /\ s.mine <= s.version

LEMMA NothingLoads == Nothing \notin Load
  BY ScreensAssumption DEF ScreensAssumption

LEMMA RestDistinct ==
  ASSUME NEW asked \in Seq(Load), NEW i \in DOMAIN asked, Distinct(asked)
  PROVE  LET r == RemoveAt(asked, i) IN
         /\ r \in Seq(Load) /\ Distinct(r)
         /\ \A k \in DOMAIN r : r[k].choice # asked[i].choice
  <1> DEFINE r == RemoveAt(asked, i)
  <1>1. \A k, l \in DOMAIN r : k # l =>
           \E j, m \in DOMAIN asked \ {i} :
              j # m /\ r[k] = asked[j] /\ r[l] = asked[m]
    BY Rest
  <1>2. \A k \in DOMAIN r : \E j \in DOMAIN asked \ {i} : r[k] = asked[j]
    BY Rest
  <1>3. r \in Seq(Load)
    BY Rest
  <1> HIDE DEF r
  <1>4. ASSUME NEW k \in DOMAIN r, NEW l \in DOMAIN r,
               r[k].choice = r[l].choice
        PROVE  k = l
    <2> SUFFICES ASSUME k # l PROVE FALSE
      OBVIOUS
    <2>1. PICK j \in DOMAIN asked, m \in DOMAIN asked :
             j # m /\ r[k] = asked[j] /\ r[l] = asked[m]
      BY <1>1
    <2> QED
      BY <1>4, <2>1 DEF Distinct
  <1>5. \A k \in DOMAIN r : r[k].choice # asked[i].choice
    BY <1>2 DEF Distinct
  <1> QED
    BY <1>3, <1>4, <1>5 DEF Distinct, r

\* Under one key there is one load.
LEMMA WaitedKeyed ==
  ASSUME screen.page \in DOMAIN Pages, NEW s \in Shown(screen.page),
         NEW c \in 1..2, Page.late = "keyed", Distinct(s.asked)
  PROVE  LET a == Waited(s, c) IN
         /\ a \in Seq(Load) /\ Distinct(a)
         /\ \A k \in DOMAIN a : a[k].choice # c
  <1>1. s.asked \in Seq(Load)
    BY DEF Shown
  <1>2. CASE \E i \in DOMAIN s.asked : s.asked[i].choice = c
    <2> DEFINE i == CHOOSE i \in DOMAIN s.asked : s.asked[i].choice = c
    <2>1. i \in DOMAIN s.asked /\ s.asked[i].choice = c
      BY <1>2
    <2>2. Waited(s, c) = RemoveAt(s.asked, i)
      BY <1>2 DEF Waited
    <2> HIDE DEF i
    <2> QED
      BY <1>1, <2>1, <2>2, RestDistinct
  <1>3. CASE ~\E i \in DOMAIN s.asked : s.asked[i].choice = c
    BY <1>1, <1>3 DEF Waited
  <1> QED
    BY <1>2, <1>3

\* Whoever asks for the choice it shows will show it.
LEMMA AskSettles ==
  ASSUME screen.page \in DOMAIN Pages, NEW s \in Shown(screen.page),
         Ordered(s), NEW held
  PROVE  LET t == AskFor(held, s, s.choice) IN
         Ordered(t) /\ (t.failed \/ LoadsFor(held) = {} \/ Showing(t))
  <1> DEFINE a == Waited(s, s.choice)
             new == [choice |-> s.choice, version |-> s.version]
             t == AskFor(held, s, s.choice)
  <1>1. s.choice \in 1..2 /\ s.version \in Nat /\ s.mine \in Nat
           /\ s.asked \in Seq(Load)
    BY DEF Shown
  <1>2. a \in Seq(Load)
    BY <1>1, WaitedIs
  <1>3. new \in Load /\ new.choice = s.choice /\ new.version = s.version
    BY <1>1 DEF Load
  <1>4. /\ Page.late = "shown" => a = s.asked
        /\ Page.late = "dropped" => a = <<>>
    BY DEF Waited
  <1>14. LateOf(s) = Page.late
    BY DEF Shown, LateOf, Page
  <1>5. Page.late = "keyed" =>
           Distinct(a) /\ \A k \in DOMAIN a : a[k].choice # s.choice
    BY <1>1, <1>14, WaitedKeyed DEF Ordered
  <1>6. /\ t.choice = s.choice /\ t.view = s.view /\ t.version = s.version
        /\ t.mine = s.mine /\ t \in Shown(screen.page)
    BY <1>1, AskKeeps
  <1>15. LateOf(t) = Page.late
    BY <1>6 DEF Shown, LateOf, Page
  <1>7. \/ t.failed = FALSE /\ LoadsFor(held) = {} /\ t.asked = <<>>
        \/ t.failed = FALSE /\ t.asked = Append(a, new)
        \/ t.failed = TRUE /\ t.asked = a
    <2>1. \/ LoadsFor(held) = {} /\ t =
                [s EXCEPT !.failed = FALSE, !.asked = <<>>]
          \/ t = [s EXCEPT !.failed = FALSE, !.asked = Append(a, new)]
          \/ t = [s EXCEPT !.failed = TRUE, !.asked = a]
      BY DEF AskFor
    <2> HIDE DEF a, new, t
    <2> QED
      BY <2>1 DEF Shown
  <1>8. Page.late \in {"shown", "keyed", "dropped"}
    BY Late
  <1> SUFFICES Ordered(t) /\ (t.failed \/ LoadsFor(held) = {} \/ Showing(t))
    OBVIOUS
  <1> HIDE DEF a, new, t
  <1>12. t.mine <= t.version
    BY <1>6, <1>14 DEF Ordered
  <1>13. Page.late = "keyed" => t.view = Nothing \/ t.view.choice = t.choice
    BY <1>6, <1>14 DEF Ordered
  <1>9. CASE t.asked = <<>> /\ LoadsFor(held) = {}
    <2>1. Distinct(t.asked) /\ DOMAIN t.asked \subseteq {1}
      BY <1>9 DEF Distinct
    <2> QED
      BY <1>9, <1>12, <1>13, <1>15, <2>1 DEF Ordered
  <1>10. CASE t.failed = TRUE /\ t.asked = a
    <2>1. Page.late = "dropped" => DOMAIN t.asked \subseteq {1}
      BY <1>4, <1>10
    <2>2. Page.late = "keyed" => Distinct(t.asked)
      BY <1>5, <1>10
    <2> QED
      BY <1>10, <1>12, <1>13, <1>15, <2>1, <2>2 DEF Ordered
  <1>11. CASE t.asked = Append(a, new)
    <2> DEFINE n == Len(a) + 1
    <2>1. /\ n \in Nat \ {0} /\ DOMAIN t.asked = 1..n /\ t.asked[n] = new
          /\ DOMAIN a = 1..(n - 1) /\ \A i \in 1..(n - 1) : t.asked[i] = a[i]
      BY <1>2, <1>3, <1>11
    <2> HIDE DEF n
    <2>2. Page.late = "keyed" => Distinct(t.asked)
      <3> SUFFICES ASSUME Page.late = "keyed", NEW i \in 1..n, NEW j \in 1..n,
                          t.asked[i].choice = t.asked[j].choice
                   PROVE  i = j
        BY <2>1 DEF Distinct
      <3>1. CASE i = n /\ j # n
        BY <1>3, <1>5, <2>1, <3>1
      <3>2. CASE i # n /\ j = n
        BY <1>3, <1>5, <2>1, <3>2
      <3>3. CASE i # n /\ j # n
        <4>1. i \in DOMAIN a /\ j \in DOMAIN a
          BY <2>1, <3>3
        <4>2. a[i].choice = a[j].choice
          BY <2>1, <4>1
        <4> QED
          BY <1>5, <4>1, <4>2 DEF Distinct
      <3> QED
        BY <3>1, <3>2, <3>3
    <2>3. Page.late = "dropped" => DOMAIN t.asked \subseteq {1}
      <3>1. Page.late = "dropped" => n = 1
        BY <1>4, <2>1
      <3> QED
        BY <2>1, <3>1
    <2>4. n \in Awaited(t) /\ \A j \in Awaited(t) : j <= n
      BY <1>3, <1>6, <2>1 DEF Awaited
    <2>5. Fits(t, t.asked[n])
      BY <1>3, <1>6, <2>1 DEF Fits, Ordered
    <2>6. Showing(t)
      BY <2>4, <2>5 DEF Showing
    <2> QED
      BY <1>12, <1>13, <1>15, <2>2, <2>3, <2>6 DEF Ordered
  <1> QED
    BY <1>7, <1>9, <1>10, <1>11

Running(s, afters) ==
    \E i \in DOMAIN s.work : s.work[i].handler.after \in afters

\* What the handlers that run have changed: the last one to call knows of the
\* most, and none that will show its answer is behind what the page promised.
Timed(s) ==
    /\ \A k, l \in DOMAIN s.work : k < l => s.work[k].version <= s.work[l].version
    /\ \A k \in DOMAIN s.work :
          /\ s.work[k].version <= s.version
          /\ s.work[k].handler.after = "show" => s.mine <= s.work[k].version

\* The handlers that run were started for the choice that is shown.
Still(s) ==
    /\ Ordered(s) /\ Timed(s)
    /\ Pages[s.page].buttons = {} => s.mine = 0
    /\ \A i \in DOMAIN s.work :
          /\ s.work[i].choice = s.choice
          /\ LateOf(s) = "keyed" =>
                \/ s.work[i].back = Nothing
                \/ s.work[i].back.choice = s.choice

\* What was asked for last fits, unless there is an error, nothing to load, or
\* a handler that will ask again.
Settled(s) ==
    \/ s.failed \/ Loads = {}
    \/ Running(s, {"optimistic"}) \/ Showing(s)


\* What holds of a page holds after a change that starts no handler.
LEMMA StillWork ==
  ASSUME NEW s, NEW t, Still(s), t.page = s.page, t.choice = s.choice,
         \A k \in DOMAIN t.work : \E j \in DOMAIN s.work :
            /\ t.work[k].handler = s.work[j].handler
            /\ t.work[k].choice = s.work[j].choice
            /\ t.work[k].back = s.work[j].back,
         Ordered(t), Timed(t), Pages[t.page].buttons = {} => t.mine = 0
  PROVE  Still(t)
  <1>2. LateOf(t) = LateOf(s)
    BY DEF LateOf
  <1>4. ASSUME NEW k \in DOMAIN t.work
        PROVE  /\ t.work[k].choice = t.choice
               /\ LateOf(t) = "keyed" =>
                     \/ t.work[k].back = Nothing
                     \/ t.work[k].back.choice = t.choice
    BY <1>2 DEF Still
  <1> QED
    BY <1>4 DEF Still

\* A handler that is over leaves the page, asks for what it shows, or leaves
\* what is asked for as it is.
LEMMA FinishSettles ==
  ASSUME screen.page \in DOMAIN Pages, NEW s \in Shown(screen.page),
         NEW w \in Job(screen.page), NEW says \in Ends, NEW lost \in BOOLEAN,
         Ordered(s), w.choice = s.choice,
         Page.late = "keyed" => (w.back = Nothing \/ w.back.choice = s.choice),
         w.version <= s.version,
         w.handler.after = "show" => s.mine <= w.version,
         says # "failed" /\ w.handler.after \in {"mark", "show"} =>
            \A k \in DOMAIN s.asked : w.version <= s.asked[k].version
  PROVE  LET t == Finish(s, w, says, lost)
             a == w.handler.after
         IN  \/ t.page = Nothing
             \/ /\ \/ t.mine = s.mine
                   \/ a \in {"reload", "optimistic", "mark"}
                   \/ says # "failed" /\ a = "show" /\ t.mine <= w.version
                /\ \/ /\ Ordered(t) /\ a \in {"reload", "optimistic"}
                      /\ t.failed \/ Loads = {} \/ Showing(t)
                   \/ /\ Ordered(t) /\ a # "optimistic"
                      /\ t.failed = s.failed /\ t.asked = s.asked
                      /\ Showing(s) => Showing(t)
  <1> DEFINE told == Said(w, says, lost)
             made == IF says = "failed" /\ ~lost THEN s.made ELSE {}
             u == [s EXCEPT !.told = told, !.made = made]
             t == Finish(s, w, says, lost)
             a == w.handler.after
             goal ==
                \/ t.page = Nothing
                \/ /\ \/ t.mine = s.mine
                      \/ a \in {"reload", "optimistic", "mark"}
                      \/ says # "failed" /\ a = "show" /\ t.mine <= w.version
                   /\ \/ /\ Ordered(t) /\ a \in {"reload", "optimistic"}
                         /\ t.failed \/ Loads = {} \/ Showing(t)
                      \/ /\ Ordered(t) /\ a # "optimistic"
                         /\ t.failed = s.failed /\ t.asked = s.asked
                         /\ Showing(s) => Showing(t)
  <1>1. told \in Notice
    BY DEF Said, Ends, Job, Work, Notice
  <1>2. /\ u \in Shown(screen.page) /\ u.page = s.page /\ u.choice = s.choice
        /\ u.asked = s.asked /\ u.view = s.view /\ u.version = s.version
        /\ u.mine = s.mine /\ u.failed = s.failed
    BY <1>1 DEF Shown
  <1>3. t = IF says = "failed" THEN TakeBack(u, w) ELSE Follow(u, w)
    BY DEF Finish, Said
  <1>4. /\ w.handler.after \in Reloads \cup Replies /\ w.choice \in 1..2
        /\ w.back \in Load \cup {Nothing}
    <2>1. /\ w.handler \in Handlers(screen.page) /\ w.choice \in 1..2
          /\ w.back \in Load \cup {Nothing}
      BY DEF Job, Work
    <2> QED
      BY <2>1, HandlerRules DEF GoesOn
  <1>5. u.page = screen.page /\ LateOf(s) = Page.late /\ LateOf(u) = Page.late
    BY <1>2 DEF Shown, LateOf, Page
  <1> SUFFICES goal
    OBVIOUS
  <1> HIDE DEF u, t, told, made
  <1>6. Ordered(u) /\ (Showing(s) => Showing(u)) /\ u.mine <= u.version
    BY <1>2, <1>5 DEF Ordered, Showing, Awaited, Fits
  <1>7. ASSUME NEW v \in Shown(screen.page), Ordered(v), v.choice = s.choice,
               t = AskFor(shown, v, v.choice),
               w.handler.after \in {"reload", "optimistic"}
        PROVE  goal
    <2>1. Ordered(t) /\ (t.failed \/ Loads = {} \/ Showing(t))
      BY <1>7, AskSettles DEF Loads
    <2> QED
      BY <1>7, <2>1
  <1>8. CASE t = u /\ w.handler.after # "optimistic"
    BY <1>2, <1>6, <1>8
  <1>9. CASE says = "failed" /\ w.handler.after = "optimistic"
    <2> DEFINE v == [u EXCEPT !.view = w.back]
    <2>1. /\ v \in Shown(screen.page) /\ v.choice = s.choice
          /\ v.page = u.page /\ v.asked = u.asked /\ v.view = w.back
          /\ v.version = u.version /\ v.mine = u.mine
      BY <1>2, <1>4 DEF Shown
    <2>2. t = AskFor(shown, v, u.choice)
      BY <1>3, <1>9 DEF TakeBack, Ask
    <2> HIDE DEF v
    <2>3. LateOf(v) = Page.late
      BY <1>5, <2>1 DEF LateOf, Page
    <2>4. Ordered(v)
      BY <1>5, <1>6, <2>1, <2>3 DEF Ordered
    <2> QED
      BY <1>2, <1>7, <1>9, <2>1, <2>2, <2>4
  <1>10. CASE says = "failed" /\ w.handler.after # "optimistic"
    BY <1>3, <1>8, <1>10 DEF TakeBack
  <1>11. CASE says # "failed"
    <2> DEFINE v == [u EXCEPT !.mine = u.version]
    <2>1. /\ v \in Shown(screen.page) /\ v.choice = s.choice
          /\ v.page = u.page /\ v.asked = u.asked /\ v.view = u.view
          /\ v.version = u.version /\ v.mine = u.version
          /\ u.version \in Nat
      BY <1>2 DEF Shown
    <2> HIDE DEF v
    <2>2. Ordered(v)
      <3>1. LateOf(v) = Page.late
        BY <1>5, <2>1 DEF LateOf, Page
      <3>2. v.mine <= v.version
        BY <2>1
      <3>3. /\ LateOf(v) = "keyed" =>
                  /\ Distinct(v.asked)
                  /\ v.view = Nothing \/ v.view.choice = v.choice
            /\ LateOf(v) = "dropped" => DOMAIN v.asked \subseteq {1}
        BY <1>2, <1>5, <1>6, <2>1, <3>1 DEF Ordered
      <3> QED
        BY <3>2, <3>3 DEF Ordered
    <2>3. CASE w.handler.after = "reload"
      <3>1. t = AskFor(shown, v, w.choice)
        BY <1>3, <1>11, <2>3 DEF Follow, Ask, v
      <3> QED
        BY <1>7, <2>1, <2>2, <2>3, <3>1
    <2>4. CASE w.handler.after = "optimistic"
      <3>1. t = AskFor(shown, v, u.choice)
        BY <1>3, <1>11, <2>4 DEF Follow, Ask, v
      <3> QED
        BY <1>2, <1>7, <2>1, <2>2, <2>4, <3>1
    <2>5. CASE w.handler.after \in {"mark", "show"}
      <3> DEFINE new == IF w.handler.after = "mark"
                        THEN Later(u.view.version, w.version) ELSE w.version
                 view == IF u.view = Nothing THEN Nothing
                         ELSE [u.view EXCEPT !.version = new]
                 mine == Later(u.mine, w.version)
      <3>1. w.version \in Nat /\ u.mine \in Nat /\ u.version \in Nat
        BY <1>2 DEF Job, Work, Shown
      <3>2. /\ mine \in Nat /\ mine <= u.version
            /\ mine \in {u.mine, w.version}
            /\ w.handler.after = "show" => mine <= w.version
        BY <1>2, <1>6, <3>1 DEF Later
      <3>3. u.view # Nothing =>
               /\ u.view \in Load /\ u.view.version \in Nat
        BY <1>2 DEF Shown, Load
      <3>4. u.view # Nothing =>
               /\ new \in Nat
               /\ u.mine <= u.view.version => mine <= new
        <4>1. CASE w.handler.after = "mark"
          BY <3>1, <3>3, <4>1 DEF Later
        <4>2. CASE w.handler.after = "show"
          BY <3>1, <3>2, <4>2
        <4> QED
          BY <2>5, <4>1, <4>2
      <3> HIDE DEF new
      <3>5. /\ u.view = Nothing => view = Nothing
            /\ u.view # Nothing => /\ view \in Load /\ view # Nothing
                                   /\ view.choice = u.view.choice
                                   /\ view.version = new
        BY <3>3, <3>4, NothingLoads DEF Load
      <3>6. t = [u EXCEPT !.mine = mine, !.view = view]
        BY <1>3, <1>11, <2>5 DEF Follow, new
      <3> HIDE DEF view, mine
      <3>7. /\ t.page = u.page /\ t.choice = u.choice /\ t.asked = u.asked
            /\ t.view = view /\ t.version = u.version /\ t.mine = mine
            /\ t.failed = u.failed
        BY <1>2, <3>6 DEF Shown
      <3>8. LateOf(t) = Page.late
        BY <1>5, <3>7 DEF LateOf, Page
      <3>9. Ordered(t)
        BY <1>5, <1>6, <3>2, <3>5, <3>7, <3>8 DEF Ordered
      <3>10. Awaited(t) = Awaited(s)
        BY <1>2, <1>5, <3>7, <3>8 DEF Awaited
      <3>11. ASSUME Awaited(s) = {}, s.view # Nothing, Fits(s, s.view)
             PROVE  Showing(t)
        <4>1. Fits(t, t.view)
          BY <1>2, <3>4, <3>5, <3>7, <3>11 DEF Fits
        <4> QED
          BY <1>2, <3>5, <3>7, <3>10, <3>11, <4>1 DEF Showing
      <3>12. ASSUME NEW i \in Awaited(s), Fits(s, s.asked[i]),
                    \A j \in Awaited(s) : j <= i
             PROVE  Showing(t)
        <4>1. i \in DOMAIN s.asked
          BY DEF Awaited
        <4>2. w.version <= s.asked[i].version
          BY <1>11, <2>5, <4>1
        <4>3. Fits(t, t.asked[i])
          BY <1>2, <3>2, <3>7, <3>12, <4>2 DEF Fits
        <4> QED
          BY <3>10, <3>12, <4>3 DEF Showing
      <3>13. Showing(s) => Showing(t)
        BY <3>11, <3>12 DEF Showing
      <3> QED
        BY <1>2, <1>11, <2>5, <3>2, <3>7, <3>9, <3>13
    <2>6. CASE w.handler.after = "keep"
      <3>1. t = u
        BY <1>3, <1>11, <2>6 DEF Follow
      <3> QED
        BY <1>8, <2>6, <3>1
    <2>7. CASE w.handler.after = "leave"
      <3>1. t = [Closed EXCEPT !.told = u.told]
        BY <1>3, <1>11, <2>7 DEF Follow
      <3> QED
        BY <3>1 DEF Closed, Blank
    <2> QED
      BY <1>4, <2>3, <2>4, <2>5, <2>6, <2>7 DEF Reloads, Replies
  <1> QED
    BY <1>9, <1>10, <1>11

\* The loads that were asked for bring what is to be shown.
Settling ==
    /\ subject \in [role : Role, held : {subject.held}]
    /\ screen.page \in DOMAIN Pages => Still(screen) /\ Settled(screen)

LEMMA SameLoads ==
  ASSUME shown' = shown, subject'.role = subject.role,
         screen'.page = screen.page
  PROVE  Loads' = Loads
  BY DEF Loads, LoadsFor, Page, SeenWith, Viewer

\* On the page that is open, for the same user.
LEMMA SettlesHere ==
  ASSUME Settling, subject' = subject, shown' = shown,
         screen'.page = screen.page,
         screen.page \in DOMAIN Pages => Still(screen') /\ Settled(screen')
  PROVE  Settling'
  <1>1. Loads' = Loads
    BY SameLoads
  <1>2. screen'.page \in DOMAIN Pages =>
           /\ Still(screen')
           /\ \/ screen'.failed \/ Loads' = {}
              \/ Running(screen', {"optimistic"}) \/ Showing(screen')
    BY <1>1 DEF Settled
  <1> QED
    BY <1>2 DEF Settling, Settled

LEMMA SettlesClosed ==
  ASSUME Settling, subject' = subject, screen'.page = Nothing
  PROVE  Settling'
  BY NothingOpens DEF Settling

\* Where a handler will show its answer, none asks again or marks.
LEMMA ShowsAlone ==
  ASSUME Doing, Here, NEW i \in DOMAIN screen.work, NEW k \in DOMAIN screen.work,
         screen.work[k].handler.after = "show"
  PROVE  screen.work[i].handler.after \in {"show", "keep", "leave"}
  <1>1. /\ screen.work[i].handler \in Handlers(screen.page)
        /\ screen.work[k].handler \in Handlers(screen.page)
    BY DEF Doing, Shown, Job, Work
  <1>2. PICK b \in Page.buttons : screen.work[i].handler = b.what.handler
    BY <1>1, NothingOpens DEF Handlers, Page
  <1>3. PICK c \in Page.buttons : screen.work[k].handler = c.what.handler
    BY <1>1, NothingOpens DEF Handlers, Page
  <1>4. c.what.handler.after = "show" => b.what.handler.after \in Replies
    BY <1>2, <1>3, Late DEF Rules, Here
  <1> QED
    BY <1>2, <1>3, <1>4 DEF Replies

LEMMA SettlesPress ==
  ASSUME Doing, Settling, screen.page # Nothing, NEW button \in Page.buttons,
         NEW served \in BOOLEAN, Press(button, served)
  PROVE  Settling'
  <1> DEFINE h == button.what.handler
             w == Fresh(h)
             t == screen'
             j == Called(w, served, t.version)
             n == Len(screen.work) + 1
  <1>1. Here
    BY DEF Doing, Here, Name
  <1>2. /\ w \in Draft(screen.page)
        /\ button.what.waits \cap Flags = {}
        /\ t \in Shown(screen.page)
        /\ t.choice = screen.choice /\ t.mine = screen.mine
        /\ t.version \in {screen.version, screen.version + 1}
        /\ t.failed = screen.failed
        /\ t.work = Append(screen.work, j)
        /\ \/ h.after = "optimistic"
           \/ t.asked = screen.asked /\ t.view = screen.view
        /\ h.after = "optimistic" =>
              /\ t.asked = <<>>
              /\ \/ t.view = screen.view
                 \/ /\ screen.view # Nothing /\ t.view \in Load
                    /\ t.view.choice = screen.view.choice
    BY <1>1, Pressing
  <1>3. /\ w.handler = h /\ w.choice = screen.choice /\ w.back = screen.view
    BY DEF Fresh
  <1> HIDE DEF w
  <1>4. /\ j.handler = h /\ j.choice = screen.choice /\ j.back = screen.view
        /\ j \in Job(screen.page) /\ j.version = t.version
        /\ t.version \in Nat
    <2>1. screen.page \in DOMAIN Pages /\ t.version \in Nat
      BY <1>1, <1>2 DEF Here, Shown
    <2> HIDE DEF t
    <2> QED
      BY <1>2, <1>3, <2>1, CalledIs
  <1>5. /\ screen.page \in DOMAIN Pages /\ Still(screen) /\ Settled(screen)
        /\ screen.work \in Seq(Job(screen.page)) /\ screen.version \in Nat
        /\ screen.mine \in Nat
    BY <1>1 DEF Here, Settling, Shown
  <1> HIDE DEF j
  <1>6. /\ n \in Nat \ {0} /\ DOMAIN t.work = 1..n /\ t.work[n] = j
        /\ DOMAIN screen.work = 1..(n - 1)
        /\ \A k \in 1..(n - 1) : t.work[k] = screen.work[k]
    BY <1>2, <1>4, <1>5
  <1>7. t.page = screen.page /\ LateOf(t) = LateOf(screen)
    BY <1>2 DEF Shown, LateOf
  <1> HIDE DEF n
  <1>8. \A k \in DOMAIN t.work : k = n
           \/ (k \in DOMAIN screen.work /\ t.work[k] = screen.work[k])
    BY <1>6
  <1>9. \A k \in DOMAIN screen.work : k \in DOMAIN t.work
           /\ t.work[k] = screen.work[k]
    BY <1>6
  <1>10. n \in DOMAIN t.work /\ t.work[n] = j
    BY <1>6
  <1> HIDE DEF t, h
  <1>11. Ordered(t)
    <2>1. t.mine <= t.version
      BY <1>2, <1>5 DEF Still, Ordered
    <2>2. CASE h.after # "optimistic"
      BY <1>2, <1>5, <1>7, <2>1, <2>2 DEF Still, Ordered
    <2>3. CASE h.after = "optimistic"
      <3>1. Distinct(t.asked) /\ DOMAIN t.asked = {}
        BY <1>2, <2>3 DEF Distinct
      <3> QED
        BY <1>2, <1>5, <1>7, <2>1, <2>3, <3>1 DEF Still, Ordered
    <2> QED
      BY <2>2, <2>3
  <1>13. \A afters : Running(t, afters) <=>
            Running(screen, afters) \/ h.after \in afters
    BY <1>4, <1>8, <1>9, <1>10 DEF Running
  <1>14. Timed(t)
    <2>1. /\ screen.version <= t.version /\ screen.mine <= t.version
          /\ t.mine = screen.mine
      BY <1>2, <1>5 DEF Still, Ordered
    <2>2. \A k \in DOMAIN screen.work :
             screen.work[k].version <= screen.version
                /\ screen.work[k].version \in Nat
      BY <1>5 DEF Still, Timed, Job, Work
    <2>3. ASSUME NEW k \in DOMAIN t.work
          PROVE  /\ t.work[k].version <= t.version
                 /\ t.work[k].handler.after = "show" =>
                       t.mine <= t.work[k].version
      <3>1. CASE k = n
        BY <1>4, <1>10, <2>1, <3>1
      <3>2. CASE k \in DOMAIN screen.work /\ t.work[k] = screen.work[k]
        <4>1. screen.work[k].handler.after = "show" =>
                 screen.mine <= screen.work[k].version
          BY <1>5, <3>2 DEF Still, Timed
        <4>2. screen.work[k].version <= t.version
          BY <1>4, <1>5, <2>1, <2>2, <3>2
        <4> QED
          BY <2>1, <3>2, <4>1, <4>2
      <3> QED
        BY <1>8, <3>1, <3>2
    <2>4. ASSUME NEW k \in DOMAIN t.work, NEW l \in DOMAIN t.work, k < l
          PROVE  t.work[k].version <= t.work[l].version
      <3>1. CASE l = n
        BY <1>4, <1>10, <2>3, <3>1
      <3>2. CASE l # n
        <4>1. k \in DOMAIN screen.work /\ l \in DOMAIN screen.work
          BY <1>6, <2>4, <3>2
        <4> QED
          BY <1>5, <1>9, <2>4, <4>1 DEF Still, Timed
      <3> QED
        BY <3>1, <3>2
    <2> QED
      BY <2>3, <2>4 DEF Timed
  <1>15. ASSUME NEW k \in DOMAIN t.work
         PROVE  /\ t.work[k].choice = t.choice
                /\ LateOf(t) = "keyed" =>
                      \/ t.work[k].back = Nothing
                      \/ t.work[k].back.choice = t.choice
    <2>1. CASE k = n
      BY <1>2, <1>4, <1>5, <1>7, <1>10, <2>1 DEF Still, Ordered
    <2>2. CASE k \in DOMAIN screen.work /\ t.work[k] = screen.work[k]
      BY <1>2, <1>5, <1>7, <2>2 DEF Still
    <2> QED
      BY <1>8, <2>1, <2>2
  <1>16. Pages[t.page].buttons # {}
    BY <1>7 DEF Page
  <1>17. Still(t)
    BY <1>11, <1>14, <1>15, <1>16 DEF Still
  <1>18. Settled(t)
    <2>1. CASE h.after = "optimistic"
      BY <1>13, <2>1 DEF Settled
    <2>2. CASE h.after # "optimistic"
      <3>1. Showing(screen) => Showing(t)
        BY <1>2, <1>7, <2>2 DEF Showing, Awaited, Fits
      <3>2. Running(screen, {"optimistic"}) => Running(t, {"optimistic"})
        BY <1>13
      <3> QED
        BY <1>2, <1>5, <3>1, <3>2 DEF Settled
    <2> QED
      BY <2>1, <2>2
  <1>19. subject' = subject /\ shown' = shown
    BY DEF Press, server
  <1> QED
    BY <1>7, <1>17, <1>18, <1>19, SettlesHere DEF t

\* The handlers that go on when handler i is over.
LEMMA RestWork ==
  ASSUME Doing, NEW i \in DOMAIN screen.work
  PROVE  LET r == RemoveAt(screen.work, i) IN
         /\ \A k \in DOMAIN r : \E j \in DOMAIN screen.work \ {i} :
               r[k] = screen.work[j]
         /\ \A j \in DOMAIN screen.work \ {i} : \E k \in DOMAIN r :
               r[k] = screen.work[j]
         /\ \A k, l \in DOMAIN r : k < l =>
               \E j, m \in DOMAIN screen.work \ {i} :
                  j < m /\ r[k] = screen.work[j] /\ r[l] = screen.work[m]
  <1>1. screen.work \in Seq(Job(screen.page))
    BY DEF Doing, Shown
  <1> DEFINE r == RemoveAt(screen.work, i)
  <1>2. \A k \in DOMAIN r : \E j \in DOMAIN screen.work \ {i} :
           r[k] = screen.work[j]
    BY <1>1, Rest
  <1>3. \A j \in DOMAIN screen.work \ {i} : \E k \in DOMAIN r :
           r[k] = screen.work[j]
    BY <1>1, Rest
  <1>4. \A k, l \in DOMAIN r : k < l =>
           \E j, m \in DOMAIN screen.work \ {i} :
              j < m /\ r[k] = screen.work[j] /\ r[l] = screen.work[m]
    <2> DEFINE at(k) == IF k < i THEN k ELSE k + 1
    <2>1. r \in Seq(Job(screen.page)) /\ Len(r) = Len(screen.work) - 1
      BY <1>1, Removed
    <2>2. \A k \in 1..(Len(screen.work) - 1) : r[k] = screen.work[at(k)]
      BY <1>1, Removed
    <2>3. /\ i \in 1..Len(screen.work) /\ Len(screen.work) \in Nat
          /\ DOMAIN screen.work = 1..Len(screen.work)
      BY <1>1
    <2> HIDE DEF r
    <2>4. DOMAIN r = 1..(Len(screen.work) - 1)
      BY <2>1
    <2>5. \A k, l \in DOMAIN r : k < l =>
             /\ at(k) \in DOMAIN screen.work \ {i}
             /\ at(l) \in DOMAIN screen.work \ {i} /\ at(k) < at(l)
      BY <2>3, <2>4
    <2> HIDE DEF at
    <2> QED
      BY <2>2, <2>4, <2>5
  <1> QED
    BY <1>2, <1>3, <1>4

LEMMA SettlesFinish ==
  ASSUME Doing, Settling, NEW i \in DOMAIN screen.work, NEW says \in Ends,
         NEW lost \in BOOLEAN, subject' = subject, shown' = shown,
         screen' = Finish(Without(i), screen.work[i], says, lost),
         says # "failed" => AnswersInOrder(i)
  PROVE  Settling'
  <1> DEFINE w == screen.work[i]
             s == Without(i)
             t == screen'
             r == RemoveAt(screen.work, i)
  <1>1. Here
    BY Busy
  <1>2. /\ w \in Job(screen.page) /\ s \in Shown(screen.page)
        /\ s.work = r /\ s.choice = screen.choice /\ s.mine = screen.mine
        /\ s.version = screen.version /\ s.failed = screen.failed
        /\ s.asked = screen.asked /\ s.view = screen.view
    BY <1>1, WithoutIs
  <1>3. screen.page \in DOMAIN Pages /\ Still(screen) /\ Settled(screen)
    BY <1>1 DEF Here, Settling
  <1>4. /\ \A k \in DOMAIN r : \E j \in DOMAIN screen.work \ {i} :
              r[k] = screen.work[j]
        /\ \A j \in DOMAIN screen.work \ {i} : \E k \in DOMAIN r :
              r[k] = screen.work[j]
        /\ \A k, l \in DOMAIN r : k < l =>
              \E j, m \in DOMAIN screen.work \ {i} :
                 j < m /\ r[k] = screen.work[j] /\ r[l] = screen.work[m]
    BY RestWork
  <1>5. t = Finish(s, w, says, lost)
    OBVIOUS
  <1>6. LateOf(s) = Page.late /\ LateOf(screen) = Page.late
           /\ s.page = screen.page
    BY <1>2 DEF Shown, LateOf, Page
  <1>7. /\ w.choice = s.choice
        /\ Page.late = "keyed" =>
              (w.back = Nothing \/ w.back.choice = s.choice)
    BY <1>2, <1>3, <1>6 DEF Still
  <1>8. /\ w.version <= s.version
        /\ w.handler.after = "show" => s.mine <= w.version
    BY <1>2, <1>3 DEF Still, Timed
  <1>9. says # "failed" /\ w.handler.after \in {"mark", "show"} =>
           \A k \in DOMAIN s.asked : w.version <= s.asked[k].version
    BY <1>2 DEF AnswersInOrder
  <1>16. says # "failed" /\ w.handler.after = "show" =>
            \A k \in 1..(i - 1) : screen.work[k].handler.after # "show"
    BY DEF AnswersInOrder
  <1>10. Pages[screen.page].buttons # {}
    <2>1. w.handler \in Handlers(screen.page)
      BY <1>2 DEF Job, Work
    <2> QED
      BY <2>1 DEF Handlers
  <1>11. /\ Ordered(s) /\ (Showing(screen) => Showing(s))
    BY <1>2, <1>3, <1>6 DEF Still, Ordered, Showing, Awaited, Fits
  <1> HIDE DEF w, s, t, r
  <1>12. \/ t.page = Nothing
         \/ /\ t \in Shown(screen.page) /\ t.choice = s.choice
            /\ t.work = s.work /\ t.version = s.version
    <2>1. \/ t = [Closed EXCEPT !.told = Said(w, says, lost)]
          \/ /\ t \in Shown(screen.page) /\ t.choice = s.choice
             /\ t.work = s.work /\ t.version = s.version
      BY <1>2, <1>3, <1>5, FinishKeeps
    <2> QED
      BY <2>1 DEF Closed, Blank
  <1>13. \/ t.page = Nothing
         \/ /\ \/ t.mine = s.mine
               \/ w.handler.after \in {"reload", "optimistic", "mark"}
               \/ /\ says # "failed" /\ w.handler.after = "show"
                  /\ t.mine <= w.version
            /\ \/ /\ Ordered(t) /\ w.handler.after \in {"reload", "optimistic"}
                  /\ t.failed \/ Loads = {} \/ Showing(t)
               \/ /\ Ordered(t) /\ w.handler.after # "optimistic"
                  /\ t.failed = s.failed /\ t.asked = s.asked
                  /\ Showing(s) => Showing(t)
    BY <1>2, <1>3, <1>5, <1>7, <1>8, <1>9, <1>11, FinishSettles
  <1>14. CASE t.page = Nothing
    BY <1>14, SettlesClosed DEF t
  <1>15. CASE t.page # Nothing
    <2>1. t.page = screen.page /\ t.choice = screen.choice /\ t.work = r
      BY <1>2, <1>12, <1>15 DEF Shown
    <2>2. Ordered(t)
      BY <1>13, <1>15
    <2>3. /\ t.mine \in Nat /\ w.version \in Nat
          /\ \A k \in DOMAIN screen.work : screen.work[k].version \in Nat
          /\ \A k, l \in DOMAIN screen.work :
                k < l => screen.work[k].version <= screen.work[l].version
          /\ i \in Nat /\ DOMAIN screen.work \subseteq Nat \ {0}
      BY <1>1, <1>2, <1>3, <1>12, <1>15 DEF Still, Timed, Shown, Here, Job, Work
    <2>4. Timed(t)
      <3>1. \A k, l \in DOMAIN r : k < l => r[k].version <= r[l].version
        BY <1>4, <2>3
      <3>2. \A k \in DOMAIN r : r[k].version <= t.version
        BY <1>2, <1>3, <1>4, <1>12, <1>15 DEF Still, Timed
      <3>3. ASSUME NEW k \in DOMAIN r, r[k].handler.after = "show"
            PROVE  t.mine <= r[k].version
        <4>1. PICK j \in DOMAIN screen.work \ {i} : r[k] = screen.work[j]
          BY <1>4
        <4>2. w.handler.after \in {"show", "keep", "leave"}
          BY <1>1, <3>3, <4>1, ShowsAlone DEF w
        <4>3. CASE t.mine = s.mine
          BY <1>2, <1>3, <3>3, <4>1, <4>3 DEF Still, Timed
        <4>4. CASE /\ says # "failed" /\ w.handler.after = "show"
                   /\ t.mine <= w.version
          <5>1. i < j
            BY <1>16, <2>3, <3>3, <4>1, <4>4
          <5>2. w.version <= screen.work[j].version
            BY <2>3, <5>1 DEF w
          <5> QED
            BY <2>3, <4>1, <4>4, <5>2
        <4> QED
          BY <1>13, <1>15, <4>2, <4>3, <4>4
      <3> QED
        BY <2>1, <3>1, <3>2, <3>3 DEF Timed
    <2>5. \A k \in DOMAIN t.work : \E j \in DOMAIN screen.work :
             /\ t.work[k].handler = screen.work[j].handler
             /\ t.work[k].choice = screen.work[j].choice
             /\ t.work[k].back = screen.work[j].back
      BY <1>4, <2>1
    <2>6. Pages[t.page].buttons = {} => t.mine = 0
      BY <1>10, <2>1
    <2>7. Still(t)
      BY <1>3, <2>1, <2>2, <2>4, <2>5, <2>6, StillWork
    <2>8. Settled(t)
      <3>1. CASE t.failed \/ Loads = {} \/ Showing(t)
        BY <3>1 DEF Settled
      <3>2. CASE /\ w.handler.after # "optimistic" /\ t.failed = s.failed
                 /\ Showing(s) => Showing(t)
        <4>1. Running(screen, {"optimistic"}) => Running(t, {"optimistic"})
          BY <1>4, <2>1, <3>2 DEF Running, w
        <4> QED
          BY <1>2, <1>3, <1>11, <3>2, <4>1 DEF Settled
      <3> QED
        BY <1>13, <1>15, <3>1, <3>2
    <2> QED
      BY <1>3, <2>1, <2>7, <2>8, SettlesHere DEF t
  <1> QED
    BY <1>14, <1>15

LEMMA SettlesAnswer ==
  ASSUME InOrder, Doing, Settling, NEW i \in DOMAIN screen.work, NEW served \in BOOLEAN,
         Answer(i, served)
  PROVE  Settling'
  <1> DEFINE w == screen.work[i]
             s == Without(i)
             next == [w EXCEPT !.step = 2]
             r == RemoveAt(screen.work, i)
             t == screen'
             j == Called(next, served, t.version)
             n == Len(r) + 1
  <1>1. Here
    BY Busy
  <1>2. subject' = subject /\ shown' = shown
    BY DEF Answer, server
  <1>3. CASE \E says \in Ends :
                screen' = Finish(s, w, says, FALSE) /\ AnswersInOrder(i)
    BY <1>2, <1>3, SettlesFinish
  <1>4. CASE /\ next \in Draft(screen.page) /\ next.handler = w.handler
             /\ next.choice = w.choice /\ next.back = w.back
             /\ screen' = Send(s, next, served)
    <2>1. /\ w \in Job(screen.page) /\ s \in Shown(screen.page)
          /\ s.work = r /\ s.choice = screen.choice /\ s.mine = screen.mine
          /\ s.version = screen.version /\ s.failed = screen.failed
          /\ s.asked = screen.asked /\ s.view = screen.view
      BY <1>1, WithoutIs
    <2>2. screen.page \in DOMAIN Pages /\ Still(screen) /\ Settled(screen)
      BY <1>1 DEF Here, Settling
    <2>3. /\ \A k \in DOMAIN r : \E m \in DOMAIN screen.work \ {i} :
                r[k] = screen.work[m]
          /\ \A m \in DOMAIN screen.work \ {i} : \E k \in DOMAIN r :
                r[k] = screen.work[m]
          /\ \A k, l \in DOMAIN r : k < l =>
                \E j1, m \in DOMAIN screen.work \ {i} :
                   j1 < m /\ r[k] = screen.work[j1] /\ r[l] = screen.work[m]
      BY RestWork
    <2>4. r \in Seq(Job(screen.page))
      BY <2>1 DEF Shown
    <2> HIDE DEF s, next, r
    <2>5. /\ t \in Shown(screen.page)
          /\ t.choice = s.choice /\ t.asked = s.asked /\ t.view = s.view
          /\ t.mine = s.mine /\ t.failed = s.failed
          /\ t.version \in {s.version, s.version + 1}
          /\ t.work = Append(s.work, j)
      BY <1>4, <2>1, <2>2, SendKeeps
    <2>6. /\ j \in Job(screen.page) /\ j.handler = w.handler
          /\ j.choice = w.choice /\ j.back = w.back
          /\ j.version = t.version /\ t.version \in Nat
      <3>1. t.version \in Nat
        BY <2>5 DEF Shown
      <3> HIDE DEF t
      <3> QED
        BY <1>4, <2>2, <3>1, CalledIs
    <2> HIDE DEF j
    <2>7. /\ DOMAIN t.work = 1..n /\ t.work[n] = j /\ n \in 1..n
          /\ DOMAIN r = 1..(n - 1) /\ \A k \in 1..(n - 1) : t.work[k] = r[k]
          /\ 1..n = 1..(n - 1) \cup {n}
      BY <2>1, <2>4, <2>5, <2>6
    <2> HIDE DEF n, t
    <2>8. \A k \in DOMAIN t.work : k = n
             \/ (k \in DOMAIN r /\ t.work[k] = r[k])
      BY <2>7
    <2>9. \A k \in DOMAIN r : k \in DOMAIN t.work /\ t.work[k] = r[k]
      BY <2>7
    <2>10. n \in DOMAIN t.work /\ t.work[n] = j
      BY <2>7
    <2>11. t.page = screen.page /\ LateOf(t) = LateOf(screen)
      BY <2>5 DEF Shown, LateOf
    <2>12. \A k \in DOMAIN t.work : \E m \in DOMAIN screen.work :
              /\ t.work[k].handler = screen.work[m].handler
              /\ t.work[k].choice = screen.work[m].choice
              /\ t.work[k].back = screen.work[m].back
      <3>1. ASSUME NEW k \in DOMAIN r
            PROVE  \E m \in DOMAIN screen.work : r[k] = screen.work[m]
        BY <2>3
      <3> QED
        BY <2>6, <2>8, <2>10, <3>1
    <2>13. t.mine <= t.version
      <3>1. screen.mine <= screen.version /\ screen.mine \in Nat
               /\ screen.version \in Nat
        BY <1>1, <2>2 DEF Still, Ordered, Here, Shown
      <3> QED
        BY <2>1, <2>5, <3>1
    <2>14. Ordered(t)
      BY <2>1, <2>2, <2>5, <2>11, <2>13 DEF Still, Ordered
    <2>15. Timed(t)
      <3>1. /\ screen.version \in Nat /\ screen.mine \in Nat
            /\ screen.mine <= screen.version
            /\ screen.version <= t.version /\ t.mine = screen.mine
        BY <1>1, <2>1, <2>2, <2>5 DEF Still, Ordered, Here, Shown
      <3>2. /\ \A m \in DOMAIN screen.work :
                  /\ screen.work[m].version \in Nat
                  /\ screen.work[m].version <= screen.version
                  /\ screen.work[m].handler.after = "show" =>
                        screen.mine <= screen.work[m].version
            /\ \A k, m \in DOMAIN screen.work :
                  k < m => screen.work[k].version <= screen.work[m].version
        BY <1>1, <2>2 DEF Still, Timed, Here, Shown, Job, Work
      <3>3. ASSUME NEW k \in DOMAIN t.work
            PROVE  /\ t.work[k].version <= t.version
                   /\ t.work[k].handler.after = "show" =>
                         t.mine <= t.work[k].version
        <4>1. CASE k = n
          BY <2>6, <2>10, <3>1, <4>1
        <4>2. CASE k \in DOMAIN r /\ t.work[k] = r[k]
          <5>1. PICK m \in DOMAIN screen.work : t.work[k] = screen.work[m]
            BY <2>3, <4>2
          <5>2. screen.work[m].version <= t.version
            BY <2>6, <3>1, <3>2
          <5> QED
            BY <3>1, <3>2, <5>1, <5>2
        <4> QED
          BY <2>8, <4>1, <4>2
      <3>4. ASSUME NEW k \in DOMAIN t.work, NEW l \in DOMAIN t.work, k < l
            PROVE  t.work[k].version <= t.work[l].version
        <4>1. CASE l = n
          BY <2>6, <2>10, <3>3, <4>1
        <4>2. CASE l # n
          <5>1. k \in DOMAIN r /\ l \in DOMAIN r
            BY <2>7, <2>8, <3>4, <4>2
          <5>2. r[k].version <= r[l].version
            BY <2>3, <3>2, <3>4, <5>1
          <5> QED
            BY <2>9, <5>1, <5>2
        <4> QED
          BY <4>1, <4>2
      <3> QED
        BY <3>3, <3>4 DEF Timed
    <2>16. Pages[t.page].buttons = {} => t.mine = 0
      BY <2>1, <2>2, <2>5, <2>11 DEF Still
    <2>17. Still(t)
      BY <2>1, <2>2, <2>5, <2>11, <2>12, <2>14, <2>15, <2>16, StillWork
    <2>18. Running(screen, {"optimistic"}) => Running(t, {"optimistic"})
      <3>1. ASSUME NEW m \in DOMAIN screen.work,
                   screen.work[m].handler.after \in {"optimistic"}
            PROVE  Running(t, {"optimistic"})
        <4>1. CASE m = i
          BY <2>6, <2>10, <3>1, <4>1 DEF Running
        <4>2. CASE m # i
          BY <2>3, <2>9, <3>1, <4>2 DEF Running
        <4> QED
          BY <4>1, <4>2
      <3> QED
        BY <3>1 DEF Running
    <2>19. Showing(screen) => Showing(t)
      BY <2>1, <2>5, <2>11 DEF Showing, Awaited, Fits
    <2>20. Settled(t)
      BY <2>1, <2>2, <2>5, <2>18, <2>19 DEF Settled
    <2> QED
      BY <1>2, <2>11, <2>17, <2>20, SettlesHere DEF t
  <1> QED
    BY <1>1, <1>3, <1>4, Answering

\* An answer that is shown is what the page shows; one that is missed is an
\* error.
LEMMA ArriveShows ==
  ASSUME Doing, NEW i \in DOMAIN screen.asked, Arrive(i) \/ Miss(i)
  PROVE  /\ MayArrive(i)
         /\ \/ /\ screen'.failed = screen.failed
               /\ screen'.view = IF Shows(screen.asked[i])
                                 THEN screen.asked[i] ELSE screen.view
            \/ screen'.failed = TRUE /\ screen'.view = screen.view
  <1>1. CASE Arrive(i)
    BY <1>1 DEF Arrive, Doing, Shown
  <1>2. CASE Miss(i)
    BY <1>2 DEF Miss, Doing, Shown
  <1> QED
    BY <1>1, <1>2

\* In order, the answer to come last is the one that was asked for last.
LEMMA NextShown ==
  ASSUME Here, NEW i \in DOMAIN screen.asked, NEW t, Ordered(screen),
         Showing(screen), i = 1, Page.late # "keyed", t.page = screen.page,
         t.choice = screen.choice, t.mine = screen.mine,
         t.asked = RemoveAt(screen.asked, i), t.view = screen.asked[i]
  PROVE  Showing(t)
  <1> DEFINE n == Len(screen.asked)
             r == RemoveAt(screen.asked, i)
  <1>1. LateOf(screen) = Page.late /\ LateOf(t) = Page.late
    BY DEF LateOf, Page
  <1>2. screen.asked \in Seq(Load)
    BY DEF Here, Shown
  <1>3. r \in Seq(Load) /\ Len(r) = n - 1
    BY <1>2, Removed
  <1>4. \A j \in 1..(n - 1) : r[j] = screen.asked[IF j < i THEN j ELSE j + 1]
    BY <1>2, Removed
  <1>5. n \in Nat \ {0} /\ DOMAIN screen.asked = 1..n
    BY <1>2
  <1> HIDE DEF r, n
  <1>6. DOMAIN r = 1..(n - 1)
           /\ \A j \in 1..(n - 1) : r[j] = screen.asked[j + 1]
    BY <1>3, <1>4, <1>5
  <1>7. Awaited(screen) = 1..n /\ Awaited(t) = 1..(n - 1)
    BY <1>1, <1>5, <1>6 DEF Awaited, r
  <1>8. Fits(screen, screen.asked[n])
    <2>1. 1 \in 1..n /\ n \in 1..n
      BY <1>5
    <2>2. PICK k \in 1..n : Fits(screen, screen.asked[k]) /\ n <= k
      BY <1>7, <2>1 DEF Showing
    <2>3. k = n
      BY <1>5, <2>2
    <2> QED
      BY <2>2, <2>3
  <1>9. Fits(t, screen.asked[n])
    BY <1>8 DEF Fits
  <1>10. CASE n = 1
    <2>1. 1..(n - 1) = {}
      BY <1>10
    <2>2. t.view \in Load /\ t.view = screen.asked[n]
      BY <1>2, <1>10
    <2> QED
      BY <1>7, <1>9, <2>1, <2>2, NothingLoads DEF Showing
  <1>11. CASE n # 1
    <2>1. n - 1 \in 1..(n - 1) /\ \A j \in 1..(n - 1) : j <= n - 1
      BY <1>5, <1>11
    <2>2. t.asked[n - 1] = screen.asked[n]
      BY <1>5, <1>6, <2>1 DEF r
    <2> QED
      BY <1>7, <1>9, <2>1, <2>2 DEF Showing
  <1> QED
    BY <1>10, <1>11

\* Under its key, a load that is awaited is the only one.
LEMMA NextKeyed ==
  ASSUME Here, NEW i \in DOMAIN screen.asked, NEW t, Ordered(screen),
         Showing(screen), Page.late = "keyed", t.page = screen.page,
         t.choice = screen.choice, t.mine = screen.mine,
         t.asked = RemoveAt(screen.asked, i),
         t.view = IF Shows(screen.asked[i]) THEN screen.asked[i]
                                            ELSE screen.view
  PROVE  Showing(t)
  <1> DEFINE r == RemoveAt(screen.asked, i)
  <1>1. LateOf(screen) = Page.late /\ LateOf(t) = Page.late
    BY DEF LateOf, Page
  <1>2. screen.asked \in Seq(Load)
    BY DEF Here, Shown
  <1>3. Distinct(screen.asked)
    BY <1>1 DEF Ordered
  <1>4. /\ r \in Seq(Load) /\ Distinct(r)
        /\ \A k \in DOMAIN r : r[k].choice # screen.asked[i].choice
    BY <1>2, <1>3, RestDistinct
  <1>5. \A k \in DOMAIN r : \E j \in DOMAIN screen.asked \ {i} :
           r[k] = screen.asked[j]
    BY <1>2, Rest
  <1>6. \A j \in DOMAIN screen.asked \ {i} : \E k \in DOMAIN r :
           r[k] = screen.asked[j]
    BY <1>2, Rest
  <1> HIDE DEF r
  <1>7. /\ Awaited(screen) = {k \in DOMAIN screen.asked :
                                 screen.asked[k].choice = screen.choice}
        /\ Awaited(t) = {k \in DOMAIN r : r[k].choice = screen.choice}
    BY <1>1 DEF Awaited, r
  <1>8. CASE screen.asked[i].choice = screen.choice
    <2>1. Awaited(screen) = {i} /\ Awaited(t) = {}
      BY <1>3, <1>4, <1>7, <1>8 DEF Distinct
    <2>2. Fits(screen, screen.asked[i])
      BY <2>1 DEF Showing
    <2>3. t.view = screen.asked[i] /\ t.view \in Load
      BY <1>2, <1>8 DEF Shows
    <2>4. Fits(t, t.view)
      BY <2>2, <2>3 DEF Fits
    <2> QED
      BY <2>1, <2>3, <2>4, NothingLoads DEF Showing
  <1>9. CASE screen.asked[i].choice # screen.choice
    <2>1. t.view = screen.view
      BY <1>9 DEF Shows
    <2>2. CASE Awaited(screen) = {}
      <3>1. Awaited(t) = {}
        BY <1>5, <1>7, <2>2
      <3> QED
        BY <2>1, <2>2, <3>1 DEF Showing, Fits
    <2>3. CASE Awaited(screen) # {}
      <3>1. PICK m \in Awaited(screen) : Fits(screen, screen.asked[m])
        BY <2>3 DEF Showing
      <3>2. m \in DOMAIN screen.asked \ {i}
        BY <1>7, <1>9
      <3>3. PICK k \in DOMAIN r : r[k] = screen.asked[m]
        BY <1>6, <3>2
      <3>4. k \in Awaited(t) /\ Fits(t, t.asked[k])
        BY <1>7, <3>1, <3>3 DEF Fits, r
      <3>5. \A j \in Awaited(t) : j = k
        BY <1>4, <1>7, <3>4 DEF Distinct
      <3>6. k \in Nat
        BY <1>4
      <3>7. \A j \in Awaited(t) : j <= k
        BY <3>5, <3>6
      <3> QED
        BY <3>4, <3>7 DEF Showing
    <2> QED
      BY <2>2, <2>3
  <1> QED
    BY <1>8, <1>9

LEMMA SettlesArrive ==
  ASSUME InOrder, Doing, Settling, NEW i \in DOMAIN screen.asked,
         Arrive(i) \/ Miss(i)
  PROVE  Settling'
  <1> DEFINE t == screen'
             r == RemoveAt(screen.asked, i)
  <1>1. /\ t \in Shown(screen.page) /\ t.choice = screen.choice
        /\ t.version = screen.version /\ t.mine = screen.mine
        /\ t.work = screen.work /\ t.asked = r
    BY ArriveKeeps
  <1>2. /\ MayArrive(i)
        /\ \/ /\ t.failed = screen.failed
              /\ t.view = IF Shows(screen.asked[i])
                          THEN screen.asked[i] ELSE screen.view
           \/ t.failed = TRUE /\ t.view = screen.view
    BY ArriveShows
  <1>3. t.page = screen.page /\ LateOf(t) = LateOf(screen)
    BY <1>1 DEF Shown, LateOf
  <1>4. subject' = subject /\ shown' = shown
    BY DEF Arrive, Miss, server
  <1> HIDE DEF t, r
  <1>5. ASSUME screen.page \in DOMAIN Pages
        PROVE  Still(t) /\ Settled(t)
    <2>1. Still(screen) /\ Settled(screen) /\ Here
      BY <1>5 DEF Settling, Here, Doing
    <2>2. screen.asked \in Seq(Load) /\ LateOf(screen) = Page.late
      BY <2>1 DEF Here, Shown, LateOf, Page
    <2>3. Page.late = "keyed" => Distinct(r)
      <3>1. Page.late = "keyed" => Distinct(screen.asked)
        BY <2>1, <2>2 DEF Still, Ordered
      <3>2. Distinct(screen.asked) => Distinct(r)
        BY <2>2, RestDistinct DEF r
      <3> QED
        BY <3>1, <3>2
    <2>4. Page.late = "dropped" => i = 1 /\ DOMAIN r \subseteq {1}
      <3>1. r \in Seq(Load) /\ Len(r) = Len(screen.asked) - 1
        BY <2>2, Removed DEF r
      <3>2. Page.late = "dropped" => DOMAIN screen.asked \subseteq {1}
        BY <2>1, <2>2 DEF Still, Ordered
      <3>3. DOMAIN r \subseteq DOMAIN screen.asked
        BY <2>2, <3>1
      <3> QED
        BY <3>2, <3>3
    <2>5. Page.late = "keyed" => (t.view = Nothing \/ t.view.choice = t.choice)
      BY <1>1, <1>2, <2>1, <2>2 DEF Still, Ordered, Shows
    <2>6. t.mine <= t.version
      BY <1>1, <2>1 DEF Still, Ordered
    <2>7. Ordered(t)
      BY <1>1, <1>3, <2>2, <2>3, <2>4, <2>5, <2>6 DEF Ordered
    <2>8. \A afters : Running(t, afters) <=> Running(screen, afters)
      BY <1>1 DEF Running
    <2>9. Timed(t)
      BY <1>1, <2>1 DEF Still, Timed
    <2>10. Pages[t.page].buttons = {} => t.mine = 0
      BY <1>1, <1>3, <2>1 DEF Still
    <2>11. Still(t)
      BY <1>1, <1>3, <2>1, <2>7, <2>9, <2>10, StillWork
    <2>12. Page.late # "keyed" => i = 1
      BY <1>2, <1>5, <2>4, Late DEF MayArrive
    <2>13. CASE t.failed = TRUE
      <3>1. t.failed \/ Loads = {} \/ Showing(t)
        BY <2>13
      <3> QED
        BY <2>11, <3>1 DEF Settled
    <2>14. CASE /\ t.failed = screen.failed
                /\ t.view = IF Shows(screen.asked[i])
                            THEN screen.asked[i] ELSE screen.view
      <3>1. ASSUME Showing(screen)
            PROVE  Showing(t)
        <4>1. Ordered(screen)
          BY <2>1 DEF Still
        <4>2. CASE Page.late = "keyed"
          BY <1>1, <1>3, <2>1, <2>14, <3>1, <4>1, <4>2, NextKeyed DEF r
        <4>3. CASE Page.late # "keyed"
          <5>1. t.view = screen.asked[i]
            BY <2>14, <4>3 DEF Shows
          <5> QED
            BY <1>1, <1>3, <2>1, <2>12, <3>1, <4>1, <4>3, <5>1, NextShown DEF r
        <4> QED
          BY <4>2, <4>3
      <3>2. Running(t, {"optimistic"}) <=> Running(screen, {"optimistic"})
        BY <2>8
      <3>3. \/ t.failed \/ Loads = {}
            \/ Running(t, {"optimistic"}) \/ Showing(t)
        BY <2>1, <2>14, <3>1, <3>2 DEF Settled
      <3> QED
        BY <2>11, <3>3 DEF Settled
    <2> QED
      BY <1>2, <2>11, <2>13, <2>14
  <1> QED
    BY <1>3, <1>4, <1>5, SettlesHere DEF t

\* A page that loads the same for everyone loads the same for them now.
LEMMA SameForAll ==
  ASSUME Here, \A item \in Page.loads : item.gate.keys = {}, NEW a, NEW b
  PROVE  LoadsFor(a) = LoadsFor(b)
  BY DEF LoadsFor, SeenWith, Passes, Viewer

LEMMA SettlesRefresh ==
  ASSUME Doing, Settling, RefreshUser
  PROVE  Settling'
  <1>1. subject' = subject /\ shown' = subject.held
    BY DEF RefreshUser, server
  <1>2. CASE screen' = Closed
    <2>1. screen'.page = Nothing
      BY <1>2 DEF Closed, Blank
    <2> QED
      BY <1>1, <2>1, SettlesClosed
  <1>3. CASE OpensFor(screen.page, subject.held)
    <2> DEFINE t == AskFor(subject.held, screen, screen.choice)
               more == LoadsFor(subject.held) \ Loads
    <2>1. screen.page \in DOMAIN Pages
      BY <1>3 DEF OpensFor
    <2>2. Here /\ Still(screen) /\ Settled(screen)
      BY <2>1 DEF Settling, Here, Doing
    <2>3. screen \in Shown(screen.page) /\ Ordered(screen)
             /\ screen.choice \in 1..2
      BY <2>2 DEF Here, Still, Shown
    <2>4. \/ \A item \in Page.loads : item.gate.keys = {}
          \/ Page.buttons = {} /\ Page.late = "keyed"
      BY <2>1, Late DEF Rules, Steady
    <2>5. ASSUME more # {}
          PROVE  Page.buttons = {} /\ Page.late = "keyed"
      <3>1. CASE \A item \in Page.loads : item.gate.keys = {}
        BY <2>2, <2>5, <3>1, SameForAll DEF Loads
      <3> QED
        BY <2>4, <3>1
    <2>6. \/ (more = {} \/ screen.view # Nothing) /\ screen' = screen
          \/ more # {} /\ screen' = t
      BY <1>3 DEF RefreshUser
    <2> HIDE DEF t
    <2>7. CASE (more = {} \/ screen.view # Nothing) /\ screen' = screen
      <3>1. Loads' = LoadsFor(subject.held)
        BY <1>1, <2>7 DEF Loads, LoadsFor, SeenWith, Viewer, Page
      <3>2. CASE more = {}
        <4>1. Loads = {} => Loads' = {}
          BY <3>1, <3>2
        <4> QED
          BY <1>1, <2>2, <2>7, <4>1 DEF Settling, Settled
      <3>3. CASE more # {}
        <4>1. /\ LateOf(screen) = "keyed" /\ Pages[screen.page].buttons = {}
              /\ screen.asked \in Seq(Load) /\ screen.view # Nothing
              /\ screen.view \in Load
          BY <2>3, <2>5, <2>7, <3>3 DEF LateOf, Page, Shown
        <4>2. screen.mine = 0 /\ screen.view.choice = screen.choice
          BY <2>2, <4>1 DEF Still, Ordered
        <4>3. Distinct(screen.asked)
          BY <2>3, <4>1 DEF Ordered
        <4>4. \A load \in Load : load.choice = screen.choice =>
                 Fits(screen, load)
          BY <4>2 DEF Fits, Load
        <4>5. Awaited(screen) = {} => Showing(screen)
          BY <4>1, <4>2, <4>4 DEF Showing
        <4>6. ASSUME Awaited(screen) # {}
              PROVE  Showing(screen)
          <5>1. PICK k \in Awaited(screen) : TRUE
            BY <4>6
          <5>2. k \in DOMAIN screen.asked
                   /\ screen.asked[k].choice = screen.choice
            BY <4>1, <5>1 DEF Awaited
          <5>3. Fits(screen, screen.asked[k])
            BY <4>1, <4>4, <5>2
          <5>4. \A j \in Awaited(screen) : j = k
            BY <4>1, <4>3, <5>2 DEF Awaited, Distinct
          <5>5. k \in Nat
            BY <4>1, <5>2
          <5> QED
            BY <5>1, <5>3, <5>4, <5>5 DEF Showing
        <4>7. Showing(screen)
          BY <4>5, <4>6
        <4> QED
          BY <1>1, <2>2, <2>7, <4>7 DEF Settling, Settled
      <3> QED
        BY <3>2, <3>3
    <2>8. CASE more # {} /\ screen' = t
      <3>1. Ordered(t) /\ (t.failed \/ LoadsFor(subject.held) = {}
               \/ Showing(t))
        BY <2>1, <2>3, AskSettles DEF t
      <3>2. /\ t \in Shown(screen.page) /\ t.choice = screen.choice
            /\ t.mine = screen.mine /\ t.work = screen.work
        BY <2>1, <2>3, AskKeeps DEF t
      <3>3. t.page = screen.page
        BY <3>2 DEF Shown
      <3>4. DOMAIN screen.work = {}
        <4>1. screen.work \in Seq(Job(screen.page))
          BY <2>3 DEF Shown
        <4>2. Handlers(screen.page) = {}
          BY <2>5, <2>8, NothingOpens DEF Handlers, Page
        <4>3. Job(screen.page) = {}
          BY <4>2 DEF Job, Work
        <4> QED
          BY <4>1, <4>3
      <3>5. Timed(t)
        BY <3>2, <3>4 DEF Timed
      <3>6. Still(t)
        BY <2>2, <3>1, <3>2, <3>3, <3>4, <3>5, StillWork DEF Still
      <3>7. Loads' = LoadsFor(subject.held)
        BY <1>1, <2>8, <3>3 DEF Loads, LoadsFor, SeenWith, Viewer, Page
      <3> QED
        BY <1>1, <2>8, <3>1, <3>6, <3>7 DEF Settling, Settled
    <2> QED
      BY <2>6, <2>7, <2>8
  <1> QED
    BY <1>2, <1>3 DEF RefreshUser

LEMMA SettlesOpen ==
  ASSUME Settling, NEW name \in DOMAIN Pages, Open(name)
  PROVE  Settling'
  <1> DEFINE loads == {item \in Pages[name].loads : Sees(item)}
             served == \A item \in loads : Serves(item.what)
             first == [choice |-> 1, version |-> 0]
             asked == IF served /\ loads # {} THEN <<first>> ELSE <<>>
             bad == ~served
             t == screen'
  <1>1. t = [Blank(name) EXCEPT !.failed = bad, !.asked = asked]
    BY DEF Open
  <1>2. /\ t.page = name /\ t.choice = 1 /\ t.view = Nothing
        /\ t.version = 0 /\ t.mine = 0 /\ t.work = <<>>
        /\ t.failed = bad /\ t.asked = asked
    <2> HIDE DEF bad, asked
    <2> QED
      BY <1>1 DEF Blank
  <1>3. subject' = subject /\ shown' = shown
    BY DEF Open, server
  <1>4. Loads' = loads
    BY <1>2, <1>3 DEF Loads, LoadsFor, Page, Sees, SeenWith, Viewer
  <1>5. asked = <<first>> \/ (asked = <<>> /\ (bad \/ loads = {}))
    OBVIOUS
  <1> HIDE DEF loads, served, asked, bad, t
  <1>6. Distinct(t.asked) /\ DOMAIN t.asked \subseteq {1}
    BY <1>2, <1>5 DEF Distinct
  <1>7. t.mine <= t.version
    BY <1>2
  <1>8. Ordered(t)
    BY <1>2, <1>6, <1>7 DEF Ordered
  <1>9. Still(t)
    <2>1. DOMAIN t.work = {}
      BY <1>2
    <2> QED
      BY <1>2, <1>8, <2>1 DEF Still, Timed
  <1>10. asked = <<first>> => Showing(t)
    <2> SUFFICES ASSUME asked = <<first>> PROVE Showing(t)
      OBVIOUS
    <2>1. DOMAIN t.asked = {1} /\ t.asked[1] = first
      BY <1>2
    <2>2. Awaited(t) = {1}
      BY <1>2, <2>1 DEF Awaited
    <2>3. Fits(t, t.asked[1])
      BY <1>2, <2>1 DEF Fits
    <2> QED
      BY <2>2, <2>3 DEF Showing
  <1>11. t.failed \/ loads = {} \/ Showing(t)
    BY <1>2, <1>5, <1>10
  <1>12. \/ screen'.failed \/ Loads' = {} \/ Showing(screen')
    BY <1>4, <1>11 DEF t
  <1>13. Still(screen)'
    BY <1>9 DEF t
  <1> QED
    BY <1>3, <1>12, <1>13 DEF Settling, Settled

LEMMA SettlesChoose ==
  ASSUME Patient, Doing, Settling, Choose
  PROVE  Settling'
  <1> DEFINE c == 3 - screen.choice
             view == IF Page.late = "keyed" THEN Nothing ELSE screen.view
             s == [screen EXCEPT !.choice = c, !.view = view]
             t == screen'
  <1>1. /\ screen.page \in DOMAIN Pages /\ t = AskFor(shown, s, c)
        /\ s \in Shown(screen.page) /\ s.choice = c /\ s.view = view
        /\ s.version = screen.version /\ s.mine = screen.mine
        /\ s.work = screen.work /\ s.asked = screen.asked /\ c \in 1..2
    BY ChooseIs
  <1>2. subject' = subject /\ shown' = shown /\ screen.work = <<>>
    BY DEF Choose, server
  <1>3. Here /\ Still(screen)
    BY <1>1 DEF Settling, Here, Doing
  <1>4. /\ s.page = screen.page /\ LateOf(s) = Page.late
        /\ LateOf(screen) = Page.late
    BY <1>1 DEF Shown, LateOf, Page
  <1>5. Page.late = "keyed" => s.view = Nothing
    BY <1>1
  <1> HIDE DEF c, s, t, view
  <1>6. Ordered(s)
    BY <1>1, <1>3, <1>4, <1>5 DEF Still, Ordered
  <1>7. Ordered(t) /\ (t.failed \/ Loads = {} \/ Showing(t))
    BY <1>1, <1>6, AskSettles DEF Loads
  <1>8. /\ t \in Shown(screen.page) /\ t.mine = screen.mine
        /\ t.work = <<>>
    BY <1>1, <1>2, AskKeeps
  <1>9. t.page = screen.page
    BY <1>8 DEF Shown
  <1>10. Still(t)
    <2>1. DOMAIN t.work = {}
      BY <1>8
    <2>2. Pages[t.page].buttons = {} => t.mine = 0
      BY <1>3, <1>8, <1>9 DEF Still
    <2> QED
      BY <1>7, <2>1, <2>2 DEF Still, Timed
  <1>11. Settled(t)
    BY <1>7 DEF Settled
  <1> QED
    BY <1>2, <1>9, <1>10, <1>11, SettlesHere DEF t

LEMMA SettlesNext ==
  InOrder /\ Patient /\ Doing /\ Settling /\ [WebNext]_webVars => Settling'
  <1> SUFFICES ASSUME InOrder, Patient, Doing, Settling, [WebNext]_webVars
               PROVE  Settling'
    OBVIOUS
  <1>1. ASSUME subject' = subject, shown' = shown, screen' = screen
        PROVE  Settling'
    <2>1. Loads' = Loads
      BY <1>1, SameLoads
    <2> QED
      BY <1>1, <2>1 DEF Settling, Settled
  <1>2. CASE ReadPrivileges \/ CachePrivileges \/ Expire
    BY <1>1, <1>2 DEF ReadPrivileges, CachePrivileges, Expire
  <1>3. ASSUME NEW move \in Moves, NEW here \in BOOLEAN,
               SetPrivileges(move[2], here)
        PROVE  Settling'
    BY <1>1, <1>3 DEF SetPrivileges
  <1>4. CASE CommitPrivileges
    <2>1. /\ subject' = [subject EXCEPT !.held = change.held]
          /\ shown' = shown /\ screen' = screen
      BY <1>4 DEF CommitPrivileges
    <2>2. subject'.role = subject.role /\ subject'.role \in Role
          /\ subject' \in [role : Role, held : {subject'.held}]
      BY <2>1 DEF Settling
    <2>3. Loads' = Loads
      BY <2>1, <2>2, SameLoads
    <2> QED
      BY <2>1, <2>2, <2>3 DEF Settling, Settled
  <1>5. CASE RefreshUser
    BY <1>5, SettlesRefresh
  <1>6. ASSUME NEW name \in DOMAIN Pages, Open(name)
        PROVE  Settling'
    BY <1>6, SettlesOpen
  <1>7. CASE Leave
    <2>1. subject' = subject /\ screen'.page = Nothing
      BY <1>7 DEF Leave, Closed, Blank, server
    <2> QED
      BY <2>1, SettlesClosed
  <1>8. CASE Choose
    BY <1>8, SettlesChoose
  <1>9. ASSUME NEW i \in DOMAIN screen.asked, Arrive(i) \/ Miss(i)
        PROVE  Settling'
    BY <1>9, SettlesArrive
  <1>10. ASSUME screen.page # Nothing, NEW button \in Page.buttons,
                NEW served \in BOOLEAN, Press(button, served)
         PROVE  Settling'
    BY <1>10, SettlesPress
  <1>11. ASSUME NEW i \in DOMAIN screen.work, NEW served \in BOOLEAN,
                Answer(i, served)
         PROVE  Settling'
    BY <1>11, SettlesAnswer
  <1>12. ASSUME NEW i \in DOMAIN screen.work, AnswerLost(i)
         PROVE  Settling'
    <2>1. /\ screen' = Finish(Without(i), screen.work[i], "failed", TRUE)
          /\ subject' = subject /\ shown' = shown
      BY <1>12 DEF AnswerLost, Without, server
    <2>2. "failed" \in Ends
      BY DEF Ends
    <2> QED
      BY <2>1, <2>2, SettlesFinish
  <1>13. CASE UNCHANGED webVars
    BY <1>1, <1>13 DEF webVars, server
  <1> QED
    BY <1>2, <1>3, <1>4, <1>5, <1>6, <1>7, <1>8, <1>9, <1>10, <1>11, <1>12,
      <1>13 DEF WebNext

LEMMA SettlesInit == WebInit => Settling
  <1> SUFFICES ASSUME WebInit PROVE Settling
    OBVIOUS
  <1>1. screen.page = Nothing
    BY DEF WebInit, Closed, Blank
  <1>2. subject \in [role : Role, held : {subject.held}]
    BY ScreensAssumption DEF ScreensAssumption, WebInit
  <1> QED
    BY <1>1, <1>2, NothingOpens DEF Settling

\* Once nothing is in flight, a page that shows no error shows the choice made
\* last and no state older than the changes it said it had made: on every page,
\* for any number of loads and handlers in flight, as long as answers that are
\* shown as they come, to loads and to handlers, come in order, and nobody
\* chooses while a handler runs.
THEOREM Settles == InOrder /\ Patient /\ WebSpec => []SettledView
  <1> DEFINE I == InOrder /\ Patient /\ Doing /\ Settling
  <1>1. InOrder /\ Patient /\ WebInit => I
    BY DoingInit, SettlesInit
  <1>2. I /\ [WebNext]_webVars => I'
    BY DoingNext, SettlesNext
  <1>3. I => SettledView
    <2> SUFFICES ASSUME Doing, Settling, screen.page # Nothing, Loads # {},
                        ~screen.failed, screen.asked = <<>>,
                        screen.work = <<>>
                 PROVE  /\ screen.view # Nothing
                        /\ screen.view.choice = screen.choice
                        /\ screen.mine <= screen.view.version
      BY DEF SettledView
    <2>1. Settled(screen)
      BY DEF Doing, Name, Settling
    <2>2. DOMAIN screen.work = {} /\ Awaited(screen) = {}
      BY DEF Awaited
    <2>3. Showing(screen)
      BY <2>1, <2>2 DEF Settled, Running
    <2> QED
      BY <2>2, <2>3 DEF Showing, Fits
  <1> HIDE DEF I
  <1> QED
    BY <1>1, <1>2, <1>3, PTL DEF WebSpec

-----------------------------------------------------------------------------
(* The pages: what they show is served *)

\* A user is let into a page, or into the page with this name.
Enters(page, user) == user.role \in page.area /\ Passes(page.gate, user)

Admits(name, user) == name \in DOMAIN Pages /\ Enters(Pages[name], user)

\* What the page of this name loads for a user, offers and leads to.
LoadsServed(name, page, user) ==
    \A item \in page.loads \cup page.pickers :
       Passes(item.gate, user) => \/ Passes(item.what.guard, user)
                                  \/ <<name, item.what.name>> \in Known

ButtonsServed(page, user) ==
    \A button \in page.buttons : Passes(button.gate, user) =>
       \A i \in DOMAIN button.what.handler.calls :
          Passes(button.what.handler.calls[i].route.guard, user)

LinksOpen(name, page, user) ==
    \A link \in page.links :
       Passes(link.gate, user) => \/ Admits(link.what, user)
                                  \/ <<name, link.what>> \in Known

Honest(name, page, user) ==
    Enters(page, user) =>
       /\ LoadsServed(name, page, user) /\ ButtonsServed(page, user)
       /\ LinksOpen(name, page, user)

\* The gates of pages and buttons, and of routes behind their wrappers.
LEMMA Gates ==
  ASSUME NEW user
  PROVE  /\ user.role \in Role => Passes(Anyone, user)
         /\ \A role : Passes(Only(role), user) <=> user.role = role
         /\ \A key : Passes(RequireAccess(key), user) <=> CanAccess(user, key)
         /\ \A key : Passes(CaptainOr(key), user) <=>
                      user.role = "CAPTAIN" \/ CanAccess(user, key)
         /\ \A keys : Passes(AnyOf(keys), user) <=>
                       \E key \in keys : CanAccess(user, key)
         /\ \A roles : Passes(Gate(roles, {}), user) <=> user.role \in roles
  BY DEF Passes, Anyone, Only, RequireAccess, CaptainOr, AnyOf, Gate

LEMMA Wrapped ==
  ASSUME NEW user
  PROVE  /\ \A key : Passes(WithAuth(RequireAccess(key)), user) <=>
               CanAccess(user, key)
         /\ \A key : Passes(WithAuth(CaptainOr(key)), user) <=>
                      user.role = "CAPTAIN" \/ CanAccess(user, key)
         /\ \A roles : Passes(WithAuth(RequireRole(roles)), user) <=>
                        user.role \in roles \cap Tenant
         /\ Passes(WithAuth(RequireMinRole("CAPTAIN")), user) <=>
               user.role \in Staff
         /\ Passes(WithAuth(RequireMinRole("MODERATOR")), user) <=>
               user.role \in {"MODERATOR", "ADMIN"}
         /\ Passes(WithAuth(RequireMinRole("ADMIN")), user) <=>
               user.role = "ADMIN"
  <1>1. \A keys, roles : Passes(WithAuth(Gate(roles, keys)), user) <=>
           \/ user.role \in roles \cap Tenant
           \/ \E key \in keys : CanAccess(user, key)
    BY DEF Passes, WithAuth, Gate
  <1>2. /\ HasMinRole("CAPTAIN") \cap Tenant = Staff
        /\ HasMinRole("MODERATOR") \cap Tenant = {"MODERATOR", "ADMIN"}
        /\ HasMinRole("ADMIN") \cap Tenant = {"ADMIN"}
    BY DEF HasMinRole, Rank, Role, Tenant, Staff
  <1>3. "CAPTAIN" \in Tenant
    BY DEF Tenant, Role
  <1> QED
    BY <1>1, <1>2, <1>3 DEF RequireAccess, CaptainOr, RequireRole,
      RequireMinRole

\* Which keys of the table grant which others.
LEMMA Grants ==
  ASSUME NEW user
  PROVE  /\ \A key : user.role = "ADMIN" => CanAccess(user, key)
         /\ \A key : CanAccess(user, key) =>
               user.role \in {"ADMIN", "MODERATOR"}
         /\ CanAccess(user, "enroll") => CanAccess(user, "viewPlans")
         /\ CanAccess(user, "enroll") => CanAccess(user, "listGroups")
         /\ CanAccess(user, "viewGroups") => CanAccess(user, "listGroups")
         /\ CanAccess(user, "viewGroups") => CanAccess(user, "viewPlans")
         /\ CanAccess(user, "viewSubscriptions") =>
               CanAccess(user, "viewPlans")
         /\ CanAccess(user, "managePayroll") => CanAccess(user, "viewCaptains")
         /\ CanAccess(user, "manageGroups") => CanAccess(user, "viewGroups")
         /\ CanAccess(user, "manageGroups") => CanAccess(user, "viewPlans")
         /\ CanAccess(user, "viewAttendance") =>
               CanAccess(user, "viewSchedule")
  <1>1. /\ Table["enroll"] \subseteq Table["viewPlans"]
        /\ Table["enroll"] \subseteq Table["listGroups"]
        /\ Table["viewGroups"] \subseteq Table["listGroups"]
        /\ Table["viewGroups"] \subseteq Table["viewPlans"]
        /\ Table["viewSubscriptions"] \subseteq Table["viewPlans"]
        /\ Table["managePayroll"] \subseteq Table["viewCaptains"]
        /\ Table["manageGroups"] \subseteq Table["viewGroups"]
        /\ Table["manageGroups"] \subseteq Table["viewPlans"]
        /\ Table["viewAttendance"] \subseteq Table["viewSchedule"]
    BY DEF Table
  <1>2. \A k, l : Table[k] \subseteq Table[l] =>
           (CanAccess(user, k) => CanAccess(user, l))
    BY DEF CanAccess
  <1>3. /\ \A key : user.role = "ADMIN" => CanAccess(user, key)
        /\ \A key : CanAccess(user, key) =>
              user.role \in {"ADMIN", "MODERATOR"}
    BY DEF CanAccess
  <1> QED
    BY <1>1, <1>2, <1>3

\* Whom each route serves.
LEMMA Guards ==
  ASSUME NEW user
  PROVE  /\ (Passes(ListTrainees.guard, user) <=>
               CanAccess(user, "viewTrainees"))
         /\ (Passes(CreateTrainee.guard, user) <=>
               CanAccess(user, "manageTrainees"))
         /\ (Passes(GetTrainee.guard, user) <=>
               CanAccess(user, "viewTrainees"))
         /\ (Passes(PatchTrainee.guard, user) <=>
               CanAccess(user, "manageTrainees"))
         /\ (Passes(AssignTrainee.guard, user) <=>
               CanAccess(user, "manageTrainees"))
         /\ (Passes(ListFeedback.guard, user) <=>
               user.role = "CAPTAIN" \/ CanAccess(user, "viewTrainees"))
         /\ (Passes(CreateFeedback.guard, user) <=> user.role = "CAPTAIN")
         /\ (Passes(ListGroups.guard, user) <=>
               user.role = "CAPTAIN" \/ CanAccess(user, "listGroups"))
         /\ (Passes(CreateGroup.guard, user) <=>
               CanAccess(user, "manageGroups"))
         /\ (Passes(GetGroup.guard, user) <=>
               user.role = "CAPTAIN" \/ CanAccess(user, "viewGroups"))
         /\ (Passes(PatchGroup.guard, user) <=>
               CanAccess(user, "manageGroups"))
         /\ (Passes(RemoveFromGroup.guard, user) <=>
               CanAccess(user, "manageGroups"))
         /\ (Passes(ListCaptains.guard, user) <=>
               CanAccess(user, "viewCaptains"))
         /\ (Passes(CreateCaptain.guard, user) <=>
               CanAccess(user, "manageCaptains"))
         /\ (Passes(GetCaptain.guard, user) <=>
               CanAccess(user, "viewCaptains"))
         /\ (Passes(PatchCaptain.guard, user) <=>
               CanAccess(user, "manageCaptains"))
         /\ (Passes(GetOwnRating.guard, user) <=> user.role = "CAPTAIN")
         /\ (Passes(ListSchedule.guard, user) <=>
               user.role = "CAPTAIN" \/ CanAccess(user, "viewSchedule"))
         /\ (Passes(PatchSession.guard, user) <=>
               CanAccess(user, "manageSchedule"))
         /\ (Passes(CancelSession.guard, user) <=>
               CanAccess(user, "manageSchedule"))
         /\ (Passes(GetSheet.guard, user) <=>
               CanAccess(user, "viewAttendance"))
         /\ (Passes(SubmitAttendance.guard, user) <=>
               CanAccess(user, "markAttendance"))
         /\ (Passes(ListPlans.guard, user) <=> CanAccess(user, "viewPlans"))
         /\ (Passes(CreatePlan.guard, user) <=> user.role \in {"ADMIN"})
         /\ (Passes(GetPlan.guard, user) <=> CanAccess(user, "viewPlans"))
         /\ (Passes(PatchPlan.guard, user) <=> user.role \in {"ADMIN"})
         /\ (Passes(DeletePlan.guard, user) <=> user.role \in {"ADMIN"})
         /\ (Passes(Enroll.guard, user) <=> CanAccess(user, "enroll"))
         /\ (Passes(Renew.guard, user) <=> CanAccess(user, "enroll"))
         /\ (Passes(RecordPayment.guard, user) <=>
               CanAccess(user, "recordPayments"))
         /\ (Passes(GetIncome.guard, user) <=> CanAccess(user, "viewFinances"))
         /\ (Passes(ListExpenses.guard, user) <=>
               CanAccess(user, "viewExpenses"))
         /\ (Passes(CreateExpense.guard, user) <=>
               CanAccess(user, "manageExpenses"))
         /\ (Passes(DeleteExpense.guard, user) <=>
               CanAccess(user, "manageExpenses"))
         /\ (Passes(ListManualIncomes.guard, user) <=>
               CanAccess(user, "viewExpenses"))
         /\ (Passes(CreateManualIncome.guard, user) <=>
               CanAccess(user, "manageExpenses"))
         /\ (Passes(DeleteManualIncome.guard, user) <=>
               CanAccess(user, "manageExpenses"))
         /\ (Passes(ListPayrolls.guard, user) <=>
               CanAccess(user, "managePayroll"))
         /\ (Passes(RecordPayroll.guard, user) <=>
               CanAccess(user, "managePayroll"))
         /\ (Passes(CalculatePayroll.guard, user) <=>
               CanAccess(user, "managePayroll"))
         /\ (Passes(MarkPayrollPaid.guard, user) <=>
               CanAccess(user, "managePayroll"))
         /\ (Passes(ListReceipts.guard, user) <=>
               CanAccess(user, "viewReceipts"))
         /\ (Passes(GetReceipt.guard, user) <=>
               CanAccess(user, "viewReceipts"))
         /\ (Passes(GetReport.guard, user) <=> CanAccess(user, "viewReports"))
         /\ (Passes(GetDashboard.guard, user) <=> user.role \in Staff)
         /\ (Passes(ListBranches.guard, user) <=>
               user.role \in {"MODERATOR", "ADMIN"})
         /\ (Passes(CreateBranch.guard, user) <=> user.role = "ADMIN")
         /\ (Passes(PatchBranch.guard, user) <=> user.role = "ADMIN")
         /\ (Passes(ListUsers.guard, user) <=> user.role = "ADMIN")
         /\ (Passes(CreateUser.guard, user) <=> user.role = "ADMIN")
         /\ (Passes(PatchUser.guard, user) <=> user.role = "ADMIN")
         /\ (Passes(PostSwitchBranch.guard, user) <=> user.role = "ADMIN")
         /\ (Passes(ChangePassword.guard, user) <=> user.role \in Tenant)
         /\ (Passes(PortalDashboard.guard, user) <=> user.role = "TRAINEE")
         /\ (Passes(PortalTrainees.guard, user) <=> user.role = "TRAINEE")
         /\ (Passes(PortalAttendance.guard, user) <=> user.role = "TRAINEE")
         /\ (Passes(PortalSchedule.guard, user) <=> user.role = "TRAINEE")
         /\ (Passes(PortalSubscription.guard, user) <=> user.role = "TRAINEE")
         /\ (Passes(PortalReceipts.guard, user) <=> user.role = "TRAINEE")
         /\ (Passes(PortalReceipt.guard, user) <=> user.role = "TRAINEE")
         /\ (Passes(PortalFeedback.guard, user) <=> user.role = "TRAINEE")
         /\ (Passes(GetCaptainRating.guard, user) <=> user.role = "TRAINEE")
         /\ (Passes(RateCaptain.guard, user) <=> user.role = "TRAINEE")
         /\ (Passes(ListTenants.guard, user) <=> user.role = "SUPER_ADMIN")
         /\ (Passes(CreateTenant.guard, user) <=> user.role = "SUPER_ADMIN")
         /\ (Passes(GetTenant.guard, user) <=> user.role = "SUPER_ADMIN")
         /\ (Passes(PatchTenant.guard, user) <=> user.role = "SUPER_ADMIN")
         /\ (Passes(PatchTenantStatus.guard, user) <=>
               user.role = "SUPER_ADMIN")
         /\ (Passes(GetUsage.guard, user) <=> user.role = "SUPER_ADMIN")
         /\ (Passes(ListLeads.guard, user) <=> user.role = "SUPER_ADMIN")
         /\ (Passes(PatchLead.guard, user) <=> user.role = "SUPER_ADMIN")
         /\ (Passes(DeleteLead.guard, user) <=> user.role = "SUPER_ADMIN")
         /\ (Passes(GetSettings.guard, user) <=> user.role = "SUPER_ADMIN")
         /\ (Passes(PutSettings.guard, user) <=> user.role = "SUPER_ADMIN")
  <1>1. /\ (Passes(ListTrainees.guard, user) <=>
              CanAccess(user, "viewTrainees"))
        /\ (Passes(CreateTrainee.guard, user) <=>
              CanAccess(user, "manageTrainees"))
        /\ (Passes(GetTrainee.guard, user) <=> CanAccess(user, "viewTrainees"))
        /\ (Passes(PatchTrainee.guard, user) <=>
              CanAccess(user, "manageTrainees"))
        /\ (Passes(AssignTrainee.guard, user) <=>
              CanAccess(user, "manageTrainees"))
        /\ (Passes(ListFeedback.guard, user) <=>
              user.role = "CAPTAIN" \/ CanAccess(user, "viewTrainees"))
        /\ (Passes(CreateFeedback.guard, user) <=> user.role = "CAPTAIN")
        /\ (Passes(ListGroups.guard, user) <=>
              user.role = "CAPTAIN" \/ CanAccess(user, "listGroups"))
    BY Wrapped, Gates DEF Route, Tenant, Role, ListTrainees, CreateTrainee,
      GetTrainee, PatchTrainee, AssignTrainee, ListFeedback,
      CreateFeedback, ListGroups
  <1>2. /\ (Passes(CreateGroup.guard, user) <=>
              CanAccess(user, "manageGroups"))
        /\ (Passes(GetGroup.guard, user) <=>
              user.role = "CAPTAIN" \/ CanAccess(user, "viewGroups"))
        /\ (Passes(PatchGroup.guard, user) <=> CanAccess(user, "manageGroups"))
        /\ (Passes(RemoveFromGroup.guard, user) <=>
              CanAccess(user, "manageGroups"))
        /\ (Passes(ListCaptains.guard, user) <=>
              CanAccess(user, "viewCaptains"))
        /\ (Passes(CreateCaptain.guard, user) <=>
              CanAccess(user, "manageCaptains"))
        /\ (Passes(GetCaptain.guard, user) <=> CanAccess(user, "viewCaptains"))
        /\ (Passes(PatchCaptain.guard, user) <=>
              CanAccess(user, "manageCaptains"))
    BY Wrapped, Gates DEF Route, CreateGroup, GetGroup, PatchGroup,
      RemoveFromGroup, ListCaptains, CreateCaptain, GetCaptain,
      PatchCaptain
  <1>3. /\ (Passes(GetOwnRating.guard, user) <=> user.role = "CAPTAIN")
        /\ (Passes(ListSchedule.guard, user) <=>
              user.role = "CAPTAIN" \/ CanAccess(user, "viewSchedule"))
        /\ (Passes(PatchSession.guard, user) <=>
              CanAccess(user, "manageSchedule"))
        /\ (Passes(CancelSession.guard, user) <=>
              CanAccess(user, "manageSchedule"))
        /\ (Passes(GetSheet.guard, user) <=> CanAccess(user, "viewAttendance"))
        /\ (Passes(SubmitAttendance.guard, user) <=>
              CanAccess(user, "markAttendance"))
        /\ (Passes(ListPlans.guard, user) <=> CanAccess(user, "viewPlans"))
        /\ (Passes(CreatePlan.guard, user) <=> user.role \in {"ADMIN"})
    BY Wrapped, Gates DEF Route, Tenant, Role, GetOwnRating, ListSchedule,
      PatchSession, CancelSession, GetSheet, SubmitAttendance, ListPlans,
      CreatePlan
  <1>4. /\ (Passes(GetPlan.guard, user) <=> CanAccess(user, "viewPlans"))
        /\ (Passes(PatchPlan.guard, user) <=> user.role \in {"ADMIN"})
        /\ (Passes(DeletePlan.guard, user) <=> user.role \in {"ADMIN"})
        /\ (Passes(Enroll.guard, user) <=> CanAccess(user, "enroll"))
        /\ (Passes(Renew.guard, user) <=> CanAccess(user, "enroll"))
        /\ (Passes(RecordPayment.guard, user) <=>
              CanAccess(user, "recordPayments"))
        /\ (Passes(GetIncome.guard, user) <=> CanAccess(user, "viewFinances"))
        /\ (Passes(ListExpenses.guard, user) <=>
              CanAccess(user, "viewExpenses"))
    BY Wrapped, Gates DEF Route, GetPlan, PatchPlan, DeletePlan, Enroll,
      Renew, RecordPayment, GetIncome, ListExpenses
  <1>5. /\ (Passes(CreateExpense.guard, user) <=>
              CanAccess(user, "manageExpenses"))
        /\ (Passes(DeleteExpense.guard, user) <=>
              CanAccess(user, "manageExpenses"))
        /\ (Passes(ListManualIncomes.guard, user) <=>
              CanAccess(user, "viewExpenses"))
        /\ (Passes(CreateManualIncome.guard, user) <=>
              CanAccess(user, "manageExpenses"))
        /\ (Passes(DeleteManualIncome.guard, user) <=>
              CanAccess(user, "manageExpenses"))
        /\ (Passes(ListPayrolls.guard, user) <=>
              CanAccess(user, "managePayroll"))
        /\ (Passes(RecordPayroll.guard, user) <=>
              CanAccess(user, "managePayroll"))
        /\ (Passes(CalculatePayroll.guard, user) <=>
              CanAccess(user, "managePayroll"))
    BY Wrapped, Gates DEF Route, CreateExpense, DeleteExpense,
      ListManualIncomes, CreateManualIncome, DeleteManualIncome,
      ListPayrolls, RecordPayroll, CalculatePayroll
  <1>6. /\ (Passes(MarkPayrollPaid.guard, user) <=>
              CanAccess(user, "managePayroll"))
        /\ (Passes(ListReceipts.guard, user) <=>
              CanAccess(user, "viewReceipts"))
        /\ (Passes(GetReceipt.guard, user) <=> CanAccess(user, "viewReceipts"))
        /\ (Passes(GetReport.guard, user) <=> CanAccess(user, "viewReports"))
        /\ (Passes(GetDashboard.guard, user) <=> user.role \in Staff)
        /\ (Passes(ListBranches.guard, user) <=>
              user.role \in {"MODERATOR", "ADMIN"})
        /\ (Passes(CreateBranch.guard, user) <=> user.role = "ADMIN")
        /\ (Passes(PatchBranch.guard, user) <=> user.role = "ADMIN")
    BY Wrapped, Gates DEF Route, Tenant, Role, MarkPayrollPaid,
      ListReceipts, GetReceipt, GetReport, GetDashboard, ListBranches,
      CreateBranch, PatchBranch
  <1>7. /\ (Passes(ListUsers.guard, user) <=> user.role = "ADMIN")
        /\ (Passes(CreateUser.guard, user) <=> user.role = "ADMIN")
        /\ (Passes(PatchUser.guard, user) <=> user.role = "ADMIN")
        /\ (Passes(PostSwitchBranch.guard, user) <=> user.role = "ADMIN")
        /\ (Passes(ChangePassword.guard, user) <=> user.role \in Tenant)
        /\ (Passes(PortalDashboard.guard, user) <=> user.role = "TRAINEE")
        /\ (Passes(PortalTrainees.guard, user) <=> user.role = "TRAINEE")
        /\ (Passes(PortalAttendance.guard, user) <=> user.role = "TRAINEE")
    BY Wrapped, Gates DEF Route, WithTraineeAuth, Tenant, Role, ListUsers,
      CreateUser, PatchUser, PostSwitchBranch, ChangePassword,
      PortalDashboard, PortalTrainees, PortalAttendance
  <1>8. /\ (Passes(PortalSchedule.guard, user) <=> user.role = "TRAINEE")
        /\ (Passes(PortalSubscription.guard, user) <=> user.role = "TRAINEE")
        /\ (Passes(PortalReceipts.guard, user) <=> user.role = "TRAINEE")
        /\ (Passes(PortalReceipt.guard, user) <=> user.role = "TRAINEE")
        /\ (Passes(PortalFeedback.guard, user) <=> user.role = "TRAINEE")
        /\ (Passes(GetCaptainRating.guard, user) <=> user.role = "TRAINEE")
        /\ (Passes(RateCaptain.guard, user) <=> user.role = "TRAINEE")
        /\ (Passes(ListTenants.guard, user) <=> user.role = "SUPER_ADMIN")
    BY Wrapped, Gates DEF Route, WithTraineeAuth, WithSuperAdminAuth,
      RequireRole, Tenant, Role, PortalSchedule, PortalSubscription,
      PortalReceipts, PortalReceipt, PortalFeedback, GetCaptainRating,
      RateCaptain, ListTenants
  <1>9. /\ (Passes(CreateTenant.guard, user) <=> user.role = "SUPER_ADMIN")
        /\ (Passes(GetTenant.guard, user) <=> user.role = "SUPER_ADMIN")
        /\ (Passes(PatchTenant.guard, user) <=> user.role = "SUPER_ADMIN")
        /\ (Passes(PatchTenantStatus.guard, user) <=>
              user.role = "SUPER_ADMIN")
        /\ (Passes(GetUsage.guard, user) <=> user.role = "SUPER_ADMIN")
        /\ (Passes(ListLeads.guard, user) <=> user.role = "SUPER_ADMIN")
        /\ (Passes(PatchLead.guard, user) <=> user.role = "SUPER_ADMIN")
        /\ (Passes(DeleteLead.guard, user) <=> user.role = "SUPER_ADMIN")
    BY Wrapped, Gates DEF Route, WithSuperAdminAuth, RequireRole,
      CreateTenant, GetTenant, PatchTenant, PatchTenantStatus, GetUsage,
      ListLeads, PatchLead, DeleteLead
  <1>10. /\ (Passes(GetSettings.guard, user) <=> user.role = "SUPER_ADMIN")
        /\ (Passes(PutSettings.guard, user) <=> user.role = "SUPER_ADMIN")
    BY Wrapped, Gates DEF Route, WithSuperAdminAuth, RequireRole,
      GetSettings, PutSettings
  <1> QED
    BY <1>1, <1>2, <1>3, <1>4, <1>5, <1>6, <1>7, <1>8, <1>9, <1>10

\* The page of this name, and whom it lets in.
Door(name, area, gate) ==
    /\ name \in DOMAIN Pages
    /\ Pages[name].area = area /\ Pages[name].gate = gate

LEMMA Entering ==
  ASSUME NEW name, NEW area, NEW gate, Door(name, area, gate), NEW user,
         user.role \in area, Passes(gate, user)
  PROVE  Admits(name, user)
  BY DEF Door, Admits, Enters

LEMMA Doors ==
  /\ Door("dashboard", Staff, Anyone)
  /\ Door("branches", Staff, Anyone)
  /\ Door("users", Staff, Anyone)
  /\ Door("groups", Staff, CaptainOr("viewGroups"))
  /\ Door("schedule", Staff, CaptainOr("viewSchedule"))
  /\ Door("trainees", Staff, RequireAccess("viewTrainees"))
  /\ Door("captains", Staff, RequireAccess("viewCaptains"))
  /\ Door("plans", Staff, RequireAccess("viewSubscriptions"))
  /\ Door("attendance", Staff, RequireAccess("viewAttendance"))
  /\ Door("reports", Staff, RequireAccess("viewReports"))
  /\ Door("finance", Staff,
        AnyOf({"viewFinances", "viewExpenses", "viewReceipts",
        "managePayroll"}))
  /\ Door("trainee", Staff, RequireAccess("viewTrainees"))
  /\ Door("trainee_new", Staff, RequireAccess("manageTrainees"))
  /\ Door("captain", Staff, RequireAccess("viewCaptains"))
  /\ Door("captain_new", Staff, RequireAccess("manageCaptains"))
  /\ Door("plan", Staff, RequireAccess("viewSubscriptions"))
  /\ Door("plan_new", Staff, Only("ADMIN"))
  /\ Door("group", Staff, CaptainOr("viewGroups"))
  /\ Door("feedback", Staff, CaptainOr("viewTrainees"))
  /\ Door("group_new", Staff, RequireAccess("manageGroups"))
  /\ Door("group_edit", Staff, RequireAccess("manageGroups"))
  /\ Door("manual_income", Staff, RequireAccess("viewExpenses"))
  /\ Door("expenses", Staff, RequireAccess("viewExpenses"))
  /\ Door("receipts", Staff, RequireAccess("viewReceipts"))
  /\ Door("payroll", Staff, RequireAccess("managePayroll"))
  /\ Door("portal", {"TRAINEE"}, Only("TRAINEE"))
  /\ Door("portal_attendance", {"TRAINEE"}, Only("TRAINEE"))
  /\ Door("portal_subscription", {"TRAINEE"}, Only("TRAINEE"))
  /\ Door("portal_receipts", {"TRAINEE"}, Only("TRAINEE"))
  /\ Door("portal_schedule", {"TRAINEE"}, Only("TRAINEE"))
  /\ Door("tenants", {"SUPER_ADMIN"}, Anyone)
  /\ Door("leads", {"SUPER_ADMIN"}, Anyone)
  /\ Door("settings", {"SUPER_ADMIN"}, Anyone)
  /\ Door("tenant", {"SUPER_ADMIN"}, Anyone)
  /\ Door("tenant_new", {"SUPER_ADMIN"}, Anyone)
  <1>1. /\ Door("dashboard", Staff, Anyone)
        /\ Door("branches", Staff, Anyone)
        /\ Door("users", Staff, Anyone)
        /\ Door("groups", Staff, CaptainOr("viewGroups"))
    BY DEF Door, Pages, RequireAccessPage, DashboardPage, BranchesPage,
      UsersPage, GroupsPage
  <1>2. /\ Door("schedule", Staff, CaptainOr("viewSchedule"))
        /\ Door("trainees", Staff, RequireAccess("viewTrainees"))
        /\ Door("captains", Staff, RequireAccess("viewCaptains"))
        /\ Door("plans", Staff, RequireAccess("viewSubscriptions"))
    BY DEF Door, Pages, RequireAccessPage, SchedulePage, TraineesPage,
      CaptainsPage, PlansPage
  <1>3. /\ Door("attendance", Staff, RequireAccess("viewAttendance"))
        /\ Door("reports", Staff, RequireAccess("viewReports"))
        /\ Door("finance", Staff,
              AnyOf({"viewFinances", "viewExpenses", "viewReceipts",
              "managePayroll"}))
        /\ Door("trainee", Staff, RequireAccess("viewTrainees"))
    BY DEF Door, Pages, RequireAccessPage, AttendancePage, ReportsPage,
      FinancePage, TraineePage
  <1>4. /\ Door("trainee_new", Staff, RequireAccess("manageTrainees"))
        /\ Door("captain", Staff, RequireAccess("viewCaptains"))
        /\ Door("captain_new", Staff, RequireAccess("manageCaptains"))
        /\ Door("plan", Staff, RequireAccess("viewSubscriptions"))
    BY DEF Door, Pages, RequireAccessPage, NewTraineePage, CaptainPage,
      NewCaptainPage, PlanPage
  <1>5. /\ Door("plan_new", Staff, Only("ADMIN"))
        /\ Door("group", Staff, CaptainOr("viewGroups"))
        /\ Door("group_new", Staff, RequireAccess("manageGroups"))
        /\ Door("group_edit", Staff, RequireAccess("manageGroups"))
    BY DEF Door, Pages, RequireAccessPage, NewPlanPage, GroupPage,
      NewGroupPage, EditGroupPage
  <1>6. /\ Door("manual_income", Staff, RequireAccess("viewExpenses"))
        /\ Door("expenses", Staff, RequireAccess("viewExpenses"))
        /\ Door("receipts", Staff, RequireAccess("viewReceipts"))
        /\ Door("payroll", Staff, RequireAccess("managePayroll"))
    BY DEF Door, Pages, RequireAccessPage, ManualIncomePage, ExpensesPage,
      ReceiptsPage, PayrollPage
  <1>7. /\ Door("portal", {"TRAINEE"}, Only("TRAINEE"))
        /\ Door("portal_attendance", {"TRAINEE"}, Only("TRAINEE"))
        /\ Door("portal_subscription", {"TRAINEE"}, Only("TRAINEE"))
        /\ Door("portal_receipts", {"TRAINEE"}, Only("TRAINEE"))
    BY DEF Door, Pages, RequireAccessPage, PortalPage,
      PortalAttendancePage, PortalSubscriptionPage, PortalReceiptsPage,
      PortalScreen
  <1>8. /\ Door("portal_schedule", {"TRAINEE"}, Only("TRAINEE"))
        /\ Door("tenants", {"SUPER_ADMIN"}, Anyone)
        /\ Door("leads", {"SUPER_ADMIN"}, Anyone)
        /\ Door("settings", {"SUPER_ADMIN"}, Anyone)
    BY DEF Door, Pages, RequireAccessPage, PortalSchedulePage, TenantsPage,
      LeadsPage, SettingsPage, PortalScreen
  <1>9. /\ Door("tenant", {"SUPER_ADMIN"}, Anyone)
        /\ Door("tenant_new", {"SUPER_ADMIN"}, Anyone)
    BY DEF Door, Pages, RequireAccessPage, TenantPage, NewTenantPage
  <1>10. Door("feedback", Staff, CaptainOr("viewTrainees"))
    BY DEF Door, Pages, RequireAccessPage, FeedbackPanel
  <1> QED
    BY <1>1, <1>2, <1>3, <1>4, <1>5, <1>6, <1>7, <1>8, <1>9, <1>10

LEMMA Granted ==
  ASSUME NEW name, NEW key, Door(name, Staff, RequireAccess(key)), NEW user,
         CanAccess(user, key)
  PROVE  Admits(name, user)
  BY Entering, Gates, Grants DEF Staff

\* What a link leads to is there, and opens for these users.
LEMMA Opened ==
  ASSUME NEW user
  PROVE  /\ CanAccess(user, "viewTrainees") => Admits("trainees", user)
         /\ CanAccess(user, "viewCaptains") => Admits("captains", user)
         /\ CanAccess(user, "viewSubscriptions") => Admits("plans", user)
         /\ CanAccess(user, "viewAttendance") => Admits("attendance", user)
         /\ CanAccess(user, "viewReports") => Admits("reports", user)
         /\ CanAccess(user, "viewTrainees") => Admits("trainee", user)
         /\ CanAccess(user, "manageTrainees") => Admits("trainee_new", user)
         /\ CanAccess(user, "viewCaptains") => Admits("captain", user)
         /\ CanAccess(user, "manageCaptains") => Admits("captain_new", user)
         /\ CanAccess(user, "viewSubscriptions") => Admits("plan", user)
         /\ CanAccess(user, "manageGroups") => Admits("group_new", user)
         /\ CanAccess(user, "manageGroups") => Admits("group_edit", user)
         /\ CanAccess(user, "viewExpenses") => Admits("manual_income", user)
         /\ CanAccess(user, "viewExpenses") => Admits("expenses", user)
         /\ CanAccess(user, "viewReceipts") => Admits("receipts", user)
         /\ CanAccess(user, "managePayroll") => Admits("payroll", user)
         /\ user.role \in Staff => Admits("dashboard", user)
         /\ user.role \in Staff => Admits("branches", user)
         /\ user.role \in Staff => Admits("users", user)
         /\ (user.role = "CAPTAIN" \/ CanAccess(user, "viewGroups")) =>
               Admits("groups", user)
         /\ (user.role = "CAPTAIN" \/ CanAccess(user, "viewSchedule")) =>
               Admits("schedule", user)
         /\ (\E key \in {"viewFinances", "viewExpenses", "viewReceipts",
               "managePayroll"} : CanAccess(user, key)) =>
               Admits("finance", user)
         /\ user.role = "ADMIN" => Admits("plan_new", user)
         /\ (user.role = "CAPTAIN" \/ CanAccess(user, "viewGroups")) =>
               Admits("group", user)
         /\ (user.role = "CAPTAIN" \/ CanAccess(user, "viewTrainees")) =>
               Admits("feedback", user)
         /\ user.role \in {"TRAINEE"} => Admits("portal", user)
         /\ user.role \in {"TRAINEE"} => Admits("portal_attendance", user)
         /\ user.role \in {"TRAINEE"} => Admits("portal_subscription", user)
         /\ user.role \in {"TRAINEE"} => Admits("portal_receipts", user)
         /\ user.role \in {"TRAINEE"} => Admits("portal_schedule", user)
         /\ user.role \in {"SUPER_ADMIN"} => Admits("tenants", user)
         /\ user.role \in {"SUPER_ADMIN"} => Admits("leads", user)
         /\ user.role \in {"SUPER_ADMIN"} => Admits("settings", user)
         /\ user.role \in {"SUPER_ADMIN"} => Admits("tenant", user)
         /\ user.role \in {"SUPER_ADMIN"} => Admits("tenant_new", user)
  <1>1. /\ CanAccess(user, "viewTrainees") => Admits("trainees", user)
        /\ CanAccess(user, "viewCaptains") => Admits("captains", user)
        /\ CanAccess(user, "viewSubscriptions") => Admits("plans", user)
        /\ CanAccess(user, "viewAttendance") => Admits("attendance", user)
        /\ CanAccess(user, "viewReports") => Admits("reports", user)
        /\ CanAccess(user, "viewTrainees") => Admits("trainee", user)
        /\ CanAccess(user, "manageTrainees") => Admits("trainee_new", user)
    BY Doors, Granted
  <1>2. /\ CanAccess(user, "viewCaptains") => Admits("captain", user)
        /\ CanAccess(user, "manageCaptains") => Admits("captain_new", user)
        /\ CanAccess(user, "viewSubscriptions") => Admits("plan", user)
        /\ CanAccess(user, "manageGroups") => Admits("group_new", user)
        /\ CanAccess(user, "manageGroups") => Admits("group_edit", user)
        /\ CanAccess(user, "viewExpenses") => Admits("manual_income", user)
        /\ CanAccess(user, "viewExpenses") => Admits("expenses", user)
    BY Doors, Granted
  <1>3. /\ CanAccess(user, "viewReceipts") => Admits("receipts", user)
        /\ CanAccess(user, "managePayroll") => Admits("payroll", user)
    BY Doors, Granted
  <1>4. /\ user.role \in Staff => Admits("dashboard", user)
        /\ user.role \in Staff => Admits("branches", user)
        /\ user.role \in Staff => Admits("users", user)
    BY Doors, Entering, Gates, Grants DEF Staff, Role
  <1>5. /\ (user.role = "CAPTAIN" \/ CanAccess(user, "viewGroups")) =>
              Admits("groups", user)
        /\ (user.role = "CAPTAIN" \/ CanAccess(user, "viewSchedule")) =>
              Admits("schedule", user)
    BY Doors, Entering, Gates, Grants DEF Staff, Role
  <1>11. (\E key \in {"viewFinances", "viewExpenses", "viewReceipts",
             "managePayroll"} : CanAccess(user, key)) =>
             Admits("finance", user)
    <2> DEFINE keys == {"viewFinances", "viewExpenses", "viewReceipts",
                        "managePayroll"}
    <2> SUFFICES ASSUME NEW key \in keys, CanAccess(user, key)
                 PROVE  Admits("finance", user)
      OBVIOUS
    <2>1. Door("finance", Staff, AnyOf(keys))
      BY Doors
    <2>2. Passes(AnyOf(keys), user)
      BY Gates
    <2>3. user.role \in Staff
      BY Grants DEF Staff
    <2> QED
      BY <2>1, <2>2, <2>3, Entering
  <1>6. /\ user.role = "ADMIN" => Admits("plan_new", user)
        /\ (user.role = "CAPTAIN" \/ CanAccess(user, "viewGroups")) =>
              Admits("group", user)
        /\ user.role \in {"TRAINEE"} => Admits("portal", user)
    BY Doors, Entering, Gates, Grants DEF Staff, Role
  <1>7. /\ user.role \in {"TRAINEE"} => Admits("portal_attendance", user)
        /\ user.role \in {"TRAINEE"} => Admits("portal_subscription", user)
        /\ user.role \in {"TRAINEE"} => Admits("portal_receipts", user)
    BY Doors, Entering, Gates, Grants DEF Staff, Role
  <1>8. /\ user.role \in {"TRAINEE"} => Admits("portal_schedule", user)
        /\ user.role \in {"SUPER_ADMIN"} => Admits("tenants", user)
        /\ user.role \in {"SUPER_ADMIN"} => Admits("leads", user)
    BY Doors, Entering, Gates, Grants DEF Staff, Role
  <1>9. /\ user.role \in {"SUPER_ADMIN"} => Admits("settings", user)
        /\ user.role \in {"SUPER_ADMIN"} => Admits("tenant", user)
        /\ user.role \in {"SUPER_ADMIN"} => Admits("tenant_new", user)
    BY Doors, Entering, Gates, Grants DEF Staff, Role
  <1>10. (user.role = "CAPTAIN" \/ CanAccess(user, "viewTrainees")) =>
            Admits("feedback", user)
    BY Doors, Entering, Gates, Grants DEF Staff, Role
  <1> QED
    BY <1>1, <1>2, <1>3, <1>4, <1>5, <1>6, <1>7, <1>8, <1>9, <1>10, <1>11

LEMMA Names ==
  /\ GetPlan.name = "GET subscriptions/plans/[id]"
  /\ ListBranches.name = "GET branches"
  /\ ListCaptains.name = "GET captains"
  /\ ListGroups.name = "GET groups"
  /\ ListPlans.name = "GET subscriptions/plans"
  /\ ListUsers.name = "GET users"
  BY DEF Route, GetPlan, ListBranches, ListCaptains, ListGroups, ListPlans,
    ListUsers

LEMMA Listed ==
  /\ <<"group_new", ListCaptains.name>> \in Known
  /\ <<"group_edit", ListCaptains.name>> \in Known
  /\ <<"reports", ListCaptains.name>> \in Known
  /\ <<"groups", ListCaptains.name>> \in Known
  /\ <<"trainee", GetPlan.name>> \in Known
  /\ <<"trainee", ListGroups.name>> \in Known
  /\ <<"trainee_new", ListPlans.name>> \in Known
  /\ <<"trainee_new", ListGroups.name>> \in Known
  /\ <<"groups", "trainee_new">> \in Known
  /\ <<"dashboard", "plans">> \in Known
  /\ <<"schedule", "group">> \in Known
  /\ <<"branches", ListBranches.name>> \in Known
  /\ <<"users", ListUsers.name>> \in Known
  /\ <<"shell", "academy_settings">> \in Known
  BY Names DEF Known

\* Page by page: what is shown is served, or listed in Known.
LEMMA AllHonest ==
  ASSUME NEW user, user.role \in Role
  PROVE  /\ Honest("shell", DashboardLayout, user)
         /\ Honest("dashboard", DashboardPage, user)
         /\ Honest("branches", BranchesPage, user)
         /\ Honest("users", UsersPage, user)
         /\ Honest("trainees", TraineesPage, user)
         /\ Honest("trainee", TraineePage, user)
         /\ Honest("trainee_new", NewTraineePage, user)
         /\ Honest("captains", CaptainsPage, user)
         /\ Honest("captain", CaptainPage, user)
         /\ Honest("captain_new", NewCaptainPage, user)
         /\ Honest("plans", PlansPage, user)
         /\ Honest("plan", PlanPage, user)
         /\ Honest("plan_new", NewPlanPage, user)
         /\ Honest("groups", GroupsPage, user)
         /\ Honest("group", GroupPage, user)
         /\ Honest("feedback", FeedbackPanel, user)
         /\ Honest("group_edit", EditGroupPage, user)
         /\ Honest("group_new", NewGroupPage, user)
         /\ Honest("schedule", SchedulePage, user)
         /\ Honest("attendance", AttendancePage, user)
         /\ Honest("finance", FinancePage, user)
         /\ Honest("expenses", ExpensesPage, user)
         /\ Honest("manual_income", ManualIncomePage, user)
         /\ Honest("payroll", PayrollPage, user)
         /\ Honest("receipts", ReceiptsPage, user)
         /\ Honest("reports", ReportsPage, user)
         /\ Honest("portal_shell", PortalLayout, user)
         /\ Honest("portal", PortalPage, user)
         /\ Honest("portal_attendance", PortalAttendancePage, user)
         /\ Honest("portal_schedule", PortalSchedulePage, user)
         /\ Honest("portal_subscription", PortalSubscriptionPage, user)
         /\ Honest("portal_receipts", PortalReceiptsPage, user)
         /\ Honest("platform_shell", SuperAdminLayout, user)
         /\ Honest("tenants", TenantsPage, user)
         /\ Honest("tenant", TenantPage, user)
         /\ Honest("tenant_new", NewTenantPage, user)
         /\ Honest("leads", LeadsPage, user)
         /\ Honest("settings", SettingsPage, user)
  <1>1. Honest("shell", DashboardLayout, user)
    <2> SUFFICES ASSUME Enters(DashboardLayout, user)
                 PROVE  /\ LoadsServed("shell", DashboardLayout, user)
                        /\ ButtonsServed(DashboardLayout, user)
                        /\ LinksOpen("shell", DashboardLayout, user)
      BY DEF Honest
    <2>1. user.role \in Staff
      BY Gates DEF Enters, DashboardLayout, RequireAccessPage
    <2>2. LoadsServed("shell", DashboardLayout, user)
      BY <2>1, Gates, Guards, Grants DEF DashboardLayout,
        RequireAccessPage, HeaderLoads, LoadsServed, All, Item, Staff
    <2>3. ButtonsServed(DashboardLayout, user)
      BY <2>1, Gates, Guards, Grants DEF DashboardLayout,
        RequireAccessPage, HeaderBranch, HeaderPassword, ButtonsServed,
        Button, Item, Handler, Call, Staff, Tenant, Role
    <2>4. LinksOpen("shell", DashboardLayout, user)
      BY <2>1, Gates, Grants, Opened, Listed DEF DashboardLayout,
        RequireAccessPage, SidebarLinks, LinksOpen, Item, Staff, To
    <2> QED
      BY <2>2, <2>3, <2>4
  <1>2. Honest("dashboard", DashboardPage, user)
    <2> SUFFICES ASSUME Enters(DashboardPage, user)
                 PROVE  /\ LoadsServed("dashboard", DashboardPage, user)
                        /\ ButtonsServed(DashboardPage, user)
                        /\ LinksOpen("dashboard", DashboardPage, user)
      BY DEF Honest
    <2>1. user.role \in Staff
      BY Gates DEF Enters, DashboardPage, RequireAccessPage
    <2>2. LoadsServed("dashboard", DashboardPage, user)
      BY <2>1, Gates, Guards, Grants DEF DashboardPage,
        RequireAccessPage, LoadsServed, All, Item, Staff
    <2>3. LinksOpen("dashboard", DashboardPage, user)
      BY <2>1, Gates, Grants, Opened, Listed DEF DashboardPage,
        RequireAccessPage, DashboardLinks, LinksOpen, Item, Staff
    <2>4. ButtonsServed(DashboardPage, user)
      BY DEF DashboardPage, RequireAccessPage, ButtonsServed
    <2> QED
      BY <2>2, <2>3, <2>4
  <1>3. Honest("branches", BranchesPage, user)
    <2> SUFFICES ASSUME Enters(BranchesPage, user)
                 PROVE  /\ LoadsServed("branches", BranchesPage, user)
                        /\ ButtonsServed(BranchesPage, user)
                        /\ LinksOpen("branches", BranchesPage, user)
      BY DEF Honest
    <2>1. user.role \in Staff
      BY Gates DEF Enters, BranchesPage, RequireAccessPage
    <2>2. LoadsServed("branches", BranchesPage, user)
      BY <2>1, Gates, Guards, Grants, Listed DEF BranchesPage,
        RequireAccessPage, LoadsServed, All, Item, Staff
    <2>3. ButtonsServed(BranchesPage, user)
      BY <2>1, Gates, Guards, Grants DEF BranchesPage, RequireAccessPage,
        CreateBranchModal, EditBranchModal, BranchRows,
        HandleCreateBranch, HandleEditBranch, HandleToggleStatus,
        ButtonsServed, Button, Item, Handler, Call, Staff, Tenant, Role
    <2>4. LinksOpen("branches", BranchesPage, user)
      BY DEF BranchesPage, RequireAccessPage, LinksOpen
    <2> QED
      BY <2>2, <2>3, <2>4
  <1>4. Honest("users", UsersPage, user)
    <2> SUFFICES ASSUME Enters(UsersPage, user)
                 PROVE  /\ LoadsServed("users", UsersPage, user)
                        /\ ButtonsServed(UsersPage, user)
                        /\ LinksOpen("users", UsersPage, user)
      BY DEF Honest
    <2>1. user.role \in Staff
      BY Gates DEF Enters, UsersPage, RequireAccessPage
    <2>2. LoadsServed("users", UsersPage, user)
      BY <2>1, Gates, Guards, Grants, Listed DEF UsersPage,
        RequireAccessPage, LoadsServed, All, Item, Staff
    <2>3. ButtonsServed(UsersPage, user)
      BY <2>1, Gates, Guards, Grants DEF UsersPage, RequireAccessPage,
        UserRows, UserDialog, HandleDeactivateUser, HandlePasswordReset,
        HandleCreateUser, HandleUpdateUser, ButtonsServed, Button, Item,
        Handler, Call, Staff, Tenant, Role, Blind
    <2>4. LinksOpen("users", UsersPage, user)
      BY DEF UsersPage, RequireAccessPage, LinksOpen
    <2> QED
      BY <2>2, <2>3, <2>4
  <1>5. Honest("trainees", TraineesPage, user)
    <2> SUFFICES ASSUME Enters(TraineesPage, user)
                 PROVE  /\ LoadsServed("trainees", TraineesPage, user)
                        /\ ButtonsServed(TraineesPage, user)
                        /\ LinksOpen("trainees", TraineesPage, user)
      BY DEF Honest
    <2>1. user.role \in Staff /\ CanAccess(user, "viewTrainees")
      BY Gates DEF Enters, TraineesPage, RequireAccessPage
    <2>2. LoadsServed("trainees", TraineesPage, user)
      BY <2>1, Gates, Guards, Grants DEF TraineesPage, RequireAccessPage,
        LoadsServed, All, Item, Staff
    <2>3. LinksOpen("trainees", TraineesPage, user)
      BY <2>1, Gates, Grants, Opened DEF TraineesPage, RequireAccessPage,
        TraineesLinks, LinksOpen, Item, Staff, To
    <2>4. ButtonsServed(TraineesPage, user)
      BY DEF TraineesPage, RequireAccessPage, ButtonsServed
    <2> QED
      BY <2>2, <2>3, <2>4
  <1>6. Honest("trainee", TraineePage, user)
    <2> SUFFICES ASSUME Enters(TraineePage, user)
                 PROVE  /\ LoadsServed("trainee", TraineePage, user)
                        /\ ButtonsServed(TraineePage, user)
                        /\ LinksOpen("trainee", TraineePage, user)
      BY DEF Honest
    <2>1. user.role \in Staff /\ CanAccess(user, "viewTrainees")
      BY Gates DEF Enters, TraineePage, RequireAccessPage
    <2>2. LoadsServed("trainee", TraineePage, user)
      BY <2>1, Gates, Guards, Grants, Listed DEF TraineePage,
        RequireAccessPage, OpenAssignDialog, OpenEnrollDialog,
        LoadEnrollGroups, LoadsServed, All, Item, Staff
    <2>3. ButtonsServed(TraineePage, user)
      BY <2>1, Gates, Guards, Grants DEF TraineePage, RequireAccessPage,
        TraineeHeader, EnrollDialog, PaymentDialog, AssignDialog,
        HandleSaveTrainee, SetTraineeActive, HandleEnroll,
        HandleRecordPayment, HandleSaveAssignment, ButtonsServed, Button,
        Item, Handler, Call, Staff, Tenant, Role
    <2>4. LinksOpen("trainee", TraineePage, user)
      BY DEF TraineePage, RequireAccessPage, LinksOpen
    <2> QED
      BY <2>2, <2>3, <2>4
  <1>7. Honest("trainee_new", NewTraineePage, user)
    <2> SUFFICES ASSUME Enters(NewTraineePage, user)
                 PROVE  /\ LoadsServed("trainee_new", NewTraineePage, user)
                        /\ ButtonsServed(NewTraineePage, user)
                        /\ LinksOpen("trainee_new", NewTraineePage, user)
      BY DEF Honest
    <2>1. user.role \in Staff /\ CanAccess(user, "manageTrainees")
      BY Gates DEF Enters, NewTraineePage, RequireAccessPage
    <2>2. LoadsServed("trainee_new", NewTraineePage, user)
      BY <2>1, Gates, Guards, Grants, Listed DEF NewTraineePage,
        RequireAccessPage, HandleNext, GroupsForPlan, PrefilledPlan,
        LoadsServed, All, Item, Staff
    <2>3. ButtonsServed(NewTraineePage, user)
      BY <2>1, Gates, Guards, Grants DEF NewTraineePage,
        RequireAccessPage, EnrollStep, PersonalStep, HandleRegister,
        HandleRegisterOnly, ButtonsServed, Button, Item, Handler, Call,
        Staff, Tenant, Role, Told
    <2>4. LinksOpen("trainee_new", NewTraineePage, user)
      BY <2>1, Gates, Grants, Opened DEF NewTraineePage,
        RequireAccessPage, RegisteredDialog, LinksOpen, Item, Staff
    <2> QED
      BY <2>2, <2>3, <2>4
  <1>8. Honest("captains", CaptainsPage, user)
    <2> SUFFICES ASSUME Enters(CaptainsPage, user)
                 PROVE  /\ LoadsServed("captains", CaptainsPage, user)
                        /\ ButtonsServed(CaptainsPage, user)
                        /\ LinksOpen("captains", CaptainsPage, user)
      BY DEF Honest
    <2>1. user.role \in Staff /\ CanAccess(user, "viewCaptains")
      BY Gates DEF Enters, CaptainsPage, RequireAccessPage
    <2>2. LoadsServed("captains", CaptainsPage, user)
      BY <2>1, Gates, Guards, Grants DEF CaptainsPage, RequireAccessPage,
        LoadsServed, All, Item, Staff
    <2>3. LinksOpen("captains", CaptainsPage, user)
      BY <2>1, Gates, Grants, Opened DEF CaptainsPage, RequireAccessPage,
        CaptainsLinks, LinksOpen, Item, Staff, To
    <2>4. ButtonsServed(CaptainsPage, user)
      BY DEF CaptainsPage, RequireAccessPage, ButtonsServed
    <2> QED
      BY <2>2, <2>3, <2>4
  <1>9. Honest("captain", CaptainPage, user)
    <2> SUFFICES ASSUME Enters(CaptainPage, user)
                 PROVE  /\ LoadsServed("captain", CaptainPage, user)
                        /\ ButtonsServed(CaptainPage, user)
                        /\ LinksOpen("captain", CaptainPage, user)
      BY DEF Honest
    <2>1. user.role \in Staff /\ CanAccess(user, "viewCaptains")
      BY Gates DEF Enters, CaptainPage, RequireAccessPage
    <2>2. LoadsServed("captain", CaptainPage, user)
      BY <2>1, Gates, Guards, Grants DEF CaptainPage, RequireAccessPage,
        LoadsServed, All, Item, Staff
    <2>3. ButtonsServed(CaptainPage, user)
      BY <2>1, Gates, Guards, Grants DEF CaptainPage, RequireAccessPage,
        CaptainHeader, HandleSaveCaptain, HandleDeactivateCaptain,
        ButtonsServed, Button, Item, Handler, Call, Staff, Tenant, Role
    <2>4. LinksOpen("captain", CaptainPage, user)
      BY DEF CaptainPage, RequireAccessPage, LinksOpen
    <2> QED
      BY <2>2, <2>3, <2>4
  <1>10. Honest("captain_new", NewCaptainPage, user)
    <2> SUFFICES ASSUME Enters(NewCaptainPage, user)
                 PROVE  /\ LoadsServed("captain_new", NewCaptainPage, user)
                        /\ ButtonsServed(NewCaptainPage, user)
                        /\ LinksOpen("captain_new", NewCaptainPage, user)
      BY DEF Honest
    <2>1. user.role \in Staff /\ CanAccess(user, "manageCaptains")
      BY Gates DEF Enters, NewCaptainPage, RequireAccessPage
    <2>2. ButtonsServed(NewCaptainPage, user)
      BY <2>1, Gates, Guards, Grants DEF NewCaptainPage,
        RequireAccessPage, CaptainForm, HandleRegisterCaptain,
        ButtonsServed, Button, Item, Handler, Call, Staff, Tenant, Role
    <2>3. LinksOpen("captain_new", NewCaptainPage, user)
      BY <2>1, Gates, Grants, Opened DEF NewCaptainPage,
        RequireAccessPage, LinksOpen, Item, Staff
    <2>4. LoadsServed("captain_new", NewCaptainPage, user)
      BY DEF NewCaptainPage, RequireAccessPage, LoadsServed
    <2> QED
      BY <2>2, <2>3, <2>4
  <1>11. Honest("plans", PlansPage, user)
    <2> SUFFICES ASSUME Enters(PlansPage, user)
                 PROVE  /\ LoadsServed("plans", PlansPage, user)
                        /\ ButtonsServed(PlansPage, user)
                        /\ LinksOpen("plans", PlansPage, user)
      BY DEF Honest
    <2>1. user.role \in Staff /\ CanAccess(user, "viewSubscriptions")
      BY Gates DEF Enters, PlansPage, RequireAccessPage
    <2>2. LoadsServed("plans", PlansPage, user)
      BY <2>1, Gates, Guards, Grants DEF PlansPage, RequireAccessPage,
        LoadsServed, All, Item, Staff
    <2>3. ButtonsServed(PlansPage, user)
      BY <2>1, Gates, Guards, Grants DEF PlansPage, RequireAccessPage,
        PlanRows, HandleDeactivatePlan, ButtonsServed, Button, Item,
        Handler, Call, Staff, Tenant, Role
    <2>4. LinksOpen("plans", PlansPage, user)
      BY <2>1, Gates, Grants, Opened DEF PlansPage, RequireAccessPage,
        PlansLinks, LinksOpen, Item, Staff
    <2> QED
      BY <2>2, <2>3, <2>4
  <1>12. Honest("plan", PlanPage, user)
    <2> SUFFICES ASSUME Enters(PlanPage, user)
                 PROVE  /\ LoadsServed("plan", PlanPage, user)
                        /\ ButtonsServed(PlanPage, user)
                        /\ LinksOpen("plan", PlanPage, user)
      BY DEF Honest
    <2>1. user.role \in Staff /\ CanAccess(user, "viewSubscriptions")
      BY Gates DEF Enters, PlanPage, RequireAccessPage
    <2>2. LoadsServed("plan", PlanPage, user)
      BY <2>1, Gates, Guards, Grants DEF PlanPage, RequireAccessPage,
        LoadsServed, All, Item, Staff
    <2>3. ButtonsServed(PlanPage, user)
      BY <2>1, Gates, Guards, Grants DEF PlanPage, RequireAccessPage,
        PlanForm, HandleSavePlan, ButtonsServed, Button, Item, Handler,
        Call, Staff, Tenant, Role
    <2>4. LinksOpen("plan", PlanPage, user)
      BY DEF PlanPage, RequireAccessPage, LinksOpen
    <2> QED
      BY <2>2, <2>3, <2>4
  <1>13. Honest("plan_new", NewPlanPage, user)
    <2> SUFFICES ASSUME Enters(NewPlanPage, user)
                 PROVE  /\ LoadsServed("plan_new", NewPlanPage, user)
                        /\ ButtonsServed(NewPlanPage, user)
                        /\ LinksOpen("plan_new", NewPlanPage, user)
      BY DEF Honest
    <2>1. user.role \in Staff /\ user.role = "ADMIN"
      BY Gates DEF Enters, NewPlanPage, RequireAccessPage
    <2>2. ButtonsServed(NewPlanPage, user)
      BY <2>1, Gates, Guards, Grants DEF NewPlanPage, RequireAccessPage,
        NewPlanForm, HandleCreatePlan, ButtonsServed, Button, Item,
        Handler, Call, Staff, Tenant, Role
    <2>3. LoadsServed("plan_new", NewPlanPage, user)
             /\ LinksOpen("plan_new", NewPlanPage, user)
      BY DEF NewPlanPage, RequireAccessPage, LoadsServed, LinksOpen
    <2> QED
      BY <2>2, <2>3
  <1>14. Honest("groups", GroupsPage, user)
    <2> SUFFICES ASSUME Enters(GroupsPage, user)
                 PROVE  /\ LoadsServed("groups", GroupsPage, user)
                        /\ ButtonsServed(GroupsPage, user)
                        /\ LinksOpen("groups", GroupsPage, user)
      BY DEF Honest
    <2>1. user.role \in Staff /\ (user.role = "CAPTAIN"
             \/ CanAccess(user, "viewGroups"))
      BY Gates DEF Enters, GroupsPage, RequireAccessPage
    <2>2. LoadsServed("groups", GroupsPage, user)
      BY <2>1, Gates, Guards, Grants, Listed DEF GroupsPage,
        RequireAccessPage, GroupsFilters, LoadsServed, All, Item, Staff
    <2>3. LinksOpen("groups", GroupsPage, user)
      BY <2>1, Gates, Grants, Opened, Listed DEF GroupsPage,
        RequireAccessPage, GroupsLinks, LinksOpen, Item, Staff
    <2>4. ButtonsServed(GroupsPage, user)
      BY DEF GroupsPage, RequireAccessPage, ButtonsServed
    <2> QED
      BY <2>2, <2>3, <2>4
  <1>15. Honest("group", GroupPage, user)
    <2> SUFFICES ASSUME Enters(GroupPage, user)
                 PROVE  /\ LoadsServed("group", GroupPage, user)
                        /\ ButtonsServed(GroupPage, user)
                        /\ LinksOpen("group", GroupPage, user)
      BY DEF Honest
    <2>1. user.role \in Staff /\ (user.role = "CAPTAIN"
             \/ CanAccess(user, "viewGroups"))
      BY Gates DEF Enters, GroupPage, RequireAccessPage
    <2>2. LoadsServed("group", GroupPage, user)
      BY <2>1, Gates, Guards, Grants DEF GroupPage, RequireAccessPage,
        LoadsServed, All, Item, Staff
    <2>3. ButtonsServed(GroupPage, user)
      BY <2>1, Gates, Guards, Grants DEF GroupPage, RequireAccessPage,
        GroupRows, HandleRemoveTrainee, ButtonsServed, Button, Item,
        Handler, Call, Staff, Tenant, Role
    <2>4. LinksOpen("group", GroupPage, user)
      BY <2>1, Gates, Grants, Opened DEF GroupPage, RequireAccessPage,
        GroupLinks, LinksOpen, Item, Staff, To
    <2> QED
      BY <2>2, <2>3, <2>4
  <1>16. Honest("group_edit", EditGroupPage, user)
    <2> SUFFICES ASSUME Enters(EditGroupPage, user)
                 PROVE  /\ LoadsServed("group_edit", EditGroupPage, user)
                        /\ ButtonsServed(EditGroupPage, user)
                        /\ LinksOpen("group_edit", EditGroupPage, user)
      BY DEF Honest
    <2>1. user.role \in Staff /\ CanAccess(user, "manageGroups")
      BY Gates DEF Enters, EditGroupPage, RequireAccessPage
    <2>2. LoadsServed("group_edit", EditGroupPage, user)
      BY <2>1, Gates, Guards, Grants, Listed DEF EditGroupPage,
        RequireAccessPage, LoadsServed, All, Item, Staff
    <2>3. ButtonsServed(EditGroupPage, user)
      BY <2>1, Gates, Guards, Grants DEF EditGroupPage,
        RequireAccessPage, EditGroupForm, HandleEditGroup, ButtonsServed,
        Button, Item, Handler, Call, Staff, Tenant, Role
    <2>4. LinksOpen("group_edit", EditGroupPage, user)
      BY DEF EditGroupPage, RequireAccessPage, LinksOpen
    <2> QED
      BY <2>2, <2>3, <2>4
  <1>17. Honest("group_new", NewGroupPage, user)
    <2> SUFFICES ASSUME Enters(NewGroupPage, user)
                 PROVE  /\ LoadsServed("group_new", NewGroupPage, user)
                        /\ ButtonsServed(NewGroupPage, user)
                        /\ LinksOpen("group_new", NewGroupPage, user)
      BY DEF Honest
    <2>1. user.role \in Staff /\ CanAccess(user, "manageGroups")
      BY Gates DEF Enters, NewGroupPage, RequireAccessPage
    <2>2. LoadsServed("group_new", NewGroupPage, user)
      BY <2>1, Gates, Guards, Grants, Listed DEF NewGroupPage,
        RequireAccessPage, LoadsServed, All, Item, Staff
    <2>3. ButtonsServed(NewGroupPage, user)
      BY <2>1, Gates, Guards, Grants DEF NewGroupPage, RequireAccessPage,
        NewGroupForm, HandleCreateGroup, ButtonsServed, Button, Item,
        Handler, Call, Staff, Tenant, Role
    <2>4. LinksOpen("group_new", NewGroupPage, user)
      BY DEF NewGroupPage, RequireAccessPage, LinksOpen
    <2> QED
      BY <2>2, <2>3, <2>4
  <1>18. Honest("schedule", SchedulePage, user)
    <2> SUFFICES ASSUME Enters(SchedulePage, user)
                 PROVE  /\ LoadsServed("schedule", SchedulePage, user)
                        /\ ButtonsServed(SchedulePage, user)
                        /\ LinksOpen("schedule", SchedulePage, user)
      BY DEF Honest
    <2>1. user.role \in Staff /\ (user.role = "CAPTAIN"
             \/ CanAccess(user, "viewSchedule"))
      BY Gates DEF Enters, SchedulePage, RequireAccessPage
    <2>2. LoadsServed("schedule", SchedulePage, user)
      BY <2>1, Gates, Guards, Grants DEF SchedulePage, RequireAccessPage,
        LoadsServed, All, Item, Staff
    <2>3. ButtonsServed(SchedulePage, user)
      BY <2>1, Gates, Guards, Grants DEF SchedulePage, RequireAccessPage,
        SessionModal, HandleCancel, HandleReschedule, ButtonsServed,
        Button, Item, Handler, Call, Staff, Tenant, Role
    <2>4. LinksOpen("schedule", SchedulePage, user)
      BY <2>1, Gates, Grants, Opened, Listed DEF SchedulePage,
        RequireAccessPage, LinksOpen, Item, Staff
    <2> QED
      BY <2>2, <2>3, <2>4
  <1>19. Honest("attendance", AttendancePage, user)
    <2> SUFFICES ASSUME Enters(AttendancePage, user)
                 PROVE  /\ LoadsServed("attendance", AttendancePage, user)
                        /\ ButtonsServed(AttendancePage, user)
                        /\ LinksOpen("attendance", AttendancePage, user)
      BY DEF Honest
    <2>1. user.role \in Staff /\ CanAccess(user, "viewAttendance")
      BY Gates DEF Enters, AttendancePage, RequireAccessPage
    <2>2. LoadsServed("attendance", AttendancePage, user)
      BY <2>1, Gates, Guards, Grants DEF AttendancePage,
        RequireAccessPage, LoadsServed, All, Item, Staff
    <2>3. ButtonsServed(AttendancePage, user)
      BY <2>1, Gates, Guards, Grants DEF AttendancePage,
        RequireAccessPage, AttendanceForm, HandleSubmitAttendance,
        ButtonsServed, Button, Item, Handler, Call, Staff, Tenant, Role
    <2>4. LinksOpen("attendance", AttendancePage, user)
      BY DEF AttendancePage, RequireAccessPage, LinksOpen
    <2> QED
      BY <2>2, <2>3, <2>4
  <1>20. Honest("finance", FinancePage, user)
    <2> SUFFICES ASSUME Enters(FinancePage, user)
                 PROVE  /\ LoadsServed("finance", FinancePage, user)
                        /\ ButtonsServed(FinancePage, user)
                        /\ LinksOpen("finance", FinancePage, user)
      BY DEF Honest
    <2>1. user.role \in Staff /\ (\E key \in {"viewFinances", "viewExpenses",
             "viewReceipts", "managePayroll"} : CanAccess(user, key))
      BY Gates DEF Enters, FinancePage, RequireAccessPage
    <2>2. LoadsServed("finance", FinancePage, user)
      BY <2>1, Gates, Guards, Grants DEF FinancePage, RequireAccessPage,
        LoadsServed, All, Item, Staff
    <2>3. LinksOpen("finance", FinancePage, user)
      BY <2>1, Gates, Grants, Opened DEF FinancePage, RequireAccessPage,
        FinanceLinks, LinksOpen, Item, Staff, To
    <2>4. ButtonsServed(FinancePage, user)
      BY DEF FinancePage, RequireAccessPage, ButtonsServed
    <2> QED
      BY <2>2, <2>3, <2>4
  <1>21. Honest("expenses", ExpensesPage, user)
    <2> SUFFICES ASSUME Enters(ExpensesPage, user)
                 PROVE  /\ LoadsServed("expenses", ExpensesPage, user)
                        /\ ButtonsServed(ExpensesPage, user)
                        /\ LinksOpen("expenses", ExpensesPage, user)
      BY DEF Honest
    <2>1. user.role \in Staff /\ CanAccess(user, "viewExpenses")
      BY Gates DEF Enters, ExpensesPage, RequireAccessPage
    <2>2. LoadsServed("expenses", ExpensesPage, user)
      BY <2>1, Gates, Guards, Grants DEF ExpensesPage, RequireAccessPage,
        LoadsServed, All, Item, Staff
    <2>3. ButtonsServed(ExpensesPage, user)
      BY <2>1, Gates, Guards, Grants DEF ExpensesPage, RequireAccessPage,
        ExpenseControls, HandleCreateExpense, HandleDeleteExpense,
        ButtonsServed, Button, Item, Handler, Call, Staff, Tenant, Role
    <2>4. LinksOpen("expenses", ExpensesPage, user)
      BY DEF ExpensesPage, RequireAccessPage, LinksOpen
    <2> QED
      BY <2>2, <2>3, <2>4
  <1>22. Honest("manual_income", ManualIncomePage, user)
    <2> SUFFICES ASSUME Enters(ManualIncomePage, user)
                 PROVE  /\ LoadsServed("manual_income", ManualIncomePage, user)
                        /\ ButtonsServed(ManualIncomePage, user)
                        /\ LinksOpen("manual_income", ManualIncomePage, user)
      BY DEF Honest
    <2>1. user.role \in Staff /\ CanAccess(user, "viewExpenses")
      BY Gates DEF Enters, ManualIncomePage, RequireAccessPage
    <2>2. LoadsServed("manual_income", ManualIncomePage, user)
      BY <2>1, Gates, Guards, Grants DEF ManualIncomePage,
        RequireAccessPage, LoadsServed, All, Item, Staff
    <2>3. ButtonsServed(ManualIncomePage, user)
      BY <2>1, Gates, Guards, Grants DEF ManualIncomePage,
        RequireAccessPage, IncomeControls, HandleCreateIncome,
        HandleDeleteIncome, ButtonsServed, Button, Item, Handler, Call,
        Staff, Tenant, Role
    <2>4. LinksOpen("manual_income", ManualIncomePage, user)
      BY DEF ManualIncomePage, RequireAccessPage, LinksOpen
    <2> QED
      BY <2>2, <2>3, <2>4
  <1>23. Honest("payroll", PayrollPage, user)
    <2> SUFFICES ASSUME Enters(PayrollPage, user)
                 PROVE  /\ LoadsServed("payroll", PayrollPage, user)
                        /\ ButtonsServed(PayrollPage, user)
                        /\ LinksOpen("payroll", PayrollPage, user)
      BY DEF Honest
    <2>1. user.role \in Staff /\ CanAccess(user, "managePayroll")
      BY Gates DEF Enters, PayrollPage, RequireAccessPage
    <2>2. LoadsServed("payroll", PayrollPage, user)
      BY <2>1, Gates, Guards, Grants DEF PayrollPage, RequireAccessPage,
        LoadsServed, All, Item, Staff
    <2>3. ButtonsServed(PayrollPage, user)
      BY <2>1, Gates, Guards, Grants DEF PayrollPage, RequireAccessPage,
        PayrollControls, HandleCalculate, HandleRecordPayroll,
        HandleMarkPaid, ButtonsServed, Button, Item, Handler, Call,
        Staff, Tenant, Role
    <2>4. LinksOpen("payroll", PayrollPage, user)
      BY DEF PayrollPage, RequireAccessPage, LinksOpen
    <2> QED
      BY <2>2, <2>3, <2>4
  <1>24. Honest("receipts", ReceiptsPage, user)
    <2> SUFFICES ASSUME Enters(ReceiptsPage, user)
                 PROVE  /\ LoadsServed("receipts", ReceiptsPage, user)
                        /\ ButtonsServed(ReceiptsPage, user)
                        /\ LinksOpen("receipts", ReceiptsPage, user)
      BY DEF Honest
    <2>1. user.role \in Staff /\ CanAccess(user, "viewReceipts")
      BY Gates DEF Enters, ReceiptsPage, RequireAccessPage
    <2>2. LoadsServed("receipts", ReceiptsPage, user)
      BY <2>1, Gates, Guards, Grants DEF ReceiptsPage, RequireAccessPage,
        LoadsServed, All, Item, Staff
    <2>3. ButtonsServed(ReceiptsPage, user)
      BY <2>1, Gates, Guards, Grants DEF ReceiptsPage, RequireAccessPage,
        ReceiptRows, HandleDownload, ButtonsServed, Button, Item,
        Handler, Call, Staff, Tenant, Role
    <2>4. LinksOpen("receipts", ReceiptsPage, user)
      BY DEF ReceiptsPage, RequireAccessPage, LinksOpen
    <2> QED
      BY <2>2, <2>3, <2>4
  <1>25. Honest("reports", ReportsPage, user)
    <2> SUFFICES ASSUME Enters(ReportsPage, user)
                 PROVE  /\ LoadsServed("reports", ReportsPage, user)
                        /\ ButtonsServed(ReportsPage, user)
                        /\ LinksOpen("reports", ReportsPage, user)
      BY DEF Honest
    <2>1. user.role \in Staff /\ CanAccess(user, "viewReports")
      BY Gates DEF Enters, ReportsPage, RequireAccessPage
    <2>2. LoadsServed("reports", ReportsPage, user)
      BY <2>1, Gates, Guards, Grants, Listed DEF ReportsPage,
        RequireAccessPage, LoadsServed, All, Item, Staff
    <2>3. ButtonsServed(ReportsPage, user)
      BY <2>1, Gates, Guards, Grants DEF ReportsPage, RequireAccessPage,
        ReportControls, HandleGenerate, HandleExport, ButtonsServed,
        Button, Item, Handler, Call, Staff, Tenant, Role
    <2>4. LinksOpen("reports", ReportsPage, user)
      BY DEF ReportsPage, RequireAccessPage, LinksOpen
    <2> QED
      BY <2>2, <2>3, <2>4
  <1>26. Honest("portal_shell", PortalLayout, user)
    <2> SUFFICES ASSUME Enters(PortalLayout, user)
                 PROVE  /\ LoadsServed("portal_shell", PortalLayout, user)
                        /\ ButtonsServed(PortalLayout, user)
                        /\ LinksOpen("portal_shell", PortalLayout, user)
      BY DEF Honest
    <2>1. user.role \in {"TRAINEE"}
      BY Gates DEF Enters, PortalLayout, RequireAccessPage
    <2>2. LoadsServed("portal_shell", PortalLayout, user)
      BY <2>1, Gates, Guards, Grants DEF PortalLayout, RequireAccessPage,
        PortalTraineeProvider, LoadsServed, All, Item, Staff
    <2>3. ButtonsServed(PortalLayout, user)
      BY <2>1, Gates, Guards, Grants DEF PortalLayout, RequireAccessPage,
        PortalPassword, ButtonsServed, Button, Item, Handler, Call,
        Staff, Tenant, Role
    <2>4. LinksOpen("portal_shell", PortalLayout, user)
      BY <2>1, Gates, Grants, Opened DEF PortalLayout, RequireAccessPage,
        PortalLinks, LinksOpen, Item, Staff
    <2> QED
      BY <2>2, <2>3, <2>4
  <1>27. Honest("portal", PortalPage, user)
    <2> SUFFICES ASSUME Enters(PortalPage, user)
                 PROVE  /\ LoadsServed("portal", PortalPage, user)
                        /\ ButtonsServed(PortalPage, user)
                        /\ LinksOpen("portal", PortalPage, user)
      BY DEF Honest
    <2>1. user.role \in {"TRAINEE"}
      BY Gates DEF Enters, PortalPage, PortalScreen, RequireAccessPage
    <2>2. LoadsServed("portal", PortalPage, user)
      BY <2>1, Gates, Guards, Grants DEF PortalPage, PortalScreen,
        RequireAccessPage, LoadsServed, All, Item, Staff
    <2>3. ButtonsServed(PortalPage, user)
      BY <2>1, Gates, Guards, Grants DEF PortalPage, PortalScreen,
        RequireAccessPage, HandleRate, ButtonsServed, Button, Item,
        Handler, Call, Staff, Tenant, Role
    <2>4. LinksOpen("portal", PortalPage, user)
      BY <2>1, Gates, Grants, Opened DEF PortalPage, PortalScreen,
        RequireAccessPage, PortalLinks, LinksOpen, Item, Staff
    <2> QED
      BY <2>2, <2>3, <2>4
  <1>28. Honest("portal_attendance", PortalAttendancePage, user)
    <2> SUFFICES ASSUME Enters(PortalAttendancePage, user)
                 PROVE  /\ LoadsServed("portal_attendance",
                              PortalAttendancePage, user)
                        /\ ButtonsServed(PortalAttendancePage, user)
                        /\ LinksOpen("portal_attendance", PortalAttendancePage,
                              user)
      BY DEF Honest
    <2>1. user.role \in {"TRAINEE"}
      BY Gates DEF Enters, PortalAttendancePage, PortalScreen,
        RequireAccessPage
    <2>2. LoadsServed("portal_attendance", PortalAttendancePage, user)
      BY <2>1, Gates, Guards, Grants DEF PortalAttendancePage,
        PortalScreen, RequireAccessPage, LoadsServed, All, Item, Staff
    <2>3. ButtonsServed(PortalAttendancePage, user)
             /\ LinksOpen("portal_attendance", PortalAttendancePage, user)
      BY DEF PortalAttendancePage, PortalScreen, RequireAccessPage,
        ButtonsServed, LinksOpen
    <2> QED
      BY <2>2, <2>3
  <1>29. Honest("portal_schedule", PortalSchedulePage, user)
    <2> SUFFICES ASSUME Enters(PortalSchedulePage, user)
                 PROVE  /\ LoadsServed("portal_schedule", PortalSchedulePage,
                              user)
                        /\ ButtonsServed(PortalSchedulePage, user)
                        /\ LinksOpen("portal_schedule", PortalSchedulePage,
                              user)
      BY DEF Honest
    <2>1. user.role \in {"TRAINEE"}
      BY Gates DEF Enters, PortalSchedulePage, PortalScreen,
        RequireAccessPage
    <2>2. LoadsServed("portal_schedule", PortalSchedulePage, user)
      BY <2>1, Gates, Guards, Grants DEF PortalSchedulePage,
        PortalScreen, RequireAccessPage, LoadsServed, All, Item, Staff
    <2>3. ButtonsServed(PortalSchedulePage, user)
             /\ LinksOpen("portal_schedule", PortalSchedulePage, user)
      BY DEF PortalSchedulePage, PortalScreen, RequireAccessPage,
        ButtonsServed, LinksOpen
    <2> QED
      BY <2>2, <2>3
  <1>30. Honest("portal_subscription", PortalSubscriptionPage, user)
    <2> SUFFICES ASSUME Enters(PortalSubscriptionPage, user)
                 PROVE  /\ LoadsServed("portal_subscription",
                              PortalSubscriptionPage, user)
                        /\ ButtonsServed(PortalSubscriptionPage, user)
                        /\ LinksOpen("portal_subscription",
                              PortalSubscriptionPage, user)
      BY DEF Honest
    <2>1. user.role \in {"TRAINEE"}
      BY Gates DEF Enters, PortalSubscriptionPage, PortalScreen,
        RequireAccessPage
    <2>2. LoadsServed("portal_subscription", PortalSubscriptionPage, user)
      BY <2>1, Gates, Guards, Grants DEF PortalSubscriptionPage,
        PortalScreen, RequireAccessPage, LoadsServed, All, Item, Staff
    <2>3. ButtonsServed(PortalSubscriptionPage, user)
             /\ LinksOpen("portal_subscription", PortalSubscriptionPage, user)
      BY DEF PortalSubscriptionPage, PortalScreen, RequireAccessPage,
        ButtonsServed, LinksOpen
    <2> QED
      BY <2>2, <2>3
  <1>31. Honest("portal_receipts", PortalReceiptsPage, user)
    <2> SUFFICES ASSUME Enters(PortalReceiptsPage, user)
                 PROVE  /\ LoadsServed("portal_receipts", PortalReceiptsPage,
                              user)
                        /\ ButtonsServed(PortalReceiptsPage, user)
                        /\ LinksOpen("portal_receipts", PortalReceiptsPage,
                              user)
      BY DEF Honest
    <2>1. user.role \in {"TRAINEE"}
      BY Gates DEF Enters, PortalReceiptsPage, PortalScreen,
        RequireAccessPage
    <2>2. LoadsServed("portal_receipts", PortalReceiptsPage, user)
      BY <2>1, Gates, Guards, Grants DEF PortalReceiptsPage,
        PortalScreen, RequireAccessPage, LoadsServed, All, Item, Staff
    <2>3. ButtonsServed(PortalReceiptsPage, user)
      BY <2>1, Gates, Guards, Grants DEF PortalReceiptsPage,
        PortalScreen, RequireAccessPage, HandlePortalDownload,
        ButtonsServed, Button, Item, Handler, Call, Staff, Tenant, Role
    <2>4. LinksOpen("portal_receipts", PortalReceiptsPage, user)
      BY DEF PortalReceiptsPage, PortalScreen, RequireAccessPage,
        LinksOpen
    <2> QED
      BY <2>2, <2>3, <2>4
  <1>32. Honest("platform_shell", SuperAdminLayout, user)
    <2> SUFFICES ASSUME Enters(SuperAdminLayout, user)
                 PROVE  /\ LoadsServed("platform_shell", SuperAdminLayout,
                              user)
                        /\ ButtonsServed(SuperAdminLayout, user)
                        /\ LinksOpen("platform_shell", SuperAdminLayout, user)
      BY DEF Honest
    <2>1. user.role \in {"SUPER_ADMIN"}
      BY Gates DEF Enters, SuperAdminLayout, RequireAccessPage
    <2>2. LoadsServed("platform_shell", SuperAdminLayout, user)
      BY <2>1, Gates, Guards, Grants DEF SuperAdminLayout,
        RequireAccessPage, LoadsServed, All, Item, Staff
    <2>3. LinksOpen("platform_shell", SuperAdminLayout, user)
      BY <2>1, Gates, Grants, Opened DEF SuperAdminLayout,
        RequireAccessPage, LinksOpen, Item, Staff
    <2>4. ButtonsServed(SuperAdminLayout, user)
      BY DEF SuperAdminLayout, RequireAccessPage, ButtonsServed
    <2> QED
      BY <2>2, <2>3, <2>4
  <1>33. Honest("tenants", TenantsPage, user)
    <2> SUFFICES ASSUME Enters(TenantsPage, user)
                 PROVE  /\ LoadsServed("tenants", TenantsPage, user)
                        /\ ButtonsServed(TenantsPage, user)
                        /\ LinksOpen("tenants", TenantsPage, user)
      BY DEF Honest
    <2>1. user.role \in {"SUPER_ADMIN"}
      BY Gates DEF Enters, TenantsPage, RequireAccessPage
    <2>2. LoadsServed("tenants", TenantsPage, user)
      BY <2>1, Gates, Guards, Grants DEF TenantsPage, RequireAccessPage,
        LoadsServed, All, Item, Staff
    <2>3. ButtonsServed(TenantsPage, user)
      BY <2>1, Gates, Guards, Grants DEF TenantsPage, RequireAccessPage,
        TenantRows, HandleTenantStatus, ButtonsServed, Button, Item,
        Handler, Call, Staff, Tenant, Role
    <2>4. LinksOpen("tenants", TenantsPage, user)
      BY <2>1, Gates, Grants, Opened DEF TenantsPage, RequireAccessPage,
        LinksOpen, Item, Staff
    <2> QED
      BY <2>2, <2>3, <2>4
  <1>34. Honest("tenant", TenantPage, user)
    <2> SUFFICES ASSUME Enters(TenantPage, user)
                 PROVE  /\ LoadsServed("tenant", TenantPage, user)
                        /\ ButtonsServed(TenantPage, user)
                        /\ LinksOpen("tenant", TenantPage, user)
      BY DEF Honest
    <2>1. user.role \in {"SUPER_ADMIN"}
      BY Gates DEF Enters, TenantPage, RequireAccessPage
    <2>2. LoadsServed("tenant", TenantPage, user)
      BY <2>1, Gates, Guards, Grants DEF TenantPage, RequireAccessPage,
        LoadsServed, All, Item, Staff
    <2>3. ButtonsServed(TenantPage, user)
      BY <2>1, Gates, Guards, Grants DEF TenantPage, RequireAccessPage,
        TenantForm, TenantActions, HandleSaveTenant,
        HandleOneTenantStatus, ButtonsServed, Button, Item, Handler,
        Call, Staff, Tenant, Role
    <2>4. LinksOpen("tenant", TenantPage, user)
      BY DEF TenantPage, RequireAccessPage, LinksOpen
    <2> QED
      BY <2>2, <2>3, <2>4
  <1>35. Honest("tenant_new", NewTenantPage, user)
    <2> SUFFICES ASSUME Enters(NewTenantPage, user)
                 PROVE  /\ LoadsServed("tenant_new", NewTenantPage, user)
                        /\ ButtonsServed(NewTenantPage, user)
                        /\ LinksOpen("tenant_new", NewTenantPage, user)
      BY DEF Honest
    <2>1. user.role \in {"SUPER_ADMIN"}
      BY Gates DEF Enters, NewTenantPage, RequireAccessPage
    <2>2. ButtonsServed(NewTenantPage, user)
      BY <2>1, Gates, Guards, Grants DEF NewTenantPage,
        RequireAccessPage, NewTenantNavigation, HandleCreateTenant,
        ButtonsServed, Button, Item, Handler, Call, Staff, Tenant, Role
    <2>3. LinksOpen("tenant_new", NewTenantPage, user)
      BY <2>1, Gates, Grants, Opened DEF NewTenantPage,
        RequireAccessPage, LinksOpen, Item, Staff
    <2>4. LoadsServed("tenant_new", NewTenantPage, user)
      BY DEF NewTenantPage, RequireAccessPage, LoadsServed
    <2> QED
      BY <2>2, <2>3, <2>4
  <1>36. Honest("leads", LeadsPage, user)
    <2> SUFFICES ASSUME Enters(LeadsPage, user)
                 PROVE  /\ LoadsServed("leads", LeadsPage, user)
                        /\ ButtonsServed(LeadsPage, user)
                        /\ LinksOpen("leads", LeadsPage, user)
      BY DEF Honest
    <2>1. user.role \in {"SUPER_ADMIN"}
      BY Gates DEF Enters, LeadsPage, RequireAccessPage
    <2>2. LoadsServed("leads", LeadsPage, user)
      BY <2>1, Gates, Guards, Grants DEF LeadsPage, RequireAccessPage,
        LoadsServed, All, Item, Staff
    <2>3. ButtonsServed(LeadsPage, user)
      BY <2>1, Gates, Guards, Grants DEF LeadsPage, RequireAccessPage,
        LeadRows, UpdateLead, RemoveLead, ButtonsServed, Button, Item,
        Handler, Call, Staff, Tenant, Role
    <2>4. LinksOpen("leads", LeadsPage, user)
      BY DEF LeadsPage, RequireAccessPage, LinksOpen
    <2> QED
      BY <2>2, <2>3, <2>4
  <1>37. Honest("settings", SettingsPage, user)
    <2> SUFFICES ASSUME Enters(SettingsPage, user)
                 PROVE  /\ LoadsServed("settings", SettingsPage, user)
                        /\ ButtonsServed(SettingsPage, user)
                        /\ LinksOpen("settings", SettingsPage, user)
      BY DEF Honest
    <2>1. user.role \in {"SUPER_ADMIN"}
      BY Gates DEF Enters, SettingsPage, RequireAccessPage
    <2>2. LoadsServed("settings", SettingsPage, user)
      BY <2>1, Gates, Guards, Grants DEF SettingsPage, RequireAccessPage,
        LoadsServed, All, Item, Staff
    <2>3. ButtonsServed(SettingsPage, user)
      BY <2>1, Gates, Guards, Grants DEF SettingsPage, RequireAccessPage,
        LeadEmailForm, SaveSettings, ButtonsServed, Button, Item,
        Handler, Call, Staff, Tenant, Role
    <2>4. LinksOpen("settings", SettingsPage, user)
      BY DEF SettingsPage, RequireAccessPage, LinksOpen
    <2> QED
      BY <2>2, <2>3, <2>4
  <1>38. Honest("feedback", FeedbackPanel, user)
    <2> SUFFICES ASSUME Enters(FeedbackPanel, user)
                 PROVE  /\ LoadsServed("feedback", FeedbackPanel, user)
                        /\ ButtonsServed(FeedbackPanel, user)
                        /\ LinksOpen("feedback", FeedbackPanel, user)
      BY DEF Honest
    <2>1. user.role \in Staff /\ (user.role = "CAPTAIN"
             \/ CanAccess(user, "viewTrainees"))
      BY Gates DEF Enters, FeedbackPanel, RequireAccessPage
    <2>2. LoadsServed("feedback", FeedbackPanel, user)
      BY <2>1, Gates, Guards, Grants DEF FeedbackPanel, RequireAccessPage,
        LoadsServed, All, Item, Staff
    <2>3. ButtonsServed(FeedbackPanel, user)
      BY <2>1, Gates, Guards, Grants DEF FeedbackPanel, RequireAccessPage,
        FeedbackForm, HandleFeedback, ButtonsServed, Button, Item, Handler,
        Call, Staff, Tenant, Role
    <2>4. LinksOpen("feedback", FeedbackPanel, user)
      BY DEF FeedbackPanel, RequireAccessPage, LinksOpen
    <2> QED
      BY <2>2, <2>3, <2>4
  <1> QED
    BY <1>1, <1>2, <1>3, <1>4, <1>5, <1>6, <1>7, <1>8, <1>9, <1>10, <1>11,
      <1>12, <1>13, <1>14, <1>15, <1>16, <1>17, <1>18, <1>19, <1>20, <1>21,
      <1>22, <1>23, <1>24, <1>25, <1>26, <1>27, <1>28, <1>29, <1>30, <1>31,
      <1>32, <1>33, <1>34, <1>35, <1>36, <1>37, <1>38

LEMMA Honestly ==
  ASSUME NEW name \in DOMAIN Pages, NEW user, user.role \in Role
  PROVE  Honest(name, Pages[name], user)
  <1>1. \/ name = "shell" /\ Pages[name] = DashboardLayout
        \/ name = "dashboard" /\ Pages[name] = DashboardPage
        \/ name = "branches" /\ Pages[name] = BranchesPage
        \/ name = "users" /\ Pages[name] = UsersPage
        \/ name = "trainees" /\ Pages[name] = TraineesPage
        \/ name = "trainee" /\ Pages[name] = TraineePage
        \/ name = "trainee_new" /\ Pages[name] = NewTraineePage
        \/ name = "captains" /\ Pages[name] = CaptainsPage
        \/ name = "captain" /\ Pages[name] = CaptainPage
        \/ name = "captain_new" /\ Pages[name] = NewCaptainPage
        \/ name = "plans" /\ Pages[name] = PlansPage
        \/ name = "plan" /\ Pages[name] = PlanPage
        \/ name = "plan_new" /\ Pages[name] = NewPlanPage
        \/ name = "groups" /\ Pages[name] = GroupsPage
        \/ name = "group" /\ Pages[name] = GroupPage
        \/ name = "feedback" /\ Pages[name] = FeedbackPanel
        \/ name = "group_edit" /\ Pages[name] = EditGroupPage
        \/ name = "group_new" /\ Pages[name] = NewGroupPage
        \/ name = "schedule" /\ Pages[name] = SchedulePage
        \/ name = "attendance" /\ Pages[name] = AttendancePage
        \/ name = "finance" /\ Pages[name] = FinancePage
        \/ name = "expenses" /\ Pages[name] = ExpensesPage
        \/ name = "manual_income" /\ Pages[name] = ManualIncomePage
        \/ name = "payroll" /\ Pages[name] = PayrollPage
        \/ name = "receipts" /\ Pages[name] = ReceiptsPage
        \/ name = "reports" /\ Pages[name] = ReportsPage
        \/ name = "portal_shell" /\ Pages[name] = PortalLayout
        \/ name = "portal" /\ Pages[name] = PortalPage
        \/ name = "portal_attendance" /\ Pages[name] = PortalAttendancePage
        \/ name = "portal_schedule" /\ Pages[name] = PortalSchedulePage
        \/ name = "portal_subscription" /\ Pages[name] = PortalSubscriptionPage
        \/ name = "portal_receipts" /\ Pages[name] = PortalReceiptsPage
        \/ name = "platform_shell" /\ Pages[name] = SuperAdminLayout
        \/ name = "tenants" /\ Pages[name] = TenantsPage
        \/ name = "tenant" /\ Pages[name] = TenantPage
        \/ name = "tenant_new" /\ Pages[name] = NewTenantPage
        \/ name = "leads" /\ Pages[name] = LeadsPage
        \/ name = "settings" /\ Pages[name] = SettingsPage
    BY DEF Pages
  <1> QED
    BY <1>1, AllHonest

\* The page that is open is one the user may open, as the browser has it.
Allowed ==
    /\ subject \in [role : Role, held : {subject.held}]
    /\ screen.page # Nothing => Admits(screen.page, Viewer(shown))

LEMMA AdmitsIs ==
  ASSUME NEW name, NEW held
  PROVE  OpensFor(name, held) <=> Admits(name, Viewer(held))
  BY DEF OpensFor, Admits, Enters, Viewer

LEMMA AllowedInit == WebInit => Allowed
  <1> SUFFICES ASSUME WebInit PROVE Allowed
    OBVIOUS
  <1>1. screen.page = Nothing
    BY DEF WebInit, Closed, Blank
  <1>2. subject \in [role : Role, held : {subject.held}]
    BY ScreensAssumption DEF ScreensAssumption, WebInit
  <1> QED
    BY <1>1, <1>2 DEF Allowed

\* Only a refresh changes what the browser believes, and only opening a page
\* leads to another one.
LEMMA AllowedSame ==
  ASSUME Allowed, UNCHANGED <<subject, shown>>,
         screen'.page \in {screen.page, Nothing}
  PROVE  Allowed'
  BY DEF Allowed, Viewer, Admits, Enters

LEMMA StaysFinish ==
  ASSUME Doing, NEW i \in DOMAIN screen.work, NEW says \in Ends,
         NEW lost \in BOOLEAN,
         screen' = Finish(Without(i), screen.work[i], says, lost)
  PROVE  screen'.page \in {screen.page, Nothing}
  <1>1. Here
    BY Busy
  <1>2. Without(i) \in Shown(screen.page)
           /\ screen.work[i] \in Job(screen.page)
    BY <1>1, WithoutIs
  <1>3. \/ screen' = [Closed EXCEPT !.told = Said(screen.work[i], says, lost)]
        \/ screen' \in Shown(screen.page)
    BY <1>1, <1>2, FinishKeeps DEF Here
  <1> QED
    BY <1>3 DEF Closed, Blank, Shown

LEMMA StaysAnswer ==
  ASSUME Doing, NEW i \in DOMAIN screen.work, NEW served \in BOOLEAN,
         Answer(i, served)
  PROVE  screen'.page \in {screen.page, Nothing}
  <1> DEFINE w == screen.work[i]
             next == [w EXCEPT !.step = 2]
  <1>1. Here
    BY Busy
  <1>2. \/ \E says \in Ends : screen' = Finish(Without(i), w, says, FALSE)
        \/ next \in Draft(screen.page)
              /\ screen' = Send(Without(i), next, served)
    BY <1>1, Answering
  <1>3. CASE \E says \in Ends : screen' = Finish(Without(i), w, says, FALSE)
    BY <1>3, StaysFinish
  <1> HIDE DEF next
  <1>4. CASE next \in Draft(screen.page)
                /\ screen' = Send(Without(i), next, served)
    <2>1. Without(i) \in Shown(screen.page) /\ screen.page \in DOMAIN Pages
      BY <1>1, WithoutIs DEF Here
    <2>2. screen' \in Shown(screen.page)
      BY <1>4, <2>1, SendKeeps
    <2> QED
      BY <2>2 DEF Shown
  <1> QED
    BY <1>2, <1>3, <1>4

LEMMA AllowedRefresh ==
  ASSUME Doing, Allowed, RefreshUser
  PROVE  Allowed'
  <1>1. /\ shown' = subject.held /\ subject' = subject
        /\ screen.page \in Name /\ screen \in Shown(screen.page)
        /\ screen.choice \in 1..2
    BY DEF RefreshUser, server, Doing, Shown
  <1>2. CASE screen' = Closed
    <2>1. screen'.page = Nothing
      BY <1>2 DEF Closed, Blank
    <2> QED
      BY <1>1, <2>1 DEF Allowed
  <1>3. CASE /\ OpensFor(screen.page, subject.held)
             /\ screen' \in {screen,
                   AskFor(subject.held, screen, screen.choice)}
    <2>1. screen.page \in DOMAIN Pages
      BY <1>3 DEF OpensFor
    <2>2. AskFor(subject.held, screen, screen.choice) \in Shown(screen.page)
      BY <1>1, <2>1, AskKeeps
    <2>3. screen'.page = screen.page
      BY <1>1, <1>3, <2>2 DEF Shown
    <2>4. Admits(screen.page, Viewer(subject.held))
      BY <1>3, AdmitsIs
    <2> QED
      BY <1>1, <2>3, <2>4 DEF Allowed, Viewer
  <1> QED
    BY <1>2, <1>3 DEF RefreshUser

LEMMA AllowedNext == Doing /\ Allowed /\ [WebNext]_webVars => Allowed'
  <1> SUFFICES ASSUME Doing, Allowed, [WebNext]_webVars PROVE Allowed'
    OBVIOUS
  <1>1. CASE UNCHANGED <<shown, screen>> /\ subject'.role = subject.role
             /\ subject' \in [role : Role, held : {subject'.held}]
    BY <1>1 DEF Allowed, Viewer, Admits, Enters
  <1>2. CASE ReadPrivileges \/ CachePrivileges \/ Expire
    BY <1>1, <1>2 DEF ReadPrivileges, CachePrivileges, Expire, Allowed
  <1>3. CASE CommitPrivileges
    <2>1. subject' = [subject EXCEPT !.held = change.held]
             /\ UNCHANGED <<shown, screen>>
      BY <1>3 DEF CommitPrivileges
    <2> QED
      BY <1>1, <2>1 DEF Allowed
  <1>4. ASSUME NEW move \in Moves, NEW here \in BOOLEAN,
               SetPrivileges(move[2], here)
        PROVE  Allowed'
    BY <1>1, <1>4 DEF SetPrivileges, Allowed
  <1>5. CASE RefreshUser
    BY <1>5, AllowedRefresh
  <1>6. ASSUME NEW name \in DOMAIN Pages, Open(name)
        PROVE  Allowed'
    <2>1. screen'.page = name /\ subject' = subject /\ shown' = shown
      BY <1>6 DEF Open, Blank, server
    <2>2. Admits(name, Viewer(shown))
      BY <1>6, AdmitsIs DEF Open, Opens
    <2> QED
      BY <2>1, <2>2 DEF Allowed, Viewer
  <1>7. CASE Leave
    <2>1. screen'.page = Nothing /\ UNCHANGED <<subject, shown>>
      BY <1>7 DEF Leave, Closed, Blank, server
    <2> QED
      BY <2>1, AllowedSame
  <1>8. CASE Choose
    <2> DEFINE c == 3 - screen.choice
               view == IF Page.late = "keyed" THEN Nothing ELSE screen.view
               s == [screen EXCEPT !.choice = c, !.view = view]
    <2>1. /\ screen.page \in DOMAIN Pages /\ c \in 1..2
          /\ screen' = AskFor(shown, s, c) /\ s \in Shown(screen.page)
      BY <1>8, ChooseIs
    <2> HIDE DEF s, c
    <2>2. screen' \in Shown(screen.page)
      BY <2>1, AskKeeps
    <2>3. screen'.page = screen.page /\ UNCHANGED <<subject, shown>>
      BY <1>8, <2>2 DEF Shown, Choose, server
    <2> QED
      BY <2>3, AllowedSame
  <1>9. ASSUME NEW i \in DOMAIN screen.asked, Arrive(i) \/ Miss(i)
        PROVE  Allowed'
    <2>1. screen'.page = screen.page
      BY <1>9, ArriveKeeps DEF Shown
    <2>2. UNCHANGED <<subject, shown>>
      BY <1>9 DEF Arrive, Miss, server
    <2> QED
      BY <2>1, <2>2, AllowedSame
  <1>10. ASSUME screen.page # Nothing, NEW button \in Page.buttons,
                NEW served \in BOOLEAN, Press(button, served)
         PROVE  Allowed'
    <2>1. Here
      BY <1>10 DEF Here, Doing, Name
    <2>2. screen'.page = screen.page
      BY <1>10, <2>1, Pressing DEF Shown
    <2>3. UNCHANGED <<subject, shown>>
      BY <1>10 DEF Press, server
    <2> QED
      BY <2>2, <2>3, AllowedSame
  <1>11. ASSUME NEW i \in DOMAIN screen.work, NEW served \in BOOLEAN,
                Answer(i, served)
         PROVE  Allowed'
    <2>1. UNCHANGED <<subject, shown>>
      BY <1>11 DEF Answer, server
    <2> QED
      BY <1>11, <2>1, StaysAnswer, AllowedSame
  <1>12. ASSUME NEW i \in DOMAIN screen.work, AnswerLost(i)
         PROVE  Allowed'
    <2>1. /\ screen' = Finish(Without(i), screen.work[i], "failed", TRUE)
          /\ UNCHANGED <<subject, shown>>
      BY <1>12 DEF AnswerLost, Without, server
    <2>2. "failed" \in Ends
      BY DEF Ends
    <2> QED
      BY <2>1, <2>2, StaysFinish, AllowedSame
  <1>13. CASE UNCHANGED webVars
    BY <1>13, AllowedSame DEF webVars, server
  <1> QED
    BY <1>2, <1>3, <1>4, <1>5, <1>6, <1>7, <1>8, <1>9, <1>10, <1>11, <1>12,
      <1>13 DEF WebNext

\* While the browser, the server and the database agree on the privileges,
\* everything an open page loads, offers and links to is served: on every page,
\* to every role and every set of privileges, but for the places listed in
\* Known.
THEOREM OffersWhatIsServed == Known \subseteq Excused /\ WebSpec =>
   []ShownIsServed
  <1> DEFINE I == Known \subseteq Excused /\ Doing /\ Allowed
  <1>1. Known \subseteq Excused /\ WebInit => I
    BY DoingInit, AllowedInit
  <1>2. I /\ [WebNext]_webVars => I'
    BY DoingNext, AllowedNext
  <1>3. I => ShownIsServed
    <2> SUFFICES ASSUME Known \subseteq Excused, Doing, Allowed,
                        screen.page # Nothing, shown = subject.held,
                        Believed = subject.held
                 PROVE  /\ \A item \in Page.loads \cup Page.pickers :
                              Sees(item) =>
                                 \/ Serves(item.what)
                                 \/ <<screen.page, item.what.name>> \in Excused
                        /\ \A button \in Page.buttons : Sees(button) =>
                              \A i \in DOMAIN button.what.handler.calls :
                                 Serves(button.what.handler.calls[i].route)
                        /\ \A link \in Page.links :
                              Sees(link) =>
                                 \/ Opens(link.what)
                                 \/ <<screen.page, link.what>> \in Excused
      BY DEF ShownIsServed
    <2> DEFINE user == Viewer(shown)
    <2>1. user.role \in Role
      BY DEF Allowed, Viewer
    <2>2. Admits(screen.page, user)
      BY DEF Allowed
    <2>3. \A gate : Passes(gate, Viewer(Believed)) <=> Passes(gate, user)
      OBVIOUS
    <2> HIDE DEF user
    <2>4. Honest(screen.page, Page, user)
      BY <2>1, <2>2, Honestly DEF Admits, Page
    <2>5. /\ LoadsServed(screen.page, Page, user)
          /\ ButtonsServed(Page, user)
          /\ LinksOpen(screen.page, Page, user)
      BY <2>2, <2>4 DEF Admits, Honest, Page
    <2>6. /\ \A route : Serves(route) <=> Passes(route.guard, user)
          /\ \A item : Sees(item) <=> Passes(item.gate, user)
      BY <2>3 DEF Serves, Sees, SeenWith, user
    <2>7. \A name : Opens(name) <=> Admits(name, user)
      BY AdmitsIs DEF Opens, user
    <2>8. \A item \in Page.loads \cup Page.pickers :
             Sees(item) => \/ Serves(item.what)
                           \/ <<screen.page, item.what.name>> \in Excused
      BY <2>5, <2>6 DEF LoadsServed
    <2>9. \A button \in Page.buttons : Sees(button) =>
             \A i \in DOMAIN button.what.handler.calls :
                Serves(button.what.handler.calls[i].route)
      BY <2>5, <2>6 DEF ButtonsServed
    <2>10. \A link \in Page.links :
             Sees(link) => \/ Opens(link.what)
                           \/ <<screen.page, link.what>> \in Excused
      BY <2>5, <2>6, <2>7 DEF LinksOpen
    <2> QED
      BY <2>8, <2>9, <2>10
  <1> HIDE DEF I
  <1> QED
    BY <1>1, <1>2, <1>3, PTL DEF WebSpec

=============================================================================

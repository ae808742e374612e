--------------------------- MODULE BrowserSession ---------------------------
(***************************************************************************)
(* A signed-in browser: what each tab shows, the two cookies all tabs      *)
(* share, and the requests that read and set them                          *)
(* (src/lib/auth/auth-context.tsx and the routes of src/app/api/auth).     *)
(*                                                                         *)
(* A token names a user and the branch they work in.  A request carries    *)
(* the token of the cookie it was sent with; its answer arrives any time   *)
(* later, in any order, and the browser stores the cookies it brings       *)
(* before the code that waits for it runs.                                 *)
(*                                                                         *)
(* Abstracted: passwords, the choice of an academy, role and privileges    *)
(* that come with a refresh, and sessionStorage (the user chose "remember  *)
(* me", so all tabs share the stored user).  Whether the server refuses a  *)
(* refresh (deactivated user, suspended academy, closed branch) is free.   *)
(***************************************************************************)
EXTENDS FiniteSets

CONSTANTS
    Tab,
    User,
    Branch,
    Home,     \* the branch a user signs in to
    Req,      \* bound: requests in flight
    Cut,      \* the kinds of request whose answer may stop after its headers,
              \* which bring the cookies
    Apart,    \* TRUE: requests that change the session meet neither each
              \* other nor a refresh, and a tab switches branch only when it
              \* shows the current session
    None

ASSUME SessionAssumption ==
    /\ Home \in [User -> Branch]
    /\ Cut \subseteq {"login", "switch", "refresh"}
    /\ Apart \in BOOLEAN
    /\ None \notin Tab \cup User \cup Branch

VARIABLES
    jar,      \* the access_token and refresh_token cookies
    stored,   \* the user object in localStorage
    tab,      \* the AuthProvider of each tab
    req,      \* the requests in flight
    moved,    \* history: tabs another tab has changed the session under
    failed    \* history: tabs whose last refresh ended in an error

vars == <<jar, stored, tab, req, moved, failed>>

Token == [user : User, branch : Branch]

ASSUME TokenAssumption == None \notin Token

\* boot: the stored user a page load is validating; None: isLoading is over.
TabState ==
    [user : Token \cup {None}, boot : Token \cup {None},
     refreshing : BOOLEAN, timer : BOOLEAN, switching : BOOLEAN]

SignedOut ==
    [user |-> None, boot |-> None, refreshing |-> FALSE, timer |-> FALSE,
     switching |-> FALSE]

Changes == {"login", "logout", "switch"}
Kinds == Changes \cup {"refresh", "fetch", "retry"}

\* carried: the token the request acts for, and a positive answer sets.
Request ==
    [kind : Kinds \cup {"none"}, tab : Tab \cup {None},
     why : {"boot", "timer", "fetch", "none"}, carried : Token \cup {None}]

NoRequest == [kind |-> "none", tab |-> None, why |-> "none", carried |-> None]

InFlight(kinds) == {q \in Req : req[q].kind \in kinds}

\* Apart, for a request of this kind that is sent now.
Admitted(kind) ==
    Apart => InFlight(IF kind \in Changes THEN Changes \cup {"refresh"}
                                          ELSE Changes) = {}

Sent(q, t, kind, why, carried) ==
    [req EXCEPT ![q] = [kind |-> kind, tab |-> t, why |-> why,
                        carried |-> carried]]

Ended(q) == [req EXCEPT ![q] = NoRequest]

Init ==
    /\ jar = [access |-> None, refresh |-> None]
    /\ stored = None
    /\ tab = [t \in Tab |-> SignedOut]
    /\ req = [q \in Req |-> NoRequest]
    /\ moved = {}
    /\ failed = {}

-----------------------------------------------------------------------------
(* Signing in and out *)

\* login posts the credentials; the login page is open to every tab.
Login(q, t, u) ==
    /\ req[q] = NoRequest
    /\ Admitted("login")
    /\ \A p \in InFlight({"login"}) : req[p].tab # t
    /\ req' = Sent(q, t, "login", "none", [user |-> u, branch |-> Home[u]])
    /\ UNCHANGED <<jar, stored, tab, moved, failed>>

\* Both cookies, the stored user, the state and the timer.
LoginAnswered(q) ==
    LET t == req[q].tab
        token == req[q].carried
    IN  /\ req[q].kind = "login"
        /\ jar' = [access |-> token, refresh |-> token]
        /\ stored' = token
        /\ tab' = [tab EXCEPT ![t].user = token, ![t].timer = TRUE]
        /\ req' = Ended(q)
        /\ moved' = (moved \cup Tab) \ {t}
        /\ failed' = failed \ {t}

\* logout forgets at once, which unmounts the header, and asks the server to
\* clear the cookies, without waiting for it.
Logout(q, t) ==
    /\ req[q] = NoRequest
    /\ tab[t].user # None
    /\ Admitted("logout")
    /\ stored' = None
    /\ tab' = [tab EXCEPT ![t].user = None, ![t].timer = FALSE,
                       ![t].switching = FALSE]
    /\ req' = Sent(q, t, "logout", "none", None)
    /\ UNCHANGED <<jar, moved, failed>>

LogoutAnswered(q) ==
    /\ req[q].kind = "logout"
    /\ jar' = [access |-> None, refresh |-> None]
    /\ req' = Ended(q)
    /\ UNCHANGED <<stored, tab, moved, failed>>

-----------------------------------------------------------------------------
(* Changing the branch *)

\* switchBranch posts the branch; the server mints tokens for the user of the
\* access cookie, and answers 401 without one.  The header lets nobody switch
\* while it waits, or until the reload that follows.
SwitchBranch(q, t, b) ==
    /\ req[q] = NoRequest
    /\ tab[t].user # None /\ tab[t].user.branch # b
    /\ ~tab[t].switching
    /\ Admitted("switch")
    /\ Apart => t \notin moved
    /\ tab' = [tab EXCEPT ![t].switching = TRUE]
    /\ req' = Sent(q, t, "switch", "none",
                   IF jar.access = None
                   THEN None ELSE [user |-> jar.access.user, branch |-> b])
    /\ UNCHANGED <<jar, stored, moved, failed>>

\* Mutant: only the access token is issued anew.
AccessOnly(token) == [jar EXCEPT !.access = token]

\* setAuthCookies of switch-branch: both tokens.
SwitchCookies(token) == [access |-> token, refresh |-> token]

\* The user shown keeps its name and takes the new branch.
SwitchAnswered(q) ==
    LET t == req[q].tab
        token == req[q].carried
        shown == IF tab[t].user = None THEN None
                 ELSE [tab[t].user EXCEPT !.branch = token.branch]
    IN  /\ req[q].kind = "switch" /\ token # None
        /\ jar' = SwitchCookies(token)
        /\ stored' = IF shown = None THEN stored ELSE shown
        /\ tab' = [tab EXCEPT ![t].user = shown, ![t].timer = TRUE]
        /\ req' = Ended(q)
        /\ moved' = moved \cup (Tab \ {t})
        /\ failed' = failed \ {t}

-----------------------------------------------------------------------------
(* Refreshing *)

\* The timer of scheduleTokenRefresh calls doRefresh, which does nothing when
\* one of this tab is in flight.
TimerFires(q, t) ==
    /\ tab[t].timer
    /\ IF tab[t].refreshing
       THEN /\ tab' = [tab EXCEPT ![t].timer = FALSE]
            /\ UNCHANGED req
       ELSE /\ req[q] = NoRequest
            /\ Admitted("refresh")
            /\ tab' = [tab EXCEPT ![t].timer = FALSE, ![t].refreshing = TRUE]
            /\ req' = Sent(q, t, "refresh", "timer", jar.refresh)
    /\ UNCHANGED <<jar, stored, moved, failed>>

\* A page load: requests of the old page are dropped, and a stored user is
\* shown once a refresh has been tried.
Reload(q, t) ==
    LET kept == [p \in Req |-> IF req[p].tab = t THEN NoRequest ELSE req[p]]
        boots == stored # None
    IN  /\ kept[q] = NoRequest
        /\ boots => Admitted("refresh")
        /\ tab' = [tab EXCEPT ![t] = [SignedOut EXCEPT !.boot = stored,
                                                       !.refreshing = boots]]
        /\ req' = IF boots
                  THEN [kept EXCEPT ![q] = [kind |-> "refresh", tab |-> t,
                                            why |-> "boot",
                                            carried |-> jar.refresh]]
                  ELSE kept
        /\ moved' = moved \ {t}
        /\ failed' = failed \ {t}
        /\ UNCHANGED <<jar, stored>>

\* Mutant: after an error of its refresh a page load goes on for ever.
BootedOnSuccess(q, t) == [tab[t] EXCEPT !.refreshing = FALSE]

\* The tab once a refresh has ended: the page load shows the user it began
\* with, be it after an error.
Booted(q, t) ==
    [tab[t] EXCEPT !.refreshing = FALSE,
                   !.user = IF req[q].why = "boot" THEN tab[t].boot ELSE @,
                   !.boot = IF req[q].why = "boot" THEN None ELSE @]

\* Mutant: the new token is for the branch the user signs in to.
HomeToken(q) ==
    [req[q].carried EXCEPT !.branch = Home[req[q].carried.user]]

\* The server copies user and branch from the refresh token.
RefreshedToken(q) == req[q].carried

\* Mutant: a refresh does not plan the next one.
NotRescheduled(q) ==
    LET t == req[q].tab IN
    /\ req[q].kind = "refresh" /\ req[q].carried # None
    /\ jar' = [jar EXCEPT !.access = RefreshedToken(q)]
    /\ tab' = [tab EXCEPT ![t] = Booted(q, t)]
    /\ req' = IF req[q].why = "fetch"
              THEN Sent(q, t, "retry", "none", RefreshedToken(q))
              ELSE Ended(q)
    /\ failed' = failed \ {t}
    /\ UNCHANGED <<stored, moved>>

\* A new access cookie and the next timer; a waiting fetch is sent again.
RefreshAnswered(q) ==
    LET t == req[q].tab IN
    /\ req[q].kind = "refresh" /\ req[q].carried # None
    /\ jar' = [jar EXCEPT !.access = RefreshedToken(q)]
    /\ tab' = [tab EXCEPT ![t] = [Booted(q, t) EXCEPT !.timer = TRUE]]
    /\ req' = IF req[q].why = "fetch"
              THEN Sent(q, t, "retry", "none", RefreshedToken(q))
              ELSE Ended(q)
    /\ failed' = failed \ {t}
    /\ UNCHANGED <<stored, moved>>

\* 401: forceLoggedOut, which leaves the cookies alone; a page load ends.
RefreshRefused(q) ==
    /\ req[q].kind = "refresh"
    /\ stored' = None
    /\ tab' = [tab EXCEPT ![req[q].tab] = SignedOut]
    /\ req' = Ended(q)
    /\ UNCHANGED <<jar, moved, failed>>

-----------------------------------------------------------------------------
(* authFetch *)

Fetch(q, t) ==
    /\ req[q] = NoRequest
    /\ tab[t].user # None
    /\ req' = Sent(q, t, "fetch", "none", jar.access)
    /\ UNCHANGED <<jar, stored, tab, moved, failed>>

\* The page gets its answer; for a retry that may be another 401.
FetchAnswered(q) ==
    /\ \/ req[q].kind = "fetch" /\ req[q].carried # None
       \/ req[q].kind = "retry"
    /\ req' = Ended(q)
    /\ UNCHANGED <<jar, stored, tab, moved, failed>>

\* 401: doRefresh, which says "ok" at once when one is in flight, and retry.
FetchBounced(q) ==
    LET t == req[q].tab IN
    /\ req[q].kind = "fetch" /\ req[q].carried = None
    /\ IF tab[t].refreshing
       THEN /\ req' = Sent(q, t, "retry", "none", jar.access)
            /\ UNCHANGED tab
       ELSE /\ Admitted("refresh")
            /\ tab' = [tab EXCEPT ![t].refreshing = TRUE]
            /\ req' = Sent(q, t, "refresh", "fetch", jar.refresh)
    /\ UNCHANGED <<jar, stored, moved, failed>>

-----------------------------------------------------------------------------
(* Errors and time *)

\* What the tab does about a request that ended in an error.
AfterError(q) ==
    LET t == req[q].tab IN
    /\ tab' = [tab EXCEPT
                 ![t] = CASE req[q].kind = "refresh" -> Booted(q, t)
                          [] req[q].kind = "switch" ->
                               [tab[t] EXCEPT !.switching = FALSE]
                          [] OTHER -> tab[t]]
    /\ failed' = IF req[q].kind = "refresh" THEN failed \cup {t} ELSE failed
    /\ req' = Ended(q)
    /\ UNCHANGED <<stored, moved>>

\* A network error, a refusal, a 429 or a 500; the request may have been lost.
RequestFails(q) ==
    /\ req[q].kind # "none"
    /\ AfterError(q)
    /\ UNCHANGED jar

\* The cookies arrive with the headers, the body does not.
BodyLost(q) ==
    /\ req[q].kind \in Cut /\ req[q].carried # None
    /\ jar' = IF req[q].kind = "refresh"
              THEN [jar EXCEPT !.access = RefreshedToken(q)]
              ELSE [access |-> req[q].carried, refresh |-> req[q].carried]
    /\ AfterError(q)

\* A cookie's Max-Age is the life of its token.
CookieExpires ==
    /\ \/ jar.access # None /\ jar' = [jar EXCEPT !.access = None]
       \/ jar.refresh # None /\ jar' = [jar EXCEPT !.refresh = None]
    /\ UNCHANGED <<stored, tab, req, moved, failed>>

Next ==
    \/ \E q \in Req, t \in Tab :
          \/ \E u \in User : Login(q, t, u)
          \/ \E b \in Branch : SwitchBranch(q, t, b)
          \/ Logout(q, t) \/ TimerFires(q, t) \/ Reload(q, t) \/ Fetch(q, t)
    \/ \E q \in Req :
          \/ LoginAnswered(q) \/ LogoutAnswered(q) \/ SwitchAnswered(q)
          \/ RefreshAnswered(q) \/ RefreshRefused(q)
          \/ FetchAnswered(q) \/ FetchBounced(q)
          \/ RequestFails(q) \/ BodyLost(q)
    \/ CookieExpires

Spec == Init /\ [][Next]_vars

-----------------------------------------------------------------------------
(* Properties *)

\* The variables have the shapes they should, and a page load that still shows
\* nothing has its refresh in flight.
TypeOK ==
    /\ jar \in [access : Token \cup {None}, refresh : Token \cup {None}]
    /\ stored \in Token \cup {None}
    /\ tab \in [Tab -> TabState]
    /\ \A t \in Tab :
          /\ tab[t].boot # None => tab[t].refreshing
          /\ tab[t].refreshing => \E q \in InFlight({"refresh"}) : req[q].tab = t
    /\ req \in [Req -> Request]
    /\ moved \subseteq Tab
    /\ failed \subseteq Tab

\* The branch a user has switched to survives a refresh
\* (api/auth/refresh/route.ts:11-12, api/auth/switch-branch/route.ts:8-10):
\* the access token never speaks for another session than the refresh token
\* that will replace it.
BranchSurvives ==
    jar.access # None /\ jar.refresh # None => jar.access = jar.refresh

\* A tab shows the user and the branch its requests are served for, until
\* another tab changes the session.
ServedAsShown ==
    \A t \in Tab \ moved :
        tab[t].user # None /\ jar.access # None => tab[t].user = jar.access

\* A signed-in tab has its next refresh before it (auth-context.tsx:195),
\* through overlapping timers, fetches, page loads and changes of branch,
\* unless the last one ended in an error.
KeepsRefreshing ==
    \A t \in Tab \ failed :
        tab[t].user # None => tab[t].timer \/ tab[t].refreshing

\* A fetch is sent again with a token (auth-context.tsx:351-355).
RetriesWithToken ==
    \A q \in Req : req[q].kind = "retry" => req[q].carried # None
=============================================================================

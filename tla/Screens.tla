------------------------------- MODULE Screens -------------------------------
(***************************************************************************)
(* One user in front of the pages: opening one, choosing what it shows,    *)
(* pressing its buttons, answers that are late or lost, and privileges     *)
(* that an administrator changes meanwhile.                                *)
(*                                                                         *)
(* A request is served when it is sent; its answer arrives any time later. *)
(* The server serves it for what it believes the user to hold: the         *)
(* privileges of the database, or those one instance has cached            *)
(* (src/lib/auth/privilege-cache.ts).  The browser shows what its own copy *)
(* of the privileges allows, until its next refresh.                       *)
(*                                                                         *)
(* Abstracted: what other users change, and a handler whose page is left   *)
(* before its answer.                                                      *)
(*                                                                         *)
(* Init, Next and the like carry the prefix Web: WebProofs extends this    *)
(* module and BrowserSession.                                              *)
(***************************************************************************)
EXTENDS Pages, SequencesExt

CONSTANTS
    Subject,    \* users: a role and the privileges the database has for them
    Moves,      \* the changes an administrator makes: pairs of privilege sets
    MaxAsked,   \* bound: loads in flight
    MaxWork,    \* bound: handlers running
    MaxVersion, \* bound: changes made from one opened page
    InOrder,    \* TRUE: a page that shows whatever answer comes, to a load or
                \* to a handler, gets them in the order it asked
    Patient,    \* TRUE: no other choice is made while a handler runs
    Straddle,   \* TRUE: privileges are read and cached across a change
    Excused,    \* a page and a request, a link, a word of success or of rows
                \* made twice, where the pages are known to do otherwise
    Nothing

\* A load: the choice it was made for, and the state of the data it answers.
Load == [choice : 1..2, version : Nat]

ASSUME ScreensAssumption ==
    /\ Subject \subseteq [role : Role, held : SUBSET Privilege]
    /\ Moves \subseteq (SUBSET Privilege) \X (SUBSET Privilege)
    /\ {MaxAsked, MaxWork, MaxVersion} \subseteq Nat \ {0}
    /\ {InOrder, Patient, Straddle} \subseteq BOOLEAN
    /\ Nothing \notin DOMAIN Pages
    /\ \A user \in Subject : Nothing # user.held
    /\ \A move \in Moves, here \in BOOLEAN :
          Nothing \notin {move[2], [held |-> move[2], here |-> here]}
    /\ Nothing \notin Load

VARIABLES
    subject,  \* the user, as the database has it
    shown,    \* the privileges in the browser's copy of the user
    cache,    \* the privileges cached by the instance that serves them
    reading,  \* the privileges a request has read and is about to cache
    change,   \* a change of the privileges that is not committed
    away,     \* history: the last change was made on another instance
    screen    \* the page

server == <<subject, cache, reading, change, away>>
webVars == <<server, shown, screen>>

Viewer(held) == [role |-> subject.role, held |-> held]

\* loadModeratorPrivileges.
Believed == IF cache = Nothing THEN subject.held ELSE cache

Serves(route) == Passes(route.guard, Viewer(Believed))
SeenWith(held, item) == Passes(item.gate, Viewer(held))
Sees(item) == SeenWith(shown, item)

OpensFor(name, held) ==
    /\ name \in DOMAIN Pages
    /\ subject.role \in Pages[name].area
    /\ Passes(Pages[name].gate, Viewer(held))

Opens(name) == OpensFor(name, shown)

\* view: the choice and the state of the data the page shows; mine: the state
\* it has promised to show; made: rows made by a handler that is not over.
Blank(name) ==
    [page |-> name, choice |-> 1, asked |-> <<>>, view |-> Nothing,
     version |-> 0, mine |-> 0, failed |-> FALSE, work |-> <<>>,
     made |-> {}, repeated |-> FALSE, told |-> Nothing]

Closed == Blank(Nothing)

Page == Pages[screen.page]

LoadsFor(held) == {item \in Page.loads : SeenWith(held, item)}
Loads == LoadsFor(shown)

WebInit ==
    /\ subject \in Subject
    /\ shown = subject.held
    /\ cache = Nothing
    /\ reading = Nothing
    /\ change = Nothing
    /\ away = FALSE
    /\ screen = Closed

-----------------------------------------------------------------------------
(* The privileges *)

ReadPrivileges ==
    /\ subject.role = "MODERATOR"
    /\ cache = Nothing /\ reading = Nothing
    /\ Straddle \/ change = Nothing
    /\ reading' = subject.held
    /\ UNCHANGED <<subject, cache, change, away, shown, screen>>

CachePrivileges ==
    /\ reading # Nothing
    /\ cache' = reading
    /\ reading' = Nothing
    /\ away' = (away /\ reading # subject.held)
    /\ UNCHANGED <<subject, change, shown, screen>>

\* The time to live has passed.
Expire ==
    /\ cache # Nothing
    /\ cache' = Nothing
    /\ away' = FALSE
    /\ UNCHANGED <<subject, reading, change, shown, screen>>

\* Mutant: the cached privileges are left to their time to live.
SetPrivileges_Cached(held, here) ==
    /\ change = Nothing
    /\ subject.role = "MODERATOR"
    /\ <<subject.held, held>> \in Moves
    /\ Straddle \/ reading = Nothing
    /\ change' = [held |-> held, here |-> here]
    /\ UNCHANGED <<subject, cache, reading, away, shown, screen>>

\* setPrivileges up to its commit, on this instance or on another one.
SetPrivileges(held, here) ==
    /\ change = Nothing
    /\ subject.role = "MODERATOR"
    /\ <<subject.held, held>> \in Moves
    /\ Straddle \/ reading = Nothing
    /\ change' = [held |-> held, here |-> here]
    /\ cache' = IF here THEN Nothing ELSE cache
    /\ UNCHANGED <<subject, reading, away, shown, screen>>

CommitPrivileges ==
    /\ change # Nothing
    /\ subject' = [subject EXCEPT !.held = change.held]
    /\ change' = Nothing
    /\ away' = ~change.here
    /\ UNCHANGED <<cache, reading, shown, screen>>

-----------------------------------------------------------------------------
(* Loading *)

\* What is still waited for once the page asks again: nothing under the same
\* key, or nothing at all.
Waited(s, c) ==
    CASE Page.late = "shown" -> s.asked
      [] Page.late = "keyed" ->
             IF \E i \in DOMAIN s.asked : s.asked[i].choice = c
             THEN RemoveAt(s.asked,
                           CHOOSE i \in DOMAIN s.asked : s.asked[i].choice = c)
             ELSE s.asked
      [] Page.late = "dropped" -> <<>>

\* What the page loads for a user with these privileges; one load that is
\* refused, and it shows an error.
AskFor(held, s, c) ==
    LET loads == LoadsFor(held) IN
    IF \A item \in loads : Serves(item.what)
    THEN [s EXCEPT !.failed = FALSE,
                   !.asked = IF loads = {} THEN <<>>
                             ELSE Append(Waited(s, c),
                                         [choice |-> c, version |-> s.version])]
    ELSE [s EXCEPT !.failed = TRUE, !.asked = Waited(s, c)]

Ask(s, c) == AskFor(shown, s, c)

\* The answer to a refresh brings the privileges; a page that the user may no
\* longer open gives way to "no access", and one that stays asks for what it
\* now may load, unless it still has that from before.
RefreshUser ==
    /\ shown # subject.held
    /\ shown' = subject.held
    /\ LET more == LoadsFor(subject.held) \ Loads IN
       IF ~OpensFor(screen.page, subject.held) THEN screen' = Closed
       ELSE \/ (more = {} \/ screen.view # Nothing) /\ screen' = screen
            \/ more # {} /\ Len(screen.asked) < MaxAsked
               /\ screen' = AskFor(subject.held, screen, screen.choice)
    /\ UNCHANGED server

\* Opening a page is its first load.
Open(name) ==
    /\ screen.page = Nothing
    /\ Opens(name)
    /\ LET page == Pages[name]
           loads == {item \in page.loads : Sees(item)}
           served == \A item \in loads : Serves(item.what)
       IN  screen' = [Blank(name) EXCEPT
                         !.failed = ~served,
                         !.asked = IF served /\ loads # {}
                                   THEN <<[choice |-> 1, version |-> 0]>>
                                   ELSE <<>>]
    /\ UNCHANGED <<server, shown>>

Leave ==
    /\ screen.page # Nothing
    /\ screen' = Closed
    /\ UNCHANGED <<server, shown>>

\* A filter, a search, a week, a session, a child.
Choose ==
    /\ screen.page # Nothing /\ Page.chosen
    /\ Patient => screen.work = <<>>
    /\ Len(screen.asked) < MaxAsked
    /\ LET c == 3 - screen.choice
       IN  screen' = Ask([screen EXCEPT !.choice = c,
                             !.view = IF Page.late = "keyed" THEN Nothing ELSE @],
                         c)
    /\ UNCHANGED <<server, shown>>

MayArrive(i) == InOrder /\ Page.late = "shown" => i = 1

\* Mutant: an answer is shown under any key.
Shows_AnyKey(a) == TRUE

Shows(a) == Page.late = "keyed" => a.choice = screen.choice

Arrive(i) ==
    /\ MayArrive(i)
    /\ screen' = [screen EXCEPT
                     !.asked = RemoveAt(@, i),
                     !.view = IF Shows(screen.asked[i]) THEN screen.asked[i]
                                                        ELSE @]
    /\ UNCHANGED <<server, shown>>

Miss(i) ==
    /\ MayArrive(i)
    /\ screen' = [screen EXCEPT !.asked = RemoveAt(@, i), !.failed = TRUE]
    /\ UNCHANGED <<server, shown>>

-----------------------------------------------------------------------------
(* Handlers *)

Flags == {screen.work[i].handler.flag : i \in DOMAIN screen.work} \ {"none"}

\* The next call of a handler reaches the server, which serves or refuses it,
\* and answers for the state of the data right after.
Send(s, w, served) ==
    LET call == w.handler.calls[w.step]
        new == call.route.kind = "create" /\ served
        after == s.version
                 + (IF served /\ call.route.kind # "read" THEN 1 ELSE 0)
    IN  [s EXCEPT
            !.work = Append(@, [w EXCEPT !.served = served,
                                         !.all = @ /\ served,
                                         !.some = @ \/ served,
                                         !.version = after]),
            !.version = after,
            !.repeated = @ \/ (new /\ call.route.name \in s.made),
            !.made = IF new THEN @ \cup {call.route.name} ELSE @]

\* A request may be refused for the privileges or for what it asks.
Verdicts(route) == IF Serves(route) THEN BOOLEAN ELSE {FALSE}

\* Rows that a handler changes in place are on the page once it has loaded.
Press(button, served) ==
    LET handler == button.what.handler
        w == [handler |-> handler, step |-> 1, choice |-> screen.choice,
              back |-> screen.view, served |-> FALSE, all |-> TRUE,
              some |-> FALSE, version |-> 0]
    IN  /\ Sees(button)
        /\ button.what.waits \cap Flags = {}
        /\ handler.after \in {"mark", "show"} => screen.view # Nothing
        /\ Len(screen.work) < MaxWork
        /\ screen.version + Len(handler.calls) <= MaxVersion
        /\ served \in Verdicts(handler.calls[1].route)
        /\ screen' =
              LET s == Send([screen EXCEPT !.told = Nothing], w, served)
              IN  IF handler.after # "optimistic" THEN s
                  ELSE [s EXCEPT !.asked = <<>>,
                          !.view = IF @ = Nothing THEN Nothing
                                   ELSE [@ EXCEPT !.version = s.version]]
        /\ UNCHANGED <<server, shown>>

Later(a, b) == IF a < b THEN b ELSE a

\* How the page follows a change that was made.
Follow(s, w) ==
    CASE w.handler.after = "reload" ->
             Ask([s EXCEPT !.mine = s.version], w.choice)
      [] w.handler.after = "optimistic" ->
             Ask([s EXCEPT !.mine = s.version], s.choice)
      [] w.handler.after \in {"mark", "show"} ->
             LET new == IF w.handler.after = "mark"
                        THEN Later(s.view.version, w.version) ELSE w.version
             IN  [s EXCEPT !.mine = Later(@, w.version),
                     !.view = IF @ = Nothing THEN Nothing
                              ELSE [@ EXCEPT !.version = new]]
      [] w.handler.after = "keep" -> s
      [] w.handler.after = "leave" -> [Closed EXCEPT !.told = s.told]

TakeBack(s, w) ==
    IF w.handler.after = "optimistic"
    THEN Ask([s EXCEPT !.view = w.back], s.choice)
    ELSE s

\* The handler is over; what it says, and what became of its calls.
Finish(s, w, says, lost) ==
    LET t == [s EXCEPT !.told =
                 [says |-> says, all |-> w.all, some |-> w.some, lost |-> lost],
              !.made = IF says = "failed" /\ ~lost THEN @ ELSE {}]
    IN  IF says = "failed" THEN TakeBack(t, w) ELSE Follow(t, w)

\* The answer to handler i comes after those to the loads asked before its
\* call, and after those that an earlier handler will show.
AnswersInOrder(i) ==
    LET w == screen.work[i] IN
    /\ w.handler.after \in {"mark", "show"} =>
          \A k \in DOMAIN screen.asked : w.version <= screen.asked[k].version
    /\ w.handler.after = "show" =>
          \A k \in 1..(i - 1) : screen.work[k].handler.after # "show"

\* The answer to a call, and what the handler does next.
Answer(i, served) ==
    LET w == screen.work[i]
        s == [screen EXCEPT !.work = RemoveAt(@, i)]
        call == w.handler.calls[w.step]
        goesOn == w.served \/ call.refused # "stops"
    IN  /\ Len(screen.asked) < MaxAsked
        /\ InOrder => AnswersInOrder(i)
        /\ \/ /\ ~goesOn /\ ~served
              /\ screen' = Finish(s, w, "failed", FALSE)
           \/ /\ goesOn /\ w.step = Len(w.handler.calls) /\ ~served
              /\ screen' = Finish(s, w, IF w.served \/ call.refused = "ignores"
                                        THEN "done" ELSE "told", FALSE)
           \/ /\ goesOn /\ w.step < Len(w.handler.calls)
              /\ served \in Verdicts(w.handler.calls[w.step + 1].route)
              /\ screen' = Send(s, [w EXCEPT !.step = @ + 1], served)
        /\ UNCHANGED <<server, shown>>

\* The call throws; the server may have served it.
AnswerLost(i) ==
    /\ Len(screen.asked) < MaxAsked
    /\ screen' = Finish([screen EXCEPT !.work = RemoveAt(@, i)],
                        screen.work[i], "failed", TRUE)
    /\ UNCHANGED <<server, shown>>

WebNext ==
    \/ ReadPrivileges \/ CachePrivileges \/ Expire
    \/ \E move \in Moves, here \in BOOLEAN : SetPrivileges(move[2], here)
    \/ CommitPrivileges \/ RefreshUser
    \/ \E name \in DOMAIN Pages : Open(name)
    \/ Leave \/ Choose
    \/ \E i \in DOMAIN screen.asked : Arrive(i) \/ Miss(i)
    \/ screen.page # Nothing
         /\ \E button \in Page.buttons, served \in BOOLEAN :
               Press(button, served)
    \/ \E i \in DOMAIN screen.work :
         \/ \E served \in BOOLEAN : Answer(i, served)
         \/ AnswerLost(i)

WebSpec == WebInit /\ [][WebNext]_webVars

-----------------------------------------------------------------------------
(* Properties *)

Notice ==
    [says : {"done", "told", "failed"}, all : BOOLEAN, some : BOOLEAN,
     lost : BOOLEAN]

\* Types, and the bounds of what is in flight: no page ever waits for more
\* loads, and no handler for more calls, than it has started.
WebTypeOK ==
    /\ subject.role \in Role /\ subject.held \subseteq Privilege
    /\ shown \subseteq Privilege
    /\ {cache, reading} \subseteq (SUBSET Privilege) \cup {Nothing}
    /\ away \in BOOLEAN
    /\ screen.page \in DOMAIN Pages \cup {Nothing}
    /\ screen.choice \in 1..2
    /\ screen.asked \in Seq(Load) /\ Len(screen.asked) <= MaxAsked
    /\ screen.view \in Load \cup {Nothing}
    /\ screen.version \in Nat /\ screen.mine \in 0..screen.version
    /\ Len(screen.work) <= MaxWork
    /\ \A i \in DOMAIN screen.work :
          screen.work[i].step \in DOMAIN screen.work[i].handler.calls
    /\ screen.told \in Notice \cup {Nothing}

\* Where pages are known to promise what the server refuses, or to make a row
\* twice (README).
Known ==
    {<<"group_new", "GET captains">>, <<"group_edit", "GET captains">>,
     <<"reports", "GET captains">>, <<"groups", "GET captains">>,
     <<"trainee", "GET subscriptions/plans/[id]">>, <<"trainee", "GET groups">>,
     <<"trainee_new", "GET subscriptions/plans">>,
     <<"trainee_new", "GET groups">>, <<"groups", "trainee_new">>,
     <<"dashboard", "plans">>, <<"schedule", "group">>,
     <<"branches", "GET branches">>, <<"users", "GET users">>,
     <<"shell", "academy_settings">>, <<"users", "done">>,
     <<"feedback", "twice">>}

\* While the browser's copy of the privileges, the server's and the
\* database's agree, everything an open page loads for a user, offers and
\* links to is served to that user, "a hidden button is never the only guard"
\* (use-access.ts) the other way round: access.ts:14-20 promises one rule for
\* both sides, with nothing shown that answers 403.
ShownIsServed ==
    screen.page # Nothing /\ shown = subject.held /\ Believed = subject.held =>
        /\ \A item \in Page.loads \cup Page.pickers :
              Sees(item) => \/ Serves(item.what)
                            \/ <<screen.page, item.what.name>> \in Excused
        /\ \A button \in Page.buttons : Sees(button) =>
              \A i \in DOMAIN button.what.handler.calls :
                 Serves(button.what.handler.calls[i].route)
        /\ \A link \in Page.links :
              Sees(link) => \/ Opens(link.what)
                            \/ <<screen.page, link.what>> \in Excused

\* Once nothing is in flight, a page that shows no error shows the choice the
\* user made last, and no state older than the changes it said it had made.
SettledView ==
    /\ screen.page # Nothing /\ Loads # {} /\ ~screen.failed
    /\ screen.asked = <<>> /\ screen.work = <<>>
    => /\ screen.view # Nothing
       /\ screen.view.choice = screen.choice
       /\ screen.mine <= screen.view.version

\* A handler that says it is done has had all its calls served, and one that
\* says it failed, without having lost an answer, has changed nothing.
SaysWhatHappened ==
    screen.told # Nothing =>
        /\ screen.told.says = "done" =>
              screen.told.all \/ <<screen.page, "done">> \in Excused
        /\ screen.told.says = "failed" /\ ~screen.told.lost => ~screen.told.some

\* Unless an answer was lost, no row is made a second time before the user has
\* been told of the first: neither by pressing again, nor by trying again what
\* was said to have failed half-way.  The one page that does is in Known.
CreatesOnce == screen.repeated => <<screen.page, "twice">> \in Excused

\* Once a change of privileges is committed, the instance that made it serves
\* nobody for the old ones.
RevokedAtOnce ==
    change = Nothing /\ ~away => cache \in {Nothing, subject.held}

=============================================================================

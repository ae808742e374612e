---- MODULE MCBrowserSession ----
(* Two tabs, two users who may work in two branches, two requests. *)
EXTENDS BrowserSession, TLC

CONSTANTS home, away

AllHome == [u \in User |-> home]

Symmetry == Permutations(Tab) \cup Permutations(User) \cup Permutations(Req)
====

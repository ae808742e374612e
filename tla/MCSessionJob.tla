---- MODULE MCSessionJob ----
(* Two replicas, an academy with one group, and one that always fails. *)
EXTENDS SessionJob

CONSTANTS good, bad

InGood == [g \in Group |-> good]
====

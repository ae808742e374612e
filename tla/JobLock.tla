------------------------------ MODULE JobLock ------------------------------
(***************************************************************************)
(* What withJobLock promises (src/jobs/scheduler.ts): of the replicas that *)
(* schedule a background job, at most one is running it.                   *)
(***************************************************************************)
CONSTANT Worker

VARIABLE running   \* the replicas inside the job

Init == running = {}

Start(w) == running = {} /\ running' = {w}

Stop(w) == w \in running /\ running' = running \ {w}

Next == \E w \in Worker : Start(w) \/ Stop(w)

Spec == Init /\ [][Next]_running
=============================================================================

----------------------------- MODULE JobPromise -----------------------------
(***************************************************************************)
(* What the job queue promises its callers, without lists, records, loops  *)
(* or Redis: a job waits, is taken by a worker and is run, or it is lost   *)
(* on the way.  Nothing brings a job back that was run or lost.  A caller  *)
(* who was refused may find the job queued all the same.                   *)
(***************************************************************************)
CONSTANT Jobs

VARIABLE place   \* per job: "fresh", "waiting", "taken", "ran" or "lost"

PromiseInit == place = [j \in Jobs |-> "fresh"]

Moves(j, from, to) == place[j] = from /\ place' = [place EXCEPT ![j] = to]

Enqueued(j) == Moves(j, "fresh", "waiting")
Refused(j)  == Moves(j, "fresh", "lost")
Taken(j)    == Moves(j, "waiting", "taken")
Run(j)      == Moves(j, "taken", "ran")

\* The reply that carried a job is lost, or a worker lets go of what it holds.
Lost(js) ==
    /\ \A j \in js : place[j] \in {"waiting", "taken"}
    /\ place' = [j \in Jobs |-> IF j \in js THEN "lost" ELSE place[j]]

PromiseNext ==
    \/ \E j \in Jobs : Enqueued(j) \/ Refused(j) \/ Taken(j) \/ Run(j)
    \/ \E js \in SUBSET Jobs : Lost(js)

PromiseSpec == PromiseInit /\ [][PromiseNext]_place

=============================================================================

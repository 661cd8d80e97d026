------------------------------ MODULE JobQueue ------------------------------
(***************************************************************************)
(* The Redis job queue (jobs/jobQueue.ts) and its worker                   *)
(* (workers/jobWorker.ts).  A job is a record under job:{id} and an entry  *)
(* of the list job_queue; enqueueJob writes the one and then the other.    *)
(* The worker is a loop per call of startJobWorker, split at its awaits.   *)
(* A Redis command that fails may or may not have been carried out.  The   *)
(* GET and the SET of updateJobStatus are one step: nothing else writes    *)
(* the record of a job that a loop holds (an expiry between the two would  *)
(* only bring the record back).                                            *)
(***************************************************************************)
EXTENDS Integers, SequencesExt

CONSTANTS
    Jobs,        \* job ids, one per POST /jobs
    Loops,       \* loops one process may have at a time
    NoJob,       \* the loop's id variable is null
    MaxFaults    \* bound: failed commands, crashes, stops and expiries

ASSUME JobAssumption == NoJob \notin Jobs /\ MaxFaults \in Nat

VARIABLES
    request,   \* where the POST /jobs of each job stands
    record,    \* status in job:{id}, "none" when there is no record
    queue,     \* job_queue, head first: LPUSH at the head, BRPOP at the tail
    running,   \* the worker module's flag
    loop,      \* per loop: [pc, id]
    runs,      \* how often the handler of each job was run
    faults

vars == <<request, record, queue, running, loop, runs, faults>>

LoopState ==
    [pc : {"off", "top", "pop", "load", "mark", "process", "complete", "inner", "outer"},
     id : Jobs \cup {NoJob}]

Idle == [pc |-> "off", id |-> NoJob]

\* Where a loop goes next, keeping its id.
Goes(l, where) == loop' = [loop EXCEPT ![l] = [pc |-> where, id |-> loop[l].id]]

\* The next iteration: id is declared anew.
Continues(l) == loop' = [loop EXCEPT ![l] = [pc |-> "top", id |-> NoJob]]

Fault == faults < MaxFaults /\ faults' = faults + 1

-----------------------------------------------------------------------------
(* POST /jobs: enqueueJob.                                                 *)

StoreJob(j) ==
    /\ request[j] = "new"
    /\ record' = [record EXCEPT ![j] = "pending"]
    /\ request' = [request EXCEPT ![j] = "stored"]
    /\ UNCHANGED <<queue, running, loop, runs, faults>>

PushJob(j) ==
    /\ request[j] = "stored"
    /\ queue' = <<j>> \o queue
    /\ request' = [request EXCEPT ![j] = "created"]
    /\ UNCHANGED <<record, running, loop, runs, faults>>

\* SET or LPUSH fails, or the API process dies: the caller gets no 201.
EnqueueFails(j) ==
    /\ Fault
    /\ request[j] \in {"new", "stored"}
    /\ request' = [request EXCEPT ![j] = "refused"]
    /\ \/ UNCHANGED <<record, queue>>
       \/ /\ request[j] = "new"
          /\ record' = [record EXCEPT ![j] = "pending"]
          /\ UNCHANGED queue
       \/ /\ request[j] = "stored"
          /\ queue' = <<j>> \o queue
          /\ UNCHANGED record
    /\ UNCHANGED <<running, loop, runs>>

\* The record's TTL runs out.
RecordExpires(j) ==
    /\ Fault
    /\ record[j] # "none"
    /\ record' = [record EXCEPT ![j] = "none"]
    /\ UNCHANGED <<request, queue, running, loop, runs>>

-----------------------------------------------------------------------------
(* The worker.                                                             *)

\* A second call while the flag is set returns at once.
StartJobWorker ==
    /\ ~running
    /\ running' = TRUE
    /\ \E l \in Loops : loop[l].pc = "off" /\ Goes(l, "top")
    /\ UNCHANGED <<request, record, queue, runs, faults>>

StopJobWorker ==
    /\ Fault
    /\ running
    /\ running' = FALSE
    /\ UNCHANGED <<request, record, queue, loop, runs>>

WhileRunning(l) ==
    /\ loop[l].pc = "top"
    /\ Goes(l, IF running THEN "pop" ELSE "off")
    /\ UNCHANGED <<request, record, queue, running, runs, faults>>

\* Mutant: the id is read and stays in the list until the job is done.
BrPop_Peeks(l) ==
    /\ loop[l].pc = "pop"
    /\ IF queue = <<>>
       THEN Continues(l)
       ELSE loop' = [loop EXCEPT ![l] = [pc |-> "load", id |-> Last(queue)]]
    /\ UNCHANGED <<request, record, queue, running, runs, faults>>

\* BRPOP returns an id, or null after its timeout.
BrPop(l) ==
    /\ loop[l].pc = "pop"
    /\ IF queue = <<>>
       THEN Continues(l) /\ UNCHANGED queue
       ELSE /\ loop' = [loop EXCEPT ![l] = [pc |-> "load", id |-> Last(queue)]]
            /\ queue' = Front(queue)
    /\ UNCHANGED <<request, record, running, runs, faults>>

LoadJob(l) ==
    /\ loop[l].pc = "load"
    /\ IF record[loop[l].id] = "none" THEN Continues(l) ELSE Goes(l, "mark")
    /\ UNCHANGED <<request, record, queue, running, runs, faults>>

\* updateJobStatus: nothing is written when there is no record.
Updated(j, status) == [record EXCEPT ![j] = IF @ = "none" THEN @ ELSE status]

MarkRunning(l) ==
    /\ loop[l].pc = "mark"
    /\ record' = Updated(loop[l].id, "running")
    /\ Goes(l, "process")
    /\ UNCHANGED <<request, queue, running, runs, faults>>

\* processJob: the handlers of the four job types do not throw.
ProcessJob(l) ==
    /\ loop[l].pc = "process"
    /\ runs' = [runs EXCEPT ![loop[l].id] = @ + 1]
    /\ Goes(l, "complete")
    /\ UNCHANGED <<request, record, queue, running, faults>>

MarkCompleted(l) ==
    /\ loop[l].pc = "complete"
    /\ record' = Updated(loop[l].id, "completed")
    /\ Continues(l)
    /\ UNCHANGED <<request, queue, running, runs, faults>>

\* Mutants: the job is put back for another attempt; nothing is written.
MarkFailed_Requeues(l) ==
    /\ loop[l].pc \in {"inner", "outer"}
    /\ record' = Updated(loop[l].id, "pending")
    /\ queue' = <<loop[l].id>> \o queue
    /\ Continues(l)
    /\ UNCHANGED <<request, running, runs, faults>>
MarkFailed_Forgets(l) ==
    /\ loop[l].pc \in {"inner", "outer"}
    /\ Continues(l)
    /\ UNCHANGED <<request, record, queue, running, runs, faults>>

\* updateJobStatus(id, "failed") of the inner or of the outer catch block.
MarkFailed(l) ==
    /\ loop[l].pc \in {"inner", "outer"}
    /\ record' = Updated(loop[l].id, "failed")
    /\ Continues(l)
    /\ UNCHANGED <<request, queue, running, runs, faults>>

\* Mutant: the error ends the loop.
PopFails_Dies(l) ==
    /\ Fault
    /\ loop[l].pc = "pop"
    /\ loop' = [loop EXCEPT ![l] = Idle]
    /\ UNCHANGED <<request, record, queue, running, runs>>

\* A failed BRPOP has no id to save, and may have taken one off the list.
PopFails(l) ==
    /\ Fault
    /\ loop[l].pc = "pop"
    /\ queue' \in {queue} \cup (IF queue = <<>> THEN {} ELSE {Front(queue)})
    /\ Continues(l)
    /\ UNCHANGED <<request, record, running, runs>>

\* A command of the loop's body fails.  The write of "completed" is inside
\* the inner try block; its catch block, and everything before it, is inside
\* the outer one, whose own write is best-effort.
CommandFails(l) ==
    LET writes == CASE loop[l].pc = "mark"               -> "running"
                    [] loop[l].pc = "complete"           -> "completed"
                    [] loop[l].pc \in {"inner", "outer"} -> "failed"
                    [] OTHER                             -> record[loop[l].id]
    IN  /\ Fault
        /\ loop[l].pc \in {"load", "mark", "complete", "inner", "outer"}
        /\ record' \in {record, Updated(loop[l].id, writes)}
        /\ CASE loop[l].pc = "complete" -> Goes(l, "inner")
             [] loop[l].pc = "outer"    -> Continues(l)
             [] OTHER                   -> Goes(l, "outer")
        /\ UNCHANGED <<request, queue, running, runs>>

\* The worker process dies.
WorkerCrashes ==
    /\ Fault
    /\ \E l \in Loops : loop[l].pc # "off"
    /\ running' = FALSE
    /\ loop' = [l \in Loops |-> Idle]
    /\ UNCHANGED <<request, record, queue, runs>>

-----------------------------------------------------------------------------
Init ==
    /\ request = [j \in Jobs |-> "new"]
    /\ record = [j \in Jobs |-> "none"]
    /\ queue = <<>>
    /\ running = FALSE
    /\ loop = [l \in Loops |-> Idle]
    /\ runs = [j \in Jobs |-> 0]
    /\ faults = 0

LoopStep(l) ==
    \/ WhileRunning(l)
    \/ BrPop(l)
    \/ LoadJob(l)
    \/ MarkRunning(l)
    \/ ProcessJob(l)
    \/ MarkCompleted(l)
    \/ MarkFailed(l)

Next ==
    \/ \E j \in Jobs : StoreJob(j) \/ PushJob(j) \/ EnqueueFails(j) \/ RecordExpires(j)
    \/ StartJobWorker
    \/ StopJobWorker
    \/ WorkerCrashes
    \/ \E l \in Loops : LoopStep(l) \/ PopFails(l) \/ CommandFails(l)

Spec == Init /\ [][Next]_vars

\* Commands are answered and the event loop goes on.
FairSpec == Spec /\ \A l \in Loops : WF_vars(LoopStep(l))

-----------------------------------------------------------------------------
(* Properties.                                                             *)

TypeOK ==
    /\ request \in [Jobs -> {"new", "stored", "created", "refused"}]
    /\ record \in [Jobs -> {"none", "pending", "running", "completed", "failed"}]
    /\ queue \in Seq(Jobs)
    /\ running \in BOOLEAN
    /\ loop \in [Loops -> LoopState]
    /\ runs \in [Jobs -> Nat]
    /\ faults \in Nat

\* A job's handler is run at most once, although failed commands may have
\* been carried out, the worker is restarted, and start after stop leaves
\* two loops on one list.
RunAtMostOnce == \A j \in Jobs : runs[j] <= 1

\* The inductive strengthening: an id is in one place at a time (not pushed
\* yet, at one position of the list, or in one loop), and until a loop has
\* gone through processJob its handler has not run.
Holds(l, j) == loop[l].id = j

QueuedOnce ==
    /\ \A m, n \in 1..Len(queue) : m # n => queue[m] # queue[n]
    /\ \A n \in 1..Len(queue) :
         /\ request[queue[n]] \in {"created", "refused"}
         /\ runs[queue[n]] = 0
         /\ \A l \in Loops : ~Holds(l, queue[n])

\* What a loop's id variable says, given where the loop stands.
HeldOK(state) ==
    /\ state.pc \in {"off", "top", "pop"} => state.id = NoJob
    /\ state.pc \notin {"off", "top", "pop"} =>
         /\ state.id \in Jobs
         /\ request[state.id] \in {"created", "refused"}
    /\ state.pc \in {"load", "mark", "process"} => runs[state.id] = 0

HeldOnce ==
    /\ \A l \in Loops : HeldOK(loop[l])
    /\ \A k, l \in Loops : k # l /\ loop[k].id = loop[l].id => loop[l].id = NoJob

NotRunBefore == \A j \in Jobs : request[j] \in {"new", "stored"} => runs[j] = 0

DeliveryInv == TypeOK /\ QueuedOnce /\ HeldOnce /\ NotRunBefore /\ RunAtMostOnce

\* A job is reported as completed only when its handler has run to the end,
\* and as running only when a loop has taken it.
StatusIsTrue ==
    \A j \in Jobs :
        /\ record[j] = "completed" => runs[j] = 1
        /\ record[j] = "running" => request[j] # "new" /\ ~Contains(queue, j)

\* Where a job is, told from the list, the loops and the runs of its handler.
Place ==
    [j \in Jobs |->
        CASE runs[j] > 0 -> "ran"
          [] runs[j] = 0 /\ Contains(queue, j) -> "waiting"
          [] runs[j] = 0 /\ ~Contains(queue, j) /\ (\E l \in Loops : Holds(l, j)) -> "taken"
          [] OTHER -> IF request[j] \in {"new", "stored"} THEN "fresh" ELSE "lost"]

Promise == INSTANCE JobPromise WITH place <- Place

\* The queue and its worker implement the promise: whatever fails, restarts or runs
\* side by side, a job goes from waiting to taken to run, is run no second time, and a
\* job that was let go or run is never waiting again (jobQueue.ts, lines 60-86;
\* jobWorker.ts, lines 106-160).
QueuePromise == Promise!PromiseSpec

\* A loop lets go of a job only with an outcome in its record, unless the
\* record expired or Redis or the process failed in this very step.
NoJobDropped ==
    [][\A l \in Loops : loop[l].id # NoJob /\ loop'[l].id # loop[l].id =>
         \/ record'[loop[l].id] \in {"completed", "failed", "none"}
         \/ faults' > faults]_vars

\* GET /jobs/:id never claims more than happened, and no outcome is missing that a
\* fault does not explain (updateJobStatus and both catch blocks of the worker).
WorkerHonest == []StatusIsTrue /\ NoJobDropped

\* A worker that is left running empties the list.
QueueDrains ==
    <>[]running => \A j \in Jobs : Contains(queue, j) ~> ~Contains(queue, j)

\* After stopJobWorker every loop comes to an end unless the worker is
\* started again.
WorkerStops == ~running ~> (running \/ \A l \in Loops : loop[l].pc = "off")

\* The loops neither die while the flag is set nor outlive it, whatever a Redis
\* command answers (jobWorker.ts, lines 106-160).
WorkerLive == QueueDrains /\ WorkerStops
=============================================================================

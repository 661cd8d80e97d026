--------------------------- MODULE JobQueueProofs ---------------------------
(***************************************************************************)
(* The job queue runs every job at most once, for any number of jobs,      *)
(* loops and faults.  The invariant that is inductive says where an id can *)
(* be: not pushed yet, at one position of the list, or in one loop.  From  *)
(* it follows what the status of a job says, and that no job is dropped.   *)
(***************************************************************************)
EXTENDS JobQueue, TLAPS

USE JobAssumption

\* What LPUSH and BRPOP do to a list of jobs.
LEMMA PushedList ==
    ASSUME NEW q \in Seq(Jobs), NEW j \in Jobs
    PROVE  /\ <<j>> \o q \in Seq(Jobs)
           /\ Len(<<j>> \o q) = Len(q) + 1
           /\ (<<j>> \o q)[1] = j
           /\ \A n \in 2..(Len(q) + 1) : (<<j>> \o q)[n] = q[n - 1]
  OBVIOUS

LEMMA PoppedList ==
    ASSUME NEW q \in Seq(Jobs), q # <<>>
    PROVE  /\ Len(q) \in Nat \ {0}
           /\ Last(q) \in Jobs /\ Last(q) = q[Len(q)]
           /\ Front(q) \in Seq(Jobs)
           /\ Len(Front(q)) = Len(q) - 1
           /\ \A n \in 1..(Len(q) - 1) : Front(q)[n] = q[n]
  <1> DEFINE k == Len(q) - 1
  <1>1. Len(q) \in Nat \ {0} /\ k \in Nat /\ k <= Len(q) /\ q[Len(q)] \in Jobs
    OBVIOUS
  <1>2. \A n \in 1..k : q[n] \in Jobs
    OBVIOUS
  <1> HIDE DEF k
  <1>3. SubSeq(q, 1, k) \in Seq(Jobs)
    BY <1>1, <1>2
  <1>4. Len(SubSeq(q, 1, k)) = k
    BY <1>1, <1>2
  <1>5. \A n \in 1..k : SubSeq(q, 1, k)[n] = q[n]
    BY <1>1, <1>2
  <1> QED
    BY <1>1, <1>3, <1>4, <1>5 DEF Last, Front, k

\* A job leaves the list: the rest of it is as before.
LEMMA FrontQueuedOnce ==
    ASSUME DeliveryInv, queue # <<>>,
           queue' = Front(queue), request' = request, runs' = runs,
           \A l \in Loops : \A n \in 1..Len(queue') : loop'[l].id # queue'[n]
    PROVE  QueuedOnce'
  <1>1. /\ Len(queue') = Len(queue) - 1 /\ Len(queue) \in Nat \ {0}
        /\ \A n \in 1..(Len(queue) - 1) : queue'[n] = queue[n]
    BY PoppedList DEF DeliveryInv, TypeOK
  <1> QED
    BY <1>1 DEF DeliveryInv, QueuedOnce, Holds

\* A job whose request was about to push it joins the list.
LEMMA PushQueuedOnce ==
    ASSUME DeliveryInv, NEW j \in Jobs, request[j] = "stored",
           queue' = <<j>> \o queue, runs' = runs, loop' = loop,
           NEW to \in {"created", "refused"}, request' = [request EXCEPT ![j] = to]
    PROVE  QueuedOnce' /\ queue' \in Seq(Jobs)
  <1> DEFINE q == queue
  <1>1. /\ queue' \in Seq(Jobs) /\ Len(queue') = Len(q) + 1 /\ Len(q) \in Nat
        /\ queue'[1] = j
        /\ \A n \in 2..(Len(q) + 1) : queue'[n] = q[n - 1]
    BY PushedList DEF DeliveryInv, TypeOK
  <1>2. \A n \in 1..Len(q) : q[n] \in Jobs /\ q[n] # j
    <2>1. \A n \in 1..Len(q) : q[n] \in Jobs
      BY DEF DeliveryInv, TypeOK
    <2> QED
      BY <2>1 DEF DeliveryInv, QueuedOnce
  <1>3. \A l \in Loops : ~Holds(l, j)
    BY DEF DeliveryInv, TypeOK, LoopState, HeldOnce, HeldOK, Holds
  <1>4. runs[j] = 0
    BY DEF DeliveryInv, NotRunBefore
  <1>5. \A m, n \in 1..Len(queue') : m # n => queue'[m] # queue'[n]
    <2> SUFFICES ASSUME NEW m \in 1..Len(queue'), NEW n \in 1..Len(queue'), m # n
                 PROVE  queue'[m] # queue'[n]
      OBVIOUS
    <2>1. CASE m = 1
      BY <1>1, <1>2, <2>1
    <2>2. CASE n = 1
      BY <1>1, <1>2, <2>2
    <2>3. CASE m # 1 /\ n # 1
      <3>1. m - 1 \in 1..Len(q) /\ n - 1 \in 1..Len(q) /\ m - 1 # n - 1
        BY <1>1, <2>3
      <3> QED
        BY <1>1, <2>3, <3>1 DEF DeliveryInv, QueuedOnce
    <2> QED
      BY <2>1, <2>2, <2>3
  <1>6. ASSUME NEW n \in 1..Len(queue')
        PROVE  /\ request'[queue'[n]] \in {"created", "refused"}
               /\ runs[queue'[n]] = 0
               /\ \A l \in Loops : ~Holds(l, queue'[n])
    <2>1. CASE n = 1
      BY <1>1, <1>3, <1>4, <2>1 DEF DeliveryInv, TypeOK
    <2>2. CASE n # 1
      <3>1. n - 1 \in 1..Len(q) /\ queue'[n] = q[n - 1]
        BY <1>1, <2>2
      <3> QED
        BY <1>2, <3>1 DEF DeliveryInv, TypeOK, QueuedOnce
    <2> QED
      BY <2>1, <2>2
  <1> QED
    BY <1>1, <1>5, <1>6 DEF QueuedOnce, Holds

-----------------------------------------------------------------------------
LEMMA InitDelivery == Init => DeliveryInv
  <1> SUFFICES ASSUME Init PROVE DeliveryInv
    OBVIOUS
  <1>1. TypeOK
    <2>1. Idle \in LoopState
      BY DEF Idle, LoopState
    <2>2. queue \in Seq(Jobs)
      BY DEF Init
    <2> QED
      BY <2>1, <2>2 DEF Init, TypeOK
  <1>2. QueuedOnce
    BY DEF Init, QueuedOnce
  <1>3. HeldOnce
    BY DEF Init, Idle, HeldOnce, HeldOK
  <1> QED
    BY <1>1, <1>2, <1>3 DEF Init, DeliveryInv, NotRunBefore, RunAtMostOnce

\* The enqueueing requests and the expiry of records.
LEMMA RequestDelivery ==
    ASSUME DeliveryInv, NEW j \in Jobs,
           StoreJob(j) \/ PushJob(j) \/ EnqueueFails(j) \/ RecordExpires(j)
    PROVE  DeliveryInv'
  <1> USE DEF DeliveryInv
  <1>1. CASE StoreJob(j)
    BY <1>1 DEF StoreJob, TypeOK, QueuedOnce, HeldOnce, HeldOK, NotRunBefore, RunAtMostOnce, Holds
  <1>2. CASE PushJob(j)
    <2>1. QueuedOnce' /\ queue' \in Seq(Jobs)
      BY <1>2, PushQueuedOnce DEF PushJob
    <2> QED
      BY <1>2, <2>1 DEF PushJob, TypeOK, HeldOnce, HeldOK, NotRunBefore, RunAtMostOnce, Holds
  <1>3. CASE EnqueueFails(j)
    <2>1. CASE UNCHANGED queue
      <3>1. /\ request' = [request EXCEPT ![j] = "refused"]
            /\ record' = record \/ record' = [record EXCEPT ![j] = "pending"]
            /\ faults' \in Nat /\ UNCHANGED <<running, loop, runs>>
        BY <1>3 DEF EnqueueFails, Fault, TypeOK
      <3>2. TypeOK'
        BY <2>1, <3>1 DEF TypeOK
      <3>3. QueuedOnce' /\ HeldOnce'
        BY <2>1, <3>1 DEF TypeOK, QueuedOnce, HeldOnce, HeldOK, Holds
      <3> QED
        BY <3>1, <3>2, <3>3 DEF TypeOK, NotRunBefore, RunAtMostOnce
    <2>2. CASE request[j] = "stored" /\ queue' = <<j>> \o queue /\ UNCHANGED record
      <3>1. QueuedOnce' /\ queue' \in Seq(Jobs)
        BY <1>3, <2>2, PushQueuedOnce DEF EnqueueFails
      <3> QED
        BY <1>3, <2>2, <3>1 DEF EnqueueFails, Fault, TypeOK, HeldOnce, HeldOK, NotRunBefore,
                                RunAtMostOnce, Holds
    <2> QED
      BY <1>3, <2>1, <2>2 DEF EnqueueFails
  <1>4. CASE RecordExpires(j)
    BY <1>4 DEF RecordExpires, Fault, TypeOK, QueuedOnce, HeldOnce, HeldOK, NotRunBefore,
                RunAtMostOnce, Holds
  <1> QED
    BY <1>1, <1>2, <1>3, <1>4

\* A loop that holds nothing new: it keeps its job or lets it go.
LEMMA MovedLoop ==
    ASSUME DeliveryInv, NEW l \in Loops, NEW to \in LoopState,
           loop' = [loop EXCEPT ![l] = to],
           to.id = loop[l].id \/ to.id = NoJob,
           UNCHANGED <<request, queue, runs>>, HeldOK(to),
           record' \in [Jobs -> {"none", "pending", "running", "completed", "failed"}],
           running' \in BOOLEAN, faults' \in Nat
    PROVE  DeliveryInv'
  <1> USE DEF DeliveryInv
  <1>1. TypeOK'
    BY DEF TypeOK
  <1>2. \A k \in Loops : loop'[k] = (IF k = l THEN to ELSE loop[k])
    BY DEF TypeOK
  <1>3. \A k \in Loops, n \in 1..Len(queue) : loop'[k].id # queue[n]
    <2>1. \A n \in 1..Len(queue) : queue[n] \in Jobs
      BY DEF TypeOK
    <2> QED
      BY <1>2, <2>1 DEF QueuedOnce, Holds
  <1>4. QueuedOnce'
    BY <1>3 DEF QueuedOnce, Holds
  <1>5. HeldOnce'
    BY <1>2 DEF HeldOnce, HeldOK
  <1> QED
    BY <1>1, <1>4, <1>5 DEF NotRunBefore, RunAtMostOnce

\* The record written for a job of the list, or one that is held.
LEMMA UpdatedRecord ==
    ASSUME TypeOK, NEW j \in Jobs,
           NEW status \in {"none", "pending", "running", "completed", "failed"}
    PROVE  Updated(j, status) \in [Jobs -> {"none", "pending", "running", "completed", "failed"}]
  BY DEF TypeOK, Updated

\* A step of a loop that leaves the list and the requests alone.
LEMMA LoopDelivery ==
    ASSUME DeliveryInv, NEW l \in Loops,
           \/ WhileRunning(l) \/ LoadJob(l) \/ MarkRunning(l) \/ ProcessJob(l)
           \/ MarkCompleted(l) \/ MarkFailed(l) \/ CommandFails(l)
    PROVE  DeliveryInv'
  <1> DEFINE i == loop[l].id
             top == [pc |-> "top", id |-> NoJob]
             at(where) == [pc |-> where, id |-> i]
  <1>0. /\ TypeOK /\ HeldOK(loop[l]) /\ loop[l] \in LoopState
        /\ i \in Jobs \cup {NoJob} /\ faults \in Nat /\ running \in BOOLEAN
        /\ record \in [Jobs -> {"none", "pending", "running", "completed", "failed"}]
    BY DEF DeliveryInv, TypeOK, HeldOnce, LoopState
  <1>t. top \in LoopState /\ HeldOK(top) /\ top.id = NoJob
    BY DEF LoopState, HeldOK
  <1>a. \A where \in {"off", "top", "pop", "load", "mark", "process", "complete", "inner",
                       "outer"} : at(where) \in LoopState /\ at(where).id = i
    BY <1>0 DEF LoopState
  <1>1. CASE WhileRunning(l)
    <2>1. HeldOK(at("pop")) /\ HeldOK(at("off"))
      BY <1>0, <1>1 DEF WhileRunning, HeldOK
    <2> QED
      BY <1>0, <1>1, <1>a, <2>1, MovedLoop DEF WhileRunning, Goes
  <1>2. CASE LoadJob(l)
    <2>1. HeldOK(at("mark"))
      BY <1>0, <1>2 DEF LoadJob, HeldOK
    <2> QED
      BY <1>0, <1>2, <1>a, <1>t, <2>1, MovedLoop DEF LoadJob, Goes, Continues
  <1>3. CASE MarkRunning(l)
    <2>1. HeldOK(at("process")) /\ i \in Jobs
      BY <1>0, <1>3 DEF MarkRunning, HeldOK
    <2>2. record' \in [Jobs -> {"none", "pending", "running", "completed", "failed"}]
      BY <1>0, <1>3, <2>1, UpdatedRecord DEF MarkRunning
    <2> QED
      BY <1>0, <1>3, <1>a, <2>1, <2>2, MovedLoop DEF MarkRunning, Goes
  <1>4. CASE ProcessJob(l)
    <2>1. /\ i \in Jobs /\ request[i] \in {"created", "refused"} /\ runs[i] = 0
          /\ runs' = [runs EXCEPT ![i] = 1] /\ loop' = [loop EXCEPT ![l] = at("complete")]
          /\ UNCHANGED <<request, record, queue, running, faults>>
      <3>1. i \in Jobs /\ request[i] \in {"created", "refused"} /\ runs[i] = 0
        BY <1>0, <1>4 DEF ProcessJob, HeldOK
      <3>2. 0 + 1 = 1
        OBVIOUS
      <3>3. /\ runs' = [runs EXCEPT ![i] = runs[i] + 1]
            /\ loop' = [loop EXCEPT ![l] = at("complete")]
            /\ UNCHANGED <<request, record, queue, running, faults>>
        BY <1>4 DEF ProcessJob, Goes
      <3> QED
        BY <3>1, <3>2, <3>3
    <2>2. TypeOK'
      BY <1>0, <1>a, <2>1 DEF TypeOK
    <2>3. \A n \in 1..Len(queue) : queue[n] \in Jobs /\ queue[n] # i
      BY <1>0, <2>1 DEF DeliveryInv, TypeOK, QueuedOnce, Holds
    <2>4. \A k \in Loops : loop'[k].id = loop[k].id
      BY <1>0, <2>1 DEF TypeOK
    <2>5. QueuedOnce'
      BY <1>0, <2>1, <2>3, <2>4 DEF DeliveryInv, TypeOK, QueuedOnce, Holds
    <2>6. ASSUME NEW k \in Loops PROVE HeldOK(loop[k])'
      <3>1. CASE k = l
        BY <1>0, <2>1, <3>1 DEF HeldOK, TypeOK
      <3>2. CASE k # l
        <4>1. loop'[k] = loop[k] /\ loop[k].id # i /\ HeldOK(loop[k])
          BY <1>0, <2>1, <3>2 DEF TypeOK, DeliveryInv, HeldOnce
        <4> QED
          BY <1>0, <2>1, <4>1 DEF HeldOK, TypeOK
      <3> QED
        BY <3>1, <3>2
    <2>7. HeldOnce'
      BY <2>4, <2>6 DEF DeliveryInv, HeldOnce
    <2>8. NotRunBefore' /\ RunAtMostOnce'
      BY <1>0, <2>1 DEF DeliveryInv, TypeOK, NotRunBefore, RunAtMostOnce
    <2> QED
      BY <2>2, <2>5, <2>7, <2>8 DEF DeliveryInv
  <1>5. CASE MarkCompleted(l)
    <2>1. i \in Jobs
      BY <1>0, <1>5 DEF MarkCompleted, HeldOK
    <2>2. record' \in [Jobs -> {"none", "pending", "running", "completed", "failed"}]
      BY <1>0, <1>5, <2>1, UpdatedRecord DEF MarkCompleted
    <2> QED
      BY <1>0, <1>5, <1>t, <2>2, MovedLoop DEF MarkCompleted, Continues
  <1>6. CASE MarkFailed(l)
    <2>1. i \in Jobs
      BY <1>0, <1>6 DEF MarkFailed, HeldOK
    <2>2. record' \in [Jobs -> {"none", "pending", "running", "completed", "failed"}]
      BY <1>0, <1>6, <2>1, UpdatedRecord DEF MarkFailed
    <2> QED
      BY <1>0, <1>6, <1>t, <2>2, MovedLoop DEF MarkFailed, Continues
  <1>7. CASE CommandFails(l)
    <2>1. i \in Jobs /\ HeldOK(at("inner")) /\ HeldOK(at("outer"))
      BY <1>0, <1>7 DEF CommandFails, HeldOK
    <2>2. record[i] \in {"none", "pending", "running", "completed", "failed"}
      BY <1>0, <2>1
    <2>3. record' \in [Jobs -> {"none", "pending", "running", "completed", "failed"}]
      BY <1>0, <1>7, <2>1, <2>2, UpdatedRecord DEF CommandFails
    <2>4. \/ loop' = [loop EXCEPT ![l] = at("inner")]
          \/ loop' = [loop EXCEPT ![l] = at("outer")]
          \/ loop' = [loop EXCEPT ![l] = top]
      BY <1>7 DEF CommandFails, Goes, Continues
    <2>5. faults' \in Nat /\ running' \in BOOLEAN /\ UNCHANGED <<request, queue, runs>>
      BY <1>0, <1>7 DEF CommandFails, Fault
    <2> QED
      BY <1>a, <1>t, <2>1, <2>3, <2>4, <2>5, MovedLoop
  <1> QED
    BY <1>1, <1>2, <1>3, <1>4, <1>5, <1>6, <1>7

\* A loop takes a job off the list, or loses it.
LEMMA PopDelivery ==
    ASSUME DeliveryInv, NEW l \in Loops, BrPop(l) \/ PopFails(l)
    PROVE  DeliveryInv'
  <1> USE DEF DeliveryInv, Continues
  <1>1. CASE queue' = queue /\ Continues(l)
    <2>1. [pc |-> "top", id |-> NoJob] \in LoopState /\ HeldOK([pc |-> "top", id |-> NoJob])
      BY DEF LoopState, HeldOK
    <2>2. UNCHANGED <<request, runs, record, running>> /\ faults' \in Nat
      BY DEF BrPop, PopFails, Fault, TypeOK
    <2> QED
      BY <1>1, <2>1, <2>2, MovedLoop DEF TypeOK
  <1>2. CASE queue # <<>> /\ queue' = Front(queue)
    <2> DEFINE j == Last(queue)
    <2>1. /\ j \in Jobs /\ queue' \in Seq(Jobs)
          /\ j = queue[Len(queue)] /\ Len(queue) \in 1..Len(queue)
          /\ Len(queue') = Len(queue) - 1
          /\ \A n \in 1..Len(queue') : queue'[n] = queue[n] /\ n \in 1..Len(queue)
                                       /\ queue[n] \in Jobs
      <3>1. queue \in Seq(Jobs) /\ \A n \in 1..Len(queue) : queue[n] \in Jobs
        BY DEF TypeOK
      <3>2. /\ Len(queue) \in Nat \ {0} /\ j \in Jobs /\ j = queue[Len(queue)]
            /\ queue' \in Seq(Jobs) /\ Len(queue') = Len(queue) - 1
            /\ \A n \in 1..(Len(queue) - 1) : queue'[n] = queue[n]
        BY <1>2, <3>1, PoppedList
      <3> HIDE DEF j
      <3> QED
        BY <3>1, <3>2
    <2>2. \A n \in 1..Len(queue') : queue'[n] # j
      BY <2>1 DEF QueuedOnce
    <2>3. /\ request[j] \in {"created", "refused"} /\ runs[j] = 0
          /\ \A k \in Loops : loop[k].id # j
      BY <2>1 DEF QueuedOnce, Holds
    <2>4. request' = request /\ runs' = runs /\ record' = record /\ running' = running
      BY DEF BrPop, PopFails
    <2>5. \/ loop' = [loop EXCEPT ![l] = [pc |-> "load", id |-> j]]
          \/ loop' = [loop EXCEPT ![l] = [pc |-> "top", id |-> NoJob]]
      BY <1>2 DEF BrPop, PopFails
    <2>6. loop[l].pc = "pop" /\ loop[l].id = NoJob /\ faults' \in Nat
      BY DEF BrPop, PopFails, Fault, HeldOnce, HeldOK, TypeOK
    <2>7. \A k \in Loops : \A n \in 1..Len(queue') : loop'[k].id # queue'[n]
      <3>1. \A k \in Loops : \A n \in 1..Len(queue') : loop[k].id # queue'[n]
        BY <2>1 DEF QueuedOnce, Holds
      <3>2. \A k \in Loops : loop'[k].id \in {loop[k].id, j, NoJob}
        <4>1. loop \in [Loops -> LoopState]
          BY DEF TypeOK
        <4> HIDE DEF j
        <4> QED
          BY <2>5, <4>1
      <3> QED
        BY <2>1, <2>2, <3>1, <3>2
    <2>8. QueuedOnce'
      BY <1>2, <2>4, <2>7, FrontQueuedOnce
    <2>9. TypeOK'
      <3>1. [pc |-> "load", id |-> j] \in LoopState /\ [pc |-> "top", id |-> NoJob] \in LoopState
        BY <2>1 DEF LoopState
      <3> QED
        BY <2>1, <2>4, <2>5, <2>6, <3>1 DEF TypeOK
    <2>10. HeldOnce'
      <3>1. /\ \A k \in Loops \ {l} : loop'[k] = loop[k]
            /\ \/ loop'[l].pc = "load" /\ loop'[l].id = j
               \/ loop'[l].pc = "top" /\ loop'[l].id = NoJob
        BY <2>5 DEF TypeOK
      <3>2. ASSUME NEW k \in Loops PROVE HeldOK(loop[k])'
        BY <2>1, <2>3, <2>4, <3>1 DEF HeldOnce, HeldOK
      <3>3. \A k, n \in Loops : k # n /\ loop'[k].id = loop'[n].id => loop'[n].id = NoJob
        BY <2>3, <3>1 DEF HeldOnce
      <3> QED
        BY <3>2, <3>3 DEF HeldOnce
    <2> QED
      BY <2>4, <2>8, <2>9, <2>10 DEF NotRunBefore, RunAtMostOnce
  <1> QED
    BY <1>1, <1>2 DEF BrPop, PopFails

\* Starting, stopping and losing the worker.
LEMMA WorkerDelivery ==
    ASSUME DeliveryInv, StartJobWorker \/ StopJobWorker \/ WorkerCrashes
    PROVE  DeliveryInv'
  <1> USE DEF DeliveryInv
  <1>1. CASE StartJobWorker
    <2>1. PICK l \in Loops : loop[l].pc = "off" /\ Goes(l, "top")
      BY <1>1 DEF StartJobWorker
    <2>2. loop[l].id = NoJob
      BY <2>1 DEF HeldOnce, HeldOK
    <2>3. [pc |-> "top", id |-> NoJob] \in LoopState /\ HeldOK([pc |-> "top", id |-> NoJob])
      BY DEF LoopState, HeldOK
    <2> QED
      BY <1>1, <2>1, <2>2, <2>3, MovedLoop DEF StartJobWorker, Goes, TypeOK
  <1>2. CASE StopJobWorker
    <2>1. UNCHANGED <<request, record, queue, loop, runs>> /\ running' = FALSE /\ faults' \in Nat
      BY <1>2 DEF StopJobWorker, Fault, TypeOK
    <2> QED
      BY <2>1 DEF TypeOK, QueuedOnce, HeldOnce, HeldOK, NotRunBefore, RunAtMostOnce, Holds
  <1>3. CASE WorkerCrashes
    <2>1. /\ \A l \in Loops : loop'[l] = Idle
          /\ loop' = [l \in Loops |-> Idle]
          /\ running' = FALSE /\ faults' \in Nat /\ UNCHANGED <<request, record, queue, runs>>
      BY <1>3 DEF WorkerCrashes, Fault, TypeOK
    <2>2. TypeOK'
      BY <2>1 DEF TypeOK, Idle, LoopState
    <2>3. \A n \in 1..Len(queue) : queue[n] \in Jobs
      BY DEF TypeOK
    <2>4. QueuedOnce' /\ HeldOnce'
      BY <2>1, <2>3 DEF Idle, QueuedOnce, HeldOnce, HeldOK, Holds
    <2> QED
      BY <2>1, <2>2, <2>4 DEF NotRunBefore, RunAtMostOnce
  <1> QED
    BY <1>1, <1>2, <1>3

\* DeliveryInv is an invariant of the queue and its worker: every id is in
\* one place at a time, whatever commands fail and processes die.
THEOREM JobsInOnePlace == Spec => []DeliveryInv
  <1>1. Init => DeliveryInv
    BY InitDelivery
  <1>2. DeliveryInv /\ [Next]_vars => DeliveryInv'
    <2> SUFFICES ASSUME DeliveryInv, [Next]_vars PROVE DeliveryInv'
      OBVIOUS
    <2>1. CASE UNCHANGED vars
      BY <2>1 DEF vars, DeliveryInv, TypeOK, QueuedOnce, HeldOnce, HeldOK, NotRunBefore,
                  RunAtMostOnce, Holds
    <2>2. CASE Next
      BY <2>2, RequestDelivery, LoopDelivery, PopDelivery, WorkerDelivery DEF Next, LoopStep
    <2> QED
      BY <2>1, <2>2
  <1> QED
    BY <1>1, <1>2, PTL DEF Spec

\* RunAtMostOnce holds for any number of jobs, loops, restarts and failures:
\* no handler of jobWorker.ts is run twice for one job.
THEOREM JobsRunAtMostOnce == Spec => []RunAtMostOnce
  <1>1. DeliveryInv => RunAtMostOnce
    BY DEF DeliveryInv
  <1> QED
    BY <1>1, JobsInOnePlace, PTL

-----------------------------------------------------------------------------
(* What GET /jobs/:id says.  That a status is true is not inductive: a     *)
(* loop about to write "completed" must have run the handler, and the      *)
(* record of a job that is not pushed yet cannot say "running".            *)

JobOK(j) ==
    /\ record[j] = "completed" => runs[j] = 1
    /\ record[j] = "running" => request[j] \in {"created", "refused"} /\ ~Contains(queue, j)

LoopDone(l) == loop[l].pc = "complete" => runs[loop[l].id] = 1

HonestInv == (\A j \in Jobs : JobOK(j)) /\ (\A l \in Loops : LoopDone(l))

\* What is in the list after a push and after a pop.
LEMMA PushContains ==
    ASSUME queue \in Seq(Jobs), NEW j \in Jobs, queue' = <<j>> \o queue, NEW i \in Jobs, i # j
    PROVE  Contains(queue', i) => Contains(queue, i)
  <1>1. /\ Len(queue') = Len(queue) + 1 /\ queue'[1] = j /\ Len(queue) \in Nat
        /\ \A n \in 2..(Len(queue) + 1) : queue'[n] = queue[n - 1]
    BY PushedList
  <1> SUFFICES ASSUME NEW n \in 1..Len(queue'), queue'[n] = i
               PROVE  \E m \in 1..Len(queue) : queue[m] = i
    BY DEF Contains
  <1>2. n # 1
    BY <1>1
  <1>3. n \in 2..(Len(queue) + 1) /\ n - 1 \in 1..Len(queue)
    BY <1>1, <1>2
  <1> QED
    BY <1>1, <1>3

LEMMA PopContains ==
    ASSUME queue \in Seq(Jobs), queue # <<>>, queue' = Front(queue), NEW i
    PROVE  Contains(queue', i) => Contains(queue, i)
  <1>1. /\ Len(queue') = Len(queue) - 1 /\ Len(queue) \in Nat \ {0}
        /\ \A n \in 1..(Len(queue) - 1) : queue'[n] = queue[n]
    BY PoppedList
  <1> SUFFICES ASSUME NEW n \in 1..Len(queue'), queue'[n] = i
               PROVE  \E m \in 1..Len(queue) : queue[m] = i
    BY DEF Contains
  <1>2. n \in 1..Len(queue) /\ queue[n] = i
    BY <1>1
  <1> QED
    BY <1>2

\* The job a loop holds has been pushed and is not in the list.
LEMMA HeldFacts ==
    ASSUME DeliveryInv, NEW l \in Loops, loop[l].pc \notin {"off", "top", "pop"}
    PROVE  /\ loop[l].id \in Jobs /\ loop[l].id # NoJob
           /\ request[loop[l].id] \in {"created", "refused"}
           /\ ~Contains(queue, loop[l].id)
           /\ loop[l].pc = "process" => runs[loop[l].id] = 0
  <1>1. HeldOK(loop[l])
    BY DEF DeliveryInv, HeldOnce
  <1>2. \A n \in 1..Len(queue) : loop[l].id # queue[n]
    BY DEF DeliveryInv, QueuedOnce, Holds
  <1>3. ~Contains(queue, loop[l].id)
    BY <1>2 DEF Contains
  <1> QED
    BY <1>1, <1>3 DEF HeldOK

LEMMA RequestHonest ==
    ASSUME DeliveryInv, HonestInv, NEW j \in Jobs,
           StoreJob(j) \/ PushJob(j) \/ EnqueueFails(j) \/ RecordExpires(j)
    PROVE  HonestInv'
  <1>0. /\ request \in [Jobs -> {"new", "stored", "created", "refused"}]
        /\ record \in [Jobs -> {"none", "pending", "running", "completed", "failed"}]
        /\ queue \in Seq(Jobs)
    BY DEF DeliveryInv, TypeOK
  <1>1. loop' = loop /\ runs' = runs
    BY DEF StoreJob, PushJob, EnqueueFails, RecordExpires
  <1>2. \A l \in Loops : LoopDone(l)'
    BY <1>1 DEF HonestInv, LoopDone
  <1>3. ASSUME NEW i \in Jobs PROVE JobOK(i)'
    <2>0. JobOK(i)
      BY DEF HonestInv
    <2>1. CASE i # j
      <3>1. record'[i] = record[i] /\ request'[i] = request[i]
        BY <1>0, <2>1 DEF StoreJob, PushJob, EnqueueFails, RecordExpires
      <3>2. Contains(queue', i) => Contains(queue, i)
        <4>1. queue' = queue \/ queue' = <<j>> \o queue
          BY DEF StoreJob, PushJob, EnqueueFails, RecordExpires
        <4> QED
          BY <1>0, <2>1, <4>1, PushContains
      <3> QED
        BY <1>1, <2>0, <3>1, <3>2 DEF JobOK
    <2>2. CASE i = j
      <3>1. CASE request[j] \in {"new", "stored"} /\ ~RecordExpires(j)
        <4>1. record[j] # "running"
          BY <2>0, <2>2, <3>1 DEF JobOK
        <4>2. record'[j] \in {record[j], "pending"}
          BY <1>0, <3>1 DEF StoreJob, PushJob, EnqueueFails
        <4> QED
          BY <1>1, <2>0, <2>2, <4>1, <4>2 DEF JobOK
      <3>2. CASE RecordExpires(j)
        <4>1. record'[j] = "none"
          BY <1>0, <3>2 DEF RecordExpires
        <4> QED
          BY <2>2, <4>1 DEF JobOK
      <3> QED
        BY <3>1, <3>2 DEF StoreJob, PushJob, EnqueueFails
    <2> QED
      BY <2>1, <2>2
  <1> QED
    BY <1>2, <1>3 DEF HonestInv

\* A loop writes a status that is true of the job it holds, or no status.
LEMMA WriteHonest ==
    ASSUME DeliveryInv, HonestInv, NEW l \in Loops, NEW to,
           loop[l].pc \notin {"off", "top", "pop"},
           NEW status \in {"running", "completed", "failed"},
           status = "completed" => runs[loop[l].id] = 1,
           record' = record \/ record' = Updated(loop[l].id, status),
           to.pc # "complete", loop' = [loop EXCEPT ![l] = to],
           UNCHANGED <<request, queue, runs>>
    PROVE  HonestInv'
  <1> DEFINE i == loop[l].id
  <1>0. record \in [Jobs -> {"none", "pending", "running", "completed", "failed"}]
        /\ loop \in [Loops -> LoopState]
    BY DEF DeliveryInv, TypeOK
  <1>1. i \in Jobs /\ request[i] \in {"created", "refused"} /\ ~Contains(queue, i)
    BY HeldFacts
  <1>2. \A k \in Loops : LoopDone(k)'
    BY <1>0 DEF HonestInv, LoopDone
  <1> HIDE DEF i
  <1>3. ASSUME NEW j \in Jobs PROVE JobOK(j)'
    <2>0. JobOK(j)
      BY DEF HonestInv
    <2>1. record'[j] = record[j] \/ (j = i /\ record'[j] = status)
      BY <1>0, <1>1 DEF Updated, i
    <2>2. CASE record'[j] = record[j]
      BY <2>0, <2>2 DEF JobOK
    <2>3. CASE j = i /\ record'[j] = status
      BY <1>1, <2>3 DEF JobOK, i
    <2> QED
      BY <2>1, <2>2, <2>3
  <1> QED
    BY <1>2, <1>3 DEF HonestInv

LEMMA LoopHonest ==
    ASSUME DeliveryInv, HonestInv, NEW l \in Loops,
           LoopStep(l) \/ PopFails(l) \/ CommandFails(l)
    PROVE  HonestInv'
  <1> DEFINE i == loop[l].id
  <1>0. /\ loop \in [Loops -> LoopState] /\ queue \in Seq(Jobs) /\ runs \in [Jobs -> Nat]
        /\ record \in [Jobs -> {"none", "pending", "running", "completed", "failed"}]
    BY DEF DeliveryInv, TypeOK
  <1>1. CASE WhileRunning(l) \/ LoadJob(l) \/ BrPop(l) \/ PopFails(l)
    <2>1. UNCHANGED <<request, record, runs>>
      BY <1>1 DEF WhileRunning, LoadJob, BrPop, PopFails
    <2>2. queue' = queue \/ (queue # <<>> /\ queue' = Front(queue))
      BY <1>1 DEF WhileRunning, LoadJob, BrPop, PopFails
    <2>3. \A j \in Jobs : Contains(queue', j) => Contains(queue, j)
      BY <1>0, <2>2, PopContains
    <2>4. \A k \in Loops : loop'[k] = loop[k] \/ loop'[k].pc # "complete"
      <3>1. \E to : to.pc # "complete" /\ loop' = [loop EXCEPT ![l] = to]
        <4>1. \/ loop' = [loop EXCEPT ![l] = [pc |-> "top", id |-> NoJob]]
              \/ loop' = [loop EXCEPT ![l] = [pc |-> "load", id |-> Last(queue)]]
              \/ loop' = [loop EXCEPT ![l] = [pc |-> "mark", id |-> i]]
              \/ loop' = [loop EXCEPT ![l] = [pc |-> "pop", id |-> i]]
              \/ loop' = [loop EXCEPT ![l] = [pc |-> "off", id |-> i]]
          BY <1>1 DEF WhileRunning, LoadJob, BrPop, PopFails, Goes, Continues
        <4> QED
          BY <4>1
      <3> QED
        BY <1>0, <3>1
    <2>5. \A k \in Loops : LoopDone(k)'
      BY <2>1, <2>4 DEF HonestInv, LoopDone
    <2>6. \A j \in Jobs : JobOK(j)'
      BY <2>1, <2>3 DEF HonestInv, JobOK
    <2> QED
      BY <2>5, <2>6 DEF HonestInv
  <1>2. CASE MarkRunning(l)
    <2>1. /\ loop[l].pc = "mark" /\ record' = Updated(i, "running")
          /\ loop' = [loop EXCEPT ![l] = [pc |-> "process", id |-> i]]
          /\ UNCHANGED <<request, queue, runs>>
      BY <1>2 DEF MarkRunning, Goes
    <2> QED
      BY <2>1, WriteHonest
  <1>3. CASE MarkCompleted(l)
    <2>1. /\ loop[l].pc = "complete" /\ record' = Updated(i, "completed")
          /\ loop' = [loop EXCEPT ![l] = [pc |-> "top", id |-> NoJob]]
          /\ UNCHANGED <<request, queue, runs>>
      BY <1>3 DEF MarkCompleted, Continues
    <2>2. runs[i] = 1
      BY <2>1 DEF HonestInv, LoopDone
    <2> QED
      BY <2>1, <2>2, WriteHonest
  <1>4. CASE MarkFailed(l)
    <2>1. /\ loop[l].pc \in {"inner", "outer"} /\ record' = Updated(i, "failed")
          /\ loop' = [loop EXCEPT ![l] = [pc |-> "top", id |-> NoJob]]
          /\ UNCHANGED <<request, queue, runs>>
      BY <1>4 DEF MarkFailed, Continues
    <2> QED
      BY <2>1, WriteHonest
  <1>5. CASE CommandFails(l)
    <2>1. PICK to : to.pc # "complete" /\ loop' = [loop EXCEPT ![l] = to]
      <3>1. \/ loop' = [loop EXCEPT ![l] = [pc |-> "inner", id |-> i]]
            \/ loop' = [loop EXCEPT ![l] = [pc |-> "outer", id |-> i]]
            \/ loop' = [loop EXCEPT ![l] = [pc |-> "top", id |-> NoJob]]
        BY <1>5 DEF CommandFails, Goes, Continues
      <3> QED
        BY <3>1
    <2>2. loop[l].pc \in {"load", "mark", "complete", "inner", "outer"}
          /\ UNCHANGED <<request, queue, runs>>
      BY <1>5 DEF CommandFails
    <2>3. loop[l].pc = "complete" => runs[i] = 1
      BY DEF HonestInv, LoopDone
    <2>4. i \in Jobs
      BY <2>2, HeldFacts
    <2>5. PICK status \in {"running", "completed", "failed"} :
             /\ status = "completed" => runs[i] = 1
             /\ record' = record \/ record' = Updated(i, status)
      <3>1. CASE loop[l].pc = "mark"
        BY <1>5, <3>1 DEF CommandFails
      <3>2. CASE loop[l].pc = "complete"
        BY <1>5, <2>3, <3>2 DEF CommandFails
      <3>3. CASE loop[l].pc \in {"inner", "outer"}
        BY <1>5, <3>3 DEF CommandFails
      <3>4. CASE loop[l].pc = "load"
        <4>1. record' = record \/ record' = Updated(i, record[i])
          BY <1>5, <3>4 DEF CommandFails
        <4>2. Updated(i, record[i]) = record
          BY <1>0, <2>4 DEF Updated
        <4> QED
          BY <4>1, <4>2
      <3> QED
        BY <2>2, <3>1, <3>2, <3>3, <3>4
    <2> QED
      BY <2>1, <2>2, <2>5, WriteHonest
  <1>6. CASE ProcessJob(l)
    <2>1. /\ loop[l].pc = "process" /\ runs' = [runs EXCEPT ![i] = runs[i] + 1]
          /\ loop' = [loop EXCEPT ![l] = [pc |-> "complete", id |-> i]]
          /\ UNCHANGED <<request, record, queue>>
      BY <1>6 DEF ProcessJob, Goes
    <2>2. i \in Jobs /\ runs[i] = 0 /\ i # NoJob
      BY <2>1, HeldFacts
    <2>3. runs'[i] = 1 /\ \A j \in Jobs : j # i => runs'[j] = runs[j]
      BY <1>0, <2>1, <2>2
    <2>4. \A j \in Jobs : JobOK(j)'
      BY <2>1, <2>2, <2>3 DEF HonestInv, JobOK
    <2>5. ASSUME NEW k \in Loops PROVE LoopDone(k)'
      <3>1. CASE k = l
        BY <1>0, <2>1, <2>3, <3>1 DEF LoopDone
      <3>2. CASE k # l
        <4>1. loop'[k] = loop[k] /\ LoopDone(k)
          BY <1>0, <2>1, <3>2 DEF HonestInv
        <4>2. loop[k].id # i
          BY <2>2, <3>2 DEF DeliveryInv, HeldOnce
        <4>3. loop[k].pc = "complete" => loop[k].id \in Jobs
          BY HeldFacts
        <4> QED
          BY <2>3, <4>1, <4>2, <4>3 DEF LoopDone
      <3> QED
        BY <3>1, <3>2
    <2> QED
      BY <2>4, <2>5 DEF HonestInv
  <1> QED
    BY <1>1, <1>2, <1>3, <1>4, <1>5, <1>6 DEF LoopStep

LEMMA WorkerStateHonest ==
    ASSUME DeliveryInv, HonestInv, StartJobWorker \/ StopJobWorker \/ WorkerCrashes
    PROVE  HonestInv'
  <1>1. UNCHANGED <<request, record, queue, runs>>
    BY DEF StartJobWorker, StopJobWorker, WorkerCrashes
  <1>2. \A k \in Loops : loop'[k] = loop[k] \/ loop'[k].pc # "complete"
    BY DEF DeliveryInv, TypeOK, StartJobWorker, StopJobWorker, WorkerCrashes, Goes, Idle
  <1> QED
    BY <1>1, <1>2 DEF HonestInv, JobOK, LoopDone

\* A step in which a loop lets go of its job.
DropsNone ==
    \A l \in Loops : loop[l].id # NoJob /\ loop'[l].id # loop[l].id =>
        \/ record'[loop[l].id] \in {"completed", "failed", "none"}
        \/ faults' > faults

LEMMA StepDropsNone ==
    ASSUME DeliveryInv, [Next]_vars
    PROVE  DropsNone
  <1>0. /\ loop \in [Loops -> LoopState] /\ faults \in Nat
        /\ record \in [Jobs -> {"none", "pending", "running", "completed", "failed"}]
    BY DEF DeliveryInv, TypeOK
  <1>1. CASE loop' = loop
    BY <1>1 DEF DropsNone
  <1>2. CASE faults' > faults
    BY <1>2 DEF DropsNone
  <1>3. CASE StartJobWorker
    <2>1. \A k \in Loops : loop'[k].id = loop[k].id
      BY <1>0, <1>3 DEF StartJobWorker, Goes
    <2> QED
      BY <2>1 DEF DropsNone
  <1>4. ASSUME NEW l \in Loops, LoopStep(l) PROVE DropsNone
    <2> DEFINE i == loop[l].id
    <2>0. \A to : loop' = [loop EXCEPT ![l] = to] =>
             \A k \in Loops : loop'[k] = IF k = l THEN to ELSE loop[k]
      BY <1>0
    <2>1. CASE WhileRunning(l) \/ MarkRunning(l) \/ ProcessJob(l)
      <3>1. \A k \in Loops : loop'[k].id = loop[k].id
        <4>1. \E where : loop' = [loop EXCEPT ![l] = [pc |-> where, id |-> i]]
          BY <2>1 DEF WhileRunning, MarkRunning, ProcessJob, Goes
        <4> QED
          BY <1>0, <4>1
      <3> QED
        BY <3>1 DEF DropsNone
    <2>2. CASE BrPop(l)
      <3>1. loop[l].id = NoJob
        BY <2>2 DEF BrPop, DeliveryInv, HeldOnce, HeldOK
      <3>2. \A k \in Loops \ {l} : loop'[k] = loop[k]
        BY <1>0, <2>2 DEF BrPop, Continues
      <3> QED
        BY <3>1, <3>2 DEF DropsNone
    <2>3. CASE LoadJob(l)
      <3>1. \A k \in Loops \ {l} : loop'[k] = loop[k]
        BY <1>0, <2>3 DEF LoadJob, Continues, Goes
      <3>2. loop'[l].id = loop[l].id \/ record'[i] = "none"
        BY <1>0, <2>3 DEF LoadJob, Continues, Goes
      <3> QED
        BY <3>1, <3>2 DEF DropsNone
    <2>4. CASE MarkCompleted(l) \/ MarkFailed(l)
      <3>1. \A k \in Loops \ {l} : loop'[k] = loop[k]
        BY <1>0, <2>4 DEF MarkCompleted, MarkFailed, Continues
      <3>2. i \in Jobs
        BY <2>4, HeldFacts DEF MarkCompleted, MarkFailed
      <3>3. record'[i] \in {"completed", "failed", "none"}
        BY <1>0, <2>4, <3>2 DEF MarkCompleted, MarkFailed, Updated
      <3> QED
        BY <3>1, <3>3 DEF DropsNone
    <2> QED
      BY <1>4, <2>1, <2>2, <2>3, <2>4 DEF LoopStep
  <1>5. ASSUME NEW j \in Jobs, StoreJob(j) \/ PushJob(j) \/ EnqueueFails(j) \/ RecordExpires(j)
        PROVE  loop' = loop
    BY <1>5 DEF StoreJob, PushJob, EnqueueFails, RecordExpires
  <1>6. ASSUME NEW l \in Loops, PopFails(l) \/ CommandFails(l) PROVE faults' > faults
    BY <1>0, <1>6 DEF PopFails, CommandFails, Fault
  <1>7. StopJobWorker \/ WorkerCrashes => faults' > faults
    BY <1>0 DEF StopJobWorker, WorkerCrashes, Fault
  <1>8. CASE UNCHANGED vars
    BY <1>1, <1>8 DEF vars
  <1> QED
    BY <1>1, <1>2, <1>3, <1>4, <1>5, <1>6, <1>7, <1>8 DEF Next

\* For any number of jobs, loops and faults: a job is reported as completed only after its
\* handler ran, and as running only when a loop took it; and a loop lets go of a job
\* only with an outcome in the record, unless a fault is to blame (updateJobStatus and
\* both catch blocks of jobWorker.ts).
THEOREM StatusesAreTrue == Spec => WorkerHonest
  <1>1. Init => HonestInv
    BY DEF Init, HonestInv, JobOK, LoopDone, Idle
  <1>2. DeliveryInv /\ HonestInv /\ [Next]_vars => HonestInv'
    <2> SUFFICES ASSUME DeliveryInv, HonestInv, [Next]_vars PROVE HonestInv'
      OBVIOUS
    <2>1. CASE UNCHANGED vars
      BY <2>1 DEF vars, HonestInv, JobOK, LoopDone
    <2>2. CASE Next
      BY <2>2, RequestHonest, LoopHonest, WorkerStateHonest DEF Next
    <2> QED
      BY <2>1, <2>2
  <1>3. HonestInv => StatusIsTrue
    BY DEF HonestInv, JobOK, StatusIsTrue
  <1>4. DeliveryInv /\ [Next]_vars => [DropsNone]_vars
    BY StepDropsNone
  <1> QED
    BY <1>1, <1>2, <1>3, <1>4, JobsInOnePlace, PTL DEF Spec, WorkerHonest, NoJobDropped, DropsNone
=============================================================================

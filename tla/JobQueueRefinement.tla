------------------------- MODULE JobQueueRefinement -------------------------
(***************************************************************************)
(* The job queue and its worker implement JobPromise, for any number of    *)
(* jobs, loops and faults.  Every step of the queue moves one job, loses   *)
(* the jobs a loop or the worker held, or leaves every job where it is.    *)
(***************************************************************************)
EXTENDS JobQueueProofs

InList(j) == \E n \in 1..Len(queue) : queue[n] = j
Held(j) == \E l \in Loops : loop[l].id = j

\* Place, told job by job.
PlaceIs(j) ==
    /\ runs[j] # 0 => Place[j] = "ran"
    /\ runs[j] = 0 /\ InList(j) => Place[j] = "waiting"
    /\ runs[j] = 0 /\ ~InList(j) /\ Held(j) => Place[j] = "taken"
    /\ runs[j] = 0 /\ ~InList(j) /\ ~Held(j) /\ request[j] \in {"new", "stored"} => Place[j] = "fresh"
    /\ runs[j] = 0 /\ ~InList(j) /\ ~Held(j) /\ request[j] \notin {"new", "stored"} => Place[j] = "lost"

LEMMA PlaceMeaning == ASSUME TypeOK, NEW j \in Jobs PROVE PlaceIs(j)
  <1>1. runs[j] \in Nat
    BY DEF TypeOK
  <1>2. Contains(queue, j) <=> InList(j)
    BY DEF Contains, InList
  <1>3. (\E l \in Loops : Holds(l, j)) <=> Held(j)
    BY DEF Holds, Held
  <1>4. Place[j] = CASE runs[j] > 0 -> "ran"
          [] runs[j] = 0 /\ Contains(queue, j) -> "waiting"
          [] runs[j] = 0 /\ ~Contains(queue, j) /\ (\E l \in Loops : Holds(l, j)) -> "taken"
          [] OTHER -> IF request[j] \in {"new", "stored"} THEN "fresh" ELSE "lost"
    BY DEF Place
  <1> HIDE DEF InList, Held, Contains, Holds
  <1> QED
    BY <1>1, <1>2, <1>3, <1>4 DEF PlaceIs

LEMMA PlaceMeaningNext == ASSUME TypeOK', NEW j \in Jobs PROVE PlaceIs(j)'
  BY PlaceMeaning, PTL

\* The jobs of js go to one place, the others stay where they are.
LEMMA PlacesMove ==
    ASSUME NEW js \in SUBSET Jobs, NEW to,
           \A k \in Jobs : Place'[k] = IF k \in js THEN to ELSE Place[k]
    PROVE  /\ Place' = [k \in Jobs |-> IF k \in js THEN to ELSE Place[k]]
           /\ js = {} => Place' = Place
           /\ \A j : js = {j} => Place' = [Place EXCEPT ![j] = to]
  <1>1. Place = [k \in Jobs |-> Place[k]] /\ Place' = [k \in Jobs |-> Place'[k]]
    BY DEF Place
  <1> QED
    BY <1>1

\* Where a job stays when neither its run count, its presence in the list and in the
\* loops, nor the kind of its request changes.
LEMMA StaysPut ==
    ASSUME TypeOK, TypeOK', NEW j \in Jobs,
           runs'[j] = 0 <=> runs[j] = 0, InList(j)' <=> InList(j), Held(j)' <=> Held(j),
           request'[j] \in {"new", "stored"} <=> request[j] \in {"new", "stored"}
    PROVE  Place'[j] = Place[j]
  <1>1. PlaceIs(j)
    BY PlaceMeaning
  <1>2. PlaceIs(j)'
    BY PlaceMeaningNext
  <1> QED
    BY <1>1, <1>2 DEF PlaceIs

\* One job moves from a place to another, and the rest stays put.
LEMMA OneMoves ==
    ASSUME NEW j \in Jobs, NEW to, Place'[j] = to,
           \A k \in Jobs \ {j} : Place'[k] = Place[k]
    PROVE  Place' = [Place EXCEPT ![j] = to]
  <1>1. \A k \in Jobs : Place'[k] = IF k \in {j} THEN to ELSE Place[k]
    OBVIOUS
  <1> QED
    BY <1>1, PlacesMove

\* A step that leaves the list, the runs and the loops' jobs alone.
LEMMA NothingMoves ==
    ASSUME TypeOK, TypeOK', UNCHANGED <<queue, runs>>,
           \A l \in Loops : loop'[l].id = loop[l].id,
           \A j \in Jobs : request'[j] \in {"new", "stored"} <=> request[j] \in {"new", "stored"}
    PROVE  Place' = Place
  <1>1. ASSUME NEW j \in Jobs PROVE Place'[j] = Place[j]
    <2>1. (InList(j)' <=> InList(j)) /\ (Held(j)' <=> Held(j))
      BY DEF InList, Held
    <2> QED
      BY <2>1, StaysPut
  <1>2. \A j \in Jobs : Place'[j] = IF j \in {} THEN "lost" ELSE Place[j]
    BY <1>1
  <1> QED
    BY <1>2, PlacesMove

\* A job whose request is open is neither in the list nor held, and has not run.
LEMMA OpenRequest ==
    ASSUME DeliveryInv, NEW j \in Jobs, request[j] \in {"new", "stored"}
    PROVE  runs[j] = 0 /\ ~InList(j) /\ ~Held(j) /\ Place[j] = "fresh"
  <1>1. runs[j] = 0 /\ ~InList(j)
    BY DEF DeliveryInv, NotRunBefore, QueuedOnce, InList
  <1>2. ~Held(j)
    <2>1. ASSUME NEW l \in Loops, loop[l].id = j PROVE FALSE
      <3>1. loop[l] \in LoopState /\ HeldOK(loop[l])
        BY DEF DeliveryInv, TypeOK, HeldOnce
      <3> QED
        BY <2>1, <3>1, JobAssumption DEF HeldOK
    <2> QED
      BY <2>1 DEF Held
  <1> QED
    BY <1>1, <1>2, PlaceMeaning DEF PlaceIs, DeliveryInv

\* The id of an open request is pushed.
LEMMA PushMoves ==
    ASSUME DeliveryInv, TypeOK', NEW j \in Jobs, request[j] = "stored",
           queue' = <<j>> \o queue, UNCHANGED <<loop, runs>>,
           NEW to, request' = [request EXCEPT ![j] = to]
    PROVE  Promise!Enqueued(j)
  <1>0. TypeOK /\ queue \in Seq(Jobs)
    BY DEF DeliveryInv, TypeOK
  <1>1. /\ Len(queue) \in Nat /\ Len(queue') = Len(queue) + 1 /\ queue'[1] = j
        /\ \A n \in 2..(Len(queue) + 1) : queue'[n] = queue[n - 1]
    BY <1>0, PushedList
  <1>2. \A k \in Jobs \ {j} : InList(k)' <=> InList(k)
    <2> TAKE k \in Jobs \ {j}
    <2>1. ASSUME NEW n \in 1..Len(queue), queue[n] = k PROVE InList(k)'
      <3>1. n + 1 \in 2..(Len(queue) + 1) /\ n + 1 \in 1..Len(queue') /\ (n + 1) - 1 = n
        BY <1>1
      <3> QED
        BY <1>1, <2>1, <3>1 DEF InList
    <2>2. ASSUME NEW n \in 1..Len(queue'), queue'[n] = k PROVE InList(k)
      <3>1. n # 1
        BY <1>1, <2>2
      <3>2. n \in 2..(Len(queue) + 1) /\ n - 1 \in 1..Len(queue)
        BY <1>1, <3>1
      <3> QED
        BY <1>1, <2>2, <3>2 DEF InList
    <2> QED
      BY <2>1, <2>2 DEF InList
  <1>3. ASSUME NEW k \in Jobs \ {j} PROVE Place'[k] = Place[k]
    <2>1. (Held(k)' <=> Held(k)) /\ request'[k] = request[k]
      BY <1>0 DEF Held, TypeOK
    <2> QED
      BY <1>0, <1>2, <2>1, StaysPut
  <1>4. runs[j] = 0 /\ Place[j] = "fresh"
    BY OpenRequest
  <1>5. Place'[j] = "waiting"
    <2>1. InList(j)' /\ runs'[j] = 0
      BY <1>1, <1>4 DEF InList
    <2>2. PlaceIs(j)'
      BY PlaceMeaningNext
    <2> QED
      BY <2>1, <2>2 DEF PlaceIs
  <1> QED
    BY <1>3, <1>4, <1>5, OneMoves DEF Promise!Enqueued, Promise!Moves

\* A job some loop holds is in no list, held by that loop alone, and its request is over.
LEMMA HeldJob ==
    ASSUME DeliveryInv, NEW l \in Loops, NEW j \in Jobs, loop[l].id = j
    PROVE  /\ ~InList(j) /\ Held(j) /\ request[j] \in {"created", "refused"}
           /\ \A k \in Loops \ {l} : loop[k].id # j
           /\ runs[j] = 0 => Place[j] = "taken"
  <1>1. loop[l] \in LoopState /\ HeldOK(loop[l]) /\ j # NoJob
    BY JobAssumption DEF DeliveryInv, TypeOK, HeldOnce
  <1>2. request[j] \in {"created", "refused"}
    BY <1>1 DEF HeldOK
  <1>3. \A k \in Loops \ {l} : loop[k].id # j
    BY <1>1 DEF DeliveryInv, HeldOnce
  <1>4. ~InList(j) /\ Held(j)
    BY DEF DeliveryInv, QueuedOnce, Holds, InList, Held
  <1> QED
    BY <1>2, <1>3, <1>4, PlaceMeaning DEF PlaceIs, DeliveryInv

\* A set of jobs that were taken and have not run is let go.
LEMMA LetGo ==
    ASSUME DeliveryInv, TypeOK', UNCHANGED <<request, queue, runs>>, NEW js \in SUBSET Jobs,
           \A j \in js : runs[j] = 0 /\ (\E l \in Loops : loop[l].id = j) /\ ~Held(j)',
           \A j \in Jobs \ js : runs[j] # 0 \/ (Held(j)' <=> Held(j))
    PROVE  Promise!Lost(js)
  <1>0. TypeOK
    BY DEF DeliveryInv
  <1>1. ASSUME NEW j \in js PROVE Place[j] = "taken" /\ Place'[j] = "lost"
    <2>1. runs[j] = 0 /\ ~InList(j) /\ request[j] \in {"created", "refused"} /\ Place[j] = "taken"
      BY HeldJob
    <2>2. runs'[j] = 0 /\ ~InList(j)' /\ ~Held(j)' /\ request'[j] \notin {"new", "stored"}
      BY <2>1 DEF InList
    <2>3. PlaceIs(j)'
      BY PlaceMeaningNext
    <2> QED
      BY <2>1, <2>2, <2>3 DEF PlaceIs
  <1>2. ASSUME NEW j \in Jobs \ js PROVE Place'[j] = Place[j]
    <2>1. InList(j)' <=> InList(j)
      BY DEF InList
    <2>2. CASE Held(j)' <=> Held(j)
      BY <1>0, <2>1, <2>2, StaysPut
    <2>3. CASE runs[j] # 0
      <3>1. PlaceIs(j)
        BY <1>0, PlaceMeaning
      <3>2. PlaceIs(j)'
        BY PlaceMeaningNext
      <3> QED
        BY <2>3, <3>1, <3>2 DEF PlaceIs
    <2> QED
      BY <2>2, <2>3
  <1>3. \A j \in Jobs : Place'[j] = IF j \in js THEN "lost" ELSE Place[j]
    BY <1>1, <1>2
  <1>4. Place' = [j \in Jobs |-> IF j \in js THEN "lost" ELSE Place[j]]
    BY <1>3, PlacesMove
  <1> QED
    BY <1>1, <1>4 DEF Promise!Lost

\* The last id of the list leaves it.
LEMMA PoppedId ==
    ASSUME DeliveryInv, TypeOK', queue # <<>>, queue' = Front(queue),
           UNCHANGED <<request, runs>>
    PROVE  \E j \in Jobs :
             /\ j = Last(queue) /\ runs[j] = 0 /\ Place[j] = "waiting" /\ ~InList(j)'
             /\ request[j] \in {"created", "refused"} /\ ~Held(j)
             /\ \A k \in Jobs \ {j} : InList(k)' <=> InList(k)
  <1>0. TypeOK /\ queue \in Seq(Jobs)
    BY DEF DeliveryInv, TypeOK
  <1>j. PICK j \in Jobs : j = Last(queue)
    BY <1>0, PoppedList
  <1>1. /\ Len(queue) \in Nat \ {0} /\ j = queue[Len(queue)]
        /\ Len(queue') = Len(queue) - 1 /\ \A n \in 1..(Len(queue) - 1) : queue'[n] = queue[n]
    BY <1>0, <1>j, PoppedList
  <1>2. Len(queue) \in 1..Len(queue)
    BY <1>1
  <1>3. runs[j] = 0 /\ request[j] \in {"created", "refused"} /\ ~Held(j) /\ InList(j)
    BY <1>1, <1>2 DEF DeliveryInv, QueuedOnce, Holds, Held, InList
  <1>4. ~InList(j)'
    <2>1. ASSUME NEW n \in 1..Len(queue'), queue'[n] = j PROVE FALSE
      <3>1. n \in 1..(Len(queue) - 1) /\ n \in 1..Len(queue) /\ n # Len(queue)
        BY <1>1
      <3> QED
        BY <1>1, <1>2, <2>1, <3>1 DEF DeliveryInv, QueuedOnce
    <2> QED
      BY <2>1 DEF InList
  <1>5. ASSUME NEW k \in Jobs \ {j} PROVE InList(k)' <=> InList(k)
    <2>1. ASSUME NEW n \in 1..Len(queue), queue[n] = k PROVE InList(k)'
      <3>1. n # Len(queue)
        BY <1>1, <2>1
      <3>2. n \in 1..(Len(queue) - 1) /\ n \in 1..Len(queue')
        BY <1>1, <3>1
      <3> QED
        BY <1>1, <2>1, <3>2 DEF InList
    <2>2. ASSUME NEW n \in 1..Len(queue'), queue'[n] = k PROVE InList(k)
      <3>1. n \in 1..(Len(queue) - 1) /\ n \in 1..Len(queue)
        BY <1>1
      <3> QED
        BY <1>1, <2>2, <3>1 DEF InList
    <2> QED
      BY <2>1, <2>2 DEF InList
  <1>6. Place[j] = "waiting"
    BY <1>0, <1>1, <1>3, PlaceMeaning DEF PlaceIs
  <1> QED
    BY <1>j, <1>3, <1>4, <1>5, <1>6

-----------------------------------------------------------------------------
\* The promise's next step, or none.
Keeps == Promise!PromiseNext \/ Place' = Place

\* The enqueueing requests and the expiry of records.
LEMMA RequestKeeps ==
    ASSUME DeliveryInv, TypeOK', NEW j \in Jobs,
           StoreJob(j) \/ PushJob(j) \/ EnqueueFails(j) \/ RecordExpires(j)
    PROVE  Keeps
  <1>0. TypeOK /\ request \in [Jobs -> {"new", "stored", "created", "refused"}]
    BY DEF DeliveryInv, TypeOK
  <1>1. CASE StoreJob(j)
    <2>1. UNCHANGED <<queue, runs, loop>> /\ request[j] = "new" /\ request' = [request EXCEPT ![j] = "stored"]
      BY <1>1 DEF StoreJob
    <2> QED
      BY <1>0, <2>1, NothingMoves DEF Keeps
  <1>2. CASE PushJob(j)
    BY <1>2, PushMoves DEF PushJob, Keeps, Promise!PromiseNext
  <1>3. CASE EnqueueFails(j)
    <2>1. /\ UNCHANGED <<runs, loop>> /\ request[j] \in {"new", "stored"}
          /\ request' = [request EXCEPT ![j] = "refused"]
      BY <1>3 DEF EnqueueFails
    <2>2. CASE request[j] = "stored" /\ queue' = <<j>> \o queue
      BY <2>1, <2>2, PushMoves DEF Keeps, Promise!PromiseNext
    <2>3. CASE UNCHANGED queue
      <3>1. runs[j] = 0 /\ ~InList(j) /\ ~Held(j) /\ Place[j] = "fresh"
        BY <2>1, OpenRequest
      <3>2. runs'[j] = 0 /\ ~InList(j)' /\ ~Held(j)' /\ request'[j] = "refused"
        BY <1>0, <2>1, <2>3, <3>1 DEF InList, Held
      <3>3. Place'[j] = "lost"
        BY <3>2, PlaceMeaningNext DEF PlaceIs
      <3>4. ASSUME NEW k \in Jobs \ {j} PROVE Place'[k] = Place[k]
        <4>1. (InList(k)' <=> InList(k)) /\ (Held(k)' <=> Held(k)) /\ request'[k] = request[k]
          BY <1>0, <2>1, <2>3 DEF InList, Held
        <4> QED
          BY <1>0, <2>1, <4>1, StaysPut
      <3> QED
        BY <3>1, <3>3, <3>4, OneMoves DEF Keeps, Promise!PromiseNext, Promise!Refused, Promise!Moves
    <2> QED
      BY <1>3, <2>2, <2>3 DEF EnqueueFails
  <1>4. CASE RecordExpires(j)
    <2>1. UNCHANGED <<queue, runs, loop, request>>
      BY <1>4 DEF RecordExpires
    <2> QED
      BY <1>0, <2>1, NothingMoves DEF Keeps
  <1> QED
    BY <1>1, <1>2, <1>3, <1>4

\* A loop goes on with the job it has, or with none.
LEMMA GoesKeeps ==
    ASSUME DeliveryInv, TypeOK', NEW l \in Loops, NEW where, Goes(l, where),
           UNCHANGED <<request, queue, runs>>
    PROVE  Keeps
  <1>1. TypeOK /\ \A k \in Loops : loop'[k].id = loop[k].id
    BY DEF DeliveryInv, TypeOK, Goes
  <1> QED
    BY <1>1, NothingMoves DEF Keeps

\* A loop starts its next iteration: the job it had is lost, unless it ran.
LEMMA ContinuesKeeps ==
    ASSUME DeliveryInv, TypeOK', NEW l \in Loops, Continues(l), UNCHANGED <<request, queue, runs>>
    PROVE  Keeps
  <1> DEFINE js == {j \in Jobs : loop[l].id = j /\ runs[j] = 0}
  <1>1. /\ loop'[l].id = NoJob /\ \A k \in Loops \ {l} : loop'[k] = loop[k]
    BY DEF DeliveryInv, TypeOK, Continues
  <1>2. ASSUME NEW j \in Jobs, loop[l].id = j PROVE ~Held(j)'
    <2>1. \A k \in Loops : loop'[k].id # j
      BY <1>1, <1>2, HeldJob, JobAssumption
    <2> QED
      BY <2>1 DEF Held
  <1>3. ASSUME NEW j \in Jobs, loop[l].id # j PROVE Held(j)' <=> Held(j)
    BY <1>1, <1>3, JobAssumption DEF Held
  <1>4. PICK lost \in SUBSET Jobs : lost = js
    OBVIOUS
  <1>5. Promise!Lost(lost)
    BY <1>2, <1>3, <1>4, LetGo
  <1> QED
    BY <1>5 DEF Keeps, Promise!PromiseNext

\* BRPOP hands a job to a loop, finds none, or loses one with its reply.
LEMMA PopKeeps ==
    ASSUME DeliveryInv, TypeOK', NEW l \in Loops, BrPop(l) \/ PopFails(l)
    PROVE  Keeps
  <1>0. TypeOK /\ UNCHANGED <<request, runs>> /\ loop[l].pc = "pop" /\ loop \in [Loops -> LoopState]
    BY DEF DeliveryInv, TypeOK, BrPop, PopFails
  <1>1. CASE UNCHANGED queue /\ Continues(l)
    BY <1>0, <1>1, ContinuesKeeps
  <1>2. CASE queue # <<>> /\ queue' = Front(queue)
    <2>1. PICK j \in Jobs :
             /\ j = Last(queue) /\ runs[j] = 0 /\ Place[j] = "waiting" /\ ~InList(j)'
             /\ request[j] \in {"created", "refused"} /\ ~Held(j)
             /\ \A k \in Jobs \ {j} : InList(k)' <=> InList(k)
      BY <1>0, <1>2, PoppedId
    <2>2. loop[l].id = NoJob
      BY <1>0 DEF DeliveryInv, HeldOnce, HeldOK
    <2>3. \/ loop' = [loop EXCEPT ![l] = [pc |-> "load", id |-> j]]
          \/ loop' = [loop EXCEPT ![l] = [pc |-> "top", id |-> NoJob]]
      BY <1>2, <2>1 DEF BrPop, PopFails, Continues
    <2>4. ASSUME NEW k \in Jobs \ {j} PROVE Place'[k] = Place[k]
      <3>1. Held(k)' <=> Held(k)
        BY <1>0, <2>2, <2>3, JobAssumption DEF Held
      <3> QED
        BY <1>0, <2>1, <3>1, StaysPut
    <2>5. CASE loop' = [loop EXCEPT ![l] = [pc |-> "load", id |-> j]]
      <3>1. Held(j)' /\ runs'[j] = 0
        BY <1>0, <2>1, <2>5 DEF Held
      <3>2. Place'[j] = "taken"
        BY <2>1, <3>1, PlaceMeaningNext DEF PlaceIs
      <3> QED
        BY <2>1, <2>4, <3>2, OneMoves DEF Keeps, Promise!PromiseNext, Promise!Taken, Promise!Moves
    <2>6. CASE loop' = [loop EXCEPT ![l] = [pc |-> "top", id |-> NoJob]]
      <3>1. ~Held(j)' /\ runs'[j] = 0 /\ request'[j] \notin {"new", "stored"}
        BY <1>0, <2>1, <2>6, JobAssumption DEF Held
      <3>2. Place'[j] = "lost"
        BY <2>1, <3>1, PlaceMeaningNext DEF PlaceIs
      <3>3. \A k \in Jobs : Place'[k] = IF k \in {j} THEN "lost" ELSE Place[k]
        BY <2>4, <3>2
      <3>4. Promise!Lost({j})
        BY <2>1, <3>3, PlacesMove DEF Promise!Lost
      <3>5. {j} \in SUBSET Jobs
        OBVIOUS
      <3> QED
        BY <3>4, <3>5 DEF Keeps, Promise!PromiseNext
    <2> QED
      BY <2>3, <2>5, <2>6
  <1> QED
    BY <1>1, <1>2 DEF BrPop, PopFails

\* The handler of a job runs.
LEMMA ProcessKeeps ==
    ASSUME DeliveryInv, TypeOK', NEW l \in Loops, ProcessJob(l)
    PROVE  Keeps
  <1>0. TypeOK /\ HeldOK(loop[l]) /\ loop[l] \in LoopState /\ loop[l].pc = "process"
    BY DEF DeliveryInv, TypeOK, HeldOnce, ProcessJob
  <1>1. PICK j \in Jobs : j = loop[l].id
    BY <1>0 DEF HeldOK
  <1>2. runs[j] = 0 /\ Place[j] = "taken"
    BY <1>0, <1>1, HeldJob DEF HeldOK
  <1>3. /\ runs' = [runs EXCEPT ![j] = runs[j] + 1] /\ UNCHANGED <<request, queue>>
        /\ \A k \in Loops : loop'[k].id = loop[k].id
    BY <1>0, <1>1 DEF ProcessJob, Goes, TypeOK
  <1>4. Place'[j] = "ran"
    <2>1. runs'[j] = runs[j] + 1
      BY <1>0, <1>3 DEF TypeOK
    <2>2. runs'[j] # 0
      BY <1>2, <2>1
    <2> QED
      BY <2>2, PlaceMeaningNext DEF PlaceIs
  <1>5. ASSUME NEW k \in Jobs \ {j} PROVE Place'[k] = Place[k]
    <2>1. (InList(k)' <=> InList(k)) /\ (Held(k)' <=> Held(k)) /\ runs'[k] = runs[k]
      BY <1>0, <1>3 DEF InList, Held, TypeOK
    <2> QED
      BY <1>0, <1>3, <2>1, StaysPut
  <1> QED
    BY <1>2, <1>4, <1>5, OneMoves DEF Keeps, Promise!PromiseNext, Promise!Run, Promise!Moves

\* Starting, stopping and losing the worker, and the other steps of a loop.
LEMMA WorkerKeeps ==
    ASSUME DeliveryInv, TypeOK',
           \/ StartJobWorker \/ StopJobWorker \/ WorkerCrashes
           \/ \E l \in Loops : \/ WhileRunning(l) \/ LoadJob(l) \/ MarkRunning(l)
                               \/ MarkCompleted(l) \/ MarkFailed(l) \/ CommandFails(l)
    PROVE  Keeps
  <1>0. TypeOK
    BY DEF DeliveryInv
  <1>1. CASE StartJobWorker
    BY <1>1, GoesKeeps DEF StartJobWorker
  <1>2. CASE StopJobWorker
    BY <1>0, <1>2, NothingMoves DEF StopJobWorker, Keeps
  <1>3. CASE WorkerCrashes
    <2>1. UNCHANGED <<request, queue, runs>> /\ \A l \in Loops : loop'[l].id = NoJob
      BY <1>3 DEF WorkerCrashes, Idle
    <2>2. \A j \in Jobs : ~Held(j)'
      BY <2>1, JobAssumption DEF Held
    <2>3. PICK lost \in SUBSET Jobs : lost = {j \in Jobs : Held(j) /\ runs[j] = 0}
      OBVIOUS
    <2>4. Promise!Lost(lost)
      <3>1. \A j \in lost : runs[j] = 0 /\ (\E l \in Loops : loop[l].id = j) /\ ~Held(j)'
        BY <2>2, <2>3 DEF Held
      <3>2. \A j \in Jobs \ lost : runs[j] # 0 \/ (Held(j)' <=> Held(j))
        BY <2>2, <2>3
      <3> QED
        BY <2>1, <3>1, <3>2, LetGo
    <2> QED
      BY <2>4 DEF Keeps, Promise!PromiseNext
  <1>4. ASSUME NEW l \in Loops, \/ WhileRunning(l) \/ LoadJob(l) \/ MarkRunning(l)
                               \/ MarkCompleted(l) \/ MarkFailed(l) \/ CommandFails(l)
        PROVE  Keeps
    <2>1. UNCHANGED <<request, queue, runs>>
      BY <1>4 DEF WhileRunning, LoadJob, MarkRunning, MarkCompleted, MarkFailed, CommandFails
    <2>2. Continues(l) \/ \E where \in {"pop", "off", "mark", "process", "inner", "outer"} : Goes(l, where)
      BY <1>4 DEF WhileRunning, LoadJob, MarkRunning, MarkCompleted, MarkFailed, CommandFails
    <2> QED
      BY <2>1, <2>2, GoesKeeps, ContinuesKeeps
  <1> QED
    BY <1>1, <1>2, <1>3, <1>4

\* QueuePromise: the queue and its worker implement JobPromise.  Whatever commands
\* fail and whichever worker dies, a job goes from waiting to taken to run, is run
\* once, and never comes back (jobQueue.ts, lines 60-86; jobWorker.ts, lines 106-160).
THEOREM QueueKeepsItsPromise == Spec => QueuePromise
  <1>1. Init => Promise!PromiseInit
    <2> SUFFICES ASSUME Init PROVE Promise!PromiseInit
      OBVIOUS
    <2>1. DeliveryInv /\ \A j \in Jobs : request[j] = "new"
      BY InitDelivery DEF Init
    <2>2. \A j \in Jobs : Place[j] = "fresh"
      BY <2>1, OpenRequest
    <2>3. Place = [j \in Jobs |-> Place[j]]
      BY DEF Place
    <2> QED
      BY <2>2, <2>3 DEF Promise!PromiseInit
  <1>2. DeliveryInv /\ DeliveryInv' /\ [Next]_vars => [Promise!PromiseNext]_Place
    <2> SUFFICES ASSUME DeliveryInv, DeliveryInv', [Next]_vars PROVE Keeps
      BY DEF Keeps
    <2>0. TypeOK /\ TypeOK'
      BY DEF DeliveryInv
    <2>1. CASE UNCHANGED vars
      BY <2>0, <2>1, NothingMoves DEF vars, Keeps
    <2>2. CASE Next
      BY <2>0, <2>2, RequestKeeps, PopKeeps, ProcessKeeps, WorkerKeeps DEF Next, LoopStep
    <2> QED
      BY <2>1, <2>2
  <1> QED
    BY <1>1, <1>2, JobsInOnePlace, PTL DEF Spec, QueuePromise, Promise!PromiseSpec

=============================================================================

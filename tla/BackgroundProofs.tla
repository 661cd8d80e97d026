--------------------------- MODULE BackgroundProofs ---------------------------
(***************************************************************************)
(* The jobs that work on the database and the cloud behind the API, for    *)
(* any number of runs, callers, records and faults: the comparison with    *)
(* the chain, the notification job, the verification of backups, the       *)
(* status service, the backfill and the migrations at start-up.  Each part *)
(* has its inductive invariant, one lemma per action and the theorem.      *)
(***************************************************************************)
EXTENDS ChainReconciliation, NotificationJob, BackupVerify, StatusService, Backfill,
        Migrations, FiniteSetTheorems, SequenceTheorems, TLAPS

-----------------------------------------------------------------------------
(* The comparison with the chain.                                          *)

ChainRun == [pc : {"none", "compare", "save", "commit", "failed", "done"}, dryRun : BOOLEAN,
             active : Nat, other : Nat, found : Nat, alerted : BOOLEAN]

ChainTypeOK ==
    /\ rpcThrows \in BOOLEAN
    /\ chainRun \in [ChainRuns -> ChainRun]
    /\ failureRows \in [ChainRuns -> Nat]
    /\ runRow \in [ChainRuns -> [status : {"none", "completed", "failed"}, failures : Nat]]

Completed(found) == [status |-> "completed", failures |-> found]

\* What run, its rows and its record say of one another.  While a run compares, and
\* in all of a dry run, nothing of it is in the database.  From the insert of the
\* record to COMMIT the record is there and the rows are not.  A failed run has the
\* record only if it came that far, and rows only with the record.
OnRecord(run, rows, record) ==
    /\ run.pc \in {"none", "compare", "save"} \/ run.dryRun => rows = 0 /\ record = NoRun
    /\ run.pc = "commit" /\ ~run.dryRun => rows = 0 /\ record = Completed(run.found)
    /\ run.pc = "failed" => record \in {NoRun, Completed(run.found)}
    /\ rows > 0 => rows = run.found /\ record = Completed(run.found)

ChainInv ==
    /\ ChainTypeOK
    /\ \A j \in ChainRuns : OnRecord(chainRun[j], failureRows[j], runRow[j])

LEMMA ChainInitial == ChainInit => ChainInv
<1> SUFFICES ASSUME ChainInit PROVE ChainInv OBVIOUS
<1>1. \A j \in ChainRuns : failureRows[j] = 0 /\ runRow[j] = NoRun
  BY DEF ChainInit
<1>2. \A d \in BOOLEAN :
         [pc |-> "none", dryRun |-> d, active |-> ActiveStreams, other |-> OtherStreams,
          found |-> 0, alerted |-> FALSE] \in ChainRun
  BY ChainAssumption DEF ChainRun
<1>3. \A j \in ChainRuns : chainRun[j] \in ChainRun /\ chainRun[j].pc = "none"
  BY <1>2 DEF ChainInit
<1>4. chainRun \in [ChainRuns -> ChainRun]
  BY <1>2 DEF ChainInit
<1>5. ChainTypeOK
  BY <1>4 DEF ChainInit, ChainTypeOK, NoRun
<1>6. QED BY <1>1, <1>3, <1>5 DEF ChainInv, OnRecord

\* A step that rewrites the run, the rows and the record of j only.
ChainChange(j, run, rows, record) ==
    /\ rpcThrows' = rpcThrows
    /\ chainRun' = [chainRun EXCEPT ![j] = run] /\ run \in ChainRun
    /\ failureRows' = [failureRows EXCEPT ![j] = rows] /\ rows \in Nat
    /\ runRow' = [runRow EXCEPT ![j] = record]
    /\ record \in [status : {"none", "completed", "failed"}, failures : Nat]
    /\ OnRecord(run, rows, record)

LEMMA ChainOneRun ==
    ASSUME ChainInv, NEW j \in ChainRuns, NEW run, NEW rows, NEW record,
           ChainChange(j, run, rows, record)
    PROVE  ChainInv'
<1> USE DEF ChainChange
<1>1. ChainTypeOK' BY DEF ChainInv, ChainTypeOK
<1>2. \A k \in ChainRuns : k # j =>
         /\ chainRun'[k] = chainRun[k] /\ failureRows'[k] = failureRows[k] /\ runRow'[k] = runRow[k]
  BY DEF ChainInv, ChainTypeOK
<1>3. chainRun'[j] = run /\ failureRows'[j] = rows /\ runRow'[j] = record
  BY DEF ChainInv, ChainTypeOK
<1>4. \A k \in ChainRuns : OnRecord(chainRun'[k], failureRows'[k], runRow'[k])
  BY <1>2, <1>3 DEF ChainInv
<1>5. QED BY <1>1, <1>4 DEF ChainInv

\* The parts of the run, the rows and the record of j before a step.
LEMMA ChainBefore ==
    ASSUME ChainInv, NEW j \in ChainRuns
    PROVE  /\ chainRun[j] \in ChainRun /\ failureRows[j] \in Nat
           /\ runRow[j] \in [status : {"none", "completed", "failed"}, failures : Nat]
           /\ OnRecord(chainRun[j], failureRows[j], runRow[j])
           /\ failureRows = [failureRows EXCEPT ![j] = failureRows[j]]
           /\ runRow = [runRow EXCEPT ![j] = runRow[j]]
BY DEF ChainInv, ChainTypeOK

LEMMA ChainStart == ASSUME ChainInv, NEW j \in ChainRuns, StartRun(j) PROVE ChainInv'
<1> DEFINE run == [chainRun[j] EXCEPT !.pc = "compare"]
<1>1. chainRun' = [chainRun EXCEPT ![j] = run] BY DEF StartRun, ChainInv, ChainTypeOK
<1>2. run \in ChainRun /\ run.pc = "compare" BY ChainBefore DEF ChainRun
<1>3. OnRecord(run, failureRows[j], runRow[j])
  BY <1>2, ChainBefore DEF OnRecord, StartRun
<1> HIDE DEF run
<1>4. ChainChange(j, run, failureRows[j], runRow[j])
  BY <1>1, <1>2, <1>3, ChainBefore DEF ChainChange, StartRun
<1>5. QED BY <1>4, ChainBefore, ChainOneRun

LEMMA ChainCompare ==
    ASSUME ChainInv, NEW j \in ChainRuns, NEW kind \in {"active", "other"}, CompareStream(j, kind)
    PROVE  ChainInv'
<1> DEFINE more == IF kind = "active" \/ rpcThrows THEN 1 ELSE 0
           run == [chainRun[j] EXCEPT ![kind] = @ - 1, !.found = @ + more]
<1>1. chainRun' = [chainRun EXCEPT ![j] = run]
  <2>1. CASE kind = "active" BY <2>1 DEF CompareStream, ChainInv, ChainTypeOK, ChainRun
  <2>2. CASE kind = "other" BY <2>2 DEF CompareStream, ChainInv, ChainTypeOK, ChainRun
  <2>3. QED BY <2>1, <2>2
<1>2. more \in Nat OBVIOUS
<1> HIDE DEF more
<1>3. run \in ChainRun
  <2>1. CASE kind = "active"
    <3>1. run = [chainRun[j] EXCEPT !.active = @ - 1, !.found = @ + more] BY <2>1
    <3>2. chainRun[j].active - 1 \in Nat /\ chainRun[j].found + more \in Nat
      BY <1>2, <2>1, ChainBefore DEF CompareStream, ChainRun
    <3> HIDE DEF run
    <3>3. QED BY <3>1, <3>2, ChainBefore DEF ChainRun
  <2>2. CASE kind = "other"
    <3>1. run = [chainRun[j] EXCEPT !.other = @ - 1, !.found = @ + more] BY <2>2
    <3>2. chainRun[j].other - 1 \in Nat /\ chainRun[j].found + more \in Nat
      BY <1>2, <2>2, ChainBefore DEF CompareStream, ChainRun
    <3> HIDE DEF run
    <3>3. QED BY <3>1, <3>2, ChainBefore DEF ChainRun
  <2>3. QED BY <2>1, <2>2
<1>4. run.pc = "compare"
  BY ChainBefore DEF ChainRun, CompareStream
<1>5. OnRecord(run, failureRows[j], runRow[j])
  <2>1. failureRows[j] = 0 /\ runRow[j] = NoRun BY ChainBefore DEF OnRecord, CompareStream
  <2>2. QED BY <1>4, <2>1 DEF OnRecord
<1> HIDE DEF run
<1>6. ChainChange(j, run, failureRows[j], runRow[j])
  BY <1>1, <1>3, <1>5, ChainBefore DEF ChainChange, CompareStream
<1>7. QED BY <1>6, ChainBefore, ChainOneRun

LEMMA ChainRecordFails == ASSUME ChainInv, NEW j \in ChainRuns, RecordFails(j) PROVE ChainInv'
<1> DEFINE more == IF rpcThrows THEN 1 ELSE 2
           run == [chainRun[j] EXCEPT !.pc = "failed", !.found = @ + more]
<1>1. chainRun' = [chainRun EXCEPT ![j] = run] BY DEF RecordFails, ChainInv, ChainTypeOK, ChainRun
<1>2. more \in Nat OBVIOUS
<1> HIDE DEF more
<1>3. run \in ChainRun /\ run.pc = "failed"
  <2>1. chainRun[j].found + more \in Nat BY <1>2, ChainBefore DEF ChainRun
  <2>2. QED BY <2>1, ChainBefore DEF ChainRun
<1>4. OnRecord(run, failureRows[j], runRow[j])
  <2>1. failureRows[j] = 0 /\ runRow[j] = NoRun BY ChainBefore DEF OnRecord, RecordFails
  <2>2. QED BY <1>3, <2>1 DEF OnRecord
<1> HIDE DEF run
<1>5. ChainChange(j, run, failureRows[j], runRow[j])
  BY <1>1, <1>3, <1>4, ChainBefore DEF ChainChange, RecordFails
<1>6. QED BY <1>5, ChainBefore, ChainOneRun

LEMMA ChainAlert == ASSUME ChainInv, NEW j \in ChainRuns, SendSlackAlert(j) PROVE ChainInv'
<1> DEFINE alert == chainRun[j].found > 0
           run == [chainRun[j] EXCEPT !.pc = "save", !.alerted = alert]
<1>1. chainRun' = [chainRun EXCEPT ![j] = run] BY DEF SendSlackAlert, ChainInv, ChainTypeOK, ChainRun
<1>2. run \in ChainRun /\ run.pc = "save"
  <2>1. CASE alert
    <3>1. run = [chainRun[j] EXCEPT !.pc = "save", !.alerted = TRUE] BY <2>1
    <3>2. QED BY <3>1, ChainBefore DEF ChainRun
  <2>2. CASE ~alert
    <3>0. alert = FALSE BY <2>2
    <3> HIDE DEF alert
    <3>1. run = [chainRun[j] EXCEPT !.pc = "save", !.alerted = FALSE] BY <3>0
    <3>2. QED BY <3>1, ChainBefore DEF ChainRun
  <2>3. QED BY <2>1, <2>2
<1> HIDE DEF run
<1>3. OnRecord(run, failureRows[j], runRow[j])
  BY <1>2, ChainBefore DEF OnRecord, SendSlackAlert
<1>4. ChainChange(j, run, failureRows[j], runRow[j])
  BY <1>1, <1>2, <1>3, ChainBefore DEF ChainChange, SendSlackAlert
<1>5. QED BY <1>4, ChainBefore, ChainOneRun

LEMMA ChainSave == ASSUME ChainInv, NEW j \in ChainRuns, SaveReconciliationRun(j) PROVE ChainInv'
<1> DEFINE run == [chainRun[j] EXCEPT !.pc = "commit"]
           record == IF chainRun[j].dryRun THEN runRow[j] ELSE Completed(chainRun[j].found)
<1>1. /\ chainRun' = [chainRun EXCEPT ![j] = run]
      /\ runRow' = [runRow EXCEPT ![j] = record]
  BY ChainBefore DEF SaveReconciliationRun, ChainInv, ChainTypeOK, ChainRun, Completed
<1>2. /\ run \in ChainRun /\ run.pc = "commit" /\ run.dryRun = chainRun[j].dryRun
      /\ run.found = chainRun[j].found
  BY ChainBefore DEF ChainRun
<1>3. record \in [status : {"none", "completed", "failed"}, failures : Nat]
  BY ChainBefore DEF Completed, ChainRun
<1>4. OnRecord(run, failureRows[j], record)
  BY <1>2, ChainBefore DEF OnRecord, SaveReconciliationRun
<1> HIDE DEF run, record
<1>5. ChainChange(j, run, failureRows[j], record)
  BY <1>1, <1>2, <1>3, <1>4, ChainBefore DEF ChainChange, SaveReconciliationRun
<1>6. QED BY <1>5, ChainBefore, ChainOneRun

LEMMA ChainEnd == ASSUME ChainInv, NEW j \in ChainRuns, EndTransaction(j) PROVE ChainInv'
<1> DEFINE run == [chainRun[j] EXCEPT !.pc = "done"]
           rows == IF chainRun[j].dryRun THEN failureRows[j] ELSE chainRun[j].found
<1>1. /\ chainRun' = [chainRun EXCEPT ![j] = run]
      /\ failureRows' = [failureRows EXCEPT ![j] = rows]
  BY ChainBefore DEF EndTransaction, ChainInv, ChainTypeOK, ChainRun
<1>2. /\ run \in ChainRun /\ run.pc = "done" /\ run.dryRun = chainRun[j].dryRun
      /\ run.found = chainRun[j].found
  BY ChainBefore DEF ChainRun
<1>3. rows \in Nat BY ChainBefore DEF ChainRun
<1>4. OnRecord(run, rows, runRow[j])
  BY <1>2, ChainBefore DEF OnRecord, EndTransaction
<1> HIDE DEF run, rows
<1>5. ChainChange(j, run, rows, runRow[j])
  BY <1>1, <1>2, <1>3, <1>4, ChainBefore DEF ChainChange, EndTransaction
<1>6. QED BY <1>5, ChainBefore, ChainOneRun

LEMMA ChainQueryFails == ASSUME ChainInv, NEW j \in ChainRuns, QueryFails(j) PROVE ChainInv'
<1> DEFINE run == [chainRun[j] EXCEPT !.pc = "failed"]
<1>1. chainRun' = [chainRun EXCEPT ![j] = run] BY DEF QueryFails, ChainInv, ChainTypeOK, ChainRun
<1>2. /\ run \in ChainRun /\ run.pc = "failed" /\ run.dryRun = chainRun[j].dryRun
      /\ run.found = chainRun[j].found
  BY ChainBefore DEF ChainRun
<1>3. PICK rows \in Nat :
         /\ failureRows' = [failureRows EXCEPT ![j] = rows]
         /\ \/ rows = failureRows[j]
            \/ rows = chainRun[j].found /\ chainRun[j].pc = "commit" /\ ~chainRun[j].dryRun
  BY ChainBefore DEF QueryFails, ChainRun
<1>4. OnRecord(run, rows, runRow[j])
  BY <1>2, <1>3, ChainBefore DEF OnRecord, QueryFails
<1> HIDE DEF run
<1>5. ChainChange(j, run, rows, runRow[j])
  BY <1>1, <1>2, <1>3, <1>4, ChainBefore DEF ChainChange, QueryFails
<1>6. QED BY <1>5, ChainBefore, ChainOneRun

LEMMA ChainFail ==
    ASSUME ChainInv, NEW j \in ChainRuns, NEW saves \in BOOLEAN, FailRun(j, saves)
    PROVE  ChainInv'
<1> DEFINE run == [chainRun[j] EXCEPT !.pc = "done"]
           failed == [status |-> "failed", failures |-> chainRun[j].found]
           record == IF saves /\ ~chainRun[j].dryRun /\ runRow[j] = NoRun THEN failed ELSE runRow[j]
<1>1. /\ chainRun' = [chainRun EXCEPT ![j] = run]
      /\ runRow' = [runRow EXCEPT ![j] = record]
  BY ChainBefore DEF FailRun, ChainInv, ChainTypeOK, ChainRun
<1>2. /\ run \in ChainRun /\ run.pc = "done" /\ run.dryRun = chainRun[j].dryRun
      /\ run.found = chainRun[j].found
  BY ChainBefore DEF ChainRun
<1>3. record \in [status : {"none", "completed", "failed"}, failures : Nat]
  BY ChainBefore DEF ChainRun
<1>4. OnRecord(run, failureRows[j], record)
  BY <1>2, ChainBefore DEF OnRecord, FailRun, NoRun, Completed
<1> HIDE DEF run, record
<1>5. ChainChange(j, run, failureRows[j], record)
  BY <1>1, <1>2, <1>3, <1>4, ChainBefore DEF ChainChange, FailRun
<1>6. QED BY <1>5, ChainBefore, ChainOneRun

LEMMA ChainStep == ChainInv /\ [ChainNext]_chainVars => ChainInv'
<1> SUFFICES ASSUME ChainInv, [ChainNext]_chainVars PROVE ChainInv' OBVIOUS
<1>1. CASE UNCHANGED chainVars BY <1>1 DEF chainVars, ChainInv, ChainTypeOK
<1>2. CASE ChainNext
  <2>1. PICK j \in ChainRuns :
           \/ StartRun(j) \/ RecordFails(j) \/ SendSlackAlert(j) \/ SaveReconciliationRun(j)
           \/ EndTransaction(j) \/ QueryFails(j)
           \/ \E kind \in {"active", "other"} : CompareStream(j, kind)
           \/ \E saves \in BOOLEAN : FailRun(j, saves)
    BY <1>2 DEF ChainNext
  <2>2. QED BY <2>1, ChainStart, ChainRecordFails, ChainAlert, ChainSave, ChainEnd, ChainQueryFails,
               ChainCompare, ChainFail
<1>3. QED BY <1>1, <1>2

\* The record of a run is inserted outside the transaction that holds its mismatches,
\* and still no mismatch is in the table without a record that counts it, whichever
\* query fails and however often; a dry run leaves nothing (reconciliationJob.ts).
THEOREM MismatchesAreOnRecord == ChainSpec => []MismatchesOnRecord
<1>1. ChainInv => MismatchesOnRecord
  BY DEF ChainInv, ChainTypeOK, OnRecord, MismatchesOnRecord, Completed, ChainRun
<1>2. QED BY <1>1, ChainInitial, ChainStep, PTL DEF ChainSpec

-----------------------------------------------------------------------------
(* The notification job.                                                   *)

Execution == [pc : {"idle", "query", "dispatch", "release"}, rows : SUBSET NoticeStreams, tries : Nat]

\* As long as no lock expired under a working execution, the lock is there when one
\* is at work, and it is the only one.
NoticeInv ==
    /\ execution \in [Executions -> Execution]
    /\ ~outlived => \A p \in Executions : AtWork(p) => jobLock /\ \A q \in Executions : AtWork(q) => q = p

LEMMA NoticeInitial == NoticeInit => NoticeInv
BY DEF NoticeInit, NoticeInv, NotStarted, AtWork, Execution

\* A step of an execution at work that stays at work changes nothing of this.
LEMMA NoticeWorkGoesOn ==
    ASSUME NoticeInv, NEW p \in Executions, NEW e \in Execution, AtWork(p), e.pc # "idle",
           execution' = [execution EXCEPT ![p] = e], UNCHANGED <<jobLock, outlived>>
    PROVE  NoticeInv'
<1>1. execution' \in [Executions -> Execution] BY DEF NoticeInv
<1>2. \A q \in Executions : AtWork(q)' <=> AtWork(q) BY DEF NoticeInv, AtWork
<1>3. QED BY <1>1, <1>2 DEF NoticeInv

\* An execution that ends leaves nobody at work, unless a lock was outlived and others
\* still are.
LEMMA NoticeEnded == ASSUME NoticeInv, NEW p \in Executions, AtWork(p), Ended(p) PROVE NoticeInv'
<1>1. execution' \in [Executions -> Execution]
  BY DEF NoticeInv, Ended, NotStarted, Execution
<1>2. \A q \in Executions : AtWork(q)' => q # p /\ AtWork(q)
  BY DEF NoticeInv, Ended, AtWork, NotStarted
<1>3. ASSUME ~outlived', NEW q \in Executions, AtWork(q)' PROVE FALSE
  <2>1. q \in Others(p) BY <1>2, <1>3 DEF Others
  <2>2. ~outlived BY <1>3, <2>1 DEF Ended
  <2>3. QED BY <1>2, <1>3, <2>2 DEF NoticeInv
<1>4. QED BY <1>1, <1>3 DEF NoticeInv

LEMMA NoticeTake == ASSUME NoticeInv, NEW p \in Executions, TakeJobLock(p) PROVE NoticeInv'
<1>1. execution' \in [Executions -> Execution]
  <2>1. [execution[p] EXCEPT !.pc = "query"] \in Execution BY DEF NoticeInv, Execution
  <2>2. QED BY <2>1 DEF NoticeInv, TakeJobLock
<1>2. \A q \in Executions : q # p => (AtWork(q)' <=> AtWork(q))
  BY DEF NoticeInv, TakeJobLock, AtWork
<1>3. ASSUME ~outlived', NEW q \in Executions, AtWork(q)' PROVE q = p
  BY <1>2, <1>3 DEF NoticeInv, TakeJobLock
<1>4. QED BY <1>1, <1>3 DEF NoticeInv, TakeJobLock

LEMMA NoticeTakeFails == ASSUME NoticeInv, NEW p \in Executions, TakeJobLockFails(p) PROVE NoticeInv'
BY DEF NoticeInv, TakeJobLockFails, AtWork

LEMMA NoticeFetch ==
    ASSUME NoticeInv, NEW p \in Executions, NEW rows \in SUBSET NoticeStreams,
           FetchUpcomingNotifications(p, rows)
    PROVE  NoticeInv'
<1>1. [pc |-> "dispatch", rows |-> rows, tries |-> 0] \in Execution BY DEF Execution
<1>2. QED BY <1>1, NoticeWorkGoesOn DEF FetchUpcomingNotifications, AtWork

LEMMA NoticeToRelease ==
    ASSUME NoticeInv, NEW p \in Executions, FetchFails(p) \/ DispatchDone(p)
    PROVE  NoticeInv'
<1> DEFINE e == [execution[p] EXCEPT !.pc = "release"]
<1>1. e \in Execution /\ e.pc # "idle" BY DEF NoticeInv, Execution
<1>2. /\ AtWork(p) /\ UNCHANGED <<jobLock, outlived>>
      /\ execution' = [execution EXCEPT ![p] = e]
  BY DEF FetchFails, DispatchDone, AtWork, NoticeInv
<1> HIDE DEF e
<1>3. QED BY <1>1, <1>2, NoticeWorkGoesOn

LEMMA NoticeDispatch ==
    ASSUME NoticeInv, NEW p \in Executions, NEW s \in NoticeStreams, DispatchNotification(p, s)
    PROVE  NoticeInv'
<1> DEFINE e == [execution[p] EXCEPT !.rows = @ \ {s}, !.tries = 0]
<1>1. e \in Execution /\ e.pc # "idle" BY DEF NoticeInv, Execution, DispatchNotification
<1>2. /\ AtWork(p) /\ UNCHANGED <<jobLock, outlived>>
      /\ execution' = [execution EXCEPT ![p] = e]
  BY DEF DispatchNotification, AtWork, NoticeInv
<1> HIDE DEF e
<1>3. QED BY <1>1, <1>2, NoticeWorkGoesOn

LEMMA NoticeRetry == ASSUME NoticeInv, NEW p \in Executions, SendWebhookRetries(p) PROVE NoticeInv'
<1> DEFINE e == [execution[p] EXCEPT !.tries = @ + 1]
<1>1. e \in Execution /\ e.pc # "idle" BY DEF NoticeInv, Execution, SendWebhookRetries
<1>2. /\ AtWork(p) /\ UNCHANGED <<jobLock, outlived>>
      /\ execution' = [execution EXCEPT ![p] = e]
  BY DEF SendWebhookRetries, AtWork, NoticeInv
<1> HIDE DEF e
<1>3. QED BY <1>1, <1>2, NoticeWorkGoesOn

LEMMA NoticeExpires == ASSUME NoticeInv, LockExpires PROVE NoticeInv'
BY DEF NoticeInv, LockExpires, AtWork

LEMMA NoticeStep == NoticeInv /\ [NoticeNext]_noticeVars => NoticeInv'
<1> SUFFICES ASSUME NoticeInv, [NoticeNext]_noticeVars PROVE NoticeInv' OBVIOUS
<1>1. CASE UNCHANGED noticeVars BY <1>1 DEF noticeVars, NoticeInv, AtWork
<1>2. CASE LockExpires BY <1>2, NoticeExpires
<1>3. ASSUME NEW p \in Executions,
             \/ TakeJobLock(p) \/ TakeJobLockFails(p) \/ FetchFails(p) \/ ExecutionStep(p)
             \/ ExecutionDies(p)
      PROVE  NoticeInv'
  <2>1. CASE ReleaseJobLock(p) \/ ExecutionDies(p)
    BY <2>1, NoticeEnded DEF ReleaseJobLock, ExecutionDies, AtWork
  <2>2. CASE TakeJobLock(p) BY <2>2, NoticeTake
  <2>3. CASE TakeJobLockFails(p) BY <2>3, NoticeTakeFails
  <2>4. CASE FetchFails(p) \/ DispatchDone(p) BY <2>4, NoticeToRelease
  <2>5. CASE SendWebhookRetries(p) BY <2>5, NoticeRetry
  <2>6. ASSUME NEW rows \in SUBSET NoticeStreams, FetchUpcomingNotifications(p, rows) PROVE NoticeInv'
    BY <2>6, NoticeFetch
  <2>7. ASSUME NEW s \in NoticeStreams, DispatchNotification(p, s) PROVE NoticeInv'
    BY <2>7, NoticeDispatch
  <2>8. QED BY <1>3, <2>1, <2>2, <2>3, <2>4, <2>5, <2>6, <2>7 DEF ExecutionStep
<1>4. QED BY <1>1, <1>2, <1>3 DEF NoticeNext

\* Any number of processes run the job, lose answers of Redis, crash and release the
\* lock of another; two of them are at work together only after a lock expired under
\* one (processNotifications).
THEOREM OverlapsNeedExpiry == NoticeSpec => []OverlapNeedsExpiry
<1>1. ASSUME NoticeInv PROVE OverlapNeedsExpiry
  <2> DEFINE W == {p \in Executions : AtWork(p)}
  <2>1. CASE W = {} BY <2>1, FS_EmptySet DEF OverlapNeedsExpiry
  <2>2. CASE W # {} /\ ~outlived
    <3>1. PICK p \in Executions : W = {p} BY <1>1, <2>2 DEF NoticeInv
    <3> HIDE DEF W
    <3>2. Cardinality(W) = 1 BY <3>1, FS_Singleton
    <3>3. QED BY <3>2 DEF OverlapNeedsExpiry, W
  <2>3. QED BY <2>1, <2>2 DEF OverlapNeedsExpiry
<1>2. QED BY <1>1, NoticeInitial, NoticeStep, PTL DEF NoticeSpec

-----------------------------------------------------------------------------
(* The verification of backups.                                            *)

Lambda == [pc : {"idle", "strays", "restore", "wait", "count", "finally", "gone", "publish"},
           kind : {"none", "verify", "cleanup"}, run : Nat, strays : SUBSET Runs,
           instanceId : BOOLEAN, counted : Nat, ok : BOOLEAN]

BackupTypeOK ==
    /\ temporary \in [Runs -> {"none", "creating", "available", "failed", "deleting", "deleted"}]
    /\ lambda \in Lambda
    /\ verifies \in 0 .. MaxVerifies
    /\ verdict \in [Runs -> {-1, 0, 1}]

\* One execution at a time: a verification works on the last instance of all, and
\* between executions nothing is held in memory.
OwnRun ==
    /\ \A r \in Runs : r > verifies => temporary[r] = "none"
    /\ lambda.pc \in {"restore", "wait", "count", "finally", "gone", "publish"} => lambda.kind = "verify"
    /\ lambda.pc = "strays" => lambda.kind \in {"verify", "cleanup"}
    /\ lambda.kind = "verify" => lambda.run = verifies /\ lambda.run \in Runs
    /\ lambda.kind = "verify" /\ lambda.pc \in {"strays", "restore"} => temporary[lambda.run] = "none"
    /\ lambda.pc \in {"idle", "strays", "restore", "wait"} => ~lambda.instanceId /\ lambda.counted = 0
    /\ lambda.pc \in {"idle", "strays", "restore", "wait", "count"} => ~lambda.ok

\* What is left to delete: at most one instance; in the preflight it is on the list,
\* after it there is none, and from the restore on it is the one restored.
AtMostOneLeft ==
    /\ \A r, q \in Runs : Deletable(r) /\ Deletable(q) => r = q
    /\ lambda.pc = "strays" => \A r \in Runs : Deletable(r) => r \in lambda.strays
    /\ lambda.pc = "restore" => \A r \in Runs : ~Deletable(r)
    /\ lambda.pc \in {"wait", "count", "finally", "gone", "publish"} =>
          \A r \in Runs : Deletable(r) => r = lambda.run

\* What the execution believes of its instance is true of it.
InstanceTrue ==
    /\ lambda.pc = "wait" => Deletable(lambda.run)
    /\ lambda.pc = "count" => temporary[lambda.run] = "available" /\ lambda.instanceId
    /\ lambda.instanceId => temporary[lambda.run] \in {"available", "deleting", "deleted"}
    /\ lambda.ok => lambda.counted = ExpectedTables /\ lambda.instanceId
    /\ \A r \in Runs : verdict[r] = 1 => temporary[r] \in {"available", "deleting", "deleted"}

BackupInv == BackupTypeOK /\ OwnRun /\ AtMostOneLeft /\ InstanceTrue

LEMMA BackupInitial == BackupInit => BackupInv
BY BackupAssumption DEF BackupInit, BackupInv, BackupTypeOK, Lambda, NoExecution, OwnRun,
   AtMostOneLeft, InstanceTrue, Deletable, Runs

\* An execution ends without a verdict; its instance stays as it is, or is deleted.
LEMMA BackupLeaves ==
    ASSUME BackupInv, lambda' = NoExecution, UNCHANGED <<verifies, verdict>>,
           \/ temporary' = temporary
           \/ \E r \in Runs : temporary' = [temporary EXCEPT ![r] = "deleting"] /\ Deletable(r)
    PROVE  BackupInv'
<1>1. BackupTypeOK' BY DEF BackupInv, BackupTypeOK, Lambda, NoExecution
<1>2. /\ lambda'.pc = "idle" /\ lambda'.kind = "none" /\ lambda'.counted = 0
      /\ ~lambda'.instanceId /\ ~lambda'.ok
  BY DEF NoExecution
<1>3. \A r \in Runs : Deletable(r)' => Deletable(r)
  BY DEF BackupInv, BackupTypeOK, Deletable
<1>4. \A r \in Runs : temporary'[r] = temporary[r] \/ (Deletable(r) /\ temporary'[r] = "deleting")
  BY DEF BackupInv, BackupTypeOK
<1>5. OwnRun' BY <1>2, <1>4 DEF BackupInv, OwnRun, Deletable
<1>6. AtMostOneLeft' BY <1>2, <1>3 DEF BackupInv, AtMostOneLeft
<1>7. InstanceTrue' BY <1>2, <1>4 DEF BackupInv, InstanceTrue, Deletable
<1>8. QED BY <1>1, <1>5, <1>6, <1>7 DEF BackupInv

LEMMA BackupStart == ASSUME BackupInv, StartVerify \/ StartCleanup PROVE BackupInv'
<1>0. PICK kind \in {"verify", "cleanup"}, run \in 0 .. MaxVerifies :
         /\ lambda' = [pc |-> "strays", kind |-> kind, run |-> run, strays |-> ListStrays,
                       instanceId |-> FALSE, counted |-> 0, ok |-> FALSE]
         /\ verifies' \in 0 .. MaxVerifies /\ verifies' >= verifies
         /\ kind = "verify" => run = verifies' /\ run \in Runs /\ temporary[run] = "none"
  <2>1. CASE StartVerify
    <3>1. /\ verifies + 1 \in Runs /\ verifies' = verifies + 1
          /\ verifies' \in 0 .. MaxVerifies /\ verifies' >= verifies /\ temporary[verifies + 1] = "none"
      BY <2>1, BackupAssumption DEF StartVerify, BackupInv, BackupTypeOK, OwnRun, Runs
    <3>2. lambda' = [pc |-> "strays", kind |-> "verify", run |-> verifies + 1, strays |-> ListStrays,
                     instanceId |-> FALSE, counted |-> 0, ok |-> FALSE]
      BY <2>1 DEF StartVerify, NoExecution
    <3>3. QED BY <3>1, <3>2
  <2>2. CASE StartCleanup
    <3>1. /\ verifies' \in 0 .. MaxVerifies /\ verifies' >= verifies /\ 0 \in 0 .. MaxVerifies
      BY <2>2, BackupAssumption DEF StartCleanup, BackupInv, BackupTypeOK
    <3>2. lambda' = [pc |-> "strays", kind |-> "cleanup", run |-> 0, strays |-> ListStrays,
                     instanceId |-> FALSE, counted |-> 0, ok |-> FALSE]
      BY <2>2 DEF StartCleanup, NoExecution
    <3>3. QED BY <3>1, <3>2
  <2>3. QED BY <2>1, <2>2
<1>1. /\ temporary' = temporary /\ verdict' = verdict
      /\ lambda'.pc = "strays" /\ lambda'.strays = ListStrays /\ lambda'.counted = 0
      /\ ~lambda'.instanceId /\ ~lambda'.ok
  BY <1>0 DEF StartVerify, StartCleanup
<1>2. /\ lambda'.kind \in {"verify", "cleanup"}
      /\ lambda'.kind = "verify" => /\ lambda'.run = verifies' /\ lambda'.run \in Runs
                                   /\ temporary[lambda'.run] = "none"
  BY <1>0
<1>3. BackupTypeOK'
  <2>1. ListStrays \in SUBSET Runs BY DEF ListStrays
  <2>2. lambda' \in Lambda BY <1>0, <2>1 DEF Lambda
  <2>3. QED BY <1>0, <1>1, <2>2 DEF BackupInv, BackupTypeOK
<1>4. OwnRun' BY <1>0, <1>1, <1>2 DEF BackupInv, BackupTypeOK, OwnRun, Runs
<1>5. AtMostOneLeft' BY <1>1 DEF BackupInv, AtMostOneLeft, ListStrays, Listed, Deletable
<1>6. InstanceTrue' BY <1>1 DEF BackupInv, InstanceTrue
<1>7. QED BY <1>3, <1>4, <1>5, <1>6 DEF BackupInv

LEMMA BackupDeleteStray == ASSUME BackupInv, NEW r \in Runs, DeleteStray(r) PROVE BackupInv'
<1>1. /\ lambda'.pc = "strays" /\ lambda'.strays = lambda.strays \ {r} /\ lambda'.counted = lambda.counted
      /\ lambda'.kind = lambda.kind /\ lambda'.run = lambda.run /\ lambda' \in Lambda
      /\ ~lambda'.instanceId /\ ~lambda'.ok
  BY DEF DeleteStray, At, BackupInv, BackupTypeOK, Lambda, OwnRun
<1>2. BackupTypeOK' BY <1>1 DEF DeleteStray, BackupInv, BackupTypeOK
<1>3. /\ temporary'[r] = "deleting" /\ \A q \in Runs : q # r => temporary'[q] = temporary[q]
  BY DEF DeleteStray, BackupInv, BackupTypeOK
<1>4. OwnRun' BY <1>1, <1>3 DEF DeleteStray, At, BackupInv, OwnRun, Deletable
<1>5. AtMostOneLeft' BY <1>1, <1>3 DEF DeleteStray, At, BackupInv, AtMostOneLeft, Deletable
<1>6. InstanceTrue' BY <1>1, <1>3 DEF DeleteStray, At, BackupInv, InstanceTrue
<1>7. QED BY <1>2, <1>4, <1>5, <1>6 DEF BackupInv

LEMMA BackupStrayRefused == ASSUME BackupInv, NEW r \in Runs, StrayRefused(r) PROVE BackupInv'
BY BackupLeaves DEF StrayRefused, Refused

\* The execution goes on to pc and knows nothing more; no instance changes.
LEMMA BackupGoes ==
    ASSUME BackupInv, NEW pc \in {"restore", "finally", "publish"}, Go(pc),
           lambda.kind = "verify", lambda.pc # "idle",
           UNCHANGED <<temporary, verifies, verdict>>,
           pc = "restore" => lambda.pc = "strays" /\ lambda.strays = {},
           pc # "restore" => lambda.pc # "strays"
    PROVE  BackupInv'
<1>1. /\ lambda'.pc = pc /\ lambda'.counted = lambda.counted /\ lambda'.run = lambda.run
      /\ lambda'.kind = lambda.kind /\ lambda' \in Lambda
      /\ lambda'.instanceId <=> lambda.instanceId
      /\ lambda'.ok <=> lambda.ok
  BY DEF Go, BackupInv, BackupTypeOK, Lambda
<1>2. BackupTypeOK' BY <1>1 DEF BackupInv, BackupTypeOK
<1>3. OwnRun' BY <1>1 DEF BackupInv, OwnRun
<1>4. AtMostOneLeft' BY <1>1 DEF BackupInv, AtMostOneLeft, Deletable, BackupTypeOK, Lambda
<1>5. InstanceTrue' BY <1>1 DEF BackupInv, InstanceTrue, Deletable
<1>6. QED BY <1>2, <1>3, <1>4, <1>5 DEF BackupInv

LEMMA BackupStraysDone == ASSUME BackupInv, StraysDone PROVE BackupInv'
<1>1. CASE lambda.kind = "cleanup" BY <1>1, BackupLeaves DEF StraysDone
<1>2. CASE lambda.kind # "cleanup"
  BY <1>2, BackupGoes DEF StraysDone, At, Go, BackupInv, BackupTypeOK, Lambda, OwnRun
<1>3. QED BY <1>1, <1>2

LEMMA BackupRestore == ASSUME BackupInv, RestoreSnapshot PROVE BackupInv'
<1>1. /\ lambda'.pc = "wait" /\ lambda'.counted = lambda.counted /\ lambda'.run = lambda.run
      /\ lambda'.kind = lambda.kind /\ lambda' \in Lambda
      /\ ~lambda'.instanceId /\ ~lambda'.ok
  BY DEF RestoreSnapshot, At, Go, BackupInv, BackupTypeOK, Lambda, OwnRun
<1>2. lambda.kind = "verify" /\ lambda.run = verifies /\ lambda.run \in Runs /\ lambda.counted = 0
  BY DEF RestoreSnapshot, At, BackupInv, OwnRun
<1>3. BackupTypeOK' BY <1>1 DEF RestoreSnapshot, BackupInv, BackupTypeOK
<1>4. /\ temporary'[lambda.run] = "creating"
      /\ \A q \in Runs : q # lambda.run => temporary'[q] = temporary[q]
  BY <1>2 DEF RestoreSnapshot, BackupInv, BackupTypeOK
<1>5. OwnRun' BY <1>1, <1>2, <1>4 DEF RestoreSnapshot, BackupInv, BackupTypeOK, OwnRun, Runs
<1>6. AtMostOneLeft' BY <1>1, <1>4 DEF RestoreSnapshot, At, BackupInv, AtMostOneLeft, Deletable
<1>7. InstanceTrue'
  <2>1. verdict[lambda.run] # 1
    BY <1>2 DEF RestoreSnapshot, At, BackupInv, OwnRun, InstanceTrue
  <2>2. QED BY <1>1, <1>4, <2>1 DEF RestoreSnapshot, BackupInv, InstanceTrue, Deletable
<1>8. QED BY <1>3, <1>5, <1>6, <1>7 DEF BackupInv

LEMMA BackupRestoreThrows ==
    ASSUME BackupInv, NEW begun \in BOOLEAN, RestoreThrows(begun) PROVE BackupInv'
<1>1. /\ lambda'.pc = "finally" /\ lambda'.counted = lambda.counted /\ lambda'.run = lambda.run
      /\ lambda'.kind = lambda.kind /\ lambda' \in Lambda
      /\ ~lambda'.instanceId /\ ~lambda'.ok
  BY DEF RestoreThrows, At, Go, BackupInv, BackupTypeOK, Lambda, OwnRun
<1>2. /\ lambda.kind = "verify" /\ lambda.run = verifies /\ lambda.run \in Runs
      /\ temporary[lambda.run] = "none"
  BY DEF RestoreThrows, At, BackupInv, OwnRun
<1>3. BackupTypeOK' BY <1>1 DEF RestoreThrows, BackupInv, BackupTypeOK
<1>4. /\ temporary'[lambda.run] \in {"none", "creating"}
      /\ \A q \in Runs : q # lambda.run => temporary'[q] = temporary[q]
  BY <1>2 DEF RestoreThrows, BackupInv, BackupTypeOK
<1>5. OwnRun' BY <1>1, <1>2, <1>4 DEF RestoreThrows, BackupInv, BackupTypeOK, OwnRun, Runs
<1>6. AtMostOneLeft' BY <1>1, <1>4 DEF RestoreThrows, At, BackupInv, AtMostOneLeft, Deletable
<1>7. InstanceTrue'
  <2>1. verdict[lambda.run] # 1
    BY <1>2 DEF BackupInv, InstanceTrue
  <2>2. QED BY <1>1, <1>4, <2>1 DEF RestoreThrows, BackupInv, InstanceTrue, Deletable
<1>8. QED BY <1>3, <1>5, <1>6, <1>7 DEF BackupInv

LEMMA BackupWait == ASSUME BackupInv, WaitAvailable PROVE BackupInv'
<1>1. CASE temporary[lambda.run] = "failed" /\ Go("finally")
  BY <1>1, BackupGoes DEF WaitAvailable, At, BackupInv, OwnRun
<1>2. CASE /\ temporary[lambda.run] = "available"
           /\ lambda' = [lambda EXCEPT !.pc = "count", !.instanceId = TRUE]
  <2>1. /\ lambda'.pc = "count" /\ lambda'.counted = lambda.counted /\ lambda'.run = lambda.run
        /\ lambda'.kind = lambda.kind /\ lambda' \in Lambda
        /\ lambda'.instanceId /\ ~lambda'.ok
    BY <1>2 DEF WaitAvailable, At, BackupInv, BackupTypeOK, Lambda, OwnRun
  <2>2. BackupTypeOK' BY <2>1 DEF WaitAvailable, BackupInv, BackupTypeOK
  <2>3. OwnRun' BY <2>1 DEF WaitAvailable, At, BackupInv, OwnRun
  <2>4. AtMostOneLeft' BY <2>1 DEF WaitAvailable, At, BackupInv, AtMostOneLeft, Deletable
  <2>5. InstanceTrue' BY <1>2, <2>1 DEF WaitAvailable, At, BackupInv, InstanceTrue, Deletable
  <2>6. QED BY <2>2, <2>3, <2>4, <2>5 DEF BackupInv
<1>3. QED BY <1>1, <1>2 DEF WaitAvailable

\* The try block throws, or nothing is left to wait for.
LEMMA BackupGivesUp ==
    ASSUME BackupInv, WaitThrows \/ CountThrows \/ WaitForDeleted
    PROVE  BackupInv'
BY BackupGoes DEF WaitThrows, CountThrows, WaitForDeleted, At, BackupInv, OwnRun

LEMMA BackupCount == ASSUME BackupInv, CountTable PROVE BackupInv'
<1> DEFINE last == lambda.counted + 1 = ExpectedTables
<1>0. lambda.counted + 1 \in Nat BY DEF BackupInv, BackupTypeOK, Lambda
<1>1. /\ lambda'.pc \in {"count", "finally"} /\ lambda'.counted = lambda.counted + 1
      /\ lambda'.run = lambda.run /\ lambda'.kind = lambda.kind /\ lambda' \in Lambda
      /\ lambda'.instanceId
      /\ lambda'.ok => last /\ lambda'.pc = "finally"
  <2>1. CASE last
    <3>1. lambda' = [lambda EXCEPT !.counted = @ + 1, !.ok = TRUE, !.pc = "finally"]
      BY <2>1 DEF CountTable
    <3>2. QED BY <1>0, <2>1, <3>1 DEF CountTable, At, BackupInv, BackupTypeOK, Lambda, InstanceTrue
  <2>2. CASE ~last
    <3>0. last = FALSE BY <2>2
    <3>1. lambda' = [lambda EXCEPT !.counted = @ + 1, !.ok = FALSE, !.pc = "count"]
      BY <3>0 DEF CountTable
    <3>2. QED BY <1>0, <3>1 DEF CountTable, At, BackupInv, BackupTypeOK, Lambda, InstanceTrue
  <2>3. QED BY <2>1, <2>2
<1>2. BackupTypeOK' BY <1>1 DEF CountTable, BackupInv, BackupTypeOK
<1>3. OwnRun' BY <1>1 DEF CountTable, At, BackupInv, OwnRun
<1>4. AtMostOneLeft' BY <1>1 DEF CountTable, At, BackupInv, AtMostOneLeft, Deletable
<1>5. InstanceTrue' BY <1>1 DEF CountTable, At, BackupInv, InstanceTrue, Deletable
<1>6. QED BY <1>2, <1>3, <1>4, <1>5 DEF BackupInv

\* The instance of the execution is deleted, and the execution goes on to pc.
LEMMA BackupDeletes ==
    ASSUME BackupInv, NEW pc \in {"gone", "publish"}, Go(pc), At("finally"), lambda.instanceId,
           temporary' = [temporary EXCEPT ![lambda.run] = "deleting"],
           UNCHANGED <<verifies, verdict>>
    PROVE  BackupInv'
<1>1. /\ lambda'.pc = pc /\ lambda'.counted = lambda.counted /\ lambda'.run = lambda.run
      /\ lambda'.kind = lambda.kind /\ lambda' \in Lambda
      /\ lambda'.instanceId
      /\ lambda'.ok <=> lambda.ok
  BY DEF Go, BackupInv, BackupTypeOK, Lambda
<1>2. lambda.kind = "verify" /\ lambda.run = verifies /\ lambda.run \in Runs
  BY DEF At, BackupInv, OwnRun
<1>3. BackupTypeOK' BY <1>1 DEF BackupInv, BackupTypeOK
<1>4. /\ temporary'[lambda.run] = "deleting"
      /\ \A q \in Runs : q # lambda.run => temporary'[q] = temporary[q]
  BY <1>2 DEF BackupInv, BackupTypeOK
<1>5. OwnRun' BY <1>1, <1>2, <1>4 DEF BackupInv, BackupTypeOK, OwnRun, Runs
<1>6. AtMostOneLeft' BY <1>1, <1>4 DEF At, BackupInv, AtMostOneLeft, Deletable
<1>7. InstanceTrue' BY <1>1, <1>2, <1>4 DEF BackupInv, InstanceTrue, Deletable
<1>8. QED BY <1>3, <1>5, <1>6, <1>7 DEF BackupInv

LEMMA BackupDeleteOwn == ASSUME BackupInv, DeleteOwn \/ DeleteOwnThrows PROVE BackupInv'
<1>1. CASE temporary' = [temporary EXCEPT ![lambda.run] = "deleting"] /\ lambda.instanceId
  BY <1>1, BackupDeletes DEF DeleteOwn, DeleteOwnThrows
<1>2. CASE UNCHANGED temporary /\ Go("publish")
  BY <1>2, BackupGoes DEF DeleteOwn, DeleteOwnThrows, At, BackupInv, OwnRun
<1>3. QED BY <1>1, <1>2 DEF DeleteOwn, DeleteOwnThrows, Refused

LEMMA BackupPublish == ASSUME BackupInv, PublishMetric PROVE BackupInv'
<1>1. lambda.run \in Runs BY DEF PublishMetric, At, BackupInv, OwnRun
<1>2. \A r \in Runs : verdict'[r] = 1 =>
         temporary[r] \in {"available", "deleting", "deleted"}
  BY <1>1 DEF PublishMetric, BackupInv, BackupTypeOK, InstanceTrue
<1>3. /\ lambda'.pc = "idle" /\ lambda'.kind = "none" /\ lambda'.counted = 0
      /\ ~lambda'.instanceId /\ ~lambda'.ok /\ temporary' = temporary
  BY DEF PublishMetric, NoExecution
<1>4. BackupTypeOK' BY DEF PublishMetric, BackupInv, BackupTypeOK, NoExecution, Lambda
<1>5. OwnRun' BY <1>3 DEF PublishMetric, BackupInv, OwnRun
<1>6. AtMostOneLeft' BY <1>3 DEF BackupInv, AtMostOneLeft, Deletable
<1>7. InstanceTrue' BY <1>2, <1>3 DEF InstanceTrue
<1>8. QED BY <1>4, <1>5, <1>6, <1>7 DEF BackupInv

\* RDS ends what it was told to do.
LEMMA BackupRds ==
    ASSUME BackupInv, NEW r \in Runs,
           RdsDeleteEnds(r) \/ \E state \in {"available", "failed"} : RdsRestoreEnds(r, state)
    PROVE  BackupInv'
<1>1. PICK state \in {"available", "failed", "deleted"} :
         /\ temporary' = [temporary EXCEPT ![r] = state] /\ UNCHANGED <<lambda, verifies, verdict>>
         /\ IF state = "deleted" THEN temporary[r] = "deleting" ELSE temporary[r] = "creating"
  BY DEF RdsDeleteEnds, RdsRestoreEnds
<1>2. BackupTypeOK' BY <1>1 DEF BackupInv, BackupTypeOK
<1>3. temporary'[r] = state /\ \A q \in Runs : q # r => temporary'[q] = temporary[q]
  BY <1>1 DEF BackupInv, BackupTypeOK
<1>4. \A q \in Runs : Deletable(q)' <=> Deletable(q)
  BY <1>1, <1>3 DEF Deletable
<1>5. OwnRun' BY <1>1, <1>3 DEF BackupInv, OwnRun
<1>6. AtMostOneLeft' BY <1>1, <1>4 DEF BackupInv, AtMostOneLeft
<1>7. InstanceTrue'
  <2>1. lambda.pc = "wait" => lambda.run \in Runs BY DEF BackupInv, OwnRun
  <2>2. lambda.instanceId => lambda.run \in Runs
    BY DEF BackupInv, OwnRun, BackupTypeOK, Lambda
  <2>3. lambda.pc = "count" => lambda.instanceId BY DEF BackupInv, InstanceTrue
  <2>4. QED BY <1>1, <1>3, <1>4, <2>1, <2>2, <2>3 DEF BackupInv, InstanceTrue
<1>8. QED BY <1>2, <1>5, <1>6, <1>7 DEF BackupInv

LEMMA BackupStep == BackupInv /\ [BackupNext]_backupVars => BackupInv'
<1> SUFFICES ASSUME BackupInv, [BackupNext]_backupVars PROVE BackupInv' OBVIOUS
<1>1. CASE UNCHANGED backupVars
  BY <1>1 DEF backupVars, BackupInv, BackupTypeOK, OwnRun, AtMostOneLeft, InstanceTrue, Deletable
<1>2. CASE LambdaStep
  BY <1>2, BackupDeleteStray, BackupStrayRefused, BackupStraysDone, BackupRestore, BackupWait,
     BackupGivesUp, BackupCount, BackupDeleteOwn, BackupPublish DEF LambdaStep
<1>3. CASE PublishThrows \/ Killed BY <1>3, BackupLeaves DEF PublishThrows, Killed
<1>4. QED BY <1>1, <1>2, <1>3, BackupStart, BackupStrayRefused, BackupRds, BackupRestoreThrows,
             BackupGivesUp, BackupDeleteOwn DEF BackupNext

\* However the executions die, commands are refused and answers are lost, at most one
\* temporary database is left over, and a verification is reported good only if it
\* counted every table of a database it had restored (runBackupVerify, runCleanup).
THEOREM BackupsAreSafe == BackupSpec => [](LeaksAtMostOne /\ VerdictTrue)
<1>1. ASSUME BackupInv PROVE LeaksAtMostOne
  <2> DEFINE D == {r \in Runs : Deletable(r)}
  <2>1. CASE D = {} BY <2>1, FS_EmptySet DEF LeaksAtMostOne
  <2>2. CASE D # {}
    <3>1. PICK r \in Runs : D = {r} BY <1>1, <2>2 DEF BackupInv, AtMostOneLeft
    <3> HIDE DEF D
    <3>2. Cardinality(D) = 1 BY <3>1, FS_Singleton
    <3>3. QED BY <3>2 DEF LeaksAtMostOne, D
  <2>3. QED BY <2>1, <2>2
<1>2. BackupInv => VerdictTrue BY DEF BackupInv, InstanceTrue, VerdictTrue
<1>3. QED BY <1>1, <1>2, BackupInitial, BackupStep, PTL DEF BackupSpec

-----------------------------------------------------------------------------
(* The status service.                                                     *)

AnyEvent == CancelEvents \cup ClawbackEvents \cup DirectCallers \cup {NoEvent}
Entry == [from : Status, to : Status, event : AnyEvent]
DirectCall == [pc : {"idle", "selected", "updated", "returned"}, from : Status \cup {Absent},
               to : Status \cup {Absent}, event : {NoEvent} \cup DirectCallers]

StatusTypeOK ==
    /\ streamRow \in [status : Status \cup {Absent}, cancelTx : AnyEvent, clawTx : AnyEvent]
    /\ audit \in Seq(Entry)
    /\ unhandled \subseteq CancelEvents \cup ClawbackEvents
    /\ direct \in [DirectCallers -> DirectCall]
    /\ \A c \in DirectCallers : /\ direct[c].pc = "idle" => direct[c].to = Absent
                                /\ direct[c].pc = "selected" => direct[c].to \in Status

\* entries is a path of VALID_TRANSITIONS to status.
PathTo(entries, status) ==
    /\ \A i \in DOMAIN entries : entries[i].to \in VALID_TRANSITIONS[entries[i].from]
    /\ \A i \in 1..(Len(entries) - 1) : entries[i].to = entries[i + 1].from
    /\ entries # <<>> => entries[Len(entries)].to = status

\* The details explain the status, whatever they are.
DetailsExplain ==
    /\ streamRow.cancelTx # NoEvent => streamRow.status = "cancelled"
    /\ streamRow.clawTx # NoEvent => streamRow.status = "clawedback"

\* A row that is in this terminal status, when no direct caller asked for it, was
\* brought there by a handler, with an event of its kind.  That says more than
\* TerminalDetailsAgree: of rows without details, too, since the next event of the
\* kind writes details without another entry.
EndedByHandler(status, events) ==
    streamRow.status = status /\ (\A c \in DirectCallers : direct[c].to # status)
       => audit # <<>> /\ audit[Len(audit)].event \in events

StatusIInv ==
    /\ StatusTypeOK
    /\ PathTo(audit, streamRow.status)
    /\ DetailsExplain
    /\ EndedByHandler("cancelled", CancelEvents)
    /\ EndedByHandler("clawedback", ClawbackEvents)

\* The two tables of transitions agree on every change of status.
LEMMA TriggerIsTable ==
    ASSUME NEW from \in Status \cup {Absent}, NEW to \in Status \cup {Absent},
           TriggerAllows(from, to), from # to
    PROVE  /\ from \in Status /\ to \in Status /\ to \in VALID_TRANSITIONS[from]
           /\ from \notin {"cancelled", "clawedback"}
BY DEF TriggerAllows, VALID_TRANSITIONS, Status, Absent

LEMMA AppendedPath ==
    ASSUME NEW entries \in Seq(Entry), NEW from \in Status, NEW to \in Status, NEW event \in AnyEvent,
           PathTo(entries, from), to \in VALID_TRANSITIONS[from]
    PROVE  LET longer == Append(entries, [from |-> from, to |-> to, event |-> event])
           IN  longer \in Seq(Entry) /\ PathTo(longer, to)
<1> DEFINE e == [from |-> from, to |-> to, event |-> event]
           longer == Append(entries, e)
           n == Len(entries)
<1>1. e \in Entry /\ e.from = from /\ e.to = to BY DEF Entry
<1>2. n \in Nat /\ DOMAIN entries = 1..n OBVIOUS
<1> HIDE DEF e
<1>3. /\ longer \in Seq(Entry) /\ Len(longer) = n + 1 /\ DOMAIN longer = 1..(n + 1)
      /\ longer[n + 1] = e /\ \A i \in 1..n : longer[i] = entries[i]
  BY <1>1, <1>2
<1> HIDE DEF longer
<1>4. \A i \in DOMAIN longer : longer[i].to \in VALID_TRANSITIONS[longer[i].from]
  <2>1. SUFFICES ASSUME NEW i \in 1..(n + 1)
                 PROVE  longer[i].to \in VALID_TRANSITIONS[longer[i].from]
    BY <1>3
  <2>2. i \in 1..n \/ i = n + 1 BY <1>2
  <2>3. QED BY <1>1, <1>2, <1>3, <2>2 DEF PathTo
<1>5. \A i \in 1..(Len(longer) - 1) : longer[i].to = longer[i + 1].from
  <2>1. SUFFICES ASSUME NEW i \in 1..n PROVE longer[i].to = longer[i + 1].from
    BY <1>2, <1>3
  <2>2. CASE i = n
    <3>1. entries # <<>> BY <1>2, <2>2
    <3>2. QED BY <1>1, <1>2, <1>3, <2>2, <3>1 DEF PathTo
  <2>3. CASE i # n
    <3>1. i \in 1..(n - 1) /\ i + 1 \in 1..n
      <4> HIDE DEF n
      <4>1. QED BY <1>2, <2>3
    <3>2. QED BY <1>3, <3>1 DEF PathTo
  <2>4. QED BY <2>2, <2>3
<1>6. QED BY <1>1, <1>3, <1>4, <1>5 DEF PathTo, longer, e

\* Naming an event changes the event of entries for that pair only.
LEMMA NamedKeeps ==
    ASSUME NEW entries \in Seq(Entry), NEW from, NEW to, NEW event \in AnyEvent
    PROVE  LET named == Named(entries, from, to, event)
           IN  /\ named \in Seq(Entry) /\ Len(named) = Len(entries)
               /\ DOMAIN named = DOMAIN entries
               /\ \A i \in 1..Len(entries) :
                     /\ named[i].from = entries[i].from /\ named[i].to = entries[i].to
                     /\ named[i].event # entries[i].event => entries[i].to = to
<1> DEFINE same == {i \in DOMAIN entries : entries[i].from = from /\ entries[i].to = to}
           newest == {i \in same : \A j \in same : j <= i}
           named == [i \in DOMAIN entries |->
                        IF i \in newest /\ event # NoEvent THEN [entries[i] EXCEPT !.event = event]
                                                           ELSE entries[i]]
           n == Len(entries)
<1>1. n \in Nat /\ DOMAIN entries = 1..n /\ \A i \in 1..n : entries[i] \in Entry
  BY ElementOfSeq
<1>2. \A i \in newest : i \in 1..n /\ entries[i].to = to BY <1>1
<1>3. DOMAIN named = 1..n BY <1>1
<1> HIDE DEF newest
<1>4. \A i \in 1..n : /\ named[i] \in Entry
                      /\ named[i].from = entries[i].from /\ named[i].to = entries[i].to
                      /\ named[i].event # entries[i].event => entries[i].to = to
  <2>1. SUFFICES ASSUME NEW i \in 1..n
                 PROVE  /\ named[i] \in Entry
                        /\ named[i].from = entries[i].from /\ named[i].to = entries[i].to
                        /\ named[i].event # entries[i].event => entries[i].to = to
    OBVIOUS
  <2>2. CASE i \in newest /\ event # NoEvent
    <3>1. named[i] = [entries[i] EXCEPT !.event = event] BY <1>1, <2>2
    <3> HIDE DEF named
    <3>2. QED BY <1>1, <1>2, <2>2, <3>1 DEF Entry
  <2>3. CASE ~(i \in newest /\ event # NoEvent)
    <3>1. named[i] = entries[i] BY <1>1, <2>3
    <3> HIDE DEF named
    <3>2. QED BY <1>1, <3>1
  <2>4. QED BY <2>2, <2>3
<1>5. named = Named(entries, from, to, event) BY DEF Named, newest
<1>6. named \in [1..n -> Entry]
  <2>1. named = [i \in 1..n |-> named[i]] BY <1>1
  <2> HIDE DEF named
  <2>2. QED BY <1>4, <2>1
<1> HIDE DEF named
<1>7. named \in Seq(Entry) BY <1>1, <1>6, SeqDef
<1>8. Len(named) = n BY <1>1, <1>3, <1>7, LenProperties
<1>9. QED BY <1>1, <1>3, <1>4, <1>5, <1>7, <1>8

LEMMA NamedPath ==
    ASSUME NEW entries \in Seq(Entry), NEW from, NEW to, NEW event \in AnyEvent, NEW status,
           PathTo(entries, status)
    PROVE  PathTo(Named(entries, from, to, event), status)
<1> DEFINE named == Named(entries, from, to, event)
           n == Len(entries)
<1>1. n \in Nat /\ DOMAIN entries = 1..n OBVIOUS
<1>2. /\ named \in Seq(Entry) /\ Len(named) = n /\ DOMAIN named = 1..n
      /\ \A i \in 1..n : named[i].from = entries[i].from /\ named[i].to = entries[i].to
  BY <1>1, NamedKeeps
<1> HIDE DEF named
<1>3. \A i \in 1..(n - 1) : i \in 1..n /\ i + 1 \in 1..n BY <1>1
<1>4. named # <<>> => entries # <<>> /\ n \in 1..n BY <1>1, <1>2
<1>5. QED BY <1>1, <1>2, <1>3, <1>4 DEF PathTo, named

\* The entry that a transition has just appended is the newest of its pair.
LEMMA NamedLast ==
    ASSUME NEW entries \in Seq(Entry), NEW from \in Status, NEW to \in Status, NEW event \in AnyEvent,
           event # NoEvent
    PROVE  LET longer == Append(entries, [from |-> from, to |-> to, event |-> NoEvent])
           IN  Named(longer, from, to, event)[Len(longer)].event = event
<1> DEFINE e == [from |-> from, to |-> to, event |-> NoEvent]
           longer == Append(entries, e)
           n == Len(longer)
           same == {i \in DOMAIN longer : longer[i].from = from /\ longer[i].to = to}
           newest == {i \in same : \A j \in same : j <= i}
<1>1. e \in Entry /\ e.from = from /\ e.to = to BY DEF Entry, AnyEvent
<1> HIDE DEF e
<1>2. longer \in Seq(Entry) /\ n \in Nat /\ n >= 1 /\ DOMAIN longer = 1..n /\ longer[n] = e
  BY <1>1
<1> HIDE DEF longer
<1>3. n \in newest BY <1>1, <1>2
<1>4. Named(longer, from, to, event)[n] = [longer[n] EXCEPT !.event = event]
  BY <1>2, <1>3 DEF Named
<1>5. [longer[n] EXCEPT !.event = event].event = event
  BY <1>1, <1>2 DEF Entry
<1>6. QED BY <1>4, <1>5 DEF longer, e

LEMMA StatusInitial == StatusInit => StatusIInv
<1> SUFFICES ASSUME StatusInit PROVE StatusIInv OBVIOUS
<1>1. /\ streamRow \in [status : Status \cup {Absent}, cancelTx : AnyEvent, clawTx : AnyEvent]
      /\ streamRow.cancelTx = NoEvent /\ streamRow.clawTx = NoEvent
      /\ streamRow.status \notin {"cancelled", "clawedback"}
  BY DEF StatusInit, Status, Absent, AnyEvent
<1>2. audit = <<>> /\ audit \in Seq(Entry) BY DEF StatusInit
<1>3. StatusTypeOK BY <1>1, <1>2 DEF StatusInit, StatusTypeOK, DirectCall
<1>4. PathTo(audit, streamRow.status) BY <1>2 DEF PathTo
<1>5. QED BY <1>1, <1>3, <1>4 DEF StatusIInv, DetailsExplain, EndedByHandler

\* The trail after a change of status by a handler.
LEMMA StatusTransition ==
    ASSUME StatusIInv, NEW to \in {"cancelled", "clawedback"},
           NEW e \in CancelEvents \cup ClawbackEvents,
           TransitionApplies(streamRow.status, to), streamRow.status # to
    PROVE  LET entries == Transition(streamRow.status, to, e)
           IN  /\ entries \in Seq(Entry) /\ PathTo(entries, to)
               /\ entries # <<>> /\ entries[Len(entries)].event = e
               /\ streamRow.status \notin {"cancelled", "clawedback"}
<1> DEFINE from == streamRow.status
           longer == Append(audit, [from |-> from, to |-> to, event |-> NoEvent])
           entries == Named(longer, from, to, e)
<1>1. /\ from \in Status /\ to \in Status /\ to \in VALID_TRANSITIONS[from]
      /\ from \notin {"cancelled", "clawedback"}
  <2>1. from \in Status \cup {Absent} /\ to \in Status
    BY DEF StatusIInv, StatusTypeOK, Status
  <2>2. QED BY <2>1, TriggerIsTable DEF TransitionApplies
<1>2. e \in AnyEvent /\ NoEvent \in AnyEvent /\ e # NoEvent BY StatusAssumption DEF AnyEvent
<1>3. audit \in Seq(Entry) /\ PathTo(audit, from) BY DEF StatusIInv, StatusTypeOK
<1>4. Transition(from, to, e) = entries BY DEF Transition, Audited
<1> HIDE DEF from
<1>5. longer \in Seq(Entry) /\ PathTo(longer, to) BY <1>1, <1>2, <1>3, AppendedPath
<1>6. Len(longer) = Len(audit) + 1 /\ Len(audit) \in Nat BY <1>3
<1>7. entries[Len(longer)].event = e BY <1>1, <1>2, <1>3, NamedLast
<1> HIDE DEF longer
<1>8. entries \in Seq(Entry) /\ Len(entries) = Len(longer) BY <1>2, <1>5, NamedKeeps
<1>9. PathTo(entries, to) BY <1>2, <1>5, NamedPath
<1> HIDE DEF entries
<1>10. entries # <<>> BY <1>6, <1>8
<1>11. QED BY <1>1, <1>4, <1>7, <1>8, <1>9, <1>10 DEF from

LEMMA StatusCancelled ==
    ASSUME StatusIInv, NEW e \in unhandled, HandleStreamCancelled(e)
    PROVE  StatusIInv'
<1>1. /\ e \in CancelEvents /\ e \in AnyEvent /\ unhandled' \subseteq CancelEvents \cup ClawbackEvents
      /\ direct' = direct
  BY DEF HandleStreamCancelled, AnyEvent, StatusIInv, StatusTypeOK
<1>2. CASE ~TransitionApplies(streamRow.status, "cancelled")
  BY <1>1, <1>2 DEF HandleStreamCancelled, StatusIInv, StatusTypeOK, DetailsExplain, EndedByHandler
<1>3. CASE TransitionApplies(streamRow.status, "cancelled")
  <2>1. /\ streamRow' \in [status : Status \cup {Absent}, cancelTx : AnyEvent, clawTx : AnyEvent]
        /\ streamRow'.status = "cancelled" /\ streamRow'.clawTx = streamRow.clawTx
    BY <1>1, <1>3 DEF HandleStreamCancelled, StatusIInv, StatusTypeOK, Status
  <2>2. /\ audit' \in Seq(Entry) /\ PathTo(audit', "cancelled") /\ streamRow.clawTx = NoEvent
        /\ (\A c \in DirectCallers : direct[c].to # "cancelled") =>
              audit' # <<>> /\ audit'[Len(audit')].event \in CancelEvents
    <3>1. CASE streamRow.status = "cancelled"
      <4>1. audit' = audit BY <1>3, <3>1 DEF HandleStreamCancelled, Transition
      <4>2. QED BY <3>1, <4>1 DEF StatusIInv, StatusTypeOK, DetailsExplain, EndedByHandler
    <3>2. CASE streamRow.status # "cancelled"
      <4>1. audit' = Transition(streamRow.status, "cancelled", e)
        BY <1>3 DEF HandleStreamCancelled
      <4>2. QED BY <1>1, <1>3, <3>2, <4>1, StatusTransition DEF StatusIInv, DetailsExplain
    <3>3. QED BY <3>1, <3>2
  <2>3. StatusTypeOK' BY <1>1, <2>1, <2>2 DEF StatusIInv, StatusTypeOK
  <2>4. DetailsExplain' BY <2>1, <2>2 DEF DetailsExplain
  <2>5. QED BY <1>1, <2>1, <2>2, <2>3, <2>4 DEF StatusIInv, EndedByHandler
<1>4. QED BY <1>2, <1>3

LEMMA StatusClawedBack ==
    ASSUME StatusIInv, NEW e \in unhandled, HandleStreamClawedBack(e)
    PROVE  StatusIInv'
<1>1. /\ e \in ClawbackEvents /\ e \in AnyEvent /\ unhandled' \subseteq CancelEvents \cup ClawbackEvents
      /\ direct' = direct
  BY DEF HandleStreamClawedBack, AnyEvent, StatusIInv, StatusTypeOK
<1>2. CASE ~TransitionApplies(streamRow.status, "clawedback")
  BY <1>1, <1>2 DEF HandleStreamClawedBack, StatusIInv, StatusTypeOK, DetailsExplain, EndedByHandler
<1>3. CASE TransitionApplies(streamRow.status, "clawedback")
  <2>1. /\ streamRow' \in [status : Status \cup {Absent}, cancelTx : AnyEvent, clawTx : AnyEvent]
        /\ streamRow'.status = "clawedback" /\ streamRow'.cancelTx = streamRow.cancelTx
    BY <1>1, <1>3 DEF HandleStreamClawedBack, StatusIInv, StatusTypeOK, Status
  <2>2. /\ audit' \in Seq(Entry) /\ PathTo(audit', "clawedback") /\ streamRow.cancelTx = NoEvent
        /\ (\A c \in DirectCallers : direct[c].to # "clawedback") =>
              audit' # <<>> /\ audit'[Len(audit')].event \in ClawbackEvents
    <3>1. CASE streamRow.status = "clawedback"
      <4>1. audit' = audit BY <1>3, <3>1 DEF HandleStreamClawedBack, Transition
      <4>2. QED BY <3>1, <4>1 DEF StatusIInv, StatusTypeOK, DetailsExplain, EndedByHandler
    <3>2. CASE streamRow.status # "clawedback"
      <4>1. audit' = Transition(streamRow.status, "clawedback", e)
        BY <1>3 DEF HandleStreamClawedBack
      <4>2. QED BY <1>1, <1>3, <3>2, <4>1, StatusTransition DEF StatusIInv, DetailsExplain
    <3>3. QED BY <3>1, <3>2
  <2>3. StatusTypeOK' BY <1>1, <2>1, <2>2 DEF StatusIInv, StatusTypeOK
  <2>4. DetailsExplain' BY <2>1, <2>2 DEF DetailsExplain
  <2>5. QED BY <1>1, <2>1, <2>2, <2>3, <2>4 DEF StatusIInv, EndedByHandler
<1>4. QED BY <1>2, <1>3

\* A statement outside the handlers: the trigger looks at the status it finds.
LEMMA StatusUpdated ==
    ASSUME StatusIInv, NEW to \in Status, TriggerAllows(streamRow.status, to),
           streamRow' = [streamRow EXCEPT !.status = to], audit' = Audited(streamRow.status, to),
           unhandled' = unhandled,
           direct' \in [DirectCallers -> DirectCall],
           \A c \in DirectCallers : /\ direct'[c].to = direct[c].to
                                    /\ direct'[c].pc = "idle" => direct'[c].to = Absent
                                    /\ direct'[c].pc = "selected" => direct'[c].to \in Status,
           to \in {"cancelled", "clawedback"} => \E c \in DirectCallers : direct[c].to = to
    PROVE  StatusIInv'
<1>1. /\ streamRow' \in [status : Status \cup {Absent}, cancelTx : AnyEvent, clawTx : AnyEvent]
      /\ streamRow'.status = to /\ streamRow'.cancelTx = streamRow.cancelTx
      /\ streamRow'.clawTx = streamRow.clawTx /\ streamRow.status \in Status \cup {Absent}
  BY DEF StatusIInv, StatusTypeOK
<1>2. CASE streamRow.status = to
  <2>1. audit' = audit BY <1>2 DEF Audited
  <2>2. StatusTypeOK' BY <1>1, <2>1 DEF StatusIInv, StatusTypeOK
  <2>3. DetailsExplain' BY <1>1, <1>2 DEF StatusIInv, DetailsExplain
  <2>4. QED BY <1>1, <1>2, <2>1, <2>2, <2>3 DEF StatusIInv, EndedByHandler
<1>3. CASE streamRow.status # to
  <2>1. /\ streamRow.status \in Status /\ to \in VALID_TRANSITIONS[streamRow.status]
        /\ streamRow.status \notin {"cancelled", "clawedback"}
    BY <1>1, <1>3, TriggerIsTable
  <2>2. audit' \in Seq(Entry) /\ PathTo(audit', to)
    <3>1. audit' = Append(audit, [from |-> streamRow.status, to |-> to, event |-> NoEvent])
      BY <1>3 DEF Audited
    <3>2. NoEvent \in AnyEvent BY DEF AnyEvent
    <3>3. QED BY <2>1, <3>1, <3>2, AppendedPath DEF StatusIInv, StatusTypeOK
  <2>3. StatusTypeOK' BY <1>1, <2>2 DEF StatusIInv, StatusTypeOK
  <2>4. DetailsExplain' BY <1>1, <2>1 DEF StatusIInv, DetailsExplain
  <2>5. QED BY <1>1, <2>2, <2>3, <2>4 DEF StatusIInv, EndedByHandler
<1>4. QED BY <1>2, <1>3

LEMMA StatusExpired == ASSUME StatusIInv, ExpireRow PROVE StatusIInv'
<1>1. "expired" \in Status /\ TriggerAllows(streamRow.status, "expired")
  BY DEF ExpireRow, Status, TriggerAllows
<1>2. QED BY <1>1, StatusUpdated DEF ExpireRow, StatusIInv, StatusTypeOK

LEMMA StatusSelected == ASSUME StatusIInv, NEW c \in DirectCallers, SelectStatus(c) PROVE StatusIInv'
<1>1. PICK d \in DirectCall :
         /\ direct' = [direct EXCEPT ![c] = d]
         /\ d.pc \in {"selected", "returned"} /\ d.to \in Status
  <2>1. PICK pc \in {"selected", "returned"}, to \in Status, event \in {NoEvent, c} :
           direct' = [direct EXCEPT ![c] = [pc |-> pc, from |-> streamRow.status, to |-> to, event |-> event]]
    BY DEF SelectStatus
  <2>2. [pc |-> pc, from |-> streamRow.status, to |-> to, event |-> event] \in DirectCall
    BY DEF DirectCall, StatusIInv, StatusTypeOK
  <2>3. QED BY <2>1, <2>2
<1>2. direct[c].to = Absent BY DEF SelectStatus, StatusIInv, StatusTypeOK
<1>3. direct'[c] = d /\ \A k \in DirectCallers : k # c => direct'[k] = direct[k]
  BY <1>1 DEF StatusIInv, StatusTypeOK
<1>4. streamRow' = streamRow /\ audit' = audit /\ unhandled' = unhandled BY DEF SelectStatus
<1>5. StatusTypeOK' BY <1>1, <1>3, <1>4 DEF StatusIInv, StatusTypeOK
<1>6. \A s \in {"cancelled", "clawedback"} :
         (\A k \in DirectCallers : direct'[k].to # s) => \A k \in DirectCallers : direct[k].to # s
  BY <1>2, <1>3 DEF Absent
<1>7. QED BY <1>4, <1>5, <1>6 DEF StatusIInv, DetailsExplain, EndedByHandler

LEMMA StatusDirectUpdate ==
    ASSUME StatusIInv, NEW c \in DirectCallers, UpdateStatus(c)
    PROVE  StatusIInv'
<1>1. PICK pc \in {"updated", "returned"} : direct' = [direct EXCEPT ![c].pc = pc]
  BY DEF UpdateStatus
<1>2. /\ direct' \in [DirectCallers -> DirectCall]
      /\ \A k \in DirectCallers : /\ direct'[k].to = direct[k].to
                                  /\ direct'[k].pc = "idle" => direct'[k].to = Absent
                                  /\ direct'[k].pc = "selected" => direct'[k].to \in Status
  BY <1>1 DEF StatusIInv, StatusTypeOK, DirectCall
<1>3. direct[c].to \in Status /\ unhandled' = unhandled BY DEF UpdateStatus, StatusIInv, StatusTypeOK
<1>4. CASE TriggerAllows(streamRow.status, direct[c].to)
  BY <1>2, <1>3, <1>4, StatusUpdated DEF UpdateStatus
<1>5. CASE ~TriggerAllows(streamRow.status, direct[c].to)
  BY <1>2, <1>3, <1>5 DEF UpdateStatus, StatusIInv, StatusTypeOK, DetailsExplain, EndedByHandler
<1>6. QED BY <1>4, <1>5

LEMMA StatusMetadata ==
    ASSUME StatusIInv, NEW c \in DirectCallers, WriteMetadata(c)
    PROVE  StatusIInv'
<1> DEFINE n == Len(audit)
<1>1. /\ direct' \in [DirectCallers -> DirectCall]
      /\ \A k \in DirectCallers : /\ direct'[k].to = direct[k].to
                                  /\ direct'[k].pc = "idle" => direct'[k].to = Absent
                                  /\ direct'[k].pc = "selected" => direct'[k].to \in Status
  BY DEF WriteMetadata, StatusIInv, StatusTypeOK, DirectCall
<1>2. streamRow' = streamRow /\ unhandled' = unhandled BY DEF WriteMetadata
<1>3. direct[c].event \in AnyEvent BY DEF StatusIInv, StatusTypeOK, DirectCall, AnyEvent
<1>4. audit' = Named(audit, direct[c].from, direct[c].to, direct[c].event) BY DEF WriteMetadata
<1>5. audit \in Seq(Entry) /\ n \in Nat BY DEF StatusIInv, StatusTypeOK
<1>6. /\ audit' \in Seq(Entry) /\ Len(audit') = n
      /\ \A i \in 1..n : audit'[i].event # audit[i].event => audit[i].to = direct[c].to
  BY <1>3, <1>4, <1>5, NamedKeeps
<1>7. PathTo(audit', streamRow.status) BY <1>3, <1>4, <1>5, NamedPath DEF StatusIInv
<1>8. audit # <<>> => /\ audit' # <<>> /\ n \in 1..n
                      /\ audit[n].to = streamRow.status
  BY <1>5, <1>6 DEF StatusIInv, PathTo
<1>9. StatusTypeOK' BY <1>1, <1>2, <1>6 DEF StatusIInv, StatusTypeOK
<1>10. ASSUME NEW s, NEW events, EndedByHandler(s, events) PROVE EndedByHandler(s, events)'
  BY <1>1, <1>2, <1>6, <1>8, <1>10 DEF EndedByHandler
<1>11. QED BY <1>2, <1>7, <1>9, <1>10 DEF StatusIInv, DetailsExplain

LEMMA StatusStep == StatusIInv /\ [StatusNext]_statusVars => StatusIInv'
<1> SUFFICES ASSUME StatusIInv, [StatusNext]_statusVars PROVE StatusIInv' OBVIOUS
<1>1. CASE UNCHANGED statusVars
  BY <1>1 DEF statusVars, StatusIInv, StatusTypeOK, PathTo, DetailsExplain, EndedByHandler
<1>2. CASE StatusNext
  BY <1>2, StatusCancelled, StatusClawedBack, StatusExpired, StatusSelected, StatusDirectUpdate,
     StatusMetadata DEF StatusNext
<1>3. QED BY <1>1, <1>2

\* For any number of terminal events and of direct callers who act on a status they
\* read before others wrote: the audit trail is a path of legal transitions to the
\* status of the row, and the details on the row explain that status
\* (transitionStreamStatus, the terminal handlers, the expiry job, the triggers).
THEOREM StatusTellsOneStory == StatusSpec => []StatusInv
<1>1. StatusIInv => AuditIsAPath BY DEF StatusIInv, PathTo, AuditIsAPath
<1>2. StatusIInv => TerminalDetailsAgree
  BY DEF StatusIInv, DetailsExplain, EndedByHandler, TerminalDetailsAgree
<1>3. QED BY <1>1, <1>2, StatusInitial, StatusStep, PTL DEF StatusSpec, StatusInv

-----------------------------------------------------------------------------
(* The backfill.                                                           *)

BackfillRun ==
    [pc : {"none", "fetch", "upsert", "progress", "complete", "fail", "ended", "stopped", "reconcile", "done"},
     from : Nat, to : Nat, cursor : Nat, page : SUBSET Nat, pastEnd : BOOLEAN,
     status : {"none", "running", "completed", "failed", "ok", "needs_attention"},
     types : SUBSET EventTypes, dryRun : BOOLEAN]

\* Record i has a row in the table, and one that the fixed decoder wrote.
Stored(rows, i) == rows[Records[i].tx] # NoRow
Repaired(rows, i) == rows[Records[i].tx].fresh

\* What a run asks for.
InRange(i, run) == Records[i].ledger \in run.from .. run.to
ScriptTypes(run) == IF run.types = {} THEN EventTypes ELSE run.types
JobAsked(i, run) == i \in Ours /\ InRange(i, run)
ScriptAsked(i, run) == Records[i].type \in ScriptTypes(run) /\ InRange(i, run)

JobUpTo(rows, run, n) == \A i \in DOMAIN Records : i <= n /\ JobAsked(i, run) => Stored(rows, i)
JobDone(rows, run) ==
    \A i \in DOMAIN Records : JobAsked(i, run) /\ Records[i].ledger # run.to => Stored(rows, i)
ScriptUpTo(rows, run, n) == \A i \in DOMAIN Records : i <= n /\ ScriptAsked(i, run) => Repaired(rows, i)

PageEnd(cursor) == IF cursor + HorizonPage < Len(Records) THEN cursor + HorizonPage ELSE Len(Records)

\* An admin job has stored what it asked for up to its cursor; up to the end of its
\* page once the page is written; and when the loop is over all of it, but for the
\* last ledger.
JobCovers(rows, run) ==
    /\ run.pc \in {"fetch", "upsert"} => JobUpTo(rows, run, run.cursor)
    /\ run.pc = "progress" => /\ JobUpTo(rows, run, PageEnd(run.cursor))
                              /\ run.pastEnd => JobDone(rows, run)
    /\ run.pc = "complete" \/ run.status = "completed" => JobDone(rows, run)
    /\ run.pc \in {"upsert", "progress"} => run.page = PageAfter(run.cursor) /\ run.page # {}

\* The script has repaired what it asked for up to its cursor, also while it is
\* stopped, and all of it when the loop is over.
ScriptCovers(rows, run) ==
    /\ run.pc \in {"fetch", "upsert", "stopped"} /\ ~run.dryRun => ScriptUpTo(rows, run, run.cursor)
    /\ run.pc \in {"reconcile", "done"} /\ ~run.dryRun => ScriptUpTo(rows, run, Len(Records))
    /\ run.pc = "upsert" => run.page = PageAfter(run.cursor) /\ run.page # {}

BackfillInv ==
    /\ backfill \in [BackfillJobs -> BackfillRun]
    /\ script \in BackfillRun
    /\ \A j \in BackfillJobs : JobCovers(eventRows, backfill[j])
    /\ ScriptCovers(eventRows, script)

\* No step takes a row away, or the work of the fixed decoder.
RowsGrow(rows, new) ==
    \A i \in Ours : /\ Stored(rows, i) => Stored(new, i)
                    /\ Repaired(rows, i) => Repaired(new, i)

LEMMA RecordFacts ==
    /\ Len(Records) \in Nat /\ DOMAIN Records = 1 .. Len(Records)
    /\ \A i \in DOMAIN Records : Records[i].ledger \in Nat
    /\ Ours \subseteq DOMAIN Records
    /\ \A i \in Ours : Records[i].tx \in Txs /\ Records[i].type # "other"
<1> DEFINE R == [ledger : Nat, tx : STRING, type : STRING]
<1>1. Records \in Seq(R) BY BackfillAssumption
<1>2. Len(Records) \in Nat /\ DOMAIN Records = 1 .. Len(Records) BY <1>1
<1>3. \A i \in DOMAIN Records : Records[i] \in R BY <1>1, <1>2, ElementOfSeq
<1>4. QED BY <1>2, <1>3 DEF Ours, Txs

LEMMA PageFacts ==
    ASSUME NEW cursor \in Nat
    PROVE  LET page == PageAfter(cursor)
               end == PageEnd(cursor)
           IN  /\ end \in Nat /\ page = (cursor + 1) .. end /\ page \subseteq DOMAIN Records
               /\ page \in SUBSET Nat
               /\ page = {} => Len(Records) <= cursor
               /\ page # {} => /\ cursor + Cardinality(page) = end /\ Cardinality(page) \in Nat
                               /\ Cardinality(page) < HorizonPage => end = Len(Records)
<1> DEFINE page == PageAfter(cursor)
           end == PageEnd(cursor)
<1>1. HorizonPage \in Nat /\ HorizonPage > 0 BY BackfillAssumption
<1>2. end \in Nat /\ end <= Len(Records) /\ (end < Len(Records) => end = cursor + HorizonPage)
  BY <1>1, RecordFacts DEF PageEnd
<1>3. page = (cursor + 1) .. end BY DEF PageAfter, PageEnd
<1> HIDE DEF page, end
<1>4. page \subseteq DOMAIN Records /\ page \in SUBSET Nat BY <1>2, <1>3, RecordFacts
<1>5. page = {} => Len(Records) <= cursor
  <2>1. SUFFICES ASSUME cursor < Len(Records) PROVE end \in page BY RecordFacts
  <2>2. cursor + 1 <= end BY <1>1, <1>2, <2>1, RecordFacts
  <2>3. QED BY <1>2, <1>3, <2>2
<1>6. page # {} => cursor + 1 <= end BY <1>2, <1>3
<1>7. ASSUME page # {} PROVE Cardinality(page) = end - cursor
  <2>1. Cardinality((cursor + 1) .. end) = IF cursor + 1 > end THEN 0 ELSE end - (cursor + 1) + 1
    BY <1>2, FS_Interval
  <2>2. QED BY <1>2, <1>3, <1>6, <1>7, <2>1
<1>8. ASSUME page # {} PROVE /\ cursor + Cardinality(page) = end /\ Cardinality(page) \in Nat
                             /\ Cardinality(page) < HorizonPage => end = Len(Records)
  <2>1. cursor + 1 <= end /\ Cardinality(page) = end - cursor BY <1>6, <1>7, <1>8
  <2> DEFINE size == Cardinality(page)
  <2>0. size = end - cursor BY <2>1
  <2> HIDE DEF size
  <2>2. cursor + size = end /\ size \in Nat BY <1>2, <2>0, <2>1
  <2>3. end < Len(Records) => size = HorizonPage
    <3>1. SUFFICES ASSUME end = cursor + HorizonPage PROVE size = HorizonPage BY <1>2
    <3>2. QED BY <1>1, <2>0, <3>1
  <2>4. end < Len(Records) \/ end = Len(Records)
    <3>1. Len(Records) \in Nat BY RecordFacts
    <3>2. end \in Nat /\ end <= Len(Records) BY <1>2
    <3>3. QED BY <3>1, <3>2
  <2>5. QED BY <1>1, <2>2, <2>3, <2>4 DEF size
<1>9. QED BY <1>2, <1>3, <1>4, <1>5, <1>8 DEF page, end

\* What an upsert stores: the rows it finds stay, and each decoded record has one.
LEMMA IgnoringStores ==
    ASSUME NEW rows, NEW decoded \in SUBSET Ours
    PROVE  LET new == UpsertIgnoring(rows, decoded)
           IN  RowsGrow(rows, new) /\ \A i \in decoded : Stored(new, i)
<1> DEFINE new == UpsertIgnoring(rows, decoded)
<1>1. ASSUME NEW t \in Txs
      PROVE  /\ rows[t] # NoRow => new[t] = rows[t]
             /\ rows[t] = NoRow /\ (\E i \in decoded : Records[i].tx = t) => new[t].fresh
             /\ rows[t] = NoRow /\ ~(\E i \in decoded : Records[i].tx = t) => new[t] = rows[t]
  BY DEF UpsertIgnoring, Row
<1>2. \A i \in Ours : Records[i].tx \in Txs BY RecordFacts
<1>3. ~NoRow.fresh BY DEF NoRow
<1> HIDE DEF new
<1>4. ASSUME NEW i \in decoded PROVE Stored(new, i) BY <1>1, <1>2, <1>3 DEF Stored
<1>5. ASSUME NEW i \in Ours
      PROVE  /\ Stored(rows, i) => Stored(new, i)
             /\ Repaired(rows, i) => Repaired(new, i)
  BY <1>1, <1>2, <1>3 DEF Stored, Repaired
<1>6. QED BY <1>4, <1>5 DEF new, RowsGrow

LEMMA ReplacingRepairs ==
    ASSUME NEW rows, NEW decoded \in SUBSET Ours
    PROVE  LET new == UpsertReplacing(rows, decoded)
           IN  RowsGrow(rows, new) /\ \A i \in decoded : Repaired(new, i)
<1> DEFINE new == UpsertReplacing(rows, decoded)
<1>1. ASSUME NEW t \in Txs
      PROVE  IF \E i \in decoded : Records[i].tx = t THEN new[t].fresh ELSE new[t] = rows[t]
  BY DEF UpsertReplacing, Row
<1>2. \A i \in Ours : Records[i].tx \in Txs BY RecordFacts
<1>3. ~NoRow.fresh BY DEF NoRow
<1> HIDE DEF new
<1>4. ASSUME NEW i \in decoded PROVE Repaired(new, i) BY <1>1, <1>2 DEF Repaired
<1>5. ASSUME NEW i \in Ours
      PROVE  /\ Stored(rows, i) => Stored(new, i)
             /\ Repaired(rows, i) => Repaired(new, i)
  BY <1>1, <1>2, <1>3 DEF Stored, Repaired
<1>6. QED BY <1>4, <1>5 DEF new, RowsGrow

\* What the script asks for are records of the contract.
LEMMA ScriptAsksOurs ==
    ASSUME NEW run \in BackfillRun, NEW i \in DOMAIN Records, Records[i].type \in ScriptTypes(run)
    PROVE  i \in Ours
<1>1. Records[i].type \in EventTypes BY DEF ScriptTypes, BackfillRun
<1>2. QED BY <1>1, RecordFacts DEF EventTypes, Ours

\* Runs lose nothing when others write the table.
LEMMA CoverageKept ==
    ASSUME NEW rows, NEW new, NEW run \in BackfillRun, RowsGrow(rows, new)
    PROVE  /\ JobCovers(rows, run) => JobCovers(new, run)
           /\ ScriptCovers(rows, run) => ScriptCovers(new, run)
<1>1. \A n : JobUpTo(rows, run, n) => JobUpTo(new, run, n)
  BY DEF JobUpTo, JobAsked, RowsGrow
<1>2. JobDone(rows, run) => JobDone(new, run) BY DEF JobDone, JobAsked, RowsGrow
<1>3. \A n : ScriptUpTo(rows, run, n) => ScriptUpTo(new, run, n)
  BY ScriptAsksOurs DEF ScriptUpTo, ScriptAsked, RowsGrow
<1>4. QED BY <1>1, <1>2, <1>3 DEF JobCovers, ScriptCovers

\* A step of one job, and a step of the script.
LEMMA BackfillOneJob ==
    ASSUME BackfillInv, NEW j \in BackfillJobs, NEW run \in BackfillRun,
           backfill' = [backfill EXCEPT ![j] = run], script' = script,
           RowsGrow(eventRows, eventRows'), JobCovers(eventRows', run)
    PROVE  BackfillInv'
<1>1. backfill' \in [BackfillJobs -> BackfillRun] BY DEF BackfillInv
<1>2. ASSUME NEW k \in BackfillJobs PROVE JobCovers(eventRows', backfill'[k])
  <2>1. CASE k = j BY <2>1 DEF BackfillInv
  <2>2. CASE k # j
    <3>1. backfill'[k] = backfill[k] /\ backfill[k] \in BackfillRun /\ JobCovers(eventRows, backfill[k])
      BY <2>2 DEF BackfillInv
    <3>2. QED BY <3>1, CoverageKept
  <2>3. QED BY <2>1, <2>2
<1>3. ScriptCovers(eventRows', script) BY CoverageKept DEF BackfillInv
<1>4. QED BY <1>1, <1>2, <1>3 DEF BackfillInv

LEMMA BackfillScript ==
    ASSUME BackfillInv, backfill' = backfill, script' \in BackfillRun,
           RowsGrow(eventRows, eventRows'), ScriptCovers(eventRows', script')
    PROVE  BackfillInv'
<1>1. ASSUME NEW k \in BackfillJobs PROVE JobCovers(eventRows', backfill[k])
  BY CoverageKept DEF BackfillInv
<1>2. QED BY <1>1 DEF BackfillInv

LEMMA BackfillInitial == BackfillInit => BackfillInv
<1> SUFFICES ASSUME BackfillInit PROVE BackfillInv OBVIOUS
<1>1. NewRun \in BackfillRun /\ NewRun.pc = "none" /\ NewRun.status = "none"
  BY DEF NewRun, BackfillRun
<1>2. backfill = [j \in BackfillJobs |-> NewRun] /\ script = NewRun BY DEF BackfillInit
<1>3. QED BY <1>1, <1>2 DEF BackfillInv, JobCovers, ScriptCovers

\* A step that writes no row.
LEMMA SameRows == ASSUME eventRows' = eventRows PROVE RowsGrow(eventRows, eventRows')
BY DEF RowsGrow

LEMMA BackfillStart ==
    ASSUME BackfillInv, NEW j \in BackfillJobs, StartBackfill(j)
    PROVE  BackfillInv'
<1>1. PICK r \in Ranges :
         backfill' = [backfill EXCEPT ![j] =
             [NewRun EXCEPT !.pc = "fetch", !.from = r[1], !.to = r[2], !.status = "running"]]
  BY DEF StartBackfill
<1> DEFINE run == [NewRun EXCEPT !.pc = "fetch", !.from = r[1], !.to = r[2], !.status = "running"]
<1>2. r[1] \in Nat /\ r[2] \in Nat BY BackfillAssumption
<1>3. run \in BackfillRun /\ run.pc = "fetch" /\ run.cursor = 0 /\ run.status = "running"
  BY <1>2 DEF NewRun, BackfillRun
<1> HIDE DEF run
<1>4. JobCovers(eventRows, run)
  <2>1. JobUpTo(eventRows, run, 0) BY RecordFacts DEF JobUpTo
  <2>2. QED BY <1>3, <2>1 DEF JobCovers
<1>5. eventRows' = eventRows /\ script' = script BY DEF StartBackfill
<1>6. QED BY <1>1, <1>3, <1>4, <1>5, SameRows, BackfillOneJob DEF run

LEMMA BackfillFetch == ASSUME BackfillInv, NEW j \in BackfillJobs, FetchPage(j) PROVE BackfillInv'
<1> DEFINE old == backfill[j]
           page == PageAfter(old.cursor)
           run == [old EXCEPT !.page = page, !.pc = IF page = {} THEN "complete" ELSE "upsert"]
<1>1. old \in BackfillRun /\ JobCovers(eventRows, old) /\ old.pc = "fetch" /\ old.cursor \in Nat
  BY DEF BackfillInv, FetchPage, BackfillRun
<1>2. backfill' = [backfill EXCEPT ![j] = run] BY DEF FetchPage, BackfillInv, BackfillRun
<1>3. page \in SUBSET Nat /\ (page = {} => Len(Records) <= old.cursor) BY <1>1, PageFacts
<1> HIDE DEF old, page
<1>4. /\ run \in BackfillRun /\ run.page = page /\ run.cursor = old.cursor /\ run.from = old.from
      /\ run.to = old.to /\ run.status = old.status
      /\ IF page = {} THEN run.pc = "complete" ELSE run.pc = "upsert"
  BY <1>1, <1>3 DEF BackfillRun
<1> HIDE DEF run
<1>5. \A i \in DOMAIN Records : JobAsked(i, run) <=> JobAsked(i, old)
  BY <1>4 DEF JobAsked, InRange
<1>6. JobUpTo(eventRows, run, run.cursor) BY <1>1, <1>4, <1>5 DEF JobCovers, JobUpTo
<1>7. page = {} => JobDone(eventRows, run)
  <2>1. page = {} => \A i \in DOMAIN Records : i <= run.cursor BY <1>1, <1>3, <1>4, RecordFacts
  <2>2. QED BY <1>6, <2>1 DEF JobUpTo, JobDone
<1>8. run.status = "completed" => JobDone(eventRows, run)
  BY <1>1, <1>4, <1>5 DEF JobCovers, JobDone
<1>9. JobCovers(eventRows, run) BY <1>4, <1>6, <1>7, <1>8 DEF JobCovers, page
<1>10. eventRows' = eventRows /\ script' = script BY DEF FetchPage
<1>11. QED BY <1>2, <1>4, <1>9, <1>10, SameRows, BackfillOneJob

\* The page that holds an event of to_ledger is the last one that matters: records
\* are in the order of their ledgers.
LEMMA BackfillUpsert ==
    ASSUME BackfillInv, NEW j \in BackfillJobs, UpsertEvents(j)
    PROVE  BackfillInv'
<1> DEFINE old == backfill[j]
           decoded == Decoded(old)
           past == \E i \in decoded : Records[i].ledger >= old.to
           end == PageEnd(old.cursor)
<1>1. /\ old \in BackfillRun /\ JobCovers(eventRows, old) /\ old.pc = "upsert" /\ old.cursor \in Nat
      /\ old.page = PageAfter(old.cursor)
  BY DEF BackfillInv, UpsertEvents, BackfillRun, JobCovers
<1>2. PICK run \in BackfillRun :
         /\ backfill' = [backfill EXCEPT ![j] = run]
         /\ run.pc = "progress" /\ run.page = old.page /\ run.cursor = old.cursor /\ run.from = old.from
         /\ run.to = old.to /\ run.status = old.status
         /\ run.pastEnd => past
  <2>1. CASE past
    <3>0. past = TRUE BY <2>1
    <3>1. backfill' = [backfill EXCEPT ![j] = [old EXCEPT !.pc = "progress", !.pastEnd = TRUE]]
      BY <2>1 DEF UpsertEvents, BackfillInv
    <3>2. [old EXCEPT !.pc = "progress", !.pastEnd = TRUE] \in BackfillRun BY <1>1 DEF BackfillRun
    <3> HIDE DEF past
    <3>3. QED BY <1>1, <2>1, <3>1, <3>2 DEF BackfillRun
  <2>2. CASE ~past
    <3>0. past = FALSE BY <2>2
    <3>1. backfill' = [backfill EXCEPT ![j] = [old EXCEPT !.pc = "progress", !.pastEnd = past]]
      BY DEF UpsertEvents, BackfillInv
    <3> HIDE DEF past
    <3>2. [old EXCEPT !.pc = "progress", !.pastEnd = FALSE] \in BackfillRun BY <1>1 DEF BackfillRun
    <3>3. QED BY <1>1, <3>0, <3>1, <3>2 DEF BackfillRun
  <2>3. QED BY <2>1, <2>2
<1>3. /\ end \in Nat /\ old.page = (old.cursor + 1) .. end /\ old.page \subseteq DOMAIN Records
  BY <1>1, PageFacts
<1>4. decoded \in SUBSET Ours BY <1>3 DEF Decoded, Ours
<1>5. eventRows' = UpsertIgnoring(eventRows, decoded) /\ script' = script BY DEF UpsertEvents
<1>6. RowsGrow(eventRows, eventRows') /\ \A i \in decoded : Stored(eventRows', i)
  BY <1>4, <1>5, IgnoringStores
<1>7. \A i \in DOMAIN Records : JobAsked(i, run) <=> JobAsked(i, old)
  BY <1>2 DEF JobAsked, InRange
<1>8. JobUpTo(eventRows', run, end)
  <2>1. SUFFICES ASSUME NEW i \in DOMAIN Records, i <= end, JobAsked(i, run)
                 PROVE  Stored(eventRows', i)
    BY DEF JobUpTo
  <2>2. JobAsked(i, old) /\ i \in Ours BY <1>7, <2>1 DEF JobAsked
  <2>3. CASE i <= old.cursor
    BY <1>1, <1>6, <2>2, <2>3 DEF JobCovers, JobUpTo, RowsGrow
  <2>4. CASE ~(i <= old.cursor)
    <3>1. i \in old.page BY <1>1, <1>3, <2>1, <2>4, RecordFacts
    <3>2. i \in decoded BY <2>2, <3>1 DEF Decoded, JobAsked, InRange, Ours
    <3>3. QED BY <1>6, <3>2
  <2>5. QED BY <2>3, <2>4
<1>9. past => JobDone(eventRows', run)
  <2>1. SUFFICES ASSUME past, NEW k \in DOMAIN Records, JobAsked(k, run), Records[k].ledger # run.to
                 PROVE  Stored(eventRows', k)
    BY DEF JobDone
  <2>2. PICK i \in decoded : Records[i].ledger >= old.to BY <2>1
  <2>3. i \in old.page /\ i \in DOMAIN Records /\ i \in Nat /\ i <= end /\ k \in Nat
    BY <1>1, <1>3, <2>2, RecordFacts DEF Decoded
  <2>4. ~(i <= k)
    <3>1. ASSUME i <= k PROVE FALSE
      <4>1. Records[i].ledger <= Records[k].ledger BY <2>3, <3>1, BackfillAssumption
      <4>2. Records[k].ledger <= run.to BY <1>2, <2>1, RecordFacts DEF JobAsked, InRange, BackfillRun
      <4>3. Records[i].ledger \in Nat /\ Records[k].ledger \in Nat /\ run.to \in Nat
        BY <2>3, RecordFacts DEF BackfillRun
      <4>4. QED BY <1>2, <2>1, <2>2, <4>1, <4>2, <4>3
    <3>2. QED BY <3>1
  <2>5. k <= end BY <1>3, <2>3, <2>4
  <2>6. QED BY <1>8, <2>1, <2>5 DEF JobUpTo
<1>10. run.status = "completed" => JobDone(eventRows', run)
  BY <1>1, <1>2, <1>6, <1>7 DEF JobCovers, JobDone, JobAsked, RowsGrow
<1>11. JobCovers(eventRows', run) BY <1>1, <1>2, <1>8, <1>9, <1>10 DEF JobCovers
<1>12. QED BY <1>2, <1>5, <1>6, <1>11, BackfillOneJob

LEMMA BackfillProgress ==
    ASSUME BackfillInv, NEW j \in BackfillJobs, UpdateJobProgress(j)
    PROVE  BackfillInv'
<1> DEFINE old == backfill[j]
           end == PageEnd(old.cursor)
           size == Cardinality(old.page)
           over == old.pastEnd \/ size < HorizonPage
           run == [old EXCEPT !.cursor = @ + size, !.pc = IF over THEN "complete" ELSE "fetch"]
<1>1. /\ old \in BackfillRun /\ JobCovers(eventRows, old) /\ old.pc = "progress" /\ old.cursor \in Nat
      /\ old.page = PageAfter(old.cursor)
  BY DEF BackfillInv, UpdateJobProgress, BackfillRun, JobCovers
<1>2. backfill' = [backfill EXCEPT ![j] = run] BY DEF UpdateJobProgress, BackfillInv, BackfillRun
<1>3. /\ end \in Nat /\ size \in Nat /\ old.cursor + size = end
      /\ size < HorizonPage => end = Len(Records)
  BY <1>1, PageFacts DEF JobCovers
<1> HIDE DEF old, end, size
<1>4. /\ run \in BackfillRun /\ run.cursor = end /\ run.from = old.from /\ run.to = old.to
      /\ run.status = old.status
      /\ IF over THEN run.pc = "complete" ELSE run.pc = "fetch"
  BY <1>1, <1>3 DEF BackfillRun
<1> HIDE DEF run
<1>5. \A i \in DOMAIN Records : JobAsked(i, run) <=> JobAsked(i, old)
  BY <1>4 DEF JobAsked, InRange
<1>6. JobUpTo(eventRows, run, end) BY <1>1, <1>5 DEF JobCovers, JobUpTo, end
<1>7. over => JobDone(eventRows, run)
  <2>1. size < HorizonPage => \A i \in DOMAIN Records : i <= end BY <1>3, RecordFacts
  <2>2. size < HorizonPage => JobDone(eventRows, run) BY <1>6, <2>1 DEF JobUpTo, JobDone
  <2>3. old.pastEnd => JobDone(eventRows, run) BY <1>1, <1>4, <1>5 DEF JobCovers, JobDone
  <2>4. QED BY <2>2, <2>3
<1>8. run.status = "completed" => JobDone(eventRows, run)
  BY <1>1, <1>4, <1>5 DEF JobCovers, JobDone
<1>9. JobCovers(eventRows, run) BY <1>4, <1>6, <1>7, <1>8 DEF JobCovers
<1>10. eventRows' = eventRows /\ script' = script BY DEF UpdateJobProgress
<1>11. QED BY <1>2, <1>4, <1>9, <1>10, SameRows, BackfillOneJob

\* The ways a job ends: its status is completed only after the loop.
LEMMA BackfillEnds ==
    ASSUME BackfillInv, NEW j \in BackfillJobs, NEW pc \in {"fail", "ended"},
           NEW status \in {"none", "running", "completed", "failed", "ok", "needs_attention"},
           status = "completed" => backfill[j].pc = "complete" \/ backfill[j].status = "completed",
           backfill' = [backfill EXCEPT ![j] = [backfill[j] EXCEPT !.pc = pc, !.status = status]],
           eventRows' = eventRows, script' = script
    PROVE  BackfillInv'
<1> DEFINE old == backfill[j]
           run == [old EXCEPT !.pc = pc, !.status = status]
<1>1. old \in BackfillRun /\ JobCovers(eventRows, old) BY DEF BackfillInv
<1> HIDE DEF old
<1>2. /\ run \in BackfillRun /\ run.pc = pc /\ run.status = status
      /\ run.from = old.from /\ run.to = old.to
  BY <1>1 DEF BackfillRun
<1> HIDE DEF run
<1>3. \A i \in DOMAIN Records : JobAsked(i, run) <=> JobAsked(i, old)
  BY <1>2 DEF JobAsked, InRange
<1>4. JobCovers(eventRows, run) BY <1>1, <1>2, <1>3 DEF JobCovers, JobDone, old
<1>5. QED BY <1>2, <1>4, SameRows, BackfillOneJob DEF run, old

LEMMA BackfillJobEnds ==
    ASSUME BackfillInv, NEW j \in BackfillJobs, CompleteJob(j) \/ BackfillThrows(j) \/ FailJob(j)
    PROVE  BackfillInv'
<1>1. backfill \in [BackfillJobs -> BackfillRun] /\ backfill[j] \in BackfillRun
      /\ backfill[j].status \in {"none", "running", "completed", "failed", "ok", "needs_attention"}
  BY DEF BackfillInv, BackfillRun
<1>2. eventRows' = eventRows /\ script' = script BY DEF CompleteJob, BackfillThrows, FailJob
<1>3. CASE CompleteJob(j)
  <2>1. /\ backfill[j].pc = "complete"
        /\ backfill' = [backfill EXCEPT ![j] = [backfill[j] EXCEPT !.pc = "ended", !.status = "completed"]]
    BY <1>1, <1>3 DEF CompleteJob
  <2>2. QED BY <1>2, <2>1, BackfillEnds
<1>4. CASE backfill' = [backfill EXCEPT ![j].pc = "ended", ![j].status = "failed"]
  <2>1. backfill' = [backfill EXCEPT ![j] = [backfill[j] EXCEPT !.pc = "ended", !.status = "failed"]]
    BY <1>1, <1>4
  <2>2. QED BY <1>2, <2>1, BackfillEnds
<1>5. ASSUME NEW pc \in {"fail", "ended"}, backfill' = [backfill EXCEPT ![j].pc = pc] PROVE BackfillInv'
  <2>1. backfill[j] = [backfill[j] EXCEPT !.status = backfill[j].status] BY <1>1 DEF BackfillRun
  <2>2. backfill' = [backfill EXCEPT ![j] = [backfill[j] EXCEPT !.pc = pc, !.status = backfill[j].status]]
    BY <1>1, <1>5, <2>1 DEF BackfillRun
  <2>3. QED BY <1>1, <1>2, <2>2, BackfillEnds
<1>6. QED BY <1>3, <1>4, <1>5 DEF BackfillThrows, FailJob

LEMMA BackfillDies == ASSUME BackfillInv, ServerDies PROVE BackfillInv'
<1>1. ASSUME NEW j \in BackfillJobs
      PROVE  backfill'[j] \in BackfillRun /\ JobCovers(eventRows, backfill'[j])
  <2> DEFINE old == backfill[j]
  <2>1. old \in BackfillRun /\ JobCovers(eventRows, old) BY DEF BackfillInv
  <2>2. PICK pc \in {"none", "ended"} : backfill'[j] = [old EXCEPT !.pc = pc]
    BY DEF ServerDies
  <2> HIDE DEF old
  <2>3. /\ backfill'[j] \in BackfillRun /\ backfill'[j].pc = pc /\ backfill'[j].status = old.status
        /\ backfill'[j].from = old.from /\ backfill'[j].to = old.to
    BY <2>1, <2>2 DEF BackfillRun
  <2>4. \A i \in DOMAIN Records : JobAsked(i, backfill'[j]) <=> JobAsked(i, old)
    BY <2>3 DEF JobAsked, InRange
  <2>5. QED BY <2>1, <2>3, <2>4 DEF JobCovers, JobDone
<1>2. backfill' \in [BackfillJobs -> BackfillRun] BY <1>1 DEF ServerDies
<1>3. eventRows' = eventRows /\ script' = script BY DEF ServerDies
<1>4. QED BY <1>1, <1>2, <1>3 DEF BackfillInv

LEMMA BackfillRunScript == ASSUME BackfillInv, RunScript PROVE BackfillInv'
<1>1. PICK r \in Ranges, types \in SUBSET EventTypes, dry \in BOOLEAN :
         script' = [NewRun EXCEPT !.pc = "fetch", !.from = r[1], !.to = r[2],
                                  !.types = types, !.dryRun = dry]
  BY DEF RunScript
<1>2. r[1] \in Nat /\ r[2] \in Nat BY BackfillAssumption
<1>3. script' \in BackfillRun /\ script'.pc = "fetch" /\ script'.cursor = 0
  BY <1>1, <1>2 DEF NewRun, BackfillRun
<1>4. ScriptCovers(eventRows, script')
  <2>1. ScriptUpTo(eventRows, script', 0) BY RecordFacts DEF ScriptUpTo
  <2>2. QED BY <1>3, <2>1 DEF ScriptCovers
<1>5. eventRows' = eventRows /\ backfill' = backfill BY DEF RunScript
<1>6. QED BY <1>3, <1>4, <1>5, SameRows, BackfillScript

\* A step of the script that writes no row and keeps its options.
LEMMA ScriptGoes ==
    ASSUME BackfillInv, backfill' = backfill, eventRows' = eventRows, script' \in BackfillRun,
           script'.from = script.from, script'.to = script.to, script'.types = script.types,
           script'.dryRun <=> script.dryRun, script'.cursor = script.cursor,
           \/ script'.pc \in {"stopped", "fetch"} /\ script.pc \in {"fetch", "upsert", "stopped"}
           \/ /\ script'.pc = "upsert" /\ script.pc = "fetch"
              /\ script'.page = PageAfter(script.cursor) /\ script'.page # {}
           \/ /\ script'.pc = "reconcile" /\ script.pc = "fetch"
              /\ Len(Records) <= script.cursor
           \/ script'.pc = "done" /\ script.pc = "reconcile"
    PROVE  BackfillInv'
<1>1. \A i \in DOMAIN Records : ScriptAsked(i, script') <=> ScriptAsked(i, script)
  BY DEF ScriptAsked, ScriptTypes, InRange
<1>2. ScriptCovers(eventRows, script) /\ script.cursor \in Nat BY DEF BackfillInv, BackfillRun
<1>3. \A n : ScriptUpTo(eventRows, script, n) => ScriptUpTo(eventRows, script', n)
  BY <1>1 DEF ScriptUpTo
<1>4. Len(Records) <= script.cursor /\ ScriptUpTo(eventRows, script, script.cursor)
         => ScriptUpTo(eventRows, script, Len(Records))
  <2>1. Len(Records) <= script.cursor => \A i \in DOMAIN Records : i <= script.cursor
    BY <1>2, RecordFacts
  <2>2. QED BY <2>1 DEF ScriptUpTo
<1>5. ScriptCovers(eventRows, script') BY <1>2, <1>3, <1>4 DEF ScriptCovers
<1>6. QED BY <1>5, SameRows, BackfillScript

LEMMA BackfillScriptFetches == ASSUME BackfillInv, ScriptFetches PROVE BackfillInv'
<1> DEFINE page == PageAfter(script.cursor)
<1>1. script \in BackfillRun /\ script.cursor \in Nat BY DEF BackfillInv, BackfillRun
<1>2. page \in SUBSET Nat /\ (page = {} => Len(Records) <= script.cursor) BY <1>1, PageFacts
<1>3. script' = [script EXCEPT !.page = page, !.pc = IF page = {} THEN "reconcile" ELSE "upsert"]
  BY DEF ScriptFetches
<1> HIDE DEF page
<1>4. /\ script' \in BackfillRun /\ script'.from = script.from /\ script'.to = script.to
      /\ script'.types = script.types /\ script'.cursor = script.cursor /\ script'.page = page
      /\ script'.dryRun <=> script.dryRun
      /\ IF page = {} THEN script'.pc = "reconcile" ELSE script'.pc = "upsert"
  BY <1>1, <1>2, <1>3 DEF BackfillRun
<1>5. QED BY <1>2, <1>4, ScriptGoes DEF ScriptFetches, page

LEMMA BackfillScriptStops == ASSUME BackfillInv, ScriptThrows \/ ResumeScript PROVE BackfillInv'
<1>1. script \in BackfillRun BY DEF BackfillInv
<1>2. /\ script' \in BackfillRun /\ script'.from = script.from /\ script'.to = script.to
      /\ script'.types = script.types /\ script'.cursor = script.cursor
      /\ script'.dryRun <=> script.dryRun
      /\ script'.pc \in {"stopped", "fetch"}
  BY <1>1 DEF ScriptThrows, ResumeScript, BackfillRun
<1>3. QED BY <1>2, ScriptGoes DEF ScriptThrows, ResumeScript

LEMMA BackfillReconcile == ASSUME BackfillInv, Reconcile PROVE BackfillInv'
<1>1. script \in BackfillRun BY DEF BackfillInv
<1>2. PICK status \in {"ok", "needs_attention"} :
         script' = [script EXCEPT !.pc = "done", !.status = status]
  BY DEF Reconcile
<1>3. /\ script' \in BackfillRun /\ script'.from = script.from /\ script'.to = script.to
      /\ script'.types = script.types /\ script'.cursor = script.cursor
      /\ script'.dryRun <=> script.dryRun
      /\ script'.pc = "done"
  BY <1>1, <1>2 DEF BackfillRun
<1>4. QED BY <1>3, ScriptGoes DEF Reconcile

LEMMA BackfillScriptUpserts == ASSUME BackfillInv, ScriptUpserts PROVE BackfillInv'
<1> DEFINE decoded == ScriptDecoded(script)
           end == PageEnd(script.cursor)
           size == Cardinality(script.page)
<1>1. /\ script \in BackfillRun /\ script.cursor \in Nat /\ ScriptCovers(eventRows, script)
      /\ script.pc = "upsert" /\ script.page = PageAfter(script.cursor) /\ script.page # {}
  BY DEF BackfillInv, BackfillRun, ScriptUpserts, ScriptCovers
<1>2. /\ end \in Nat /\ size \in Nat /\ script.cursor + size = end
      /\ size < HorizonPage => end = Len(Records)
      /\ script.page = (script.cursor + 1) .. end /\ script.page \subseteq DOMAIN Records
  BY <1>1, PageFacts
<1> HIDE DEF end, size
<1>3. /\ script' \in BackfillRun /\ script'.from = script.from /\ script'.to = script.to
      /\ script'.types = script.types
      /\ script'.dryRun <=> script.dryRun
      /\ \/ script'.pc = "reconcile" /\ end = Len(Records)
         \/ script'.pc = "fetch" /\ script'.cursor = end
  <2>1. CASE size < HorizonPage
    <3>1. script' = [script EXCEPT !.pc = "reconcile"] BY <2>1 DEF ScriptUpserts, size
    <3>2. QED BY <1>1, <1>2, <2>1, <3>1 DEF BackfillRun
  <2>2. CASE ~(size < HorizonPage)
    <3>1. script' = [script EXCEPT !.pc = "fetch", !.cursor = @ + size]
      BY <2>2 DEF ScriptUpserts, size
    <3>2. QED BY <1>1, <1>2, <3>1 DEF BackfillRun
  <2>3. QED BY <2>1, <2>2
<1>4. decoded \in SUBSET Ours
  BY <1>1, <1>2, ScriptAsksOurs DEF ScriptDecoded, ScriptTypes
<1>5. /\ RowsGrow(eventRows, eventRows')
      /\ ~script.dryRun => \A i \in decoded : Repaired(eventRows', i)
  <2>1. CASE script.dryRun BY <2>1, SameRows DEF ScriptUpserts
  <2>2. CASE ~script.dryRun
    <3>1. eventRows' = UpsertReplacing(eventRows, decoded) BY <2>2 DEF ScriptUpserts
    <3>2. QED BY <1>4, <3>1, ReplacingRepairs
  <2>3. QED BY <2>1, <2>2
<1>6. ~script.dryRun => ScriptUpTo(eventRows', script', end)
  <2>1. SUFFICES ASSUME ~script.dryRun, NEW i \in DOMAIN Records, i <= end, ScriptAsked(i, script')
                 PROVE  Repaired(eventRows', i)
    BY DEF ScriptUpTo
  <2>2. ScriptAsked(i, script) /\ i \in Ours
    BY <1>1, <1>3, <2>1, ScriptAsksOurs DEF ScriptAsked, ScriptTypes, InRange
  <2>3. CASE i <= script.cursor
    BY <1>1, <1>5, <2>1, <2>2, <2>3 DEF ScriptCovers, ScriptUpTo, RowsGrow
  <2>4. CASE ~(i <= script.cursor)
    <3>0. i \in Nat BY RecordFacts
    <3>1. i \in script.page
      <4>1. script.cursor + 1 <= i BY <1>1, <2>4, <3>0
      <4>2. QED BY <1>2, <2>1, <3>0, <4>1
    <3>2. i \in decoded BY <2>2, <3>1 DEF ScriptDecoded, ScriptAsked, ScriptTypes, InRange
    <3>3. QED BY <1>5, <2>1, <3>2
  <2>5. QED BY <2>3, <2>4
<1>7. ScriptCovers(eventRows', script') BY <1>3, <1>6 DEF ScriptCovers
<1>8. backfill' = backfill BY DEF ScriptUpserts
<1>9. QED BY <1>3, <1>5, <1>7, <1>8, BackfillScript

LEMMA BackfillStep == BackfillInv /\ [BackfillNext]_backfillVars => BackfillInv'
<1> SUFFICES ASSUME BackfillInv, [BackfillNext]_backfillVars PROVE BackfillInv' OBVIOUS
<1>1. CASE UNCHANGED backfillVars BY <1>1 DEF backfillVars, BackfillInv
<1>2. CASE BackfillNext
  BY <1>2, BackfillStart, BackfillFetch, BackfillUpsert, BackfillProgress, BackfillJobEnds, BackfillDies,
     BackfillRunScript, BackfillScriptFetches, BackfillScriptUpserts, BackfillScriptStops,
     BackfillReconcile DEF BackfillNext
<1>3. QED BY <1>1, <1>2

\* For any contract history, page size and ranges, with any number of admin jobs and
\* the script on one table, requests failing and processes dying: a completed job has
\* stored every transaction before its last ledger, and a script run that ended has
\* rewritten every transaction it was asked for (runBackfill, main).
THEOREM BackfillsCover == BackfillSpec => []BackfillCovers
<1>1. ASSUME BackfillInv PROVE CompletedJobsCover
  <2>1. SUFFICES ASSUME NEW j \in BackfillJobs, backfill[j].status = "completed",
                        NEW i \in DOMAIN Records, Records[i].type \in EventTypes,
                        Records[i].ledger \in backfill[j].from .. (backfill[j].to - 1)
                 PROVE  eventRows[Records[i].tx] # NoRow
    BY DEF CompletedJobsCover, Wanted
  <2>2. i \in Ours BY <2>1, RecordFacts DEF EventTypes, Ours
  <2>3. backfill[j].from \in Nat /\ backfill[j].to \in Nat /\ Records[i].ledger \in Nat
    BY <1>1, RecordFacts DEF BackfillInv, BackfillRun
  <2>4. InRange(i, backfill[j]) /\ Records[i].ledger # backfill[j].to
    BY <2>1, <2>3 DEF InRange
  <2>5. QED BY <1>1, <2>1, <2>2, <2>4 DEF BackfillInv, JobCovers, JobDone, JobAsked, Stored
<1>2. ASSUME BackfillInv PROVE ScriptRepairsRange
  <2>1. SUFFICES ASSUME script.pc = "done", ~script.dryRun,
                        NEW i \in DOMAIN Records, ScriptAsked(i, script)
                 PROVE  eventRows[Records[i].tx].fresh
    BY DEF ScriptRepairsRange, Wanted, ScriptAsked, ScriptTypes, InRange
  <2>2. i <= Len(Records) BY RecordFacts
  <2>3. QED BY <1>2, <2>1, <2>2 DEF BackfillInv, ScriptCovers, ScriptUpTo, Repaired
<1>3. QED BY <1>1, <1>2, BackfillInitial, BackfillStep, PTL DEF BackfillSpec, BackfillCovers

-----------------------------------------------------------------------------
(* Migrations are applied once, and reported applied only when they are,   *)
(* for any number of replicas, migrations, failures and restarts.          *)

MigrationTypeOK ==
    /\ schema \in [Managed -> Nat]
    /\ advisory \in Replicas \union {"free"}
    /\ replica \in [Replicas ->
          [pc : {"boot", "lock", "select", "apply", "serving", "exited"},
           status : {"pending", "current", "failed"},
           pending : SUBSET Managed, dryRun : BOOLEAN]]
    /\ migrationFaults \in Nat

\* A replica past the lock is the one that holds it.
LockHeld == \A r \in Replicas : replica[r].pc \in {"select", "apply"} => advisory = r

\* What the holder is about to apply is still what is missing.
SelectionFresh == \A r \in Replicas : replica[r].pc = "apply" => replica[r].pending = Managed \ Applied

\* The inductive invariant: MigrationsSound needs to know that nobody applies a
\* selection another replica has overtaken.
MigrationInv == MigrationTypeOK /\ LockHeld /\ SelectionFresh /\ MigrationsSound

LEMMA MigrationInvInit == MigrationInit => MigrationInv
BY DEF MigrationInit, MigrationInv, MigrationTypeOK, LockHeld, SelectionFresh, MigrationsSound, Applied

\* A step that leaves the schema alone, keeps the lock with the replicas past it,
\* and reports "current" only of a complete schema.
LEMMA SchemaUntouched ==
    ASSUME MigrationInv, NEW r \in Replicas, UNCHANGED schema, MigrationTypeOK',
           \A q \in Replicas \ {r} : replica'[q] = replica[q],
           \A q \in Replicas \ {r} : replica[q].pc \in {"select", "apply"} => advisory' = advisory,
           replica'[r].pc \in {"select", "apply"} => advisory' = r,
           replica'[r].pc = "apply" => replica'[r].pending = Managed \ Applied,
           replica'[r].status = "current" => Applied = Managed
    PROVE  MigrationInv'
<1>1. Applied' = Applied
  BY DEF Applied
<1>2. LockHeld'
  BY DEF MigrationInv, LockHeld
<1>3. SelectionFresh'
  BY <1>1 DEF MigrationInv, SelectionFresh
<1>4. MigrationsSound'
  BY <1>1 DEF MigrationInv, MigrationsSound
<1> QED BY <1>2, <1>3, <1>4 DEF MigrationInv

LEMMA MigrationInvStep == MigrationInv /\ [MigrationNext]_migrationVars => MigrationInv'
<1> SUFFICES ASSUME MigrationInv, [MigrationNext]_migrationVars PROVE MigrationInv'
  OBVIOUS
<1> USE MigrationAssumption
<1>1. CASE UNCHANGED migrationVars
  BY <1>1 DEF migrationVars, MigrationInv, MigrationTypeOK, LockHeld, SelectionFresh, MigrationsSound, Applied
<1>2. ASSUME NEW r \in Replicas, ReadApplied(r) PROVE MigrationInv'
  <2>1. MigrationTypeOK'
    BY <1>2 DEF MigrationInv, MigrationTypeOK, ReadApplied, Return
  <2>2. \/ replica' = [replica EXCEPT ![r].status = "current", ![r].pc = "serving"] /\ Applied = Managed
        \/ replica' = [replica EXCEPT ![r].status = "pending", ![r].pc = "serving"]
        \/ replica' = [replica EXCEPT ![r].pc = "lock", ![r].pending = Managed \ Applied]
    BY <1>2 DEF ReadApplied, Return, Applied
  <2> QED BY <1>2, <2>1, <2>2, SchemaUntouched DEF MigrationInv, MigrationTypeOK, MigrationsSound, ReadApplied
<1>3. ASSUME NEW r \in Replicas, TakeLock(r) PROVE MigrationInv'
  <2>1. MigrationTypeOK'
    BY <1>3 DEF MigrationInv, MigrationTypeOK, TakeLock
  <2>2. \A q \in Replicas : replica[q].pc \notin {"select", "apply"}
    BY <1>3 DEF MigrationInv, LockHeld, TakeLock
  <2> QED BY <1>3, <2>1, <2>2, SchemaUntouched DEF MigrationInv, MigrationTypeOK, MigrationsSound, TakeLock
<1>4. ASSUME NEW r \in Replicas, LosesLock(r) PROVE MigrationInv'
  <2>1. MigrationTypeOK'
    BY <1>4 DEF MigrationInv, MigrationTypeOK, LosesLock, Return
  <2> QED BY <1>4, <2>1, SchemaUntouched DEF MigrationInv, MigrationTypeOK, LosesLock, Return
<1>5. ASSUME NEW r \in Replicas, SelectPending(r) PROVE MigrationInv'
  <2>1. MigrationTypeOK'
    BY <1>5 DEF MigrationInv, MigrationTypeOK, SelectPending
  <2> QED BY <1>5, <2>1, SchemaUntouched DEF MigrationInv, MigrationTypeOK, LockHeld, MigrationsSound, SelectPending
<1>6. ASSUME NEW r \in Replicas, ApplyMigrations(r) PROVE MigrationInv'
  <2>1. MigrationTypeOK'
    BY <1>6 DEF MigrationInv, MigrationTypeOK, ApplyMigrations, Return
  <2>2. replica[r].pending = Managed \ Applied
    BY <1>6 DEF MigrationInv, SelectionFresh, ApplyMigrations
  <2>3. \A m \in Managed : schema[m] <= 1 /\ schema[m] \in Nat
    BY DEF MigrationInv, MigrationsSound, MigrationTypeOK
  <2>4. \A m \in Managed : schema'[m] = 1
    <3> SUFFICES ASSUME NEW m \in Managed PROVE schema'[m] = 1
      OBVIOUS
    <3>1. CASE schema[m] > 0
      BY <1>6, <2>2, <2>3, <3>1 DEF ApplyMigrations, Applied
    <3>2. CASE schema[m] = 0
      BY <1>6, <2>2, <3>2 DEF ApplyMigrations, Applied
    <3> QED BY <2>3, <3>1, <3>2
  <2>5. Applied' = Managed
    BY <2>4 DEF Applied
  <2>6. \A q \in Replicas : replica'[q].pc \notin {"select", "apply"}
    BY <1>6 DEF MigrationInv, MigrationTypeOK, LockHeld, ApplyMigrations, Return
  <2> QED BY <2>1, <2>4, <2>5, <2>6 DEF MigrationInv, LockHeld, SelectionFresh, MigrationsSound
<1>7. ASSUME NEW r \in Replicas, MigrationFails(r) PROVE MigrationInv'
  <2>1. MigrationTypeOK'
    BY <1>7 DEF MigrationInv, MigrationTypeOK, MigrationFails, MigrationFault, Return
  <2>2. \A q \in Replicas \ {r} : replica[q].pc \in {"select", "apply"} => advisory' = advisory
    BY <1>7 DEF MigrationInv, LockHeld, MigrationFails
  <2> QED BY <1>7, <2>1, <2>2, SchemaUntouched DEF MigrationInv, MigrationTypeOK, MigrationFails, Return
<1>8. ASSUME NEW r \in Replicas, ReplicaRestarts(r) PROVE MigrationInv'
  <2>1. MigrationTypeOK'
    <3>1. replica' \in [Replicas ->
            [pc : {"boot", "lock", "select", "apply", "serving", "exited"},
             status : {"pending", "current", "failed"},
             pending : SUBSET Managed, dryRun : BOOLEAN]]
      BY <1>8 DEF MigrationInv, MigrationTypeOK, ReplicaRestarts
    <3> QED BY <1>8, <3>1 DEF MigrationInv, MigrationTypeOK, ReplicaRestarts, MigrationFault
  <2>2. \A q \in Replicas \ {r} : replica[q].pc \in {"select", "apply"} => advisory' = advisory
    BY <1>8 DEF MigrationInv, LockHeld, ReplicaRestarts
  <2> QED BY <1>8, <2>1, <2>2, SchemaUntouched DEF MigrationInv, MigrationTypeOK, ReplicaRestarts
<1> QED BY <1>1, <1>2, <1>3, <1>4, <1>5, <1>6, <1>7, <1>8 DEF MigrationNext, MigrateStep

\* Replicas that boot together apply no migration twice, and none of them reports
\* "current" while a migration is missing (migrate.ts, runMigrations).
THEOREM MigrationsAppliedOnce == MigrationSpec => []MigrationsSound
<1>1. MigrationInv => MigrationsSound
  BY DEF MigrationInv
<1> QED BY <1>1, MigrationInvInit, MigrationInvStep, PTL DEF MigrationSpec

=============================================================================

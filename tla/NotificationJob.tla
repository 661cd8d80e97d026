-------------------------- MODULE NotificationJob --------------------------
(***************************************************************************)
(* The notification job (backend/src/jobs/notificationJob.js).  cron       *)
(* starts it every five minutes in every process, also when an earlier     *)
(* execution is still at work; a key in Redis with a time to live is to    *)
(* keep executions apart.  Which streams are near a milestone is left      *)
(* open.                                                                   *)
(***************************************************************************)
EXTENDS Integers, FiniteSets

CONSTANTS
    Executions,          \* executions of processNotifications that may overlap
    NoticeStreams,       \* rows the query may return
    WebhookTries,        \* MAX_RETRIES
    MaxNoticeFaults      \* bound: failing calls of Redis, RPC and database, crashes

ASSUME NoticeAssumption ==
    /\ IsFiniteSet(Executions) /\ IsFiniteSet(NoticeStreams)
    /\ WebhookTries \in Nat \ {0} /\ MaxNoticeFaults \in Nat

VARIABLES
    jobLock,       \* notification_job_lock is in Redis
    execution,     \* per execution: [pc, rows, tries]
    outlived,      \* history: a lock expired under an execution still at work
    noticeFaults

noticeVars == <<jobLock, execution, outlived, noticeFaults>>

NotStarted == [pc |-> "idle", rows |-> {}, tries |-> 0]
AtWork(p) == execution[p].pc # "idle"
Others(p) == {q \in Executions \ {p} : AtWork(q)}

NoticeInit ==
    /\ jobLock = FALSE
    /\ execution = [p \in Executions |-> NotStarted]
    /\ outlived = FALSE
    /\ noticeFaults = 0

NoticeFault == noticeFaults < MaxNoticeFaults /\ noticeFaults' = noticeFaults + 1

\* The history is about the executions now at work.
Ended(p) == /\ execution' = [execution EXCEPT ![p] = NotStarted]
            /\ outlived' = (outlived /\ Others(p) # {})

\* Mutant: the key is set whether it is there or not.
TakeJobLock_NoNX(p) ==
    /\ ~AtWork(p)
    /\ jobLock' = TRUE
    /\ execution' = [execution EXCEPT ![p].pc = "query"]
    /\ UNCHANGED <<outlived, noticeFaults>>

\* SET NX EX 240; an execution that does not get the lock returns.
TakeJobLock(p) ==
    /\ ~AtWork(p)
    /\ ~jobLock
    /\ jobLock' = TRUE
    /\ execution' = [execution EXCEPT ![p].pc = "query"]
    /\ UNCHANGED <<outlived, noticeFaults>>

\* The answer to SET is lost: the key stays and nobody works under it.
TakeJobLockFails(p) ==
    /\ ~AtWork(p)
    /\ NoticeFault
    /\ jobLock' = TRUE
    /\ UNCHANGED <<execution, outlived>>

\* getLatestLedger and fetchUpcomingNotifications.
FetchUpcomingNotifications(p, rows) ==
    /\ execution[p].pc = "query"
    /\ execution' = [execution EXCEPT ![p] = [pc |-> "dispatch", rows |-> rows, tries |-> 0]]
    /\ UNCHANGED <<jobLock, outlived, noticeFaults>>

FetchFails(p) ==
    /\ execution[p].pc = "query"
    /\ NoticeFault
    /\ execution' = [execution EXCEPT ![p].pc = "release"]
    /\ UNCHANGED <<jobLock, outlived>>

\* A stream is done with: its notices went out, or its webhook failed for the last
\* time or its mail did, which processNotifications logs.
DispatchNotification(p, s) ==
    /\ execution[p].pc = "dispatch" /\ s \in execution[p].rows
    /\ execution' = [execution EXCEPT ![p].rows = @ \ {s}, ![p].tries = 0]
    /\ UNCHANGED <<jobLock, outlived, noticeFaults>>

\* sendWebhook waits and tries the stream it is at again.
SendWebhookRetries(p) ==
    /\ execution[p].pc = "dispatch" /\ execution[p].rows # {}
    /\ execution[p].tries + 1 < WebhookTries
    /\ execution' = [execution EXCEPT ![p].tries = @ + 1]
    /\ UNCHANGED <<jobLock, outlived, noticeFaults>>

DispatchDone(p) ==
    /\ execution[p].pc = "dispatch" /\ execution[p].rows = {}
    /\ execution' = [execution EXCEPT ![p].pc = "release"]
    /\ UNCHANGED <<jobLock, outlived, noticeFaults>>

\* DEL in the finally block: the key goes, whoever set it last.
ReleaseJobLock(p) ==
    /\ execution[p].pc = "release"
    /\ jobLock' = FALSE
    /\ Ended(p)
    /\ UNCHANGED noticeFaults

\* DEL fails, or the process dies: the key is left to its time to live.
ExecutionDies(p) ==
    /\ AtWork(p)
    /\ NoticeFault
    /\ Ended(p)
    /\ UNCHANGED jobLock

\* Mutant: the key has no time to live.
LockExpires_Never ==
    /\ FALSE
    /\ UNCHANGED noticeVars

\* 240 seconds have passed since SET; an execution may take longer than that.
LockExpires ==
    /\ jobLock
    /\ jobLock' = FALSE
    /\ outlived' = (\E p \in Executions : AtWork(p))
    /\ UNCHANGED <<execution, noticeFaults>>

ExecutionStep(p) ==
    \/ \E rows \in SUBSET NoticeStreams : FetchUpcomingNotifications(p, rows)
    \/ \E s \in NoticeStreams : DispatchNotification(p, s)
    \/ SendWebhookRetries(p) \/ DispatchDone(p) \/ ReleaseJobLock(p)

NoticeNext ==
    \/ \E p \in Executions :
          TakeJobLock(p) \/ TakeJobLockFails(p) \/ FetchFails(p) \/ ExecutionStep(p) \/ ExecutionDies(p)
    \/ LockExpires

\* Redis drops the key in time, cron fires for ever, and each attempt of an
\* execution ends (fetch has a time-out).
NoticeFairness ==
    /\ WF_noticeVars(LockExpires)
    /\ WF_noticeVars(\E p \in Executions : TakeJobLock(p))
    /\ \A p \in Executions : WF_noticeVars(ExecutionStep(p))

NoticeSpec == NoticeInit /\ [][NoticeNext]_noticeVars /\ NoticeFairness

-----------------------------------------------------------------------------
(* Properties.                                                             *)

\* Two executions are at work together, and send the same notices, only if one of
\* them outlived its lock: neither a lost answer, a crash nor a release lets a second
\* one in otherwise (lines 111-139).  After such an expiry the release of the first
\* removes the lock of the second, so more may follow.
OverlapNeedsExpiry == Cardinality({p \in Executions : AtWork(p)}) > 1 => outlived

\* A lock that nobody works under any more, its holder dead or its DEL or the answer
\* to its SET lost, does not stop the job: a later execution works again (line 114).
NoticesGoOn ==
    (jobLock /\ \A p \in Executions : ~AtWork(p)) ~> (\E p \in Executions : AtWork(p))

\* Both (processNotifications).
NotificationsSound == []OverlapNeedsExpiry /\ NoticesGoOn

=============================================================================

------------------------ MODULE BalanceReconciliation ------------------------
(***************************************************************************)
(* The daily reconciliation job (jobs/balanceReconciliation.ts) beside the *)
(* indexer.  recomputeBalance (balanceTracker.ts) runs its queries one by  *)
(* one on the pool, outside any transaction, so indexer transactions may   *)
(* commit between them.                                                    *)
(***************************************************************************)
EXTENDS StreamIndexer

VARIABLE job   \* the stream being recomputed and what was read so far

jobVars == <<vars, job>>

IdleJob == [pc |-> "idle", stream |-> Null, claimed |-> 0, deposit |-> 0]

\* The next stream_balances row of the job's list, and SELECT SUM(amount) ...
\* WHERE recipient = $1 AND event_type = 'TokensClaimed'.
ReadClaimSum ==
    /\ job.pc = "idle"
    /\ \E r \in Recipients :
         /\ db.bal[r] # ZeroBalance
         /\ job' = [pc |-> "deposit", stream |-> r,
                    claimed |-> ClaimSum(db.rows, r), deposit |-> 0]
    /\ UNCHANGED vars

\* SELECT total_deposit of the same row.
ReadDeposit ==
    /\ job.pc = "deposit"
    /\ job' = [job EXCEPT !.pc = "write", !.deposit = db.bal[job.stream].deposit]
    /\ UNCHANGED vars

\* Mutant: remaining is reset to the deposit.
WriteBalance_ResetsRemaining ==
    /\ job.pc = "write"
    /\ owner = Null
    /\ db' = [db EXCEPT !.bal[job.stream].remaining = job.deposit]
    /\ work' = db'
    /\ job' = IdleJob
    /\ UNCHANGED <<chainVars, cursor, owner, at, running, timer, pc, tickVars, faults>>

\* The UPDATE of claimed_total and remaining.  It waits for the row locks of
\* an open transaction.
WriteBalance ==
    /\ job.pc = "write"
    /\ owner = Null
    /\ db' = [db EXCEPT !.bal[job.stream].claimed   = job.claimed,
                        !.bal[job.stream].remaining = job.deposit - job.claimed]
    /\ work' = db'
    /\ job' = IdleJob
    /\ UNCHANGED <<chainVars, cursor, owner, at, running, timer, pc, tickVars, faults>>

\* A query fails: counted, and the job goes on with the next stream.
JobFails ==
    /\ job.pc # "idle"
    /\ faults < MaxFaults
    /\ faults' = faults + 1
    /\ job' = IdleJob
    /\ UNCHANGED <<chainVars, cursor, tableVars, running, timer, pc, tickVars>>

JobStep == ReadClaimSum \/ ReadDeposit \/ WriteBalance

JobInit == Init /\ job = IdleJob

JobNext ==
    \/ Next /\ UNCHANGED job
    \/ JobStep
    \/ JobFails

\* cron starts the job every day.
JobFairSpec == /\ JobInit
               /\ [][JobNext]_jobVars
               /\ WF_jobVars(~running /\ Start /\ UNCHANGED job)
               /\ \A l \in Slots : WF_jobVars(TickStep(l) /\ UNCHANGED job)
               /\ \A r \in Recipients : SF_jobVars(ReadClaimSum /\ job'.stream = r)
               /\ WF_jobVars(ReadDeposit)
               /\ SF_jobVars(WriteBalance)

-----------------------------------------------------------------------------
\* Whatever the job overwrote with stale reads, balances and events agree in
\* the end: a later run of the job repairs what an earlier one broke.
EventuallyReconciled == <>[]BalancesMatchEvents
=============================================================================

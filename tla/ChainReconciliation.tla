------------------------ MODULE ChainReconciliation ------------------------
(***************************************************************************)
(* The daily comparison of streams with the chain (reconciliationJob.ts).  *)
(* Mismatches are inserted in a transaction on one connection, the record  *)
(* of the run is inserted through the pool, outside that transaction and   *)
(* before its COMMIT.  getClaimableBatch is a placeholder: it returns no   *)
(* amount, or throws when the RPC address is refused, the same way in      *)
(* every batch, so amounts are never compared and every active stream is   *)
(* reported missing.                                                       *)
(***************************************************************************)
EXTENDS Integers, FiniteSets

CONSTANTS
    ChainRuns,         \* jobIds
    ActiveStreams,     \* number of active streams in the database
    OtherStreams,      \* number of the others
    MaxChainFaults     \* bound: failing queries

ASSUME ChainAssumption ==
    IsFiniteSet(ChainRuns) /\ ActiveStreams \in Nat /\ OtherStreams \in Nat /\ MaxChainFaults \in Nat

VARIABLES
    rpcThrows,     \* the RPC address is refused
    chainRun,      \* per run: [pc, dryRun, active, other, found, alerted]
    failureRows,   \* committed rows of reconciliation_failures, per run
    runRow,        \* the row of reconciliation_runs: [status, failures], or NoRun
    chainFaults

chainVars == <<rpcThrows, chainRun, failureRows, runRow, chainFaults>>

NoRun == [status |-> "none", failures |-> 0]

ChainInit ==
    /\ rpcThrows \in BOOLEAN
    /\ chainRun \in [ChainRuns -> {[pc |-> "none", dryRun |-> d, active |-> ActiveStreams, other |-> OtherStreams,
                                    found |-> 0, alerted |-> FALSE] : d \in BOOLEAN}]
    /\ failureRows = [j \in ChainRuns |-> 0]
    /\ runRow = [j \in ChainRuns |-> NoRun]
    /\ chainFaults = 0

ChainFault == chainFaults < MaxChainFaults /\ chainFaults' = chainFaults + 1

\* BEGIN and fetchAllStreams.
StartRun(j) ==
    /\ chainRun[j].pc = "none"
    /\ chainRun' = [chainRun EXCEPT ![j].pc = "compare"]
    /\ UNCHANGED <<rpcThrows, failureRows, runRow, chainFaults>>

\* One stream of a batch, with recordMismatch; one of them is left the less.
CompareStream(j, kind) ==
    /\ chainRun[j].pc = "compare"
    /\ chainRun[j][kind] > 0
    /\ chainRun' = [chainRun EXCEPT ![j][kind] = @ - 1,
                                    ![j].found = @ + IF kind = "active" \/ rpcThrows THEN 1 ELSE 0]
    /\ UNCHANGED <<rpcThrows, failureRows, runRow, chainFaults>>

\* An insert fails: the batch's catch counts the mismatch of a stream once more,
\* its insert fails too, for the transaction is aborted, and the run fails.
RecordFails(j) ==
    /\ ChainFault
    /\ chainRun[j].pc = "compare" /\ ~chainRun[j].dryRun
    /\ chainRun[j].active > 0 \/ (rpcThrows /\ chainRun[j].other > 0)
    /\ chainRun' = [chainRun EXCEPT ![j].pc = "failed", ![j].found = @ + IF rpcThrows THEN 1 ELSE 2]
    /\ UNCHANGED <<rpcThrows, failureRows, runRow>>

\* sendSlackAlert, before anything is committed.
SendSlackAlert(j) ==
    /\ chainRun[j].pc = "compare"
    /\ chainRun[j].active = 0 /\ chainRun[j].other = 0
    /\ chainRun' = [chainRun EXCEPT ![j].pc = "save", ![j].alerted = chainRun[j].found > 0]
    /\ UNCHANGED <<rpcThrows, failureRows, runRow, chainFaults>>

\* Mutant: COMMIT comes before the record of the run.
SaveReconciliationRun_AfterCommit(j) ==
    /\ chainRun[j].pc = "save"
    /\ chainRun' = [chainRun EXCEPT ![j].pc = "commit"]
    /\ failureRows' = [failureRows EXCEPT ![j] = IF chainRun[j].dryRun THEN 0 ELSE chainRun[j].found]
    /\ UNCHANGED <<rpcThrows, runRow, chainFaults>>

\* A dry run writes no record.
SaveReconciliationRun(j) ==
    /\ chainRun[j].pc = "save"
    /\ chainRun' = [chainRun EXCEPT ![j].pc = "commit"]
    /\ runRow' = IF chainRun[j].dryRun THEN runRow
                 ELSE [runRow EXCEPT ![j] = [status |-> "completed", failures |-> chainRun[j].found]]
    /\ UNCHANGED <<rpcThrows, failureRows, chainFaults>>

\* COMMIT, or the ROLLBACK of a dry run.
EndTransaction(j) ==
    /\ chainRun[j].pc = "commit"
    /\ chainRun' = [chainRun EXCEPT ![j].pc = "done"]
    /\ failureRows' = IF chainRun[j].dryRun THEN failureRows ELSE [failureRows EXCEPT ![j] = chainRun[j].found]
    /\ UNCHANGED <<rpcThrows, runRow, chainFaults>>

\* A query fails: fetchAllStreams, the insert of the record, or COMMIT, which may
\* have been executed all the same.
QueryFails(j) ==
    /\ ChainFault
    /\ \/ chainRun[j].pc = "compare" /\ chainRun[j].active = ActiveStreams /\ chainRun[j].other = OtherStreams
       \/ chainRun[j].pc = "save" /\ ~chainRun[j].dryRun
       \/ chainRun[j].pc = "commit"
    /\ chainRun' = [chainRun EXCEPT ![j].pc = "failed"]
    /\ failureRows' \in {failureRows} \union
          (IF chainRun[j].pc = "commit" /\ ~chainRun[j].dryRun
           THEN {[failureRows EXCEPT ![j] = chainRun[j].found]} ELSE {})
    /\ UNCHANGED <<rpcThrows, runRow>>

\* The catch: ROLLBACK, then the record of the failed run, unless the ROLLBACK or
\* that insert throws, as it must when the run has a record (the id is the key).
FailRun(j, saves) ==
    /\ chainRun[j].pc = "failed"
    /\ chainRun' = [chainRun EXCEPT ![j].pc = "done"]
    /\ runRow' = IF saves /\ ~chainRun[j].dryRun /\ runRow[j] = NoRun
                 THEN [runRow EXCEPT ![j] = [status |-> "failed", failures |-> chainRun[j].found]] ELSE runRow
    /\ UNCHANGED <<rpcThrows, failureRows, chainFaults>>

ChainNext ==
    \E j \in ChainRuns :
        \/ StartRun(j) \/ RecordFails(j) \/ SendSlackAlert(j) \/ SaveReconciliationRun(j)
        \/ EndTransaction(j) \/ QueryFails(j)
        \/ \E kind \in {"active", "other"} : CompareStream(j, kind)
        \/ \E saves \in BOOLEAN : FailRun(j, saves)

ChainSpec == ChainInit /\ [][ChainNext]_chainVars

-----------------------------------------------------------------------------
(* Properties.                                                             *)

\* Mismatches in the table always belong to a run on record as completed with that
\* many of them, whichever query failed where; a dry run leaves nothing behind, and
\* a run on record as failed has left no mismatch (lines 367-398).
MismatchesOnRecord ==
    \A j \in ChainRuns :
        /\ failureRows[j] > 0 => runRow[j] = [status |-> "completed", failures |-> failureRows[j]]
        /\ chainRun[j].dryRun => runRow[j] = NoRun

=============================================================================

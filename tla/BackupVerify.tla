---------------------------- MODULE BackupVerify ----------------------------
(***************************************************************************)
(* The Lambda that restores the latest snapshot into a temporary database, *)
(* counts its tables and deletes it (infra/lambda/backup-verify/index.js). *)
(* terraform/backup-verification.tf gives it one execution at a time,      *)
(* shared by the weekly verification and the half-hourly cleanup, and      *)
(* kills it after fifteen minutes.  RDS is external: it may refuse a       *)
(* command, carry one out whose answer is lost, and takes its time to      *)
(* restore and to delete.                                                  *)
(***************************************************************************)
EXTENDS Integers, FiniteSets

CONSTANTS
    MaxVerifies,      \* bound: verifications started
    ExpectedTables,   \* number of EXPECTED_TABLES
    MaxBackupFaults   \* bound: refused commands, lost answers, kills

ASSUME BackupAssumption ==
    MaxVerifies \in Nat /\ ExpectedTables \in Nat \ {0} /\ MaxBackupFaults \in Nat

VARIABLES
    temporary,    \* per verification: the state of the instance it restored
    lambda,       \* the execution: [pc, kind, run, strays, instanceId, counted, ok]
    verifies,     \* number of verifications started
    verdict,      \* per verification: the metric published, -1 if none was
    backupFaults

backupVars == <<temporary, lambda, verifies, verdict, backupFaults>>

Runs == 1..MaxVerifies
NoExecution == [pc |-> "idle", kind |-> "none", run |-> 0, strays |-> {},
                instanceId |-> FALSE, counted |-> 0, ok |-> FALSE]

BackupInit ==
    /\ temporary = [r \in Runs |-> "none"]
    /\ lambda = NoExecution
    /\ verifies = 0
    /\ verdict = [r \in Runs |-> -1]
    /\ backupFaults = 0

BackupFault == backupFaults < MaxBackupFaults /\ backupFaults' = backupFaults + 1

Deletable(r) == temporary[r] \in {"creating", "available", "failed"}
Listed(r) == Deletable(r) \/ temporary[r] = "deleting"

\* The command to delete r throws: always if r is being deleted or gone; otherwise it
\* was refused, or carried out and its answer lost.
Refused(r) ==
    \/ ~Deletable(r) /\ UNCHANGED <<temporary, backupFaults>>
    \/ /\ Deletable(r) /\ BackupFault
       /\ \/ UNCHANGED temporary
          \/ temporary' = [temporary EXCEPT ![r] = "deleting"]

At(pc) == lambda.pc = pc
Go(pc) == lambda' = [lambda EXCEPT !.pc = pc]

-----------------------------------------------------------------------------
(* deleteStrayInstances, the preflight of a verification and all of a      *)
(* cleanup.                                                                *)

\* Mutant: only instances that became available are looked for.
ListStrays_AvailableOnly == {r \in Runs : temporary[r] = "available"}

\* Every instance with the prefix and the tag, whatever its status.
ListStrays == {r \in Runs : Listed(r)}

StartVerify ==
    /\ At("idle") /\ verifies < MaxVerifies
    /\ verifies' = verifies + 1
    /\ lambda' = [NoExecution EXCEPT !.pc = "strays", !.kind = "verify",
                                     !.run = verifies + 1, !.strays = ListStrays]
    /\ UNCHANGED <<temporary, verdict, backupFaults>>

StartCleanup ==
    /\ At("idle")
    /\ lambda' = [NoExecution EXCEPT !.pc = "strays", !.kind = "cleanup", !.strays = ListStrays]
    /\ UNCHANGED <<temporary, verifies, verdict, backupFaults>>

DeleteStray(r) ==
    /\ At("strays") /\ r \in lambda.strays
    /\ Deletable(r)
    /\ temporary' = [temporary EXCEPT ![r] = "deleting"]
    /\ lambda' = [lambda EXCEPT !.strays = @ \ {r}]
    /\ UNCHANGED <<verifies, verdict, backupFaults>>

\* Mutant: a refused deletion is logged and the loop goes on.
StrayRefused_Logged(r) ==
    /\ At("strays") /\ r \in lambda.strays
    /\ lambda' = [lambda EXCEPT !.strays = @ \ {r}]
    /\ Refused(r)
    /\ UNCHANGED <<verifies, verdict>>

\* The error leaves the handler: a verification ends without a verdict.
StrayRefused(r) ==
    /\ At("strays") /\ r \in lambda.strays
    /\ lambda' = NoExecution
    /\ Refused(r)
    /\ UNCHANGED <<verifies, verdict>>

StraysDone ==
    /\ At("strays") /\ lambda.strays = {}
    /\ lambda' = IF lambda.kind = "cleanup" THEN NoExecution ELSE [lambda EXCEPT !.pc = "restore"]
    /\ UNCHANGED <<temporary, verifies, verdict, backupFaults>>

-----------------------------------------------------------------------------
(* The verification.  An exception of the try block leads to "finally".    *)

\* latestRestorableSnapshot finds a snapshot and the restore command is accepted.
RestoreSnapshot ==
    /\ At("restore")
    /\ temporary' = [temporary EXCEPT ![lambda.run] = "creating"]
    /\ Go("wait")
    /\ UNCHANGED <<verifies, verdict, backupFaults>>

\* There is no snapshot, or a command fails; a restore may have begun all the same.
RestoreThrows(begun) ==
    /\ At("restore")
    /\ BackupFault
    /\ temporary' = [temporary EXCEPT ![lambda.run] = IF begun THEN "creating" ELSE @]
    /\ Go("finally")
    /\ UNCHANGED <<verifies, verdict>>

\* The poll of restoreSnapshot: instanceId is assigned only when it returns.
WaitAvailable ==
    /\ At("wait")
    /\ \/ /\ temporary[lambda.run] = "available"
          /\ lambda' = [lambda EXCEPT !.pc = "count", !.instanceId = TRUE]
       \/ /\ temporary[lambda.run] = "failed"
          /\ Go("finally")
    /\ UNCHANGED <<temporary, verifies, verdict, backupFaults>>

\* RESTORE_TIMEOUT_MS have passed, or a poll throws.
WaitThrows ==
    /\ At("wait")
    /\ \/ temporary[lambda.run] = "creating" /\ UNCHANGED backupFaults
       \/ BackupFault
    /\ Go("finally")
    /\ UNCHANGED <<temporary, verifies, verdict>>

\* verifyTables counts the rows of the next table; after the last one, ok = true.
CountTable ==
    /\ At("count")
    /\ lambda' = [lambda EXCEPT !.counted = @ + 1,
                                !.ok = lambda.counted + 1 = ExpectedTables,
                                !.pc = IF lambda.counted + 1 = ExpectedTables THEN "finally" ELSE "count"]
    /\ UNCHANGED <<temporary, verifies, verdict, backupFaults>>

\* No endpoint, no connection, or a count that is not one.
CountThrows ==
    /\ At("count")
    /\ BackupFault
    /\ Go("finally")
    /\ UNCHANGED <<temporary, verifies, verdict>>

\* finally: the instance is deleted if its identifier was assigned.
DeleteOwn ==
    /\ At("finally")
    /\ IF lambda.instanceId
       THEN Go("gone") /\ temporary' = [temporary EXCEPT ![lambda.run] = "deleting"]
       ELSE Go("publish") /\ UNCHANGED temporary
    /\ UNCHANGED <<verifies, verdict, backupFaults>>

\* The deletion throws: logged, and left to the next preflight.
DeleteOwnThrows ==
    /\ At("finally") /\ lambda.instanceId
    /\ Refused(lambda.run)
    /\ Go("publish")
    /\ UNCHANGED <<verifies, verdict>>

\* waitForDeleted finds nothing any more, DELETE_TIMEOUT_MS have passed, or a poll throws.
WaitForDeleted ==
    /\ At("gone")
    /\ Go("publish")
    /\ UNCHANGED <<temporary, verifies, verdict, backupFaults>>

PublishMetric ==
    /\ At("publish")
    /\ verdict' = [verdict EXCEPT ![lambda.run] = IF lambda.ok THEN 1 ELSE 0]
    /\ lambda' = NoExecution
    /\ UNCHANGED <<temporary, verifies, backupFaults>>

\* The metric could not be published: logged.
PublishThrows ==
    /\ At("publish")
    /\ BackupFault
    /\ lambda' = NoExecution
    /\ UNCHANGED <<temporary, verifies, verdict>>

-----------------------------------------------------------------------------
(* The environment.                                                        *)

\* The function is killed at its time limit, wherever it is; or the first listing
\* throws.
Killed ==
    /\ ~At("idle")
    /\ BackupFault
    /\ lambda' = NoExecution
    /\ UNCHANGED <<temporary, verifies, verdict>>

RdsRestoreEnds(r, state) ==
    /\ temporary[r] = "creating"
    /\ temporary' = [temporary EXCEPT ![r] = state]
    /\ UNCHANGED <<lambda, verifies, verdict, backupFaults>>

RdsDeleteEnds(r) ==
    /\ temporary[r] = "deleting"
    /\ temporary' = [temporary EXCEPT ![r] = "deleted"]
    /\ UNCHANGED <<lambda, verifies, verdict, backupFaults>>

\* A step of the running function that is not a failure of its surroundings.
LambdaStep ==
    \/ \E r \in Runs : DeleteStray(r) \/ (~Deletable(r) /\ StrayRefused(r))
    \/ StraysDone
    \/ RestoreSnapshot \/ WaitAvailable \/ WaitThrows \/ CountTable
    \/ DeleteOwn \/ WaitForDeleted \/ PublishMetric

BackupNext ==
    \/ StartVerify \/ StartCleanup
    \/ \E r \in Runs : StrayRefused(r) \/ RdsDeleteEnds(r)
    \/ \E r \in Runs, state \in {"available", "failed"} : RdsRestoreEnds(r, state)
    \/ LambdaStep
    \/ \E begun \in BOOLEAN : RestoreThrows(begun)
    \/ CountThrows \/ DeleteOwnThrows \/ PublishThrows \/ Killed

\* The scheduler starts a cleanup every half hour, an execution ends, and RDS
\* finishes a deletion.  A restore may take for ever.
BackupFairness ==
    /\ WF_backupVars(StartCleanup)
    /\ WF_backupVars(LambdaStep)
    /\ \A r \in Runs : WF_backupVars(RdsDeleteEnds(r))

BackupSpec == BackupInit /\ [][BackupNext]_backupVars /\ BackupFairness

-----------------------------------------------------------------------------
(* Properties.                                                             *)

\* A verification starts its restore only when every earlier instance is deleted or
\* being deleted, so that executions that die one after another leave one database
\* to pay for, never two (lines 108-134, 350).
LeaksAtMostOne == Cardinality({r \in Runs : Deletable(r)}) <= 1

\* The metric says 1 of a verification just when it read every expected table of the
\* instance it had restored (lines 279-305, 366, 393); while it reads them nobody
\* else deletes the instance.
VerdictTrue ==
    /\ \A r \in Runs : verdict[r] = 1 => temporary[r] \in {"available", "deleting", "deleted"}
    /\ lambda.ok => lambda.counted = ExpectedTables /\ lambda.instanceId
    /\ lambda.pc = "count" => temporary[lambda.run] = "available"

\* Every temporary instance is deleted in the end: one that failed to restore, one
\* whose restore outlived its execution and one the execution never heard of, none
\* of which the finally block deletes (lines 375-390, 419-425).
InstancesReaped == \A r \in Runs : Deletable(r) ~> temporary[r] = "deleted"

\* The three together (runBackupVerify and runCleanup).
BackupSound == [](LeaksAtMostOne /\ VerdictTrue) /\ InstancesReaped

=============================================================================

----------------------------- MODULE Migrations -----------------------------
(***************************************************************************)
(* Migrations at start-up (migrate.ts): replicas of one release boot side  *)
(* by side on one database.  node-pg-migrate, which is not in this         *)
(* repository, takes an advisory lock or throws "another migration is      *)
(* already running", reads the migrations table again, and applies what is *)
(* pending in one transaction.                                             *)
(***************************************************************************)
EXTENDS Integers

CONSTANTS
    Replicas,
    Managed,              \* listManagedMigrations()
    MaxMigrationFaults    \* bound: failing queries and replicas that die

ASSUME MigrationAssumption == "free" \notin Replicas /\ MaxMigrationFaults \in Nat

VARIABLES
    schema,       \* pgmigrations: migration -> how often it was applied
    advisory,     \* the replica whose session holds the advisory lock, or "free"
    replica,      \* per replica: [pc, status, pending, dryRun], status is _status
    migrationFaults

migrationVars == <<schema, advisory, replica, migrationFaults>>

Applied == {m \in Managed : schema[m] > 0}

MigrationInit ==
    /\ \E done \in SUBSET Managed : schema = [m \in Managed |-> IF m \in done THEN 1 ELSE 0]
    /\ advisory = "free"
    /\ replica \in [Replicas -> {[pc |-> "boot", status |-> "pending", pending |-> {}, dryRun |-> d] : d \in BOOLEAN}]
    /\ migrationFaults = 0

MigrationFault == migrationFaults < MaxMigrationFaults /\ migrationFaults' = migrationFaults + 1

\* runMigrationsOrExit: a failed run ends the process, any other is served from.
Return(r, status) ==
    replica' = [replica EXCEPT ![r].status = status,
                               ![r].pc = IF status = "failed" THEN "exited" ELSE "serving"]

\* readApplied and computePending; nothing to do and MIGRATE_DRY_RUN return here.
ReadApplied(r) ==
    /\ replica[r].pc = "boot"
    /\ LET pending == Managed \ Applied IN
       CASE pending = {}       -> Return(r, "current")
         [] pending # {} /\ replica[r].dryRun -> Return(r, "pending")
         [] OTHER -> replica' = [replica EXCEPT ![r].pc = "lock", ![r].pending = pending]
    /\ UNCHANGED <<schema, advisory, migrationFaults>>

\* Mutant: the lock is not tried (noLock).
TakeLock_None(r) ==
    /\ replica[r].pc = "lock"
    /\ replica' = [replica EXCEPT ![r].pc = "select"]
    /\ UNCHANGED <<schema, advisory, migrationFaults>>

\* pg_try_advisory_lock of the runner.
TakeLock(r) ==
    /\ replica[r].pc = "lock"
    /\ advisory = "free"
    /\ advisory' = r
    /\ replica' = [replica EXCEPT ![r].pc = "select"]
    /\ UNCHANGED <<schema, migrationFaults>>

\* "another migration is already running": pending, and the replica serves.
LosesLock(r) ==
    /\ replica[r].pc = "lock"
    /\ advisory # "free"
    /\ Return(r, "pending")
    /\ UNCHANGED <<schema, advisory, migrationFaults>>

\* The runner's own reading of the migrations table, under the lock.
SelectPending(r) ==
    /\ replica[r].pc = "select"
    /\ replica' = [replica EXCEPT ![r].pc = "apply", ![r].pending = Managed \ Applied]
    /\ UNCHANGED <<schema, advisory, migrationFaults>>

\* The transaction commits, the lock goes with the runner's return.
ApplyMigrations(r) ==
    /\ replica[r].pc = "apply"
    /\ schema' = [m \in Managed |-> schema[m] + IF m \in replica[r].pending THEN 1 ELSE 0]
    /\ advisory' = "free"
    /\ Return(r, "current")
    /\ UNCHANGED migrationFaults

\* Any other error: the transaction is rolled back, pg_advisory_unlock of this
\* session (which holds the lock or not), failed, exit(1).
MigrationFails(r) ==
    /\ MigrationFault
    /\ replica[r].pc \in {"boot", "lock", "select", "apply"}
    /\ advisory' = IF advisory = r THEN "free" ELSE advisory
    /\ Return(r, "failed")
    /\ UNCHANGED schema

\* The process dies, its session and lock with it, and is started again.
ReplicaRestarts(r) ==
    /\ MigrationFault
    /\ advisory' = IF advisory = r THEN "free" ELSE advisory
    /\ replica' = [replica EXCEPT ![r].pc = "boot", ![r].status = "pending"]
    /\ UNCHANGED schema

MigrateStep(r) == ReadApplied(r) \/ TakeLock(r) \/ LosesLock(r) \/ SelectPending(r) \/ ApplyMigrations(r)

MigrationNext == \E r \in Replicas : MigrateStep(r) \/ MigrationFails(r) \/ ReplicaRestarts(r)

MigrationSpec == MigrationInit /\ [][MigrationNext]_migrationVars

-----------------------------------------------------------------------------
(* Properties.                                                             *)

\* No migration is applied twice, and a replica reports "current" to /health only
\* once every managed migration is in the schema, whichever replica applied it,
\* in whatever order they read, lost the lock, failed or restarted (lines 187-291).
MigrationsSound ==
    /\ \A m \in Managed : schema[m] <= 1
    /\ \A r \in Replicas : replica[r].status = "current" => Applied = Managed

=============================================================================

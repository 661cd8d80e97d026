------------------------------ MODULE Backfill ------------------------------
(***************************************************************************)
(* Backfilling stream_events from Horizon: the jobs of POST /admin/backfill *)
(* (admin/backfill.ts) and the operator's script with its resume cursor    *)
(* (scripts/backfill_stream_events.ts), all on one table.  Horizon's       *)
(* records of the contract are the sequence Records, oldest first; a       *)
(* cursor is the number of records before it and a page the set of their   *)
(* positions, which are their order.  tx_hash is unique in stream_events,  *)
(* so a row is named by its transaction.                                   *)
(***************************************************************************)
EXTENDS Integers, FiniteSets, Sequences

CONSTANTS
    BackfillJobs,       \* requests for a backfill
    Records,            \* sequence of [ledger, tx, type], type "other" is not ours
    HorizonPage,        \* PAGE_LIMIT
    Ranges,             \* the ledger ranges asked for, pairs <<from, to>>
    MaxBackfillFaults   \* bound: failing requests and queries, process deaths

ASSUME BackfillAssumption ==
    /\ Ranges \subseteq {r \in (Nat \ {0}) \X (Nat \ {0}) : r[1] <= r[2]}
    /\ IsFiniteSet(BackfillJobs) /\ HorizonPage \in Nat \ {0} /\ MaxBackfillFaults \in Nat
    /\ Records \in Seq([ledger : Nat, tx : STRING, type : STRING])
    /\ \A i, k \in DOMAIN Records : i <= k => Records[i].ledger <= Records[k].ledger

VARIABLES
    eventRows,       \* tx -> "none", or the record stored and whether the fixed decoder wrote it
    backfill,        \* per admin job: the runner's variables and its backfill_jobs row
    script,          \* the script's run
    backfillFaults

backfillVars == <<eventRows, backfill, script, backfillFaults>>

\* Records of the contract's own event types, their transactions and types.
Ours == {i \in DOMAIN Records : Records[i].type # "other"}
Txs == {Records[i].tx : i \in Ours}
EventTypes == {Records[i].type : i \in Ours}

\* A row that an old decoder left behind is not fresh.
Row(i, fresh) == [record |-> i, fresh |-> fresh]
FirstOf(t) == CHOOSE i \in Ours : Records[i].tx = t /\ \A k \in Ours : k < i => Records[k].tx # t
NoRow == [record |-> 0, fresh |-> FALSE]

NewRun == [pc |-> "none", from |-> 0, to |-> 0, cursor |-> 0, page |-> {}, pastEnd |-> FALSE,
           status |-> "none", types |-> {}, dryRun |-> FALSE]

\* The table as the indexer left it: some transactions missing, some stale.
BackfillInit ==
    /\ \E present \in SUBSET Txs :
          eventRows = [t \in Txs |-> IF t \in present THEN Row(FirstOf(t), FALSE) ELSE NoRow]
    /\ backfill = [j \in BackfillJobs |-> NewRun]
    /\ script = NewRun
    /\ backfillFaults = 0

BackfillFault == backfillFaults < MaxBackfillFaults /\ backfillFaults' = backfillFaults + 1

\* GET /contracts/:id/events?cursor: at most HorizonPage records after the cursor.
PageAfter(cursor) ==
    LET end == IF cursor + HorizonPage < Len(Records) THEN cursor + HorizonPage ELSE Len(Records)
    IN  (cursor + 1) .. end

-----------------------------------------------------------------------------
(* The admin job.                                                          *)

\* decodeEvent: our event types inside the range; null otherwise.
Decoded(run) == {i \in run.page : Records[i].type # "other" /\ Records[i].ledger \in run.from .. run.to}

\* createJob inserts a running row; without it the request gets a 500.
StartBackfill(j) ==
    /\ backfill[j].pc = "none"
    /\ \E r \in Ranges :
         backfill' = [backfill EXCEPT ![j] =
             [NewRun EXCEPT !.pc = "fetch", !.from = r[1], !.to = r[2], !.status = "running"]]
    /\ UNCHANGED <<eventRows, script, backfillFaults>>

FetchPage(j) ==
    /\ backfill[j].pc = "fetch"
    /\ LET page == PageAfter(backfill[j].cursor) IN
       backfill' = [backfill EXCEPT ![j].page = page,
                                    ![j].pc = IF page = {} THEN "complete" ELSE "upsert"]
    /\ UNCHANGED <<eventRows, script, backfillFaults>>

\* ON CONFLICT (tx_hash) DO NOTHING: the first record of a transaction stays.
UpsertIgnoring(rows, decoded) ==
    [t \in Txs |->
        LET of == {i \in decoded : Records[i].tx = t} IN
        IF rows[t] # NoRow \/ of = {} THEN rows[t]
        ELSE Row(CHOOSE i \in of : \A k \in of : i <= k, TRUE)]

\* The page's transaction and the in-memory totals.
UpsertEvents(j) ==
    /\ backfill[j].pc = "upsert"
    /\ LET run == backfill[j] IN
       /\ eventRows' = UpsertIgnoring(eventRows, Decoded(run))
       /\ backfill' = [backfill EXCEPT ![j].pc = "progress",
              ![j].pastEnd = \E i \in Decoded(run) : Records[i].ledger >= run.to]
    /\ UNCHANGED <<script, backfillFaults>>

\* updateJobProgress, then the loop's three ways out.
UpdateJobProgress(j) ==
    /\ backfill[j].pc = "progress"
    /\ LET run == backfill[j] IN
       backfill' = [backfill EXCEPT
              ![j].cursor = @ + Cardinality(run.page),
              ![j].pc = IF run.pastEnd \/ Cardinality(run.page) < HorizonPage THEN "complete" ELSE "fetch"]
    /\ UNCHANGED <<eventRows, script, backfillFaults>>

CompleteJob(j) ==
    /\ backfill[j].pc = "complete"
    /\ backfill' = [backfill EXCEPT ![j].pc = "ended", ![j].status = "completed"]
    /\ UNCHANGED <<eventRows, script, backfillFaults>>

\* Any await of runBackfill throws: an open transaction is rolled back, failJob.
BackfillThrows(j) ==
    /\ BackfillFault
    /\ backfill[j].pc \in {"fetch", "upsert", "progress", "complete"}
    /\ backfill' = [backfill EXCEPT ![j].pc = "fail"]
    /\ UNCHANGED <<eventRows, script>>

\* failJob, whose own failure is swallowed.
FailJob(j) ==
    /\ backfill[j].pc = "fail"
    /\ \/ /\ backfill' = [backfill EXCEPT ![j].pc = "ended", ![j].status = "failed"]
          /\ UNCHANGED backfillFaults
       \/ /\ BackfillFault
          /\ backfill' = [backfill EXCEPT ![j].pc = "ended"]
    /\ UNCHANGED <<eventRows, script>>

\* The server dies: its jobs stay 'running' in the table, nobody resumes them.
ServerDies ==
    /\ BackfillFault
    /\ backfill' = [j \in BackfillJobs |-> [backfill[j] EXCEPT !.pc = IF @ = "none" THEN @ ELSE "ended"]]
    /\ UNCHANGED <<eventRows, script>>

-----------------------------------------------------------------------------
(* The script.                                                             *)

\* decodeEvent of the script, which also applies --event-type.
ScriptDecoded(run) ==
    {i \in run.page : /\ Records[i].type \in (IF run.types = {} THEN EventTypes ELSE run.types)
                      /\ Records[i].ledger \in run.from .. run.to}

\* resolveOptions: a range, event types (none: all), --dry-run.
RunScript ==
    /\ script.pc = "none"
    /\ \E r \in Ranges, types \in {{}} \cup {{e} : e \in EventTypes}, dry \in BOOLEAN :
         script' = [NewRun EXCEPT !.pc = "fetch", !.from = r[1], !.to = r[2],
                                  !.types = types, !.dryRun = dry]
    /\ UNCHANGED <<eventRows, backfill, backfillFaults>>

ScriptFetches ==
    /\ script.pc = "fetch"
    /\ LET page == PageAfter(script.cursor) IN
       script' = [script EXCEPT !.page = page, !.pc = IF page = {} THEN "reconcile" ELSE "upsert"]
    /\ UNCHANGED <<eventRows, backfill, backfillFaults>>

\* ON CONFLICT (tx_hash) DO UPDATE: the last record of a transaction stays.
UpsertReplacing(rows, decoded) ==
    [t \in Txs |->
        LET of == {i \in decoded : Records[i].tx = t} IN
        IF of = {} THEN rows[t] ELSE Row(CHOOSE i \in of : \A k \in of : k <= i, TRUE)]

\* Upsert, then the next page: pastToLedger is never set, as decodeEvent has
\* returned null for what lies beyond --end-ledger; a short page ends the run.
ScriptUpserts ==
    /\ script.pc = "upsert"
    /\ eventRows' = IF script.dryRun THEN eventRows ELSE UpsertReplacing(eventRows, ScriptDecoded(script))
    /\ script' = IF Cardinality(script.page) < HorizonPage
                 THEN [script EXCEPT !.pc = "reconcile"]
                 ELSE [script EXCEPT !.pc = "fetch", !.cursor = @ + Cardinality(script.page)]
    /\ UNCHANGED <<backfill, backfillFaults>>

\* Mutant: the hint names the page after the one that was lost.
ScriptThrows_NextCursor ==
    /\ BackfillFault
    /\ script.pc \in {"fetch", "upsert"}
    /\ script' = [script EXCEPT !.pc = "stopped", !.cursor = @ + HorizonPage]
    /\ UNCHANGED <<eventRows, backfill>>

\* A request or the transaction fails: exit 1, the cursor is the resume hint.
ScriptThrows ==
    /\ BackfillFault
    /\ script.pc \in {"fetch", "upsert"}
    /\ script' = [script EXCEPT !.pc = "stopped"]
    /\ UNCHANGED <<eventRows, backfill>>

\* The operator runs it again with BACKFILL_START_CURSOR and the same options.
ResumeScript ==
    /\ script.pc = "stopped"
    /\ script' = [script EXCEPT !.pc = "fetch", !.page = {}]
    /\ UNCHANGED <<eventRows, backfill, backfillFaults>>

\* reconcile and runReconciliationJob: OK when the range has rows at all.
Reconcile ==
    /\ script.pc = "reconcile"
    /\ script' = [script EXCEPT !.pc = "done",
           !.status = IF \E t \in Txs : /\ eventRows[t] # NoRow
                                        /\ Records[eventRows[t].record].ledger \in script.from .. script.to
                      THEN "ok" ELSE "needs_attention"]
    /\ UNCHANGED <<eventRows, backfill, backfillFaults>>

-----------------------------------------------------------------------------
BackfillNext ==
    \/ \E j \in BackfillJobs :
          \/ StartBackfill(j) \/ FetchPage(j) \/ UpsertEvents(j) \/ UpdateJobProgress(j)
          \/ CompleteJob(j) \/ BackfillThrows(j) \/ FailJob(j)
    \/ ServerDies
    \/ RunScript \/ ScriptFetches \/ ScriptUpserts \/ ScriptThrows \/ ResumeScript \/ Reconcile

BackfillSpec == BackfillInit /\ [][BackfillNext]_backfillVars

-----------------------------------------------------------------------------
(* Properties.                                                             *)

Wanted(types, from, to) ==
    {Records[i].tx : i \in {k \in DOMAIN Records : /\ Records[k].type \in types
                                                   /\ Records[k].ledger \in from .. to}}

\* A completed admin job leaves no transaction of its range without a row, but
\* for the last ledger: the loop stops at the page that holds the first event of
\* to_ledger.  Other jobs, the script and failed queries in the meantime change
\* nothing of that (runBackfill, lines 342-388).
CompletedJobsCover ==
    \A j \in BackfillJobs : backfill[j].status = "completed" =>
        \A t \in Wanted(EventTypes, backfill[j].from, backfill[j].to - 1) : eventRows[t] # NoRow

\* A script run that ended, over any number of failures and resumed cursors, has
\* written every transaction of its range and types again, so no value of the
\* old decoder survives (lines 44-47: "repairs existing rows").
ScriptRepairsRange ==
    script.pc = "done" /\ ~script.dryRun =>
        \A t \in Wanted(IF script.types = {} THEN EventTypes ELSE script.types, script.from, script.to) :
            eventRows[t].fresh

\* What either of them reports as finished is in the table, although both write it at
\* once and with opposite answers to a conflict on tx_hash.
BackfillCovers == CompletedJobsCover /\ ScriptRepairsRange

=============================================================================

---------------------------- MODULE MCComponents ----------------------------
(***************************************************************************)
(* The components that share no state with one another, checked in one     *)
(* run.  A behaviour is a behaviour of one of them, the focus; the others  *)
(* stay in an initial state.  So the states of the run are the disjoint    *)
(* union of the components' states, and a property of a component holds in *)
(* the run just when it holds of the component by itself.                  *)
(***************************************************************************)
EXTENDS JobQueue, StatusService, CircuitBreaker, RpcPool, Backfill, Migrations,
        RateLimit, TokenBucket, Idempotency, Webhooks, Shutdown,
        ChainReconciliation, WsStreams, LiveUpdates, TxStatus, Dashboard,
        BackupVerify, NotificationJob

VARIABLE focus

Components ==
    {"jobs", "status", "breaker", "pool", "backfill", "migrate", "rate", "bucket",
     "idem", "hooks", "shutdown", "chain", "ws", "live", "tx", "dashboard",
     "backup", "notify"}

MCVars ==
    <<focus, vars, statusVars, breakerVars, poolVars, backfillVars, migrationVars,
      rateVars, bucketVars, idemVars, hookVars, shutdownVars, chainVars, wsVars,
      liveVars, txVars, dashVars, backupVars, noticeVars>>

\* The addresses are interchangeable: one of them stands for any that is in the cache.
SomeAddress == CHOOSE addr \in Addresses : TRUE

\* A component that is not the focus and has several initial states is in one of them.
MCInit ==
    /\ focus \in Components
    /\ Init /\ StatusInit /\ BreakerInit /\ PoolInit /\ BackfillInit /\ MigrationInit
    /\ RateInit /\ BucketInit /\ IdemInit /\ HookInit /\ ShutdownInit /\ ChainInit
    /\ WsInit /\ LiveInit /\ TxInit /\ DashInit /\ BackupInit /\ NoticeInit
    /\ focus # "status" => streamRow.status = Absent
    /\ focus # "backfill" => \A t \in Txs : eventRows[t] = NoRow
    /\ focus # "migrate" => Applied = {} /\ \A r \in Replicas : ~replica[r].dryRun
    /\ focus # "idem" => store = "redis"
    /\ focus # "chain" => ~rpcThrows /\ \A j \in ChainRuns : ~chainRun[j].dryRun
    /\ focus # "dashboard" => savedAddress = "none"
    /\ savedAddress \in {"none", SomeAddress}

OthersStay ==
    /\ UNCHANGED focus
    /\ focus # "jobs"      => UNCHANGED vars
    /\ focus # "status"    => UNCHANGED statusVars
    /\ focus # "breaker"   => UNCHANGED breakerVars
    /\ focus # "pool"      => UNCHANGED poolVars
    /\ focus # "backfill"  => UNCHANGED backfillVars
    /\ focus # "migrate"   => UNCHANGED migrationVars
    /\ focus # "rate"      => UNCHANGED rateVars
    /\ focus # "bucket"    => UNCHANGED bucketVars
    /\ focus # "idem"      => UNCHANGED idemVars
    /\ focus # "hooks"     => UNCHANGED hookVars
    /\ focus # "shutdown"  => UNCHANGED shutdownVars
    /\ focus # "chain"     => UNCHANGED chainVars
    /\ focus # "ws"        => UNCHANGED wsVars
    /\ focus # "live"      => UNCHANGED liveVars
    /\ focus # "tx"        => UNCHANGED txVars
    /\ focus # "dashboard" => UNCHANGED dashVars
    /\ focus # "backup"    => UNCHANGED backupVars
    /\ focus # "notify"    => UNCHANGED noticeVars

MCNext ==
    \/ focus = "jobs"      /\ Next          /\ OthersStay
    \/ focus = "status"    /\ StatusNext    /\ OthersStay
    \/ focus = "breaker"   /\ BreakerNext   /\ OthersStay
    \/ focus = "pool"      /\ PoolNext      /\ OthersStay
    \/ focus = "backfill"  /\ BackfillNext  /\ OthersStay
    \/ focus = "migrate"   /\ MigrationNext /\ OthersStay
    \/ focus = "rate"      /\ RateNext      /\ OthersStay
    \/ focus = "bucket"    /\ BucketNext    /\ OthersStay
    \/ focus = "idem"      /\ IdemNext      /\ OthersStay
    \/ focus = "hooks"     /\ HookNext      /\ OthersStay
    \/ focus = "shutdown"  /\ ShutdownNext  /\ OthersStay
    \/ focus = "chain"     /\ ChainNext     /\ OthersStay
    \/ focus = "ws"        /\ WsNext        /\ OthersStay
    \/ focus = "live"      /\ LiveNext      /\ OthersStay
    \/ focus = "tx"        /\ TxNext        /\ OthersStay
    \/ focus = "dashboard" /\ DashNext      /\ OthersStay
    \/ focus = "backup"    /\ BackupNext    /\ OthersStay
    \/ focus = "notify"    /\ NoticeNext    /\ OthersStay

\* The fairness of each component, where it is the focus.
MCFairness ==
    /\ \A l \in Loops : WF_vars(focus = "jobs" /\ LoopStep(l))
    /\ WF_breakerVars(focus = "breaker" /\ BreakerTick)
    /\ \A c \in BreakerCallers :
          /\ WF_breakerVars(focus = "breaker" /\ Execute(c))
          /\ WF_breakerVars(focus = "breaker" /\ (AnswerArrives(c) \/ AnswerFails(c)))
    /\ \A d \in Hooks \X HookEvents : WF_hookVars(focus = "hooks" /\ DeliveryStep(d))
    /\ WF_shutdownVars(focus = "shutdown" /\ WaitForInFlightRequests)
    /\ WF_shutdownVars(focus = "shutdown" /\ ExitCleanly)
    /\ WF_shutdownVars(focus = "shutdown" /\ ForceExit)
    /\ WF_shutdownVars(focus = "shutdown" /\ LoopDrains)
    /\ \A c \in Conns : /\ WF_wsVars(focus = "ws" /\ HandlerStep(c))
                        /\ WF_wsVars(focus = "ws" /\ Heartbeat(c))
    /\ \A i \in TxAttempts : WF_txVars(focus = "tx" /\ (PollAnswers(i) \/ PollTimesOut(i)))
    /\ WF_txVars(focus = "tx" /\ MountEffect(FALSE))
    /\ \A l \in Loads, addr \in Addresses : WF_dashVars(focus = "dashboard" /\ LoadStream(l, addr))
    /\ \A l \in Loads \union {"effect", "claim"} : WF_dashVars(focus = "dashboard" /\ LoadReturns(l))
    /\ WF_backupVars(focus = "backup" /\ StartCleanup)
    /\ WF_backupVars(focus = "backup" /\ LambdaStep)
    /\ \A r \in Runs : WF_backupVars(focus = "backup" /\ RdsDeleteEnds(r))
    /\ WF_noticeVars(focus = "notify" /\ LockExpires)
    /\ WF_noticeVars(focus = "notify" /\ \E p \in Executions : TakeJobLock(p))
    /\ \A p \in Executions : WF_noticeVars(focus = "notify" /\ ExecutionStep(p))

MCSpec == MCInit /\ [][MCNext]_MCVars /\ MCFairness

\* Four records in three ledgers: two of one transaction, and one that is not ours.
MCRecords ==
    << [ledger |-> 1, tx |-> "t1", type |-> "claim"],
       [ledger |-> 2, tx |-> "t2", type |-> "create"],
       [ledger |-> 2, tx |-> "t2", type |-> "claim"],
       [ledger |-> 3, tx |-> "t3", type |-> "other"] >>

MCRanges == {<<1, 2>>, <<2, 3>>}

=============================================================================

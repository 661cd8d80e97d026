SPECIFICATION MCSpec
CONSTANTS
    Jobs = {j1, j2}
    Loops = {l1, l2}
    NoJob = NoJob
    MaxFaults = 3
    CancelEvents = {e1, e2}
    ClawbackEvents = {e3}
    DirectCallers = {d1}
    NoEvent = NoEvent
    BreakerCallers = {b1, b2}
    Threshold = 2
    HalfOpenAfter = 2
    MaxOverrides = 2
    PoolCallers = {p1, p2}
    NodeCount = 2
    FailureThreshold = 2
    QuarantineWindow = 1
    MaxChecks = 2
    BackfillJobs = {f1}
    Records <- MCRecords
    HorizonPage = 2
    Ranges <- MCRanges
    MaxBackfillFaults = 1
    Replicas = {m1, m2}
    Managed = {q1, q2}
    MaxMigrationFaults = 2
    GateRequests = {g1, g2, g3}
    MaxRequests = 1
    MaxGateCrashes = 1
    MaxWindows = 1
    Capacity = 2
    Window = 3
    Grain = 2
    Skew = 1
    MaxTicks = 6
    MaxBack = 1
    IdemRequests = {i1, i2, i3}
    MaxIdemFaults = 1
    Hooks = {k1, k2}
    HookEvents = {v1}
    MaxAttempts = 3
    HttpRequests = {h1, h2}
    Teardowns = 2
    ChainRuns = {n1, n2}
    ActiveStreams = 1
    OtherStreams = 1
    MaxChainFaults = 2
    Conns = {w1, w2}
    MaxConnectionsPerIp = 1
    EventBufferSize = 2
    MaxMissedHeartbeats = 1
    MaxEvents = 2
    MaxRedisFaults = 1
    WsClients = {x1, x2}
    WsRecipients = {r1, r2}
    TxAttempts = {y1, y2}
    MaxReloads = 1
    MaxResets = 1
    Addresses = {a1, a2}
    Loads = {u1}
    MaxVersion = 1
    MaxWalletActions = 1
    MaxLoadFaults = 1
    MaxVerifies = 2
    ExpectedTables = 2
    MaxBackupFaults = 2
    Executions = {z1, z2, z3}
    NoticeStreams = {z4}
    WebhookTries = 2
    MaxNoticeFaults = 2
INVARIANTS
    DeliveryInv
    StatusInv
    BackfillCovers
    MigrationsSound
    WindowLimit
    BucketSound
    RetryIsReplayed
    MismatchesOnRecord
    PlacesGivenBack
    EventsInOrder
    RegistryExact
PROPERTIES
    QueuePromise
    WorkerHonest
    WorkerLive
    PoolSound
    BreakerSound
    DeliverySound
    OrderlyShutdown
    VanishedPeersReaped
    TxStatusSound
    DashboardConverges
    BackupSound
    NotificationsSound
CHECK_DEADLOCK FALSE

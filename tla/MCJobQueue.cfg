\* Two workers, two rows of any kind: claims lapse under each other, retries,
\* deferrals, abandonment and pruning all happen.
CONSTANTS
    w1 = w1
    w2 = w2
    Workers <- MCWorkers
    NoWorker = NoWorker
    DeploymentKeys = {d1}
    ScheduledKeys = {s1}
    OperationKeys = {}
    NoKey = NoKey
    MaxJobs = 2
    DeploymentAttempts = 2
    Lease = 1
    DeclaredLease = 2
    Deferral = 1
    BackoffCap = 3
    Retention = 1
    DeferFence = 3
SPECIFICATION FairSpec
INVARIANTS ExclusiveRuns SnapshotCurrent
PROPERTIES LeaseUndisturbed ImplementsLedger JobsFinish
CHECK_DEADLOCK FALSE

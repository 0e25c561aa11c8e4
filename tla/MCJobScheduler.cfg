\* One schedule, two workers, processes that start with other releases.
CONSTANTS
    w1 = w1
    w2 = w2
    s1 = s1
    Workers <- MCWorkers
    DeploymentKeys = {}
    ScheduledKeys <- MCSchedules
    OperationKeys = {}
    NoKey = NoKey
    MaxJobs = 3
    DeploymentAttempts = 1
    Lease = 1
    DeclaredLease = 2
    Deferral = 1
    BackoffCap = 1
    Retention = 1
    DeferFence = 0
    Installations <- MCInstallations
    Interval = 2
    Jitter = 1
    MaxClock = 5
    MaxLosses = 2
SPECIFICATION FairScheduler
PROPERTIES SlotsSpaced FiringsPublished DueFires
CHECK_DEADLOCK FALSE

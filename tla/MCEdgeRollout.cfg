\* A release, another, and the first again; one run or controller lost.
CONSTANTS
    a = a
    b = b
    Digests = {a, b}
    NoDigest = NoDigest
    Deployments = {1, 2, 3}
    ReleaseOf <- MCReturn
    MaxLosses = 1
SPECIFICATION FairRollout
INVARIANTS NeverUndoneToItself
PROPERTIES CommittedLeftByActivation WithdrawnMeansRestored RestoredIsHonest FailureLeavesNoTrace CommittedIsWhole DeploymentsEnd
CHECK_DEADLOCK FALSE

\* Two deployments in any order of requests, and one mishap.
CONSTANTS
    w1 = w1
    w2 = w2
    Workers <- MCWorkers
    NoWorker = NoWorker
    Edges = {1, 2}
    Retention = 0
    MaxDeployments = 2
    MaxDoc = 1
    MaxEvents = 1
    Requests <- MCRequests
SPECIFICATION FleetSpec
INVARIANTS NoLiveReview
PROPERTIES EdgesInOrder SuccessIsServed TakeoverIsFinal OutcomeStands AdoptionLosesNothing
SYMMETRY WorkerSymmetry
CHECK_DEADLOCK FALSE

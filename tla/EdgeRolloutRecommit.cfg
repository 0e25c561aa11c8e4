\* A release deployed, withdrawn and deployed again around another.
CONSTANTS
    a = a
    b = b
    Digests = {a, b}
    NoDigest = NoDigest
    Deployments = {1, 2, 3, 4}
    ReleaseOf <- MCReturnTwice
    MaxLosses = 1
SPECIFICATION RolloutSpec
INVARIANTS ActiveWasCommitted
CHECK_DEADLOCK FALSE

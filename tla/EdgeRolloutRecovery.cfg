\* Two deployments, and one controller lost.
CONSTANTS
    a = a
    b = b
    Digests = {a, b}
    NoDigest = NoDigest
    Deployments = {1, 2}
    ReleaseOf <- MCTwo
    MaxLosses = 1
SPECIFICATION RolloutSpec
PROPERTIES SuccessObserved
CHECK_DEADLOCK FALSE

\* Two certificates over the life of one, and one mishap.
CONSTANTS
    Hostnames = {1, 2}
    Rules = {1}
    Origins = {2, 3}
    NoRule = NoRule
    MaxSsl = 1
    Versions <- MCVersions
    Starts <- MCStarts
    Written <- MCWritten
    MaxEdits = 1
    Lifetime = 3
    Window = 2
    Retention = 1
    MaxReleases = 1
    MaxFaults = 1
    MaxNow = 3
SPECIFICATION CertificatesSpec
INVARIANTS MaterialPresent RenewedInTime
PROPERTIES ActivationReaches UpgradeRespectsOperator
CHECK_DEADLOCK FALSE

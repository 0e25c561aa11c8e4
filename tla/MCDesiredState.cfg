\* One zone with a record and a rule, one edge, two processes.
CONSTANTS
    p1 = p1
    p2 = p2
    Processes <- MCProcesses
    NoProcess = NoProcess
    Zones = {"z"}
    Names = {"n"}
    Rules = {"r"}
    Edges = {"e"}
    Settings = {"s"}
    Derived = {"s"}
    Changes <- MCChanges
    Origins = {1, 2}
    Hosts = {"a", "b"}
    Retention = 1
    MaxRequests = 4
    MaxUpgrades = 1
SPECIFICATION DesiredSpec
INVARIANTS StoredState PreparedAwaitsAdmission ShipsFirstRender
PROPERTIES EditsMerge AdoptedWhole
SYMMETRY ProcessSymmetry
CHECK_DEADLOCK FALSE

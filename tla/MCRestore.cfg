\* Two restores, and faults at any three points of them.
CONSTANTS
    database = database
    tls = tls
    toml = toml
    env = env
    api = api
    worker = worker
    Places <- MCPlaces
    Directories = {tls}
    Files = {toml, env}
    Order <- MCOrder
    Selections <- MCSelections
    Writers = {api, worker}
    MaxRestores = 2
    MaxFaults = 3
SPECIFICATION FairRestore
INVARIANTS AllOrNothing
PROPERTIES RecoveryEnds
CHECK_DEADLOCK FALSE

\* A purge over two edges, of a zone's wildcard and of a name and a longer
\* wildcard in a zone under it, while a site is edited and deployed.
CONSTANTS
    e1 = e1
    e2 = e2
    Edges <- MCEdges
    Runs = {1}
    Hosts <- NestedHosts
    Suffixes = {"example", "sub.example"}
    Under <- NestedUnder
    Sites <- NestedSites
    Exact <- NestedExact
    Wild <- NestedWild
    Policies <- MCPolicies
    Visits <- NestedVisits
    Asks <- NestedAsks
    MaxEdits = 1
SPECIFICATION PurgeSpec
INVARIANTS SteadyPurgeRemoves FailedAreNamed
SYMMETRY EdgeSymmetry
CHECK_DEADLOCK FALSE

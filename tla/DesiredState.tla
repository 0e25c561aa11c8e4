---------------------------- MODULE DesiredState ----------------------------
(***************************************************************************)
(* Desired state and its releases: the zones, records, rules, fleet        *)
(* settings and edges that operators write, the releases compiled from     *)
(* them, the deployments that name those, retention, and rollback.         *)
(*                                                                         *)
(* All of it is one database.  A transaction is one step and takes all or  *)
(* nothing; what a process reads outside one is in `op`.  Convergence is   *)
(* one step here (Fleet has it), as the deployment lock is held during it. *)
(***************************************************************************)
EXTENDS Tables, Naturals, FiniteSets

CONSTANTS
    Processes,      \* processes that serve operators or deployments
    NoProcess,
    Zones, Names, Rules, Edges,
    Settings,       \* fleet settings
    Derived,        \* those that name a variable a feature derives
    Changes,        \* what an edit of a policy may say: settings to values
    Origins,
    Hosts,          \* addresses of edges
    Retention,      \* releases, and finished checks, that are kept (history_retention)
    MaxRequests,    \* bound: edits and deployments that operators ask for
    MaxUpgrades     \* bound: upgrades of the program

ASSUME DesiredAssumption ==
    /\ NoProcess \notin Processes /\ Derived \subseteq Settings
    /\ Retention \in Nat \ {0}
    /\ {MaxRequests, MaxUpgrades} \subseteq Nat

VARIABLES
    db,             \* the tables
    op,             \* what each process is doing, and what it has read
    lock,           \* the holder of the deployment lock
    program,        \* the release of the program, which renders configurations
    requests

desired == <<db, op, lock, program, requests>>

-----------------------------------------------------------------------------
(* The tables.                                                             *)

Policies == [certificate : BOOLEAN, servesTls : BOOLEAN]
Composes(policy) == policy.servesTls => policy.certificate
Applying(policy, changes) == Over(changes, policy)

NoOp == [at |-> "idle"]

\* What a release is compiled from.
Canonical(d) == [zones |-> d.zones, records |-> d.records, rules |-> d.rules, settings |-> d.settings]

\* Foreign keys, which the database holds at every commit.
ForeignKeysOff(d) == TRUE                                                  \* mutant
ForeignKeys(d) ==
    /\ \A r \in DOMAIN d.records \cup DOMAIN d.rules : r[1] \in DOMAIN d.zones
    /\ \A i \in DOMAIN d.deployments : d.deployments[i].release \in DOMAIN d.releases

\* A transaction commits, or is refused and leaves everything as it was.
Commits(new) == ForeignKeys(new)
Transaction(new) == db' = IF Commits(new) THEN new ELSE db

\* Records and rules go with their zone (ON DELETE CASCADE).
WithoutZones(d, zones) ==
    [d EXCEPT !.zones = Without(@, zones),
              !.records = Without(@, {r \in DOMAIN @ : r[1] \in zones}),
              !.rules = Without(@, {r \in DOMAIN @ : r[1] \in zones})]

-----------------------------------------------------------------------------
(* Edits by operators.                                                     *)

Asks(p) == op[p] = NoOp /\ requests < MaxRequests /\ requests' = requests + 1
Edited == UNCHANGED <<op, lock, program>>

CreateDomain(p, z) ==
    /\ Asks(p) /\ z \notin DOMAIN db.zones
    /\ \E policy \in {q \in Policies : Composes(q)} :
         Transaction([db EXCEPT !.zones = With(@, z, policy)])
    /\ Edited

\* The change is resolved against the stored zone inside the transaction, and
\* the merged zone validated.
UpdateDomain(p, z) ==
    /\ Asks(p) /\ z \in DOMAIN db.zones
    /\ \E changes \in Changes :
         LET merged == Applying(db.zones[z], changes)
         IN Composes(merged) /\ Transaction([db EXCEPT !.zones[z] = merged])
    /\ Edited

DeleteDomain(p, z) ==
    /\ Asks(p) /\ z \in DOMAIN db.zones
    /\ Transaction(WithoutZones(db, {z}))
    /\ Edited

\* The zone is looked up in the transaction, so that a missing one is told apart.
CreateRecord(p, r) ==
    /\ Asks(p) /\ r[1] \in DOMAIN db.zones /\ r \notin DOMAIN db.records
    /\ \E origin \in Origins : Transaction([db EXCEPT !.records = With(@, r, origin)])
    /\ Edited

UpdateRecord(p, r) ==
    /\ Asks(p) /\ r \in DOMAIN db.records
    /\ \E origin \in Origins : Transaction([db EXCEPT !.records[r] = origin])
    /\ Edited

DeleteRecord(p, r) ==
    /\ Asks(p) /\ r \in DOMAIN db.records
    /\ Transaction([db EXCEPT !.records = Without(@, {r})])
    /\ Edited

\* The zone of a rule is looked up before the transaction that inserts it.
LookUpZone(p, r) ==
    /\ Asks(p) /\ r[1] \in DOMAIN db.zones
    /\ \E overrides \in Changes : op' = [op EXCEPT ![p] = [at |-> "ruling", rule |-> r, overrides |-> overrides]]
    /\ UNCHANGED <<db, lock, program>>
CreateRule(p) ==
    /\ op[p].at = "ruling"
    /\ LET r == op[p].rule
       IN IF r \in DOMAIN db.rules THEN UNCHANGED db
          ELSE Transaction([db EXCEPT !.rules = With(@, r, op[p].overrides)])
    /\ op' = [op EXCEPT ![p] = NoOp]
    /\ UNCHANGED <<lock, program, requests>>

\* The overrides of a rule are replaced wholesale.
UpdateRule(p, r) ==
    /\ Asks(p) /\ r \in DOMAIN db.rules
    /\ \E overrides \in Changes : Transaction([db EXCEPT !.rules[r] = overrides])
    /\ Edited

DeleteRule(p, r) ==
    /\ Asks(p) /\ r \in DOMAIN db.rules
    /\ Transaction([db EXCEPT !.rules = Without(@, {r})])
    /\ Edited

SetSetting(p, s) ==
    /\ Asks(p)
    /\ Transaction([db EXCEPT !.settings = @ \cup {s}])
    /\ Edited
DeleteSetting(p, s) ==
    /\ Asks(p) /\ s \in db.settings
    /\ Transaction([db EXCEPT !.settings = @ \ {s}])
    /\ Edited

AddEdge(p, e) ==
    /\ Asks(p) /\ e \notin DOMAIN db.edges
    /\ \E host \in Hosts : Transaction([db EXCEPT !.edges = With(@, e, [host |-> host, port |-> 22])])
    /\ Edited
RemoveEdge(p, e) ==
    /\ Asks(p) /\ e \in DOMAIN db.edges
    /\ Transaction([db EXCEPT !.edges = Without(@, {e})])
    /\ Edited

\* An edge is read and merged with the patch outside the transaction that
\* replaces it, where it is compared with what was read.
Patches == [host : Hosts] \cup [port : {2222}]
ReadEdge(p, e) ==
    /\ Asks(p) /\ e \in DOMAIN db.edges
    /\ \E patch \in Patches :
         op' = [op EXCEPT ![p] = [at |-> "edging", edge |-> e, read |-> db.edges[e], patch |-> patch]]
    /\ UNCHANGED <<db, lock, program>>
ExpectedAnything(e, read) == e \in DOMAIN db.edges                         \* mutant
Expected(e, read) == e \in DOMAIN db.edges /\ db.edges[e] = read
ReplaceEdge(p) ==
    /\ op[p].at = "edging"
    /\ IF ~Expected(op[p].edge, op[p].read) THEN UNCHANGED db
       ELSE Transaction([db EXCEPT !.edges[op[p].edge] = Over(op[p].patch, op[p].read)])
    /\ op' = [op EXCEPT ![p] = NoOp]
    /\ UNCHANGED <<lock, program, requests>>

-----------------------------------------------------------------------------
(* Releases.                                                               *)

\* A release is known by its inputs, its targets and whether it has artifacts:
\* a setting that names a derived variable leaves it without.
Compiled(d, targets) ==
    [inputs |-> Canonical(d), targets |-> targets, whole |-> d.settings \cap Derived = {}]
Recorded(d, release) == release \in DOMAIN d.releases

\* Rows tell when they were created, and one that is there stays as it is.
Saved(d, release) ==
    IF Recorded(d, release) THEN d
    ELSE [d EXCEPT !.releases = With(@, release, [rendering |-> 0, created |-> d.clock]), !.clock = @ + 1]

\* All but the newest, unless a deployment names them.
InUse(d) == {d.deployments[i].release : i \in DOMAIN d.deployments}
Newer(d, r) == {s \in DOMAIN d.releases : d.releases[s].created > d.releases[r].created}
Pruned(d) ==
    [d EXCEPT !.releases = Without(@, {r \in DOMAIN @ : r \notin InUse(d) /\ Cardinality(Newer(d, r)) >= Retention})]

\* Whoever admits a deployment holds the lock from before it compiles.
LockAny == TRUE                                                            \* mutant
LockFree == lock = NoProcess
Takes(p) == LockFree /\ lock' = p

\* One transaction captures state and targets, saves the release, and prunes.
Prepare(p, check, limit, limited) ==
    /\ Asks(p) /\ Takes(p)
    /\ LET release == Compiled(db, DOMAIN db.edges \cap limit)
           new == Pruned(Saved(db, release))
       IN /\ Transaction(new)
          /\ op' = [op EXCEPT ![p] = [at |-> "prepared", release |-> release, check |-> check,
                                      limited |-> limited, back |-> FALSE, canonical |-> {},
                                      kept |-> Recorded(new, release)]]
    /\ UNCHANGED program

\* A release is rendered outside any transaction, if nothing is recorded for
\* it, and the rendering recorded once; without its row it cannot be.
RenderedAnew(row) == [row EXCEPT !.rendering = program]                    \* mutant
Rendered(row) == IF row.rendering # 0 THEN row ELSE [row EXCEPT !.rendering = program]
RecordConfiguration(p) ==
    /\ op[p].at = "prepared" /\ ~op[p].back
    /\ LET release == op[p].release
       IN CASE ~release.whole ->
                 /\ op' = [op EXCEPT ![p].at = "admitting"] /\ UNCHANGED <<db, lock>>
            [] release.whole /\ Recorded(db, release) ->
                 /\ Transaction([db EXCEPT !.releases[release] = Rendered(@)])
                 /\ op' = [op EXCEPT ![p].at = "admitting"] /\ UNCHANGED lock
            [] OTHER ->
                 /\ op' = [op EXCEPT ![p] = NoOp] /\ lock' = NoProcess /\ UNCHANGED db
    /\ UNCHANGED <<program, requests>>

\* Finished checks beyond the newest go.
Finished(d) == {i \in DOMAIN d.deployments : d.deployments[i].status \in {"succeeded", "failed"}}
HistoryPruned(d) ==
    LET checks == {i \in Finished(d) : d.deployments[i].check}
    IN [d EXCEPT !.deployments =
          Without(@, {i \in checks : Cardinality({j \in checks : j > i}) >= Retention})]

\* Admission fixes the targets: those of the release, or of a rollback all
\* edges there are.
Admit(p) ==
    /\ op[p].at = "admitting"
    /\ LET o == op[p]
           row == [release |-> o.release, check |-> o.check, limited |-> o.limited,
                   status |-> "queued", back |-> o.back, canonical |-> o.canonical, shipped |-> 0,
                   edges |-> IF o.back THEN DOMAIN db.edges ELSE o.release.targets]
       IN Transaction(HistoryPruned([db EXCEPT !.deployments = With(@, db.clock, row), !.clock = @ + 1]))
    /\ op' = [op EXCEPT ![p] = NoOp] /\ lock' = NoProcess
    /\ UNCHANGED <<program, requests>>

\* A rollback is of a successful applied deployment: the one named, or the
\* newest of the whole fleet whose release is not the current one.
Applied(d) == {i \in DOMAIN d.deployments : d.deployments[i].status = "succeeded" /\ ~d.deployments[i].check}
Target(d) ==
    LET others == {i \in Applied(d) : /\ ~d.deployments[i].limited
                                      /\ d.deployments[i].release # Compiled(d, DOMAIN d.edges)}
    IN {i \in others : \A j \in others : j <= i}
SelectTarget(p, named, check) ==
    /\ Asks(p) /\ Takes(p)
    /\ \E i \in IF named THEN Applied(db) ELSE Target(db) :
         op' = [op EXCEPT ![p] = [at |-> "admitting", release |-> db.deployments[i].release, check |-> check,
                                  limited |-> FALSE, back |-> TRUE,
                                  canonical |-> Canonical(db), kept |-> TRUE]]
    /\ UNCHANGED <<db, program>>

\* A rollback puts the inputs of its release back, table by table: zones and
\* records, then the rules that went with the zones, then the settings.
ReplaceAllRecords(d, inputs) ==
    [WithoutZones(d, DOMAIN d.zones) EXCEPT !.zones = inputs.zones, !.records = inputs.records]
ReplaceAllRules(d, inputs) == [d EXCEPT !.rules = inputs.rules]
ReplaceAllSettings(d, inputs) == [d EXCEPT !.settings = inputs.settings]
AdoptRulesFirst(d, inputs) ==                                              \* mutant
    ReplaceAllSettings(ReplaceAllRecords(ReplaceAllRules(d, inputs), inputs), inputs)
AdoptInputs(d, inputs) ==
    ReplaceAllSettings(ReplaceAllRules(ReplaceAllRecords(d, inputs), inputs), inputs)

Unchanged(d, row) == row.canonical = Canonical(d)
\* A deployment is converged: it ships the rendering its release has, and is
\* refused without one or without its edges.
Ships(d, i, rendering) == [d EXCEPT !.deployments[i].shipped = rendering]
Ends(d, i, status) == [d EXCEPT !.deployments[i].status = status]
Finish(p, i) ==
    /\ op[p] = NoOp /\ lock = NoProcess
    /\ db.deployments[i].status = "queued"
    /\ LET row == db.deployments[i]
           rendering == db.releases[row.release].rendering
           refused == ~row.edges \subseteq DOMAIN db.edges \/ rendering = 0
           adopts == row.back /\ ~row.check
           adopted == AdoptInputs(db, row.release.inputs)
       IN \/ refused /\ Transaction(Ends(db, i, "failed"))
          \/ ~refused /\ Transaction(Ends(Ships(db, i, rendering), i, "failed"))
          \/ ~refused /\ ~adopts /\ Transaction(Ends(Ships(db, i, rendering), i, "succeeded"))
          \/ ~refused /\ adopts /\ Unchanged(db, row)
               /\ Transaction(Ends(Ships(adopted, i, rendering), i, "succeeded"))
    /\ UNCHANGED <<op, lock, program, requests>>

-----------------------------------------------------------------------------

\* A process dies: what it has read, and the lock it holds, go with it.
Crash(p) ==
    /\ op[p] # NoOp
    /\ op' = [op EXCEPT ![p] = NoOp]
    /\ lock' = IF lock = p THEN NoProcess ELSE lock
    /\ UNCHANGED <<db, program, requests>>

\* The program is upgraded while no process of it runs.
Upgrade ==
    /\ program <= MaxUpgrades /\ \A p \in Processes : op[p] = NoOp
    /\ program' = program + 1
    /\ UNCHANGED <<db, op, lock, requests>>

Empty == [k \in {} |-> 0]
Edge0 == [host |-> CHOOSE h \in Hosts : TRUE, port |-> 22]
DesiredInit ==
    /\ \E zones \in SUBSET Zones :
         db = [zones |-> [z \in zones |-> [certificate |-> TRUE, servesTls |-> FALSE]], records |-> Empty, rules |-> Empty,
               settings |-> {}, edges |-> [e \in Edges |-> Edge0], releases |-> Empty, deployments |-> Empty, clock |-> 1]
    /\ op = [p \in Processes |-> NoOp] /\ lock = NoProcess
    /\ program = 1 /\ requests = 0

EditZones(p) ==
    \E z \in Zones :
        \/ CreateDomain(p, z) \/ UpdateDomain(p, z) \/ DeleteDomain(p, z)
        \/ \E n \in Names : CreateRecord(p, <<z, n>>) \/ UpdateRecord(p, <<z, n>>) \/ DeleteRecord(p, <<z, n>>)
        \/ \E r \in Rules : LookUpZone(p, <<z, r>>) \/ UpdateRule(p, <<z, r>>) \/ DeleteRule(p, <<z, r>>)
EditFleet(p) ==
    \/ \E e \in Edges : AddEdge(p, e) \/ RemoveEdge(p, e) \/ ReadEdge(p, e)
    \/ \E s \in Settings : SetSetting(p, s) \/ DeleteSetting(p, s)
Release(p) ==
    \/ \E check \in BOOLEAN :
         Prepare(p, check, Edges, FALSE) \/ \E e \in Edges : Prepare(p, check, {e}, TRUE)
    \/ \E named, check \in BOOLEAN : SelectTarget(p, named, check)
    \/ RecordConfiguration(p) \/ Admit(p)
    \/ \E i \in DOMAIN db.deployments : Finish(p, i)

DesiredNext ==
    \/ \E p \in Processes : EditZones(p) \/ EditFleet(p) \/ CreateRule(p) \/ ReplaceEdge(p) \/ Release(p) \/ Crash(p)
    \/ Upgrade

DesiredSpec == DesiredInit /\ [][DesiredNext]_desired

-----------------------------------------------------------------------------
(* Properties.                                                             *)

\* Whatever operators, rollbacks and crashes did in whichever order, stored
\* records and rules have their zone and every stored zone composes.
StoredState ==
    /\ \A r \in DOMAIN db.records \cup DOMAIN db.rules : r[1] \in DOMAIN db.zones
    /\ \A z \in DOMAIN db.zones : Composes(db.zones[z])

\* An edit of an edge changes what its patch names and nothing that another
\* operator wrote since it was read (fleet.py, update_edge).
EditsMerge ==
    [][\A p \in Processes : op[p].at = "edging" /\ db'.edges # db.edges /\ op'[p] # op[p] =>
         db'.edges = [db.edges EXCEPT ![op[p].edge] = Over(op[p].patch, @)]]_desired

\* A rollback that succeeds leaves desired state as its release was compiled
\* from, rules and settings included; "the next reconciliation" finds nothing.
AdoptedWhole ==
    [][\A i \in DOMAIN db.deployments :
         LET row == db.deployments[i]
         IN (row.back /\ ~row.check /\ row.status = "queued" /\ db'.deployments[i].status = "succeeded")
                => Canonical(db') = row.release.inputs]_desired

\* A release put on record for a deployment is there when the deployment is
\* admitted, whoever prepares and prunes meanwhile; excepted is one that its
\* own preparation pruned.
PreparedAwaitsAdmission ==
    \A p \in Processes : op[p].at \in {"prepared", "admitting"} /\ op[p].kept => Recorded(db, op[p].release)

\* Deployments of one release ship one rendering of it, the first, through
\* upgrades and rollbacks ("rollbacks ship that first render").
ShipsFirstRender ==
    \A i, j \in Applied(db) :
        db.deployments[i].release = db.deployments[j].release => db.deployments[i].shipped = db.deployments[j].shipped
=============================================================================

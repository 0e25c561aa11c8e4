------------------------- MODULE DesiredStateProofs -------------------------
(* What desired state, its releases and their deployments keep, whatever   *)
(* operators, rollbacks, crashes and upgrades do in whichever order.       *)
EXTENDS DesiredState, TLAPS

-----------------------------------------------------------------------------
(* The database.                                                           *)

\* The tables it has.
Tabled(d) ==
    d = [zones |-> d.zones, records |-> d.records, rules |-> d.rules, settings |-> d.settings,
         edges |-> d.edges, releases |-> d.releases, deployments |-> d.deployments, clock |-> d.clock]
ZonesCompose(zones) == \A z \in DOMAIN zones : Composes(zones[z])

\* A release holds inputs that may be stored again.
Restorable(release) ==
    LET inputs == release.inputs
    IN /\ inputs = [zones |-> inputs.zones, records |-> inputs.records, rules |-> inputs.rules,
                    settings |-> inputs.settings]
       /\ ZonesCompose(inputs.zones)

\* A deployment that shipped anything shipped what its release is recorded to render.
Shipped(row, releases) ==
    /\ row.status = "succeeded" => row.shipped # 0
    /\ row.shipped # 0 => releases[row.release].rendering = row.shipped
Rowed(row) ==
    row = [release |-> row.release, check |-> row.check, limited |-> row.limited, status |-> row.status,
           back |-> row.back, canonical |-> row.canonical, shipped |-> row.shipped, edges |-> row.edges]
Deployed(d) ==
    \A i \in DOMAIN d.deployments :
        /\ i \in Nat /\ i < d.clock
        /\ Rowed(d.deployments[i]) /\ Restorable(d.deployments[i].release)
        /\ Shipped(d.deployments[i], d.releases)

Sound(d) == Tabled(d) /\ d.clock \in Nat /\ ForeignKeys(d) /\ ZonesCompose(d.zones) /\ Deployed(d)

\* A process that prepares or admits holds the lock, and the release it is to
\* name is there.
Holding(p, o, d) ==
    o.at \in {"prepared", "admitting"} =>
        /\ lock = p
        /\ o = [at |-> o.at, release |-> o.release, check |-> o.check, limited |-> o.limited, back |-> o.back,
                canonical |-> o.canonical, kept |-> o.kept]
        /\ Restorable(o.release)
        /\ o.kept => Recorded(d, o.release)

DesiredInv ==
    /\ Sound(db)
    /\ op = [p \in Processes |-> op[p]] /\ \A p \in Processes : Holding(p, op[p], db)
    /\ program \in Nat \ {0}

-----------------------------------------------------------------------------

\* An edit of the tables that operators write touches no release or deployment.
LEMMA EditKeeps ==
    ASSUME NEW d, Sound(d), NEW new, Tabled(new), ForeignKeys(new), ZonesCompose(new.zones),
           new.releases = d.releases, new.deployments = d.deployments, new.clock = d.clock
    PROVE  Sound(new)
BY DEF Sound, Deployed

LEMMA Transacted ==
    ASSUME NEW new, Transaction(new)
    PROVE  db' = db \/ (db' = new /\ ForeignKeys(new))
BY DEF Transaction, Commits

LEMMA DesiredStarts == DesiredInit => DesiredInv
<1> SUFFICES ASSUME DesiredInit PROVE DesiredInv OBVIOUS
<1>1. PICK zones \in SUBSET Zones :
        db = [zones |-> [z \in zones |-> [certificate |-> TRUE, servesTls |-> FALSE]], records |-> Empty,
              rules |-> Empty, settings |-> {}, edges |-> [e \in Edges |-> Edge0], releases |-> Empty,
              deployments |-> Empty, clock |-> 1]
  BY DEF DesiredInit
<1>2. Sound(db)
  BY <1>1 DEF Sound, Tabled, ForeignKeys, ZonesCompose, Composes, Deployed, Empty
<1>3. op = [p \in Processes |-> NoOp] /\ program = 1 BY DEF DesiredInit
<1> QED BY <1>2, <1>3 DEF DesiredInv, Holding, NoOp

\* What operators edit in one transaction.
Edits(p) ==
    \/ \E z \in Zones :
         \/ CreateDomain(p, z) \/ UpdateDomain(p, z) \/ DeleteDomain(p, z)
         \/ \E n \in Names : CreateRecord(p, <<z, n>>) \/ UpdateRecord(p, <<z, n>>) \/ DeleteRecord(p, <<z, n>>)
         \/ \E r \in Rules : UpdateRule(p, <<z, r>>) \/ DeleteRule(p, <<z, r>>)
    \/ \E e \in Edges : AddEdge(p, e) \/ RemoveEdge(p, e)
    \/ \E s \in Settings : SetSetting(p, s) \/ DeleteSetting(p, s)

LEMMA EditsWrite ==
    ASSUME Sound(db), NEW p \in Processes, Edits(p)
    PROVE  /\ UNCHANGED <<op, lock, program>> /\ op[p] = NoOp
           /\ \E new : /\ Tabled(new) /\ ZonesCompose(new.zones) /\ Transaction(new)
                       /\ new.releases = db.releases /\ new.deployments = db.deployments
                       /\ new.clock = db.clock
<1> DEFINE Written == \E new : /\ Tabled(new) /\ ZonesCompose(new.zones) /\ Transaction(new)
                               /\ new.releases = db.releases /\ new.deployments = db.deployments
                               /\ new.clock = db.clock
<1> USE DEF Sound
<1>1. ASSUME NEW z \in Zones, CreateDomain(p, z) PROVE Written
  <2>1. PICK policy : Composes(policy) /\ Transaction([db EXCEPT !.zones = With(@, z, policy)])
    BY <1>1 DEF CreateDomain
  <2>2. PICK new : new = [db EXCEPT !.zones = With(@, z, policy)] OBVIOUS
  <2>3. ZonesCompose(With(db.zones, z, policy)) BY <2>1 DEF ZonesCompose, With
  <2> QED BY <2>1, <2>2, <2>3 DEF Tabled
<1>2. ASSUME NEW z \in Zones, UpdateDomain(p, z) PROVE Written
  <2>1. PICK merged : Composes(merged) /\ Transaction([db EXCEPT !.zones[z] = merged])
    BY <1>2 DEF UpdateDomain
  <2>2. PICK new : new = [db EXCEPT !.zones[z] = merged] OBVIOUS
  <2>3. ZonesCompose([db.zones EXCEPT ![z] = merged]) BY <2>1 DEF ZonesCompose
  <2> QED BY <2>1, <2>2, <2>3 DEF Tabled
<1>3. ASSUME NEW z \in Zones, DeleteDomain(p, z) PROVE Written
  <2>1. PICK new : new = WithoutZones(db, {z}) OBVIOUS
  <2>2. Transaction(new) BY <1>3, <2>1 DEF DeleteDomain
  <2>3. ZonesCompose(Without(db.zones, {z})) BY DEF ZonesCompose, Without
  <2>4. /\ Tabled(new) /\ new.zones = Without(db.zones, {z})
        /\ new.releases = db.releases /\ new.deployments = db.deployments /\ new.clock = db.clock
    BY <2>1 DEF Tabled, WithoutZones
  <2> QED BY <2>2, <2>3, <2>4
<1>4. ASSUME NEW records, Transaction([db EXCEPT !.records = records]) PROVE Written
  <2>1. PICK new : new = [db EXCEPT !.records = records] OBVIOUS
  <2> QED BY <1>4, <2>1 DEF Tabled
<1>5. ASSUME NEW rules, Transaction([db EXCEPT !.rules = rules]) PROVE Written
  <2>1. PICK new : new = [db EXCEPT !.rules = rules] OBVIOUS
  <2> QED BY <1>5, <2>1 DEF Tabled
<1>6. ASSUME NEW edges, Transaction([db EXCEPT !.edges = edges]) PROVE Written
  <2>1. PICK new : new = [db EXCEPT !.edges = edges] OBVIOUS
  <2> QED BY <1>6, <2>1 DEF Tabled
<1>7. ASSUME NEW settings, Transaction([db EXCEPT !.settings = settings]) PROVE Written
  <2>1. PICK new : new = [db EXCEPT !.settings = settings] OBVIOUS
  <2> QED BY <1>7, <2>1 DEF Tabled
<1>8. ASSUME NEW r, CreateRecord(p, r) \/ UpdateRecord(p, r) \/ DeleteRecord(p, r) PROVE Written
  <2>1. PICK records : Transaction([db EXCEPT !.records = records])
    BY <1>8 DEF CreateRecord, UpdateRecord, DeleteRecord
  <2> QED BY <2>1, <1>4
<1>9. ASSUME NEW r, UpdateRule(p, r) \/ DeleteRule(p, r) PROVE Written
  <2>1. PICK rules : Transaction([db EXCEPT !.rules = rules]) BY <1>9 DEF UpdateRule, DeleteRule
  <2> QED BY <2>1, <1>5
<1>10. ASSUME NEW e \in Edges, AddEdge(p, e) \/ RemoveEdge(p, e) PROVE Written
  <2>1. PICK edges : Transaction([db EXCEPT !.edges = edges]) BY <1>10 DEF AddEdge, RemoveEdge
  <2> QED BY <2>1, <1>6
<1>11. ASSUME NEW s \in Settings, SetSetting(p, s) \/ DeleteSetting(p, s) PROVE Written
  <2>1. PICK settings : Transaction([db EXCEPT !.settings = settings]) BY <1>11 DEF SetSetting, DeleteSetting
  <2> QED BY <2>1, <1>7
<1>12. Written BY <1>1, <1>2, <1>3, <1>8, <1>9, <1>10, <1>11 DEF Edits
<1>13. UNCHANGED <<op, lock, program>> /\ op[p] = NoOp
  BY DEF Edits, CreateDomain, UpdateDomain, DeleteDomain, CreateRecord, UpdateRecord, DeleteRecord,
         UpdateRule, DeleteRule, AddEdge, RemoveEdge, SetSetting, DeleteSetting, Edited, Asks
<1> QED BY <1>12, <1>13

\* A step of a process writes its own entry.
LEMMA OpMoves ==
    ASSUME op = [q \in Processes |-> op[q]], NEW p \in Processes, NEW o, op' = [op EXCEPT ![p] = o]
    PROVE  /\ op' = [q \in Processes |-> op'[q]] /\ op'[p] = o
           /\ \A q \in Processes \ {p} : op'[q] = op[q]
OBVIOUS

\* Who holds the lock keeps it, and the release it is to name, while another
\* process that prepares nothing moves.
LEMMA OthersHold ==
    ASSUME DesiredInv, NEW p \in Processes, NEW o, op' = [op EXCEPT ![p] = o], UNCHANGED <<lock, program>>,
           o.at \notin {"prepared", "admitting"},
           Sound(db'), DOMAIN db.releases \subseteq DOMAIN db'.releases
    PROVE  DesiredInv'
<1>1. /\ op' = [q \in Processes |-> op'[q]] /\ op'[p] = o
      /\ \A q \in Processes \ {p} : op'[q] = op[q]
  BY OpMoves DEF DesiredInv
<1>2. ASSUME NEW q \in Processes PROVE Holding(q, op[q], db)'
  <2>1. CASE q = p BY <1>1, <2>1 DEF Holding
  <2>2. CASE q # p BY <1>1, <2>2 DEF DesiredInv, Holding, Recorded
  <2> QED BY <2>1, <2>2
<1> QED BY <1>1, <1>2 DEF DesiredInv

\* Nobody else holds it where one does.
LEMMA OneHolds ==
    ASSUME DesiredInv, NEW p \in Processes, NEW q \in Processes \ {p}, lock \in {p, NoProcess}
    PROVE  op[q].at \notin {"prepared", "admitting"}
BY DesiredAssumption DEF DesiredInv, Holding

LEMMA EditSteps ==
    ASSUME DesiredInv, NEW p \in Processes, Edits(p)
    PROVE  DesiredInv'
<1>1. UNCHANGED <<op, lock, program>> BY EditsWrite DEF DesiredInv
<1>2. PICK new : /\ Tabled(new) /\ ZonesCompose(new.zones) /\ Transaction(new)
                 /\ new.releases = db.releases /\ new.deployments = db.deployments
                 /\ new.clock = db.clock
  BY EditsWrite DEF DesiredInv
<1>3. db' = db \/ (Sound(new) /\ db' = new) BY <1>2, Transacted, EditKeeps DEF DesiredInv
<1>4. Sound(db') /\ db'.releases = db.releases BY <1>2, <1>3 DEF DesiredInv
<1> QED BY <1>1, <1>4 DEF DesiredInv, Holding, Recorded

\* What an operator reads before a transaction, and the transaction after it.
LEMMA TwoStepEdits ==
    ASSUME DesiredInv, NEW p \in Processes,
           \/ \E r : LookUpZone(p, r)
           \/ \E e : ReadEdge(p, e)
           \/ CreateRule(p) \/ ReplaceEdge(p)
    PROVE  DesiredInv'
<1>1. CASE (\E r : LookUpZone(p, r)) \/ (\E e : ReadEdge(p, e))
  <2>1. PICK o : op' = [op EXCEPT ![p] = o] /\ o.at \in {"ruling", "edging"} /\ UNCHANGED <<db, lock, program>>
    BY <1>1 DEF LookUpZone, ReadEdge
  <2>2. Sound(db') /\ DOMAIN db.releases \subseteq DOMAIN db'.releases BY <2>1 DEF DesiredInv
  <2> QED BY <2>1, <2>2, OthersHold
<1>2. CASE CreateRule(p) \/ ReplaceEdge(p)
  <2>1. op' = [op EXCEPT ![p] = NoOp] /\ UNCHANGED <<lock, program>> BY <1>2 DEF CreateRule, ReplaceEdge
  <2>2. PICK new : /\ Tabled(new) /\ ZonesCompose(new.zones)
                   /\ new.releases = db.releases /\ new.deployments = db.deployments /\ new.clock = db.clock
                   /\ db' = db \/ Transaction(new)
    <3>1. CASE CreateRule(p)
      <4>1. PICK rules : db' = db \/ Transaction([db EXCEPT !.rules = rules]) BY <3>1 DEF CreateRule
      <4>2. PICK new : new = [db EXCEPT !.rules = rules] OBVIOUS
      <4> QED BY <4>1, <4>2 DEF DesiredInv, Sound, Tabled
    <3>2. CASE ReplaceEdge(p)
      <4>1. PICK edges : db' = db \/ Transaction([db EXCEPT !.edges = edges]) BY <3>2 DEF ReplaceEdge
      <4>2. PICK new : new = [db EXCEPT !.edges = edges] OBVIOUS
      <4> QED BY <4>1, <4>2 DEF DesiredInv, Sound, Tabled
    <3> QED BY <1>2, <3>1, <3>2
  <2>3. db' = db \/ (Sound(new) /\ db' = new) BY <2>2, Transacted, EditKeeps DEF DesiredInv
  <2>4. Sound(db') /\ DOMAIN db.releases \subseteq DOMAIN db'.releases BY <2>2, <2>3 DEF DesiredInv
  <2> QED BY <2>1, <2>4, OthersHold DEF NoOp
<1> QED BY <1>1, <1>2

\* A release compiled from a sound database may be stored again.
LEMMA CompiledRestores ==
    ASSUME NEW d, ZonesCompose(d.zones), NEW targets
    PROVE  Restorable(Compiled(d, targets))
BY DEF Restorable, Compiled, Canonical, ZonesCompose

\* Saving a release, and pruning those that no deployment names, leave what
\* deployments shipped on record.
LEMMA SavedSound ==
    ASSUME NEW d, Sound(d), NEW release
    PROVE  Sound(Saved(d, release)) /\ Recorded(Saved(d, release), release)
<1>1. CASE Recorded(d, release) BY <1>1 DEF Saved
<1>2. CASE ~Recorded(d, release)
  <2>1. PICK new, releases, row :
          /\ new = Saved(d, release) /\ row = [rendering |-> 0, created |-> d.clock]
          /\ releases = With(d.releases, release, row)
    OBVIOUS
  <2>2. /\ Tabled(new) /\ new.zones = d.zones /\ new.records = d.records /\ new.rules = d.rules
        /\ new.releases = releases /\ new.deployments = d.deployments /\ new.clock = d.clock + 1
    BY <1>2, <2>1 DEF Saved, Sound, Tabled
  <2>3. /\ DOMAIN releases = DOMAIN d.releases \cup {release}
        /\ \A r \in DOMAIN d.releases : releases[r] = d.releases[r]
    BY <1>2, <2>1 DEF With, Recorded
  <2>4. ForeignKeys(new) BY <2>2, <2>3 DEF Sound, ForeignKeys
  <2>5. Deployed(new)
    <3> SUFFICES ASSUME NEW i \in DOMAIN d.deployments
                 PROVE  /\ i \in Nat /\ i < d.clock + 1
                        /\ Rowed(d.deployments[i]) /\ Restorable(d.deployments[i].release)
                        /\ Shipped(d.deployments[i], releases)
      BY <2>2 DEF Deployed
    <3>1. /\ i \in Nat /\ i < d.clock /\ d.clock \in Nat
          /\ Rowed(d.deployments[i]) /\ Restorable(d.deployments[i].release)
          /\ Shipped(d.deployments[i], d.releases) /\ d.deployments[i].release \in DOMAIN d.releases
      BY DEF Sound, Deployed, ForeignKeys
    <3> QED BY <2>3, <3>1 DEF Shipped
  <2>6. d.clock + 1 \in Nat BY DEF Sound
  <2> QED BY <2>1, <2>2, <2>3, <2>4, <2>5, <2>6 DEF Sound, Recorded
<1> QED BY <1>1, <1>2

LEMMA PrunedSound ==
    ASSUME NEW d, Sound(d)
    PROVE  Sound(Pruned(d))
<1> DEFINE gone == {r \in DOMAIN d.releases : r \notin InUse(d) /\ Cardinality(Newer(d, r)) >= Retention}
<1>1. Pruned(d) = [d EXCEPT !.releases = Without(@, gone)] /\ \A r \in gone : r \notin InUse(d)
  BY DEF Pruned
<1> HIDE DEF gone
<1>2. PICK new, releases : new = Pruned(d) /\ releases = Without(d.releases, gone) OBVIOUS
<1>3. /\ Tabled(new) /\ new.zones = d.zones /\ new.records = d.records /\ new.rules = d.rules
      /\ new.releases = releases /\ new.deployments = d.deployments /\ new.clock = d.clock
  BY <1>1, <1>2 DEF Sound, Tabled
<1>4. \A i \in DOMAIN d.deployments :
        LET release == d.deployments[i].release
        IN  release \in DOMAIN releases /\ releases[release] = d.releases[release]
  BY <1>1, <1>2 DEF InUse, Sound, ForeignKeys, Without
<1>5. ForeignKeys(new) BY <1>3, <1>4 DEF Sound, ForeignKeys
<1>6. Deployed(new) BY <1>3, <1>4 DEF Sound, Deployed, Shipped
<1> QED BY <1>2, <1>3, <1>5, <1>6 DEF Sound

LEMMA PrepareSteps ==
    ASSUME DesiredInv, NEW p \in Processes, NEW check \in BOOLEAN, NEW limit, NEW limited,
           Prepare(p, check, limit, limited)
    PROVE  DesiredInv'
<1>1. PICK release, new : /\ release = Compiled(db, DOMAIN db.edges \cap limit)
                          /\ new = Pruned(Saved(db, release))
  OBVIOUS
<1>2. PICK o : o = [at |-> "prepared", release |-> release, check |-> check, limited |-> limited, back |-> FALSE,
                    canonical |-> {}, kept |-> Recorded(new, release)]
  OBVIOUS
<1>3. /\ Transaction(new) /\ op' = [op EXCEPT ![p] = o] /\ lock = NoProcess /\ lock' = p /\ UNCHANGED program
  BY <1>1, <1>2 DEF Prepare, Takes, LockFree
<1>4. Sound(new) BY <1>1, SavedSound, PrunedSound DEF DesiredInv
<1>5. db' = new BY <1>3, <1>4 DEF Transaction, Commits, Sound
<1>6. Restorable(release) BY <1>1, CompiledRestores DEF DesiredInv, Sound
<1>7. /\ op' = [q \in Processes |-> op'[q]] /\ op'[p] = o
      /\ \A q \in Processes \ {p} : op'[q] = op[q]
  BY <1>3, OpMoves DEF DesiredInv
<1>8. ASSUME NEW q \in Processes PROVE Holding(q, op[q], db)'
  <2>1. CASE q = p
    <3>1. o.kept => Recorded(db', release) BY <1>2, <1>5
    <3> QED BY <1>2, <1>3, <1>6, <1>7, <2>1, <3>1 DEF Holding
  <2>2. CASE q # p BY <1>3, <1>7, <2>2, OneHolds DEF Holding
  <2> QED BY <2>1, <2>2
<1> QED BY <1>3, <1>4, <1>5, <1>7, <1>8 DEF DesiredInv

\* A configuration is rendered for a release that has none.
LEMMA RecordSteps ==
    ASSUME DesiredInv, NEW p \in Processes, RecordConfiguration(p)
    PROVE  DesiredInv'
<1>1. PICK o, release : o = op[p] /\ release = o.release OBVIOUS
<1>2. /\ o.at = "prepared" /\ Holding(p, o, db) /\ UNCHANGED program
  BY <1>1 DEF RecordConfiguration, DesiredInv
<1>3. PICK next : next = [o EXCEPT !.at = "admitting"] OBVIOUS
<1>4. /\ next.at = "admitting" /\ next.release = release /\ next.kept = o.kept
      /\ next = [at |-> next.at, release |-> next.release, check |-> next.check, limited |-> next.limited,
                 back |-> next.back, canonical |-> next.canonical, kept |-> next.kept]
  BY <1>1, <1>2, <1>3 DEF Holding
<1>5. ASSUME op' = [op EXCEPT ![p] = next], lock' = lock, Sound(db'), DOMAIN db.releases \subseteq DOMAIN db'.releases
      PROVE  DesiredInv'
  <2>1. /\ op' = [q \in Processes |-> op'[q]] /\ op'[p] = next
        /\ \A q \in Processes \ {p} : op'[q] = op[q]
    BY <1>5, OpMoves DEF DesiredInv
  <2>2. ASSUME NEW q \in Processes PROVE Holding(q, op[q], db)'
    <3>1. CASE q = p BY <1>1, <1>2, <1>4, <1>5, <2>1, <3>1 DEF Holding, Recorded
    <3>2. CASE q # p BY <1>5, <2>1, <3>2 DEF DesiredInv, Holding, Recorded
    <3> QED BY <3>1, <3>2
  <2> QED BY <1>2, <1>5, <2>1, <2>2 DEF DesiredInv
<1>6. CASE op' = [op EXCEPT ![p].at = "admitting"] /\ UNCHANGED <<db, lock>>
  <2>1. op' = [op EXCEPT ![p] = next] BY <1>1, <1>3, <1>6
  <2>2. Sound(db') BY <1>6 DEF DesiredInv
  <2> QED BY <1>5, <1>6, <2>1, <2>2
<1>7. CASE /\ Recorded(db, release) /\ Transaction([db EXCEPT !.releases[release] = Rendered(@)])
           /\ op' = [op EXCEPT ![p].at = "admitting"] /\ UNCHANGED lock
  <2>1. PICK new, releases : /\ new = [db EXCEPT !.releases[release] = Rendered(@)]
                             /\ releases = [db.releases EXCEPT ![release] = Rendered(@)]
    OBVIOUS
  <2>2. /\ Tabled(new) /\ new.zones = db.zones /\ new.records = db.records /\ new.rules = db.rules
        /\ new.releases = releases /\ new.deployments = db.deployments /\ new.clock = db.clock
    BY <2>1 DEF DesiredInv, Sound, Tabled
  <2>3. \A r \in DOMAIN db.releases :
          db.releases[r].rendering # 0 => releases[r].rendering = db.releases[r].rendering
    BY <2>1 DEF Rendered
  <2>4. DOMAIN releases = DOMAIN db.releases BY <2>1
  <2>5. ForeignKeys(new) BY <2>2, <2>4 DEF DesiredInv, Sound, ForeignKeys
  <2>6. Deployed(new)
    <3> SUFFICES ASSUME NEW i \in DOMAIN db.deployments
                 PROVE  Shipped(db.deployments[i], releases)
      BY <2>2 DEF Deployed, DesiredInv, Sound
    <3>1. Shipped(db.deployments[i], db.releases) /\ db.deployments[i].release \in DOMAIN db.releases
      BY DEF DesiredInv, Sound, Deployed, ForeignKeys
    <3> QED BY <2>3, <3>1 DEF Shipped
  <2>7. Sound(new) BY <2>2, <2>5, <2>6 DEF DesiredInv, Sound
  <2>8. db' = new BY <1>7, <2>1, <2>5 DEF Transaction, Commits
  <2>9. op' = [op EXCEPT ![p] = next] BY <1>1, <1>3, <1>7
  <2> QED BY <1>5, <1>7, <2>2, <2>4, <2>7, <2>8, <2>9
<1>8. CASE op' = [op EXCEPT ![p] = NoOp] /\ lock' = NoProcess /\ UNCHANGED db
  <2>1. /\ op' = [q \in Processes |-> op'[q]] /\ op'[p] = NoOp
        /\ \A q \in Processes \ {p} : op'[q] = op[q]
    BY <1>8, OpMoves DEF DesiredInv
  <2>2. ASSUME NEW q \in Processes PROVE Holding(q, op[q], db)'
    <3>1. CASE q = p BY <2>1, <3>1 DEF Holding, NoOp
    <3>2. CASE q # p BY <1>2, <2>1, <3>2, OneHolds DEF Holding
    <3> QED BY <3>1, <3>2
  <2> QED BY <1>2, <1>8, <2>1, <2>2 DEF DesiredInv, Sound, Tabled, Deployed, ForeignKeys
<1> QED BY <1>1, <1>6, <1>7, <1>8 DEF RecordConfiguration

\* A deployment is put on record, and old checks go.
LEMMA AdmitWrites ==
    ASSUME DesiredInv, NEW p \in Processes, Admit(p)
    PROVE  /\ Sound(db') /\ db'.releases = db.releases
           /\ \A i \in DOMAIN db.deployments :
                db.deployments[i].status = "queued" =>
                  i \in DOMAIN db'.deployments /\ db'.deployments[i] = db.deployments[i]
           /\ \A i \in DOMAIN db'.deployments :
                \/ i \in DOMAIN db.deployments /\ db'.deployments[i] = db.deployments[i]
                \/ db'.deployments[i].status = "queued"
<1>1. PICK o, row : /\ o = op[p]
                    /\ row = [release |-> o.release, check |-> o.check, limited |-> o.limited,
                              status |-> "queued", back |-> o.back, canonical |-> o.canonical, shipped |-> 0,
                              edges |-> IF o.back THEN DOMAIN db.edges ELSE o.release.targets]
  OBVIOUS
<1>2. o.at = "admitting" /\ Holding(p, o, db) BY <1>1 DEF Admit, DesiredInv
<1>3. PICK more, all, new : /\ more = With(db.deployments, db.clock, row)
                            /\ all = [db EXCEPT !.deployments = more, !.clock = @ + 1]
                            /\ new = HistoryPruned(all)
  OBVIOUS
<1>4. Transaction(new) BY <1>1, <1>3 DEF Admit
<1>5. db.clock \in Nat /\ \A i \in DOMAIN db.deployments : i \in Nat /\ i < db.clock
  BY DEF DesiredInv, Sound, Deployed
<1>6. /\ DOMAIN more = DOMAIN db.deployments \cup {db.clock} /\ more[db.clock] = row
      /\ \A i \in DOMAIN db.deployments : more[i] = db.deployments[i]
  BY <1>3, <1>5 DEF With
<1>7. /\ Tabled(all) /\ all.zones = db.zones /\ all.records = db.records /\ all.rules = db.rules
      /\ all.releases = db.releases /\ all.deployments = more /\ all.clock = db.clock + 1
  BY <1>3 DEF DesiredInv, Sound, Tabled
<1> DEFINE drop == {i \in {j \in Finished(all) : all.deployments[j].check} :
                      Cardinality({j \in {k \in Finished(all) : all.deployments[k].check} : j > i}) >= Retention}
<1>8. drop \subseteq Finished(all) /\ new = [all EXCEPT !.deployments = Without(@, drop)]
  BY <1>3 DEF HistoryPruned
<1> HIDE DEF drop
<1>9. PICK left : left = Without(more, drop) OBVIOUS
<1>10. /\ Tabled(new) /\ new.zones = db.zones /\ new.records = db.records /\ new.rules = db.rules
       /\ new.releases = db.releases /\ new.deployments = left /\ new.clock = db.clock + 1
  BY <1>7, <1>8, <1>9 DEF Tabled
<1>11. /\ DOMAIN left \subseteq DOMAIN more /\ \A i \in DOMAIN left : left[i] = more[i]
       /\ \A i \in DOMAIN more : more[i].status = "queued" => i \in DOMAIN left
  BY <1>7, <1>8, <1>9 DEF Without, Finished
<1>12. row.status = "queued" /\ row.shipped = 0 /\ Rowed(row) /\ Restorable(row.release)
  BY <1>1, <1>2 DEF Rowed, Holding
<1>13. Deployed(new)
  <2> SUFFICES ASSUME NEW i \in DOMAIN left
               PROVE  /\ i \in Nat /\ i < db.clock + 1
                      /\ Rowed(left[i]) /\ Restorable(left[i].release)
                      /\ Shipped(left[i], db.releases)
    BY <1>10 DEF Deployed
  <2>1. CASE i = db.clock BY <1>5, <1>6, <1>11, <1>12, <2>1 DEF Shipped
  <2>2. CASE i \in DOMAIN db.deployments
    BY <1>5, <1>6, <1>11, <2>2 DEF DesiredInv, Sound, Deployed
  <2> QED BY <1>6, <1>11, <2>1, <2>2
<1>14. ForeignKeys(new) => Sound(new) BY <1>5, <1>10, <1>13 DEF DesiredInv, Sound
<1>15. CASE db' = db BY <1>15 DEF DesiredInv
<1>16. CASE db' = new /\ ForeignKeys(new)
  BY <1>6, <1>10, <1>11, <1>12, <1>14, <1>16
<1> QED BY <1>4, <1>15, <1>16, Transacted

LEMMA AdmitSteps ==
    ASSUME DesiredInv, NEW p \in Processes, Admit(p)
    PROVE  DesiredInv'
<1>1. lock = p /\ op' = [op EXCEPT ![p] = NoOp] /\ lock' = NoProcess /\ UNCHANGED program
  BY DEF Admit, DesiredInv, Holding
<1>2. Sound(db') BY AdmitWrites
<1>3. /\ op' = [q \in Processes |-> op'[q]] /\ op'[p] = NoOp
      /\ \A q \in Processes \ {p} : op'[q] = op[q]
  BY <1>1, OpMoves DEF DesiredInv
<1>4. ASSUME NEW q \in Processes PROVE Holding(q, op[q], db)'
  <2>1. CASE q = p BY <1>3, <2>1 DEF Holding, NoOp
  <2>2. CASE q # p BY <1>1, <1>3, <2>2, OneHolds DEF Holding
  <2> QED BY <2>1, <2>2
<1> QED BY <1>1, <1>2, <1>3, <1>4 DEF DesiredInv

\* A rollback names the release of a deployment that was applied.
LEMMA SelectSteps ==
    ASSUME DesiredInv, NEW p \in Processes, NEW named, NEW check, SelectTarget(p, named, check)
    PROVE  DesiredInv'
<1>1. PICK i \in DOMAIN db.deployments :
        op' = [op EXCEPT ![p] = [at |-> "admitting", release |-> db.deployments[i].release, check |-> check,
                                 limited |-> FALSE, back |-> TRUE, canonical |-> Canonical(db), kept |-> TRUE]]
  BY DEF SelectTarget, Applied, Target
<1>2. PICK o : o = [at |-> "admitting", release |-> db.deployments[i].release, check |-> check,
                    limited |-> FALSE, back |-> TRUE, canonical |-> Canonical(db), kept |-> TRUE]
  OBVIOUS
<1>3. /\ op' = [q \in Processes |-> op'[q]] /\ op'[p] = o
      /\ \A q \in Processes \ {p} : op'[q] = op[q]
  BY <1>1, <1>2, OpMoves DEF DesiredInv
<1>4. lock = NoProcess /\ lock' = p /\ UNCHANGED <<db, program>> BY DEF SelectTarget, Takes, LockFree
<1>5. Restorable(o.release) /\ Recorded(db, o.release)
  BY <1>2 DEF DesiredInv, Sound, Deployed, ForeignKeys, Recorded
<1>6. ASSUME NEW q \in Processes PROVE Holding(q, op[q], db)'
  <2>1. CASE q = p BY <1>2, <1>3, <1>4, <1>5, <2>1 DEF Holding
  <2>2. CASE q # p BY <1>3, <1>4, <2>2, OneHolds DEF Holding
  <2> QED BY <2>1, <2>2
<1> QED BY <1>3, <1>4, <1>6 DEF DesiredInv

\* A deployment ends: its row changes, of one that is adopted the tables too.
LEMMA RowSound ==
    ASSUME Sound(db), NEW i \in DOMAIN db.deployments, NEW new,
           Tabled(new), ZonesCompose(new.zones), ForeignKeys(new),
           new.releases = db.releases, new.clock = db.clock,
           DOMAIN new.deployments = DOMAIN db.deployments,
           \A j \in DOMAIN db.deployments \ {i} : new.deployments[j] = db.deployments[j],
           Rowed(new.deployments[i]), new.deployments[i].release = db.deployments[i].release,
           Shipped(new.deployments[i], db.releases)
    PROVE  Sound(new)
<1>1. Deployed(new)
  <2> SUFFICES ASSUME NEW j \in DOMAIN db.deployments
               PROVE  /\ j \in Nat /\ j < db.clock
                      /\ Rowed(new.deployments[j]) /\ Restorable(new.deployments[j].release)
                      /\ Shipped(new.deployments[j], db.releases)
    BY DEF Deployed
  <2>1. CASE j = i BY <2>1 DEF Sound, Deployed
  <2>2. CASE j # i BY <2>2 DEF Sound, Deployed
  <2> QED BY <2>1, <2>2
<1> QED BY <1>1 DEF Sound

\* Adopting puts back all that a release was compiled from, and nothing else.
LEMMA Adopted ==
    ASSUME Sound(db), NEW release, Restorable(release), NEW new, new = AdoptInputs(db, release.inputs)
    PROVE  /\ Tabled(new) /\ Canonical(new) = release.inputs /\ ZonesCompose(new.zones)
           /\ new.releases = db.releases /\ new.deployments = db.deployments /\ new.clock = db.clock
<1>1. PICK inputs : inputs = release.inputs OBVIOUS
<1>2. PICK bare : bare = WithoutZones(db, DOMAIN db.zones) OBVIOUS
<1>3. /\ Tabled(bare) /\ bare.edges = db.edges
      /\ bare.releases = db.releases /\ bare.deployments = db.deployments /\ bare.clock = db.clock
  BY <1>2 DEF Sound, Tabled, WithoutZones
<1>4. PICK zoned : zoned = [bare EXCEPT !.zones = inputs.zones, !.records = inputs.records] OBVIOUS
<1>5. /\ Tabled(zoned) /\ zoned.zones = inputs.zones /\ zoned.records = inputs.records
      /\ zoned.releases = db.releases /\ zoned.deployments = db.deployments /\ zoned.clock = db.clock
  BY <1>3, <1>4 DEF Tabled
<1>6. PICK ruled : ruled = [zoned EXCEPT !.rules = inputs.rules] OBVIOUS
<1>7. /\ Tabled(ruled) /\ ruled.zones = inputs.zones /\ ruled.records = inputs.records /\ ruled.rules = inputs.rules
      /\ ruled.releases = db.releases /\ ruled.deployments = db.deployments /\ ruled.clock = db.clock
  BY <1>5, <1>6 DEF Tabled
<1>8. new = [ruled EXCEPT !.settings = inputs.settings]
  BY <1>1, <1>2, <1>4, <1>6 DEF AdoptInputs, ReplaceAllRecords, ReplaceAllRules, ReplaceAllSettings
<1>9. /\ Tabled(new) /\ new.zones = inputs.zones /\ new.records = inputs.records /\ new.rules = inputs.rules
      /\ new.settings = inputs.settings
      /\ new.releases = db.releases /\ new.deployments = db.deployments /\ new.clock = db.clock
  BY <1>7, <1>8 DEF Tabled
<1> QED BY <1>1, <1>9 DEF Canonical, Restorable

\* The end of a deployment writes one row.
Rewrites(i, base, new) ==
    /\ Tabled(new) /\ new.zones = base.zones /\ new.records = base.records /\ new.rules = base.rules
    /\ new.settings = base.settings /\ new.releases = base.releases /\ new.clock = base.clock
    /\ DOMAIN new.deployments = DOMAIN base.deployments
    /\ \A j \in DOMAIN base.deployments \ {i} : new.deployments[j] = base.deployments[j]
    /\ Rowed(new.deployments[i]) /\ new.deployments[i].release = base.deployments[i].release

LEMMA StatusWritten ==
    ASSUME NEW base, Tabled(base), NEW i, i \in DOMAIN base.deployments, Rowed(base.deployments[i]), NEW v,
           NEW new, new = Ends(base, i, v)
    PROVE  /\ Rewrites(i, base, new) /\ new.deployments[i].status = v
           /\ new.deployments[i].shipped = base.deployments[i].shipped
<1>1. PICK row, row2 : row = base.deployments[i] /\ row2 = [row EXCEPT !.status = v] OBVIOUS
<1>2. Rowed(row2) /\ row2.release = row.release /\ row2.status = v /\ row2.shipped = row.shipped
  BY <1>1 DEF Rowed
<1>3. PICK deployments : deployments = [base.deployments EXCEPT ![i] = row2] OBVIOUS
<1>4. /\ Tabled(new) /\ new.zones = base.zones /\ new.records = base.records /\ new.rules = base.rules
      /\ new.settings = base.settings /\ new.releases = base.releases /\ new.clock = base.clock
      /\ new.deployments = deployments
  BY <1>1, <1>3 DEF Tabled, Ends
<1>5. /\ DOMAIN deployments = DOMAIN base.deployments /\ deployments[i] = row2
      /\ \A j \in DOMAIN base.deployments \ {i} : deployments[j] = base.deployments[j]
  BY <1>3
<1> QED BY <1>1, <1>2, <1>4, <1>5 DEF Rewrites

LEMMA ShippedWritten ==
    ASSUME NEW base, Tabled(base), NEW i, i \in DOMAIN base.deployments, Rowed(base.deployments[i]), NEW v,
           NEW new, new = Ships(base, i, v)
    PROVE  /\ Rewrites(i, base, new) /\ new.deployments[i].shipped = v
<1>1. PICK row, row2 : row = base.deployments[i] /\ row2 = [row EXCEPT !.shipped = v] OBVIOUS
<1>2. Rowed(row2) /\ row2.release = row.release /\ row2.shipped = v
  BY <1>1 DEF Rowed
<1>3. PICK deployments : deployments = [base.deployments EXCEPT ![i] = row2] OBVIOUS
<1>4. /\ Tabled(new) /\ new.zones = base.zones /\ new.records = base.records /\ new.rules = base.rules
      /\ new.settings = base.settings /\ new.releases = base.releases /\ new.clock = base.clock
      /\ new.deployments = deployments
  BY <1>1, <1>3 DEF Tabled, Ships
<1>5. /\ DOMAIN deployments = DOMAIN base.deployments /\ deployments[i] = row2
      /\ \A j \in DOMAIN base.deployments \ {i} : deployments[j] = base.deployments[j]
  BY <1>3
<1> QED BY <1>1, <1>2, <1>4, <1>5 DEF Rewrites

\* What it ships, and then how it ends.
LEMMA EndWritten ==
    ASSUME NEW base, Tabled(base), NEW i, i \in DOMAIN base.deployments, Rowed(base.deployments[i]),
           NEW rendering, NEW status, NEW new, new = Ends(Ships(base, i, rendering), i, status)
    PROVE  /\ Rewrites(i, base, new) /\ new.deployments[i].status = status
           /\ new.deployments[i].shipped = rendering
<1>0. PICK half : half = Ships(base, i, rendering) OBVIOUS
<1>1. Rewrites(i, base, half) /\ half.deployments[i].shipped = rendering BY <1>0, ShippedWritten
<1>2. Tabled(half) /\ i \in DOMAIN half.deployments /\ Rowed(half.deployments[i]) BY <1>1 DEF Rewrites
<1>3. /\ Rewrites(i, half, new) /\ new.deployments[i].status = status
      /\ new.deployments[i].shipped = half.deployments[i].shipped
  BY <1>0, <1>2, StatusWritten
<1> QED BY <1>1, <1>3 DEF Rewrites

LEMMA FinishWrites ==
    ASSUME DesiredInv, NEW p \in Processes, NEW i \in DOMAIN db.deployments, Finish(p, i)
    PROVE  /\ UNCHANGED <<op, lock, program>> /\ Sound(db') /\ db'.releases = db.releases
           /\ op[p] = NoOp
           /\ DOMAIN db'.deployments = DOMAIN db.deployments
           /\ \A j \in DOMAIN db.deployments \ {i} : db'.deployments[j] = db.deployments[j]
           /\ LET row == db.deployments[i]
              IN  row.back /\ ~row.check /\ db'.deployments[i].status = "succeeded"
                    => Canonical(db') = row.release.inputs
<1>1. PICK row, rendering : row = db.deployments[i] /\ rendering = db.releases[row.release].rendering
  OBVIOUS
<1>2. /\ Sound(db) /\ Tabled(db) /\ ZonesCompose(db.zones) /\ Restorable(row.release) /\ Rowed(row)
      /\ Shipped(row, db.releases) /\ row.status = "queued"
      /\ UNCHANGED <<op, lock, program>> /\ op[p] = NoOp
  BY <1>1 DEF DesiredInv, Sound, Deployed, Finish
<1>3. PICK adopted : adopted = AdoptInputs(db, row.release.inputs) OBVIOUS
<1>4. /\ Tabled(adopted) /\ Canonical(adopted) = row.release.inputs /\ ZonesCompose(adopted.zones)
      /\ adopted.releases = db.releases /\ adopted.deployments = db.deployments /\ adopted.clock = db.clock
  BY <1>2, <1>3, Adopted
<1>5. PICK base, new :
        /\ Transaction(new) /\ Rewrites(i, base, new) /\ base \in {db, adopted}
        /\ \/ new.deployments[i].status = "failed" /\ new.deployments[i].shipped \in {row.shipped, rendering}
           \/ /\ new.deployments[i].status = "succeeded" /\ new.deployments[i].shipped = rendering
              /\ rendering # 0 /\ (base = adopted \/ ~(row.back /\ ~row.check))
  <2>1. \/ Transaction(Ends(db, i, "failed"))
        \/ Transaction(Ends(Ships(db, i, rendering), i, "failed"))
        \/ rendering # 0 /\ ~(row.back /\ ~row.check) /\ Transaction(Ends(Ships(db, i, rendering), i, "succeeded"))
        \/ rendering # 0 /\ Transaction(Ends(Ships(adopted, i, rendering), i, "succeeded"))
    BY <1>1, <1>3 DEF Finish
  <2>0. PICK a : a = db /\ Tabled(a) /\ i \in DOMAIN a.deployments /\ Rowed(a.deployments[i]) BY <1>1, <1>2
  <2>2. CASE Transaction(Ends(db, i, "failed"))
    <3>1. PICK new : new = Ends(db, i, "failed") OBVIOUS
    <3>2. /\ Rewrites(i, db, new) /\ new.deployments[i].status = "failed"
          /\ new.deployments[i].shipped = row.shipped
      BY <1>1, <2>0, <3>1, StatusWritten
    <3> QED BY <2>2, <3>1, <3>2
  <2>3. CASE Transaction(Ends(Ships(db, i, rendering), i, "failed"))
    <3>1. PICK new : new = Ends(Ships(db, i, rendering), i, "failed") OBVIOUS
    <3>2. /\ Rewrites(i, db, new) /\ new.deployments[i].status = "failed"
          /\ new.deployments[i].shipped = rendering
      BY <2>0, <3>1, EndWritten
    <3> QED BY <2>3, <3>1, <3>2
  <2>4. CASE rendering # 0 /\ ~(row.back /\ ~row.check) /\ Transaction(Ends(Ships(db, i, rendering), i, "succeeded"))
    <3>1. PICK new : new = Ends(Ships(db, i, rendering), i, "succeeded") OBVIOUS
    <3>2. /\ Rewrites(i, db, new) /\ new.deployments[i].status = "succeeded"
          /\ new.deployments[i].shipped = rendering
      BY <2>0, <3>1, EndWritten
    <3> QED BY <2>4, <3>1, <3>2
  <2>5. CASE rendering # 0 /\ Transaction(Ends(Ships(adopted, i, rendering), i, "succeeded"))
    <3>1. PICK new : new = Ends(Ships(adopted, i, rendering), i, "succeeded") OBVIOUS
    <3>2. i \in DOMAIN adopted.deployments /\ Rowed(adopted.deployments[i]) BY <1>1, <1>2, <1>4
    <3>3. /\ Rewrites(i, adopted, new) /\ new.deployments[i].status = "succeeded"
          /\ new.deployments[i].shipped = rendering
      BY <1>3, <1>4, <3>1, <3>2, EndWritten
    <3> QED BY <2>5, <3>1, <3>3
  <2> QED BY <2>1, <2>2, <2>3, <2>4, <2>5
<1>6. CASE db' = db BY <1>1, <1>2, <1>6
<1>7. CASE db' = new /\ ForeignKeys(new)
  <2>1. /\ Tabled(base) /\ ZonesCompose(base.zones)
        /\ base.releases = db.releases /\ base.deployments = db.deployments /\ base.clock = db.clock
    BY <1>2, <1>4, <1>5
  <2>2. /\ Tabled(new) /\ ZonesCompose(new.zones) /\ new.releases = db.releases /\ new.clock = db.clock
        /\ DOMAIN new.deployments = DOMAIN db.deployments
        /\ \A j \in DOMAIN db.deployments \ {i} : new.deployments[j] = db.deployments[j]
        /\ Rowed(new.deployments[i]) /\ new.deployments[i].release = db.deployments[i].release
    BY <1>5, <2>1 DEF Rewrites
  <2>3. Shipped(new.deployments[i], db.releases) BY <1>1, <1>2, <1>5, <2>2 DEF Shipped
  <2>4. Sound(new) BY <1>2, <1>7, <2>2, <2>3, RowSound
  <2>5. base = adopted => Canonical(new) = row.release.inputs
    BY <1>4, <1>5 DEF Rewrites, Canonical
  <2>6. row.back /\ ~row.check /\ new.deployments[i].status = "succeeded" => base = adopted BY <1>5
  <2> QED BY <1>1, <1>2, <1>7, <2>2, <2>4, <2>5, <2>6
<1> QED BY <1>5, <1>6, <1>7, Transacted

LEMMA FinishSteps ==
    ASSUME DesiredInv, NEW p \in Processes, NEW i \in DOMAIN db.deployments, Finish(p, i)
    PROVE  DesiredInv'
<1>1. UNCHANGED <<op, lock, program>> /\ Sound(db') /\ db'.releases = db.releases BY FinishWrites
<1> QED BY <1>1 DEF DesiredInv, Holding, Recorded

LEMMA CrashSteps ==
    ASSUME DesiredInv, NEW p \in Processes, Crash(p)
    PROVE  DesiredInv'
<1>1. /\ op' = [op EXCEPT ![p] = NoOp] /\ UNCHANGED <<db, program>>
      /\ lock' = IF lock = p THEN NoProcess ELSE lock
  BY DEF Crash
<1>2. /\ op' = [q \in Processes |-> op'[q]] /\ op'[p] = NoOp
      /\ \A q \in Processes \ {p} : op'[q] = op[q]
  BY <1>1, OpMoves DEF DesiredInv
<1>3. ASSUME NEW q \in Processes PROVE Holding(q, op[q], db)'
  <2>1. CASE q = p BY <1>2, <2>1 DEF Holding, NoOp
  <2>2. CASE q # p BY <1>1, <1>2, <2>2 DEF DesiredInv, Holding
  <2> QED BY <2>1, <2>2
<1> QED BY <1>1, <1>2, <1>3 DEF DesiredInv

\* Every step, sorted by what it does to the deployments.
LEMMA Sorted ==
    ASSUME DesiredNext
    PROVE  \/ Upgrade
           \/ \E p \in Processes :
                \/ Edits(p)
                \/ (\E r : LookUpZone(p, r)) \/ (\E e : ReadEdge(p, e)) \/ CreateRule(p) \/ ReplaceEdge(p)
                \/ \E limit, limited : \E check \in BOOLEAN : Prepare(p, check, limit, limited)
                \/ \E named, check \in BOOLEAN : SelectTarget(p, named, check)
                \/ RecordConfiguration(p) \/ Admit(p) \/ Crash(p)
                \/ \E i \in DOMAIN db.deployments : Finish(p, i)
<1> SUFFICES ASSUME NEW p \in Processes,
                    EditZones(p) \/ EditFleet(p) \/ CreateRule(p) \/ ReplaceEdge(p) \/ Release(p) \/ Crash(p)
             PROVE  \/ Edits(p)
                    \/ (\E r : LookUpZone(p, r)) \/ (\E e : ReadEdge(p, e)) \/ CreateRule(p) \/ ReplaceEdge(p)
                    \/ \E limit, limited : \E check \in BOOLEAN : Prepare(p, check, limit, limited)
                    \/ \E named, check \in BOOLEAN : SelectTarget(p, named, check)
                    \/ RecordConfiguration(p) \/ Admit(p) \/ Crash(p)
                    \/ \E i \in DOMAIN db.deployments : Finish(p, i)
  BY DEF DesiredNext
<1>1. EditZones(p) => Edits(p) \/ (\E r : LookUpZone(p, r)) BY DEF EditZones, Edits
<1>2. EditFleet(p) => Edits(p) \/ (\E e : ReadEdge(p, e)) BY DEF EditFleet, Edits
<1> QED BY <1>1, <1>2 DEF Release

LEMMA DesiredStep ==
    ASSUME DesiredInv, [DesiredNext]_desired
    PROVE  DesiredInv'
<1>1. CASE UNCHANGED desired BY <1>1 DEF desired, DesiredInv, Sound, Tabled, Deployed, ForeignKeys, Holding, Recorded
<1>2. CASE Upgrade
  <2>1. UNCHANGED <<db, op, lock>> /\ program' = program + 1 BY <1>2 DEF Upgrade
  <2> QED BY <2>1 DEF DesiredInv, Holding
<1>3. CASE DesiredNext /\ ~Upgrade
  BY <1>3, Sorted, EditSteps, TwoStepEdits, PrepareSteps, SelectSteps, RecordSteps, AdmitSteps, CrashSteps, FinishSteps
<1> QED BY <1>1, <1>2, <1>3

LEMMA DesiredAlways == DesiredSpec => []DesiredInv
BY DesiredStarts, DesiredStep, PTL DEF DesiredSpec

-----------------------------------------------------------------------------

\* Whatever operators, rollbacks and crashes did, records and rules have their
\* zone and every zone composes: what is rolled back to did when it was compiled.
THEOREM StateIsSound == DesiredSpec => []StoredState
<1>1. DesiredInv => StoredState BY DEF DesiredInv, Sound, ForeignKeys, ZonesCompose, StoredState
<1> QED BY <1>1, DesiredAlways, PTL

\* A release put on record for a deployment is there until it is admitted: who
\* may prune it needs the lock that its process holds.
THEOREM PreparedIsAdmitted == DesiredSpec => []PreparedAwaitsAdmission
<1>1. DesiredInv => PreparedAwaitsAdmission BY DEF DesiredInv, Holding, PreparedAwaitsAdmission
<1> QED BY <1>1, DesiredAlways, PTL

\* Deployments of one release ship one rendering, through any upgrades of the
\* program, rollbacks and pruning: what a deployment shipped stays on record.
THEOREM FirstRenderShips == DesiredSpec => []ShipsFirstRender
<1>1. DesiredInv => ShipsFirstRender
  <2> SUFFICES ASSUME DesiredInv, NEW i \in Applied(db), NEW j \in Applied(db),
                      db.deployments[i].release = db.deployments[j].release
               PROVE  db.deployments[i].shipped = db.deployments[j].shipped
    BY DEF ShipsFirstRender
  <2> QED BY DEF Applied, DesiredInv, Sound, Deployed, Shipped
<1> QED BY <1>1, DesiredAlways, PTL

\* Only an admission and an end write deployments.
LEMMA DeploymentsStay ==
    ASSUME DesiredInv, [DesiredNext]_desired
    PROVE  \/ db'.deployments = db.deployments
           \/ \E p \in Processes : Admit(p)
           \/ \E p \in Processes, i \in DOMAIN db.deployments : Finish(p, i)
<1>1. CASE UNCHANGED desired \/ Upgrade BY <1>1 DEF desired, Upgrade
<1>2. ASSUME NEW p \in Processes, Edits(p) PROVE db'.deployments = db.deployments
  BY <1>2, EditsWrite, Transacted DEF DesiredInv
<1>3. ASSUME NEW p \in Processes, (\E r : LookUpZone(p, r)) \/ (\E e : ReadEdge(p, e)) \/ Crash(p)
      PROVE  db'.deployments = db.deployments
  BY <1>3 DEF LookUpZone, ReadEdge, Crash
<1>4. ASSUME NEW p \in Processes, CreateRule(p) PROVE db'.deployments = db.deployments
  <2>1. PICK rules : db' = db \/ Transaction([db EXCEPT !.rules = rules]) BY <1>4 DEF CreateRule
  <2>2. [db EXCEPT !.rules = rules].deployments = db.deployments BY DEF DesiredInv, Sound, Tabled
  <2> QED BY <2>1, <2>2 DEF Transaction
<1>5. ASSUME NEW p \in Processes, ReplaceEdge(p) PROVE db'.deployments = db.deployments
  <2>1. PICK edges : db' = db \/ Transaction([db EXCEPT !.edges = edges]) BY <1>5 DEF ReplaceEdge
  <2>2. [db EXCEPT !.edges = edges].deployments = db.deployments BY DEF DesiredInv, Sound, Tabled
  <2> QED BY <2>1, <2>2 DEF Transaction
<1>6. ASSUME NEW p \in Processes, NEW check, NEW limit, NEW limited, Prepare(p, check, limit, limited)
      PROVE  db'.deployments = db.deployments
  <2>1. PICK release, saved : /\ release = Compiled(db, DOMAIN db.edges \cap limit)
                              /\ saved = Saved(db, release)
    OBVIOUS
  <2>2. saved.deployments = db.deployments /\ Tabled(saved)
    BY <2>1 DEF Saved, DesiredInv, Sound, Tabled
  <2>3. Pruned(saved).deployments = db.deployments BY <2>2 DEF Pruned, Tabled
  <2> QED BY <1>6, <2>1, <2>3 DEF Prepare, Transaction
<1>7. ASSUME NEW p \in Processes, RecordConfiguration(p) PROVE db'.deployments = db.deployments
  <2>1. PICK releases : db' = db \/ Transaction([db EXCEPT !.releases = releases]) BY <1>7 DEF RecordConfiguration
  <2>2. [db EXCEPT !.releases = releases].deployments = db.deployments BY DEF DesiredInv, Sound, Tabled
  <2> QED BY <2>1, <2>2 DEF Transaction
<1>8. ASSUME NEW p \in Processes, NEW named, NEW check, SelectTarget(p, named, check)
      PROVE  db'.deployments = db.deployments
  BY <1>8 DEF SelectTarget
<1> QED BY <1>1, <1>2, <1>3, <1>4, <1>5, <1>6, <1>7, <1>8, Sorted

\* A rollback that succeeds leaves desired state as its release was compiled
\* from: every table is put back after what would take it along.
THEOREM RollbackIsWhole == DesiredSpec => AdoptedWhole
<1>1. ASSUME DesiredInv, [DesiredNext]_desired, NEW i \in DOMAIN db.deployments,
             NEW row, row = db.deployments[i], row.back, ~row.check, row.status = "queued",
             db'.deployments[i].status = "succeeded"
      PROVE  Canonical(db') = row.release.inputs
  <2>1. CASE db'.deployments = db.deployments BY <1>1, <2>1
  <2>2. CASE \E p \in Processes : Admit(p) BY <1>1, <2>2, AdmitWrites
  <2>3. ASSUME NEW p \in Processes, NEW j \in DOMAIN db.deployments, Finish(p, j)
        PROVE  Canonical(db') = row.release.inputs
    BY <1>1, <2>3, FinishWrites
  <2> QED BY <1>1, <2>1, <2>2, <2>3, DeploymentsStay
<1>2. DesiredInv /\ [DesiredNext]_desired =>
        [\A i \in DOMAIN db.deployments :
           LET row == db.deployments[i]
           IN (row.back /\ ~row.check /\ row.status = "queued" /\ db'.deployments[i].status = "succeeded")
                  => Canonical(db') = row.release.inputs]_desired
  BY <1>1
<1> QED BY <1>2, DesiredAlways, PTL DEF DesiredSpec, AdoptedWhole

\* An edit of an edge changes what its patch names and nothing that another
\* operator wrote since it was read.
THEOREM EdgeEditsMerge == DesiredSpec => EditsMerge
<1>1. ASSUME DesiredInv, [DesiredNext]_desired, NEW p \in Processes,
             op[p].at = "edging", db'.edges # db.edges, op'[p] # op[p]
      PROVE  db'.edges = [db.edges EXCEPT ![op[p].edge] = Over(op[p].patch, @)]
  <2>1. PICK q \in Processes :
          \/ Edits(q)
          \/ (\E r : LookUpZone(q, r)) \/ (\E e : ReadEdge(q, e)) \/ CreateRule(q) \/ ReplaceEdge(q)
          \/ \E limit, limited : \E check \in BOOLEAN : Prepare(q, check, limit, limited)
          \/ \E named, check \in BOOLEAN : SelectTarget(q, named, check)
          \/ RecordConfiguration(q) \/ Admit(q) \/ Crash(q)
          \/ \E i \in DOMAIN db.deployments : Finish(q, i)
    BY <1>1, Sorted DEF desired, Upgrade
  <2>2. \E o : op' = [op EXCEPT ![q] = o]
    <3>1. Edits(q) \/ (\E i \in DOMAIN db.deployments : Finish(q, i)) => UNCHANGED op
      BY <1>1, EditsWrite, FinishWrites DEF DesiredInv
    <3> QED BY <1>1, <2>1, <3>1 DEF LookUpZone, ReadEdge, CreateRule, ReplaceEdge, Prepare, SelectTarget,
            RecordConfiguration, Admit, Crash
  <2>3. q = p BY <1>1, <2>2, OpMoves DEF DesiredInv
  <2>4. op[q] # NoOp BY <1>1, <2>3 DEF NoOp
  <2>5. ReplaceEdge(q)
    BY <1>1, <2>1, <2>3, <2>4, EditsWrite DEF LookUpZone, ReadEdge, CreateRule, Prepare, SelectTarget,
       RecordConfiguration, Admit, Crash, Finish, Asks, DesiredInv
  <2>6. PICK e, read, patch, edges : /\ e = op[p].edge /\ read = op[p].read /\ patch = op[p].patch
                                     /\ edges = [db.edges EXCEPT ![e] = Over(patch, read)]
    OBVIOUS
  <2>7. e \in DOMAIN db.edges /\ db.edges[e] = read /\ Transaction([db EXCEPT !.edges = edges])
    BY <1>1, <2>3, <2>5, <2>6 DEF ReplaceEdge, Expected
  <2>8. db'.edges = edges BY <1>1, <2>7 DEF Transaction, DesiredInv, Sound, Tabled
  <2> QED BY <2>6, <2>7, <2>8
<1>2. DesiredInv /\ [DesiredNext]_desired =>
        [\A p \in Processes : op[p].at = "edging" /\ db'.edges # db.edges /\ op'[p] # op[p] =>
           db'.edges = [db.edges EXCEPT ![op[p].edge] = Over(op[p].patch, @)]]_desired
  BY <1>1
<1> QED BY <1>2, DesiredAlways, PTL DEF DesiredSpec, EditsMerge
=============================================================================

----------------------------- MODULE FleetProofs -----------------------------
(***************************************************************************)
(* Safety of the rollouts of a fleet, for every set of workers and edges   *)
(* and every bound.  Two things carry it.  The fence: each claim of a      *)
(* deployment takes a generation nobody else has, and every row carries    *)
(* the generation of its deployment, so that the rows move for one worker  *)
(* only.  And the lock: until it is lost, one worker at most converges.    *)
(***************************************************************************)
EXTENDS Fleet, SequenceTheorems, FiniteSetTheorems, TLAPS

-----------------------------------------------------------------------------
(* The types behind FleetTypeOK.                                           *)

Deployment == [status : Statuses, release : Inputs, check : BOOLEAN,
               limit : Nat, of : Nat, digest : Inputs, gen : Nat]
Target == [status : TargetStatuses, phase : Phases, fence : Nat]
Rows == [Edges -> Target]

Request == [at : {"admit"}, fg : BOOLEAN, check : BOOLEAN, limit : Nat, of : Nat,
            release : Inputs, digest : Inputs, edges : SUBSET Edges,
            resource : Nat, row : {"none", "open", "review"}]
Claiming == {"start", "claim"}
Claimed == {"plan", "edge", "phase", "record", "stop", "complete"}
Walking == {"edge", "phase", "record"}
Run == [at : Claiming \cup Claimed, id : Nat, was : Statuses, fg : BOOLEAN,
        resource : Nat, row : {"open", "review"}, fence : Nat, left : SUBSET Edges,
        seen : Rows \cup {<<>>}, phase : Phases, edge : Nat, ok : BOOLEAN]

Surface == [now : Inputs \cup {Bare}, undo : Inputs \cup {Bare}]

\* Desired state, which holds no certificate nobody issued.
StateTyped ==
    /\ events \in 0..MaxEvents
    /\ canonical \in Inputs /\ canonical.cert <= events
    /\ required \in BOOLEAN /\ lockLost \in BOOLEAN
    /\ roster \subseteq Edges /\ torn \subseteq Edges
    /\ serving \in [Edges -> Surface]
    /\ lock \in Workers \cup {NoWorker}

DeploymentsTyped ==
    /\ deployments \in Seq(Deployment)
    /\ \A i \in Ids : deployments[i].release.cert <= events

TargetsTyped == targets \in Seq(Rows) /\ Len(targets) = Len(deployments)

\* A worker walks edges the deployment plans, over rows it read.
WorkerTyped(w) ==
    /\ worker[w] \in {Idle} \cup Request \cup Run
    /\ worker[w].at = "admit" => worker[w].release.cert <= events
    /\ Works(w) => /\ x(w) \in Ids
                   /\ worker[w].left \subseteq Planned(x(w))
                   /\ worker[w].at \in {"phase", "record"} => worker[w].edge \in worker[w].left
                   /\ worker[w].at \in Walking => worker[w].seen \in Rows

Typed ==
    /\ StateTyped /\ DeploymentsTyped /\ TargetsTyped
    /\ queue \subseteq Ids
    /\ worker \in [Workers -> {Idle} \cup Request \cup Run]
    /\ \A w \in Workers : WorkerTyped(w)

-----------------------------------------------------------------------------
(* What every step keeps of the records.                                   *)

\* What was admitted stays what it is, its generations rise, and its outcome
\* stands.
DeploymentsGrow ==
    /\ Len(deployments) <= Len(deployments')
    /\ \A i \in Ids :
          /\ i \in Ids'
          /\ deployments'[i].release = deployments[i].release
          /\ deployments'[i].digest = deployments[i].digest
          /\ deployments'[i].check = deployments[i].check
          /\ deployments'[i].of = deployments[i].of
          /\ deployments[i].gen <= deployments'[i].gen
          /\ deployments[i].status \in Terminal
             => deployments'[i].status \in {deployments[i].status, "pruned"}

\* No edge enters or leaves the plan of a deployment.
PlansStand == \A i \in Ids : Planned(i)' = Planned(i)

-----------------------------------------------------------------------------
(* What the operators of the model give.                                   *)

\* The first of some edges is one of them, and none comes before it.
LEMMA FirstIsFirst ==
    ASSUME NEW edges \in SUBSET Edges, edges # {}
    PROVE  /\ First(edges) \in edges
           /\ \A f \in edges : First(edges) <= f
<1> DEFINE Before(e) == {f \in edges : f < e}
           Befores == {Before(e) : e \in edges}
<1>1. edges \subseteq Nat /\ IsFiniteSet(edges)
  BY FleetAssumption, FS_Subset
<1>2. Befores \subseteq FiniteSubsetsOf(edges) /\ Befores # {}
  <2>1. \A s \in SUBSET edges : IsFiniteSet(s)
    BY <1>1, FS_Subset
  <2>2. \A e \in edges : Before(e) \in SUBSET edges
    OBVIOUS
  <2>3. \A e \in edges : Before(e) \in FiniteSubsetsOf(edges)
    BY <2>1, <2>2 DEF FiniteSubsetsOf
  <2> QED BY <2>3
<1>3. IsWellFoundedOn(StrictSubsetOrdering(edges), FiniteSubsetsOf(edges))
  BY FS_StrictSubsetOrderingWellFounded
<1>4. \E s \in Befores : \A t \in Befores : ~ (<<t, s>> \in StrictSubsetOrdering(edges))
  <2> HIDE DEF Befores
  <2> QED BY <1>2, <1>3, WFMin
<1>5. PICK e \in edges : \A f \in edges :
        ~ (Before(f) \subseteq Before(e) /\ Before(f) # Before(e))
  <2>1. PICK s \in Befores : \A t \in Befores : ~ (<<t, s>> \in StrictSubsetOrdering(edges))
    BY <1>4
  <2>2. PICK e \in edges : s = Before(e)
    BY <2>1
  <2>3. ASSUME NEW f \in edges, Before(f) \subseteq Before(e), Before(f) # Before(e)
        PROVE  FALSE
    <3>1. Before(f) \in Befores /\ Before(f) \in SUBSET edges /\ Before(e) \in SUBSET edges
      OBVIOUS
    <3>2. <<Before(f), Before(e)>> \in StrictSubsetOrdering(edges)
      <4> HIDE DEF Before
      <4> QED BY <2>3, <3>1 DEF StrictSubsetOrdering
    <3> QED BY <2>1, <2>2, <3>1, <3>2
  <2> QED BY <2>3
<1>6. ASSUME NEW f \in edges, f < e PROVE FALSE
  <2>0. e \in Nat /\ f \in Nat /\ \A g \in edges : g \in Nat
    BY <1>1
  <2>1. f \in Before(e) /\ f \notin Before(f) /\ Before(f) \subseteq Before(e)
    <3>1. \A g \in edges : g < f => g < e
      BY <1>6, <2>0
    <3>2. ~ (f < f)
      BY <2>0
    <3> QED BY <1>6, <3>1, <3>2
  <2> QED BY <1>5, <2>1
<1>7. \A f \in edges : e <= f
  BY <1>1, <1>6
<1> QED
  BY <1>7 DEF First

\* A worker is idle, asks for a deployment, or converges one.
LEMMA WorkerKinds ==
    ASSUME NEW w \in Workers, WorkerTyped(w)
    PROVE  /\ worker[w].at = "idle" => worker[w] = Idle
           /\ worker[w].at = "admit" => worker[w] \in Request
           /\ Works(w) => worker[w] \in Run /\ x(w) \in Ids
           /\ worker[w].at \in {"idle", "admit"} \cup Claiming \cup Claimed
<1>1. Idle.at = "idle"
  BY DEF Idle
<1>2. \A r \in Request : r.at = "admit"
  BY DEF Request
<1>3. \A r \in Run : r.at \in Claiming \cup Claimed
  BY DEF Run
<1> QED
  BY <1>1, <1>2, <1>3 DEF WorkerTyped, Works, Claiming, Claimed

\* The fields of a deployment the arguments read.
LEMMA DeploymentFields ==
    ASSUME Typed
    PROVE  \A j \in Ids : /\ deployments[j] \in Deployment
                          /\ deployments[j].gen \in Nat /\ deployments[j].release.cert \in Nat
<1>1. \A c \in Inputs : c.cert \in Nat
  <2>1. MaxEvents \in Nat
    BY FleetAssumption
  <2> QED BY <2>1 DEF Inputs
<1>2. \A d \in Deployment : d.gen \in Nat /\ d.release \in Inputs
  BY DEF Deployment
<1>3. \A j \in Ids : deployments[j] \in Deployment
  BY LenProperties, ElementOfSeq DEF Typed, DeploymentsTyped, Ids
<1> QED
  BY <1>1, <1>2, <1>3

\* A status is written over a deployment that is not over.
LEMMA StatusWrites ==
    ASSUME Typed, NEW i \in Ids, NEW status \in Statuses,
           events' \in Nat, events <= events',
           deployments[i].status \in Terminal \cup {"pruned"} => status = deployments[i].status,
           deployments' = [deployments EXCEPT ![i].status = status]
    PROVE  /\ Len(deployments') = Len(deployments) /\ Ids' = Ids
           /\ deployments' \in Seq(Deployment)
           /\ \A j \in Ids : deployments'[j].release.cert <= events'
           /\ DeploymentsGrow
           /\ \A j \in Ids : deployments'[j].gen = deployments[j].gen
           /\ \A j \in Ids : j # i => deployments'[j].status = deployments[j].status
           /\ deployments'[i].status = status
<1>0. deployments \in Seq(Deployment) /\ Ids = 1..Len(deployments) /\ Len(deployments) \in Nat
  BY LenProperties DEF Typed, DeploymentsTyped, Ids
<1>1. \A j \in Ids : /\ deployments[j] \in Deployment
                     /\ deployments[j].gen \in Nat /\ deployments[j].release.cert \in Nat
  BY DeploymentFields
<1> DEFINE d == [deployments[i] EXCEPT !.status = status]
<1>2. d \in Deployment /\ d.status = status /\ d.gen = deployments[i].gen
      /\ d.release = deployments[i].release /\ d.digest = deployments[i].digest
      /\ d.check = deployments[i].check /\ d.of = deployments[i].of
  BY <1>1 DEF Deployment
<1>3. deployments' = [deployments EXCEPT ![i] = d]
  OBVIOUS
<1> HIDE DEF d
<1>4. deployments' \in Seq(Deployment) /\ Len(deployments') = Len(deployments)
      /\ \A j \in Ids : deployments'[j] = IF j = i THEN d ELSE deployments[j]
  BY <1>0, <1>2, <1>3, ExceptSeq
<1>5. Ids' = Ids
  BY <1>0, <1>4, LenProperties DEF Ids
<1>6. \A j \in Ids : /\ deployments'[j].gen = deployments[j].gen
                     /\ deployments'[j].release = deployments[j].release
                     /\ deployments'[j].digest = deployments[j].digest
                     /\ deployments'[j].check = deployments[j].check
                     /\ deployments'[j].of = deployments[j].of
                     /\ j # i => deployments'[j].status = deployments[j].status
  BY <1>2, <1>4
<1>7. deployments'[i].status = status
  BY <1>2, <1>4
<1>8. DeploymentsGrow
  <2>1. \A j \in Ids : deployments[j].status \in Terminal
           => deployments'[j].status = deployments[j].status
    BY <1>6, <1>7
  <2> QED BY <1>0, <1>1, <1>4, <1>5, <1>6, <2>1 DEF DeploymentsGrow
<1>9. \A j \in Ids : deployments'[j].release.cert <= events'
  BY <1>1, <1>6 DEF Typed, DeploymentsTyped, StateTyped
<1> QED
  BY <1>4, <1>5, <1>6, <1>7, <1>8, <1>9

\* A new generation is written over the last one.
LEMMA GenerationWrites ==
    ASSUME Typed, NEW i \in Ids, NEW fence \in Nat, events' = events,
           deployments[i].gen <= fence,
           deployments' = [deployments EXCEPT ![i].gen = fence]
    PROVE  /\ Len(deployments') = Len(deployments) /\ Ids' = Ids
           /\ DeploymentsTyped'
           /\ DeploymentsGrow
           /\ \A j \in Ids : deployments'[j].status = deployments[j].status
           /\ \A j \in Ids : j # i => deployments'[j].gen = deployments[j].gen
           /\ deployments'[i].gen = fence
<1>0. deployments \in Seq(Deployment) /\ Ids = 1..Len(deployments) /\ Len(deployments) \in Nat
  BY LenProperties DEF Typed, DeploymentsTyped, Ids
<1>1. \A j \in Ids : /\ deployments[j] \in Deployment
                     /\ deployments[j].gen \in Nat /\ deployments[j].release.cert \in Nat
  BY DeploymentFields
<1> DEFINE d == [deployments[i] EXCEPT !.gen = fence]
<1>2. d \in Deployment /\ d.status = deployments[i].status /\ d.gen = fence
      /\ d.release = deployments[i].release /\ d.digest = deployments[i].digest
      /\ d.check = deployments[i].check /\ d.of = deployments[i].of
  BY <1>1 DEF Deployment
<1>3. deployments' = [deployments EXCEPT ![i] = d]
  OBVIOUS
<1> HIDE DEF d
<1>4. deployments' \in Seq(Deployment) /\ Len(deployments') = Len(deployments)
      /\ \A j \in Ids : deployments'[j] = IF j = i THEN d ELSE deployments[j]
  BY <1>0, <1>2, <1>3, ExceptSeq, SMTT(30)
<1>5. Ids' = Ids
  BY <1>0, <1>4, LenProperties DEF Ids
<1>6. \A j \in Ids : /\ deployments'[j].status = deployments[j].status
                     /\ deployments'[j].release = deployments[j].release
                     /\ deployments'[j].digest = deployments[j].digest
                     /\ deployments'[j].check = deployments[j].check
                     /\ deployments'[j].of = deployments[j].of
                     /\ j # i => deployments'[j].gen = deployments[j].gen
  BY <1>2, <1>4
<1>7. deployments'[i].gen = fence
  BY <1>2, <1>4
<1>8. DeploymentsGrow
  BY <1>0, <1>1, <1>4, <1>5, <1>6, <1>7 DEF DeploymentsGrow
<1>9. DeploymentsTyped'
  BY <1>1, <1>4, <1>5, <1>6 DEF Typed, DeploymentsTyped, StateTyped
<1> QED
  BY <1>4, <1>5, <1>6, <1>7, <1>8, <1>9

\* Pruning marks finished checks, and nothing else.
LEMMA PruningKeeps ==
    ASSUME NEW ds \in Seq(Deployment)
    PROVE  /\ Kept(ds) \in Seq(Deployment)
           /\ Len(Kept(ds)) = Len(ds)
           /\ \A i \in 1..Len(ds) :
                \/ Kept(ds)[i] = ds[i]
                \/ /\ ds[i].status \in Terminal
                   /\ Kept(ds)[i] = [ds[i] EXCEPT !.status = "pruned"]
<1>0. Len(ds) \in Nat /\ DOMAIN ds = 1..Len(ds) /\ \A i \in 1..Len(ds) : ds[i] \in Deployment
  BY LenProperties, ElementOfSeq
<1> DEFINE finished == {i \in DOMAIN ds : ds[i].check /\ ds[i].status \in Terminal}
           newer(i) == {j \in finished : j > i}
           old(i) == i \in finished /\ Cardinality(newer(i)) >= Retention
<1>1. Kept(ds) = [i \in 1..Len(ds) |->
                    IF old(i) THEN [ds[i] EXCEPT !.status = "pruned"] ELSE ds[i]]
  BY <1>0 DEF Kept
<1>2. \A i \in 1..Len(ds) : old(i) => ds[i].status \in Terminal
  BY <1>0
<1> HIDE DEF old
<1>3. \A i \in 1..Len(ds) : [ds[i] EXCEPT !.status = "pruned"] \in Deployment
  BY <1>0 DEF Deployment, Statuses
<1>4. Kept(ds) \in [1..Len(ds) -> Deployment]
  BY <1>0, <1>1, <1>3
<1>5. Kept(ds) \in Seq(Deployment) /\ Len(Kept(ds)) = Len(ds)
  <2> DEFINE k == Kept(ds)
             n == Len(ds)
  <2>1. k \in [1..n -> Deployment] /\ n \in Nat
    BY <1>0, <1>4
  <2> HIDE DEF k, n
  <2>2. k \in Seq(Deployment) /\ Len(k) = n
    BY <2>1
  <2> QED BY <2>2 DEF k, n
<1> QED
  BY <1>1, <1>2, <1>5
\* An admission appends a deployment, and prunes what is over.
LEMMA AdmissionGrows ==
    ASSUME Typed, NEW new \in Deployment, new.release.cert <= events, events' = events,
           deployments' = Kept(Append(deployments, new))
    PROVE  /\ Len(deployments') = Len(deployments) + 1
           /\ Ids' = Ids \cup {Len(deployments) + 1}
           /\ Len(deployments) + 1 \notin Ids
           /\ DeploymentsTyped'
           /\ DeploymentsGrow
           /\ \A j \in Ids : /\ deployments'[j].gen = deployments[j].gen
                             /\ deployments'[j].status \in {deployments[j].status, "pruned"}
           /\ deployments'[Len(deployments) + 1].gen = new.gen
           /\ deployments'[Len(deployments) + 1].check = new.check
           /\ deployments'[Len(deployments) + 1].status \in {new.status, "pruned"}
<1> DEFINE ds == Append(deployments, new)
           n == Len(deployments) + 1
<1>0. /\ deployments \in Seq(Deployment)
      /\ Ids = 1..Len(deployments) /\ Len(deployments) \in Nat
  BY LenProperties DEF Typed, DeploymentsTyped, Ids
<1>1. ds \in Seq(Deployment) /\ Len(ds) = n /\ ds[n] = new
      /\ \A j \in Ids : ds[j] = deployments[j]
  BY <1>0, AppendProperties
<1>2. 1..n = Ids \cup {n} /\ n \notin Ids
  BY <1>0
<1> HIDE DEF n, ds
<1>3. /\ deployments' \in Seq(Deployment) /\ Len(deployments') = n
      /\ \A j \in 1..n : \/ deployments'[j] = ds[j]
                         \/ /\ ds[j].status \in Terminal
                            /\ deployments'[j] = [ds[j] EXCEPT !.status = "pruned"]
  BY <1>1, PruningKeeps DEF ds
<1>4. Ids' = 1..n
  BY <1>3, LenProperties DEF Ids
<1>5. \A d \in Deployment : LET p == [d EXCEPT !.status = "pruned"]
        IN /\ p.status = "pruned" /\ p.gen = d.gen /\ p.release = d.release
           /\ p.digest = d.digest /\ p.check = d.check /\ p.of = d.of
  BY DEF Deployment
<1>6. \A j \in Ids : deployments[j] \in Deployment
  BY DeploymentFields
<1>7. \A j \in Ids : /\ deployments'[j].gen = deployments[j].gen
                     /\ deployments'[j].release = deployments[j].release
                     /\ deployments'[j].digest = deployments[j].digest
                     /\ deployments'[j].check = deployments[j].check
                     /\ deployments'[j].of = deployments[j].of
                     /\ deployments'[j].status \in {deployments[j].status, "pruned"}
  <2> SUFFICES ASSUME NEW j \in Ids
               PROVE  /\ deployments'[j].gen = deployments[j].gen
                      /\ deployments'[j].release = deployments[j].release
                      /\ deployments'[j].digest = deployments[j].digest
                      /\ deployments'[j].check = deployments[j].check
                      /\ deployments'[j].of = deployments[j].of
                      /\ deployments'[j].status \in {deployments[j].status, "pruned"}
    OBVIOUS
  <2>1. \/ deployments'[j] = deployments[j]
        \/ deployments'[j] = [deployments[j] EXCEPT !.status = "pruned"]
    BY <1>1, <1>2, <1>3
  <2>2. deployments[j] \in Deployment
    BY <1>6
  <2> QED BY <1>5, <2>1, <2>2
<1>8. /\ deployments'[n].gen = new.gen
      /\ deployments'[n].check = new.check
      /\ deployments'[n].release = new.release
      /\ deployments'[n].status \in {new.status, "pruned"}
  BY <1>1, <1>2, <1>3, <1>5, ZenonT(30)
<1>9. \A j \in Ids : deployments[j].gen \in Nat
  BY DeploymentFields
<1>10. DeploymentsGrow
  <2>1. Len(deployments) <= Len(deployments')
    BY <1>0, <1>3 DEF n
  <2> QED BY <1>2, <1>4, <1>7, <1>9, <2>1 DEF DeploymentsGrow
<1>11. DeploymentsTyped'
  <2>1. \A j \in Ids : deployments'[j].release.cert <= events
    BY <1>7 DEF Typed, DeploymentsTyped
  <2> QED BY <1>2, <1>3, <1>4, <1>8, <2>1 DEF DeploymentsTyped
<1> QED
  BY <1>2, <1>3, <1>4, <1>7, <1>8, <1>10, <1>11 DEF n

\* The rows of one deployment are written as a whole.
LEMMA RowsReplaced ==
    ASSUME Typed, NEW i \in Ids, NEW rows \in Rows, Len(deployments') = Len(deployments),
           \A e \in Edges : rows[e].status = "none" <=> targets[i][e].status = "none",
           targets' = [targets EXCEPT ![i] = rows]
    PROVE  /\ TargetsTyped' /\ PlansStand
           /\ \A j \in Ids : targets'[j] = IF j = i THEN rows ELSE targets[j]
<1>0. /\ targets \in Seq(Rows) /\ Len(targets) = Len(deployments)
      /\ Ids = 1..Len(targets)
  BY LenProperties DEF Typed, TargetsTyped, DeploymentsTyped, Ids
<1>1. /\ targets' \in Seq(Rows) /\ Len(targets') = Len(targets)
      /\ \A j \in Ids : targets'[j] = IF j = i THEN rows ELSE targets[j]
  BY <1>0, ExceptSeq
<1>2. TargetsTyped'
  BY <1>0, <1>1 DEF TargetsTyped
<1>3. ASSUME NEW j \in Ids PROVE Planned(j)' = Planned(j)
  BY <1>1, <1>3 DEF Planned
<1> QED
  BY <1>1, <1>2, <1>3 DEF PlansStand

\* The rows of a deployment, one by one.
LEMMA RowFields ==
    ASSUME Typed
    PROVE  \A i \in Ids : /\ targets[i] \in Rows
                          /\ \A e \in Edges : targets[i][e] \in Target
                                              /\ targets[i][e].fence \in Nat
<1>1. \A i \in Ids : targets[i] \in Rows
  BY LenProperties, ElementOfSeq DEF Typed, DeploymentsTyped, TargetsTyped, Ids
<1>2. \A r \in Target : r.fence \in Nat
  BY DEF Target
<1> QED
  BY <1>1, <1>2 DEF Rows

\* A write under the fence moves one row, and only a row of that fence.
LEMMA RowWritten ==
    ASSUME Typed, NEW w \in Workers, Works(w), NEW e \in Planned(x(w)), NEW row \in Target,
           row.status # "none", row.fence = targets[x(w)][e].fence,
           Len(deployments') = Len(deployments), WriteRow(w, e, row)
    PROVE  /\ TargetsTyped' /\ PlansStand
           /\ \A j \in Ids : \A f \in Edges :
                 /\ targets'[j][f].fence = targets[j][f].fence
                 /\ j # x(w) \/ f # e \/ targets[x(w)][e].fence # worker[w].fence
                    => targets'[j][f] = targets[j][f]
           /\ targets[x(w)][e].fence = worker[w].fence => targets'[x(w)][e] = row
<1> DEFINE i == x(w)
<1>0. i \in Ids /\ e \in Edges /\ targets[i] \in Rows /\ targets[i][e].status # "none"
  BY RowFields DEF Typed, WorkerTyped, Planned
<1> HIDE DEF i
<1>1. CASE targets[i][e].fence = worker[w].fence
  <2> DEFINE rows == [targets[i] EXCEPT ![e] = row]
  <2>1. rows \in Rows /\ rows[e] = row /\ \A f \in Edges : f # e => rows[f] = targets[i][f]
    BY <1>0 DEF Rows
  <2>2. targets' = [targets EXCEPT ![i] = rows]
    BY <1>1 DEF WriteRow, i
  <2> HIDE DEF rows
  <2>3. \A f \in Edges : rows[f].status = "none" <=> targets[i][f].status = "none"
    BY <1>0, <2>1
  <2>4. /\ TargetsTyped' /\ PlansStand
        /\ \A j \in Ids : targets'[j] = IF j = i THEN rows ELSE targets[j]
    BY <1>0, <2>1, <2>2, <2>3, RowsReplaced
  <2>5. \A j \in Ids : \A f \in Edges : j # i \/ f # e => targets'[j][f] = targets[j][f]
    BY <2>1, <2>4
  <2>6. targets'[i][e] = row
    BY <1>0, <2>1, <2>4
  <2> QED
    BY <1>0, <1>1, <2>4, <2>5, <2>6 DEF i
<1>2. CASE targets[i][e].fence # worker[w].fence
  <2>1. targets' = targets
    BY <1>2 DEF WriteRow, i
  <2>2. TargetsTyped'
    BY <2>1 DEF Typed, TargetsTyped
  <2>3. PlansStand
    BY <2>1 DEF PlansStand, Planned
  <2> QED
    BY <1>2, <2>1, <2>2, <2>3 DEF i
<1> QED
  BY <1>1, <1>2

\* A worker that stands still, or is marked for review.
Still(v) ==
    \/ worker'[v] = worker[v]
    \/ /\ worker[v].at # "idle" /\ worker[v].row = "open"
       /\ worker'[v] = [worker[v] EXCEPT !.row = "review"]

\* It remembers what it did.
LEMMA StillRemembers ==
    ASSUME NEW v \in Workers, WorkerTyped(v), Still(v)
    PROVE  /\ worker'[v] \in {Idle} \cup Request \cup Run
           /\ worker'[v].at = worker[v].at
           /\ worker[v].at = "admit" => worker'[v].release = worker[v].release
           /\ Works(v) => /\ worker'[v].id = worker[v].id
                          /\ worker'[v].fence = worker[v].fence
                          /\ worker'[v].left = worker[v].left
                          /\ worker'[v].seen = worker[v].seen
                          /\ worker'[v].edge = worker[v].edge
                          /\ worker'[v].phase = worker[v].phase
                          /\ worker'[v].ok = worker[v].ok
<1>1. worker[v] \in {Idle} \cup Request \cup Run
  BY DEF WorkerTyped
<1>2. \A r \in Request : LET q == [r EXCEPT !.row = "review"]
        IN q \in Request /\ q.at = r.at /\ q.release = r.release
  BY DEF Request
<1>3. \A r \in Run : LET q == [r EXCEPT !.row = "review"]
        IN /\ q \in Run /\ q.at = r.at /\ q.id = r.id /\ q.fence = r.fence
           /\ q.left = r.left /\ q.seen = r.seen /\ q.edge = r.edge
           /\ q.phase = r.phase /\ q.ok = r.ok
  BY DEF Run
<1>4. CASE worker'[v] = worker[v]
  BY <1>1, <1>4
<1>5. CASE /\ worker[v].at # "idle"
           /\ worker'[v] = [worker[v] EXCEPT !.row = "review"]
  <2>1. CASE worker[v] \in Request
    <3>1. worker[v].at = "admit" /\ ~ Works(v)
      BY <2>1 DEF Request, Works
    <3> QED BY <1>2, <1>5, <2>1, <3>1
  <2>2. CASE worker[v] \in Run
    <3>1. worker[v].at # "admit"
      BY <2>2 DEF Run, Claiming, Claimed
    <3> QED BY <1>3, <1>5, <2>2, <3>1
  <2> QED BY <1>1, <1>5, <2>1, <2>2, WorkerKinds DEF Idle
<1> QED
  BY <1>4, <1>5 DEF Still

\* It stays typed while the records grow.
LEMMA StillTyped ==
    ASSUME Typed, NEW v \in Workers, Still(v),
           DeploymentsGrow, PlansStand, events' \in Nat, events <= events'
    PROVE  WorkerTyped(v)'
<1>1. WorkerTyped(v)
  BY DEF Typed
<1>2. /\ worker'[v] \in {Idle} \cup Request \cup Run
      /\ worker'[v].at = worker[v].at
      /\ worker[v].at = "admit" => worker'[v].release = worker[v].release
      /\ Works(v) => /\ worker'[v].id = worker[v].id
                     /\ worker'[v].left = worker[v].left
                     /\ worker'[v].seen = worker[v].seen
                     /\ worker'[v].edge = worker[v].edge
  BY <1>1, StillRemembers
<1>3. ASSUME worker[v].at = "admit" PROVE worker'[v].release.cert <= events'
  <2>1. worker[v] \in Request /\ worker[v].release \in Inputs /\ worker[v].release.cert <= events
    BY <1>1, <1>3, WorkerKinds DEF WorkerTyped, Request
  <2>2. worker[v].release.cert \in Nat /\ events \in Nat
    BY <2>1, FleetAssumption DEF Inputs, Typed, StateTyped
  <2> QED BY <1>2, <1>3, <2>1, <2>2
<1>4. Works(v)' = Works(v) /\ (Works(v) => x(v)' = x(v))
  BY <1>2 DEF Works, x
<1>5. Works(v) => x(v) \in Ids' /\ Planned(x(v))' = Planned(x(v))
  <2>1. \A i \in Ids : i \in Ids' /\ Planned(i)' = Planned(i)
    BY DEF DeploymentsGrow, PlansStand
  <2>2. ASSUME Works(v) PROVE x(v) \in Ids
    BY <1>1, <2>2 DEF WorkerTyped
  <2> QED BY <1>4, <2>1, <2>2 DEF Planned
<1> QED
  BY <1>1, <1>2, <1>3, <1>4, <1>5 DEF WorkerTyped

-----------------------------------------------------------------------------
(* Each step keeps the types, the plans and the outcomes.                  *)

Grows == DeploymentsGrow /\ PlansStand

LEMMA NothingGrows ==
    ASSUME Typed, deployments' = deployments, targets' = targets, events' \in Nat,
           events <= events'
    PROVE  Grows /\ DeploymentsTyped' /\ TargetsTyped' /\ Ids' = Ids
<1>1. \A j \in Ids : deployments[j].gen \in Nat /\ deployments[j].release.cert \in Nat
  BY DeploymentFields
<1>2. Len(deployments) \in Nat
  BY LenProperties DEF Typed, DeploymentsTyped
<1>3. DeploymentsGrow /\ Ids' = Ids
  BY <1>1, <1>2 DEF DeploymentsGrow, Ids
<1>4. PlansStand
  BY DEF PlansStand, Planned
<1>5. DeploymentsTyped'
  BY <1>1, <1>3 DEF DeploymentsTyped, Typed, StateTyped
<1>6. TargetsTyped'
  BY DEF TargetsTyped, Typed
<1> QED
  BY <1>3, <1>4, <1>5, <1>6 DEF Grows

\* The workers are typed when those that moved are.
LEMMA AllTyped ==
    ASSUME Typed, StateTyped', DeploymentsTyped', TargetsTyped', queue' \subseteq Ids',
           Grows, events <= events', DOMAIN worker' = Workers,
           worker' = [v \in Workers |-> worker'[v]],
           \A v \in Workers : Still(v) \/ WorkerTyped(v)'
    PROVE  Typed'
<1>1. events' \in Nat
  BY FleetAssumption DEF StateTyped
<1>2. \A v \in Workers : WorkerTyped(v)'
  BY <1>1, StillTyped DEF Grows
<1>3. \A v \in Workers : worker'[v] \in {Idle} \cup Request \cup Run
  BY <1>2 DEF WorkerTyped
<1> QED
  BY <1>2, <1>3 DEF Typed

LEMMA EventTyped ==
    ASSUME Typed
    PROVE  /\ events \in Nat /\ events <= events
           /\ Event => events' \in 0..MaxEvents /\ events' \in Nat /\ events' = events + 1
                       /\ events <= events'
  BY FleetAssumption DEF Typed, StateTyped, Event

\* Steps of the operator and the environment leave the records and the workers.
Outside ==
    \/ Edit \/ IssueCertificate \/ LoseLock
    \/ \E e \in Edges : Register(e) \/ Remove(e) \/ Teardown(e) \/ Drop(e)

LEMMA OutsideTyped ==
    ASSUME Typed, Outside
    PROVE  Typed' /\ Grows /\ worker' = worker /\ UNCHANGED records
<1>1. UNCHANGED records /\ worker' = worker
  BY DEF Outside, Edit, IssueCertificate, LoseLock, Register, Remove, Teardown, Drop, state
<1>2. events' \in 0..MaxEvents /\ events' \in Nat /\ events <= events'
  BY EventTyped
     DEF Outside, Edit, IssueCertificate, LoseLock, Register, Remove, Teardown, Drop, Typed, StateTyped
<1>3. Bare \in Inputs \cup {Bare} /\ [now |-> Bare, undo |-> Bare] \in Surface
  BY DEF Surface
<1>4. \A c \in Inputs : /\ c.cert \in Nat
                        /\ c.doc < MaxDoc => [c EXCEPT !.doc = @ + 1] \in Inputs
                                             /\ [c EXCEPT !.doc = @ + 1].cert = c.cert
                        /\ c.cert < MaxEvents => [c EXCEPT !.cert = @ + 1] \in Inputs
                                                 /\ [c EXCEPT !.cert = @ + 1].cert = c.cert + 1
  <2>1. MaxDoc \in Nat /\ MaxEvents \in Nat
    BY FleetAssumption
  <2> QED BY <2>1 DEF Inputs
<1>5. canonical' \in Inputs /\ canonical'.cert <= events'
  <2>1. CASE Edit
    <3>1. canonical \in Inputs /\ canonical.cert <= events /\ canonical.doc < MaxDoc
          /\ canonical' = [canonical EXCEPT !.doc = @ + 1] /\ events' = events
      BY <2>1 DEF Edit, Typed, StateTyped
    <3> QED BY <1>4, <3>1
  <2>2. CASE IssueCertificate
    <3>1. canonical \in Inputs /\ canonical.cert <= events /\ events < MaxEvents
          /\ canonical' = [canonical EXCEPT !.cert = @ + 1] /\ events' = events + 1
      BY <2>2 DEF IssueCertificate, Event, Typed, StateTyped
    <3>2. events \in Nat /\ MaxEvents \in Nat /\ canonical.cert \in Nat
      BY <1>4, <3>1, EventTyped, FleetAssumption
    <3>3. canonical.cert < MaxEvents
      BY <3>1, <3>2
    <3>4. canonical' \in Inputs /\ canonical'.cert = canonical.cert + 1
      BY <1>4, <3>1, <3>3
    <3> QED BY <3>1, <3>2, <3>4
  <2>3. CASE canonical' = canonical
    <3>1. canonical \in Inputs /\ canonical.cert <= events /\ canonical.cert \in Nat
      BY <1>4 DEF Typed, StateTyped
    <3> QED BY <1>2, <2>3, <3>1, EventTyped
  <2> QED BY <2>1, <2>2, <2>3 DEF Outside, LoseLock, Register, Remove, Teardown, Drop, state
<1>6. serving' \in [Edges -> Surface]
  <2>1. \A e \in Edges : [serving EXCEPT ![e] = [now |-> Bare, undo |-> Bare]] \in [Edges -> Surface]
    BY <1>3 DEF Typed, StateTyped
  <2> QED
    BY <2>1 DEF Outside, Edit, IssueCertificate, LoseLock, Register, Remove, Teardown, Drop,
                Typed, StateTyped
<1>7. /\ required' \in BOOLEAN /\ lockLost' \in BOOLEAN
      /\ roster' \subseteq Edges /\ torn' \subseteq Edges
      /\ lock' \in Workers \cup {NoWorker}
  BY DEF Outside, Edit, IssueCertificate, LoseLock, Register, Remove, Teardown, Drop,
         state, Typed, StateTyped
<1>8. StateTyped'
  BY <1>2, <1>5, <1>6, <1>7 DEF StateTyped
<1>9. Grows /\ DeploymentsTyped' /\ TargetsTyped' /\ queue' \subseteq Ids'
  BY <1>1, <1>2, NothingGrows DEF records, Typed
<1>10. \A v \in Workers : Still(v)
  BY <1>1 DEF Still
<1>11. DOMAIN worker' = Workers /\ worker' = [v \in Workers |-> worker'[v]]
  BY <1>1 DEF Typed
<1>12. Typed'
  BY <1>2, <1>8, <1>9, <1>10, <1>11, AllTyped
<1> QED
  BY <1>1, <1>9, <1>12

\* A step that moves no row and no generation: what it starts has claimed
\* nothing yet.
Fresh == {"idle", "admit"} \cup Claiming
Aside ==
    /\ \A i \in Ids : /\ deployments'[i].gen = deployments[i].gen
                      /\ \A e \in Edges : targets'[i][e] = targets[i][e]
    /\ \A i \in Ids' \ Ids : /\ deployments'[i].gen = 0
                             /\ \A e \in Edges : targets'[i][e].fence = 0
                                                 /\ targets'[i][e].phase = "none"
    /\ \A v \in Workers : Still(v) \/ worker'[v].at \in Fresh

LEMMA MovedWorker ==
    ASSUME Typed, NEW w \in Workers, NEW r, worker' = [worker EXCEPT ![w] = r]
    PROVE  /\ DOMAIN worker' = Workers /\ worker' = [v \in Workers |-> worker'[v]]
           /\ worker'[w] = r
           /\ \A v \in Workers : v # w => worker'[v] = worker[v] /\ Still(v)
  BY DEF Typed, Still

\* A request takes the lock and waits for its admission.
LEMMA HoldTyped ==
    ASSUME Typed, NEW w \in Workers, NEW r \in Request, r.release.cert <= events, Hold(w, r)
    PROVE  Typed' /\ Grows /\ Aside
<1>1. UNCHANGED <<records, state, serving, events, lockLost>> /\ lock' = w
  BY DEF Hold
<1>2. /\ DOMAIN worker' = Workers /\ worker' = [v \in Workers |-> worker'[v]]
      /\ worker'[w] = r
      /\ \A v \in Workers : v # w => Still(v)
  BY MovedWorker DEF Hold
<1>3. Grows /\ DeploymentsTyped' /\ TargetsTyped' /\ Ids' = Ids /\ queue' \subseteq Ids'
  BY <1>1, EventTyped, NothingGrows DEF records, Typed
<1>4. StateTyped'
  BY <1>1 DEF Typed, StateTyped, state
<1>5. WorkerTyped(w)'
  <2>1. r.at = "admit"
    BY DEF Request
  <2> QED BY <1>1, <1>2, <2>1 DEF WorkerTyped, Works
<1>6. Typed'
  BY <1>1, <1>2, <1>3, <1>4, <1>5, EventTyped, AllTyped
<1>7. Aside
  <2>1. worker'[w].at \in Fresh
    BY <1>2 DEF Request, Fresh
  <2> QED BY <1>1, <1>2, <1>3, <2>1 DEF Aside, records
<1> QED
  BY <1>3, <1>6, <1>7

\* A request compiles a release no newer than the certificates there are.
Asked(r) == r \in Request /\ r.release.cert <= events /\ r.row # "review"

LEMMA RequestsTyped ==
    ASSUME Typed, NEW fg \in BOOLEAN, NEW check \in BOOLEAN, NEW limit \in Nat
    PROVE  /\ Asked(Forward(fg, check, limit))
           /\ \A i \in Ids : Asked(Backward(fg, check, i))
<1>1. canonical \in Inputs /\ canonical.cert <= events /\ roster \subseteq Edges
  BY DEF Typed, StateTyped
<1>2. ASSUME NEW n \in Nat
      PROVE  /\ Forward(fg, check, n) \in Request
             /\ Forward(fg, check, n).release = canonical /\ Forward(fg, check, n).row # "review"
  <2>1. (IF n = 0 THEN roster ELSE roster \cap {n}) \subseteq Edges
    BY <1>1
  <2> QED BY <1>1, <2>1 DEF Forward, Request
<1>3. ASSUME NEW i \in Ids
      PROVE  Asked(Backward(fg, check, i))
  <2>1. i \in Nat
    BY <1>3, LenProperties DEF Typed, DeploymentsTyped, Ids
  <2>2. deployments[i].release \in Inputs /\ deployments[i].release.cert <= events
    <3>1. deployments[i] \in Deployment
      BY <1>3, DeploymentFields
    <3> QED BY <1>3, <3>1 DEF Typed, DeploymentsTyped, Deployment
  <2>3. \A q \in Request, rel \in Inputs :
          LET b == [q EXCEPT !.of = i, !.release = rel, !.resource = i]
          IN b \in Request /\ b.release = rel /\ b.row = q.row
    BY <2>1 DEF Request
  <2>4. Forward(fg, check, 0) \in Request /\ Forward(fg, check, 0).row # "review"
    BY <1>2
  <2> QED BY <2>2, <2>3, <2>4 DEF Backward, Asked
<1> QED
  BY <1>1, <1>2, <1>3 DEF Asked

\* Marking workflows for review moves no worker.
LEMMA ReviewTyped ==
    ASSUME Typed, NEW resources
    PROVE  /\ DOMAIN ReviewedOf(resources) = Workers
           /\ \A v \in Workers :
                 \/ ReviewedOf(resources)[v] = worker[v]
                 \/ /\ worker[v].at # "idle" /\ worker[v].row = "open"
                    /\ ReviewedOf(resources)[v] = [worker[v] EXCEPT !.row = "review"]
  BY DEF ReviewedOf

\* What starts a run of a deployment.
LEMMA ConvergingTyped ==
    \A i \in Nat, was \in Statuses, fg \in BOOLEAN, resource \in Nat :
       LET q == Converging(i, was, fg, resource)
       IN q \in Run /\ q.at = "start" /\ q.id = i /\ q.left = {}
  BY DEF Converging, Run, Claiming, Claimed, Phases

LEMMA AdmitTyped ==
    ASSUME Typed, NEW w \in Workers, Admit(w)
    PROVE  Typed' /\ Grows /\ Aside
<1> DEFINE r == worker[w]
           i == Len(deployments) + 1
           edges == IF r.of = 0 THEN r.edges ELSE roster
           new == [status |-> "queued", release |-> r.release, check |-> r.check,
                   limit |-> r.limit, of |-> r.of, digest |-> r.digest, gen |-> 0]
           rows == [e \in Edges |-> [status |-> IF e \in edges THEN "pending" ELSE "none",
                                     phase |-> "none", fence |-> 0]]
<1>1. /\ r.at = "admit"
      /\ deployments' = Kept(Append(deployments, new))
      /\ targets' = Append(targets, rows)
      /\ UNCHANGED <<state, serving, events, lockLost>>
  BY DEF Admit
<1>2. /\ r \in Request /\ r.release.cert <= events
  BY <1>1, WorkerKinds DEF Typed, WorkerTyped
<1>3. new \in Deployment /\ new.release = r.release /\ new.gen = 0
  BY <1>2 DEF Deployment, Request, Statuses
<1>4. rows \in Rows /\ \A e \in Edges : rows[e].fence = 0 /\ rows[e].phase = "none"
  BY DEF Rows, Target, TargetStatuses, Phases
<1> HIDE DEF new, rows, edges
<1>5. /\ Len(deployments') = i /\ Ids' = Ids \cup {i} /\ i \notin Ids
      /\ DeploymentsTyped' /\ DeploymentsGrow
      /\ \A j \in Ids : deployments'[j].gen = deployments[j].gen
      /\ deployments'[i].gen = 0
  BY <1>1, <1>2, <1>3, AdmissionGrows
<1>6. /\ TargetsTyped'
      /\ \A j \in Ids : targets'[j] = targets[j]
      /\ targets'[i] = rows
  <2>1. /\ targets \in Seq(Rows) /\ Len(targets) = Len(deployments) /\ Ids = 1..Len(targets)
    BY LenProperties DEF Typed, TargetsTyped, DeploymentsTyped, Ids
  <2> QED BY <1>1, <1>4, <1>5, <2>1, AppendProperties DEF TargetsTyped
<1>7. PlansStand
  BY <1>6 DEF PlansStand, Planned
<1>8. i \in Nat
  BY LenProperties DEF Typed, DeploymentsTyped
<1>9. CASE r.fg
  <2>1. worker' = [worker EXCEPT ![w] = Converging(i, "queued", TRUE, r.resource)]
        /\ UNCHANGED <<queue, lock>>
    BY <1>9 DEF Admit
  <2> DEFINE q == Converging(i, "queued", TRUE, r.resource)
  <2>2. q \in Run /\ q.at = "start" /\ q.id = i /\ q.left = {}
    <3>1. "queued" \in Statuses /\ r.resource \in Nat /\ TRUE \in BOOLEAN
      BY <1>2 DEF Request, Statuses
    <3> QED BY <1>8, <3>1, ConvergingTyped
  <2> HIDE DEF q
  <2>3. /\ DOMAIN worker' = Workers /\ worker' = [v \in Workers |-> worker'[v]]
        /\ worker'[w] = q
        /\ \A v \in Workers : v # w => Still(v)
    BY <2>1, MovedWorker DEF q
  <2>4. WorkerTyped(w)'
    BY <1>5, <2>2, <2>3 DEF WorkerTyped, Works, x, Walking
  <2>5. StateTyped'
    BY <1>1, <2>1 DEF Typed, StateTyped, state
  <2>6. Typed'
    BY <1>1, <1>5, <1>6, <1>7, <2>1, <2>3, <2>4, <2>5, EventTyped, AllTyped DEF Grows, Typed
  <2>7. Aside
    BY <1>4, <1>5, <1>6, <2>2, <2>3 DEF Aside, Fresh, Claiming
  <2> QED BY <1>5, <1>7, <2>6, <2>7 DEF Grows
<1>10. CASE ~ r.fg
  <2>1. /\ queue' = queue \cup {i}
        /\ worker' = [worker EXCEPT ![w] = Idle]
        /\ lock' = IF lock = w THEN NoWorker ELSE lock
    BY <1>10 DEF Admit
  <2>3. /\ DOMAIN worker' = Workers /\ worker' = [v \in Workers |-> worker'[v]]
        /\ worker'[w] = Idle
        /\ \A v \in Workers : v # w => Still(v)
    BY <2>1, MovedWorker
  <2>4. WorkerTyped(w)' /\ worker'[w].at \in Fresh
    BY <2>3 DEF WorkerTyped, Works, Idle, Fresh
  <2>5. StateTyped' /\ queue' \subseteq Ids'
    BY <1>1, <1>5, <2>1 DEF Typed, StateTyped, state
  <2>6. Typed'
    BY <1>1, <1>5, <1>6, <1>7, <2>1, <2>3, <2>4, <2>5, EventTyped, AllTyped DEF Grows
  <2>7. Aside
    BY <1>4, <1>5, <1>6, <2>3, <2>4 DEF Aside
  <2> QED BY <1>5, <1>7, <2>6, <2>7 DEF Grows
<1> QED
  BY <1>2, <1>9, <1>10 DEF Request

LEMMA DeliverTyped ==
    ASSUME Typed, NEW w \in Workers, NEW i \in queue,
           Deliver(w, i) \/ DeliverFinished(w, i)
    PROVE  Typed' /\ Grows /\ Aside
<1>1. UNCHANGED <<state, deployments, targets, serving, events, lockLost>>
      /\ lock' \in {lock, w} /\ queue' \subseteq queue
  BY DEF Deliver, DeliverFinished
<1>2. Grows /\ DeploymentsTyped' /\ TargetsTyped' /\ Ids' = Ids /\ queue' \subseteq Ids'
  BY <1>1, EventTyped, NothingGrows DEF Typed
<1>3. StateTyped'
  BY <1>1 DEF Typed, StateTyped, state
<1>4. i \in Ids /\ i \in Nat /\ deployments[i].status \in Statuses
  <2>1. i \in Ids /\ deployments[i] \in Deployment
    BY DeploymentFields DEF Typed
  <2>2. i \in Nat
    BY <2>1, LenProperties DEF Typed, DeploymentsTyped, Ids
  <2> QED BY <2>1, <2>2 DEF Deployment
<1>5. CASE Deliver(w, i)
  <2> DEFINE q == Converging(i, deployments[i].status, FALSE, i)
             reviewed == ReviewedOf(IF deployments[i].status = "running" THEN {i} ELSE {})
  <2>1. worker' = [reviewed EXCEPT ![w] = q]
    BY <1>5 DEF Deliver
  <2>2. q \in Run /\ q.at = "start" /\ q.id = i /\ q.left = {}
    <3>1. FALSE \in BOOLEAN
      OBVIOUS
    <3> QED BY <1>4, <3>1, ConvergingTyped
  <2>3. /\ DOMAIN reviewed = Workers
        /\ \A v \in Workers :
                 \/ reviewed[v] = worker[v]
                 \/ /\ worker[v].at # "idle" /\ worker[v].row = "open"
                    /\ reviewed[v] = [worker[v] EXCEPT !.row = "review"]
    BY ReviewTyped
  <2>4. worker' = [v \in Workers |-> IF v = w THEN q ELSE reviewed[v]]
    BY <2>1, <2>3
  <2> HIDE DEF q, reviewed
  <2>5. /\ DOMAIN worker' = Workers /\ worker' = [v \in Workers |-> worker'[v]]
        /\ worker'[w] = q
        /\ \A v \in Workers : v # w => Still(v)
    BY <2>3, <2>4 DEF Still
  <2>6. WorkerTyped(w)'
    BY <1>2, <1>4, <2>2, <2>5 DEF WorkerTyped, Works, x, Walking
  <2>7. Typed'
    BY <1>1, <1>2, <1>3, <2>5, <2>6, EventTyped, AllTyped
  <2>8. Aside
    BY <1>1, <1>2, <2>2, <2>5 DEF Aside, Fresh, Claiming
  <2> QED BY <1>2, <2>7, <2>8
<1>6. CASE DeliverFinished(w, i)
  <2>1. worker' = worker
    BY <1>6 DEF DeliverFinished
  <2>2. /\ DOMAIN worker' = Workers /\ worker' = [v \in Workers |-> worker'[v]]
        /\ \A v \in Workers : Still(v)
    BY <2>1 DEF Still, Typed
  <2>3. Typed'
    BY <1>1, <1>2, <1>3, <2>2, EventTyped, AllTyped
  <2>4. Aside
    BY <1>1, <1>2, <2>2 DEF Aside
  <2> QED BY <1>2, <2>3, <2>4
<1> QED
  BY <1>5, <1>6

LEMMA InitializeTyped ==
    ASSUME Typed, NEW w \in Workers, Initialize(w)
    PROVE  Typed' /\ Grows /\ Aside
<1>1. UNCHANGED <<state, deployments, targets, lock, serving, events, lockLost>>
      /\ queue' \subseteq Ids /\ worker' = ReviewedOf(Resources)
  BY DEF Initialize, Typed
<1>2. Grows /\ DeploymentsTyped' /\ TargetsTyped' /\ Ids' = Ids /\ queue' \subseteq Ids'
  BY <1>1, EventTyped, NothingGrows DEF Typed
<1>3. StateTyped'
  BY <1>1 DEF Typed, StateTyped, state
<1>4. /\ DOMAIN worker' = Workers /\ worker' = [v \in Workers |-> worker'[v]]
      /\ \A v \in Workers : Still(v)
  <2>1. worker' = [v \in Workers |-> worker'[v]]
    BY <1>1 DEF ReviewedOf
  <2>2. DOMAIN worker' = Workers
    BY <1>1 DEF ReviewedOf
  <2>3. \A v \in Workers : Still(v)
    BY <1>1, ReviewTyped DEF Still
  <2> QED BY <2>1, <2>2, <2>3
<1>5. Typed'
  BY <1>1, <1>2, <1>3, <1>4, EventTyped, AllTyped
<1>6. Aside
  BY <1>1, <1>2, <1>4 DEF Aside
<1> QED
  BY <1>2, <1>5, <1>6

\* A run ends: its worker is idle, and the outcome it writes, if it writes one,
\* is written over a deployment that is not over.
Ends(w) ==
    /\ worker' = [worker EXCEPT ![w] = Idle]
    /\ lock' \in {lock, NoWorker} /\ queue' \subseteq queue
    /\ UNCHANGED <<roster, torn, targets, lockLost, serving>>
    /\ \/ deployments' = deployments
       \/ /\ Works(w) /\ deployments[x(w)].status = "running"
          /\ \E status \in Terminal : deployments' = Settled(w, status)

LEMMA EndsTyped ==
    ASSUME Typed, NEW w \in Workers, Ends(w),
           canonical' \in Inputs, canonical'.cert <= events', required' \in BOOLEAN,
           events' \in 0..MaxEvents, events' \in Nat, events <= events'
    PROVE  Typed' /\ Grows /\ Aside /\ worker'[w] = Idle
<1>1. /\ DOMAIN worker' = Workers /\ worker' = [v \in Workers |-> worker'[v]]
      /\ worker'[w] = Idle
      /\ \A v \in Workers : v # w => Still(v)
  BY MovedWorker DEF Ends
<1>2. WorkerTyped(w)' /\ worker'[w].at \in Fresh
  BY <1>1 DEF WorkerTyped, Works, Idle, Fresh
<1>3. StateTyped'
  BY DEF Ends, Typed, StateTyped
<1>4. /\ Ids' = Ids /\ DeploymentsTyped' /\ DeploymentsGrow /\ TargetsTyped'
      /\ \A i \in Ids : deployments'[i].gen = deployments[i].gen
  <2>1. CASE deployments' = deployments
    BY <2>1, NothingGrows DEF Ends, Grows
  <2>2. CASE Works(w) /\ deployments[x(w)].status = "running"
             /\ \E status \in Terminal : deployments' = Settled(w, status)
    <3>1. PICK status \in Terminal : deployments' = [deployments EXCEPT ![x(w)].status = status]
      BY <2>2 DEF Settled
    <3>2. x(w) \in Ids /\ status \in Statuses
      BY <2>2 DEF Typed, WorkerTyped, Statuses, Terminal
    <3>3. deployments[x(w)].status \in Terminal \cup {"pruned"} => status = deployments[x(w)].status
      BY <2>2 DEF Terminal
    <3>4. /\ Len(deployments') = Len(deployments) /\ Ids' = Ids
          /\ deployments' \in Seq(Deployment)
          /\ \A j \in Ids : deployments'[j].release.cert <= events'
          /\ DeploymentsGrow
          /\ \A j \in Ids : deployments'[j].gen = deployments[j].gen
      BY <3>1, <3>2, <3>3, StatusWrites
    <3>5. TargetsTyped'
      BY <3>4 DEF Ends, Typed, TargetsTyped
    <3> QED BY <3>4, <3>5 DEF DeploymentsTyped
  <2> QED BY <2>1, <2>2 DEF Ends
<1>5. PlansStand
  BY DEF Ends, PlansStand, Planned
<1>6. Typed'
  BY <1>1, <1>2, <1>3, <1>4, <1>5, AllTyped DEF Ends, Typed, Grows
<1>7. Aside
  BY <1>1, <1>2, <1>4 DEF Aside, Ends
<1> QED
  BY <1>1, <1>4, <1>5, <1>6, <1>7 DEF Grows

LEMMA FailEnds ==
    ASSUME Typed, NEW w \in Workers, Works(w), NEW status \in Terminal, Fail(w, status),
           UNCHANGED <<state, targets, serving, events>>
    PROVE  Typed' /\ Grows /\ Aside /\ worker'[w] = Idle
<1>1. Ends(w)
  BY DEF Fail, EndRun, Ends, state
<1> QED
  BY <1>1, EventTyped, EndsTyped DEF Typed, StateTyped, state

LEMMA CompleteTyped ==
    ASSUME Typed, NEW w \in Workers, Complete(w)
    PROVE  Typed' /\ Grows /\ Aside /\ worker'[w] = Idle
<1> DEFINE d == deployments[x(w)]
<1>1. Works(w) /\ x(w) \in Ids /\ d \in Deployment
  BY DeploymentFields DEF Complete, Works, Typed, WorkerTyped
<1>2. d.release \in Inputs /\ d.release.cert <= events
  BY <1>1 DEF Deployment, Typed, DeploymentsTyped
<1>3. Ends(w)
  BY <1>1 DEF Complete, Fail, EndRun, Ends, state, Terminal
<1>4. canonical' \in Inputs /\ canonical'.cert <= events /\ required' \in BOOLEAN
  BY <1>2 DEF Complete, state, Typed, StateTyped
<1>5. events' = events
  BY DEF Complete
<1> QED
  BY <1>3, <1>4, <1>5, EventTyped, EndsTyped DEF Typed, StateTyped

LEMMA MishapTyped ==
    ASSUME Typed, NEW w \in Workers, Interrupt(w) \/ Crash(w)
    PROVE  Typed' /\ Grows /\ Aside /\ worker'[w] = Idle
<1>1. Ends(w)
  BY DEF Interrupt, Crash, Ends, state, Terminal, Settled
<1>2. Event /\ UNCHANGED <<canonical, required>>
  BY DEF Interrupt, Crash, state
<1>3. events' \in 0..MaxEvents /\ events' \in Nat /\ events' = events + 1 /\ events <= events'
  BY <1>2, EventTyped
<1>4. canonical' \in Inputs /\ canonical'.cert <= events' /\ required' \in BOOLEAN
  <2>1. canonical \in Inputs /\ canonical.cert <= events /\ canonical.cert \in Nat /\ events \in Nat
    BY EventTyped, FleetAssumption DEF Typed, StateTyped, Inputs
  <2> QED BY <1>2, <1>3, <2>1 DEF Typed, StateTyped
<1> QED
  BY <1>1, <1>3, <1>4, EndsTyped

LEMMA StartTyped ==
    ASSUME Typed, NEW w \in Workers, Start(w)
    PROVE  Typed' /\ Grows /\ Aside
<1>1. Works(w) /\ worker[w] \in Run /\ x(w) \in Ids
  BY WorkerKinds DEF Start, Works, Typed
<1>2. CASE worker[w].was = "queued" /\ deployments[x(w)].status # "queued"
  <2>1. Ends(w) /\ UNCHANGED <<state, events>>
    BY <1>2 DEF Start, EndRun, Ends, state
  <2> QED BY <2>1, EventTyped, EndsTyped DEF Typed, StateTyped, state
<1>3. CASE ~ (worker[w].was = "queued" /\ deployments[x(w)].status # "queued")
  <2> DEFINE status == IF worker[w].was = "queued" THEN "running" ELSE deployments[x(w)].status
             r == [worker[w] EXCEPT !.at = "claim"]
  <2>1. /\ deployments' = [deployments EXCEPT ![x(w)].status = status]
        /\ worker' = [worker EXCEPT ![w] = r]
        /\ UNCHANGED <<state, targets, queue, lock, serving, events, lockLost>>
    BY <1>3 DEF Start, Settled, Stand
  <2>2. status \in Statuses
    <3>1. deployments[x(w)] \in Deployment
      BY <1>1, DeploymentFields
    <3> QED BY <3>1 DEF Deployment, Statuses
  <2>3. deployments[x(w)].status \in Terminal \cup {"pruned"} => status = deployments[x(w)].status
    BY <1>3 DEF Terminal
  <2>4. r \in Run /\ r.at = "claim" /\ r.id = x(w) /\ r.left = worker[w].left
    BY <1>1 DEF Run, Claiming, x
  <2> HIDE DEF status, r
  <2>5. /\ Len(deployments') = Len(deployments) /\ Ids' = Ids
        /\ deployments' \in Seq(Deployment)
        /\ \A j \in Ids : deployments'[j].release.cert <= events'
        /\ DeploymentsGrow
        /\ \A j \in Ids : deployments'[j].gen = deployments[j].gen
    BY <1>1, <2>1, <2>2, <2>3, EventTyped, StatusWrites
  <2>6. DeploymentsTyped' /\ TargetsTyped' /\ queue' \subseteq Ids' /\ StateTyped'
    BY <2>1, <2>5 DEF DeploymentsTyped, TargetsTyped, Typed, StateTyped, state
  <2>7. PlansStand
    BY <2>1 DEF PlansStand, Planned
  <2>8. /\ DOMAIN worker' = Workers /\ worker' = [v \in Workers |-> worker'[v]]
        /\ worker'[w] = r
        /\ \A v \in Workers : v # w => Still(v)
    BY <2>1, MovedWorker
  <2>9. WorkerTyped(w)'
    <3>1. worker[w].left \subseteq Planned(x(w)) /\ Planned(x(w))' = Planned(x(w))
      BY <1>1, <2>1, <2>4, <2>8 DEF Typed, WorkerTyped, Planned, x
    <3> QED BY <1>1, <2>4, <2>5, <2>8, <3>1 DEF WorkerTyped, Works, x, Walking
  <2>10. Typed'
    BY <2>1, <2>5, <2>6, <2>7, <2>8, <2>9, EventTyped, AllTyped DEF Grows
  <2>11. Aside
    BY <2>1, <2>4, <2>5, <2>8 DEF Aside, Fresh, Claiming
  <2> QED BY <2>5, <2>7, <2>10, <2>11 DEF Grows
<1> QED
  BY <1>2, <1>3

\* Every row takes a generation, and nothing else of it changes.
LEMMA Restamped ==
    ASSUME Typed, NEW i \in Ids, NEW fence \in Nat, Len(deployments') = Len(deployments),
           targets' = Restamp(i, fence)
    PROVE  /\ TargetsTyped' /\ PlansStand
           /\ \A j \in Ids : j # i => targets'[j] = targets[j]
           /\ \A e \in Edges : /\ targets'[i][e].fence = fence
                               /\ targets'[i][e].status = targets[i][e].status
                               /\ targets'[i][e].phase = targets[i][e].phase
<1> DEFINE rows == [e \in Edges |-> [targets[i][e] EXCEPT !.fence = fence]]
<1>1. targets' = [targets EXCEPT ![i] = rows]
  BY DEF Restamp
<1>2. \A e \in Edges : targets[i][e] \in Target
  BY RowFields
<1>3. \A t \in Target : LET q == [t EXCEPT !.fence = fence]
        IN q \in Target /\ q.fence = fence /\ q.status = t.status /\ q.phase = t.phase
  BY DEF Target
<1>4. \A e \in Edges : /\ rows[e] \in Target /\ rows[e].fence = fence
                       /\ rows[e].status = targets[i][e].status
                       /\ rows[e].phase = targets[i][e].phase
  BY <1>2, <1>3
<1>5. rows \in Rows
  BY <1>4 DEF Rows
<1> HIDE DEF rows
<1>6. /\ TargetsTyped' /\ PlansStand
      /\ \A j \in Ids : targets'[j] = IF j = i THEN rows ELSE targets[j]
  <2>1. \A e \in Edges : rows[e].status = "none" <=> targets[i][e].status = "none"
    BY <1>4
  <2> QED BY <1>1, <1>5, <2>1, RowsReplaced
<1> QED
  BY <1>4, <1>6

\* A worker goes on with its run while the rest stands.
LEMMA WalkTyped ==
    ASSUME Typed, NEW w \in Workers, NEW r \in Run, worker' = [worker EXCEPT ![w] = r],
           UNCHANGED <<state, queue, lock, lockLost>>, Ids' = Ids,
           events' \in 0..MaxEvents, events' \in Nat, events <= events',
           serving' \in [Edges -> Surface],
           DeploymentsTyped', TargetsTyped', Grows,
           r.id \in Ids, r.left \subseteq Planned(r.id),
           r.at \in {"phase", "record"} => r.edge \in r.left,
           r.at \in Walking => r.seen \in Rows
    PROVE  /\ Typed'
           /\ worker'[w] = r /\ \A v \in Workers : v # w => worker'[v] = worker[v]
<1>1. /\ DOMAIN worker' = Workers /\ worker' = [v \in Workers |-> worker'[v]]
      /\ worker'[w] = r
      /\ \A v \in Workers : v # w => worker'[v] = worker[v] /\ Still(v)
  BY MovedWorker
<1>2. r.at # "idle" /\ r.at # "admit"
  BY DEF Run, Claiming, Claimed
<1>3. WorkerTyped(w)'
  <2>1. Planned(r.id)' = Planned(r.id)
    BY DEF Grows, PlansStand
  <2>2. Planned(x(w))' = Planned(r.id)
    BY <1>1, <2>1 DEF Planned, x
  <2> QED BY <1>1, <1>2, <2>2 DEF WorkerTyped, Works, x, Grows
<1>4. StateTyped'
  <2>1. canonical \in Inputs /\ canonical.cert <= events /\ canonical.cert \in Nat /\ events \in Nat
    BY EventTyped, FleetAssumption DEF Typed, StateTyped, Inputs
  <2> QED BY <2>1 DEF Typed, StateTyped, state
<1>5. Typed'
  BY <1>1, <1>3, <1>4, AllTyped DEF Typed
<1> QED
  BY <1>1, <1>5

-----------------------------------------------------------------------------
(* What the steps of a rollout do.                                         *)

\* A step of one worker under its fence: it moves no generation, and no row
\* that carries another.
Moves(w) ==
    /\ \A v \in Workers : v # w => worker'[v] = worker[v]
    /\ \/ worker'[w].at = "idle"
       \/ worker'[w].at \in Claimed /\ worker'[w].id = x(w) /\ worker'[w].fence = worker[w].fence
    /\ Ids' = Ids
    /\ \A i \in Ids : /\ deployments'[i].gen = deployments[i].gen
                      /\ \A e \in Edges :
                            /\ targets'[i][e].fence = targets[i][e].fence
                            /\ i # x(w) \/ targets[i][e].fence # worker[w].fence
                               => targets'[i][e] = targets[i][e]

LEMMA ClaimTyped ==
    ASSUME Typed, NEW w \in Workers, Claim(w)
    PROVE  /\ Typed' /\ Grows
           /\ Aside
              \/ LET fence == deployments[x(w)].gen + 1
                 IN /\ Ids' = Ids
                    /\ worker'[w].at = "plan" /\ worker'[w].id = x(w)
                    /\ worker'[w].fence = fence /\ worker'[w].ok = worker[w].ok
                    /\ \A v \in Workers : v # w => worker'[v] = worker[v]
                    /\ deployments'[x(w)].gen = fence
                    /\ \A i \in Ids : i # x(w) => /\ deployments'[i].gen = deployments[i].gen
                                                  /\ targets'[i] = targets[i]
                    /\ \A e \in Edges : /\ targets'[x(w)][e].fence = fence
                                        /\ targets'[x(w)][e].phase = targets[x(w)][e].phase
                                        /\ targets'[x(w)][e].status = targets[x(w)][e].status
                    /\ UNCHANGED <<serving, lock, lockLost>>
<1>1. Works(w) /\ worker[w] \in Run /\ x(w) \in Ids /\ worker[w].left \subseteq Planned(x(w))
      /\ worker[w].id = x(w) /\ worker[w].at = "claim"
  BY WorkerKinds DEF Claim, Works, Typed, WorkerTyped, x
<1> DEFINE fence == deployments[x(w)].gen + 1
           r == [worker[w] EXCEPT !.at = "plan", !.fence = fence]
<1>2. CASE ~ (Planned(x(w)) \subseteq roster)
  <2>1. Fail(w, "failed") /\ UNCHANGED <<state, targets, serving, events>>
    BY <1>2 DEF Claim
  <2>2. "failed" \in Terminal
    BY DEF Terminal
  <2> QED BY <1>1, <2>1, <2>2, FailEnds
<1>3. CASE Planned(x(w)) \subseteq roster
  <2>1. /\ deployments' = [deployments EXCEPT ![x(w)].gen = fence]
        /\ targets' = Restamp(x(w), fence)
        /\ worker' = [worker EXCEPT ![w].at = "plan", ![w].fence = fence]
        /\ UNCHANGED <<state, queue, lock, serving, events, lockLost>>
    BY <1>3 DEF Claim
  <2>2. fence \in Nat /\ deployments[x(w)].gen <= fence
    BY <1>1, DeploymentFields
  <2>3. r \in Run /\ r.at = "plan" /\ r.id = x(w) /\ r.fence = fence
        /\ r.left = worker[w].left /\ r.ok = worker[w].ok
    BY <1>1, <2>2 DEF Run, Claimed
  <2>4. worker' = [worker EXCEPT ![w] = r]
    BY <2>1
  <2> HIDE DEF fence, r
  <2>5. /\ Len(deployments') = Len(deployments) /\ Ids' = Ids
        /\ DeploymentsTyped' /\ DeploymentsGrow
        /\ \A j \in Ids : j # x(w) => deployments'[j].gen = deployments[j].gen
        /\ deployments'[x(w)].gen = fence
    BY <1>1, <2>1, <2>2, GenerationWrites
  <2>6. /\ TargetsTyped' /\ PlansStand
        /\ \A j \in Ids : j # x(w) => targets'[j] = targets[j]
        /\ \A e \in Edges : /\ targets'[x(w)][e].fence = fence
                            /\ targets'[x(w)][e].status = targets[x(w)][e].status
                            /\ targets'[x(w)][e].phase = targets[x(w)][e].phase
    BY <1>1, <2>1, <2>2, <2>5, Restamped
  <2>7. /\ Typed'
        /\ worker'[w] = r /\ \A v \in Workers : v # w => worker'[v] = worker[v]
    <3>1. r.at \notin Walking /\ r.at \notin {"phase", "record"}
      BY <2>3 DEF Walking
    <3>2. r.id \in Ids /\ r.left \subseteq Planned(r.id) /\ Grows
      BY <1>1, <2>3, <2>5, <2>6 DEF Grows
    <3>3. /\ events' \in 0..MaxEvents /\ events' \in Nat /\ events <= events'
          /\ serving' \in [Edges -> Surface] /\ UNCHANGED <<state, queue, lock, lockLost>>
      BY <2>1, EventTyped DEF Typed, StateTyped
    <3> QED BY <2>3, <2>4, <2>5, <2>6, <3>1, <3>2, <3>3, WalkTyped
  <2> QED BY <2>1, <2>3, <2>5, <2>6, <2>7 DEF Grows, fence
<1> QED
  BY <1>2, <1>3

LEMMA PlanTyped ==
    ASSUME Typed, NEW w \in Workers, Plan(w)
    PROVE  /\ Typed' /\ Grows
           /\ Aside
              \/ /\ Ids' = Ids /\ UNCHANGED <<deployments, serving, lock, lockLost>>
                 /\ deployments[x(w)].gen = worker[w].fence
                 /\ worker'[w].at = "edge" /\ worker'[w].id = x(w)
                 /\ worker'[w].fence = worker[w].fence /\ worker'[w].ok = worker[w].ok
                 /\ worker'[w].left = Planned(x(w)) /\ worker'[w].seen = targets[x(w)]
                 /\ \A v \in Workers : v # w => worker'[v] = worker[v]
                 /\ \A i \in Ids : i # x(w) => targets'[i] = targets[i]
                 /\ \A e \in Edges : /\ targets'[x(w)][e].fence = worker[w].fence
                                     /\ targets'[x(w)][e].phase = targets[x(w)][e].phase
                                     /\ targets'[x(w)][e].status = targets[x(w)][e].status
<1>1. Works(w) /\ worker[w] \in Run /\ x(w) \in Ids /\ worker[w].at = "plan"
  BY WorkerKinds DEF Plan, Works, Typed, WorkerTyped
<1> DEFINE r == [worker[w] EXCEPT !.at = "edge", !.left = Planned(x(w)), !.seen = targets[x(w)]]
<1>2. CASE deployments[x(w)].gen # worker[w].fence
  <2>1. Fail(w, "failed") /\ UNCHANGED <<state, targets, serving, events>>
    BY <1>2 DEF Plan
  <2>2. "failed" \in Terminal
    BY DEF Terminal
  <2> QED BY <1>1, <2>1, <2>2, FailEnds
<1>3. CASE deployments[x(w)].gen = worker[w].fence
  <2>1. /\ targets' = Restamp(x(w), worker[w].fence)
        /\ worker' = [worker EXCEPT ![w] = r]
        /\ UNCHANGED <<state, deployments, queue, lock, serving, events, lockLost>>
    BY <1>3 DEF Plan
  <2>2. worker[w].fence \in Nat /\ targets[x(w)] \in Rows /\ Planned(x(w)) \subseteq Edges
    BY <1>1, RowFields DEF Run, Planned
  <2>3. r \in Run /\ r.at = "edge" /\ r.id = x(w) /\ r.fence = worker[w].fence
        /\ r.left = Planned(x(w)) /\ r.seen = targets[x(w)] /\ r.ok = worker[w].ok
    BY <1>1, <2>2 DEF Run, Claimed, x
  <2> HIDE DEF r
  <2>4. /\ TargetsTyped' /\ PlansStand
        /\ \A j \in Ids : j # x(w) => targets'[j] = targets[j]
        /\ \A e \in Edges : /\ targets'[x(w)][e].fence = worker[w].fence
                            /\ targets'[x(w)][e].status = targets[x(w)][e].status
                            /\ targets'[x(w)][e].phase = targets[x(w)][e].phase
    BY <1>1, <2>1, <2>2, Restamped
  <2>5. /\ events' \in 0..MaxEvents /\ events' \in Nat /\ events <= events'
        /\ serving' \in [Edges -> Surface] /\ UNCHANGED <<state, queue, lock, lockLost>>
    BY <2>1, EventTyped DEF Typed, StateTyped
  <2>6. Ids' = Ids /\ DeploymentsTyped' /\ DeploymentsGrow
    <3>1. \A j \in Ids : deployments[j].gen \in Nat
      BY DeploymentFields
    <3>2. Len(deployments) \in Nat
      BY LenProperties DEF Typed, DeploymentsTyped
    <3> QED BY <2>1, <3>1, <3>2 DEF DeploymentsGrow, DeploymentsTyped, Typed, Ids
  <2>7. Typed' /\ worker'[w] = r /\ \A v \in Workers : v # w => worker'[v] = worker[v]
    <3>1. r.id \in Ids /\ r.left \subseteq Planned(r.id) /\ r.seen \in Rows /\ Grows
          /\ r.at \notin {"phase", "record"}
      BY <1>1, <2>2, <2>3, <2>4, <2>6 DEF Grows
    <3> QED BY <2>1, <2>3, <2>4, <2>5, <2>6, <3>1, WalkTyped
  <2> QED BY <1>3, <2>1, <2>3, <2>4, <2>6, <2>7 DEF Grows
<1> QED
  BY <1>2, <1>3

\* A step that writes at most one row under the fence, or none.
LEMMA MoveTyped ==
    ASSUME Typed, NEW w \in Workers, worker[w] \in Run, Works(w), Rest,
           events' \in 0..MaxEvents, events' \in Nat, events <= events',
           serving' \in [Edges -> Surface],
           NEW e \in Planned(x(w)), NEW row \in Target, row.status # "none",
           row.fence = targets[x(w)][e].fence,
           WriteRow(w, e, row) \/ targets' = targets,
           NEW r \in Run, worker' = [worker EXCEPT ![w] = r],
           r.at \in Claimed, r.id = x(w), r.fence = worker[w].fence,
           r.left \subseteq worker[w].left,
           r.at \in {"phase", "record"} => r.edge \in r.left,
           r.at \in Walking => r.seen \in Rows
    PROVE  /\ Typed' /\ Grows /\ Moves(w) /\ worker'[w] = r
           /\ \A f \in Edges : f # e => targets'[x(w)][f] = targets[x(w)][f]
           /\ targets[x(w)][e].fence = worker[w].fence /\ WriteRow(w, e, row)
              => targets'[x(w)][e] = row
<1>1. x(w) \in Ids /\ worker[w].left \subseteq Planned(x(w))
  BY DEF Typed, WorkerTyped
<1>2. UNCHANGED <<state, deployments, queue, lock, lockLost>>
  BY DEF Rest
<1>3. Ids' = Ids /\ DeploymentsTyped' /\ DeploymentsGrow
  <2>1. \A j \in Ids : deployments[j].gen \in Nat /\ deployments[j].release.cert \in Nat
    BY DeploymentFields
  <2>2. Len(deployments) \in Nat
    BY LenProperties DEF Typed, DeploymentsTyped
  <2>3. \A j \in Ids : deployments[j].release.cert <= events'
    BY <2>1, EventTyped DEF Typed, DeploymentsTyped
  <2> QED BY <1>2, <2>1, <2>2, <2>3 DEF DeploymentsGrow, DeploymentsTyped, Typed, Ids
<1>4. /\ TargetsTyped' /\ PlansStand
      /\ \A j \in Ids : \A f \in Edges :
            /\ targets'[j][f].fence = targets[j][f].fence
            /\ j # x(w) \/ f # e \/ targets[x(w)][e].fence # worker[w].fence
               => targets'[j][f] = targets[j][f]
      /\ targets[x(w)][e].fence = worker[w].fence /\ WriteRow(w, e, row)
         => targets'[x(w)][e] = row
  <2>1. CASE WriteRow(w, e, row)
    BY <1>2, <2>1, RowWritten
  <2>2. CASE targets' = targets
    <3>1. TargetsTyped' /\ PlansStand
      BY <1>2, <2>2 DEF Typed, TargetsTyped, PlansStand, Planned
    <3>2. ASSUME targets[x(w)][e].fence = worker[w].fence, WriteRow(w, e, row)
          PROVE  targets'[x(w)][e] = row
      BY <1>2, <3>2, RowWritten
    <3> QED BY <2>2, <3>1, <3>2
  <2> QED BY <2>1, <2>2
<1>5. Typed' /\ worker'[w] = r /\ \A v \in Workers : v # w => worker'[v] = worker[v]
  <2>1. r.id \in Ids /\ r.left \subseteq Planned(r.id) /\ Grows
    BY <1>1, <1>3, <1>4 DEF Grows
  <2> QED BY <1>2, <1>3, <1>4, <2>1, WalkTyped
<1>6. Moves(w)
  <2>1. ASSUME NEW i \in Ids, NEW f \in Edges,
               i # x(w) \/ targets[i][f].fence # worker[w].fence
        PROVE  targets'[i][f] = targets[i][f]
    BY <1>4, <2>1
  <2> QED BY <1>2, <1>3, <1>4, <1>5, <2>1 DEF Moves
<1>7. \A f \in Edges : f # e => targets'[x(w)][f] = targets[x(w)][f]
  BY <1>1, <1>4
<1> QED
  BY <1>3, <1>4, <1>5, <1>6, <1>7 DEF Grows

\* What a walking worker knows.
LEMMA WalkerKnows ==
    ASSUME Typed, NEW w \in Workers, worker[w].at \in Walking
    PROVE  /\ Works(w) /\ worker[w] \in Run /\ x(w) \in Ids /\ worker[w].id = x(w)
           /\ worker[w].left \subseteq Planned(x(w))
           /\ worker[w].seen \in Rows
           /\ worker[w].at \in {"phase", "record"} => worker[w].edge \in worker[w].left
           /\ \A e \in Planned(x(w)) :
                 /\ e \in Edges /\ targets[x(w)][e] \in Target
                 /\ targets[x(w)][e].status # "none"
           /\ worker[w].at = "edge" /\ worker[w].left # {}
              => /\ NextEdge(w) \in worker[w].left
                 /\ \A f \in worker[w].left : NextEdge(w) <= f
<1>1. /\ Works(w) /\ worker[w] \in Run /\ x(w) \in Ids /\ worker[w].id = x(w)
      /\ worker[w].left \subseteq Planned(x(w))
      /\ worker[w].seen \in Rows
      /\ worker[w].at \in {"phase", "record"} => worker[w].edge \in worker[w].left
  BY WorkerKinds DEF Walking, Works, Typed, WorkerTyped, x
<1>2. \A e \in Planned(x(w)) :
                 /\ e \in Edges /\ targets[x(w)][e] \in Target
                 /\ targets[x(w)][e].status # "none"
  BY <1>1, RowFields DEF Planned
<1>3. worker[w].left \in SUBSET Edges
  BY <1>1 DEF Run
<1> QED
  BY <1>1, <1>2, <1>3, FirstIsFirst DEF NextEdge

\* What writing a status or a phase makes of a row.
LEMMA RowForms ==
    ASSUME NEW row \in Target
    PROVE  /\ \A status \in TargetStatuses : LET q == [row EXCEPT !.status = status]
                IN q \in Target /\ q.status = status /\ q.phase = row.phase /\ q.fence = row.fence
           /\ \A phase \in Phases : LET q == [row EXCEPT !.phase = phase]
                IN q \in Target /\ q.status = row.status /\ q.phase = phase /\ q.fence = row.fence
  BY DEF Target

LEMMA ReobserveTyped ==
    ASSUME Typed, NEW w \in Workers, Reobserve(w)
    PROVE  /\ Typed' /\ Grows /\ Moves(w)
           /\ UNCHANGED <<deployments, serving, lock, lockLost>>
           /\ \A e \in Edges : /\ targets'[x(w)][e].phase = targets[x(w)][e].phase
                               /\ targets'[x(w)][e] # targets[x(w)][e]
                                  => targets'[x(w)][e].status = "failed"
           /\ worker'[w].seen = worker[w].seen /\ worker'[w].ok = worker[w].ok
           /\ \/ worker'[w].at = "stop"
              \/ /\ worker'[w].at = "edge" /\ targets' = targets
                 /\ worker'[w].left = worker[w].left \ {NextEdge(w)}
                 /\ worker[w].seen[NextEdge(w)].status = "succeeded"
                 /\ Passes(w, NextEdge(w))
<1> DEFINE e == NextEdge(w)
           row == [targets[x(w)][e] EXCEPT !.status = "failed"]
           onward == [worker[w] EXCEPT !.left = @ \ {e}]
           stopped == [worker[w] EXCEPT !.at = "stop"]
<1>1. worker[w].at = "edge" /\ worker[w].left # {} /\ worker[w].seen[e].status = "succeeded"
      /\ Rest /\ UNCHANGED serving
  BY DEF Reobserve, Seen
<1>2. /\ Works(w) /\ worker[w] \in Run /\ x(w) \in Ids /\ worker[w].id = x(w)
      /\ worker[w].left \subseteq Planned(x(w)) /\ worker[w].seen \in Rows
      /\ e \in worker[w].left /\ e \in Planned(x(w)) /\ targets[x(w)][e] \in Target
  BY <1>1, WalkerKnows DEF Walking
<1>3. /\ row \in Target /\ row.status = "failed" /\ row.phase = targets[x(w)][e].phase
      /\ row.fence = targets[x(w)][e].fence
  BY <1>2, RowForms DEF TargetStatuses
<1>4. /\ onward \in Run /\ onward.at = "edge" /\ onward.id = x(w) /\ onward.seen = worker[w].seen
      /\ onward.fence = worker[w].fence /\ onward.left = worker[w].left \ {e}
      /\ onward.ok = worker[w].ok
      /\ stopped \in Run /\ stopped.at = "stop" /\ stopped.id = x(w)
      /\ stopped.fence = worker[w].fence /\ stopped.left = worker[w].left
      /\ stopped.seen = worker[w].seen /\ stopped.ok = worker[w].ok
  BY <1>1, <1>2 DEF Run, Claimed, Claiming
<1>5. events' \in 0..MaxEvents /\ events' \in Nat /\ events <= events'
      /\ serving' \in [Edges -> Surface]
  <2>1. Event \/ events' = events
    BY DEF Reobserve
  <2> QED BY <1>1, <2>1, EventTyped DEF Typed, StateTyped
<1>6. UNCHANGED <<deployments, serving, lock, lockLost>>
  BY <1>1 DEF Rest
<1>7. CASE /\ Passes(w, e) /\ worker' = [worker EXCEPT ![w] = onward] /\ UNCHANGED targets
  <2> HIDE DEF e, row, onward, stopped
  <2>1. /\ Typed' /\ Grows /\ Moves(w) /\ worker'[w] = onward
    BY <1>1, <1>2, <1>3, <1>4, <1>5, <1>7, MoveTyped DEF Claimed
  <2> QED BY <1>1, <1>4, <1>6, <1>7, <2>1 DEF e
<1>8. CASE WriteRow(w, e, row) /\ worker' = [worker EXCEPT ![w] = stopped]
  <2> HIDE DEF e, row, onward, stopped
  <2>1. /\ Typed' /\ Grows /\ Moves(w) /\ worker'[w] = stopped
        /\ \A f \in Edges : f # e => targets'[x(w)][f] = targets[x(w)][f]
        /\ targets[x(w)][e].fence = worker[w].fence => targets'[x(w)][e] = row
    BY <1>1, <1>2, <1>3, <1>4, <1>5, <1>8, MoveTyped DEF Claimed, Walking
  <2>2. targets[x(w)][e].fence # worker[w].fence => targets'[x(w)][e] = targets[x(w)][e]
    BY <1>2, <2>1 DEF Moves, Planned
  <2> QED BY <1>2, <1>3, <1>4, <1>6, <2>1, <2>2
<1> QED
  <2>1. \/ /\ Passes(w, e) /\ worker' = [worker EXCEPT ![w].left = @ \ {e}] /\ UNCHANGED targets
        \/ WriteRow(w, e, row) /\ worker' = [worker EXCEPT ![w].at = "stop"]
    BY DEF Reobserve, Stand
  <2> QED BY <1>7, <1>8, <2>1

LEMMA BeginTyped ==
    ASSUME Typed, NEW w \in Workers, BeginEdge(w)
    PROVE  /\ Typed' /\ Grows /\ Moves(w)
           /\ UNCHANGED <<deployments, serving, lock, lockLost>>
           /\ \A f \in Edges : /\ targets'[x(w)][f].phase = targets[x(w)][f].phase
                               /\ f # NextEdge(w) => targets'[x(w)][f] = targets[x(w)][f]
           /\ worker'[w].seen = worker[w].seen /\ worker'[w].ok = worker[w].ok
           /\ worker'[w].left = worker[w].left
           /\ worker'[w].edge = NextEdge(w)
           /\ worker'[w].phase = worker[w].seen[NextEdge(w)].phase
           /\ worker[w].seen[NextEdge(w)].status # "succeeded"
           /\ worker'[w].at \in {"phase", "stop"}
<1> DEFINE e == NextEdge(w)
           row == [targets[x(w)][e] EXCEPT !.status = "running"]
           at == IF targets[x(w)][e].fence = worker[w].fence THEN "phase" ELSE "stop"
           r == [worker[w] EXCEPT !.edge = e, !.phase = worker[w].seen[e].phase, !.at = at]
<1>1. worker[w].at = "edge" /\ worker[w].left # {} /\ worker[w].seen[e].status # "succeeded"
      /\ Rest /\ UNCHANGED <<serving, events>>
      /\ WriteRow(w, e, row) /\ worker' = [worker EXCEPT ![w] = r]
  BY DEF BeginEdge, Seen, Quiet
<1>2. /\ Works(w) /\ worker[w] \in Run /\ x(w) \in Ids /\ worker[w].id = x(w)
      /\ worker[w].left \subseteq Planned(x(w)) /\ worker[w].seen \in Rows
      /\ e \in worker[w].left /\ e \in Planned(x(w)) /\ targets[x(w)][e] \in Target /\ e \in Edges
  BY <1>1, WalkerKnows DEF Walking
<1>3. /\ row \in Target /\ row.status = "running" /\ row.phase = targets[x(w)][e].phase
      /\ row.fence = targets[x(w)][e].fence
  BY <1>2, RowForms DEF TargetStatuses
<1>4. e \in Nat /\ worker[w].seen[e].phase \in Phases /\ at \in {"phase", "stop"}
  BY <1>2, FleetAssumption DEF Rows, Target
<1> HIDE DEF e, row, at
<1>5. /\ r \in Run /\ r.at = at /\ r.id = x(w) /\ r.seen = worker[w].seen
      /\ r.fence = worker[w].fence /\ r.left = worker[w].left
      /\ r.ok = worker[w].ok /\ r.edge = e /\ r.phase = worker[w].seen[e].phase
  BY <1>1, <1>2, <1>4 DEF Run, Claimed, Claiming
<1>6. events' \in 0..MaxEvents /\ events' \in Nat /\ events <= events'
      /\ serving' \in [Edges -> Surface]
  BY <1>1, EventTyped DEF Typed, StateTyped
<1>7. UNCHANGED <<deployments, serving, lock, lockLost>>
  BY <1>1 DEF Rest
<1> HIDE DEF r
<1>8. /\ Typed' /\ Grows /\ Moves(w) /\ worker'[w] = r
      /\ \A f \in Edges : f # e => targets'[x(w)][f] = targets[x(w)][f]
      /\ targets[x(w)][e].fence = worker[w].fence => targets'[x(w)][e] = row
  <2>1. /\ r.at \in Claimed /\ r.left \subseteq worker[w].left
        /\ r.at \in {"phase", "record"} => r.edge \in r.left
        /\ r.at \in Walking => r.seen \in Rows
    BY <1>2, <1>4, <1>5 DEF Claimed, Walking
  <2>2. row.status # "none" /\ row.fence = targets[x(w)][e].fence
    BY <1>3
  <2>3. Rest /\ WriteRow(w, e, row) /\ worker' = [worker EXCEPT ![w] = r]
    BY <1>1
  <2> QED BY <1>2, <1>3, <1>5, <1>6, <2>1, <2>2, <2>3, MoveTyped
<1>9. targets[x(w)][e].fence # worker[w].fence => targets'[x(w)][e] = targets[x(w)][e]
  BY <1>2, <1>8 DEF Moves
<1>10. \A f \in Edges : targets'[x(w)][f].phase = targets[x(w)][f].phase
  BY <1>3, <1>8, <1>9
<1> QED
  BY <1>1, <1>4, <1>5, <1>7, <1>8, <1>10 DEF e

\* What an edge may serve after a step.
LEMMA ServingTyped ==
    ASSUME Typed, NEW e \in Edges, NEW release \in Inputs
    PROVE  /\ [serving EXCEPT ![e] = [now |-> release, undo |->
                  IF serving[e].now = release THEN serving[e].undo ELSE serving[e].now]]
              \in [Edges -> Surface]
           /\ [serving EXCEPT ![e].undo = release] \in [Edges -> Surface]
           /\ [serving EXCEPT ![e].now = serving[e].undo] \in [Edges -> Surface]
<1>1. serving \in [Edges -> Surface] /\ serving[e] \in Surface
  BY DEF Typed, StateTyped
<1>2. \A s \in Surface : /\ [s EXCEPT !.undo = release] \in Surface
                         /\ [s EXCEPT !.now = s.undo] \in Surface
                         /\ s.now \in Inputs \cup {Bare} /\ s.undo \in Inputs \cup {Bare}
  BY DEF Surface
<1>3. [now |-> release, undo |->
         IF serving[e].now = release THEN serving[e].undo ELSE serving[e].now] \in Surface
  BY <1>1, <1>2 DEF Surface
<1> QED
  BY <1>1, <1>2, <1>3

LEMMA RunPhaseTyped ==
    ASSUME Typed, NEW w \in Workers, RunPhase(w),
           deployments[x(w)].check => worker[w].phase \in {"none", "stage"}
    PROVE  /\ Typed' /\ Grows /\ Moves(w)
           /\ UNCHANGED <<deployments, targets, lock, lockLost>>
           /\ worker'[w].at = "record"
           /\ worker'[w].seen = worker[w].seen /\ worker'[w].ok = worker[w].ok
           /\ worker'[w].left = worker[w].left /\ worker'[w].edge = worker[w].edge
           /\ worker'[w].phase = worker[w].phase
           /\ NextPhase(worker[w].phase) \in Phases
           /\ \A e \in Edges : e # worker[w].edge => serving'[e] = serving[e]
           /\ NextPhase(worker[w].phase) # "stage" => serving'[worker[w].edge].now = Release(w)
           /\ NextPhase(worker[w].phase) = "stage" => serving' = serving
<1> DEFINE e == worker[w].edge
           row == targets[x(w)][e]
           r == [worker[w] EXCEPT !.at = "record"]
<1>1. worker[w].at = "phase" /\ Rest /\ UNCHANGED <<targets, events>>
      /\ worker' = [worker EXCEPT ![w] = r]
      /\ worker[w].phase # LastPhase(deployments[x(w)].check)
  BY DEF RunPhase, Quiet, Stand
<1>2. /\ Works(w) /\ worker[w] \in Run /\ x(w) \in Ids /\ worker[w].id = x(w)
      /\ worker[w].left \subseteq Planned(x(w)) /\ worker[w].seen \in Rows
      /\ e \in worker[w].left /\ e \in Planned(x(w)) /\ row \in Target /\ e \in Edges
      /\ row.status # "none"
  BY <1>1, WalkerKnows DEF Walking
<1>3. /\ r \in Run /\ r.at = "record" /\ r.id = x(w) /\ r.seen = worker[w].seen
      /\ r.fence = worker[w].fence /\ r.left = worker[w].left
      /\ r.ok = worker[w].ok /\ r.edge = e /\ r.phase = worker[w].phase
  BY <1>1, <1>2 DEF Run, Claimed, Claiming
<1>4. Release(w) \in Inputs /\ deployments[x(w)].check \in BOOLEAN /\ worker[w].phase \in Phases
  <2>1. deployments[x(w)] \in Deployment
    BY <1>2, DeploymentFields
  <2> QED BY <1>2, <2>1 DEF Deployment, Run, Release
<1>5. worker[w].phase # "verify" /\ NextPhase(worker[w].phase) \in {"stage", "activate", "verify"}
  BY <1>1, <1>4 DEF NextPhase, Phases, LastPhase
<1> DEFINE next == NextPhase(worker[w].phase)
<1>6. /\ serving' = CASE next = "stage" -> serving
                      [] next = "activate" -> [serving EXCEPT ![e] = [now |-> Release(w), undo |->
                           IF serving[e].now = Release(w) THEN serving[e].undo ELSE serving[e].now]]
                      [] next = "verify" -> [serving EXCEPT ![e].undo = Release(w)]
      /\ next = "verify" => serving[e].now = Release(w)
  BY DEF RunPhase
<1> HIDE DEF next, e, r, row
<1>7. serving \in [Edges -> Surface] /\ serving[e] \in Surface
  BY <1>2 DEF Typed, StateTyped
<1>8. /\ serving' \in [Edges -> Surface]
      /\ \A f \in Edges : f # e => serving'[f] = serving[f]
      /\ next # "stage" => serving'[e].now = Release(w)
      /\ next = "stage" => serving' = serving
  <2>1. CASE next = "stage"
    BY <1>6, <1>7, <2>1
  <2>2. CASE next = "activate"
    <3>1. serving' = [serving EXCEPT ![e] = [now |-> Release(w), undo |->
                        IF serving[e].now = Release(w) THEN serving[e].undo ELSE serving[e].now]]
      BY <1>6, <2>2
    <3> QED BY <1>2, <1>4, <1>7, <2>2, <3>1, ServingTyped
  <2>3. CASE next = "verify"
    <3>0. serving[e].now = Release(w)
      BY <1>6, <2>3
    <3>1. serving' = [serving EXCEPT ![e].undo = Release(w)]
      BY <1>6, <2>3
    <3>2. serving' \in [Edges -> Surface]
      BY <1>2, <1>4, <3>1, ServingTyped
    <3>3. serving'[e].now = serving[e].now /\ \A f \in Edges : f # e => serving'[f] = serving[f]
      BY <1>2, <1>7, <3>1 DEF Surface
    <3> QED BY <2>3, <3>0, <3>2, <3>3
  <2> QED BY <1>5, <2>1, <2>2, <2>3 DEF next
<1>9. events' \in 0..MaxEvents /\ events' \in Nat /\ events <= events'
  BY <1>1, EventTyped DEF Typed, StateTyped
<1>10. /\ Typed' /\ Grows /\ Moves(w) /\ worker'[w] = r
  <2>1. /\ r.at \in Claimed /\ r.left \subseteq worker[w].left
        /\ r.at \in {"phase", "record"} => r.edge \in r.left
        /\ r.at \in Walking => r.seen \in Rows
    BY <1>2, <1>3 DEF Claimed, Walking
  <2>2. row.status # "none" /\ row.fence = targets[x(w)][e].fence
    BY <1>2 DEF row
  <2>3. Rest /\ targets' = targets /\ worker' = [worker EXCEPT ![w] = r]
    BY <1>1
  <2>4. /\ worker[w] \in Run /\ Works(w) /\ e \in Planned(x(w)) /\ row \in Target /\ r \in Run
        /\ r.id = x(w) /\ r.fence = worker[w].fence /\ serving' \in [Edges -> Surface]
    BY <1>2, <1>3, <1>8
  <2> QED BY <1>1, <1>2, <1>3, <1>8, <1>9, <2>1, MoveTyped, ZenonT(60) DEF row
<1>11. UNCHANGED <<deployments, targets, lock, lockLost>>
  BY <1>1 DEF Rest
<1>12. next \in Phases
  BY <1>5 DEF Phases, next
<1> QED
  BY <1>3, <1>8, <1>10, <1>11, <1>12 DEF e, next

LEMMA PhaseFailsTyped ==
    ASSUME Typed, NEW w \in Workers, NEW fatal \in BOOLEAN, PhaseFails(w, fatal)
    PROVE  /\ Typed' /\ Grows /\ Moves(w)
           /\ lockLost' = lockLost /\ lock' \in {lock, NoWorker}
           /\ \A f \in Edges : /\ targets'[x(w)][f].phase = targets[x(w)][f].phase
                               /\ targets'[x(w)][f] # targets[x(w)][f]
                                  => targets'[x(w)][f].status = "failed"
           /\ \/ worker'[w].at = "idle"
              \/ worker'[w].at = "stop" /\ worker'[w].ok = worker[w].ok /\ lock' = lock
           /\ serving' # serving => /\ NextPhase(worker[w].phase) # "stage"
                                    /\ worker[w].phase # LastPhase(deployments[x(w)].check)
<1> DEFINE e == worker[w].edge
           row == [targets[x(w)][e] EXCEPT !.status = "failed"]
           r == [worker[w] EXCEPT !.at = "stop"]
<1>1. worker[w].at = "phase" /\ WriteRow(w, e, row)
      /\ \/ UNCHANGED serving
         \/ /\ NextPhase(worker[w].phase) # "stage"
            /\ worker[w].phase # LastPhase(deployments[x(w)].check)
            /\ serving' = [serving EXCEPT ![e].now = serving[e].undo]
  BY DEF PhaseFails, Row
<1>2. /\ Works(w) /\ worker[w] \in Run /\ x(w) \in Ids /\ worker[w].id = x(w)
      /\ worker[w].left \subseteq Planned(x(w))
      /\ e \in worker[w].left /\ e \in Planned(x(w)) /\ targets[x(w)][e] \in Target /\ e \in Edges
  BY <1>1, WalkerKnows DEF Walking
<1>3. /\ row \in Target /\ row.status = "failed" /\ row.phase = targets[x(w)][e].phase
      /\ row.fence = targets[x(w)][e].fence
  BY <1>2, RowForms DEF TargetStatuses
<1>4. /\ r \in Run /\ r.at = "stop" /\ r.id = x(w)
      /\ r.fence = worker[w].fence /\ r.left = worker[w].left /\ r.ok = worker[w].ok
  BY <1>1, <1>2 DEF Run, Claimed, Claiming
<1>5. /\ events' \in 0..MaxEvents /\ events' \in Nat /\ events <= events'
  <2>1. Event \/ events' = events
    BY DEF PhaseFails
  <2> QED BY <2>1, EventTyped DEF Typed, StateTyped
<1> HIDE DEF e, row, r
<1>6. serving' \in [Edges -> Surface]
  <2>1. canonical \in Inputs /\ serving \in [Edges -> Surface]
    BY DEF Typed, StateTyped
  <2>2. [serving EXCEPT ![e].now = serving[e].undo] \in [Edges -> Surface]
    BY <1>2, <2>1, ServingTyped
  <2> QED BY <1>1, <2>1, <2>2
<1>7. CASE ~ fatal
  <2>1. Rest /\ worker' = [worker EXCEPT ![w] = r]
    BY <1>7 DEF PhaseFails, Stand, r
  <2>2. /\ Typed' /\ Grows /\ Moves(w) /\ worker'[w] = r
        /\ \A f \in Edges : f # e => targets'[x(w)][f] = targets[x(w)][f]
        /\ targets[x(w)][e].fence = worker[w].fence => targets'[x(w)][e] = row
    BY <1>1, <1>2, <1>3, <1>4, <1>5, <1>6, <2>1, MoveTyped DEF Claimed, Walking
  <2>3. targets[x(w)][e].fence # worker[w].fence => targets'[x(w)][e] = targets[x(w)][e]
    BY <1>2, <2>2 DEF Moves
  <2> QED BY <1>1, <1>3, <1>4, <2>1, <2>2, <2>3 DEF Rest
<1>8. CASE fatal
  <2>1. Fail(w, "failed") /\ UNCHANGED state
    BY <1>8 DEF PhaseFails
  <2>2. /\ worker' = [worker EXCEPT ![w] = Idle]
        /\ lock' \in {lock, NoWorker} /\ queue' \subseteq queue /\ lockLost' = lockLost
    BY <2>1 DEF Fail, EndRun
  <2>3. \/ deployments' = deployments
        \/ /\ deployments[x(w)].status = "running"
           /\ deployments' = [deployments EXCEPT ![x(w)].status = "failed"]
    BY <2>1 DEF Fail, Settled
  <2>4. /\ Ids' = Ids /\ DeploymentsTyped' /\ DeploymentsGrow /\ Len(deployments') = Len(deployments)
        /\ \A i \in Ids : deployments'[i].gen = deployments[i].gen
    <3>1. CASE deployments' = deployments
      <4>1. \A j \in Ids : deployments[j].gen \in Nat /\ deployments[j].release.cert \in Nat
        BY DeploymentFields
      <4>2. Len(deployments) \in Nat
        BY LenProperties DEF Typed, DeploymentsTyped
      <4>3. \A j \in Ids : deployments[j].release.cert <= events'
        BY <1>5, <4>1, EventTyped DEF Typed, DeploymentsTyped
      <4> QED BY <3>1, <4>1, <4>2, <4>3 DEF DeploymentsGrow, DeploymentsTyped, Typed, Ids
    <3>2. CASE /\ deployments[x(w)].status = "running"
               /\ deployments' = [deployments EXCEPT ![x(w)].status = "failed"]
      <4>1. "failed" \in Statuses /\ deployments[x(w)].status \notin Terminal \cup {"pruned"}
        BY <3>2 DEF Statuses, Terminal
      <4> QED BY <1>2, <1>5, <3>2, <4>1, StatusWrites DEF DeploymentsTyped
    <3> QED BY <2>3, <3>1, <3>2
  <2>5. /\ TargetsTyped' /\ PlansStand
        /\ \A j \in Ids : \A f \in Edges :
              /\ targets'[j][f].fence = targets[j][f].fence
              /\ j # x(w) \/ f # e \/ targets[x(w)][e].fence # worker[w].fence
                 => targets'[j][f] = targets[j][f]
        /\ targets[x(w)][e].fence = worker[w].fence => targets'[x(w)][e] = row
    BY <1>1, <1>2, <1>3, <2>4, RowWritten
  <2>6. /\ DOMAIN worker' = Workers /\ worker' = [v \in Workers |-> worker'[v]]
        /\ worker'[w] = Idle
        /\ \A v \in Workers : v # w => worker'[v] = worker[v] /\ Still(v)
    BY <2>2, MovedWorker
  <2>7. WorkerTyped(w)' /\ worker'[w].at = "idle"
    BY <2>6 DEF WorkerTyped, Works, Idle
  <2>8. StateTyped'
    <3>1. canonical \in Inputs /\ canonical.cert <= events /\ canonical.cert \in Nat /\ events \in Nat
      BY EventTyped, FleetAssumption DEF Typed, StateTyped, Inputs
    <3> QED BY <1>5, <1>6, <2>1, <2>2, <3>1 DEF Typed, StateTyped, state
  <2>9. Typed'
    BY <1>5, <2>2, <2>4, <2>5, <2>6, <2>7, <2>8, AllTyped DEF Grows, Typed
  <2>10. Moves(w)
    <3>1. ASSUME NEW i \in Ids, NEW f \in Edges,
                 i # x(w) \/ targets[i][f].fence # worker[w].fence
          PROVE  targets'[i][f] = targets[i][f]
      BY <2>5, <3>1
    <3> QED BY <2>4, <2>5, <2>6, <2>7, <3>1 DEF Moves
  <2>11. \A f \in Edges : /\ targets'[x(w)][f].phase = targets[x(w)][f].phase
                          /\ targets'[x(w)][f] # targets[x(w)][f]
                             => targets'[x(w)][f].status = "failed"
    BY <1>2, <1>3, <2>5
  <2> QED BY <1>1, <2>2, <2>4, <2>5, <2>7, <2>9, <2>10, <2>11 DEF Grows
<1> QED
  BY <1>7, <1>8

LEMMA RecordTyped ==
    ASSUME Typed, NEW w \in Workers, RecordPhase(w), NextPhase(worker[w].phase) \in Phases
    PROVE  /\ Typed' /\ Grows /\ Moves(w)
           /\ UNCHANGED <<deployments, serving, lock, lockLost>>
           /\ worker'[w].at \in {"phase", "stop"}
           /\ worker'[w].seen = worker[w].seen /\ worker'[w].ok = worker[w].ok
           /\ worker'[w].left = worker[w].left /\ worker'[w].edge = worker[w].edge
           /\ worker'[w].phase = NextPhase(worker[w].phase)
           /\ \A f \in Edges :
                 /\ targets'[x(w)][f].status = targets[x(w)][f].status
                 /\ targets'[x(w)][f].phase \in {targets[x(w)][f].phase, NextPhase(worker[w].phase)}
<1> DEFINE e == worker[w].edge
           next == NextPhase(worker[w].phase)
           row == [targets[x(w)][e] EXCEPT !.phase = next]
           at == IF targets[x(w)][e].fence = worker[w].fence THEN "phase" ELSE "stop"
           r == [worker[w] EXCEPT !.phase = next, !.at = at]
<1>1. worker[w].at = "record" /\ Rest /\ UNCHANGED <<serving, events>>
      /\ WriteRow(w, e, row) /\ worker' = [worker EXCEPT ![w] = r]
  BY DEF RecordPhase, Row, Mine, Quiet
<1>2. /\ Works(w) /\ worker[w] \in Run /\ x(w) \in Ids /\ worker[w].id = x(w)
      /\ worker[w].left \subseteq Planned(x(w)) /\ worker[w].seen \in Rows
      /\ e \in worker[w].left /\ e \in Planned(x(w)) /\ targets[x(w)][e] \in Target /\ e \in Edges
      /\ targets[x(w)][e].status # "none"
  BY <1>1, WalkerKnows DEF Walking
<1>3. next \in Phases /\ at \in {"phase", "stop"}
  OBVIOUS
<1> HIDE DEF e, next, at
<1>4. /\ row \in Target /\ row.status = targets[x(w)][e].status /\ row.phase = next
      /\ row.fence = targets[x(w)][e].fence
  BY <1>2, <1>3, RowForms
<1>5. /\ r \in Run /\ r.at = at /\ r.id = x(w) /\ r.seen = worker[w].seen
      /\ r.fence = worker[w].fence /\ r.left = worker[w].left
      /\ r.ok = worker[w].ok /\ r.edge = e /\ r.phase = next
  BY <1>1, <1>2, <1>3 DEF Run, Claimed, Claiming, e
<1>6. events' \in 0..MaxEvents /\ events' \in Nat /\ events <= events'
      /\ serving' \in [Edges -> Surface]
  BY <1>1, EventTyped DEF Typed, StateTyped
<1>7. UNCHANGED <<deployments, serving, lock, lockLost>>
  BY <1>1 DEF Rest
<1> HIDE DEF r, row
<1>8. /\ Typed' /\ Grows /\ Moves(w) /\ worker'[w] = r
      /\ \A f \in Edges : f # e => targets'[x(w)][f] = targets[x(w)][f]
      /\ targets[x(w)][e].fence = worker[w].fence => targets'[x(w)][e] = row
  <2>1. /\ r.at \in Claimed /\ r.left \subseteq worker[w].left
        /\ r.at \in {"phase", "record"} => r.edge \in r.left
        /\ r.at \in Walking => r.seen \in Rows
    BY <1>2, <1>3, <1>5 DEF Claimed, Walking
  <2>2. row.status # "none" /\ row.fence = targets[x(w)][e].fence
    BY <1>2, <1>4
  <2>3. Rest /\ WriteRow(w, e, row) /\ worker' = [worker EXCEPT ![w] = r]
    BY <1>1
  <2> QED BY <1>2, <1>4, <1>5, <1>6, <2>1, <2>2, <2>3, MoveTyped
<1>9. targets[x(w)][e].fence # worker[w].fence => targets'[x(w)][e] = targets[x(w)][e]
  BY <1>2, <1>8 DEF Moves
<1>10. \A f \in Edges : /\ targets'[x(w)][f].status = targets[x(w)][f].status
                        /\ targets'[x(w)][f].phase \in {targets[x(w)][f].phase, next}
  BY <1>4, <1>8, <1>9
<1> QED
  BY <1>3, <1>5, <1>7, <1>8, <1>10 DEF e, next

LEMMA FinishTyped ==
    ASSUME Typed, NEW w \in Workers, FinishEdge(w)
    PROVE  /\ Typed' /\ Grows /\ Moves(w)
           /\ UNCHANGED <<deployments, serving, lock, lockLost>>
           /\ worker'[w].at = "edge"
           /\ worker'[w].seen = worker[w].seen /\ worker'[w].ok = worker[w].ok
           /\ worker'[w].left = worker[w].left \ {worker[w].edge}
           /\ worker[w].phase = LastPhase(deployments[x(w)].check)
           /\ \A f \in Edges : /\ targets'[x(w)][f].phase = targets[x(w)][f].phase
                               /\ f # worker[w].edge => targets'[x(w)][f] = targets[x(w)][f]
                               /\ targets'[x(w)][f].status \in {targets[x(w)][f].status, "succeeded"}
           /\ targets[x(w)][worker[w].edge].fence = worker[w].fence
              => targets'[x(w)][worker[w].edge].status = "succeeded"
<1> DEFINE e == worker[w].edge
           row == [targets[x(w)][e] EXCEPT !.status = "succeeded"]
           r == [worker[w] EXCEPT !.at = "edge", !.left = @ \ {e}]
<1>1. worker[w].at = "phase" /\ Rest /\ UNCHANGED <<serving, events>>
      /\ WriteRow(w, e, row) /\ worker' = [worker EXCEPT ![w] = r]
      /\ worker[w].phase = LastPhase(deployments[x(w)].check)
  BY DEF FinishEdge, Row, Done, Quiet
<1>2. /\ Works(w) /\ worker[w] \in Run /\ x(w) \in Ids /\ worker[w].id = x(w)
      /\ worker[w].left \subseteq Planned(x(w)) /\ worker[w].seen \in Rows
      /\ e \in worker[w].left /\ e \in Planned(x(w)) /\ targets[x(w)][e] \in Target /\ e \in Edges
      /\ targets[x(w)][e].status # "none"
  BY <1>1, WalkerKnows DEF Walking
<1>3. /\ row \in Target /\ row.status = "succeeded" /\ row.phase = targets[x(w)][e].phase
      /\ row.fence = targets[x(w)][e].fence
  BY <1>2, RowForms DEF TargetStatuses
<1> HIDE DEF e
<1>4. /\ r \in Run /\ r.at = "edge" /\ r.id = x(w) /\ r.seen = worker[w].seen
      /\ r.fence = worker[w].fence /\ r.left = worker[w].left \ {e}
      /\ r.ok = worker[w].ok
  BY <1>1, <1>2 DEF Run, Claimed, Claiming
<1>5. events' \in 0..MaxEvents /\ events' \in Nat /\ events <= events'
      /\ serving' \in [Edges -> Surface]
  BY <1>1, EventTyped DEF Typed, StateTyped
<1>6. UNCHANGED <<deployments, serving, lock, lockLost>>
  BY <1>1 DEF Rest
<1> HIDE DEF r, row
<1>7. /\ Typed' /\ Grows /\ Moves(w) /\ worker'[w] = r
      /\ \A f \in Edges : f # e => targets'[x(w)][f] = targets[x(w)][f]
      /\ targets[x(w)][e].fence = worker[w].fence => targets'[x(w)][e] = row
  BY <1>1, <1>2, <1>3, <1>4, <1>5, MoveTyped DEF Claimed, Walking
<1>8. targets[x(w)][e].fence # worker[w].fence => targets'[x(w)][e] = targets[x(w)][e]
  BY <1>2, <1>7 DEF Moves
<1>9. \A f \in Edges : /\ targets'[x(w)][f].phase = targets[x(w)][f].phase
                       /\ targets'[x(w)][f].status \in {targets[x(w)][f].status, "succeeded"}
  BY <1>3, <1>7, <1>8
<1> QED
  BY <1>1, <1>3, <1>4, <1>6, <1>7, <1>9 DEF e

LEMMA StopTyped ==
    ASSUME Typed, NEW w \in Workers, Stop(w)
    PROVE  /\ Typed' /\ Grows /\ Moves(w)
           /\ UNCHANGED <<deployments, serving, lock, lockLost>>
           /\ worker'[w].at = "complete" /\ worker'[w].ok = worker[w].ok
           /\ \A f \in Edges :
                 /\ targets'[x(w)][f].phase = targets[x(w)][f].phase
                 /\ targets'[x(w)][f] # targets[x(w)][f] => targets'[x(w)][f].status = "skipped"
<1> DEFINE i == x(w)
           skips(f) == targets[i][f].status = "pending" /\ targets[i][f].fence = worker[w].fence
           rows == [f \in Edges |-> IF skips(f) THEN [targets[i][f] EXCEPT !.status = "skipped"]
                                    ELSE targets[i][f]]
           r == [worker[w] EXCEPT !.at = "complete"]
<1>1. worker[w].at = "stop" /\ Rest /\ UNCHANGED <<serving, events>>
      /\ targets' = [targets EXCEPT ![i] = rows] /\ worker' = [worker EXCEPT ![w] = r]
  BY DEF Stop, Stand, Quiet
<1>2. /\ Works(w) /\ worker[w] \in Run /\ i \in Ids /\ worker[w].id = i
      /\ worker[w].left \subseteq Planned(i)
  BY <1>1, WorkerKinds DEF Works, Typed, WorkerTyped, x
<1>3. \A f \in Edges : targets[i][f] \in Target
  BY <1>2, RowFields
<1>4. \A f \in Edges : /\ rows[f] \in Target
                       /\ rows[f].phase = targets[i][f].phase
                       /\ rows[f].fence = targets[i][f].fence
                       /\ ~ skips(f) => rows[f] = targets[i][f]
                       /\ skips(f) => rows[f].status = "skipped"
  BY <1>3, RowForms DEF TargetStatuses
<1>5. rows \in Rows
  BY <1>4 DEF Rows
<1>6. \A f \in Edges : rows[f].status = "none" <=> targets[i][f].status = "none"
  BY <1>4
<1>7. \A f \in Edges : targets[i][f].fence # worker[w].fence => rows[f] = targets[i][f]
  BY <1>4
<1>8. \A f \in Edges : rows[f] # targets[i][f] => rows[f].status = "skipped"
  BY <1>4
<1>9. /\ r \in Run /\ r.at = "complete" /\ r.id = i
      /\ r.fence = worker[w].fence /\ r.left = worker[w].left /\ r.ok = worker[w].ok
  BY <1>1, <1>2 DEF Run, Claimed, Claiming
<1> HIDE DEF rows, r, i
<1>10. UNCHANGED <<state, deployments, queue, lock, lockLost>> /\ Len(deployments') = Len(deployments)
  BY <1>1 DEF Rest
<1>11. /\ TargetsTyped' /\ PlansStand
       /\ \A j \in Ids : targets'[j] = IF j = i THEN rows ELSE targets[j]
  BY <1>1, <1>2, <1>5, <1>6, <1>10, RowsReplaced
<1>12. Ids' = Ids /\ DeploymentsTyped' /\ DeploymentsGrow
  <2>1. \A j \in Ids : deployments[j].gen \in Nat
    BY DeploymentFields
  <2>2. Len(deployments) \in Nat
    BY LenProperties DEF Typed, DeploymentsTyped
  <2> QED BY <1>1, <1>10, <2>1, <2>2 DEF DeploymentsGrow, DeploymentsTyped, Typed, Ids
<1>13. events' \in 0..MaxEvents /\ events' \in Nat /\ events <= events'
       /\ serving' \in [Edges -> Surface]
  BY <1>1, EventTyped DEF Typed, StateTyped
<1>14. Typed' /\ worker'[w] = r /\ \A v \in Workers : v # w => worker'[v] = worker[v]
  <2>1. r.id \in Ids /\ r.left \subseteq Planned(r.id) /\ r.at \notin Walking
        /\ r.at \notin {"phase", "record"} /\ Grows
    BY <1>2, <1>9, <1>11, <1>12 DEF Grows, Walking
  <2> QED BY <1>1, <1>9, <1>10, <1>11, <1>12, <1>13, <2>1, WalkTyped
<1>15. Moves(w)
  BY <1>4, <1>7, <1>9, <1>10, <1>11, <1>12, <1>14 DEF Moves, i, Claimed
<1> QED
  BY <1>1, <1>2, <1>4, <1>8, <1>9, <1>10, <1>11, <1>12, <1>14, <1>15 DEF i, Grows

LEMMA WalkedTyped ==
    ASSUME Typed, NEW w \in Workers, WalkedAll(w)
    PROVE  /\ Typed' /\ Grows /\ Moves(w)
           /\ UNCHANGED <<deployments, targets, serving, lock, lockLost>>
           /\ worker'[w].at = "complete" /\ worker[w].at = "edge" /\ worker[w].left = {}
           /\ worker'[w].ok => \A e \in Planned(x(w)) : targets[x(w)][e].status = "succeeded"
           /\ worker'[w].seen = worker[w].seen
<1> DEFINE all == \A e \in Planned(x(w)) : targets[x(w)][e].status = "succeeded"
           r == [worker[w] EXCEPT !.at = "complete", !.ok = all]
<1>1. worker[w].at = "edge" /\ worker[w].left = {} /\ Rest /\ UNCHANGED <<serving, events, targets>>
      /\ worker' = [worker EXCEPT ![w] = r]
  BY DEF WalkedAll, Quiet
<1>2. /\ Works(w) /\ worker[w] \in Run /\ x(w) \in Ids /\ worker[w].id = x(w)
  BY <1>1, WalkerKnows DEF Walking
<1>3. all \in BOOLEAN
  OBVIOUS
<1> HIDE DEF all
<1>4. /\ r \in Run /\ r.at = "complete" /\ r.id = x(w) /\ r.seen = worker[w].seen
      /\ r.fence = worker[w].fence /\ r.left = {}
  BY <1>1, <1>2, <1>3 DEF Run, Claimed, Claiming
<1>5. r.ok = all
  BY <1>2 DEF Run
<1> HIDE DEF r
<1>6. UNCHANGED <<state, deployments, queue, lock, lockLost>> /\ UNCHANGED <<targets, serving, events>>
  BY <1>1 DEF Rest
<1>7. Grows /\ DeploymentsTyped' /\ TargetsTyped' /\ Ids' = Ids
  BY <1>6, EventTyped, NothingGrows
<1>8. events' \in 0..MaxEvents /\ events' \in Nat /\ events <= events'
      /\ serving' \in [Edges -> Surface]
  BY <1>1, EventTyped DEF Typed, StateTyped
<1>9. Typed' /\ worker'[w] = r /\ \A v \in Workers : v # w => worker'[v] = worker[v]
  <2>1. r.id \in Ids /\ r.left \subseteq Planned(r.id) /\ r.at \notin Walking
        /\ r.at \notin {"phase", "record"}
    BY <1>2, <1>4 DEF Walking
  <2> QED BY <1>1, <1>4, <1>6, <1>7, <1>8, <2>1, WalkTyped
<1>10. Moves(w)
  BY <1>4, <1>6, <1>7, <1>9 DEF Moves, Claimed
<1> QED
  BY <1>1, <1>4, <1>5, <1>6, <1>7, <1>9, <1>10 DEF all

-----------------------------------------------------------------------------
(* The steps, sorted.                                                      *)

\* What is asked for takes the lock.
LEMMA Requested ==
    ASSUME Typed, NEW w \in Workers,
           \/ /\ Len(deployments) < MaxDeployments
              /\ \E r \in Requests[Len(deployments) + 1] :
                    \/ Deploy(w, r.fg, r.check, r.limit)
                    \/ \E i \in Ids : r.limit = 0 /\ Rollback(w, r.fg, r.check, i)
           \/ ConvergeRequirement(w)
    PROVE  \E r : Asked(r) /\ Hold(w, r)
<1>1. CASE ConvergeRequirement(w)
  <2>1. FALSE \in BOOLEAN /\ 0 \in Nat
    OBVIOUS
  <2>2. Asked(Forward(FALSE, FALSE, 0))
    BY <2>1, RequestsTyped
  <2>3. Hold(w, Forward(FALSE, FALSE, 0))
    BY <1>1 DEF ConvergeRequirement
  <2> QED BY <2>2, <2>3
<1>2. CASE /\ Len(deployments) < MaxDeployments
           /\ \E r \in Requests[Len(deployments) + 1] :
                    \/ Deploy(w, r.fg, r.check, r.limit)
                    \/ \E i \in Ids : r.limit = 0 /\ Rollback(w, r.fg, r.check, i)
  <2>1. Len(deployments) + 1 \in 1..MaxDeployments
    BY <1>2, LenProperties, FleetAssumption DEF Typed, DeploymentsTyped
  <2>2. PICK r \in Requests[Len(deployments) + 1] :
                    \/ Deploy(w, r.fg, r.check, r.limit)
                    \/ \E i \in Ids : r.limit = 0 /\ Rollback(w, r.fg, r.check, i)
    BY <1>2
  <2>3. r \in [fg : BOOLEAN, check : BOOLEAN, limit : Edges \cup {0}]
    BY <2>1, <2>2, FleetAssumption
  <2>4. r.fg \in BOOLEAN /\ r.check \in BOOLEAN /\ r.limit \in Nat
    <3>1. r.fg \in BOOLEAN /\ r.check \in BOOLEAN /\ r.limit \in Edges \cup {0}
      BY <2>3
    <3>2. \A n \in Edges \cup {0} : n \in Nat
      BY FleetAssumption
    <3>3. r.limit \in Nat
      BY <3>1, <3>2, Zenon
    <3> QED BY <3>1, <3>3, Zenon
  <2>5. CASE Deploy(w, r.fg, r.check, r.limit)
    <3>1. Asked(Forward(r.fg, r.check, r.limit))
      BY <2>4, RequestsTyped
    <3>2. Hold(w, Forward(r.fg, r.check, r.limit))
      BY <2>5 DEF Deploy
    <3> QED BY <3>1, <3>2
  <2>6. CASE \E i \in Ids : r.limit = 0 /\ Rollback(w, r.fg, r.check, i)
    <3>1. PICK i \in Ids : Hold(w, Backward(r.fg, r.check, i))
      BY <2>6 DEF Rollback
    <3>2. Asked(Backward(r.fg, r.check, i))
      BY <2>4, RequestsTyped
    <3> QED BY <3>1, <3>2
  <2> QED BY <2>2, <2>5, <2>6
<1> QED
  BY <1>1, <1>2

LEMMA RequestTyped ==
    ASSUME Typed, NEW w \in Workers,
           \/ /\ Len(deployments) < MaxDeployments
              /\ \E r \in Requests[Len(deployments) + 1] :
                    \/ Deploy(w, r.fg, r.check, r.limit)
                    \/ \E i \in Ids : r.limit = 0 /\ Rollback(w, r.fg, r.check, i)
           \/ ConvergeRequirement(w)
    PROVE  Typed' /\ Grows /\ Aside
  BY Requested, HoldTyped DEF Asked

\* The steps of a rollout past its start.
Advances(w) ==
    \/ Claim(w) \/ Plan(w) \/ Reobserve(w) \/ BeginEdge(w) \/ RunPhase(w)
    \/ \E fatal \in BOOLEAN : PhaseFails(w, fatal)
    \/ RecordPhase(w) \/ FinishEdge(w) \/ Stop(w) \/ WalkedAll(w)

LEMMA OutsideAside ==
    ASSUME Typed, Outside
    PROVE  Typed' /\ Grows /\ Aside
<1>1. Typed' /\ Grows /\ worker' = worker /\ UNCHANGED records
  BY OutsideTyped
<1>2. Ids' = Ids /\ \A v \in Workers : Still(v)
  BY <1>1 DEF records, Ids, Still
<1> QED
  BY <1>1, <1>2 DEF Aside, records

LEMMA ActsAside ==
    ASSUME Typed, NEW w \in Workers, Act(w), ~ Advances(w)
    PROVE  Typed' /\ Grows /\ Aside
<1>1. CASE \/ /\ Len(deployments) < MaxDeployments
              /\ \E r \in Requests[Len(deployments) + 1] :
                  \/ Deploy(w, r.fg, r.check, r.limit)
                  \/ \E i \in Ids : r.limit = 0 /\ Rollback(w, r.fg, r.check, i)
           \/ ConvergeRequirement(w)
  BY <1>1, RequestTyped
<1>2. CASE \E i \in queue : Deliver(w, i) \/ DeliverFinished(w, i)
  BY <1>2, DeliverTyped
<1>3. CASE Initialize(w)
  BY <1>3, InitializeTyped
<1>4. CASE Interrupt(w) \/ Crash(w)
  BY <1>4, MishapTyped
<1>5. CASE Admit(w)
  BY <1>5, AdmitTyped
<1>6. CASE Start(w)
  BY <1>6, StartTyped
<1>7. CASE Complete(w)
  BY <1>7, CompleteTyped
<1> QED BY <1>1, <1>2, <1>3, <1>4, <1>5, <1>6, <1>7, Zenon DEF Act, Converge, Advances

LEMMA Sorted ==
    ASSUME Typed, FleetNext
    PROVE  \/ Typed' /\ Grows /\ Aside
           \/ \E w \in Workers : Advances(w)
  BY OutsideAside, ActsAside DEF FleetNext, Outside

-----------------------------------------------------------------------------
(* A check stages, and goes no further.                                    *)

Staged == {"none", "stage"}
PhasedRows(i) == deployments[i].check => \A e \in Edges : targets[i][e].phase \in Staged
PhasedWorker(w) ==
    worker[w].at \in Walking =>
       /\ deployments[x(w)].check =>
             /\ \A e \in Edges : worker[w].seen[e].phase \in Staged
             /\ worker[w].at = "phase" => worker[w].phase \in Staged
             /\ worker[w].at = "record" => worker[w].phase = "none"
       /\ worker[w].at = "record" => NextPhase(worker[w].phase) \in Phases
Phased ==
    /\ \A i \in Ids : PhasedRows(i)
    /\ \A w \in Workers : PhasedWorker(w)

LEMMA PhasedAside ==
    ASSUME Typed, Phased, Typed', Grows, Aside
    PROVE  Phased'
<1>1. ASSUME NEW i \in Ids' PROVE PhasedRows(i)'
  <2>1. CASE i \in Ids
    BY <2>1 DEF Phased, PhasedRows, Aside, Grows, DeploymentsGrow
  <2>2. CASE i \notin Ids
    BY <1>1, <2>2 DEF PhasedRows, Aside, Staged
  <2> QED BY <2>1, <2>2
<1>2. ASSUME NEW v \in Workers PROVE PhasedWorker(v)'
  <2>1. CASE worker'[v].at \in Fresh
    BY <2>1 DEF PhasedWorker, Fresh, Walking, Claiming
  <2>2. CASE Still(v) /\ worker[v].at \in Walking
    <3>1. /\ Works(v) /\ x(v) \in Ids /\ WorkerTyped(v)
      BY <2>2, WalkerKnows DEF Typed
    <3>2. /\ worker'[v].at = worker[v].at
          /\ worker'[v].id = worker[v].id
          /\ worker'[v].seen = worker[v].seen
          /\ worker'[v].phase = worker[v].phase
      BY <2>2, <3>1, StillRemembers
    <3>3. deployments'[x(v)].check = deployments[x(v)].check
      BY <3>1 DEF Grows, DeploymentsGrow
    <3>4. PhasedWorker(v)
      BY DEF Phased
    <3> QED BY <2>2, <3>2, <3>3, <3>4 DEF PhasedWorker, x
  <2>3. CASE Still(v) /\ worker[v].at \notin Walking
    <3>1. worker'[v].at = worker[v].at
      BY <2>3, StillRemembers DEF Typed
    <3> QED BY <2>3, <3>1 DEF PhasedWorker
  <2> QED BY <2>1, <2>2, <2>3 DEF Aside
<1> QED
  BY <1>1, <1>2 DEF Phased

\* What a step of one worker owes to keep it so.
LEMMA PhasedMoves ==
    ASSUME Typed, Phased, Grows, NEW w \in Workers, x(w) \in Ids, Ids' = Ids,
           \A v \in Workers : v # w => worker'[v] = worker[v],
           \A i \in Ids : i # x(w) => \A e \in Edges : targets'[i][e] = targets[i][e],
           deployments[x(w)].check => \A e \in Edges : targets'[x(w)][e].phase \in Staged,
           worker'[w].at \notin Walking \/ worker'[w].id = x(w),
           worker'[w].at \in Walking =>
              /\ deployments[x(w)].check =>
                 /\ \A e \in Edges : worker'[w].seen[e].phase \in Staged
                 /\ worker'[w].at = "phase" => worker'[w].phase \in Staged
                 /\ worker'[w].at = "record" => worker'[w].phase = "none"
              /\ worker'[w].at = "record" => NextPhase(worker'[w].phase) \in Phases
    PROVE  Phased'
<1>1. \A i \in Ids : deployments'[i].check = deployments[i].check
  BY DEF Grows, DeploymentsGrow
<1>2. ASSUME NEW i \in Ids PROVE PhasedRows(i)'
  BY <1>1, <1>2 DEF Phased, PhasedRows
<1>3. ASSUME NEW v \in Workers, v # w PROVE PhasedWorker(v)'
  <2>1. CASE worker[v].at \in Walking
    <3>1. x(v) \in Ids /\ PhasedWorker(v)
      BY <2>1, WalkerKnows DEF Phased
    <3> QED BY <1>1, <1>3, <2>1, <3>1 DEF PhasedWorker, x
  <2>2. CASE worker[v].at \notin Walking
    BY <1>3, <2>2 DEF PhasedWorker
  <2> QED BY <2>1, <2>2
<1>4. PhasedWorker(w)'
  BY <1>1 DEF PhasedWorker, x, NextPhase
<1> QED
  BY <1>2, <1>3, <1>4 DEF Phased

LEMMA PhasedAdvances ==
    ASSUME Typed, Phased, NEW w \in Workers, Advances(w)
    PROVE  Typed' /\ Grows /\ Phased'
<1> DEFINE i == x(w)
<1>1. CASE Claim(w)
  <2>1. Typed' /\ Grows
    BY <1>1, ClaimTyped
  <2>2. x(w) \in Ids
    BY <1>1 DEF Claim, Works, Typed, WorkerTyped
  <2>3. PhasedRows(x(w))
    BY <2>2 DEF Phased
  <2>4. CASE Aside
    BY <2>1, <2>4, PhasedAside
  <2>5. CASE ~ Aside
    <3>1. /\ Ids' = Ids /\ worker'[w].at = "plan"
          /\ \A v \in Workers : v # w => worker'[v] = worker[v]
          /\ \A j \in Ids : j # x(w) => targets'[j] = targets[j]
          /\ \A e \in Edges : targets'[x(w)][e].phase = targets[x(w)][e].phase
      BY <1>1, <2>5, ClaimTyped
    <3> QED BY <2>1, <2>2, <2>3, <3>1, PhasedMoves DEF Walking, PhasedRows
  <2> QED BY <2>1, <2>4, <2>5
<1>2. CASE Plan(w)
  <2>1. Typed' /\ Grows
    BY <1>2, PlanTyped
  <2>2. x(w) \in Ids
    BY <1>2 DEF Plan, Works, Typed, WorkerTyped
  <2>3. PhasedRows(x(w))
    BY <2>2 DEF Phased
  <2>4. CASE Aside
    BY <2>1, <2>4, PhasedAside
  <2>5. CASE ~ Aside
    <3>1. /\ Ids' = Ids /\ worker'[w].at = "edge" /\ worker'[w].id = x(w)
          /\ worker'[w].seen = targets[x(w)]
          /\ \A v \in Workers : v # w => worker'[v] = worker[v]
          /\ \A j \in Ids : j # x(w) => targets'[j] = targets[j]
          /\ \A e \in Edges : targets'[x(w)][e].phase = targets[x(w)][e].phase
      BY <1>2, <2>5, PlanTyped
    <3> QED BY <2>1, <2>2, <2>3, <3>1, PhasedMoves DEF Walking, PhasedRows
  <2> QED BY <2>1, <2>4, <2>5
<1>3. CASE ~ Claim(w) /\ ~ Plan(w)
  <2>1. worker[w].at \in Walking \cup {"stop"}
    BY <1>3 DEF Advances, Reobserve, BeginEdge, RunPhase, PhaseFails, RecordPhase, FinishEdge,
                Stop, WalkedAll, Walking
  <2>2. Works(w) /\ x(w) \in Ids /\ WorkerTyped(w) /\ worker[w] \in Run
    BY <2>1, WorkerKinds DEF Works, Typed, WorkerTyped, Walking
  <2>3. PhasedRows(x(w)) /\ PhasedWorker(w)
    BY <2>2 DEF Phased
  <2>4. deployments[x(w)].check \in BOOLEAN
    <3>1. deployments[x(w)] \in Deployment
      BY <2>2, DeploymentFields
    <3> QED BY <3>1 DEF Deployment
  <2> DEFINE Owed ==
        /\ deployments[x(w)].check => \A e \in Edges : targets'[x(w)][e].phase \in Staged
        /\ worker'[w].at \in Walking =>
              /\ deployments[x(w)].check =>
                 /\ \A e \in Edges : worker'[w].seen[e].phase \in Staged
                 /\ worker'[w].at = "phase" => worker'[w].phase \in Staged
                 /\ worker'[w].at = "record" => worker'[w].phase = "none"
              /\ worker'[w].at = "record" => NextPhase(worker'[w].phase) \in Phases
  <2>5. ASSUME Typed', Grows, Moves(w), Owed PROVE Phased'
    <3>1. \A j \in Ids : j # x(w) => \A e \in Edges : targets'[j][e] = targets[j][e]
      BY <2>5 DEF Moves
    <3>2. worker'[w].at \notin Walking \/ worker'[w].id = x(w)
      BY <2>5 DEF Moves, Walking
    <3>3. \A v \in Workers : v # w => worker'[v] = worker[v]
      BY <2>5 DEF Moves
    <3>4. Ids' = Ids
      BY <2>5 DEF Moves
    <3> QED BY <2>2, <2>5, <3>1, <3>2, <3>3, <3>4, PhasedMoves
  <2>6. CASE Reobserve(w)
    <3>1. /\ Typed' /\ Grows /\ Moves(w)
          /\ \A e \in Edges : targets'[x(w)][e].phase = targets[x(w)][e].phase
          /\ worker'[w].seen = worker[w].seen
      BY <2>6, ReobserveTyped
    <3>2. worker'[w].at \in {"stop", "edge"} /\ worker[w].at = "edge"
      <4>1. worker'[w].at \in {"stop", "edge"}
        BY <2>6, ReobserveTyped
      <4> QED BY <2>6, <4>1 DEF Reobserve
    <3>3. Owed
      BY <2>3, <3>1, <3>2 DEF PhasedRows, PhasedWorker, Walking
    <3> QED BY <2>5, <3>1, <3>3
  <2>7. CASE BeginEdge(w)
    <3>1. /\ Typed' /\ Grows /\ Moves(w)
          /\ \A e \in Edges : targets'[x(w)][e].phase = targets[x(w)][e].phase
          /\ worker'[w].seen = worker[w].seen /\ worker'[w].at \in {"stop", "phase"}
          /\ worker'[w].phase = worker[w].seen[NextEdge(w)].phase
          /\ worker[w].at = "edge" /\ worker[w].left # {}
      BY <2>7, BeginTyped DEF BeginEdge
    <3>2. NextEdge(w) \in Edges
      BY <3>1, WalkerKnows DEF Walking
    <3>3. Owed
      BY <2>3, <3>1, <3>2 DEF PhasedRows, PhasedWorker, Walking
    <3> QED BY <2>5, <3>1, <3>3
  <2>8. CASE RunPhase(w)
    <3>0. worker[w].at = "phase" /\ worker[w].phase # LastPhase(deployments[x(w)].check)
      BY <2>8 DEF RunPhase
    <3>1. deployments[x(w)].check => worker[w].phase \in Staged /\ worker[w].phase = "none"
      BY <2>3, <3>0 DEF PhasedWorker, Walking, Staged, LastPhase
    <3>2. /\ Typed' /\ Grows /\ Moves(w) /\ targets' = targets
          /\ worker'[w].at = "record" /\ worker'[w].seen = worker[w].seen
          /\ worker'[w].phase = worker[w].phase
          /\ NextPhase(worker[w].phase) \in Phases
      BY <2>8, <3>1, RunPhaseTyped DEF Staged
    <3>3. Owed
      BY <2>3, <3>0, <3>1, <3>2 DEF PhasedRows, PhasedWorker, Walking
    <3> QED BY <2>5, <3>2, <3>3
  <2>9. CASE \E fatal \in BOOLEAN : PhaseFails(w, fatal)
    <3>1. /\ Typed' /\ Grows /\ Moves(w)
          /\ \A e \in Edges : targets'[x(w)][e].phase = targets[x(w)][e].phase
          /\ worker'[w].at \in {"stop", "idle"}
      BY <2>9, PhaseFailsTyped
    <3>2. Owed
      BY <2>3, <3>1 DEF PhasedRows, Walking
    <3> QED BY <2>5, <3>1, <3>2
  <2>10. CASE RecordPhase(w)
    <3>0. worker[w].at = "record" /\ NextPhase(worker[w].phase) \in Phases
      BY <2>3, <2>10 DEF RecordPhase, PhasedWorker, Walking
    <3>1. deployments[x(w)].check => NextPhase(worker[w].phase) = "stage"
      BY <2>3, <3>0 DEF PhasedWorker, Walking, NextPhase
    <3>2. /\ Typed' /\ Grows /\ Moves(w)
          /\ worker'[w].at \in {"phase", "stop"} /\ worker'[w].seen = worker[w].seen
          /\ worker'[w].phase = NextPhase(worker[w].phase)
          /\ \A f \in Edges : targets'[x(w)][f].phase
                              \in {targets[x(w)][f].phase, NextPhase(worker[w].phase)}
      BY <2>10, <3>0, RecordTyped
    <3>3. Owed
      BY <2>3, <3>0, <3>1, <3>2 DEF PhasedRows, PhasedWorker, Walking, Staged
    <3> QED BY <2>5, <3>2, <3>3
  <2>11. CASE FinishEdge(w)
    <3>1. /\ Typed' /\ Grows /\ Moves(w)
          /\ \A e \in Edges : targets'[x(w)][e].phase = targets[x(w)][e].phase
          /\ worker'[w].seen = worker[w].seen /\ worker'[w].at = "edge"
          /\ worker[w].at = "phase"
      BY <2>11, FinishTyped DEF FinishEdge
    <3>2. Owed
      BY <2>3, <3>1 DEF PhasedRows, PhasedWorker, Walking
    <3> QED BY <2>5, <3>1, <3>2
  <2>12. CASE Stop(w)
    <3>1. /\ Typed' /\ Grows /\ Moves(w)
          /\ \A e \in Edges : targets'[x(w)][e].phase = targets[x(w)][e].phase
          /\ worker'[w].at = "complete"
      BY <2>12, StopTyped
    <3>2. Owed
      BY <2>3, <3>1 DEF PhasedRows, Walking
    <3> QED BY <2>5, <3>1, <3>2
  <2>13. CASE WalkedAll(w)
    <3>1. Typed' /\ Grows /\ Moves(w) /\ targets' = targets /\ worker'[w].at = "complete"
      BY <2>13, WalkedTyped
    <3>2. Owed
      BY <2>3, <3>1 DEF PhasedRows, Walking
    <3> QED BY <2>5, <3>1, <3>2
  <2> HIDE DEF Owed
  <2> QED BY <1>3, <2>6, <2>7, <2>8, <2>9, <2>10, <2>11, <2>12, <2>13 DEF Advances
<1> QED
  BY <1>1, <1>2, <1>3

\* Past the plan, a rollout moves under its fence.
LEMMA MovesUnderFence ==
    ASSUME Typed, Phased, NEW w \in Workers, Advances(w), ~ Claim(w), ~ Plan(w)
    PROVE  Moves(w)
<1>1. CASE RunPhase(w)
  <2>1. worker[w].at = "phase" /\ worker[w].at \in Walking
    BY <1>1 DEF RunPhase, Walking
  <2>2. PhasedWorker(w)
    BY DEF Phased
  <2> QED BY <1>1, <2>1, <2>2, RunPhaseTyped DEF PhasedWorker, Staged
<1>2. CASE RecordPhase(w)
  <2>1. worker[w].at = "record" /\ worker[w].at \in Walking
    BY <1>2 DEF RecordPhase, Walking
  <2>2. PhasedWorker(w)
    BY DEF Phased
  <2> QED BY <1>2, <2>1, <2>2, RecordTyped DEF PhasedWorker
<1> QED
  BY <1>1, <1>2, ReobserveTyped, BeginTyped, PhaseFailsTyped, FinishTyped, StopTyped, WalkedTyped
     DEF Advances

LEMMA TypedStep ==
    ASSUME Typed, Phased, [FleetNext]_fleet
    PROVE  Typed' /\ Phased' /\ Grows
<1>1. CASE FleetNext
  BY <1>1, Sorted, PhasedAside, PhasedAdvances
<1>2. CASE UNCHANGED fleet
  <2>1. events \in Nat /\ events <= events /\ events' = events
    BY <1>2, EventTyped DEF fleet
  <2>2. Grows
    BY <1>2, <2>1, NothingGrows DEF fleet, records
  <2>3. Typed' /\ Phased'
    BY <1>2 DEF fleet, state, records, Typed, Phased, StateTyped, DeploymentsTyped, TargetsTyped,
                WorkerTyped, PhasedRows, PhasedWorker, Ids, x, Works, Planned
  <2> QED BY <2>2, <2>3
<1> QED
  BY <1>1, <1>2

-----------------------------------------------------------------------------
(* The fence.                                                              *)

\* Every row carries the generation of its deployment; no claim is ahead of it,
\* and no two claims share one.
HasClaim(w) == worker[w].at \in Claimed
Fenced ==
    /\ \A i \in Ids : \A e \in Edges : targets[i][e].fence = deployments[i].gen
    /\ \A w \in Workers : HasClaim(w) => worker[w].fence <= deployments[x(w)].gen
    /\ \A v, w \in Workers :
          v # w /\ HasClaim(v) /\ HasClaim(w) /\ x(v) = x(w) => worker[v].fence # worker[w].fence

LEMMA ClaimFields ==
    ASSUME Typed, NEW w \in Workers, HasClaim(w)
    PROVE  /\ Works(w) /\ x(w) \in Ids /\ worker[w].fence \in Nat
           /\ worker[w].id = x(w) /\ WorkerTyped(w)
<1>1. Works(w) /\ worker[w] \in Run
  BY WorkerKinds DEF HasClaim, Claimed, Works, Typed
<1> QED
  BY <1>1 DEF Typed, WorkerTyped, Run, x

LEMMA FencedAside ==
    ASSUME Typed, Fenced, Grows, Aside
    PROVE  Fenced'
<1>1. ASSUME NEW i \in Ids', NEW e \in Edges PROVE targets'[i][e].fence = deployments'[i].gen
  BY <1>1 DEF Aside, Fenced
<1>2. ASSUME NEW v \in Workers, HasClaim(v)'
      PROVE  /\ HasClaim(v) /\ x(v) \in Ids
             /\ worker'[v].id = x(v) /\ worker'[v].fence = worker[v].fence
  <2>1. Still(v)
    BY <1>2 DEF Aside, HasClaim, Fresh, Claimed, Claiming
  <2>2. WorkerTyped(v) /\ worker'[v].at = worker[v].at
    BY <2>1, StillRemembers DEF Typed
  <2>3. HasClaim(v)
    BY <1>2, <2>2 DEF HasClaim
  <2>4. Works(v) /\ x(v) \in Ids /\ worker[v].id = x(v)
    BY <2>3, ClaimFields
  <2> QED BY <2>1, <2>2, <2>3, <2>4, StillRemembers
<1>3. ASSUME NEW v \in Workers, HasClaim(v)'
      PROVE  worker'[v].fence <= deployments'[x(v)'].gen
  BY <1>2, <1>3 DEF Aside, Fenced, x
<1>4. ASSUME NEW v \in Workers, NEW w \in Workers, v # w, HasClaim(v)', HasClaim(w)',
             x(v)' = x(w)'
      PROVE  worker'[v].fence # worker'[w].fence
  BY <1>2, <1>4 DEF Fenced, x
<1> QED
  BY <1>1, <1>3, <1>4 DEF Fenced, x

\* A step that gives one worker another generation, or leaves it its own.
LEMMA FencedAdvances ==
    ASSUME Typed, Phased, Fenced, NEW w \in Workers, Advances(w)
    PROVE  Fenced'
<1>0. Typed' /\ Grows
  BY PhasedAdvances
<1>1. CASE Claim(w) /\ ~ Aside
  <2> DEFINE fence == deployments[x(w)].gen + 1
  <2>1. /\ Ids' = Ids
        /\ worker'[w].at = "plan" /\ worker'[w].id = x(w) /\ worker'[w].fence = fence
        /\ \A v \in Workers : v # w => worker'[v] = worker[v]
        /\ deployments'[x(w)].gen = fence
        /\ \A i \in Ids : i # x(w) => /\ deployments'[i].gen = deployments[i].gen
                                      /\ targets'[i] = targets[i]
        /\ \A e \in Edges : targets'[x(w)][e].fence = fence
    BY <1>1, ClaimTyped
  <2>2. x(w) \in Ids /\ deployments[x(w)].gen \in Nat
    <3>1. x(w) \in Ids
      BY <1>1 DEF Claim, Works, Typed, WorkerTyped
    <3> QED BY <3>1, DeploymentFields
  <2>3. fence \in Nat /\ deployments[x(w)].gen < fence
    BY <2>2
  <2> HIDE DEF fence
  <2>4. \A i \in Ids : \A e \in Edges : targets'[i][e].fence = deployments'[i].gen
    BY <2>1 DEF Fenced
  <2>5. ASSUME NEW v \in Workers, v # w, HasClaim(v)'
        PROVE  /\ HasClaim(v) /\ worker'[v] = worker[v] /\ worker[v].id = x(v) /\ x(v) \in Ids
               /\ x(v) = x(w) => worker[v].fence < fence
               /\ worker[v].fence <= deployments'[x(v)].gen
    <3>1. HasClaim(v) /\ worker'[v] = worker[v]
      BY <2>1, <2>5 DEF HasClaim
    <3>2. x(v) \in Ids /\ worker[v].fence \in Nat /\ worker[v].id = x(v)
      BY <3>1, ClaimFields
    <3>3. worker[v].fence <= deployments[x(v)].gen
      BY <3>1 DEF Fenced
    <3>4. CASE x(v) = x(w)
      BY <2>1, <2>2, <2>3, <3>1, <3>2, <3>3, <3>4
    <3>5. CASE x(v) # x(w)
      BY <2>1, <3>1, <3>2, <3>3, <3>5
    <3> QED BY <3>4, <3>5
  <2>6. \A v \in Workers : HasClaim(v)' => worker'[v].fence <= deployments'[x(v)'].gen
    BY <2>1, <2>3, <2>5 DEF x
  <2>7. ASSUME NEW u \in Workers, NEW v \in Workers, u # v, HasClaim(u)', HasClaim(v)',
               x(u)' = x(v)'
        PROVE  worker'[u].fence # worker'[v].fence
    <3>1. CASE u # w /\ v # w
      BY <2>5, <2>7, <3>1 DEF Fenced, x
    <3>2. CASE u = w
      <4>1. worker[v].fence < fence /\ worker[v].fence \in Nat /\ worker'[v] = worker[v]
        BY <2>1, <2>5, <2>7, <3>2, ClaimFields DEF x
      <4> QED BY <2>1, <2>3, <3>2, <4>1
    <3>3. CASE v = w
      <4>1. worker[u].fence < fence /\ worker[u].fence \in Nat /\ worker'[u] = worker[u]
        BY <2>1, <2>5, <2>7, <3>3, ClaimFields DEF x
      <4> QED BY <2>1, <2>3, <3>3, <4>1
    <3> QED BY <3>1, <3>2, <3>3
  <2> QED BY <2>1, <2>4, <2>6, <2>7 DEF Fenced, x
<1>2. ASSUME /\ Ids' = Ids
             /\ \A i \in Ids : /\ deployments'[i].gen = deployments[i].gen
                               /\ \A e \in Edges : targets'[i][e].fence = targets[i][e].fence
             /\ HasClaim(w)
             /\ \A v \in Workers : v # w => worker'[v] = worker[v]
             /\ HasClaim(w)' => worker'[w].id = x(w) /\ worker'[w].fence = worker[w].fence
      PROVE  Fenced'
  <2>1. \A i \in Ids : \A e \in Edges : targets'[i][e].fence = deployments'[i].gen
    BY <1>2 DEF Fenced
  <2>2. ASSUME NEW v \in Workers, HasClaim(v)'
        PROVE  /\ HasClaim(v) /\ worker'[v].id = x(v) /\ worker'[v].fence = worker[v].fence
               /\ x(v) \in Ids
    <3>1. HasClaim(v) /\ worker'[v].fence = worker[v].fence
      BY <1>2, <2>2 DEF HasClaim
    <3> QED BY <1>2, <2>2, <3>1, ClaimFields
  <2>3. \A v \in Workers : HasClaim(v)' => worker'[v].fence <= deployments'[x(v)'].gen
    BY <1>2, <2>2 DEF Fenced, x
  <2>4. \A u, v \in Workers : u # v /\ HasClaim(u)' /\ HasClaim(v)' /\ x(u)' = x(v)'
           => worker'[u].fence # worker'[v].fence
    BY <2>2 DEF Fenced, x
  <2> QED BY <1>2, <2>1, <2>3, <2>4 DEF Fenced, x
<1>3. CASE Plan(w) /\ ~ Aside
  <2>1. /\ Ids' = Ids /\ deployments' = deployments
        /\ deployments[x(w)].gen = worker[w].fence
        /\ worker'[w].id = x(w) /\ worker'[w].fence = worker[w].fence
        /\ \A v \in Workers : v # w => worker'[v] = worker[v]
        /\ \A i \in Ids : i # x(w) => targets'[i] = targets[i]
        /\ \A e \in Edges : targets'[x(w)][e].fence = worker[w].fence
    BY <1>3, PlanTyped
  <2>2. HasClaim(w)
    BY <1>3 DEF Plan, HasClaim, Claimed
  <2>3. \A i \in Ids : \A e \in Edges : targets'[i][e].fence = targets[i][e].fence
    <3>1. x(w) \in Ids
      BY <2>2, ClaimFields
    <3> QED BY <2>1, <3>1 DEF Fenced
  <2> QED BY <1>2, <2>1, <2>2, <2>3
<1>4. CASE ~ Claim(w) /\ ~ Plan(w)
  <2>1. HasClaim(w)
    BY <1>4 DEF Advances, Reobserve, BeginEdge, RunPhase, PhaseFails, RecordPhase, FinishEdge,
                Stop, WalkedAll, HasClaim, Claimed
  <2>2. Moves(w)
    BY <1>4, MovesUnderFence
  <2> QED BY <1>2, <2>1, <2>2 DEF Moves, HasClaim, Claimed
<1> QED
  BY <1>0, <1>1, <1>3, <1>4, FencedAside

-----------------------------------------------------------------------------
(* The walk.  Under a current claim, the edges passed have succeeded, and  *)
(* the rows of those ahead are still as they were read.                    *)

Current(w) == HasClaim(w) /\ worker[w].fence = deployments[x(w)].gen
Ordered(w) ==
    worker[w].at \in Walking /\ Current(w) =>
       /\ \A f \in Planned(x(w)) \ worker[w].left : targets[x(w)][f].status = "succeeded"
       /\ \A f \in worker[w].left : worker[w].at = "edge" \/ f # worker[w].edge
             => targets[x(w)][f].status = worker[w].seen[f].status
WalkOrdered == \A w \in Workers : Ordered(w)

\* A worker that stands still, over rows that do.
LEMMA StillOrdered ==
    ASSUME Typed, NEW v \in Workers, Still(v), Ordered(v), Grows,
           worker[v].at \in Walking => deployments'[x(v)].gen = deployments[x(v)].gen,
           worker[v].at \in Walking /\ Current(v) =>
              \A e \in Edges : targets'[x(v)][e] = targets[x(v)][e]
    PROVE  Ordered(v)'
<1>1. WorkerTyped(v) /\ worker'[v].at = worker[v].at
  BY StillRemembers DEF Typed
<1>2. CASE worker[v].at \in Walking
  <2>1. Works(v) /\ x(v) \in Ids /\ worker[v].id = x(v) /\ worker[v].left \subseteq Planned(x(v))
    BY <1>2, WalkerKnows
  <2>2. /\ worker'[v].id = worker[v].id /\ worker'[v].fence = worker[v].fence
        /\ worker'[v].left = worker[v].left /\ worker'[v].seen = worker[v].seen
        /\ worker'[v].edge = worker[v].edge
    BY <1>1, <2>1, StillRemembers
  <2>3. Current(v)' => Current(v)
    BY <1>1, <1>2, <2>1, <2>2 DEF Current, HasClaim, x
  <2>4. Planned(x(v))' = Planned(x(v))
    BY <2>1, <2>2 DEF Grows, PlansStand, Planned, x
  <2>5. \A f \in Planned(x(v)) : f \in Edges
    BY DEF Planned
  <2>6. ASSUME Current(v)' PROVE \A e \in Edges : targets'[x(v)'][e] = targets[x(v)][e]
    BY <1>2, <2>1, <2>2, <2>3, <2>6 DEF x
  <2> QED BY <1>1, <2>1, <2>2, <2>3, <2>4, <2>5, <2>6 DEF Ordered
<1>3. CASE worker[v].at \notin Walking
  BY <1>1, <1>3 DEF Ordered
<1> QED
  BY <1>2, <1>3

LEMMA OrderedAside ==
    ASSUME Typed, WalkOrdered, Grows, Aside
    PROVE  WalkOrdered'
<1>1. ASSUME NEW v \in Workers PROVE Ordered(v)'
  <2>1. CASE worker'[v].at \in Fresh
    BY <2>1 DEF Ordered, Fresh, Walking, Claiming
  <2>2. CASE Still(v)
    <3>1. worker[v].at \in Walking => x(v) \in Ids
      BY WalkerKnows
    <3>2. worker[v].at \in Walking =>
             /\ deployments'[x(v)].gen = deployments[x(v)].gen
             /\ \A e \in Edges : targets'[x(v)][e] = targets[x(v)][e]
      BY <3>1 DEF Aside
    <3> QED BY <2>2, <3>2, StillOrdered DEF WalkOrdered
  <2> QED BY <2>1, <2>2 DEF Aside
<1> QED
  BY <1>1 DEF WalkOrdered

\* What a worker does never reaches the rows of another that has the claim.
LEMMA OthersOrdered ==
    ASSUME Typed, Phased, Fenced, WalkOrdered, NEW w \in Workers, Advances(w), ~ Aside,
           NEW v \in Workers, v # w
    PROVE  Ordered(v)'
<1>0. Typed' /\ Grows
  BY PhasedAdvances
<1>1. CASE worker[v].at \in Walking
  <2>1. x(v) \in Ids /\ worker[v].id = x(v) /\ HasClaim(v) /\ worker[v].fence \in Nat
    <3>1. HasClaim(v)
      BY <1>1 DEF HasClaim, Walking, Claimed
    <3> QED BY <3>1, ClaimFields
  <2>2. CASE Claim(w) \/ Plan(w)
    <3>1. /\ worker'[v] = worker[v]
          /\ x(v) # x(w) => /\ targets'[x(v)] = targets[x(v)]
                            /\ deployments'[x(v)].gen = deployments[x(v)].gen
      BY <2>1, <2>2, ClaimTyped, PlanTyped
    <3>2. CASE x(v) # x(w)
      BY <2>1, <3>1, <3>2, <1>0, StillOrdered DEF Still, WalkOrdered
    <3>3. CASE x(v) = x(w)
      <4>1. CASE Claim(w)
        <5>1. deployments'[x(v)].gen = deployments[x(v)].gen + 1
          BY <3>3, <4>1, ClaimTyped
        <5>2. deployments[x(v)].gen \in Nat /\ worker[v].fence <= deployments[x(v)].gen
          BY <2>1, DeploymentFields DEF Fenced
        <5>3. worker[v].fence # deployments'[x(v)].gen
          BY <2>1, <5>1, <5>2
        <5> QED BY <3>1, <5>3 DEF Ordered, Current, x
      <4>2. CASE Plan(w)
        <5>1. deployments[x(w)].gen = worker[w].fence /\ deployments' = deployments
          BY <4>2, PlanTyped
        <5>2. HasClaim(w)
          BY <4>2 DEF Plan, HasClaim, Claimed
        <5>3. worker[v].fence # worker[w].fence
          BY <2>1, <3>3, <5>2 DEF Fenced
        <5> QED BY <3>1, <3>3, <5>1, <5>3 DEF Ordered, Current, x
      <4> QED BY <2>2, <4>1, <4>2
    <3> QED BY <3>2, <3>3
  <2>3. CASE ~ Claim(w) /\ ~ Plan(w)
    <3>1. Moves(w) /\ HasClaim(w)
      <4>1. HasClaim(w)
        BY <2>3 DEF Advances, Reobserve, BeginEdge, RunPhase, PhaseFails, RecordPhase, FinishEdge,
                    Stop, WalkedAll, HasClaim, Claimed
      <4> QED BY <2>3, <4>1, MovesUnderFence
    <3>2. worker'[v] = worker[v] /\ deployments'[x(v)].gen = deployments[x(v)].gen
      BY <2>1, <3>1 DEF Moves
    <3>3. ASSUME Current(v) PROVE \A e \in Edges : targets'[x(v)][e] = targets[x(v)][e]
      <4>1. x(v) = x(w) => worker[v].fence # worker[w].fence
        BY <2>1, <3>1 DEF Fenced
      <4>2. \A e \in Edges : targets[x(v)][e].fence = worker[v].fence
        BY <2>1, <3>3 DEF Fenced, Current
      <4> QED BY <2>1, <3>1, <4>1, <4>2 DEF Moves
    <3> QED BY <1>0, <3>2, <3>3, StillOrdered DEF Still, WalkOrdered
  <2> QED BY <2>2, <2>3
<1>2. CASE worker[v].at \notin Walking
  <2>1. worker'[v] = worker[v]
    <3>1. CASE Claim(w) \/ Plan(w)
      BY <3>1, ClaimTyped, PlanTyped
    <3>2. CASE ~ Claim(w) /\ ~ Plan(w)
      BY <3>2, MovesUnderFence DEF Moves
    <3> QED BY <3>1, <3>2
  <2> QED BY <1>2, <2>1 DEF Ordered
<1> QED
  BY <1>1, <1>2

LEMMA OwnOrdered ==
    ASSUME Typed, Phased, Fenced, WalkOrdered, NEW w \in Workers, Advances(w), ~ Aside
    PROVE  Ordered(w)'
<1>0. Ordered(w)
  BY DEF WalkOrdered
<1>1. CASE Claim(w)
  <2>1. worker'[w].at = "plan"
    BY <1>1, ClaimTyped
  <2> QED BY <2>1 DEF Ordered, Walking
<1>2. CASE Plan(w)
  <2>1. /\ Grows /\ worker'[w].id = x(w) /\ worker'[w].left = Planned(x(w))
        /\ worker'[w].seen = targets[x(w)] /\ worker'[w].at = "edge"
        /\ \A e \in Edges : targets'[x(w)][e].status = targets[x(w)][e].status
    BY <1>2, PlanTyped
  <2>2. x(w) \in Ids
    BY <1>2, ClaimFields DEF Plan, HasClaim, Claimed
  <2>3. Planned(x(w))' = Planned(x(w)) /\ \A f \in Planned(x(w)) : f \in Edges
    BY <2>1, <2>2 DEF Grows, PlansStand, Planned, x
  <2> QED BY <2>1, <2>3 DEF Ordered, x
<1>3. CASE ~ Claim(w) /\ ~ Plan(w)
  <2>1. Moves(w) /\ HasClaim(w)
    <3>1. HasClaim(w)
      BY <1>3 DEF Advances, Reobserve, BeginEdge, RunPhase, PhaseFails, RecordPhase, FinishEdge,
                  Stop, WalkedAll, HasClaim, Claimed
    <3> QED BY <1>3, <3>1, MovesUnderFence
  <2>2. Grows /\ Typed'
    BY PhasedAdvances
  <2>3. x(w) \in Ids
    BY <2>1, ClaimFields
  <2>4. Planned(x(w))' = Planned(x(w)) \/ worker'[w].at \notin Walking
    BY <2>1, <2>2, <2>3 DEF Grows, PlansStand, Planned, x, Moves, Walking
  <2>5. ASSUME worker'[w].at \in Walking, Current(w)'
        PROVE  /\ Current(w) /\ x(w)' = x(w) /\ Planned(x(w))' = Planned(x(w))
               /\ \A e \in Edges : targets[x(w)][e].fence = worker[w].fence
    <3>1. worker'[w].id = x(w) /\ worker'[w].fence = worker[w].fence
      BY <2>1, <2>5 DEF Moves, Walking
    <3>2. Current(w)
      BY <2>1, <2>3, <2>5, <3>1 DEF Current, Moves, x
    <3> QED BY <2>3, <2>4, <2>5, <3>1, <3>2 DEF Fenced, Current, x
  <2>6. \A f \in Planned(x(w)) : f \in Edges
    BY DEF Planned
  <2>7. worker[w].at \in Walking =>
           worker[w].left \subseteq Planned(x(w))
    BY WalkerKnows
  <2>8. CASE Reobserve(w)
    <3>1. worker[w].at = "edge" /\ worker[w].left # {}
      BY <2>8 DEF Reobserve
    <3>2. CASE worker'[w].at = "stop"
      BY <3>2 DEF Ordered, Walking
    <3>3. CASE worker'[w].at # "stop"
      <4>1. /\ worker'[w].at = "edge" /\ targets' = targets /\ worker'[w].seen = worker[w].seen
            /\ worker'[w].left = worker[w].left \ {NextEdge(w)}
            /\ worker[w].seen[NextEdge(w)].status = "succeeded"
        BY <2>8, <3>3, ReobserveTyped
      <4>2. NextEdge(w) \in worker[w].left
        BY <3>1, WalkerKnows DEF Walking
      <4> QED BY <1>0, <2>5, <3>1, <4>1, <4>2 DEF Ordered, Walking
    <3> QED BY <3>2, <3>3
  <2>9. CASE BeginEdge(w)
    <3>1. /\ \A f \in Edges : f # NextEdge(w) => targets'[x(w)][f] = targets[x(w)][f]
          /\ worker'[w].seen = worker[w].seen /\ worker'[w].left = worker[w].left
          /\ worker'[w].edge = NextEdge(w) /\ worker'[w].at \in {"phase", "stop"}
          /\ worker[w].at = "edge" /\ worker[w].left # {}
      BY <2>9, BeginTyped DEF BeginEdge
    <3>2. NextEdge(w) \in worker[w].left
      BY <3>1, WalkerKnows DEF Walking
    <3> QED BY <1>0, <2>5, <2>6, <2>7, <3>1, <3>2 DEF Ordered, Walking
  <2>10. CASE RunPhase(w)
    <3>1. worker[w].at = "phase"
      BY <2>10 DEF RunPhase
    <3>2. deployments[x(w)].check => worker[w].phase \in {"none", "stage"}
      BY <3>1 DEF Phased, PhasedWorker, Walking, Staged
    <3>3. /\ targets' = targets /\ worker'[w].at = "record"
          /\ worker'[w].seen = worker[w].seen /\ worker'[w].left = worker[w].left
          /\ worker'[w].edge = worker[w].edge
      BY <2>10, <3>2, RunPhaseTyped
    <3> QED BY <1>0, <2>5, <3>1, <3>3 DEF Ordered, Walking
  <2>11. CASE RecordPhase(w)
    <3>1. worker[w].at = "record"
      BY <2>11 DEF RecordPhase
    <3>2. NextPhase(worker[w].phase) \in Phases
      BY <3>1 DEF Phased, PhasedWorker, Walking
    <3>3. /\ \A f \in Edges : targets'[x(w)][f].status = targets[x(w)][f].status
          /\ worker'[w].at \in {"phase", "stop"}
          /\ worker'[w].seen = worker[w].seen /\ worker'[w].left = worker[w].left
          /\ worker'[w].edge = worker[w].edge
      BY <2>11, <3>2, RecordTyped
    <3> QED BY <1>0, <2>5, <2>6, <2>7, <3>1, <3>3 DEF Ordered, Walking
  <2>12. CASE FinishEdge(w)
    <3>1. worker[w].at = "phase" /\ worker[w].edge \in worker[w].left
      BY <2>12, WalkerKnows DEF FinishEdge, Walking
    <3>2. /\ worker'[w].at = "edge"
          /\ worker'[w].seen = worker[w].seen
          /\ worker'[w].left = worker[w].left \ {worker[w].edge}
          /\ \A f \in Edges : f # worker[w].edge => targets'[x(w)][f] = targets[x(w)][f]
          /\ targets[x(w)][worker[w].edge].fence = worker[w].fence
             => targets'[x(w)][worker[w].edge].status = "succeeded"
      BY <2>12, FinishTyped
    <3> QED BY <1>0, <2>5, <2>6, <2>7, <3>1, <3>2 DEF Ordered, Walking
  <2>13. CASE (\E fatal \in BOOLEAN : PhaseFails(w, fatal)) \/ Stop(w) \/ WalkedAll(w)
    <3>1. worker'[w].at \in {"idle", "stop", "complete"}
      BY <2>13, PhaseFailsTyped, StopTyped, WalkedTyped
    <3> QED BY <3>1 DEF Ordered, Walking
  <2> QED BY <1>3, <2>8, <2>9, <2>10, <2>11, <2>12, <2>13 DEF Advances
<1> QED
  BY <1>1, <1>2, <1>3

FleetInv == Typed /\ Phased /\ Fenced /\ WalkOrdered

LEMMA UnchangedFleet ==
    ASSUME FleetInv, UNCHANGED fleet
    PROVE  FleetInv'
  BY DEF FleetInv, fleet, state, records, Typed, Phased, StateTyped, DeploymentsTyped, TargetsTyped,
         WorkerTyped, PhasedRows, PhasedWorker, Fenced, WalkOrdered, Ordered, Current, HasClaim,
         Ids, x, Works, Planned

LEMMA InvStep ==
    ASSUME FleetInv, [FleetNext]_fleet
    PROVE  FleetInv' /\ Grows
<1> USE DEF FleetInv
<1>1. CASE FleetNext
  <2>1. Typed' /\ Phased' /\ Grows
    BY TypedStep
  <2>2. CASE Aside
    BY <2>1, <2>2, FencedAside, OrderedAside
  <2>3. CASE ~ Aside
    <3>1. PICK w \in Workers : Advances(w)
      BY <1>1, <2>3, Sorted
    <3>2. Fenced'
      BY <3>1, FencedAdvances
    <3>3. \A v \in Workers : Ordered(v)'
      BY <2>3, <3>1, OthersOrdered, OwnOrdered
    <3> QED BY <2>1, <3>2, <3>3 DEF WalkOrdered
  <2> QED BY <2>2, <2>3
<1>2. CASE UNCHANGED fleet
  BY <1>2, UnchangedFleet, TypedStep
<1> QED
  BY <1>1, <1>2

LEMMA InvInit == FleetInit => FleetInv
<1> SUFFICES ASSUME FleetInit PROVE FleetInv
    OBVIOUS
<1>1. deployments = <<>> /\ targets = <<>> /\ Ids = {} /\ Len(deployments) = 0 /\ Len(targets) = 0
  BY EmptySeq DEF FleetInit, Ids
<1>2. \A w \in Workers : worker[w] = Idle /\ worker[w].at = "idle"
  BY DEF FleetInit, Idle
<1>3. canonical \in Inputs /\ canonical.cert = 0
  BY FleetAssumption DEF FleetInit, Inputs
<1>4. StateTyped
  <2>1. [now |-> canonical, undo |-> canonical] \in Surface
    BY <1>3 DEF Surface
  <2>2. serving \in [Edges -> Surface]
    BY <2>1 DEF FleetInit
  <2>3. events \in 0..MaxEvents /\ canonical.cert <= events
    BY <1>3, FleetAssumption DEF FleetInit
  <2> QED BY <1>3, <2>2, <2>3 DEF FleetInit, StateTyped
<1>5. DeploymentsTyped /\ TargetsTyped
  BY <1>1, EmptySeq DEF DeploymentsTyped, TargetsTyped
<1>6. \A w \in Workers : WorkerTyped(w)
  BY <1>2 DEF WorkerTyped, Works
<1>7. Typed
  BY <1>1, <1>4, <1>5, <1>6 DEF FleetInit, Typed
<1>8. Phased /\ Fenced /\ WalkOrdered
  BY <1>1, <1>2 DEF Phased, PhasedWorker, Fenced, HasClaim, WalkOrdered, Ordered, Walking, Claimed
<1> QED
  BY <1>7, <1>8 DEF FleetInv

(* The rows, the claims and the walks are in order in every reachable state. *)
THEOREM FleetInvHolds == FleetSpec => []FleetInv
<1>1. FleetInv /\ [FleetNext]_fleet => FleetInv'
  BY InvStep
<1> QED
  BY InvInit, <1>1, PTL DEF FleetSpec

-----------------------------------------------------------------------------
(* The theorems.                                                           *)

LEMMA InvTyped == FleetInv => FleetTypeOK
<1> SUFFICES ASSUME FleetInv PROVE FleetTypeOK
    OBVIOUS
<1>1. canonical \in Inputs /\ required \in BOOLEAN /\ roster \subseteq Edges
      /\ queue \subseteq Ids /\ lock \in Workers \cup {NoWorker} /\ torn \subseteq Edges
      /\ serving \in [Edges -> [now : Inputs \cup {Bare}, undo : Inputs \cup {Bare}]]
  BY DEF FleetInv, Typed, StateTyped, Surface
<1>2. ASSUME NEW i \in Ids
      PROVE  /\ deployments[i].status \in Statuses
             /\ {deployments[i].release, deployments[i].digest} \subseteq Inputs
             /\ deployments[i].gen \in Nat
  BY <1>2, DeploymentFields DEF FleetInv, Deployment
<1>3. ASSUME NEW i \in Ids, NEW e \in Edges
      PROVE  /\ targets[i][e].status \in TargetStatuses /\ targets[i][e].phase \in Phases
             /\ targets[i][e].fence <= deployments[i].gen
  <2>1. targets[i][e] \in Target
    BY <1>3, RowFields DEF FleetInv
  <2>2. targets[i][e].fence = deployments[i].gen /\ deployments[i].gen \in Nat
    BY <1>2, <1>3 DEF FleetInv, Fenced
  <2> QED BY <2>1, <2>2 DEF Target
<1>4. DOMAIN targets = Ids
  BY LenProperties DEF FleetInv, Typed, TargetsTyped, DeploymentsTyped, Ids
<1> QED
  BY <1>1, <1>2, <1>3, <1>4 DEF FleetTypeOK

(* The tables, the lock file and the processes hold what they may hold, and *)
(* no row is ahead of the generation of its deployment.                    *)
THEOREM FleetTypes == FleetSpec => []FleetTypeOK
  BY FleetInvHolds, InvTyped, PTL

(* What a finished deployment recorded stands, though two processes end it. *)
THEOREM OutcomesStand == FleetSpec => OutcomeStands
<1>1. FleetInv /\ [FleetNext]_fleet =>
        [\A i \in Ids : deployments[i].status \in Terminal
           => deployments'[i].status \in {deployments[i].status, "pruned"}]_fleet
  BY InvStep DEF Grows, DeploymentsGrow
<1> QED
  BY <1>1, FleetInvHolds, PTL DEF FleetSpec, OutcomeStands

(* An edge is begun only once every edge before it has succeeded, whoever  *)
(* resumes the rollout, and even with the lock lost.                       *)
THEOREM EdgesGoInOrder == FleetSpec => EdgesInOrder
<1> DEFINE Begun == \A i \in Ids : \A e \in Planned(i) :
         targets'[i][e].status = "running" /\ targets[i][e].status # "running"
         => \A f \in Planned(i) : f < e => targets[i][f].status = "succeeded"
<1>1. ASSUME FleetInv, FleetNext PROVE Begun
  <2> SUFFICES ASSUME NEW i \in Ids, NEW e \in Planned(i),
                      targets'[i][e].status = "running", targets[i][e].status # "running",
                      NEW f \in Planned(i), f < e
               PROVE  targets[i][f].status = "succeeded"
    OBVIOUS
  <2> USE DEF FleetInv
  <2>1. e \in Edges /\ f \in Edges /\ e \in Nat /\ f \in Nat
    BY FleetAssumption DEF Planned
  <2>2. ~ Aside
    BY <2>1 DEF Aside
  <2>3. PICK w \in Workers : Advances(w)
    BY <1>1, <2>2, Sorted
  <2>4. ~ Claim(w)
    <3>1. CASE Claim(w)
      <4>1. /\ i # x(w) => targets'[i] = targets[i]
            /\ targets'[x(w)][e].status = targets[x(w)][e].status
        BY <1>1, <2>1, <2>2, <3>1, ClaimTyped
      <4> QED BY <4>1
    <3> QED BY <3>1
  <2>5. ~ Plan(w)
    <3>1. CASE Plan(w)
      <4>1. /\ i # x(w) => targets'[i] = targets[i]
            /\ targets'[x(w)][e].status = targets[x(w)][e].status
        BY <1>1, <2>1, <2>2, <3>1, PlanTyped
      <4> QED BY <4>1
    <3> QED BY <3>1
  <2>6. Moves(w)
    BY <1>1, <2>3, <2>4, <2>5, MovesUnderFence
  <2>7. i = x(w) /\ targets[i][e].fence = worker[w].fence
    BY <2>1, <2>6 DEF Moves
  <2>8. CASE BeginEdge(w)
    <3>1. worker[w].at = "edge" /\ worker[w].left # {} /\ worker[w].at \in Walking
      BY <2>8 DEF BeginEdge, Walking
    <3>2. e = NextEdge(w)
      BY <1>1, <2>1, <2>7, <2>8, BeginTyped
    <3>3. NextEdge(w) \in worker[w].left /\ \A g \in worker[w].left : NextEdge(w) <= g
      BY <1>1, <3>1, WalkerKnows
    <3>4. f \notin worker[w].left
      BY <2>1, <3>2, <3>3
    <3>5. Current(w)
      BY <1>1, <2>1, <2>7, <3>1 DEF Current, HasClaim, Claimed, Fenced
    <3> QED BY <1>1, <2>7, <3>1, <3>4, <3>5 DEF WalkOrdered, Ordered
  <2>9. CASE RunPhase(w)
    <3>1. worker[w].at \in Walking /\ worker[w].at = "phase"
      BY <2>9 DEF RunPhase, Walking
    <3>2. deployments[x(w)].check => worker[w].phase \in {"none", "stage"}
      BY <1>1, <3>1 DEF Phased, PhasedWorker, Staged
    <3>3. targets' = targets
      BY <1>1, <2>9, <3>2, RunPhaseTyped
    <3> QED BY <3>3
  <2>10. CASE RecordPhase(w)
    <3>1. worker[w].at \in Walking /\ worker[w].at = "record"
      BY <2>10 DEF RecordPhase, Walking
    <3>2. NextPhase(worker[w].phase) \in Phases
      BY <1>1, <3>1 DEF Phased, PhasedWorker
    <3>3. targets'[x(w)][e].status = targets[x(w)][e].status
      BY <1>1, <2>1, <2>10, <3>2, RecordTyped
    <3> QED BY <2>7, <3>3
  <2>11. CASE Reobserve(w)
    BY <1>1, <2>1, <2>7, <2>11, ReobserveTyped
  <2>12. CASE \E fatal \in BOOLEAN : PhaseFails(w, fatal)
    BY <1>1, <2>1, <2>7, <2>12, PhaseFailsTyped
  <2>13. CASE FinishEdge(w)
    BY <1>1, <2>1, <2>7, <2>13, FinishTyped
  <2>14. CASE Stop(w)
    BY <1>1, <2>1, <2>7, <2>14, StopTyped
  <2>15. CASE WalkedAll(w)
    BY <1>1, <2>1, <2>7, <2>15, WalkedTyped
  <2> QED BY <2>3, <2>4, <2>5, <2>8, <2>9, <2>10, <2>11, <2>12, <2>13, <2>14, <2>15 DEF Advances
<1>2. FleetInv /\ [FleetNext]_fleet => [Begun]_fleet
  BY <1>1
<1> QED
  BY <1>2, FleetInvHolds, PTL DEF FleetSpec, EdgesInOrder


(* Once a rollout is taken over, its rows move under the new generation    *)
(* only: the worker that went on records nothing more.                     *)
THEOREM RowsFollowTheClaim == FleetSpec => TakeoverIsFinal
<1> DEFINE Final == \A i \in Ids : \A e \in Planned(i) :
         targets'[i][e] # targets[i][e] /\ deployments'[i].gen = deployments[i].gen
         => \E w \in Workers : /\ Works(w) /\ x(w) = i
                               /\ worker[w].fence = deployments[i].gen
                               /\ worker'[w] # worker[w]
<1>1. ASSUME FleetInv, FleetNext PROVE Final
  <2> SUFFICES ASSUME NEW i \in Ids, NEW e \in Planned(i),
                      targets'[i][e] # targets[i][e], deployments'[i].gen = deployments[i].gen
               PROVE  \E w \in Workers : /\ Works(w) /\ x(w) = i
                                         /\ worker[w].fence = deployments[i].gen
                                         /\ worker'[w] # worker[w]
    OBVIOUS
  <2> USE DEF FleetInv
  <2>1. e \in Edges /\ deployments[i].gen \in Nat
    BY <1>1, DeploymentFields DEF Planned
  <2>2. ~ Aside
    BY <2>1 DEF Aside
  <2>3. PICK w \in Workers : Advances(w)
    BY <1>1, <2>2, Sorted
  <2>4. CASE Claim(w)
    <3>1. /\ i # x(w) => targets'[i] = targets[i]
          /\ deployments'[x(w)].gen = deployments[x(w)].gen + 1
      BY <1>1, <2>2, <2>4, ClaimTyped
    <3> QED BY <2>1, <3>1
  <2>5. CASE Plan(w)
    <3>1. /\ i # x(w) => targets'[i] = targets[i]
          /\ deployments[x(w)].gen = worker[w].fence
          /\ worker'[w].at = "edge" /\ worker[w].at = "plan"
      BY <1>1, <2>2, <2>5, PlanTyped DEF Plan
    <3>2. Works(w)
      BY <3>1 DEF Works
    <3> QED BY <3>1, <3>2
  <2>6. CASE ~ Claim(w) /\ ~ Plan(w)
    <3>1. Moves(w)
      BY <1>1, <2>3, <2>6, MovesUnderFence
    <3>2. i = x(w) /\ targets[i][e].fence = worker[w].fence
      BY <2>1, <3>1 DEF Moves
    <3>3. worker[w].fence = deployments[i].gen
      BY <1>1, <2>1, <3>2 DEF Fenced
    <3>4. worker[w].at \in Walking \cup {"stop"}
      BY <2>3, <2>6 DEF Advances, Reobserve, BeginEdge, RunPhase, PhaseFails, RecordPhase, FinishEdge,
                  Stop, WalkedAll, Walking
    <3>5. worker'[w] # worker[w]
      <4>1. worker'[w].at # worker[w].at \/ targets' = targets
        <5>1. CASE Reobserve(w)
          BY <1>1, <5>1, ReobserveTyped DEF Reobserve
        <5>2. CASE BeginEdge(w)
          BY <1>1, <5>2, BeginTyped DEF BeginEdge
        <5>3. CASE RunPhase(w)
          BY <5>3 DEF RunPhase
        <5>4. CASE \E fatal \in BOOLEAN : PhaseFails(w, fatal)
          BY <1>1, <5>4, PhaseFailsTyped DEF PhaseFails
        <5>5. CASE RecordPhase(w)
          <6>1. worker[w].at = "record" /\ NextPhase(worker[w].phase) \in Phases
            BY <1>1, <5>5 DEF RecordPhase, Phased, PhasedWorker, Walking
          <6> QED BY <1>1, <5>5, <6>1, RecordTyped
        <5>6. CASE FinishEdge(w)
          BY <1>1, <5>6, FinishTyped DEF FinishEdge
        <5>7. CASE Stop(w) \/ WalkedAll(w)
          BY <1>1, <5>7, StopTyped, WalkedTyped DEF Stop
        <5> QED BY <2>3, <2>6, <5>1, <5>2, <5>3, <5>4, <5>5, <5>6, <5>7 DEF Advances
      <4> QED BY <4>1
    <3>6. Works(w)
      BY <3>4 DEF Works, Walking
    <3> QED BY <3>2, <3>3, <3>5, <3>6
  <2> QED BY <2>4, <2>5, <2>6
<1>2. FleetInv /\ [FleetNext]_fleet => [Final]_fleet
  BY <1>1
<1> QED
  BY <1>2, FleetInvHolds, PTL DEF FleetSpec, TakeoverIsFinal

\* Only a rollout changes what an edge serves, but for a teardown.
LEMMA OnlyRolloutsServe ==
    ASSUME FleetInv, FleetNext, serving' # serving, torn' = torn
    PROVE  \E w \in Workers : RunPhase(w) \/ \E fatal \in BOOLEAN : PhaseFails(w, fatal)
<1>1. ~ Outside
  <2>1. \A e \in Edges : ~ Teardown(e)
    BY DEF Teardown
  <2> QED BY <2>1 DEF Outside, Edit, IssueCertificate, LoseLock, Register, Remove, Drop
<1>2. PICK w \in Workers : Act(w)
  BY <1>1 DEF FleetNext, Outside
<1>3. ~ \E i \in queue : Deliver(w, i) \/ DeliverFinished(w, i)
  BY DEF Deliver, DeliverFinished
<1>4. ~ (\/ /\ Len(deployments) < MaxDeployments
            /\ \E r \in Requests[Len(deployments) + 1] :
                    \/ Deploy(w, r.fg, r.check, r.limit)
                    \/ \E i \in Ids : r.limit = 0 /\ Rollback(w, r.fg, r.check, i)
         \/ ConvergeRequirement(w))
  BY DEF Deploy, Rollback, ConvergeRequirement, Hold
<1>5. ~ Initialize(w) /\ ~ Interrupt(w) /\ ~ Crash(w)
  BY DEF Initialize, Interrupt, Crash
<1>6. ~ Admit(w) /\ ~ Start(w) /\ ~ Claim(w) /\ ~ Plan(w) /\ ~ Complete(w)
  BY DEF Admit, Start, Claim, Plan, Complete
<1>7. /\ ~ Reobserve(w) /\ ~ BeginEdge(w) /\ ~ RecordPhase(w) /\ ~ FinishEdge(w)
      /\ ~ Stop(w) /\ ~ WalkedAll(w)
  BY DEF Reobserve, BeginEdge, RecordPhase, FinishEdge, Stop, WalkedAll
<1> QED
  BY <1>2, <1>3, <1>4, <1>5, <1>6, <1>7 DEF Act, Converge

(* A plan or a drift check changes nothing an edge serves.                 *)
THEOREM ChecksOnlyStage == FleetSpec => ChecksTouchNothing
<1> DEFINE Untouched == serving' # serving /\ torn' = torn =>
         \E w \in Workers : /\ worker[w].at = "phase" /\ worker'[w] # worker[w]
                            /\ ~ deployments[x(w)].check
<1>1. ASSUME FleetInv, FleetNext PROVE Untouched
  <2> SUFFICES ASSUME serving' # serving, torn' = torn
               PROVE  \E w \in Workers : /\ worker[w].at = "phase" /\ worker'[w] # worker[w]
                                         /\ ~ deployments[x(w)].check
    OBVIOUS
  <2> USE DEF FleetInv
  <2>1. PICK w \in Workers : RunPhase(w) \/ \E fatal \in BOOLEAN : PhaseFails(w, fatal)
    BY <1>1, OnlyRolloutsServe
  <2>2. worker[w].at = "phase"
    BY <2>1 DEF RunPhase, PhaseFails
  <2>3. x(w) \in Ids /\ worker[w].phase \in Phases
    BY <1>1, <2>2, WalkerKnows DEF Walking, Run
  <2>4. deployments[x(w)].check => worker[w].phase \in Staged
    BY <1>1, <2>2 DEF Phased, PhasedWorker, Walking
  <2>5. CASE RunPhase(w)
    <3>1. /\ worker'[w].at = "record"
          /\ NextPhase(worker[w].phase) = "stage" => serving' = serving
      BY <1>1, <2>4, <2>5, RunPhaseTyped DEF Staged
    <3>2. worker[w].phase # LastPhase(deployments[x(w)].check)
      BY <2>5 DEF RunPhase
    <3>3. ~ deployments[x(w)].check
      BY <2>4, <3>1, <3>2 DEF Staged, LastPhase, NextPhase
    <3> QED BY <2>2, <3>1, <3>3
  <2>6. CASE \E fatal \in BOOLEAN : PhaseFails(w, fatal)
    <3>1. /\ worker'[w].at \in {"idle", "stop"}
          /\ NextPhase(worker[w].phase) # "stage"
          /\ worker[w].phase # LastPhase(deployments[x(w)].check)
      BY <1>1, <2>6, PhaseFailsTyped
    <3>2. ~ deployments[x(w)].check
      BY <2>4, <3>1 DEF Staged, LastPhase, NextPhase
    <3> QED BY <2>2, <3>1, <3>2
  <2> QED BY <2>1, <2>5, <2>6
<1>2. FleetInv /\ [FleetNext]_fleet => [Untouched]_fleet
  BY <1>1
<1> QED
  BY <1>2, FleetInvHolds, PTL DEF FleetSpec, ChecksTouchNothing

(* A rollback gives no certificate back that was activated while it        *)
(* converged.                                                              *)
THEOREM AdoptionsKeepCertificates == FleetSpec => AdoptionLosesNothing
<1> DEFINE Adopted == canonical'.cert < canonical.cert =>
         \E i \in Ids : /\ deployments[i].status # "succeeded"
                        /\ deployments'[i].status = "succeeded"
                        /\ deployments[i].digest.cert = canonical.cert
<1>1. ASSUME FleetInv, FleetNext PROVE Adopted
  <2> SUFFICES ASSUME canonical'.cert < canonical.cert
               PROVE  \E i \in Ids : /\ deployments[i].status # "succeeded"
                                     /\ deployments'[i].status = "succeeded"
                                     /\ deployments[i].digest.cert = canonical.cert
    OBVIOUS
  <2> USE DEF FleetInv
  <2>1. canonical \in Inputs /\ canonical.cert \in Nat
    BY <1>1, FleetAssumption DEF Typed, StateTyped, Inputs
  <2>2. canonical' # canonical
    BY <2>1
  <2>3. ~ Edit /\ ~ IssueCertificate
    <3>1. ~ Edit
      <4>1. Edit => canonical'.cert = canonical.cert
        BY <2>1 DEF Edit, Inputs
      <4> QED BY <2>1, <4>1
    <3>2. ~ IssueCertificate
      <4>1. IssueCertificate => canonical'.cert = canonical.cert + 1
        BY <2>1 DEF IssueCertificate, Inputs
      <4> QED BY <2>1, <4>1
    <3> QED BY <3>1, <3>2
  <2>4. PICK w \in Workers : Act(w)
    <3>1. ~ LoseLock /\ \A e \in Edges : ~ Register(e) /\ ~ Remove(e) /\ ~ Teardown(e) /\ ~ Drop(e)
      BY <2>2 DEF LoseLock, Register, Remove, Teardown, Drop, state
    <3> QED BY <1>1, <2>3, <3>1 DEF FleetNext
  <2>5. ~ \E i \in queue : Deliver(w, i) \/ DeliverFinished(w, i)
    BY <2>2 DEF Deliver, DeliverFinished, state
  <2>6. ~ (\/ /\ Len(deployments) < MaxDeployments
              /\ \E r \in Requests[Len(deployments) + 1] :
                      \/ Deploy(w, r.fg, r.check, r.limit)
                      \/ \E i \in Ids : r.limit = 0 /\ Rollback(w, r.fg, r.check, i)
           \/ ConvergeRequirement(w))
    BY <2>2 DEF Deploy, Rollback, ConvergeRequirement, Hold, state
  <2>7. ~ Initialize(w) /\ ~ Interrupt(w) /\ ~ Crash(w)
    BY <2>2 DEF Initialize, Interrupt, Crash, state
  <2>8. ~ Admit(w) /\ ~ Start(w) /\ ~ Claim(w) /\ ~ Plan(w)
    BY <2>2 DEF Admit, Start, Claim, Plan, state
  <2>9. /\ ~ Reobserve(w) /\ ~ BeginEdge(w) /\ ~ RunPhase(w) /\ ~ RecordPhase(w) /\ ~ FinishEdge(w)
        /\ ~ Stop(w) /\ ~ WalkedAll(w)
    BY <2>2 DEF Reobserve, BeginEdge, RunPhase, RecordPhase, FinishEdge, Stop, WalkedAll,
                Rest, Quiet, state
  <2>10. \A fatal \in BOOLEAN : ~ PhaseFails(w, fatal)
    BY <2>2 DEF PhaseFails, Rest, state
  <2>11. Complete(w)
    BY <2>4, <2>5, <2>6, <2>7, <2>8, <2>9, <2>10 DEF Act, Converge
  <2>12. x(w) \in Ids
    BY <1>1, <2>11 DEF Complete, Works, Typed, WorkerTyped
  <2>13. /\ deployments[x(w)].status = "running" /\ worker[w].ok
         /\ UnchangedSince(deployments[x(w)])
         /\ deployments' = Settled(w, "succeeded")
    BY <2>2, <2>11 DEF Complete, state
  <2>14. deployments'[x(w)].status = "succeeded"
    <3>1. deployments \in Seq(Deployment) /\ x(w) \in 1..Len(deployments)
      BY <1>1, <2>12, LenProperties DEF Typed, DeploymentsTyped, Ids
    <3>2. "succeeded" \in Statuses /\ events' \in Nat /\ events <= events'
      BY <1>1, <2>11, EventTyped DEF Complete, Statuses
    <3> QED BY <1>1, <2>12, <2>13, <3>2, StatusWrites DEF Settled, Terminal
  <2>15. deployments[x(w)].digest.cert = canonical.cert
    BY <2>13 DEF UnchangedSince
  <2> QED BY <2>12, <2>13, <2>14, <2>15
<1>2. FleetInv /\ [FleetNext]_fleet => [Adopted]_fleet
  BY <1>1
<1> QED
  BY <1>2, FleetInvHolds, PTL DEF FleetSpec, AdoptionLosesNothing

-----------------------------------------------------------------------------
(* The lock.                                                               *)

\* Until it is lost, whoever is at work holds it, and is not up for review.
Held ==
    ~ lockLost => \A v \in Workers :
        worker[v].at = "idle" \/ (lock = v /\ worker[v].row # "review")

\* The holder goes on, or gives the lock up as it ends.
LEMMA HolderActs ==
    ASSUME Typed, Held, NEW w \in Workers, worker[w].at # "idle", lockLost' = lockLost,
           NEW r, worker' = [worker EXCEPT ![w] = r],
           r.at = "idle" \/ (lock' = lock /\ r.row \in {"none", "open", worker[w].row})
    PROVE  Held'
  BY MovedWorker, ZenonT(30) DEF Held

\* The lock is free, so everybody is idle.
LEMMA FreeLock ==
    ASSUME Held, lock = NoWorker, ~ lockLost
    PROVE  \A v \in Workers : worker[v].at = "idle"
  BY FleetAssumption DEF Held

\* Somebody takes a free lock.
LEMMA HolderComes ==
    ASSUME Typed, Held, lock = NoWorker, NEW w \in Workers, lock' = w, lockLost' = lockLost,
           NEW r, worker' = [worker EXCEPT ![w] = r], r.row \in {"none", "open"}
    PROVE  Held'
  BY MovedWorker, FreeLock DEF Held

\* A review that waits for the lock reviews nobody.
LEMMA NobodyReviewed ==
    ASSUME Typed, Held, lock = NoWorker, ~ lockLost, NEW resources
    PROVE  ReviewedOf(resources) = worker
<1>1. \A v \in Workers : worker[v].at = "idle"
  BY FreeLock
<1>2. worker = [v \in Workers |-> worker[v]]
  BY DEF Typed
<1> QED
  BY <1>1, <1>2 DEF ReviewedOf

\* What a run keeps of itself.
LEMMA RunForms ==
    ASSUME NEW r \in Run
    PROVE  /\ \A at : [r EXCEPT !.at = at].row = r.row
           /\ \A at, fence : [r EXCEPT !.at = at, !.fence = fence].row = r.row
           /\ \A at, left, seen : [r EXCEPT !.at = at, !.left = left, !.seen = seen].row = r.row
           /\ \A left : [r EXCEPT !.left = left].row = r.row
           /\ \A at, left : [r EXCEPT !.at = at, !.left = left].row = r.row
           /\ \A edge, phase, at : [r EXCEPT !.edge = edge, !.phase = phase, !.at = at].row = r.row
           /\ \A phase, at : [r EXCEPT !.phase = phase, !.at = at].row = r.row
           /\ \A at, ok : [r EXCEPT !.at = at, !.ok = ok].row = r.row
  BY DEF Run

LEMMA HeldRequests ==
    ASSUME Typed, Held, NEW w \in Workers, NEW r, Asked(r), Hold(w, r)
    PROVE  Held'
<1>1. r.row \in {"none", "open"}
  BY DEF Asked, Request
<1> QED
  BY <1>1, HolderComes DEF Hold

LEMMA HeldDelivers ==
    ASSUME Typed, Held, NEW w \in Workers,
           \/ \E i \in queue : Deliver(w, i) \/ DeliverFinished(w, i)
           \/ Initialize(w)
    PROVE  Held'
<1>1. CASE \E i \in queue : DeliverFinished(w, i)
  BY <1>1 DEF DeliverFinished, Held
<1>2. CASE Initialize(w)
  <2>1. lock = NoWorker /\ lock' = lock /\ lockLost' = lockLost /\ worker' = ReviewedOf(Resources)
    BY <1>2 DEF Initialize
  <2> QED BY <2>1, NobodyReviewed DEF Held
<1>3. CASE \E i \in queue : Deliver(w, i)
  <2>1. PICK i \in queue : Deliver(w, i)
    BY <1>3
  <2> DEFINE r == Converging(i, deployments[i].status, FALSE, i)
             resources == IF deployments[i].status = "running" THEN {i} ELSE {}
  <2>2. /\ lock = NoWorker /\ lock' = w /\ lockLost' = lockLost
        /\ worker' = [ReviewedOf(resources) EXCEPT ![w] = r]
    BY <2>1 DEF Deliver
  <2>3. r.row \in {"none", "open"}
    BY DEF Converging
  <2> HIDE DEF r, resources
  <2>4. CASE ~ lockLost
    <3>1. worker' = [worker EXCEPT ![w] = r]
      BY <2>2, <2>4, NobodyReviewed
    <3> QED BY <2>2, <2>3, <3>1, HolderComes
  <2> QED BY <2>2, <2>4 DEF Held
<1> QED
  BY <1>1, <1>2, <1>3

LEMMA HeldEnds ==
    ASSUME Typed, Held, NEW w \in Workers, Ends(w), worker[w].at # "idle"
    PROVE  Held'
<1>1. worker' = [worker EXCEPT ![w] = Idle] /\ lockLost' = lockLost /\ Idle.at = "idle"
  BY DEF Ends, Idle
<1> QED
  BY <1>1, HolderActs

LEMMA HeldAdmits ==
    ASSUME Typed, Held, NEW w \in Workers, Admit(w)
    PROVE  Held'
<1>1. worker[w].at # "idle" /\ lockLost' = lockLost
  BY DEF Admit
<1>2. CASE worker[w].fg
  <2> DEFINE r == Converging(Len(deployments) + 1, "queued", TRUE, worker[w].resource)
  <2>1. worker' = [worker EXCEPT ![w] = r] /\ lock' = lock
    BY <1>2 DEF Admit
  <2>2. r.row = "open"
    BY DEF Converging
  <2> HIDE DEF r
  <2> QED BY <1>1, <2>1, <2>2, HolderActs
<1>3. CASE ~ worker[w].fg
  <2>1. worker' = [worker EXCEPT ![w] = Idle] /\ Idle.at = "idle"
    BY <1>3 DEF Admit, Idle
  <2> QED BY <1>1, <2>1, HolderActs
<1> QED
  BY <1>2, <1>3

LEMMA HeldStarts ==
    ASSUME Typed, Held, NEW w \in Workers, Start(w)
    PROVE  Held'
<1>1. worker[w].at = "start" /\ lockLost' = lockLost /\ worker[w] \in Run
  BY WorkerKinds DEF Start, EndRun, Typed, Works
<1>2. \/ worker' = [worker EXCEPT ![w] = Idle]
      \/ worker' = [worker EXCEPT ![w] = [worker[w] EXCEPT !.at = "claim"]] /\ lock' = lock
  BY DEF Start, EndRun, Stand
<1>3. Idle.at = "idle" /\ [worker[w] EXCEPT !.at = "claim"].row = worker[w].row
  BY <1>1, RunForms DEF Idle
<1> QED
  BY <1>1, <1>2, <1>3, HolderActs

\* Every step of a rollout keeps the workflow it has, or ends the run.
LEMMA HeldAdvances ==
    ASSUME Typed, Held, NEW w \in Workers, Advances(w)
    PROVE  Held'
<1> DEFINE me == worker[w]
<1>1. worker[w].at \in Claiming \cup Claimed /\ worker[w].at # "start"
  BY DEF Advances, Claim, Plan, Reobserve, BeginEdge, RunPhase, PhaseFails, RecordPhase,
         FinishEdge, Stop, WalkedAll, Claiming, Claimed
<1>2. worker[w] \in Run /\ worker[w].at # "idle" /\ Works(w)
  BY <1>1, WorkerKinds DEF Typed, WorkerTyped, Claiming, Claimed, Works
<1>3. ASSUME NEW r, worker' = [worker EXCEPT ![w] = r], lockLost' = lockLost,
             r.at = "idle" \/ (lock' = lock /\ r.row = worker[w].row)
      PROVE  Held'
  BY <1>2, <1>3, HolderActs
<1>4. ASSUME NEW status, Fail(w, status) PROVE Held'
  BY <1>3, <1>4 DEF Fail, EndRun, Idle
<1>5. CASE Claim(w)
  <2> DEFINE r == [worker[w] EXCEPT !.at = "plan", !.fence = deployments[x(w)].gen + 1]
  <2>1. \/ Fail(w, "failed")
        \/ worker' = [worker EXCEPT ![w] = r] /\ lock' = lock /\ lockLost' = lockLost
    BY <1>5 DEF Claim
  <2>2. r.row = worker[w].row
    BY <1>2, RunForms
  <2> HIDE DEF r
  <2> QED BY <1>3, <1>4, <2>1, <2>2
<1>6. CASE Plan(w)
  <2> DEFINE r == [worker[w] EXCEPT !.at = "edge", !.left = Planned(x(w)), !.seen = targets[x(w)]]
  <2>1. \/ Fail(w, "failed")
        \/ worker' = [worker EXCEPT ![w] = r] /\ lock' = lock /\ lockLost' = lockLost
    BY <1>6 DEF Plan
  <2>2. r.row = worker[w].row
    BY <1>2, RunForms
  <2> HIDE DEF r
  <2> QED BY <1>3, <1>4, <2>1, <2>2
<1>7. CASE Reobserve(w)
  <2> DEFINE r == [worker[w] EXCEPT !.left = @ \ {NextEdge(w)}]
             s == [worker[w] EXCEPT !.at = "stop"]
  <2>1. /\ worker' = [worker EXCEPT ![w] = r] \/ worker' = [worker EXCEPT ![w] = s]
        /\ lock' = lock /\ lockLost' = lockLost
    BY <1>7 DEF Reobserve, Stand, Rest
  <2>2. r.row = worker[w].row /\ s.row = worker[w].row
    BY <1>2, RunForms
  <2> HIDE DEF r, s
  <2> QED BY <1>3, <2>1, <2>2
<1>8. CASE BeginEdge(w)
  <2> DEFINE at == IF targets[x(w)][NextEdge(w)].fence = worker[w].fence THEN "phase" ELSE "stop"
             r == [worker[w] EXCEPT !.edge = NextEdge(w), !.phase = Seen(w).phase, !.at = at]
  <2>1. worker' = [worker EXCEPT ![w] = r] /\ lock' = lock /\ lockLost' = lockLost
    BY <1>8 DEF BeginEdge, Quiet, Rest
  <2>2. r.row = worker[w].row
    BY <1>2, RunForms
  <2> HIDE DEF r
  <2> QED BY <1>3, <2>1, <2>2
<1>9. CASE RunPhase(w)
  <2> DEFINE r == [worker[w] EXCEPT !.at = "record"]
  <2>1. worker' = [worker EXCEPT ![w] = r] /\ lock' = lock /\ lockLost' = lockLost
    BY <1>9 DEF RunPhase, Stand, Quiet, Rest
  <2>2. r.row = worker[w].row
    BY <1>2, RunForms
  <2> HIDE DEF r
  <2> QED BY <1>3, <2>1, <2>2
<1>10. CASE \E fatal \in BOOLEAN : PhaseFails(w, fatal)
  <2> DEFINE r == [worker[w] EXCEPT !.at = "stop"]
  <2>1. \/ Fail(w, "failed")
        \/ worker' = [worker EXCEPT ![w] = r] /\ lock' = lock /\ lockLost' = lockLost
    BY <1>10 DEF PhaseFails, Stand, Rest
  <2>2. r.row = worker[w].row
    BY <1>2, RunForms
  <2> HIDE DEF r
  <2> QED BY <1>3, <1>4, <2>1, <2>2
<1>11. CASE RecordPhase(w)
  <2> DEFINE at == IF Mine(w) THEN "phase" ELSE "stop"
             r == [worker[w] EXCEPT !.phase = NextPhase(worker[w].phase), !.at = at]
  <2>1. worker' = [worker EXCEPT ![w] = r] /\ lock' = lock /\ lockLost' = lockLost
    BY <1>11 DEF RecordPhase, Quiet, Rest
  <2>2. r.row = worker[w].row
    BY <1>2, RunForms
  <2> HIDE DEF r
  <2> QED BY <1>3, <2>1, <2>2
<1>12. CASE FinishEdge(w)
  <2> DEFINE r == [worker[w] EXCEPT !.at = "edge", !.left = @ \ {worker[w].edge}]
  <2>1. worker' = [worker EXCEPT ![w] = r] /\ lock' = lock /\ lockLost' = lockLost
    BY <1>12 DEF FinishEdge, Done, Quiet, Rest
  <2>2. r.row = worker[w].row
    BY <1>2, RunForms
  <2> HIDE DEF r
  <2> QED BY <1>3, <2>1, <2>2
<1>13. CASE Stop(w)
  <2> DEFINE r == [worker[w] EXCEPT !.at = "complete"]
  <2>1. worker' = [worker EXCEPT ![w] = r] /\ lock' = lock /\ lockLost' = lockLost
    BY <1>13 DEF Stop, Stand, Quiet, Rest
  <2>2. r.row = worker[w].row
    BY <1>2, RunForms
  <2> HIDE DEF r
  <2> QED BY <1>3, <2>1, <2>2
<1>14. CASE WalkedAll(w)
  <2> DEFINE all == \A e \in Planned(x(w)) : targets[x(w)][e].status = "succeeded"
             r == [worker[w] EXCEPT !.at = "complete", !.ok = all]
  <2>1. worker' = [worker EXCEPT ![w] = r] /\ lock' = lock /\ lockLost' = lockLost
    BY <1>14 DEF WalkedAll, Quiet, Rest
  <2> HIDE DEF all
  <2>2. r.row = worker[w].row
    BY <1>2, RunForms
  <2> HIDE DEF r
  <2> QED BY <1>3, <2>1, <2>2
<1> HIDE DEF me
<1> QED
  BY <1>5, <1>6, <1>7, <1>8, <1>9, <1>10, <1>11, <1>12, <1>13, <1>14 DEF Advances

LEMMA HeldStep ==
    ASSUME Typed, Held, [FleetNext]_fleet
    PROVE  Held'
<1>1. CASE Outside
  <2>1. worker' = worker
    BY <1>1, OutsideTyped
  <2>2. CASE LoseLock
    BY <2>2 DEF LoseLock, Held
  <2>3. CASE ~ LoseLock
    <3>1. lock' = lock /\ lockLost' = lockLost
      BY <1>1, <2>3 DEF Outside, Edit, IssueCertificate, Register, Remove, Teardown, Drop
    <3> QED BY <2>1, <3>1 DEF Held
  <2> QED BY <2>2, <2>3
<1>2. ASSUME NEW w \in Workers, Act(w) PROVE Held'
  <2>1. CASE \/ /\ Len(deployments) < MaxDeployments
                /\ \E r \in Requests[Len(deployments) + 1] :
                    \/ Deploy(w, r.fg, r.check, r.limit)
                    \/ \E i \in Ids : r.limit = 0 /\ Rollback(w, r.fg, r.check, i)
             \/ ConvergeRequirement(w)
    BY <2>1, Requested, HeldRequests
  <2>2. CASE (\E i \in queue : Deliver(w, i) \/ DeliverFinished(w, i)) \/ Initialize(w)
    BY <2>2, HeldDelivers
  <2>3. CASE Interrupt(w) \/ Crash(w) \/ Complete(w)
    <3>1. worker[w].at # "idle"
      BY <2>3 DEF Interrupt, Crash, Complete, Works
    <3>2. Ends(w)
      <4>1. CASE Interrupt(w) \/ Crash(w)
        BY <4>1 DEF Interrupt, Crash, Ends, state, Terminal, Settled
      <4>2. CASE Complete(w)
        BY <4>2 DEF Complete, Works, Fail, EndRun, Ends, state, Terminal
      <4> QED BY <2>3, <4>1, <4>2
    <3> QED BY <3>1, <3>2, HeldEnds
  <2>4. CASE Admit(w)
    BY <2>4, HeldAdmits
  <2>5. CASE Start(w)
    BY <2>5, HeldStarts
  <2>6. CASE Advances(w)
    BY <2>6, HeldAdvances
  <2> QED BY <1>2, <2>1, <2>2, <2>3, <2>4, <2>5, <2>6, Zenon DEF Act, Converge, Advances
<1>3. CASE UNCHANGED fleet
  BY <1>3 DEF fleet, Held
<1> QED
  BY <1>1, <1>2, <1>3 DEF FleetNext, Outside

-----------------------------------------------------------------------------
(* What a rollout that succeeds leaves on the edges.                       *)

\* Nothing is decided before the walk is over.
Underway == Claiming \cup (Claimed \ {"complete"})
Undecided == \A v \in Workers : worker[v].at \in Underway => ~ worker[v].ok

LEMMA UndecidedMoves ==
    ASSUME Undecided, NEW w \in Workers,
           \A v \in Workers : v # w => worker'[v] = worker[v],
           \/ worker'[w].at \notin Underway
           \/ ~ worker'[w].ok
           \/ worker[w].at \in Underway /\ worker'[w].ok = worker[w].ok
    PROVE  Undecided'
  BY DEF Undecided

\* Those a review marks keep what they decided.
LEMMA UndecidedReview ==
    ASSUME Typed, Undecided, NEW v \in Workers, Still(v), worker'[v].at \in Underway
    PROVE  ~ worker'[v].ok
<1>1. WorkerTyped(v)
  BY DEF Typed
<1>2. worker'[v].at = worker[v].at
  BY <1>1, StillRemembers
<1>3. Works(v)
  BY <1>2 DEF Underway, Claiming, Claimed, Works
<1> QED
  BY <1>1, <1>2, <1>3, StillRemembers DEF Undecided

LEMMA UndecidedDelivers ==
    ASSUME Typed, Undecided, NEW w \in Workers,
           \/ \E i \in queue : Deliver(w, i) \/ DeliverFinished(w, i)
           \/ Initialize(w)
    PROVE  Undecided'
<1>1. CASE \E i \in queue : DeliverFinished(w, i)
  BY <1>1 DEF DeliverFinished, Undecided
<1>2. CASE Initialize(w)
  <2>1. \A v \in Workers : Still(v)
    BY <1>2, ReviewTyped DEF Initialize, Still
  <2> QED BY <2>1, UndecidedReview DEF Undecided
<1>3. CASE \E i \in queue : Deliver(w, i)
  <2>1. PICK i \in queue : Deliver(w, i)
    BY <1>3
  <2> DEFINE r == Converging(i, deployments[i].status, FALSE, i)
             resources == IF deployments[i].status = "running" THEN {i} ELSE {}
  <2>2. worker' = [ReviewedOf(resources) EXCEPT ![w] = r]
    BY <2>1 DEF Deliver
  <2>3. ~ r.ok
    BY DEF Converging
  <2> HIDE DEF r, resources
  <2>4. worker'[w] = r /\ \A v \in Workers : v # w => Still(v)
    BY <2>2, ReviewTyped DEF Still
  <2> QED BY <2>3, <2>4, UndecidedReview DEF Undecided
<1> QED
  BY <1>1, <1>2, <1>3

LEMMA UndecidedActs ==
    ASSUME Typed, Undecided, NEW w \in Workers, Act(w), ~ Advances(w)
    PROVE  Undecided'
<1>1. ASSUME NEW r, worker' = [worker EXCEPT ![w] = r],
             \/ r.at \notin Underway
             \/ ~ r.ok
             \/ worker[w].at \in Underway /\ r.ok = worker[w].ok
      PROVE  Undecided'
  BY <1>1, MovedWorker, UndecidedMoves
<1>2. Idle.at \notin Underway
  BY DEF Idle, Underway, Claiming, Claimed
<1>3. CASE \/ /\ Len(deployments) < MaxDeployments
              /\ \E r \in Requests[Len(deployments) + 1] :
                  \/ Deploy(w, r.fg, r.check, r.limit)
                  \/ \E i \in Ids : r.limit = 0 /\ Rollback(w, r.fg, r.check, i)
           \/ ConvergeRequirement(w)
  <2>1. PICK r : Asked(r) /\ Hold(w, r)
    BY <1>3, Requested
  <2>2. r.at = "admit"
    BY <2>1 DEF Asked, Request
  <2> QED BY <1>1, <2>1, <2>2 DEF Hold, Underway, Claiming, Claimed
<1>4. CASE (\E i \in queue : Deliver(w, i) \/ DeliverFinished(w, i)) \/ Initialize(w)
  BY <1>4, UndecidedDelivers
<1>5. CASE Interrupt(w) \/ Crash(w) \/ Complete(w)
  <2>1. worker' = [worker EXCEPT ![w] = Idle]
    BY <1>5 DEF Interrupt, Crash, Complete, Fail, EndRun
  <2> QED BY <1>1, <1>2, <2>1
<1>6. CASE Admit(w)
  <2> DEFINE r == Converging(Len(deployments) + 1, "queued", TRUE, worker[w].resource)
  <2>1. worker' = [worker EXCEPT ![w] = r] \/ worker' = [worker EXCEPT ![w] = Idle]
    BY <1>6 DEF Admit
  <2>2. ~ r.ok
    BY DEF Converging
  <2> HIDE DEF r
  <2> QED BY <1>1, <1>2, <2>1, <2>2
<1>7. CASE Start(w)
  <2>1. worker[w].at = "start" /\ worker[w] \in Run
    BY <1>7, WorkerKinds DEF Start, Typed, Works
  <2>2. \/ worker' = [worker EXCEPT ![w] = Idle]
        \/ worker' = [worker EXCEPT ![w] = [worker[w] EXCEPT !.at = "claim"]]
    BY <1>7 DEF Start, EndRun, Stand
  <2>3. [worker[w] EXCEPT !.at = "claim"].ok = worker[w].ok
    BY <2>1 DEF Run
  <2>4. worker[w].at \in Underway
    BY <2>1 DEF Underway, Claiming
  <2> QED BY <1>1, <1>2, <2>2, <2>3, <2>4
<1> QED
  BY <1>3, <1>4, <1>5, <1>6, <1>7, Zenon DEF Act, Converge, Advances

LEMMA UndecidedAdvances ==
    ASSUME Typed, Phased, Undecided, NEW w \in Workers, Advances(w)
    PROVE  Undecided'
<1>1. worker[w].at = "complete" \/ worker[w].at \in Underway
  BY DEF Advances, Claim, Plan, Reobserve, BeginEdge, RunPhase, PhaseFails, RecordPhase,
         FinishEdge, Stop, WalkedAll, Underway, Claiming, Claimed
<1>2. CASE Claim(w) \/ Plan(w)
  <2>1. worker[w].at \in {"claim", "plan"} /\ worker[w] \in Run
    BY <1>2, WorkerKinds DEF Claim, Plan, Typed, Works
  <2>2. ASSUME NEW status, Fail(w, status) PROVE Undecided'
    <3>1. worker' = [worker EXCEPT ![w] = Idle]
      BY <2>2 DEF Fail, EndRun
    <3> QED BY <3>1, MovedWorker, UndecidedMoves DEF Idle, Underway, Claiming, Claimed
  <2>3. CASE Claim(w)
    <3> DEFINE r == [worker[w] EXCEPT !.at = "plan", !.fence = deployments[x(w)].gen + 1]
    <3>1. Fail(w, "failed") \/ worker' = [worker EXCEPT ![w] = r]
      BY <2>3 DEF Claim
    <3>2. r.ok = worker[w].ok
      BY <2>1 DEF Run
    <3> HIDE DEF r
    <3> QED BY <2>1, <2>2, <3>1, <3>2, MovedWorker, UndecidedMoves DEF Underway, Claiming, Claimed
  <2>4. CASE Plan(w)
    <3> DEFINE r == [worker[w] EXCEPT !.at = "edge", !.left = Planned(x(w)), !.seen = targets[x(w)]]
    <3>1. Fail(w, "failed") \/ worker' = [worker EXCEPT ![w] = r]
      BY <2>4 DEF Plan
    <3>2. r.ok = worker[w].ok
      BY <2>1 DEF Run
    <3> HIDE DEF r
    <3> QED BY <2>1, <2>2, <3>1, <3>2, MovedWorker, UndecidedMoves DEF Underway, Claiming, Claimed
  <2> QED BY <1>2, <2>3, <2>4
<1>3. CASE ~ Claim(w) /\ ~ Plan(w)
  <2>1. \A v \in Workers : v # w => worker'[v] = worker[v]
    BY <1>3, MovesUnderFence DEF Moves
  <2>2. worker[w].at \in Walking \cup {"stop"} /\ worker[w].at \in Underway
    BY <1>3 DEF Advances, Reobserve, BeginEdge, RunPhase, PhaseFails, RecordPhase, FinishEdge,
                Stop, WalkedAll, Walking, Underway, Claimed
  <2>3. worker'[w].ok = worker[w].ok \/ worker'[w].at \in {"idle", "complete"}
    <3>1. CASE RunPhase(w)
      BY <2>2, <3>1, RunPhaseTyped DEF RunPhase, Phased, PhasedWorker, Walking, Staged
    <3>2. CASE RecordPhase(w)
      BY <2>2, <3>2, RecordTyped DEF RecordPhase, Phased, PhasedWorker, Walking
    <3>3. CASE Reobserve(w) \/ BeginEdge(w) \/ FinishEdge(w)
      BY <3>3, ReobserveTyped, BeginTyped, FinishTyped
    <3>4. CASE (\E fatal \in BOOLEAN : PhaseFails(w, fatal)) \/ Stop(w) \/ WalkedAll(w)
      BY <3>4, PhaseFailsTyped, StopTyped, WalkedTyped
    <3> QED BY <1>3, <3>1, <3>2, <3>3, <3>4 DEF Advances
  <2> QED BY <2>1, <2>2, <2>3, UndecidedMoves DEF Underway, Claiming, Claimed
<1> QED
  BY <1>2, <1>3

\* What a worker that applies a release has left behind: each edge it is done
\* with serves that release, unless it was torn down since.
Reaches(w, e) == serving[e].now \in {Release(w), Bare}
ServedBy(w) ==
    Works(w) /\ ~ deployments[x(w)].check =>
       /\ worker[w].at \in Walking =>
             \A f \in Planned(x(w)) : f \in worker[w].left \cup Trusted(w) \/ Reaches(w, f)
       /\ worker[w].at = "phase" /\ worker[w].phase = "verify" =>
             worker[w].edge \in Trusted(w) \/ Reaches(w, worker[w].edge)
       /\ worker[w].at = "record" /\ NextPhase(worker[w].phase) # "stage" =>
             Reaches(w, worker[w].edge)
       /\ worker[w].at = "complete" /\ worker[w].ok =>
             \A f \in Planned(x(w)) : f \in Trusted(w) \/ Reaches(w, f)
AllServed == ~ lockLost => \A w \in Workers : ServedBy(w)

\* A worker that stands still while edges are torn down at most.
LEMMA StillServed ==
    ASSUME Typed, Grows, NEW v \in Workers, Still(v), ServedBy(v),
           \A e \in Edges : serving'[e].now \in {serving[e].now, Bare}
    PROVE  ServedBy(v)'
<1>1. WorkerTyped(v) /\ worker'[v].at = worker[v].at
  BY StillRemembers DEF Typed
<1>2. CASE Works(v)
  <2>1. /\ x(v) \in Ids /\ worker'[v].id = x(v) /\ worker'[v].left = worker[v].left
        /\ worker'[v].seen = worker[v].seen /\ worker'[v].edge = worker[v].edge
        /\ worker'[v].phase = worker[v].phase /\ worker'[v].ok = worker[v].ok
    BY <1>1, <1>2, StillRemembers DEF WorkerTyped, x
  <2>2. /\ deployments'[x(v)].check = deployments[x(v)].check
        /\ deployments'[x(v)].release = deployments[x(v)].release
        /\ Planned(x(v))' = Planned(x(v))
    BY <2>1 DEF Grows, DeploymentsGrow, PlansStand, Planned, x
  <2>3. Trusted(v)' = Trusted(v)
    BY <2>1, <2>2 DEF Trusted
  <2>4. Release(v)' = Release(v)
    BY <2>1, <2>2 DEF Release, x
  <2>5. ASSUME NEW f \in Edges, Reaches(v, f) PROVE Reaches(v, f)'
    BY <2>4, <2>5 DEF Reaches
  <2>6. \A f \in Planned(x(v)) : f \in Edges
    BY DEF Planned
  <2>7. worker[v].at \in {"phase", "record"} => worker[v].edge \in Planned(x(v))
    BY <1>1, <1>2 DEF WorkerTyped
  <2>8. (deployments[x(v)].check)' = deployments[x(v)].check
    BY <2>1, <2>2 DEF x
  <2>9. Works(v)' /\ NextPhase(worker[v].phase)' = NextPhase(worker[v].phase)
    BY <1>1, <1>2, <2>1 DEF Works, NextPhase
  <2>10. worker[v].at \in {"phase", "record"} =>
           (Reaches(v, worker[v].edge) => Reaches(v, worker[v].edge)')
    BY <2>1, <2>4, <2>6, <2>7 DEF Reaches
  <2> HIDE DEF Reaches, Trusted
  <2>11. ASSUME ~ deployments[x(v)].check, worker[v].at \in Walking
         PROVE  \A f \in Planned(x(v))' : f \in (worker[v].left \cup Trusted(v))' \/ Reaches(v, f)'
    BY <1>2, <2>1, <2>2, <2>3, <2>5, <2>6, <2>11 DEF ServedBy
  <2>12. ASSUME ~ deployments[x(v)].check, worker[v].at = "complete", worker[v].ok
         PROVE  \A f \in Planned(x(v))' : f \in Trusted(v)' \/ Reaches(v, f)'
    BY <1>2, <2>1, <2>2, <2>3, <2>5, <2>6, <2>12 DEF ServedBy
  <2>13. ASSUME ~ deployments[x(v)].check, worker[v].at = "phase", worker[v].phase = "verify"
         PROVE  (worker[v].edge \in Trusted(v) \/ Reaches(v, worker[v].edge))'
    BY <1>2, <2>1, <2>3, <2>10, <2>13 DEF ServedBy
  <2>14. ASSUME ~ deployments[x(v)].check, worker[v].at = "record",
                NextPhase(worker[v].phase) # "stage"
         PROVE  Reaches(v, worker[v].edge)'
    BY <1>2, <2>10, <2>14 DEF ServedBy
  <2> QED
    BY <1>1, <2>1, <2>8, <2>9, <2>11, <2>12, <2>13, <2>14 DEF ServedBy
<1>3. CASE ~ Works(v)
  BY <1>1, <1>3 DEF ServedBy, Works
<1> QED
  BY <1>2, <1>3

\* Outside a rollout the edges change by a teardown only.
LEMMA ServedOutside ==
    ASSUME Typed, AllServed, Outside
    PROVE  AllServed'
<1>1. Grows /\ \A v \in Workers : Still(v)
  BY OutsideTyped DEF Still
<1>2. \A e \in Edges : serving'[e].now \in {serving[e].now, Bare}
  <2>1. CASE \E e \in Edges : Teardown(e)
    BY <2>1 DEF Teardown, Typed, StateTyped
  <2>2. CASE ~ \E e \in Edges : Teardown(e)
    BY <2>2 DEF Outside, Edit, IssueCertificate, LoseLock, Register, Remove, Drop
  <2> QED BY <2>1, <2>2
<1>3. ~ lockLost' => ~ lockLost
  BY DEF Outside, Edit, IssueCertificate, LoseLock, Register, Remove, Teardown, Drop
<1> QED
  BY <1>1, <1>2, <1>3, StillServed DEF AllServed

LEMMA ServedActs ==
    ASSUME Typed, AllServed, NEW w \in Workers, Act(w), ~ Advances(w)
    PROVE  AllServed'
<1>1. Grows /\ Aside
  BY ActsAside
<1>2. serving' = serving /\ lockLost' = lockLost
  BY DEF Act, Converge, Advances, Deploy, Rollback, ConvergeRequirement, Hold, Deliver,
         DeliverFinished, Initialize, Interrupt, Crash, Admit, Start, Complete, Fail, EndRun
<1>3. ASSUME ~ lockLost, NEW v \in Workers PROVE ServedBy(v)'
  <2>1. CASE worker'[v].at \in Fresh
    BY <2>1 DEF ServedBy, Fresh, Walking, Claiming
  <2>2. CASE Still(v)
    BY <1>1, <1>2, <1>3, <2>2, StillServed DEF AllServed
  <2> QED BY <1>1, <2>1, <2>2 DEF Aside
<1> QED
  BY <1>2, <1>3 DEF AllServed

\* A step of a rollout: the edge it is done with serves the release.
LEMMA OwnServed ==
    ASSUME Typed, Phased, Undecided, NEW w \in Workers, Advances(w), ServedBy(w)
    PROVE  ServedBy(w)'
<1>1. CASE worker'[w].at \notin Walking \cup {"complete"}
  BY <1>1 DEF ServedBy, Walking
<1>2. CASE worker'[w].at \in Walking \cup {"complete"}
  <2>1. Grows /\ ~ Claim(w)
    <3>1. CASE Claim(w)
      <4>1. worker'[w].at \in {"plan", "idle"}
        <5> DEFINE r == [worker[w] EXCEPT !.at = "plan", !.fence = deployments[x(w)].gen + 1]
        <5>1. Works(w)
          BY <3>1 DEF Claim, Works
        <5>2. worker[w] \in Run
          BY <5>1, WorkerKinds DEF Typed
        <5>3. r.at = "plan"
          BY <5>2 DEF Run
        <5>4. worker' = [worker EXCEPT ![w] = Idle] \/ worker' = [worker EXCEPT ![w] = r]
          BY <3>1 DEF Claim, Fail, EndRun
        <5> HIDE DEF r
        <5> QED BY <5>3, <5>4, MovedWorker DEF Idle
      <4> QED BY <1>2, <4>1 DEF Walking
    <3> QED BY <3>1, PhasedAdvances
  <2>2. Works(w) /\ x(w) \in Ids /\ worker'[w].id = x(w) /\ WorkerTyped(w)
    <3>1. Works(w)
      BY DEF Advances, Claim, Plan, Reobserve, BeginEdge, RunPhase, PhaseFails, RecordPhase,
             FinishEdge, Stop, WalkedAll, Works
    <3>2. x(w) \in Ids /\ WorkerTyped(w)
      BY <3>1 DEF Typed, WorkerTyped
    <3>3. CASE Plan(w)
      <4>1. Fail(w, "failed") \/ worker'[w].id = x(w)
        <5>1. worker[w] \in Run /\ worker \in [Workers -> {Idle} \cup Request \cup Run]
          BY <3>1, WorkerKinds DEF Typed
        <5>2. [worker[w] EXCEPT !.at = "edge", !.left = Planned(x(w)), !.seen = targets[x(w)]].id = x(w)
          BY <5>1 DEF Run, x
        <5> QED BY <3>3, <5>1, <5>2 DEF Plan
      <4>2. Fail(w, "failed") => worker'[w] = Idle
        BY MovedWorker DEF Fail, EndRun
      <4> QED BY <1>2, <3>1, <3>2, <4>1, <4>2 DEF Idle, Walking
    <3>4. CASE ~ Plan(w)
      BY <1>2, <2>1, <3>1, <3>2, <3>4, MovesUnderFence DEF Moves, Walking
    <3> QED BY <3>3, <3>4
  <2>3. /\ Planned(x(w))' = Planned(x(w)) /\ x(w)' = x(w)
        /\ (deployments[x(w)].check)' = deployments[x(w)].check /\ Release(w)' = Release(w)
    BY <2>1, <2>2 DEF Grows, DeploymentsGrow, PlansStand, Planned, x, Release
  <2>4. worker'[w].seen = worker[w].seen => Trusted(w)' = Trusted(w)
    BY <2>3 DEF Trusted
  <2>5. \A f \in Edges : serving'[f] = serving[f] /\ Reaches(w, f) => Reaches(w, f)'
    BY <2>3 DEF Reaches
  <2>6. \A f \in Planned(x(w)) : f \in Edges
    BY DEF Planned
  <2>7. worker[w].at \in Underway => ~ worker[w].ok
    BY DEF Undecided
  <2>8. SUFFICES ASSUME ~ deployments[x(w)].check PROVE ServedBy(w)'
    BY <2>3 DEF ServedBy
  <2>9. CASE Plan(w)
    <3>1. worker[w] \in Run /\ worker \in [Workers -> {Idle} \cup Request \cup Run]
      BY <2>2, WorkerKinds DEF Typed
    <3>2. Fail(w, "failed") => worker'[w] = Idle
      BY MovedWorker DEF Fail, EndRun
    <3> DEFINE r == [worker[w] EXCEPT !.at = "edge", !.left = Planned(x(w)), !.seen = targets[x(w)]]
    <3>3. Fail(w, "failed") \/ worker' = [worker EXCEPT ![w] = r]
      BY <2>9 DEF Plan
    <3>4. r.at = "edge" /\ r.left = Planned(x(w))
      BY <3>1 DEF Run
    <3> HIDE DEF r
    <3>5. worker'[w].at = "edge" /\ worker'[w].left = Planned(x(w))
      BY <1>2, <3>2, <3>3, <3>4, MovedWorker DEF Idle, Walking
    <3> QED BY <2>3, <3>5 DEF ServedBy
  <2>10. CASE Reobserve(w)
    <3>1. worker[w].at = "edge" /\ worker[w].left # {}
      BY <2>10 DEF Reobserve
    <3>2. /\ worker'[w].at = "edge" /\ worker'[w].left = worker[w].left \ {NextEdge(w)}
          /\ worker'[w].seen = worker[w].seen /\ serving' = serving
          /\ Passes(w, NextEdge(w))
      BY <1>2, <2>10, ReobserveTyped DEF Walking
    <3>3. Reaches(w, NextEdge(w))
      BY <2>8, <3>2 DEF Passes, Reaches
    <3> QED BY <2>2, <2>3, <2>4, <2>5, <2>6, <2>8, <3>1, <3>2, <3>3 DEF ServedBy, Walking
  <2>11. CASE BeginEdge(w)
    <3>1. worker[w].at = "edge" /\ worker[w].left # {}
      BY <2>11 DEF BeginEdge
    <3>2. /\ worker'[w].at = "phase" /\ worker'[w].left = worker[w].left
          /\ worker'[w].seen = worker[w].seen /\ serving' = serving
          /\ worker'[w].edge = NextEdge(w)
          /\ worker'[w].phase = worker[w].seen[NextEdge(w)].phase
          /\ worker[w].seen[NextEdge(w)].status # "succeeded"
      BY <1>2, <2>11, BeginTyped DEF Walking
    <3>3. NextEdge(w) \in Planned(x(w))
      BY <3>1, WalkerKnows DEF Walking
    <3>4. worker'[w].phase = "verify" => worker'[w].edge \in Trusted(w)
      BY <3>2, <3>3 DEF Trusted
    <3> QED BY <2>2, <2>3, <2>4, <2>5, <2>6, <2>8, <3>1, <3>2, <3>4 DEF ServedBy, Walking
  <2>12. CASE RunPhase(w)
    <3>1. worker[w].at = "phase" /\ worker[w].edge \in worker[w].left
      BY <2>12, WalkerKnows DEF RunPhase, Walking
    <3>2. /\ worker'[w].at = "record" /\ worker'[w].left = worker[w].left
          /\ worker'[w].seen = worker[w].seen /\ worker'[w].edge = worker[w].edge
          /\ worker'[w].phase = worker[w].phase
          /\ \A f \in Edges : f # worker[w].edge => serving'[f] = serving[f]
          /\ NextPhase(worker[w].phase) # "stage" => serving'[worker[w].edge].now = Release(w)
      BY <2>8, <2>12, RunPhaseTyped
    <3>3. NextPhase(worker[w].phase)' # "stage" => Reaches(w, worker[w].edge)'
      BY <2>3, <3>2 DEF Reaches
    <3>4. ASSUME NEW f \in Planned(x(w))
          PROVE  f \in worker[w].left \cup Trusted(w) \/ Reaches(w, f)'
      <4>1. f \in worker[w].left \cup Trusted(w) \/ Reaches(w, f)
        BY <2>2, <2>8, <3>1 DEF ServedBy, Walking
      <4>2. f \notin worker[w].left => serving'[f] = serving[f]
        BY <2>6, <3>1, <3>2
      <4> QED BY <2>5, <2>6, <4>1, <4>2
    <3>5. (worker[w].left \cup Trusted(w))' = worker[w].left \cup Trusted(w)
      BY <2>4, <3>2
    <3>6. \A f \in Planned(x(w))' : f \in (worker[w].left \cup Trusted(w))' \/ Reaches(w, f)'
      BY <2>3, <3>4, <3>5
    <3> HIDE DEF Reaches, Trusted
    <3> QED BY <3>2, <3>3, <3>6 DEF ServedBy
  <2>13. CASE \E fatal \in BOOLEAN : PhaseFails(w, fatal)
    BY <1>2, <2>13, PhaseFailsTyped DEF Walking
  <2>14. CASE RecordPhase(w)
    <3>1. worker[w].at = "record" /\ worker[w].edge \in Edges
      <4>1. worker[w].at = "record"
        BY <2>14 DEF RecordPhase
      <4> QED BY <2>6, <4>1, WalkerKnows DEF Walking
    <3>2. NextPhase(worker[w].phase) \in Phases
      BY <3>1 DEF Phased, PhasedWorker, Walking
    <3>3. /\ worker'[w].at = "phase" /\ worker'[w].left = worker[w].left
          /\ worker'[w].seen = worker[w].seen /\ serving' = serving
          /\ worker'[w].edge = worker[w].edge
          /\ worker'[w].phase = NextPhase(worker[w].phase)
      BY <1>2, <2>14, <3>2, RecordTyped DEF Walking
    <3>4. worker'[w].phase = "verify" => Reaches(w, worker[w].edge)
      BY <2>2, <2>8, <3>1, <3>3 DEF ServedBy
    <3> QED BY <2>2, <2>3, <2>4, <2>5, <2>6, <2>8, <3>1, <3>3, <3>4 DEF ServedBy, Walking
  <2>15. CASE FinishEdge(w)
    <3>1. worker[w].at = "phase"
      BY <2>15 DEF FinishEdge
    <3>2. /\ worker'[w].at = "edge" /\ worker'[w].left = worker[w].left \ {worker[w].edge}
          /\ worker'[w].seen = worker[w].seen /\ serving' = serving
          /\ worker[w].phase = "verify"
      BY <2>8, <2>15, FinishTyped DEF LastPhase
    <3> QED BY <2>2, <2>3, <2>4, <2>5, <2>6, <2>8, <3>1, <3>2 DEF ServedBy, Walking
  <2>16. CASE Stop(w)
    <3>1. worker[w].at = "stop" /\ worker[w].at \in Underway
      BY <2>16 DEF Stop, Underway, Claimed
    <3>2. worker'[w].at = "complete" /\ ~ worker'[w].ok
      BY <2>7, <2>16, <3>1, StopTyped
    <3> QED BY <3>2 DEF ServedBy, Walking
  <2>17. CASE WalkedAll(w)
    <3>1. /\ worker'[w].at = "complete" /\ worker[w].at = "edge" /\ worker[w].left = {}
          /\ worker'[w].seen = worker[w].seen /\ serving' = serving
      BY <2>17, WalkedTyped
    <3> QED BY <2>2, <2>3, <2>4, <2>5, <2>6, <2>8, <3>1 DEF ServedBy, Walking
  <2> QED BY <2>1, <2>9, <2>10, <2>11, <2>12, <2>13, <2>14, <2>15, <2>16, <2>17 DEF Advances
<1> QED
  BY <1>1, <1>2

\* Whoever rolls out holds the lock, so nobody else does.
LEMMA ServedAdvances ==
    ASSUME Typed, Phased, Held, Undecided, AllServed, NEW w \in Workers, Advances(w)
    PROVE  AllServed'
<1>1. lockLost' = lockLost
  BY DEF Advances, Claim, Plan, Reobserve, BeginEdge, RunPhase, PhaseFails, RecordPhase,
         FinishEdge, Stop, WalkedAll, Fail, EndRun, Quiet, Rest
<1>2. worker[w].at # "idle"
  BY DEF Advances, Claim, Plan, Reobserve, BeginEdge, RunPhase, PhaseFails, RecordPhase,
         FinishEdge, Stop, WalkedAll
<1>3. \A v \in Workers : v # w => worker'[v] = worker[v]
  <2>1. CASE Claim(w) \/ Plan(w)
    <3>1. \E r : worker' = [worker EXCEPT ![w] = r]
      BY <2>1 DEF Claim, Plan, Fail, EndRun
    <3> QED BY <3>1, MovedWorker
  <2>2. CASE ~ Claim(w) /\ ~ Plan(w)
    BY <2>2, MovesUnderFence DEF Moves
  <2> QED BY <2>1, <2>2
<1>4. ASSUME ~ lockLost, NEW v \in Workers, v # w PROVE ServedBy(v)'
  <2>1. worker'[v].at = "idle"
    BY <1>2, <1>3, <1>4 DEF Held
  <2> QED BY <2>1 DEF ServedBy, Works
<1>5. ASSUME ~ lockLost PROVE ServedBy(w)'
  BY <1>5, OwnServed DEF AllServed
<1> QED
  BY <1>1, <1>4, <1>5 DEF AllServed

LockInv == Held /\ Undecided /\ AllServed

LEMMA LockStep ==
    ASSUME FleetInv, LockInv, [FleetNext]_fleet
    PROVE  LockInv'
<1> USE DEF FleetInv, LockInv
<1>1. Held'
  BY HeldStep
<1>2. CASE Outside
  <2>1. worker' = worker
    BY <1>2, OutsideTyped
  <2> QED BY <1>1, <1>2, <2>1, ServedOutside DEF Undecided
<1>3. ASSUME NEW w \in Workers, Act(w) PROVE LockInv'
  BY <1>1, <1>3, UndecidedActs, ServedActs, UndecidedAdvances, ServedAdvances
<1>4. CASE UNCHANGED fleet
  <2>1. Undecided'
    BY <1>4 DEF fleet, Undecided
  <2>2. AllServed'
    <3>1. Grows
      BY <1>4, InvStep
    <3> QED BY <1>4, <3>1, StillServed DEF fleet, AllServed, Still, Typed, StateTyped
  <2> QED BY <1>1, <2>1, <2>2
<1> QED
  BY <1>2, <1>3, <1>4 DEF FleetNext, Outside

LEMMA LockInvHolds == FleetSpec => []LockInv
<1>1. FleetInit => LockInv
  <2> SUFFICES ASSUME FleetInit PROVE LockInv
    OBVIOUS
  <2>1. \A v \in Workers : worker[v].at = "idle"
    BY DEF FleetInit, Idle
  <2> QED BY <2>1 DEF LockInv, Held, Undecided, AllServed, ServedBy, Works, Underway, Claiming, Claimed
<1>2. FleetInv /\ LockInv /\ [FleetNext]_fleet => LockInv'
  BY LockStep
<1> QED
  BY <1>1, <1>2, FleetInvHolds, PTL DEF FleetSpec

(* A restart sends no workflow to review whose process is still running it. *)
THEOREM NoReviewOfTheLiving == FleetSpec => []NoLiveReview
<1>1. LockInv => NoLiveReview
  BY DEF LockInv, Held, NoLiveReview, Works
<1> QED
  BY <1>1, LockInvHolds, PTL

(* A deployment that succeeds under the lock leaves each of its edges       *)
(* serving its release, but for those torn down meanwhile or taken on trust. *)
THEOREM SuccessServes == FleetSpec => SuccessIsServed
<1> DEFINE All == \A w \in Workers : Succeeds(w) =>
         \A e \in Planned(x(w)) \ Trusted(w) : serving'[e].now \in {Release(w), Bare}
<1>1. ASSUME FleetInv, LockInv, FleetNext PROVE All
  <2> SUFFICES ASSUME NEW w \in Workers, Succeeds(w), NEW e \in Planned(x(w)) \ Trusted(w)
               PROVE  serving'[e].now \in {Release(w), Bare}
    OBVIOUS
  <2> USE DEF FleetInv, LockInv
  <2>1. /\ worker[w].at = "complete" /\ worker'[w] # worker[w] /\ ~ lockLost
        /\ deployments[x(w)].status # "succeeded"
        /\ deployments'[x(w)].status = "succeeded" /\ ~ deployments[x(w)].check
    BY DEF Succeeds
  <2>2. Works(w) /\ x(w) \in Ids
    BY <1>1, <2>1 DEF Works, Typed, WorkerTyped
  <2>3. ~ Outside
    BY <1>1, <2>1, OutsideTyped
  <2>4. PICK v \in Workers : Act(v)
    BY <1>1, <2>3 DEF FleetNext, Outside
  <2>5. lock = w /\ \A u \in Workers : u # w => worker[u].at = "idle"
    BY <1>1, <2>1 DEF Held
  <2>6. deployments' # deployments
    BY <2>1
  <2>7. \/ Admit(v) \/ Start(v) \/ Claim(v) \/ Plan(v) \/ Complete(v) \/ Interrupt(v)
        \/ \E fatal \in BOOLEAN : PhaseFails(v, fatal)
    <3>1. ~ \E i \in queue : Deliver(v, i) \/ DeliverFinished(v, i)
      BY <2>6 DEF Deliver, DeliverFinished
    <3>2. ~ (\/ /\ Len(deployments) < MaxDeployments
                /\ \E r \in Requests[Len(deployments) + 1] :
                        \/ Deploy(v, r.fg, r.check, r.limit)
                        \/ \E i \in Ids : r.limit = 0 /\ Rollback(v, r.fg, r.check, i)
             \/ ConvergeRequirement(v))
      BY <2>6 DEF Deploy, Rollback, ConvergeRequirement, Hold, records
    <3>3. ~ Initialize(v) /\ ~ Crash(v)
      BY <2>6 DEF Initialize, Crash
    <3>4. /\ ~ Reobserve(v) /\ ~ BeginEdge(v) /\ ~ RunPhase(v) /\ ~ RecordPhase(v) /\ ~ FinishEdge(v)
          /\ ~ Stop(v) /\ ~ WalkedAll(v)
      BY <2>6 DEF Reobserve, BeginEdge, RunPhase, RecordPhase, FinishEdge, Stop, WalkedAll, Rest, Quiet
    <3> QED BY <2>4, <3>1, <3>2, <3>3, <3>4 DEF Act, Converge
  <2>8. v = w
    <3>1. worker[v].at # "idle"
      BY <2>7 DEF Admit, Start, Claim, Plan, Complete, Interrupt, PhaseFails, Works
    <3> QED BY <2>5, <3>1
  <2>9. Complete(w) \/ Interrupt(w)
    BY <2>1, <2>7, <2>8 DEF Admit, Start, Claim, Plan, PhaseFails
  <2>10. \A status \in Terminal : deployments' = Settled(w, status) => status = "succeeded"
    <3>1. ASSUME NEW status \in Terminal, deployments' = Settled(w, status)
          PROVE  deployments'[x(w)].status = status
      <4>1. deployments[x(w)] \in Deployment
        BY <1>1, <2>2, DeploymentFields
      <4>2. deployments'[x(w)] = [deployments[x(w)] EXCEPT !.status = status]
        BY <2>2, <3>1 DEF Settled, Ids
      <4> QED BY <4>1, <4>2 DEF Deployment
    <3> QED BY <2>1, <3>1
  <2>11. worker[w].ok /\ serving' = serving
    BY <2>6, <2>9, <2>10 DEF Complete, Interrupt, Fail, Terminal
  <2>12. ServedBy(w)
    BY <1>1, <2>1 DEF AllServed
  <2> QED BY <2>1, <2>2, <2>11, <2>12 DEF ServedBy, Reaches
<1>2. FleetInv /\ LockInv /\ [FleetNext]_fleet => [All]_fleet
  BY <1>1
<1> QED
  BY <1>2, FleetInvHolds, LockInvHolds, PTL DEF FleetSpec, SuccessIsServed

==============================================================================

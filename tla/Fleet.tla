------------------------------- MODULE Fleet --------------------------------
(***************************************************************************)
(* Deployments over the fleet: how one is admitted, delivered, converged   *)
(* edge by edge under a fence, resumed after a crash, rolled back and      *)
(* ended, and how that answers the durable requirement a new certificate   *)
(* raises.  The workers are the processes of a controller: its CLI, its    *)
(* API and its job worker.  Edges are numbered in the order of their names.*)
(*                                                                         *)
(* An edge is what it serves and what it would restore: EdgeRollout has    *)
(* the transaction behind that.  PREPARE and VALIDATE change nothing on an *)
(* edge; with STAGE, which changes nothing it serves, they are one phase.  *)
(***************************************************************************)
EXTENDS Naturals, FiniteSets, Sequences

CONSTANTS
    Workers,            \* processes over one state directory
    NoWorker,           \* nobody holds the deployment lock
    Edges,              \* the numbers of the edges there may be
    Retention,          \* finished checks that are kept
    MaxDeployments,     \* bound: deployments ever admitted
    Requests,           \* what the n-th deployment is asked for as: in the
                        \* foreground or not, a check or not, of the whole
                        \* fleet (0) or one edge
    MaxDoc,             \* bound: the last version of what an operator writes
    MaxEvents           \* bound: certificates issued, edges taken out, phases failed,
                        \* runs interrupted, processes or locks lost

ASSUME FleetAssumption ==
    /\ NoWorker \notin Workers
    /\ Edges \subseteq Nat /\ IsFiniteSet(Edges)
    /\ {Retention, MaxDeployments, MaxDoc, MaxEvents} \subseteq Nat
    /\ Requests \in [1..MaxDeployments ->
          SUBSET [fg : BOOLEAN, check : BOOLEAN, limit : Edges \cup {0}]]

VARIABLES
    canonical,      \* desired state: what an operator wrote, and the certificate
    required,       \* the CERTIFICATES requirement is pending
    roster,         \* the edges registered
    torn,           \* those whose teardown reported clean, not dropped yet
    deployments,    \* the deployments, in the order of their creation
    targets,        \* per deployment: the rows of its edges
    queue,          \* the deployments a live job would deliver
    lock,           \* the deployment lock
    worker,         \* per worker: where it stands
    serving,        \* per edge: what it serves, and what a withdrawal restores
    events,         \* such events so far
    lockLost        \* the lock file was lost once

state == <<canonical, required, roster, torn>>
records == <<deployments, targets, queue>>
fleet == <<canonical, required, roster, torn, deployments, targets, queue, lock,
            worker, serving, events, lockLost>>

Statuses == {"queued", "running", "succeeded", "failed", "abandoned", "pruned"}
Terminal == {"succeeded", "failed", "abandoned"}
TargetStatuses == {"none", "pending", "running", "succeeded", "failed", "skipped"}
Phases == {"none", "stage", "activate", "verify"}
Inputs == [doc : 0..MaxDoc, cert : 0..MaxEvents]
Bare == [doc |-> MaxDoc + 1, cert |-> 0]     \* an edge stripped of everything
Ids == DOMAIN deployments

Idle == [at |-> "idle"]
x(w) == worker[w].id
Row(w) == targets[x(w)][worker[w].edge]
Release(w) == deployments[x(w)].release
Mine(w) == Row(w).fence = worker[w].fence

Event == events < MaxEvents /\ events' = events + 1

Stand(w, at) == worker' = [worker EXCEPT ![w].at = at]

\* The phase after the last recorded one.
NextPhase(phase) == CASE phase = "none" -> "stage"
                      [] phase = "stage" -> "activate"
                      [] phase = "activate" -> "verify"
LastPhaseApplied(check) == "verify"                                       \* mutant
LastPhase(check) == IF check THEN "stage" ELSE "verify"

\* The rows of a deployment, as the rollout read them after its plan.
Planned(i) == {e \in Edges : targets[i][e].status # "none"}

\* The first of a set of edges in the order of their names.
FirstUnordered(edges) == CHOOSE e \in edges : \A f \in edges : f <= e      \* mutant
First(edges) == CHOOSE e \in edges : \A f \in edges : e <= f

FleetInit ==
    /\ canonical = [doc |-> 0, cert |-> 0]
    /\ required = FALSE
    /\ roster = Edges /\ torn = {}
    /\ deployments = <<>>
    /\ targets = <<>>
    /\ queue = {}
    /\ lock = NoWorker
    /\ worker = [w \in Workers |-> Idle]
    /\ serving = [e \in Edges |-> [now |-> canonical, undo |-> canonical]]
    /\ events = 0 /\ lockLost = FALSE

-----------------------------------------------------------------------------
(* Desired state, which no edit takes the deployment lock for.             *)

Edit ==
    /\ canonical.doc < MaxDoc
    /\ canonical' = [canonical EXCEPT !.doc = @ + 1]
    /\ UNCHANGED <<events, required, roster, torn, records, lock, worker, serving, lockLost>>

\* A certificate is activated, and the fleet owes it, in one transaction.
IssueCertificate ==
    /\ lock = NoWorker
    /\ canonical' = [canonical EXCEPT !.cert = @ + 1]
    /\ required' = TRUE
    /\ Event
    /\ UNCHANGED <<roster, torn, records, lock, worker, serving, lockLost>>

(* The roster.  Neither registering an edge nor taking one out holds the   *)
(* deployment lock.                                                        *)

Register(e) ==
    /\ roster' = roster \cup {e} /\ roster' # roster
    /\ UNCHANGED <<canonical, required, torn, records, lock, worker, serving, events, lockLost>>

\* The entry goes without a teardown, or with a forced one that failed.
Remove(e) ==
    /\ roster' = roster \ {e} /\ roster' # roster
    /\ Event
    /\ UNCHANGED <<canonical, required, torn, records, lock, worker, serving, lockLost>>

\* Decommissioning strips the edge while its entry can still address it; a
\* teardown that fails keeps the entry.
Teardown(e) ==
    /\ e \in roster \ torn
    /\ torn' = torn \cup {e}
    /\ serving' = [serving EXCEPT ![e] = [now |-> Bare, undo |-> Bare]]
    /\ Event
    /\ UNCHANGED <<canonical, required, roster, records, lock, worker, lockLost>>

\* Then the entry is deleted, whatever the edge has become since.
Drop(e) ==
    /\ e \in torn
    /\ torn' = torn \ {e}
    /\ roster' = roster \ {e}
    /\ UNCHANGED <<canonical, required, records, lock, worker, serving, events, lockLost>>

-----------------------------------------------------------------------------
(* Admission.  A foreground request opens its workflow first; the release  *)
(* is compiled and stored before the transaction that admits it.           *)

\* A deployment converges, whole or of one edge, what is canonical now.
Forward(fg, check, limit) ==
    [at |-> "admit", fg |-> fg, check |-> check, limit |-> limit, of |-> 0,
     release |-> canonical, digest |-> canonical,
     edges |-> IF limit = 0 THEN roster ELSE roster \cap {limit},
     resource |-> 0, row |-> IF fg THEN "open" ELSE "none"]

\* A rollback converges what a deployment applied, and remembers what was
\* canonical when it began.
Backward(fg, check, i) ==
    [Forward(fg, check, 0) EXCEPT !.of = i, !.release = deployments[i].release,
                                  !.resource = i]

Applied(i) == deployments[i].status = "succeeded" /\ ~deployments[i].check

\* The newest deployment of the whole fleet that applied another release.
Newest(is) == {i \in is : \A j \in is : j <= i}
RollbackTarget ==
    Newest({i \in Ids : Applied(i) /\ deployments[i].limit = 0
                        /\ deployments[i].release # canonical})

Hold(w, request) ==
    /\ lock = NoWorker
    /\ lock' = w
    /\ worker' = [worker EXCEPT ![w] = request]
    /\ UNCHANGED <<state, records, serving, events, lockLost>>

Deploy(w, fg, check, limit) ==
    /\ worker[w].at = "idle"
    /\ Hold(w, Forward(fg, check, limit))

Rollback(w, fg, check, i) ==
    /\ worker[w].at = "idle"
    /\ Applied(i) \/ i \in RollbackTarget
    /\ Hold(w, Backward(fg, check, i))

\* The maintenance job finds a requirement pending, takes the lock when nobody
\* has it, and leaves it to a deployment of the whole fleet that is queued.
Waiting == {i \in Ids : /\ deployments[i].status = "queued"
                        /\ ~deployments[i].check
                        /\ deployments[i].limit = 0
                        /\ deployments[i].of = 0}
ConvergeRequirement(w) ==
    /\ worker[w].at = "idle"
    /\ required /\ Waiting = {}
    /\ Len(deployments) < MaxDeployments
    /\ Hold(w, Forward(FALSE, FALSE, 0))

\* What a worker that converges remembers.
Converging(i, was, fg, resource) ==
    [at |-> "start", id |-> i, was |-> was, fg |-> fg, resource |-> resource,
     row |-> "open", fence |-> 0, left |-> {}, seen |-> <<>>, phase |-> "none",
     edge |-> 0, ok |-> FALSE]

\* Finished checks beyond the newest are dropped with their rows.
Kept(ds) ==
    LET finished == {i \in DOMAIN ds : ds[i].check /\ ds[i].status \in Terminal}
        newer(i) == {j \in finished : j > i}
    IN [i \in DOMAIN ds |-> IF i \in finished /\ Cardinality(newer(i)) >= Retention
                            THEN [ds[i] EXCEPT !.status = "pruned"] ELSE ds[i]]

\* The deployment, its targets and its job are one transaction.
Admit(w) ==
    LET r == worker[w]
        i == Len(deployments) + 1
        edges == IF r.of = 0 THEN r.edges ELSE roster
        new == [status |-> "queued", release |-> r.release, check |-> r.check,
                limit |-> r.limit, of |-> r.of, digest |-> r.digest, gen |-> 0]
    IN /\ r.at = "admit"
       /\ deployments' = Kept(Append(deployments, new))
       /\ targets' = Append(targets, [e \in Edges |->
             [status |-> IF e \in edges THEN "pending" ELSE "none",
              phase |-> "none", fence |-> 0]])
       /\ IF r.fg
          THEN /\ worker' = [worker EXCEPT ![w] = Converging(i, "queued", TRUE, r.resource)]
               /\ UNCHANGED <<queue, lock>>
          ELSE /\ queue' = queue \cup {i}
               /\ worker' = [worker EXCEPT ![w] = Idle]
               /\ lock' = IF lock = w THEN NoWorker ELSE lock
       /\ UNCHANGED <<state, serving, events, lockLost>>

-----------------------------------------------------------------------------
(* Delivery, and the end of a run.                                         *)

\* Unfinished workflows are marked for review: all of them, or those of some
\* resources.  One whose process still runs would be marked as well.
Resources == Nat
ReviewedOf(resources) ==
    [v \in Workers |->
        IF worker[v].at # "idle" /\ worker[v].row = "open" /\ worker[v].resource \in resources
        THEN [worker[v] EXCEPT !.row = "review"] ELSE worker[v]]

Deliver(w, i) ==
    /\ worker[w].at = "idle" /\ lock = NoWorker
    /\ i \in queue
    /\ deployments[i].status \in {"queued", "running"}
    /\ lock' = w
    /\ worker' = [ReviewedOf(IF deployments[i].status = "running" THEN {i} ELSE {}) EXCEPT
                     ![w] = Converging(i, deployments[i].status, FALSE, i)]
    /\ UNCHANGED <<state, deployments, targets, queue, serving, events, lockLost>>

\* A deployment that is over is not run again.
DeliverFinished(w, i) ==
    /\ worker[w].at = "idle" /\ lock = NoWorker
    /\ i \in queue
    /\ deployments[i].status \notin {"queued", "running"}
    /\ queue' = queue \ {i}
    /\ UNCHANGED <<state, deployments, targets, lock, worker, serving,
                   events, lockLost>>

InitializeUnlocked(w) ==                                                 \* mutant
    /\ worker[w].at = "idle"
    /\ queue' = queue \cup {i \in Ids : deployments[i].status \in {"queued", "running"}}
    /\ worker' = ReviewedOf(Resources)
    /\ UNCHANGED <<state, deployments, targets, lock, serving, events, lockLost>>

\* What a controller's start does, unless another process is converging.
Initialize(w) ==
    /\ worker[w].at = "idle" /\ lock = NoWorker
    /\ queue' = queue \cup {i \in Ids : deployments[i].status \in {"queued", "running"}}
    /\ worker' = ReviewedOf(Resources)
    /\ UNCHANGED <<state, deployments, targets, lock, serving, events, lockLost>>

\* The workflow closes, the lock is given up, and the job is done; the job of a
\* run that raised is delivered again, and finds the deployment over.
EndRun(w, raised) ==
    /\ worker' = [worker EXCEPT ![w] = Idle]
    /\ lock' = IF lock = w THEN NoWorker ELSE lock
    /\ queue' = IF worker[w].fg \/ raised THEN queue ELSE queue \ {x(w)}
    /\ UNCHANGED lockLost

Settled(w, status) == [deployments EXCEPT ![x(w)].status = status]

FailUnchecked(w, status) == deployments' = Settled(w, status) /\ EndRun(w, TRUE) \* mutant

\* A run that ended without a result.  The save is refused when the row has left
\* "running", and nothing is recorded.
Fail(w, status) ==
    /\ deployments' = IF deployments[x(w)].status = "running"
                      THEN Settled(w, status) ELSE deployments
    /\ EndRun(w, TRUE)

-----------------------------------------------------------------------------
(* Convergence.                                                            *)

Start(w) ==
    /\ worker[w].at = "start"
    /\ IF worker[w].was = "queued" /\ deployments[x(w)].status # "queued"
       THEN /\ EndRun(w, TRUE)
            /\ UNCHANGED <<state, deployments, targets, serving, events>>
       ELSE /\ deployments' = Settled(w, IF worker[w].was = "queued"
                                         THEN "running" ELSE deployments[x(w)].status)
            /\ Stand(w, "claim")
            /\ UNCHANGED <<state, targets, queue, lock, serving,
                           events, lockLost>>

RestampAhead(i, fence) ==                                                \* mutant
    [targets EXCEPT ![i] = [e \in Edges |-> [@[e] EXCEPT !.fence = fence + 1]]]
Restamp(i, fence) == [targets EXCEPT ![i] = [e \in Edges |-> [@[e] EXCEPT !.fence = fence]]]

\* A new generation takes every row over at once.  An edge that left the roster
\* since the admission ends the deployment.
Claim(w) ==
    LET fence == deployments[x(w)].gen + 1
    IN /\ worker[w].at = "claim"
       /\ IF Planned(x(w)) \subseteq roster
          THEN /\ deployments' = [deployments EXCEPT ![x(w)].gen = fence]
               /\ targets' = Restamp(x(w), fence)
               /\ worker' = [worker EXCEPT ![w].at = "plan", ![w].fence = fence]
               /\ UNCHANGED <<state, queue, lock, serving, events, lockLost>>
          ELSE Fail(w, "failed") /\ UNCHANGED <<state, targets, serving, events>>

\* A plan of a stale generation is refused; otherwise the rows are read.
Plan(w) ==
    /\ worker[w].at = "plan"
    /\ IF deployments[x(w)].gen = worker[w].fence
       THEN /\ targets' = Restamp(x(w), worker[w].fence)
            /\ worker' = [worker EXCEPT ![w].at = "edge", ![w].left = Planned(x(w)),
                                        ![w].seen = targets[x(w)]]
            /\ UNCHANGED <<state, deployments, queue, lock, serving,
                           events, lockLost>>
       ELSE Fail(w, "failed") /\ UNCHANGED <<state, targets, serving, events>>

NextEdge(w) == First(worker[w].left)
Seen(w) == worker[w].seen[NextEdge(w)]
Done(w) == worker' = [worker EXCEPT ![w].at = "edge", ![w].left = @ \ {worker[w].edge}]

WriteRowUnfenced(w, e, row) == targets' = [targets EXCEPT ![x(w)][e] = row]  \* mutant
\* A write under the fence touches nothing once the rows are another's.
WriteRow(w, e, row) ==
    targets' = IF targets[x(w)][e].fence = worker[w].fence
               THEN [targets EXCEPT ![x(w)][e] = row] ELSE targets
Rest == UNCHANGED <<state, deployments, queue, lock, lockLost>>
Quiet == Rest /\ UNCHANGED events

\* What the edge answers from outside; a check does not ask.
PassesUnseen(w, e) == TRUE                                               \* mutant
Passes(w, e) == deployments[x(w)].check \/ serving[e].now = Release(w)

\* An edge that succeeded before is only observed again; a check takes its word.
Reobserve(w) ==
    LET e == NextEdge(w)
        row == targets[x(w)][e]
    IN /\ worker[w].at = "edge" /\ worker[w].left # {}
       /\ Seen(w).status = "succeeded"
       /\ \/ /\ Passes(w, e)
             /\ worker' = [worker EXCEPT ![w].left = @ \ {e}]
             /\ UNCHANGED targets
             /\ UNCHANGED events
          \/ /\ ~deployments[x(w)].check
             /\ WriteRow(w, e, [row EXCEPT !.status = "failed"])
             /\ Stand(w, "stop")
             /\ IF Passes(w, e) THEN Event ELSE UNCHANGED events
       /\ UNCHANGED serving /\ Rest

\* The rollout was taken over when the row is no longer this worker's.
BeginEdge(w) ==
    LET e == NextEdge(w)
        row == targets[x(w)][e]
    IN /\ worker[w].at = "edge" /\ worker[w].left # {}
       /\ Seen(w).status # "succeeded"
       /\ WriteRow(w, e, [row EXCEPT !.status = "running"])
       /\ worker' = [worker EXCEPT ![w].edge = e, ![w].phase = Seen(w).phase,
                       ![w].at = IF row.fence = worker[w].fence THEN "phase" ELSE "stop"]
       /\ UNCHANGED serving /\ Quiet

\* The run of the next phase: a stage, an activation the edge journals, or an
\* observation from outside that commits it.
RunPhase(w) ==
    LET e == worker[w].edge
        next == NextPhase(worker[w].phase)
        s == serving[e]
        r == Release(w)
    IN /\ worker[w].at = "phase"
       /\ worker[w].phase # LastPhase(deployments[x(w)].check)
       /\ next = "verify" => s.now = r
       /\ serving' = CASE next = "stage" -> serving
                       [] next = "activate" -> [serving EXCEPT ![e] =
                            [now |-> r, undo |-> IF s.now = r THEN s.undo ELSE s.now]]
                       [] next = "verify" -> [serving EXCEPT ![e].undo = r]
       /\ Stand(w, "record")
       /\ UNCHANGED targets /\ Quiet

\* A failed phase is withdrawn when it may have changed the edge, and its row
\* closed.  Ansible that cannot run at all ends the deployment there.
PhaseFails(w, fatal) ==
    LET e == worker[w].edge
        next == NextPhase(worker[w].phase)
    IN /\ worker[w].at = "phase"
       /\ worker[w].phase # LastPhase(deployments[x(w)].check)
       /\ \/ UNCHANGED serving
          \/ next # "stage" /\ serving' = [serving EXCEPT ![e].now = serving[e].undo]
       /\ WriteRow(w, e, [Row(w) EXCEPT !.status = "failed"])
       /\ IF fatal
          THEN Fail(w, "failed") /\ UNCHANGED state
          ELSE Stand(w, "stop") /\ Rest
       /\ IF next = "verify" /\ serving[e].now # Release(w)
          THEN UNCHANGED events ELSE Event

RecordPhase(w) ==
    LET next == NextPhase(worker[w].phase)
    IN /\ worker[w].at = "record"
       /\ WriteRow(w, worker[w].edge, [Row(w) EXCEPT !.phase = next])
       /\ worker' = [worker EXCEPT ![w].phase = next,
                                   ![w].at = IF Mine(w) THEN "phase" ELSE "stop"]
       /\ UNCHANGED serving /\ Quiet

FinishEdge(w) ==
    /\ worker[w].at = "phase"
    /\ worker[w].phase = LastPhase(deployments[x(w)].check)
    /\ WriteRow(w, worker[w].edge, [Row(w) EXCEPT !.status = "succeeded"])
    /\ Done(w)
    /\ UNCHANGED serving /\ Quiet

\* The edges never reached serve what they had, and their rows say so.
Stop(w) ==
    /\ worker[w].at = "stop"
    /\ targets' = [targets EXCEPT ![x(w)] = [e \in Edges |->
          IF @[e].status = "pending" /\ @[e].fence = worker[w].fence
          THEN [@[e] EXCEPT !.status = "skipped"] ELSE @[e]]]
    /\ Stand(w, "complete")
    /\ UNCHANGED serving /\ Quiet

WalkedAll(w) ==
    /\ worker[w].at = "edge" /\ worker[w].left = {}
    /\ worker' = [worker EXCEPT ![w].at = "complete", ![w].ok =
          \A e \in Planned(x(w)) : targets[x(w)][e].status = "succeeded"]
    /\ UNCHANGED <<targets, serving>> /\ Quiet

UnchangedDoc(d) == canonical.doc = d.digest.doc                          \* mutant
UnchangedSince(d) == canonical = d.digest

\* The result, the adoption of a rollback and the end of the requirement are one
\* transaction.  A rollback over an edited desired state adopts nothing.
Complete(w) ==
    LET d == deployments[x(w)]
        applies == worker[w].ok /\ ~d.check
        adopts == applies /\ d.of # 0
    IN /\ worker[w].at = "complete"
       /\ IF d.status # "running" \/ (adopts /\ ~UnchangedSince(d))
          THEN Fail(w, "failed") /\ UNCHANGED state
          ELSE /\ deployments' = Settled(w, IF worker[w].ok THEN "succeeded" ELSE "failed")
               /\ canonical' = IF adopts THEN d.release ELSE canonical
               /\ required' = (required /\ ~applies)
               /\ EndRun(w, FALSE)
               /\ UNCHANGED <<roster, torn>>
       /\ UNCHANGED <<targets, serving, events>>

-----------------------------------------------------------------------------
(* Faults.                                                                 *)

Works(w) == worker[w].at \notin {"idle", "admit"}

\* An operator interrupts a run: the deployment is abandoned where it stands.
Interrupt(w) ==
    /\ Works(w) /\ worker[w].at # "start"
    /\ deployments' = IF deployments[x(w)].status = "running"
                      THEN Settled(w, "abandoned") ELSE deployments
    /\ worker' = [worker EXCEPT ![w] = Idle]
    /\ lock' = IF lock = w THEN NoWorker ELSE lock
    /\ queue' = queue \ {x(w)}
    /\ Event
    /\ UNCHANGED <<state, targets, serving, lockLost>>

\* A process dies: the kernel frees its lock, its workflow stays open, and its
\* job is delivered again unless that was its last attempt.
Crash(w) ==
    /\ worker[w].at # "idle"
    /\ Event
    /\ worker' = [worker EXCEPT ![w] = Idle]
    /\ lock' = IF lock = w THEN NoWorker ELSE lock
    /\ \/ queue' = queue
       \/ Works(w) /\ queue' = queue \ {x(w)}
    /\ UNCHANGED <<state, deployments, targets, serving, lockLost>>

\* The lock file goes from under its holder.
LoseLock ==
    /\ lock # NoWorker
    /\ lock' = NoWorker
    /\ lockLost' = TRUE
    /\ Event
    /\ UNCHANGED <<state, records, worker, serving>>

-----------------------------------------------------------------------------
Converge(w) ==
    \/ Admit(w) \/ Start(w) \/ Claim(w) \/ Plan(w)
    \/ Reobserve(w) \/ BeginEdge(w) \/ RunPhase(w) \/ RecordPhase(w) \/ FinishEdge(w)
    \/ \E fatal \in BOOLEAN : PhaseFails(w, fatal)
    \/ Stop(w) \/ WalkedAll(w) \/ Complete(w)

Act(w) ==
    \/ Converge(w)
    \/ /\ Len(deployments) < MaxDeployments
       /\ \E r \in Requests[Len(deployments) + 1] :
             \/ Deploy(w, r.fg, r.check, r.limit)
             \/ \E i \in Ids : r.limit = 0 /\ Rollback(w, r.fg, r.check, i)
    \/ \E i \in queue : Deliver(w, i) \/ DeliverFinished(w, i)
    \/ ConvergeRequirement(w)
    \/ Initialize(w) \/ Interrupt(w) \/ Crash(w)

FleetNext ==
    \/ Edit
    \/ IssueCertificate
    \/ \E e \in Edges : Register(e) \/ Remove(e) \/ Teardown(e) \/ Drop(e)
    \/ \E w \in Workers : Act(w)
    \/ LoseLock

FleetSpec == FleetInit /\ [][FleetNext]_fleet

-----------------------------------------------------------------------------
(* The variables hold what the tables, the lock file and the processes may *)
(* hold (convergence.py, adapters/persistence.py).                         *)
FleetTypeOK ==
    /\ canonical \in Inputs /\ required \in BOOLEAN /\ roster \subseteq Edges
    /\ \A i \in Ids :
         /\ deployments[i].status \in Statuses
         /\ {deployments[i].release, deployments[i].digest} \subseteq Inputs
         /\ \A e \in Edges : /\ targets[i][e].status \in TargetStatuses
                             /\ targets[i][e].phase \in Phases
                             /\ targets[i][e].fence <= deployments[i].gen
    /\ DOMAIN targets = Ids
    /\ queue \subseteq Ids 
    /\ lock \in Workers \cup {NoWorker}
    /\ serving \in [Edges -> [now : Inputs \cup {Bare}, undo : Inputs \cup {Bare}]]
    /\ torn \subseteq Edges

\* An edge is begun only once every edge before it has succeeded: one bad
\* release stops at the first edge it breaks, whoever resumes the rollout.
EdgesInOrder ==
    [][\A i \in Ids : \A e \in Planned(i) :
         targets'[i][e].status = "running" /\ targets[i][e].status # "running"
         => \A f \in Planned(i) : f < e => targets[i][f].status = "succeeded"]_fleet

\* A deployment that succeeds leaves each of its edges serving its release, the
\* first as well as the last, unless the lock was lost, and except an edge torn
\* down meanwhile or one its run found verified but not finished (rollout.py:113-156, 191-192).
Succeeds(w) == /\ worker[w].at = "complete" /\ worker'[w] # worker[w] /\ ~lockLost
               /\ deployments[x(w)].status # "succeeded"
               /\ deployments'[x(w)].status = "succeeded" /\ ~deployments[x(w)].check
Trusted(w) == {e \in Planned(x(w)) : /\ worker[w].seen[e].phase = "verify"
                                     /\ worker[w].seen[e].status # "succeeded"}
SuccessIsServed ==
    [][\A w \in Workers : Succeeds(w) =>
         \A e \in Planned(x(w)) \ Trusted(w) : serving'[e].now \in {Release(w), Bare}]_fleet

\* Once a rollout is taken over, its rows move under the new generation only:
\* even with the lock lost, the worker that went on records nothing more.
TakeoverIsFinal ==
    [][\A i \in Ids : \A e \in Planned(i) :
         targets'[i][e] # targets[i][e] /\ deployments'[i].gen = deployments[i].gen
         => \E w \in Workers : /\ Works(w) /\ x(w) = i
                               /\ worker[w].fence = deployments[i].gen
                               /\ worker'[w] # worker[w]]_fleet

\* What a finished deployment recorded stands, though two processes end it.
OutcomeStands ==
    [][\A i \in Ids : deployments[i].status \in Terminal
         => deployments'[i].status \in {deployments[i].status, "pruned"}]_fleet

\* A restart sends no workflow to review whose process is still running it.
NoLiveReview ==
    ~lockLost => \A w \in Workers : Works(w) => worker[w].row # "review"

\* A rollback gives no certificate back that was activated while it converged.
AdoptionLosesNothing ==
    [][canonical'.cert < canonical.cert =>
         \E i \in Ids : /\ deployments[i].status # "succeeded"
                        /\ deployments'[i].status = "succeeded"
                        /\ deployments[i].digest.cert = canonical.cert]_fleet

\* A plan or a drift check changes nothing an edge serves.
ChecksTouchNothing ==
    [][serving' # serving /\ torn' = torn =>
         \E w \in Workers : /\ worker[w].at = "phase" /\ worker'[w] # worker[w]
                            /\ ~deployments[x(w)].check]_fleet

-----------------------------------------------------------------------------
(* Said of the program and not kept by its code (README, known gaps); no run *)
(* checks these.                                                             *)

\* "A crash between writing certificate material and converging it loses
\* nothing": the requirement ends once every edge serves the certificate.
RequirementReaches ==
    [][required /\ ~required' /\ ~lockLost =>
         \A e \in roster : serving[e].now.cert = canonical.cert]_fleet
=============================================================================

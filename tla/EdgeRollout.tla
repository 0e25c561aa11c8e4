---------------------------- MODULE EdgeRollout -----------------------------
(***************************************************************************)
(* The deployments of the control plane on one edge: the phases that       *)
(* service/rollout.py walks, with their checkpoints, composed with the     *)
(* edge's configuration transaction.  One deployment converges at a time   *)
(* (the deployment lock); a controller that dies leaves its deployment     *)
(* running at the last checkpoint, and the job queue delivers it again,    *)
(* possibly after other deployments have run.  A deployment interrupted by *)
(* its operator is abandoned where it stands.                              *)
(*                                                                         *)
(* PREPARE and VALIDATE change nothing on an edge and withdraw nothing     *)
(* when they fail: they are folded into STAGE, whose failure does the same.*)
(***************************************************************************)
EXTENDS ConfigurationRelease

CONSTANTS
    Deployments,    \* the deployments that are submitted
    ReleaseOf,      \* the release each of them converges
    MaxLosses       \* bound: crashes of the controller and restarts of the edge

ASSUME RolloutAssumption ==
    /\ ReleaseOf \in [Deployments -> Digests]
    /\ MaxLosses \in Nat

VARIABLES
    deployment,     \* per deployment: its status and the target's checkpoint
    controller,     \* the deployment converging, and where it stands
    losses,         \* crashes and restarts so far
    before,         \* history: the edge as the converging deployment found it
    clean           \* history: no run was lost and no withdrawal broke off yet

control == <<deployment, controller, losses, before, clean>>
allVars == <<vars, control>>

Phases == {"none", "stage", "activate", "verify", "done"}
Converging == {"phase", "run", "withdraw", "withdrawing", "finish", "reobserve",
               "failing", "complete"}
Over == {"succeeded", "failed", "restored", "abandoned"}
Edge == [pointer |-> pointer, records |-> records, runtime |-> runtime]

RolloutTypeOK ==
    /\ TypeOK
    /\ deployment \in [Deployments ->
         [status : {"queued", "running"} \cup Over, phase : Phases]]
    /\ controller.at \in Converging \cup {"idle"}
    /\ controller.at # "idle" => controller.of \in Deployments
    /\ losses \in 0..MaxLosses
    /\ clean \in BOOLEAN

NoWork == [at |-> "idle"]
x == controller.of
Digest == ReleaseOf[x]

\* The phase after the checkpoint: what a resumed edge runs next.
NextPhase(phase) == CASE phase = "none" -> "stage"
                      [] phase = "stage" -> "activate"
                      [] phase = "activate" -> "verify"

Stand(at) == controller' = [controller EXCEPT !.at = at]
Settle(status) ==
    /\ deployment' = [deployment EXCEPT ![x].status = status]
    /\ controller' = NoWork

\* The external verifier asks the edge what it serves.
Serves(d) == runtime = d

RolloutInit ==
    /\ Init
    /\ deployment = [i \in Deployments |-> [status |-> "queued", phase |-> "none"]]
    /\ controller = NoWork
    /\ losses = 0
    /\ before = Edge
    /\ clean = TRUE

-----------------------------------------------------------------------------
TakeUnstarted(i) ==                                                 \* mutant
    /\ controller.at = "idle" /\ Idle
    /\ deployment[i].status = "queued"
    /\ deployment' = [deployment EXCEPT ![i].status = "running"]
    /\ controller' = [of |-> i, at |-> "phase"]
    /\ before' = Edge
    /\ UNCHANGED <<vars, losses, clean>>

\* run_queued: a deployment not started, or one whose controller died, is
\* converged from its checkpoint.  A target that already succeeded is observed
\* again; one whose last phase is recorded has none left to run.
Take(i) ==
    /\ controller.at = "idle" /\ Idle
    /\ deployment[i].status \in {"queued", "running"}
    /\ deployment' = [deployment EXCEPT ![i].status = "running"]
    /\ controller' = [of |-> i,
                      at |-> CASE deployment[i].phase = "done" -> "reobserve"
                               [] deployment[i].phase = "verify" -> "finish"
                               [] OTHER -> "phase"]
    /\ before' = Edge
    /\ UNCHANGED <<vars, losses, clean>>

\* STAGE and ACTIVATE are runs.
StartRun ==
    /\ controller.at = "phase"
    /\ deployment[x].phase \in {"none", "stage"}
    /\ Begin(NextPhase(deployment[x].phase), Digest)
    /\ Stand("run")
    /\ UNCHANGED <<deployment, losses, before, clean>>

\* VERIFY observes the edge from outside, and commits only what it saw served.
Observe ==
    /\ controller.at = "phase"
    /\ deployment[x].phase = "activate"
    /\ Serves(Digest)
    /\ Begin("commit", Digest)
    /\ Stand("run")
    /\ UNCHANGED <<deployment, losses, before, clean>>

\* The edge does not serve the release, or the verifier could not tell.
ObserveFails ==
    /\ controller.at = "phase"
    /\ deployment[x].phase = "activate"
    /\ Stand("withdraw")
    /\ UNCHANGED <<vars, deployment, losses, before, clean>>

RecordPhase ==
    /\ controller.at = "run" /\ Idle /\ run.step = "ok"
    /\ deployment' = [deployment EXCEPT ![x].phase = NextPhase(@)]
    /\ Stand(IF NextPhase(deployment[x].phase) = "verify" THEN "finish" ELSE "phase")
    /\ UNCHANGED <<vars, losses, before, clean>>

\* A failed run withdraws what an activation may have left; an earlier phase
\* has left nothing.
PhaseFails ==
    /\ controller.at = "run" /\ Idle /\ run.step # "ok"
    /\ IF deployment[x].phase = "none"
       THEN Settle("failed")
       ELSE Stand("withdraw") /\ UNCHANGED deployment
    /\ UNCHANGED <<vars, losses, before, clean>>

Withdraw ==
    /\ controller.at = "withdraw"
    /\ Begin("rollback", Digest)
    /\ Stand("withdrawing")
    /\ UNCHANGED <<deployment, losses, before, clean>>

WithdrawnBlindly ==                                                 \* mutant
    /\ controller.at = "withdrawing" /\ Idle
    /\ Settle("restored")
    /\ UNCHANGED <<vars, losses, before, clean>>

\* A failed withdrawal is never reported as a restored service.
Withdrawn ==
    /\ controller.at = "withdrawing" /\ Idle
    /\ Settle(IF run.step = "ok" THEN "restored" ELSE "failed")
    /\ UNCHANGED <<vars, losses, before, clean>>

\* The target is recorded SUCCEEDED ...
Finish ==
    /\ controller.at = "finish"
    /\ deployment' = [deployment EXCEPT ![x].phase = "done"]
    /\ Stand("complete")
    /\ UNCHANGED <<vars, losses, before, clean>>

\* ... or was before its controller died, and is observed again; if it does not
\* serve its release, or that cannot be told, it is recorded FAILED, though its
\* last phase stands.
Reobserve ==
    /\ controller.at = "reobserve"
    /\ Serves(Digest)
    /\ Stand("complete")
    /\ UNCHANGED <<vars, deployment, losses, before, clean>>

ReobserveFails ==
    /\ controller.at = "reobserve"
    /\ deployment' = [deployment EXCEPT ![x].phase = "verify"]
    /\ Stand("failing")
    /\ UNCHANGED <<vars, losses, before, clean>>

Fail ==
    /\ controller.at = "failing"
    /\ Settle("failed")
    /\ UNCHANGED <<vars, losses, before, clean>>

\* _complete_rollout: every target succeeded.
Complete ==
    /\ controller.at = "complete"
    /\ Settle("succeeded")
    /\ UNCHANGED <<vars, losses, before, clean>>

\* The edge's own steps.  A withdrawal that breaks off is remembered.
EdgeStep ==
    /\ RunStep
    /\ UNCHANGED control

EdgeBreaks ==
    /\ Break
    /\ clean' = (clean /\ run.kind \notin Withdrawing)
    /\ UNCHANGED <<deployment, controller, losses, before>>

\* The controller dies, and with it the run it had started.
Crash ==
    /\ controller.at # "idle"
    /\ losses < MaxLosses
    /\ losses' = losses + 1
    /\ clean' = (clean /\ Idle)
    /\ controller' = NoWork
    /\ IF Idle THEN UNCHANGED run ELSE End("lost")
    /\ UNCHANGED <<disk, deployment, before>>

\* The operator interrupts it: nothing is withdrawn, and the deployment is over.
Interrupt ==
    /\ controller.at # "idle"
    /\ losses < MaxLosses
    /\ losses' = losses + 1
    /\ clean' = (clean /\ Idle)
    /\ Settle("abandoned")
    /\ IF Idle THEN UNCHANGED run ELSE End("lost")
    /\ UNCHANGED <<disk, before>>

\* The connection to the edge is lost, or the edge restarts.
EdgeLost ==
    /\ losses < MaxLosses
    /\ Lose \/ Reboot
    /\ losses' = losses + 1
    /\ clean' = (clean /\ Idle)
    /\ UNCHANGED <<deployment, controller, before>>

ControllerStep ==
    \/ \E i \in Deployments : Take(i)
    \/ StartRun \/ Observe \/ ObserveFails \/ RecordPhase \/ PhaseFails
    \/ Withdraw \/ Withdrawn \/ Finish \/ Reobserve \/ ReobserveFails \/ Fail \/ Complete

RolloutNext == ControllerStep \/ EdgeStep \/ EdgeBreaks \/ Crash \/ Interrupt \/ EdgeLost

RolloutSpec == RolloutInit /\ [][RolloutNext]_allVars

\* The queue delivers the job again and the runs of a live controller end.
FairRollout == RolloutSpec /\ WF_allVars(ControllerStep) /\ WF_allVars(EdgeStep \/ EdgeBreaks)

-----------------------------------------------------------------------------
(* Properties.                                                             *)

\* A deployment reported as restored left neither the pointer nor the container
\* on its release.
RestoredIsHonest ==
    [][\A i \in Deployments :
         deployment'[i].status = "restored" /\ deployment[i].status # "restored"
         => /\ pointer # ReleaseOf[i]
            /\ runtime \in {pointer, NoDigest}]_allVars

\* As long as nothing was lost and no withdrawal broke off, a deployment that
\* fails leaves the edge with the pointer, records and container it had found.
FailureLeavesNoTrace ==
    [][\A i \in Deployments :
         /\ clean /\ losses = 0
         /\ deployment'[i].status \in {"failed", "restored"}
         /\ deployment[i].status = "running"
         => Edge = before]_allVars

\* Controllers may die between their runs and other deployments come in between:
\* what is committed is the release the edge holds in every part, so that a
\* restart or a later rollback meets no mixture of two.
CommittedIsWhole ==
    [][\A d \in Digests :
         /\ clean
         /\ journal'[d].status = "committed"
         /\ journal[d].status # "committed"
         => Edge = [pointer |-> d, records |-> [compose |-> d, image |-> d], runtime |-> d]]_allVars

\* Every deployment ends, however its controller and its edge failed.
DeploymentsEnd ==
    \A i \in Deployments :
        <>[](deployment[i].status \in Over)

-----------------------------------------------------------------------------
(* What the sources say, and the code does not keep.                       *)

\* configuration_release.py, activate: a release that is active and has no open
\* transaction was "Already committed".
ActiveWasCommitted ==
    At({"activate"}, "journal") /\ AlreadyActive(run.digest)
    => journal[run.digest].status = "committed"

\* tests/capabilities/deployments/test_rollout.py: worker recovery is
\* "re-observing a completed edge before trusting its checkpoint".
SuccessObserved ==
    [][\A i \in Deployments :
         deployment'[i].status = "succeeded" /\ deployment[i].status # "succeeded"
         => Serves(ReleaseOf[i])]_allVars
=============================================================================

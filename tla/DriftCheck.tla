----------------------------- MODULE DriftCheck -----------------------------
(***************************************************************************)
(* A drift check: a deployment in check mode walks the edges, one run of   *)
(* Ansible for each, stopping at the first failure, and its record is read *)
(* as a report of the fleet.  Another worker resumes it when the first     *)
(* dies.  The lock, the queue and the fences are the subject of Fleet.     *)
(***************************************************************************)
EXTENDS AnsibleRun, Naturals, FiniteSets

CONSTANTS
    MaxCrashes,     \* bound: how often a worker dies
    MaxMoves        \* bound: how often an edge drifts, is mended, goes or comes back

ASSUME DriftAssumption == Edges \subseteq Nat /\ {MaxCrashes, MaxMoves} \subseteq Nat

VARIABLES
    differs,        \* whether a converge would change an edge
    up,             \* whether an edge can be reached
    rows,           \* the target rows
    at,             \* where the worker is in `converge`
    left,           \* edges of the walk to come
    run,            \* the run of the edge at hand
    last,           \* `last_run`
    result,         \* the result on the record
    learned,        \* what the latest run of each edge met there; no part of the system
    crashes, moves

drift == <<differs, up, rows, at, left, run, last, result, learned, crashes, moves>>

NoRow == [status |-> "none", validated |-> FALSE]
Planned == {e \in Edges : rows[e].status # "none"}
First(edges) == CHOOSE e \in edges : \A f \in edges : e <= f
Edge == First(left)

DriftInit ==
    /\ differs \in [Edges -> BOOLEAN]
    /\ up = [e \in Edges |-> TRUE]
    /\ rows = [e \in Edges |-> NoRow]
    /\ at = "idle" /\ left = {}
    /\ run = NoRun /\ last = NoRun /\ result = NoRun
    /\ learned = [e \in Edges |-> "nothing"]
    /\ crashes = 0 /\ moves = 0

Fleet == UNCHANGED <<differs, up, moves>>
Kept == UNCHANGED <<result, crashes>>

-----------------------------------------------------------------------------

\* An edge is edited or mended, lost or found, while the check goes on.
Drift(e) ==
    /\ moves < MaxMoves /\ at # "ended"
    /\ moves' = moves + 1
    /\ \/ differs' = [differs EXCEPT ![e] = ~@] /\ UNCHANGED up
       \/ up' = [up EXCEPT ![e] = ~@] /\ UNCHANGED differs
    /\ UNCHANGED <<rows, at, left, run, last, result, learned, crashes>>

\* The targets are fixed at admission: the fleet or a canary, which may be nobody.
Admit ==
    /\ at = "idle"
    /\ \E targets \in SUBSET Edges :
         rows' = [e \in Edges |-> IF e \in targets THEN [NoRow EXCEPT !.status = "pending"] ELSE NoRow]
    /\ at' = "queued"
    /\ Fleet /\ Kept /\ UNCHANGED <<left, run, last, learned>>

\* A worker takes the deployment up, the first or one after a crash.
Claim ==
    /\ at = "queued"
    /\ at' = "walk" /\ left' = Planned /\ last' = NoRun
    /\ Fleet /\ Kept /\ UNCHANGED <<rows, run, learned>>

\* A check takes a row that succeeded as it stands.
PassOver ==
    /\ at = "walk" /\ left # {} /\ rows[Edge].status = "succeeded"
    /\ left' = left \ {Edge}
    /\ Fleet /\ Kept /\ UNCHANGED <<rows, at, run, last, learned>>

\* `_converge_edge` answers with the run of this edge, if it has one at all.
BeginEdge ==
    /\ at = "walk" /\ left # {} /\ rows[Edge].status # "succeeded"
    /\ rows' = [rows EXCEPT ![Edge].status = "running"]
    /\ last' = NoRun
    /\ IF rows[Edge].validated
       THEN at' = "finish" /\ UNCHANGED <<run, learned>>
       ELSE /\ at' = "run" /\ run' = Launched({Edge})
            /\ learned' = [learned EXCEPT ![Edge] = "nothing"]
    /\ Fleet /\ Kept /\ UNCHANGED left

\* What a check meets on an edge: it fails on the way, or counts what it would change.
Counts(e) ==
    IF ~up[e] THEN {[Zero EXCEPT !.unreachable = TRUE]}
    ELSE {[Zero EXCEPT !.changed = differs[e]]}
         \cup {[Zero EXCEPT !.changed = c, !.failed = TRUE] : c \in {FALSE, differs[e]}}

Met(counts) == CASE ~HostSucceeded(counts) -> "failed"
                 [] counts.changed -> "differs"
                 [] OTHER -> "same"

RunStarts == \E e \in Silent(run) : run' = Started(run, e) /\ UNCHANGED learned
RunWorks ==
    \E e \in AtWork(run) : \E counts \in Counts(e) :
        run' = Finished(run, e, counts) /\ learned' = [learned EXCEPT ![e] = Met(counts)]
RunEnds ==
    /\ \/ AllEnded(run) /\ run' = Recap(run)
       \/ run' = TimedOut(run)
       \/ ~Reported(run) /\ run' = Died(run)
    /\ UNCHANGED learned
RunGoes ==
    /\ at = "run" /\ run.at = "going"
    /\ RunStarts \/ RunWorks \/ RunEnds
    /\ Fleet /\ Kept /\ UNCHANGED <<rows, at, left, last>>

\* The run of one edge ends, and its result takes the place of the one before.
RecordPhase ==
    /\ at = "run" /\ run.at = "ended"
    /\ last' = run /\ run' = NoRun
    /\ IF RunSucceeded(run)
       THEN rows' = [rows EXCEPT ![Edge].validated = TRUE] /\ at' = "finish"
       ELSE rows' = [rows EXCEPT ![Edge].status = "failed"] /\ at' = "stop"
    /\ Fleet /\ Kept /\ UNCHANGED <<left, learned>>

FinishEdge ==
    /\ at = "finish"
    /\ rows' = [rows EXCEPT ![Edge].status = "succeeded"]
    /\ at' = "walk" /\ left' = left \ {Edge}
    /\ Fleet /\ Kept /\ UNCHANGED <<run, last, learned>>

\* Edges after a failure are skipped, not failed.
Stop ==
    /\ at = "stop"
    /\ rows' = [e \in Edges |-> IF rows[e].status = "pending" THEN [rows[e] EXCEPT !.status = "skipped"] ELSE rows[e]]
    /\ at' = "complete"
    /\ Fleet /\ Kept /\ UNCHANGED <<left, run, last, learned>>

Complete ==
    /\ at = "complete" \/ (at = "walk" /\ left = {})
    /\ result' = IF last = NoRun THEN Aborted ELSE last
    /\ at' = "ended"
    /\ Fleet /\ UNCHANGED <<rows, left, run, last, learned, crashes>>

\* Ansible cannot be launched: the edge fails and the deployment with it, no edge skipped.
CannotLaunch ==
    /\ at = "run" /\ run.at = "going" /\ ~Reported(run)
    /\ rows' = [rows EXCEPT ![Edge].status = "failed"]
    /\ result' = Aborted /\ at' = "ended" /\ run' = NoRun
    /\ Fleet /\ UNCHANGED <<left, last, learned, crashes>>

\* The worker dies, and its run with it; the rows stay.
Crash ==
    /\ at \in {"walk", "run", "finish", "stop", "complete"} /\ crashes < MaxCrashes
    /\ crashes' = crashes + 1
    /\ at' = "queued" /\ run' = NoRun /\ last' = NoRun /\ left' = {}
    /\ Fleet /\ UNCHANGED <<rows, result, learned>>

DriftNext ==
    \/ \E e \in Edges : Drift(e)
    \/ Admit \/ Claim \/ PassOver \/ BeginEdge \/ RunGoes \/ RecordPhase \/ FinishEdge
    \/ Stop \/ Complete \/ CannotLaunch \/ Crash

DriftSpec == DriftInit /\ [][DriftNext]_drift

-----------------------------------------------------------------------------
(* The report.                                                             *)

UnreachedNone == {}                                                        \* mutant
Unreached == {e \in Edges : rows[e].status \in {"pending", "skipped"}}
Unanswered == Unattempted(result) \cup Unreached

InSync == /\ Reported(result) /\ Unanswered = {}
          /\ \A e \in DOMAIN result.hosts : HostInSync(result.hosts[e])
Drifted == {e \in DOMAIN result.hosts : result.hosts[e].changed /\ ~result.hosts[e].failed}
Unreachable == {e \in DOMAIN result.hosts : result.hosts[e].unreachable}

-----------------------------------------------------------------------------
(* Properties.                                                             *)

DriftTypeOK ==
    /\ differs \in [Edges -> BOOLEAN] /\ up \in [Edges -> BOOLEAN]
    /\ rows \in [Edges -> [status : {"none", "pending", "running", "succeeded", "failed", "skipped"},
                           validated : BOOLEAN]]
    /\ at \in {"idle", "queued", "walk", "run", "finish", "stop", "complete", "ended"}
    /\ left \subseteq Edges
    /\ RunTypeOK(run) /\ RunTypeOK(last) /\ RunTypeOK(result)
    /\ learned \in [Edges -> {"nothing", "same", "differs", "failed"}]

\* A report undercounts and never invents: an edge it names as drifted was met
\* by this check and would have changed, whatever crashed on the way.
NothingInvented == at = "ended" => \A e \in Drifted : learned[e] = "differs"

\* A check that stopped early never reads as a fleet in sync: an edge it did not
\* ask, or asked and got no answer from in time, keeps the report from saying so
\* unless that edge is the last one and its run was cut at the time limit.
StoppedIsNotInSync ==
    at = "ended" /\ InSync =>
        /\ \A e \in Edges : rows[e].status \notin {"pending", "skipped"}
        /\ \A e \in Planned : rows[e].status = "failed" => result.status = "timed_out"

-----------------------------------------------------------------------------
(* Said of the program and not kept by its code (README, known gaps); no run *)
(* checks these.                                                             *)

\* In sync is said only if every targeted edge was reached and none would change;
\* here of a check in which no run failed.
InSyncIsWhole ==
    at = "ended" /\ InSync /\ (\A e \in Planned : rows[e].status = "succeeded") =>
        \A e \in Planned : learned[e] = "same"

\* In sync is said only if nothing failed.
InSyncNothingFailed == at = "ended" /\ InSync => \A e \in Planned : rows[e].status # "failed"
=============================================================================

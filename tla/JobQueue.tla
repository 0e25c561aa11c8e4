------------------------------ MODULE JobQueue ------------------------------
(***************************************************************************)
(* The durable job queue of the control plane and the worker loop that     *)
(* drains it (capabilities/jobs): one SQLite table of jobs, claimed by     *)
(* workers under a lease and a fence, with retries, deferrals, abandonment *)
(* of jobs that keep losing their worker, and pruning of finished rows.    *)
(*                                                                         *)
(* Every action is one transaction of adapters/persistence.py together     *)
(* with the control that service/queue.py and service/runner.py wrap       *)
(* around it.  A handler is abstracted to the outcome it returns.          *)
(***************************************************************************)
EXTENDS Naturals, FiniteSets

CONSTANTS
    Workers,            \* worker processes
    DeploymentKeys,     \* single-flight (dedupe) keys of deployment jobs,
    ScheduledKeys,      \* of the firings of a schedule,
    OperationKeys,      \* and of the edge operations that have one
    NoKey,              \* the dedupe key of a job that has none
    MaxJobs,            \* bound: how many rows are ever inserted
    DeploymentAttempts, \* max_attempts of a deployment job (3 in the code)
    Lease,              \* the lease a claim starts with
    DeclaredLease,      \* the lease the schedule of a scheduled job declares
    Deferral,           \* the delay a deferred job waits for
    BackoffCap,         \* the ceiling of the retry backoff
    Retention,          \* how many finished rows pruning keeps
    DeferFence          \* bound: a job whose fence got this far is not deferred

Keys == DeploymentKeys \cup ScheduledKeys \cup OperationKeys

ASSUME JobsAssumption ==
    /\ NoKey \notin Keys
    /\ MaxJobs \in Nat
    /\ DeploymentAttempts \in Nat \ {0}
    /\ Lease \in Nat \ {0}
    /\ DeclaredLease \in Nat \ {0}
    /\ Deferral \in Nat \ {0}
    /\ BackoffCap \in Nat \ {0}
    /\ Retention \in Nat
    /\ DeferFence \in Nat

VARIABLES
    clock,      \* the controller's clock
    created,    \* how many rows were ever inserted; ids follow creation order
    rows,       \* the jobs table
    worker      \* what each worker process is doing, and the claim it holds

vars == <<clock, created, rows, worker>>

JobIds == 1..MaxJobs
Kinds == {"deployment", "scheduled", "operation"}
KeysOf(kind) == CASE kind = "deployment" -> DeploymentKeys
                  [] kind = "scheduled"  -> ScheduledKeys
                  [] kind = "operation"  -> OperationKeys \cup {NoKey}
Statuses == {"absent", "pending", "running", "succeeded", "failed"}
Finished == {"succeeded", "failed"}
Unfinished == {"pending", "running"}

\* A lease ends at a tick after 0, so 0 stands for the column's NULL.
NoLease == 0
NoRow == [status |-> "absent", kind |-> "operation", key |-> NoKey,
          attempts |-> 0, available |-> 0, lease |-> NoLease, fence |-> 0]
NoClaim == [pc |-> "idle", job |-> 0, kind |-> "operation", fence |-> 0, attempts |-> 0]

Rows == [status : Statuses, kind : Kinds, key : Keys \cup {NoKey},
         attempts : Nat, available : Nat, lease : Nat, fence : Nat]
WorkerStates == [pc : {"idle", "holding", "running", "pruning"},
                 job : Nat, kind : Kinds, fence : Nat, attempts : Nat]

TypeOK ==
    /\ clock \in Nat
    /\ created \in 0..MaxJobs
    /\ rows \in [JobIds -> Rows]
    /\ worker \in [Workers -> WorkerStates]

-----------------------------------------------------------------------------
(* Reading the table.                                                      *)

MaxAttempts(r) == IF r.kind = "deployment" THEN DeploymentAttempts ELSE 1

Exhausted(r) == r.attempts >= MaxAttempts(r)

\* backoff_for: two seconds doubled per attempt, capped.
BackoffFor(attempt) ==
    LET seconds == 2 ^ (IF attempt > 1 THEN attempt ELSE 1)
    IN  IF seconds \in 0..BackoffCap THEN seconds ELSE BackoffCap

LapsedEarly(r) == r.status = "running" /\ r.lease # NoLease         \* mutant
LapsedNever(r) == FALSE                                             \* mutant
Lapsed(r) == r.status = "running" /\ r.lease # NoLease /\ r.lease <= clock
Claimable(r) == (r.status = "pending" /\ r.available <= clock) \/ Lapsed(r)

\* Its worker is gone and it has no attempt left: the next claim retires it.
Spent(r) == Lapsed(r) /\ Exhausted(r)

InFlightPending(key) ==                                             \* mutant
    key # NoKey /\ \E j \in JobIds : rows[j].status = "pending" /\ rows[j].key = key
\* The partial unique index on dedupe_key.
InFlight(key) ==
    key # NoKey /\ \E j \in JobIds : rows[j].status \in Unfinished /\ rows[j].key = key

\* The claim's ORDER BY available_at, created_at.
Before(i, j) == \/ rows[i].available < rows[j].available
                \/ rows[i].available = rows[j].available /\ i < j

Takeable == {j \in JobIds : Claimable(rows[j]) /\ ~Spent(rows[j])}
Oldest(j) == j \in Takeable /\ \A i \in Takeable \ {j} : Before(j, i)

OwnsByStatus(w) ==                                                  \* mutant
    worker[w].job \in JobIds /\ rows[worker[w].job].status = "running"
\* The WHERE clause of complete, fail, defer and renew.
Owns(w) ==
    /\ worker[w].job \in JobIds
    /\ rows[worker[w].job].status = "running"
    /\ rows[worker[w].job].fence = worker[w].fence

-----------------------------------------------------------------------------
(* Writing a row.                                                          *)

Queued(kind, key) == [NoRow EXCEPT !.status = "pending", !.kind = kind,
                                   !.key = key, !.available = clock]

ClaimedUnfenced(r) == [r EXCEPT !.status = "running",               \* mutant
                                !.attempts = @ + 1,
                                !.lease = clock + Lease]
Claimed(r) == [r EXCEPT !.status = "running",
                        !.fence = @ + 1,
                        !.attempts = @ + 1,
                        !.lease = clock + Lease]

AbandonedByName(r) == [r EXCEPT !.status = "abandoned",             \* mutant
                                !.fence = @ + 1,
                                !.lease = NoLease,
                                !.key = NoKey]
Abandoned(r) == [r EXCEPT !.status = "failed",
                          !.fence = @ + 1,
                          !.lease = NoLease,
                          !.key = NoKey]

Settled(r, status) == [r EXCEPT !.status = status, !.lease = NoLease, !.key = NoKey]

Requeued(r, delay) == [r EXCEPT !.status = "pending",
                                !.lease = NoLease,
                                !.available = clock + delay]

DeferredSpending(r) == [Requeued(r, Deferral) EXCEPT !.fence = @ + 1] \* mutant
Deferred(r) == [Requeued(r, Deferral) EXCEPT !.attempts = @ - 1, !.fence = @ + 1]

\* An UPDATE under the fence: a stale worker's write matches no row.
Recorded(w, new) == IF Owns(w) THEN [rows EXCEPT ![worker[w].job] = new] ELSE rows

\* claim retires the spent rows it meets before the one it takes.
AfterClaim(j) == [i \in JobIds |->
    IF i = j THEN Claimed(rows[i])
    ELSE IF Spent(rows[i]) /\ Before(i, j) THEN Abandoned(rows[i])
    ELSE rows[i]]
AfterRetiring == [i \in JobIds |-> IF Spent(rows[i]) THEN Abandoned(rows[i]) ELSE rows[i]]

PrunableAll(j) ==                                                   \* mutant
    rows[j].status # "absent" /\ Cardinality({i \in JobIds : i > j /\ rows[i].status # "absent"}) >= Retention
\* Finished, and not among the newest Retention finished rows.
Prunable(j) ==
    /\ rows[j].status \in Finished
    /\ Cardinality({i \in JobIds : i > j /\ rows[i].status \in Finished}) >= Retention

-----------------------------------------------------------------------------
Init ==
    /\ clock = 0
    /\ created = 0
    /\ rows = [j \in JobIds |-> NoRow]
    /\ worker = [w \in Workers |-> NoClaim]

\* JobStore.enqueue through enqueue_deployment (keyed by its deployment),
\* enqueue_scheduled (keyed by its schedule) or OperationService.submit (keyed
\* or not).  A key in flight makes the index refuse the row: nothing changes.
Enqueue(kind, key) ==
    /\ created < MaxJobs
    /\ key \in KeysOf(kind)
    /\ ~InFlight(key)
    /\ created' = created + 1
    /\ rows' = [rows EXCEPT ![created + 1] = Queued(kind, key)]
    /\ UNCHANGED <<clock, worker>>

\* A worker takes the oldest runnable job, due or lapsed.
Claim(w) ==
    /\ worker[w].pc = "idle"
    /\ \E j \in JobIds :
        /\ Oldest(j)
        /\ rows' = AfterClaim(j)
        /\ worker' = [worker EXCEPT ![w] =
               [pc |-> IF rows[j].kind = "scheduled" THEN "holding" ELSE "running",
                job |-> j,
                kind |-> rows[j].kind,
                fence |-> Claimed(rows[j]).fence,
                attempts |-> Claimed(rows[j]).attempts]]
    /\ UNCHANGED <<clock, created>>

\* A claim that found nothing to take still commits what it retired.
RetireOnly(w) ==
    /\ worker[w].pc = "idle"
    /\ Takeable = {}
    /\ \E j \in JobIds : Spent(rows[j])
    /\ rows' = AfterRetiring
    /\ UNCHANGED <<clock, created, worker>>

\* _hold_for_declared_lease: the schedule's own lease, under the fence.  A
\* schedule no feature contributes any more declares none.
Hold(w, declared) ==
    /\ worker[w].pc = "holding"
    /\ rows' = IF declared
               THEN Recorded(w, [rows[worker[w].job] EXCEPT !.lease = clock + DeclaredLease])
               ELSE rows
    /\ worker' = [worker EXCEPT ![w].pc = "running"]
    /\ UNCHANGED <<clock, created>>

Report(w, recorded) ==
    /\ worker[w].pc = "running"
    /\ rows' = recorded
    /\ worker' = [worker EXCEPT ![w].pc = "pruning"]
    /\ UNCHANGED <<clock, created>>

Held(w) == rows[worker[w].job]

\* The handler returned Done.
Complete(w) == Report(w, Recorded(w, Settled(Held(w), "succeeded")))

\* The handler returned Fail, has none registered, or returned no outcome.
FailForGood(w) ==
    /\ worker[w].pc = "running"
    /\ worker[w].kind # "scheduled"
    /\ Report(w, Recorded(w, Settled(Held(w), "failed")))

\* The handler returned Retry or raised.  `exhausted` is asked of the job as it
\* was claimed, not as the table has it now.
FailOrRetry(w) ==
    Report(w, Recorded(w, IF Exhausted(worker[w])
                          THEN Settled(Held(w), "failed")
                          ELSE Requeued(Held(w), BackoffFor(worker[w].attempts))))

\* The deployment lock is held elsewhere: requeue without spending the attempt.
Defer(w) ==
    /\ worker[w].pc = "running"
    /\ worker[w].kind = "deployment"
    /\ worker[w].fence < DeferFence
    /\ Report(w, IF Owns(w) /\ Held(w).attempts > 0
                 THEN Recorded(w, Deferred(Held(w)))
                 ELSE rows)

\* JobQueue.prune, after every job run.
Prune(w) ==
    /\ worker[w].pc = "pruning"
    /\ rows' = [j \in JobIds |-> IF Prunable(j) THEN NoRow ELSE rows[j]]
    /\ worker' = [worker EXCEPT ![w] = NoClaim]
    /\ UNCHANGED <<clock, created>>

\* The process dies and is restarted, or an error around the job escapes tick
\* and run_forever carries on: either way the claim is dropped unrecorded.
Lose(w) ==
    /\ worker[w].pc # "idle"
    /\ worker' = [worker EXCEPT ![w] = NoClaim]
    /\ UNCHANGED <<clock, created, rows>>

\* Time passes.  Only the order of the clock against the table's timestamps is
\* ever asked, so a tick matters only while one of them lies ahead.
Tick ==
    /\ \E j \in JobIds : \/ rows[j].status = "pending" /\ rows[j].available > clock
                         \/ rows[j].status = "running" /\ rows[j].lease > clock
    /\ clock' = clock + 1
    /\ UNCHANGED <<created, rows, worker>>

WorkerStep(w) ==
    \/ Claim(w)
    \/ RetireOnly(w)
    \/ \E declared \in BOOLEAN : Hold(w, declared)
    \/ Complete(w)
    \/ FailForGood(w)
    \/ FailOrRetry(w)
    \/ Defer(w)
    \/ Prune(w)

Next ==
    \/ \E kind \in Kinds, key \in Keys \cup {NoKey} : Enqueue(kind, key)
    \/ \E w \in Workers : WorkerStep(w)
    \/ \E w \in Workers : Lose(w)
    \/ Tick

Spec == Init /\ [][Next]_vars

\* A worker keeps polling, handlers return, and time passes.
FairSpec == Spec /\ (\A w \in Workers : WF_vars(WorkerStep(w))) /\ WF_vars(Tick)
-----------------------------------------------------------------------------
(* Properties.                                                             *)

\* Two workers never both own a job, nor own two jobs of one single-flight
\* key: the fence makes every earlier claim of a job stale, and the dedupe
\* index lets a second job of a key in only when the first is over.
ExclusiveRuns ==
    \A v, w \in Workers : v # w /\ Owns(v) /\ Owns(w) =>
        /\ worker[v].job # worker[w].job
        /\ Held(v).key = NoKey \/ Held(v).key # Held(w).key

\* A job is executed at most max_attempts times, deferrals aside, even when
\* every worker that claims it dies: a waiting job has an attempt left, and a
\* running one has not overspent.
AttemptsBounded ==
    \A j \in JobIds :
        /\ rows[j].status = "pending" => rows[j].attempts < MaxAttempts(rows[j])
        /\ rows[j].status = "running" => rows[j].attempts \in 1..MaxAttempts(rows[j])

\* What a worker remembers of its claim is what the row says for as long as it
\* owns the job, so `exhausted` and the backoff are computed from the truth.
SnapshotCurrent ==
    \A w \in Workers : Owns(w) => worker[w].attempts = Held(w).attempts

\* While a lease runs, nobody but the worker it was given to changes the job.
LeaseUndisturbed ==
    [][\A j \in JobIds :
         rows[j].status = "running" /\ rows[j].lease > clock /\ rows'[j] # rows[j]
         => \E w \in Workers : Owns(w) /\ worker[w].job = j /\ worker'[w] # worker[w]]_vars

\* A finished job keeps its outcome until it is pruned, and an unfinished one
\* is never pruned: a late or duplicate report changes nothing.
OutcomesStand ==
    [][\A j \in JobIds :
         /\ rows[j].status \in Finished => rows'[j] \in {rows[j], NoRow}
         /\ rows[j].status \in Unfinished => rows'[j].status # "absent"]_vars

\* Every job that was queued finishes, whatever crashes: a lapsed lease brings
\* it back until its attempts are spent, and the last claim retires it.
JobsFinish ==
    \A j \in JobIds :
        rows[j].status \in Unfinished ~> rows[j].status \notin Unfinished
=============================================================================

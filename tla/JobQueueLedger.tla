--------------------------- MODULE JobQueueLedger ---------------------------
(***************************************************************************)
(* The job queue implements JobLedger: the worker a job is held by is the  *)
(* one whose claim carries the fence the row has now.                      *)
(***************************************************************************)
EXTENDS JobQueue

CONSTANT NoWorker

ASSUME NoWorkerAssumption == NoWorker \notin Workers

Closed(state) == [state |-> state, holder |-> NoWorker, key |-> NoKey,
                  tries |-> 0, limit |-> 0]

OwnerOf(j) ==
    IF \E w \in Workers : Owns(w) /\ worker[w].job = j
    THEN CHOOSE w \in Workers : Owns(w) /\ worker[w].job = j
    ELSE NoWorker
Entry(j) ==
    LET r == rows[j] IN
    CASE r.status = "pending" ->
           [state |-> "waiting", holder |-> NoWorker, key |-> r.key,
            tries |-> r.attempts, limit |-> MaxAttempts(r)]
      [] r.status = "running" ->
           [state |-> "held", holder |-> OwnerOf(j), key |-> r.key,
            tries |-> r.attempts, limit |-> MaxAttempts(r)]
      [] r.status \in Finished -> Closed(r.status)
      [] OTHER -> Closed(IF j <= created THEN "forgotten" ELSE "none")

Ledger == INSTANCE JobLedger WITH
    Jobs <- JobIds,
    Limits <- {1, DeploymentAttempts},
    entry <- [j \in JobIds |-> Entry(j)]

\* The queue keeps the ledger's promise: nobody but the current holder settles
\* a job or hands it back, an outcome is final, and a job is given up only when
\* its last permitted run was lost.
ImplementsLedger == Ledger!Spec
=============================================================================

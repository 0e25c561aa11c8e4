---------------------------- MODULE MCJobQueue -----------------------------
(* A small instance of the job queue.  Keys are disjoint by kind, as the
   prefixes the services put before them make them.                        *)
EXTENDS JobQueueLedger

CONSTANTS w1, w2

MCWorkers == {w1, w2}
=============================================================================

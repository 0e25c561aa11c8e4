------------------------------ MODULE MCFleet -------------------------------
(* Two processes over two edges. *)
EXTENDS Fleet, TLC

CONSTANTS w1, w2
MCWorkers == {w1, w2}
WorkerSymmetry == Permutations(MCWorkers)

Submitted == [fg |-> FALSE, check |-> FALSE, limit |-> 0]
Foreground == [Submitted EXCEPT !.fg = TRUE]

\* One deployment of the fleet, then another or a plan.
MCRequests == <<{Foreground}, {Submitted, [Foreground EXCEPT !.check = TRUE], [Submitted EXCEPT !.limit = 1]}>>
\* A canary of the first edge, then a deployment of the fleet.
CanaryRequests == <<{[Submitted EXCEPT !.limit = 1]}, {Submitted}>>
=============================================================================

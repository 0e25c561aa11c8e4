--------------------------- MODULE MCEdgeRollout ----------------------------
(* Deployments 1 to N of a release each.                                   *)
EXTENDS EdgeRollout, Sequences

CONSTANTS a, b

\* Two releases.
MCTwo == <<a, b>>
\* A release, another, and the first one again.
MCReturn == <<a, b, a>>
\* As MCReturn, and once more.
MCReturnTwice == <<a, b, a, a>>
=============================================================================

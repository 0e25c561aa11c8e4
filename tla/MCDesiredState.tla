--------------------------- MODULE MCDesiredState ---------------------------
(* One zone, name, rule and edge; two processes. *)
EXTENDS DesiredState, TLC

CONSTANTS p1, p2
MCProcesses == {p1, p2}
ProcessSymmetry == Permutations(MCProcesses)
MCChanges == {[servesTls |-> TRUE], [certificate |-> FALSE]}
=============================================================================

---------------------------- MODULE MCDriftCheck ----------------------------
(* Three edges, so that one is skipped after another passed. *)
EXTENDS DriftCheck
=============================================================================

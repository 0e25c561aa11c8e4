------------------------------- MODULE Tables -------------------------------
(* Tables: functions whose domain comes and goes with their entries. *)

Over(f, g) == [x \in DOMAIN f \cup DOMAIN g |-> IF x \in DOMAIN f THEN f[x] ELSE g[x]]
With(f, e, v) == [x \in DOMAIN f \cup {e} |-> IF x = e THEN v ELSE f[x]]
Without(f, keys) == [k \in DOMAIN f \ keys |-> f[k]]
=============================================================================

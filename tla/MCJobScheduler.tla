--------------------------- MODULE MCJobScheduler ---------------------------
(* Two workers and one schedule, which an older release may not contribute. *)
EXTENDS JobScheduler

CONSTANTS w1, w2, s1

MCWorkers == {w1, w2}
MCSchedules == {s1}

\* The feature of the schedule may be removed and come back.
MCInstallations == {{s1}, {}}
=============================================================================

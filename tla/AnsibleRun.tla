----------------------------- MODULE AnsibleRun -----------------------------
(***************************************************************************)
(* One invocation of Ansible, as the control plane reads it.               *)
(*                                                                         *)
(* A run is told of by events: any event of a host makes an entry for it   *)
(* with its counts at zero, and only the recap at the end of the play sets *)
(* the counts.  A run stopped at its time limit has the entries and no     *)
(* recap.  A count is modelled by whether it is above zero.  What the play *)
(* does on a host is the business of the module that runs it: `tally` is   *)
(* what Ansible has counted and not yet told.                              *)
(***************************************************************************)
EXTENDS Tables, TLC

CONSTANT Edges      \* the fleet

HostRun == [changed : BOOLEAN, failed : BOOLEAN, unreachable : BOOLEAN]
Zero == [changed |-> FALSE, failed |-> FALSE, unreachable |-> FALSE]
Nobody == [e \in {} |-> Zero]

HostSucceededReached(h) == ~h.failed                                       \* mutant
HostSucceeded(h) == ~h.failed /\ ~h.unreachable
HostInSync(h) == ~h.changed /\ HostSucceeded(h)

NoRun == [at |-> "none", targeted |-> {}, tally |-> Nobody, hosts |-> Nobody, status |-> "none"]
Heard == UNION {[S -> HostRun] : S \in SUBSET Edges}
Readings ==
    [at : {"none", "going", "ended"}, targeted : SUBSET Edges, tally : Heard, hosts : Heard,
     status : {"none", "succeeded", "failed", "timed_out", "unstarted"}]
RunTypeOK(r) ==
    /\ r \in Readings
    /\ DOMAIN r.tally \subseteq DOMAIN r.hosts /\ DOMAIN r.hosts \subseteq r.targeted

\* The edges of the limit are resolved before the play starts.
Launched(limit) == [NoRun EXCEPT !.at = "going", !.targeted = limit]

\* Hosts a first event may come from, and hosts at work.
Silent(r) == r.targeted \ DOMAIN r.hosts
AtWorkUnheard(r) == r.targeted \ DOMAIN r.tally                           \* mutant
AtWork(r) == DOMAIN r.hosts \ DOMAIN r.tally

Started(r, e) == [r EXCEPT !.hosts = With(@, e, Zero)]
Finished(r, e, counts) == [r EXCEPT !.tally = With(@, e, counts)]

\* The recap comes when every host has ended: the counts, and the exit code.
AllEnded(r) == r.at = "going" /\ DOMAIN r.tally = r.targeted
Status(counts) == IF \A e \in DOMAIN counts : HostSucceeded(counts[e]) THEN "succeeded" ELSE "failed"
RecapShifted(r) ==                                                         \* mutant
    [r EXCEPT !.at = "ended", !.status = Status(r.tally),
              !.hosts = [e \in DOMAIN r.tally |-> [r.tally[e] EXCEPT !.changed = HostSucceeded(r.tally[e])]]]
Recap(r) == [r EXCEPT !.at = "ended", !.hosts = Over(r.tally, @), !.status = Status(r.tally)]

\* The controller stops waiting; whatever the hosts did stays done.
TimedOut(r) == [r EXCEPT !.at = "ended", !.status = "timed_out"]
\* Ansible dies before any host: a play that does not parse, no inventory.
Died(r) == [r EXCEPT !.at = "ended", !.status = "failed"]

Reported(r) == DOMAIN r.hosts # {}
RunSucceeded(r) == r.status = "succeeded"
FailedHosts(r) == {e \in DOMAIN r.hosts : ~HostSucceeded(r.hosts[e])}
Unattempted(r) == IF Reported(r) THEN r.targeted \ DOMAIN r.hosts ELSE {}

\* A result for work that has none: no host is in it.
Aborted == [NoRun EXCEPT !.at = "ended", !.status = "unstarted"]
=============================================================================

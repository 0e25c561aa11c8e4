------------------------------ MODULE JobLedger -----------------------------
(***************************************************************************)
(* What the job queue promises to the services that publish work, with     *)
(* neither rows, fences, leases nor time: a job is held by at most one     *)
(* worker, only its holder reports on it, an outcome is final, a key has   *)
(* one open job, and a job is taken at most `limit` times, times it was    *)
(* handed back unspent aside.                                              *)
(***************************************************************************)
EXTENDS Naturals

CONSTANTS Workers, NoWorker, Jobs, Keys, NoKey, Limits

VARIABLE entry

Open == {"waiting", "held"}

\* An entry that is not open records only how it ended.
Closed(state) == [state |-> state, holder |-> NoWorker, key |-> NoKey,
                  tries |-> 0, limit |-> 0]

Init == entry = [j \in Jobs |-> Closed("none")]

Publish(j, k, limit) ==
    /\ entry[j].state = "none"
    /\ k = NoKey \/ \A i \in Jobs : ~(entry[i].state \in Open /\ entry[i].key = k)
    /\ entry' = [entry EXCEPT ![j] = [state |-> "waiting", holder |-> NoWorker,
                                      key |-> k, tries |-> 0, limit |-> limit]]

\* A held job that was taken as often as it may be, and never reported on, can
\* be given up; any other can be taken, from whoever holds it.
Abandonable(i) == entry[i].state = "held" /\ entry[i].tries = entry[i].limit
Taken(e, w) == [e EXCEPT !.state = "held", !.holder = w, !.tries = @ + 1]

Take(w, j, abandoned) ==
    /\ entry[j].state \in Open /\ entry[j].tries < entry[j].limit
    /\ \A i \in abandoned : Abandonable(i)
    /\ entry' = [i \in Jobs |-> IF i = j THEN Taken(entry[i], w)
                                ELSE IF i \in abandoned THEN Closed("failed")
                                ELSE entry[i]]

Abandon(abandoned) ==
    /\ \A i \in abandoned : Abandonable(i)
    /\ entry' = [i \in Jobs |-> IF i \in abandoned THEN Closed("failed") ELSE entry[i]]

\* The holder reports success, a final failure, or gives the job back with its
\* attempt spent or unspent.
Settle(w, j, outcome) ==
    /\ entry[j].holder = w
    /\ entry' = [entry EXCEPT ![j] = Closed(outcome)]

HandBack(w, j, spent) ==
    /\ entry[j].holder = w
    /\ spent => entry[j].tries < entry[j].limit
    /\ entry' = [entry EXCEPT ![j].state = "waiting", ![j].holder = NoWorker,
                              ![j].tries = IF spent THEN @ ELSE @ - 1]

\* A worker that dies leaves what it held without a holder.
Orphan(w) ==
    entry' = [j \in Jobs |-> IF entry[j].holder = w
                             THEN [entry[j] EXCEPT !.holder = NoWorker]
                             ELSE entry[j]]

Forget(forgotten) ==
    /\ \A j \in forgotten : entry[j].state \in {"succeeded", "failed"}
    /\ entry' = [j \in Jobs |-> IF j \in forgotten THEN Closed("forgotten") ELSE entry[j]]

Next ==
    \/ \E j \in Jobs, k \in Keys \cup {NoKey}, limit \in Limits : Publish(j, k, limit)
    \/ \E w \in Workers, j \in Jobs, abandoned \in SUBSET Jobs : Take(w, j, abandoned)
    \/ \E abandoned \in SUBSET Jobs : Abandon(abandoned)
    \/ \E w \in Workers, j \in Jobs, outcome \in {"succeeded", "failed"} : Settle(w, j, outcome)
    \/ \E w \in Workers, j \in Jobs, spent \in BOOLEAN : HandBack(w, j, spent)
    \/ \E w \in Workers : Orphan(w)
    \/ \E forgotten \in SUBSET Jobs : Forget(forgotten)

Spec == Init /\ [][Next]_entry
=============================================================================

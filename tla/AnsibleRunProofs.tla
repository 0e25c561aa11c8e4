-------------------------- MODULE AnsibleRunProofs --------------------------
(* What the control plane may conclude from a run of Ansible: the readings *)
(* every run has, and from them the safety of a drift check and of a purge *)
(* of the caches, for every fleet, any crashes and any edits meanwhile.    *)
EXTENDS DriftCheck, CachePurge, WellFoundedInduction, TLAPS

-----------------------------------------------------------------------------
(* Counts by host.                                                         *)

\* A function from edges to counts is one of the tables a run may hold.
LEMMA HeardIs ==
    ASSUME NEW S \in SUBSET Edges, NEW h \in [S -> HostRun]
    PROVE  h \in Heard
BY DEF Heard

\* And a table is no more than that.
LEMMA HeardHas ==
    ASSUME NEW h \in Heard
    PROVE  DOMAIN h \subseteq Edges /\ h \in [DOMAIN h -> HostRun]
BY DEF Heard

LEMMA NobodyHeard == Nobody \in Heard /\ DOMAIN Nobody = {}
<1>1. Nobody \in [{} -> HostRun] BY DEF Nobody
<1> QED BY <1>1, HeardIs DEF Nobody

-----------------------------------------------------------------------------
(* The steps of a run.                                                     *)

LEMMA NoRunReads == RunTypeOK(NoRun) /\ NoRun.at = "none" /\ DOMAIN NoRun.hosts = {} /\ DOMAIN NoRun.tally = {}
BY NobodyHeard DEF RunTypeOK, Readings, NoRun

\* A run that cannot be told of has no host in its result.
LEMMA AbortedReads == RunTypeOK(Aborted) /\ DOMAIN Aborted.hosts = {}
BY NobodyHeard DEF RunTypeOK, Readings, NoRun, Aborted

LEMMA LaunchedReads ==
    ASSUME NEW limit \in SUBSET Edges
    PROVE  /\ RunTypeOK(Launched(limit)) /\ Launched(limit).at = "going"
           /\ Launched(limit).targeted = limit
           /\ DOMAIN Launched(limit).hosts = {} /\ DOMAIN Launched(limit).tally = {}
BY NobodyHeard DEF RunTypeOK, Readings, NoRun, Launched

\* A first event makes an entry without counts.
LEMMA StartedReads ==
    ASSUME NEW r, RunTypeOK(r), r.at = "going", NEW e \in Silent(r)
    PROVE  /\ RunTypeOK(Started(r, e)) /\ Started(r, e).at = "going"
           /\ Started(r, e).targeted = r.targeted /\ Started(r, e).tally = r.tally
           /\ DOMAIN Started(r, e).hosts = DOMAIN r.hosts \cup {e}
           /\ Started(r, e).hosts[e] = Zero
           /\ \A f \in DOMAIN r.hosts : Started(r, e).hosts[f] = r.hosts[f]
<1>1. PICK was : was = r.hosts OBVIOUS
<1>0. PICK more : more = With(was, e, Zero) OBVIOUS
<1>2. r \in Readings /\ was \in Heard /\ e \in Edges \ DOMAIN was /\ Zero \in HostRun
  BY <1>1 DEF RunTypeOK, Readings, Silent, Zero, HostRun
<1>3. /\ more \in Heard /\ DOMAIN more = DOMAIN was \cup {e}
      /\ more[e] = Zero /\ \A f \in DOMAIN was : more[f] = was[f]
  <2>1. more \in [DOMAIN was \cup {e} -> HostRun] BY <1>0, <1>2, HeardHas DEF With
  <2>2. more \in Heard BY <1>2, <2>1, HeardHas, HeardIs
  <2>3. more[e] = Zero BY <1>0, <1>2, HeardHas DEF With
  <2>4. \A f \in DOMAIN was : more[f] = was[f] BY <1>0, <1>2, HeardHas DEF With
  <2> QED BY <2>1, <2>2, <2>3, <2>4
<1>4. /\ Started(r, e) \in Readings /\ Started(r, e).at = "going"
      /\ Started(r, e).targeted = r.targeted /\ Started(r, e).tally = r.tally
      /\ Started(r, e).hosts = more
  BY <1>0, <1>1, <1>2, <1>3 DEF Readings, Started
<1> QED BY <1>1, <1>2, <1>3, <1>4 DEF RunTypeOK, Silent

\* The counts of a host are kept aside until the recap.
LEMMA FinishedReads ==
    ASSUME NEW r, RunTypeOK(r), r.at = "going", NEW e \in AtWork(r), NEW c \in HostRun
    PROVE  /\ RunTypeOK(Finished(r, e, c)) /\ Finished(r, e, c).at = "going"
           /\ Finished(r, e, c).targeted = r.targeted /\ Finished(r, e, c).hosts = r.hosts
           /\ DOMAIN Finished(r, e, c).tally = DOMAIN r.tally \cup {e}
           /\ Finished(r, e, c).tally[e] = c
           /\ \A f \in DOMAIN r.tally : Finished(r, e, c).tally[f] = r.tally[f]
<1>1. PICK was : was = r.tally OBVIOUS
<1>0. PICK more : more = With(was, e, c) OBVIOUS
<1>2. r \in Readings /\ was \in Heard /\ e \in Edges \ DOMAIN was /\ e \in DOMAIN r.hosts
  <2>1. r \in Readings /\ was \in Heard /\ r.hosts \in Heard /\ e \in DOMAIN r.hosts /\ e \notin DOMAIN was
    BY <1>1 DEF RunTypeOK, Readings, AtWork
  <2> QED BY <2>1, HeardHas
<1>3. /\ more \in Heard /\ DOMAIN more = DOMAIN was \cup {e}
      /\ more[e] = c /\ \A f \in DOMAIN was : more[f] = was[f]
  <2>1. more \in [DOMAIN was \cup {e} -> HostRun] BY <1>0, <1>2, HeardHas DEF With
  <2>2. more \in Heard BY <1>2, <2>1, HeardHas, HeardIs
  <2>3. more[e] = c BY <1>0, <1>2, HeardHas DEF With
  <2>4. \A f \in DOMAIN was : more[f] = was[f] BY <1>0, <1>2, HeardHas DEF With
  <2> QED BY <2>1, <2>2, <2>3, <2>4
<1>4. /\ Finished(r, e, c) \in Readings /\ Finished(r, e, c).at = "going"
      /\ Finished(r, e, c).targeted = r.targeted /\ Finished(r, e, c).hosts = r.hosts
      /\ Finished(r, e, c).tally = more
  BY <1>0, <1>1, <1>2, <1>3 DEF Readings, Finished
<1> QED BY <1>1, <1>2, <1>3, <1>4 DEF RunTypeOK

\* The recap takes the counts of every host that was targeted, and the run has
\* failed only if one of them did.
LEMMA RecapReads ==
    ASSUME NEW r, RunTypeOK(r), AllEnded(r)
    PROVE  /\ RunTypeOK(Recap(r)) /\ Recap(r).at = "ended"
           /\ Recap(r).targeted = r.targeted /\ Recap(r).tally = r.tally
           /\ DOMAIN Recap(r).hosts = r.targeted
           /\ \A e \in r.targeted : Recap(r).hosts[e] = r.tally[e]
           /\ Recap(r).status \in {"succeeded", "failed"}
           /\ Recap(r).status = "failed" => \E e \in r.targeted : ~HostSucceeded(r.tally[e])
<1>1. PICK tally, hosts, status : tally = r.tally /\ hosts = r.hosts /\ status = Status(tally)
  OBVIOUS
<1>0. PICK told : told = Over(tally, hosts) OBVIOUS
<1>2. /\ r \in Readings /\ tally \in Heard /\ hosts \in Heard
      /\ DOMAIN tally = r.targeted /\ DOMAIN hosts = r.targeted
  BY <1>1 DEF RunTypeOK, Readings, AllEnded
<1>3. /\ told \in Heard /\ DOMAIN told = r.targeted
      /\ \A e \in r.targeted : told[e] = tally[e]
  <2>1. tally \in Heard BY <1>2
  <2>2. hosts \in Heard BY <1>2
  <2>3. told \in [DOMAIN tally \cup DOMAIN hosts -> HostRun] BY <1>0, <2>1, <2>2, HeardHas DEF Over
  <2>4. told \in Heard BY <2>1, <2>2, <2>3, HeardHas, HeardIs
  <2>5. \A e \in DOMAIN tally : told[e] = tally[e] BY <1>0, <2>1, <2>2, HeardHas DEF Over
  <2> QED BY <1>2, <2>3, <2>4, <2>5
<1>4. /\ status \in {"succeeded", "failed"}
      /\ status = "failed" => \E e \in r.targeted : ~HostSucceeded(tally[e])
  BY <1>1, <1>2 DEF Status
<1>5. /\ Recap(r) \in Readings /\ Recap(r).at = "ended"
      /\ Recap(r).targeted = r.targeted /\ Recap(r).tally = r.tally
      /\ Recap(r).hosts = told /\ Recap(r).status = status
  BY <1>0, <1>1, <1>2, <1>3, <1>4 DEF Readings, Recap
<1> QED BY <1>1, <1>2, <1>3, <1>4, <1>5 DEF RunTypeOK

\* A run that is cut short, or dies, ends with the entries it has.
LEMMA CutReads ==
    ASSUME NEW r, RunTypeOK(r), NEW s \in {TimedOut(r), Died(r)}
    PROVE  /\ RunTypeOK(s) /\ s.at = "ended"
           /\ s.targeted = r.targeted /\ s.hosts = r.hosts /\ s.tally = r.tally
           /\ TimedOut(r).status = "timed_out" /\ Died(r).status = "failed"
BY DEF RunTypeOK, Readings, TimedOut, Died

-----------------------------------------------------------------------------
(* A drift check.                                                          *)

Rows == [status : {"none", "pending", "running", "succeeded", "failed", "skipped"}, validated : BOOLEAN]

\* What a run says an edge would change by, this check met there.
Honest(hosts) == \A e \in DOMAIN hosts : hosts[e].changed /\ ~hosts[e].failed => learned[e] = "differs"

\* A run that ended without success was cut short, told nothing, or names the host.
Excused(r) ==
    \/ r.status = "timed_out" \/ ~Reported(r)
    \/ \E e \in DOMAIN r.hosts : ~HostSucceeded(r.hosts[e])
Judged(r) == r.at = "ended" /\ (r.status = "succeeded" \/ Excused(r))

FailedRows == {e \in Edges : rows[e].status = "failed"}

\* What the walk keeps beside its types: a run goes on only while its edge is
\* at hand, and its result is the latest; its tables say what the check met;
\* and a row that failed is either still to be walked or told of by the result.
DriftWalk ==
    /\ at # "run" => run = NoRun
    /\ at = "run" => last = NoRun
    /\ at # "ended" => result = NoRun
    /\ at \in {"stop", "complete"} => Excused(last)
    /\ at \in {"walk", "run", "finish"} => FailedRows \subseteq left
    /\ at = "ended" /\ FailedRows # {} => Excused(result)
DriftTables ==
    /\ run.at = "going" => \A e \in DOMAIN run.hosts : run.hosts[e] = Zero
    /\ run.at = "ended" => Judged(run)
    /\ Honest(run.tally) /\ Honest(run.hosts) /\ Honest(last.hosts) /\ Honest(result.hosts)
DriftInv == DriftTypeOK /\ DriftWalk /\ DriftTables

\* An edge at hand is one of the walk.
LEMMA FirstIs ==
    ASSUME NEW S \in SUBSET Edges, S # {}
    PROVE  First(S) \in S
<1>1. S \subseteq Nat BY DriftAssumption
<1>2. PICK e \in S : \A f \in S : ~(<<f, e>> \in OpToRel(<, Nat))
  BY <1>1, NatLessThanWellFounded, WFMin, Zenon
<1>3. ASSUME NEW f \in S PROVE e <= f
  <2>1. e \in Nat /\ f \in Nat BY <1>1, <1>3
  <2>2. ~(f < e) BY <1>2, <1>3, <2>1 DEF OpToRel
  <2> QED BY <2>1, <2>2
<1> QED BY <1>3 DEF First

LEMMA DriftStarts == DriftInit => DriftInv
<1> SUFFICES ASSUME DriftInit PROVE DriftInv OBVIOUS
<1>1. DriftTypeOK BY NoRunReads DEF DriftInit, DriftTypeOK, NoRow
<1>2. DriftWalk BY DEF DriftInit, DriftWalk, FailedRows, NoRow
<1>3. DriftTables BY NoRunReads DEF DriftInit, DriftTables, Honest, NoRun
<1> QED BY <1>1, <1>2, <1>3 DEF DriftInv

\* An edge drifts, and nothing the check has noted changes.
LEMMA DriftStays ==
    ASSUME DriftInv, UNCHANGED <<rows, at, left, run, last, result, learned>>,
           differs' \in [Edges -> BOOLEAN], up' \in [Edges -> BOOLEAN]
    PROVE  DriftInv'
BY DEF DriftInv, DriftTypeOK, DriftWalk, DriftTables, FailedRows, Honest, Judged, Excused,
       Reported, RunTypeOK

\* The steps of the walk, in which no run goes on.
LEMMA DriftWalks ==
    ASSUME DriftInv, Admit \/ Claim \/ PassOver \/ FinishEdge \/ Stop \/ Complete \/ Crash
    PROVE  DriftInv'
<1>1. CASE Admit
  <2> DEFINE pending == [NoRow EXCEPT !.status = "pending"]
  <2>a. NoRow \in Rows /\ pending \in Rows BY DEF NoRow, Rows
  <2>b. PICK targets \in SUBSET Edges : rows' = [e \in Edges |-> IF e \in targets THEN pending ELSE NoRow]
    BY <1>1 DEF Admit
  <2> HIDE DEF pending
  <2>0. rows' \in [Edges -> Rows] BY <2>a, <2>b
  <2>1. DriftTypeOK' BY <1>1, <2>0 DEF Admit, Fleet, Kept, DriftInv, DriftTypeOK, Rows
  <2>2. DriftWalk' BY <1>1 DEF Admit, Fleet, Kept, DriftInv, DriftTypeOK, DriftWalk, FailedRows, NoRow
  <2>3. DriftTables' BY <1>1 DEF Admit, Fleet, Kept, DriftInv, DriftTables, Honest, Judged, Excused, Reported
  <2> QED BY <2>1, <2>2, <2>3 DEF DriftInv
<1>2. CASE Claim
  <2>1. DriftTypeOK' BY <1>2, NoRunReads DEF Claim, Fleet, Kept, DriftInv, DriftTypeOK, Planned
  <2>2. DriftWalk' BY <1>2 DEF Claim, Fleet, Kept, DriftInv, DriftTypeOK, DriftWalk, FailedRows, Planned
  <2>3. DriftTables' BY <1>2, NoRunReads DEF Claim, Fleet, Kept, DriftInv, DriftTables, Honest, Judged, Excused, Reported
  <2> QED BY <2>1, <2>2, <2>3 DEF DriftInv
<1>3. CASE PassOver
  <2>1. DriftTypeOK' BY <1>3 DEF PassOver, Fleet, Kept, DriftInv, DriftTypeOK
  <2>2. DriftWalk' BY <1>3 DEF PassOver, Fleet, Kept, DriftInv, DriftTypeOK, DriftWalk, FailedRows
  <2>3. DriftTables' BY <1>3 DEF PassOver, Fleet, Kept, DriftInv, DriftTables, Honest, Judged, Excused, Reported
  <2> QED BY <2>1, <2>2, <2>3 DEF DriftInv
<1>4. CASE FinishEdge
  <2>1. DriftTypeOK' BY <1>4 DEF FinishEdge, Fleet, Kept, DriftInv, DriftTypeOK
  <2>2. DriftWalk' BY <1>4 DEF FinishEdge, Fleet, Kept, DriftInv, DriftTypeOK, DriftWalk, FailedRows
  <2>3. DriftTables' BY <1>4 DEF FinishEdge, Fleet, Kept, DriftInv, DriftTables, Honest, Judged, Excused, Reported
  <2> QED BY <2>1, <2>2, <2>3 DEF DriftInv
<1>5. CASE Stop
  <2>1. DriftTypeOK' BY <1>5 DEF Stop, Fleet, Kept, DriftInv, DriftTypeOK
  <2>2. DriftWalk' BY <1>5 DEF Stop, Fleet, Kept, DriftInv, DriftTypeOK, DriftWalk, Excused, Reported
  <2>3. DriftTables' BY <1>5 DEF Stop, Fleet, Kept, DriftInv, DriftTables, Honest, Judged, Excused, Reported
  <2> QED BY <2>1, <2>2, <2>3 DEF DriftInv
<1>6. CASE Complete
  <2>0. result' \in {Aborted, last} /\ UNCHANGED <<rows, left, run, last, learned>> /\ at' = "ended"
    BY <1>6 DEF Complete
  <2>1. DriftTypeOK'
    BY <1>6, <2>0, AbortedReads DEF Complete, Fleet, DriftInv, DriftTypeOK
  <2>2. Excused(Aborted) BY AbortedReads DEF Excused, Reported
  <2>3. FailedRows # {} => Excused(last)
    BY <1>6 DEF Complete, DriftInv, DriftWalk, FailedRows
  <2>4. at # "run" BY <1>6 DEF Complete
  <2>5. DriftWalk' BY <2>0, <2>2, <2>3, <2>4 DEF DriftInv, DriftWalk, FailedRows
  <2>6. Honest(Aborted.hosts) /\ Honest(last.hosts) BY AbortedReads DEF DriftInv, DriftTables, Honest
  <2>7. DriftTables' BY <2>0, <2>6 DEF DriftInv, DriftTables, Honest, Judged, Excused, Reported
  <2> QED BY <2>1, <2>5, <2>7 DEF DriftInv
<1>7. CASE Crash
  <2>1. DriftTypeOK' BY <1>7, NoRunReads DEF Crash, Fleet, Kept, DriftInv, DriftTypeOK
  <2>2. DriftWalk' BY <1>7 DEF Crash, Fleet, Kept, DriftInv, DriftTypeOK, DriftWalk
  <2>3. DriftTables' BY <1>7, NoRunReads DEF Crash, Fleet, Kept, DriftInv, DriftTables, Honest, Judged, Excused, Reported
  <2> QED BY <2>1, <2>2, <2>3 DEF DriftInv
<1> QED BY <1>1, <1>2, <1>3, <1>4, <1>5, <1>6, <1>7

\* An edge is begun: its run is launched, or what an earlier worker validated stands.
LEMMA DriftBegins == ASSUME DriftInv, BeginEdge PROVE DriftInv'
<1>1. Edge \in Edges BY FirstIs DEF BeginEdge, DriftInv, DriftTypeOK, Edge
<1>2. {Edge} \in SUBSET Edges BY <1>1
<1>3. PICK one : one = Launched({Edge}) OBVIOUS
<1>4. RunTypeOK(one) /\ one.at = "going" /\ DOMAIN one.hosts = {} /\ DOMAIN one.tally = {}
  BY <1>2, <1>3, LaunchedReads
<1>5. /\ last' = NoRun /\ UNCHANGED result /\ at = "walk"
      /\ \/ at' = "finish" /\ UNCHANGED <<run, learned>>
         \/ at' = "run" /\ run' = one /\ learned' \in [Edges -> {"nothing", "same", "differs", "failed"}]
  BY <1>3 DEF BeginEdge, Kept, DriftInv, DriftTypeOK
<1>6. DriftTypeOK'
  <2>1. rows' \in [Edges -> Rows] BY DEF BeginEdge, DriftInv, DriftTypeOK, Rows
  <2>2. RunTypeOK(run') /\ learned' \in [Edges -> {"nothing", "same", "differs", "failed"}]
    BY <1>4, <1>5 DEF DriftInv, DriftTypeOK
  <2> QED BY <1>5, <2>1, <2>2, NoRunReads DEF BeginEdge, Fleet, DriftInv, DriftTypeOK, Rows
<1>7. DriftWalk' BY <1>5 DEF BeginEdge, DriftInv, DriftTypeOK, DriftWalk, FailedRows
<1>8. run = NoRun /\ result = NoRun BY <1>5 DEF DriftInv, DriftWalk
<1>9. DriftTables' BY <1>4, <1>5, <1>8, NoRunReads DEF DriftTables, Honest
<1> QED BY <1>6, <1>7, <1>9 DEF DriftInv

\* A run goes on: a host is heard of, or ends, and the check notes what it met there.
LEMMA DriftRuns == ASSUME DriftInv, RunGoes PROVE DriftInv'
<1>0. /\ at = "run" /\ run.at = "going" /\ last = NoRun /\ result = NoRun
      /\ UNCHANGED <<differs, up, rows, at, left, last, result>>
      /\ RunTypeOK(run) /\ DriftTypeOK
  BY DEF RunGoes, Fleet, Kept, DriftInv, DriftTypeOK, DriftWalk
<1>1. DriftWalk' BY <1>0 DEF DriftInv, DriftWalk, FailedRows
<1>2. CASE RunStarts
  <2>1. PICK e \in Silent(run) : run' = Started(run, e) /\ UNCHANGED learned BY <1>2 DEF RunStarts
  <2>2. /\ RunTypeOK(run') /\ run'.at = "going" /\ run'.tally = run.tally
        /\ DOMAIN run'.hosts = DOMAIN run.hosts \cup {e} /\ run'.hosts[e] = Zero
        /\ \A f \in DOMAIN run.hosts : run'.hosts[f] = run.hosts[f]
    BY <1>0, <2>1, StartedReads
  <2>3. DriftTypeOK' BY <1>0, <2>1, <2>2 DEF DriftTypeOK
  <2>4. \A f \in DOMAIN run'.hosts : run'.hosts[f] = Zero
    BY <1>0, <2>2 DEF DriftInv, DriftTables
  <2>5. DriftTables' BY <1>0, <2>1, <2>2, <2>4, NoRunReads DEF DriftInv, DriftTables, Honest, Zero
  <2> QED BY <1>1, <2>3, <2>5 DEF DriftInv
<1>3. CASE RunWorks
  <2>0. PICK e \in AtWork(run) : \E counts \in Counts(e) :
          run' = Finished(run, e, counts) /\ learned' = [learned EXCEPT ![e] = Met(counts)]
    BY <1>3 DEF RunWorks
  <2>1. PICK counts \in Counts(e) :
          run' = Finished(run, e, counts) /\ learned' = [learned EXCEPT ![e] = Met(counts)]
    BY <2>0
  <2>2. e \in DOMAIN run.hosts /\ e \notin DOMAIN run.tally /\ e \in Edges
    BY <1>0, HeardHas DEF AtWork, RunTypeOK, Readings
  <2>3. counts \in HostRun
    <3>1. differs[e] \in BOOLEAN BY <1>0, <2>2 DEF DriftTypeOK
    <3>2. [Zero EXCEPT !.unreachable = TRUE] \in HostRun BY DEF Zero, HostRun
    <3>3. [Zero EXCEPT !.changed = differs[e]] \in HostRun BY <3>1 DEF Zero, HostRun
    <3>4. \A c \in {FALSE, differs[e]} : [Zero EXCEPT !.changed = c, !.failed = TRUE] \in HostRun
      BY <3>1 DEF Zero, HostRun
    <3> QED BY <2>1, <3>2, <3>3, <3>4 DEF Counts
  <2>4. /\ RunTypeOK(run') /\ run'.at = "going" /\ run'.hosts = run.hosts
        /\ DOMAIN run'.tally = DOMAIN run.tally \cup {e} /\ run'.tally[e] = counts
        /\ \A f \in DOMAIN run.tally : run'.tally[f] = run.tally[f]
    BY <1>0, <2>1, <2>3, FinishedReads
  <2>5. /\ learned' \in [Edges -> {"nothing", "same", "differs", "failed"}]
        /\ \A f \in Edges \ {e} : learned'[f] = learned[f]
        /\ learned'[e] = Met(counts)
    BY <1>0, <2>1, <2>2 DEF Met, DriftTypeOK
  <2>6. DriftTypeOK' BY <1>0, <2>4, <2>5 DEF DriftTypeOK
  <2>7. counts.changed /\ ~counts.failed => Met(counts) = "differs" \/ counts.unreachable
    BY DEF Met, HostSucceeded
  <2>8. ~(counts.changed /\ counts.unreachable) BY <2>1 DEF Counts, Zero
  <2>9. Honest(run.tally)' 
    <3> SUFFICES ASSUME NEW f \in DOMAIN run'.tally, run'.tally[f].changed, ~run'.tally[f].failed
                 PROVE  learned'[f] = "differs"
      BY DEF Honest
    <3>1. CASE f = e BY <2>4, <2>5, <2>7, <2>8, <3>1
    <3>2. CASE f # e
      <4>1. f \in DOMAIN run.tally /\ f \in Edges
        BY <1>0, <2>4, <3>2, HeardHas DEF RunTypeOK, Readings
      <4> QED BY <2>4, <2>5, <3>2, <4>1 DEF DriftInv, DriftTables, Honest
    <3> QED BY <3>1, <3>2
  <2>10. DriftTables'
    BY <1>0, <2>4, <2>9, NoRunReads DEF DriftInv, DriftTables, Honest, Zero
  <2> QED BY <1>1, <2>6, <2>10 DEF DriftInv
<1>4. CASE RunEnds
  <2>0. UNCHANGED learned BY <1>4 DEF RunEnds
  <2>1. CASE AllEnded(run) /\ run' = Recap(run)
    <3>1. /\ RunTypeOK(run') /\ run'.at = "ended" /\ run'.tally = run.tally
          /\ DOMAIN run'.hosts = DOMAIN run.tally
          /\ \A e \in DOMAIN run.tally : run'.hosts[e] = run.tally[e]
          /\ run'.status \in {"succeeded", "failed"}
          /\ run'.status = "failed" => \E e \in DOMAIN run.tally : ~HostSucceeded(run.tally[e])
      BY <1>0, <2>1, RecapReads DEF AllEnded
    <3>2. DriftTypeOK' BY <1>0, <2>0, <3>1 DEF DriftTypeOK
    <3>3. Judged(run') BY <3>1 DEF Judged, Excused
    <3>4. Honest(run.hosts)' BY <2>0, <3>1 DEF DriftInv, DriftTables, Honest
    <3>5. DriftTables'
      BY <1>0, <2>0, <3>1, <3>3, <3>4, NoRunReads DEF DriftInv, DriftTables, Honest
    <3> QED BY <1>1, <3>2, <3>5 DEF DriftInv
  <2>2. CASE run' = TimedOut(run) \/ (~Reported(run) /\ run' = Died(run))
    <3>1. /\ RunTypeOK(run') /\ run'.at = "ended" /\ run'.tally = run.tally /\ run'.hosts = run.hosts
          /\ run'.status = "timed_out" \/ ~Reported(run)
      BY <1>0, <2>2, CutReads
    <3>2. DriftTypeOK' BY <1>0, <2>0, <3>1 DEF DriftTypeOK
    <3>3. Judged(run') BY <3>1 DEF Judged, Excused, Reported
    <3>4. DriftTables'
      BY <1>0, <2>0, <3>1, <3>3, NoRunReads DEF DriftInv, DriftTables, Honest
    <3> QED BY <1>1, <3>2, <3>4 DEF DriftInv
  <2> QED BY <1>4, <2>1, <2>2 DEF RunEnds
<1> QED BY <1>2, <1>3, <1>4 DEF RunGoes

\* The run is taken for the result, or could not be launched.
LEMMA DriftRecords == ASSUME DriftInv, RecordPhase \/ CannotLaunch PROVE DriftInv'
<1>1. CASE RecordPhase
  <2>0. rows' \in [Edges -> Rows]
    <3>1. rows' = [rows EXCEPT ![Edge].validated = TRUE] \/ rows' = [rows EXCEPT ![Edge].status = "failed"]
      BY <1>1 DEF RecordPhase
    <3>2. PICK e : e = Edge OBVIOUS
    <3>3. rows \in [Edges -> Rows] BY DEF DriftInv, DriftTypeOK, Rows
    <3>4. [rows EXCEPT ![e].validated = TRUE] \in [Edges -> Rows] BY <3>3 DEF Rows
    <3>5. [rows EXCEPT ![e].status = "failed"] \in [Edges -> Rows] BY <3>3 DEF Rows
    <3> QED BY <3>1, <3>2, <3>4, <3>5
  <2>1. DriftTypeOK'
    BY <1>1, <2>0, NoRunReads DEF RecordPhase, Fleet, Kept, DriftInv, DriftTypeOK, Rows
  <2>2. Judged(run) BY <1>1 DEF RecordPhase, DriftInv, DriftTables
  <2>3. at = "run" /\ result = NoRun /\ UNCHANGED result /\ run' = NoRun
    BY <1>1 DEF RecordPhase, Kept, DriftInv, DriftWalk
  <2>4. DriftWalk'
    BY <1>1, <2>2, <2>3 DEF RecordPhase, DriftInv, DriftTypeOK, DriftWalk, FailedRows, Judged, RunSucceeded,
       Excused, Reported
  <2>5. DriftTables'
    BY <1>1, <2>3, NoRunReads DEF RecordPhase, DriftInv, DriftTables, Honest
  <2> QED BY <2>1, <2>4, <2>5 DEF DriftInv
<1>2. CASE CannotLaunch
  <2>1. DriftTypeOK' BY <1>2, NoRunReads, AbortedReads DEF CannotLaunch, Fleet, DriftInv, DriftTypeOK
  <2>2. Excused(Aborted) BY AbortedReads DEF Excused, Reported
  <2>3. DriftWalk' BY <1>2, <2>2 DEF CannotLaunch, DriftInv, DriftWalk
  <2>4. DriftTables'
    BY <1>2, NoRunReads, AbortedReads DEF CannotLaunch, DriftInv, DriftTables, Honest
  <2> QED BY <2>1, <2>3, <2>4 DEF DriftInv
<1> QED BY <1>1, <1>2

LEMMA DriftAlways == DriftSpec => []DriftInv
<1>1. ASSUME DriftInv, [DriftNext]_drift PROVE DriftInv'
  <2>1. ASSUME NEW e \in Edges, Drift(e) PROVE DriftInv'
    BY <1>1, <2>1, DriftStays DEF Drift, DriftInv, DriftTypeOK
  <2>2. CASE UNCHANGED drift BY <1>1, <2>2, DriftStays DEF drift, DriftInv, DriftTypeOK
  <2> QED BY <1>1, <2>1, <2>2, DriftWalks, DriftBegins, DriftRuns, DriftRecords DEF DriftNext
<1> QED BY <1>1, DriftStarts, PTL DEF DriftSpec

\* The walk of a drift check, its rows and its results keep their types.
THEOREM DriftTypesHold == DriftSpec => []DriftTypeOK
BY DriftAlways, PTL DEF DriftInv

\* Whatever crashes on the way, and however edges drift meanwhile, a report
\* names no edge that the check did not meet differing.
THEOREM NeverInvented == DriftSpec => []NothingInvented
<1>1. DriftInv => NothingInvented BY DEF DriftInv, DriftTables, Honest, NothingInvented, Drifted
<1> QED BY <1>1, DriftAlways, PTL

\* A check that stopped early is not read as a fleet in sync.
THEOREM StoppedNeverInSync == DriftSpec => []StoppedIsNotInSync
<1>1. DriftInv => StoppedIsNotInSync
  <2> SUFFICES ASSUME DriftInv, at = "ended", InSync
               PROVE  /\ \A e \in Edges : rows[e].status \notin {"pending", "skipped"}
                      /\ \A e \in Planned : rows[e].status = "failed" => result.status = "timed_out"
    BY DEF StoppedIsNotInSync
  <2>1. \A e \in Edges : rows[e].status \notin {"pending", "skipped"}
    BY DEF InSync, Unanswered, Unreached
  <2>2. FailedRows # {} => result.status = "timed_out"
    BY DEF InSync, HostInSync, DriftInv, DriftWalk, Excused
  <2> QED BY <2>1, <2>2 DEF Planned, FailedRows
<1> QED BY <1>1, DriftAlways, PTL

-----------------------------------------------------------------------------
(* A purge of the caches.                                                  *)

Requests ==
    [at : {"idle", "refused", "queued", "staged", "running", "reported", "failed"},
     asked : SUBSET Entries, all : BOOLEAN, limit : SUBSET Edges, entries : SUBSET Entries,
     seen : SUBSET [Listed -> AllPolicies], refused : {"no", "unknown", "mismatched"}]
Files == [entries : SUBSET Entries, all : BOOLEAN]

PurgeTables ==
    /\ desired \in [Listed -> AllPolicies] /\ served \in [Edges -> [Listed -> AllPolicies]]
    /\ copies \in [Edges -> SUBSET Entries]
    /\ request \in [Runs -> Requests] /\ file \in [Runs -> Files]
    /\ runs \in [Runs -> Readings] /\ \A p \in Runs : RunTypeOK(runs[p])
    /\ done \in [Runs -> SUBSET Edges]
    /\ missed \in [Runs -> SUBSET Misses]
    /\ edits \in 0..MaxEdits

\* A run stands for its request: it is of the edges the request is limited to,
\* and of those it has counted, each was purged or did not succeed.
Stands(q, r, purged) ==
    /\ q.at \in {"running", "reported", "failed"} => r.at # "none" /\ r.targeted = q.limit
    /\ q.at \in {"reported", "failed"} => r.at = "ended"
    /\ q.at = "reported" => Reported(r)
    /\ q.at \in {"idle", "refused", "queued", "staged"} => r.at = "none"
    /\ \A e \in DOMAIN r.tally : e \in purged \/ ~HostSucceeded(r.tally[e])
    /\ r.at = "ended" /\ r.status # "timed_out" /\ Reported(r) =>
         \A e \in r.targeted \ purged : e \in DOMAIN r.hosts /\ ~HostSucceeded(r.hosts[e])
PurgeRuns == \A p \in Runs : Stands(request[p], runs[p], done[p])

\* What a purge was asked for, as the sites it was resolved against key it.
ResolvedBy(sites, entries) == {Key(sites[Owner(sites, n.host)], n) : n \in entries}
Keyed(q, f) ==
    /\ q.all => q.asked = {}
    /\ q.at = "queued" => \/ q.entries = q.asked /\ q.seen = {}
                          \/ \E sites \in q.seen : q.seen = {sites} /\ q.entries = ResolvedBy(sites, q.asked)
    /\ q.at \in {"staged", "running"} =>
         \A sites \in q.seen : q.seen = {sites} => q.entries = ResolvedBy(sites, q.asked)
    /\ q.at = "staged" => f = [entries |-> q.entries, all |-> q.all]
    /\ q.at \in {"idle", "refused", "queued"} => f = NoFile
PurgeKeys == \A p \in Runs : Keyed(request[p], file[p])

PurgeInv == PurgeTables /\ PurgeRuns
KeysInv == PurgeTables /\ PurgeRuns /\ PurgeKeys /\ SteadyPurgeRemoves

LEMMA KeyIs ==
    ASSUME NEW policy, NEW n \in Entries
    PROVE  /\ Key(policy, n) \in Entries /\ Key(policy, n).host = n.host
           /\ Key(policy, Key(policy, n)) = Key(policy, n)
BY DEF Key, Entries

\* Keys resolved once more, against the same sites, stay as they are.
LEMMA ResolvedAgain ==
    ASSUME NEW sites, NEW entries \in SUBSET Entries
    PROVE  /\ ResolvedBy(sites, entries) \in SUBSET Entries
           /\ ResolvedBy(sites, ResolvedBy(sites, entries)) = ResolvedBy(sites, entries)
<1>1. \A n \in entries : LET key == Key(sites[Owner(sites, n.host)], n)
                         IN  key \in Entries /\ Key(sites[Owner(sites, key.host)], key) = key
  <2> TAKE n \in entries
  <2>1. PICK policy : policy = sites[Owner(sites, n.host)] OBVIOUS
  <2>2. n \in Entries OBVIOUS
  <2>3. /\ Key(policy, n) \in Entries /\ Key(policy, n).host = n.host
        /\ Key(policy, Key(policy, n)) = Key(policy, n) BY <2>2, KeyIs
  <2> QED BY <2>1, <2>3
<1> QED BY <1>1 DEF ResolvedBy

LEMMA PurgeStarts == PurgeInit => PurgeInv /\ PurgeKeys /\ SteadyPurgeRemoves
<1> SUFFICES ASSUME PurgeInit PROVE PurgeInv /\ PurgeKeys /\ SteadyPurgeRemoves OBVIOUS
<1>1. NoRequest \in Requests /\ NoFile \in Files BY DEF NoRequest, Requests, NoFile, Files
<1>2. NoRun \in Readings BY NoRunReads DEF RunTypeOK
<1>3. PurgeTables
  <2>1. desired \in [Listed -> AllPolicies] BY PurgeAssumption DEF PurgeInit
  <2> QED BY <1>1, <1>2, <2>1, NoRunReads, PurgeAssumption DEF PurgeInit, PurgeTables
<1>4. PurgeRuns
  <2> SUFFICES ASSUME NEW p \in Runs PROVE Stands(request[p], runs[p], done[p]) BY DEF PurgeRuns
  <2>1. request[p].at = "idle" /\ runs[p] = NoRun BY DEF PurgeInit, NoRequest
  <2> QED BY <2>1, NoRunReads DEF Stands
<1>5. PurgeKeys
  <2> SUFFICES ASSUME NEW p \in Runs PROVE Keyed(request[p], file[p]) BY DEF PurgeKeys
  <2>1. request[p] = NoRequest /\ file[p] = NoFile BY DEF PurgeInit
  <2> QED BY <2>1 DEF Keyed, NoRequest
<1>6. SteadyPurgeRemoves BY DEF PurgeInit, SteadyPurgeRemoves
<1> QED BY <1>3, <1>4, <1>5, <1>6 DEF PurgeInv

\* A step of one purge leaves the others as they are.
LEMMA OneRunMoves ==
    ASSUME PurgeRuns, NEW p \in Runs,
           \A o \in Runs \ {p} : request'[o] = request[o] /\ runs'[o] = runs[o] /\ done'[o] = done[o],
           Stands(request'[p], runs'[p], done'[p])
    PROVE  PurgeRuns'
BY DEF PurgeRuns
LEMMA OneKeyMoves ==
    ASSUME PurgeKeys, NEW p \in Runs,
           \A o \in Runs \ {p} : request'[o] = request[o] /\ file'[o] = file[o],
           Keyed(request'[p], file'[p])
    PROVE  PurgeKeys'
BY DEF PurgeKeys

\* What operators, deployments and visitors do is no business of a purge.
LEMMA WorldGoesOn ==
    ASSUME PurgeTables,
           \/ \E s \in Listed : Edit(s)
           \/ \E e \in Edges : Converge(e)
           \/ \E e \in Edges, entry \in Visits : Visit(e, entry)
    PROVE  PurgeTables' /\ UNCHANGED <<request, file, runs, done, missed>>
<1>1. ASSUME NEW s \in Listed, Edit(s) PROVE PurgeTables' /\ UNCHANGED <<request, file, runs, done, missed>>
  <2>1. desired' \in [Listed -> AllPolicies] /\ edits' \in 0..MaxEdits
    BY <1>1, PurgeAssumption DEF Edit, PurgeTables
  <2> QED BY <1>1, <2>1 DEF Edit, Ghosts, PurgeTables
<1>2. ASSUME NEW e \in Edges, Converge(e) PROVE PurgeTables' /\ UNCHANGED <<request, file, runs, done, missed>>
  <2>1. served' \in [Edges -> [Listed -> AllPolicies]] BY <1>2 DEF Converge, PurgeTables
  <2> QED BY <1>2, <2>1 DEF Converge, Ghosts, PurgeTables
<1>3. ASSUME NEW e \in Edges, NEW entry \in Visits, Visit(e, entry)
      PROVE  PurgeTables' /\ UNCHANGED <<request, file, runs, done, missed>>
  <2>1. entry \in Entries BY PurgeAssumption
  <2>2. PICK key : key = KeyAt(e, entry) OBVIOUS
  <2>3. key \in Entries BY <2>1, <2>2, KeyIs DEF KeyAt
  <2>4. copies' \in [Edges -> SUBSET Entries] BY <1>3, <2>2, <2>3 DEF Visit, PurgeTables
  <2> QED BY <1>3, <2>4 DEF Visit, Ghosts, PurgeTables
<1> QED BY <1>1, <1>2, <1>3

\* Entries as a request holds them, resolved against the desired sites.
LEMMA ResolvedIs ==
    ASSUME NEW entries \in SUBSET Entries
    PROVE  /\ Resolved(entries) = ResolvedBy(desired, entries)
           /\ Resolved(entries) \in SUBSET Entries
           /\ Refusal(entries) \in {"no", "unknown", "mismatched"}
BY ResolvedAgain DEF Resolved, DesiredKey, ResolvedBy, Refusal

\* A purge is asked for, by the API or the command line.
LEMMA PurgeAsked ==
    ASSUME PurgeTables, NEW p \in Runs, NEW asked \in Asks, NEW all \in BOOLEAN, NEW limit \in SUBSET Edges,
           Submit(p, asked, all, limit) \/ Command(p, asked, all, limit)
    PROVE  /\ PurgeTables'
           /\ PurgeRuns => PurgeRuns'
           /\ PurgeKeys => PurgeKeys'
<1>1. request[p].at = "idle" /\ all = (asked = {}) /\ asked \in SUBSET Entries
  BY PurgeAssumption DEF Submit, Command
<1>2. PICK resolved, why : resolved = Resolved(asked) /\ why = Refusal(asked) OBVIOUS
<1>3. /\ resolved = ResolvedBy(desired, asked) /\ resolved \in SUBSET Entries
      /\ why \in {"no", "unknown", "mismatched"}
  BY <1>1, <1>2, ResolvedIs
<1>4. desired \in [Listed -> AllPolicies] /\ request \in [Runs -> Requests] BY DEF PurgeTables
<1>5. \E q \in Requests :
        /\ request' = [request EXCEPT ![p] = q]
        /\ q.at \in {"queued", "refused"} /\ q.asked = asked /\ q.all = all
        /\ q.at = "queued" => \/ q.seen = {} /\ q.entries = asked
                              \/ q.seen = {desired} /\ q.entries = resolved
  <2>1. CASE Submit(p, asked, all, limit)
    <3> DEFINE q == [NoRequest EXCEPT !.at = IF why = "no" THEN "queued" ELSE "refused",
                          !.asked = asked, !.all = all, !.limit = limit, !.refused = why,
                          !.entries = IF why = "no" THEN resolved ELSE {}, !.seen = {desired}]
    <3>1. q \in Requests BY <1>1, <1>3, <1>4 DEF Requests, NoRequest
    <3>2. request' = [request EXCEPT ![p] = q] BY <1>2, <2>1 DEF Submit
    <3>3. /\ q.at \in {"queued", "refused"} /\ q.asked = asked /\ q.all = all
          /\ q.at = "queued" => q.seen = {desired} /\ q.entries = resolved
      BY DEF NoRequest
    <3> QED BY <3>1, <3>2, <3>3
  <2>2. CASE Command(p, asked, all, limit)
    <3> DEFINE q == [NoRequest EXCEPT !.at = "queued", !.asked = asked, !.all = all, !.limit = limit,
                                      !.entries = asked]
    <3>1. q \in Requests BY <1>1 DEF Requests, NoRequest
    <3>2. request' = [request EXCEPT ![p] = q] BY <2>2 DEF Command
    <3>3. /\ q.at = "queued" /\ q.asked = asked /\ q.all = all
          /\ q.seen = {} /\ q.entries = asked
      BY DEF NoRequest
    <3> QED BY <3>1, <3>2, <3>3
  <2> QED BY <2>1, <2>2
<1>6. PICK q \in Requests :
        /\ request' = [request EXCEPT ![p] = q]
        /\ q.at \in {"queued", "refused"} /\ q.asked = asked /\ q.all = all
        /\ q.at = "queued" => \/ q.seen = {} /\ q.entries = asked
                              \/ q.seen = {desired} /\ q.entries = resolved
  BY <1>5
<1>7. UNCHANGED <<desired, served, copies, edits, done, missed, file, runs>>
  BY DEF Submit, Command, World, Ghosts
<1>8. /\ request' \in [Runs -> Requests] /\ request'[p] = q
      /\ \A o \in Runs \ {p} : request'[o] = request[o]
  BY <1>4, <1>6
<1>9. PurgeTables' BY <1>7, <1>8 DEF PurgeTables
<1>10. ASSUME PurgeRuns PROVE PurgeRuns'
  <2>1. Stands(request[p], runs[p], done[p]) BY <1>10 DEF PurgeRuns
  <2>2. Stands(q, runs[p], done[p]) BY <1>1, <1>6, <2>1 DEF Stands
  <2> QED BY <1>7, <1>8, <1>10, <2>2, OneRunMoves
<1>11. ASSUME PurgeKeys PROVE PurgeKeys'
  <2>1. file[p] = NoFile BY <1>1, <1>11 DEF PurgeKeys, Keyed
  <2>2. Keyed(q, file[p]) BY <1>1, <1>3, <1>6, <2>1 DEF Keyed
  <2> QED BY <1>7, <1>8, <1>11, <2>2, OneKeyMoves
<1> QED BY <1>9, <1>10, <1>11

\* A purge resolves its entries once more and stages its variables.
LEMMA PurgeTaken ==
    ASSUME PurgeTables, NEW p \in Runs, Take(p)
    PROVE  /\ PurgeTables'
           /\ PurgeRuns => PurgeRuns'
           /\ PurgeKeys => PurgeKeys'
<1>1. PICK q : q = request[p] OBVIOUS
<1>2. PICK resolved, why : resolved = Resolved(q.entries) /\ why = Refusal(q.entries) OBVIOUS
<1>3. /\ q \in Requests /\ q.at = "queued" /\ desired \in [Listed -> AllPolicies]
      /\ request \in [Runs -> Requests] /\ file \in [Runs -> Files]
  BY <1>1 DEF Take, PurgeTables
<1>4. q.entries \in SUBSET Entries BY <1>3 DEF Requests
<1>5. /\ resolved = ResolvedBy(desired, q.entries) /\ resolved \in SUBSET Entries
      /\ why \in {"no", "unknown", "mismatched"}
  BY <1>2, <1>4, ResolvedIs
<1>6. UNCHANGED <<desired, served, copies, edits, done, missed, runs>> BY DEF Take, World, Ghosts
<1> DEFINE seen == q.seen \cup {desired}
           no == [q EXCEPT !.at = "refused", !.refused = why, !.seen = seen]
           yes == [q EXCEPT !.at = "staged", !.entries = resolved, !.seen = seen]
           vars == [entries |-> resolved, all |-> q.all]
<1>7. \/ request' = [request EXCEPT ![p] = no] /\ UNCHANGED file
      \/ request' = [request EXCEPT ![p] = yes] /\ file' = [file EXCEPT ![p] = vars]
  BY <1>1, <1>2, <1>3 DEF Take, FileOf
<1>8. no \in Requests /\ yes \in Requests /\ vars \in Files
  BY <1>3, <1>5 DEF Requests, Files
<1>9. \A o \in Runs \ {p} : request'[o] = request[o] /\ file'[o] = file[o]
  BY <1>3, <1>7
<1>10. PurgeTables' BY <1>3, <1>6, <1>7, <1>8 DEF PurgeTables
<1>11. request'[p] \in {no, yes} BY <1>3, <1>7
<1>12. ASSUME PurgeRuns PROVE PurgeRuns'
  <2>1. Stands(q, runs[p], done[p]) BY <1>1, <1>12 DEF PurgeRuns
  <2>2. no.at = "refused" /\ yes.at = "staged" BY <1>3 DEF Requests
  <2>3. Stands(no, runs[p], done[p]) BY <1>3, <2>1, <2>2 DEF Stands
  <2>4. Stands(yes, runs[p], done[p]) BY <1>3, <2>1, <2>2 DEF Stands
  <2> QED BY <1>6, <1>9, <1>11, <1>12, <2>3, <2>4, OneRunMoves
<1>13. ASSUME PurgeKeys PROVE PurgeKeys'
  <2>1. Keyed(q, file[p]) BY <1>1, <1>13 DEF PurgeKeys
  <2>2. /\ no.at = "refused" /\ no.all = q.all /\ no.asked = q.asked
        /\ yes.at = "staged" /\ yes.all = q.all /\ yes.asked = q.asked
        /\ yes.entries = resolved /\ yes.seen = seen
    BY <1>3 DEF Requests
  <2>3. Keyed(no, file[p]) BY <1>3, <2>1, <2>2 DEF Keyed
  <2>4. \A sites \in seen : seen = {sites} => resolved = ResolvedBy(sites, q.asked)
    <3> SUFFICES ASSUME seen = {desired} PROVE resolved = ResolvedBy(desired, q.asked) OBVIOUS
    <3>1. CASE q.entries = q.asked BY <1>5, <3>1
    <3>2. CASE \E sites \in q.seen : q.seen = {sites} /\ q.entries = ResolvedBy(sites, q.asked)
      <4>1. q.entries = ResolvedBy(desired, q.asked) BY <3>2
      <4>2. q.asked \in SUBSET Entries BY <1>3 DEF Requests
      <4> QED BY <1>5, <4>1, <4>2, ResolvedAgain
    <3> QED BY <1>3, <2>1, <3>1, <3>2 DEF Keyed
  <2>5. Keyed(yes, vars) BY <1>3, <2>1, <2>2, <2>4 DEF Keyed
  <2>6. Keyed(request'[p], file'[p]) BY <1>3, <1>7, <2>3, <2>5
  <2> QED BY <1>9, <1>13, <2>6, OneKeyMoves
<1> QED BY <1>10, <1>12, <1>13

\* Its run is launched on the edges it is limited to, with the variables staged.
LEMMA PurgeLaunched ==
    ASSUME PurgeTables, NEW p \in Runs, Launch(p)
    PROVE  /\ PurgeTables'
           /\ PurgeRuns => PurgeRuns'
           /\ PurgeKeys => PurgeKeys'
<1>1. PICK q, f : q = request[p] /\ f = file[p] OBVIOUS
<1>2. /\ q \in Requests /\ q.at = "staged" /\ f \in Files
      /\ request \in [Runs -> Requests] /\ file \in [Runs -> Files] /\ runs \in [Runs -> Readings]
  BY <1>1 DEF Launch, PurgeTables
<1>3. UNCHANGED <<desired, served, copies, edits, done, missed, file>> BY DEF Launch, World, Ghosts
<1> DEFINE going == [q EXCEPT !.at = "running", !.entries = f.entries, !.all = f.all]
<1>4. PICK limit, one : limit = q.limit /\ one = Launched(limit) OBVIOUS
<1>5. request' = [request EXCEPT ![p] = going] /\ runs' = [runs EXCEPT ![p] = one]
  BY <1>1, <1>2, <1>4 DEF Launch, FileOf
<1>6. limit \in SUBSET Edges BY <1>2, <1>4 DEF Requests
<1>7. /\ RunTypeOK(one) /\ one.at = "going" /\ one.targeted = limit /\ DOMAIN one.tally = {}
  BY <1>4, <1>6, LaunchedReads
<1>8. going \in Requests /\ one \in Readings BY <1>2, <1>7 DEF Requests, Files, RunTypeOK
<1>9. /\ request'[p] = going /\ runs'[p] = one
      /\ \A o \in Runs \ {p} : request'[o] = request[o] /\ runs'[o] = runs[o]
  BY <1>2, <1>5
<1>10. PurgeTables' BY <1>2, <1>3, <1>5, <1>7, <1>8, <1>9 DEF PurgeTables
<1>11. /\ going.at = "running" /\ going.limit = q.limit /\ going.asked = q.asked /\ going.seen = q.seen
       /\ going.entries = f.entries /\ going.all = f.all
  BY <1>2 DEF Requests
<1>12. ASSUME PurgeRuns PROVE PurgeRuns'
  <2>1. Stands(going, one, done[p]) BY <1>4, <1>7, <1>11 DEF Stands
  <2> QED BY <1>3, <1>9, <1>12, <2>1, OneRunMoves
<1>13. ASSUME PurgeKeys PROVE PurgeKeys'
  <2>1. Keyed(q, f) BY <1>1, <1>13 DEF PurgeKeys
  <2>2. f.entries = q.entries /\ f.all = q.all BY <1>2, <2>1 DEF Keyed
  <2>3. Keyed(going, f) BY <1>2, <1>11, <2>1, <2>2 DEF Keyed
  <2> QED BY <1>1, <1>3, <1>9, <1>13, <2>3, OneKeyMoves
<1> QED BY <1>10, <1>12, <1>13

\* What a run tells of moves nothing but the run.
LEMMA RunMoves ==
    ASSUME PurgeTables, NEW p \in Runs, NEW s, RunTypeOK(s), runs' = [runs EXCEPT ![p] = s],
           UNCHANGED <<desired, served, copies, edits, done, missed, request, file>>,
           PurgeRuns => Stands(request[p], s, done[p])
    PROVE  /\ PurgeTables'
           /\ PurgeRuns => PurgeRuns'
           /\ PurgeKeys => PurgeKeys'
<1>1. s \in Readings /\ runs \in [Runs -> Readings] BY DEF RunTypeOK, PurgeTables
<1>2. runs'[p] = s /\ \A o \in Runs \ {p} : runs'[o] = runs[o] BY <1>1
<1>3. PurgeTables' BY <1>1, <1>2 DEF PurgeTables
<1>4. ASSUME PurgeRuns PROVE PurgeRuns' BY <1>2, <1>4, OneRunMoves
<1>5. ASSUME PurgeKeys PROVE PurgeKeys' BY <1>5 DEF PurgeKeys
<1> QED BY <1>3, <1>4, <1>5

LEMMA PurgeRunGoes ==
    ASSUME PurgeTables, NEW p \in Runs,
           Ends(p) \/ \E e \in Edges : HostStarts(p, e) \/ HostEnds(p, e)
    PROVE  /\ PurgeTables'
           /\ PurgeRuns => PurgeRuns'
           /\ PurgeKeys => PurgeKeys'
<1>1. PICK r, q, purged : r = runs[p] /\ q = request[p] /\ purged = done[p] OBVIOUS
<1>2. /\ RunTypeOK(r) /\ r.at = "going"
      /\ UNCHANGED <<desired, served, copies, edits, done, missed, request, file>>
  BY <1>1 DEF PurgeTables, Ends, HostStarts, HostEnds, World, Ghosts
<1>3. PurgeRuns => Stands(q, r, purged) BY <1>1 DEF PurgeRuns
<1>4. \A s : RunTypeOK(s) /\ runs' = [runs EXCEPT ![p] = s] /\ (PurgeRuns => Stands(q, s, purged))
        => PurgeTables' /\ (PurgeRuns => PurgeRuns') /\ (PurgeKeys => PurgeKeys')
  BY <1>1, <1>2, RunMoves
<1>5. ASSUME NEW e \in Edges, HostStarts(p, e)
      PROVE  PurgeTables' /\ (PurgeRuns => PurgeRuns') /\ (PurgeKeys => PurgeKeys')
  <2>1. e \in Silent(r) BY <1>1, <1>5 DEF HostStarts
  <2>2. PICK s : s = Started(r, e) OBVIOUS
  <2>3. RunTypeOK(s) /\ s.at = "going" /\ s.targeted = r.targeted /\ s.tally = r.tally
    BY <1>2, <2>1, <2>2, StartedReads
  <2>4. runs' = [runs EXCEPT ![p] = s] BY <1>1, <1>5, <2>2 DEF HostStarts
  <2>5. Stands(q, r, purged) => Stands(q, s, purged) BY <1>2, <2>3 DEF Stands
  <2> QED BY <1>3, <1>4, <2>3, <2>4, <2>5
<1>6. ASSUME NEW e \in Edges, HostEnds(p, e)
      PROVE  PurgeTables' /\ (PurgeRuns => PurgeRuns') /\ (PurgeKeys => PurgeKeys')
  <2>1. e \in AtWork(r) BY <1>1, <1>6 DEF HostEnds
  <2>2. PICK c \in HostRun : (e \in purged \/ ~HostSucceeded(c)) /\ runs' = [runs EXCEPT ![p] = Finished(r, e, c)]
    <3>1. [Zero EXCEPT !.changed = TRUE] \in HostRun BY DEF Zero, HostRun
    <3>2. [Zero EXCEPT !.failed = TRUE] \in HostRun /\ ~HostSucceeded([Zero EXCEPT !.failed = TRUE])
      BY DEF Zero, HostRun, HostSucceeded
    <3>3. [Zero EXCEPT !.unreachable = TRUE] \in HostRun /\ ~HostSucceeded([Zero EXCEPT !.unreachable = TRUE])
      BY DEF Zero, HostRun, HostSucceeded
    <3> QED BY <1>1, <1>6, <3>1, <3>2, <3>3 DEF HostEnds
  <2>3. PICK s : s = Finished(r, e, c) OBVIOUS
  <2>4. /\ RunTypeOK(s) /\ s.at = "going" /\ s.targeted = r.targeted
        /\ DOMAIN s.tally = DOMAIN r.tally \cup {e} /\ s.tally[e] = c
        /\ \A o \in DOMAIN r.tally : s.tally[o] = r.tally[o]
    BY <1>2, <2>1, <2>3, FinishedReads
  <2>5. Stands(q, r, purged) => Stands(q, s, purged) BY <1>2, <2>2, <2>4 DEF Stands
  <2> QED BY <1>3, <1>4, <2>2, <2>3, <2>4, <2>5
<1>7. CASE Ends(p)
  <2>1. CASE AllEnded(r) /\ runs' = [runs EXCEPT ![p] = Recap(r)]
    <3>1. PICK s : s = Recap(r) OBVIOUS
    <3>2. /\ RunTypeOK(s) /\ s.at = "ended" /\ s.targeted = r.targeted /\ s.tally = r.tally
          /\ DOMAIN r.tally = r.targeted /\ DOMAIN s.hosts = r.targeted
          /\ \A e \in r.targeted : s.hosts[e] = r.tally[e]
      BY <1>2, <2>1, <3>1, RecapReads DEF AllEnded
    <3>3. Stands(q, r, purged) => Stands(q, s, purged) BY <1>2, <3>2 DEF Stands
    <3> QED BY <1>3, <1>4, <2>1, <3>1, <3>2, <3>3
  <2>2. CASE \/ runs' = [runs EXCEPT ![p] = TimedOut(r)]
             \/ ~Reported(r) /\ runs' = [runs EXCEPT ![p] = Died(r)]
    <3>1. PICK s \in {TimedOut(r), Died(r)} :
            runs' = [runs EXCEPT ![p] = s] /\ (s = TimedOut(r) \/ ~Reported(r))
      BY <2>2
    <3>2. /\ RunTypeOK(s) /\ s.at = "ended" /\ s.targeted = r.targeted
          /\ s.hosts = r.hosts /\ s.tally = r.tally
          /\ s.status = "timed_out" \/ ~Reported(r)
      BY <1>2, <3>1, CutReads
    <3>3. Stands(q, r, purged) => Stands(q, s, purged) BY <1>2, <3>2 DEF Stands, Reported
    <3> QED BY <1>3, <1>4, <3>1, <3>2, <3>3
  <2> QED BY <1>1, <1>7, <2>1, <2>2 DEF Ends
<1> QED BY <1>5, <1>6, <1>7

\* The report is made, and the variables of the run go.
LEMMA PurgeReported ==
    ASSUME PurgeTables, NEW p \in Runs, Report(p)
    PROVE  /\ PurgeTables'
           /\ PurgeRuns => PurgeRuns'
           /\ PurgeKeys => PurgeKeys'
<1>1. PICK q, r : q = request[p] /\ r = runs[p] OBVIOUS
<1>2. /\ q \in Requests /\ q.at = "running" /\ r.at = "ended"
      /\ request \in [Runs -> Requests] /\ file \in [Runs -> Files]
  BY <1>1 DEF Report, PurgeTables
<1>3. UNCHANGED <<desired, served, copies, edits, done, missed, runs>> BY DEF Report, World, Ghosts
<1>4. PICK at2 \in {"reported", "failed"} :
        request' = [request EXCEPT ![p] = [q EXCEPT !.at = at2]] /\ (at2 = "reported" => Reported(r))
  BY <1>1, <1>2 DEF Report
<1>5. file' = [file EXCEPT ![p] = NoFile] /\ NoFile \in Files BY DEF Report, FileOf, NoFile, Files
<1>6. PICK told : told = [q EXCEPT !.at = at2] OBVIOUS
<1>7. /\ told \in Requests /\ told.at = at2 /\ told.limit = q.limit /\ told.all = q.all /\ told.asked = q.asked
  BY <1>2, <1>6 DEF Requests
<1>8. /\ request'[p] = told
      /\ \A o \in Runs \ {p} : request'[o] = request[o] /\ file'[o] = file[o]
      /\ request' \in [Runs -> Requests] /\ file' \in [Runs -> Files]
  BY <1>2, <1>4, <1>5, <1>6, <1>7
<1>9. PurgeTables' BY <1>3, <1>8 DEF PurgeTables
<1>10. ASSUME PurgeRuns PROVE PurgeRuns'
  <2>1. Stands(q, r, done[p]) BY <1>1, <1>10 DEF PurgeRuns
  <2>2. Stands(told, r, done[p]) BY <1>2, <1>4, <1>7, <2>1 DEF Stands
  <2> QED BY <1>1, <1>3, <1>8, <1>10, <2>2, OneRunMoves
<1>11. ASSUME PurgeKeys PROVE PurgeKeys'
  <2>1. Keyed(q, file[p]) BY <1>1, <1>11 DEF PurgeKeys
  <2>2. Keyed(told, file'[p]) BY <1>2, <1>4, <1>7, <2>1 DEF Keyed
  <2> QED BY <1>8, <1>11, <2>2, OneKeyMoves
<1> QED BY <1>9, <1>10, <1>11

\* An edge removes what it was given, or all it has.
LEMMA PurgeRemoves ==
    ASSUME PurgeTables, NEW p \in Runs, NEW e \in Edges, Remove(p, e)
    PROVE  /\ PurgeTables' /\ UNCHANGED <<request, file, runs>>
           /\ PurgeRuns => PurgeRuns'
           /\ PurgeKeys => PurgeKeys'
<1>1. PICK kept : kept = Left(p, e) OBVIOUS
<1>2. /\ UNCHANGED <<desired, served, edits, request, file, runs>>
      /\ copies' = [copies EXCEPT ![e] = kept] /\ done' = [done EXCEPT ![p] = @ \cup {e}]
      /\ runs[p].at = "going"
  BY <1>1 DEF Remove
<1>3. PICK stays : stays = Stays(p, e) OBVIOUS
<1>4. kept \in SUBSET Entries BY <1>1 DEF PurgeTables, Left
<1>5. missed' \in [Runs -> SUBSET Misses]
  <2>1. ASSUME NEW n \in stays PROVE Miss(p, e, n) \in Misses
    <3>0. request[p] \in Requests BY DEF PurgeTables
    <3>1. n \in request[p].asked BY <1>3, <2>1 DEF Stays
    <3>2. n.host \in Hosts BY <3>0, <3>1 DEF Requests, Entries
    <3>3. PICK steady \in BOOLEAN : steady = (request[p].seen = {served[e]}) OBVIOUS
    <3>4. Miss(p, e, n) = [host |-> n.host, sites |-> served[e], steady |-> steady] BY <3>3 DEF Miss
    <3>5. served[e] \in [Listed -> AllPolicies] BY DEF PurgeTables
    <3> QED BY <3>2, <3>4, <3>5 DEF Misses
  <2>2. PICK new \in SUBSET Misses : new = {Miss(p, e, n) : n \in stays} BY <2>1
  <2>3. missed' = [missed EXCEPT ![p] = @ \cup new] BY <1>3, <2>2 DEF Remove
  <2>4. missed \in [Runs -> SUBSET Misses] BY DEF PurgeTables
  <2> QED BY <2>3, <2>4
<1>6. PurgeTables' BY <1>2, <1>4, <1>5 DEF PurgeTables
<1>7. \A o \in Runs \ {p} : done'[o] = done[o] BY <1>2 DEF PurgeTables
<1>8. done'[p] = done[p] \cup {e} BY <1>2 DEF PurgeTables
<1>9. ASSUME PurgeRuns PROVE PurgeRuns'
  <2>1. PICK q, r, purged : q = request[p] /\ r = runs[p] /\ purged = done[p] OBVIOUS
  <2>2. Stands(q, r, purged) /\ r.at = "going" BY <1>2, <1>9, <2>1 DEF PurgeRuns
  <2>3. Stands(q, r, purged \cup {e}) BY <2>2 DEF Stands
  <2> QED BY <1>2, <1>7, <1>8, <1>9, <2>1, <2>3, OneRunMoves
<1>10. ASSUME PurgeKeys PROVE PurgeKeys' BY <1>2, <1>10 DEF PurgeKeys
<1> QED BY <1>2, <1>6, <1>9, <1>10

\* It leaves no copy that nginx, serving the sites the purge was resolved
\* against, would answer an asked entry from, of a name they both give to one site.
LEMMA PurgeMisses ==
    ASSUME KeysInv, NEW p \in Runs, NEW e \in Edges, Remove(p, e)
    PROVE  SteadyPurgeRemoves'
<1>1. PICK q, sites, has : q = request[p] /\ sites = served[e] /\ has = copies[e] OBVIOUS
<1>2. /\ q \in Requests /\ q.at = "running" /\ Keyed(q, file[p])
      /\ missed \in [Runs -> SUBSET Misses]
  <2>1. runs[p].at = "going" BY DEF Remove
  <2>2. q \in Requests /\ Stands(q, runs[p], done[p]) /\ Keyed(q, file[p])
    BY <1>1 DEF KeysInv, PurgeTables, PurgeRuns, PurgeKeys
  <2>3. q.at = "running" BY <2>1, <2>2 DEF Stands, Requests
  <2> QED BY <1>1, <2>2, <2>3 DEF KeysInv, PurgeTables
<1>3. ASSUME q.seen = {sites}, NEW n \in q.asked, Owner(sites, n.host) = NginxOwner(sites, n.host)
      PROVE  KeyAt(e, n) \notin has \ Removes(p, e)
  <2>1. q.entries = ResolvedBy(sites, q.asked) BY <1>2, <1>3 DEF Keyed
  <2>2. KeyAt(e, n) = Key(sites[Owner(sites, n.host)], n) BY <1>1, <1>3 DEF KeyAt
  <2>3. KeyAt(e, n) \in q.entries BY <1>3, <2>1, <2>2 DEF ResolvedBy
  <2>4. ~q.all BY <1>2, <1>3 DEF Keyed
  <2> QED BY <1>1, <2>3, <2>4 DEF Removes
<1>4. PICK stays : stays = Stays(p, e) OBVIOUS
<1>5. missed' = [missed EXCEPT ![p] = @ \cup {Miss(p, e, n) : n \in stays}] BY <1>4 DEF Remove
<1>6. \A n \in stays : n \in q.asked /\ KeyAt(e, n) \in has \ Removes(p, e)
  BY <1>1, <1>4 DEF Stays, Left
<1>7. ASSUME NEW m \in missed'[p], m \notin missed[p], m.steady
      PROVE  Owner(m.sites, m.host) # NginxOwner(m.sites, m.host)
  <2>1. PICK n \in stays : m = Miss(p, e, n) BY <1>2, <1>5, <1>7
  <2>2. m.host = n.host /\ m.sites = sites /\ m.steady = (q.seen = {sites}) BY <1>1, <2>1 DEF Miss
  <2>3. q.seen = {sites} BY <1>7, <2>2
  <2> QED BY <1>3, <1>6, <2>2, <2>3
<1>8. \A o \in Runs \ {p} : missed'[o] = missed[o] BY <1>2, <1>5
<1>9. SteadyPurgeRemoves BY DEF KeysInv
<1> QED BY <1>7, <1>8, <1>9 DEF SteadyPurgeRemoves

LEMMA PurgeAlways == PurgeSpec => []PurgeInv
<1>1. ASSUME PurgeInv, [PurgeNext]_purge PROVE PurgeInv'
  <2>1. CASE \/ \E s \in Listed : Edit(s)
             \/ \E e \in Edges : Converge(e)
             \/ \E e \in Edges, entry \in Visits : Visit(e, entry)
    <3>1. PurgeTables' /\ UNCHANGED <<request, file, runs, done, missed>>
      BY <1>1, <2>1, WorldGoesOn DEF PurgeInv
    <3> QED BY <1>1, <3>1 DEF PurgeInv, PurgeRuns
  <2>2. ASSUME NEW p \in Runs, NEW asked \in Asks, NEW all \in BOOLEAN, NEW limit \in SUBSET Edges \ {{}},
               Submit(p, asked, all, limit) \/ Command(p, asked, all, limit)
        PROVE  PurgeInv'
    BY <1>1, <2>2, PurgeAsked DEF PurgeInv
  <2>3. ASSUME NEW p \in Runs, Take(p) PROVE PurgeInv' BY <1>1, <2>3, PurgeTaken DEF PurgeInv
  <2>4. ASSUME NEW p \in Runs, Launch(p) PROVE PurgeInv' BY <1>1, <2>4, PurgeLaunched DEF PurgeInv
  <2>5. ASSUME NEW p \in Runs, Ends(p) \/ \E e \in Edges : HostStarts(p, e) \/ HostEnds(p, e) PROVE PurgeInv'
    BY <1>1, <2>5, PurgeRunGoes DEF PurgeInv
  <2>6. ASSUME NEW p \in Runs, Report(p) PROVE PurgeInv' BY <1>1, <2>6, PurgeReported DEF PurgeInv
  <2>7. ASSUME NEW p \in Runs, NEW e \in Edges, Remove(p, e) PROVE PurgeInv'
    BY <1>1, <2>7, PurgeRemoves DEF PurgeInv
  <2>8. CASE UNCHANGED purge BY <1>1, <2>8 DEF purge, PurgeInv, PurgeTables, PurgeRuns
  <2> QED BY <1>1, <2>1, <2>2, <2>3, <2>4, <2>5, <2>6, <2>7, <2>8 DEF PurgeNext
<1>2. PurgeInit => PurgeInv BY PurgeStarts
<1> QED BY <1>1, <1>2, PTL DEF PurgeSpec

\* The requests, runs, caches and sites of purges keep their types.
THEOREM PurgeTypesHold == PurgeSpec => []PurgeTypeOK
<1>1. PurgeInv => PurgeTypeOK BY DEF PurgeInv, PurgeTables, Requests, PurgeTypeOK
<1> QED BY <1>1, PurgeAlways, PTL

\* Whatever is edited, deployed or cached meanwhile, and however its hosts and
\* its run end, a purge that was not cut short names every edge it did not purge.
THEOREM UnpurgedAreNamed == PurgeSpec => []FailedAreNamed
<1>1. PurgeInv => FailedAreNamed
  <2> SUFFICES ASSUME PurgeInv, NEW p \in Runs, Done(p), runs[p].status # "timed_out",
                      NEW e \in request[p].limit \ done[p]
               PROVE  e \in Failed(p)
    BY DEF FailedAreNamed
  <2>1. PICK q, r, purged : q = request[p] /\ r = runs[p] /\ purged = done[p] OBVIOUS
  <2>2. Stands(q, r, purged) BY <2>1 DEF PurgeInv, PurgeRuns
  <2>3. e \in DOMAIN r.hosts /\ ~HostSucceeded(r.hosts[e]) BY <2>1, <2>2 DEF Stands, Done
  <2> QED BY <2>1, <2>3 DEF Failed, FailedHosts
<1> QED BY <1>1, PurgeAlways, PTL

\* An edge that serves the sites a purge was resolved against is left with no
\* copy it would answer an asked entry from, but of names that those sites give
\* another owner than nginx does: resolving a second time changes no key, and an
\* owner both agree on has the key nginx writes.
THEOREM SteadyPurges == PurgeSpec => []SteadyPurgeRemoves
<1>1. ASSUME KeysInv, [PurgeNext]_purge PROVE KeysInv'
  <2>0. PurgeTables /\ PurgeRuns /\ PurgeKeys /\ SteadyPurgeRemoves BY <1>1 DEF KeysInv
  <2>1. CASE \/ \E s \in Listed : Edit(s)
             \/ \E e \in Edges : Converge(e)
             \/ \E e \in Edges, entry \in Visits : Visit(e, entry)
    <3>1. PurgeTables' /\ UNCHANGED <<request, file, runs, done, missed>>
      BY <2>0, <2>1, WorldGoesOn
    <3> QED BY <2>0, <3>1 DEF KeysInv, PurgeRuns, PurgeKeys, SteadyPurgeRemoves
  <2> DEFINE Rest == PurgeTables' /\ PurgeRuns' /\ PurgeKeys' /\ UNCHANGED missed
  <2>a. Rest => KeysInv' BY <2>0 DEF KeysInv, SteadyPurgeRemoves
  <2> HIDE DEF Rest
  <2>2. ASSUME NEW p \in Runs, NEW asked \in Asks, NEW all \in BOOLEAN, NEW limit \in SUBSET Edges \ {{}},
               Submit(p, asked, all, limit) \/ Command(p, asked, all, limit)
        PROVE  KeysInv'
    <3>1. UNCHANGED missed BY <2>2 DEF Submit, Command, Ghosts
    <3> QED BY <2>0, <2>a, <2>2, <3>1, PurgeAsked DEF Rest
  <2>3. ASSUME NEW p \in Runs, Take(p) PROVE KeysInv'
    <3>1. UNCHANGED missed BY <2>3 DEF Take, Ghosts
    <3> QED BY <2>0, <2>a, <2>3, <3>1, PurgeTaken DEF Rest
  <2>4. ASSUME NEW p \in Runs, Launch(p) PROVE KeysInv'
    <3>1. UNCHANGED missed BY <2>4 DEF Launch, Ghosts
    <3> QED BY <2>0, <2>a, <2>4, <3>1, PurgeLaunched DEF Rest
  <2>5. ASSUME NEW p \in Runs, Ends(p) \/ \E e \in Edges : HostStarts(p, e) \/ HostEnds(p, e) PROVE KeysInv'
    <3>1. UNCHANGED missed BY <2>5 DEF Ends, HostStarts, HostEnds, Ghosts
    <3> QED BY <2>0, <2>a, <2>5, <3>1, PurgeRunGoes DEF Rest
  <2>6. ASSUME NEW p \in Runs, Report(p) PROVE KeysInv'
    <3>1. UNCHANGED missed BY <2>6 DEF Report, Ghosts
    <3> QED BY <2>0, <2>a, <2>6, <3>1, PurgeReported DEF Rest
  <2>7. ASSUME NEW p \in Runs, NEW e \in Edges, Remove(p, e) PROVE KeysInv'
    BY <1>1, <2>0, <2>7, PurgeRemoves, PurgeMisses DEF KeysInv
  <2>8. CASE UNCHANGED purge
    BY <2>0, <2>8 DEF purge, KeysInv, PurgeTables, PurgeRuns, PurgeKeys, SteadyPurgeRemoves
  <2> QED BY <1>1, <2>1, <2>2, <2>3, <2>4, <2>5, <2>6, <2>7, <2>8 DEF PurgeNext
<1>2. PurgeInit => KeysInv BY PurgeStarts DEF KeysInv, PurgeInv
<1>3. KeysInv => SteadyPurgeRemoves BY DEF KeysInv
<1> QED BY <1>1, <1>2, <1>3, PTL DEF PurgeSpec
=============================================================================

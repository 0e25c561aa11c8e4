---------------------------- MODULE JobScheduler -----------------------------
(***************************************************************************)
(* Recurring work (capabilities/jobs: scheduling.py, runner.py and the     *)
(* schedules table), composed with the job queue.  Every worker's loop     *)
(* first publishes what is due, from a snapshot of the schedules it read   *)
(* in a transaction of its own, and then claims a job.  A schedule is its  *)
(* single-flight key; its jobs are the queue's scheduled ones.             *)
(***************************************************************************)
EXTENDS JobQueue

CONSTANTS
    Installations,  \* sets of schedules a release of the program contributes
    Interval,       \* interval_seconds of every schedule
    Jitter,         \* jitter_seconds
    MaxClock,       \* bound: the clock stops here
    MaxLosses       \* bound: worker crashes and failed publications

ASSUME SchedulerAssumption ==
    /\ Installations \subseteq SUBSET ScheduledKeys
    /\ Interval \in Nat \ {0}
    /\ Jitter \in Nat
    /\ MaxClock \in Nat
    /\ MaxLosses \in Nat

VARIABLES
    schedule,   \* next_run_at of every schedule in the table
    loop,       \* where each worker's loop is, and the due schedules it read
    losses      \* crashes and failed publications so far

scheduling == <<schedule, loop, losses>>
everything == <<vars, scheduling>>

\* A slot is at least Interval, so 0 stands for a schedule that has no row.
NoSlot == 0

Scanning == [at |-> "scanning", moment |-> 0, due |-> {}]
Registered == {s \in ScheduledKeys : schedule[s] # NoSlot}

SchedulerTypeOK ==
    /\ TypeOK
    /\ schedule \in [ScheduledKeys -> Nat]
    /\ \A w \in Workers :
        /\ loop[w].at \in {"scanning", "firing", "claiming", "working"}
        /\ loop[w].moment \in 0..clock
        /\ loop[w].due \subseteq [name : ScheduledKeys, slot : 1..clock]
    /\ losses \in 0..MaxLosses

-----------------------------------------------------------------------------
SchedulerInit ==
    /\ Init
    /\ schedule = [s \in ScheduledKeys |-> NoSlot]
    /\ loop = [w \in Workers |-> Scanning]
    /\ losses = 0

\* next_due, counted from the moment of the scan.
NextDue(now, spread) == now + Interval + spread

RegisteredAnew(names, spread) ==                                    \* mutant
    [s \in ScheduledKeys |-> IF s \in names THEN NextDue(clock, spread) ELSE NoSlot]
\* A schedule that has a row keeps its slot.
RegisteredAs(names, spread) ==
    [s \in ScheduledKeys |->
        IF s \notin names THEN NoSlot
        ELSE IF schedule[s] # NoSlot THEN schedule[s]
        ELSE NextDue(clock, spread)]

\* A process starts: it registers what its release contributes and forgets the
\* rest.
Register(names, spread) ==
    /\ schedule' = RegisteredAs(names, spread)
    /\ UNCHANGED <<vars, loop, losses>>

ScanAll(w) ==                                                       \* mutant
    /\ loop[w].at = "scanning"
    /\ loop' = [loop EXCEPT ![w] =
           [at |-> "firing", moment |-> clock,
            due |-> {[name |-> s, slot |-> schedule[s]] : s \in Registered}]]
    /\ UNCHANGED <<vars, schedule, losses>>

\* ScheduleStore.due: the snapshot a worker publishes from.
Scan(w) ==
    /\ loop[w].at = "scanning"
    /\ loop' = [loop EXCEPT ![w] =
           [at |-> "firing", moment |-> clock,
            due |-> {[name |-> s, slot |-> schedule[s]] : s \in {r \in Registered : schedule[r] <= clock}}]]
    /\ UNCHANGED <<vars, schedule, losses>>

WonAlways(due) == schedule[due.name] # NoSlot                       \* mutant
\* The compare-and-swap of reschedule.
Won(due) == schedule[due.name] = due.slot

FireInHalves(w, due, spread) ==                                     \* mutant
    /\ loop[w].at = "firing"
    /\ due \in loop[w].due
    /\ loop' = [loop EXCEPT ![w].due = @ \ {due}]
    /\ Won(due)
    /\ schedule' = [schedule EXCEPT ![due.name] = NextDue(loop[w].moment, spread)]
    /\ UNCHANGED <<vars, losses>>

\* One transaction: the slot moves and its job is published, unless the slot
\* has moved already or the last job is still in flight.
Fire(w, due, spread) ==
    /\ loop[w].at = "firing"
    /\ due \in loop[w].due
    /\ loop' = [loop EXCEPT ![w].due = @ \ {due}]
    /\ IF Won(due)
       THEN /\ schedule' = [schedule EXCEPT ![due.name] = NextDue(loop[w].moment, spread)]
            /\ IF InFlight(due.name) THEN UNCHANGED vars ELSE Enqueue("scheduled", due.name)
       ELSE UNCHANGED <<vars, schedule>>
    /\ UNCHANGED losses

\* The publication fails: its transaction leaves nothing, and the error takes
\* the loop back to its start, whatever else was due.
FireFails(w) ==
    /\ loop[w].at = "firing"
    /\ loop[w].due # {}
    /\ losses < MaxLosses
    /\ losses' = losses + 1
    /\ loop' = [loop EXCEPT ![w] = Scanning]
    /\ UNCHANGED <<vars, schedule>>

Fired(w) ==
    /\ loop[w].at = "firing"
    /\ loop[w].due = {}
    /\ loop' = [loop EXCEPT ![w] = [Scanning EXCEPT !.at = "claiming"]]
    /\ UNCHANGED <<vars, schedule, losses>>

\* The claim of JobQueue; with nothing to run the loop starts again.
ClaimOne(w) ==
    /\ loop[w].at = "claiming"
    /\ \/ Claim(w) /\ loop' = [loop EXCEPT ![w].at = "working"]
       \/ RetireOnly(w) /\ loop' = [loop EXCEPT ![w] = Scanning]
       \/ /\ \A j \in JobIds : ~Claimable(rows[j])
          /\ loop' = [loop EXCEPT ![w] = Scanning]
          /\ UNCHANGED vars
    /\ UNCHANGED <<schedule, losses>>

\* JobQueue runs the job; once it has pruned, the loop starts again.
Work(w) ==
    /\ loop[w].at = "working"
    /\ \/ /\ (\E declared \in BOOLEAN : Hold(w, declared)) \/ Complete(w) \/ FailOrRetry(w)
          /\ UNCHANGED loop
       \/ Prune(w) /\ loop' = [loop EXCEPT ![w] = Scanning]
    /\ UNCHANGED <<schedule, losses>>

\* The worker dies in mid-loop, with or without a job in hand.
Die(w) ==
    /\ losses < MaxLosses
    /\ losses' = losses + 1
    /\ loop[w].at # "scanning"
    /\ loop' = [loop EXCEPT ![w] = Scanning]
    /\ IF worker[w].pc = "idle" THEN UNCHANGED vars ELSE Lose(w)
    /\ UNCHANGED schedule

Pass ==
    /\ clock < MaxClock
    /\ clock' = clock + 1
    /\ UNCHANGED <<created, rows, worker, scheduling>>

LoopStep(w) ==
    \/ Scan(w)
    \/ \E due \in loop[w].due, spread \in 0..Jitter : Fire(w, due, spread)
    \/ Fired(w)
    \/ ClaimOne(w)
    \/ Work(w)

SchedulerNext ==
    \/ \E names \in Installations, spread \in 0..Jitter : Register(names, spread)
    \/ \E w \in Workers : LoopStep(w) \/ FireFails(w) \/ Die(w)
    \/ Pass

SchedulerSpec == SchedulerInit /\ [][SchedulerNext]_everything

\* Workers loop, handlers return, and time passes.
FairScheduler ==
    /\ SchedulerSpec
    /\ \A w \in Workers : WF_everything(LoopStep(w))
    /\ WF_everything(Pass)

-----------------------------------------------------------------------------
(* Properties.                                                             *)

\* However many workers publish from snapshots however old, and however often
\* processes restart, a schedule's slot only ever moves on by at least an
\* interval: it never fires twice for one slot, nor catches up on missed ones.
SlotsSpaced ==
    [][\A s \in ScheduledKeys :
         schedule[s] # NoSlot /\ schedule'[s] \notin {schedule[s], NoSlot}
         => schedule'[s] >= schedule[s] + Interval]_everything

\* A slot moves only with a job of the schedule in flight: no firing is spent on
\* nothing, and none is published beside a slot left where it was.
FiringsPublished ==
    [][\A s \in ScheduledKeys :
         /\ schedule[s] # NoSlot /\ schedule'[s] \notin {schedule[s], NoSlot}
            => InFlight(s)'
         /\ ~InFlight(s) /\ InFlight(s)' => schedule'[s] # schedule[s]]_everything

\* A registered schedule fires at its slot or later, unless its feature is
\* removed, even if every process that could fire it keeps restarting.
DueFires ==
    \A s \in ScheduledKeys, slot \in 1..MaxClock :
        schedule[s] = slot ~> InFlight(s) \/ schedule[s] = NoSlot \/ created = MaxJobs
=============================================================================

---------------------------- MODULE RestoreProofs ---------------------------
(***************************************************************************)
(* Whatever the places, the services, the archives and the number of       *)
(* faults, a service that writes runs only on a whole state.  The argument *)
(* is the protocol's own: a complete checkpoint holds the old state and    *)
(* keeps the services down; it is dropped only once every place, the       *)
(* host's files last, is the old one or the new one again.                 *)
(***************************************************************************)
EXTENDS Restore, TLAPS

\* What the run that holds the checkpoint is publishing.
Goal(p) == IF command = "restore" THEN new[p] ELSE old[p]

WholeState ==
    \/ \A p \in Places : live[p] = old[p]
    \/ \A p \in Places : live[p] = new[p]

\* Places no archive of this restore names, on the host and in the stage.
Untouched ==
    /\ \A p \in Places \ selected : live[p] = old[p] /\ new[p] = old[p]
    /\ \A p \in selected : new[p] = restores
    /\ \A f \in Files \ selected : stage[f] = old[f]

CheckpointHolds ==
    /\ checkpoint = "ready" => Up = {}
    /\ checkpoint # "ready" => WholeState

\* What each place of the wrapper knows of the checkpoint and the services.
Phases ==
    /\ pc = "stopping" => Up \subseteq running
    /\ pc \in {"checking", "saving", "writing", "undoing", "publishing"} => Up = {}
    /\ pc = "stopping" /\ command = "restore" => checkpoint = "none"
    /\ pc = "checking" => command = "restore" /\ checkpoint = "none"
    /\ pc = "saving" => command = "restore" /\ checkpoint = "opened"
    /\ pc = "writing" => command = "restore"
    /\ pc \in {"writing", "undoing", "publishing"} => checkpoint = "ready"
    /\ pc = "starting" => checkpoint = "none"

\* Before the first write nothing differs; inside the container only the stage
\* stands for the host's files.
Before ==
    /\ pc \in {"stopping", "checking", "saving"} /\ command = "restore"
         => /\ \A p \in Places : live[p] = old[p]
            /\ \A f \in Files : stage[f] = old[f]
    /\ pc \in {"writing", "undoing"} /\ command = "restore"
         => \A f \in Files : live[f] = old[f]

Progress ==
    /\ pc \in {"writing", "undoing"} => todo \subseteq selected
    /\ pc = "publishing" => todo \subseteq Files
    /\ pc = "writing" => \A p \in selected \ todo : At(p) = new[p]
    /\ pc = "undoing" /\ ~failed => \A p \in selected \ todo : At(p) = old[p]
    /\ pc = "publishing" => /\ \A p \in Places : At(p) = Goal(p)
                            /\ \A f \in Files \ todo : live[f] = Goal(f)

RestoreIInv ==
    /\ RestoreTypeOK
    /\ Untouched
    /\ CheckpointHolds
    /\ Phases
    /\ Before
    /\ Progress

LEMMA InitRestore == RestoreInit => RestoreIInv
<1> SUFFICES ASSUME RestoreInit PROVE RestoreIInv
    OBVIOUS
<1> USE PlacesAssumption DEF RestoreInit
<1>0. PICK missing \in SUBSET Directories :
        live = [p \in Places |-> IF p \in missing THEN Absent ELSE 0]
  OBVIOUS
<1>1. live \in [Places -> Generations]
  BY <1>0 DEF Generations, Absent
<1>2. RestoreTypeOK
  BY <1>1 DEF RestoreTypeOK, Generations
<1>3. Untouched
  BY <1>0 DEF Untouched
<1>4. CheckpointHolds /\ Phases /\ Before /\ Progress
  BY DEF CheckpointHolds, Phases, Before, Progress, WholeState
<1> QED
  BY <1>2, <1>3, <1>4 DEF RestoreIInv

LEMMA BeginRestoreStep ==
  ASSUME RestoreIInv, NEW sel \in Selections, BeginRestore(sel)
  PROVE  RestoreIInv'
<1> USE PlacesAssumption DEF RestoreIInv, BeginRestore, Stageable, Up, Goto, Data, Held, Fault, NoFault
<1>1. RestoreTypeOK'
  <2>1. running' \subseteq Writers /\ selected' \subseteq Places
    BY DEF RestoreTypeOK
  <2>2. restores' \in Nat /\ restores' \in Generations
    BY DEF RestoreTypeOK, Generations
  <2>3. stage' \in [Files -> Generations]
    BY DEF RestoreTypeOK
  <2>4. new' \in [Places -> Generations]
    BY <2>2 DEF RestoreTypeOK
  <2>5. checkpoint' = "none" /\ pc' = "stopping" /\ command' = "restore"
        /\ {cleaning, failed}' \subseteq BOOLEAN
    BY DEF RestoreTypeOK
  <2>6. todo' \in SUBSET Places /\ faults' \in Nat /\ service' = service
        /\ live' = live /\ saved' = saved /\ old' = live
    BY DEF RestoreTypeOK
  <2> QED
    BY <2>1, <2>2, <2>3, <2>4, <2>5, <2>6 DEF RestoreTypeOK
<1>2. Untouched'
  BY DEF Untouched, Progress, Phases, RestoreTypeOK
<1>3. CheckpointHolds'
  BY DEF CheckpointHolds, WholeState, Phases, Up, Before, Progress, Untouched, RestoreTypeOK, At, Goal
<1>4. Phases'
  BY DEF Phases, Up, CheckpointHolds, RestoreTypeOK
<1>5. Before'
  BY DEF Before, Phases, RestoreTypeOK
<1>6. Progress'
  BY DEF Progress, Before, Phases, At, Goal, Untouched, RestoreTypeOK
<1> QED
  BY <1>1, <1>2, <1>3, <1>4, <1>5, <1>6

LEMMA BeginRecoverStep ==
  ASSUME RestoreIInv, BeginRecover
  PROVE  RestoreIInv'
<1> USE PlacesAssumption DEF RestoreIInv, BeginRecover, Stageable, Up, Stopped, Goto, Data, Held, Fault, NoFault
<1>1. RestoreTypeOK'
  BY DEF RestoreTypeOK, Generations, Absent, Untouched, Phases, Before, Progress
<1>2. Untouched'
  BY DEF Untouched, Progress, Phases, RestoreTypeOK
<1>3. CheckpointHolds'
  BY DEF CheckpointHolds, WholeState, Phases, Up, Before, Progress, Untouched, RestoreTypeOK, At, Goal
<1>4. Phases'
  BY DEF Phases, Up, CheckpointHolds, RestoreTypeOK
<1>5. Before'
  BY DEF Before, Phases, RestoreTypeOK
<1>6. Progress'
  BY DEF Progress, Before, Phases, At, Goal, Untouched, RestoreTypeOK
<1> QED
  BY <1>1, <1>2, <1>3, <1>4, <1>5, <1>6

LEMMA StopStep ==
  ASSUME RestoreIInv, NEW w \in Writers, Stop(w)
  PROVE  RestoreIInv'
<1> USE PlacesAssumption DEF RestoreIInv, Stop, Up, Goto, Data, Held, Fault, NoFault
<1>1. RestoreTypeOK'
  BY DEF RestoreTypeOK, Generations, Absent, Untouched, Phases, Before, Progress
<1>2. Untouched'
  BY DEF Untouched, Progress, Phases, RestoreTypeOK
<1>3. CheckpointHolds'
  BY DEF CheckpointHolds, WholeState, Phases, Up, Before, Progress, Untouched, RestoreTypeOK, At, Goal
<1>4. Phases'
  BY DEF Phases, Up, CheckpointHolds, RestoreTypeOK
<1>5. Before'
  BY DEF Before, Phases, RestoreTypeOK
<1>6. Progress'
  BY DEF Progress, Before, Phases, At, Goal, Untouched, RestoreTypeOK
<1> QED
  BY <1>1, <1>2, <1>3, <1>4, <1>5, <1>6

LEMMA StartStep ==
  ASSUME RestoreIInv, NEW w \in Writers, Start(w)
  PROVE  RestoreIInv'
<1> USE PlacesAssumption DEF RestoreIInv, Start, Goto, Data, Held, Fault, NoFault
<1>1. RestoreTypeOK'
  BY DEF RestoreTypeOK, Generations, Absent, Untouched, Phases, Before, Progress
<1>2. Untouched'
  BY DEF Untouched, Progress, Phases, RestoreTypeOK
<1>3. CheckpointHolds'
  BY DEF CheckpointHolds, WholeState, Phases, Up, Before, Progress, Untouched, RestoreTypeOK, At, Goal
<1>4. Phases'
  BY DEF Phases, Up, CheckpointHolds, RestoreTypeOK
<1>5. Before'
  BY DEF Before, Phases, RestoreTypeOK
<1>6. Progress'
  BY DEF Progress, Before, Phases, At, Goal, Untouched, RestoreTypeOK
<1> QED
  BY <1>1, <1>2, <1>3, <1>4, <1>5, <1>6

LEMMA StartFailsStep ==
  ASSUME RestoreIInv, NEW w \in Writers, StartFails(w)
  PROVE  RestoreIInv'
<1> USE PlacesAssumption DEF RestoreIInv, StartFails, Goto, Data, Held, Fault, NoFault
<1>1. RestoreTypeOK'
  BY DEF RestoreTypeOK, Generations, Absent, Untouched, Phases, Before, Progress
<1>2. Untouched'
  BY DEF Untouched, Progress, Phases, RestoreTypeOK
<1>3. CheckpointHolds'
  BY DEF CheckpointHolds, WholeState, Phases, Up, Before, Progress, Untouched, RestoreTypeOK, At, Goal
<1>4. Phases'
  BY DEF Phases, Up, CheckpointHolds, RestoreTypeOK
<1>5. Before'
  BY DEF Before, Phases, RestoreTypeOK
<1>6. Progress'
  BY DEF Progress, Before, Phases, At, Goal, Untouched, RestoreTypeOK
<1> QED
  BY <1>1, <1>2, <1>3, <1>4, <1>5, <1>6

LEMMA PublishStep ==
  ASSUME RestoreIInv, NEW p \in Places, Publish(p)
  PROVE  RestoreIInv'
<1> USE PlacesAssumption DEF RestoreIInv, Publish, First, At, Goal, Goto, Data, Held, Fault, NoFault
<1>1. RestoreTypeOK'
  BY DEF RestoreTypeOK, Generations, Absent, Untouched, Phases, Before, Progress
<1>2. Untouched'
  BY DEF Untouched, Progress, Phases, RestoreTypeOK
<1>3. CheckpointHolds'
  BY DEF CheckpointHolds, WholeState, Phases, Up, Before, Progress, Untouched, RestoreTypeOK, At, Goal
<1>4. Phases'
  BY DEF Phases, Up, CheckpointHolds, RestoreTypeOK
<1>5. Before'
  BY DEF Before, Phases, RestoreTypeOK
<1>6. Progress'
  BY DEF Progress, Before, Phases, At, Goal, Untouched, RestoreTypeOK
<1> QED
  BY <1>1, <1>2, <1>3, <1>4, <1>5, <1>6

LEMMA VacateStep ==
  ASSUME RestoreIInv, NEW p \in Places, Vacate(p)
  PROVE  RestoreIInv'
<1> USE PlacesAssumption DEF RestoreIInv, Vacate, First, At, Put, Up, Goto, Data, Held, Fault, NoFault
<1>1. RestoreTypeOK'
  BY DEF RestoreTypeOK, Generations, Absent, Untouched, Phases, Before, Progress
<1>2. Untouched'
  BY DEF Untouched, Progress, Phases, RestoreTypeOK
<1>3. CheckpointHolds'
  BY DEF CheckpointHolds, WholeState, Phases, Up, Before, Progress, Untouched, RestoreTypeOK, At, Goal
<1>4. Phases'
  BY DEF Phases, Up, CheckpointHolds, RestoreTypeOK
<1>5. Before'
  BY DEF Before, Phases, RestoreTypeOK
<1>6. Progress'
  BY DEF Progress, Before, Phases, At, Goal, Untouched, RestoreTypeOK
<1> QED
  BY <1>1, <1>2, <1>3, <1>4, <1>5, <1>6

LEMMA WriteStep ==
  ASSUME RestoreIInv, NEW p \in Places, Write(p)
  PROVE  RestoreIInv'
<1> USE PlacesAssumption DEF RestoreIInv, Write, First, At, Put, Up, Goto, Data, Held, Fault, NoFault
<1>1. RestoreTypeOK'
  BY DEF RestoreTypeOK, Generations, Absent, Untouched, Phases, Before, Progress
<1>2. Untouched'
  BY DEF Untouched, Progress, Phases, RestoreTypeOK
<1>3. CheckpointHolds'
  BY DEF CheckpointHolds, WholeState, Phases, Up, Before, Progress, Untouched, RestoreTypeOK, At, Goal
<1>4. Phases'
  BY DEF Phases, Up, CheckpointHolds, RestoreTypeOK
<1>5. Before'
  BY DEF Before, Phases, RestoreTypeOK
<1>6. Progress'
  BY DEF Progress, Before, Phases, At, Goal, Untouched, RestoreTypeOK
<1> QED
  BY <1>1, <1>2, <1>3, <1>4, <1>5, <1>6

LEMMA RemoveStep ==
  ASSUME RestoreIInv, NEW p \in Places, Remove(p)
  PROVE  RestoreIInv'
<1> USE PlacesAssumption DEF RestoreIInv, Remove, Last, At, Put, Up, Goto, Data, Held, Fault, NoFault
<1>1. RestoreTypeOK'
  BY DEF RestoreTypeOK, Generations, Absent, Untouched, Phases, Before, Progress
<1>2. Untouched'
  BY DEF Untouched, Progress, Phases, RestoreTypeOK
<1>3. CheckpointHolds'
  BY DEF CheckpointHolds, WholeState, Phases, Up, Before, Progress, Untouched, RestoreTypeOK, At, Goal
<1>4. Phases'
  BY DEF Phases, Up, CheckpointHolds, RestoreTypeOK
<1>5. Before'
  BY DEF Before, Phases, RestoreTypeOK
<1>6. Progress'
  BY DEF Progress, Before, Phases, At, Goal, Untouched, RestoreTypeOK
<1> QED
  BY <1>1, <1>2, <1>3, <1>4, <1>5, <1>6

LEMMA CopyBackStep ==
  ASSUME RestoreIInv, NEW p \in Places, CopyBack(p)
  PROVE  RestoreIInv'
<1> USE PlacesAssumption DEF RestoreIInv, CopyBack, Last, At, Put, Up, Goto, Data, Held, Fault, NoFault
<1>1. RestoreTypeOK'
  BY DEF RestoreTypeOK, Generations, Absent, Untouched, Phases, Before, Progress
<1>2. Untouched'
  BY DEF Untouched, Progress, Phases, RestoreTypeOK
<1>3. CheckpointHolds'
  BY DEF CheckpointHolds, WholeState, Phases, Up, Before, Progress, Untouched, RestoreTypeOK, At, Goal
<1>4. Phases'
  BY DEF Phases, Up, CheckpointHolds, RestoreTypeOK
<1>5. Before'
  BY DEF Before, Phases, RestoreTypeOK
<1>6. Progress'
  BY DEF Progress, Before, Phases, At, Goal, Untouched, RestoreTypeOK
<1> QED
  BY <1>1, <1>2, <1>3, <1>4, <1>5, <1>6

LEMMA CopyBackFailsStep ==
  ASSUME RestoreIInv, NEW p \in Places, CopyBackFails(p)
  PROVE  RestoreIInv'
<1> USE PlacesAssumption DEF RestoreIInv, CopyBackFails, Last, At, Goto, Data, Held, Fault, NoFault
<1>1. RestoreTypeOK'
  BY DEF RestoreTypeOK, Generations, Absent, Untouched, Phases, Before, Progress
<1>2. Untouched'
  BY DEF Untouched, Progress, Phases, RestoreTypeOK
<1>3. CheckpointHolds'
  BY DEF CheckpointHolds, WholeState, Phases, Up, Before, Progress, Untouched, RestoreTypeOK, At, Goal
<1>4. Phases'
  BY DEF Phases, Up, CheckpointHolds, RestoreTypeOK
<1>5. Before'
  BY DEF Before, Phases, RestoreTypeOK
<1>6. Progress'
  BY DEF Progress, Before, Phases, At, Goal, Untouched, RestoreTypeOK
<1> QED
  BY <1>1, <1>2, <1>3, <1>4, <1>5, <1>6

LEMMA RunContainerStep ==
  ASSUME RestoreIInv, RunContainer
  PROVE  RestoreIInv'
<1> USE PlacesAssumption DEF RestoreIInv, RunContainer, Undo, Abandon, Up, Goto, Data, Held, Fault, NoFault
<1>1. RestoreTypeOK'
  BY ZenonT(30) DEF RestoreTypeOK, Generations, Absent, Untouched, Phases, Before, Progress
<1>2. Untouched'
  BY DEF Untouched, Progress, Phases, RestoreTypeOK
<1>3. CheckpointHolds'
  BY DEF CheckpointHolds, WholeState, Phases, Up, Before, Progress, Untouched, RestoreTypeOK, At, Goal
<1>4. Phases'
  BY DEF Phases, Up, CheckpointHolds, RestoreTypeOK
<1>5. Before'
  BY DEF Before, Phases, RestoreTypeOK
<1>6. Progress'
  BY DEF Progress, Before, Phases, At, Goal, Untouched, RestoreTypeOK
<1> QED
  BY <1>1, <1>2, <1>3, <1>4, <1>5, <1>6

LEMMA CommitStep ==
  ASSUME RestoreIInv, Commit
  PROVE  RestoreIInv'
<1> USE PlacesAssumption DEF RestoreIInv, Commit, Goto, Data, Held, Fault, NoFault
<1>1. RestoreTypeOK'
  BY DEF RestoreTypeOK, Generations, Absent, Untouched, Phases, Before, Progress
<1>2. Untouched'
  BY DEF Untouched, Progress, Phases, RestoreTypeOK
<1>3. CheckpointHolds'
  BY DEF CheckpointHolds, WholeState, Phases, Up, Before, Progress, Untouched, RestoreTypeOK, At, Goal
<1>4. Phases'
  BY DEF Phases, Up, CheckpointHolds, RestoreTypeOK
<1>5. Before'
  BY DEF Before, Phases, RestoreTypeOK
<1>6. Progress'
  BY DEF Progress, Before, Phases, At, Goal, Untouched, RestoreTypeOK
<1> QED
  BY <1>1, <1>2, <1>3, <1>4, <1>5, <1>6

LEMMA FinallyStep ==
  ASSUME RestoreIInv, Finally
  PROVE  RestoreIInv'
<1> USE PlacesAssumption DEF RestoreIInv, Finally, Goto, Data, Held, Fault, NoFault
<1>1. RestoreTypeOK'
  BY ZenonT(30) DEF RestoreTypeOK, Generations, Absent, Untouched, Phases, Before, Progress
<1>2. Untouched'
  BY DEF Untouched, Progress, Phases, RestoreTypeOK
<1>3. CheckpointHolds'
  BY DEF CheckpointHolds, WholeState, Phases, Up, Before, Progress, Untouched, RestoreTypeOK, At, Goal
<1>4. Phases'
  BY DEF Phases, Up, CheckpointHolds, RestoreTypeOK
<1>5. Before'
  BY DEF Before, Phases, RestoreTypeOK
<1>6. Progress'
  BY DEF Progress, Before, Phases, At, Goal, Untouched, RestoreTypeOK
<1> QED
  BY <1>1, <1>2, <1>3, <1>4, <1>5, <1>6

LEMMA ReturnStep ==
  ASSUME RestoreIInv, Return
  PROVE  RestoreIInv'
<1> USE PlacesAssumption DEF RestoreIInv, Return, Goto, Data, Held, Fault, NoFault
<1>1. RestoreTypeOK'
  BY DEF RestoreTypeOK, Generations, Absent, Untouched, Phases, Before, Progress
<1>2. Untouched'
  BY DEF Untouched, Progress, Phases, RestoreTypeOK
<1>3. CheckpointHolds'
  BY DEF CheckpointHolds, WholeState, Phases, Up, Before, Progress, Untouched, RestoreTypeOK, At, Goal
<1>4. Phases'
  BY DEF Phases, Up, CheckpointHolds, RestoreTypeOK
<1>5. Before'
  BY DEF Before, Phases, RestoreTypeOK
<1>6. Progress'
  BY DEF Progress, Before, Phases, At, Goal, Untouched, RestoreTypeOK
<1> QED
  BY <1>1, <1>2, <1>3, <1>4, <1>5, <1>6

LEMMA RefuseStep ==
  ASSUME RestoreIInv, Refuse
  PROVE  RestoreIInv'
<1> USE PlacesAssumption DEF RestoreIInv, Refuse, Goto, Data, Held, Fault, NoFault
<1>1. RestoreTypeOK'
  BY DEF RestoreTypeOK, Generations, Absent, Untouched, Phases, Before, Progress
<1>2. Untouched'
  BY DEF Untouched, Progress, Phases, RestoreTypeOK
<1>3. CheckpointHolds'
  BY DEF CheckpointHolds, WholeState, Phases, Up, Before, Progress, Untouched, RestoreTypeOK, At, Goal
<1>4. Phases'
  BY DEF Phases, Up, CheckpointHolds, RestoreTypeOK
<1>5. Before'
  BY DEF Before, Phases, RestoreTypeOK
<1>6. Progress'
  BY DEF Progress, Before, Phases, At, Goal, Untouched, RestoreTypeOK
<1> QED
  BY <1>1, <1>2, <1>3, <1>4, <1>5, <1>6

LEMMA OpenCheckpointStep ==
  ASSUME RestoreIInv, OpenCheckpoint
  PROVE  RestoreIInv'
<1> USE PlacesAssumption DEF RestoreIInv, OpenCheckpoint, Goto, Data, Held, Fault, NoFault
<1>1. RestoreTypeOK'
  BY DEF RestoreTypeOK, Generations, Absent, Untouched, Phases, Before, Progress
<1>2. Untouched'
  BY DEF Untouched, Progress, Phases, RestoreTypeOK
<1>3. CheckpointHolds'
  BY DEF CheckpointHolds, WholeState, Phases, Up, Before, Progress, Untouched, RestoreTypeOK, At, Goal
<1>4. Phases'
  BY DEF Phases, Up, CheckpointHolds, RestoreTypeOK
<1>5. Before'
  BY DEF Before, Phases, RestoreTypeOK
<1>6. Progress'
  BY DEF Progress, Before, Phases, At, Goal, Untouched, RestoreTypeOK
<1> QED
  BY <1>1, <1>2, <1>3, <1>4, <1>5, <1>6

LEMMA SaveStep ==
  ASSUME RestoreIInv, Save
  PROVE  RestoreIInv'
<1> USE PlacesAssumption DEF RestoreIInv, Save, At, Goto, Data, Held, Fault, NoFault
<1>1. RestoreTypeOK'
  BY DEF RestoreTypeOK, Generations, Absent, Untouched, Phases, Before, Progress
<1>2. Untouched'
  BY DEF Untouched, Progress, Phases, RestoreTypeOK
<1>3. CheckpointHolds'
  BY DEF CheckpointHolds, WholeState, Phases, Up, Before, Progress, Untouched, RestoreTypeOK, At, Goal
<1>4. Phases'
  BY DEF Phases, Up, CheckpointHolds, RestoreTypeOK
<1>5. Before'
  BY DEF Before, Phases, RestoreTypeOK
<1>6. Progress'
  BY DEF Progress, Before, Phases, At, Goal, Untouched, RestoreTypeOK
<1> QED
  BY <1>1, <1>2, <1>3, <1>4, <1>5, <1>6

LEMMA WrittenStep ==
  ASSUME RestoreIInv, Written
  PROVE  RestoreIInv'
<1> USE PlacesAssumption DEF RestoreIInv, Written, Goto, Data, Held, Fault, NoFault
<1>1. RestoreTypeOK'
  BY DEF RestoreTypeOK, Generations, Absent, Untouched, Phases, Before, Progress
<1>2. Untouched'
  BY DEF Untouched, Progress, Phases, RestoreTypeOK
<1>3. CheckpointHolds'
  BY DEF CheckpointHolds, WholeState, Phases, Up, Before, Progress, Untouched, RestoreTypeOK, At, Goal
<1>4. Phases'
  BY DEF Phases, Up, CheckpointHolds, RestoreTypeOK
<1>5. Before'
  BY DEF Before, Phases, RestoreTypeOK
<1>6. Progress'
  BY DEF Progress, Before, Phases, At, Goal, Untouched, RestoreTypeOK
<1> QED
  BY <1>1, <1>2, <1>3, <1>4, <1>5, <1>6

LEMMA RolledBackStep ==
  ASSUME RestoreIInv, RolledBack
  PROVE  RestoreIInv'
<1> USE PlacesAssumption DEF RestoreIInv, RolledBack, Goto, Data, Held, Fault, NoFault
<1>1. RestoreTypeOK'
  BY DEF RestoreTypeOK, Generations, Absent, Untouched, Phases, Before, Progress
<1>2. Untouched'
  BY DEF Untouched, Progress, Phases, RestoreTypeOK
<1>3. CheckpointHolds'
  BY DEF CheckpointHolds, WholeState, Phases, Up, Before, Progress, Untouched, RestoreTypeOK, At, Goal
<1>4. Phases'
  BY DEF Phases, Up, CheckpointHolds, RestoreTypeOK
<1>5. Before'
  BY DEF Before, Phases, RestoreTypeOK
<1>6. Progress'
  BY DEF Progress, Before, Phases, At, Goal, Untouched, RestoreTypeOK
<1> QED
  BY <1>1, <1>2, <1>3, <1>4, <1>5, <1>6

LEMMA RollbackFailedStep ==
  ASSUME RestoreIInv, RollbackFailed
  PROVE  RestoreIInv'
<1> USE PlacesAssumption DEF RestoreIInv, RollbackFailed, Abandon, Goto, Data, Held, Fault, NoFault
<1>1. RestoreTypeOK'
  BY DEF RestoreTypeOK, Generations, Absent, Untouched, Phases, Before, Progress
<1>2. Untouched'
  BY DEF Untouched, Progress, Phases, RestoreTypeOK
<1>3. CheckpointHolds'
  BY DEF CheckpointHolds, WholeState, Phases, Up, Before, Progress, Untouched, RestoreTypeOK, At, Goal
<1>4. Phases'
  BY DEF Phases, Up, CheckpointHolds, RestoreTypeOK
<1>5. Before'
  BY DEF Before, Phases, RestoreTypeOK
<1>6. Progress'
  BY DEF Progress, Before, Phases, At, Goal, Untouched, RestoreTypeOK
<1> QED
  BY <1>1, <1>2, <1>3, <1>4, <1>5, <1>6

LEMMA StopFailsStep ==
  ASSUME RestoreIInv, StopFails
  PROVE  RestoreIInv'
<1> USE PlacesAssumption DEF RestoreIInv, StopFails, Up, Goto, Data, Held, Fault, NoFault
<1>1. RestoreTypeOK'
  BY DEF RestoreTypeOK, Generations, Absent, Untouched, Phases, Before, Progress
<1>2. Untouched'
  BY DEF Untouched, Progress, Phases, RestoreTypeOK
<1>3. CheckpointHolds'
  BY DEF CheckpointHolds, WholeState, Phases, Up, Before, Progress, Untouched, RestoreTypeOK, At, Goal
<1>4. Phases'
  BY DEF Phases, Up, CheckpointHolds, RestoreTypeOK
<1>5. Before'
  BY DEF Before, Phases, RestoreTypeOK
<1>6. Progress'
  BY DEF Progress, Before, Phases, At, Goal, Untouched, RestoreTypeOK
<1> QED
  BY <1>1, <1>2, <1>3, <1>4, <1>5, <1>6

LEMMA CommitFailsStep ==
  ASSUME RestoreIInv, CommitFails
  PROVE  RestoreIInv'
<1> USE PlacesAssumption DEF RestoreIInv, CommitFails, Abandon, Goto, Data, Held, Fault, NoFault
<1>1. RestoreTypeOK'
  BY DEF RestoreTypeOK, Generations, Absent, Untouched, Phases, Before, Progress
<1>2. Untouched'
  BY DEF Untouched, Progress, Phases, RestoreTypeOK
<1>3. CheckpointHolds'
  BY DEF CheckpointHolds, WholeState, Phases, Up, Before, Progress, Untouched, RestoreTypeOK, At, Goal
<1>4. Phases'
  BY DEF Phases, Up, CheckpointHolds, RestoreTypeOK
<1>5. Before'
  BY DEF Before, Phases, RestoreTypeOK
<1>6. Progress'
  BY DEF Progress, Before, Phases, At, Goal, Untouched, RestoreTypeOK
<1> QED
  BY <1>1, <1>2, <1>3, <1>4, <1>5, <1>6

LEMMA SaveFailsStep ==
  ASSUME RestoreIInv, SaveFails
  PROVE  RestoreIInv'
<1> USE PlacesAssumption DEF RestoreIInv, SaveFails, Goto, Data, Held, Fault, NoFault
<1>1. RestoreTypeOK'
  BY DEF RestoreTypeOK, Generations, Absent, Untouched, Phases, Before, Progress
<1>2. Untouched'
  BY DEF Untouched, Progress, Phases, RestoreTypeOK
<1>3. CheckpointHolds'
  BY DEF CheckpointHolds, WholeState, Phases, Up, Before, Progress, Untouched, RestoreTypeOK, At, Goal
<1>4. Phases'
  BY DEF Phases, Up, CheckpointHolds, RestoreTypeOK
<1>5. Before'
  BY DEF Before, Phases, RestoreTypeOK
<1>6. Progress'
  BY DEF Progress, Before, Phases, At, Goal, Untouched, RestoreTypeOK
<1> QED
  BY <1>1, <1>2, <1>3, <1>4, <1>5, <1>6

LEMMA WriteFailsStep ==
  ASSUME RestoreIInv, WriteFails
  PROVE  RestoreIInv'
<1> USE PlacesAssumption DEF RestoreIInv, WriteFails, Goto, Data, Held, Fault, NoFault
<1>1. RestoreTypeOK'
  <2>1. todo' \subseteq Places /\ faults' \in Nat /\ failed' = FALSE /\ pc' = "undoing"
    BY DEF RestoreTypeOK
  <2> QED
    BY <2>1 DEF RestoreTypeOK
<1>2. Untouched'
  BY DEF Untouched, Progress, Phases, RestoreTypeOK
<1>3. CheckpointHolds'
  BY DEF CheckpointHolds, WholeState, Phases, Up, Before, Progress, Untouched, RestoreTypeOK, At, Goal
<1>4. Phases'
  BY DEF Phases, Up, CheckpointHolds, RestoreTypeOK
<1>5. Before'
  BY DEF Before, Phases, RestoreTypeOK
<1>6. Progress'
  BY DEF Progress, Before, Phases, At, Goal, Untouched, RestoreTypeOK
<1> QED
  BY <1>1, <1>2, <1>3, <1>4, <1>5, <1>6

LEMMA InterruptStep ==
  ASSUME RestoreIInv, Interrupt
  PROVE  RestoreIInv'
<1> USE PlacesAssumption DEF RestoreIInv, Interrupt, Abandon, Goto, Data, Held, Fault, NoFault
<1>1. RestoreTypeOK'
  BY DEF RestoreTypeOK, Generations, Absent, Untouched, Phases, Before, Progress
<1>2. Untouched'
  BY DEF Untouched, Progress, Phases, RestoreTypeOK
<1>3. CheckpointHolds'
  BY DEF CheckpointHolds, WholeState, Phases, Up, Before, Progress, Untouched, RestoreTypeOK, At, Goal
<1>4. Phases'
  BY DEF Phases, Up, CheckpointHolds, RestoreTypeOK
<1>5. Before'
  BY DEF Before, Phases, RestoreTypeOK
<1>6. Progress'
  BY DEF Progress, Before, Phases, At, Goal, Untouched, RestoreTypeOK
<1> QED
  BY <1>1, <1>2, <1>3, <1>4, <1>5, <1>6

LEMMA CrashStep ==
  ASSUME RestoreIInv, Crash
  PROVE  RestoreIInv'
<1> USE PlacesAssumption DEF RestoreIInv, Crash, Goto, Data, Held, Fault, NoFault
<1>1. RestoreTypeOK'
  BY DEF RestoreTypeOK, Generations, Absent, Untouched, Phases, Before, Progress
<1>2. Untouched'
  BY DEF Untouched, Progress, Phases, RestoreTypeOK
<1>3. CheckpointHolds'
  BY DEF CheckpointHolds, WholeState, Phases, Up, Before, Progress, Untouched, RestoreTypeOK, At, Goal
<1>4. Phases'
  BY DEF Phases, Up, CheckpointHolds, RestoreTypeOK
<1>5. Before'
  BY DEF Before, Phases, RestoreTypeOK
<1>6. Progress'
  BY DEF Progress, Before, Phases, At, Goal, Untouched, RestoreTypeOK
<1> QED
  BY <1>1, <1>2, <1>3, <1>4, <1>5, <1>6

LEMMA NextRestore ==
  ASSUME RestoreIInv, [RestoreNext]_vars
  PROVE  RestoreIInv'
<1>1. CASE UNCHANGED vars
  BY <1>1 DEF RestoreIInv, vars, RestoreTypeOK, Untouched, CheckpointHolds, Phases,
     Before, Progress, WholeState, Up, At, Goal
<1>2. CASE \E sel \in Selections : BeginRestore(sel)
  BY <1>2, BeginRestoreStep
<1>3. CASE BeginRecover
  BY <1>3, BeginRecoverStep
<1>4. CASE Proceed
  BY <1>4, StopStep, StartStep, PublishStep, VacateStep, WriteStep, RemoveStep,
     CopyBackStep, RunContainerStep, CommitStep, FinallyStep, ReturnStep, RefuseStep,
     OpenCheckpointStep, SaveStep, WrittenStep, RolledBackStep, RollbackFailedStep
     DEF Proceed
<1>5. CASE Fail
  BY <1>5, StartFailsStep, CopyBackFailsStep, StopFailsStep, CommitFailsStep,
     SaveFailsStep, WriteFailsStep, InterruptStep, CrashStep
     DEF Fail
<1> QED
  BY <1>1, <1>2, <1>3, <1>4, <1>5 DEF RestoreNext

THEOREM RestoreInvariant == RestoreSpec => []RestoreIInv
<1> QED
  BY InitRestore, NextRestore, PTL DEF RestoreSpec

\* Every value stays where it belongs, and a complete checkpoint holds what every
\* place of the archive held before the restore, whatever fails around it.
THEOREM RestoreTypes == RestoreSpec => []RestoreTypeOK
<1>1. RestoreIInv => RestoreTypeOK
  BY DEF RestoreIInv
<1> QED
  BY <1>1, RestoreInvariant, PTL

\* A service that writes runs only on a whole state, with no checkpoint that a
\* recovery could still put back over its work.
THEOREM RestoreIsAllOrNothing == RestoreSpec => []AllOrNothing
<1>1. RestoreIInv => AllOrNothing
  <2> SUFFICES ASSUME RestoreIInv, Up # {}
               PROVE  live \in {old, new} /\ checkpoint # "ready"
      BY DEF AllOrNothing
  <2>1. checkpoint # "ready" /\ WholeState
    BY DEF RestoreIInv, CheckpointHolds
  <2>2. live = old \/ live = new
    BY <2>1 DEF WholeState, RestoreIInv, RestoreTypeOK
  <2> QED
    BY <2>1, <2>2
<1> QED
  BY <1>1, RestoreInvariant, PTL
=============================================================================

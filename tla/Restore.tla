------------------------------ MODULE Restore -------------------------------
(***************************************************************************)
(* A restore on an installed host.  The host wrapper (host_runtime.py)     *)
(* stops the services that write, runs the restore in a container of its   *)
(* own, publishes the configuration files the container left in a private  *)
(* stage, drops the checkpoint and starts the services again.  Inside the  *)
(* container every place about to be written is saved in the checkpoint    *)
(* first (recovery.py), and the checkpoint outlives whatever goes wrong    *)
(* until a recovery has put the saved values back.                         *)
(*                                                                         *)
(* The wrapper holds a lock for the whole of a run, so one run at a time   *)
(* is modelled.  A fault is a call that fails, a container killed, a       *)
(* wrapper interrupted or the machine restarted; MaxFaults and MaxRestores *)
(* bound them.  A container the wrapper cannot stop is left out: a wrapper *)
(* killed outright leaves one running with the lock released.              *)
(***************************************************************************)
EXTENDS Integers

CONSTANTS
    Places,         \* what a restore may replace
    Directories,    \* the places swapped in two renames instead of one
    Files,          \* the places that belong to the host: written in the stage
    Order,          \* the order the components are restored in
    Selections,     \* what an archive may hold
    Writers,        \* the services that hold the database open
    MaxRestores, MaxFaults

ASSUME PlacesAssumption ==
    /\ Directories \subseteq Places
    /\ Files \subseteq Places
    /\ Directories \cap Files = {}
    /\ Order \in [Places -> Nat]
    /\ Selections \subseteq SUBSET Places
    /\ MaxRestores \in Nat
    /\ MaxFaults \in Nat

VARIABLES
    pc,         \* where the wrapper, or its container, is
    command,    \* what the container runs: "restore" or "recover"
    cleaning,   \* the wrapper is in the finally of a run
    selected,   \* the places of the archive being restored
    todo,       \* the places the present loop has still to visit
    failed,     \* some place could not be put back
    running,    \* the services to start again
    service,    \* "up", "stopped" or "gone": the container of a service
    live,       \* the generation at each place, on the host
    stage,      \* the private copy of the configuration files
    checkpoint, \* "none", "opened" (no manifest yet) or "ready"
    saved,      \* what the checkpoint holds
    restores,   \* restores begun: the generation of the last archive
    faults,
    old, new    \* history: everything before the last restore, and as it asked

vars == <<pc, command, cleaning, selected, todo, failed, running, service, live,
          stage, checkpoint, saved, restores, faults, old, new>>

Absent == -1
Generations == Nat \cup {Absent}

RestoreTypeOK ==
    /\ pc \in {"idle", "stopping", "checking", "saving", "writing", "undoing",
               "publishing", "finally", "starting"}
    /\ command \in {"restore", "recover"}
    /\ {cleaning, failed} \subseteq BOOLEAN
    /\ {selected, todo} \subseteq SUBSET Places
    /\ running \subseteq Writers
    /\ service \in [Writers -> {"up", "stopped", "gone"}]
    /\ {live, saved, old, new} \subseteq [Places -> Generations]
    /\ stage \in [Files -> Generations]
    /\ checkpoint \in {"none", "opened", "ready"}
    /\ restores \in Nat /\ faults \in Nat
    /\ checkpoint = "ready" => \A p \in selected : saved[p] = old[p]

\* A fresh host may not have every directory yet.
RestoreInit ==
    /\ pc = "idle" /\ command = "restore" /\ cleaning = FALSE /\ failed = FALSE
    /\ selected = {} /\ todo = {} /\ running = {}
    /\ service = [w \in Writers |-> "up"]
    /\ \E missing \in SUBSET Directories :
         live = [p \in Places |-> IF p \in missing THEN Absent ELSE 0]
    /\ stage = [f \in Files |-> 0]
    /\ checkpoint = "none"
    /\ saved = live /\ old = live /\ new = live
    /\ restores = 0 /\ faults = 0

Fault == faults < MaxFaults /\ faults' = faults + 1
NoFault == faults' = faults

\* The container sees the stage where the host has its configuration.
At(p) == IF p \in Files THEN stage[p] ELSE live[p]
Put(p, v) ==
    IF p \in Files
    THEN stage' = [stage EXCEPT ![p] = v] /\ UNCHANGED live
    ELSE live' = [live EXCEPT ![p] = v] /\ UNCHANGED stage

First(p) == p \in todo /\ \A q \in todo : Order[p] <= Order[q]
Last(p) == p \in todo /\ \A q \in todo : Order[q] <= Order[p]

Goto(place) == pc' = place
Data == <<selected, live, stage, checkpoint, saved, restores, old, new>>
Held == <<command, cleaning, failed, running, service>>

-----------------------------------------------------------------------------
(* The wrapper. *)

Stageable == [f \in Files |-> live[f]]
Up == {w \in Writers : service[w] = "up"}
Stopped == {w \in Writers : service[w] = "stopped"}

\* HostRuntime.restore, _restore: a retained checkpoint refuses a restore.
BeginRestore(sel) ==
    /\ pc = "idle" /\ checkpoint = "none" /\ restores < MaxRestores
    /\ Goto("stopping") /\ command' = "restore" /\ cleaning' = FALSE
    /\ restores' = restores + 1
    /\ selected' = sel
    /\ stage' = Stageable
    /\ running' = Up
    /\ old' = live
    /\ new' = [p \in Places |-> IF p \in sel THEN restores' ELSE live[p]]
    /\ NoFault /\ UNCHANGED <<todo, failed, service, live, checkpoint, saved>>

\* Mutant: a recovery starts again only what was running when it began.
BeginRecoverUp ==
    /\ pc = "idle"
    /\ Goto("stopping") /\ command' = "recover" /\ cleaning' = FALSE
    /\ stage' = Stageable
    /\ running' = Up
    /\ NoFault
    /\ UNCHANGED <<selected, todo, failed, service, live, checkpoint, saved, restores, old, new>>

\* A recovery starts every service that has a container, stopped ones too.
BeginRecover ==
    /\ pc = "idle"
    /\ Goto("stopping") /\ command' = "recover" /\ cleaning' = FALSE
    /\ stage' = Stageable
    /\ running' = Up \cup Stopped
    /\ NoFault
    /\ UNCHANGED <<selected, todo, failed, service, live, checkpoint, saved, restores, old, new>>

Stop(w) ==
    /\ pc = "stopping" /\ w \in running /\ service[w] = "up"
    /\ service' = [service EXCEPT ![w] = "stopped"]
    /\ NoFault /\ UNCHANGED <<pc, command, cleaning, failed, running, todo, Data>>

StopFails ==
    /\ pc = "stopping" /\ running # {} /\ Fault
    /\ Goto("finally") /\ UNCHANGED <<todo, Held, Data>>

\* Where a failed run goes: into its finally, or, from there, to an operator
\* with the services still stopped.
Abandon == Goto(IF cleaning THEN "idle" ELSE "finally")

\* backup recover reads the manifest before it touches anything.
Undo ==
    /\ failed' = FALSE
    /\ IF checkpoint = "ready"
       THEN Goto("undoing") /\ todo' = selected
       ELSE Abandon /\ UNCHANGED todo

RunContainer ==
    /\ pc = "stopping" /\ running \cap Up = {}
    /\ IF command = "restore"
       THEN Goto("checking") /\ UNCHANGED <<todo, failed>>
       ELSE Undo
    /\ NoFault /\ UNCHANGED <<command, cleaning, running, service, Data>>

\* finish_restore: publish_configuration writes the host's files one by one.
Publish(f) ==
    /\ pc = "publishing" /\ First(f)
    /\ live' = [live EXCEPT ![f] = stage[f]]
    /\ todo' = todo \ {f}
    /\ NoFault
    /\ UNCHANGED <<pc, Held, selected, stage, checkpoint, saved, restores, old, new>>

\* backup commit-restore: one rename.  cleaning is over: the services start.
Commit ==
    /\ pc = "publishing" /\ todo = {}
    /\ checkpoint' = "none"
    /\ Goto("finally") /\ NoFault
    /\ UNCHANGED <<todo, Held, selected, live, stage, saved, restores, old, new>>

\* The container of the commit fails, before or after its rename.
CommitFails ==
    /\ pc = "publishing" /\ todo = {} /\ Fault
    /\ checkpoint' \in {checkpoint, "none"}
    /\ Abandon
    /\ UNCHANGED <<todo, Held, selected, live, stage, saved, restores, old, new>>

Finally ==
    /\ pc = "finally"
    /\ IF checkpoint = "none"
       THEN Goto("starting") /\ UNCHANGED <<command, cleaning, failed, todo>>
       ELSE /\ cleaning' = TRUE /\ command' = "recover" /\ failed' = FALSE
            /\ IF checkpoint = "ready"
               THEN Goto("undoing") /\ todo' = selected
               ELSE Goto("idle") /\ UNCHANGED todo
    /\ NoFault /\ UNCHANGED <<running, service, Data>>

\* HostRuntime.recover: the container is removed and made again.
Start(w) ==
    /\ pc = "starting" /\ w \in running
    /\ service' = [service EXCEPT ![w] = "up"]
    /\ running' = running \ {w}
    /\ NoFault /\ UNCHANGED <<pc, command, cleaning, failed, todo, Data>>

StartFails(w) ==
    /\ pc = "starting" /\ w \in running /\ Fault
    /\ \E state \in {service[w], "stopped", "gone"} :
         service' = [service EXCEPT ![w] = state]
    /\ running' = running \ {w}
    /\ UNCHANGED <<pc, command, cleaning, failed, todo, Data>>

Return ==
    /\ pc = "starting" /\ running = {}
    /\ Goto("idle") /\ NoFault /\ UNCHANGED <<todo, Held, Data>>

-----------------------------------------------------------------------------
(* Inside the container: BackupService.restore and RestoreJournal. *)

\* Everything up to the checkpoint works on a scratch copy.
Refuse ==
    /\ pc = "checking"
    /\ Goto("finally") /\ NoFault /\ UNCHANGED <<todo, Held, Data>>

OpenCheckpoint ==
    /\ pc = "checking"
    /\ checkpoint' = "opened" /\ Goto("saving") /\ NoFault
    /\ UNCHANGED <<todo, Held, selected, live, stage, saved, restores, old, new>>

\* Mutant: a directory component without recovery paths.
SaveFilesOnly ==
    /\ pc = "saving"
    /\ saved' = [p \in Places |-> IF p \in selected \ Directories THEN At(p) ELSE saved[p]]
    /\ checkpoint' = "ready" /\ todo' = selected
    /\ Goto("writing") /\ NoFault
    /\ UNCHANGED <<Held, selected, live, stage, restores, old, new>>

\* Every copy, then the manifest, then the first write.
Save ==
    /\ pc = "saving"
    /\ saved' = [p \in Places |-> IF p \in selected THEN At(p) ELSE saved[p]]
    /\ checkpoint' = "ready" /\ todo' = selected
    /\ Goto("writing") /\ NoFault
    /\ UNCHANGED <<Held, selected, live, stage, restores, old, new>>

\* A failed copy takes the directory with it: nothing was written yet.
SaveFails ==
    /\ pc = "saving" /\ Fault
    /\ checkpoint' = "none" /\ Goto("finally")
    /\ UNCHANGED <<todo, Held, selected, live, stage, saved, restores, old, new>>

\* A directory is moved aside before the new one takes its name.
Vacate(p) ==
    /\ pc = "writing" /\ First(p) /\ p \in Directories /\ At(p) # Absent
    /\ Put(p, Absent)
    /\ NoFault /\ UNCHANGED <<pc, todo, Held, selected, checkpoint, saved, restores, old, new>>

Write(p) ==
    /\ pc = "writing" /\ First(p)
    /\ p \in Directories => At(p) = Absent
    /\ Put(p, restores)
    /\ todo' = todo \ {p}
    /\ NoFault /\ UNCHANGED <<pc, Held, selected, checkpoint, saved, restores, old, new>>

\* Mutant: only the components already restored are rolled back.
WriteFailsPart ==
    /\ pc = "writing" /\ todo # {} /\ Fault
    /\ Goto("undoing") /\ todo' = selected \ todo /\ failed' = FALSE
    /\ UNCHANGED <<command, cleaning, running, service, Data>>

\* protect: whatever a component raises rolls every saved path back.
WriteFails ==
    /\ pc = "writing" /\ todo # {} /\ Fault
    /\ Goto("undoing") /\ todo' = selected /\ failed' = FALSE
    /\ UNCHANGED <<command, cleaning, running, service, Data>>

Written ==
    /\ pc = "writing" /\ todo = {}
    /\ Goto("publishing") /\ todo' = Files
    /\ NoFault /\ UNCHANGED <<Held, Data>>

\* rollback: each path is removed, then copied back from the checkpoint.
Remove(p) ==
    /\ pc = "undoing" /\ Last(p) /\ At(p) # Absent
    /\ Put(p, Absent)
    /\ NoFault /\ UNCHANGED <<pc, todo, Held, selected, checkpoint, saved, restores, old, new>>

CopyBack(p) ==
    /\ pc = "undoing" /\ Last(p) /\ At(p) = Absent
    /\ Put(p, saved[p])
    /\ todo' = todo \ {p}
    /\ NoFault /\ UNCHANGED <<pc, Held, selected, checkpoint, saved, restores, old, new>>

\* The others are still put back, and the checkpoint stays.
CopyBackFails(p) ==
    /\ pc = "undoing" /\ Last(p) /\ Fault
    /\ todo' = todo \ {p} /\ failed' = TRUE
    /\ UNCHANGED <<pc, command, cleaning, running, service, Data>>

\* protect commits its own rollback; a recovery leaves that to the wrapper.
RolledBack ==
    /\ pc = "undoing" /\ todo = {} /\ ~failed
    /\ IF command = "restore"
       THEN checkpoint' = "none" /\ Goto("finally") /\ UNCHANGED todo
       ELSE UNCHANGED checkpoint /\ Goto("publishing") /\ todo' = Files
    /\ NoFault /\ UNCHANGED <<Held, selected, live, stage, saved, restores, old, new>>

RollbackFailed ==
    /\ pc = "undoing" /\ todo = {} /\ failed
    /\ Abandon /\ NoFault /\ UNCHANGED <<todo, Held, Data>>

-----------------------------------------------------------------------------
\* A container killed, a signal to the wrapper, a file that cannot be published.
Interrupt ==
    /\ pc \in {"checking", "saving", "writing", "undoing", "publishing"} /\ Fault
    /\ Abandon /\ UNCHANGED <<todo, Held, Data>>

\* The machine restarts: a service that was stopped stays stopped.
Crash ==
    /\ pc # "idle" /\ Fault
    /\ Goto("idle") /\ UNCHANGED <<todo, Held, Data>>

Proceed ==
    \/ \E w \in Writers : Stop(w) \/ Start(w)
    \/ \E p \in Places : Publish(p) \/ Vacate(p) \/ Write(p) \/ Remove(p) \/ CopyBack(p)
    \/ RunContainer \/ Commit \/ Finally \/ Return
    \/ Refuse \/ OpenCheckpoint \/ Save \/ Written \/ RolledBack \/ RollbackFailed

Fail ==
    \/ \E w \in Writers : StartFails(w)
    \/ \E p \in Places : CopyBackFails(p)
    \/ StopFails \/ CommitFails \/ SaveFails \/ WriteFails \/ Interrupt \/ Crash

RestoreNext ==
    \/ \E sel \in Selections : BeginRestore(sel)
    \/ BeginRecover
    \/ Proceed
    \/ Fail

RestoreSpec == RestoreInit /\ [][RestoreNext]_vars

\* The wrapper runs on, and its message is heeded: "services remain stopped ...
\* retry with 'blitzecdn backup recover'".
Unfinished == checkpoint # "none" \/ Stopped # {}
FairRestore == RestoreSpec /\ WF_vars(Proceed) /\ WF_vars(Unfinished /\ BeginRecover)

-----------------------------------------------------------------------------
\* A service that writes runs only on a whole state, the one before the last
\* restore or the one it asked for, and never while a checkpoint could still be
\* rolled back over what the service writes.
AllOrNothing ==
    Up # {} => live \in {old, new} /\ checkpoint # "ready"

\* A restore cut short anywhere once its checkpoint is complete is resolved in
\* the end, and every service that still has a container runs again; unless a
\* later restore stopped between opening its checkpoint and the manifest.
RecoveryEnds ==
    checkpoint = "ready" ~> \/ checkpoint = "none" /\ Stopped = {}
                            \/ checkpoint = "opened"
=============================================================================

------------------------ MODULE ConfigurationRelease ------------------------
(***************************************************************************)
(* One edge's configuration transaction: the role blitzecdn_config_release *)
(* and its helper configuration_release.py.  A release is staged and       *)
(* sealed as a tree of its own, then activated under a journal, and later  *)
(* committed or withdrawn.  The controller drives it by Ansible runs, one  *)
(* at a time; every step of a run that changes the edge's disk or its      *)
(* container is an action, so that a run can break off between any two.    *)
(***************************************************************************)
EXTENDS Naturals

CONSTANTS
    Digests,    \* releases, named by their content digest
    NoDigest    \* no release: no pointer, no record file, no container

ASSUME DigestAssumption == NoDigest \notin Digests

VARIABLES
    tree,       \* the candidate tree of each release
    pointer,    \* the release `current` links to
    journal,    \* the transaction journal of each release
    records,    \* the releases whose image the Compose file and the image record name
    runtime,    \* the release the container loaded
    run         \* the Ansible run in progress, or how the last one ended

disk == <<tree, pointer, journal, records, runtime>>
vars == <<tree, pointer, journal, records, runtime, run>>

Maybe == Digests \cup {NoDigest}
Records == [compose : Maybe, image : Maybe]
JournalStatuses == {"none", "pending", "committed", "rolled_back"}
NoRecords == [compose |-> NoDigest, image |-> NoDigest]
NoJournal == [status |-> "none", previous |-> NoDigest, saved |-> NoRecords]

Kinds == {"stage", "activate", "rescue", "rollback", "commit"}
Steps == {"tree", "files", "seal", "journal", "switch", "compose", "reload",
          "image", "revert", "bounce", "restore", "close", "restart", "commit"}
Ends == {"ok", "failed", "lost"}
Ended(how) == [kind |-> "none", digest |-> NoDigest, step |-> how]

TypeOK ==
    /\ tree \in [Digests -> {"none", "partial", "staged", "sealed"}]
    /\ pointer \in Maybe
    /\ journal \in [Digests -> [status : JournalStatuses, previous : Maybe, saved : Records]]
    /\ records \in Records
    /\ runtime \in Maybe
    /\ run \in [kind : Kinds, digest : Digests, step : Steps] \cup {Ended(how) : how \in Ends}

Idle == run.step \in Ends
At(kinds, step) == run.kind \in kinds /\ run.step = step
Goto(step) == run' = [run EXCEPT !.step = step]
End(how) == run' = Ended(how)

-----------------------------------------------------------------------------
(* The helper's checks.                                                    *)

Verified(d) == tree[d] = "sealed"

\* The pointer is still where this transaction can have left it.
Ours(d) == pointer \in {d, journal[d].previous}

\* activate finds the release active and no transaction open.
AlreadyActive(d) == journal[d].status # "pending" /\ pointer = d

\* activate opens a transaction; one left open is carried on as it was.
ReopensAlways(d) == ~AlreadyActive(d)                               \* mutant
Reopens(d) == journal[d].status # "pending" /\ pointer # d

OpenedBare(d) == [status |-> "pending", previous |-> pointer]       \* mutant
Opened(d) == [status |-> "pending", previous |-> pointer, saved |-> records]

-----------------------------------------------------------------------------
Init ==
    /\ tree = [d \in Digests |-> "none"]
    /\ pointer = NoDigest
    /\ journal = [d \in Digests |-> NoJournal]
    /\ records = NoRecords
    /\ runtime = NoDigest
    /\ run = Ended("ok")

First(kind) == CASE kind = "stage" -> "tree"
                 [] kind = "activate" -> "journal"
                 [] kind = "rollback" -> "restore"
                 [] kind = "commit" -> "commit"

\* The controller starts a run; commit only after it saw the edge serve d.
Begin(kind, d) ==
    /\ Idle
    /\ kind = "commit" => runtime = d
    /\ run' = [kind |-> kind, digest |-> d, step |-> First(kind)]
    /\ UNCHANGED disk

(* stage: the candidate tree, then its seal.                               *)

StageOverSealed ==                                                  \* mutant
    /\ At({"stage"}, "tree")
    /\ tree' = [tree EXCEPT ![run.digest] = "partial"]
    /\ Goto("files")
    /\ UNCHANGED <<pointer, journal, records, runtime>>

\* An unsealed candidate is replaced; a sealed one is only compared.
StageTree ==
    /\ At({"stage"}, "tree")
    /\ IF Verified(run.digest)
       THEN UNCHANGED tree /\ Goto("seal")
       ELSE tree' = [tree EXCEPT ![run.digest] = "partial"] /\ Goto("files")
    /\ UNCHANGED <<pointer, journal, records, runtime>>

StageFiles ==
    /\ At({"stage"}, "files")
    /\ tree' = [tree EXCEPT ![run.digest] = "staged"]
    /\ Goto("seal")
    /\ UNCHANGED <<pointer, journal, records, runtime>>

\* The seal is published once everything it names is on disk; the
\* configuration test that follows decides the run.
Seal ==
    /\ At({"stage"}, "seal")
    /\ tree' = [tree EXCEPT ![run.digest] = "sealed"]
    /\ End("ok")
    /\ UNCHANGED <<pointer, journal, records, runtime>>

(* activate: journal, pointer, Compose file, reload, image record.         *)

ActivateJournal ==
    LET d == run.digest IN
    /\ At({"activate"}, "journal")
    /\ Verified(d)
    /\ IF AlreadyActive(d) THEN UNCHANGED journal /\ Goto("compose")
       ELSE /\ IF Reopens(d) THEN journal' = [journal EXCEPT ![d] = Opened(d)]
               ELSE Ours(d) /\ UNCHANGED journal
            /\ Goto("switch")
    /\ UNCHANGED <<tree, pointer, records, runtime>>

ActivateSwitch ==
    /\ At({"activate"}, "switch")
    /\ pointer' = run.digest
    /\ Goto("compose")
    /\ UNCHANGED <<tree, journal, records, runtime>>

ActivateCompose ==
    /\ At({"activate"}, "compose")
    /\ records' = [records EXCEPT !.compose = run.digest]
    /\ Goto("reload")
    /\ UNCHANGED <<tree, pointer, journal, runtime>>

\* The container is started or updated, and told to reload `current`.
ActivateReload ==
    /\ At({"activate"}, "reload")
    /\ runtime' = pointer
    /\ Goto("image")
    /\ UNCHANGED <<tree, pointer, journal, records>>

\* Recorded last, once the health checks passed.
ActivateImage ==
    /\ At({"activate"}, "image")
    /\ records' = [records EXCEPT !.image = run.digest]
    /\ End("ok")
    /\ UNCHANGED <<tree, pointer, journal, runtime>>

(* The rescue of the runtime role, inside a failed activation: the image   *)
(* last recorded is brought back under the pointer as it stands, and the   *)
(* activation fails over to its own rescue.                                *)

Rescue == run' = [run EXCEPT !.kind = "rescue", !.step = "restore"]

RevertCompose ==
    /\ At({"activate"}, "revert")
    /\ IF records.image = NoDigest
       THEN Rescue /\ UNCHANGED records
       ELSE records' = [records EXCEPT !.compose = records.image] /\ Goto("bounce")
    /\ UNCHANGED <<tree, pointer, journal, runtime>>

RevertRestart ==
    /\ At({"activate"}, "bounce")
    /\ runtime' = pointer
    /\ Rescue
    /\ UNCHANGED <<tree, pointer, journal, records>>

(* rollback, as its own run or as the rescue of a failed activation.       *)

Withdrawing == {"rescue", "rollback"}

\* Nothing was activated: the helper has nothing to withdraw.
RestoreNothing ==
    /\ At(Withdrawing, "restore")
    /\ journal[run.digest].status = "none"
    /\ Goto("restart")
    /\ UNCHANGED disk

RestoreUnguarded ==                                                 \* mutant
    /\ At(Withdrawing, "restore")
    /\ journal[run.digest].status # "none"
    /\ pointer' = journal[run.digest].previous
    /\ Goto("compose")
    /\ UNCHANGED <<tree, journal, records, runtime>>

RestoreSwitch ==
    /\ At(Withdrawing, "restore")
    /\ journal[run.digest].status \in {"pending", "rolled_back"}
    /\ Ours(run.digest)
    /\ journal[run.digest].previous # NoDigest => Verified(journal[run.digest].previous)
    /\ pointer' = journal[run.digest].previous
    /\ Goto("compose")
    /\ UNCHANGED <<tree, journal, records, runtime>>

RestoreComposeOnly ==                                               \* mutant
    /\ At(Withdrawing, "compose")
    /\ records' = [records EXCEPT !.compose = journal[run.digest].saved.compose]
    /\ Goto("close")
    /\ UNCHANGED <<tree, pointer, journal, runtime>>

RestoreCompose ==
    /\ At(Withdrawing, "compose")
    /\ records' = [records EXCEPT !.compose = journal[run.digest].saved.compose]
    /\ Goto("image")
    /\ UNCHANGED <<tree, pointer, journal, runtime>>

RestoreImage ==
    /\ At(Withdrawing, "image")
    /\ records' = [records EXCEPT !.image = journal[run.digest].saved.image]
    /\ Goto("close")
    /\ UNCHANGED <<tree, pointer, journal, runtime>>

RestoreClose ==
    /\ At(Withdrawing, "close")
    /\ journal' = [journal EXCEPT ![run.digest].status = "rolled_back"]
    /\ Goto("restart")
    /\ UNCHANGED <<tree, pointer, records, runtime>>

RestoreKeepsRunning ==                                              \* mutant
    /\ At(Withdrawing, "restart")
    /\ End(IF run.kind = "rollback" THEN "ok" ELSE "failed")
    /\ UNCHANGED disk

\* The restored definition is started again; a failed first installation has
\* none, and its container is removed.
RestoreRestart ==
    /\ At(Withdrawing, "restart")
    /\ runtime' = IF records.compose = NoDigest THEN NoDigest ELSE pointer
    /\ End(IF run.kind = "rollback" THEN "ok" ELSE "failed")
    /\ UNCHANGED <<tree, pointer, journal, records>>

CommitUnchecked ==                                                  \* mutant
    /\ At({"commit"}, "commit")
    /\ pointer = run.digest
    /\ journal' = [journal EXCEPT ![run.digest].status = "committed"]
    /\ End("ok")
    /\ UNCHANGED <<tree, pointer, records, runtime>>

Commit ==
    LET d == run.digest IN
    /\ At({"commit"}, "commit")
    /\ Verified(d)
    /\ pointer = d
    /\ journal[d].status \in {"pending", "committed"}
    /\ journal' = [journal EXCEPT ![d].status = "committed"]
    /\ End("ok")
    /\ UNCHANGED <<tree, pointer, records, runtime>>

-----------------------------------------------------------------------------
(* What goes wrong.                                                        *)

\* A task fails or the helper raises, having refused or not got through: an
\* activation is rescued, by the runtime role first if it was at work; any
\* other run stops where it is.
Break ==
    /\ ~Idle
    /\ IF At({"activate"}, run.step)
       THEN IF run.step \in {"compose", "reload", "image"} THEN Goto("revert") ELSE Rescue
       ELSE End("failed")
    /\ UNCHANGED disk

\* The controller, its connection or the edge is gone in mid-run.
Lose ==
    /\ ~Idle
    /\ End("lost")
    /\ UNCHANGED disk

\* The edge restarts: the container comes back and loads `current`.
Reboot ==
    /\ runtime' = IF runtime = NoDigest THEN NoDigest ELSE pointer
    /\ IF Idle THEN UNCHANGED run ELSE End("lost")
    /\ UNCHANGED <<tree, pointer, journal, records>>

RunStep ==
    \/ StageTree \/ StageFiles \/ Seal
    \/ ActivateJournal \/ ActivateSwitch \/ ActivateCompose \/ ActivateReload \/ ActivateImage
    \/ RevertCompose \/ RevertRestart
    \/ RestoreNothing \/ RestoreSwitch \/ RestoreCompose \/ RestoreImage
    \/ RestoreClose \/ RestoreRestart
    \/ Commit

Next ==
    \/ \E kind \in Kinds \ {"rescue"}, d \in Digests : Begin(kind, d)
    \/ RunStep
    \/ Break
    \/ Lose
    \/ Reboot

Spec == Init /\ [][Next]_vars

-----------------------------------------------------------------------------
(* Properties.                                                             *)

\* `current` never names a tree that is missing, half written or unsealed,
\* whatever run was cut off where.
PointerSealed == pointer # NoDigest => tree[pointer] = "sealed"

\* No transaction has itself as its way back: a replay that finds the pointer
\* already switched keeps the journal of the first attempt.
NeverUndoneToItself ==
    \A d \in Digests : journal[d].status # "none" => journal[d].previous # d

\* A committed release leaves the edge only by a newer activation, whose open
\* journal leads back to it: no late withdrawal takes it away.
CommittedLeftByActivation ==
    [][\A d \in Digests :
         pointer = d /\ journal[d].status = "committed" /\ pointer' # d
         => /\ pointer' # NoDigest
            /\ journal[pointer'].status = "pending"
            /\ journal[pointer'].previous = d]_vars

\* A journal is closed as rolled back only once pointer and both record files
\* are what it saved, through any number of interrupted withdrawals.
WithdrawnMeansRestored ==
    [][\A d \in Digests :
         journal'[d].status = "rolled_back" /\ journal[d].status # "rolled_back"
         => pointer = journal[d].previous /\ records = journal[d].saved]_vars

\* A transaction once decided stays decided: a withdrawn release is not committed
\* and a committed one not withdrawn, until a new activation from elsewhere opens
\* its journal again.
DecisionsStand ==
    [][\A d \in Digests :
         journal[d].status \in {"committed", "rolled_back"} /\ journal'[d].status # journal[d].status
         => journal'[d] = Opened(d) /\ pointer # d]_vars
=============================================================================

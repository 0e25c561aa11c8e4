-------------------------- MODULE EdgeRolloutProofs --------------------------
(* Safety of one edge's configuration transaction, for any set of releases *)
(* and any order of runs, failures and restarts; and of the deployments on *)
(* the edge, for any deployments and any number of losses: its transaction *)
(* keeps all it promises, a deployment is reported as restored only if it  *)
(* is, what is committed is whole, and an undisturbed failure leaves no    *)
(* trace.                                                                  *)
EXTENDS EdgeRollout, TLAPS

-----------------------------------------------------------------------------
(* The inductive invariant.                                                *)

\* Between its steps a run relies on what its earlier steps left on the disk.
StagingPartial == At({"stage"}, "files") => tree[run.digest] = "partial"

ActivationOpen ==
    At({"activate"}, "switch") =>
        /\ Verified(run.digest)
        /\ journal[run.digest].status = "pending"
        /\ Ours(run.digest)

WithdrawalUnderWay ==
    \A step \in {"compose", "image", "close"} : At(Withdrawing, step) =>
        LET entry == journal[run.digest] IN
        /\ entry.status \in {"pending", "rolled_back"}
        /\ pointer = entry.previous
        /\ step # "compose" => records.compose = entry.saved.compose
        /\ step = "close" => records.image = entry.saved.image

\* As NeverUndoneToItself, whether or not a journal was ever opened.
JournalsLeadAway == \A d \in Digests : journal[d].previous # d

ReleaseInv ==
    /\ TypeOK
    /\ PointerSealed
    /\ JournalsLeadAway
    /\ StagingPartial
    /\ ActivationOpen
    /\ WithdrawalUnderWay

-----------------------------------------------------------------------------
(* A run in progress is of a release, at a step.                           *)

LEMMA RunTyped ==
    ASSUME TypeOK, NEW kind \in Kinds, run.kind = kind
    PROVE  run.digest \in Digests /\ run.step \in Steps /\ run.kind \in Kinds
  BY DEF TypeOK, Kinds, Ended

LEMMA InitInv == Init => ReleaseInv
<1> SUFFICES ASSUME Init PROVE ReleaseInv
  OBVIOUS
<1>1. TypeOK
  BY DEF Init, TypeOK, Maybe, Records, NoRecords, NoJournal, JournalStatuses, Ends
<1>2. PointerSealed /\ JournalsLeadAway
  BY DigestAssumption DEF Init, PointerSealed, JournalsLeadAway, NoJournal
<1>3. StagingPartial /\ ActivationOpen /\ WithdrawalUnderWay
  BY DEF Init, StagingPartial, ActivationOpen, WithdrawalUnderWay, At, Ended, Withdrawing
<1> QED BY <1>1, <1>2, <1>3 DEF ReleaseInv

\* Steps that leave the disk alone preserve the invariant when the run they go
\* to has no obligation to the disk.
LEMMA RunMoves ==
    ASSUME ReleaseInv, UNCHANGED disk,
           run' \in [kind : Kinds, digest : Digests, step : Steps] \cup {Ended(how) : how \in Ends},
           ~At({"stage"}, "files")', ~At({"activate"}, "switch")',
           \A step \in {"compose", "image", "close"} : ~At(Withdrawing, step)'
    PROVE  ReleaseInv'
<1>1. TypeOK' /\ PointerSealed' /\ JournalsLeadAway'
  BY DEF ReleaseInv, TypeOK, PointerSealed, JournalsLeadAway, disk
<1>2. StagingPartial' /\ ActivationOpen' /\ WithdrawalUnderWay'
  BY DEF StagingPartial, ActivationOpen, WithdrawalUnderWay
<1> QED BY <1>1, <1>2 DEF ReleaseInv

LEMMA BeginPreserves ==
    ASSUME ReleaseInv, NEW kind \in Kinds \ {"rescue"}, NEW d \in Digests, Begin(kind, d)
    PROVE  ReleaseInv'
<1>1. run' = [kind |-> kind, digest |-> d, step |-> First(kind)] /\ UNCHANGED disk
  BY DEF Begin
<1>2. First(kind) \in {"tree", "journal", "restore", "commit"}
  BY DEF First, Kinds
<1>3. run'.step = First(kind)
  BY <1>1
<1>4. run' \in [kind : Kinds, digest : Digests, step : Steps]
  BY <1>1, <1>2 DEF Steps
<1>5. /\ ~At({"stage"}, "files")' /\ ~At({"activate"}, "switch")'
      /\ \A step \in {"compose", "image", "close"} : ~At(Withdrawing, step)'
  BY <1>2, <1>3 DEF At
<1> QED BY <1>1, <1>4, <1>5, RunMoves

\* A run that ends leaves no obligation.
LEMMA EndMoves ==
    ASSUME NEW how \in Ends, End(how)
    PROVE  /\ run' \in {Ended(h) : h \in Ends}
           /\ run'.kind = "none"
           /\ \A kinds \in SUBSET Kinds, step \in Steps : ~At(kinds, step)'
  BY DEF End, Ended, At, Kinds

LEMMA GotoMoves ==
    ASSUME TypeOK, run.kind \in Kinds, NEW step \in Steps, Goto(step)
    PROVE  /\ run' \in [kind : Kinds, digest : Digests, step : Steps]
           /\ run'.kind = run.kind /\ run'.digest = run.digest /\ run'.step = step
           /\ run.digest \in Digests
<1>1. run \in [kind : Kinds, digest : Digests, step : Steps]
  BY DEF TypeOK, Ended, Kinds
<1> QED BY <1>1 DEF Goto

-----------------------------------------------------------------------------
(* stage.                                                                  *)

LEMMA StageTreePreserves ==
    ASSUME ReleaseInv, StageTree
    PROVE  ReleaseInv'
<1>0. TypeOK /\ run.kind = "stage" /\ run.kind \in Kinds /\ run.digest \in Digests
  BY RunTyped DEF ReleaseInv, StageTree, At, Kinds
<1>1. UNCHANGED <<pointer, journal, records, runtime>>
  BY DEF StageTree
<1>2. CASE Verified(run.digest)
  <2>1. UNCHANGED disk /\ Goto("seal") /\ "seal" \in Steps
    BY <1>2 DEF StageTree, disk, Steps
  <2>2. /\ run' \in [kind : Kinds, digest : Digests, step : Steps]
        /\ run'.step = "seal"
    BY <1>0, <2>1, GotoMoves
  <2> QED BY <2>1, <2>2, RunMoves DEF At
<1>3. CASE ~Verified(run.digest)
  <2>1. /\ tree' = [tree EXCEPT ![run.digest] = "partial"]
        /\ Goto("files") /\ "files" \in Steps
    BY <1>3 DEF StageTree, Steps
  <2>2. /\ run' \in [kind : Kinds, digest : Digests, step : Steps]
        /\ run'.kind = "stage" /\ run'.digest = run.digest /\ run'.step = "files"
    BY <1>0, <2>1, GotoMoves
  <2>3. TypeOK'
    BY <1>0, <1>1, <2>1, <2>2 DEF TypeOK
  <2>4. PointerSealed' /\ JournalsLeadAway'
    BY <1>0, <1>1, <1>3, <2>1 DEF ReleaseInv, TypeOK, Maybe, PointerSealed, JournalsLeadAway, Verified
  <2>5. StagingPartial' /\ ActivationOpen' /\ WithdrawalUnderWay'
    BY <1>0, <2>1, <2>2 DEF TypeOK, StagingPartial, ActivationOpen, WithdrawalUnderWay, At
  <2> QED BY <2>3, <2>4, <2>5 DEF ReleaseInv
<1> QED BY <1>2, <1>3

LEMMA StageFilesPreserves ==
    ASSUME ReleaseInv, StageFiles
    PROVE  ReleaseInv'
<1>0. TypeOK /\ run.kind = "stage" /\ run.kind \in Kinds /\ run.digest \in Digests
  BY RunTyped DEF ReleaseInv, StageFiles, At, Kinds
<1>1. /\ UNCHANGED <<pointer, journal, records, runtime>>
      /\ tree' = [tree EXCEPT ![run.digest] = "staged"]
      /\ Goto("seal") /\ "seal" \in Steps
  BY DEF StageFiles, Steps
<1>2. tree[run.digest] = "partial"
  BY DEF ReleaseInv, StagingPartial, StageFiles
<1>3. run' \in [kind : Kinds, digest : Digests, step : Steps] /\ run'.step = "seal"
  BY <1>0, <1>1, GotoMoves
<1>4. TypeOK'
  BY <1>0, <1>1, <1>3 DEF TypeOK
<1>5. PointerSealed' /\ JournalsLeadAway'
  BY <1>0, <1>1, <1>2 DEF ReleaseInv, TypeOK, Maybe, PointerSealed, JournalsLeadAway
<1>6. StagingPartial' /\ ActivationOpen' /\ WithdrawalUnderWay'
  BY <1>3 DEF StagingPartial, ActivationOpen, WithdrawalUnderWay, At
<1> QED BY <1>4, <1>5, <1>6 DEF ReleaseInv

LEMMA SealPreserves ==
    ASSUME ReleaseInv, Seal
    PROVE  ReleaseInv'
<1>0. TypeOK /\ run.digest \in Digests
  BY RunTyped DEF ReleaseInv, Seal, At, Kinds
<1>1. /\ UNCHANGED <<pointer, journal, records, runtime>>
      /\ tree' = [tree EXCEPT ![run.digest] = "sealed"]
      /\ End("ok") /\ "ok" \in Ends
  BY DEF Seal, Ends
<1>2. TypeOK'
  BY <1>0, <1>1, EndMoves DEF TypeOK
<1>3. PointerSealed' /\ JournalsLeadAway'
  BY <1>0, <1>1 DEF ReleaseInv, TypeOK, Maybe, PointerSealed, JournalsLeadAway
<1>4. run'.kind = "none"
  BY <1>1, EndMoves
<1>5. StagingPartial' /\ ActivationOpen' /\ WithdrawalUnderWay'
  BY <1>4 DEF StagingPartial, ActivationOpen, WithdrawalUnderWay, At, Withdrawing
<1> QED BY <1>2, <1>3, <1>5 DEF ReleaseInv

-----------------------------------------------------------------------------
(* activate.                                                               *)

LEMMA ActivateJournalPreserves ==
    ASSUME ReleaseInv, ActivateJournal
    PROVE  ReleaseInv'
<1> DEFINE d == run.digest
<1>0. /\ TypeOK /\ run.kind = "activate" /\ run.kind \in Kinds /\ d \in Digests
      /\ Verified(d) /\ UNCHANGED <<tree, pointer, records, runtime>>
  BY RunTyped DEF ReleaseInv, ActivateJournal, At, Kinds
<1>1. CASE AlreadyActive(d)
  <2>1. UNCHANGED disk /\ Goto("compose") /\ "compose" \in Steps
    BY <1>1 DEF ActivateJournal, disk, Steps
  <2>2. /\ run' \in [kind : Kinds, digest : Digests, step : Steps]
        /\ run'.kind = "activate" /\ run'.step = "compose"
    BY <1>0, <2>1, GotoMoves
  <2> QED BY <2>1, <2>2, RunMoves DEF At, Withdrawing
<1>2. CASE ~AlreadyActive(d)
  <2>1. Goto("switch") /\ "switch" \in Steps
    BY <1>2 DEF ActivateJournal, Steps
  <2>2. /\ run' \in [kind : Kinds, digest : Digests, step : Steps]
        /\ run'.kind = "activate" /\ run'.digest = d /\ run'.step = "switch"
    BY <1>0, <2>1, GotoMoves
  <2>3. /\ journal' \in [Digests -> [status : JournalStatuses, previous : Maybe, saved : Records]]
        /\ JournalsLeadAway'
        /\ journal'[d].status = "pending"
        /\ pointer \in {d, journal'[d].previous}
    <3>1. CASE Reopens(d)
      <4>1. journal' = [journal EXCEPT ![d] = Opened(d)]
        BY <1>2, <3>1 DEF ActivateJournal
      <4>2. Opened(d) \in [status : JournalStatuses, previous : Maybe, saved : Records]
        BY <1>0 DEF TypeOK, Opened, JournalStatuses
      <4>3. Opened(d).status = "pending" /\ Opened(d).previous = pointer /\ pointer # d
        BY <3>1 DEF Opened, Reopens
      <4> QED BY <1>0, <4>1, <4>2, <4>3 DEF TypeOK, ReleaseInv, JournalsLeadAway
    <3>2. CASE ~Reopens(d)
      <4>1. journal' = journal /\ Ours(d)
        BY <1>2, <3>2 DEF ActivateJournal
      <4>2. journal[d].status = "pending"
        BY <1>2, <3>2 DEF AlreadyActive, Reopens
      <4> QED BY <1>0, <4>1, <4>2 DEF TypeOK, ReleaseInv, JournalsLeadAway, Ours
    <3> QED BY <3>1, <3>2
  <2>4. TypeOK' /\ PointerSealed'
    BY <1>0, <2>2, <2>3 DEF TypeOK, ReleaseInv, PointerSealed
  <2>5. StagingPartial' /\ WithdrawalUnderWay'
    BY <2>2 DEF StagingPartial, WithdrawalUnderWay, At, Withdrawing
  <2>6. ActivationOpen'
    BY <1>0, <2>2, <2>3 DEF ActivationOpen, At, Verified, Ours
  <2> QED BY <2>3, <2>4, <2>5, <2>6 DEF ReleaseInv
<1> QED BY <1>1, <1>2

LEMMA ActivateSwitchPreserves ==
    ASSUME ReleaseInv, ActivateSwitch
    PROVE  ReleaseInv'
<1>0. /\ TypeOK /\ run.kind = "activate" /\ run.kind \in Kinds /\ run.digest \in Digests
      /\ pointer' = run.digest /\ UNCHANGED <<tree, journal, records, runtime>>
      /\ Goto("compose") /\ "compose" \in Steps
  BY RunTyped DEF ReleaseInv, ActivateSwitch, At, Kinds, Steps
<1>1. /\ run' \in [kind : Kinds, digest : Digests, step : Steps]
      /\ run'.kind = "activate" /\ run'.step = "compose"
  BY <1>0, GotoMoves
<1>2. Verified(run.digest)
  BY DEF ReleaseInv, ActivationOpen, ActivateSwitch
<1>3. TypeOK'
  BY <1>0, <1>1 DEF TypeOK, Maybe
<1>4. PointerSealed' /\ JournalsLeadAway'
  BY <1>0, <1>2 DEF ReleaseInv, PointerSealed, JournalsLeadAway, Verified
<1>5. StagingPartial' /\ ActivationOpen' /\ WithdrawalUnderWay'
  BY <1>1 DEF StagingPartial, ActivationOpen, WithdrawalUnderWay, At, Withdrawing
<1> QED BY <1>3, <1>4, <1>5 DEF ReleaseInv

\* The steps after the switch write what only a withdrawal reads.
LEMMA ActivateRestPreserves ==
    ASSUME ReleaseInv, ActivateCompose \/ ActivateReload \/ ActivateImage
    PROVE  ReleaseInv'
<1>0. /\ TypeOK /\ run.kind = "activate" /\ run.kind \in Kinds /\ run.digest \in Digests
      /\ UNCHANGED <<tree, pointer, journal>>
  BY RunTyped DEF ReleaseInv, ActivateCompose, ActivateReload, ActivateImage, At, Kinds
<1>1. records' \in Records /\ runtime' \in Maybe
  BY <1>0 DEF TypeOK, ActivateCompose, ActivateReload, ActivateImage, Records, Maybe
<1>2. \/ Goto("reload") \/ Goto("image") \/ End("ok")
  BY DEF ActivateCompose, ActivateReload, ActivateImage
<1>3. /\ run' \in [kind : Kinds, digest : Digests, step : Steps] \cup {Ended(how) : how \in Ends}
      /\ run'.kind \in {"activate", "none"}
      /\ run'.kind = "activate" => run'.step \in {"reload", "image"}
  <2>1. "reload" \in Steps /\ "image" \in Steps /\ "ok" \in Ends
    BY DEF Steps, Ends
  <2> QED BY <1>0, <1>2, <2>1, GotoMoves, EndMoves
<1>4. TypeOK'
  BY <1>0, <1>1, <1>3 DEF TypeOK
<1>5. PointerSealed' /\ JournalsLeadAway'
  BY <1>0 DEF ReleaseInv, PointerSealed, JournalsLeadAway
<1>6. StagingPartial' /\ ActivationOpen' /\ WithdrawalUnderWay'
  BY <1>3 DEF StagingPartial, ActivationOpen, WithdrawalUnderWay, At, Withdrawing
<1> QED BY <1>4, <1>5, <1>6 DEF ReleaseInv

\* A rescue starts a withdrawal, and owes the disk nothing yet.
LEMMA RescueMoves ==
    ASSUME TypeOK, run.kind = "activate", Rescue
    PROVE  /\ run' \in [kind : Kinds, digest : Digests, step : Steps]
           /\ run'.step = "restore"
<1>1. run \in [kind : Kinds, digest : Digests, step : Steps]
  BY DEF TypeOK, Ended
<1> QED BY <1>1 DEF Rescue, Kinds, Steps

LEMMA RevertPreserves ==
    ASSUME ReleaseInv, RevertCompose \/ RevertRestart
    PROVE  ReleaseInv'
<1>0. /\ TypeOK /\ run.kind = "activate" /\ run.kind \in Kinds /\ run.digest \in Digests
      /\ UNCHANGED <<tree, pointer, journal>>
  BY RunTyped DEF ReleaseInv, RevertCompose, RevertRestart, At, Kinds
<1>1. records' \in Records /\ runtime' \in Maybe
  BY <1>0 DEF TypeOK, RevertCompose, RevertRestart, Records
<1>2. /\ run' \in [kind : Kinds, digest : Digests, step : Steps]
      /\ run'.step \in {"restore", "bounce"}
  <2>1. Rescue \/ Goto("bounce")
    BY DEF RevertCompose, RevertRestart
  <2>2. "bounce" \in Steps
    BY DEF Steps
  <2> QED BY <1>0, <2>1, <2>2, RescueMoves, GotoMoves
<1>3. TypeOK'
  BY <1>0, <1>1, <1>2 DEF TypeOK
<1>4. PointerSealed' /\ JournalsLeadAway'
  BY <1>0 DEF ReleaseInv, PointerSealed, JournalsLeadAway
<1>5. StagingPartial' /\ ActivationOpen' /\ WithdrawalUnderWay'
  BY <1>2 DEF StagingPartial, ActivationOpen, WithdrawalUnderWay, At
<1> QED BY <1>3, <1>4, <1>5 DEF ReleaseInv

-----------------------------------------------------------------------------
(* rollback and rescue.                                                    *)

LEMMA RestoreNothingPreserves ==
    ASSUME ReleaseInv, RestoreNothing
    PROVE  ReleaseInv'
<1>1. /\ TypeOK /\ run.kind \in Withdrawing /\ run.kind \in Kinds
      /\ UNCHANGED disk /\ Goto("restart") /\ "restart" \in Steps
  BY DEF ReleaseInv, RestoreNothing, At, Withdrawing, Kinds, Steps
<1>2. run' \in [kind : Kinds, digest : Digests, step : Steps] /\ run'.step = "restart"
  BY <1>1, GotoMoves
<1> QED BY <1>1, <1>2, RunMoves DEF At

LEMMA RestoreSwitchPreserves ==
    ASSUME ReleaseInv, RestoreSwitch
    PROVE  ReleaseInv'
<1> DEFINE entry == journal[run.digest]
<1>0. /\ TypeOK /\ run.kind \in Withdrawing /\ run.kind \in Kinds /\ run.digest \in Digests
      /\ entry.status \in {"pending", "rolled_back"}
      /\ entry.previous # NoDigest => Verified(entry.previous)
      /\ pointer' = entry.previous /\ UNCHANGED <<tree, journal, records, runtime>>
      /\ Goto("compose") /\ "compose" \in Steps
  BY RunTyped DEF ReleaseInv, RestoreSwitch, At, Withdrawing, Kinds, Steps
<1>1. /\ run' \in [kind : Kinds, digest : Digests, step : Steps]
      /\ run'.kind = run.kind /\ run'.digest = run.digest /\ run'.step = "compose"
  BY <1>0, GotoMoves
<1>2. pointer' \in Maybe
  BY <1>0 DEF TypeOK
<1>3. TypeOK'
  BY <1>0, <1>1, <1>2 DEF TypeOK
<1>4. PointerSealed' /\ JournalsLeadAway'
  BY <1>0 DEF ReleaseInv, PointerSealed, JournalsLeadAway, Verified
<1>5. StagingPartial' /\ ActivationOpen' /\ WithdrawalUnderWay'
  BY <1>0, <1>1 DEF StagingPartial, ActivationOpen, WithdrawalUnderWay, At, Withdrawing
<1> QED BY <1>3, <1>4, <1>5 DEF ReleaseInv

LEMMA RestoreComposePreserves ==
    ASSUME ReleaseInv, RestoreCompose
    PROVE  ReleaseInv'
<1> DEFINE entry == journal[run.digest]
<1>0. /\ TypeOK /\ run.kind \in Withdrawing /\ run.kind \in Kinds /\ run.digest \in Digests
      /\ run.step = "compose"
      /\ records' = [records EXCEPT !.compose = entry.saved.compose]
      /\ UNCHANGED <<tree, pointer, journal, runtime>>
      /\ Goto("image") /\ "image" \in Steps
  BY RunTyped DEF ReleaseInv, RestoreCompose, At, Withdrawing, Kinds, Steps
<1>1. /\ run' \in [kind : Kinds, digest : Digests, step : Steps]
      /\ run'.kind = run.kind /\ run'.digest = run.digest /\ run'.step = "image"
  BY <1>0, GotoMoves
<1>2. records' \in Records /\ records'.compose = entry.saved.compose
  BY <1>0 DEF TypeOK, Records
<1>3. entry.status \in {"pending", "rolled_back"} /\ pointer = entry.previous
  BY <1>0 DEF ReleaseInv, WithdrawalUnderWay, At
<1>4. TypeOK'
  BY <1>0, <1>1, <1>2 DEF TypeOK
<1>5. PointerSealed' /\ JournalsLeadAway'
  BY <1>0 DEF ReleaseInv, PointerSealed, JournalsLeadAway
<1>6. StagingPartial' /\ ActivationOpen'
  BY <1>0, <1>1 DEF StagingPartial, ActivationOpen, At, Withdrawing
<1>7. WithdrawalUnderWay'
  BY <1>0, <1>1, <1>2, <1>3 DEF WithdrawalUnderWay, At
<1> QED BY <1>4, <1>5, <1>6, <1>7 DEF ReleaseInv

LEMMA RestoreImagePreserves ==
    ASSUME ReleaseInv, RestoreImage
    PROVE  ReleaseInv'
<1> DEFINE entry == journal[run.digest]
<1>0. /\ TypeOK /\ run.kind \in Withdrawing /\ run.kind \in Kinds /\ run.digest \in Digests
      /\ run.step = "image"
      /\ records' = [records EXCEPT !.image = entry.saved.image]
      /\ UNCHANGED <<tree, pointer, journal, runtime>>
      /\ Goto("close") /\ "close" \in Steps
  BY RunTyped DEF ReleaseInv, RestoreImage, At, Withdrawing, Kinds, Steps
<1>1. /\ run' \in [kind : Kinds, digest : Digests, step : Steps]
      /\ run'.kind = run.kind /\ run'.digest = run.digest /\ run'.step = "close"
  BY <1>0, GotoMoves
<1>2. /\ records' \in Records
      /\ records'.image = entry.saved.image /\ records'.compose = records.compose
  BY <1>0 DEF TypeOK, Records
<1>3. /\ entry.status \in {"pending", "rolled_back"} /\ pointer = entry.previous
      /\ records.compose = entry.saved.compose
  BY <1>0 DEF ReleaseInv, WithdrawalUnderWay, At
<1>4. TypeOK'
  BY <1>0, <1>1, <1>2 DEF TypeOK
<1>5. PointerSealed' /\ JournalsLeadAway'
  BY <1>0 DEF ReleaseInv, PointerSealed, JournalsLeadAway
<1>6. StagingPartial' /\ ActivationOpen'
  BY <1>0, <1>1 DEF StagingPartial, ActivationOpen, At, Withdrawing
<1>7. WithdrawalUnderWay'
  BY <1>0, <1>1, <1>2, <1>3 DEF WithdrawalUnderWay, At
<1> QED BY <1>4, <1>5, <1>6, <1>7 DEF ReleaseInv

\* Closing or committing a journal changes its status alone.
LEMMA StatusTyped ==
    ASSUME TypeOK, NEW d \in Digests, NEW status \in JournalStatuses,
           journal' = [journal EXCEPT ![d].status = status]
    PROVE  /\ journal' \in [Digests -> [status : JournalStatuses, previous : Maybe, saved : Records]]
           /\ \A e \in Digests : journal'[e].previous = journal[e].previous
  BY DEF TypeOK

LEMMA RestoreClosePreserves ==
    ASSUME ReleaseInv, RestoreClose
    PROVE  ReleaseInv'
<1>0. /\ TypeOK /\ run.kind \in Withdrawing /\ run.kind \in Kinds /\ run.digest \in Digests
      /\ journal' = [journal EXCEPT ![run.digest].status = "rolled_back"]
      /\ UNCHANGED <<tree, pointer, records, runtime>>
      /\ Goto("restart") /\ "restart" \in Steps /\ "rolled_back" \in JournalStatuses
  BY RunTyped DEF ReleaseInv, RestoreClose, At, Withdrawing, Kinds, Steps, JournalStatuses
<1>1. run' \in [kind : Kinds, digest : Digests, step : Steps] /\ run'.step = "restart"
  BY <1>0, GotoMoves
<1>2. TypeOK'
  BY <1>0, <1>1, StatusTyped DEF TypeOK
<1>3. PointerSealed' /\ JournalsLeadAway'
  BY <1>0, StatusTyped DEF ReleaseInv, PointerSealed, JournalsLeadAway
<1>4. StagingPartial' /\ ActivationOpen' /\ WithdrawalUnderWay'
  BY <1>1 DEF StagingPartial, ActivationOpen, WithdrawalUnderWay, At
<1> QED BY <1>2, <1>3, <1>4 DEF ReleaseInv

\* Runs that end, and restarts of the edge, disturb nothing.
LEMMA EndPreserves ==
    ASSUME ReleaseInv, UNCHANGED <<tree, pointer, journal, records>>, runtime' \in Maybe,
           NEW how \in Ends, End(how)
    PROVE  ReleaseInv'
<1>1. TypeOK'
  BY EndMoves DEF ReleaseInv, TypeOK
<1>2. PointerSealed' /\ JournalsLeadAway'
  BY DEF ReleaseInv, PointerSealed, JournalsLeadAway
<1>3. StagingPartial' /\ ActivationOpen' /\ WithdrawalUnderWay'
  BY EndMoves DEF StagingPartial, ActivationOpen, WithdrawalUnderWay, At, Withdrawing
<1> QED BY <1>1, <1>2, <1>3 DEF ReleaseInv

LEMMA RestoreRestartPreserves ==
    ASSUME ReleaseInv, RestoreRestart
    PROVE  ReleaseInv'
<1>1. runtime' \in Maybe
  BY DEF RestoreRestart, ReleaseInv, TypeOK, Maybe
<1>2. PICK how \in Ends : End(how)
  BY DEF RestoreRestart, Ends
<1> QED BY <1>1, <1>2, EndPreserves DEF RestoreRestart

-----------------------------------------------------------------------------
(* commit, and what goes wrong.                                            *)

LEMMA CommitPreserves ==
    ASSUME ReleaseInv, Commit
    PROVE  ReleaseInv'
<1>0. /\ TypeOK /\ run.digest \in Digests
      /\ journal' = [journal EXCEPT ![run.digest].status = "committed"]
      /\ UNCHANGED <<tree, pointer, records, runtime>>
      /\ End("ok") /\ "ok" \in Ends /\ "committed" \in JournalStatuses
  BY RunTyped DEF ReleaseInv, Commit, At, Kinds, Ends, JournalStatuses
<1>1. TypeOK'
  BY <1>0, StatusTyped, EndMoves DEF TypeOK
<1>2. PointerSealed' /\ JournalsLeadAway'
  BY <1>0, StatusTyped DEF ReleaseInv, PointerSealed, JournalsLeadAway
<1>3. run'.kind = "none"
  BY <1>0, EndMoves
<1>4. StagingPartial' /\ ActivationOpen' /\ WithdrawalUnderWay'
  BY <1>3 DEF StagingPartial, ActivationOpen, WithdrawalUnderWay, At, Withdrawing
<1> QED BY <1>1, <1>2, <1>4 DEF ReleaseInv

LEMMA BreakPreserves ==
    ASSUME ReleaseInv, Break
    PROVE  ReleaseInv'
<1>0. TypeOK /\ UNCHANGED disk
  BY DEF ReleaseInv, Break
<1>1. CASE run.kind = "activate"
  <2>1. Goto("revert") \/ Rescue
    BY <1>1 DEF Break, At
  <2>2. "revert" \in Steps /\ run.kind \in Kinds
    BY <1>1 DEF Steps, Kinds
  <2>3. /\ run' \in [kind : Kinds, digest : Digests, step : Steps]
        /\ run'.step \in {"revert", "restore"}
    BY <1>0, <1>1, <2>1, <2>2, RescueMoves, GotoMoves
  <2> QED BY <1>0, <2>3, RunMoves DEF At
<1>2. CASE run.kind # "activate"
  <2>1. End("failed") /\ "failed" \in Ends /\ runtime' \in Maybe
        /\ UNCHANGED <<tree, pointer, journal, records>>
    BY <1>0, <1>2 DEF Break, At, Ends, disk, TypeOK
  <2> QED BY <2>1, EndPreserves
<1> QED BY <1>1, <1>2

LEMMA LosePreserves ==
    ASSUME ReleaseInv, Lose
    PROVE  ReleaseInv'
<1>1. End("lost") /\ "lost" \in Ends /\ runtime' \in Maybe
      /\ UNCHANGED <<tree, pointer, journal, records>>
  BY DEF Lose, Ends, disk, ReleaseInv, TypeOK
<1> QED BY <1>1, EndPreserves

LEMMA RebootPreserves ==
    ASSUME ReleaseInv, Reboot
    PROVE  ReleaseInv'
<1>0. UNCHANGED <<tree, pointer, journal, records>> /\ runtime' \in Maybe
  BY DEF Reboot, ReleaseInv, TypeOK, Maybe
<1>1. CASE Idle
  <2>1. run' = run
    BY <1>1 DEF Reboot
  <2> QED BY <1>0, <2>1
      DEF ReleaseInv, TypeOK, PointerSealed, JournalsLeadAway, StagingPartial,
          ActivationOpen, WithdrawalUnderWay, At, Verified, Ours
<1>2. CASE ~Idle
  <2>1. End("lost") /\ "lost" \in Ends
    BY <1>2 DEF Reboot, Ends
  <2> QED BY <1>0, <2>1, EndPreserves
<1> QED BY <1>1, <1>2

-----------------------------------------------------------------------------
(* The theorems.                                                           *)

LEMMA NextPreserves == ReleaseInv /\ [Next]_vars => ReleaseInv'
<1> SUFFICES ASSUME ReleaseInv, [Next]_vars PROVE ReleaseInv'
  OBVIOUS
<1> HIDE DEF ReleaseInv
<1>1. CASE \E kind \in Kinds \ {"rescue"}, d \in Digests : Begin(kind, d)
  BY <1>1, BeginPreserves
<1>2. CASE RunStep
  <2>1. CASE StageTree \/ StageFiles \/ Seal
    BY <2>1, StageTreePreserves, StageFilesPreserves, SealPreserves
  <2>2. CASE ActivateJournal \/ ActivateSwitch \/ ActivateCompose \/ ActivateReload \/ ActivateImage
    BY <2>2, ActivateJournalPreserves, ActivateSwitchPreserves, ActivateRestPreserves
  <2>6. CASE RevertCompose \/ RevertRestart
    BY <2>6, RevertPreserves
  <2>3. CASE RestoreNothing \/ RestoreSwitch \/ RestoreCompose \/ RestoreImage
    BY <2>3, RestoreNothingPreserves, RestoreSwitchPreserves, RestoreComposePreserves,
       RestoreImagePreserves
  <2>4. CASE RestoreClose \/ RestoreRestart
    BY <2>4, RestoreClosePreserves, RestoreRestartPreserves
  <2>5. CASE Commit
    BY <2>5, CommitPreserves
  <2> QED BY <1>2, <2>1, <2>2, <2>3, <2>4, <2>5, <2>6 DEF RunStep
<1>3. CASE Break
  BY <1>3, BreakPreserves
<1>4. CASE Lose
  BY <1>4, LosePreserves
<1>5. CASE Reboot
  BY <1>5, RebootPreserves
<1>6. CASE UNCHANGED vars
  BY <1>6 DEF ReleaseInv, TypeOK, PointerSealed, JournalsLeadAway, StagingPartial,
     ActivationOpen, WithdrawalUnderWay, At, Verified, Ours, vars
<1> QED BY <1>1, <1>2, <1>3, <1>4, <1>5, <1>6 DEF Next

\* The invariant of the transaction holds for any set of releases, whatever run
\* follows or breaks off another.
THEOREM ReleaseSafe == Spec => []ReleaseInv
  BY InitInv, NextPreserves, PTL DEF Spec

\* The variables of the transaction have their types.
THEOREM ReleaseTyped == Spec => []TypeOK
<1>1. ReleaseInv => TypeOK
  BY DEF ReleaseInv
<1> QED BY <1>1, ReleaseSafe, PTL

\* `current` is nothing, or names a sealed tree.
THEOREM ReleasePointer == Spec => []PointerSealed
<1>1. ReleaseInv => PointerSealed
  BY DEF ReleaseInv
<1> QED BY <1>1, ReleaseSafe, PTL

\* No open or closed transaction has itself as its way back.
THEOREM ReleaseWayBack == Spec => []NeverUndoneToItself
<1>1. ReleaseInv => NeverUndoneToItself
  BY DEF ReleaseInv, JournalsLeadAway, NeverUndoneToItself
<1> QED BY <1>1, ReleaseSafe, PTL

\* Only the switches of an activation and of a withdrawal move the pointer.
LEMMA PointerMoves ==
    ASSUME [Next]_vars, pointer' # pointer
    PROVE  (ActivateSwitch \/ RestoreSwitch) /\ journal' = journal
  BY DEF Next, RunStep, Begin, StageTree, StageFiles, Seal, ActivateJournal, ActivateSwitch,
     ActivateCompose, ActivateReload, ActivateImage, RevertCompose, RevertRestart, RestoreNothing, RestoreSwitch,
     RestoreCompose, RestoreImage, RestoreClose, RestoreRestart, Commit, Break, Lose,
     Reboot, disk, vars

\* A committed release leaves the edge only by an activation whose open journal
\* leads back to it.
THEOREM ReleaseCommitted == Spec => CommittedLeftByActivation
<1> DEFINE Left == \A d \in Digests :
        pointer = d /\ journal[d].status = "committed" /\ pointer' # d
        => /\ pointer' # NoDigest
           /\ journal[pointer'].status = "pending"
           /\ journal[pointer'].previous = d
<1>1. ReleaseInv /\ [Next]_vars => Left
  <2> SUFFICES ASSUME ReleaseInv, [Next]_vars, NEW d \in Digests,
                      pointer = d, journal[d].status = "committed", pointer' # d
               PROVE  /\ pointer' # NoDigest
                      /\ journal[pointer'].status = "pending"
                      /\ journal[pointer'].previous = d
    OBVIOUS
  <2>1. CASE ActivateSwitch
    <3>1. pointer' = run.digest /\ run.digest \in Digests
      BY <2>1, RunTyped DEF ActivateSwitch, At, ReleaseInv, Kinds
    <3>2. journal[run.digest].status = "pending" /\ Ours(run.digest)
      BY <2>1 DEF ActivateSwitch, ReleaseInv, ActivationOpen
    <3> QED BY <3>1, <3>2, DigestAssumption DEF Ours
  <2>2. CASE RestoreSwitch
    <3>1. /\ journal[run.digest].status \in {"pending", "rolled_back"}
          /\ pointer \in {run.digest, journal[run.digest].previous}
          /\ pointer' = journal[run.digest].previous
      BY <2>2 DEF RestoreSwitch, Ours
    <3> QED BY <3>1
  <2> QED BY <2>1, <2>2, PointerMoves
<1>2. ReleaseInv /\ [Next]_vars => [Left]_vars
  BY <1>1
<1> QED BY <1>2, ReleaseSafe, PTL DEF Spec, CommittedLeftByActivation

\* Only these steps write a journal, each that of its run's release.
LEMMA JournalMoves ==
    ASSUME TypeOK, [Next]_vars, NEW d \in Digests, journal'[d] # journal[d]
    PROVE  /\ d = run.digest
           /\ \/ ActivateJournal /\ Reopens(d) /\ journal'[d] = Opened(d)
              \/ RestoreClose /\ journal'[d] = [journal[d] EXCEPT !.status = "rolled_back"]
              \/ Commit /\ journal'[d] = [journal[d] EXCEPT !.status = "committed"]
<1>1. ActivateJournal \/ RestoreClose \/ Commit
  BY DEF Next, RunStep, Begin, StageTree, StageFiles, Seal, ActivateJournal, ActivateSwitch,
     ActivateCompose, ActivateReload, ActivateImage, RevertCompose, RevertRestart, RestoreNothing, RestoreSwitch,
     RestoreCompose, RestoreImage, RestoreClose, RestoreRestart, Commit, Break, Lose,
     Reboot, disk, vars
<1>2. CASE ActivateJournal
  <2>1. /\ Reopens(run.digest)
        /\ journal' = [journal EXCEPT ![run.digest] = Opened(run.digest)]
    BY <1>2 DEF ActivateJournal
  <2> QED BY <1>2, <2>1 DEF TypeOK
<1>3. CASE RestoreClose
  BY <1>3 DEF RestoreClose, TypeOK
<1>4. CASE Commit
  BY <1>4 DEF Commit, TypeOK
<1> QED BY <1>1, <1>2, <1>3, <1>4

\* A journal is closed as withdrawn only with pointer and records restored.
THEOREM ReleaseWithdrawn == Spec => WithdrawnMeansRestored
<1> DEFINE Restored == \A d \in Digests :
        journal'[d].status = "rolled_back" /\ journal[d].status # "rolled_back"
        => pointer = journal[d].previous /\ records = journal[d].saved
<1>1. ReleaseInv /\ [Next]_vars => Restored
  <2> SUFFICES ASSUME ReleaseInv, [Next]_vars, NEW d \in Digests,
                      journal'[d].status = "rolled_back", journal[d].status # "rolled_back"
               PROVE  pointer = journal[d].previous /\ records = journal[d].saved
    OBVIOUS
  <2>0. TypeOK
    BY DEF ReleaseInv
  <2>1. journal[d] \in [status : JournalStatuses, previous : Maybe, saved : Records]
    BY <2>0 DEF TypeOK
  <2>2. d = run.digest /\ RestoreClose
    <3>1. Opened(d).status # "rolled_back"
      BY DEF Opened
    <3>2. [journal[d] EXCEPT !.status = "committed"].status # "rolled_back"
      BY <2>1
    <3> QED BY <2>0, <3>1, <3>2, JournalMoves
  <2>3. /\ pointer = journal[d].previous
        /\ records.compose = journal[d].saved.compose
        /\ records.image = journal[d].saved.image
    BY <2>2 DEF RestoreClose, ReleaseInv, WithdrawalUnderWay
  <2>4. records \in Records /\ journal[d].saved \in Records
    BY <2>0, <2>1 DEF TypeOK
  <2> QED BY <2>3, <2>4 DEF Records
<1>2. ReleaseInv /\ [Next]_vars => [Restored]_vars
  BY <1>1
<1> QED BY <1>2, ReleaseSafe, PTL DEF Spec, WithdrawnMeansRestored

\* A decided transaction is opened anew only by an activation from elsewhere.
THEOREM ReleaseDecided == Spec => DecisionsStand
<1> DEFINE Stands == \A d \in Digests :
        journal[d].status \in {"committed", "rolled_back"} /\ journal'[d].status # journal[d].status
        => journal'[d] = Opened(d) /\ pointer # d
<1>1. ReleaseInv /\ [Next]_vars => Stands
  <2> SUFFICES ASSUME ReleaseInv, [Next]_vars, NEW d \in Digests,
                      journal[d].status \in {"committed", "rolled_back"},
                      journal'[d].status # journal[d].status
               PROVE  journal'[d] = Opened(d) /\ pointer # d
    OBVIOUS
  <2>0. TypeOK
    BY DEF ReleaseInv
  <2>1. journal[d] \in [status : JournalStatuses, previous : Maybe, saved : Records]
    BY <2>0 DEF TypeOK
  <2>2. d = run.digest
    BY <2>0, JournalMoves
  <2>3. ~(RestoreClose /\ journal'[d] = [journal[d] EXCEPT !.status = "rolled_back"])
    <3>1. RestoreClose => journal[d].status \in {"pending", "rolled_back"}
      BY <2>2 DEF RestoreClose, ReleaseInv, WithdrawalUnderWay
    <3> QED BY <2>1, <3>1
  <2>4. ~(Commit /\ journal'[d] = [journal[d] EXCEPT !.status = "committed"])
    <3>1. Commit => journal[d].status \in {"pending", "committed"}
      BY <2>2 DEF Commit
    <3> QED BY <2>1, <3>1
  <2> QED BY <2>0, <2>3, <2>4, JournalMoves DEF Reopens
<1>2. ReleaseInv /\ [Next]_vars => [Stands]_vars
  BY <1>1
<1> QED BY <1>2, ReleaseSafe, PTL DEF Spec, DecisionsStand

-----------------------------------------------------------------------------
(* Deployments on one edge.                                                *)

-----------------------------------------------------------------------------
(* The invariant.                                                          *)

Controllers == {NoWork} \cup [of : Deployments, at : Converging]

ControlTyped ==
    /\ deployment \in [Deployments ->
         [status : {"queued", "running"} \cup Over, phase : Phases]]
    /\ controller \in Controllers
    /\ losses \in 0..MaxLosses
    /\ clean \in BOOLEAN

\* Whoever runs a phase has one left to run.
PhaseLeft ==
    controller.at \in {"phase", "run"} => deployment[x].phase \in {"none", "stage", "activate"}

\* What the pointer names, or a journal leads back to, was activated once.
NamedWasOpened ==
    /\ pointer # NoDigest => journal[pointer].status # "none"
    /\ \A d \in Digests : journal[d].previous # NoDigest
         => journal[journal[d].previous].status # "none"

\* A withdrawal that comes to its restart has left its release.
RestartsElsewhere == At(Withdrawing, "restart") => pointer # run.digest

\* The run of a withdrawing controller is the rollback of its release, and once
\* that is through, the edge is off it.
WithdrawsItsOwn ==
    controller.at = "withdrawing" =>
       /\ ~Idle => run.kind = "rollback" /\ run.digest = Digest
       /\ run.step = "ok" => pointer # Digest /\ runtime \in {pointer, NoDigest}

RolloutInv ==
    /\ ReleaseInv
    /\ ControlTyped
    /\ PhaseLeft
    /\ NamedWasOpened
    /\ RestartsElsewhere
    /\ WithdrawsItsOwn

-----------------------------------------------------------------------------
(* The edge below the deployments.                                         *)

LEMMA BeginIsNext ==
    ASSUME NEW kind \in Kinds \ {"rescue"}, NEW d \in Digests, Begin(kind, d)
    PROVE  Next
  BY DEF Next

LEMMA ControllerTyped ==
    ASSUME ControlTyped, controller.at # "idle"
    PROVE  /\ controller.at \in Converging /\ x \in Deployments
           /\ controller = [of |-> x, at |-> controller.at]
           /\ Digest \in Digests
           /\ deployment[x].status \in {"queued", "running"} \cup Over
           /\ deployment[x].phase \in Phases
<1>1. controller \in [of : Deployments, at : Converging]
  BY DEF ControlTyped, Controllers, NoWork
<1>2. controller.at \in Converging /\ x \in Deployments
      /\ controller = [of |-> x, at |-> controller.at]
  BY <1>1 DEF x
<1>3. deployment[x] \in [status : {"queued", "running"} \cup Over, phase : Phases]
  BY <1>2 DEF ControlTyped
<1> QED BY <1>2, <1>3, RolloutAssumption DEF Digest

\* Every step of the rollout is one of the edge's transaction, or none.
LEMMA StepBelow ==
    ASSUME ControlTyped, PhaseLeft, [RolloutNext]_allVars
    PROVE  [Next]_vars
<1>1. CASE StartRun
  <2>1. controller.at = "phase" /\ deployment[x].phase \in {"none", "stage"}
        /\ Begin(NextPhase(deployment[x].phase), Digest)
    BY <1>1 DEF StartRun
  <2>2. Digest \in Digests
    BY <2>1, ControllerTyped
  <2>3. NextPhase(deployment[x].phase) \in Kinds \ {"rescue"}
    BY <2>1 DEF NextPhase, Kinds
  <2> QED BY <2>1, <2>2, <2>3, BeginIsNext
<1>2. CASE Observe
  <2>1. controller.at = "phase" /\ Begin("commit", Digest)
    BY <1>2 DEF Observe
  <2>2. Digest \in Digests /\ "commit" \in Kinds \ {"rescue"}
    BY <2>1, ControllerTyped DEF Kinds
  <2> QED BY <2>1, <2>2, BeginIsNext
<1>3. CASE Withdraw
  <2>1. controller.at = "withdraw" /\ Begin("rollback", Digest)
    BY <1>3 DEF Withdraw
  <2>2. Digest \in Digests /\ "rollback" \in Kinds \ {"rescue"}
    BY <2>1, ControllerTyped DEF Kinds
  <2> QED BY <2>1, <2>2, BeginIsNext
<1>4. CASE \/ \E i \in Deployments : Take(i)
           \/ ObserveFails \/ RecordPhase \/ PhaseFails \/ Withdrawn \/ Finish
           \/ Reobserve \/ ReobserveFails \/ Fail \/ Complete \/ UNCHANGED allVars
  BY <1>4 DEF Take, ObserveFails, RecordPhase, PhaseFails, Withdrawn, Finish, Reobserve,
              ReobserveFails, Fail, Complete, allVars
<1>5. CASE EdgeStep \/ EdgeBreaks
  BY <1>5 DEF EdgeStep, EdgeBreaks, Next
<1>6. CASE Crash \/ Interrupt
  <2>1. CASE Idle
    BY <1>6, <2>1 DEF Crash, Interrupt, disk, vars
  <2>2. CASE ~Idle
    BY <1>6, <2>2 DEF Crash, Interrupt, Lose, Next
  <2> QED BY <2>1, <2>2
<1>7. CASE EdgeLost
  BY <1>7 DEF EdgeLost, Next
<1> QED BY <1>1, <1>2, <1>3, <1>4, <1>5, <1>6, <1>7 DEF RolloutNext, ControllerStep

-----------------------------------------------------------------------------
(* The deployments.                                                        *)

LEMMA StandTyped ==
    ASSUME ControlTyped, controller.at # "idle", NEW at \in Converging, Stand(at)
    PROVE  /\ controller' = [of |-> x, at |-> at]
           /\ controller' \in Controllers /\ controller'.at = at /\ x' = x
<1>1. controller = [of |-> x, at |-> controller.at] /\ x \in Deployments
  BY ControllerTyped
<1>2. controller' = [of |-> x, at |-> at]
  BY <1>1 DEF Stand
<1>3. x' = controller'.of
  BY DEF x
<1> QED BY <1>1, <1>2, <1>3 DEF Controllers

LEMMA SettleTyped ==
    ASSUME ControlTyped, controller.at # "idle", NEW status \in Over, Settle(status)
    PROVE  /\ deployment' \in [Deployments ->
                [status : {"queued", "running"} \cup Over, phase : Phases]]
           /\ controller' \in Controllers /\ controller'.at = "idle"
<1>1. x \in Deployments
  BY ControllerTyped
<1>2. deployment' = [deployment EXCEPT ![x].status = status]
  BY DEF Settle
<1>3. controller' = NoWork
  BY DEF Settle
<1> QED BY <1>1, <1>2, <1>3 DEF ControlTyped, Controllers, NoWork

\* Types, and a phase to run for whoever runs one.
ControlKept == ControlTyped' /\ PhaseLeft'

LEMMA ControlStep ==
    ASSUME ControlTyped, PhaseLeft, [RolloutNext]_allVars
    PROVE  ControlKept
<1> USE RolloutAssumption
<1>0. /\ deployment \in [Deployments ->
           [status : {"queued", "running"} \cup Over, phase : Phases]]
      /\ controller \in Controllers /\ losses \in 0..MaxLosses /\ clean \in BOOLEAN
  BY DEF ControlTyped
<1>1. ASSUME NEW i \in Deployments, Take(i) PROVE ControlKept
  <2> DEFINE at == CASE deployment[i].phase = "done" -> "reobserve"
                     [] deployment[i].phase = "verify" -> "finish"
                     [] OTHER -> "phase"
  <2>1. /\ deployment' = [deployment EXCEPT ![i].status = "running"]
        /\ controller' = [of |-> i, at |-> at]
        /\ losses' = losses /\ clean' = clean
    BY <1>1 DEF Take
  <2>2. at \in {"reobserve", "finish", "phase"}
        /\ (at = "phase" => deployment[i].phase \in {"none", "stage", "activate"})
    BY <1>0 DEF Phases
  <2>3. deployment' \in [Deployments -> [status : {"queued", "running"} \cup Over, phase : Phases]]
        /\ deployment'[i].phase = deployment[i].phase
    BY <1>0, <2>1
  <2>4. controller'.of = i /\ controller'.at = at /\ controller' \in Controllers
    <3> HIDE DEF at
    <3> QED BY <2>1, <2>2 DEF Controllers, Converging
  <2>5. x' = i
    BY <2>4 DEF x
  <2> HIDE DEF at
  <2> QED BY <1>0, <2>1, <2>2, <2>3, <2>4, <2>5 DEF ControlKept, ControlTyped, PhaseLeft
<1>2. ASSUME NEW at \in Converging, controller.at # "idle", Stand(at), deployment' = deployment,
             losses' = losses, clean' = clean,
             at \in {"phase", "run"} => controller.at \in {"phase", "run"}
      PROVE  ControlKept
  <2>1. controller' \in Controllers /\ controller'.at = at /\ x' = x
    BY <1>2, StandTyped
  <2> QED BY <1>0, <1>2, <2>1 DEF ControlKept, ControlTyped, PhaseLeft
<1>3. ASSUME NEW status \in Over, controller.at # "idle", Settle(status),
             losses' \in 0..MaxLosses, clean' \in BOOLEAN
      PROVE  ControlKept
  <2>1. /\ deployment' \in [Deployments -> [status : {"queued", "running"} \cup Over, phase : Phases]]
        /\ controller' \in Controllers /\ controller'.at = "idle"
    BY <1>3, SettleTyped
  <2> QED BY <1>3, <2>1 DEF ControlKept, ControlTyped, PhaseLeft
<1>4. CASE StartRun \/ Observe
  <2>1. "run" \in Converging
    BY DEF Converging
  <2> QED BY <1>2, <1>4, <2>1 DEF StartRun, Observe
<1>5. CASE ObserveFails \/ Withdraw \/ Reobserve
  <2>1. {"withdraw", "withdrawing", "complete"} \subseteq Converging
    BY DEF Converging
  <2> QED BY <1>2, <1>5, <2>1 DEF ObserveFails, Withdraw, Reobserve
<1>6. CASE RecordPhase
  <2> DEFINE p == deployment[x].phase
             at == IF NextPhase(p) = "verify" THEN "finish" ELSE "phase"
  <2>1. /\ controller.at = "run" /\ x \in Deployments
        /\ p \in {"none", "stage", "activate"}
    BY <1>6, ControllerTyped DEF RecordPhase, PhaseLeft
  <2>2. /\ NextPhase(p) \in Phases
        /\ at = "phase" => NextPhase(p) \in {"none", "stage", "activate"}
        /\ at \in {"finish", "phase"}
    BY <2>1 DEF NextPhase, Phases
  <2>3. /\ deployment' = [deployment EXCEPT ![x].phase = NextPhase(p)]
        /\ Stand(at) /\ losses' = losses /\ clean' = clean
    BY <1>0, <1>6, <2>1 DEF RecordPhase
  <2> HIDE DEF at, p
  <2>4. at \in Converging
    BY <2>2 DEF Converging
  <2>5. controller' \in Controllers /\ controller'.at = at /\ x' = x
    BY <2>1, <2>3, <2>4, StandTyped
  <2>6. deployment' \in [Deployments -> [status : {"queued", "running"} \cup Over, phase : Phases]]
        /\ deployment'[x].phase = NextPhase(p)
    BY <1>0, <2>1, <2>2, <2>3
  <2> QED BY <1>0, <2>2, <2>3, <2>5, <2>6 DEF ControlKept, ControlTyped, PhaseLeft
<1>7. CASE PhaseFails
  <2>1. "withdraw" \in Converging /\ "failed" \in Over
    BY DEF Converging, Over
  <2> QED BY <1>0, <1>2, <1>3, <1>7, <2>1 DEF PhaseFails
<1>8. CASE Withdrawn \/ Fail \/ Complete
  <2>1. {"restored", "failed", "succeeded"} \subseteq Over
    BY DEF Over
  <2>2. PICK status \in Over : Settle(status)
    BY <1>8, <2>1 DEF Withdrawn, Fail, Complete
  <2> QED BY <1>0, <1>3, <1>8, <2>2 DEF Withdrawn, Fail, Complete
<1>9. ASSUME NEW phase \in Phases, NEW at \in {"complete", "failing"}, controller.at # "idle",
             deployment' = [deployment EXCEPT ![x].phase = phase], Stand(at),
             losses' = losses, clean' = clean
      PROVE  ControlKept
  <2>1. at \in Converging /\ x \in Deployments
    BY <1>9, ControllerTyped DEF Converging
  <2>2. controller' \in Controllers /\ controller'.at = at
    BY <1>9, <2>1, StandTyped
  <2>3. deployment' \in [Deployments -> [status : {"queued", "running"} \cup Over, phase : Phases]]
    BY <1>0, <1>9, <2>1
  <2> QED BY <1>0, <1>9, <2>2, <2>3 DEF ControlKept, ControlTyped, PhaseLeft
<1>10. CASE Finish \/ ReobserveFails
  <2>1. {"done", "verify"} \subseteq Phases
    BY DEF Phases
  <2> QED BY <1>9, <1>10, <2>1 DEF Finish, ReobserveFails
<1>11. ASSUME UNCHANGED <<deployment, controller>>, losses' \in 0..MaxLosses, clean' \in BOOLEAN
       PROVE  ControlKept
  BY <1>0, <1>11 DEF ControlKept, ControlTyped, PhaseLeft, x
<1>12. CASE EdgeStep \/ EdgeBreaks \/ EdgeLost \/ UNCHANGED allVars
  <2>1. losses' \in 0..MaxLosses
    BY <1>0, <1>12 DEF EdgeStep, EdgeBreaks, EdgeLost, allVars, control
  <2>2. clean' \in BOOLEAN
    <3>1. clean' = clean \/ clean' = (clean /\ run.kind \notin Withdrawing)
          \/ clean' = (clean /\ Idle)
      BY <1>12 DEF EdgeStep, EdgeBreaks, EdgeLost, allVars, control
    <3> QED BY <1>0, <3>1, Zenon
  <2> QED BY <1>11, <1>12, <2>1, <2>2 DEF EdgeStep, EdgeBreaks, EdgeLost, allVars, control
<1>13. CASE Interrupt
  <2>1. losses' \in 0..MaxLosses /\ clean' \in BOOLEAN /\ "abandoned" \in Over
    BY <1>0, <1>13 DEF Interrupt, Over
  <2> QED BY <1>3, <1>13, <2>1 DEF Interrupt
<1>14. CASE Crash
  <2>1. losses' \in 0..MaxLosses /\ clean' \in BOOLEAN /\ controller' = NoWork /\ deployment' = deployment
    BY <1>0, <1>14 DEF Crash
  <2> QED BY <1>0, <2>1 DEF ControlKept, ControlTyped, PhaseLeft, Controllers, NoWork
<1> QED BY <1>1, <1>4, <1>5, <1>6, <1>7, <1>8, <1>10, <1>12, <1>13, <1>14
        DEF RolloutNext, ControllerStep

-----------------------------------------------------------------------------
(* What a withdrawal leaves.                                               *)

\* What a journal names is opened for good.
LEMMA NamedKept ==
    ASSUME ReleaseInv, NamedWasOpened, [Next]_vars
    PROVE  NamedWasOpened'
<1>1. TypeOK /\ TypeOK'
  BY NextPreserves DEF ReleaseInv
<1>2. ASSUME NEW d \in Digests, journal[d].status # "none" PROVE journal'[d].status # "none"
  <2>1. CASE journal'[d] = journal[d]
    BY <1>2, <2>1
  <2>2. CASE journal'[d] # journal[d]
    <3>1. \/ journal'[d] = Opened(d)
          \/ journal'[d] = [journal[d] EXCEPT !.status = "rolled_back"]
          \/ journal'[d] = [journal[d] EXCEPT !.status = "committed"]
      BY <1>1, <2>2, JournalMoves
    <3>2. journal[d] \in [status : JournalStatuses, previous : Maybe, saved : Records]
      BY <1>1 DEF TypeOK
    <3> QED BY <3>1, <3>2 DEF Opened
  <2> QED BY <2>1, <2>2
<1>3. ASSUME NEW d \in Digests
      PROVE  journal'[d].previous = journal[d].previous \/ journal'[d].previous = pointer
  <2>1. CASE journal'[d] # journal[d]
    <3>1. \/ journal'[d] = Opened(d)
          \/ journal'[d] = [journal[d] EXCEPT !.status = "rolled_back"]
          \/ journal'[d] = [journal[d] EXCEPT !.status = "committed"]
      BY <1>1, <2>1, JournalMoves
    <3>2. journal[d] \in [status : JournalStatuses, previous : Maybe, saved : Records]
      BY <1>1 DEF TypeOK
    <3> QED BY <3>1, <3>2 DEF Opened
  <2> QED BY <2>1
<1>4. \A d \in Digests : journal[d].previous \in Maybe
  BY <1>1 DEF TypeOK
<1>5. pointer \in Maybe /\ pointer' \in Maybe
  BY <1>1 DEF TypeOK
<1>6. ASSUME NEW d \in Digests, journal'[d].previous # NoDigest
      PROVE  journal'[journal'[d].previous].status # "none"
  BY <1>2, <1>3, <1>4, <1>5, <1>6 DEF NamedWasOpened, Maybe
<1>7. ASSUME pointer' # NoDigest PROVE journal'[pointer'].status # "none"
  <2>1. CASE pointer' = pointer
    BY <1>2, <1>5, <1>7, <2>1 DEF NamedWasOpened, Maybe
  <2>2. CASE pointer' # pointer
    <3>1. (ActivateSwitch \/ RestoreSwitch) /\ journal' = journal
      BY <2>2, PointerMoves
    <3>2. CASE ActivateSwitch
      <4>1. pointer' = run.digest /\ journal[run.digest].status = "pending"
        BY <3>2 DEF ActivateSwitch, ReleaseInv, ActivationOpen, At
      <4> QED BY <3>1, <4>1
    <3>3. CASE RestoreSwitch
      <4>1. run.kind \in Withdrawing /\ pointer' = journal[run.digest].previous
        BY <3>3 DEF RestoreSwitch, At
      <4>2. run.digest \in Digests
        BY <1>1, <4>1, RunTyped DEF Withdrawing, Kinds
      <4> QED BY <1>7, <3>1, <4>1, <4>2 DEF NamedWasOpened
    <3> QED BY <3>1, <3>2, <3>3
  <2> QED BY <2>1, <2>2
<1> QED BY <1>6, <1>7 DEF NamedWasOpened

\* How a step of the edge gets a withdrawal to its restart, or past it.
LEMMA RestartComes ==
    ASSUME TypeOK, [Next]_vars, At(Withdrawing, "restart")'
    PROVE  \/ /\ RestoreNothing \/ RestoreClose
              /\ run.kind \in Withdrawing /\ run.digest \in Digests
              /\ run'.digest = run.digest /\ UNCHANGED <<pointer, records>>
           \/ UNCHANGED <<run, pointer, records>>
<1>0. run'.kind \in Withdrawing /\ run'.step = "restart"
  BY DEF At
<1>1. \A how \in Ends : Ended(how).step # "restart"
  BY DEF Ended, Ends
<1>2. ASSUME NEW kind \in Kinds \ {"rescue"}, NEW d \in Digests, Begin(kind, d)
      PROVE  FALSE
  <2>1. run' = [kind |-> kind, digest |-> d, step |-> First(kind)]
    BY <1>2 DEF Begin
  <2>2. First(kind) # "restart"
    BY <1>2 DEF First, Kinds
  <2> QED BY <1>0, <2>1, <2>2
<1>3. ASSUME run.kind \in Kinds, NEW step \in Steps, step # "restart", Goto(step) PROVE FALSE
  BY <1>0, <1>3, GotoMoves
<1>4. ASSUME NEW how \in Ends, End(how) PROVE FALSE
  BY <1>0, <1>1, <1>4 DEF End
<1>5. ASSUME Rescue, run.kind = "activate" PROVE FALSE
  BY <1>0, <1>5, RescueMoves
<1>6. CASE RestoreNothing \/ RestoreClose
  <2>1. /\ run.kind \in Withdrawing /\ run.kind \in Kinds /\ run.digest \in Digests
        /\ UNCHANGED <<pointer, records>> /\ Goto("restart") /\ "restart" \in Steps
    BY <1>6, RunTyped DEF RestoreNothing, RestoreClose, At, Withdrawing, Kinds, Steps, disk
  <2> QED BY <1>6, <2>1, GotoMoves
<1>9. CASE StageTree \/ StageFiles \/ Seal \/ ActivateJournal \/ ActivateSwitch
           \/ ActivateCompose \/ ActivateReload \/ ActivateImage
  <2>1. {"files", "seal", "switch", "compose", "reload", "image"} \subseteq Steps \ {"restart"}
        /\ "ok" \in Ends /\ {"stage", "activate"} \subseteq Kinds
    BY DEF Steps, Ends, Kinds
  <2> QED BY <1>3, <1>4, <1>9, <2>1 DEF StageTree, StageFiles, Seal, ActivateJournal, ActivateSwitch,
               ActivateCompose, ActivateReload, ActivateImage, At
<1>10. CASE RevertCompose \/ RevertRestart
  <2>1. "bounce" \in Steps \ {"restart"} /\ "activate" \in Kinds
    BY DEF Steps, Kinds
  <2> QED BY <1>3, <1>5, <1>10, <2>1 DEF RevertCompose, RevertRestart, At
<1>11. CASE RestoreSwitch \/ RestoreCompose \/ RestoreImage
  <2>1. {"compose", "image", "close"} \subseteq Steps \ {"restart"} /\ Withdrawing \subseteq Kinds
    BY DEF Steps, Withdrawing, Kinds
  <2> QED BY <1>3, <1>11, <2>1 DEF RestoreSwitch, RestoreCompose, RestoreImage, At
<1>12. CASE RestoreRestart \/ Commit \/ Lose
  <2>1. {"ok", "failed", "lost"} \subseteq Ends
    BY DEF Ends
  <2> QED BY <1>4, <1>12, <2>1 DEF RestoreRestart, Commit, Lose
<1>13. CASE Break
  <2>1. "revert" \in Steps \ {"restart"} /\ "activate" \in Kinds /\ "failed" \in Ends
    BY DEF Steps, Kinds, Ends
  <2> QED BY <1>3, <1>4, <1>5, <1>13, <2>1 DEF Break, At
<1>14. CASE Reboot
  <2>1. "lost" \in Ends
    BY DEF Ends
  <2> QED BY <1>4, <1>14, <2>1 DEF Reboot
<1> QED BY <1>2, <1>6, <1>9, <1>10, <1>11, <1>12, <1>13, <1>14 DEF Next, RunStep, vars

\* A withdrawal comes to its restart off the release it withdraws.
LEMMA RestartReached ==
    ASSUME ReleaseInv, NamedWasOpened, RestartsElsewhere, [Next]_vars
    PROVE  RestartsElsewhere'
<1> SUFFICES ASSUME At(Withdrawing, "restart")' PROVE pointer' # run'.digest
    BY DEF RestartsElsewhere
<1>0. TypeOK
  BY DEF ReleaseInv
<1>1. CASE UNCHANGED <<run, pointer, records>>
  BY <1>1 DEF RestartsElsewhere, At
<1>2. CASE /\ RestoreNothing \/ RestoreClose
           /\ run.kind \in Withdrawing /\ run.digest \in Digests
           /\ run'.digest = run.digest /\ UNCHANGED <<pointer, records>>
  <2>1. CASE RestoreNothing
    BY <1>2, <2>1, DigestAssumption DEF RestoreNothing, NamedWasOpened
  <2>2. CASE RestoreClose
    BY <1>2, <2>2 DEF RestoreClose, ReleaseInv, WithdrawalUnderWay, JournalsLeadAway, At
  <2> QED BY <1>2, <2>1, <2>2
<1> QED BY <1>0, <1>1, <1>2, RestartComes

\* Only Withdraw sets out to withdraw.
LEMMA WithdrawingKept ==
    ASSUME ControlTyped, [RolloutNext]_allVars, controller'.at = "withdrawing"
    PROVE  Withdraw \/ (UNCHANGED controller /\ (RunStep \/ Break \/ Lose \/ Reboot \/ UNCHANGED vars))
<1>1. ASSUME NEW i \in Deployments, Take(i) PROVE FALSE
  <2> DEFINE at == CASE deployment[i].phase = "done" -> "reobserve"
                     [] deployment[i].phase = "verify" -> "finish"
                     [] OTHER -> "phase"
  <2>1. controller' = [of |-> i, at |-> at]
    BY <1>1 DEF Take
  <2>2. at \in {"reobserve", "finish", "phase"}
    BY DEF ControlTyped, Phases
  <2> HIDE DEF at
  <2> QED BY <2>1, <2>2
<1>2. ASSUME controller.at # "idle", NEW at \in Converging \ {"withdrawing"}, Stand(at) PROVE FALSE
  BY <1>2, StandTyped
<1>3. ASSUME NEW status, Settle(status) PROVE FALSE
  BY <1>3 DEF Settle, NoWork
<1>4. {"run", "withdraw", "finish", "phase", "complete", "failing"} \subseteq Converging \ {"withdrawing"}
  BY DEF Converging
<1>5. CASE StartRun \/ Observe \/ ObserveFails
  BY <1>2, <1>4, <1>5 DEF StartRun, Observe, ObserveFails
<1>6. CASE RecordPhase
  BY <1>2, <1>4, <1>6 DEF RecordPhase
<1>7. CASE PhaseFails \/ Withdrawn \/ Fail \/ Complete \/ Interrupt
  BY <1>2, <1>3, <1>4, <1>7 DEF PhaseFails, Withdrawn, Fail, Complete, Interrupt
<1>8. CASE Finish \/ Reobserve \/ ReobserveFails
  BY <1>2, <1>4, <1>8 DEF Finish, Reobserve, ReobserveFails
<1>9. CASE Crash
  BY <1>9 DEF Crash, NoWork
<1>10. CASE EdgeStep \/ EdgeBreaks \/ EdgeLost \/ UNCHANGED allVars
  BY <1>10 DEF EdgeStep, EdgeBreaks, EdgeLost, allVars, control
<1> QED BY <1>1, <1>5, <1>6, <1>7, <1>8, <1>9, <1>10 DEF RolloutNext, ControllerStep

LEMMA WithdrawsStep ==
    ASSUME RolloutInv, [RolloutNext]_allVars
    PROVE  WithdrawsItsOwn'
<1> SUFFICES ASSUME controller'.at = "withdrawing"
             PROVE  /\ ~Idle' => run'.kind = "rollback" /\ run'.digest = Digest'
                    /\ run'.step = "ok" => pointer' # Digest' /\ runtime' \in {pointer', NoDigest}
    BY DEF WithdrawsItsOwn
<1>0. TypeOK /\ ControlTyped
  BY DEF RolloutInv, ReleaseInv
<1>1. CASE Withdraw
  <2>1. controller.at # "idle" /\ Stand("withdrawing") /\ "withdrawing" \in Converging
        /\ Begin("rollback", Digest)
    BY <1>1 DEF Withdraw, Converging
  <2>2. x' = x
    BY <1>0, <2>1, StandTyped
  <2>3. Digest' = Digest
    BY <2>2 DEF Digest
  <2>4. run' = [kind |-> "rollback", digest |-> Digest, step |-> "restore"]
    BY <2>1 DEF Begin, First
  <2> QED BY <2>3, <2>4
<1>2. CASE UNCHANGED controller /\ (RunStep \/ Break \/ Lose \/ Reboot \/ UNCHANGED vars)
  <2>0. controller.at = "withdrawing" /\ Digest' = Digest
    BY <1>2 DEF Digest, x
  <2>1. /\ ~Idle => run.kind = "rollback" /\ run.digest = Digest
        /\ run.step = "ok" => pointer # Digest /\ runtime \in {pointer, NoDigest}
    BY <2>0 DEF RolloutInv, WithdrawsItsOwn
  <2>2. ASSUME NEW how \in Ends \ {"ok"}, End(how)
        PROVE  Idle' /\ run'.step # "ok"
    BY <2>2 DEF End, Ended, Idle, Ends
  <2>3. ASSUME ~Idle, NEW step \in Steps, Goto(step)
        PROVE  run'.kind = "rollback" /\ run'.digest = Digest /\ run'.step # "ok"
    <3>1. run.kind \in Kinds
      BY <2>1, <2>3 DEF Kinds
    <3>2. run'.step = step /\ run'.kind = run.kind /\ run'.digest = run.digest
      BY <1>0, <2>3, <3>1, GotoMoves
    <3> QED BY <2>1, <2>3, <3>2 DEF Steps
  <2>4. CASE RunStep
    <3>1. ~Idle
      BY <2>4 DEF RunStep, StageTree, StageFiles, Seal, ActivateJournal, ActivateSwitch,
            ActivateCompose, ActivateReload, ActivateImage, RevertCompose, RevertRestart,
            RestoreNothing, RestoreSwitch, RestoreCompose, RestoreImage, RestoreClose,
            RestoreRestart, Commit, At, Idle, Ends
    <3>2. run.kind = "rollback"
      BY <2>1, <3>1
    <3>3. RestoreNothing \/ RestoreSwitch \/ RestoreCompose \/ RestoreImage \/ RestoreClose
          \/ RestoreRestart
      BY <2>4, <3>2 DEF RunStep, StageTree, StageFiles, Seal, ActivateJournal, ActivateSwitch,
            ActivateCompose, ActivateReload, ActivateImage, RevertCompose, RevertRestart, Commit, At
    <3>4. CASE RestoreNothing \/ RestoreSwitch \/ RestoreCompose \/ RestoreImage \/ RestoreClose
      <4>1. {"restart", "compose", "image", "close"} \subseteq Steps
        BY DEF Steps
      <4>2. PICK step \in Steps : Goto(step)
        BY <3>4, <4>1 DEF RestoreNothing, RestoreSwitch, RestoreCompose, RestoreImage, RestoreClose
      <4> QED BY <2>0, <2>3, <3>1, <4>2
    <3>5. CASE RestoreRestart
      <4>1. pointer # Digest
        BY <2>1, <3>1, <3>5 DEF RolloutInv, RestartsElsewhere, RestoreRestart
      <4>2. pointer' = pointer /\ runtime' \in {pointer, NoDigest} /\ End("ok")
        BY <3>2, <3>5 DEF RestoreRestart
      <4>3. Idle'
        BY <4>2 DEF End, Ended, Idle, Ends
      <4> QED BY <2>0, <4>1, <4>2, <4>3
    <3> QED BY <3>3, <3>4, <3>5
  <2>5. CASE Break
    <3>1. End("failed") /\ "failed" \in Ends \ {"ok"}
      BY <2>1, <2>5 DEF Break, At, Ends
    <3> QED BY <2>2, <3>1
  <2>6. CASE Lose
    <3>1. End("lost") /\ "lost" \in Ends \ {"ok"}
      BY <2>6 DEF Lose, Ends
    <3> QED BY <2>2, <3>1
  <2>7. CASE Reboot
    <3>1. CASE Idle
      <4>1. run' = run /\ pointer' = pointer /\ runtime' \in {pointer, NoDigest}
        BY <2>7, <3>1 DEF Reboot
      <4>2. Idle'
        BY <3>1, <4>1 DEF Idle
      <4> QED BY <2>0, <2>1, <4>1, <4>2
    <3>2. CASE ~Idle
      <4>1. End("lost") /\ "lost" \in Ends \ {"ok"}
        BY <2>7, <3>2 DEF Reboot, Ends
      <4> QED BY <2>2, <4>1
    <3> QED BY <3>1, <3>2
  <2>8. CASE UNCHANGED vars
    BY <2>0, <2>1, <2>8 DEF vars, Idle
  <2> QED BY <1>2, <2>4, <2>5, <2>6, <2>7, <2>8
<1> QED BY <1>0, <1>1, <1>2, WithdrawingKept

-----------------------------------------------------------------------------
(* The theorems.                                                           *)

LEMMA RolloutInit0 == RolloutInit => RolloutInv
<1> SUFFICES ASSUME RolloutInit PROVE RolloutInv
    OBVIOUS
<1>1. ReleaseInv /\ pointer = NoDigest /\ run = Ended("ok")
      /\ journal = [d \in Digests |-> NoJournal]
  BY InitInv DEF RolloutInit, Init
<1>2. ControlTyped /\ PhaseLeft /\ WithdrawsItsOwn
  BY RolloutAssumption DEF RolloutInit, ControlTyped, PhaseLeft, WithdrawsItsOwn, NoWork,
     Controllers, Phases, Over
<1>3. NamedWasOpened
  BY <1>1 DEF NamedWasOpened, NoJournal
<1>4. RestartsElsewhere
  BY <1>1 DEF RestartsElsewhere, At, Ended
<1> QED BY <1>1, <1>2, <1>3, <1>4 DEF RolloutInv

LEMMA RolloutStep == RolloutInv /\ [RolloutNext]_allVars => RolloutInv'
<1> SUFFICES ASSUME RolloutInv, [RolloutNext]_allVars PROVE RolloutInv'
    OBVIOUS
<1>1. [Next]_vars
  BY StepBelow DEF RolloutInv
<1>2. ReleaseInv'
  BY <1>1, NextPreserves DEF RolloutInv
<1>3. ControlTyped' /\ PhaseLeft'
  BY ControlStep DEF RolloutInv, ControlKept
<1>4. NamedWasOpened'
  BY <1>1, NamedKept DEF RolloutInv
<1>5. RestartsElsewhere'
  BY <1>1, RestartReached DEF RolloutInv
<1> QED BY <1>2, <1>3, <1>4, <1>5, WithdrawsStep DEF RolloutInv

\* The invariant of the rollout holds whatever controllers, runs and restarts
\* are lost, for any deployments and releases.
THEOREM RolloutSafe == RolloutSpec => []RolloutInv
  BY RolloutInit0, RolloutStep, PTL DEF RolloutSpec

\* Deployments, controller and edge hold what they may hold.
THEOREM RolloutTypes == RolloutSpec => []RolloutTypeOK
<1>1. RolloutInv => RolloutTypeOK
  <2> SUFFICES ASSUME RolloutInv PROVE RolloutTypeOK
      OBVIOUS
  <2>1. controller.at \in Converging \cup {"idle"}
        /\ (controller.at # "idle" => controller.of \in Deployments)
    BY DEF RolloutInv, ControlTyped, Controllers, NoWork
  <2> QED BY <2>1 DEF RolloutInv, ReleaseInv, ControlTyped, RolloutTypeOK
<1> QED BY <1>1, RolloutSafe, PTL

\* However the controller drives it, dies and resumes, the edge sees nothing but
\* runs of its transaction: what is proved of those holds under every rollout.
THEOREM RolloutImplementsRelease == RolloutSpec => Spec
<1>1. RolloutInit => Init
  BY DEF RolloutInit
<1>2. RolloutInv /\ [RolloutNext]_allVars => [Next]_vars
  BY StepBelow DEF RolloutInv
<1> QED BY <1>1, <1>2, RolloutSafe, PTL DEF RolloutSpec, Spec

\* A deployment is reported as restored only with pointer and container off its
\* release, whatever runs were lost before the withdrawal.
THEOREM RestoredHolds == RolloutSpec => RestoredIsHonest
<1> DEFINE Honest == \A i \in Deployments :
         deployment'[i].status = "restored" /\ deployment[i].status # "restored"
         => /\ pointer # ReleaseOf[i]
            /\ runtime \in {pointer, NoDigest}
<1>1. ASSUME RolloutInv, [RolloutNext]_allVars, NEW i \in Deployments,
             deployment'[i].status = "restored", deployment[i].status # "restored"
      PROVE  pointer # ReleaseOf[i] /\ runtime \in {pointer, NoDigest}
  <2>0. deployment \in [Deployments -> [status : {"queued", "running"} \cup Over, phase : Phases]]
    BY <1>1 DEF RolloutInv, ControlTyped
  <2>1. ASSUME NEW j \in Deployments, NEW phase, deployment' = [deployment EXCEPT ![j].phase = phase]
        PROVE  FALSE
    BY <1>1, <2>0, <2>1
  <2>2. ASSUME controller.at # "idle", NEW status \in Over, Settle(status)
        PROVE  i = x /\ status = "restored"
    <3>1. x \in Deployments /\ deployment' = [deployment EXCEPT ![x].status = status]
      BY <1>1, <2>2, ControllerTyped DEF RolloutInv, Settle
    <3> QED BY <1>1, <2>0, <3>1
  <2>3. ASSUME controller.at # "idle" PROVE x \in Deployments
    BY <1>1, <2>3, ControllerTyped DEF RolloutInv
  <2>4. ASSUME deployment' = deployment PROVE FALSE
    BY <1>1, <2>4
  <2>5. CASE Withdrawn
    <3>1. controller.at = "withdrawing" /\ Idle
          /\ Settle(IF run.step = "ok" THEN "restored" ELSE "failed")
          /\ {"restored", "failed"} \subseteq Over
      BY <2>5 DEF Withdrawn, Over
    <3>2. i = x /\ run.step = "ok"
      BY <2>2, <3>1
    <3> QED BY <1>1, <3>1, <3>2 DEF RolloutInv, WithdrawsItsOwn, Digest
  <2>6. CASE \E j \in Deployments : Take(j)
    BY <1>1, <2>0, <2>6 DEF Take
  <2>7. CASE PhaseFails \/ Fail \/ Complete \/ Interrupt
    <3>1. {"failed", "succeeded", "abandoned"} \subseteq Over
      BY DEF Over
    <3> QED BY <2>2, <2>4, <2>7, <3>1 DEF PhaseFails, Fail, Complete, Interrupt
  <2>8. CASE Finish \/ ReobserveFails
    BY <2>1, <2>3, <2>8 DEF Finish, ReobserveFails
  <2>9. CASE RecordPhase
    <3>1. x \in Deployments
      BY <2>3, <2>9 DEF RecordPhase
    <3>2. deployment' = [deployment EXCEPT ![x].phase = NextPhase(deployment[x].phase)]
      BY <2>0, <2>9, <3>1 DEF RecordPhase
    <3> QED BY <2>1, <3>1, <3>2
  <2>10. CASE \/ StartRun \/ Observe \/ ObserveFails \/ Withdraw \/ Reobserve \/ EdgeStep
              \/ EdgeBreaks \/ Crash \/ EdgeLost \/ UNCHANGED allVars
    BY <2>4, <2>10 DEF StartRun, Observe, ObserveFails, Withdraw, Reobserve, EdgeStep, EdgeBreaks,
                       Crash, EdgeLost, allVars, control
  <2> QED BY <1>1, <2>5, <2>6, <2>7, <2>8, <2>9, <2>10 DEF RolloutNext, ControllerStep
<1>2. RolloutInv /\ [RolloutNext]_allVars => [Honest]_allVars
  BY <1>1
<1> QED BY <1>2, RolloutSafe, PTL DEF RolloutSpec, RestoredIsHonest

-----------------------------------------------------------------------------
(* The edge in one piece.                                                  *)

\* The records that name one release, or none, in both their parts.
Named(d) == [compose |-> d, image |-> d]
Whole == records = Named(pointer) /\ runtime = pointer

\* The steps of an activation past its switch.
Switched == {"compose", "reload", "image", "revert", "bounce"}

\* Where a run has left the edge between two releases.
UnderWay ==
    \/ run.kind = "activate" /\ run.step \in Switched
    \/ run.kind \in Withdrawing /\ run.step \in {"compose", "image", "close", "restart"}
    \/ At({"rescue"}, "restore") /\ journal[run.digest].status # "none"

\* What an activation has changed so far.
SwitchedOn ==
    run.kind = "activate" /\ run.step \in Switched =>
        /\ pointer = run.digest
        /\ run.step \in {"reload", "image"} => records.compose = run.digest
        /\ run.step = "image" => runtime = run.digest

\* Every way back leads to an edge that was in one piece.
SavedWhole ==
    \A d \in Digests : journal[d].status # "none" => journal[d].saved = Named(journal[d].previous)

RestartsWhole == At(Withdrawing, "restart") => records = Named(pointer)

WholeInv == SwitchedOn /\ (clean => SavedWhole /\ (~UnderWay => Whole) /\ RestartsWhole)

\* A step of a run ends it, takes it on, or turns an activation into its rescue.
LEMMA RunMovesOn ==
    ASSUME TypeOK, RunStep \/ Break
    PROVE  /\ ~Idle /\ run.kind \in Kinds /\ run.digest \in Digests /\ run.step \in Steps
           /\ \/ Idle' /\ run'.kind = "none"
              \/ /\ ~Idle' /\ run'.digest = run.digest /\ run'.step \in Steps
                 /\ \/ run'.kind = run.kind
                    \/ run.kind = "activate" /\ run'.kind = "rescue" /\ run'.step = "restore"
<1>1. ~Idle
  BY DEF RunStep, StageTree, StageFiles, Seal, ActivateJournal, ActivateSwitch,
     ActivateCompose, ActivateReload, ActivateImage, RevertCompose, RevertRestart, RestoreNothing,
     RestoreSwitch, RestoreCompose, RestoreImage, RestoreClose, RestoreRestart, Commit, Break,
     At, Idle, Ends
<1>2. run \in [kind : Kinds, digest : Digests, step : Steps]
  BY <1>1 DEF TypeOK, Ended, Idle
<1>3. ASSUME NEW step \in Steps, Goto(step)
      PROVE  ~Idle' /\ run'.digest = run.digest /\ run'.step \in Steps /\ run'.kind = run.kind
  BY <1>2, <1>3, GotoMoves DEF Idle, Ends, Steps
<1>4. ASSUME NEW how \in Ends, End(how) PROVE Idle' /\ run'.kind = "none"
  BY <1>4 DEF End, Ended, Idle
<1>5. ASSUME Rescue
      PROVE  ~Idle' /\ run'.digest = run.digest /\ run'.step \in Steps
             /\ run'.kind = "rescue" /\ run'.step = "restore"
  BY <1>2, <1>5 DEF Rescue, Idle, Ends, Steps
<1>6. {"files", "seal", "switch", "compose", "reload", "image", "bounce", "close", "restart", "revert"}
        \subseteq Steps
      /\ {"ok", "failed"} \subseteq Ends
  BY DEF Steps, Ends
<1>7. \/ \E how \in Ends : End(how)
      \/ \E step \in Steps : Goto(step)
      \/ Rescue /\ run.kind = "activate"
  <2>1. CASE StageTree \/ StageFiles \/ Seal \/ ActivateJournal \/ ActivateSwitch
           \/ ActivateCompose \/ ActivateReload \/ ActivateImage
    BY <1>6, <2>1 DEF StageTree, StageFiles, Seal, ActivateJournal, ActivateSwitch,
               ActivateCompose, ActivateReload, ActivateImage
  <2>2. CASE RevertCompose \/ RevertRestart
    BY <1>6, <2>2 DEF RevertCompose, RevertRestart, At
  <2>3. CASE RestoreNothing \/ RestoreSwitch \/ RestoreCompose \/ RestoreImage \/ RestoreClose
    BY <1>6, <2>3 DEF RestoreNothing, RestoreSwitch, RestoreCompose, RestoreImage, RestoreClose
  <2>4. CASE RestoreRestart \/ Commit
    BY <1>6, <2>4 DEF RestoreRestart, Commit
  <2>5. CASE Break
    BY <1>6, <2>5 DEF Break, At
  <2> QED BY <2>1, <2>2, <2>3, <2>4, <2>5 DEF RunStep
<1> QED BY <1>1, <1>2, <1>3, <1>4, <1>5, <1>7

\* An activation changes the edge in its order.
LEMMA SwitchedKept ==
    ASSUME TypeOK, SwitchedOn, [Next]_vars
    PROVE  SwitchedOn'
<1> SUFFICES ASSUME run'.kind = "activate", run'.step \in Switched
             PROVE  /\ pointer' = run'.digest
                    /\ run'.step \in {"reload", "image"} => records'.compose = run'.digest
                    /\ run'.step = "image" => runtime' = run'.digest
    BY DEF SwitchedOn, Switched
<1>1. ASSUME NEW kind \in Kinds \ {"rescue"}, NEW d \in Digests, Begin(kind, d)
      PROVE  FALSE
  <2>1. run' = [kind |-> kind, digest |-> d, step |-> First(kind)]
    BY <1>1 DEF Begin
  <2>2. First(kind) \notin Switched
    BY DEF First, Switched, Kinds
  <2> QED BY <2>1, <2>2
<1>2. ASSUME NEW how, End(how) PROVE FALSE
  BY <1>2 DEF End, Ended
<1>3. CASE RunStep \/ Break
  <2>1. /\ run.kind = "activate" /\ run'.digest = run.digest /\ run.kind \in Kinds
        /\ run.digest \in Digests /\ ~Idle' /\ ~Idle
    BY <1>3, RunMovesOn DEF Kinds
  <2>2. \A step \in Steps : Goto(step) => run'.step = step
    BY <2>1, GotoMoves
  <2>3. ~Rescue
    BY <2>1, RescueMoves DEF Rescue
  <2>4. CASE ActivateJournal
    <3>1. AlreadyActive(run.digest) /\ Goto("compose") /\ pointer' = pointer
      BY <2>2, <2>4 DEF ActivateJournal, Steps, Switched
    <3> QED BY <2>1, <2>2, <3>1 DEF AlreadyActive, Steps
  <2>5. CASE ActivateSwitch
    BY <2>1, <2>2, <2>5 DEF ActivateSwitch, Steps
  <2>6. CASE ActivateCompose
    <3>1. records.compose = records.compose /\ records \in Records
      BY DEF TypeOK
    <3>2. records' = [records EXCEPT !.compose = run.digest] /\ Goto("reload") /\ pointer' = pointer
          /\ run.step = "compose"
      BY <2>6 DEF ActivateCompose, At
    <3>3. records'.compose = run.digest
      BY <3>1, <3>2 DEF Records
    <3> QED BY <2>1, <2>2, <3>2, <3>3 DEF SwitchedOn, Switched, Steps
  <2>7. CASE ActivateReload
    BY <2>1, <2>2, <2>7 DEF ActivateReload, SwitchedOn, Switched, Steps, At
  <2>8. CASE RevertCompose
    BY <2>1, <2>2, <2>3, <2>8 DEF RevertCompose, SwitchedOn, Switched, Steps, At
  <2>9. CASE Break
    BY <2>1, <2>2, <2>3, <2>9 DEF Break, SwitchedOn, Switched, Steps, At, disk
  <2>10. CASE ActivateImage \/ RevertRestart
    BY <1>2, <2>3, <2>10 DEF ActivateImage, RevertRestart
  <2>11. ~(StageTree \/ StageFiles \/ Seal \/ RestoreNothing \/ RestoreSwitch \/ RestoreCompose
           \/ RestoreImage \/ RestoreClose \/ RestoreRestart \/ Commit)
    BY <2>1 DEF StageTree, StageFiles, Seal, RestoreNothing, RestoreSwitch, RestoreCompose,
       RestoreImage, RestoreClose, RestoreRestart, Commit, At, Withdrawing
  <2> QED BY <1>3, <2>4, <2>5, <2>6, <2>7, <2>8, <2>9, <2>10, <2>11 DEF RunStep
<1>4. CASE UNCHANGED vars
  BY <1>4 DEF vars, SwitchedOn
<1>5. CASE Reboot
  <2>1. Idle /\ run' = run
    BY <1>2, <1>5 DEF Reboot
  <2> QED BY <2>1 DEF Idle, Ends, Switched
<1> QED BY <1>1, <1>2, <1>3, <1>4, <1>5 DEF Next, Lose

\* As long as nothing is lost but between runs, and no withdrawal breaks off.
LEMMA CleanStep ==
    ASSUME ControlTyped, PhaseLeft, [RolloutNext]_allVars, clean'
    PROVE  /\ clean
           /\ \/ \E kind \in Kinds \ {"rescue"}, d \in Digests : Begin(kind, d)
              \/ RunStep
              \/ Break /\ run.kind \notin Withdrawing
              \/ Reboot /\ Idle
              \/ UNCHANGED vars
<1>0. clean \in BOOLEAN
  BY DEF ControlTyped
<1>1. CASE EdgeStep \/ EdgeBreaks
  BY <1>0, <1>1 DEF EdgeStep, EdgeBreaks, control
<1>2. CASE Crash \/ Interrupt
  BY <1>0, <1>2 DEF Crash, Interrupt, vars, disk
<1>3. CASE EdgeLost
  BY <1>0, <1>3 DEF EdgeLost, Lose
<1>4. CASE ControllerStep
  <2>1. clean' = clean
    BY <1>4 DEF ControllerStep, Take, StartRun, Observe, ObserveFails, RecordPhase, PhaseFails,
       Withdraw, Withdrawn, Finish, Reobserve, ReobserveFails, Fail, Complete
  <2>2. CASE StartRun \/ Observe \/ Withdraw
    <3>1. Digest \in Digests
      BY <2>2, ControllerTyped DEF StartRun, Observe, Withdraw
    <3>2. PICK kind \in Kinds \ {"rescue"} : Begin(kind, Digest)
      BY <2>2 DEF StartRun, Observe, Withdraw, NextPhase, Kinds
    <3> QED BY <2>1, <3>1, <3>2
  <2>3. ~(StartRun \/ Observe \/ Withdraw) => UNCHANGED vars
    BY <1>4 DEF ControllerStep, Take, ObserveFails, RecordPhase, PhaseFails,
       Withdrawn, Finish, Reobserve, ReobserveFails, Fail, Complete
  <2> QED BY <2>1, <2>2, <2>3
<1>5. CASE UNCHANGED allVars
  BY <1>5 DEF allVars, control
<1> QED BY <1>1, <1>2, <1>3, <1>4, <1>5 DEF RolloutNext

\* Every journal opened saves an edge in one piece, and keeps what it saved.
LEMMA SavedKept ==
    ASSUME ReleaseInv, SavedWhole, ~UnderWay => Whole, [Next]_vars
    PROVE  SavedWhole'
<1> SUFFICES ASSUME NEW d \in Digests, journal'[d].status # "none"
             PROVE  journal'[d].saved = Named(journal'[d].previous)
    BY DEF SavedWhole, Named
<1>0. TypeOK /\ journal[d] \in [status : JournalStatuses, previous : Maybe, saved : Records]
  BY DEF ReleaseInv, TypeOK
<1>1. CASE journal'[d] = journal[d]
  BY <1>1 DEF SavedWhole
<1>2. CASE ActivateJournal /\ journal'[d] = Opened(d)
  <2>1. Whole
    BY <1>2 DEF ActivateJournal, UnderWay, Switched, At, Withdrawing
  <2> QED BY <1>2, <2>1 DEF Opened, Whole
<1>3. CASE RestoreClose /\ d = run.digest /\ journal'[d] = [journal[d] EXCEPT !.status = "rolled_back"]
  <2>1. journal[d].status # "none"
    BY <1>3 DEF RestoreClose, ReleaseInv, WithdrawalUnderWay
  <2> QED BY <1>0, <1>3, <2>1 DEF SavedWhole
<1>4. CASE Commit /\ d = run.digest /\ journal'[d] = [journal[d] EXCEPT !.status = "committed"]
  <2>1. journal[d].status # "none"
    BY <1>4 DEF Commit
  <2> QED BY <1>0, <1>4, <2>1 DEF SavedWhole
<1> QED BY <1>0, <1>1, <1>2, <1>3, <1>4, JournalMoves

\* A withdrawal comes to its restart with the records of the release it restores.
LEMMA RestartWhole ==
    ASSUME ReleaseInv, SavedWhole, RestartsWhole, ~UnderWay => Whole, [Next]_vars
    PROVE  RestartsWhole'
<1> SUFFICES ASSUME At(Withdrawing, "restart")' PROVE records' = Named(pointer')
    BY DEF RestartsWhole, Named
<1>0. TypeOK
  BY DEF ReleaseInv
<1>1. CASE UNCHANGED <<run, pointer, records>>
  BY <1>1 DEF RestartsWhole, At
<1>2. CASE /\ RestoreNothing \/ RestoreClose
           /\ run.kind \in Withdrawing /\ run.digest \in Digests
           /\ run'.digest = run.digest /\ UNCHANGED <<pointer, records>>
  <2>1. CASE RestoreNothing
    <3>1. Whole
      BY <2>1 DEF RestoreNothing, UnderWay, At, Withdrawing
    <3> QED BY <1>2, <3>1 DEF Whole
  <2>2. CASE RestoreClose
    <3>1. /\ journal[run.digest].status # "none"
          /\ pointer = journal[run.digest].previous
          /\ records.compose = journal[run.digest].saved.compose
          /\ records.image = journal[run.digest].saved.image
      BY <2>2 DEF RestoreClose, ReleaseInv, WithdrawalUnderWay
    <3>2. journal[run.digest].saved = Named(pointer) /\ records \in Records
      BY <1>0, <1>2, <3>1 DEF SavedWhole, TypeOK
    <3> QED BY <1>2, <3>1, <3>2 DEF Named, Records
  <2> QED BY <1>2, <2>1, <2>2
<1> QED BY <1>0, <1>1, <1>2, RestartComes

\* Where a run that is not cut off starts, and where it ends, the edge is whole.
LEMMA WholeKept ==
    ASSUME ReleaseInv, NamedWasOpened, SwitchedOn, RestartsWhole, ~UnderWay => Whole,
           \/ \E kind \in Kinds \ {"rescue"}, d \in Digests : Begin(kind, d)
           \/ RunStep
           \/ Break /\ run.kind \notin Withdrawing
           \/ Reboot /\ Idle
           \/ UNCHANGED vars
    PROVE  ~UnderWay' => Whole'
<1>0. TypeOK /\ records \in Records
  BY DEF ReleaseInv, TypeOK
<1>1. Idle => ~UnderWay
  BY DEF Idle, Ends, UnderWay, Switched, At
<1>2. UNCHANGED <<pointer, records, runtime>> /\ Whole => Whole'
  BY DEF Whole
<1>3. CASE \E kind \in Kinds \ {"rescue"}, d \in Digests : Begin(kind, d)
  BY <1>1, <1>2, <1>3 DEF Begin, disk
<1>4. CASE Reboot /\ Idle
  BY <1>1, <1>4 DEF Reboot, Whole
<1>5. CASE UNCHANGED vars
  BY <1>5 DEF vars, UnderWay, Whole, At
<1>6. ASSUME RunStep \/ Break
      PROVE  /\ run.kind \in Kinds /\ run.digest \in Digests
             /\ \A step \in Steps : Goto(step) => run'.step = step /\ run'.kind = run.kind
             /\ Rescue /\ run.kind = "activate"
                => run'.step = "restore" /\ run'.kind = "rescue" /\ run'.digest = run.digest
  <2>1. run.kind \in Kinds /\ run.digest \in Digests
    BY <1>0, <1>6, RunMovesOn
  <2>2. run \in [kind : Kinds, digest : Digests, step : Steps]
    BY <1>0, <2>1 DEF TypeOK, Ended, Kinds
  <2> QED BY <1>0, <2>1, <2>2, GotoMoves DEF Rescue
<1>7. ASSUME run.kind = "activate", run.step \in Switched, run.digest \in Digests, Rescue,
             RunStep \/ Break, journal' = journal
      PROVE  UnderWay'
  <2>1. journal[run.digest].status # "none"
    BY <1>7, DigestAssumption DEF SwitchedOn, NamedWasOpened
  <2> QED BY <1>6, <1>7, <2>1 DEF UnderWay, At
<1>8. CASE Break /\ run.kind \notin Withdrawing
  <2>1. UNCHANGED disk
    BY <1>8 DEF Break
  <2>2. CASE ~UnderWay
    BY <1>2, <2>1, <2>2 DEF disk
  <2>3. CASE UnderWay
    <3>1. run.kind = "activate" /\ run.step \in Switched /\ run.digest \in Digests
      BY <1>6, <1>8, <2>3 DEF UnderWay, At, Withdrawing
    <3>2. Rescue \/ Goto("revert")
      BY <1>8, <3>1 DEF Break, At
    <3> QED BY <1>6, <1>7, <1>8, <2>1, <3>1, <3>2 DEF UnderWay, Switched, Steps, disk
  <2> QED BY <2>2, <2>3
<1>9. CASE StageTree \/ StageFiles \/ Seal \/ ActivateJournal \/ Commit
  <2>1. ~UnderWay /\ UNCHANGED <<pointer, records, runtime>>
    BY <1>9 DEF StageTree, StageFiles, Seal, ActivateJournal, Commit, UnderWay, Switched, At, Withdrawing
  <2> QED BY <1>2, <2>1
<1>10. CASE ActivateSwitch \/ ActivateCompose \/ ActivateReload
  <2>1. run.kind = "activate" /\ (Goto("compose") \/ Goto("reload") \/ Goto("image"))
    BY <1>10 DEF ActivateSwitch, ActivateCompose, ActivateReload, At
  <2> QED BY <1>6, <1>10, <2>1 DEF RunStep, UnderWay, Switched, Steps
<1>11. CASE ActivateImage
  <2>1. pointer = run.digest /\ records.compose = run.digest /\ runtime = run.digest
    BY <1>11 DEF ActivateImage, SwitchedOn, Switched, At
  <2>2. records' = [records EXCEPT !.image = run.digest] /\ UNCHANGED <<pointer, runtime>>
    BY <1>11 DEF ActivateImage
  <2> QED BY <1>0, <2>1, <2>2 DEF Whole, Named, Records
<1>12. CASE RevertCompose \/ RevertRestart
  <2>1. run.kind = "activate" /\ run.step \in Switched /\ journal' = journal
        /\ (Goto("bounce") \/ Rescue)
    BY <1>12 DEF RevertCompose, RevertRestart, At, Switched
  <2> QED BY <1>6, <1>7, <1>12, <2>1 DEF RunStep, UnderWay, Switched, Steps
<1>13. CASE RestoreNothing \/ RestoreSwitch \/ RestoreCompose \/ RestoreImage \/ RestoreClose
  <2>1. run.kind \in Withdrawing
        /\ (Goto("restart") \/ Goto("compose") \/ Goto("image") \/ Goto("close"))
    BY <1>13 DEF RestoreNothing, RestoreSwitch, RestoreCompose, RestoreImage, RestoreClose, At
  <2> QED BY <1>6, <1>13, <2>1 DEF RunStep, UnderWay, Steps
<1>14. CASE RestoreRestart
  <2>1. records = Named(pointer) /\ UNCHANGED <<pointer, records>>
        /\ runtime' = IF records.compose = NoDigest THEN NoDigest ELSE pointer
    BY <1>14 DEF RestoreRestart, RestartsWhole
  <2> QED BY <2>1 DEF Whole, Named
<1> QED BY <1>3, <1>4, <1>5, <1>8, <1>9, <1>10, <1>11, <1>12, <1>13, <1>14 DEF RunStep

LEMMA WholeInit == RolloutInit => WholeInv
  BY DEF RolloutInit, Init, WholeInv, SwitchedOn, SavedWhole, RestartsWhole, UnderWay, Whole,
     Named, NoRecords, NoJournal, Ended, At, Withdrawing

LEMMA WholeStep == RolloutInv /\ WholeInv /\ [RolloutNext]_allVars => WholeInv'
<1> SUFFICES ASSUME RolloutInv, WholeInv, [RolloutNext]_allVars PROVE WholeInv'
    OBVIOUS
<1>0. ReleaseInv /\ TypeOK /\ ControlTyped /\ PhaseLeft /\ NamedWasOpened /\ SwitchedOn /\ [Next]_vars
  BY StepBelow DEF RolloutInv, ReleaseInv, WholeInv
<1>1. SwitchedOn'
  BY <1>0, SwitchedKept
<1>2. ASSUME clean' PROVE SavedWhole' /\ (~UnderWay' => Whole') /\ RestartsWhole'
  <2>1. clean
    BY <1>0, <1>2, CleanStep
  <2>2. SavedWhole /\ (~UnderWay => Whole) /\ RestartsWhole
    BY <2>1 DEF WholeInv
  <2>3. ~UnderWay' => Whole'
    BY <1>0, <1>2, <2>2, CleanStep, WholeKept
  <2> QED BY <1>0, <2>2, <2>3, SavedKept, RestartWhole
<1> QED BY <1>1, <1>2 DEF WholeInv

\* As long as no run was cut off in its middle and no withdrawal broke off, the
\* edge is in one piece wherever a run starts or has ended, and every way back
\* leads to an edge that was, whatever controllers died between their runs.
THEOREM RolloutWhole == RolloutSpec => []WholeInv
<1>1. RolloutInv /\ RolloutInv' /\ WholeInv /\ [RolloutNext]_allVars => WholeInv'
  BY WholeStep
<1> QED BY <1>1, WholeInit, RolloutSafe, PTL DEF RolloutSpec

\* What is committed is the release the edge holds in every part.
THEOREM CommittedWhole == RolloutSpec => CommittedIsWhole
<1> DEFINE Holds == \A d \in Digests :
        /\ clean
        /\ journal'[d].status = "committed"
        /\ journal[d].status # "committed"
        => Edge = [pointer |-> d, records |-> [compose |-> d, image |-> d], runtime |-> d]
<1>1. ASSUME RolloutInv, WholeInv, [RolloutNext]_allVars, NEW d \in Digests, clean,
             journal'[d].status = "committed", journal[d].status # "committed"
      PROVE  Edge = [pointer |-> d, records |-> [compose |-> d, image |-> d], runtime |-> d]
  <2>0. TypeOK /\ [Next]_vars /\ (~UnderWay => Whole)
    BY <1>1, StepBelow DEF RolloutInv, ReleaseInv, WholeInv
  <2>1. journal[d] \in [status : JournalStatuses, previous : Maybe, saved : Records]
    BY <2>0 DEF TypeOK
  <2>2. d = run.digest /\ Commit
    <3>1. Opened(d).status # "committed" /\ [journal[d] EXCEPT !.status = "rolled_back"].status # "committed"
      BY <2>1 DEF Opened
    <3> QED BY <1>1, <2>0, <3>1, JournalMoves
  <2>3. pointer = d /\ Whole
    BY <2>0, <2>2 DEF Commit, UnderWay, At, Withdrawing
  <2> QED BY <2>3 DEF Edge, Whole, Named
<1>2. RolloutInv /\ WholeInv /\ [RolloutNext]_allVars => [Holds]_allVars
  BY <1>1
<1> QED BY <1>2, RolloutSafe, RolloutWhole, PTL DEF RolloutSpec, CommittedIsWhole

-----------------------------------------------------------------------------
(* The way back of the deployment at hand.                                 *)

Undisturbed == clean /\ losses = 0

\* The deployment at hand has committed.
Through ==
    \/ controller.at \in {"finish", "complete"}
    \/ controller.at = "run" /\ deployment[x].phase = "activate" /\ run.step = "ok"

\* Deployments come one after the other, none taken up again.
OneByOne ==
    /\ controller.at \notin {"reobserve", "failing"}
    /\ controller.at # "idle" => deployment[x].status = "running"
    /\ \A i \in Deployments :
         /\ deployment[i].status = "queued" => deployment[i].phase = "none"
         /\ deployment[i].status = "running" => controller.at # "idle" /\ i = x

\* A run is of the deployment at hand and of its phase.
RunsItsOwn ==
    ~Idle => /\ run.digest = Digest
             /\ \/ controller.at = "run" /\ deployment[x].phase = "none" /\ run.kind = "stage"
                \/ /\ controller.at = "run" /\ deployment[x].phase = "stage"
                   /\ run.kind \in {"activate", "rescue"}
                \/ controller.at = "run" /\ deployment[x].phase = "activate" /\ run.kind = "commit"
                \/ controller.at = "withdrawing" /\ run.kind = "rollback"

\* Only the deployment at hand has a transaction open, once it activates.
OpenIsAtHand ==
    \A d \in Digests : journal[d].status = "pending" =>
        /\ controller.at # "idle" /\ d = Digest
        /\ deployment[x].phase \in {"stage", "activate"}
        /\ controller.at = "phase" => deployment[x].phase = "activate"

\* What the pointer names is open or committed.
PointerDecided == pointer # NoDigest => journal[pointer].status \in {"pending", "committed"}

\* The deployment at hand found a committed release, or none, and either has not
\* left it or has it as its way back.
WayBack ==
    controller.at # "idle" =>
        \E p \in Maybe :
            /\ before = [pointer |-> p, records |-> Named(p), runtime |-> p]
            /\ p # NoDigest => journal[p].status = "committed"
            /\ Through => journal[Digest].status = "committed"
            /\ ~Through /\ journal[Digest].status = "pending" => journal[Digest].previous = p
            /\ ~Through /\ journal[Digest].status # "pending" => pointer = p

\* A withdrawal that is through has closed its transaction.
ClosesWhatItOpened ==
    /\ At(Withdrawing, "restart") => journal[run.digest].status # "pending"
    /\ controller.at = "withdrawing" /\ Idle => run.step = "ok" /\ journal[Digest].status # "pending"

Trace == /\ OneByOne /\ RunsItsOwn /\ OpenIsAtHand /\ PointerDecided
         /\ WayBack /\ ClosesWhatItOpened
TraceInv == Undisturbed => Trace

\* Nothing moves while the controller goes on to its next stand.
LEMMA TraceStands ==
    ASSUME RolloutInv, Trace, controller.at # "idle",
           NEW at \in Converging \ {"reobserve", "failing"}, Stand(at),
           UNCHANGED <<disk, before>>,
           \A i \in Deployments : /\ deployment'[i].status = deployment[i].status
                                  /\ i # x => deployment'[i].phase = deployment[i].phase,
           RunsItsOwn', ~At(Withdrawing, "restart")', Idle' => at # "withdrawing",
           journal[Digest].status = "pending" => /\ deployment'[x].phase \in {"stage", "activate"}
                                                 /\ at = "phase" => deployment'[x].phase = "activate",
           Through => Through', Through' => Through
    PROVE  Trace'
<1>1. /\ controller'.at = at /\ x' = x /\ x \in Deployments /\ at # "idle"
      /\ UNCHANGED <<journal, pointer, before>>
  BY StandTyped, ControllerTyped DEF RolloutInv, disk, Converging
<1>2. Digest' = Digest
  BY <1>1 DEF Digest
<1>3. OneByOne'
  BY <1>1 DEF OneByOne, Trace
<1>4. OpenIsAtHand'
  BY <1>1, <1>2 DEF OpenIsAtHand, Trace
<1>5. PointerDecided'
  BY <1>1 DEF PointerDecided, Trace
<1>6. WayBack'
  <2>1. PICK p \in Maybe :
            /\ before = [pointer |-> p, records |-> Named(p), runtime |-> p]
            /\ p # NoDigest => journal[p].status = "committed"
            /\ Through => journal[Digest].status = "committed"
            /\ ~Through /\ journal[Digest].status = "pending" => journal[Digest].previous = p
            /\ ~Through /\ journal[Digest].status # "pending" => pointer = p
    BY DEF WayBack, Trace
  <2>2. Maybe' = Maybe /\ Named(p)' = Named(p)
    BY DEF Maybe, Named
  <2> QED BY <1>1, <1>2, <2>1, <2>2 DEF WayBack
<1>7. ClosesWhatItOpened'
  BY <1>1 DEF ClosesWhatItOpened
<1> QED BY <1>3, <1>4, <1>5, <1>6, <1>7 DEF Trace

\* A deployment is over with no transaction open.
LEMMA TraceSettles ==
    ASSUME RolloutInv, Trace, controller.at # "idle", NEW status \in Over, Settle(status),
           UNCHANGED vars, Idle, journal[Digest].status # "pending"
    PROVE  Trace'
<1>1. /\ controller'.at = "idle" /\ x \in Deployments /\ UNCHANGED <<journal, pointer, run>>
      /\ deployment' = [deployment EXCEPT ![x].status = status]
      /\ deployment \in [Deployments -> [status : {"queued", "running"} \cup Over, phase : Phases]]
  BY SettleTyped, ControllerTyped DEF RolloutInv, ControlTyped, Settle, vars
<1>2. OneByOne'
  <2>1. \A i \in Deployments : i # x => deployment'[i] = deployment[i]
    BY <1>1
  <2>2. deployment'[x].status \notin {"queued", "running"}
    BY <1>1 DEF Over
  <2> QED BY <1>1, <2>1, <2>2 DEF OneByOne, Trace
<1>3. RunsItsOwn' /\ PointerDecided' /\ WayBack' /\ ClosesWhatItOpened'
  BY <1>1 DEF RunsItsOwn, PointerDecided, WayBack, ClosesWhatItOpened, Trace, Idle, At, Ends
<1>4. OpenIsAtHand'
  BY <1>1 DEF OpenIsAtHand, Trace
<1> QED BY <1>2, <1>3, <1>4 DEF Trace

\* A deployment is taken up with no transaction open, on a committed edge.
LEMMA TraceTakes ==
    ASSUME RolloutInv, Trace, ~UnderWay => Whole, NEW i \in Deployments, Take(i)
    PROVE  Trace'
<1>1. /\ deployment \in [Deployments -> [status : {"queued", "running"} \cup Over, phase : Phases]]
      /\ pointer \in Maybe
  BY DEF RolloutInv, ControlTyped, ReleaseInv, TypeOK
<1>2. controller.at = "idle" /\ Idle /\ UNCHANGED vars /\ before' = Edge
      /\ deployment' = [deployment EXCEPT ![i].status = "running"]
  BY DEF Take
<1>3. deployment[i].status = "queued" /\ deployment[i].phase = "none"
  BY <1>2 DEF Take, OneByOne, Trace
<1>4. controller' = [of |-> i, at |-> "phase"]
  BY <1>3 DEF Take
<1>5. x' = i /\ controller'.at = "phase" /\ Idle'
  BY <1>2, <1>4 DEF x, vars, Idle
<1>6. OneByOne'
  <2>1. \A j \in Deployments : j # i => deployment'[j] = deployment[j]
    BY <1>1, <1>2
  <2>2. deployment'[i].status = "running"
    BY <1>1, <1>2
  <2> QED BY <1>2, <1>5, <2>1, <2>2 DEF OneByOne, Trace
<1>7. RunsItsOwn' /\ PointerDecided' /\ ClosesWhatItOpened'
  BY <1>2, <1>5 DEF RunsItsOwn, PointerDecided, ClosesWhatItOpened, Trace, vars, Idle, At, Ends
<1>8. \A d \in Digests : journal[d].status # "pending"
  BY <1>2 DEF OpenIsAtHand, Trace
<1>9. OpenIsAtHand'
  BY <1>2, <1>8 DEF OpenIsAtHand, vars
<1>10. WayBack'
  <2>1. Whole
    BY <1>2 DEF UnderWay, Idle, Ends, Switched, At
  <2>2. before' = [pointer |-> pointer, records |-> Named(pointer), runtime |-> pointer]
    BY <1>2, <2>1 DEF Edge, Whole
  <2>3. pointer # NoDigest => journal[pointer].status = "committed"
    BY <1>1, <1>8 DEF PointerDecided, Trace, Maybe
  <2>4. ~Through' /\ Digest' \in Digests
    BY <1>5, RolloutAssumption DEF Through, Digest
  <2>5. journal'[Digest'].status # "pending" /\ pointer' = pointer /\ journal' = journal
    BY <1>2, <1>8, <2>4 DEF vars
  <2>6. Maybe' = Maybe /\ Named(pointer)' = Named(pointer)
    BY <2>5 DEF Maybe, Named
  <2> QED BY <1>1, <2>2, <2>3, <2>4, <2>5, <2>6 DEF WayBack
<1> QED BY <1>6, <1>7, <1>9, <1>10 DEF Trace

\* Of the controller's steps, only these are left when none was lost.
LEMMA TraceControls ==
    ASSUME RolloutInv, Trace, ~UnderWay => Whole, ControllerStep
    PROVE  Trace'
<1>0. /\ ControlTyped /\ PhaseLeft /\ TypeOK
      /\ deployment \in [Deployments -> [status : {"queued", "running"} \cup Over, phase : Phases]]
      /\ OneByOne /\ RunsItsOwn /\ OpenIsAtHand /\ WayBack /\ ClosesWhatItOpened
  BY DEF RolloutInv, ReleaseInv, ControlTyped, Trace
<1>1. ASSUME NEW at \in Converging, controller.at # "idle", Stand(at)
      PROVE  controller'.at = at /\ x' = x /\ Digest' = Digest /\ x \in Deployments /\ Digest \in Digests
  BY <1>0, <1>1, StandTyped, ControllerTyped DEF Digest
<1>2. controller.at \in {"phase", "withdraw", "finish", "complete"} => Idle
  BY <1>0 DEF RunsItsOwn
<1>3. Idle => ~At(Withdrawing, "restart")
  BY DEF Idle, Ends, At
<1>4. {"run", "withdraw", "withdrawing", "finish", "phase", "complete"}
        \subseteq Converging \ {"reobserve", "failing"}
      /\ {"failed", "restored", "succeeded"} \subseteq Over
  BY DEF Converging, Over
<1>5. CASE \E i \in Deployments : Take(i)
  BY <1>5, TraceTakes
<1>6. CASE StartRun
  <2>1. /\ controller.at = "phase" /\ deployment[x].phase \in {"none", "stage"} /\ Stand("run")
        /\ UNCHANGED <<disk, before, deployment>>
        /\ run' = [kind |-> NextPhase(deployment[x].phase), digest |-> Digest,
                   step |-> First(NextPhase(deployment[x].phase))]
    BY <1>6 DEF StartRun, Begin
  <2>2. controller'.at = "run" /\ x' = x /\ Digest' = Digest /\ Digest \in Digests
    BY <1>1, <1>4, <2>1
  <2>3. journal[Digest].status # "pending"
    BY <1>0, <2>1, <2>2 DEF OpenIsAtHand
  <2>4. /\ run'.digest = Digest /\ run'.step \in {"tree", "journal"}
        /\ \/ deployment[x].phase = "none" /\ run'.kind = "stage"
           \/ deployment[x].phase = "stage" /\ run'.kind = "activate"
    BY <2>1 DEF NextPhase, First
  <2>5. RunsItsOwn' /\ ~At(Withdrawing, "restart")' /\ ~Through /\ ~Through'
    BY <2>1, <2>2, <2>4 DEF RunsItsOwn, At, Through
  <2> QED BY <1>4, <2>1, <2>3, <2>5, TraceStands
<1>7. CASE Observe
  <2>1. /\ controller.at = "phase" /\ deployment[x].phase = "activate" /\ Stand("run")
        /\ UNCHANGED <<disk, before, deployment>>
        /\ run' = [kind |-> "commit", digest |-> Digest, step |-> "commit"]
    BY <1>7 DEF Observe, Begin, First
  <2>2. controller'.at = "run" /\ x' = x /\ Digest' = Digest
    BY <1>1, <1>4, <2>1
  <2>3. RunsItsOwn' /\ ~At(Withdrawing, "restart")' /\ ~Through /\ ~Through'
    BY <2>1, <2>2 DEF RunsItsOwn, At, Through
  <2> QED BY <1>4, <2>1, <2>3, TraceStands
<1>8. CASE ObserveFails
  <2>1. /\ controller.at = "phase" /\ deployment[x].phase = "activate" /\ Stand("withdraw")
        /\ UNCHANGED <<vars, before, deployment>>
    BY <1>8 DEF ObserveFails
  <2>2. controller'.at = "withdraw" /\ x' = x
    BY <1>1, <1>4, <2>1
  <2>3. Idle' /\ run' = run
    BY <1>2, <2>1 DEF vars, Idle
  <2>4. RunsItsOwn' /\ ~At(Withdrawing, "restart")' /\ ~Through /\ ~Through'
    BY <2>1, <2>2, <2>3 DEF RunsItsOwn, At, Through, Idle, Ends
  <2> QED BY <1>4, <2>1, <2>4, TraceStands DEF vars, disk
<1>9. CASE RecordPhase
  <2> DEFINE p == deployment[x].phase
             at == IF NextPhase(p) = "verify" THEN "finish" ELSE "phase"
  <2>1. controller.at = "run" /\ Idle /\ run.step = "ok" /\ x \in Deployments /\ Digest \in Digests
        /\ Stand(at) /\ UNCHANGED <<vars, before>>
    BY <1>0, <1>9, ControllerTyped DEF RecordPhase
  <2>2. p \in {"none", "stage", "activate"}
    BY <1>0, <2>1 DEF PhaseLeft
  <2>3. deployment' = [deployment EXCEPT ![x].phase = NextPhase(p)]
    BY <1>0, <1>9, <2>1 DEF RecordPhase
  <2>4. \A i \in Deployments : /\ deployment'[i].status = deployment[i].status
                               /\ i # x => deployment'[i].phase = deployment[i].phase
    BY <1>0, <2>1, <2>3
  <2>5. deployment'[x].phase = NextPhase(p)
    BY <1>0, <2>1, <2>3
  <2>6. \/ p = "none" /\ NextPhase(p) = "stage" /\ at = "phase"
        \/ p = "stage" /\ NextPhase(p) = "activate" /\ at = "phase"
        \/ p = "activate" /\ NextPhase(p) = "verify" /\ at = "finish"
    BY <2>2 DEF NextPhase
  <2>7. journal[Digest].status = "pending" => p = "stage"
    <3>1. p = "activate" => journal[Digest].status = "committed"
      BY <1>0, <2>1 DEF WayBack, Through
    <3> QED BY <1>0, <2>1, <2>2, <3>1 DEF OpenIsAtHand
  <2> HIDE DEF at
  <2>8. at \in {"phase", "finish"} /\ at \in Converging \ {"reobserve", "failing"}
    BY <1>4, <2>6
  <2>9. controller'.at = at /\ x' = x
    BY <1>1, <2>1, <2>8
  <2>10. Idle' /\ run' = run
    BY <2>1 DEF vars, Idle
  <2>11. RunsItsOwn' /\ ~At(Withdrawing, "restart")'
    BY <2>10 DEF RunsItsOwn, At, Idle, Ends
  <2>12. (Through => Through') /\ (Through' => Through)
    BY <2>1, <2>6, <2>8, <2>9 DEF Through
  <2>13. journal[Digest].status = "pending" => /\ deployment'[x].phase \in {"stage", "activate"}
                                               /\ at = "phase" => deployment'[x].phase = "activate"
    BY <2>5, <2>6, <2>7
  <2>14. UNCHANGED <<disk, before>> /\ controller.at # "idle" /\ (Idle' => at # "withdrawing")
    BY <2>1, <2>8 DEF vars, disk
  <2> HIDE DEF p
  <2> QED BY <2>1, <2>4, <2>8, <2>11, <2>12, <2>13, <2>14, TraceStands
<1>10. CASE PhaseFails
  <2>1. controller.at = "run" /\ Idle /\ run.step # "ok" /\ UNCHANGED <<vars, before>>
        /\ Digest \in Digests
    BY <1>0, <1>10, ControllerTyped DEF PhaseFails
  <2>2. CASE deployment[x].phase = "none"
    <3>1. journal[Digest].status # "pending" /\ Settle("failed")
      BY <1>0, <1>10, <2>1, <2>2 DEF OpenIsAtHand, PhaseFails
    <3> QED BY <1>4, <2>1, <3>1, TraceSettles
  <2>3. CASE deployment[x].phase # "none"
    <3>1. Stand("withdraw") /\ deployment' = deployment
      BY <1>10, <2>3 DEF PhaseFails
    <3>2. controller'.at = "withdraw" /\ x' = x
      BY <1>1, <1>4, <2>1, <3>1
    <3>3. Idle' /\ run' = run
      BY <2>1 DEF vars, Idle
    <3>4. RunsItsOwn' /\ ~At(Withdrawing, "restart")' /\ ~Through /\ ~Through'
      BY <2>1, <3>2, <3>3 DEF RunsItsOwn, At, Through, Idle, Ends
    <3>5. journal[Digest].status = "pending" => deployment'[x].phase \in {"stage", "activate"}
      BY <1>0, <2>1, <3>1 DEF OpenIsAtHand
    <3> QED BY <1>4, <2>1, <3>1, <3>4, <3>5, TraceStands DEF vars, disk
  <2> QED BY <2>2, <2>3
<1>11. CASE Withdraw
  <2>1. /\ controller.at = "withdraw" /\ Stand("withdrawing")
        /\ UNCHANGED <<disk, before, deployment>>
        /\ run' = [kind |-> "rollback", digest |-> Digest, step |-> "restore"]
    BY <1>11 DEF Withdraw, Begin, First
  <2>2. controller'.at = "withdrawing" /\ x' = x /\ Digest' = Digest /\ Digest \in Digests
    BY <1>1, <1>4, <2>1
  <2>3. RunsItsOwn' /\ ~At(Withdrawing, "restart")' /\ ~Through /\ ~Through' /\ ~Idle'
    BY <2>1, <2>2 DEF RunsItsOwn, At, Through, Idle, Ends
  <2>4. journal[Digest].status = "pending" => deployment'[x].phase \in {"stage", "activate"}
    BY <1>0, <2>1, <2>2 DEF OpenIsAtHand
  <2> QED BY <1>4, <2>1, <2>3, <2>4, TraceStands
<1>12. CASE Withdrawn
  <2>1. PICK status \in Over : Settle(status)
    BY <1>4, <1>12 DEF Withdrawn
  <2>2. controller.at = "withdrawing" /\ Idle /\ UNCHANGED vars
    BY <1>12 DEF Withdrawn
  <2> QED BY <1>0, <2>1, <2>2, TraceSettles DEF ClosesWhatItOpened
<1>13. CASE Finish
  <2>1. /\ controller.at = "finish" /\ Stand("complete") /\ UNCHANGED <<vars, before>>
        /\ deployment' = [deployment EXCEPT ![x].phase = "done"]
    BY <1>13 DEF Finish
  <2>2. controller'.at = "complete" /\ x' = x /\ x \in Deployments
    BY <1>1, <1>4, <2>1
  <2>3. \A i \in Deployments : /\ deployment'[i].status = deployment[i].status
                               /\ i # x => deployment'[i].phase = deployment[i].phase
    BY <1>0, <2>1, <2>2
  <2>4. journal[Digest].status # "pending"
    BY <1>0, <2>1 DEF WayBack, Through
  <2>5. Idle' /\ run' = run
    BY <1>2, <2>1 DEF vars, Idle
  <2>6. RunsItsOwn' /\ ~At(Withdrawing, "restart")' /\ Through /\ Through'
    BY <2>1, <2>2, <2>5 DEF RunsItsOwn, At, Through, Idle, Ends
  <2> QED BY <1>4, <2>1, <2>3, <2>4, <2>6, TraceStands DEF vars, disk
<1>14. CASE Complete
  <2>1. controller.at = "complete" /\ Settle("succeeded") /\ UNCHANGED vars /\ Idle
    BY <1>2, <1>14 DEF Complete
  <2>2. journal[Digest].status # "pending"
    BY <1>0, <2>1 DEF WayBack, Through
  <2> QED BY <1>4, <2>1, <2>2, TraceSettles
<1>15. ~(Reobserve \/ ReobserveFails \/ Fail)
  BY <1>0 DEF OneByOne, Reobserve, ReobserveFails, Fail
<1> QED BY <1>5, <1>6, <1>7, <1>8, <1>9, <1>10, <1>11, <1>12, <1>13, <1>14, <1>15
        DEF ControllerStep

\* A run of the deployment at hand keeps to its transaction.
LEMMA TraceRuns ==
    ASSUME RolloutInv, Trace, UNCHANGED <<deployment, controller, before>>,
           RunStep \/ (Break /\ run.kind \notin Withdrawing)
    PROVE  Trace'
<1>0. /\ ReleaseInv /\ TypeOK /\ ControlTyped /\ NamedWasOpened
      /\ OneByOne /\ RunsItsOwn /\ OpenIsAtHand /\ PointerDecided /\ WayBack /\ ClosesWhatItOpened
  BY DEF RolloutInv, ReleaseInv, Trace
<1>1. /\ ~Idle /\ run.kind \in Kinds /\ run.digest \in Digests /\ run.step \in Steps
      /\ \/ Idle' /\ run'.kind = "none"
         \/ /\ ~Idle' /\ run'.digest = run.digest /\ run'.step \in Steps
            /\ \/ run'.kind = run.kind
               \/ run.kind = "activate" /\ run'.kind = "rescue" /\ run'.step = "restore"
  BY <1>0, RunMovesOn
<1>2. x' = x /\ Digest' = Digest /\ run.digest = Digest /\ Digest \in Digests
  BY <1>0, <1>1 DEF x, Digest, RunsItsOwn
<1>3. \/ controller.at = "run" /\ deployment[x].phase = "none" /\ run.kind = "stage"
      \/ controller.at = "run" /\ deployment[x].phase = "stage" /\ run.kind \in {"activate", "rescue"}
      \/ controller.at = "run" /\ deployment[x].phase = "activate" /\ run.kind = "commit"
      \/ controller.at = "withdrawing" /\ run.kind = "rollback"
  BY <1>0, <1>1 DEF RunsItsOwn
<1>4. OneByOne'
  BY <1>0, <1>2 DEF OneByOne
<1>5. RunsItsOwn'
  BY <1>1, <1>2, <1>3 DEF RunsItsOwn
<1>6. ~Through
  BY <1>1, <1>3 DEF Through, Idle, Ends
<1>7. PICK p \in Maybe :
        /\ before = [pointer |-> p, records |-> Named(p), runtime |-> p]
        /\ p # NoDigest => journal[p].status = "committed"
        /\ journal[Digest].status = "pending" => journal[Digest].previous = p
        /\ journal[Digest].status # "pending" => pointer = p
  BY <1>0, <1>3, <1>6 DEF WayBack
<1>8. Through' => controller.at = "run" /\ deployment[x].phase = "activate" /\ run.kind = "commit"
                  /\ run'.step = "ok"
  BY <1>2, <1>3 DEF Through
<1>9. ASSUME p # NoDigest => journal'[p].status = "committed",
             Through' => journal'[Digest].status = "committed",
             ~Through' /\ journal'[Digest].status = "pending" => journal'[Digest].previous = p,
             ~Through' /\ journal'[Digest].status # "pending" => pointer' = p
      PROVE  WayBack'
  <2>1. Maybe' = Maybe /\ Named(p)' = Named(p) /\ before' = before
    BY DEF Maybe, Named
  <2> QED BY <1>2, <1>7, <1>9, <2>1 DEF WayBack
<1>10. ASSUME \A d \in Digests : journal'[d].status = "pending" =>
                 \/ journal[d].status = "pending"
                 \/ d = Digest /\ deployment[x].phase = "stage"
       PROVE  OpenIsAtHand'
  BY <1>0, <1>2, <1>3, <1>10 DEF OpenIsAtHand
<1>11. journal \in [Digests -> [status : JournalStatuses, previous : Maybe, saved : Records]]
       /\ pointer \in Maybe
  BY <1>0 DEF TypeOK
<1>12. [Next]_vars
  BY DEF Next
<1>13. ASSUME journal' = journal, pointer' = pointer
       PROVE  OpenIsAtHand' /\ PointerDecided'
  BY <1>0, <1>10, <1>13 DEF PointerDecided
\* Opening the transaction.
<1>14. CASE ActivateJournal /\ journal' # journal
  <2>1. /\ Reopens(Digest) /\ journal' = [journal EXCEPT ![Digest] = Opened(Digest)]
        /\ pointer' = pointer /\ Goto("switch") /\ run.kind = "activate"
    BY <1>2, <1>14 DEF ActivateJournal, At
  <2>2. /\ journal'[Digest].status = "pending" /\ journal'[Digest].previous = pointer
        /\ \A d \in Digests \ {Digest} : journal'[d] = journal[d]
    BY <1>2, <1>11, <2>1 DEF Opened
  <2>3. pointer # Digest /\ pointer = p
    BY <1>7, <2>1 DEF Reopens
  <2>4. controller.at = "run" /\ deployment[x].phase = "stage" /\ ~Through'
    BY <1>3, <1>8, <2>1
  <2>5. OpenIsAtHand'
    BY <1>10, <2>2, <2>4
  <2>6. PointerDecided' /\ WayBack'
    BY <1>0, <1>7, <1>9, <1>11, <2>1, <2>2, <2>3, <2>4 DEF PointerDecided, Maybe
  <2>7. ClosesWhatItOpened'
    BY <1>0, <1>1, <1>2, <2>1, <2>4, GotoMoves DEF ClosesWhatItOpened, At, Withdrawing, Steps, Idle, Ends
  <2> QED BY <1>4, <1>5, <2>5, <2>6, <2>7 DEF Trace
\* Switching to the release.
<1>15. CASE ActivateSwitch
  <2>1. /\ pointer' = Digest /\ journal' = journal /\ Goto("compose") /\ run.kind = "activate"
        /\ journal[Digest].status = "pending"
    BY <1>0, <1>2, <1>15 DEF ActivateSwitch, ReleaseInv, ActivationOpen, At
  <2>2. controller.at = "run" /\ deployment[x].phase = "stage" /\ ~Through'
    BY <1>3, <1>8, <2>1
  <2>3. OpenIsAtHand' /\ PointerDecided'
    BY <1>10, <2>1 DEF PointerDecided
  <2>4. WayBack'
    BY <1>7, <1>9, <2>1, <2>2
  <2>5. ClosesWhatItOpened'
    BY <1>0, <1>1, <1>2, <2>1, <2>2, GotoMoves DEF ClosesWhatItOpened, At, Withdrawing, Steps, Idle, Ends
  <2> QED BY <1>4, <1>5, <2>3, <2>4, <2>5 DEF Trace
\* Switching back.
<1>16. CASE RestoreSwitch
  <2>1. /\ journal[Digest].status \in {"pending", "rolled_back"} /\ pointer' = journal[Digest].previous
        /\ pointer \in {Digest, journal[Digest].previous} /\ journal' = journal /\ Goto("compose")
        /\ run.kind \in Withdrawing
    BY <1>2, <1>16 DEF RestoreSwitch, Ours, At
  <2>2. pointer' = p
    <3>1. CASE journal[Digest].status = "pending"
      BY <1>7, <2>1, <3>1
    <3>2. CASE journal[Digest].status = "rolled_back"
      <4>1. pointer = p
        BY <1>7, <3>2
      <4>2. pointer # Digest
        BY <1>0, <1>2, <3>2, DigestAssumption DEF PointerDecided
      <4> QED BY <2>1, <4>1, <4>2
    <3> QED BY <2>1, <3>1, <3>2
  <2>3. run'.step = "compose" /\ run'.kind \in Withdrawing
    BY <1>0, <1>1, <2>1, GotoMoves DEF Steps
  <2>4. ~Through'
    BY <1>8, <2>3
  <2>5. OpenIsAtHand' /\ PointerDecided'
    BY <1>7, <1>10, <2>1, <2>2 DEF PointerDecided
  <2>6. WayBack'
    BY <1>7, <1>9, <2>1, <2>2, <2>4
  <2>7. ClosesWhatItOpened'
    BY <2>3 DEF ClosesWhatItOpened, At, Idle, Ends
  <2> QED BY <1>4, <1>5, <2>5, <2>6, <2>7 DEF Trace
\* Closing the transaction withdrawn.
<1>17. CASE RestoreClose
  <2>1. /\ journal' = [journal EXCEPT ![Digest].status = "rolled_back"] /\ pointer' = pointer
        /\ Goto("restart") /\ run.kind \in Withdrawing
        /\ journal[Digest].status \in {"pending", "rolled_back"} /\ pointer = journal[Digest].previous
    BY <1>0, <1>2, <1>17 DEF RestoreClose, ReleaseInv, WithdrawalUnderWay, At
  <2>2. /\ journal'[Digest].status = "rolled_back"
        /\ \A d \in Digests \ {Digest} : journal'[d] = journal[d]
    BY <1>2, <1>11, <2>1
  <2>3. pointer = p /\ pointer # Digest
    BY <1>0, <1>2, <1>7, <2>1 DEF ReleaseInv, JournalsLeadAway
  <2>4. run'.step = "restart" /\ run'.digest = Digest
    BY <1>0, <1>1, <1>2, <2>1, GotoMoves DEF Steps
  <2>5. ~Through'
    BY <1>8, <2>4
  <2>6. OpenIsAtHand'
    BY <1>10, <2>2
  <2>7. PointerDecided' /\ WayBack'
    BY <1>0, <1>7, <1>9, <1>11, <2>1, <2>2, <2>3, <2>5 DEF PointerDecided, Maybe
  <2>8. ClosesWhatItOpened'
    BY <2>2, <2>4 DEF ClosesWhatItOpened, Idle, Ends
  <2> QED BY <1>4, <1>5, <2>6, <2>7, <2>8 DEF Trace
\* Committing it.
<1>18. CASE Commit
  <2>1. /\ journal' = [journal EXCEPT ![Digest].status = "committed"] /\ pointer' = pointer
        /\ End("ok") /\ run.kind = "commit" /\ controller.at = "run"
        /\ deployment[x].phase = "activate"
    BY <1>2, <1>3, <1>18 DEF Commit, At
  <2>2. /\ journal'[Digest].status = "committed"
        /\ \A d \in Digests \ {Digest} : journal'[d] = journal[d]
    BY <1>2, <1>11, <2>1
  <2>3. run'.step = "ok" /\ Through'
    BY <1>2, <2>1 DEF End, Ended, Through
  <2>4. OpenIsAtHand'
    BY <1>10, <2>2
  <2>5. PointerDecided' /\ WayBack'
    BY <1>0, <1>7, <1>9, <1>11, <2>1, <2>2, <2>3 DEF PointerDecided, Maybe
  <2>6. ClosesWhatItOpened'
    BY <2>1, <2>3 DEF ClosesWhatItOpened, At
  <2> QED BY <1>4, <1>5, <2>4, <2>5, <2>6 DEF Trace
\* All else leaves transaction and pointer alone.
<1>19. CASE journal' = journal /\ pointer' = pointer /\ ~Commit
  <2>1. ~Through'
    <3>1. run.kind = "commit" => Break
      BY <1>19 DEF RunStep, StageTree, StageFiles, Seal, ActivateJournal, ActivateSwitch,
         ActivateCompose, ActivateReload, ActivateImage, RevertCompose, RevertRestart, RestoreNothing,
         RestoreSwitch, RestoreCompose, RestoreImage, RestoreClose, RestoreRestart, At, Withdrawing
    <3>2. Break /\ run.kind = "commit" => run'.step = "failed"
      BY DEF Break, At, End, Ended
    <3> QED BY <1>8, <3>1, <3>2
  <2>2. WayBack'
    BY <1>7, <1>9, <1>19, <2>1
  <2>3. At(Withdrawing, "restart")' => journal'[run'.digest].status # "pending"
    <3>1. ASSUME RestoreNothing PROVE journal[run.digest].status # "pending"
      BY <3>1 DEF RestoreNothing
    <3>2. ASSUME RestoreClose PROVE journal'[run.digest].status # "pending"
      <4>1. journal' = [journal EXCEPT ![run.digest].status = "rolled_back"]
        BY <3>2 DEF RestoreClose
      <4> QED BY <1>1, <1>11, <4>1
    <3>3. UNCHANGED run /\ At(Withdrawing, "restart")' => At(Withdrawing, "restart")
      BY DEF At
    <3> QED BY <1>0, <1>12, <1>19, <3>1, <3>2, <3>3, RestartComes DEF ClosesWhatItOpened
  <2>4. ASSUME controller'.at = "withdrawing", Idle'
        PROVE  run'.step = "ok" /\ journal'[Digest'].status # "pending"
    <3>1. run.kind = "rollback" /\ run.kind \in Withdrawing
      BY <1>3, <2>4 DEF Withdrawing
    <3>2. \A step \in Steps : ~Goto(step)
      BY <1>0, <1>1, <2>4, GotoMoves DEF Idle, Ends, Steps
    <3>3. RestoreRestart
      <4>1. {"restart", "compose", "image", "close"} \subseteq Steps
        BY DEF Steps
      <4> QED BY <3>1, <3>2, <4>1 DEF RunStep, StageTree, StageFiles, Seal, ActivateJournal,
         ActivateSwitch, ActivateCompose, ActivateReload, ActivateImage, RevertCompose, RevertRestart,
         RestoreNothing, RestoreSwitch, RestoreCompose, RestoreImage, RestoreClose, Commit, At
    <3>4. run'.step = "ok"
      BY <3>1, <3>3 DEF RestoreRestart, End, Ended
    <3>5. journal[Digest].status # "pending"
      BY <1>0, <1>2, <3>3 DEF RestoreRestart, ClosesWhatItOpened
    <3> QED BY <1>2, <1>19, <3>4, <3>5
  <2>5. ClosesWhatItOpened'
    BY <2>3, <2>4 DEF ClosesWhatItOpened
  <2> QED BY <1>4, <1>5, <1>13, <1>19, <2>2, <2>5 DEF Trace
<1>20. journal' # journal \/ pointer' # pointer
       => \/ ActivateJournal /\ journal' # journal
          \/ ActivateSwitch \/ RestoreSwitch \/ RestoreClose \/ Commit
  BY DEF RunStep, StageTree, StageFiles, Seal, ActivateJournal, ActivateSwitch,
     ActivateCompose, ActivateReload, ActivateImage, RevertCompose, RevertRestart, RestoreNothing,
     RestoreSwitch, RestoreCompose, RestoreImage, RestoreClose, RestoreRestart, Commit, Break, disk
<1> QED BY <1>14, <1>15, <1>16, <1>17, <1>18, <1>19, <1>20

LEMMA TraceInit == RolloutInit => TraceInv
<1> SUFFICES ASSUME RolloutInit PROVE Trace
    BY DEF TraceInv
<1>1. /\ controller = NoWork /\ pointer = NoDigest /\ run = Ended("ok")
      /\ journal = [d \in Digests |-> NoJournal]
      /\ deployment = [i \in Deployments |-> [status |-> "queued", phase |-> "none"]]
  BY DEF RolloutInit, Init
<1>2. controller.at = "idle" /\ Idle
  BY <1>1 DEF NoWork, Idle, Ended, Ends
<1>3. OneByOne
  BY <1>1, <1>2 DEF OneByOne
<1>4. RunsItsOwn /\ PointerDecided /\ WayBack /\ ClosesWhatItOpened
  BY <1>1, <1>2 DEF RunsItsOwn, PointerDecided, WayBack, ClosesWhatItOpened, At, Ended
<1>5. OpenIsAtHand
  BY <1>1 DEF OpenIsAtHand, NoJournal
<1> QED BY <1>3, <1>4, <1>5 DEF Trace

\* As long as nothing was lost and no withdrawal broke off, only controller and
\* edge step, and the history is left alone.
LEMMA UndisturbedStep ==
    ASSUME ControlTyped, [RolloutNext]_allVars, Undisturbed'
    PROVE  /\ Undisturbed
           /\ \/ ControllerStep
              \/ /\ RunStep \/ (Break /\ run.kind \notin Withdrawing)
                 /\ UNCHANGED <<deployment, controller, before>>
              \/ UNCHANGED allVars
<1>0. losses \in Nat /\ clean \in BOOLEAN /\ clean' /\ losses' = 0
  BY RolloutAssumption DEF ControlTyped, Undisturbed
<1>1. ~(Crash \/ Interrupt \/ EdgeLost)
  <2>1. Crash \/ Interrupt \/ EdgeLost => losses' = losses + 1
    BY DEF Crash, Interrupt, EdgeLost
  <2> QED BY <1>0, <2>1
<1>2. CASE ControllerStep
  <2>1. clean' = clean /\ losses' = losses
    BY <1>2 DEF ControllerStep, Take, StartRun, Observe, ObserveFails, RecordPhase, PhaseFails,
       Withdraw, Withdrawn, Finish, Reobserve, ReobserveFails, Fail, Complete
  <2> QED BY <1>0, <1>2, <2>1 DEF Undisturbed
<1>3. CASE EdgeStep
  BY <1>0, <1>3 DEF EdgeStep, control, Undisturbed
<1>4. CASE EdgeBreaks
  BY <1>0, <1>4 DEF EdgeBreaks, Undisturbed
<1>5. CASE UNCHANGED allVars
  BY <1>0, <1>5 DEF allVars, control, Undisturbed
<1> QED BY <1>1, <1>2, <1>3, <1>4, <1>5 DEF RolloutNext

LEMMA TraceStep == RolloutInv /\ WholeInv /\ TraceInv /\ [RolloutNext]_allVars => TraceInv'
<1> SUFFICES ASSUME RolloutInv, WholeInv, TraceInv, [RolloutNext]_allVars, Undisturbed'
             PROVE  Trace'
    BY DEF TraceInv
<1>1. ControlTyped
  BY DEF RolloutInv
<1>2. Undisturbed /\ Trace /\ (~UnderWay => Whole)
  BY <1>1, UndisturbedStep DEF TraceInv, WholeInv, Undisturbed
<1>3. CASE UNCHANGED allVars
  BY <1>2, <1>3 DEF allVars, vars, control, Trace, OneByOne, RunsItsOwn, OpenIsAtHand, PointerDecided,
     WayBack, ClosesWhatItOpened, Through, Idle, At, x, Digest
<1> QED BY <1>1, <1>2, <1>3, UndisturbedStep, TraceControls, TraceRuns

\* As long as nothing was lost and no withdrawal broke off, deployments come one
\* after the other, each on a committed edge or a bare one, with the only open
\* transaction its own and leading back to what it found.
THEOREM RolloutTrace == RolloutSpec => []TraceInv
<1>1. RolloutInv /\ WholeInv /\ TraceInv /\ [RolloutNext]_allVars => TraceInv'
  BY TraceStep
<1> QED BY <1>1, TraceInit, RolloutSafe, RolloutWhole, PTL DEF RolloutSpec

\* A deployment that fails then leaves pointer, records and container as it had
\* found them.
THEOREM FailureTraceless == RolloutSpec => FailureLeavesNoTrace
<1> DEFINE Holds == \A i \in Deployments :
         /\ clean /\ losses = 0
         /\ deployment'[i].status \in {"failed", "restored"}
         /\ deployment[i].status = "running"
         => Edge = before
<1>1. ASSUME RolloutInv, WholeInv, TraceInv, [RolloutNext]_allVars, NEW i \in Deployments,
             clean /\ losses = 0, deployment'[i].status \in {"failed", "restored"},
             deployment[i].status = "running"
      PROVE  Edge = before
  <2>0. /\ deployment \in [Deployments -> [status : {"queued", "running"} \cup Over, phase : Phases]]
        /\ ControlTyped
        /\ OneByOne /\ OpenIsAtHand /\ WayBack /\ ClosesWhatItOpened /\ (~UnderWay => Whole)
    BY <1>1 DEF RolloutInv, ControlTyped, TraceInv, WholeInv, Undisturbed, Trace
  <2>1. controller.at # "idle" /\ i = x /\ Digest \in Digests
    BY <1>1, <2>0, ControllerTyped DEF OneByOne
  <2>2. ASSUME Idle, ~Through, journal[Digest].status # "pending" PROVE Edge = before
    <3>1. Whole
      BY <2>0, <2>2 DEF UnderWay, Idle, Ends, Switched, At
    <3>2. before = [pointer |-> pointer, records |-> Named(pointer), runtime |-> pointer]
      BY <2>0, <2>1, <2>2 DEF WayBack
    <3> QED BY <3>1, <3>2 DEF Edge, Whole
  <2>3. CASE PhaseFails
    <3>1. controller.at = "run" /\ Idle /\ run.step # "ok"
      BY <2>3 DEF PhaseFails
    <3>2. deployment[x].phase = "none"
      <4>1. deployment' # deployment
        BY <1>1
      <4> QED BY <2>3, <4>1 DEF PhaseFails
    <3>3. ~Through /\ journal[Digest].status # "pending"
      BY <2>0, <2>1, <3>1, <3>2 DEF Through, OpenIsAtHand
    <3> QED BY <2>2, <3>1, <3>3
  <2>4. CASE Withdrawn
    BY <2>0, <2>2, <2>4 DEF Withdrawn, ClosesWhatItOpened, Through
  <2>5. CASE Fail
    BY <2>0, <2>5 DEF Fail, OneByOne
  <2>6. ASSUME NEW j \in Deployments, NEW phase, deployment' = [deployment EXCEPT ![j].phase = phase]
        PROVE  FALSE
    BY <1>1, <2>0, <2>6
  <2>7. ASSUME NEW status \in {"succeeded", "abandoned", "running"}, NEW j \in Deployments,
               deployment' = [deployment EXCEPT ![j].status = status]
        PROVE  FALSE
    BY <1>1, <2>0, <2>7
  <2>8. ASSUME deployment' = deployment PROVE FALSE
    BY <1>1, <2>8
  <2>9. CASE \E j \in Deployments : Take(j)
    BY <2>7, <2>9 DEF Take
  <2>10. CASE Complete \/ Interrupt
    <3>1. x \in Deployments /\ (Settle("succeeded") \/ Settle("abandoned"))
      BY <2>1, <2>10 DEF Complete, Interrupt
    <3> QED BY <2>7, <3>1 DEF Settle
  <2>11. CASE Finish \/ ReobserveFails
    BY <2>1, <2>6, <2>11 DEF Finish, ReobserveFails
  <2>12. CASE RecordPhase
    <3>1. deployment' = [deployment EXCEPT ![x].phase = NextPhase(deployment[x].phase)]
      BY <2>0, <2>1, <2>12 DEF RecordPhase
    <3> QED BY <2>1, <2>6, <3>1
  <2>13. CASE \/ StartRun \/ Observe \/ ObserveFails \/ Withdraw \/ Reobserve \/ EdgeStep
              \/ EdgeBreaks \/ Crash \/ EdgeLost \/ UNCHANGED allVars
    BY <2>8, <2>13 DEF StartRun, Observe, ObserveFails, Withdraw, Reobserve, EdgeStep, EdgeBreaks,
                       Crash, EdgeLost, allVars, control
  <2> QED BY <1>1, <2>3, <2>4, <2>5, <2>9, <2>10, <2>11, <2>12, <2>13 DEF RolloutNext, ControllerStep
<1>2. RolloutInv /\ WholeInv /\ TraceInv /\ [RolloutNext]_allVars => [Holds]_allVars
  BY <1>1
<1> QED BY <1>2, RolloutSafe, RolloutWhole, RolloutTrace, PTL DEF RolloutSpec, FailureLeavesNoTrace
==============================================================================

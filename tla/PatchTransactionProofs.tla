----------------------- MODULE PatchTransactionProofs -----------------------
(***************************************************************************)
(* What holds of PatchTransaction for every number of files, transactions, *)
(* crashes and faults.                                                     *)
(***************************************************************************)
EXTENDS PatchTransaction, TLAPS

(* The contents that the actions write.                                     *)
LEMMA Contents ==
  /\ Absent \in Content /\ Torn \in Content /\ 1 \in Content
  /\ \A t \in 0..MaxTx : t + 1 \in Content
BY PatchAssumption DEF Absent, Torn, Content

LEMMA TypeInit == Init => TypeOK
<1> SUFFICES ASSUME Init PROVE TypeOK
  OBVIOUS
<1>1. files \in [Path -> Content] /\ before \in [Path -> Content]
  BY Contents DEF Init
<1>2. Nowhere \in [Path -> Content]
  BY Contents DEF Nowhere
<1>3. kind \in [Path -> Kind]
  BY DEF Init, Kind
<1>4. 1 \in 0..N /\ 0 \in 0..MaxTx /\ 0 \in 0..MaxCrashes /\ 0 \in 0..MaxFaults
  BY PatchAssumption
<1> QED
  BY <1>1, <1>2, <1>3, <1>4 DEF Init, TypeOK

(* Recovery, preflight and the writing of the directory.                    *)
LEMMA TypeForward ==
  ASSUME TypeOK,
         \/ Call \/ RecoverNothing \/ RecoverRefuse \/ RecoverDiscard \/ RecoverRollback
         \/ (\E kinds \in [Path -> Kind] : Preflight(kinds)) \/ PreflightReject
         \/ MakeDir \/ WriteJournal \/ WriteStage \/ SaveOriginal
         \/ MoveAway \/ Install \/ Mark
  PROVE  TypeOK'
<1> USE PatchAssumption DEF TypeOK, store, plan, Staging, Applying, Undoing
<1>1. CASE Call
  BY <1>1 DEF Call
<1>2. CASE RecoverNothing
  BY <1>2 DEF RecoverNothing
<1>3. CASE RecoverRefuse
  BY <1>3 DEF RecoverRefuse
<1>4. CASE RecoverDiscard
  BY <1>4 DEF RecoverDiscard
<1>5. CASE RecoverRollback
  BY <1>5 DEF RecoverRollback
<1>6. ASSUME NEW kinds \in [Path -> Kind], Preflight(kinds) PROVE TypeOK'
  BY <1>6 DEF Preflight
<1>7. CASE PreflightReject
  BY <1>7 DEF PreflightReject
<1>8. CASE MakeDir
  BY <1>8 DEF MakeDir
<1>9. CASE WriteJournal
  BY <1>9 DEF WriteJournal
<1>10. CASE WriteStage
  <2>1. New(k) \in Content
    BY Contents DEF New
  <2> QED
    BY <1>10, <2>1 DEF WriteStage
<1>11. CASE SaveOriginal
  <2>1. k' \in 0..N
    BY <1>11 DEF SaveOriginal, Advance
  <2>2. original' \in [Path -> Content]
    BY <1>11 DEF SaveOriginal
  <2>3. pc' \in {"stage", "backup"}
    BY <1>11 DEF SaveOriginal, Advance
  <2> QED
    BY <1>11, <2>1, <2>2, <2>3 DEF SaveOriginal
<1>12. CASE MoveAway
  BY <1>12, Contents DEF MoveAway
<1>13. CASE Install
  BY <1>13, Contents DEF Install, Advance
<1>14. CASE Mark
  BY <1>14 DEF Mark
<1> QED
  BY <1>1, <1>2, <1>3, <1>4, <1>5, <1>6, <1>7, <1>8, <1>9, <1>10, <1>11, <1>12, <1>13, <1>14

(* The type alone is not inductive: a copy that is filled steps down to the *)
(* entry below, so there must be one.                                       *)
CopyHasEntry == pc \in {"abort_copy", "rollback_copy"} => k > 0

(* Rollback and the removal of the directory.                               *)
LEMMA TypeBackward ==
  ASSUME TypeOK, CopyHasEntry,
         \/ UndoRemove \/ UndoRestore \/ UndoCopy \/ UndoFill \/ UndoSkip \/ UndoDone
         \/ RemoveJournal \/ RemoveMarker \/ (\E i \in Path : RemoveArtifact(i)) \/ RemoveDir
  PROVE  TypeOK'
<1> USE PatchAssumption, Contents DEF TypeOK, store, plan, Staging, Applying, Undoing
<1>1. CASE UndoRemove
  <2>1. k' \in 0..N
    BY <1>1 DEF UndoRemove
  <2> QED
    BY <1>1, <2>1 DEF UndoRemove
<1>2. CASE UndoRestore
  <2>1. k' \in 0..N
    BY <1>2 DEF UndoRestore
  <2>2. files' \in [Path -> Content] /\ backup' \in [Path -> Content]
    BY <1>2 DEF UndoRestore
  <2> QED
    BY <1>2, <2>1, <2>2 DEF UndoRestore
<1>3. CASE UndoCopy
  BY <1>3 DEF UndoCopy
<1>4. CASE UndoFill
  <2>1. k' \in 0..N
    BY <1>4 DEF UndoFill, CopyHasEntry
  <2>2. files' \in [Path -> Content]
    BY <1>4 DEF UndoFill
  <2>3. pc' \in {"abort", "rollback"}
    BY <1>4 DEF UndoFill
  <2> QED
    BY <1>4, <2>1, <2>2, <2>3 DEF UndoFill
<1>5. CASE UndoSkip
  BY <1>5 DEF UndoSkip
<1>6. CASE UndoDone
  BY <1>6 DEF UndoDone
<1>7. CASE RemoveJournal
  BY <1>7 DEF RemoveJournal
<1>8. CASE RemoveMarker
  BY <1>8 DEF RemoveMarker
<1>9. ASSUME NEW i \in Path, RemoveArtifact(i) PROVE TypeOK'
  BY <1>9 DEF RemoveArtifact
<1>10. CASE RemoveDir
  BY <1>10 DEF RemoveDir
<1> QED
  BY <1>1, <1>2, <1>3, <1>4, <1>5, <1>6, <1>7, <1>8, <1>9, <1>10

LEMMA TypeFailure == ASSUME TypeOK, Failure PROVE TypeOK'
<1> USE PatchAssumption, Contents DEF TypeOK, store, plan, Staging, Applying, Undoing, Fault
<1>1. TornSave => original' \in [Path -> Content]
  BY DEF TornSave
<1>2. CASE FailStaging
  BY <1>1, <1>2 DEF FailStaging
<1>3. CASE FailApply
  BY <1>3 DEF FailApply
<1>4. CASE FailMarkerSync
  BY <1>4 DEF FailMarkerSync
<1>5. CASE FailRollback
  BY <1>5 DEF FailRollback
<1>6. CASE FailRemoval
  BY <1>6 DEF FailRemoval
<1>7. CASE Crash
  BY <1>1, <1>7 DEF Crash
<1> QED
  BY <1>2, <1>3, <1>4, <1>5, <1>6, <1>7 DEF Failure

LEMMA CopyStep == ASSUME TypeOK, CopyHasEntry, Next PROVE CopyHasEntry'
<1> USE DEF CopyHasEntry, store, plan
<1>1. CASE Call
  BY <1>1 DEF Call
<1>2. CASE RecoverNothing \/ RecoverRefuse \/ RecoverDiscard \/ RecoverRollback
  BY <1>2 DEF RecoverNothing, RecoverRefuse, RecoverDiscard, RecoverRollback
<1>3. CASE (\E kinds \in [Path -> Kind] : Preflight(kinds)) \/ PreflightReject
  BY <1>3 DEF Preflight, PreflightReject
<1>4. CASE MakeDir \/ WriteJournal \/ WriteStage \/ SaveOriginal
  BY <1>4 DEF MakeDir, WriteJournal, WriteStage, SaveOriginal, Advance
<1>5. CASE MoveAway \/ Install \/ Mark
  BY <1>5 DEF MoveAway, Install, Mark, Advance
<1>6. CASE UndoRemove \/ UndoRestore \/ UndoCopy \/ UndoFill \/ UndoSkip \/ UndoDone
  BY <1>6 DEF UndoRemove, UndoRestore, UndoCopy, UndoFill, UndoSkip, UndoDone
<1>7. CASE RemoveJournal \/ RemoveMarker \/ (\E i \in Path : RemoveArtifact(i)) \/ RemoveDir
  BY <1>7 DEF RemoveJournal, RemoveMarker, RemoveArtifact, RemoveDir
<1>8. CASE Failure
  BY <1>8 DEF Failure, FailStaging, FailApply, FailMarkerSync, FailRollback, FailRemoval, Crash
<1> QED
  BY <1>1, <1>2, <1>3, <1>4, <1>5, <1>6, <1>7, <1>8 DEF Next, Step

-----------------------------------------------------------------------------
(* The phases of one call, whatever fails.                                  *)

(* Where an entry stands between preflight and the marker.                  *)
Untouched(i) == files[i] = before[i] /\ backup[i] = Absent
Staged(i)    == stage[i] = New(i)
Moved(i)     == files[i] = Absent /\ backup[i] = before[i]
Installed(i) == files[i] = New(i) /\ backup[i] = before[i]

(* What stands in the way of the old file may be anything, as long as the   *)
(* old file is in place or its backup at hand.                              *)
Safe(i) ==
  IF before[i] = Absent
    THEN backup[i] = Absent
    ELSE backup[i] = before[i] \/ Untouched(i)

Planned == \A i \in Path : kind[i] = "create" <=> before[i] = Absent

Working == Staging \cup Applying \cup {"abort", "abort_copy"}

Empty == ~marker /\ \A i \in Path : stage[i] = Absent /\ original[i] = Absent /\ backup[i] = Absent

Phase ==
  /\ ~dir => ~journal /\ Empty
  /\ pc \in {"preflight", "mkdir"} => ~dir
  /\ pc \in Working \ {"mkdir"} => dir
  /\ pc \in Working => Planned
  /\ pc \in {"mkdir", "journal"} => \A i \in Path : Untouched(i)
  /\ pc \in {"stage", "save"} =>
       /\ k \in Path
       /\ \A i \in Path : Untouched(i) /\ (i < k \/ (i = k /\ pc = "save") => Staged(i))
  /\ pc = "backup" =>
       /\ k \in Path
       /\ \A i \in Path : IF i < k THEN Installed(i) ELSE Untouched(i) /\ Staged(i)
  /\ pc = "install" =>
       /\ k \in Path /\ Moved(k) /\ Staged(k)
       /\ \A i \in Path : /\ i < k => Installed(i)
                          /\ i > k => Untouched(i) /\ Staged(i)
  /\ pc = "mark" => \A i \in Path : Installed(i)
  /\ pc = "abort" => \A i \in Path : Safe(i) /\ (i > k => Untouched(i))
  /\ pc # "abort_copy"

LEMMA PhaseForward ==
  ASSUME TypeOK, Phase, Call \/ RecoverNothing \/ RecoverRefuse \/ RecoverDiscard \/ RecoverRollback \/ (\E kinds \in [Path -> Kind] : Preflight(kinds)) \/ PreflightReject \/ MakeDir \/ WriteJournal \/ WriteStage \/ SaveOriginal \/ MoveAway \/ Install \/ Mark
  PROVE  Phase'
<1> USE PatchAssumption DEF TypeOK, Phase, Path, Untouched, Staged, Moved, Installed, Safe, Planned,
        Working, Empty, Staging, Applying, Existed, New, store, plan, Absent
<1>1. CASE Call
  BY <1>1 DEF Call
<1>2. CASE RecoverNothing
  BY <1>2 DEF RecoverNothing, HasPayload
<1>3. CASE RecoverRefuse
  BY <1>3 DEF RecoverRefuse, HasPayload
<1>4. CASE RecoverDiscard
  BY <1>4 DEF RecoverDiscard, HasPayload
<1>5. CASE RecoverRollback
  BY <1>5 DEF RecoverRollback
<1>6. ASSUME NEW kinds \in [Path -> Kind], Preflight(kinds) PROVE Phase'
  BY <1>6 DEF Preflight
<1>7. CASE PreflightReject
  BY <1>7 DEF PreflightReject
<1>8. CASE MakeDir
  BY <1>8 DEF MakeDir
<1>9. CASE WriteJournal
  BY <1>9 DEF WriteJournal
<1>10. CASE WriteStage
  BY <1>10 DEF WriteStage
<1>11. CASE SaveOriginal
  BY <1>11 DEF SaveOriginal, Advance
<1>12. CASE MoveAway
  BY <1>12 DEF MoveAway
<1>13. CASE Install
  <2>1. k \in Path /\ k \in 1..N /\ dir /\ dir' /\ Planned' /\ pc' \in {"backup", "mark"}
    BY <1>13 DEF Install, Advance
  <2>2. \A i \in Path : i = k => Installed(i)'
    BY <1>13 DEF Install
  <2>3. \A i \in Path : i < k => Installed(i)'
    BY <1>13 DEF Install
  <2>4. \A i \in Path : i > k => Untouched(i)' /\ Staged(i)'
    BY <1>13 DEF Install
  <2>5. CASE k < N
    <3>1. k' = k + 1 /\ pc' = "backup"
      BY <1>13, <2>5 DEF Install, Advance
    <3>2. \A i \in Path : IF i < k' THEN Installed(i)' ELSE Untouched(i)' /\ Staged(i)'
      BY ONLY <2>1, <2>2, <2>3, <2>4, <3>1, PatchAssumption DEF Path
    <3> QED
      BY ONLY <2>1, <2>5, <3>1, <3>2, PatchAssumption DEF Phase, Working, Staging, Applying, Path
  <2>6. CASE ~(k < N)
    <3>1. pc' = "mark"
      BY <1>13, <2>6 DEF Install, Advance
    <3>2. \A i \in Path : Installed(i)'
      BY ONLY <2>1, <2>2, <2>3, <2>6, PatchAssumption DEF Path
    <3> QED
      BY ONLY <2>1, <3>1, <3>2 DEF Phase, Working, Staging, Applying
  <2> QED
    BY <2>5, <2>6
<1>14. CASE Mark
  BY <1>14 DEF Mark
<1> QED
  BY <1>1, <1>2, <1>3, <1>4, <1>5, <1>6, <1>7, <1>8, <1>9, <1>10, <1>11, <1>12, <1>13, <1>14

LEMMA PhaseBackward ==
  ASSUME TypeOK, Phase, UndoRemove \/ UndoRestore \/ UndoCopy \/ UndoFill \/ UndoSkip \/ UndoDone \/ RemoveJournal \/ RemoveMarker \/ (\E i \in Path : RemoveArtifact(i)) \/ RemoveDir
  PROVE  Phase'
<1> USE PatchAssumption DEF TypeOK, Phase, Path, Untouched, Staged, Moved, Installed, Safe, Planned,
        Working, Empty, Staging, Applying, Existed, New, store, plan, Absent
<1>1. CASE UndoRemove
  BY <1>1 DEF UndoRemove
<1>2. CASE UndoRestore
  BY <1>2 DEF UndoRestore
<1>3. CASE UndoCopy
  BY <1>3 DEF UndoCopy
<1>4. CASE UndoFill
  BY <1>4 DEF UndoFill
<1>5. CASE UndoSkip
  BY <1>5 DEF UndoSkip
<1>6. CASE UndoDone
  BY <1>6 DEF UndoDone
<1>7. CASE RemoveJournal
  BY <1>7 DEF RemoveJournal
<1>8. CASE RemoveMarker
  BY <1>8 DEF RemoveMarker
<1>9. ASSUME NEW i \in Path, RemoveArtifact(i) PROVE Phase'
  BY <1>9 DEF RemoveArtifact
<1>10. CASE RemoveDir
  BY <1>10 DEF RemoveDir, HasPayload
<1> QED
  BY <1>1, <1>2, <1>3, <1>4, <1>5, <1>6, <1>7, <1>8, <1>9, <1>10

LEMMA PhaseFailure == ASSUME TypeOK, Phase, Failure PROVE Phase'
<1> USE PatchAssumption DEF TypeOK, Phase, Path, Untouched, Staged, Moved, Installed, Safe, Planned,
        Working, Empty, Staging, Applying, Existed, New, store, plan, Absent, Fault, Undoing
<1>1. CASE FailStaging
  BY <1>1 DEF FailStaging, TornSave
<1>2. CASE FailApply
  BY <1>2 DEF FailApply
<1>3. CASE FailMarkerSync
  BY <1>3 DEF FailMarkerSync
<1>4. CASE FailRollback
  BY <1>4 DEF FailRollback
<1>5. CASE FailRemoval
  BY <1>5 DEF FailRemoval
<1>6. CASE Crash
  BY <1>6 DEF Crash, TornSave
<1> QED
  BY <1>1, <1>2, <1>3, <1>4, <1>5, <1>6 DEF Failure

(* The three invariants that the safety theorems rest on.                   *)
Inv == TypeOK /\ CopyHasEntry /\ Phase

LEMMA InvInit == Init => Inv
<1> SUFFICES ASSUME Init PROVE Inv
  OBVIOUS
<1>1. TypeOK
  BY TypeInit
<1>2. CopyHasEntry /\ Phase
  BY DEF Init, CopyHasEntry, Phase, Working, Staging, Applying, Empty, Nowhere
<1> QED
  BY <1>1, <1>2 DEF Inv

LEMMA InvStep == Inv /\ [Next]_vars => Inv'
<1> SUFFICES ASSUME Inv, [Next]_vars PROVE Inv'
  OBVIOUS
<1> USE DEF Inv
<1>1. CASE Call \/ Step
  BY <1>1, TypeForward, TypeBackward, CopyStep, PhaseForward, PhaseBackward DEF Step, Next
<1>2. CASE Failure
  BY <1>2, TypeFailure, CopyStep, PhaseFailure DEF Next
<1>3. CASE UNCHANGED vars
  <2>1. TypeOK' /\ CopyHasEntry'
    BY <1>3 DEF TypeOK, CopyHasEntry, vars, store, plan
  <2>2. Phase'
    BY <1>3 DEF Phase, Untouched, Staged, Moved, Installed, Safe, Planned, Empty, New,
                vars, store, plan
  <2> QED
    BY <2>1, <2>2
<1> QED
  BY <1>1, <1>2, <1>3 DEF Next

(* Every variable keeps its type: contents stay within those of the         *)
(* transactions started, and the entry a phase works on within the entries. *)
THEOREM TypeCorrect == Spec => []TypeOK
<1>1. Inv => TypeOK
  BY DEF Inv
<1> QED
  BY <1>1, InvInit, InvStep, PTL DEF Spec

(* All entries installed is the workspace the transaction wants, all of     *)
(* them untouched the one preflight read.                                   *)
LEMMA WholeWorkspace ==
  ASSUME TypeOK
  PROVE  /\ (\A i \in Path : files[i] = New(i)) => files = After
         /\ (\A i \in Path : files[i] = before[i]) => files = before
BY DEF TypeOK, After

(* commit_transaction answers "ok" only when every file is new, and reports *)
(* a batch as rolled back only when every file is old again: for any number *)
(* of files and whatever call of the file system fails.                     *)
THEOREM AnswersTrue == Spec => AnswersAreTrue
<1> DEFINE Answers == /\ outcome' = "ok" /\ outcome # "ok" => files' = After'
                      /\ outcome' = "rolled_back" /\ outcome # "rolled_back" => files' = before'
<1>1. Inv /\ [Next]_vars => [Answers]_vars
  <2> SUFFICES ASSUME Inv, Next PROVE Answers
    OBVIOUS
  <2>1. CASE Mark
    <3>1. \A i \in Path : files[i] = New(i)
      BY <2>1 DEF Inv, Phase, Mark, Installed
    <3>2. files = After
      BY <3>1, WholeWorkspace DEF Inv
    <3> QED
      BY <2>1, <3>2 DEF Mark, After, New, plan
  <2>2. CASE UndoDone
    <3>1. CASE pc = "abort"
      <4>1. \A i \in Path : files[i] = before[i]
        BY <2>2, <3>1, PatchAssumption DEF Inv, Phase, UndoDone, Untouched, Path
      <4>2. files = before
        BY <4>1, WholeWorkspace DEF Inv
      <4> QED
        BY <2>2, <3>1, <4>2 DEF UndoDone, plan
    <3>2. CASE pc # "abort"
      BY <2>2, <3>2 DEF UndoDone
    <3> QED
      BY <3>1, <3>2
  <2>3. CASE ~Mark /\ ~UndoDone
    <3>1. outcome' \notin {"ok", "rolled_back"} \/ outcome' = outcome
      <4>1. CASE Call \/ Failure
        BY <4>1 DEF Call, Failure, Fault, FailStaging, FailApply, FailMarkerSync, FailRollback,
                    FailRemoval, Crash
      <4>2. CASE Step
        BY <2>3, <4>2 DEF Step, RecoverNothing, RecoverRefuse, RecoverDiscard, RecoverRollback,
                          Preflight, PreflightReject, MakeDir, WriteJournal, WriteStage,
                          SaveOriginal, MoveAway, Install, UndoRemove, UndoRestore, UndoCopy,
                          UndoFill, UndoSkip, RemoveJournal, RemoveMarker, RemoveArtifact,
                          RemoveDir
      <4> QED
        BY <4>1, <4>2 DEF Next
    <3> QED
      BY <3>1
  <2> QED
    BY <2>1, <2>2, <2>3
<1> QED
  BY <1>1, InvInit, InvStep, PTL DEF Spec, AnswersAreTrue

-----------------------------------------------------------------------------
(* The transaction directory, when neither its removal nor a rollback is    *)
(* interrupted and the marker is synced.                                    *)

Contained ==
  /\ marker => pc = "remove"
  /\ dir /\ pc # "remove" =>
       /\ Planned
       /\ committed < tx
       /\ IF journal THEN \A i \in Path : Safe(i)
                     ELSE Empty /\ \A i \in Path : Untouched(i)
  /\ pc = "mkdir" => committed < tx
  /\ pc = "journal" => ~journal
  /\ pc \in (Working \cup {"rollback"}) \ {"mkdir", "journal"} => dir /\ journal
  /\ pc = "rollback" => \A i \in Path : i > k => Untouched(i)
  /\ pc # "rollback_copy"
  /\ ~dir \/ pc = "remove" => files \in {before, After}
  /\ committed <= tx
  /\ tx # 0 /\ committed = tx => files = After
  /\ outcome = "rolled_back" => /\ files = before
                                /\ pc = "remove" \/ (pc = "idle" /\ ~dir)
  /\ outcome \notin {"rollback_failed", "refused"}

(* Faults strike only while the call stages or applies.                     *)
ContainedFaults == FaultPoints \subseteq {"staging", "apply"}

LEMMA ContainedForward ==
  ASSUME Inv, Contained, Inv',
         \/ Call \/ RecoverNothing \/ RecoverRefuse \/ RecoverDiscard \/ RecoverRollback
         \/ (\E kinds \in [Path -> Kind] : Preflight(kinds)) \/ PreflightReject \/ MakeDir
         \/ WriteJournal \/ WriteStage \/ SaveOriginal \/ MoveAway \/ Install \/ Mark
  PROVE  Contained'
<1> USE PatchAssumption DEF TypeOK, Inv, Phase, Contained, Path, Untouched, Staged, Moved, Installed,
        Safe, Planned, Working, Empty, Staging, Applying, Existed, New, After, store, plan, Absent
<1>1. CASE Call
  BY <1>1 DEF Call
<1>2. CASE RecoverNothing
  BY <1>2 DEF RecoverNothing, HasPayload
<1>3. CASE RecoverRefuse
  BY <1>3 DEF RecoverRefuse, HasPayload
<1>4. CASE RecoverDiscard
  BY <1>4 DEF RecoverDiscard, HasPayload
<1>5. CASE RecoverRollback
  BY <1>5 DEF RecoverRollback
<1>6. ASSUME NEW kinds \in [Path -> Kind], Preflight(kinds) PROVE Contained'
  BY <1>6 DEF Preflight
<1>7. CASE PreflightReject
  BY <1>7 DEF PreflightReject
<1>8. CASE MakeDir
  BY <1>8 DEF MakeDir
<1>9. CASE WriteJournal
  BY <1>9 DEF WriteJournal
<1>10. CASE WriteStage
  BY <1>10 DEF WriteStage
<1>11. CASE SaveOriginal
  BY <1>11 DEF SaveOriginal, Advance
<1>12. CASE MoveAway
  BY <1>12 DEF MoveAway
<1>13. CASE Install
  BY <1>13 DEF Install, Advance
<1>14. CASE Mark
  BY <1>14 DEF Mark
<1> QED
  BY <1>1, <1>2, <1>3, <1>4, <1>5, <1>6, <1>7, <1>8, <1>9, <1>10, <1>11, <1>12, <1>13, <1>14

LEMMA ContainedBackward ==
  ASSUME Inv, Contained, Inv',
         \/ UndoRemove \/ UndoRestore \/ UndoCopy \/ UndoFill \/ UndoSkip \/ UndoDone
         \/ RemoveJournal \/ RemoveMarker \/ (\E i \in Path : RemoveArtifact(i))
         \/ RemoveDir
  PROVE  Contained'
<1> USE PatchAssumption DEF TypeOK, Inv, Phase, Contained, Path, Untouched, Staged, Moved, Installed,
        Safe, Planned, Working, Empty, Staging, Applying, Existed, New, After, store, plan, Absent
<1>1. CASE UndoRemove
  BY <1>1 DEF UndoRemove
<1>2. CASE UndoRestore
  BY <1>2 DEF UndoRestore
<1>3. CASE UndoCopy
  BY <1>3 DEF UndoCopy
<1>4. CASE UndoFill
  BY <1>4 DEF UndoFill
<1>5. CASE UndoSkip
  BY <1>5 DEF UndoSkip
<1>6. CASE UndoDone
  BY <1>6 DEF UndoDone
<1>7. CASE RemoveJournal
  BY <1>7 DEF RemoveJournal
<1>8. CASE RemoveMarker
  BY <1>8 DEF RemoveMarker
<1>9. ASSUME NEW i \in Path, RemoveArtifact(i) PROVE Contained'
  BY <1>9 DEF RemoveArtifact
<1>10. CASE RemoveDir
  BY <1>10 DEF RemoveDir, HasPayload
<1> QED
  BY <1>1, <1>2, <1>3, <1>4, <1>5, <1>6, <1>7, <1>8, <1>9, <1>10

LEMMA ContainedFailure == ASSUME ContainedFaults, Inv, Contained, Inv', Failure PROVE Contained'
<1> USE PatchAssumption DEF TypeOK, Inv, Phase, Contained, Path, Untouched, Staged, Moved, Installed,
        Safe, Planned, Working, Empty, Staging, Applying, Existed, New, After, store, plan, Absent,
        Fault, Undoing, ContainedFaults
<1>1. CASE FailStaging
  BY <1>1 DEF FailStaging, TornSave
<1>2. CASE FailApply
  BY <1>2 DEF FailApply
<1>3. CASE FailMarkerSync
  BY <1>3 DEF FailMarkerSync
<1>4. CASE FailRollback
  BY <1>4 DEF FailRollback
<1>5. CASE FailRemoval
  BY <1>5 DEF FailRemoval
<1>6. CASE Crash
  BY <1>6 DEF Crash, TornSave
<1> QED
  BY <1>1, <1>2, <1>3, <1>4, <1>5, <1>6 DEF Failure

LEMMA ContainedInit == Init => Contained
BY PatchAssumption DEF Init, Contained, Working, Staging, Applying

LEMMA ContainedStep ==
  ASSUME ContainedFaults
  PROVE  Inv /\ Inv' /\ Contained /\ [Next]_vars => Contained'
<1> SUFFICES ASSUME Inv, Inv', Contained, [Next]_vars PROVE Contained'
  OBVIOUS
<1>1. CASE Call \/ Step
  BY <1>1, ContainedForward, ContainedBackward DEF Step
<1>2. CASE Failure
  BY <1>2, ContainedFailure
<1>3. CASE UNCHANGED vars
  BY <1>3 DEF Contained, Planned, Safe, Untouched, Empty, After, New, vars, store, plan
<1> QED
  BY <1>1, <1>2, <1>3 DEF Next

LEMMA AlwaysContained ==
  ASSUME ContainedFaults
  PROVE  Spec => [](Inv /\ Contained)
BY ContainedFaults, InvInit, InvStep, ContainedInit, ContainedStep, PTL DEF Spec

(* A transaction that recovery would roll back has every old file in place  *)
(* or its backup at hand, so recovery makes the workspace what it was.      *)
LEMMA RollbackRestores ==
  ASSUME Inv, Contained, RollsBack
  PROVE  Recovered = before
<1>1. ASSUME NEW i \in Path PROVE Undone(i) = before[i]
  BY <1>1 DEF Inv, Contained, RollsBack, Planned, Safe, Untouched, Undone, Existed
<1> QED
  BY <1>1 DEF Inv, TypeOK, Recovered, RollsBack

LEMMA NothingToRestore ==
  ASSUME Inv, Contained, ~RollsBack
  PROVE  Recovered = files /\ files \in {before, After}
<1>1. CASE ~dir \/ pc = "remove"
  BY <1>1 DEF Contained, Recovered
<1>2. CASE dir /\ pc # "remove"
  <2>1. \A i \in Path : files[i] = before[i]
    BY <1>2 DEF Contained, RollsBack, Untouched
  <2> QED
    BY <2>1, WholeWorkspace DEF Inv, Recovered
<1> QED
  BY <1>1, <1>2

(* A transaction of any number of files is applied as a whole or not at     *)
(* all, wherever the process dies before the marker and whatever file       *)
(* system call of staging or applying fails.                                *)
THEOREM PatchIsAtomic == ASSUME ContainedFaults PROVE Spec => []AllOrNothing
<1>1. Inv /\ Contained => AllOrNothing
  BY RollbackRestores, NothingToRestore DEF AllOrNothing
<1> QED
  BY <1>1, AlwaysContained, PTL

(* An applied transaction is never taken back by a later recovery.          *)
THEOREM CommitStays == ASSUME ContainedFaults PROVE Spec => []CommitIsFinal
<1>1. Contained => CommitIsFinal
  BY DEF Contained, CommitIsFinal
<1> QED
  BY <1>1, AlwaysContained, PTL

(* A batch that failed leaves every file as preflight read it.              *)
THEOREM FailedBatchIsUndone == ASSUME ContainedFaults PROVE Spec => []BatchRolledBack
<1>1. Inv /\ Contained => BatchRolledBack
  <2> SUFFICES ASSUME Inv, Contained, pc = "idle", outcome \in {"rolled_back", "rollback_failed"}
               PROVE  Recovered = before
    BY DEF BatchRolledBack
  <2>1. outcome = "rolled_back" /\ files = before /\ ~dir
    BY DEF Contained
  <2> QED
    BY <2>1 DEF Recovered, RollsBack
<1> QED
  BY <1>1, AlwaysContained, PTL

(* Recovery never meets a payload without a journal.                        *)
THEOREM RecoveryAlwaysPossible == ASSUME ContainedFaults PROVE Spec => []RecoveryNeverRefuses
<1>1. Contained => RecoveryNeverRefuses
  BY DEF Contained, RecoveryNeverRefuses
<1> QED
  BY <1>1, AlwaysContained, PTL

-----------------------------------------------------------------------------
(* The refinement of AtomicPatch.                                           *)

(* A call that has not returned and removes nothing has decided nothing.    *)
Undecided ==
  /\ pc \notin {"idle", "remove"} => outcome = "none"
  /\ pc = "remove" => outcome \in {"none", "ok", "rolled_back", "rollback_failed"}

LEMMA UndecidedStep == Undecided /\ [Next]_vars => Undecided'
<1> SUFFICES ASSUME Undecided, [Next]_vars PROVE Undecided'
  OBVIOUS
<1> USE DEF Undecided, store, plan, Staging, Applying, Undoing
<1>1. CASE Call \/ RecoverNothing \/ RecoverRefuse \/ RecoverDiscard \/ RecoverRollback
  BY <1>1 DEF Call, RecoverNothing, RecoverRefuse, RecoverDiscard, RecoverRollback
<1>2. CASE (\E kinds \in [Path -> Kind] : Preflight(kinds)) \/ PreflightReject
  BY <1>2 DEF Preflight, PreflightReject
<1>3. CASE MakeDir \/ WriteJournal \/ WriteStage \/ SaveOriginal
  BY <1>3 DEF MakeDir, WriteJournal, WriteStage, SaveOriginal, Advance
<1>4. CASE MoveAway \/ Install \/ Mark
  BY <1>4 DEF MoveAway, Install, Mark, Advance
<1>5. CASE UndoRemove \/ UndoRestore \/ UndoCopy \/ UndoFill \/ UndoSkip \/ UndoDone
  BY <1>5 DEF UndoRemove, UndoRestore, UndoCopy, UndoFill, UndoSkip, UndoDone
<1>6. CASE RemoveJournal \/ RemoveMarker \/ (\E i \in Path : RemoveArtifact(i)) \/ RemoveDir
  BY <1>6 DEF RemoveJournal, RemoveMarker, RemoveArtifact, RemoveDir
<1>7. CASE Failure
  BY <1>7 DEF Failure, Fault, FailStaging, FailApply, FailMarkerSync, FailRollback, FailRemoval, Crash
<1>8. CASE UNCHANGED vars
  BY <1>8 DEF vars
<1> QED
  BY <1>1, <1>2, <1>3, <1>4, <1>5, <1>6, <1>7, <1>8 DEF Next, Step

(* All that the mapping of a state relies on.                               *)
Mapped == Inv /\ Contained /\ Undecided

LEMMA AlwaysMapped ==
  ASSUME ContainedFaults
  PROVE  Spec => []Mapped
<1>1. Init => Undecided
  BY DEF Init, Undecided
<1> QED
  BY <1>1, ContainedFaults, InvInit, InvStep, ContainedInit, ContainedStep, UndecidedStep, PTL
     DEF Spec, Mapped

(* The workspace as recovery leaves it, without looking at single files.    *)
SeenWorkspace == Recovered = IF RollsBack THEN before ELSE files

LEMMA Seen == Mapped => SeenWorkspace
BY RollbackRestores DEF Mapped, Recovered, SeenWorkspace

LEMMA SeenNext == Mapped' => SeenWorkspace'
BY Seen, PTL

(* An open transaction has changed nothing that recovery would not restore. *)
OpenIsUndone == pc \in Working => Recovered = before /\ outcome = "none"

LEMMA OpenSeen == Mapped => OpenIsUndone
<1> SUFFICES ASSUME Mapped, pc \in Working PROVE Recovered = before /\ outcome = "none"
  BY DEF OpenIsUndone
<1>1. CASE pc \in {"mkdir", "journal"}
  <2>1. \A i \in Path : files[i] = before[i]
    BY <1>1 DEF Mapped, Inv, Phase, Untouched
  <2>2. files = before
    BY <2>1, WholeWorkspace DEF Mapped, Inv
  <2> QED
    BY <1>1, <2>2, Seen DEF SeenWorkspace, Mapped, Undecided, Working, Staging
<1>2. CASE pc \notin {"mkdir", "journal"}
  BY <1>2, Seen DEF SeenWorkspace, Mapped, Contained, RollsBack, Working, Staging, Applying,
                    Undecided
<1> QED
  BY <1>1, <1>2

LEMMA OpenSeenNext == Mapped' => OpenIsUndone'
BY OpenSeen, PTL

LEMMA GoalTyped == TypeOK => After \in [Path -> Content]
<1> SUFFICES ASSUME TypeOK PROVE After \in [Path -> Content]
  OBVIOUS
<1>1. \A i \in Path : New(i) \in Content
  BY Contents DEF New, TypeOK
<1> QED
  BY <1>1 DEF After

(* What a step does to the abstract state.                                  *)
Same == UNCHANGED <<Recovered, After, AbstractStatus, AbstractReply>>

LEMMA GoalKept == UNCHANGED plan => After' = After
BY DEF plan, After, New

LEMMA StaysOpen ==
  ASSUME Mapped, Mapped', pc \in Working, pc' \in Working, UNCHANGED plan
  PROVE  Same
BY OpenSeen, OpenSeenNext, GoalKept
   DEF Same, OpenIsUndone, plan, AbstractStatus, AbstractReply, Working

LEMMA GivesUp ==
  ASSUME Mapped, Mapped', pc \in Working, pc' \in {"idle", "remove"}, UNCHANGED plan,
         outcome' \in {"error", "crashed", "rolled_back"}, Recovered' = before
  PROVE  Atomic!Abandon
BY OpenSeen, GoalKept
   DEF Atomic!Abandon, OpenIsUndone, AbstractStatus, AbstractReply, Working, Staging, Applying

(* Outside of a transaction a step may only replace the reply.              *)
LEMMA StaysClosed ==
  ASSUME Mapped, Mapped', pc \notin Working, pc' \notin Working, UNCHANGED plan,
         pc = "remove" => outcome # "ok", pc' = "remove" => outcome' # "ok",
         Recovered' = Recovered, outcome' = outcome \/ outcome' \in {"none", "error", "crashed"}
  PROVE  Same \/ Atomic!Refuse
BY GoalKept DEF Same, Atomic!Refuse, AbstractStatus, AbstractReply, Working

Maps == Same \/ Atomic!Next

LEMMA RecoveryMaps ==
  ASSUME Mapped, Mapped',
         Call \/ RecoverNothing \/ RecoverRefuse \/ RecoverDiscard \/ RecoverRollback
  PROVE  Maps
<1> USE DEF store, plan, Working, Staging, Applying
<1>1. Recovered' = Recovered
  BY Seen, SeenNext
     DEF SeenWorkspace, RollsBack, Call, RecoverNothing, RecoverRefuse, RecoverDiscard,
         RecoverRollback, HasPayload
<1>2. outcome' # "refused"
  BY DEF Mapped, Contained
<1>3. Same \/ Atomic!Refuse
  BY <1>1, <1>2, StaysClosed
     DEF Call, RecoverNothing, RecoverRefuse, RecoverDiscard, RecoverRollback, Mapped, Undecided
<1> QED
  BY <1>3 DEF Maps, Atomic!Next

(* Preflight opens the transaction.                                         *)
LEMMA PreflightMaps ==
  ASSUME Mapped, Mapped', (\E kinds \in [Path -> Kind] : Preflight(kinds)) \/ PreflightReject
  PROVE  Maps
<1> USE DEF Preflight, PreflightReject, store, plan
<1>1. Recovered' = Recovered
  BY Seen, SeenNext DEF SeenWorkspace, RollsBack, Mapped, Inv, Phase
<1>2. CASE PreflightReject
  BY <1>1, <1>2, StaysClosed DEF Maps, Atomic!Next, Working, Staging, Applying
<1>3. ASSUME NEW kinds \in [Path -> Kind], Preflight(kinds) PROVE Maps
  <2>1. After' \in [Path -> Content]
    <3>1. (TypeOK => After \in [Path -> Content])'
      BY GoalTyped, PTL
    <3> QED
      BY <3>1 DEF Mapped, Inv
  <2>2. outcome = "none"
    BY <1>3 DEF Mapped, Undecided
  <2>3. Atomic!Open
    BY <1>1, <1>3, <2>1, <2>2 DEF Atomic!Open, AbstractStatus, AbstractReply, Staging, Applying
  <2> QED
    BY <2>3 DEF Maps, Atomic!Next
<1> QED
  BY <1>2, <1>3

(* Nothing is visible until the marker is.                                  *)
LEMMA CommitMaps ==
  ASSUME Mapped, Mapped',
         \/ MakeDir \/ WriteJournal \/ WriteStage \/ SaveOriginal
         \/ MoveAway \/ Install \/ Mark
  PROVE  Maps
<1> USE DEF store, plan, Working, Staging, Applying
<1>1. CASE MakeDir \/ WriteJournal \/ WriteStage \/ SaveOriginal \/ MoveAway \/ Install
  BY <1>1, StaysOpen
     DEF MakeDir, WriteJournal, WriteStage, SaveOriginal, MoveAway, Install, Advance, Maps
<1>2. CASE Mark
  <2>1. \A i \in Path : files[i] = New(i)
    BY <1>2 DEF Mapped, Inv, Phase, Mark, Installed
  <2>2. Recovered' = After
    BY <1>2, <2>1, SeenNext, WholeWorkspace DEF SeenWorkspace, RollsBack, Mark, Mapped, Inv
  <2>3. Atomic!Commit
    BY <1>2, <2>2, OpenSeen, GoalKept
       DEF Atomic!Commit, OpenIsUndone, Mark, AbstractStatus, AbstractReply
  <2> QED
    BY <2>3 DEF Maps, Atomic!Next
<1> QED
  BY <1>1, <1>2

LEMMA UndoMaps ==
  ASSUME Mapped, Mapped',
         UndoRemove \/ UndoRestore \/ UndoCopy \/ UndoFill \/ UndoSkip \/ UndoDone
  PROVE  Maps
<1> USE DEF store, plan, Working, Staging, Applying
<1>0. pc \notin {"abort_copy", "rollback_copy"}
  BY DEF Mapped, Inv, Phase, Contained
<1>1. CASE pc = "abort" /\ ~UndoDone
  BY <1>1, StaysOpen
     DEF UndoRemove, UndoRestore, UndoCopy, UndoFill, UndoSkip, Maps
<1>2. CASE pc = "abort" /\ UndoDone
  <2>1. Recovered' = before
    BY <1>2, SeenNext DEF UndoDone, SeenWorkspace, RollsBack, Mapped, Contained
  <2> QED
    BY <1>2, <2>1, GivesUp DEF UndoDone, Maps, Atomic!Next
<1>3. CASE pc = "rollback"
  <2>1. Recovered = before
    BY <1>3, Seen DEF SeenWorkspace, RollsBack, Mapped, Contained
  <2>2. Recovered' = before
    <3>1. CASE UndoDone
      <4>1. \A i \in Path : files[i] = before[i]
        BY <1>3, <3>1, PatchAssumption DEF UndoDone, Mapped, Contained, Untouched, Path
      <4> QED
        BY <3>1, <4>1, WholeWorkspace, SeenNext
           DEF UndoDone, SeenWorkspace, RollsBack, Mapped, Inv
    <3>2. CASE ~UndoDone
      <4>1. RollsBack' /\ before' = before
        BY <1>3, <3>2 DEF UndoRemove, UndoRestore, UndoCopy, UndoFill, UndoSkip, RollsBack,
                          Mapped, Contained
      <4> QED
        BY <4>1, SeenNext DEF SeenWorkspace
    <3> QED
      BY <3>1, <3>2
  <2>3. Same \/ Atomic!Refuse
    BY <1>3, <2>1, <2>2, StaysClosed
       DEF UndoRemove, UndoRestore, UndoCopy, UndoFill, UndoSkip, UndoDone, Mapped, Undecided
  <2> QED
    BY <2>3 DEF Maps, Atomic!Next
<1> QED
  BY <1>0, <1>1, <1>2, <1>3
     DEF UndoRemove, UndoRestore, UndoCopy, UndoFill, UndoSkip, UndoDone

(* The directory goes unseen; with its last entry the call returns.         *)
LEMMA RemoveMaps ==
  ASSUME Mapped, Mapped',
         \/ RemoveJournal \/ RemoveMarker \/ (\E i \in Path : RemoveArtifact(i))
         \/ RemoveDir
  PROVE  Maps
<1> USE DEF store, plan, Working, Staging, Applying
<1>1. Recovered' = Recovered
  BY Seen, SeenNext
     DEF SeenWorkspace, RollsBack, RemoveJournal, RemoveMarker, RemoveArtifact, RemoveDir
<1>2. After' = After
  BY GoalKept DEF RemoveJournal, RemoveMarker, RemoveArtifact, RemoveDir
<1>3. CASE RemoveJournal \/ RemoveMarker \/ \E i \in Path : RemoveArtifact(i)
  BY <1>1, <1>2, <1>3
     DEF RemoveJournal, RemoveMarker, RemoveArtifact, Maps, Same, AbstractStatus, AbstractReply
<1>4. CASE RemoveDir /\ outcome = "ok"
  BY <1>1, <1>2, <1>4
     DEF RemoveDir, Maps, Atomic!Next, Atomic!Finish, AbstractStatus, AbstractReply
<1>5. CASE RemoveDir /\ outcome # "ok"
  BY <1>1, <1>2, <1>5 DEF RemoveDir, Maps, Same, AbstractStatus, AbstractReply
<1> QED
  BY <1>3, <1>4, <1>5

LEMMA FailureMaps ==
  ASSUME ContainedFaults, Mapped, Mapped', Failure
  PROVE  Maps
<1> USE DEF store, plan, Working, Staging, Applying, Undoing
<1>1. CASE FailApply
  BY <1>1, StaysOpen DEF FailApply, Maps
<1>2. CASE FailStaging \/ Crash
  <2>1. /\ pc # "remove" /\ pc' = "idle" /\ outcome' \in {"error", "crashed"}
        /\ UNCHANGED <<files, plan, dir, journal, marker>>
    BY <1>2 DEF FailStaging, Crash, ContainedFaults
  <2>2. Recovered' = Recovered
    BY <2>1, Seen, SeenNext DEF SeenWorkspace, RollsBack
  <2>3. CASE pc \in Working
    BY <2>1, <2>2, <2>3, OpenSeen, GivesUp DEF OpenIsUndone, Maps, Atomic!Next
  <2>4. CASE pc \notin Working
    BY <2>1, <2>2, <2>4, StaysClosed DEF Maps, Atomic!Next
  <2> QED
    BY <2>3, <2>4
<1>3. ~(FailMarkerSync \/ FailRollback \/ FailRemoval)
  BY DEF FailMarkerSync, FailRollback, FailRemoval, Fault, ContainedFaults
<1> QED
  BY <1>1, <1>2, <1>3 DEF Failure

(* The journaled transaction implements the atomic one: seen through        *)
(* recovery, all files of a transaction change in one step, the one that    *)
(* writes the marker, or none ever does, and the reply says which.          *)
THEOREM PatchImplementsAtomic ==
  ASSUME ContainedFaults
  PROVE  Spec => ImplementsAtomicPatch
<1>1. Init => Atomic!Init
  <2> SUFFICES ASSUME Init PROVE Atomic!Init
    OBVIOUS
  <2>1. TypeOK
    BY TypeInit
  <2>2. Recovered = files
    BY DEF Init, Recovered, RollsBack
  <2> QED
    BY <2>1, <2>2, GoalTyped
       DEF Atomic!Init, Init, TypeOK, AbstractStatus, AbstractReply, Staging, Applying
<1>2. Mapped /\ Mapped' /\ [Next]_vars => [Atomic!Next]_Atomic!vars
  <2> SUFFICES ASSUME Mapped, Mapped', [Next]_vars PROVE Same \/ Atomic!Next
    BY DEF Same, Atomic!vars
  <2>1. CASE Step
    BY <2>1, RecoveryMaps, PreflightMaps, CommitMaps, UndoMaps, RemoveMaps DEF Step, Maps
  <2>2. CASE Call \/ Failure
    BY <2>2, ContainedFaults, RecoveryMaps, FailureMaps DEF Maps
  <2>3. CASE UNCHANGED vars
    BY <2>3 DEF vars, store, plan, Same, Recovered, RollsBack, Undone, Existed, After, New,
                AbstractStatus, AbstractReply
  <2> QED
    BY <2>1, <2>2, <2>3 DEF Next
<1> QED
  BY <1>1, <1>2, ContainedFaults, AlwaysMapped, PTL DEF Spec, ImplementsAtomicPatch, Atomic!Spec
=============================================================================

-------------------------- MODULE PatchTransaction --------------------------
(***************************************************************************)
(* The journaled multi-file patch of coding_patch.rs.                      *)
(*                                                                         *)
(* One call of apply_patch_transaction first recovers what an earlier call *)
(* left behind, then preflights its operations, writes a transaction       *)
(* directory (journal, staged contents, copies of the originals), moves    *)
(* every old file into the directory and every staged file into its place, *)
(* writes the commit marker and removes the directory.  The process may    *)
(* die between any two file system calls, and a file system call may fail. *)
(*                                                                         *)
(* PATCH_TRANSACTION_LOCK serialises the calls of one process and every    *)
(* call starts with recovery, so there is at most one transaction          *)
(* directory when a transaction starts, and one set of variables for it is *)
(* enough.  The workspace is not edited by others while a transaction or   *)
(* its leftovers exist.                                                    *)
(***************************************************************************)
EXTENDS Integers

CONSTANTS
  N,           \* operations per transaction, on the files 1..N
  MaxTx,       \* bound: transactions that pass preflight
  MaxCrashes,  \* bound: deaths of the process
  MaxFaults,   \* bound: file system calls that return an error
  FaultPoints  \* where a fault can strike: a subset of FaultKinds

Path == 1..N

(* "staging" and "apply" name the phases of commit_transaction.  The other  *)
(* three are the places whose failure the code does not contain: the marker *)
(* renamed into place but its directory not synced, a rollback that stops   *)
(* on an error, and a removal of the directory that stops half way (by an  *)
(* error or by the death of the process).                                  *)
FaultKinds == {"staging", "apply", "marker_sync", "rollback", "removal"}

ASSUME PatchAssumption ==
  /\ N \in Nat \ {0}
  /\ MaxTx \in Nat
  /\ MaxCrashes \in Nat
  /\ MaxFaults \in Nat
  /\ FaultPoints \subseteq FaultKinds

(* A file holds nothing, the first content, the content transaction t wrote *)
(* (t + 1), or the part of a copy that was written before a crash.          *)
Absent  == 0
Torn    == -1
Content == -1..(MaxTx + 1)
Kind    == {"create", "replace", "delete"}

VARIABLES
  files,      \* the workspace
  dir,        \* the transaction directory exists
  journal,    \* journal.json is in it
  marker,     \* committed.json is in it
  stage,      \* <i>.stage
  original,   \* <i>.original
  backup,     \* <i>.backup
  kind,       \* the planned change of every file; the journal holds the same
  before,     \* the content preflight read (PlannedChange.original)
  tx,         \* number of the transaction
  pc,         \* what the call is doing; "idle" when there is no call
  k,          \* the entry it works on
  outcome,    \* what the call has decided to return
  committed,  \* history: the last transaction whose call decided to return Ok
  crashes,
  faults

store == <<dir, journal, marker, stage, original, backup>>
plan  == <<kind, before, tx>>
vars  == <<files, store, plan, pc, k, outcome, committed, crashes, faults>>

Nowhere == [i \in Path |-> Absent]

Staging  == {"mkdir", "journal", "stage", "save"}
Applying == {"backup", "install", "mark"}
Undoing  == {"abort", "rollback", "abort_copy", "rollback_copy"}

Init ==
  /\ files \in [Path -> {Absent, 1}]
  /\ dir = FALSE /\ journal = FALSE /\ marker = FALSE
  /\ stage = Nowhere /\ original = Nowhere /\ backup = Nowhere
  /\ kind = [i \in Path |-> "replace"]
  /\ before = files
  /\ tx = 0
  /\ pc = "idle"
  /\ k = 1
  /\ outcome = "none"
  /\ committed = 0
  /\ crashes = 0
  /\ faults = 0

-----------------------------------------------------------------------------
(* Recovery, at the start of every call.                                    *)

(* The call takes the lock.                                                 *)
Call ==
  /\ pc = "idle"
  /\ pc' = "recover"
  /\ outcome' = "none"
  /\ UNCHANGED <<files, store, plan, k, committed, crashes, faults>>

HasPayload ==
  \/ marker
  \/ \E i \in Path : stage[i] # Absent \/ original[i] # Absent \/ backup[i] # Absent

(* No leftovers.                                                            *)
RecoverNothing ==
  /\ pc = "recover" /\ ~dir
  /\ pc' = "preflight"
  /\ UNCHANGED <<files, store, plan, k, outcome, committed, crashes, faults>>

(* A directory with payload but no journal is refused, and so is the call.  *)
RecoverRefuse ==
  /\ pc = "recover" /\ dir /\ ~journal /\ HasPayload
  /\ pc' = "idle"
  /\ outcome' = "refused"
  /\ UNCHANGED <<files, store, plan, k, committed, crashes, faults>>

(* An empty directory, or a committed transaction, is only removed.         *)
RecoverDiscard ==
  /\ pc = "recover" /\ dir
  /\ IF journal THEN marker ELSE ~HasPayload
  /\ pc' = "remove"
  /\ UNCHANGED <<files, store, plan, k, outcome, committed, crashes, faults>>

(* A journal without a marker is rolled back, last entry first.             *)
RecoverRollback ==
  /\ pc = "recover" /\ dir /\ journal /\ ~marker
  /\ pc' = "rollback"
  /\ k' = N
  /\ UNCHANGED <<files, store, plan, outcome, committed, crashes, faults>>

-----------------------------------------------------------------------------
(* Preflight and commit.                                                    *)

(* Every operation is checked against the files before anything is written. *)
Preflight(kinds) ==
  /\ pc = "preflight"
  /\ tx < MaxTx
  /\ \A i \in Path : kinds[i] = "create" <=> files[i] = Absent
  /\ kind' = kinds
  /\ before' = files
  /\ tx' = tx + 1
  /\ pc' = "mkdir"
  /\ UNCHANGED <<files, store, k, outcome, committed, crashes, faults>>

PreflightReject ==
  /\ pc = "preflight"
  /\ pc' = "idle"
  /\ outcome' = "error"
  /\ UNCHANGED <<files, store, plan, k, committed, crashes, faults>>

(* Mutant: the journal is left out.                                         *)
MakeDirNoJournal ==
  /\ pc = "mkdir"
  /\ dir' = TRUE
  /\ pc' = "stage" /\ k' = 1
  /\ UNCHANGED <<files, journal, marker, stage, original, backup, plan,
                 outcome, committed, crashes, faults>>

MakeDir ==
  /\ pc = "mkdir"
  /\ dir' = TRUE
  /\ pc' = "journal"
  /\ UNCHANGED <<files, journal, marker, stage, original, backup, plan, k,
                 outcome, committed, crashes, faults>>

WriteJournal ==
  /\ pc = "journal"
  /\ journal' = TRUE
  /\ pc' = "stage"
  /\ k' = 1
  /\ UNCHANGED <<files, dir, marker, stage, original, backup, plan, outcome,
                 committed, crashes, faults>>

New(i)   == IF kind[i] = "delete" THEN Absent ELSE tx + 1
After    == [i \in Path |-> New(i)]
(* Mutant: the last entry is left out.                                      *)
AdvanceShort(this, next) == IF k < N - 1 THEN /\ pc' = this /\ k' = k + 1
                                         ELSE /\ pc' = next /\ k' = 1

Advance(this, next) == IF k < N THEN /\ pc' = this /\ k' = k + 1
                                ELSE /\ pc' = next /\ k' = 1

WriteStage ==
  /\ pc = "stage"
  /\ stage' = [stage EXCEPT ![k] = New(k)]
  /\ pc' = "save"
  /\ UNCHANGED <<files, dir, journal, marker, original, backup, plan, k,
                 outcome, committed, crashes, faults>>

SaveOriginal ==
  /\ pc = "save"
  /\ original' = [original EXCEPT ![k] = before[k]]
  /\ Advance("stage", "backup")
  /\ UNCHANGED <<files, dir, journal, marker, stage, backup, plan, outcome,
                 committed, crashes, faults>>

(* Mutant: the old file is copied, not moved.                               *)
MoveAwayCopies ==
  /\ pc = "backup"
  /\ backup' = [backup EXCEPT ![k] = files[k]]
  /\ pc' = "install"
  /\ UNCHANGED <<files, dir, journal, marker, stage, original, plan, k, outcome,
                 committed, crashes, faults>>

(* The old file, if any, is renamed into the directory ...                  *)
MoveAway ==
  /\ pc = "backup"
  /\ IF files[k] # Absent
       THEN /\ backup' = [backup EXCEPT ![k] = files[k]]
            /\ files' = [files EXCEPT ![k] = Absent]
       ELSE UNCHANGED <<backup, files>>
  /\ pc' = "install"
  /\ UNCHANGED <<dir, journal, marker, stage, original, plan, k, outcome,
                 committed, crashes, faults>>

(* ... and the staged content, if any, into its place.                      *)
Install ==
  /\ pc = "install"
  /\ IF kind[k] # "delete"
       THEN /\ files' = [files EXCEPT ![k] = stage[k]]
            /\ stage' = [stage EXCEPT ![k] = Absent]
       ELSE UNCHANGED <<files, stage>>
  /\ Advance("backup", "mark")
  /\ UNCHANGED <<dir, journal, marker, original, backup, plan, outcome,
                 committed, crashes, faults>>

(* The commit point: committed.json is renamed into place.                  *)
Mark ==
  /\ pc = "mark"
  /\ marker' = TRUE
  /\ pc' = "remove"
  /\ outcome' = "ok"
  /\ committed' = tx
  /\ UNCHANGED <<files, dir, journal, stage, original, backup, plan, k,
                 crashes, faults>>

-----------------------------------------------------------------------------
(* Rollback: by the failed call itself ("abort", then the directory is      *)
(* removed and the error returned) or by the next recovery ("rollback").    *)

Existed(i) == kind[i] # "create"

(* Mutant: what stands in the way is removed without a backup at hand.      *)
UndoRemoveAnyway ==
  /\ pc \in {"abort", "rollback"} /\ k > 0
  /\ files[k] # Absent
  /\ files' = [files EXCEPT ![k] = Absent]
  /\ k' = IF Existed(k) /\ (backup[k] # Absent \/ original[k] # Absent) THEN k ELSE k - 1
  /\ UNCHANGED <<store, plan, pc, outcome, committed, crashes, faults>>

(* The backup takes its place again, after what stands there is removed.    *)
UndoRemove ==
  /\ pc \in {"abort", "rollback"} /\ k > 0
  /\ Existed(k) => backup[k] # Absent
  /\ files[k] # Absent
  /\ files' = [files EXCEPT ![k] = Absent]
  /\ k' = IF Existed(k) THEN k ELSE k - 1
  /\ UNCHANGED <<store, plan, pc, outcome, committed, crashes, faults>>

UndoRestore ==
  /\ pc \in {"abort", "rollback"} /\ k > 0
  /\ Existed(k) /\ backup[k] # Absent /\ files[k] = Absent
  /\ files' = [files EXCEPT ![k] = backup[k]]
  /\ backup' = [backup EXCEPT ![k] = Absent]
  /\ k' = k - 1
  /\ UNCHANGED <<dir, journal, marker, stage, original, plan, pc, outcome,
                 committed, crashes, faults>>

(* Without a backup a missing file is copied from <i>.original; the copy is *)
(* created first and filled after, and a crash between leaves it torn.      *)
UndoCopy ==
  /\ pc \in {"abort", "rollback"} /\ k > 0
  /\ Existed(k) /\ backup[k] = Absent /\ files[k] = Absent /\ original[k] # Absent
  /\ files' = [files EXCEPT ![k] = Torn]
  /\ pc' = IF pc = "abort" THEN "abort_copy" ELSE "rollback_copy"
  /\ UNCHANGED <<store, plan, k, outcome, committed, crashes, faults>>

UndoFill ==
  /\ pc \in {"abort_copy", "rollback_copy"}
  /\ files' = [files EXCEPT ![k] = original[k]]
  /\ pc' = IF pc = "abort_copy" THEN "abort" ELSE "rollback"
  /\ k' = k - 1
  /\ UNCHANGED <<store, plan, outcome, committed, crashes, faults>>

UndoSkip ==
  /\ pc \in {"abort", "rollback"} /\ k > 0
  /\ IF Existed(k) THEN backup[k] = Absent /\ (files[k] # Absent \/ original[k] = Absent)
                   ELSE files[k] = Absent
  /\ k' = k - 1
  /\ UNCHANGED <<files, store, plan, pc, outcome, committed, crashes, faults>>

(* Mutants: the error of the batch is lost; recovery starts over.           *)
UndoDoneOk ==
  /\ pc \in {"abort", "rollback"} /\ k = 0
  /\ pc' = "remove"
  /\ outcome' = IF pc = "abort" THEN "ok" ELSE outcome
  /\ UNCHANGED <<files, store, plan, k, committed, crashes, faults>>
UndoDoneRecovers ==
  /\ pc \in {"abort", "rollback"} /\ k = 0
  /\ pc' = IF pc = "abort" THEN "remove" ELSE "recover"
  /\ outcome' = IF pc = "abort" THEN "rolled_back" ELSE outcome
  /\ UNCHANGED <<files, store, plan, k, committed, crashes, faults>>

UndoDone ==
  /\ pc \in {"abort", "rollback"} /\ k = 0
  /\ pc' = "remove"
  /\ outcome' = IF pc = "abort" THEN "rolled_back" ELSE outcome
  /\ UNCHANGED <<files, store, plan, k, committed, crashes, faults>>

-----------------------------------------------------------------------------
(* remove_dir_all: the entries go one by one, in whatever order the file    *)
(* system lists them, the directory last.                                   *)

RemoveJournal ==
  /\ pc = "remove" /\ journal
  /\ journal' = FALSE
  /\ UNCHANGED <<files, dir, marker, stage, original, backup, plan, pc, k,
                 outcome, committed, crashes, faults>>

RemoveMarker ==
  /\ pc = "remove" /\ marker
  /\ marker' = FALSE
  /\ UNCHANGED <<files, dir, journal, stage, original, backup, plan, pc, k,
                 outcome, committed, crashes, faults>>

RemoveArtifact(i) ==
  /\ pc = "remove"
  /\ \/ /\ stage[i] # Absent
        /\ stage' = [stage EXCEPT ![i] = Absent]
        /\ UNCHANGED <<original, backup>>
     \/ /\ original[i] # Absent
        /\ original' = [original EXCEPT ![i] = Absent]
        /\ UNCHANGED <<stage, backup>>
     \/ /\ backup[i] # Absent
        /\ backup' = [backup EXCEPT ![i] = Absent]
        /\ UNCHANGED <<stage, original>>
  /\ UNCHANGED <<files, dir, journal, marker, plan, pc, k, outcome, committed, crashes, faults>>

(* Recovery goes on to preflight; a call that has its outcome returns it.   *)
RemoveDir ==
  /\ pc = "remove" /\ ~journal /\ ~HasPayload
  /\ dir' = FALSE
  /\ pc' = IF outcome = "none" THEN "preflight" ELSE "idle"
  /\ UNCHANGED <<files, journal, marker, stage, original, backup, plan, k,
                 outcome, committed, crashes, faults>>

-----------------------------------------------------------------------------
(* Errors of the file system.  An error after a call took effect is the     *)
(* same as an error of the next call before it does, except for the marker. *)

Fault(point) ==
  /\ point \in FaultPoints
  /\ faults < MaxFaults
  /\ faults' = faults + 1
  /\ UNCHANGED <<committed, crashes>>

(* A copy of an original that is being written when the call stops.         *)
TornSave ==
  IF pc = "save" /\ before[k] # Absent
    THEN original' \in {original, [original EXCEPT ![k] = Torn]}
    ELSE original' = original

(* While staging, "?" returns at once and leaves the directory behind.      *)
FailStaging ==
  /\ pc \in Staging
  /\ Fault("staging")
  /\ TornSave
  /\ pc' = "idle"
  /\ outcome' = "error"
  /\ UNCHANGED <<files, dir, journal, marker, stage, backup, plan, k>>

(* Mutant: the entry that failed is not rolled back.                        *)
FailApplyBelow ==
  /\ pc \in Applying
  /\ Fault("apply")
  /\ pc' = "abort"
  /\ k' = k - 1
  /\ UNCHANGED <<files, store, plan, outcome>>

(* While applying, the whole batch is rolled back.                          *)
FailApply ==
  /\ pc \in Applying
  /\ Fault("apply")
  /\ pc' = "abort"
  /\ k' = N
  /\ UNCHANGED <<files, store, plan, outcome>>

FailMarkerSync ==
  /\ pc = "mark"
  /\ Fault("marker_sync")
  /\ marker' = TRUE
  /\ pc' = "abort"
  /\ k' = N
  /\ UNCHANGED <<files, dir, journal, stage, original, backup, plan, outcome>>

(* A failed rollback is reported, and the directory is removed all the same; *)
(* recovery returns the error and keeps the directory.                      *)
FailRollback ==
  /\ pc \in Undoing
  /\ Fault("rollback")
  /\ IF pc \in {"abort", "abort_copy"} THEN pc' = "remove" /\ outcome' = "rollback_failed"
                                       ELSE pc' = "idle" /\ outcome' = "error"
  /\ UNCHANGED <<files, store, plan, k>>

(* A failed removal is deferred to the next call ("cleanup_deferred"), in   *)
(* recovery it fails the call.                                              *)
FailRemoval ==
  /\ pc = "remove"
  /\ Fault("removal")
  /\ pc' = "idle"
  /\ outcome' = IF outcome = "none" THEN "error" ELSE outcome
  /\ UNCHANGED <<files, store, plan, k>>

Crash ==
  /\ pc # "idle"
  /\ crashes < MaxCrashes
  /\ pc = "remove" => "removal" \in FaultPoints
  /\ crashes' = crashes + 1
  /\ TornSave
  /\ pc' = "idle"
  /\ outcome' = "crashed"
  /\ UNCHANGED <<files, dir, journal, marker, stage, backup, plan, k,
                 committed, faults>>

-----------------------------------------------------------------------------
Step ==
  \/ RecoverNothing \/ RecoverRefuse \/ RecoverDiscard \/ RecoverRollback
  \/ \E kinds \in [Path -> Kind] : Preflight(kinds)
  \/ PreflightReject
  \/ MakeDir \/ WriteJournal \/ WriteStage \/ SaveOriginal
  \/ MoveAway \/ Install \/ Mark
  \/ UndoRemove \/ UndoRestore \/ UndoCopy \/ UndoFill \/ UndoSkip \/ UndoDone
  \/ RemoveJournal \/ RemoveMarker \/ (\E i \in Path : RemoveArtifact(i))
  \/ RemoveDir

Failure ==
  \/ FailStaging \/ FailApply \/ FailMarkerSync \/ FailRollback \/ FailRemoval
  \/ Crash

Next == Call \/ Step \/ Failure

Spec == Init /\ [][Next]_vars

(* A call that has started keeps running; nobody has to make a call.        *)
FairSpec == Spec /\ WF_vars(Step)

-----------------------------------------------------------------------------
(* Properties                                                               *)

(* The type invariant; proved in PatchTransactionProofs, no run checks it.  *)
TypeOK ==
  /\ files \in [Path -> Content]
  /\ dir \in BOOLEAN /\ journal \in BOOLEAN /\ marker \in BOOLEAN
  /\ stage \in [Path -> Content]
  /\ original \in [Path -> Content]
  /\ backup \in [Path -> Content]
  /\ kind \in [Path -> Kind]
  /\ before \in [Path -> Content]
  /\ tx \in 0..MaxTx
  /\ pc \in {"idle", "recover", "preflight", "remove"} \cup Staging \cup Applying \cup Undoing
  /\ k \in 0..N
  /\ outcome \in {"none", "ok", "rolled_back", "rollback_failed", "error", "refused", "crashed"}
  /\ committed \in 0..MaxTx
  /\ crashes \in 0..MaxCrashes
  /\ faults \in 0..MaxFaults

(* What recovery makes of a file when the transaction is rolled back.       *)
Undone(i) ==
  IF ~Existed(i) THEN Absent
  ELSE IF backup[i] # Absent THEN backup[i]
  ELSE IF files[i] = Absent THEN original[i]
  ELSE files[i]

RollsBack == pc # "remove" /\ dir /\ journal /\ ~marker

(* The workspace as the next recovery leaves it.                            *)
Recovered == IF RollsBack THEN [i \in Path |-> Undone(i)] ELSE files

(* Whenever the process dies, recovery leaves either every file as preflight *)
(* saw it or every file as the transaction wants it ("crash-safe patch      *)
(* transaction journal", local_agent.rs:1827).                              *)
AllOrNothing == Recovered \in {before, After}

(* A transaction that was reported as applied stays applied: neither the    *)
(* removal of its directory nor the recovery by a later call takes any of   *)
(* its files back (test committed_recovery_keeps_applied_content).          *)
CommitIsFinal == tx # 0 /\ committed = tx => files = After

(* A batch that failed while it was applied is taken back entirely: when    *)
(* the call has returned its error, every file is what preflight saw, or    *)
(* the next recovery makes it so ("the host rolls the entire batch back on  *)
(* failure", local_agent.rs:1826).                                          *)
BatchRolledBack ==
  pc = "idle" /\ outcome \in {"rolled_back", "rollback_failed"} => Recovered = before

(* Recovery always finds something it can handle: a directory with payload  *)
(* and no journal, which makes this and every later call fail, is never     *)
(* left behind.                                                             *)
RecoveryNeverRefuses == outcome # "refused"

(* The two definite answers are true when they are decided, whatever fails: *)
(* "ok" with every file new, "rolled back" with every file old.             *)
AnswersAreTrue ==
  [][ /\ outcome' = "ok" /\ outcome # "ok" => files' = After'
      /\ outcome' = "rolled_back" /\ outcome # "rolled_back" => files' = before' ]_vars

(* A call that was made returns or dies; no state of the directory keeps    *)
(* recovery, rollback or removal busy for ever.                             *)
CallReturns == pc # "idle" ~> pc = "idle"

-----------------------------------------------------------------------------
(* The promise of AtomicPatch, seen through recovery.                       *)

AbstractStatus ==
  IF pc \in Staging \cup Applying \cup {"abort", "abort_copy"} THEN "open"
  ELSE IF pc = "remove" /\ outcome = "ok" THEN "committed"
  ELSE "closed"

AbstractReply ==
  CASE outcome = "ok" -> IF pc = "remove" THEN "none" ELSE "ok"
    [] outcome = "crashed" -> "lost"
    [] outcome = "none" -> "none"
    [] OTHER -> "failed"

Atomic == INSTANCE AtomicPatch WITH
            workspace <- Recovered,
            goal      <- After,
            status    <- AbstractStatus,
            reply     <- AbstractReply

(* The journaled transaction implements the atomic one.                     *)
ImplementsAtomicPatch == Atomic!Spec
=============================================================================

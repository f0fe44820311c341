------------------------ MODULE ModelDownloadProofs -------------------------
(***************************************************************************)
(* What holds of ModelDownload for every number and size of files, attempts, *)
(* revisions, downloads and mishaps.                                        *)
(***************************************************************************)
EXTENDS ModelDownload, TLAPS

(* A partial or installed file is one of these.                             *)
Contents == Seq(Chunk)

LEMMA FileLength ==
  ASSUME NEW f \in File, NEW r \in Revision
  PROVE  Length(f, r) \in Nat \ {0}
BY DownloadAssumption DEF File, Revision, Length

LEMMA EmptyFile == NoFile \in Contents /\ Len(NoFile) = 0
BY DEF NoFile, Contents

LEMMA SetPartialType ==
  ASSUME TypeOK, NEW c \in Contents, SetPartial(c)
  PROVE  part' \in [File -> [Revision -> Contents]]
BY DEF TypeOK, SetPartial, Contents

(* A chunk that is received, or one in its place.                           *)
LEMMA AppendType ==
  ASSUME TypeOK, NEW r \in Revision \cup {Damaged}
  PROVE  /\ Append(Partial, <<r, downloaded + 1>>) \in Contents
         /\ Len(Append(Partial, <<r, downloaded + 1>>)) = Len(Partial) + 1
<1>1. Partial \in Contents
  BY DEF TypeOK, Partial, Contents
<1>2. downloaded + 1 \in Nat \ {0}
  BY DEF TypeOK
<1>3. <<r, downloaded + 1>> \in Chunk
  BY <1>2 DEF Chunk
<1> QED
  BY <1>1, <1>3 DEF Contents

LEMMA PartialType == TypeOK => Partial \in Contents /\ Len(Partial) \in Nat
BY DEF TypeOK, Partial, Contents

(* The type invariant in three parts; and the main thread knows which state *)
(* it is going to set, without which the type alone is not inductive.       *)
Files == part \in [File -> [Revision -> Seq(Chunk)]] /\ final \in [File -> Seq(Chunk)]

Flags == dir \in BOOLEAN /\ restarted \in BOOLEAN /\ mine \in BOOLEAN /\ raced \in BOOLEAN

Values ==
  /\ head \in Revision
  /\ package \in Revision \cup {0} /\ manifest \in Revision \cup {0}
  /\ status \in {"queued", "resolving", "downloading", "verifying", "completed", "failed",
                 "cancelled", "paused"}
  /\ token \in {"none", "live", "cancelled"}
  /\ pc \in {"idle", "resolving", "existing", "prepare", "fetch", "request", "body", "oversize",
             "backoff", "verify", "dependency", "package", "check", "hash", "publish",
             "complete", "ended", "leaving"}
  /\ rev \in Revision /\ file \in File /\ existing \in Nat /\ downloaded \in Nat
  /\ failures \in 0..MaxAttempts
  /\ result \in {"none", "ok", "failed", "cancelled"}
  /\ main \in {"idle", "stop_cancel", "stop_set", "delete"}
  /\ want \in {"none", "cancelled", "paused"}
  /\ step \in 1..(N + 3)
  /\ downloads \in 0..MaxDownloads /\ mishaps \in 0..MaxMishaps

StopKnowsState == main \in {"stop_cancel", "stop_set"} => want # "none"

Typed == Files /\ Flags /\ Values /\ StopKnowsState

LEMMA TypeParts == Typed <=> TypeOK /\ StopKnowsState
BY DEF Typed, TypeOK, Files, Flags, Values

LEMMA TypeInit == Init => Typed
<1> SUFFICES ASSUME Init PROVE Typed
  OBVIOUS
<1>1. 1 \in Revision /\ 1 \in File /\ 0 \in 0..MaxAttempts /\ 1 \in 1..(N + 3)
      /\ 0 \in 0..MaxDownloads /\ 0 \in 0..MaxMishaps
  BY DownloadAssumption DEF Revision, File
<1>2. NoFile \in Seq(Chunk)
  BY EmptyFile DEF Contents
<1> QED
  BY <1>1, <1>2 DEF Init, Typed, Files, Flags, Values, StopKnowsState

(* Files: only twelve actions write, remove or move one.                    *)
LEMMA FilesNext == ASSUME Typed, Next PROVE Files'
<1> USE DEF Typed, Files
<1>1. NoFile \in Seq(Chunk) /\ Partial \in Seq(Chunk)
  BY EmptyFile, PartialType, TypeParts DEF Contents
<1>2. ASSUME NEW c \in Seq(Chunk), SetPartial(c)
      PROVE  part' \in [File -> [Revision -> Seq(Chunk)]]
  BY <1>2 DEF SetPartial
<1>3. ASSUME part' = part, final' = final PROVE Files'
  BY <1>3
<1>4. CASE \/ Begin \/ Unregister \/ Leave \/ Fail \/ Resolve \/ KeepExisting
           \/ FetchCancelled \/ FetchComplete \/ RequestFails
           \/ AnswerPartial \/ BodyEnds \/ BodyInterrupted \/ BackoffEnds
           \/ TakeDependency \/ WritePackageManifest \/ LastCheck
           \/ HashPrimary \/ WriteManifest \/ Complete
  BY <1>3, <1>4 DEF Begin, Unregister, Leave, Fail, Resolve, KeepExisting, FetchCancelled,
     FetchComplete, RequestFails, AnswerPartial, BodyEnds, BodyInterrupted, BackoffEnds,
     TakeDependency, WritePackageManifest, LastCheck, HashPrimary, WriteManifest, Complete, disk
<1>5. CASE \/ (\E s \in {"cancelled", "paused"} : StopRead(s)) \/ StopCancel \/ StopSet \/ Delete
           \/ Push \/ Crash
  BY <1>3, <1>5 DEF StopRead, StopCancel, StopSet, Delete, Push, Crash, disk
<1>6. CASE DiscardExisting
  BY <1>1, <1>6 DEF DiscardExisting
<1>7. CASE RecoverPartial \/ InstallVerified
  <2>1. final' = [final EXCEPT ![file] = Partial] /\ SetPartial(NoFile)
    BY <1>7 DEF RecoverPartial, InstallVerified, Install
  <2> QED
    BY <1>1, <1>2, <2>1
<1>8. CASE StartFetch
  <2>1. (IF Len(Partial) >= Expected THEN NoFile ELSE Partial) \in Seq(Chunk)
    BY <1>1
  <2> QED
    BY <1>8, <1>2, <2>1 DEF StartFetch
<1>9. CASE RejectFetched \/ Unsatisfiable \/ AnswerWhole \/ RemoveOversize
  BY <1>1, <1>2, <1>9 DEF RejectFetched, Unsatisfiable, AnswerWhole, RemoveOversize
<1>10. CASE Request
  BY <1>1, <1>2, <1>10 DEF Request
<1>11. CASE Receive \/ ReceiveDamaged
  <2>1. PICK r \in Revision \cup {Damaged} : SetPartial(Append(Partial, <<r, downloaded + 1>>))
    BY <1>11 DEF Receive, ReceiveDamaged, Values
  <2>2. Append(Partial, <<r, downloaded + 1>>) \in Seq(Chunk)
    BY AppendType, TypeParts DEF Contents
  <2> QED
    BY <1>2, <1>11, <2>1, <2>2 DEF Receive, ReceiveDamaged
<1>12. CASE DeleteStep
  BY <1>1, <1>12 DEF DeleteStep
<1> QED
  BY <1>4, <1>5, <1>6, <1>7, <1>8, <1>9, <1>10, <1>11, <1>12 DEF Next, DownloadStep, MainStep

(* Flags: the value each action gives them is Boolean by its form.          *)
LEMMA FlagsNext == ASSUME Typed, Next PROVE Flags'
<1> USE DEF Typed, Flags
<1>1. CASE Begin \/ Unregister \/ Leave \/ Resolve \/ KeepExisting \/ FetchComplete
           \/ AnswerPartial \/ BodyEnds \/ BackoffEnds
           \/ WritePackageManifest \/ HashPrimary \/ WriteManifest
  BY <1>1 DEF Begin, Unregister, Leave, Resolve, KeepExisting, FetchComplete, AnswerPartial,
     BodyEnds, BackoffEnds, WritePackageManifest, HashPrimary, WriteManifest,
     FileDone, disk, locals, ui, Others
<1>2. CASE Fail \/ FetchCancelled \/ RequestFails \/ BodyInterrupted \/ TakeDependency
           \/ LastCheck \/ Complete \/ RejectFetched \/ RemoveOversize
  BY <1>2 DEF Fail, FetchCancelled, RequestFails, BodyInterrupted, TakeDependency, LastCheck,
     Complete, RejectFetched, RemoveOversize, AttemptFailed, Return, disk, locals, ui, Others
<1>3. CASE DiscardExisting \/ RecoverPartial \/ StartFetch \/ InstallVerified \/ Request
           \/ Unsatisfiable \/ AnswerWhole \/ Receive \/ ReceiveDamaged
  BY <1>3 DEF DiscardExisting, RecoverPartial, StartFetch, InstallVerified, Request,
     Unsatisfiable, AnswerWhole, Receive, ReceiveDamaged, Install, FileDone, locals, ui, Others
<1>4. CASE MainStep \/ Push \/ Crash
  BY <1>4 DEF MainStep, StopRead, StopCancel, StopSet, Delete, DeleteStep, Push, Crash,
     disk, task, locals, ui
<1> QED
  BY <1>1, <1>2, <1>3, <1>4 DEF Next, DownloadStep

(* Values: the loops over files, attempts and the steps of a deletion stay  *)
(* within their bounds.                                                     *)
LEMMA ValuesNext == ASSUME Typed, Next PROVE Values'
<1> USE DownloadAssumption DEF Typed, Values, File, Revision, disk, shared, ui, bounds, Others
<1>1. ASSUME NEW r \in {"ok", "failed", "cancelled"}, Return(r)
      PROVE  /\ pc' = "ended" /\ result' \in {"ok", "failed", "cancelled"}
             /\ rev' \in Revision /\ file' \in File /\ existing' \in Nat /\ downloaded' \in Nat
             /\ failures' \in 0..MaxAttempts
  BY <1>1 DEF Return
<1>2. ASSUME NEW count \in Nat, AttemptFailed(count)
      PROVE  /\ pc' \in {"ended", "backoff"} /\ result' \in {"failed", result}
             /\ rev' \in Revision /\ file' \in File /\ existing' \in Nat /\ downloaded' \in Nat
             /\ failures' \in 0..MaxAttempts
  BY <1>2 DEF AttemptFailed, Return
<1>3. ASSUME FileDone
      PROVE  /\ pc' \in {"dependency", "package", "check"} /\ file' \in File
             /\ existing' \in Nat /\ downloaded' \in Nat /\ failures' \in 0..MaxAttempts
  BY <1>3 DEF FileDone
<1>4. CASE Begin \/ Unregister \/ Leave \/ Resolve
  BY <1>4 DEF Begin, Unregister, Leave, Resolve, locals
<1>5. CASE KeepExisting
  BY <1>5, <1>3 DEF KeepExisting, Show
<1>6. CASE RecoverPartial \/ InstallVerified
  BY <1>6, <1>3 DEF RecoverPartial, InstallVerified, Install, Show
<1>7. CASE Fail \/ FetchCancelled \/ Complete \/ RejectFetched \/ RemoveOversize
  BY <1>7, <1>1 DEF Fail, FetchCancelled, Complete, RejectFetched, RemoveOversize, Show
<1>8. CASE RequestFails \/ BodyInterrupted
  <2>1. PICK count \in Nat : AttemptFailed(count)
    BY <1>8 DEF RequestFails, BodyInterrupted
  <2> QED
    BY <1>2, <1>8, <2>1 DEF RequestFails, BodyInterrupted
<1>9. CASE FetchComplete \/ BodyEnds \/ BackoffEnds \/ HashPrimary
  <2>1. UNCHANGED <<head, disk, shared, rev, file, existing, downloaded, failures, result, ui,
                    bounds>>
    BY <1>9 DEF FetchComplete, BodyEnds, BackoffEnds, HashPrimary, locals
  <2>2. pc' \in {"verify", "fetch", "publish"}
    BY <1>9 DEF FetchComplete, BodyEnds, BackoffEnds, HashPrimary
  <2> QED
    BY <2>1, <2>2
<1>10. CASE AnswerPartial
  BY <1>10 DEF AnswerPartial
<1>11. CASE WritePackageManifest \/ WriteManifest
  BY <1>11 DEF WritePackageManifest, WriteManifest, locals
<1>12. CASE TakeDependency \/ LastCheck
  BY <1>12, <1>1 DEF TakeDependency, LastCheck, locals
<1>13. CASE Request
  <2>1. existing' \in Nat
    BY <1>13, PartialType, TypeParts DEF Request
  <2> QED
    BY <1>13, <2>1 DEF Request
<1>14. CASE DiscardExisting \/ StartFetch
  <2>1. UNCHANGED <<head, package, manifest, token, rev, file, existing, downloaded, failures,
                    result, ui, bounds>>
    BY <1>14 DEF DiscardExisting, StartFetch, locals
  <2>2. pc' \in {"prepare", "fetch"} /\ status' \in {status, "downloading"}
    BY <1>14 DEF DiscardExisting, StartFetch, Show
  <2> QED
    BY <2>1, <2>2
<1>15. CASE Unsatisfiable
  BY <1>15 DEF Unsatisfiable
<1>16. CASE Receive
  BY <1>16 DEF Receive
<1>17. CASE AnswerWhole \/ ReceiveDamaged
  BY <1>17 DEF AnswerWhole, ReceiveDamaged, Mishap
<1>18. CASE MainStep
  BY <1>18 DEF MainStep, StopRead, StopCancel, StopSet, Delete, DeleteStep, StopKnowsState,
     Mishap, task, locals
<1>19. CASE Push \/ Crash
  BY <1>19 DEF Push, Crash, Mishap, task, locals
<1> QED
  BY <1>4, <1>5, <1>6, <1>7, <1>8, <1>9, <1>10, <1>11,
     <1>12, <1>13, <1>14, <1>15, <1>16, <1>17, <1>18, <1>19 DEF Next, DownloadStep

LEMMA StopNext == ASSUME Typed, Next PROVE StopKnowsState'
<1> USE DEF Typed, StopKnowsState, ui, Others
<1>1. CASE Begin \/ DownloadStep \/ Push
  <2>1. UNCHANGED <<main, want>>
    BY <1>1 DEF Begin, DownloadStep, Push, Unregister, Leave, Fail, Resolve, KeepExisting,
       DiscardExisting, RecoverPartial, StartFetch, InstallVerified, RejectFetched, Install,
       FetchCancelled, FetchComplete, Request, RequestFails, Unsatisfiable, AnswerPartial,
       AnswerWhole, Receive, ReceiveDamaged, RemoveOversize, BodyEnds, BodyInterrupted,
       BackoffEnds, TakeDependency, WritePackageManifest, LastCheck, HashPrimary,
       WriteManifest, Complete
  <2> QED
    BY <2>1
<1>2. CASE MainStep \/ Crash
  BY <1>2 DEF MainStep, StopRead, StopCancel, StopSet, Delete, DeleteStep, Crash
<1> QED
  BY <1>1, <1>2 DEF Next

LEMMA TypeNext == Typed /\ [Next]_vars => Typed'
<1> SUFFICES ASSUME Typed, [Next]_vars PROVE Typed'
  OBVIOUS
<1>1. CASE UNCHANGED vars
  BY <1>1 DEF Typed, Files, Flags, Values, StopKnowsState,
     vars, disk, shared, task, locals, ui, bounds
<1>2. CASE Next
  BY <1>2, FilesNext, FlagsNext, ValuesNext, StopNext DEF Typed
<1> QED
  BY <1>1, <1>2

LEMMA AlwaysTyped == Spec => []Typed
<1>1. Init => Typed
  BY TypeInit
<1>2. Typed /\ [Next]_vars => Typed'
  BY TypeNext
<1> QED
  BY <1>1, <1>2, PTL DEF Spec

(* Every reachable state is well typed: the loops over files and attempts   *)
(* and the steps of a deletion stay within their bounds.                    *)
THEOREM TypeCorrect == Spec => []TypeOK
<1>1. Typed => TypeOK
  BY TypeParts
<1> QED
  BY <1>1, AlwaysTyped, PTL

-----------------------------------------------------------------------------
(* Partial files                                                            *)

LEMMA PartialWritten ==
  ASSUME Typed, NEW c \in Contents, SetPartial(c)
  PROVE  \A f \in File, r \in Revision :
           part'[f][r] = IF f = file /\ r = rev THEN c ELSE part[f][r]
BY DEF Typed, Files, Values, SetPartial, Contents

(* The body is written where the partial file ends.  The invariant that     *)
(* makes ResumeIsFaithful inductive.                                        *)
AtItsEnd ==
  /\ pc = "request" => existing = Len(Partial)
  /\ pc \in {"body", "oversize"} => downloaded = Len(Partial)

LEMMA AtItsEndNext == ASSUME Typed, AtItsEnd, [Next]_vars PROVE AtItsEnd'
<1> USE DEF AtItsEnd, Others
<1>1. file \in File /\ rev \in Revision /\ Partial \in Contents /\ Len(Partial) \in Nat
      /\ downloaded \in Nat
  BY PartialType, TypeParts DEF Typed, Values
<1>2. CASE UNCHANGED <<pc, existing, downloaded, part, file, rev>>
  BY <1>2 DEF Partial
<1>3. CASE pc' \notin {"request", "body", "oversize"}
  BY <1>3
<1>4. ASSUME NEW c \in Contents, SetPartial(c), UNCHANGED <<file, rev>>
      PROVE  Partial' = c
  BY <1>1, <1>4, PartialWritten DEF Partial
<1>5. CASE Request
  BY <1>1, <1>4, <1>5, EmptyFile DEF Request, Partial
<1>6. CASE AnswerPartial
  BY <1>6 DEF AnswerPartial, disk, Partial
<1>7. CASE AnswerWhole
  BY <1>4, <1>7, EmptyFile DEF AnswerWhole
<1>8. CASE Receive \/ ReceiveDamaged
  <2>1. PICK r \in Revision \cup {Damaged} : SetPartial(Append(Partial, <<r, downloaded + 1>>))
    BY <1>1, <1>8 DEF Receive, ReceiveDamaged
  <2>2. /\ Append(Partial, <<r, downloaded + 1>>) \in Contents
        /\ Len(Append(Partial, <<r, downloaded + 1>>)) = Len(Partial) + 1
    BY AppendType, TypeParts
  <2>3. UNCHANGED <<file, rev>> /\ downloaded' = downloaded + 1
        /\ pc = "body" /\ pc' \in {"body", "oversize"}
    BY <1>8 DEF Receive, ReceiveDamaged
  <2>4. Len(Partial') = Len(Partial) + 1
    BY <1>4, <2>1, <2>2, <2>3
  <2> QED
    BY <2>3, <2>4
<1>9. CASE MainStep \/ Push \/ UNCHANGED vars
  BY <1>2, <1>9 DEF MainStep, StopRead, StopCancel, StopSet, Delete, DeleteStep, Push,
     vars, disk, task, locals
<1>10. CASE Begin \/ Crash \/ Unregister \/ Leave \/ Fail \/ Resolve \/ KeepExisting
            \/ DiscardExisting \/ RecoverPartial \/ StartFetch \/ InstallVerified
            \/ RejectFetched \/ FetchCancelled \/ FetchComplete \/ RequestFails
            \/ Unsatisfiable \/ RemoveOversize \/ BodyEnds \/ BodyInterrupted
            \/ BackoffEnds \/ TakeDependency \/ WritePackageManifest \/ LastCheck
            \/ HashPrimary \/ WriteManifest \/ Complete
  BY <1>3, <1>10 DEF Begin, Crash, Unregister, Leave, Fail, Resolve, KeepExisting,
     DiscardExisting, RecoverPartial, StartFetch, InstallVerified, Install, FileDone,
     RejectFetched, FetchCancelled, FetchComplete, RequestFails, AttemptFailed,
     Unsatisfiable, RemoveOversize, BodyEnds, BodyInterrupted, BackoffEnds,
     TakeDependency, WritePackageManifest, LastCheck, HashPrimary, WriteManifest,
     Complete, Return
<1> QED
  BY <1>5, <1>6, <1>7, <1>8, <1>9, <1>10 DEF Next, DownloadStep

LEMMA FaithfulWrite ==
  ASSUME Typed, ResumeIsFaithful, NEW c \in Contents, SetPartial(c), FromRevision(c, rev)
  PROVE  ResumeIsFaithful'
BY PartialWritten DEF ResumeIsFaithful

LEMMA FaithfulNext ==
  ASSUME Typed, AtItsEnd, ResumeIsFaithful, [Next]_vars
  PROVE  ResumeIsFaithful'
<1>1. file \in File /\ rev \in Revision /\ Partial \in Contents /\ Len(Partial) \in Nat
      /\ downloaded \in Nat
  BY PartialType, TypeParts DEF Typed, Values
<1>2. CASE UNCHANGED part
  BY <1>2 DEF ResumeIsFaithful
<1>3. FromRevision(NoFile, rev)
  BY EmptyFile DEF FromRevision, NoFile
<1>4. FromRevision(Partial, rev)
  BY <1>1 DEF ResumeIsFaithful, Partial
<1>5. CASE RecoverPartial \/ InstallVerified \/ RejectFetched \/ Unsatisfiable \/ AnswerWhole
           \/ RemoveOversize
  BY <1>3, <1>5, FaithfulWrite, EmptyFile
  DEF RecoverPartial, InstallVerified, Install, RejectFetched, Unsatisfiable, AnswerWhole,
      RemoveOversize
<1>6. CASE StartFetch
  <2>1. PICK c \in {NoFile, Partial} : SetPartial(c)
    BY <1>6 DEF StartFetch
  <2> QED
    BY <1>1, <1>3, <1>4, <2>1, FaithfulWrite, EmptyFile
<1>7. CASE Request
  BY <1>2, <1>3, <1>7, FaithfulWrite, EmptyFile DEF Request
<1>8. CASE Receive \/ ReceiveDamaged
  <2>1. PICK r \in {rev, Damaged} : SetPartial(Append(Partial, <<r, downloaded + 1>>))
    BY <1>8 DEF Receive, ReceiveDamaged
  <2> DEFINE grown == Append(Partial, <<r, downloaded + 1>>)
  <2>2. grown \in Contents
    BY <1>1, AppendType, TypeParts
  <2>3. downloaded = Len(Partial)
    BY <1>8 DEF AtItsEnd, Receive, ReceiveDamaged
  <2>4. ASSUME NEW i \in DOMAIN grown PROVE grown[i] \in {<<rev, i>>, <<Damaged, i>>}
    <3>1. CASE i = Len(Partial) + 1
      BY <1>1, <2>3, <3>1 DEF Contents
    <3>2. CASE i # Len(Partial) + 1
      <4>1. i \in DOMAIN Partial /\ grown[i] = Partial[i]
        BY <1>1, <3>2 DEF Contents
      <4> QED
        BY <1>4, <4>1 DEF FromRevision
    <3> QED
      BY <3>1, <3>2
  <2>5. FromRevision(grown, rev)
    BY <2>4 DEF FromRevision
  <2> QED
    BY <2>1, <2>2, <2>5, FaithfulWrite
<1>9. CASE Begin \/ MainStep \/ Push \/ Crash \/ UNCHANGED vars
  BY <1>2, <1>9 DEF Begin, MainStep, StopRead, StopCancel, StopSet, Delete, DeleteStep, Push,
     Crash, vars, disk
<1>10. CASE Unregister \/ Leave \/ Fail \/ Resolve \/ KeepExisting \/ DiscardExisting
            \/ FetchCancelled \/ FetchComplete \/ RequestFails \/ AnswerPartial
            \/ BodyEnds \/ BodyInterrupted \/ BackoffEnds \/ TakeDependency
            \/ WritePackageManifest \/ LastCheck \/ HashPrimary \/ WriteManifest
            \/ Complete
  BY <1>2, <1>10 DEF Unregister, Leave, Fail, Resolve, KeepExisting, DiscardExisting,
     FetchCancelled, FetchComplete, RequestFails, AnswerPartial, BodyEnds, BodyInterrupted,
     BackoffEnds, TakeDependency, WritePackageManifest, LastCheck, HashPrimary,
     WriteManifest, Complete, disk
<1> QED
  BY <1>5, <1>6, <1>7, <1>8, <1>9, <1>10 DEF Next, DownloadStep

(* In whatever order requests fail, ranges are honoured or ignored, bodies  *)
(* break off, the head moves and the process dies, what download_resumable  *)
(* writes continues the partial file at the right position.                 *)
THEOREM ResumesFaithfully == Spec => []ResumeIsFaithful
<1> DEFINE Inv == Typed /\ AtItsEnd /\ ResumeIsFaithful
<1>1. Init => Inv
  BY TypeInit, EmptyFile DEF Init, AtItsEnd, ResumeIsFaithful, FromRevision, NoFile
<1>2. Inv /\ [Next]_vars => Inv'
  BY TypeNext, AtItsEndNext, FaithfulNext
<1>3. Inv => ResumeIsFaithful
  OBVIOUS
<1> QED
  BY <1>1, <1>2, <1>3, PTL DEF Spec

-----------------------------------------------------------------------------
(* Installed files and manifests                                            *)

LEMMA PassesWhat ==
  ASSUME Typed, NEW c \in Contents, Passes(c)
  PROVE  c # NoFile /\ (file \in Digested => c = Whole(file, rev))
<1>1. Expected \in Nat \ {0}
  BY FileLength DEF Typed, Values, Expected
<1> QED
  BY <1>1, EmptyFile DEF Passes

LEMMA FinalInstalled ==
  ASSUME Typed, Install
  PROVE  \A f \in File : final'[f] = IF f = file THEN Partial ELSE final[f]
BY DEF Typed, Files, Install

(* The actions that write no installed file and no manifest.                *)
Aside ==
  \/ Unregister \/ Leave \/ Fail \/ Resolve \/ KeepExisting \/ StartFetch \/ RejectFetched
  \/ FetchCancelled \/ FetchComplete \/ Request \/ RequestFails \/ Unsatisfiable
  \/ AnswerPartial \/ AnswerWhole \/ Receive \/ ReceiveDamaged \/ RemoveOversize \/ BodyEnds
  \/ BodyInterrupted \/ BackoffEnds \/ TakeDependency \/ LastCheck \/ HashPrimary \/ Complete

LEMMA AsideKeepsFinal == Aside => UNCHANGED <<final, package, manifest>>
BY DEF Aside, Unregister, Leave, Fail, Resolve, KeepExisting, StartFetch, RejectFetched,
   FetchCancelled, FetchComplete, Request, RequestFails, Unsatisfiable, AnswerPartial,
   AnswerWhole, Receive, ReceiveDamaged, RemoveOversize, BodyEnds, BodyInterrupted,
   BackoffEnds, TakeDependency, LastCheck, HashPrimary, Complete, disk

LEMMA GenuineNext ==
  ASSUME Typed, DigestedIsGenuine, [Next]_vars
  PROVE  DigestedIsGenuine'
<1> USE DEF DigestedIsGenuine
<1>1. Digested \subseteq File /\ rev \in Revision
  BY DownloadAssumption DEF Typed, Values
<1>2. CASE UNCHANGED final
  BY <1>2
<1>3. CASE RecoverPartial \/ InstallVerified
  <2>1. Install /\ Passes(Partial)
    BY <1>3 DEF RecoverPartial, InstallVerified
  <2>2. file \in Digested => Partial = Whole(file, rev)
    BY <2>1, PassesWhat, PartialType, TypeParts
  <2> QED
    BY <1>1, <2>1, <2>2, FinalInstalled
<1>4. CASE DiscardExisting \/ DeleteStep
  <2>1. \A f \in File : final'[f] \in {NoFile, final[f]}
    BY <1>4 DEF DiscardExisting, DeleteStep, Typed, Files
  <2> QED
    BY <1>1, <2>1
<1>5. CASE Aside
  BY <1>2, <1>5, AsideKeepsFinal
<1>6. CASE \/ Begin \/ WritePackageManifest \/ WriteManifest \/ Push \/ Crash \/ StopCancel
           \/ (\E s \in {"cancelled", "paused"} : StopRead(s)) \/ StopSet \/ Delete
           \/ UNCHANGED vars
  BY <1>2, <1>6 DEF Begin, WritePackageManifest, WriteManifest, Push, Crash, StopCancel,
     StopRead, StopSet, Delete, vars, disk
<1> QED
  BY <1>3, <1>4, <1>5, <1>6 DEF Next, DownloadStep, MainStep, Aside

(* An installed file with a published digest is the file of some revision,  *)
(* whole and undamaged.                                                     *)
THEOREM InstalledIsGenuine == Spec => []DigestedIsGenuine
<1> DEFINE Inv == Typed /\ DigestedIsGenuine
<1>1. Init => Inv
  BY TypeInit, DownloadAssumption DEF Init, DigestedIsGenuine
<1>2. Inv /\ [Next]_vars => Inv'
  BY TypeNext, GenuineNext
<1>3. Inv => DigestedIsGenuine
  OBVIOUS
<1> QED
  BY <1>1, <1>2, <1>3, PTL DEF Spec

(* What was installed is of some revision and has the size it has there.    *)
Dated ==
  \A f \in File :
    \/ final[f] = NoFile
    \/ \E r \in Revision : FromRevision(final[f], r) /\ Len(final[f]) = Length(f, r)

LEMMA DatedNext ==
  ASSUME Typed, ResumeIsFaithful, Dated, [Next]_vars
  PROVE  Dated'
<1> USE DEF Dated
<1>1. CASE UNCHANGED final
  BY <1>1
<1>2. CASE RecoverPartial \/ InstallVerified
  <2>1. Install /\ Passes(Partial)
    BY <1>2 DEF RecoverPartial, InstallVerified
  <2>2. rev \in Revision /\ file \in File
    BY DEF Typed, Values
  <2>3. FromRevision(Partial, rev) /\ Len(Partial) = Length(file, rev)
    BY <2>1, <2>2 DEF ResumeIsFaithful, Partial, Passes, Expected
  <2> QED
    BY <2>1, <2>2, <2>3, FinalInstalled
<1>3. CASE DiscardExisting \/ DeleteStep
  <2>1. \A f \in File : final'[f] \in {NoFile, final[f]}
    BY <1>3 DEF DiscardExisting, DeleteStep, Typed, Files
  <2> QED
    BY <2>1
<1>4. CASE Aside
  BY <1>1, <1>4, AsideKeepsFinal
<1>5. CASE \/ Begin \/ WritePackageManifest \/ WriteManifest \/ Push \/ Crash \/ StopCancel
           \/ (\E s \in {"cancelled", "paused"} : StopRead(s)) \/ StopSet \/ Delete
           \/ UNCHANGED vars
  BY <1>1, <1>5 DEF Begin, WritePackageManifest, WriteManifest, Push, Crash, StopCancel,
     StopRead, StopSet, Delete, vars, disk
<1> QED
  BY <1>2, <1>3, <1>4, <1>5 DEF Next, DownloadStep, MainStep, Aside

(* Two revisions of a file differ in what is looked at.                     *)
Distinguishable == File = Digested \cup Resized

LEMMA SizeTellsRevision ==
  ASSUME NEW f \in Resized, NEW r \in Revision, NEW q \in Revision, Length(f, r) = Length(f, q)
  PROVE  r = q
BY DownloadAssumption DEF Length, Revision

LEMMA NothingIsOfAnyRevision == \A r : FromRevision(NoFile, r)
BY DEF FromRevision, NoFile

LEMMA WholeIsOfItsRevision == \A f, r : FromRevision(Whole(f, r), r)
BY DEF FromRevision, Whole

(* A file that was there and passes is of the revision that is downloaded.  *)
LEMMA PassesInTime ==
  ASSUME Typed, Dated, Distinguishable, Passes(final[file])
  PROVE  FromRevision(final[file], rev)
<1>1. file \in File /\ rev \in Revision /\ final[file] \in Contents
  BY DEF Typed, Values, Files, Contents
<1>2. CASE file \in Digested
  BY <1>1, <1>2, PassesWhat, WholeIsOfItsRevision
<1>3. CASE file \in Resized
  <2>1. PICK r \in Revision : FromRevision(final[file], r) /\ Len(final[file]) = Length(file, r)
    BY <1>1, PassesWhat DEF Dated
  <2>2. r = rev
    BY <1>1, <1>3, <2>1, SizeTellsRevision DEF Passes, Expected
  <2> QED
    BY <2>1, <2>2
<1> QED
  BY <1>1, <1>2, <1>3 DEF Distinguishable

(* The files the download is done with, and what is known of them.          *)
Finished == pc \in {"package", "check", "hash", "publish", "complete"}

Processed(f) == f < file \/ (f = file /\ Finished)

Intact(f) ==
  /\ f \in Digested => final[f] \in {NoFile, Whole(f, rev)}
  /\ ~raced => final[f] # NoFile
  /\ Distinguishable => FromRevision(final[f], rev)

Outside == pc \in {"idle", "resolving", "ended", "leaving"}

Kept ==
  /\ Outside => file = 1
  /\ Finished => file = N
  /\ main = "delete" => raced
  /\ \A f \in File : Processed(f) => Intact(f)
  /\ pc \in {"check", "hash", "publish"} /\ N > 1 /\ ~raced => package = rev

(* A step that changes no file, and does not get further with the package.  *)
LEMMA KeptAside ==
  ASSUME Typed, Kept, UNCHANGED <<final, rev, file, package>>,
         UNCHANGED raced \/ raced', main' = "delete" => raced',
         Outside' => Outside, Finished' => Finished,
         pc' \in {"check", "hash", "publish"} => pc \in {"check", "hash", "publish"}
  PROVE  Kept'
BY DEF Kept, Processed, Intact

(* The download is over: nothing is done with.                              *)
LEMMA KeptOutside ==
  ASSUME file' = 1, Outside', main' = "delete" => raced'
  PROVE  Kept'
<1>1. ~Finished'
  BY DEF Outside, Finished
<1>2. \A f \in File : ~Processed(f)'
  BY <1>1 DEF Processed, File
<1>3. pc' \notin {"check", "hash", "publish"}
  BY DEF Outside
<1> QED
  BY <1>1, <1>2, <1>3 DEF Kept

LEMMA KeptFileDone ==
  ASSUME Typed, Kept, FileDone, UNCHANGED <<rev, raced, main>>,
         \A f \in File : f # file => final'[f] = final[f],
         final'[file] # NoFile, file \in Digested => final'[file] = Whole(file, rev),
         Distinguishable => FromRevision(final'[file], rev)
  PROVE  Kept'
<1>1. file \in File
  BY DEF Typed, Values
<1>2. ~Outside' /\ (Finished' => file' = N)
  BY <1>1, DownloadAssumption DEF FileDone, Outside, Finished, File
<1>3. main' = "delete" => raced'
  BY DEF Kept
<1>4. ASSUME NEW f \in File, Processed(f)' PROVE Intact(f)'
  <2>1. f < file \/ f = file
    BY <1>1, <1>4, DownloadAssumption DEF FileDone, Processed, Finished, File
  <2>2. CASE f = file
    BY <2>2 DEF Intact
  <2>3. CASE f < file
    <3>1. Intact(f) /\ final'[f] = final[f]
      BY <1>1, <2>3 DEF Kept, Processed, File
    <3> QED
      BY <3>1 DEF Intact
  <2> QED
    BY <2>1, <2>2, <2>3
<1>5. ~(pc' \in {"check", "hash", "publish"} /\ N > 1)
  BY DownloadAssumption DEF FileDone
<1> QED
  BY <1>2, <1>3, <1>4, <1>5 DEF Kept

LEMMA KeptNext ==
  ASSUME Typed, ResumeIsFaithful, Dated, Kept, [Next]_vars
  PROVE  Kept'
<1> USE DEF Others, ui
<1>1. file \in File /\ Partial \in Contents /\ final[file] \in Contents
  BY PartialType, TypeParts DEF Typed, Values, Files, Contents
<1>2. main = "delete" => raced
  BY DEF Kept
<1>3. CASE Begin \/ Crash
  BY <1>2, <1>3, KeptOutside DEF Begin, Crash, locals, Kept, Outside
<1>4. ASSUME NEW r \in {"ok", "failed", "cancelled"}, Return(r), UNCHANGED <<main, raced>>
      PROVE  Kept'
  BY <1>2, <1>4, KeptOutside DEF Return, Outside
<1>5. CASE Unregister \/ Leave
  BY <1>2, <1>5, KeptOutside DEF Unregister, Leave, locals, Kept, Outside
<1>6. CASE Fail \/ RejectFetched \/ FetchCancelled \/ RemoveOversize \/ Complete
  BY <1>4, <1>6 DEF Fail, RejectFetched, FetchCancelled, RemoveOversize, Complete
<1>7. CASE Resolve
  <2>1. file' = 1 /\ pc' = "existing" /\ UNCHANGED <<main, raced>>
    BY <1>7 DEF Resolve, Kept, Outside
  <2>2. \A f \in File : ~Processed(f)'
    BY <2>1 DEF Processed, Finished, File
  <2> QED
    BY <1>2, <2>1, <2>2 DEF Kept, Outside, Finished
<1>8. CASE KeepExisting
  <2>1. final[file] # NoFile /\ (file \in Digested => final[file] = Whole(file, rev))
    BY <1>1, <1>8, PassesWhat DEF KeepExisting
  <2>2. Distinguishable => FromRevision(final[file], rev)
    BY <1>8, PassesInTime DEF KeepExisting
  <2> QED
    BY <1>8, <2>1, <2>2, KeptFileDone DEF KeepExisting, disk
<1>9. CASE RecoverPartial \/ InstallVerified
  <2>1. Install /\ Passes(Partial)
    BY <1>9 DEF RecoverPartial, InstallVerified
  <2>2. Partial # NoFile /\ (file \in Digested => Partial = Whole(file, rev))
    BY <1>1, <2>1, PassesWhat
  <2>3. \A f \in File : final'[f] = IF f = file THEN Partial ELSE final[f]
    BY <2>1, FinalInstalled
  <2>4. FileDone /\ UNCHANGED <<rev, raced, main>>
    BY <2>1 DEF Install
  <2>5. FromRevision(Partial, rev)
    BY DEF ResumeIsFaithful, Partial, Typed, Values
  <2> QED
    BY <1>1, <2>2, <2>3, <2>4, <2>5, KeptFileDone
<1>10. CASE DiscardExisting
  <2>1. /\ pc' = "prepare" /\ UNCHANGED <<file, rev, raced, main>>
        /\ \A f \in File : f # file => final'[f] = final[f]
    BY <1>10 DEF DiscardExisting, locals, Typed, Files
  <2>2. \A f \in File : Processed(f)' => Processed(f) /\ f # file
    BY <1>1, <2>1 DEF Processed, Finished, File
  <2>3. \A f \in File : Processed(f)' => Intact(f)'
    BY <2>1, <2>2 DEF Kept, Intact
  <2> QED
    BY <1>2, <2>1, <2>3 DEF Kept, Outside, Finished
<1>11. CASE StartFetch \/ FetchComplete \/ Request \/ Unsatisfiable \/ AnswerPartial
            \/ AnswerWhole \/ Receive \/ ReceiveDamaged \/ BodyEnds \/ BackoffEnds
  BY <1>2, <1>11, KeptAside DEF StartFetch, FetchComplete, Request, Unsatisfiable,
     AnswerPartial, AnswerWhole, Receive, ReceiveDamaged, BodyEnds, BackoffEnds,
     disk, locals, Outside, Finished
<1>12. CASE RequestFails \/ BodyInterrupted
  <2>1. PICK count \in Nat : AttemptFailed(count)
    BY <1>12 DEF RequestFails, BodyInterrupted, Typed, Values
  <2>2. UNCHANGED <<final, package, main, raced>>
    BY <1>12 DEF RequestFails, BodyInterrupted, disk
  <2>3. CASE Return("failed")
    BY <1>4, <2>2, <2>3
  <2>4. CASE pc' = "backoff" /\ UNCHANGED <<rev, file>>
    BY <1>2, <2>2, <2>4, KeptAside DEF Outside, Finished
  <2> QED
    BY <2>1, <2>3, <2>4 DEF AttemptFailed
<1>13. CASE TakeDependency \/ LastCheck
  <2>1. CASE Cancelled
    BY <1>4, <1>13, <2>1 DEF TakeDependency, LastCheck
  <2>2. CASE ~Cancelled
    BY <1>2, <1>13, <2>2, KeptAside DEF TakeDependency, LastCheck, disk, locals, Outside, Finished
  <2> QED
    BY <2>1, <2>2
<1>14. CASE HashPrimary \/ WriteManifest
  BY <1>2, <1>14, KeptAside DEF HashPrimary, WriteManifest, disk, locals, Outside, Finished
<1>15. CASE WritePackageManifest
  <2>1. /\ pc = "package" /\ pc' = "check" /\ package' = rev
        /\ UNCHANGED <<final, file, rev, raced, main>>
    BY <1>15 DEF WritePackageManifest, locals
  <2>2. \A f \in File : Processed(f)' => Intact(f)'
    BY <2>1 DEF Kept, Processed, Finished, Intact
  <2> QED
    BY <1>2, <2>1, <2>2 DEF Kept, Outside, Finished
<1>16. CASE (\E s \in {"cancelled", "paused"} : StopRead(s)) \/ StopCancel \/ StopSet \/ Delete
            \/ Push \/ UNCHANGED vars
  BY <1>2, <1>16, KeptAside DEF StopRead, StopCancel, StopSet, Delete, Push, vars, disk, task,
     locals, Outside, Finished
<1>17. CASE DeleteStep
  <2>1. raced /\ raced' /\ UNCHANGED <<pc, file, rev>>
    BY <1>2, <1>17 DEF DeleteStep, task, locals
  <2>2. \A f \in File : final'[f] \in {NoFile, final[f]}
    BY <1>17 DEF DeleteStep, Typed, Files
  <2>3. \A f \in File : Processed(f)' => Intact(f)'
    BY <2>1, <2>2, NothingIsOfAnyRevision DEF Kept, Processed, Finished, Intact
  <2> QED
    BY <2>1, <2>3 DEF Kept, Outside, Finished
<1> QED
  BY <1>3, <1>5, <1>6, <1>7, <1>8, <1>9, <1>10, <1>11, <1>12, <1>13, <1>14, <1>15, <1>16, <1>17
  DEF Next, DownloadStep, MainStep

Sound == Typed /\ AtItsEnd /\ ResumeIsFaithful /\ Dated /\ Kept

LEMMA AlwaysSound == Spec => []Sound
<1>1. ASSUME Init PROVE Sound
  <2>1. Typed
    BY <1>1, TypeInit
  <2>2. AtItsEnd /\ ResumeIsFaithful
    BY <1>1, NothingIsOfAnyRevision DEF Init, AtItsEnd, ResumeIsFaithful
  <2>3. Dated
    BY <1>1 DEF Init, Dated
  <2>4. Kept
    BY <1>1 DEF Init, Kept, Outside, Finished, Processed, File
  <2> QED
    BY <2>1, <2>2, <2>3, <2>4 DEF Sound
<1>2. Sound /\ [Next]_vars => Sound'
  BY TypeNext, AtItsEndNext, FaithfulNext, DatedNext, KeptNext DEF Sound
<1> QED
  BY <1>1, <1>2, PTL DEF Spec

(* Only WriteManifest publishes.                                            *)
LEMMA PublishStep == ASSUME [Next]_vars, Publishes PROVE WriteManifest
<1> USE DEF Publishes
<1>1. CASE Begin \/ Unregister \/ Leave \/ Fail \/ Resolve \/ KeepExisting \/ DiscardExisting
           \/ RecoverPartial \/ StartFetch \/ InstallVerified \/ RejectFetched
           \/ FetchCancelled \/ FetchComplete \/ Request \/ RequestFails \/ Unsatisfiable
           \/ AnswerPartial \/ AnswerWhole \/ Receive \/ ReceiveDamaged \/ RemoveOversize
           \/ BodyEnds \/ BodyInterrupted \/ BackoffEnds \/ TakeDependency
           \/ WritePackageManifest \/ LastCheck \/ HashPrimary \/ Complete \/ Crash
  BY <1>1 DEF Begin, Unregister, Leave, Fail, Resolve, KeepExisting, DiscardExisting,
     RecoverPartial, StartFetch, InstallVerified, RejectFetched, FetchCancelled,
     FetchComplete, Request, RequestFails, Unsatisfiable, AnswerPartial, AnswerWhole,
     Receive, ReceiveDamaged, RemoveOversize, BodyEnds, BodyInterrupted, BackoffEnds,
     TakeDependency, WritePackageManifest, LastCheck, HashPrimary, Complete, Crash, Return
<1>2. CASE MainStep \/ Push \/ UNCHANGED vars
  BY <1>2 DEF MainStep, StopRead, StopCancel, StopSet, Delete, DeleteStep, Push, vars, task
<1> QED
  BY <1>1, <1>2 DEF Next, DownloadStep

(* What is known of the files when the manifest of the model is written.    *)
LEMMA Published ==
  ASSUME Sound, [Next]_vars, Publishes
  PROVE  /\ manifest' = rev /\ file = N
         /\ \A f \in File : Intact(f)
         /\ N > 1 /\ ~raced => package = rev
<1>1. WriteManifest
  BY PublishStep
<1>2. pc = "publish" /\ manifest' = rev
  BY <1>1 DEF WriteManifest
<1>3. Finished /\ file = N
  BY <1>2 DEF Sound, Kept, Finished
<1>4. \A f \in File : Processed(f)
  BY <1>3, DownloadAssumption DEF Processed, File
<1> QED
  BY <1>2, <1>3, <1>4 DEF Sound, Kept

(* The primary manifest is published only when every file of the package is *)
(* there, those with a digest are genuine, and the package manifest is of   *)
(* the same snapshot; unless a deletion overlapped the download.            *)
THEOREM PublishedWhole == Spec => PublishedIsWhole
<1>1. ASSUME Sound, [Next]_vars
      PROVE  Publishes /\ ~raced =>
               /\ \A f \in File : final[f] # NoFile
               /\ \A f \in Digested : final[f] = Whole(f, manifest')
               /\ N > 1 => package = manifest'
  <2> SUFFICES ASSUME Publishes, ~raced
               PROVE  /\ \A f \in File : final[f] # NoFile
                      /\ \A f \in Digested : final[f] = Whole(f, manifest')
                      /\ N > 1 => package = manifest'
    OBVIOUS
  <2>1. manifest' = rev /\ (\A f \in File : Intact(f)) /\ (N > 1 => package = rev)
    BY <1>1, Published
  <2> QED
    BY <2>1, DownloadAssumption DEF Intact
<1> QED
  BY <1>1, AlwaysSound, PTL DEF Spec, PublishedIsWhole

(* When every file has a digest or changes its size with every revision, a  *)
(* published package is never put together from two revisions; without that *)
(* hypothesis it may be.                                                    *)
THEOREM PublishedOfOneRevision == ASSUME Distinguishable PROVE Spec => OneRevision
<1>1. ASSUME Sound, [Next]_vars
      PROVE  Publishes => \A f \in File : FromRevision(final[f], manifest')
  BY <1>1, Published DEF Intact
<1> QED
  BY <1>1, AlwaysSound, PTL DEF Spec, OneRevision
=============================================================================

---------------------------- MODULE ModelDownload ----------------------------
(***************************************************************************)
(* The installation of a model package (model_download.rs, model_package.rs, *)
(* net.rs): a primary file and its dependencies are fetched from one        *)
(* snapshot of a repository whose head may move, each through a partial     *)
(* file that survives lost connections and restarts, checked, moved into    *)
(* the directory of the model and recorded in two manifests.  Meanwhile the *)
(* main thread may pause, cancel or delete, and the process may die.        *)
(*                                                                          *)
(* A file is the sequence of its chunks; a chunk is the revision and the    *)
(* position it comes from, or damaged.  The dependencies are required and   *)
(* belong to the repository of the primary file.                            *)
(***************************************************************************)
EXTENDS Naturals, Sequences

CONSTANTS
  N,            \* files of the package; 1 is the primary, the others its dependencies
  Size,         \* chunks of a file in revision 1
  Resized,      \* files that grow by a chunk with every revision
  Digested,     \* files whose metadata has a SHA-256
  MaxAttempts,  \* of net.rs
  MaxRevision,  \* bound: revisions of the repository
  MaxDownloads, \* bound: calls of download_catalog_model
  MaxMishaps    \* bound: damaged chunks, range requests answered with the
                \* whole file, stops, deletions and deaths of the process

File     == 1..N
Revision == 1..MaxRevision

ASSUME DownloadAssumption ==
  /\ N \in Nat \ {0} /\ Size \in Nat \ {0}
  /\ Resized \subseteq File /\ Digested \subseteq File
  /\ MaxAttempts \in Nat \ {0} /\ MaxRevision \in Nat \ {0}
  /\ MaxDownloads \in Nat /\ MaxMishaps \in Nat

Damaged == 0
Chunk   == (Revision \cup {Damaged}) \X (Nat \ {0})
NoFile  == <<>>

Length(f, r) == IF f \in Resized THEN Size + r - 1 ELSE Size
Whole(f, r)  == [i \in 1..Length(f, r) |-> <<r, i>>]

(* What a file of revision r can look like when it was put together in the  *)
(* right order from the right answers.                                      *)
FromRevision(content, r) ==
  \A i \in DOMAIN content : content[i] \in {<<r, i>>, <<Damaged, i>>}

VARIABLES
  head,      \* the revision metadata names
  part,      \* the partial files, by file and pinned revision
  final,     \* the files in the directory of the model
  dir,       \* that directory exists
  package,   \* the revision in package-manifest.json, or 0
  manifest,  \* the revision in model-manifest.json, or 0
  status,    \* DownloadState
  token,     \* the registered token: none, live or cancelled
  pc,        \* what the download is doing; "idle" when the permit is free
  rev,       \* the revision of its metadata
  file,      \* the file it works on
  existing,  \* the chunks that were there before the request
  downloaded, \* and those the body has added
  failures,  \* consecutive failed attempts
  restarted, \* restarted_after_416
  result,    \* what download_entry_inner has returned
  main,      \* what the main thread is doing
  want,      \* the state pause or cancel sets
  mine,      \* the token it holds is the registered one
  step,      \* how far delete_catalog_model is
  raced,     \* history: a deletion overlapped the download
  downloads, mishaps

disk   == <<part, final, dir, package, manifest>>
shared == <<status, token>>
locals == <<rev, file, existing, downloaded, failures, restarted, result>>
task   == <<pc, locals>>
ui     == <<main, want, mine, step>>
bounds == <<downloads, mishaps>>
vars   == <<head, disk, shared, task, ui, raced, bounds>>

Init ==
  /\ head = 1
  /\ part = [f \in File |-> [r \in Revision |-> NoFile]]
  /\ final = [f \in File |-> NoFile]
  /\ dir = FALSE /\ package = 0 /\ manifest = 0
  /\ status = "queued" /\ token = "none"
  /\ pc = "idle" /\ rev = 1 /\ file = 1 /\ existing = 0 /\ downloaded = 0
  /\ failures = 0 /\ restarted = FALSE /\ result = "none"
  /\ main = "idle" /\ want = "none" /\ mine = FALSE /\ step = 1
  /\ raced = FALSE
  /\ downloads = 0 /\ mishaps = 0

Mishap == mishaps < MaxMishaps /\ mishaps' = mishaps + 1

-----------------------------------------------------------------------------
(* The call of download_catalog_model                                       *)

Others == UNCHANGED <<head, ui, raced, bounds>>

(* The permit is taken, the status reset and a new token registered.        *)
Begin ==
  /\ pc = "idle" /\ downloads < MaxDownloads
  /\ downloads' = downloads + 1
  /\ status' = "resolving" /\ token' = "live"
  /\ pc' = "resolving"
  /\ raced' = (main = "delete")
  /\ UNCHANGED <<head, disk, locals, ui, mishaps>>

(* download_entry_inner returns r, and its locals are gone.                 *)
Return(r) ==
  /\ pc' = "ended" /\ result' = r
  /\ rev' = 1 /\ file' = 1 /\ existing' = 0 /\ downloaded' = 0
  /\ failures' = 0 /\ restarted' = FALSE

Unregister ==
  /\ pc = "ended"
  /\ token' = "none" /\ mine' = FALSE
  /\ pc' = "leaving"
  /\ UNCHANGED <<head, disk, status, locals, main, want, step, raced, bounds>>

(* The status of a stopped download is the one its stop has set.            *)
Leave ==
  /\ pc = "leaving"
  /\ status' = IF result = "failed" THEN "failed" ELSE status
  /\ pc' = "idle" /\ result' = "none"
  /\ UNCHANGED <<disk, token, rev, file, existing, downloaded, failures, restarted>> /\ Others

(* An error of the file system, the disk space or an HTTP status that is    *)
(* not retried; "?" returns it.                                             *)
Fail ==
  /\ pc \in {"resolving", "existing", "prepare", "request", "body", "verify",
             "dependency", "package", "hash", "publish"}
  /\ Return("failed")
  /\ UNCHANGED <<disk, shared>> /\ Others

(* The metadata names the commit everything is fetched from.                *)
Resolve ==
  /\ pc = "resolving"
  /\ rev' = head
  /\ dir' = TRUE
  /\ pc' = "existing"
  /\ UNCHANGED <<part, final, package, manifest, shared, file, existing, downloaded,
                 failures, restarted, result>> /\ Others

-----------------------------------------------------------------------------
(* One file                                                                 *)

Expected == Length(file, rev)
Partial  == part[file][rev]

SetPartial(content) == part' = [part EXCEPT ![file][rev] = content]

(* The status is only kept for the primary file.                            *)
Show(s) == status' = IF file = 1 THEN s ELSE status

(* Mutant: any file of the right size is taken.                             *)
PassesBySize(content) == Len(content) = Expected

(* Size, and digest where there is one.                                     *)
Passes(content) ==
  /\ Len(content) = Expected
  /\ file \in Digested => content = Whole(file, rev)

(* Mutant: the package manifest is written without the last dependency.     *)
FileDoneEarly ==
  /\ existing' = 0 /\ downloaded' = 0 /\ failures' = 0 /\ restarted' = FALSE
  /\ IF file + 1 < N THEN pc' = "dependency" /\ file' = file + 1
                     ELSE pc' = "package" /\ file' = file

FileDone ==
  /\ existing' = 0 /\ downloaded' = 0 /\ failures' = 0 /\ restarted' = FALSE
  /\ IF file < N THEN pc' = "dependency" /\ file' = file + 1
                 ELSE pc' = (IF N = 1 THEN "check" ELSE "package") /\ file' = file

KeepExisting ==
  /\ pc = "existing" /\ Passes(final[file])
  /\ Show("verifying")
  /\ FileDone
  /\ UNCHANGED <<disk, token, rev, result>> /\ Others

DiscardExisting ==
  /\ pc = "existing" /\ dir /\ ~Passes(final[file])
  /\ final' = [final EXCEPT ![file] = NoFile]
  /\ pc' = "prepare"
  /\ UNCHANGED <<part, dir, package, manifest, shared, locals>> /\ Others

(* The partial file is renamed into place, if its place still exists.       *)
Install ==
  /\ dir
  /\ final' = [final EXCEPT ![file] = Partial]
  /\ SetPartial(NoFile)
  /\ FileDone
  /\ UNCHANGED <<dir, package, manifest, token, rev, result>> /\ Others

RecoverPartial ==
  /\ pc = "prepare" /\ Passes(Partial)
  /\ Install
  /\ UNCHANGED status

(* A partial file that is too long, or complete and wrong, is discarded.    *)
StartFetch ==
  /\ pc = "prepare" /\ ~Passes(Partial)
  /\ SetPartial(IF Len(Partial) >= Expected THEN NoFile ELSE Partial)
  /\ Show("downloading")
  /\ pc' = "fetch"
  /\ UNCHANGED <<final, dir, package, manifest, token, locals>> /\ Others

InstallVerified ==
  /\ pc = "verify" /\ Passes(Partial)
  /\ Install
  /\ Show("verifying")

RejectFetched ==
  /\ pc = "verify" /\ ~Passes(Partial)
  /\ SetPartial(NoFile)
  /\ Show("verifying")
  /\ Return("failed")
  /\ UNCHANGED <<final, dir, package, manifest, token>> /\ Others

-----------------------------------------------------------------------------
(* download_resumable                                                       *)

Cancelled == token = "cancelled"

(* The token is looked at before a request, during the body and between     *)
(* attempts, not while a request is being answered.                         *)
FetchCancelled ==
  /\ pc \in {"fetch", "body", "backoff"} /\ Cancelled
  /\ Return("cancelled")
  /\ UNCHANGED <<disk, shared>> /\ Others

FetchComplete ==
  /\ pc = "fetch" /\ ~Cancelled /\ Len(Partial) = Expected
  /\ pc' = "verify"
  /\ UNCHANGED <<disk, shared, locals>> /\ Others

Request ==
  /\ pc = "fetch" /\ ~Cancelled /\ Len(Partial) # Expected
  /\ IF Len(Partial) > Expected
       THEN SetPartial(NoFile) /\ existing' = 0
       ELSE UNCHANGED part /\ existing' = Len(Partial)
  /\ pc' = "request"
  /\ UNCHANGED <<final, dir, package, manifest, shared, rev, file, downloaded, failures,
                 restarted, result>> /\ Others

(* Mutant: an attempt that failed is not counted.                           *)
AttemptNotCounted(count) ==
  /\ pc' = "backoff" /\ failures' = 1
  /\ UNCHANGED <<rev, file, existing, downloaded, restarted, result>>

(* The attempt failed; the call gives up or waits.                          *)
AttemptFailed(count) ==
  IF count >= MaxAttempts
    THEN Return("failed")
    ELSE /\ pc' = "backoff" /\ failures' = count
         /\ UNCHANGED <<rev, file, existing, downloaded, restarted, result>>

RequestFails ==
  /\ pc = "request"
  /\ AttemptFailed(failures + 1)
  /\ UNCHANGED <<disk, shared>> /\ Others

(* 416: the partial file is removed, once.                                  *)
Unsatisfiable ==
  /\ pc = "request" /\ existing > 0 /\ ~restarted
  /\ SetPartial(NoFile)
  /\ restarted' = TRUE
  /\ pc' = "fetch"
  /\ UNCHANGED <<final, dir, package, manifest, shared, rev, file, existing, downloaded,
                 failures, result>> /\ Others

(* 206: the body continues the partial file.                                *)
AnswerPartial ==
  /\ pc = "request" /\ existing > 0
  /\ downloaded' = existing
  /\ pc' = "body"
  /\ UNCHANGED <<disk, shared, rev, file, existing, failures, restarted, result>> /\ Others

(* Mutant: the file is opened for appending whatever the answer.            *)
AnswerWholeAppended ==
  /\ pc = "request"
  /\ IF existing > 0 THEN Mishap ELSE UNCHANGED mishaps
  /\ existing' = 0 /\ downloaded' = 0
  /\ pc' = "body"
  /\ UNCHANGED <<head, disk, shared, rev, file, failures, restarted, result, ui, raced,
                 downloads>>

(* 200: the body is the whole file, and the partial file is truncated.      *)
AnswerWhole ==
  /\ pc = "request"
  /\ IF existing > 0 THEN Mishap ELSE UNCHANGED mishaps
  /\ SetPartial(NoFile)
  /\ existing' = 0 /\ downloaded' = 0
  /\ pc' = "body"
  /\ UNCHANGED <<head, final, dir, package, manifest, shared, rev, file, failures,
                 restarted, result, ui, raced, downloads>>

Receive ==
  /\ pc = "body" /\ downloaded < Expected
  /\ SetPartial(Append(Partial, <<rev, downloaded + 1>>))
  /\ downloaded' = downloaded + 1
  /\ UNCHANGED <<final, dir, package, manifest, shared, pc, rev, file, existing, failures,
                 restarted, result>> /\ Others

(* A chunk that is not the publisher's, or one more than announced.         *)
ReceiveDamaged ==
  /\ pc = "body" /\ downloaded <= Expected
  /\ Mishap
  /\ SetPartial(Append(Partial, <<Damaged, downloaded + 1>>))
  /\ downloaded' = downloaded + 1
  /\ pc' = IF downloaded = Expected THEN "oversize" ELSE "body"
  /\ UNCHANGED <<head, final, dir, package, manifest, shared, rev, file, existing, failures,
                 restarted, result, ui, raced, downloads>>

RemoveOversize ==
  /\ pc = "oversize"
  /\ SetPartial(NoFile)
  /\ Return("failed")
  /\ UNCHANGED <<final, dir, package, manifest, shared>> /\ Others

BodyEnds ==
  /\ pc = "body" /\ downloaded = Expected
  /\ pc' = "verify"
  /\ UNCHANGED <<disk, shared, locals>> /\ Others

(* The connection is lost or closed early.  One that delivered something    *)
(* starts a fresh run of attempts.                                          *)
BodyInterrupted ==
  /\ pc = "body"
  /\ AttemptFailed(IF downloaded > existing THEN 1 ELSE failures + 1)
  /\ UNCHANGED <<disk, shared>> /\ Others

BackoffEnds ==
  /\ pc = "backoff" /\ ~Cancelled
  /\ pc' = "fetch"
  /\ UNCHANGED <<disk, shared, locals>> /\ Others

-----------------------------------------------------------------------------
(* Dependencies and manifests                                               *)

(* Mutant: the metadata of a dependency is that of the repository's head.   *)
TakeDependencyUnpinned ==
  /\ pc = "dependency" /\ ~Cancelled
  /\ rev' = head
  /\ status' = IF file = 2 THEN "resolving" ELSE status
  /\ dir' = (dir \/ file = 2)
  /\ pc' = "existing"
  /\ UNCHANGED <<part, final, package, manifest, token, file, existing, downloaded,
                 failures, restarted, result>> /\ Others

(* Before the first dependency the status is set and the directory made     *)
(* sure of, and only then the token looked at.                              *)
TakeDependency ==
  /\ pc = "dependency"
  /\ status' = IF file = 2 THEN "resolving" ELSE status
  /\ dir' = (dir \/ file = 2)
  /\ IF Cancelled THEN Return("cancelled") ELSE pc' = "existing" /\ UNCHANGED locals
  /\ UNCHANGED <<part, final, package, manifest, token>> /\ Others

WritePackageManifest ==
  /\ pc = "package" /\ dir
  /\ package' = rev
  /\ pc' = "check"
  /\ UNCHANGED <<part, final, dir, manifest, shared, locals>> /\ Others

LastCheck ==
  /\ pc = "check"
  /\ IF Cancelled THEN Return("cancelled") ELSE pc' = "hash" /\ UNCHANGED locals
  /\ UNCHANGED <<disk, shared>> /\ Others

(* The primary file is read once more for its digest ...                    *)
HashPrimary ==
  /\ pc = "hash" /\ final[1] # NoFile
  /\ pc' = "publish"
  /\ UNCHANGED <<disk, shared, locals>> /\ Others

(* ... and the manifest written beside its place and renamed.               *)
WriteManifest ==
  /\ pc = "publish" /\ dir
  /\ manifest' = rev
  /\ pc' = "complete"
  /\ UNCHANGED <<part, final, dir, package, shared, locals>> /\ Others

Complete ==
  /\ pc = "complete"
  /\ status' = "completed"
  /\ Return("ok")
  /\ UNCHANGED <<disk, token>> /\ Others

-----------------------------------------------------------------------------
(* The main thread: stop_download and delete_catalog_model                  *)

StopRead(s) ==
  /\ main = "idle" /\ token # "none"
  /\ Mishap
  /\ main' = "stop_cancel" /\ want' = s /\ mine' = TRUE
  /\ UNCHANGED <<head, disk, shared, task, step, raced, downloads>>

StopCancel ==
  /\ main = "stop_cancel"
  /\ token' = IF mine THEN "cancelled" ELSE token
  /\ main' = "stop_set"
  /\ UNCHANGED <<head, disk, status, task, want, mine, step, raced, bounds>>

StopSet ==
  /\ main = "stop_set"
  /\ status' = want
  /\ main' = "idle" /\ want' = "none" /\ mine' = FALSE
  /\ UNCHANGED <<head, disk, token, task, step, raced, bounds>>

Delete ==
  /\ main = "idle" /\ dir
  /\ Mishap
  /\ main' = "delete" /\ step' = 1
  /\ raced' = TRUE
  /\ UNCHANGED <<head, disk, shared, task, want, mine, downloads>>

(* The files, the two manifests, and the directory if it is empty.          *)
DeleteStep ==
  /\ main = "delete"
  /\ final' = IF step \in File THEN [final EXCEPT ![step] = NoFile] ELSE final
  /\ manifest' = IF step = N + 1 THEN 0 ELSE manifest
  /\ package' = IF step = N + 2 THEN 0 ELSE package
  /\ dir' = (dir /\ (step = N + 3 => \/ \E f \in File : final[f] # NoFile
                                     \/ manifest # 0 \/ package # 0))
  /\ IF step = N + 3 THEN main' = "idle" /\ step' = 1
                     ELSE main' = "delete" /\ step' = step + 1
  /\ UNCHANGED <<head, part, shared, task, want, mine, raced, bounds>>

-----------------------------------------------------------------------------
(* The repository and the process                                           *)

Push ==
  /\ head < MaxRevision
  /\ head' = head + 1
  /\ UNCHANGED <<disk, shared, task, ui, raced, bounds>>

Crash ==
  /\ Mishap
  /\ pc # "idle" \/ main # "idle"
  /\ status' = "queued" /\ token' = "none"
  /\ pc' = "idle" /\ rev' = 1 /\ file' = 1 /\ existing' = 0 /\ downloaded' = 0
  /\ failures' = 0 /\ restarted' = FALSE /\ result' = "none"
  /\ main' = "idle" /\ want' = "none" /\ mine' = FALSE /\ step' = 1
  /\ raced' = FALSE
  /\ UNCHANGED <<head, disk, downloads>>

DownloadStep ==
  \/ Unregister \/ Leave \/ Fail \/ Resolve
  \/ KeepExisting \/ DiscardExisting \/ RecoverPartial \/ StartFetch
  \/ InstallVerified \/ RejectFetched
  \/ FetchCancelled \/ FetchComplete \/ Request
  \/ RequestFails \/ Unsatisfiable \/ AnswerPartial \/ AnswerWhole
  \/ Receive \/ ReceiveDamaged \/ RemoveOversize \/ BodyEnds \/ BodyInterrupted \/ BackoffEnds
  \/ TakeDependency \/ WritePackageManifest \/ LastCheck
  \/ HashPrimary \/ WriteManifest \/ Complete

MainStep ==
  \/ (\E s \in {"cancelled", "paused"} : StopRead(s)) \/ StopCancel \/ StopSet
  \/ Delete \/ DeleteStep

Next == Begin \/ DownloadStep \/ MainStep \/ Push \/ Crash

Spec == Init /\ [][Next]_vars

(* The task of a download runs, and every request is answered or times out. *)
FairSpec == Spec /\ WF_vars(DownloadStep)

-----------------------------------------------------------------------------
(* Properties                                                               *)

(* The type invariant; proved in ModelDownloadProofs, no run checks it.     *)
TypeOK ==
  /\ head \in Revision
  /\ part \in [File -> [Revision -> Seq(Chunk)]]
  /\ final \in [File -> Seq(Chunk)]
  /\ dir \in BOOLEAN
  /\ package \in Revision \cup {0} /\ manifest \in Revision \cup {0}
  /\ status \in {"queued", "resolving", "downloading", "verifying", "completed", "failed",
                 "cancelled", "paused"}
  /\ token \in {"none", "live", "cancelled"}
  /\ pc \in {"idle", "resolving", "existing", "prepare", "fetch", "request", "body", "oversize",
             "backoff", "verify", "dependency", "package", "check", "hash", "publish",
             "complete", "ended", "leaving"}
  /\ rev \in Revision /\ file \in File /\ existing \in Nat /\ downloaded \in Nat
  /\ failures \in 0..MaxAttempts /\ restarted \in BOOLEAN
  /\ result \in {"none", "ok", "failed", "cancelled"}
  /\ main \in {"idle", "stop_cancel", "stop_set", "delete"}
  /\ want \in {"none", "cancelled", "paused"} /\ mine \in BOOLEAN
  /\ step \in 1..(N + 3) /\ raced \in BOOLEAN
  /\ downloads \in 0..MaxDownloads /\ mishaps \in 0..MaxMishaps

(* A partial file is always the beginning of its file at its revision, up   *)
(* to chunks damaged on the way: no order of range answers, whole answers,  *)
(* restarts, lost connections, moved heads and deaths of the process makes  *)
(* download_resumable append to the wrong bytes.                            *)
ResumeIsFaithful ==
  \A f \in File, r \in Revision : FromRevision(part[f][r], r)

(* A file with a published digest is never installed damaged, short, or     *)
(* mixed from two revisions.                                                *)
DigestedIsGenuine ==
  \A f \in Digested : final[f] = NoFile \/ \E r \in Revision : final[f] = Whole(f, r)

Publishes == pc = "publish" /\ pc' = "complete"

(* The primary manifest is published only when every file of the package is *)
(* complete and the package manifest of the same snapshot is written, unless *)
(* the user deleted the model meanwhile ("published only after the Model    *)
(* Download Manager finishes required dependency downloads",                *)
(* docs/model-manifest-atomic-publishing.md:10).                            *)
PublishedIsWhole ==
  [][Publishes /\ ~raced =>
       /\ \A f \in File : final[f] # NoFile
       /\ \A f \in Digested : final[f] = Whole(f, manifest')
       /\ N > 1 => package = manifest']_vars

(* All files of a published package are of the revision its manifest names  *)
(* ("This prevents mismatched versions caused by moving Hugging Face        *)
(* branches", docs/model-download-revision-pinning.md:31).                  *)
OneRevision ==
  [][Publishes => \A f \in File : FromRevision(final[f], manifest')]_vars

(* Every download ends and gives the permit back, also when connections     *)
(* fail or are lost for ever.                                               *)
EveryDownloadEnds == pc # "idle" ~> pc = "idle"
=============================================================================

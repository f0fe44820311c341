----------------------------- MODULE ImageJobs -----------------------------
(***************************************************************************)
(* The generation of images and videos: the command                        *)
(* create_generation_artifact (lib_legacy.rs) with its row in the database *)
(* and its output file (artifacts.rs), the registry of running image jobs  *)
(* with the one slot they render in (image_jobs.rs), the renderer and its  *)
(* installation (diffusion_runtime.rs), the Stop button, the deletion of a *)
(* conversation, and the recovery of rows that a dead process left behind  *)
(* (database.rs).                                                          *)
(*                                                                         *)
(* An artifact is named after the title of its conversation; conversations *)
(* have distinct titles here.                                              *)
(***************************************************************************)
EXTENDS Naturals, FiniteSets

CONSTANTS
    Images, Videos,  \* the requests ever made, by kind
    CpuOnly,         \* images asked for with "CPU-only retry"
    Chats, ChatOf,   \* the conversation of each request
    Nobody,
    MaxMishaps       \* bound: statements and events that fail, deletions of
                     \* conversations and deaths of the process

Jobs == Images \cup Videos

ASSUME ImageJobsAssumption ==
    /\ IsFiniteSet(Jobs) /\ Images \cap Videos = {}
    /\ CpuOnly \subseteq Images
    /\ ChatOf \in [Jobs -> Chats] /\ Nobody \notin Jobs
    /\ MaxMishaps \in Nat

VARIABLES
    rows,      \* artifacts: the row of each request
    gone,      \* conversations that were deleted
    files,     \* the generated files
    tokens,    \* ActiveImageJobs::jobs: the token of each running image
    ahead,     \* render_slot: whom each image has to wait for
    lock,      \* RUNTIME_INSTALL_LOCK
    manifest,  \* the backend of the installed renderer
    pc, failed, \* the locals of a command
    mishaps,
    stopped    \* history: stopped before its result was looked at

database == <<rows, gone>>
renderer == <<lock, manifest>>
vars == <<database, files, tokens, ahead, renderer, pc, failed, mishaps,
          stopped>>

-----------------------------------------------------------------------------
(* Files. *)

KindOf(j) == IF j \in Images THEN "image" ELSE "video"

\* The name of a file: its directory, the title it is named after, a counter.
Path == {"image", "video"} \X Chats \X (0..Cardinality(Jobs))

\* A file is whole when the validation of its kind accepts it.
NoFile == [by |-> Nobody, whole |-> FALSE]
NoRow  == [status |-> "none", path |-> <<"image", Nobody, 0>>, stale |-> FALSE]

\* The first name whose file does not exist.
Destination(j, p) ==
    /\ p[1] = KindOf(j) /\ p[2] = ChatOf[j] /\ files[p] = NoFile
    /\ \A n \in 0..(p[3] - 1) : files[<<p[1], p[2], n>>] # NoFile

Output(j) == rows[j].path

-----------------------------------------------------------------------------
Init ==
    /\ rows = [j \in Jobs |-> NoRow] /\ gone = {}
    /\ files = [p \in Path |-> NoFile]
    /\ tokens = [j \in Jobs |-> "none"]
    /\ ahead = [j \in Images |-> {}]
    /\ lock = Nobody /\ manifest = "none"
    /\ pc = [j \in Jobs |-> "idle"]
    /\ failed = [j \in Jobs |-> FALSE]
    /\ mishaps = 0
    /\ stopped = [j \in Jobs |-> FALSE]

Go(j, label) == pc' = [pc EXCEPT ![j] = label]
Mishap == mishaps < MaxMishaps /\ mishaps' = mishaps + 1
Alike == UNCHANGED <<gone, mishaps, stopped>>

\* The command returns, and drops the guard of its job.
Leave(j) ==
    /\ Go(j, "over")
    /\ tokens' = [tokens EXCEPT ![j] = "none"]
    /\ failed' = [failed EXCEPT ![j] = FALSE]

-----------------------------------------------------------------------------
(* The command, up to the renderer. *)

Rendering == {"prepare", "install", "render", "validate"}

\* The image holds the slot or queues for it.
AtSlot(j) == pc[j] \in {"queued"} \cup Rendering

\* The row is created with a name that is free now; nothing keeps the name.
CreateRow(j) ==
    /\ pc[j] = "idle" /\ ChatOf[j] \notin gone
    /\ \E p \in Path :
          /\ Destination(j, p)
          /\ rows' = [rows EXCEPT ![j] = [status |-> "generating", path |-> p,
                                          stale |-> FALSE]]
    /\ UNCHANGED <<gone, files, renderer, failed, stopped>>

\* An image takes the slot or queues for it; a video needs none.
Request(j) ==
    /\ CreateRow(j)
    /\ IF j \in Images
       THEN /\ tokens' = [tokens EXCEPT ![j] = "live"]
            /\ ahead' = [ahead EXCEPT ![j] = {i \in Images : AtSlot(i)}]
            /\ Go(j, "queued")
       ELSE Go(j, "prepare") /\ UNCHANGED <<tokens, ahead>>
    /\ UNCHANGED mishaps

\* The event artifact:started cannot be emitted: the row stays as it is.
RequestFails(j) ==
    /\ CreateRow(j) /\ Mishap
    /\ Go(j, "over") /\ UNCHANGED <<tokens, ahead>>

TakeSlot(j) ==
    /\ pc[j] = "queued" /\ ahead[j] = {}
    /\ Go(j, "prepare")
    /\ Alike /\ UNCHANGED <<rows, files, tokens, ahead, renderer, failed>>

\* Mutant: a job that ends keeps its place at the slot.
FreeSlotNot(j) == UNCHANGED ahead

FreeSlot(j) ==
    ahead' = [i \in Images |-> IF i = j THEN {} ELSE ahead[i] \ {j}]

FreeLock(j) == lock' = IF lock = j THEN Nobody ELSE lock

\* The future of the rendering has a result, or is dropped.
EndRender(j, bad) ==
    /\ Go(j, "check") /\ failed' = [failed EXCEPT ![j] = bad]
    /\ FreeSlot(j)
    /\ Alike /\ UNCHANGED <<rows, tokens, manifest>>

-----------------------------------------------------------------------------
(* The renderer. *)

Backend(j) == IF j \in CpuOnly THEN "cpu" ELSE "gpu"

\* The model is not installed, or the prompt is not accepted.
PrepareFails(j) ==
    /\ pc[j] = "prepare"
    /\ EndRender(j, TRUE) /\ FreeLock(j) /\ UNCHANGED files

\* What is at the place of the output is removed before the renderer starts.
Spawn(j) ==
    /\ files' = [files EXCEPT ![Output(j)] = NoFile]
    /\ Go(j, "render")
    /\ Alike /\ UNCHANGED <<rows, tokens, ahead, failed>>

\* The installed renderer is reused if it is of the preferred backend.
ReuseRuntime(j) ==
    /\ pc[j] = "prepare" /\ lock = Nobody /\ manifest = Backend(j)
    /\ Spawn(j) /\ UNCHANGED renderer

BeginInstall(j) ==
    /\ pc[j] = "prepare" /\ lock = Nobody /\ manifest # Backend(j)
    /\ lock' = j /\ Go(j, "install")
    /\ Alike /\ UNCHANGED <<rows, files, tokens, ahead, manifest, failed>>

Installed(j) ==
    /\ pc[j] = "install"
    /\ manifest' = Backend(j) /\ FreeLock(j)
    /\ Spawn(j)

InstallFails(j) ==
    /\ pc[j] = "install"
    /\ EndRender(j, TRUE) /\ FreeLock(j) /\ UNCHANGED files

RendererWrites(j, whole) ==
    /\ pc[j] = "render"
    /\ files' = [files EXCEPT ![Output(j)] = [by |-> j, whole |-> whole]]
    /\ files' # files
    /\ Alike
    /\ UNCHANGED <<rows, tokens, ahead, renderer, pc, failed>>

RendererExits(j) ==
    /\ pc[j] = "render"
    /\ Go(j, "validate")
    /\ Alike /\ UNCHANGED <<rows, files, tokens, ahead, renderer, failed>>

\* It does not start, exits with an error, or is killed after GENERATION_TIMEOUT.
RendererFails(j) ==
    /\ pc[j] = "render"
    /\ EndRender(j, TRUE) /\ FreeLock(j) /\ UNCHANGED files

\* Mutant: whatever the renderer left is accepted.
ValidateAnything(j) ==
    /\ pc[j] = "validate"
    /\ EndRender(j, FALSE) /\ FreeLock(j) /\ UNCHANGED files

Validate(j) ==
    /\ pc[j] = "validate"
    /\ EndRender(j, ~files[Output(j)].whole)
    /\ FreeLock(j) /\ UNCHANGED files

\* The loop of an image sees its token wherever the rendering waits: the
\* slot and the lock are given back and the renderer is killed.
SeeCancelled(j) ==
    /\ pc[j] \in {"queued", "prepare", "install", "render"}
    /\ tokens[j] = "cancelled"
    /\ EndRender(j, TRUE) /\ FreeLock(j) /\ UNCHANGED files

-----------------------------------------------------------------------------
(* The command, after the renderer. *)

\* Mutant: only the result of the rendering counts.
RecheckResult(j) ==
    /\ pc[j] = "check"
    /\ files' = IF failed[j] THEN [files EXCEPT ![Output(j)] = NoFile] ELSE files
    /\ Go(j, "record")
    /\ Alike /\ UNCHANGED <<rows, tokens, ahead, renderer, failed>>

\* A stop that came while the rendering ended counts.  The output of a failed
\* job is removed, whatever it is.
Recheck(j) ==
    /\ pc[j] = "check"
    /\ LET bad == failed[j] \/ tokens[j] = "cancelled"
       IN /\ failed' = [failed EXCEPT ![j] = bad]
          /\ files' = IF bad THEN [files EXCEPT ![Output(j)] = NoFile] ELSE files
    /\ Go(j, "record")
    /\ Alike /\ UNCHANGED <<rows, tokens, ahead, renderer>>

\* set_ready and set_failed ask for no status; a deleted row is not there.
Record(j) ==
    /\ pc[j] = "record"
    /\ rows' = IF rows[j].status = "deleted" THEN rows
               ELSE [rows EXCEPT ![j].status = IF failed[j] THEN "failed" ELSE "ready"]
    /\ Leave(j)
    /\ Alike /\ UNCHANGED <<files, ahead, renderer>>

RecordFails(j) ==
    /\ pc[j] = "record" /\ Mishap
    /\ Leave(j)
    /\ UNCHANGED <<database, files, ahead, renderer, stopped>>

-----------------------------------------------------------------------------
(* The user. *)

\* cancel_image_generation answers true.
Cancel(j) ==
    /\ tokens[j] = "live"
    /\ tokens' = [tokens EXCEPT ![j] = "cancelled"]
    /\ stopped' = [stopped EXCEPT ![j] = pc[j] # "record"]
    /\ UNCHANGED <<database, files, ahead, renderer, pc, failed, mishaps>>

\* The rows of a conversation go with it, and each takes its file along.
DeleteConversation(c) ==
    /\ c \notin gone /\ Mishap /\ gone' = gone \cup {c}
    /\ LET ours == {j \in Jobs : ChatOf[j] = c /\ rows[j].status # "none"}
       IN /\ rows' = [j \in Jobs |-> IF j \in ours
                                     THEN [rows[j] EXCEPT !.status = "deleted"]
                                     ELSE rows[j]]
          /\ files' = [p \in Path |-> IF p \in {Output(j) : j \in ours}
                                      THEN NoFile ELSE files[p]]
    /\ UNCHANGED <<tokens, ahead, renderer, pc, failed, stopped>>

-----------------------------------------------------------------------------
(* Time, recovery and death of the process. *)

\* Mutant: the heart only beats while the renderer runs.
BeatsRendering(j) == pc[j] = "render"

\* The heart of an image beats, every minute, while its rendering is awaited.
Beats(j) == AtSlot(j)

\* STALE_IMAGE_JOB_HOURS pass.  What a command does before and after the
\* rendering takes no such time.
HoursPass ==
    /\ \A j \in Images : pc[j] \notin {"check", "record"}
    /\ rows' = [j \in Jobs |->
                  IF j \in Images /\ rows[j].status = "generating" /\ ~Beats(j)
                  THEN [rows[j] EXCEPT !.stale = TRUE] ELSE rows[j]]
    /\ rows' # rows
    /\ UNCHANGED <<gone, files, tokens, ahead, renderer, pc, failed, mishaps,
                   stopped>>

Stale(j) == rows[j].status = "generating" /\ rows[j].stale

RecoverStale ==
    /\ rows' = [j \in Jobs |-> IF Stale(j)
                               THEN [rows[j] EXCEPT !.status = "failed", !.stale = FALSE]
                               ELSE rows[j]]
    /\ files' = [p \in Path |-> IF \E j \in Jobs : Stale(j) /\ Output(j) = p
                                THEN NoFile ELSE files[p]]

\* A chat or the library is opened.
Recover ==
    /\ \E j \in Jobs : Stale(j)
    /\ RecoverStale
    /\ UNCHANGED <<gone, tokens, ahead, renderer, pc, failed, mishaps, stopped>>

\* The renderers die with the application; the next start recovers rows.
CrashAndRestart ==
    /\ Mishap
    /\ RecoverStale
    /\ tokens' = [j \in Jobs |-> "none"]
    /\ ahead' = [j \in Images |-> {}] /\ lock' = Nobody
    /\ pc' = [j \in Jobs |-> IF pc[j] = "idle" THEN "idle" ELSE "over"]
    /\ failed' = [j \in Jobs |-> FALSE]
    /\ UNCHANGED <<gone, manifest, stopped>>

-----------------------------------------------------------------------------
CommandStep(j) ==
    \/ TakeSlot(j) \/ PrepareFails(j) \/ ReuseRuntime(j) \/ BeginInstall(j)
    \/ Installed(j) \/ InstallFails(j)
    \/ RendererExits(j) \/ RendererFails(j) \/ Validate(j) \/ SeeCancelled(j)
    \/ Recheck(j) \/ Record(j) \/ RecordFails(j)

Next ==
    \/ \E j \in Jobs :
         \/ Request(j) \/ RequestFails(j) \/ CommandStep(j) \/ Cancel(j)
         \/ \E whole \in BOOLEAN : RendererWrites(j, whole)
    \/ \E c \in Chats : DeleteConversation(c)
    \/ HoursPass \/ Recover \/ CrashAndRestart

\* The task of a command is scheduled; an installation ends, and so does a
\* renderer after GENERATION_TIMEOUT at the latest.
Fairness == \A j \in Jobs : WF_vars(CommandStep(j))

Spec == Init /\ [][Next]_vars /\ Fairness

-----------------------------------------------------------------------------
(* Properties. *)

Row == [status : {"none", "generating", "ready", "failed", "deleted"},
        path : Path \cup {NoRow.path}, stale : BOOLEAN]
File == [by : Jobs \cup {Nobody}, whole : BOOLEAN]
AtWork == {"queued", "check", "record"} \cup Rendering

RowsTyped ==
    /\ rows \in [Jobs -> Row] /\ gone \subseteq Chats
    /\ files \in [Path -> File]
    /\ \A j \in Jobs : rows[j].status # "none" => rows[j].path \in Path
    /\ \A j \in Jobs : pc[j] # "idle" => rows[j].status # "none"

CommandsTyped ==
    /\ tokens \in [Jobs -> {"none", "live", "cancelled"}]
    /\ pc \in [Jobs -> AtWork \cup {"idle", "over"}]
    /\ failed \in [Jobs -> BOOLEAN] /\ stopped \in [Jobs -> BOOLEAN]
    /\ ahead \in [Images -> SUBSET Images]
    /\ manifest \in {"none", "cpu", "gpu"}
    /\ mishaps \in Nat

\* Images at the slot are in line, and one that renders is the first.
SlotInOrder ==
    /\ \A j \in Images : pc[j] \in Rendering => ahead[j] = {}
    /\ \A i, j \in Images : i \in ahead[j] => AtSlot(i) /\ pc[j] = "queued"
    /\ \A i, j \in Images : AtSlot(i) /\ AtSlot(j) /\ i # j
                              => i \in ahead[j] \/ j \in ahead[i]

Registered == \A j \in Images : tokens[j] # "none" <=> pc[j] \in AtWork

LockHeld ==
    /\ lock \in Jobs \cup {Nobody}
    /\ \A j \in Jobs : lock = j <=> pc[j] = "install"

\* The shape of the state.  An image is registered exactly while its command
\* runs, the lock is held exactly by the command that installs, and of two
\* images at the slot one waits for the other.  Proved in ImageJobsProofs.
TypeOK == RowsTyped /\ CommandsTyped /\ Registered /\ LockHeld /\ SlotInOrder

\* A ready artifact shows the image that was rendered for it, whole, for as
\* long as it is ready.  The names of files are collision-free
\* (artifacts.rs:203) only against files that exist, so this needs every
\* conversation to ask for one image: the run image_together asks for two.
ReadyHasItsImage ==
    \A j \in Jobs :
        rows[j].status = "ready" => files[Output(j)] = [by |-> j, whole |-> TRUE]

\* "A cancellation arriving just as inference finishes must not publish a
\* ready image" (lib_legacy.rs:768): a job that was stopped before its result
\* was looked at never becomes ready, however the stop, the renderer and the
\* queue interleave.
CancelledIsNeverReady ==
    \A j \in Jobs : stopped[j] => rows[j].status # "ready"

\* "an active image older than four hours could be mistaken for an abandoned
\* job" (lib_legacy.rs:738): recovery gives no image up whose command is at
\* work, however long it queues for the slot.
RecoverySparesLiveJobs ==
    [][\A j \in Images :
         rows[j].status = "generating" /\ rows'[j].status = "failed"
           => pc[j] \in {"record", "over"}]_vars

\* Every command returns: whoever is stopped or fails gives back the slot and
\* the lock that others wait for.
EveryJobEnds == \A j \in Jobs : pc[j] \in AtWork ~> pc[j] = "over"

=============================================================================

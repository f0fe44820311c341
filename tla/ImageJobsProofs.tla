-------------------------- MODULE ImageJobsProofs --------------------------
(***************************************************************************)
(* Proofs about ImageJobs for every finite set of requests, every way they *)
(* are spread over conversations, and any number of mishaps.               *)
(***************************************************************************)
EXTENDS ImageJobs, TLAPS

USE ImageJobsAssumption

-----------------------------------------------------------------------------
(* The steps that end a rendering differ in where they may happen and in   *)
(* the result.                                                             *)

Ends(j) ==
    /\ j \in Jobs /\ AtSlot(j)
    /\ \E bad \in BOOLEAN :
          /\ EndRender(j, bad) /\ FreeLock(j) /\ UNCHANGED files
          /\ ~bad => pc[j] = "validate" /\ files[Output(j)].whole

LEMMA FileAtOutput ==
    ASSUME TypeOK, NEW j \in Jobs, pc[j] # "idle"
    PROVE  Output(j) \in Path /\ files[Output(j)] \in File
  BY DEF TypeOK, RowsTyped, Output

LEMMA StepsThatEnd ==
    ASSUME TypeOK, NEW j \in Jobs,
           \/ PrepareFails(j) \/ InstallFails(j) \/ RendererFails(j)
           \/ Validate(j) \/ SeeCancelled(j)
    PROVE  Ends(j)
  <1>1. CASE Validate(j)
    <2>1. files[Output(j)].whole \in BOOLEAN
      BY <1>1, FileAtOutput DEF Validate, File
    <2>2. CASE files[Output(j)].whole
      <3>1. EndRender(j, FALSE)
        BY <1>1, <2>2 DEF Validate, EndRender
      <3> QED BY <1>1, <2>2, <3>1 DEF Validate, Ends, AtSlot, Rendering
    <2>3. CASE ~files[Output(j)].whole
      <3>1. EndRender(j, TRUE)
        BY <1>1, <2>3 DEF Validate, EndRender
      <3> QED BY <1>1, <3>1 DEF Validate, Ends, AtSlot, Rendering
    <2> QED BY <2>2, <2>3
  <1>2. CASE PrepareFails(j) \/ InstallFails(j) \/ RendererFails(j) \/ SeeCancelled(j)
    BY <1>2 DEF PrepareFails, InstallFails, RendererFails, SeeCancelled, Ends, AtSlot,
                Rendering
  <1> QED BY <1>1, <1>2

\* Next, with the ends of a rendering taken together.
LEMMA Cases ==
    ASSUME TypeOK, [Next]_vars
    PROVE  \/ \E j \in Jobs :
                \/ Request(j) \/ RequestFails(j) \/ TakeSlot(j) \/ Ends(j)
                \/ ReuseRuntime(j) \/ BeginInstall(j) \/ Installed(j)
                \/ RendererExits(j) \/ Recheck(j) \/ Record(j) \/ RecordFails(j)
                \/ Cancel(j) \/ \E whole \in BOOLEAN : RendererWrites(j, whole)
           \/ \E c \in Chats : DeleteConversation(c)
           \/ HoursPass \/ Recover \/ CrashAndRestart
           \/ UNCHANGED vars
  BY StepsThatEnd DEF Next, CommandStep

-----------------------------------------------------------------------------
(* Types. *)

LEMMA NoRowTyped == NoRow \in Row /\ NoFile \in File
  BY DEF NoRow, Row, NoFile, File

LEMMA RowFields ==
    ASSUME NEW r \in Row
    PROVE  /\ \A st \in {"none", "generating", "ready", "failed", "deleted"} :
                [r EXCEPT !.status = st] \in Row /\ [r EXCEPT !.status = st].path = r.path
           /\ \A b \in BOOLEAN :
                [r EXCEPT !.stale = b] \in Row /\ [r EXCEPT !.stale = b].path = r.path
                /\ [r EXCEPT !.stale = b].status = r.status
  BY DEF Row

LEMMA InitTyped == Init => TypeOK
  <1> SUFFICES ASSUME Init PROVE TypeOK
    OBVIOUS
  <1>1. RowsTyped
    BY NoRowTyped DEF Init, RowsTyped, NoRow
  <1>2. CommandsTyped
    <2>1. failed \in [Jobs -> BOOLEAN] /\ stopped \in [Jobs -> BOOLEAN]
      BY Zenon DEF Init
    <2> QED BY <2>1 DEF Init, CommandsTyped, AtWork, Rendering
  <1>3. \A j \in Jobs : pc[j] = "idle" /\ tokens[j] = "none"
    BY DEF Init
  <1>4. Registered
    BY <1>3 DEF Registered, AtWork, Rendering, Jobs
  <1>5. LockHeld
    BY <1>3 DEF Init, LockHeld
  <1>6. SlotInOrder
    BY <1>3 DEF Init, SlotInOrder, AtSlot, Rendering, Jobs
  <1> QED BY <1>1, <1>2, <1>4, <1>5, <1>6 DEF TypeOK

\* Rows and files change one at a time in most steps.
LEMMA RowsKept ==
    ASSUME TypeOK, UNCHANGED <<rows, gone>>, files' \in [Path -> File],
           \A i \in Jobs : pc'[i] # "idle" => pc[i] # "idle"
    PROVE  RowsTyped'
  BY DEF TypeOK, RowsTyped

LEMMA FilesSet ==
    ASSUME TypeOK, NEW p, NEW f \in File
    PROVE  [files EXCEPT ![p] = f] \in [Path -> File]
  BY DEF TypeOK, RowsTyped

LEMMA RowSet ==
    ASSUME TypeOK, NEW j \in Jobs, NEW r \in Row, r.status # "none", r.path \in Path,
           rows' = [rows EXCEPT ![j] = r], gone' = gone, files' = files,
           \A i \in Jobs : i # j /\ pc'[i] # "idle" => pc[i] # "idle"
    PROVE  RowsTyped'
  BY DEF TypeOK, RowsTyped

\* Rows that keep their paths, of which none appears.
LEMMA RowsChanged ==
    ASSUME TypeOK, rows' = [j \in Jobs |-> rows'[j]], gone' \subseteq Chats,
           files' \in [Path -> File],
           \A i \in Jobs : pc'[i] # "idle" => pc[i] # "idle",
           \A j \in Jobs :
              \/ rows'[j] = rows[j]
              \/ rows'[j] = [rows[j] EXCEPT !.stale = TRUE]
              \/ /\ rows[j].status # "none"
                 /\ \/ rows'[j] = [rows[j] EXCEPT !.status = "deleted"]
                    \/ rows'[j] = [[rows[j] EXCEPT !.status = "failed"] EXCEPT !.stale = FALSE]
    PROVE  RowsTyped'
  <1>1. ASSUME NEW j \in Jobs
        PROVE  /\ rows'[j] \in Row /\ rows'[j].path = rows[j].path
               /\ rows'[j].status = "none" <=> rows[j].status = "none"
    <2>1. rows[j] \in Row
      BY DEF TypeOK, RowsTyped
    <2>2. CASE rows'[j] = rows[j]
      BY <2>1, <2>2
    <2>3. CASE rows'[j] = [rows[j] EXCEPT !.stale = TRUE]
      BY <2>1, <2>3, RowFields
    <2>4. CASE rows[j].status # "none" /\ rows'[j] = [rows[j] EXCEPT !.status = "deleted"]
      BY <2>1, <2>4 DEF Row
    <2>5. CASE /\ rows[j].status # "none"
               /\ rows'[j] = [[rows[j] EXCEPT !.status = "failed"] EXCEPT !.stale = FALSE]
      BY <2>1, <2>5 DEF Row
    <2> QED BY <2>2, <2>3, <2>4, <2>5
  <1>2. rows' \in [Jobs -> Row]
    BY <1>1
  <1> QED BY <1>1, <1>2 DEF TypeOK, RowsTyped

\* One command moves on.
LEMMA Moved ==
    ASSUME TypeOK, NEW j \in Jobs, NEW label \in AtWork \cup {"over"}, Go(j, label)
    PROVE  /\ pc' \in [Jobs -> AtWork \cup {"idle", "over"}]
           /\ pc'[j] = label /\ \A i \in Jobs : i # j => pc'[i] = pc[i]
  BY DEF TypeOK, CommandsTyped, Go

LEMMA RowsStayTyped ==
    ASSUME TypeOK, [Next]_vars
    PROVE  RowsTyped'
  <1>1. ASSUME NEW j \in Jobs, Request(j) \/ RequestFails(j)
        PROVE  RowsTyped'
    <2>1. PICK p \in Path :
             rows' = [rows EXCEPT ![j] = [status |-> "generating", path |-> p, stale |-> FALSE]]
      BY <1>1 DEF Request, RequestFails, CreateRow
    <2>2. [status |-> "generating", path |-> p, stale |-> FALSE] \in Row
      BY DEF Row
    <2>3. \A i \in Jobs : i # j => pc'[i] = pc[i]
      BY <1>1 DEF Request, RequestFails, Go, TypeOK, CommandsTyped
    <2>4. gone' = gone /\ files' = files
      BY <1>1 DEF Request, RequestFails, CreateRow
    <2> QED BY <2>1, <2>2, <2>3, <2>4, RowSet
  <1>2. ASSUME NEW j \in Jobs, TakeSlot(j) \/ Ends(j) \/ BeginInstall(j) \/ RendererExits(j)
        PROVE  RowsTyped'
    <2>1. UNCHANGED <<rows, gone, files>> /\ pc[j] # "idle"
      BY <1>2 DEF TakeSlot, Ends, EndRender, BeginInstall, RendererExits, Alike, AtSlot, Rendering
    <2>2. \A i \in Jobs : i # j => pc'[i] = pc[i]
      BY <1>2 DEF TakeSlot, Ends, EndRender, BeginInstall, RendererExits, Go, TypeOK, CommandsTyped
    <2> QED BY <2>1, <2>2, RowsKept DEF TypeOK, RowsTyped
  <1>3. ASSUME NEW j \in Jobs, ReuseRuntime(j) \/ Installed(j)
        PROVE  RowsTyped'
    <2>1. pc[j] # "idle" /\ Spawn(j)
      BY <1>3 DEF ReuseRuntime, Installed
    <2>2. files' \in [Path -> File]
      BY <2>1, FilesSet, NoRowTyped DEF Spawn
    <2>3. UNCHANGED <<rows, gone>> /\ \A i \in Jobs : i # j => pc'[i] = pc[i]
      BY <2>1 DEF Spawn, Alike, Go, TypeOK, CommandsTyped
    <2> QED BY <2>1, <2>2, <2>3, RowsKept
  <1>4. ASSUME NEW j \in Jobs, Recheck(j)
        PROVE  RowsTyped'
    <2>1. files' \in [Path -> File]
      BY <1>4, FilesSet, NoRowTyped DEF Recheck, TypeOK, RowsTyped
    <2>2. UNCHANGED <<rows, gone>> /\ pc[j] # "idle" /\ \A i \in Jobs : i # j => pc'[i] = pc[i]
      BY <1>4 DEF Recheck, Alike, Go, TypeOK, CommandsTyped
    <2> QED BY <2>1, <2>2, RowsKept
  <1>5. ASSUME NEW j \in Jobs, Cancel(j) \/ RecordFails(j)
        PROVE  RowsTyped'
    <2>1. UNCHANGED <<rows, gone, files>> /\ \A i \in Jobs : pc'[i] # "idle" => pc[i] # "idle"
      BY <1>5 DEF Cancel, RecordFails, Leave, Go, database, TypeOK, CommandsTyped
    <2> QED BY <2>1, RowsKept DEF TypeOK, RowsTyped
  <1>6. ASSUME NEW j \in Jobs, Record(j)
        PROVE  RowsTyped'
    <2>1. /\ gone' = gone /\ files' = files /\ pc[j] = "record"
          /\ \A i \in Jobs : i # j => pc'[i] = pc[i]
      BY <1>6 DEF Record, Leave, Alike, Go, TypeOK, CommandsTyped
    <2>2. rows[j] \in Row /\ rows[j].path \in Path
      BY <2>1 DEF TypeOK, RowsTyped
    <2>3. CASE rows[j].status = "deleted"
      <3>1. rows' = rows
        BY <1>6, <2>3 DEF Record
      <3> QED BY <2>1, <3>1, RowsKept DEF TypeOK, RowsTyped
    <2>4. CASE rows[j].status # "deleted"
      <3> DEFINE st == IF failed[j] THEN "failed" ELSE "ready"
      <3>1. rows' = [rows EXCEPT ![j].status = st]
        BY <1>6, <2>4 DEF Record
      <3>2. rows' = [rows EXCEPT ![j] = [rows[j] EXCEPT !.status = st]]
        BY <3>1
      <3>3. /\ [rows[j] EXCEPT !.status = st] \in Row
            /\ [rows[j] EXCEPT !.status = st].path \in Path
        BY <2>2, RowFields
      <3>4. [rows[j] EXCEPT !.status = st].status # "none"
        BY <2>2 DEF Row
      <3> QED BY <2>1, <3>2, <3>3, <3>4, RowSet
    <2> QED BY <2>3, <2>4
  <1>7. ASSUME NEW j \in Jobs, NEW whole \in BOOLEAN, RendererWrites(j, whole)
        PROVE  RowsTyped'
    <2>1. [by |-> j, whole |-> whole] \in File
      BY DEF File
    <2> QED BY <1>7, <2>1, FilesSet, RowsKept DEF RendererWrites, Alike
  <1>8. ASSUME NEW c \in Chats, DeleteConversation(c)
        PROVE  RowsTyped'
    <2>1. \A j \in Jobs : /\ rows'[j] = rows[j] \/ rows'[j] = [rows[j] EXCEPT !.status = "deleted"]
                          /\ rows[j].status = "none" => rows'[j] = rows[j]
      BY <1>8 DEF DeleteConversation
    <2>2. rows' = [j \in Jobs |-> rows'[j]] /\ gone' \subseteq Chats /\ pc' = pc
      BY <1>8 DEF DeleteConversation, TypeOK, RowsTyped
    <2>3. files' \in [Path -> File]
      BY <1>8, NoRowTyped DEF DeleteConversation, TypeOK, RowsTyped
    <2> QED BY <2>1, <2>2, <2>3, RowsChanged
  <1>9. CASE HoursPass
    <2>1. \A j \in Jobs : rows'[j] = rows[j] \/ rows'[j] = [rows[j] EXCEPT !.stale = TRUE]
      BY <1>9 DEF HoursPass
    <2>2. rows' = [j \in Jobs |-> rows'[j]] /\ UNCHANGED <<gone, files, pc>>
      BY <1>9 DEF HoursPass
    <2> QED BY <2>1, <2>2, RowsChanged DEF TypeOK, RowsTyped
  <1>10. CASE Recover \/ CrashAndRestart
    <2>1. \A j \in Jobs :
            /\ \/ rows'[j] = rows[j]
               \/ rows'[j] = [[rows[j] EXCEPT !.status = "failed"] EXCEPT !.stale = FALSE]
            /\ rows[j].status = "none" => rows'[j] = rows[j]
      BY ZenonT(60), <1>10 DEF Recover, CrashAndRestart, RecoverStale, Stale
    <2>2. rows' = [j \in Jobs |-> rows'[j]] /\ gone' = gone
      BY <1>10 DEF Recover, CrashAndRestart, RecoverStale
    <2>3. files' \in [Path -> File]
      BY <1>10, NoRowTyped DEF Recover, CrashAndRestart, RecoverStale, TypeOK, RowsTyped
    <2>4. \A i \in Jobs : pc'[i] # "idle" => pc[i] # "idle"
      BY <1>10 DEF Recover, CrashAndRestart
    <2> QED BY <2>1, <2>2, <2>3, <2>4, RowsChanged DEF TypeOK, RowsTyped
  <1>11. CASE UNCHANGED vars
    BY <1>11 DEF vars, database, TypeOK, RowsTyped
  <1> QED BY <1>1, <1>2, <1>3, <1>4, <1>5, <1>6, <1>7, <1>8, <1>9, <1>10, <1>11, Cases

\* One command moves on, and the others stay where they are.
Moves(j, label) ==
    /\ pc' \in [Jobs -> AtWork \cup {"idle", "over"}]
    /\ pc'[j] = label
    /\ \A i \in Jobs : i # j => pc'[i] = pc[i]

LEMMA StepsMove ==
    ASSUME TypeOK, NEW j \in Jobs
    PROVE  /\ Request(j) => Moves(j, IF j \in Images THEN "queued" ELSE "prepare")
           /\ TakeSlot(j) => Moves(j, "prepare")
           /\ BeginInstall(j) => Moves(j, "install")
           /\ Ends(j) => Moves(j, "check")
           /\ ReuseRuntime(j) \/ Installed(j) => Moves(j, "render")
           /\ RendererExits(j) => Moves(j, "validate")
           /\ Recheck(j) => Moves(j, "record")
           /\ RequestFails(j) \/ Record(j) \/ RecordFails(j) => Moves(j, "over")
  <1> USE Moved DEF Moves, AtWork, Rendering
  <1>1. Request(j) => Moves(j, IF j \in Images THEN "queued" ELSE "prepare")
    BY DEF Request
  <1>2. TakeSlot(j) => Moves(j, "prepare")
    BY DEF TakeSlot
  <1>3. BeginInstall(j) => Moves(j, "install")
    BY DEF BeginInstall
  <1>4. Ends(j) => Moves(j, "check")
    BY DEF Ends, EndRender
  <1>5. ReuseRuntime(j) \/ Installed(j) => Moves(j, "render")
    BY DEF ReuseRuntime, Installed, Spawn
  <1>6. RendererExits(j) => Moves(j, "validate")
    BY DEF RendererExits
  <1>7. Recheck(j) => Moves(j, "record")
    BY DEF Recheck
  <1>8. RequestFails(j) \/ Record(j) \/ RecordFails(j) => Moves(j, "over")
    BY DEF RequestFails, Record, RecordFails, Leave
  <1> QED BY <1>1, <1>2, <1>3, <1>4, <1>5, <1>6, <1>7, <1>8

\* What the steps that are not one command's do to the commands.
LEMMA OthersKeep ==
    ASSUME TypeOK,
           \/ \E j \in Jobs, whole \in BOOLEAN : RendererWrites(j, whole)
           \/ \E c \in Chats : DeleteConversation(c)
           \/ HoursPass \/ Recover \/ UNCHANGED vars
    PROVE  /\ UNCHANGED <<tokens, ahead, renderer, pc, failed, stopped>>
           /\ mishaps' \in Nat
  BY DEF TypeOK, CommandsTyped, RendererWrites, DeleteConversation, HoursPass, Recover, Alike,
         Mishap, vars

LEMMA CommandsStayTyped ==
    ASSUME TypeOK, [Next]_vars
    PROVE  CommandsTyped'
  <1>1. ASSUME NEW j \in Jobs, Request(j) \/ RequestFails(j)
        PROVE  CommandsTyped'
    <2>1. pc' \in [Jobs -> AtWork \cup {"idle", "over"}]
      BY <1>1, StepsMove DEF Moves
    <2>2. UNCHANGED <<failed, stopped, manifest>> /\ mishaps' \in Nat
      BY <1>1 DEF Request, RequestFails, CreateRow, renderer, Mishap, TypeOK, CommandsTyped
    <2>3. tokens' \in [Jobs -> {"none", "live", "cancelled"}]
      BY <1>1 DEF Request, RequestFails, TypeOK, CommandsTyped
    <2>4. ahead' \in [Images -> SUBSET Images]
      BY <1>1 DEF Request, RequestFails, TypeOK, CommandsTyped
    <2> QED BY <2>1, <2>2, <2>3, <2>4 DEF TypeOK, CommandsTyped
  <1>2. ASSUME NEW j \in Jobs, TakeSlot(j) \/ BeginInstall(j) \/ RendererExits(j)
        PROVE  CommandsTyped'
    <2>1. pc' \in [Jobs -> AtWork \cup {"idle", "over"}]
      BY <1>2, StepsMove DEF Moves
    <2>2. UNCHANGED <<tokens, ahead, manifest, failed, stopped, mishaps>>
      BY <1>2 DEF TakeSlot, BeginInstall, RendererExits, Alike, renderer
    <2> QED BY <2>1, <2>2 DEF TypeOK, CommandsTyped
  <1>3. ASSUME NEW j \in Jobs, Ends(j)
        PROVE  CommandsTyped'
    <2>1. pc' \in [Jobs -> AtWork \cup {"idle", "over"}]
      BY <1>3, StepsMove DEF Moves
    <2>2. UNCHANGED <<tokens, manifest, stopped, mishaps>>
      BY <1>3 DEF Ends, EndRender, Alike
    <2>3. failed' \in [Jobs -> BOOLEAN]
      BY <1>3 DEF Ends, EndRender, TypeOK, CommandsTyped
    <2>4. ahead' \in [Images -> SUBSET Images]
      BY <1>3 DEF Ends, EndRender, FreeSlot, TypeOK, CommandsTyped
    <2> QED BY <2>1, <2>2, <2>3, <2>4 DEF TypeOK, CommandsTyped
  <1>4. ASSUME NEW j \in Jobs, ReuseRuntime(j) \/ Installed(j)
        PROVE  CommandsTyped'
    <2>1. pc' \in [Jobs -> AtWork \cup {"idle", "over"}]
      BY <1>4, StepsMove DEF Moves
    <2>2. UNCHANGED <<tokens, ahead, failed, stopped, mishaps>>
      BY <1>4 DEF ReuseRuntime, Installed, Spawn, Alike
    <2>3. manifest' \in {"none", "cpu", "gpu"}
      BY <1>4 DEF ReuseRuntime, Installed, renderer, Backend, TypeOK, CommandsTyped
    <2> QED BY <2>1, <2>2, <2>3 DEF TypeOK, CommandsTyped
  <1>5. ASSUME NEW j \in Jobs, Recheck(j) \/ Record(j) \/ RecordFails(j)
        PROVE  CommandsTyped'
    <2>1. pc' \in [Jobs -> AtWork \cup {"idle", "over"}]
      BY <1>5, StepsMove DEF Moves
    <2>2. UNCHANGED <<ahead, manifest, stopped>> /\ mishaps' \in Nat
      BY <1>5 DEF Recheck, Record, RecordFails, Alike, renderer, Mishap, TypeOK, CommandsTyped
    <2>3. tokens' \in [Jobs -> {"none", "live", "cancelled"}]
      BY <1>5 DEF Recheck, Record, RecordFails, Leave, TypeOK, CommandsTyped
    <2>4. (failed[j] \/ tokens[j] = "cancelled") \in BOOLEAN
      OBVIOUS
    <2>5. failed' \in [Jobs -> BOOLEAN]
      BY <1>5, <2>4 DEF Recheck, Record, RecordFails, Leave, TypeOK, CommandsTyped
    <2> QED BY <2>1, <2>2, <2>3, <2>5 DEF TypeOK, CommandsTyped
  <1>6. ASSUME NEW j \in Jobs, Cancel(j)
        PROVE  CommandsTyped'
    <2>1. (pc[j] # "record") \in BOOLEAN
      OBVIOUS
    <2>2. stopped' \in [Jobs -> BOOLEAN]
      BY <1>6, <2>1 DEF Cancel, TypeOK, CommandsTyped
    <2> QED BY <1>6, <2>2 DEF Cancel, renderer, TypeOK, CommandsTyped
  <1>7. CASE CrashAndRestart
    <2>1. failed' \in [Jobs -> BOOLEAN]
      BY <1>7, Zenon DEF CrashAndRestart
    <2>2. pc' \in [Jobs -> AtWork \cup {"idle", "over"}]
      BY <1>7 DEF CrashAndRestart
    <2>3. ahead' \in [Images -> SUBSET Images]
      BY <1>7 DEF CrashAndRestart
    <2>4. tokens' \in [Jobs -> {"none", "live", "cancelled"}]
      BY <1>7 DEF CrashAndRestart
    <2> QED BY <1>7, <2>1, <2>2, <2>3, <2>4 DEF CrashAndRestart, Mishap, TypeOK, CommandsTyped
  <1>8. ASSUME UNCHANGED <<tokens, ahead, renderer, pc, failed, stopped>>, mishaps' \in Nat
        PROVE  CommandsTyped'
    BY <1>8 DEF TypeOK, CommandsTyped, renderer
  <1> QED BY <1>1, <1>2, <1>3, <1>4, <1>5, <1>6, <1>7, <1>8, Cases, OthersKeep

LEMMA RegisteredStays ==
    ASSUME TypeOK, [Next]_vars
    PROVE  Registered'
  <1> USE DEF Jobs
  <1>1. ASSUME NEW j \in Jobs, Request(j)
        PROVE  Registered'
    <2>1. CASE j \in Images
      <3>1. tokens' = [tokens EXCEPT ![j] = "live"] /\ Moves(j, "queued")
        BY <1>1, <2>1, StepsMove DEF Request
      <3> QED BY <3>1 DEF Moves, Registered, AtWork, TypeOK, CommandsTyped
    <2>2. CASE j \notin Images
      <3>1. tokens' = tokens /\ \A i \in Images : pc'[i] = pc[i]
        BY <1>1, <2>2, StepsMove DEF Request, Moves
      <3> QED BY <3>1 DEF Registered, TypeOK
    <2> QED BY <2>1, <2>2
  <1>2. ASSUME NEW j \in Jobs, RequestFails(j)
        PROVE  Registered'
    <2>1. pc[j] = "idle" /\ tokens' = tokens /\ Moves(j, "over")
      BY <1>2, StepsMove DEF RequestFails, CreateRow
    <2> QED BY <2>1 DEF Moves, Registered, AtWork, Rendering, TypeOK
  <1>3. ASSUME NEW j \in Jobs, NEW label \in AtWork, Moves(j, label), pc[j] \in AtWork,
               tokens' = tokens
        PROVE  Registered'
    BY <1>3 DEF Moves, Registered, TypeOK
  <1>4. ASSUME NEW j \in Jobs, TakeSlot(j) \/ BeginInstall(j) \/ RendererExits(j) \/ Ends(j)
                               \/ ReuseRuntime(j) \/ Installed(j) \/ Recheck(j)
        PROVE  Registered'
    <2>1. pc[j] \in AtWork /\ tokens' = tokens
      BY <1>4 DEF TakeSlot, BeginInstall, RendererExits, Ends, EndRender, ReuseRuntime, Installed,
                  Spawn, Recheck, AtSlot, AtWork, Rendering
    <2>2. \E label \in AtWork : Moves(j, label)
      BY <1>4, StepsMove DEF AtWork, Rendering
    <2> QED BY <2>1, <2>2, <1>3
  <1>5. ASSUME NEW j \in Jobs, Record(j) \/ RecordFails(j)
        PROVE  Registered'
    <2>1. Moves(j, "over") /\ tokens' = [tokens EXCEPT ![j] = "none"]
      BY <1>5, StepsMove DEF Record, RecordFails, Leave
    <2> QED BY <2>1 DEF Moves, Registered, AtWork, Rendering, TypeOK, CommandsTyped
  <1>6. ASSUME NEW j \in Jobs, Cancel(j)
        PROVE  Registered'
    BY <1>6 DEF Cancel, Registered, TypeOK, CommandsTyped
  <1>7. CASE CrashAndRestart
    BY <1>7 DEF CrashAndRestart, Registered, AtWork, Rendering
  <1>8. ASSUME UNCHANGED <<tokens, ahead, renderer, pc, failed, stopped>>
        PROVE  Registered'
    BY <1>8 DEF Registered, TypeOK
  <1> QED BY <1>1, <1>2, <1>4, <1>5, <1>6, <1>7, <1>8, Cases, OthersKeep

LEMMA LockStays ==
    ASSUME TypeOK, [Next]_vars
    PROVE  LockHeld'
  <1>1. ASSUME NEW j \in Jobs, NEW label, Moves(j, label), label # "install",
               pc[j] # "install", lock' = lock
        PROVE  LockHeld'
    BY <1>1 DEF Moves, LockHeld, TypeOK
  <1>2. ASSUME NEW j \in Jobs, NEW label, Moves(j, label), label # "install", FreeLock(j)
        PROVE  LockHeld'
    BY <1>2 DEF Moves, LockHeld, FreeLock, TypeOK
  <1>3. ASSUME NEW j \in Jobs, Request(j) \/ RequestFails(j) \/ TakeSlot(j) \/ ReuseRuntime(j)
                               \/ RendererExits(j) \/ Recheck(j) \/ Record(j) \/ RecordFails(j)
        PROVE  LockHeld'
    <2>1. lock' = lock /\ pc[j] # "install"
      BY <1>3 DEF Request, RequestFails, CreateRow, TakeSlot, ReuseRuntime, RendererExits, Recheck,
                  Record, RecordFails, renderer
    <2>2. \E label : Moves(j, label) /\ label # "install"
      BY <1>3, StepsMove
    <2> QED BY <2>1, <2>2, <1>1
  <1>4. ASSUME NEW j \in Jobs, Ends(j) \/ Installed(j)
        PROVE  LockHeld'
    <2>1. FreeLock(j)
      BY <1>4 DEF Ends, Installed
    <2>2. \E label : Moves(j, label) /\ label # "install"
      BY <1>4, StepsMove
    <2> QED BY <2>1, <2>2, <1>2
  <1>5. ASSUME NEW j \in Jobs, BeginInstall(j)
        PROVE  LockHeld'
    BY <1>5, StepsMove DEF BeginInstall, Moves, LockHeld, TypeOK
  <1>6. ASSUME NEW j \in Jobs, Cancel(j)
        PROVE  LockHeld'
    BY <1>6 DEF Cancel, LockHeld, TypeOK, renderer
  <1>7. CASE CrashAndRestart
    BY <1>7 DEF CrashAndRestart, LockHeld
  <1>8. ASSUME UNCHANGED <<tokens, ahead, renderer, pc, failed, stopped>>
        PROVE  LockHeld'
    BY <1>8 DEF LockHeld, TypeOK, renderer
  <1> QED BY <1>3, <1>4, <1>5, <1>6, <1>7, <1>8, Cases, OthersKeep

LEMMA SlotStays ==
    ASSUME TypeOK, [Next]_vars
    PROVE  SlotInOrder'
  <1> USE DEF Jobs
  <1>1. ASSUME NEW j \in Jobs, Request(j)
        PROVE  SlotInOrder'
    <2>1. pc[j] = "idle"
      BY <1>1 DEF Request, CreateRow
    <2>2. CASE j \in Images
      <3>1. /\ ahead' = [ahead EXCEPT ![j] = {i \in Images : AtSlot(i)}]
            /\ Moves(j, "queued")
        BY <1>1, <2>2, StepsMove DEF Request
      <3> QED BY <2>1, <2>2, <3>1
              DEF Moves, SlotInOrder, AtSlot, Rendering, TypeOK, CommandsTyped
    <2>3. CASE j \notin Images
      <3>1. ahead' = ahead /\ \A i \in Images : pc'[i] = pc[i]
        BY <1>1, <2>3, StepsMove DEF Request, Moves
      <3> QED BY <3>1 DEF SlotInOrder, AtSlot, TypeOK
    <2> QED BY <2>2, <2>3
  <1>2. ASSUME NEW j \in Jobs, NEW label, Moves(j, label), ahead' = ahead,
               ~AtSlot(j), label \notin {"queued"} \cup Rendering
        PROVE  SlotInOrder'
    BY <1>2 DEF Moves, SlotInOrder, AtSlot, Rendering, TypeOK
  <1>3. ASSUME NEW j \in Jobs, RequestFails(j) \/ Recheck(j) \/ Record(j) \/ RecordFails(j)
        PROVE  SlotInOrder'
    <2>1. ahead' = ahead /\ ~AtSlot(j)
      BY <1>3 DEF RequestFails, CreateRow, Recheck, Record, RecordFails, AtSlot, Rendering
    <2>2. \E label : Moves(j, label) /\ label \notin {"queued"} \cup Rendering
      BY <1>3, StepsMove DEF Rendering
    <2> QED BY <2>1, <2>2, <1>2
  <1>4. ASSUME NEW j \in Jobs, Ends(j)
        PROVE  SlotInOrder'
    <2>1. FreeSlot(j) /\ Moves(j, "check")
      BY <1>4, StepsMove DEF Ends, EndRender
    <2> QED BY <2>1 DEF FreeSlot, Moves, SlotInOrder, AtSlot, Rendering, TypeOK, CommandsTyped
  <1>5. ASSUME NEW j \in Jobs, NEW label \in Rendering, Moves(j, label), ahead' = ahead,
               AtSlot(j), j \in Images => ahead[j] = {}
        PROVE  SlotInOrder'
    BY <1>5 DEF Moves, SlotInOrder, AtSlot, Rendering, TypeOK
  <1>6. ASSUME NEW j \in Jobs, TakeSlot(j) \/ BeginInstall(j) \/ ReuseRuntime(j) \/ Installed(j)
                               \/ RendererExits(j)
        PROVE  SlotInOrder'
    <2>1. ahead' = ahead /\ AtSlot(j)
      BY <1>6 DEF TakeSlot, BeginInstall, ReuseRuntime, Installed, Spawn, RendererExits, AtSlot,
                  Rendering
    <2>2. j \in Images => ahead[j] = {}
      BY <1>6 DEF TakeSlot, BeginInstall, ReuseRuntime, Installed, RendererExits, Rendering,
                  SlotInOrder, TypeOK
    <2>3. \E label \in Rendering : Moves(j, label)
      BY <1>6, StepsMove DEF Rendering
    <2> QED BY <2>1, <2>2, <2>3, <1>5
  <1>7. ASSUME NEW j \in Jobs, Cancel(j)
        PROVE  SlotInOrder'
    BY <1>7 DEF Cancel, SlotInOrder, AtSlot, TypeOK
  <1>8. CASE CrashAndRestart
    BY <1>8 DEF CrashAndRestart, SlotInOrder, AtSlot, Rendering
  <1>9. ASSUME UNCHANGED <<tokens, ahead, renderer, pc, failed, stopped>>
        PROVE  SlotInOrder'
    BY <1>9 DEF SlotInOrder, AtSlot, TypeOK
  <1> QED BY <1>1, <1>3, <1>4, <1>6, <1>7, <1>8, <1>9, Cases, OthersKeep

LEMMA NextTyped == TypeOK /\ [Next]_vars => TypeOK'
  BY RowsStayTyped, CommandsStayTyped, RegisteredStays, LockStays, SlotStays DEF TypeOK

\* The state has its shape, in particular: an image is registered exactly
\* while its command runs, the installation lock is held exactly by the
\* command that installs, and only the first in line renders.
THEOREM TypeCorrect == Spec => []TypeOK
  BY InitTyped, NextTyped, PTL DEF Spec

-----------------------------------------------------------------------------
(* What a step does to one row.                                            *)

Born(i) ==
    /\ pc[i] = "idle" /\ pc'[i] # "idle"
    /\ \E p \in Path :
          /\ p[1] = KindOf(i) /\ p[2] = ChatOf[i]
          /\ rows'[i] = [status |-> "generating", path |-> p, stale |-> FALSE]

Recorded(i) ==
    /\ pc[i] = "record" /\ pc'[i] = "over" /\ rows[i].status # "deleted"
    /\ rows'[i] = [rows[i] EXCEPT !.status = IF failed[i] THEN "failed" ELSE "ready"]

Deleted(i) ==
    /\ rows[i].status # "none" /\ pc'[i] = pc[i]
    /\ rows'[i] = [rows[i] EXCEPT !.status = "deleted"]

Aged(i) ==
    /\ pc[i] \notin AtWork /\ pc'[i] = pc[i] /\ rows[i].status = "generating"
    /\ rows'[i] = [rows[i] EXCEPT !.stale = TRUE]

Recovered(i) ==
    /\ Stale(i)
    /\ rows'[i] = [[rows[i] EXCEPT !.status = "failed"] EXCEPT !.stale = FALSE]

LEMMA RowStep ==
    ASSUME TypeOK, [Next]_vars, NEW i \in Jobs
    PROVE  /\ \/ rows'[i] = rows[i] \/ Born(i) \/ Recorded(i) \/ Deleted(i) \/ Aged(i)
              \/ Recovered(i)
           /\ pc[i] = "over" => pc'[i] = "over"
           /\ pc'[i] = "idle" => pc[i] = "idle"
  <1> DEFINE Goal ==
        /\ \/ rows'[i] = rows[i] \/ Born(i) \/ Recorded(i) \/ Deleted(i) \/ Aged(i) \/ Recovered(i)
        /\ pc[i] = "over" => pc'[i] = "over"
        /\ pc'[i] = "idle" => pc[i] = "idle"
  <1>1. ASSUME NEW j \in Jobs, Request(j) \/ RequestFails(j)
        PROVE  Goal
    <2>1. pc[j] = "idle" /\ CreateRow(j)
      BY <1>1 DEF Request, RequestFails, CreateRow
    <2>2. \A k \in Jobs : k # j => pc'[k] = pc[k]
      BY <1>1, StepsMove DEF Moves
    <2>3. pc'[j] \notin {"idle"}
      BY <1>1, StepsMove DEF Moves
    <2>4. PICK p \in Path :
            /\ Destination(j, p)
            /\ rows' = [rows EXCEPT ![j] = [status |-> "generating", path |-> p, stale |-> FALSE]]
      BY <2>1 DEF CreateRow
    <2>5. CASE i = j
      <3>1. rows'[i] = [status |-> "generating", path |-> p, stale |-> FALSE]
        BY <2>4, <2>5 DEF TypeOK, RowsTyped
      <3>2. rows'[i].status = "generating"
        BY <3>1
      <3>3. Born(i)
        BY <2>1, <2>3, <2>4, <2>5, <3>1 DEF Born, Destination
      <3> QED BY <2>1, <2>3, <2>5, <3>2, <3>3
    <2>6. CASE i # j
      BY <2>2, <2>4, <2>6
    <2> QED BY <2>5, <2>6
  <1>2. ASSUME NEW j \in Jobs, NEW label \in AtWork \cup {"over"}, Moves(j, label), rows' = rows,
               pc[j] \notin {"idle", "over"}
        PROVE  Goal
    BY <1>2 DEF Moves, AtWork, Rendering
  <1>3. ASSUME NEW j \in Jobs, TakeSlot(j) \/ Ends(j) \/ ReuseRuntime(j) \/ BeginInstall(j)
                               \/ Installed(j) \/ RendererExits(j) \/ Recheck(j) \/ RecordFails(j)
        PROVE  Goal
    <2>1. rows' = rows /\ pc[j] \notin {"idle", "over"}
      BY <1>3 DEF TakeSlot, Ends, EndRender, ReuseRuntime, BeginInstall, Installed, Spawn,
                  RendererExits, Recheck, RecordFails, database, AtSlot, Rendering
    <2>2. \E label \in AtWork \cup {"over"} : Moves(j, label)
      BY <1>3, StepsMove DEF AtWork, Rendering
    <2> QED BY <2>1, <2>2, <1>2
  <1>4. ASSUME NEW j \in Jobs, Record(j)
        PROVE  Goal
    <2>1. pc[j] = "record" /\ Moves(j, "over")
      BY <1>4, StepsMove DEF Record
    <2>2. CASE i = j /\ rows[j].status # "deleted"
      <3>1. rows' = [rows EXCEPT ![j].status = IF failed[j] THEN "failed" ELSE "ready"]
        BY <1>4, <2>2 DEF Record
      <3>2. rows'[i] = [rows[i] EXCEPT !.status = IF failed[i] THEN "failed" ELSE "ready"]
        BY <2>2, <3>1 DEF TypeOK, RowsTyped
      <3> QED BY <2>1, <2>2, <3>2 DEF Recorded, Moves
    <2>3. CASE i # j \/ rows[j].status = "deleted"
      <3>1. rows'[i] = rows[i]
        BY <1>4, <2>3 DEF Record
      <3> QED BY <2>1, <3>1 DEF Moves
    <2> QED BY <2>2, <2>3
  <1>5. ASSUME pc' = pc, \/ rows'[i] = rows[i] \/ Deleted(i) \/ Aged(i) \/ Recovered(i)
        PROVE  Goal
    BY <1>5
  <1>6. ASSUME NEW j \in Jobs, Cancel(j) \/ \E whole \in BOOLEAN : RendererWrites(j, whole)
        PROVE  Goal
    BY <1>5, <1>6 DEF Cancel, RendererWrites, database
  <1>7. ASSUME NEW c \in Chats, DeleteConversation(c)
        PROVE  Goal
    BY <1>5, <1>7 DEF DeleteConversation, Deleted
  <1>8. CASE HoursPass
    <2>1. pc' = pc
      BY <1>8 DEF HoursPass
    <2>2. CASE i \in Images /\ rows[i].status = "generating" /\ ~Beats(i)
      <3>1. pc[i] \notin AtWork
        BY <1>8, <2>2 DEF HoursPass, Beats, AtSlot, AtWork
      <3> QED BY <1>5, <1>8, <2>1, <2>2, <3>1 DEF HoursPass, Aged
    <2>3. CASE ~(i \in Images /\ rows[i].status = "generating" /\ ~Beats(i))
      BY <1>5, <1>8, <2>1, <2>3 DEF HoursPass
    <2> QED BY <2>2, <2>3
  <1>9. ASSUME RecoverStale
        PROVE  rows'[i] = rows[i] \/ Recovered(i)
    BY <1>9 DEF RecoverStale, Recovered
  <1>10. CASE Recover
    BY <1>5, <1>9, <1>10 DEF Recover
  <1>11. CASE CrashAndRestart
    <2>1. pc'[i] = IF pc[i] = "idle" THEN "idle" ELSE "over"
      BY <1>11 DEF CrashAndRestart
    <2> QED BY <1>9, <1>11, <2>1 DEF CrashAndRestart
  <1>12. CASE UNCHANGED vars
    BY <1>12 DEF vars, database
  <1> QED BY <1>1, <1>3, <1>4, <1>6, <1>7, <1>8, <1>10, <1>11, <1>12, Cases

-----------------------------------------------------------------------------
(* Recovery.                                                               *)

\* A request that was not made has no row, and a row that is due for recovery
\* has no command.
StaleIsOver ==
    \A j \in Jobs :
        /\ pc[j] = "idle" => rows[j].status = "none"
        /\ Stale(j) => pc[j] = "over"

LEMMA StaleInit == Init => StaleIsOver
  BY DEF Init, StaleIsOver, Stale, NoRow

LEMMA StaleStep ==
    ASSUME TypeOK, StaleIsOver, [Next]_vars
    PROVE  StaleIsOver'
  <1> SUFFICES ASSUME NEW j \in Jobs
               PROVE  /\ pc'[j] = "idle" => rows'[j].status = "none"
                      /\ Stale(j)' => pc'[j] = "over"
    BY DEF StaleIsOver
  <1>1. /\ pc[j] = "idle" => rows[j].status = "none"
        /\ Stale(j) => pc[j] = "over"
        /\ pc[j] = "over" => pc'[j] = "over"
        /\ pc'[j] = "idle" => pc[j] = "idle"
        /\ rows[j] \in Row /\ pc[j] \in AtWork \cup {"idle", "over"}
    BY RowStep DEF StaleIsOver, TypeOK, RowsTyped, CommandsTyped
  <1>2. CASE rows'[j] = rows[j]
    BY <1>1, <1>2 DEF Stale
  <1>3. CASE Born(j)
    <2>1. ~rows'[j].stale
      BY <1>3 DEF Born
    <2> QED BY <1>3, <2>1 DEF Born, Stale
  <1>4. CASE Recorded(j) \/ Deleted(j)
    <2>1. rows'[j].status # "generating" /\ pc[j] # "idle"
      BY <1>1, <1>4 DEF Recorded, Deleted, Row
    <2> QED BY <1>1, <2>1 DEF Stale
  <1>5. CASE Aged(j)
    BY <1>1, <1>5 DEF Aged, Stale
  <1>6. CASE Recovered(j)
    <2>1. rows'[j].status = "failed" /\ pc[j] = "over"
      BY <1>1, <1>6 DEF Recovered, Row
    <2> QED BY <1>1, <2>1 DEF Stale
  <1> QED BY <1>2, <1>3, <1>4, <1>5, <1>6, RowStep

LEMMA SpareStep ==
    ASSUME TypeOK, StaleIsOver, [Next]_vars, NEW j \in Images,
           rows[j].status = "generating", rows'[j].status = "failed"
    PROVE  pc[j] \in {"record", "over"}
  <1>1. j \in Jobs /\ rows[j] \in Row
    BY DEF Jobs, TypeOK, RowsTyped
  <1>2. CASE Born(j)
    <2>1. rows'[j].status = "generating"
      BY <1>2 DEF Born
    <2> QED BY <2>1
  <1>3. CASE Deleted(j) \/ Aged(j)
    <2>1. rows'[j].status # "failed"
      BY <1>1, <1>3 DEF Deleted, Aged, Row
    <2> QED BY <2>1
  <1>4. CASE Recorded(j)
    BY <1>4 DEF Recorded
  <1>5. CASE Recovered(j)
    BY <1>1, <1>5 DEF Recovered, StaleIsOver
  <1> QED BY <1>1, <1>2, <1>3, <1>4, <1>5, RowStep

\* "an active image older than four hours could be mistaken for an abandoned
\* job" (lib_legacy.rs:738): recovery gives up no image whose command is at
\* work.
THEOREM LiveJobsSpared == Spec => RecoverySparesLiveJobs
  <1>1. Init => TypeOK /\ StaleIsOver
    BY InitTyped, StaleInit
  <1>2. TypeOK /\ StaleIsOver /\ [Next]_vars => (TypeOK /\ StaleIsOver)'
    BY NextTyped, StaleStep
  <1>3. TypeOK /\ StaleIsOver /\ [Next]_vars
          => [\A j \in Images :
                rows[j].status = "generating" /\ rows'[j].status = "failed"
                  => pc[j] \in {"record", "over"}]_vars
    BY SpareStep
  <1> QED BY <1>1, <1>2, <1>3, PTL DEF Spec, RecoverySparesLiveJobs

-----------------------------------------------------------------------------
(* The Stop button.                                                        *)

\* A stop is remembered by the token until the result is looked at, and by the
\* result from then on.
StopHeld ==
    \A j \in Jobs :
        /\ tokens[j] # "none" => pc[j] \in AtWork
        /\ rows[j].status = "ready" => pc[j] = "over"
        /\ stopped[j] =>
              /\ rows[j].status # "ready" /\ pc[j] # "idle"
              /\ pc[j] \in AtWork \ {"record"} => tokens[j] = "cancelled"
              /\ pc[j] = "record" => failed[j]

LEMMA StopInit == Init => StopHeld
  BY DEF Init, StopHeld, NoRow

\* What a step does to the stop of one command.
LEMMA StopStep ==
    ASSUME TypeOK, StopHeld, [Next]_vars, NEW i \in Jobs
    PROVE  /\ tokens'[i] # "none" => pc'[i] \in AtWork
           /\ stopped'[i] =>
                 /\ pc'[i] # "idle"
                 /\ pc'[i] \in AtWork \ {"record"} => tokens'[i] = "cancelled"
                 /\ pc'[i] = "record" => failed'[i]
                 /\ stopped[i] \/ (rows'[i] = rows[i] /\ pc[i] # "over")
  <1> DEFINE Goal ==
        /\ tokens'[i] # "none" => pc'[i] \in AtWork
        /\ stopped'[i] =>
              /\ pc'[i] # "idle"
              /\ pc'[i] \in AtWork \ {"record"} => tokens'[i] = "cancelled"
              /\ pc'[i] = "record" => failed'[i]
              /\ stopped[i] \/ (rows'[i] = rows[i] /\ pc[i] # "over")
  <1>1. ASSUME UNCHANGED <<tokens, failed, stopped>>, pc'[i] = pc[i]
        PROVE  Goal
    BY <1>1 DEF StopHeld
  <1>2. ASSUME NEW j \in Jobs, NEW label \in AtWork \ {"record"}, Moves(j, label),
               UNCHANGED <<tokens, stopped>>, pc[j] \in AtWork \ {"record"}, failed'[i] = failed[i] \/ i = j
        PROVE  Goal
    <2>1. CASE i = j
      BY <1>2, <2>1 DEF StopHeld, Moves, AtWork, Rendering
    <2>2. CASE i # j
      BY <1>2, <2>2 DEF StopHeld, Moves
    <2> QED BY <2>1, <2>2
  <1>3. ASSUME NEW j \in Jobs, Request(j) \/ RequestFails(j)
        PROVE  Goal
    <2>1. /\ pc[j] = "idle" /\ UNCHANGED <<failed, stopped>>
          /\ \A k \in Jobs : k # j => pc'[k] = pc[k] /\ tokens'[k] = tokens[k]
      BY <1>3, StepsMove DEF Request, RequestFails, CreateRow, Moves, TypeOK, CommandsTyped
    <2>2. CASE i # j
      BY <2>1, <2>2 DEF StopHeld
    <2>3. CASE i = j
      <3>1. ~stopped[i] /\ tokens[i] = "none"
        BY <2>1, <2>3 DEF StopHeld, AtWork, Rendering
      <3>2. tokens'[i] # "none" => pc'[i] \in AtWork
        <4>1. CASE Request(j) /\ j \in Images
          BY <2>3, <4>1, StepsMove DEF Moves, AtWork
        <4>2. CASE RequestFails(j) \/ j \notin Images
          BY <1>3, <2>3, <3>1, <4>2 DEF Request, RequestFails
        <4> QED BY <1>3, <4>1, <4>2
      <3> QED BY <2>1, <3>1, <3>2
    <2> QED BY <2>2, <2>3
  <1>4. ASSUME NEW j \in Jobs, TakeSlot(j) \/ Ends(j) \/ ReuseRuntime(j) \/ BeginInstall(j)
                               \/ Installed(j) \/ RendererExits(j)
        PROVE  Goal
    <2>1. /\ UNCHANGED <<tokens, stopped>> /\ pc[j] \in AtWork \ {"record"}
          /\ failed'[i] = failed[i] \/ i = j
      BY <1>4 DEF TakeSlot, Ends, EndRender, ReuseRuntime, BeginInstall, Installed, Spawn,
                  RendererExits, Alike, AtSlot, AtWork, Rendering, TypeOK, CommandsTyped
    <2>2. \E label \in AtWork \ {"record"} : Moves(j, label)
      BY <1>4, StepsMove DEF AtWork, Rendering
    <2> QED BY <2>1, <2>2, <1>2
  <1>5. ASSUME NEW j \in Jobs, Recheck(j)
        PROVE  Goal
    <2> DEFINE bad == failed[j] \/ tokens[j] = "cancelled"
    <2>1. UNCHANGED <<tokens, stopped>> /\ pc[j] = "check" /\ Moves(j, "record")
      BY <1>5, StepsMove DEF Recheck, Alike
    <2>2. failed' = [failed EXCEPT ![j] = bad]
      BY <1>5 DEF Recheck
    <2>3. CASE i # j
      BY <1>1, <2>1, <2>2, <2>3 DEF Moves, StopHeld, TypeOK, CommandsTyped
    <2>4. CASE i = j
      <3>1. stopped[i] => tokens[j] = "cancelled"
        BY <2>1, <2>4 DEF StopHeld, AtWork
      <3>2. failed'[i] <=> bad
        BY <2>2, <2>4 DEF TypeOK, CommandsTyped
      <3> QED BY <2>1, <2>4, <3>1, <3>2 DEF Moves, AtWork
    <2> QED BY <2>3, <2>4
  <1>6. ASSUME NEW j \in Jobs, Record(j) \/ RecordFails(j)
        PROVE  Goal
    <2>1. /\ tokens' = [tokens EXCEPT ![j] = "none"] /\ failed' = [failed EXCEPT ![j] = FALSE]
          /\ stopped' = stopped /\ Moves(j, "over")
      BY <1>6, StepsMove DEF Record, RecordFails, Leave, Alike
    <2>2. CASE i # j
      BY <2>1, <2>2 DEF Moves, StopHeld
    <2>3. CASE i = j
      BY <2>1, <2>3 DEF Moves, StopHeld, AtWork, Rendering, TypeOK, CommandsTyped
    <2> QED BY <2>2, <2>3
  <1>7. ASSUME NEW j \in Jobs, Cancel(j)
        PROVE  Goal
    <2>1. /\ tokens[j] = "live" /\ tokens' = [tokens EXCEPT ![j] = "cancelled"]
          /\ UNCHANGED <<rows, pc, failed>> /\ pc[j] \in AtWork
      BY <1>7 DEF Cancel, database, StopHeld
    <2>2. CASE i # j
      <3>1. stopped'[i] = stopped[i] /\ tokens'[i] = tokens[i]
        BY <1>7, <2>1, <2>2 DEF Cancel
      <3> QED BY <2>1, <3>1 DEF StopHeld
    <2>3. CASE i = j
      <3>1. stopped'[i] <=> pc[i] # "record"
        BY <1>7, <2>3 DEF Cancel, TypeOK, CommandsTyped
      <3> QED BY <2>1, <2>3, <3>1 DEF AtWork, Rendering, TypeOK, CommandsTyped
    <2> QED BY <2>2, <2>3
  <1>8. CASE CrashAndRestart
    <2>1. tokens'[i] = "none" /\ stopped' = stopped
      BY <1>8 DEF CrashAndRestart
    <2>2. pc'[i] = IF pc[i] = "idle" THEN "idle" ELSE "over"
      BY <1>8 DEF CrashAndRestart
    <2> QED BY <2>1, <2>2 DEF StopHeld, AtWork, Rendering
  <1>9. ASSUME UNCHANGED <<tokens, ahead, renderer, pc, failed, stopped>>
        PROVE  Goal
    BY <1>1, <1>9
  <1> QED BY <1>3, <1>4, <1>5, <1>6, <1>7, <1>8, <1>9, Cases, OthersKeep

LEMMA StopKept ==
    ASSUME TypeOK, StaleIsOver, StopHeld, [Next]_vars
    PROVE  StopHeld'
  <1> SUFFICES ASSUME NEW j \in Jobs
               PROVE  /\ rows'[j].status = "ready" => pc'[j] = "over"
                      /\ stopped'[j] => rows'[j].status # "ready"
    BY StopStep DEF StopHeld
  <1>1. rows[j] \in Row /\ (rows[j].status = "ready" => pc[j] = "over")
    BY DEF TypeOK, RowsTyped, StopHeld
  <1>2. CASE rows'[j].status # "ready"
    BY <1>2
  <1>3. CASE rows'[j] = rows[j]
    BY <1>1, <1>3, StopStep, RowStep DEF StopHeld, AtWork, Rendering
  <1>4. CASE Born(j)
    BY <1>2, <1>4 DEF Born
  <1>5. CASE Deleted(j) \/ Recovered(j) \/ Aged(j)
    <2>1. rows'[j].status # "ready"
      BY <1>1, <1>5 DEF Deleted, Recovered, Aged, Row
    <2> QED BY <2>1
  <1>6. CASE Recorded(j)
    <2>1. rows'[j].status = "ready" => ~failed[j]
      BY <1>1, <1>6 DEF Recorded, Row
    <2>2. stopped[j] => failed[j]
      BY <1>6 DEF Recorded, StopHeld
    <2>3. rows'[j].status = "ready" => rows'[j] # rows[j]
      BY <1>1, <1>6 DEF Recorded
    <2> QED BY <1>6, <2>1, <2>2, <2>3, StopStep DEF Recorded
  <1> QED BY <1>3, <1>4, <1>5, <1>6, RowStep

\* "A cancellation arriving just as inference finishes must not publish a
\* ready image" (lib_legacy.rs:768): a job that was stopped before its result
\* was looked at is never ready.
THEOREM CancelledStaysUnready == Spec => []CancelledIsNeverReady
  <1>1. Init => TypeOK /\ StaleIsOver /\ StopHeld
    BY InitTyped, StaleInit, StopInit
  <1>2. TypeOK /\ StaleIsOver /\ StopHeld /\ [Next]_vars => (TypeOK /\ StaleIsOver /\ StopHeld)'
    BY NextTyped, StaleStep, StopKept
  <1>3. StopHeld => CancelledIsNeverReady
    BY DEF StopHeld, CancelledIsNeverReady
  <1> QED BY <1>1, <1>2, <1>3, PTL DEF Spec

-----------------------------------------------------------------------------
(* The files.                                                              *)

\* No conversation asks for a second artifact of the same kind.
Apart ==
    \A i, j \in Jobs : i # j /\ KindOf(i) = KindOf(j) => ChatOf[i] # ChatOf[j]

\* A file belongs to the one row that has its name.
FilesOwned ==
    /\ \A j \in Jobs : rows[j].status # "none" =>
          Output(j)[1] = KindOf(j) /\ Output(j)[2] = ChatOf[j]
    /\ \A p \in Path : files[p] # NoFile =>
          /\ files[p].by \in Jobs
          /\ rows[files[p].by].status # "none" /\ Output(files[p].by) = p

\* A rendering that counts as a success, and then as ready, has its file.
OutputKept ==
    \A j \in Jobs :
        \/ rows[j].status = "ready"
        \/ pc[j] \in {"check", "record"} /\ ~failed[j] /\ rows[j].status # "deleted"
        => files[Output(j)] = [by |-> j, whole |-> TRUE]

LEMMA FilesInit == Init => FilesOwned /\ OutputKept
  BY DEF Init, FilesOwned, OutputKept, NoRow

LEMMA OutputsDiffer ==
    ASSUME Apart, FilesOwned, NEW i \in Jobs, NEW j \in Jobs, i # j,
           rows[i].status # "none", rows[j].status # "none"
    PROVE  Output(i) # Output(j)
  BY DEF Apart, FilesOwned

\* A step keeps the row's name, unless it gives the first.
LEMMA PathStep ==
    ASSUME TypeOK, StaleIsOver, [Next]_vars, NEW i \in Jobs
    PROVE  /\ \/ Born(i)
              \/ /\ Output(i)' = Output(i)
                 /\ rows'[i].status = "none" <=> rows[i].status = "none"
           /\ rows'[i].status = "ready" => rows[i].status = "ready" \/ Recorded(i)
           /\ rows'[i].status # "deleted" => rows[i].status # "deleted"
  <1>1. rows[i] \in Row
    BY DEF TypeOK, RowsTyped
  <1>2. CASE rows'[i] = rows[i]
    BY <1>2 DEF Output
  <1>3. CASE Born(i)
    <2>1. rows'[i].status = "generating"
      BY <1>3 DEF Born
    <2>2. rows[i].status = "none"
      BY <1>3 DEF Born, StaleIsOver
    <2> QED BY <1>3, <2>1, <2>2
  <1>4. CASE Recorded(i)
    <2>1. /\ rows'[i].path = rows[i].path /\ rows'[i].status \notin {"none", "deleted"}
          /\ rows[i].status # "deleted"
      BY <1>1, <1>4 DEF Recorded, Row
    <2>2. rows[i].status # "none"
      BY <1>4 DEF Recorded, TypeOK, RowsTyped
    <2> QED BY <1>4, <2>1, <2>2 DEF Output
  <1>5. CASE Deleted(i)
    <2>1. rows'[i].path = rows[i].path /\ rows'[i].status = "deleted" /\ rows[i].status # "none"
      BY <1>1, <1>5 DEF Deleted, Row
    <2> QED BY <2>1 DEF Output
  <1>6. CASE Aged(i)
    <2>1. rows'[i].path = rows[i].path /\ rows'[i].status = rows[i].status
      BY <1>1, <1>6, RowFields DEF Aged
    <2> QED BY <2>1 DEF Output
  <1>7. CASE Recovered(i)
    <2>1. /\ rows'[i].path = rows[i].path /\ rows'[i].status = "failed"
          /\ rows[i].status = "generating"
      BY <1>1, <1>7 DEF Recovered, Stale, Row
    <2> QED BY <2>1 DEF Output
  <1> QED BY <1>2, <1>3, <1>4, <1>5, <1>6, <1>7, RowStep

\* What a step does to the file of one name.
LEMMA FileStep ==
    ASSUME TypeOK, [Next]_vars, NEW p \in Path
    PROVE  \/ files'[p] = files[p]
           \/ /\ files'[p] = NoFile
              /\ \E j \in Jobs :
                    /\ Output(j) = p
                    /\ \/ pc[j] \in {"prepare", "install"} /\ pc'[j] = "render"
                       \/ Recheck(j) /\ failed'[j]
                       \/ rows[j].status # "none" /\ rows'[j].status = "deleted"
                       \/ Recovered(j)
           \/ \E j \in Jobs, whole \in BOOLEAN :
                 RendererWrites(j, whole) /\ Output(j) = p /\ files'[p] = [by |-> j, whole |-> whole]
  <1> DEFINE Goal ==
        \/ files'[p] = files[p]
        \/ /\ files'[p] = NoFile
           /\ \E j \in Jobs :
                 /\ Output(j) = p
                 /\ \/ pc[j] \in {"prepare", "install"} /\ pc'[j] = "render"
                    \/ Recheck(j) /\ failed'[j]
                    \/ rows[j].status # "none" /\ rows'[j].status = "deleted"
                    \/ Recovered(j)
        \/ \E j \in Jobs, whole \in BOOLEAN :
              RendererWrites(j, whole) /\ Output(j) = p /\ files'[p] = [by |-> j, whole |-> whole]
  <1>1. ASSUME NEW j \in Jobs,
               \/ Request(j) \/ RequestFails(j) \/ TakeSlot(j) \/ Ends(j) \/ BeginInstall(j)
               \/ RendererExits(j) \/ Record(j) \/ RecordFails(j) \/ Cancel(j)
        PROVE  Goal
    <2>1. files' = files
      BY <1>1 DEF Request, RequestFails, CreateRow, TakeSlot, Ends, BeginInstall, RendererExits,
                  Record, RecordFails, Cancel
    <2> QED BY <2>1
  <1>2. ASSUME NEW j \in Jobs, ReuseRuntime(j) \/ Installed(j)
        PROVE  Goal
    <2>1. /\ files' = [files EXCEPT ![Output(j)] = NoFile]
          /\ pc[j] \in {"prepare", "install"} /\ pc'[j] = "render"
      BY <1>2, StepsMove DEF ReuseRuntime, Installed, Spawn, Moves
    <2> QED BY <2>1 DEF TypeOK, RowsTyped
  <1>3. ASSUME NEW j \in Jobs, Recheck(j)
        PROVE  Goal
    <2> DEFINE bad == failed[j] \/ tokens[j] = "cancelled"
    <2>1. failed' = [failed EXCEPT ![j] = bad]
      BY <1>3 DEF Recheck
    <2>2. failed'[j] <=> bad
      BY <2>1 DEF TypeOK, CommandsTyped
    <2>3. CASE ~bad
      BY <1>3, <2>3 DEF Recheck
    <2>4. CASE bad
      <3>1. files' = [files EXCEPT ![Output(j)] = NoFile]
        BY <1>3, <2>4 DEF Recheck
      <3> QED BY <1>3, <2>2, <2>4, <3>1 DEF TypeOK, RowsTyped
    <2> QED BY <2>3, <2>4
  <1>4. ASSUME NEW j \in Jobs, NEW whole \in BOOLEAN, RendererWrites(j, whole)
        PROVE  Goal
    <2>1. files' = [files EXCEPT ![Output(j)] = [by |-> j, whole |-> whole]]
      BY <1>4 DEF RendererWrites
    <2>2. CASE Output(j) = p
      BY <1>4, <2>1, <2>2 DEF TypeOK, RowsTyped
    <2>3. CASE Output(j) # p
      BY <2>1, <2>3
    <2> QED BY <2>2, <2>3
  <1>5. ASSUME NEW c \in Chats, DeleteConversation(c)
        PROVE  Goal
    <2> DEFINE ours == {j \in Jobs : ChatOf[j] = c /\ rows[j].status # "none"}
    <2>1. files'[p] = IF p \in {Output(j) : j \in ours} THEN NoFile ELSE files[p]
      BY <1>5 DEF DeleteConversation
    <2>2. CASE p \in {Output(j) : j \in ours}
      <3>1. PICK j \in ours : p = Output(j)
        BY <2>2
      <3>2. rows'[j] = [rows[j] EXCEPT !.status = "deleted"] /\ rows[j] \in Row
        BY <1>5 DEF DeleteConversation, TypeOK, RowsTyped
      <3>3. rows'[j].status = "deleted"
        BY <3>2 DEF Row
      <3> QED BY <2>1, <2>2, <3>1, <3>3
    <2>3. CASE p \notin {Output(j) : j \in ours}
      BY <2>1, <2>3
    <2> QED BY <2>2, <2>3
  <1>6. ASSUME RecoverStale
        PROVE  Goal
    <2>1. files'[p] = IF \E j \in Jobs : Stale(j) /\ Output(j) = p THEN NoFile ELSE files[p]
      BY <1>6 DEF RecoverStale
    <2>2. CASE \E j \in Jobs : Stale(j) /\ Output(j) = p
      <3>1. PICK j \in Jobs : Stale(j) /\ Output(j) = p
        BY <2>2
      <3>2. Recovered(j)
        BY <1>6, <3>1 DEF RecoverStale, Recovered
      <3> QED BY <2>1, <2>2, <3>1, <3>2
    <2>3. CASE ~\E j \in Jobs : Stale(j) /\ Output(j) = p
      BY <2>1, <2>3
    <2> QED BY <2>2, <2>3
  <1>7. CASE HoursPass \/ UNCHANGED vars
    BY <1>7 DEF HoursPass, vars
  <1>8. CASE Recover \/ CrashAndRestart
    BY <1>6, <1>8 DEF Recover, CrashAndRestart
  <1> QED BY <1>1, <1>2, <1>3, <1>4, <1>5, <1>7, <1>8, Cases

LEMMA OwnedKept ==
    ASSUME TypeOK, StaleIsOver, FilesOwned, [Next]_vars
    PROVE  FilesOwned'
  <1>1. ASSUME NEW j \in Jobs, rows'[j].status # "none"
        PROVE  Output(j)'[1] = KindOf(j) /\ Output(j)'[2] = ChatOf[j]
    <2>1. CASE Born(j)
      BY <2>1 DEF Born, Output
    <2>2. CASE Output(j)' = Output(j) /\ (rows'[j].status = "none" <=> rows[j].status = "none")
      BY <1>1, <2>2 DEF FilesOwned
    <2> QED BY <2>1, <2>2, PathStep
  <1>2. ASSUME NEW p \in Path, files'[p] # NoFile
        PROVE  /\ files'[p].by \in Jobs
               /\ rows'[files'[p].by].status # "none" /\ rows'[files'[p].by].path = p
    <2>1. CASE files'[p] = files[p]
      <3>1. PICK i \in Jobs : i = files[p].by /\ rows[i].status # "none" /\ Output(i) = p
        BY <1>2, <2>1 DEF FilesOwned
      <3>2. ~Born(i)
        BY <3>1 DEF Born, StaleIsOver
      <3>3. Output(i)' = p /\ rows'[i].status # "none"
        BY <3>1, <3>2, PathStep
      <3> QED BY <2>1, <3>1, <3>3 DEF Output
    <2>2. ASSUME NEW j \in Jobs, NEW whole \in BOOLEAN, RendererWrites(j, whole), Output(j) = p,
                 files'[p] = [by |-> j, whole |-> whole]
          PROVE  /\ files'[p].by \in Jobs
                 /\ rows'[files'[p].by].status # "none" /\ rows'[files'[p].by].path = p
      <3>1. files'[p].by = j
        BY <2>2
      <3>2. rows' = rows /\ pc[j] # "idle"
        BY <2>2 DEF RendererWrites
      <3>3. rows[j].status # "none"
        BY <3>2 DEF TypeOK, RowsTyped
      <3> QED BY <2>2, <3>1, <3>2, <3>3 DEF Output
    <2> QED BY <1>2, <2>1, <2>2, FileStep
  <1> QED BY <1>1, <1>2 DEF FilesOwned, Output

\* Who is about to be checked comes from the validation, and who is about to be
\* recorded from the check.
LEMMA CheckStep ==
    ASSUME TypeOK, [Next]_vars, NEW j \in Jobs, pc'[j] \in {"check", "record"}, ~failed'[j]
    PROVE  \/ pc[j] \in {"check", "record"} /\ ~failed[j]
           \/ pc[j] = "validate" /\ Ends(j) /\ files[Output(j)].whole
  <1> DEFINE Goal ==
        \/ pc[j] \in {"check", "record"} /\ ~failed[j]
        \/ pc[j] = "validate" /\ Ends(j) /\ files[Output(j)].whole
  <1>1. CASE pc'[j] = pc[j] /\ failed'[j] = failed[j]
    BY <1>1
  <1>2. ASSUME NEW i \in Jobs, i # j, NEW label, Moves(i, label), failed'[j] = failed[j]
        PROVE  Goal
    BY <1>2 DEF Moves
  <1>3. ASSUME NEW i \in Jobs, \/ Request(i) \/ RequestFails(i) \/ TakeSlot(i) \/ ReuseRuntime(i)
                               \/ BeginInstall(i) \/ Installed(i) \/ RendererExits(i)
                               \/ Record(i) \/ RecordFails(i)
        PROVE  Goal
    <2>1. failed'[j] = failed[j] \/ i = j
      BY <1>3 DEF Request, RequestFails, CreateRow, TakeSlot, ReuseRuntime, BeginInstall, Installed,
                  Spawn, RendererExits, Record, RecordFails, Leave, TypeOK, CommandsTyped
    <2>2. \E label : Moves(i, label) /\ label \notin {"check", "record"}
      BY <1>3, StepsMove
    <2>3. i # j
      BY <2>2 DEF Moves
    <2> QED BY <1>2, <2>1, <2>2, <2>3
  <1>4. ASSUME NEW i \in Jobs, Ends(i)
        PROVE  Goal
    <2>1. PICK bad \in BOOLEAN :
             /\ EndRender(i, bad)
             /\ ~bad => pc[i] = "validate" /\ files[Output(i)].whole
      BY <1>4 DEF Ends
    <2>2. failed' = [failed EXCEPT ![i] = bad] /\ Moves(i, "check")
      BY <1>4, <2>1, StepsMove DEF EndRender
    <2>3. CASE i = j
      <3>1. ~bad
        BY <2>2, <2>3 DEF TypeOK, CommandsTyped
      <3> QED BY <1>4, <2>1, <2>3, <3>1
    <2>4. CASE i # j
      BY <1>2, <2>2, <2>4
    <2> QED BY <2>3, <2>4
  <1>5. ASSUME NEW i \in Jobs, Recheck(i)
        PROVE  Goal
    <2> DEFINE bad == failed[i] \/ tokens[i] = "cancelled"
    <2>1. failed' = [failed EXCEPT ![i] = bad] /\ pc[i] = "check" /\ Moves(i, "record")
      BY <1>5, StepsMove DEF Recheck
    <2>2. CASE i = j
      <3>1. failed'[j] <=> bad
        BY <2>1, <2>2 DEF TypeOK, CommandsTyped
      <3> QED BY <2>1, <2>2, <3>1
    <2>3. CASE i # j
      BY <1>2, <2>1, <2>3
    <2> QED BY <2>2, <2>3
  <1>6. CASE (\E i \in Jobs : Cancel(i)) \/ UNCHANGED <<tokens, ahead, renderer, pc, failed, stopped>>
    BY <1>1, <1>6 DEF Cancel
  <1>7. CASE CrashAndRestart
    BY <1>7 DEF CrashAndRestart
  <1> QED BY <1>3, <1>4, <1>5, <1>6, <1>7, Cases, OthersKeep

LEMMA OutputStays ==
    ASSUME Apart, TypeOK, StaleIsOver, StopHeld, FilesOwned, OutputKept, [Next]_vars
    PROVE  OutputKept'
  <1> DEFINE Done(j) ==
        \/ rows[j].status = "ready"
        \/ pc[j] \in {"check", "record"} /\ ~failed[j] /\ rows[j].status # "deleted"
  <1> SUFFICES ASSUME NEW j \in Jobs, Done(j)'
               PROVE  files'[Output(j)'] = [by |-> j, whole |-> TRUE]
    BY DEF OutputKept
  <1>1. ~Born(j)
    <2>1. ASSUME Born(j)
          PROVE  FALSE
      <3>1. rows'[j].status = "generating" /\ pc[j] = "idle"
        BY <2>1 DEF Born
      <3>2. pc'[j] \in {"check", "record"}
        BY <3>1
      <3> QED BY <3>1, <3>2, CheckStep
    <2> QED BY <2>1
  <1>2. rows[j].status # "none" /\ Output(j)' = Output(j) /\ Output(j) \in Path
    <2>1. pc'[j] \in {"check", "record"} => rows'[j].status # "none"
      BY RowsStayTyped DEF RowsTyped
    <2> QED BY <1>1, <2>1, PathStep DEF TypeOK, RowsTyped, Output
  <1>3. \/ Done(j)
        \/ pc[j] = "validate" /\ Ends(j) /\ files[Output(j)].whole
    <2>1. CASE rows'[j].status = "ready"
      <3>1. CASE Recorded(j)
        BY <2>1, <3>1 DEF Recorded, Row, TypeOK, RowsTyped
      <3> QED BY <2>1, <3>1, PathStep
    <2>2. CASE pc'[j] \in {"check", "record"} /\ ~failed'[j] /\ rows'[j].status # "deleted"
      BY <2>2, PathStep, CheckStep
    <2> QED BY <2>1, <2>2
  <1>4. files[Output(j)] = [by |-> j, whole |-> TRUE]
    <2>1. CASE Done(j)
      BY <2>1 DEF OutputKept
    <2>2. CASE files[Output(j)].whole
      <3>1. files[Output(j)] # NoFile /\ files[Output(j)] \in File
        BY <1>2, <2>2 DEF NoFile, TypeOK, RowsTyped
      <3>2. files[Output(j)].by = j
        BY <1>2, <3>1, OutputsDiffer DEF FilesOwned
      <3> QED BY <2>2, <3>1, <3>2 DEF File
    <2> QED BY <1>3, <2>1, <2>2
  <1>5. ASSUME NEW i \in Jobs, Output(i) = Output(j),
               \/ pc[i] \in {"prepare", "install"} /\ pc'[i] = "render"
               \/ Recheck(i) /\ failed'[i]
               \/ rows[i].status # "none" /\ rows'[i].status = "deleted"
               \/ Recovered(i)
               \/ pc[i] = "render" /\ pc'[i] = "render"
        PROVE  FALSE
    <2>1. rows[i].status # "none"
      BY <1>5 DEF Recheck, Recovered, Stale, TypeOK, RowsTyped
    <2>2. i = j
      BY <1>2, <1>5, <2>1, OutputsDiffer
    <2>3. ~(rows'[j].status = "deleted")
      OBVIOUS
    <2>4. CASE Recheck(j) /\ failed'[j]
      <3>1. pc[j] = "check" /\ rows' = rows
        BY <2>4 DEF Recheck
      <3> QED BY <2>4, <3>1 DEF StopHeld
    <2>5. CASE Recovered(j)
      <3>1. pc[j] = "over" /\ rows'[j].status = "failed"
        BY <2>5 DEF Recovered, StaleIsOver, Row, TypeOK, RowsTyped
      <3>2. pc'[j] = "over"
        BY <3>1, RowStep
      <3> QED BY <3>1, <3>2
    <2>6. CASE pc[j] \in {"prepare", "install", "render"} /\ pc'[j] = "render"
      <3>1. rows'[j].status = "ready"
        BY <2>6
      <3> QED BY <2>6, <3>1, PathStep DEF Recorded, StopHeld
    <2> QED BY <1>5, <2>2, <2>3, <2>4, <2>5, <2>6
  <1>6. ASSUME NEW i \in Jobs, NEW whole \in BOOLEAN, RendererWrites(i, whole),
               Output(i) = Output(j)
        PROVE  FALSE
    BY <1>5, <1>6 DEF RendererWrites
  <1>7. files'[Output(j)] = files[Output(j)]
    BY <1>2, <1>5, <1>6, FileStep
  <1> QED BY <1>2, <1>4, <1>7

\* A ready artifact shows the whole image that was rendered for it, for as long
\* as it is ready, if no conversation asks for two artifacts of one kind: then
\* the names that artifacts.rs:203 finds are its own.
THEOREM ReadyKept ==
    ASSUME Apart
    PROVE  Spec => []ReadyHasItsImage
  <1> DEFINE IInv == TypeOK /\ StaleIsOver /\ StopHeld /\ FilesOwned /\ OutputKept
  <1>1. Init => IInv
    BY InitTyped, StaleInit, StopInit, FilesInit
  <1>2. IInv /\ [Next]_vars => IInv'
    BY NextTyped, StaleStep, StopKept, OwnedKept, OutputStays
  <1>3. IInv => ReadyHasItsImage
    BY DEF OutputKept, ReadyHasItsImage
  <1> HIDE DEF IInv
  <1> QED BY <1>1, <1>2, <1>3, PTL DEF Spec
=============================================================================

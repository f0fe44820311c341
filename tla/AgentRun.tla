------------------------------ MODULE AgentRun ------------------------------
(***************************************************************************)
(* The tool loop of the coding agent (local_agent.rs) with the records it  *)
(* keeps in the database: runs, steps, approvals and checkpoints           *)
(* (openagent_runs.rs, coding_control.rs), the policy that decides which   *)
(* actions need an approval (openagent_security.rs), the registry of       *)
(* active generations, the restore of a checkpoint and the recovery of     *)
(* interrupted rows when the application starts again (database.rs).       *)
(* All conversations belong to one project and share its workspace.  The   *)
(* language model is an adversary that proposes any action at any step.    *)
(***************************************************************************)
EXTENDS Integers, FiniteSets

CONSTANTS
    Conversations,      \* conversations of the project
    Actions,            \* distinct tool calls, arguments included
    Kind,               \* Kind[a]: what the policy and the loop see of a
    NoAction, NoConversation,   \* placeholders
    Modes,              \* approval modes the user may have selected
    FullAccess,         \* the project has the Full PC + Terminal grant
    HasTargets,         \* a build or test manifest is in the workspace
    Faults,             \* what may fail in the runs to come (see below)
    MAX_AGENT_STEPS, MAX_AGENT_FAILURES, MAX_IDENTICAL_ACTION_REPEATS,
    MAX_VALIDATION_DEFERRALS,
    MaxRuns,            \* bound: runs ever started
    MaxMishaps,         \* bound: failing statements, files and deaths
    MaxRestores         \* bound: checkpoint restores

Kinds == {"read", "edit", "remove", "script", "check", "host", "deliver",
          "prohibited"}
AllModes == {"always_ask", "risk_based", "trusted_workspace"}
AllFaults == {"start", "admit", "record", "finish", "restore"}

ASSUME ConstantsAssumption ==
    /\ Kind \in [Actions -> Kinds] /\ NoAction \notin Actions
    /\ NoConversation \notin Conversations
    /\ Modes \subseteq AllModes
    /\ FullAccess \in BOOLEAN /\ HasTargets \in BOOLEAN
    /\ Faults \subseteq AllFaults
    /\ MAX_AGENT_STEPS \in Nat /\ MAX_AGENT_FAILURES \in Nat \ {0}
    /\ MAX_IDENTICAL_ACTION_REPEATS \in Nat \ {0}
    /\ MAX_VALIDATION_DEFERRALS \in Nat
    /\ MaxRuns \in Nat /\ MaxMishaps \in Nat /\ MaxRestores \in Nat

RunId == 1..MaxRuns
None == 0

VARIABLES
    runs,        \* openagent_runs with the message and the link of each run
    steps,       \* status of the latest row of openagent_steps of a run
    approvals,   \* the row of coding_run_approvals of a run
    checkpoints, \* latest step of a run that can be restored
    audit,       \* latest row of openagent_restore_events of a run
    active,      \* active_generations: the token of a conversation
    handler,     \* locals of run_agent_message
    workspace,   \* content of the files of the project
    restore,     \* locals of restore_openagent_checkpoint
    versions, mishaps, restores,  \* counters of the bounds
    granted, executed, unverified, torn   \* history, see the properties

database == <<runs, steps, approvals, checkpoints, audit>>
memory   == <<active, handler, restore>>
counters == <<mishaps, restores>>
history  == <<granted, executed, unverified, torn>>
vars == <<database, memory, workspace, versions, counters, history>>

-----------------------------------------------------------------------------
(* The policy (openagent_security.rs). *)

\* A terminal command that only lists is "read"; "script" is any other
\* command of the sandbox, "host" one outside of it.
Risk(a) ==
    CASE Kind[a] = "read" -> "ReadOnly"
      [] Kind[a] \in {"edit", "script", "check"} -> "WorkspaceWrite"
      [] Kind[a] = "remove" -> "Destructive"
      [] Kind[a] = "host" -> "HostExecution"
      [] Kind[a] = "deliver" -> "RemoteMutation"
      [] OTHER -> "Prohibited"

Denied(a) == Risk(a) = "Prohibited"

NeedsApproval(a, mode) ==
    \/ Risk(a) = "RemoteMutation"
    \/ Risk(a) = "WorkspaceWrite" /\ mode = "always_ask"
    \/ Risk(a) \in {"Destructive", "HostExecution"}
       /\ mode # "trusted_workspace"

Terminal == {"script", "check", "host"}
MutatesFiles(a) == Kind[a] \in {"edit", "remove"}
Changes(a) == MutatesFiles(a) \/ Kind[a] \in {"script", "host"}

-----------------------------------------------------------------------------
Idle == [pc |-> "idle", run |-> None, mode |-> "risk_based", step |-> 0,
         last |-> NoAction, repeats |-> 0, failures |-> 0,
         deferrals |-> 0, needs |-> FALSE, passed |-> FALSE,
         before |-> 0, outcome |-> "completed"]

NoRun == [status |-> "none", conv |-> NoConversation, lineage |-> {},
          message |-> "none", validation |-> "not_required"]
NoApproval == [status |-> "none", action |-> NoAction]
NoCheckpoint == [before |-> 0, after |-> 0]
NoRestore == [pc |-> "idle", run |-> None]

Init ==
    /\ runs = [r \in RunId |-> NoRun]
    /\ steps = [r \in RunId |-> "none"]
    /\ approvals = [r \in RunId |-> NoApproval]
    /\ checkpoints = [r \in RunId |-> NoCheckpoint]
    /\ audit = [r \in RunId |-> "none"]
    /\ active = [c \in Conversations |-> "none"]
    /\ handler = [c \in Conversations |-> Idle]
    /\ restore = NoRestore
    /\ workspace = 0 /\ versions = 0
    /\ mishaps = 0 /\ restores = 0
    /\ granted = [a \in Actions |-> 0]
    /\ executed = [a \in Actions |-> 0]
    /\ unverified = [r \in RunId |-> FALSE]
    /\ torn = [r \in RunId |-> FALSE]

Mishap == mishaps < MaxMishaps /\ mishaps' = mishaps + 1 /\ UNCHANGED restores

Fault(kind) == kind \in Faults /\ Mishap

\* What the user's decisions and the tools leave alone.
Elsewhere == UNCHANGED <<restore, counters>>

-----------------------------------------------------------------------------
(* Starting a run: send, regenerate and resume. *)

Resumable(c, p) == /\ p \in RunId /\ runs[p].conv = c
                   /\ runs[p].status \in {"interrupted", "failed"}

NextRun(r) == r \in RunId /\ runs[r].status = "none"
              /\ \A q \in 1..(r - 1) : runs[q].status # "none"

NewRun(c, p, r) ==
    [status |-> "running", conv |-> c, message |-> "streaming",
     lineage |-> {r} \cup (IF p = None THEN {} ELSE runs[p].lineage),
     validation |-> "not_required"]

\* The generation is registered, the messages and the run are inserted, the
\* plan is written and the run is linked to the one it continues.
Start(c, p, r, mode) ==
    /\ handler[c].pc = "idle" /\ active[c] = "none"
    /\ p = None \/ Resumable(c, p)
    /\ NextRun(r)
    /\ active' = [active EXCEPT ![c] = "running"]
    /\ runs' = [runs EXCEPT ![r] = NewRun(c, p, r)]
    /\ handler' = [handler EXCEPT ![c] =
                     [Idle EXCEPT !.pc = "loop", !.run = r, !.mode = mode]]
    /\ UNCHANGED <<steps, approvals, checkpoints, audit, workspace, versions,
                   history>>
    /\ Elsewhere

\* A database error after the registration leaves by `?`: nothing removes the
\* generation and the run, when it was inserted, stays running.
StartFails(c, p, r) ==
    /\ handler[c].pc = "idle" /\ active[c] = "none"
    /\ p = None \/ Resumable(c, p)
    /\ NextRun(r)
    /\ active' = [active EXCEPT ![c] = "running"]
    /\ \/ runs' = [runs EXCEPT ![r] = NewRun(c, p, r)]
       \/ UNCHANGED runs
    /\ Fault("start")
    /\ UNCHANGED <<steps, approvals, checkpoints, audit, handler, restore,
                   workspace, versions, history>>

Stop(c) ==
    /\ active[c] = "running"
    /\ active' = [active EXCEPT ![c] = "cancelled"]
    /\ UNCHANGED <<database, handler, workspace, versions, history>>
    /\ Elsewhere

-----------------------------------------------------------------------------
(* The loop.  At(c, pc) is the guard of a step of c's handler, To the       *)
(* handler's next state, End the way to the code after the loop.            *)

At(c, pc) == handler[c].pc = pc
To(c, h) == handler' = [handler EXCEPT ![c] = h]
Ended(h, status) == [Idle EXCEPT !.pc = "ending", !.run = h.run,
                                 !.outcome = status]
End(c, status) == Ended(handler[c], status)

Current(c) == handler[c].run
SetStep(c, status) == steps' = [steps EXCEPT ![Current(c)] = status]

\* What update_durable_progress writes for the locals h.
Progress(c, h) ==
    runs' = [runs EXCEPT ![h.run].validation =
               IF h.passed THEN "passed"
               ELSE IF h.needs THEN "required" ELSE "not_required"]

\* A tool failed or was refused; too many failures end the run.
CountFailure(h) ==
    IF h.failures + 1 >= MAX_AGENT_FAILURES THEN Ended(h, "failed")
    ELSE [h EXCEPT !.pc = "loop", !.failures = @ + 1, !.before = 0]

TopOfLoop(c) ==
    /\ At(c, "loop")
    /\ To(c, IF handler[c].step = MAX_AGENT_STEPS THEN End(c, "failed")
             ELSE IF active[c] = "cancelled" THEN End(c, "cancelled")
             ELSE [handler[c] EXCEPT !.pc = "decide", !.step = @ + 1])
    /\ UNCHANGED <<database, active, workspace, versions, history>>
    /\ Elsewhere

CancelDecisionLate(c) == At(c, "decide") /\ FALSE

CancelDecision(c) ==
    /\ At(c, "decide") /\ active[c] = "cancelled"
    /\ To(c, End(c, "cancelled"))
    /\ UNCHANGED <<database, active, workspace, versions, history>>
    /\ Elsewhere

\* No answer of the model, or one without a tool name.
DecisionFails(c) ==
    /\ At(c, "decide")
    /\ To(c, End(c, "failed"))
    /\ UNCHANGED <<database, active, workspace, versions, history>>
    /\ Elsewhere

\* The model proposes an action: a step is recorded and repetitions counted.
\* A repetition beyond the limit is refused and counts as a failure.
Repeats(c, a) == IF handler[c].last = a THEN handler[c].repeats + 1 ELSE 1

Propose(c, a) ==
    LET h == [handler[c] EXCEPT !.last = a, !.repeats = Repeats(c, a)] IN
    /\ At(c, "decide")
    /\ \/ /\ h.repeats <= MAX_IDENTICAL_ACTION_REPEATS
          /\ SetStep(c, "running")
          /\ To(c, [h EXCEPT !.pc = "authorize"])
          /\ UNCHANGED runs
       \/ /\ h.repeats > MAX_IDENTICAL_ACTION_REPEATS
          /\ SetStep(c, "blocked")
          /\ Progress(c, h)
          /\ To(c, CountFailure(h))
    /\ UNCHANGED <<approvals, checkpoints, audit, active, workspace, versions,
                   history>>
    /\ Elsewhere

\* The model wants to finish; "skip" is a reason it gives for not validating.
MaySkip(skip) == skip /\ ~HasTargets
MustValidate(c, skip) == handler[c].needs /\ FullAccess /\ ~MaySkip(skip)

DeferFinal(c, skip) ==
    /\ At(c, "decide") /\ MustValidate(c, skip)
    /\ LET h == [handler[c] EXCEPT !.deferrals = @ + 1] IN
       To(c, IF h.deferrals > MAX_VALIDATION_DEFERRALS
             THEN Ended(h, "failed") ELSE [h EXCEPT !.pc = "loop"])
    /\ UNCHANGED <<database, active, workspace, versions, history>>
    /\ Elsewhere

AcceptFinal(c, skip) ==
    /\ At(c, "decide") /\ ~MustValidate(c, skip)
    /\ runs' = IF handler[c].needs /\ MaySkip(skip)
               THEN [runs EXCEPT ![Current(c)].validation = "skipped"]
               ELSE runs
    /\ To(c, End(c, "completed"))
    /\ UNCHANGED <<steps, approvals, checkpoints, audit, active, workspace,
                   versions, history>>
    /\ Elsewhere

-----------------------------------------------------------------------------
(* Authorization. *)

\* Approved requests for exactly this action in the run or those it continues.
ApprovedFor(c) ==
    {q \in runs[Current(c)].lineage : approvals[q] =
        [status |-> "approved", action |-> handler[c].last]}

Deny(c) ==
    /\ At(c, "authorize") /\ Denied(handler[c].last)
    /\ SetStep(c, "blocked")
    /\ To(c, End(c, "failed"))
    /\ UNCHANGED <<runs, approvals, checkpoints, audit, active, workspace,
                   versions, history>>
    /\ Elsewhere

\* request_approval: the run pauses until it is resumed.
Pause(c) ==
    LET a == handler[c].last IN
    /\ At(c, "authorize") /\ NeedsApproval(a, handler[c].mode)
    /\ ApprovedFor(c) = {}
    /\ approvals' = [approvals EXCEPT ![Current(c)] =
                       [status |-> "pending", action |-> a]]
    /\ SetStep(c, "blocked")
    /\ To(c, End(c, "interrupted"))
    /\ UNCHANGED <<runs, checkpoints, audit, active, workspace, versions,
                   history>>
    /\ Elsewhere

\* consume_exact_approval uses up the latest request, as request times go by
\* run.
SpendKeeps(c) ==
    /\ NeedsApproval(handler[c].last, handler[c].mode) => ApprovedFor(c) # {}
    /\ UNCHANGED approvals

Spend(c) ==
    IF NeedsApproval(handler[c].last, handler[c].mode)
    THEN \E q \in ApprovedFor(c) :
            /\ \A p \in ApprovedFor(c) : p <= q
            /\ approvals' = [approvals EXCEPT ![q].status = "consumed"]
    ELSE UNCHANGED approvals

\* The approval is consumed, the checkpoint before the mutation is written and
\* the tool starts.
Admit(c) ==
    LET a == handler[c].last IN
    /\ At(c, "authorize") /\ ~Denied(a)
    /\ Spend(c)
    /\ To(c, [handler[c] EXCEPT !.pc = "tool",
                !.before = IF MutatesFiles(a) THEN workspace ELSE 0])
    /\ executed' = IF NeedsApproval(a, handler[c].mode)
                   THEN [executed EXCEPT ![a] = @ + 1] ELSE executed
    /\ UNCHANGED <<runs, steps, checkpoints, audit, active, workspace,
                   versions, granted, unverified, torn>>
    /\ Elsewhere

\* The approval is consumed and the run ends before the tool starts: the files
\* cannot be captured (too large, a link, unreadable) or the delivery has asked
\* for the checks to run again too often.  The step stays running.
AdmissionFails(c) ==
    LET a == handler[c].last IN
    /\ At(c, "authorize") /\ ~Denied(a) /\ (Changes(a) \/ Kind[a] = "deliver")
    /\ Spend(c)
    /\ To(c, End(c, "failed"))
    /\ Fault("admit")
    /\ UNCHANGED <<runs, steps, checkpoints, audit, active, restore,
                   workspace, versions, history>>

-----------------------------------------------------------------------------
(* The tool. *)

\* Terminal commands outside the sandbox need the grant.
Runnable(a) == Kind[a] = "host" => FullAccess

\* The effect on the files, before the result is known.
Effect(c) ==
    LET a == handler[c].last IN
    /\ At(c, "tool") /\ Changes(a) /\ Runnable(a)
    /\ workspace' = versions + 1 /\ versions' = versions + 1
    /\ To(c, [handler[c] EXCEPT !.pc = "effect"])
    /\ UNCHANGED <<database, active, history>>
    /\ Elsewhere

AfterSuccessUnseen(c) ==
    LET check == Kind[handler[c].last] = "check"
    IN [handler[c] EXCEPT !.pc = "loop", !.failures = 0, !.before = 0,
          !.needs = ~check /\ @, !.passed = check \/ @,
          !.deferrals = IF check THEN 0 ELSE @]

\* Locals after a success: a change asks for validation, a check gives it.
AfterSuccess(c) ==
    LET a == handler[c].last
        check == Kind[a] = "check"
    IN [handler[c] EXCEPT !.pc = "loop", !.failures = 0, !.before = 0,
          !.needs = ~check /\ (@ \/ Changes(a)),
          !.passed = check \/ (@ /\ ~Changes(a)),
          !.deferrals = IF check \/ Changes(a) THEN 0 ELSE @]

Succeeding(c) ==
    LET a == handler[c].last IN
    /\ At(c, "effect") \/ (At(c, "tool") /\ ~Changes(a))
    /\ Runnable(a)
    /\ SetStep(c, "succeeded")
    /\ unverified' = [unverified EXCEPT ![Current(c)] =
                        Kind[a] # "check" /\ (@ \/ Changes(a))]
    /\ UNCHANGED <<approvals, audit, active, workspace, versions, granted,
                   executed, torn>>

ToolSucceeds(c) ==
    /\ Succeeding(c)
    /\ checkpoints' =
         IF MutatesFiles(handler[c].last)
         THEN [checkpoints EXCEPT ![Current(c)] =
                 [before |-> handler[c].before, after |-> workspace]]
         ELSE checkpoints
    /\ Progress(c, AfterSuccess(c))
    /\ To(c, AfterSuccess(c))
    /\ Elsewhere

\* The checkpoint after the mutation or the progress cannot be written.
RecordFails(c) ==
    /\ Succeeding(c)
    /\ To(c, End(c, "failed"))
    /\ Fault("record")
    /\ UNCHANGED <<runs, checkpoints, restore>>

\* An error, which for a command may come after it changed files.
ToolFails(c) ==
    /\ \/ At(c, "tool")
       \/ At(c, "effect") /\ Kind[handler[c].last] \in Terminal
    /\ SetStep(c, "failed")
    /\ Progress(c, handler[c])
    /\ To(c, CountFailure(handler[c]))
    /\ UNCHANGED <<approvals, checkpoints, audit, active, workspace, versions,
                   history>>
    /\ Elsewhere

CancelTool(c) ==
    /\ At(c, "tool") \/ At(c, "effect")
    /\ active[c] = "cancelled"
    /\ SetStep(c, "blocked")
    /\ To(c, End(c, "cancelled"))
    /\ UNCHANGED <<runs, approvals, checkpoints, audit, active, workspace,
                   versions, history>>
    /\ Elsewhere

-----------------------------------------------------------------------------
(* After the loop. *)

\* The run gets its status and the message its own.  finish_agent_message
\* refuses a status that a message cannot have, and "interrupted" is one; the
\* generation is removed all the same.
MessageStatuses == {"completed", "cancelled", "failed", "streaming", "pending"}

FinishRun(c) ==
    LET status == handler[c].outcome IN
    /\ At(c, "ending")
    /\ runs' = [runs EXCEPT ![Current(c)].status = status,
          ![Current(c)].message = IF status \in MessageStatuses
                                  THEN status ELSE @]
    /\ active' = [active EXCEPT ![c] = "none"]
    /\ To(c, Idle)
    /\ UNCHANGED <<steps, approvals, checkpoints, audit, workspace, versions,
                   history>>
    /\ Elsewhere

\* The error leaves by `?`, before the message and the registry are settled.
FinishRunFails(c) ==
    /\ At(c, "ending")
    /\ To(c, Idle)
    /\ Fault("finish")
    /\ UNCHANGED <<database, active, restore, workspace, versions, history>>

-----------------------------------------------------------------------------
(* The user's decisions on an approval. *)

Decide(r, decision) ==
    /\ approvals[r].status = "pending"
    /\ approvals' = [approvals EXCEPT ![r].status = decision]
    /\ granted' = IF decision = "approved"
                  THEN [granted EXCEPT ![approvals[r].action] = @ + 1]
                  ELSE granted
    /\ UNCHANGED <<runs, steps, checkpoints, audit, memory, workspace,
                   versions, counters, executed, unverified, torn>>

-----------------------------------------------------------------------------
(* restore_openagent_checkpoint: one at a time, on the thread of the        *)
(* synchronous commands, while runs of other conversations go on.           *)

\* The run is over and the files are as the step left them.
BeginRestore(r) ==
    /\ restore.pc = "idle" /\ restores < MaxRestores
    /\ checkpoints[r] # NoCheckpoint
    /\ runs[r].status # "running"
    /\ workspace = checkpoints[r].after
    /\ audit' = [audit EXCEPT ![r] = "running"]
    /\ restore' = [pc |-> "apply", run |-> r]
    /\ restores' = restores + 1
    /\ UNCHANGED <<runs, steps, approvals, checkpoints, active, handler,
                   workspace, versions, mishaps, history>>

HalfRestored == -1    \* a content no checkpoint has

\* Some files have their old content and some have not.
TearFiles(r) ==
    /\ restore = [pc |-> "apply", run |-> r]
    /\ workspace' = HalfRestored
    /\ torn' = [torn EXCEPT ![r] = TRUE]
    /\ restore' = [restore EXCEPT !.pc = "applying"]
    /\ UNCHANGED <<database, active, handler, versions, counters, granted,
                   executed, unverified>>

\* The event is completed and the run asks for validation again: two
\* statements in a row, taken as one.
RestoreSucceeds(r) ==
    /\ restore = [pc |-> "applying", run |-> r]
    /\ workspace' = checkpoints[r].before
    /\ torn' = [torn EXCEPT ![r] = FALSE]
    /\ audit' = [audit EXCEPT ![r] = "completed"]
    /\ runs' = [runs EXCEPT ![r].validation = "required"]
    /\ restore' = NoRestore
    /\ UNCHANGED <<steps, approvals, checkpoints, active, handler, versions,
                   counters, granted, executed, unverified>>

\* An entry cannot be restored and the others are put back, or cannot be.
RestoreRolledBack(r) ==
    /\ restore = [pc |-> "applying", run |-> r] /\ Fault("restore")
    /\ workspace' = checkpoints[r].after
    /\ torn' = [torn EXCEPT ![r] = FALSE]
    /\ audit' = [audit EXCEPT ![r] = "rolled_back"]
    /\ restore' = NoRestore
    /\ UNCHANGED <<runs, steps, approvals, checkpoints, active, handler,
                   versions, granted, executed, unverified>>

RollbackFailsSilently(r) ==
    /\ restore = [pc |-> "applying", run |-> r] /\ Fault("restore")
    /\ audit' = [audit EXCEPT ![r] = "rolled_back"]
    /\ restore' = NoRestore
    /\ UNCHANGED <<runs, steps, approvals, checkpoints, active, handler,
                   workspace, versions, history>>

RollbackFails(r) ==
    /\ restore = [pc |-> "applying", run |-> r] /\ Fault("restore")
    /\ audit' = [audit EXCEPT ![r] = "rollback_failed"]
    /\ restore' = NoRestore
    /\ UNCHANGED <<runs, steps, approvals, checkpoints, active, handler,
                   workspace, versions, history>>

-----------------------------------------------------------------------------
(* The process dies; when the database is opened again, what was running    *)
(* is marked.                                                               *)

RecoverRun(run) ==
    [run EXCEPT !.status = IF @ = "running" THEN "interrupted" ELSE @,
                !.message = IF @ = "streaming" THEN "failed" ELSE @]

RecoverStep(r) ==
    IF steps[r] = "running" /\ RecoverRun(runs[r]).status = "interrupted"
    THEN "blocked" ELSE steps[r]

RecoverAudit(status) == IF status = "running" THEN "rollback_failed" ELSE status

CrashAndRestart ==
    /\ Mishap
    /\ runs' = [r \in RunId |-> RecoverRun(runs[r])]
    /\ steps' = [r \in RunId |-> RecoverStep(r)]
    /\ audit' = [r \in RunId |-> RecoverAudit(audit[r])]
    /\ active' = [c \in Conversations |-> "none"]
    /\ handler' = [c \in Conversations |-> Idle]
    /\ restore' = NoRestore
    /\ UNCHANGED <<approvals, checkpoints, workspace, versions, history>>

-----------------------------------------------------------------------------
Starting(c) ==
    \E p \in RunId \cup {None}, r \in RunId :
        \/ \E mode \in Modes : Start(c, p, r, mode)
        \/ StartFails(c, p, r)

Deciding(c) ==
    \/ \E a \in Actions : Propose(c, a)
    \/ \E skip \in BOOLEAN : DeferFinal(c, skip) \/ AcceptFinal(c, skip)
    \/ DecisionFails(c)

Authorizing(c) ==
    Deny(c) \/ Pause(c) \/ Admit(c) \/ AdmissionFails(c)

Working(c) ==
    Effect(c) \/ ToolSucceeds(c) \/ RecordFails(c) \/ ToolFails(c)

Ending(c) == FinishRun(c) \/ FinishRunFails(c)

Restoring(r) ==
    \/ TearFiles(r) \/ RestoreSucceeds(r)
    \/ RestoreRolledBack(r) \/ RollbackFails(r)

\* The steps the task of a run takes by itself: it is scheduled, and the
\* database answers.  Nothing is assumed of the model or of a tool: the HTTP
\* client of the loop has no timeout.
OwnStep(c) ==
    \/ TopOfLoop(c) \/ CancelDecision(c)
    \/ Authorizing(c) \/ CancelTool(c) \/ Ending(c)

Next ==
    \/ \E c \in Conversations :
          Starting(c) \/ Stop(c) \/ Deciding(c) \/ Working(c) \/ OwnStep(c)
    \/ \E r \in RunId :
          \/ \E decision \in {"approved", "rejected"} : Decide(r, decision)
          \/ BeginRestore(r) \/ Restoring(r)
    \/ CrashAndRestart

Fairness == \A c \in Conversations : WF_vars(OwnStep(c))

Spec == Init /\ [][Next]_vars /\ Fairness

-----------------------------------------------------------------------------
(* Properties. *)

RunStatus == {"none", "running", "completed", "failed", "cancelled",
              "interrupted"}
HandlerPc == {"idle", "loop", "decide", "authorize", "tool",
              "effect", "ending"}

Handler ==
    [pc : HandlerPc, run : RunId \cup {None}, mode : AllModes, step : Nat,
     last : Actions \cup {NoAction}, repeats : Nat, failures : Nat,
     deferrals : Nat, needs : BOOLEAN, passed : BOOLEAN,
     before : Int, outcome : {"completed", "failed", "cancelled", "interrupted"}]

Run == [status : RunStatus, conv : Conversations \cup {NoConversation},
        lineage : SUBSET RunId,
        message : {"none", "streaming", "completed", "cancelled", "failed"},
        validation : {"not_required", "required", "passed", "skipped"}]

Approval == [status : {"none", "pending", "approved", "rejected", "consumed"},
             action : Actions \cup {NoAction}]

DatabaseTyped ==
    /\ runs \in [RunId -> Run]
    /\ steps \in [RunId -> {"none", "running", "succeeded", "failed",
                            "blocked"}]
    /\ approvals \in [RunId -> Approval]
    /\ checkpoints \in [RunId -> [before : Int, after : Int]]
    /\ audit \in [RunId -> {"none", "running", "completed", "rolled_back",
                            "rollback_failed"}]

MemoryTyped ==
    /\ active \in [Conversations -> {"none", "running", "cancelled"}]
    /\ handler \in [Conversations -> Handler]
    /\ restore \in [pc : {"idle", "apply", "applying"},
                    run : RunId \cup {None}]

CountersTyped ==
    /\ workspace \in Int /\ versions \in Nat
    /\ mishaps \in Nat /\ restores \in Nat
    /\ granted \in [Actions -> Nat] /\ executed \in [Actions -> Nat]
    /\ unverified \in [RunId -> BOOLEAN] /\ torn \in [RunId -> BOOLEAN]

HandlersAtWork ==
    \A c \in Conversations : handler[c].pc # "idle" =>
        /\ handler[c].run \in RunId
        /\ runs[handler[c].run].conv = c
        /\ runs[handler[c].run].status = "running"
        /\ active[c] # "none"

\* Every row holds a status its table admits, and a handler at work is that
\* of a running run of its conversation, whose generation is registered.
\* Proved in AgentRunProofs, not checked by a run.
TypeOK == DatabaseTyped /\ MemoryTyped /\ CountersTyped /\ HandlersAtWork

\* An action that needs an approval is started at most as often as the user
\* approved exactly that action, over all runs, resumptions, cancellations and
\* restarts (consume_exact_approval, coding_control.rs:303).
ApprovalsPayForActions == \A a \in Actions : executed[a] <= granted[a]

\* A run that answers "completed" in a project with terminal access and whose
\* last recorded change was not followed by a passing check says so in its row
\* (the gate of local_agent.rs:692 and update_durable_progress).
CompletedIsValidated ==
    \A r \in RunId :
        runs[r].status = "completed" /\ unverified[r] /\ FullAccess
            => runs[r].validation \in {"skipped", "required"}

\* While the files of a restore are half old and half new, the audit shows a
\* restore under way or one that failed, never a completed or a rolled back
\* one, whatever fails and whenever the process dies (local_agent.rs:312).
TornFilesAreReported ==
    \A r \in RunId : torn[r] => audit[r] \in {"running", "rollback_failed"}

\* Stop ends a run although the model or a tool never answers: the loop asks
\* for the token wherever it waits (local_agent.rs:625, 659 and 890).
StoppedRunEnds ==
    \A c \in Conversations :
        handler[c].pc # "idle" /\ active[c] = "cancelled"
            ~> handler[c].pc = "idle"

\* The message of a run that is over has its final status: the comment at
\* database.rs:168 says that no other state may block retry.  Only checked
\* where no fault and no crash interferes.
EndedRunIsAnnounced ==
    \A r \in RunId :
        /\ runs[r].status \notin {"none", "running"}
        /\ \A c \in Conversations : handler[c].run # r
        => runs[r].message \in {"completed", "cancelled", "failed"}

=============================================================================

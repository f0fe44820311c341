----------------------------- MODULE NativeChat -----------------------------
(***************************************************************************)
(* A chat that is answered by the in-process engine: the command that runs *)
(* it (run_streaming_completion), the router that tries the GPU, then the  *)
(* CPU, then llama-server (native_chat_router.rs, inference.rs), and the    *)
(* reader of the token channel (native_stream.rs), on top of the supervisor *)
(* of NativeSupervisor.  The user may press Stop at any time.               *)
(***************************************************************************)
EXTENDS NativeSupervisor

CONSTANTS
  ModelOf,     \* the model a chat is for
  GpuPlanned,  \* the chats whose launch plan offloads to the GPU
  Stoppable    \* bound: the chats whose user may press Stop

ASSUME ChatAssumption ==
  /\ Request \cap {NoRequest, Shutdown} = {}
  /\ ModelOf \in [Request -> ModelId]
  /\ GpuPlanned \subseteq Request
  /\ Stoppable \subseteq Request

VARIABLES
  spc,       \* where the chat is
  engine,    \* what it tries: "gpu", "cpu" or "llama"
  shown,     \* tokens the reader has taken
  timedOut,  \* the reader's own deadline fired
  failure,   \* the error of the attempt
  status,    \* the status of the assistant's message
  dones      \* "inference:done" events the interface got

chat == <<spc, engine, shown, timedOut, failure, status, dones>>
vars == <<supervisorVars, chat>>

Init ==
  /\ SupervisorInit
  /\ spc = [r \in Request |-> "idle"]
  /\ engine = [r \in Request |-> IF r \in GpuPlanned THEN "gpu" ELSE "cpu"]
  /\ shown = [r \in Request |-> 0]
  /\ timedOut = [r \in Request |-> FALSE]
  /\ failure = [r \in Request |-> "none"]
  /\ status = [r \in Request |-> "streaming"]
  /\ dones = [r \in Request |-> 0]

Goto(r, place) == spc' = [spc EXCEPT ![r] = place]

-----------------------------------------------------------------------------
(* The command and the router                                               *)

(* An attempt gets a child of the conversation's token, a channel and a     *)
(* thread that calls generate().                                            *)
Begin(r, e) ==
  /\ engine' = [engine EXCEPT ![r] = e]
  /\ wanted' = [wanted EXCEPT ![r] = [id |-> ModelOf[r], gpu |-> e = "gpu"]]
  /\ cancelled' = [cancelled EXCEPT ![r] = FALSE]
  /\ late' = [late EXCEPT ![r] = FALSE]
  /\ grace' = [grace EXCEPT ![r] = FALSE]
  /\ expired' = [expired EXCEPT ![r] = FALSE]
  /\ answer' = [answer EXCEPT ![r] = "none"]
  /\ verdict' = [verdict EXCEPT ![r] = "none"]
  /\ call' = [call EXCEPT ![r] = "spawned"]
  /\ chan' = [chan EXCEPT ![r] = 0]
  /\ produced' = [produced EXCEPT ![r] = 0]
  /\ rxOpen' = [rxOpen EXCEPT ![r] = TRUE]
  /\ txOpen' = [txOpen EXCEPT ![r] = TRUE]
  /\ shown' = [shown EXCEPT ![r] = 0]
  /\ timedOut' = [timedOut EXCEPT ![r] = FALSE]
  /\ failure' = [failure EXCEPT ![r] = "none"]
  /\ Goto(r, "stream")
  /\ UNCHANGED <<queue, shutdown, worker, stopped, status, dones>>

StartChat(r) ==
  /\ spc[r] = "idle"
  /\ ~shutdown
  /\ Begin(r, engine[r])

(* A quarantined engine is refused before anything is started, with an      *)
(* error no other engine is tried after.                                    *)
StartRefused(r) ==
  /\ spc[r] = "idle"
  /\ shutdown
  /\ failure' = [failure EXCEPT ![r] = "final"]
  /\ Goto(r, "error")
  /\ UNCHANGED <<supervisorVars, engine, shown, timedOut, status, dones>>

(* cancel_generation: the token is registered while the command runs.       *)
Stop(r) ==
  /\ r \in Stoppable /\ spc[r] \notin {"idle", "ended"} /\ ~stopped[r]
  /\ stopped' = [stopped EXCEPT ![r] = TRUE]
  /\ UNCHANGED <<queue, shutdown, worker, calls, answer, channel, late, cancelled, chat>>

(* The command returns with status s: its guard cancels the token of the    *)
(* conversation and takes it from the registry, and its locals go with it.  *)
End(r, s) ==
  /\ status' = [status EXCEPT ![r] = s]
  /\ dones' = [dones EXCEPT ![r] = @ + 1]
  /\ stopped' = [stopped EXCEPT ![r] = TRUE]
  /\ shown' = [shown EXCEPT ![r] = 0]
  /\ timedOut' = [timedOut EXCEPT ![r] = FALSE]
  /\ failure' = [failure EXCEPT ![r] = "none"]
  /\ verdict' = [verdict EXCEPT ![r] = "none"]
  /\ produced' = [produced EXCEPT ![r] = 0]
  /\ Goto(r, "ended")
  /\ UNCHANGED <<queue, shutdown, worker, call, wanted, grace, expired, answer,
                 chan, rxOpen, txOpen, late, cancelled, engine>>

-----------------------------------------------------------------------------
(* The reader                                                               *)

(* What is still in a closed channel is never read.                         *)
CloseChannel(r) == /\ rxOpen' = [rxOpen EXCEPT ![r] = FALSE]
                   /\ chan' = [chan EXCEPT ![r] = 0]
Cancel(r)       == cancelled' = [cancelled EXCEPT ![r] = TRUE]

(* Cancellation is looked at before the channel, the channel before the     *)
(* deadline.                                                                *)
TakeToken(r) ==
  /\ spc[r] = "stream" /\ ~Cancelled(r) /\ chan[r] > 0
  /\ chan' = [chan EXCEPT ![r] = @ - 1]
  /\ shown' = [shown EXCEPT ![r] = @ + 1]
  /\ UNCHANGED <<queue, shutdown, worker, calls, answer, rxOpen, txOpen, produced,
                 tokens, spc, engine, timedOut, failure, status, dones>>

(* The token could not be shown or saved: the attempt is left at once, the  *)
(* thread that waits for the worker is not.                                 *)
TakeTokenFails(r) ==
  /\ spc[r] = "stream" /\ ~Cancelled(r) /\ chan[r] > 0
  /\ shown' = [shown EXCEPT ![r] = @ + 1]
  /\ Cancel(r) /\ CloseChannel(r)
  /\ failure' = [failure EXCEPT ![r] = "final"]
  /\ Goto(r, "error")
  /\ UNCHANGED <<queue, shutdown, worker, calls, answer, txOpen, produced, late,
                 stopped, engine, timedOut, status, dones>>

StreamCancelled(r) ==
  /\ spc[r] = "stream" /\ Cancelled(r)
  /\ CloseChannel(r)
  /\ Goto(r, "join")
  /\ UNCHANGED <<queue, shutdown, worker, calls, answer, txOpen, produced,
                 tokens, engine, shown, timedOut, failure, status, dones>>

(* Mutant: the end of the worker is seen before the channel is drained.     *)
StreamEndsEarly(r) ==
  /\ spc[r] = "stream" /\ ~Cancelled(r) /\ ~txOpen[r]
  /\ CloseChannel(r)
  /\ Goto(r, "join")
  /\ UNCHANGED <<queue, shutdown, worker, calls, answer, txOpen, produced,
                 tokens, engine, shown, timedOut, failure, status, dones>>

StreamEnds(r) ==
  /\ spc[r] = "stream" /\ ~Cancelled(r) /\ chan[r] = 0 /\ ~txOpen[r]
  /\ CloseChannel(r)
  /\ Goto(r, "join")
  /\ UNCHANGED <<queue, shutdown, worker, calls, answer, txOpen, produced,
                 tokens, engine, shown, timedOut, failure, status, dones>>

StreamLate(r) ==
  /\ spc[r] = "stream" /\ ~Cancelled(r) /\ chan[r] = 0 /\ txOpen[r] /\ late[r]
  /\ timedOut' = [timedOut EXCEPT ![r] = TRUE]
  /\ Cancel(r) /\ CloseChannel(r)
  /\ Goto(r, "join")
  /\ UNCHANGED <<queue, shutdown, worker, calls, answer, txOpen, produced,
                 late, stopped, engine, shown, failure, status, dones>>

Finalize(r, s) ==
  /\ status' = [status EXCEPT ![r] = s]
  /\ dones' = [dones EXCEPT ![r] = @ + 1]

(* Mutant: can_retry takes the timeout of the join for a retryable error.   *)
JoinTimesOutRetries(r) ==
  /\ spc[r] = "join" /\ call[r] \in {"waiting", "giving_up"}
  /\ Outlasts(r)
  /\ Quarantine
  /\ Goto(r, "retry")
  /\ UNCHANGED <<worker, calls, answer, channel, tokens, engine, shown, timedOut,
                 failure, status, dones>>

(* Two seconds are over and generate() has not returned.                    *)
JoinTimesOut(r) ==
  /\ spc[r] = "join" /\ call[r] \in {"waiting", "giving_up"}
  /\ Outlasts(r)
  /\ Quarantine
  /\ Finalize(r, "failed")
  /\ failure' = [failure EXCEPT ![r] = "final"]
  /\ Goto(r, "error")
  /\ UNCHANGED <<worker, calls, answer, channel, tokens, engine, shown, timedOut>>

Joined(r) == spc[r] = "join" /\ call[r] = "returned"

OutOfTime(r) == timedOut[r] \/ verdict[r] = "timed_out"

Settle(r) == UNCHANGED <<supervisorVars, engine, shown, timedOut>>

SettleLate(r) ==
  /\ Joined(r) /\ OutOfTime(r)
  /\ Finalize(r, "failed")
  /\ failure' = [failure EXCEPT ![r] = "final"]
  /\ Goto(r, "error")
  /\ Settle(r)

SettleCancelled(r) ==
  /\ Joined(r) /\ ~OutOfTime(r)
  /\ Cancelled(r) \/ verdict[r] = "cancelled"
  /\ End(r, "cancelled")

Answered(r) == Joined(r) /\ ~OutOfTime(r) /\ ~Cancelled(r) /\ verdict[r] # "cancelled"

SettleCompleted(r) ==
  /\ Answered(r) /\ verdict[r] = "ok"
  /\ End(r, "completed")

(* can_retry: nothing was shown, and the error is not a final one.          *)
SettleRetry(r) ==
  /\ Answered(r) /\ shown[r] = 0
  /\ verdict[r] \in {"error", "busy", "stopped", "disconnected"}
  /\ Goto(r, "retry")
  /\ Settle(r) /\ UNCHANGED <<failure, status, dones>>

SettleFinal(r) ==
  /\ Answered(r) /\ shown[r] = 0 /\ verdict[r] \in {"final", "deadline"}
  /\ failure' = [failure EXCEPT ![r] = "final"]
  /\ Goto(r, "error")
  /\ Settle(r) /\ UNCHANGED <<status, dones>>

SettleFailed(r) ==
  /\ Answered(r) /\ shown[r] > 0 /\ verdict[r] # "ok"
  /\ Finalize(r, "failed")
  /\ failure' = [failure EXCEPT ![r] = "final"]
  /\ Goto(r, "error")
  /\ Settle(r)

-----------------------------------------------------------------------------
(* Retry, fallback and the end of the command                               *)

RetryCpu(r) ==
  /\ spc[r] = "retry" /\ engine[r] = "gpu"
  /\ Begin(r, "cpu")

(* Mutant: a failed CPU attempt is tried again on the CPU.                  *)
FallBackToNative(r) ==
  /\ spc[r] = "retry" /\ engine[r] = "cpu"
  /\ Begin(r, "cpu")

FallBack(r) ==
  /\ spc[r] = "retry" /\ engine[r] = "cpu"
  /\ engine' = [engine EXCEPT ![r] = "llama"]
  /\ Goto(r, "llama")
  /\ UNCHANGED <<supervisorVars, shown, timedOut, failure, status, dones>>

(* llama-server: a request that is gone or refused is an error, a stream    *)
(* that was opened ends with a status and is announced.                     *)
LlamaFails(r) ==
  /\ spc[r] = "llama"
  /\ failure' = [failure EXCEPT ![r] = IF stopped[r] THEN "cancelled" ELSE "final"]
  /\ Goto(r, "error")
  /\ UNCHANGED <<supervisorVars, engine, shown, timedOut, status, dones>>

LlamaEnds(r, s) ==
  /\ spc[r] = "llama"
  /\ stopped[r] <=> s = "cancelled"
  /\ End(r, s)

(* Mutant: the error of a stopped chat is swallowed without an event.       *)
HandleErrorSilently(r) ==
  /\ spc[r] = "error"
  /\ IF stopped[r]
       THEN /\ Goto(r, "ended")
            /\ UNCHANGED <<supervisorVars, engine, shown, timedOut, failure, status, dones>>
       ELSE End(r, "failed")

(* The error handler of the command sets the status and announces the end.  *)
HandleError(r) ==
  /\ spc[r] = "error"
  /\ End(r, IF stopped[r] \/ failure[r] = "cancelled" THEN "cancelled" ELSE "failed")

ChatStep(r) ==
  \/ StreamCancelled(r) \/ StreamEnds(r) \/ StreamLate(r) \/ TakeToken(r)
  \/ JoinTimesOut(r) \/ SettleLate(r) \/ SettleCancelled(r) \/ SettleCompleted(r)
  \/ SettleRetry(r) \/ SettleFinal(r) \/ SettleFailed(r)
  \/ RetryCpu(r) \/ FallBack(r) \/ LlamaFails(r)
  \/ (\E s \in {"completed", "failed", "cancelled"} : LlamaEnds(r, s))
  \/ HandleError(r)

User(r) == StartChat(r) \/ StartRefused(r) \/ Stop(r)

Quiet == UNCHANGED chat

CallStep(r) ==
  \/ Enter(r) /\ Quiet
  \/ Send(r) /\ Quiet
  \/ (\E v \in {"busy", "disconnected"} : SendRefused(r, v)) /\ Quiet
  \/ ReceiveAnswer(r) /\ Quiet
  \/ SeeDisconnect(r) /\ Quiet
  \/ StartGrace(r) /\ Quiet
  \/ GraceEnds(r) /\ Quiet
  \/ GiveUp(r) /\ Quiet

WorkerStep ==
  \/ SeeShutdown /\ Quiet
  \/ LoopTop /\ Quiet
  \/ RecvShutdown /\ Quiet
  \/ RecvGenerate /\ Quiet
  \/ SkipGone /\ Quiet
  \/ KeepModel /\ Quiet
  \/ EvictModel /\ Quiet
  \/ LoadModel /\ Quiet
  \/ (\E v \in NativeErrors : LoadFails(v)) /\ Quiet
  \/ StartNative /\ Quiet
  \/ (\E v \in NativeErrors \cup {"ok"} : NativeEnds(v)) /\ Quiet
  \/ CallbackStops /\ Quiet
  \/ CallbackSends /\ Quiet
  \/ PushToken /\ Quiet
  \/ PushFails /\ Quiet
  \/ FinishGone /\ Quiet
  \/ Finish /\ Quiet

Clock(r) == DeadlinePasses(r) /\ Quiet
Driver   == Hang /\ Quiet

Next ==
  \/ \E r \in Request : User(r) \/ ChatStep(r) \/ TakeTokenFails(r)
                        \/ CallStep(r) \/ Clock(r)
  \/ WorkerStep
  \/ Driver

Spec == Init /\ [][Next]_vars

(* Every thread runs, and time passes.  Nobody has to press Stop, and the   *)
(* driver need not hang.                                                    *)
FairSpec ==
  /\ Spec
  /\ WF_vars(WorkerStep)
  /\ \A r \in Request :
       /\ WF_vars(ChatStep(r))
       /\ WF_vars(CallStep(r))
       /\ WF_vars(Clock(r))

-----------------------------------------------------------------------------
(* Properties                                                               *)

TypeOK ==
  /\ SupervisorTypeOK
  /\ spc \in [Request -> {"idle", "stream", "join", "retry", "llama", "error", "ended"}]
  /\ engine \in [Request -> {"gpu", "cpu", "llama"}]
  /\ shown \in [Request -> 0..MaxTokens]
  /\ timedOut \in [Request -> BOOLEAN]
  /\ failure \in [Request -> {"none", "final", "cancelled"}]
  /\ status \in [Request -> {"streaming", "completed", "cancelled", "failed"}]
  /\ dones \in [Request -> 0..2]

(* An answer of the native engine that is marked completed was shown to the *)
(* last token, whatever the order in which the worker ended, the channel    *)
(* closed, the deadline passed and Stop was pressed.                        *)
CompletedIsWhole ==
  [][\A r \in Request :
       status'[r] = "completed" /\ status[r] # "completed" /\ engine[r] # "llama"
         => verdict[r] = "ok" /\ shown[r] = produced[r]]_vars

(* A chat never starts an attempt while the command of its earlier one is   *)
(* queued or running: the CPU retry cannot interleave with the GPU attempt. *)
OneAttemptAtATime ==
  [][\A r \in Request :
       call'[r] = "spawned" /\ call[r] # "spawned"
         => r \notin Queued /\ job # r /\ call[r] \in {"none", "returned"}]_vars

(* When the command is over the message is not left streaming and the       *)
(* interface has been told.                                                 *)
EndedChatIsAnnounced ==
  \A r \in Request : spc[r] = "ended" => status[r] # "streaming" /\ dones[r] > 0

(* What is seen of a chat from outside of the command and the reader.       *)
Phase(r) ==
  CASE spc[r] = "idle"   -> "new"
    [] spc[r] = "stream" -> "open"
    [] spc[r] = "ended"  -> "over"
    [] OTHER             -> "closed"

Answers == INSTANCE ChatAnswers WITH
             phase <- [r \in Request |-> Phase(r)],
             made  <- produced,
             told  <- dones

(* The chats implement what their users are promised: one engine's answer,  *)
(* whole if completed, cancelled if stopped, and an end that stays.         *)
ImplementsChatAnswers == Answers!Spec

(* Every chat whose deadline passes ends, even when the driver hangs under  *)
(* it or under another.                                                     *)
EveryChatEnds == \A r \in Ageing : spc[r] = "stream" ~> spc[r] = "ended"

(* A quarantined worker that is not stuck in the driver leaves its loop and *)
(* releases the model, also when the Shutdown command found the queue full. *)
WorkerExits == shutdown ~> wpc = "exited" \/ stalled
=============================================================================

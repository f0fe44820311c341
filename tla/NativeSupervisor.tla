-------------------------- MODULE NativeSupervisor --------------------------
(***************************************************************************)
(* The supervisor of the in-process llama.cpp engine (native_supervisor.rs):*)
(* one worker thread that owns the model, a bounded queue of commands in    *)
(* front of it, and the call of generate(), which waits for the answer of   *)
(* the worker and gives up one second after its request was cancelled or    *)
(* ran out of time.  Giving up quarantines the supervisor for good.         *)
(*                                                                          *)
(* Every request of a set Request makes one call at a time.  The end of the *)
(* token channel the worker writes to is here, the reader is NativeChat.    *)
(* Time is not counted: "late" says that the deadline of a call has passed, *)
(* and a grace second can end whenever the worker may still be busy.        *)
(***************************************************************************)
EXTENDS Naturals, Sequences

CONSTANTS
  Request,     \* the chats, each of a conversation of its own
  ModelId,     \* the installed models
  MaxTokens,   \* bound: tokens of one answer
  ChannelSize, \* TOKEN_CHANNEL_CAPACITY
  Ageing,      \* bound: the requests whose deadline may pass
  NativeErrors, \* bound: the errors of the engine, "error" or "final"
  CanHang,     \* a native call may never return
  SlowPhases   \* where a healthy worker can outlast a grace second

(* "load": the request's own model is being read from disk; "queue": another *)
(* request is being served.                                                 *)
ASSUME SupervisorAssumption ==
  /\ MaxTokens \in Nat \ {0}
  /\ ChannelSize \in Nat \ {0}
  /\ Ageing \subseteq Request
  /\ NativeErrors \subseteq {"error", "final"}
  /\ CanHang \in BOOLEAN
  /\ SlowPhases \subseteq {"load", "queue"}

QueueCapacity == 1
NoRequest == "none"
Shutdown  == "shutdown"
ModelSpec == [id : ModelId, gpu : BOOLEAN]
Unloaded  == [id |-> "none", gpu |-> FALSE]

Verdict == {"ok", "cancelled", "error", "final", "busy", "stopped",
            "disconnected", "timed_out", "deadline"}

VARIABLES
  queue,     \* commands sent and not received
  shutdown,  \* the flag quarantine() sets
  wpc,       \* where the worker is
  job,       \* the request whose command it holds
  loaded,    \* the model it has loaded
  wstate,    \* NativeSupervisorState: <<phase, model id>>
  native,    \* what the native call returned
  stalled,   \* the native call hangs, for ever
  call,      \* where the call of generate() is
  wanted,    \* the model its command names
  grace,     \* its stop_deadline is set
  expired,   \* it cancelled the request because of the deadline
  answer,    \* what the worker sent back
  verdict,   \* what the call returned
  late,      \* the deadline has passed
  stopped,   \* the user's token, of the conversation
  cancelled, \* its child, of the attempt
  chan,      \* tokens in the channel
  rxOpen,    \* the reader has not closed it
  txOpen,    \* the callback that owns the writer exists
  produced   \* tokens that entered the channel

worker  == <<wpc, job, loaded, wstate, native, stalled>>
calls   == <<call, wanted, grace, expired, verdict>>
channel == <<chan, rxOpen, txOpen, produced>>
tokens  == <<late, stopped, cancelled>>
supervisorVars == <<queue, shutdown, worker, calls, answer, channel, tokens>>

SupervisorInit ==
  /\ queue = <<>> /\ shutdown = FALSE
  /\ wpc = "top" /\ job = NoRequest /\ loaded = Unloaded
  /\ wstate = <<"idle", "none">> /\ native = "ok" /\ stalled = FALSE
  /\ call = [r \in Request |-> "none"]
  /\ wanted = [r \in Request |-> Unloaded]
  /\ grace = [r \in Request |-> FALSE]
  /\ expired = [r \in Request |-> FALSE]
  /\ answer = [r \in Request |-> "none"]
  /\ verdict = [r \in Request |-> "none"]
  /\ late = [r \in Request |-> FALSE]
  /\ stopped = [r \in Request |-> FALSE]
  /\ cancelled = [r \in Request |-> FALSE]
  /\ chan = [r \in Request |-> 0]
  /\ rxOpen = [r \in Request |-> FALSE]
  /\ txOpen = [r \in Request |-> FALSE]
  /\ produced = [r \in Request |-> 0]

(* The token of an attempt is cancelled by itself or by its parent.         *)
Cancelled(r) == cancelled[r] \/ stopped[r]

Queued == {queue[i] : i \in DOMAIN queue}

-----------------------------------------------------------------------------
(* generate()                                                               *)

(* Its locals and the channel of the answer go with it.                     *)
Return(r, v) ==
  /\ call' = [call EXCEPT ![r] = "returned"]
  /\ verdict' = [verdict EXCEPT ![r] = v]
  /\ grace' = [grace EXCEPT ![r] = FALSE]
  /\ expired' = [expired EXCEPT ![r] = FALSE]
  /\ answer' = [answer EXCEPT ![r] = "none"]
  /\ late' = [late EXCEPT ![r] = FALSE]

DropCallback(r) == txOpen' = [txOpen EXCEPT ![r] = FALSE]

Enter(r) ==
  /\ call[r] = "spawned"
  /\ IF shutdown \/ Cancelled(r)
       THEN Return(r, IF shutdown THEN "stopped" ELSE "cancelled") /\ DropCallback(r)
       ELSE /\ call' = [call EXCEPT ![r] = "sending"]
            /\ UNCHANGED <<verdict, grace, expired, answer, late, txOpen>>
  /\ UNCHANGED <<queue, shutdown, worker, wanted, chan, rxOpen, produced,
                 stopped, cancelled>>

SendRefused(r, v) ==
  /\ call[r] = "sending"
  /\ v = IF wpc = "exited" THEN "disconnected" ELSE "busy"
  /\ wpc = "exited" \/ Len(queue) >= QueueCapacity
  /\ Return(r, v) /\ DropCallback(r)
  /\ UNCHANGED <<queue, shutdown, worker, wanted, chan, rxOpen, produced,
                 stopped, cancelled>>

Send(r) ==
  /\ call[r] = "sending"
  /\ wpc # "exited" /\ Len(queue) < QueueCapacity
  /\ queue' = Append(queue, r)
  /\ call' = [call EXCEPT ![r] = "waiting"]
  /\ UNCHANGED <<shutdown, worker, wanted, grace, expired, verdict, answer,
                 channel, tokens>>

ReceiveAnswer(r) ==
  /\ call[r] = "waiting" /\ answer[r] # "none"
  /\ Return(r, IF expired[r] THEN "deadline" ELSE answer[r])
  /\ UNCHANGED <<queue, shutdown, worker, wanted, channel, stopped, cancelled>>

(* The worker is gone, and the command with it.                             *)
SeeDisconnect(r) ==
  /\ call[r] = "waiting" /\ answer[r] = "none" /\ wpc = "exited"
  /\ Return(r, "disconnected")
  /\ UNCHANGED <<queue, shutdown, worker, wanted, channel, stopped, cancelled>>

Waiting(r) == call[r] = "waiting" /\ answer[r] = "none" /\ wpc # "exited"

(* Every 25 ms: the first time the request is found cancelled or late, it   *)
(* is cancelled (again) and its grace second starts.                        *)
StartGrace(r) ==
  /\ Waiting(r) /\ ~grace[r]
  /\ Cancelled(r) \/ late[r]
  /\ expired' = [expired EXCEPT ![r] = ~Cancelled(r)]
  /\ cancelled' = [cancelled EXCEPT ![r] = TRUE]
  /\ grace' = [grace EXCEPT ![r] = TRUE]
  /\ UNCHANGED <<queue, shutdown, worker, call, wanted, verdict, answer,
                 channel, late, stopped>>

(* The worker may hold the request up for more than the grace second.       *)
Outlasts(r) ==
  \/ stalled
  \/ "queue" \in SlowPhases /\ job \notin {r, NoRequest}
  \/ "load" \in SlowPhases /\ job = r /\ wpc = "load"

GraceEnds(r) ==
  /\ Waiting(r) /\ grace[r] /\ Outlasts(r)
  /\ call' = [call EXCEPT ![r] = "giving_up"]
  /\ UNCHANGED <<queue, shutdown, worker, wanted, grace, expired, verdict,
                 answer, channel, tokens>>

(* Mutant: the flag is set and the worker is not woken.                     *)
QuarantineSilently == shutdown' = TRUE /\ UNCHANGED queue

(* quarantine(): the Shutdown command is dropped when the queue is full.    *)
Quarantine ==
  /\ shutdown' = TRUE
  /\ queue' = IF wpc # "exited" /\ Len(queue) < QueueCapacity
                THEN Append(queue, Shutdown) ELSE queue

GiveUp(r) ==
  /\ call[r] = "giving_up"
  /\ Quarantine
  /\ Return(r, "timed_out")
  /\ UNCHANGED <<worker, wanted, channel, stopped, cancelled>>

(* Nobody looks at the deadline of a request that is cancelled, or whose    *)
(* call has returned.                                                       *)
DeadlinePasses(r) ==
  /\ r \in Ageing /\ ~late[r] /\ ~Cancelled(r)
  /\ call[r] \in {"spawned", "sending", "waiting"}
  /\ late' = [late EXCEPT ![r] = TRUE]
  /\ UNCHANGED <<queue, shutdown, worker, calls, answer, channel, stopped, cancelled>>

-----------------------------------------------------------------------------
(* The worker                                                               *)

Exit ==
  /\ wpc' = "exited" /\ job' = NoRequest
  /\ loaded' = Unloaded
  /\ wstate' = <<"stopped", "none">>
  /\ queue' = <<>>
  /\ txOpen' = [r \in Request |-> txOpen[r] /\ r \notin Queued]
  /\ UNCHANGED <<shutdown, native, stalled, calls, answer, chan, rxOpen,
                 produced, tokens>>

SeeShutdown == wpc = "top" /\ shutdown /\ Exit

LoopTop ==
  /\ wpc = "top" /\ ~shutdown
  /\ wpc' = "recv"
  /\ UNCHANGED <<queue, shutdown, job, loaded, wstate, native, stalled, calls,
                 answer, channel, tokens>>

RecvShutdown == wpc = "recv" /\ queue # <<>> /\ Head(queue) = Shutdown /\ Exit

RecvGenerate ==
  /\ wpc = "recv" /\ queue # <<>> /\ Head(queue) # Shutdown
  /\ job' = Head(queue)
  /\ queue' = Tail(queue)
  /\ wpc' = "claimed"
  /\ UNCHANGED <<shutdown, loaded, wstate, native, stalled, calls, answer,
                 channel, tokens>>

Gone == Cancelled(job) \/ shutdown

(* The answer is sent, unless the call has given up, and the rest of the    *)
(* command dropped.                                                         *)
Answer(v) ==
  /\ answer' = IF call[job] = "returned" THEN answer ELSE [answer EXCEPT ![job] = v]
  /\ DropCallback(job)
  /\ wpc' = "top" /\ job' = NoRequest
  /\ native' = "ok"
  /\ UNCHANGED <<queue, shutdown, stalled, calls, chan, rxOpen,
                 produced, tokens>>

(* The request may be gone before its model is loaded and after.            *)
SkipGone ==
  /\ wpc \in {"claimed", "check"} /\ Gone
  /\ Answer("cancelled")
  /\ UNCHANGED <<loaded, wstate>>

KeepModel ==
  /\ wpc = "claimed" /\ ~Gone /\ loaded = wanted[job]
  /\ wpc' = "check"
  /\ UNCHANGED <<queue, shutdown, job, loaded, wstate, native, stalled, calls,
                 answer, channel, tokens>>

EvictModel ==
  /\ wpc = "claimed" /\ ~Gone /\ loaded # wanted[job]
  /\ loaded' = Unloaded
  /\ wstate' = <<"loading", wanted[job].id>>
  /\ wpc' = "load"
  /\ UNCHANGED <<queue, shutdown, job, native, stalled, calls, answer, channel, tokens>>

LoadModel ==
  /\ wpc = "load" /\ ~stalled
  /\ loaded' = wanted[job]
  /\ wstate' = <<"ready", wanted[job].id>>
  /\ wpc' = "check"
  /\ UNCHANGED <<queue, shutdown, job, native, stalled, calls, answer, channel, tokens>>

(* "final" errors are those no other engine is tried after: a rejected      *)
(* adapter, too little memory, too long a context.                          *)
LoadFails(v) ==
  /\ wpc = "load" /\ ~stalled
  /\ wstate' = <<"error", wanted[job].id>>
  /\ Answer(v)
  /\ UNCHANGED loaded

StartNative ==
  /\ wpc = "check" /\ ~Gone
  /\ wstate' = <<"generating", wanted[job].id>>
  /\ wpc' = "native"
  /\ UNCHANGED <<queue, shutdown, job, loaded, native, stalled, calls, answer,
                 channel, tokens>>

(* The native call ends, and drops the callback.                            *)
NativeReturns(v) ==
  /\ native' = v
  /\ DropCallback(job)
  /\ wpc' = "finish"
  /\ UNCHANGED <<queue, shutdown, job, loaded, wstate, stalled, calls, answer,
                 chan, rxOpen, produced, tokens>>

NativeEnds(v) == wpc = "native" /\ ~stalled /\ NativeReturns(v)

(* A token, or the empty token that polls for cancellation: the callback    *)
(* returns false when the request is gone ...                               *)
CallbackStops == wpc = "native" /\ ~stalled /\ Gone /\ NativeReturns("ok")

(* ... and otherwise writes the token to the channel, waiting for room.     *)
CallbackSends ==
  /\ wpc = "native" /\ ~stalled /\ ~Gone /\ produced[job] < MaxTokens
  /\ wpc' = "push"
  /\ UNCHANGED <<queue, shutdown, job, loaded, wstate, native, stalled, calls,
                 answer, channel, tokens>>

(* Mutant: a channel without a bound.                                       *)
PushTokenUnbounded ==
  /\ wpc = "push" /\ rxOpen[job]
  /\ chan' = [chan EXCEPT ![job] = @ + 1]
  /\ produced' = [produced EXCEPT ![job] = @ + 1]
  /\ wpc' = "native"
  /\ UNCHANGED <<queue, shutdown, job, loaded, wstate, native, stalled, calls,
                 answer, rxOpen, txOpen, tokens>>

PushToken ==
  /\ wpc = "push" /\ rxOpen[job] /\ chan[job] < ChannelSize
  /\ chan' = [chan EXCEPT ![job] = @ + 1]
  /\ produced' = [produced EXCEPT ![job] = @ + 1]
  /\ wpc' = "native"
  /\ UNCHANGED <<queue, shutdown, job, loaded, wstate, native, stalled, calls,
                 answer, rxOpen, txOpen, tokens>>

PushFails == wpc = "push" /\ ~rxOpen[job] /\ NativeReturns("ok")

FinishGone ==
  /\ wpc = "finish" /\ Gone
  /\ wstate' = <<"ready", wanted[job].id>>
  /\ Answer("cancelled")
  /\ UNCHANGED loaded

Finish ==
  /\ wpc = "finish" /\ ~Gone
  /\ wstate' = <<IF native = "ok" THEN "ready" ELSE "error", wanted[job].id>>
  /\ Answer(native)
  /\ UNCHANGED loaded

(* The driver stops answering.                                              *)
Hang ==
  /\ CanHang /\ ~stalled
  /\ wpc \in {"load", "native"}
  /\ stalled' = TRUE
  /\ UNCHANGED <<queue, shutdown, wpc, job, loaded, wstate, native, calls,
                 answer, channel, tokens>>

SupervisorTypeOK ==
  /\ queue \in Seq(Request \cup {Shutdown}) /\ Len(queue) <= QueueCapacity
  /\ shutdown \in BOOLEAN
  /\ wpc \in {"top", "recv", "claimed", "load", "check", "native", "push", "finish", "exited"}
  /\ job \in Request \cup {NoRequest}
  /\ loaded \in ModelSpec \cup {Unloaded}
  /\ wstate \in {"idle", "loading", "ready", "generating", "error", "stopped"}
                  \X (ModelId \cup {"none"})
  /\ native \in {"ok", "error", "final"}
  /\ stalled \in BOOLEAN
  /\ call \in [Request -> {"none", "spawned", "sending", "waiting", "giving_up", "returned"}]
  /\ wanted \in [Request -> ModelSpec \cup {Unloaded}]
  /\ grace \in [Request -> BOOLEAN] /\ expired \in [Request -> BOOLEAN]
  /\ answer \in [Request -> Verdict \cup {"none"}]
  /\ verdict \in [Request -> Verdict \cup {"none"}]
  /\ late \in [Request -> BOOLEAN] /\ stopped \in [Request -> BOOLEAN]
  /\ cancelled \in [Request -> BOOLEAN]
  /\ chan \in [Request -> 0..ChannelSize]
  /\ rxOpen \in [Request -> BOOLEAN] /\ txOpen \in [Request -> BOOLEAN]
  /\ produced \in [Request -> 0..MaxTokens]
=============================================================================

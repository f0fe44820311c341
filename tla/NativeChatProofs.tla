-------------------------- MODULE NativeChatProofs --------------------------
(***************************************************************************)
(* Proofs about NativeChat for every number of chats, models, tokens and   *)
(* errors, every size of the channel, and wherever a worker may be slow or *)
(* hang.                                                                   *)
(***************************************************************************)
EXTENDS NativeChat, SequenceTheorems, TLAPS

USE SupervisorAssumption, ChatAssumption

-----------------------------------------------------------------------------
(* What the properties rest on                                             *)

AtWork == {"claimed", "load", "check", "native", "push", "finish"}

\* The worker holds a command exactly while it is at work, none is left to a
\* worker that has exited, and it writes no more tokens than an answer has.
WorkerHolds ==
    /\ wpc \in AtWork => job \in Request
    /\ wpc \notin AtWork => job = NoRequest
    /\ wpc = "exited" => queue = <<>>
    /\ wpc = "push" => produced[job] < MaxTokens

\* The command of a chat is queued, or held by the worker.
Left(r) == r \in Queued \/ job = r

\* A command is with the worker from the moment it is sent until it is
\* answered.  A call that returned and left its command there gave up.
CommandsKnown ==
    \A r \in Request :
        /\ spc[r] = "idle" => call[r] = "none"
        /\ call[r] \in {"none", "spawned", "sending"} => ~Left(r) /\ answer[r] = "none"
        /\ answer[r] # "none" => ~Left(r)
        /\ r \in Queued => job # r
        /\ call[r] = "returned" /\ Left(r)
             => verdict[r] = "timed_out" \/ spc[r] \in {"error", "ended"}
        /\ spc[r] \in {"retry", "llama"} => call[r] = "returned" /\ ~Left(r)

\* No token is lost between the worker and the reader while the channel is
\* open, and none is in a closed one.
TokensCounted ==
    \A r \in Request :
        /\ rxOpen[r] <=> spc[r] = "stream"
        /\ IF rxOpen[r] THEN shown[r] + chan[r] = produced[r]
                        ELSE chan[r] = 0 /\ shown[r] <= produced[r]

\* Who leaves the channel before it has taken every token is cancelled.
LeavesAreComplete ==
    \A r \in Request :
        spc[r] = "join" => Cancelled(r) \/ shown[r] = produced[r]

\* How often the end of a chat may have been announced.
Announced ==
    \A r \in Request :
        /\ dones[r] \in 0..2
        /\ spc[r] \notin {"error", "ended"} => dones[r] = 0
        /\ spc[r] = "error" => dones[r] <= 1
        /\ spc[r] = "ended" => dones[r] > 0 /\ status[r] # "streaming"
        /\ spc[r] = "llama" => engine[r] = "llama"

-----------------------------------------------------------------------------
(* The queue                                                               *)

QueueTyped == queue \in Seq(Request \cup {Shutdown}) /\ Len(queue) <= QueueCapacity

LEMMA QueueHolds ==
    ASSUME QueueTyped, queue # <<>>
    PROVE  /\ Head(queue) \in Request \cup {Shutdown}
           /\ Queued = {Head(queue)}
           /\ Tail(queue) = <<>>
  <1>1. Len(queue) = 1 /\ DOMAIN queue = {1}
    <2>1. queue \in Seq(Request \cup {Shutdown}) /\ Len(queue) <= 1
      BY DEF QueueTyped, QueueCapacity
    <2>2. Len(queue) \in Nat \ {0}
      BY <2>1, EmptySeq
    <2>3. \A n \in Nat \ {0} : n <= 1 => n = 1
      OBVIOUS
    <2>4. Len(queue) = 1
      BY <2>1, <2>2, <2>3, Zenon
    <2> QED BY <2>1, <2>4, LenProperties
  <1>2. Head(queue) = queue[1] /\ Head(queue) \in Request \cup {Shutdown}
    BY <1>1, HeadTailProperties DEF QueueTyped
  <1>3. Tail(queue) = <<>>
    <2>1. Tail(queue) \in Seq(Request \cup {Shutdown}) /\ Len(Tail(queue)) = 0
      BY <1>1, HeadTailProperties DEF QueueTyped
    <2> QED BY <2>1, EmptySeq
  <1> QED BY <1>1, <1>2, <1>3 DEF Queued

LEMMA QueueEmpty == queue = <<>> => Queued = {}
  BY DEF Queued

LEMMA QueueAppends ==
    ASSUME QueueTyped, NEW x \in Request \cup {Shutdown}, Len(queue) < QueueCapacity
    PROVE  /\ queue = <<>>
           /\ Append(queue, x) \in Seq(Request \cup {Shutdown})
           /\ Len(Append(queue, x)) <= QueueCapacity
           /\ {Append(queue, x)[i] : i \in DOMAIN Append(queue, x)} = {x}
  <1>1. queue = <<>>
    BY DEF QueueTyped, QueueCapacity
  <1>2. Append(queue, x) = <<x>>
    BY <1>1
  <1> QED BY <1>1, <1>2 DEF QueueCapacity

-----------------------------------------------------------------------------
(* Types                                                                   *)

WorkerTyped ==
    /\ QueueTyped
    /\ shutdown \in BOOLEAN
    /\ wpc \in AtWork \cup {"top", "recv", "exited"}
    /\ job \in Request \cup {NoRequest}
    /\ loaded \in ModelSpec \cup {Unloaded}
    /\ wstate \in {"idle", "loading", "ready", "generating", "error", "stopped"}
                    \X (ModelId \cup {"none"})
    /\ native \in {"ok", "error", "final"}
    /\ stalled \in BOOLEAN

CallsTyped ==
    /\ call \in [Request -> {"none", "spawned", "sending", "waiting", "giving_up", "returned"}]
    /\ wanted \in [Request -> ModelSpec \cup {Unloaded}]
    /\ grace \in [Request -> BOOLEAN] /\ expired \in [Request -> BOOLEAN]
    /\ answer \in [Request -> Verdict \cup {"none"}]
    /\ verdict \in [Request -> Verdict \cup {"none"}]
    /\ late \in [Request -> BOOLEAN] /\ stopped \in [Request -> BOOLEAN]
    /\ cancelled \in [Request -> BOOLEAN]
    /\ rxOpen \in [Request -> BOOLEAN] /\ txOpen \in [Request -> BOOLEAN]

ChatTyped ==
    /\ spc \in [Request -> {"idle", "stream", "join", "retry", "llama", "error", "ended"}]
    /\ engine \in [Request -> {"gpu", "cpu", "llama"}]
    /\ timedOut \in [Request -> BOOLEAN]
    /\ failure \in [Request -> {"none", "final", "cancelled"}]
    /\ status \in [Request -> {"streaming", "completed", "cancelled", "failed"}]

CountsTyped ==
    /\ chan \in [Request -> Nat] /\ \A r \in Request : chan[r] <= ChannelSize
    /\ produced \in [Request -> Nat] /\ \A r \in Request : produced[r] <= MaxTokens
    /\ shown \in [Request -> Nat]
    /\ dones \in [Request -> Nat]

Typed == WorkerTyped /\ CallsTyped /\ ChatTyped /\ CountsTyped /\ WorkerHolds

\* What a chat does to its command, by itself or in its call of generate().
Acts(r) == User(r) \/ ChatStep(r) \/ TakeTokenFails(r) \/ CallStep(r) \/ Clock(r)

LEMMA NextIs == Next <=> (\E r \in Request : Acts(r)) \/ WorkerStep \/ Driver
  BY DEF Next, Acts

LEMMA WorkerStaysTyped ==
    ASSUME WorkerTyped, CallsTyped, CountsTyped, WorkerHolds, WorkerStep
    PROVE  WorkerTyped' /\ CallsTyped' /\ CountsTyped' /\ WorkerHolds' /\ UNCHANGED chat
  <1> USE DEF WorkerTyped, CallsTyped, CountsTyped, WorkerHolds, AtWork, chat, Quiet,
              channel, tokens, calls
  <1>1. ASSUME SeeShutdown \/ RecvShutdown, Quiet
        PROVE  WorkerTyped' /\ CallsTyped' /\ CountsTyped' /\ WorkerHolds' /\ UNCHANGED chat
    <2>1. Exit
      BY <1>1 DEF SeeShutdown, RecvShutdown
    <2>2. QueueTyped' /\ queue' = <<>>
      <3>1. queue' = <<>> /\ Len(<<>>) = 0 /\ <<>> \in Seq(Request \cup {Shutdown})
        BY <2>1, EmptySeq DEF Exit
      <3> QED BY <3>1 DEF QueueTyped, QueueCapacity
    <2>3. txOpen' \in [Request -> BOOLEAN]
      BY <2>1 DEF Exit
    <2> QED BY <1>1, <2>1, <2>2, <2>3 DEF Exit
  <1>2. ASSUME LoopTop \/ KeepModel \/ EvictModel \/ LoadModel \/ StartNative \/ CallbackSends, Quiet
        PROVE  WorkerTyped' /\ CallsTyped' /\ CountsTyped' /\ WorkerHolds' /\ UNCHANGED chat
    <2>1. QueueTyped'
      BY <1>2 DEF QueueTyped, LoopTop, KeepModel, EvictModel, LoadModel, StartNative, CallbackSends
    <2>2. CASE LoopTop \/ KeepModel \/ CallbackSends
      BY <2>1, <2>2, <1>2 DEF LoopTop, KeepModel, CallbackSends
    <2>3. CASE EvictModel \/ LoadModel \/ StartNative
      <3>1. wanted[job].id \in ModelId \cup {"none"} /\ wanted[job] \in ModelSpec \cup {Unloaded}
        BY <2>3 DEF EvictModel, LoadModel, StartNative, ModelSpec, Unloaded
      <3> QED BY SMTT(30), <2>1, <2>3, <3>1, <1>2 DEF EvictModel, LoadModel, StartNative
    <2> QED BY <2>2, <2>3, <1>2
  <1>3. ASSUME RecvGenerate, Quiet
        PROVE  WorkerTyped' /\ CallsTyped' /\ CountsTyped' /\ WorkerHolds' /\ UNCHANGED chat
    BY <1>3, QueueHolds DEF RecvGenerate, QueueTyped, QueueCapacity
  <1>4. ASSUME NEW v \in Verdict, Answer(v), wpc \in AtWork, Quiet,
               loaded' \in ModelSpec \cup {Unloaded},
               UNCHANGED wstate \/ wstate' = <<"error", wanted[job].id>>
                 \/ wstate' = <<"ready", wanted[job].id>>
        PROVE  WorkerTyped' /\ CallsTyped' /\ CountsTyped' /\ WorkerHolds' /\ UNCHANGED chat
    <2>1. wanted[job].id \in ModelId \cup {"none"}
      BY <1>4 DEF ModelSpec, Unloaded
    <2> QED BY <1>4, <2>1 DEF Answer, DropCallback, QueueTyped
  <1>5. ASSUME NEW v \in {"ok", "error", "final"}, NativeReturns(v), wpc \in AtWork, Quiet
        PROVE  WorkerTyped' /\ CallsTyped' /\ CountsTyped' /\ WorkerHolds' /\ UNCHANGED chat
    BY <1>5 DEF NativeReturns, DropCallback, QueueTyped
  <1>6. ASSUME PushToken, Quiet
        PROVE  WorkerTyped' /\ CallsTyped' /\ CountsTyped' /\ WorkerHolds' /\ UNCHANGED chat
    BY SMTT(30), <1>6 DEF PushToken, QueueTyped
  <1>7. CASE SkipGone /\ Quiet
    BY <1>7, <1>4 DEF SkipGone, Verdict
  <1>8. CASE (\E v \in NativeErrors : LoadFails(v)) /\ Quiet
    BY <1>8, <1>4 DEF LoadFails, Verdict
  <1>9. CASE FinishGone /\ Quiet
    BY <1>9, <1>4 DEF FinishGone, Verdict
  <1>10. CASE Finish /\ Quiet
    <2>1. native \in Verdict /\ (wstate' = <<"error", wanted[job].id>> \/ wstate' = <<"ready", wanted[job].id>>)
      BY <1>10 DEF Finish, Verdict
    <2> QED BY <1>10, <2>1, <1>4 DEF Finish
  <1>11. CASE /\ (\E v \in NativeErrors \cup {"ok"} : NativeEnds(v)) \/ CallbackStops \/ PushFails
              /\ Quiet
    BY ZenonT(60), <1>11, <1>5 DEF NativeEnds, CallbackStops, PushFails
  <1> QED BY <1>1, <1>2, <1>3, <1>6, <1>7, <1>8, <1>9, <1>10, <1>11 DEF WorkerStep

\* A chat puts its own command or Shutdown into the queue and sets the flag,
\* and leaves the worker and the commands of others alone.
Sends(r) ==
    /\ UNCHANGED worker
    /\ shutdown' \in BOOLEAN
    /\ \/ UNCHANGED queue
       \/ /\ wpc # "exited" /\ Len(queue) < QueueCapacity
          /\ \/ queue' = Append(queue, Shutdown)
             \/ queue' = Append(queue, r) /\ call[r] = "sending" /\ call'[r] = "waiting"

LEMMA SendsTyped ==
    ASSUME NEW r \in Request, WorkerTyped, Sends(r)
    PROVE  /\ WorkerTyped'
           /\ WorkerHolds => (wpc' = "exited" => queue' = <<>>)
           /\ queue' # queue =>
                /\ Queued = {}
                /\ \/ Queued' = {Shutdown}
                   \/ Queued' = {r} /\ call[r] = "sending" /\ call'[r] = "waiting"
  <1>1. CASE UNCHANGED queue
    BY <1>1 DEF Sends, WorkerTyped, QueueTyped, worker, WorkerHolds
  <1>2. ASSUME NEW x \in Request \cup {Shutdown}, queue' = Append(queue, x),
               wpc # "exited", Len(queue) < QueueCapacity
        PROVE  QueueTyped' /\ Queued = {} /\ Queued' = {x}
    BY <1>2, QueueAppends, QueueEmpty DEF QueueTyped, Queued, WorkerTyped
  <1>3. CASE ~UNCHANGED queue
    BY <1>2, <1>3 DEF Sends, WorkerTyped, worker
  <1> QED BY <1>1, <1>3

LEMMA QuarantineSends ==
    ASSUME NEW r \in Request, Quarantine, UNCHANGED worker
    PROVE  Sends(r)
  BY DEF Quarantine, Sends

LEMMA ActsSend ==
    ASSUME NEW r \in Request, Acts(r), WorkerTyped, CallsTyped
    PROVE  Sends(r)
  <1>1. CASE User(r) \/ TakeTokenFails(r) \/ Clock(r)
    BY <1>1 DEF User, StartChat, StartRefused, Stop, Begin, TakeTokenFails, Clock,
                DeadlinePasses, Sends, WorkerTyped, supervisorVars
  <1>2. CASE ChatStep(r)
    <2>1. CASE JoinTimesOut(r)
      BY <2>1, QuarantineSends DEF JoinTimesOut
    <2>2. CASE ChatStep(r) /\ ~JoinTimesOut(r)
      BY <2>2 DEF ChatStep, StreamCancelled, StreamEnds, StreamLate, TakeToken, SettleLate,
                  SettleCancelled, SettleCompleted, SettleRetry, SettleFinal, SettleFailed,
                  Settle, RetryCpu, Begin, FallBack, LlamaFails, LlamaEnds, HandleError, End,
                  Sends, WorkerTyped, supervisorVars
    <2> QED BY <1>2, <2>1, <2>2
  <1>3. CASE CallStep(r)
    <2>1. CASE GiveUp(r)
      BY <2>1, QuarantineSends DEF GiveUp
    <2>2. CASE Send(r)
      BY <2>2 DEF Send, Sends, CallsTyped, WorkerTyped
    <2>3. CASE CallStep(r) /\ ~GiveUp(r) /\ ~Send(r)
      BY <2>3 DEF CallStep, Enter, SendRefused, ReceiveAnswer, SeeDisconnect, StartGrace,
                  GraceEnds, Sends, WorkerTyped
    <2> QED BY <1>3, <2>1, <2>2, <2>3
  <1> QED BY <1>1, <1>2, <1>3 DEF Acts

LEMMA BeginTyped ==
    ASSUME NEW r \in Request, NEW e \in {"gpu", "cpu", "llama"}, Begin(r, e), CallsTyped, ChatTyped
    PROVE  CallsTyped' /\ ChatTyped'
  <1>1. [id |-> ModelOf[r], gpu |-> e = "gpu"] \in ModelSpec
    BY DEF ModelSpec
  <1>2. CallsTyped'
    BY <1>1 DEF Begin, CallsTyped, worker
  <1>3. ChatTyped'
    BY DEF Begin, Goto, ChatTyped
  <1> QED BY <1>2, <1>3

LEMMA EndTyped ==
    ASSUME NEW r \in Request, NEW s \in {"completed", "cancelled", "failed"}, End(r, s),
           CallsTyped, ChatTyped
    PROVE  CallsTyped' /\ ChatTyped'
  BY DEF End, Goto, CallsTyped, ChatTyped

LEMMA ReturnTyped ==
    ASSUME NEW r \in Request, NEW v \in Verdict, Return(r, v), CallsTyped,
           UNCHANGED <<wanted, stopped, cancelled, rxOpen>>,
           UNCHANGED txOpen \/ DropCallback(r)
    PROVE  CallsTyped'
  BY DEF Return, DropCallback, CallsTyped

LEMMA CallStepsTyped ==
    ASSUME NEW r \in Request, CallStep(r), CallsTyped
    PROVE  CallsTyped'
  <1>1. CASE Enter(r) /\ (shutdown \/ Cancelled(r))
    BY <1>1, ReturnTyped DEF Enter, Verdict, channel
  <1>2. CASE Enter(r) /\ ~(shutdown \/ Cancelled(r))
    BY <1>2 DEF Enter, CallsTyped
  <1>3. CASE Send(r) \/ GraceEnds(r)
    BY <1>3 DEF Send, GraceEnds, CallsTyped, channel, tokens
  <1>4. CASE StartGrace(r)
    <2>1. (~Cancelled(r)) \in BOOLEAN
      OBVIOUS
    <2> QED BY <1>4, <2>1 DEF StartGrace, CallsTyped, channel
  <1>5. CASE \E v \in {"busy", "disconnected"} : SendRefused(r, v)
    BY <1>5, ReturnTyped DEF SendRefused, Verdict
  <1>6. CASE ReceiveAnswer(r)
    <2>1. (IF expired[r] THEN "deadline" ELSE answer[r]) \in Verdict
      BY <1>6 DEF ReceiveAnswer, CallsTyped, Verdict
    <2> QED BY <1>6, <2>1, ReturnTyped DEF ReceiveAnswer, channel
  <1>7. CASE SeeDisconnect(r) \/ GiveUp(r)
    BY <1>7, ReturnTyped DEF SeeDisconnect, GiveUp, Verdict, channel
  <1> QED BY <1>1, <1>2, <1>3, <1>4, <1>5, <1>6, <1>7 DEF CallStep

LEMMA ActsStayTyped ==
    ASSUME NEW r \in Request, Acts(r), CallsTyped, ChatTyped
    PROVE  CallsTyped' /\ ChatTyped'
  <1>1. CASE User(r) \/ Clock(r)
    <2>1. CASE StartChat(r) 
      <3>1. engine[r] \in {"gpu", "cpu", "llama"}
        BY DEF ChatTyped
      <3> QED BY <2>1, <3>1, BeginTyped DEF StartChat
    <2>2. CASE StartRefused(r)
      BY <2>2 DEF StartRefused, Goto, CallsTyped, ChatTyped, supervisorVars, calls, tokens, channel
    <2>3. CASE Stop(r)
      BY <2>3 DEF Stop, chat, CallsTyped, ChatTyped, calls, channel
    <2>4. CASE Clock(r)
      BY <2>4 DEF Clock, Quiet, chat, DeadlinePasses, CallsTyped, ChatTyped, calls, channel
    <2> QED BY <1>1, <2>1, <2>2, <2>3, <2>4 DEF User
  <1>2. CASE TakeTokenFails(r) \/ TakeToken(r) \/ StreamCancelled(r) \/ StreamEnds(r) \/ StreamLate(r)
    <2>1. CASE TakeTokenFails(r)
      BY <2>1 DEF TakeTokenFails, Goto, CloseChannel, Cancel, CallsTyped, ChatTyped, calls
    <2>2. CASE TakeToken(r)
      BY <2>2 DEF TakeToken, CallsTyped, ChatTyped, calls, tokens
    <2>3. CASE StreamCancelled(r)
      BY <2>3 DEF StreamCancelled, Goto, CloseChannel, CallsTyped, ChatTyped, calls, tokens
    <2>4. CASE StreamEnds(r)
      BY <2>4 DEF StreamEnds, Goto, CloseChannel, CallsTyped, ChatTyped, calls, tokens
    <2>5. CASE StreamLate(r)
      BY <2>5 DEF StreamLate, Goto, CloseChannel, Cancel, CallsTyped, ChatTyped, calls
    <2> QED BY <1>2, <2>1, <2>2, <2>3, <2>4, <2>5
  <1>3. CASE JoinTimesOut(r) \/ SettleLate(r) \/ SettleRetry(r) \/ SettleFinal(r) \/ SettleFailed(r)
             \/ FallBack(r) \/ LlamaFails(r)
    BY SMTT(30), <1>3 DEF JoinTimesOut, SettleLate, SettleRetry, SettleFinal, SettleFailed, FallBack,
                LlamaFails, Settle, Finalize, Goto, CallsTyped, ChatTyped, supervisorVars,
                calls, channel, tokens
  <1>4. CASE \/ SettleCancelled(r) \/ SettleCompleted(r) \/ HandleError(r)
             \/ \E s \in {"completed", "failed", "cancelled"} : LlamaEnds(r, s)
    BY <1>4, EndTyped DEF SettleCancelled, SettleCompleted, HandleError, LlamaEnds
  <1>5. CASE RetryCpu(r)
    BY <1>5, BeginTyped DEF RetryCpu
  <1>6. CASE CallStep(r)
    BY <1>6, CallStepsTyped DEF CallStep, Quiet, chat, ChatTyped
  <1> QED BY <1>1, <1>2, <1>3, <1>4, <1>5, <1>6 DEF Acts, ChatStep

-----------------------------------------------------------------------------
(* Tokens                                                                  *)

LEMMA WorkerStaysCounted ==
    ASSUME WorkerTyped, CallsTyped, ChatTyped, CountsTyped, WorkerHolds, TokensCounted, WorkerStep
    PROVE  TokensCounted' /\ (LeavesAreComplete => LeavesAreComplete')
  <1>1. UNCHANGED chat
    BY WorkerStaysTyped
  <1> USE DEF TokensCounted, LeavesAreComplete, chat, Cancelled, channel, tokens, CountsTyped,
              CallsTyped, ChatTyped
  <1>2. CASE UNCHANGED <<chan, produced, rxOpen, stopped, cancelled>>
    BY <1>1, <1>2
  <1>3. CASE PushToken
    <2>1. job \in Request
      BY <1>3 DEF PushToken, WorkerHolds, AtWork
    <2> QED BY <1>1, <1>3, <2>1 DEF PushToken
  <1>4. CASE WorkerStep /\ ~PushToken
    BY <1>2, <1>4 DEF WorkerStep, SeeShutdown, LoopTop, RecvShutdown, RecvGenerate, SkipGone,
          KeepModel, EvictModel, LoadModel, LoadFails, StartNative, NativeEnds, CallbackStops,
          CallbackSends, PushFails, FinishGone, Finish, NativeReturns, Answer, Exit
  <1> QED BY <1>3, <1>4

\* What an act of a chat does to the numbers.
Numbers == CountsTyped /\ TokensCounted /\ LeavesAreComplete /\ Announced

\* The bound of an answer that is being written stays open.
Room(r) == produced' = produced \/ produced' = [produced EXCEPT ![r] = 0]

LEMMA BeginCounts ==
    ASSUME NEW r \in Request, NEW e \in {"gpu", "cpu", "llama"}, Begin(r, e),
           CallsTyped, ChatTyped, Numbers, dones[r] = 0
    PROVE  Numbers' /\ Room(r)
  <1> USE DEF Numbers, Begin, Goto, CallsTyped, ChatTyped, CountsTyped
  <1>1. CountsTyped' /\ Room(r)
    BY DEF Room
  <1>2. TokensCounted'
    BY DEF TokensCounted
  <1>3. LeavesAreComplete'
    BY DEF LeavesAreComplete, Cancelled
  <1>4. Announced'
    BY DEF Announced
  <1> QED BY <1>1, <1>2, <1>3, <1>4

LEMMA EndCounts ==
    ASSUME NEW r \in Request, NEW s \in {"completed", "cancelled", "failed"}, End(r, s),
           CallsTyped, ChatTyped, Numbers, spc[r] \in {"join", "llama", "error"}
    PROVE  Numbers' /\ Room(r)
  <1> USE DEF Numbers, End, Goto, CallsTyped, ChatTyped, CountsTyped
  <1>1. CountsTyped' /\ Room(r)
    BY DEF Room
  <1>2. TokensCounted'
    BY DEF TokensCounted
  <1>3. LeavesAreComplete'
    BY DEF LeavesAreComplete, Cancelled
  <1>4. Announced'
    BY DEF Announced
  <1> QED BY <1>1, <1>2, <1>3, <1>4

LEMMA ReaderCounts ==
    ASSUME NEW r \in Request, CallsTyped, ChatTyped, Numbers,
           TakeTokenFails(r) \/ TakeToken(r) \/ StreamCancelled(r) \/ StreamEnds(r) \/ StreamLate(r)
    PROVE  Numbers' /\ Room(r)
  <1> USE DEF Numbers, Goto, CallsTyped, ChatTyped, CountsTyped, CloseChannel, Cancel,
              calls, channel, tokens, Room, Cancelled, TokensCounted
  <1>1. CASE TakeTokenFails(r)
    <2>1. Numbers' <=> CountsTyped' /\ TokensCounted' /\ LeavesAreComplete' /\ Announced'
      OBVIOUS
    <2>2. shown[r] + 1 <= produced[r] /\ rxOpen[r] /\ dones[r] = 0
      BY <1>1 DEF TakeTokenFails, Announced
    <2>3. TokensCounted'
      BY <1>1, <2>2 DEF TakeTokenFails
    <2>4. CountsTyped' /\ LeavesAreComplete' /\ Announced'
      BY <1>1, <2>2 DEF TakeTokenFails, LeavesAreComplete, Announced
    <2> QED BY <1>1, <2>1, <2>3, <2>4 DEF TakeTokenFails
  <1>2. CASE TakeToken(r)
    <2>1. rxOpen[r] /\ chan[r] > 0 /\ shown[r] + chan[r] = produced[r]
      BY <1>2 DEF TakeToken
    <2>2. CountsTyped'
      BY <1>2, <2>1 DEF TakeToken
    <2>3. TokensCounted'
      <3>1. UNCHANGED <<rxOpen, spc, produced>>
        BY <1>2 DEF TakeToken
      <3>2. rxOpen'[r] /\ shown'[r] + chan'[r] = produced'[r]
        BY <1>2, <2>1, <3>1 DEF TakeToken
      <3>3. \A q \in Request \ {r} : shown'[q] = shown[q] /\ chan'[q] = chan[q]
        BY <1>2 DEF TakeToken
      <3> QED BY <3>1, <3>2, <3>3
    <2>4. LeavesAreComplete' /\ Announced'
      BY <1>2 DEF TakeToken, LeavesAreComplete, Announced
    <2> QED BY <1>2, <2>2, <2>3, <2>4 DEF TakeToken
  <1>3. CASE StreamCancelled(r)
    BY <1>3 DEF StreamCancelled, LeavesAreComplete, Announced
  <1>4. CASE StreamEnds(r)
    BY <1>4 DEF StreamEnds, LeavesAreComplete, Announced
  <1>5. CASE StreamLate(r)
    BY <1>5 DEF StreamLate, LeavesAreComplete, Announced
  <1> QED BY <1>1, <1>2, <1>3, <1>4, <1>5

LEMMA ActsStayCounted ==
    ASSUME NEW r \in Request, Acts(r), CallsTyped, ChatTyped, Numbers
    PROVE  Numbers' /\ Room(r)
  <1>1. CASE StartChat(r) \/ RetryCpu(r)
    <2>1. engine[r] \in {"gpu", "cpu", "llama"} /\ dones[r] = 0
      BY <1>1 DEF ChatTyped, StartChat, RetryCpu, Numbers, Announced
    <2> QED BY <1>1, <2>1, BeginCounts DEF StartChat, RetryCpu
  <1>2. CASE StartRefused(r) \/ Stop(r)
    BY SMTT(30), <1>2 DEF StartRefused, Stop, Numbers, CountsTyped, TokensCounted, LeavesAreComplete,
         Announced, Room, Cancelled, Goto, supervisorVars, chat, channel, tokens, CallsTyped,
         ChatTyped
  <1>3. CASE TakeTokenFails(r) \/ TakeToken(r) \/ StreamCancelled(r) \/ StreamEnds(r) \/ StreamLate(r)
    BY <1>3, ReaderCounts
  <1>4. CASE JoinTimesOut(r) \/ SettleLate(r) \/ SettleFailed(r)
    <2>1. /\ spc[r] = "join" /\ dones[r] = 0 /\ ~rxOpen[r]
          /\ spc' = [spc EXCEPT ![r] = "error"]
          /\ dones' = [dones EXCEPT ![r] = @ + 1]
          /\ UNCHANGED <<channel, cancelled, stopped, shown, engine>>
      BY <1>4 DEF JoinTimesOut, SettleLate, SettleFailed, Answered, Joined, Settle, Finalize, Goto,
           Numbers, Announced, TokensCounted, supervisorVars, tokens
    <2>2. UNCHANGED <<chan, produced, rxOpen>>
      BY <2>1 DEF channel
    <2>3. CountsTyped' /\ TokensCounted' /\ Room(r)
      BY <2>1, <2>2 DEF Numbers, CountsTyped, TokensCounted, Room, ChatTyped
    <2>4. LeavesAreComplete'
      BY <2>1, <2>2 DEF Numbers, LeavesAreComplete, Cancelled, ChatTyped
    <2>5. \A q \in Request \ {r} : dones'[q] = dones[q] /\ spc'[q] = spc[q] /\ status'[q] = status[q]
      BY <1>4 DEF JoinTimesOut, SettleLate, SettleFailed, Answered, Joined, Finalize, Goto, ChatTyped,
           Numbers, CountsTyped
    <2>6. Announced'
      BY <2>1, <2>5 DEF Numbers, Announced, CountsTyped, ChatTyped
    <2> QED BY <2>2, <2>3, <2>4, <2>6 DEF Numbers
  <1>5. CASE SettleRetry(r) \/ SettleFinal(r) \/ FallBack(r) \/ LlamaFails(r)
    BY <1>5 DEF SettleRetry, SettleFinal, FallBack, LlamaFails, Answered, Joined, Settle, Goto,
         Numbers, CountsTyped, TokensCounted, LeavesAreComplete, Announced, Room, Cancelled,
         supervisorVars, channel, tokens, CallsTyped, ChatTyped
  <1>6. CASE \/ SettleCancelled(r) \/ SettleCompleted(r) \/ HandleError(r)
             \/ \E s \in {"completed", "failed", "cancelled"} : LlamaEnds(r, s)
    BY <1>6, EndCounts DEF SettleCancelled, SettleCompleted, HandleError, LlamaEnds, Answered, Joined
  <1>7. CASE CallStep(r) \/ Clock(r)
    <2>1. UNCHANGED <<chan, produced, rxOpen, stopped, chat>>
      BY <1>7 DEF CallStep, Clock, Quiet, Enter, Send, SendRefused, ReceiveAnswer, SeeDisconnect,
           StartGrace, GraceEnds, GiveUp, DeadlinePasses, channel, tokens
    <2>2. cancelled' = cancelled \/ cancelled' = [cancelled EXCEPT ![r] = TRUE]
      BY <1>7 DEF CallStep, Clock, Quiet, Enter, Send, SendRefused, ReceiveAnswer, SeeDisconnect,
           StartGrace, GraceEnds, GiveUp, DeadlinePasses, channel, tokens
    <2> QED BY <2>1, <2>2 DEF chat, Numbers, CountsTyped, TokensCounted, LeavesAreComplete,
              Announced, Room, Cancelled, CallsTyped
  <1> QED BY <1>1, <1>2, <1>3, <1>4, <1>5, <1>6, <1>7 DEF Acts, User, ChatStep

-----------------------------------------------------------------------------
(* Commands                                                                *)

LEMMA WorkerKeepsCommands ==
    ASSUME WorkerTyped, CallsTyped, ChatTyped, CountsTyped, WorkerHolds, CommandsKnown, WorkerStep
    PROVE  CommandsKnown'
  <1> USE DEF CommandsKnown, Left, WorkerTyped
  <1>1. UNCHANGED <<spc, call, verdict>>
    BY WorkerStaysTyped DEF chat, WorkerStep, SeeShutdown, LoopTop, RecvShutdown, RecvGenerate,
          SkipGone, KeepModel, EvictModel, LoadModel, LoadFails, StartNative, NativeEnds,
          CallbackStops, CallbackSends, PushToken, PushFails, FinishGone, Finish, NativeReturns,
          Answer, Exit, calls
  <1>2. CASE SeeShutdown \/ RecvShutdown
    <2>1. Queued' = {} /\ job' = NoRequest /\ UNCHANGED answer
      BY <1>2 DEF SeeShutdown, RecvShutdown, Exit, Queued
    <2> QED BY <1>1, <2>1
  <1>3. CASE RecvGenerate
    <2>1. Queued = {Head(queue)} /\ Head(queue) \in Request /\ queue' = <<>>
      BY <1>3, QueueHolds DEF RecvGenerate
    <2>2. Queued' = {} /\ job' = Head(queue) /\ UNCHANGED answer
      BY <1>3, <2>1 DEF RecvGenerate, Queued
    <2> QED BY <1>1, <2>1, <2>2
  <1>4. ASSUME NEW v, Answer(v), wpc \in AtWork
        PROVE  CommandsKnown'
    <2>1. job \in Request /\ job' = NoRequest /\ Queued' = Queued
      BY <1>4 DEF WorkerHolds, Answer, Queued
    <2>2. \A r \in Request : r # job => answer'[r] = answer[r]
      BY <1>4, <2>1 DEF Answer, CallsTyped
    <2>3. call[job] = "returned" \/ call[job] \in {"waiting", "giving_up"}
      BY <2>1 DEF CallsTyped
    <2>4. call[job] = "returned" => answer' = answer
      BY <1>4 DEF Answer
    <2>5. job \notin Queued
      BY <2>1
    <2> QED BY <1>1, <2>1, <2>2, <2>3, <2>4, <2>5
  <1>5. CASE SkipGone \/ (\E v \in NativeErrors : LoadFails(v)) \/ FinishGone \/ Finish
    BY <1>4, <1>5 DEF SkipGone, LoadFails, FinishGone, Finish, AtWork
  <1>6. CASE ~(SeeShutdown \/ RecvShutdown \/ RecvGenerate \/ SkipGone
               \/ (\E v \in NativeErrors : LoadFails(v)) \/ FinishGone \/ Finish)
    <2>1. UNCHANGED <<queue, job, answer>>
      BY <1>6 DEF WorkerStep, LoopTop, KeepModel, EvictModel, LoadModel, StartNative, NativeEnds,
            CallbackStops, CallbackSends, PushToken, PushFails, NativeReturns
    <2> QED BY <1>1, <2>1 DEF Queued
  <1> QED BY <1>2, <1>3, <1>5, <1>6

\* Whatever a chat puts into the queue, it is only its own command, when it
\* is sent, that changes whose command is there.
LEMMA OthersQueued ==
    ASSUME NEW r \in Request, WorkerTyped, CallsTyped, Acts(r)
    PROVE  /\ \A q \in Request : q \in Queued' =>
                q \in Queued \/ (q = r /\ Queued = {} /\ call[r] = "sending" /\ call'[r] = "waiting")
           /\ job' = job
  <1>1. Sends(r)
    BY ActsSend
  <1>2. Queued' = Queued \/ queue' # queue
    BY DEF Queued
  <1>3. Shutdown \notin Request
    OBVIOUS
  <1> QED BY <1>1, <1>2, <1>3, SendsTyped DEF Sends, worker

LEMMA OthersRows ==
    ASSUME NEW r \in Request, NEW q \in Request, q # r, CallsTyped, ChatTyped, Acts(r)
    PROVE  /\ spc'[q] = spc[q] /\ call'[q] = call[q]
           /\ answer'[q] = answer[q] /\ verdict'[q] = verdict[q]
           /\ status'[q] = status[q]
  <1> USE DEF CallsTyped, ChatTyped
  <1>1. CASE User(r) \/ Clock(r)
    BY <1>1 DEF User, StartChat, StartRefused, Stop, Begin, Goto, Clock, Quiet, DeadlinePasses,
         supervisorVars, calls, chat
  <1>2. CASE TakeTokenFails(r) \/ TakeToken(r) \/ StreamCancelled(r) \/ StreamEnds(r) \/ StreamLate(r)
    BY <1>2 DEF TakeTokenFails, TakeToken, StreamCancelled, StreamEnds, StreamLate, Goto, calls
  <1>3. CASE ChatStep(r) /\ ~(TakeToken(r) \/ StreamCancelled(r) \/ StreamEnds(r) \/ StreamLate(r))
    BY <1>3 DEF ChatStep, JoinTimesOut, SettleLate, SettleCancelled, SettleCompleted, SettleRetry,
         SettleFinal, SettleFailed, Settle, Finalize, RetryCpu, Begin, FallBack, LlamaFails,
         LlamaEnds, HandleError, End, Goto, supervisorVars, calls
  <1>4. CASE CallStep(r)
    BY <1>4 DEF CallStep, Quiet, Enter, Send, SendRefused, ReceiveAnswer, SeeDisconnect, StartGrace,
         GraceEnds, GiveUp, Return, chat
  <1> QED BY <1>1, <1>2, <1>3, <1>4 DEF Acts

LEMMA ActsKeepCommands ==
    ASSUME NEW r \in Request, WorkerTyped, CallsTyped, ChatTyped, WorkerHolds, CommandsKnown, Acts(r)
    PROVE  CommandsKnown'
  <1> DEFINE Known(q) ==
        /\ spc[q] = "idle" => call[q] = "none"
        /\ call[q] \in {"none", "spawned", "sending"} => ~Left(q) /\ answer[q] = "none"
        /\ answer[q] # "none" => ~Left(q)
        /\ q \in Queued => job # q
        /\ call[q] = "returned" /\ Left(q)
             => verdict[q] = "timed_out" \/ spc[q] \in {"error", "ended"}
        /\ spc[q] \in {"retry", "llama"} => call[q] = "returned" /\ ~Left(q)
  <1>1. \A q \in Request : Known(q)
    BY DEF CommandsKnown
  <1>2. ASSUME NEW q \in Request, q # r
        PROVE  Known(q)'
    <2>1. /\ spc'[q] = spc[q] /\ call'[q] = call[q]
          /\ answer'[q] = answer[q] /\ verdict'[q] = verdict[q]
      BY <1>2, OthersRows
    <2> QED BY <1>1, <1>2, <2>1, OthersQueued DEF Left
  <1>3. Known(r)'
    <2>1. /\ Left(r)' => Left(r) \/ (call[r] = "sending" /\ call'[r] = "waiting")
          /\ r \in Queued' => job' # r
      BY <1>1, OthersQueued DEF Left
    <2> USE <1>1 DEF CallsTyped, ChatTyped
    <2>2. CASE StartChat(r) \/ RetryCpu(r)
      <3>1. ~Left(r)
        BY <2>2 DEF StartChat, RetryCpu
      <3>2. call'[r] = "spawned" /\ spc'[r] = "stream" /\ answer'[r] = "none"
        BY <2>2 DEF StartChat, RetryCpu, Begin, Goto
      <3> QED BY <2>1, <3>1, <3>2
    <2>3. CASE StartRefused(r) \/ Stop(r) \/ Clock(r)
      BY <2>1, <2>3 DEF StartRefused, Stop, Clock, Quiet, DeadlinePasses, Goto, supervisorVars,
           calls, chat
    <2>4. CASE TakeTokenFails(r) \/ TakeToken(r) \/ StreamCancelled(r) \/ StreamEnds(r) \/ StreamLate(r)
      BY <2>1, <2>4 DEF TakeTokenFails, TakeToken, StreamCancelled, StreamEnds, StreamLate, Goto,
           calls
    <2>5. CASE JoinTimesOut(r) \/ SettleLate(r) \/ SettleFinal(r) \/ SettleFailed(r) \/ LlamaFails(r)
      BY <2>1, <2>5 DEF JoinTimesOut, SettleLate, SettleFinal, SettleFailed, LlamaFails, Settle,
           Goto, supervisorVars, calls
    <2>6. CASE SettleRetry(r) \/ FallBack(r)
      BY <2>1, <2>6 DEF SettleRetry, Answered, Joined, FallBack, Settle, Goto, supervisorVars, calls
    <2>7. CASE \/ SettleCancelled(r) \/ SettleCompleted(r) \/ HandleError(r)
               \/ \E s \in {"completed", "failed", "cancelled"} : LlamaEnds(r, s)
      BY <2>1, <2>7 DEF SettleCancelled, SettleCompleted, HandleError, LlamaEnds, End, Goto
    <2>8. ASSUME NEW v, Return(r, v), UNCHANGED spc, call[r] # "none", call[r] # "returned",
                 ~Left(r) \/ v = "timed_out"
          PROVE  Known(r)'
      BY <2>1, <2>8 DEF Return
    <2>9. CASE CallStep(r)
      <3>1. UNCHANGED spc
        BY <2>9 DEF CallStep, Quiet, chat
      <3>2. CASE Enter(r) /\ (shutdown \/ Cancelled(r))
        BY <2>8, <3>1, <3>2 DEF Enter
      <3>3. CASE Enter(r) /\ ~(shutdown \/ Cancelled(r))
        BY <2>1, <3>1, <3>3 DEF Enter
      <3>4. CASE Send(r) \/ StartGrace(r) \/ GraceEnds(r)
        BY <2>1, <3>1, <3>4 DEF Send, StartGrace, GraceEnds, Waiting
      <3>5. CASE \E v \in {"busy", "disconnected"} : SendRefused(r, v)
        BY <2>8, <3>1, <3>5 DEF SendRefused
      <3>6. CASE ReceiveAnswer(r)
        BY <2>8, <3>1, <3>6 DEF ReceiveAnswer
      <3>7. CASE SeeDisconnect(r)
        <4>1. ~Left(r)
          BY <3>7, QueueEmpty DEF SeeDisconnect, WorkerHolds, AtWork, Left
        <4> QED BY <2>8, <3>1, <3>7, <4>1 DEF SeeDisconnect
      <3>8. CASE GiveUp(r)
        BY <2>8, <3>1, <3>8 DEF GiveUp
      <3> QED BY <2>9, <3>2, <3>3, <3>4, <3>5, <3>6, <3>7, <3>8 DEF CallStep
    <2> QED BY <2>2, <2>3, <2>4, <2>5, <2>6, <2>7, <2>9 DEF Acts, User, ChatStep
  <1> QED BY <1>2, <1>3 DEF CommandsKnown

-----------------------------------------------------------------------------
(* The inductive invariant                                                 *)

Inv == Typed /\ TokensCounted /\ LeavesAreComplete /\ Announced /\ CommandsKnown

LEMMA InvInit == Init => Inv
  <1> SUFFICES ASSUME Init PROVE Inv
    OBVIOUS
  <1> USE DEF Init, SupervisorInit
  <1>1. WorkerTyped /\ WorkerHolds /\ Queued = {}
    <2>1. queue = <<>> /\ Len(<<>>) = 0 /\ <<>> \in Seq(Request \cup {Shutdown})
      BY EmptySeq
    <2>2. QueueTyped /\ Queued = {}
      BY <2>1, QueueEmpty DEF QueueTyped, QueueCapacity
    <2>3. WorkerTyped
      BY <2>2 DEF WorkerTyped, AtWork
    <2>4. WorkerHolds
      BY DEF WorkerHolds, AtWork
    <2> QED BY <2>2, <2>3, <2>4
  <1>2. CallsTyped /\ ChatTyped /\ CountsTyped
    BY DEF CallsTyped, ChatTyped, CountsTyped
  <1>3. TokensCounted /\ LeavesAreComplete /\ Announced
    BY DEF TokensCounted, LeavesAreComplete, Announced
  <1>4. CommandsKnown
    BY <1>1 DEF CommandsKnown, Left
  <1> QED BY <1>1, <1>2, <1>3, <1>4 DEF Inv, Typed

LEMMA DriverKeeps ==
    ASSUME Inv, Driver \/ UNCHANGED vars
    PROVE  Inv'
  <1>1. /\ UNCHANGED <<queue, shutdown, wpc, job, loaded, wstate, native, calls, answer, channel,
                       tokens, chat>>
        /\ stalled' = stalled \/ stalled' = TRUE
    BY DEF Driver, Quiet, Hang, vars, supervisorVars, worker
  <1> USE <1>1 DEF calls, channel, tokens, chat
  <1>2. WorkerTyped' /\ WorkerHolds' /\ Queued' = Queued
    BY ZenonT(60) DEF Inv, Typed, WorkerTyped, QueueTyped, WorkerHolds, Queued
  <1>3. CallsTyped' /\ ChatTyped' /\ CountsTyped'
    BY DEF Inv, Typed, CallsTyped, ChatTyped, CountsTyped
  <1>4. TokensCounted' /\ LeavesAreComplete' /\ Announced'
    BY DEF Inv, TokensCounted, LeavesAreComplete, Announced, Cancelled
  <1>5. CommandsKnown'
    BY <1>2 DEF Inv, CommandsKnown, Left
  <1> QED BY <1>2, <1>3, <1>4, <1>5 DEF Inv, Typed

LEMMA InvStays == Inv /\ [Next]_vars => Inv'
  <1> SUFFICES ASSUME Inv, [Next]_vars PROVE Inv'
    OBVIOUS
  <1> USE DEF Inv, Typed
  <1>1. ASSUME NEW r \in Request, Acts(r)
        PROVE  Inv'
    <2>1. CallsTyped' /\ ChatTyped'
      BY <1>1, ActsStayTyped
    <2>2. Numbers' /\ Room(r)
      BY <1>1, ActsStayCounted DEF Numbers
    <2>3. Sends(r)
      BY <1>1, ActsSend
    <2>4. WorkerTyped'
      BY <2>3, SendsTyped
    <2>5. WorkerHolds'
      <3>1. UNCHANGED <<wpc, job>> /\ (wpc' = "exited" => queue' = <<>>)
        BY <2>3, SendsTyped DEF Sends, worker
      <3>2. ASSUME wpc = "push"
            PROVE  produced'[job] < MaxTokens
        <4>1. job \in Request /\ produced[job] < MaxTokens
          BY <3>2 DEF WorkerHolds, AtWork
        <4>2. produced'[job] = produced[job] \/ produced'[job] = 0
          BY <2>2, <4>1 DEF Room, CountsTyped
        <4> QED BY <4>1, <4>2
      <3> QED BY <3>1, <3>2 DEF WorkerHolds
    <2>6. CommandsKnown'
      BY <1>1, ActsKeepCommands
    <2> QED BY <2>1, <2>2, <2>4, <2>5, <2>6 DEF Numbers
  <1>2. CASE WorkerStep
    <2>1. WorkerTyped' /\ CallsTyped' /\ CountsTyped' /\ WorkerHolds' /\ UNCHANGED chat
      BY <1>2, WorkerStaysTyped
    <2>2. ChatTyped' /\ Announced'
      BY <2>1 DEF ChatTyped, Announced, chat
    <2> QED BY <1>2, <2>1, <2>2, WorkerStaysCounted, WorkerKeepsCommands
  <1>3. CASE Driver \/ UNCHANGED vars
    BY <1>3, DriverKeeps
  <1> QED BY <1>1, <1>2, <1>3, NextIs

LEMMA InvHolds == Spec => []Inv
  BY InvInit, InvStays, PTL DEF Spec

\* Every reachable state has its type: the queue and the channel never hold
\* more than they may, however the worker and the chats interleave.
THEOREM TypeCorrect == Spec => []TypeOK
  <1>1. Inv => TypeOK
    <2> SUFFICES ASSUME Inv PROVE TypeOK
      OBVIOUS
    <2> USE DEF Inv, Typed
    <2>1. /\ chan \in [Request -> 0..ChannelSize]
          /\ produced \in [Request -> 0..MaxTokens]
          /\ shown \in [Request -> 0..MaxTokens]
          /\ dones \in [Request -> 0..2]
      <3>1. ASSUME NEW r \in Request
            PROVE  shown[r] <= MaxTokens
        <4>1. shown[r] \in Nat /\ chan[r] \in Nat /\ produced[r] \in Nat /\ produced[r] <= MaxTokens
          BY DEF CountsTyped
        <4>2. shown[r] + chan[r] = produced[r] \/ shown[r] <= produced[r]
          BY DEF TokensCounted
        <4> QED BY <4>1, <4>2
      <3>2. \A r \in Request : shown[r] <= MaxTokens
        BY <3>1
      <3> QED BY <3>2 DEF CountsTyped, Announced
    <2> QED BY <2>1 DEF TypeOK, SupervisorTypeOK, WorkerTyped, QueueTyped, AtWork, CallsTyped,
              ChatTyped
  <1> QED BY <1>1, InvHolds, PTL

\* A command that is over has set the status of its message and told the
\* interface, whichever of its many ends it took (inference_legacy.rs,
\* native_stream.rs).
THEOREM EndIsAnnounced == Spec => []EndedChatIsAnnounced
  <1>1. Inv => EndedChatIsAnnounced
    BY DEF Inv, Announced, EndedChatIsAnnounced
  <1> QED BY <1>1, InvHolds, PTL

\* A native answer that is marked completed was shown to its last token
\* (native_stream.rs).
THEOREM CompletedWhole == Spec => CompletedIsWhole
  <1> DEFINE Whole ==
        \A r \in Request :
          status'[r] = "completed" /\ status[r] # "completed" /\ engine[r] # "llama"
            => verdict[r] = "ok" /\ shown[r] = produced[r]
  <1>1. Inv /\ [Next]_vars => [Whole]_vars
    <2> SUFFICES ASSUME Inv, Next, NEW q \in Request, status'[q] = "completed",
                        status[q] # "completed", engine[q] # "llama"
                 PROVE  verdict[q] = "ok" /\ shown[q] = produced[q]
      OBVIOUS
    <2> USE DEF Inv, Typed
    <2>1. PICK r \in Request : Acts(r)
      BY NextIs, WorkerStaysTyped DEF Driver, Quiet, chat
    <2>2. q = r
      BY <2>1, OthersRows
    <2>3. ChatStep(q)
      BY <2>1, <2>2 DEF Acts, User, StartChat, StartRefused, Stop, Begin, TakeTokenFails, CallStep,
           Clock, Quiet, chat
    <2>4. SettleCompleted(q) \/ \E s \in {"completed", "failed", "cancelled"} : LlamaEnds(q, s)
      BY <2>3 DEF ChatStep, StreamCancelled, StreamEnds, StreamLate, TakeToken, JoinTimesOut,
           SettleLate, SettleCancelled, SettleRetry, SettleFinal, SettleFailed, Settle, Finalize,
           RetryCpu, Begin, FallBack, LlamaFails, HandleError, End, ChatTyped
    <2> QED BY <2>4 DEF SettleCompleted, Answered, Joined, LlamaEnds, LeavesAreComplete, Announced
  <1> QED BY <1>1, InvHolds, PTL DEF Spec, CompletedIsWhole

\* A chat starts an attempt only when the command of the one before is
\* neither queued nor running (native_chat_router.rs).
THEOREM AttemptsDoNotMeet == Spec => OneAttemptAtATime
  <1> DEFINE Alone ==
        \A r \in Request :
          call'[r] = "spawned" /\ call[r] # "spawned"
            => r \notin Queued /\ job # r /\ call[r] \in {"none", "returned"}
  <1>1. Inv /\ [Next]_vars => [Alone]_vars
    <2> SUFFICES ASSUME Inv, Next, NEW q \in Request, call'[q] = "spawned", call[q] # "spawned"
                 PROVE  q \notin Queued /\ job # q /\ call[q] \in {"none", "returned"}
      OBVIOUS
    <2> USE DEF Inv, Typed
    <2>1. UNCHANGED call \/ \E r \in Request : Acts(r)
      BY NextIs DEF WorkerStep, SeeShutdown, LoopTop, RecvShutdown, RecvGenerate,
          SkipGone, KeepModel, EvictModel, LoadModel, LoadFails, StartNative, NativeEnds,
          CallbackStops, CallbackSends, PushToken, PushFails, FinishGone, Finish, NativeReturns,
          Answer, Exit, calls, Driver, Hang
    <2>2. PICK r \in Request : Acts(r)
      BY <2>1
    <2>3. q = r
      BY <2>2, OthersRows
    <2>4. ~CallStep(q)
      BY DEF CallStep, Enter, Send, SendRefused, ReceiveAnswer, SeeDisconnect, StartGrace,
           GraceEnds, GiveUp, Return, calls, CallsTyped
    <2>5. StartChat(q) \/ RetryCpu(q)
      BY <2>2, <2>3, <2>4 DEF Acts, User, StartRefused, Stop, Clock, DeadlinePasses, TakeTokenFails,
           ChatStep, StreamCancelled, StreamEnds, StreamLate, TakeToken, JoinTimesOut,
           SettleLate, SettleCancelled, SettleCompleted, SettleRetry, SettleFinal, SettleFailed,
           Settle, FallBack, LlamaFails, LlamaEnds, HandleError, End, supervisorVars, calls
    <2> QED BY <2>5 DEF StartChat, RetryCpu, CommandsKnown, Left
  <1> QED BY <1>1, InvHolds, PTL DEF Spec, OneAttemptAtATime

-----------------------------------------------------------------------------
(* The promise                                                             *)

\* A message is decided when its command fails or ends; another engine is
\* only tried while nothing was shown.
UnderWay ==
    \A r \in Request :
        /\ spc[r] \notin {"error", "ended"} => status[r] = "streaming"
        /\ spc[r] = "error" => status[r] \in {"streaming", "failed"}
        /\ spc[r] \in {"retry", "llama"} => shown[r] = 0

LEMMA UnderWayInit == Init => UnderWay
  BY DEF Init, UnderWay

\* What a chat does itself changes its own row only.
LEMMA ActsKeepUnderWay ==
    ASSUME NEW r \in Request, Inv, UnderWay, Acts(r)
    PROVE  UnderWay'
  <1> USE DEF Inv, Typed, ChatTyped, CountsTyped, UnderWay
  <1>1. CASE StartChat(r) \/ RetryCpu(r)
    BY <1>1 DEF StartChat, RetryCpu, Begin, Goto
  <1>2. CASE StartRefused(r) \/ Stop(r) \/ Clock(r) \/ CallStep(r)
    <2>1. UNCHANGED <<status, shown>> /\ (UNCHANGED spc \/ (spc[r] = "idle" /\ Goto(r, "error")))
      BY <1>2 DEF StartRefused, Stop, Clock, CallStep, Quiet, chat
    <2> QED BY <2>1 DEF Goto
  <1>3. CASE TakeToken(r) \/ TakeTokenFails(r)
    BY <1>3 DEF TakeToken, TakeTokenFails, Goto
  <1>4. CASE StreamCancelled(r) \/ StreamEnds(r) \/ StreamLate(r)
    BY <1>4 DEF StreamCancelled, StreamEnds, StreamLate, Goto
  <1>5. CASE JoinTimesOut(r) \/ SettleLate(r) \/ SettleFailed(r)
    BY <1>5 DEF JoinTimesOut, SettleLate, SettleFailed, Answered, Joined, Settle, Finalize, Goto
  <1>6. CASE SettleRetry(r) \/ SettleFinal(r) \/ FallBack(r) \/ LlamaFails(r)
    BY <1>6 DEF SettleRetry, SettleFinal, FallBack, LlamaFails, Answered, Joined, Settle, Goto
  <1>7. CASE \/ SettleCancelled(r) \/ SettleCompleted(r) \/ HandleError(r)
             \/ \E s \in {"completed", "failed", "cancelled"} : LlamaEnds(r, s)
    BY <1>7 DEF SettleCancelled, SettleCompleted, HandleError, LlamaEnds, End, Goto
  <1> QED BY <1>1, <1>2, <1>3, <1>4, <1>5, <1>6, <1>7 DEF Acts, User, ChatStep

LEMMA UnderWayStays == Inv /\ UnderWay /\ [Next]_vars => UnderWay'
  <1> SUFFICES ASSUME Inv, UnderWay, [Next]_vars PROVE UnderWay'
    OBVIOUS
  <1>1. CASE WorkerStep \/ Driver \/ UNCHANGED vars
    <2>1. UNCHANGED chat
      BY <1>1, WorkerStaysTyped DEF Inv, Typed, Driver, Quiet, vars
    <2> QED BY <2>1 DEF chat, UnderWay
  <1> QED BY <1>1, ActsKeepUnderWay, NextIs

Phases == [q \in Request |-> Phase(q)]

LEMMA PhaseTurns ==
    ASSUME NEW r \in Request, ChatTyped,
           NEW x \in {"idle", "stream", "join", "retry", "llama", "error", "ended"}, Goto(r, x),
           NEW p, p = CASE x = "idle" -> "new" [] x = "stream" -> "open"
                        [] x = "ended" -> "over" [] OTHER -> "closed"
    PROVE  Phases' = [Phases EXCEPT ![r] = p]
  <1>1. spc' = [spc EXCEPT ![r] = x]
    BY DEF Goto
  <1>2. Phase(r)' = p
    BY <1>1 DEF ChatTyped, Phase
  <1>3. \A q \in Request : q # r => Phase(q)' = Phase(q)
    BY <1>1 DEF ChatTyped, Phase
  <1> QED BY <1>2, <1>3 DEF Phases

\* Every step of a chat, of its call and of the clock is one of the promise.
LEMMA ActsAnswer ==
    ASSUME NEW r \in Request, Inv, UnderWay, Acts(r)
    PROVE  [Answers!Next]_(Answers!vars)
  <1> USE DEF Inv, Typed, ChatTyped, CountsTyped
  <1>0. /\ Phases[r] = Phase(r)
        /\ UNCHANGED <<Phases, engine, produced, shown, stopped, status, dones>>
             => UNCHANGED Answers!vars
    BY DEF Phases, Answers!vars
  <1>1. CASE StartChat(r)
    <2>1. spc[r] = "idle" /\ Goto(r, "stream") /\ engine' = engine
      BY <1>1 DEF StartChat, Begin
    <2>2. Phases' = [Phases EXCEPT ![r] = "open"] /\ Phase(r) = "new"
      BY <2>1, PhaseTurns DEF Phase
    <2> QED
      BY <1>0, <1>1, <2>1, <2>2
      DEF StartChat, Begin, Phases, Answers!Next, Answers!Start, Answers!Turn, Answers!Fresh
  <1>2. CASE StartRefused(r)
    <2>1. Phases' = [Phases EXCEPT ![r] = "closed"] /\ Phase(r) = "new"
      BY <1>2, PhaseTurns DEF StartRefused, Phase
    <2> QED
      BY <1>0, <1>2, <2>1
      DEF StartRefused, supervisorVars, channel, tokens, Phases, Answers!Next, Answers!Refuse,
          Answers!Turn
  <1>3. CASE Stop(r)
    <2>1. Phases' = Phases /\ Phase(r) \notin {"new", "over"}
      BY <1>3 DEF Stop, chat, Phases, Phase
    <2> QED
      BY <1>0, <1>3, <2>1 DEF Stop, chat, channel, Phases, Answers!Next, Answers!Stop
  <1>4. CASE Clock(r) \/ CallStep(r)
    <2>1. UNCHANGED <<spc, engine, produced, shown, stopped, status, dones>>
      BY <1>4 DEF Clock, DeadlinePasses, CallStep, Quiet, chat, Enter, Send, SendRefused,
         ReceiveAnswer, SeeDisconnect, StartGrace, GraceEnds, GiveUp, channel, tokens
    <2> QED BY <1>0, <2>1 DEF Phases, Phase
  <1>5. CASE TakeToken(r) \/ TakeTokenFails(r)
    <2>1. Phase(r) = "open" /\ shown[r] < produced[r]
      BY <1>5 DEF TakeToken, TakeTokenFails, Phase, TokensCounted
    <2>2. CASE TakeToken(r)
      BY <1>0, <2>1, <2>2
      DEF TakeToken, tokens, Phases, Phase, Answers!Next, Answers!Show, Answers!Seen
    <2>3. CASE TakeTokenFails(r)
      <3>1. Phases' = [Phases EXCEPT ![r] = "closed"]
        BY <2>3, PhaseTurns DEF TakeTokenFails
      <3> QED
        BY <1>0, <2>1, <2>3, <3>1
        DEF TakeTokenFails, Phases, Answers!Next, Answers!Close, Answers!Seen, Answers!Turn
    <2> QED BY <1>5, <2>2, <2>3
  <1>6. CASE StreamCancelled(r) \/ StreamEnds(r) \/ StreamLate(r)
    <2>1. /\ spc[r] = "stream" /\ Goto(r, "join")
          /\ UNCHANGED <<engine, produced, shown, stopped, status, dones>>
      BY <1>6 DEF StreamCancelled, StreamEnds, StreamLate, tokens
    <2>2. Phases' = [Phases EXCEPT ![r] = "closed"] /\ Phase(r) = "open"
      BY <2>1, PhaseTurns DEF Phase
    <2> QED
      BY <1>0, <2>1, <2>2 DEF Phases, Answers!Next, Answers!Close, Answers!Turn
  <1>7. CASE JoinTimesOut(r) \/ SettleLate(r) \/ SettleFailed(r)
    <2>1. /\ spc[r] = "join" /\ Goto(r, "error") /\ Finalize(r, "failed")
          /\ UNCHANGED <<engine, produced, shown, stopped>>
      BY <1>7 DEF JoinTimesOut, SettleLate, SettleFailed, Answered, Joined, Settle, supervisorVars,
         channel, tokens
    <2>2. Phase(r) = "closed" /\ status[r] = "streaming" /\ Phases' = Phases
      BY <2>1 DEF Goto, Phases, Phase, UnderWay
    <2> QED
      BY <1>0, <2>1, <2>2
      DEF Finalize, Phases, Answers!Next, Answers!FailEarly, Answers!Announce
  <1>8. CASE SettleRetry(r) \/ SettleFinal(r) \/ LlamaFails(r)
    <2>1. /\ spc[r] \in {"join", "llama"} /\ (Goto(r, "retry") \/ Goto(r, "error"))
          /\ UNCHANGED <<engine, produced, shown, stopped, status, dones>>
      BY <1>8 DEF SettleRetry, SettleFinal, LlamaFails, Answered, Joined, Settle, supervisorVars,
         channel, tokens
    <2>2. Phases' = Phases
      BY <2>1 DEF Goto, Phases, Phase
    <2> QED BY <1>0, <2>1, <2>2
  <1>9. CASE RetryCpu(r)
    <2>1. /\ spc[r] = "retry" /\ engine[r] = "gpu" /\ Begin(r, "cpu") /\ Goto(r, "stream")
      BY <1>9 DEF RetryCpu, Begin
    <2>2. /\ Phases' = [Phases EXCEPT ![r] = "open"] /\ Phase(r) = "closed"
          /\ shown[r] = 0 /\ status[r] = "streaming"
      BY <2>1, PhaseTurns DEF Phase, UnderWay
    <2> QED
      BY <1>0, <2>1, <2>2
      DEF Begin, Phases, Answers!Next, Answers!Retry, Answers!Turn, Answers!Fresh
  <1>10. CASE FallBack(r)
    <2>1. /\ spc[r] = "retry" /\ engine[r] = "cpu" /\ Goto(r, "llama")
          /\ engine' = [engine EXCEPT ![r] = "llama"]
          /\ UNCHANGED <<produced, shown, stopped, status, dones>>
      BY <1>10 DEF FallBack, supervisorVars, channel, tokens
    <2>2. /\ Phases' = Phases /\ Phase(r) = "closed" /\ shown[r] = 0 /\ status[r] = "streaming"
      BY <2>1 DEF Goto, Phases, Phase, UnderWay
    <2> QED
      BY <1>0, <2>1, <2>2 DEF Phases, Answers!Next, Answers!Retry
  <1>11. ASSUME NEW s \in {"completed", "cancelled", "failed"}, End(r, s),
                spc[r] \in {"join", "llama", "error"},
                s = "completed" => /\ status[r] = "streaming" /\ ~stopped[r]
                                   /\ engine[r] = "llama" \/ shown[r] = produced[r],
                s = "failed" => ~stopped[r]
         PROVE  Answers!Next
    <2>1. Goto(r, "ended") /\ engine' = engine
      BY <1>11 DEF End
    <2>2. /\ Phases' = [Phases EXCEPT ![r] = "over"] /\ Phase(r) = "closed"
          /\ status[r] \in {"streaming", "failed"}
      BY <1>11, <2>1, PhaseTurns DEF Phase, UnderWay
    <2>3. /\ status' = [status EXCEPT ![r] = s] /\ dones' = [dones EXCEPT ![r] = @ + 1]
          /\ stopped' = [stopped EXCEPT ![r] = TRUE]
          /\ shown' = [shown EXCEPT ![r] = 0] /\ produced' = [produced EXCEPT ![r] = 0]
      BY <1>11 DEF End
    <2> QED
      BY <1>0, <1>11, <2>1, <2>2, <2>3
      DEF Phases, Answers!Next, Answers!End, Answers!MayComplete, Answers!Announce, Answers!Turn,
          Answers!Fresh
  <1>12. CASE SettleCancelled(r)
    BY <1>11, <1>12 DEF SettleCancelled, Joined
  <1>13. CASE SettleCompleted(r)
    <2>1. spc[r] = "join" /\ ~Cancelled(r) /\ End(r, "completed")
      BY <1>13 DEF SettleCompleted, Answered, Joined
    <2> QED BY <1>11, <2>1 DEF LeavesAreComplete, UnderWay, Cancelled
  <1>14. CASE HandleError(r)
    BY <1>11, <1>14 DEF HandleError
  <1>15. CASE \E s \in {"completed", "failed", "cancelled"} : LlamaEnds(r, s)
    BY <1>11, <1>15 DEF LlamaEnds, Announced, UnderWay
  <1> QED
    BY <1>1, <1>2, <1>3, <1>4, <1>5, <1>6, <1>7, <1>8, <1>9, <1>10, <1>12, <1>13, <1>14, <1>15
    DEF Acts, User, ChatStep

LEMMA WorkerAnswers ==
    ASSUME Inv, WorkerStep
    PROVE  [Answers!Next]_(Answers!vars)
  <1>1. UNCHANGED chat
    BY WorkerStaysTyped DEF Inv, Typed
  <1>2. Phases' = Phases
    BY <1>1 DEF chat, Phases, Phase
  <1>3. CASE PushToken
    <2>1. job \in Request /\ Phases[job] = "open"
      BY <1>3 DEF Inv, Typed, WorkerHolds, AtWork, PushToken, TokensCounted, Phases, Phase
    <2>2. produced' = [produced EXCEPT ![job] = @ + 1] /\ stopped' = stopped
      BY <1>3 DEF PushToken, tokens
    <2> QED
      BY <1>1, <1>2, <2>1, <2>2 DEF chat, Phases, Answers!Next, Answers!Make
  <1>4. CASE ~PushToken
    <2>1. UNCHANGED <<produced, stopped>>
      BY <1>4 DEF WorkerStep, SeeShutdown, LoopTop, RecvShutdown, RecvGenerate, SkipGone, KeepModel,
         EvictModel, LoadModel, StartNative, LoadFails, NativeEnds, CallbackStops, CallbackSends,
         PushFails, FinishGone, Finish, NativeReturns, Answer, Exit, channel, tokens
    <2> QED BY <1>1, <1>2, <2>1 DEF chat, Phases, Answers!vars
  <1> QED BY <1>3, <1>4

\* The chats implement the promise to their users, whatever the threads, the
\* clocks, the driver and Stop do: no answer is mixed from two engines, none
\* is completed in part or after Stop, and an end stays
\* (native_chat_router.rs, native_stream.rs, inference_legacy.rs).
THEOREM ChatsAnswer == Spec => ImplementsChatAnswers
  <1>1. Init => Answers!Init
    <2> SUFFICES ASSUME Init PROVE Answers!Init
      OBVIOUS
    <2>1. Phases = [r \in Request |-> "new"]
      BY DEF Init, Phases, Phase
    <2> QED BY <2>1 DEF Init, SupervisorInit, Phases, Answers!Init
  <1>2. Inv /\ UnderWay /\ [Next]_vars => [Answers!Next]_(Answers!vars)
    <2> SUFFICES ASSUME Inv, UnderWay, [Next]_vars PROVE [Answers!Next]_(Answers!vars)
      OBVIOUS
    <2>1. CASE Driver \/ UNCHANGED vars
      BY <2>1 DEF Driver, Quiet, Hang, vars, supervisorVars, channel, tokens, chat, Phase,
         Answers!vars
    <2> QED BY <2>1, ActsAnswer, WorkerAnswers, NextIs
  <1>3. Spec => []UnderWay
    BY UnderWayInit, UnderWayStays, InvHolds, PTL DEF Spec
  <1> QED BY <1>1, <1>2, <1>3, InvHolds, PTL DEF Spec, ImplementsChatAnswers, Answers!Spec

=============================================================================

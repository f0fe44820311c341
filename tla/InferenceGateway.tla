-------------------------- MODULE InferenceGateway --------------------------
(***************************************************************************)
(* The HTTP gateway with the native backend (services/inference-api): the  *)
(* handlers of chats and of readiness probes (gateway.go, native.go), the  *)
(* client that owns the one worker process and its pipes (client.go), the  *)
(* worker as its pipes show it (services/native-worker/src/main.rs) and    *)
(* the shutdown of the service (cmd/openmind-api/main.go).                 *)
(*                                                                         *)
(* A worker process bears the name of the request that started it: one     *)
(* request starts at most one.  A token is the request it is about and its *)
(* place in the answer.                                                    *)
(***************************************************************************)
EXTENDS Naturals, Sequences

CONSTANTS
    ChatRequests, Probes,  \* the requests ever made, by handler
    Streams,        \* chats with "stream": true
    Length,         \* the number of tokens of the whole answer to a chat
    Main, None

Requests == ChatRequests \cup Probes

ASSUME GatewayAssumption ==
    /\ ChatRequests \cap Probes = {} /\ Streams \subseteq ChatRequests
    /\ Length \in [ChatRequests -> Nat]
    /\ {Main, None} \cap Requests = {} /\ Main # None

VARIABLES
    pc, failed,     \* the locals of a handler: where it is, err # nil
    received,       \* the tokens handed to its callback
    answer,         \* whether its client was told 200 or [DONE] in the end
    over,           \* the requests whose context is done
    watch,          \* the requests whose context.AfterFunc is registered
    slot,           \* Gateway::slots
    gate,           \* Client::gate
    cmd,            \* Client::cmd
    ready, sequence, closed,
    process,        \* the state of every worker process
    job,            \* the request it works on, as its id and what is emitted
    stdin, stdout,  \* its pipes
    main            \* the main goroutine

handler == <<pc, failed, received, answer>>
context == <<over, watch>>
client  == <<gate, cmd, ready, sequence, closed>>
worker  == <<process, job, stdin, stdout>>
gatewayVars == <<handler, context, slot, client, worker, main>>

Idle == [id |-> 0, of |-> None, done |-> 0]

GatewayInit ==
    /\ pc = [r \in Requests |-> "new"]
    /\ failed = [r \in Requests |-> FALSE]
    /\ received = [r \in ChatRequests |-> << >>]
    /\ answer = [r \in Requests |-> "none"]
    /\ over = {} /\ watch = {}
    /\ slot = None /\ gate = None /\ cmd = None
    /\ ready = FALSE /\ sequence = 0 /\ closed = FALSE
    /\ process = [p \in Requests |-> "none"]
    /\ job = [p \in Requests |-> Idle]
    /\ stdin = [p \in Requests |-> << >>]
    /\ stdout = [p \in Requests |-> << >>]
    /\ main = "serving"

Go(r, label) == pc' = [pc EXCEPT ![r] = label]
Fail(r)      == failed' = [failed EXCEPT ![r] = TRUE]

\* The handler returns: its locals and its context are dropped with it.
End(r, a) ==
    /\ Go(r, "end") /\ answer' = [answer EXCEPT ![r] = a]
    /\ failed' = [failed EXCEPT ![r] = FALSE]
    /\ received' = [q \in ChatRequests |-> IF q = r /\ a # "done" THEN << >>
                                   ELSE received[q]]
    /\ over' = over \ {r}
    /\ UNCHANGED watch

ContextDone(r) == r \in over
Running(p) == process[p] \in {"boot", "idle", "work", "killed"}

\* cmd.Process.Kill(): the process is gone some time later.
Killed(p) == [process EXCEPT ![p] = IF Running(p) THEN "killed" ELSE @]

-----------------------------------------------------------------------------
(* The handlers. *)

\* A chat whose body is sound goes for the slot.  A probe is answered at once
\* when a handshake is on record.
Arrive(r) ==
    /\ pc[r] = "new" /\ main = "serving"
    /\ \/ r \in ChatRequests /\ Go(r, "queue")
          /\ UNCHANGED <<failed, received, answer, context>>
       \/ r \in Probes /\ ~ready /\ Go(r, "gate")
          /\ UNCHANGED <<failed, received, answer, context>>
       \/ r \in Probes /\ ready /\ End(r, "done")
    /\ UNCHANGED <<slot, client, worker, main>>

\* The slot is free: a chat takes it, or is refused by decodeNative and gives
\* it back at once.
TakeSlot(r) ==
    /\ pc[r] = "queue" /\ slot = None
    /\ \/ slot' = r /\ Go(r, "gate")
          /\ UNCHANGED <<failed, received, answer, context>>
       \/ End(r, "failed") /\ UNCHANGED slot
    /\ UNCHANGED <<client, worker, main>>

\* The queue timeout, or the client is gone.
LeaveQueue(r) ==
    /\ pc[r] = "queue"
    /\ End(r, "failed")
    /\ UNCHANGED <<slot, client, worker, main>>

\* withProcess has returned: the last message of the answer, which may not
\* get through, and the slot is given back.
LastWord(r) ==
    IF failed[r] THEN {"failed"}
    ELSE IF r \in Streams THEN {"done", "failed"} ELSE {"done"}

\* Mutant: whoever answers empties the slot, a probe too.
ReleaseAnyway(r) == slot' = None

Release(r) == slot' = IF slot = r THEN None ELSE slot

Answer(r) ==
    /\ pc[r] = "answer"
    /\ \E a \in LastWord(r) : End(r, a)
    /\ Release(r)
    /\ UNCHANGED <<client, worker, main>>

-----------------------------------------------------------------------------
(* Client::withProcess. *)

TakeGate(r) ==
    /\ pc[r] = "gate" /\ gate = None
    /\ gate' = r /\ Go(r, "check")
    /\ UNCHANGED <<failed, received, answer, context, slot, cmd, ready,
                   sequence, closed, worker, main>>

LeaveGate(r) ==
    /\ pc[r] = "gate" /\ ContextDone(r)
    /\ Fail(r) /\ Go(r, "answer")
    /\ UNCHANGED <<received, answer, context, slot, client, worker, main>>

\* Mutant: closed is not looked at under the gate.
MayUseClosed(r) == ~ContextDone(r)

MayUse(r) == ~ContextDone(r) /\ ~closed

\* Under the gate: the context and closed are looked at once more.
TurnedAway(r) ==
    /\ pc[r] = "check" /\ ~MayUse(r)
    /\ gate' = None /\ Fail(r) /\ Go(r, "answer")
    /\ UNCHANGED <<received, answer, context, slot, cmd, ready, sequence,
                   closed, worker, main>>

\* Mutant: nothing is registered with context.AfterFunc.
ProceedUnwatched(r) ==
    UNCHANGED watch /\ Go(r, IF ready THEN "use" ELSE "greet")

Proceed(r) ==
    /\ watch' = watch \cup {r}
    /\ Go(r, IF ready THEN "use" ELSE "greet")

KeepProcess(r) ==
    /\ pc[r] = "check" /\ MayUse(r) /\ cmd # None
    /\ Proceed(r)
    /\ UNCHANGED <<failed, received, answer, over, slot, client,
                   worker, main>>

StartProcess(r) ==
    /\ pc[r] = "check" /\ MayUse(r) /\ cmd = None
    /\ \/ /\ process' = [process EXCEPT ![r] = "boot"] /\ cmd' = r
          /\ Proceed(r) /\ UNCHANGED <<failed, gate>>
       \/ /\ gate' = None /\ Fail(r) /\ Go(r, "answer")
          /\ UNCHANGED <<process, cmd, watch>>
    /\ UNCHANGED <<received, answer, over, slot, ready, sequence,
                   closed, job, stdin, stdout, main>>

\* Client::read: the next event, or the end of the output.
Readable == stdout[cmd] # << >>
AtEnd    == stdout[cmd] = << >> /\ process[cmd] = "gone"
Consume  == stdout' = [stdout EXCEPT ![cmd] = Tail(@)]

Greet(r) ==
    /\ pc[r] = "greet"
    /\ \/ /\ Readable /\ Consume
          /\ IF Head(stdout[cmd]).type = "ready"
             THEN ready' = TRUE /\ Go(r, "use") /\ UNCHANGED failed
             ELSE Fail(r) /\ Go(r, "unwind") /\ UNCHANGED ready
       \/ AtEnd /\ Fail(r) /\ Go(r, "unwind") /\ UNCHANGED <<ready, stdout>>
    /\ UNCHANGED <<received, answer, context, slot, gate, cmd, sequence,
                   closed, process, job, stdin, main>>

\* A probe has nothing more to do; a chat writes its frame.
Use(r) ==
    /\ pc[r] = "use"
    /\ IF r \in Probes
       THEN Go(r, "unwind") /\ UNCHANGED <<sequence, stdin, failed>>
       ELSE /\ sequence' = sequence + 1
            /\ IF Running(cmd)
               THEN /\ stdin' = [stdin EXCEPT ![cmd] =
                                     Append(@, [id |-> sequence', of |-> r])]
                    /\ Go(r, "read") /\ UNCHANGED failed
               ELSE Fail(r) /\ Go(r, "unwind") /\ UNCHANGED stdin
    /\ UNCHANGED <<received, answer, context, slot, gate, cmd, ready, closed,
                   process, job, stdout, main>>

\* A token goes to the callback, which may fail: the connection of a stream is
\* slow or closed, a whole answer has grown too large.
ReadToken(r) ==
    /\ received' = [received EXCEPT ![r] =
           Append(@, [of |-> Head(stdout[cmd]).of, n |-> Head(stdout[cmd]).n])]
    /\ \/ UNCHANGED <<pc, failed>>
       \/ Fail(r) /\ Go(r, "unwind")

ReadEvent(r) ==
    LET event == Head(stdout[cmd]) IN
    /\ pc[r] = "read" /\ Readable /\ Consume
    /\ IF event.id = sequence /\ event.type = "token"
       THEN ReadToken(r)
       ELSE /\ Go(r, "unwind") /\ UNCHANGED received
            /\ IF event.id = sequence /\ event.type = "done"
               THEN UNCHANGED failed ELSE Fail(r)
    /\ UNCHANGED <<answer, context, slot, client, process, job, stdin, main>>

\* Mutant: the end of the output is taken for the end of the answer.
ReadEndIsDone(r) ==
    /\ pc[r] = "read" /\ AtEnd
    /\ Go(r, "unwind")
    /\ UNCHANGED <<failed, received, answer, context, slot, client, worker,
                   main>>

ReadEnd(r) ==
    /\ pc[r] = "read" /\ AtEnd
    /\ Fail(r) /\ Go(r, "unwind")
    /\ UNCHANGED <<received, answer, context, slot, client, worker, main>>

\* Mutant: only a context that is done costs the process.
SpoiledByContext(r) == ContextDone(r)

\* The deferred end: stop() or <-killed, then an error or a context that is
\* done costs the process.
Spoiled(r) == failed[r] \/ ContextDone(r)

Unwind(r) ==
    /\ pc[r] = "unwind"
    /\ watch' = watch \ {r}
    /\ failed' = [failed EXCEPT ![r] = Spoiled(r)]
    /\ IF Spoiled(r)
       THEN /\ ready' = FALSE /\ process' = Killed(cmd)
            /\ Go(r, "reap") /\ UNCHANGED gate
       ELSE gate' = None /\ Go(r, "answer") /\ UNCHANGED <<ready, process>>
    /\ UNCHANGED <<received, answer, over, slot, cmd, sequence, closed,
                   job, stdin, stdout, main>>

\* Mutant: reset() does not wait for the process.
ReapedAtOnce == TRUE

Reaped == cmd # None => process[cmd] = "gone"

\* reset() from cmd.Wait() on: the pipes are closed.
Forget ==
    /\ cmd' = None /\ gate' = None
    /\ stdin' = [p \in Requests |-> IF p = cmd THEN << >> ELSE stdin[p]]
    /\ stdout' = [p \in Requests |-> IF p = cmd THEN << >> ELSE stdout[p]]

Reap(r) ==
    /\ pc[r] = "reap" /\ Reaped
    /\ Forget /\ Go(r, "answer")
    /\ UNCHANGED <<failed, received, answer, context, slot, ready, sequence,
                   closed, process, job, main>>

-----------------------------------------------------------------------------
(* Contexts. *)

\* The client leaves or server.Close() cuts its connection, or the time is
\* over: generationTimeout of a chat that has the slot, readyTimeout of a probe.
ContextEnds(r) ==
    /\ pc[r] \notin {"new", "end"} /\ r \notin over
    /\ over' = over \cup {r}
    /\ UNCHANGED <<handler, watch, slot, client, worker, main>>

\* The function given to context.AfterFunc.
KillForContext(r) ==
    /\ r \in watch /\ ContextDone(r)
    /\ watch' = watch \ {r} /\ process' = Killed(cmd)
    /\ UNCHANGED <<handler, over, slot, client, job, stdin, stdout,
                   main>>

-----------------------------------------------------------------------------
(* The worker process p. *)

Emit(p, e) == stdout' = [stdout EXCEPT ![p] = Append(@, e)]
Event(p, type) == [id |-> job[p].id, type |-> type, of |-> job[p].of,
                   n |-> job[p].done + 1]

Handshake(p) ==
    /\ process[p] = "boot" /\ process' = [process EXCEPT ![p] = "idle"]
    /\ Emit(p, [Event(p, "ready") EXCEPT !.n = 0])
    /\ UNCHANGED <<job, stdin>>

TakeLine(p) ==
    /\ process[p] = "idle" /\ stdin[p] # << >>
    /\ process' = [process EXCEPT ![p] = "work"]
    /\ job' = [job EXCEPT ![p] = [id |-> Head(stdin[p]).id,
                                  of |-> Head(stdin[p]).of, done |-> 0]]
    /\ stdin' = [stdin EXCEPT ![p] = Tail(@)]
    /\ UNCHANGED stdout

EmitToken(p) ==
    /\ process[p] = "work" /\ job[p].done < Length[job[p].of]
    /\ Emit(p, Event(p, "token"))
    /\ job' = [job EXCEPT ![p].done = @ + 1]
    /\ UNCHANGED <<process, stdin>>

\* An unknown model, a refused request, a failed generation: at any point.
EmitLast(p) ==
    /\ process[p] = "work"
    /\ \/ job[p].done = Length[job[p].of] /\ Emit(p, Event(p, "done"))
       \/ Emit(p, Event(p, "error"))
    /\ process' = [process EXCEPT ![p] = "idle"]
    /\ job' = [job EXCEPT ![p] = Idle]
    /\ UNCHANGED stdin

\* It was killed, or it exits or crashes by itself.
Exit(p) ==
    /\ Running(p)
    /\ process' = [process EXCEPT ![p] = "gone"]
    /\ job' = [job EXCEPT ![p] = Idle]
    /\ UNCHANGED <<stdin, stdout>>

WorkerStep(p) ==
    /\ \/ Handshake(p) \/ TakeLine(p) \/ EmitToken(p) \/ EmitLast(p)
       \/ Exit(p)
    /\ UNCHANGED <<handler, context, slot, client, main>>

-----------------------------------------------------------------------------
(* The main goroutine. *)

\* SIGTERM: server.Shutdown closes the listener.
Terminate ==
    /\ main = "serving" /\ main' = "draining"
    /\ UNCHANGED <<handler, context, slot, client, worker>>

\* Shutdown has seen every connection idle, or ShutdownTimeout is over and
\* server.Close cuts the rest: their contexts end (ContextEnds) some time later.
ShutdownEnds ==
    /\ main = "draining" /\ main' = "closing"
    /\ UNCHANGED <<handler, context, slot, client, worker>>

\* Client::Close.
Close ==
    /\ main = "closing" /\ gate = None
    /\ main' = "reaping" /\ gate' = Main /\ closed' = TRUE /\ ready' = FALSE
    /\ process' = IF cmd = None THEN process ELSE Killed(cmd)
    /\ UNCHANGED <<handler, context, slot, cmd, sequence, job, stdin, stdout>>

CloseReaps ==
    /\ main = "reaping" /\ Reaped
    /\ main' = "closed" /\ Forget
    /\ UNCHANGED <<handler, context, slot, ready, sequence, closed, process,
                   job>>

\* main() returns: the handlers that are left end with the program.
MainReturns ==
    /\ main = "closed" /\ main' = "exited"
    /\ UNCHANGED <<handler, context, slot, client, worker>>

-----------------------------------------------------------------------------
HandlerStep(r) ==
    \/ TakeSlot(r) \/ LeaveQueue(r) \/ Answer(r)
    \/ TakeGate(r) \/ LeaveGate(r) \/ TurnedAway(r) \/ KeepProcess(r)
    \/ StartProcess(r) \/ Greet(r) \/ Use(r) \/ ReadEvent(r) \/ ReadEnd(r)
    \/ Unwind(r) \/ Reap(r)

MainStep == ShutdownEnds \/ Close \/ CloseReaps \/ MainReturns

GatewayNext ==
    /\ main # "exited"
    /\ \/ Terminate \/ MainStep
       \/ \E r \in Requests : \/ Arrive(r) \/ HandlerStep(r)
                              \/ ContextEnds(r) \/ KillForContext(r)
                              \/ WorkerStep(r)

GatewaySpec == GatewayInit /\ [][GatewayNext]_gatewayVars

\* Goroutines go on when they can, timers run out, a killed process dies.  A
\* worker that was not killed may do nothing for ever, a client may stay.
Fairness ==
    /\ \A r \in Requests :
         /\ WF_gatewayVars(HandlerStep(r) /\ main # "exited")
         /\ WF_gatewayVars(ContextEnds(r) /\ pc[r] # "queue" /\ main # "exited")
         /\ WF_gatewayVars(KillForContext(r) /\ main # "exited")
         /\ WF_gatewayVars(process[r] = "killed" /\ WorkerStep(r) /\ main # "exited")
    /\ WF_gatewayVars(MainStep /\ main # "exited")

GatewayFairSpec == GatewaySpec /\ Fairness

-----------------------------------------------------------------------------
Whole(r) == [n \in 1..Length[r] |-> [of |-> r, n |-> n]]

\* What reaches a client is about its own request, in order and without gaps;
\* 200 or [DONE] ends an answer only when it is whole; and a handler that
\* reads finds no event of an earlier exchange in the pipe.  (client.go:63:
\* "A cancelled request destroys its process so no queued tokens or wedged
\* native call can contaminate the following request.")
AnswersAreTheirOwn ==
    /\ \A r \in ChatRequests :
         /\ Len(received[r]) <= Length[r]
         /\ \A n \in 1..Len(received[r]) : received[r][n] = Whole(r)[n]
         /\ answer[r] = "done" => received[r] = Whole(r)
         /\ pc[r] = "read" =>
              \A i \in 1..Len(stdout[cmd]) : stdout[cmd][i].id = sequence

\* Two workers never live at once, whoever cancels, dies or starts anew, and
\* none is left alive or started once Close has returned.
OneWorker ==
    /\ \A p, q \in Requests : Running(p) /\ Running(q) => p = q
    /\ main \in {"closed", "exited"} => \A p \in Requests : ~Running(p)

\* The gateway implements the promise that chats are answered one after the
\* other, each by its own tokens, and completed by the last of them (slots,
\* gateway.go:36, and the callback of Generate, native.go:103).
Serial == INSTANCE SerialAnswers WITH
            serving <- slot,
            told    <- received,
            ended   <- [r \in ChatRequests |-> answer[r]]

ImplementsSerialAnswers == Serial!Spec

\* Every request ends, although its worker hangs, another request is before
\* it at the slot or the gate, or the service shuts down; and the shutdown
\* itself ends.
EveryExchangeEnds ==
    /\ \A r \in Requests :
         (pc[r] # "new") ~> (pc[r] = "end" \/ main = "exited")
    /\ (main = "draining") ~> (main = "exited")

=============================================================================

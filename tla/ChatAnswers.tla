---------------------------- MODULE ChatAnswers ----------------------------
(***************************************************************************)
(* What the user of a chat is promised, without threads, queue, channels   *)
(* and clocks: the answer is of one engine, and another one is only tried  *)
(* while nothing was shown; a completed answer was shown whole; a chat     *)
(* that was stopped ends as cancelled; the end is announced, and final.    *)
(***************************************************************************)
EXTENDS Naturals

CONSTANT Request  \* the chats

VARIABLES
    phase,        \* "new", "open" while an engine answers, "closed", "over"
    engine,       \* the engine that is tried
    made, shown,  \* tokens that it made, and that the user saw
    stopped,      \* the user pressed Stop, or the chat is over
    status, told  \* of the message; how often its end was announced

vars == <<phase, engine, made, shown, stopped, status, told>>

Init ==
    /\ phase = [r \in Request |-> "new"]
    /\ engine \in [Request -> {"gpu", "cpu"}]
    /\ made = [r \in Request |-> 0] /\ shown = [r \in Request |-> 0]
    /\ stopped = [r \in Request |-> FALSE]
    /\ status = [r \in Request |-> "streaming"]
    /\ told = [r \in Request |-> 0]

Turn(r, p) == phase' = [phase EXCEPT ![r] = p]
Fresh(r)   == made' = [made EXCEPT ![r] = 0] /\ shown' = [shown EXCEPT ![r] = 0]

Start(r) ==
    /\ phase[r] = "new" /\ Turn(r, "open") /\ Fresh(r)
    /\ UNCHANGED <<engine, stopped, status, told>>

Refuse(r) ==
    /\ phase[r] = "new" /\ Turn(r, "closed")
    /\ UNCHANGED <<engine, made, shown, stopped, status, told>>

Make(r) ==
    /\ phase[r] = "open" /\ made' = [made EXCEPT ![r] = @ + 1]
    /\ UNCHANGED <<phase, engine, shown, stopped, status, told>>

Seen(r) == shown[r] < made[r] /\ shown' = [shown EXCEPT ![r] = @ + 1]

Show(r) ==
    /\ phase[r] = "open" /\ Seen(r)
    /\ UNCHANGED <<phase, engine, made, stopped, status, told>>

\* Perhaps over the last token that was shown.
Close(r) ==
    /\ phase[r] = "open" /\ Turn(r, "closed")
    /\ UNCHANGED shown \/ Seen(r)
    /\ UNCHANGED <<engine, made, stopped, status, told>>

\* Nothing of the answer was shown: the next engine is tried.
Retry(r) ==
    /\ phase[r] = "closed" /\ shown[r] = 0 /\ status[r] = "streaming"
    /\ \/ /\ engine[r] = "gpu" /\ engine' = [engine EXCEPT ![r] = "cpu"]
          /\ Turn(r, "open") /\ Fresh(r)
       \/ /\ engine[r] = "cpu" /\ engine' = [engine EXCEPT ![r] = "llama"]
          /\ UNCHANGED <<phase, made, shown>>
    /\ UNCHANGED <<stopped, status, told>>

Stop(r) ==
    /\ phase[r] \notin {"new", "over"} /\ ~stopped[r]
    /\ stopped' = [stopped EXCEPT ![r] = TRUE]
    /\ UNCHANGED <<phase, engine, made, shown, status, told>>

Announce(r, s) ==
    /\ status' = [status EXCEPT ![r] = s]
    /\ told' = [told EXCEPT ![r] = @ + 1]

\* The failure is announced before the command is over.
FailEarly(r) ==
    /\ phase[r] = "closed" /\ status[r] = "streaming" /\ Announce(r, "failed")
    /\ UNCHANGED <<phase, engine, made, shown, stopped>>

\* The tokens of llama-server are not counted.
MayComplete(r) == ~stopped[r] /\ (engine[r] = "llama" \/ shown[r] = made[r])

End(r) ==
    /\ phase[r] = "closed" /\ Turn(r, "over")
    /\ \/ status[r] = "streaming" /\ MayComplete(r) /\ Announce(r, "completed")
       \/ status[r] \in {"streaming", "failed"} /\ Announce(r, "cancelled")
       \/ status[r] \in {"streaming", "failed"} /\ ~stopped[r] /\ Announce(r, "failed")
    /\ stopped' = [stopped EXCEPT ![r] = TRUE] /\ Fresh(r)
    /\ UNCHANGED engine

Next == \E r \in Request :
    Start(r) \/ Refuse(r) \/ Make(r) \/ Show(r) \/ Close(r) \/ Retry(r)
    \/ Stop(r) \/ FailEarly(r) \/ End(r)

Spec == Init /\ [][Next]_vars
=============================================================================

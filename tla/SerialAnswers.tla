--------------------------- MODULE SerialAnswers ---------------------------
(***************************************************************************)
(* What the clients of the gateway are promised, without slot timeouts,    *)
(* processes and pipes: chats are served one at a time, the one that is    *)
(* served is told its own answer token by token, and "done" is only said   *)
(* to a chat that was told all of it.  Any chat may be dropped instead.    *)
(***************************************************************************)
EXTENDS Naturals, Sequences

CONSTANTS
    ChatRequests,
    Length,      \* the number of tokens of the whole answer to a chat
    None

VARIABLES
    serving,     \* the chat that is served
    told,        \* the tokens a chat was told
    ended        \* how it ended

vars == <<serving, told, ended>>

Init ==
    /\ serving = None
    /\ told = [r \in ChatRequests |-> << >>]
    /\ ended = [r \in ChatRequests |-> "none"]

Take(r) ==
    /\ serving = None /\ ended[r] = "none"
    /\ serving' = r
    /\ UNCHANGED <<told, ended>>

Tell(r) ==
    /\ serving = r /\ Len(told[r]) < Length[r]
    /\ told' = [told EXCEPT ![r] = Append(@, [of |-> r, n |-> Len(@) + 1])]
    /\ UNCHANGED <<serving, ended>>

Complete(r) ==
    /\ serving = r /\ Len(told[r]) = Length[r]
    /\ serving' = None /\ ended' = [ended EXCEPT ![r] = "done"]
    /\ UNCHANGED told

\* Whoever is dropped keeps nothing of what it was told.
Drop(r) ==
    /\ ended[r] = "none" /\ ended' = [ended EXCEPT ![r] = "failed"]
    /\ told' = [told EXCEPT ![r] = << >>]
    /\ serving' = IF serving = r THEN None ELSE serving

Next == \E r \in ChatRequests : Take(r) \/ Tell(r) \/ Complete(r) \/ Drop(r)

Spec == Init /\ [][Next]_vars
=============================================================================

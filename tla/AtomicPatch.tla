---------------------------- MODULE AtomicPatch ----------------------------
(***************************************************************************)
(* What a caller of apply_patch_transaction is promised, without the       *)
(* journal: a transaction is opened on a set of files, and either all of   *)
(* them take their new content in one step or none of them ever does.  The *)
(* reply "ok" is only given to a transaction that took effect, the reply   *)
(* "failed" only to one that did not; after a crash there is no reply.     *)
(***************************************************************************)

CONSTANTS
  Path,       \* the files a transaction names
  Content     \* what a file can hold, the value for "no such file" included

VARIABLES
  workspace,  \* the content of every file, as the next recovery leaves it
  goal,       \* the content the open transaction wants
  status,     \* where the open transaction is
  reply       \* what the last transaction told its caller

vars == <<workspace, goal, status, reply>>

TypeOK ==
  /\ workspace \in [Path -> Content]
  /\ goal \in [Path -> Content]
  /\ status \in {"closed", "open", "committed"}
  /\ reply \in {"none", "ok", "failed", "lost"}

Init ==
  /\ workspace \in [Path -> Content]
  /\ goal \in [Path -> Content]
  /\ status = "closed"
  /\ reply = "none"

Open ==
  /\ status = "closed"
  /\ goal' \in [Path -> Content]
  /\ status' = "open"
  /\ reply' = "none"
  /\ UNCHANGED workspace

Commit ==
  /\ status = "open"
  /\ workspace' = goal
  /\ status' = "committed"
  /\ UNCHANGED <<goal, reply>>

Finish ==
  /\ status = "committed"
  /\ status' = "closed"
  /\ reply' \in {"ok", "lost"}
  /\ UNCHANGED <<workspace, goal>>

Abandon ==
  /\ status = "open"
  /\ status' = "closed"
  /\ reply' \in {"failed", "lost"}
  /\ UNCHANGED <<workspace, goal>>

(* A call that opens nothing (it is refused, or dies in recovery) only      *)
(* replaces the reply; it never says "ok".                                 *)
Refuse ==
  /\ status = "closed"
  /\ reply' \in {"none", "failed", "lost"}
  /\ UNCHANGED <<workspace, goal, status>>

Next == Open \/ Commit \/ Finish \/ Abandon \/ Refuse

Spec == Init /\ [][Next]_vars
=============================================================================

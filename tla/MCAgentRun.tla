----------------------------- MODULE MCAgentRun -----------------------------
(* Instances of AgentRun: every action of the model is named after its kind. *)
EXTENDS AgentRun

MCKind == [a \in Actions |-> a]

=============================================================================

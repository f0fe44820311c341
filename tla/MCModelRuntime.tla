---------------------------- MODULE MCModelRuntime ----------------------------
(* Instances of ModelRuntime: a chat "a", a chat "b" of the same model with  *)
(* another context size, and a reader "r" or a preload "p".                  *)
EXTENDS ModelRuntime

MCPlanOf(c) == CASE c = "a" -> [model |-> "m1", context |-> 1]
                 [] c = "b" -> [model |-> "m1", context |-> 2]
                 [] c = "p" -> [model |-> "m1", context |-> 1]
                 [] c = "r" -> [model |-> "m2", context |-> 1]

MCWant == [c \in Caller |-> MCPlanOf(c)]
=============================================================================

------------------------- MODULE MCInferenceGateway -------------------------
(* A streamed chat of two tokens, a whole one of one token, a probe. *)
EXTENDS InferenceGateway

CONSTANTS s1, w1

MCLength == [r \in {s1, w1} |-> IF r = s1 THEN 2 ELSE 1]
=============================================================================

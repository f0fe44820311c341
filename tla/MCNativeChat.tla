---------------------------- MODULE MCNativeChat ----------------------------
(* Instances of NativeChat: two conversations on one model, with GPU or not. *)
EXTENDS NativeChat

MCOneModel   == [r \in Request |-> "m1"]
MCGpuPlanned == {"a"}
=============================================================================

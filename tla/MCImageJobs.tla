---------------------------- MODULE MCImageJobs ----------------------------
(* Instances of ImageJobs: two images, in one conversation or in two, and  *)
(* a video in the conversation of the first.                               *)
EXTENDS ImageJobs

CONSTANTS i1, i2, v1, c1, c2

MCApart    == [j \in Jobs |-> IF j = i2 THEN c2 ELSE c1]
MCTogether == [j \in Jobs |-> c1]
=============================================================================

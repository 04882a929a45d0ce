------------------------ MODULE MCCommComputeOverlap ------------------------
(***************************************************************************)
(* Chunks of up to two MoE layers, with and without the tag on the last.   *)
(***************************************************************************)
EXTENDS CommComputeOverlap

UpToTwoLayers == 0 .. 2
UpToOneLayer == 0 .. 1
=============================================================================

---------------------------- MODULE MCNvmeQueues ----------------------------
(* Instances of NvmeQueues for TLC. *)
EXTENDS NvmeQueues
=============================================================================

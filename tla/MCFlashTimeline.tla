--------------------------- MODULE MCFlashTimeline ---------------------------
(* An instance of FlashTimeline for TLC: the proportions of the latencies *)
(* and classes of an MLC drive, scaled down.                              *)
EXTENDS FlashTimeline

OperationDef == {"read", "write", "erase"}
DMA0Def == [read |-> 2, write |-> 5, erase |-> 1]
MEMDef  == [read |-> 3, write |-> 6, erase |-> 24]
DMA1Def == [read |-> 4, write |-> 1, erase |-> 1]
=============================================================================

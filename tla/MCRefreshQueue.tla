--------------------------- MODULE MCRefreshQueue ---------------------------
(***************************************************************************)
(* Instances of RefreshQueue for TLC.                                      *)
(***************************************************************************)
EXTENDS RefreshQueue, TLC
=============================================================================

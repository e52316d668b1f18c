-------------------------- MODULE MCHotColdMapping --------------------------
(* Instances of HotColdMapping for TLC. *)
EXTENDS HotColdMapping

CONSTANTS d1, d2
=============================================================================

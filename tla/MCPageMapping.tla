--------------------------- MODULE MCPageMapping ---------------------------
(***************************************************************************)
(* Instances of PageMapping for TLC.                                       *)
(***************************************************************************)
EXTENDS PageMapping, TLC

CONSTANTS d1, d2

Symmetry == Permutations(Data)

NoFormat  == {}
AnyFormat == (SUBSET LPN) \ {{}}
=============================================================================

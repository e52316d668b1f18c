------------------------------- MODULE Lists -------------------------------
(***************************************************************************)
(* Lists in the order of a set of numbers, and lists without some of their *)
(* members.  These are loops of the code over a container; they are        *)
(* written so that they can be reasoned about, which SortSeq and SelectSeq *)
(* do not allow.                                                           *)
(***************************************************************************)
EXTENDS Integers, FiniteSets

(* The members of a finite set of numbers, the smallest first *)
Ascending(S) ==
    CHOOSE s \in [1 .. Cardinality(S) -> S] : \A i, j \in DOMAIN s : i < j => s[i] < s[j]

(* A list without the members of S: the others stay in their order. *)
Without(list, S) ==
    LET kept == Ascending({i \in DOMAIN list : list[i] \notin S})
    IN  [k \in DOMAIN kept |-> list[kept[k]]]
=============================================================================

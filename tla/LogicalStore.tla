---------------------------- MODULE LogicalStore ----------------------------
(***************************************************************************)
(* What the flash translation layer promises to the layers above it: an    *)
(* array of logical pages, each of which holds, for every I/O unit, the    *)
(* datum of the last write that covered the unit, or nothing.  There are   *)
(* no blocks, no garbage collection and no refresh here: those may only    *)
(* stutter at this level.                                                  *)
(***************************************************************************)

CONSTANTS
    LPN,          \* logical page numbers
    Unit,         \* I/O units of a logical page
    Data,         \* what a host may store in a unit
    Absent,       \* the content of a unit that was never written, or trimmed
    FormatRanges  \* sets of logical pages the host may format

VARIABLE store    \* store[l][u]: what a read of unit u of page l returns

Blank == [u \in Unit |-> Absent]

Init == store = [l \in LPN |-> Blank]

(* A write replaces the units its I/O map names and no other. *)
Write(l, io, d) ==
    store' = [store EXCEPT ![l] = [u \in Unit |-> IF u \in io THEN d ELSE @[u]]]

(* A trim forgets the whole page, whatever its I/O map. *)
Trim(l) == store' = [store EXCEPT ![l] = Blank]

Format(range) ==
    store' = [l \in LPN |-> IF l \in range THEN Blank ELSE store[l]]

Next ==
    \/ \E l \in LPN, io \in (SUBSET Unit) \ {{}}, d \in Data : Write(l, io, d)
    \/ \E l \in LPN : Trim(l)
    \/ \E range \in FormatRanges : Format(range)

Spec == Init /\ [][Next]_store
=============================================================================

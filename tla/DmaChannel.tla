----------------------------- MODULE DmaChannel -----------------------------
(***************************************************************************)
(* What the users of a DMAInterface (dmaRead(), dmaWrite()) rely on: every *)
(* request is finished exactly once, in the order of the requests, and its *)
(* function may ask for the next one.                                      *)
(***************************************************************************)
EXTENDS Naturals, Sequences

CONSTANT MaxRequests     \* bound of the model

VARIABLES
    submitted,       \* number of requests so far, which are 1 .. submitted
    delivered        \* requests whose function was called, in order

vars == <<submitted, delivered>>

Init == submitted = 0 /\ delivered = <<>>

Deliver ==
    /\ Len(delivered) < submitted
    /\ delivered' = Append(delivered, Len(delivered) + 1)

MaySubmit == submitted' \in {submitted, submitted + 1} /\ submitted' <= MaxRequests

Next ==
    \/ MaySubmit /\ UNCHANGED delivered
    \/ Deliver /\ MaySubmit

(* Every request at most once, and in order *)
Safety == Init /\ [][Next]_vars

(* and nothing is left waiting. *)
Spec == Safety /\ WF_vars(Deliver /\ MaySubmit)
=============================================================================

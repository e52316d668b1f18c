----------------------------- MODULE MCHostPath -----------------------------
(* Instances of HostPath for TLC. *)
EXTENDS HostPath

CONSTANTS MaxLines, MaxTick, Ops

(* Every trace of at most MaxLines lines whose ticks do not decrease. *)
MCTraces ==
    {t \in BoundedSeq([tick : 0 .. MaxTick, op : Ops], MaxLines) :
        \A i, j \in DOMAIN t : i < j => t[i].tick <= t[j].tick}
=============================================================================

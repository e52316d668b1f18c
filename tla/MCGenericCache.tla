--------------------------- MODULE MCGenericCache ---------------------------
(* Instances of GenericCache for TLC. *)
EXTENDS GenericCache

(* The whole drive, a page, a line, and as many lines as a page has that   *)
(* begin inside one.                                                       *)
SomeRanges ==
    {[slpn |-> 0, nlp |-> Lines], [slpn |-> 0, nlp |-> Units],
     [slpn |-> Lines - 1, nlp |-> 1], [slpn |-> 1, nlp |-> Units]}

(* Every combination of the caches with two sets of one line; reading      *)
(* ahead together with a write cache, whose dirty lines it replaces.  One  *)
(* set of two lines, where a line could be cached twice, with both caches. *)
SomeConfigurations ==
    {c \in [readCache : BOOLEAN, writeCache : BOOLEAN, prefetch : BOOLEAN,
            evictMode : {"all", "superpage"}, sets : {1, 2}, ways : {1, 2}] :
        /\ c.prefetch => c.readCache /\ c.writeCache /\ c.evictMode = "all"
        /\ c.evictMode = "superpage" => c.writeCache
        /\ c.sets * c.ways = 2
        /\ c.ways = 2 => c.readCache /\ c.writeCache /\ ~c.prefetch /\ c.evictMode = "all"}
=============================================================================

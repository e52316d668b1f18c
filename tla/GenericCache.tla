---------------------------- MODULE GenericCache ----------------------------
(***************************************************************************)
(* The internal cache layer (simplessd/icl): a set-associative cache of    *)
(* logical lines in front of the FTL.  ICL splits a request into lines and *)
(* hands them over one by one; all calls run on one thread, so that a call *)
(* is one action, except that a read miss fills the lines it reads ahead   *)
(* one after the other.                                                    *)
(*                                                                         *)
(* The simulator keeps no contents.  The model gives a line the content of *)
(* the last write to it, and the FTL the content of what it was told to    *)
(* write, to ask whether the right data is in the right place.  The order  *)
(* of insertion and access is left out: every policy may pick any line,    *)
(* as POLICY_RANDOM does.                                                  *)
(***************************************************************************)
EXTENDS Integers, FiniteSets

CONSTANTS
    Units,            \* lineCountInSuperPage
    Parallel,         \* parallelIO
    Lines,            \* lines of the drive
    Data,             \* contents
    Ranges,           \* ranges of flushes, trims and formats: the first
                      \* line and the number of lines
    Configurations,   \* values of EnableReadCache, EnableWriteCache,
                      \* EnableReadPrefetch, EvictMode, setSize and waySize
    None, Stray       \* content of a line that was not written; of a line
                      \* the FTL was told to change with another one

MaxIO == Units * Parallel

(* The drive holds whole pages. *)
ASSUME CacheAssumption ==
    /\ {Units, Parallel, Lines} \subseteq Nat \ {0}
    /\ Lines % Units = 0
    /\ Ranges \subseteq {r \in [slpn : Nat, nlp : Nat \ {0}] : r.slpn + r.nlp <= Lines}
    /\ Configurations \subseteq
          [readCache : BOOLEAN, writeCache : BOOLEAN, prefetch : BOOLEAN,
           evictMode : {"all", "superpage"}, sets : Nat \ {0}, ways : Nat \ {0}]
    /\ None \notin Data /\ Stray \notin Data /\ None # Stray

VARIABLES
    conf,           \* the configuration of this run
    cacheData,      \* the lines
    detect,         \* readDetect.enabled and the line read last
    prefetchTrigger, lastPrefetched,
    fill,           \* the range a read miss still has to look at
    readList,       \* lines to be read from the FTL, and where to
    evictData,      \* lines to be written to the FTL
    ftl,            \* contents of the FTL
    panic           \* a check of the code failed

vars == <<conf, cacheData, detect, prefetchTrigger, lastPrefetched, fill,
          readList, evictData, ftl, panic>>
prefetch == <<detect, prefetchTrigger, lastPrefetched>>
reading == <<fill, readList, evictData>>

LCA == 0 .. Lines - 1
(* A read ahead does not stop at the end of the drive. *)
ReadLCA == 0 .. Lines - 1 + 2 * MaxIO
Slot == (0 .. conf.sets - 1) \X (0 .. conf.ways - 1)
Content == Data \cup {None, Stray}
NoLCA == -1
Idle == [from |-> 0, to |-> 0]

-----------------------------------------------------------------------------
calcSetIndex(lca) == lca % conf.sets

(* calcIOPosition(): row and column of evictData. *)
calcIOPosition(lca) == <<(lca % MaxIO) % Units, (lca % MaxIO) \div Units>>

(* getValidWay(): the slots of the line's set that hold it. *)
getValidWay(lca) ==
    {s \in Slot : /\ s[1] = calcSetIndex(lca)
                  /\ cacheData[s].valid /\ cacheData[s].tag = lca}

(* getEmptyWay(): the oldest empty slot of a set, any in the model. *)
getEmptyWay(set) == {s \in Slot : s[1] = set /\ ~cacheData[s].valid}

(* Contents of the FTL after it is told to write unit flags of the page of *)
(* lca: only for lca itself there is data.                                 *)
FTLWrite(store, lca, flags, d) ==
    [x \in LCA |-> IF x = lca THEN d
                   ELSE IF x \div Units = lca \div Units /\ x % Units \in flags
                   THEN Stray
                   ELSE store[x]]

(* Mutant: the slots stay in use. *)
EvictedLinesKept(S, flush) ==
    [s \in Slot |-> [cacheData[s] EXCEPT !.dirty = @ /\ s \notin S]]

(* evictCache(): the dirty lines among the slots S are written, all become *)
(* clean and, if flush says so, empty.                                     *)
EvictedLines(S, flush) ==
    [s \in Slot |->
        IF s \notin S THEN cacheData[s]
        ELSE IF flush
        THEN [valid |-> FALSE, dirty |-> FALSE, tag |-> 0, data |-> None]
        ELSE [cacheData[s] EXCEPT !.dirty = FALSE]]

(* Mutant: the lines are dropped without a write. *)
EvictedStoreDropped(S, store) == store

EvictedStore(S, store) ==
    [x \in LCA |->
        LET w == {s \in S : /\ cacheData[s].valid /\ cacheData[s].dirty
                            /\ cacheData[s].tag = x}
        IN  IF w = {} THEN store[x] ELSE cacheData[CHOOSE s \in w : TRUE].data]

-----------------------------------------------------------------------------
(* checkSequential(): reads that continue one another switch read ahead on *)
(* after enough of them, how many is a matter of configuration; another    *)
(* read switches it off.                                                   *)
checkSequential(lca) ==
    \E on \in BOOLEAN :
        /\ on => detect.enabled \/ lca \in {detect.last, detect.last + 1}
        /\ detect' = [enabled |-> on, last |-> lca]

(* The range of a miss at lca, or of a prefetch that begins there: all     *)
(* planes or the lines of a page, as prefetchMode and bSuperPage say.      *)
ReadAhead(lca, enabled) ==
    \E n \in IF enabled THEN {MaxIO, Units} ELSE {1} :
        /\ fill' = [from |-> lca, to |-> lca + n]
        /\ prefetchTrigger' = IF enabled THEN lca + n \div 2
                              ELSE prefetchTrigger
        /\ lastPrefetched' = IF enabled THEN lca + n ELSE lastPrefetched

(* read(): a hit may trigger a prefetch, a miss reads at least its line.   *)
(* Without read caching the FTL is asked.                                  *)
ReadHit(lca) ==
    /\ getValidWay(lca) # {}
    /\ IF conf.prefetch /\ lca = prefetchTrigger
       THEN ReadAhead(lastPrefetched, detect'.enabled)
       ELSE UNCHANGED <<fill, prefetchTrigger, lastPrefetched>>

ReadMiss(lca) ==
    /\ getValidWay(lca) = {}
    /\ ReadAhead(lca, detect'.enabled)

read(lca) ==
    /\ fill = Idle /\ ~panic
    /\ conf.readCache
    /\ IF conf.prefetch THEN checkSequential(lca) ELSE UNCHANGED detect
    /\ ReadHit(lca) \/ ReadMiss(lca)
    /\ UNCHANGED <<conf, cacheData, readList, evictData, ftl, panic>>

(* A turn of the first loop of a miss: find a slot for the next line of the *)
(* range.  A victim that is dirty is put on the list, and marked clean.     *)
FillNext == [fill EXCEPT !.from = @ + 1]

FillSkip ==
    /\ fill.from < fill.to
    /\ getValidWay(fill.from) # {}
    /\ fill' = FillNext
    /\ UNCHANGED <<conf, cacheData, prefetch, readList, evictData, ftl, panic>>

Claimed(s) == [cacheData EXCEPT ![s].valid = TRUE, ![s].dirty = FALSE]

FillSlot(s) ==
    LET set == calcSetIndex(fill.from)
        old == cacheData[s]
    IN  /\ fill.from < fill.to
        /\ getValidWay(fill.from) = {}
        /\ s[1] = set
        /\ IF getEmptyWay(set) # {}
           THEN s \in getEmptyWay(set) /\ UNCHANGED evictData
           ELSE evictData' = IF old.dirty
                    THEN [evictData EXCEPT ![calcIOPosition(old.tag)] = {s}]
                    ELSE evictData
        /\ cacheData' = Claimed(s)
        /\ readList' = readList \cup {[lca |-> fill.from, slot |-> s]}
        /\ fill' = FillNext
        /\ UNCHANGED <<conf, prefetch, ftl, panic>>

(* The end of a miss: evictCache(), then the second loop reads every line  *)
(* of the list into its slot; of two lines for one slot the later stays.   *)
FillEnd ==
    LET S == UNION {evictData[p] : p \in DOMAIN evictData}
        clean == EvictedLines(S, FALSE)
        store == EvictedStore(S, ftl)
        for(s) == {r \in readList : r.slot = s}
        last(s) == CHOOSE r \in for(s) : \A q \in for(s) : q.lca <= r.lca
    IN  /\ fill.from = fill.to /\ fill # Idle
        /\ ftl' = store
        /\ cacheData' = [s \in Slot |->
              IF for(s) = {} THEN clean[s]
              ELSE LET t == last(s).lca
                   IN  [clean[s] EXCEPT !.tag = t,
                          !.data = IF t \in LCA THEN store[t] ELSE None]]
        /\ fill' = Idle
        /\ readList' = {}
        /\ evictData' = [p \in DOMAIN evictData |-> {}]
        /\ UNCHANGED <<conf, prefetch, panic>>

-----------------------------------------------------------------------------
(* Mutant: the line is not written through. *)
WriteThroughNot(lca, d, whole) == ftl

(* write(): a whole line goes to the FTL at once; part of a line makes the *)
(* cached line dirty.                                                      *)
WriteThrough(lca, d, whole) ==
    IF whole THEN FTLWrite(ftl, lca, {lca % Units}, d) ELSE ftl

Written(lines, s, lca, d, dirty) ==
    [lines EXCEPT ![s] =
        [valid |-> TRUE, dirty |-> dirty, tag |-> lca, data |-> d]]

(* Mutant: an empty slot comes first. *)
WriteInPlaceEmpty(lca, d, whole) ==
    LET slots == IF getEmptyWay(calcSetIndex(lca)) # {} THEN getEmptyWay(calcSetIndex(lca))
                 ELSE getValidWay(lca)
    IN  /\ \E s \in slots : cacheData' = Written(cacheData, s, lca, d, ~whole)
        /\ ftl' = WriteThrough(lca, d, whole)
        /\ UNCHANGED panic

(* The line is cached, or its set has an empty slot. *)
WriteInPlace(lca, d, whole) ==
    LET slots == IF getValidWay(lca) # {} THEN getValidWay(lca)
                 ELSE getEmptyWay(calcSetIndex(lca))
    IN  /\ \E s \in slots : cacheData' = Written(cacheData, s, lca, d, ~whole)
        /\ ftl' = WriteThrough(lca, d, whole)
        /\ UNCHANGED panic

(* Otherwise one line for every position is evicted, or one for every row, *)
(* chosen among all sets; if none is of the set of lca, one of that set    *)
(* takes the place of the one at its position.                             *)
AtPosition(p) ==
    {s \in Slot : cacheData[s].valid /\ calcIOPosition(cacheData[s].tag) = p}

Region(p) ==
    IF conf.evictMode = "all" THEN AtPosition(p)
    ELSE IF p[2] = Parallel - 1
    THEN UNION {AtPosition(<<p[1], c>>) : c \in 0 .. Parallel - 1}
    ELSE {}

Position == (0 .. Units - 1) \X (0 .. Parallel - 1)

Chosen ==
    LET P == {p \in Position : Region(p) # {}}
    IN  {E \in [P -> Slot] : \A p \in P : E[p] \in Region(p)}

Evicted(E, set) ==
    IF \E p \in DOMAIN E : calcSetIndex(cacheData[E[p]].tag) = set
    THEN {{E[p] : p \in DOMAIN E}}
    ELSE {{s} \cup {E[p] : p \in DOMAIN E \ {calcIOPosition(cacheData[s].tag)}} :
            s \in {x \in Slot : x[1] = set /\ cacheData[x].valid}}

WriteEvict(lca, d, whole) ==
    LET set == calcSetIndex(lca)
    IN  /\ getValidWay(lca) = {} /\ getEmptyWay(set) = {}
        /\ \E E \in Chosen : \E S \in Evicted(E, set) :
              LET lines == EvictedLines(S, TRUE)
                  empty == {s \in Slot : s[1] = set /\ ~lines[s].valid}
              IN  /\ ftl' = EvictedStore(S, WriteThrough(lca, d, whole))
                  /\ IF empty = {}
                     THEN panic' = TRUE /\ cacheData' = lines
                     ELSE /\ \E s \in empty :
                                cacheData' = Written(lines, s, lca, d, TRUE)
                          /\ UNCHANGED panic

(* Without write caching the FTL is told in either case. *)
write(lca, d, whole) ==
    /\ fill = Idle /\ ~panic
    /\ \/ /\ conf.writeCache
          /\ WriteInPlace(lca, d, whole) \/ WriteEvict(lca, d, whole)
       \/ /\ ~conf.writeCache
          /\ ftl' = FTLWrite(ftl, lca, {lca % Units}, d)
          /\ UNCHANGED <<cacheData, panic>>
    /\ UNCHANGED <<conf, prefetch, reading>>

-----------------------------------------------------------------------------
(* flush() looks at the tag of every slot, in the order of the slots, and  *)
(* reuses one FTL request: its I/O map keeps the units of the lines before. *)
Before(s, t) == s[1] < t[1] \/ (s[1] = t[1] /\ s[2] <= t[2])

LinesOf(range) == range.slpn .. range.slpn + range.nlp - 1
InRange(s, range) == cacheData[s].tag \in LinesOf(range)
Flags(S, s) == {cacheData[t].tag % Units : t \in {u \in S : Before(u, s)}}

(* What the FTL holds after the slots S are written one after the other:   *)
(* the last write whose request covers x counts.                           *)
Flushed(S, x) ==
    LET W == {s \in S : /\ cacheData[s].tag \div Units = x \div Units
                        /\ x % Units \in Flags(S, s)}
        last == CHOOSE s \in W : \A t \in W : Before(t, s)
    IN  IF W = {} THEN ftl[x]
        ELSE IF cacheData[last].tag = x THEN cacheData[last].data
        ELSE Stray

(* A line that is neither valid nor dirty has no content. *)
Invalid(l) ==
    [l EXCEPT !.valid = FALSE, !.data = IF l.dirty THEN @ ELSE None]

Emptied(range) ==
    [s \in Slot |-> IF InRange(s, range) THEN Invalid(cacheData[s])
                    ELSE cacheData[s]]

Caching == conf.readCache \/ conf.writeCache

(* flush(): every dirty slot in the range is written, used or not. *)
flush(range) ==
    LET S == {s \in Slot : InRange(s, range) /\ cacheData[s].dirty}
    IN  /\ fill = Idle /\ ~panic
        /\ Caching
        /\ ftl' = [x \in LCA |-> Flushed(S, x)]
        /\ cacheData' = Emptied(range)
        /\ UNCHANGED <<conf, prefetch, reading, panic>>

(* trim(): the FTL is told about the lines that are in the cache, and trims *)
(* their whole pages.                                                       *)
trim(range) ==
    LET pages == {cacheData[s].tag \div Units : s \in {t \in Slot : InRange(t, range)}}
    IN  /\ fill = Idle /\ ~panic
        /\ Caching
        /\ ftl' = [x \in LCA |-> IF x \div Units \notin pages THEN ftl[x]
                                 ELSE IF x \in LinesOf(range) THEN None
                                 ELSE Stray]
        /\ cacheData' = Emptied(range)
        /\ UNCHANGED <<conf, prefetch, reading, panic>>

(* format(): the lines are dropped, and as many pages formatted as a range *)
(* of that length needs, from the page of its first line on: a range that  *)
(* begins inside a page may end in a page that is left as it is.           *)
format(range) ==
    LET first == range.slpn \div Units
        pages == first .. first + (range.nlp - 1) \div Units
    IN  /\ fill = Idle /\ ~panic
        /\ cacheData' = [s \in Slot |->
              IF Caching /\ InRange(s, range) THEN Invalid(cacheData[s])
              ELSE cacheData[s]]
        /\ ftl' = [x \in LCA |-> IF x \div Units \notin pages THEN ftl[x]
                                 ELSE IF x \in LinesOf(range) THEN None
                                 ELSE Stray]
        /\ UNCHANGED <<conf, prefetch, reading, panic>>

-----------------------------------------------------------------------------
Init ==
    /\ conf \in Configurations
    /\ cacheData = [s \in Slot |->
                      [valid |-> FALSE, dirty |-> FALSE, tag |-> 0,
                       data |-> None]]
    /\ detect = [enabled |-> FALSE, last |-> NoLCA]
    /\ prefetchTrigger = NoLCA
    /\ lastPrefetched = 0
    /\ fill = Idle
    /\ readList = {}
    /\ evictData = [p \in Position |-> {}]
    /\ ftl = [x \in LCA |-> None]
    /\ panic = FALSE

Next ==
    \/ \E lca \in LCA : read(lca)
    \/ FillSkip
    \/ \E s \in Slot : FillSlot(s)
    \/ FillEnd
    \/ \E lca \in LCA, d \in Data, whole \in BOOLEAN : write(lca, d, whole)
    \/ \E range \in Ranges : flush(range) \/ trim(range) \/ format(range)

Spec == Init /\ [][Next]_vars

-----------------------------------------------------------------------------
(* Properties. *)

(* The type of every variable. *)
TypeOK ==
    /\ conf \in Configurations
    /\ cacheData \in [Slot -> [valid : BOOLEAN, dirty : BOOLEAN,
                               tag : ReadLCA, data : Content]]
    /\ detect \in [enabled : BOOLEAN, last : LCA \cup {NoLCA}]
    /\ prefetchTrigger \in ReadLCA \cup {NoLCA}
    /\ lastPrefetched \in ReadLCA
    /\ fill.from <= fill.to
    /\ readList \subseteq [lca : ReadLCA, slot : Slot]
    /\ evictData \in [Position -> SUBSET Slot]
    /\ ftl \in [LCA -> Content]
    /\ panic \in BOOLEAN

(* Between two calls a line is cached once at most, and in its own set,    *)
(* although a miss claims slots before it gives them their tags.           *)
LinesUnique ==
    /\ TypeOK
    /\ fill = Idle =>
          \A s, t \in Slot :
              /\ cacheData[s].valid => s[1] = calcSetIndex(cacheData[s].tag)
              /\ cacheData[s].valid /\ cacheData[t].valid /\ s # t
                    => cacheData[s].tag # cacheData[t].tag

(* The eviction of a write always empties a slot of the set it needs:      *)
(* "Cache corrupted!" is never reached.                                    *)
NotCorrupted == ~panic

(* A clean line and the FTL agree, unless the FTL was told to change a line *)
(* nobody asked it to, which only happens when a page has several lines.    *)
(* Without write caching a write passes by a line that a read has cached.   *)
CleanLinesAgree ==
    fill = Idle /\ conf.writeCache =>
        \A s \in Slot :
            /\ cacheData[s].valid /\ ~cacheData[s].dirty
            /\ cacheData[s].tag \in LCA
            => ftl[cacheData[s].tag] \in {cacheData[s].data, Stray}

(* Another slot flushed after s, with a line of the same page: its request *)
(* covers the unit of s once more, and is what the FTL is left with.       *)
Overlaid(s, range) ==
    \E t \in Slot \ {s} :
        /\ Before(s, t) /\ cacheData[t].dirty /\ InRange(t, range)
        /\ cacheData[t].tag \div Units = cacheData[s].tag \div Units
        /\ ftl'[cacheData[s].tag] =
              IF cacheData[t].tag = cacheData[s].tag THEN cacheData[t].data
              ELSE Stray

(* A dirty line stays in its slot, or the slot gets a newer write of the   *)
(* line, or the FTL gets what it holds.  Otherwise a trim or a format gave *)
(* it up, or the flush that wrote it wrote its unit again.                 *)
DirtyKept ==
    \A s \in Slot :
        LET l == cacheData[s]
            n == cacheData'[s]
        IN  l.valid /\ l.dirty =>
                \/ n.valid /\ n.tag = l.tag
                   /\ (n.dirty \/ ftl'[l.tag] = n.data)
                \/ ftl'[l.tag] = l.data
                \/ \E range \in Ranges :
                      /\ InRange(s, range)
                      /\ \/ trim(range) /\ ftl'[l.tag] = None
                         \/ format(range)
                         \/ flush(range) /\ Overlaid(s, range)

(* With a write cache only, the evictions of a write, which choose among   *)
(* all sets, lose no dirty line, and a flush loses none but those whose    *)
(* page it writes again.  A flush leaves what it wrote dirty though no     *)
(* longer in use, so that a later flush may write an old copy of a line    *)
(* after the one in use.                                                   *)
WriteCacheKeepsData == [][~conf.readCache => DirtyKept]_vars
=============================================================================

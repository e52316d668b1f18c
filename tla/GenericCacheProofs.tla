------------------------- MODULE GenericCacheProofs -------------------------
(***************************************************************************)
(* Proofs about the internal cache layer.  Between two calls the lines of  *)
(* the cache are simple; in the middle of a read miss they are not, since  *)
(* the miss claims slots under their old tags and only then reads into     *)
(* them.  The invariant therefore speaks of the slots a miss has claimed   *)
(* (Taken) and of all the others.                                          *)
(***************************************************************************)
EXTENDS GenericCache, ListLemmas

CacheLine == [valid : BOOLEAN, dirty : BOOLEAN, tag : ReadLCA, data : Content]

(* The slots the running miss has claimed. *)
Taken == {r.slot : r \in readList}

(* A range stays within what a read ahead may reach: the trigger of the    *)
(* next prefetch is not far behind the last line prefetched.               *)
FillInv ==
    /\ fill \in [from : ReadLCA, to : ReadLCA]
    /\ lastPrefetched <= prefetchTrigger + MaxIO
    /\ fill = Idle => readList = {}
    /\ ~conf.readCache => fill = Idle

(* A line is read into one slot, which is in its set, in use and clean;    *)
(* only claimed slots are put on the list of lines to be evicted.          *)
ClaimInv ==
    /\ \A r \in readList :
          /\ r.lca < fill.from
          /\ r.slot[1] = calcSetIndex(r.lca)
          /\ cacheData[r.slot].valid /\ ~cacheData[r.slot].dirty
    /\ \A r, q \in readList : r.lca = q.lca => r = q
    /\ \A p \in Position : evictData[p] \subseteq Taken

DirtyOnDrive == \A s \in Slot : cacheData[s].dirty => cacheData[s].tag \in LCA

(* A slot that is not claimed and in use: in its own set, the only one     *)
(* with its line, no line of the running miss and, if clean, as the FTL    *)
(* has it.                                                                 *)
SlotSound(s) ==
    cacheData[s].valid =>
        /\ s[1] = calcSetIndex(cacheData[s].tag)
        /\ \A t \in Slot \ Taken :
              cacheData[t].valid /\ s # t => cacheData[s].tag # cacheData[t].tag
        /\ \A r \in readList : cacheData[s].tag # r.lca
        /\ conf.writeCache /\ ~cacheData[s].dirty /\ cacheData[s].tag \in LCA
              => ftl[cacheData[s].tag] \in {cacheData[s].data, Stray}

LinesSound == \A s \in Slot \ Taken : SlotSound(s)

CacheInv == TypeOK /\ FillInv /\ ClaimInv /\ DirtyOnDrive /\ LinesSound /\ ~panic

-----------------------------------------------------------------------------
(* Numbers *)

(* The numbers of a configuration are positive, and a drive has a line 0. *)
LEMMA Constants ==
    /\ Units \in Nat /\ Units > 0 /\ Parallel \in Nat /\ Parallel > 0
    /\ Lines \in Nat /\ Lines > 0
    /\ MaxIO \in Nat /\ MaxIO > 0 /\ Units <= MaxIO
    /\ LCA \subseteq Int /\ ReadLCA \subseteq Int /\ LCA \subseteq ReadLCA
    /\ 0 \in LCA
<1>1. /\ Units \in Nat /\ Units > 0 /\ Parallel \in Nat /\ Parallel > 0
      /\ Lines \in Nat /\ Lines > 0
  BY CacheAssumption
<1>2. Units * Parallel \in Nat /\ Units * Parallel >= Units * 1 /\ Units * 1 = Units
  BY <1>1
<1>3. MaxIO \in Nat /\ MaxIO > 0 /\ Units <= MaxIO
  BY <1>1, <1>2 DEF MaxIO
<1>4. QED
  BY <1>1, <1>3 DEF LCA, ReadLCA

(* A configuration has sets and ways, and its switches are Boolean. *)
LEMMA Conf ==
    ASSUME TypeOK
    PROVE  /\ conf.sets \in Nat /\ conf.sets > 0 /\ conf.ways \in Nat /\ conf.ways > 0
           /\ conf.readCache \in BOOLEAN /\ conf.writeCache \in BOOLEAN
           /\ conf.prefetch \in BOOLEAN
BY CacheAssumption DEF TypeOK

(* A line has a set. *)
LEMMA SetOfLine ==
    ASSUME TypeOK, NEW lca \in ReadLCA
    PROVE  calcSetIndex(lca) \in 0 .. conf.sets - 1
BY Conf, Constants, Remainder DEF calcSetIndex

(* A line has a row and a column in the list of lines to be evicted. *)
LEMMA PositionOfLine ==
    ASSUME NEW lca \in ReadLCA
    PROVE  calcIOPosition(lca) \in Position
<1> DEFINE m == lca % MaxIO
           c == m \div Units
           u == m % Units
           p == Units * c
<1>1. lca \in Int /\ Units \in Int /\ Units > 0 /\ MaxIO \in Int /\ MaxIO > 0
      /\ Parallel \in Int
  BY Constants
<1>2. m \in 0 .. MaxIO - 1
  BY <1>1, Remainder
<1> HIDE DEF m
<1>3. u \in 0 .. Units - 1 /\ c \in Int /\ p = m - u
  <2>1. m \in Int
    BY <1>1, <1>2
  <2> QED
    BY <1>1, <2>1, Remainder
<1> HIDE DEF u, c
<1>4. p \in Int
  BY <1>1, <1>3
<1>5. c >= 0
  <2>1. SUFFICES ASSUME c <= -1 PROVE FALSE
    BY <1>3
  <2>2. Units * c <= Units * (-1)
    BY <1>1, <1>3, <2>1
  <2>3. p <= -Units
    BY <1>1, <2>2
  <2> HIDE DEF p
  <2> QED
    BY <1>1, <1>2, <1>3, <1>4, <2>3
<1>6. c < Parallel
  <2>1. SUFFICES ASSUME c >= Parallel PROVE FALSE
    BY <1>1, <1>3
  <2>2. Units * c >= Units * Parallel
    BY <1>1, <1>3, <2>1
  <2>3. p >= MaxIO
    BY <2>2 DEF MaxIO
  <2> HIDE DEF p
  <2> QED
    BY <1>1, <1>2, <1>3, <1>4, <2>3
<1>7. QED
  BY <1>1, <1>3, <1>5, <1>6 DEF calcIOPosition, Position, m, c, u

(* Two lines at the same place of the same page are the same line. *)
LEMMA SameUnit ==
    ASSUME NEW x \in LCA, NEW y \in LCA, x \div Units = y \div Units, x % Units = y % Units
    PROVE  x = y
<1>1. /\ x \in Int /\ y \in Int
      /\ Units * (x \div Units) = x - (x % Units) /\ x % Units \in Int
      /\ Units * (y \div Units) = y - (y % Units) /\ y % Units \in Int
  BY Constants, Remainder
<1>2. QED
  BY <1>1

-----------------------------------------------------------------------------
(* Reads *)

(* An empty cache satisfies the invariant. *)
LEMMA InitInv ==
    ASSUME Init
    PROVE  CacheInv
<1>1. 0 \in ReadLCA /\ NoLCA \notin LCA /\ NoLCA + MaxIO >= 0
  BY Constants DEF NoLCA, LCA
<1>2. TypeOK
  <2>1. cacheData \in [Slot -> CacheLine]
    BY <1>1 DEF Init, CacheLine, Content
  <2>2. /\ readList \subseteq [lca : ReadLCA, slot : Slot]
        /\ evictData \in [Position -> SUBSET Slot]
        /\ ftl \in [LCA -> Content]
    BY DEF Init, Content
  <2>3. detect \in [enabled : BOOLEAN, last : LCA \cup {NoLCA}]
    BY DEF Init
  <2>4. fill.from <= fill.to
    <3>1. fill = [from |-> 0, to |-> 0]
      BY DEF Init, Idle
    <3> QED
      BY <3>1
  <2>5. panic \in BOOLEAN /\ conf \in Configurations
    BY Zenon DEF Init
  <2>6. prefetchTrigger \in ReadLCA \cup {NoLCA} /\ lastPrefetched \in ReadLCA
    BY <1>1 DEF Init
  <2> QED
    BY <2>1, <2>2, <2>3, <2>4, <2>5, <2>6 DEF TypeOK, CacheLine
<1>3. FillInv
  BY <1>1 DEF Init, FillInv, Idle
<1>4. ClaimInv
  BY DEF Init, ClaimInv
<1>5. DirtyOnDrive /\ LinesSound
  BY DEF Init, DirtyOnDrive, LinesSound, SlotSound
<1>6. QED
  BY <1>2, <1>3, <1>4, <1>5 DEF CacheInv, Init

(* What a read ahead from lca leaves. *)
LEMMA ReadAheadStep ==
    ASSUME CacheInv, NEW lca \in ReadLCA, lca <= Lines - 1 + MaxIO, NEW on \in BOOLEAN,
           ReadAhead(lca, on)
    PROVE  /\ fill' \in [from : ReadLCA, to : ReadLCA] /\ fill'.from <= fill'.to
           /\ fill' # Idle
           /\ prefetchTrigger' \in ReadLCA \cup {NoLCA} /\ lastPrefetched' \in ReadLCA
           /\ lastPrefetched' <= prefetchTrigger' + MaxIO
<1>1. PICK n \in IF on THEN {MaxIO, Units} ELSE {1} :
         /\ fill' = [from |-> lca, to |-> lca + n]
         /\ prefetchTrigger' = IF on THEN lca + n \div 2 ELSE prefetchTrigger
         /\ lastPrefetched' = IF on THEN lca + n ELSE lastPrefetched
  BY DEF ReadAhead
<1>2. n \in Nat /\ n > 0 /\ n <= MaxIO
  BY Constants
<1>3. n \div 2 \in Nat /\ n \div 2 <= n /\ n <= n \div 2 + MaxIO
  BY <1>2, Constants
<1>4. lca \in Nat /\ lca + n \in ReadLCA
  BY <1>2, Constants DEF ReadLCA
<1>5. fill' \in [from : ReadLCA, to : ReadLCA] /\ fill'.from <= fill'.to /\ fill' # Idle
  BY <1>1, <1>2, <1>4 DEF Idle
<1>6. CASE on
  <2> DEFINE h == n \div 2
  <2>1. prefetchTrigger' = lca + h /\ lastPrefetched' = lca + n
    BY <1>1, <1>6
  <2>2. h \in Nat /\ h <= n /\ n <= h + MaxIO
    BY <1>3
  <2> HIDE DEF h
  <2>3. lca + h \in ReadLCA /\ lca + n <= (lca + h) + MaxIO
    BY <1>2, <1>4, <2>2, Constants DEF ReadLCA
  <2> QED
    BY <1>4, <1>5, <2>1, <2>3
<1>7. CASE ~on
  BY <1>1, <1>5, <1>7 DEF CacheInv, TypeOK, FillInv
<1>8. QED
  BY <1>6, <1>7

(* read() begins a miss, with its read ahead, or hits. *)
LEMMA ReadInv ==
    ASSUME CacheInv, NEW lca \in LCA, read(lca)
    PROVE  CacheInv'
<1>1. /\ UNCHANGED <<conf, cacheData, readList, evictData, ftl, panic>>
      /\ fill = Idle /\ conf.readCache
      /\ IF conf.prefetch THEN checkSequential(lca) ELSE UNCHANGED detect
      /\ ReadHit(lca) \/ ReadMiss(lca)
  BY DEF read
<1>2. TypeOK /\ FillInv /\ readList = {}
  BY <1>1 DEF CacheInv, FillInv
<1>3. detect' \in [enabled : BOOLEAN, last : LCA \cup {NoLCA}]
  <2>1. CASE conf.prefetch
    <3>1. PICK on \in BOOLEAN : detect' = [enabled |-> on, last |-> lca]
      BY <1>1, <2>1 DEF checkSequential
    <3> QED
      BY <3>1
  <2>2. CASE ~conf.prefetch
    BY <1>1, <1>2, <2>2 DEF TypeOK
  <2> QED
    BY <2>1, <2>2
<1>4. detect'.enabled \in BOOLEAN
  BY <1>3
<1>5. /\ fill' \in [from : ReadLCA, to : ReadLCA] /\ fill'.from <= fill'.to
      /\ prefetchTrigger' \in ReadLCA \cup {NoLCA} /\ lastPrefetched' \in ReadLCA
      /\ lastPrefetched' <= prefetchTrigger' + MaxIO
  <2>1. CASE ReadMiss(lca)
    <3>1. lca \in ReadLCA /\ lca <= Lines - 1 + MaxIO
      BY Constants DEF LCA
    <3> QED
      BY <1>4, <2>1, <3>1, ReadAheadStep DEF ReadMiss
  <2>2. CASE ReadHit(lca) /\ conf.prefetch /\ lca = prefetchTrigger
    <3>1. lastPrefetched \in ReadLCA /\ lastPrefetched <= Lines - 1 + MaxIO
      BY <1>2, <2>2, Constants DEF TypeOK, FillInv, LCA, ReadLCA
    <3> QED
      BY <1>4, <2>2, <3>1, ReadAheadStep DEF ReadHit
  <2>3. CASE ReadHit(lca) /\ ~(conf.prefetch /\ lca = prefetchTrigger)
    BY <1>2, <2>3 DEF ReadHit, TypeOK, FillInv
  <2> QED
    BY <1>1, <2>1, <2>2, <2>3
<1>6. TypeOK'
  <2>1. Slot' = Slot
    BY <1>1 DEF Slot
  <2> QED
    BY <1>1, <1>2, <1>3, <1>5, <2>1 DEF TypeOK
<1>7. FillInv'
  BY <1>1, <1>2, <1>5 DEF FillInv
<1>8. ClaimInv' /\ DirtyOnDrive' /\ LinesSound' /\ ~panic'
  <2>1. ClaimInv'
    BY <1>1, <1>2 DEF CacheInv, ClaimInv, calcSetIndex, Taken
  <2>2. DirtyOnDrive'
    BY <1>1 DEF CacheInv, DirtyOnDrive, Slot
  <2>3. LinesSound'
    BY <1>1 DEF CacheInv, LinesSound, SlotSound, Slot, Taken, calcSetIndex
  <2> QED
    BY <1>1, <2>1, <2>2, <2>3 DEF CacheInv
<1>9. QED
  BY <1>6, <1>7, <1>8 DEF CacheInv

(* A turn of the first loop of a miss moves on by one line. *)
LEMMA NextLine ==
    ASSUME CacheInv, fill.from < fill.to, fill' = FillNext
    PROVE  /\ fill' \in [from : ReadLCA, to : ReadLCA] /\ fill'.from <= fill'.to
           /\ fill'.from = fill.from + 1 /\ fill' # Idle /\ fill # Idle
           /\ fill.from \in ReadLCA /\ fill.from \in Int
<1>1. fill \in [from : ReadLCA, to : ReadLCA]
  BY DEF CacheInv, FillInv
<1>2. /\ fill'.from = fill.from + 1 /\ fill'.to = fill.to
      /\ fill' = [from |-> fill.from + 1, to |-> fill.to]
  BY <1>1 DEF FillNext
<1>3. fill.from \in Nat /\ fill.to \in Nat /\ fill.from + 1 \in ReadLCA /\ fill.to \in ReadLCA
  BY <1>1, Constants DEF ReadLCA
<1>4. fill' # Idle /\ fill # Idle
  BY <1>2, <1>3 DEF Idle
<1>5. QED
  BY <1>1, <1>2, <1>3, <1>4

(* A line that is cached already is skipped. *)
LEMMA FillSkipInv ==
    ASSUME CacheInv, FillSkip
    PROVE  CacheInv'
<1>1. /\ UNCHANGED <<conf, cacheData, detect, prefetchTrigger, lastPrefetched, readList,
                     evictData, ftl, panic>>
      /\ fill.from < fill.to /\ fill' = FillNext
  BY DEF FillSkip, prefetch
<1>2. /\ fill' \in [from : ReadLCA, to : ReadLCA] /\ fill'.from <= fill'.to
      /\ fill'.from = fill.from + 1 /\ fill' # Idle /\ fill # Idle
      /\ fill.from \in ReadLCA /\ fill.from \in Int
  BY <1>1, NextLine
<1>3. Slot' = Slot /\ Taken' = Taken
  BY <1>1 DEF Slot, Taken
<1>4. TypeOK'
  BY <1>1, <1>2, <1>3 DEF CacheInv, TypeOK
<1>5. FillInv'
  BY <1>1, <1>2 DEF CacheInv, FillInv
<1>6. ClaimInv'
  <2>1. ASSUME NEW r \in readList PROVE r.lca < fill'.from
    <3>1. r.lca \in Int /\ r.lca < fill.from
      BY Constants DEF CacheInv, ClaimInv, TypeOK
    <3> QED
      BY <1>2, <3>1
  <2> QED
    BY <1>1, <1>3, <2>1 DEF CacheInv, ClaimInv, calcSetIndex
<1>7. DirtyOnDrive' /\ LinesSound' /\ ~panic'
  BY <1>1, <1>3 DEF CacheInv, DirtyOnDrive, LinesSound, SlotSound, calcSetIndex
<1>8. QED
  BY <1>4, <1>5, <1>6, <1>7 DEF CacheInv

(* A slot of its set is claimed for the next line of the miss, and is      *)
(* clean from then on.                                                     *)
LEMMA FillSlotInv ==
    ASSUME CacheInv, NEW s \in Slot, FillSlot(s)
    PROVE  CacheInv'
<1> DEFINE lca == fill.from
           new == [lca |-> lca, slot |-> s]
<1>1. /\ UNCHANGED <<conf, detect, prefetchTrigger, lastPrefetched, ftl, panic>>
      /\ fill.from < fill.to /\ fill' = FillNext
      /\ getValidWay(lca) = {} /\ s[1] = calcSetIndex(lca)
      /\ cacheData' = Claimed(s) /\ readList' = readList \cup {new}
  BY DEF FillSlot, prefetch
<1>2. /\ fill' \in [from : ReadLCA, to : ReadLCA] /\ fill'.from <= fill'.to
      /\ fill'.from = fill.from + 1 /\ fill' # Idle /\ fill # Idle
      /\ fill.from \in ReadLCA /\ fill.from \in Int
  BY <1>1, NextLine
<1>3. Slot' = Slot /\ Taken' = Taken \cup {s}
  <2>1. Slot' = Slot
    BY <1>1 DEF Slot
  <2>2. new.slot = s
    OBVIOUS
  <2>3. Taken' = Taken \cup {s}
    BY <1>1, <2>2, Zenon DEF Taken
  <2> QED
    BY <2>1, <2>3
<1>4. /\ cacheData \in [Slot -> CacheLine]
      /\ evictData \in [Position -> SUBSET Slot]
      /\ readList \subseteq [lca : ReadLCA, slot : Slot]
  BY DEF CacheInv, TypeOK, CacheLine
<1>5. /\ cacheData' \in [Slot -> CacheLine]
      /\ cacheData'[s].valid /\ ~cacheData'[s].dirty
      /\ \A t \in Slot : /\ t # s => cacheData'[t] = cacheData[t]
                         /\ cacheData'[t].tag = cacheData[t].tag
  BY <1>1, <1>4 DEF Claimed, CacheLine
<1>6. \/ evictData' = evictData
      \/ evictData' = [evictData EXCEPT ![calcIOPosition(cacheData[s].tag)] = {s}]
  BY DEF FillSlot
<1>7. /\ evictData' \in [Position -> SUBSET Slot]
      /\ \A p \in Position : evictData'[p] = evictData[p] \/ evictData'[p] = {s}
  <2>1. calcIOPosition(cacheData[s].tag) \in Position
    BY <1>4, PositionOfLine DEF CacheLine
  <2> QED
    BY <1>4, <1>6, <2>1
<1>8. TypeOK'
  <2>1. new \in [lca : ReadLCA, slot : Slot]
    BY <1>2
  <2>2. readList' \subseteq [lca : ReadLCA, slot : Slot]
    BY <1>1, <1>4, <2>1
  <2> QED
    BY <1>1, <1>2, <1>3, <1>5, <1>7, <2>2 DEF CacheInv, TypeOK, CacheLine
<1>9. FillInv'
  BY <1>1, <1>2 DEF CacheInv, FillInv
<1>10. ClaimInv'
  <2>1. \A r \in readList : r.lca \in Int /\ r.lca < lca /\ r.slot \in Slot
    BY <1>4, Constants DEF CacheInv, ClaimInv
  <2>2. ASSUME NEW r \in readList'
        PROVE  /\ r.lca < fill'.from
               /\ r.slot[1] = calcSetIndex(r.lca)'
               /\ cacheData'[r.slot].valid /\ ~cacheData'[r.slot].dirty
    <3>1. calcSetIndex(r.lca)' = calcSetIndex(r.lca)
      BY <1>1 DEF calcSetIndex
    <3>2. CASE r = new
      <4>1. r.lca = lca /\ r.slot = s
        BY <3>2
      <4>2. lca < fill'.from
        BY <1>2
      <4> QED
        BY <1>1, <1>5, <3>1, <4>1, <4>2, Zenon
    <3>3. CASE r \in readList
      <4>1. r.lca < fill'.from
        <5>1. r.lca \in Int /\ r.lca < fill.from
          BY <2>1, <3>3
        <5> QED
          BY <1>2, <5>1
      <4>2. r.slot[1] = calcSetIndex(r.lca)
        BY <3>3 DEF CacheInv, ClaimInv
      <4>3. cacheData'[r.slot].valid /\ ~cacheData'[r.slot].dirty
        BY <1>5, <2>1, <3>3 DEF CacheInv, ClaimInv
      <4> QED
        BY <3>1, <4>1, <4>2, <4>3
    <3> QED
      BY <1>1, <3>2, <3>3
  <2>3. ASSUME NEW r \in readList', NEW q \in readList', r.lca = q.lca
        PROVE  r = q
    <3>1. ASSUME NEW x \in readList PROVE x.lca # new.lca
      BY <1>2, <2>1, Constants
    <3>2. CASE r \in readList /\ q \in readList
      BY <2>3, <3>2 DEF CacheInv, ClaimInv
    <3> QED
      BY <1>1, <2>3, <3>1, <3>2
  <2>4. ASSUME NEW p \in Position PROVE evictData'[p] \subseteq Taken'
    BY <1>3, <1>7 DEF CacheInv, ClaimInv
  <2> QED
    BY <2>2, <2>3, <2>4 DEF ClaimInv
<1>11. DirtyOnDrive'
  BY <1>3, <1>5 DEF CacheInv, DirtyOnDrive
<1>12. LinesSound'
  <2> SUFFICES ASSUME NEW t \in Slot' \ Taken', cacheData'[t].valid
               PROVE  SlotSound(t)'
    BY DEF LinesSound, SlotSound
  <2>1. /\ t \in Slot \ Taken /\ t # s /\ cacheData'[t] = cacheData[t] /\ cacheData[t].valid
        /\ SlotSound(t)
    BY <1>3, <1>5 DEF CacheInv, LinesSound
  <2>2. t[1] = calcSetIndex(cacheData[t].tag)
    BY <2>1 DEF SlotSound
  <2>3. calcSetIndex(cacheData[t].tag)' = calcSetIndex(cacheData[t].tag)
    BY <1>1, <2>1 DEF calcSetIndex
  <2>4. ASSUME NEW u \in Slot' \ Taken', cacheData'[u].valid, t # u
        PROVE  cacheData'[t].tag # cacheData'[u].tag
    <3>1. u \in Slot \ Taken /\ cacheData'[u] = cacheData[u]
      BY <1>3, <1>5
    <3> QED
      BY <2>1, <2>4, <3>1 DEF SlotSound
  <2>5. cacheData[t].tag # lca
    <3> SUFFICES ASSUME cacheData[t].tag = lca PROVE FALSE
      OBVIOUS
    <3>1. t \in getValidWay(lca)
      BY <2>1, <2>2 DEF getValidWay
    <3> QED
      BY <1>1, <3>1
  <2>6. \A r \in readList' : cacheData'[t].tag # r.lca
    BY <1>1, <2>1, <2>5 DEF SlotSound
  <2>7. conf'.writeCache /\ ~cacheData'[t].dirty /\ cacheData'[t].tag \in LCA
            => ftl'[cacheData'[t].tag] \in {cacheData'[t].data, Stray}
    BY <1>1, <2>1 DEF SlotSound
  <2> QED
    BY <2>1, <2>2, <2>3, <2>4, <2>6, <2>7 DEF SlotSound
<1>13. QED
  BY <1>1, <1>8, <1>9, <1>10, <1>11, <1>12 DEF CacheInv

(* Of the lines that were to be read into one slot there is a last one. *)
LEMMA LastRead ==
    ASSUME CacheInv, NEW R, R \subseteq readList, R # {}
    PROVE  LET l == CHOOSE r \in R : \A q \in R : q.lca <= r.lca
           IN  l \in R
<1> DEFINE N == Lines - 1 + 2 * MaxIO
           T == {N - r.lca : r \in R}
<1>1. \A r \in R : r.lca \in 0 .. N
  BY DEF CacheInv, TypeOK, ReadLCA
<1>2. N \in Int
  BY Constants
<1> HIDE DEF N
<1>3. T \subseteq Nat
  BY <1>1, <1>2
<1>4. T # {}
  <2>1. PICK r \in R : TRUE
    OBVIOUS
  <2>2. N - r.lca \in T
    OBVIOUS
  <2> QED
    BY <2>2
<1>5. Min(T) \in T /\ \A y \in T : Min(T) <= y
  BY <1>3, <1>4, MinOfNat
<1>6. PICK r \in R : Min(T) = N - r.lca
  BY <1>5
<1>7. ASSUME NEW q \in R PROVE q.lca <= r.lca
  <2>1. N - r.lca <= N - q.lca
    BY <1>5, <1>6
  <2>2. r.lca \in Int /\ q.lca \in Int
    BY <1>1
  <2> QED
    BY <1>2, <2>1, <2>2
<1>8. QED
  BY <1>7

(* The end of a miss, slot by slot: what no line was read into stays, and  *)
(* nothing is written, since the claimed slots are clean.                  *)
LEMMA FillEndLines ==
    ASSUME CacheInv, FillEnd
    PROVE  /\ ftl' = ftl
           /\ cacheData' \in [Slot -> CacheLine]
           /\ \A s \in Slot \ Taken : cacheData'[s] = cacheData[s]
           /\ \A s \in Taken : \E r \in readList :
                 /\ r.slot = s
                 /\ cacheData'[s].valid /\ ~cacheData'[s].dirty /\ cacheData'[s].tag = r.lca
                 /\ r.lca \in LCA => cacheData'[s].data = ftl[r.lca]
<1> DEFINE S == UNION {evictData[p] : p \in DOMAIN evictData}
           clean == EvictedLines(S, FALSE)
           store == EvictedStore(S, ftl)
           for(s) == {r \in readList : r.slot = s}
           last(s) == CHOOSE r \in for(s) : \A q \in for(s) : q.lca <= r.lca
           line(s) == [clean[s] EXCEPT !.tag = last(s).lca,
                          !.data = IF last(s).lca \in LCA THEN store[last(s).lca] ELSE None]
           value(s) == IF for(s) = {} THEN clean[s] ELSE line(s)
<1>1. /\ cacheData \in [Slot -> CacheLine] /\ ftl \in [LCA -> Content]
      /\ readList \subseteq [lca : ReadLCA, slot : Slot]
  BY DEF CacheInv, TypeOK, CacheLine
<1>2. S \subseteq Taken
  BY DEF CacheInv, TypeOK, ClaimInv
<1>3. \A s \in Taken : s \in Slot /\ cacheData[s].valid /\ ~cacheData[s].dirty
  BY <1>1 DEF Taken, CacheInv, ClaimInv
<1>4. ftl' = store
  BY Zenon DEF FillEnd
<1>5. cacheData' = [s \in Slot |-> value(s)]
  BY Zenon DEF FillEnd
<1> HIDE DEF S
<1>6. store = ftl
  <2>1. \A x \in LCA : {s \in S : /\ cacheData[s].valid /\ cacheData[s].dirty
                                  /\ cacheData[s].tag = x} = {}
    BY <1>2, <1>3
  <2>2. store = [x \in LCA |-> ftl[x]]
    BY <2>1 DEF EvictedStore
  <2> QED
    BY <1>1, <2>2
<1>7. ASSUME NEW s \in Slot
      PROVE  /\ clean[s] \in CacheLine
             /\ clean[s].valid = cacheData[s].valid
             /\ clean[s] # cacheData[s] => (s \in S /\ ~clean[s].dirty)
  <2>1. clean[s] = IF s \notin S THEN cacheData[s] ELSE [cacheData[s] EXCEPT !.dirty = FALSE]
    BY DEF EvictedLines
  <2>2. cacheData[s] \in CacheLine
    BY <1>1
  <2> HIDE DEF clean
  <2>3. CASE s \notin S
    <3>1. clean[s] = cacheData[s]
      BY <2>1, <2>3
    <3>2. clean[s] \in CacheLine
      BY <2>2, <3>1
    <3>3. clean[s].valid = cacheData[s].valid
      BY <3>1
    <3> QED
      BY <3>1, <3>2, <3>3
  <2>4. CASE s \in S
    <3> DEFINE l == cacheData[s]
               c == [l EXCEPT !.dirty = FALSE]
    <3>1. clean[s] = c
      BY <2>1, <2>4, Zenon
    <3>2. l \in CacheLine
      BY <2>2
    <3> HIDE DEF l
    <3>3. c \in CacheLine /\ ~c.dirty
      BY <3>2 DEF CacheLine
    <3>4. c.valid = l.valid
      BY <3>2, Zenon DEF CacheLine
    <3> HIDE DEF c
    <3> QED
      BY <2>4, <3>1, <3>3, <3>4, Zenon DEF l
  <2> QED
    BY <2>3, <2>4
<1> HIDE DEF clean, store
<1>8. ASSUME NEW s \in Slot \ Taken
      PROVE  cacheData'[s] = cacheData[s]
  <2>1. for(s) = {}
    BY DEF Taken
  <2>2. cacheData'[s] = clean[s]
    BY <1>5, <2>1, Zenon
  <2> QED
    BY <1>2, <1>7, <2>2
<1>9. ASSUME NEW s \in Taken
      PROVE  /\ last(s) \in readList /\ last(s).slot = s
             /\ cacheData'[s] \in CacheLine
             /\ cacheData'[s].valid /\ ~cacheData'[s].dirty
             /\ cacheData'[s].tag = last(s).lca
             /\ last(s).lca \in LCA => cacheData'[s].data = ftl[last(s).lca]
  <2>1. for(s) # {} /\ for(s) \subseteq readList
    BY DEF Taken
  <2>2. last(s) \in for(s)
    BY <2>1, LastRead
  <2>3. last(s) \in readList /\ last(s).slot = s
    BY <2>2
  <2>4. s \in Slot /\ cacheData'[s] = line(s)
    BY <1>3, <1>5, <2>1, Zenon
  <2> DEFINE l == last(s)
  <2>5. l \in readList /\ l.slot = s /\ l.lca \in ReadLCA
    BY <1>1, <2>3
  <2>6. cacheData'[s] = [clean[s] EXCEPT !.tag = l.lca,
                             !.data = IF l.lca \in LCA THEN ftl[l.lca] ELSE None]
    BY <1>6, <2>4
  <2> HIDE DEF l, last
  <2>7. (IF l.lca \in LCA THEN ftl[l.lca] ELSE None) \in Content
    BY <1>1 DEF Content
  <2>8. clean[s] \in CacheLine /\ clean[s].valid /\ ~clean[s].dirty
    BY <1>3, <1>7, <2>4
  <2>9. /\ cacheData'[s] \in CacheLine
        /\ cacheData'[s].valid /\ ~cacheData'[s].dirty
        /\ cacheData'[s].tag = l.lca
        /\ l.lca \in LCA => cacheData'[s].data = ftl[l.lca]
    BY <2>5, <2>6, <2>7, <2>8 DEF CacheLine
  <2> QED
    BY <2>5, <2>9 DEF l
<1>10. cacheData' \in [Slot -> CacheLine]
  <2>1. \A s \in Slot : cacheData'[s] \in CacheLine
    BY <1>1, <1>8, <1>9
  <2> HIDE DEF value
  <2> QED
    BY <1>5, <2>1
<1>11. ASSUME NEW s \in Taken
       PROVE  \E r \in readList :
                 /\ r.slot = s
                 /\ cacheData'[s].valid /\ ~cacheData'[s].dirty /\ cacheData'[s].tag = r.lca
                 /\ r.lca \in LCA => cacheData'[s].data = ftl[r.lca]
  <2> DEFINE l == last(s)
  <2>1. /\ l \in readList /\ l.slot = s
        /\ cacheData'[s].valid /\ ~cacheData'[s].dirty /\ cacheData'[s].tag = l.lca
        /\ l.lca \in LCA => cacheData'[s].data = ftl[l.lca]
    BY <1>9, Zenon
  <2> HIDE DEF l
  <2> QED
    BY <2>1
<1>12. ftl' = ftl
  BY <1>4, <1>6
<1>13. QED
  BY <1>8, <1>10, <1>11, <1>12

-----------------------------------------------------------------------------
(* Calls.  Between two calls no slot is claimed, and what the invariant    *)
(* says is about the lines and the contents of the FTL only.               *)

LinesGood(lines, store) ==
    /\ lines \in [Slot -> CacheLine] /\ store \in [LCA -> Content]
    /\ \A s \in Slot : lines[s].dirty => lines[s].tag \in LCA
    /\ \A s \in Slot : lines[s].valid =>
          /\ s[1] = calcSetIndex(lines[s].tag)
          /\ \A t \in Slot : lines[t].valid /\ s # t => lines[s].tag # lines[t].tag
          /\ conf.writeCache /\ ~lines[s].dirty /\ lines[s].tag \in LCA
                => store[lines[s].tag] \in {lines[s].data, Stray}

(* Between two calls no slot is claimed, and the sound lines are all       *)
(* lines.                                                                  *)
LEMMA GoodBefore ==
    ASSUME CacheInv, fill = Idle
    PROVE  /\ LinesGood(cacheData, ftl)
           /\ readList = {} /\ \A p \in Position : evictData[p] = {}
<1>1. readList = {} /\ Taken = {}
  BY DEF CacheInv, FillInv, Taken
<1>2. cacheData \in [Slot -> CacheLine] /\ ftl \in [LCA -> Content]
  BY DEF CacheInv, TypeOK, CacheLine
<1>3. \A p \in Position : evictData[p] = {}
  BY <1>1 DEF CacheInv, ClaimInv
<1>4. QED
  BY <1>1, <1>2, <1>3 DEF CacheInv, LinesSound, SlotSound, DirtyOnDrive, LinesGood

(* The same after a step that ends a call. *)
LEMMA GoodAfter ==
    ASSUME CacheInv,
           UNCHANGED <<conf, detect, prefetchTrigger, lastPrefetched, panic>>,
           fill' = Idle, readList' = {},
           evictData' \in [Position -> SUBSET Slot], \A p \in Position : evictData'[p] = {},
           LinesGood(cacheData', ftl')
    PROVE  CacheInv'
<1>1. Slot' = Slot /\ Taken' = {} /\ 0 \in ReadLCA
  BY Constants DEF Slot, Taken
<1>2. fill' \in [from : ReadLCA, to : ReadLCA] /\ fill'.from = 0 /\ fill'.to = 0
  BY <1>1 DEF Idle
<1>3. cacheData' \in [Slot -> CacheLine] /\ ftl' \in [LCA -> Content]
  BY DEF LinesGood
<1>4. TypeOK'
  BY <1>1, <1>2, <1>3 DEF CacheInv, TypeOK, CacheLine
<1>5. FillInv'
  BY <1>2 DEF CacheInv, FillInv
<1>6. ClaimInv'
  BY DEF ClaimInv
<1>7. DirtyOnDrive' /\ LinesSound' /\ ~panic'
  BY <1>1 DEF CacheInv, LinesSound, SlotSound, DirtyOnDrive, LinesGood, calcSetIndex
<1>8. QED
  BY <1>4, <1>5, <1>6, <1>7 DEF CacheInv

(* At the end of a miss the claimed slots get their lines. *)
LEMMA FillEndInv ==
    ASSUME CacheInv, FillEnd
    PROVE  CacheInv'
<1>1. /\ UNCHANGED <<conf, detect, prefetchTrigger, lastPrefetched, panic>>
      /\ fill' = Idle /\ readList' = {}
      /\ evictData' = [p \in DOMAIN evictData |-> {}]
  <2>1. /\ UNCHANGED <<conf, prefetch, panic>>
        /\ fill' = Idle /\ readList' = {}
        /\ evictData' = [p \in DOMAIN evictData |-> {}]
    BY Zenon DEF FillEnd
  <2> QED
    BY <2>1 DEF prefetch
<1>2. evictData' \in [Position -> SUBSET Slot] /\ \A p \in Position : evictData'[p] = {}
  BY <1>1 DEF CacheInv, TypeOK
<1>3. /\ ftl' = ftl
      /\ cacheData' \in [Slot -> CacheLine]
      /\ \A s \in Slot \ Taken : cacheData'[s] = cacheData[s]
      /\ \A s \in Taken : \E r \in readList :
            /\ r.slot = s
            /\ cacheData'[s].valid /\ ~cacheData'[s].dirty /\ cacheData'[s].tag = r.lca
            /\ r.lca \in LCA => cacheData'[s].data = ftl[r.lca]
  BY FillEndLines
<1>4. ftl \in [LCA -> Content]
  BY DEF CacheInv, TypeOK
<1>5. \A s \in Slot : cacheData'[s].dirty => cacheData'[s].tag \in LCA
  BY <1>3 DEF CacheInv, DirtyOnDrive
<1>6. ASSUME NEW s \in Slot, cacheData'[s].valid
      PROVE  /\ s[1] = calcSetIndex(cacheData'[s].tag)
             /\ \A t \in Slot : cacheData'[t].valid /\ s # t => cacheData'[s].tag # cacheData'[t].tag
             /\ conf.writeCache /\ ~cacheData'[s].dirty /\ cacheData'[s].tag \in LCA
                   => ftl'[cacheData'[s].tag] \in {cacheData'[s].data, Stray}
  <2>1. CASE s \in Slot \ Taken
    <3>1. cacheData'[s] = cacheData[s] /\ cacheData[s].valid /\ SlotSound(s)
      BY <1>3, <1>6, <2>1 DEF CacheInv, LinesSound
    <3>2. ASSUME NEW t \in Slot, cacheData'[t].valid, s # t
          PROVE  cacheData'[s].tag # cacheData'[t].tag
      <4>1. CASE t \in Taken
        BY <1>3, <3>1, <4>1 DEF SlotSound
      <4>2. CASE t \notin Taken
        BY <1>3, <3>1, <3>2, <4>2 DEF SlotSound
      <4> QED
        BY <4>1, <4>2
    <3> QED
      BY <1>3, <3>1, <3>2 DEF SlotSound
  <2>2. CASE s \in Taken
    <3>1. PICK r \in readList :
            /\ r.slot = s
            /\ cacheData'[s].valid /\ ~cacheData'[s].dirty /\ cacheData'[s].tag = r.lca
            /\ r.lca \in LCA => cacheData'[s].data = ftl[r.lca]
      BY <1>3, <2>2
    <3>2. s[1] = calcSetIndex(r.lca)
      BY <3>1 DEF CacheInv, ClaimInv
    <3>3. ASSUME NEW t \in Slot, cacheData'[t].valid, s # t
          PROVE  r.lca # cacheData'[t].tag
      <4>1. CASE t \in Taken
        <5>1. PICK q \in readList : q.slot = t /\ cacheData'[t].tag = q.lca
          BY <1>3, <4>1
        <5> QED
          BY <3>1, <3>3, <5>1 DEF CacheInv, ClaimInv
      <4>2. CASE t \notin Taken
        BY <1>3, <3>3, <4>2 DEF CacheInv, LinesSound, SlotSound
      <4> QED
        BY <4>1, <4>2
    <3> QED
      BY <1>3, <3>1, <3>2, <3>3
  <2> QED
    BY <2>1, <2>2
<1>7. LinesGood(cacheData', ftl')
  BY <1>3, <1>4, <1>5, <1>6 DEF LinesGood
<1>8. QED
  BY <1>1, <1>2, <1>7, GoodAfter

(* A line is written into a slot of its set, the only one that may hold it. *)
LEMMA WrittenGood ==
    ASSUME NEW lines, NEW store, LinesGood(lines, store),
           NEW s \in Slot, NEW lca \in LCA, NEW d \in Data, NEW dirty \in BOOLEAN,
           s[1] = calcSetIndex(lca),
           \A t \in Slot : lines[t].valid /\ t # s => lines[t].tag # lca,
           NEW new \in [LCA -> Content],
           \A x \in LCA : x # lca => new[x] = store[x],
           dirty \/ new[lca] = d
    PROVE  LinesGood(Written(lines, s, lca, d, dirty), new)
<1> DEFINE l == [valid |-> TRUE, dirty |-> dirty, tag |-> lca, data |-> d]
           w == Written(lines, s, lca, d, dirty)
<1>1. lca \in ReadLCA /\ d \in Content
  BY Constants DEF Content
<1>2. l \in CacheLine
  BY <1>1 DEF CacheLine
<1>3. l.valid /\ l.dirty = dirty /\ l.tag = lca /\ l.data = d
  OBVIOUS
<1>4. w = [lines EXCEPT ![s] = l] /\ lines \in [Slot -> CacheLine]
  BY DEF Written, LinesGood
<1> HIDE DEF l, w
<1>5. /\ w \in [Slot -> CacheLine] /\ w[s] = l
      /\ \A t \in Slot : t # s => w[t] = lines[t]
  BY <1>2, <1>4
<1>6. \A t \in Slot : w[t].dirty => w[t].tag \in LCA
  BY <1>3, <1>5 DEF LinesGood
<1>7. ASSUME NEW t \in Slot, w[t].valid
      PROVE  /\ t[1] = calcSetIndex(w[t].tag)
             /\ \A u \in Slot : w[u].valid /\ t # u => w[t].tag # w[u].tag
             /\ conf.writeCache /\ ~w[t].dirty /\ w[t].tag \in LCA
                   => new[w[t].tag] \in {w[t].data, Stray}
  <2>1. CASE t = s
    <3>1. \A u \in Slot : w[u].valid /\ t # u => w[t].tag # w[u].tag
      BY <1>3, <1>5, <2>1
    <3>2. t[1] = calcSetIndex(w[t].tag)
      BY <1>3, <1>5, <2>1
    <3>3. ~w[t].dirty => new[w[t].tag] = w[t].data
      BY <1>3, <1>5, <2>1, Zenon
    <3> QED
      BY <3>1, <3>2, <3>3
  <2>2. CASE t # s
    <3>1. w[t] = lines[t] /\ lines[t].valid /\ lines[t].tag # lca
      BY <1>5, <1>7, <2>2
    <3>2. \A u \in Slot : w[u].valid /\ t # u => w[t].tag # w[u].tag
      BY <1>3, <1>5, <3>1 DEF LinesGood
    <3>3. t[1] = calcSetIndex(w[t].tag)
      BY <3>1 DEF LinesGood
    <3>4. conf.writeCache /\ ~w[t].dirty /\ w[t].tag \in LCA
              => new[w[t].tag] \in {w[t].data, Stray}
      BY <3>1 DEF LinesGood
    <3> QED
      BY <3>2, <3>3, <3>4
  <2> QED
    BY <2>1, <2>2
<1>8. QED
  BY <1>5, <1>6, <1>7 DEF LinesGood, w

(* A write of one line changes no other one, since its page is told about  *)
(* one unit only.                                                          *)
LEMMA OneLineWritten ==
    ASSUME CacheInv, NEW lca \in LCA, NEW d \in Data
    PROVE  LET new == FTLWrite(ftl, lca, {lca % Units}, d)
           IN  /\ new \in [LCA -> Content]
               /\ new[lca] = d
               /\ \A x \in LCA : x # lca => new[x] = ftl[x]
<1> DEFINE new == FTLWrite(ftl, lca, {lca % Units}, d)
<1>1. ftl \in [LCA -> Content] /\ d \in Content
  BY DEF CacheInv, TypeOK, Content
<1>2. ASSUME NEW x \in LCA, x # lca
      PROVE  new[x] = ftl[x]
  <2>1. ~(x \div Units = lca \div Units /\ x % Units = lca % Units)
    BY <1>2, SameUnit
  <2>2. ~(x \div Units = lca \div Units /\ x % Units \in {lca % Units})
    BY <2>1, Zenon
  <2>3. new[x] = IF x = lca THEN d
                 ELSE IF x \div Units = lca \div Units /\ x % Units \in {lca % Units}
                 THEN Stray
                 ELSE ftl[x]
    BY Zenon DEF FTLWrite
  <2> QED
    BY <1>2, <2>2, <2>3, Zenon
<1>3. new[lca] = d
  BY Zenon DEF FTLWrite
<1>4. DOMAIN new = LCA /\ new = [x \in LCA |-> new[x]]
  BY Zenon DEF FTLWrite
<1> HIDE DEF new
<1>5. \A x \in LCA : new[x] \in Content
  BY <1>1, <1>2, <1>3
<1>6. new \in [LCA -> Content]
  BY <1>4, <1>5
<1>7. QED
  BY <1>2, <1>3, <1>6, Zenon DEF new

(* A write that is passed on to the FTL changes its own line only. *)
LEMMA WrittenThrough ==
    ASSUME CacheInv, NEW lca \in LCA, NEW d \in Data, NEW whole \in BOOLEAN
    PROVE  LET new == WriteThrough(lca, d, whole)
           IN  /\ new \in [LCA -> Content]
               /\ whole => new[lca] = d
               /\ \A x \in LCA : x # lca => new[x] = ftl[x]
<1>1. CASE whole
  <2>1. WriteThrough(lca, d, whole) = FTLWrite(ftl, lca, {lca % Units}, d)
    BY <1>1 DEF WriteThrough
  <2> QED
    BY <2>1, OneLineWritten
<1>2. CASE ~whole
  BY <1>2 DEF WriteThrough, CacheInv, TypeOK
<1>3. QED
  BY <1>1, <1>2

(* A write to a cached line or to an unused slot keeps the lines sound. *)
LEMMA WriteInPlaceGood ==
    ASSUME CacheInv, fill = Idle, NEW lca \in LCA, NEW d \in Data, NEW whole \in BOOLEAN,
           WriteInPlace(lca, d, whole)
    PROVE  LinesGood(cacheData', ftl')
<1> DEFINE slots == IF getValidWay(lca) # {} THEN getValidWay(lca)
                    ELSE getEmptyWay(calcSetIndex(lca))
<1>1. PICK s \in slots : cacheData' = Written(cacheData, s, lca, d, ~whole)
  BY DEF WriteInPlace
<1>2. ftl' = WriteThrough(lca, d, whole)
  BY DEF WriteInPlace
<1>3. LinesGood(cacheData, ftl)
  BY GoodBefore
<1>4. s \in Slot /\ s[1] = calcSetIndex(lca)
  BY DEF getValidWay, getEmptyWay
<1>5. ASSUME NEW t \in Slot, cacheData[t].valid, t # s
      PROVE  cacheData[t].tag # lca
  <2> SUFFICES ASSUME cacheData[t].tag = lca PROVE FALSE
    OBVIOUS
  <2>1. t \in getValidWay(lca)
    BY <1>3, <1>5 DEF getValidWay, LinesGood
  <2>2. s \in getValidWay(lca)
    BY <2>1
  <2> QED
    BY <1>3, <1>5, <2>2 DEF getValidWay, LinesGood
<1>6. /\ ftl' \in [LCA -> Content]
      /\ whole => ftl'[lca] = d
      /\ \A x \in LCA : x # lca => ftl'[x] = ftl[x]
  BY <1>2, WrittenThrough
<1> DEFINE dirty == ~whole
<1>7. dirty \in BOOLEAN /\ (dirty \/ ftl'[lca] = d)
  BY <1>6, Zenon
<1>8. cacheData' = Written(cacheData, s, lca, d, dirty)
  BY <1>1
<1> HIDE DEF slots, dirty
<1>9. QED
  BY <1>8, <1>3, <1>4, <1>5, <1>6, <1>7, WrittenGood

(* The lines that stay are as the FTL has them: what is evicted is the     *)
(* only copy of its line.                                                  *)
LEMMA EvictedGood ==
    ASSUME LinesGood(cacheData, ftl), NEW S \in SUBSET Slot,
           NEW lca \in LCA, \A t \in Slot : cacheData[t].valid => cacheData[t].tag # lca,
           NEW store \in [LCA -> Content], \A x \in LCA : x # lca => store[x] = ftl[x]
    PROVE  LinesGood(EvictedLines(S, TRUE), EvictedStore(S, store))
<1> DEFINE gone == [valid |-> FALSE, dirty |-> FALSE, tag |-> 0, data |-> None]
           lines == EvictedLines(S, TRUE)
           new == EvictedStore(S, store)
           w(x) == {s \in S : cacheData[s].valid /\ cacheData[s].dirty /\ cacheData[s].tag = x}
<1>1. cacheData \in [Slot -> CacheLine] /\ ftl \in [LCA -> Content]
  BY DEF LinesGood
<1>2. gone \in CacheLine /\ ~gone.valid /\ ~gone.dirty
  <2>1. 0 \in ReadLCA /\ None \in Content
    BY Constants DEF Content
  <2> QED
    BY <2>1 DEF CacheLine
<1>3. lines = [s \in Slot |-> IF s \in S THEN gone ELSE cacheData[s]]
  BY DEF EvictedLines
<1>4. new = [x \in LCA |-> IF w(x) = {} THEN store[x]
                           ELSE cacheData[CHOOSE s \in w(x) : TRUE].data]
  BY DEF EvictedStore
<1> HIDE DEF gone, lines, new
<1>5. /\ lines \in [Slot -> CacheLine]
      /\ \A s \in Slot : lines[s].valid => s \notin S /\ lines[s] = cacheData[s]
      /\ \A s \in Slot : lines[s].dirty => lines[s] = cacheData[s]
  BY <1>1, <1>2, <1>3
<1>6. new \in [LCA -> Content]
  <2>1. ASSUME NEW x \in LCA, w(x) # {}
        PROVE  cacheData[CHOOSE s \in w(x) : TRUE].data \in Content
    <3>1. (CHOOSE s \in w(x) : TRUE) \in w(x)
      BY <2>1
    <3>2. (CHOOSE s \in w(x) : TRUE) \in Slot
      BY <3>1
    <3> HIDE DEF w
    <3> QED
      BY <1>1, <3>2 DEF CacheLine
  <2> HIDE DEF w
  <2> QED
    BY <1>4, <2>1
<1>7. ASSUME NEW s \in Slot, lines[s].valid, lines[s].tag \in LCA
      PROVE  new[lines[s].tag] = ftl[lines[s].tag]
  <2>1. s \notin S /\ lines[s] = cacheData[s] /\ cacheData[s].valid
    BY <1>5, <1>7
  <2>2. w(lines[s].tag) = {}
    BY <2>1 DEF LinesGood
  <2>3. new[lines[s].tag] = store[lines[s].tag]
    BY <1>4, <1>7, <2>2, Zenon
  <2> QED
    BY <1>7, <2>1, <2>3
<1>8. \A s \in Slot : lines[s].dirty => lines[s].tag \in LCA
  BY <1>5 DEF LinesGood
<1>9. ASSUME NEW s \in Slot, lines[s].valid
      PROVE  /\ s[1] = calcSetIndex(lines[s].tag)
             /\ \A t \in Slot : lines[t].valid /\ s # t => lines[s].tag # lines[t].tag
             /\ conf.writeCache /\ ~lines[s].dirty /\ lines[s].tag \in LCA
                   => new[lines[s].tag] \in {lines[s].data, Stray}
  BY <1>5, <1>7, <1>9 DEF LinesGood
<1>10. QED
  BY <1>5, <1>6, <1>8, <1>9 DEF LinesGood, lines, new

(* Among the slots that are evicted there is one of the set. *)
LEMMA EvictedOfSet ==
    ASSUME LinesGood(cacheData, ftl), NEW set, NEW E \in Chosen, NEW S \in Evicted(E, set)
    PROVE  S \subseteq Slot /\ \E s \in S : s[1] = set
<1> DEFINE P == {p \in Position : Region(p) # {}}
<1>1. E \in [P -> Slot] /\ \A p \in P : E[p] \in Region(p)
  BY DEF Chosen
<1>2. ASSUME NEW p \in P PROVE cacheData[E[p]].valid
  BY <1>1 DEF Region, AtPosition
<1>3. DOMAIN E = P
  BY <1>1
<1> HIDE DEF P
<1>4. CASE \E p \in DOMAIN E : calcSetIndex(cacheData[E[p]].tag) = set
  <2>1. S = {E[p] : p \in P}
    BY <1>3, <1>4 DEF Evicted
  <2>2. PICK p \in P : calcSetIndex(cacheData[E[p]].tag) = set
    BY <1>3, <1>4
  <2>3. E[p] \in Slot /\ E[p][1] = set
    BY <1>1, <1>2, <2>2 DEF LinesGood
  <2> QED
    BY <1>1, <2>1, <2>3
<1>5. CASE ~ \E p \in DOMAIN E : calcSetIndex(cacheData[E[p]].tag) = set
  <2>1. PICK s \in {x \in Slot : x[1] = set /\ cacheData[x].valid} :
           S = {s} \cup {E[p] : p \in DOMAIN E \ {calcIOPosition(cacheData[s].tag)}}
    BY <1>5 DEF Evicted
  <2> QED
    BY <1>1, <1>3, <2>1
<1>6. QED
  BY <1>4, <1>5

(* A write that evicts other lines first keeps the lines sound. *)
LEMMA WriteEvictGood ==
    ASSUME CacheInv, fill = Idle, NEW lca \in LCA, NEW d \in Data, NEW whole \in BOOLEAN,
           WriteEvict(lca, d, whole)
    PROVE  LinesGood(cacheData', ftl') /\ UNCHANGED panic
<1> DEFINE set == calcSetIndex(lca)
           lines(S) == EvictedLines(S, TRUE)
           empty(S) == {s \in Slot : s[1] = set /\ ~lines(S)[s].valid}
           through == WriteThrough(lca, d, whole)
           Step(S) ==
               /\ ftl' = EvictedStore(S, through)
               /\ IF empty(S) = {}
                  THEN panic' = TRUE /\ cacheData' = lines(S)
                  ELSE /\ \E s \in empty(S) : cacheData' = Written(lines(S), s, lca, d, TRUE)
                       /\ UNCHANGED panic
<1>1. PICK E \in Chosen : \E S \in Evicted(E, set) : Step(S)
  BY Zenon DEF WriteEvict
<1>2. PICK S \in Evicted(E, set) : Step(S)
  BY <1>1
<1>3. getValidWay(lca) = {}
  BY DEF WriteEvict
<1>4. LinesGood(cacheData, ftl)
  BY GoodBefore
<1>5. S \in SUBSET Slot /\ \E s \in S : s[1] = set
  BY <1>4, EvictedOfSet
<1>6. \A t \in Slot : cacheData[t].valid => cacheData[t].tag # lca
  BY <1>3, <1>4 DEF getValidWay, LinesGood
<1>7. through \in [LCA -> Content] /\ \A x \in LCA : x # lca => through[x] = ftl[x]
  BY WrittenThrough
<1> HIDE DEF through
<1>8. LinesGood(lines(S), ftl')
  BY <1>2, <1>4, <1>5, <1>6, <1>7, EvictedGood
<1>9. \A s \in Slot : /\ s \in S => ~lines(S)[s].valid
                      /\ s \notin S => lines(S)[s] = cacheData[s]
  BY DEF EvictedLines
<1>10. empty(S) # {}
  BY <1>5, <1>9
<1>11. PICK s \in empty(S) : cacheData' = Written(lines(S), s, lca, d, TRUE)
  BY <1>2, <1>10
<1>12. \A t \in Slot : lines(S)[t].valid /\ t # s => lines(S)[t].tag # lca
  BY <1>6, <1>9
<1>13. s \in Slot /\ s[1] = set
  BY <1>11
<1> HIDE DEF lines
<1>14. LinesGood(cacheData', ftl')
  <2>1. ftl' \in [LCA -> Content] /\ TRUE \in BOOLEAN
    BY <1>8 DEF LinesGood
  <2> QED
    BY <1>8, <1>11, <1>12, <1>13, <2>1, WrittenGood
<1>15. QED
  BY <1>2, <1>10, <1>14

(* write() keeps the invariant, with and without a write cache. *)
LEMMA WriteInv ==
    ASSUME CacheInv, NEW lca \in LCA, NEW d \in Data, NEW whole \in BOOLEAN,
           write(lca, d, whole)
    PROVE  CacheInv'
<1>1. /\ fill = Idle
      /\ UNCHANGED <<conf, detect, prefetchTrigger, lastPrefetched, fill, readList, evictData>>
  BY DEF write, prefetch, reading
<1>2. LinesGood(cacheData, ftl) /\ readList = {} /\ \A p \in Position : evictData[p] = {}
  BY <1>1, GoodBefore
<1>3. LinesGood(cacheData', ftl') /\ UNCHANGED panic
  <2>1. CASE WriteInPlace(lca, d, whole)
    BY <1>1, <2>1, WriteInPlaceGood DEF WriteInPlace
  <2>2. CASE WriteEvict(lca, d, whole)
    BY <1>1, <2>2, WriteEvictGood
  <2>3. CASE /\ ~conf.writeCache
             /\ ftl' = FTLWrite(ftl, lca, {lca % Units}, d)
             /\ UNCHANGED <<cacheData, panic>>
    <3>1. ftl' \in [LCA -> Content]
      BY <2>3, OneLineWritten
    <3> QED
      BY <1>2, <2>3, <3>1 DEF LinesGood
  <2> QED
    BY <2>1, <2>2, <2>3 DEF write
<1>4. evictData' \in [Position -> SUBSET Slot]
  BY <1>1 DEF CacheInv, TypeOK
<1>5. QED
  BY <1>1, <1>2, <1>3, <1>4, GoodAfter

(* Lines of a range are given up, and the FTL changes no other line to     *)
(* anything but Stray, unless nothing is cached for writes.                *)
LEMMA RangeGood ==
    ASSUME LinesGood(cacheData, ftl), NEW range \in Ranges,
           NEW store \in [LCA -> Content],
           \A s \in Slot : cacheData[s].tag \in LCA \ LinesOf(range)
               => store[cacheData[s].tag] \in {ftl[cacheData[s].tag], Stray}
    PROVE  LinesGood(Emptied(range), store)
<1> DEFINE lines == Emptied(range)
<1>1. cacheData \in [Slot -> CacheLine]
  BY DEF LinesGood
<1>2. ASSUME NEW l \in CacheLine
      PROVE  Invalid(l) \in CacheLine /\ ~Invalid(l).valid
             /\ Invalid(l).dirty = l.dirty /\ Invalid(l).tag = l.tag
  <2> DEFINE c == IF l.dirty THEN l.data ELSE None
             n == [l EXCEPT !.valid = FALSE, !.data = c]
  <2>1. c \in Content
    BY DEF CacheLine, Content
  <2>2. Invalid(l) = n
    BY DEF Invalid, CacheLine
  <2> HIDE DEF c
  <2>3. n \in CacheLine /\ ~n.valid
    BY <2>1 DEF CacheLine
  <2>4. n.dirty = l.dirty /\ n.tag = l.tag
    BY Zenon DEF CacheLine
  <2> HIDE DEF n
  <2> QED
    BY <2>2, <2>3, <2>4
<1>3. lines = [s \in Slot |-> IF cacheData[s].tag \in LinesOf(range)
                              THEN Invalid(cacheData[s])
                              ELSE cacheData[s]]
  BY DEF Emptied, InRange
<1> HIDE DEF lines
<1>4. /\ lines \in [Slot -> CacheLine]
      /\ \A s \in Slot : /\ lines[s].valid => /\ lines[s] = cacheData[s]
                                              /\ lines[s].tag \notin LinesOf(range)
                         /\ lines[s].dirty = cacheData[s].dirty
                         /\ lines[s].tag = cacheData[s].tag
  BY <1>1, <1>2, <1>3
<1>5. \A s \in Slot : lines[s].dirty => lines[s].tag \in LCA
  BY <1>4 DEF LinesGood
<1>6. ASSUME NEW s \in Slot, lines[s].valid
      PROVE  /\ s[1] = calcSetIndex(lines[s].tag)
             /\ \A t \in Slot : lines[t].valid /\ s # t => lines[s].tag # lines[t].tag
             /\ conf.writeCache /\ ~lines[s].dirty /\ lines[s].tag \in LCA
                   => store[lines[s].tag] \in {lines[s].data, Stray}
  <2>1. lines[s] = cacheData[s] /\ lines[s].tag \notin LinesOf(range)
    BY <1>4, <1>6
  <2>2. \A t \in Slot : lines[t].valid /\ s # t => lines[s].tag # lines[t].tag
    BY <1>4, <1>6 DEF LinesGood
  <2> QED
    BY <1>6, <2>1, <2>2 DEF LinesGood
<1>7. QED
  BY <1>4, <1>5, <1>6 DEF LinesGood, lines

(* Of several slots one is the last. *)
LEMMA LastSlot ==
    ASSUME TypeOK, NEW S \in SUBSET Slot, S # {}
    PROVE  LET last == CHOOSE s \in S : \A t \in S : Before(t, s)
           IN  last \in S /\ \A t \in S : Before(t, last)
<1> DEFINE sets == {s[1] + 1 : s \in S}
<1>1. conf.sets \in Nat /\ conf.ways \in Nat
  BY Conf
<1>2. \A s \in S : s[1] \in 0 .. conf.sets - 1 /\ s[2] \in 0 .. conf.ways - 1
  <2>1. \A s \in Slot : s[1] \in 0 .. conf.sets - 1 /\ s[2] \in 0 .. conf.ways - 1
    BY DEF Slot
  <2> QED
    BY <2>1
<1>3. Max(sets) \in sets /\ \A y \in sets : Max(sets) >= y
  <2>1. sets \subseteq 1 .. conf.sets /\ sets # {}
    BY <1>1, <1>2
  <2> QED
    BY <1>1, <2>1, MaxOfInterval
<1>4. PICK a \in S : a[1] + 1 = Max(sets)
  BY <1>3
<1>5. ASSUME NEW t \in S PROVE t[1] <= a[1]
  <2>1. t[1] + 1 \in sets
    OBVIOUS
  <2>2. a[1] + 1 >= t[1] + 1
    BY <1>3, <1>4, <2>1
  <2>3. a[1] \in Int /\ t[1] \in Int
    BY <1>2
  <2> QED
    BY <2>2, <2>3
<1> DEFINE ways == {s[2] + 1 : s \in {t \in S : t[1] = a[1]}}
<1>6. Max(ways) \in ways /\ \A y \in ways : Max(ways) >= y
  <2>1. ways \subseteq 1 .. conf.ways
    BY <1>1, <1>2
  <2>2. a[2] + 1 \in ways
    OBVIOUS
  <2> QED
    BY <1>1, <2>1, <2>2, MaxOfInterval
<1>7. PICK b \in S : b[1] = a[1] /\ b[2] + 1 = Max(ways)
  BY <1>6
<1>8. ASSUME NEW t \in S, t[1] = a[1] PROVE t[2] <= b[2]
  <2>1. t[2] + 1 \in ways
    BY <1>8
  <2>2. b[2] + 1 >= t[2] + 1
    BY <1>6, <1>7, <2>1
  <2>3. b[2] \in Int /\ t[2] \in Int
    BY <1>2
  <2> QED
    BY <2>2, <2>3
<1>9. \A t \in S : Before(t, b)
  BY <1>2, <1>5, <1>7, <1>8 DEF Before
<1>10. QED
  BY <1>9

(* flush(), trim() and format() keep the invariant. *)
LEMMA RangeInv ==
    ASSUME CacheInv, NEW range \in Ranges, flush(range) \/ trim(range) \/ format(range)
    PROVE  CacheInv'
<1>1. /\ fill = Idle
      /\ UNCHANGED <<conf, detect, prefetchTrigger, lastPrefetched, fill, readList, evictData,
                     panic>>
  BY DEF flush, trim, format, prefetch, reading
<1>2. LinesGood(cacheData, ftl) /\ readList = {} /\ \A p \in Position : evictData[p] = {}
  BY <1>1, GoodBefore
<1>3. cacheData \in [Slot -> CacheLine] /\ ftl \in [LCA -> Content]
  BY <1>2 DEF LinesGood
<1>4. LinesGood(cacheData', ftl')
  <2>1. CASE flush(range)
    <3> DEFINE S == {s \in Slot : InRange(s, range) /\ cacheData[s].dirty}
    <3>1. ftl' = [x \in LCA |-> Flushed(S, x)] /\ cacheData' = Emptied(range)
      BY <2>1 DEF flush
    <3>2. S \subseteq Slot /\ \A s \in S : cacheData[s].tag \in LinesOf(range)
      BY DEF InRange
    <3> HIDE DEF S
    <3>3. ASSUME NEW x \in LCA
          PROVE  /\ Flushed(S, x) \in Content
                 /\ x \notin LinesOf(range) => Flushed(S, x) \in {ftl[x], Stray}
      <4> DEFINE W == {s \in S : /\ cacheData[s].tag \div Units = x \div Units
                                 /\ x % Units \in Flags(S, s)}
                 last == CHOOSE s \in W : \A t \in W : Before(t, s)
      <4>1. Flushed(S, x) = IF W = {} THEN ftl[x]
                            ELSE IF cacheData[last].tag = x THEN cacheData[last].data
                            ELSE Stray
        BY DEF Flushed
      <4>2. ftl[x] \in Content /\ Stray \in Content
        BY <1>3 DEF Content
      <4>3. W \in SUBSET Slot /\ W \subseteq S
        BY <3>2
      <4>4. W # {} => last \in W
        <5> HIDE DEF W
        <5> QED
          BY <4>3, LastSlot DEF CacheInv
      <4> HIDE DEF W, last
      <4>5. W # {} => cacheData[last].data \in Content
                      /\ cacheData[last].tag \in LinesOf(range)
        BY <1>3, <3>2, <4>3, <4>4 DEF CacheLine
      <4> QED
        BY <4>1, <4>2, <4>5
    <3>4. ftl' \in [LCA -> Content]
      BY <3>1, <3>3
    <3>5. \A s \in Slot : cacheData[s].tag \in LCA \ LinesOf(range)
              => ftl'[cacheData[s].tag] \in {ftl[cacheData[s].tag], Stray}
      BY <3>1, <3>3
    <3> QED
      BY <1>2, <3>1, <3>4, <3>5, RangeGood
  <2>2. CASE trim(range) \/ (format(range) /\ Caching)
    <3>1. cacheData' = Emptied(range)
      BY <2>2 DEF trim, format, Emptied
    <3>2. PICK pages : ftl' = [x \in LCA |-> IF x \div Units \notin pages THEN ftl[x]
                                             ELSE IF x \in LinesOf(range) THEN None
                                             ELSE Stray]
      BY <2>2 DEF trim, format
    <3>3. /\ ftl' \in [LCA -> Content]
          /\ \A x \in LCA \ LinesOf(range) : ftl'[x] \in {ftl[x], Stray}
      BY <1>3, <3>2 DEF Content
    <3> QED
      BY <1>2, <3>1, <3>3, RangeGood
  <2>3. CASE format(range) /\ ~Caching
    <3>1. cacheData' = cacheData
      BY <1>3, <2>3 DEF format
    <3>2. PICK pages : ftl' = [x \in LCA |-> IF x \div Units \notin pages THEN ftl[x]
                                             ELSE IF x \in LinesOf(range) THEN None
                                             ELSE Stray]
      BY <2>3 DEF format
    <3>3. ftl' \in [LCA -> Content] /\ ~conf.writeCache
      BY <1>3, <2>3, <3>2 DEF Content, Caching
    <3> QED
      BY <1>2, <3>1, <3>3 DEF LinesGood
  <2> QED
    BY <2>1, <2>2, <2>3
<1>5. evictData' \in [Position -> SUBSET Slot]
  BY <1>1 DEF CacheInv, TypeOK
<1>6. QED
  BY <1>1, <1>2, <1>4, <1>5, GoodAfter

-----------------------------------------------------------------------------
(* Theorems *)

(* Every step of the cache keeps the invariant. *)
LEMMA StepInv ==
    ASSUME CacheInv, [Next]_vars
    PROVE  CacheInv'
<1>1. CASE \E lca \in LCA : read(lca)
  BY <1>1, ReadInv
<1>2. CASE FillSkip
  BY <1>2, FillSkipInv
<1>3. CASE \E s \in Slot : FillSlot(s)
  BY <1>3, FillSlotInv
<1>4. CASE FillEnd
  BY <1>4, FillEndInv
<1>5. CASE \E lca \in LCA, d \in Data, whole \in BOOLEAN : write(lca, d, whole)
  BY <1>5, WriteInv
<1>6. CASE \E range \in Ranges : flush(range) \/ trim(range) \/ format(range)
  BY <1>6, RangeInv
<1>7. CASE UNCHANGED vars
  <2>1. UNCHANGED <<conf, cacheData, detect, prefetchTrigger, lastPrefetched, fill,
                    readList, evictData, ftl, panic>>
    BY <1>7 DEF vars
  <2>2. Slot' = Slot /\ Taken' = Taken
    BY <2>1 DEF Slot, Taken
  <2>3. TypeOK'
    BY <2>1, <2>2 DEF CacheInv, TypeOK
  <2>4. FillInv' /\ ClaimInv'
    BY <2>1, <2>2 DEF CacheInv, FillInv, ClaimInv, calcSetIndex
  <2>5. DirtyOnDrive' /\ LinesSound' /\ ~panic'
    BY <2>1, <2>2 DEF CacheInv, DirtyOnDrive, LinesSound, SlotSound, calcSetIndex
  <2> QED
    BY <2>3, <2>4, <2>5 DEF CacheInv
<1>8. QED
  BY <1>1, <1>2, <1>3, <1>4, <1>5, <1>6, <1>7 DEF Next

(* The inductive invariant of the cache, in the middle of a read miss too. *)
THEOREM CacheInvariance == Spec => []CacheInv
<1>1. Init => CacheInv
  BY InitInv
<1>2. CacheInv /\ [Next]_vars => CacheInv'
  BY StepInv
<1>3. QED
  BY <1>1, <1>2, PTL DEF Spec

(* Between two calls a line is in one slot at most, and in its own set, in *)
(* every configuration of sets, ways and evictions, however a miss and its *)
(* read ahead claimed their slots.                                         *)
THEOREM LinesAlwaysUnique == Spec => []LinesUnique
<1>1. CacheInv => LinesUnique
  <2> SUFFICES ASSUME CacheInv PROVE LinesUnique
    OBVIOUS
  <2>1. TypeOK
    BY DEF CacheInv
  <2>2. fill = Idle => LinesGood(cacheData, ftl)
    BY GoodBefore
  <2> QED
    BY <2>1, <2>2 DEF LinesUnique, LinesGood
<1>2. QED
  BY <1>1, CacheInvariance, PTL

(* The eviction of a write always empties a slot of the set it needs, so   *)
(* that the panic after it is unreachable.                                 *)
THEOREM NeverCorrupted == Spec => []NotCorrupted
<1>1. CacheInv => NotCorrupted
  BY DEF CacheInv, NotCorrupted
<1>2. QED
  BY <1>1, CacheInvariance, PTL

(* With write caching, a clean line between two calls is as the FTL has it *)
(* or the FTL was told to change a line nobody asked it to.                *)
THEOREM CleanLinesAlwaysAgree == Spec => []CleanLinesAgree
<1>1. CacheInv => CleanLinesAgree
  <2> SUFFICES ASSUME CacheInv, fill = Idle, conf.writeCache,
                      NEW s \in Slot, cacheData[s].valid, ~cacheData[s].dirty,
                      cacheData[s].tag \in LCA
               PROVE  ftl[cacheData[s].tag] \in {cacheData[s].data, Stray}
    BY DEF CleanLinesAgree
  <2>1. LinesGood(cacheData, ftl)
    BY GoodBefore
  <2> QED
    BY <2>1 DEF LinesGood
<1>2. QED
  BY <1>1, CacheInvariance, PTL

-----------------------------------------------------------------------------
(* What becomes of a dirty line *)

LineKept(s) ==
    LET l == cacheData[s]
        n == cacheData'[s]
    IN  \/ n.valid /\ n.tag = l.tag /\ (n.dirty \/ ftl'[l.tag] = n.data)
        \/ ftl'[l.tag] = l.data
        \/ \E range \in Ranges :
              /\ InRange(s, range)
              /\ \/ trim(range) /\ ftl'[l.tag] = None
                 \/ format(range)
                 \/ flush(range) /\ Overlaid(s, range)

(* A write in place loses no dirty line. *)
LEMMA WriteInPlaceKeeps ==
    ASSUME CacheInv, fill = Idle, NEW lca \in LCA, NEW d \in Data, NEW whole \in BOOLEAN,
           WriteInPlace(lca, d, whole),
           NEW s \in Slot, cacheData[s].valid, cacheData[s].dirty
    PROVE  LineKept(s)
<1> DEFINE slots == IF getValidWay(lca) # {} THEN getValidWay(lca)
                    ELSE getEmptyWay(calcSetIndex(lca))
<1>1. PICK u \in slots : cacheData' = Written(cacheData, u, lca, d, ~whole)
  BY DEF WriteInPlace
<1>2. cacheData \in [Slot -> CacheLine]
  BY DEF CacheInv, TypeOK, CacheLine
<1>3. CASE s # u
  <2>1. cacheData'[s] = cacheData[s]
    BY <1>1, <1>2, <1>3 DEF Written
  <2> QED
    BY <2>1 DEF LineKept
<1>4. CASE s = u
  <2>1. cacheData[s].tag = lca
    BY <1>4 DEF getValidWay, getEmptyWay
  <2> DEFINE dirty == ~whole
             n == [valid |-> TRUE, dirty |-> dirty, tag |-> lca, data |-> d]
  <2>2. cacheData'[s] = n
    BY <1>1, <1>2, <1>4 DEF Written
  <2>3. n.valid /\ n.tag = lca /\ n.data = d /\ n.dirty = dirty
    BY Zenon
  <2>4. whole => ftl'[lca] = d
    BY WrittenThrough DEF WriteInPlace
  <2>5. n.dirty \/ ftl'[lca] = n.data
    BY <2>3, <2>4, Zenon
  <2> HIDE DEF n
  <2> QED
    BY <2>1, <2>2, <2>3, <2>5 DEF LineKept
<1>5. QED
  BY <1>3, <1>4

(* The lines an eviction drops are in the FTL. *)
LEMMA WriteEvictKeeps ==
    ASSUME CacheInv, fill = Idle, NEW lca \in LCA, NEW d \in Data, NEW whole \in BOOLEAN,
           WriteEvict(lca, d, whole),
           NEW s \in Slot, cacheData[s].valid, cacheData[s].dirty
    PROVE  LineKept(s)
<1> DEFINE set == calcSetIndex(lca)
           lines(S) == EvictedLines(S, TRUE)
           empty(S) == {t \in Slot : t[1] = set /\ ~lines(S)[t].valid}
           through == WriteThrough(lca, d, whole)
           Step(S) ==
               /\ ftl' = EvictedStore(S, through)
               /\ IF empty(S) = {}
                  THEN panic' = TRUE /\ cacheData' = lines(S)
                  ELSE /\ \E t \in empty(S) : cacheData' = Written(lines(S), t, lca, d, TRUE)
                       /\ UNCHANGED panic
<1>1. PICK E \in Chosen : \E S \in Evicted(E, set) : Step(S)
  BY Zenon DEF WriteEvict
<1>2. PICK S \in Evicted(E, set) : Step(S)
  BY <1>1
<1>3. LinesGood(cacheData, ftl)
  BY GoodBefore
<1>4. S \subseteq Slot
  BY <1>3, EvictedOfSet
<1>5. cacheData[s].tag \in LCA
  BY <1>3 DEF LinesGood
<1>6. CASE s \in S
  <2> DEFINE w == {t \in S : /\ cacheData[t].valid /\ cacheData[t].dirty
                             /\ cacheData[t].tag = cacheData[s].tag}
  <2>1. w = {s}
    BY <1>3, <1>4, <1>6 DEF LinesGood
  <2>2. ftl'[cacheData[s].tag] = IF w = {} THEN through[cacheData[s].tag]
                                 ELSE cacheData[CHOOSE t \in w : TRUE].data
    BY <1>2, <1>5, Zenon DEF EvictedStore
  <2> HIDE DEF w
  <2>3. (CHOOSE t \in w : TRUE) = s
    BY <2>1
  <2>4. ftl'[cacheData[s].tag] = cacheData[s].data
    BY <2>1, <2>2, <2>3
  <2> QED
    BY <2>4 DEF LineKept
<1>7. CASE s \notin S
  <2>1. lines(S)[s] = cacheData[s] /\ DOMAIN lines(S) = Slot
    BY <1>7 DEF EvictedLines
  <2>2. s \notin empty(S)
    BY <2>1
  <2> HIDE DEF lines
  <2>3. cacheData'[s] = lines(S)[s]
    <3>1. CASE empty(S) = {}
      BY <1>2, <3>1
    <3>2. CASE empty(S) # {}
      <4>1. PICK t \in empty(S) : cacheData' = Written(lines(S), t, lca, d, TRUE)
        BY <1>2, <3>2
      <4>2. t # s
        BY <2>2
      <4> HIDE DEF empty
      <4> QED
        BY <2>1, <4>1, <4>2 DEF Written
    <3> QED
      BY <3>1, <3>2
  <2> QED
    BY <2>1, <2>3 DEF LineKept
<1>8. QED
  BY <1>6, <1>7

(* The last request of a flush that covers the unit of a line is its own,  *)
(* or that of a line of the same page in a slot after it.                  *)
LEMMA FlushKeeps ==
    ASSUME CacheInv, NEW range \in Ranges, flush(range),
           NEW s \in Slot, cacheData[s].valid, cacheData[s].dirty
    PROVE  LineKept(s)
<1> DEFINE S == {t \in Slot : InRange(t, range) /\ cacheData[t].dirty}
           x == cacheData[s].tag
<1>1. LinesGood(cacheData, ftl)
  BY GoodBefore DEF flush
<1>2. ftl' = [y \in LCA |-> Flushed(S, y)] /\ cacheData' = Emptied(range)
  BY DEF flush
<1>3. x \in LCA
  BY <1>1 DEF LinesGood
<1>4. CASE InRange(s, range)
  <2> DEFINE W == {t \in S : /\ cacheData[t].tag \div Units = x \div Units
                             /\ x % Units \in Flags(S, t)}
             last == CHOOSE t \in W : \A u \in W : Before(u, t)
  <2>1. s \in S
    BY <1>4
  <2>2. s \in W
    <3>1. s[1] \in Int /\ s[2] \in Int
      BY Conf DEF CacheInv, Slot
    <3>2. Before(s, s)
      BY <3>1 DEF Before
    <3>3. x % Units \in Flags(S, s)
      BY <2>1, <3>2, Zenon DEF Flags
    <3> QED
      BY <2>1, <3>3
  <2>3. W \in SUBSET Slot /\ W \subseteq S
    OBVIOUS
  <2>4. last \in W /\ \A u \in W : Before(u, last)
    <3>1. TypeOK /\ W # {}
      BY <2>2 DEF CacheInv
    <3> HIDE DEF W
    <3> QED
      BY <2>3, <3>1, LastSlot
  <2>5. ftl'[x] = IF cacheData[last].tag = x THEN cacheData[last].data ELSE Stray
    <3>1. ftl'[x] = Flushed(S, x)
      BY <1>2, <1>3
    <3> HIDE DEF S, x
    <3>2. Flushed(S, x) = IF W = {} THEN ftl[x]
                          ELSE IF cacheData[last].tag = x THEN cacheData[last].data
                          ELSE Stray
      BY DEF Flushed
    <3> HIDE DEF W, last
    <3> QED
      BY <2>2, <3>1, <3>2
  <2>6. /\ last \in Slot /\ InRange(last, range) /\ cacheData[last].dirty
        /\ cacheData[last].tag \div Units = x \div Units
    <3> HIDE DEF last
    <3> QED
      BY <2>4
  <2>7. Before(s, last)
    BY <2>2, <2>4
  <2> HIDE DEF W, last
  <2>8. CASE last = s
    <3>1. ftl'[x] = cacheData[s].data
      BY <2>5, <2>8
    <3> QED
      BY <3>1 DEF LineKept
  <2>9. CASE last # s
    <3>1. Overlaid(s, range)
      BY <2>5, <2>6, <2>7, <2>9 DEF Overlaid
    <3> QED
      BY <1>4, <3>1 DEF LineKept
  <2> QED
    BY <2>8, <2>9
<1>5. CASE ~InRange(s, range)
  <2>1. cacheData'[s] = cacheData[s]
    BY <1>2, <1>5 DEF Emptied
  <2> QED
    BY <2>1 DEF LineKept
<1>6. QED
  BY <1>4, <1>5

(* A trim tells the FTL of every line it gives up. *)
LEMMA TrimKeeps ==
    ASSUME CacheInv, NEW range \in Ranges, trim(range) \/ format(range),
           NEW s \in Slot, cacheData[s].valid, cacheData[s].dirty
    PROVE  LineKept(s)
<1> DEFINE l == cacheData[s]
<1>1. l \in CacheLine /\ l.tag \in LCA
  BY DEF CacheInv, TypeOK, CacheLine, DirtyOnDrive
<1>2. CASE ~InRange(s, range)
  <2>1. cacheData'[s] = cacheData[s]
    BY <1>2 DEF trim, format, Emptied
  <2> QED
    BY <2>1 DEF LineKept
<1>3. CASE InRange(s, range) /\ format(range)
  BY <1>3 DEF LineKept
<1>4. CASE InRange(s, range) /\ trim(range)
  <2> DEFINE pages == {cacheData[u].tag \div Units :
                          u \in {t \in Slot : InRange(t, range)}}
  <2>1. l.tag \div Units \in pages
    BY <1>4
  <2>2. l.tag \in LinesOf(range)
    BY <1>4 DEF InRange
  <2> HIDE DEF l
  <2>3. ftl'[l.tag] = IF l.tag \div Units \notin pages THEN ftl[l.tag]
                      ELSE IF l.tag \in LinesOf(range) THEN None ELSE Stray
    BY <1>1, <1>4, Zenon DEF trim
  <2>4. ftl'[l.tag] = None
    BY <2>1, <2>2, <2>3, Zenon
  <2> QED
    BY <1>4, <2>4 DEF LineKept, l
<1>5. QED
  BY <1>2, <1>3, <1>4

(* With a write cache only, the evictions of a write, which choose among   *)
(* all sets, hand the FTL what they drop.  A flush hands it every dirty    *)
(* line, and what it is left with is that line or the last one of the page *)
(* written after it.  Besides, only a trim or a format drops a line.       *)
THEOREM WriteCacheAlwaysKeepsData == Spec => WriteCacheKeepsData
<1>1. ASSUME CacheInv, [Next]_vars, ~conf.readCache
      PROVE  DirtyKept
  <2>1. fill = Idle
    BY <1>1 DEF CacheInv, FillInv
  <2>2. ~(fill.from < fill.to)
    <3>1. fill.from = 0 /\ fill.to = 0
      BY <2>1 DEF Idle
    <3> QED
      BY <3>1
  <2> SUFFICES ASSUME NEW s \in Slot, cacheData[s].valid, cacheData[s].dirty
               PROVE  LineKept(s)
    BY DEF DirtyKept, LineKept
  <2>3. CASE \E lca \in LCA : read(lca)
    BY <1>1, <2>3 DEF read
  <2>4. CASE FillSkip \/ (\E t \in Slot : FillSlot(t)) \/ FillEnd
    BY <2>1, <2>2, <2>4, Zenon DEF FillSkip, FillSlot, FillEnd
  <2>5. ASSUME NEW lca \in LCA, NEW d \in Data, NEW whole \in BOOLEAN, write(lca, d, whole)
        PROVE  LineKept(s)
    <3>1. CASE WriteInPlace(lca, d, whole)
      BY <1>1, <2>1, <3>1, WriteInPlaceKeeps
    <3>2. CASE WriteEvict(lca, d, whole)
      BY <1>1, <2>1, <3>2, WriteEvictKeeps
    <3>3. CASE UNCHANGED cacheData
      BY <3>3 DEF LineKept
    <3> QED
      BY <2>5, <3>1, <3>2, <3>3 DEF write
  <2>6. ASSUME NEW range \in Ranges, flush(range) \/ trim(range) \/ format(range)
        PROVE  LineKept(s)
    BY <1>1, <2>6, FlushKeeps, TrimKeeps
  <2>7. CASE UNCHANGED vars
    BY <2>7 DEF LineKept, vars
  <2> QED
    BY <1>1, <2>3, <2>4, <2>5, <2>6, <2>7 DEF Next
<1>2. CacheInv /\ [Next]_vars => [~conf.readCache => DirtyKept]_vars
  BY <1>1
<1>3. QED
  BY <1>2, CacheInvariance, PTL DEF Spec, WriteCacheKeepsData
=============================================================================

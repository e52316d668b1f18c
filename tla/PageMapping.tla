---------------------------- MODULE PageMapping ----------------------------
(***************************************************************************)
(* The page-mapping flash translation layer of simplessd/ftl, with the     *)
(* hot/cold separation disabled.  A handler of the code (write, trim,      *)
(* format, the refresh event) runs to completion before the next one, but  *)
(* it is long: a write may collect garbage, which copies the valid pages   *)
(* of several victims and then erases them.  The variable pc says where    *)
(* in a handler the code is; a new handler starts only when pc = "idle".   *)
(* Time, statistics and the DRAM and PAL requests are not modelled.        *)
(*                                                                         *)
(* The simulator stores no user data.  The datum kept in every valid page  *)
(* is a history variable: what a drive that moves pages the way this code  *)
(* moves them would hold.                                                  *)
(***************************************************************************)
EXTENDS Integers, Sequences, FiniteSets, SequencesExt, FiniteSetsExt, Functions

CONSTANTS
    NB,            \* param.totalPhysicalBlocks
    NP,            \* param.pagesInBlock
    NL,            \* param.pageCountToMaxPerf: write lanes
    NLB,           \* param.totalLogicalBlocks
    NU,            \* bitsetSize: I/O units mapped separately in a page
    RandomTweak,   \* bRandomTweak
    NLayers,       \* layers of a block, 64 in the code
    GCThreshold,   \* GC runs when nFreeBlocks < GCThreshold
    ReclaimBlocks, \* FTL_GC_RECLAIM_BLOCK
    ReclaimTarget, \* totalPhysicalBlocks * FTL_GC_RECLAIM_THRESHOLD
    GCMode,        \* 0 or 1
    EvictPolicy,   \* FTL_GC_EVICT_POLICY
    DChoice,       \* FTL_GC_D_CHOICE_PARAM
    RecoParam,     \* FTL_GC_RECO_PARAM
    BadBlock,      \* FTL_BAD_BLOCK_THRESHOLD, bounds the erase counts
    FillPages,     \* nPagesToWarmup
    InvalidPages,  \* nPagesToInvalidate, as configured
    FillMode,      \* 0, 1 or 2
    FormatRanges,  \* sets of LPNs a format may name
    MaxRefreshLayer, \* FTL_REFRESH_MAX_LAYER_NUM
    Data           \* history data

Block   == 0 .. NB-1
PageIdx == 0 .. NP-1
Unit    == 0 .. NU-1
Lane    == 0 .. NL-1
LPN     == 0 .. NLB*NP-1
Layer   == Block \X (0 .. NLayers-1)
NoPlace == <<NB, NP>>        \* the mapping of a unit that was never written
Place   == Block \X PageIdx
IOMaps  == (SUBSET Unit) \ {{}}

Policies == {"GREEDY", "COST_BENEFIT", "RANDOM", "DCHOICE", "RECO"}

ASSUME SizesAssumption ==
    /\ {NB, NP, NL, NU, NLayers, NLB} \subseteq Nat \ {0}
    /\ RandomTweak \in BOOLEAN /\ (~RandomTweak => NU = 1)
    /\ FormatRanges \subseteq SUBSET LPN

(* The check of the FTL constructor. *)
ASSUME OverProvisionAssumption == NB > NLB + NL

ASSUME PolicyAssumption ==
    /\ {GCThreshold, ReclaimBlocks, ReclaimTarget, DChoice, RecoParam, BadBlock,
        FillPages, InvalidPages, MaxRefreshLayer} \subseteq Nat
    /\ GCMode \in {0, 1} /\ (GCMode = 1 => ReclaimTarget >= GCThreshold)
    /\ EvictPolicy \in Policies
    /\ FillMode \in {0, 1, 2}
    /\ BadBlock > 0

VARIABLES
    table,          \* table[l][u]: place of unit u of page l, or NoPlace
    blocks,         \* indices of the blocks in use
    page,           \* page[b][p][u]: valid content, or NoContent
    erased,         \* erased[b][u]: pages whose unit u is erased
    next,           \* next[b][u]: pNextWritePageIndex
    eraseCount,     \* eraseCount[b]
    refreshedPageCount,
    freeBlocks,     \* list of free blocks
    nFreeBlocks,
    lastFreeBlock,  \* lastFreeBlock[k]: the block lane k writes to
    lastFreeBlockIndex,
    lastFreeBlockIOMap,
    bReclaimMore,
    filled,         \* pages written by initialize()
    pc,             \* where in a handler the code is
    after,          \* where garbage collection returns to
    toReclaim,      \* victims whose pages are still to be copied
    toErase,        \* victims to erase
    layers,         \* layers the running refresh still has to copy
    panic           \* the message of the panic that stopped the simulator

blockVars   == <<page, erased, next>>
wearVars    == <<eraseCount, refreshedPageCount>>
freeVars    == <<blocks, freeBlocks, nFreeBlocks>>
laneVars    == <<lastFreeBlock, lastFreeBlockIndex, lastFreeBlockIOMap>>
controlVars == <<pc, after, toReclaim, toErase, layers, filled>>
vars == <<table, blockVars, wearVars, freeVars, laneVars, bReclaimMore,
          controlVars, panic>>

NoContent == [lpn |-> -1, data |-> "none"]
Content   == [lpn : LPN, data : Data]

NoPanic == "none"

(* The simulator stops: nothing is enabled once pc = "panic". *)
Panic(message) ==
    /\ pc' = "panic"
    /\ panic' = message
    /\ UNCHANGED <<table, blockVars, wearVars, freeVars, laneVars, bReclaimMore,
                   after, toReclaim, toErase, layers, filled>>

(* A loop of the code that never ends *)
Hang == pc' = "hung" /\ UNCHANGED <<table, blockVars, wearVars, freeVars, laneVars,
            bReclaimMore, after, toReclaim, toErase, layers, filled, panic>>

-----------------------------------------------------------------------------
(* Block *)

(* Mutant: only the first unit is asked for its write pointer. *)
FullByUnitZero(b) == next[b][0] = NP

(* getNextWritePageIndex() == pagesInBlock: the largest write pointer *)
Full(b) == \E u \in Unit : next[b][u] = NP

ValidUnits(b, p) == {u \in Unit : page[b][p][u] # NoContent}

(* The pages getPageInfo() reports as valid *)
ValidPages(b) == {p \in PageIdx : ValidUnits(b, p) # {}}

ValidPageCountRaw(b) ==
    Cardinality({x \in PageIdx \X Unit : page[b][x[1]][x[2]] # NoContent})

Mapped(l) == \E u \in Unit : table[l][u] # NoPlace

-----------------------------------------------------------------------------
(* Allocation *)

(* getFreeBlock(): the first free block of the lane, else the first one *)
FreePos(k) ==
    LET own == {i \in DOMAIN freeBlocks : freeBlocks[i] % NL = k}
    IN  IF own = {} THEN 1 ELSE Min(own)

AdvanceLane(io) == ~RandomTweak \/ lastFreeBlockIOMap \cap io # {}

LaneFor(io) ==
    IF AdvanceLane(io)
    THEN IF lastFreeBlockIndex + 1 = NL THEN 0 ELSE lastFreeBlockIndex + 1
    ELSE lastFreeBlockIndex

(* The block a write with I/O map io goes to *)
Target(io) ==
    LET k == LaneFor(io)
    IN  IF Full(lastFreeBlock[k]) THEN freeBlocks[FreePos(k)] ELSE lastFreeBlock[k]

(* The panic that getLastFreeBlock(io), the getFreeBlock() in it or the    *)
(* following Block::write() would end in.                                  *)
LaneError(io) ==
    LET k == LaneFor(io)
    IN  CASE lastFreeBlock[k] \notin blocks -> "Corrupted"
          [] lastFreeBlock[k] \in blocks /\ Full(lastFreeBlock[k]) /\ nFreeBlocks = 0
               -> "NoFreeBlockLeft"
          [] lastFreeBlock[k] \in blocks /\ Full(lastFreeBlock[k]) /\ nFreeBlocks # 0
             /\ Target(io) \in blocks
               -> "FreeBlockInUse"
          [] OTHER ->
             IF \E u \in io : next[Target(io)][u] \notin erased[Target(io)][u]
             THEN "WriteToNonErasedPage" ELSE NoPanic

(* getLastFreeBlock(): rotate the lanes, replace a full block.             *)
(* The refreshedPageCount of a replaced block starts at zero; count holds  *)
(* the counts of all blocks before that.                                   *)
GetLastFreeBlock(io, count) ==
    LET k == LaneFor(io)
    IN  /\ lastFreeBlockIndex' = k
        /\ lastFreeBlockIOMap' = IF AdvanceLane(io) THEN io
                                 ELSE lastFreeBlockIOMap \cup io
        /\ IF Full(lastFreeBlock[k])
           THEN /\ lastFreeBlock' = [lastFreeBlock EXCEPT ![k] = Target(io)]
                /\ blocks' = blocks \cup {Target(io)}
                /\ freeBlocks' = RemoveAt(freeBlocks, FreePos(k))
                /\ nFreeBlocks' = nFreeBlocks - 1
                /\ refreshedPageCount' = [count EXCEPT ![Target(io)] = 0]
                /\ bReclaimMore' = TRUE
           ELSE /\ refreshedPageCount' = count
                /\ UNCHANGED <<lastFreeBlock, freeVars, bReclaimMore>>

(* Mutant: the old places stay valid. *)
ProgramKeepOld(io, old, new) ==
    LET b == Target(io)
    IN  /\ page' = [c \in Block |-> [p \in PageIdx |-> [u \in Unit |->
                      IF u \in io /\ c = b /\ p = next[b][u] THEN new[u]
                      ELSE page[c][p][u]]]]
        /\ erased' = [erased EXCEPT ![b] = [u \in Unit |->
                        IF u \in io THEN @[u] \ {next[b][u]} ELSE @[u]]]
        /\ next' = [next EXCEPT ![b] = [u \in Unit |->
                        IF u \in io THEN @[u] + 1 ELSE @[u]]]
        /\ table' = [l \in LPN |-> [u \in Unit |->
                        IF u \in io /\ new[u].lpn = l THEN <<b, next[b][u]>>
                        ELSE table[l][u]]]

(* Invalidate the units io at their old places and write them, as content  *)
(* new[u], at the write pointers of the target; the mapping table follows. *)
Program(io, old, new) ==
    LET b == Target(io)
    IN  /\ page' = [c \in Block |-> [p \in PageIdx |-> [u \in Unit |->
                      IF u \in io /\ c = b /\ p = next[b][u] THEN new[u]
                      ELSE IF u \in io /\ old[u] = <<c, p>> THEN NoContent
                      ELSE page[c][p][u]]]]
        /\ erased' = [erased EXCEPT ![b] = [u \in Unit |->
                        IF u \in io THEN @[u] \ {next[b][u]} ELSE @[u]]]
        /\ next' = [next EXCEPT ![b] = [u \in Unit |->
                        IF u \in io THEN @[u] + 1 ELSE @[u]]]
        /\ table' = [l \in LPN |-> [u \in Unit |->
                        IF u \in io /\ new[u].lpn = l THEN <<b, next[b][u]>>
                        ELSE table[l][u]]]

NeedsGC(free) == free < GCThreshold

-----------------------------------------------------------------------------
(* Host operations *)

(* writeInternal() up to garbage collection.  Without the random I/O tweak *)
(* a unit is the whole page and a partial write reads the rest of it back. *)
WriteUnits(l, io, d) ==
    /\ Program(io, table[l], [u \in Unit |-> [lpn |-> l, data |-> d]])
    /\ GetLastFreeBlock(io, refreshedPageCount)
    /\ UNCHANGED <<eraseCount, toReclaim, toErase, layers>>

(* The block of an old mapping is used without a check *)
WriteError(l, io) ==
    IF \E u \in io : table[l][u] # NoPlace /\ table[l][u][1] \notin blocks
    THEN "DanglingMapping" ELSE LaneError(io)

Write(l, io, d) ==
    /\ pc = "idle"
    /\ IF WriteError(l, io) # NoPanic THEN Panic(WriteError(l, io))
       ELSE /\ WriteUnits(l, io, d)
            /\ pc' = IF NeedsGC(nFreeBlocks') THEN "select" ELSE "idle"
            /\ after' = "idle"
            /\ UNCHANGED <<filled, panic>>

(* initialize(): FillPages writes, then writes that create invalid pages *)
MaxPagesBeforeGC == NP * (NB - GCThreshold - NL)

FillTotal == FillPages + IF FillPages + InvalidPages > MaxPagesBeforeGC
                         THEN MaxPagesBeforeGC - FillPages ELSE InvalidPages

ASSUME FillAssumption ==
    FillPages <= MaxPagesBeforeGC /\ FillPages <= NLB*NP /\ FillTotal <= FillPages + NLB*NP

FillLPNs ==
    CASE filled < FillPages /\ FillMode # 2  -> {filled}
      [] filled >= FillPages /\ FillMode = 0 -> {filled - FillPages}
      [] filled >= FillPages /\ FillMode = 1 -> {l \in LPN : l < FillPages}
      [] OTHER -> LPN

Fill(l, d) ==
    /\ pc = "fill"
    /\ l \in FillLPNs
    /\ IF WriteError(l, Unit) # NoPanic THEN Panic(WriteError(l, Unit))
       ELSE /\ WriteUnits(l, Unit, d)
            /\ filled' = filled + 1
            /\ IF NeedsGC(nFreeBlocks')
               THEN pc' = "panic" /\ panic' = "GCInInitialization"
               ELSE /\ pc' = IF filled + 1 = FillTotal THEN "idle" ELSE "fill"
                    /\ UNCHANGED panic
            /\ UNCHANGED after

(* readInternal() looks up the blocks of the mapped units and changes      *)
(* nothing that is modelled.                                               *)
Read(l, io) ==
    /\ pc = "idle"
    /\ IF \E u \in io : table[l][u] # NoPlace /\ table[l][u][1] \notin blocks
       THEN Panic("BlockNotInUse") ELSE UNCHANGED vars

(* Mutant: only the block half of a mapping is reset. *)
ForgetHalf(lpns) ==
    /\ page' = [b \in Block |-> [p \in PageIdx |-> [u \in Unit |->
                  IF \E l \in lpns : table[l][u] = <<b, p>> THEN NoContent
                  ELSE page[b][p][u]]]]
    /\ table' = [l \in LPN |-> IF l \in lpns THEN [u \in Unit |-> <<NB, table[l][u][2]>>]
                               ELSE table[l]]

(* What trimInternal() and format() do to the pages of a set of LPNs *)
Forget(lpns) ==
    /\ page' = [b \in Block |-> [p \in PageIdx |-> [u \in Unit |->
                  IF \E l \in lpns : table[l][u] = <<b, p>> THEN NoContent
                  ELSE page[b][p][u]]]]
    /\ table' = [l \in LPN |-> IF l \in lpns THEN [u \in Unit |-> NoPlace]
                               ELSE table[l]]

(* Both look up the block of every unit of a page in the table, the units  *)
(* that were never written included.                                       *)
ForgetError(lpns) ==
    IF \E l \in lpns : Mapped(l) /\ \E u \in Unit : table[l][u][1] \notin blocks
    THEN "BlockNotInUse" ELSE NoPanic

Trim(l) ==
    /\ pc = "idle"
    /\ IF ForgetError({l}) # NoPanic THEN Panic(ForgetError({l}))
       ELSE /\ Forget({l})
            /\ UNCHANGED <<erased, next, wearVars, freeVars, laneVars,
                           bReclaimMore, controlVars, panic>>

(* Strictly increasing listings of a set of blocks *)
Listings(S) == {s \in [1 .. Cardinality(S) -> S] :
                   \A i, j \in DOMAIN s : i < j => s[i] < s[j]}

(* doGarbageCollection(list) begins *)
StartGC(list, return) ==
    /\ toReclaim' = list
    /\ toErase' = <<>>
    /\ pc' = IF list = <<>> THEN return ELSE "copy"
    /\ after' = return

(* The blocks the pages of a range are in, sorted and without duplicates *)
FormatVictims(range) ==
    {table[l][u][1] : l \in {k \in range : Mapped(k)}, u \in Unit}

(* format(): trim the range and reclaim every block a trimmed page was in, *)
(* whatever else the block holds.                                          *)
Format(range) ==
    /\ pc = "idle"
    /\ IF ForgetError(range) # NoPanic THEN Panic(ForgetError(range))
       ELSE /\ Forget(range)
            /\ \E list \in Listings(FormatVictims(range)) : StartGC(list, "idle")
            /\ UNCHANGED <<erased, next, wearVars, freeVars, laneVars,
                           bReclaimMore, layers, filled, panic>>

-----------------------------------------------------------------------------
(* Garbage collection *)

(* selectVictimBlock(): blocks to reclaim *)
VictimCount ==
    (IF GCMode = 0 THEN ReclaimBlocks ELSE ReclaimTarget - nFreeBlocks)
    + (IF bReclaimMore THEN NL ELSE 0)

Candidates == {b \in blocks : Full(b)}

(* calculateVictimWeight().  The cost-benefit weight divides by the time   *)
(* since the last access, which garbage collection sets from a variable it *)
(* never initialised: any order is possible.                               *)
VictimWeight(b) ==
    CASE EvictPolicy = "COST_BENEFIT" -> 0
      [] EvictPolicy = "RECO" -> ValidPageCountRaw(b) - RecoParam * refreshedPageCount[b]
      [] OTHER -> ValidPageCountRaw(b)

(* RANDOM and DCHOICE first draw that many distinct candidates.  The loop  *)
(* never ends if there are fewer, and fails at once if there are none.     *)
SampleSize == IF EvictPolicy = "DCHOICE" THEN DChoice * VictimCount ELSE VictimCount

Samples == IF EvictPolicy \in {"RANDOM", "DCHOICE"}
           THEN {S \in SUBSET Candidates : Cardinality(S) = SampleSize}
           ELSE {Candidates}

(* The lists a sort of S by weight may begin with; ties fall either way *)
LowestFirst(S, n) ==
    {s \in [1 .. n -> S] :
        /\ IsInjective(s)
        /\ \A i, j \in 1 .. n : i < j => VictimWeight(s[i]) <= VictimWeight(s[j])
        /\ \A b \in S \ Range(s), i \in 1 .. n : VictimWeight(s[i]) <= VictimWeight(b)}

SelectVictimBlock ==
    /\ pc = "select"
    /\ IF Samples = {} /\ Candidates = {} THEN Panic("OutOfRange")
       ELSE IF Samples = {} THEN Hang
       ELSE /\ \E S \in Samples :
                  \E list \in LowestFirst(S, Min({VictimCount, Cardinality(S)})) :
                      StartGC(list, after)
            /\ bReclaimMore' = FALSE
            /\ UNCHANGED <<table, blockVars, wearVars, freeVars, laneVars,
                           layers, filled, panic>>

(* One page of a block moves to the lanes: shared by GC and refresh *)
CopyError(b, p) ==
    IF \E u \in ValidUnits(b, p) : ~Mapped(page[b][p][u].lpn)
    THEN "InvalidMappingEntry" ELSE LaneError(ValidUnits(b, p))

CopyPage(b, p, count) ==
    /\ Program(ValidUnits(b, p), [u \in Unit |-> <<b, p>>], page[b][p])
    /\ GetLastFreeBlock(ValidUnits(b, p), count)

(* Mutant: the copy goes out but the table is left alone. *)
CopyForgotten ==
    LET b == Head(toReclaim)
        p == Min(ValidPages(b))
    IN  /\ pc = "copy"
        /\ toReclaim # <<>>
        /\ ValidPages(b) # {}
        /\ page' = [page EXCEPT ![b][p] = [u \in Unit |-> NoContent]]
        /\ UNCHANGED <<table, erased, next, wearVars, freeVars, laneVars,
                       bReclaimMore, controlVars, panic>>

(* doGarbageCollection(): copy the next valid page of the first victim *)
CopyVictimPage ==
    LET b == Head(toReclaim)
        p == Min(ValidPages(b))
    IN  /\ pc = "copy"
        /\ toReclaim # <<>>
        /\ ValidPages(b) # {}
        /\ IF b \notin blocks THEN Panic("InvalidBlock")
           ELSE IF CopyError(b, p) # NoPanic THEN Panic(CopyError(b, p))
           ELSE /\ CopyPage(b, p, refreshedPageCount)
                /\ UNCHANGED <<eraseCount, controlVars, panic>>

(* Mutant: the loop over the pages of the victim ends one page early. *)
VictimCopiedEarly ==
    /\ pc = "copy"
    /\ toReclaim # <<>>
    /\ ValidPages(Head(toReclaim)) \subseteq {NP-1}
    /\ toReclaim' = Tail(toReclaim)
    /\ toErase' = Append(toErase, Head(toReclaim))
    /\ pc' = IF toReclaim' = <<>> THEN "erase" ELSE "copy"
    /\ UNCHANGED <<table, blockVars, wearVars, freeVars, laneVars,
                   bReclaimMore, after, layers, filled, panic>>

(* The victim is empty; its erase request is queued behind the others *)
VictimCopied ==
    LET b == Head(toReclaim)
    IN  /\ pc = "copy"
        /\ toReclaim # <<>>
        /\ ValidPages(b) = {}
        /\ IF b \notin blocks THEN Panic("InvalidBlock")
           ELSE /\ toReclaim' = Tail(toReclaim)
                /\ toErase' = Append(toErase, b)
                /\ pc' = IF toReclaim' = <<>> THEN "erase" ELSE "copy"
                /\ UNCHANGED <<table, blockVars, wearVars, freeVars, laneVars,
                               bReclaimMore, after, layers, filled, panic>>

(* Mutant: before the block the search found, not behind it *)
InsertBefore(count) ==
    LET notAbove == {i \in DOMAIN freeBlocks : eraseCount[freeBlocks[i]] <= count}
    IN  IF notAbove = {} THEN 1 ELSE Max(notAbove)

(* eraseInternal(): behind the last free block erased no more often.  The  *)
(* search steps back from the end of the list also when it is empty; what  *)
(* it reads there only decides between two names of the same position.     *)
InsertPos(count) ==
    LET notAbove == {i \in DOMAIN freeBlocks : eraseCount[freeBlocks[i]] <= count}
    IN  IF notAbove = {} THEN 1 ELSE Max(notAbove) + 1

EraseError(b) ==
    CASE b \notin blocks -> "NoSuchBlock"
      [] b \in blocks /\ ValidPages(b) # {} -> "ValidPagesInVictim"
      [] OTHER -> NoPanic

(* Mutant: the write pointers survive the erase. *)
EraseKeepPointers(b) ==
    /\ page' = [page EXCEPT ![b] = [p \in PageIdx |-> [u \in Unit |-> NoContent]]]
    /\ erased' = [erased EXCEPT ![b] = [u \in Unit |-> PageIdx]]
    /\ eraseCount' = [eraseCount EXCEPT ![b] = @ + 1]
    /\ UNCHANGED next

EraseBlock(b) ==
    /\ page' = [page EXCEPT ![b] = [p \in PageIdx |-> [u \in Unit |-> NoContent]]]
    /\ erased' = [erased EXCEPT ![b] = [u \in Unit |-> PageIdx]]
    /\ next' = [next EXCEPT ![b] = [u \in Unit |-> 0]]
    /\ eraseCount' = [eraseCount EXCEPT ![b] = @ + 1]

(* Mutant: worn-out blocks are counted as free. *)
ReturnUncounted(b) ==
    /\ blocks' = blocks \ {b}
    /\ nFreeBlocks' = nFreeBlocks + 1
    /\ freeBlocks' = IF eraseCount[b] + 1 < BadBlock
                     THEN InsertAt(freeBlocks, InsertPos(eraseCount[b] + 1), b)
                     ELSE freeBlocks

(* A block erased BadBlock times is dropped, not returned to the list *)
ReturnBlock(b) ==
    /\ blocks' = blocks \ {b}
    /\ IF eraseCount[b] + 1 < BadBlock
       THEN /\ freeBlocks' = InsertAt(freeBlocks, InsertPos(eraseCount[b] + 1), b)
            /\ nFreeBlocks' = nFreeBlocks + 1
       ELSE UNCHANGED <<freeBlocks, nFreeBlocks>>

EraseInternal ==
    LET b == Head(toErase)
    IN  /\ pc = "erase"
        /\ toErase # <<>>
        /\ IF EraseError(b) # NoPanic THEN Panic(EraseError(b))
           ELSE /\ EraseBlock(b)
                /\ ReturnBlock(b)
                /\ toErase' = Tail(toErase)
                /\ pc' = IF toErase' = <<>> THEN after ELSE "erase"
                /\ UNCHANGED <<table, refreshedPageCount, laneVars, bReclaimMore,
                               after, toReclaim, layers, filled, panic>>

-----------------------------------------------------------------------------
(* Refresh *)

(* refreshPage(): ls is what the checked queue holds, cut at the limit.    *)
(* Which layers are due is the business of module RefreshQueue.            *)
RefreshEvent(ls) ==
    /\ pc = "idle"
    /\ layers' = ls
    /\ after' = "refresh"
    /\ pc' = IF NeedsGC(nFreeBlocks) THEN "select" ELSE "refresh"
    /\ UNCHANGED <<table, blockVars, wearVars, freeVars, laneVars, bReclaimMore,
                   toReclaim, toErase, filled, panic>>

LayerPages(b, layer) == {p \in ValidPages(b) : p % NLayers = layer}

RefreshLayerPage ==
    LET b  == Head(layers)[1]
        ps == LayerPages(b, Head(layers)[2])
        p  == Min(ps)
        count == [refreshedPageCount EXCEPT ![b] = @ + Cardinality(ValidUnits(b, p))]
    IN  /\ pc = "refresh"
        /\ layers # <<>>
        /\ b \in blocks
        /\ ps # {}
        /\ IF CopyError(b, p) # NoPanic THEN Panic(CopyError(b, p))
           ELSE /\ CopyPage(b, p, count)
                /\ UNCHANGED <<eraseCount, controlVars, panic>>

(* Mutant: the layer is not taken off the queue. *)
LayerKept ==
    /\ pc = "refresh"
    /\ layers # <<>>
    /\ Head(layers)[1] \notin blocks \/ LayerPages(Head(layers)[1], Head(layers)[2]) = {}
    /\ UNCHANGED vars

(* A layer with no valid page left, or whose block was reclaimed *)
LayerRefreshed ==
    /\ pc = "refresh"
    /\ layers # <<>>
    /\ Head(layers)[1] \notin blocks \/ LayerPages(Head(layers)[1], Head(layers)[2]) = {}
    /\ layers' = Tail(layers)
    /\ UNCHANGED <<table, blockVars, wearVars, freeVars, laneVars, bReclaimMore,
                   pc, after, toReclaim, toErase, filled, panic>>

(* Garbage collection because of refresh *)
RefreshDone ==
    /\ pc = "refresh"
    /\ layers = <<>>
    /\ pc' = IF NeedsGC(nFreeBlocks) THEN "select" ELSE "idle"
    /\ after' = "idle"
    /\ UNCHANGED <<table, blockVars, wearVars, freeVars, laneVars, bReclaimMore,
                   toReclaim, toErase, layers, filled, panic>>

-----------------------------------------------------------------------------
Init ==
    /\ table = [l \in LPN |-> [u \in Unit |-> NoPlace]]
    /\ blocks = Lane
    /\ page = [b \in Block |-> [p \in PageIdx |-> [u \in Unit |-> NoContent]]]
    /\ erased = [b \in Block |-> [u \in Unit |-> PageIdx]]
    /\ next = [b \in Block |-> [u \in Unit |-> 0]]
    /\ eraseCount = [b \in Block |-> 0]
    /\ refreshedPageCount = [b \in Block |-> 0]
    /\ freeBlocks = [i \in 1 .. NB-NL |-> NL + i - 1]
    /\ nFreeBlocks = NB - NL
    /\ lastFreeBlock = [k \in Lane |-> k]
    /\ lastFreeBlockIndex = 0
    /\ lastFreeBlockIOMap = {}
    /\ bReclaimMore = FALSE
    /\ filled = 0
    /\ pc = IF FillTotal = 0 THEN "idle" ELSE "fill"
    /\ after = "idle"
    /\ toReclaim = <<>>
    /\ toErase = <<>>
    /\ layers = <<>>
    /\ panic = NoPanic

RefreshLists == UNION {[1 .. n -> Layer] : n \in 0 .. MaxRefreshLayer}

HostStep ==
    \/ \E l \in LPN, d \in Data : Fill(l, d)
    \/ \E l \in LPN, io \in IOMaps, d \in Data : Write(l, io, d)
    \/ \E l \in LPN, io \in IOMaps : Read(l, io)
    \/ \E l \in LPN : Trim(l)
    \/ \E range \in FormatRanges : Format(range)

GCStep == SelectVictimBlock \/ CopyVictimPage \/ VictimCopied \/ EraseInternal

RefreshStep ==
    \/ \E ls \in RefreshLists : RefreshEvent(ls)
    \/ RefreshLayerPage
    \/ LayerRefreshed
    \/ RefreshDone

Next == HostStep \/ GCStep \/ RefreshStep

Spec == Init /\ [][Next]_vars

(* The code is one thread: a handler that has begun goes on.  No fairness  *)
(* is assumed of the host or of the refresh timer.                         *)
Running == GCStep \/ RefreshLayerPage \/ LayerRefreshed \/ RefreshDone

FairSpec == Spec /\ WF_vars(Running)

-----------------------------------------------------------------------------
(* Properties *)

Pcs == {"fill", "idle", "select", "copy", "erase", "refresh", "panic", "hung"}

Messages == {NoPanic, "Corrupted", "NoFreeBlockLeft", "FreeBlockInUse",
             "WriteToNonErasedPage", "DanglingMapping", "BlockNotInUse",
             "InvalidMappingEntry", "InvalidBlock", "NoSuchBlock",
             "ValidPagesInVictim", "OutOfRange", "GCInInitialization"}

(* Every variable has its type. *)
TypeOK ==
    /\ table \in [LPN -> [Unit -> Place \cup {NoPlace}]]
    /\ blocks \subseteq Block
    /\ page \in [Block -> [PageIdx -> [Unit -> Content \cup {NoContent}]]]
    /\ erased \in [Block -> [Unit -> SUBSET PageIdx]]
    /\ next \in [Block -> [Unit -> 0 .. NP]]
    /\ eraseCount \in [Block -> Nat]
    /\ refreshedPageCount \in [Block -> Nat]
    /\ freeBlocks \in Seq(Block)
    /\ nFreeBlocks \in Int
    /\ lastFreeBlock \in [Lane -> Block]
    /\ lastFreeBlockIndex \in Lane
    /\ lastFreeBlockIOMap \subseteq Unit
    /\ bReclaimMore \in BOOLEAN
    /\ filled \in Nat
    /\ pc \in Pcs
    /\ after \in {"idle", "refresh"}
    /\ toReclaim \in Seq(Block)
    /\ toErase \in Seq(Block)
    /\ layers \in Seq(Layer)
    /\ panic \in Messages

(* A mapped unit points into a block in use, at a valid page that carries  *)
(* the number of the logical page: no write, copy, trim or erase leaves a  *)
(* dangling or stale entry in the table.                                   *)
TableSound ==
    \A l \in LPN, u \in Unit :
        table[l][u] # NoPlace =>
            /\ table[l][u][1] \in blocks
            /\ page[table[l][u][1]][table[l][u][2]][u].lpn = l

(* A valid unit is the one the table maps its logical page to: no two      *)
(* places are valid for the same unit, and none is forgotten.              *)
PagesReachable ==
    \A b \in Block, p \in PageIdx, u \in Unit :
        page[b][p][u] # NoContent => table[page[b][p][u].lpn][u] = <<b, p>>

(* The table and the valid bits of the blocks are inverse to each other,   *)
(* at every step of every handler.                                         *)
MappingConsistent == TableSound /\ PagesReachable

(* Pages are programmed in order: of every unit of a block exactly the     *)
(* pages from the write pointer on are erased, only pages below it are     *)
(* valid, and a block that is not in use is erased.                        *)
WriteFrontier ==
    \A b \in Block, u \in Unit :
        /\ erased[b][u] = {p \in PageIdx : p >= next[b][u]}
        /\ \A p \in PageIdx : page[b][p][u] # NoContent => p < next[b][u]
        /\ b \notin blocks => next[b][u] = 0

(* Every block is in use, in the free list once, or worn out, and the      *)
(* counter that starts garbage collection agrees with the list.            *)
FreeListExact ==
    /\ nFreeBlocks = Len(freeBlocks)
    /\ IsInjective(freeBlocks)
    /\ \A b \in Block :
          IF eraseCount[b] >= BadBlock
          THEN b \notin blocks \cup Range(freeBlocks)
          ELSE b \in blocks <=> b \notin Range(freeBlocks)

(* The block a lane takes is one erased least often among the free blocks  *)
(* of its lane: the reverse search of eraseInternal() keeps the list in    *)
(* order of wear.                                                          *)
WearOrder ==
    [][\A b \in blocks' \ blocks, c \in Range(freeBlocks) :
          c % NL = b % NL => eraseCount[b] <= eraseCount[c]]_vars

(* Why the code stops.  Seven of its checks never fire, whatever the host  *)
(* does: a free block that is in use, a write to a page that is not        *)
(* erased, an old mapping into a block not in use, a valid page that is    *)
(* not mapped, a victim that is gone before it is copied or erased, a      *)
(* collection during the fill.  The other checks against a corrupted drive *)
(* do fire, but each for one reason only: a page is trimmed or formatted   *)
(* of which a unit was never written; a victim with valid pages is one of  *)
(* a format; a lane finds its block gone because it was erased under it.   *)
PanicsExplained ==
    /\ panic \notin {"FreeBlockInUse", "WriteToNonErasedPage", "DanglingMapping",
                     "InvalidMappingEntry", "InvalidBlock", "NoSuchBlock",
                     "GCInInitialization"}
    /\ panic = "BlockNotInUse" =>
          \E l \in LPN : Mapped(l) /\ \E u \in Unit : table[l][u] = NoPlace
    /\ panic = "ValidPagesInVictim" => FormatRanges # {}
    /\ panic = "Corrupted" =>
          \E k \in Lane : /\ lastFreeBlock[k] \notin blocks
                          /\ eraseCount[lastFreeBlock[k]] > 0

(* A block is erased only when everything in it was copied out, also when  *)
(* the copies of a later victim could have landed in an earlier one.       *)
VictimsEmpty == panic # "ValidPagesInVictim"

(* Every lane points to a block in use, so that getLastFreeBlock() never   *)
(* finds its block erased under it.                                        *)
LanesInUse == panic # "Corrupted"

(* Every handler ends: victims, queued erases and refreshed layers run out *)
(* although a copied page can land in the very block it was copied from.   *)
HandlersEnd == pc \notin {"idle", "fill", "panic"} ~> pc \in {"idle", "panic"}

(* What the host would read *)
LogicalContent ==
    [l \in LPN |-> [u \in Unit |->
        IF table[l][u] = NoPlace THEN NoContent.data
        ELSE page[table[l][u][1]][table[l][u][2]][u].data]]

Store == INSTANCE LogicalStore WITH store <- LogicalContent, Absent <- NoContent.data

(* The layer implements the logical store: only writes, trims and formats  *)
(* change what is read, each exactly as it promises; garbage collection,   *)
(* refresh and wear levelling change nothing.                              *)
RefinesStore == Store!Spec

(* While a handler is at work behind a write, a format or the refresh      *)
(* timer, what the host reads stays the same: no copy or erase loses, mixes *)
(* up or revives a unit, not even for the time between two steps.           *)
ContentKept == [][pc \notin {"idle", "fill"} => UNCHANGED LogicalContent]_vars
=============================================================================

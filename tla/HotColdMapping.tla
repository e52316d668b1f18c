--------------------------- MODULE HotColdMapping ---------------------------
(***************************************************************************)
(* The page-mapping flash translation layer of simplessd/ftl with the      *)
(* hot/cold separation enabled: the sep...() handlers of page_mapping.cc.  *)
(* Blocks belong to a hot or a cold pool.  Rewritten data goes to the hot  *)
(* lanes, other data and everything garbage collection saves to the cool   *)
(* lanes, whose blocks are in a window of cool blocks until enough others  *)
(* follow; data a refresh finds in a cold block goes to the cold lanes.    *)
(*                                                                         *)
(* As in PageMapping, pc says where in a handler the code is, time and the *)
(* DRAM and PAL requests are left out, and the datum of a page is history. *)
(* A page is mapped as a whole (bitsetSize = 1).                           *)
(***************************************************************************)
EXTENDS Integers, Sequences, FiniteSets, SequencesExt, FiniteSetsExt, Functions, Lists

CONSTANTS
    NB,            \* param.totalPhysicalBlocks
    NHot,          \* hotBlocksLimit: the hot blocks are 0 .. NHot-1
    NP,            \* param.pagesInBlock
    NL,            \* param.pageCountToMaxPerf: lanes of each kind
    NLPN,          \* logical pages
    NLayers,       \* layers of a block, 64 in the code
    Cooldown,      \* nCooldownBlocks
    HotThreshold,  \* hot GC runs when nHotFreeBlocks is less
    ColdThreshold, \* cold GC runs when nColdFreeBlocks is less
    ReclaimBlocks, \* FTL_GC_RECLAIM_BLOCK
    GCMode,        \* 0 or 1
    HotTarget,     \* hotBlocksLimit * FTL_GC_RECLAIM_THRESHOLD
    ColdTarget,    \* coldBlocksLimit * FTL_GC_RECLAIM_THRESHOLD
    EvictPolicy,   \* FTL_GC_EVICT_POLICY
    BadBlock,      \* FTL_BAD_BLOCK_THRESHOLD, bounds the erase counts
    ColdFill,      \* pages filled cold by initialize()
    HotFill,       \* pages filled hot by initialize()
    MaxRefreshLayer, \* FTL_REFRESH_MAX_LAYER_NUM
    Data           \* history data

Block   == 0 .. NB-1
PageIdx == 0 .. NP-1
Lane    == 0 .. NL-1
LPN     == 0 .. NLPN-1
Layer   == Block \X (0 .. NLayers-1)
Kind    == {"HOT", "COOL", "COLD"}
NoPlace == <<NB, NP>>
NoContent == [lpn |-> -1, data |-> "none"]

(* The invalid page ratio is zero: that step of initialize() would write   *)
(* with the handlers that know no separation.                              *)
ASSUME SeparationAssumption ==
    /\ {NB, NHot, NP, NL, NLPN, NLayers, Cooldown, BadBlock} \subseteq Nat \ {0}
    /\ {HotThreshold, ColdThreshold, ReclaimBlocks, HotTarget, ColdTarget,
        ColdFill, HotFill, MaxRefreshLayer} \subseteq Nat
    /\ NL < NHot /\ NHot + 2*NL < NB
    /\ GCMode \in {0, 1} /\ (GCMode = 1 => HotTarget >= HotThreshold /\ ColdTarget >= ColdThreshold)
    /\ EvictPolicy \in {"GREEDY", "RECO"}
    /\ ColdFill + HotFill <= NLPN

VARIABLES
    table,          \* table[l]: place of page l, or NoPlace
    blocks,         \* indices of the blocks in use
    page,           \* page[b][p]: valid content, or NoContent
    next,           \* next[b]: write pointer
    type,           \* type[b]: getBlockType()
    eraseCount,
    hotFreeBlocks, coldFreeBlocks,
    last,           \* lastHotFreeBlock, lastCoolFreeBlock, lastColdFreeBlock
    index,          \* lastHotFreeBlockIndex, ...
    hotWindow, coolDownWindow,
    bReclaimMore,
    filled,         \* pages written by initialize()
    pc, after, toReclaim, toErase, \* as in PageMapping
    layers,         \* layers the running refresh still has to copy
    layer,          \* the one it copies, with the type its block had
    panic

mapVars     == <<table, page, next>>
poolVars    == <<blocks, type, hotFreeBlocks, coldFreeBlocks, hotWindow, coolDownWindow>>
laneVars    == <<last, index, bReclaimMore>>
controlVars == <<after, toReclaim, toErase, layers, layer, filled>>
vars == <<mapVars, poolVars, laneVars, eraseCount, controlVars, pc, panic>>

NoPanic == "none"
NoLayer == [b |-> 0, n |-> 0, kind |-> "COLD"]

Panic(message) ==
    /\ pc' = "panic"
    /\ panic' = message
    /\ UNCHANGED <<mapVars, poolVars, laneVars, eraseCount, controlVars>>

Full(b) == next[b] = NP

ValidPages(b) == {p \in PageIdx : page[b][p] # NoContent}

-----------------------------------------------------------------------------
(* Allocation *)

(* The first block of the lane in a free list, else the first one *)
FreePos(list, k) ==
    LET own == {i \in DOMAIN list : list[i] % NL = k}
    IN  IF own = {} THEN 1 ELSE Min(own)

Free(kind) == IF kind = "HOT" THEN hotFreeBlocks ELSE coldFreeBlocks

FreeBlock(kind, k) == Free(kind)[FreePos(Free(kind), k)]

(* The panics of getHotFreeBlock() and getColdFreeBlock() *)
AllocError(kind, k, cool) ==
    CASE Free(kind) = <<>> -> "NoFreeBlockLeft"
      [] Free(kind) # <<>> /\ FreeBlock(kind, k) \in blocks -> "FreeBlockInUse"
      [] OTHER -> IF cool /\ Len(coolDownWindow) >= Cooldown
                     /\ Head(coolDownWindow) \notin blocks
                  THEN "CoolBlockLost" ELSE NoPanic

(* The windows and types after a block was taken for lane k: a full window *)
(* of cool blocks lets its oldest block go, which is a cold one then.      *)
Leaving == IF Len(coolDownWindow) >= Cooldown THEN {Head(coolDownWindow)} ELSE {}

(* Mutant: a block that leaves the window stays cool. *)
AllocStaysCool(kind, k, cool) ==
    LET b == FreeBlock(kind, k)
        window == IF Leaving = {} THEN coolDownWindow ELSE Tail(coolDownWindow)
    IN  /\ type' = [type EXCEPT ![b] = IF cool THEN "COOL" ELSE kind]
        /\ hotWindow' = IF kind = "HOT" THEN Append(hotWindow, b) ELSE hotWindow
        /\ coolDownWindow' = IF cool THEN Append(window, b) ELSE coolDownWindow

Alloc(kind, k, cool) ==
    LET b == FreeBlock(kind, k)
        window == IF Leaving = {} THEN coolDownWindow ELSE Tail(coolDownWindow)
    IN  /\ type' = [c \in Block |->
                       CASE c = b -> IF cool THEN "COOL" ELSE kind
                         [] c # b /\ cool /\ c \in Leaving -> "COLD"
                         [] OTHER -> type[c]]
        /\ hotWindow' = IF kind = "HOT" THEN Append(hotWindow, b) ELSE hotWindow
        /\ coolDownWindow' = IF cool THEN Append(window, b) ELSE coolDownWindow

LaneFor(kind) == (index[kind] + 1) % NL

(* The block of the lane whose turn it is, and the one a write goes to *)
LaneBlock(kind) == last[kind][LaneFor(kind)]

Target(kind) ==
    IF Full(LaneBlock(kind)) THEN FreeBlock(kind, LaneFor(kind)) ELSE LaneBlock(kind)

LaneError(kind) ==
    CASE LaneBlock(kind) \notin blocks -> "Corrupted"
      [] LaneBlock(kind) \in blocks /\ Full(LaneBlock(kind)) ->
             AllocError(kind, LaneFor(kind), kind = "COOL")
      [] OTHER -> NoPanic

(* getLastHotFreeBlock(), getLastCoolFreeBlock(), getLastColdFreeBlock() *)
GetLastFreeBlock(kind) ==
    LET k == LaneFor(kind)
    IN  /\ index' = [index EXCEPT ![kind] = k]
        /\ IF Full(LaneBlock(kind))
           THEN /\ Alloc(kind, k, kind = "COOL")
                /\ blocks' = blocks \cup {Target(kind)}
                /\ hotFreeBlocks' = IF kind = "HOT"
                                    THEN RemoveAt(hotFreeBlocks, FreePos(hotFreeBlocks, k))
                                    ELSE hotFreeBlocks
                /\ coldFreeBlocks' = IF kind = "HOT" THEN coldFreeBlocks
                                     ELSE RemoveAt(coldFreeBlocks, FreePos(coldFreeBlocks, k))
                /\ last' = [last EXCEPT ![kind][k] = Target(kind)]
                /\ bReclaimMore' = TRUE
           ELSE UNCHANGED <<poolVars, last, bReclaimMore>>

(* Mutant: the old place stays valid. *)
ProgramKeepOld(kind, old, c) ==
    LET b == Target(kind)
    IN  /\ page' = [page EXCEPT ![b][next[b]] = c]
        /\ next' = [next EXCEPT ![b] = @ + 1]
        /\ table' = [table EXCEPT ![c.lpn] = <<b, next[b]>>]

(* Content c moves from place old to the write pointer of the target. *)
Program(kind, old, c) ==
    LET b == Target(kind)
    IN  /\ page' = [d \in Block |-> [p \in PageIdx |->
                       IF d = b /\ p = next[b] THEN c
                       ELSE IF old = <<d, p>> THEN NoContent
                       ELSE page[d][p]]]
        /\ next' = [next EXCEPT ![b] = @ + 1]
        /\ table' = [table EXCEPT ![c.lpn] = <<b, next[b]>>]

-----------------------------------------------------------------------------
(* Host operations *)

(* Data that was rewritten while hot or cool is hot. *)
Temperature(l) ==
    IF table[l] # NoPlace /\ type[table[l][1]] \in {"HOT", "COOL"} THEN "HOT" ELSE "COOL"

WriteError(l, kind) ==
    IF table[l] # NoPlace /\ table[l][1] \notin blocks THEN "DanglingMapping"
    ELSE LaneError(kind)

(* The handler that goes on after cold garbage collection, or without it *)
AfterCold(free) == IF Len(free) < HotThreshold THEN "selectHot" ELSE "idle"

(* sepWriteInternal() *)
Write(l, d) ==
    /\ pc = "idle"
    /\ IF WriteError(l, Temperature(l)) # NoPanic THEN Panic(WriteError(l, Temperature(l)))
       ELSE /\ Program(Temperature(l), table[l], [lpn |-> l, data |-> d])
            /\ GetLastFreeBlock(Temperature(l))
            /\ pc' = IF Len(coldFreeBlocks') < ColdThreshold THEN "selectCold"
                     ELSE AfterCold(hotFreeBlocks')
            /\ after' = "hot"
            /\ UNCHANGED <<eraseCount, toReclaim, toErase, layers, layer, filled, panic>>

(* initialize(): sepWriteInternal(), then sepHotWriteInternal() *)
Fill(d) ==
    LET kind == IF filled < ColdFill THEN "COOL" ELSE "HOT"
    IN  /\ pc = "fill"
        /\ IF WriteError(filled, kind) # NoPanic THEN Panic(WriteError(filled, kind))
           ELSE /\ Program(kind, NoPlace, [lpn |-> filled, data |-> d])
                /\ GetLastFreeBlock(kind)
                /\ filled' = filled + 1
                /\ IF Len(coldFreeBlocks') < ColdThreshold \/ Len(hotFreeBlocks') < HotThreshold
                   THEN pc' = "panic" /\ panic' = "GCInInitialization"
                   ELSE /\ pc' = IF filled + 1 = ColdFill + HotFill THEN "idle" ELSE "fill"
                        /\ UNCHANGED panic
                /\ UNCHANGED <<eraseCount, after, toReclaim, toErase, layers, layer>>

Forget(lpns) ==
    /\ page' = [b \in Block |-> [p \in PageIdx |->
                   IF page[b][p].lpn \in lpns THEN NoContent ELSE page[b][p]]]
    /\ table' = [l \in LPN |-> IF l \in lpns THEN NoPlace ELSE table[l]]

Mapped(lpns) == {l \in lpns : table[l] # NoPlace}

Dangling(lpns) == \E l \in Mapped(lpns) : table[l][1] \notin blocks

(* trimInternal() *)
Trim(l) ==
    /\ pc = "idle" /\ Mapped({l}) # {}
    /\ IF Dangling({l}) THEN Panic("BlockNotInUse")
       ELSE Forget({l}) /\ UNCHANGED <<next, poolVars, laneVars, eraseCount, controlVars, pc, panic>>

-----------------------------------------------------------------------------
(* Garbage collection *)

(* The handler goes on behind a garbage collection. *)
Resume(free) == IF after = "hot" THEN AfterCold(free) ELSE after

VictimCount(target, free) ==
    (IF GCMode = 0 THEN ReclaimBlocks ELSE target - free) + (IF bReclaimMore THEN 1 ELSE 0)

StartGC(list) ==
    /\ bReclaimMore' = FALSE
    /\ toReclaim' = list
    /\ pc' = IF list = <<>> THEN Resume(hotFreeBlocks) ELSE "copy"

(* selectHotVictimBlock(): the oldest of the hot window leave it. *)
SelectHotVictimBlock ==
    LET n == Min({VictimCount(HotTarget, Len(hotFreeBlocks)), Len(hotWindow)})
    IN  /\ pc = "selectHot"
        /\ after' = "idle"
        /\ bReclaimMore' = FALSE
        /\ toReclaim' = SubSeq(hotWindow, 1, n)
        /\ hotWindow' = SubSeq(hotWindow, n + 1, Len(hotWindow))
        /\ pc' = IF n = 0 THEN "idle" ELSE "copy"
        /\ UNCHANGED <<mapVars, blocks, type, hotFreeBlocks, coldFreeBlocks, coolDownWindow,
                       last, index, eraseCount, toErase, layers, layer, filled, panic>>

Candidates == {b \in blocks : type[b] # "HOT" /\ Full(b)}

(* Victims in the order of their weight; RECO adds an arbitrary bonus. *)
Lowest(n) ==
    {s \in [1 .. n -> Candidates] :
        /\ IsInjective(s)
        /\ EvictPolicy = "GREEDY" =>
               LET Weight(b) == Cardinality(ValidPages(b))
               IN  /\ \A i, j \in 1 .. n : i < j => Weight(s[i]) <= Weight(s[j])
                   /\ \A b \in Candidates \ Range(s), i \in 1 .. n : Weight(s[i]) <= Weight(b)}

(* selectColdVictimBlock(): victims leave the window of cool blocks. *)
SelectColdVictimBlock ==
    LET n == Min({VictimCount(ColdTarget, Len(coldFreeBlocks)), Cardinality(Candidates)})
    IN  /\ pc = "selectCold"
        /\ \E list \in Lowest(n) :
               /\ StartGC(list)
               /\ coolDownWindow' = Without(coolDownWindow, Range(list))
        /\ UNCHANGED <<mapVars, blocks, type, hotFreeBlocks, coldFreeBlocks, hotWindow,
                       last, index, eraseCount, after, toErase, layers, layer, filled, panic>>

(* Mutant: the copy is not entered in the table. *)
CopyUnmapped(b, p, kind) ==
    IF LaneError(kind) # NoPanic THEN Panic(LaneError(kind))
    ELSE /\ page' = [page EXCEPT ![b][p] = NoContent, ![Target(kind)][next[Target(kind)]] = page[b][p]]
         /\ next' = [next EXCEPT ![Target(kind)] = @ + 1]
         /\ GetLastFreeBlock(kind)
         /\ UNCHANGED <<table, eraseCount, controlVars, pc, panic>>

(* The page of a block that is copied next, for garbage collection and refresh *)
CopyPage(b, p, kind) ==
    IF LaneError(kind) # NoPanic THEN Panic(LaneError(kind))
    ELSE /\ Program(kind, <<b, p>>, page[b][p])
         /\ GetLastFreeBlock(kind)
         /\ UNCHANGED <<eraseCount, controlVars, pc, panic>>

(* sepDoGarbageCollection(): everything it saves goes to the cool lanes. *)
CopyVictimPage ==
    LET b == Head(toReclaim)
    IN  /\ pc = "copy" /\ toReclaim # <<>>
        /\ ValidPages(b) # {} \/ b \notin blocks
        /\ IF b \notin blocks THEN Panic("InvalidBlock")
           ELSE CopyPage(b, Min(ValidPages(b)), "COOL")

(* Mutant: the loop over the pages of the victim ends one page early. *)
VictimCopiedEarly ==
    LET b == Head(toReclaim)
    IN  /\ pc = "copy" /\ toReclaim # <<>>
        /\ b \in blocks /\ ValidPages(b) \subseteq {NP - 1}
        /\ toReclaim' = Tail(toReclaim)
        /\ toErase' = Append(toErase, b)
        /\ pc' = IF toReclaim' = <<>> THEN "erase" ELSE "copy"
        /\ UNCHANGED <<mapVars, poolVars, laneVars, eraseCount, after, layers, layer, filled, panic>>

VictimCopied ==
    LET b == Head(toReclaim)
    IN  /\ pc = "copy" /\ toReclaim # <<>>
        /\ b \in blocks /\ ValidPages(b) = {}
        /\ toReclaim' = Tail(toReclaim)
        /\ toErase' = Append(toErase, b)
        /\ pc' = IF toReclaim' = <<>> THEN "erase" ELSE "copy"
        /\ UNCHANGED <<mapVars, poolVars, laneVars, eraseCount, after, layers, layer, filled, panic>>

(* Behind the last free block erased no more often *)
InsertPos(list, count) ==
    LET notAbove == {i \in DOMAIN list : eraseCount[list[i]] <= count}
    IN  IF notAbove = {} THEN 1 ELSE Max(notAbove) + 1

(* The lanes of its own type that write to block b *)
LanesOf(b) == IF type[b] = "HOT" THEN {} ELSE {k \in Lane : last[type[b]][k] = b}

(***************************************************************************)
(* A cold block goes back to its list.  If it is the block of a lane, the  *)
(* lane takes another one first, as a cool block: the position in the list *)
(* was found before, and is gone if the lane takes the block there.        *)
(***************************************************************************)
ReturnToLane(b, k) ==
    LET pos == InsertPos(coldFreeBlocks, eraseCount[b] + 1)
        taken == FreePos(coldFreeBlocks, k)
        rest == RemoveAt(coldFreeBlocks, taken)
    IN  /\ Alloc("COLD", k, TRUE)
        /\ blocks' = (blocks \ {b}) \cup {coldFreeBlocks[taken]}
        /\ coldFreeBlocks' = InsertAt(rest, IF taken < pos THEN pos - 1 ELSE pos, b)
        /\ last' = [last EXCEPT ![type[b]][k] = coldFreeBlocks[taken]]
        /\ bReclaimMore' = TRUE
        /\ UNCHANGED hotFreeBlocks

(* Mutant: every block goes to the cold list. *)
ReturnCold(b) ==
    /\ blocks' = blocks \ {b}
    /\ coldFreeBlocks' = IF eraseCount[b] + 1 >= BadBlock THEN coldFreeBlocks
                         ELSE InsertAt(coldFreeBlocks, InsertPos(coldFreeBlocks, eraseCount[b] + 1), b)
    /\ UNCHANGED <<type, hotFreeBlocks, hotWindow, coolDownWindow, last, bReclaimMore>>

ReturnBlock(b) ==
    /\ blocks' = blocks \ {b}
    /\ IF eraseCount[b] + 1 >= BadBlock THEN UNCHANGED <<hotFreeBlocks, coldFreeBlocks>>
       ELSE IF type[b] = "HOT"
       THEN /\ hotFreeBlocks' = InsertAt(hotFreeBlocks, InsertPos(hotFreeBlocks, eraseCount[b] + 1), b)
            /\ UNCHANGED coldFreeBlocks
       ELSE /\ coldFreeBlocks' = InsertAt(coldFreeBlocks, InsertPos(coldFreeBlocks, eraseCount[b] + 1), b)
            /\ UNCHANGED hotFreeBlocks
    /\ UNCHANGED <<type, hotWindow, coolDownWindow, last, bReclaimMore>>

Repairs(b) == eraseCount[b] + 1 < BadBlock /\ LanesOf(b) # {}

EraseError(b) ==
    CASE b \notin blocks -> "NoSuchBlock"
      [] b \in blocks /\ ValidPages(b) # {} -> "ValidPagesInVictim"
      [] b \in blocks /\ ValidPages(b) = {} /\ Repairs(b) ->
            LET k == Min(LanesOf(b))
            IN  IF AllocError("COLD", k, TRUE) # NoPanic THEN AllocError("COLD", k, TRUE)
                ELSE IF FreePos(coldFreeBlocks, k) = InsertPos(coldFreeBlocks, eraseCount[b] + 1)
                THEN "PositionGone" ELSE NoPanic
      [] OTHER -> NoPanic

(* sepEraseInternal() *)
EraseInternal ==
    LET b == Head(toErase)
    IN  /\ pc = "erase" /\ toErase # <<>>
        /\ IF EraseError(b) # NoPanic THEN Panic(EraseError(b))
           ELSE /\ next' = [next EXCEPT ![b] = 0]
                /\ eraseCount' = [eraseCount EXCEPT ![b] = @ + 1]
                /\ IF Repairs(b) THEN ReturnToLane(b, Min(LanesOf(b))) ELSE ReturnBlock(b)
                /\ toErase' = Tail(toErase)
                /\ pc' = IF toErase' = <<>> THEN Resume(hotFreeBlocks') ELSE "erase"
                /\ UNCHANGED <<table, page, index, after, toReclaim, layers, layer, filled, panic>>

-----------------------------------------------------------------------------
(* Refresh *)

NeedsColdGC == Len(coldFreeBlocks) < ColdThreshold

(* refreshPage(): which layers are due is the business of RefreshQueue. *)
RefreshEvent(ls) ==
    /\ pc = "idle"
    /\ layers' = ls
    /\ after' = "refresh"
    /\ pc' = IF NeedsColdGC THEN "selectCold" ELSE "refresh"
    /\ UNCHANGED <<mapVars, poolVars, laneVars, eraseCount, toReclaim, toErase, layer, filled, panic>>

(* Mutant: the layer stays on the list. *)
TakeLayerKept ==
    LET b == Head(layers)[1]
    IN  /\ pc = "refresh" /\ layers # <<>>
        /\ layer' = [b |-> b, n |-> Head(layers)[2], kind |-> type[b]]
        /\ pc' = IF b \in blocks THEN "layer" ELSE "refresh"
        /\ UNCHANGED <<mapVars, poolVars, laneVars, eraseCount, after, toReclaim, toErase,
                       layers, filled, panic>>

(* The type of the block is read once for the layer. *)
TakeLayer ==
    LET b == Head(layers)[1]
    IN  /\ pc = "refresh" /\ layers # <<>>
        /\ layers' = Tail(layers)
        /\ layer' = [b |-> b, n |-> Head(layers)[2], kind |-> type[b]]
        /\ pc' = IF b \in blocks THEN "layer" ELSE "refresh"
        /\ UNCHANGED <<mapVars, poolVars, laneVars, eraseCount, after, toReclaim, toErase, filled, panic>>

LayerPages == {p \in ValidPages(layer.b) : p % NLayers = layer.n}

RefreshLayerPage ==
    /\ pc = "layer" /\ LayerPages # {}
    /\ CopyPage(layer.b, Min(LayerPages), IF layer.kind = "COLD" THEN "COLD" ELSE "COOL")

LayerRefreshed ==
    /\ pc = "layer" /\ LayerPages = {}
    /\ pc' = "refresh" /\ layer' = NoLayer
    /\ UNCHANGED <<mapVars, poolVars, laneVars, eraseCount, after, toReclaim, toErase,
                   layers, filled, panic>>

RefreshDone ==
    /\ pc = "refresh" /\ layers = <<>>
    /\ pc' = IF NeedsColdGC THEN "selectCold" ELSE "idle"
    /\ after' = "idle"
    /\ UNCHANGED <<mapVars, poolVars, laneVars, eraseCount, toReclaim, toErase, layers, layer, filled, panic>>

-----------------------------------------------------------------------------
(* The constructor: lane k takes a hot, a cool and a cold block in turn. *)
FirstCool(k) == Min({b \in NHot .. NB-1 : b % NL = k})

FirstLanes ==
    [kind \in Kind |-> [k \in Lane |-> CASE kind = "HOT"  -> k
                                         [] kind = "COOL" -> FirstCool(k)
                                         [] kind = "COLD" -> FirstCool(k) + NL]]

FirstWindow == LET n == Min({NL, Cooldown}) IN [i \in 1 .. n |-> FirstCool(NL - n + i - 1)]

Init ==
    /\ table = [l \in LPN |-> NoPlace]
    /\ page = [b \in Block |-> [p \in PageIdx |-> NoContent]]
    /\ next = [b \in Block |-> 0]
    /\ eraseCount = [b \in Block |-> 0]
    /\ blocks = (0 .. NL-1) \cup (NHot .. NHot + 2*NL - 1)
    /\ type = [b \in Block |-> CASE b < NHot -> "HOT"
                                 [] b \in Range(FirstWindow) -> "COOL"
                                 [] OTHER -> "COLD"]
    /\ hotFreeBlocks = [i \in 1 .. NHot - NL |-> NL + i - 1]
    /\ coldFreeBlocks = [i \in 1 .. NB - NHot - 2*NL |-> NHot + 2*NL + i - 1]
    /\ hotWindow = [i \in 1 .. NL |-> i - 1]
    /\ coolDownWindow = FirstWindow
    /\ last = FirstLanes
    /\ index = [kind \in Kind |-> 0]
    /\ bReclaimMore = FALSE
    /\ filled = 0
    /\ pc = IF ColdFill + HotFill = 0 THEN "idle" ELSE "fill"
    /\ after = "idle"
    /\ toReclaim = <<>> /\ toErase = <<>> /\ layers = <<>> /\ layer = NoLayer
    /\ panic = NoPanic

HostStep ==
    \/ \E d \in Data : Fill(d)
    \/ \E l \in LPN, d \in Data : Write(l, d)
    \/ \E l \in LPN : Trim(l)

GCStep ==
    \/ SelectColdVictimBlock \/ SelectHotVictimBlock
    \/ CopyVictimPage \/ VictimCopied \/ EraseInternal

RefreshStep == TakeLayer \/ RefreshLayerPage \/ LayerRefreshed \/ RefreshDone

(* Bound of the model: layers that hold data when the refresh begins *)
DataLayers == {x \in Layer : \E p \in ValidPages(x[1]) : p % NLayers = x[2]}

RefreshLists == UNION {[1 .. n -> DataLayers] : n \in 0 .. MaxRefreshLayer}

Next ==
    \/ HostStep \/ GCStep \/ RefreshStep
    \/ \E ls \in RefreshLists : RefreshEvent(ls)

Spec == Init /\ [][Next]_vars

(* A handler that has begun goes on; nothing is assumed of the host. *)
FairSpec == Spec /\ WF_vars(GCStep \/ RefreshStep)

-----------------------------------------------------------------------------
(* Properties *)

(* Every variable has its type. *)
TypeOK ==
    /\ table \in [LPN -> (Block \X PageIdx) \cup {NoPlace}]
    /\ blocks \subseteq Block
    /\ page \in [Block -> [PageIdx -> [lpn : LPN, data : Data] \cup {NoContent}]]
    /\ next \in [Block -> 0 .. NP]
    /\ type \in [Block -> Kind]
    /\ eraseCount \in [Block -> 0 .. BadBlock]
    /\ {hotFreeBlocks, coldFreeBlocks, hotWindow, coolDownWindow, toReclaim, toErase}
           \subseteq Seq(Block)
    /\ last \in [Kind -> [Lane -> Block]] /\ index \in [Kind -> Lane]
    /\ bReclaimMore \in BOOLEAN /\ filled \in 0 .. ColdFill + HotFill
    /\ layers \in Seq(Layer)

(***************************************************************************)
(* Across the hot, cool and cold handlers, the table and the valid pages   *)
(* of the blocks are inverse to each other: no copy leaves two valid       *)
(* versions of a page, none is in a block that was erased.                 *)
(***************************************************************************)
MappingConsistent ==
    /\ TypeOK
    /\ \A l \in LPN : table[l] # NoPlace =>
           table[l][1] \in blocks /\ page[table[l][1]][table[l][2]].lpn = l
    /\ \A b \in Block, p \in PageIdx :
           page[b][p] # NoContent => table[page[b][p].lpn] = <<b, p>>

(***************************************************************************)
(* Blocks never change pools, and a block is in the free list of its pool  *)
(* exactly when it is not in use and not worn out, and then once: the lane *)
(* repair of sepEraseInternal(), which takes a block out of the list while *)
(* it puts another one in, keeps that too.                                 *)
(***************************************************************************)
PoolsKept ==
    /\ IsInjective(hotFreeBlocks \o coldFreeBlocks)
    /\ \A b \in Block :
           /\ type[b] = "HOT" <=> b < NHot
           /\ b \in Range(Free(type[b])) <=> b \notin blocks /\ eraseCount[b] < BadBlock

Victims == Range(toReclaim) \cup Range(toErase)

(***************************************************************************)
(* The two windows are what the block types say: a block in use that is no *)
(* victim is in the hot window exactly when it is hot, in the cool-down    *)
(* window exactly when it is cool.  A block that leaves a window otherwise *)
(* is one selectHotVictimBlock() never reclaims, or one that stays cool.   *)
(***************************************************************************)
WindowsExact ==
    /\ IsInjective(hotWindow) /\ IsInjective(coolDownWindow)
    /\ Len(coolDownWindow) <= Cooldown
    /\ \A b \in blocks \ Victims :
           /\ b \in Range(hotWindow) <=> type[b] = "HOT"
           /\ b \in Range(coolDownWindow) <=> type[b] = "COOL"

(***************************************************************************)
(* None of the panics for a state that should not be is reached: a block   *)
(* of the cool-down window that is not in use, a victim erased with valid  *)
(* pages, a victim or a mapped block that is not in use, a free block that *)
(* is.                                                                     *)
(***************************************************************************)
NoCorruption ==
    panic \notin {"CoolBlockLost", "ValidPagesInVictim", "InvalidBlock", "NoSuchBlock",
                  "FreeBlockInUse", "DanglingMapping", "BlockNotInUse"}

(* A write or refresh ends with all the garbage collection it started. *)
HandlersEnd == pc \notin {"idle", "fill", "panic"} ~> pc \in {"idle", "panic"}

Content == [l \in LPN |-> [u \in {0} |->
    IF table[l] = NoPlace THEN NoContent.data ELSE page[table[l][1]][table[l][2]].data]]

Store == INSTANCE LogicalStore WITH store <- Content, Absent <- NoContent.data,
         Unit <- {0}, FormatRanges <- {}

(***************************************************************************)
(* With the separation on, too, the layer implements the logical store: a  *)
(* write or trim changes its own page only.  And while garbage collection  *)
(* or a refresh moves data from pool to pool, no page is lost, mixed up or *)
(* revived between two steps; the store alone would take a lost page for a *)
(* trim.                                                                   *)
(***************************************************************************)
RefinesStore ==
    /\ Store!Spec
    /\ [][pc \notin {"idle", "fill"} => UNCHANGED Content]_vars
=============================================================================

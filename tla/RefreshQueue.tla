---------------------------- MODULE RefreshQueue ----------------------------
(***************************************************************************)
(* The refresh queues of the page-mapping layer.  A layer is the set of    *)
(* pages of a block with the same remainder modulo NLayers.  Every page    *)
(* that is programmed puts its layer (or group of layers) into the queue   *)
(* of the period in which the error model expects too many errors; once in *)
(* a period the refresh event swaps the queue of the period with its       *)
(* checked queue and moves the data of the layers it finds there.          *)
(*                                                                         *)
(* Of the rest of the layer only what the queues depend on is kept: how    *)
(* far each block is written and which of its pages are valid.  The error  *)
(* model adds noise to every estimate, so that the period it returns may   *)
(* be any.                                                                 *)
(***************************************************************************)
EXTENDS Integers, Sequences, FiniteSets, SequencesExt, FiniteSetsExt, Functions, Lists

CONSTANTS
    NB,            \* physical blocks
    NP,            \* pages in a block
    NLayers,       \* 64 in the code
    NQ,            \* FTL_REFRESH_FILTER_NUM
    DayQueues,     \* 24 in the code
    MaxRefreshLayer, \* FTL_REFRESH_MAX_LAYER_NUM
    BackgroundRatio, \* background_ratio
    GroupingMode,  \* FTL_REFRESH_MODE
    GroupingSize,  \* FTL_REFRESH_GROUPING_SIZE, neighborGroupingSize in mode 3
    Segment,       \* layers in a segment, 21 in the code
    MaxValid,      \* logical pages
    MaxQueued      \* bound: no layer moves when the queues hold as many

Block   == 0 .. NB-1
PageIdx == 0 .. NP-1
Layer   == Block \X (0 .. NLayers-1)
Queue   == 0 .. NQ-1

ASSUME QueueAssumption ==
    /\ {NB, NP, NLayers, NQ, MaxRefreshLayer, BackgroundRatio, GroupingSize, Segment,
        MaxValid, MaxQueued}
          \subseteq Nat \ {0}
    /\ DayQueues \in Nat
    /\ GroupingMode \in 0 .. 3

VARIABLES
    written,       \* written[b]: pages of b programmed since its erase
    valid,         \* valid[b]: pages of b that hold data
    refreshQueues, \* refreshQueues[q]: layers that wait for period q
    checkedQueues, \* checkedQueues[q]: layers being refreshed, and left-overs
    layerQueueNum,
    inserted,      \* insertedLayerCheck, as the set of its members
    refreshCallCount, \* modulo the number of calls of a round
    pc,
    budget,        \* layers the running refresh may still take
    current,       \* the layer being refreshed
    pending,       \* layers setRefreshPeriod() still has to insert
    due,           \* the queue it inserts them into
    panic

pageVars  == <<written, valid>>
queueVars == <<refreshQueues, checkedQueues, layerQueueNum, inserted>>
loopVars  == <<refreshCallCount, budget, current>>
vars == <<pageVars, queueVars, loopVars, pc, pending, due, panic>>

LayerOf(b, p) == <<b, p % NLayers>>

-----------------------------------------------------------------------------
(* Insertion *)

Period  == (refreshCallCount \div BackgroundRatio) % NQ   \* cur_queue
TargetQueue == (Period + 1) % NQ                          \* target_queue

(* The layers of the block that setRefreshPeriod(_, b, n) inserts: the     *)
(* layer, its neighbours, the layers at its place in the other segments,   *)
(* or the neighbours of those.  The last layer is in no segment.           *)
Neighbours(n) == LET first == (n \div GroupingSize) * GroupingSize
                 IN  first .. first + GroupingSize - 1

Group(n) ==
    LET place == IF n = NLayers-1 THEN n ELSE n % Segment
    IN  CASE GroupingMode = 0 -> {n}
          [] GroupingMode = 1 -> IF n % GroupingSize = 0 THEN Neighbours(n) ELSE {}
          [] GroupingMode = 2 -> {place + k * Segment : k \in 0 .. 2}
          [] GroupingMode = 3 ->
                LET first == IF n = NLayers-1 THEN n
                             ELSE (place \div GroupingSize) * GroupingSize
                IN  {first + k * Segment + j : k \in 0 .. 2, j \in 0 .. GroupingSize-1}

(* The loops go through the group in ascending order. *)
Members(b, n) ==
    IF GroupingMode \in {2, 3} /\ <<b, n>> \in inserted THEN <<>>
    ELSE LET s == Ascending(Group(n) \cap (0 .. NLayers-1))
         IN  [k \in DOMAIN s |-> <<b, s[k]>>]

(* Mutant: a page that is safe for a whole round is put into no queue. *)
SetRefreshPeriodShort(b, p, i) ==
    /\ pending' = IF i = NQ THEN <<>> ELSE Members(b, p % NLayers)
    /\ due' = IF pending' = <<>> THEN 0 ELSE (Period + i) % NQ

(* setRefreshPeriod() for page p of block b, when the error model says     *)
(* that i periods are too many.                                            *)
SetRefreshPeriod(b, p, i) ==
    /\ pending' = Members(b, p % NLayers)
    /\ due' = IF pending' = <<>> THEN 0 ELSE (Period + i) % NQ

(* A queue as the number of its period, from the next one on *)
Ahead(q) == IF q <= Period THEN q + NQ ELSE q

(* newQueue - oldQueue > 24, for unsigned numbers: a layer moves when it   *)
(* is due more than a day later, and also when it is due earlier.          *)
Moves(l, q) == LET days == Ahead(q) - Ahead(layerQueueNum[l])
               IN  days > DayQueues \/ days < 0

(* insertToQueue() for the next layer.  The grouping modes 2 and 3 have    *)
(* their own code, which neither moves a layer nor records its queue.      *)
(* removeFromQueue() does not look into the checked queues.                *)
InsertToQueue ==
    LET l == Head(pending)
    IN  /\ pending # <<>>
        /\ pending' = Tail(pending)
        /\ inserted' = inserted \cup {l}
        /\ IF l \notin inserted
           THEN /\ refreshQueues' = [refreshQueues EXCEPT ![due] = Append(@, l)]
                /\ layerQueueNum' = IF GroupingMode \in {0, 1}
                                    THEN [layerQueueNum EXCEPT ![l] = due]
                                    ELSE layerQueueNum
           ELSE IF GroupingMode \in {0, 1} /\ Moves(l, due)
           THEN /\ refreshQueues' =
                      [q \in Queue |->
                          IF q = due THEN Append(refreshQueues[q], l)
                          ELSE IF q = layerQueueNum[l] THEN RemoveFirst(refreshQueues[q], l)
                          ELSE refreshQueues[q]]
                /\ layerQueueNum' = [layerQueueNum EXCEPT ![l] = due]
           ELSE UNCHANGED <<refreshQueues, layerQueueNum>>
        /\ due' = IF Len(pending) = 1 THEN 0 ELSE due
        /\ UNCHANGED <<pageVars, checkedQueues, loopVars, pc, panic>>

-----------------------------------------------------------------------------
(* The pages *)

Total(f) == FoldFunction(+, 0, f)

Queued == Total([q \in Queue |-> Len(refreshQueues[q]) + Len(checkedQueues[q])])

(* The bound: a layer that moves out of a checked queue stays there too,   *)
(* so that only moves make the queues longer than the number of layers.    *)
Room(b, p, i) ==
    \/ Queued < MaxQueued
    \/ \A l \in Range(Members(b, p % NLayers)) \cap inserted : ~Moves(l, (Period + i) % NQ)

(* A page of block b is programmed; the pages gone are invalidated. *)
ProgramPage(b, gone, i) ==
    /\ written[b] < NP
    /\ Room(b, written[b], i)
    /\ written' = [written EXCEPT ![b] = @ + 1]
    /\ valid' = [c \in Block |->
                   (valid[c] \ {p \in PageIdx : <<c, p>> \in gone})
                   \cup (IF c = b THEN {written[b]} ELSE {})]
    /\ SetRefreshPeriod(b, written[b], i)

(* A write of the host: it may overwrite a page. *)
HostWrite(b, gone, i) ==
    /\ pc = "idle" /\ pending = <<>>
    /\ gone # {} \/ Total([c \in Block |-> Cardinality(valid[c])]) < MaxValid
    /\ ProgramPage(b, gone, i)
    /\ UNCHANGED <<queueVars, loopVars, pc, panic>>

HostTrim(b, p) ==
    /\ pc = "idle" /\ pending = <<>>
    /\ p \in valid[b]
    /\ valid' = [valid EXCEPT ![b] = @ \ {p}]
    /\ UNCHANGED <<written, queueVars, loopVars, pc, pending, due, panic>>

(* Garbage collection runs after a write, and before and after the loop of *)
(* a refresh.  Its victims are full blocks; those of a format may be any.  *)
Victim(c) ==
    /\ pending = <<>>
    /\ \/ pc = "idle" /\ written[c] > 0
       \/ pc \in {"gcBefore", "gcAfter"} /\ written[c] = NP

CopyVictimPage(c, b, i) ==
    /\ Victim(c)
    /\ valid[c] # {}
    /\ ProgramPage(b, {<<c, Min(valid[c])>>}, i)
    /\ UNCHANGED <<queueVars, loopVars, pc, panic>>

(* The queues still name the layers of an erased block. *)
EraseInternal(c) ==
    /\ Victim(c)
    /\ valid[c] = {}
    /\ written' = [written EXCEPT ![c] = 0]
    /\ UNCHANGED <<valid, queueVars, loopVars, pc, pending, due, panic>>

-----------------------------------------------------------------------------
(* Refresh *)

(* Mutant: what was left over is dropped. *)
RefreshEventDrops ==
    /\ pc = "idle" /\ pending = <<>>
    /\ checkedQueues' = [checkedQueues EXCEPT ![TargetQueue] = refreshQueues[TargetQueue]]
    /\ refreshQueues' = [refreshQueues EXCEPT ![TargetQueue] = <<>>]
    /\ budget' = MaxRefreshLayer
    /\ pc' = "gcBefore"
    /\ UNCHANGED <<pageVars, layerQueueNum, inserted, refreshCallCount, current,
                   pending, due, panic>>

(* refresh_event(): the queue of the period becomes the checked queue, and *)
(* what the last refresh of it left over becomes the queue.                *)
RefreshEvent ==
    /\ pc = "idle" /\ pending = <<>>
    /\ checkedQueues' = [checkedQueues EXCEPT ![TargetQueue] = refreshQueues[TargetQueue]]
    /\ refreshQueues' = [refreshQueues EXCEPT ![TargetQueue] = checkedQueues[TargetQueue]]
    /\ budget' = MaxRefreshLayer
    /\ pc' = "gcBefore"
    /\ UNCHANGED <<pageVars, layerQueueNum, inserted, refreshCallCount, current,
                   pending, due, panic>>

(* refreshPage() after its first garbage collection *)
RefreshPage ==
    /\ pc = "gcBefore" /\ pending = <<>>
    /\ pc' = "refresh"
    /\ UNCHANGED <<pageVars, queueVars, loopVars, pending, due, panic>>

(* Mutant: the layer stays marked until its pages are copied. *)
TakeLayerMarked ==
    LET l == Head(checkedQueues[TargetQueue])
    IN  /\ pc = "refresh" /\ budget > 0 /\ checkedQueues[TargetQueue] # <<>>
        /\ budget' = budget - 1
        /\ checkedQueues' = [checkedQueues EXCEPT ![TargetQueue] = Tail(@)]
        /\ IF layerQueueNum[l] # TargetQueue THEN UNCHANGED <<current, pc>>
           ELSE current' = l /\ pc' = "copy"
        /\ UNCHANGED <<pageVars, refreshQueues, layerQueueNum, inserted,
                       refreshCallCount, pending, due, panic>>

(* The next layer of the checked queue.  A layer that meanwhile waits for  *)
(* another period is skipped.                                              *)
TakeLayer ==
    LET l == Head(checkedQueues[TargetQueue])
    IN  /\ pc = "refresh" /\ budget > 0 /\ checkedQueues[TargetQueue] # <<>>
        /\ budget' = budget - 1
        /\ checkedQueues' = [checkedQueues EXCEPT ![TargetQueue] = Tail(@)]
        /\ IF layerQueueNum[l] # TargetQueue
           THEN UNCHANGED <<inserted, current, pc, panic>>
           ELSE IF l \notin inserted
           THEN /\ pc' = "panic" /\ panic' = "CorruptedBitmap"
                /\ UNCHANGED <<inserted, current>>
           ELSE /\ inserted' = inserted \ {l}
                /\ current' = l
                /\ pc' = "copy"
                /\ UNCHANGED panic
        /\ UNCHANGED <<pageVars, refreshQueues, layerQueueNum, refreshCallCount,
                       pending, due>>

LayerPages(l) == {p \in valid[l[1]] : p % NLayers = l[2]}

CopyLayerPage(b, i) ==
    /\ pc = "copy" /\ pending = <<>>
    /\ LayerPages(current) # {}
    /\ ProgramPage(b, {<<current[1], Min(LayerPages(current))>>}, i)
    /\ UNCHANGED <<queueVars, loopVars, pc, panic>>

(* getFreeBlock() finds no free block. *)
NoFreeBlock ==
    /\ pc = "copy" /\ pending = <<>>
    /\ LayerPages(current) # {}
    /\ \A b \in Block : written[b] = NP
    /\ pc' = "panic" /\ panic' = "NoFreeBlockLeft"
    /\ UNCHANGED <<pageVars, queueVars, loopVars, pending, due>>

LayerRefreshed ==
    /\ pc = "copy" /\ pending = <<>>
    /\ LayerPages(current) = {}
    /\ pc' = "refresh"
    /\ current' = <<0, 0>>
    /\ UNCHANGED <<pageVars, queueVars, refreshCallCount, budget, pending, due, panic>>

LayersRefreshed ==
    /\ pc = "refresh"
    /\ budget = 0 \/ checkedQueues[TargetQueue] = <<>>
    /\ pc' = "gcAfter"
    /\ budget' = 0
    /\ UNCHANGED <<pageVars, queueVars, refreshCallCount, current, pending, due, panic>>

RefreshDone ==
    /\ pc = "gcAfter" /\ pending = <<>>
    /\ pc' = "idle"
    /\ refreshCallCount' = (refreshCallCount + 1) % (NQ * BackgroundRatio)
    /\ UNCHANGED <<pageVars, queueVars, budget, current, pending, due, panic>>

-----------------------------------------------------------------------------
Init ==
    /\ written = [b \in Block |-> 0]
    /\ valid = [b \in Block |-> {}]
    /\ refreshQueues = [q \in Queue |-> <<>>]
    /\ checkedQueues = [q \in Queue |-> <<>>]
    /\ layerQueueNum = [l \in Layer |-> 0]
    /\ inserted = {}
    /\ refreshCallCount = 0
    /\ pc = "idle"
    /\ budget = 0
    /\ current = <<0, 0>>
    /\ pending = <<>>
    /\ due = 0
    /\ panic = "none"

FTLStep ==
    \/ \E b \in Block, i \in 1 .. NQ :
          \/ HostWrite(b, {}, i)
          \/ \E c \in Block : \E p \in valid[c] : HostWrite(b, {<<c, p>>}, i)
          \/ \E c \in Block : CopyVictimPage(c, b, i)
    \/ \E b \in Block, p \in PageIdx : HostTrim(b, p)
    \/ \E c \in Block : EraseInternal(c)

RefreshStep ==
    \/ RefreshPage \/ TakeLayer \/ NoFreeBlock \/ LayerRefreshed \/ LayersRefreshed
    \/ RefreshDone
    \/ \E b \in Block, i \in 1 .. NQ : CopyLayerPage(b, i)

Next == FTLStep \/ InsertToQueue \/ RefreshEvent \/ RefreshStep

Spec == Init /\ [][Next]_vars

(* One thread runs what has begun, the engine fires the refresh event      *)
(* again and again however many requests the host sends, and a garbage     *)
(* collection ends with its list of victims.  Nothing is assumed of the    *)
(* host.                                                                   *)
FairSpec ==
    /\ Spec
    /\ WF_vars(InsertToQueue)
    /\ SF_vars(RefreshEvent)
    /\ SF_vars(RefreshStep)

-----------------------------------------------------------------------------
(* Properties *)

(* Every variable has its type. *)
TypeOK ==
    /\ written \in [Block -> 0 .. NP]
    /\ valid \in [Block -> SUBSET PageIdx]
    /\ \A b \in Block : valid[b] \subseteq 0 .. written[b]-1
    /\ refreshQueues \in [Queue -> Seq(Layer)]
    /\ checkedQueues \in [Queue -> Seq(Layer)]
    /\ layerQueueNum \in [Layer -> Queue]
    /\ inserted \subseteq Layer
    /\ refreshCallCount \in 0 .. NQ * BackgroundRatio - 1
    /\ pc \in {"idle", "gcBefore", "refresh", "copy", "gcAfter", "panic"}
    /\ budget \in 0 .. MaxRefreshLayer
    /\ current \in Layer
    /\ pending \in Seq(Layer)
    /\ due \in Queue
    /\ panic \in {"none", "CorruptedBitmap", "NoFreeBlockLeft"}

(* A layer that holds data is marked as inserted, is about to be, or is    *)
(* the one whose data are being moved: no page is programmed into a layer  *)
(* that no queue is going to refresh.                                      *)
DataCovered ==
    /\ TypeOK
    /\ \A b \in Block : \A p \in valid[b] :
          \/ LayerOf(b, p) \in inserted \cup Range(pending)
          \/ pc \in {"copy", "panic"} /\ current = LayerOf(b, p)

(* A layer marked as inserted is in the queue layerQueueNum names, or in   *)
(* the checked queue of that period: it is not lost.                       *)
LayerFound ==
    \A l \in inserted :
        l \in Range(refreshQueues[layerQueueNum[l]]) \cup Range(checkedQueues[layerQueueNum[l]])

(* Data do not stay: every page is in the end refreshed, overwritten or    *)
(* trimmed, however often its layer is moved between the queues.           *)
DataRefreshed ==
    \A b \in Block, p \in PageIdx : p \in valid[b] ~> (p \notin valid[b] \/ pc = "panic")
=============================================================================

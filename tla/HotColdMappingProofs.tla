------------------------ MODULE HotColdMappingProofs ------------------------
(***************************************************************************)
(* Proofs about the page-mapping flash translation layer with the hot/cold *)
(* separation.  One inductive invariant says how the table, the pools, the *)
(* lanes, the windows and the victims of a garbage collection fit together *)
(* at every step of every handler; none of its parts is inductive alone.   *)
(***************************************************************************)
EXTENDS HotColdMapping, ListLemmas

Datum == [lpn : LPN, data : Data]

HotPool  == 0 .. NHot-1
ColdPool == NHot .. NB-1

(* Valid pages are below the write pointer, and a block that is not in use *)
(* is erased.                                                              *)
WriteFrontier ==
    /\ \A b \in Block, p \in PageIdx : page[b][p] # NoContent => p < next[b]
    /\ \A b \in Block \ blocks : next[b] = 0

(* The blocks of a pool that are in its free list *)
Available(pool) == {b \in pool : b \notin blocks /\ eraseCount[b] < BadBlock}

FreeInv ==
    /\ IsInjective(hotFreeBlocks) /\ IsInjective(coldFreeBlocks)
    /\ Range(hotFreeBlocks) = Available(HotPool)
    /\ Range(coldFreeBlocks) = Available(ColdPool)
    /\ \A b \in blocks : eraseCount[b] < BadBlock
    /\ \A b \in Block : type[b] = "HOT" <=> b \in HotPool

(* A lane of a kind writes to blocks of its pool. *)
LaneInv ==
    \A k \in Lane : /\ last["HOT"][k] \in HotPool
                    /\ last["COOL"][k] \in ColdPool
                    /\ last["COLD"][k] \in ColdPool

(* Blocks in use that are no victims *)
Settled == blocks \ Victims

WindowInv ==
    /\ IsInjective(hotWindow) /\ IsInjective(coolDownWindow)
    /\ Len(coolDownWindow) <= Cooldown
    /\ Range(hotWindow) = {b \in Settled : type[b] = "HOT"}
    /\ Range(coolDownWindow) = {b \in Settled : type[b] = "COOL"}

(* Victims are blocks in use.  One of the cold pool is full, so that no    *)
(* lane that garbage collection copies to writes to it; one that waits for *)
(* its erase has no valid page left.                                       *)
VictimInv ==
    /\ IsInjective(toReclaim) /\ IsInjective(toErase)
    /\ Range(toReclaim) \cap Range(toErase) = {}
    /\ Victims \subseteq blocks
    /\ \A b \in Victims : b \in ColdPool => next[b] = NP
    /\ \A b \in Range(toErase) : ValidPages(b) = {}

(* There are victims while they are copied and erased only.  The pages the *)
(* initialization has not written yet are not mapped.                      *)
ControlInv ==
    /\ pc \in {"fill", "idle", "selectCold", "selectHot", "copy", "erase", "refresh", "layer",
               "panic"}
    /\ after \in {"idle", "hot", "refresh"}
    /\ pc \notin {"copy", "erase", "panic"} => toReclaim = <<>> /\ toErase = <<>>
    /\ pc = "erase" => toReclaim = <<>>
    /\ pc = "selectHot" => Len(hotFreeBlocks) < HotThreshold
    /\ pc = "fill" => /\ filled < ColdFill + HotFill
                      /\ \A l \in LPN : l >= filled => table[l] = NoPlace
    /\ layer \in [b : Block, n : Nat, kind : Kind]

DataInv == /\ MappingConsistent /\ WriteFrontier
           /\ FreeInv /\ LaneInv /\ WindowInv /\ VictimInv

Inv == DataInv /\ ControlInv /\ NoCorruption

-----------------------------------------------------------------------------
(* Types *)

(* The assumptions on the constants, one by one. *)
LEMMA Constants ==
    /\ NB \in Nat /\ NHot \in Nat /\ NP \in Nat /\ NL \in Nat /\ NLPN \in Nat
    /\ Cooldown \in Nat /\ BadBlock \in Nat
    /\ NB > 0 /\ NHot > 0 /\ NP > 0 /\ NL > 0 /\ NLPN > 0 /\ Cooldown > 0 /\ BadBlock > 0
    /\ NLayers \in Nat /\ NLayers > 0
    /\ HotThreshold \in Nat /\ ColdThreshold \in Nat /\ ReclaimBlocks \in Nat
    /\ HotTarget \in Nat /\ ColdTarget \in Nat
    /\ ColdFill \in Nat /\ HotFill \in Nat /\ MaxRefreshLayer \in Nat
    /\ NL < NHot /\ NHot + 2*NL < NB
    /\ ColdFill + HotFill <= NLPN
BY SeparationAssumption

(* The two pools divide the blocks. *)
LEMMA Pools ==
    /\ HotPool \subseteq Block /\ ColdPool \subseteq Block /\ HotPool \cap ColdPool = {}
    /\ \A b \in Block : b \in ColdPool <=> b \notin HotPool
    /\ \A b \in Block : b \in HotPool <=> b < NHot
BY Constants DEF HotPool, ColdPool, Block

(* The value of an unmapped page is no place. *)
LEMMA NoPlaceIsNone == NoPlace \notin Block \X PageIdx
BY Constants DEF NoPlace, Block

(* The value of an invalid page is no datum. *)
LEMMA NoContentIsNone ==
    /\ NoContent \notin Datum
    /\ \A c \in Datum \cup {NoContent} : c.lpn \in LPN => c \in Datum
    /\ \A c \in Datum \cup {NoContent} : c.lpn \in LPN => c # NoContent
    /\ \A c \in Datum : c.lpn \in LPN
BY DEF NoContent, Datum, LPN

(* The types of the variables, from TypeOK. *)
LEMMA Types ==
    ASSUME TypeOK
    PROVE  /\ table \in [LPN -> (Block \X PageIdx) \cup {NoPlace}]
           /\ blocks \subseteq Block
           /\ page \in [Block -> [PageIdx -> Datum \cup {NoContent}]]
           /\ next \in [Block -> 0 .. NP]
           /\ type \in [Block -> Kind]
           /\ eraseCount \in [Block -> 0 .. BadBlock]
           /\ hotFreeBlocks \in Seq(Block) /\ coldFreeBlocks \in Seq(Block)
           /\ hotWindow \in Seq(Block) /\ coolDownWindow \in Seq(Block)
           /\ toReclaim \in Seq(Block) /\ toErase \in Seq(Block)
           /\ last \in [Kind -> [Lane -> Block]] /\ index \in [Kind -> Lane]
           /\ bReclaimMore \in BOOLEAN /\ filled \in 0 .. ColdFill + HotFill
           /\ layers \in Seq(Layer)
BY DEF TypeOK, Datum

(* The types of the variables after a step make up TypeOK. *)
LEMMA TypesAfter ==
    ASSUME table' \in [LPN -> (Block \X PageIdx) \cup {NoPlace}],
           blocks' \subseteq Block,
           page' \in [Block -> [PageIdx -> Datum \cup {NoContent}]],
           next' \in [Block -> 0 .. NP],
           type' \in [Block -> Kind],
           eraseCount' \in [Block -> 0 .. BadBlock],
           hotFreeBlocks' \in Seq(Block), coldFreeBlocks' \in Seq(Block),
           hotWindow' \in Seq(Block), coolDownWindow' \in Seq(Block),
           toReclaim' \in Seq(Block), toErase' \in Seq(Block),
           last' \in [Kind -> [Lane -> Block]], index' \in [Kind -> Lane],
           bReclaimMore' \in BOOLEAN, filled' \in 0 .. ColdFill + HotFill,
           layers' \in Seq(Layer)
    PROVE  TypeOK'
BY DEF TypeOK, Datum

(* The members of a list that has no duplicates *)
LEMMA HeadOfList ==
    ASSUME NEW S, NEW s \in Seq(S), s # <<>>
    PROVE  /\ Head(s) \in S /\ Head(s) = s[1] /\ Head(s) \in Range(s)
           /\ Tail(s) \in Seq(S) /\ Len(Tail(s)) = Len(s) - 1
           /\ Len(s) \in Nat /\ Len(s) > 0
<1>1. Len(s) \in Nat /\ Len(s) > 0 /\ Head(s) = s[1] /\ Head(s) \in S
      /\ Tail(s) \in Seq(S) /\ Len(Tail(s)) = Len(s) - 1
  BY HeadTailProperties, LenProperties, EmptySeq
<1>2. 1 \in 1 .. Len(s)
  BY <1>1
<1>3. Head(s) \in Range(s)
  BY <1>1, <1>2, MembersOfSeq
<1>4. QED
  BY <1>1, <1>3

(* The empty list has no members. *)
LEMMA EmptyRange == IsInjective(<<>>) /\ Range(<<>>) = {}
BY DEF IsInjective, Range

-----------------------------------------------------------------------------
(* Allocation *)

(* The position a lane takes its block from is in the free list. *)
LEMMA FreePosInList ==
    ASSUME NEW list \in Seq(Block), list # <<>>, NEW k
    PROVE  FreePos(list, k) \in 1 .. Len(list)
<1> DEFINE own == {i \in DOMAIN list : list[i] % NL = k}
<1>1. Len(list) \in Nat /\ Len(list) > 0 /\ DOMAIN list = 1 .. Len(list)
  BY HeadOfList, LenProperties
<1>2. FreePos(list, k) = IF own = {} THEN 1 ELSE Min(own)
  BY DEF FreePos
<1>3. own \subseteq 1 .. Len(list) /\ own \subseteq Nat
  BY <1>1
<1> HIDE DEF own
<1>4. CASE own = {}
  BY <1>1, <1>2, <1>4
<1>5. CASE own # {}
  BY <1>2, <1>3, <1>5, MinOfNat
<1>6. QED
  BY <1>4, <1>5

(* The pool of the blocks of a kind *)
PoolOf(kind) == IF kind = "HOT" THEN HotPool ELSE ColdPool

(* A free list holds the available blocks of its pool, once each. *)
LEMMA FreeList ==
    ASSUME Inv, NEW kind
    PROVE  /\ Free(kind) \in Seq(Block) /\ IsInjective(Free(kind))
           /\ Range(Free(kind)) = Available(PoolOf(kind))
BY Types DEF Inv, DataInv, MappingConsistent, FreeInv, Free, PoolOf

(* A block that an allocation takes is of the pool, not in use, not worn   *)
(* out and erased.                                                         *)
LEMMA TakenBlock ==
    ASSUME Inv, NEW kind, NEW k, Free(kind) # <<>>
    PROVE  /\ FreePos(Free(kind), k) \in 1 .. Len(Free(kind))
           /\ FreeBlock(kind, k) \in Block \ blocks
           /\ FreeBlock(kind, k) \in Available(PoolOf(kind))
           /\ FreeBlock(kind, k) \in Range(Free(kind))
           /\ next[FreeBlock(kind, k)] = 0
           /\ ValidPages(FreeBlock(kind, k)) = {}
<1> DEFINE i == FreePos(Free(kind), k)
           b == FreeBlock(kind, k)
<1>1. /\ Free(kind) \in Seq(Block) /\ Range(Free(kind)) = Available(PoolOf(kind))
      /\ i \in 1 .. Len(Free(kind))
  BY FreeList, FreePosInList
<1>2. b = Free(kind)[i]
  BY DEF FreeBlock
<1> HIDE DEF i
<1>3. b \in Block
  BY <1>1, <1>2, ElementOfSeq
<1>4. b \in Range(Free(kind))
  BY <1>1, <1>2, MembersOfSeq
<1> HIDE DEF b
<1>5. b \in Available(PoolOf(kind)) /\ b \notin blocks
  BY <1>1, <1>4 DEF Available
<1>6. next[b] = 0
  BY <1>3, <1>5 DEF Inv, DataInv, WriteFrontier
<1>7. ValidPages(b) = {}
  <2>1. \A p \in PageIdx : p \in Int /\ ~(p < 0)
    BY Constants DEF PageIdx
  <2>2. \A p \in PageIdx : page[b][p] # NoContent => p < next[b]
    BY <1>3 DEF Inv, DataInv, WriteFrontier
  <2> QED
    BY <1>6, <2>1, <2>2 DEF ValidPages
<1>8. QED
  BY <1>1, <1>3, <1>4, <1>5, <1>6, <1>7 DEF b, i

(* Of the panics of an allocation only the one for an empty list is        *)
(* reached.                                                                *)
LEMMA AllocOnlyRunsOut ==
    ASSUME Inv, NEW kind, NEW k, NEW cool \in BOOLEAN
    PROVE  /\ AllocError(kind, k, cool) \in {"NoFreeBlockLeft", NoPanic}
           /\ AllocError(kind, k, cool) = NoPanic => Free(kind) # <<>>
<1>1. CASE Free(kind) = <<>>
  BY <1>1 DEF AllocError, NoPanic
<1>2. CASE Free(kind) # <<>>
  <2>1. FreeBlock(kind, k) \notin blocks
    BY <1>2, TakenBlock
  <2>2. Len(coolDownWindow) >= Cooldown => Head(coolDownWindow) \in blocks
    <3> SUFFICES ASSUME Len(coolDownWindow) >= Cooldown
                 PROVE  Head(coolDownWindow) \in blocks
      OBVIOUS
    <3>1. coolDownWindow \in Seq(Block)
      BY Types DEF Inv, DataInv, MappingConsistent
    <3>2. Len(coolDownWindow) \in Nat /\ Len(coolDownWindow) > 0
      BY <3>1, Constants, LenProperties
    <3>3. coolDownWindow # <<>>
      BY <3>2
    <3>4. Head(coolDownWindow) \in Range(coolDownWindow)
      BY <3>1, <3>3, HeadOfList
    <3> QED
      BY <3>4 DEF Inv, DataInv, WindowInv, Settled
  <2> QED
    BY <1>2, <2>1, <2>2, Zenon DEF AllocError
<1>3. QED
  BY <1>1, <1>2

(* An allocation keeps the windows exact: the block it takes enters the    *)
(* window of its type, and a full window of cool blocks lets its oldest    *)
(* one go, which is cold from then on.                                     *)
LEMMA AllocWindows ==
    ASSUME Inv, NEW kind \in Kind, NEW k, NEW cool \in BOOLEAN,
           cool => kind # "HOT", kind = "COOL" => cool,
           Free(kind) # <<>>, Alloc(kind, k, cool),
           Settled' = Settled \cup {FreeBlock(kind, k)}
    PROVE  /\ WindowInv'
           /\ hotWindow' \in Seq(Block) /\ coolDownWindow' \in Seq(Block)
           /\ type' \in [Block -> Kind]
           /\ \A c \in Block : type'[c] = "HOT" <=> c \in HotPool
<1> DEFINE b == FreeBlock(kind, k)
           W == IF Leaving = {} THEN coolDownWindow ELSE Tail(coolDownWindow)
           t == IF cool THEN "COOL" ELSE kind
<1>1. /\ hotWindow \in Seq(Block) /\ coolDownWindow \in Seq(Block)
      /\ type \in [Block -> Kind] /\ blocks \subseteq Block
  BY Types DEF Inv, DataInv, MappingConsistent
<1>2. b \in Block /\ b \notin blocks /\ b \in PoolOf(kind)
  BY TakenBlock DEF Available
<1>3. /\ IsInjective(hotWindow) /\ IsInjective(coolDownWindow)
      /\ Len(coolDownWindow) <= Cooldown
      /\ Range(hotWindow) = {c \in Settled : type[c] = "HOT"}
      /\ Range(coolDownWindow) = {c \in Settled : type[c] = "COOL"}
      /\ Settled \subseteq blocks
  BY DEF Inv, DataInv, WindowInv, Settled
<1>4. \A c \in Block : type[c] = "HOT" <=> c \in HotPool
  BY DEF Inv, DataInv, FreeInv
<1>5. /\ type' = [c \in Block |->
                     CASE c = b -> t
                       [] c # b /\ cool /\ c \in Leaving -> "COLD"
                       [] OTHER -> type[c]]
      /\ hotWindow' = IF kind = "HOT" THEN Append(hotWindow, b) ELSE hotWindow
      /\ coolDownWindow' = IF cool THEN Append(W, b) ELSE coolDownWindow
  BY Zenon DEF Alloc
<1>6. \A c \in Block : type'[c] = IF c = b THEN t
                                  ELSE IF cool /\ c \in Leaving THEN "COLD" ELSE type[c]
  BY <1>5
<1>7. /\ Leaving \subseteq Range(coolDownWindow)
      /\ W \in Seq(Block) /\ IsInjective(W) /\ Range(W) = Range(coolDownWindow) \ Leaving
      /\ Len(W) \in Nat /\ Len(W) < Cooldown
  <2> DEFINE s == coolDownWindow
  <2>1. Len(s) \in Nat /\ Cooldown \in Nat /\ Cooldown > 0
    BY <1>1, Constants, LenProperties
  <2>2. CASE Len(s) >= Cooldown
    <3>1. s # <<>>
      BY <2>1, <2>2
    <3>2. Leaving = {Head(s)}
      BY <2>2 DEF Leaving
    <3>3. W = Tail(s)
      BY <3>2
    <3>4. Head(s) \in Range(s) /\ Tail(s) \in Seq(Block) /\ Len(Tail(s)) = Len(s) - 1
      BY <1>1, <3>1, HeadOfList
    <3>5. IsInjective(Tail(s)) /\ Range(Tail(s)) = Range(s) \ {Head(s)}
      BY <1>1, <1>3, <3>1, TailInjective
    <3> HIDE DEF W
    <3>6. Len(W) \in Nat /\ Len(W) < Cooldown
      BY <1>3, <2>1, <2>2, <3>3, <3>4
    <3> QED
      BY <3>2, <3>3, <3>4, <3>5, <3>6
  <2>3. CASE ~(Len(s) >= Cooldown)
    <3>1. Leaving = {}
      BY <2>3 DEF Leaving
    <3>2. W = s
      BY <3>1
    <3> QED
      BY <1>1, <1>3, <2>1, <2>3, <3>1, <3>2
  <2> QED
    BY <2>2, <2>3
<1> HIDE DEF b, W
<1>8. t \in Kind /\ (t = "HOT" <=> kind = "HOT") /\ (t = "COOL" <=> cool)
  BY DEF Kind
<1>9. type' \in [Block -> Kind]
  BY <1>1, <1>5, <1>6, <1>8 DEF Kind
<1>10. ASSUME NEW c \in Block
       PROVE  /\ c # b => (type'[c] = "HOT" <=> type[c] = "HOT")
              /\ c # b => (type'[c] = "COOL" <=> type[c] = "COOL" /\ ~(cool /\ c \in Leaving))
              /\ c = b => type'[c] = t
  <2>1. c \in Leaving => type[c] = "COOL"
    BY <1>3, <1>7
  <2> QED
    BY <1>6, <2>1
<1> HIDE DEF t
<1>11. \A c \in Block : type'[c] = "HOT" <=> c \in HotPool
  <2>1. b \in HotPool <=> kind = "HOT"
    BY <1>2, Pools DEF PoolOf
  <2> QED
    BY <1>4, <1>8, <1>10, <2>1
<1>12. /\ hotWindow' \in Seq(Block) /\ IsInjective(hotWindow')
       /\ Range(hotWindow') = Range(hotWindow) \cup (IF kind = "HOT" THEN {b} ELSE {})
  <2>1. CASE kind = "HOT"
    <3>1. hotWindow' = Append(hotWindow, b) /\ b \notin Range(hotWindow)
      BY <1>2, <1>3, <1>5, <2>1
    <3>2. hotWindow' \in Seq(Block)
      BY <1>1, <1>2, <3>1, AppendProperties
    <3>3. IsInjective(hotWindow') /\ Range(hotWindow') = Range(hotWindow) \cup {b}
      BY <1>1, <1>2, <1>3, <3>1, AppendNewInjective
    <3> QED
      BY <2>1, <3>2, <3>3
  <2>2. CASE kind # "HOT"
    BY <1>1, <1>3, <1>5, <2>2
  <2> QED
    BY <2>1, <2>2
<1>13. /\ coolDownWindow' \in Seq(Block) /\ IsInjective(coolDownWindow')
       /\ Len(coolDownWindow') <= Cooldown
       /\ Range(coolDownWindow') = IF cool THEN (Range(coolDownWindow) \ Leaving) \cup {b}
                                   ELSE Range(coolDownWindow)
  <2>1. CASE cool
    <3>1. coolDownWindow' = Append(W, b) /\ b \notin Range(W)
      BY <1>2, <1>3, <1>5, <1>7, <2>1
    <3>2. coolDownWindow' \in Seq(Block) /\ Len(coolDownWindow') = Len(W) + 1
      BY <1>2, <1>7, <3>1, AppendProperties
    <3>3. IsInjective(coolDownWindow') /\ Range(coolDownWindow') = Range(W) \cup {b}
      BY <1>2, <1>7, <3>1, AppendNewInjective
    <3>4. Len(coolDownWindow') <= Cooldown
      BY <1>7, <3>2, Constants
    <3> QED
      BY <1>7, <2>1, <3>2, <3>3, <3>4
  <2>2. CASE ~cool
    BY <1>1, <1>3, <1>5, <2>2
  <2> QED
    BY <2>1, <2>2
<1>14. Settled' = Settled \cup {b} /\ b \notin Settled /\ Settled \subseteq Block
  BY <1>1, <1>2, <1>3 DEF b
<1>15. Range(hotWindow') = {c \in Settled' : type'[c] = "HOT"}
  BY <1>2, <1>3, <1>8, <1>10, <1>12, <1>14
<1>16. Range(coolDownWindow') = {c \in Settled' : type'[c] = "COOL"}
  <2>1. CASE cool
    BY <1>2, <1>3, <1>7, <1>8, <1>10, <1>13, <1>14, <2>1
  <2>2. CASE ~cool
    BY <1>2, <1>3, <1>8, <1>10, <1>13, <1>14, <2>2
  <2> QED
    BY <2>1, <2>2
<1>17. QED
  BY <1>9, <1>11, <1>12, <1>13, <1>15, <1>16 DEF WindowInv

-----------------------------------------------------------------------------
(* Lanes *)

(* The lane that writes next, and its block, which is of its pool. *)
LEMMA LaneOfKind ==
    ASSUME Inv, NEW kind \in Kind
    PROVE  /\ LaneFor(kind) \in Lane
           /\ LaneBlock(kind) \in Block /\ LaneBlock(kind) \in PoolOf(kind)
<1>1. index \in [Kind -> Lane] /\ last \in [Kind -> [Lane -> Block]]
  BY Types DEF Inv, DataInv, MappingConsistent
<1>2. LaneFor(kind) \in Lane
  <2>1. index[kind] + 1 \in Int /\ NL \in Int /\ NL > 0
    BY <1>1, Constants DEF Lane
  <2> QED
    BY <2>1, Remainder DEF LaneFor, Lane
<1>3. last[kind][LaneFor(kind)] \in PoolOf(kind)
  BY <1>2 DEF Inv, DataInv, LaneInv, PoolOf, Kind
<1>4. QED
  BY <1>1, <1>2, <1>3 DEF LaneBlock

(* A lane panics when its block was taken from it by an erase, or when no  *)
(* block is left, and for no other reason.                                 *)
LEMMA LaneErrors ==
    ASSUME Inv, NEW kind \in Kind
    PROVE  LaneError(kind) \in {"Corrupted", "NoFreeBlockLeft", NoPanic}
<1> DEFINE cool == kind = "COOL"
<1>1. cool \in BOOLEAN
  OBVIOUS
<1> HIDE DEF cool
<1>2. AllocError(kind, LaneFor(kind), cool) \in {"NoFreeBlockLeft", NoPanic}
  BY <1>1, AllocOnlyRunsOut
<1>3. QED
  BY <1>2 DEF LaneError, cool

(* Where a write goes when its lane does not panic: to an erased page of a *)
(* block of the pool, never to a victim unless the data is hot.            *)
LEMMA LaneTarget ==
    ASSUME Inv, NEW kind \in Kind, LaneError(kind) = NoPanic
    PROVE  /\ LaneBlock(kind) \in blocks
           /\ Target(kind) \in Block /\ Target(kind) \in PoolOf(kind)
           /\ next[Target(kind)] \in PageIdx
           /\ Target(kind) \in Victims => kind = "HOT"
           /\ Full(LaneBlock(kind)) => /\ Free(kind) # <<>>
                                       /\ Target(kind) = FreeBlock(kind, LaneFor(kind))
                                       /\ Target(kind) \notin blocks
           /\ ~Full(LaneBlock(kind)) => Target(kind) = LaneBlock(kind)
<1> DEFINE b == LaneBlock(kind)
           k == LaneFor(kind)
           cool == kind = "COOL"
<1>0. cool \in BOOLEAN /\ next \in [Block -> 0 .. NP] /\ NP \in Nat /\ NP > 0
  BY Types, Constants DEF Inv, DataInv, MappingConsistent
<1>1. b \in Block /\ b \in PoolOf(kind)
  BY LaneOfKind
<1>2. b \in blocks
  BY DEF LaneError, NoPanic
<1>3. CASE Full(b)
  <2> HIDE DEF cool
  <2>1. AllocError(kind, k, cool) = NoPanic
    BY <1>2, <1>3 DEF LaneError, cool
  <2>2. Free(kind) # <<>>
    BY <1>0, <2>1, AllocOnlyRunsOut
  <2>3. Target(kind) = FreeBlock(kind, k)
    BY <1>3 DEF Target
  <2>4. /\ Target(kind) \in Block \ blocks /\ Target(kind) \in PoolOf(kind)
        /\ next[Target(kind)] = 0
    BY <2>2, <2>3, TakenBlock DEF Available
  <2>5. Target(kind) \notin Victims
    BY <2>4 DEF Inv, DataInv, VictimInv
  <2>6. 0 \in PageIdx
    BY <1>0 DEF PageIdx
  <2> QED
    BY <1>2, <1>3, <2>2, <2>3, <2>4, <2>5, <2>6
<1>4. CASE ~Full(b)
  <2>1. Target(kind) = b
    BY <1>4 DEF Target
  <2>2. next[b] \in PageIdx /\ next[b] # NP
    BY <1>0, <1>1, <1>4 DEF Full, PageIdx
  <2>3. b \in Victims => kind = "HOT"
    BY <1>1, <2>2 DEF Inv, DataInv, VictimInv, PoolOf
  <2> HIDE DEF b
  <2> QED
    BY <1>1, <1>2, <1>4, <2>1, <2>2, <2>3 DEF b
<1>5. QED
  BY <1>3, <1>4

(* getLastHotFreeBlock() and its siblings keep the pools, the lanes and    *)
(* the windows, and add at most the target to the blocks in use.           *)
LaneTypes ==
    /\ blocks \subseteq Block
    /\ type \in [Block -> Kind]
    /\ hotFreeBlocks \in Seq(Block) /\ coldFreeBlocks \in Seq(Block)
    /\ hotWindow \in Seq(Block) /\ coolDownWindow \in Seq(Block)
    /\ last \in [Kind -> [Lane -> Block]] /\ index \in [Kind -> Lane]
    /\ bReclaimMore \in BOOLEAN

(* A lane keeps its block or takes a free one of its pool, as              *)
(* getLastHotFreeBlock() and its two companions do.                        *)
LEMMA LaneStep ==
    ASSUME Inv, NEW kind \in Kind, LaneError(kind) = NoPanic, GetLastFreeBlock(kind),
           UNCHANGED <<eraseCount, toReclaim, toErase>>
    PROVE  /\ blocks' = blocks \cup {Target(kind)}
           /\ LaneTypes' /\ FreeInv' /\ LaneInv' /\ WindowInv'
<1> DEFINE b == Target(kind)
           k == LaneFor(kind)
           cool == kind = "COOL"
<1>1. LaneTypes
  BY Types DEF Inv, DataInv, MappingConsistent, LaneTypes
<1>2. k \in Lane
  BY LaneOfKind
<1>3. /\ LaneBlock(kind) \in blocks /\ b \in Block /\ b \in PoolOf(kind)
      /\ Full(LaneBlock(kind)) => /\ Free(kind) # <<>> /\ b = FreeBlock(kind, k)
                                  /\ b \notin blocks
      /\ ~Full(LaneBlock(kind)) => b = LaneBlock(kind)
  BY LaneTarget
<1>4. index' \in [Kind -> Lane]
  BY <1>1, <1>2 DEF GetLastFreeBlock, LaneTypes
<1>5. Victims' = Victims
  BY DEF Victims
<1>6. CASE ~Full(LaneBlock(kind))
  <2>1. UNCHANGED <<poolVars, last, bReclaimMore>>
    BY <1>6 DEF GetLastFreeBlock
  <2>2. UNCHANGED <<blocks, type, hotFreeBlocks, coldFreeBlocks, hotWindow, coolDownWindow,
                    last, bReclaimMore>>
    BY <2>1 DEF poolVars
  <2>3. blocks' = blocks \cup {b}
    BY <1>3, <1>6, <2>2
  <2>4. LaneTypes'
    BY <1>1, <1>4, <2>2 DEF LaneTypes
  <2>5. FreeInv' /\ LaneInv'
    BY <2>2 DEF Inv, DataInv, FreeInv, LaneInv, Available
  <2>6. WindowInv'
    BY <1>5, <2>2 DEF Inv, DataInv, WindowInv, Settled
  <2> QED
    BY <2>3, <2>4, <2>5, <2>6
<1>7. CASE Full(LaneBlock(kind))
  <2>1. /\ Free(kind) # <<>> /\ b = FreeBlock(kind, k) /\ b \notin blocks
    BY <1>3, <1>7
  <2>2. /\ Alloc(kind, k, cool)
        /\ blocks' = blocks \cup {b}
        /\ hotFreeBlocks' = IF kind = "HOT"
                            THEN RemoveAt(hotFreeBlocks, FreePos(hotFreeBlocks, k))
                            ELSE hotFreeBlocks
        /\ coldFreeBlocks' = IF kind = "HOT" THEN coldFreeBlocks
                             ELSE RemoveAt(coldFreeBlocks, FreePos(coldFreeBlocks, k))
        /\ last' = [last EXCEPT ![kind][k] = b]
        /\ bReclaimMore' = TRUE
    BY <1>7 DEF GetLastFreeBlock
  <2>3. Settled' = Settled \cup {b}
    <3>1. b \notin Victims
      BY <2>1 DEF Inv, DataInv, VictimInv
    <3> QED
      BY <1>5, <2>2, <3>1 DEF Settled
  <2>4. /\ WindowInv'
        /\ hotWindow' \in Seq(Block) /\ coolDownWindow' \in Seq(Block)
        /\ type' \in [Block -> Kind]
        /\ \A c \in Block : type'[c] = "HOT" <=> c \in HotPool
    <3>1. cool \in BOOLEAN /\ (cool => kind # "HOT") /\ (kind = "COOL" => cool)
      OBVIOUS
    <3> HIDE DEF b, k, cool
    <3> QED
      BY <2>1, <2>2, <2>3, <3>1, AllocWindows
  <2> HIDE DEF cool
  <2>5. last' \in [Kind -> [Lane -> Block]] /\ LaneInv'
    <3>1. last \in [Kind -> [Lane -> Block]] /\ {"HOT", "COOL", "COLD"} \subseteq Kind
      BY <1>1 DEF LaneTypes, Kind
    <3> HIDE DEF b, k
    <3>2. last' \in [Kind -> [Lane -> Block]]
      BY <1>3, <2>2, <3>1
    <3>3. \A a \in Kind, j \in Lane :
             last'[a][j] = IF a = kind /\ j = k THEN b ELSE last[a][j]
      BY <2>2, <3>1
    <3>4. LaneInv'
      BY <1>3, <3>1, <3>3 DEF Inv, DataInv, LaneInv, PoolOf
    <3> QED
      BY <3>2, <3>4
  <2>6. /\ FreePos(Free(kind), k) \in 1 .. Len(Free(kind))
        /\ Free(kind)[FreePos(Free(kind), k)] = b
        /\ b \in Available(PoolOf(kind))
    BY <2>1, TakenBlock DEF FreeBlock
  <2>7. /\ Free(kind) \in Seq(Block) /\ IsInjective(Free(kind))
        /\ Range(Free(kind)) = Available(PoolOf(kind))
    BY FreeList
  <2> DEFINE rest == RemoveAt(Free(kind), FreePos(Free(kind), k))
  <2>8. rest \in Seq(Block) /\ IsInjective(rest) /\ Range(rest) = Available(PoolOf(kind)) \ {b}
    <3> HIDE DEF b, k
    <3> DEFINE i == FreePos(Free(kind), k)
               f == Free(kind)
    <3>1. i \in 1 .. Len(f) /\ f[i] = b /\ f \in Seq(Block) /\ IsInjective(f)
      BY <2>6, <2>7
    <3> HIDE DEF i, f
    <3>2. RemoveAt(f, i) \in Seq(Block)
      BY <3>1, RemoveAtSeq
    <3>3. IsInjective(RemoveAt(f, i)) /\ Range(RemoveAt(f, i)) = Range(f) \ {f[i]}
      BY <3>1, RemoveAtInjective
    <3> QED
      BY <2>7, <3>1, <3>2, <3>3 DEF i, f
  <2> HIDE DEF rest
  <2>9. \A pool : Available(pool)' = Available(pool) \ {b}
    BY <2>2 DEF Available
  <2>10. /\ hotFreeBlocks' = IF kind = "HOT" THEN rest ELSE hotFreeBlocks
         /\ coldFreeBlocks' = IF kind = "HOT" THEN coldFreeBlocks ELSE rest
    BY <2>2 DEF rest, Free
  <2>11. kind = "HOT" => b \notin Available(ColdPool)
    BY <1>3, Pools DEF PoolOf, Available
  <2>12. kind # "HOT" => b \notin Available(HotPool)
    BY <1>3, Pools DEF PoolOf, Available
  <2>13. /\ hotFreeBlocks' \in Seq(Block) /\ coldFreeBlocks' \in Seq(Block)
         /\ IsInjective(hotFreeBlocks') /\ IsInjective(coldFreeBlocks')
         /\ Range(hotFreeBlocks') = Available(HotPool)'
         /\ Range(coldFreeBlocks') = Available(ColdPool)'
    <3>1. /\ hotFreeBlocks \in Seq(Block) /\ coldFreeBlocks \in Seq(Block)
          /\ IsInjective(hotFreeBlocks) /\ IsInjective(coldFreeBlocks)
          /\ Range(hotFreeBlocks) = Available(HotPool)
          /\ Range(coldFreeBlocks) = Available(ColdPool)
      BY <1>1 DEF LaneTypes, Inv, DataInv, FreeInv
    <3>2. Available(HotPool)' = Available(HotPool) \ {b}
          /\ Available(ColdPool)' = Available(ColdPool) \ {b}
      BY <2>9
    <3>3. CASE kind = "HOT"
      BY <2>8, <2>10, <2>11, <3>1, <3>2, <3>3 DEF PoolOf
    <3>4. CASE kind # "HOT"
      BY <2>8, <2>10, <2>12, <3>1, <3>2, <3>4 DEF PoolOf
    <3> QED
      BY <3>3, <3>4
  <2>14. \A c \in blocks' : eraseCount'[c] < BadBlock
    BY <2>2, <2>6 DEF Inv, DataInv, FreeInv, Available
  <2>15. FreeInv'
    BY <2>4, <2>13, <2>14 DEF FreeInv
  <2>16. LaneTypes'
    BY <1>1, <1>3, <1>4, <2>2, <2>4, <2>5, <2>13 DEF LaneTypes
  <2> QED
    BY <2>2, <2>4, <2>5, <2>15, <2>16
<1>8. QED
  BY <1>6, <1>7

-----------------------------------------------------------------------------
(* Moves: host writes, garbage collection and refresh program a page and   *)
(* give up the place the table had for it.                                 *)

(* What the table says of a place. *)
LEMMA Placed ==
    ASSUME Inv, NEW l \in LPN, table[l] # NoPlace
    PROVE  \E b \in Block, p \in PageIdx :
              /\ table[l] = <<b, p>> /\ b \in blocks
              /\ page[b][p] \in Datum /\ page[b][p].lpn = l /\ page[b][p] # NoContent
              /\ p < next[b]
<1>1. /\ table \in [LPN -> (Block \X PageIdx) \cup {NoPlace}]
      /\ page \in [Block -> [PageIdx -> Datum \cup {NoContent}]]
  BY Types DEF Inv, DataInv, MappingConsistent
<1>2. PICK b \in Block, p \in PageIdx : table[l] = <<b, p>>
  BY <1>1
<1>3. table[l][1] = b /\ table[l][2] = p
  BY <1>2
<1>4. b \in blocks /\ page[b][p].lpn = l
  BY <1>3 DEF Inv, DataInv, MappingConsistent
<1>5. page[b][p] \in Datum \cup {NoContent}
  BY <1>1
<1>6. page[b][p] \in Datum /\ page[b][p] # NoContent
  BY <1>4, <1>5, NoContentIsNone
<1>7. p < next[b]
  BY <1>6 DEF Inv, DataInv, WriteFrontier
<1>8. QED
  BY <1>2, <1>4, <1>6, <1>7

(* Programming a page through a lane, and giving up the old one, keeps the *)
(* invariant of the data.                                                  *)
LEMMA MovePreserves ==
    ASSUME Inv, NEW kind \in Kind, LaneError(kind) = NoPanic, kind = "HOT" => Victims = {},
           NEW c \in Datum, Program(kind, table[c.lpn], c), GetLastFreeBlock(kind),
           UNCHANGED <<eraseCount, toReclaim, toErase>>,
           filled' \in 0 .. ColdFill + HotFill, layers' \in Seq(Layer)
    PROVE  DataInv'
<1> DEFINE b == Target(kind)
           old == table[c.lpn]
           n == next[b]
<1>1. b \in Block /\ n \in PageIdx /\ (b \in Victims => kind = "HOT")
  BY LaneTarget
<1>2. /\ blocks' = blocks \cup {b}
      /\ LaneTypes' /\ FreeInv' /\ LaneInv' /\ WindowInv'
  BY LaneStep
<1>3. /\ table \in [LPN -> (Block \X PageIdx) \cup {NoPlace}]
      /\ page \in [Block -> [PageIdx -> Datum \cup {NoContent}]]
      /\ next \in [Block -> 0 .. NP] /\ NP \in Nat
  BY Types, Constants DEF Inv, DataInv, MappingConsistent
<1>4. c.lpn \in LPN /\ c # NoContent
  BY NoContentIsNone
<1>5. /\ page' = [d \in Block |-> [p \in PageIdx |->
                     IF d = b /\ p = n THEN c
                     ELSE IF old = <<d, p>> THEN NoContent
                     ELSE page[d][p]]]
      /\ next' = [next EXCEPT ![b] = @ + 1]
      /\ table' = [table EXCEPT ![c.lpn] = <<b, n>>]
  BY DEF Program
<1>6. n \in Int /\ b \in Block
  BY <1>1 DEF PageIdx
<1> HIDE DEF b, old, n
<1>7. \A d \in Block, p \in PageIdx :
         page'[d][p] = IF d = b /\ p = n THEN c
                       ELSE IF old = <<d, p>> THEN NoContent ELSE page[d][p]
  BY <1>5
<1>8. \A l \in LPN : table'[l] = IF l = c.lpn THEN <<b, n>> ELSE table[l]
  BY <1>3, <1>4, <1>5
<1>9. \A d \in Block : next'[d] = IF d = b THEN n + 1 ELSE next[d]
  BY <1>3, <1>5 DEF n
<1>10. TypeOK'
  <2>1. table' \in [LPN -> (Block \X PageIdx) \cup {NoPlace}]
    BY <1>1, <1>3, <1>5
  <2>2. page' \in [Block -> [PageIdx -> Datum \cup {NoContent}]]
    BY <1>3, <1>5
  <2>3. n + 1 \in 0 .. NP
    BY <1>1, <1>3 DEF PageIdx
  <2>4. next' \in [Block -> 0 .. NP]
    BY <1>3, <1>5, <1>9, <2>3
  <2>5. /\ eraseCount' \in [Block -> 0 .. BadBlock]
        /\ toReclaim' \in Seq(Block) /\ toErase' \in Seq(Block)
    BY Types DEF Inv, DataInv, MappingConsistent
  <2> QED
    BY <1>2, <2>1, <2>2, <2>4, <2>5, TypesAfter DEF LaneTypes
<1>11. ASSUME NEW l \in LPN, table'[l] # NoPlace
       PROVE  table'[l][1] \in blocks' /\ page'[table'[l][1]][table'[l][2]].lpn = l
  <2>1. CASE l = c.lpn
    <3>1. table'[l] = <<b, n>> /\ table'[l][1] = b /\ table'[l][2] = n
      BY <1>8, <2>1
    <3>2. page'[b][n] = c
      BY <1>1, <1>7
    <3> QED
      BY <1>2, <2>1, <3>1, <3>2
  <2>2. CASE l # c.lpn
    <3>1. table'[l] = table[l] /\ table[l] # NoPlace
      BY <1>8, <1>11, <2>2
    <3>2. PICK d \in Block, p \in PageIdx :
             /\ table[l] = <<d, p>> /\ d \in blocks
             /\ page[d][p] \in Datum /\ page[d][p].lpn = l /\ p < next[d]
      BY <3>1, Placed
    <3>3. ~(d = b /\ p = n)
      BY <1>6, <3>2 DEF n
    <3>4. old # <<d, p>>
      <4> SUFFICES ASSUME old = <<d, p>> PROVE FALSE
        OBVIOUS
      <4>1. table[c.lpn] = <<d, p>> /\ table[c.lpn] # NoPlace
        BY NoPlaceIsNone DEF old
      <4>2. PICK e \in Block, q \in PageIdx :
               table[c.lpn] = <<e, q>> /\ page[e][q].lpn = c.lpn
        BY <1>4, <4>1, Placed
      <4>3. e = d /\ q = p
        BY <4>1, <4>2
      <4> QED
        BY <2>2, <3>2, <4>2, <4>3
    <3>5. page'[d][p] = page[d][p]
      BY <1>7, <3>3, <3>4
    <3>6. table'[l][1] = d /\ table'[l][2] = p
      BY <3>1, <3>2
    <3> QED
      BY <1>2, <3>2, <3>5, <3>6
  <2> QED
    BY <2>1, <2>2
<1>12. ASSUME NEW d \in Block, NEW p \in PageIdx, page'[d][p] # NoContent
       PROVE  table'[page'[d][p].lpn] = <<d, p>>
  <2>1. CASE d = b /\ p = n
    BY <1>4, <1>7, <1>8, <2>1
  <2>2. CASE ~(d = b /\ p = n)
    <3>1. page'[d][p] = page[d][p] /\ old # <<d, p>>
      BY <1>7, <1>12, <2>2
    <3>2. page[d][p] \in Datum /\ page[d][p] # NoContent
      BY <1>3, <1>12, <3>1
    <3>3. page[d][p].lpn \in LPN /\ table[page[d][p].lpn] = <<d, p>>
      BY <3>2, NoContentIsNone DEF Inv, DataInv, MappingConsistent
    <3>4. page[d][p].lpn # c.lpn
      BY <3>1, <3>3 DEF old
    <3> QED
      BY <1>8, <3>1, <3>3, <3>4
  <2> QED
    BY <2>1, <2>2
<1>13. MappingConsistent'
  BY <1>10, <1>11, <1>12 DEF MappingConsistent
<1>14. WriteFrontier'
  <2>1. ASSUME NEW d \in Block, NEW p \in PageIdx, page'[d][p] # NoContent
        PROVE  p < next'[d]
    <3>1. p \in Int /\ next[d] \in Int
      BY <1>3 DEF PageIdx
    <3>2. CASE d = b /\ p = n
      BY <1>6, <1>9, <3>2
    <3>3. CASE ~(d = b /\ p = n)
      <4>1. page[d][p] # NoContent
        BY <1>7, <2>1, <3>3
      <4>2. p < next[d]
        BY <4>1 DEF Inv, DataInv, WriteFrontier
      <4> QED
        BY <1>6, <1>9, <3>1, <4>2 DEF n
    <3> QED
      BY <3>2, <3>3
  <2>2. \A d \in Block \ blocks' : next'[d] = 0
    BY <1>2, <1>9 DEF Inv, DataInv, WriteFrontier
  <2> QED
    BY <2>1, <2>2 DEF WriteFrontier
<1>15. VictimInv'
  <2>1. Victims' = Victims
    BY DEF Victims
  <2>2. b \notin Victims
    BY <1>1
  <2>3. Victims \subseteq Block
    BY DEF Inv, DataInv, VictimInv, MappingConsistent, TypeOK
  <2>4. \A d \in Victims : d \in ColdPool => next'[d] = NP
    BY <1>9, <2>2, <2>3 DEF Inv, DataInv, VictimInv
  <2>5. ASSUME NEW d \in Range(toErase) PROVE ValidPages(d)' = {}
    <3>1. d \in Victims /\ ValidPages(d) = {}
      BY DEF Inv, DataInv, VictimInv, Victims
    <3>2. \A p \in PageIdx : page[d][p] = NoContent
      BY <3>1 DEF ValidPages
    <3>3. \A p \in PageIdx : page'[d][p] = NoContent
      BY <1>7, <2>2, <2>3, <3>1, <3>2
    <3> QED
      BY <3>3 DEF ValidPages
  <2> QED
    BY <1>2, <2>1, <2>4, <2>5 DEF Inv, DataInv, VictimInv
<1>16. QED
  BY <1>2, <1>13, <1>14, <1>15 DEF DataInv

-----------------------------------------------------------------------------
(* Host operations *)

(* A step that moves no data and leaves the lists of victims alone. *)
LEMMA DataStutter ==
    ASSUME Inv,
           UNCHANGED <<table, page, next, blocks, type, eraseCount, hotFreeBlocks,
                       coldFreeBlocks, hotWindow, coolDownWindow, last, index,
                       bReclaimMore, toReclaim, toErase>>,
           filled' \in 0 .. ColdFill + HotFill, layers' \in Seq(Layer)
    PROVE  DataInv'
<1>1. TypeOK' /\ MappingConsistent'
  BY DEF Inv, DataInv, MappingConsistent, TypeOK
<1>2. WriteFrontier'
  BY DEF Inv, DataInv, WriteFrontier
<1>3. FreeInv' /\ LaneInv'
  BY DEF Inv, DataInv, FreeInv, LaneInv, Available
<1>4. WindowInv' /\ VictimInv'
  BY DEF Inv, DataInv, WindowInv, VictimInv, Settled, Victims, ValidPages
<1>5. QED
  BY <1>1, <1>2, <1>3, <1>4 DEF DataInv

Corruptions == {"CoolBlockLost", "ValidPagesInVictim", "InvalidBlock", "NoSuchBlock",
                "FreeBlockInUse", "DanglingMapping", "BlockNotInUse"}

(* A panic changes nothing but pc and the message. *)
LEMMA PanicPreserves ==
    ASSUME Inv, NEW m, m \notin Corruptions, Panic(m)
    PROVE  Inv'
<1>1. /\ UNCHANGED <<table, page, next, blocks, type, eraseCount, hotFreeBlocks,
                     coldFreeBlocks, hotWindow, coolDownWindow, last, index,
                     bReclaimMore, toReclaim, toErase, after, layers, layer, filled>>
      /\ pc' = "panic" /\ panic' = m
  BY DEF Panic, mapVars, poolVars, laneVars, controlVars
<1>2. filled' \in 0 .. ColdFill + HotFill /\ layers' \in Seq(Layer)
  BY <1>1, Types DEF Inv, DataInv, MappingConsistent
<1>3. DataInv'
  BY <1>1, <1>2, DataStutter
<1>4. ControlInv' /\ NoCorruption'
  BY <1>1 DEF Inv, ControlInv, NoCorruption, Corruptions
<1>5. QED
  BY <1>3, <1>4 DEF Inv

(* The panics of a lane are not those of a corrupted state. *)
LEMMA LaneErrorsHarmless ==
    ASSUME Inv, NEW kind \in Kind
    PROVE  LaneError(kind) \notin Corruptions
BY LaneErrors DEF Corruptions, NoPanic

(* A mapped page is in a block in use, so that a write panics only as its  *)
(* lane does.                                                              *)
LEMMA WriteErrors ==
    ASSUME Inv, NEW l \in LPN, NEW kind \in Kind
    PROVE  WriteError(l, kind) = LaneError(kind) /\ WriteError(l, kind) \notin Corruptions
<1>1. table[l] # NoPlace => table[l][1] \in blocks
  BY DEF Inv, DataInv, MappingConsistent
<1>2. QED
  BY <1>1, LaneErrorsHarmless DEF WriteError

(* sepWriteInternal() for the host keeps the invariant. *)
LEMMA WritePreserves ==
    ASSUME Inv, NEW l \in LPN, NEW d \in Data, Write(l, d)
    PROVE  Inv'
<1> DEFINE kind == Temperature(l)
           c == [lpn |-> l, data |-> d]
<1>1. kind \in Kind
  BY DEF Temperature, Kind
<1>2. pc = "idle"
  BY DEF Write
<1>3. CASE WriteError(l, kind) # NoPanic
  <2>1. Panic(WriteError(l, kind))
    BY <1>3 DEF Write
  <2> HIDE DEF kind
  <2> QED
    BY <1>1, <2>1, WriteErrors, PanicPreserves
<1>4. CASE WriteError(l, kind) = NoPanic
  <2>1. /\ Program(kind, table[l], c) /\ GetLastFreeBlock(kind)
        /\ pc' = IF Len(coldFreeBlocks') < ColdThreshold THEN "selectCold"
                 ELSE AfterCold(hotFreeBlocks')
        /\ after' = "hot"
        /\ UNCHANGED <<eraseCount, toReclaim, toErase, layers, layer, filled, panic>>
    BY <1>4 DEF Write
  <2>2. toReclaim = <<>> /\ toErase = <<>>
    BY <1>2 DEF Inv, ControlInv
  <2>3. Victims = {}
    BY <2>2, EmptyRange DEF Victims
  <2>4. c \in Datum /\ c.lpn = l
    BY DEF Datum
  <2>5. filled' \in 0 .. ColdFill + HotFill /\ layers' \in Seq(Layer)
    BY <2>1, Types DEF Inv, DataInv, MappingConsistent
  <2>6. LaneError(kind) = NoPanic
    BY <1>1, <1>4, WriteErrors
  <2>7. DataInv'
    <3> HIDE DEF kind, c
    <3> QED
      BY <1>1, <2>1, <2>3, <2>4, <2>5, <2>6, MovePreserves
  <2>8. /\ pc' \in {"selectCold", "selectHot", "idle"}
        /\ pc' = "selectHot" => Len(hotFreeBlocks') < HotThreshold
    BY <2>1 DEF AfterCold
  <2>9. ControlInv' /\ NoCorruption'
    BY <2>1, <2>2, <2>8 DEF Inv, ControlInv, NoCorruption
  <2> QED
    BY <2>7, <2>9 DEF Inv
<1>5. QED
  BY <1>3, <1>4

(* So does a write of initialize(). *)
LEMMA FillPreserves ==
    ASSUME Inv, NEW d \in Data, Fill(d)
    PROVE  Inv'
<1> DEFINE kind == IF filled < ColdFill THEN "COOL" ELSE "HOT"
           c == [lpn |-> filled, data |-> d]
<1>1. kind \in Kind
  BY DEF Kind
<1>2. pc = "fill"
  BY DEF Fill
<1>3. /\ filled \in Nat /\ filled < ColdFill + HotFill /\ ColdFill + HotFill \in Nat
      /\ filled \in LPN
      /\ \A l \in LPN : l >= filled => table[l] = NoPlace
  <2>1. filled \in 0 .. ColdFill + HotFill
    BY Types DEF Inv, DataInv, MappingConsistent
  <2>2. filled < ColdFill + HotFill /\ \A l \in LPN : l >= filled => table[l] = NoPlace
    BY <1>2 DEF Inv, ControlInv
  <2> QED
    BY <2>1, <2>2, Constants DEF LPN
<1>4. CASE WriteError(filled, kind) # NoPanic
  <2>1. Panic(WriteError(filled, kind))
    BY <1>4 DEF Fill
  <2> HIDE DEF kind
  <2> QED
    BY <1>1, <1>3, <2>1, WriteErrors, PanicPreserves
<1>5. CASE WriteError(filled, kind) = NoPanic
  <2>1. /\ Program(kind, NoPlace, c) /\ GetLastFreeBlock(kind)
        /\ filled' = filled + 1
        /\ UNCHANGED <<eraseCount, after, toReclaim, toErase, layers, layer>>
        /\ \/ pc' = "panic" /\ panic' = "GCInInitialization"
           \/ /\ pc' = IF filled + 1 = ColdFill + HotFill THEN "idle" ELSE "fill"
              /\ UNCHANGED panic
    BY <1>5 DEF Fill
  <2>2. toReclaim = <<>> /\ toErase = <<>>
    BY <1>2 DEF Inv, ControlInv
  <2>3. Victims = {}
    BY <2>2, EmptyRange DEF Victims
  <2>4. c \in Datum /\ c.lpn = filled /\ table[filled] = NoPlace
    BY <1>3 DEF Datum
  <2>5. filled' \in 0 .. ColdFill + HotFill /\ layers' \in Seq(Layer)
    <3>1. layers' \in Seq(Layer)
      BY <2>1, Types DEF Inv, DataInv, MappingConsistent
    <3> QED
      BY <1>3, <2>1, <3>1
  <2>6. LaneError(kind) = NoPanic
    BY <1>1, <1>3, <1>5, WriteErrors
  <2>7. DataInv'
    <3> HIDE DEF kind, c
    <3> QED
      BY <1>1, <2>1, <2>3, <2>4, <2>5, <2>6, MovePreserves
  <2>8. ASSUME NEW l \in LPN, l >= filled' PROVE table'[l] = NoPlace
    <3>1. l \in Int /\ l # filled
      BY <1>3, <2>1, <2>8 DEF LPN
    <3>2. table' = [table EXCEPT ![filled] = <<Target(kind), next[Target(kind)]>>]
      BY <2>1, <2>4 DEF Program
    <3>3. table'[l] = table[l]
      BY <3>1, <3>2, Types DEF Inv, DataInv, MappingConsistent
    <3>4. l >= filled
      BY <1>3, <2>1, <2>8, <3>1
    <3> QED
      BY <1>3, <3>3, <3>4
  <2>9. pc' \in {"panic", "idle", "fill"} /\ (pc' = "fill" => filled' < ColdFill + HotFill)
    BY <1>3, <2>1
  <2>10. ControlInv'
    BY <2>1, <2>2, <2>8, <2>9 DEF Inv, ControlInv
  <2>11. NoCorruption'
    BY <2>1 DEF Inv, NoCorruption
  <2> QED
    BY <2>7, <2>10, <2>11 DEF Inv
<1>6. QED
  BY <1>4, <1>5

(* A trim gives up one page. *)
LEMMA TrimPreserves ==
    ASSUME Inv, NEW l \in LPN, Trim(l)
    PROVE  Inv'
<1>1. pc = "idle" /\ ~Dangling({l})
  BY DEF Trim, Dangling, Mapped, Inv, DataInv, MappingConsistent
<1>2. /\ Forget({l})
      /\ UNCHANGED <<next, blocks, type, hotFreeBlocks, coldFreeBlocks, hotWindow,
                     coolDownWindow, last, index, bReclaimMore, eraseCount, after,
                     toReclaim, toErase, layers, layer, filled, pc, panic>>
  BY <1>1 DEF Trim, poolVars, laneVars, controlVars
<1>3. /\ table \in [LPN -> (Block \X PageIdx) \cup {NoPlace}]
      /\ page \in [Block -> [PageIdx -> Datum \cup {NoContent}]]
  BY Types DEF Inv, DataInv, MappingConsistent
<1>4. /\ \A b \in Block, p \in PageIdx :
            page'[b][p] = IF page[b][p].lpn = l THEN NoContent ELSE page[b][p]
      /\ \A m \in LPN : table'[m] = IF m = l THEN NoPlace ELSE table[m]
  BY <1>2 DEF Forget
<1>5. /\ page' \in [Block -> [PageIdx -> Datum \cup {NoContent}]]
      /\ table' \in [LPN -> (Block \X PageIdx) \cup {NoPlace}]
  BY <1>2, <1>3 DEF Forget
<1>6. TypeOK'
  BY <1>2, <1>5 DEF Inv, DataInv, MappingConsistent, TypeOK, Datum
<1>7. ASSUME NEW m \in LPN, table'[m] # NoPlace
      PROVE  table'[m][1] \in blocks' /\ page'[table'[m][1]][table'[m][2]].lpn = m
  <2>1. m # l /\ table'[m] = table[m] /\ table[m] # NoPlace
    BY <1>4, <1>7
  <2>2. PICK b \in Block, p \in PageIdx :
           table[m] = <<b, p>> /\ b \in blocks /\ page[b][p].lpn = m
    BY <2>1, Placed
  <2>3. table'[m][1] = b /\ table'[m][2] = p
    BY <2>1, <2>2
  <2>4. page'[b][p] = page[b][p]
    BY <1>4, <2>1, <2>2
  <2> QED
    BY <1>2, <2>2, <2>3, <2>4
<1>8. ASSUME NEW b \in Block, NEW p \in PageIdx, page'[b][p] # NoContent
      PROVE  table'[page'[b][p].lpn] = <<b, p>> /\ page[b][p] # NoContent
  <2>1. page'[b][p] = page[b][p] /\ page[b][p].lpn # l
    BY <1>4, <1>8
  <2>2. page[b][p] \in Datum /\ page[b][p] # NoContent
    BY <1>3, <1>8, <2>1
  <2>3. page[b][p].lpn \in LPN /\ table[page[b][p].lpn] = <<b, p>>
    BY <2>2, NoContentIsNone DEF Inv, DataInv, MappingConsistent
  <2> QED
    BY <1>4, <2>1, <2>2, <2>3
<1>9. MappingConsistent'
  BY <1>6, <1>7, <1>8 DEF MappingConsistent
<1>10. WriteFrontier'
  BY <1>2, <1>8 DEF Inv, DataInv, WriteFrontier
<1>11. FreeInv' /\ LaneInv' /\ WindowInv'
  BY <1>2 DEF Inv, DataInv, FreeInv, LaneInv, Available, WindowInv, Settled, Victims
<1>12. VictimInv'
  <2>1. ASSUME NEW b \in Range(toErase) PROVE ValidPages(b)' = {}
    <3>1. b \in Block /\ ValidPages(b) = {}
      BY DEF Inv, DataInv, VictimInv, Victims, MappingConsistent, TypeOK
    <3> QED
      BY <1>8, <3>1 DEF ValidPages
  <2> QED
    BY <1>2, <2>1 DEF Inv, DataInv, VictimInv, Victims
<1>13. ControlInv' /\ NoCorruption'
  BY <1>1, <1>2 DEF Inv, ControlInv, NoCorruption
<1>14. QED
  BY <1>9, <1>10, <1>11, <1>12, <1>13 DEF Inv, DataInv

-----------------------------------------------------------------------------
(* Garbage collection *)

(* Garbage collection and refresh copy a valid page to a lane of the cold  *)
(* pool.                                                                   *)
LEMMA CopyPreserves ==
    ASSUME Inv, NEW kind \in {"COOL", "COLD"}, NEW b \in Block, NEW p \in ValidPages(b),
           CopyPage(b, p, kind), pc \in {"copy", "layer"}
    PROVE  Inv'
<1>1. kind \in Kind
  BY DEF Kind
<1>2. CASE LaneError(kind) # NoPanic
  <2>1. Panic(LaneError(kind))
    BY <1>2 DEF CopyPage
  <2> QED
    BY <1>1, <2>1, LaneErrorsHarmless, PanicPreserves
<1>3. CASE LaneError(kind) = NoPanic
  <2>1. /\ Program(kind, <<b, p>>, page[b][p]) /\ GetLastFreeBlock(kind)
        /\ UNCHANGED <<eraseCount, after, toReclaim, toErase, layers, layer, filled, pc, panic>>
    BY <1>3 DEF CopyPage, controlVars
  <2>2. p \in PageIdx /\ page[b][p] \in Datum /\ page[b][p] # NoContent
    BY Types DEF Inv, DataInv, MappingConsistent, ValidPages
  <2>3. table[page[b][p].lpn] = <<b, p>>
    BY <2>2 DEF Inv, DataInv, MappingConsistent
  <2>4. filled' \in 0 .. ColdFill + HotFill /\ layers' \in Seq(Layer)
    BY <2>1, Types DEF Inv, DataInv, MappingConsistent
  <2>5. DataInv'
    BY <1>1, <1>3, <2>1, <2>2, <2>3, <2>4, MovePreserves
  <2>6. ControlInv' /\ NoCorruption'
    BY <2>1 DEF Inv, ControlInv, NoCorruption
  <2> QED
    BY <2>5, <2>6 DEF Inv
<1>4. QED
  BY <1>2, <1>3

(* sepDoGarbageCollection() copies a valid page of a victim to a cool      *)
(* lane, which does not write to a victim.                                 *)
LEMMA CopyVictimPagePreserves ==
    ASSUME Inv, CopyVictimPage
    PROVE  Inv'
<1> DEFINE b == Head(toReclaim)
<1>1. pc = "copy" /\ toReclaim # <<>>
  BY DEF CopyVictimPage
<1>2. b \in Block /\ b \in blocks
  <2>1. toReclaim \in Seq(Block)
    BY Types DEF Inv, DataInv, MappingConsistent
  <2>2. b \in Block /\ b \in Range(toReclaim)
    BY <1>1, <2>1, HeadOfList
  <2> QED
    BY <2>2 DEF Inv, DataInv, VictimInv, Victims
<1>3. ValidPages(b) # {} /\ CopyPage(b, Min(ValidPages(b)), "COOL")
  BY <1>2 DEF CopyVictimPage
<1> HIDE DEF b
<1>4. Min(ValidPages(b)) \in ValidPages(b)
  <2>1. ValidPages(b) \subseteq Nat
    BY Constants DEF ValidPages, PageIdx
  <2> QED
    BY <1>3, <2>1, MinOfNat
<1>5. QED
  BY <1>1, <1>2, <1>3, <1>4, CopyPreserves

(* A victim without valid pages waits for its erase. *)
LEMMA VictimCopiedPreserves ==
    ASSUME Inv, VictimCopied
    PROVE  Inv'
<1> DEFINE b == Head(toReclaim)
<1>1. /\ pc = "copy" /\ toReclaim # <<>> /\ b \in blocks /\ ValidPages(b) = {}
      /\ toReclaim' = Tail(toReclaim) /\ toErase' = Append(toErase, b)
      /\ pc' = IF toReclaim' = <<>> THEN "erase" ELSE "copy"
  BY DEF VictimCopied
<1>2. UNCHANGED <<table, page, next, blocks, type, hotFreeBlocks, coldFreeBlocks, hotWindow,
                  coolDownWindow, last, index, bReclaimMore, eraseCount, after, layers,
                  layer, filled, panic>>
  BY DEF VictimCopied, mapVars, poolVars, laneVars
<1>3. toReclaim \in Seq(Block) /\ toErase \in Seq(Block)
  BY Types DEF Inv, DataInv, MappingConsistent
<1>4. /\ IsInjective(toReclaim) /\ IsInjective(toErase)
      /\ Range(toReclaim) \cap Range(toErase) = {}
      /\ Victims \subseteq blocks
      /\ \A c \in Victims : c \in ColdPool => next[c] = NP
      /\ \A c \in Range(toErase) : ValidPages(c) = {}
  BY DEF Inv, DataInv, VictimInv
<1>5. b \in Block /\ b \in Range(toReclaim) /\ toReclaim' \in Seq(Block)
  BY <1>1, <1>3, HeadOfList
<1>6. IsInjective(toReclaim') /\ Range(toReclaim') = Range(toReclaim) \ {b}
  BY <1>1, <1>3, <1>4, TailInjective
<1> HIDE DEF b
<1>7. b \notin Range(toErase)
  BY <1>4, <1>5
<1>8. toErase' \in Seq(Block) /\ IsInjective(toErase') /\ Range(toErase') = Range(toErase) \cup {b}
  BY <1>1, <1>3, <1>4, <1>5, <1>7, AppendProperties, AppendNewInjective
<1>9. Victims' = Victims
  BY <1>5, <1>6, <1>8 DEF Victims
<1>10. VictimInv'
  <2>1. \A c \in Range(toErase') : ValidPages(c)' = {}
    BY <1>1, <1>2, <1>4, <1>8 DEF ValidPages
  <2>2. Range(toReclaim') \cap Range(toErase') = {}
    BY <1>4, <1>6, <1>8
  <2> QED
    BY <1>2, <1>4, <1>6, <1>8, <1>9, <2>1, <2>2 DEF VictimInv
<1>11. MappingConsistent'
  <2>1. TypeOK'
    BY <1>2, <1>5, <1>8 DEF Inv, DataInv, MappingConsistent, TypeOK
  <2> QED
    BY <1>2, <2>1 DEF Inv, DataInv, MappingConsistent
<1>12. WriteFrontier' /\ FreeInv' /\ LaneInv' /\ WindowInv'
  BY <1>2, <1>9 DEF Inv, DataInv, WriteFrontier, FreeInv, LaneInv, Available, WindowInv, Settled
<1>13. ControlInv' /\ NoCorruption'
  BY <1>1, <1>2 DEF Inv, ControlInv, NoCorruption
<1>14. QED
  BY <1>10, <1>11, <1>12, <1>13 DEF Inv, DataInv

(* Blocks in use that leave the windows become the victims; the ones of    *)
(* the cold pool are full.                                                 *)
LEMMA SelectionPreserves ==
    ASSUME Inv, toReclaim = <<>>, toErase = <<>>,
           NEW list \in Seq(Block), toReclaim' = list, IsInjective(list),
           Range(list) \subseteq blocks,
           \A b \in Range(list) : b \in ColdPool => next[b] = NP,
           hotWindow' \in Seq(Block), IsInjective(hotWindow'),
           Range(hotWindow') = Range(hotWindow) \ Range(list),
           coolDownWindow' \in Seq(Block), IsInjective(coolDownWindow'),
           Len(coolDownWindow') <= Len(coolDownWindow),
           Range(coolDownWindow') = Range(coolDownWindow) \ Range(list),
           bReclaimMore' \in BOOLEAN,
           UNCHANGED <<table, page, next, blocks, type, hotFreeBlocks, coldFreeBlocks,
                       last, index, eraseCount, toErase, layers, filled>>
    PROVE  DataInv'
<1>1. TypeOK'
  BY Types, TypesAfter DEF Inv, DataInv, MappingConsistent
<1>2. MappingConsistent'
  BY <1>1 DEF Inv, DataInv, MappingConsistent
<1>3. WriteFrontier' /\ FreeInv' /\ LaneInv'
  BY DEF Inv, DataInv, WriteFrontier, FreeInv, LaneInv, Available
<1>4. Victims = {} /\ Victims' = Range(list) /\ Range(toErase') = {}
  BY EmptyRange DEF Victims
<1>5. Settled = blocks /\ Settled' = blocks \ Range(list)
  BY <1>4 DEF Settled
<1>6. Len(coolDownWindow') <= Cooldown
  <2>1. Len(coolDownWindow) \in Nat /\ Len(coolDownWindow') \in Nat /\ Cooldown \in Nat
    BY Types, Constants, LenProperties DEF Inv, DataInv, MappingConsistent
  <2>2. Len(coolDownWindow) <= Cooldown
    BY DEF Inv, DataInv, WindowInv
  <2> QED
    BY <2>1, <2>2
<1>7. WindowInv'
  BY <1>5, <1>6 DEF Inv, DataInv, WindowInv
<1>8. VictimInv'
  BY <1>4 DEF Inv, DataInv, VictimInv
<1>9. QED
  BY <1>2, <1>3, <1>7, <1>8 DEF DataInv

(* selectHotVictimBlock() takes blocks out of the hot window. *)
LEMMA SelectHotPreserves ==
    ASSUME Inv, SelectHotVictimBlock
    PROVE  Inv'
<1> DEFINE v == VictimCount(HotTarget, Len(hotFreeBlocks))
           m == Len(hotWindow)
           n == Min({v, m})
           list == SubSeq(hotWindow, 1, n)
<1>1. /\ pc = "selectHot" /\ after' = "idle" /\ bReclaimMore' = FALSE
      /\ toReclaim' = list
      /\ hotWindow' = SubSeq(hotWindow, n + 1, m)
      /\ pc' = IF n = 0 THEN "idle" ELSE "copy"
      /\ UNCHANGED <<table, page, next, blocks, type, hotFreeBlocks, coldFreeBlocks,
                     coolDownWindow, last, index, eraseCount, toErase, layers, layer, filled,
                     panic>>
  BY DEF SelectHotVictimBlock, mapVars
<1>2. toReclaim = <<>> /\ toErase = <<>> /\ Len(hotFreeBlocks) < HotThreshold
  BY <1>1 DEF Inv, ControlInv
<1>3. /\ hotWindow \in Seq(Block) /\ coolDownWindow \in Seq(Block) /\ m \in Nat
      /\ Len(hotFreeBlocks) \in Nat /\ IsInjective(hotWindow) /\ IsInjective(coolDownWindow)
      /\ Len(coolDownWindow) \in Nat
  BY Types, LenProperties DEF Inv, DataInv, MappingConsistent, WindowInv
<1>4. v \in Int /\ v >= 0
  <2> DEFINE more == IF bReclaimMore THEN 1 ELSE 0
             base == IF GCMode = 0 THEN ReclaimBlocks ELSE HotTarget - Len(hotFreeBlocks)
  <2>1. more \in Nat
    OBVIOUS
  <2>2. base \in Int /\ base >= 0
    <3>1. GCMode # 0 => HotTarget >= HotThreshold
      BY SeparationAssumption
    <3> QED
      BY <1>2, <1>3, <3>1, Constants
  <2>3. v = base + more
    BY Zenon DEF VictimCount
  <2> HIDE DEF more, base, v
  <2> QED
    BY <2>1, <2>2, <2>3
<1> HIDE DEF v, m
<1>5. n \in 0 .. m
  <2>1. v \in Int /\ m \in Int
    BY <1>3, <1>4
  <2>2. n \in {v, m} /\ n \in Int /\ n <= m
    BY <2>1, MinOfTwo
  <2> HIDE DEF n
  <2> QED
    BY <1>3, <1>4, <2>2
<1> HIDE DEF n
<1>6. /\ list \in Seq(Block) /\ hotWindow' \in Seq(Block)
      /\ IsInjective(list) /\ IsInjective(hotWindow')
      /\ Range(list) \subseteq Range(hotWindow)
      /\ Range(hotWindow') = Range(hotWindow) \ Range(list)
      /\ list = <<>> <=> n = 0
  <2>1. n \in 0 .. Len(hotWindow) /\ hotWindow' = SubSeq(hotWindow, n + 1, Len(hotWindow))
    BY <1>1, <1>5 DEF m
  <2> DEFINE rest == SubSeq(hotWindow, n + 1, Len(hotWindow))
  <2>2. /\ list \in Seq(Block) /\ rest \in Seq(Block)
        /\ IsInjective(list) /\ IsInjective(rest)
        /\ Range(list) \subseteq Range(hotWindow)
        /\ Range(rest) = Range(hotWindow) \ Range(list)
        /\ list = <<>> <=> n = 0
    <3>1. hotWindow \in Seq(Block) /\ IsInjective(hotWindow)
      BY <1>3
    <3>2. n \in 0 .. Len(hotWindow)
      BY <2>1
    <3>3. /\ list \in Seq(Block) /\ rest \in Seq(Block)
      BY <3>1, <3>2, SplitInjective
    <3>4. /\ IsInjective(list) /\ IsInjective(rest)
      BY <3>1, <3>2, SplitInjective
    <3>5. /\ Range(list) \subseteq Range(hotWindow)
          /\ Range(rest) = Range(hotWindow) \ Range(list)
      BY <3>1, <3>2, SplitInjective
    <3>6. list = <<>> <=> n = 0
      BY <3>1, <3>2, SplitInjective
    <3> QED
      BY <3>3, <3>4, <3>5, <3>6
  <2> HIDE DEF list
  <2> QED
    BY <2>1, <2>2
<1> HIDE DEF list
<1>7. /\ Range(hotWindow) = {b \in Settled : type[b] = "HOT"}
      /\ Range(coolDownWindow) = {b \in Settled : type[b] = "COOL"}
      /\ \A b \in Block : type[b] = "HOT" <=> b \in HotPool
      /\ Settled \subseteq blocks /\ blocks \subseteq Block
  BY Types DEF Inv, DataInv, MappingConsistent, WindowInv, FreeInv, Settled
<1>8. /\ Range(list) \subseteq blocks
      /\ \A b \in Range(list) : b \notin ColdPool
      /\ Range(coolDownWindow) = Range(coolDownWindow) \ Range(list)
  BY <1>6, <1>7, Pools
<1>9. DataInv'
  <2>1. /\ coolDownWindow' \in Seq(Block) /\ IsInjective(coolDownWindow')
        /\ Range(coolDownWindow') = Range(coolDownWindow) \ Range(list)
    BY <1>1, <1>3, <1>8
  <2>2. Len(coolDownWindow') <= Len(coolDownWindow)
    BY <1>1, <1>3
  <2>3. /\ bReclaimMore' \in BOOLEAN
        /\ \A b \in Range(list) : b \in ColdPool => next[b] = NP
    BY <1>1, <1>8
  <2> QED
    BY <1>1, <1>2, <1>6, <1>8, <2>1, <2>2, <2>3, SelectionPreserves
<1>10. ControlInv' /\ NoCorruption'
  BY <1>1, <1>2, <1>6 DEF Inv, ControlInv, NoCorruption
<1>11. QED
  BY <1>9, <1>10 DEF Inv

(* Where a handler goes on behind garbage collection *)
LEMMA Resumes ==
    ASSUME Inv, NEW free
    PROVE  /\ Resume(free) \in {"selectHot", "idle", "refresh"}
           /\ Resume(free) = "selectHot" => Len(free) < HotThreshold
BY DEF Inv, ControlInv, Resume, AfterCold

(* selectColdVictimBlock() takes full blocks of the cold pool, and out of  *)
(* the cool-down window.                                                   *)
LEMMA SelectColdPreserves ==
    ASSUME Inv, SelectColdVictimBlock
    PROVE  Inv'
<1> DEFINE v == VictimCount(ColdTarget, Len(coldFreeBlocks))
           n == Min({v, Cardinality(Candidates)})
<1>1. /\ pc = "selectCold"
      /\ UNCHANGED <<table, page, next, blocks, type, hotFreeBlocks, coldFreeBlocks, hotWindow,
                     last, index, eraseCount, after, toErase, layers, layer, filled, panic>>
  BY DEF SelectColdVictimBlock, mapVars
<1>2. PICK list \in Lowest(n) :
         /\ StartGC(list)
         /\ coolDownWindow' = Without(coolDownWindow, Range(list))
  BY DEF SelectColdVictimBlock
<1>3. toReclaim = <<>> /\ toErase = <<>>
  BY <1>1 DEF Inv, ControlInv
<1>4. /\ hotWindow \in Seq(Block) /\ coolDownWindow \in Seq(Block)
      /\ Len(coldFreeBlocks) \in Nat /\ IsInjective(hotWindow) /\ IsInjective(coolDownWindow)
      /\ blocks \subseteq Block
  BY Types, LenProperties DEF Inv, DataInv, MappingConsistent, WindowInv
<1>5. n \in Int
  <2>1. Cardinality(Candidates) \in Int
    <3>1. Candidates \subseteq Block
      BY <1>4 DEF Candidates
    <3>2. IsFiniteSet(Block)
      BY FS_Interval, Constants DEF Block
    <3> QED
      BY <3>1, <3>2, FS_Subset, FS_CardinalityType
  <2>2. v \in Int
    <3> DEFINE more == IF bReclaimMore THEN 1 ELSE 0
               base == IF GCMode = 0 THEN ReclaimBlocks ELSE ColdTarget - Len(coldFreeBlocks)
    <3>1. more \in Int
      OBVIOUS
    <3>2. base \in Int
      BY <1>4, Constants
    <3>3. v = base + more
      BY Zenon DEF VictimCount
    <3> HIDE DEF more, base, v
    <3> QED
      BY <3>1, <3>2, <3>3
  <2> HIDE DEF v
  <2> QED
    BY <2>1, <2>2, MinOfTwo
<1> HIDE DEF n
<1>6. list \in [1 .. n -> Candidates] /\ IsInjective(list)
  BY <1>2, Zenon DEF Lowest
<1>7. list \in Seq(Candidates)
  BY <1>5, <1>6, FunctionSeq
<1>8. Range(list) \subseteq Candidates
  <2> SUFFICES ASSUME NEW x \in Range(list) PROVE x \in Candidates
    OBVIOUS
  <2>1. PICK j \in 1 .. Len(list) : list[j] = x
    BY <1>7, MembersOfSeq
  <2> QED
    BY <1>7, <2>1, ElementOfSeq
<1>9. list \in Seq(Block)
  <2>1. Candidates \subseteq Block
    BY <1>4 DEF Candidates
  <2>2. list \in [1 .. n -> Block]
    BY <1>6, <2>1
  <2> QED
    BY <1>5, <2>2, FunctionSeq
<1>10. \A b \in Range(list) : b \in blocks /\ type[b] # "HOT" /\ next[b] = NP
  BY <1>8 DEF Candidates, Full
<1>11. Range(hotWindow) = Range(hotWindow) \ Range(list)
  BY <1>10 DEF Inv, DataInv, WindowInv
<1>12. /\ coolDownWindow' \in Seq(Block) /\ IsInjective(coolDownWindow')
       /\ Len(coolDownWindow') <= Len(coolDownWindow)
       /\ Range(coolDownWindow') = Range(coolDownWindow) \ Range(list)
  BY <1>2, <1>4, WithoutSeq
<1>13. /\ toReclaim' = list /\ bReclaimMore' = FALSE
       /\ pc' = IF list = <<>> THEN Resume(hotFreeBlocks) ELSE "copy"
  BY <1>2 DEF StartGC
<1>14. DataInv'
  <2>1. Range(list) \subseteq blocks /\ bReclaimMore' \in BOOLEAN
    BY <1>10, <1>13
  <2> QED
    BY <1>1, <1>3, <1>4, <1>6, <1>9, <1>10, <1>11, <1>12, <1>13, <2>1, SelectionPreserves
<1>15. ControlInv' /\ NoCorruption'
  <2>1. /\ pc' \in {"selectHot", "idle", "refresh", "copy"}
        /\ pc' # "copy" => list = <<>>
        /\ pc' = "selectHot" => Len(hotFreeBlocks) < HotThreshold
    BY <1>13, Resumes
  <2> QED
    BY <1>1, <1>3, <1>13, <2>1 DEF Inv, ControlInv, NoCorruption
<1>16. QED
  BY <1>14, <1>15 DEF Inv

-----------------------------------------------------------------------------
(* Erase *)

(* The place sepEraseInternal() finds for an erased block is in the free   *)
(* list or at its end.                                                     *)
LEMMA InsertPosInList ==
    ASSUME NEW list \in Seq(Block), NEW count
    PROVE  InsertPos(list, count) \in 1 .. Len(list) + 1
<1> DEFINE notAbove == {i \in DOMAIN list : eraseCount[list[i]] <= count}
           n == Len(list)
<1>1. n \in Nat /\ DOMAIN list = 1 .. n
  BY LenProperties
<1>2. InsertPos(list, count) = IF notAbove = {} THEN 1 ELSE Max(notAbove) + 1
  BY DEF InsertPos
<1>3. notAbove \subseteq 1 .. n
  BY <1>1
<1> HIDE DEF notAbove, n
<1>4. CASE notAbove = {}
  <2>1. 1 \in 1 .. n + 1
    BY <1>1
  <2> QED
    BY <1>2, <1>4, <2>1 DEF n
<1>5. CASE notAbove # {}
  <2>1. Max(notAbove) \in 1 .. n
    BY <1>1, <1>3, <1>5, MaxOfInterval
  <2>2. Max(notAbove) + 1 \in 1 .. n + 1
    BY <1>1, <2>1
  <2> QED
    BY <1>2, <1>5, <2>2 DEF n
<1>6. QED
  BY <1>4, <1>5

(* The victim that is erased next *)
LEMMA ErasedBlock ==
    ASSUME Inv, toErase # <<>>
    PROVE  /\ Head(toErase) \in Block /\ Head(toErase) \in blocks
           /\ ValidPages(Head(toErase)) = {}
           /\ eraseCount[Head(toErase)] \in Nat /\ eraseCount[Head(toErase)] < BadBlock
           /\ Tail(toErase) \in Seq(Block) /\ IsInjective(Tail(toErase))
           /\ Range(Tail(toErase)) = Range(toErase) \ {Head(toErase)}
           /\ Head(toErase) \in Range(toErase)
<1>1. toErase \in Seq(Block) /\ IsInjective(toErase) /\ eraseCount \in [Block -> 0 .. BadBlock]
  BY Types DEF Inv, DataInv, MappingConsistent, VictimInv
<1>2. Head(toErase) \in Block /\ Head(toErase) \in Range(toErase) /\ Tail(toErase) \in Seq(Block)
  BY <1>1, HeadOfList
<1>3. Head(toErase) \in blocks /\ ValidPages(Head(toErase)) = {}
  BY <1>2 DEF Inv, DataInv, VictimInv, Victims
<1>4. eraseCount[Head(toErase)] < BadBlock
  BY <1>3 DEF Inv, DataInv, FreeInv
<1>5. eraseCount[Head(toErase)] \in Nat
  BY <1>1, <1>2, Constants
<1>6. IsInjective(Tail(toErase)) /\ Range(Tail(toErase)) = Range(toErase) \ {Head(toErase)}
  BY <1>1, TailInjective
<1>7. QED
  BY <1>2, <1>3, <1>4, <1>5, <1>6

(* The erase itself: no page is mapped to the block any more. *)
LEMMA EraseData ==
    ASSUME Inv, toErase # <<>>, toErase' = Tail(toErase),
           next' = [next EXCEPT ![Head(toErase)] = 0],
           eraseCount' = [eraseCount EXCEPT ![Head(toErase)] = @ + 1],
           UNCHANGED <<table, page, toReclaim, layers, filled>>,
           blocks \ {Head(toErase)} \subseteq blocks', Head(toErase) \notin blocks',
           LaneTypes', FreeInv', LaneInv', WindowInv'
    PROVE  DataInv'
<1> DEFINE b == Head(toErase)
<1>1. /\ b \in Block /\ b \in blocks /\ ValidPages(b) = {}
      /\ eraseCount[b] \in Nat /\ eraseCount[b] < BadBlock
      /\ toErase' \in Seq(Block) /\ IsInjective(toErase')
      /\ Range(toErase') = Range(toErase) \ {b} /\ b \in Range(toErase)
  BY ErasedBlock
<1>2. /\ next \in [Block -> 0 .. NP] /\ eraseCount \in [Block -> 0 .. BadBlock]
      /\ table \in [LPN -> (Block \X PageIdx) \cup {NoPlace}]
      /\ page \in [Block -> [PageIdx -> Datum \cup {NoContent}]]
      /\ toReclaim \in Seq(Block) /\ layers \in Seq(Layer) /\ filled \in 0 .. ColdFill + HotFill
  BY Types DEF Inv, DataInv, MappingConsistent
<1> HIDE DEF b
<1>3. /\ next' = [next EXCEPT ![b] = 0] /\ eraseCount' = [eraseCount EXCEPT ![b] = @ + 1]
      /\ blocks \ {b} \subseteq blocks' /\ b \notin blocks'
  BY DEF b
<1>4. \A p \in PageIdx : page[b][p] = NoContent
  BY <1>1 DEF ValidPages
<1>5. \A c \in Block : next'[c] = IF c = b THEN 0 ELSE next[c]
  BY <1>2, <1>3
<1>6. TypeOK'
  <2>1. next' \in [Block -> 0 .. NP]
    BY <1>1, <1>2, <1>3, Constants
  <2>2. eraseCount[b] + 1 \in 0 .. BadBlock
    BY <1>1, Constants
  <2>3. eraseCount' \in [Block -> 0 .. BadBlock]
    BY <1>1, <1>2, <1>3, <2>2
  <2> QED
    BY <1>1, <1>2, <2>1, <2>3, TypesAfter DEF LaneTypes
<1>7. MappingConsistent'
  <2>1. ASSUME NEW l \in LPN, table[l] # NoPlace
        PROVE  table[l][1] \in blocks' /\ page[table[l][1]][table[l][2]].lpn = l
    <3>1. PICK d \in Block, p \in PageIdx :
             table[l] = <<d, p>> /\ d \in blocks /\ page[d][p].lpn = l /\ page[d][p] # NoContent
      BY <2>1, Placed
    <3>2. d # b
      BY <1>4, <3>1
    <3>3. table[l][1] = d /\ table[l][2] = p
      BY <3>1
    <3> QED
      BY <1>3, <3>1, <3>2, <3>3
  <2>2. \A d \in Block, p \in PageIdx : page[d][p] # NoContent => table[page[d][p].lpn] = <<d, p>>
    BY DEF Inv, DataInv, MappingConsistent
  <2> QED
    BY <1>6, <2>1, <2>2 DEF MappingConsistent
<1>8. WriteFrontier'
  <2>1. ASSUME NEW d \in Block, NEW p \in PageIdx, page[d][p] # NoContent PROVE p < next'[d]
    <3>1. d # b /\ p < next[d]
      BY <1>4, <2>1 DEF Inv, DataInv, WriteFrontier
    <3> QED
      BY <1>5, <3>1
  <2>2. \A d \in Block \ blocks' : next'[d] = 0
    BY <1>3, <1>5 DEF Inv, DataInv, WriteFrontier
  <2> QED
    BY <2>1, <2>2 DEF WriteFrontier
<1>9. VictimInv'
  <2>1. /\ IsInjective(toReclaim) /\ IsInjective(toErase)
        /\ Range(toReclaim) \cap Range(toErase) = {}
        /\ Victims \subseteq blocks
        /\ \A c \in Victims : c \in ColdPool => next[c] = NP
        /\ \A c \in Range(toErase) : ValidPages(c) = {}
    BY DEF Inv, DataInv, VictimInv
  <2>2. Victims' = Victims \ {b}
    BY <1>1, <2>1 DEF Victims
  <2>3. Victims' \subseteq blocks'
    BY <1>3, <2>1, <2>2
  <2>4. \A c \in Victims' : c \in ColdPool => next'[c] = NP
    BY <1>5, <2>1, <2>2, Pools
  <2>5. \A c \in Range(toErase') : ValidPages(c)' = {}
    BY <1>1, <2>1 DEF ValidPages
  <2> QED
    BY <1>1, <2>1, <2>3, <2>4, <2>5 DEF VictimInv
<1>10. QED
  BY <1>7, <1>8, <1>9 DEF DataInv

(* The victims lose the erased block. *)
LEMMA VictimErased ==
    ASSUME Inv, toErase # <<>>, toErase' = Tail(toErase), toReclaim' = toReclaim
    PROVE  Victims' = Victims \ {Head(toErase)} /\ Head(toErase) \in Victims
<1>1. /\ Range(Tail(toErase)) = Range(toErase) \ {Head(toErase)}
      /\ Head(toErase) \in Range(toErase)
  BY ErasedBlock
<1>2. Range(toReclaim) \cap Range(toErase) = {}
  BY DEF Inv, DataInv, VictimInv
<1>3. QED
  BY <1>1, <1>2 DEF Victims

(* A block that is no block of a lane goes back to the list of its pool,   *)
(* or to none when it is worn out.                                         *)
LEMMA ReturnBlockPools ==
    ASSUME Inv, toErase # <<>>, toErase' = Tail(toErase),
           eraseCount' = [eraseCount EXCEPT ![Head(toErase)] = @ + 1],
           UNCHANGED <<toReclaim, index>>, ReturnBlock(Head(toErase))
    PROVE  /\ blocks' = blocks \ {Head(toErase)}
           /\ LaneTypes' /\ FreeInv' /\ LaneInv' /\ WindowInv'
<1> DEFINE b == Head(toErase)
           count == eraseCount[b] + 1
<1>1. /\ b \in Block /\ b \in blocks /\ eraseCount[b] \in Nat /\ eraseCount[b] < BadBlock
  BY ErasedBlock
<1>2. Victims' = Victims \ {b} /\ b \in Victims
  BY VictimErased
<1> HIDE DEF b
<1>3. /\ blocks' = blocks \ {b}
      /\ UNCHANGED <<type, hotWindow, coolDownWindow, last, bReclaimMore>>
      /\ IF count >= BadBlock THEN UNCHANGED <<hotFreeBlocks, coldFreeBlocks>>
         ELSE IF type[b] = "HOT"
         THEN /\ hotFreeBlocks' = InsertAt(hotFreeBlocks, InsertPos(hotFreeBlocks, count), b)
              /\ UNCHANGED coldFreeBlocks
         ELSE /\ coldFreeBlocks' = InsertAt(coldFreeBlocks, InsertPos(coldFreeBlocks, count), b)
              /\ UNCHANGED hotFreeBlocks
  BY Zenon DEF ReturnBlock, b
<1>4. eraseCount' = [eraseCount EXCEPT ![b] = @ + 1]
  BY DEF b
<1>5. LaneTypes /\ eraseCount \in [Block -> 0 .. BadBlock]
  BY Types DEF Inv, DataInv, MappingConsistent, LaneTypes
<1>6. \A c \in Block : eraseCount'[c] = IF c = b THEN count ELSE eraseCount[c]
  BY <1>4, <1>5
<1>7. count \in Nat /\ BadBlock \in Nat
  BY <1>1, Constants
<1>8. /\ IsInjective(hotFreeBlocks) /\ IsInjective(coldFreeBlocks)
      /\ Range(hotFreeBlocks) = Available(HotPool)
      /\ Range(coldFreeBlocks) = Available(ColdPool)
      /\ \A c \in blocks : eraseCount[c] < BadBlock
      /\ \A c \in Block : type[c] = "HOT" <=> c \in HotPool
  BY DEF Inv, DataInv, FreeInv
<1> HIDE DEF count
<1>9. /\ b \notin Range(hotFreeBlocks) /\ b \notin Range(coldFreeBlocks)
  BY <1>1, <1>8 DEF Available
<1>10. ASSUME NEW pool, pool \subseteq Block
       PROVE  Available(pool)' = IF b \in pool /\ ~(count >= BadBlock)
                                 THEN Available(pool) \cup {b} ELSE Available(pool)
  <2>1. ASSUME NEW c \in pool, c # b
        PROVE  c \in Available(pool)' <=> c \in Available(pool)
    BY <1>3, <1>6, <1>10, <2>1 DEF Available
  <2>2. b \in Available(pool)' <=> b \in pool /\ ~(count >= BadBlock)
    <3>1. b \notin blocks' /\ eraseCount'[b] = count
      BY <1>1, <1>3, <1>6
    <3>2. count < BadBlock <=> ~(count >= BadBlock)
      BY <1>7
    <3>3. b \in Available(pool)' <=> b \in pool /\ b \notin blocks' /\ eraseCount'[b] < BadBlock
      BY DEF Available
    <3> QED
      BY <3>1, <3>2, <3>3, Zenon
  <2>3. Available(pool)' \subseteq pool /\ Available(pool) \subseteq pool /\ b \notin Available(pool)
    BY <1>1 DEF Available
  <2> DEFINE A == Available(pool)
             B == Available(pool)'
  <2> HIDE DEF A, B
  <2>4. /\ B \subseteq pool /\ A \subseteq pool /\ b \notin A
        /\ \A c \in pool : c # b => (c \in B <=> c \in A)
        /\ b \in B <=> b \in pool /\ ~(count >= BadBlock)
    BY <2>1, <2>2, <2>3 DEF A, B
  <2>5. CASE b \in pool /\ ~(count >= BadBlock)
    <3>1. B = A \cup {b}
      BY <2>4, <2>5
    <3> QED
      BY <2>5, <3>1, Zenon DEF A, B
  <2>6. CASE ~(b \in pool /\ ~(count >= BadBlock))
    <3>1. b \notin B
      BY <2>4, <2>6, Zenon
    <3>2. B = A
      <4>1. \A x : x \in B => x \in A
        BY <2>4, <3>1, Zenon
      <4>2. \A x : x \in A => x \in B
        BY <2>4, Zenon
      <4> QED
        BY <4>1, <4>2, Zenon
    <3> QED
      BY <2>6, <3>2, Zenon DEF A, B
  <2> QED
    BY <2>5, <2>6
<1>11. /\ hotFreeBlocks' \in Seq(Block) /\ coldFreeBlocks' \in Seq(Block)
       /\ IsInjective(hotFreeBlocks') /\ IsInjective(coldFreeBlocks')
       /\ Range(hotFreeBlocks') = Available(HotPool)'
       /\ Range(coldFreeBlocks') = Available(ColdPool)'
  <2>1. hotFreeBlocks \in Seq(Block) /\ coldFreeBlocks \in Seq(Block)
    BY <1>5 DEF LaneTypes
  <2>2. /\ InsertPos(hotFreeBlocks, count) \in 1 .. Len(hotFreeBlocks) + 1
        /\ InsertPos(coldFreeBlocks, count) \in 1 .. Len(coldFreeBlocks) + 1
    BY <2>1, InsertPosInList
  <2>3. /\ HotPool \subseteq Block /\ ColdPool \subseteq Block
        /\ b \in HotPool <=> type[b] = "HOT"
        /\ b \in ColdPool <=> type[b] # "HOT"
    BY <1>1, <1>8, Pools
  <2>4. CASE count >= BadBlock
    <3>1. UNCHANGED <<hotFreeBlocks, coldFreeBlocks>>
      BY <1>3, <2>4
    <3>2. Available(HotPool)' = Available(HotPool) /\ Available(ColdPool)' = Available(ColdPool)
      BY <1>10, <2>3, <2>4
    <3> QED
      BY <1>8, <2>1, <3>1, <3>2
  <2>5. CASE ~(count >= BadBlock) /\ type[b] = "HOT"
    <3>1. /\ hotFreeBlocks' = InsertAt(hotFreeBlocks, InsertPos(hotFreeBlocks, count), b)
          /\ UNCHANGED coldFreeBlocks
      BY <1>3, <2>5
    <3>2. /\ hotFreeBlocks' \in Seq(Block)
      BY <1>1, <2>1, <2>2, <3>1, InsertAtSeq
    <3>3. IsInjective(hotFreeBlocks') /\ Range(hotFreeBlocks') = Range(hotFreeBlocks) \cup {b}
      BY <1>1, <1>8, <1>9, <2>1, <2>2, <3>1, InsertAtInjective
    <3>4. Available(HotPool)' = Available(HotPool) \cup {b} /\ Available(ColdPool)' = Available(ColdPool)
      BY <1>10, <2>3, <2>5
    <3> QED
      BY <1>8, <2>1, <3>1, <3>2, <3>3, <3>4
  <2>6. CASE ~(count >= BadBlock) /\ type[b] # "HOT"
    <3>1. /\ coldFreeBlocks' = InsertAt(coldFreeBlocks, InsertPos(coldFreeBlocks, count), b)
          /\ UNCHANGED hotFreeBlocks
      BY <1>3, <2>6
    <3>2. /\ coldFreeBlocks' \in Seq(Block)
      BY <1>1, <2>1, <2>2, <3>1, InsertAtSeq
    <3>3. IsInjective(coldFreeBlocks') /\ Range(coldFreeBlocks') = Range(coldFreeBlocks) \cup {b}
      BY <1>1, <1>8, <1>9, <2>1, <2>2, <3>1, InsertAtInjective
    <3>4. Available(ColdPool)' = Available(ColdPool) \cup {b} /\ Available(HotPool)' = Available(HotPool)
      BY <1>10, <2>3, <2>6
    <3> QED
      BY <1>8, <2>1, <3>1, <3>2, <3>3, <3>4
  <2> QED
    BY <2>4, <2>5, <2>6
<1>12. \A c \in blocks' : eraseCount'[c] < BadBlock
  BY <1>3, <1>5, <1>6, <1>8 DEF LaneTypes
<1>13. FreeInv'
  BY <1>3, <1>8, <1>11, <1>12 DEF FreeInv
<1>14. LaneInv'
  BY <1>3 DEF Inv, DataInv, LaneInv
<1>15. LaneTypes'
  BY <1>3, <1>5, <1>11 DEF LaneTypes
<1>16. Settled' = Settled
  BY <1>1, <1>2, <1>3 DEF Settled
<1>17. WindowInv'
  BY <1>3, <1>16 DEF Inv, DataInv, WindowInv
<1>18. QED
  BY <1>3, <1>13, <1>14, <1>15, <1>17 DEF b

(* A block of a lane goes back to the list behind the block the lane takes *)
(* instead, which is a cool one.                                           *)
LEMMA ReturnToLanePools ==
    ASSUME Inv, toErase # <<>>, toErase' = Tail(toErase),
           eraseCount' = [eraseCount EXCEPT ![Head(toErase)] = @ + 1],
           UNCHANGED <<toReclaim, index>>,
           coldFreeBlocks # <<>>, eraseCount[Head(toErase)] + 1 < BadBlock,
           NEW k \in Lane, type[Head(toErase)] # "HOT", ReturnToLane(Head(toErase), k)
    PROVE  /\ blocks \ {Head(toErase)} \subseteq blocks' /\ Head(toErase) \notin blocks'
           /\ LaneTypes' /\ FreeInv' /\ LaneInv' /\ WindowInv'
<1> DEFINE b == Head(toErase)
           count == eraseCount[b] + 1
           f == coldFreeBlocks
           pos == InsertPos(f, count)
           taken == FreePos(f, k)
           t == f[taken]
           rest == RemoveAt(f, taken)
           at == IF taken < pos THEN pos - 1 ELSE pos
<1>1. /\ b \in Block /\ b \in blocks /\ eraseCount[b] \in Nat /\ count < BadBlock
  BY ErasedBlock
<1>2. Victims' = Victims \ {b} /\ b \in Victims
  BY VictimErased
<1>3. Free("COLD") = f /\ FreeBlock("COLD", k) = t /\ PoolOf("COLD") = ColdPool
  BY DEF Free, FreeBlock, PoolOf
<1>4. LaneTypes /\ eraseCount \in [Block -> 0 .. BadBlock] /\ f \in Seq(Block)
  BY Types DEF Inv, DataInv, MappingConsistent, LaneTypes
<1>5. /\ taken \in 1 .. Len(f) /\ t \in Block /\ t \notin blocks /\ t \in Available(ColdPool)
      /\ t \in ColdPool /\ t \in Range(f)
  BY <1>3, TakenBlock DEF Available
<1>6. pos \in 1 .. Len(f) + 1
  BY <1>4, InsertPosInList
<1> HIDE DEF b
<1>7. /\ Alloc("COLD", k, TRUE)
      /\ blocks' = (blocks \ {b}) \cup {t}
      /\ coldFreeBlocks' = InsertAt(rest, at, b)
      /\ last' = [last EXCEPT ![type[b]][k] = t]
      /\ bReclaimMore' = TRUE
      /\ UNCHANGED hotFreeBlocks
  BY Zenon DEF ReturnToLane, b
<1>8. eraseCount' = [eraseCount EXCEPT ![b] = @ + 1] /\ type[b] # "HOT"
  BY DEF b
<1>9. /\ IsInjective(hotFreeBlocks) /\ IsInjective(f)
      /\ Range(hotFreeBlocks) = Available(HotPool)
      /\ Range(f) = Available(ColdPool)
      /\ \A c \in blocks : eraseCount[c] < BadBlock
      /\ \A c \in Block : type[c] = "HOT" <=> c \in HotPool
  BY DEF Inv, DataInv, FreeInv
<1> HIDE DEF f, pos, taken, t
<1>10. /\ rest \in Seq(Block) /\ Len(rest) = Len(f) - 1
       /\ IsInjective(rest) /\ Range(rest) = Range(f) \ {t}
  <2>1. rest \in Seq(Block) /\ Len(rest) = Len(f) - 1
    BY <1>4, <1>5, RemoveAtSeq
  <2>2. IsInjective(rest) /\ Range(rest) = Range(f) \ {f[taken]}
    BY <1>4, <1>5, <1>9, RemoveAtInjective
  <2> QED
    BY <2>1, <2>2 DEF t
<1> HIDE DEF rest
<1>11. at \in 1 .. Len(rest) + 1
  <2>1. Len(f) \in Nat
    BY <1>4, LenProperties
  <2> QED
    BY <1>5, <1>6, <1>10, <2>1
<1> HIDE DEF at
<1>12. b \notin Range(f) /\ b # t /\ b \notin Range(rest)
  BY <1>1, <1>5, <1>9, <1>10 DEF Available
<1>13. coldFreeBlocks' \in Seq(Block)
  BY <1>1, <1>7, <1>10, <1>11, InsertAtSeq
<1>14. IsInjective(coldFreeBlocks') /\ Range(coldFreeBlocks') = (Range(f) \ {t}) \cup {b}
  BY <1>1, <1>7, <1>10, <1>11, <1>12, InsertAtInjective
<1>15. \A c \in Block : eraseCount'[c] = IF c = b THEN count ELSE eraseCount[c]
  BY <1>4, <1>8
<1> HIDE DEF count
<1>16. b \in ColdPool /\ b \notin HotPool /\ t \notin HotPool
       /\ HotPool \subseteq Block /\ ColdPool \subseteq Block
  BY <1>1, <1>5, <1>8, <1>9, Pools
<1>17. Available(ColdPool)' = (Available(ColdPool) \ {t}) \cup {b}
  <2>1. b \in Available(ColdPool)'
    BY <1>1, <1>7, <1>12, <1>15, <1>16 DEF Available
  <2>2. t \notin Available(ColdPool)'
    BY <1>7 DEF Available
  <2>3. ASSUME NEW c \in ColdPool, c # b, c # t
        PROVE  c \in Available(ColdPool)' <=> c \in Available(ColdPool)
    BY <1>7, <1>15, <1>16, <2>3 DEF Available
  <2>4. Available(ColdPool)' \subseteq ColdPool /\ Available(ColdPool) \subseteq ColdPool
    BY DEF Available
  <2> QED
    BY <2>1, <2>2, <2>3, <2>4
<1>18. Available(HotPool)' = Available(HotPool)
  <2>1. ASSUME NEW c \in HotPool PROVE c \in Available(HotPool)' <=> c \in Available(HotPool)
    BY <1>7, <1>15, <1>16 DEF Available
  <2>2. Available(HotPool)' \subseteq HotPool /\ Available(HotPool) \subseteq HotPool
    BY DEF Available
  <2> QED
    BY <2>1, <2>2
<1>19. \A c \in blocks' : eraseCount'[c] < BadBlock
  <2>1. eraseCount[t] < BadBlock /\ blocks \subseteq Block
    BY <1>4, <1>5 DEF Available, LaneTypes
  <2> QED
    BY <1>5, <1>7, <1>9, <1>12, <1>15, <2>1
<1>20. Settled' = Settled \cup {t}
  <2>1. t \notin Victims
    BY <1>5 DEF Inv, DataInv, VictimInv
  <2> QED
    BY <1>1, <1>2, <1>7, <1>12, <2>1 DEF Settled
<1>21. /\ WindowInv'
       /\ hotWindow' \in Seq(Block) /\ coolDownWindow' \in Seq(Block)
       /\ type' \in [Block -> Kind]
       /\ \A c \in Block : type'[c] = "HOT" <=> c \in HotPool
  <2>1. /\ "COLD" \in Kind /\ TRUE \in BOOLEAN /\ (TRUE => "COLD" # "HOT")
        /\ ("COLD" = "COOL" => TRUE) /\ Free("COLD") # <<>>
        /\ Settled' = Settled \cup {FreeBlock("COLD", k)}
    BY <1>3, <1>20 DEF Kind, f
  <2> QED
    BY <1>7, <2>1, AllocWindows
<1>22. last' \in [Kind -> [Lane -> Block]] /\ LaneInv'
  <2>1. last \in [Kind -> [Lane -> Block]] /\ {"HOT", "COOL", "COLD"} \subseteq Kind /\ type[b] \in Kind
    BY <1>1, <1>4 DEF LaneTypes, Kind
  <2>2. last' \in [Kind -> [Lane -> Block]]
    BY <1>5, <1>7, <2>1
  <2>3. \A a \in Kind, j \in Lane : last'[a][j] = IF a = type[b] /\ j = k THEN t ELSE last[a][j]
    BY <1>7, <2>1
  <2>4. LaneInv'
    BY <1>5, <1>8, <2>1, <2>3 DEF Inv, DataInv, LaneInv
  <2> QED
    BY <2>2, <2>4
<1>23. FreeInv'
  BY <1>7, <1>9, <1>14, <1>17, <1>18, <1>19, <1>21 DEF FreeInv
<1>24. LaneTypes'
  <2>1. blocks' \subseteq Block
    BY <1>4, <1>5, <1>7 DEF LaneTypes
  <2> QED
    BY <1>4, <1>7, <1>13, <1>21, <1>22, <2>1 DEF LaneTypes
<1>25. blocks \ {b} \subseteq blocks' /\ b \notin blocks'
  BY <1>7, <1>12
<1>26. QED
  BY <1>21, <1>22, <1>23, <1>24, <1>25 DEF b

(* sepEraseInternal() keeps the invariant, with its repair of lanes. *)
LEMMA ErasePreserves ==
    ASSUME Inv, EraseInternal
    PROVE  Inv'
<1> DEFINE b == Head(toErase)
           k == Min(LanesOf(b))
<1>1. pc = "erase" /\ toErase # <<>>
  BY DEF EraseInternal
<1>2. b \in Block /\ b \in blocks /\ ValidPages(b) = {}
  BY <1>1, ErasedBlock
<1>3. AllocError("COLD", k, TRUE) \in {"NoFreeBlockLeft", NoPanic}
      /\ (AllocError("COLD", k, TRUE) = NoPanic => coldFreeBlocks # <<>>)
  <2>1. Free("COLD") = coldFreeBlocks
    BY DEF Free
  <2> HIDE DEF k
  <2> QED
    BY <2>1, AllocOnlyRunsOut
<1>4. EraseError(b) \notin Corruptions
  <2>1. EraseError(b) \in {"NoFreeBlockLeft", "PositionGone", NoPanic}
    BY <1>2, <1>3 DEF EraseError
  <2> QED
    BY <2>1 DEF Corruptions, NoPanic
<1>5. CASE EraseError(b) # NoPanic
  <2>1. Panic(EraseError(b))
    BY <1>5 DEF EraseInternal
  <2> HIDE DEF b
  <2> QED
    BY <1>4, <2>1, PanicPreserves
<1>6. CASE EraseError(b) = NoPanic
  <2>1. /\ next' = [next EXCEPT ![b] = 0]
        /\ eraseCount' = [eraseCount EXCEPT ![b] = @ + 1]
        /\ IF Repairs(b) THEN ReturnToLane(b, k) ELSE ReturnBlock(b)
        /\ toErase' = Tail(toErase)
        /\ pc' = IF toErase' = <<>> THEN Resume(hotFreeBlocks') ELSE "erase"
        /\ UNCHANGED <<table, page, index, after, toReclaim, layers, layer, filled, panic>>
    BY <1>6 DEF EraseInternal
  <2>2. /\ blocks \ {b} \subseteq blocks' /\ b \notin blocks'
        /\ LaneTypes' /\ FreeInv' /\ LaneInv' /\ WindowInv'
    <3>1. CASE ~Repairs(b)
      <4>1. ReturnBlock(b)
        BY <2>1, <3>1
      <4>2. /\ blocks' = blocks \ {b}
            /\ LaneTypes' /\ FreeInv' /\ LaneInv' /\ WindowInv'
        BY <1>1, <2>1, <4>1, ReturnBlockPools
      <4> QED
        BY <4>2
    <3>2. CASE Repairs(b)
      <4>1. ReturnToLane(b, k) /\ eraseCount[b] + 1 < BadBlock /\ LanesOf(b) # {}
        BY <2>1, <3>2 DEF Repairs
      <4>2. AllocError("COLD", k, TRUE) = NoPanic
        BY <1>2, <1>6, <3>2 DEF EraseError, NoPanic
      <4>3. coldFreeBlocks # <<>>
        BY <1>3, <4>2
      <4>4. LanesOf(b) \subseteq Lane /\ type[b] # "HOT"
        BY <4>1 DEF LanesOf
      <4>5. Lane \subseteq Nat
        BY Constants DEF Lane
      <4>6. k \in Lane
        <5>1. LanesOf(b) \subseteq Nat
          BY <4>4, <4>5
        <5>2. Min(LanesOf(b)) \in LanesOf(b)
          BY <4>1, <5>1, MinOfNat
        <5> QED
          BY <4>4, <5>2
      <4> HIDE DEF k
      <4> QED
        BY <1>1, <2>1, <4>1, <4>3, <4>4, <4>6, ReturnToLanePools
    <3> QED
      BY <3>1, <3>2
  <2>3. DataInv'
    BY <1>1, <2>1, <2>2, EraseData
  <2>4. ControlInv' /\ NoCorruption'
    <3>1. toReclaim = <<>>
      BY <1>1 DEF Inv, ControlInv
    <3>2. /\ pc' \in {"selectHot", "idle", "refresh", "erase"}
          /\ pc' # "erase" => toErase' = <<>>
          /\ pc' = "selectHot" => Len(hotFreeBlocks') < HotThreshold
      <4> DEFINE free == hotFreeBlocks'
      <4> HIDE DEF free
      <4>1. /\ Resume(free) \in {"selectHot", "idle", "refresh"}
            /\ Resume(free) = "selectHot" => Len(free) < HotThreshold
        BY Resumes
      <4> QED
        BY <2>1, <4>1 DEF free
    <3> QED
      BY <2>1, <3>1, <3>2 DEF Inv, ControlInv, NoCorruption
  <2> QED
    BY <2>3, <2>4 DEF Inv
<1>7. QED
  BY <1>5, <1>6

-----------------------------------------------------------------------------
(* Refresh *)

(* The refresh event chooses layers. *)
LEMMA RefreshEventPreserves ==
    ASSUME Inv, NEW ls \in RefreshLists, RefreshEvent(ls)
    PROVE  Inv'
<1>1. /\ pc = "idle" /\ layers' = ls /\ after' = "refresh"
      /\ pc' \in {"selectCold", "refresh"}
      /\ UNCHANGED <<table, page, next, blocks, type, hotFreeBlocks, coldFreeBlocks, hotWindow,
                     coolDownWindow, last, index, bReclaimMore, eraseCount, toReclaim, toErase,
                     layer, filled, panic>>
  BY DEF RefreshEvent, mapVars, poolVars, laneVars
<1>2. ls \in Seq(Layer)
  <2>1. PICK n \in 0 .. MaxRefreshLayer : ls \in [1 .. n -> DataLayers]
    BY DEF RefreshLists
  <2>2. ls \in [1 .. n -> Layer] /\ n \in Int
    BY <2>1, Constants DEF DataLayers
  <2> QED
    BY <2>2, FunctionSeq
<1>3. filled' \in 0 .. ColdFill + HotFill
  BY <1>1, Types DEF Inv, DataInv, MappingConsistent
<1>4. DataInv'
  BY <1>1, <1>2, <1>3, DataStutter
<1>5. ControlInv' /\ NoCorruption'
  BY <1>1 DEF Inv, ControlInv, NoCorruption
<1>6. QED
  BY <1>4, <1>5 DEF Inv

(* A layer is taken, and skipped when its block is not in use. *)
LEMMA TakeLayerPreserves ==
    ASSUME Inv, TakeLayer
    PROVE  Inv'
<1> DEFINE b == Head(layers)[1]
<1>1. /\ pc = "refresh" /\ layers # <<>> /\ layers' = Tail(layers)
      /\ layer' = [b |-> b, n |-> Head(layers)[2], kind |-> type[b]]
      /\ pc' \in {"layer", "refresh"}
      /\ UNCHANGED <<table, page, next, blocks, type, hotFreeBlocks, coldFreeBlocks, hotWindow,
                     coolDownWindow, last, index, bReclaimMore, eraseCount, after, toReclaim,
                     toErase, filled, panic>>
  BY DEF TakeLayer, mapVars, poolVars, laneVars
<1>2. /\ layers \in Seq(Layer) /\ type \in [Block -> Kind]
      /\ filled' \in 0 .. ColdFill + HotFill
  BY <1>1, Types DEF Inv, DataInv, MappingConsistent
<1>3. Head(layers) \in Layer /\ layers' \in Seq(Layer)
  BY <1>1, <1>2, HeadOfList
<1>4. b \in Block /\ Head(layers)[2] \in Nat
  BY <1>3, Constants DEF Layer
<1>5. layer' \in [b : Block, n : Nat, kind : Kind]
  BY <1>1, <1>2, <1>4
<1>6. DataInv'
  BY <1>1, <1>2, <1>3, DataStutter
<1>7. ControlInv' /\ NoCorruption'
  BY <1>1, <1>5 DEF Inv, ControlInv, NoCorruption
<1>8. QED
  BY <1>6, <1>7 DEF Inv

(* A page of the layer is copied to the lane of its type. *)
LEMMA RefreshLayerPagePreserves ==
    ASSUME Inv, RefreshLayerPage
    PROVE  Inv'
<1> DEFINE kind == IF layer.kind = "COLD" THEN "COLD" ELSE "COOL"
           p == Min(LayerPages)
<1>1. pc = "layer" /\ LayerPages # {} /\ CopyPage(layer.b, p, kind)
  BY DEF RefreshLayerPage
<1>2. layer.b \in Block
  BY DEF Inv, ControlInv
<1>3. LayerPages \subseteq ValidPages(layer.b)
  BY DEF LayerPages
<1>4. ValidPages(layer.b) \subseteq Nat
  BY Constants DEF ValidPages, PageIdx
<1>5. p \in ValidPages(layer.b)
  BY <1>1, <1>3, <1>4, MinOfNat
<1>6. kind \in {"COOL", "COLD"}
  OBVIOUS
<1> HIDE DEF kind, p
<1>7. QED
  BY <1>1, <1>2, <1>5, <1>6, CopyPreserves

(* The end of a layer, and of a refresh, which may start garbage           *)
(* collection.                                                             *)
LEMMA RefreshEndPreserves ==
    ASSUME Inv, LayerRefreshed \/ RefreshDone
    PROVE  Inv'
<1>1. /\ pc \in {"layer", "refresh"} /\ pc' \in {"refresh", "selectCold", "idle"}
      /\ after' \in {after, "idle"} /\ layer' \in {layer, NoLayer}
      /\ UNCHANGED <<table, page, next, blocks, type, hotFreeBlocks, coldFreeBlocks, hotWindow,
                     coolDownWindow, last, index, bReclaimMore, eraseCount, toReclaim,
                     toErase, layers, filled, panic>>
  BY DEF LayerRefreshed, RefreshDone, mapVars, poolVars, laneVars
<1>2. filled' \in 0 .. ColdFill + HotFill /\ layers' \in Seq(Layer)
  BY <1>1, Types DEF Inv, DataInv, MappingConsistent
<1>3. DataInv'
  BY <1>1, <1>2, DataStutter
<1>4. NoLayer \in [b : Block, n : Nat, kind : Kind]
  BY Constants DEF NoLayer, Block, Kind
<1>5. ControlInv' /\ NoCorruption'
  BY <1>1, <1>4 DEF Inv, ControlInv, NoCorruption
<1>6. QED
  BY <1>3, <1>5 DEF Inv

(* Every step keeps the invariant. *)
LEMMA NextPreserves ==
    ASSUME Inv, [Next]_vars
    PROVE  Inv'
<1>1. CASE UNCHANGED vars
  <2>1. UNCHANGED <<table, page, next, blocks, type, hotFreeBlocks, coldFreeBlocks, hotWindow,
                    coolDownWindow, last, index, bReclaimMore, eraseCount, after, toReclaim,
                    toErase, layers, layer, filled, pc, panic>>
    BY <1>1 DEF vars, mapVars, poolVars, laneVars, controlVars
  <2>2. filled' \in 0 .. ColdFill + HotFill /\ layers' \in Seq(Layer)
    BY <2>1, Types DEF Inv, DataInv, MappingConsistent
  <2>3. DataInv'
    BY <2>1, <2>2, DataStutter
  <2>4. ControlInv' /\ NoCorruption'
    BY <2>1 DEF Inv, ControlInv, NoCorruption
  <2> QED
    BY <2>3, <2>4 DEF Inv
<1>2. CASE HostStep
  BY <1>2, FillPreserves, WritePreserves, TrimPreserves DEF HostStep
<1>3. CASE GCStep
  BY <1>3, SelectColdPreserves, SelectHotPreserves, CopyVictimPagePreserves,
     VictimCopiedPreserves, ErasePreserves DEF GCStep
<1>4. CASE RefreshStep
  BY <1>4, TakeLayerPreserves, RefreshLayerPagePreserves, RefreshEndPreserves DEF RefreshStep
<1>5. CASE \E ls \in RefreshLists : RefreshEvent(ls)
  BY <1>5, RefreshEventPreserves
<1>6. QED
  BY <1>1, <1>2, <1>3, <1>4, <1>5 DEF Next

-----------------------------------------------------------------------------
(* The constructor *)

(* The first cool block of a lane is one of the first blocks of the cold   *)
(* pool, and no two lanes have the same.                                   *)
LEMMA FirstCools ==
    ASSUME NEW k \in Lane
    PROVE  FirstCool(k) \in NHot .. NHot + NL - 1 /\ FirstCool(k) % NL = k
<1> DEFINE S == {b \in NHot .. NB-1 : b % NL = k}
           a == k - NHot
           d == a % NL
           q == a \div NL
           c == NHot + d
<1>1. k \in 0 .. NL - 1 /\ NL \in Nat \ {0} /\ NHot \in Nat /\ a \in Int /\ NHot + 2*NL < NB
      /\ NB \in Nat
  BY Constants DEF Lane
<1>2. d \in 0 .. NL-1 /\ q \in Int /\ NL * q = a - d
  BY <1>1, Remainder
<1> HIDE DEF d, q
<1>3. c % NL = k
  <2>1. -q \in Int /\ NL * (-q) = -(NL * q)
    BY <1>1, <1>2
  <2>2. NL * (-q) + k = c
    BY <1>1, <1>2, <2>1
  <2>3. (NL * (-q) + k) % NL = k
    BY <1>1, <2>1, RemainderUnique
  <2> QED
    BY <2>2, <2>3
<1>4. c \in NHot .. NHot + NL - 1 /\ c \in NHot .. NB-1
  BY <1>1, <1>2
<1>5. c \in S /\ S \subseteq Nat
  BY <1>1, <1>3, <1>4
<1> HIDE DEF S
<1>6. Min(S) \in S /\ \A y \in S : Min(S) <= y
  BY <1>5, MinOfNat
<1>7. FirstCool(k) = Min(S)
  BY DEF FirstCool, S
<1> DEFINE m == Min(S)
<1> HIDE DEF m
<1>8. m \in NHot .. NB-1 /\ m % NL = k /\ m <= c
  BY <1>5, <1>6 DEF S, m
<1>9. m \in NHot .. NHot + NL - 1
  BY <1>1, <1>4, <1>8
<1>10. QED
  BY <1>7, <1>8, <1>9 DEF m

(* The first cool-down window holds the first blocks of the cool lanes,    *)
(* the last of them if it is short.                                        *)
LEMMA FirstWindowOfBlocks ==
    /\ FirstWindow \in Seq(NHot .. NHot + NL - 1) /\ FirstWindow \in Seq(Block)
    /\ IsInjective(FirstWindow) /\ Len(FirstWindow) <= Cooldown
    /\ Range(FirstWindow) \subseteq NHot .. NHot + NL - 1
<1> DEFINE n == Min({NL, Cooldown})
           P == NHot .. NHot + NL - 1
<1>1. NL \in Int /\ Cooldown \in Int /\ NL > 0 /\ Cooldown > 0
  BY Constants
<1>2. n \in {NL, Cooldown} /\ n \in Int /\ n <= NL /\ n <= Cooldown
  BY <1>1, MinOfTwo
<1>3. FirstWindow = [i \in 1 .. n |-> FirstCool(NL - n + i - 1)]
  BY DEF FirstWindow
<1> HIDE DEF n, P
<1>4. n \in Nat /\ n > 0
  BY <1>1, <1>2
<1>5. ASSUME NEW i \in 1 .. n
      PROVE  /\ NL - n + i - 1 \in Lane
             /\ FirstWindow[i] \in P /\ FirstWindow[i] % NL = NL - n + i - 1
  <2>1. NL - n + i - 1 \in Lane
    BY <1>1, <1>2 DEF Lane
  <2>2. FirstWindow[i] = FirstCool(NL - n + i - 1)
    BY <1>3
  <2> QED
    BY <2>1, <2>2, FirstCools DEF P
<1>6. FirstWindow \in [1 .. n -> P]
  BY <1>3, <1>5
<1>7. P \subseteq Block
  BY Constants DEF P, Block
<1>8. FirstWindow \in [1 .. n -> Block]
  BY <1>6, <1>7
<1>9. FirstWindow \in Seq(P) /\ FirstWindow \in Seq(Block) /\ DOMAIN FirstWindow = 1 .. n
  BY <1>2, <1>6, <1>8, FunctionSeq
<1>10. Len(FirstWindow) = n
  BY <1>4, <1>8
<1>11. IsInjective(FirstWindow)
  <2>1. ASSUME NEW i \in 1 .. n, NEW j \in 1 .. n, FirstWindow[i] = FirstWindow[j] PROVE i = j
    <3>1. NL - n + i - 1 = NL - n + j - 1
      BY <1>5, <2>1
    <3> QED
      BY <1>1, <1>4, <3>1
  <2> QED
    BY <1>9, <2>1 DEF IsInjective
<1>12. Range(FirstWindow) \subseteq P
  <2> SUFFICES ASSUME NEW x \in Range(FirstWindow) PROVE x \in P
    OBVIOUS
  <2>1. PICK j \in 1 .. Len(FirstWindow) : FirstWindow[j] = x
    BY <1>9, MembersOfSeq
  <2> QED
    BY <1>5, <1>10, <2>1
<1>13. QED
  BY <1>2, <1>9, <1>10, <1>11, <1>12 DEF P

(* A list of consecutive blocks *)
LEMMA IntervalList ==
    ASSUME NEW first \in Nat, NEW n \in Nat, NEW s,
           s = [i \in 1 .. n |-> first + i - 1], first + n <= NB
    PROVE  /\ s \in Seq(Block) /\ IsInjective(s) /\ Range(s) = first .. first + n - 1
<1>1. \A i \in 1 .. n : s[i] = first + i - 1 /\ s[i] \in Block
  BY Constants DEF Block
<1>2. s \in [1 .. n -> Block]
  BY <1>1
<1>3. s \in Seq(Block) /\ DOMAIN s = 1 .. n
  <2>1. n \in Int
    OBVIOUS
  <2> QED
    BY <1>2, <2>1, FunctionSeq
<1>4. Len(s) = n
  BY <1>2, <1>3
<1>5. IsInjective(s)
  <2>1. \A i, j \in 1 .. n : s[i] = s[j] => i = j
    BY <1>1
  <2> QED
    BY <1>3, <2>1 DEF IsInjective
<1>6. ASSUME NEW x PROVE x \in Range(s) <=> x \in first .. first + n - 1
  <2>1. x \in Range(s) <=> \E j \in 1 .. n : s[j] = x
    BY <1>3, <1>4, MembersOfSeq
  <2>2. ASSUME NEW j \in 1 .. n, s[j] = x PROVE x \in first .. first + n - 1
    BY <1>1, <2>2
  <2>3. ASSUME x \in first .. first + n - 1 PROVE \E j \in 1 .. n : s[j] = x
    <3>1. x - first + 1 \in 1 .. n /\ first + (x - first + 1) - 1 = x
      BY <2>3
    <3> QED
      BY <1>1, <3>1
  <2> QED
    BY <2>1, <2>2, <2>3
<1>7. Range(s) = first .. first + n - 1
  BY <1>6, Zenon
<1>8. QED
  BY <1>3, <1>5, <1>7

(* A new drive satisfies the invariant. *)
LEMMA InitEstablishes ==
    ASSUME Init
    PROVE  Inv
<1> DEFINE C == NHot .. NHot + 2*NL - 1
<1>1. /\ table = [l \in LPN |-> NoPlace]
      /\ page = [b \in Block |-> [p \in PageIdx |-> NoContent]]
      /\ next = [b \in Block |-> 0] /\ eraseCount = [b \in Block |-> 0]
      /\ blocks = (0 .. NL-1) \cup C
      /\ coolDownWindow = FirstWindow /\ last = FirstLanes
      /\ index = [kind \in Kind |-> 0] /\ bReclaimMore = FALSE /\ filled = 0
      /\ after = "idle" /\ layer = NoLayer
      /\ toReclaim = <<>> /\ toErase = <<>> /\ layers = <<>> /\ panic = NoPanic
      /\ pc = IF ColdFill + HotFill = 0 THEN "idle" ELSE "fill"
  BY DEF Init
<1>2. /\ NB \in Nat /\ NHot \in Nat /\ NP \in Nat /\ NL \in Nat /\ NLPN \in Nat
      /\ BadBlock \in Nat /\ BadBlock > 0 /\ NL > 0 /\ NL < NHot /\ NHot + 2*NL < NB
  BY Constants
<1>3. /\ hotFreeBlocks \in Seq(Block) /\ IsInjective(hotFreeBlocks)
      /\ Range(hotFreeBlocks) = NL .. NHot - 1
  <2>1. hotFreeBlocks = [i \in 1 .. NHot - NL |-> NL + i - 1]
    BY DEF Init
  <2>2. NHot - NL \in Nat /\ NL + (NHot - NL) <= NB /\ NL + (NHot - NL) - 1 = NHot - 1
    BY <1>2
  <2>3. /\ hotFreeBlocks \in Seq(Block) /\ IsInjective(hotFreeBlocks)
        /\ Range(hotFreeBlocks) = NL .. NL + (NHot - NL) - 1
    BY <1>2, <2>1, <2>2, IntervalList
  <2> QED
    BY <2>2, <2>3
<1>4. /\ coldFreeBlocks \in Seq(Block) /\ IsInjective(coldFreeBlocks)
      /\ Range(coldFreeBlocks) = NHot + 2*NL .. NB - 1
  <2> DEFINE f == NHot + 2*NL
             m == NB - NHot - 2*NL
  <2>1. coldFreeBlocks = [i \in 1 .. m |-> f + i - 1]
    BY DEF Init
  <2>2. f \in Nat /\ m \in Nat /\ f + m = NB /\ f + m <= NB
    BY <1>2
  <2> HIDE DEF f, m
  <2>3. /\ coldFreeBlocks \in Seq(Block) /\ IsInjective(coldFreeBlocks)
        /\ Range(coldFreeBlocks) = f .. f + m - 1
    BY <1>2, <2>1, <2>2, IntervalList
  <2> QED
    BY <2>2, <2>3 DEF f
<1>5. /\ hotWindow \in Seq(Block) /\ IsInjective(hotWindow) /\ Range(hotWindow) = 0 .. NL - 1
  <2>1. hotWindow = [i \in 1 .. NL |-> 0 + i - 1]
    <3>1. hotWindow = [i \in 1 .. NL |-> i - 1]
      BY DEF Init
    <3>2. \A i \in 1 .. NL : 0 + i - 1 = i - 1
      OBVIOUS
    <3> QED
      BY <3>1, <3>2
  <2>2. 0 \in Nat /\ 0 + NL <= NB /\ 0 + NL - 1 = NL - 1
    BY <1>2
  <2>3. /\ hotWindow \in Seq(Block) /\ IsInjective(hotWindow)
        /\ Range(hotWindow) = 0 .. 0 + NL - 1
    <3> DEFINE f == 0
    <3>1. f \in Nat /\ NL \in Nat /\ hotWindow = [i \in 1 .. NL |-> f + i - 1] /\ f + NL <= NB
      BY <1>2, <2>1, <2>2
    <3> HIDE DEF f
    <3>2. /\ hotWindow \in Seq(Block) /\ IsInjective(hotWindow)
          /\ Range(hotWindow) = f .. f + NL - 1
      BY <3>1, IntervalList
    <3> QED
      BY <3>2 DEF f
  <2> QED
    BY <2>2, <2>3
<1>6. /\ FirstWindow \in Seq(Block) /\ IsInjective(FirstWindow) /\ Len(FirstWindow) <= Cooldown
      /\ Range(FirstWindow) \subseteq NHot .. NHot + NL - 1
  BY FirstWindowOfBlocks
<1>7. /\ blocks \subseteq Block
      /\ \A b \in Block : b \in blocks <=> b < NL \/ (b >= NHot /\ b < NHot + 2*NL)
  BY <1>1, <1>2 DEF Block
<1>8. \A b \in Block : /\ type[b] = "HOT" <=> b < NHot
                       /\ type[b] = "COOL" <=> b \in Range(FirstWindow)
                       /\ type[b] \in Kind
  <2>1. type = [b \in Block |-> CASE b < NHot -> "HOT"
                                  [] b \in Range(FirstWindow) -> "COOL"
                                  [] OTHER -> "COLD"]
    BY DEF Init
  <2> TAKE b \in Block
  <2>2. b \in Int
    BY DEF Block
  <2>3. b \in Range(FirstWindow) => ~(b < NHot)
    BY <1>2, <1>6, <2>2
  <2>4. CASE b < NHot
    BY <2>1, <2>3, <2>4 DEF Kind
  <2>5. CASE ~(b < NHot) /\ b \in Range(FirstWindow)
    BY <2>1, <2>5 DEF Kind
  <2>6. CASE ~(b < NHot) /\ b \notin Range(FirstWindow)
    BY <2>1, <2>6 DEF Kind
  <2> QED
    BY <2>4, <2>5, <2>6
<1>9. type \in [Block -> Kind]
  <2>1. type = [b \in Block |-> type[b]]
    BY DEF Init
  <2> QED
    BY <1>8, <2>1
<1>10. /\ last \in [Kind -> [Lane -> Block]]
       /\ \A k \in Lane : /\ last["HOT"][k] \in HotPool
                          /\ last["COOL"][k] \in ColdPool
                          /\ last["COLD"][k] \in ColdPool
  <2>1. \A k \in Lane : FirstCool(k) \in NHot .. NHot + NL - 1
    BY FirstCools
  <2>2. \A k \in Lane : /\ k \in HotPool
                        /\ FirstCool(k) \in ColdPool /\ FirstCool(k) + NL \in ColdPool
    BY <1>2, <2>1 DEF Lane, HotPool, ColdPool
  <2>3. /\ last["HOT"] = [k \in Lane |-> k]
        /\ last["COOL"] = [k \in Lane |-> FirstCool(k)]
        /\ last["COLD"] = [k \in Lane |-> FirstCool(k) + NL]
    BY <1>1 DEF FirstLanes, Kind
  <2>4. \A kind \in Kind : last[kind] \in [Lane -> Block]
    <3>1. /\ last["HOT"] \in [Lane -> Block] /\ last["COOL"] \in [Lane -> Block]
          /\ last["COLD"] \in [Lane -> Block]
      BY <2>2, <2>3, Pools
    <3> QED
      BY <3>1 DEF Kind
  <2>5. last = [kind \in Kind |-> last[kind]]
    BY <1>1 DEF FirstLanes
  <2> QED
    BY <2>2, <2>3, <2>4, <2>5
<1>11. TypeOK
  <2>1. 0 \in Lane /\ 0 \in 0 .. NP /\ 0 \in 0 .. BadBlock /\ 0 \in 0 .. ColdFill + HotFill
    BY <1>2, Constants DEF Lane
  <2>2. /\ toReclaim \in Seq(Block) /\ toErase \in Seq(Block) /\ layers \in Seq(Layer)
    BY <1>1, EmptySeq
  <2>3. /\ table \in [LPN -> (Block \X PageIdx) \cup {NoPlace}]
        /\ page \in [Block -> [PageIdx -> [lpn : LPN, data : Data] \cup {NoContent}]]
        /\ next \in [Block -> 0 .. NP] /\ eraseCount \in [Block -> 0 .. BadBlock]
        /\ index \in [Kind -> Lane] /\ bReclaimMore \in BOOLEAN
        /\ filled \in 0 .. ColdFill + HotFill
    BY <1>1, <2>1
  <2> QED
    BY <1>1, <1>3, <1>4, <1>5, <1>6, <1>7, <1>9, <1>10, <2>2, <2>3 DEF TypeOK
<1>12. MappingConsistent
  BY <1>1, <1>11 DEF MappingConsistent
<1>13. WriteFrontier
  BY <1>1 DEF WriteFrontier
<1>14. Victims = {} /\ Range(toErase) = {} /\ Range(toReclaim) = {}
       /\ IsInjective(toReclaim) /\ IsInjective(toErase)
  BY <1>1, EmptyRange DEF Victims
<1>15. VictimInv
  BY <1>14 DEF VictimInv
<1>16. FreeInv
  <2>1. \A b \in Block : eraseCount[b] < BadBlock
    BY <1>1, <1>2
  <2>2. Available(HotPool) = NL .. NHot - 1
    <3>1. ASSUME NEW b PROVE b \in Available(HotPool) <=> b \in NL .. NHot - 1
      <4>1. b \in Available(HotPool) <=> b \in HotPool /\ b \notin blocks
        BY <2>1, Pools DEF Available
      <4> QED
        BY <1>2, <1>7, <4>1 DEF HotPool, Block
    <3> QED
      BY <3>1, Zenon
  <2>3. Available(ColdPool) = NHot + 2*NL .. NB - 1
    <3>1. ASSUME NEW b PROVE b \in Available(ColdPool) <=> b \in NHot + 2*NL .. NB - 1
      <4>1. b \in Available(ColdPool) <=> b \in ColdPool /\ b \notin blocks
        BY <2>1, Pools DEF Available
      <4> QED
        BY <1>2, <1>7, <4>1 DEF ColdPool, Block
    <3> QED
      BY <3>1, Zenon
  <2>4. \A b \in Block : type[b] = "HOT" <=> b \in HotPool
    BY <1>8, Pools
  <2> QED
    BY <1>3, <1>4, <1>7, <2>1, <2>2, <2>3, <2>4 DEF FreeInv
<1>17. LaneInv
  BY <1>10 DEF LaneInv
<1>18. WindowInv
  <2>1. Settled = blocks
    BY <1>14 DEF Settled
  <2>2. Range(hotWindow) = {b \in Settled : type[b] = "HOT"}
    <3>1. ASSUME NEW b PROVE b \in 0 .. NL - 1 <=> b \in blocks /\ type[b] = "HOT"
      <4>1. b \in blocks /\ type[b] = "HOT" <=> b \in Block /\ b \in blocks /\ b < NHot
        BY <1>7, <1>8
      <4> QED
        BY <1>2, <1>7, <4>1 DEF Block
    <3> QED
      BY <1>5, <2>1, <3>1
  <2>3. Range(FirstWindow) = {b \in Settled : type[b] = "COOL"}
    <3>1. Range(FirstWindow) \subseteq blocks
      BY <1>1, <1>2, <1>6
    <3> QED
      BY <1>7, <1>8, <2>1, <3>1
  <2> QED
    BY <1>1, <1>5, <1>6, <2>2, <2>3 DEF WindowInv
<1>19. ControlInv
  <2>1. pc = "fill" => filled < ColdFill + HotFill
    BY <1>1, Constants
  <2>2. \A l \in LPN : table[l] = NoPlace
    BY <1>1
  <2>3. layer \in [b : Block, n : Nat, kind : Kind]
    BY <1>1, <1>2 DEF NoLayer, Block, Kind
  <2>4. pc \in {"idle", "fill"}
    BY <1>1
  <2> QED
    BY <1>1, <2>1, <2>2, <2>3, <2>4 DEF ControlInv
<1>20. NoCorruption
  BY <1>1 DEF NoCorruption, NoPanic
<1>21. QED
  BY <1>12, <1>13, <1>15, <1>16, <1>17, <1>18, <1>19, <1>20 DEF Inv, DataInv

-----------------------------------------------------------------------------
(* Theorems *)

(***************************************************************************)
(* The table, the pools, the lanes, the windows and the victims fit        *)
(* together at every step of every sep...() handler.                       *)
(***************************************************************************)
THEOREM Invariance == Spec => []Inv
<1>1. Init => Inv
  BY InitEstablishes
<1>2. Inv /\ [Next]_vars => Inv'
  BY NextPreserves
<1>3. QED
  BY <1>1, <1>2, PTL DEF Spec

(***************************************************************************)
(* No copy of sepDoGarbageCollection() or refreshPage() leaves two valid   *)
(* versions of a page, and no page is mapped to a block that was erased.   *)
(***************************************************************************)
THEOREM MappingAlwaysConsistent == Spec => []MappingConsistent
<1>1. Inv => MappingConsistent
  BY DEF Inv, DataInv
<1>2. QED
  BY <1>1, Invariance, PTL

(***************************************************************************)
(* Blocks keep their pool, and the free lists hold exactly the blocks that *)
(* are neither in use nor worn out, each once, also through the repair of  *)
(* a lane in sepEraseInternal().                                           *)
(***************************************************************************)
THEOREM PoolsAlwaysKept == Spec => []PoolsKept
<1>1. ASSUME Inv PROVE PoolsKept
  <2>1. /\ IsInjective(hotFreeBlocks) /\ IsInjective(coldFreeBlocks)
        /\ Range(hotFreeBlocks) = Available(HotPool)
        /\ Range(coldFreeBlocks) = Available(ColdPool)
        /\ \A b \in Block : type[b] = "HOT" <=> b \in HotPool
    BY <1>1 DEF Inv, DataInv, FreeInv
  <2>2. hotFreeBlocks \in Seq(Block) /\ coldFreeBlocks \in Seq(Block)
    BY <1>1, Types DEF Inv, DataInv, MappingConsistent
  <2>3. Range(hotFreeBlocks) \cap Range(coldFreeBlocks) = {}
    BY <2>1, Pools DEF Available
  <2>4. IsInjective(hotFreeBlocks \o coldFreeBlocks)
    BY <2>1, <2>2, <2>3, ConcatInjective
  <2>5. ASSUME NEW b \in Block
        PROVE  /\ type[b] = "HOT" <=> b < NHot
               /\ b \in Range(Free(type[b])) <=> b \notin blocks /\ eraseCount[b] < BadBlock
    <3>1. type[b] = "HOT" <=> b < NHot
      BY <2>1, Pools
    <3>2. CASE type[b] = "HOT"
      <4>1. b \in HotPool /\ Free(type[b]) = hotFreeBlocks
        BY <2>1, <3>2 DEF Free
      <4>2. b \in Range(Free(type[b])) <=> b \in Available(HotPool)
        BY <2>1, <4>1
      <4>3. b \in Available(HotPool) <=> b \notin blocks /\ eraseCount[b] < BadBlock
        BY <4>1 DEF Available
      <4> QED
        BY <3>1, <4>2, <4>3
    <3>3. CASE type[b] # "HOT"
      <4>1. b \in ColdPool /\ Free(type[b]) = coldFreeBlocks
        BY <2>1, <3>3, Pools DEF Free
      <4>2. b \in Range(Free(type[b])) <=> b \in Available(ColdPool)
        BY <2>1, <4>1
      <4>3. b \in Available(ColdPool) <=> b \notin blocks /\ eraseCount[b] < BadBlock
        BY <4>1 DEF Available
      <4> QED
        BY <3>1, <4>2, <4>3
    <3> QED
      BY <3>2, <3>3
  <2> QED
    BY <2>4, <2>5 DEF PoolsKept
<1>2. QED
  BY <1>1, Invariance, PTL

(***************************************************************************)
(* A block in use that is no victim is in the window of its type, so that  *)
(* selectHotVictimBlock() finds every hot block and no block stays cool    *)
(* outside of the cool-down window.                                        *)
(***************************************************************************)
THEOREM WindowsAlwaysExact == Spec => []WindowsExact
<1>1. Inv => WindowsExact
  BY DEF Inv, DataInv, WindowInv, Settled, WindowsExact
<1>2. QED
  BY <1>1, Invariance, PTL

(***************************************************************************)
(* The panics of the sep...() handlers for a state that should not be are  *)
(* never reached.                                                          *)
(***************************************************************************)
THEOREM NeverCorrupted == Spec => []NoCorruption
<1>1. Inv => NoCorruption
  BY DEF Inv
<1>2. QED
  BY <1>1, Invariance, PTL

-----------------------------------------------------------------------------
(* Refinement: what a host reads changes by its own writes and trims only  *)

(* What a read of page l returns. *)
LEMMA ContentAt ==
    ASSUME NEW l \in LPN
    PROVE  Content[l][0] = IF table[l] = NoPlace THEN NoContent.data
                           ELSE page[table[l][1]][table[l][2]].data
BY DEF Content

(* What a read of page l returns after a step. *)
LEMMA ContentAtNext ==
    ASSUME NEW l \in LPN
    PROVE  Content'[l][0] = IF table'[l] = NoPlace THEN NoContent.data
                            ELSE page'[table'[l][1]][table'[l][2]].data
BY DEF Content

(* Contents stay when table and pages do. *)
LEMMA ContentStutter ==
    ASSUME UNCHANGED <<table, page>>
    PROVE  Content' = Content
BY DEF Content

(* The contents after a step that changes what is read of one page *)
LEMMA ContentChanged ==
    ASSUME NEW l \in LPN, NEW x,
           \A k \in LPN : Content'[k][0] = IF k = l THEN x ELSE Content[k][0]
    PROVE  Content' = [Content EXCEPT ![l] = [u \in {0} |-> x]]
<1>1. \A k \in LPN : Content[k] = [u \in {0} |-> Content[k][0]]
  BY DEF Content
<1>2. \A k \in LPN : Content'[k] = [u \in {0} |-> Content'[k][0]]
  BY DEF Content
<1>3. Content = [k \in LPN |-> Content[k]] /\ Content' = [k \in LPN |-> Content'[k]]
  BY DEF Content
<1> DEFINE W == [Content EXCEPT ![l] = [u \in {0} |-> x]]
<1>4. W = [k \in LPN |-> W[k]]
  BY <1>3
<1>5. \A k \in LPN : W[k] = IF k = l THEN [u \in {0} |-> x] ELSE Content[k]
  BY <1>3
<1> HIDE DEF W
<1>6. \A k \in LPN : Content'[k] = W[k]
  BY <1>1, <1>2, <1>5
<1>7. Content' = W
  BY <1>3, <1>4, <1>6
<1>8. QED
  BY <1>7 DEF W

(* After a move the page that moved holds what was programmed, and every   *)
(* other what it held: the page that is programmed was erased, and the     *)
(* place that is given up is the one the table had.                        *)
LEMMA MoveContent ==
    ASSUME Inv, NEW kind \in Kind, LaneError(kind) = NoPanic,
           NEW c \in Datum, Program(kind, table[c.lpn], c), NEW l \in LPN
    PROVE  Content'[l][0] = IF l = c.lpn THEN c.data ELSE Content[l][0]
<1> DEFINE b == Target(kind)
           n == next[b]
           old == table[c.lpn]
<1>1. b \in Block /\ n \in PageIdx
  BY LaneTarget
<1>2. c.lpn \in LPN /\ table \in [LPN -> (Block \X PageIdx) \cup {NoPlace}]
  BY NoContentIsNone, Types DEF Inv, DataInv, MappingConsistent
<1>3. /\ \A d \in Block, p \in PageIdx :
            page'[d][p] = IF d = b /\ p = n THEN c
                          ELSE IF old = <<d, p>> THEN NoContent ELSE page[d][p]
      /\ table' = [table EXCEPT ![c.lpn] = <<b, n>>]
  BY DEF Program
<1> HIDE DEF b, n, old
<1>4. \A k \in LPN : table'[k] = IF k = c.lpn THEN <<b, n>> ELSE table[k]
  BY <1>2, <1>3
<1>5. CASE l = c.lpn
  <2>1. table'[l] = <<b, n>> /\ table'[l][1] = b /\ table'[l][2] = n
    BY <1>4, <1>5
  <2>2. table'[l] # NoPlace
    BY <1>1, <2>1, NoPlaceIsNone
  <2>3. page'[b][n] = c
    BY <1>1, <1>3
  <2> QED
    BY <1>5, <2>1, <2>2, <2>3, ContentAtNext
<1>6. CASE l # c.lpn /\ table[l] = NoPlace
  BY <1>4, <1>6, ContentAt, ContentAtNext
<1>7. CASE l # c.lpn /\ table[l] # NoPlace
  <2>1. PICK d \in Block, p \in PageIdx :
           table[l] = <<d, p>> /\ page[d][p].lpn = l /\ p < next[d]
    BY <1>7, Placed
  <2>2. /\ table'[l] = table[l] /\ table'[l] # NoPlace
        /\ table[l][1] = d /\ table[l][2] = p /\ table'[l][1] = d /\ table'[l][2] = p
    BY <1>4, <1>7, <2>1
  <2>3. ~(d = b /\ p = n)
    <3>1. p \in Int
      BY DEF PageIdx
    <3> QED
      BY <2>1, <3>1 DEF n
  <2>4. old # <<d, p>>
    <3> SUFFICES ASSUME old = <<d, p>> PROVE FALSE
      OBVIOUS
    <3>1. table[c.lpn] = <<d, p>> /\ table[c.lpn] # NoPlace
      BY NoPlaceIsNone DEF old
    <3>2. PICK e \in Block, q \in PageIdx : table[c.lpn] = <<e, q>> /\ page[e][q].lpn = c.lpn
      BY <1>2, <3>1, Placed
    <3>3. e = d /\ q = p
      BY <3>1, <3>2
    <3> QED
      BY <1>7, <2>1, <3>2, <3>3
  <2>5. page'[d][p] = page[d][p]
    BY <1>3, <2>3, <2>4
  <2>6. Content[l][0] = page[d][p].data
    BY <1>7, <2>2, ContentAt
  <2>7. Content'[l][0] = page'[d][p].data
    BY <2>2, ContentAtNext
  <2> QED
    BY <1>7, <2>5, <2>6, <2>7
<1>8. QED
  BY <1>5, <1>6, <1>7

(* A programmed host page is a write of the store. *)
LEMMA ProgramRefines ==
    ASSUME Inv, NEW kind \in Kind, LaneError(kind) = NoPanic, NEW l \in LPN, NEW d \in Data,
           Program(kind, table[l], [lpn |-> l, data |-> d])
    PROVE  Store!Next
<1> DEFINE c == [lpn |-> l, data |-> d]
<1>1. c \in Datum /\ c.lpn = l /\ c.data = d
  BY DEF Datum
<1> HIDE DEF c
<1>2. \A k \in LPN : Content'[k][0] = IF k = l THEN d ELSE Content[k][0]
  <2>1. Program(kind, table[c.lpn], c)
    BY <1>1 DEF c
  <2>2. \A k \in LPN : Content'[k][0] = IF k = c.lpn THEN c.data ELSE Content[k][0]
    BY <1>1, <2>1, MoveContent
  <2> QED
    BY <1>1, <2>2
<1>3. Content' = [Content EXCEPT ![l] = [u \in {0} |-> d]]
  BY <1>2, ContentChanged
<1>4. Store!Write(l, {0}, d)
  <2>1. [u \in {0} |-> d] = [u \in {0} |-> IF u \in {0} THEN d ELSE Content[l][u]]
    OBVIOUS
  <2>2. [Content EXCEPT ![l] = [u \in {0} |-> d]] =
            [Content EXCEPT ![l] = [u \in {0} |-> IF u \in {0} THEN d ELSE @[u]]]
    BY <2>1
  <2> QED
    BY <1>3, <2>2 DEF Store!Write
<1>5. {0} \in (SUBSET {0}) \ {{}}
  OBVIOUS
<1>6. QED
  BY <1>4, <1>5 DEF Store!Next

(* A write or trim is one of the store. *)
LEMMA HostRefines ==
    ASSUME Inv, HostStep
    PROVE  Store!Next \/ Content' = Content
<1>1. ASSUME NEW l \in LPN, NEW d \in Data, Write(l, d)
      PROVE  Store!Next \/ Content' = Content
  <2> DEFINE kind == Temperature(l)
  <2>1. kind \in Kind
    BY DEF Temperature, Kind
  <2>2. CASE WriteError(l, kind) # NoPanic
    BY <1>1, <2>2, ContentStutter DEF Write, Panic, mapVars
  <2>3. CASE WriteError(l, kind) = NoPanic
    <3>1. Program(kind, table[l], [lpn |-> l, data |-> d])
      BY <1>1, <2>3 DEF Write
    <3>2. LaneError(kind) = NoPanic
      BY <2>1, <2>3, WriteErrors
    <3> HIDE DEF kind
    <3> QED
      BY <2>1, <3>1, <3>2, ProgramRefines
  <2> QED
    BY <2>2, <2>3
<1>2. ASSUME NEW d \in Data, Fill(d)
      PROVE  Store!Next \/ Content' = Content
  <2> DEFINE kind == IF filled < ColdFill THEN "COOL" ELSE "HOT"
  <2>1. kind \in Kind /\ pc = "fill"
    BY <1>2 DEF Kind, Fill
  <2>2. filled \in LPN /\ table[filled] = NoPlace
    <3>1. filled \in 0 .. ColdFill + HotFill
      BY Types DEF Inv, DataInv, MappingConsistent
    <3>2. filled < ColdFill + HotFill /\ \A l \in LPN : l >= filled => table[l] = NoPlace
      BY <2>1 DEF Inv, ControlInv
    <3>3. filled \in LPN /\ filled >= filled
      BY <3>1, <3>2, Constants DEF LPN
    <3> QED
      BY <3>2, <3>3
  <2>3. CASE WriteError(filled, kind) # NoPanic
    BY <1>2, <2>3, ContentStutter DEF Fill, Panic, mapVars
  <2>4. CASE WriteError(filled, kind) = NoPanic
    <3>1. Program(kind, table[filled], [lpn |-> filled, data |-> d])
      BY <1>2, <2>2, <2>4 DEF Fill
    <3>2. LaneError(kind) = NoPanic
      BY <2>1, <2>2, <2>4, WriteErrors
    <3> HIDE DEF kind
    <3> QED
      BY <2>1, <2>2, <3>1, <3>2, ProgramRefines
  <2> QED
    BY <2>3, <2>4
<1>3. ASSUME NEW l \in LPN, Trim(l)
      PROVE  Store!Next \/ Content' = Content
  <2>1. CASE Dangling({l})
    BY <1>3, <2>1, ContentStutter DEF Trim, Panic, mapVars
  <2>2. CASE ~Dangling({l})
    <3>1. Forget({l})
      BY <1>3, <2>2 DEF Trim
    <3>2. /\ \A b \in Block, p \in PageIdx :
                page'[b][p] = IF page[b][p].lpn = l THEN NoContent ELSE page[b][p]
          /\ \A k \in LPN : table'[k] = IF k = l THEN NoPlace ELSE table[k]
      BY <3>1 DEF Forget
    <3>3. ASSUME NEW k \in LPN
          PROVE  Content'[k][0] = IF k = l THEN NoContent.data ELSE Content[k][0]
      <4>1. CASE k = l \/ table[k] = NoPlace
        BY <3>2, <4>1, ContentAt, ContentAtNext
      <4>2. CASE k # l /\ table[k] # NoPlace
        <5>1. PICK b \in Block, p \in PageIdx : table[k] = <<b, p>> /\ page[b][p].lpn = k
          BY <4>2, Placed
        <5>2. /\ table'[k] = table[k] /\ table'[k] # NoPlace
              /\ table[k][1] = b /\ table[k][2] = p /\ table'[k][1] = b /\ table'[k][2] = p
          <6>1. table'[k] = table[k]
            BY <3>2, <4>2, Zenon
          <6>2. table[k][1] = b /\ table[k][2] = p
            BY <5>1
          <6> QED
            BY <4>2, <6>1, <6>2, Zenon
        <5>3. page'[b][p] = page[b][p]
          BY <3>2, <4>2, <5>1
        <5>4. Content[k][0] = page[b][p].data
          BY <4>2, <5>2, ContentAt
        <5>5. Content'[k][0] = page'[b][p].data
          BY <5>2, ContentAtNext
        <5> QED
          BY <4>2, <5>3, <5>4, <5>5
      <4> QED
        BY <4>1, <4>2
    <3>4. Content' = [Content EXCEPT ![l] = [u \in {0} |-> NoContent.data]]
      BY <3>3, ContentChanged
    <3>5. Store!Trim(l)
      BY <3>4 DEF Store!Trim, Store!Blank
    <3> QED
      BY <3>5 DEF Store!Next
  <2> QED
    BY <2>1, <2>2
<1>4. QED
  BY <1>1, <1>2, <1>3 DEF HostStep

(* A copy is read as the page it was made of. *)
LEMMA CopyRefines ==
    ASSUME Inv, NEW kind \in {"COOL", "COLD"}, NEW b \in Block, NEW p \in ValidPages(b),
           CopyPage(b, p, kind)
    PROVE  Content' = Content
<1>1. kind \in Kind
  BY DEF Kind
<1>2. CASE LaneError(kind) # NoPanic
  BY <1>2, ContentStutter DEF CopyPage, Panic, mapVars
<1>3. CASE LaneError(kind) = NoPanic
  <2> DEFINE c == page[b][p]
  <2>1. p \in PageIdx /\ c \in Datum /\ c # NoContent /\ c.lpn \in LPN
    BY Types, NoContentIsNone DEF Inv, DataInv, MappingConsistent, ValidPages
  <2>2. table[c.lpn] = <<b, p>>
    BY <2>1 DEF Inv, DataInv, MappingConsistent
  <2>3. Program(kind, table[c.lpn], c)
    BY <1>3, <2>2 DEF CopyPage
  <2>4. Content[c.lpn][0] = c.data
    <3>1. table[c.lpn] # NoPlace /\ table[c.lpn][1] = b /\ table[c.lpn][2] = p
      BY <2>1, <2>2, NoPlaceIsNone
    <3> QED
      BY <2>1, <3>1, ContentAt
  <2> HIDE DEF c
  <2>5. \A k \in LPN : Content'[k][0] = IF k = c.lpn THEN c.data ELSE Content[k][0]
    BY <1>1, <1>3, <2>1, <2>3, MoveContent
  <2>6. \A k \in LPN : Content'[k][0] = Content[k][0]
    BY <2>4, <2>5
  <2>7. \A k \in LPN : /\ Content[k] = [u \in {0} |-> Content[k][0]]
                       /\ Content'[k] = [u \in {0} |-> Content'[k][0]]
    BY DEF Content
  <2>8. Content = [k \in LPN |-> Content[k]] /\ Content' = [k \in LPN |-> Content'[k]]
    BY DEF Content
  <2>9. \A k \in LPN : Content'[k] = Content[k]
    BY <2>6, <2>7
  <2> QED
    BY <2>8, <2>9
<1>4. QED
  BY <1>2, <1>3

(* Garbage collection and refresh change nothing a host reads. *)
LEMMA InternalRefines ==
    ASSUME Inv, GCStep \/ RefreshStep
    PROVE  Content' = Content
<1>1. CASE SelectColdVictimBlock \/ SelectHotVictimBlock \/ VictimCopied
  BY <1>1, ContentStutter
     DEF SelectColdVictimBlock, SelectHotVictimBlock, VictimCopied, mapVars
<1>2. CASE CopyVictimPage
  <2> DEFINE b == Head(toReclaim)
  <2>1. toReclaim # <<>> /\ toReclaim \in Seq(Block)
    BY <1>2, Types DEF CopyVictimPage, Inv, DataInv, MappingConsistent
  <2>2. b \in Block /\ b \in Range(toReclaim)
    BY <2>1, HeadOfList
  <2>3. b \in blocks
    BY <2>2 DEF Inv, DataInv, VictimInv, Victims
  <2>4. ValidPages(b) # {} /\ CopyPage(b, Min(ValidPages(b)), "COOL")
    BY <1>2, <2>3 DEF CopyVictimPage
  <2> HIDE DEF b
  <2>5. ValidPages(b) \subseteq Nat
    BY Constants DEF ValidPages, PageIdx
  <2>6. Min(ValidPages(b)) \in ValidPages(b)
    BY <2>4, <2>5, MinOfNat
  <2> QED
    BY <2>2, <2>4, <2>6, CopyRefines
<1>3. CASE EraseInternal
  <2>1. UNCHANGED <<table, page>>
    BY <1>3 DEF EraseInternal, Panic, mapVars
  <2> QED
    BY <2>1, ContentStutter
<1>4. CASE TakeLayer \/ LayerRefreshed \/ RefreshDone
  BY <1>4, ContentStutter DEF TakeLayer, LayerRefreshed, RefreshDone, mapVars
<1>5. CASE RefreshLayerPage
  <2> DEFINE kind == IF layer.kind = "COLD" THEN "COLD" ELSE "COOL"
             p == Min(LayerPages)
  <2>1. LayerPages # {} /\ CopyPage(layer.b, p, kind) /\ kind \in {"COOL", "COLD"}
    BY <1>5 DEF RefreshLayerPage
  <2>2. layer.b \in Block
    BY DEF Inv, ControlInv
  <2>3. LayerPages \subseteq ValidPages(layer.b) /\ ValidPages(layer.b) \subseteq Nat
    BY Constants DEF LayerPages, ValidPages, PageIdx
  <2>4. p \in ValidPages(layer.b)
    BY <2>1, <2>3, MinOfNat
  <2> HIDE DEF kind, p
  <2> QED
    BY <2>1, <2>2, <2>4, CopyRefines
<1>6. QED
  BY <1>1, <1>2, <1>3, <1>4, <1>5 DEF GCStep, RefreshStep

(* The refresh event is a stutter of the store. *)
LEMMA RefreshEventRefines ==
    ASSUME NEW ls, RefreshEvent(ls)
    PROVE  Content' = Content
BY ContentStutter DEF RefreshEvent, mapVars

(***************************************************************************)
(* The layer implements the logical store with the separation on: a write  *)
(* or trim changes its own page only, and no step of garbage collection or *)
(* of a refresh changes what a read returns.                               *)
(***************************************************************************)
THEOREM ImplementsStore == Spec => RefinesStore
<1>1. Init => Store!Init
  <2> SUFFICES ASSUME Init PROVE Store!Init
    OBVIOUS
  <2>1. \A l \in LPN : table[l] = NoPlace
    BY DEF Init
  <2>2. Content = [l \in LPN |-> [u \in {0} |-> NoContent.data]]
    BY <2>1 DEF Content
  <2> QED
    BY <2>2 DEF Store!Init, Store!Blank
<1>2. Inv /\ [Next]_vars => [Store!Next]_Content
  <2> SUFFICES ASSUME Inv, [Next]_vars PROVE Store!Next \/ Content' = Content
    OBVIOUS
  <2>1. CASE UNCHANGED vars
    BY <2>1, ContentStutter DEF vars, mapVars
  <2> QED
    BY <2>1, HostRefines, InternalRefines, RefreshEventRefines DEF Next
<1>3. Inv /\ [Next]_vars => [pc \notin {"idle", "fill"} => UNCHANGED Content]_vars
  <2> SUFFICES ASSUME Inv, Next, pc \notin {"idle", "fill"} PROVE Content' = Content
    OBVIOUS
  <2>1. GCStep \/ RefreshStep
    BY DEF Next, HostStep, Fill, Write, Trim, RefreshEvent
  <2> QED
    BY <2>1, InternalRefines
<1>4. QED
  BY <1>1, <1>2, <1>3, Invariance, PTL DEF Spec, RefinesStore, Store!Spec
=============================================================================

------------------------- MODULE PageMappingProofs --------------------------
(***************************************************************************)
(* Proofs about PageMapping for every number of blocks, pages, lanes and   *)
(* units, every eviction policy and every sequence of host operations:     *)
(* the mapping and the write frontier; that the layer implements the       *)
(* logical store; and that the allocation of blocks never corrupts it.     *)
(***************************************************************************)
EXTENDS PageMapping, ListLemmas

-----------------------------------------------------------------------------
(* The inductive invariant *)

(* The counter of free blocks is the length of the list. *)
FreeCount == nFreeBlocks = Len(freeBlocks)

(* What a type invariant says of the variables that copying a page or      *)
(* writing it may change.                                                  *)
MoveTypeOK ==
    /\ table \in [LPN -> [Unit -> Place \cup {NoPlace}]]
    /\ blocks \subseteq Block
    /\ page \in [Block -> [PageIdx -> [Unit -> Content \cup {NoContent}]]]
    /\ erased \in [Block -> [Unit -> SUBSET PageIdx]]
    /\ next \in [Block -> [Unit -> 0 .. NP]]
    /\ refreshedPageCount \in [Block -> Nat]
    /\ freeBlocks \in Seq(Block)
    /\ nFreeBlocks \in Int
    /\ lastFreeBlock \in [Lane -> Block]
    /\ lastFreeBlockIndex \in Lane
    /\ lastFreeBlockIOMap \subseteq Unit
    /\ bReclaimMore \in BOOLEAN

(* The mapping is consistent only because a page that is programmed was    *)
(* erased (WriteFrontier) and because a block is taken from a list that is *)
(* not empty (FreeCount).                                                  *)
MoveInv == MoveTypeOK /\ FreeCount /\ MappingConsistent /\ WriteFrontier

(* The types of the variables that say where in a handler the code is. *)
ControlTypeOK ==
    /\ eraseCount \in [Block -> Nat]
    /\ filled \in Nat
    /\ pc \in Pcs
    /\ after \in {"idle", "refresh"}
    /\ toReclaim \in Seq(Block)
    /\ toErase \in Seq(Block)
    /\ layers \in Seq(Layer)
    /\ panic \in Messages

Inv == MoveInv /\ ControlTypeOK

(* The lane a write goes to exists. *)
LEMMA LaneForType ==
    ASSUME lastFreeBlockIndex \in Lane, NEW io
    PROVE  LaneFor(io) \in Lane
BY SizesAssumption DEF LaneFor, Lane

(* getFreeBlock() finds a block in a list that is not empty. *)
LEMMA FreePosInList ==
    ASSUME freeBlocks \in Seq(Block), FreeCount, nFreeBlocks # 0, NEW k
    PROVE  FreePos(k) \in 1 .. Len(freeBlocks)
<1> DEFINE own == {i \in DOMAIN freeBlocks : freeBlocks[i] % NL = k}
<1>1. Len(freeBlocks) \in Nat /\ DOMAIN freeBlocks = 1 .. Len(freeBlocks)
  BY LenProperties
<1>2. Len(freeBlocks) # 0
  BY DEF FreeCount
<1>3. CASE own = {}
  <2>1. FreePos(k) = 1
    BY <1>3 DEF FreePos
  <2> QED
    BY <1>1, <1>2, <2>1
<1>4. CASE own # {}
  <2>1. own \subseteq 1 .. Len(freeBlocks)
    BY <1>1
  <2>2. own \subseteq Nat
    BY <1>1, <2>1
  <2>3. Min(own) \in own
    BY <1>4, <2>2, MinOfNat
  <2>4. FreePos(k) = Min(own)
    BY <1>4 DEF FreePos
  <2> QED
    BY <2>1, <2>3, <2>4
<1>5. QED
  BY <1>3, <1>4

(* Where a write goes when getLastFreeBlock() does not panic. *)
LEMMA TargetProperties ==
    ASSUME MoveTypeOK, FreeCount, NEW io \in IOMaps, LaneError(io) = NoPanic
    PROVE  /\ Target(io) \in Block
           /\ lastFreeBlock[LaneFor(io)] \in blocks
           /\ \A u \in io : next[Target(io)][u] \in PageIdx
           /\ Full(lastFreeBlock[LaneFor(io)]) =>
                 /\ FreePos(LaneFor(io)) \in 1 .. Len(freeBlocks)
                 /\ Target(io) = freeBlocks[FreePos(LaneFor(io))]
           /\ ~Full(lastFreeBlock[LaneFor(io)]) =>
                 Target(io) = lastFreeBlock[LaneFor(io)]
<1> DEFINE k == LaneFor(io)
<1>1. k \in Lane
  BY LaneForType DEF MoveTypeOK
<1>2. lastFreeBlock[k] \in Block
  BY <1>1 DEF MoveTypeOK
<1>3. lastFreeBlock[k] \in blocks
  BY DEF LaneError, NoPanic
<1>4. Full(lastFreeBlock[k]) => nFreeBlocks # 0
  BY DEF LaneError, NoPanic
<1>5. ~ \E u \in io : next[Target(io)][u] \notin erased[Target(io)][u]
  BY <1>3, <1>4 DEF LaneError, NoPanic
<1>6. Full(lastFreeBlock[k]) =>
         /\ FreePos(k) \in 1 .. Len(freeBlocks)
         /\ Target(io) = freeBlocks[FreePos(k)]
  BY <1>4, FreePosInList DEF MoveTypeOK, Target
<1>7. ~Full(lastFreeBlock[k]) => Target(io) = lastFreeBlock[k]
  BY DEF Target
<1>8. Target(io) \in Block
  BY <1>2, <1>6, <1>7, ElementOfSeq DEF MoveTypeOK
<1>9. \A u \in io : next[Target(io)][u] \in PageIdx
  BY <1>5, <1>8 DEF MoveTypeOK, IOMaps
<1>10. QED
  BY <1>3, <1>6, <1>7, <1>8, <1>9

(* getLastFreeBlock() keeps the types and the counter of free blocks, and  *)
(* adds at most the target to the blocks in use.                           *)
LEMMA LaneStep ==
    ASSUME MoveTypeOK, FreeCount, NEW io \in IOMaps, LaneError(io) = NoPanic,
           NEW count \in [Block -> Nat], GetLastFreeBlock(io, count)
    PROVE  /\ blocks' = blocks \cup {Target(io)}
           /\ blocks' \subseteq Block
           /\ freeBlocks' \in Seq(Block)
           /\ nFreeBlocks' \in Int
           /\ FreeCount'
           /\ lastFreeBlock' \in [Lane -> Block]
           /\ lastFreeBlockIndex' \in Lane
           /\ lastFreeBlockIOMap' \subseteq Unit
           /\ bReclaimMore' \in BOOLEAN
           /\ refreshedPageCount' \in [Block -> Nat]
<1> DEFINE k == LaneFor(io)
<1>1. k \in Lane
  BY LaneForType DEF MoveTypeOK
<1>2. /\ Target(io) \in Block
      /\ lastFreeBlock[k] \in blocks
  BY TargetProperties
<1>3. /\ lastFreeBlockIndex' \in Lane
      /\ lastFreeBlockIOMap' \subseteq Unit
  BY <1>1 DEF GetLastFreeBlock, MoveTypeOK, IOMaps
<1>4. CASE Full(lastFreeBlock[k])
  <2>1. FreePos(k) \in 1 .. Len(freeBlocks)
    BY <1>4, TargetProperties
  <2>2. /\ freeBlocks' = RemoveAt(freeBlocks, FreePos(k))
        /\ nFreeBlocks' = nFreeBlocks - 1
        /\ blocks' = blocks \cup {Target(io)}
        /\ lastFreeBlock' = [lastFreeBlock EXCEPT ![k] = Target(io)]
        /\ refreshedPageCount' = [count EXCEPT ![Target(io)] = 0]
        /\ bReclaimMore' = TRUE
    BY <1>4 DEF GetLastFreeBlock
  <2>3. freeBlocks' \in Seq(Block) /\ Len(freeBlocks') = Len(freeBlocks) - 1
    BY <2>1, <2>2, RemoveAtSeq DEF MoveTypeOK
  <2>4. nFreeBlocks' \in Int /\ FreeCount'
    BY <2>2, <2>3 DEF MoveTypeOK, FreeCount
  <2>5. lastFreeBlock' \in [Lane -> Block] /\ refreshedPageCount' \in [Block -> Nat]
    BY <1>2, <2>2 DEF MoveTypeOK
  <2> QED
    BY <1>2, <1>3, <2>2, <2>3, <2>4, <2>5 DEF MoveTypeOK
<1>5. CASE ~Full(lastFreeBlock[k])
  <2>1. /\ UNCHANGED <<lastFreeBlock, blocks, freeBlocks, nFreeBlocks, bReclaimMore>>
        /\ refreshedPageCount' = count
    BY <1>5 DEF GetLastFreeBlock, freeVars
  <2>2. Target(io) = lastFreeBlock[k]
    BY <1>5, TargetProperties
  <2> QED
    BY <1>2, <1>3, <2>1, <2>2 DEF MoveTypeOK, FreeCount
<1>6. QED
  BY <1>4, <1>5

(* A move: units io leave the places old[u], where the table has them, and *)
(* are programmed as new[u].  Host writes, garbage collection and refresh  *)
(* are all of this form.                                                   *)
LEMMA MovePreserves ==
    ASSUME MoveInv, NEW io \in IOMaps, LaneError(io) = NoPanic,
           NEW old, NEW new, NEW count \in [Block -> Nat],
           \A u \in io : new[u] \in Content /\ old[u] = table[new[u].lpn][u],
           Program(io, old, new), GetLastFreeBlock(io, count)
    PROVE  MoveInv'
<1> DEFINE b == Target(io)
<1>1. /\ b \in Block
      /\ \A u \in io : next[b][u] \in PageIdx
  BY TargetProperties DEF MoveInv
<1>2. blocks' = blocks \cup {b}
  BY LaneStep DEF MoveInv
<1>3. io \subseteq Unit
  BY DEF IOMaps
<1>4. \A u \in io : new[u].lpn \in LPN /\ new[u] # NoContent
  <2> TAKE u \in io
  <2>1. new[u] \in Content
    OBVIOUS
  <2>2. new[u].lpn \in LPN /\ new[u].lpn # -1
    BY <2>1 DEF Content, LPN
  <2> QED
    BY <2>2 DEF NoContent
<1>5. /\ page' = [c \in Block |-> [p \in PageIdx |-> [u \in Unit |->
                      IF u \in io /\ c = b /\ p = next[b][u] THEN new[u]
                      ELSE IF u \in io /\ old[u] = <<c, p>> THEN NoContent
                      ELSE page[c][p][u]]]]
      /\ erased' = [erased EXCEPT ![b] = [u \in Unit |->
                        IF u \in io THEN erased[b][u] \ {next[b][u]} ELSE erased[b][u]]]
      /\ next' = [next EXCEPT ![b] = [u \in Unit |->
                        IF u \in io THEN next[b][u] + 1 ELSE next[b][u]]]
      /\ table' = [l \in LPN |-> [u \in Unit |->
                        IF u \in io /\ new[u].lpn = l THEN <<b, next[b][u]>>
                        ELSE table[l][u]]]
  BY DEF Program
<1> HIDE DEF b
<1>a. \A c \in Block, p \in PageIdx, u \in Unit :
         page'[c][p][u] = IF u \in io /\ c = b /\ p = next[b][u] THEN new[u]
                          ELSE IF u \in io /\ old[u] = <<c, p>> THEN NoContent
                          ELSE page[c][p][u]
  BY <1>5
<1>b. \A l \in LPN, u \in Unit :
         table'[l][u] = IF u \in io /\ new[u].lpn = l THEN <<b, next[b][u]>>
                        ELSE table[l][u]
  BY <1>5
<1>6. MoveTypeOK'
  <2>1. table' \in [LPN -> [Unit -> Place \cup {NoPlace}]]
    BY <1>1, <1>5 DEF MoveInv, MoveTypeOK, Place
  <2>2. page' \in [Block -> [PageIdx -> [Unit -> Content \cup {NoContent}]]]
    BY <1>5 DEF MoveInv, MoveTypeOK
  <2>3. erased' \in [Block -> [Unit -> SUBSET PageIdx]]
    BY <1>1, <1>5 DEF MoveInv, MoveTypeOK
  <2>4. next' \in [Block -> [Unit -> 0 .. NP]]
    <3> DEFINE up == [u \in Unit |-> IF u \in io THEN next[b][u] + 1 ELSE next[b][u]]
    <3>1. next \in [Block -> [Unit -> 0 .. NP]]
      BY DEF MoveInv, MoveTypeOK
    <3>2. \A u \in Unit : up[u] \in 0 .. NP
      BY <1>1, <3>1, SizesAssumption DEF PageIdx
    <3>3. up \in [Unit -> 0 .. NP]
      BY <3>2
    <3>4. next' = [next EXCEPT ![b] = up]
      BY <1>5
    <3> HIDE DEF up
    <3> QED
      BY <3>1, <3>3, <3>4
  <2> QED
    BY <2>1, <2>2, <2>3, <2>4, LaneStep DEF MoveInv, MoveTypeOK
<1>7. FreeCount'
  BY LaneStep DEF MoveInv
<1>8. ASSUME NEW l \in LPN, NEW u \in Unit, NEW c \in Block, NEW p \in PageIdx,
             table[l][u] = <<c, p>>
      PROVE  c \in blocks /\ page[c][p][u].lpn = l /\ p < next[c][u]
  <2>1. table[l][u] # NoPlace
    BY <1>8, SizesAssumption DEF NoPlace, Block
  <2>2. table[l][u][1] = c /\ table[l][u][2] = p
    BY <1>8
  <2>3. c \in blocks /\ page[c][p][u].lpn = l
    BY <2>1, <2>2 DEF MoveInv, MappingConsistent, TableSound
  <2>4. page[c][p][u] # NoContent
    BY <2>3 DEF NoContent, LPN
  <2> QED
    BY <2>3, <2>4 DEF MoveInv, WriteFrontier
<1>9. TableSound'
  <2> SUFFICES ASSUME NEW l \in LPN, NEW u \in Unit, table'[l][u] # NoPlace
               PROVE  /\ table'[l][u][1] \in blocks'
                      /\ page'[table'[l][u][1]][table'[l][u][2]][u].lpn = l
    BY DEF TableSound
  <2>1. CASE u \in io /\ new[u].lpn = l
    <3>1. table'[l][u] = <<b, next[b][u]>>
      BY <1>b, <2>1
    <3>2. page'[b][next[b][u]][u] = new[u]
      BY <1>1, <1>a, <2>1
    <3> QED
      BY <1>2, <2>1, <3>1, <3>2
  <2>2. CASE ~(u \in io /\ new[u].lpn = l)
    <3>1. table'[l][u] = table[l][u]
      BY <1>b, <2>2
    <3>2. PICK c \in Block, p \in PageIdx : table[l][u] = <<c, p>>
      BY <3>1 DEF Place, MoveInv, MoveTypeOK
    <3>3. c \in blocks /\ page[c][p][u].lpn = l /\ p < next[c][u]
      BY <1>8, <3>2
    <3>4. ~(u \in io /\ c = b /\ p = next[b][u])
      BY <1>1, <3>3 DEF PageIdx
    <3>5. ~(u \in io /\ old[u] = <<c, p>>)
      <4> SUFFICES ASSUME u \in io, old[u] = <<c, p>>
                   PROVE  new[u].lpn = l
        BY <2>2
      <4>1. table[new[u].lpn][u] = <<c, p>>
        OBVIOUS
      <4>2. page[c][p][u].lpn = new[u].lpn
        BY <1>4, <1>8, <4>1
      <4> QED
        BY <3>3, <4>2
    <3>6. page'[c][p][u] = page[c][p][u]
      BY <1>a, <3>4, <3>5
    <3>7. table'[l][u][1] = c /\ table'[l][u][2] = p
      BY <3>1, <3>2
    <3> QED
      BY <1>2, <3>3, <3>6, <3>7
  <2> QED
    BY <2>1, <2>2
<1>10. PagesReachable'
  <2> SUFFICES ASSUME NEW c \in Block, NEW p \in PageIdx, NEW u \in Unit,
                      page'[c][p][u] # NoContent
               PROVE  table'[page'[c][p][u].lpn][u] = <<c, p>>
    BY DEF PagesReachable
  <2>1. CASE u \in io /\ c = b /\ p = next[b][u]
    <3>1. page'[c][p][u] = new[u]
      BY <1>a, <2>1
    <3> QED
      BY <1>4, <1>b, <2>1, <3>1
  <2>2. CASE ~(u \in io /\ c = b /\ p = next[b][u])
    <3>1. page'[c][p][u] = page[c][p][u] /\ ~(u \in io /\ old[u] = <<c, p>>)
      BY <1>5, <2>2
    <3>2. page[c][p][u] \in Content
      BY <3>1 DEF MoveInv, MoveTypeOK
    <3>3. page[c][p][u].lpn \in LPN
      BY <3>2 DEF Content
    <3>4. table[page[c][p][u].lpn][u] = <<c, p>>
      BY <3>1 DEF MoveInv, MappingConsistent, PagesReachable
    <3>5. ~(u \in io /\ new[u].lpn = page[c][p][u].lpn)
      BY <3>1, <3>4
    <3>6. table'[page[c][p][u].lpn][u] = table[page[c][p][u].lpn][u]
      BY <1>b, <3>3, <3>5
    <3> QED
      BY <3>1, <3>4, <3>6
  <2> QED
    BY <2>1, <2>2
<1>11. WriteFrontier'
  <2> SUFFICES ASSUME NEW c \in Block, NEW u \in Unit
               PROVE  /\ erased'[c][u] = {p \in PageIdx : p >= next'[c][u]}
                      /\ \A p \in PageIdx : page'[c][p][u] # NoContent => p < next'[c][u]
                      /\ c \notin blocks' => next'[c][u] = 0
    BY DEF WriteFrontier
  <2>1. /\ erased[c][u] = {p \in PageIdx : p >= next[c][u]}
        /\ \A p \in PageIdx : page[c][p][u] # NoContent => p < next[c][u]
        /\ c \notin blocks => next[c][u] = 0
        /\ next[c][u] \in Nat
    BY SizesAssumption DEF MoveInv, WriteFrontier, MoveTypeOK
  <2>2. CASE c = b /\ u \in io
    <3>1. next'[c][u] = next[c][u] + 1 /\ erased'[c][u] = erased[c][u] \ {next[c][u]}
      BY <1>1, <1>5, <2>2 DEF MoveInv, MoveTypeOK
    <3>2. erased'[c][u] = {p \in PageIdx : p >= next'[c][u]}
      BY <2>1, <3>1 DEF PageIdx
    <3>3. \A p \in PageIdx : page'[c][p][u] # NoContent => p < next'[c][u]
      BY <1>5, <2>1, <2>2, <3>1 DEF PageIdx
    <3> QED
      BY <1>2, <2>2, <3>2, <3>3
  <2>3. CASE ~(c = b /\ u \in io)
    <3>1. next'[c][u] = next[c][u] /\ erased'[c][u] = erased[c][u]
      BY <1>1, <1>5, <2>3 DEF MoveInv, MoveTypeOK
    <3>2. \A p \in PageIdx : page'[c][p][u] # NoContent => page[c][p][u] # NoContent
      BY <1>5, <2>3
    <3> QED
      BY <1>2, <2>1, <3>1, <3>2
  <2> QED
    BY <2>2, <2>3
<1>12. QED
  BY <1>6, <1>7, <1>9, <1>10, <1>11 DEF MoveInv, MappingConsistent

-----------------------------------------------------------------------------
(* Every action preserves the invariant *)

(* A step that leaves the pages, the table and the lanes alone. *)
LEMMA MoveStutter ==
    ASSUME MoveInv, bReclaimMore' \in BOOLEAN,
           UNCHANGED <<table, blockVars, refreshedPageCount, freeVars, laneVars>>
    PROVE  MoveInv'
BY DEF MoveInv, MoveTypeOK, FreeCount, MappingConsistent, TableSound, PagesReachable,
       WriteFrontier, blockVars, freeVars, laneVars

(* A panic stops the simulator and changes no data. *)
LEMMA PanicPreserves ==
    ASSUME Inv, NEW m \in Messages, Panic(m)
    PROVE  Inv'
<1>1. MoveInv'
  BY MoveStutter DEF Inv, Panic, wearVars, MoveInv, MoveTypeOK
<1>2. ControlTypeOK'
  BY DEF Inv, Panic, ControlTypeOK, wearVars, Pcs
<1>3. QED
  BY <1>1, <1>2 DEF Inv

(* getLastFreeBlock() ends in a known panic or none. *)
LEMMA LaneErrorType == \A io : LaneError(io) \in Messages
BY DEF LaneError, Messages, NoPanic

(* A write ends in a known panic or none. *)
LEMMA WriteErrorType == \A l, io : WriteError(l, io) \in Messages
<1> TAKE l, io
<1>1. "DanglingMapping" \in Messages
  BY DEF Messages
<1>2. QED
  BY <1>1, LaneErrorType DEF WriteError

(* A write is a move of the units from where the table has them. *)
LEMMA WriteUnitsPreserves ==
    ASSUME Inv, NEW l \in LPN, NEW io \in IOMaps, NEW d \in Data,
           WriteError(l, io) = NoPanic, WriteUnits(l, io, d)
    PROVE  MoveInv'
<1> DEFINE new == [u \in Unit |-> [lpn |-> l, data |-> d]]
<1>1. LaneError(io) = NoPanic
  BY DEF WriteError, NoPanic
<1>2. \A u \in io : new[u] \in Content /\ table[l][u] = table[new[u].lpn][u]
  BY DEF IOMaps, Content
<1>3. Program(io, table[l], new) /\ GetLastFreeBlock(io, refreshedPageCount)
  BY DEF WriteUnits
<1>4. MoveInv /\ refreshedPageCount \in [Block -> Nat]
  BY DEF Inv, MoveInv, MoveTypeOK
<1> HIDE DEF new
<1>5. QED
  BY <1>1, <1>2, <1>3, <1>4, MovePreserves

(* A host write *)
LEMMA WritePreserves ==
    ASSUME Inv, NEW l \in LPN, NEW io \in IOMaps, NEW d \in Data, Write(l, io, d)
    PROVE  Inv'
<1>1. CASE WriteError(l, io) # NoPanic
  <2>1. WriteError(l, io) \in Messages
    BY WriteErrorType
  <2> QED
    BY <1>1, <2>1, PanicPreserves DEF Write
<1>2. CASE WriteError(l, io) = NoPanic
  <2>1. MoveInv'
    BY <1>2, WriteUnitsPreserves DEF Write
  <2>2. ControlTypeOK'
    BY <1>2 DEF Write, WriteUnits, Inv, ControlTypeOK, Pcs
  <2> QED
    BY <2>1, <2>2 DEF Inv
<1>3. QED
  BY <1>1, <1>2

(* A write of a whole page is a write. *)
LEMMA UnitIsIOMap == Unit \in IOMaps
BY SizesAssumption DEF IOMaps, Unit

(* A write of the initial fill *)
LEMMA FillPreserves ==
    ASSUME Inv, NEW l \in LPN, NEW d \in Data, Fill(l, d)
    PROVE  Inv'
<1>0. Unit \in IOMaps
  BY UnitIsIOMap
<1>1. CASE WriteError(l, Unit) # NoPanic
  <2>1. WriteError(l, Unit) \in Messages
    BY WriteErrorType
  <2> QED
    BY <1>1, <2>1, PanicPreserves DEF Fill
<1>2. CASE WriteError(l, Unit) = NoPanic
  <2>1. WriteUnits(l, Unit, d)
    BY <1>2 DEF Fill
  <2>2. MoveInv'
    BY <1>0, <1>2, <2>1, WriteUnitsPreserves
  <2>3. /\ filled' = filled + 1
        /\ pc' \in {"panic", "idle", "fill"}
        /\ panic' \in {panic, "GCInInitialization"}
        /\ UNCHANGED after
    BY <1>2 DEF Fill
  <2>4. ControlTypeOK'
    BY <2>1, <2>3 DEF WriteUnits, Inv, ControlTypeOK, Pcs, Messages
  <2> QED
    BY <2>2, <2>4 DEF Inv
<1>3. QED
  BY <1>1, <1>2

(* A read changes nothing. *)
LEMMA ReadPreserves ==
    ASSUME Inv, NEW l \in LPN, NEW io \in IOMaps, Read(l, io)
    PROVE  Inv'
<1>1. CASE Panic("BlockNotInUse")
  <2>1. "BlockNotInUse" \in Messages
    BY DEF Messages
  <2> QED
    BY <1>1, <2>1, PanicPreserves
<1>2. CASE UNCHANGED vars
  <2>1. MoveInv'
    BY <1>2, MoveStutter DEF Inv, MoveInv, MoveTypeOK, vars, wearVars
  <2>2. ControlTypeOK'
    BY <1>2 DEF Inv, ControlTypeOK, vars, wearVars, controlVars
  <2> QED
    BY <2>1, <2>2 DEF Inv
<1>3. Panic("BlockNotInUse") \/ UNCHANGED vars
  BY Zenon DEF Read
<1>4. QED
  BY <1>1, <1>2, <1>3

(* Sets of blocks are finite. *)
LEMMA BlockIsFinite == ASSUME NEW S, S \subseteq Block
                       PROVE  IsFiniteSet(S) /\ Cardinality(S) \in Nat
<1>1. IsFiniteSet(Block)
  BY SizesAssumption, FS_Interval DEF Block
<1>2. QED
  BY <1>1, FS_Subset, FS_CardinalityType

(* A list given as a function on an initial interval is a sequence. *)
LEMMA IntervalSeq ==
    ASSUME NEW n \in Int, NEW S, S \subseteq Block, NEW s \in [1 .. n -> S]
    PROVE  s \in Seq(Block)
<1>1. CASE n >= 0
  <2>1. s \in [1 .. n -> Block] /\ n \in Nat
    BY <1>1
  <2> QED
    BY <2>1, SeqDef
<1>2. CASE n < 0
  <2>1. 1 .. n = 1 .. 0
    BY <1>2
  <2>2. s \in [1 .. 0 -> Block]
    BY <2>1
  <2> QED
    BY <2>2, SeqDef
<1>3. QED
  BY <1>1, <1>2

(* Trim and format take a mapping and its valid bits away together. *)
LEMMA ForgetPreserves ==
    ASSUME MoveInv, NEW lpns \in SUBSET LPN, Forget(lpns),
           UNCHANGED <<erased, next, refreshedPageCount, freeVars, laneVars, bReclaimMore>>
    PROVE  MoveInv'
<1>1. /\ \A b \in Block, p \in PageIdx, u \in Unit :
            page'[b][p][u] = IF \E l \in lpns : table[l][u] = <<b, p>> THEN NoContent
                             ELSE page[b][p][u]
      /\ \A l \in LPN, u \in Unit :
            table'[l][u] = IF l \in lpns THEN NoPlace ELSE table[l][u]
  BY DEF Forget, MoveInv, MoveTypeOK
<1>2. MoveTypeOK'
  <2>1. page' \in [Block -> [PageIdx -> [Unit -> Content \cup {NoContent}]]]
    BY DEF Forget, MoveInv, MoveTypeOK
  <2>2. table' \in [LPN -> [Unit -> Place \cup {NoPlace}]]
    BY DEF Forget, MoveInv, MoveTypeOK
  <2> QED
    BY <2>1, <2>2 DEF MoveInv, MoveTypeOK, freeVars, laneVars
<1>3. FreeCount'
  BY DEF MoveInv, FreeCount, freeVars
<1>4. TableSound'
  <2> SUFFICES ASSUME NEW l \in LPN, NEW u \in Unit, table'[l][u] # NoPlace
               PROVE  /\ table'[l][u][1] \in blocks'
                      /\ page'[table'[l][u][1]][table'[l][u][2]][u].lpn = l
    BY DEF TableSound
  <2>1. l \notin lpns /\ table'[l][u] = table[l][u]
    BY <1>1
  <2>2. PICK b \in Block, p \in PageIdx : table[l][u] = <<b, p>>
    BY <2>1 DEF MoveInv, MoveTypeOK, Place
  <2>3. /\ table[l][u][1] = b /\ table[l][u][2] = p
        /\ table'[l][u][1] = b /\ table'[l][u][2] = p
    BY <2>1, <2>2
  <2>4. b \in blocks /\ page[b][p][u].lpn = l
    BY <2>1, <2>3 DEF MoveInv, MappingConsistent, TableSound
  <2>5. ~ \E k \in lpns : table[k][u] = <<b, p>>
    <3> SUFFICES ASSUME NEW k \in lpns, table[k][u] = <<b, p>>
                 PROVE  k = l
      BY <2>1
    <3>1. table[k][u] # NoPlace
      BY <2>1, <2>2
    <3>2. table[k][u][1] = b /\ table[k][u][2] = p
      OBVIOUS
    <3>3. page[b][p][u].lpn = k
      BY <3>1, <3>2 DEF MoveInv, MappingConsistent, TableSound
    <3> QED
      BY <2>4, <3>3
  <2>6. page'[b][p][u] = page[b][p][u]
    BY <1>1, <2>5
  <2> QED
    BY <2>3, <2>4, <2>6 DEF freeVars
<1>5. PagesReachable'
  <2> SUFFICES ASSUME NEW b \in Block, NEW p \in PageIdx, NEW u \in Unit,
                      page'[b][p][u] # NoContent
               PROVE  table'[page'[b][p][u].lpn][u] = <<b, p>>
    BY DEF PagesReachable
  <2>1. page'[b][p][u] = page[b][p][u] /\ ~ \E l \in lpns : table[l][u] = <<b, p>>
    BY <1>1
  <2>2. page[b][p][u] \in Content
    BY <2>1 DEF MoveInv, MoveTypeOK
  <2>3. page[b][p][u].lpn \in LPN
    BY <2>2 DEF Content
  <2>4. table[page[b][p][u].lpn][u] = <<b, p>>
    BY <2>1 DEF MoveInv, MappingConsistent, PagesReachable
  <2>5. page[b][p][u].lpn \notin lpns
    BY <2>1, <2>4
  <2>6. table'[page[b][p][u].lpn][u] = <<b, p>>
    BY <1>1, <2>3, <2>4, <2>5
  <2> QED
    BY <2>1, <2>6
<1>6. WriteFrontier'
  <2>1. \A b \in Block, p \in PageIdx, u \in Unit :
           page'[b][p][u] # NoContent => page[b][p][u] # NoContent
    BY <1>1
  <2> QED
    BY <2>1 DEF MoveInv, WriteFrontier, freeVars
<1>7. QED
  BY <1>2, <1>3, <1>4, <1>5, <1>6 DEF MoveInv, MappingConsistent

(* A trim or format ends in a known panic or none. *)
LEMMA ForgetErrorType == \A lpns : ForgetError(lpns) \in Messages
BY DEF ForgetError, Messages

(* A trim *)
LEMMA TrimPreserves ==
    ASSUME Inv, NEW l \in LPN, Trim(l)
    PROVE  Inv'
<1>1. CASE ForgetError({l}) # NoPanic
  BY <1>1, ForgetErrorType, PanicPreserves DEF Trim
<1>2. CASE ForgetError({l}) = NoPanic
  <2>1. /\ Forget({l})
        /\ UNCHANGED <<erased, next, wearVars, freeVars, laneVars,
                       bReclaimMore, controlVars, panic>>
    BY <1>2 DEF Trim
  <2>2. MoveInv'
    BY <2>1, ForgetPreserves DEF Inv, wearVars
  <2>3. ControlTypeOK'
    BY <2>1 DEF Inv, ControlTypeOK, controlVars, wearVars
  <2> QED
    BY <2>2, <2>3 DEF Inv
<1>3. QED
  BY <1>1, <1>2

(* Garbage collection starts with lists of blocks, empty or not. *)
LEMMA StartGCType ==
    ASSUME NEW list \in Seq(Block), NEW return \in {"idle", "refresh"},
           StartGC(list, return)
    PROVE  /\ toReclaim' \in Seq(Block) /\ toErase' \in Seq(Block)
           /\ pc' \in Pcs /\ after' \in {"idle", "refresh"}
BY DEF StartGC, Pcs

(* A format starts garbage collection with a list of blocks. *)
LEMMA FormatPreserves ==
    ASSUME Inv, NEW range \in FormatRanges, Format(range)
    PROVE  Inv'
<1>0. range \in SUBSET LPN
  BY SizesAssumption
<1>1. CASE ForgetError(range) # NoPanic
  BY <1>1, ForgetErrorType, PanicPreserves DEF Format
<1>2. CASE ForgetError(range) = NoPanic
  <2>1. /\ Forget(range)
        /\ UNCHANGED <<erased, next, wearVars, freeVars, laneVars,
                       bReclaimMore, layers, filled, panic>>
    BY <1>2 DEF Format
  <2>2. MoveInv'
    BY <1>0, <2>1, ForgetPreserves DEF Inv, wearVars
  <2>3. PICK list \in Listings(FormatVictims(range)) : StartGC(list, "idle")
    BY <1>2 DEF Format
  <2>4. \A l \in range, u \in Unit : Mapped(l) => table[l][u][1] \in blocks
    BY <1>2 DEF ForgetError, NoPanic
  <2>5. FormatVictims(range) \subseteq Block
    BY <2>4 DEF FormatVictims, Inv, MoveInv, MoveTypeOK
  <2>6. list \in Seq(Block)
    <3>1. list \in [1 .. Cardinality(FormatVictims(range)) -> FormatVictims(range)]
      BY <2>3 DEF Listings
    <3>2. Cardinality(FormatVictims(range)) \in Int
      BY <2>5, BlockIsFinite
    <3> QED
      BY <2>5, <3>1, <3>2, IntervalSeq
  <2>7. ControlTypeOK'
    BY <2>1, <2>3, <2>6, StartGCType DEF Inv, ControlTypeOK, wearVars
  <2> QED
    BY <2>2, <2>7 DEF Inv
<1>3. QED
  BY <1>1, <1>2

(* The victims are blocks: Candidates are blocks in use, and a sample of   *)
(* them is no larger than they are.                                        *)
LEMMA SelectPreserves ==
    ASSUME Inv, SelectVictimBlock
    PROVE  Inv'
<1>1. CASE Hang
  <2>1. MoveInv'
    BY <1>1, MoveStutter DEF Hang, Inv, MoveInv, MoveTypeOK, wearVars
  <2>2. ControlTypeOK'
    BY <1>1 DEF Hang, Inv, ControlTypeOK, wearVars, Pcs
  <2> QED
    BY <2>1, <2>2 DEF Inv
<1>2. CASE Panic("OutOfRange")
  <2>1. "OutOfRange" \in Messages
    BY DEF Messages
  <2> QED
    BY <1>2, <2>1, PanicPreserves
<1>3. CASE ~Hang /\ ~Panic("OutOfRange")
  <2>1. /\ bReclaimMore' = FALSE
        /\ UNCHANGED <<table, blockVars, wearVars, freeVars, laneVars,
                       layers, filled, panic>>
    BY <1>3, Zenon DEF SelectVictimBlock
  <2>2. PICK S \in Samples :
           \E list \in LowestFirst(S, Min({VictimCount, Cardinality(S)})) :
               StartGC(list, after)
    BY <1>3, Zenon DEF SelectVictimBlock
  <2> DEFINE n == Min({VictimCount, Cardinality(S)})
  <2>3. PICK list \in LowestFirst(S, n) : StartGC(list, after)
    BY <2>2, Zenon
  <2>4. S \subseteq Block
    <3>1. Candidates \subseteq Block
      BY DEF Candidates, Inv, MoveInv, MoveTypeOK
    <3> QED
      BY <3>1 DEF Samples
  <2>5. n \in Int
    <3>1. Cardinality(S) \in Nat
      BY <2>4, BlockIsFinite
    <3>2. VictimCount \in Int
      <4>1. ReclaimBlocks \in Int /\ ReclaimTarget \in Int /\ NL \in Int
        BY SizesAssumption, PolicyAssumption
      <4>2. nFreeBlocks \in Int
        BY DEF Inv, MoveInv, MoveTypeOK
      <4> QED
        BY <4>1, <4>2 DEF VictimCount
    <3>3. Cardinality(S) \in Int
      BY <3>1
    <3> QED
      BY <3>2, <3>3, MinOfTwo
  <2>6. list \in Seq(Block)
    <3> HIDE DEF n
    <3>1. list \in [1 .. n -> S]
      BY <2>3 DEF LowestFirst
    <3> QED
      BY <2>4, <2>5, <3>1, IntervalSeq
  <2>7. MoveInv'
    BY <2>1, MoveStutter DEF Inv, wearVars
  <2>8. ControlTypeOK'
    BY <2>1, <2>3, <2>6, StartGCType DEF Inv, ControlTypeOK, wearVars
  <2> QED
    BY <2>7, <2>8 DEF Inv
<1>4. QED
  BY <1>1, <1>2, <1>3

(* The copy of a page ends in a known panic or none. *)
LEMMA CopyErrorType == \A b, p : CopyError(b, p) \in Messages
<1> TAKE b, p
<1>1. "InvalidMappingEntry" \in Messages
  BY DEF Messages
<1>2. QED
  BY <1>1, LaneErrorType DEF CopyError

(* Copying a page is a move of its valid units from the place the table    *)
(* has them at.                                                            *)
LEMMA CopyPagePreserves ==
    ASSUME MoveInv, NEW b \in Block, NEW p \in ValidPages(b),
           NEW count \in [Block -> Nat],
           CopyError(b, p) = NoPanic, CopyPage(b, p, count)
    PROVE  MoveInv'
<1> DEFINE io  == ValidUnits(b, p)
           old == [u \in Unit |-> <<b, p>>]
<1>1. p \in PageIdx /\ io \in IOMaps
  BY DEF ValidPages, ValidUnits, IOMaps
<1>2. LaneError(io) = NoPanic
  BY DEF CopyError, NoPanic
<1>3. \A u \in io : page[b][p][u] \in Content /\ old[u] = table[page[b][p][u].lpn][u]
  <2> TAKE u \in io
  <2>1. u \in Unit /\ page[b][p][u] # NoContent
    BY DEF ValidUnits
  <2>2. page[b][p][u] \in Content
    BY <1>1, <2>1 DEF MoveInv, MoveTypeOK
  <2>3. table[page[b][p][u].lpn][u] = <<b, p>>
    BY <1>1, <2>1 DEF MoveInv, MappingConsistent, PagesReachable
  <2> QED
    BY <2>1, <2>2, <2>3
<1>4. Program(io, old, page[b][p]) /\ GetLastFreeBlock(io, count)
  BY DEF CopyPage
<1> HIDE DEF io, old
<1>5. QED
  BY <1>1, <1>2, <1>3, <1>4, MovePreserves

(* Garbage collection copies the first valid page of the first victim. *)
LEMMA CopyVictimPagePreserves ==
    ASSUME Inv, CopyVictimPage
    PROVE  Inv'
<1> DEFINE b == Head(toReclaim)
           p == Min(ValidPages(b))
<1>1. b \in Block
  BY DEF CopyVictimPage, Inv, ControlTypeOK
<1>2. p \in ValidPages(b)
  <2>1. ValidPages(b) \subseteq Nat /\ ValidPages(b) # {}
    BY DEF CopyVictimPage, ValidPages, PageIdx
  <2> QED
    BY <2>1, MinOfNat
<1>3. CASE b \notin blocks
  <2>1. "InvalidBlock" \in Messages /\ Panic("InvalidBlock")
    BY <1>3 DEF CopyVictimPage, Messages
  <2> QED
    BY <2>1, PanicPreserves
<1>4. CASE b \in blocks /\ CopyError(b, p) # NoPanic
  <2>1. Panic(CopyError(b, p))
    BY <1>4 DEF CopyVictimPage
  <2> QED
    BY <2>1, CopyErrorType, PanicPreserves
<1>5. CASE b \in blocks /\ CopyError(b, p) = NoPanic
  <2>1. CopyPage(b, p, refreshedPageCount) /\ UNCHANGED <<eraseCount, controlVars, panic>>
    BY <1>5 DEF CopyVictimPage
  <2>2. MoveInv'
    <3>1. MoveInv /\ refreshedPageCount \in [Block -> Nat]
      BY DEF Inv, MoveInv, MoveTypeOK
    <3> HIDE DEF b, p
    <3> QED
      BY <1>1, <1>2, <1>5, <2>1, <3>1, CopyPagePreserves
  <2>3. ControlTypeOK'
    BY <2>1 DEF Inv, ControlTypeOK, controlVars
  <2> QED
    BY <2>2, <2>3 DEF Inv
<1>6. QED
  BY <1>3, <1>4, <1>5

(* A drained victim goes from one list to the other. *)
LEMMA VictimCopiedPreserves ==
    ASSUME Inv, VictimCopied
    PROVE  Inv'
<1> DEFINE b == Head(toReclaim)
<1>1. CASE b \notin blocks
  <2>1. "InvalidBlock" \in Messages /\ Panic("InvalidBlock")
    BY <1>1 DEF VictimCopied, Messages
  <2> QED
    BY <2>1, PanicPreserves
<1>2. CASE b \in blocks
  <2>1. /\ toReclaim # <<>>
        /\ toReclaim' = Tail(toReclaim)
        /\ toErase' = Append(toErase, b)
        /\ pc' \in {"erase", "copy"}
        /\ UNCHANGED <<table, blockVars, wearVars, freeVars, laneVars,
                       bReclaimMore, after, layers, filled, panic>>
    BY <1>2 DEF VictimCopied
  <2>2. MoveInv'
    BY <2>1, MoveStutter DEF Inv, MoveInv, MoveTypeOK, wearVars
  <2>3. toReclaim' \in Seq(Block) /\ toErase' \in Seq(Block)
    BY <2>1 DEF Inv, ControlTypeOK
  <2>4. ControlTypeOK'
    BY <2>1, <2>3 DEF Inv, ControlTypeOK, wearVars, Pcs
  <2> QED
    BY <2>2, <2>4 DEF Inv
<1>3. QED
  BY <1>1, <1>2

(* The position eraseInternal() finds is one of the list's. *)
LEMMA InsertPosInList ==
    ASSUME freeBlocks \in Seq(Block), NEW n
    PROVE  InsertPos(n) \in 1 .. Len(freeBlocks) + 1
<1> DEFINE notAbove == {i \in DOMAIN freeBlocks : eraseCount[freeBlocks[i]] <= n}
<1>1. Len(freeBlocks) \in Nat /\ DOMAIN freeBlocks = 1 .. Len(freeBlocks)
  BY LenProperties
<1>2. notAbove \subseteq 1 .. Len(freeBlocks)
  BY <1>1
<1>3. InsertPos(n) = IF notAbove = {} THEN 1 ELSE Max(notAbove) + 1
  BY DEF InsertPos
<1> HIDE DEF notAbove
<1>4. CASE notAbove = {}
  BY <1>1, <1>3, <1>4
<1>5. CASE notAbove # {}
  <2>1. Max(notAbove) \in 1 .. Len(freeBlocks)
    BY <1>1, <1>2, <1>5, MaxOfInterval
  <2> QED
    BY <1>1, <1>3, <1>5, <2>1
<1>6. QED
  BY <1>4, <1>5

(* A block without a valid page is no block of the table, so that it can   *)
(* be erased and leave the blocks in use.                                  *)
LEMMA ErasePreserves ==
    ASSUME Inv, NEW b \in Block, EraseError(b) = NoPanic, EraseBlock(b), ReturnBlock(b),
           UNCHANGED <<table, refreshedPageCount, laneVars, bReclaimMore>>
    PROVE  MoveInv'
<1>1. b \in blocks /\ ValidPages(b) = {}
  BY DEF EraseError, NoPanic
<1>2. /\ blocks \subseteq Block
      /\ freeBlocks \in Seq(Block) /\ nFreeBlocks \in Int
      /\ page \in [Block -> [PageIdx -> [Unit -> Content \cup {NoContent}]]]
      /\ erased \in [Block -> [Unit -> SUBSET PageIdx]]
      /\ next \in [Block -> [Unit -> 0 .. NP]]
      /\ table \in [LPN -> [Unit -> Place \cup {NoPlace}]]
  BY DEF Inv, MoveInv, MoveTypeOK
<1>3. page' = page
  <2>1. \A p \in PageIdx, u \in Unit : page[b][p][u] = NoContent
    BY <1>1 DEF ValidPages, ValidUnits
  <2>2. page[b] = [p \in PageIdx |-> [u \in Unit |-> NoContent]]
    BY <1>2, <2>1
  <2> QED
    BY <1>2, <2>2 DEF EraseBlock
<1>4. /\ freeBlocks' \in Seq(Block)
      /\ nFreeBlocks' \in Int
      /\ FreeCount'
  <2>1. CASE eraseCount[b] + 1 < BadBlock
    <3>1. InsertPos(eraseCount[b] + 1) \in 1 .. Len(freeBlocks) + 1
      BY <1>2, InsertPosInList
    <3>2. /\ freeBlocks' = InsertAt(freeBlocks, InsertPos(eraseCount[b] + 1), b)
          /\ nFreeBlocks' = nFreeBlocks + 1
      BY <2>1 DEF ReturnBlock
    <3>3. freeBlocks' \in Seq(Block) /\ Len(freeBlocks') = Len(freeBlocks) + 1
      BY <1>2, <3>1, <3>2, InsertAtSeq
    <3> QED
      BY <1>2, <3>2, <3>3 DEF Inv, MoveInv, FreeCount
  <2>2. CASE ~(eraseCount[b] + 1 < BadBlock)
    BY <1>2, <2>2 DEF ReturnBlock, Inv, MoveInv, FreeCount
  <2> QED
    BY <2>1, <2>2
<1>5. /\ blocks' = blocks \ {b}
      /\ erased' = [erased EXCEPT ![b] = [u \in Unit |-> PageIdx]]
      /\ next' = [next EXCEPT ![b] = [u \in Unit |-> 0]]
  BY DEF ReturnBlock, EraseBlock
<1>6. MoveTypeOK'
  <2>1. blocks' \subseteq Block
    BY <1>2, <1>5
  <2>2. erased' \in [Block -> [Unit -> SUBSET PageIdx]]
    BY <1>2, <1>5
  <2>3. next' \in [Block -> [Unit -> 0 .. NP]]
    BY <1>2, <1>5, SizesAssumption
  <2> QED
    BY <1>3, <1>4, <2>1, <2>2, <2>3 DEF Inv, MoveInv, MoveTypeOK, laneVars
<1>7. TableSound'
  <2> SUFFICES ASSUME NEW l \in LPN, NEW u \in Unit, table[l][u] # NoPlace
               PROVE  /\ table[l][u][1] \in blocks \ {b}
                      /\ page[table[l][u][1]][table[l][u][2]][u].lpn = l
    BY <1>3, <1>5 DEF TableSound
  <2>1. PICK c \in Block, p \in PageIdx : table[l][u] = <<c, p>>
    BY <1>2 DEF Place
  <2>2. table[l][u][1] = c /\ table[l][u][2] = p
    BY <2>1
  <2>3. c \in blocks /\ page[c][p][u].lpn = l
    BY <2>2 DEF Inv, MoveInv, MappingConsistent, TableSound
  <2>4. page[c][p][u] # NoContent
    BY <2>3 DEF NoContent, LPN
  <2>5. c # b
    BY <1>1, <2>4 DEF ValidPages, ValidUnits
  <2> QED
    BY <2>2, <2>3, <2>5
<1>8. PagesReachable'
  BY <1>3 DEF Inv, MoveInv, MappingConsistent, PagesReachable
<1>9. WriteFrontier'
  <2> SUFFICES ASSUME NEW c \in Block, NEW u \in Unit
               PROVE  /\ erased'[c][u] = {p \in PageIdx : p >= next'[c][u]}
                      /\ \A p \in PageIdx : page'[c][p][u] # NoContent => p < next'[c][u]
                      /\ c \notin blocks' => next'[c][u] = 0
    BY DEF WriteFrontier
  <2>1. CASE c = b
    <3>1. erased'[c][u] = PageIdx /\ next'[c][u] = 0
      BY <1>2, <1>5, <2>1
    <3>2. \A p \in PageIdx : page'[c][p][u] = NoContent
      BY <1>1, <1>3, <2>1 DEF ValidPages, ValidUnits
    <3>3. PageIdx = {p \in PageIdx : p >= 0}
      BY DEF PageIdx
    <3> QED
      BY <3>1, <3>2, <3>3
  <2>2. CASE c # b
    <3>1. erased'[c][u] = erased[c][u] /\ next'[c][u] = next[c][u]
      BY <1>2, <1>5, <2>2
    <3> QED
      BY <1>3, <1>5, <2>2, <3>1 DEF Inv, MoveInv, WriteFrontier
  <2> QED
    BY <2>1, <2>2
<1>10. QED
  BY <1>4, <1>6, <1>7, <1>8, <1>9 DEF MoveInv, MappingConsistent

(* An erase ends in a known panic or none. *)
LEMMA EraseErrorType == \A b : EraseError(b) \in Messages
BY DEF EraseError, Messages, NoPanic

(* The erase of one victim *)
LEMMA EraseInternalPreserves ==
    ASSUME Inv, EraseInternal
    PROVE  Inv'
<1> DEFINE b == Head(toErase)
<1>1. b \in Block
  BY DEF EraseInternal, Inv, ControlTypeOK
<1>2. CASE EraseError(b) # NoPanic
  <2>1. Panic(EraseError(b))
    BY <1>2 DEF EraseInternal
  <2> QED
    BY <2>1, EraseErrorType, PanicPreserves
<1>3. CASE EraseError(b) = NoPanic
  <2>1. /\ toErase # <<>>
        /\ EraseBlock(b)
        /\ ReturnBlock(b)
        /\ toErase' = Tail(toErase)
        /\ pc' \in {after, "erase"}
        /\ UNCHANGED <<table, refreshedPageCount, laneVars, bReclaimMore,
                       after, toReclaim, layers, filled, panic>>
    BY <1>3 DEF EraseInternal
  <2>2. MoveInv'
    <3> HIDE DEF b
    <3> QED
      BY <1>1, <1>3, <2>1, ErasePreserves
  <2>3. eraseCount' \in [Block -> Nat]
    BY <1>1, <2>1 DEF EraseBlock, Inv, ControlTypeOK
  <2>4. toErase' \in Seq(Block)
    BY <2>1 DEF Inv, ControlTypeOK
  <2>5. ControlTypeOK'
    BY <2>1, <2>3, <2>4 DEF Inv, ControlTypeOK, Pcs
  <2> QED
    BY <2>2, <2>5 DEF Inv
<1>4. QED
  BY <1>2, <1>3

-----------------------------------------------------------------------------
(* Refresh *)

(* The refresh event takes a list of layers off the queue. *)
LEMMA RefreshEventPreserves ==
    ASSUME Inv, NEW ls \in RefreshLists, RefreshEvent(ls)
    PROVE  Inv'
<1>1. ls \in Seq(Layer)
  <2>1. PICK n \in 0 .. MaxRefreshLayer : ls \in [1 .. n -> Layer]
    BY DEF RefreshLists
  <2>2. n \in Nat
    BY <2>1, PolicyAssumption
  <2> QED
    BY <2>1, <2>2, SeqDef
<1>2. MoveInv'
  BY MoveStutter DEF RefreshEvent, Inv, MoveInv, MoveTypeOK, wearVars
<1>3. ControlTypeOK'
  BY <1>1 DEF RefreshEvent, Inv, ControlTypeOK, wearVars, Pcs
<1>4. QED
  BY <1>2, <1>3 DEF Inv

(* Refresh copies the first valid page of the first layer. *)
LEMMA RefreshLayerPagePreserves ==
    ASSUME Inv, RefreshLayerPage
    PROVE  Inv'
<1> DEFINE b  == Head(layers)[1]
           ps == LayerPages(b, Head(layers)[2])
           p  == Min(ps)
           count == [refreshedPageCount EXCEPT ![b] = @ + Cardinality(ValidUnits(b, p))]
<1>1. b \in Block
  <2>1. Head(layers) \in Layer
    BY DEF RefreshLayerPage, Inv, ControlTypeOK
  <2> QED
    BY <2>1 DEF Layer
<1>2. p \in ValidPages(b)
  <2>1. ps \subseteq ValidPages(b) /\ ps # {}
    BY DEF RefreshLayerPage, LayerPages
  <2>2. ps \subseteq Nat
    BY <2>1 DEF ValidPages, PageIdx
  <2> QED
    BY <2>1, <2>2, MinOfNat
<1>3. count \in [Block -> Nat]
  <2>1. Cardinality(ValidUnits(b, p)) \in Nat
    <3>1. IsFiniteSet(Unit)
      BY SizesAssumption, FS_Interval DEF Unit
    <3>2. ValidUnits(b, p) \subseteq Unit
      BY DEF ValidUnits
    <3> QED
      BY <3>1, <3>2, FS_Subset, FS_CardinalityType
  <2> HIDE DEF b, p
  <2> QED
    BY <1>1, <2>1 DEF Inv, MoveInv, MoveTypeOK
<1>4. CASE CopyError(b, p) # NoPanic
  <2>1. Panic(CopyError(b, p))
    BY <1>4 DEF RefreshLayerPage
  <2> QED
    BY <2>1, CopyErrorType, PanicPreserves
<1>5. CASE CopyError(b, p) = NoPanic
  <2>1. CopyPage(b, p, count) /\ UNCHANGED <<eraseCount, controlVars, panic>>
    BY <1>5 DEF RefreshLayerPage
  <2>2. MoveInv'
    <3> HIDE DEF b, p, count
    <3> QED
      BY <1>1, <1>2, <1>3, <1>5, <2>1, CopyPagePreserves DEF Inv
  <2>3. ControlTypeOK'
    BY <2>1 DEF Inv, ControlTypeOK, controlVars
  <2> QED
    BY <2>2, <2>3 DEF Inv
<1>6. QED
  BY <1>4, <1>5

(* The steps of a refresh that copy nothing *)
LEMMA LayerRefreshedPreserves ==
    ASSUME Inv, LayerRefreshed \/ RefreshDone
    PROVE  Inv'
<1>1. /\ UNCHANGED <<table, blockVars, wearVars, freeVars, laneVars, bReclaimMore,
                     toReclaim, toErase, filled, panic>>
      /\ pc' \in {pc, "select", "idle"}
      /\ after' \in {after, "idle"}
      /\ layers' = layers \/ (layers # <<>> /\ layers' = Tail(layers))
  BY DEF LayerRefreshed, RefreshDone
<1>2. MoveInv'
  BY <1>1, MoveStutter DEF Inv, MoveInv, MoveTypeOK, wearVars
<1>3. layers' \in Seq(Layer)
  <2>1. layers \in Seq(Layer)
    BY DEF Inv, ControlTypeOK
  <2>2. CASE layers' = layers
    BY <2>1, <2>2
  <2>3. CASE layers # <<>> /\ layers' = Tail(layers)
    BY <2>1, <2>3
  <2> QED
    BY <1>1, <2>2, <2>3
<1>4. ControlTypeOK'
  BY <1>1, <1>3 DEF Inv, ControlTypeOK, wearVars, Pcs
<1>5. QED
  BY <1>2, <1>4 DEF Inv

-----------------------------------------------------------------------------
(* The specification *)

(* A formatted drive: nothing mapped, nothing valid, every page erased. *)
LEMMA InitInv == Init => Inv
<1> SUFFICES ASSUME Init
             PROVE  Inv
  OBVIOUS
<1>1. NL < NB /\ NL \in Nat \ {0} /\ NB \in Nat \ {0} /\ NP \in Nat \ {0}
  BY SizesAssumption, OverProvisionAssumption
<1>2. freeBlocks \in Seq(Block) /\ Len(freeBlocks) = NB - NL
  <2>1. freeBlocks \in [1 .. NB-NL -> Block] /\ NB-NL \in Nat
    BY <1>1 DEF Init, Block
  <2>2. freeBlocks \in Seq(Block)
    BY <2>1, SeqDef
  <2>3. DOMAIN freeBlocks = 1 .. NB-NL
    BY <2>1
  <2> QED
    BY <2>1, <2>2, <2>3, LenProperties
<1>3. MoveTypeOK
  <2>1. table \in [LPN -> [Unit -> Place \cup {NoPlace}]]
    BY DEF Init
  <2>2. blocks \subseteq Block /\ lastFreeBlock \in [Lane -> Block]
    BY <1>1 DEF Init, Lane, Block
  <2>3. /\ page \in [Block -> [PageIdx -> [Unit -> Content \cup {NoContent}]]]
        /\ erased \in [Block -> [Unit -> SUBSET PageIdx]]
    BY DEF Init
  <2>4. next \in [Block -> [Unit -> 0 .. NP]]
    BY <1>1 DEF Init
  <2>5. /\ refreshedPageCount \in [Block -> Nat]
        /\ nFreeBlocks \in Int
        /\ lastFreeBlockIndex \in Lane
        /\ lastFreeBlockIOMap \subseteq Unit
    BY <1>1 DEF Init, Lane
  <2>6. bReclaimMore \in BOOLEAN
    BY Zenon DEF Init
  <2> QED
    BY <1>2, <2>1, <2>2, <2>3, <2>4, <2>5, <2>6 DEF MoveTypeOK
<1>4. FreeCount
  BY <1>2 DEF Init, FreeCount
<1>5. MappingConsistent
  <2>1. \A l \in LPN, u \in Unit : table[l][u] = NoPlace
    BY DEF Init
  <2>2. \A b \in Block, p \in PageIdx, u \in Unit : page[b][p][u] = NoContent
    BY DEF Init
  <2> QED
    BY <2>1, <2>2 DEF MappingConsistent, TableSound, PagesReachable
<1>6. WriteFrontier
  <2>1. \A b \in Block, u \in Unit :
           /\ erased[b][u] = PageIdx
           /\ next[b][u] = 0
           /\ \A p \in PageIdx : page[b][p][u] = NoContent
    BY DEF Init
  <2>2. PageIdx = {p \in PageIdx : p >= 0}
    BY DEF PageIdx
  <2> QED
    BY <2>1, <2>2 DEF WriteFrontier
<1>7. ControlTypeOK
  BY DEF Init, ControlTypeOK, Pcs, Messages, NoPanic
<1>8. QED
  BY <1>3, <1>4, <1>5, <1>6, <1>7 DEF Inv, MoveInv

(* No step of any handler breaks the invariant. *)
LEMMA NextInv == Inv /\ [Next]_vars => Inv'
<1> SUFFICES ASSUME Inv, [Next]_vars
             PROVE  Inv'
  OBVIOUS
<1>1. ASSUME NEW l \in LPN, NEW d \in Data, Fill(l, d)
      PROVE  Inv'
  BY <1>1, FillPreserves
<1>2. ASSUME NEW l \in LPN, NEW io \in IOMaps, NEW d \in Data, Write(l, io, d)
      PROVE  Inv'
  BY <1>2, WritePreserves
<1>3. ASSUME NEW l \in LPN, NEW io \in IOMaps, Read(l, io)
      PROVE  Inv'
  BY <1>3, ReadPreserves
<1>4. ASSUME NEW l \in LPN, Trim(l)
      PROVE  Inv'
  BY <1>4, TrimPreserves
<1>5. ASSUME NEW range \in FormatRanges, Format(range)
      PROVE  Inv'
  BY <1>5, FormatPreserves
<1>6. CASE GCStep
  BY <1>6, SelectPreserves, CopyVictimPagePreserves, VictimCopiedPreserves,
     EraseInternalPreserves DEF GCStep
<1>7. ASSUME NEW ls \in RefreshLists, RefreshEvent(ls)
      PROVE  Inv'
  BY <1>7, RefreshEventPreserves
<1>8. CASE RefreshLayerPage \/ LayerRefreshed \/ RefreshDone
  BY <1>8, RefreshLayerPagePreserves, LayerRefreshedPreserves
<1>9. CASE UNCHANGED vars
  <2>1. MoveInv'
    BY <1>9, MoveStutter DEF Inv, MoveInv, MoveTypeOK, vars, wearVars
  <2>2. ControlTypeOK'
    BY <1>9 DEF Inv, ControlTypeOK, vars, wearVars, controlVars
  <2> QED
    BY <2>1, <2>2 DEF Inv
<1>10. QED
  BY <1>1, <1>2, <1>3, <1>4, <1>5, <1>6, <1>7, <1>8, <1>9
     DEF Next, HostStep, RefreshStep

(* The conjunction of types, counter, mapping and write frontier is        *)
(* inductive, for every configuration the constructor of the FTL accepts.  *)
THEOREM Invariance == Spec => []Inv
<1>1. QED
  BY InitInv, NextInv, PTL DEF Spec

(* Every variable keeps its type, in particular no write pointer passes    *)
(* the end of its block and no lane index the number of lanes.             *)
THEOREM TypeCorrect == Spec => []TypeOK
<1>1. Inv => TypeOK
  BY DEF Inv, MoveInv, MoveTypeOK, ControlTypeOK, TypeOK
<1>2. QED
  BY <1>1, Invariance, PTL

(* The mapping table and the valid bits of the blocks stay inverse to each *)
(* other through writes, trims, formats, garbage collection, refresh and   *)
(* the erase of victims.                                                   *)
THEOREM MappingAlwaysConsistent == Spec => []MappingConsistent
<1>1. Inv => MappingConsistent
  BY DEF Inv, MoveInv
<1>2. QED
  BY <1>1, Invariance, PTL

(* Pages are programmed in order and only when erased. *)
THEOREM FrontierKept == Spec => []WriteFrontier
<1>1. Inv => WriteFrontier
  BY DEF Inv, MoveInv
<1>2. QED
  BY <1>1, Invariance, PTL

-----------------------------------------------------------------------------
(* The layer implements the logical store: what a host reads changes only  *)
(* by its own writes, trims and formats.                                   *)

(* A unit of the table and the datum the host reads there *)
LEMMA ContentAt ==
    ASSUME NEW l \in LPN, NEW u \in Unit
    PROVE  LogicalContent[l][u] = IF table[l][u] = NoPlace THEN NoContent.data
                ELSE page[table[l][u][1]][table[l][u][2]][u].data
BY DEF LogicalContent

(* The same, after a step *)
LEMMA ContentAtNext ==
    ASSUME NEW l \in LPN, NEW u \in Unit
    PROVE  LogicalContent'[l][u] = IF table'[l][u] = NoPlace THEN NoContent.data
                ELSE page'[table'[l][u][1]][table'[l][u][2]][u].data
<1> DEFINE G(k, v) == IF table'[k][v] = NoPlace THEN NoContent.data
                      ELSE page'[table'[k][v][1]][table'[k][v][2]][v].data
<1>1. LogicalContent' = [k \in LPN |-> [v \in Unit |-> G(k, v)]]
  BY Zenon DEF LogicalContent
<1> HIDE DEF G
<1>2. LogicalContent'[l][u] = G(l, u)
  BY ONLY <1>1, l \in LPN, u \in Unit, Zenon
<1>3. QED
  BY ONLY <1>2 DEF G

(* Two contents are the same when they agree on every unit. *)
LEMMA ContentEqual ==
    ASSUME \A l \in LPN, u \in Unit : LogicalContent'[l][u] = LogicalContent[l][u]
    PROVE  LogicalContent' = LogicalContent
<1> DEFINE F == [l \in LPN |-> [u \in Unit |->
                  IF table[l][u] = NoPlace THEN NoContent.data
                  ELSE page[table[l][u][1]][table[l][u][2]][u].data]]
           G == [l \in LPN |-> [u \in Unit |->
                  IF table'[l][u] = NoPlace THEN NoContent.data
                  ELSE page'[table'[l][u][1]][table'[l][u][2]][u].data]]
<1>1. LogicalContent = F /\ LogicalContent' = G
  BY Zenon DEF LogicalContent
<1>2. \A l \in LPN, u \in Unit : G[l][u] = F[l][u]
  BY <1>1
<1>3. \A l \in LPN : G[l] = F[l]
  BY <1>2
<1>4. G = F
  BY <1>3
<1>5. QED
  BY <1>1, <1>4

(* A step that keeps the table and the pages keeps what is read. *)
LEMMA ContentStutter ==
    ASSUME UNCHANGED <<table, page>>
    PROVE  LogicalContent' = LogicalContent
BY DEF LogicalContent

(* After a move the units that moved hold what was programmed, and the     *)
(* others what they held: programming overwrites no valid page, since the  *)
(* page was erased, and invalidates only the old places of the units.      *)
LEMMA MoveContent ==
    ASSUME MoveInv, NEW io \in IOMaps, LaneError(io) = NoPanic,
           NEW old, NEW new, NEW count \in [Block -> Nat],
           \A u \in io : new[u] \in Content /\ old[u] = table[new[u].lpn][u],
           Program(io, old, new), GetLastFreeBlock(io, count),
           NEW l \in LPN, NEW u \in Unit
    PROVE  LogicalContent'[l][u] = IF u \in io /\ new[u].lpn = l THEN new[u].data
                                   ELSE LogicalContent[l][u]
<1> DEFINE b == Target(io)
<1>1. /\ b \in Block
      /\ \A v \in io : next[b][v] \in PageIdx
  BY TargetProperties DEF MoveInv
<1>2. /\ \A c \in Block, p \in PageIdx :
            page'[c][p][u] = IF u \in io /\ c = b /\ p = next[b][u] THEN new[u]
                             ELSE IF u \in io /\ old[u] = <<c, p>> THEN NoContent
                             ELSE page[c][p][u]
      /\ table'[l][u] = IF u \in io /\ new[u].lpn = l THEN <<b, next[b][u]>>
                        ELSE table[l][u]
  BY DEF Program
<1> HIDE DEF b
<1>3. CASE u \in io /\ new[u].lpn = l
  <2>1. table'[l][u] = <<b, next[b][u]>> /\ next[b][u] \in PageIdx
    BY <1>1, <1>2, <1>3
  <2>2. table'[l][u] # NoPlace /\ table'[l][u][1] = b /\ table'[l][u][2] = next[b][u]
    BY <1>1, <2>1, SizesAssumption DEF NoPlace, Block
  <2>3. page'[b][next[b][u]][u] = new[u]
    BY <1>1, <1>2, <1>3
  <2> QED
    BY <1>3, <2>2, <2>3, ContentAtNext
<1>4. CASE ~(u \in io /\ new[u].lpn = l) /\ table[l][u] = NoPlace
  BY <1>2, <1>4, ContentAt, ContentAtNext
<1>5. CASE ~(u \in io /\ new[u].lpn = l) /\ table[l][u] # NoPlace
  <2>1. PICK c \in Block, p \in PageIdx : table[l][u] = <<c, p>>
    BY <1>5 DEF MoveInv, MoveTypeOK, Place
  <2>2. table'[l][u] = table[l][u] /\ table[l][u][1] = c /\ table[l][u][2] = p
    BY <1>2, <1>5, <2>1
  <2>3. page[c][p][u].lpn = l
    BY <1>5, <2>2 DEF MoveInv, MappingConsistent, TableSound
  <2>4. page[c][p][u] # NoContent
    BY <2>3 DEF NoContent, LPN
  <2>5. p < next[c][u]
    BY <2>4 DEF MoveInv, WriteFrontier
  <2>6. ~(u \in io /\ c = b /\ p = next[b][u])
    BY <1>1, <2>5 DEF PageIdx
  <2>7. ~(u \in io /\ old[u] = <<c, p>>)
    <3> SUFFICES ASSUME u \in io, old[u] = <<c, p>>
                 PROVE  FALSE
      OBVIOUS
    <3>1. new[u].lpn \in LPN /\ table[new[u].lpn][u] = <<c, p>>
      BY DEF Content
    <3>2. table[new[u].lpn][u] # NoPlace
      BY <1>5, <2>1, <3>1
    <3>3. table[new[u].lpn][u][1] = c /\ table[new[u].lpn][u][2] = p
      BY <3>1
    <3>4. page[c][p][u].lpn = new[u].lpn
      BY <3>1, <3>2, <3>3 DEF MoveInv, MappingConsistent, TableSound
    <3> QED
      BY <1>5, <2>3, <3>4
  <2>8. page'[c][p][u] = page[c][p][u]
    BY <1>2, <2>6, <2>7
  <2>9. LogicalContent[l][u] = page[c][p][u].data
    BY <1>5, <2>2, ContentAt
  <2>10. table'[l][u] # NoPlace /\ table'[l][u][1] = c /\ table'[l][u][2] = p
    BY <1>5, <2>2
  <2>11. LogicalContent'[l][u] = page'[c][p][u].data
    BY <2>10, ContentAtNext
  <2> QED
    BY <1>5, <2>8, <2>9, <2>11
<1>6. QED
  BY <1>3, <1>4, <1>5

(* A host write changes exactly the units it names. *)
LEMMA WriteUnitsContent ==
    ASSUME Inv, NEW l \in LPN, NEW io \in IOMaps, NEW d \in Data,
           WriteError(l, io) = NoPanic, WriteUnits(l, io, d)
    PROVE  Store!Next
<1> DEFINE new == [u \in Unit |-> [lpn |-> l, data |-> d]]
<1>1. LaneError(io) = NoPanic
  BY DEF WriteError, NoPanic
<1>2. \A u \in io : new[u] \in Content /\ table[l][u] = table[new[u].lpn][u]
  BY DEF IOMaps, Content
<1>3. Program(io, table[l], new) /\ GetLastFreeBlock(io, refreshedPageCount)
  BY DEF WriteUnits
<1>4. MoveInv /\ refreshedPageCount \in [Block -> Nat]
  BY DEF Inv, MoveInv, MoveTypeOK
<1>5. \A u \in Unit : new[u].lpn = l /\ new[u].data = d
  OBVIOUS
<1> HIDE DEF new
<1>6. \A k \in LPN, u \in Unit :
         LogicalContent'[k][u] = IF u \in io /\ new[u].lpn = k THEN new[u].data
                                 ELSE LogicalContent[k][u]
  BY <1>1, <1>2, <1>3, <1>4, MoveContent
<1>7. \A k \in LPN, u \in Unit :
         LogicalContent'[k][u] = IF k = l /\ u \in io THEN d ELSE LogicalContent[k][u]
  BY <1>5, <1>6
<1>8. Store!Write(l, io, d)
  <2> DEFINE W == [LogicalContent EXCEPT ![l] = [u \in Unit |-> IF u \in io THEN d ELSE @[u]]]
  <2>1. DOMAIN LogicalContent = LPN /\ DOMAIN LogicalContent' = LPN
    BY DEF LogicalContent
  <2>2. \A k \in LPN : DOMAIN LogicalContent[k] = Unit /\ DOMAIN LogicalContent'[k] = Unit
    BY DEF LogicalContent
  <2>3. \A k \in LPN : LogicalContent'[k] = W[k]
    <3> TAKE k \in LPN
    <3>1. CASE k = l
      <4>1. W[k] = [u \in Unit |-> IF u \in io THEN d ELSE LogicalContent[k][u]]
        BY <2>1, <3>1
      <4>2. LogicalContent'[k] = [u \in Unit |-> LogicalContent'[k][u]]
        BY DEF LogicalContent
      <4> QED
        BY <1>7, <3>1, <4>1, <4>2
    <3>2. CASE k # l
      <4>1. W[k] = LogicalContent[k]
        BY <2>1, <3>2
      <4>2. LogicalContent'[k] = [u \in Unit |-> LogicalContent'[k][u]]
        BY DEF LogicalContent
      <4>3. LogicalContent[k] = [u \in Unit |-> LogicalContent[k][u]]
        BY DEF LogicalContent
      <4> QED
        BY <1>7, <3>2, <4>1, <4>2, <4>3
    <3> QED
      BY <3>1, <3>2
  <2>4. LogicalContent' = [k \in LPN |-> LogicalContent'[k]]
    BY DEF LogicalContent
  <2>5. W = [k \in LPN |-> W[k]]
    BY <2>1
  <2> HIDE DEF W
  <2>6. LogicalContent' = W
    BY <2>3, <2>4, <2>5
  <2> QED
    BY <2>6 DEF W, Store!Write
<1>9. QED
  BY <1>8 DEF Store!Next, IOMaps

(* A copied page is read as before. *)
LEMMA CopyPageContent ==
    ASSUME MoveInv, NEW b \in Block, NEW p \in ValidPages(b),
           NEW count \in [Block -> Nat],
           CopyError(b, p) = NoPanic, CopyPage(b, p, count)
    PROVE  LogicalContent' = LogicalContent
<1> DEFINE io  == ValidUnits(b, p)
           old == [u \in Unit |-> <<b, p>>]
<1>1. p \in PageIdx /\ io \in IOMaps
  BY DEF ValidPages, ValidUnits, IOMaps
<1>2. LaneError(io) = NoPanic
  BY DEF CopyError, NoPanic
<1>3. \A u \in io : /\ page[b][p][u] \in Content
                    /\ table[page[b][p][u].lpn][u] = <<b, p>>
                    /\ old[u] = <<b, p>>
  <2> TAKE u \in io
  <2>1. u \in Unit /\ page[b][p][u] # NoContent
    BY DEF ValidUnits
  <2>2. page[b][p][u] \in Content
    BY <1>1, <2>1 DEF MoveInv, MoveTypeOK
  <2>3. table[page[b][p][u].lpn][u] = <<b, p>>
    BY <1>1, <2>1 DEF MoveInv, MappingConsistent, PagesReachable
  <2> QED
    BY <2>1, <2>2, <2>3
<1>4. Program(io, old, page[b][p]) /\ GetLastFreeBlock(io, count)
  BY DEF CopyPage
<1> HIDE DEF io, old
<1>5. \A l \in LPN, u \in Unit :
         LogicalContent'[l][u] = IF u \in io /\ page[b][p][u].lpn = l THEN page[b][p][u].data
                                 ELSE LogicalContent[l][u]
  <2> DEFINE new == page[b][p]
  <2>1. \A u \in io : new[u] \in Content /\ old[u] = table[new[u].lpn][u]
    BY <1>3
  <2>2. Program(io, old, new)
    BY <1>4
  <2> HIDE DEF new
  <2>3. \A l \in LPN, u \in Unit :
           LogicalContent'[l][u] = IF u \in io /\ new[u].lpn = l THEN new[u].data
                                   ELSE LogicalContent[l][u]
    BY <1>1, <1>2, <1>4, <2>1, <2>2, MoveContent
  <2> QED
    BY <2>3 DEF new
<1>6. ASSUME NEW l \in LPN, NEW u \in Unit, u \in io, page[b][p][u].lpn = l
      PROVE  LogicalContent[l][u] = page[b][p][u].data
  <2>1. table[l][u] = <<b, p>>
    BY <1>3, <1>6
  <2>2. table[l][u] # NoPlace /\ table[l][u][1] = b /\ table[l][u][2] = p
    BY <2>1, SizesAssumption DEF NoPlace, Block
  <2> QED
    BY <2>2, ContentAt
<1>7. QED
  BY <1>5, <1>6, ContentEqual

(* After a trim or a format the pages of the set read as never written,    *)
(* the others as before.                                                   *)
LEMMA ForgetContent ==
    ASSUME MoveInv, NEW lpns \in SUBSET LPN, Forget(lpns), NEW l \in LPN, NEW u \in Unit
    PROVE  LogicalContent'[l][u] = IF l \in lpns THEN NoContent.data
                                   ELSE LogicalContent[l][u]
<1>1. /\ \A b \in Block, p \in PageIdx :
            page'[b][p][u] = IF \E k \in lpns : table[k][u] = <<b, p>> THEN NoContent
                             ELSE page[b][p][u]
      /\ table'[l][u] = IF l \in lpns THEN NoPlace ELSE table[l][u]
  BY DEF Forget, MoveInv, MoveTypeOK
<1>2. CASE l \in lpns \/ table[l][u] = NoPlace
  BY <1>1, <1>2, ContentAt, ContentAtNext
<1>3. CASE l \notin lpns /\ table[l][u] # NoPlace
  <2>1. PICK b \in Block, p \in PageIdx : table[l][u] = <<b, p>>
    BY <1>3 DEF MoveInv, MoveTypeOK, Place
  <2>2. table'[l][u] = table[l][u] /\ table[l][u][1] = b /\ table[l][u][2] = p
    BY <1>1, <1>3, <2>1
  <2>3. page[b][p][u].lpn = l
    BY <1>3, <2>2 DEF MoveInv, MappingConsistent, TableSound
  <2>4. ~ \E k \in lpns : table[k][u] = <<b, p>>
    <3> SUFFICES ASSUME NEW k \in lpns, table[k][u] = <<b, p>>
                 PROVE  k = l
      BY <1>3
    <3>1. table[k][u] # NoPlace
      BY <1>3, <2>1
    <3>2. table[k][u][1] = b /\ table[k][u][2] = p
      OBVIOUS
    <3>3. page[b][p][u].lpn = k
      BY <3>1, <3>2 DEF MoveInv, MappingConsistent, TableSound
    <3> QED
      BY <2>3, <3>3
  <2>5. page'[b][p][u] = page[b][p][u]
    BY <1>1, <2>4
  <2>6. LogicalContent[l][u] = page[b][p][u].data
    BY <1>3, <2>2, ContentAt
  <2>7. table'[l][u] # NoPlace /\ table'[l][u][1] = b /\ table'[l][u][2] = p
    BY <1>3, <2>2
  <2>8. LogicalContent'[l][u] = page'[b][p][u].data
    BY <2>7, ContentAtNext
  <2> QED
    BY <1>3, <2>5, <2>6, <2>8
<1>4. QED
  BY <1>2, <1>3

(* Trimming a page or formatting a range is the same operation of the      *)
(* logical store.                                                          *)
LEMMA ForgetIsFormat ==
    ASSUME MoveInv, NEW lpns \in SUBSET LPN, Forget(lpns)
    PROVE  LogicalContent' = [l \in LPN |-> IF l \in lpns THEN [u \in Unit |-> NoContent.data]
                                            ELSE LogicalContent[l]]
<1>1. \A l \in LPN, u \in Unit :
         LogicalContent'[l][u] = IF l \in lpns THEN NoContent.data ELSE LogicalContent[l][u]
  BY ForgetContent
<1>2. LogicalContent' = [l \in LPN |-> LogicalContent'[l]]
  BY DEF LogicalContent
<1>3. \A l \in LPN : LogicalContent'[l] = IF l \in lpns THEN [u \in Unit |-> NoContent.data]
                                           ELSE LogicalContent[l]
  <2> TAKE l \in LPN
  <2>1. LogicalContent'[l] = [u \in Unit |-> LogicalContent'[l][u]]
    BY DEF LogicalContent
  <2>2. LogicalContent[l] = [u \in Unit |-> LogicalContent[l][u]]
    BY DEF LogicalContent
  <2> QED
    BY <1>1, <2>1, <2>2
<1>4. QED
  BY <1>2, <1>3

-----------------------------------------------------------------------------
(* Every step is a step of the store or stutters there *)

(* The initial drive is the blank store. *)
LEMMA InitRefines == Init => Store!Init
<1> SUFFICES ASSUME Init
             PROVE  Store!Init
  OBVIOUS
<1>1. \A l \in LPN, u \in Unit : table[l][u] = NoPlace
  BY DEF Init
<1>2. LogicalContent = [l \in LPN |-> [u \in Unit |-> NoContent.data]]
  BY <1>1 DEF LogicalContent
<1>3. QED
  BY <1>2 DEF Store!Init, Store!Blank

(* A trim is the trim of the store. *)
LEMMA TrimRefines ==
    ASSUME Inv, NEW l \in LPN, Trim(l)
    PROVE  Store!Next \/ LogicalContent' = LogicalContent
<1>1. CASE ForgetError({l}) # NoPanic
  BY <1>1, ContentStutter DEF Trim, Panic, blockVars
<1>2. CASE ForgetError({l}) = NoPanic
  <2>1. MoveInv /\ {l} \in SUBSET LPN /\ Forget({l})
    BY <1>2 DEF Trim, Inv
  <2>2. LogicalContent' = [k \in LPN |-> IF k \in {l} THEN [u \in Unit |-> NoContent.data]
                                         ELSE LogicalContent[k]]
    BY <2>1, ForgetIsFormat
  <2>3. LogicalContent = [k \in LPN |-> LogicalContent[k]]
    BY DEF LogicalContent
  <2>4. LogicalContent' = [LogicalContent EXCEPT ![l] = [u \in Unit |-> NoContent.data]]
    BY <2>2, <2>3
  <2> QED
    BY <2>4 DEF Store!Next, Store!Trim, Store!Blank
<1>3. QED
  BY <1>1, <1>2

(* A format is the format of the store. *)
LEMMA FormatRefines ==
    ASSUME Inv, NEW range \in FormatRanges, Format(range)
    PROVE  Store!Next \/ LogicalContent' = LogicalContent
<1>1. CASE ForgetError(range) # NoPanic
  BY <1>1, ContentStutter DEF Format, Panic, blockVars
<1>2. CASE ForgetError(range) = NoPanic
  <2>1. MoveInv /\ range \in SUBSET LPN /\ Forget(range)
    BY <1>2, SizesAssumption DEF Format, Inv
  <2>2. LogicalContent' = [k \in LPN |-> IF k \in range THEN [u \in Unit |-> NoContent.data]
                                         ELSE LogicalContent[k]]
    BY <2>1, ForgetIsFormat
  <2> QED
    BY <2>2 DEF Store!Next, Store!Format, Store!Blank
<1>3. QED
  BY <1>1, <1>2

(* The copy of a victim's page is invisible. *)
LEMMA CopyVictimRefines ==
    ASSUME Inv, CopyVictimPage
    PROVE  LogicalContent' = LogicalContent
<1> DEFINE b == Head(toReclaim)
           p == Min(ValidPages(b))
<1>1. b \in Block
  BY DEF CopyVictimPage, Inv, ControlTypeOK
<1>2. p \in ValidPages(b)
  <2>1. ValidPages(b) \subseteq Nat /\ ValidPages(b) # {}
    BY DEF CopyVictimPage, ValidPages, PageIdx
  <2> QED
    BY <2>1, MinOfNat
<1>3. CASE b \notin blocks \/ CopyError(b, p) # NoPanic
  BY <1>3, ContentStutter DEF CopyVictimPage, Panic, blockVars
<1>4. CASE b \in blocks /\ CopyError(b, p) = NoPanic
  <2>1. CopyPage(b, p, refreshedPageCount)
    BY <1>4 DEF CopyVictimPage
  <2>2. MoveInv /\ refreshedPageCount \in [Block -> Nat]
    BY DEF Inv, MoveInv, MoveTypeOK
  <2> HIDE DEF b, p
  <2> QED
    BY <1>1, <1>2, <1>4, <2>1, <2>2, CopyPageContent
<1>5. QED
  BY <1>3, <1>4

(* The copy of a refreshed page is invisible. *)
LEMMA RefreshPageRefines ==
    ASSUME Inv, RefreshLayerPage
    PROVE  LogicalContent' = LogicalContent
<1> DEFINE b  == Head(layers)[1]
           ps == LayerPages(b, Head(layers)[2])
           p  == Min(ps)
           count == [refreshedPageCount EXCEPT ![b] = @ + Cardinality(ValidUnits(b, p))]
<1>1. b \in Block
  <2>1. Head(layers) \in Layer
    BY DEF RefreshLayerPage, Inv, ControlTypeOK
  <2> QED
    BY <2>1 DEF Layer
<1>2. p \in ValidPages(b)
  <2>1. ps \subseteq ValidPages(b) /\ ps # {}
    BY DEF RefreshLayerPage, LayerPages
  <2>2. ps \subseteq Nat
    BY <2>1 DEF ValidPages, PageIdx
  <2> QED
    BY <2>1, <2>2, MinOfNat
<1>3. count \in [Block -> Nat]
  <2>1. Cardinality(ValidUnits(b, p)) \in Nat
    <3>1. IsFiniteSet(Unit)
      BY SizesAssumption, FS_Interval DEF Unit
    <3>2. ValidUnits(b, p) \subseteq Unit
      BY DEF ValidUnits
    <3> QED
      BY <3>1, <3>2, FS_Subset, FS_CardinalityType
  <2> HIDE DEF b, p
  <2> QED
    BY <1>1, <2>1 DEF Inv, MoveInv, MoveTypeOK
<1>4. CASE CopyError(b, p) # NoPanic
  BY <1>4, ContentStutter DEF RefreshLayerPage, Panic, blockVars
<1>5. CASE CopyError(b, p) = NoPanic
  <2>1. CopyPage(b, p, count)
    BY <1>5 DEF RefreshLayerPage
  <2>2. MoveInv
    BY DEF Inv
  <2> HIDE DEF b, p, count
  <2> QED
    BY <1>1, <1>2, <1>3, <1>5, <2>1, <2>2, CopyPageContent
<1>6. QED
  BY <1>4, <1>5

(* An erased victim held no valid page. *)
LEMMA EraseRefines ==
    ASSUME Inv, EraseInternal
    PROVE  LogicalContent' = LogicalContent
<1> DEFINE b == Head(toErase)
<1>1. b \in Block
  BY DEF EraseInternal, Inv, ControlTypeOK
<1>2. CASE EraseError(b) # NoPanic
  BY <1>2, ContentStutter DEF EraseInternal, Panic, blockVars
<1>3. CASE EraseError(b) = NoPanic
  <2>1. EraseBlock(b) /\ UNCHANGED table
    BY <1>3 DEF EraseInternal
  <2>2. ValidPages(b) = {}
    BY <1>3 DEF EraseError, NoPanic
  <2>3. \A p \in PageIdx, u \in Unit : page[b][p][u] = NoContent
    BY <2>2 DEF ValidPages, ValidUnits
  <2>4. page \in [Block -> [PageIdx -> [Unit -> Content \cup {NoContent}]]]
    BY DEF Inv, MoveInv, MoveTypeOK
  <2> HIDE DEF b
  <2>5. page[b] = [p \in PageIdx |-> [u \in Unit |-> NoContent]]
    BY <1>1, <2>3, <2>4
  <2>6. page' = page
    BY <1>1, <2>1, <2>4, <2>5 DEF EraseBlock
  <2> QED
    BY <2>1, <2>6, ContentStutter
<1>4. QED
  BY <1>2, <1>3

(* A write or a write of the initial fill is a write of the store. *)
LEMMA WriteRefines ==
    ASSUME Inv, NEW l \in LPN, NEW io \in IOMaps, NEW d \in Data,
           Write(l, io, d) \/ (Fill(l, d) /\ io = Unit)
    PROVE  Store!Next \/ LogicalContent' = LogicalContent
<1>1. CASE WriteError(l, io) # NoPanic
  <2>1. UNCHANGED <<table, page>>
    BY <1>1 DEF Write, Fill, Panic, blockVars
  <2> QED
    BY <2>1, ContentStutter
<1>2. CASE WriteError(l, io) = NoPanic
  <2>1. WriteUnits(l, io, d)
    BY <1>2 DEF Write, Fill
  <2> QED
    BY <1>2, <2>1, WriteUnitsContent
<1>3. QED
  BY <1>1, <1>2

(* Every step of the layer is a step of the store or stutters there. *)
LEMMA NextRefines == Inv /\ [Next]_vars => [Store!Next]_LogicalContent
<1> SUFFICES ASSUME Inv, [Next]_vars
             PROVE  Store!Next \/ LogicalContent' = LogicalContent
  OBVIOUS
<1>1. ASSUME NEW l \in LPN, NEW d \in Data, Fill(l, d)
      PROVE  Store!Next \/ LogicalContent' = LogicalContent
  <2>1. Unit \in IOMaps
    BY UnitIsIOMap
  <2> QED
    BY <1>1, <2>1, WriteRefines
<1>2. ASSUME NEW l \in LPN, NEW io \in IOMaps, NEW d \in Data, Write(l, io, d)
      PROVE  Store!Next \/ LogicalContent' = LogicalContent
  BY <1>2, WriteRefines
<1>3. ASSUME NEW l \in LPN, NEW io \in IOMaps, Read(l, io)
      PROVE  LogicalContent' = LogicalContent
  <2>1. UNCHANGED <<table, page>>
    BY <1>3 DEF Read, Panic, vars, blockVars
  <2> QED
    BY <2>1, ContentStutter
<1>4. ASSUME NEW l \in LPN, Trim(l)
      PROVE  Store!Next \/ LogicalContent' = LogicalContent
  BY <1>4, TrimRefines
<1>5. ASSUME NEW range \in FormatRanges, Format(range)
      PROVE  Store!Next \/ LogicalContent' = LogicalContent
  BY <1>5, FormatRefines
<1>6. CASE SelectVictimBlock
  <2>1. UNCHANGED <<table, page>>
    BY <1>6, Zenon DEF SelectVictimBlock, Hang, Panic, blockVars
  <2> QED
    BY <2>1, ContentStutter
<1>7. CASE CopyVictimPage \/ RefreshLayerPage \/ EraseInternal
  BY <1>7, CopyVictimRefines, RefreshPageRefines, EraseRefines
<1>8. CASE VictimCopied
  <2>1. UNCHANGED <<table, page>>
    BY <1>8 DEF VictimCopied, Panic, blockVars
  <2> QED
    BY <2>1, ContentStutter
<1>9. ASSUME NEW ls \in RefreshLists, RefreshEvent(ls)
      PROVE  LogicalContent' = LogicalContent
  BY <1>9, ContentStutter DEF RefreshEvent, blockVars
<1>10. CASE LayerRefreshed \/ RefreshDone
  <2>1. UNCHANGED <<table, page>>
    BY <1>10 DEF LayerRefreshed, RefreshDone, blockVars
  <2> QED
    BY <2>1, ContentStutter
<1>11. CASE UNCHANGED vars
  BY <1>11, ContentStutter DEF vars, blockVars
<1>12. QED
  BY <1>1, <1>2, <1>3, <1>4, <1>5, <1>6, <1>7, <1>8, <1>9, <1>10, <1>11
     DEF Next, HostStep, GCStep, RefreshStep

(* The flash translation layer implements the logical store: garbage       *)
(* collection, refresh, wear levelling and the rotation of the lanes never *)
(* change what the host reads, and its own operations change exactly what  *)
(* they name.                                                              *)
THEOREM ImplementsStore == Spec => RefinesStore
<1>1. QED
  BY InitRefines, NextRefines, Invariance, PTL DEF Spec, RefinesStore, Store!Spec

(* A step of garbage collection or of a refresh leaves the contents alone. *)
LEMMA InternalKeeps ==
    Inv /\ [Next]_vars => [pc \notin {"idle", "fill"} => UNCHANGED LogicalContent]_vars
<1> SUFFICES ASSUME Inv, Next, pc \notin {"idle", "fill"}
             PROVE  LogicalContent' = LogicalContent
  OBVIOUS
<1>1. GCStep \/ RefreshLayerPage \/ LayerRefreshed \/ RefreshDone
  BY DEF Next, HostStep, RefreshStep, Fill, Write, Read, Trim, Format, RefreshEvent
<1>2. CASE SelectVictimBlock
  <2>1. UNCHANGED <<table, page>>
    BY <1>2, Zenon DEF SelectVictimBlock, Hang, Panic, blockVars
  <2> QED
    BY <2>1, ContentStutter
<1>3. CASE CopyVictimPage \/ RefreshLayerPage \/ EraseInternal
  BY <1>3, CopyVictimRefines, RefreshPageRefines, EraseRefines
<1>4. CASE VictimCopied \/ LayerRefreshed \/ RefreshDone
  <2>1. UNCHANGED <<table, page>>
    BY <1>4 DEF VictimCopied, LayerRefreshed, RefreshDone, Panic, blockVars
  <2> QED
    BY <2>1, ContentStutter
<1>5. QED
  BY <1>1, <1>2, <1>3, <1>4 DEF GCStep

(* Garbage collection, refresh and wear levelling are invisible: for every *)
(* geometry and policy, no step of a handler behind a host operation or    *)
(* the refresh timer changes what a read returns.                          *)
THEOREM ContentAlwaysKept == Spec => ContentKept
<1>1. QED
  BY InternalKeeps, Invariance, PTL DEF Spec, ContentKept

-----------------------------------------------------------------------------
(* What the allocation of blocks promises: the free list is exact and in   *)
(* order of wear, victims stay in use until they are erased, and the       *)
(* checks of the code against a corrupted drive do not fire, or only for a *)
(* known reason.                                                           *)

-----------------------------------------------------------------------------
(* The inductive invariant, on top of Inv *)

(* The free list is in order of wear. *)
FreeSorted ==
    \A i, j \in DOMAIN freeBlocks :
        i < j => eraseCount[freeBlocks[i]] <= eraseCount[freeBlocks[j]]

(* The victims of a garbage collection are different blocks in use. *)
VictimsInUse ==
    pc \in {"copy", "erase"} =>
        /\ IsInjective(toReclaim) /\ IsInjective(toErase)
        /\ Range(toReclaim) \cap Range(toErase) = {}
        /\ Range(toReclaim) \cup Range(toErase) \subseteq blocks

(* The write pointers of the blocks, when all units have the same, and the *)
(* pages below them                                                        *)
Pointer == [b \in Block |-> next[b][0]]

Below(pointer) == {x \in Block \X PageIdx : x[2] < pointer[x[1]]}

(* While initialize() fills the drive no block is returned, a lane leaves  *)
(* its block only when it is full, and one page is programmed per write.   *)
FillShape ==
    /\ Cardinality(Below(Pointer)) = filled
    /\ Cardinality(blocks) + nFreeBlocks = NB
    /\ \A b \in Block, u \in Unit : next[b][u] = Pointer[b]
    /\ \A b \in blocks \ Range(lastFreeBlock) : Pointer[b] = NP

FillCounted == pc = "fill" => filled < FillTotal /\ FillShape

(* The checks of the code that never fire. *)
Corruptions == {"FreeBlockInUse", "WriteToNonErasedPage", "DanglingMapping",
                "InvalidMappingEntry", "InvalidBlock", "NoSuchBlock",
                "GCInInitialization"}

NoCorruption == panic \notin Corruptions

SafetyInv == FreeListExact /\ FreeSorted /\ VictimsInUse /\ FillCounted /\ NoCorruption

-----------------------------------------------------------------------------
(* Allocation and return of a block *)

(* A block from the free list is in no other place. *)
LEMMA FreeNotInUse ==
    ASSUME FreeListExact, NEW b \in Block, b \in Range(freeBlocks)
    PROVE  b \notin blocks /\ ~(eraseCount[b] >= BadBlock)
BY DEF FreeListExact

(* The block of a position of the free list *)
LEMMA FreeBlockAt ==
    ASSUME freeBlocks \in Seq(Block), NEW i \in 1 .. Len(freeBlocks)
    PROVE  freeBlocks[i] \in Block /\ freeBlocks[i] \in Range(freeBlocks)
<1>1. freeBlocks[i] \in Block
  BY ElementOfSeq
<1>2. \A x : x \in Range(freeBlocks) <=> \E j \in 1 .. Len(freeBlocks) : freeBlocks[j] = x
  BY MembersOfSeq
<1>3. QED
  BY <1>1, <1>2

(* getLastFreeBlock() and the write behind it never meet a free block that *)
(* is in use, nor a page that is not erased.                               *)
LEMMA LaneNotCorrupted ==
    ASSUME Inv, FreeListExact, NEW io \in IOMaps
    PROVE  LaneError(io) \in {NoPanic, "Corrupted", "NoFreeBlockLeft"}
<1> DEFINE k == LaneFor(io)
           c == lastFreeBlock[k]
<1>0. io \subseteq Unit /\ MoveTypeOK /\ FreeCount
  BY DEF IOMaps, Inv, MoveInv
<1>1. c \in Block
  BY <1>0, LaneForType DEF MoveTypeOK
<1>2. CASE c \notin blocks
  BY <1>2 DEF LaneError
<1>3. CASE c \in blocks /\ Full(c) /\ nFreeBlocks = 0
  BY <1>3 DEF LaneError
<1>4. CASE c \in blocks /\ Full(c) /\ nFreeBlocks # 0
  <2>1. FreePos(k) \in 1 .. Len(freeBlocks)
    BY <1>0, <1>4, FreePosInList DEF MoveTypeOK
  <2>2. Target(io) = freeBlocks[FreePos(k)]
    BY <1>4 DEF Target
  <2>3. Target(io) \in Block /\ Target(io) \notin blocks
    BY <1>0, <2>1, <2>2, FreeBlockAt, FreeNotInUse DEF MoveTypeOK
  <2>4. \A u \in io : next[Target(io)][u] \in erased[Target(io)][u]
    <3> SUFFICES ASSUME NEW u \in io
                 PROVE  next[Target(io)][u] \in erased[Target(io)][u]
      OBVIOUS
    <3>1. /\ next[Target(io)][u] = 0
          /\ erased[Target(io)][u] = {p \in PageIdx : p >= next[Target(io)][u]}
      BY <1>0, <2>3 DEF Inv, MoveInv, WriteFrontier
    <3> QED
      BY <3>1, SizesAssumption DEF PageIdx
  <2> QED
    BY <1>4, <2>3, <2>4 DEF LaneError
<1>5. CASE c \in blocks /\ ~Full(c)
  <2>1. Target(io) = c
    BY <1>5 DEF Target
  <2>2. \A u \in io : next[c][u] \in erased[c][u]
    <3> SUFFICES ASSUME NEW u \in io
                 PROVE  next[c][u] \in erased[c][u]
      OBVIOUS
    <3>1. next[c][u] \in 0 .. NP /\ next[c][u] # NP
      BY <1>0, <1>1, <1>5 DEF MoveTypeOK, Full
    <3>2. erased[c][u] = {p \in PageIdx : p >= next[c][u]}
      BY <1>0, <1>1 DEF Inv, MoveInv, WriteFrontier
    <3> QED
      BY <3>1, <3>2, SizesAssumption DEF PageIdx
  <2> QED
    BY <1>5, <2>1, <2>2 DEF LaneError
<1>6. QED
  BY <1>2, <1>3, <1>4, <1>5

(* getLastFreeBlock() takes at most one block from the free list, which    *)
(* stays exact and in order.                                               *)
LEMMA LaneKeepsFreeList ==
    ASSUME Inv, FreeListExact, FreeSorted, NEW io \in IOMaps, LaneError(io) = NoPanic,
           NEW count \in [Block -> Nat], GetLastFreeBlock(io, count),
           UNCHANGED eraseCount
    PROVE  FreeListExact' /\ FreeSorted'
<1> DEFINE k == LaneFor(io)
           i == FreePos(k)
<1>0. /\ MoveTypeOK /\ FreeCount /\ freeBlocks \in Seq(Block)
      /\ IsInjective(freeBlocks) /\ nFreeBlocks = Len(freeBlocks)
  BY DEF Inv, MoveInv, MoveTypeOK, FreeListExact
<1>1. CASE ~Full(lastFreeBlock[k])
  BY <1>1 DEF GetLastFreeBlock, FreeListExact, FreeSorted, freeVars
<1>2. CASE Full(lastFreeBlock[k])
  <2>1. i \in 1 .. Len(freeBlocks) /\ Target(io) = freeBlocks[i]
    BY <1>0, <1>2, TargetProperties
  <2>2. /\ freeBlocks' = RemoveAt(freeBlocks, i)
        /\ blocks' = blocks \cup {freeBlocks[i]}
        /\ nFreeBlocks' = nFreeBlocks - 1
    BY <1>2, <2>1 DEF GetLastFreeBlock
  <2> HIDE DEF i
  <2>3. /\ IsInjective(freeBlocks')
        /\ Range(freeBlocks') = Range(freeBlocks) \ {freeBlocks[i]}
        /\ freeBlocks' \in Seq(Block) /\ Len(freeBlocks') = Len(freeBlocks) - 1
    BY <1>0, <2>1, <2>2, RemoveAtInjective, RemoveAtSeq
  <2>4. freeBlocks[i] \in Block /\ freeBlocks[i] \in Range(freeBlocks)
    BY <1>0, <2>1, FreeBlockAt
  <2>5. ~(eraseCount[freeBlocks[i]] >= BadBlock)
    BY <2>4, FreeNotInUse
  <2>6. FreeListExact'
    <3>1. nFreeBlocks' = Len(freeBlocks')
      BY <1>0, <2>2, <2>3
    <3>2. ASSUME NEW b \in Block
          PROVE  IF eraseCount'[b] >= BadBlock
                 THEN b \notin blocks' \cup Range(freeBlocks')
                 ELSE b \in blocks' <=> b \notin Range(freeBlocks')
      BY <2>2, <2>3, <2>4, <2>5 DEF FreeListExact
    <3> QED
      BY <2>3, <3>1, <3>2 DEF FreeListExact
  <2>7. FreeSorted'
    <3>1. /\ DOMAIN freeBlocks' = 1 .. Len(freeBlocks) - 1
          /\ DOMAIN freeBlocks = 1 .. Len(freeBlocks) /\ Len(freeBlocks) \in Nat
          /\ \A j \in 1 .. Len(freeBlocks) - 1 :
                freeBlocks'[j] = IF j < i THEN freeBlocks[j] ELSE freeBlocks[j+1]
      <4>1. DOMAIN freeBlocks = 1 .. Len(freeBlocks) /\ Len(freeBlocks) \in Nat
        BY <1>0, LenProperties
      <4>2. DOMAIN freeBlocks' = 1 .. Len(freeBlocks')
        BY <2>3, LenProperties
      <4>3. \A j \in 1 .. Len(freeBlocks) - 1 :
               RemoveAt(freeBlocks, i)[j] = IF j < i THEN freeBlocks[j] ELSE freeBlocks[j+1]
        BY <1>0, <2>1, RemoveAtSeq
      <4> QED
        BY <2>2, <2>3, <4>1, <4>2, <4>3
    <3> SUFFICES ASSUME NEW a \in 1 .. Len(freeBlocks) - 1,
                        NEW b \in 1 .. Len(freeBlocks) - 1, a < b
                 PROVE  eraseCount[freeBlocks'[a]] <= eraseCount[freeBlocks'[b]]
      BY <3>1 DEF FreeSorted
    <3> DEFINE pos(x) == IF x < i THEN x ELSE x + 1
    <3>2. /\ pos(a) \in DOMAIN freeBlocks /\ pos(b) \in DOMAIN freeBlocks /\ pos(a) < pos(b)
          /\ freeBlocks'[a] = freeBlocks[pos(a)] /\ freeBlocks'[b] = freeBlocks[pos(b)]
      BY <2>1, <3>1
    <3> HIDE DEF pos
    <3> QED
      BY <3>2 DEF FreeSorted
  <2> QED
    BY <2>6, <2>7
<1>3. QED
  BY <1>1, <1>2

(* What getLastFreeBlock() takes is worn no more than any other free block *)
(* of the same lane.                                                       *)
LEMMA LaneTakesLeastWorn ==
    ASSUME Inv, FreeListExact, FreeSorted, NEW io \in IOMaps, LaneError(io) = NoPanic,
           NEW b \in {Target(io)} \ blocks, NEW c \in Range(freeBlocks),
           c % NL = b % NL
    PROVE  eraseCount[b] <= eraseCount[c]
<1> DEFINE k == LaneFor(io)
           own == {j \in DOMAIN freeBlocks : freeBlocks[j] % NL = k}
<1>0. /\ MoveTypeOK /\ FreeCount /\ freeBlocks \in Seq(Block)
      /\ DOMAIN freeBlocks = 1 .. Len(freeBlocks) /\ Len(freeBlocks) \in Nat
      /\ eraseCount \in [Block -> Nat]
  BY LenProperties DEF Inv, MoveInv, MoveTypeOK, ControlTypeOK
<1>1. Full(lastFreeBlock[k]) /\ FreePos(k) \in 1 .. Len(freeBlocks) /\ b = freeBlocks[FreePos(k)]
  BY <1>0, TargetProperties
<1>2. PICK j \in 1 .. Len(freeBlocks) : freeBlocks[j] = c
  <2>1. \A x : x \in Range(freeBlocks) <=> \E m \in 1 .. Len(freeBlocks) : freeBlocks[m] = x
    BY <1>0, MembersOfSeq
  <2> QED
    BY <2>1
<1>3. FreePos(k) <= j
  <2>1. CASE own = {}
    BY <1>1, <1>2, <2>1 DEF FreePos
  <2>2. CASE own # {}
    <3>1. own \subseteq Nat
      BY <1>0
    <3>2. Min(own) \in own /\ \A y \in own : Min(own) <= y
      BY <2>2, <3>1, MinOfNat
    <3>3. FreePos(k) = Min(own)
      BY <2>2 DEF FreePos
    <3>4. b % NL = k
      BY <1>1, <3>2, <3>3
    <3>5. j \in own
      BY <1>0, <1>2, <3>4
    <3> QED
      BY <3>2, <3>3, <3>5
  <2> QED
    BY <2>1, <2>2
<1>4. CASE FreePos(k) = j
  <2>1. b = c
    BY <1>1, <1>2, <1>4
  <2>2. eraseCount[b] \in Nat
    BY <1>0, <1>1, ElementOfSeq
  <2> QED
    BY <2>1, <2>2
<1>5. CASE FreePos(k) # j
  <2>1. FreePos(k) < j
    BY <1>1, <1>3, <1>5
  <2> QED
    BY <1>0, <1>1, <1>2, <2>1 DEF FreeSorted
<1>6. QED
  BY <1>4, <1>5

(* eraseInternal() returns a block behind the free blocks that were erased *)
(* no more often: the list stays exact and in order.                       *)
LEMMA EraseKeepsFreeList ==
    ASSUME Inv, FreeListExact, FreeSorted, NEW b \in Block, EraseError(b) = NoPanic,
           EraseBlock(b), ReturnBlock(b)
    PROVE  FreeListExact' /\ FreeSorted'
<1> DEFINE n == eraseCount[b] + 1
           i == InsertPos(n)
           above == {j \in DOMAIN freeBlocks : eraseCount[freeBlocks[j]] <= n}
<1>0. /\ freeBlocks \in Seq(Block) /\ eraseCount \in [Block -> Nat]
      /\ IsInjective(freeBlocks) /\ nFreeBlocks = Len(freeBlocks)
      /\ DOMAIN freeBlocks = 1 .. Len(freeBlocks) /\ Len(freeBlocks) \in Nat
      /\ BadBlock \in Nat
  BY LenProperties, PolicyAssumption DEF Inv, MoveInv, MoveTypeOK, ControlTypeOK, FreeListExact
<1>1. b \in blocks
  BY DEF EraseError, NoPanic
<1>2. b \notin Range(freeBlocks) /\ ~(eraseCount[b] >= BadBlock)
  BY <1>1 DEF FreeListExact
<1>3. \A c \in Block : eraseCount'[c] = IF c = b THEN n ELSE eraseCount[c]
  BY <1>0 DEF EraseBlock
<1>4. blocks' = blocks \ {b}
  BY DEF ReturnBlock
<1>5. \A j \in 1 .. Len(freeBlocks) :
         freeBlocks[j] \in Block /\ freeBlocks[j] # b
         /\ eraseCount'[freeBlocks[j]] = eraseCount[freeBlocks[j]]
         /\ eraseCount[freeBlocks[j]] \in Nat
  BY <1>0, <1>2, <1>3, FreeBlockAt
<1>6. n \in Nat /\ eraseCount'[b] = n
  BY <1>0, <1>3
<1> HIDE DEF n
<1>7. CASE ~(n < BadBlock)
  <2>1. UNCHANGED <<freeBlocks, nFreeBlocks>>
    BY <1>7 DEF ReturnBlock, n
  <2>2. FreeListExact'
    <3>1. ASSUME NEW c \in Block
          PROVE  IF eraseCount'[c] >= BadBlock
                 THEN c \notin blocks' \cup Range(freeBlocks')
                 ELSE c \in blocks' <=> c \notin Range(freeBlocks')
      <4>1. CASE c = b
        BY <1>0, <1>2, <1>4, <1>6, <1>7, <2>1, <4>1
      <4>2. CASE c # b
        BY <1>3, <1>4, <2>1, <4>2 DEF FreeListExact
      <4> QED
        BY <4>1, <4>2
    <3> QED
      BY <1>0, <2>1, <3>1 DEF FreeListExact
  <2>3. FreeSorted'
    BY <1>0, <1>5, <2>1 DEF FreeSorted
  <2> QED
    BY <2>2, <2>3
<1>8. CASE n < BadBlock
  <2>1. freeBlocks' = InsertAt(freeBlocks, i, b) /\ nFreeBlocks' = nFreeBlocks + 1
    BY <1>8 DEF ReturnBlock, n
  <2>2. i \in 1 .. Len(freeBlocks) + 1
    BY <1>0, InsertPosInList
  <2>3. \A j \in 1 .. Len(freeBlocks) :
           IF j < i THEN eraseCount[freeBlocks[j]] <= n ELSE n <= eraseCount[freeBlocks[j]]
    <3>1. above \subseteq 1 .. Len(freeBlocks)
      BY <1>0
    <3>2. i = IF above = {} THEN 1 ELSE Max(above) + 1
      BY DEF InsertPos
    <3>3. \A j \in 1 .. Len(freeBlocks) : j \in above <=> eraseCount[freeBlocks[j]] <= n
      BY <1>0
    <3> HIDE DEF above, i
    <3>4. CASE above = {}
      BY <1>5, <1>6, <3>2, <3>3, <3>4
    <3>5. CASE above # {}
      <4>1. Max(above) \in above /\ \A y \in above : Max(above) >= y
        BY <1>0, <3>1, <3>5, MaxOfInterval
      <4> DEFINE m == Max(above)
      <4>2. m \in 1 .. Len(freeBlocks) /\ eraseCount[freeBlocks[m]] <= n /\ i = m + 1
        BY <3>1, <3>2, <3>3, <3>5, <4>1
      <4> HIDE DEF m
      <4> SUFFICES ASSUME NEW j \in 1 .. Len(freeBlocks)
                   PROVE  IF j < i THEN eraseCount[freeBlocks[j]] <= n
                          ELSE n <= eraseCount[freeBlocks[j]]
        OBVIOUS
      <4>3. CASE j < m
        <5>1. eraseCount[freeBlocks[j]] <= eraseCount[freeBlocks[m]]
          BY <1>0, <4>2, <4>3 DEF FreeSorted
        <5> QED
          BY <1>5, <1>6, <4>2, <4>3, <5>1
      <4>4. CASE j = m
        BY <4>2, <4>4
      <4>5. CASE j > m
        <5>1. j \notin above
          BY <1>0, <3>1, <4>1, <4>2, <4>5 DEF m
        <5> QED
          BY <1>5, <1>6, <3>3, <4>2, <4>5, <5>1
      <4> QED
        BY <4>2, <4>3, <4>4, <4>5
    <3> QED
      BY <3>4, <3>5
  <2> HIDE DEF i
  <2>4. /\ IsInjective(freeBlocks')
        /\ Range(freeBlocks') = Range(freeBlocks) \cup {b}
        /\ freeBlocks' \in Seq(Block) /\ Len(freeBlocks') = Len(freeBlocks) + 1
    BY <1>0, <1>2, <2>1, <2>2, InsertAtInjective, InsertAtSeq
  <2>5. FreeListExact'
    <3>1. ASSUME NEW c \in Block
          PROVE  IF eraseCount'[c] >= BadBlock
                 THEN c \notin blocks' \cup Range(freeBlocks')
                 ELSE c \in blocks' <=> c \notin Range(freeBlocks')
      <4>1. CASE c = b
        BY <1>0, <1>4, <1>6, <1>8, <2>4, <4>1
      <4>2. CASE c # b
        BY <1>3, <1>4, <2>4, <4>2 DEF FreeListExact
      <4> QED
        BY <4>1, <4>2
    <3> QED
      BY <1>0, <2>1, <2>4, <3>1 DEF FreeListExact
  <2>6. FreeSorted'
    <3>1. /\ DOMAIN freeBlocks' = 1 .. Len(freeBlocks) + 1
          /\ \A j \in 1 .. Len(freeBlocks) + 1 : freeBlocks'[j] =
                IF j < i THEN freeBlocks[j] ELSE IF j = i THEN b ELSE freeBlocks[j-1]
      <4>1. DOMAIN freeBlocks' = 1 .. Len(freeBlocks')
        BY <2>4, LenProperties
      <4>2. \A j \in 1 .. Len(freeBlocks) + 1 : InsertAt(freeBlocks, i, b)[j] =
                IF j < i THEN freeBlocks[j] ELSE IF j = i THEN b ELSE freeBlocks[j-1]
        <5>1. freeBlocks \in Seq(Block) /\ i \in 1 .. Len(freeBlocks) + 1 /\ b \in Block
          BY <1>0, <2>2
        <5>2. /\ InsertAt(freeBlocks, i, b) \in Seq(Block)
              /\ Len(InsertAt(freeBlocks, i, b)) = Len(freeBlocks) + 1
              /\ \A j \in 1 .. Len(freeBlocks) + 1 : InsertAt(freeBlocks, i, b)[j] =
                    IF j < i THEN freeBlocks[j] ELSE IF j = i THEN b ELSE freeBlocks[j-1]
          BY ONLY <5>1, InsertAtSeq
        <5> QED
          BY <5>2
      <4> QED
        BY <2>1, <2>4, <4>1, <4>2
    <3> SUFFICES ASSUME NEW x \in 1 .. Len(freeBlocks) + 1,
                        NEW y \in 1 .. Len(freeBlocks) + 1, x < y
                 PROVE  eraseCount'[freeBlocks'[x]] <= eraseCount'[freeBlocks'[y]]
      BY <3>1 DEF FreeSorted
    <3> DEFINE pos(z) == IF z < i THEN z ELSE z - 1
    <3>2. \A z \in 1 .. Len(freeBlocks) + 1 : z # i =>
             /\ pos(z) \in 1 .. Len(freeBlocks)
             /\ freeBlocks'[z] = freeBlocks[pos(z)]
             /\ eraseCount'[freeBlocks'[z]] = eraseCount[freeBlocks[pos(z)]]
      <4> TAKE z \in 1 .. Len(freeBlocks) + 1
      <4> HAVE z # i
      <4>1. Len(freeBlocks) \in Nat
        BY <1>0, LenProperties
      <4>2. pos(z) \in 1 .. Len(freeBlocks)
        BY <2>2, <4>1
      <4>3. freeBlocks'[z] = freeBlocks[pos(z)]
        BY <3>1
      <4> HIDE DEF pos
      <4> QED
        BY <1>5, <4>2, <4>3
    <3>3. eraseCount'[freeBlocks'[i]] = n
      BY <1>6, <2>2, <3>1
    <3>4. CASE x = i
      <4>1. pos(y) \in i .. Len(freeBlocks)
        BY <2>2, <3>2, <3>4
      <4>2. eraseCount'[freeBlocks'[y]] = eraseCount[freeBlocks[pos(y)]]
        BY <2>2, <3>2, <3>4
      <4> HIDE DEF pos
      <4>3. n <= eraseCount[freeBlocks[pos(y)]]
        BY <2>2, <2>3, <4>1
      <4> QED
        BY <3>3, <3>4, <4>2, <4>3
    <3>5. CASE y = i
      <4>1. pos(x) \in 1 .. i - 1
        BY <2>2, <3>2, <3>5
      <4>2. eraseCount'[freeBlocks'[x]] = eraseCount[freeBlocks[pos(x)]]
        BY <2>2, <3>2, <3>5
      <4> HIDE DEF pos
      <4>3. eraseCount[freeBlocks[pos(x)]] <= n
        BY <2>2, <2>3, <4>1
      <4> QED
        BY <3>3, <3>5, <4>2, <4>3
    <3>6. CASE x # i /\ y # i
      <4>1. pos(x) < pos(y)
        BY <2>2, <3>6
      <4> HIDE DEF pos
      <4> QED
        BY <1>0, <3>2, <3>6, <4>1 DEF FreeSorted
    <3> QED
      BY <3>4, <3>5, <3>6
  <2> QED
    BY <2>5, <2>6
<1>9. QED
  BY <1>7, <1>8

-----------------------------------------------------------------------------
(* The fill of initialize() *)

(* Blocks that a lane has left are full: so many pages were programmed. *)
LEMMA FillBound ==
    ASSUME NEW bs \in SUBSET Block, NEW pointer \in [Block -> Nat],
           NEW lf \in [Lane -> Block], \A b \in bs \ Range(lf) : pointer[b] = NP
    PROVE  /\ IsFiniteSet(Below(pointer)) /\ Cardinality(Below(pointer)) \in Nat
           /\ Cardinality(bs) \in Nat
           /\ NP * (Cardinality(bs) - NL) <= Cardinality(Below(pointer))
<1> DEFINE rest == bs \ Range(lf)
<1>0. NP \in Nat \ {0} /\ NL \in Nat \ {0}
  BY SizesAssumption
<1>1. IsFiniteSet(bs) /\ Cardinality(bs) \in Nat
  BY BlockIsFinite
<1>2. IsFiniteSet(Range(lf)) /\ Cardinality(Range(lf)) <= NL /\ Cardinality(Range(lf)) \in Nat
  <2>1. IsFiniteSet(Lane) /\ Cardinality(Lane) = NL
    BY <1>0, FS_Interval DEF Lane
  <2>2. lf \in Surjection(Lane, Range(lf))
    BY DEF Surjection, Range
  <2> QED
    BY <2>1, <2>2, FS_Surjection, FS_CardinalityType
<1>3. IsFiniteSet(rest) /\ Cardinality(rest) \in Nat
      /\ Cardinality(rest) >= Cardinality(bs) - NL
  <2>1. /\ IsFiniteSet(rest)
        /\ Cardinality(rest) = Cardinality(bs) - Cardinality(bs \cap Range(lf))
    BY <1>1, FS_Difference
  <2>2. /\ Cardinality(bs \cap Range(lf)) <= Cardinality(Range(lf))
        /\ IsFiniteSet(bs \cap Range(lf))
    BY <1>2, FS_Intersection
  <2>3. Cardinality(bs \cap Range(lf)) \in Nat /\ Cardinality(rest) \in Nat
    BY <2>1, <2>2, FS_CardinalityType
  <2> QED
    BY <1>0, <1>1, <1>2, <2>1, <2>2, <2>3
<1>4. IsFiniteSet(PageIdx) /\ Cardinality(PageIdx) = NP
  BY <1>0, FS_Interval DEF PageIdx
<1>5. /\ IsFiniteSet(rest \X PageIdx)
      /\ Cardinality(rest \X PageIdx) = Cardinality(rest) * NP
  BY <1>3, <1>4, FS_Product
<1>6. rest \X PageIdx \subseteq Below(pointer)
  BY <1>0 DEF Below, PageIdx
<1>7. IsFiniteSet(Below(pointer)) /\ Cardinality(Below(pointer)) \in Nat
  <2>1. IsFiniteSet(Block)
    BY BlockIsFinite
  <2>2. IsFiniteSet(Block \X PageIdx)
    BY <1>4, <2>1, FS_Product
  <2>3. Below(pointer) \subseteq Block \X PageIdx
    BY DEF Below
  <2> QED
    BY <2>2, <2>3, FS_Subset, FS_CardinalityType
<1>8. Cardinality(rest) * NP <= Cardinality(Below(pointer))
  BY <1>5, <1>6, <1>7, FS_Subset
<1> HIDE DEF rest
<1>9. NP * (Cardinality(bs) - NL) <= Cardinality(rest) * NP
  <2>1. \A n \in Nat, x, y \in Int : x <= y => n * x <= y * n
    OBVIOUS
  <2> QED
    BY <1>0, <1>1, <1>3, <2>1
<1>10. QED
  BY <1>0, <1>1, <1>3, <1>7, <1>8, <1>9

(* Filling stops before garbage collection is due. *)
LEMMA FillRoom == FillTotal \in Nat /\ FillTotal <= MaxPagesBeforeGC /\ MaxPagesBeforeGC \in Int
<1>1. /\ FillPages \in Nat /\ InvalidPages \in Nat /\ GCThreshold \in Nat
      /\ NP \in Nat /\ NB \in Nat /\ NL \in Nat
  BY SizesAssumption, PolicyAssumption
<1>2. MaxPagesBeforeGC \in Int
  BY <1>1 DEF MaxPagesBeforeGC
<1>3. FillPages <= MaxPagesBeforeGC
  BY FillAssumption
<1>4. QED
  BY <1>1, <1>2, <1>3 DEF FillTotal

(* A write of the fill programs one page of every unit, in the block of a  *)
(* lane or in the block that takes its place because it is full.           *)
LEMMA FillWriteShape ==
    ASSUME Inv, SafetyInv, pc = "fill", NEW l \in LPN, NEW d \in Data,
           WriteError(l, Unit) = NoPanic, WriteUnits(l, Unit, d), filled' = filled + 1
    PROVE  FillShape'
<1> DEFINE b == Target(Unit)
           k == LaneFor(Unit)
<1>0. /\ Unit \in IOMaps /\ 0 \in Unit /\ MoveTypeOK /\ FreeCount
      /\ NP \in Nat \ {0} /\ NB \in Nat
  BY UnitIsIOMap, SizesAssumption DEF Inv, MoveInv, Unit
<1>1. LaneError(Unit) = NoPanic
  BY DEF WriteError, NoPanic
<1>2. /\ b \in Block
      /\ lastFreeBlock[k] \in blocks
      /\ \A u \in Unit : next[b][u] \in PageIdx
      /\ Full(lastFreeBlock[k]) =>
            FreePos(k) \in 1 .. Len(freeBlocks) /\ b = freeBlocks[FreePos(k)]
      /\ ~Full(lastFreeBlock[k]) => b = lastFreeBlock[k]
  BY <1>0, <1>1, TargetProperties
<1>3. GetLastFreeBlock(Unit, refreshedPageCount)
  BY DEF WriteUnits
<1>4. next' = [next EXCEPT ![b] = [u \in Unit |-> next[b][u] + 1]]
  BY DEF WriteUnits, Program
<1>5. /\ blocks' = blocks \cup {b} /\ blocks \subseteq Block
      /\ next \in [Block -> [Unit -> 0 .. NP]]
      /\ lastFreeBlock \in [Lane -> Block] /\ k \in Lane
      /\ nFreeBlocks \in Int
  BY <1>0, <1>1, <1>3, LaneStep, LaneForType DEF MoveTypeOK
<1>6. FillShape
  BY DEF SafetyInv, FillCounted
<1>7. Pointer \in [Block -> Nat] /\ Pointer[b] \in PageIdx
  BY <1>0, <1>2, <1>5 DEF Pointer
<1>8. Pointer' = [Pointer EXCEPT ![b] = Pointer[b] + 1]
  BY <1>0, <1>2, <1>4, <1>5 DEF Pointer
<1> HIDE DEF b
<1>9. \A c \in Block, u \in Unit : next'[c][u] = Pointer'[c]
  BY <1>0, <1>2, <1>4, <1>5, <1>6, <1>7, <1>8 DEF FillShape
<1>10. Cardinality(Below(Pointer)') = filled + 1
  <2> DEFINE x == <<b, Pointer[b]>>
  <2>1. x \in Block \X PageIdx /\ x \notin Below(Pointer)
    BY <1>2, <1>7 DEF Below, PageIdx
  <2>2. Below(Pointer)' = Below(Pointer) \cup {x}
    <3>1. ASSUME NEW c \in Block, NEW p \in PageIdx
          PROVE  <<c, p>> \in Below(Pointer)' <=> <<c, p>> \in Below(Pointer) \/ <<c, p>> = x
      <4>1. Pointer'[c] = IF c = b THEN Pointer[b] + 1 ELSE Pointer[c]
        BY <1>2, <1>7, <1>8
      <4>2. p \in Int /\ Pointer[b] \in Int /\ Pointer[c] \in Int
        BY <1>7 DEF PageIdx
      <4>3. <<c, p>> \in Below(Pointer)' <=> p < Pointer'[c]
        BY DEF Below
      <4>4. <<c, p>> \in Below(Pointer) <=> p < Pointer[c]
        BY DEF Below
      <4>5. <<c, p>> = x <=> c = b /\ p = Pointer[b]
        OBVIOUS
      <4> QED
        BY <4>1, <4>2, <4>3, <4>4, <4>5
    <3>2. Below(Pointer)' \subseteq Block \X PageIdx /\ Below(Pointer) \subseteq Block \X PageIdx
      BY DEF Below
    <3> QED
      BY <2>1, <3>1, <3>2
  <2>3. IsFiniteSet(Below(Pointer)) /\ Cardinality(Below(Pointer)) = filled
    BY <1>5, <1>6, <1>7, FillBound DEF FillShape
  <2> HIDE DEF x
  <2> QED
    BY <2>1, <2>2, <2>3, FS_AddElement
<1>11. Cardinality(blocks') + nFreeBlocks' = NB
  <2>1. IsFiniteSet(blocks) /\ Cardinality(blocks) \in Nat /\ Cardinality(blocks) + nFreeBlocks = NB
    BY <1>5, <1>6, BlockIsFinite DEF FillShape
  <2>2. CASE Full(lastFreeBlock[k])
    <3>1. b \notin blocks
      <4>1. freeBlocks \in Seq(Block) /\ FreeListExact
        BY <1>0 DEF MoveTypeOK, SafetyInv
      <4> QED
        BY <1>2, <2>2, <4>1, FreeBlockAt, FreeNotInUse
    <3>2. nFreeBlocks' = nFreeBlocks - 1
      BY <1>3, <2>2 DEF GetLastFreeBlock
    <3>3. Cardinality(blocks \cup {b}) = Cardinality(blocks) + 1
      BY <2>1, <3>1, FS_AddElement
    <3> QED
      BY <1>5, <2>1, <3>2, <3>3
  <2>3. CASE ~Full(lastFreeBlock[k])
    <3>1. UNCHANGED <<blocks, nFreeBlocks>>
      BY <1>3, <2>3 DEF GetLastFreeBlock, freeVars
    <3> QED
      BY <2>1, <3>1
  <2> QED
    BY <2>2, <2>3
<1>12. \A c \in blocks' \ Range(lastFreeBlock') : Pointer'[c] = NP
  <2> SUFFICES ASSUME NEW c \in blocks', c \notin Range(lastFreeBlock')
               PROVE  Pointer'[c] = NP
    OBVIOUS
  <2>1. CASE ~Full(lastFreeBlock[k])
    <3>1. UNCHANGED <<blocks, lastFreeBlock>>
      BY <1>3, <2>1 DEF GetLastFreeBlock, freeVars
    <3>2. b \in Range(lastFreeBlock)
      BY <1>2, <1>5, <2>1 DEF Range
    <3>3. c \in Block /\ c # b /\ Pointer[c] = NP
      BY <1>5, <1>6, <3>1, <3>2 DEF FillShape
    <3> QED
      BY <1>2, <1>7, <1>8, <3>3
  <2>2. CASE Full(lastFreeBlock[k])
    <3>1. lastFreeBlock' = [lastFreeBlock EXCEPT ![k] = b]
      BY <1>3, <2>2 DEF GetLastFreeBlock, b
    <3>2. c \in Block /\ c # b /\ c \in blocks
      <4>1. b \in Range(lastFreeBlock')
        <5>1. lastFreeBlock'[k] = b /\ k \in DOMAIN lastFreeBlock'
          BY <1>5, <3>1
        <5> QED
          BY <5>1, Zenon DEF Range
      <4> QED
        BY <1>2, <1>5, <4>1
    <3>3. Pointer[c] = NP
      <4>1. CASE c = lastFreeBlock[k]
        BY <1>6, <2>2, <3>2, <4>1 DEF Full, FillShape
      <4>2. CASE c # lastFreeBlock[k]
        <5>1. c \notin Range(lastFreeBlock)
          <6> SUFFICES ASSUME NEW j \in Lane, lastFreeBlock[j] = c
                       PROVE  FALSE
            BY <1>5 DEF Range
          <6>1. j # k /\ lastFreeBlock'[j] = c /\ j \in DOMAIN lastFreeBlock'
            BY <1>5, <3>1, <4>2
          <6>2. c \in Range(lastFreeBlock')
            BY <6>1, Zenon DEF Range
          <6> QED
            BY <6>2
        <5> QED
          BY <1>6, <3>2, <5>1 DEF FillShape
      <4> QED
        BY <4>1, <4>2
    <3> QED
      BY <1>2, <1>7, <1>8, <3>2, <3>3
  <2> QED
    BY <2>1, <2>2
<1>13. QED
  BY <1>9, <1>10, <1>11, <1>12 DEF FillShape

(* A positive factor can be cancelled. *)
LEMMA FactorLeq ==
    ASSUME NEW n \in Nat \ {0}, NEW x \in Int, NEW y \in Int, n * x <= n * y
    PROVE  x <= y
<1> SUFFICES ASSUME x > y
             PROVE  FALSE
  OBVIOUS
<1> DEFINE z == x - y - 1
<1>1. z \in Nat /\ x = y + (z + 1)
  OBVIOUS
<1> HIDE DEF z
<1>2. n * x = n * y + n * (z + 1)
  BY <1>1
<1>3. n * (z + 1) = n * z + n /\ n * z \in Nat
  BY <1>1
<1>4. n * y \in Int
  OBVIOUS
<1>5. QED
  BY <1>2, <1>3, <1>4

(* The panic for garbage collection during the fill does not come: the     *)
(* pages programmed so far leave more free blocks than the threshold.      *)
LEMMA FillNeedsNoGC ==
    ASSUME Inv', FillShape', filled' <= FillTotal
    PROVE  ~NeedsGC(nFreeBlocks')
<1>1. /\ blocks' \in SUBSET Block /\ lastFreeBlock' \in [Lane -> Block]
      /\ Pointer' \in [Block -> Nat] /\ nFreeBlocks' \in Int /\ filled' \in Nat
  <2>1. /\ blocks' \subseteq Block /\ lastFreeBlock' \in [Lane -> Block]
        /\ next' \in [Block -> [Unit -> 0 .. NP]] /\ nFreeBlocks' \in Int
        /\ filled' \in Nat
    BY DEF Inv, MoveInv, MoveTypeOK, ControlTypeOK
  <2>2. 0 \in Unit /\ 0 .. NP \subseteq Nat
    BY SizesAssumption DEF Unit
  <2> QED
    BY <2>1, <2>2 DEF Pointer
<1>2. \A b \in blocks' \ Range(lastFreeBlock') : Pointer'[b] = NP
  BY DEF FillShape
<1>3. /\ NP * (Cardinality(blocks') - NL) <= Cardinality(Below(Pointer'))
      /\ Cardinality(blocks') \in Nat
  BY <1>1, <1>2, FillBound
<1>4. Cardinality(Below(Pointer')) = filled' /\ Cardinality(blocks') = NB - nFreeBlocks'
  <2>1. Cardinality(Below(Pointer))' = filled' /\ Cardinality(blocks') + nFreeBlocks' = NB
    BY DEF FillShape
  <2>2. Below(Pointer)' = Below(Pointer')
    BY DEF Below
  <2>3. NB \in Nat
    BY SizesAssumption
  <2> QED
    BY <1>1, <1>3, <2>1, <2>2, <2>3
<1>5. NP \in Nat \ {0} /\ NB \in Nat /\ NL \in Nat /\ GCThreshold \in Nat
  BY SizesAssumption, PolicyAssumption
<1> DEFINE x == NB - nFreeBlocks' - NL
           y == NB - GCThreshold - NL
<1>6. x \in Int /\ y \in Int /\ Cardinality(blocks') - NL = x
  BY <1>1, <1>4, <1>5
<1>7. NP * x <= NP * y
  <2>1. NP * x <= filled'
    BY <1>3, <1>4, <1>6
  <2>2. filled' <= NP * y
    BY <1>1, FillRoom DEF MaxPagesBeforeGC
  <2>3. NP * x \in Int /\ NP * y \in Int /\ filled' \in Int
    BY <1>1, <1>5, <1>6
  <2> QED
    BY <2>1, <2>2, <2>3
<1> HIDE DEF x, y
<1>8. x <= y
  BY <1>5, <1>6, <1>7, FactorLeq
<1>9. nFreeBlocks' \in Int
  BY <1>1
<1>10. GCThreshold <= nFreeBlocks'
  <2>1. \A a, b, c, d \in Int : a - b - c <= a - d - c => d <= b
    OBVIOUS
  <2>2. NB \in Int /\ NL \in Int /\ GCThreshold \in Int
    BY <1>5
  <2> QED
    BY <1>8, <1>9, <2>1, <2>2, Zenon DEF x, y
<1>11. QED
  BY <1>5, <1>9, <1>10 DEF NeedsGC

-----------------------------------------------------------------------------
(* Every action preserves the invariant *)

(* A step that leaves the free list and the erase counts alone *)
LEMMA FreeListStutter ==
    ASSUME FreeListExact, FreeSorted, UNCHANGED <<freeVars, eraseCount>>
    PROVE  FreeListExact' /\ FreeSorted'
BY DEF FreeListExact, FreeSorted, freeVars

(* A panic that does not tell of a corrupted drive *)
LEMMA PanicSafe ==
    ASSUME SafetyInv, NEW m, m \notin Corruptions, Panic(m)
    PROVE  SafetyInv'
<1>1. FreeListExact' /\ FreeSorted'
  BY FreeListStutter DEF SafetyInv, Panic, wearVars
<1>2. VictimsInUse' /\ FillCounted' /\ NoCorruption'
  BY DEF Panic, VictimsInUse, FillCounted, NoCorruption, Corruptions
<1>3. QED
  BY <1>1, <1>2 DEF SafetyInv

(* The old place of a page that is written again is in a block in use. *)
LEMMA WriteNotCorrupted ==
    ASSUME Inv, FreeListExact, NEW l \in LPN, NEW io \in IOMaps
    PROVE  WriteError(l, io) \in {NoPanic, "Corrupted", "NoFreeBlockLeft"}
<1>1. \A u \in io : table[l][u] # NoPlace => table[l][u][1] \in blocks
  BY DEF IOMaps, Inv, MoveInv, MappingConsistent, TableSound
<1>2. QED
  BY <1>1, LaneNotCorrupted DEF WriteError

(* A host write *)
LEMMA WriteSafe ==
    ASSUME Inv, SafetyInv, NEW l \in LPN, NEW io \in IOMaps, NEW d \in Data, Write(l, io, d)
    PROVE  SafetyInv'
<1>1. CASE WriteError(l, io) # NoPanic
  <2>1. WriteError(l, io) \notin Corruptions
    BY WriteNotCorrupted DEF SafetyInv, Corruptions, NoPanic
  <2>2. Panic(WriteError(l, io))
    BY <1>1 DEF Write
  <2> QED
    BY <2>1, <2>2, PanicSafe
<1>2. CASE WriteError(l, io) = NoPanic
  <2>1. /\ WriteUnits(l, io, d)
        /\ pc' \in {"select", "idle"}
        /\ UNCHANGED panic
    BY <1>2 DEF Write
  <2>2. LaneError(io) = NoPanic
    BY <1>2 DEF WriteError, NoPanic
  <2>3. FreeListExact' /\ FreeSorted'
    <3>1. refreshedPageCount \in [Block -> Nat]
      BY DEF Inv, MoveInv, MoveTypeOK
    <3> QED
      BY <2>1, <2>2, <3>1, LaneKeepsFreeList DEF SafetyInv, WriteUnits
  <2>4. VictimsInUse' /\ FillCounted' /\ NoCorruption'
    BY <2>1 DEF SafetyInv, VictimsInUse, FillCounted, NoCorruption
  <2> QED
    BY <2>3, <2>4 DEF SafetyInv
<1>3. QED
  BY <1>1, <1>2

(* A write of the initial fill *)
LEMMA FillSafe ==
    ASSUME Inv, SafetyInv, NEW l \in LPN, NEW d \in Data, Fill(l, d)
    PROVE  SafetyInv'
<1>0. Unit \in IOMaps
  BY UnitIsIOMap
<1>1. CASE WriteError(l, Unit) # NoPanic
  <2>1. WriteError(l, Unit) \notin Corruptions
    BY <1>0, WriteNotCorrupted DEF SafetyInv, Corruptions, NoPanic
  <2>2. Panic(WriteError(l, Unit))
    BY <1>1 DEF Fill
  <2> QED
    BY <2>1, <2>2, PanicSafe
<1>2. CASE WriteError(l, Unit) = NoPanic
  <2>1. /\ WriteUnits(l, Unit, d)
        /\ filled' = filled + 1
        /\ pc = "fill"
    BY <1>2 DEF Fill
  <2>2. FillShape'
    BY <1>2, <2>1, FillWriteShape
  <2>3. filled < FillTotal /\ filled \in Nat /\ FillTotal \in Nat
    BY <2>1, FillRoom DEF SafetyInv, FillCounted, Inv, ControlTypeOK
  <2>4. Inv'
    BY FillPreserves
  <2>5. ~NeedsGC(nFreeBlocks')
    BY <2>1, <2>2, <2>3, <2>4, FillNeedsNoGC
  <2>6. pc' = (IF filled + 1 = FillTotal THEN "idle" ELSE "fill") /\ UNCHANGED panic
    BY <1>2, <2>5 DEF Fill
  <2>7. FreeListExact' /\ FreeSorted'
    <3>1. refreshedPageCount \in [Block -> Nat]
      BY DEF Inv, MoveInv, MoveTypeOK
    <3>2. LaneError(Unit) = NoPanic
      BY <1>2 DEF WriteError, NoPanic
    <3> QED
      BY <1>0, <2>1, <3>1, <3>2, LaneKeepsFreeList DEF SafetyInv, WriteUnits
  <2>8. FillCounted'
    BY <2>1, <2>2, <2>3, <2>6 DEF FillCounted
  <2>9. VictimsInUse' /\ NoCorruption'
    BY <2>6 DEF SafetyInv, VictimsInUse, NoCorruption
  <2> QED
    BY <2>7, <2>8, <2>9 DEF SafetyInv
<1>3. QED
  BY <1>1, <1>2

(* Nothing changes. *)
LEMMA StutterSafe ==
    ASSUME SafetyInv, UNCHANGED vars
    PROVE  SafetyInv'
BY DEF vars, blockVars, wearVars, freeVars, laneVars, controlVars, SafetyInv, FreeListExact,
       FreeSorted, VictimsInUse, FillCounted, FillShape, Below, Pointer, NoCorruption

(* A read *)
LEMMA ReadSafe ==
    ASSUME SafetyInv, NEW l \in LPN, NEW io \in IOMaps, Read(l, io)
    PROVE  SafetyInv'
<1>1. Panic("BlockNotInUse") \/ UNCHANGED vars
  BY Zenon DEF Read
<1>2. "BlockNotInUse" \notin Corruptions
  BY DEF Corruptions
<1>3. QED
  BY <1>1, <1>2, PanicSafe, StutterSafe

(* A trim *)
LEMMA TrimSafe ==
    ASSUME SafetyInv, NEW l \in LPN, Trim(l)
    PROVE  SafetyInv'
<1>1. CASE ForgetError({l}) # NoPanic
  <2>1. ForgetError({l}) \notin Corruptions
    BY DEF ForgetError, Corruptions, NoPanic
  <2>2. Panic(ForgetError({l}))
    BY <1>1 DEF Trim
  <2> QED
    BY <2>1, <2>2, PanicSafe
<1>2. CASE ForgetError({l}) = NoPanic
  <2>1. /\ pc = "idle"
        /\ UNCHANGED <<freeVars, eraseCount, pc, panic>>
    BY <1>2 DEF Trim, wearVars, controlVars
  <2>2. VictimsInUse' /\ FillCounted' /\ NoCorruption'
    BY <2>1 DEF SafetyInv, VictimsInUse, FillCounted, NoCorruption
  <2> QED
    BY <2>1, <2>2, FreeListStutter DEF SafetyInv
<1>3. QED
  BY <1>1, <1>2

(* Garbage collection begins with a list of different blocks in use. *)
LEMMA StartVictims ==
    ASSUME NEW list, IsInjective(list), Range(list) \subseteq blocks, UNCHANGED blocks,
           NEW return \in {"idle", "refresh"}, StartGC(list, return)
    PROVE  VictimsInUse' /\ pc' # "fill"
<1>1. toReclaim' = list /\ toErase' = <<>> /\ pc' \in {"idle", "refresh", "copy"}
  BY DEF StartGC
<1>2. IsInjective(<<>>) /\ Range(<<>>) = {}
  BY DEF IsInjective, Range
<1>3. QED
  BY <1>1, <1>2 DEF VictimsInUse

(* A format reclaims blocks in use, each once. *)
LEMMA FormatSafe ==
    ASSUME Inv, SafetyInv, NEW range \in FormatRanges, Format(range)
    PROVE  SafetyInv'
<1>1. CASE ForgetError(range) # NoPanic
  <2>1. ForgetError(range) \notin Corruptions
    BY DEF ForgetError, Corruptions, NoPanic
  <2>2. Panic(ForgetError(range))
    BY <1>1 DEF Format
  <2> QED
    BY <2>1, <2>2, PanicSafe
<1>2. CASE ForgetError(range) = NoPanic
  <2>1. UNCHANGED <<freeVars, blocks, eraseCount, panic>>
    BY <1>2 DEF Format, wearVars, freeVars
  <2>2. PICK list \in Listings(FormatVictims(range)) : StartGC(list, "idle")
    BY <1>2 DEF Format
  <2>3. FormatVictims(range) \subseteq blocks
    BY <1>2 DEF ForgetError, FormatVictims, NoPanic
  <2>4. IsInjective(list) /\ Range(list) \subseteq blocks
    <3> DEFINE n == Cardinality(FormatVictims(range))
    <3>1. n \in Nat
      BY <2>3, BlockIsFinite DEF Inv, MoveInv, MoveTypeOK
    <3>2. /\ list \in [1 .. n -> FormatVictims(range)]
          /\ \A i, j \in 1 .. n : i < j => list[i] < list[j]
      BY <2>2 DEF Listings
    <3>3. \A i \in 1 .. n : list[i] \in Int
      <4>1. FormatVictims(range) \subseteq Int
        <5>1. blocks \subseteq Block
          BY DEF Inv, MoveInv, MoveTypeOK
        <5>2. Block \subseteq Int
          BY DEF Block
        <5> QED
          BY <2>3, <5>1, <5>2, Zenon
      <4> QED
        BY <3>2, <4>1
    <3> HIDE DEF n
    <3>4. IsInjective(list)
      <4> SUFFICES ASSUME NEW i \in 1 .. n, NEW j \in 1 .. n, list[i] = list[j], i < j \/ j < i
                   PROVE  FALSE
        BY <3>1, <3>2 DEF IsInjective
      <4> QED
        BY <3>2, <3>3
    <3>5. Range(list) \subseteq blocks
      BY <2>3, <3>2 DEF Range
    <3> QED
      BY <3>4, <3>5
  <2>5. VictimsInUse' /\ FillCounted' /\ NoCorruption'
    BY <2>1, <2>2, <2>4, StartVictims DEF SafetyInv, FillCounted, NoCorruption
  <2> QED
    BY <2>1, <2>5, FreeListStutter DEF SafetyInv
<1>3. QED
  BY <1>1, <1>2

(* The victims of garbage collection are blocks in use, each once. *)
LEMMA SelectSafe ==
    ASSUME Inv, SafetyInv, SelectVictimBlock
    PROVE  SafetyInv'
<1>1. CASE Hang
  <2>1. pc' = "hung" /\ UNCHANGED <<freeVars, eraseCount, panic>>
    BY <1>1 DEF Hang, wearVars
  <2>2. VictimsInUse' /\ FillCounted' /\ NoCorruption'
    BY <2>1 DEF SafetyInv, VictimsInUse, FillCounted, NoCorruption
  <2> QED
    BY <2>1, <2>2, FreeListStutter DEF SafetyInv
<1>2. CASE Panic("OutOfRange")
  <2>1. "OutOfRange" \notin Corruptions
    BY DEF Corruptions
  <2> QED
    BY <1>2, <2>1, PanicSafe
<1>3. CASE ~Hang /\ ~Panic("OutOfRange")
  <2>1. UNCHANGED <<table, blockVars, wearVars, freeVars, laneVars, layers, filled, panic>>
    BY <1>3, Zenon DEF SelectVictimBlock
  <2>2. PICK S \in Samples :
           \E list \in LowestFirst(S, Min({VictimCount, Cardinality(S)})) :
               StartGC(list, after)
    BY <1>3, Zenon DEF SelectVictimBlock
  <2> DEFINE n == Min({VictimCount, Cardinality(S)})
  <2>3. PICK list \in LowestFirst(S, n) : StartGC(list, after)
    BY <2>2, Zenon
  <2> HIDE DEF n
  <2>4. S \subseteq blocks
    BY DEF Samples, Candidates
  <2>5. list \in [1 .. n -> S] /\ IsInjective(list)
    BY <2>3 DEF LowestFirst
  <2>6. Range(list) \subseteq blocks
    BY <2>4, <2>5 DEF Range
  <2>7. UNCHANGED <<freeVars, eraseCount, blocks, panic>> /\ after \in {"idle", "refresh"}
    BY <2>1 DEF wearVars, freeVars, Inv, ControlTypeOK
  <2>8. VictimsInUse' /\ FillCounted' /\ NoCorruption'
    BY <2>3, <2>5, <2>6, <2>7, StartVictims DEF SafetyInv, FillCounted, NoCorruption
  <2> QED
    BY <2>7, <2>8, FreeListStutter DEF SafetyInv
<1>4. QED
  BY <1>1, <1>2, <1>3

(* A valid page is mapped, so that it can be copied. *)
LEMMA CopyNotCorrupted ==
    ASSUME Inv, FreeListExact, NEW b \in Block, NEW p \in ValidPages(b)
    PROVE  CopyError(b, p) \in {NoPanic, "Corrupted", "NoFreeBlockLeft"}
<1>1. p \in PageIdx /\ ValidUnits(b, p) \in IOMaps
  BY DEF ValidPages, ValidUnits, IOMaps
<1>2. \A u \in ValidUnits(b, p) : Mapped(page[b][p][u].lpn)
  <2> TAKE u \in ValidUnits(b, p)
  <2>1. u \in Unit /\ page[b][p][u] # NoContent
    BY DEF ValidUnits
  <2>2. table[page[b][p][u].lpn][u] = <<b, p>>
    BY <1>1, <2>1 DEF Inv, MoveInv, MappingConsistent, PagesReachable
  <2>3. <<b, p>> # NoPlace
    BY SizesAssumption DEF NoPlace, Block
  <2> QED
    BY <2>1, <2>2, <2>3 DEF Mapped
<1>3. QED
  BY <1>1, <1>2, LaneNotCorrupted DEF CopyError

(* Copying a page takes no block out of use. *)
LEMMA CopySafe ==
    ASSUME Inv, SafetyInv, NEW b \in Block, NEW p \in ValidPages(b),
           NEW count \in [Block -> Nat], CopyError(b, p) = NoPanic, CopyPage(b, p, count),
           UNCHANGED <<eraseCount, controlVars, panic>>, pc # "fill"
    PROVE  SafetyInv'
<1>1. ValidUnits(b, p) \in IOMaps
  BY DEF ValidPages, ValidUnits, IOMaps
<1>2. LaneError(ValidUnits(b, p)) = NoPanic
  BY DEF CopyError, NoPanic
<1>3. GetLastFreeBlock(ValidUnits(b, p), count)
  BY DEF CopyPage
<1>4. FreeListExact' /\ FreeSorted'
  BY <1>1, <1>2, <1>3, LaneKeepsFreeList DEF SafetyInv
<1>5. blocks \subseteq blocks'
  BY <1>1, <1>2, <1>3, LaneStep DEF Inv, MoveInv
<1>6. VictimsInUse' /\ FillCounted' /\ NoCorruption'
  BY <1>5 DEF SafetyInv, VictimsInUse, FillCounted, NoCorruption, controlVars
<1>7. QED
  BY <1>4, <1>6 DEF SafetyInv

(* The head of a list is one of its members. *)
LEMMA HeadInRange ==
    ASSUME NEW S, NEW s \in Seq(S), s # <<>>
    PROVE  Head(s) \in Range(s)
<1>1. Len(s) \in Nat \ {0} /\ Head(s) = s[1]
  BY EmptySeq, LenProperties
<1>2. \A x : x \in Range(s) <=> \E j \in 1 .. Len(s) : s[j] = x
  BY MembersOfSeq
<1>3. QED
  BY <1>1, <1>2

(* Garbage collection copies a page of the first victim. *)
LEMMA CopyVictimPageSafe ==
    ASSUME Inv, SafetyInv, CopyVictimPage
    PROVE  SafetyInv'
<1> DEFINE b == Head(toReclaim)
           p == Min(ValidPages(b))
<1>1. toReclaim \in Seq(Block) /\ toReclaim # <<>> /\ pc = "copy"
  BY DEF CopyVictimPage, Inv, ControlTypeOK
<1>2. b \in Block /\ b \in blocks
  BY <1>1, HeadInRange DEF SafetyInv, VictimsInUse
<1>3. p \in ValidPages(b)
  <2>1. ValidPages(b) \subseteq Nat /\ ValidPages(b) # {}
    BY DEF CopyVictimPage, ValidPages, PageIdx
  <2> QED
    BY <2>1, MinOfNat
<1>4. CASE CopyError(b, p) # NoPanic
  <2>1. Panic(CopyError(b, p))
    BY <1>2, <1>4 DEF CopyVictimPage
  <2> HIDE DEF b, p
  <2>2. CopyError(b, p) \notin Corruptions
    BY <1>2, <1>3, CopyNotCorrupted DEF SafetyInv, Corruptions, NoPanic
  <2> QED
    BY <2>1, <2>2, PanicSafe
<1>5. CASE CopyError(b, p) = NoPanic
  <2>1. CopyPage(b, p, refreshedPageCount) /\ UNCHANGED <<eraseCount, controlVars, panic>>
    BY <1>2, <1>5 DEF CopyVictimPage
  <2>2. refreshedPageCount \in [Block -> Nat]
    BY DEF Inv, MoveInv, MoveTypeOK
  <2> HIDE DEF b, p
  <2> QED
    BY <1>1, <1>2, <1>3, <1>5, <2>1, <2>2, CopySafe
<1>6. QED
  BY <1>4, <1>5

(* A drained victim goes from one list to the other. *)
LEMMA VictimCopiedSafe ==
    ASSUME Inv, SafetyInv, VictimCopied
    PROVE  SafetyInv'
<1> DEFINE b == Head(toReclaim)
<1>1. /\ toReclaim \in Seq(Block) /\ toReclaim # <<>> /\ pc = "copy"
      /\ toErase \in Seq(Block)
  BY DEF VictimCopied, Inv, ControlTypeOK
<1>2. /\ IsInjective(toReclaim) /\ IsInjective(toErase)
      /\ Range(toReclaim) \cap Range(toErase) = {}
      /\ Range(toReclaim) \cup Range(toErase) \subseteq blocks
  BY <1>1 DEF SafetyInv, VictimsInUse
<1>3. b \in Block /\ b \in Range(toReclaim) /\ b \in blocks /\ b \notin Range(toErase)
  BY <1>1, <1>2, HeadInRange
<1>4. /\ toReclaim' = Tail(toReclaim)
      /\ toErase' = Append(toErase, b)
      /\ pc' \in {"erase", "copy"}
      /\ UNCHANGED <<freeVars, blocks, eraseCount, panic>>
  BY <1>3 DEF VictimCopied, wearVars, freeVars
<1>5. IsInjective(toReclaim') /\ Range(toReclaim') = Range(toReclaim) \ {b}
  BY <1>1, <1>2, <1>4, TailInjective
<1> HIDE DEF b
<1>6. IsInjective(toErase') /\ Range(toErase') = Range(toErase) \cup {b}
  BY <1>1, <1>2, <1>3, <1>4, AppendNewInjective
<1>7. VictimsInUse'
  BY <1>2, <1>3, <1>4, <1>5, <1>6 DEF VictimsInUse
<1>8. FillCounted' /\ NoCorruption'
  BY <1>4 DEF SafetyInv, FillCounted, NoCorruption
<1>9. QED
  BY <1>4, <1>7, <1>8, FreeListStutter DEF SafetyInv

(* A victim is erased once and leaves the blocks in use. *)
LEMMA EraseInternalSafe ==
    ASSUME Inv, SafetyInv, EraseInternal
    PROVE  SafetyInv'
<1> DEFINE b == Head(toErase)
<1>1. toErase \in Seq(Block) /\ toErase # <<>> /\ pc = "erase"
  BY DEF EraseInternal, Inv, ControlTypeOK
<1>2. /\ IsInjective(toReclaim) /\ IsInjective(toErase)
      /\ Range(toReclaim) \cap Range(toErase) = {}
      /\ Range(toReclaim) \cup Range(toErase) \subseteq blocks
  BY <1>1 DEF SafetyInv, VictimsInUse
<1>3. b \in Block /\ b \in Range(toErase) /\ b \in blocks
  BY <1>1, <1>2, HeadInRange
<1>4. CASE EraseError(b) # NoPanic
  <2>1. Panic(EraseError(b))
    BY <1>4 DEF EraseInternal
  <2>2. EraseError(b) \notin Corruptions
    BY <1>3 DEF EraseError, Corruptions, NoPanic
  <2> QED
    BY <2>1, <2>2, PanicSafe
<1>5. CASE EraseError(b) = NoPanic
  <2>1. /\ EraseBlock(b) /\ ReturnBlock(b)
        /\ toErase' = Tail(toErase)
        /\ pc' \in {after, "erase"}
        /\ UNCHANGED <<toReclaim, panic>>
    BY <1>5 DEF EraseInternal
  <2>2. IsInjective(toErase') /\ Range(toErase') = Range(toErase) \ {b}
    BY <1>1, <1>2, <2>1, TailInjective
  <2> HIDE DEF b
  <2>3. FreeListExact' /\ FreeSorted'
    BY <1>3, <1>5, <2>1, EraseKeepsFreeList DEF SafetyInv
  <2>4. blocks' = blocks \ {b}
    BY <2>1 DEF ReturnBlock
  <2>5. VictimsInUse'
    BY <1>2, <1>3, <2>1, <2>2, <2>4 DEF VictimsInUse
  <2>6. FillCounted' /\ NoCorruption'
    BY <2>1 DEF SafetyInv, FillCounted, NoCorruption, Inv, ControlTypeOK
  <2> QED
    BY <2>3, <2>5, <2>6 DEF SafetyInv
<1>6. QED
  BY <1>4, <1>5

(* The steps of a refresh that copy nothing *)
LEMMA RefreshControlSafe ==
    ASSUME Inv, SafetyInv,
           (\E ls \in RefreshLists : RefreshEvent(ls)) \/ LayerRefreshed \/ RefreshDone
    PROVE  SafetyInv'
<1>1. /\ pc' \in {"select", "refresh", "idle"}
      /\ UNCHANGED <<freeVars, eraseCount, panic>>
  BY DEF RefreshEvent, LayerRefreshed, RefreshDone, wearVars
<1>2. VictimsInUse' /\ FillCounted' /\ NoCorruption'
  BY <1>1 DEF SafetyInv, VictimsInUse, FillCounted, NoCorruption
<1>3. QED
  BY <1>1, <1>2, FreeListStutter DEF SafetyInv

(* What RefreshLayerPage copies: a valid page, with a count per block. *)
LEMMA RefreshedPage ==
    ASSUME Inv, RefreshLayerPage
    PROVE  LET b == Head(layers)[1]
               p == Min(LayerPages(b, Head(layers)[2]))
               count == [refreshedPageCount EXCEPT ![b] = @ + Cardinality(ValidUnits(b, p))]
           IN  /\ b \in Block /\ p \in ValidPages(b) /\ count \in [Block -> Nat]
               /\ IF CopyError(b, p) # NoPanic THEN Panic(CopyError(b, p))
                  ELSE CopyPage(b, p, count) /\ UNCHANGED <<eraseCount, controlVars, panic>>
<1> DEFINE b  == Head(layers)[1]
           ps == LayerPages(b, Head(layers)[2])
           p  == Min(ps)
           count == [refreshedPageCount EXCEPT ![b] = @ + Cardinality(ValidUnits(b, p))]
<1>1. b \in Block
  <2>1. Head(layers) \in Layer
    BY DEF RefreshLayerPage, Inv, ControlTypeOK
  <2> QED
    BY <2>1 DEF Layer
<1>2. p \in ValidPages(b)
  <2>1. ps \subseteq ValidPages(b) /\ ps # {}
    BY DEF RefreshLayerPage, LayerPages
  <2>2. ps \subseteq Nat
    BY <2>1 DEF ValidPages, PageIdx
  <2> QED
    BY <2>1, <2>2, MinOfNat
<1>3. count \in [Block -> Nat]
  <2>1. Cardinality(ValidUnits(b, p)) \in Nat
    <3>1. IsFiniteSet(Unit)
      BY SizesAssumption, FS_Interval DEF Unit
    <3>2. ValidUnits(b, p) \subseteq Unit
      BY DEF ValidUnits
    <3> QED
      BY <3>1, <3>2, FS_Subset, FS_CardinalityType
  <2> HIDE DEF b, p
  <2> QED
    BY <1>1, <2>1 DEF Inv, MoveInv, MoveTypeOK
<1>4. IF CopyError(b, p) # NoPanic THEN Panic(CopyError(b, p))
      ELSE CopyPage(b, p, count) /\ UNCHANGED <<eraseCount, controlVars, panic>>
  BY DEF RefreshLayerPage
<1>5. QED
  BY <1>1, <1>2, <1>3, <1>4

(* Refresh copies a page of the first layer. *)
LEMMA RefreshLayerPageSafe ==
    ASSUME Inv, SafetyInv, RefreshLayerPage
    PROVE  SafetyInv'
<1> DEFINE b == Head(layers)[1]
           p == Min(LayerPages(b, Head(layers)[2]))
           count == [refreshedPageCount EXCEPT ![b] = @ + Cardinality(ValidUnits(b, p))]
<1>1. /\ b \in Block /\ p \in ValidPages(b) /\ count \in [Block -> Nat]
      /\ IF CopyError(b, p) # NoPanic THEN Panic(CopyError(b, p))
         ELSE CopyPage(b, p, count) /\ UNCHANGED <<eraseCount, controlVars, panic>>
  BY RefreshedPage
<1>2. pc # "fill"
  BY DEF RefreshLayerPage
<1> HIDE DEF b, p, count
<1>3. CASE CopyError(b, p) # NoPanic
  <2>1. CopyError(b, p) \notin Corruptions
    BY <1>1, <1>3, CopyNotCorrupted DEF SafetyInv, Corruptions, NoPanic
  <2> QED
    BY <1>1, <1>3, <2>1, PanicSafe
<1>4. CASE CopyError(b, p) = NoPanic
  BY <1>1, <1>2, <1>4, CopySafe
<1>5. QED
  BY <1>3, <1>4

-----------------------------------------------------------------------------
(* The specification *)

(* A formatted drive: the blocks behind the lanes are free. *)
LEMMA InitSafety == Init => SafetyInv
<1> SUFFICES ASSUME Init
             PROVE  SafetyInv
  OBVIOUS
<1>0. /\ NL < NB /\ NL \in Nat \ {0} /\ NB \in Nat \ {0} /\ NP \in Nat \ {0}
      /\ BadBlock \in Nat \ {0} /\ 0 \in Unit
  BY SizesAssumption, OverProvisionAssumption, PolicyAssumption DEF Unit
<1>1. Inv
  BY InitInv
<1>2. /\ freeBlocks \in Seq(Block) /\ DOMAIN freeBlocks = 1 .. NB-NL
      /\ \A i \in 1 .. NB-NL : freeBlocks[i] = NL + i - 1
      /\ Len(freeBlocks) = nFreeBlocks
  BY <1>0, <1>1 DEF Init, Inv, MoveInv, MoveTypeOK, FreeCount
<1>3. FreeListExact
  <2>1. IsInjective(freeBlocks)
    BY <1>0, <1>2 DEF IsInjective
  <2>2. ASSUME NEW b \in Block
        PROVE  b \in blocks <=> b \notin Range(freeBlocks)
    <3>1. b \in blocks <=> b < NL
      BY <1>0 DEF Init, Lane, Block
    <3>2. b \in Range(freeBlocks) <=> \E i \in 1 .. NB-NL : b = NL + i - 1
      BY <1>2 DEF Range
    <3>3. CASE b < NL
      BY <1>0, <3>1, <3>2, <3>3
    <3>4. CASE ~(b < NL)
      <4>1. b - NL + 1 \in 1 .. NB-NL /\ b = NL + (b - NL + 1) - 1
        BY <1>0, <3>4 DEF Block
      <4> QED
        BY <3>1, <3>2, <3>4, <4>1
    <3> QED
      BY <3>3, <3>4
  <2>3. \A b \in Block : ~(eraseCount[b] >= BadBlock)
    BY <1>0 DEF Init
  <2> QED
    BY <1>2, <2>1, <2>2, <2>3 DEF FreeListExact
<1>4. FreeSorted
  BY <1>1 DEF Init, FreeSorted, Inv, MoveInv, MoveTypeOK
<1>5. VictimsInUse
  BY DEF Init, VictimsInUse
<1>6. FillCounted
  <2> SUFFICES ASSUME FillTotal # 0
               PROVE  filled < FillTotal /\ FillShape
    BY DEF Init, FillCounted
  <2>1. filled < FillTotal
    BY FillRoom DEF Init
  <2>2. Below(Pointer) = {}
    BY <1>0 DEF Init, Below, Pointer, PageIdx
  <2>3. Cardinality(Below(Pointer)) = filled
    BY <2>2, FS_EmptySet DEF Init
  <2>4. Cardinality(blocks) + nFreeBlocks = NB
    <3>1. Cardinality(Lane) = NL
      BY <1>0, FS_Interval DEF Lane
    <3> QED
      BY <1>0, <3>1 DEF Init
  <2>5. \A b \in Block, u \in Unit : next[b][u] = Pointer[b]
    BY <1>0 DEF Init, Pointer
  <2>6. blocks \ Range(lastFreeBlock) = {}
    BY DEF Init, Range
  <2> QED
    BY <2>1, <2>3, <2>4, <2>5, <2>6 DEF FillShape
<1>7. NoCorruption
  BY DEF Init, NoCorruption, Corruptions, NoPanic
<1>8. QED
  BY <1>3, <1>4, <1>5, <1>6, <1>7 DEF SafetyInv

(* No step of any handler breaks the invariant. *)
LEMMA NextSafety == Inv /\ SafetyInv /\ [Next]_vars => SafetyInv'
<1> SUFFICES ASSUME Inv, SafetyInv, [Next]_vars
             PROVE  SafetyInv'
  OBVIOUS
<1>1. CASE HostStep
  BY <1>1, FillSafe, WriteSafe, ReadSafe, TrimSafe, FormatSafe DEF HostStep
<1>2. CASE GCStep
  BY <1>2, SelectSafe, CopyVictimPageSafe, VictimCopiedSafe, EraseInternalSafe DEF GCStep
<1>3. CASE RefreshStep
  BY <1>3, RefreshControlSafe, RefreshLayerPageSafe DEF RefreshStep
<1>4. CASE UNCHANGED vars
  BY <1>4, StutterSafe
<1>5. QED
  BY <1>1, <1>2, <1>3, <1>4 DEF Next

(* The free list, its order, the victims and the count of the fill form an *)
(* inductive invariant next to the mapping.                                *)
THEOREM SafetyInvariance == Spec => []SafetyInv
<1>1. QED
  BY Invariance, InitSafety, NextSafety, PTL DEF Spec

(* Every block is in use, in the free list once, or worn out, and          *)
(* nFreeBlocks, which decides on garbage collection, counts the list.      *)
THEOREM FreeListAlwaysExact == Spec => []FreeListExact
<1>1. SafetyInv => FreeListExact
  BY DEF SafetyInv
<1>2. QED
  BY <1>1, SafetyInvariance, PTL

-----------------------------------------------------------------------------
(* Wear *)

(* One step takes only a block that is worn least in its lane. *)
LeastWornTaken ==
    \A b \in blocks' \ blocks, c \in Range(freeBlocks) :
        c % NL = b % NL => eraseCount[b] <= eraseCount[c]

(* A write, a fill or a copy takes a block through getLastFreeBlock(). *)
LEMMA MoveTakesLeastWorn ==
    ASSUME Inv, SafetyInv, NEW io \in IOMaps, LaneError(io) = NoPanic,
           NEW count \in [Block -> Nat], GetLastFreeBlock(io, count)
    PROVE  LeastWornTaken
<1>1. blocks' = blocks \cup {Target(io)}
  BY LaneStep DEF Inv, MoveInv
<1> SUFFICES ASSUME NEW b \in {Target(io)} \ blocks, NEW c \in Range(freeBlocks),
                    c % NL = b % NL
             PROVE  eraseCount[b] <= eraseCount[c]
  BY <1>1 DEF LeastWornTaken
<1>2. QED
  BY LaneTakesLeastWorn DEF SafetyInv

(* No other step takes a block. *)
LEMMA NextTakesLeastWorn == Inv /\ SafetyInv /\ [Next]_vars => LeastWornTaken
<1> SUFFICES ASSUME Inv, SafetyInv, [Next]_vars
             PROVE  LeastWornTaken
  OBVIOUS
<1>0. refreshedPageCount \in [Block -> Nat]
  BY DEF Inv, MoveInv, MoveTypeOK
<1>1. CASE blocks' \subseteq blocks
  BY <1>1 DEF LeastWornTaken
<1>2. ASSUME NEW m, Panic(m)
      PROVE  blocks' \subseteq blocks
  BY <1>2 DEF Panic, freeVars
<1>3. ASSUME NEW l \in LPN, NEW io \in IOMaps, NEW d \in Data,
             WriteError(l, io) = NoPanic, WriteUnits(l, io, d)
      PROVE  LeastWornTaken
  BY <1>0, <1>3, MoveTakesLeastWorn DEF WriteUnits, WriteError, NoPanic
<1>4. ASSUME NEW b \in Block, NEW p \in ValidPages(b), NEW count \in [Block -> Nat],
             CopyError(b, p) = NoPanic, CopyPage(b, p, count)
      PROVE  LeastWornTaken
  <2>1. ValidUnits(b, p) \in IOMaps
    BY DEF ValidPages, ValidUnits, IOMaps
  <2> QED
    BY <1>4, <2>1, MoveTakesLeastWorn DEF CopyPage, CopyError, NoPanic
<1>5. ASSUME NEW l \in LPN, NEW d \in Data, Fill(l, d)
      PROVE  LeastWornTaken
  BY <1>1, <1>2, <1>3, <1>5, UnitIsIOMap DEF Fill
<1>6. ASSUME NEW l \in LPN, NEW io \in IOMaps, NEW d \in Data, Write(l, io, d)
      PROVE  LeastWornTaken
  BY <1>1, <1>2, <1>3, <1>6 DEF Write
<1>7. ASSUME NEW l \in LPN, NEW io \in IOMaps, Read(l, io)
      PROVE  blocks' \subseteq blocks
  <2>1. Panic("BlockNotInUse") \/ UNCHANGED vars
    BY <1>7, Zenon DEF Read
  <2> QED
    BY <1>2, <2>1 DEF vars, freeVars
<1>8. ASSUME NEW l \in LPN, Trim(l)
      PROVE  blocks' \subseteq blocks
  BY <1>2, <1>8 DEF Trim, freeVars
<1>9. ASSUME NEW range \in FormatRanges, Format(range)
      PROVE  blocks' \subseteq blocks
  BY <1>2, <1>9 DEF Format, freeVars
<1>10. CASE SelectVictimBlock
  <2>1. Panic("OutOfRange") \/ Hang \/ UNCHANGED freeVars
    BY <1>10, Zenon DEF SelectVictimBlock
  <2> QED
    BY <1>1, <1>2, <2>1 DEF Hang, freeVars
<1>11. CASE CopyVictimPage
  <2> DEFINE b == Head(toReclaim)
             p == Min(ValidPages(b))
  <2>1. b \in Block
    BY <1>11 DEF CopyVictimPage, Inv, ControlTypeOK
  <2>2. p \in ValidPages(b)
    <3>1. ValidPages(b) \subseteq Nat /\ ValidPages(b) # {}
      BY <1>11 DEF CopyVictimPage, ValidPages, PageIdx
    <3> QED
      BY <3>1, MinOfNat
  <2>3. \/ Panic("InvalidBlock") \/ Panic(CopyError(b, p))
        \/ CopyError(b, p) = NoPanic /\ CopyPage(b, p, refreshedPageCount)
    BY <1>11 DEF CopyVictimPage
  <2> HIDE DEF b, p
  <2> QED
    BY <1>0, <1>1, <1>2, <1>4, <2>1, <2>2, <2>3
<1>12. CASE VictimCopied
  BY <1>1, <1>2, <1>12 DEF VictimCopied, freeVars
<1>13. CASE EraseInternal
  BY <1>1, <1>2, <1>13 DEF EraseInternal, ReturnBlock
<1>14. CASE RefreshLayerPage
  <2> DEFINE b == Head(layers)[1]
             p == Min(LayerPages(b, Head(layers)[2]))
             count == [refreshedPageCount EXCEPT ![b] = @ + Cardinality(ValidUnits(b, p))]
  <2>1. /\ b \in Block /\ p \in ValidPages(b) /\ count \in [Block -> Nat]
        /\ IF CopyError(b, p) # NoPanic THEN Panic(CopyError(b, p))
           ELSE CopyPage(b, p, count) /\ UNCHANGED <<eraseCount, controlVars, panic>>
    BY <1>14, RefreshedPage
  <2> HIDE DEF b, p, count
  <2> QED
    BY <1>1, <1>2, <1>4, <2>1
<1>15. CASE (\E ls \in RefreshLists : RefreshEvent(ls)) \/ LayerRefreshed \/ RefreshDone
  BY <1>1, <1>15 DEF RefreshEvent, LayerRefreshed, RefreshDone, freeVars
<1>16. CASE UNCHANGED vars
  BY <1>1, <1>16 DEF vars, freeVars
<1>17. QED
  BY <1>1, <1>5, <1>6, <1>7, <1>8, <1>9, <1>10, <1>11, <1>12, <1>13, <1>14, <1>15, <1>16
     DEF Next, HostStep, GCStep, RefreshStep

(* A lane takes a block erased least often among the free ones of its      *)
(* lane, in every step that takes one, because eraseInternal() keeps the   *)
(* whole list in order of wear.                                            *)
THEOREM WearAlwaysInOrder == Spec => WearOrder
<1>1. Inv /\ SafetyInv /\ [Next]_vars =>
        [\A b \in blocks' \ blocks, c \in Range(freeBlocks) :
            c % NL = b % NL => eraseCount[b] <= eraseCount[c]]_vars
  BY NextTakesLeastWorn DEF LeastWornTaken
<1>2. QED
  BY <1>1, Invariance, SafetyInvariance, PTL DEF Spec, WearOrder

-----------------------------------------------------------------------------
(* Victims *)

(* Victims that garbage collection chose itself are full, so that no copy  *)
(* goes to them, and are queued for the erase when they are empty.         *)
VictimsDrained ==
    pc \in {"copy", "erase"} =>
        /\ \A v \in Range(toReclaim) \cup Range(toErase) : Full(v)
        /\ \A v \in Range(toErase) : ValidPages(v) = {}

(* A copy goes to a block that is not full, or to one that was free. *)
LEMMA TargetIsNoVictim ==
    ASSUME Inv, FreeListExact, NEW io \in IOMaps, LaneError(io) = NoPanic,
           NEW v \in blocks, Full(v)
    PROVE  v # Target(io)
<1>1. MoveTypeOK /\ FreeCount /\ freeBlocks \in Seq(Block)
  BY DEF Inv, MoveInv, MoveTypeOK
<1>2. CASE Full(lastFreeBlock[LaneFor(io)])
  BY <1>1, <1>2, TargetProperties, FreeBlockAt, FreeNotInUse
<1>3. CASE ~Full(lastFreeBlock[LaneFor(io)])
  BY <1>1, <1>3, TargetProperties
<1>4. QED
  BY <1>2, <1>3

(* A copy programs its target and invalidates, and leaves every victim     *)
(* full and every drained victim empty.                                    *)
LEMMA CopyKeepsVictims ==
    ASSUME Inv, SafetyInv, VictimsDrained, NEW b \in Block, NEW p \in ValidPages(b),
           NEW count \in [Block -> Nat], CopyError(b, p) = NoPanic, CopyPage(b, p, count),
           UNCHANGED controlVars
    PROVE  VictimsDrained'
<1> DEFINE io == ValidUnits(b, p)
           t  == Target(io)
<1>0. io \in IOMaps /\ LaneError(io) = NoPanic
  BY DEF ValidPages, ValidUnits, IOMaps, CopyError, NoPanic
<1> SUFFICES ASSUME pc \in {"copy", "erase"}
             PROVE  /\ \A v \in Range(toReclaim) \cup Range(toErase) : Full(v)'
                    /\ \A v \in Range(toErase) : ValidPages(v)' = {}
  BY DEF VictimsDrained, controlVars
<1>1. ASSUME NEW v \in Range(toReclaim) \cup Range(toErase)
      PROVE  v \in Block /\ v # t /\ Full(v)
  <2>1. v \in blocks /\ Full(v) /\ FreeListExact
    BY DEF SafetyInv, VictimsInUse, VictimsDrained
  <2> QED
    BY <1>0, <2>1, TargetIsNoVictim DEF Inv, MoveInv, MoveTypeOK
<1>2. /\ \A c \in Block : c # t => next'[c] = next[c]
      /\ \A c \in Block, q \in PageIdx, u \in Unit :
            c # t => page'[c][q][u] \in {NoContent, page[c][q][u]}
  BY DEF CopyPage, Program, Inv, MoveInv, MoveTypeOK
<1> HIDE DEF t
<1>3. ASSUME NEW v \in Range(toReclaim) \cup Range(toErase)
      PROVE  Full(v)'
  BY <1>1, <1>2 DEF Full
<1>4. ASSUME NEW v \in Range(toErase)
      PROVE  ValidPages(v)' = {}
  <2>1. \A q \in PageIdx, u \in Unit : page[v][q][u] = NoContent
    BY DEF VictimsDrained, ValidPages, ValidUnits
  <2>2. v \in Block /\ v # t
    BY <1>1
  <2>3. \A q \in PageIdx, u \in Unit : page'[v][q][u] = NoContent
    BY <1>2, <2>1, <2>2
  <2> QED
    BY <2>3 DEF ValidPages, ValidUnits
<1>5. QED
  BY <1>3, <1>4

(* Without formats no step leaves a valid page in a drained victim. *)
LEMMA NextDrained ==
    ASSUME FormatRanges = {}, Inv, SafetyInv, VictimsDrained, VictimsEmpty, [Next]_vars
    PROVE  VictimsDrained' /\ VictimsEmpty'
<1>0. refreshedPageCount \in [Block -> Nat]
  BY DEF Inv, MoveInv, MoveTypeOK
<1>1. ASSUME NEW m, m # "ValidPagesInVictim", Panic(m)
      PROVE  VictimsDrained' /\ VictimsEmpty'
  BY <1>1 DEF Panic, VictimsDrained, VictimsEmpty
<1>2. ASSUME NEW l \in LPN, NEW d \in Data, Fill(l, d)
      PROVE  VictimsDrained' /\ VictimsEmpty'
  <2>1. CASE WriteError(l, Unit) # NoPanic
    BY <1>1, <1>2, <2>1, WriteNotCorrupted, UnitIsIOMap DEF Fill, SafetyInv, NoPanic
  <2>2. CASE WriteError(l, Unit) = NoPanic
    BY <1>2, <2>2 DEF Fill, VictimsDrained, VictimsEmpty
  <2> QED
    BY <2>1, <2>2
<1>3. ASSUME NEW l \in LPN, NEW io \in IOMaps, NEW d \in Data, Write(l, io, d)
      PROVE  VictimsDrained' /\ VictimsEmpty'
  <2>1. CASE WriteError(l, io) # NoPanic
    BY <1>1, <1>3, <2>1, WriteNotCorrupted DEF Write, SafetyInv, NoPanic
  <2>2. CASE WriteError(l, io) = NoPanic
    BY <1>3, <2>2 DEF Write, VictimsDrained, VictimsEmpty
  <2> QED
    BY <2>1, <2>2
<1>4. CASE UNCHANGED vars
  BY <1>4 DEF vars, blockVars, controlVars, VictimsDrained, VictimsEmpty, Full, ValidPages,
              ValidUnits
<1>5. ASSUME NEW l \in LPN, NEW io \in IOMaps, Read(l, io)
      PROVE  VictimsDrained' /\ VictimsEmpty'
  <2>1. Panic("BlockNotInUse") \/ UNCHANGED vars
    BY <1>5, Zenon DEF Read
  <2> QED
    BY <1>1, <1>4, <2>1
<1>6. ASSUME NEW l \in LPN, Trim(l)
      PROVE  VictimsDrained' /\ VictimsEmpty'
  <2>1. CASE ForgetError({l}) # NoPanic
    BY <1>1, <1>6, <2>1 DEF Trim, ForgetError, NoPanic
  <2>2. CASE ForgetError({l}) = NoPanic
    BY <1>6, <2>2 DEF Trim, controlVars, VictimsDrained, VictimsEmpty
  <2> QED
    BY <2>1, <2>2
<1>7. CASE SelectVictimBlock
  <2>1. CASE Hang \/ Panic("OutOfRange")
    BY <1>1, <2>1 DEF Hang, VictimsDrained, VictimsEmpty
  <2>2. CASE ~Hang /\ ~Panic("OutOfRange")
    <3>1. UNCHANGED <<next, panic>>
      BY <1>7, <2>2, Zenon DEF SelectVictimBlock, blockVars
    <3>2. PICK S \in Samples :
             \E list \in LowestFirst(S, Min({VictimCount, Cardinality(S)})) :
                 StartGC(list, after)
      BY <1>7, <2>2, Zenon DEF SelectVictimBlock
    <3> DEFINE n == Min({VictimCount, Cardinality(S)})
    <3>3. PICK list \in LowestFirst(S, n) : StartGC(list, after)
      BY <3>2, Zenon
    <3> HIDE DEF n
    <3>4. \A v \in Range(list) : Full(v)
      <4>1. list \in [1 .. n -> S]
        BY <3>3 DEF LowestFirst
      <4>2. \A v \in S : Full(v)
        BY DEF Samples, Candidates
      <4> QED
        BY <4>1, <4>2 DEF Range
    <3>5. toReclaim' = list /\ toErase' = <<>>
      BY <3>3 DEF StartGC
    <3>6. Range(<<>>) = {}
      BY DEF Range
    <3> QED
      BY <3>1, <3>4, <3>5, <3>6 DEF VictimsDrained, VictimsEmpty, Full
  <2> QED
    BY <2>1, <2>2
<1>8. CASE CopyVictimPage
  <2> DEFINE b == Head(toReclaim)
             p == Min(ValidPages(b))
  <2>1. b \in Block
    BY <1>8 DEF CopyVictimPage, Inv, ControlTypeOK
  <2>2. p \in ValidPages(b)
    <3>1. ValidPages(b) \subseteq Nat /\ ValidPages(b) # {}
      BY <1>8 DEF CopyVictimPage, ValidPages, PageIdx
    <3> QED
      BY <3>1, MinOfNat
  <2>3. \/ Panic("InvalidBlock")
        \/ Panic(CopyError(b, p))
        \/ /\ CopyError(b, p) = NoPanic /\ CopyPage(b, p, refreshedPageCount)
           /\ UNCHANGED <<controlVars, panic>>
    BY <1>8 DEF CopyVictimPage
  <2> HIDE DEF b, p
  <2>4. CopyError(b, p) # "ValidPagesInVictim"
    BY <2>1, <2>2, CopyNotCorrupted DEF SafetyInv, NoPanic
  <2> QED
    BY <1>0, <1>1, <2>1, <2>2, <2>3, <2>4, CopyKeepsVictims DEF VictimsEmpty
<1>9. CASE VictimCopied
  <2> DEFINE b == Head(toReclaim)
  <2>1. /\ toReclaim \in Seq(Block) /\ toReclaim # <<>> /\ toErase \in Seq(Block)
        /\ pc = "copy" /\ ValidPages(b) = {} /\ b \in Block /\ b \in Range(toReclaim)
    BY <1>9, HeadInRange DEF VictimCopied, Inv, ControlTypeOK
  <2>2. CASE b \notin blocks
    BY <1>1, <1>9, <2>2 DEF VictimCopied
  <2>3. CASE b \in blocks
    <3>1. /\ toReclaim' = Tail(toReclaim) /\ toErase' = Append(toErase, b)
          /\ UNCHANGED <<page, next, panic>>
      BY <1>9, <2>3 DEF VictimCopied, blockVars
    <3>2. /\ IsInjective(toReclaim) /\ IsInjective(toErase) /\ b \notin Range(toErase)
      BY <2>1 DEF SafetyInv, VictimsInUse
    <3>3. Range(toReclaim') \subseteq Range(toReclaim)
      BY <2>1, <3>1, <3>2, TailInjective
    <3> HIDE DEF b
    <3>4. Range(toErase') = Range(toErase) \cup {b}
      BY <2>1, <3>1, <3>2, AppendNewInjective
    <3> QED
      BY <2>1, <3>1, <3>3, <3>4 DEF VictimsDrained, VictimsEmpty, Full, ValidPages, ValidUnits
  <2> QED
    BY <2>2, <2>3
<1>10. CASE EraseInternal
  <2> DEFINE b == Head(toErase)
  <2>1. /\ toErase \in Seq(Block) /\ toErase # <<>> /\ pc = "erase"
        /\ b \in Block /\ b \in Range(toErase)
    BY <1>10, HeadInRange DEF EraseInternal, Inv, ControlTypeOK
  <2>2. /\ b \in blocks /\ IsInjective(toErase) /\ b \notin Range(toReclaim)
        /\ Range(toReclaim) \cup Range(toErase) \subseteq Block
    BY <2>1 DEF SafetyInv, VictimsInUse, Inv, MoveInv, MoveTypeOK
  <2>3. ValidPages(b) = {}
    BY <2>1 DEF VictimsDrained
  <2>4. EraseError(b) = NoPanic
    BY <2>2, <2>3 DEF EraseError
  <2>5. /\ EraseBlock(b) /\ toErase' = Tail(toErase) /\ UNCHANGED <<toReclaim, panic>>
    BY <1>10, <2>4 DEF EraseInternal
  <2>6. Range(toErase') = Range(toErase) \ {b}
    BY <2>1, <2>2, <2>5, TailInjective
  <2> HIDE DEF b
  <2>7. \A v \in Block : v # b => next'[v] = next[v] /\ page'[v] = page[v]
    BY <2>1, <2>5 DEF EraseBlock, Inv, MoveInv, MoveTypeOK
  <2>8. ASSUME NEW v \in Range(toReclaim') \cup Range(toErase')
        PROVE  /\ v \in Range(toReclaim) \cup Range(toErase)
               /\ next'[v] = next[v] /\ page'[v] = page[v]
    BY <2>2, <2>5, <2>6, <2>7
  <2>9. VictimsDrained'
    BY <2>1, <2>5, <2>6, <2>8 DEF VictimsDrained, Full, ValidPages, ValidUnits
  <2> QED
    BY <2>5, <2>9 DEF VictimsEmpty
<1>11. CASE RefreshLayerPage
  <2> DEFINE b == Head(layers)[1]
             p == Min(LayerPages(b, Head(layers)[2]))
             count == [refreshedPageCount EXCEPT ![b] = @ + Cardinality(ValidUnits(b, p))]
  <2>1. /\ b \in Block /\ p \in ValidPages(b) /\ count \in [Block -> Nat]
        /\ IF CopyError(b, p) # NoPanic THEN Panic(CopyError(b, p))
           ELSE CopyPage(b, p, count) /\ UNCHANGED <<eraseCount, controlVars, panic>>
    BY <1>11, RefreshedPage
  <2> HIDE DEF b, p, count
  <2>2. CopyError(b, p) # "ValidPagesInVictim"
    BY <2>1, CopyNotCorrupted DEF SafetyInv, NoPanic
  <2> QED
    BY <1>1, <2>1, <2>2, CopyKeepsVictims DEF VictimsEmpty
<1>12. CASE (\E ls \in RefreshLists : RefreshEvent(ls)) \/ LayerRefreshed \/ RefreshDone
  <2>1. pc' \in {"select", "refresh", "idle"} /\ UNCHANGED panic
    BY <1>12 DEF RefreshEvent, LayerRefreshed, RefreshDone
  <2> QED
    BY <2>1 DEF VictimsDrained, VictimsEmpty
<1>13. QED
  BY <1>2, <1>3, <1>4, <1>5, <1>6, <1>7, <1>8, <1>9, <1>10, <1>11, <1>12
     DEF Next, HostStep, GCStep, RefreshStep

(* Without formats a victim has no valid page when it is erased: no page   *)
(* of a later victim is copied into an earlier one.  A format may reclaim  *)
(* a block that a lane still writes to, so the hypothesis is needed.       *)
THEOREM VictimsAlwaysEmpty == FormatRanges = {} => (Spec => []VictimsEmpty)
<1> SUFFICES ASSUME FormatRanges = {}
             PROVE  Spec => []VictimsEmpty
  OBVIOUS
<1>1. Init => VictimsDrained /\ VictimsEmpty
  BY DEF Init, VictimsDrained, VictimsEmpty, NoPanic
<1>2. Inv /\ SafetyInv /\ (VictimsDrained /\ VictimsEmpty) /\ [Next]_vars
         => (VictimsDrained /\ VictimsEmpty)'
  BY NextDrained
<1>3. QED
  BY <1>1, <1>2, Invariance, SafetyInvariance, PTL DEF Spec

-----------------------------------------------------------------------------
(* Why the code stops *)

(* The cause of a panic about a page that is trimmed or read, and of one   *)
(* about the block of a lane                                               *)
CauseOf(m) ==
    /\ m = "BlockNotInUse" =>
          \E l \in LPN : Mapped(l) /\ \E u \in Unit : table[l][u] = NoPlace
    /\ m = "Corrupted" =>
          \E k \in Lane : /\ lastFreeBlock[k] \notin blocks
                          /\ eraseCount[lastFreeBlock[k]] > 0

(* A lane loses its block only to an erase. *)
LanesErased ==
    \A k \in Lane : lastFreeBlock[k] \in blocks \/ eraseCount[lastFreeBlock[k]] > 0

(* The simulator stays where a panic stopped it. *)
StopInv == (panic # NoPanic => pc = "panic") /\ CauseOf(panic) /\ LanesErased

(* A panic with a cause *)
LEMMA PanicCaused ==
    ASSUME StopInv, NEW m, CauseOf(m), Panic(m)
    PROVE  StopInv'
<1>1. /\ pc' = "panic" /\ panic' = m
      /\ UNCHANGED <<table, blocks, lastFreeBlock, eraseCount>>
  BY DEF Panic, wearVars, freeVars, laneVars
<1>2. CauseOf(panic)'
  BY <1>1 DEF CauseOf, Mapped
<1>3. LanesErased'
  BY <1>1 DEF StopInv, LanesErased
<1>4. QED
  BY <1>1, <1>2, <1>3 DEF StopInv

(* A step without a panic *)
LEMMA GoesOn ==
    ASSUME StopInv, pc # "panic", UNCHANGED panic, LanesErased'
    PROVE  StopInv'
<1>1. panic' = NoPanic
  BY DEF StopInv
<1>2. CauseOf(panic)'
  BY <1>1 DEF CauseOf, NoPanic
<1>3. QED
  BY <1>1, <1>2 DEF StopInv

(* Steps that leave the lanes alone and erase nothing *)
LEMMA LanesStutter ==
    ASSUME StopInv, UNCHANGED <<blocks, lastFreeBlock, eraseCount>>
    PROVE  LanesErased'
BY DEF StopInv, LanesErased

(* getLastFreeBlock() gives a lane a block in use. *)
LEMMA MoveLanes ==
    ASSUME Inv, StopInv, NEW io \in IOMaps, LaneError(io) = NoPanic,
           NEW count \in [Block -> Nat], GetLastFreeBlock(io, count),
           UNCHANGED eraseCount
    PROVE  LanesErased'
<1>1. MoveTypeOK /\ FreeCount
  BY DEF Inv, MoveInv
<1>2. blocks' = blocks \cup {Target(io)}
  BY <1>1, LaneStep
<1>3. \/ lastFreeBlock' = lastFreeBlock
      \/ lastFreeBlock' = [lastFreeBlock EXCEPT ![LaneFor(io)] = Target(io)]
  BY DEF GetLastFreeBlock
<1>4. \A k \in Lane : lastFreeBlock'[k] = lastFreeBlock[k] \/ lastFreeBlock'[k] = Target(io)
  BY <1>1, <1>3 DEF MoveTypeOK
<1>5. QED
  BY <1>2, <1>4 DEF StopInv, LanesErased

(* A lane whose block is gone lost it to an erase. *)
LEMMA LaneCause ==
    ASSUME Inv, SafetyInv, StopInv, NEW io \in IOMaps
    PROVE  CauseOf(LaneError(io))
<1>1. LaneFor(io) \in Lane
  BY LaneForType DEF Inv, MoveInv, MoveTypeOK
<1>2. LaneError(io) \in {NoPanic, "Corrupted", "NoFreeBlockLeft"}
  BY LaneNotCorrupted DEF SafetyInv
<1>3. LaneError(io) = "Corrupted" => lastFreeBlock[LaneFor(io)] \notin blocks
  BY DEF LaneError, NoPanic
<1>4. QED
  BY <1>1, <1>2, <1>3 DEF CauseOf, StopInv, LanesErased, NoPanic

(* A page whose block is not in use has a unit that was never written.     *)
LEMMA ForgetCause ==
    ASSUME Inv, NEW lpns \in SUBSET LPN
    PROVE  CauseOf(ForgetError(lpns))
<1>1. CASE ForgetError(lpns) = NoPanic
  BY <1>1 DEF CauseOf, NoPanic
<1>2. CASE ForgetError(lpns) # NoPanic
  <2>1. ForgetError(lpns) = "BlockNotInUse"
    BY <1>2 DEF ForgetError
  <2>2. PICK l \in lpns : Mapped(l) /\ \E u \in Unit : table[l][u][1] \notin blocks
    BY <1>2 DEF ForgetError
  <2>3. PICK u \in Unit : table[l][u][1] \notin blocks
    BY <2>2
  <2>4. table[l][u] = NoPlace
    BY <2>3 DEF Inv, MoveInv, MappingConsistent, TableSound
  <2> QED
    BY <2>1, <2>2, <2>4 DEF CauseOf
<1>3. QED
  BY <1>1, <1>2

(* The steps of the host *)
LEMMA HostStops ==
    ASSUME Inv, SafetyInv, SafetyInv', StopInv, HostStep
    PROVE  StopInv'
<1>0. refreshedPageCount \in [Block -> Nat]
  BY DEF Inv, MoveInv, MoveTypeOK
<1>1. ASSUME NEW l \in LPN, NEW io \in IOMaps
      PROVE  CauseOf(WriteError(l, io))
  <2>1. WriteError(l, io) = LaneError(io)
    BY DEF WriteError, IOMaps, Inv, MoveInv, MappingConsistent, TableSound
  <2> QED
    BY <2>1, LaneCause
<1>2. ASSUME NEW l \in LPN, NEW io \in IOMaps, NEW d \in Data,
             WriteError(l, io) = NoPanic, WriteUnits(l, io, d)
      PROVE  LanesErased'
  BY <1>0, <1>2, MoveLanes DEF WriteUnits, WriteError, NoPanic
<1>3. ASSUME NEW l \in LPN, NEW d \in Data, Fill(l, d)
      PROVE  StopInv'
  <2>1. CASE WriteError(l, Unit) # NoPanic
    BY <1>1, <1>3, <2>1, PanicCaused, UnitIsIOMap DEF Fill
  <2>2. CASE WriteError(l, Unit) = NoPanic
    <3>1. LanesErased' /\ pc # "panic"
      BY <1>2, <1>3, <2>2, UnitIsIOMap DEF Fill
    <3>2. panic' # "GCInInitialization"
      BY DEF SafetyInv, NoCorruption, Corruptions
    <3>3. UNCHANGED panic
      BY <1>3, <2>2, <3>2 DEF Fill
    <3> QED
      BY <3>1, <3>3, GoesOn
  <2> QED
    BY <2>1, <2>2
<1>4. ASSUME NEW l \in LPN, NEW io \in IOMaps, NEW d \in Data, Write(l, io, d)
      PROVE  StopInv'
  <2>1. CASE WriteError(l, io) # NoPanic
    BY <1>1, <1>4, <2>1, PanicCaused DEF Write
  <2>2. CASE WriteError(l, io) = NoPanic
    <3>1. LanesErased' /\ pc # "panic" /\ UNCHANGED panic
      BY <1>2, <1>4, <2>2 DEF Write
    <3> QED
      BY <3>1, GoesOn
  <2> QED
    BY <2>1, <2>2
<1>5. ASSUME NEW l \in LPN, NEW io \in IOMaps, Read(l, io)
      PROVE  StopInv'
  <2>1. \A u \in io : table[l][u] # NoPlace => table[l][u][1] \in blocks
    BY DEF IOMaps, Inv, MoveInv, MappingConsistent, TableSound
  <2>2. pc # "panic" /\ UNCHANGED vars
    BY <1>5, <2>1 DEF Read
  <2>3. UNCHANGED <<blocks, lastFreeBlock, eraseCount, panic>>
    BY <2>2 DEF vars, freeVars, laneVars, wearVars
  <2> QED
    BY <2>2, <2>3, LanesStutter, GoesOn
<1>6. ASSUME NEW l \in LPN, Trim(l)
      PROVE  StopInv'
  <2>1. CASE ForgetError({l}) # NoPanic
    <3>1. CauseOf(ForgetError({l}))
      BY ForgetCause
    <3> QED
      BY <1>6, <2>1, <3>1, PanicCaused DEF Trim
  <2>2. CASE ForgetError({l}) = NoPanic
    <3>1. pc # "panic" /\ UNCHANGED <<blocks, lastFreeBlock, eraseCount, panic>>
      BY <1>6, <2>2 DEF Trim, freeVars, laneVars, wearVars
    <3> QED
      BY <3>1, LanesStutter, GoesOn
  <2> QED
    BY <2>1, <2>2
<1>7. ASSUME NEW range \in FormatRanges, Format(range)
      PROVE  StopInv'
  <2>1. CASE ForgetError(range) # NoPanic
    <3>1. CauseOf(ForgetError(range))
      BY ForgetCause, SizesAssumption
    <3> QED
      BY <1>7, <2>1, <3>1, PanicCaused DEF Format
  <2>2. CASE ForgetError(range) = NoPanic
    <3>1. pc # "panic" /\ UNCHANGED <<blocks, lastFreeBlock, eraseCount, panic>>
      BY <1>7, <2>2 DEF Format, freeVars, laneVars, wearVars
    <3> QED
      BY <3>1, LanesStutter, GoesOn
  <2> QED
    BY <2>1, <2>2
<1>8. QED
  BY <1>3, <1>4, <1>5, <1>6, <1>7 DEF HostStep

(* A page is copied, by garbage collection or by a refresh. *)
LEMMA CopyStops ==
    ASSUME Inv, SafetyInv, StopInv, pc # "panic",
           NEW b \in Block, NEW p \in ValidPages(b), NEW count \in [Block -> Nat],
           IF CopyError(b, p) # NoPanic THEN Panic(CopyError(b, p))
           ELSE CopyPage(b, p, count) /\ UNCHANGED <<eraseCount, controlVars, panic>>
    PROVE  StopInv'
<1>1. ValidUnits(b, p) \in IOMaps
  BY DEF ValidPages, ValidUnits, IOMaps
<1>2. CASE CopyError(b, p) # NoPanic
  <2>1. CopyError(b, p) = LaneError(ValidUnits(b, p))
    <3>1. CopyError(b, p) # "InvalidMappingEntry"
      BY CopyNotCorrupted DEF SafetyInv, NoPanic
    <3> QED
      BY <3>1 DEF CopyError
  <2>2. CauseOf(CopyError(b, p))
    BY <1>1, <2>1, LaneCause
  <2> QED
    BY <1>2, <2>2, PanicCaused
<1>3. CASE CopyError(b, p) = NoPanic
  <2>1. CopyPage(b, p, count) /\ UNCHANGED <<eraseCount, panic>>
    BY <1>3
  <2>2. LaneError(ValidUnits(b, p)) = NoPanic
    BY <1>3 DEF CopyError, NoPanic
  <2>3. LanesErased'
    BY <1>1, <2>1, <2>2, MoveLanes DEF CopyPage
  <2> QED
    BY <2>1, <2>3, GoesOn
<1>4. QED
  BY <1>2, <1>3

(* The steps of garbage collection *)
LEMMA GCStops ==
    ASSUME Inv, SafetyInv, StopInv, GCStep
    PROVE  StopInv'
<1>1. CASE SelectVictimBlock
  <2>1. \/ Panic("OutOfRange")
        \/ UNCHANGED <<freeVars, laneVars, wearVars, panic>>
    BY <1>1, Zenon DEF SelectVictimBlock, Hang
  <2>2. CauseOf("OutOfRange") /\ pc # "panic"
    BY <1>1 DEF CauseOf, SelectVictimBlock
  <2>3. CASE UNCHANGED <<freeVars, laneVars, wearVars, panic>>
    BY <2>2, <2>3, LanesStutter, GoesOn DEF freeVars, laneVars, wearVars
  <2> QED
    BY <2>1, <2>2, <2>3, PanicCaused
<1>2. CASE CopyVictimPage
  <2> DEFINE b == Head(toReclaim)
             p == Min(ValidPages(b))
  <2>1. toReclaim \in Seq(Block) /\ toReclaim # <<>> /\ pc = "copy"
    BY <1>2 DEF CopyVictimPage, Inv, ControlTypeOK
  <2>2. b \in Block /\ b \in blocks
    BY <2>1, HeadInRange DEF SafetyInv, VictimsInUse
  <2>3. p \in ValidPages(b)
    <3>1. ValidPages(b) \subseteq Nat /\ ValidPages(b) # {}
      BY <1>2 DEF CopyVictimPage, ValidPages, PageIdx
    <3> QED
      BY <3>1, MinOfNat
  <2>4. IF CopyError(b, p) # NoPanic THEN Panic(CopyError(b, p))
        ELSE /\ CopyPage(b, p, refreshedPageCount)
             /\ UNCHANGED <<eraseCount, controlVars, panic>>
    BY <1>2, <2>2 DEF CopyVictimPage
  <2>5. refreshedPageCount \in [Block -> Nat]
    BY DEF Inv, MoveInv, MoveTypeOK
  <2> HIDE DEF b, p
  <2> QED
    BY <2>1, <2>2, <2>3, <2>4, <2>5, CopyStops
<1>3. CASE VictimCopied
  <2>1. pc = "copy"
    BY <1>3 DEF VictimCopied
  <2>2. CauseOf("InvalidBlock")
    BY DEF CauseOf
  <2>3. Panic("InvalidBlock") \/ UNCHANGED <<freeVars, laneVars, wearVars, panic>>
    BY <1>3 DEF VictimCopied
  <2>4. CASE UNCHANGED <<freeVars, laneVars, wearVars, panic>>
    BY <2>1, <2>4, LanesStutter, GoesOn DEF freeVars, laneVars, wearVars
  <2> QED
    BY <2>2, <2>3, <2>4, PanicCaused
<1>4. CASE EraseInternal
  <2> DEFINE b == Head(toErase)
  <2>1. b \in Block /\ pc = "erase"
    BY <1>4 DEF EraseInternal, Inv, ControlTypeOK
  <2>2. CASE EraseError(b) # NoPanic
    <3>1. CauseOf(EraseError(b))
      BY <2>2 DEF EraseError, CauseOf, NoPanic
    <3> QED
      BY <1>4, <2>2, <3>1, PanicCaused DEF EraseInternal
  <2>3. CASE EraseError(b) = NoPanic
    <3>1. EraseBlock(b) /\ ReturnBlock(b) /\ UNCHANGED <<laneVars, panic>>
      BY <1>4, <2>3 DEF EraseInternal
    <3> HIDE DEF b
    <3>2. eraseCount \in [Block -> Nat] /\ lastFreeBlock \in [Lane -> Block]
      BY DEF Inv, MoveInv, MoveTypeOK, ControlTypeOK
    <3>3. /\ blocks' = blocks \ {b} /\ lastFreeBlock' = lastFreeBlock
          /\ eraseCount' = [eraseCount EXCEPT ![b] = @ + 1]
      BY <3>1 DEF EraseBlock, ReturnBlock, laneVars
    <3>4. LanesErased'
      BY <2>1, <3>2, <3>3 DEF StopInv, LanesErased
    <3> QED
      BY <2>1, <3>1, <3>4, GoesOn
  <2> QED
    BY <2>2, <2>3
<1>5. QED
  BY <1>1, <1>2, <1>3, <1>4 DEF GCStep

(* The steps of a refresh *)
LEMMA RefreshStops ==
    ASSUME Inv, SafetyInv, StopInv, RefreshStep
    PROVE  StopInv'
<1>1. CASE (\E ls \in RefreshLists : RefreshEvent(ls)) \/ LayerRefreshed \/ RefreshDone
  <2>1. pc # "panic" /\ UNCHANGED <<blocks, lastFreeBlock, eraseCount, panic>>
    BY <1>1 DEF RefreshEvent, LayerRefreshed, RefreshDone, freeVars, laneVars, wearVars
  <2> QED
    BY <2>1, LanesStutter, GoesOn
<1>2. CASE RefreshLayerPage
  <2> DEFINE b == Head(layers)[1]
             p == Min(LayerPages(b, Head(layers)[2]))
             count == [refreshedPageCount EXCEPT ![b] = @ + Cardinality(ValidUnits(b, p))]
  <2>1. /\ b \in Block /\ p \in ValidPages(b) /\ count \in [Block -> Nat]
        /\ IF CopyError(b, p) # NoPanic THEN Panic(CopyError(b, p))
           ELSE CopyPage(b, p, count) /\ UNCHANGED <<eraseCount, controlVars, panic>>
    BY <1>2, RefreshedPage
  <2>2. pc # "panic"
    BY <1>2 DEF RefreshLayerPage
  <2> HIDE DEF b, p, count
  <2> QED
    BY <2>1, <2>2, CopyStops
<1>3. QED
  BY <1>1, <1>2 DEF RefreshStep

(* Every step keeps the causes. *)
LEMMA NextStops == Inv /\ SafetyInv /\ SafetyInv' /\ StopInv /\ [Next]_vars => StopInv'
<1> SUFFICES ASSUME Inv, SafetyInv, SafetyInv', StopInv, [Next]_vars
             PROVE  StopInv'
  OBVIOUS
<1>1. CASE UNCHANGED vars
  <2>1. UNCHANGED <<table, blocks, lastFreeBlock, eraseCount, pc, panic>>
    BY <1>1 DEF vars, freeVars, laneVars, wearVars, controlVars
  <2>2. LanesErased'
    BY <2>1, LanesStutter
  <2>3. CauseOf(panic)'
    BY <2>1 DEF StopInv, CauseOf, Mapped
  <2> QED
    BY <2>1, <2>2, <2>3 DEF StopInv
<1>2. QED
  BY <1>1, HostStops, GCStops, RefreshStops DEF Next

(* The code stops for known reasons only.  A free block in use, a write to *)
(* a page that is not erased, a mapping into a block not in use, a valid   *)
(* page that is not mapped, a victim that is gone and garbage collection   *)
(* during the fill are impossible.  "Block is not in use" means that a     *)
(* page is trimmed or formatted of which a unit was never written, "valid  *)
(* pages in victim" needs a format, and "Corrupted" means that the block   *)
(* of a lane was erased under it.                                          *)
THEOREM PanicsAlwaysExplained == Spec => []PanicsExplained
<1>1. Init => StopInv
  BY DEF Init, StopInv, CauseOf, LanesErased, NoPanic
<1>2. Spec => []StopInv
  BY <1>1, NextStops, Invariance, SafetyInvariance, PTL DEF Spec
<1>3. Spec => [](panic = "ValidPagesInVictim" => FormatRanges # {})
  <2>1. CASE FormatRanges = {}
    <3>1. VictimsEmpty => (panic = "ValidPagesInVictim" => FormatRanges # {})
      BY DEF VictimsEmpty
    <3> QED
      BY <2>1, <3>1, VictimsAlwaysEmpty, PTL
  <2>2. CASE FormatRanges # {}
    <3>1. panic = "ValidPagesInVictim" => FormatRanges # {}
      BY <2>2
    <3> QED
      BY <3>1, PTL
  <2> QED
    BY <2>1, <2>2
<1>4. SafetyInv /\ StopInv /\ (panic = "ValidPagesInVictim" => FormatRanges # {})
         => PanicsExplained
  BY DEF SafetyInv, NoCorruption, Corruptions, StopInv, CauseOf, PanicsExplained
<1>5. QED
  BY <1>2, <1>3, <1>4, SafetyInvariance, PTL
=============================================================================

------------------------- MODULE RefreshQueueProofs -------------------------
(***************************************************************************)
(* Proofs about the refresh queues: no data without a queue that is going  *)
(* to refresh it, and no layer that the bitmap names is lost.              *)
(***************************************************************************)
EXTENDS RefreshQueue, ListLemmas

-----------------------------------------------------------------------------
(* Groups of layers *)

(* The configurations in which a layer is in its own group: every layer by *)
(* itself, or segments that leave out at most the last layer, as three     *)
(* segments of 21 layers do of 64.                                         *)
Covering ==
    \/ GroupingMode = 0
    \/ GroupingMode \in {2, 3} /\ NLayers <= 3 * Segment + 1

(* A layer is in the group that is inserted for it. *)
LEMMA LayerInGroup ==
    ASSUME Covering, NEW n \in 0 .. NLayers-1
    PROVE  n \in Group(n)
<1>1. NLayers \in Nat \ {0} /\ Segment \in Nat \ {0} /\ GroupingSize \in Nat \ {0}
  BY QueueAssumption
<1>2. CASE GroupingMode = 0
  BY <1>2 DEF Group
<1> DEFINE place == IF n = NLayers-1 THEN n ELSE n % Segment
<1>3. ASSUME NLayers <= 3 * Segment + 1
      PROVE  place \in Nat /\ \E k \in 0 .. 2 : n = place + k * Segment
  <2>1. CASE n = NLayers-1
    <3>1. n = place + 0 * Segment
      BY <1>1, <2>1
    <3> QED
      BY <2>1, <3>1
  <2>2. CASE n # NLayers-1
    <3> DEFINE m == n \div Segment
    <3>1. n % Segment \in 0 .. Segment-1 /\ m \in Int
          /\ Segment * m = n - (n % Segment) /\ m * Segment = n - (n % Segment)
      BY <1>1, Remainder
    <3>2. n < 3 * Segment
      BY <1>1, <1>3, <2>2
    <3> HIDE DEF m
    <3>3. m \in 0 .. 2
      <4>1. m < 3
        <5>1. SUFFICES ASSUME m >= 3 PROVE FALSE
          BY <3>1
        <5>2. Segment * m >= Segment * 3
          BY <1>1, <3>1, <5>1
        <5> QED
          BY <1>1, <3>1, <3>2, <5>2
      <4>2. m >= 0
        <5>1. SUFFICES ASSUME m <= -1 PROVE FALSE
          BY <3>1
        <5>2. Segment * m <= Segment * (-1)
          BY <1>1, <3>1, <5>1
        <5> QED
          BY <1>1, <3>1, <5>2
      <4> QED
        BY <3>1, <4>1, <4>2
    <3>4. n = place + m * Segment
      <4> DEFINE p == m * Segment
                 r == n % Segment
      <4>1. p = n - r /\ r \in 0 .. Segment-1 /\ place = r
        BY <2>2, <3>1
      <4> HIDE DEF p, r
      <4>2. n = r + p
        BY <1>1, <4>1
      <4> HIDE DEF place
      <4> QED
        BY <4>1, <4>2, Zenon DEF p
    <3> QED
      BY <2>2, <3>1, <3>3, <3>4
  <2> QED
    BY <2>1, <2>2
<1>4. CASE GroupingMode = 2 /\ NLayers <= 3 * Segment + 1
  BY <1>3, <1>4 DEF Group
<1>5. CASE GroupingMode = 3 /\ NLayers <= 3 * Segment + 1
  <2> DEFINE first == IF n = NLayers-1 THEN n ELSE (place \div GroupingSize) * GroupingSize
  <2>1. PICK k \in 0 .. 2 : n = place + k * Segment
    BY <1>3, <1>5
  <2>2. \E j \in 0 .. GroupingSize-1 : place = first + j
    <3>1. CASE n = NLayers-1
      <4>1. 0 \in 0 .. GroupingSize-1 /\ place = first + 0
        BY <1>1, <3>1
      <4> QED
        BY <4>1
    <3>2. CASE n # NLayers-1
      <4> DEFINE r == place % GroupingSize
      <4>1. r \in 0 .. GroupingSize-1 /\ (place \div GroupingSize) * GroupingSize = place - r
        <5>1. place \in Int /\ GroupingSize \in Int /\ GroupingSize > 0
          BY <1>1, <1>3, <1>5
        <5> HIDE DEF place
        <5> QED
          BY <5>1, Remainder
      <4>2. first = place - r
        BY <3>2, <4>1
      <4> HIDE DEF first, r, place
      <4>3. place = first + r
        BY <1>1, <1>3, <1>5, <4>1, <4>2
      <4> QED
        BY <4>1, <4>3
    <3> QED
      BY <3>1, <3>2
  <2>3. PICK j \in 0 .. GroupingSize-1 : place = first + j
    BY <2>2
  <2>4. first \in Int
    BY <1>1, <1>3, <1>5
  <2> HIDE DEF first
  <2>5. n = first + k * Segment + j
    BY <1>1, <1>3, <1>5, <2>1, <2>3, <2>4
  <2>6. n \in {first + kk * Segment + jj : kk \in 0 .. 2, jj \in 0 .. GroupingSize-1}
    BY <2>5
  <2> QED
    BY <1>5, <2>6 DEF Group, first
<1>6. QED
  BY <1>2, <1>4, <1>5 DEF Covering

(* setRefreshPeriod() inserts layers of its block, its own among them      *)
(* unless that is inserted.                                                *)
LEMMA MembersType ==
    ASSUME NEW b \in Block, NEW n \in 0 .. NLayers-1
    PROVE  /\ Members(b, n) \in Seq(Layer)
           /\ Covering => <<b, n>> \in inserted \cup Range(Members(b, n))
<1> DEFINE S == Group(n) \cap (0 .. NLayers-1)
           s == Ascending(S)
           m == [k \in DOMAIN s |-> <<b, s[k]>>]
<1>1. NLayers \in Nat \ {0}
  BY QueueAssumption
<1>2. S \subseteq Nat /\ IsFiniteSet(S)
  <2>1. IsFiniteSet(0 .. NLayers-1)
    BY <1>1, FS_Interval
  <2>2. S \in SUBSET (0 .. NLayers-1)
    OBVIOUS
  <2> QED
    BY <1>1, <2>1, <2>2, FS_Subset
<1> HIDE DEF S
<1>3. s \in Seq(S) /\ \A x \in S : \E k \in DOMAIN s : s[k] = x
  BY <1>2, AscendingSeq
<1>4. \A k \in DOMAIN s : <<b, s[k]>> \in Layer
  BY <1>3 DEF S, Layer
<1> HIDE DEF s
<1>5. m \in Seq(Layer)
  <2>1. DOMAIN s = 1 .. Len(s) /\ Len(s) \in Nat
    BY <1>3
  <2> QED
    BY <1>4, <2>1
<1>6. Members(b, n) \in {<<>>, m}
  BY DEF Members, m, s, S
<1>7. ASSUME Covering, <<b, n>> \notin inserted
      PROVE  <<b, n>> \in Range(Members(b, n))
  <2>1. Members(b, n) = m
    BY <1>7 DEF Members, m, s, S
  <2>2. n \in S
    BY <1>7, LayerInGroup DEF S
  <2>3. PICK k \in DOMAIN s : s[k] = n
    BY <1>3, <2>2
  <2>4. m[k] = <<b, n>> /\ k \in DOMAIN m
    BY <2>3
  <2> QED
    BY <2>1, <2>4 DEF Range
<1> HIDE DEF m
<1>8. Members(b, n) \in Seq(Layer)
  BY <1>5, <1>6, EmptySeq
<1>9. QED
  BY <1>7, <1>8, Zenon

(* removeFromQueue() leaves every other layer in the queue. *)
LEMMA RemoveFirstSeq ==
    ASSUME NEW S, NEW s \in Seq(S), NEW e
    PROVE  /\ RemoveFirst(s, e) \in Seq(S)
           /\ \A x \in Range(s) \ {e} : x \in Range(RemoveFirst(s, e))
<1>1. CASE ~ \E i \in 1 .. Len(s) : s[i] = e
  <2>1. RemoveFirst(s, e) = s
    BY <1>1, Zenon DEF RemoveFirst
  <2> QED
    BY <2>1
<1>2. CASE \E i \in 1 .. Len(s) : s[i] = e
  <2> DEFINE I == {i \in 1 .. Len(s) : s[i] = e}
             r == RemoveAt(s, Min(I))
  <2>1. I \subseteq Nat /\ I # {}
    BY <1>2
  <2>2. Min(I) \in 1 .. Len(s) /\ s[Min(I)] = e
    BY <2>1, MinOfNat
  <2>3. RemoveFirst(s, e) = r
    BY <1>2, <2>1 DEF RemoveFirst, SelectInSeq
  <2> DEFINE m == Min(I)
  <2> HIDE DEF I, m
  <2>4. /\ RemoveAt(s, m) \in Seq(S) /\ Len(RemoveAt(s, m)) = Len(s) - 1
        /\ \A j \in 1 .. Len(s) - 1 :
              RemoveAt(s, m)[j] = IF j < m THEN s[j] ELSE s[j+1]
    BY <2>2, RemoveAtSeq DEF m
  <2>5. r = RemoveAt(s, m) /\ m \in 1 .. Len(s) /\ s[m] = e
    BY <2>2 DEF m
  <2> HIDE DEF r
  <2>6. ASSUME NEW x \in Range(s) \ {e}
        PROVE  x \in Range(r)
    <3>1. PICK k \in 1 .. Len(s) : s[k] = x
      BY DEF Range
    <3>2. k # m
      BY <2>5, <3>1
    <3>3. Len(s) \in Nat /\ DOMAIN r = 1 .. Len(s) - 1
      BY <2>4, <2>5
    <3>4. CASE k < m
      <4>1. k \in 1 .. Len(s) - 1 /\ r[k] = x
        BY <2>4, <2>5, <3>1, <3>3, <3>4
      <4> QED
        BY <3>3, <4>1 DEF Range
    <3>5. CASE k > m
      <4>1. k - 1 \in 1 .. Len(s) - 1 /\ ~(k - 1 < m) /\ (k - 1) + 1 = k
        BY <2>5, <3>3, <3>5
      <4>2. r[k - 1] = x
        BY <2>4, <2>5, <3>1, <4>1
      <4> QED
        BY <3>3, <4>1, <4>2 DEF Range
    <3> QED
      BY <2>5, <3>2, <3>4, <3>5
  <2> QED
    BY <2>3, <2>4, <2>5, <2>6
<1>3. QED
  BY <1>1, <1>2

(* What appending a layer to a queue leaves in it. *)
LEMMA AppendRange ==
    ASSUME NEW S, NEW s \in Seq(S), NEW e \in S
    PROVE  Range(Append(s, e)) = Range(s) \cup {e}
<1>1. /\ Len(s) \in Nat /\ DOMAIN s = 1 .. Len(s)
      /\ DOMAIN Append(s, e) = 1 .. Len(s) + 1
      /\ \A k \in 1 .. Len(s) : Append(s, e)[k] = s[k]
      /\ Append(s, e)[Len(s) + 1] = e
  OBVIOUS
<1>2. 1 .. Len(s) + 1 = (1 .. Len(s)) \cup {Len(s) + 1}
  BY <1>1
<1>3. QED
  BY <1>1, <1>2, Zenon DEF Range

(* What taking the first layer leaves in a queue. *)
LEMMA TailRange ==
    ASSUME NEW S, NEW s \in Seq(S), s # <<>>
    PROVE  Range(s) \subseteq {Head(s)} \cup Range(Tail(s))
<1> SUFFICES ASSUME NEW x \in Range(s), x # Head(s)
             PROVE  x \in Range(Tail(s))
  OBVIOUS
<1>1. PICK k \in 1 .. Len(s) : s[k] = x
  BY DEF Range
<1>2. k # 1
  BY <1>1
<1>3. /\ Len(s) \in Nat /\ Len(Tail(s)) = Len(s) - 1 /\ Tail(s) \in Seq(S)
      /\ \A j \in 1 .. Len(Tail(s)) : Tail(s)[j] = s[j+1]
  BY HeadTailProperties
<1>4. k - 1 \in 1 .. Len(Tail(s)) /\ (k - 1) + 1 = k
  BY <1>1, <1>2, <1>3
<1>5. Tail(s)[k-1] = x /\ DOMAIN Tail(s) = 1 .. Len(Tail(s))
  BY <1>1, <1>3, <1>4
<1>6. QED
  BY <1>4, <1>5 DEF Range

-----------------------------------------------------------------------------
(* Types *)

(* The number of a period is the number of a queue. *)
LEMMA Periods ==
    ASSUME TypeOK
    PROVE  /\ Period \in Queue /\ TargetQueue \in Queue
           /\ \A i \in Int : (Period + i) % NQ \in Queue
<1>1. NQ \in Int /\ NQ > 0 /\ BackgroundRatio \in Int /\ BackgroundRatio > 0
  BY QueueAssumption
<1>2. refreshCallCount \in Int
  <2>1. NQ * BackgroundRatio \in Int
    BY <1>1
  <2> QED
    BY <2>1 DEF TypeOK
<1>3. refreshCallCount \div BackgroundRatio \in Int
  BY <1>1, <1>2, Remainder
<1>4. Period \in 0 .. NQ-1
  BY <1>1, <1>3, Remainder DEF Period
<1>5. \A i \in Int : (Period + i) % NQ \in 0 .. NQ-1
  <2> TAKE i \in Int
  <2>1. Period + i \in Int
    BY <1>1, <1>4
  <2> QED
    BY <1>1, <2>1, Remainder
<1>6. QED
  BY <1>4, <1>5 DEF Queue, TargetQueue

(* A page that is programmed is behind the pages of its block, and its     *)
(* layer is inserted or will be.                                           *)
LEMMA ProgramPageStep ==
    ASSUME TypeOK, NEW b \in Block, NEW i \in 1 .. NQ, NEW gone, ProgramPage(b, gone, i)
    PROVE  /\ written' \in [Block -> 0 .. NP]
           /\ valid' \in [Block -> SUBSET PageIdx]
           /\ \A c \in Block : valid'[c] \subseteq 0 .. written'[c]-1
           /\ pending' \in Seq(Layer)
           /\ due' \in Queue
           /\ \A c \in Block : \A p \in valid'[c] :
                 \/ p \in valid[c]
                 \/ Covering => LayerOf(c, p) \in inserted \cup Range(pending')
<1>1. NP \in Nat \ {0} /\ NLayers \in Nat \ {0} /\ NQ \in Nat \ {0}
  BY QueueAssumption
<1>2. /\ written \in [Block -> 0 .. NP] /\ valid \in [Block -> SUBSET PageIdx]
      /\ \A c \in Block : valid[c] \subseteq 0 .. written[c]-1
  BY DEF TypeOK
<1>3. /\ written[b] \in PageIdx
      /\ written' = [written EXCEPT ![b] = @ + 1]
      /\ \A c \in Block : valid'[c] \subseteq
             valid[c] \cup (IF c = b THEN {written[b]} ELSE {})
      /\ valid' \in [Block -> SUBSET PageIdx]
      /\ pending' = Members(b, written[b] % NLayers)
      /\ due' \in {0, (Period + i) % NQ}
  <2>1. written[b] \in PageIdx
    BY <1>1, <1>2 DEF ProgramPage, PageIdx
  <2>2. \A c \in Block : valid'[c] =
             (valid[c] \ {p \in PageIdx : <<c, p>> \in gone})
                   \cup (IF c = b THEN {written[b]} ELSE {})
    BY DEF ProgramPage
  <2>3. valid' \in [Block -> SUBSET PageIdx]
    BY <1>2, <2>1 DEF ProgramPage
  <2> QED
    BY <2>1, <2>2, <2>3 DEF ProgramPage, SetRefreshPeriod
<1>4. written' \in [Block -> 0 .. NP]
  BY <1>1, <1>2, <1>3 DEF PageIdx
<1>5. ASSUME NEW c \in Block
      PROVE  valid'[c] \subseteq 0 .. written'[c]-1
  <2>1. CASE c = b
    <3>1. written'[c] = written[c] + 1 /\ written[c] \in 0 .. NP
      BY <1>2, <1>3, <2>1
    <3>2. 0 .. written[c]-1 \subseteq 0 .. written'[c]-1 /\ written[c] \in 0 .. written'[c]-1
      BY <1>1, <3>1
    <3> QED
      BY <1>2, <1>3, <2>1, <3>2
  <2>2. CASE c # b
    BY <1>2, <1>3, <2>2
  <2> QED
    BY <2>1, <2>2
<1>6. written[b] % NLayers \in 0 .. NLayers-1
  BY <1>1, <1>3, Remainder DEF PageIdx
<1>7. /\ pending' \in Seq(Layer)
      /\ Covering => LayerOf(b, written[b]) \in inserted \cup Range(pending')
  BY <1>3, <1>6, MembersType DEF LayerOf
<1>8. due' \in Queue
  <2>1. 0 \in Queue /\ (Period + i) % NQ \in Queue
    BY <1>1, Periods DEF Queue
  <2> QED
    BY <1>3, <2>1
<1>9. QED
  BY <1>3, <1>4, <1>5, <1>7, <1>8

(* A step that programs a page leaves the queues and the loop alone. *)
Programs(b, i) ==
    /\ \E gone : ProgramPage(b, gone, i)
    /\ pending = <<>>
    /\ UNCHANGED <<queueVars, loopVars, pc, panic>>

(* A programmed page keeps the types. *)
LEMMA ProgramsType ==
    ASSUME TypeOK, NEW b \in Block, NEW i \in 1 .. NQ, Programs(b, i)
    PROVE  TypeOK'
<1>1. PICK gone : ProgramPage(b, gone, i)
  BY DEF Programs
<1>2. UNCHANGED <<refreshQueues, checkedQueues, layerQueueNum, inserted,
                  refreshCallCount, budget, current, pc, panic>>
  BY DEF Programs, queueVars, loopVars
<1>3. /\ written' \in [Block -> 0 .. NP]
      /\ valid' \in [Block -> SUBSET PageIdx]
      /\ \A c \in Block : valid'[c] \subseteq 0 .. written'[c]-1
      /\ pending' \in Seq(Layer)
      /\ due' \in Queue
  BY <1>1, ProgramPageStep
<1>4. QED
  BY <1>2, <1>3 DEF TypeOK

(* insertToQueue() keeps the types. *)
LEMMA InsertToQueueType ==
    ASSUME TypeOK, InsertToQueue
    PROVE  TypeOK'
<1> DEFINE l == Head(pending)
<1>1. pending \in Seq(Layer) /\ pending # <<>> /\ due \in Queue
  BY DEF TypeOK, InsertToQueue
<1>2. l \in Layer /\ pending' \in Seq(Layer)
  BY <1>1, HeadTailProperties DEF InsertToQueue
<1>3. due' \in Queue
  <2>1. 0 \in Queue
    BY QueueAssumption DEF Queue
  <2> QED
    BY <1>1, <2>1 DEF InsertToQueue
<1>4. inserted' \subseteq Layer
  BY <1>2 DEF TypeOK, InsertToQueue
<1>5. layerQueueNum' \in [Layer -> Queue]
  BY <1>1, <1>2 DEF TypeOK, InsertToQueue
<1>6. refreshQueues' \in [Queue -> Seq(Layer)]
  <2> HIDE DEF l
  <2>1. \A q \in Queue : /\ refreshQueues[q] \in Seq(Layer)
                         /\ Append(refreshQueues[q], l) \in Seq(Layer)
                         /\ RemoveFirst(refreshQueues[q], l) \in Seq(Layer)
    BY <1>2, RemoveFirstSeq, AppendProperties DEF TypeOK
  <2>2. CASE refreshQueues' = [refreshQueues EXCEPT ![due] = Append(@, l)]
    BY <1>1, <2>1, <2>2 DEF TypeOK
  <2>3. CASE refreshQueues' =
                 [q \in Queue |->
                      IF q = due THEN Append(refreshQueues[q], l)
                      ELSE IF q = layerQueueNum[l] THEN RemoveFirst(refreshQueues[q], l)
                      ELSE refreshQueues[q]]
    BY <2>1, <2>3
  <2>4. CASE refreshQueues' = refreshQueues
    BY <2>4 DEF TypeOK
  <2> QED
    BY <2>2, <2>3, <2>4, Zenon DEF InsertToQueue, l
<1>7. UNCHANGED <<written, valid, checkedQueues, refreshCallCount, budget, current, pc, panic>>
  BY DEF InsertToQueue, pageVars, loopVars
<1>8. QED
  BY <1>2, <1>3, <1>4, <1>5, <1>6, <1>7 DEF TypeOK

(* So does taking a layer out of a checked queue. *)
LEMMA TakeLayerType ==
    ASSUME TypeOK, TakeLayer
    PROVE  TypeOK'
<1> DEFINE q == checkedQueues[TargetQueue]
<1>1. TargetQueue \in Queue
  BY Periods
<1>2. q \in Seq(Layer) /\ q # <<>>
  BY <1>1 DEF TypeOK, TakeLayer
<1>3. Head(q) \in Layer /\ Tail(q) \in Seq(Layer)
  BY <1>2, HeadTailProperties
<1>4. checkedQueues' \in [Queue -> Seq(Layer)]
  BY <1>1, <1>3 DEF TypeOK, TakeLayer
<1>5. budget' \in 0 .. MaxRefreshLayer
  <2>1. MaxRefreshLayer \in Nat
    BY QueueAssumption
  <2> QED
    BY <2>1 DEF TypeOK, TakeLayer
<1> HIDE DEF q
<1>6. inserted' \subseteq Layer /\ current' \in Layer
  BY <1>3 DEF TypeOK, TakeLayer, q
<1>7. /\ pc' \in {"idle", "gcBefore", "refresh", "copy", "gcAfter", "panic"}
      /\ panic' \in {"none", "CorruptedBitmap", "NoFreeBlockLeft"}
  BY DEF TypeOK, TakeLayer
<1>8. UNCHANGED <<written, valid, refreshQueues, layerQueueNum, refreshCallCount, pending, due>>
  BY DEF TakeLayer, pageVars
<1>9. QED
  BY <1>4, <1>5, <1>6, <1>7, <1>8 DEF TypeOK

(* The steps that neither program a page nor work on the queues. *)
Others ==
    \/ \E b \in Block, p \in PageIdx : HostTrim(b, p)
    \/ \E c \in Block : EraseInternal(c)
    \/ RefreshPage \/ NoFreeBlock \/ LayerRefreshed \/ LayersRefreshed \/ RefreshDone

(* The steps, sorted by what they do to the queues. *)
LEMMA StepCases ==
    ASSUME Next
    PROVE  \/ \E b \in Block, i \in 1 .. NQ : Programs(b, i)
           \/ InsertToQueue \/ TakeLayer \/ RefreshEvent \/ Others
<1>1. ASSUME NEW b \in Block, NEW i \in 1 .. NQ, NEW gone, HostWrite(b, gone, i)
      PROVE  Programs(b, i)
  BY <1>1 DEF HostWrite, Programs
<1>2. ASSUME NEW b \in Block, NEW i \in 1 .. NQ, NEW c, CopyVictimPage(c, b, i)
      PROVE  Programs(b, i)
  BY <1>2 DEF CopyVictimPage, Victim, Programs
<1>3. ASSUME NEW b \in Block, NEW i \in 1 .. NQ, CopyLayerPage(b, i)
      PROVE  Programs(b, i)
  BY <1>3 DEF CopyLayerPage, Programs
<1>4. QED
  BY <1>1, <1>2, <1>3, Zenon DEF Next, FTLStep, RefreshStep, Others

(* The steps that leave the queues alone keep the types. *)
LEMMA OthersType ==
    ASSUME TypeOK, Others
    PROVE  TypeOK'
<1>1. /\ NB \in Nat \ {0} /\ NLayers \in Nat \ {0} /\ NP \in Nat \ {0}
      /\ NQ \in Nat \ {0} /\ BackgroundRatio \in Nat \ {0}
      /\ MaxRefreshLayer \in Nat \ {0}
  BY QueueAssumption
<1>2. CASE \E b \in Block, p \in PageIdx : HostTrim(b, p)
  <2>1. PICK b \in Block, p \in PageIdx : HostTrim(b, p)
    BY <1>2
  <2>2. valid' = [valid EXCEPT ![b] = @ \ {p}] /\ written' = written
    BY <2>1 DEF HostTrim
  <2>3. /\ valid' \in [Block -> SUBSET PageIdx]
        /\ \A c \in Block : valid'[c] \subseteq 0 .. written'[c]-1
    BY <2>2 DEF TypeOK
  <2>4. UNCHANGED <<written, refreshQueues, checkedQueues, layerQueueNum, inserted,
                    refreshCallCount, budget, current, pc, pending, due, panic>>
    BY <2>1 DEF HostTrim, queueVars, loopVars
  <2> QED
    BY <2>3, <2>4 DEF TypeOK
<1>3. CASE \E c \in Block : EraseInternal(c)
  <2>1. PICK c \in Block : EraseInternal(c)
    BY <1>3
  <2>2. written' = [written EXCEPT ![c] = 0] /\ valid' = valid /\ valid[c] = {}
    BY <2>1 DEF EraseInternal
  <2>3. /\ written' \in [Block -> 0 .. NP]
        /\ \A d \in Block : valid'[d] \subseteq 0 .. written'[d]-1
    BY <1>1, <2>2 DEF TypeOK
  <2>4. UNCHANGED <<valid, refreshQueues, checkedQueues, layerQueueNum, inserted,
                    refreshCallCount, budget, current, pc, pending, due, panic>>
    BY <2>1 DEF EraseInternal, queueVars, loopVars
  <2> QED
    BY <2>3, <2>4 DEF TypeOK
<1>4. CASE RefreshPage
  BY <1>4 DEF RefreshPage, TypeOK, pageVars, queueVars, loopVars
<1>5. CASE NoFreeBlock
  BY <1>5 DEF NoFreeBlock, TypeOK, pageVars, queueVars, loopVars
<1>6. CASE LayerRefreshed
  <2>1. <<0, 0>> \in Layer
    BY <1>1 DEF Layer, Block
  <2> QED
    BY <1>6, <2>1 DEF LayerRefreshed, TypeOK, pageVars, queueVars
<1>7. CASE LayersRefreshed
  BY <1>1, <1>7 DEF LayersRefreshed, TypeOK, pageVars, queueVars
<1>8. CASE RefreshDone
  <2> DEFINE N == NQ * BackgroundRatio
  <2>1. N \in Int /\ N > 0
    BY <1>1
  <2>2. refreshCallCount \in 0 .. N-1
    BY DEF TypeOK
  <2> HIDE DEF N
  <2>3. (refreshCallCount + 1) % N \in 0 .. N-1
    BY <2>1, <2>2, Remainder
  <2>4. refreshCallCount' \in 0 .. NQ * BackgroundRatio - 1 /\ pc' = "idle"
    BY <1>8, <2>3 DEF RefreshDone, N
  <2>5. UNCHANGED <<written, valid, refreshQueues, checkedQueues, layerQueueNum, inserted,
                    budget, current, pending, due, panic>>
    BY <1>8 DEF RefreshDone, pageVars, queueVars
  <2> QED
    BY <2>4, <2>5 DEF TypeOK
<1>9. QED
  BY <1>2, <1>3, <1>4, <1>5, <1>6, <1>7, <1>8 DEF Others

(* The refresh event swaps the queues of a period. *)
LEMMA RefreshEventType ==
    ASSUME TypeOK, RefreshEvent
    PROVE  TypeOK'
<1>1. TargetQueue \in Queue
  BY Periods
<1>2. /\ checkedQueues' \in [Queue -> Seq(Layer)]
      /\ refreshQueues' \in [Queue -> Seq(Layer)]
  BY <1>1 DEF TypeOK, RefreshEvent
<1>3. budget' \in 0 .. MaxRefreshLayer /\ pc' = "gcBefore"
  BY QueueAssumption DEF RefreshEvent
<1>4. UNCHANGED <<written, valid, layerQueueNum, inserted, refreshCallCount, current,
                  pending, due, panic>>
  BY DEF RefreshEvent, pageVars
<1>5. QED
  BY <1>2, <1>3, <1>4 DEF TypeOK

(* Every variable of the refresh queues always has its type: no queue is   *)
(* ever indexed, and no layer named, outside its range, whatever the       *)
(* grouping mode.                                                          *)
THEOREM TypeInvariance == Spec => []TypeOK
<1>1. Init => TypeOK
  <2> SUFFICES ASSUME Init PROVE TypeOK
    OBVIOUS
  <2>1. /\ NB \in Nat \ {0} /\ NLayers \in Nat \ {0} /\ NP \in Nat \ {0}
        /\ NQ \in Nat \ {0} /\ BackgroundRatio \in Nat \ {0}
        /\ MaxRefreshLayer \in Nat \ {0}
    BY QueueAssumption
  <2>2. 0 \in Queue /\ <<0, 0>> \in Layer /\ 0 \in 0 .. MaxRefreshLayer
    BY <2>1 DEF Queue, Layer, Block
  <2>3. 0 \in 0 .. NQ * BackgroundRatio - 1
    BY <2>1
  <2>4. <<>> \in Seq(Layer)
    OBVIOUS
  <2>5. /\ written \in [Block -> 0 .. NP] /\ valid \in [Block -> SUBSET PageIdx]
        /\ \A b \in Block : valid[b] \subseteq 0 .. written[b]-1
    BY <2>1 DEF Init
  <2> QED
    BY <2>2, <2>3, <2>4, <2>5 DEF Init, TypeOK
<1>2. TypeOK /\ [Next]_vars => TypeOK'
  <2> SUFFICES ASSUME TypeOK, [Next]_vars PROVE TypeOK'
    OBVIOUS
  <2>1. CASE Next
    BY <2>1, StepCases, ProgramsType, InsertToQueueType, TakeLayerType, RefreshEventType,
       OthersType
  <2>2. CASE UNCHANGED vars
    BY <2>2 DEF vars, pageVars, queueVars, loopVars, TypeOK
  <2> QED
    BY <2>1, <2>2
<1>3. QED
  BY <1>1, <1>2, PTL DEF Spec

-----------------------------------------------------------------------------
(* Data without a queue *)

(* The second part of DataCovered, for one page. *)
Held(b, p) ==
    \/ LayerOf(b, p) \in inserted \cup Range(pending)
    \/ pc \in {"copy", "panic"} /\ current = LayerOf(b, p)

Covered == \A b \in Block : \A p \in valid[b] : Held(b, p)

(* A programmed page has its layer in pending, or marked. *)
LEMMA ProgramsCovered ==
    ASSUME Covering, TypeOK, Covered, NEW b \in Block, NEW i \in 1 .. NQ, Programs(b, i)
    PROVE  Covered'
<1>1. PICK gone : ProgramPage(b, gone, i)
  BY DEF Programs
<1>2. inserted' = inserted /\ pc' = pc /\ current' = current /\ pending = <<>>
  BY DEF Programs, queueVars, loopVars
<1>3. Range(pending) = {}
  BY <1>2 DEF Range
<1>4. SUFFICES ASSUME NEW c \in Block, NEW p \in valid'[c]
               PROVE  Held(c, p)'
  BY DEF Covered
<1>5. p \in valid[c] \/ LayerOf(c, p) \in inserted \cup Range(pending')
  BY <1>1, ProgramPageStep
<1>6. CASE p \in valid[c]
  BY <1>2, <1>3, <1>6 DEF Covered, Held, LayerOf
<1>7. CASE LayerOf(c, p) \in inserted \cup Range(pending')
  BY <1>2, <1>7 DEF Held, LayerOf
<1>8. QED
  BY <1>5, <1>6, <1>7

(* A layer leaves pending when it is marked. *)
LEMMA InsertToQueueCovered ==
    ASSUME TypeOK, Covered, InsertToQueue
    PROVE  Covered'
<1>1. pending \in Seq(Layer) /\ pending # <<>>
  BY DEF TypeOK, InsertToQueue
<1>2. Range(pending) \subseteq {Head(pending)} \cup Range(Tail(pending))
  BY <1>1, TailRange
<1>3. /\ inserted' = inserted \cup {Head(pending)} /\ pending' = Tail(pending)
      /\ valid' = valid /\ pc' = pc /\ current' = current
  BY DEF InsertToQueue, pageVars, loopVars
<1>4. QED
  BY <1>2, <1>3 DEF Covered, Held, LayerOf

(* A layer loses its mark when its pages are about to be copied. *)
LEMMA TakeLayerCovered ==
    ASSUME TypeOK, Covered, TakeLayer
    PROVE  Covered'
<1> DEFINE l == Head(checkedQueues[TargetQueue])
<1>1. pc = "refresh" /\ valid' = valid /\ pending' = pending
  BY DEF TakeLayer, pageVars
<1>2. \/ inserted' = inserted
      \/ inserted' = inserted \ {l} /\ current' = l /\ pc' = "copy"
  BY DEF TakeLayer
<1>3. QED
  BY <1>1, <1>2 DEF Covered, Held, LayerOf

(* The other steps neither fill pages nor lose marks. *)
LEMMA OthersCovered ==
    ASSUME TypeOK, Covered, Others
    PROVE  Covered'
<1>1. CASE \E b \in Block, p \in PageIdx : HostTrim(b, p)
  <2>1. PICK b \in Block, p \in PageIdx : HostTrim(b, p)
    BY <1>1
  <2>2. /\ \A c \in Block : valid'[c] \subseteq valid[c]
        /\ UNCHANGED <<inserted, pending, pc, current>>
    BY <2>1 DEF HostTrim, queueVars, loopVars, TypeOK
  <2> QED
    BY <2>2 DEF Covered, Held, LayerOf
<1>2. CASE LayerRefreshed
  <2>1. /\ pc = "copy" /\ pc' = "refresh" /\ LayerPages(current) = {}
        /\ UNCHANGED <<valid, inserted, pending>>
    BY <1>2 DEF LayerRefreshed, pageVars, queueVars
  <2>2. ASSUME NEW b \in Block, NEW p \in valid[b]
        PROVE  current # LayerOf(b, p)
    <3> SUFFICES ASSUME current = LayerOf(b, p) PROVE FALSE
      OBVIOUS
    <3>1. p \in LayerPages(current)
      BY <2>2 DEF LayerPages, LayerOf
    <3> QED
      BY <2>1, <3>1
  <2>3. ASSUME NEW b \in Block, NEW p \in valid[b]
        PROVE  LayerOf(b, p) \in inserted \cup Range(pending)
    BY <2>2 DEF Covered, Held
  <2> QED
    BY <2>1, <2>3 DEF Covered, Held, LayerOf
<1>3. CASE \E c \in Block : EraseInternal(c)
  BY <1>3 DEF EraseInternal, Covered, Held, LayerOf, queueVars, loopVars
<1>4. CASE RefreshPage
  BY <1>4 DEF RefreshPage, Covered, Held, LayerOf, pageVars, queueVars, loopVars
<1>5. CASE NoFreeBlock
  BY <1>5 DEF NoFreeBlock, Covered, Held, LayerOf, pageVars, queueVars, loopVars
<1>6. CASE LayersRefreshed
  BY <1>6 DEF LayersRefreshed, Covered, Held, LayerOf, pageVars, queueVars
<1>7. CASE RefreshDone
  BY <1>7 DEF RefreshDone, Covered, Held, LayerOf, pageVars, queueVars
<1>8. QED
  BY <1>1, <1>2, <1>3, <1>4, <1>5, <1>6, <1>7 DEF Others

(* No page holds data that no queue is going to refresh: its layer is      *)
(* marked, is about to be inserted by setRefreshPeriod(), or its data are  *)
(* being moved.  This needs groups that contain the layer they are made    *)
(* for: with GroupingMode 1, where only the first layer of a group inserts *)
(* the group, a layer whose group was refreshed stays without a queue.     *)
THEOREM DataAlwaysCovered == Covering => (Spec => []DataCovered)
<1> SUFFICES ASSUME Covering
             PROVE  Spec => []DataCovered
  OBVIOUS
<1>1. Init => Covered
  BY DEF Init, Covered
<1>2. TypeOK /\ Covered /\ [Next]_vars => Covered'
  <2> SUFFICES ASSUME TypeOK, Covered, [Next]_vars PROVE Covered'
    OBVIOUS
  <2>1. CASE Next
    <3>1. ASSUME RefreshEvent PROVE Covered'
      BY <3>1 DEF RefreshEvent, Covered, Held, LayerOf, pageVars
    <3> QED
      BY <2>1, <3>1, StepCases, ProgramsCovered, InsertToQueueCovered, TakeLayerCovered,
         OthersCovered
  <2>2. CASE UNCHANGED vars
    BY <2>2 DEF vars, pageVars, queueVars, loopVars, Covered, Held, LayerOf
  <2> QED
    BY <2>1, <2>2
<1>3. TypeOK /\ Covered => DataCovered
  BY DEF Covered, Held, DataCovered
<1>4. QED
  BY <1>1, <1>2, <1>3, TypeInvariance, PTL DEF Spec

-----------------------------------------------------------------------------
(* Layers that the bitmap names *)

(* A layer that moves is found in its new queue. *)
LEMMA InsertToQueueFound ==
    ASSUME GroupingMode \in {0, 1}, TypeOK, LayerFound, InsertToQueue
    PROVE  LayerFound'
<1> DEFINE l == Head(pending)
<1>1. /\ l \in Layer /\ due \in Queue /\ inserted \subseteq Layer
      /\ layerQueueNum \in [Layer -> Queue]
      /\ refreshQueues \in [Queue -> Seq(Layer)]
  <2>1. pending \in Seq(Layer) /\ pending # <<>>
    BY DEF TypeOK, InsertToQueue
  <2> QED
    BY <2>1, HeadTailProperties DEF TypeOK
<1> HIDE DEF l
<1>2. \A q \in Queue : Range(Append(refreshQueues[q], l)) = Range(refreshQueues[q]) \cup {l}
  BY <1>1, AppendRange
<1>3. inserted' = inserted \cup {l} /\ checkedQueues' = checkedQueues
  BY DEF InsertToQueue, l
<1>4. CASE /\ l \notin inserted
           /\ refreshQueues' = [refreshQueues EXCEPT ![due] = Append(@, l)]
           /\ layerQueueNum' = [layerQueueNum EXCEPT ![l] = due]
  <2>1. l \in Range(refreshQueues'[layerQueueNum'[l]])
    BY <1>1, <1>2, <1>4
  <2>2. ASSUME NEW x \in inserted
        PROVE  /\ layerQueueNum'[x] = layerQueueNum[x]
               /\ Range(refreshQueues[layerQueueNum[x]]) \subseteq
                     Range(refreshQueues'[layerQueueNum[x]])
    <3>1. layerQueueNum[x] \in Queue
      BY <1>1
    <3>2. layerQueueNum'[x] = layerQueueNum[x]
      BY <1>1, <1>4
    <3>3. CASE layerQueueNum[x] = due
      BY <1>1, <1>2, <1>4, <3>1, <3>2, <3>3
    <3>4. CASE layerQueueNum[x] # due
      BY <1>1, <1>4, <3>1, <3>2, <3>4
    <3> QED
      BY <3>2, <3>3, <3>4
  <2> QED
    BY <1>3, <2>1, <2>2 DEF LayerFound
<1>5. CASE /\ l \in inserted
           /\ refreshQueues' =
                 [q \in Queue |->
                      IF q = due THEN Append(refreshQueues[q], l)
                      ELSE IF q = layerQueueNum[l] THEN RemoveFirst(refreshQueues[q], l)
                      ELSE refreshQueues[q]]
           /\ layerQueueNum' = [layerQueueNum EXCEPT ![l] = due]
  <2>1. l \in Range(refreshQueues'[layerQueueNum'[l]])
    BY <1>1, <1>2, <1>5
  <2>2. ASSUME NEW x \in inserted \ {l}
        PROVE  /\ layerQueueNum'[x] = layerQueueNum[x]
               /\ x \in Range(refreshQueues[layerQueueNum[x]])
                     => x \in Range(refreshQueues'[layerQueueNum[x]])
    <3> DEFINE q == layerQueueNum[x]
    <3>1. q \in Queue /\ layerQueueNum'[x] = layerQueueNum[x]
      BY <1>1, <1>5
    <3> HIDE DEF q
    <3>2. refreshQueues'[q] = Append(refreshQueues[q], l)
             \/ refreshQueues'[q] = RemoveFirst(refreshQueues[q], l)
             \/ refreshQueues'[q] = refreshQueues[q]
      BY <1>5, <3>1
    <3>3. refreshQueues[q] \in Seq(Layer)
      BY <1>1, <3>1
    <3>4. x \in Range(refreshQueues[q]) => x \in Range(RemoveFirst(refreshQueues[q], l))
      BY <3>3, RemoveFirstSeq
    <3>5. x \in Range(refreshQueues[q]) => x \in Range(refreshQueues'[q])
      BY <1>2, <3>1, <3>2, <3>4
    <3> QED
      BY <3>1, <3>5 DEF q
  <2> QED
    BY <1>3, <2>1, <2>2 DEF LayerFound
<1>6. CASE l \in inserted /\ UNCHANGED <<refreshQueues, layerQueueNum>>
  BY <1>3, <1>6 DEF LayerFound
<1>7. QED
  BY <1>4, <1>5, <1>6, Zenon DEF InsertToQueue, l

(* A layer taken from a checked queue is no longer marked. *)
LEMMA TakeLayerFound ==
    ASSUME TypeOK, LayerFound, TakeLayer
    PROVE  LayerFound'
<1> DEFINE t == TargetQueue
           l == Head(checkedQueues[t])
<1>1. t \in Queue /\ inserted \subseteq Layer /\ layerQueueNum \in [Layer -> Queue]
  BY Periods DEF TypeOK
<1>2. checkedQueues[t] \in Seq(Layer) /\ checkedQueues[t] # <<>>
  BY <1>1 DEF TypeOK, TakeLayer
<1>3. Range(checkedQueues[t]) \subseteq {l} \cup Range(Tail(checkedQueues[t]))
  BY <1>2, TailRange
<1>4. /\ checkedQueues' = [checkedQueues EXCEPT ![t] = Tail(@)]
      /\ UNCHANGED <<refreshQueues, layerQueueNum>>
      /\ inserted' \subseteq inserted
      /\ layerQueueNum[l] # t \/ l \notin inserted'
  BY DEF TakeLayer
<1> HIDE DEF t, l
<1>5. ASSUME NEW x \in inserted'
      PROVE  \/ x \in Range(refreshQueues[layerQueueNum[x]])
             \/ x \in Range(checkedQueues'[layerQueueNum[x]])
  <2>1. /\ x \in inserted /\ layerQueueNum[x] \in Queue
        /\ \/ x \in Range(refreshQueues[layerQueueNum[x]])
           \/ x \in Range(checkedQueues[layerQueueNum[x]])
    BY <1>1, <1>4 DEF LayerFound
  <2>2. CASE layerQueueNum[x] = t
    <3>1. x # l
      BY <1>4, <2>2
    <3>2. checkedQueues'[t] = Tail(checkedQueues[t])
      BY <1>1, <1>4 DEF TypeOK
    <3> QED
      BY <1>3, <2>1, <2>2, <3>1, <3>2
  <2>3. CASE layerQueueNum[x] # t
    <3>1. checkedQueues'[layerQueueNum[x]] = checkedQueues[layerQueueNum[x]]
      BY <1>4, <2>1, <2>3 DEF TypeOK
    <3> QED
      BY <2>1, <3>1
  <2> QED
    BY <2>2, <2>3
<1>6. QED
  BY <1>4, <1>5 DEF LayerFound

(* No layer is lost: what the bitmap names is in the queue that            *)
(* layerQueueNum names or in the checked queue of that period, through all *)
(* moves between queues, swaps of the queues and left-overs of a refresh.  *)
(* The grouping modes 2 and 3 do not record the queue of a layer.          *)
THEOREM LayersAlwaysFound == GroupingMode \in {0, 1} => (Spec => []LayerFound)
<1> SUFFICES ASSUME GroupingMode \in {0, 1}
             PROVE  Spec => []LayerFound
  OBVIOUS
<1>1. Init => LayerFound
  BY DEF Init, LayerFound
<1>2. TypeOK /\ LayerFound /\ [Next]_vars => LayerFound'
  <2> SUFFICES ASSUME TypeOK, LayerFound, [Next]_vars PROVE LayerFound'
    OBVIOUS
  <2>1. CASE Next
    <3>1. ASSUME RefreshEvent PROVE LayerFound'
      <4>1. TargetQueue \in Queue
        BY Periods
      <4>2. \A q \in Queue :
               Range(refreshQueues'[q]) \cup Range(checkedQueues'[q]) =
               Range(refreshQueues[q]) \cup Range(checkedQueues[q])
        <5> TAKE q \in Queue
        <5>1. CASE q = TargetQueue
          <6>1. refreshQueues'[q] = checkedQueues[q] /\ checkedQueues'[q] = refreshQueues[q]
            BY <3>1, <4>1, <5>1 DEF RefreshEvent, TypeOK
          <6> QED
            BY <6>1
        <5>2. CASE q # TargetQueue
          <6>1. refreshQueues'[q] = refreshQueues[q] /\ checkedQueues'[q] = checkedQueues[q]
            BY <3>1, <5>2 DEF RefreshEvent, TypeOK
          <6> QED
            BY <6>1
        <5> QED
          BY <5>1, <5>2
      <4>3. UNCHANGED <<inserted, layerQueueNum>>
        BY <3>1 DEF RefreshEvent
      <4>4. \A x \in inserted : layerQueueNum[x] \in Queue
        BY DEF TypeOK
      <4> QED
        BY <4>2, <4>3, <4>4 DEF LayerFound
    <3>2. ASSUME NEW b \in Block, NEW i \in 1 .. NQ, Programs(b, i) PROVE LayerFound'
      BY <3>2 DEF Programs, queueVars, LayerFound
    <3>3. ASSUME Others PROVE LayerFound'
      BY <3>3 DEF Others, HostTrim, EraseInternal, RefreshPage, NoFreeBlock, LayerRefreshed,
                  LayersRefreshed, RefreshDone, queueVars, LayerFound
    <3> QED
      BY <2>1, <3>1, <3>2, <3>3, StepCases, InsertToQueueFound, TakeLayerFound
  <2>2. CASE UNCHANGED vars
    BY <2>2 DEF vars, queueVars, LayerFound
  <2> QED
    BY <2>1, <2>2
<1>3. QED
  BY <1>1, <1>2, TypeInvariance, PTL DEF Spec
=============================================================================

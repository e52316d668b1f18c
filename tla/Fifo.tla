-------------------------------- MODULE Fifo --------------------------------
(***************************************************************************)
(* The hardware FIFO between the NVMe controller and the host interface    *)
(* (simplessd/util/fifo).  Downstream asks for DMA; a request is written   *)
(* into the FIFO while its first part is already transferred upstream, and *)
(* the other way round for a read.  A request that does not fit is split   *)
(* into pieces of one transfer unit.                                       *)
(*                                                                         *)
(* Ticks are left out: an event that is scheduled fires some time, except  *)
(* that a piece is finished only after it is completely in the FIFO.  A    *)
(* queue is a record with the fields of FIFO::Queue; an event is a flag.   *)
(***************************************************************************)
EXTENDS Integers, Sequences, SequencesExt

CONSTANTS
    Capacity,        \* rqSize, wqSize
    Unit,            \* transferUnit
    Sizes,           \* sizes of requests
    MaxRequests      \* bound of the model

(* The check of FIFO::FIFO().  A request of size zero is ignored. *)
ASSUME FifoAssumption ==
    /\ {Capacity, Unit} \subseteq Nat \ {0} /\ Unit <= Capacity
    /\ Sizes \subseteq Nat \ {0}
    /\ MaxRequests \in Nat

VARIABLES
    writeQueue,
    readQueue,       \* with counter, the number of the next piece, and
                     \* completion: readCompletion, pieces half done
    size,            \* sizes of the requests so far, by direction (history)
    moved,           \* bytes finished of each request (history)
    delivered        \* requests finished, in order (history)

vars == <<writeQueue, readQueue, size, moved, delivered>>

-----------------------------------------------------------------------------
Piece(r, n) == [req |-> r, id |-> -1, size |-> n, last |-> TRUE]

(* calcSize(): whole units, but a small request takes what it needs. *)
calcSize(n) == IF n < Unit THEN n ELSE ((n + Unit - 1) \div Unit) * Unit

(* The first piece waiting, split if it does not fit into the FIFO at all. *)
Split(wait) ==
    LET f == Head(wait)
    IN  IF calcSize(f.size) <= Capacity THEN wait
        ELSE <<[f EXCEPT !.last = FALSE, !.size = Unit],
               [f EXCEPT !.last = TRUE, !.size = @ - Unit]>> \o Tail(wait)

(* The check at the head of insertWrite() and transferRead(). *)
MustWait(q, pending) ==
    LET n == calcSize(Head(q.wait).size)
    IN  (pending \/ q.usage + n > Capacity) /\ n <= Capacity

-----------------------------------------------------------------------------
(* Writes: into the FIFO, then upstream. *)

insertWrite(q) ==
    IF q.wait = <<>> \/ MustWait(q, q.insertPending) THEN q
    ELSE LET wait == Split(q.wait)
         IN  [q EXCEPT !.wait = wait,
                       !.insertPending = TRUE,
                       !.usage = @ + calcSize(Head(wait).size),
                       !.beginTransfer = TRUE,
                       !.transfer = Append(@, Head(wait))]

(* insertDone fires: it is scheduled as long as insertPending. *)
insertWriteDone ==
    /\ writeQueue.insertPending
    /\ writeQueue' = insertWrite([writeQueue EXCEPT !.wait = Tail(@),
                                                    !.insertPending = FALSE])
    /\ UNCHANGED <<readQueue, size, moved, delivered>>

transferWrite(q) ==
    IF q.transferPending THEN q
    ELSE [q EXCEPT !.transferPending = TRUE, !.upstream = TRUE]

(* beginTransfer fires. *)
beginTransferWrite ==
    /\ writeQueue.beginTransfer
    /\ writeQueue' = transferWrite([writeQueue EXCEPT !.beginTransfer = FALSE])
    /\ UNCHANGED <<readQueue, size, moved, delivered>>

(* dmaWrite(): the request waits, and is begun if possible. *)
dmaWrite(q, r, n) == insertWrite([q EXCEPT !.wait = Append(@, Piece(r, n))])

(* Mutant: nobody looks at the requests that wait. *)
WriteDoneNextAsleep(q) ==
    LET p == [q EXCEPT !.usage = @ - calcSize(Head(q.transfer).size),
                       !.transferPending = FALSE,
                       !.transfer = Tail(@)]
    IN  IF p.transfer # <<>> /\ ~p.beginTransfer THEN transferWrite(p) ELSE p

(* The end of transferWriteDoneNext(), after the request's function. *)
WriteDoneNext(q) ==
    LET p == [q EXCEPT !.usage = @ - calcSize(Head(q.transfer).size),
                       !.transferPending = FALSE,
                       !.transfer = Tail(@)]
        t == IF p.transfer # <<>> /\ ~p.beginTransfer
             THEN transferWrite(p) ELSE p
    IN  insertWrite(t)

-----------------------------------------------------------------------------
(* Reads: from upstream, and into the FIFO. *)

transferRead(q) ==
    IF q.wait = <<>> \/ MustWait(q, q.transferPending) THEN q
    ELSE LET wait == Split(q.wait)
             f == [Head(wait) EXCEPT !.id = q.counter]
         IN  [q EXCEPT !.wait = <<f>> \o Tail(wait),
                       !.transferPending = TRUE,
                       !.counter = @ + 1,
                       !.usage = @ + calcSize(f.size),
                       !.beginTransfer = TRUE,
                       !.transfer = Append(@, f)]

(* The upstream read is done; if the piece is also in the FIFO, it will be *)
(* finished a unit later.                                                  *)
transferReadDone ==
    LET q == readQueue
        id == Head(q.wait).id
        half == id \in q.completion
    IN  /\ q.transferPending
        /\ readQueue' = transferRead(
              [q EXCEPT !.completion = IF half THEN @ \ {id} ELSE @ \cup {id},
                        !.submitCompletion = @ \/ half,
                        !.wait = Tail(@),
                        !.transferPending = FALSE])
        /\ UNCHANGED <<writeQueue, size, moved, delivered>>

insertRead(q) ==
    IF q.insertPending THEN q
    ELSE [q EXCEPT !.insertPending = TRUE, !.insertDone = TRUE]

(* beginTransfer fires. *)
beginInsertRead ==
    /\ readQueue.beginTransfer
    /\ readQueue' = insertRead([readQueue EXCEPT !.beginTransfer = FALSE])
    /\ UNCHANGED <<writeQueue, size, moved, delivered>>

dmaRead(q, r, n) == transferRead([q EXCEPT !.wait = Append(@, Piece(r, n))])

(* Mutant: the space is not given back. *)
ReadDoneNextFull(q) ==
    LET p == [q EXCEPT !.insertPending = FALSE, !.transfer = Tail(@)]
    IN  transferRead(IF p.transfer # <<>> /\ ~p.beginTransfer THEN insertRead(p) ELSE p)

(* Mutant: the next piece is inserted also when there is none. *)
ReadDoneNextBlind(q) ==
    LET p == [q EXCEPT !.usage = @ - calcSize(Head(q.transfer).size),
                       !.insertPending = FALSE,
                       !.transfer = Tail(@)]
    IN  transferRead(IF p.beginTransfer THEN p ELSE insertRead(p))

(* The end of insertReadDoneNext(), after the request's function. *)
ReadDoneNext(q) ==
    LET p == [q EXCEPT !.usage = @ - calcSize(Head(q.transfer).size),
                       !.insertPending = FALSE,
                       !.transfer = Tail(@)]
        t == IF p.transfer # <<>> /\ ~p.beginTransfer
             THEN insertRead(p) ELSE p
    IN  transferRead(t)

-----------------------------------------------------------------------------
(* Requests, and the end of a piece. *)

Requests == Len(size.read) + Len(size.write)

(* The end of the first piece of queue q.  The function of the request is  *)
(* called with its last piece, and may ask for another request before the  *)
(* queue is changed.                                                       *)
Finish(dir, q, Dma(_, _, _), DoneNext(_), result(_)) ==
    LET f == Head(q.transfer)
    IN  /\ moved' = [moved EXCEPT ![dir][f.req] = @ + f.size]
        /\ delivered' = IF f.last
                        THEN [delivered EXCEPT ![dir] = Append(@, f.req)]
                        ELSE delivered
        /\ \/ result(DoneNext(q)) /\ UNCHANGED size
           \/ /\ f.last /\ Requests < MaxRequests
              /\ \E n \in Sizes :
                    /\ size' = [size EXCEPT ![dir] = Append(@, n)]
                    /\ result(DoneNext(Dma(q, Len(size[dir]) + 1, n)))

WriteFinish(q) ==
    /\ Finish("write", q, dmaWrite, WriteDoneNext, LAMBDA p : writeQueue' = p)
    /\ UNCHANGED readQueue

ReadFinish(q) ==
    /\ Finish("read", q, dmaRead, ReadDoneNext, LAMBDA p : readQueue' = p)
    /\ UNCHANGED writeQueue

(* Is the first piece of the transfer queue completely in the FIFO?  Only  *)
(* the last one may not be.                                                *)
Inserted(q) == ~(q.insertPending /\ Len(q.transfer) = 1)

(* transferWriteDone(): finish at once or, upstream being faster, later. *)
transferWriteDone ==
    LET q == [writeQueue EXCEPT !.upstream = FALSE]
    IN  /\ writeQueue.upstream
        /\ \/ Inserted(q) /\ WriteFinish(q)
           \/ /\ writeQueue' = [q EXCEPT !.submitCompletion = TRUE]
              /\ UNCHANGED <<readQueue, size, moved, delivered>>

(* submitCompletion of the write queue fires. *)
transferWriteDoneNext ==
    /\ writeQueue.submitCompletion /\ Inserted(writeQueue)
    /\ WriteFinish([writeQueue EXCEPT !.submitCompletion = FALSE])

(* insertDone of the read queue fires: the piece is finished when the read *)
(* is done too, at once or later.                                          *)
insertReadDone ==
    LET id == Head(readQueue.transfer).id
        q == [readQueue EXCEPT !.insertDone = FALSE]
        p == [q EXCEPT !.completion = @ \ {id}]
    IN  /\ readQueue.insertDone
        /\ \/ /\ id \notin q.completion
              /\ readQueue' = [q EXCEPT !.completion = @ \cup {id}]
              /\ UNCHANGED <<writeQueue, size, moved, delivered>>
           \/ id \in q.completion /\ ReadFinish(p)
           \/ /\ id \in q.completion
              /\ readQueue' = [p EXCEPT !.submitCompletion = TRUE]
              /\ UNCHANGED <<writeQueue, size, moved, delivered>>

(* submitCompletion of the read queue fires. *)
insertReadDoneNext ==
    /\ readQueue.submitCompletion
    /\ ReadFinish([readQueue EXCEPT !.submitCompletion = FALSE])

(* Downstream asks for a transfer. *)
request(dir, n) ==
    LET r == Len(size[dir]) + 1
    IN  /\ Requests < MaxRequests
        /\ size' = [size EXCEPT ![dir] = Append(@, n)]
        /\ \/ /\ dir = "write" /\ writeQueue' = dmaWrite(writeQueue, r, n)
              /\ UNCHANGED readQueue
           \/ /\ dir = "read" /\ readQueue' = dmaRead(readQueue, r, n)
              /\ UNCHANGED writeQueue
        /\ UNCHANGED <<moved, delivered>>

-----------------------------------------------------------------------------
Direction == {"read", "write"}
Each(v) == [d \in Direction |-> v]

Init ==
    /\ writeQueue = [wait |-> <<>>, transfer |-> <<>>, usage |-> 0, insertPending |-> FALSE,
                     transferPending |-> FALSE, beginTransfer |-> FALSE,
                     submitCompletion |-> FALSE, upstream |-> FALSE]
    /\ readQueue = [wait |-> <<>>, transfer |-> <<>>, usage |-> 0, insertPending |-> FALSE,
                    transferPending |-> FALSE, beginTransfer |-> FALSE,
                    submitCompletion |-> FALSE, insertDone |-> FALSE, counter |-> 0,
                    completion |-> {}]
    /\ size = Each(<<>>)
    /\ moved = Each([r \in 1 .. MaxRequests |-> 0])
    /\ delivered = Each(<<>>)

WriteEvent ==
    \/ insertWriteDone \/ beginTransferWrite
    \/ transferWriteDone \/ transferWriteDoneNext

ReadEvent ==
    \/ transferReadDone \/ beginInsertRead
    \/ insertReadDone \/ insertReadDoneNext

Next ==
    \/ \E dir \in Direction, n \in Sizes : request(dir, n)
    \/ WriteEvent
    \/ ReadEvent

(* The engine fires every event, and upstream finishes every transfer. *)
Spec ==
    /\ Init /\ [][Next]_vars
    /\ WF_vars(WriteEvent) /\ WF_vars(ReadEvent)

-----------------------------------------------------------------------------
(* Properties. *)

Pieces == [req : 1 .. MaxRequests, id : Int, size : Nat \ {0}, last : BOOLEAN]

(* The type of every variable. *)
TypeOK ==
    /\ \A q \in {writeQueue, readQueue} :
          /\ q.wait \in Seq(Pieces) /\ q.transfer \in Seq(Pieces)
          /\ q.usage \in Nat
          /\ {q.insertPending, q.transferPending, q.beginTransfer,
              q.submitCompletion} \subseteq BOOLEAN
    /\ readQueue.counter \in Nat
    /\ readQueue.completion \subseteq 0 .. readQueue.counter - 1
    /\ size \in [Direction -> Seq(Sizes)]
    /\ moved \in [Direction -> [1 .. MaxRequests -> Nat]]
    /\ delivered \in [Direction -> Seq(1 .. MaxRequests)]

(* The usage is the space of the pieces in the FIFO, and only pieces of a  *)
(* request that does not fit, which are let in without a look, exceed the  *)
(* capacity.                                                               *)
Usage(q) == FoldLeft(LAMBDA n, p : n + calcSize(p.size), 0, q.transfer)
SpaceAccounted ==
    /\ TypeOK
    /\ \A q \in {writeQueue, readQueue} :
          /\ q.usage = Usage(q)
          /\ q.usage > Capacity =>
                \E i \in DOMAIN q.transfer : ~q.transfer[i].last

(* The handlers take the front of a queue without asking whether there is  *)
(* one: an event is scheduled, a transfer under way only when there is.    *)
FrontExists ==
    /\ writeQueue.insertPending => writeQueue.wait # <<>>
    /\ readQueue.transferPending => readQueue.wait # <<>>
    /\ \A q \in {writeQueue, readQueue} :
          q.beginTransfer \/ q.submitCompletion => q.transfer # <<>>
    /\ writeQueue.upstream => writeQueue.transfer # <<>>
    /\ readQueue.insertDone => readQueue.transfer # <<>>

(* A request that is delivered is delivered with its last piece. *)
Whole ==
    \A d \in Direction : \A i \in DOMAIN delivered[d] :
        moved[d][delivered[d][i]] = size[d][delivered[d][i]]

Writes == INSTANCE DmaChannel WITH
    submitted <- Len(size["write"]), delivered <- delivered["write"]
Reads == INSTANCE DmaChannel WITH
    submitted <- Len(size["read"]), delivered <- delivered["read"]

(* Both directions deliver every request once, in order and whole,         *)
(* whatever the sizes, the order of the events and the requests that       *)
(* functions submit.                                                       *)
Delivered == Writes!Spec /\ Reads!Spec /\ []Whole
=============================================================================

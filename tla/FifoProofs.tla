----------------------------- MODULE FifoProofs -----------------------------
(***************************************************************************)
(* Proofs about the DMA FIFO.  Both directions have the same skeleton: the *)
(* front of the wait queue is claimed (cut off if it is too long), stands  *)
(* in both queues until its first half is done, and leaves the transfer    *)
(* queue at its end.  A chain of pieces says what the two queues hold; the *)
(* events of each direction are tied to it by an invariant of their own.   *)
(***************************************************************************)
EXTENDS Fifo, ListLemmas

-----------------------------------------------------------------------------
(* The chain of pieces *)

NextReq(p)    == IF p.last THEN p.req + 1 ELSE p.req
NextOff(p, o) == IF p.last THEN 0 ELSE o + p.size

(* What k delivered requests and the pieces of a transfer queue leave to   *)
(* be done: the number of a request, and how much of it was claimed.       *)
EndReq(transfer, k) ==
    IF transfer = <<>> THEN k + 1 ELSE NextReq(transfer[Len(transfer)])
EndOff(transfer, off, k, mv) ==
    IF transfer = <<>> THEN mv[k + 1]
    ELSE NextOff(transfer[Len(transfer)], off[Len(transfer)])

(* off[i] is where piece i begins in its request.  The pieces follow each  *)
(* other without a gap, and the last one of a request ends where it ends.  *)
Linked(transfer, off, k, sz, mv) ==
    /\ off \in [1 .. Len(transfer) -> Nat]
    /\ transfer # <<>> => transfer[1].req = k + 1 /\ off[1] = mv[k + 1]
    /\ \A i \in 1 .. Len(transfer) - 1 :
          /\ transfer[i + 1].req = NextReq(transfer[i])
          /\ off[i + 1] = NextOff(transfer[i], off[i])
    /\ \A i \in 1 .. Len(transfer) :
          /\ transfer[i].req <= Len(sz)
          /\ transfer[i].last => off[i] + transfer[i].size = sz[transfer[i].req]

(* The requests and the bytes done, when piece p is. *)
Counted(p, k)  == IF p.last THEN k + 1 ELSE k
Credited(p, mv) == [mv EXCEPT ![p.req] = @ + p.size]

(* The sizes of the requests, and the wait queue, with a new one of size n *)
Asked(sz, n)        == Append(sz, n)
Queued(wait, sz, n) == Append(wait, Piece(Len(sz) + 1, n))

Claimed(front) == IF front THEN 1 ELSE 0

(* The pieces behind the claimed one are whole requests, except that the   *)
(* first may have lost its beginning.                                      *)
Waiting(wait, c, req, off, sz) ==
    /\ \A i \in c + 1 .. Len(wait) :
          /\ wait[i].last /\ wait[i].req = req + (i - c - 1)
          /\ i = c + 1 => off + wait[i].size = sz[wait[i].req]
          /\ i > c + 1 => wait[i].size = sz[wait[i].req]
    /\ req + Len(wait) - c = Len(sz) + 1

(* The requests so far: k of them delivered, whole, the others not begun   *)
(* except for the first.                                                   *)
Accounted(k, sz, mv) ==
    /\ k <= Len(sz)
    /\ \A r \in 1 .. k : mv[r] = sz[r]
    /\ \A r \in 1 .. MaxRequests : (r > k + 1 \/ r > Len(sz)) => mv[r] = 0

Chain(wait, transfer, front, k, sz, mv) ==
    /\ Accounted(k, sz, mv)
    /\ front => wait # <<>> /\ calcSize(wait[1].size) <= Capacity
    /\ \E off : /\ Linked(transfer, off, k, sz, mv)
                /\ Waiting(wait, Claimed(front), EndReq(transfer, k),
                           EndOff(transfer, off, k, mv), sz)

-----------------------------------------------------------------------------
(* The events *)

(* beginTransfer is scheduled for a piece whose second half is not begun. *)
Begins(q, busy) ==
    /\ busy => q.transfer # <<>>
    /\ q.beginTransfer => Len(q.transfer) >= IF busy THEN 2 ELSE 1

WQueue == [wait : Seq(Pieces), transfer : Seq(Pieces), usage : Int, insertPending : BOOLEAN,
           transferPending : BOOLEAN, beginTransfer : BOOLEAN, submitCompletion : BOOLEAN,
           upstream : BOOLEAN]
RQueue == [wait : Seq(Pieces), transfer : Seq(Pieces), usage : Int, insertPending : BOOLEAN,
           transferPending : BOOLEAN, beginTransfer : BOOLEAN, submitCompletion : BOOLEAN,
           insertDone : BOOLEAN, counter : Nat, completion : SUBSET Int]

History(k, sz, mv) ==
    /\ k \in Nat /\ sz \in Seq(Sizes) /\ Len(sz) <= MaxRequests
    /\ mv \in [1 .. MaxRequests -> Nat]

(* What a write queue keeps also within a handler; k requests of sizes sz  *)
(* are delivered, and mv bytes are done of each.                           *)
Write(q, k, sz, mv) ==
    /\ q \in WQueue /\ History(k, sz, mv)
    /\ Chain(q.wait, q.transfer, q.insertPending, k, sz, mv)
    /\ Begins(q, q.transferPending)

(* Between events, an upstream transfer is under way or done but not ended. *)
WriteEvents(q) ==
    /\ q.transferPending <=> (q.upstream \/ q.submitCompletion)
    /\ ~(q.upstream /\ q.submitCompletion)

(* The pieces in the transfer queue have consecutive numbers. *)
First(q) == q.counter - Len(q.transfer)

Numbered(q) ==
    /\ First(q) \in Nat
    /\ \A i \in 1 .. Len(q.transfer) : q.transfer[i].id = First(q) + i - 1
    /\ q.transferPending => q.transfer # <<>> /\ q.wait[1].id = q.counter - 1

Read(q, k, sz, mv) ==
    /\ q \in RQueue /\ History(k, sz, mv)
    /\ Chain(q.wait, q.transfer, q.transferPending, k, sz, mv)
    /\ Begins(q, q.insertPending)
    /\ Numbered(q)

(* The pieces that were read upstream: all but the claimed one. *)
ReadIds(q) == First(q) .. q.counter - 1 - Claimed(q.transferPending)

(* The front of the transfer queue is not being inserted; is being         *)
(* inserted; was inserted and read; was inserted, and is being read.       *)
Untouched(q) ==
    /\ ~q.insertPending /\ ~q.insertDone /\ ~q.submitCompletion
    /\ q.completion = ReadIds(q)
Inserting(q) ==
    /\ q.insertPending /\ q.insertDone /\ ~q.submitCompletion
    /\ q.completion = ReadIds(q)
Complete(q) ==
    /\ q.insertPending /\ ~q.insertDone
    /\ First(q) \in ReadIds(q) /\ q.completion = ReadIds(q) \ {First(q)}
HalfDone(q) ==
    /\ q.insertPending /\ ~q.insertDone /\ ~q.submitCompletion
    /\ q.transferPending /\ Len(q.transfer) = 1 /\ q.completion = {First(q)}

ReadEvents(q) ==
    Untouched(q) \/ Inserting(q) \/ (Complete(q) /\ q.submitCompletion) \/ HalfDone(q)

Types ==
    /\ size \in [Direction -> Seq(Sizes)]
    /\ moved \in [Direction -> [1 .. MaxRequests -> Nat]]
    /\ delivered \in [Direction -> Seq(1 .. MaxRequests)]
    /\ Requests <= MaxRequests

InOrder(d) == \A i \in 1 .. Len(delivered[d]) : delivered[d][i] = i

Writing ==
    /\ Write(writeQueue, Len(delivered["write"]), size["write"], moved["write"])
    /\ WriteEvents(writeQueue)

Reading ==
    /\ Read(readQueue, Len(delivered["read"]), size["read"], moved["read"])
    /\ ReadEvents(readQueue)

Inv == Types /\ InOrder("write") /\ InOrder("read") /\ Writing /\ Reading

-----------------------------------------------------------------------------
(* Pieces *)

(* The assumptions on the constants, one by one *)
LEMMA Constants ==
    /\ Capacity \in Nat /\ Unit \in Nat /\ Unit > 0 /\ Unit <= Capacity
    /\ Sizes \subseteq Nat \ {0} /\ MaxRequests \in Nat
BY FifoAssumption

(* A unit fits, and what does not fit is longer than a unit. *)
LEMMA UnitFits ==
    /\ calcSize(Unit) <= Capacity
    /\ \A n \in Nat : calcSize(n) \in Int
    /\ \A n \in Nat : ~(calcSize(n) <= Capacity) => n > Unit
<1> DEFINE a == Unit + Unit - 1
<1>1. a \in Int /\ a = Unit * 1 + (Unit - 1) /\ Unit - 1 \in 0 .. Unit - 1
  BY Constants
<1>2. a % Unit = Unit - 1
  <2>1. (Unit * 1 + (Unit - 1)) % Unit = Unit - 1
    BY <1>1, Constants, RemainderUnique
  <2> QED
    BY <1>1, <2>1
<1>3. (a \div Unit) * Unit = a - (a % Unit)
  BY <1>1, Constants, Remainder
<1>4. calcSize(Unit) = Unit
  <2> HIDE DEF a
  <2>1. (a \div Unit) * Unit = Unit
    BY <1>2, <1>3, Constants DEF a
  <2>2. calcSize(Unit) = (a \div Unit) * Unit
    BY Constants DEF calcSize, a
  <2> QED
    BY <2>1, <2>2, Zenon
<1>5. \A n \in Nat : calcSize(n) \in Int
  <2> TAKE n \in Nat
  <2>1. (n + Unit - 1) \div Unit \in Int
    BY Constants, Remainder
  <2> QED
    BY <2>1, Constants DEF calcSize
<1>6. \A n \in Nat : ~(calcSize(n) <= Capacity) => n > Unit
  <2> TAKE n \in Nat
  <2>1. CASE n < Unit
    BY <2>1, Constants DEF calcSize
  <2>2. CASE n = Unit
    BY <2>2, <1>4, Constants
  <2> QED
    BY <2>1, <2>2, Constants
<1>7. QED
  BY <1>4, <1>5, <1>6, Constants

(* The front of the wait queue, cut to a unit if it does not fit *)
LEMMA SplitSeq ==
    ASSUME NEW wait \in Seq(Pieces), wait # <<>>
    PROVE  LET w == Split(wait)
           IN  /\ w \in Seq(Pieces) /\ w # <<>>
               /\ calcSize(w[1].size) <= Capacity
               /\ w[1].req = wait[1].req
               /\ \/ w = wait
                  \/ /\ Len(w) = Len(wait) + 1
                     /\ ~w[1].last /\ w[2].last /\ w[2].req = wait[1].req
                     /\ w[1].size + w[2].size = wait[1].size
                     /\ \A i \in 3 .. Len(w) : w[i] = wait[i - 1]
<1> DEFINE f == Head(wait)
           a == [f EXCEPT !.last = FALSE, !.size = Unit]
           b == [f EXCEPT !.last = TRUE, !.size = @ - Unit]
<1>1. f \in Pieces /\ f = wait[1] /\ Tail(wait) \in Seq(Pieces) /\ Len(Tail(wait)) = Len(wait) - 1
      /\ \A i \in 1 .. Len(Tail(wait)) : Tail(wait)[i] = wait[i + 1]
  BY HeadTailProperties
<1>2. CASE calcSize(f.size) <= Capacity
  BY <1>1, <1>2 DEF Split
<1>3. CASE ~(calcSize(f.size) <= Capacity)
  <2>1. f.size \in Nat /\ f.size > Unit
    BY <1>1, <1>3, UnitFits DEF Pieces
  <2>2. a \in Pieces /\ b \in Pieces
    <3>1. f.size - Unit \in Nat \ {0} /\ Unit \in Nat \ {0}
      BY <2>1, Constants
    <3> QED
      BY <1>1, <3>1 DEF Pieces
  <2>3. Split(wait) = <<a, b>> \o Tail(wait)
    BY <1>3 DEF Split
  <2>4. /\ a.last = FALSE /\ a.size = Unit /\ a.req = f.req
        /\ b.last = TRUE /\ b.size = f.size - Unit /\ b.req = f.req
    BY <1>1 DEF Pieces
  <2> HIDE DEF a, b, f
  <2>5. <<a, b>> \in Seq(Pieces) /\ Len(<<a, b>>) = 2 /\ <<a, b>>[1] = a /\ <<a, b>>[2] = b
    BY <2>2
  <2> DEFINE w == <<a, b>> \o Tail(wait)
  <2>6. /\ w \in Seq(Pieces) /\ Len(w) = 2 + (Len(wait) - 1)
        /\ \A i \in 1 .. 2 + (Len(wait) - 1) :
              w[i] = IF i <= 2 THEN <<a, b>>[i] ELSE Tail(wait)[i - 2]
    BY <1>1, <2>5, ConcatProperties
  <2>7. Len(wait) \in Nat /\ Len(wait) > 0
    BY LenProperties, EmptySeq
  <2>8. Len(w) = Len(wait) + 1 /\ w[1] = a /\ w[2] = b
    BY <2>5, <2>6, <2>7
  <2>9. \A i \in 3 .. Len(w) : w[i] = wait[i - 1]
    BY <1>1, <2>6, <2>7, <2>8
  <2>10. w # <<>>
    BY <2>7, <2>8
  <2>11. calcSize(a.size) <= Capacity
    BY <2>4, UnitFits
  <2> HIDE DEF w
  <2>12. a.size + b.size = f.size
    BY <2>1, <2>4, Constants
  <2>13. calcSize(w[1].size) <= Capacity /\ w[1].req = wait[1].req
    BY <1>1, <2>4, <2>8, <2>11, Zenon
  <2>14. ~w[1].last /\ w[2].last /\ w[2].req = wait[1].req
    BY <1>1, <2>4, <2>8, Zenon
  <2>15. w[1].size + w[2].size = wait[1].size
    BY <1>1, <2>8, <2>12, Zenon
  <2>16. w \in Seq(Pieces)
    BY <2>6
  <2>17. Split(wait) = w
    BY <2>3 DEF w
  <2> QED
    BY <2>8, <2>9, <2>10, <2>13, <2>14, <2>15, <2>16, <2>17, Zenon
<1>4. QED
  BY <1>2, <1>3

-----------------------------------------------------------------------------
(* What the queues do to the chain *)

(* The numbers of a chain *)
LEMMA ChainTypes ==
    ASSUME NEW wait \in Seq(Pieces), NEW transfer \in Seq(Pieces), NEW front \in BOOLEAN,
           NEW k \in Nat, NEW sz \in Seq(Sizes), NEW mv \in [1 .. MaxRequests -> Nat],
           Len(sz) <= MaxRequests, NEW off,
           Linked(transfer, off, k, sz, mv),
           Waiting(wait, Claimed(front), EndReq(transfer, k), EndOff(transfer, off, k, mv), sz)
    PROVE  /\ Len(wait) \in Nat /\ Len(transfer) \in Nat /\ Len(sz) \in Nat
           /\ \A i \in 1 .. Len(wait) : wait[i] \in Pieces
           /\ \A i \in 1 .. Len(transfer) : transfer[i] \in Pieces /\ off[i] \in Nat
           /\ EndReq(transfer, k) \in Nat \ {0}
           /\ Claimed(front) < Len(wait) =>
                 EndReq(transfer, k) \in 1 .. Len(sz) /\ EndOff(transfer, off, k, mv) \in Nat
<1>1. Len(wait) \in Nat /\ Len(transfer) \in Nat /\ Len(sz) \in Nat
  BY LenProperties
<1>2. \A i \in 1 .. Len(wait) : wait[i] \in Pieces
  BY ElementOfSeq
<1>3. \A i \in 1 .. Len(transfer) : transfer[i] \in Pieces /\ off[i] \in Nat
  BY ElementOfSeq DEF Linked
<1>4. transfer # <<>> => Len(transfer) \in 1 .. Len(transfer)
  BY <1>1, EmptySeq
<1>5. EndReq(transfer, k) \in Nat \ {0}
  <2>1. CASE transfer = <<>>
    BY <2>1 DEF EndReq
  <2>2. CASE transfer # <<>>
    <3>1. transfer[Len(transfer)] \in Pieces
      BY <1>3, <1>4, <2>2
    <3>2. transfer[Len(transfer)].req \in Nat \ {0}
      BY ONLY <3>1 DEF Pieces
    <3>3. transfer[Len(transfer)].req + 1 \in Nat \ {0}
      BY ONLY <3>2
    <3> QED
      BY ONLY <2>2, <3>2, <3>3 DEF EndReq, NextReq
  <2> QED
    BY <2>1, <2>2
<1>6. ASSUME Claimed(front) < Len(wait)
      PROVE  EndReq(transfer, k) \in 1 .. Len(sz) /\ EndOff(transfer, off, k, mv) \in Nat
  <2>1. EndReq(transfer, k) + Len(wait) - Claimed(front) = Len(sz) + 1
    BY DEF Waiting
  <2>2. EndReq(transfer, k) \in 1 .. Len(sz)
    BY <1>1, <1>5, <1>6, <2>1 DEF Claimed
  <2>3. CASE transfer = <<>>
    BY <1>1, <2>2, <2>3, Constants DEF EndReq, EndOff
  <2>4. CASE transfer # <<>>
    <3> DEFINE t == transfer[Len(transfer)]
               n == off[Len(transfer)]
    <3>1. t \in Pieces /\ n \in Nat
      BY <1>3, <1>4, <2>4
    <3>2. EndOff(transfer, off, k, mv) = IF t.last THEN 0 ELSE n + t.size
      BY <2>4 DEF EndOff, NextOff
    <3> HIDE DEF t, n
    <3>3. t.size \in Nat
      BY <3>1 DEF Pieces
    <3> QED
      BY <2>2, <3>1, <3>2, <3>3
  <2> QED
    BY <2>2, <2>3, <2>4
<1>7. QED
  BY <1>1, <1>2, <1>3, <1>5, <1>6

(* insertWriteDone() and transferReadDone(): the claimed piece leaves the  *)
(* wait queue.                                                             *)
LEMMA PopChain ==
    ASSUME NEW wait \in Seq(Pieces), NEW transfer \in Seq(Pieces),
           NEW k \in Nat, NEW sz \in Seq(Sizes), NEW mv \in [1 .. MaxRequests -> Nat],
           Len(sz) <= MaxRequests, Chain(wait, transfer, TRUE, k, sz, mv)
    PROVE  Tail(wait) \in Seq(Pieces) /\ Chain(Tail(wait), transfer, FALSE, k, sz, mv)
<1> DEFINE w == Tail(wait)
           req == EndReq(transfer, k)
<1>1. Accounted(k, sz, mv) /\ wait # <<>>
  BY DEF Chain
<1>2. PICK off : /\ Linked(transfer, off, k, sz, mv)
                 /\ Waiting(wait, Claimed(TRUE), req, EndOff(transfer, off, k, mv), sz)
  BY DEF Chain
<1> DEFINE o == EndOff(transfer, off, k, mv)
<1>3. w \in Seq(Pieces) /\ Len(w) = Len(wait) - 1 /\ \A i \in 1 .. Len(w) : w[i] = wait[i + 1]
  BY <1>1, HeadTailProperties
<1>4. Len(wait) \in Nat /\ Len(sz) \in Nat /\ req \in Nat
  BY <1>2, ChainTypes
<1>5. Waiting(w, Claimed(FALSE), req, o, sz)
  <2> HIDE DEF w, req, o
  <2>1. \A i \in 1 .. Len(w) :
          /\ w[i].last /\ w[i].req = req + (i - 1)
          /\ i = 1 => o + w[i].size = sz[w[i].req]
          /\ i > 1 => w[i].size = sz[w[i].req]
    <3> TAKE i \in 1 .. Len(w)
    <3>1. i + 1 \in 1 + 1 .. Len(wait) /\ w[i] = wait[i + 1]
      BY <1>3, <1>4
    <3>2. /\ wait[i + 1].last /\ wait[i + 1].req = req + ((i + 1) - 1 - 1)
          /\ i + 1 = 1 + 1 => o + wait[i + 1].size = sz[wait[i + 1].req]
          /\ i + 1 > 1 + 1 => wait[i + 1].size = sz[wait[i + 1].req]
      BY <1>2, <3>1 DEF Waiting, Claimed, o
    <3> QED
      BY <1>3, <1>4, <3>1, <3>2
  <2>2. req + Len(w) = Len(sz) + 1
    BY <1>2, <1>3, <1>4 DEF Waiting, Claimed, w
  <2> QED
    BY <1>3, <1>4, <2>1, <2>2 DEF Waiting, Claimed
<1>6. QED
  BY <1>1, <1>2, <1>3, <1>5 DEF Chain

(* A new request is the last to wait. *)
LEMMA SubmitChain ==
    ASSUME NEW wait \in Seq(Pieces), NEW transfer \in Seq(Pieces), NEW front \in BOOLEAN,
           NEW k \in Nat, NEW sz \in Seq(Sizes), NEW mv \in [1 .. MaxRequests -> Nat],
           Len(sz) < MaxRequests, NEW n \in Sizes, Chain(wait, transfer, front, k, sz, mv)
    PROVE  /\ Queued(wait, sz, n) \in Seq(Pieces)
           /\ Asked(sz, n) \in Seq(Sizes) /\ Len(Asked(sz, n)) <= MaxRequests
           /\ front => Queued(wait, sz, n)[1] = wait[1]
           /\ Chain(Queued(wait, sz, n), transfer, front, k, Asked(sz, n), mv)
<1> DEFINE r == Len(sz) + 1
           e == Piece(r, n)
           w == Append(wait, e)
           s == Append(sz, n)
           req == EndReq(transfer, k)
           c == Claimed(front)
<1>1. Accounted(k, sz, mv) /\ (front => wait # <<>> /\ calcSize(wait[1].size) <= Capacity)
  BY DEF Chain
<1>2. PICK off : /\ Linked(transfer, off, k, sz, mv)
                 /\ Waiting(wait, c, req, EndOff(transfer, off, k, mv), sz)
  BY DEF Chain
<1> DEFINE o == EndOff(transfer, off, k, mv)
<1>3. /\ Len(wait) \in Nat /\ Len(transfer) \in Nat /\ Len(sz) \in Nat /\ req \in Nat
      /\ \A i \in 1 .. Len(transfer) : transfer[i] \in Pieces /\ off[i] \in Nat
      /\ \A i \in 1 .. Len(wait) : wait[i] \in Pieces
      /\ c < Len(wait) => req \in 1 .. Len(sz) /\ o \in Nat
  <2>1. Len(sz) <= MaxRequests
    BY LenProperties, Constants
  <2> QED
    BY <1>2, <2>1, ChainTypes
<1>4. e \in Pieces /\ e.req = r /\ e.last /\ e.size = n
  BY <1>3, Constants DEF Piece, Pieces
<1> HIDE DEF e
<1>5. /\ w \in Seq(Pieces) /\ Len(w) = Len(wait) + 1 /\ w # <<>>
      /\ \A i \in 1 .. Len(wait) : w[i] = wait[i]
      /\ w[Len(wait) + 1] = e
  BY <1>4, AppendProperties
<1>6. /\ s \in Seq(Sizes) /\ Len(s) = r /\ \A i \in 1 .. Len(sz) : s[i] = sz[i]
      /\ s[r] = n
  BY AppendProperties
<1>7. k <= Len(sz) /\ (\A i \in 1 .. k : mv[i] = sz[i]) /\ mv[r] = 0
  <2>1. r \in 1 .. MaxRequests /\ r > Len(sz)
    BY <1>3, Constants
  <2> QED
    BY <1>1, <2>1 DEF Accounted
<1> HIDE DEF w, s, r
<1>8. Accounted(k, s, mv)
  <2>1. k <= Len(s)
    BY <1>3, <1>6, <1>7 DEF r
  <2>2. \A i \in 1 .. k : mv[i] = s[i]
    BY <1>3, <1>6, <1>7
  <2>3. ASSUME NEW i \in 1 .. MaxRequests, i > k + 1 \/ i > Len(s)
        PROVE  mv[i] = 0
    <3>1. i > k + 1 \/ i > Len(sz)
      BY <2>3, <1>3, <1>6 DEF r
    <3> QED
      BY <1>1, <3>1 DEF Accounted
  <2> QED
    BY <2>1, <2>2, <2>3 DEF Accounted
<1>9. Linked(transfer, off, k, s, mv)
  <2>1. ASSUME NEW i \in 1 .. Len(transfer)
        PROVE  /\ transfer[i].req <= Len(s)
               /\ transfer[i].last => off[i] + transfer[i].size = s[transfer[i].req]
    <3>1. transfer[i].req \in 1 .. MaxRequests
      BY <1>3 DEF Pieces
    <3>2. /\ transfer[i].req <= Len(sz)
          /\ transfer[i].last => off[i] + transfer[i].size = sz[transfer[i].req]
      BY <1>2 DEF Linked
    <3>3. transfer[i].req \in 1 .. Len(sz)
      BY <1>3, <3>1, <3>2
    <3>4. s[transfer[i].req] = sz[transfer[i].req]
      BY <1>6, <3>3
    <3> QED
      BY <1>3, <1>6, <3>2, <3>3, <3>4 DEF r
  <2> QED
    BY <1>2, <2>1 DEF Linked
<1>10. c \in {0, 1} /\ c \in Int /\ (c = 1 => front) /\ (front => c = 1)
  BY DEF Claimed
<1>11. c <= Len(wait)
  <2>1. wait # <<>> => Len(wait) > 0
    BY <1>3, EmptySeq
  <2> QED
    BY <1>1, <1>3, <1>10, <2>1
<1>12. req + Len(wait) - c = Len(sz) + 1
  BY <1>2 DEF Waiting
<1>13. ASSUME Len(wait) = c
       PROVE  req = r /\ o = 0
  <2>1. req = r
    BY <1>3, <1>10, <1>12, <1>13 DEF r
  <2>2. CASE transfer = <<>>
    BY <1>7, <2>1, <2>2 DEF EndReq, EndOff
  <2>3. CASE transfer # <<>>
    <3> DEFINE t == transfer[Len(transfer)]
    <3>1. Len(transfer) \in 1 .. Len(transfer)
      BY <1>3, <2>3, EmptySeq
    <3>2. t.req <= Len(sz) /\ t.req \in Int
      <4>1. t.req <= Len(sz)
        BY ONLY <1>2, <3>1 DEF Linked
      <4>2. t \in Pieces
        BY ONLY <1>3, <3>1
      <4> QED
        BY ONLY <4>1, <4>2 DEF Pieces
    <3>3. req = IF t.last THEN t.req + 1 ELSE t.req
      BY <2>3 DEF EndReq, NextReq
    <3>4. t.last
      <4>1. req = Len(sz) + 1 /\ Len(sz) \in Int
        BY <1>3, <2>1 DEF r
      <4> HIDE DEF t, req
      <4>2. \A a, b \in Int : a <= b => a # b + 1
        OBVIOUS
      <4>3. t.req # req
        BY <3>2, <4>1, <4>2
      <4> QED
        BY <3>3, <4>3
    <3> QED
      BY <2>1, <2>3, <3>4 DEF EndOff, NextOff
  <2> QED
    BY <2>2, <2>3
<1> HIDE DEF o, req, c
<1>14. Waiting(w, c, req, o, s)
  <2>1. ASSUME NEW i \in c + 1 .. Len(wait)
        PROVE  /\ w[i].last /\ w[i].req = req + (i - c - 1)
               /\ i = c + 1 => o + w[i].size = s[w[i].req]
               /\ i > c + 1 => w[i].size = s[w[i].req]
    <3>1. i \in 1 .. Len(wait) /\ w[i] = wait[i]
      BY <1>3, <1>5, <1>10
    <3>2. /\ wait[i].last /\ wait[i].req = req + (i - c - 1)
          /\ i = c + 1 => o + wait[i].size = sz[wait[i].req]
          /\ i > c + 1 => wait[i].size = sz[wait[i].req]
      BY <1>2 DEF Waiting, o
    <3>3. wait[i].req \in 1 .. Len(sz)
      <4>0. wait[i] \in Pieces
        BY ONLY <1>3, <3>1
      <4>1. wait[i].req \in Int /\ wait[i].req >= 1
        BY ONLY <4>0 DEF Pieces
      <4>2. /\ req \in Int /\ c \in Int /\ Len(wait) \in Int /\ Len(sz) \in Int
            /\ i \in Int /\ i <= Len(wait)
        BY <1>3, <1>10, <3>1
      <4>3. \A q, d, a, b, j \in Int : q + a - d = b + 1 /\ j <= a => q + (j - d - 1) <= b
        OBVIOUS
      <4>4. req + (i - c - 1) <= Len(sz)
        BY ONLY <1>12, <4>2, <4>3
      <4> QED
        BY ONLY <3>2, <4>1, <4>2, <4>4
    <3>4. s[wait[i].req] = sz[wait[i].req]
      BY <1>6, <3>3
    <3> QED
      BY <3>1, <3>2, <3>4
  <2>2. ASSUME NEW i \in c + 1 .. Len(w), i = Len(wait) + 1
        PROVE  /\ w[i].last /\ w[i].req = req + (i - c - 1)
               /\ i = c + 1 => o + w[i].size = s[w[i].req]
               /\ i > c + 1 => w[i].size = s[w[i].req]
    <3>1. w[i] = e
      BY <1>5, <2>2
    <3>2. r = req + (i - c - 1)
      <4>1. /\ r = Len(sz) + 1 /\ i = Len(wait) + 1 /\ c \in Int /\ req \in Int
            /\ Len(wait) \in Int /\ Len(sz) \in Int /\ i \in Int
        BY <1>3, <1>10, <2>2 DEF r
      <4>2. PICK a, b : a = Len(wait) /\ b = Len(sz)
        OBVIOUS
      <4>3. /\ req + a - c = b + 1 /\ r = b + 1 /\ i = a + 1
            /\ a \in Int /\ b \in Int /\ c \in Int /\ req \in Int
        BY ONLY <1>12, <4>1, <4>2
      <4> QED
        BY ONLY <4>3
    <3>3. s[e.req] = e.size
      BY <1>4, <1>6
    <3>4. i = c + 1 => o = 0
      BY <1>3, <1>10, <1>13, <2>2
    <3>5. e.size \in Nat
      BY <1>4, Constants
    <3> QED
      BY <1>4, <3>1, <3>2, <3>3, <3>4, <3>5
  <2>3. \A i \in c + 1 .. Len(w) : i \in c + 1 .. Len(wait) \/ i = Len(wait) + 1
    BY <1>3, <1>5, <1>10
  <2>4. req + Len(w) - c = Len(s) + 1
    <3>1. Len(w) = Len(wait) + 1 /\ Len(s) = Len(sz) + 1 /\ c \in Int /\ req \in Int
          /\ Len(wait) \in Int /\ Len(sz) \in Int
      BY <1>3, <1>5, <1>6, <1>10 DEF r
    <3> QED
      BY <1>12, <3>1
  <2> QED
    BY <2>1, <2>2, <2>3, <2>4 DEF Waiting
<1>15. front => w[1] = wait[1]
  BY <1>1, <1>3, <1>5, <1>10, <1>11
<1>16. Chain(w, transfer, front, k, s, mv)
  BY <1>1, <1>5, <1>8, <1>9, <1>14, <1>15 DEF Chain, o, req, c
<1>17. Len(s) <= MaxRequests
  BY <1>3, <1>6, Constants DEF r
<1>18. w = Queued(wait, sz, n) /\ s = Asked(sz, n)
  BY DEF Queued, Asked, w, s, e, r
<1>19. QED
  BY <1>5, <1>6, <1>15, <1>16, <1>17, <1>18

(* transferWriteDoneNext() and insertReadDoneNext(): the first piece of    *)
(* the transfer queue is done.                                             *)
LEMMA DeliverChain ==
    ASSUME NEW wait \in Seq(Pieces), NEW transfer \in Seq(Pieces), NEW front \in BOOLEAN,
           NEW k \in Nat, NEW sz \in Seq(Sizes), NEW mv \in [1 .. MaxRequests -> Nat],
           Len(sz) <= MaxRequests, Chain(wait, transfer, front, k, sz, mv), transfer # <<>>,
           NEW l, l = Counted(transfer[1], k), NEW new, new = Credited(transfer[1], mv)
    PROVE  /\ Tail(transfer) \in Seq(Pieces) /\ transfer[1].req = k + 1
           /\ l \in Nat /\ new \in [1 .. MaxRequests -> Nat]
           /\ Chain(wait, Tail(transfer), front, l, sz, new)
<1> DEFINE f == transfer[1]
           t == Tail(transfer)
           r == k + 1
           req == EndReq(transfer, k)
           c == Claimed(front)
<1>1. Accounted(k, sz, mv) /\ (front => wait # <<>> /\ calcSize(wait[1].size) <= Capacity)
  BY DEF Chain
<1>2. PICK off : /\ Linked(transfer, off, k, sz, mv)
                 /\ Waiting(wait, c, req, EndOff(transfer, off, k, mv), sz)
  BY DEF Chain
<1> DEFINE o == EndOff(transfer, off, k, mv)
           m == Len(transfer) - 1
           new_off == [i \in 1 .. m |-> off[i + 1]]
<1>3. /\ Len(wait) \in Nat /\ Len(transfer) \in Nat /\ Len(sz) \in Nat /\ req \in Nat
      /\ \A i \in 1 .. Len(transfer) : transfer[i] \in Pieces /\ off[i] \in Nat
      /\ c < Len(wait) => req \in 1 .. Len(sz) /\ o \in Nat
  BY <1>2, ChainTypes
<1>4. /\ t \in Seq(Pieces) /\ Len(t) = m
      /\ \A i \in 1 .. m : t[i] = transfer[i + 1]
  BY HeadTailProperties
<1>5. 1 \in 1 .. Len(transfer) /\ m \in Nat
  BY <1>3, EmptySeq
<1>6. /\ f \in Pieces /\ f.req = r /\ f.req <= Len(sz) /\ off[1] = mv[r] /\ off[1] \in Nat
      /\ f.last => off[1] + f.size = sz[r]
  <2>1. f \in Pieces /\ off[1] \in Nat
    BY <1>3, <1>5
  <2>2. f.req = r /\ off[1] = mv[r]
    BY <1>2 DEF Linked
  <2>3. f.req <= Len(sz) /\ (f.last => off[1] + f.size = sz[f.req])
    BY <1>2, <1>5 DEF Linked
  <2> QED
    BY <2>1, <2>2, <2>3
<1>7. r \in 1 .. MaxRequests /\ r <= Len(sz) /\ f.size \in Nat /\ f.last \in BOOLEAN
  BY <1>6, Constants DEF Pieces
<1>8. /\ new \in [1 .. MaxRequests -> Nat] /\ new[r] = off[1] + f.size
      /\ \A i \in 1 .. MaxRequests : i # r => new[i] = mv[i]
  <2> HIDE DEF f
  <2>1. mv[r] + f.size \in Nat
    BY <1>6, <1>7
  <2>2. new = [mv EXCEPT ![r] = mv[r] + f.size]
    BY <1>6 DEF f, Credited
  <2> QED
    BY <1>6, <1>7, <2>1, <2>2
<1>9. /\ l = IF f.last THEN r ELSE k
      /\ l + 1 = NextReq(f) /\ l \in Nat
  BY <1>6 DEF NextReq, Counted
<1>10. k <= Len(sz) /\ (\A i \in 1 .. k : mv[i] = sz[i])
       /\ \A i \in 1 .. MaxRequests : (i > k + 1 \/ i > Len(sz)) => mv[i] = 0
  BY <1>1 DEF Accounted
<1> HIDE DEF f, t, m, r, c, req, o
<1>11. Accounted(l, sz, new)
  <2>1. l <= Len(sz)
    BY <1>7, <1>9, <1>10
  <2>2. ASSUME NEW i \in 1 .. l
        PROVE  new[i] = sz[i]
    <3>1. CASE i = r
      <4>1. f.last
        BY <1>9, <3>1 DEF r
      <4> QED
        BY <1>6, <1>8, <3>1, <4>1
    <3>2. CASE i # r
      <4>1. i \in 1 .. k
        BY <1>9, <3>2 DEF r
      <4>2. i \in 1 .. MaxRequests
        BY <1>7, <4>1, Constants DEF r
      <4> QED
        BY <1>8, <1>10, <3>2, <4>1, <4>2
    <3> QED
      BY <3>1, <3>2
  <2>3. ASSUME NEW i \in 1 .. MaxRequests, i > l + 1 \/ i > Len(sz)
        PROVE  new[i] = 0
    <3>1. i # r
      BY <1>3, <1>7, <1>9, <2>3 DEF r
    <3>2. i > k + 1 \/ i > Len(sz)
      BY <1>9, <2>3 DEF r
    <3> QED
      BY <1>8, <1>10, <3>1, <3>2
  <2> QED
    BY <2>1, <2>2, <2>3 DEF Accounted
(* where the next piece begins *)
<1>12. NextOff(f, off[1]) = new[l + 1] \/ l + 1 \notin 1 .. MaxRequests
  <2>1. CASE f.last
    <3>1. l + 1 = r + 1 /\ NextOff(f, off[1]) = 0
      BY <1>9, <2>1 DEF NextOff, r
    <3>2. l + 1 \in 1 .. MaxRequests => new[l + 1] = 0
      <4> SUFFICES ASSUME l + 1 \in 1 .. MaxRequests PROVE new[l + 1] = 0
        OBVIOUS
      <4>1. l + 1 > k + 1 /\ l + 1 # r
        BY <3>1 DEF r
      <4> QED
        BY <1>8, <1>10, <4>1
    <3> QED
      BY <3>1, <3>2
  <2>2. CASE ~f.last
    <3>1. l + 1 = r /\ NextOff(f, off[1]) = off[1] + f.size
      BY <1>9, <2>2 DEF NextOff, r
    <3> QED
      BY <1>8, <3>1
  <2> QED
    BY <2>1, <2>2
<1>13. Linked(t, new_off, l, sz, new)
  <2>1. new_off \in [1 .. m -> Nat]
    <3>1. \A i \in 1 .. m : off[i + 1] \in Nat
      BY <1>3, <1>5 DEF m
    <3> QED
      BY <3>1
  <2>2. ASSUME t # <<>>
        PROVE  t[1].req = l + 1 /\ new_off[1] = new[l + 1]
    <3>1. 1 \in 1 .. m
      BY <1>4, <1>5, <2>2, EmptySeq
    <3>2. 1 \in 1 .. Len(transfer) - 1
      BY <3>1 DEF m
    <3>3. transfer[1 + 1].req = NextReq(f) /\ off[1 + 1] = NextOff(f, off[1])
      BY <1>2, <3>2 DEF Linked, f
    <3>4. t[1] = transfer[1 + 1] /\ new_off[1] = off[1 + 1]
      BY <1>4, <3>1
    <3>5. t[1] \in Pieces
      BY <1>4, <3>1, ElementOfSeq
    <3>6. l + 1 \in 1 .. MaxRequests
      BY <1>9, <3>3, <3>4, <3>5 DEF Pieces
    <3> QED
      BY <1>9, <1>12, <3>3, <3>4, <3>6
  <2>3. ASSUME NEW i \in 1 .. m - 1
        PROVE  t[i + 1].req = NextReq(t[i]) /\ new_off[i + 1] = NextOff(t[i], new_off[i])
    <3>1. i \in 1 .. m /\ i + 1 \in 1 .. m /\ i + 1 \in 1 .. Len(transfer) - 1
      BY <1>5, <2>3 DEF m
    <3>2. /\ transfer[i + 1 + 1].req = NextReq(transfer[i + 1])
          /\ off[i + 1 + 1] = NextOff(transfer[i + 1], off[i + 1])
      BY <1>2, <3>1 DEF Linked
    <3> QED
      BY <1>4, <3>1, <3>2
  <2>4. ASSUME NEW i \in 1 .. m
        PROVE  /\ t[i].req <= Len(sz)
               /\ t[i].last => new_off[i] + t[i].size = sz[t[i].req]
    <3>1. i + 1 \in 1 .. Len(transfer)
      BY <1>3, <1>5, <2>4 DEF m
    <3>2. /\ transfer[i + 1].req <= Len(sz)
          /\ transfer[i + 1].last => off[i + 1] + transfer[i + 1].size = sz[transfer[i + 1].req]
      BY <1>2, <3>1 DEF Linked
    <3> QED
      BY <1>4, <2>4, <3>2
  <2> HIDE DEF new_off
  <2> QED
    BY <1>4, <2>1, <2>2, <2>3, <2>4 DEF Linked
<1>14. EndReq(t, l) = req
  <2>1. CASE t = <<>>
    <3>1. Len(transfer) = 1
      BY <1>3, <1>4, <2>1, EmptySeq DEF m
    <3> QED
      BY <1>9, <2>1, <3>1 DEF EndReq, req, f
  <2>2. CASE t # <<>>
    <3>1. m \in 1 .. m
      BY <1>4, <1>5, <2>2, EmptySeq
    <3>2. t[Len(t)] = transfer[Len(transfer)]
      BY <1>3, <1>4, <3>1 DEF m
    <3> QED
      BY <2>2, <3>2 DEF EndReq, req
  <2> QED
    BY <2>1, <2>2
<1>15. c < Len(wait) => EndOff(t, new_off, l, new) = o
  <2> SUFFICES ASSUME c < Len(wait) PROVE EndOff(t, new_off, l, new) = o
    OBVIOUS
  <2>1. CASE t = <<>>
    <3>1. Len(transfer) = 1
      BY <1>3, <1>4, <2>1, EmptySeq DEF m
    <3>2. o = NextOff(f, off[1])
      BY <3>1 DEF EndOff, o, f
    <3>3. l + 1 \in 1 .. MaxRequests
      <4>1. req = NextReq(f) /\ req \in 1 .. Len(sz)
        BY <1>3, <3>1 DEF EndReq, req, f
      <4> QED
        BY <1>3, <1>9, <4>1, Constants
    <3> QED
      BY <1>12, <2>1, <3>2, <3>3 DEF EndOff
  <2>2. CASE t # <<>>
    <3>1. m \in 1 .. m
      BY <1>4, <1>5, <2>2, EmptySeq
    <3>2. t[Len(t)] = transfer[Len(transfer)] /\ new_off[Len(t)] = off[Len(transfer)]
      BY <1>3, <1>4, <3>1 DEF m
    <3> QED
      BY <2>2, <3>2 DEF EndOff, o
  <2> QED
    BY <2>1, <2>2
<1>16. Waiting(wait, c, req, EndOff(t, new_off, l, new), sz)
  <2>1. CASE c < Len(wait)
    BY <1>2, <1>15, <2>1 DEF o
  <2>2. CASE ~(c < Len(wait))
    <3>1. c \in Int
      BY DEF c, Claimed
    <3>2. c + 1 .. Len(wait) = {}
      BY <1>3, <2>2, <3>1
    <3> QED
      BY <1>2, <3>2 DEF Waiting
  <2> QED
    BY <2>1, <2>2
<1>17. Chain(wait, t, front, l, sz, new)
  BY <1>1, <1>11, <1>13, <1>14, <1>16 DEF Chain, c
<1>18. QED
  BY <1>4, <1>6, <1>8, <1>9, <1>17 DEF t, f, r

(* insertWrite() and transferRead(): the front of the wait queue, cut if   *)
(* it is too long, is claimed and joins the transfer queue.                *)
LEMMA BeginChain ==
    ASSUME NEW wait \in Seq(Pieces), NEW transfer \in Seq(Pieces), wait # <<>>,
           NEW k \in Nat, NEW sz \in Seq(Sizes), NEW mv \in [1 .. MaxRequests -> Nat],
           Len(sz) <= MaxRequests, Chain(wait, transfer, FALSE, k, sz, mv),
           NEW w \in Seq(Pieces), w = Split(wait),
           NEW v \in Seq(Pieces), Len(v) = Len(w),
           v[1].req = w[1].req, v[1].size = w[1].size, v[1].last = w[1].last,
           \A i \in 2 .. Len(w) : v[i] = w[i]
    PROVE  Chain(v, Append(transfer, v[1]), TRUE, k, sz, mv)
<1> DEFINE req == EndReq(transfer, k)
           m == Len(transfer)
           f == v[1]
           t == Append(transfer, f)
<1>1. Accounted(k, sz, mv)
  BY DEF Chain
<1>2. PICK off : /\ Linked(transfer, off, k, sz, mv)
                 /\ Waiting(wait, Claimed(FALSE), req, EndOff(transfer, off, k, mv), sz)
  BY DEF Chain
<1> DEFINE o == EndOff(transfer, off, k, mv)
           new == [i \in 1 .. m + 1 |-> IF i <= m THEN off[i] ELSE o]
<1>3. Claimed(FALSE) = 0 /\ Claimed(TRUE) = 1
  BY DEF Claimed
<1>4. Len(wait) \in Nat /\ Len(wait) > 0 /\ Len(sz) \in Nat /\ m \in Nat
  BY LenProperties, EmptySeq
<1>5. /\ req \in 1 .. Len(sz) /\ o \in Nat
      /\ \A i \in 1 .. m : transfer[i] \in Pieces /\ off[i] \in Nat
      /\ \A i \in 1 .. Len(wait) : wait[i] \in Pieces
  BY <1>2, <1>3, <1>4, ChainTypes
<1>6. /\ w # <<>> /\ calcSize(w[1].size) <= Capacity /\ w[1].req = wait[1].req
      /\ \/ w = wait
         \/ /\ Len(w) = Len(wait) + 1
            /\ ~w[1].last /\ w[2].last /\ w[2].req = wait[1].req
            /\ w[1].size + w[2].size = wait[1].size
            /\ \A i \in 3 .. Len(w) : w[i] = wait[i - 1]
  BY SplitSeq
<1> HIDE DEF req, o
<1>7. /\ \A i \in 1 .. Len(wait) :
            /\ wait[i].last /\ wait[i].req = req + (i - 1)
            /\ i > 1 => wait[i].size = sz[wait[i].req]
      /\ o + wait[1].size = sz[req]
      /\ req + Len(wait) = Len(sz) + 1
  <2>1. ASSUME NEW i \in 1 .. Len(wait)
        PROVE  /\ wait[i].last /\ wait[i].req = req + (i - 1)
               /\ i = 1 => o + wait[i].size = sz[wait[i].req]
               /\ i > 1 => wait[i].size = sz[wait[i].req]
    <3>1. i \in 0 + 1 .. Len(wait)
      OBVIOUS
    <3>2. /\ wait[i].last /\ wait[i].req = req + (i - 0 - 1)
          /\ i = 0 + 1 => o + wait[i].size = sz[wait[i].req]
          /\ i > 0 + 1 => wait[i].size = sz[wait[i].req]
      BY <1>2, <1>3, <3>1 DEF Waiting, o
    <3> QED
      BY <1>5, <3>2
  <2>2. req + Len(wait) - 0 = Len(sz) + 1
    BY <1>2, <1>3 DEF Waiting
  <2>3. wait[1].req = req
    BY <1>4, <1>5, <2>1
  <2> QED
    BY <1>4, <1>5, <2>1, <2>2, <2>3
<1>8. /\ v # <<>> /\ f \in Pieces /\ f.req = req /\ calcSize(f.size) <= Capacity
      /\ Len(v) \in Nat /\ Len(v) > 0
  <2>1. Len(w) \in Nat /\ Len(w) > 0
    BY <1>6, LenProperties, EmptySeq
  <2>2. v # <<>> /\ f \in Pieces
    BY <2>1, ElementOfSeq, EmptySeq
  <2>3. wait[1].req = req
    BY <1>4, <1>5, <1>7
  <2> QED
    BY <1>6, <2>1, <2>2, <2>3
<1> HIDE DEF f
<1>9. /\ t \in Seq(Pieces) /\ Len(t) = m + 1 /\ t # <<>>
      /\ (\A i \in 1 .. m : t[i] = transfer[i]) /\ t[m + 1] = f
  BY <1>8, AppendProperties
<1>10. \/ /\ w = wait /\ f.last /\ f.size = wait[1].size
       \/ /\ ~f.last /\ Len(w) = Len(wait) + 1
          /\ w[2].last /\ w[2].req = req
          /\ f.size + w[2].size = wait[1].size
          /\ \A i \in 3 .. Len(w) : w[i] = wait[i - 1]
  <2>1. wait[1].last /\ wait[1].req = req
    BY <1>4, <1>5, <1>7
  <2> QED
    BY <1>6, <2>1 DEF f
<1>11. f.size \in Nat /\ wait[1].size \in Nat
  <2>1. wait[1] \in Pieces
    BY <1>4, <1>5
  <2> QED
    BY <1>8, <2>1 DEF Pieces
<1> HIDE DEF t
<1>12. Linked(t, new, k, sz, mv)
  <2>1. new \in [1 .. m + 1 -> Nat]
    BY <1>4, <1>5
  <2>2. /\ \A i \in 1 .. m : new[i] = off[i]
        /\ new[m + 1] = o
    BY <1>4
  <2> HIDE DEF new
  <2>3. t[1].req = k + 1 /\ new[1] = mv[k + 1]
    <3>1. CASE transfer = <<>>
      <4>1. m = 0
        BY <3>1, EmptySeq
      <4>2. t[1] = f /\ new[1] = o
        BY <1>9, <2>2, <4>1
      <4> QED
        BY <1>8, <3>1, <4>2 DEF EndReq, EndOff, req, o
    <3>2. CASE transfer # <<>>
      <4>1. 1 \in 1 .. m
        BY <1>4, <3>2, EmptySeq
      <4>2. t[1] = transfer[1] /\ new[1] = off[1]
        BY <1>9, <2>2, <4>1
      <4> QED
        BY <1>2, <3>2, <4>2 DEF Linked
    <3> QED
      BY <3>1, <3>2
  <2>4. ASSUME NEW i \in 1 .. m
        PROVE  t[i + 1].req = NextReq(t[i]) /\ new[i + 1] = NextOff(t[i], new[i])
    <3>1. t[i] = transfer[i] /\ new[i] = off[i]
      BY <1>9, <2>2
    <3>2. CASE i = m
      <4>1. t[i + 1] = f /\ new[i + 1] = o
        BY <1>9, <2>2, <3>2
      <4>2. transfer # <<>>
        BY <1>4, EmptySeq
      <4>3. req = NextReq(transfer[m]) /\ o = NextOff(transfer[m], off[m])
        BY <4>2 DEF EndReq, EndOff, req, o
      <4> QED
        BY <1>8, <3>1, <3>2, <4>1, <4>3
    <3>3. CASE i # m
      <4>1. i \in 1 .. m - 1 /\ i + 1 \in 1 .. m
        BY <1>4, <3>3
      <4>2. t[i + 1] = transfer[i + 1] /\ new[i + 1] = off[i + 1]
        BY <1>9, <2>2, <4>1
      <4>3. transfer[i + 1].req = NextReq(transfer[i]) /\ off[i + 1] = NextOff(transfer[i], off[i])
        BY <1>2, <4>1 DEF Linked
      <4> QED
        BY <3>1, <4>2, <4>3
    <3> QED
      BY <3>2, <3>3
  <2>5. ASSUME NEW i \in 1 .. m + 1
        PROVE  /\ t[i].req <= Len(sz)
               /\ t[i].last => new[i] + t[i].size = sz[t[i].req]
    <3>1. CASE i = m + 1
      <4>1. t[i] = f /\ new[i] = o
        BY <1>9, <2>2, <3>1
      <4>2. f.last => f.size = wait[1].size
        BY <1>10
      <4> QED
        BY <1>5, <1>7, <1>8, <4>1, <4>2
    <3>2. CASE i # m + 1
      <4>1. i \in 1 .. m
        BY <1>4, <3>2
      <4>2. t[i] = transfer[i] /\ new[i] = off[i]
        BY <1>9, <2>2, <4>1
      <4>3. /\ transfer[i].req <= Len(sz)
            /\ transfer[i].last => off[i] + transfer[i].size = sz[transfer[i].req]
        BY <1>2, <4>1 DEF Linked
      <4> QED
        BY <4>2, <4>3
    <3> QED
      BY <3>1, <3>2
  <2>6. Len(t) = m + 1 /\ m + 1 - 1 = m
    BY <1>4, <1>9
  <2> QED
    BY <2>1, <2>3, <2>4, <2>5, <2>6 DEF Linked
<1>13. EndReq(t, k) = NextReq(f) /\ EndOff(t, new, k, mv) = NextOff(f, o)
  <2>1. new[m + 1] = o
    BY <1>4
  <2> QED
    BY <1>9, <2>1 DEF EndReq, EndOff
<1> HIDE DEF new, m
<1>14. Waiting(v, 1, NextReq(f), NextOff(f, o), sz)
  <2>1. CASE w = wait /\ f.last
    <3>1. NextReq(f) = req + 1 /\ NextOff(f, o) = 0
      BY <1>8, <2>1 DEF NextReq, NextOff
    <3>2. ASSUME NEW i \in 1 + 1 .. Len(v)
          PROVE  /\ v[i].last /\ v[i].req = req + 1 + (i - 1 - 1)
                 /\ i = 1 + 1 => 0 + v[i].size = sz[v[i].req]
                 /\ i > 1 + 1 => v[i].size = sz[v[i].req]
      <4>1. i \in 1 .. Len(wait) /\ i > 1 /\ i \in 2 .. Len(w)
        BY <1>4, <1>8, <2>1
      <4>2. v[i] = wait[i]
        BY <2>1, <4>1
      <4>3. wait[i].last /\ wait[i].req = req + (i - 1) /\ wait[i].size = sz[wait[i].req]
        BY <1>7, <4>1
      <4>4. wait[i].size \in Nat
        BY <1>5, <4>1 DEF Pieces
      <4>5. req + 1 + (i - 1 - 1) = req + (i - 1) /\ 0 + wait[i].size = wait[i].size
        BY <1>5, <4>1, <4>4
      <4> QED
        BY <4>2, <4>3, <4>5
    <3>3. req + 1 + Len(v) - 1 = Len(sz) + 1
      <4>1. Len(v) = Len(wait) /\ req + Len(wait) = Len(sz) + 1
        BY <1>7, <2>1
      <4>2. Len(wait) \in Int /\ req \in Int /\ Len(sz) \in Int
        BY <1>4, <1>5
      <4> QED
        BY <4>1, <4>2
    <3> QED
      BY <3>1, <3>2, <3>3 DEF Waiting
  <2>2. CASE /\ ~f.last /\ Len(w) = Len(wait) + 1
             /\ w[2].last /\ w[2].req = req
             /\ f.size + w[2].size = wait[1].size
             /\ \A i \in 3 .. Len(w) : w[i] = wait[i - 1]
    <3>1. NextReq(f) = req /\ NextOff(f, o) = o + f.size
      BY <1>8, <2>2 DEF NextReq, NextOff
    <3>2. v[2] = w[2] /\ w[2] \in Pieces
      BY <1>4, <2>2, ElementOfSeq
    <3>3. o + f.size + w[2].size = sz[req]
      <4>1. w[2].size \in Nat
        BY <3>2 DEF Pieces
      <4>2. o + wait[1].size = sz[req] /\ f.size + w[2].size = wait[1].size
        BY <1>7, <2>2
      <4>3. o + f.size + w[2].size = o + (f.size + w[2].size)
        BY <1>5, <1>11, <4>1
      <4> QED
        BY <4>2, <4>3
    <3>4. ASSUME NEW i \in 1 + 1 .. Len(v)
          PROVE  /\ v[i].last /\ v[i].req = req + (i - 1 - 1)
                 /\ i = 1 + 1 => o + f.size + v[i].size = sz[v[i].req]
                 /\ i > 1 + 1 => v[i].size = sz[v[i].req]
      <4>1. CASE i = 2
        BY <1>5, <2>2, <3>2, <3>3, <4>1
      <4>2. CASE i # 2
        <5>1. i \in 2 .. Len(w) /\ i \in 3 .. Len(w) /\ i - 1 \in 1 .. Len(wait) /\ i - 1 > 1
          BY <1>4, <1>8, <2>2, <4>2
        <5>2. v[i] = wait[i - 1]
          BY <2>2, <5>1
        <5>3. /\ wait[i - 1].last /\ wait[i - 1].req = req + (i - 1 - 1)
              /\ wait[i - 1].size = sz[wait[i - 1].req]
          BY <1>7, <5>1
        <5> QED
          BY <4>2, <5>2, <5>3
      <4> QED
        BY <4>1, <4>2
    <3>5. req + Len(v) - 1 = Len(sz) + 1
      BY <1>4, <1>5, <1>7, <2>2
    <3> QED
      BY <3>1, <3>4, <3>5 DEF Waiting
  <2> QED
    BY <1>10, <2>1, <2>2
<1>15. QED
  BY <1>1, <1>3, <1>8, <1>12, <1>13, <1>14 DEF Chain, t, f

-----------------------------------------------------------------------------
(* Writes *)

(* insertWrite() claims the front of the wait queue, unless there is none  *)
(* or one is claimed already.                                              *)
LEMMA InsertWriteKeeps ==
    ASSUME NEW q, NEW k, NEW sz, NEW mv, Write(q, k, sz, mv), NEW p, p = insertWrite(q)
    PROVE  /\ Write(p, k, sz, mv)
           /\ p.transferPending = q.transferPending /\ p.upstream = q.upstream
           /\ p.submitCompletion = q.submitCompletion
           /\ q.transfer # <<>> => p.transfer # <<>> /\ p.transfer[1] = q.transfer[1]
<1>1. CASE q.wait = <<>> \/ MustWait(q, q.insertPending)
  BY <1>1 DEF insertWrite
<1>2. CASE ~(q.wait = <<>> \/ MustWait(q, q.insertPending))
  <2> DEFINE w == Split(q.wait)
             t == Append(q.transfer, w[1])
  <2>1. /\ q \in WQueue /\ q.wait \in Seq(Pieces) /\ q.transfer \in Seq(Pieces) /\ q.wait # <<>>
        /\ q.usage \in Int /\ q.insertPending \in BOOLEAN /\ q.transferPending \in BOOLEAN
        /\ k \in Nat /\ sz \in Seq(Sizes) /\ mv \in [1 .. MaxRequests -> Nat]
        /\ Len(sz) <= MaxRequests /\ History(k, sz, mv)
    BY <1>2 DEF Write, WQueue, History
  <2>2. ~q.insertPending
    <3>1. q.insertPending => calcSize(Head(q.wait).size) <= Capacity
      <4>1. Head(q.wait) = q.wait[1]
        BY <2>1, HeadTailProperties
      <4> QED
        BY <4>1 DEF Write, Chain
    <3> QED
      BY <1>2, <3>1 DEF MustWait
  <2>3. w \in Seq(Pieces) /\ w # <<>>
    BY <2>1, SplitSeq
  <2>4. Len(w) \in Nat /\ w[1] \in Pieces /\ Head(w) = w[1]
    BY <2>3, LenProperties, HeadTailProperties
  <2>5. calcSize(w[1].size) \in Int
    BY <2>4, UnitFits DEF Pieces
  <2>6. /\ t \in Seq(Pieces) /\ Len(t) = Len(q.transfer) + 1 /\ t # <<>>
        /\ \A i \in 1 .. Len(q.transfer) : t[i] = q.transfer[i]
    BY ONLY <2>1, <2>4, AppendProperties
  <2>7. p = [q EXCEPT !.wait = w, !.insertPending = TRUE,
                      !.usage = @ + calcSize(Head(w).size),
                      !.beginTransfer = TRUE, !.transfer = Append(@, Head(w))]
    BY <1>2 DEF insertWrite
  <2>8. Chain(w, t, TRUE, k, sz, mv)
    <3>1. Chain(q.wait, q.transfer, FALSE, k, sz, mv)
      BY <2>1, <2>2 DEF Write
    <3> HIDE DEF w
    <3> QED
      BY ONLY <2>1, <2>3, <3>1, BeginChain DEF w
  <2> HIDE DEF w, t
  <2>9. /\ p \in WQueue /\ p.wait = w /\ p.transfer = t /\ p.insertPending = TRUE
        /\ p.transferPending = q.transferPending /\ p.upstream = q.upstream
        /\ p.submitCompletion = q.submitCompletion
    <3>1. q.usage + calcSize(Head(w).size) \in Int
      BY <2>1, <2>4, <2>5
    <3>2. Append(q.transfer, Head(w)) = t
      BY <2>4 DEF t
    <3> QED
      BY <2>1, <2>3, <2>6, <2>7, <3>1, <3>2 DEF WQueue
  <2>10. Len(q.transfer) \in Nat /\ (q.transfer # <<>> => 1 \in 1 .. Len(q.transfer))
    BY <2>1, LenProperties, EmptySeq
  <2>11. Begins(p, p.transferPending)
    <3>1. q.transferPending => q.transfer # <<>>
      BY DEF Write, Begins
    <3>2. Len(t) >= IF q.transferPending THEN 2 ELSE 1
      BY <2>1, <2>6, <2>10, <3>1
    <3> QED
      BY <2>6, <2>9, <3>2 DEF Begins
  <2> QED
    BY <2>1, <2>6, <2>8, <2>9, <2>10, <2>11 DEF Write
<1>3. QED
  BY <1>1, <1>2

(* dmaWrite(): a request joins, and the rest stays as it is. *)
AskWrite(q, sz, n) == dmaWrite(q, Len(sz) + 1, n)

(* dmaWrite() keeps the write queue in order, whether or not it starts the    *)
(* insertion of the new piece.                                               *)
LEMMA DmaWriteKeeps ==
    ASSUME NEW q, NEW k, NEW sz, NEW mv, Write(q, k, sz, mv),
           Len(sz) < MaxRequests, NEW n \in Sizes, NEW p, p = AskWrite(q, sz, n)
    PROVE  /\ Write(p, k, Asked(sz, n), mv)
           /\ p.transferPending = q.transferPending /\ p.upstream = q.upstream
           /\ p.submitCompletion = q.submitCompletion
           /\ q.transfer # <<>> => p.transfer # <<>> /\ p.transfer[1] = q.transfer[1]
<1> DEFINE w == Queued(q.wait, sz, n)
           r == [q EXCEPT !.wait = w]
           s == Asked(sz, n)
<1>1. /\ q \in WQueue /\ q.wait \in Seq(Pieces) /\ q.transfer \in Seq(Pieces)
      /\ q.insertPending \in BOOLEAN
      /\ Chain(q.wait, q.transfer, q.insertPending, k, sz, mv)
      /\ k \in Nat /\ sz \in Seq(Sizes) /\ mv \in [1 .. MaxRequests -> Nat]
  BY DEF Write, WQueue, History
<1>2. /\ w \in Seq(Pieces) /\ s \in Seq(Sizes) /\ Len(s) <= MaxRequests
      /\ Chain(w, q.transfer, q.insertPending, k, s, mv)
  BY <1>1, SubmitChain
<1>3. p = insertWrite([q EXCEPT !.wait = w])
  BY DEF AskWrite, dmaWrite, Queued
<1> HIDE DEF w, s
<1>4. /\ r \in WQueue /\ r.wait = w /\ r.transfer = q.transfer
      /\ r.insertPending = q.insertPending /\ r.transferPending = q.transferPending
      /\ r.upstream = q.upstream /\ r.submitCompletion = q.submitCompletion
      /\ r.beginTransfer = q.beginTransfer
  BY <1>1, <1>2 DEF WQueue
<1>5. p = insertWrite(r)
  BY <1>3
<1> HIDE DEF r
<1>6. Write(r, k, s, mv)
  BY <1>1, <1>2, <1>4 DEF Write, Begins, History
<1>7. /\ Write(p, k, s, mv)
      /\ p.transferPending = r.transferPending /\ p.upstream = r.upstream
      /\ p.submitCompletion = r.submitCompletion
      /\ r.transfer # <<>> => p.transfer # <<>> /\ p.transfer[1] = r.transfer[1]
  BY ONLY <1>5, <1>6, InsertWriteKeeps
<1>8. QED
  BY <1>4, <1>7 DEF s

(* The end of transferWriteDoneNext(): the first piece goes, the next one  *)
(* is transferred and the front of the wait queue is begun.                *)
LEMMA WriteDoneNextKeeps ==
    ASSUME NEW q, NEW k, NEW sz, NEW mv, Write(q, k, sz, mv),
           q.transferPending, ~q.upstream, ~q.submitCompletion,
           NEW l, l = Counted(q.transfer[1], k), NEW new, new = Credited(q.transfer[1], mv)
    PROVE  /\ q.transfer[1].req = k + 1
           /\ Write(WriteDoneNext(q), l, sz, new)
           /\ WriteEvents(WriteDoneNext(q))
<1> DEFINE f == Head(q.transfer)
           p == [q EXCEPT !.usage = @ - calcSize(f.size),
                          !.transferPending = FALSE,
                          !.transfer = Tail(@)]
           t == IF p.transfer # <<>> /\ ~p.beginTransfer THEN transferWrite(p) ELSE p
<1>1. /\ q \in WQueue /\ q.wait \in Seq(Pieces) /\ q.transfer \in Seq(Pieces)
      /\ q.insertPending \in BOOLEAN /\ q.usage \in Int
      /\ Chain(q.wait, q.transfer, q.insertPending, k, sz, mv)
      /\ q.transfer # <<>>
      /\ q.beginTransfer => Len(q.transfer) >= 2
      /\ k \in Nat /\ sz \in Seq(Sizes) /\ mv \in [1 .. MaxRequests -> Nat]
      /\ Len(sz) <= MaxRequests
  BY DEF Write, WQueue, Begins, History
<1>2. /\ Tail(q.transfer) \in Seq(Pieces) /\ l \in Nat /\ new \in [1 .. MaxRequests -> Nat]
      /\ q.transfer[1].req = k + 1
      /\ Chain(q.wait, Tail(q.transfer), q.insertPending, l, sz, new)
  <2> HIDE DEF f, p, t
  <2> QED
    BY <1>1, DeliverChain
<1>3. /\ f \in Pieces /\ Len(Tail(q.transfer)) = Len(q.transfer) - 1
      /\ Len(q.transfer) \in Nat
  BY <1>1, HeadTailProperties, LenProperties
<1>4. q.usage - calcSize(f.size) \in Int
  <2>1. f.size \in Nat
    BY <1>3 DEF Pieces
  <2>2. calcSize(f.size) \in Int
    BY <2>1, UnitFits
  <2> QED
    BY <1>1, <2>2
<1>5. /\ p \in WQueue /\ p.wait = q.wait /\ p.transfer = Tail(q.transfer)
      /\ p.insertPending = q.insertPending /\ p.transferPending = FALSE
      /\ p.upstream = FALSE /\ p.submitCompletion = FALSE
      /\ p.beginTransfer = q.beginTransfer
  <2> HIDE DEF f
  <2> QED
    BY <1>1, <1>2, <1>4 DEF WQueue
<1>6. WriteDoneNext(q) = insertWrite(t)
  BY DEF WriteDoneNext
<1> HIDE DEF p
<1>7. Write(p, l, sz, new)
  <2>1. p.beginTransfer => Len(p.transfer) >= 1
    BY <1>1, <1>3, <1>5
  <2> QED
    BY <1>1, <1>2, <1>5, <2>1 DEF Write, Begins, History
<1>8. Write(t, l, sz, new) /\ WriteEvents(t)
  <2>1. CASE p.transfer # <<>> /\ ~p.beginTransfer
    <3>1. t = [p EXCEPT !.transferPending = TRUE, !.upstream = TRUE]
      BY <1>5, <2>1 DEF transferWrite
    <3>2. /\ t \in WQueue /\ t.wait = p.wait /\ t.transfer = p.transfer
          /\ t.insertPending = p.insertPending /\ t.beginTransfer = p.beginTransfer
          /\ t.transferPending = TRUE /\ t.upstream = TRUE /\ t.submitCompletion = FALSE
      BY <1>5, <3>1 DEF WQueue
    <3> HIDE DEF t
    <3> QED
      BY <1>7, <2>1, <3>2 DEF Write, Begins, WriteEvents
  <2>2. CASE ~(p.transfer # <<>> /\ ~p.beginTransfer)
    BY <1>5, <1>7, <2>2 DEF WriteEvents
  <2> QED
    BY <2>1, <2>2
<1> HIDE DEF t
<1>9. PICK e : e = insertWrite(t)
  OBVIOUS
<1>10. /\ Write(e, l, sz, new)
       /\ e.transferPending = t.transferPending /\ e.upstream = t.upstream
       /\ e.submitCompletion = t.submitCompletion
  BY ONLY <1>8, <1>9, InsertWriteKeeps
<1>11. WriteEvents(e)
  BY <1>8, <1>10 DEF WriteEvents
<1>12. QED
  BY <1>2, <1>6, <1>9, <1>10, <1>11

(* The end of a piece, with and without a new request *)
LEMMA WriteFinishCases ==
    ASSUME NEW q, WriteFinish(q)
    PROVE  /\ UNCHANGED readQueue
           /\ moved' = [moved EXCEPT !["write"] = Credited(Head(q.transfer), @)]
           /\ delivered' = IF Head(q.transfer).last
                           THEN [delivered EXCEPT !["write"] = Append(@, Head(q.transfer).req)]
                           ELSE delivered
           /\ \/ writeQueue' = WriteDoneNext(q) /\ UNCHANGED size
              \/ /\ Requests < MaxRequests
                 /\ \E n \in Sizes :
                       /\ size' = [size EXCEPT !["write"] = Append(@, n)]
                       /\ writeQueue' = WriteDoneNext(dmaWrite(q, Len(size["write"]) + 1, n))
BY DEF WriteFinish, Finish, Credited

-----------------------------------------------------------------------------
(* The history of the requests *)

(* The part of the history that belongs to a direction *)
LEMMA HistoryTypes ==
    ASSUME Types, NEW d \in Direction
    PROVE  /\ Len(delivered[d]) \in Nat /\ delivered[d] \in Seq(1 .. MaxRequests)
           /\ size[d] \in Seq(Sizes) /\ moved[d] \in [1 .. MaxRequests -> Nat]
           /\ Len(size[d]) \in Nat /\ Len(size[d]) <= MaxRequests
           /\ Requests < MaxRequests => Len(size[d]) < MaxRequests
<1>1. /\ delivered[d] \in Seq(1 .. MaxRequests) /\ size[d] \in Seq(Sizes)
      /\ moved[d] \in [1 .. MaxRequests -> Nat]
      /\ size["read"] \in Seq(Sizes) /\ size["write"] \in Seq(Sizes)
  BY DEF Types, Direction
<1>2. /\ Len(delivered[d]) \in Nat /\ Len(size[d]) \in Nat
      /\ Len(size["read"]) \in Nat /\ Len(size["write"]) \in Nat
  BY <1>1, LenProperties
<1>3. Len(size["read"]) + Len(size["write"]) <= MaxRequests
  BY DEF Types, Requests
<1>4. d = "read" \/ d = "write"
  BY DEF Direction
<1> DEFINE a == Len(size["read"])
           b == Len(size["write"])
<1>5. a \in Nat /\ b \in Nat /\ a + b <= MaxRequests /\ Requests = a + b
      /\ (Len(size[d]) = a \/ Len(size[d]) = b)
  BY <1>2, <1>3, <1>4 DEF Requests
<1> HIDE DEF a, b
<1>6. /\ Len(size[d]) <= MaxRequests
      /\ Requests < MaxRequests => Len(size[d]) < MaxRequests
  BY <1>5, Constants
<1>7. QED
  BY <1>1, <1>2, <1>6

(* Arithmetic on the number of requests *)
LEMMA AddOne ==
    ASSUME NEW a \in Nat, NEW b \in Nat, a + b < MaxRequests
    PROVE  a + 1 + b <= MaxRequests /\ a + (b + 1) <= MaxRequests
BY Constants

(* A new request of direction d *)
LEMMA SubmitHistory ==
    ASSUME Types, NEW d \in Direction, NEW n \in Sizes, Requests < MaxRequests,
           size' = [size EXCEPT ![d] = Append(@, n)]
    PROVE  /\ size' \in [Direction -> Seq(Sizes)] /\ Requests' <= MaxRequests
           /\ size'[d] = Append(size[d], n)
           /\ \A e \in Direction : e # d => size'[e] = size[e]
<1>1. size \in [Direction -> Seq(Sizes)] /\ size[d] \in Seq(Sizes)
  BY HistoryTypes DEF Types
<1>2. Append(size[d], n) \in Seq(Sizes) /\ Len(Append(size[d], n)) = Len(size[d]) + 1
  BY <1>1, AppendProperties
<1>3. /\ size' \in [Direction -> Seq(Sizes)] /\ size'[d] = Append(size[d], n)
      /\ \A e \in Direction : e # d => size'[e] = size[e]
  BY <1>1, <1>2
<1>4. Requests' <= MaxRequests
  <2>1. "read" \in Direction /\ "write" \in Direction /\ "read" # "write"
        /\ (d = "read" \/ d = "write")
    BY DEF Direction
  <2>2. Len(size["read"]) \in Nat /\ Len(size["write"]) \in Nat
    BY <2>1, HistoryTypes
  <2>3. Len(size["read"]) + Len(size["write"]) < MaxRequests
    BY DEF Requests
  <2>4. Requests' = Len(size'["read"]) + Len(size'["write"])
    BY DEF Requests
  <2>5. CASE d = "read"
    <3>1. Len(size'["read"]) = Len(size["read"]) + 1 /\ Len(size'["write"]) = Len(size["write"])
      BY <1>2, <1>3, <2>1, <2>5
    <3> QED
      BY <2>2, <2>3, <2>4, <3>1, AddOne
  <2>6. CASE d = "write"
    <3>1. Len(size'["write"]) = Len(size["write"]) + 1 /\ Len(size'["read"]) = Len(size["read"])
      BY <1>2, <1>3, <2>1, <2>6
    <3> QED
      BY <2>2, <2>3, <2>4, <3>1, AddOne
  <2> QED
    BY <2>1, <2>5, <2>6
<1>5. QED
  BY <1>3, <1>4

(* Piece p of the first request that is not delivered is done. *)
LEMMA DeliverHistory ==
    ASSUME Types, NEW d \in Direction, InOrder(d), NEW p \in Pieces,
           p.req = Len(delivered[d]) + 1,
           moved' = [moved EXCEPT ![d] = Credited(p, @)],
           delivered' = IF p.last THEN [delivered EXCEPT ![d] = Append(@, p.req)]
                        ELSE delivered
    PROVE  /\ delivered' \in [Direction -> Seq(1 .. MaxRequests)] /\ InOrder(d)'
           /\ moved' \in [Direction -> [1 .. MaxRequests -> Nat]]
           /\ moved'[d] = Credited(p, moved[d])
           /\ Len(delivered'[d]) = Counted(p, Len(delivered[d]))
           /\ \A e \in Direction : e # d => delivered'[e] = delivered[e] /\ moved'[e] = moved[e]
<1>1. /\ delivered \in [Direction -> Seq(1 .. MaxRequests)]
      /\ moved \in [Direction -> [1 .. MaxRequests -> Nat]]
      /\ delivered[d] \in Seq(1 .. MaxRequests) /\ moved[d] \in [1 .. MaxRequests -> Nat]
      /\ Len(delivered[d]) \in Nat
  BY HistoryTypes DEF Types
<1>2. p.req \in 1 .. MaxRequests /\ p.size \in Nat
  BY DEF Pieces
<1>3. Credited(p, moved[d]) \in [1 .. MaxRequests -> Nat]
  <2>1. moved[d][p.req] + p.size \in Nat
    <3>1. moved[d][p.req] \in Nat
      BY ONLY <1>1, <1>2
    <3> QED
      BY ONLY <1>2, <3>1
  <2>2. Credited(p, moved[d]) = [moved[d] EXCEPT ![p.req] = moved[d][p.req] + p.size]
    BY DEF Credited
  <2> QED
    BY <1>1, <1>2, <2>1, <2>2
<1>4. /\ moved' \in [Direction -> [1 .. MaxRequests -> Nat]]
      /\ moved'[d] = Credited(p, moved[d])
      /\ \A e \in Direction : e # d => moved'[e] = moved[e]
  BY <1>1, <1>3
<1>5. CASE p.last
  <2> DEFINE s == Append(delivered[d], p.req)
  <2>1. /\ s \in Seq(1 .. MaxRequests) /\ Len(s) = Len(delivered[d]) + 1
        /\ \A i \in 1 .. Len(delivered[d]) : s[i] = delivered[d][i]
        /\ s[Len(delivered[d]) + 1] = p.req
    BY <1>1, <1>2, AppendProperties
  <2> HIDE DEF s
  <2>2. delivered' = [delivered EXCEPT ![d] = s]
    BY <1>5 DEF s
  <2>3. /\ delivered' \in [Direction -> Seq(1 .. MaxRequests)] /\ delivered'[d] = s
        /\ \A e \in Direction : e # d => delivered'[e] = delivered[e]
    BY <1>1, <2>1, <2>2
  <2>4. ASSUME NEW i \in 1 .. Len(s)
        PROVE  s[i] = i
    <3>1. CASE i = Len(delivered[d]) + 1
      BY <2>1, <3>1
    <3>2. CASE i # Len(delivered[d]) + 1
      <4>1. i \in 1 .. Len(delivered[d])
        BY <1>1, <2>1, <3>2
      <4> QED
        BY <2>1, <4>1 DEF InOrder
    <3> QED
      BY <3>1, <3>2
  <2>5. InOrder(d)'
    BY <2>3, <2>4 DEF InOrder
  <2> QED
    BY <1>4, <1>5, <2>1, <2>3, <2>5 DEF Counted
<1>6. CASE ~p.last
  BY <1>1, <1>4, <1>6 DEF Counted, InOrder
<1>7. QED
  BY <1>5, <1>6

(* A step that leaves the write queue and its history alone keeps Writing. *)
LEMMA WritingKept ==
    ASSUME Writing, InOrder("write"), UNCHANGED writeQueue,
           size'["write"] = size["write"], moved'["write"] = moved["write"],
           delivered'["write"] = delivered["write"]
    PROVE  Writing' /\ InOrder("write")'
BY DEF Writing, InOrder

(* A step that leaves the read queue and its history alone keeps Reading.      *)
LEMMA ReadingKept ==
    ASSUME Reading, InOrder("read"), UNCHANGED readQueue,
           size'["read"] = size["read"], moved'["read"] = moved["read"],
           delivered'["read"] = delivered["read"]
    PROVE  Reading' /\ InOrder("read")'
BY DEF Reading, InOrder

-----------------------------------------------------------------------------
(* The events of the write queue *)

(* What an event that finishes no piece and adds no request has to show *)
LEMMA WriteStep ==
    ASSUME Inv, UNCHANGED <<readQueue, size, moved, delivered>>,
           Write(writeQueue', Len(delivered["write"]), size["write"], moved["write"]),
           WriteEvents(writeQueue')
    PROVE  Inv'
<1>1. Types' /\ InOrder("write")' /\ InOrder("read")'
  BY DEF Inv, Types, InOrder, Requests
<1>2. Reading'
  BY DEF Inv, Reading
<1>3. Writing'
  BY DEF Writing
<1>4. QED
  BY <1>1, <1>2, <1>3 DEF Inv

(* The facts about the write queue that an event starts from *)
LEMMA WriteFacts ==
    ASSUME Inv
    PROVE  /\ Write(writeQueue, Len(delivered["write"]), size["write"], moved["write"])
           /\ WriteEvents(writeQueue)
           /\ History(Len(delivered["write"]), size["write"], moved["write"])
           /\ writeQueue \in WQueue /\ Begins(writeQueue, writeQueue.transferPending)
           /\ Chain(writeQueue.wait, writeQueue.transfer, writeQueue.insertPending,
                    Len(delivered["write"]), size["write"], moved["write"])
BY DEF Inv, Writing, Write

(* insertWriteDone() keeps the invariant.                                      *)
LEMMA InsertWriteDone ==
    ASSUME Inv, insertWriteDone
    PROVE  Inv'
<1> DEFINE q == writeQueue
           w == Tail(q.wait)
           r == [q EXCEPT !.wait = w, !.insertPending = FALSE]
           k == Len(delivered["write"])
           sz == size["write"]
           mv == moved["write"]
<1>1. /\ WriteEvents(q) /\ History(k, sz, mv) /\ q \in WQueue /\ Begins(q, q.transferPending)
      /\ Chain(q.wait, q.transfer, q.insertPending, k, sz, mv)
  BY WriteFacts
<1>2. /\ q.insertPending /\ writeQueue' = insertWrite(r)
      /\ UNCHANGED <<readQueue, size, moved, delivered>>
  BY DEF insertWriteDone
<1> HIDE DEF q, k, sz, mv
<1>3. q.wait \in Seq(Pieces) /\ q.transfer \in Seq(Pieces) /\ q.insertPending = TRUE
  BY <1>1, <1>2 DEF WQueue
<1>4. w \in Seq(Pieces) /\ Chain(w, q.transfer, FALSE, k, sz, mv)
  BY <1>1, <1>3, PopChain DEF History
<1> HIDE DEF w
<1>5. /\ r \in WQueue /\ r.wait = w /\ r.transfer = q.transfer /\ r.insertPending = FALSE
      /\ r.transferPending = q.transferPending /\ r.beginTransfer = q.beginTransfer
      /\ r.upstream = q.upstream /\ r.submitCompletion = q.submitCompletion
  BY <1>1, <1>4 DEF WQueue
<1> HIDE DEF r
<1>6. Write(r, k, sz, mv)
  BY <1>1, <1>4, <1>5 DEF Write, Begins
<1>7. PICK e : e = writeQueue'
  OBVIOUS
<1>8. /\ Write(e, k, sz, mv) /\ e.transferPending = r.transferPending
      /\ e.upstream = r.upstream /\ e.submitCompletion = r.submitCompletion
  <2>1. e = insertWrite(r)
    BY <1>2, <1>7
  <2> QED
    BY ONLY <1>6, <2>1, InsertWriteKeeps
<1>9. WriteEvents(e)
  BY <1>1, <1>5, <1>8 DEF WriteEvents
<1>10. QED
  BY <1>2, <1>7, <1>8, <1>9, WriteStep DEF k, sz, mv

(* beginTransferWrite() keeps the invariant.                                   *)
LEMMA BeginTransferWrite ==
    ASSUME Inv, beginTransferWrite
    PROVE  Inv'
<1> DEFINE q == writeQueue
           r == [q EXCEPT !.beginTransfer = FALSE]
           k == Len(delivered["write"])
           sz == size["write"]
           mv == moved["write"]
<1>1. /\ WriteEvents(q) /\ History(k, sz, mv) /\ q \in WQueue /\ Begins(q, q.transferPending)
      /\ Chain(q.wait, q.transfer, q.insertPending, k, sz, mv)
  BY WriteFacts
<1>2. /\ q.beginTransfer /\ writeQueue' = transferWrite(r)
      /\ UNCHANGED <<readQueue, size, moved, delivered>>
  BY DEF beginTransferWrite
<1> HIDE DEF q, k, sz, mv
<1>3. /\ r \in WQueue /\ r.wait = q.wait /\ r.transfer = q.transfer
      /\ r.insertPending = q.insertPending
      /\ r.transferPending = q.transferPending /\ r.beginTransfer = FALSE
      /\ r.upstream = q.upstream /\ r.submitCompletion = q.submitCompletion
  BY <1>1 DEF WQueue
<1> HIDE DEF r
<1>4. q.transfer # <<>>
  <2>1. q.transfer \in Seq(Pieces) /\ Len(q.transfer) >= 1
    BY <1>1, <1>2, LenProperties DEF Begins, WQueue
  <2> QED
    BY <2>1, EmptySeq
<1>5. Write(transferWrite(r), k, sz, mv) /\ WriteEvents(transferWrite(r))
  <2>1. CASE q.transferPending
    <3>1. transferWrite(r) = r
      BY <1>3, <2>1 DEF transferWrite
    <3> QED
      BY <1>1, <1>3, <1>4, <3>1 DEF Write, Begins, WriteEvents
  <2>2. CASE ~q.transferPending
    <3> DEFINE t == [r EXCEPT !.transferPending = TRUE, !.upstream = TRUE]
    <3>1. transferWrite(r) = t
      BY <1>3, <2>2 DEF transferWrite
    <3>2. /\ t \in WQueue /\ t.wait = r.wait /\ t.transfer = r.transfer
          /\ t.insertPending = r.insertPending /\ t.transferPending = TRUE
          /\ t.beginTransfer = FALSE /\ t.upstream = TRUE
          /\ t.submitCompletion = r.submitCompletion
      BY <1>3 DEF WQueue
    <3> HIDE DEF t
    <3>3. ~q.submitCompletion
      BY <1>1, <2>2 DEF WriteEvents
    <3> QED
      BY <1>1, <1>3, <1>4, <3>1, <3>2, <3>3 DEF Write, Begins, WriteEvents
  <2> QED
    BY <2>1, <2>2
<1>6. QED
  BY <1>2, <1>5, WriteStep DEF k, sz, mv

(* WriteFinish(): a piece is done, and its function may ask for more. *)
LEMMA WriteFinishKeeps ==
    ASSUME Inv, NEW q, WriteFinish(q),
           Write(q, Len(delivered["write"]), size["write"], moved["write"]),
           q.transferPending, ~q.upstream, ~q.submitCompletion
    PROVE  Inv'
<1> DEFINE k == Len(delivered["write"])
           sz == size["write"]
           mv == moved["write"]
           f == q.transfer[1]
<1>1. Write(q, k, sz, mv)
  OBVIOUS
<1>2. q.transfer # <<>> /\ q.transfer \in Seq(Pieces)
  BY DEF Write, Begins, WQueue
<1>3. Head(q.transfer) = f /\ f \in Pieces
  BY <1>2, HeadTailProperties
<1>4. /\ UNCHANGED readQueue
      /\ moved' = [moved EXCEPT !["write"] = Credited(f, @)]
      /\ delivered' = IF f.last THEN [delivered EXCEPT !["write"] = Append(@, f.req)]
                      ELSE delivered
      /\ \/ writeQueue' = WriteDoneNext(q) /\ UNCHANGED size
         \/ /\ Requests < MaxRequests
            /\ \E n \in Sizes :
                  /\ size' = [size EXCEPT !["write"] = Append(@, n)]
                  /\ writeQueue' = WriteDoneNext(dmaWrite(q, Len(sz) + 1, n))
  BY <1>3, WriteFinishCases
<1>5. /\ Types /\ InOrder("write") /\ InOrder("read") /\ Reading
      /\ "write" \in Direction /\ "read" \in Direction /\ "read" # "write"
  BY DEF Inv, Direction
<1>6. PICK l, new : l = Counted(f, k) /\ new = Credited(f, mv)
  OBVIOUS
<1>7. /\ f.req = k + 1
      /\ Write(WriteDoneNext(q), l, sz, new) /\ WriteEvents(WriteDoneNext(q))
  BY ONLY <1>1, <1>6, q.transferPending, ~q.upstream, ~q.submitCompletion,
          WriteDoneNextKeeps
<1>8. /\ delivered' \in [Direction -> Seq(1 .. MaxRequests)] /\ InOrder("write")'
      /\ moved' \in [Direction -> [1 .. MaxRequests -> Nat]]
      /\ moved'["write"] = new /\ Len(delivered'["write"]) = l
      /\ delivered'["read"] = delivered["read"] /\ moved'["read"] = moved["read"]
  <2> HIDE DEF f
  <2>1. f.req = Len(delivered["write"]) + 1
    BY <1>7
  <2>2. /\ Types /\ InOrder("write") /\ "write" \in Direction /\ f \in Pieces
        /\ moved' = [moved EXCEPT !["write"] = Credited(f, @)]
        /\ delivered' = IF f.last THEN [delivered EXCEPT !["write"] = Append(@, f.req)]
                        ELSE delivered
    BY ONLY <1>3, <1>4, <1>5
  <2>3. /\ delivered' \in [Direction -> Seq(1 .. MaxRequests)] /\ InOrder("write")'
        /\ moved' \in [Direction -> [1 .. MaxRequests -> Nat]]
        /\ moved'["write"] = Credited(f, moved["write"])
        /\ Len(delivered'["write"]) = Counted(f, Len(delivered["write"]))
        /\ \A e \in Direction : e # "write" =>
              delivered'[e] = delivered[e] /\ moved'[e] = moved[e]
    BY ONLY <2>1, <2>2, DeliverHistory
  <2>4. delivered'["read"] = delivered["read"] /\ moved'["read"] = moved["read"]
    BY ONLY <1>5, <2>3
  <2> QED
    BY ONLY <1>6, <2>3, <2>4
<1>9. /\ size' \in [Direction -> Seq(Sizes)] /\ Requests' <= MaxRequests
      /\ size'["read"] = size["read"]
      /\ Write(writeQueue', l, size'["write"], new) /\ WriteEvents(writeQueue')
  <2>1. CASE writeQueue' = WriteDoneNext(q) /\ UNCHANGED size
    <3>1. size' \in [Direction -> Seq(Sizes)] /\ Requests' <= MaxRequests
      BY <1>5, <2>1 DEF Types, Requests
    <3> QED
      BY <1>7, <2>1, <3>1
  <2>2. CASE Requests < MaxRequests /\ \E n \in Sizes :
                  /\ size' = [size EXCEPT !["write"] = Append(@, n)]
                  /\ writeQueue' = WriteDoneNext(dmaWrite(q, Len(sz) + 1, n))
    <3>1. PICK n \in Sizes : /\ size' = [size EXCEPT !["write"] = Append(@, n)]
                             /\ writeQueue' = WriteDoneNext(dmaWrite(q, Len(sz) + 1, n))
      BY <2>2
    <3>2. /\ size' \in [Direction -> Seq(Sizes)] /\ Requests' <= MaxRequests
          /\ size'["write"] = Append(sz, n) /\ size'["read"] = size["read"]
      <4>1. /\ size' \in [Direction -> Seq(Sizes)] /\ Requests' <= MaxRequests
            /\ size'["write"] = Append(size["write"], n)
            /\ \A e \in Direction : e # "write" => size'[e] = size[e]
        BY ONLY n \in Sizes, <1>5, <2>2, <3>1, SubmitHistory
      <4> QED
        BY <1>5, <4>1
    <3>3. PICK p : p = AskWrite(q, sz, n)
      OBVIOUS
    <3>4. Len(sz) < MaxRequests
      BY <1>5, <2>2, HistoryTypes
    <3>5. /\ Write(p, k, Asked(sz, n), mv)
          /\ p.transferPending = q.transferPending /\ p.upstream = q.upstream
          /\ p.submitCompletion = q.submitCompletion
          /\ q.transfer # <<>> => p.transfer # <<>> /\ p.transfer[1] = q.transfer[1]
      BY ONLY n \in Sizes, <1>1, <3>3, <3>4, DmaWriteKeeps
    <3>6. /\ p.transferPending /\ ~p.upstream /\ ~p.submitCompletion
          /\ l = Counted(p.transfer[1], k) /\ new = Credited(p.transfer[1], mv)
      BY <1>2, <1>6, <3>5
    <3>7. Write(WriteDoneNext(p), l, Asked(sz, n), new) /\ WriteEvents(WriteDoneNext(p))
      BY ONLY <3>5, <3>6, WriteDoneNextKeeps
    <3> QED
      BY <3>1, <3>2, <3>3, <3>7 DEF AskWrite, Asked
  <2> QED
    BY <1>4, <2>1, <2>2
<1>10. Types'
  BY <1>8, <1>9 DEF Types
<1>11. Writing'
  BY <1>8, <1>9 DEF Writing
<1>12. Reading' /\ InOrder("read")'
  BY <1>4, <1>5, <1>8, <1>9, ReadingKept
<1>13. QED
  BY <1>8, <1>10, <1>11, <1>12 DEF Inv

(* transferWriteDone() keeps the invariant.                                    *)
LEMMA TransferWriteDone ==
    ASSUME Inv, transferWriteDone
    PROVE  Inv'
<1>1. PICK q : q = [writeQueue EXCEPT !.upstream = FALSE]
  OBVIOUS
<1>2. /\ writeQueue.upstream
      /\ \/ WriteFinish(q)
         \/ /\ writeQueue' = [q EXCEPT !.submitCompletion = TRUE]
            /\ UNCHANGED <<readQueue, size, moved, delivered>>
  BY <1>1 DEF transferWriteDone, WriteFinish, Finish
<1>3. /\ q \in WQueue /\ q.wait = writeQueue.wait /\ q.transfer = writeQueue.transfer
      /\ q.insertPending = writeQueue.insertPending /\ q.beginTransfer = writeQueue.beginTransfer
      /\ q.transferPending = TRUE /\ q.upstream = FALSE /\ q.submitCompletion = FALSE
      /\ writeQueue.transferPending = TRUE
  BY <1>1, <1>2, WriteFacts DEF WQueue, WriteEvents
<1>4. Write(q, Len(delivered["write"]), size["write"], moved["write"])
  BY <1>3, WriteFacts DEF Write, Begins
<1>5. CASE WriteFinish(q)
  BY <1>3, <1>4, <1>5, WriteFinishKeeps
<1>6. CASE /\ writeQueue' = [q EXCEPT !.submitCompletion = TRUE]
           /\ UNCHANGED <<readQueue, size, moved, delivered>>
  <2>1. PICK e : e = writeQueue'
    OBVIOUS
  <2>2. /\ e \in WQueue /\ e.wait = q.wait /\ e.transfer = q.transfer
        /\ e.insertPending = q.insertPending /\ e.beginTransfer = q.beginTransfer
        /\ e.transferPending = TRUE /\ e.upstream = FALSE /\ e.submitCompletion = TRUE
    BY <1>3, <1>6, <2>1 DEF WQueue
  <2>3. Write(e, Len(delivered["write"]), size["write"], moved["write"]) /\ WriteEvents(e)
    BY <1>3, <1>4, <2>2 DEF Write, Begins, WriteEvents
  <2> QED
    BY <1>6, <2>1, <2>3, WriteStep
<1>7. QED
  BY <1>2, <1>5, <1>6

(* transferWriteDoneNext(), the tail of a finished write, keeps the invariant. *)
LEMMA TransferWriteDoneNext ==
    ASSUME Inv, transferWriteDoneNext
    PROVE  Inv'
<1>1. PICK q : q = [writeQueue EXCEPT !.submitCompletion = FALSE]
  OBVIOUS
<1>2. writeQueue.submitCompletion /\ WriteFinish(q)
  BY <1>1 DEF transferWriteDoneNext
<1>3. /\ q \in WQueue /\ q.wait = writeQueue.wait /\ q.transfer = writeQueue.transfer
      /\ q.insertPending = writeQueue.insertPending /\ q.beginTransfer = writeQueue.beginTransfer
      /\ q.transferPending = TRUE /\ q.upstream = FALSE /\ q.submitCompletion = FALSE
      /\ writeQueue.transferPending = TRUE
  BY <1>1, <1>2, WriteFacts DEF WQueue, WriteEvents
<1>4. Write(q, Len(delivered["write"]), size["write"], moved["write"])
  BY <1>3, WriteFacts DEF Write, Begins
<1>5. QED
  BY <1>2, <1>3, <1>4, WriteFinishKeeps

(* dmaWrite() keeps the invariant. *)
LEMMA RequestWrite ==
    ASSUME Inv, NEW n \in Sizes, Requests < MaxRequests,
           size' = [size EXCEPT !["write"] = Append(@, n)],
           writeQueue' = dmaWrite(writeQueue, Len(size["write"]) + 1, n),
           UNCHANGED <<readQueue, moved, delivered>>
    PROVE  Inv'
<1> DEFINE k == Len(delivered["write"])
           sz == size["write"]
           mv == moved["write"]
<1>1. Write(writeQueue, k, sz, mv) /\ WriteEvents(writeQueue)
  BY WriteFacts
<1>2. /\ Types /\ InOrder("write") /\ InOrder("read") /\ Reading
      /\ "write" \in Direction /\ "read" \in Direction /\ "read" # "write"
  BY DEF Inv, Direction
<1>3. /\ size' \in [Direction -> Seq(Sizes)] /\ Requests' <= MaxRequests
      /\ size'["write"] = Append(size["write"], n)
      /\ \A e \in Direction : e # "write" => size'[e] = size[e]
  BY ONLY n \in Sizes, Requests < MaxRequests, <1>2,
          size' = [size EXCEPT !["write"] = Append(@, n)], SubmitHistory
<1>4. Len(sz) < MaxRequests
  BY <1>2, HistoryTypes
<1>5. PICK p, q : q = writeQueue /\ p = AskWrite(q, sz, n)
  OBVIOUS
<1>6. Write(q, k, sz, mv) /\ WriteEvents(q) /\ writeQueue' = p
  BY <1>1, <1>5 DEF AskWrite
<1>7. /\ Write(p, k, Asked(sz, n), mv)
      /\ p.transferPending = q.transferPending /\ p.upstream = q.upstream
      /\ p.submitCompletion = q.submitCompletion
  <2>1. p = AskWrite(q, sz, n)
    BY <1>5
  <2> QED
    BY ONLY n \in Sizes, <1>4, <1>6, <2>1, DmaWriteKeeps
<1>8. WriteEvents(p)
  BY <1>6, <1>7 DEF WriteEvents
<1>9. Writing'
  BY <1>3, <1>6, <1>7, <1>8 DEF Writing, Asked
<1>10. Types' /\ InOrder("write")'
  BY <1>2, <1>3 DEF Types, InOrder
<1>11. Reading' /\ InOrder("read")'
  BY <1>2, <1>3, ReadingKept
<1>12. QED
  BY <1>9, <1>10, <1>11 DEF Inv

-----------------------------------------------------------------------------
(* Reads *)

(* What a handler leaves alone that only claims pieces *)
SameFront(p, q) ==
    /\ p.insertPending = q.insertPending /\ p.insertDone = q.insertDone
    /\ p.submitCompletion = q.submitCompletion /\ p.completion = q.completion
    /\ First(p) = First(q) /\ ReadIds(p) = ReadIds(q)
    /\ q.transferPending => p.transferPending /\ p.transfer = q.transfer
    /\ q.transfer # <<>> => p.transfer # <<>> /\ p.transfer[1] = q.transfer[1]

(* It changes nothing for the front of the transfer queue. *)
LEMMA FrontKept ==
    ASSUME NEW p, NEW q, SameFront(p, q)
    PROVE  (ReadEvents(q) => ReadEvents(p)) /\ (Complete(q) => Complete(p))
<1>1. /\ Untouched(q) => Untouched(p)
      /\ Inserting(q) => Inserting(p)
      /\ Complete(q) => Complete(p)
      /\ HalfDone(q) => HalfDone(p)
      /\ p.submitCompletion = q.submitCompletion
  BY DEF SameFront, Untouched, Inserting, Complete, HalfDone
<1>2. QED
  BY <1>1 DEF ReadEvents

(* transferRead() claims the front of the wait queue and numbers it, unless *)
(* there is none or one is claimed already.                                *)
LEMMA TransferReadKeeps ==
    ASSUME NEW q, NEW k, NEW sz, NEW mv, Read(q, k, sz, mv), NEW p, p = transferRead(q)
    PROVE  Read(p, k, sz, mv) /\ SameFront(p, q)
<1>1. CASE q.wait = <<>> \/ MustWait(q, q.transferPending)
  BY <1>1 DEF transferRead, SameFront
<1>2. CASE ~(q.wait = <<>> \/ MustWait(q, q.transferPending))
  <2> DEFINE w == Split(q.wait)
             f == [Head(w) EXCEPT !.id = q.counter]
             v == <<f>> \o Tail(w)
             t == Append(q.transfer, f)
  <2>1. /\ q \in RQueue /\ q.wait \in Seq(Pieces) /\ q.transfer \in Seq(Pieces) /\ q.wait # <<>>
        /\ q.usage \in Int /\ q.insertPending \in BOOLEAN /\ q.transferPending \in BOOLEAN
        /\ q.counter \in Nat
        /\ k \in Nat /\ sz \in Seq(Sizes) /\ mv \in [1 .. MaxRequests -> Nat]
        /\ Len(sz) <= MaxRequests /\ History(k, sz, mv)
    BY <1>2 DEF Read, RQueue, History
  <2>2. ~q.transferPending
    <3>1. q.transferPending => calcSize(Head(q.wait).size) <= Capacity
      <4>1. Head(q.wait) = q.wait[1]
        BY <2>1, HeadTailProperties
      <4> QED
        BY <4>1 DEF Read, Chain
    <3> QED
      BY <1>2, <3>1 DEF MustWait
  <2>3. w \in Seq(Pieces) /\ w # <<>>
    BY <2>1, SplitSeq
  <2>4. p = [q EXCEPT !.wait = v, !.transferPending = TRUE, !.counter = @ + 1,
                      !.usage = @ + calcSize(f.size),
                      !.beginTransfer = TRUE, !.transfer = Append(@, f)]
    BY <1>2 DEF transferRead
  <2> HIDE DEF w
  <2>5. /\ Len(w) \in Nat /\ Len(w) > 0 /\ w[1] \in Pieces /\ Head(w) = w[1]
        /\ Tail(w) \in Seq(Pieces) /\ Len(Tail(w)) = Len(w) - 1
        /\ \A i \in 1 .. Len(w) - 1 : Tail(w)[i] = w[i + 1]
    BY <2>3, LenProperties, EmptySeq, HeadTailProperties
  <2>6. /\ f \in Pieces /\ f.req = w[1].req /\ f.size = w[1].size /\ f.last = w[1].last
        /\ f.id = q.counter
    <3>1. Head(w) \in Pieces /\ Head(w) = w[1] /\ q.counter \in Int
      BY <2>1, <2>5
    <3> QED
      BY ONLY <3>1 DEF Pieces
  <2> HIDE DEF f
  <2>7. calcSize(f.size) \in Int
    <3>1. f.size \in Nat
      BY <2>6 DEF Pieces
    <3> QED
      BY <3>1, UnitFits
  <2>8. /\ v \in Seq(Pieces) /\ Len(v) = Len(w) /\ v[1] = f
        /\ \A i \in 2 .. Len(w) : v[i] = w[i]
    <3>1. <<f>> \in Seq(Pieces) /\ Len(<<f>>) = 1 /\ <<f>>[1] = f
      BY <2>6
    <3>2. /\ v \in Seq(Pieces) /\ Len(v) = 1 + (Len(w) - 1)
          /\ \A i \in 1 .. 1 + (Len(w) - 1) :
                v[i] = IF i <= 1 THEN <<f>>[i] ELSE Tail(w)[i - 1]
      BY <2>5, <3>1, ConcatProperties
    <3> HIDE DEF v
    <3>3. Len(v) = Len(w) /\ v[1] = f
      BY <2>5, <3>1, <3>2
    <3>4. ASSUME NEW i \in 2 .. Len(w)
          PROVE  v[i] = w[i]
      <4>1. i \in 1 .. 1 + (Len(w) - 1) /\ ~(i <= 1) /\ i - 1 \in 1 .. Len(w) - 1 /\ i - 1 + 1 = i
        BY <2>5
      <4> QED
        BY <2>5, <3>2, <4>1
    <3> QED
      BY <3>2, <3>3, <3>4
  <2> HIDE DEF v
  <2>9. /\ t \in Seq(Pieces) /\ Len(t) = Len(q.transfer) + 1 /\ t # <<>>
        /\ \A i \in 1 .. Len(q.transfer) : t[i] = q.transfer[i]
        /\ t[Len(q.transfer) + 1] = f
    BY <2>1, <2>6, AppendProperties
  <2>10. Chain(v, t, TRUE, k, sz, mv)
    <3>1. Chain(q.wait, q.transfer, FALSE, k, sz, mv)
      BY <2>1, <2>2 DEF Read
    <3>2. v[1].req = w[1].req /\ v[1].size = w[1].size /\ v[1].last = w[1].last
      BY <2>6, <2>8
    <3>3. Chain(v, Append(q.transfer, v[1]), TRUE, k, sz, mv)
      BY ONLY <2>1, <2>3, <2>8, <3>1, <3>2, BeginChain DEF w
    <3> QED
      BY <2>8, <3>3
  <2> HIDE DEF t
  <2>11. /\ p \in RQueue /\ p.wait = v /\ p.transfer = t /\ p.transferPending = TRUE
         /\ p.insertPending = q.insertPending /\ p.insertDone = q.insertDone
         /\ p.submitCompletion = q.submitCompletion /\ p.completion = q.completion
         /\ p.counter = q.counter + 1
    <3>1. q.usage + calcSize(f.size) \in Int /\ q.counter + 1 \in Nat
      BY <2>1, <2>7
    <3>2. p = [q EXCEPT !.wait = v, !.transferPending = TRUE, !.counter = q.counter + 1,
                        !.usage = q.usage + calcSize(f.size),
                        !.beginTransfer = TRUE, !.transfer = t]
      BY <2>4 DEF t
    <3>3. q \in RQueue /\ v \in Seq(Pieces) /\ t \in Seq(Pieces)
      BY <2>1, <2>8, <2>9
    <3> QED
      BY ONLY <3>1, <3>2, <3>3 DEF RQueue
  <2>12. Len(q.transfer) \in Nat /\ (q.transfer # <<>> => 1 \in 1 .. Len(q.transfer))
    BY <2>1, LenProperties, EmptySeq
  <2>13. Begins(p, p.insertPending)
    <3>1. q.insertPending => q.transfer # <<>>
      BY DEF Read, Begins
    <3>2. Len(t) >= IF q.insertPending THEN 2 ELSE 1
      BY <2>1, <2>9, <2>12, <3>1
    <3> QED
      BY <2>9, <2>11, <3>2 DEF Begins
  <2>14. First(p) = First(q) /\ First(q) \in Nat
    <3>1. First(q) \in Nat
      BY DEF Read, Numbered
    <3>2. p.counter = q.counter + 1 /\ Len(p.transfer) = Len(q.transfer) + 1
      BY <2>9, <2>11
    <3>3. q.counter \in Int /\ Len(q.transfer) \in Int
      BY <2>1, <2>12
    <3>4. p.counter \in Int /\ Len(p.transfer) \in Int
      BY <3>2, <3>3
    <3>5. p.counter - Len(p.transfer) = q.counter - Len(q.transfer)
      <4>1. \A a, b, c, d \in Int : a = c + 1 /\ b = d + 1 => a - b = c - d
        OBVIOUS
      <4> QED
        BY ONLY <3>2, <3>3, <3>4, <4>1
    <3> QED
      BY <3>1, <3>5 DEF First
  <2>15. ReadIds(p) = ReadIds(q)
    <3>1. /\ First(p) = First(q) /\ p.counter = q.counter + 1
          /\ Claimed(p.transferPending) = 1 /\ Claimed(q.transferPending) = 0
      BY <2>2, <2>11, <2>14 DEF Claimed
    <3>2. q.counter + 1 - 1 - 1 = q.counter - 1 - 0
      BY <2>1
    <3> QED
      BY <2>1, <3>1, <3>2 DEF ReadIds
  <2>16. Numbered(p)
    <3>1. ASSUME NEW i \in 1 .. Len(t)
          PROVE  t[i].id = First(q) + i - 1
      <4>1. CASE i \in 1 .. Len(q.transfer)
        <5>1. q.transfer[i].id = First(q) + i - 1
          BY <4>1 DEF Read, Numbered
        <5> QED
          BY <2>9, <4>1, <5>1
      <4>2. CASE i = Len(q.transfer) + 1
        <5>1. t[i].id = q.counter
          BY <2>6, <2>9, <4>2
        <5>2. First(q) + i - 1 = q.counter
          BY <2>1, <2>12, <4>2 DEF First
        <5> QED
          BY <5>1, <5>2
      <4> QED
        BY <2>9, <2>12, <4>1, <4>2
    <3>2. p.wait[1].id = p.counter - 1
      BY <2>1, <2>6, <2>8, <2>11
    <3> QED
      BY <2>9, <2>11, <2>14, <3>1, <3>2 DEF Numbered
  <2>17. Read(p, k, sz, mv)
    BY <2>1, <2>10, <2>11, <2>13, <2>16 DEF Read
  <2>18. SameFront(p, q)
    BY <2>2, <2>9, <2>11, <2>12, <2>14, <2>15 DEF SameFront
  <2> QED
    BY <2>17, <2>18
<1>3. QED
  BY <1>1, <1>2

(* Keeping the front of the queue twice keeps it.                              *)
LEMMA SameFrontTrans ==
    ASSUME NEW p, NEW q, NEW r, SameFront(p, q), SameFront(q, r)
    PROVE  SameFront(p, r)
BY DEF SameFront

(* dmaRead(): a request joins, and the rest stays as it is. *)
AskRead(q, sz, n) == dmaRead(q, Len(sz) + 1, n)

(* dmaRead() keeps the read queue in order and leaves its front alone.         *)
LEMMA DmaReadKeeps ==
    ASSUME NEW q, NEW k, NEW sz, NEW mv, Read(q, k, sz, mv),
           Len(sz) < MaxRequests, NEW n \in Sizes, NEW p, p = AskRead(q, sz, n)
    PROVE  Read(p, k, Asked(sz, n), mv) /\ SameFront(p, q)
<1> DEFINE w == Queued(q.wait, sz, n)
           r == [q EXCEPT !.wait = w]
           s == Asked(sz, n)
<1>1. /\ q \in RQueue /\ q.wait \in Seq(Pieces) /\ q.transfer \in Seq(Pieces)
      /\ q.transferPending \in BOOLEAN
      /\ Chain(q.wait, q.transfer, q.transferPending, k, sz, mv)
      /\ k \in Nat /\ sz \in Seq(Sizes) /\ mv \in [1 .. MaxRequests -> Nat]
  BY DEF Read, RQueue, History
<1>2. /\ w \in Seq(Pieces) /\ s \in Seq(Sizes) /\ Len(s) <= MaxRequests
      /\ q.transferPending => w[1] = q.wait[1]
      /\ Chain(w, q.transfer, q.transferPending, k, s, mv)
  BY <1>1, SubmitChain
<1>3. p = transferRead([q EXCEPT !.wait = w])
  BY DEF AskRead, dmaRead, Queued
<1> HIDE DEF w, s
<1>4. /\ r \in RQueue /\ r.wait = w /\ r.transfer = q.transfer
      /\ r.insertPending = q.insertPending /\ r.transferPending = q.transferPending
      /\ r.insertDone = q.insertDone /\ r.submitCompletion = q.submitCompletion
      /\ r.beginTransfer = q.beginTransfer /\ r.counter = q.counter
      /\ r.completion = q.completion
  BY <1>1, <1>2 DEF RQueue
<1>5. p = transferRead(r)
  BY <1>3
<1> HIDE DEF r
<1>6. First(r) = First(q) /\ ReadIds(r) = ReadIds(q)
  BY <1>4 DEF First, ReadIds
<1>7. Numbered(r)
  <2>1. Numbered(q)
    BY DEF Read
  <2> QED
    BY <1>2, <1>4, <1>6, <2>1 DEF Numbered
<1>8. Read(r, k, s, mv)
  <2>1. Begins(r, r.insertPending)
    BY <1>4 DEF Read, Begins
  <2> QED
    BY <1>1, <1>2, <1>4, <1>7, <2>1 DEF Read, History
<1>9. SameFront(r, q)
  BY <1>4, <1>6 DEF SameFront
<1>10. Read(p, k, s, mv) /\ SameFront(p, r)
  BY ONLY <1>5, <1>8, TransferReadKeeps
<1>11. QED
  BY <1>9, <1>10, SameFrontTrans DEF s

(* The end of insertReadDoneNext(): the first piece goes, the next one is  *)
(* inserted and the front of the wait queue is read.                       *)
LEMMA ReadDoneNextKeeps ==
    ASSUME NEW q, NEW k, NEW sz, NEW mv, Read(q, k, sz, mv),
           Complete(q), ~q.submitCompletion,
           NEW l, l = Counted(q.transfer[1], k), NEW new, new = Credited(q.transfer[1], mv)
    PROVE  /\ q.transfer[1].req = k + 1
           /\ Read(ReadDoneNext(q), l, sz, new)
           /\ ReadEvents(ReadDoneNext(q))
<1> DEFINE f == Head(q.transfer)
           p == [q EXCEPT !.usage = @ - calcSize(f.size),
                          !.insertPending = FALSE,
                          !.transfer = Tail(@)]
           t == IF p.transfer # <<>> /\ ~p.beginTransfer THEN insertRead(p) ELSE p
<1>1. /\ q \in RQueue /\ q.wait \in Seq(Pieces) /\ q.transfer \in Seq(Pieces)
      /\ q.transferPending \in BOOLEAN /\ q.usage \in Int /\ q.counter \in Nat
      /\ Chain(q.wait, q.transfer, q.transferPending, k, sz, mv)
      /\ k \in Nat /\ sz \in Seq(Sizes) /\ mv \in [1 .. MaxRequests -> Nat]
      /\ Len(sz) <= MaxRequests
  BY DEF Read, RQueue, History
<1>2. q.transfer # <<>> /\ (q.beginTransfer => Len(q.transfer) >= 2)
  BY DEF Read, Begins, Complete
<1>3. /\ Tail(q.transfer) \in Seq(Pieces) /\ l \in Nat /\ new \in [1 .. MaxRequests -> Nat]
      /\ q.transfer[1].req = k + 1
      /\ Chain(q.wait, Tail(q.transfer), q.transferPending, l, sz, new)
  <2> HIDE DEF f, p, t
  <2> QED
    BY <1>1, <1>2, DeliverChain
<1>4. /\ f \in Pieces /\ Len(Tail(q.transfer)) = Len(q.transfer) - 1
      /\ Len(q.transfer) \in Nat /\ Len(q.transfer) > 0
      /\ \A i \in 1 .. Len(q.transfer) - 1 : Tail(q.transfer)[i] = q.transfer[i + 1]
  BY <1>1, <1>2, HeadTailProperties, LenProperties, EmptySeq
<1>5. q.usage - calcSize(f.size) \in Int
  <2>1. f.size \in Nat
    BY <1>4 DEF Pieces
  <2>2. calcSize(f.size) \in Int
    BY <2>1, UnitFits
  <2> QED
    BY <1>1, <2>2
<1>6. /\ p \in RQueue /\ p.wait = q.wait /\ p.transfer = Tail(q.transfer)
      /\ p.insertPending = FALSE /\ p.transferPending = q.transferPending
      /\ p.insertDone = FALSE /\ p.submitCompletion = FALSE
      /\ p.beginTransfer = q.beginTransfer /\ p.counter = q.counter
      /\ p.completion = q.completion
  <2>1. q.insertDone = FALSE /\ q.submitCompletion = FALSE
    BY <1>1 DEF Complete, RQueue
  <2> HIDE DEF f
  <2> QED
    BY <1>1, <1>3, <1>5, <2>1 DEF RQueue
<1>7. ReadDoneNext(q) = transferRead(t)
  BY DEF ReadDoneNext
<1> HIDE DEF p
<1>8. /\ First(q) \in Nat /\ First(q) = q.counter - Len(q.transfer)
      /\ \A i \in 1 .. Len(q.transfer) : q.transfer[i].id = First(q) + i - 1
      /\ q.transferPending => q.wait[1].id = q.counter - 1
  BY DEF Read, Numbered, First
<1>9. First(p) = First(q) + 1
  <2>1. First(p) = q.counter - (Len(q.transfer) - 1)
    BY <1>4, <1>6 DEF First
  <2> QED
    BY <1>1, <1>4, <1>8, <2>1
<1>10. PICK hi \in Int : hi = q.counter - 1 - Claimed(q.transferPending)
  <2>1. Claimed(q.transferPending) \in Int
    BY DEF Claimed
  <2> QED
    BY <1>1, <2>1
<1>11. /\ ReadIds(q) = First(q) .. hi /\ ReadIds(p) = First(q) + 1 .. hi
  BY <1>6, <1>9, <1>10 DEF ReadIds
<1>12. p.completion = ReadIds(p) /\ First(q) <= hi
  <2>1. q.completion = (First(q) .. hi) \ {First(q)} /\ First(q) \in First(q) .. hi
    BY <1>11 DEF Complete
  <2>2. (First(q) .. hi) \ {First(q)} = First(q) + 1 .. hi
    BY <1>8
  <2> QED
    BY <1>6, <1>8, <1>11, <2>1, <2>2
<1>13. Numbered(p)
  <2>1. ASSUME NEW i \in 1 .. Len(p.transfer)
        PROVE  p.transfer[i].id = First(p) + i - 1
    <3>1. i \in 1 .. Len(q.transfer) - 1 /\ i + 1 \in 1 .. Len(q.transfer)
      BY <1>4, <1>6
    <3>2. q.transfer[i + 1].id = First(q) + (i + 1) - 1
      BY <1>8, <3>1
    <3>3. First(q) + (i + 1) - 1 = First(q) + 1 + i - 1
      BY <1>8
    <3> QED
      BY <1>4, <1>6, <1>9, <3>1, <3>2, <3>3
  <2>2. ASSUME q.transferPending
        PROVE  p.transfer # <<>>
    <3>1. hi = q.counter - 1 - 1
      BY <1>10, <2>2 DEF Claimed
    <3>2. Len(q.transfer) >= 2
      BY <1>1, <1>4, <1>8, <1>12, <3>1
    <3>3. Len(p.transfer) >= 1
      BY <1>4, <1>6, <3>2
    <3> QED
      BY <3>3, EmptySeq
  <2>3. First(p) \in Nat
    BY <1>8, <1>9
  <2> QED
    BY <1>6, <1>8, <2>1, <2>2, <2>3 DEF Numbered
<1>14. Begins(p, p.insertPending)
  <2>1. q.beginTransfer => Len(Tail(q.transfer)) >= 1
    BY <1>2, <1>4
  <2> QED
    BY <1>6, <2>1 DEF Begins
<1>15. Read(p, l, sz, new)
  BY <1>1, <1>3, <1>6, <1>13, <1>14 DEF Read, History
<1>16. Read(t, l, sz, new) /\ ReadEvents(t)
  <2>1. CASE p.transfer # <<>> /\ ~p.beginTransfer
    <3>1. t = [p EXCEPT !.insertPending = TRUE, !.insertDone = TRUE]
      BY <1>6, <2>1 DEF insertRead
    <3>2. /\ t \in RQueue /\ t.wait = p.wait /\ t.transfer = p.transfer
          /\ t.transferPending = p.transferPending /\ t.beginTransfer = p.beginTransfer
          /\ t.insertPending = TRUE /\ t.insertDone = TRUE /\ t.submitCompletion = FALSE
          /\ t.counter = p.counter /\ t.completion = p.completion
      BY <1>6, <3>1 DEF RQueue
    <3> HIDE DEF t
    <3>3. First(t) = First(p) /\ ReadIds(t) = ReadIds(p)
      BY <3>2 DEF First, ReadIds
    <3>4. Numbered(t)
      BY <1>13, <3>2, <3>3 DEF Numbered
    <3>5. Begins(t, t.insertPending)
      BY <2>1, <3>2 DEF Begins
    <3>6. Inserting(t)
      BY <1>12, <3>2, <3>3 DEF Inserting
    <3> QED
      BY <1>15, <3>2, <3>4, <3>5, <3>6 DEF Read, ReadEvents
  <2>2. CASE ~(p.transfer # <<>> /\ ~p.beginTransfer)
    BY <1>6, <1>12, <1>15, <2>2 DEF ReadEvents, Untouched
  <2> QED
    BY <2>1, <2>2
<1> HIDE DEF t
<1>17. PICK e : e = transferRead(t)
  OBVIOUS
<1>18. Read(e, l, sz, new) /\ SameFront(e, t)
  BY ONLY <1>16, <1>17, TransferReadKeeps
<1>19. ReadEvents(e)
  BY <1>16, <1>18, FrontKept
<1>20. QED
  BY <1>3, <1>7, <1>17, <1>18, <1>19

-----------------------------------------------------------------------------
(* The events of the read queue *)

(* What an event that finishes no piece and adds no request has to show *)
LEMMA ReadStep ==
    ASSUME Inv, UNCHANGED <<writeQueue, size, moved, delivered>>,
           Read(readQueue', Len(delivered["read"]), size["read"], moved["read"]),
           ReadEvents(readQueue')
    PROVE  Inv'
<1>1. Types' /\ InOrder("write")' /\ InOrder("read")'
  BY DEF Inv, Types, InOrder, Requests
<1>2. Writing'
  BY DEF Inv, Writing
<1>3. Reading'
  BY DEF Reading
<1>4. QED
  BY <1>1, <1>2, <1>3 DEF Inv

(* The facts about the read queue that an event starts from *)
LEMMA ReadFacts ==
    ASSUME Inv
    PROVE  /\ Read(readQueue, Len(delivered["read"]), size["read"], moved["read"])
           /\ ReadEvents(readQueue)
           /\ History(Len(delivered["read"]), size["read"], moved["read"])
           /\ readQueue \in RQueue /\ Begins(readQueue, readQueue.insertPending)
           /\ Numbered(readQueue)
           /\ Chain(readQueue.wait, readQueue.transfer, readQueue.transferPending,
                    Len(delivered["read"]), size["read"], moved["read"])
BY DEF Inv, Reading, Read

(* The last number of an interval *)
LEMMA IntervalEnd ==
    ASSUME NEW a \in Int, NEW b \in Int, a <= b
    PROVE  (a .. b - 1) \cup {b} = a .. b
<1>1. \A i : i \in (a .. b - 1) \cup {b} <=> i \in a .. b
  OBVIOUS
<1>2. QED
  BY <1>1, Zenon

(* The piece that is read is the last one, so it was inserted only when it *)
(* is also the first.                                                      *)
LEMMA TransferReadDone ==
    ASSUME Inv, transferReadDone
    PROVE  Inv'
<1> DEFINE k == Len(delivered["read"])
           sz == size["read"]
           mv == moved["read"]
<1>0. PICK q : q = readQueue
  OBVIOUS
<1> DEFINE id == Head(q.wait).id
           half == id \in q.completion
           done == IF half THEN q.completion \ {id} ELSE q.completion \cup {id}
           w == Tail(q.wait)
           r == [q EXCEPT !.completion = done,
                          !.submitCompletion = @ \/ half,
                          !.wait = w,
                          !.transferPending = FALSE]
<1>1. /\ ReadEvents(q) /\ History(k, sz, mv) /\ q \in RQueue /\ Begins(q, q.insertPending)
      /\ Numbered(q) /\ Chain(q.wait, q.transfer, q.transferPending, k, sz, mv)
  BY <1>0, ReadFacts
<1>2. /\ q.transferPending /\ readQueue' = transferRead(r)
      /\ UNCHANGED <<writeQueue, size, moved, delivered>>
  BY <1>0 DEF transferReadDone
<1> HIDE DEF k, sz, mv
<1>3. /\ q.wait \in Seq(Pieces) /\ q.transfer \in Seq(Pieces) /\ q.transferPending = TRUE
      /\ q.counter \in Nat /\ q.completion \in SUBSET Int /\ q.submitCompletion \in BOOLEAN
      /\ Len(q.transfer) \in Nat
  BY <1>1, <1>2, LenProperties DEF RQueue
<1>4. w \in Seq(Pieces) /\ Chain(w, q.transfer, FALSE, k, sz, mv)
  BY <1>1, <1>3, PopChain DEF History
<1>5. id = q.counter - 1 /\ id \in Int
  <2>1. q.wait # <<>>
    BY <1>1, <1>3 DEF Chain
  <2>2. Head(q.wait) = q.wait[1]
    BY <1>3, <2>1, HeadTailProperties
  <2>3. q.wait[1].id = q.counter - 1
    BY <1>1, <1>3 DEF Numbered
  <2> QED
    BY <1>3, <2>2, <2>3
<1> HIDE DEF w, id
<1>6. done \in SUBSET Int /\ half \in BOOLEAN
  BY <1>3, <1>5
<1> HIDE DEF done, half
<1>7. /\ r \in RQueue /\ r.wait = w /\ r.transfer = q.transfer /\ r.transferPending = FALSE
      /\ r.insertPending = q.insertPending /\ r.insertDone = q.insertDone
      /\ r.beginTransfer = q.beginTransfer /\ r.counter = q.counter
      /\ r.completion = done /\ r.submitCompletion = (q.submitCompletion \/ half)
  <2>1. (q.submitCompletion \/ half) \in BOOLEAN
    OBVIOUS
  <2> QED
    BY <1>1, <1>3, <1>4, <1>6, <2>1 DEF RQueue
<1> HIDE DEF r
<1>8. First(r) = First(q) /\ First(q) \in Nat /\ First(q) = q.counter - Len(q.transfer)
  BY <1>1, <1>7 DEF First, Numbered
<1>9. ReadIds(q) = First(q) .. q.counter - 1 - 1 /\ ReadIds(r) = First(q) .. q.counter - 1
  <2>1. Claimed(q.transferPending) = 1 /\ Claimed(r.transferPending) = 0
    BY <1>3, <1>7 DEF Claimed
  <2>2. ReadIds(r) = First(q) .. q.counter - 1 - 0
    BY <1>7, <1>8, <2>1 DEF ReadIds
  <2>3. ReadIds(q) = First(q) .. q.counter - 1 - 1
    BY <2>1 DEF ReadIds
  <2> QED
    BY <1>3, <2>2, <2>3
<1>10. Len(q.transfer) >= 1
  <2>1. q.transfer # <<>>
    BY <1>1, <1>3 DEF Numbered
  <2> QED
    BY <1>3, <2>1, EmptySeq
<1>11. Read(r, k, sz, mv)
  <2>1. Numbered(r)
    BY <1>1, <1>7, <1>8 DEF Numbered
  <2>2. Begins(r, r.insertPending)
    BY <1>1, <1>7 DEF Begins
  <2> QED
    BY <1>1, <1>4, <1>7, <2>1, <2>2 DEF Read
<1>12. ReadEvents(r)
  <2>1. CASE q.completion = ReadIds(q)
    <3>1. ~half
      BY <1>3, <1>5, <1>8, <1>9, <2>1 DEF half
    <3>2. done = ReadIds(q) \cup {id}
      BY <2>1, <3>1 DEF done
    <3>3. (First(q) .. q.counter - 1 - 1) \cup {q.counter - 1} = First(q) .. q.counter - 1
      <4>1. First(q) \in Int /\ q.counter - 1 \in Int /\ First(q) <= q.counter - 1
        BY <1>3, <1>8, <1>10
      <4> QED
        BY <4>1, IntervalEnd
    <3>4. r.completion = ReadIds(r) /\ r.submitCompletion = q.submitCompletion
      BY <1>3, <1>5, <1>7, <1>9, <3>1, <3>2, <3>3
    <3>5. ~Complete(q) \/ ~q.submitCompletion
      BY <2>1 DEF Complete
    <3>6. ~HalfDone(q)
      <4>1. HalfDone(q) => First(q) \in ReadIds(q) /\ First(q) = q.counter - 1
        BY <1>3, <1>8, <2>1 DEF HalfDone
      <4> QED
        BY <1>3, <1>8, <1>9, <4>1
    <3>7. Untouched(q) \/ Inserting(q)
      BY <1>1, <3>5, <3>6 DEF ReadEvents
    <3> QED
      BY <1>7, <3>4, <3>7 DEF ReadEvents, Untouched, Inserting
  <2>2. CASE Complete(q) /\ q.submitCompletion
    <3>1. First(q) <= q.counter - 1 - 1 /\ q.completion = ReadIds(q) \ {First(q)}
      BY <1>3, <1>8, <1>9, <2>2 DEF Complete
    <3>2. ~half
      BY <1>3, <1>5, <1>8, <1>9, <3>1 DEF half
    <3>3. done = (ReadIds(q) \ {First(q)}) \cup {id}
      BY <3>1, <3>2 DEF done
    <3>4. ((First(q) .. q.counter - 1 - 1) \ {First(q)}) \cup {q.counter - 1}
            = (First(q) .. q.counter - 1) \ {First(q)}
      BY <1>3, <1>8, <3>1
    <3>5. r.completion = ReadIds(r) \ {First(r)} /\ r.submitCompletion
      BY <1>5, <1>7, <1>8, <1>9, <2>2, <3>3, <3>4
    <3>6. First(r) \in ReadIds(r)
      BY <1>3, <1>8, <1>9, <3>1
    <3> QED
      BY <1>7, <2>2, <3>5, <3>6 DEF ReadEvents, Complete
  <2>3. CASE HalfDone(q)
    <3>1. q.completion = {First(q)} /\ First(q) = q.counter - 1 /\ q.insertPending /\ ~q.insertDone
      BY <1>8, <2>3 DEF HalfDone
    <3>2. half /\ done = {}
      BY <1>5, <3>1 DEF half, done
    <3>3. ReadIds(r) = {First(r)}
      BY <1>3, <1>8, <1>9, <3>1
    <3> QED
      BY <1>7, <3>1, <3>2, <3>3 DEF ReadEvents, Complete
  <2> QED
    BY <1>1, <2>1, <2>2, <2>3 DEF ReadEvents, Untouched, Inserting
<1>13. PICK e : e = readQueue'
  OBVIOUS
<1>14. Read(e, k, sz, mv) /\ SameFront(e, r)
  <2>1. e = transferRead(r)
    BY <1>2, <1>13
  <2> QED
    BY ONLY <1>11, <2>1, TransferReadKeeps
<1>15. ReadEvents(e)
  BY <1>12, <1>14, FrontKept
<1>16. QED
  BY <1>2, <1>13, <1>14, <1>15, ReadStep DEF k, sz, mv

(* beginInsertRead() keeps the invariant.                                      *)
LEMMA BeginInsertRead ==
    ASSUME Inv, beginInsertRead
    PROVE  Inv'
<1> DEFINE k == Len(delivered["read"])
           sz == size["read"]
           mv == moved["read"]
<1>0. PICK q : q = readQueue
  OBVIOUS
<1> DEFINE r == [q EXCEPT !.beginTransfer = FALSE]
<1>1. /\ ReadEvents(q) /\ History(k, sz, mv) /\ q \in RQueue /\ Begins(q, q.insertPending)
      /\ Numbered(q) /\ Chain(q.wait, q.transfer, q.transferPending, k, sz, mv)
  BY <1>0, ReadFacts
<1>2. /\ q.beginTransfer /\ readQueue' = insertRead(r)
      /\ UNCHANGED <<writeQueue, size, moved, delivered>>
  BY <1>0 DEF beginInsertRead
<1> HIDE DEF k, sz, mv
<1>3. /\ r \in RQueue /\ r.wait = q.wait /\ r.transfer = q.transfer
      /\ r.insertPending = q.insertPending /\ r.insertDone = q.insertDone
      /\ r.transferPending = q.transferPending /\ r.beginTransfer = FALSE
      /\ r.submitCompletion = q.submitCompletion /\ r.counter = q.counter
      /\ r.completion = q.completion
  BY <1>1 DEF RQueue
<1> HIDE DEF r
<1>4. q.transfer # <<>>
  <2>1. q.transfer \in Seq(Pieces) /\ Len(q.transfer) >= 1
    BY <1>1, <1>2, LenProperties DEF Begins, RQueue
  <2> QED
    BY <2>1, EmptySeq
<1>5. PICK t : t = IF r.insertPending THEN r
                   ELSE [r EXCEPT !.insertPending = TRUE, !.insertDone = TRUE]
  OBVIOUS
<1>6. /\ t \in RQueue /\ t.wait = q.wait /\ t.transfer = q.transfer
      /\ t.insertPending = TRUE
      /\ t.insertDone = IF q.insertPending THEN q.insertDone ELSE TRUE
      /\ t.transferPending = q.transferPending /\ t.beginTransfer = FALSE
      /\ t.submitCompletion = q.submitCompletion /\ t.counter = q.counter
      /\ t.completion = q.completion
  <2>1. q.insertPending \in BOOLEAN
    BY <1>1 DEF RQueue
  <2>2. CASE q.insertPending
    BY <1>3, <1>5, <2>1, <2>2
  <2>3. CASE ~q.insertPending
    BY <1>3, <1>5, <2>3 DEF RQueue
  <2> QED
    BY <2>2, <2>3
<1>7. First(t) = First(q) /\ ReadIds(t) = ReadIds(q)
  BY <1>6 DEF First, ReadIds
<1>8. Read(t, k, sz, mv)
  <2>1. Numbered(t)
    BY <1>1, <1>6, <1>7 DEF Numbered
  <2>2. Begins(t, t.insertPending)
    BY <1>4, <1>6 DEF Begins
  <2> QED
    BY <1>1, <1>6, <2>1, <2>2 DEF Read
<1>9. ReadEvents(t)
  <2>1. Untouched(q) => Inserting(t)
    BY <1>6, <1>7 DEF Untouched, Inserting
  <2>2. Inserting(q) => Inserting(t)
    BY <1>6, <1>7 DEF Inserting
  <2>3. Complete(q) => Complete(t)
    BY <1>6, <1>7 DEF Complete
  <2>4. HalfDone(q) => HalfDone(t)
    BY <1>6, <1>7 DEF HalfDone
  <2> QED
    BY <1>1, <1>6, <2>1, <2>2, <2>3, <2>4 DEF ReadEvents
<1>10. readQueue' = t
  BY <1>2, <1>5 DEF insertRead
<1>11. QED
  BY <1>2, <1>8, <1>9, <1>10, ReadStep DEF k, sz, mv

(* The end of a piece, with and without a new request *)
LEMMA ReadFinishCases ==
    ASSUME NEW q, ReadFinish(q)
    PROVE  /\ UNCHANGED writeQueue
           /\ moved' = [moved EXCEPT !["read"] = Credited(Head(q.transfer), @)]
           /\ delivered' = IF Head(q.transfer).last
                           THEN [delivered EXCEPT !["read"] = Append(@, Head(q.transfer).req)]
                           ELSE delivered
           /\ \/ readQueue' = ReadDoneNext(q) /\ UNCHANGED size
              \/ /\ Requests < MaxRequests
                 /\ \E n \in Sizes :
                       /\ size' = [size EXCEPT !["read"] = Append(@, n)]
                       /\ readQueue' = ReadDoneNext(dmaRead(q, Len(size["read"]) + 1, n))
BY DEF ReadFinish, Finish, Credited

(* ReadFinish(): a piece is done, and its function may ask for more. *)
LEMMA ReadFinishKeeps ==
    ASSUME Inv, NEW q, ReadFinish(q),
           Read(q, Len(delivered["read"]), size["read"], moved["read"]),
           Complete(q), ~q.submitCompletion
    PROVE  Inv'
<1> DEFINE k == Len(delivered["read"])
           sz == size["read"]
           mv == moved["read"]
           f == q.transfer[1]
<1>1. Read(q, k, sz, mv)
  OBVIOUS
<1>2. q.transfer # <<>> /\ q.transfer \in Seq(Pieces)
  BY DEF Read, Begins, RQueue, Complete
<1>3. Head(q.transfer) = f /\ f \in Pieces
  BY <1>2, HeadTailProperties
<1>4. /\ UNCHANGED writeQueue
      /\ moved' = [moved EXCEPT !["read"] = Credited(f, @)]
      /\ delivered' = IF f.last THEN [delivered EXCEPT !["read"] = Append(@, f.req)]
                      ELSE delivered
      /\ \/ readQueue' = ReadDoneNext(q) /\ UNCHANGED size
         \/ /\ Requests < MaxRequests
            /\ \E n \in Sizes :
                  /\ size' = [size EXCEPT !["read"] = Append(@, n)]
                  /\ readQueue' = ReadDoneNext(dmaRead(q, Len(sz) + 1, n))
  BY <1>3, ReadFinishCases
<1>5. /\ Types /\ InOrder("write") /\ InOrder("read") /\ Writing
      /\ "write" \in Direction /\ "read" \in Direction /\ "read" # "write"
  BY DEF Inv, Direction
<1>6. PICK l, new : l = Counted(f, k) /\ new = Credited(f, mv)
  OBVIOUS
<1>7. /\ f.req = k + 1
      /\ Read(ReadDoneNext(q), l, sz, new) /\ ReadEvents(ReadDoneNext(q))
  BY ONLY <1>1, <1>6, Complete(q), ~q.submitCompletion, ReadDoneNextKeeps
<1>8. /\ delivered' \in [Direction -> Seq(1 .. MaxRequests)] /\ InOrder("read")'
      /\ moved' \in [Direction -> [1 .. MaxRequests -> Nat]]
      /\ moved'["read"] = new /\ Len(delivered'["read"]) = l
      /\ delivered'["write"] = delivered["write"] /\ moved'["write"] = moved["write"]
  <2> HIDE DEF f
  <2>1. f.req = Len(delivered["read"]) + 1
    BY <1>7
  <2>2. /\ Types /\ InOrder("read") /\ "read" \in Direction /\ f \in Pieces
        /\ moved' = [moved EXCEPT !["read"] = Credited(f, @)]
        /\ delivered' = IF f.last THEN [delivered EXCEPT !["read"] = Append(@, f.req)]
                        ELSE delivered
    BY ONLY <1>3, <1>4, <1>5
  <2>3. /\ delivered' \in [Direction -> Seq(1 .. MaxRequests)] /\ InOrder("read")'
        /\ moved' \in [Direction -> [1 .. MaxRequests -> Nat]]
        /\ moved'["read"] = Credited(f, moved["read"])
        /\ Len(delivered'["read"]) = Counted(f, Len(delivered["read"]))
        /\ \A e \in Direction : e # "read" =>
              delivered'[e] = delivered[e] /\ moved'[e] = moved[e]
    BY ONLY <2>1, <2>2, DeliverHistory
  <2>4. delivered'["write"] = delivered["write"] /\ moved'["write"] = moved["write"]
    BY ONLY <1>5, <2>3
  <2> QED
    BY ONLY <1>6, <2>3, <2>4
<1>9. /\ size' \in [Direction -> Seq(Sizes)] /\ Requests' <= MaxRequests
      /\ size'["write"] = size["write"]
      /\ Read(readQueue', l, size'["read"], new) /\ ReadEvents(readQueue')
  <2>1. CASE readQueue' = ReadDoneNext(q) /\ UNCHANGED size
    <3>1. size' \in [Direction -> Seq(Sizes)] /\ Requests' <= MaxRequests
      BY <1>5, <2>1 DEF Types, Requests
    <3> QED
      BY <1>7, <2>1, <3>1
  <2>2. CASE Requests < MaxRequests /\ \E n \in Sizes :
                  /\ size' = [size EXCEPT !["read"] = Append(@, n)]
                  /\ readQueue' = ReadDoneNext(dmaRead(q, Len(sz) + 1, n))
    <3>1. PICK n \in Sizes : /\ size' = [size EXCEPT !["read"] = Append(@, n)]
                             /\ readQueue' = ReadDoneNext(dmaRead(q, Len(sz) + 1, n))
      BY <2>2
    <3>2. /\ size' \in [Direction -> Seq(Sizes)] /\ Requests' <= MaxRequests
          /\ size'["read"] = Append(sz, n) /\ size'["write"] = size["write"]
      <4>1. /\ size' \in [Direction -> Seq(Sizes)] /\ Requests' <= MaxRequests
            /\ size'["read"] = Append(size["read"], n)
            /\ \A e \in Direction : e # "read" => size'[e] = size[e]
        BY ONLY n \in Sizes, <1>5, <2>2, <3>1, SubmitHistory
      <4> QED
        BY <1>5, <4>1
    <3>3. PICK p : p = AskRead(q, sz, n)
      OBVIOUS
    <3>4. Len(sz) < MaxRequests
      BY <1>5, <2>2, HistoryTypes
    <3>5. Read(p, k, Asked(sz, n), mv) /\ SameFront(p, q)
      BY ONLY n \in Sizes, <1>1, <3>3, <3>4, DmaReadKeeps
    <3>6. /\ Complete(p) /\ ~p.submitCompletion
          /\ l = Counted(p.transfer[1], k) /\ new = Credited(p.transfer[1], mv)
      <4>1. Complete(p)
        BY <3>5, FrontKept
      <4> QED
        BY <1>2, <1>6, <3>5, <4>1 DEF SameFront
    <3>7. Read(ReadDoneNext(p), l, Asked(sz, n), new) /\ ReadEvents(ReadDoneNext(p))
      BY ONLY <3>5, <3>6, ReadDoneNextKeeps
    <3> QED
      BY <3>1, <3>2, <3>3, <3>7 DEF AskRead, Asked
  <2> QED
    BY <1>4, <2>1, <2>2
<1>10. Types'
  BY <1>8, <1>9 DEF Types
<1>11. Reading'
  BY <1>8, <1>9 DEF Reading
<1>12. Writing' /\ InOrder("write")'
  BY <1>4, <1>5, <1>8, <1>9, WritingKept
<1>13. QED
  BY <1>8, <1>10, <1>11, <1>12 DEF Inv

(* insertReadDoneNext(), the tail of a finished read, keeps the invariant.     *)
LEMMA InsertReadDoneNext ==
    ASSUME Inv, insertReadDoneNext
    PROVE  Inv'
<1>1. PICK q : q = [readQueue EXCEPT !.submitCompletion = FALSE]
  OBVIOUS
<1>2. readQueue.submitCompletion /\ ReadFinish(q)
  BY <1>1 DEF insertReadDoneNext
<1>3. /\ q \in RQueue /\ q.wait = readQueue.wait /\ q.transfer = readQueue.transfer
      /\ q.insertPending = readQueue.insertPending /\ q.insertDone = readQueue.insertDone
      /\ q.transferPending = readQueue.transferPending
      /\ q.beginTransfer = readQueue.beginTransfer
      /\ q.submitCompletion = FALSE /\ q.counter = readQueue.counter
      /\ q.completion = readQueue.completion
  BY <1>1, ReadFacts DEF RQueue
<1>4. First(q) = First(readQueue) /\ ReadIds(q) = ReadIds(readQueue)
  BY <1>3 DEF First, ReadIds
<1>5. Complete(readQueue)
  BY <1>2, ReadFacts DEF ReadEvents, Untouched, Inserting, HalfDone
<1>6. Complete(q)
  BY <1>3, <1>4, <1>5 DEF Complete
<1>7. Read(q, Len(delivered["read"]), size["read"], moved["read"])
  <2>1. Numbered(q)
    BY <1>3, <1>4, ReadFacts DEF Numbered
  <2>2. Begins(q, q.insertPending)
    BY <1>3, ReadFacts DEF Begins
  <2> QED
    BY <1>3, <2>1, <2>2, ReadFacts DEF Read
<1>8. QED
  BY <1>2, <1>3, <1>6, <1>7, ReadFinishKeeps

(* insertReadDone() keeps the invariant.                                       *)
LEMMA InsertReadDone ==
    ASSUME Inv, insertReadDone
    PROVE  Inv'
<1> DEFINE k == Len(delivered["read"])
           sz == size["read"]
           mv == moved["read"]
<1>1. PICK id, q, p : /\ id = Head(readQueue.transfer).id
                      /\ q = [readQueue EXCEPT !.insertDone = FALSE]
                      /\ p = [q EXCEPT !.completion = @ \ {id}]
  OBVIOUS
<1>2. /\ readQueue.insertDone
      /\ \/ /\ id \notin q.completion
            /\ readQueue' = [q EXCEPT !.completion = @ \cup {id}]
            /\ UNCHANGED <<writeQueue, size, moved, delivered>>
         \/ id \in q.completion /\ ReadFinish(p)
         \/ /\ id \in q.completion
            /\ readQueue' = [p EXCEPT !.submitCompletion = TRUE]
            /\ UNCHANGED <<writeQueue, size, moved, delivered>>
  BY <1>1 DEF insertReadDone
<1>3. /\ q \in RQueue /\ q.wait = readQueue.wait /\ q.transfer = readQueue.transfer
      /\ q.insertPending = readQueue.insertPending /\ q.insertDone = FALSE
      /\ q.transferPending = readQueue.transferPending
      /\ q.beginTransfer = readQueue.beginTransfer
      /\ q.submitCompletion = readQueue.submitCompletion /\ q.counter = readQueue.counter
      /\ q.completion = readQueue.completion
  BY <1>1, ReadFacts DEF RQueue
<1>4. First(q) = First(readQueue) /\ ReadIds(q) = ReadIds(readQueue)
  BY <1>3 DEF First, ReadIds
<1>5. Numbered(q) /\ Begins(q, q.insertPending)
  BY <1>3, <1>4, ReadFacts DEF Numbered, Begins
<1>6. /\ q.completion = ReadIds(q) /\ q.insertPending /\ ~q.submitCompletion
  <2>1. Inserting(readQueue)
    BY <1>2, ReadFacts DEF ReadEvents, Untouched, Complete, HalfDone
  <2> QED
    BY <1>3, <1>4, <2>1 DEF Inserting
<1>7. /\ q.transfer # <<>> /\ q.transfer \in Seq(Pieces) /\ q.counter \in Nat
      /\ q.transferPending \in BOOLEAN /\ q.completion \in SUBSET Int
  BY <1>3, <1>5, <1>6 DEF Begins, RQueue
<1>8. /\ Len(q.transfer) \in Nat /\ Len(q.transfer) >= 1 /\ First(q) \in Nat
      /\ First(q) = q.counter - Len(q.transfer) /\ id = First(q)
  <2>1. Len(q.transfer) \in Nat /\ Len(q.transfer) >= 1
    BY <1>7, EmptySeq, LenProperties
  <2>2. Head(q.transfer) = q.transfer[1]
    BY <1>7, HeadTailProperties
  <2>3. q.transfer[1].id = First(q) + 1 - 1 /\ First(q) \in Nat
    BY <1>5, <2>1 DEF Numbered
  <2>4. id = First(q)
    BY <1>1, <1>3, <2>2, <2>3
  <2> QED
    BY <2>1, <2>3, <2>4 DEF First
<1>9. /\ History(k, sz, mv) /\ Chain(q.wait, q.transfer, q.transferPending, k, sz, mv)
  BY <1>3, ReadFacts
<1>10. ASSUME NEW e \in RQueue,
              e.wait = q.wait, e.transfer = q.transfer, e.insertPending = q.insertPending,
              e.transferPending = q.transferPending, e.beginTransfer = q.beginTransfer,
              e.counter = q.counter
       PROVE  Read(e, k, sz, mv) /\ First(e) = First(q) /\ ReadIds(e) = ReadIds(q)
  <2>1. First(e) = First(q) /\ ReadIds(e) = ReadIds(q)
    BY <1>10 DEF First, ReadIds
  <2>2. Numbered(e)
    BY <1>5, <1>10, <2>1 DEF Numbered
  <2>3. Begins(e, e.insertPending)
    BY <1>5, <1>10 DEF Begins
  <2> QED
    BY <1>9, <1>10, <2>1, <2>2, <2>3 DEF Read
<1>11. CASE /\ id \notin q.completion
            /\ readQueue' = [q EXCEPT !.completion = @ \cup {id}]
            /\ UNCHANGED <<writeQueue, size, moved, delivered>>
  <2>1. PICK e : e = readQueue'
    OBVIOUS
  <2>2. /\ e \in RQueue /\ e.wait = q.wait /\ e.transfer = q.transfer
        /\ e.insertPending = q.insertPending /\ e.transferPending = q.transferPending
        /\ e.beginTransfer = q.beginTransfer /\ e.counter = q.counter
        /\ e.insertDone = FALSE /\ e.submitCompletion = q.submitCompletion
        /\ e.completion = q.completion \cup {id}
    <3>1. q.completion \cup {id} \in SUBSET Int
      BY <1>7, <1>8
    <3>2. e = [q EXCEPT !.completion = q.completion \cup {id}]
      BY <1>11, <2>1
    <3> QED
      BY ONLY <1>3, <3>1, <3>2 DEF RQueue
  <2>3. Read(e, k, sz, mv) /\ First(e) = First(q) /\ ReadIds(e) = ReadIds(q)
    BY <1>10, <2>2
  <2>4. q.transferPending /\ Len(q.transfer) = 1 /\ ReadIds(q) = {}
    <3>1. PICK c \in {0, 1} : c = Claimed(q.transferPending) /\ (c = 1 <=> q.transferPending)
      BY DEF Claimed
    <3>2. ReadIds(q) = First(q) .. q.counter - 1 - c
      BY <3>1 DEF ReadIds
    <3>3. First(q) \notin First(q) .. q.counter - 1 - c
      BY <1>6, <1>8, <1>11, <3>2
    <3>4. First(q) > q.counter - 1 - c
      BY <1>7, <1>8, <3>3
    <3>5. c = 1 /\ Len(q.transfer) = 1
      <4>1. \A a, b \in Nat : b >= 1 /\ a - b > a - 1 - c => c = 1 /\ b = 1
        OBVIOUS
      <4>2. q.counter - Len(q.transfer) > q.counter - 1 - c
        BY <1>8, <3>4
      <4> QED
        BY <1>7, <1>8, <4>1, <4>2
    <3>6. First(q) .. q.counter - 1 - c = {}
      BY <1>7, <1>8, <3>4
    <3> QED
      BY <3>1, <3>2, <3>5, <3>6
  <2>5. HalfDone(e)
    BY <1>6, <1>8, <2>2, <2>3, <2>4 DEF HalfDone
  <2> QED
    BY <1>11, <2>1, <2>3, <2>5, ReadStep DEF ReadEvents
<1>12. ASSUME id \in q.completion
       PROVE  /\ p \in RQueue /\ p.wait = q.wait /\ p.transfer = q.transfer
              /\ p.insertPending = q.insertPending /\ p.transferPending = q.transferPending
              /\ p.beginTransfer = q.beginTransfer /\ p.counter = q.counter
              /\ p.insertDone = FALSE /\ p.submitCompletion = q.submitCompletion
              /\ p.completion = q.completion \ {id}
              /\ Read(p, k, sz, mv) /\ Complete(p)
  <2>1. /\ p \in RQueue /\ p.wait = q.wait /\ p.transfer = q.transfer
        /\ p.insertPending = q.insertPending /\ p.transferPending = q.transferPending
        /\ p.beginTransfer = q.beginTransfer /\ p.counter = q.counter
        /\ p.insertDone = FALSE /\ p.submitCompletion = q.submitCompletion
        /\ p.completion = q.completion \ {id}
    <3>1. q.completion \ {id} \in SUBSET Int
      BY <1>7
    <3>2. p = [q EXCEPT !.completion = q.completion \ {id}]
      BY <1>1
    <3> QED
      BY ONLY <1>3, <3>1, <3>2 DEF RQueue
  <2>2. Read(p, k, sz, mv) /\ First(p) = First(q) /\ ReadIds(p) = ReadIds(q)
    BY <1>10, <2>1
  <2>3. Complete(p)
    BY <1>6, <1>8, <1>12, <2>1, <2>2 DEF Complete
  <2> QED
    BY <2>1, <2>2, <2>3
<1>13. CASE id \in q.completion /\ ReadFinish(p)
  BY <1>6, <1>12, <1>13, ReadFinishKeeps
<1>14. CASE /\ id \in q.completion
            /\ readQueue' = [p EXCEPT !.submitCompletion = TRUE]
            /\ UNCHANGED <<writeQueue, size, moved, delivered>>
  <2>1. PICK e : e = readQueue'
    OBVIOUS
  <2>2. /\ e \in RQueue /\ e.wait = q.wait /\ e.transfer = q.transfer
        /\ e.insertPending = q.insertPending /\ e.transferPending = q.transferPending
        /\ e.beginTransfer = q.beginTransfer /\ e.counter = q.counter
        /\ e.insertDone = FALSE /\ e.submitCompletion = TRUE
        /\ e.completion = p.completion
    BY <1>12, <1>14, <2>1 DEF RQueue
  <2>3. Read(e, k, sz, mv) /\ First(e) = First(q) /\ ReadIds(e) = ReadIds(q)
    BY <1>10, <2>2
  <2>4. Complete(e)
    BY <1>6, <1>8, <1>12, <1>14, <2>2, <2>3 DEF Complete
  <2> QED
    BY <1>14, <2>1, <2>2, <2>3, <2>4, ReadStep DEF ReadEvents
<1>15. QED
  BY <1>2, <1>11, <1>13, <1>14

(* dmaRead() keeps the invariant. *)
LEMMA RequestRead ==
    ASSUME Inv, NEW n \in Sizes, Requests < MaxRequests,
           size' = [size EXCEPT !["read"] = Append(@, n)],
           readQueue' = dmaRead(readQueue, Len(size["read"]) + 1, n),
           UNCHANGED <<writeQueue, moved, delivered>>
    PROVE  Inv'
<1> DEFINE k == Len(delivered["read"])
           sz == size["read"]
           mv == moved["read"]
<1>1. Read(readQueue, k, sz, mv) /\ ReadEvents(readQueue)
  BY ReadFacts
<1>2. /\ Types /\ InOrder("write") /\ InOrder("read") /\ Writing
      /\ "write" \in Direction /\ "read" \in Direction /\ "read" # "write"
  BY DEF Inv, Direction
<1>3. /\ size' \in [Direction -> Seq(Sizes)] /\ Requests' <= MaxRequests
      /\ size'["read"] = Append(size["read"], n)
      /\ \A e \in Direction : e # "read" => size'[e] = size[e]
  BY ONLY n \in Sizes, Requests < MaxRequests, <1>2,
          size' = [size EXCEPT !["read"] = Append(@, n)], SubmitHistory
<1>4. Len(sz) < MaxRequests
  BY <1>2, HistoryTypes
<1>5. PICK p, q : q = readQueue /\ p = AskRead(q, sz, n)
  OBVIOUS
<1>6. Read(q, k, sz, mv) /\ ReadEvents(q) /\ readQueue' = p
  BY <1>1, <1>5 DEF AskRead
<1>7. Read(p, k, Asked(sz, n), mv) /\ SameFront(p, q)
  <2>1. p = AskRead(q, sz, n)
    BY <1>5
  <2> QED
    BY ONLY n \in Sizes, <1>4, <1>6, <2>1, DmaReadKeeps
<1>8. ReadEvents(p)
  BY <1>6, <1>7, FrontKept
<1>9. Reading'
  BY <1>3, <1>6, <1>7, <1>8 DEF Reading, Asked
<1>10. Types' /\ InOrder("read")'
  BY <1>2, <1>3 DEF Types, InOrder
<1>11. Writing' /\ InOrder("write")'
  BY <1>2, <1>3, WritingKept
<1>12. QED
  BY <1>9, <1>10, <1>11 DEF Inv

-----------------------------------------------------------------------------
(* The invariant *)

(* The empty queue is a chain.                                                 *)
LEMMA InitChain ==
    ASSUME NEW mv, mv = [r \in 1 .. MaxRequests |-> 0]
    PROVE  Chain(<<>>, <<>>, FALSE, 0, <<>>, mv) /\ History(0, <<>>, mv)
<1>1. Len(<<>>) = 0 /\ <<>> \in Seq(Sizes) /\ <<>> \in Seq(Pieces)
  BY EmptySeq
<1>2. mv \in [1 .. MaxRequests -> Nat] /\ (\A r \in 1 .. MaxRequests : mv[r] = 0)
  OBVIOUS
<1>3. Accounted(0, <<>>, mv)
  BY <1>1, <1>2 DEF Accounted
<1>4. PICK off : off = [i \in 1 .. 0 |-> 0]
  OBVIOUS
<1>5. Linked(<<>>, off, 0, <<>>, mv)
  <2>1. off \in [1 .. 0 -> Nat]
    BY <1>4
  <2> QED
    BY <1>1, <2>1 DEF Linked
<1>6. Waiting(<<>>, Claimed(FALSE), EndReq(<<>>, 0), EndOff(<<>>, off, 0, mv), <<>>)
  BY <1>1 DEF Waiting, Claimed, EndReq
<1>7. Chain(<<>>, <<>>, FALSE, 0, <<>>, mv)
  BY <1>3, <1>5, <1>6, Zenon DEF Chain
<1>8. 0 \in Nat /\ 0 <= MaxRequests
  BY Constants
<1>9. Len(<<>>) <= MaxRequests
  BY <1>1, <1>8, Zenon
<1>10. QED
  BY <1>1, <1>2, <1>7, <1>8, <1>9, Zenon DEF History

(* The queues start in order.                                                  *)
LEMMA InitInv == Init => Inv
<1> SUFFICES ASSUME Init PROVE Inv
  OBVIOUS
<1> DEFINE mv == [r \in 1 .. MaxRequests |-> 0]
<1>1. /\ moved["read"] = mv /\ moved["write"] = mv
      /\ moved \in [Direction -> [1 .. MaxRequests -> Nat]]
  BY DEF Init, Each, Direction
<1>2. /\ size["read"] = <<>> /\ size["write"] = <<>>
      /\ delivered["read"] = <<>> /\ delivered["write"] = <<>>
      /\ size \in [Direction -> Seq(Sizes)]
      /\ delivered \in [Direction -> Seq(1 .. MaxRequests)]
  BY DEF Init, Each, Direction
<1>3. Chain(<<>>, <<>>, FALSE, 0, <<>>, mv) /\ History(0, <<>>, mv)
  BY InitChain
<1>4. Len(<<>>) = 0 /\ <<>> \in Seq(Pieces)
  BY EmptySeq
<1> HIDE DEF mv
<1>5. Types
  <2>1. Len(size["read"]) = 0 /\ Len(size["write"]) = 0
    BY <1>2, <1>4, Zenon
  <2>2. Len(size["read"]) + Len(size["write"]) <= MaxRequests
    BY ONLY <2>1, Constants
  <2> QED
    BY <1>1, <1>2, <2>2, Zenon DEF Types, Requests
<1>6. InOrder("read") /\ InOrder("write")
  BY <1>2, <1>4 DEF InOrder
<1>7. Writing
  <2>1. /\ writeQueue \in WQueue /\ writeQueue.wait = <<>> /\ writeQueue.transfer = <<>>
        /\ writeQueue.insertPending = FALSE /\ writeQueue.transferPending = FALSE
        /\ writeQueue.beginTransfer = FALSE /\ writeQueue.upstream = FALSE
        /\ writeQueue.submitCompletion = FALSE
    BY <1>4 DEF Init, WQueue
  <2> QED
    BY <1>1, <1>2, <1>3, <1>4, <2>1 DEF Writing, Write, Begins, WriteEvents
<1>8. Reading
  <2>1. /\ readQueue \in RQueue /\ readQueue.wait = <<>> /\ readQueue.transfer = <<>>
        /\ readQueue.insertPending = FALSE /\ readQueue.transferPending = FALSE
        /\ readQueue.beginTransfer = FALSE /\ readQueue.insertDone = FALSE
        /\ readQueue.submitCompletion = FALSE /\ readQueue.counter = 0
        /\ readQueue.completion = {}
    BY <1>4 DEF Init, RQueue
  <2>2. First(readQueue) = 0 /\ ReadIds(readQueue) = {}
    <3>1. /\ readQueue.counter = 0 /\ Len(readQueue.transfer) = 0
          /\ Claimed(readQueue.transferPending) = 0
      BY <1>4, <2>1 DEF Claimed
    <3>2. \A a, b, c \in Int : a = 0 /\ b = 0 /\ c = 0 => a - b = 0 /\ a - b .. a - 1 - c = {}
      OBVIOUS
    <3> QED
      BY ONLY <3>1, <3>2 DEF First, ReadIds
  <2>3. Numbered(readQueue)
    BY <1>4, <2>1, <2>2 DEF Numbered
  <2>4. Untouched(readQueue)
    BY <2>1, <2>2 DEF Untouched
  <2> QED
    BY <1>1, <1>2, <1>3, <1>4, <2>1, <2>3, <2>4 DEF Reading, Read, Begins, ReadEvents
<1>9. QED
  BY <1>5, <1>6, <1>7, <1>8 DEF Inv

(* Every event keeps it. *)
LEMMA NextInv == Inv /\ [Next]_vars => Inv'
<1> SUFFICES ASSUME Inv, [Next]_vars PROVE Inv'
  OBVIOUS
<1>1. ASSUME NEW dir \in Direction, NEW n \in Sizes, request(dir, n)
      PROVE  Inv'
  <2>1. CASE dir = "write"
    BY <1>1, <2>1, RequestWrite DEF request
  <2>2. CASE dir = "read"
    BY <1>1, <2>2, RequestRead DEF request
  <2> QED
    BY <1>1, <2>1, <2>2 DEF Direction
<1>2. CASE WriteEvent
  BY <1>2, InsertWriteDone, BeginTransferWrite, TransferWriteDone, TransferWriteDoneNext
  DEF WriteEvent
<1>3. CASE ReadEvent
  BY <1>3, TransferReadDone, BeginInsertRead, InsertReadDone, InsertReadDoneNext
  DEF ReadEvent
<1>4. CASE UNCHANGED vars
  BY <1>4 DEF vars, Inv, Types, Requests, InOrder, Writing, Reading
<1>5. QED
  BY <1>1, <1>2, <1>3, <1>4 DEF Next

-----------------------------------------------------------------------------
(* What a step adds to the history of a direction: at most a new request,  *)
(* and at most the end of the first one that is not delivered.             *)
HistoryStep(d) ==
    /\ size'[d] = size[d] \/ \E n \in Sizes : size'[d] = Append(size[d], n)
    /\ \/ delivered'[d] = delivered[d]
       \/ /\ Len(delivered[d]) < Len(size[d])
          /\ delivered'[d] = Append(delivered[d], Len(delivered[d]) + 1)

(* The front of the transfer queue is the first request not delivered. *)
LEMMA FirstPiece ==
    ASSUME NEW wait, NEW transfer \in Seq(Pieces), NEW front, NEW k \in Nat,
           NEW sz \in Seq(Sizes), NEW mv,
           Chain(wait, transfer, front, k, sz, mv), transfer # <<>>
    PROVE  Head(transfer).req = k + 1 /\ k < Len(sz)
<1>1. PICK off : Linked(transfer, off, k, sz, mv)
  BY DEF Chain
<1>2. Head(transfer) = transfer[1] /\ Len(transfer) \in Nat /\ Len(transfer) > 0
  BY HeadTailProperties, LenProperties, EmptySeq
<1>3. transfer[1].req = k + 1 /\ transfer[1].req <= Len(sz)
  BY <1>1, <1>2 DEF Linked
<1>4. Len(sz) \in Nat
  BY LenProperties
<1>5. QED
  BY <1>2, <1>3, <1>4

(* A step that delivers nothing and asks for nothing is a stutter of both      *)
(* channels.                                                                   *)
LEMMA QuietStep ==
    ASSUME UNCHANGED <<size, delivered>>
    PROVE  HistoryStep("write") /\ HistoryStep("read")
BY DEF HistoryStep

(* A new request is a Submit of its channel.                                   *)
LEMMA SubmitStep ==
    ASSUME Inv, NEW d \in Direction, NEW n \in Sizes,
           size' = [size EXCEPT ![d] = Append(@, n)], UNCHANGED delivered
    PROVE  HistoryStep("write") /\ HistoryStep("read")
<1>1. size \in [Direction -> Seq(Sizes)] /\ "write" \in Direction /\ "read" \in Direction
      /\ (d = "write" \/ d = "read")
  BY DEF Inv, Types, Direction
<1>2. QED
  BY <1>1 DEF HistoryStep

(* A finished write piece delivers its request if it is the last one of it,   *)
(* and may submit the next one; the other channel stutters.                *)
LEMMA WriteFinishStep ==
    ASSUME Inv, NEW q, WriteFinish(q), q.transfer = writeQueue.transfer, q.transfer # <<>>
    PROVE  HistoryStep("write") /\ HistoryStep("read")
<1> DEFINE f == Head(q.transfer)
<1>1. /\ size \in [Direction -> Seq(Sizes)]
      /\ delivered \in [Direction -> Seq(1 .. MaxRequests)]
      /\ "write" \in Direction /\ "read" \in Direction /\ "read" # "write"
  BY DEF Inv, Types, Direction
<1>2. f.req = Len(delivered["write"]) + 1 /\ Len(delivered["write"]) < Len(size["write"])
  <2>1. /\ q.transfer \in Seq(Pieces) /\ Len(delivered["write"]) \in Nat
        /\ size["write"] \in Seq(Sizes)
        /\ Chain(writeQueue.wait, q.transfer, writeQueue.insertPending,
                 Len(delivered["write"]), size["write"], moved["write"])
    BY WriteFacts DEF WQueue, History
  <2> QED
    BY <2>1, FirstPiece
<1>3. /\ delivered' = IF f.last THEN [delivered EXCEPT !["write"] = Append(@, f.req)]
                      ELSE delivered
      /\ \/ UNCHANGED size
         \/ \E n \in Sizes : size' = [size EXCEPT !["write"] = Append(@, n)]
  BY WriteFinishCases
<1> HIDE DEF f
<1>4. /\ size'["read"] = size["read"]
      /\ size'["write"] = size["write"]
         \/ \E n \in Sizes : size'["write"] = Append(size["write"], n)
  BY <1>1, <1>3
<1>5. /\ delivered'["read"] = delivered["read"]
      /\ delivered'["write"] = delivered["write"]
         \/ delivered'["write"] = Append(delivered["write"], f.req)
  BY <1>1, <1>3
<1>6. QED
  BY <1>2, <1>4, <1>5 DEF HistoryStep

(* A finished read piece delivers its request if it is the last one of it,   *)
(* and may submit the next one; the other channel stutters.                *)
LEMMA ReadFinishStep ==
    ASSUME Inv, NEW q, ReadFinish(q), q.transfer = readQueue.transfer, q.transfer # <<>>
    PROVE  HistoryStep("write") /\ HistoryStep("read")
<1> DEFINE f == Head(q.transfer)
<1>1. /\ size \in [Direction -> Seq(Sizes)]
      /\ delivered \in [Direction -> Seq(1 .. MaxRequests)]
      /\ "write" \in Direction /\ "read" \in Direction /\ "read" # "write"
  BY DEF Inv, Types, Direction
<1>2. f.req = Len(delivered["read"]) + 1 /\ Len(delivered["read"]) < Len(size["read"])
  <2>1. /\ q.transfer \in Seq(Pieces) /\ Len(delivered["read"]) \in Nat
        /\ size["read"] \in Seq(Sizes)
        /\ Chain(readQueue.wait, q.transfer, readQueue.transferPending,
                 Len(delivered["read"]), size["read"], moved["read"])
    BY ReadFacts DEF RQueue, History
  <2> QED
    BY <2>1, FirstPiece
<1>3. /\ delivered' = IF f.last THEN [delivered EXCEPT !["read"] = Append(@, f.req)]
                      ELSE delivered
      /\ \/ UNCHANGED size
         \/ \E n \in Sizes : size' = [size EXCEPT !["read"] = Append(@, n)]
  BY ReadFinishCases
<1> HIDE DEF f
<1>4. /\ size'["write"] = size["write"]
      /\ size'["read"] = size["read"]
         \/ \E n \in Sizes : size'["read"] = Append(size["read"], n)
  BY <1>1, <1>3
<1>5. /\ delivered'["write"] = delivered["write"]
      /\ delivered'["read"] = delivered["read"]
         \/ delivered'["read"] = Append(delivered["read"], f.req)
  BY <1>1, <1>3
<1>6. QED
  BY <1>2, <1>4, <1>5 DEF HistoryStep

(* Every step of the queues is a step or a stutter of both channels.           *)
LEMMA NextHistory ==
    ASSUME Inv, [Next]_vars
    PROVE  HistoryStep("write") /\ HistoryStep("read")
<1>1. ASSUME NEW dir \in Direction, NEW n \in Sizes, request(dir, n)
      PROVE  HistoryStep("write") /\ HistoryStep("read")
  BY <1>1, SubmitStep DEF request
<1>2. CASE transferWriteDone
  <2>1. PICK q : q = [writeQueue EXCEPT !.upstream = FALSE]
    OBVIOUS
  <2>2. writeQueue.upstream /\ (WriteFinish(q) \/ UNCHANGED <<size, delivered>>)
    BY <1>2, <2>1 DEF transferWriteDone, WriteFinish, Finish
  <2>3. q.transfer = writeQueue.transfer /\ q.transfer # <<>>
    BY <2>1, <2>2, WriteFacts DEF WQueue, WriteEvents, Begins
  <2> QED
    BY <2>2, <2>3, WriteFinishStep, QuietStep
<1>3. CASE transferWriteDoneNext
  <2>1. PICK q : q = [writeQueue EXCEPT !.submitCompletion = FALSE]
    OBVIOUS
  <2>2. writeQueue.submitCompletion /\ WriteFinish(q)
    BY <1>3, <2>1 DEF transferWriteDoneNext
  <2>3. q.transfer = writeQueue.transfer /\ q.transfer # <<>>
    BY <2>1, <2>2, WriteFacts DEF WQueue, WriteEvents, Begins
  <2> QED
    BY <2>2, <2>3, WriteFinishStep
<1>4. CASE insertReadDone
  <2>1. PICK id, q, p : /\ id = Head(readQueue.transfer).id
                        /\ q = [readQueue EXCEPT !.insertDone = FALSE]
                        /\ p = [q EXCEPT !.completion = @ \ {id}]
    OBVIOUS
  <2>2. readQueue.insertDone /\ (ReadFinish(p) \/ UNCHANGED <<size, delivered>>)
    BY <1>4, <2>1 DEF insertReadDone
  <2>3. readQueue.insertPending
    BY <2>2, ReadFacts DEF ReadEvents, Untouched, Inserting, Complete, HalfDone
  <2>4. p.transfer = readQueue.transfer /\ p.transfer # <<>>
    BY <2>1, <2>3, ReadFacts DEF RQueue, Begins
  <2> QED
    BY <2>2, <2>4, ReadFinishStep, QuietStep
<1>5. CASE insertReadDoneNext
  <2>1. PICK q : q = [readQueue EXCEPT !.submitCompletion = FALSE]
    OBVIOUS
  <2>2. readQueue.submitCompletion /\ ReadFinish(q)
    BY <1>5, <2>1 DEF insertReadDoneNext
  <2>3. readQueue.insertPending
    BY <2>2, ReadFacts DEF ReadEvents, Untouched, Inserting, Complete, HalfDone
  <2>4. q.transfer = readQueue.transfer /\ q.transfer # <<>>
    BY <2>1, <2>3, ReadFacts DEF RQueue, Begins
  <2> QED
    BY <2>2, <2>4, ReadFinishStep
<1>6. CASE insertWriteDone \/ beginTransferWrite \/ transferReadDone \/ beginInsertRead
  BY <1>6, QuietStep DEF insertWriteDone, beginTransferWrite, transferReadDone, beginInsertRead
<1>7. CASE UNCHANGED vars
  BY <1>7, QuietStep DEF vars
<1>8. QED
  BY <1>1, <1>2, <1>3, <1>4, <1>5, <1>6, <1>7 DEF Next, WriteEvent, ReadEvent

-----------------------------------------------------------------------------
(* A handler takes the front of a queue only when there is one: every      *)
(* event that is scheduled, and every transfer under way, has its piece,   *)
(* whatever the sizes of the requests and the order of the events.         *)
THEOREM FrontAlwaysExists == Spec => []FrontExists
<1>1. Inv => FrontExists
  <2> SUFFICES ASSUME Inv PROVE FrontExists
    OBVIOUS
  <2>1. /\ writeQueue.insertPending => writeQueue.wait # <<>>
        /\ readQueue.transferPending => readQueue.wait # <<>>
    BY WriteFacts, ReadFacts DEF Chain
  <2>2. writeQueue.transferPending => writeQueue.transfer # <<>>
    BY WriteFacts DEF Begins
  <2>3. readQueue.insertPending => readQueue.transfer # <<>>
    BY ReadFacts DEF Begins
  <2>4. writeQueue.beginTransfer => writeQueue.transfer # <<>>
    <3>1. writeQueue.beginTransfer => Len(writeQueue.transfer) >= 1
      BY WriteFacts, LenProperties DEF Begins, WQueue
    <3> QED
      BY <3>1, EmptySeq
  <2>5. readQueue.beginTransfer => readQueue.transfer # <<>>
    <3>1. readQueue.beginTransfer => Len(readQueue.transfer) >= 1
      BY ReadFacts, LenProperties DEF Begins, RQueue
    <3> QED
      BY <3>1, EmptySeq
  <2>6. /\ writeQueue.submitCompletion => writeQueue.transfer # <<>>
        /\ writeQueue.upstream => writeQueue.transfer # <<>>
    BY <2>2, WriteFacts DEF WriteEvents
  <2>7. /\ readQueue.submitCompletion => readQueue.transfer # <<>>
        /\ readQueue.insertDone => readQueue.transfer # <<>>
    BY <2>3, ReadFacts DEF ReadEvents, Untouched, Inserting, Complete, HalfDone
  <2> QED
    BY <2>1, <2>4, <2>5, <2>6, <2>7 DEF FrontExists
<1>2. QED
  BY <1>1, InitInv, NextInv, PTL DEF Spec

(* Both directions finish every request at most once, in the order of the  *)
(* requests and with all its bytes: the safety of what Delivered says.     *)
THEOREM DeliversInOrder == Spec => Writes!Safety /\ Reads!Safety /\ []Whole
<1>1. Init => Writes!Init /\ Reads!Init
  <2>1. Len(<<>>) = 0
    BY EmptySeq
  <2> QED
    BY <2>1 DEF Init, Each, Direction, Writes!Init, Reads!Init
<1>2. ASSUME Inv, [Next]_vars, Inv'
      PROVE  [Writes!Next]_(Writes!vars) /\ [Reads!Next]_(Reads!vars)
  <2>1. HistoryStep("write") /\ HistoryStep("read")
    BY <1>2, NextHistory
  <2>2. "write" \in Direction /\ "read" \in Direction
    BY DEF Direction
  <2>3. \A d \in Direction : size[d] \in Seq(Sizes) /\ Len(size'[d]) <= MaxRequests
    <3>1. \A d \in Direction : size[d] \in Seq(Sizes)
      BY <1>2 DEF Inv, Types
    <3>2. History(Len(delivered["write"]), size["write"], moved["write"])'
      BY <1>2 DEF Inv, Writing, Write
    <3>3. History(Len(delivered["read"]), size["read"], moved["read"])'
      BY <1>2 DEF Inv, Reading, Read
    <3> QED
      BY <3>1, <3>2, <3>3 DEF Direction, History
  <2>4. \A d \in Direction : HistoryStep(d) =>
           /\ Len(size'[d]) \in {Len(size[d]), Len(size[d]) + 1}
           /\ \/ delivered'[d] = delivered[d]
              \/ /\ Len(delivered[d]) < Len(size[d])
                 /\ delivered'[d] = Append(delivered[d], Len(delivered[d]) + 1)
    BY <2>3, AppendProperties DEF HistoryStep
  <2>5. [Writes!Next]_(Writes!vars)
    BY <2>1, <2>2, <2>3, <2>4 DEF Writes!Next, Writes!Deliver, Writes!MaySubmit, Writes!vars
  <2>6. [Reads!Next]_(Reads!vars)
    BY <2>1, <2>2, <2>3, <2>4 DEF Reads!Next, Reads!Deliver, Reads!MaySubmit, Reads!vars
  <2> QED
    BY <2>5, <2>6
<1>3. Inv => Whole
  <2> SUFFICES ASSUME Inv, NEW d \in Direction, NEW i \in DOMAIN delivered[d]
               PROVE  moved[d][delivered[d][i]] = size[d][delivered[d][i]]
    BY DEF Whole
  <2>1. delivered[d] \in Seq(1 .. MaxRequests)
    BY DEF Inv, Types
  <2>2. i \in 1 .. Len(delivered[d])
    BY <2>1, LenProperties
  <2>3. InOrder(d) /\ Accounted(Len(delivered[d]), size[d], moved[d])
    BY WriteFacts, ReadFacts DEF Inv, Chain, Direction
  <2>4. delivered[d][i] = i /\ moved[d][i] = size[d][i]
    BY <2>2, <2>3 DEF InOrder, Accounted
  <2> QED
    BY <2>4
<1>4. QED
  BY <1>1, <1>2, <1>3, InitInv, NextInv, PTL DEF Spec, Writes!Safety, Reads!Safety
=============================================================================

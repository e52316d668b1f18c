--------------------------- MODULE HostPathProofs ---------------------------
(***************************************************************************)
(* Proofs about the host side of the simulator, for every trace, depth,    *)
(* number of firmware cores and latency, and in all five modes.            *)
(***************************************************************************)
EXTENDS HostPath, ListLemmas

-----------------------------------------------------------------------------
(* The event queue *)

(* An event queue in order, with every event in it once at most and none   *)
(* before a tick; the events in it.                                        *)
Ordered(q, evs, lo) ==
    /\ q \in Seq([ev : evs, tick : Nat])
    /\ \A i, j \in 1 .. Len(q) : i <= j => q[i].tick <= q[j].tick
    /\ \A i, j \in 1 .. Len(q) : q[i].ev = q[j].ev => i = j
    /\ \A i \in 1 .. Len(q) : lo <= q[i].tick

Events(q) == {q[i] : i \in 1 .. Len(q)}

(* The events when one is set to a tick *)
Moved(E, e, tick) == {x \in E : x.ev # e} \cup {[ev |-> e, tick |-> tick]}

(* Members of a queue in order *)
LEMMA QueueMember ==
    ASSUME NEW evs, NEW lo, NEW q, Ordered(q, evs, lo)
    PROVE  /\ Len(q) \in Nat /\ DOMAIN q = 1 .. Len(q)
           /\ \A i \in 1 .. Len(q) : q[i] \in [ev : evs, tick : Nat] /\ q[i] \in Events(q)
           /\ \A i \in 1 .. Len(q) : q[i].tick \in Nat /\ q[i].ev \in evs
           /\ \A x \in Events(q) : \E i \in 1 .. Len(q) : q[i] = x
<1>1. q \in Seq([ev : evs, tick : Nat])
  BY DEF Ordered
<1>2. PICK S : S = [ev : evs, tick : Nat]
  OBVIOUS
<1>3. Len(q) \in Nat /\ DOMAIN q = 1 .. Len(q) /\ \A i \in 1 .. Len(q) : q[i] \in S
  BY ONLY <1>1, <1>2, LenProperties, ElementOfSeq
<1>4. \A x \in S : x.tick \in Nat /\ x.ev \in evs
  BY <1>2
<1>5. QED
  BY <1>2, <1>3, <1>4 DEF Events

(* A queue without one of its events *)
Emptier(r, q, evs, lo, e) == Ordered(r, evs, lo) /\ Events(r) = {x \in Events(q) : x.ev # e}

(* RemoveAt() takes one event out of a queue that stays in order. *)
LEMMA RemoveOrdered ==
    ASSUME NEW evs, NEW lo \in Nat, NEW q, Ordered(q, evs, lo), NEW k \in 1 .. Len(q),
           NEW r, r = RemoveAt(q, k)
    PROVE  Emptier(r, q, evs, lo, q[k].ev)
<1>0. PICK n \in Nat : n = Len(q)
  BY QueueMember
<1>1. q \in Seq([ev : evs, tick : Nat]) /\ k \in 1 .. n
  BY <1>0 DEF Ordered
<1>2. /\ r \in Seq([ev : evs, tick : Nat]) /\ Len(r) = n - 1
      /\ \A j \in 1 .. n - 1 : r[j] = IF j < k THEN q[j] ELSE q[j+1]
  BY ONLY <1>0, <1>1, RemoveAtSeq, r = RemoveAt(q, k)
<1> DEFINE P(j) == IF j < k THEN j ELSE j + 1
<1>3. \A j \in 1 .. n - 1 : P(j) \in 1 .. n /\ P(j) # k /\ r[j] = q[P(j)]
  BY ONLY <1>1, <1>2, n \in Nat
<1>4. \A i, j \in 1 .. n - 1 : (i <= j => P(i) <= P(j)) /\ (P(i) = P(j) => i = j)
  BY <1>1
<1>5. \A m \in 1 .. n : m # k => \E j \in 1 .. n - 1 : P(j) = m
  <2> SUFFICES ASSUME NEW m \in 1 .. n, m # k PROVE \E j \in 1 .. n - 1 : P(j) = m
    OBVIOUS
  <2>1. CASE m < k
    <3>1. m \in 1 .. n - 1 /\ P(m) = m
      BY <1>1, <2>1
    <3> QED
      BY <3>1
  <2>2. CASE m > k
    <3>1. m - 1 \in 1 .. n - 1 /\ P(m - 1) = m
      BY <1>1, <2>2
    <3> QED
      BY <3>1
  <2> QED
    BY <2>1, <2>2
<1>a. /\ \A i, j \in 1 .. n : i <= j => q[i].tick <= q[j].tick
      /\ \A i, j \in 1 .. n : q[i].ev = q[j].ev => i = j
      /\ \A i \in 1 .. n : lo <= q[i].tick
  BY <1>0 DEF Ordered
<1> HIDE DEF P
<1>6. Ordered(r, evs, lo)
  <2>1. ASSUME NEW i \in 1 .. n - 1, NEW j \in 1 .. n - 1
        PROVE  /\ i <= j => r[i].tick <= r[j].tick
               /\ r[i].ev = r[j].ev => i = j
    <3>1. /\ P(i) \in 1 .. n /\ P(j) \in 1 .. n /\ r[i] = q[P(i)] /\ r[j] = q[P(j)]
          /\ (i <= j => P(i) <= P(j)) /\ (P(i) = P(j) => i = j)
      BY ONLY <1>3, <1>4, i \in 1 .. n - 1, j \in 1 .. n - 1
    <3> QED
      BY ONLY <1>a, <3>1
  <2>2. /\ \A i, j \in 1 .. n - 1 : i <= j => r[i].tick <= r[j].tick
        /\ \A i, j \in 1 .. n - 1 : r[i].ev = r[j].ev => i = j
    BY ONLY <2>1
  <2>3. \A i \in 1 .. n - 1 : lo <= r[i].tick
    BY ONLY <1>3, <1>a
  <2> QED
    BY <1>2, <2>1, <2>2, <2>3 DEF Ordered
<1>7. Events(r) = {x \in Events(q) : x.ev # q[k].ev}
  <2>1. ASSUME NEW x \in Events(r)
        PROVE  x \in Events(q) /\ x.ev # q[k].ev
    <3>1. PICK j \in 1 .. n - 1 : x = r[j]
      BY <1>2 DEF Events
    <3>2. P(j) \in 1 .. n /\ P(j) # k /\ x = q[P(j)]
      BY <1>3, <3>1
    <3> QED
      BY <1>0, <3>2 DEF Events, Ordered
  <2>2. ASSUME NEW x \in Events(q), x.ev # q[k].ev
        PROVE  x \in Events(r)
    <3>1. PICK m \in 1 .. n : x = q[m]
      BY <1>0 DEF Events
    <3>2. m # k
      BY <2>2, <3>1
    <3>3. PICK j \in 1 .. n - 1 : P(j) = m
      BY <1>5, <3>2
    <3>4. x = r[j]
      BY <1>3, <3>1, <3>3
    <3> QED
      BY <1>2, <3>4 DEF Events
  <2> QED
    BY <2>1, <2>2
<1>8. QED
  BY <1>6, <1>7 DEF Emptier

(* A queue with an event put in where its tick belongs *)
Belongs(q, k, e, tick) ==
    /\ \A x \in Events(q) : x.ev # e
    /\ \A i \in 1 .. Len(q) : i < k => q[i].tick <= tick
    /\ \A i \in 1 .. Len(q) : i >= k => tick <= q[i].tick

Grown(r, q, evs, lo, y) == Ordered(r, evs, lo) /\ Events(r) = Events(q) \cup {y}

(* An event inserted where it belongs leaves the queue ordered.            *)
LEMMA PutOrdered ==
    ASSUME NEW evs, NEW lo \in Nat, NEW q, Ordered(q, evs, lo), NEW k \in 1 .. Len(q) + 1,
           NEW e \in evs, NEW tick \in Nat, lo <= tick, Belongs(q, k, e, tick),
           NEW y \in [ev : evs, tick : Nat], y.ev = e, y.tick = tick,
           NEW r, r = InsertAt(q, k, y)
    PROVE  Grown(r, q, evs, lo, y)
<1>0. PICK n \in Nat : n = Len(q)
  BY QueueMember
<1>1. q \in Seq([ev : evs, tick : Nat]) /\ k \in 1 .. n + 1 /\ y \in [ev : evs, tick : Nat]
  BY <1>0 DEF Ordered
<1>2. /\ r \in Seq([ev : evs, tick : Nat]) /\ Len(r) = n + 1
      /\ \A j \in 1 .. n + 1 : r[j] = IF j < k THEN q[j] ELSE IF j = k THEN y ELSE q[j-1]
  <2>1. PICK S : S = [ev : evs, tick : Nat]
    OBVIOUS
  <2>2. r = InsertAt(q, k, y) /\ k \in 1 .. Len(q) + 1
    OBVIOUS
  <2>3. q \in Seq(S) /\ y \in S
    BY <1>1, <2>1
  <2>4. PutAt(r, q, k, y, S)
    BY ONLY <2>2, <2>3, PutAtSeq
  <2> QED
    BY ONLY <1>0, <2>1, <2>4 DEF PutAt
<1>3. /\ \A i \in 1 .. n : q[i].ev # e /\ q[i].tick \in Nat
      /\ \A i \in 1 .. n : i < k => q[i].tick <= tick
      /\ \A i \in 1 .. n : i >= k => tick <= q[i].tick
  BY <1>0, QueueMember DEF Belongs
<1>4. y.ev = e /\ y.tick = tick
  OBVIOUS
<1>a. /\ \A i, j \in 1 .. n : i <= j => q[i].tick <= q[j].tick
      /\ \A i, j \in 1 .. n : q[i].ev = q[j].ev => i = j
      /\ \A i \in 1 .. n : lo <= q[i].tick
  BY <1>0 DEF Ordered
<1>b. k \in 1 .. n + 1
  BY <1>1
<1>c. \A j \in 1 .. n + 1 : r[j] = IF j < k THEN q[j] ELSE IF j = k THEN y ELSE q[j-1]
  BY <1>2
<1>d. Len(r) = n + 1
  BY <1>2
<1>5. ASSUME NEW j \in 1 .. n + 1
      PROVE  \/ j < k /\ j \in 1 .. n /\ r[j] = q[j]
             \/ j = k /\ r[j] = y
             \/ j > k /\ j - 1 \in 1 .. n /\ r[j] = q[j-1]
  BY ONLY <1>b, <1>c, n \in Nat, j \in 1 .. n + 1
<1>6. \A i, j \in 1 .. n + 1 : i <= j => r[i].tick <= r[j].tick
  <2> SUFFICES ASSUME NEW i \in 1 .. n + 1, NEW j \in 1 .. n + 1, i <= j
               PROVE  r[i].tick <= r[j].tick
    OBVIOUS
  <2>1. CASE i < k /\ i \in 1 .. n /\ r[i] = q[i]
    <3>1. q[i].tick <= tick
      BY <1>3, <2>1
    <3>2. CASE j < k /\ j \in 1 .. n /\ r[j] = q[j]
      BY <1>a, <2>1, <3>2
    <3>3. CASE j = k /\ r[j] = y
      BY <1>4, <2>1, <3>1, <3>3
    <3>4. CASE j > k /\ j - 1 \in 1 .. n /\ r[j] = q[j-1]
      <4>1. i <= j - 1
        BY <2>1, <3>4
      <4> QED
        BY <1>a, <2>1, <3>4, <4>1
    <3> QED
      BY <1>5, <3>2, <3>3, <3>4
  <2>2. CASE i = k /\ r[i] = y
    <3>1. CASE j = k
      BY <1>4, <2>2, <3>1
    <3>2. CASE j > k /\ j - 1 \in 1 .. n /\ r[j] = q[j-1]
      <4>1. j - 1 >= k
        BY <2>2, <3>2
      <4> QED
        BY <1>3, <1>4, <2>2, <3>2, <4>1
    <3>3. j = k \/ (j > k /\ j - 1 \in 1 .. n /\ r[j] = q[j-1])
      BY ONLY <1>b, <1>5, <2>2, n \in Nat, i \in 1 .. n + 1, j \in 1 .. n + 1, i <= j
    <3> QED
      BY <3>1, <3>2, <3>3
  <2>3. CASE i > k /\ i - 1 \in 1 .. n /\ r[i] = q[i-1]
    <3>1. j > k /\ j - 1 \in 1 .. n /\ r[j] = q[j-1] /\ i - 1 <= j - 1
      BY ONLY <1>b, <1>5, <2>3, n \in Nat, i \in 1 .. n + 1, j \in 1 .. n + 1, i <= j
    <3> QED
      BY <1>a, <2>3, <3>1
  <2> QED
    BY <1>5, <2>1, <2>2, <2>3
<1>7. \A i, j \in 1 .. n + 1 : r[i].ev = r[j].ev => i = j
  <2> SUFFICES ASSUME NEW i \in 1 .. n + 1, NEW j \in 1 .. n + 1, r[i].ev = r[j].ev
               PROVE  i = j
    OBVIOUS
  <2>1. CASE i < k /\ i \in 1 .. n /\ r[i] = q[i]
    <3>2. CASE j < k /\ j \in 1 .. n /\ r[j] = q[j]
      BY <1>a, <2>1, <3>2
    <3>3. CASE j = k /\ r[j] = y
      BY <1>3, <1>4, <2>1, <3>3
    <3>4. CASE j > k /\ j - 1 \in 1 .. n /\ r[j] = q[j-1]
      <4>1. i # j - 1
        BY <2>1, <3>4
      <4> QED
        BY <1>a, <2>1, <3>4, <4>1
    <3> QED
      BY <1>5, <3>2, <3>3, <3>4
  <2>2. CASE i = k /\ r[i] = y
    <3>1. CASE j < k /\ j \in 1 .. n /\ r[j] = q[j]
      BY <1>3, <1>4, <2>2, <3>1
    <3>2. CASE j > k /\ j - 1 \in 1 .. n /\ r[j] = q[j-1]
      BY <1>3, <1>4, <2>2, <3>2
    <3> QED
      BY <1>5, <2>2, <3>1, <3>2
  <2>3. CASE i > k /\ i - 1 \in 1 .. n /\ r[i] = q[i-1]
    <3>1. CASE j < k /\ j \in 1 .. n /\ r[j] = q[j]
      <4>1. i - 1 # j
        BY <2>3, <3>1
      <4> QED
        BY <1>a, <2>3, <3>1, <4>1
    <3>2. CASE j = k /\ r[j] = y
      BY <1>3, <1>4, <2>3, <3>2
    <3>3. CASE j > k /\ j - 1 \in 1 .. n /\ r[j] = q[j-1]
      <4>1. i - 1 = j - 1
        BY <1>a, <2>3, <3>3
      <4> QED
        BY <4>1
    <3> QED
      BY <1>5, <3>1, <3>2, <3>3
  <2> QED
    BY <1>5, <2>1, <2>2, <2>3
<1>8. \A i \in 1 .. n + 1 : lo <= r[i].tick
  BY <1>4, <1>5, <1>a
<1>9. Ordered(r, evs, lo)
  BY <1>2, <1>6, <1>7, <1>8 DEF Ordered
<1>10. Events(r) = Events(q) \cup {y}
  <2>1. ASSUME NEW x \in Events(r)
        PROVE  x \in Events(q) \cup {y}
    <3>1. PICK j \in 1 .. n + 1 : x = r[j]
      BY <1>2 DEF Events
    <3> QED
      BY <1>0, <1>5, <3>1 DEF Events
  <2>2. ASSUME NEW m \in 1 .. n
        PROVE  q[m] \in Events(r)
    <3>1. CASE m < k
      <4>1. m \in 1 .. n + 1 /\ r[m] = q[m]
        BY ONLY <1>b, <1>c, <3>1, n \in Nat, m \in 1 .. n
      <4> QED
        BY ONLY <1>d, <4>1 DEF Events
    <3>2. CASE m >= k
      <4>0. m + 1 \in 1 .. n + 1 /\ m + 1 > k /\ (m + 1) - 1 = m
        BY <1>1, <3>2
      <4>1. m + 1 \in 1 .. n + 1 /\ r[m+1] = q[m]
        BY ONLY <1>b, <1>c, <4>0, n \in Nat, m \in 1 .. n
      <4> QED
        BY ONLY <1>d, <4>1 DEF Events
    <3> QED
      BY <3>1, <3>2
  <2>3. y \in Events(r)
    <3>1. r[k] = y
      BY ONLY <1>b, <1>c, n \in Nat
    <3> QED
      BY ONLY <1>b, <1>d, <3>1 DEF Events
  <2>4. Events(q) \subseteq Events(r)
    BY ONLY <1>0, <2>2 DEF Events
  <2>5. Events(r) \subseteq Events(q) \cup {y}
    BY ONLY <2>1
  <2> QED
    BY ONLY <2>3, <2>4, <2>5
<1>11. QED
  BY <1>9, <1>10 DEF Grown

(* What insertEvent() leaves: the event is at its tick, the others are     *)
(* where they were.                                                        *)
Scheduled(r, q, evs, lo, e, tick) ==
    Ordered(r, evs, lo) /\ Events(r) = Moved(Events(q), e, tick)

(* insertEvent() moves an event to its new tick and leaves all others as   *)
(* they are, in order.                                                     *)
LEMMA InsertEventSound ==
    ASSUME NEW evs, NEW lo \in Nat, NEW q, Ordered(q, evs, lo),
           NEW e \in evs, NEW tick \in Nat, lo <= tick,
           NEW r, r = insertEvent(q, e, tick)
    PROVE  Scheduled(r, q, evs, lo, e, tick)
<1> DEFINE y == [ev |-> e, tick |-> tick]
           old == {i \in DOMAIN q : q[i].ev = e}
           k == CHOOSE i \in old : TRUE
           others == IF old = {} THEN q ELSE RemoveAt(q, k)
           later == {i \in DOMAIN others : others[i].tick > tick}
           at == IF later = {} THEN Len(others) + 1
                 ELSE CHOOSE i \in later : \A j \in later : i <= j
<1>1. r = IF \E i \in DOMAIN q : q[i] = y THEN q ELSE InsertAt(others, at, y)
  BY DEF insertEvent
<1>2. /\ Len(q) \in Nat /\ DOMAIN q = 1 .. Len(q)
      /\ \A i \in 1 .. Len(q) : q[i] \in Events(q)
      /\ \A x \in Events(q) : \E i \in 1 .. Len(q) : q[i] = x
      /\ \A i, j \in 1 .. Len(q) : q[i].ev = q[j].ev => i = j
  BY QueueMember DEF Ordered
<1>3. CASE \E i \in DOMAIN q : q[i] = y
  <2>1. PICK i \in 1 .. Len(q) : q[i] = y
    BY <1>2, <1>3
  <2>2. y \in Events(q) /\ y.ev = e
    BY <1>2, <2>1
  <2>3. \A x \in Events(q) : x.ev = e => x = y
    BY <1>2, <2>1, <2>2
  <2> HIDE DEF y
  <2>4. Events(q) = {x \in Events(q) : x.ev # e} \cup {y}
    BY ONLY <2>2, <2>3
  <2>5. r = q
    BY <1>1, <1>3
  <2> QED
    BY <2>4, <2>5 DEF Scheduled, Moved, y
<1>4. CASE ~ \E i \in DOMAIN q : q[i] = y
  <2>1. r = InsertAt(others, at, y)
    BY <1>1, <1>4
  <2>2. Ordered(others, evs, lo) /\ Events(others) = {x \in Events(q) : x.ev # e}
    <3>1. CASE old = {}
      <4>1. \A x \in Events(q) : x.ev # e
        BY <1>2, <3>1
      <4>2. Events(q) = {x \in Events(q) : x.ev # e}
        BY ONLY <4>1
      <4> QED
        BY <3>1, <4>2
    <3>2. CASE old # {}
      <4>1. k \in 1 .. Len(q) /\ q[k].ev = e
        BY <1>2, <3>2
      <4>2. others = RemoveAt(q, k)
        BY <3>2
      <4> HIDE DEF k, others
      <4>3. Emptier(others, q, evs, lo, q[k].ev)
        BY ONLY <4>1, <4>2, RemoveOrdered, Ordered(q, evs, lo), lo \in Nat
      <4>4. Emptier(others, q, evs, lo, e)
        BY ONLY <4>1, <4>3, Zenon
      <4> QED
        BY ONLY <4>4 DEF Emptier
    <3> QED
      BY <3>1, <3>2
  <2> HIDE DEF others
  <2>3. PICK n \in Nat : n = Len(others) /\ DOMAIN others = 1 .. n
    BY <2>2, QueueMember
  <2>4. \A i \in 1 .. n : others[i].tick \in Nat
    BY <2>2, <2>3, QueueMember
  <2>5. \A i, j \in 1 .. n : i <= j => others[i].tick <= others[j].tick
    BY <2>2, <2>3 DEF Ordered
  <2>6. /\ at \in 1 .. n + 1
        /\ \A i \in 1 .. n : i < at => others[i].tick <= tick
        /\ \A i \in 1 .. n : i >= at => tick <= others[i].tick
    <3>1. CASE later = {}
      <4>1. at = n + 1
        BY <2>3, <3>1
      <4>2. \A i \in 1 .. n : ~(others[i].tick > tick)
        BY <2>3, <3>1
      <4> HIDE DEF at, later
      <4>3. \A i \in 1 .. n : others[i].tick <= tick
        BY <2>4, <4>2
      <4> QED
        BY ONLY <4>1, <4>3, n \in Nat
    <3>2. CASE later # {}
      <4>1. later \subseteq Nat /\ later \subseteq 1 .. n
        BY <2>3
      <4>2. at = Min(later)
        BY <3>2 DEF Min
      <4> HIDE DEF at
      <4>3. at \in later /\ \A j \in later : at <= j
        BY <3>2, <4>1, <4>2, MinOfNat
      <4>4. at \in 1 .. n /\ others[at].tick > tick
        BY <2>3, <4>3
      <4>5. \A i \in 1 .. n : i < at => ~(others[i].tick > tick)
        BY <2>3, <4>1, <4>3
      <4>6. \A i \in 1 .. n : i < at => others[i].tick <= tick
        BY <2>4, <4>5
      <4>7. \A i \in 1 .. n : i >= at => tick <= others[i].tick
        <5> SUFFICES ASSUME NEW i \in 1 .. n, i >= at PROVE tick <= others[i].tick
          OBVIOUS
        <5>1. others[at].tick <= others[i].tick /\ others[i].tick \in Nat /\ others[at].tick \in Nat
          BY <2>4, <2>5, <4>4
        <5> QED
          BY <4>4, <5>1
      <4> QED
        BY ONLY <4>4, <4>6, <4>7, n \in Nat
    <3> QED
      BY <3>1, <3>2
  <2> HIDE DEF at, y
  <2>7. \A x \in Events(others) : x.ev # e
    BY <2>2
  <2>8. Ordered(r, evs, lo) /\ Events(r) = Events(others) \cup {y}
    <3>1. at \in 1 .. Len(others) + 1 /\ Belongs(others, at, e, tick)
      BY <2>3, <2>6, <2>7 DEF Belongs
    <3>2. y \in [ev : evs, tick : Nat] /\ y.ev = e /\ y.tick = tick
      BY DEF y
    <3>3. Grown(r, others, evs, lo, y)
      BY ONLY <2>1, <2>2, <3>1, <3>2, PutOrdered, lo \in Nat, e \in evs, tick \in Nat, lo <= tick
    <3> QED
      BY <3>3 DEF Grown
  <2>9. Events(r) = Moved(Events(q), e, tick)
    BY ONLY <2>2, <2>8 DEF Moved, y
  <2> QED
    BY ONLY <2>8, <2>9 DEF Scheduled
<1>5. QED
  BY <1>3, <1>4

(* scheduleEvent() for a tick of the present or the future *)
LEMMA ScheduleSound ==
    ASSUME NEW evs, NEW lo \in Nat, NEW q, Ordered(q, evs, lo),
           NEW e \in evs, NEW tick \in Nat, NEW current \in Nat, lo <= current, current <= tick,
           NEW r, r = scheduleEvent(q, e, tick, current)
    PROVE  Scheduled(r, q, evs, lo, e, tick)
<1>1. r = insertEvent(q, e, tick) /\ lo <= tick
  BY DEF scheduleEvent
<1>2. QED
  BY <1>1, InsertEventSound

(* scheduleEvent() for any tick *)
LEMMA ScheduleAny ==
    ASSUME NEW evs, NEW lo \in Nat, NEW q, Ordered(q, evs, lo),
           NEW e \in evs, NEW tick \in Nat, NEW current \in Nat, lo <= current,
           NEW r, r = scheduleEvent(q, e, tick, current)
    PROVE  \E t \in Nat : current <= t /\ Scheduled(r, q, evs, lo, e, t)
<1>1. CASE tick < current
  <2>1. r = insertEvent(q, e, current)
    BY <1>1 DEF scheduleEvent
  <2>2. Scheduled(r, q, evs, lo, e, current)
    BY <2>1, InsertEventSound
  <2> QED
    BY <2>2
<1>2. CASE ~(tick < current)
  <2>1. Scheduled(r, q, evs, lo, e, tick)
    BY <1>2, ScheduleSound
  <2> QED
    BY <1>2, <2>1
<1>3. QED
  BY <1>1, <1>2

(* doNextEvent() takes the first event; no other is before it. *)
Popped(q, evs) ==
    /\ Head(q) \in Events(q) /\ Head(q) \in [ev : evs, tick : Nat]
    /\ Ordered(Tail(q), evs, Head(q).tick)
    /\ Events(Tail(q)) = {x \in Events(q) : x.ev # Head(q).ev}
    /\ \A x \in Events(q) : Head(q).tick <= x.tick
    /\ \A x \in Events(q) : x.ev = Head(q).ev => x = Head(q)

(* The first event is the earliest one and the only entry of its kind.     *)
LEMMA PopSound ==
    ASSUME NEW evs, NEW lo \in Nat, NEW q, Ordered(q, evs, lo), q # <<>>
    PROVE  Popped(q, evs) /\ lo <= Head(q).tick
<1>1. PICK n \in Nat : n = Len(q) /\ DOMAIN q = 1 .. n
  BY QueueMember
<1>2. PICK S : S = [ev : evs, tick : Nat]
  OBVIOUS
<1>3. q \in Seq(S)
  BY <1>2 DEF Ordered
<1>4. n > 0
  BY <1>1, <1>3, EmptySeq
<1>5. Head(q) = q[1] /\ 1 \in 1 .. n
  BY <1>3, <1>4, HeadTailProperties
<1>6. /\ Tail(q) \in Seq(S) /\ Len(Tail(q)) = n - 1
      /\ \A i \in 1 .. n - 1 : Tail(q)[i] = q[i+1]
  BY <1>1, <1>3, <1>4, HeadTailProperties
<1>7. /\ \A i, j \in 1 .. n : i <= j => q[i].tick <= q[j].tick
      /\ \A i, j \in 1 .. n : q[i].ev = q[j].ev => i = j
      /\ \A i \in 1 .. n : lo <= q[i].tick
  BY <1>1 DEF Ordered
<1>8. \A i \in 1 .. n : q[i] \in S /\ q[i] \in Events(q) /\ q[i].tick \in Nat
  BY <1>1, <1>2, QueueMember
<1>9. \A i \in 1 .. n - 1 : i + 1 \in 1 .. n /\ Tail(q)[i] = q[i+1] /\ i + 1 # 1
  BY ONLY <1>6, n \in Nat
<1>10. Ordered(Tail(q), evs, Head(q).tick)
  <2>1. \A i, j \in 1 .. n - 1 : i <= j => Tail(q)[i].tick <= Tail(q)[j].tick
    <3> SUFFICES ASSUME NEW i \in 1 .. n - 1, NEW j \in 1 .. n - 1, i <= j
                 PROVE  q[i+1].tick <= q[j+1].tick
      BY <1>9
    <3>1. i + 1 \in 1 .. n /\ j + 1 \in 1 .. n /\ i + 1 <= j + 1
      OBVIOUS
    <3> QED
      BY ONLY <1>7, <3>1
  <2>2. \A i, j \in 1 .. n - 1 : Tail(q)[i].ev = Tail(q)[j].ev => i = j
    <3> SUFFICES ASSUME NEW i \in 1 .. n - 1, NEW j \in 1 .. n - 1, q[i+1].ev = q[j+1].ev
                 PROVE  i = j
      BY <1>9
    <3>1. i + 1 \in 1 .. n /\ j + 1 \in 1 .. n
      OBVIOUS
    <3>2. i + 1 = j + 1
      BY ONLY <1>7, <3>1, q[i+1].ev = q[j+1].ev
    <3> QED
      BY <3>2
  <2>3. \A i \in 1 .. n - 1 : Head(q).tick <= Tail(q)[i].tick
    <3> SUFFICES ASSUME NEW i \in 1 .. n - 1 PROVE q[1].tick <= q[i+1].tick
      BY <1>5, <1>9
    <3>1. 1 \in 1 .. n /\ i + 1 \in 1 .. n /\ 1 <= i + 1
      BY <1>4
    <3> QED
      BY ONLY <1>7, <3>1
  <2> QED
    BY <1>2, <1>6, <2>1, <2>2, <2>3 DEF Ordered
<1>11. Events(Tail(q)) = {x \in Events(q) : x.ev # Head(q).ev}
  <2>1. ASSUME NEW x \in Events(Tail(q))
        PROVE  x \in Events(q) /\ x.ev # Head(q).ev
    <3>1. PICK i \in 1 .. n - 1 : x = Tail(q)[i]
      BY <1>6 DEF Events
    <3>2. PICK j \in 1 .. n : j # 1 /\ x = q[j]
      BY <1>9, <3>1
    <3> QED
      BY <1>5, <1>7, <1>8, <3>2
  <2>2. ASSUME NEW x \in Events(q), x.ev # Head(q).ev
        PROVE  x \in Events(Tail(q))
    <3>1. PICK j \in 1 .. n : x = q[j]
      BY <1>1 DEF Events
    <3>2. j # 1
      BY <1>5, <2>2, <3>1
    <3>3. PICK i \in 1 .. n - 1 : j = i + 1
      <4>1. j - 1 \in 1 .. n - 1 /\ j = (j - 1) + 1
        BY <3>2
      <4> QED
        BY <4>1
    <3>4. x = Tail(q)[i]
      BY <1>9, <3>1, <3>3
    <3> QED
      BY <1>6, <3>4 DEF Events
  <2> QED
    BY <2>1, <2>2
<1>12. ASSUME NEW x \in Events(q)
       PROVE  Head(q).tick <= x.tick /\ (x.ev = Head(q).ev => x = Head(q))
  <2>1. PICK j \in 1 .. n : x = q[j]
    BY <1>1 DEF Events
  <2> QED
    BY <1>5, <1>7, <2>1
<1>13. QED
  BY <1>2, <1>5, <1>7, <1>8, <1>10, <1>11, <1>12 DEF Popped

-----------------------------------------------------------------------------
(* The inductive invariant.  Its parts are stated for a configuration k,   *)
(* the values of the variables they are about, and a set E of events.      *)

CoreOf(k) == 1 .. k.cores
IdsOf(k)  == 1 .. IF k.mode \in TraceModes THEN Len(k.trace) ELSE Volume + 1
EvsOf(k)  == {Start, Submit, Complete} \cup {Job(c) : c \in CoreOf(k)}
RequestOf(k) == [id : IdsOf(k), finishedAt : Nat]

(* The HIL at tick t with jobs j and completion queue c: a core that is to *)
(* finish a job has one, and no completion is late.                        *)
HilTypes(k, j, c, last, E, t) ==
    /\ j \in [CoreOf(k) -> Seq(IdsOf(k))] /\ c \subseteq RequestOf(k)
    /\ last \in Nat /\ t \in Nat
    /\ \A d \in CoreOf(k) : \A x \in E : x.ev = Job(d) => j[d] # <<>>
    /\ \A r \in c : t <= r.finishedAt

(* Between events: the completion event is at the first completion, which  *)
(* is the tick that updateCompletion() last asked for.                     *)
HilIdle(k, j, c, last, E, t) ==
    /\ HilTypes(k, j, c, last, E, t)
    /\ \A x \in E : x.ev = Complete => x.tick = last /\ c # {}
    /\ c = {} => last <= t
    /\ c # {} => last = First(c) /\ [ev |-> Complete, tick |-> First(c)] \in E

(* In the loop of completion(): the event is gone. *)
HilBusy(k, j, c, last, E, t) ==
    /\ HilTypes(k, j, c, last, E, t)
    /\ \A x \in E : x.ev # Complete
    /\ last = t

(* When a submission is scheduled for a tick, the depth has room for it,   *)
(* nothing is put aside, and a generated run has not had its volume.       *)
MayIssue(k, p, d, b, tick) ==
    /\ IF k.mode = "sync" THEN d = 0 ELSE d < k.depth
    /\ b = NoBackup
    /\ k.mode = "size" => p < Volume
    /\ k.mode = "time" => p <= Volume /\ p <= tick

(* The counts of the generator, and the submissions it has scheduled *)
GenState(k, p, d, b) ==
    /\ p \in Nat /\ d \in Nat /\ b \in Nat \cup {NoBackup}
    /\ d <= IF k.mode = "sync" THEN 1 ELSE k.depth
    /\ k.mode # "strict" => b = NoBackup
    /\ k.mode \in TraceModes => p <= Len(k.trace)

Pending(k, p, d, b, E) ==
    /\ \A x \in E : x.ev = Start => p = 0 /\ \A y \in E : y.ev # Submit
    /\ \A x \in E : x.ev \in {Start, Submit} => MayIssue(k, p, d, b, x.tick)

(* Where the requests are *)
AtCores(k, j)   == UNION {{j[c][i] : i \in DOMAIN j[c]} : c \in CoreOf(k)}
IdsIn(c)        == {r.id : r \in c}
DroppedOf(k, s) == IF k.mode \in TraceModes
                   THEN {i \in IdsOf(k) : k.trace[i].op = "unknown" /\ s[i] # -1}
                   ELSE {}

Distinct(k, j) ==
    \A x, y \in CoreOf(k) : \A a \in DOMAIN j[x], b \in DOMAIN j[y] :
        j[x][a] = j[y][b] => x = y /\ a = b

Accounts(k, j, c, io, s, p) ==
    /\ s \in [IdsOf(k) -> Nat \cup {-1}]
    /\ io \subseteq IdsOf(k) /\ io \subseteq 1 .. p
    /\ io = AtCores(k, j) \cup IdsIn(c) \cup DroppedOf(k, s)
    /\ Distinct(k, j) /\ \A x, y \in c : x.id = y.id => x = y
    /\ AtCores(k, j) \cap IdsIn(c) = {}
    /\ (AtCores(k, j) \cup IdsIn(c)) \cap DroppedOf(k, s) = {}
    /\ \A i \in IdsOf(k) : s[i] # -1 => i <= p

(* All lines that a replay was to read *)
AllRead(k, p) == k.mode \in TraceModes => p = Len(k.trace) \/ p = k.limit

Ending ==
    /\ reserveTermination => AllRead(conf, pos)
    /\ \/ ends = 0 /\ forceStop = FALSE
       \/ ends = 1 /\ forceStop = TRUE /\ ioQueue = {} /\ AllRead(conf, pos)

Flags ==
    /\ conf \in Configuration /\ panic = "no"
    /\ running \in BOOLEAN /\ reserveTermination \in BOOLEAN /\ nextIOIsSync \in BOOLEAN
    /\ nextIOIsSync => conf.mode = "async"
    /\ conf.mode = "time" => pos <= now + 1

Inv ==
    /\ Flags /\ Ending
    /\ Ordered(queue, EvsOf(conf), now)
    /\ IF running
       THEN HilBusy(conf, jobs, completionQueue, lastScheduled, Events(queue), now)
       ELSE HilIdle(conf, jobs, completionQueue, lastScheduled, Events(queue), now)
    /\ GenState(conf, pos, io_depth, pBackup)
    /\ Pending(conf, pos, io_depth, pBackup, Events(queue))
    /\ Accounts(conf, jobs, completionQueue, ioQueue, submittedAt, pos)
    /\ io_depth = Cardinality(ioQueue)

-----------------------------------------------------------------------------
(* What the assumptions say of the constants and of a configuration *)
LEMMA Constants ==
    /\ Volume \in Nat /\ Volume > 0 /\ JobLatency \in Nat /\ JobLatency > 0
    /\ SubmissionLatency \in Nat /\ SubmissionLatency > 0
    /\ CompletionLatency \in Nat /\ CompletionLatency > 0
    /\ \A l \in Latency : l \in Nat /\ l > 0
<1>1. /\ Volume \in Nat \ {0} /\ JobLatency \in Nat \ {0} /\ SubmissionLatency \in Nat \ {0}
      /\ CompletionLatency \in Nat \ {0} /\ Latency \subseteq Nat \ {0}
  BY HostAssumption
<1>2. QED
  BY <1>1

(* What the assumptions on the constants say of one configuration.         *)
LEMMA Configured ==
    ASSUME NEW k \in Configuration
    PROVE  /\ k.mode \in TraceModes \cup RequestModes /\ k.depth \in Nat /\ k.depth > 0
           /\ k.cores \in Nat /\ Len(k.trace) \in Nat
           /\ \A n \in 1 .. Len(k.trace) : k.trace[n].tick - k.trace[1].tick \in Nat
           /\ \A n \in 1 .. Len(k.trace) : k.trace[n].op \in {"known", "unknown"}
<1>1. k.mode \in Modes /\ k.depth \in Depths /\ k.cores \in CoreCounts /\ k.trace \in Traces
  BY DEF Configuration
<1>2. /\ k.mode \in TraceModes \cup RequestModes /\ k.depth \in Nat /\ k.depth > 0
      /\ k.cores \in Nat
  <2>1. /\ Modes \subseteq TraceModes \cup RequestModes /\ Depths \subseteq Nat \ {0}
        /\ CoreCounts \subseteq Nat
    BY HostAssumption
  <2>2. k.depth \in Nat \ {0}
    BY ONLY <1>1, <2>1
  <2>3. k.depth \in Nat /\ k.depth > 0
    BY ONLY <2>2
  <2>4. k.mode \in TraceModes \cup RequestModes /\ k.cores \in Nat
    BY ONLY <1>1, <2>1
  <2> QED
    BY ONLY <2>3, <2>4
<1>3. PICK S : S = [tick : Nat, op : {"known", "unknown"}]
  OBVIOUS
<1>4. k.trace \in Seq(S)
  BY <1>1, <1>3, HostAssumption
<1>5. PICK n \in Nat : n = Len(k.trace) /\ DOMAIN k.trace = 1 .. n
  BY <1>4, LenProperties
<1>6. \A i \in 1 .. n : k.trace[i] \in S
  BY ONLY <1>4, <1>5, ElementOfSeq
<1>7. \A x \in S : x.tick \in Nat /\ x.op \in {"known", "unknown"}
  BY <1>3
<1>8. \A i, j \in 1 .. n : i < j => k.trace[i].tick <= k.trace[j].tick
  BY <1>1, <1>5, HostAssumption
<1>9. ASSUME NEW i \in 1 .. n
      PROVE  k.trace[i].tick - k.trace[1].tick \in Nat
  <2>1. k.trace[i].tick \in Nat /\ k.trace[1].tick \in Nat
    BY <1>6, <1>7
  <2>2. k.trace[1].tick <= k.trace[i].tick
    <3>1. CASE i = 1
      BY <2>1, <3>1
    <3>2. CASE i # 1
      <4>1. 1 < i /\ 1 \in 1 .. n
        BY <3>2
      <4> QED
        BY <1>8, <4>1
    <3> QED
      BY <3>1, <3>2
  <2> QED
    BY <2>1, <2>2
<1>10. QED
  BY <1>2, <1>5, <1>6, <1>7, <1>9

(* The events are different. *)
LEMMA EventNames ==
    /\ Start # Submit /\ Start # Complete /\ Submit # Complete
    /\ \A c : Job(c) # Start /\ Job(c) # Submit /\ Job(c) # Complete
    /\ \A c, d : Job(c) = Job(d) => c = d
BY DEF Start, Submit, Complete, Job

(* The events of a configuration are the two of the generator, the         *)
(* completion event and one for each core.                                 *)
LEMMA EventsOf ==
    ASSUME NEW k
    PROVE  /\ Start \in EvsOf(k) /\ Submit \in EvsOf(k) /\ Complete \in EvsOf(k)
           /\ \A c \in CoreOf(k) : Job(c) \in EvsOf(k)
           /\ \A e \in EvsOf(k) : \/ e = Start \/ e = Submit \/ e = Complete
                                  \/ \E c \in CoreOf(k) : e = Job(c)
BY DEF EvsOf

(* The first completion *)
LEMMA FirstOf ==
    ASSUME NEW c, \A r \in c : r.finishedAt \in Nat, c # {}
    PROVE  /\ First(c) \in Nat /\ \E r \in c : r.finishedAt = First(c)
           /\ \A r \in c : First(c) <= r.finishedAt
<1> DEFINE S == {r.finishedAt : r \in c}
<1>1. S \subseteq Nat /\ S # {}
  OBVIOUS
<1>2. Min(S) \in S /\ \A y \in S : Min(S) <= y
  BY <1>1, MinOfNat
<1>3. \A r \in c : Min(S) <= r.finishedAt
  BY <1>2
<1>4. \E t \in S : \A r \in c : t <= r.finishedAt
  BY <1>2, <1>3
<1>5. First(c) \in S /\ \A r \in c : First(c) <= r.finishedAt
  BY ONLY <1>4 DEF First
<1>6. QED
  BY <1>1, <1>5

-----------------------------------------------------------------------------
(* The HIL *)

(* The HIL does not look at the events of the generator. *)
LEMMA HilMoved ==
    ASSUME NEW k, NEW j, NEW c, NEW last, NEW E, NEW t, NEW tick
    PROVE  /\ HilIdle(k, j, c, last, E, t) =>
                 HilIdle(k, j, c, last, Moved(E, Submit, tick), t)
           /\ HilBusy(k, j, c, last, E, t) =>
                 HilBusy(k, j, c, last, Moved(E, Submit, tick), t)
<1> DEFINE F == Moved(E, Submit, tick)
<1>1. \A x \in F : x.ev # Submit => x \in E
  BY DEF Moved
<1>2. \A x \in E : x.ev # Submit => x \in F
  BY DEF Moved
<1> HIDE DEF F
<1>3. HilTypes(k, j, c, last, E, t) => HilTypes(k, j, c, last, F, t)
  BY <1>1, EventNames DEF HilTypes
<1>4. (\A x \in E : x.ev # Complete) => \A x \in F : x.ev # Complete
  BY <1>1, EventNames
<1>5. ASSUME HilIdle(k, j, c, last, E, t) PROVE HilIdle(k, j, c, last, F, t)
  <2>1. \A x \in F : x.ev = Complete => x.tick = last /\ c # {}
    BY <1>1, <1>5, EventNames DEF HilIdle
  <2>2. c # {} => last = First(c) /\ [ev |-> Complete, tick |-> First(c)] \in E
    BY <1>5 DEF HilIdle
  <2>3. [ev |-> Complete, tick |-> First(c)].ev # Submit
    BY EventNames
  <2>4. c # {} => last = First(c) /\ [ev |-> Complete, tick |-> First(c)] \in F
    BY <1>2, <2>2, <2>3
  <2> QED
    BY <1>3, <1>5, <2>1, <2>4 DEF HilIdle
<1>6. QED
  BY <1>3, <1>4, <1>5 DEF HilBusy, F

(* Another event is taken: time comes to no completion. *)
LEMMA HilPopped ==
    ASSUME NEW k, NEW j, NEW c, NEW last, NEW E, NEW t, HilIdle(k, j, c, last, E, t),
           NEW h \in E, h.tick \in Nat, t <= h.tick, h.ev # Complete,
           \A x \in E : h.tick <= x.tick,
           NEW F, F = {x \in E : x.ev # h.ev}
    PROVE  HilIdle(k, j, c, last, F, h.tick)
<1>1. HilTypes(k, j, c, last, E, t)
  BY DEF HilIdle
<1>2. \A r \in c : r.finishedAt \in Nat
  BY <1>1 DEF HilTypes, RequestOf
<1>3. c = {} => last <= h.tick
  BY <1>1 DEF HilIdle, HilTypes
<1>4. c # {} => last = First(c) /\ [ev |-> Complete, tick |-> First(c)] \in F
  <2>1. [ev |-> Complete, tick |-> First(c)].ev # h.ev
    OBVIOUS
  <2> QED
    BY <2>1 DEF HilIdle
<1>5. \A r \in c : h.tick <= r.finishedAt
  <2> SUFFICES ASSUME NEW r \in c PROVE h.tick <= r.finishedAt
    OBVIOUS
  <2>1. [ev |-> Complete, tick |-> First(c)] \in E
    BY DEF HilIdle
  <2>2. h.tick <= First(c)
    BY <2>1
  <2>3. First(c) \in Nat /\ First(c) <= r.finishedAt /\ r.finishedAt \in Nat
    BY <1>2, FirstOf
  <2> QED
    BY ONLY <2>2, <2>3, h.tick \in Nat
<1>6. HilTypes(k, j, c, last, F, h.tick)
  BY <1>1, <1>5 DEF HilTypes
<1>7. QED
  BY <1>3, <1>4, <1>6 DEF HilIdle

(* The completion event is taken. *)
LEMMA HilFired ==
    ASSUME NEW k, NEW j, NEW c, NEW last, NEW E, NEW t, HilIdle(k, j, c, last, E, t),
           NEW h \in E, h.tick \in Nat, h.ev = Complete,
           NEW F, F = {x \in E : x.ev # h.ev}
    PROVE  HilBusy(k, j, c, last, F, h.tick)
<1>1. HilTypes(k, j, c, last, E, t) /\ last = h.tick /\ c # {} /\ last = First(c)
  BY DEF HilIdle
<1>2. \A r \in c : r.finishedAt \in Nat
  BY <1>1 DEF HilTypes, RequestOf
<1>3. \A r \in c : h.tick <= r.finishedAt
  BY <1>1, <1>2, FirstOf
<1>4. HilTypes(k, j, c, last, F, h.tick)
  BY <1>1, <1>3 DEF HilTypes
<1>5. QED
  BY <1>1, <1>4 DEF HilBusy

(* The events of the generator *)
GenEvents(E) == {x \in E : x.ev \in {Start, Submit}}

(* What a call leaves of the HIL at tick t: no completion is late, and the *)
(* events of the generator are where they were.                            *)
Settled(k, j, c, last, q, t, was) ==
    /\ Ordered(q, EvsOf(k), t) /\ HilIdle(k, j, c, last, Events(q), t)
    /\ GenEvents(Events(q)) = GenEvents(Events(was))

(* No event but the completion is new. *)
SameJobs(q, was) == \A x \in Events(q) : x.ev # Complete => x \in Events(was)

(* updateCompletion(), when the completion queue has its requests but the  *)
(* event is not moved yet.  The event is due at the tick last asked for,   *)
(* or it is not scheduled and that tick is not the first completion.       *)
Due(c, E, last) ==
    /\ \A x \in E : x.ev = Complete => x.tick = last
    /\ last = First(c) => [ev |-> Complete, tick |-> First(c)] \in E

(* updateCompletion() sets the completion event to the first completion.   *)
LEMMA UpdateSettles ==
    ASSUME NEW k, NEW j, NEW c, c # {}, NEW t \in Nat, NEW q, Ordered(q, EvsOf(k), t),
           NEW last2, last2 = updateCompletion(c), NEW q2, q2 = QueueAfterUpdate(c, q, t),
           HilTypes(k, j, c, lastScheduled, Events(q), t), Due(c, Events(q), lastScheduled)
    PROVE  Settled(k, j, c, last2, q2, t, q) /\ SameJobs(q2, q)
<1> DEFINE f == First(c)
           y == [ev |-> Complete, tick |-> f]
<1>1. \A r \in c : r.finishedAt \in Nat /\ t <= r.finishedAt
  BY DEF HilTypes, RequestOf
<1>2. f \in Nat /\ \E r \in c : r.finishedAt = f
  BY <1>1, FirstOf
<1>3. t <= f
  BY <1>1, <1>2
<1>4. last2 = f
  BY DEF updateCompletion
<1>5. Complete \in EvsOf(k)
  BY EventsOf
<1>6. y.ev = Complete /\ y.tick = f
  OBVIOUS
<1>7. /\ Ordered(q2, EvsOf(k), t) /\ y \in Events(q2)
      /\ \A x \in Events(q2) : x.ev = Complete => x = y
      /\ \A x : x.ev # Complete => (x \in Events(q2) <=> x \in Events(q))
  <2>1. CASE lastScheduled = f
    <3>1. q2 = q
      BY <2>1 DEF QueueAfterUpdate
    <3>2. ASSUME NEW a \in Events(q), NEW b \in Events(q), a.ev = b.ev PROVE a = b
      <4>1. PICK m \in 1 .. Len(q) : a = q[m]
        BY DEF Events
      <4>2. PICK n \in 1 .. Len(q) : b = q[n]
        BY DEF Events
      <4>3. \A i, l \in 1 .. Len(q) : q[i].ev = q[l].ev => i = l
        BY DEF Ordered
      <4> QED
        BY ONLY <3>2, <4>1, <4>2, <4>3
    <3>3. y \in Events(q)
      BY <2>1 DEF Due
    <3> QED
      BY <1>6, <3>1, <3>2, <3>3
  <2>2. CASE lastScheduled # f
    <3>1. q2 = scheduleEvent(q, Complete, f, t)
      BY <2>2 DEF QueueAfterUpdate
    <3> HIDE DEF f
    <3>2. t <= t
      OBVIOUS
    <3>3. Scheduled(q2, q, EvsOf(k), t, Complete, f)
      BY ONLY <1>2, <1>3, <1>5, <3>1, <3>2, ScheduleSound, t \in Nat, Ordered(q, EvsOf(k), t)
    <3>4. Ordered(q2, EvsOf(k), t) /\ Events(q2) = {x \in Events(q) : x.ev # Complete} \cup {y}
      BY <3>3 DEF Scheduled, Moved
    <3> QED
      BY <1>6, <3>4
  <2> QED
    BY <2>1, <2>2
<1> HIDE DEF y, f
<1>8. HilTypes(k, j, c, last2, Events(q2), t)
  <2>1. \A d \in CoreOf(k) : \A x \in Events(q2) : x.ev = Job(d) => j[d] # <<>>
    BY <1>7, EventNames DEF HilTypes
  <2> QED
    BY <1>2, <1>4, <2>1 DEF HilTypes
<1>9. HilIdle(k, j, c, last2, Events(q2), t)
  <2>1. c # {} => last2 = First(c) /\ [ev |-> Complete, tick |-> First(c)] \in Events(q2)
    BY <1>4, <1>7 DEF f, y
  <2>2. \A x \in Events(q2) : x.ev = Complete => x.tick = last2 /\ c # {}
    BY <1>4, <1>6, <1>7
  <2> QED
    BY <1>8, <2>1, <2>2 DEF HilIdle
<1>10. GenEvents(Events(q2)) = GenEvents(Events(q))
  BY <1>7, EventNames DEF GenEvents
<1>11. QED
  BY <1>7, <1>9, <1>10 DEF Settled, SameJobs

(* The request is served: it is among the completions. *)
ServedAs(o, id, c) ==
    \E f \in Nat : o.completionQueue = c \cup {[id |-> id, finishedAt |-> f]}

(* Serving a request adds its completion and leaves the host interface     *)
(* settled.                                                                *)
LEMMA ServeSound ==
    ASSUME NEW k, NEW t \in Nat, NEW q, Ordered(q, EvsOf(k), t),
           HilIdle(k, jobs, completionQueue, lastScheduled, Events(q), t),
           NEW id \in IdsOf(k), NEW o \in Serve(id, t, q)
    PROVE  /\ Settled(k, jobs, o.completionQueue, o.lastScheduled, o.queue, t, q)
           /\ SameJobs(o.queue, q) /\ o.jobs = jobs /\ ServedAs(o, id, completionQueue)
<1>1. PICK l \in Latency :
        LET c == completionQueue \cup {[id |-> id, finishedAt |-> t + l]}
        IN  o = Outcome(c, updateCompletion(c), jobs, QueueAfterUpdate(c, q, t))
  BY DEF Serve
<1>2. l \in Nat /\ l > 0
  BY Constants
<1> DEFINE r == [id |-> id, finishedAt |-> t + l]
           c == completionQueue \cup {r}
<1>3. /\ o.completionQueue = c /\ o.lastScheduled = updateCompletion(c) /\ o.jobs = jobs
      /\ o.queue = QueueAfterUpdate(c, q, t)
  BY <1>1 DEF Outcome
<1>4. r \in RequestOf(k) /\ r.finishedAt = t + l /\ t + l \in Nat
  BY <1>2 DEF RequestOf
<1>5. r \in c /\ c # {}
  OBVIOUS
<1>6. ServedAs(o, id, completionQueue)
  BY <1>3, <1>4 DEF ServedAs
<1>7. \A x \in completionQueue : x \in c
  OBVIOUS
<1>8. \A x \in c : x \in completionQueue \/ x = r
  OBVIOUS
<1> HIDE DEF c, r
<1>9. HilTypes(k, jobs, completionQueue, lastScheduled, Events(q), t)
  BY DEF HilIdle
<1>a. c \subseteq RequestOf(k) /\ \A x \in c : t <= x.finishedAt
  <2>1. t <= r.finishedAt
    BY <1>2, <1>4
  <2> QED
    BY <1>4, <1>8, <1>9, <2>1 DEF HilTypes
<1>10. HilTypes(k, jobs, c, lastScheduled, Events(q), t)
  BY <1>9, <1>a DEF HilTypes
<1>11. \A x \in Events(q) : x.ev = Complete => x.tick = lastScheduled
  BY DEF HilIdle
<1>12. ASSUME lastScheduled = First(c)
       PROVE  [ev |-> Complete, tick |-> First(c)] \in Events(q)
  <2>1. CASE completionQueue = {}
    <3>1. lastScheduled <= t /\ lastScheduled \in Nat
      BY <1>9, <2>1 DEF HilIdle, HilTypes
    <3>2. \A x \in c : x.finishedAt = t + l
      BY <1>4, <1>8, <2>1
    <3>3. \E x \in c : x.finishedAt = First(c)
      BY <1>4, <1>5, <3>2, FirstOf
    <3>4. First(c) = t + l
      BY <3>2, <3>3
    <3> QED
      BY <1>2, <1>12, <3>1, <3>4
  <2>2. CASE completionQueue # {}
    <3>1. /\ lastScheduled = First(completionQueue)
          /\ [ev |-> Complete, tick |-> First(completionQueue)] \in Events(q)
      BY <2>2 DEF HilIdle
    <3> QED
      BY <1>12, <3>1
  <2> QED
    BY <2>1, <2>2
<1>b. Due(c, Events(q), lastScheduled)
  BY <1>11, <1>12 DEF Due
<1>13. Settled(k, jobs, c, o.lastScheduled, o.queue, t, q) /\ SameJobs(o.queue, q)
  BY ONLY <1>3, <1>5, <1>10, <1>b, UpdateSettles, t \in Nat, Ordered(q, EvsOf(k), t)
<1>14. QED
  BY <1>3, <1>6, <1>13

(* The jobs of one core change, and its event with them. *)
CoreChanged(k, j, j2, E, F, c) ==
    /\ j2 \in [CoreOf(k) -> Seq(IdsOf(k))]
    /\ \A d \in CoreOf(k) : d # c => j2[d] = j[d]
    /\ \A x \in F : x.ev # Job(c) => x \in E
    /\ \A x \in E : x.ev # Job(c) => x \in F
    /\ j2[c] # <<>> \/ \A x \in F : x.ev # Job(c)

(* Changing the jobs and the event of one core disturbs no other core.     *)
LEMMA CoreSettles ==
    ASSUME NEW k, NEW j, NEW cq, NEW last, NEW E, NEW t, HilIdle(k, j, cq, last, E, t),
           NEW c \in CoreOf(k), NEW j2, NEW F, CoreChanged(k, j, j2, E, F, c)
    PROVE  HilIdle(k, j2, cq, last, F, t) /\ GenEvents(F) = GenEvents(E)
<1>1. HilTypes(k, j, cq, last, E, t)
  BY DEF HilIdle
<1>2. /\ \A x \in F : x.ev # Job(c) => x \in E
      /\ \A x \in E : x.ev # Job(c) => x \in F
  BY DEF CoreChanged
<1>3. \A d \in CoreOf(k) : \A x \in F : x.ev = Job(d) => j2[d] # <<>>
  <2> SUFFICES ASSUME NEW d \in CoreOf(k), NEW x \in F, x.ev = Job(d) PROVE j2[d] # <<>>
    OBVIOUS
  <2>1. CASE d = c
    BY <2>1 DEF CoreChanged
  <2>2. CASE d # c
    <3>1. x \in E
      BY <1>2, <2>2, EventNames
    <3> QED
      BY <1>1, <2>2, <3>1 DEF HilTypes, CoreChanged
  <2> QED
    BY <2>1, <2>2
<1>4. HilTypes(k, j2, cq, last, F, t)
  BY <1>1, <1>3 DEF HilTypes, CoreChanged
<1>5. \A x \in F : x.ev = Complete => x.tick = last /\ cq # {}
  BY <1>2, EventNames DEF HilIdle
<1>6. cq # {} => last = First(cq) /\ [ev |-> Complete, tick |-> First(cq)] \in F
  <2>1. [ev |-> Complete, tick |-> First(cq)].ev # Job(c)
    BY EventNames
  <2> QED
    BY <1>2, <2>1 DEF HilIdle
<1>7. HilIdle(k, j2, cq, last, F, t)
  BY <1>4, <1>5, <1>6 DEF HilIdle
<1>8. GenEvents(F) = GenEvents(E)
  <2>1. Job(c) \notin {Start, Submit}
    BY EventNames
  <2> QED
    BY <1>2, <2>1 DEF GenEvents
<1>9. QED
  BY <1>7, <1>8

(* An element at the end of one of the lists, and the first one taken *)
LEMMA ListChanged ==
    ASSUME NEW C, NEW S, NEW j \in [C -> Seq(S)], NEW c \in C
    PROVE  /\ Len(j[c]) \in Nat
           /\ \A e \in S : /\ [j EXCEPT ![c] = Append(j[c], e)] \in [C -> Seq(S)]
                           /\ Append(j[c], e) # <<>>
           /\ j[c] # <<>> =>
                 /\ [j EXCEPT ![c] = Tail(j[c])] \in [C -> Seq(S)]
                 /\ Head(j[c]) \in S
                 /\ Len(j[c]) > 1 => Tail(j[c]) # <<>>
<1>1. j[c] \in Seq(S)
  OBVIOUS
<1>2. Len(j[c]) \in Nat
  BY <1>1, LenProperties
<1>3. ASSUME NEW e \in S
      PROVE  /\ [j EXCEPT ![c] = Append(j[c], e)] \in [C -> Seq(S)]
             /\ Append(j[c], e) # <<>>
  <2>1. Append(j[c], e) \in Seq(S) /\ Len(Append(j[c], e)) = Len(j[c]) + 1
    BY <1>1, AppendProperties
  <2>2. Append(j[c], e) # <<>>
    BY <1>2, <2>1, EmptySeq
  <2> QED
    BY <2>1, <2>2
<1>4. ASSUME j[c] # <<>>
      PROVE  /\ [j EXCEPT ![c] = Tail(j[c])] \in [C -> Seq(S)]
             /\ Head(j[c]) \in S
             /\ Len(j[c]) > 1 => Tail(j[c]) # <<>>
  <2>1. Head(j[c]) \in S /\ Tail(j[c]) \in Seq(S) /\ Len(Tail(j[c])) = Len(j[c]) - 1
    BY <1>1, <1>4, HeadTailProperties
  <2>2. ASSUME Len(j[c]) > 1, Tail(j[c]) = <<>> PROVE FALSE
    <3>1. Len(Tail(j[c])) = 0
      BY ONLY <2>2, EmptySeq
    <3> QED
      BY ONLY <1>2, <2>1, <2>2, <3>1
  <2> QED
    BY <2>1, <2>2
<1>5. QED
  BY <1>2, <1>3, <1>4

(* leastBusyCPU() returns a core. *)
LEMMA LeastBusyIsCore ==
    ASSUME conf.cores \in Nat, jobs \in [Core -> Seq(Ids)], Core # {}
    PROVE  leastBusyCPU \subseteq Core
<1> DEFINE idle == {c \in Core : jobs[c] = <<>>}
           fewest == {c \in Core : \A d \in Core : Len(jobs[c]) <= Len(jobs[d])}
           lens == {Len(jobs[c]) : c \in Core}
<1>1. \A c \in Core : Len(jobs[c]) \in Nat
  BY LenProperties
<1>2. lens \subseteq Nat /\ lens # {}
  BY <1>1
<1>3. Min(lens) \in lens /\ \A y \in lens : Min(lens) <= y
  BY <1>2, MinOfNat
<1>4. fewest # {}
  <2>1. PICK c \in Core : Len(jobs[c]) = Min(lens)
    BY <1>3
  <2>2. \A d \in Core : Len(jobs[d]) \in lens
    OBVIOUS
  <2> HIDE DEF lens
  <2>3. \A d \in Core : Len(jobs[c]) <= Len(jobs[d])
    BY ONLY <1>3, <2>1, <2>2
  <2> QED
    BY <2>3
<1>5. fewest \subseteq 1 .. conf.cores
  BY DEF Core
<1> HIDE DEF fewest
<1>6. Max(fewest) \in fewest /\ \A y \in fewest : Max(fewest) >= y
  BY <1>4, <1>5, MaxOfInterval
<1>7. \E c \in fewest : \A d \in fewest : d <= c
  <2>1. \A y \in fewest : y <= Max(fewest)
    BY <1>5, <1>6
  <2> QED
    BY <1>6, <2>1
<1>8. (CHOOSE c \in fewest : \A d \in fewest : d <= c) \in fewest
  BY <1>7
<1>9. fewest \subseteq Core
  BY DEF fewest
<1>10. leastBusyCPU \in {idle, {CHOOSE c \in fewest : \A d \in fewest : d <= c}}
  BY DEF leastBusyCPU, fewest
<1>11. QED
  BY <1>8, <1>9, <1>10

(* Where a call puts a request *)
PlacedAt(k, o, id) ==
    \/ o.jobs = jobs /\ ServedAs(o, id, completionQueue)
    \/ /\ o.completionQueue = completionQueue
       /\ \E c \in CoreOf(k) : o.jobs = [jobs EXCEPT ![c] = Append(jobs[c], id)]

(* execute() puts the request at a core or among the completions, and      *)
(* schedules what will take it from there.                                 *)
LEMMA ExecuteSound ==
    ASSUME conf \in Configuration, NEW t \in Nat, NEW q, Ordered(q, EvsOf(conf), t),
           HilIdle(conf, jobs, completionQueue, lastScheduled, Events(q), t),
           NEW id \in IdsOf(conf), NEW o \in execute(id, t, q)
    PROVE  /\ Settled(conf, o.jobs, o.completionQueue, o.lastScheduled, o.queue, t, q)
           /\ PlacedAt(conf, o, id)
<1>0. Core = CoreOf(conf) /\ Ids = IdsOf(conf) /\ conf.cores \in Nat
  BY Configured DEF Core, CoreOf, Ids, IdsOf, Tracing
<1>1. CASE Core = {}
  <2>1. o \in Serve(id, t, q)
    BY <1>1 DEF execute
  <2>2. /\ Settled(conf, jobs, o.completionQueue, o.lastScheduled, o.queue, t, q)
        /\ o.jobs = jobs /\ ServedAs(o, id, completionQueue)
    BY <2>1, ServeSound
  <2> QED
    BY <2>2 DEF PlacedAt
<1>2. CASE Core # {}
  <2>1. jobs \in [CoreOf(conf) -> Seq(IdsOf(conf))]
    BY DEF HilIdle, HilTypes
  <2>2. leastBusyCPU \subseteq CoreOf(conf)
    BY <1>0, <1>2, <2>1, LeastBusyIsCore
  <2>3. PICK c \in leastBusyCPU :
          o = Outcome(completionQueue, lastScheduled, [jobs EXCEPT ![c] = Append(@, id)],
                      IF jobs[c] = <<>> THEN scheduleEvent(q, Job(c), t + JobLatency, t) ELSE q)
    BY <1>2 DEF execute
  <2>4. c \in CoreOf(conf)
    BY <2>2
  <2> DEFINE j2 == [jobs EXCEPT ![c] = Append(jobs[c], id)]
  <2>5. /\ o.completionQueue = completionQueue /\ o.lastScheduled = lastScheduled /\ o.jobs = j2
        /\ o.queue = IF jobs[c] = <<>> THEN scheduleEvent(q, Job(c), t + JobLatency, t) ELSE q
    BY <2>3 DEF Outcome
  <2>6. j2 \in [CoreOf(conf) -> Seq(IdsOf(conf))] /\ Append(jobs[c], id) # <<>>
    BY <2>1, <2>4, ListChanged
  <2>7. j2[c] = Append(jobs[c], id) /\ \A d \in CoreOf(conf) : d # c => j2[d] = jobs[d]
    BY <2>1, <2>4
  <2>8. /\ Ordered(o.queue, EvsOf(conf), t)
        /\ \A x \in Events(o.queue) : x.ev # Job(c) => x \in Events(q)
        /\ \A x \in Events(q) : x.ev # Job(c) => x \in Events(o.queue)
    <3>1. CASE jobs[c] = <<>>
      <4>1. o.queue = scheduleEvent(q, Job(c), t + JobLatency, t)
        BY <2>5, <3>1
      <4>2. Job(c) \in EvsOf(conf)
        BY <2>4, EventsOf
      <4>3. t + JobLatency \in Nat /\ t <= t + JobLatency /\ t <= t
        BY Constants
      <4>4. Scheduled(o.queue, q, EvsOf(conf), t, Job(c), t + JobLatency)
        BY ONLY <4>1, <4>2, <4>3, ScheduleSound, t \in Nat, Ordered(q, EvsOf(conf), t)
      <4> QED
        BY <4>4 DEF Scheduled, Moved
    <3>2. CASE jobs[c] # <<>>
      BY <2>5, <3>2
    <3> QED
      BY <3>1, <3>2
  <2> HIDE DEF j2
  <2>9. CoreChanged(conf, jobs, j2, Events(q), Events(o.queue), c)
    BY <2>6, <2>7, <2>8 DEF CoreChanged
  <2>10. /\ HilIdle(conf, j2, completionQueue, lastScheduled, Events(o.queue), t)
         /\ GenEvents(Events(o.queue)) = GenEvents(Events(q))
    BY ONLY <2>4, <2>9, CoreSettles,
            HilIdle(conf, jobs, completionQueue, lastScheduled, Events(q), t)
  <2>11. PlacedAt(conf, o, id)
    BY <2>4, <2>5 DEF PlacedAt, j2
  <2> QED
    BY <2>5, <2>8, <2>10, <2>11 DEF Settled
<1>3. QED
  BY <1>1, <1>2

(* A request of unknown type is nowhere. *)
PlacedAs(k, o, id, op) ==
    IF op = "known" THEN PlacedAt(k, o, id)
    ELSE o.jobs = jobs /\ o.completionQueue = completionQueue

(* submitIO() does the same for a known operation, and nothing for another *)
(* one.                                                                    *)
LEMMA SubmitSound ==
    ASSUME conf \in Configuration, NEW t \in Nat, NEW q, Ordered(q, EvsOf(conf), t),
           HilIdle(conf, jobs, completionQueue, lastScheduled, Events(q), t),
           NEW id \in IdsOf(conf), NEW op, NEW o \in submitIO(id, op, t, q)
    PROVE  /\ Settled(conf, o.jobs, o.completionQueue, o.lastScheduled, o.queue, t, q)
           /\ PlacedAs(conf, o, id, op)
<1>1. CASE op = "known"
  <2>1. o \in execute(id, t, q)
    BY <1>1 DEF submitIO
  <2>2. /\ Settled(conf, o.jobs, o.completionQueue, o.lastScheduled, o.queue, t, q)
        /\ PlacedAt(conf, o, id)
    BY <2>1, ExecuteSound
  <2> QED
    BY <1>1, <2>2 DEF PlacedAs
<1>2. CASE op # "known"
  <2>1. o = Outcome(completionQueue, lastScheduled, jobs, q)
    BY <1>2 DEF submitIO
  <2> QED
    BY <1>2, <2>1 DEF PlacedAs, Outcome, Settled
<1>3. QED
  BY <1>1, <1>2

-----------------------------------------------------------------------------
(* Where the requests are *)

InList(j, d, x) == \E i \in 1 .. Len(j[d]) : x = j[d][i]

CoreLists(k, j) ==
    /\ \A c \in CoreOf(k) : Len(j[c]) \in Nat /\ DOMAIN j[c] = 1 .. Len(j[c])
    /\ \A x \in AtCores(k, j) : \E c \in CoreOf(k) : InList(j, c, x)
    /\ \A c \in CoreOf(k) : \A x : InList(j, c, x) => x \in AtCores(k, j)

(* The lists of jobs; one with a request more at its end, or without its   *)
(* first.                                                                  *)
JobLists(k, j) == j \in [CoreOf(k) -> Seq(IdsOf(k))]
Appended(j2, j, c, e) == j2 = [j EXCEPT ![c] = Append(j[c], e)]
FirstTaken(j2, j, c)  == j2 = [j EXCEPT ![c] = Tail(j[c])]

(* The requests at the cores are the members of their lists. *)
LEMMA AtCoresMember ==
    ASSUME NEW k, NEW S, NEW j, j \in [CoreOf(k) -> Seq(S)]
    PROVE  CoreLists(k, j)
<1>1. \A c \in CoreOf(k) : Len(j[c]) \in Nat /\ DOMAIN j[c] = 1 .. Len(j[c])
  BY LenProperties
<1> DEFINE L(c) == {j[c][i] : i \in DOMAIN j[c]}
<1>2. AtCores(k, j) = UNION {L(c) : c \in CoreOf(k)}
  BY DEF AtCores
<1>3. \A c \in CoreOf(k) : \A x : x \in L(c) <=> InList(j, c, x)
  BY <1>1 DEF InList
<1> HIDE DEF L
<1>4. \A x \in AtCores(k, j) : \E c \in CoreOf(k) : x \in L(c)
  BY <1>2
<1>5. \A c \in CoreOf(k) : \A x \in L(c) : x \in AtCores(k, j)
  BY <1>2
<1>6. QED
  BY <1>1, <1>3, <1>4, <1>5 DEF CoreLists

(* A request that is appended to the jobs of a core is at that core only.  *)
LEMMA AppendAtCore ==
    ASSUME NEW k, NEW j, JobLists(k, j), Distinct(k, j),
           NEW c \in CoreOf(k), NEW e \in IdsOf(k), e \notin AtCores(k, j),
           NEW j2, Appended(j2, j, c, e)
    PROVE  AtCores(k, j2) = AtCores(k, j) \cup {e} /\ Distinct(k, j2)
<1>a. PICK S : S = IdsOf(k)
  OBVIOUS
<1>0. /\ j \in [CoreOf(k) -> Seq(S)] /\ j2 = [j EXCEPT ![c] = Append(j[c], e)] /\ e \in S
  BY <1>a DEF JobLists, Appended
<1>1. j2 \in [CoreOf(k) -> Seq(S)]
  BY <1>0, ListChanged
<1>2. PICK n \in Nat : n = Len(j[c])
  BY <1>0, ListChanged
<1>3. /\ Len(j2[c]) = n + 1 /\ j2[c][n+1] = e
      /\ \A i \in 1 .. n : j2[c][i] = j[c][i]
  <2>1. j2[c] = Append(j[c], e) /\ j[c] \in Seq(S)
    BY <1>0
  <2> QED
    BY ONLY <1>0, <1>2, <2>1, AppendProperties
<1>4. \A d \in CoreOf(k) : d # c => j2[d] = j[d]
  BY <1>0
<1>5. CoreLists(k, j)
  BY ONLY <1>0, AtCoresMember
<1>6. CoreLists(k, j2)
  BY ONLY <1>1, AtCoresMember
<1>7. ASSUME NEW d \in CoreOf(k), NEW i \in 1 .. Len(j2[d])
      PROVE  \/ d = c /\ i = n + 1 /\ j2[d][i] = e
             \/ i \in 1 .. Len(j[d]) /\ j2[d][i] = j[d][i]
  <2>1. CASE d = c
    <3>1. i \in 1 .. n + 1
      BY <1>3, <2>1
    <3>2. i = n + 1 \/ i \in 1 .. n
      BY ONLY <3>1, n \in Nat
    <3> QED
      BY ONLY <1>2, <1>3, <2>1, <3>2
  <2>2. CASE d # c
    BY <1>4, <2>2
  <2> QED
    BY <2>1, <2>2
<1>8. ASSUME NEW d \in CoreOf(k), NEW i \in 1 .. Len(j[d])
      PROVE  i \in 1 .. Len(j2[d]) /\ j2[d][i] = j[d][i]
  <2>1. CASE d = c
    <3>1. i \in 1 .. n
      BY <1>2, <2>1
    <3>2. i \in 1 .. n + 1
      BY ONLY <3>1, n \in Nat
    <3> QED
      BY ONLY <1>3, <2>1, <3>1, <3>2
  <2>2. CASE d # c
    BY <1>4, <2>2
  <2> QED
    BY <2>1, <2>2
<1>9. e \in AtCores(k, j2)
  <2>1. n + 1 \in 1 .. n + 1
    OBVIOUS
  <2>2. InList(j2, c, e)
    BY ONLY <1>3, <2>1 DEF InList
  <2> QED
    BY ONLY <1>6, <2>2, c \in CoreOf(k) DEF CoreLists
<1>10. AtCores(k, j2) = AtCores(k, j) \cup {e}
  <2>1. ASSUME NEW x \in AtCores(k, j2) PROVE x \in AtCores(k, j) \cup {e}
    <3>1. PICK d \in CoreOf(k) : InList(j2, d, x)
      BY ONLY <1>6, x \in AtCores(k, j2) DEF CoreLists
    <3>2. PICK i \in 1 .. Len(j2[d]) : x = j2[d][i]
      BY ONLY <3>1 DEF InList
    <3>3. x = e \/ InList(j, d, x)
      BY ONLY <1>7, <3>2, d \in CoreOf(k) DEF InList
    <3> QED
      BY ONLY <1>5, <3>3, d \in CoreOf(k) DEF CoreLists
  <2>2. ASSUME NEW x \in AtCores(k, j) PROVE x \in AtCores(k, j2)
    <3>1. PICK d \in CoreOf(k) : InList(j, d, x)
      BY ONLY <1>5, x \in AtCores(k, j) DEF CoreLists
    <3>2. PICK i \in 1 .. Len(j[d]) : x = j[d][i]
      BY ONLY <3>1 DEF InList
    <3>3. InList(j2, d, x)
      BY ONLY <1>8, <3>2, d \in CoreOf(k) DEF InList
    <3> QED
      BY ONLY <1>6, <3>3, d \in CoreOf(k) DEF CoreLists
  <2> QED
    BY <1>9, <2>1, <2>2
<1>b. \A d \in CoreOf(k) : DOMAIN j2[d] = 1 .. Len(j2[d])
  BY ONLY <1>6 DEF CoreLists
<1>11. Distinct(k, j2)
  <2> SUFFICES ASSUME NEW x \in CoreOf(k), NEW y \in CoreOf(k),
                      NEW a \in DOMAIN j2[x], NEW b \in DOMAIN j2[y],
                      j2[x][a] = j2[y][b]
               PROVE  x = y /\ a = b
    BY DEF Distinct
  <2>0. a \in 1 .. Len(j2[x]) /\ b \in 1 .. Len(j2[y])
    BY <1>b
  <2>1. \/ x = c /\ a = n + 1 /\ j2[x][a] = e
        \/ a \in 1 .. Len(j[x]) /\ j2[x][a] = j[x][a]
    BY <1>7, <2>0
  <2>2. \/ y = c /\ b = n + 1 /\ j2[y][b] = e
        \/ b \in 1 .. Len(j[y]) /\ j2[y][b] = j[y][b]
    BY <1>7, <2>0
  <2>3. a \in 1 .. Len(j[x]) => j[x][a] # e
    BY ONLY <1>5, x \in CoreOf(k), e \notin AtCores(k, j) DEF CoreLists, InList
  <2>4. b \in 1 .. Len(j[y]) => j[y][b] # e
    BY ONLY <1>5, y \in CoreOf(k), e \notin AtCores(k, j) DEF CoreLists, InList
  <2>5. (a \in 1 .. Len(j[x]) /\ b \in 1 .. Len(j[y]) /\ j[x][a] = j[y][b]) => x = y /\ a = b
    BY ONLY <1>5, Distinct(k, j), x \in CoreOf(k), y \in CoreOf(k) DEF Distinct, CoreLists
  <2> QED
    BY ONLY <2>1, <2>2, <2>3, <2>4, <2>5, j2[x][a] = j2[y][b]
<1>12. QED
  BY <1>10, <1>11

(* A request taken from the front of the jobs of a core is at no core any  *)
(* more.                                                                   *)
LEMMA TailAtCore ==
    ASSUME NEW k, NEW j, JobLists(k, j), Distinct(k, j),
           NEW c \in CoreOf(k), j[c] # <<>>,
           NEW e, e = Head(j[c]), NEW j2, FirstTaken(j2, j, c)
    PROVE  /\ e \in AtCores(k, j) /\ AtCores(k, j2) = AtCores(k, j) \ {e}
           /\ Distinct(k, j2)
<1>a. PICK S : S = IdsOf(k)
  OBVIOUS
<1>0. j \in [CoreOf(k) -> Seq(S)] /\ j2 = [j EXCEPT ![c] = Tail(j[c])]
  BY <1>a DEF JobLists, FirstTaken
<1>1. j2 \in [CoreOf(k) -> Seq(S)]
  BY <1>0, ListChanged
<1>2. PICK n \in Nat : n = Len(j[c])
  BY <1>0, ListChanged
<1>3. /\ n > 0 /\ e = j[c][1] /\ Len(j2[c]) = n - 1
      /\ \A i \in 1 .. n - 1 : j2[c][i] = j[c][i+1]
  <2>1. j2[c] = Tail(j[c]) /\ j[c] \in Seq(S)
    BY <1>0
  <2>2. n > 0
    BY ONLY <1>2, <2>1, EmptySeq, j[c] # <<>>, n \in Nat
  <2> QED
    BY <1>2, <2>1, <2>2, HeadTailProperties
<1>4. \A d \in CoreOf(k) : d # c => j2[d] = j[d]
  BY <1>0
<1>5. CoreLists(k, j)
  BY ONLY <1>0, AtCoresMember
<1>6. CoreLists(k, j2)
  BY ONLY <1>1, AtCoresMember
<1> DEFINE P(d, i) == IF d = c THEN i + 1 ELSE i
<1>7. ASSUME NEW d \in CoreOf(k), NEW i \in 1 .. Len(j2[d])
      PROVE  P(d, i) \in 1 .. Len(j[d]) /\ j2[d][i] = j[d][P(d, i)] /\ ~(d = c /\ P(d, i) = 1)
  <2>1. CASE d = c
    <3>1. i \in 1 .. n - 1
      BY <1>3, <2>1
    <3>2. i + 1 \in 1 .. n /\ i + 1 # 1
      BY ONLY <3>1, n \in Nat
    <3>3. P(d, i) = i + 1
      BY <2>1
    <3> QED
      BY ONLY <1>2, <1>3, <2>1, <3>1, <3>2, <3>3
  <2>2. CASE d # c
    BY <1>4, <2>2
  <2> QED
    BY <2>1, <2>2
<1>8. ASSUME NEW d \in CoreOf(k), NEW i \in 1 .. Len(j[d]), ~(d = c /\ i = 1)
      PROVE  \E m \in 1 .. Len(j2[d]) : j2[d][m] = j[d][i]
  <2>1. CASE d = c
    <3>1. i \in 1 .. n /\ i # 1
      BY <1>2, <1>8, <2>1
    <3>2. i - 1 \in 1 .. n - 1 /\ (i - 1) + 1 = i
      BY ONLY <3>1, n \in Nat
    <3>3. j2[c][i - 1] = j[c][i]
      BY ONLY <1>3, <3>2
    <3> QED
      BY ONLY <1>3, <2>1, <3>2, <3>3
  <2>2. CASE d # c
    BY <1>4, <2>2
  <2> QED
    BY <2>1, <2>2
<1>9. 1 \in 1 .. Len(j[c]) /\ e = j[c][1]
  BY <1>2, <1>3
<1>10. \A x, y \in CoreOf(k) : \A a \in 1 .. Len(j[x]), b \in 1 .. Len(j[y]) :
           j[x][a] = j[y][b] => x = y /\ a = b
  BY ONLY <1>5, Distinct(k, j) DEF Distinct, CoreLists
<1>11. \A x, y \in CoreOf(k) : \A a \in 1 .. Len(j2[x]), b \in 1 .. Len(j2[y]) :
           x = y /\ P(x, a) = P(y, b) => a = b
  <2> SUFFICES ASSUME NEW x \in CoreOf(k), NEW a \in 1 .. Len(j2[x]), NEW b \in 1 .. Len(j2[x]),
                      P(x, a) = P(x, b)
               PROVE  a = b
    OBVIOUS
  <2>1. a \in Int /\ b \in Int
    BY <1>6 DEF CoreLists
  <2> QED
    BY <2>1
<1> HIDE DEF P
<1>12. AtCores(k, j2) = AtCores(k, j) \ {e}
  <2>1. ASSUME NEW x \in AtCores(k, j2) PROVE x \in AtCores(k, j) /\ x # e
    <3>1. PICK d \in CoreOf(k) : InList(j2, d, x)
      BY ONLY <1>6, x \in AtCores(k, j2) DEF CoreLists
    <3>2. PICK i \in 1 .. Len(j2[d]) : x = j2[d][i]
      BY ONLY <3>1 DEF InList
    <3>3. P(d, i) \in 1 .. Len(j[d]) /\ x = j[d][P(d, i)] /\ ~(d = c /\ P(d, i) = 1)
      BY <1>7, <3>2
    <3>4. InList(j, d, x)
      BY ONLY <3>3 DEF InList
    <3>5. x \in AtCores(k, j)
      BY ONLY <1>5, <3>4, d \in CoreOf(k) DEF CoreLists
    <3>6. x # e
      BY ONLY <1>9, <1>10, <3>3, c \in CoreOf(k), d \in CoreOf(k)
    <3> QED
      BY <3>5, <3>6
  <2>2. ASSUME NEW x \in AtCores(k, j), x # e PROVE x \in AtCores(k, j2)
    <3>1. PICK d \in CoreOf(k) : InList(j, d, x)
      BY ONLY <1>5, x \in AtCores(k, j) DEF CoreLists
    <3>2. PICK i \in 1 .. Len(j[d]) : x = j[d][i]
      BY ONLY <3>1 DEF InList
    <3>3. ~(d = c /\ i = 1)
      BY <1>9, <2>2, <3>2
    <3>4. InList(j2, d, x)
      BY ONLY <1>8, <3>2, <3>3, d \in CoreOf(k) DEF InList
    <3> QED
      BY ONLY <1>6, <3>4, d \in CoreOf(k) DEF CoreLists
  <2> QED
    BY <2>1, <2>2
<1>b. \A d \in CoreOf(k) : DOMAIN j2[d] = 1 .. Len(j2[d])
  BY ONLY <1>6 DEF CoreLists
<1>13. Distinct(k, j2)
  <2> SUFFICES ASSUME NEW x \in CoreOf(k), NEW y \in CoreOf(k),
                      NEW a \in DOMAIN j2[x], NEW b \in DOMAIN j2[y],
                      j2[x][a] = j2[y][b]
               PROVE  x = y /\ a = b
    BY DEF Distinct
  <2>0. a \in 1 .. Len(j2[x]) /\ b \in 1 .. Len(j2[y])
    BY <1>b
  <2>1. /\ P(x, a) \in 1 .. Len(j[x]) /\ j2[x][a] = j[x][P(x, a)]
        /\ P(y, b) \in 1 .. Len(j[y]) /\ j2[y][b] = j[y][P(y, b)]
    BY <1>7, <2>0
  <2>a. j[x][P(x, a)] = j[y][P(y, b)]
    BY ONLY <2>1, j2[x][a] = j2[y][b]
  <2>2. x = y /\ P(x, a) = P(y, b)
    BY ONLY <1>10, <2>1, <2>a, x \in CoreOf(k), y \in CoreOf(k)
  <2> QED
    BY <1>11, <2>0, <2>2
<1>14. e \in AtCores(k, j)
  BY ONLY <1>5, <1>9, c \in CoreOf(k) DEF CoreLists, InList
<1>15. QED
  BY <1>12, <1>13, <1>14

(* The completion queue with one request more, or one less *)
LEMMA FinishingMore ==
    ASSUME NEW c, \A x, y \in c : x.id = y.id => x = y,
           NEW r, r.id \notin IdsIn(c), NEW c2, c2 = c \cup {r}
    PROVE  IdsIn(c2) = IdsIn(c) \cup {r.id} /\ \A x, y \in c2 : x.id = y.id => x = y
<1>1. \A x \in c : x.id # r.id
  BY DEF IdsIn
<1>2. QED
  BY <1>1 DEF IdsIn

(* A completion that is delivered takes its request, and no other, from    *)
(* the completions.                                                        *)
LEMMA FinishingLess ==
    ASSUME NEW c, \A x, y \in c : x.id = y.id => x = y,
           NEW r \in c, NEW c2, c2 = c \ {r}
    PROVE  /\ r.id \in IdsIn(c) /\ IdsIn(c2) = IdsIn(c) \ {r.id}
           /\ \A x, y \in c2 : x.id = y.id => x = y
<1>1. \A x \in c : x.id = r.id => x = r
  OBVIOUS
<1>2. QED
  BY <1>1 DEF IdsIn

(* A request that the driver drops *)
Drops(k, id) == k.mode \in TraceModes /\ k.trace[id].op = "unknown"

Stamps(k, s) == s \in [IdsOf(k) -> Nat \cup {-1}]
Stamped(s2, s, id, t) == s2 = [s EXCEPT ![id] = t]

(* The request whose submission is recorded is dropped or not. *)
LEMMA DroppedMore ==
    ASSUME NEW k, NEW s, Stamps(k, s), NEW id \in IdsOf(k), NEW t \in Nat,
           NEW s2, Stamped(s2, s, id, t)
    PROVE  /\ Stamps(k, s2)
           /\ DroppedOf(k, s2) = IF Drops(k, id) THEN DroppedOf(k, s) \cup {id} ELSE DroppedOf(k, s)
<1>1. Stamps(k, s2)
  BY DEF Stamps, Stamped
<1>2. s2[id] # -1 /\ \A i \in IdsOf(k) : i # id => s2[i] = s[i]
  BY DEF Stamps, Stamped
<1>3. CASE k.mode \in TraceModes
  <2> DEFINE U(i) == k.trace[i].op = "unknown"
             V(i) == s[i] # -1
             W(i) == s2[i] # -1
  <2>1. /\ DroppedOf(k, s) = {i \in IdsOf(k) : U(i) /\ V(i)}
        /\ DroppedOf(k, s2) = {i \in IdsOf(k) : U(i) /\ W(i)}
    BY <1>3 DEF DroppedOf
  <2>2. Drops(k, id) <=> U(id)
    BY <1>3 DEF Drops
  <2>3. W(id) /\ \A i \in IdsOf(k) : i # id => (W(i) <=> V(i))
    BY <1>2
  <2> HIDE DEF U, V, W
  <2> QED
    BY ONLY <1>1, <2>1, <2>2, <2>3, id \in IdsOf(k)
<1>4. CASE k.mode \notin TraceModes
  <2>1. DroppedOf(k, s2) = {} /\ DroppedOf(k, s) = {} /\ ~Drops(k, id)
    BY <1>4 DEF DroppedOf, Drops
  <2> QED
    BY <1>1, <2>1
<1>5. QED
  BY <1>1, <1>3, <1>4

(* The sets of Accounts when a request comes to one of them: x at the      *)
(* cores, y finishing, z dropped.                                          *)
LEMMA OneMore ==
    ASSUME NEW io, NEW A, NEW B, NEW D, NEW A2, NEW B2, NEW D2, NEW id,
           io = A \cup B \cup D, A \cap B = {}, (A \cup B) \cap D = {}, id \notin io,
           \/ A2 = A \cup {id} /\ B2 = B /\ D2 = D
           \/ A2 = A /\ B2 = B \cup {id} /\ D2 = D
           \/ A2 = A /\ B2 = B /\ D2 = D \cup {id}
    PROVE  io \cup {id} = A2 \cup B2 \cup D2 /\ A2 \cap B2 = {} /\ (A2 \cup B2) \cap D2 = {}
<1>1. id \notin A /\ id \notin B /\ id \notin D
  OBVIOUS
<1>2. CASE A2 = A \cup {id} /\ B2 = B /\ D2 = D
  BY <1>1, <1>2
<1>3. CASE A2 = A /\ B2 = B \cup {id} /\ D2 = D
  BY <1>1, <1>3
<1>4. CASE A2 = A /\ B2 = B /\ D2 = D \cup {id}
  BY <1>1, <1>4
<1>5. QED
  BY <1>2, <1>3, <1>4

(* Requests held by the block I/O layer are finitely many. *)
LEMMA CountMore ==
    ASSUME NEW io, NEW p \in Nat, io \subseteq 1 .. p
    PROVE  /\ Cardinality(io) \in Nat /\ (Cardinality(io) = 0 <=> io = {})
           /\ \A id : id \notin io => Cardinality(io \cup {id}) = Cardinality(io) + 1
           /\ \A id \in io : Cardinality(io \ {id}) = Cardinality(io) - 1
<1>1. IsFiniteSet(io)
  <2>1. 1 \in Int /\ p \in Int
    OBVIOUS
  <2>2. IsFiniteSet(1 .. p)
    BY <2>1, FS_Interval
  <2> QED
    BY <2>2, FS_Subset
<1>2. Cardinality(io) \in Nat
  BY <1>1, FS_CardinalityType
<1>3. Cardinality(io) = 0 <=> io = {}
  BY <1>1, FS_EmptySet
<1>4. \A id : id \notin io => Cardinality(io \cup {id}) = Cardinality(io) + 1
  BY <1>1, FS_AddElement
<1>5. \A id \in io : Cardinality(io \ {id}) = Cardinality(io) - 1
  BY <1>1, FS_RemoveElement
<1>6. QED
  BY <1>2, <1>3, <1>4, <1>5

(* A submission: the request is new, and in one place. *)
LEMMA AccountsSubmit ==
    ASSUME NEW k, NEW p \in Nat, NEW s,
           JobLists(k, jobs),
           Accounts(k, jobs, completionQueue, ioQueue, s, p),
           NEW id \in IdsOf(k), id = p + 1, NEW t \in Nat,
           NEW o, NEW op, PlacedAs(k, o, id, op), op # "known" <=> Drops(k, id),
           NEW s2, s2 = [s EXCEPT ![id] = t], NEW io2, io2 = ioQueue \cup {id}
    PROVE  /\ Accounts(k, o.jobs, o.completionQueue, io2, s2, p + 1)
           /\ Cardinality(io2) = Cardinality(ioQueue) + 1
<1>1. /\ s \in [IdsOf(k) -> Nat \cup {-1}]
      /\ ioQueue \subseteq IdsOf(k) /\ ioQueue \subseteq 1 .. p
      /\ ioQueue = AtCores(k, jobs) \cup IdsIn(completionQueue) \cup DroppedOf(k, s)
      /\ Distinct(k, jobs) /\ (\A x, y \in completionQueue : x.id = y.id => x = y)
      /\ AtCores(k, jobs) \cap IdsIn(completionQueue) = {}
      /\ (AtCores(k, jobs) \cup IdsIn(completionQueue)) \cap DroppedOf(k, s) = {}
      /\ \A i \in IdsOf(k) : s[i] # -1 => i <= p
  BY DEF Accounts
<1>2. id \notin ioQueue /\ id \notin AtCores(k, jobs) /\ id \notin IdsIn(completionQueue)
  <2>1. id \notin 1 .. p
    OBVIOUS
  <2> QED
    BY <1>1, <2>1
<1>3. Cardinality(io2) = Cardinality(ioQueue) + 1
  BY <1>1, <1>2, CountMore
<1>4. /\ s2 \in [IdsOf(k) -> Nat \cup {-1}]
      /\ DroppedOf(k, s2) = IF Drops(k, id) THEN DroppedOf(k, s) \cup {id} ELSE DroppedOf(k, s)
  <2>1. Stamps(k, s) /\ Stamped(s2, s, id, t)
    BY <1>1 DEF Stamps, Stamped
  <2>2. /\ Stamps(k, s2)
        /\ DroppedOf(k, s2) = IF Drops(k, id) THEN DroppedOf(k, s) \cup {id} ELSE DroppedOf(k, s)
    BY ONLY <2>1, DroppedMore, id \in IdsOf(k), t \in Nat
  <2> QED
    BY <2>2 DEF Stamps
<1>5. \A i \in IdsOf(k) : s2[i] # -1 => i <= p + 1
  <2> SUFFICES ASSUME NEW i \in IdsOf(k), s2[i] # -1 PROVE i <= p + 1
    OBVIOUS
  <2>1. CASE i = id
    BY <2>1
  <2>2. CASE i # id
    <3>1. s2[i] = s[i]
      BY <1>1, <2>2
    <3>2. i <= p /\ i \in Int
      BY <1>1, <3>1 DEF IdsOf
    <3> QED
      BY <3>2
  <2> QED
    BY <2>1, <2>2
<1>6. io2 \subseteq IdsOf(k) /\ io2 \subseteq 1 .. p + 1
  <2>1. 1 .. p \subseteq 1 .. p + 1 /\ id \in 1 .. p + 1
    OBVIOUS
  <2> QED
    BY <1>1, <2>1
<1>7. /\ Distinct(k, o.jobs) /\ \A x, y \in o.completionQueue : x.id = y.id => x = y
      /\ \/ /\ AtCores(k, o.jobs) = AtCores(k, jobs) \cup {id}
            /\ IdsIn(o.completionQueue) = IdsIn(completionQueue)
            /\ DroppedOf(k, s2) = DroppedOf(k, s)
         \/ /\ AtCores(k, o.jobs) = AtCores(k, jobs)
            /\ IdsIn(o.completionQueue) = IdsIn(completionQueue) \cup {id}
            /\ DroppedOf(k, s2) = DroppedOf(k, s)
         \/ /\ AtCores(k, o.jobs) = AtCores(k, jobs)
            /\ IdsIn(o.completionQueue) = IdsIn(completionQueue)
            /\ DroppedOf(k, s2) = DroppedOf(k, s) \cup {id}
  <2>1. CASE op # "known"
    BY <1>1, <1>4, <2>1 DEF PlacedAs
  <2>2. CASE op = "known" /\ o.jobs = jobs /\ ServedAs(o, id, completionQueue)
    <3>1. DroppedOf(k, s2) = DroppedOf(k, s)
      BY <1>4, <2>2
    <3>2. PICK f \in Nat : o.completionQueue = completionQueue \cup {[id |-> id, finishedAt |-> f]}
      BY <2>2 DEF ServedAs
    <3>3. PICK r : r = [id |-> id, finishedAt |-> f]
      OBVIOUS
    <3>4. r.id = id /\ o.completionQueue = completionQueue \cup {r}
      BY <3>2, <3>3
    <3>5. /\ IdsIn(o.completionQueue) = IdsIn(completionQueue) \cup {id}
          /\ \A x, y \in o.completionQueue : x.id = y.id => x = y
      BY ONLY <1>1, <1>2, <3>4, FinishingMore
    <3> QED
      BY <1>1, <2>2, <3>1, <3>5
  <2>3. CASE /\ op = "known" /\ o.completionQueue = completionQueue
             /\ \E c \in CoreOf(k) : o.jobs = [jobs EXCEPT ![c] = Append(jobs[c], id)]
    <3>1. DroppedOf(k, s2) = DroppedOf(k, s)
      BY <1>4, <2>3
    <3>2. PICK c \in CoreOf(k) : o.jobs = [jobs EXCEPT ![c] = Append(jobs[c], id)]
      BY <2>3
    <3>3. Appended(o.jobs, jobs, c, id)
      BY <3>2 DEF Appended
    <3>4. Distinct(k, jobs) /\ id \notin AtCores(k, jobs)
      BY <1>1, <1>2
    <3>5. AtCores(k, o.jobs) = AtCores(k, jobs) \cup {id} /\ Distinct(k, o.jobs)
      BY ONLY <3>3, <3>4, AppendAtCore, id \in IdsOf(k), c \in CoreOf(k), JobLists(k, jobs)
    <3> QED
      BY <1>1, <2>3, <3>1, <3>5
  <2> QED
    BY <2>1, <2>2, <2>3 DEF PlacedAs, PlacedAt
<1>8. /\ io2 = AtCores(k, o.jobs) \cup IdsIn(o.completionQueue) \cup DroppedOf(k, s2)
      /\ AtCores(k, o.jobs) \cap IdsIn(o.completionQueue) = {}
      /\ (AtCores(k, o.jobs) \cup IdsIn(o.completionQueue)) \cap DroppedOf(k, s2) = {}
  BY ONLY <1>1, <1>2, <1>7, OneMore, io2 = ioQueue \cup {id}
<1>9. QED
  BY <1>3, <1>4, <1>5, <1>6, <1>7, <1>8 DEF Accounts

(* The first job of a core is done: the request is now among the completions. *)
LEMMA AccountsJob ==
    ASSUME NEW k, NEW s, NEW io, NEW p, NEW j, NEW c, JobLists(k, j),
           Accounts(k, j, c, io, s, p), NEW n \in CoreOf(k), j[n] # <<>>,
           NEW id, id = Head(j[n]), NEW r, r.id = id,
           NEW j2, FirstTaken(j2, j, n), NEW c2, c2 = c \cup {r}
    PROVE  Accounts(k, j2, c2, io, s, p)
<1>1. /\ io = AtCores(k, j) \cup IdsIn(c) \cup DroppedOf(k, s)
      /\ Distinct(k, j) /\ (\A x, y \in c : x.id = y.id => x = y)
      /\ AtCores(k, j) \cap IdsIn(c) = {}
      /\ (AtCores(k, j) \cup IdsIn(c)) \cap DroppedOf(k, s) = {}
  BY DEF Accounts
<1>2. id \in AtCores(k, j) /\ AtCores(k, j2) = AtCores(k, j) \ {id} /\ Distinct(k, j2)
  BY ONLY <1>1, TailAtCore, JobLists(k, j), n \in CoreOf(k), j[n] # <<>>, id = Head(j[n]),
          FirstTaken(j2, j, n)
<1>3. id \notin IdsIn(c)
  BY <1>1, <1>2
<1>4. IdsIn(c2) = IdsIn(c) \cup {id} /\ \A x, y \in c2 : x.id = y.id => x = y
  BY ONLY <1>1, <1>3, FinishingMore, r.id = id, c2 = c \cup {r}
<1>5. /\ io = AtCores(k, j2) \cup IdsIn(c2) \cup DroppedOf(k, s)
      /\ AtCores(k, j2) \cap IdsIn(c2) = {}
      /\ (AtCores(k, j2) \cup IdsIn(c2)) \cap DroppedOf(k, s) = {}
  <2>1. IdsIn(c2) = IdsIn(c) \cup {id}
    BY <1>4
  <2> QED
    BY ONLY <1>1, <1>2, <1>3, <2>1
<1>6. QED
  BY <1>2, <1>4, <1>5 DEF Accounts

Removed(S2, S, x) == S2 = S \ {x}

(* The callback: the request is gone. *)
LEMMA AccountsCallback ==
    ASSUME NEW k, NEW s, NEW io, NEW p \in Nat, NEW j, NEW c,
           Accounts(k, j, c, io, s, p), NEW r \in c,
           NEW io2, Removed(io2, io, r.id), NEW c2, Removed(c2, c, r)
    PROVE  /\ r.id \in io /\ Accounts(k, j, c2, io2, s, p)
           /\ Cardinality(io2) = Cardinality(io) - 1
<1>0. io2 = io \ {r.id} /\ c2 = c \ {r}
  BY DEF Removed
<1>1. /\ io \subseteq 1 .. p
      /\ io = AtCores(k, j) \cup IdsIn(c) \cup DroppedOf(k, s)
      /\ (\A x, y \in c : x.id = y.id => x = y)
      /\ AtCores(k, j) \cap IdsIn(c) = {}
      /\ (AtCores(k, j) \cup IdsIn(c)) \cap DroppedOf(k, s) = {}
  BY DEF Accounts
<1>2. /\ r.id \in IdsIn(c) /\ IdsIn(c2) = IdsIn(c) \ {r.id}
      /\ \A x, y \in c2 : x.id = y.id => x = y
  BY ONLY <1>0, <1>1, FinishingLess, r \in c
<1>3. r.id \in io /\ Cardinality(io2) = Cardinality(io) - 1
  BY <1>0, <1>1, <1>2, CountMore
<1>4. /\ io2 = AtCores(k, j) \cup IdsIn(c2) \cup DroppedOf(k, s)
      /\ AtCores(k, j) \cap IdsIn(c2) = {}
      /\ (AtCores(k, j) \cup IdsIn(c2)) \cap DroppedOf(k, s) = {}
  <2>1. r.id \in IdsIn(c) /\ IdsIn(c2) = IdsIn(c) \ {r.id}
    BY <1>2
  <2> QED
    BY ONLY <1>0, <1>1, <2>1
<1>5. QED
  BY <1>0, <1>2, <1>3, <1>4 DEF Accounts

-----------------------------------------------------------------------------
(* The generators *)

(* No submission is scheduled. *)
LEMMA PendingNone ==
    ASSUME NEW k, NEW p, NEW d, NEW b, NEW E, GenEvents(E) = {}
    PROVE  Pending(k, p, d, b, E)
<1>1. \A x \in E : x.ev \notin {Start, Submit}
  BY DEF GenEvents
<1>2. QED
  BY <1>1 DEF Pending

(* Fewer submissions are scheduled. *)
LEMMA PendingFewer ==
    ASSUME NEW k, NEW p, NEW d, NEW b, NEW E, Pending(k, p, d, b, E),
           NEW F, GenEvents(F) \subseteq GenEvents(E)
    PROVE  Pending(k, p, d, b, F)
<1>1. \A x \in F : x.ev \in {Start, Submit} => x \in E
  BY DEF GenEvents
<1>2. QED
  BY <1>1 DEF Pending

(* One is set to a tick. *)
NoStart(E) == \A x \in E : x.ev # Start

(* A submission that may be issued at a tick may be scheduled for it.      *)
LEMMA PendingMoved ==
    ASSUME NEW k, NEW p, NEW d, NEW b, NEW E, NoStart(E), NEW t, MayIssue(k, p, d, b, t)
    PROVE  Pending(k, p, d, b, Moved(E, Submit, t))
<1>1. \A x \in Moved(E, Submit, t) : x.ev # Submit => x \in E
  BY DEF Moved
<1>2. \A x \in Moved(E, Submit, t) : x.ev = Submit => x.tick = t
  BY DEF Moved
<1>3. \A x \in Moved(E, Submit, t) : x.ev # Start
  <2> SUFFICES ASSUME NEW x \in Moved(E, Submit, t), x.ev = Start PROVE FALSE
    OBVIOUS
  <2>1. x \in E
    BY <1>1, EventNames
  <2> QED
    BY <2>1 DEF NoStart
<1>4. QED
  BY <1>2, <1>3 DEF Pending

(* doNextEvent() takes an event e. *)
Fired(e) ==
    /\ running = FALSE /\ ends = 0 /\ forceStop = FALSE
    /\ now' \in Nat /\ now <= now'
    /\ Ordered(Tail(queue), EvsOf(conf), now')
    /\ Events(Tail(queue)) = {x \in Events(queue) : x.ev # e}
    /\ \E h \in Events(queue) : h.ev = e /\ h.tick = now'
    /\ e # Complete => HilIdle(conf, jobs, completionQueue, lastScheduled,
                               Events(Tail(queue)), now')
    /\ e = Complete => HilBusy(conf, jobs, completionQueue, lastScheduled,
                               Events(Tail(queue)), now')

(* doNextEvent() leaves the queue ordered from the tick of the event it    *)
(* takes, and what was in it is still due.                                 *)
LEMMA NextEvent ==
    ASSUME Inv, NEW e, doNextEvent(e)
    PROVE  Fired(e)
<1>1. running = FALSE /\ forceStop = FALSE
  <2>1. running \in BOOLEAN /\ forceStop \in BOOLEAN
    BY Zenon DEF Inv, Flags, Ending
  <2>2. ~running /\ ~forceStop
    BY DEF doNextEvent
  <2> QED
    BY ONLY <2>1, <2>2, Zenon
<1>2. ends = 0
  BY <1>1, Zenon DEF Inv, Ending
<1>3. HilIdle(conf, jobs, completionQueue, lastScheduled, Events(queue), now)
  BY <1>1 DEF Inv
<1>4. Ordered(queue, EvsOf(conf), now) /\ now \in Nat /\ queue # <<>>
  BY <1>3 DEF Inv, HilIdle, HilTypes, doNextEvent
<1> DEFINE h == Head(queue)
<1>5. Popped(queue, EvsOf(conf)) /\ now <= h.tick
  BY <1>4, PopSound
<1>6. h.ev = e /\ now' = h.tick
  BY DEF doNextEvent
<1> HIDE DEF h
<1>7. /\ h \in Events(queue) /\ h.tick \in Nat /\ Ordered(Tail(queue), EvsOf(conf), h.tick)
      /\ Events(Tail(queue)) = {x \in Events(queue) : x.ev # h.ev}
      /\ \A x \in Events(queue) : h.tick <= x.tick
  BY <1>5 DEF Popped, h
<1>8. e # Complete => HilIdle(conf, jobs, completionQueue, lastScheduled,
                              Events(Tail(queue)), h.tick)
  BY ONLY <1>3, <1>5, <1>6, <1>7, HilPopped
<1>9. e = Complete => HilBusy(conf, jobs, completionQueue, lastScheduled,
                              Events(Tail(queue)), h.tick)
  BY ONLY <1>3, <1>6, <1>7, HilFired
<1>10. QED
  BY ONLY <1>1, <1>2, <1>5, <1>6, <1>7, <1>8, <1>9 DEF Fired

(* A submission is due: no other is scheduled. *)
LEMMA IssueEvent ==
    ASSUME Inv, NEW e \in {Start, Submit}, Fired(e)
    PROVE  /\ MayIssue(conf, pos, io_depth, pBackup, now')
           /\ GenEvents(Events(Tail(queue))) = {}
<1>1. Pending(conf, pos, io_depth, pBackup, Events(queue))
  BY DEF Inv
<1>2. PICK h \in Events(queue) : h.ev = e /\ h.tick = now'
  BY DEF Fired
<1>3. Events(Tail(queue)) = {x \in Events(queue) : x.ev # e}
  BY DEF Fired
<1>4. MayIssue(conf, pos, io_depth, pBackup, now')
  BY <1>1, <1>2 DEF Pending
<1>5. \A x \in Events(queue) : x.ev \in {Start, Submit} => x.ev = e
  <2>1. CASE e = Start
    BY <1>1, <1>2, <2>1 DEF Pending
  <2>2. CASE e = Submit
    BY <1>1, <1>2, <2>2 DEF Pending
  <2> QED
    BY <2>1, <2>2
<1>6. QED
  BY <1>3, <1>4, <1>5 DEF GenEvents

(* A submission is scheduled for a tick, or for the present if that is     *)
(* later, and the HIL does not mind.                                       *)
Offered(r, q, k, t, u) ==
    /\ Ordered(r, EvsOf(k), t) /\ Events(r) = Moved(Events(q), Submit, u)

(* scheduleEvent() puts the submission at the tick asked for, or at the    *)
(* present one if that is over.                                            *)
LEMMA OfferSound ==
    ASSUME NEW k, NEW t \in Nat, NEW q, Ordered(q, EvsOf(k), t), NEW tick \in Nat,
           NEW r, r = scheduleEvent(q, Submit, tick, t)
    PROVE  \E u \in Nat : (t <= tick => u = tick) /\ Offered(r, q, k, t, u)
<1>1. Submit \in EvsOf(k) /\ t <= t
  BY EventsOf
<1>2. CASE t <= tick
  <2>1. Scheduled(r, q, EvsOf(k), t, Submit, tick)
    BY <1>1, <1>2, ScheduleSound
  <2> QED
    BY <2>1 DEF Scheduled, Offered
<1>3. CASE ~(t <= tick)
  <2>1. PICK u \in Nat : Scheduled(r, q, EvsOf(k), t, Submit, u)
    BY <1>1, ScheduleAny
  <2> QED
    BY <1>3, <2>1 DEF Scheduled, Offered
<1>4. QED
  BY <1>2, <1>3

(* The queue stays, or a submission that may be issued is scheduled. *)
Offer(k, p, d, b, r, q, t) ==
    \/ r = q
    \/ \E u \in Nat : Offered(r, q, k, t, u) /\ MayIssue(k, p, d, b, u)

(* The queue is in order, the HIL and the generator are content with it. *)
Content(k, p, d, b, q, t) ==
    Ordered(q, EvsOf(k), t) /\ Pending(k, p, d, b, Events(q)) /\ NoStart(Events(q))

(* Scheduling a submission that may be issued does not disturb the host    *)
(* interface.                                                              *)
LEMMA OfferContent ==
    ASSUME NEW k, NEW p, NEW d, NEW b, NEW q, NEW t, Content(k, p, d, b, q, t),
           NEW r, Offer(k, p, d, b, r, q, t), NEW j, NEW c, NEW last
    PROVE  /\ Content(k, p, d, b, r, t)
           /\ HilIdle(k, j, c, last, Events(q), t) => HilIdle(k, j, c, last, Events(r), t)
           /\ HilBusy(k, j, c, last, Events(q), t) => HilBusy(k, j, c, last, Events(r), t)
<1>1. CASE r = q
  BY <1>1
<1>2. CASE \E u \in Nat : Offered(r, q, k, t, u) /\ MayIssue(k, p, d, b, u)
  <2>1. PICK u \in Nat : Offered(r, q, k, t, u) /\ MayIssue(k, p, d, b, u)
    BY <1>2
  <2>2. Ordered(r, EvsOf(k), t) /\ Events(r) = Moved(Events(q), Submit, u)
    BY <2>1 DEF Offered
  <2>3. NoStart(Events(q))
    BY DEF Content
  <2>4. Pending(k, p, d, b, Events(r))
    BY <2>1, <2>2, <2>3, PendingMoved
  <2>5. NoStart(Events(r))
    <3>1. \A x \in Events(r) : x \in Events(q) \/ x.ev = Submit
      BY <2>2 DEF Moved
    <3> QED
      BY <2>3, <3>1, EventNames DEF NoStart
  <2> QED
    BY <2>2, <2>4, <2>5, HilMoved DEF Content
<1>3. QED
  BY <1>1, <1>2 DEF Offer

(* A queue with no submission is content with any generator. *)
LEMMA ContentNone ==
    ASSUME NEW k, NEW p, NEW d, NEW b, NEW q, NEW t, Ordered(q, EvsOf(k), t),
           GenEvents(Events(q)) = {}
    PROVE  Content(k, p, d, b, q, t)
<1>1. \A x \in Events(q) : x.ev # Start
  BY DEF GenEvents
<1>2. QED
  BY <1>1, PendingNone DEF Content, NoStart

(* The content depends on the events of the generator only.                *)
LEMMA ContentSame ==
    ASSUME NEW k, NEW p, NEW d, NEW b, NEW q, NEW t, Content(k, p, d, b, q, t),
           NEW r, Ordered(r, EvsOf(k), t), GenEvents(Events(r)) = GenEvents(Events(q))
    PROVE  Content(k, p, d, b, r, t)
<1>1. Pending(k, p, d, b, Events(r))
  <2>1. GenEvents(Events(r)) \subseteq GenEvents(Events(q)) /\ Pending(k, p, d, b, Events(q))
    BY DEF Content
  <2> QED
    BY ONLY <2>1, PendingFewer
<1>2. NoStart(Events(r))
  BY DEF Content, NoStart, GenEvents
<1>3. QED
  BY <1>1, <1>2 DEF Content

(* submitIO() of the block I/O layer and below it *)
LEMMA SubmitEffect ==
    ASSUME Inv, now' \in Nat, NEW q, Ordered(q, EvsOf(conf), now'),
           HilIdle(conf, jobs, completionQueue, lastScheduled, Events(q), now'),
           NEW n, n = pos + 1, n \in IdsOf(conf), NEW op, op # "known" <=> Drops(conf, n),
           NEW o \in submitIO(n, op, now', q), Submitted(n, now', o)
    PROVE  /\ Ordered(o.queue, EvsOf(conf), now')
           /\ HilIdle(conf, jobs', completionQueue', lastScheduled', Events(o.queue), now')
           /\ GenEvents(Events(o.queue)) = GenEvents(Events(q))
           /\ Accounts(conf, jobs', completionQueue', ioQueue', submittedAt', n)
           /\ Cardinality(ioQueue') = io_depth + 1
<1>1. PICK t \in Nat : t = now'
  OBVIOUS
<1>2. conf \in Configuration /\ pos \in Nat /\ io_depth = Cardinality(ioQueue)
  BY DEF Inv, Flags, GenState
<1>3. /\ Settled(conf, o.jobs, o.completionQueue, o.lastScheduled, o.queue, t, q)
      /\ PlacedAs(conf, o, n, op)
  <2>1. /\ Ordered(q, EvsOf(conf), t) /\ o \in submitIO(n, op, t, q)
        /\ HilIdle(conf, jobs, completionQueue, lastScheduled, Events(q), t)
    BY <1>1
  <2> QED
    BY ONLY <1>2, <2>1, t \in Nat, n \in IdsOf(conf), SubmitSound
<1>4. /\ ioQueue' = ioQueue \cup {n} /\ submittedAt' = [submittedAt EXCEPT ![n] = t]
      /\ completionQueue' = o.completionQueue /\ lastScheduled' = o.lastScheduled
      /\ jobs' = o.jobs
  BY <1>1 DEF Submitted
<1>5. JobLists(conf, jobs)
  BY DEF HilIdle, HilTypes, JobLists
<1>6. Accounts(conf, jobs, completionQueue, ioQueue, submittedAt, pos)
  BY DEF Inv
<1>7. /\ Accounts(conf, o.jobs, o.completionQueue, ioQueue', submittedAt', pos + 1)
      /\ Cardinality(ioQueue') = Cardinality(ioQueue) + 1
  BY ONLY <1>2, <1>3, <1>4, <1>5, <1>6, t \in Nat, n = pos + 1, n \in IdsOf(conf),
          op # "known" <=> Drops(conf, n), AccountsSubmit
<1>8. QED
  BY <1>1, <1>2, <1>3, <1>4, <1>7 DEF Settled

(* AfterLine() schedules only within the depth. *)
LEMMA AfterLineSound ==
    ASSUME conf \in Configuration, NEW t \in Nat, NEW q, Ordered(q, EvsOf(conf), t),
           NEW d \in Nat, NEW r, r = AfterLine(q, d, t)
    PROVE  \/ r = q
           \/ /\ conf.mode = "async" /\ d < conf.depth
              /\ \E u \in Nat : Offered(r, q, conf, t, u)
<1>1. conf.depth \in Nat
  BY Configured
<1>2. t + SubmissionLatency \in Nat
  BY Constants
<1>3. CASE conf.mode = "async" /\ ~(d >= conf.depth)
  <2>1. r = scheduleEvent(q, Submit, t + SubmissionLatency, t)
    BY <1>3 DEF AfterLine, TraceReschedule
  <2>2. \E u \in Nat : Offered(r, q, conf, t, u)
    BY ONLY <1>2, <2>1, OfferSound, t \in Nat, Ordered(q, EvsOf(conf), t)
  <2>3. d < conf.depth
    BY <1>1, <1>3
  <2> QED
    BY <1>3, <2>2, <2>3
<1>4. CASE ~(conf.mode = "async" /\ ~(d >= conf.depth))
  BY <1>4 DEF AfterLine, TraceReschedule
<1>5. QED
  BY <1>3, <1>4

(* endCallback(), in a run that has not ended *)
LEMMA EndEffect ==
    ASSUME NEW when, ends = 0, forceStop = FALSE, endCallback(when)
    PROVE  /\ when => ends' = 1 /\ forceStop' = TRUE
           /\ ~when => ends' = 0 /\ forceStop' = FALSE
<1>1. ends' = (IF when THEN ends + 1 ELSE ends) /\ forceStop' = (forceStop \/ when)
  BY DEF endCallback
<1>2. CASE when
  <2>1. ends' = ends + 1
    BY ONLY <1>1, <1>2
  <2>2. forceStop' = TRUE
    BY ONLY <1>1, <1>2, Zenon
  <2> QED
    BY <1>2, <2>1, <2>2
<1>3. CASE ~when
  <2>1. ends' = ends
    BY ONLY <1>1, <1>3
  <2>2. forceStop' = FALSE
    BY ONLY <1>1, <1>3, forceStop = FALSE, Zenon
  <2> QED
    BY <1>3, <2>1, <2>2
<1>4. QED
  BY <1>2, <1>3

(* Facts of the invariant that the steps of the generator need *)
LEMMA Counts ==
    ASSUME Inv
    PROVE  /\ conf \in Configuration /\ conf.depth \in Nat /\ conf.depth > 0
           /\ conf.mode \in TraceModes \cup RequestModes /\ Len(conf.trace) \in Nat
           /\ pos \in Nat /\ io_depth \in Nat /\ pBackup \in Nat \cup {NoBackup}
           /\ io_depth <= (IF conf.mode = "sync" THEN 1 ELSE conf.depth)
           /\ conf.mode # "strict" => pBackup = NoBackup
           /\ conf.mode \in TraceModes => pos <= Len(conf.trace)
           /\ io_depth = 0 <=> ioQueue = {}
<1>1. conf \in Configuration
  BY DEF Inv, Flags
<1>2. GenState(conf, pos, io_depth, pBackup)
  BY DEF Inv
<1>3. ioQueue \subseteq 1 .. pos /\ io_depth = Cardinality(ioQueue) /\ pos \in Nat
  BY <1>2 DEF Inv, Accounts, GenState
<1>4. io_depth = 0 <=> ioQueue = {}
  BY <1>3, CountMore
<1>5. QED
  BY <1>1, <1>2, <1>4, Configured DEF GenState

(* handleNextLine() when there is nothing to read *)
LEMMA NoLineStep ==
    ASSUME Inv, NEW e \in {Start, Submit}, Fired(e), Tracing, NoLine(now', Tail(queue)),
           UNCHANGED <<conf, running>>
    PROVE  Inv'
<1> DEFINE when == ~reserveTermination /\ io_depth = 0
<1>1. /\ MayIssue(conf, pos, io_depth, pBackup, now')
      /\ GenEvents(Events(Tail(queue))) = {}
  BY IssueEvent
<1>2. /\ pos' = pos /\ io_depth' = io_depth /\ pBackup' = pBackup /\ ioQueue' = ioQueue
      /\ jobs' = jobs /\ completionQueue' = completionQueue /\ lastScheduled' = lastScheduled
      /\ panic' = panic /\ submittedAt' = submittedAt /\ conf' = conf /\ running' = running
      /\ queue' = AfterLine(Tail(queue), io_depth, now')
      /\ reserveTermination' = TRUE
      /\ nextIOIsSync' = (nextIOIsSync \/ Blocked(io_depth))
      /\ endCallback(when) /\ ~Readable
  BY DEF NoLine, hil
<1>3. /\ running = FALSE /\ ends = 0 /\ forceStop = FALSE
      /\ now' \in Nat /\ now \in Nat /\ now <= now' /\ Ordered(Tail(queue), EvsOf(conf), now')
      /\ HilIdle(conf, jobs, completionQueue, lastScheduled, Events(Tail(queue)), now')
  <2>1. e # Complete
    BY EventNames
  <2>2. now \in Nat
    BY DEF Inv, Fired, HilIdle, HilTypes
  <2> QED
    BY <2>1, <2>2 DEF Fired
<1>4. Content(conf, pos, io_depth, pBackup, Tail(queue), now')
  BY <1>1, <1>3, ContentNone
<1>5. Offer(conf, pos, io_depth, pBackup, queue', Tail(queue), now')
  <2>1. \/ queue' = Tail(queue)
        \/ /\ conf.mode = "async" /\ io_depth < conf.depth
           /\ \E u \in Nat : Offered(queue', Tail(queue), conf, now', u)
    BY <1>2, <1>3, Counts, AfterLineSound
  <2>2. ASSUME conf.mode = "async", io_depth < conf.depth, NEW u
        PROVE  MayIssue(conf, pos, io_depth, pBackup, u)
    BY <1>1, <2>2 DEF MayIssue
  <2> QED
    BY <2>1, <2>2 DEF Offer
<1>6. /\ Content(conf, pos, io_depth, pBackup, queue', now')
      /\ HilIdle(conf, jobs, completionQueue, lastScheduled, Events(queue'), now')
  BY ONLY <1>3, <1>4, <1>5, OfferContent
<1>7. AllRead(conf, pos)
  <2>1. CASE reserveTermination
    BY <2>1 DEF Inv, Ending
  <2>2. CASE ~reserveTermination
    <3>1. ~(pos < Len(conf.trace)) /\ pos <= Len(conf.trace)
      BY <1>2, <2>2, Counts DEF Readable, Tracing
    <3>2. pos \in Nat /\ Len(conf.trace) \in Nat
      BY Counts
    <3>3. pos = Len(conf.trace)
      BY ONLY <3>1, <3>2
    <3> QED
      BY <3>3 DEF AllRead
  <2> QED
    BY <2>1, <2>2
<1>8. Ending'
  <2>1. \/ ends' = 0 /\ forceStop' = FALSE
        \/ ends' = 1 /\ forceStop' = TRUE /\ ioQueue = {}
    <3>1. CASE when
      <4>1. ends' = 1 /\ forceStop' = TRUE
        BY ONLY <1>2, <1>3, <3>1, EndEffect, Zenon
      <4> QED
        BY <3>1, <4>1, Counts
    <3>2. CASE ~when
      <4>1. ends' = 0 /\ forceStop' = FALSE
        BY ONLY <1>2, <1>3, <3>2, EndEffect, Zenon
      <4> QED
        BY <4>1
    <3> QED
      BY <3>1, <3>2
  <2> QED
    BY <1>2, <1>7, <2>1 DEF Ending
<1>9. Flags'
  <2>1. nextIOIsSync' \in BOOLEAN
    BY <1>2, Zenon
  <2>2. nextIOIsSync' => conf.mode = "async"
    <3>1. nextIOIsSync => conf.mode = "async"
      BY DEF Inv, Flags
    <3>2. Blocked(io_depth) => conf.mode = "async"
      BY DEF Blocked
    <3> QED
      BY ONLY <1>2, <3>1, <3>2, Zenon
  <2>3. conf.mode = "time" => pos <= now' + 1
    <3>1. conf.mode = "time" => pos <= now + 1
      BY DEF Inv, Flags
    <3> QED
      BY <1>3, <3>1, Counts
  <2>4. conf \in Configuration /\ panic = "no"
    BY DEF Inv, Flags
  <2> QED
    BY <1>2, <1>3, <2>1, <2>2, <2>3, <2>4 DEF Flags
<1>10. /\ GenState(conf, pos, io_depth, pBackup) /\ io_depth = Cardinality(ioQueue)
       /\ Accounts(conf, jobs, completionQueue, ioQueue, submittedAt, pos)
  BY DEF Inv
<1>11. QED
  BY <1>2, <1>3, <1>6, <1>8, <1>9, <1>10 DEF Inv, Content

(* handleNextLine() with a line: the checks of MODE_STRICT do not fire. *)
LEMMA NextLineStep ==
    ASSUME Inv, NEW e \in {Start, Submit}, Fired(e), Tracing, NextLine(now', Tail(queue)),
           UNCHANGED <<conf, running>>
    PROVE  Inv'
<1> DEFINE n == pos + 1
           d == io_depth + 1
           put == conf.mode = "strict" /\ d = conf.depth
           q1 == StrictQueue(Tail(queue), n, d, now')
<1>1. /\ MayIssue(conf, pos, io_depth, pBackup, now')
      /\ GenEvents(Events(Tail(queue))) = {}
  BY IssueEvent
<1>2. /\ running = FALSE /\ ends = 0 /\ forceStop = FALSE
      /\ now' \in Nat /\ now \in Nat /\ now <= now' /\ Ordered(Tail(queue), EvsOf(conf), now')
      /\ HilIdle(conf, jobs, completionQueue, lastScheduled, Events(Tail(queue)), now')
  <2>1. e # Complete
    BY EventNames
  <2>2. now \in Nat
    BY DEF Inv, Fired, HilIdle, HilTypes
  <2> QED
    BY <2>1, <2>2 DEF Fired
<1>3. /\ pBackup = NoBackup /\ d \in Nat /\ n \in Nat
      /\ d <= (IF conf.mode = "sync" THEN 1 ELSE conf.depth)
  <2>1. pBackup = NoBackup /\ IF conf.mode = "sync" THEN io_depth = 0 ELSE io_depth < conf.depth
    BY <1>1 DEF MayIssue
  <2>2. io_depth \in Nat /\ conf.depth \in Nat /\ pos \in Nat
    BY Counts
  <2> QED
    BY ONLY <2>1, <2>2
<1>4. ~(\/ conf.mode = "strict" /\ d > conf.depth
        \/ put /\ pBackup # NoBackup)
  <2>1. conf.depth \in Nat
    BY Counts
  <2>2. conf.mode = "strict" => ~(d > conf.depth)
    BY <1>3, <2>1
  <2> QED
    BY ONLY <1>3, <2>2
<1>5. /\ Readable /\ pos' = n /\ io_depth' = d /\ reserveTermination' = LimitReached(n)
      /\ ends' = ends /\ forceStop' = forceStop /\ conf' = conf /\ running' = running
      /\ pBackup' = (IF put THEN LineTick(n) ELSE pBackup) /\ panic' = panic
      /\ nextIOIsSync' = (nextIOIsSync \/ Blocked(d))
      /\ \E o \in submitIO(n, conf.trace[n].op, now', q1) :
            Submitted(n, now', o) /\ queue' = AfterLine(o.queue, d, now')
  <2> HIDE DEF n, d, put
  <2> QED
    BY <1>4 DEF NextLine, n, d, put
<1>6. /\ n <= Len(conf.trace) /\ n \in 1 .. Len(conf.trace) /\ n \in IdsOf(conf)
      /\ LineTick(n) \in Nat /\ conf.trace[n].op \in {"known", "unknown"}
  <2>1. pos < Len(conf.trace) /\ pos \in Nat /\ Len(conf.trace) \in Nat
    BY <1>5, Counts DEF Readable
  <2>2. n \in 1 .. Len(conf.trace)
    BY <2>1
  <2> HIDE DEF n
  <2>3. n <= Len(conf.trace) /\ n \in IdsOf(conf)
    BY <2>2 DEF IdsOf, Tracing
  <2> QED
    BY <2>2, <2>3, Configured, Counts DEF LineTick
<1>7. PICK o \in submitIO(n, conf.trace[n].op, now', q1) :
        Submitted(n, now', o) /\ queue' = AfterLine(o.queue, d, now')
  BY <1>5
<1>8. put \/ pBackup' = NoBackup
  BY <1>3, <1>5
<1>9. GenState(conf, n, d, pBackup')
  <2>1. pBackup' \in Nat \cup {NoBackup} /\ (conf.mode # "strict" => pBackup' = NoBackup)
    BY <1>3, <1>5, <1>6
  <2> HIDE DEF n, d, put
  <2> QED
    BY <1>3, <1>6, <2>1 DEF GenState
<1> HIDE DEF n
<1>10. /\ Content(conf, n, d, pBackup', Tail(queue), now')
       /\ Offer(conf, n, d, pBackup', q1, Tail(queue), now')
  <2>1. Content(conf, n, d, pBackup', Tail(queue), now')
    BY <1>1, <1>2, ContentNone
  <2>2. CASE conf.mode = "strict" /\ d < conf.depth
    <3>1. q1 = scheduleEvent(Tail(queue), Submit, LineTick(n), now')
      BY <2>2 DEF StrictQueue
    <3> HIDE DEF q1
    <3>2. \E u \in Nat : Offered(q1, Tail(queue), conf, now', u)
      BY ONLY <1>2, <1>6, <3>1, OfferSound
    <3>3. d # conf.depth
      BY <1>3, <2>2, Counts
    <3>4. pBackup' = NoBackup
      BY <1>8, <3>3
    <3>5. ASSUME NEW u PROVE MayIssue(conf, n, d, pBackup', u)
      BY <2>2, <3>4 DEF MayIssue
    <3> QED
      BY <2>1, <3>2, <3>5 DEF Offer
  <2>3. CASE ~(conf.mode = "strict" /\ d < conf.depth)
    <3>1. q1 = Tail(queue)
      BY <2>3 DEF StrictQueue
    <3> QED
      BY <2>1, <3>1 DEF Offer
  <2> QED
    BY <2>2, <2>3
<1> HIDE DEF q1
<1>11. /\ Content(conf, n, d, pBackup', q1, now')
       /\ HilIdle(conf, jobs, completionQueue, lastScheduled, Events(q1), now')
  BY ONLY <1>2, <1>10, OfferContent
<1>12. /\ Ordered(o.queue, EvsOf(conf), now')
       /\ HilIdle(conf, jobs', completionQueue', lastScheduled', Events(o.queue), now')
       /\ GenEvents(Events(o.queue)) = GenEvents(Events(q1))
       /\ Accounts(conf, jobs', completionQueue', ioQueue', submittedAt', n)
       /\ Cardinality(ioQueue') = d
  <2>1. n = pos + 1 /\ Ordered(q1, EvsOf(conf), now')
    BY <1>11 DEF Content, n
  <2>2. conf.trace[n].op # "known" <=> Drops(conf, n)
    BY <1>6 DEF Drops, Tracing
  <2> QED
    BY ONLY Inv, <1>2, <1>6, <1>7, <1>11, <2>1, <2>2, SubmitEffect
<1>13. Content(conf, n, d, pBackup', o.queue, now')
  BY ONLY <1>11, <1>12, ContentSame
<1>14. Offer(conf, n, d, pBackup', queue', o.queue, now')
  <2>1. \/ queue' = o.queue
        \/ /\ conf.mode = "async" /\ d < conf.depth
           /\ \E u \in Nat : Offered(queue', o.queue, conf, now', u)
    BY <1>2, <1>3, <1>7, <1>12, Counts, AfterLineSound
  <2>2. ASSUME conf.mode = "async", d < conf.depth, NEW u
        PROVE  MayIssue(conf, n, d, pBackup', u)
    <3>1. pBackup' = NoBackup
      BY <1>8, <2>2
    <3> QED
      BY <2>2, <3>1 DEF MayIssue
  <2> QED
    BY <2>1, <2>2 DEF Offer
<1>15. /\ Content(conf, n, d, pBackup', queue', now')
       /\ HilIdle(conf, jobs', completionQueue', lastScheduled', Events(queue'), now')
  BY ONLY <1>12, <1>13, <1>14, OfferContent
<1>16. Ending'
  <2>1. LimitReached(n) => AllRead(conf, n)
    BY DEF LimitReached, AllRead
  <2> QED
    BY <1>2, <1>5, <2>1 DEF Ending
<1>17. Flags'
  <2>1. nextIOIsSync' \in BOOLEAN /\ reserveTermination' \in BOOLEAN
    <3>1. reserveTermination' \in BOOLEAN
      BY <1>5 DEF LimitReached
    <3>2. nextIOIsSync' \in BOOLEAN
      BY <1>5, Zenon
    <3> QED
      BY <3>1, <3>2
  <2>2. nextIOIsSync' => conf.mode = "async"
    <3>1. nextIOIsSync => conf.mode = "async"
      BY DEF Inv, Flags
    <3>2. Blocked(d) => conf.mode = "async"
      BY DEF Blocked
    <3>3. nextIOIsSync' = (nextIOIsSync \/ Blocked(d))
      BY <1>5
    <3> QED
      BY ONLY <3>1, <3>2, <3>3, Zenon
  <2>3. conf.mode # "time"
    BY DEF Tracing, TraceModes
  <2>4. conf \in Configuration /\ panic = "no"
    BY DEF Inv, Flags
  <2> QED
    BY <1>2, <1>5, <2>1, <2>2, <2>3, <2>4 DEF Flags
<1>18. QED
  BY <1>2, <1>5, <1>9, <1>12, <1>15, <1>16, <1>17 DEF Inv, Content

(* rescheduleSubmit() of the request generator schedules only within the   *)
(* depth and the volume, and no later than it was asked for.               *)
InTime(k, p, t) == k.mode = "time" => p <= t + 1

(* rescheduleSubmit() of the request generator schedules only what may be  *)
(* issued.                                                                 *)
LEMMA RequestOffer ==
    ASSUME conf \in Configuration, NEW t \in Nat, NEW q, Ordered(q, EvsOf(conf), t),
           NEW p \in Nat, NEW d \in Nat, NEW w \in Nat, w > 0,
           NEW b, b = NoBackup, conf.mode \in RequestModes, InTime(conf, p, t),
           NEW r, r = RequestReschedule(q, p, d, t, w)
    PROVE  Offer(conf, p, d, b, r, q, t)
<1>1. CASE Enough(p, t) \/ d >= conf.depth \/ scheduledFrom(q, Submit, t + w)
  BY <1>1 DEF RequestReschedule, Offer
<1>2. CASE ~(Enough(p, t) \/ d >= conf.depth \/ scheduledFrom(q, Submit, t + w))
  <2>1. r = scheduleEvent(q, Submit, t + w, t) /\ ~Enough(p, t) /\ ~(d >= conf.depth)
    BY <1>2 DEF RequestReschedule
  <2>2. t + w \in Nat /\ t <= t + w
    OBVIOUS
  <2>3. Offered(r, q, conf, t, t + w)
    <3>1. \E u \in Nat : (t <= t + w => u = t + w) /\ Offered(r, q, conf, t, u)
      BY ONLY <2>1, <2>2, OfferSound, t \in Nat, Ordered(q, EvsOf(conf), t)
    <3> QED
      BY <2>2, <3>1
  <2>4. conf.depth \in Nat /\ Volume \in Nat
    BY Configured, Constants
  <2>5. d < conf.depth
    BY <2>1, <2>4
  <2>6. conf.mode = "size" => p < Volume
    BY <2>1, <2>4 DEF Enough
  <2>7. conf.mode = "time" => p <= Volume /\ p <= t + w
    <3> SUFFICES ASSUME conf.mode = "time" PROVE p <= Volume /\ p <= t + w
      OBVIOUS
    <3>1. ~(Volume <= t)
      BY <2>1 DEF Enough
    <3>2. p <= t + 1
      BY DEF InTime
    <3> QED
      BY ONLY <2>4, <3>1, <3>2, p \in Nat, t \in Nat, w \in Nat, w > 0
  <2>8. MayIssue(conf, p, d, b, t + w)
    BY <2>5, <2>6, <2>7 DEF MayIssue, RequestModes
  <2> QED
    BY <2>2, <2>3, <2>8 DEF Offer
<1>3. QED
  BY <1>1, <1>2

(* Counting one more on both sides keeps the order.                        *)
LEMMA NextAfter ==
    ASSUME NEW a \in Nat, NEW b \in Nat, a <= b
    PROVE  a + 1 <= b + 1
OBVIOUS

(* _submitIO() of the request generator *)
LEMMA RequestSubmitStep ==
    ASSUME Inv, NEW e \in {Start, Submit}, Fired(e), ~Tracing, RequestSubmit(now', Tail(queue)),
           UNCHANGED <<conf, running>>
    PROVE  Inv'
<1> DEFINE n == pos + 1
           d == io_depth + 1
<1>1. /\ MayIssue(conf, pos, io_depth, pBackup, now')
      /\ GenEvents(Events(Tail(queue))) = {}
  BY IssueEvent
<1>2. /\ running = FALSE /\ ends = 0 /\ forceStop = FALSE
      /\ now' \in Nat /\ now \in Nat /\ now <= now' /\ Ordered(Tail(queue), EvsOf(conf), now')
      /\ HilIdle(conf, jobs, completionQueue, lastScheduled, Events(Tail(queue)), now')
  <2>1. e # Complete
    BY EventNames
  <2>2. now \in Nat
    BY DEF Inv, Fired, HilIdle, HilTypes
  <2> QED
    BY <2>1, <2>2 DEF Fired
<1>3. conf.mode \in RequestModes /\ conf.mode # "sync" /\ conf.mode \notin TraceModes
  BY Counts DEF Tracing, TraceModes, RequestModes
<1>4. /\ pBackup = NoBackup /\ d \in Nat /\ n \in Nat /\ d <= conf.depth
      /\ n \in 1 .. Volume + 1
      /\ conf.mode = "time" => n <= now' + 1
  <2>1. /\ pBackup = NoBackup /\ io_depth < conf.depth
        /\ conf.mode = "size" => pos < Volume
        /\ conf.mode = "time" => pos <= Volume /\ pos <= now'
    BY <1>1, <1>3 DEF MayIssue
  <2>2. io_depth \in Nat /\ conf.depth \in Nat /\ pos \in Nat /\ Volume \in Nat
    BY Counts, Constants
  <2>3. conf.mode = "size" \/ conf.mode = "time"
    BY <1>3 DEF RequestModes
  <2>4. pos <= Volume
    BY ONLY <2>1, <2>2, <2>3
  <2>5. n \in Nat /\ n \in 1 .. Volume + 1
    BY ONLY <2>2, <2>4
  <2>6. d \in Nat /\ d <= conf.depth
    <3>1. io_depth < conf.depth
      BY <2>1
    <3> QED
      BY ONLY <2>2, <3>1
  <2>7. conf.mode = "time" => n <= now' + 1
    <3>1. conf.mode = "time" => pos <= now'
      BY <2>1
    <3>2. pos <= now' => n <= now' + 1
      <4>1. ASSUME pos <= now' PROVE pos + 1 <= now' + 1
        <5>1. pos \in Nat
          BY <2>2
        <5>2. now' \in Nat
          BY <1>2
        <5> QED
          BY ONLY <4>1, <5>1, <5>2, NextAfter
      <4> QED
        BY <4>1
    <3> QED
      BY ONLY <3>1, <3>2
  <2> QED
    BY <2>1, <2>5, <2>6, <2>7
<1>5. /\ pos' = n /\ io_depth' = d /\ conf' = conf /\ running' = running
      /\ reserveTermination' = (reserveTermination \/ Enough(n, now'))
      /\ nextIOIsSync' = nextIOIsSync /\ pBackup' = pBackup /\ panic' = panic
      /\ ends' = ends /\ forceStop' = forceStop
  BY DEF RequestSubmit
<1>6. PICK o \in submitIO(n, "known", now', Tail(queue)) :
        /\ Submitted(n, now', o)
        /\ queue' = RequestReschedule(o.queue, n, d, now', SubmissionLatency)
  BY DEF RequestSubmit
<1>7. n \in IdsOf(conf)
  BY <1>3, <1>4 DEF IdsOf
<1>8. GenState(conf, n, d, pBackup)
  BY <1>3, <1>4 DEF GenState
<1>9. n = pos + 1
  OBVIOUS
<1> HIDE DEF n
<1>10. /\ Ordered(o.queue, EvsOf(conf), now')
       /\ HilIdle(conf, jobs', completionQueue', lastScheduled', Events(o.queue), now')
       /\ GenEvents(Events(o.queue)) = GenEvents(Events(Tail(queue)))
       /\ Accounts(conf, jobs', completionQueue', ioQueue', submittedAt', n)
       /\ Cardinality(ioQueue') = d
  <2>1. "known" # "known" <=> Drops(conf, n)
    BY <1>3 DEF Drops
  <2> QED
    BY ONLY Inv, <1>2, <1>6, <1>7, <1>9, <2>1, SubmitEffect
<1> HIDE DEF d
<1>11. Content(conf, n, d, pBackup, o.queue, now')
  BY <1>1, <1>10, ContentNone
<1>12. Offer(conf, n, d, pBackup, queue', o.queue, now')
  <2>1. conf \in Configuration /\ SubmissionLatency \in Nat /\ SubmissionLatency > 0
    BY Counts, Constants
  <2>2. /\ now' \in Nat /\ Ordered(o.queue, EvsOf(conf), now') /\ n \in Nat /\ d \in Nat
        /\ pBackup = NoBackup /\ conf.mode \in RequestModes /\ InTime(conf, n, now')
    BY <1>2, <1>3, <1>4, <1>10 DEF InTime
  <2>3. queue' = RequestReschedule(o.queue, n, d, now', SubmissionLatency)
    BY <1>6
  <2> QED
    BY ONLY <2>1, <2>2, <2>3, RequestOffer
<1>13. /\ Content(conf, n, d, pBackup, queue', now')
       /\ HilIdle(conf, jobs', completionQueue', lastScheduled', Events(queue'), now')
  BY ONLY <1>10, <1>11, <1>12, OfferContent
<1>14. Ending'
  <2>1. AllRead(conf, n)
    BY <1>3 DEF AllRead
  <2> QED
    BY <1>2, <1>5, <2>1 DEF Ending
<1>15. Flags'
  <2>1. reserveTermination' \in BOOLEAN
    BY <1>5, Zenon
  <2>2. /\ conf \in Configuration /\ panic = "no" /\ nextIOIsSync \in BOOLEAN
        /\ nextIOIsSync => conf.mode = "async"
    BY DEF Inv, Flags
  <2> QED
    BY <1>2, <1>4, <1>5, <2>1, <2>2 DEF Flags
<1>16. QED
  BY <1>2, <1>5, <1>8, <1>10, <1>13, <1>14, <1>15 DEF Inv, Content

-----------------------------------------------------------------------------
(* Completions *)

(* The callback finds the request: the run has not ended, and nothing was  *)
(* scheduled for its begin.                                                *)
Returning(r) ==
    /\ running = TRUE /\ ends = 0 /\ forceStop = FALSE /\ r.id \in ioQueue
    /\ io_depth > 0 /\ NoStart(Events(queue))
    /\ Accounts(conf, jobs, completionQueue', ioQueue', submittedAt, pos)
    /\ Cardinality(ioQueue') = io_depth - 1 /\ (io_depth - 1 = 0 <=> ioQueue' = {})
    /\ HilBusy(conf, jobs, completionQueue', lastScheduled, Events(queue), now)
    /\ Ordered(queue, EvsOf(conf), now) /\ now \in Nat

(* A completion that is delivered belongs to an outstanding request.       *)
LEMMA CallbackFinds ==
    ASSUME Inv, NEW r \in completionQueue, callback(r)
    PROVE  Returning(r)
<1>1. running = TRUE
  <2>1. running \in BOOLEAN /\ running
    BY Zenon DEF Inv, Flags, callback
  <2> QED
    BY ONLY <2>1, Zenon
<1>2. ioQueue' = ioQueue \ {r.id} /\ completionQueue' = completionQueue \ {r}
  BY DEF callback
<1>3. /\ Accounts(conf, jobs, completionQueue, ioQueue, submittedAt, pos)
      /\ io_depth = Cardinality(ioQueue) /\ pos \in Nat /\ io_depth \in Nat
  BY DEF Inv, GenState
<1>4. /\ r.id \in ioQueue /\ Accounts(conf, jobs, completionQueue', ioQueue', submittedAt, pos)
      /\ Cardinality(ioQueue') = Cardinality(ioQueue) - 1
  <2>1. Removed(ioQueue', ioQueue, r.id) /\ Removed(completionQueue', completionQueue, r)
    BY <1>2 DEF Removed
  <2> QED
    BY ONLY <1>3, <2>1, AccountsCallback, r \in completionQueue
<1>5. ioQueue' \subseteq 1 .. pos /\ ioQueue \subseteq 1 .. pos
  BY <1>3, <1>4 DEF Accounts
<1>6. Cardinality(ioQueue') \in Nat /\ (Cardinality(ioQueue') = 0 <=> ioQueue' = {})
  BY <1>3, <1>5, CountMore
<1>7. io_depth > 0
  BY <1>3, <1>4, <1>6
<1>8. ends = 0 /\ forceStop = FALSE
  BY <1>4 DEF Inv, Ending
<1>9. NoStart(Events(queue))
  <2> SUFFICES ASSUME NEW x \in Events(queue), x.ev = Start PROVE FALSE
    BY DEF NoStart
  <2>1. pos = 0
    BY DEF Inv, Pending
  <2>2. 1 .. pos = {}
    BY <2>1
  <2> QED
    BY ONLY <1>4, <1>5, <2>2
<1>10. /\ HilBusy(conf, jobs, completionQueue, lastScheduled, Events(queue), now)
       /\ Ordered(queue, EvsOf(conf), now)
  BY <1>1 DEF Inv
<1>11. HilBusy(conf, jobs, completionQueue', lastScheduled, Events(queue), now) /\ now \in Nat
  BY <1>2, <1>10 DEF HilBusy, HilTypes
<1>12. QED
  BY <1>1, <1>3, <1>4, <1>6, <1>7, <1>8, <1>9, <1>10, <1>11 DEF Returning

(* Fewer requests in flight: what could be issued still can. *)
LEMMA PendingReturned ==
    ASSUME NEW k, NEW p, NEW d \in Nat, d > 0, NEW b, NEW E, Pending(k, p, d, b, E),
           k.depth \in Nat
    PROVE  Pending(k, p, d - 1, b, E)
<1>1. ASSUME NEW t, MayIssue(k, p, d, b, t) PROVE MayIssue(k, p, d - 1, b, t)
  <2>1. k.mode # "sync" /\ d < k.depth
    BY <1>1 DEF MayIssue
  <2>2. d - 1 < k.depth
    BY <2>1
  <2> QED
    BY <1>1, <2>1, <2>2 DEF MayIssue
<1>2. QED
  BY <1>1 DEF Pending

(* The rest of the step, for both generators *)
LEMMA CallbackInv ==
    ASSUME Inv, NEW r \in completionQueue, callback(r), Returning(r),
           pos' = pos, io_depth' = io_depth - 1,
           GenState(conf, pos, io_depth - 1, pBackup'),
           Content(conf, pos, io_depth - 1, pBackup', queue', now),
           HilBusy(conf, jobs, completionQueue', lastScheduled, Events(queue'), now),
           reserveTermination' \in BOOLEAN, nextIOIsSync' \in BOOLEAN,
           nextIOIsSync' => conf.mode = "async", Ending'
    PROVE  Inv'
<1>1. /\ conf' = conf /\ now' = now /\ running' = running /\ jobs' = jobs
      /\ lastScheduled' = lastScheduled /\ panic' = panic /\ submittedAt' = submittedAt
  BY DEF callback
<1>2. Flags'
  <2>1. conf \in Configuration /\ panic = "no" /\ (conf.mode = "time" => pos <= now + 1)
    BY DEF Inv, Flags
  <2>2. running \in BOOLEAN
    BY DEF Returning
  <2> QED
    BY <1>1, <2>1, <2>2 DEF Flags
<1>3. /\ Accounts(conf, jobs, completionQueue', ioQueue', submittedAt, pos)
      /\ Cardinality(ioQueue') = io_depth - 1 /\ running = TRUE
  BY DEF Returning
<1>4. QED
  BY <1>1, <1>2, <1>3 DEF Inv, Content

(* The generator after a request has returned *)
LEMMA ReturnedContent ==
    ASSUME Inv, NEW r, Returning(r)
    PROVE  /\ Content(conf, pos, io_depth - 1, pBackup, queue, now)
           /\ GenState(conf, pos, io_depth - 1, pBackup)
           /\ io_depth - 1 \in Nat /\ io_depth - 1 < conf.depth
<1>1. /\ io_depth > 0 /\ NoStart(Events(queue)) /\ Ordered(queue, EvsOf(conf), now)
  BY DEF Returning
<1>2. Pending(conf, pos, io_depth, pBackup, Events(queue))
  BY DEF Inv
<1>3. /\ conf.depth \in Nat /\ conf.depth > 0 /\ io_depth \in Nat
      /\ io_depth <= IF conf.mode = "sync" THEN 1 ELSE conf.depth
  BY Counts
<1>4. Pending(conf, pos, io_depth - 1, pBackup, Events(queue))
  BY ONLY <1>1, <1>2, <1>3, PendingReturned
<1>5. /\ io_depth - 1 \in Nat /\ io_depth - 1 < conf.depth
      /\ io_depth - 1 <= IF conf.mode = "sync" THEN 1 ELSE conf.depth
  BY ONLY <1>1, <1>3
<1>6. GenState(conf, pos, io_depth - 1, pBackup)
  BY <1>5, Counts DEF GenState
<1>7. QED
  BY <1>1, <1>4, <1>5, <1>6 DEF Content

(* A replay: the submission put aside returns when nothing is in flight. *)
LEMMA TraceCallbackStep ==
    ASSUME Inv, NEW r \in completionQueue, callback(r), Returning(r), Tracing, TraceCallback
    PROVE  Inv'
<1> DEFINE d == io_depth - 1
           restore == conf.mode = "strict" /\ d = 0 /\ pBackup # NoBackup
           sync == conf.mode = "sync" \/ nextIOIsSync
           q == IF restore THEN scheduleEvent(queue, Submit, pBackup, now) ELSE queue
           when == reserveTermination /\ d = 0
<1>1. /\ Content(conf, pos, d, pBackup, queue, now) /\ GenState(conf, pos, d, pBackup)
      /\ d \in Nat /\ d < conf.depth
  BY ReturnedContent
<1>2. /\ running = TRUE /\ ends = 0 /\ forceStop = FALSE /\ now \in Nat
      /\ (d = 0 <=> ioQueue' = {}) /\ Ordered(queue, EvsOf(conf), now)
      /\ HilBusy(conf, jobs, completionQueue', lastScheduled, Events(queue), now)
  BY DEF Returning
<1>3. /\ io_depth' = d /\ pos' = pos /\ reserveTermination' = reserveTermination
      /\ endCallback(when)
      /\ pBackup' = (IF restore THEN NoBackup ELSE pBackup)
      /\ nextIOIsSync' = (sync /\ Blocked(d))
      /\ queue' = IF sync THEN TraceReschedule(q, d, now, SubmissionLatency + CompletionLatency)
                  ELSE q
  BY DEF TraceCallback
<1>4. conf \in Configuration /\ pBackup \in Nat \cup {NoBackup}
      /\ (nextIOIsSync => conf.mode = "async")
      /\ (conf.mode # "strict" => pBackup = NoBackup)
      /\ (io_depth <= IF conf.mode = "sync" THEN 1 ELSE conf.depth)
  BY Counts DEF Inv, Flags
<1>5. conf.mode \in TraceModes
  BY DEF Tracing
<1>6. d \in Nat /\ (conf.mode = "sync" => d = 0)
  <2>1. io_depth \in Nat
    BY Counts
  <2> QED
    BY <1>1, <1>4, <2>1
<1>7. ASSUME restore
      PROVE  /\ GenState(conf, pos, d, pBackup') /\ Content(conf, pos, d, pBackup', queue', now)
             /\ HilBusy(conf, jobs, completionQueue', lastScheduled, Events(queue'), now)
  <2>1. ~sync
    BY <1>4, <1>7
  <2>2. queue' = scheduleEvent(queue, Submit, pBackup, now) /\ pBackup' = NoBackup
    BY <1>3, <1>7, <2>1
  <2>3. pBackup \in Nat
    BY <1>4, <1>7
  <2>4. PICK u \in Nat : Offered(queue', queue, conf, now, u)
    BY ONLY <1>2, <2>2, <2>3, OfferSound
  <2>5. MayIssue(conf, pos, d, pBackup', u)
    BY <1>1, <1>7, <2>2 DEF MayIssue
  <2>6. Content(conf, pos, d, pBackup', queue, now)
    <3>1. \A x \in Events(queue) : x.ev \notin {Start, Submit}
      <4> SUFFICES ASSUME NEW x \in Events(queue), x.ev \in {Start, Submit} PROVE FALSE
        OBVIOUS
      <4>1. MayIssue(conf, pos, d, pBackup, x.tick)
        BY <1>1 DEF Content, Pending
      <4> QED
        BY <1>7, <4>1 DEF MayIssue
    <3>2. GenEvents(Events(queue)) = {}
      BY <3>1 DEF GenEvents
    <3> QED
      BY <1>2, <3>2, ContentNone
  <2>7. Offer(conf, pos, d, pBackup', queue', queue, now)
    BY <2>4, <2>5 DEF Offer
  <2>8. GenState(conf, pos, d, pBackup')
    BY <1>1, <2>2 DEF GenState
  <2>9. /\ Content(conf, pos, d, pBackup', queue', now)
        /\ HilBusy(conf, jobs, completionQueue', lastScheduled, Events(queue'), now)
    BY ONLY <1>2, <2>6, <2>7, OfferContent
  <2> QED
    BY <2>8, <2>9
<1>8. ASSUME ~restore
      PROVE  /\ GenState(conf, pos, d, pBackup') /\ Content(conf, pos, d, pBackup', queue', now)
             /\ HilBusy(conf, jobs, completionQueue', lastScheduled, Events(queue'), now)
  <2>1. pBackup' = pBackup /\ q = queue
    BY <1>3, <1>8
  <2>2. Offer(conf, pos, d, pBackup', queue', queue, now)
    <3>1. CASE ~sync
      BY <1>3, <2>1, <3>1 DEF Offer
    <3>2. CASE sync
      <4>1. queue' = TraceReschedule(queue, d, now, SubmissionLatency + CompletionLatency)
        BY <1>3, <2>1, <3>2
      <4>2. conf.mode \in {"sync", "async"} /\ pBackup = NoBackup
        BY <1>4, <3>2
      <4>3. queue' = scheduleEvent(queue, Submit, now + (SubmissionLatency + CompletionLatency), now)
        BY <1>1, <4>1, <4>2, Counts DEF TraceReschedule
      <4>4. now + (SubmissionLatency + CompletionLatency) \in Nat
        BY <1>2, Constants
      <4>5. PICK u \in Nat : Offered(queue', queue, conf, now, u)
        BY ONLY <1>2, <4>3, <4>4, OfferSound
      <4>6. MayIssue(conf, pos, d, pBackup', u)
        BY <1>1, <1>6, <2>1, <4>2 DEF MayIssue
      <4> QED
        BY <4>5, <4>6 DEF Offer
    <3> QED
      BY <3>1, <3>2
  <2>3. /\ Content(conf, pos, d, pBackup', queue', now)
        /\ HilBusy(conf, jobs, completionQueue', lastScheduled, Events(queue'), now)
    BY ONLY <1>1, <1>2, <2>1, <2>2, OfferContent
  <2> QED
    BY <1>1, <2>1, <2>3
<1>9. /\ GenState(conf, pos, d, pBackup') /\ Content(conf, pos, d, pBackup', queue', now)
      /\ HilBusy(conf, jobs, completionQueue', lastScheduled, Events(queue'), now)
  BY <1>7, <1>8
<1>10. /\ reserveTermination' \in BOOLEAN /\ nextIOIsSync' \in BOOLEAN
       /\ nextIOIsSync' => conf.mode = "async"
  <2>1. reserveTermination' \in BOOLEAN
    BY <1>3 DEF Inv, Flags
  <2>3. Blocked(d) => conf.mode = "async"
    BY DEF Blocked
  <2>4. nextIOIsSync' = (sync /\ Blocked(d))
    BY <1>3
  <2> HIDE DEF sync
  <2>2. nextIOIsSync' \in BOOLEAN
    BY ONLY <2>4, Zenon
  <2>5. nextIOIsSync' => conf.mode = "async"
    BY ONLY <2>3, <2>4, Zenon
  <2> QED
    BY <2>1, <2>2, <2>5
<1>11. Ending'
  <2>1. reserveTermination => AllRead(conf, pos)
    BY DEF Inv, Ending
  <2>2. conf' = conf
    BY DEF callback
  <2>3. CASE when
    <3>1. ends' = 1 /\ forceStop' = TRUE
      BY ONLY <1>2, <1>3, <2>3, EndEffect, Zenon
    <3> QED
      BY <1>2, <1>3, <2>1, <2>2, <2>3, <3>1 DEF Ending
  <2>4. CASE ~when
    <3>1. ends' = 0 /\ forceStop' = FALSE
      BY ONLY <1>2, <1>3, <2>4, EndEffect, Zenon
    <3> QED
      BY <1>3, <2>1, <2>2, <3>1 DEF Ending
  <2> HIDE DEF when
  <2> QED
    BY ONLY <2>3, <2>4, Zenon
<1>12. QED
  BY ONLY Inv, r \in completionQueue, callback(r), Returning(r), <1>3, <1>9, <1>10, <1>11,
          CallbackInv

(* A generated run *)
LEMMA RequestCallbackStep ==
    ASSUME Inv, NEW r \in completionQueue, callback(r), Returning(r), ~Tracing, RequestCallback
    PROVE  Inv'
<1> DEFINE d == io_depth - 1
           done == reserveTermination \/ Enough(pos, now)
           w == SubmissionLatency + CompletionLatency
<1>1. /\ Content(conf, pos, d, pBackup, queue, now) /\ GenState(conf, pos, d, pBackup)
      /\ d \in Nat
  BY ReturnedContent
<1>2. /\ ends = 0 /\ forceStop = FALSE /\ now \in Nat
      /\ (d = 0 <=> ioQueue' = {}) /\ Ordered(queue, EvsOf(conf), now)
      /\ HilBusy(conf, jobs, completionQueue', lastScheduled, Events(queue), now)
  BY DEF Returning
<1>3. /\ io_depth' = d /\ pos' = pos /\ nextIOIsSync' = nextIOIsSync /\ pBackup' = pBackup
      /\ reserveTermination' = done /\ endCallback(done /\ d = 0)
      /\ queue' = IF reserveTermination THEN queue
                  ELSE RequestReschedule(queue, pos, d, now, w)
  BY DEF RequestCallback
<1>4. /\ conf.mode \in RequestModes /\ conf.mode \notin TraceModes /\ pBackup = NoBackup
      /\ conf \in Configuration /\ pos \in Nat
  BY Counts DEF Tracing, TraceModes, RequestModes
<1>5. w \in Nat /\ w > 0
  BY Constants
<1>6. InTime(conf, pos, now) /\ nextIOIsSync \in BOOLEAN /\ (nextIOIsSync => conf.mode = "async")
  BY DEF Inv, Flags, InTime
<1> HIDE DEF d, w
<1>7. Offer(conf, pos, d, pBackup, queue', queue, now)
  <2>1. CASE reserveTermination
    BY <1>3, <2>1 DEF Offer
  <2>2. CASE ~reserveTermination
    <3>1. queue' = RequestReschedule(queue, pos, d, now, w)
      BY <1>3, <2>2
    <3>2. now \in Nat /\ Ordered(queue, EvsOf(conf), now) /\ d \in Nat
      BY <1>1, <1>2
    <3>3. InTime(conf, pos, now)
      BY <1>6
    <3> QED
      BY ONLY <1>4, <1>5, <3>1, <3>2, <3>3, RequestOffer
  <2> QED
    BY <2>1, <2>2
<1>8. /\ Content(conf, pos, d, pBackup, queue', now)
      /\ HilBusy(conf, jobs, completionQueue', lastScheduled, Events(queue'), now)
  BY ONLY <1>1, <1>2, <1>7, OfferContent
<1>9. reserveTermination' \in BOOLEAN
  BY <1>3, Zenon
<1>10. Ending'
  <2>1. AllRead(conf, pos)
    BY <1>4 DEF AllRead
  <2>2. conf' = conf
    BY DEF callback
  <2> DEFINE when == done /\ d = 0
  <2>3. endCallback(when) /\ (when => ioQueue' = {})
    BY <1>2, <1>3
  <2> HIDE DEF when
  <2>a. ends = 0 /\ forceStop = FALSE /\ endCallback(when)
    BY <1>2, <2>3
  <2>4. CASE when
    <3>1. ends' = 1 /\ forceStop' = TRUE
      BY ONLY <2>a, <2>4, EndEffect, Zenon
    <3> QED
      BY <1>3, <2>1, <2>2, <2>3, <2>4, <3>1 DEF Ending
  <2>5. CASE ~when
    <3>1. ends' = 0 /\ forceStop' = FALSE
      BY ONLY <2>a, <2>5, Zenon DEF endCallback
    <3> QED
      BY <1>3, <2>1, <2>2, <3>1 DEF Ending
  <2> QED
    BY ONLY <2>4, <2>5, Zenon
<1>11. QED
  <2>1. io_depth' = io_depth - 1 /\ pos' = pos /\ nextIOIsSync' = nextIOIsSync /\ pBackup' = pBackup
    BY <1>3 DEF d
  <2>2. /\ GenState(conf, pos, io_depth - 1, pBackup')
        /\ Content(conf, pos, io_depth - 1, pBackup', queue', now)
    BY <1>1, <1>8, <2>1 DEF d
  <2> QED
    BY ONLY Inv, r \in completionQueue, callback(r), Returning(r), <1>6, <1>8, <1>9, <1>10,
            <2>1, <2>2, CallbackInv

(* The callback of a completion keeps the invariant, for both generators.  *)
LEMMA CallbackStep ==
    ASSUME Inv, NEW r \in completionQueue, callback(r)
    PROVE  Inv'
<1>1. Returning(r)
  BY CallbackFinds
<1>2. IF Tracing THEN TraceCallback ELSE RequestCallback
  <2>1. r.id \in ioQueue
    BY <1>1 DEF Returning
  <2> QED
    BY <2>1 DEF callback
<1>3. CASE Tracing
  BY <1>1, <1>2, <1>3, TraceCallbackStep
<1>4. CASE ~Tracing
  BY <1>1, <1>2, <1>4, RequestCallbackStep
<1>5. QED
  BY <1>3, <1>4

(* HIL::completion() begins. *)
LEMMA CompletionStep ==
    ASSUME Inv, completion
    PROVE  Inv'
<1>1. Fired(Complete)
  BY NextEvent DEF completion
<1>2. /\ running' = TRUE /\ queue' = Tail(queue) /\ conf' = conf /\ forceStop' = forceStop
      /\ pos' = pos /\ io_depth' = io_depth /\ reserveTermination' = reserveTermination
      /\ nextIOIsSync' = nextIOIsSync /\ pBackup' = pBackup /\ ioQueue' = ioQueue
      /\ jobs' = jobs /\ completionQueue' = completionQueue /\ lastScheduled' = lastScheduled
      /\ panic' = panic /\ ends' = ends /\ submittedAt' = submittedAt
  BY DEF completion, generator, hil
<1>3. /\ now' \in Nat /\ now <= now' /\ Ordered(Tail(queue), EvsOf(conf), now')
      /\ HilBusy(conf, jobs, completionQueue, lastScheduled, Events(Tail(queue)), now')
      /\ Events(Tail(queue)) = {x \in Events(queue) : x.ev # Complete} /\ running = FALSE
  BY <1>1 DEF Fired
<1>4. now \in Nat
  BY <1>3 DEF Inv, HilIdle, HilTypes
<1>5. Pending(conf, pos, io_depth, pBackup, Events(queue'))
  <2>1. GenEvents(Events(queue')) \subseteq GenEvents(Events(queue))
    BY <1>2, <1>3 DEF GenEvents
  <2>2. Pending(conf, pos, io_depth, pBackup, Events(queue))
    BY DEF Inv
  <2> QED
    BY ONLY <2>1, <2>2, PendingFewer
<1>6. Flags'
  <2>1. conf.mode = "time" => pos <= now + 1
    BY DEF Inv, Flags
  <2>2. conf.mode = "time" => pos <= now' + 1
    BY <1>3, <1>4, <2>1, Counts
  <2>3. /\ conf \in Configuration /\ panic = "no" /\ reserveTermination \in BOOLEAN
        /\ nextIOIsSync \in BOOLEAN /\ (nextIOIsSync => conf.mode = "async")
    BY DEF Inv, Flags
  <2> QED
    BY <1>2, <2>2, <2>3 DEF Flags
<1>7. Ending'
  BY <1>2 DEF Inv, Ending
<1>8. /\ GenState(conf, pos, io_depth, pBackup) /\ io_depth = Cardinality(ioQueue)
      /\ Accounts(conf, jobs, completionQueue, ioQueue, submittedAt, pos)
  BY DEF Inv
<1>9. QED
  BY <1>2, <1>3, <1>5, <1>6, <1>7, <1>8 DEF Inv

(* Its loop ends: all that is left is in the future. *)
LEMMA CompletionEndsStep ==
    ASSUME Inv, completionEnds
    PROVE  Inv'
<1>1. running = TRUE
  <2>1. running \in BOOLEAN /\ running
    BY Zenon DEF Inv, Flags, completionEnds
  <2> QED
    BY ONLY <2>1, Zenon
<1>2. /\ running' = FALSE /\ conf' = conf /\ forceStop' = forceStop /\ now' = now
      /\ pos' = pos /\ io_depth' = io_depth /\ reserveTermination' = reserveTermination
      /\ nextIOIsSync' = nextIOIsSync /\ pBackup' = pBackup /\ ioQueue' = ioQueue
      /\ jobs' = jobs /\ completionQueue' = completionQueue
      /\ panic' = panic /\ ends' = ends /\ submittedAt' = submittedAt
      /\ lastScheduled' = updateCompletion(completionQueue)
      /\ queue' = QueueAfterUpdate(completionQueue, queue, now)
      /\ \A r \in completionQueue : r.finishedAt > now
  BY DEF completionEnds, generator
<1>3. /\ HilBusy(conf, jobs, completionQueue, lastScheduled, Events(queue), now)
      /\ Ordered(queue, EvsOf(conf), now)
  BY <1>1 DEF Inv
<1>4. /\ HilTypes(conf, jobs, completionQueue, lastScheduled, Events(queue), now)
      /\ lastScheduled = now /\ now \in Nat /\ \A x \in Events(queue) : x.ev # Complete
  BY <1>3 DEF HilBusy, HilTypes
<1>5. Settled(conf, jobs, completionQueue, lastScheduled', queue', now, queue)
  <2>1. CASE completionQueue = {}
    <3>1. lastScheduled' = lastScheduled /\ queue' = queue
      BY <1>2, <2>1 DEF updateCompletion, QueueAfterUpdate
    <3>2. HilIdle(conf, jobs, completionQueue, lastScheduled, Events(queue), now)
      BY <1>4, <2>1 DEF HilIdle
    <3> QED
      BY <1>3, <3>1, <3>2 DEF Settled
  <2>2. CASE completionQueue # {}
    <3>1. \A r \in completionQueue : r.finishedAt \in Nat
      BY <1>4 DEF HilTypes, RequestOf
    <3>2. First(completionQueue) \in Nat /\ \E r \in completionQueue : r.finishedAt = First(completionQueue)
      BY <2>2, <3>1, FirstOf
    <3>3. First(completionQueue) > now
      BY <1>2, <3>2
    <3>4. Due(completionQueue, Events(queue), lastScheduled)
      BY <1>4, <3>2, <3>3 DEF Due
    <3> QED
      BY ONLY <1>2, <1>3, <1>4, <2>2, <3>4, UpdateSettles
  <2> QED
    BY <2>1, <2>2
<1>6. /\ Ordered(queue', EvsOf(conf), now)
      /\ HilIdle(conf, jobs, completionQueue, lastScheduled', Events(queue'), now)
      /\ GenEvents(Events(queue')) = GenEvents(Events(queue))
  BY <1>5 DEF Settled
<1>7. Pending(conf, pos, io_depth, pBackup, Events(queue'))
  <2>1. GenEvents(Events(queue')) \subseteq GenEvents(Events(queue))
    BY <1>6
  <2>2. Pending(conf, pos, io_depth, pBackup, Events(queue))
    BY DEF Inv
  <2> QED
    BY ONLY <2>1, <2>2, PendingFewer
<1>8. Flags'
  <2>1. /\ conf \in Configuration /\ panic = "no" /\ reserveTermination \in BOOLEAN
        /\ nextIOIsSync \in BOOLEAN /\ (nextIOIsSync => conf.mode = "async")
    BY DEF Inv, Flags
  <2>2. conf.mode = "time" => pos <= now + 1
    BY DEF Inv, Flags
  <2> QED
    BY <1>2, <2>1, <2>2 DEF Flags
<1>9. Ending'
  BY <1>2 DEF Inv, Ending
<1>10. /\ GenState(conf, pos, io_depth, pBackup) /\ io_depth = Cardinality(ioQueue)
       /\ Accounts(conf, jobs, completionQueue, ioQueue, submittedAt, pos)
  BY DEF Inv
<1>11. QED
  BY <1>2, <1>6, <1>7, <1>8, <1>9, <1>10 DEF Inv

(* CPU::Core::jobDone(): the core goes on with its next job, if it has one. *)
LEMMA JobDoneStep ==
    ASSUME Inv, NEW c \in CoreOf(conf), jobDone(c)
    PROVE  Inv'
<1>1. Fired(Job(c)) /\ Job(c) # Complete
  BY NextEvent, EventNames DEF jobDone
<1>2. /\ conf' = conf /\ forceStop' = forceStop /\ running' = running
      /\ pos' = pos /\ io_depth' = io_depth /\ reserveTermination' = reserveTermination
      /\ nextIOIsSync' = nextIOIsSync /\ pBackup' = pBackup /\ ioQueue' = ioQueue
      /\ panic' = panic /\ ends' = ends /\ submittedAt' = submittedAt
      /\ jobs' = [jobs EXCEPT ![c] = Tail(jobs[c])]
  BY DEF jobDone, generator
<1>3. /\ running = FALSE /\ now' \in Nat /\ now <= now' /\ Ordered(Tail(queue), EvsOf(conf), now')
      /\ HilIdle(conf, jobs, completionQueue, lastScheduled, Events(Tail(queue)), now')
      /\ Events(Tail(queue)) = {x \in Events(queue) : x.ev # Job(c)}
      /\ \E h \in Events(queue) : h.ev = Job(c)
  BY <1>1 DEF Fired
<1>4. HilTypes(conf, jobs, completionQueue, lastScheduled, Events(queue), now) /\ now \in Nat
  BY <1>3 DEF Inv, HilIdle, HilTypes
<1>5. jobs[c] # <<>> /\ jobs \in [CoreOf(conf) -> Seq(IdsOf(conf))]
  BY <1>3, <1>4 DEF HilTypes
<1> DEFINE id == Head(jobs[c])
<1>6. /\ id \in IdsOf(conf) /\ Len(jobs[c]) \in Nat
      /\ [jobs EXCEPT ![c] = Tail(jobs[c])] \in [CoreOf(conf) -> Seq(IdsOf(conf))]
      /\ Len(jobs[c]) > 1 => Tail(jobs[c]) # <<>>
  BY <1>5, ListChanged
<1>7. PICK o \in Serve(id, now', Tail(queue)) :
        /\ completionQueue' = o.completionQueue /\ lastScheduled' = o.lastScheduled
        /\ queue' = IF Len(jobs[c]) > 1
                    THEN scheduleEvent(o.queue, Job(c), now' + JobLatency, now')
                    ELSE o.queue
  BY DEF jobDone
<1> HIDE DEF id
<1>8. /\ Settled(conf, jobs, o.completionQueue, o.lastScheduled, o.queue, now', Tail(queue))
      /\ SameJobs(o.queue, Tail(queue)) /\ o.jobs = jobs /\ ServedAs(o, id, completionQueue)
  BY ONLY <1>3, <1>6, <1>7, ServeSound
<1>9. /\ Ordered(o.queue, EvsOf(conf), now')
      /\ HilIdle(conf, jobs, completionQueue', lastScheduled', Events(o.queue), now')
      /\ GenEvents(Events(o.queue)) = GenEvents(Events(Tail(queue)))
  BY <1>7, <1>8 DEF Settled
<1>10. \A x \in Events(o.queue) : x.ev # Job(c)
  <2> SUFFICES ASSUME NEW x \in Events(o.queue), x.ev = Job(c) PROVE FALSE
    OBVIOUS
  <2>1. x \in Events(Tail(queue))
    BY <1>1, <1>8 DEF SameJobs
  <2> QED
    BY <1>3, <2>1
<1>11. /\ Ordered(queue', EvsOf(conf), now')
       /\ \A x \in Events(queue') : x.ev # Job(c) => x \in Events(o.queue)
       /\ \A x \in Events(o.queue) : x.ev # Job(c) => x \in Events(queue')
       /\ Len(jobs[c]) > 1 \/ \A x \in Events(queue') : x.ev # Job(c)
  <2>1. CASE Len(jobs[c]) > 1
    <3>1. queue' = scheduleEvent(o.queue, Job(c), now' + JobLatency, now')
      BY <1>7, <2>1
    <3>2. Job(c) \in EvsOf(conf)
      BY EventsOf
    <3>3. now' + JobLatency \in Nat /\ now' <= now' + JobLatency /\ now' <= now' /\ now' \in Nat
      <4>1. PICK t \in Nat : t = now'
        BY <1>3
      <4>2. JobLatency \in Nat
        BY Constants
      <4>3. t + JobLatency \in Nat /\ t <= t + JobLatency /\ t <= t
        BY ONLY <4>2, t \in Nat
      <4> QED
        BY ONLY <4>1, <4>3
    <3>4. Ordered(o.queue, EvsOf(conf), now')
      BY <1>9
    <3>5. Scheduled(queue', o.queue, EvsOf(conf), now', Job(c), now' + JobLatency)
      BY ONLY <3>1, <3>2, <3>3, <3>4, ScheduleSound
    <3> QED
      BY <2>1, <3>5 DEF Scheduled, Moved
  <2>2. CASE ~(Len(jobs[c]) > 1)
    BY <1>7, <1>9, <1>10, <2>2
  <2> QED
    BY <2>1, <2>2
<1>12. /\ HilIdle(conf, jobs', completionQueue', lastScheduled', Events(queue'), now')
       /\ GenEvents(Events(queue')) = GenEvents(Events(o.queue))
  <2>1. /\ jobs' \in [CoreOf(conf) -> Seq(IdsOf(conf))] /\ jobs'[c] = Tail(jobs[c])
        /\ \A d \in CoreOf(conf) : d # c => jobs'[d] = jobs[d]
    BY <1>2, <1>5, <1>6
  <2>2. CoreChanged(conf, jobs, jobs', Events(o.queue), Events(queue'), c)
    BY <1>6, <1>11, <2>1 DEF CoreChanged
  <2> QED
    BY ONLY <1>9, <2>2, CoreSettles, c \in CoreOf(conf)
<1>13. Pending(conf, pos, io_depth, pBackup, Events(queue'))
  <2>1. GenEvents(Events(Tail(queue))) \subseteq GenEvents(Events(queue))
    BY <1>3 DEF GenEvents
  <2>2. GenEvents(Events(queue')) \subseteq GenEvents(Events(queue))
    BY ONLY <1>9, <1>12, <2>1
  <2>3. Pending(conf, pos, io_depth, pBackup, Events(queue))
    BY DEF Inv
  <2> QED
    BY ONLY <2>2, <2>3, PendingFewer
<1>14. Accounts(conf, jobs', completionQueue', ioQueue, submittedAt, pos)
  <2>1. PICK f \in Nat : completionQueue' = completionQueue \cup {[id |-> id, finishedAt |-> f]}
    BY <1>7, <1>8 DEF ServedAs
  <2>2. PICK r : r = [id |-> id, finishedAt |-> f]
    OBVIOUS
  <2>3. r.id = id /\ completionQueue' = completionQueue \cup {r}
    BY <2>1, <2>2
  <2>4. JobLists(conf, jobs) /\ FirstTaken(jobs', jobs, c) /\ id = Head(jobs[c])
    BY <1>2, <1>5 DEF JobLists, FirstTaken, id
  <2>5. Accounts(conf, jobs, completionQueue, ioQueue, submittedAt, pos) /\ jobs[c] # <<>>
    BY <1>5 DEF Inv
  <2> QED
    BY ONLY <2>3, <2>4, <2>5, AccountsJob, c \in CoreOf(conf)
<1>15. Flags'
  <2>1. conf.mode = "time" => pos <= now + 1
    BY DEF Inv, Flags
  <2>2. conf.mode = "time" => pos <= now' + 1
    BY <1>3, <1>4, <2>1, Counts
  <2>3. /\ conf \in Configuration /\ panic = "no" /\ reserveTermination \in BOOLEAN
        /\ nextIOIsSync \in BOOLEAN /\ (nextIOIsSync => conf.mode = "async")
    BY DEF Inv, Flags
  <2> QED
    BY <1>2, <1>3, <2>2, <2>3 DEF Flags
<1>16. Ending'
  BY <1>2 DEF Inv, Ending
<1>17. GenState(conf, pos, io_depth, pBackup) /\ io_depth = Cardinality(ioQueue)
  BY DEF Inv
<1>18. QED
  BY <1>2, <1>3, <1>11, <1>12, <1>13, <1>14, <1>15, <1>16, <1>17 DEF Inv

-----------------------------------------------------------------------------
(* The invariant holds. *)

(* main() up to the event loop *)
LEMMA InitInv ==
    ASSUME Init
    PROVE  Inv
<1>1. conf \in Configuration
  BY DEF Init
<1>2. /\ now = 0 /\ queue = <<[ev |-> Start, tick |-> 0]>> /\ forceStop = FALSE /\ running = FALSE
      /\ pos = 0 /\ io_depth = 0 /\ reserveTermination = FALSE /\ nextIOIsSync = FALSE
      /\ pBackup = NoBackup /\ ioQueue = {} /\ jobs = [c \in Core |-> <<>>]
      /\ completionQueue = {} /\ lastScheduled = 0 /\ panic = "no" /\ ends = 0
      /\ submittedAt = [i \in Ids |-> -1]
  BY DEF Init
<1>3. Core = CoreOf(conf) /\ Ids = IdsOf(conf)
  BY DEF Core, CoreOf, Ids, IdsOf, Tracing
<1>4. /\ conf.depth \in Nat /\ conf.depth > 0 /\ Len(conf.trace) \in Nat /\ Volume \in Nat
      /\ Volume > 0
  BY <1>1, Configured, Constants
<1> DEFINE s == [ev |-> Start, tick |-> 0]
<1>5. Len(queue) = 1 /\ queue[1] = s /\ s.ev = Start /\ s.tick = 0
  BY <1>2
<1>6. Events(queue) = {s}
  BY <1>5 DEF Events
<1>7. Ordered(queue, EvsOf(conf), now)
  <2>1. s \in [ev : EvsOf(conf), tick : Nat]
    BY EventsOf
  <2>2. queue \in Seq([ev : EvsOf(conf), tick : Nat])
    BY <1>2, <2>1
  <2> HIDE DEF s
  <2>3. \A i \in 1 .. Len(queue) : i = 1
    BY <1>5
  <2> QED
    BY <1>2, <1>5, <2>2, <2>3 DEF Ordered
<1> HIDE DEF s
<1>8. HilIdle(conf, jobs, completionQueue, lastScheduled, Events(queue), now)
  <2>1. jobs \in [CoreOf(conf) -> Seq(IdsOf(conf))]
    BY <1>2, <1>3
  <2>2. \A x \in Events(queue) : x.ev # Complete /\ \A d : x.ev # Job(d)
    BY <1>5, <1>6, EventNames
  <2> QED
    BY <1>2, <2>1, <2>2 DEF HilIdle, HilTypes
<1>9. GenState(conf, pos, io_depth, pBackup)
  BY <1>2, <1>4 DEF GenState
<1>10. Pending(conf, pos, io_depth, pBackup, Events(queue))
  <2>1. MayIssue(conf, pos, io_depth, pBackup, 0)
    BY <1>2, <1>4 DEF MayIssue
  <2> QED
    BY <1>2, <1>5, <1>6, <2>1, EventNames DEF Pending
<1>11. AtCores(conf, jobs) = {}
  <2>1. \A c \in CoreOf(conf) : DOMAIN jobs[c] = {}
    BY <1>2, <1>3
  <2> QED
    BY <2>1 DEF AtCores
<1>12. DroppedOf(conf, submittedAt) = {}
  BY <1>2, <1>3 DEF DroppedOf
<1>13. Accounts(conf, jobs, completionQueue, ioQueue, submittedAt, pos)
  <2>1. submittedAt \in [IdsOf(conf) -> Nat \cup {-1}]
    BY <1>2, <1>3
  <2>2. IdsIn(completionQueue) = {}
    BY <1>2 DEF IdsIn
  <2>3. Distinct(conf, jobs)
    BY <1>2, <1>3 DEF Distinct
  <2>4. \A i \in IdsOf(conf) : submittedAt[i] = -1
    BY <1>2, <1>3
  <2> QED
    BY <1>2, <1>11, <1>12, <2>1, <2>2, <2>3, <2>4 DEF Accounts
<1>14. io_depth = Cardinality(ioQueue)
  BY <1>2, FS_EmptySet
<1>15. Flags /\ Ending
  <2>1. conf.mode = "time" => pos <= now + 1
    BY <1>2
  <2>2. Flags
    BY <1>1, <1>2, <2>1 DEF Flags
  <2> QED
    BY <1>2, <2>2 DEF Ending
<1>16. QED
  BY <1>2, <1>7, <1>8, <1>9, <1>10, <1>13, <1>14, <1>15 DEF Inv

(* A submission that is due *)
LEMMA IssueStep ==
    ASSUME Inv, NEW e \in {Start, Submit}, doNextEvent(e), SubmitOne(now', Tail(queue)),
           UNCHANGED <<conf, running>>
    PROVE  Inv'
<1>1. Fired(e)
  BY NextEvent
<1>2. CASE Tracing
  <2>1. NoLine(now', Tail(queue)) \/ NextLine(now', Tail(queue))
    BY <1>2 DEF SubmitOne, TraceSubmit
  <2> QED
    BY <1>1, <1>2, <2>1, NoLineStep, NextLineStep
<1>3. CASE ~Tracing
  <2>1. RequestSubmit(now', Tail(queue))
    BY <1>3 DEF SubmitOne
  <2> QED
    BY <1>1, <1>3, <2>1, RequestSubmitStep
<1>4. QED
  BY <1>2, <1>3

(* A step that changes nothing *)
LEMMA StutterStep ==
    ASSUME Inv, UNCHANGED vars
    PROVE  Inv'
<1>1. /\ conf' = conf /\ now' = now /\ queue' = queue /\ forceStop' = forceStop
      /\ running' = running /\ pos' = pos /\ io_depth' = io_depth
      /\ reserveTermination' = reserveTermination /\ nextIOIsSync' = nextIOIsSync
      /\ pBackup' = pBackup /\ ioQueue' = ioQueue /\ jobs' = jobs
      /\ completionQueue' = completionQueue /\ lastScheduled' = lastScheduled
      /\ panic' = panic /\ ends' = ends /\ submittedAt' = submittedAt
  BY DEF vars, engine, generator, hil
<1>2. Flags' /\ Ending'
  BY <1>1 DEF Inv, Flags, Ending
<1>3. /\ Ordered(queue, EvsOf(conf), now)
      /\ IF running
         THEN HilBusy(conf, jobs, completionQueue, lastScheduled, Events(queue), now)
         ELSE HilIdle(conf, jobs, completionQueue, lastScheduled, Events(queue), now)
      /\ GenState(conf, pos, io_depth, pBackup)
      /\ Pending(conf, pos, io_depth, pBackup, Events(queue))
      /\ Accounts(conf, jobs, completionQueue, ioQueue, submittedAt, pos)
      /\ io_depth = Cardinality(ioQueue)
  BY DEF Inv
<1>4. QED
  BY <1>1, <1>2, <1>3 DEF Inv

(* Every step keeps the invariant.                                         *)
LEMMA InvStep ==
    ASSUME Inv, [Next]_vars
    PROVE  Inv'
<1>1. CASE begin
  <2>1. doNextEvent(Start) /\ SubmitOne(now', Tail(queue)) /\ UNCHANGED <<conf, running>>
    BY <1>1 DEF begin
  <2> QED
    BY <2>1, IssueStep
<1>2. CASE submit
  <2>1. doNextEvent(Submit) /\ SubmitOne(now', Tail(queue)) /\ UNCHANGED <<conf, running>>
    BY <1>2 DEF submit
  <2> QED
    BY <2>1, IssueStep
<1>3. ASSUME NEW c \in Core, jobDone(c)
      PROVE  Inv'
  <2>1. c \in CoreOf(conf)
    BY DEF Core, CoreOf
  <2> QED
    BY <1>3, <2>1, JobDoneStep
<1>4. CASE completion
  BY <1>4, CompletionStep
<1>5. ASSUME NEW r \in completionQueue, callback(r)
      PROVE  Inv'
  BY <1>5, CallbackStep
<1>6. CASE completionEnds
  BY <1>6, CompletionEndsStep
<1>7. CASE UNCHANGED vars
  BY <1>7, StutterStep
<1>8. QED
  BY <1>1, <1>2, <1>3, <1>4, <1>5, <1>6, <1>7 DEF Next

(* The invariant holds of every reachable state.                           *)
LEMMA InvHolds == Spec => []Inv
<1>1. Init => Inv
  BY InitInv
<1>2. Inv /\ [Next]_vars => Inv'
  BY InvStep
<1>3. QED
  BY <1>1, <1>2, PTL DEF Spec

-----------------------------------------------------------------------------
(* The theorems *)

(* The type of every variable *)
LEMMA InvType ==
    ASSUME Inv
    PROVE  TypeOK
<1>1. Core = CoreOf(conf) /\ Ids = IdsOf(conf)
  BY DEF Core, CoreOf, Ids, IdsOf, Tracing
<1>2. HilTypes(conf, jobs, completionQueue, lastScheduled, Events(queue), now)
  BY DEF Inv, HilBusy, HilIdle
<1>3. /\ now \in Nat /\ jobs \in [Core -> Seq(Ids)] /\ lastScheduled \in Nat
      /\ completionQueue \subseteq [id : Ids, finishedAt : Nat]
  BY <1>1, <1>2 DEF HilTypes, RequestOf
<1>4. queue \in Seq(Event)
  <2>1. EvsOf(conf) = {Start, Submit, Complete} \cup {Job(c) : c \in Core}
    BY <1>1 DEF EvsOf
  <2>2. queue \in Seq([ev : EvsOf(conf), tick : Nat])
    BY DEF Inv, Ordered
  <2>3. [ev : EvsOf(conf), tick : Nat] = Event
    BY <2>1 DEF Event
  <2> QED
    BY ONLY <2>2, <2>3
<1>5. {forceStop, running, reserveTermination, nextIOIsSync} \subseteq BOOLEAN
  <2>1. /\ running \in BOOLEAN /\ reserveTermination \in BOOLEAN /\ nextIOIsSync \in BOOLEAN
        /\ forceStop = FALSE \/ forceStop = TRUE
    BY Zenon DEF Inv, Flags, Ending
  <2> QED
    BY ONLY <2>1, Zenon
<1>6. conf \in Configuration /\ panic = "no" /\ ends \in Nat
  BY DEF Inv, Flags, Ending
<1>7. pos \in Nat /\ io_depth \in Nat /\ pBackup \in Nat \cup {NoBackup}
  BY DEF Inv, GenState
<1>8. ioQueue \subseteq Ids /\ submittedAt \in [Ids -> Nat \cup {-1}]
  BY <1>1 DEF Inv, Accounts
<1>9. QED
  BY <1>3, <1>4, <1>5, <1>6, <1>7, <1>8 DEF TypeOK

(* Every request is in one place, from its submission to its callback: at  *)
(* a core, or in the completion queue; the generator waits for exactly     *)
(* those the block I/O layer holds.                                        *)
THEOREM RequestsInOnePlace == Spec => []RequestsAccounted
<1>1. Inv => RequestsAccounted
  <2> SUFFICES ASSUME Inv PROVE RequestsAccounted
    OBVIOUS
  <2>1. TypeOK
    BY InvType
  <2>2. Core = CoreOf(conf) /\ Ids = IdsOf(conf)
    BY DEF Core, CoreOf, Ids, IdsOf, Tracing
  <2>3. AtCore = AtCores(conf, jobs) /\ Finishing = IdsIn(completionQueue)
    BY <2>2 DEF AtCore, AtCores, Finishing, IdsIn
  <2>4. Dropped = DroppedOf(conf, submittedAt)
    BY <2>2 DEF Dropped, DroppedOf, Tracing
  <2>5. /\ io_depth = Cardinality(ioQueue)
        /\ ioQueue = AtCores(conf, jobs) \cup IdsIn(completionQueue) \cup DroppedOf(conf, submittedAt)
        /\ AtCores(conf, jobs) \cap IdsIn(completionQueue) = {}
    BY DEF Inv, Accounts
  <2> QED
    BY <2>1, <2>3, <2>4, <2>5 DEF RequestsAccounted
<1>2. QED
  BY <1>1, InvHolds, PTL

(* No completion is late: whenever the engine looks for the next event the *)
(* first completion is scheduled for its own tick.                         *)
THEOREM CompletionsInTime == Spec => []CompletionScheduled
<1>1. Inv => CompletionScheduled
  <2> SUFFICES ASSUME Inv, ~running, completionQueue # {}
               PROVE  \E i \in DOMAIN queue :
                          queue[i] = [ev |-> Complete, tick |-> First(completionQueue)]
    BY DEF CompletionScheduled
  <2>1. HilIdle(conf, jobs, completionQueue, lastScheduled, Events(queue), now)
    BY DEF Inv
  <2>2. [ev |-> Complete, tick |-> First(completionQueue)] \in Events(queue)
    BY <2>1 DEF HilIdle
  <2>3. Ordered(queue, EvsOf(conf), now)
    BY DEF Inv
  <2>4. /\ DOMAIN queue = 1 .. Len(queue)
        /\ \A x \in Events(queue) : \E i \in 1 .. Len(queue) : queue[i] = x
    BY <2>3, QueueMember
  <2> QED
    BY <2>2, <2>4
<1>2. QED
  BY <1>1, InvHolds, PTL

(* The depth limit holds in every mode that has one, and the checks of     *)
(* MODE_STRICT never fire.                                                 *)
THEOREM DepthLimit == Spec => []DepthKept
<1>1. Inv => DepthKept
  <2> SUFFICES ASSUME Inv PROVE DepthKept
    OBVIOUS
  <2>1. panic = "no"
    BY DEF Inv, Flags
  <2>2. io_depth <= IF conf.mode = "sync" THEN 1 ELSE conf.depth
    BY DEF Inv, GenState
  <2> QED
    BY <2>1, <2>2 DEF DepthKept
<1>2. QED
  BY <1>1, InvHolds, PTL

(* The simulation ends at most once, with nothing in flight, and a replay  *)
(* after all the lines it was to read.                                     *)
THEOREM EndsAtMostOnce == Spec => []EndsOnce
<1>1. Inv => EndsOnce
  <2> SUFFICES ASSUME Inv PROVE EndsOnce
    OBVIOUS
  <2>1. \/ ends = 0
        \/ ends = 1 /\ ioQueue = {} /\ AllRead(conf, pos)
    BY DEF Inv, Ending
  <2> QED
    BY <2>1 DEF EndsOnce, AllRead, Tracing
<1>2. QED
  BY <1>1, InvHolds, PTL
=============================================================================

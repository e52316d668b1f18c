------------------------ MODULE FlashTimelineProofs ------------------------
(***************************************************************************)
(* Proofs about the timelines of channels and dies, for every number of    *)
(* them, every latency, every choice of classes and every order of the     *)
(* ticks at which requests arrive.                                         *)
(***************************************************************************)
EXTENDS FlashTimeline, ListLemmas

-----------------------------------------------------------------------------
(* Sound timelines *)

Slot(classes) == [class : classes, from : Nat, to : Nat]

(* Slots before a tick that lie apart, each as long as its class at least. *)
SoundSlots(slots, classes, bound) ==
    /\ slots \subseteq Slot(classes)
    /\ \A s \in slots : s.from <= s.to /\ s.class <= s.to - s.from + 1 /\ s.to < bound
    /\ \A s, t \in slots : s # t => Apart(s, t)

Sound(line, classes) ==
    /\ line = [slots |-> line.slots, start |-> line.start]
    /\ line.start \in Nat
    /\ SoundSlots(line.slots, classes, line.start)

(* The intervals that commands are given *)
Span == {t \in [from : Nat, to : Nat] : t.from <= t.to}

(* Interval t shares no tick with a slot; with no free time of a line. *)
Clean(slots, t) == \A s \in slots : Apart(s, t)
Clear(line, t)  == Clean(line.slots, t) /\ t.to < line.start

(* The time of length len at tick is free: in the slot that begins at slot *)
(* and is filed where a search for the length looks, or after the start.   *)
FitsSlot(slots, classes, len, slot, tick) ==
    \E s \in slots : s.from = slot /\ s.class >= Base(classes, len) /\ tick + len - 1 <= s.to

Fits(line, classes, len, slot, tick) ==
    /\ slot \in Nat /\ tick \in Nat /\ slot <= tick
    /\ slot = line.start \/ FitsSlot(line.slots, classes, len, slot, tick)

-----------------------------------------------------------------------------
(* Classes *)

(* The class of a length is the largest that it reaches, or the smallest.  *)
LEMMA BaseClass ==
    ASSUME NEW classes, classes \subseteq Nat, classes # {}, NEW len \in Nat
    PROVE  /\ Base(classes, len) \in classes
           /\ Base(classes, len) \in Nat
           /\ \A c \in classes : c <= len => c <= Base(classes, len) /\ Base(classes, len) <= len
           /\ (\A c \in classes : c > len) => \A c \in classes : Base(classes, len) <= c
<1> DEFINE reached == {c \in classes : c <= len}
           up == {c + 1 : c \in reached}
<1>1. Min(classes) \in classes /\ \A y \in classes : Min(classes) <= y
  BY MinOfNat
<1>2. CASE reached = {}
  <2>1. Base(classes, len) = Min(classes)
    BY <1>2 DEF Base
  <2> QED
    BY <1>1, <1>2, <2>1
<1>3. CASE reached # {}
  <2>1. Max(reached) \in reached /\ \A y \in reached : Max(reached) >= y
    <3>1. \A c \in reached : c \in Nat /\ c <= len /\ c + 1 \in 1 .. len + 1
      OBVIOUS
    <3> HIDE DEF reached
    <3>2. up \subseteq 1 .. len + 1 /\ up # {} /\ len + 1 \in Nat
      BY <1>3, <3>1
    <3>3. Max(up) \in up /\ \A y \in up : Max(up) >= y
      BY <3>2, MaxOfInterval
    <3>4. PICK m \in reached : Max(up) = m + 1
      BY <3>3
    <3>5. \A y \in reached : m >= y
      <4> TAKE y \in reached
      <4>1. y + 1 \in up
        OBVIOUS
      <4>2. m + 1 >= y + 1
        BY <3>3, <3>4, <4>1
      <4> QED
        BY <3>1, <4>2
    <3> QED
      BY <3>5 DEF Max
  <2>2. Base(classes, len) = Max(reached)
    BY <1>3 DEF Base
  <2>3. PICK m : m = Max(reached)
    OBVIOUS
  <2>4. /\ m \in classes /\ m \in Nat /\ m <= len
        /\ \A c \in classes : c <= len => m >= c
    BY <2>1, <2>3
  <2>5. Base(classes, len) = m
    BY <2>2, <2>3
  <2> QED
    BY ONLY <2>4, <2>5, len \in Nat, classes \subseteq Nat
<1>4. QED
  BY <1>2, <1>3

(* A longer slot has no smaller class. *)
LEMMA BaseGrows ==
    ASSUME NEW classes, classes \subseteq Nat, classes # {}, NEW m \in Nat, NEW n \in Nat, m <= n
    PROVE  Base(classes, m) <= Base(classes, n)
<1> DEFINE a == Base(classes, m)
           b == Base(classes, n)
<1>1. /\ a \in classes /\ a \in Nat
      /\ \A c \in classes : c <= m => c <= a /\ a <= m
      /\ (\A c \in classes : c > m) => \A c \in classes : a <= c
  BY BaseClass
<1>2. /\ b \in classes /\ b \in Nat
      /\ \A c \in classes : c <= n => c <= b /\ b <= n
  BY BaseClass
<1> HIDE DEF a, b
<1>3. CASE \E c \in classes : c <= m
  <2>1. a <= m
    BY <1>1, <1>3
  <2>2. a <= n
    BY <1>1, <2>1
  <2> QED
    BY <1>1, <1>2, <2>2 DEF a, b
<1>4. CASE \A c \in classes : c > m
  BY <1>1, <1>2, <1>4 DEF a, b
<1>5. QED
  BY <1>3, <1>4

-----------------------------------------------------------------------------
(* Adding a slot *)

Filed(classes, len, from) ==
    [class |-> Base(classes, len), from |-> from, to |-> from + len - 1]

(* Slots that are old, or the piece from .. from + len - 1 *)
Extends(new, slots, from, len) ==
    /\ slots \subseteq new
    /\ \A s \in new : s \in slots \/ (s.from = from /\ s.to = from + len - 1)

(* AddFreeSlot() when a condition holds, and what it leaves *)
AddIf(cond, slots, classes, len, from) ==
    IF cond THEN AddFreeSlot(slots, classes, len, from) ELSE slots

Added(new, slots, classes, bound, cond, len, from) ==
    /\ SoundSlots(new, classes, bound)
    /\ cond => Extends(new, slots, from, len)
    /\ ~cond => new = slots
    /\ cond /\ (\E c \in classes : c <= len) => Filed(classes, len, from) \in new

(* AddFreeSlot() keeps the slots sound when the time is free, files it if  *)
(* it reaches a class, and touches nothing else.                           *)
LEMMA AddSound ==
    ASSUME NEW classes, classes \subseteq Nat, classes # {}, NEW slots, NEW bound \in Nat,
           SoundSlots(slots, classes, bound), NEW len \in Nat \ {0}, NEW from \in Nat,
           from + len <= bound, Clean(slots, Interval(from, len)),
           NEW new, new = AddFreeSlot(slots, classes, len, from)
    PROVE  Added(new, slots, classes, bound, TRUE, len, from)
<1> DEFINE class == Base(classes, len)
           p == Filed(classes, len, from)
<1>1. /\ class \in classes /\ class \in Nat
      /\ \A c \in classes : c <= len => class <= len
  BY BaseClass
<1>2. /\ p.class = class /\ p.from = from /\ p.to = from + len - 1 /\ p.to \in Nat
      /\ p \in Slot(classes)
  BY <1>1 DEF Filed, Slot
<1>3. \A s \in slots : Apart(s, p) /\ Apart(p, s) /\ s.from # from
  <2> SUFFICES ASSUME NEW s \in slots PROVE Apart(s, p) /\ Apart(p, s) /\ s.from # from
    OBVIOUS
  <2>1. s.from \in Nat /\ s.to \in Nat /\ s.from <= s.to
    BY DEF SoundSlots, Slot
  <2>2. s.to < from \/ from + len - 1 < s.from
    BY DEF Clean, Interval, Apart
  <2> QED
    BY <1>2, <2>1, <2>2 DEF Apart
<1>4. CASE len < class
  <2>1. new = slots
    BY <1>4 DEF AddFreeSlot
  <2>2. ~ \E c \in classes : c <= len
    BY <1>1, <1>4
  <2> QED
    BY <2>1, <2>2 DEF Added, Extends
<1>5. CASE ~(len < class)
  <2>1. new = slots \cup {p}
    <3>1. ~ \E s \in slots : s.class = class /\ s.from = from
      BY <1>3
    <3> QED
      BY <1>5, <3>1 DEF AddFreeSlot, Filed
  <2> HIDE DEF p
  <2>2. p.from <= p.to /\ p.class <= p.to - p.from + 1 /\ p.to < bound
    BY <1>1, <1>2, <1>5
  <2>3. SoundSlots(new, classes, bound)
    <3>1. new \subseteq Slot(classes)
      BY <1>2, <2>1 DEF SoundSlots
    <3>2. \A s \in new : s.from <= s.to /\ s.class <= s.to - s.from + 1 /\ s.to < bound
      BY <2>1, <2>2 DEF SoundSlots
    <3>3. \A s, t \in new : s # t => Apart(s, t)
      BY <1>3, <2>1 DEF SoundSlots
    <3> QED
      BY <3>1, <3>2, <3>3 DEF SoundSlots
  <2> QED
    BY <1>2, <2>1, <2>3 DEF p, Added, Extends
<1>6. QED
  BY <1>4, <1>5

-----------------------------------------------------------------------------
(* Searching *)

(* A slot of a sound line *)
LEMMA SlotFacts ==
    ASSUME NEW classes, classes \subseteq Nat, NEW slots, NEW bound \in Nat,
           SoundSlots(slots, classes, bound), NEW s \in slots
    PROVE  /\ s.from \in Nat /\ s.to \in Nat /\ s.class \in Nat /\ s.class \in classes
           /\ s.from <= s.to /\ s.to < bound /\ s.class <= s.to - s.from + 1
BY DEF SoundSlots, Slot

(* Two slots that hold the same tick are one. *)
LEMMA SameSlot ==
    ASSUME NEW classes, classes \subseteq Nat, NEW slots, NEW bound \in Nat,
           SoundSlots(slots, classes, bound), NEW s \in slots, NEW t \in slots,
           NEW x \in Int, s.from <= x, x <= s.to, t.from <= x, x <= t.to
    PROVE  s = t
<1>1. /\ s.from \in Int /\ s.to \in Int /\ t.from \in Int /\ t.to \in Int
  BY DEF SoundSlots, Slot
<1>2. ~Apart(s, t)
  BY <1>1 DEF Apart
<1>3. QED
  BY <1>2 DEF SoundSlots

(* What FindFreeTime() returns: the one slot around the tick or the first  *)
(* one after it in which the length fits, or that there is none.           *)
Around(slots, classes, len, tick, s) ==
    /\ s \in slots /\ s.class >= Base(classes, len) /\ s.from <= tick /\ tick + len - 1 <= s.to
After(slots, classes, len, tick, s) ==
    /\ s \in slots /\ s.class >= Base(classes, len) /\ s.from > tick /\ s.from + len - 1 <= s.to

(* FindFreeTime() returns one of these three answers and no other.         *)
LEMMA FindResult ==
    ASSUME NEW classes, classes \subseteq Nat, classes # {}, NEW slots, NEW bound \in Nat,
           SoundSlots(slots, classes, bound), NEW len \in Nat \ {0}, NEW tick \in Nat,
           NEW r, r = FindFreeTime(slots, classes, len, tick)
    PROVE  \/ \E s : /\ Around(slots, classes, len, tick, s)
                     /\ r = [found |-> TRUE, conflicts |-> FALSE, start |-> s.from]
           \/ /\ \A s : ~Around(slots, classes, len, tick, s)
              /\ \E s : /\ After(slots, classes, len, tick, s)
                        /\ r = [found |-> TRUE, conflicts |-> TRUE, start |-> s.from]
           \/ /\ \A s : ~Around(slots, classes, len, tick, s)
              /\ r = [found |-> FALSE, conflicts |-> FALSE, start |-> 0]
<1> DEFINE filed == {s \in slots : s.class >= Base(classes, len)}
           Begun(c) == {s.from : s \in {t \in filed : t.class = c /\ t.from <= tick}}
           LastBegun(c) == Max(Begun(c))
           around == {s \in filed : /\ s.from <= tick /\ s.from = LastBegun(s.class)
                                   /\ s.to >= len + tick - 1}
           later  == {s.from : s \in {t \in filed : t.from > tick /\ t.to >= len + t.from - 1}}
<1>1. r = CASE around # {} ->
                 [found |-> TRUE, conflicts |-> FALSE,
                  start |-> (CHOOSE s \in around : \A t \in around : s.class <= t.class).from]
            [] around = {} /\ later # {} ->
                 [found |-> TRUE, conflicts |-> TRUE, start |-> Min(later)]
            [] OTHER -> [found |-> FALSE, conflicts |-> FALSE, start |-> 0]
  BY DEF FindFreeTime
<1>2. \A s \in slots : s.from \in Nat /\ s.to \in Nat /\ s.class \in Nat /\ s.from <= s.to
  BY SlotFacts
<1>3. \A s : Around(slots, classes, len, tick, s) <=> s \in around
  <2>1. ASSUME NEW s, Around(slots, classes, len, tick, s)
        PROVE  s \in around
    <3>1. /\ s \in filed /\ s.from <= tick /\ s.to >= len + tick - 1
          /\ s.from \in Nat /\ s.to \in Nat /\ s.class \in Nat
      BY <1>2, <2>1 DEF Around
    <3>2. s.from \in Begun(s.class)
      BY <3>1
    <3>3. \A x \in Begun(s.class) : x \in Nat /\ x <= s.from
      <4> SUFFICES ASSUME NEW t \in filed, t.class = s.class, t.from <= tick, t.from > s.from
                   PROVE  FALSE
        BY <1>2, <3>1
      <4>1. t.from \in Nat /\ t.to \in Nat /\ t.from <= t.to /\ t \in slots /\ s \in slots
        BY <1>2, <3>1
      <4>2. s.from <= t.from /\ t.from <= s.to /\ t.from <= t.from /\ t.from \in Int
        BY <3>1, <4>1
      <4>3. s = t
        BY ONLY <4>1, <4>2, SameSlot, SoundSlots(slots, classes, bound), classes \subseteq Nat,
                bound \in Nat
      <4> QED
        BY <3>1, <4>3
    <3> HIDE DEF Begun
    <3>4. Max(Begun(s.class)) = s.from
      <4>1. \A x \in Begun(s.class) : s.from >= x
        BY <3>1, <3>3
      <4>2. \A x \in Begun(s.class) : (\A y \in Begun(s.class) : x >= y) => x = s.from
        BY <3>1, <3>2, <3>3
      <4> QED
        BY <3>2, <4>1, <4>2 DEF Max
    <3> QED
      BY <3>1, <3>4
  <2>2. ASSUME NEW s, s \in around
        PROVE  Around(slots, classes, len, tick, s)
    BY <1>2, <2>2 DEF Around
  <2> QED
    BY <2>1, <2>2
<1>4. \A s, t \in around : s = t
  <2> SUFFICES ASSUME NEW s \in around, NEW t \in around PROVE s = t
    OBVIOUS
  <2>1. /\ s \in slots /\ t \in slots /\ s.from <= tick /\ t.from <= tick
        /\ s.to >= len + tick - 1 /\ t.to >= len + tick - 1
    OBVIOUS
  <2>2. tick <= s.to /\ tick <= t.to /\ tick \in Int
    BY <1>2, <2>1
  <2> QED
    BY <2>1, <2>2, SameSlot
<1>5. CASE around # {}
  <2>1. PICK s : s \in around
    BY <1>5
  <2> HIDE DEF around
  <2>2. s.class <= s.class
    BY <1>2, <1>3, <2>1 DEF Around
  <2>3. (CHOOSE x \in around : \A t \in around : x.class <= t.class) = s
    BY <1>4, <2>1, <2>2
  <2> QED
    BY <1>1, <1>3, <1>5, <2>1, <2>3
<1>6. CASE around = {} /\ later # {}
  <2> HIDE DEF around
  <2>1. later \subseteq Nat
    BY <1>2
  <2>2. Min(later) \in later
    BY <1>6, <2>1, MinOfNat
  <2>3. PICK s \in filed : /\ s.from > tick /\ s.to >= len + s.from - 1
                           /\ Min(later) = s.from
    BY <2>2
  <2>4. After(slots, classes, len, tick, s)
    BY <1>2, <2>3 DEF After
  <2> HIDE DEF later
  <2>5. r = [found |-> TRUE, conflicts |-> TRUE, start |-> s.from]
    BY <1>1, <1>6, <2>3
  <2> QED
    BY <1>3, <1>6, <2>4, <2>5
<1>7. CASE around = {} /\ later = {}
  <2> HIDE DEF around, later
  <2> QED
    BY <1>1, <1>3, <1>7
<1>8. QED
  BY <1>5, <1>6, <1>7

Found(line, classes, len, tick, e) ==
    /\ Fits(line, classes, len, e.slot, e.tick)
    /\ e.slot \in Nat /\ e.tick \in Nat /\ tick <= e.tick /\ e.slot <= line.start
    /\ e.tick = tick \/ e.tick = e.slot

(* What the callers of FindFreeTime() make of it is free, not before the   *)
(* tick they asked for, and later than that only if it is the first tick   *)
(* of a slot or of the time after the start point.                         *)
LEMMA EarliestFits ==
    ASSUME NEW classes, classes \subseteq Nat, classes # {}, NEW line, Sound(line, classes),
           NEW len \in Nat \ {0}, NEW tick \in Nat
    PROVE  Found(line, classes, len, tick, Earliest(line, classes, len, tick))
<1> DEFINE e == Earliest(line, classes, len, tick)
<1>1. line.start \in Nat /\ SoundSlots(line.slots, classes, line.start)
  BY DEF Sound
<1>2. PICK r : r = FindFreeTime(line.slots, classes, len, tick)
  OBVIOUS
<1>3. e = IF r.found THEN [slot |-> r.start, tick |-> IF r.conflicts THEN r.start ELSE tick]
          ELSE [slot |-> line.start, tick |-> Larger(tick, line.start)]
  BY <1>2 DEF Earliest
<1> HIDE DEF e
<1>4. ASSUME NEW s, Around(line.slots, classes, len, tick, s),
             r = [found |-> TRUE, conflicts |-> FALSE, start |-> s.from]
      PROVE  /\ Fits(line, classes, len, e.slot, e.tick)
             /\ e.slot \in Nat /\ e.tick = tick /\ e.slot <= line.start
  <2>1. e.slot = s.from /\ e.tick = tick
    BY <1>3, <1>4
  <2>2. s \in line.slots /\ s.from <= tick
    BY <1>4 DEF Around
  <2>3. s.from \in Nat /\ s.from <= line.start
    BY <1>1, <2>2 DEF SoundSlots, Slot
  <2>4. FitsSlot(line.slots, classes, len, s.from, tick)
    BY <1>4 DEF Around, FitsSlot
  <2> QED
    BY <2>1, <2>2, <2>3, <2>4 DEF Fits
<1>5. ASSUME NEW s, After(line.slots, classes, len, tick, s),
             r = [found |-> TRUE, conflicts |-> TRUE, start |-> s.from]
      PROVE  /\ Fits(line, classes, len, e.slot, e.tick)
             /\ e.slot \in Nat /\ e.tick = e.slot /\ tick <= e.tick /\ e.slot <= line.start
  <2>1. e.slot = s.from /\ e.tick = s.from
    BY <1>3, <1>5
  <2>2. s \in line.slots /\ s.from > tick
    BY <1>5 DEF After
  <2>3. s.from \in Nat /\ s.from <= line.start
    BY <1>1, <2>2 DEF SoundSlots, Slot
  <2>4. FitsSlot(line.slots, classes, len, s.from, s.from)
    BY <1>5 DEF After, FitsSlot
  <2> QED
    BY <2>1, <2>2, <2>3, <2>4 DEF Fits
<1>6. ASSUME r = [found |-> FALSE, conflicts |-> FALSE, start |-> 0]
      PROVE  /\ Fits(line, classes, len, e.slot, e.tick)
             /\ e.slot = line.start /\ e.tick \in Nat /\ tick <= e.tick
             /\ e.tick = tick \/ e.tick = e.slot
  <2>1. e.slot = line.start /\ e.tick = Larger(tick, line.start)
    BY <1>3, <1>6
  <2> QED
    BY <1>1, <2>1 DEF Larger, Fits
<1>7. \/ \E s : /\ Around(line.slots, classes, len, tick, s)
                /\ r = [found |-> TRUE, conflicts |-> FALSE, start |-> s.from]
      \/ \E s : /\ After(line.slots, classes, len, tick, s)
                /\ r = [found |-> TRUE, conflicts |-> TRUE, start |-> s.from]
      \/ r = [found |-> FALSE, conflicts |-> FALSE, start |-> 0]
  BY <1>1, <1>2, FindResult
<1>8. QED
  BY <1>1, <1>4, <1>5, <1>6, <1>7 DEF Found, e

(* A tick lies in the free time of one slot at most. *)
LEMMA FitsOnce ==
    ASSUME NEW classes, classes \subseteq Nat, NEW line, Sound(line, classes),
           NEW m \in Nat \ {0}, NEW n \in Nat \ {0}, NEW a, NEW b, NEW tick \in Nat,
           Fits(line, classes, m, a, tick), Fits(line, classes, n, b, tick)
    PROVE  a = b
<1>1. line.start \in Nat /\ SoundSlots(line.slots, classes, line.start)
  BY DEF Sound
<1>2. ASSUME NEW len \in Nat \ {0}, NEW x, FitsSlot(line.slots, classes, len, x, tick),
             x <= tick
      PROVE  \E s \in line.slots : s.from = x /\ s.from <= tick /\ tick <= s.to /\ tick < line.start
  <2>1. PICK s \in line.slots : s.from = x /\ tick + len - 1 <= s.to
    BY <1>2 DEF FitsSlot
  <2>2. s.to \in Nat /\ s.to < line.start
    BY <1>1 DEF SoundSlots, Slot
  <2>3. tick <= s.to /\ tick < line.start
    BY <1>1, <2>1, <2>2
  <2> QED
    BY <1>2, <2>1, <2>3
<1>3. CASE a = line.start /\ b = line.start
  BY <1>3
<1>4. CASE FitsSlot(line.slots, classes, m, a, tick) /\ FitsSlot(line.slots, classes, n, b, tick)
  <2>1. PICK s \in line.slots : s.from = a /\ s.from <= tick /\ tick <= s.to
    BY <1>2, <1>4 DEF Fits
  <2>2. PICK t \in line.slots : t.from = b /\ t.from <= tick /\ tick <= t.to
    BY <1>2, <1>4 DEF Fits
  <2>3. tick \in Int
    OBVIOUS
  <2>4. s = t
    BY ONLY <1>1, <2>1, <2>2, <2>3, SameSlot, classes \subseteq Nat
  <2> QED
    BY <2>1, <2>2, <2>4
<1>5. CASE a = line.start /\ FitsSlot(line.slots, classes, n, b, tick)
  <2>1. tick < line.start
    BY <1>2, <1>5 DEF Fits
  <2> QED
    BY <1>1, <1>5, <2>1 DEF Fits
<1>6. CASE FitsSlot(line.slots, classes, m, a, tick) /\ b = line.start
  <2>1. tick < line.start
    BY <1>2, <1>6 DEF Fits
  <2> QED
    BY <1>1, <1>6, <2>1 DEF Fits
<1>7. QED
  BY <1>3, <1>4, <1>5, <1>6 DEF Fits

(* A search at a tick where the length is free finds that tick. *)
LEMMA EarliestExact ==
    ASSUME NEW classes, classes \subseteq Nat, classes # {}, NEW line, Sound(line, classes),
           NEW len \in Nat \ {0}, NEW tick \in Nat, NEW slot,
           Fits(line, classes, len, slot, tick)
    PROVE  /\ Earliest(line, classes, len, tick).slot = slot
           /\ Earliest(line, classes, len, tick).tick = tick
<1> DEFINE e == Earliest(line, classes, len, tick)
<1>1. line.start \in Nat /\ SoundSlots(line.slots, classes, line.start)
  BY DEF Sound
<1>2. /\ Fits(line, classes, len, e.slot, e.tick)
      /\ e.slot \in Nat /\ e.tick \in Nat /\ tick <= e.tick /\ e.slot <= line.start
      /\ e.tick = tick \/ e.tick = e.slot
  <2>1. Found(line, classes, len, tick, e)
    BY EarliestFits
  <2> QED
    BY <2>1 DEF Found
<1> HIDE DEF e
<1>3. e.tick = tick
  <2>1. CASE slot = line.start
    BY <1>1, <1>2, <2>1 DEF Fits
  <2>2. CASE FitsSlot(line.slots, classes, len, slot, tick)
    <3>1. PICK s \in line.slots :
             s.from = slot /\ s.class >= Base(classes, len) /\ tick + len - 1 <= s.to
      BY <2>2 DEF FitsSlot
    <3>2. Around(line.slots, classes, len, tick, s)
      BY <3>1 DEF Around, Fits
    <3>3. PICK r : r = FindFreeTime(line.slots, classes, len, tick)
      OBVIOUS
    <3>4. \E t : r = [found |-> TRUE, conflicts |-> FALSE, start |-> t]
      BY <1>1, <3>2, <3>3, FindResult
    <3>5. r.found /\ ~r.conflicts
      BY <3>4
    <3> QED
      BY <3>3, <3>5 DEF Earliest, e
  <2> QED
    BY <2>1, <2>2 DEF Fits
<1>4. e.slot = slot
  BY <1>2, <1>3, FitsOnce
<1>5. QED
  BY <1>3, <1>4 DEF e

-----------------------------------------------------------------------------
(* Taking time *)

(* A part of a time that is clear of all slots is clear of them. *)
LEMMA CleanPart ==
    ASSUME NEW classes, NEW slots, NEW bound, SoundSlots(slots, classes, bound),
           NEW a \in Nat, NEW b \in Nat, NEW from \in Nat, NEW len \in Nat \ {0},
           Clean(slots, [from |-> a, to |-> b]), a <= from, from + len - 1 <= b
    PROVE  Clean(slots, Interval(from, len))
<1> SUFFICES ASSUME NEW s \in slots PROVE Apart(s, Interval(from, len))
  BY DEF Clean
<1>1. s.from \in Nat /\ s.to \in Nat
  BY DEF SoundSlots, Slot
<1>2. s.to < a \/ b < s.from
  BY DEF Clean, Apart
<1>3. QED
  BY <1>1, <1>2 DEF Apart, Interval

(* What a piece that is added lies apart from stays clear. *)
LEMMA CleanExtends ==
    ASSUME NEW new, NEW slots, NEW from, NEW len, Extends(new, slots, from, len), NEW t,
           Clean(slots, t), Apart(Interval(from, len), t)
    PROVE  Clean(new, t)
<1> SUFFICES ASSUME NEW s \in new PROVE Apart(s, t)
  BY DEF Clean
<1>1. CASE s \in slots
  BY <1>1 DEF Clean
<1>2. CASE s.from = from /\ s.to = from + len - 1
  BY <1>2 DEF Apart, Interval
<1>3. QED
  BY <1>1, <1>2 DEF Extends

(* AddFreeSlot() where it is called under a condition *)
LEMMA AddIfSound ==
    ASSUME NEW classes, classes \subseteq Nat, classes # {}, NEW slots, NEW bound \in Nat,
           SoundSlots(slots, classes, bound), NEW cond \in BOOLEAN, NEW len \in Int,
           NEW from \in Nat,
           cond => len > 0 /\ from + len <= bound /\ Clean(slots, Interval(from, len)),
           NEW new, new = AddIf(cond, slots, classes, len, from)
    PROVE  Added(new, slots, classes, bound, cond, len, from)
<1>1. CASE cond
  <2>1. /\ new = AddFreeSlot(slots, classes, len, from) /\ len \in Nat \ {0}
        /\ from + len <= bound /\ Clean(slots, Interval(from, len))
    BY <1>1 DEF AddIf
  <2>2. Added(new, slots, classes, bound, TRUE, len, from)
    BY ONLY <2>1, AddSound, classes \subseteq Nat, classes # {}, bound \in Nat, from \in Nat,
            SoundSlots(slots, classes, bound)
  <2> QED
    BY <1>1, <2>2
<1>2. CASE ~cond
  <2>1. new = slots
    BY <1>2 DEF AddIf
  <2> QED
    BY <1>2, <2>1 DEF Added
<1>3. QED
  BY <1>1, <1>2

(* What taking the time of length len at tick leaves of a line: a sound    *)
(* line in which all that was clear is clear, the time that was taken too  *)
(* unless it was only cut off, and what is free later is still found, if   *)
(* it reaches a class.                                                     *)
Keeps(line, new, classes, tick, len) ==
    \A n \in Nat \ {0}, s \in Nat, x \in Nat :
        Fits(line, classes, n, s, x) /\ tick + len <= x /\ (\E c \in classes : c <= n)
            => \E y : Fits(new, classes, n, y, x)

Leaves(line, new, classes, len, tick, split) ==
    /\ Sound(new, classes)
    /\ \A t \in Span : Clear(line, t) => Clear(new, t)
    /\ ~split => Clear(new, Interval(tick, len)) /\ Keeps(line, new, classes, tick, len)

Taken(line, r, classes, len, tick, split) ==
    ~r.fails /\ Leaves(line, Line(r), classes, len, tick, split)

(* The time after the start point is taken. *)
LEMMA InsertAtStart ==
    ASSUME NEW classes, classes \subseteq Nat, classes # {}, NEW line, Sound(line, classes),
           NEW len \in Nat \ {0}, NEW tick \in Nat, NEW split \in BOOLEAN,
           line.start <= tick,
           NEW r, r = InsertFreeSlot(line, classes, len, tick, line.start, split)
    PROVE  Taken(line, r, classes, len, tick, split)
<1> DEFINE start == line.start
           m == AddIf(split, line.slots, classes, len, tick)
           b == AddIf(tick > start, m, classes, tick - start, start)
           new == [slots |-> b, start |-> tick + len]
<1>1. /\ start \in Nat /\ SoundSlots(line.slots, classes, start)
      /\ tick + len \in Nat
  BY DEF Sound
<1>2. Line(r) = new /\ r.fails = (tick < start)
  BY DEF InsertFreeSlot, AddIf, Line
<1> HIDE DEF m, b
<1>3. \A s \in line.slots : s.from \in Nat /\ s.to \in Nat /\ s.from <= s.to /\ s.to < start
  BY <1>1 DEF SoundSlots, Slot
<1>4. SoundSlots(line.slots, classes, tick + len)
  <2>1. \A s \in line.slots : s.to < tick + len
    BY <1>1, <1>3
  <2> QED
    BY <1>1, <2>1 DEF SoundSlots
<1>5. Clean(line.slots, Interval(tick, len))
  BY <1>1, <1>3 DEF Clean, Apart, Interval
<1>6. /\ SoundSlots(m, classes, tick + len)
      /\ split => Extends(m, line.slots, tick, len)
      /\ ~split => m = line.slots
  <2>1. /\ split => len > 0 /\ tick + len <= tick + len /\ Clean(line.slots, Interval(tick, len))
        /\ len \in Int /\ m = AddIf(split, line.slots, classes, len, tick)
    BY <1>1, <1>5 DEF m
  <2>2. Added(m, line.slots, classes, tick + len, split, len, tick)
    BY ONLY <1>1, <1>4, <2>1, AddIfSound, classes \subseteq Nat, classes # {}, split \in BOOLEAN,
            tick \in Nat
  <2> QED
    BY <2>2 DEF Added
<1>7. ASSUME NEW t \in [from : Nat, to : Nat], t.from <= t.to, Clean(line.slots, t),
             Apart(Interval(tick, len), t) \/ ~split
      PROVE  Clean(m, t)
  BY <1>6, <1>7, CleanExtends
<1>8. ASSUME tick > start
      PROVE  Clean(m, Interval(start, tick - start))
  <2> DEFINE t == Interval(start, tick - start)
  <2>1. t \in [from : Nat, to : Nat] /\ t.from <= t.to /\ t.from = start /\ t.to = tick - 1
    BY <1>1, <1>8 DEF Interval
  <2>2. Clean(line.slots, t)
    BY <1>3, <2>1 DEF Clean, Apart
  <2>3. Apart(Interval(tick, len), t)
    BY <2>1 DEF Apart, Interval
  <2> QED
    BY <1>7, <2>1, <2>2, <2>3
<1>9. /\ SoundSlots(b, classes, tick + len)
      /\ tick > start => Extends(b, m, start, tick - start)
      /\ ~(tick > start) => b = m
  <2>1. /\ tick - start \in Int /\ (tick > start) \in BOOLEAN
        /\ tick > start => tick - start > 0 /\ start + (tick - start) <= tick + len
        /\ b = AddIf(tick > start, m, classes, tick - start, start)
    BY <1>1 DEF b
  <2>2. tick > start => /\ tick - start > 0 /\ start + (tick - start) <= tick + len
                        /\ Clean(m, Interval(start, tick - start))
    BY <1>8, <2>1
  <2>3. PICK cond : cond = (tick > start)
    OBVIOUS
  <2>4. PICK n : n = tick - start
    OBVIOUS
  <2>5. /\ cond => n > 0 /\ start + n <= tick + len /\ Clean(m, Interval(start, n))
        /\ cond \in BOOLEAN /\ n \in Int /\ b = AddIf(cond, m, classes, n, start)
    BY <2>1, <2>2, <2>3, <2>4
  <2> HIDE DEF start
  <2>6. Added(b, m, classes, tick + len, cond, n, start)
    BY ONLY <1>1, <1>6, <2>5, AddIfSound, classes \subseteq Nat, classes # {}
  <2> QED
    BY <2>3, <2>4, <2>6 DEF Added
<1>10. ASSUME NEW t \in [from : Nat, to : Nat], t.from <= t.to, Clean(line.slots, t),
              Apart(Interval(tick, len), t) \/ ~split,
              tick > start => Apart(Interval(start, tick - start), t)
       PROVE  Clean(b, t)
  BY <1>7, <1>9, <1>10, CleanExtends
<1>11. Sound(new, classes)
  BY <1>1, <1>9 DEF Sound
<1>12. ASSUME NEW t \in [from : Nat, to : Nat], t.from <= t.to, Clear(line, t)
       PROVE  Clear(new, t)
  <2>1. Clean(line.slots, t) /\ t.to < start
    BY <1>12 DEF Clear
  <2>2. Apart(Interval(tick, len), t)
    BY <1>1, <2>1 DEF Apart, Interval
  <2>3. Apart(Interval(start, tick - start), t)
    BY <1>1, <2>1 DEF Apart, Interval
  <2>4. t.to < tick + len
    BY <1>1, <2>1
  <2> QED
    BY <1>10, <1>12, <2>1, <2>2, <2>3, <2>4 DEF Clear
<1>13. ASSUME ~split
       PROVE  Clear(new, Interval(tick, len))
  <2> DEFINE t == Interval(tick, len)
  <2>1. /\ t \in [from : Nat, to : Nat] /\ t.from <= t.to /\ t.to < tick + len /\ t.from = tick
    BY DEF Interval
  <2>2. tick > start => Apart(Interval(start, tick - start), t)
    BY <1>1, <2>1 DEF Apart, Interval
  <2>3. Clean(b, t)
    BY <1>5, <1>10, <1>13, <2>1, <2>2
  <2> QED
    BY <2>1, <2>3 DEF Clear
<1>14. Keeps(line, new, classes, tick, len)
  <2> SUFFICES ASSUME NEW n \in Nat \ {0}, NEW x \in Nat, tick + len <= x
               PROVE  Fits(new, classes, n, tick + len, x)
    BY DEF Keeps
  <2> QED
    BY <1>1 DEF Fits
<1>15. ~r.fails
  <2>1. ~(tick < start)
    BY <1>1
  <2> QED
    BY ONLY <1>2, <2>1
<1> HIDE DEF new, start
<1>16. Leaves(line, new, classes, len, tick, split)
  BY <1>11, <1>12, <1>13, <1>14 DEF Leaves, Span
<1>17. QED
  BY <1>2, <1>15, <1>16 DEF Taken

(* The same as CleanExtends, for a piece added under a condition *)
LEMMA CleanAdded ==
    ASSUME NEW new, NEW slots, NEW classes, NEW bound, NEW cond \in BOOLEAN, NEW from, NEW len,
           Added(new, slots, classes, bound, cond, len, from), NEW t,
           Clean(slots, t), cond => Apart(Interval(from, len), t)
    PROVE  Clean(new, t)
<1>1. CASE cond
  BY <1>1, CleanExtends DEF Added
<1>2. CASE ~cond
  BY <1>2 DEF Added
<1>3. QED
  BY <1>1, <1>2

(* The time is taken from a slot: what is left of the slot before and      *)
(* after it is filed again.                                                *)
LEMMA InsertInSlot ==
    ASSUME NEW classes, classes \subseteq Nat, classes # {}, NEW line, Sound(line, classes),
           NEW len \in Nat \ {0}, NEW tick \in Nat, NEW split \in BOOLEAN, NEW slot \in Nat,
           slot # line.start, slot <= tick, FitsSlot(line.slots, classes, len, slot, tick),
           NEW r, r = InsertFreeSlot(line, classes, len, tick, slot, split)
    PROVE  Taken(line, r, classes, len, tick, split)
<1> DEFINE start == line.start
           slots == line.slots
           filed == {s \in slots : s.class >= Base(classes, len) /\ s.from = slot}
<1>1. /\ start \in Nat /\ SoundSlots(slots, classes, start) /\ tick + len \in Nat
  BY DEF Sound
<1>2. PICK old \in slots : old.from = slot /\ old.class >= Base(classes, len)
                           /\ tick + len - 1 <= old.to
  BY DEF FitsSlot
<1>3. /\ old.from \in Nat /\ old.to \in Nat /\ old.class \in Nat
      /\ old.from <= old.to /\ old.to < start
  BY <1>1 DEF SoundSlots, Slot
<1>4. \A s \in filed : s = old
  <2> SUFFICES ASSUME NEW s \in slots, s.from = slot PROVE s = old
    OBVIOUS
  <2>1. s.from <= s.to
    BY <1>1 DEF SoundSlots
  <2>2. /\ s.from <= slot /\ slot <= s.to /\ old.from <= slot /\ slot <= old.to /\ slot \in Int
    BY <1>2, <1>3, <2>1
  <2> QED
    BY ONLY <1>1, <2>2, SameSlot, old \in slots, s \in slots, classes \subseteq Nat
<1>5. old \in filed /\ old.class <= old.class
  BY <1>2, <1>3
<1>6. (CHOOSE s \in filed : \A t \in filed : s.class <= t.class) = old
  <2> HIDE DEF filed
  <2> QED
    BY <1>4, <1>5
<1> DEFINE rest == slots \ {old}
           n0 == tick - slot
           n2 == old.to - (tick + len - 1)
           b == AddIf(tick > slot, rest, classes, n0, slot)
           m == AddIf(split, b, classes, len, tick)
           c == AddIf(old.to > len + tick - 1, m, classes, n2, tick + len)
           new == [slots |-> c, start |-> start]
<1>7. /\ Line(r) = new /\ r.fails = (tick < slot \/ old.to - tick + 1 < len)
  <2>1. filed # {}
    BY <1>5
  <2>2. r = [slots |-> c, start |-> start, fails |-> tick < slot \/ old.to - tick + 1 < len]
    <3> DEFINE o == CHOOSE s \in filed : \A t \in filed : s.class <= t.class
               Before(x) == AddIf(tick > slot, x, classes, tick - slot, slot)
               Mid(x) == AddIf(split, x, classes, len, tick)
               Rest(x) == AddIf(o.to > len + tick - 1, x, classes, o.to - (tick + len - 1),
                                tick + len)
    <3>1. r = CASE slot = start ->
                   [slots |-> Before(Mid(slots)), start |-> tick + len, fails |-> tick < slot]
              [] slot # start /\ filed # {} ->
                   [slots |-> Rest(Mid(Before(slots \ {o}))), start |-> start,
                    fails |-> tick < slot \/ o.to - tick + 1 < len]
              [] OTHER -> [slots |-> slots, start |-> start, fails |-> FALSE]
      BY DEF InsertFreeSlot, AddIf
    <3>2. o = old
      BY <1>6
    <3> HIDE DEF o, filed
    <3>3. r = [slots |-> Rest(Mid(Before(slots \ {o}))), start |-> start,
               fails |-> tick < slot \/ o.to - tick + 1 < len]
      <4> HIDE DEF Rest, Mid, Before
      <4> QED
        BY <2>1, <3>1
    <3> QED
      BY <3>2, <3>3
  <2> QED
    BY <2>2 DEF Line
<1> HIDE DEF b, m, c, filed
<1>8. n0 \in Int /\ n2 \in Int
  BY <1>1, <1>3
<1>b. (tick > slot) \in BOOLEAN /\ (old.to > len + tick - 1) \in BOOLEAN
  OBVIOUS
<1>9. PICK before \in BOOLEAN : before = (tick > slot)
  BY ONLY <1>b, Zenon
<1>10. PICK behind \in BOOLEAN : behind = (old.to > len + tick - 1)
  BY ONLY <1>b, Zenon
<1>a. (before <=> tick > slot) /\ (behind <=> old.to > len + tick - 1)
  BY ONLY <1>9, <1>10
<1>11. SoundSlots(rest, classes, start)
  BY <1>1 DEF SoundSlots
<1>12. \A s \in rest : Apart(s, old) /\ s.from \in Nat /\ s.to \in Nat
  BY <1>1 DEF SoundSlots, Slot
<1>13. ASSUME NEW x \in Nat, NEW l \in Nat \ {0}, slot <= x, x + l - 1 <= old.to
       PROVE  Clean(rest, Interval(x, l))
  <2>1. Clean(rest, [from |-> old.from, to |-> old.to])
    BY <1>12 DEF Clean, Apart
  <2> QED
    BY ONLY <1>2, <1>3, <1>11, <1>13, <2>1, CleanPart
<1>14. Added(b, rest, classes, start, before, n0, slot)
  <2>1. before => n0 > 0 /\ slot + n0 <= start /\ Clean(rest, Interval(slot, n0))
    <3>1. ASSUME tick > slot
          PROVE  n0 > 0 /\ slot + n0 <= start /\ n0 \in Nat \ {0} /\ slot + n0 - 1 <= old.to
                 /\ slot <= slot
      BY <1>1, <1>2, <1>3, <3>1
    <3> HIDE DEF n0
    <3> QED
      BY <1>9, <1>13, <3>1
  <2>2. before \in BOOLEAN /\ b = AddIf(before, rest, classes, n0, slot)
    BY <1>9 DEF b
  <2> HIDE DEF n0, rest, start
  <2> QED
    BY ONLY <1>1, <1>8, <1>11, <2>1, <2>2, AddIfSound, classes \subseteq Nat, classes # {},
            slot \in Nat
<1>15. Clean(b, Interval(tick, len))
  <2>1. Clean(rest, Interval(tick, len))
    BY <1>2, <1>13
  <2>2. Apart(Interval(slot, n0), Interval(tick, len)) /\ before \in BOOLEAN
    BY <1>9 DEF Apart, Interval
  <2> HIDE DEF n0, rest
  <2> QED
    BY ONLY <1>14, <2>1, <2>2, CleanAdded
<1>16. Added(m, b, classes, start, split, len, tick)
  <2>1. split => len > 0 /\ tick + len <= start /\ Clean(b, Interval(tick, len))
    BY <1>1, <1>2, <1>3, <1>15
  <2>2. m = AddIf(split, b, classes, len, tick) /\ SoundSlots(b, classes, start) /\ len \in Int
    BY <1>14 DEF m, Added
  <2> HIDE DEF start
  <2> QED
    BY ONLY <1>1, <2>1, <2>2, AddIfSound, classes \subseteq Nat, classes # {},
            tick \in Nat, split \in BOOLEAN
<1>17. ASSUME behind
       PROVE  n2 \in Nat \ {0} /\ Clean(m, Interval(tick + len, n2))
  <2>1. n2 \in Nat \ {0} /\ tick + len + n2 - 1 <= old.to /\ slot <= tick + len
    BY <1>2, <1>3, <1>a, <1>17
  <2>2. /\ Apart(Interval(slot, n0), Interval(tick + len, n2))
        /\ Apart(Interval(tick, len), Interval(tick + len, n2))
    BY <2>1 DEF Apart, Interval
  <2> HIDE DEF n2, n0
  <2>3. Clean(rest, Interval(tick + len, n2))
    BY <1>1, <1>13, <2>1
  <2> HIDE DEF rest
  <2>4. Clean(b, Interval(tick + len, n2))
    BY ONLY <1>14, <2>2, <2>3, CleanAdded, before \in BOOLEAN
  <2>5. Clean(m, Interval(tick + len, n2))
    BY ONLY <1>16, <2>2, <2>4, CleanAdded, split \in BOOLEAN
  <2> QED
    BY <2>1, <2>5
<1>18. Added(c, m, classes, start, behind, n2, tick + len)
  <2>1. behind => n2 > 0 /\ tick + len + n2 <= start /\ Clean(m, Interval(tick + len, n2))
    <3>1. tick + len + n2 <= start
      BY <1>1, <1>3
    <3>2. behind => n2 > 0
      BY <1>17
    <3> QED
      BY <1>17, <3>1, <3>2
  <2>2. /\ c = AddIf(behind, m, classes, n2, tick + len) /\ SoundSlots(m, classes, start)
        /\ behind \in BOOLEAN
    BY <1>10, <1>16 DEF c, Added
  <2>3. PICK y \in Nat : y = tick + len
    BY <1>1
  <2> HIDE DEF start, n2
  <2>4. Added(c, m, classes, start, behind, n2, y)
    BY ONLY <1>1, <1>8, <2>1, <2>2, <2>3, AddIfSound, classes \subseteq Nat, classes # {}
  <2> QED
    BY <2>3, <2>4
<1>19. ASSUME NEW t, Clean(rest, t), before => Apart(Interval(slot, n0), t),
              split => Apart(Interval(tick, len), t),
              behind => Apart(Interval(tick + len, n2), t)
       PROVE  Clean(c, t)
  <2> HIDE DEF rest, n0, n2, start
  <2>1. Clean(b, t)
    BY ONLY <1>14, <1>19, CleanAdded, before \in BOOLEAN
  <2>2. Clean(m, t)
    BY ONLY <1>16, <1>19, <2>1, CleanAdded, split \in BOOLEAN
  <2> QED
    BY ONLY <1>18, <1>19, <2>2, CleanAdded, behind \in BOOLEAN
<1>20. Sound(new, classes)
  BY <1>1, <1>18 DEF Sound, Added
<1>21. ASSUME NEW t \in [from : Nat, to : Nat], t.from <= t.to, Clear(line, t)
       PROVE  Clear(new, t)
  <2>1. Clean(slots, t) /\ t.to < start
    BY <1>21 DEF Clear
  <2>2. Clean(rest, t) /\ (old.to < t.from \/ t.to < old.from)
    BY <2>1 DEF Clean, Apart
  <2>3. before => Apart(Interval(slot, n0), t)
    BY <1>2, <1>3, <1>a, <2>2 DEF Apart, Interval
  <2>4. Apart(Interval(tick, len), t)
    BY <1>2, <1>3, <2>2 DEF Apart, Interval
  <2>5. behind => Apart(Interval(tick + len, n2), t)
    BY <1>2, <1>3, <1>a, <2>2 DEF Apart, Interval
  <2>6. Clean(c, t)
    BY ONLY <1>19, <2>2, <2>3, <2>4, <2>5
  <2> QED
    BY <2>1, <2>6 DEF Clear
<1>22. ASSUME ~split
       PROVE  Clear(new, Interval(tick, len))
  <2> DEFINE t == Interval(tick, len)
  <2>1. Clean(rest, t)
    BY <1>2, <1>13
  <2>2. Apart(Interval(slot, n0), t) /\ Apart(Interval(tick + len, n2), t)
    BY <1>3 DEF Apart, Interval
  <2>3. t.to < start
    BY <1>1, <1>2, <1>3 DEF Interval
  <2>4. Clean(c, t)
    BY ONLY <1>19, <1>22, <2>1, <2>2
  <2> QED
    BY <2>3, <2>4 DEF Clear
<1>23. rest \subseteq c
  BY <1>14, <1>16, <1>18 DEF Added, Extends
<1>24. Keeps(line, new, classes, tick, len)
  <2> SUFFICES ASSUME NEW n \in Nat \ {0}, NEW s \in Nat, NEW x \in Nat,
                      Fits(line, classes, n, s, x), tick + len <= x, \E k \in classes : k <= n
               PROVE  \E y : Fits(new, classes, n, y, x)
    BY DEF Keeps
  <2>1. s \in Nat /\ x \in Nat /\ s <= x /\ (s = start \/ FitsSlot(slots, classes, n, s, x))
    BY DEF Fits
  <2>2. CASE s = start
    BY <2>1, <2>2 DEF Fits
  <2>3. CASE FitsSlot(slots, classes, n, s, x)
    <3>1. PICK z \in slots : z.from = s /\ z.class >= Base(classes, n) /\ x + n - 1 <= z.to
      BY <2>3 DEF FitsSlot
    <3>2. CASE z # old
      <4>1. z \in c
        BY <1>23, <3>2
      <4>2. FitsSlot(c, classes, n, s, x)
        BY <3>1, <4>1 DEF FitsSlot
      <4> QED
        BY <2>1, <4>2 DEF Fits
    <3>3. CASE z = old
      <4>1. behind /\ n2 >= n /\ n2 \in Nat
        BY <1>2, <1>3, <1>a, <3>1, <3>3
      <4>2. PICK k \in classes : k <= n
        OBVIOUS
      <4>3. k <= n2 /\ n \in Nat
        BY <4>1, <4>2
      <4> HIDE DEF n2
      <4>4. Filed(classes, n2, tick + len) \in c
        BY <1>18, <4>1, <4>2, <4>3 DEF Added
      <4>5. Base(classes, n) <= Base(classes, n2)
        BY ONLY <4>1, <4>3, BaseGrows, classes \subseteq Nat, classes # {}
      <4>6. Base(classes, n) \in Nat /\ Base(classes, n2) \in Nat
        BY ONLY <4>1, <4>3, BaseClass, classes \subseteq Nat, classes # {}
      <4> DEFINE p == Filed(classes, n2, tick + len)
      <4>7. p.from = tick + len /\ p.class >= Base(classes, n) /\ p.to = tick + len + n2 - 1
        BY <4>5, <4>6 DEF Filed
      <4>8. x + n - 1 <= p.to
        BY <1>3, <3>1, <3>3, <4>1, <4>7 DEF n2
      <4> HIDE DEF p
      <4>9. FitsSlot(c, classes, n, tick + len, x)
        BY <4>4, <4>7, <4>8 DEF FitsSlot, p
      <4> QED
        BY <1>1, <2>1, <4>9 DEF Fits
    <3> QED
      BY <3>2, <3>3
  <2> QED
    BY <2>1, <2>2, <2>3
<1>25. ~r.fails
  <2>1. ~(tick < slot) /\ ~(old.to - tick + 1 < len)
    BY <1>2, <1>3
  <2> QED
    BY ONLY <1>7, <2>1
<1> HIDE DEF new, start, slots
<1>26. Leaves(line, new, classes, len, tick, split)
  BY <1>20, <1>21, <1>22, <1>24 DEF Leaves, Span
<1>27. QED
  BY <1>7, <1>25, <1>26 DEF Taken

(* Whatever fits can be taken. *)
LEMMA InsertTakes ==
    ASSUME NEW classes, classes \subseteq Nat, classes # {}, NEW line, Sound(line, classes),
           NEW len \in Nat \ {0}, NEW tick, NEW split \in BOOLEAN, NEW slot,
           Fits(line, classes, len, slot, tick),
           NEW r, r = InsertFreeSlot(line, classes, len, tick, slot, split)
    PROVE  Taken(line, r, classes, len, tick, split)
<1>1. /\ slot \in Nat /\ tick \in Nat /\ slot <= tick
      /\ slot = line.start \/ FitsSlot(line.slots, classes, len, slot, tick)
  BY DEF Fits
<1>2. CASE slot = line.start
  BY <1>1, <1>2, InsertAtStart
<1>3. CASE slot # line.start
  BY <1>1, <1>3, InsertInSlot
<1>4. QED
  BY <1>2, <1>3

(* What fits lies apart from all that is clear of the line. *)
LEMMA FitsApart ==
    ASSUME NEW classes, classes \subseteq Nat, NEW line, Sound(line, classes),
           NEW len \in Nat \ {0}, NEW slot, NEW tick, Fits(line, classes, len, slot, tick),
           NEW t \in Span, Clear(line, t)
    PROVE  Apart(Interval(tick, len), t) /\ Apart(t, Interval(tick, len))
<1>1. line.start \in Nat /\ SoundSlots(line.slots, classes, line.start)
  BY DEF Sound
<1>2. /\ slot \in Nat /\ tick \in Nat /\ slot <= tick /\ t.to < line.start
      /\ t.from \in Nat /\ t.to \in Nat
  BY DEF Fits, Clear, Span
<1>3. CASE slot = line.start
  BY <1>1, <1>2, <1>3 DEF Apart, Interval
<1>4. CASE FitsSlot(line.slots, classes, len, slot, tick)
  <2>1. PICK s \in line.slots : s.from = slot /\ tick + len - 1 <= s.to
    BY <1>4 DEF FitsSlot
  <2>2. s.from \in Nat /\ s.to \in Nat
    BY <1>1 DEF SoundSlots, Slot
  <2>3. s.to < t.from \/ t.to < s.from
    BY DEF Clear, Clean, Apart
  <2> QED
    BY <1>2, <2>1, <2>2, <2>3 DEF Apart, Interval
<1>5. QED
  BY <1>3, <1>4 DEF Fits

(* A part of what fits, fits. *)
LEMMA FitsPart ==
    ASSUME NEW classes, classes \subseteq Nat, classes # {}, NEW line, Sound(line, classes),
           NEW n \in Nat \ {0}, NEW slot, NEW tick, Fits(line, classes, n, slot, tick),
           NEW m \in Nat \ {0}, NEW x \in Nat, tick <= x, x + m <= tick + n
    PROVE  Fits(line, classes, m, slot, x)
<1>1. line.start \in Nat /\ SoundSlots(line.slots, classes, line.start)
  BY DEF Sound
<1>2. /\ slot \in Nat /\ tick \in Nat /\ slot <= tick
  BY DEF Fits
<1>3. CASE slot = line.start
  BY <1>1, <1>2, <1>3 DEF Fits
<1>4. CASE FitsSlot(line.slots, classes, n, slot, tick)
  <2>1. PICK s \in line.slots : s.from = slot /\ s.class >= Base(classes, n)
                                /\ tick + n - 1 <= s.to
    BY <1>4 DEF FitsSlot
  <2>2. s.from \in Nat /\ s.to \in Nat /\ s.class \in Nat
    BY <1>1 DEF SoundSlots, Slot
  <2>3. m <= n /\ m \in Nat /\ n \in Nat
    BY <1>2
  <2>4. Base(classes, m) <= Base(classes, n)
    BY ONLY <2>3, BaseGrows, classes \subseteq Nat, classes # {}
  <2>5. Base(classes, m) \in Nat /\ Base(classes, n) \in Nat
    BY ONLY <2>3, BaseClass, classes \subseteq Nat, classes # {}
  <2>6. s.class >= Base(classes, m)
    BY <2>1, <2>2, <2>4, <2>5
  <2>7. x + m - 1 <= s.to
    BY <1>2, <2>1, <2>2
  <2>8. FitsSlot(line.slots, classes, m, slot, x)
    BY <2>1, <2>6, <2>7 DEF FitsSlot
  <2> QED
    BY <1>2, <2>8 DEF Fits
<1>5. QED
  BY <1>3, <1>4 DEF Fits

-----------------------------------------------------------------------------
(* The searches of a command *)

(* LOOP1: where the search ends, the channel is free for DMA0 and the die  *)
(* for DMA0 and MEM; where it starts over, it does so later, and no later  *)
(* than the start point of the die.                                        *)
SearchEnds(C, D, n0, nM, slot0, slotM, from) ==
    Fits(C, ChClasses, n0, slot0, from) /\ Fits(D, DieClasses, nM, slotM, from)

Searched(C, D, n0, nM, tick, zero, mem, verify) ==
    LET from == IF mem.slot = zero.slot THEN zero.tick ELSE mem.tick
    IN  /\ from \in Nat /\ tick <= from /\ zero.slot \in Nat /\ mem.slot \in Nat
        /\ mem.slot = zero.slot \/ verify.slot = zero.slot
              => SearchEnds(C, D, n0, nM, zero.slot, mem.slot, from)
        /\ ~(mem.slot = zero.slot \/ verify.slot = zero.slot)
              => tick < from /\ from <= D.start

(* The three searches of one round of LOOP0 agree on a place for the first *)
(* DMA and the operation, or move on past the tick they began at.          *)
LEMMA SearchSound ==
    ASSUME NEW C, Sound(C, ChClasses), NEW D, Sound(D, DieClasses),
           NEW n0 \in Nat \ {0}, NEW nM \in Nat \ {0}, NEW tick \in Nat,
           NEW zero, zero = Earliest(C, ChClasses, n0, tick),
           NEW mem, mem = Earliest(D, DieClasses, nM, zero.tick),
           NEW verify, verify = Earliest(C, ChClasses, n0, mem.tick)
    PROVE  Searched(C, D, n0, nM, tick, zero, mem, verify)
<1>1. /\ ChClasses \subseteq Nat /\ ChClasses # {} /\ DieClasses \subseteq Nat /\ DieClasses # {}
      /\ C.start \in Nat /\ D.start \in Nat
  BY TimelineAssumption DEF Sound
<1>2. Found(C, ChClasses, n0, tick, zero)
  BY <1>1, EarliestFits
<1>3. /\ Fits(C, ChClasses, n0, zero.slot, zero.tick)
      /\ zero.slot \in Nat /\ zero.tick \in Nat /\ tick <= zero.tick /\ zero.slot <= zero.tick
  BY <1>2 DEF Found, Fits
<1>4. Found(D, DieClasses, nM, zero.tick, mem)
  BY <1>1, <1>3, EarliestFits
<1>5. /\ Fits(D, DieClasses, nM, mem.slot, mem.tick)
      /\ mem.slot \in Nat /\ mem.tick \in Nat /\ zero.tick <= mem.tick /\ mem.slot <= mem.tick
      /\ mem.slot <= D.start /\ (mem.tick = zero.tick \/ mem.tick = mem.slot)
  BY <1>4 DEF Found, Fits
<1>6. Found(C, ChClasses, n0, mem.tick, verify)
  BY <1>1, <1>5, EarliestFits
<1>7. /\ Fits(C, ChClasses, n0, verify.slot, verify.tick)
      /\ verify.slot \in Nat /\ verify.tick \in Nat /\ mem.tick <= verify.tick
      /\ (verify.tick = mem.tick \/ verify.tick = verify.slot)
  BY <1>6 DEF Found, Fits
<1>8. CASE mem.slot = zero.slot
  <2>1. mem.tick = zero.tick
    BY <1>3, <1>5, <1>8
  <2> QED
    BY <1>3, <1>5, <1>8, <2>1 DEF Searched, SearchEnds
<1>9. CASE mem.slot # zero.slot /\ verify.slot = zero.slot
  <2>1. verify.tick = mem.tick
    BY <1>3, <1>5, <1>7, <1>9
  <2> QED
    BY <1>3, <1>5, <1>7, <1>9, <2>1 DEF Searched, SearchEnds
<1>10. CASE mem.slot # zero.slot /\ verify.slot # zero.slot
  <2>1. mem.tick # zero.tick
    <3> SUFFICES ASSUME mem.tick = zero.tick PROVE FALSE
      OBVIOUS
    <3>1. Fits(C, ChClasses, n0, zero.slot, mem.tick)
      BY <1>3
    <3>2. PICK x \in Nat : x = mem.tick
      BY <1>5
    <3>3. PICK y : y = zero.slot
      OBVIOUS
    <3>4. Fits(C, ChClasses, n0, y, x) /\ ChClasses \subseteq Nat /\ ChClasses # {}
      BY <1>1, <3>1, <3>2, <3>3
    <3>5. Earliest(C, ChClasses, n0, x).slot = y
      BY ONLY <3>4, EarliestExact, Sound(C, ChClasses), n0 \in Nat \ {0}, x \in Nat
    <3> QED
      BY <1>10, <3>2, <3>3, <3>5
  <2>2. tick < mem.tick /\ mem.tick <= D.start
    BY <1>1, <1>3, <1>5, <2>1
  <2> QED
    BY <1>3, <1>5, <1>10, <2>2 DEF Searched
<1>11. QED
  BY <1>8, <1>9, <1>10

(* LOOP0: DMA1 has a place behind the operation and the die is free up to  *)
(* its end, or the search starts over later, in a slot of the die.         *)
Verified(C, D, o, from, slotM, one, total, slot) ==
    /\ one.tick \in Nat /\ slot \in Nat /\ total \in Nat \ {0}
    /\ from + DMA0[o] + MEM[o] <= one.tick
    /\ Fits(C, ChClasses, DMA1[o] + Anti, one.slot, one.tick)
    /\ slot = slotM => Fits(D, DieClasses, total, slotM, from)
    /\ slot # slotM => from < slot /\ slot <= D.start

(* The last search of the round confirms the place on the die for the      *)
(* whole command, or moves on.                                             *)
LEMMA VerifySound ==
    ASSUME NEW C, Sound(C, ChClasses), NEW D, Sound(D, DieClasses), NEW o \in Operation,
           NEW from \in Nat, NEW slotM,
           Fits(D, DieClasses, DMA0[o] + MEM[o], slotM, from),
           NEW one, one = Earliest(C, ChClasses, DMA1[o] + Anti, from + DMA0[o] + MEM[o]),
           NEW total, total = one.tick + DMA1[o] + Anti - from,
           NEW slot, slot = Earliest(D, DieClasses, total, from).slot
    PROVE  Verified(C, D, o, from, slotM, one, total, slot)
<1>1. /\ ChClasses \subseteq Nat /\ ChClasses # {} /\ DieClasses \subseteq Nat /\ DieClasses # {}
      /\ C.start \in Nat /\ D.start \in Nat
  BY TimelineAssumption DEF Sound
<1>2. /\ DMA0[o] \in Nat \ {0} /\ MEM[o] \in Nat \ {0} /\ DMA1[o] \in Nat \ {0}
      /\ Anti \in Nat \ {0}
  BY TimelineAssumption
<1>3. PICK n \in Nat \ {0} : n = DMA1[o] + Anti
  BY <1>2
<1>4. PICK after \in Nat : after = from + DMA0[o] + MEM[o]
  BY <1>2
<1>5. Found(C, ChClasses, n, after, one)
  BY <1>1, <1>3, <1>4, EarliestFits
<1>6. /\ Fits(C, ChClasses, n, one.slot, one.tick) /\ one.tick \in Nat /\ after <= one.tick
  BY <1>5 DEF Found
<1>7. total \in Nat \ {0}
  BY <1>2, <1>4, <1>6
<1>8. PICK e : e = Earliest(D, DieClasses, total, from)
  OBVIOUS
<1>9. Found(D, DieClasses, total, from, e)
  BY ONLY <1>1, <1>7, <1>8, EarliestFits, Sound(D, DieClasses), from \in Nat
<1>10. /\ Fits(D, DieClasses, total, e.slot, e.tick)
       /\ e.slot \in Nat /\ e.tick \in Nat /\ from <= e.tick /\ e.slot <= D.start
       /\ e.tick = from \/ e.tick = e.slot
       /\ slot = e.slot
  BY <1>8, <1>9 DEF Found
<1>11. ASSUME slot <= from
       PROVE  Fits(D, DieClasses, total, slot, from)
  <2>1. e.tick = from
    BY <1>10, <1>11
  <2> QED
    BY <1>10, <2>1
<1>12. ASSUME slot = slotM
       PROVE  Fits(D, DieClasses, total, slotM, from)
  <2>1. slotM <= from
    BY DEF Fits
  <2> QED
    BY <1>11, <1>12, <2>1
<1>13. ASSUME slot # slotM
       PROVE  from < slot
  <2> SUFFICES ASSUME slot <= from PROVE FALSE
    BY <1>10
  <2>1. Fits(D, DieClasses, total, slot, from)
    BY <1>11
  <2>2. PICK m \in Nat \ {0} : m = DMA0[o] + MEM[o]
    BY <1>2
  <2>3. Fits(D, DieClasses, m, slotM, from)
    BY <2>2
  <2>4. slot = slotM
    BY ONLY <1>1, <1>7, <2>1, <2>3, FitsOnce, Sound(D, DieClasses), from \in Nat,
            m \in Nat \ {0}
  <2> QED
    BY <1>13, <2>4
<1>14. QED
  BY <1>3, <1>4, <1>6, <1>7, <1>10, <1>12, <1>13 DEF Verified

-----------------------------------------------------------------------------
(* The inductive invariant *)

Command == [from : Nat, slot0 : Nat, slotM : Nat, from1 : Nat, slot1 : Nat, total : Nat]

Done == [die : Die, op : Operation, arrived : Nat, dma0 : Span, mem : Span, dma1 : Span]

Types ==
    /\ ch = [x \in Channel |-> ch[x]] /\ \A x \in Channel : Sound(ch[x], ChClasses)
    /\ die = [x \in Die |-> die[x]] /\ \A x \in Die : Sound(die[x], DieClasses)
    /\ todo \in Seq(Die) /\ op \in Operation /\ arrived \in Nat /\ finished \in Nat
    /\ cmd \in Command /\ done \subseteq Done /\ failed = FALSE
    /\ pc \in {"idle", "search", "verify", "take0", "take1", "split"}
    /\ pc # "idle" => todo # <<>> /\ cmd.from >= arrived

(* All that commands were given is clear of the free time of its timeline. *)
AllClear ==
    \A y \in done : /\ Clear(ch[ChannelOf(y.die)], y.dma0)
                    /\ Clear(ch[ChannelOf(y.die)], y.dma1)
                    /\ Clear(die[y.die], y.mem)

(* What Exclusive says of two commands and of one *)
Disjoint(x, y) ==
    /\ x # y /\ x.die = y.die => Apart(x.mem, y.mem)
    /\ ChannelOf(x.die) = ChannelOf(y.die) =>
           /\ x # y => Apart(x.dma0, y.dma0) /\ Apart(x.dma1, y.dma1)
           /\ Apart(x.dma0, y.dma1)

(* A slot for the longest of the searches for DMA1 is always filed.        *)
AnswersFiled == \A o \in Operation : \E c \in ChClasses : c <= DMA1[o] + Anti

InOrder(x) ==
    /\ x.dma0.from >= x.arrived /\ x.dma1.from > x.dma0.to + MEM[x.op]
    /\ x.mem.from = x.dma0.from /\ (AnswersFiled => x.mem.to = x.dma1.to)

(* The running command between its steps: where DMA0 fits and the die is   *)
(* free; where DMA1 fits as well; DMA0 is taken.                           *)
AtVerify(C, D, o, k) == SearchEnds(C, D, DMA0[o], DMA0[o] + MEM[o], k.slot0, k.slotM, k.from)

AtTake0(C, D, o, k) ==
    /\ Fits(C, ChClasses, DMA0[o], k.slot0, k.from)
    /\ Fits(D, DieClasses, k.total, k.slotM, k.from)
    /\ k.from + DMA0[o] + MEM[o] <= k.from1
    /\ k.total = k.from1 + DMA1[o] + Anti - k.from
    /\ \E s \in Nat : Fits(C, ChClasses, DMA1[o] + Anti, s, k.from1)

AtTake1(C, D, o, k) ==
    /\ Fits(C, ChClasses, DMA1[o], k.slot1, k.from1)
    /\ Fits(D, DieClasses, k.total, k.slotM, k.from)
    /\ k.slot0 <= k.from /\ k.total > 0
    /\ k.from + DMA0[o] + MEM[o] <= k.from1
    /\ AnswersFiled => k.total = k.from1 + DMA1[o] - k.from
    /\ Clear(C, Interval(k.from, DMA0[o]))

ApartFrom(c, t) ==
    \A y \in done : ChannelOf(y.die) = c => Apart(t, y.dma0) /\ Apart(t, y.dma1)

Running ==
    /\ pc = "verify" => AtVerify(ch[TheChannel], die[TheDie], op, cmd)
    /\ pc = "take0"  => AtTake0(ch[TheChannel], die[TheDie], op, cmd)
    /\ pc = "take1"  => /\ AtTake1(ch[TheChannel], die[TheDie], op, cmd)
                        /\ ApartFrom(TheChannel, Interval(cmd.from, DMA0[op]))

History == (\A x, y \in done : Disjoint(x, y)) /\ (\A x \in done : InOrder(x))

Inv == Types /\ AllClear /\ Running /\ History

-----------------------------------------------------------------------------
(* Dies and channels *)

(* A die is on a channel. *)
LEMMA ChannelIn ==
    ASSUME NEW d \in Die
    PROVE  ChannelOf(d) \in Channel
<1> DEFINE q == d \div NDie
           r == d % NDie
<1>1. NChannel \in Nat \ {0} /\ NDie \in Nat \ {0}
  BY TimelineAssumption
<1>2. PICK all \in Int : all = NChannel * NDie
  BY <1>1
<1>3. d \in Int /\ 0 <= d /\ d < all
  BY <1>2 DEF Die
<1>4. q \in Int /\ r \in 0 .. NDie-1 /\ NDie * q = d - r
  BY <1>1, <1>3, Remainder
<1> HIDE DEF q, r
<1>5. q >= 0
  <2> SUFFICES ASSUME q <= -1 PROVE FALSE
    BY <1>4
  <2>1. NDie * q <= -NDie
    BY <1>1, <1>4
  <2> QED
    BY <1>1, <1>3, <1>4, <2>1
<1>6. q < NChannel
  <2> SUFFICES ASSUME q >= NChannel PROVE FALSE
    BY <1>1, <1>4
  <2>1. NDie * q >= NDie * NChannel
    BY <1>1, <1>4
  <2>2. NDie * NChannel = all
    BY <1>1, <1>2
  <2> QED
    BY <1>1, <1>2, <1>3, <1>4, <2>1, <2>2
<1>7. QED
  BY <1>1, <1>4, <1>5, <1>6 DEF Channel, ChannelOf, q

(* The lists of dies of a request *)
LEMMA DieListIn ==
    ASSUME NEW dies \in DieLists
    PROVE  dies \in Seq(Die) /\ dies # <<>>
<1>1. NChannel \in Nat \ {0} /\ NDie \in Nat \ {0}
  BY TimelineAssumption
<1>2. CASE \E x \in Die : dies = <<x>>
  BY <1>2
<1>3. CASE \E x \in Channel : dies = [i \in 1 .. NDie |-> x * NDie + i - 1]
  <2>1. PICK x \in Channel : dies = [i \in 1 .. NDie |-> x * NDie + i - 1]
    BY <1>3
  <2>2. x \in Nat /\ x + 1 <= NChannel
    BY <1>1 DEF Channel
  <2>3. PICK p \in Nat : p = x * NDie
    BY <1>1, <2>2
  <2>4. PICK all \in Int : all = NChannel * NDie
    BY <1>1
  <2>5. p + NDie <= all
    <3>1. (x + 1) * NDie <= NChannel * NDie
      BY <1>1, <2>2
    <3>2. (x + 1) * NDie = x * NDie + NDie
      BY <1>1, <2>2
    <3> QED
      BY <2>3, <2>4, <3>1, <3>2
  <2>6. \A i \in 1 .. NDie : x * NDie + i - 1 \in Die
    <3> SUFFICES ASSUME NEW i \in 1 .. NDie PROVE p + i - 1 \in 0 .. all - 1
      BY <2>3, <2>4 DEF Die
    <3> QED
      BY <1>1, <2>5
  <2>7. dies \in [1 .. NDie -> Die]
    BY <2>1, <2>6
  <2>8. NDie \in Int /\ ~(NDie <= 0)
    BY <1>1
  <2> QED
    BY ONLY <2>7, <2>8, FunctionSeq
<1>4. QED
  BY <1>2, <1>3 DEF DieLists

(* The classes and latencies *)
LEMMA Latencies ==
    ASSUME NEW o \in Operation
    PROVE  /\ ChClasses \subseteq Nat /\ ChClasses # {}
           /\ DieClasses \subseteq Nat /\ DieClasses # {}
           /\ DMA0[o] \in Nat \ {0} /\ MEM[o] \in Nat \ {0} /\ DMA1[o] \in Nat \ {0}
           /\ Anti \in Nat \ {0}
BY TimelineAssumption

(* The running command *)
LEMMA RunningFacts ==
    ASSUME Types, pc # "idle"
    PROVE  /\ TheDie \in Die /\ TheChannel \in Channel
           /\ Sound(ch[TheChannel], ChClasses) /\ Sound(die[TheDie], DieClasses)
           /\ op \in Operation /\ cmd \in Command /\ cmd.from >= arrived /\ arrived \in Nat
           /\ cmd.from \in Nat /\ cmd.slot0 \in Nat /\ cmd.slotM \in Nat
           /\ cmd.from1 \in Nat /\ cmd.slot1 \in Nat /\ cmd.total \in Nat
<1>1. TheDie \in Die
  BY HeadTailProperties DEF Types, TheDie
<1>2. TheChannel \in Channel
  BY <1>1, ChannelIn DEF TheChannel
<1>3. QED
  BY <1>1, <1>2 DEF Types, Command

(* Steps that clear no time keep the history clear. *)
LEMMA AllClearKept ==
    ASSUME Types, AllClear, done' = done,
           \A x \in Channel : \A t \in Span : Clear(ch[x], t) => Clear(ch'[x], t),
           \A x \in Die : \A t \in Span : Clear(die[x], t) => Clear(die'[x], t)
    PROVE  AllClear'
<1> SUFFICES ASSUME NEW y \in done
             PROVE  /\ Clear(ch'[ChannelOf(y.die)], y.dma0)
                    /\ Clear(ch'[ChannelOf(y.die)], y.dma1)
                    /\ Clear(die'[y.die], y.mem)
  BY DEF AllClear
<1>1. y.die \in Die /\ y.dma0 \in Span /\ y.dma1 \in Span /\ y.mem \in Span
  BY DEF Types, Done
<1>2. ChannelOf(y.die) \in Channel
  BY <1>1, ChannelIn
<1>3. QED
  BY <1>1, <1>2 DEF AllClear

(* The history changes only when a command is done. *)
LEMMA HistoryKept ==
    ASSUME History, done' = done
    PROVE  History'
BY DEF History

-----------------------------------------------------------------------------
(* The steps *)

LEMMA InitInv ==
    Init => Inv
<1> SUFFICES ASSUME Init PROVE Inv
  OBVIOUS
<1>1. Sound(Empty, ChClasses) /\ Sound(Empty, DieClasses)
  BY DEF Sound, Empty, SoundSlots
<1>2. cmd \in Command
  BY DEF Init, NoCommand, Command
<1>3. Types
  BY <1>1, <1>2 DEF Types, Init
<1>4. QED
  BY <1>3 DEF Inv, Init, AllClear, Running, History

(* A request begins with the search for its first die; no slot changes.    *)
LEMMA SubmitStep ==
    ASSUME Inv, NEW o \in Operation, NEW dies \in DieLists, NEW t \in Ticks, Submit(o, dies, t)
    PROVE  Inv'
<1>1. t \in Nat
  BY TimelineAssumption
<1>2. /\ ch' = ch /\ die' = die /\ done' = done /\ failed' = failed /\ pc' = "search"
      /\ todo' = dies /\ op' = o /\ arrived' = t /\ finished' = t /\ cmd' = Begin(t)
  BY DEF Submit
<1>3. cmd' \in Command /\ cmd'.from = t
  BY <1>1, <1>2 DEF Begin, NoCommand, Command
<1>4. dies \in Seq(Die) /\ dies # <<>>
  BY DieListIn
<1>5. Types'
  <2>1. Types
    BY DEF Inv
  <2>2. /\ ch' = [x \in Channel |-> ch'[x]] /\ \A x \in Channel : Sound(ch'[x], ChClasses)
        /\ die' = [x \in Die |-> die'[x]] /\ \A x \in Die : Sound(die'[x], DieClasses)
    BY <1>2, <2>1 DEF Types
  <2>3. todo' \in Seq(Die) /\ todo' # <<>> /\ op' \in Operation /\ arrived' \in Nat
        /\ finished' \in Nat /\ done' \subseteq Done /\ failed' = FALSE
        /\ cmd'.from >= arrived'
    BY <1>1, <1>2, <1>3, <1>4, <2>1 DEF Types
  <2> QED
    BY <1>2, <1>3, <2>2, <2>3 DEF Types
<1>6. AllClear'
  BY <1>2, AllClearKept DEF Inv
<1>7. History'
  BY <1>2, HistoryKept DEF Inv
<1>8. Running'
  BY <1>2 DEF Running
<1>9. QED
  BY <1>5, <1>6, <1>7, <1>8 DEF Inv

(* The steps that only search *)
LEMMA SearchKeeps ==
    ASSUME Inv, pc # "idle", UNCHANGED <<ch, die, todo, op, arrived, finished, flushed, failed, done>>,
           cmd' \in Command, cmd'.from >= arrived, pc' \in {"search", "verify", "take0"}
    PROVE  Types' /\ AllClear' /\ History' /\ TheDie' = TheDie /\ TheChannel' = TheChannel
<1>1. Types'
  BY DEF Types, Inv
<1>2. AllClear'
  BY AllClearKept DEF Inv
<1>3. History'
  BY HistoryKept DEF Inv
<1>4. TheDie' = TheDie /\ TheChannel' = TheChannel
  BY DEF TheDie, TheChannel
<1>5. QED
  BY <1>1, <1>2, <1>3, <1>4

(* A round that agreed on a place goes on to the second DMA with the place *)
(* it found.                                                               *)
LEMMA SearchStep ==
    ASSUME Inv, Search
    PROVE  /\ Inv'
           /\ pc' = "search" => cmd'.from > cmd.from /\ cmd'.from <= die[TheDie].start
<1> DEFINE C == ch[TheChannel]
           D == die[TheDie]
           zero == Earliest(C, ChClasses, DMA0[op], cmd.from)
           mem  == Earliest(D, DieClasses, DMA0[op] + MEM[op], zero.tick)
           verify == Earliest(C, ChClasses, DMA0[op], mem.tick)
           from == IF mem.slot = zero.slot THEN zero.tick ELSE mem.tick
<1>1. /\ pc = "search"
      /\ cmd' = [cmd EXCEPT !.from = from, !.slot0 = zero.slot, !.slotM = mem.slot]
      /\ pc' = IF mem.slot = zero.slot \/ verify.slot = zero.slot THEN "verify" ELSE "search"
      /\ UNCHANGED <<ch, die, todo, op, arrived, finished, flushed, failed, done>>
  BY DEF Search
<1>2. /\ Sound(C, ChClasses) /\ Sound(D, DieClasses) /\ op \in Operation /\ cmd \in Command
      /\ cmd.from >= arrived /\ arrived \in Nat /\ cmd.from \in Nat
  BY <1>1, RunningFacts DEF Inv
<1>3. DMA0[op] \in Nat \ {0} /\ DMA0[op] + MEM[op] \in Nat \ {0}
  BY <1>2, Latencies
<1>4. Searched(C, D, DMA0[op], DMA0[op] + MEM[op], cmd.from, zero, mem, verify)
  <2>1. PICK n \in Nat \ {0} : n = DMA0[op] + MEM[op]
    BY <1>3
  <2> HIDE DEF C, D
  <2>2. Searched(C, D, DMA0[op], n, cmd.from, zero, mem, verify)
    BY <1>2, <1>3, <2>1, SearchSound
  <2> QED
    BY <2>1, <2>2
<1> HIDE DEF zero, mem, verify, C, D
<1>5. /\ from \in Nat /\ cmd.from <= from /\ zero.slot \in Nat /\ mem.slot \in Nat
      /\ mem.slot = zero.slot \/ verify.slot = zero.slot
            => SearchEnds(C, D, DMA0[op], DMA0[op] + MEM[op], zero.slot, mem.slot, from)
      /\ ~(mem.slot = zero.slot \/ verify.slot = zero.slot)
            => cmd.from < from /\ from <= D.start
  BY <1>4 DEF Searched
<1> HIDE DEF from
<1>6. cmd' \in Command /\ cmd'.from = from /\ cmd'.slot0 = zero.slot /\ cmd'.slotM = mem.slot
  BY <1>1, <1>2, <1>5 DEF Command
<1>7. cmd'.from >= arrived
  BY <1>2, <1>5, <1>6
<1>8. Types' /\ AllClear' /\ History' /\ TheDie' = TheDie /\ TheChannel' = TheChannel
  BY <1>1, <1>6, <1>7, SearchKeeps
<1>9. Running'
  <2>1. CASE mem.slot = zero.slot \/ verify.slot = zero.slot
    <3>1. AtVerify(C, D, op, cmd')
      BY <1>5, <1>6, <2>1 DEF AtVerify
    <3> QED
      BY <1>1, <1>8, <2>1, <3>1 DEF Running, C, D
  <2>2. CASE ~(mem.slot = zero.slot \/ verify.slot = zero.slot)
    BY <1>1, <2>2 DEF Running
  <2> QED
    BY <2>1, <2>2
<1>10. pc' = "search" => cmd'.from > cmd.from /\ cmd'.from <= D.start
  BY <1>1, <1>2, <1>5, <1>6
<1>11. QED
  BY <1>8, <1>9, <1>10 DEF Inv, D

(* A round whose place is confirmed goes on to take it, and another one    *)
(* begins anew, later.                                                     *)
LEMMA VerifyStep ==
    ASSUME Inv, Verify
    PROVE  /\ Inv'
           /\ pc' = "search" => cmd'.from > cmd.from /\ cmd'.from <= die[TheDie].start
<1> DEFINE C == ch[TheChannel]
           D == die[TheDie]
           one   == Earliest(C, ChClasses, DMA1[op] + Anti, cmd.from + DMA0[op] + MEM[op])
           total == one.tick + DMA1[op] + Anti - cmd.from
           slot  == Earliest(D, DieClasses, total, cmd.from).slot
<1>1. /\ pc = "verify"
      /\ IF slot = cmd.slotM
         THEN cmd' = [cmd EXCEPT !.from1 = one.tick, !.total = total] /\ pc' = "take0"
         ELSE cmd' = Begin(slot) /\ pc' = "search"
      /\ UNCHANGED <<ch, die, todo, op, arrived, finished, flushed, failed, done>>
  BY DEF Verify
<1>2. /\ Sound(C, ChClasses) /\ Sound(D, DieClasses) /\ op \in Operation /\ cmd \in Command
      /\ cmd.from >= arrived /\ arrived \in Nat /\ cmd.from \in Nat
  BY <1>1, RunningFacts DEF Inv
<1>3. /\ Fits(C, ChClasses, DMA0[op], cmd.slot0, cmd.from)
      /\ Fits(D, DieClasses, DMA0[op] + MEM[op], cmd.slotM, cmd.from)
  BY <1>1 DEF Inv, Running, AtVerify, SearchEnds
<1>4. Verified(C, D, op, cmd.from, cmd.slotM, one, total, slot)
  <2> HIDE DEF C, D
  <2> QED
    BY <1>2, <1>3, VerifySound
<1>5. total = one.tick + DMA1[op] + Anti - cmd.from
  OBVIOUS
<1> HIDE DEF C, D, one, total, slot
<1>6. /\ one.tick \in Nat /\ slot \in Nat /\ total \in Nat \ {0} /\ one.slot \in Nat
      /\ cmd.from + DMA0[op] + MEM[op] <= one.tick
      /\ Fits(C, ChClasses, DMA1[op] + Anti, one.slot, one.tick)
      /\ slot = cmd.slotM => Fits(D, DieClasses, total, cmd.slotM, cmd.from)
      /\ slot # cmd.slotM => cmd.from < slot /\ slot <= D.start
  BY <1>4 DEF Verified, Fits
<1>7. CASE slot = cmd.slotM
  <2>1. /\ cmd' \in Command /\ cmd'.from = cmd.from /\ cmd'.slot0 = cmd.slot0
        /\ cmd'.slotM = cmd.slotM /\ cmd'.from1 = one.tick /\ cmd'.total = total
        /\ pc' = "take0"
    BY <1>1, <1>2, <1>6, <1>7 DEF Command
  <2>2. Types' /\ AllClear' /\ History' /\ TheDie' = TheDie /\ TheChannel' = TheChannel
    BY <1>1, <1>2, <2>1, SearchKeeps
  <2>3. AtTake0(C, D, op, cmd')
    BY <1>3, <1>5, <1>6, <1>7, <2>1 DEF AtTake0
  <2>4. Running'
    BY <1>1, <2>1, <2>2, <2>3 DEF Running, C, D
  <2> QED
    BY <2>1, <2>2, <2>4 DEF Inv
<1>8. CASE slot # cmd.slotM
  <2>1. /\ cmd' \in Command /\ cmd'.from = slot /\ pc' = "search"
    BY <1>1, <1>6, <1>8 DEF Command, Begin, NoCommand
  <2>2. cmd'.from > cmd.from /\ cmd'.from <= D.start /\ cmd'.from >= arrived
    BY <1>2, <1>6, <1>8, <2>1
  <2>3. Types' /\ AllClear' /\ History'
    BY <1>1, <2>1, <2>2, SearchKeeps
  <2>4. Running'
    BY <2>1 DEF Running
  <2> QED
    BY <2>2, <2>3, <2>4 DEF Inv, D
<1>9. QED
  BY <1>7, <1>8

(* DMA0 is taken, and DMA1 found again in what is left: where it was if a  *)
(* slot of its length is filed at all, and no sooner otherwise.            *)
LEMMA TakeDMA0Step ==
    ASSUME Inv, TakeDMA0
    PROVE  Inv'
<1> DEFINE c == TheChannel
           C == ch[TheChannel]
           D == die[TheDie]
           r == InsertFreeSlot(C, ChClasses, DMA0[op], cmd.from, cmd.slot0, FALSE)
           L == Line(r)
           n == DMA1[op] + Anti
           one  == Earliest(L, ChClasses, n, cmd.from1)
           t0 == Interval(cmd.from, DMA0[op])
<1>1. /\ pc = "take0"
      /\ ch' = [ch EXCEPT ![c] = L]
      /\ cmd' = [cmd EXCEPT !.from1 = Larger(one.tick, one.slot) + Anti, !.slot1 = one.slot]
      /\ failed' = (failed \/ r.fails)
      /\ pc' = "take1"
      /\ UNCHANGED <<die, todo, op, arrived, finished, flushed, done>>
  BY DEF TakeDMA0
<1>2. /\ c \in Channel /\ TheDie \in Die
      /\ Sound(C, ChClasses) /\ Sound(D, DieClasses) /\ op \in Operation /\ cmd \in Command
      /\ cmd.from >= arrived /\ arrived \in Nat /\ cmd.from \in Nat /\ cmd.from1 \in Nat
  BY <1>1, RunningFacts DEF Inv
<1>3. AtTake0(C, D, op, cmd)
  BY <1>1 DEF Inv, Running
<1>4. /\ ChClasses \subseteq Nat /\ ChClasses # {} /\ DMA0[op] \in Nat \ {0}
      /\ MEM[op] \in Nat \ {0} /\ DMA1[op] \in Nat \ {0} /\ Anti \in Nat \ {0} /\ n \in Nat \ {0}
  BY <1>2, Latencies
<1> HIDE DEF C, D
<1>5. Taken(C, r, ChClasses, DMA0[op], cmd.from, FALSE)
  <2>1. Fits(C, ChClasses, DMA0[op], cmd.slot0, cmd.from) /\ FALSE \in BOOLEAN
    BY <1>3 DEF AtTake0
  <2> QED
    BY <1>2, <1>4, <2>1, InsertTakes
<1> HIDE DEF r
<1>6. /\ ~r.fails /\ Sound(L, ChClasses)
      /\ \A t \in Span : Clear(C, t) => Clear(L, t)
      /\ Clear(L, t0) /\ Keeps(C, L, ChClasses, cmd.from, DMA0[op])
  BY <1>5 DEF Taken, Leaves
<1> HIDE DEF L, n
<1>7. Found(L, ChClasses, n, cmd.from1, one)
  BY <1>2, <1>4, <1>6, EarliestFits
<1>8. AnswersFiled => one.tick = cmd.from1
  <2> SUFFICES ASSUME AnswersFiled PROVE one.tick = cmd.from1
    OBVIOUS
  <2>1. \E k \in ChClasses : k <= n
    BY <1>2 DEF AnswersFiled, n
  <2>2. PICK s \in Nat : Fits(C, ChClasses, n, s, cmd.from1)
    BY <1>3 DEF AtTake0, n
  <2>3. cmd.from + DMA0[op] <= cmd.from1
    BY <1>2, <1>3, <1>4 DEF AtTake0
  <2>4. PICK y : Fits(L, ChClasses, n, y, cmd.from1)
    BY <1>2, <1>4, <1>6, <2>1, <2>2, <2>3 DEF Keeps
  <2> QED
    BY <1>2, <1>4, <1>6, <2>4, EarliestExact
<1> HIDE DEF one
<1>9. /\ Fits(L, ChClasses, n, one.slot, one.tick) /\ one.slot \in Nat /\ one.tick \in Nat
      /\ cmd.from1 <= one.tick /\ one.slot <= one.tick
  BY <1>7 DEF Found, Fits
<1>10. Larger(one.tick, one.slot) = one.tick
  BY <1>9 DEF Larger
<1>11. /\ cmd' \in Command /\ cmd'.from = cmd.from /\ cmd'.slot0 = cmd.slot0
       /\ cmd'.slotM = cmd.slotM /\ cmd'.total = cmd.total
       /\ cmd'.from1 = one.tick + Anti /\ cmd'.slot1 = one.slot
  <2>1. PICK x \in Nat : x = one.tick + Anti
    BY <1>4, <1>9
  <2>2. cmd' = [cmd EXCEPT !.from1 = x, !.slot1 = one.slot] /\ one.slot \in Nat
    BY <1>1, <1>9, <1>10, <2>1
  <2> QED
    BY ONLY <1>2, <2>1, <2>2 DEF Command
<1>12. AtTake1(L, D, op, cmd')
  <2>1. Fits(L, ChClasses, DMA1[op], one.slot, one.tick + Anti)
    <3>1. PICK x \in Nat : x = one.tick + Anti
      BY <1>4, <1>9
    <3>2. one.tick <= x /\ x + DMA1[op] <= one.tick + n
      BY <1>4, <1>9, <3>1 DEF n
    <3>3. Fits(L, ChClasses, DMA1[op], one.slot, x)
      BY <1>4, <1>6, <1>9, <3>2, FitsPart
    <3> QED
      BY <3>1, <3>3
  <2>2. /\ Fits(D, DieClasses, cmd.total, cmd.slotM, cmd.from)
        /\ cmd.from + DMA0[op] + MEM[op] <= cmd.from1
        /\ cmd.total = cmd.from1 + DMA1[op] + Anti - cmd.from
        /\ cmd.slot0 <= cmd.from
    BY <1>3 DEF AtTake0, Fits
  <2>3. /\ cmd.total > 0 /\ cmd.from + DMA0[op] + MEM[op] <= one.tick + Anti
    BY <1>2, <1>4, <1>9, <2>2
  <2>4. AnswersFiled => cmd.total = (one.tick + Anti) + DMA1[op] - cmd.from
    BY <1>2, <1>4, <1>8, <2>2
  <2>5. Clear(L, Interval(cmd.from, DMA0[op]))
    BY <1>6
  <2> QED
    BY <1>11, <2>1, <2>2, <2>3, <2>4, <2>5 DEF AtTake1
<1>13. Types /\ AllClear /\ History
  BY DEF Inv
<1>14. ch'[c] = L /\ (\A x \in Channel : x # c => ch'[x] = ch[x]) /\ ch' = [x \in Channel |-> ch'[x]]
  BY <1>1, <1>2, <1>13 DEF Types
<1>15. Types'
  <2>1. \A x \in Channel : Sound(ch'[x], ChClasses)
    BY <1>6, <1>13, <1>14 DEF Types
  <2>2. failed' = FALSE
    BY <1>1, <1>6, <1>13 DEF Types
  <2> QED
    BY <1>1, <1>2, <1>11, <1>13, <1>14, <2>1, <2>2 DEF Types
<1>16. AllClear'
  <2>1. \A x \in Channel : \A t \in Span : Clear(ch[x], t) => Clear(ch'[x], t)
    BY <1>6, <1>14 DEF C
  <2> QED
    BY <1>1, <1>13, <2>1, AllClearKept
<1>17. TheDie' = TheDie /\ TheChannel' = c
  BY <1>1 DEF TheDie, TheChannel
<1>18. ApartFrom(c, t0)
  <2> SUFFICES ASSUME NEW y \in done, ChannelOf(y.die) = c
               PROVE  Apart(t0, y.dma0) /\ Apart(t0, y.dma1)
    BY DEF ApartFrom
  <2>1. Clear(C, y.dma0) /\ Clear(C, y.dma1)
    BY <1>13 DEF AllClear, C
  <2>2. y.dma0 \in Span /\ y.dma1 \in Span
    BY <1>13 DEF Types, Done
  <2>3. Fits(C, ChClasses, DMA0[op], cmd.slot0, cmd.from)
    BY <1>3 DEF AtTake0
  <2> QED
    BY <1>2, <1>4, <2>1, <2>2, <2>3, FitsApart
<1>19. Running'
  <2>1. ApartFrom(c, t0)'
    BY <1>1, <1>11, <1>17, <1>18 DEF ApartFrom
  <2>2. ch'[TheChannel'] = L /\ die'[TheDie'] = D /\ op' = op /\ cmd'.from = cmd.from
    BY <1>1, <1>11, <1>14, <1>17 DEF D
  <2> QED
    BY <1>1, <1>12, <1>17, <2>1, <2>2 DEF Running
<1>20. History'
  BY <1>1, <1>13, HistoryKept
<1>21. QED
  BY <1>15, <1>16, <1>19, <1>20 DEF Inv

(* The command is done: its intervals lie apart from all earlier ones, and *)
(* are clear of what is left.                                              *)
LEMMA TakeDMA1Step ==
    ASSUME Inv, TakeDMA1
    PROVE  Inv'
<1> DEFINE c == TheChannel
           C == ch[TheChannel]
           D == die[TheDie]
           r == InsertFreeSlot(C, ChClasses, DMA1[op], cmd.from1, cmd.slot1, FALSE)
           q == InsertFreeSlot(D, DieClasses, cmd.total, cmd.from, cmd.slotM, FALSE)
           L == Line(r)
           M == Line(q)
           dma0 == Interval(cmd.from, DMA0[op])
           mem  == Interval(cmd.from, cmd.total)
           dma1 == Interval(cmd.from1, DMA1[op])
           z == [die |-> TheDie, op |-> op, arrived |-> arrived,
                 dma0 |-> dma0, mem |-> mem, dma1 |-> dma1]
<1>1. pc = "take1"
  BY DEF TakeDMA1
<1>2. /\ c \in Channel /\ TheDie \in Die /\ c = ChannelOf(TheDie)
      /\ Sound(C, ChClasses) /\ Sound(D, DieClasses) /\ op \in Operation /\ cmd \in Command
      /\ cmd.from >= arrived /\ arrived \in Nat /\ cmd.from \in Nat /\ cmd.from1 \in Nat
      /\ cmd.total \in Nat
  BY <1>1, RunningFacts DEF Inv, TheChannel
<1>3. AtTake1(C, D, op, cmd) /\ ApartFrom(c, dma0)
  BY <1>1 DEF Inv, Running
<1>4. /\ ChClasses \subseteq Nat /\ ChClasses # {} /\ DieClasses \subseteq Nat /\ DieClasses # {}
      /\ DMA0[op] \in Nat \ {0} /\ MEM[op] \in Nat \ {0} /\ DMA1[op] \in Nat \ {0}
  BY <1>2, Latencies
<1>5. /\ cmd.slot0 <= cmd.from /\ cmd.slotM <= cmd.from /\ cmd.total \in Nat \ {0}
      /\ cmd.slot0 \in Nat /\ cmd.slotM \in Nat
  BY <1>2, <1>3 DEF AtTake1, Command, Fits
<1>6. Larger(cmd.from, cmd.slot0) = cmd.from /\ Larger(cmd.from, cmd.slotM) = cmd.from
  BY <1>2, <1>5 DEF Larger
<1>7. /\ ch' = [ch EXCEPT ![c] = L]
      /\ die' = [die EXCEPT ![TheDie] = M]
      /\ failed' = (failed \/ r.fails \/ q.fails)
      /\ finished' = Larger(finished, dma1.to)
      /\ done' = done \cup {z}
      /\ pc' = "split"
      /\ UNCHANGED <<todo, op, arrived, cmd, flushed>>
  BY <1>6 DEF TakeDMA1
<1> HIDE DEF C, D
<1>8. Taken(C, r, ChClasses, DMA1[op], cmd.from1, FALSE)
  <2>1. Fits(C, ChClasses, DMA1[op], cmd.slot1, cmd.from1) /\ FALSE \in BOOLEAN
    BY <1>3 DEF AtTake1
  <2> QED
    BY <1>2, <1>4, <2>1, InsertTakes
<1>9. Taken(D, q, DieClasses, cmd.total, cmd.from, FALSE)
  <2>1. Fits(D, DieClasses, cmd.total, cmd.slotM, cmd.from) /\ FALSE \in BOOLEAN
    BY <1>3 DEF AtTake1
  <2> QED
    BY <1>2, <1>4, <1>5, <2>1, InsertTakes
<1> HIDE DEF r, q
<1>10. /\ ~r.fails /\ Sound(L, ChClasses) /\ (\A t \in Span : Clear(C, t) => Clear(L, t))
       /\ Clear(L, dma1)
  BY <1>8 DEF Taken, Leaves
<1>11. /\ ~q.fails /\ Sound(M, DieClasses) /\ (\A t \in Span : Clear(D, t) => Clear(M, t))
       /\ Clear(M, mem)
  BY <1>9 DEF Taken, Leaves
<1> HIDE DEF L, M
<1>12. /\ dma0 \in Span /\ dma0.from = cmd.from /\ dma0.to = cmd.from + DMA0[op] - 1
       /\ dma1 \in Span /\ dma1.from = cmd.from1 /\ dma1.to = cmd.from1 + DMA1[op] - 1
       /\ mem \in Span /\ mem.from = cmd.from /\ mem.to = cmd.from + cmd.total - 1
       /\ dma1.to \in Nat /\ dma0.to \in Nat
  BY <1>2, <1>4, <1>5 DEF Span, Interval
<1>13. Clear(L, dma0)
  BY <1>3, <1>10, <1>12 DEF AtTake1
<1>14. \A y \in done : ChannelOf(y.die) = c =>
           /\ Apart(dma0, y.dma0) /\ Apart(y.dma0, dma0)
           /\ Apart(dma0, y.dma1) /\ Apart(y.dma1, dma0)
           /\ Apart(dma1, y.dma0) /\ Apart(y.dma0, dma1)
           /\ Apart(dma1, y.dma1) /\ Apart(y.dma1, dma1)
  <2> SUFFICES ASSUME NEW y \in done, ChannelOf(y.die) = c
               PROVE  /\ Apart(dma0, y.dma0) /\ Apart(y.dma0, dma0)
                      /\ Apart(dma0, y.dma1) /\ Apart(y.dma1, dma0)
                      /\ Apart(dma1, y.dma0) /\ Apart(y.dma0, dma1)
                      /\ Apart(dma1, y.dma1) /\ Apart(y.dma1, dma1)
    OBVIOUS
  <2>1. Clear(C, y.dma0) /\ Clear(C, y.dma1)
    BY DEF Inv, AllClear, C
  <2>2. y.dma0 \in Span /\ y.dma1 \in Span
    BY DEF Inv, Types, Done
  <2>3. Fits(C, ChClasses, DMA1[op], cmd.slot1, cmd.from1)
    BY <1>3 DEF AtTake1
  <2>4. /\ Apart(dma1, y.dma0) /\ Apart(y.dma0, dma1)
        /\ Apart(dma1, y.dma1) /\ Apart(y.dma1, dma1)
    BY <1>2, <1>4, <2>1, <2>2, <2>3, FitsApart
  <2>5. Apart(dma0, y.dma0) /\ Apart(dma0, y.dma1)
    BY <1>3 DEF ApartFrom
  <2>6. Apart(y.dma0, dma0) /\ Apart(y.dma1, dma0)
    BY <2>5 DEF Apart
  <2> QED
    BY <2>4, <2>5, <2>6
<1>15. \A y \in done : y.die = TheDie => Apart(mem, y.mem) /\ Apart(y.mem, mem)
  <2> SUFFICES ASSUME NEW y \in done, y.die = TheDie
               PROVE  Apart(mem, y.mem) /\ Apart(y.mem, mem)
    OBVIOUS
  <2>1. Clear(D, y.mem)
    BY DEF Inv, AllClear, D
  <2>2. y.mem \in Span
    BY DEF Inv, Types, Done
  <2>3. Fits(D, DieClasses, cmd.total, cmd.slotM, cmd.from)
    BY <1>3 DEF AtTake1
  <2> QED
    BY <1>2, <1>4, <1>5, <2>1, <2>2, <2>3, FitsApart
<1>16. /\ cmd.from + DMA0[op] + MEM[op] <= cmd.from1
       /\ AnswersFiled => cmd.total = cmd.from1 + DMA1[op] - cmd.from
  BY <1>3 DEF AtTake1
<1>17. Apart(dma0, dma1)
  BY <1>2, <1>4, <1>12, <1>16 DEF Apart
<1>18. InOrder(z)
  <2> HIDE DEF dma0, dma1, mem
  <2>1. dma1.from > dma0.to + MEM[op]
    BY <1>2, <1>4, <1>12, <1>16
  <2>2. AnswersFiled => mem.to = dma1.to
    BY <1>2, <1>4, <1>12, <1>16
  <2>3. dma0.from >= arrived /\ mem.from = dma0.from
    BY <1>2, <1>12
  <2> QED
    BY <2>1, <2>2, <2>3 DEF InOrder
<1> HIDE DEF dma0, dma1, mem
<1>19. /\ z \in Done /\ z.die = TheDie /\ z.dma0 = dma0 /\ z.dma1 = dma1 /\ z.mem = mem
  BY <1>2, <1>12 DEF Done
<1> HIDE DEF z
<1>20. History'
  <2>1. History
    BY DEF Inv
  <2>2. ASSUME NEW y \in done
        PROVE  Disjoint(z, y) /\ Disjoint(y, z)
    BY <1>2, <1>14, <1>15, <1>19 DEF Disjoint
  <2>3. Disjoint(z, z)
    BY <1>17, <1>19 DEF Disjoint
  <2>4. \A x, y \in done' : Disjoint(x, y)
    BY <1>7, <2>1, <2>2, <2>3 DEF History
  <2>5. \A x \in done' : InOrder(x)
    BY <1>7, <1>18, <2>1 DEF History
  <2> QED
    BY <2>4, <2>5 DEF History
<1>21. Types
  BY DEF Inv
<1>22. /\ ch'[c] = L /\ (\A x \in Channel : x # c => ch'[x] = ch[x])
       /\ ch' = [x \in Channel |-> ch'[x]]
  BY <1>2, <1>7, <1>21 DEF Types
<1>23. /\ die'[TheDie] = M /\ (\A x \in Die : x # TheDie => die'[x] = die[x])
       /\ die' = [x \in Die |-> die'[x]]
  BY <1>2, <1>7, <1>21 DEF Types
<1>24. Types'
  <2>1. \A x \in Channel : Sound(ch'[x], ChClasses)
    BY <1>10, <1>21, <1>22 DEF Types
  <2>2. \A x \in Die : Sound(die'[x], DieClasses)
    BY <1>11, <1>21, <1>23 DEF Types
  <2>3. failed' = FALSE
    BY <1>7, <1>10, <1>11, <1>21 DEF Types
  <2>4. finished' \in Nat
    BY <1>7, <1>12, <1>21 DEF Types, Larger
  <2>5. done' \subseteq Done
    BY <1>7, <1>19, <1>21 DEF Types
  <2> QED
    BY <1>1, <1>7, <1>21, <1>22, <1>23, <2>1, <2>2, <2>3, <2>4, <2>5 DEF Types
<1>25. AllClear'
  <2> SUFFICES ASSUME NEW y \in done'
               PROVE  /\ Clear(ch'[ChannelOf(y.die)], y.dma0)
                      /\ Clear(ch'[ChannelOf(y.die)], y.dma1)
                      /\ Clear(die'[y.die], y.mem)
    BY DEF AllClear
  <2>1. CASE y = z
    BY <1>2, <1>10, <1>11, <1>13, <1>19, <1>22, <1>23, <2>1
  <2>2. CASE y \in done
    <3>1. /\ Clear(ch[ChannelOf(y.die)], y.dma0) /\ Clear(ch[ChannelOf(y.die)], y.dma1)
          /\ Clear(die[y.die], y.mem)
      BY <2>2 DEF Inv, AllClear
    <3>2. y.die \in Die /\ y.dma0 \in Span /\ y.dma1 \in Span /\ y.mem \in Span
      BY <1>21, <2>2 DEF Types, Done
    <3>3. ChannelOf(y.die) \in Channel
      BY <3>2, ChannelIn
    <3> QED
      BY <1>10, <1>11, <1>22, <1>23, <3>1, <3>2, <3>3 DEF C, D
  <2> QED
    BY <1>7, <2>1, <2>2
<1>26. Running'
  BY <1>7 DEF Running
<1>27. QED
  BY <1>20, <1>24, <1>25, <1>26 DEF Inv

(* The cut behind DMA0 gives nothing away. *)
LEMMA SplitStep ==
    ASSUME Inv, SplitFreeSlot
    PROVE  Inv'
<1> DEFINE c == TheChannel
           C == ch[TheChannel]
           end0 == Larger(cmd.from, cmd.slot0) + DMA0[op]
           gap  == Earliest(C, ChClasses, 2 * Anti, end0)
           r == InsertFreeSlot(C, ChClasses, 2 * Anti, end0, gap.slot, TRUE)
           L == Line(r)
<1>1. /\ pc = "split"
      /\ IF gap.tick = end0
         THEN ch' = [ch EXCEPT ![c] = L] /\ failed' = (failed \/ r.fails)
         ELSE ch' = ch /\ failed' = failed
      /\ todo' = Tail(todo)
      /\ pc' = IF todo' = <<>> THEN "idle" ELSE "search"
      /\ cmd' = IF todo' = <<>> THEN NoCommand ELSE Begin(arrived)
      /\ UNCHANGED <<die, op, arrived, finished, flushed, done>>
  BY DEF SplitFreeSlot
<1>2. /\ c \in Channel /\ Sound(C, ChClasses) /\ op \in Operation
      /\ cmd.from \in Nat /\ cmd.slot0 \in Nat /\ arrived \in Nat
  BY <1>1, RunningFacts DEF Inv
<1>3. /\ ChClasses \subseteq Nat /\ ChClasses # {} /\ DMA0[op] \in Nat \ {0} /\ Anti \in Nat \ {0}
      /\ 2 * Anti \in Nat \ {0}
  BY <1>2, Latencies
<1>4. end0 \in Nat
  BY <1>2, <1>3 DEF Larger
<1>5. Types /\ AllClear /\ History
  BY DEF Inv
<1>6. PICK n \in Nat \ {0} : n = 2 * Anti
  BY <1>3
<1> HIDE DEF C, end0
<1>7. Found(C, ChClasses, n, end0, gap)
  BY <1>2, <1>3, <1>4, <1>6, EarliestFits
<1>8. ASSUME gap.tick = end0
      PROVE  /\ ~r.fails /\ Sound(L, ChClasses) /\ \A t \in Span : Clear(C, t) => Clear(L, t)
  <2>1. Fits(C, ChClasses, n, gap.slot, end0) /\ TRUE \in BOOLEAN
    BY <1>7, <1>8 DEF Found
  <2>2. r = InsertFreeSlot(C, ChClasses, n, end0, gap.slot, TRUE)
    BY <1>6
  <2> HIDE DEF gap, r
  <2>3. Taken(C, r, ChClasses, n, end0, TRUE)
    BY <1>2, <1>3, <2>1, <2>2, InsertTakes
  <2> QED
    BY <2>3 DEF Taken, Leaves
<1> HIDE DEF gap, r, L
<1>9. /\ ch' = [x \in Channel |-> ch'[x]] /\ failed' = FALSE
      /\ \A x \in Channel : /\ Sound(ch'[x], ChClasses)
                            /\ \A t \in Span : Clear(ch[x], t) => Clear(ch'[x], t)
  <2>1. CASE gap.tick = end0
    <3>1. /\ ch'[c] = L /\ (\A x \in Channel : x # c => ch'[x] = ch[x])
          /\ ch' = [x \in Channel |-> ch'[x]]
      BY <1>1, <1>2, <1>5, <2>1 DEF Types
    <3>2. failed' = FALSE
      BY <1>1, <1>5, <1>8, <2>1 DEF Types
    <3> QED
      BY <1>5, <1>8, <2>1, <3>1, <3>2 DEF Types, C
  <2>2. CASE gap.tick # end0
    BY <1>1, <1>5, <2>2 DEF Types
  <2> QED
    BY <2>1, <2>2
<1>10. todo' \in Seq(Die)
  BY <1>1, <1>5, HeadTailProperties DEF Types
<1>11. cmd' \in Command /\ (todo' # <<>> => cmd'.from = arrived)
  BY <1>1, <1>2 DEF Begin, NoCommand, Command
<1>12. Types'
  <2>1. pc' # "idle" => todo' # <<>> /\ cmd'.from >= arrived'
    <3>1. (pc' # "idle" => todo' # <<>>) /\ arrived' = arrived
      BY <1>1
    <3>2. arrived >= arrived
      BY <1>2
    <3> QED
      BY ONLY <1>11, <3>1, <3>2
  <2>2. pc' \in {"idle", "search"}
    BY <1>1
  <2>3. /\ ch' = [x \in Channel |-> ch'[x]] /\ \A x \in Channel : Sound(ch'[x], ChClasses)
    BY <1>9
  <2>4. /\ die' = [x \in Die |-> die'[x]] /\ (\A x \in Die : Sound(die'[x], DieClasses))
        /\ op' \in Operation /\ arrived' \in Nat /\ finished' \in Nat /\ done' \subseteq Done
    BY <1>1, <1>5 DEF Types
  <2> QED
    BY <1>9, <1>10, <1>11, <2>1, <2>2, <2>3, <2>4 DEF Types
<1>13. AllClear'
  BY <1>1, <1>5, <1>9, AllClearKept
<1>14. History'
  BY <1>1, <1>5, HistoryKept
<1>15. Running'
  BY <1>1 DEF Running
<1>16. QED
  BY <1>12, <1>13, <1>14, <1>15 DEF Inv

(* Giving up slots leaves a sound line in which what was clear is clear.   *)
LEMMA FlushSound ==
    ASSUME NEW classes, NEW line, Sound(line, classes), NEW t
    PROVE  /\ Sound(FlushAFreeSlot(line, t), classes)
           /\ \A x : Clear(line, x) => Clear(FlushAFreeSlot(line, t), x)
<1>1. FlushAFreeSlot(line, t) = [slots |-> {s \in line.slots : s.to >= t}, start |-> line.start]
  <2>1. PICK S : S = line.slots
    OBVIOUS
  <2>2. PICK n : n = line.start
    OBVIOUS
  <2>3. line = [slots |-> S, start |-> n]
    BY <2>1, <2>2 DEF Sound
  <2>4. FlushAFreeSlot(line, t) = [slots |-> {s \in S : s.to >= t}, start |-> n]
    BY ONLY <2>3 DEF FlushAFreeSlot
  <2> QED
    BY <2>1, <2>2, <2>4
<1>2. QED
  BY <1>1 DEF Sound, SoundSlots, Clear, Clean

(* FlushFreeSlots() forgets the slots that ended before the tick, between  *)
(* two requests, when no search has a slot in hand.                        *)
LEMMA FlushStep ==
    ASSUME Inv, NEW t \in FlushTicks, Flush(t)
    PROVE  Inv'
<1>1. /\ ch' = [x \in Channel |-> FlushAFreeSlot(ch[x], t)]
      /\ die' = [x \in Die |-> FlushAFreeSlot(die[x], t)]
      /\ UNCHANGED <<todo, op, arrived, finished, cmd, pc, failed, done>> /\ pc = "idle"
  BY DEF Flush
<1>2. Types /\ AllClear /\ History
  BY DEF Inv
<1>3. /\ ch' = [x \in Channel |-> ch'[x]]
      /\ \A x \in Channel : /\ Sound(ch'[x], ChClasses)
                            /\ \A s \in Span : Clear(ch[x], s) => Clear(ch'[x], s)
  BY <1>1, <1>2, FlushSound DEF Types
<1>4. /\ die' = [x \in Die |-> die'[x]]
      /\ \A x \in Die : /\ Sound(die'[x], DieClasses)
                        /\ \A s \in Span : Clear(die[x], s) => Clear(die'[x], s)
  BY <1>1, <1>2, FlushSound DEF Types
<1>5. Types'
  BY <1>1, <1>2, <1>3, <1>4 DEF Types
<1>6. AllClear'
  BY <1>1, <1>2, <1>3, <1>4, AllClearKept
<1>7. History'
  BY <1>1, <1>2, HistoryKept
<1>8. Running'
  BY <1>1 DEF Running
<1>9. QED
  BY <1>5, <1>6, <1>7, <1>8 DEF Inv

(* A step that changes nothing keeps the invariant.                        *)
LEMMA StutterStep ==
    ASSUME Inv, UNCHANGED vars
    PROVE  Inv'
<1>1. UNCHANGED <<ch, die, todo, op, arrived, finished, cmd, pc, failed, done>>
  BY DEF vars
<1>2. Types'
  BY <1>1 DEF Inv, Types
<1>3. AllClear'
  BY <1>1, AllClearKept DEF Inv
<1>4. History'
  BY <1>1, HistoryKept DEF Inv
<1>5. Running'
  BY <1>1 DEF Inv, Running, TheDie, TheChannel, ApartFrom
<1>6. QED
  BY <1>2, <1>3, <1>4, <1>5 DEF Inv

(* Inv is inductive. *)
LEMMA InvStep ==
    Inv /\ [Next]_vars => Inv'
<1> SUFFICES ASSUME Inv, [Next]_vars PROVE Inv'
  OBVIOUS
<1>1. CASE \E o \in Operation, dies \in DieLists, t \in Ticks : Submit(o, dies, t)
  BY <1>1, SubmitStep
<1>2. CASE Search
  BY <1>2, SearchStep
<1>3. CASE Verify
  BY <1>3, VerifyStep
<1>4. CASE TakeDMA0
  BY <1>4, TakeDMA0Step
<1>5. CASE TakeDMA1
  BY <1>5, TakeDMA1Step
<1>6. CASE SplitFreeSlot
  BY <1>6, SplitStep
<1>7. CASE \E t \in FlushTicks : Flush(t)
  BY <1>7, FlushStep
<1>8. CASE UNCHANGED vars
  BY <1>8, StutterStep
<1>9. QED
  BY <1>1, <1>2, <1>3, <1>4, <1>5, <1>6, <1>7, <1>8 DEF Next, Schedule

(* The invariant holds of every reachable state.                           *)
LEMMA InvHolds ==
    Spec => []Inv
BY InitInv, InvStep, PTL DEF Spec

-----------------------------------------------------------------------------
(* The results *)

(* A sound line whose history is clear has its free slots free. *)
LEMMA SoundFree ==
    ASSUME NEW classes, NEW line, Sound(line, classes), NEW taken,
           \A t \in taken : Clear(line, t)
    PROVE  FreeSlots(line, taken)
<1>1. /\ line.slots \subseteq Slot(classes)
      /\ \A s \in line.slots : s.class <= s.to - s.from + 1 /\ s.to < line.start
      /\ \A s, t \in line.slots : s # t => Apart(s, t)
  BY DEF Sound, SoundSlots
<1>2. ASSUME NEW s \in line.slots
      PROVE  s.to - s.from + 1 >= s.class
  <2>1. s.class <= s.to - s.from + 1
    BY <1>1
  <2> QED
    BY <2>1
<1>3. \A t \in taken : (\A s \in line.slots : Apart(s, t)) /\ t.to < line.start
  BY DEF Clear, Clean
<1>4. QED
  BY <1>1, <1>2, <1>3 DEF FreeSlots

(***************************************************************************)
(* What AddFreeSlot(), InsertFreeSlot() and the flush leave filed as free  *)
(* is free, and the assertions of InsertFreeSlot() never fail, for every   *)
(* latency, every choice of classes and every order of arrivals.           *)
(***************************************************************************)
THEOREM FreeSlotsAreFree ==
    Spec => []FreeIsFree
<1>1. Inv => FreeIsFree
  <2> SUFFICES ASSUME Inv PROVE FreeIsFree
    OBVIOUS
  <2>1. Types /\ AllClear
    BY DEF Inv
  <2>2. ASSUME NEW x \in Channel
        PROVE  LET mine == {y \in done : ChannelOf(y.die) = x}
               IN  FreeSlots(ch[x], {y.dma0 : y \in mine} \cup {y.dma1 : y \in mine})
    <3> DEFINE mine == {y \in done : ChannelOf(y.die) = x}
               taken == {y.dma0 : y \in mine} \cup {y.dma1 : y \in mine}
    <3>1. \A y \in mine : Clear(ch[x], y.dma0) /\ Clear(ch[x], y.dma1)
      BY <2>1 DEF AllClear
    <3> HIDE DEF mine
    <3>2. \A t \in taken : Clear(ch[x], t)
      BY <3>1
    <3>3. Sound(ch[x], ChClasses)
      BY <2>1 DEF Types
    <3> HIDE DEF taken
    <3>4. FreeSlots(ch[x], taken)
      BY <3>2, <3>3, SoundFree
    <3> QED
      BY <3>4 DEF mine, taken
  <2>3. ASSUME NEW x \in Die
        PROVE  FreeSlots(die[x], {y.mem : y \in {z \in done : z.die = x}})
    <3> DEFINE mine == {z \in done : z.die = x}
               taken == {y.mem : y \in mine}
    <3>1. \A y \in mine : Clear(die[x], y.mem)
      BY <2>1 DEF AllClear
    <3> HIDE DEF mine
    <3>2. \A t \in taken : Clear(die[x], t)
      BY <3>1
    <3>3. Sound(die[x], DieClasses)
      BY <2>1 DEF Types
    <3> HIDE DEF taken
    <3>4. FreeSlots(die[x], taken)
      BY <3>2, <3>3, SoundFree
    <3> QED
      BY <3>4 DEF mine, taken
  <2>4. ~failed
    BY <2>1 DEF Types
  <2> QED
    BY <2>2, <2>3, <2>4 DEF FreeIsFree
<1>2. QED
  BY <1>1, InvHolds, PTL

(* Inv has the types of the model. *)
LEMMA InvTypes ==
    ASSUME Inv
    PROVE  TypeOK
<1>1. Types
  BY DEF Inv
<1>2. \A x \in Channel : ch[x].start \in Nat /\ \A s \in ch[x].slots : s.class \in ChClasses
  BY <1>1 DEF Types, Sound, SoundSlots, Slot
<1>3. \A x \in Die : die[x].start \in Nat /\ \A s \in die[x].slots : s.class \in DieClasses
  BY <1>1 DEF Types, Sound, SoundSlots, Slot
<1>4. QED
  BY <1>1, <1>2, <1>3 DEF Types, TypeOK, Command

(***************************************************************************)
(* No channel and no die works on two commands at a time, and a command    *)
(* takes its stages in order and holds its die to the last tick of DMA1,   *)
(* in every instance in which a rest as long as DMA1 and the turnaround    *)
(* reaches a class of the channel.  PAL2 files nothing shorter than its    *)
(* smallest class, and the second search would otherwise pass over the     *)
(* place that the first one found.                                         *)
(***************************************************************************)
THEOREM CommandsExclusive ==
    AnswersFiled => (Spec => []Exclusive)
<1> SUFFICES ASSUME AnswersFiled PROVE Spec => []Exclusive
  OBVIOUS
<1>1. Inv => Exclusive
  <2> SUFFICES ASSUME Inv PROVE Exclusive
    OBVIOUS
  <2>1. TypeOK
    BY InvTypes
  <2>2. \A x, y \in done : Disjoint(x, y)
    BY DEF Inv, History
  <2>3. \A x \in done : InOrder(x)
    BY DEF Inv, History
  <2>4. \A x, y \in done :
          /\ x # y /\ x.die = y.die => Apart(x.mem, y.mem)
          /\ ChannelOf(x.die) = ChannelOf(y.die) =>
                 /\ x # y => Apart(x.dma0, y.dma0) /\ Apart(x.dma1, y.dma1)
                 /\ Apart(x.dma0, y.dma1)
    BY <2>2 DEF Disjoint
  <2>5. \A x \in done :
          /\ x.dma0.from >= x.arrived
          /\ x.dma1.from > x.dma0.to + MEM[x.op]
          /\ x.mem.from = x.dma0.from /\ x.mem.to = x.dma1.to
    BY <2>3 DEF InOrder
  <2> QED
    BY <2>1, <2>4, <2>5 DEF Exclusive
<1>2. QED
  BY <1>1, InvHolds, PTL

(***************************************************************************)
(* The loops of TimelineScheduling() start over only at a later tick, no   *)
(* later than a start point: they end.                                     *)
(***************************************************************************)
THEOREM SearchesAdvance ==
    Spec => SearchAdvances
<1> DEFINE A == StartOver => /\ cmd'.from > cmd.from
                             /\ \/ cmd'.from <= ch[TheChannel].start
                                \/ cmd'.from <= die[TheDie].start
<1>1. Inv /\ [Next]_vars => [A]_vars
  <2> SUFFICES ASSUME Inv, Next, StartOver
               PROVE  cmd'.from > cmd.from /\ cmd'.from <= die[TheDie].start
    OBVIOUS
  <2>1. Search \/ Verify
    BY DEF StartOver, Next, Schedule, Submit, TakeDMA0, TakeDMA1, SplitFreeSlot, Flush
  <2>2. CASE Search
    BY <2>2, SearchStep DEF StartOver
  <2>3. CASE Verify
    BY <2>3, VerifyStep DEF StartOver
  <2> QED
    BY <2>1, <2>2, <2>3
<1>2. QED
  BY <1>1, InvHolds, PTL DEF Spec, SearchAdvances
=============================================================================

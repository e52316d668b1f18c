--------------------------- MODULE FlashTimeline ---------------------------
(***************************************************************************)
(* The timelines of channels and dies in simplessd/pal: PALOLD splits a    *)
(* request into one command per die, and PAL2 finds for each the first     *)
(* time at which the channel is free for the command and its data (DMA0),  *)
(* the die for the whole operation (MEM), and the channel for the answer   *)
(* (DMA1).                                                                 *)
(*                                                                         *)
(* A timeline is busy up to its start point except for its free slots,     *)
(* which are filed under the largest class of lengths they reach.  The     *)
(* loops of TimelineScheduling() are steps here, to ask whether they end.  *)
(* done is history: the intervals of every command.  Statistics (operation *)
(* counts, merged busy time, energy) are left out.                         *)
(***************************************************************************)
EXTENDS Integers, Sequences, FiniteSets, SequencesExt, FiniteSetsExt

CONSTANTS
    NChannel, NDie,   \* channels, dies of each
    Operation,        \* an operation on a page: read, write, erase by page type
    DMA0, MEM, DMA1,  \* their latencies, functions of the operation
    Anti,             \* latANTI, the DMA0 latency of a read
    ChClasses, DieClasses, \* the lengths free slots are filed under
    Ticks,            \* bound: ticks at which requests arrive
    FlushTicks,       \* bound: ticks up to which a flush reaches
    MaxCommands       \* bound: commands

Channel == 0 .. NChannel-1
Die     == 0 .. NChannel * NDie - 1

(* Every stage takes time: TimeSlot has no empty slots. *)
ASSUME TimelineAssumption ==
    /\ {NChannel, NDie, MaxCommands, Anti} \subseteq Nat \ {0}
    /\ {DMA0, MEM, DMA1} \subseteq [Operation -> Nat \ {0}]
    /\ ChClasses \cup DieClasses \cup Ticks \cup FlushTicks \subseteq Nat
    /\ ChClasses # {} /\ DieClasses # {}

VARIABLES
    ch,       \* ch[c]: ChFreeSlots and ChStartPoint of channel c
    die,      \* die[d]: DieFreeSlots and DieStartPoint of die d
    todo,     \* dies of the running request still to be scheduled
    op,       \* its operation
    arrived,  \* its tick
    finished, \* finishedAt
    cmd,      \* locals of TimelineScheduling()
    pc,       \* where TimelineScheduling() is
    flushed,  \* last flushed tick
    failed,   \* an assertion failed
    done      \* history: scheduled commands

vars == <<ch, die, todo, op, arrived, finished, cmd, pc, flushed, failed, done>>

NoCommand == [from |-> 0, slot0 |-> 0, slotM |-> 0, from1 |-> 0, slot1 |-> 0,
              total |-> 0]

Interval(from, len) == [from |-> from, to |-> from + len - 1]

Larger(a, b) == IF a > b THEN a ELSE b

-----------------------------------------------------------------------------
(* Free slots *)

(* The class where the search for a slot of this length begins *)
Base(classes, len) ==
    LET reached == {c \in classes : c <= len}
    IN  IF reached = {} THEN Min(classes) ELSE Max(reached)

(* Mutant: the slot reaches one tick too far. *)
AddFreeSlotLong(slots, classes, len, from) ==
    LET class == Base(classes, len)
    IN  IF len < class \/ \E s \in slots : s.class = class /\ s.from = from THEN slots
        ELSE slots \cup {[class |-> class, from |-> from, to |-> from + len]}

(* AddFreeSlot(): a slot shorter than all classes is given up. *)
AddFreeSlot(slots, classes, len, from) ==
    LET class == Base(classes, len)
    IN  IF len < class \/ \E s \in slots : s.class = class /\ s.from = from THEN slots
        ELSE slots \cup {[class |-> class, from |-> from, to |-> from + len - 1]}

(* FindFreeTime(): the slot in which len ticks are free at tick already,   *)
(* or the first later one that is long enough                              *)
FindFreeTime(slots, classes, len, tick) ==
    LET filed == {s \in slots : s.class >= Base(classes, len)}
        LastBegun(c) == Max({s.from : s \in {t \in filed : t.class = c /\ t.from <= tick}})
        around == {s \in filed : /\ s.from <= tick /\ s.from = LastBegun(s.class)
                                /\ s.to >= len + tick - 1}
        later  == {s.from : s \in {t \in filed : t.from > tick /\ t.to >= len + t.from - 1}}
    IN  CASE around # {} ->
               [found |-> TRUE, conflicts |-> FALSE,
                start |-> (CHOOSE s \in around : \A t \in around : s.class <= t.class).from]
          [] around = {} /\ later # {} ->
               [found |-> TRUE, conflicts |-> TRUE, start |-> Min(later)]
          [] OTHER -> [found |-> FALSE, conflicts |-> FALSE, start |-> 0]

(* What the callers make of it: the start of the slot and the tick in it;  *)
(* without a slot, the time from the start point on.                       *)
Earliest(line, classes, len, tick) ==
    LET r == FindFreeTime(line.slots, classes, len, tick)
    IN  IF r.found THEN [slot |-> r.start, tick |-> IF r.conflicts THEN r.start ELSE tick]
        ELSE [slot |-> line.start, tick |-> Larger(tick, line.start)]

(* Mutant: the slot that is used up stays filed. *)
InsertKeepsSlot(line, classes, len, tick, start, split) ==
    LET Mid(slots) == IF split THEN AddFreeSlot(slots, classes, len, tick) ELSE slots
        Before(slots) == IF tick > start THEN AddFreeSlot(slots, classes, tick - start, start)
                         ELSE slots
        filed == {s \in line.slots : s.class >= Base(classes, len) /\ s.from = start}
    IN  CASE start = line.start ->
               [slots |-> Before(Mid(line.slots)), start |-> tick + len, fails |-> tick < start]
          [] start # line.start /\ filed # {} ->
               [slots |-> Mid(line.slots), start |-> line.start, fails |-> tick < start]
          [] OTHER -> [slots |-> line.slots, start |-> line.start, fails |-> FALSE]

(* InsertFreeSlot(): len ticks at tick are taken from the slot that begins *)
(* at start, or only cut off as a slot of their own (split).  fails: the   *)
(* assertions                                                              *)
InsertFreeSlot(line, classes, len, tick, start, split) ==
    LET Mid(slots) == IF split THEN AddFreeSlot(slots, classes, len, tick) ELSE slots
        Before(slots) == IF tick > start THEN AddFreeSlot(slots, classes, tick - start, start)
                         ELSE slots
        filed == {s \in line.slots : s.class >= Base(classes, len) /\ s.from = start}
        old == CHOOSE s \in filed : \A t \in filed : s.class <= t.class
        Rest(slots) == IF old.to > len + tick - 1
                       THEN AddFreeSlot(slots, classes, old.to - (tick + len - 1), tick + len)
                       ELSE slots
    IN  CASE start = line.start ->
               [slots |-> Before(Mid(line.slots)), start |-> tick + len, fails |-> tick < start]
          [] start # line.start /\ filed # {} ->
               [slots |-> Rest(Mid(Before(line.slots \ {old}))), start |-> line.start,
                fails |-> tick < start \/ old.to - tick + 1 < len]
          [] OTHER -> [slots |-> line.slots, start |-> line.start, fails |-> FALSE]

Line(r) == [slots |-> r.slots, start |-> r.start]

-----------------------------------------------------------------------------
(* Requests *)

ChannelOf(d) == d \div NDie

(* Mutant: the first tick is taken, not the one found. *)
BeginAgain(tick) == [NoCommand EXCEPT !.from = arrived]

Begin(tick) == [NoCommand EXCEPT !.from = tick]

(* PALOLD::read(), write(), erase(): one command for each page of the      *)
(* super page that is asked for                                            *)
Submit(o, dies, tick) ==
    /\ pc = "idle" /\ tick > flushed
    /\ Cardinality(done) + Len(dies) <= MaxCommands
    /\ op' = o /\ arrived' = tick /\ finished' = tick
    /\ todo' = dies
    /\ cmd' = Begin(tick)
    /\ pc' = "search"
    /\ UNCHANGED <<ch, die, flushed, failed, done>>

(* The die and the channel of the running command *)
TheDie     == Head(todo)
TheChannel == ChannelOf(TheDie)

(* LOOP1: a time for DMA0 on the channel at which the die is free too *)
Search ==
    LET zero == Earliest(ch[TheChannel], ChClasses, DMA0[op], cmd.from)
        mem  == Earliest(die[TheDie], DieClasses, DMA0[op] + MEM[op], zero.tick)
        verify == Earliest(ch[TheChannel], ChClasses, DMA0[op], mem.tick)
    IN  /\ pc = "search"
        /\ cmd' = [cmd EXCEPT !.from = IF mem.slot = zero.slot THEN zero.tick ELSE mem.tick,
                              !.slot0 = zero.slot, !.slotM = mem.slot]
        /\ pc' = IF mem.slot = zero.slot \/ verify.slot = zero.slot THEN "verify" ELSE "search"
        /\ UNCHANGED <<ch, die, todo, op, arrived, finished, flushed, failed, done>>

(* LOOP0: a time for DMA1, up to which the die must stay free *)
Verify ==
    LET one   == Earliest(ch[TheChannel], ChClasses, DMA1[op] + Anti, cmd.from + DMA0[op] + MEM[op])
        total == one.tick + DMA1[op] + Anti - cmd.from
        slot  == Earliest(die[TheDie], DieClasses, total, cmd.from).slot
    IN  /\ pc = "verify"
        /\ IF slot = cmd.slotM
           THEN cmd' = [cmd EXCEPT !.from1 = one.tick, !.total = total] /\ pc' = "take0"
           ELSE cmd' = Begin(slot) /\ pc' = "search"
        /\ UNCHANGED <<ch, die, todo, op, arrived, finished, flushed, failed, done>>

(* DMA0 is taken, and DMA1 searched again in what is left. *)
TakeDMA0 ==
    LET line == InsertFreeSlot(ch[TheChannel], ChClasses, DMA0[op], cmd.from, cmd.slot0, FALSE)
        one  == Earliest(Line(line), ChClasses, DMA1[op] + Anti, cmd.from1)
    IN  /\ pc = "take0"
        /\ ch' = [ch EXCEPT ![TheChannel] = Line(line)]
        /\ cmd' = [cmd EXCEPT !.from1 = Larger(one.tick, one.slot) + Anti, !.slot1 = one.slot]
        /\ failed' = (failed \/ line.fails)
        /\ pc' = "take1"
        /\ UNCHANGED <<die, todo, op, arrived, finished, flushed, done>>

(* DMA1 and the die are taken: the three intervals are known. *)
TakeDMA1 ==
    LET line == InsertFreeSlot(ch[TheChannel], ChClasses, DMA1[op], cmd.from1, cmd.slot1, FALSE)
        line2 == InsertFreeSlot(die[TheDie], DieClasses, cmd.total, cmd.from, cmd.slotM, FALSE)
        mem  == Interval(Larger(cmd.from, cmd.slotM), cmd.total)
        dma1 == Interval(cmd.from1, DMA1[op])
    IN  /\ pc = "take1"
        /\ ch' = [ch EXCEPT ![TheChannel] = Line(line)]
        /\ die' = [die EXCEPT ![TheDie] = Line(line2)]
        /\ failed' = (failed \/ line.fails \/ line2.fails)
        /\ finished' = Larger(finished, dma1.to)
        /\ done' = done \cup {[die |-> TheDie, op |-> op, arrived |-> arrived,
                               dma0 |-> Interval(Larger(cmd.from, cmd.slot0), DMA0[op]),
                               mem |-> mem, dma1 |-> dma1]}
        /\ pc' = "split"
        /\ UNCHANGED <<todo, op, arrived, cmd, flushed>>

(* A free slot for coming commands is cut off behind DMA0, and the next    *)
(* command of the request begins.                                          *)
SplitFreeSlot ==
    LET end0 == Larger(cmd.from, cmd.slot0) + DMA0[op]
        gap  == Earliest(ch[TheChannel], ChClasses, 2 * Anti, end0)
        line == InsertFreeSlot(ch[TheChannel], ChClasses, 2 * Anti, end0, gap.slot, TRUE)
    IN  /\ pc = "split"
        /\ IF gap.tick = end0
           THEN /\ ch' = [ch EXCEPT ![TheChannel] = Line(line)]
                /\ failed' = (failed \/ line.fails)
           ELSE UNCHANGED <<ch, failed>>
        /\ todo' = Tail(todo)
        /\ pc' = IF todo' = <<>> THEN "idle" ELSE "search"
        /\ cmd' = IF todo' = <<>> THEN NoCommand ELSE Begin(arrived)
        /\ UNCHANGED <<die, op, arrived, finished, flushed, done>>

(* The flush event: the free slots of the past are given up. *)
FlushAFreeSlot(line, t) == [line EXCEPT !.slots = {s \in @ : s.to >= t}]

Flush(t) ==
    /\ pc = "idle" /\ t > flushed
    /\ ch' = [x \in Channel |-> FlushAFreeSlot(ch[x], t)]
    /\ die' = [x \in Die |-> FlushAFreeSlot(die[x], t)]
    /\ flushed' = t
    /\ UNCHANGED <<todo, op, arrived, finished, cmd, pc, failed, done>>

-----------------------------------------------------------------------------
Empty == [slots |-> {}, start |-> 0]

Init ==
    /\ ch = [x \in Channel |-> Empty]
    /\ die = [x \in Die |-> Empty]
    /\ todo = <<>> /\ op \in Operation /\ arrived = 0 /\ finished = 0
    /\ cmd = NoCommand /\ pc = "idle"
    /\ flushed = -1 /\ failed = FALSE
    /\ done = {}

(* Bound: one or all dies of a channel in the order of a super page.  How  *)
(* convertCPDPBP() splits an address into dies is not modelled.            *)
DieLists == {<<x>> : x \in Die} \cup {[i \in 1 .. NDie |-> x * NDie + i - 1] : x \in Channel}

Schedule == Search \/ Verify \/ TakeDMA0 \/ TakeDMA1 \/ SplitFreeSlot

Next ==
    \/ \E o \in Operation, dies \in DieLists, t \in Ticks : Submit(o, dies, t)
    \/ Schedule
    \/ \E t \in FlushTicks : Flush(t)

Spec == Init /\ [][Next]_vars

-----------------------------------------------------------------------------
(* Properties *)

(* Every variable has its type. *)
TypeOK ==
    /\ \A x \in Channel : ch[x].start \in Nat /\ \A s \in ch[x].slots : s.class \in ChClasses
    /\ \A x \in Die : die[x].start \in Nat /\ \A s \in die[x].slots : s.class \in DieClasses
    /\ pc \in {"idle", "search", "verify", "take0", "take1", "split"}
    /\ todo \in Seq(Die) /\ op \in Operation /\ {arrived, finished} \subseteq Nat
    /\ cmd \in [from : Nat, slot0 : Nat, slotM : Nat, from1 : Nat, slot1 : Nat,
               total : Nat]

Apart(s, t) == s.to < t.from \/ t.to < s.from

(***************************************************************************)
(* No channel carries two transfers at a time and no die works on two      *)
(* commands, whatever order the ticks of the commands come in.  A command  *)
(* starts no sooner than it arrives, takes its stages in order with the    *)
(* time each needs, and holds its die from the first tick of DMA0 to the   *)
(* last of DMA1, although DMA1 is searched again after DMA0 is taken.      *)
(***************************************************************************)
Exclusive ==
    /\ TypeOK
    /\ \A x, y \in done :
          /\ x # y /\ x.die = y.die => Apart(x.mem, y.mem)
          /\ ChannelOf(x.die) = ChannelOf(y.die) =>
                 /\ x # y => Apart(x.dma0, y.dma0) /\ Apart(x.dma1, y.dma1)
                 /\ Apart(x.dma0, y.dma1)
    /\ \A x \in done :
          /\ x.dma0.from >= x.arrived
          /\ x.dma1.from > x.dma0.to + MEM[x.op]
          /\ x.mem.from = x.dma0.from /\ x.mem.to = x.dma1.to

FreeSlots(line, taken) ==
    /\ \A s \in line.slots :
           /\ s.to - s.from + 1 >= s.class /\ s.to < line.start
           /\ \A t \in line.slots \ {s} : Apart(s, t)
           /\ \A t \in taken : Apart(s, t)
    /\ \A t \in taken : t.to < line.start

(***************************************************************************)
(* What is filed as free is free: the slots of a timeline lie apart, at    *)
(* least as long as their class, before the start point, and clear of all  *)
(* that was given to a command.  The assertions of InsertFreeSlot() hold.  *)
(***************************************************************************)
FreeIsFree ==
    /\ ~failed
    /\ \A x \in Channel :
           LET mine == {y \in done : ChannelOf(y.die) = x}
           IN  FreeSlots(ch[x], {y.dma0 : y \in mine} \cup {y.dma1 : y \in mine})
    /\ \A x \in Die : FreeSlots(die[x], {y.mem : y \in {z \in done : z.die = x}})

StartOver == pc \in {"search", "verify"} /\ pc' = "search"

(***************************************************************************)
(* The two loops of TimelineScheduling() end: every time they start over   *)
(* they do so at a later tick, and never beyond the start points, where    *)
(* everything is free.                                                     *)
(***************************************************************************)
SearchAdvances ==
    [][StartOver => /\ cmd'.from > cmd.from
                    /\ \/ cmd'.from <= ch[TheChannel].start
                       \/ cmd'.from <= die[TheDie].start]_vars
=============================================================================

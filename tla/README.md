# Verification of the LGR solid-state-drive simulator

LGR is the standalone version of SimpleSSD 2.0 with *layer-group refresh*: the
flash translation layer estimates when the pages of a physical layer will have
too many errors and moves them in time. The program is a discrete-event
simulator; it runs in one thread, but its handlers are long, nest in each other
(a write collects garbage, a refresh collects garbage twice), hand work to events
that fire later, and what they leave behind shows only many events later.

## Inventory

| Part | State | Operations | What makes it correct |
|---|---|---|---|
| Page-mapping FTL (`simplessd/ftl/page_mapping.cc`, `common/block.cc`) | mapping table, blocks in use, free list, write lanes, per-block valid and erased bits, write pointers and wear | fill, read, write, trim, format, allocate, select victims, copy, erase | the host reads what it wrote; table and valid bits are inverse; blocks are neither lost nor doubled; handlers end |
| Refresh queues (same file) | a ring of queues and checked queues of layers, the inserted bitmap, the queue number of a layer | insert, move, swap, take, copy | every page is refreshed; no layer is lost |
| Hot/cold separated FTL (same file) | three lane arrays, two free lists, the hot and the cool-down window | the `sep*` handlers | as the plain FTL, and blocks stay in their pool and in their window |
| ICL generic cache (`icl/generic_cache.cc`) | sets of lines (tag, valid, dirty), prefetch detector, eviction table | read, write, flush, trim, format | a line is cached once; a dirty line reaches the FTL before it is dropped |
| HIL (`hil/hil.cc`) and firmware cores (`cpu/cpu.cc`) | jobs of each core, priority queue of completions, one completion event | submit, job done, complete | every request completes once and on time |
| Event engine (`sim/engine.cc`), main program | ordered event queue, one slot per event, current tick | schedule, run next, stop | the run ends |
| Workload (`igl/trace`, `igl/request`) and block I/O (`bil/`) | requests in flight, depth limit, termination flag, backup of a blocked submission | submit, complete, reschedule | the depth limit holds, the run ends exactly once and complete |
| NVMe driver (`sil/nvme`) and controller (`hil/nvme`) | submission and completion rings, doorbells, work loop, interrupts, command identifiers | initialise, submit, fetch, execute, complete, interrupt | a command is executed once and its own callback runs once |
| DMA FIFO (`util/fifo.cc`) | two queues of pieces, their space and events | read, write, insert, transfer, finish | requests finish once and in order, space is neither lost nor made |
| PAL (`pal/`) | free slots of channels and dies | schedule, flush | no two commands share a channel or a die at a tick |
| Error model, DRAM latencies, statistics, configuration | numbers | | |
| SATA, UFS, open-channel SSD | their own command state | | cannot be reached from this program |
| Vendored libraries (McPAT, CACTI, DRAMPower, inih) | | | third-party code |

The parts call each other downwards (workload, block I/O, driver, HIL, ICL, FTL,
PAL) and come back through callbacks that the engine schedules. The refresh
event is the one activity the FTL starts by itself. The NVMe driver and
controller replace the direct driver between block I/O and HIL; they talk through
rings in host memory that the controller reaches by DMA.

Hard to test are: the nesting of garbage collection in writes, formats and
refreshes; lanes, windows and queues that name blocks and layers by index and
outlive them; the two copies of every queue; numbers compared as unsigned numbers
on a ring; drives that are nearly full or nearly worn out; the order in which
completions and their callbacks change the queues they come from; events that
move, because an event is in the engine's list only once; rings and identifiers
that wrap. `PROJECT.json` lists these hazards line by line.

## Modules

| Module | What it is |
|---|---|
| `LogicalStore` | what an FTL promises: an array of logical pages that hold the datum last written, or nothing |
| `PageMapping` | the FTL with the hot/cold separation off; implements `LogicalStore` |
| `PageMappingProofs` | proofs about `PageMapping`: mapping and write frontier; the store; free list, victims and panics |
| `Lists` | lists in ascending order and lists without some members, in a form the prover can use |
| `ListLemmas` | what the project's proofs need about sequences, insertion, removal, sets of numbers and remainders |
| `RefreshQueue` | which layers a refresh takes |
| `RefreshQueueProofs` | proofs about it |
| `HotColdMapping` | the FTL with the separation on; implements `LogicalStore` |
| `HotColdMappingProofs` | proofs about it |
| `GenericCache` | the cache in front of an FTL |
| `GenericCacheProofs` | proofs about it |
| `HostPath` | workload, block I/O, direct driver, HIL, firmware cores and event engine, composed |
| `HostPathProofs` | proofs about it |
| `DmaChannel` | what users of DMA rely on: once each, in order |
| `Fifo` | the FIFO; implements `DmaChannel` twice, for reads and for writes |
| `FifoProofs` | proofs about it |
| `CommandChannel` | what the block layer relies on: each command executed once, then its callback once |
| `NvmeQueues` | NVMe driver, rings, DMA and controller, composed; implements `CommandChannel` |
| `FlashTimeline` | scheduling of channels and dies in the PAL |
| `FlashTimelineProofs` | proofs about it |
| `MC...` | instances for TLC |

Variables carry the names of the members they model. Each module has one type
invariant; where a module has other invariants it is a conjunct of the first of
them, so that a run checks it without listing it apart.

### PageMapping and RefreshQueue

`table[l][u]` is the place of a unit, `page[b][p][u]` the content of a valid unit
(the reverse mapping `pLPNs` and the valid bit together), `erased` and `next` the
erased bits and write pointers. `pc` says where in a handler the thread is:

| `pc` | code | actions |
|---|---|---|
| `fill` | `initialize()` | `Fill` |
| `idle` | between handlers | `Write`, `Read`, `Trim`, `Format`, `RefreshEvent` |
| `select` | `selectVictimBlock()` | `SelectVictimBlock` |
| `copy` | the copy loop of `doGarbageCollection()` | `CopyVictimPage`, `VictimCopied` |
| `erase` | its erase loop | `EraseInternal` |
| `refresh` | the loop of `refreshPage()` | `RefreshLayerPage`, `LayerRefreshed`, `RefreshDone` |
| `panic`, `hung` | the simulator has stopped, or loops for ever | none |

A step of a handler copies one page, erases one block or selects the victims, so
that an invariant is checked in the middle of a handler too. Every panic of the
code is a value of `panic`. The datum in a page is a history variable: the
simulator stores none, but the refinement speaks of it. Which layers a refresh
takes is left open here: any list of up to `MaxRefreshLayer` layers, repetitions
and layers of reclaimed blocks included.

`RefreshQueue` models which layers those are. It keeps the queues, the checked
queues, `layerQueueNum` and the bitmap, and of the pages only which are valid and
how far a block is written. `setRefreshPeriod()` leaves the layers it inserts in
`pending`, one `InsertToQueue` each; the error model, which adds noise to every
estimate, may return any period. Garbage collection may run wherever the code
runs it, with any full block (for a format any block) as victim and any block
with room as target.

### HotColdMapping

The `sep*` handlers, with the same `pc`. `last` and `index` hold the three lane
arrays, `type` the type of a block, `hotWindow` and `coolDownWindow` the windows.
Rewritten data goes to hot lanes; other data, and what garbage collection saves,
to cool lanes, whose blocks stay in a window of `Cooldown` blocks; what a refresh
finds in cold blocks to cold lanes. `sepEraseInternal()` is modelled with its
repair of lanes that name an erased block, which takes a block out of a free list
between the search for a position in it and the insertion there.

### HostPath

`queue` is the list of the engine; an event is in it once, so that scheduling
moves it. An action is the function of one event (`begin`, `submit`, `jobDone`,
`completion`), except that each turn of the loop of `HIL::completion()` is a step
(`callback`, then `completionEnds`), because the callback runs generator code
while the request is still in two queues. `Serve`, `execute` and `submitIO` yield
the outcomes of the nested calls: the queues they leave, one for every time the
drive may take. The configuration (mode, depth, cores, trace, limit) is chosen
by `Init`.

### GenericCache

A call is one action, except that a read miss fills the lines it reads ahead one
after the other (`FillSkip`, `FillSlot`, `FillEnd`), because it claims slots
before it gives them their tags. The content of lines and of the FTL is history.
Every replacement policy is modelled as any choice. `Stray` is the content of a
line the FTL was told to change together with another one.

### Fifo

A queue is a record with the fields of `FIFO::Queue`, an event a flag, the ticks
are left out except that a piece is finished only after it is in the FIFO.
`request` pushes pieces; `WriteEvent` and `ReadEvent` are the handlers of the
transfer events; the function of a finished request may submit another one in
the same step.

### NvmeQueues

`SubmitIO` is the driver; `CopyRead` and `CopyWrite` are the moments a DMA copies
a ring entry, in the order `DmaChannel` promises; `Work`, `ReadDone` and
`HandleRequest` are the work loop of the controller; `Respond` the subsystem, in
any order; `Completion`, `WriteDone` and `Send` the way back, up to the interrupt
handler of the driver and the callbacks, which may submit again. The set-up
commands of the driver run first, through the same rings. Identifiers are counted
with 16 bits and begin anywhere, because the code does not initialise them.

### FlashTimeline

A timeline is busy up to its start point except for its free slots, filed under
classes of lengths. The loops of `TimelineScheduling()` are steps (`Search`,
`Verify`, `TakeDMA0`, `TakeDMA1`, `SplitFreeSlot`), to ask whether they end.
`done` keeps every interval given out.

## Runs

| Run | Instance | Shows |
|---|---|---|
| `store` | four blocks of two pages, one lane, two data, DCHOICE victims, sequential filling, reclaim a fixed number | exact free list, victims empty when erased, logical content kept, and the FTL implements the store |
| `tweak` | two units per page mapped apart, victims in any order | table and valid bits inverse, pages programmed in order, least-worn blocks first; seven checks never fire and the others against a corrupted drive only for a known reason |
| `handlers` | two lanes, formats of every range, refresh-aware victims, random filling and invalidation, reclaim up to a target, blocks that wear out, fair | blocks neither lost nor doubled, every handler ends |
| `separation` | seven blocks, three of them hot, one lane of each kind, a window of one block, greedy victims, fair | mapping inverse, blocks stay in their pool and window, handlers end, the store is implemented |
| `left` | two blocks, two queues, one layer per refresh, fair | every layer that holds data is marked, every marked layer is in its queue, and every page is refreshed in the end |
| `replay` | every trace of up to four lines, every mode, depth 1 to 3, none, one or two cores | requests are accounted for, completions are scheduled for their own tick, the depth holds, the run ends once, complete, and always |
| `lines` | two slots, pages of two lines, every combination of caches | a line is cached once, eviction always finds a way, clean lines agree with the FTL, a dirty one is given up only by a trim or a format, or overlaid by a later line of its page in the flush that writes it |
| `dma` | a FIFO of four with units of two, sizes 1, 2, 3 and 7, three requests in all, in either direction | space is exact, the front a handler takes exists, both directions implement `DmaChannel` |
| `commands` | rings of four entries, five I/O commands, identifiers up to four that begin below or above the limit | a command is in one place, phases agree, order is kept, and `CommandChannel` is implemented |
| `slots` | one channel, three dies, three commands at any of four ticks, a flush | no two commands share a channel or die, free slots are free, the search ends |

Bounds are small on purpose, and chosen so that the hard cases happen. A drive
has one logical block, so that nearly every write overwrites, and a bad-block
threshold of two or three erases, which ends every behaviour after the drive was
rewritten several times. A trace of four lines exceeds every depth. The FIFO gets
requests smaller than a unit, of its size and larger. Five commands go more than
once around a ring of four and use identifiers again. The cache has lines of one
page in different sets. Deadlock is checked in `lines` and `commands`; elsewhere
the system may stop: at a panic, when the drive is worn out, when the run has
ended or the bound on requests or commands is reached.

Two runs show where the code does something other than it says:

| Run | What happens | What the repository says |
|---|---|---|
| `lanes` | a lane's full block is collected without a copy passing through the lane; the next write on it panics "Corrupted" | the comment in `sepEraseInternal()` takes this for an accident of the hot/cold experiment; it happens without it |
| `strict` | from its second line on, a request of a strict replay is issued at the time of the line before it | `config/common.cfg`: "I/O will issued asynchronously at exact time of trace" |

Other disagreements that TLC showed while the models were built, and that the
models keep, though no run is kept for them:

- A format makes victims of blocks that are still written, and copies into a
  victim that was already drained; `eraseInternal()` then panics.
- Trimming a page written in part (units mapped apart) looks up a block that does
  not exist and panics.
- A garbage collection between the swap of the queues and the loop moves a layer
  that is in the checked queue, and after some moves it is there twice; the second
  visit panics. Grouping modes 2 and 3 mark layers without recording their queue,
  and in mode 1 data outside the first layer of a group is covered only if that
  layer was written too.
- With the separation on, the repair of lanes can find the free list empty or its
  position gone, and a lane can name a block that was reclaimed ("Corrupted").
- A refresh takes blocks without collecting any (the code has a TODO for it in
  `refreshPage()`), so that with several lanes or layers per
  refresh the free list runs dry long before blocks wear out.
- A cache with reads and writes loses a dirty line that a read miss replaces;
  without a write cache a write passes by a line that a read has cached.
- A flush keeps the I/O map of the lines before: a later line of the same page
  covers the unit of an earlier one again, which the FTL then has from no line.
  It also writes dirty copies that are no longer in use.
- A format of a range that begins inside a page can leave its last page
  unformatted: the number of pages is computed from the length alone.

Fairness. The FTL modules assume that the thread goes on with a handler it has
begun and nothing of the host or the timer. `RefreshQueue` assumes in addition
that the refresh event fires again and again however many requests the host
sends (each takes simulated time, and the event is rescheduled every period),
and that a garbage collection ends (it works through a list of victims fixed at
its start), hence strong fairness of the event and of the steps behind it.
`HostPath` assumes weak fairness of its next-state relation: `main()` loops as
long as `doNextEvent()` finds an event. `Fifo` and `NvmeQueues` assume weak
fairness of each event, because the engine runs every event it holds; none of
submissions. `SearchAdvances` needs no fairness: each turn of the search looks at
a later time or is the last.

Other bounds. `MaxQueued`: once the queues hold that many layers no page is
programmed with a period that would move a layer; some period is always left, so
the bound never blocks a refresh. `Horizon` cuts off replays that wait for ever
for a request of unknown type. `MaxRequests`, `MaxIO` and `MaxCommands` count
requests; `Ticks`, `FlushTicks` and `DieLists` choose where and when they go.

Assumptions the code does not check, each a named `ASSUME`: the drive takes some
time for every request (at zero a completion could be left without an event), a
depth is at least one, and the lines of a trace are in the order of their ticks
(all `HostAssumption`; the replayer subtracts the tick of the first line from
those of the others as unsigned numbers); the depth is less than the entries of a ring and the
set-up fits into the admin ring (`QueueAssumption`; the driver checks neither, and
one phase serves both its completion rings); every stage of a flash command takes
time (`TimelineAssumption`). `CommandsExclusive` has a hypothesis besides
(`AnswersFiled`): a gap of a channel as long as a second transfer reaches the
smallest class of slots. PAL2 has constants for its classes, the smallest of
which is little more than 5 cycles of the bus; with a bus of 8 bits, as in every configuration
of the repository, the shortest gap searched for is 8 cycles. On a wider bus it
is less than 5: then the rest of a slot that a search found may be given up when
the first transfer is cut out of it, and the second transfer moves behind the
time for which the die was reserved.

## Proofs

The theorems hold for every geometry, policy and workload that the assumptions of
the modules admit, at every step in the middle of a handler too. For
`PageMapping` these are the check of the FTL constructor (more physical than
logical blocks plus lanes), non-zero sizes, and configurations in which the
arithmetic of `initialize()` does not wrap; for `HotColdMapping` the same for
both pools; for `RefreshQueue` and `GenericCache` non-zero sizes (a number of
lines that is a multiple of the lines of a page); for `Fifo` non-empty requests
and a unit that fits into the FIFO; for `HostPath` and `FlashTimeline` those named
above, with any set of traces, depths, cores, latencies and slot classes.

| Module | Theorem | States |
|---|---|---|
| `PageMappingProofs` | `TypeCorrect` | every variable keeps its type |
| | `MappingAlwaysConsistent` | the table and the valid bits are inverse |
| | `FrontierKept` | pages are programmed in order and only when erased |
| | `ContentAlwaysKept` | garbage collection, erasing and refresh change no logical content |
| | `ImplementsStore` | the FTL implements `LogicalStore` |
| | `FreeListAlwaysExact` | a block is in use, free once, or worn out |
| | `PanicsAlwaysExplained` | seven checks never fire; "block is not in use" needs a page written in part, "valid pages in victim" a format, "Corrupted" a lane whose block was erased |
| | `WearAlwaysInOrder` | a lane takes the least worn of its free blocks |
| | `VictimsAlwaysEmpty` | without formats, no block is erased that holds a valid page |
| `RefreshQueueProofs` | `DataAlwaysCovered` | if a layer is in its own group, every layer with data is marked or about to be |
| | `LayersAlwaysFound` | in modes 0 and 1 every marked layer is in its queue |
| `GenericCacheProofs` | `LinesAlwaysUnique` | a line is cached once and in its set |
| | `NeverCorrupted` | an eviction finds a slot in the set that needs it |
| | `CleanLinesAlwaysAgree` | with write caching, a clean line is as the FTL has it |
| | `WriteCacheAlwaysKeepsData` | with a write cache only, a dirty line stays, is rewritten or reaches the FTL, unless it is trimmed, formatted or overlaid in its flush |
| `HotColdMappingProofs` | `MappingAlwaysConsistent` | the table and the valid pages are inverse |
| | `PoolsAlwaysKept` | blocks keep their pool, the free lists are exact |
| | `WindowsAlwaysExact` | the windows hold the blocks of their type that are no victims, and no others |
| | `NeverCorrupted` | no check against a corrupted state fires but "Corrupted", which can |
| | `ImplementsStore` | the FTL with the separation on implements `LogicalStore` |
| `FifoProofs` | `FrontAlwaysExists` | a handler finds the piece it takes from the front of its queue |
| | `DeliversInOrder` | both directions implement the safety of `DmaChannel`, and a request is finished with all its bytes |
| `HostPathProofs` | `RequestsInOnePlace` | an outstanding request is at one core or among the completions, or was dropped |
| | `CompletionsInTime` | the completion event is set to the first completion |
| | `DepthLimit` | no mode exceeds its depth, and the checks of the strict mode never fire |
| | `EndsAtMostOnce` | a run ends once, with nothing in flight and all lines read |
| `FlashTimelineProofs` | `FreeSlotsAreFree` | what is filed as free is free, and no assertion of `InsertFreeSlot()` fails |
| | `CommandsExclusive` | no channel and no die works on two commands at a time (under `AnswersFiled`) |
| | `SearchesAdvance` | the search starts over only later, and never behind the start points |

Along which argument:

`PageMapping`. None of the properties is inductive by itself. A copy keeps the
table and the valid bits inverse only if it writes to an erased page above every
valid one, which is the write frontier. The frontier survives the replacement of
a lane's block because the code itself refuses a free block that is in use (the
panic of `getFreeBlock()`), and a block that is not in use has its write pointer
at zero, the third part of `WriteFrontier`. That a block is found at all needs the
counter of free blocks to agree with the list (`FreeCount`). `Inv` is the
conjunction of the types, `FreeCount`, `MappingConsistent` and `WriteFrontier`;
`Invariance` proves it inductive, one lemma per action; what writes, copies of
garbage collection and copies of refresh share is proved once, about `Program`
and `GetLastFreeBlock`. The refinement adds, for each action, what it does to
`LogicalContent`: a copy leaves it alone because it moves the content together
with the table entry. `ContentAlwaysKept` says more than `ImplementsStore`, for
which a page lost by garbage collection would look like a trim.

`SafetyInv` shows that the panics `Inv` leans on cannot happen. A free block is
not in use because the list is exact (`FreeListExact`); the list stays exact
when a victim returns to it because victims are different blocks in use
(`VictimsInUse`); `NoSuchBlock` and `InvalidBlock` are out of reach for the same
reason. `WearOrder`, a statement about steps, follows from the order of the whole
list (`FreeSorted`), which `eraseInternal()` keeps because its search from the end
finds the place of the block. The panic of garbage collection while the drive is
filled is a matter of counting: until then no block came back, a lane leaves
only full blocks, and one page was programmed per write (`FillShape`), so that
with more than the threshold of blocks left to the constructor's check the list
cannot be short. `VictimsAlwaysEmpty` assumes `FormatRanges = {}`: victim
selection takes full blocks, into which nothing is copied, but a format takes
blocks a lane still writes to, and then it is false. `StopInv` adds the reasons of
the panics that do happen. A reason found when the panic is raised is still there
later, because a panic freezes the state; `LanesErased` says that a lane loses its
block only to an erase, so that "Corrupted" implies one; and a mapped page whose
block is looked up in vain was written in part, because the places the table does
name are in blocks in use.

`HotColdMapping`. `Inv` has the same core (`MappingConsistent`, a write frontier,
exact free lists) and three parts for the separation. `LaneInv`: a lane of a kind
writes to blocks of its pool, so that repairs and allocations keep pools apart.
`VictimInv`: victims are blocks in use, those of the cold pool are full, so that
the cool lanes garbage collection copies to do not write into them, and those
that wait for their erase hold no valid page. `WindowInv`: the windows name,
once each, the blocks in use that are no victims; the bound of the cool-down
window is needed because a block that is pushed out of it becomes cold.
`ControlInv` ties victims to `pc`. All of it is one induction: the windows depend
on the victims, the victims on the lanes, the lanes on the free lists. What a
write, a copy and the repair in `sepEraseInternal()` share is proved once.

`RefreshQueue`. `Covered` says of a page with data that its layer is marked, in
`pending`, or in the layer or block being copied. It needs a layer to be in the
group that `setRefreshPeriod()` inserts for it (`Covering`): mode 0, and modes 2
and 3 with three segments that leave out at most the last layer, as in the code
with 64 layers. In mode 1, where only the first layer of a group inserts it, TLC
finds a page that no queue holds. `LayersAlwaysFound` assumes modes 0 or 1, since
the code records `layerQueueNum` in these only.

`GenericCache`. In the middle of a read miss the lines are not unique: the miss
claims slots under their old tags and reads into them at its end. `CacheInv`
therefore speaks of claimed slots, which are in the set of the line they will
hold and stand for different lines (`ClaimInv`), and of the others, which are
sound (`LinesSound`) and hold no line of the running miss. `FillInv` bounds the
range a read ahead may reach. A dirty line is on the drive (`DirtyOnDrive`), which
the eviction needs to hand it to the FTL.

`Fifo`. An event is a flag, so that what a handler takes from the front of a queue
must follow from what the queues hold. `Chain` says that: the transfer queue, then
the wait queue, are the requests not yet delivered, cut into pieces that follow
each other without a gap; the piece claimed from the wait queue stands in both
until its first half is done. The steps that split, claim, pop, add and finish
pieces keep it (`BeginChain`, `PopChain`, `SubmitChain`, `DeliverChain`), in both
directions alike. What differs is how the events are tied to the chain: a write
that is under way upstream or ended is the front of the transfer queue
(`WriteEvents`); reads finish their halves in either order, and the set of
identifiers read so far is the whole interval of the queue without the claimed
piece, except around the front (`ReadEvents`, four cases). The first finished
piece then is of request `Len(delivered) + 1`, which gives the order, and the
offset in its request at which it begins is the number of bytes moved, which
gives the whole. How much of the FIFO is used appears only as an integer.

`HostPath`. The four properties share one invariant, because each actor relies on
the others. `Ordered`: the event queue is in the order of its ticks from the
present one on, and an event is in it once, which `insertEvent()` keeps by
removing the old entry first. `HilIdle`: between two events the completion event
is at the tick of the first completion, which is `lastScheduled`, and a core has
an event only if it has a job; inside `completion()` it is the weaker `HilBusy`,
in which the event is gone and `updateCompletion()` at the end must bring it back.
That a new completion is later than the present tick is where the latency above
zero is needed: without it the tick of a new completion could equal the old
`lastScheduled`, and no event would be asked for. `Pending`: a submission that is
in the queue may be issued at its tick (`MayIssue`: below the depth, nothing put
aside, within the volume or the time), although the callbacks of completions and
the submission itself schedule it independently; so the check that was done when
it was scheduled still holds when it fires. `Accounts`: what the block layer holds
is the disjoint union of the jobs at the cores, the completions and the dropped
requests, without repetition. `Ending`: the end is reached only from a state that
has not ended, with nothing outstanding, and `forceStop` keeps everything as it is
from then on.

`FlashTimeline`. `AllClear` says that the slots filed as free, and everything from
the start point on, are clear of all the commands on their channel or die, and
`Sound` that slots lie apart, before the start point and as long as their class.
Cutting a command out of a slot keeps both, and after it no free time is left where
the command is. `Running` carries what the search found through the steps
that use it: the slot in which the first transfer fits is still filed when it is
taken; the place of the second one is in what is left after that; the die is free
for the whole command. It is here that `AnswersFiled` is needed, because the rest
of a slot is filed only if it reaches a class. `History` is the result: commands
are apart on their channels and dies.

TLC finds each of these invariants true on the instances of the runs.

Only model-checked, and why:

- `HandlersEnd`, `DataRefreshed`, `Terminates`, `IsChannel` and the fairness part of
  `Delivered`: liveness is out of the prover's reach.
- `SpaceAccounted` of `Fifo`: the used space is a sum over the queue, again an
  induction over data.
- `OnePlace` and `PhaseInStep` of `NvmeQueues`: they compare sums of the entries of
  several rings, built with `SelectSeq` and `@@`, of which the provers know
  nothing.

## Not modelled

- Time, statistics, energy, DRAM requests and the contents of log messages, in
  every module. The latency of a step is any number of ticks where order depends
  on it, and left out where it does not. The cost-benefit formula is any order.
- `format` of the separated FTL, which leaves entries of erased blocks in the
  windows, and units mapped apart in it.
- The error model: floating-point rates with random noise. `RefreshQueue` takes
  its answer as an arbitrary number of periods. The Bloom filter of an older
  refresh is not called.
- `ftl.cc` forwards calls; its one check is an assumption of `PageMapping`.
- Of the NVMe controller: weighted arbitration, interrupt coalescing, deletion
  of queues, aborts, shutdown and namespace management, which the driver never
  asks for, and the decoding of commands and physical region pages. A command in
  the subsystem is one step, so that what a namespace does for it (a read answers
  when both the HIL and the transfer to the host are done) is not split.
- Of the driver: the panics of `_init1()` (no namespace), `_init4()` and `_init5()`
  on a failed status, since the controller answers the set-up with success.
- `convertCPDPBP()` of the PAL, which splits an address into dies: its I/O flags,
  its arithmetic and its two panics. `FlashTimeline` takes any one die, or all
  the dies of a channel, as the result.
- The open-channel SSD: the driver answers with a vendor number for which the
  controller never builds that subsystem. SATA and UFS: the repository has no
  host driver for them.
- Option parsing, construction of the objects and statistics output.
- McPAT with CACTI, DRAMPower and inih, third-party libraries that
  are more than half of the repository's lines.

## Plan

What is left is `OnePlace` and `PhaseInStep` of `NvmeQueues`: with the rings and the
identifiers written as ranges of counters they would be within the prover's reach.

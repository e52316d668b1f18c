------------------------------ MODULE HostPath ------------------------------
(***************************************************************************)
(* The host side of the simulator: an I/O generator (sim/igl) that submits *)
(* requests through the block I/O layer (bil) and the direct driver        *)
(* (sil/none) to the host interface layer (simplessd/hil), whose firmware  *)
(* cores (simplessd/cpu) and completion queue run on the event engine      *)
(* (sim/engine).  One thread runs it all: Engine::doNextEvent() takes the  *)
(* first event and runs its function to the end.                           *)
(*                                                                         *)
(* A request is its identifier.  How long the drive takes is chosen when   *)
(* the request reaches it; what it does there is LogicalStore's business.  *)
(***************************************************************************)
EXTENDS Integers, Sequences, SequencesExt, FiniteSets

CONSTANTS
    Modes,             \* generators: "sync", "async", "strict", "size", "time"
    Depths,            \* QueueDepth of the trace, iodepth of the generator
    CoreCounts,        \* HILCoreCount; without a core jobs run at once
    Traces,            \* traces to replay: sequences of [tick, op]
    Limits,            \* IOLimit of the trace, 0 for none
    Volume,            \* iosize in blocks, or the run time of a timed run
    Latency,           \* how long the drive may take
    JobLatency,        \* how long a firmware function takes on a core
    SubmissionLatency, \* of the host
    CompletionLatency, \* of the host
    Horizon            \* bound of the model: no event after this tick

TraceModes == {"sync", "async", "strict"}
RequestModes == {"size", "time"}

(* Ticks of a trace do not decrease, and the drive takes some time: with no *)
(* firmware core for the cache and the FTL a flush of nothing takes none.   *)
ASSUME HostAssumption ==
    /\ Modes \subseteq TraceModes \cup RequestModes
    /\ Depths \subseteq Nat \ {0}
    /\ CoreCounts \subseteq Nat
    /\ Traces \subseteq Seq([tick : Nat, op : {"known", "unknown"}])
    /\ \A t \in Traces : \A i, j \in DOMAIN t : i < j => t[i].tick <= t[j].tick
    /\ Limits \subseteq Nat
    /\ Latency \subseteq Nat \ {0}
    /\ {Volume, JobLatency, SubmissionLatency, CompletionLatency, Horizon}
          \subseteq Nat \ {0}

VARIABLES
    conf,               \* the configuration of this run
    now,                \* Engine::simTick
    queue,              \* Engine::eventQueue, in order
    forceStop,          \* Engine::forceStop
    running,            \* TRUE inside the loop of HIL::completion()
    pos,                \* lines read, or I/Os generated: io_count
    io_depth,           \* requests the generator waits for
    reserveTermination, \* nothing more to submit
    nextIOIsSync,       \* the next completion submits ("async")
    pBackup,            \* tick of a submission put aside ("strict")
    ioQueue,            \* BlockIOEntry::ioQueue
    jobs,               \* jobs of every firmware core
    completionQueue,    \* HIL::completionQueue
    lastScheduled,      \* HIL::lastScheduled
    panic,              \* a check of the code failed
    ends,               \* calls of endCallback (history)
    submittedAt         \* tick at which each line was submitted (history)

engine == <<now, queue, forceStop, running>>
generator == <<pos, io_depth, reserveTermination, nextIOIsSync, pBackup>>
hil == <<jobs, completionQueue, lastScheduled>>
vars == <<conf, engine, generator, ioQueue, hil, panic, ends, submittedAt>>

NoBackup == -1
Core == 1 .. conf.cores
Job(c) == <<"job", c>>
Submit == <<"submit", 0>>
Complete == <<"completion", 0>>
Start == <<"begin", 0>>

Tracing == conf.mode \in TraceModes

-----------------------------------------------------------------------------
(* The event engine. *)

(* insertEvent(): an event is in the list once; behind events of its tick. *)
insertEvent(q, e, tick) ==
    LET old == {i \in DOMAIN q : q[i].ev = e}
        others == IF old = {} THEN q ELSE RemoveAt(q, CHOOSE i \in old : TRUE)
        later == {i \in DOMAIN others : others[i].tick > tick}
        at == IF later = {} THEN Len(others) + 1
              ELSE CHOOSE i \in later : \A j \in later : i <= j
    IN  IF \E i \in DOMAIN q : q[i] = [ev |-> e, tick |-> tick]
        THEN q
        ELSE InsertAt(others, at, [ev |-> e, tick |-> tick])

(* scheduleEvent(): never in the past. *)
scheduleEvent(q, e, tick, current) ==
    insertEvent(q, e, IF tick < current THEN current ELSE tick)

(* isScheduled(), for a tick that is not before the given one. *)
scheduledFrom(q, e, tick) ==
    \E i \in DOMAIN q : q[i].ev = e /\ q[i].tick >= tick

(* doNextEvent() up to the call of the event's function.  The horizon only *)
(* cuts off replays that wait for a request of unknown type for ever.      *)
doNextEvent(e) ==
    /\ ~forceStop /\ ~running /\ panic = "no"
    /\ queue # <<>>
    /\ Head(queue).ev = e
    /\ Head(queue).tick <= Horizon
    /\ now' = Head(queue).tick

-----------------------------------------------------------------------------
(* HIL: firmware jobs and completions. *)

First(c) == CHOOSE t \in {r.finishedAt : r \in c} :
                \A r \in c : t <= r.finishedAt

(* updateCompletion() for the completion queue c: lastScheduled and the     *)
(* event queue it leaves.                                                   *)
updateCompletion(c) ==
    IF c = {} THEN lastScheduled ELSE First(c)

(* Mutant: the event is moved to later ticks only. *)
QueueAfterUpdateLater(c, q, tick) ==
    IF c # {} /\ lastScheduled < First(c)
    THEN scheduleEvent(q, Complete, First(c), tick)
    ELSE q

QueueAfterUpdate(c, q, tick) ==
    IF c # {} /\ lastScheduled # First(c)
    THEN scheduleEvent(q, Complete, First(c), tick)
    ELSE q

(* leastBusyCPU(): an idle core, or the last one with the fewest jobs.     *)
(* Which idle core depends on statistics.                                  *)
leastBusyCPU ==
    LET idle == {c \in Core : jobs[c] = <<>>}
        fewest == {c \in Core : \A d \in Core : Len(jobs[c]) <= Len(jobs[d])}
    IN  IF idle # {} \/ Core = {} THEN idle
        ELSE {CHOOSE c \in fewest : \A d \in fewest : d <= c}

(* What a call leaves of the HIL and of the event queue; the caller goes on *)
(* with that event queue.                                                   *)
Outcome(c, last, j, q) ==
    [completionQueue |-> c, lastScheduled |-> last, jobs |-> j, queue |-> q]

(* The body of HIL::read(), write(), flush() and trim(): an outcome for     *)
(* every time the drive may take.                                           *)
Serve(id, tick, q) ==
    {LET c == completionQueue \cup {[id |-> id, finishedAt |-> tick + l]}
     IN  Outcome(c, updateCompletion(c), jobs, QueueAfterUpdate(c, q, tick)) :
        l \in Latency}

(* execute(): a job for a core, or the function at once when there is none. *)
execute(id, tick, q) ==
    IF Core = {}
    THEN Serve(id, tick, q)
    ELSE {Outcome(completionQueue, lastScheduled,
                  [jobs EXCEPT ![c] = Append(@, id)],
                  IF jobs[c] = <<>>
                  THEN scheduleEvent(q, Job(c), tick + JobLatency, tick)
                  ELSE q) : c \in leastBusyCPU}

(* BlockIOEntry::submitIO(), the no-op scheduler and Driver::submitIO().   *)
(* The driver does nothing with a request of a type it does not know.      *)
submitIO(id, op, tick, q) ==
    IF op = "known" THEN execute(id, tick, q)
    ELSE {Outcome(completionQueue, lastScheduled, jobs, q)}

Submitted(id, tick, o) ==
    /\ ioQueue' = ioQueue \cup {id}
    /\ submittedAt' = [submittedAt EXCEPT ![id] = tick]
    /\ completionQueue' = o.completionQueue
    /\ lastScheduled' = o.lastScheduled
    /\ jobs' = o.jobs

(* Mutant: the job that is done stays in the queue of the core. *)
jobDoneKept(c) ==
    /\ doNextEvent(Job(c))
    /\ \E o \in Serve(Head(jobs[c]), now', Tail(queue)) :
          /\ completionQueue' = o.completionQueue
          /\ lastScheduled' = o.lastScheduled
          /\ queue' = o.queue
    /\ UNCHANGED <<conf, forceStop, running, generator, ioQueue, jobs, panic, ends,
                   submittedAt>>

(* CPU::Core::jobDone(): the function of the first job, then the next job. *)
jobDone(c) ==
    /\ doNextEvent(Job(c))
    /\ \E o \in Serve(Head(jobs[c]), now', Tail(queue)) :
          /\ completionQueue' = o.completionQueue
          /\ lastScheduled' = o.lastScheduled
          /\ queue' = IF Len(jobs[c]) > 1
                      THEN scheduleEvent(o.queue, Job(c), now' + JobLatency, now')
                      ELSE o.queue
    /\ jobs' = [jobs EXCEPT ![c] = Tail(@)]
    /\ UNCHANGED <<conf, forceStop, running, generator, ioQueue, panic, ends,
                   submittedAt>>

-----------------------------------------------------------------------------
(* endCallback() of main(): stop the engine. *)
endCallback(when) ==
    /\ ends' = IF when THEN ends + 1 ELSE ends
    /\ forceStop' = (forceStop \/ when)

(* The trace replayer. *)

(* Mutant: one more than the depth. *)
TraceRescheduleMore(q, d, tick, breakTime) ==
    IF conf.mode = "strict" \/ (conf.mode = "async" /\ d > conf.depth)
    THEN q
    ELSE scheduleEvent(q, Submit, tick + breakTime, tick)

(* rescheduleSubmit(), when the generator waits for d requests. *)
TraceReschedule(q, d, tick, breakTime) ==
    IF conf.mode = "strict" \/ (conf.mode = "async" /\ d >= conf.depth)
    THEN q
    ELSE scheduleEvent(q, Submit, tick + breakTime, tick)

(* Mutant: blocked beyond the depth only. *)
BlockedLate(d) == conf.mode = "async" /\ d > conf.depth

(* submitIO() of MODE_ASYNC reschedules itself, or leaves that to the next *)
(* completion when the depth is reached.                                   *)
Blocked(d) == conf.mode = "async" /\ d >= conf.depth

AfterLine(q, d, tick) ==
    IF conf.mode = "async"
    THEN TraceReschedule(q, d, tick, SubmissionLatency)
    ELSE q

(* The tick of line n on the engine's clock: tick - firstTick + initTime.  *)
LineTick(n) == conf.trace[n].tick - conf.trace[1].tick

(* handleNextLine() reads a line. *)
Readable == ~reserveTermination /\ pos < Len(conf.trace)

(* The limit of I/Os of the replay; 0 is none. *)
LimitReached(n) == n = conf.limit

(* Mutant: the end does not wait for requests in flight. *)
NoLineEager(tick, q) ==
    /\ ~Readable
    /\ endCallback(~reserveTermination)
    /\ reserveTermination' = TRUE
    /\ nextIOIsSync' = (nextIOIsSync \/ Blocked(io_depth))
    /\ queue' = AfterLine(q, io_depth, tick)
    /\ UNCHANGED <<pos, io_depth, pBackup, ioQueue, hil, panic, submittedAt>>

(* handleNextLine() when there is nothing to read. *)
NoLine(tick, q) ==
    /\ ~Readable
    /\ endCallback(~reserveTermination /\ io_depth = 0)
    /\ reserveTermination' = TRUE
    /\ nextIOIsSync' = (nextIOIsSync \/ Blocked(io_depth))
    /\ queue' = AfterLine(q, io_depth, tick)
    /\ UNCHANGED <<pos, io_depth, pBackup, ioQueue, hil, panic, submittedAt>>

(* handleNextLine() with a line: in MODE_STRICT the next submission is      *)
(* scheduled for the tick of this line, or put aside when the depth is      *)
(* reached.                                                                 *)
StrictQueue(q, n, d, tick) ==
    IF conf.mode = "strict" /\ d < conf.depth
    THEN scheduleEvent(q, Submit, LineTick(n), tick)
    ELSE q

NextLine(tick, q) ==
    LET n == pos + 1
        d == io_depth + 1
        put == conf.mode = "strict" /\ d = conf.depth
    IN  /\ Readable
        /\ pos' = n
        /\ io_depth' = d
        /\ reserveTermination' = LimitReached(n)
        /\ IF \/ conf.mode = "strict" /\ d > conf.depth
              \/ put /\ pBackup # NoBackup
           THEN /\ panic' = IF put THEN "BackupOverridden" ELSE "DepthExceeded"
                /\ queue' = q
                /\ UNCHANGED <<pBackup, nextIOIsSync, ioQueue, hil, submittedAt>>
           ELSE /\ pBackup' = IF put THEN LineTick(n) ELSE pBackup
                /\ \E o \in submitIO(n, conf.trace[n].op, tick,
                                    StrictQueue(q, n, d, tick)) :
                      /\ Submitted(n, tick, o)
                      /\ queue' = AfterLine(o.queue, d, tick)
                /\ nextIOIsSync' = (nextIOIsSync \/ Blocked(d))
                /\ UNCHANGED panic
        /\ UNCHANGED <<ends, forceStop>>

TraceSubmit(tick, q) == NoLine(tick, q) \/ NextLine(tick, q)

(* TraceReplayer::iocallback(). *)
TraceCallback ==
    LET d == io_depth - 1
        restore == conf.mode = "strict" /\ d = 0 /\ pBackup # NoBackup
        sync == conf.mode = "sync" \/ nextIOIsSync
        q == IF restore THEN scheduleEvent(queue, Submit, pBackup, now)
             ELSE queue
    IN  /\ io_depth' = d
        /\ endCallback(reserveTermination /\ d = 0)
        /\ pBackup' = IF restore THEN NoBackup ELSE pBackup
        /\ nextIOIsSync' = (sync /\ Blocked(d))
        /\ queue' = IF sync
                    THEN TraceReschedule(q, d, now,
                                         SubmissionLatency + CompletionLatency)
                    ELSE q
        /\ UNCHANGED <<pos, reserveTermination>>

-----------------------------------------------------------------------------
(* The request generator. *)

(* The end of the run: the volume is submitted or the time is over. *)
Enough(n, tick) ==
    IF conf.mode = "size" THEN n >= Volume ELSE Volume <= tick

(* rescheduleSubmit(): a submission is postponed, never brought forward. *)
RequestReschedule(q, n, d, tick, breakTime) ==
    IF \/ Enough(n, tick)
       \/ d >= conf.depth
       \/ scheduledFrom(q, Submit, tick + breakTime)
    THEN q
    ELSE scheduleEvent(q, Submit, tick + breakTime, tick)

(* _submitIO(). *)
RequestSubmit(tick, q) ==
    LET n == pos + 1
        d == io_depth + 1
    IN  /\ pos' = n
        /\ io_depth' = d
        /\ \E o \in submitIO(n, "known", tick, q) :
              /\ Submitted(n, tick, o)
              /\ queue' = RequestReschedule(o.queue, n, d, tick,
                                            SubmissionLatency)
        /\ reserveTermination' = (reserveTermination \/ Enough(n, tick))
        /\ UNCHANGED <<nextIOIsSync, pBackup, panic, ends, forceStop>>

(* _iocallback(). *)
RequestCallback ==
    LET d == io_depth - 1
        done == reserveTermination \/ Enough(pos, now)
    IN  /\ io_depth' = d
        /\ reserveTermination' = done
        /\ endCallback(done /\ d = 0)
        /\ queue' = IF reserveTermination THEN queue
                    ELSE RequestReschedule(queue, pos, d, now,
                                           SubmissionLatency + CompletionLatency)
        /\ UNCHANGED <<pos, nextIOIsSync, pBackup>>

-----------------------------------------------------------------------------
(* The event functions. *)

SubmitOne(tick, q) ==
    IF Tracing THEN TraceSubmit(tick, q) ELSE RequestSubmit(tick, q)

(* beginFunction of the driver: init() and begin() of the generator. *)
begin ==
    /\ doNextEvent(Start)
    /\ SubmitOne(now', Tail(queue))
    /\ UNCHANGED <<conf, running>>

(* submitEvent. *)
submit ==
    /\ doNextEvent(Submit)
    /\ SubmitOne(now', Tail(queue))
    /\ UNCHANGED <<conf, running>>

(* HIL::completion() begins: completionEvent fired. *)
completion ==
    /\ doNextEvent(Complete)
    /\ running' = TRUE
    /\ queue' = Tail(queue)
    /\ UNCHANGED <<conf, forceStop, generator, ioQueue, hil, panic, ends,
                   submittedAt>>

(* A turn of its loop: the callback goes through the driver and            *)
(* BlockIOEntry::completion() to the generator; only then the request is   *)
(* removed from both queues.                                               *)
callback(r) ==
    /\ running
    /\ r.finishedAt = First(completionQueue)
    /\ r.finishedAt <= now
    /\ IF r.id \notin ioQueue
       THEN UNCHANGED <<generator, queue, ends, forceStop>>
       ELSE IF Tracing THEN TraceCallback ELSE RequestCallback
    /\ ioQueue' = ioQueue \ {r.id}
    /\ completionQueue' = completionQueue \ {r}
    /\ UNCHANGED <<conf, now, running, jobs, lastScheduled, panic, submittedAt>>

(* The loop ends: schedule the next completion. *)
completionEnds ==
    /\ running
    /\ \A r \in completionQueue : r.finishedAt > now
    /\ running' = FALSE
    /\ lastScheduled' = updateCompletion(completionQueue)
    /\ queue' = QueueAfterUpdate(completionQueue, queue, now)
    /\ UNCHANGED <<conf, now, forceStop, generator, ioQueue, jobs,
                   completionQueue, panic, ends, submittedAt>>

-----------------------------------------------------------------------------
(* The I/Os of a run: of the trace, or as many as fit. *)
Ids == 1 .. IF Tracing THEN Len(conf.trace) ELSE Volume + 1

Configuration ==
    [mode : Modes, depth : Depths, cores : CoreCounts, trace : Traces,
     limit : Limits]

(* main() up to the event loop.  A generated run has no trace, and only    *)
(* MODE_STRICT looks at the ticks of one.                                  *)
Init ==
    /\ conf \in {c \in Configuration :
          /\ c.mode \in RequestModes => c.trace = <<>> /\ c.limit = 0
          /\ c.mode # "strict" => \A i \in DOMAIN c.trace : c.trace[i].tick = 0}
    /\ now = 0
    /\ queue = <<[ev |-> Start, tick |-> 0]>>
    /\ forceStop = FALSE
    /\ running = FALSE
    /\ pos = 0
    /\ io_depth = 0
    /\ reserveTermination = FALSE
    /\ nextIOIsSync = FALSE
    /\ pBackup = NoBackup
    /\ ioQueue = {}
    /\ jobs = [c \in Core |-> <<>>]
    /\ completionQueue = {}
    /\ lastScheduled = 0
    /\ panic = "no"
    /\ ends = 0
    /\ submittedAt = [i \in Ids |-> -1]

Next ==
    \/ begin
    \/ submit
    \/ \E c \in Core : jobDone(c)
    \/ completion
    \/ \E r \in completionQueue : callback(r)
    \/ completionEnds

(* The loop of main() goes on as long as doNextEvent() finds an event. *)
Spec == Init /\ [][Next]_vars /\ WF_vars(Next)

-----------------------------------------------------------------------------
(* Properties. *)

Event == [ev : {Start, Submit, Complete} \cup {Job(c) : c \in Core}, tick : Nat]

(* The type of every variable. *)
TypeOK ==
    /\ conf \in Configuration
    /\ now \in Nat
    /\ queue \in Seq(Event)
    /\ {forceStop, running, reserveTermination, nextIOIsSync} \subseteq BOOLEAN
    /\ pos \in Nat
    /\ io_depth \in Nat
    /\ pBackup \in Nat \cup {NoBackup}
    /\ ioQueue \subseteq Ids
    /\ jobs \in [Core -> Seq(Ids)]
    /\ completionQueue \subseteq [id : Ids, finishedAt : Nat]
    /\ lastScheduled \in Nat
    /\ panic \in {"no", "BackupOverridden", "DepthExceeded"}
    /\ ends \in Nat
    /\ submittedAt \in [Ids -> Nat \cup {-1}]

AtCore == UNION {{jobs[c][i] : i \in DOMAIN jobs[c]} : c \in Core}
Finishing == {r.id : r \in completionQueue}
Dropped ==
    IF Tracing
    THEN {i \in Ids : conf.trace[i].op = "unknown" /\ submittedAt[i] # -1}
    ELSE {}

(* A request is in one place: at a core, or in the completion queue.  Only *)
(* a request of unknown type is in neither.  The generator waits for       *)
(* exactly the requests the block I/O layer holds.                         *)
RequestsAccounted ==
    /\ TypeOK
    /\ panic = "no" =>
          /\ io_depth = Cardinality(ioQueue)
          /\ ioQueue = AtCore \cup Finishing \cup Dropped
          /\ AtCore \cap Finishing = {}

(* No request completes late: whenever the engine looks for the next event, *)
(* the first completion is scheduled for its own tick, although             *)
(* updateCompletion() compares only with the last tick it asked for, and    *)
(* the same event is moved whenever an earlier completion arrives.          *)
CompletionScheduled ==
    ~running /\ completionQueue # {} =>
        \E i \in DOMAIN queue :
            queue[i] = [ev |-> Complete, tick |-> First(completionQueue)]

(* The depth limit holds in every mode that has one and the checks of       *)
(* MODE_STRICT never fire: the submission put aside returns only when all   *)
(* requests are complete.                                                   *)
DepthKept ==
    /\ panic = "no"
    /\ io_depth <= IF conf.mode = "sync" THEN 1 ELSE conf.depth

(* The simulation ends once, with nothing in flight, and a replay after     *)
(* every line it was to read: all of them, or as many as the limit says.    *)
EndsOnce ==
    /\ ends <= 1
    /\ ends = 1 =>
          /\ ioQueue = {}
          /\ Tracing => pos = Len(conf.trace) \/ pos = conf.limit

(* Every run ends, in every mode, unless a request was of unknown type. *)
Terminates ==
    (\A i \in DOMAIN conf.trace : conf.trace[i].op = "known") => <>forceStop

(* MODE_STRICT issues every request of the trace "at exact time of trace"  *)
(* or, held up by the depth limit, later: never earlier.                   *)
StrictTiming ==
    conf.mode = "strict" =>
        \A i \in Ids : submittedAt[i] # -1 => submittedAt[i] >= LineTick(i)
=============================================================================

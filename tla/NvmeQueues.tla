----------------------------- MODULE NvmeQueues -----------------------------
(***************************************************************************)
(* The path of a command from the NVMe host driver (sil/nvme) through the  *)
(* submission queue, the controller and the subsystem (hil/nvme) and back  *)
(* through the completion queue.  The driver sets the drive up with admin  *)
(* commands, one after the other, and then sends I/O through one queue     *)
(* pair; it asks for round robin arbitration and no interrupt coalescing.  *)
(*                                                                         *)
(* Ticks are left out: what is scheduled happens some time.  A DMA is      *)
(* started in order, copies its data when it starts upstream, and finishes *)
(* in order (module DmaChannel).  What the subsystem does for a command is *)
(* one step that may take any time.                                        *)
(***************************************************************************)
EXTENDS Integers, Sequences, SequencesExt, FiniteSets, FiniteSetsExt

CONSTANTS
    AdminEntries,    \* QUEUE_ENTRY_ADMIN
    IoEntries,       \* QUEUE_ENTRY_IO
    MaxID,           \* largest command identifier
    FirstIDs,        \* values an uninitialised identifier may have
    MaxRequest,      \* commands handled in one round of the controller
    Depth,           \* commands the block layer has outstanding at most
    MaxIO            \* bound of the model: I/O commands in all

(* The commands of Driver::init() and _init0() .. _init4().  They are      *)
(* answered with success: the panics of _init1() (no namespace), of        *)
(* _init4() and of _init5() on a failed status are left out.               *)
Setup == <<"identify", "identify", "identify", "features", "createCQ", "createSQ">>

Admin == 0
IO == 1
Queues == {Admin, IO}
Entries(q) == IF q = Admin THEN AdminEntries ELSE IoEntries

(***************************************************************************)
(* Nothing in the driver stops it from filling a submission queue, so the  *)
(* workload must not; and the driver tells both completion queues' entries *)
(* apart with one phase, which is right while the admin queue never wraps. *)
(***************************************************************************)
ASSUME QueueAssumption ==
    /\ {AdminEntries, IoEntries, MaxID, MaxRequest, Depth, MaxIO} \subseteq Nat \ {0}
    /\ FirstIDs \subseteq 0 .. 2^16 - 1
    /\ Len(Setup) < AdminEntries
    /\ Depth < IoEntries /\ Depth <= MaxID

Commands == 1 .. Len(Setup) + MaxIO
None == [q |-> Admin, cid |-> 0, cmd |-> 0]

VARIABLES
    \* Driver
    issued,          \* number of commands so far; command c is the c-th
    lastID,          \* adminCommandID, ioCommandID
    pending,         \* pendingCommandList
    sqMemory,        \* host memory of the submission queues
    sqTail,          \* tails of the driver's submission queues
    cqMemory,        \* host memory of the completion queues
    cqHead,          \* heads of the driver's completion queues
    phase,
    \* DMA
    reads,           \* of submission queue entries, oldest first
    writes,          \* of completion queue entries, oldest first
    \* Controller
    sq,              \* ppSQueue: head and tail
    cq,              \* ppCQueue: head, tail and phase
    sqFIFO,          \* lSQFIFO
    cqFIFO,          \* lCQFIFO
    round,           \* where the work loop is
    requestCounter,
    completionEvent, \* it is scheduled
    sends,           \* interrupt vectors of batches that are written
    running,         \* commands in the subsystem
    \* History and outcome
    executed,        \* commands the subsystem has executed
    completed,       \* commands whose callback ran
    failure          \* the panic that ended the run, or ""

driver == <<issued, lastID, pending, sqMemory, sqTail>>
host == <<cqHead, phase, completed>>
completions == <<cq, cqFIFO, completionEvent, writes, sends, cqMemory>>
loop == <<sqFIFO, round, requestCounter>>
vars == <<driver, host, completions, loop, reads, sq, running, executed, failure>>

-----------------------------------------------------------------------------
(* A queue that does not exist has no entries. *)
NewQueue == [head |-> 0, tail |-> 0]
NewCQueue == [head |-> 0, tail |-> 0, phase |-> TRUE]

(* increaseCommandID(); an identifier has 16 bits. *)
NextID(id) ==
    LET next == (id + 1) % 2^16 IN IF next > MaxID THEN 1 ELSE next

(* submitCommand() without the doorbell, as new values of the driver's state. *)
Submit(q, list) ==
    LET e == [q |-> q, cid |-> NextID(lastID[q]), cmd |-> issued + 1]
    IN  /\ issued' = issued + 1
        /\ lastID' = [lastID EXCEPT ![q] = e.cid]
        /\ pending' = Append(list, e)
        /\ sqMemory' = [sqMemory EXCEPT ![q][sqTail[q]] = e]
        /\ sqTail' = [sqTail EXCEPT ![q] = (@ + 1) % Entries(q)]

(* ringSQTailDoorbell() *)
RingSQTail(q) == sq' = [sq EXCEPT ![q].tail = sqTail'[q]]

(***************************************************************************)
(* Driver::init(): the registers are written, which creates the admin      *)
(* queues and starts the controller, and the first command is sent.  The   *)
(* members that count command identifiers are not initialised.             *)
(***************************************************************************)
Init ==
    \E id \in [Queues -> FirstIDs] :
        LET e == [q |-> Admin, cid |-> NextID(id[Admin]), cmd |-> 1]
        IN  /\ issued = 1
            /\ lastID = [id EXCEPT ![Admin] = e.cid]
            /\ pending = <<e>>
            /\ sqMemory = [q \in Queues |-> [i \in 0 .. Entries(q) - 1 |->
                               IF q = Admin /\ i = 0 THEN e ELSE None]]
            /\ sqTail = [q \in Queues |-> IF q = Admin THEN 1 ELSE 0]
            /\ cqMemory = [q \in Queues |-> [i \in 0 .. Entries(q) - 1 |->
                               [phase |-> FALSE, entry |-> None]]]
            /\ cqHead = [q \in Queues |-> 0]
            /\ phase = TRUE
            /\ reads = <<>> /\ writes = <<>>
            /\ sq = Admin :> [head |-> 0, tail |-> 1]
            /\ cq = Admin :> NewCQueue
            /\ sqFIFO = <<>> /\ cqFIFO = <<>>
            /\ round = "work" /\ requestCounter = 0
            /\ completionEvent = FALSE /\ sends = <<>>
            /\ running = {} /\ executed = {} /\ completed = {}
            /\ failure = ""

(* The driver is set up: _init5() has run. *)
Ready == 1 .. Len(Setup) \subseteq completed

(***************************************************************************)
(* Driver::submitIO(), called while fewer than Depth commands are          *)
(* outstanding.  An identifier is reused after MaxID commands: none of     *)
(* them is outstanding for that long.                                      *)
(***************************************************************************)
SubmitIO ==
    /\ failure = "" /\ Ready
    /\ issued < Len(Setup) + MaxIO
    /\ Len(pending) < Depth
    /\ \A i \in DOMAIN pending : issued + 1 - pending[i].cmd < MaxID
    /\ Submit(IO, pending)
    /\ RingSQTail(IO)
    /\ UNCHANGED <<host, completions, loop, reads, running, executed, failure>>

-----------------------------------------------------------------------------
(* DMA: the copy into or from host memory, and the end of a transfer. *)

Uncopied(dma) == {i \in DOMAIN dma : ~dma[i].copied}

CopyRead ==
    /\ Uncopied(reads) # {}
    /\ LET i == Min(Uncopied(reads))
           r == reads[i]
       IN  reads' = [reads EXCEPT ![i] =
                        [r EXCEPT !.copied = TRUE, !.entry = sqMemory[r.q][r.slot]]]
    /\ UNCHANGED <<driver, host, completions, loop, sq, running, executed, failure>>

CopyWrite ==
    /\ Uncopied(writes) # {}
    /\ LET i == Min(Uncopied(writes))
           w == writes[i]
       IN  /\ writes' = [writes EXCEPT ![i].copied = TRUE]
           /\ cqMemory' = [cqMemory EXCEPT ![w.q][w.slot] =
                               [phase |-> w.phase, entry |-> w.entry]]
    /\ UNCHANGED <<driver, host, cq, cqFIFO, completionEvent, sends,
                   loop, reads, sq, running, executed, failure>>

-----------------------------------------------------------------------------
(* The controller's work loop. *)

(* getItemCount() *)
ItemCount(q) == (sq[q].tail - sq[q].head) % Entries(q)

(* The reads of a round robin over the queues: one of each in every pass. *)
Collected ==
    LET Nth(q, k) ==
            IF q \in DOMAIN sq /\ k <= ItemCount(q)
            THEN <<[q |-> q, slot |-> (sq[q].head + k - 1) % Entries(q),
                    copied |-> FALSE, entry |-> None]>>
            ELSE <<>>
    IN  FlattenSeq([k \in 1 .. Max({ItemCount(q) : q \in DOMAIN sq}) |->
                        Nth(Admin, k) \o Nth(IO, k)])

(* Mutant: the entries asked for stay in the queue. *)
WorkAgain ==
    /\ round = "work"
    /\ reads' = Collected
    /\ round' = IF Collected = <<>> THEN "handle" ELSE "collect"
    /\ requestCounter' = 0
    /\ UNCHANGED <<driver, host, completions, sqFIFO, sq, running, executed, failure>>

(* work() and collectSQueue(): all entries there are now are asked for. *)
Work ==
    /\ round = "work"
    /\ reads' = Collected
    /\ sq' = [q \in DOMAIN sq |-> [sq[q] EXCEPT !.head = sq[q].tail]]
    /\ round' = IF Collected = <<>> THEN "handle" ELSE "collect"
    /\ requestCounter' = 0
    /\ UNCHANGED <<driver, host, completions, sqFIFO, running, executed, failure>>

(* doRead() of checkQueue(); the last one lets the commands be handled. *)
ReadDone ==
    /\ reads # <<>> /\ Head(reads).copied
    /\ sqFIFO' = Append(sqFIFO, Head(reads).entry)
    /\ reads' = Tail(reads)
    /\ round' = IF Tail(reads) = <<>> THEN "handle" ELSE round
    /\ UNCHANGED <<driver, host, completions, requestCounter, sq, running, executed, failure>>

(* Mutant: the newest command is taken. *)
HandleNewest ==
    /\ round = "handle"
    /\ LET n == Len(sqFIFO)
       IN  /\ sqFIFO' = SubSeq(sqFIFO, 1, n - 1)
           /\ running' = running \cup {sqFIFO[i] : i \in DOMAIN sqFIFO \cap {n}}
           /\ requestCounter' = requestCounter + 1
           /\ round' = IF n > 1 /\ requestCounter + 1 < MaxRequest THEN "handle" ELSE "work"
    /\ UNCHANGED <<driver, host, completions, reads, sq, executed, failure>>

(* handleRequest(): one command, then the next one or the next round. *)
HandleRequest ==
    /\ round = "handle"
    /\ LET rest == IF sqFIFO = <<>> THEN <<>> ELSE Tail(sqFIFO)
       IN  /\ sqFIFO' = rest
           /\ running' = running \cup {sqFIFO[i] : i \in DOMAIN sqFIFO \cap {1}}
           /\ requestCounter' = requestCounter + 1
           /\ round' = IF rest # <<>> /\ requestCounter + 1 < MaxRequest
                       THEN "handle" ELSE "work"
    /\ UNCHANGED <<driver, host, completions, reads, sq, executed, failure>>

-----------------------------------------------------------------------------
(* The subsystem and the controller's completions. *)

(* The queues a command creates: createCQueue(), createSQueue(). *)
Creates(e, kind) ==
    e.q = Admin /\ e.cmd \in DOMAIN Setup /\ Setup[e.cmd] = kind

(* submit(), called when the subsystem is done with a command. *)
Respond(e) ==
    /\ e \in running
    /\ running' = running \ {e}
    /\ executed' = executed \cup {e.cmd}
    /\ sq' = IF Creates(e, "createSQ") /\ IO \in DOMAIN cq THEN sq @@ (IO :> NewQueue) ELSE sq
    /\ cq' = IF Creates(e, "createCQ") THEN cq @@ (IO :> NewCQueue) ELSE cq
    /\ IF e.q \in DOMAIN cq
       THEN /\ cqFIFO' = Append(cqFIFO, e)
            /\ completionEvent' = TRUE
            /\ UNCHANGED failure
       ELSE /\ failure' = "Completion Queue not created"
            /\ UNCHANGED <<cqFIFO, completionEvent>>
    /\ UNCHANGED <<driver, host, writes, sends, cqMemory, loop, reads>>

(* Entries of the queue of the i-th completion before it, in the batch. *)
Earlier(i) == Cardinality({j \in 1 .. i - 1 : cqFIFO[j].q = cqFIFO[i].q})

(* CQueue::setData() for the i-th completion. *)
SetData(i) ==
    LET q == cqFIFO[i].q
        pos == cq[q].tail + Earlier(i)
    IN  [q |-> q, slot |-> pos % Entries(q),
         phase |-> (pos < Entries(q)) = cq[q].phase,
         entry |-> cqFIFO[i], copied |-> FALSE, last |-> i = Len(cqFIFO),
         ivs |-> {cqFIFO[j].q : j \in DOMAIN cqFIFO}]

Overflow ==
    \E i \in DOMAIN cqFIFO :
        LET w == SetData(i) IN (w.slot + 1) % Entries(w.q) = cq[w.q].head

(* Mutant: the phase turns one entry late. *)
CompletionLate ==
    /\ completionEvent
    /\ completionEvent' = FALSE
    /\ cqFIFO' = <<>>
    /\ writes' = writes \o [i \in DOMAIN cqFIFO |-> SetData(i)]
    /\ cq' = [q \in DOMAIN cq |->
                 LET pos == cq[q].tail + Cardinality({i \in DOMAIN cqFIFO : cqFIFO[i].q = q})
                 IN  [cq[q] EXCEPT !.tail = pos % Entries(q),
                                   !.phase = (pos <= Entries(q)) = @]]
    /\ failure' = IF Overflow THEN "Completion queue overflow" ELSE failure
    /\ UNCHANGED <<driver, host, sends, cqMemory, loop, reads, sq, running, executed>>

(* completion(): everything that is due is written, in order. *)
Completion ==
    /\ completionEvent
    /\ completionEvent' = FALSE
    /\ cqFIFO' = <<>>
    /\ writes' = writes \o [i \in DOMAIN cqFIFO |-> SetData(i)]
    /\ cq' = [q \in DOMAIN cq |->
                 LET pos == cq[q].tail + Cardinality({i \in DOMAIN cqFIFO : cqFIFO[i].q = q})
                 IN  [cq[q] EXCEPT !.tail = pos % Entries(q),
                                   !.phase = (pos < Entries(q)) = @]]
    /\ failure' = IF Overflow THEN "Completion queue overflow" ELSE failure
    /\ UNCHANGED <<driver, host, sends, cqMemory, loop, reads, sq, running, executed>>

(* doSubmit(): after the last write of a batch its interrupts are sent. *)
WriteDone ==
    /\ writes # <<>> /\ Head(writes).copied
    /\ writes' = Tail(writes)
    /\ sends' = IF Head(writes).last THEN Append(sends, Head(writes).ivs) ELSE sends
    /\ UNCHANGED <<driver, host, cq, cqFIFO, completionEvent, cqMemory,
                   loop, reads, sq, running, executed, failure>>

-----------------------------------------------------------------------------
(* The driver's interrupt. *)

(* The phase the driver expects k entries from the head of queue q. *)
Expected(q, k) == (cqHead[q] + k < Entries(q)) = phase

Peek(q, k) == cqMemory[q][(cqHead[q] + k) % Entries(q)]

(* Mutant: one entry for every interrupt. *)
FinishedOne(q) ==
    Min({k \in 0 .. 1 : Peek(q, k).phase # Expected(q, k)} \cup {1})

(* The entries the loop of updateInterrupt() takes. *)
Finished(q) ==
    Min({k \in 0 .. Entries(q) : Peek(q, k).phase # Expected(q, k)} \cup {Entries(q)})

(* The first pending command the k-th entry may mean. *)
Match(q, k) ==
    {i \in DOMAIN pending : pending[i].q = q /\ pending[i].cid = Peek(q, k).entry.cid}

(***************************************************************************)
(* send() of completion(): updateInterrupt() for the lowest vector of the  *)
(* batch.  The driver runs the callbacks of the entries it finds, which    *)
(* send the next admin command, and rings the doorbell.  clearInterrupt()  *)
(* calls it again when entries are left, and it finds none.                *)
(***************************************************************************)
UpdateInterrupt(q) ==
    LET n == Finished(q)
        taken == {Min(Match(q, k)) : k \in {j \in 0 .. n - 1 : Match(q, j) # {}}}
        left == SelectSeq(pending, LAMBDA e : \A i \in taken : pending[i] # e)
        done == {pending[i].cmd : i \in taken}
    IN  /\ cqHead' = [cqHead EXCEPT ![q] = (@ + n) % Entries(q)]
        /\ phase' = Expected(q, n)
        /\ completed' = completed \cup done
        /\ cq' = IF n > 0 THEN [cq EXCEPT ![q].head = cqHead'[q]] ELSE cq
        /\ IF q = Admin /\ done # {} /\ issued < Len(Setup)
           THEN Submit(Admin, left) /\ RingSQTail(Admin)
           ELSE pending' = left /\ UNCHANGED <<issued, lastID, sqMemory, sqTail, sq>>
        /\ failure' = IF \E k \in 0 .. n - 1 : Match(q, k) = {}
                      THEN "Invalid interrupt" ELSE failure

Send ==
    /\ sends # <<>>
    /\ UpdateInterrupt(Min(Head(sends)))
    /\ LET rest == Head(sends) \ {Min(Head(sends))}
       IN  sends' = IF rest = {} THEN Tail(sends) ELSE <<rest>> \o Tail(sends)
    /\ completionEvent' = (completionEvent \/ cqFIFO # <<>>)
    /\ UNCHANGED <<cqFIFO, writes, cqMemory, loop, reads, running, executed>>

-----------------------------------------------------------------------------
Events ==
    \/ CopyRead \/ CopyWrite
    \/ Work \/ ReadDone \/ HandleRequest
    \/ \E e \in running : Respond(e)
    \/ Completion \/ WriteDone \/ Send

Next == failure = "" /\ (SubmitIO \/ Events)

(* The engine runs every event that is scheduled. *)
Fairness ==
    /\ WF_vars(failure = "" /\ CopyRead) /\ WF_vars(failure = "" /\ CopyWrite)
    /\ WF_vars(failure = "" /\ Work) /\ WF_vars(failure = "" /\ ReadDone)
    /\ WF_vars(failure = "" /\ HandleRequest)
    /\ \A c \in Commands :
           WF_vars(failure = "" /\ \E e \in running : e.cmd = c /\ Respond(e))
    /\ WF_vars(failure = "" /\ Completion) /\ WF_vars(failure = "" /\ WriteDone)
    /\ WF_vars(failure = "" /\ Send)

Spec == Init /\ [][Next]_vars /\ Fairness

-----------------------------------------------------------------------------
Entry == [q : Queues, cid : 0 .. MaxID, cmd : 0 .. Len(Setup) + MaxIO]

(* Every variable has its type. *)
TypeOK ==
    /\ issued \in Commands
    /\ lastID \in [Queues -> Nat]
    /\ pending \in Seq(Entry)
    /\ \A q \in Queues :
           /\ sqMemory[q] \in [0 .. Entries(q) - 1 -> Entry]
           /\ cqMemory[q] \in [0 .. Entries(q) - 1 -> [phase : BOOLEAN, entry : Entry]]
           /\ {sqTail[q], cqHead[q]} \subseteq 0 .. Entries(q) - 1
    /\ Admin \in DOMAIN cq /\ DOMAIN sq \subseteq DOMAIN cq
    /\ \A q \in DOMAIN sq : {sq[q].head, sq[q].tail} \subseteq 0 .. Entries(q) - 1
    /\ \A q \in DOMAIN cq : {cq[q].head, cq[q].tail} \subseteq 0 .. Entries(q) - 1
    /\ phase \in BOOLEAN /\ completionEvent \in BOOLEAN
    /\ sqFIFO \in Seq(Entry) /\ cqFIFO \in Seq(Entry) /\ running \subseteq Entry
    /\ round \in {"work", "collect", "handle"} /\ requestCounter \in 0 .. MaxRequest
    /\ executed \subseteq Commands /\ completed \subseteq Commands

(* Completions of queue q the host has not taken: in memory or on the way. *)
Posted(q) ==
    {(cqHead[q] + k) % Entries(q) : k \in 0 .. ((cq[q].tail - cqHead[q]) % Entries(q)) - 1}

(* Where command c is, as a bag of places. *)
Places(c) ==
    Cardinality({x \in Queues \X (0 .. Max({AdminEntries, IoEntries}) - 1) :
                    /\ x[1] \in DOMAIN sq
                    /\ \E k \in 0 .. ItemCount(x[1]) - 1 :
                           x[2] = (sq[x[1]].head + k) % Entries(x[1])
                    /\ sqMemory[x[1]][x[2]].cmd = c})
    + Cardinality({i \in DOMAIN reads : sqMemory[reads[i].q][reads[i].slot].cmd = c})
    + Cardinality({i \in DOMAIN sqFIFO : sqFIFO[i].cmd = c})
    + Cardinality({e \in running : e.cmd = c})
    + Cardinality({i \in DOMAIN cqFIFO : cqFIFO[i].cmd = c})
    + Cardinality({i \in DOMAIN writes : ~writes[i].copied /\ writes[i].entry.cmd = c})
    + Cardinality({x \in Queues \X (0 .. Max({AdminEntries, IoEntries}) - 1) :
                    /\ x[1] \in DOMAIN cq /\ x[2] \in Posted(x[1])
                    /\ \A i \in DOMAIN writes :
                           ~writes[i].copied => <<writes[i].q, writes[i].slot>> # x
                    /\ cqMemory[x[1]][x[2]].entry.cmd = c})

(***************************************************************************)
(* A command whose callback has not run is in exactly one place between    *)
(* the submission queue and the completion queue, and one whose callback   *)
(* ran is nowhere: no slot of a ring is reused too early, and no entry is  *)
(* fetched, handled or posted twice.  No panic of the driver or the        *)
(* controller is reached: no completion queue overflows, no entry names a  *)
(* command that is not pending, and no queue is used before it exists.     *)
(***************************************************************************)
OnePlace ==
    /\ TypeOK
    /\ failure = ""
    /\ \A c \in 1 .. issued : Places(c) = IF c \in completed THEN 0 ELSE 1

(***************************************************************************)
(* The one phase of the driver is the controller's phase of the I/O queue, *)
(* inverted while the controller is a lap ahead; an entry that was not     *)
(* written in this lap never carries the phase the driver expects.         *)
(***************************************************************************)
PhaseInStep ==
    LET q == IF IO \in DOMAIN cq THEN IO ELSE Admin
    IN  /\ (phase = cq[q].phase) = (cqHead[q] <= cq[q].tail)
        /\ \A k \in 0 .. Entries(q) - 2 :
               (cqHead[q] + k) % Entries(q) \notin Posted(q)
                   => Peek(q, k).phase # Expected(q, k)

(***************************************************************************)
(* The controller gives the commands of the host to the subsystem in the   *)
(* order in which they were issued, whatever the rounds that fetched them. *)
(***************************************************************************)
TakenInOrder ==
    [][\A e \in running' \ running :
           \A c \in 1 .. e.cmd - 1 : c \in executed \/ \E f \in running : f.cmd = c]_vars

Channel == INSTANCE CommandChannel WITH MaxCommands <- Len(Setup) + MaxIO

(***************************************************************************)
(* The driver and the controller together are a command channel: every     *)
(* command is executed once, and then, once, its own callback runs.        *)
(***************************************************************************)
IsChannel == Channel!Spec
=============================================================================

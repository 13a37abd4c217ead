------------------------- MODULE AsyncLoggingHandler -------------------------
(***************************************************************************)
(* The delivery core of AsyncLoggingHandler (async_logging_handler.py):    *)
(* emit() on any number of threads, the thread-safe ingress and the bridge *)
(* task that empties it, the backends' asyncio queues with one generic     *)
(* worker each, and start_logging / stop_logging / close.                  *)
(*                                                                         *)
(* Emitter threads and close() interleave with everything: what start and  *)
(* stop do in one await-free section is still one action per write that a  *)
(* thread reads.  Coroutines interleave only at their awaits: `loop' names *)
(* the place in such a section, and every other coroutine waits until it   *)
(* is "free".  One host task calls start and stop in turn (module          *)
(* Lifecycle has several).                                                 *)
(*                                                                         *)
(* A record that got into an ingress is named by its ticket, the position  *)
(* of its put among all puts; StatusRecord is a synthetic status record.   *)
(***************************************************************************)
EXTENDS Integers, Sequences, FiniteSets, Functions

CONSTANTS
  Emitters,      \* threads that call emit()
  Backends,      \* registered backend names
  Reporters,     \* the backends that are also status reporters
  QueueMaxsize,  \* config.queue_maxsize, of the ingress and of every queue
  MaxTickets,    \* bound: records put into an ingress in one behaviour
  MaxCycles      \* bound: calls of start_logging that succeed

ASSUME ReportersAssumption == Reporters \subseteq Backends
ASSUME FiniteAssumption    == IsFiniteSet(Emitters) /\ IsFiniteSet(Backends)
ASSUME SizesAssumption     == /\ QueueMaxsize \in Nat \ {0}
                              /\ MaxTickets \in Nat
                              /\ MaxCycles \in Nat

VARIABLES
  closed,     \* _closed
  accept,     \* logging_accept_event
  running,    \* logging_running_event
  cycle,      \* how many times start_logging has created an ingress
  hasLoop,    \* _loop is not None
  ref,        \* _ingress: the cycle that created it, or None
  eventRef,   \* _ingress_event: the same
  loop,       \* where the event loop is in an await-free section
  ingress,    \* the queue.Queue each cycle created, oldest record first
  event,      \* the wakeup event each cycle created
  pending,    \* event.set callbacks handed to call_soon_threadsafe
  bridge,     \* the bridge task of the current cycle
  queue,      \* the asyncio.Queue of each backend
  unfinished, \* its count of records without task_done()
  worker,     \* the worker task of each backend
  hand,       \* the record the worker is processing
  stop,       \* where the running stop_logging call is
  result,     \* DrainStatus of each backend in that call
  pc,         \* where each emit() call is
  cap,        \* the references that emit() call has captured
  tickets,    \* records put into an ingress so far
  cut,        \* history: tickets when stop_logging lowered the accept event
  fate        \* history: what became of each record at each backend

refs     == <<hasLoop, ref, eventRef>>
flags    == <<closed, accept, running, cycle, refs>>
wakeups  == <<event, pending, bridge>>
backends == <<queue, unfinished, worker, hand>>
stopping == <<stop, result, cut>>
emits    == <<pc, cap>>
history  == <<tickets, fate>>
vars == <<flags, loop, ingress, wakeups, backends, stopping, emits, history>>

-----------------------------------------------------------------------------
Cycles       == 1..MaxCycles
Tickets      == 1..MaxTickets
None         == 0                 \* a reference that is None
NoRecord     == -1
StatusRecord == 0
Starting     == {"start", "start_ingress", "start_event", "start_accept"}
Releasing    == {"tail", "release_ingress", "release_event"}
Handled      == {"written", "failed"}
Fates        == Handled \cup
                {"none", "pending", "overflow", "discarded", "abandoned", "swept"}

TypeOK ==
  /\ closed \in BOOLEAN /\ accept \in BOOLEAN /\ running \in BOOLEAN
  /\ cycle \in 0..MaxCycles
  /\ hasLoop \in BOOLEAN
  /\ ref \in {None, cycle} /\ eventRef \in {None, cycle}
  /\ loop \in {"free", "bridge", "flush"} \cup Starting \cup Releasing
  /\ ingress \in [Cycles -> Seq(Tickets)]
  /\ event \in [Cycles -> BOOLEAN]
  /\ pending \in [Cycles -> Nat]
  /\ bridge \in {"none", "waiting", "moving", "done"}
  /\ queue \in [Backends -> Seq(Tickets \cup {StatusRecord})]
  /\ unfinished \in [Backends -> Nat]
  /\ worker \in [Backends -> {"none", "idle", "busy", "cancelled", "done"}]
  /\ hand \in [Backends -> Tickets \cup {StatusRecord, NoRecord}]
  /\ stop \in {"idle", "flush", "drain", "join", "cancel"}
  /\ result \in [Backends -> {"none", "COMPLETED", "TIMEOUT"}]
  /\ pc \in [Emitters -> {"idle", "ingress", "loop", "event", "put", "wake"}]
  /\ cap \in [Emitters -> [ingress : 0..MaxCycles, event : 0..MaxCycles]]
  /\ tickets \in 0..MaxTickets
  /\ cut \in 0..MaxTickets
  /\ fate \in [Backends -> [Tickets -> Fates]]

Init ==
  /\ closed = FALSE /\ accept = FALSE /\ running = FALSE
  /\ cycle = 0 /\ hasLoop = FALSE /\ ref = None /\ eventRef = None
  /\ loop = "free"
  /\ ingress = [c \in Cycles |-> <<>>]
  /\ event = [c \in Cycles |-> FALSE]
  /\ pending = [c \in Cycles |-> 0]
  /\ bridge = "none"
  /\ queue = [b \in Backends |-> <<>>]
  /\ unfinished = [b \in Backends |-> 0]
  /\ worker = [b \in Backends |-> "none"]
  /\ hand = [b \in Backends |-> NoRecord]
  /\ stop = "idle"
  /\ result = [b \in Backends |-> "none"]
  /\ pc = [e \in Emitters |-> "idle"]
  /\ cap = [e \in Emitters |-> [ingress |-> None, event |-> None]]
  /\ tickets = 0 /\ cut = 0
  /\ fate = [b \in Backends |-> [t \in Tickets |-> "none"]]

(***************************************************************************)
(* emit(record), any thread.  Between any two of its steps every other     *)
(* thread may run, so the references it holds may be stale.  An emit that  *)
(* finds the accept event clear returns at once and changes nothing.  The  *)
(* code reads all three references before it looks for a None; here emit   *)
(* ends at the first None, for reading the others has no effect.           *)
(***************************************************************************)
Reading  == {"ingress", "loop", "event"}
InFlight == {e \in Emitters : pc[e] \in Reading \cup {"put"}}

At(e, label)   == pc[e] = label
Goto(e, label) == pc' = [pc EXCEPT ![e] = label]

\* The accept check.  Bound: no more emits than there are tickets.
EmitCheck(e) ==
  /\ At(e, "idle")
  /\ accept
  /\ tickets + Cardinality(InFlight) < MaxTickets
  /\ Goto(e, "ingress")
  /\ UNCHANGED <<flags, loop, ingress, wakeups, backends, stopping, cap, history>>

\* ingress = self._ingress
EmitReadIngress(e) ==
  /\ At(e, "ingress")
  /\ cap' = [cap EXCEPT ![e].ingress = ref]
  /\ Goto(e, IF ref = None THEN "idle" ELSE "loop")
  /\ UNCHANGED <<flags, loop, ingress, wakeups, backends, stopping, history>>

\* loop = self._loop; every cycle runs on the same event loop.
EmitReadLoop(e) ==
  /\ At(e, "loop")
  /\ Goto(e, IF hasLoop THEN "event" ELSE "idle")
  /\ UNCHANGED <<flags, loop, ingress, wakeups, backends, stopping, cap, history>>

\* ingress_event = self._ingress_event
EmitReadEvent(e) ==
  /\ At(e, "event")
  /\ cap' = [cap EXCEPT ![e].event = eventRef]
  /\ Goto(e, IF eventRef = None THEN "idle" ELSE "put")
  /\ UNCHANGED <<flags, loop, ingress, wakeups, backends, stopping, history>>

\* put_nowait: the record gets the next ticket and is due at every backend.
Enqueue(c) ==
  /\ tickets' = tickets + 1
  /\ ingress' = [ingress EXCEPT ![c] = Append(@, tickets + 1)]
  /\ fate' = [b \in Backends |-> [fate[b] EXCEPT ![tickets + 1] = "pending"]]

\* queue.Full is reported and emit returns; otherwise the wakeup follows.
EmitPut(e) ==
  LET c == cap[e].ingress IN
  /\ At(e, "put")
  /\ \/ /\ Len(ingress[c]) < QueueMaxsize
        /\ Enqueue(c)
        /\ Goto(e, "wake")
     \/ /\ Len(ingress[c]) >= QueueMaxsize
        /\ Goto(e, "idle")
        /\ UNCHANGED <<ingress, history>>
  /\ UNCHANGED <<flags, loop, wakeups, backends, stopping, cap>>

\* loop.call_soon_threadsafe(ingress_event.set)
EmitWake(e) ==
  /\ At(e, "wake")
  /\ pending' = [pending EXCEPT ![cap[e].event] = @ + 1]
  /\ Goto(e, "idle")
  /\ UNCHANGED <<flags, loop, ingress, event, bridge, backends, stopping, cap, history>>

\* A scheduled callback runs on the loop.
SetEvent(c) ==
  /\ loop = "free"
  /\ pending[c] > 0
  /\ pending' = [pending EXCEPT ![c] = @ - 1]
  /\ event' = [event EXCEPT ![c] = TRUE]
  /\ UNCHANGED <<flags, loop, ingress, bridge, backends, stopping, emits, history>>

-----------------------------------------------------------------------------
(***************************************************************************)
(* The fan-out of one record into every backend queue, shared by the       *)
(* bridge and by stop_logging's flush: a full queue reports the record and *)
(* drops it for that backend.                                              *)
(***************************************************************************)
HasRoom(b) == Len(queue[b]) < QueueMaxsize

\* Mutant: QueueFull is swallowed and not reported.
FanOut_Silent(t) ==
  /\ queue' = [b \in Backends |->
       IF HasRoom(b) THEN Append(queue[b], t) ELSE queue[b]]
  /\ unfinished' = [b \in Backends |->
       IF HasRoom(b) THEN unfinished[b] + 1 ELSE unfinished[b]]
  /\ UNCHANGED fate

FanOut(t) ==
  /\ queue' = [b \in Backends |->
       IF HasRoom(b) THEN Append(queue[b], t) ELSE queue[b]]
  /\ unfinished' = [b \in Backends |->
       IF HasRoom(b) THEN unfinished[b] + 1 ELSE unfinished[b]]
  /\ fate' = [b \in Backends |->
       IF HasRoom(b) THEN fate[b] ELSE [fate[b] EXCEPT ![t] = "overflow"]]

\* get_nowait from the ingress, then the fan-out.
MoveRecord ==
  /\ ref # None
  /\ ingress[ref] # <<>>
  /\ FanOut(Head(ingress[ref]))
  /\ ingress' = [ingress EXCEPT ![ref] = Tail(@)]
  /\ UNCHANGED <<flags, loop, wakeups, worker, hand, stopping, emits, tickets>>

(***************************************************************************)
(* _bridge_loop: wait for the event, clear it, then move records until the *)
(* ingress is empty.  Only the wait is an await.                           *)
(***************************************************************************)
BridgeWake ==
  /\ loop = "free"
  /\ bridge = "waiting"
  /\ event[cycle]
  /\ event' = [event EXCEPT ![cycle] = FALSE]
  /\ bridge' = "moving"
  /\ loop' = "bridge"
  /\ UNCHANGED <<flags, ingress, pending, backends, stopping, emits, history>>

BridgeMove == loop = "bridge" /\ MoveRecord

\* Mutant: one record per wakeup, as if every put had a wakeup of its own.
BridgeWait_OnePerWakeup ==
  /\ loop = "bridge"
  /\ bridge' = "waiting"
  /\ loop' = "free"
  /\ UNCHANGED <<flags, ingress, event, pending, backends, stopping, emits, history>>

BridgeWait ==
  /\ loop = "bridge"
  /\ ingress[cycle] = <<>>
  /\ bridge' = "waiting"
  /\ loop' = "free"
  /\ UNCHANGED <<flags, ingress, event, pending, backends, stopping, emits, history>>

-----------------------------------------------------------------------------
(***************************************************************************)
(* A backend worker, common to every backend: while running or not empty,  *)
(* take a record with a 1 s timeout, process it, task_done().  Modules     *)
(* FileWorker and BrokerWorker have the sinks in detail.                   *)
(***************************************************************************)
Processing(b) == worker[b] \in {"busy", "cancelled"} /\ hand[b] # NoRecord

WorkerGet(b) ==
  /\ loop = "free"
  /\ worker[b] = "idle"
  /\ queue[b] # <<>>
  /\ worker' = [worker EXCEPT ![b] = "busy"]
  /\ hand' = [hand EXCEPT ![b] = Head(queue[b])]
  /\ queue' = [queue EXCEPT ![b] = Tail(@)]
  /\ UNCHANGED <<flags, loop, ingress, wakeups, unfinished, stopping, emits, history>>

\* task_done() for the record in hand, whose outcome at b is `outcome'.
Finish(b, outcome) ==
  /\ unfinished' = [unfinished EXCEPT ![b] = @ - 1]
  /\ fate' = IF hand[b] \in Tickets
             THEN [fate EXCEPT ![b][hand[b]] = outcome] ELSE fate
  /\ hand' = [hand EXCEPT ![b] = NoRecord]

\* Mutant: a failed record goes back to the end of the queue.
WorkerDone_Requeue(b) ==
  /\ loop = "free"
  /\ worker[b] = "busy"
  /\ \/ Finish(b, "written") /\ UNCHANGED queue
     \/ /\ queue' = [queue EXCEPT ![b] = Append(@, hand[b])]
        /\ hand' = [hand EXCEPT ![b] = NoRecord]
        /\ UNCHANGED <<unfinished, fate>>
  /\ worker' = [worker EXCEPT ![b] = "idle"]
  /\ UNCHANGED <<flags, loop, ingress, wakeups, stopping, emits, tickets>>

\* Mutant: the failure is reported, and the record is tried once more.
WorkerDone_ReportAndRetry(b) ==
  /\ loop = "free"
  /\ worker[b] = "busy"
  /\ \/ Finish(b, "written") /\ worker' = [worker EXCEPT ![b] = "idle"]
     \/ /\ hand[b] \in Tickets
        /\ fate' = [fate EXCEPT ![b][hand[b]] = "failed"]
        /\ UNCHANGED <<unfinished, hand, worker>>
  /\ UNCHANGED <<flags, loop, ingress, wakeups, queue, stopping, emits, tickets>>

\* Mutant: no except clause, so that a failure ends the worker.
WorkerDone_Dies(b) ==
  /\ loop = "free"
  /\ worker[b] = "busy"
  /\ \E outcome \in Handled :
       /\ Finish(b, outcome)
       /\ worker' = [worker EXCEPT ![b] = IF outcome = "failed" THEN "done" ELSE "idle"]
  /\ UNCHANGED <<flags, loop, ingress, wakeups, queue, stopping, emits, tickets>>

\* The sink took the record, or raised and the failure was reported.
WorkerDone(b) ==
  /\ loop = "free"
  /\ worker[b] = "busy"
  /\ \E outcome \in Handled : Finish(b, outcome)
  /\ worker' = [worker EXCEPT ![b] = "idle"]
  /\ UNCHANGED <<flags, loop, ingress, wakeups, queue, stopping, emits, tickets>>

\* The get timed out and the loop condition is false.
WorkerExit(b) ==
  /\ loop = "free"
  /\ worker[b] = "idle"
  /\ ~running /\ queue[b] = <<>>
  /\ worker' = [worker EXCEPT ![b] = "done"]
  /\ UNCHANGED <<flags, loop, ingress, wakeups, queue, unfinished, hand, stopping,
                 emits, history>>

\* Mutant: task_done() in the outer finally, also without a record in hand.
WorkerCancelled_AlwaysAcks(b) ==
  /\ loop = "free"
  /\ worker[b] = "cancelled"
  /\ Finish(b, "abandoned")
  /\ worker' = [worker EXCEPT ![b] = "done"]
  /\ UNCHANGED <<flags, loop, ingress, wakeups, queue, stopping, emits, tickets>>

\* CancelledError runs the finally clauses: the record in hand is acknowledged.
WorkerCancelled(b) ==
  /\ loop = "free"
  /\ worker[b] = "cancelled"
  /\ \/ hand[b] # NoRecord /\ Finish(b, "abandoned")
     \/ hand[b] = NoRecord /\ UNCHANGED <<unfinished, fate, hand>>
  /\ worker' = [worker EXCEPT ![b] = "done"]
  /\ UNCHANGED <<flags, loop, ingress, wakeups, queue, stopping, emits, tickets>>

-----------------------------------------------------------------------------
(***************************************************************************)
(* start_logging: await-free, but threads may look, and close() may run,   *)
(* between its checks (which raise RuntimeError) and each of its writes.   *)
(***************************************************************************)
StartCheck ==
  /\ loop = "free" /\ stop = "idle"
  /\ ~closed
  /\ ~running
  /\ cycle < MaxCycles
  /\ loop' = "start"
  /\ UNCHANGED <<flags, ingress, wakeups, backends, stopping, emits, history>>

\* Mutant: the accept event is raised before the ingress is created.
StartLoop_AcceptFirst ==
  /\ loop = "start"
  /\ hasLoop' = TRUE
  /\ accept' = TRUE
  /\ loop' = "start_ingress"
  /\ UNCHANGED <<closed, running, cycle, ref, eventRef, ingress, wakeups, backends,
                 stopping, emits, history>>

StartLoop ==
  /\ loop = "start"
  /\ hasLoop' = TRUE
  /\ loop' = "start_ingress"
  /\ UNCHANGED <<closed, accept, running, cycle, ref, eventRef, ingress, wakeups,
                 backends, stopping, emits, history>>

\* The new ingress, empty as ingress[c] is for every cycle to come.
StartIngress ==
  /\ loop = "start_ingress"
  /\ cycle' = cycle + 1
  /\ ref' = cycle + 1
  /\ loop' = "start_event"
  /\ UNCHANGED <<closed, accept, running, hasLoop, eventRef, ingress, wakeups, backends,
                 stopping, emits, history>>

\* The new, clear event.  No thread can see the bridge task, which begins at
\* the next await of the host.
StartEvent ==
  /\ loop = "start_event"
  /\ eventRef' = cycle
  /\ bridge' = "waiting"
  /\ loop' = "start_accept"
  /\ UNCHANGED <<closed, accept, running, cycle, hasLoop, ref, ingress, event, pending,
                 backends, stopping, emits, history>>

\* Nor does a thread read the running event or the worker tasks.
StartFinish ==
  /\ loop = "start_accept"
  /\ accept' = TRUE
  /\ running' = TRUE
  /\ worker' = [b \in Backends |-> "idle"]
  /\ loop' = "free"
  /\ UNCHANGED <<closed, cycle, refs, ingress, wakeups, queue, unfinished, hand,
                 stopping, emits, history>>

\* close(), on any thread; it neither stops nor waits for anything.  _closed is
\* read by the check of start_logging only, so its two writes are one action.
Close ==
  /\ ~closed
  /\ closed' = TRUE
  /\ accept' = FALSE
  /\ UNCHANGED <<running, cycle, refs, loop, ingress, wakeups, backends, stopping,
                 emits, history>>

(***************************************************************************)
(* stop_logging.  The bridge can be cancelled only at its wait, so it has  *)
(* no record in hand, and it never runs again.                             *)
(***************************************************************************)
\* Mutant: the accept event is lowered only after the drains.
StopBegin_StillAccepting ==
  /\ loop = "free" /\ stop = "idle"
  /\ running
  /\ bridge' = "done"
  /\ stop' = "flush"
  /\ cut' = tickets
  /\ UNCHANGED <<flags, loop, ingress, event, pending, backends, result, emits, history>>

StopBegin ==
  /\ loop = "free" /\ stop = "idle"
  /\ running
  /\ accept' = FALSE
  /\ bridge' = "done"
  /\ stop' = "flush"
  /\ cut' = tickets
  /\ UNCHANGED <<closed, running, cycle, refs, loop, ingress, event, pending, backends,
                 result, emits, history>>

\* The cancelled bridge has been awaited: the flush runs without an await.
FlushBegin ==
  /\ loop = "free" /\ stop = "flush"
  /\ loop' = "flush"
  /\ UNCHANGED <<flags, ingress, wakeups, backends, stopping, emits, history>>

FlushMove == loop = "flush" /\ MoveRecord

\* Mutant: the drains begin without the inline flush.
FlushEnd_NoFlush ==
  /\ loop = "flush"
  /\ stop' = "drain"
  /\ loop' = "free"
  /\ UNCHANGED <<flags, ingress, wakeups, backends, result, cut, emits, history>>

FlushEnd ==
  /\ loop = "flush"
  /\ ingress[ref] = <<>>
  /\ stop' = "drain"
  /\ loop' = "free"
  /\ UNCHANGED <<flags, ingress, wakeups, backends, result, cut, emits, history>>

\* Mutant: a drain that waits for an empty queue instead of queue.join().
Joined_EmptyQueue(b) == queue[b] = <<>>

\* queue.join() returns.
Joined(b) == unfinished[b] = 0

\* drain(): wait_for(queue.join(), timeout).  A timeout of 0 expires at once.
DrainCompleted(b) ==
  /\ loop = "free" /\ stop = "drain" /\ result[b] = "none"
  /\ Joined(b)
  /\ result' = [result EXCEPT ![b] = "COMPLETED"]
  /\ UNCHANGED <<flags, loop, ingress, wakeups, backends, stop, cut, emits, history>>

DrainTimeout(b) ==
  /\ loop = "free" /\ stop = "drain" /\ result[b] = "none"
  /\ result' = [result EXCEPT ![b] = "TIMEOUT"]
  /\ UNCHANGED <<flags, loop, ingress, wakeups, backends, stop, cut, emits, history>>

(***************************************************************************)
(* gather returned every result: each reporter enqueues one status record  *)
(* per result, dropping those its queue has no room for, and the running   *)
(* event is cleared.                                                       *)
(***************************************************************************)
StatusCount(b) ==
  LET room == QueueMaxsize - Len(queue[b])
      due  == Cardinality(Backends)
  IN  IF b \notin Reporters THEN 0 ELSE IF due < room THEN due ELSE room

StopReport ==
  /\ loop = "free" /\ stop = "drain"
  /\ \A b \in Backends : result[b] # "none"
  /\ queue' = [b \in Backends |->
       queue[b] \o [i \in 1..StatusCount(b) |-> StatusRecord]]
  /\ unfinished' = [b \in Backends |-> unfinished[b] + StatusCount(b)]
  /\ running' = FALSE
  /\ stop' = "join"
  /\ UNCHANGED <<closed, accept, cycle, refs, loop, ingress, wakeups, worker, hand,
                 result, cut, emits, history>>

\* Mutant: the second gather waits for the stragglers without cancelling them.
StopTimeout_NoCancel ==
  /\ loop = "free" /\ stop = "join"
  /\ \E b \in Backends : worker[b] # "done"
  /\ stop' = "cancel"
  /\ UNCHANGED <<flags, loop, ingress, wakeups, backends, result, cut, emits, history>>

\* The bounded gather of the workers expires: whoever still runs is cancelled.
StopTimeout ==
  /\ loop = "free" /\ stop = "join"
  /\ \E b \in Backends : worker[b] # "done"
  /\ worker' = [b \in Backends |->
       IF worker[b] = "done" THEN "done" ELSE "cancelled"]
  /\ stop' = "cancel"
  /\ UNCHANGED <<flags, loop, ingress, wakeups, queue, unfinished, hand, result, cut,
                 emits, history>>

(***************************************************************************)
(* The tail of stop_logging, once every worker has ended: an await-free    *)
(* section that threads interleave with.                                   *)
(***************************************************************************)
\* Mutant: the cancelled workers are not awaited.
Reaped_NotAwaited ==
  \/ \A b \in Backends : worker[b] = "done"
  \/ stop = "cancel"

\* Every worker task has ended.
Reaped == \A b \in Backends : worker[b] = "done"

LeftOver(b) == Range(queue[b]) \cap Tickets

\* Mutant: get_nowait() without its task_done().
AfterClear_NoTaskDone(b) == unfinished[b]

\* One task_done() for each record that the clearing loop takes out.
AfterClear(b) == unfinished[b] - Len(queue[b])

\* What is left in the backend queues, which no thread reads, is dropped.
ClearQueues ==
  /\ loop = "free" /\ stop \in {"join", "cancel"}
  /\ Reaped
  /\ queue' = [b \in Backends |-> <<>>]
  /\ unfinished' = [b \in Backends |-> AfterClear(b)]
  /\ fate' = [b \in Backends |-> [t \in Tickets |->
       IF t \in LeftOver(b) THEN "discarded" ELSE fate[b][t]]]
  /\ worker' = [b \in Backends |-> "none"]     \* log_workers_tasks = []
  /\ loop' = "tail"
  /\ UNCHANGED <<flags, ingress, wakeups, hand, stopping, emits, tickets>>

\* What is left in the ingress is dropped record by record, ...
SweepRecord ==
  /\ loop = "tail"
  /\ ingress[ref] # <<>>
  /\ ingress' = [ingress EXCEPT ![ref] = Tail(@)]
  /\ fate' = [b \in Backends |-> [fate[b] EXCEPT ![Head(ingress[ref])] = "swept"]]
  /\ UNCHANGED <<flags, loop, wakeups, backends, stopping, emits, tickets>>

\* ... and once it was seen empty, the references are released one by one.
ReleaseLoop ==
  /\ loop = "tail"
  /\ ingress[ref] = <<>>
  /\ hasLoop' = FALSE
  /\ loop' = "release_ingress"
  /\ UNCHANGED <<closed, accept, running, cycle, ref, eventRef, ingress, wakeups,
                 backends, stopping, emits, history>>

ReleaseIngress ==
  /\ loop = "release_ingress"
  /\ ref' = None
  /\ loop' = "release_event"
  /\ UNCHANGED <<closed, accept, running, cycle, hasLoop, eventRef, ingress, wakeups,
                 backends, stopping, emits, history>>

\* _ingress_event and _bridge_task, and stop_logging returns.
ReleaseEvent ==
  /\ loop = "release_event"
  /\ eventRef' = None
  /\ bridge' = "none"
  /\ stop' = "idle"
  /\ result' = [b \in Backends |-> "none"]
  /\ cut' = 0
  /\ loop' = "free"
  /\ UNCHANGED <<closed, accept, running, cycle, hasLoop, ref, ingress, event, pending,
                 backends, emits, history>>

-----------------------------------------------------------------------------
EmitStep(e) == \/ EmitCheck(e) \/ EmitReadIngress(e) \/ EmitReadLoop(e)
               \/ EmitReadEvent(e) \/ EmitPut(e) \/ EmitWake(e)

BridgeStep == BridgeWake \/ BridgeMove \/ BridgeWait

WorkerStep(b) == \/ WorkerGet(b) \/ WorkerDone(b)
                 \/ WorkerExit(b) \/ WorkerCancelled(b)

StartStep == StartCheck \/ StartLoop \/ StartIngress \/ StartEvent \/ StartFinish

StopStep == \/ StopBegin \/ FlushBegin \/ FlushMove \/ FlushEnd
            \/ \E b \in Backends : DrainCompleted(b) \/ DrainTimeout(b)
            \/ StopReport \/ StopTimeout \/ ClearQueues
            \/ SweepRecord \/ ReleaseLoop \/ ReleaseIngress \/ ReleaseEvent

\* The bounds are used up and the handler is stopped: nothing is left to do.
Quiescent ==
  /\ ~running /\ stop = "idle" /\ loop = "free"
  /\ closed \/ cycle = MaxCycles
  /\ \A e \in Emitters : pc[e] = "idle"
  /\ \A c \in Cycles : pending[c] = 0
  /\ UNCHANGED vars

Next ==
  \/ \E e \in Emitters : EmitStep(e)
  \/ \E c \in Cycles : SetEvent(c)
  \/ BridgeStep
  \/ \E b \in Backends : WorkerStep(b)
  \/ StartStep \/ Close
  \/ StopStep
  \/ Quiescent

Spec == Init /\ [][Next]_vars

(***************************************************************************)
(* Fairness.  Threads are scheduled; asyncio runs every ready callback and *)
(* task in turn, and timers expire.  Nothing obliges the host to start,    *)
(* stop or close, a thread to log, or a sink ever to answer: WorkerDone is *)
(* not fair.                                                               *)
(***************************************************************************)
EmitProgress(e) == \/ EmitReadIngress(e) \/ EmitReadLoop(e) \/ EmitReadEvent(e)
                   \/ EmitPut(e) \/ EmitWake(e)

Fairness ==
  /\ \A e \in Emitters : WF_vars(EmitProgress(e))
  /\ \A c \in Cycles : WF_vars(SetEvent(c))
  /\ WF_vars(BridgeStep)
  /\ \A b \in Backends : WF_vars(WorkerGet(b) \/ WorkerExit(b) \/ WorkerCancelled(b))
  /\ WF_vars(StartLoop \/ StartIngress \/ StartEvent \/ StartFinish)
  /\ WF_vars(FlushBegin \/ FlushMove \/ FlushEnd)
  /\ \A b \in Backends : WF_vars(DrainTimeout(b))
  /\ WF_vars(StopReport) /\ WF_vars(StopTimeout) /\ WF_vars(ClearQueues)
  /\ WF_vars(SweepRecord \/ ReleaseLoop \/ ReleaseIngress \/ ReleaseEvent)

FairSpec == Spec /\ Fairness

-----------------------------------------------------------------------------
(***************************************************************************)
(* Safety properties.                                                      *)
(***************************************************************************)
InHand(b)   == IF hand[b] \in Tickets THEN {hand[b]} ELSE {}

\* A bridge that sleeps over a record has its wakeup under way: emit puts the
\* record before it schedules the event, and the bridge clears the event before
\* it looks into the ingress ("no lost wakeup", emit and _bridge_loop).
NoLostWakeup ==
  (bridge = "waiting" /\ ingress[cycle] # <<>> /\ ~event[cycle]) =>
    \/ pending[cycle] > 0
    \/ \E e \in Emitters : At(e, "wake") /\ cap[e].event = cycle

\* queue.join() of a backend counts exactly the records queued and in hand, so a
\* drain neither completes early nor waits for a record that is gone (the
\* finally: task_done() of every worker, and the pairing in stop_logging).
UnfinishedBalanced ==
  \A b \in Backends :
    unfinished[b] = Len(queue[b]) + (IF hand[b] = NoRecord THEN 0 ELSE 1)

\* An accepted record is pending at a backend exactly while it is in that
\* backend's hands or in an ingress: no await, flush, cancel or teardown loses
\* or resurrects one without giving it a fate.
Conserved ==
  \A b \in Backends : \A t \in Tickets :
    fate[b][t] = "pending" <=>
      \/ t \in Range(queue[b]) \cup InHand(b)
      \/ \E c \in Cycles : t \in Range(ingress[c])

\* A COMPLETED drain means that the backend is through with every record put
\* before the accept event was lowered, and stays true to the end of the call.
CompletedMeansSettled ==
  \A b \in Backends : result[b] = "COMPLETED" =>
    \A t \in 1..cut : fate[b][t] = "pending" =>
      \E c \in Cycles \ {ref} : t \in Range(ingress[c])

\* A handler that is not running and not stopping keeps nothing of the last
\* cycle, so a restart begins with empty queues, balanced counts and no worker
\* or bridge of the old one (the tail of stop_logging).
StoppedIsClean ==
  (~running /\ stop = "idle" /\ loop = "free") =>
    /\ ~hasLoop /\ ref = None /\ eventRef = None /\ bridge = "none" /\ ~accept
    /\ \A b \in Backends : /\ queue[b] = <<>> /\ unfinished[b] = 0
                           /\ worker[b] = "none" /\ hand[b] = NoRecord

\* The sink sees records in put order, each once: a worker finishes a record
\* only when every earlier one is settled or lies in a released ingress.
HandledInOrder ==
  [][\A b \in Backends : \A t \in Tickets :
       (fate'[b][t] \in Handled /\ fate[b][t] \notin Handled) =>
         /\ fate[b][t] = "pending"
         /\ \A u \in 1..(t - 1) : fate[b][u] = "pending" =>
              \E c \in Cycles : c # cycle /\ u \in Range(ingress[c])]_vars

\* stop_logging drops a queued record, or cancels a worker over one, only at a
\* backend whose drain timed out; and it sweeps from the ingress only what was
\* put after it lowered the accept event.
DropsOnlyLateOrTimedOut ==
  [][\A b \in Backends : \A t \in Tickets : fate[b][t] = "pending" =>
       /\ fate'[b][t] \in {"discarded", "abandoned"} => result[b] = "TIMEOUT"
       /\ fate'[b][t] = "swept" => t > cut]_vars

\* emit finds a reference missing, and drops its record, only while the accept event
\* is down: start_logging raises it after it has set all three, and stop_logging
\* lowers it before it releases the first (emit's comment on the teardown window, and
\* start_logging's on the order of its writes).
SilentDropsAreLate ==
  [][\A e \in Emitters :
       (pc[e] \in Reading /\ pc'[e] = "idle") => ~accept]_vars

\* The core implements the abstract specification of delivery.
Delivery == INSTANCE RecordDelivery WITH issued <- tickets

ImplementsDelivery == Delivery!Spec

(***************************************************************************)
(* Liveness properties.                                                    *)
(***************************************************************************)

\* stop_logging returns, even if a sink never answers (both waits are bounded).
StopReturns == (stop # "idle") ~> (stop = "idle")

\* A record put into the current ingress does not stay there.
IngressDrained ==
  \A t \in Tickets :
    (ref # None /\ t \in Range(ingress[ref])) ~> ~(ref # None /\ t \in Range(ingress[ref]))

SinksAnswer == \A b \in Backends : WF_vars(WorkerDone(b))

\* With sinks that answer, every record put into the current ingress before the
\* sweep of stop_logging has seen it empty is settled at every backend.
EventuallySettled ==
  SinksAnswer =>
    \A b \in Backends : \A t \in Tickets :
      (ref # None /\ t \in Range(ingress[ref]) /\ loop \notin Releasing \ {"tail"})
        ~> (fate[b][t] # "pending")

=============================================================================

------------------------------- MODULE Lifecycle -------------------------------
(***************************************************************************)
(* The life of an AsyncLoggingHandler used by several tasks of the host:   *)
(* start_logging, close() and any number of stop_logging calls in flight   *)
(* at once, any of which the host may cancel (asyncio.wait_for around it), *)
(* with workers that die of an exception or hang until they are cancelled. *)
(*                                                                         *)
(* AsyncLoggingHandler follows the records through one stop at a time;     *)
(* here records, queues and drain results are left out (every drain ends,  *)
(* by its timeout at the latest) and the subject is which tasks the        *)
(* handler holds, which it has let go of, and what a call that fails       *)
(* halfway leaves behind.  A start names a cycle, 1, 2, ...; 0 stands for  *)
(* None and for the empty list.                                            *)
(***************************************************************************)
EXTENDS Integers

CONSTANTS
  Callers,     \* the host's tasks that call stop_logging
  Backends,    \* the registered backends, a worker each
  MaxCycles,   \* bound: how often logging is started
  MaxCancels   \* bound: how often a stop is cancelled

ASSUME LifecycleAssumption == MaxCycles \in Nat /\ MaxCancels \in Nat

VARIABLES
  closed,   \* _closed
  accept,   \* logging_accept_event
  running,  \* logging_running_event
  ref,      \* the cycle whose _ingress, _ingress_event and _bridge_task are held
  tasks,    \* the cycle whose tasks log_workers_tasks holds
  bridge,   \* the bridge task of each cycle
  worker,   \* the worker tasks of each cycle
  pc,       \* the await that each stop_logging call is in
  mine,     \* the cycle whose task or tasks that await is for
  cycle,    \* starts so far
  cancels,  \* cancelled stops so far
  last,     \* history: how the latest stop since the latest start has ended
  tidy,     \* history: no start found tasks still held or a stop in flight
  gathered  \* history: cycles that a stop has gathered without forgetting them

flags == <<closed, accept, running>>
held  == <<ref, tasks>>
live  == <<bridge, worker>>
calls == <<pc, mine>>
past  == <<cycle, cancels, last, tidy, gathered>>
vars  == <<flags, held, live, calls, past>>

Cycles == 1..MaxCycles
Alive  == {"running", "cancelling"}
Over   == {"done", "failed", "cancelled"}

TypeOK ==
  /\ closed \in BOOLEAN /\ accept \in BOOLEAN /\ running \in BOOLEAN
  /\ ref \in 0..cycle /\ tasks \in 0..cycle
  /\ bridge \in [Cycles -> {"none", "done"} \union Alive]
  /\ worker \in [Cycles -> [Backends -> {"none"} \union Alive \union Over]]
  /\ pc \in [Callers -> {"idle", "bridge", "drain", "gather", "timeout", "reap",
                         "gather cancelled", "reap cancelled"}]
  /\ mine \in [Callers -> 0..cycle]
  /\ \A h \in Callers : pc[h] \notin {"idle", "drain"} => mine[h] # 0
  /\ cycle \in 0..MaxCycles /\ cancels \in 0..MaxCancels
  /\ last \in {"none", "returned", "raised"}
  /\ tidy \in BOOLEAN /\ gathered \subseteq Cycles

Init ==
  /\ closed = FALSE /\ accept = FALSE /\ running = FALSE
  /\ ref = 0 /\ tasks = 0
  /\ bridge = [c \in Cycles |-> "none"]
  /\ worker = [c \in Cycles |-> [b \in Backends |-> "none"]]
  /\ pc = [h \in Callers |-> "idle"] /\ mine = [h \in Callers |-> 0]
  /\ cycle = 0 /\ cancels = 0
  /\ last = "none" /\ tidy = TRUE /\ gathered = {}

-----------------------------------------------------------------------------
(* start_logging and close: no await in either. *)

Start ==
  /\ ~closed /\ ~running
  /\ cycle < MaxCycles
  /\ cycle' = cycle + 1
  /\ ref' = cycle' /\ tasks' = cycle'
  /\ bridge' = [bridge EXCEPT ![cycle'] = "running"]
  /\ accept' = TRUE /\ running' = TRUE
  /\ worker' = [worker EXCEPT ![cycle'] = [b \in Backends |-> "running"]]
  /\ tidy' = (tidy /\ tasks = 0 /\ \A h \in Callers : pc[h] = "idle")
  /\ last' = "none"
  /\ UNCHANGED <<closed, calls, cancels, gathered>>

Close ==
  /\ closed' = TRUE /\ accept' = FALSE
  /\ UNCHANGED <<running, held, live, calls, past>>

-----------------------------------------------------------------------------
(* stop_logging, from one await to the next. *)

Await(h, where, c) ==
  /\ pc' = [pc EXCEPT ![h] = where]
  /\ mine' = [mine EXCEPT ![h] = c]

\* The tail: the tasks are forgotten, the ingress and the bridge task released.
Return(h) ==
  /\ Await(h, "idle", 0)
  /\ tasks' = 0 /\ ref' = 0
  /\ last' = "returned"
  /\ UNCHANGED gathered

\* Mutant: the tasks are forgotten in a `finally`.
Raise_Forgets(h) ==
  /\ Await(h, "idle", 0)
  /\ last' = "raised"
  /\ tasks' = 0
  /\ UNCHANGED <<ref, gathered>>

\* An exception or a cancellation comes out of an await: the rest is skipped.
Raise(h) ==
  /\ Await(h, "idle", 0)
  /\ last' = "raised"
  /\ gathered' = gathered \union ({mine[h]} \ {0})
  /\ UNCHANGED held

\* task.cancel() for every task of the cycle that is not done.
Cancelled(c) ==
  worker' = [worker EXCEPT ![c] = [b \in Backends |->
               IF @[b] = "running" THEN "cancelling" ELSE @[b]]]

\* Mutant: `if not self.logging_running_event.is_set(): return`.
StopNothing_RunningOnly ==
  /\ ~running
  /\ last' = "returned"
  /\ UNCHANGED <<flags, held, live, calls, cycle, cancels, tidy, gathered>>

StopNothing ==
  /\ ~running /\ tasks = 0
  /\ last' = "returned"
  /\ UNCHANGED <<flags, held, live, calls, cycle, cancels, tidy, gathered>>

\* Mutant: the accept event stays set until the tail.
StopBegin_StillAccepting(h) ==
  /\ pc[h] = "idle" /\ (running \/ tasks # 0)
  /\ Await(h, "drain", 0)
  /\ UNCHANGED <<flags, held, live, past>>

\* A bridge task that is done already is awaited without yielding.
StopBegin(h) ==
  /\ pc[h] = "idle" /\ (running \/ tasks # 0)
  /\ accept' = FALSE
  /\ IF ref # 0 /\ bridge[ref] # "done"
     THEN /\ bridge' = [bridge EXCEPT ![ref] = "cancelling"]
          /\ Await(h, "bridge", ref)
     ELSE UNCHANGED bridge /\ Await(h, "drain", 0)
  /\ UNCHANGED <<closed, running, held, worker, past>>

BridgeAwaited(h) ==
  /\ pc[h] = "bridge" /\ bridge[mine[h]] = "done"
  /\ Await(h, "drain", 0)
  /\ UNCHANGED <<flags, held, live, past>>

\* Mutant: the test of log_workers_tasks is gone.
Drained_NoTest(h) ==
  /\ pc[h] = "drain"
  /\ running' = FALSE
  /\ Await(h, "gather", tasks)
  /\ UNCHANGED <<closed, accept, held, live, past>>

\* The drains and the reporters have ended.
Drained(h) ==
  /\ pc[h] = "drain"
  /\ running' = FALSE
  /\ IF tasks = 0 THEN Return(h)
     ELSE Await(h, "gather", tasks) /\ UNCHANGED <<held, last, gathered>>
  /\ UNCHANGED <<closed, accept, live, cycle, cancels, tidy>>

Ended(c, ends) == \A b \in Backends : worker[c][b] \in ends
Broken(c)      == \E b \in Backends : worker[c][b] \in {"failed", "cancelled"}

\* asyncio.gather is over with the first task that failed or was cancelled, and
\* leaves the others running.
Gathered(h) ==
  /\ pc[h] = "gather"
  /\ \/ Ended(mine[h], {"done"}) /\ Return(h)
     \/ Broken(mine[h]) /\ Raise(h)
  /\ UNCHANGED <<flags, live, cycle, cancels, tidy>>

GatherTimeout(h) ==
  /\ pc[h] = "gather"
  /\ ~Ended(mine[h], {"done"}) /\ ~Broken(mine[h])
  /\ Cancelled(mine[h])
  /\ Await(h, "timeout", mine[h])
  /\ UNCHANGED <<flags, held, bridge, past>>

\* Mutant: the stragglers are gathered again without the loop that cancels them.
TimeoutRaised_NotCancelled(h) ==
  /\ pc[h] = "timeout" /\ Broken(mine[h])
  /\ IF tasks = 0 THEN Return(h) /\ UNCHANGED worker
     ELSE Await(h, "reap", tasks) /\ UNCHANGED <<worker, held, last, gathered>>
  /\ UNCHANGED <<flags, bridge, cycle, cancels, tidy>>

\* wait_for has seen its gather out: the exception of a worker passes through, a
\* cancelled worker makes it a TimeoutError, and log_workers_tasks is read again.
TimeoutRaised(h) ==
  /\ pc[h] = "timeout"
  /\ \/ /\ \E b \in Backends : worker[mine[h]][b] = "failed"
        /\ Raise(h)
        /\ UNCHANGED worker
     \/ /\ \E b \in Backends : worker[mine[h]][b] = "cancelled"
        /\ IF tasks = 0 THEN Return(h) /\ UNCHANGED worker
           ELSE /\ Cancelled(tasks)
                /\ Await(h, "reap", tasks)
                /\ UNCHANGED <<held, last, gathered>>
  /\ UNCHANGED <<flags, bridge, cycle, cancels, tidy>>

Reaped(h) ==
  /\ pc[h] = "reap" /\ Ended(mine[h], Over)
  /\ Return(h)
  /\ UNCHANGED <<flags, live, cycle, cancels, tidy>>

-----------------------------------------------------------------------------
(* The host cancels a stop. *)

\* The `except CancelledError` around the bridge task takes the host's for its own.
CancelSwallowed(h) == pc[h] = "bridge" /\ UNCHANGED <<calls, held, worker, last, gathered>>

\* Out at once: the workers go on, and at the drains logging_running_event stays set.
CancelRaised(h) == pc[h] \in {"drain", "timeout"} /\ Raise(h) /\ UNCHANGED worker

\* The cancellation goes to the workers first, and out once they have answered.
CancelGather(h) ==
  /\ \/ pc[h] = "gather" /\ ~Ended(mine[h], {"done"}) /\ ~Broken(mine[h])
        /\ Await(h, "gather cancelled", mine[h])
     \/ pc[h] = "reap" /\ ~Ended(mine[h], Over)
        /\ Await(h, "reap cancelled", mine[h])
  /\ Cancelled(mine[h])
  /\ UNCHANGED <<held, last, gathered>>

CancelStop(h) ==
  /\ cancels < MaxCancels /\ cancels' = cancels + 1
  /\ CancelSwallowed(h) \/ CancelRaised(h) \/ CancelGather(h)
  /\ UNCHANGED <<flags, bridge, cycle, tidy>>

CancelAnswered(h) ==
  /\ \/ pc[h] = "gather cancelled" /\ Broken(mine[h])
     \/ pc[h] = "reap cancelled" /\ Ended(mine[h], Over)
  /\ Raise(h)
  /\ UNCHANGED <<flags, live, cycle, cancels, tidy>>

-----------------------------------------------------------------------------
(* The tasks. *)

BridgeEnds(c) ==
  /\ bridge[c] = "cancelling"
  /\ bridge' = [bridge EXCEPT ![c] = "done"]
  /\ UNCHANGED <<flags, held, worker, calls, past>>

WorkerEnds(c, b, from, how) ==
  /\ worker[c][b] = from
  /\ worker' = [worker EXCEPT ![c][b] = how]
  /\ UNCHANGED <<flags, held, bridge, calls, past>>

\* The worker reads the event of the handler, not of its cycle.
WorkerReturns(c, b)   == ~running /\ WorkerEnds(c, b, "running", "done")
WorkerFails(c, b)     == \E from \in Alive : WorkerEnds(c, b, from, "failed")
WorkerCancelled(c, b) == WorkerEnds(c, b, "cancelling", "cancelled")

-----------------------------------------------------------------------------
StopStep(h) == \/ BridgeAwaited(h) \/ Drained(h) \/ Gathered(h) \/ GatherTimeout(h)
               \/ TimeoutRaised(h) \/ Reaped(h) \/ CancelAnswered(h)

Next ==
  \/ Start \/ Close \/ StopNothing
  \/ \E h \in Callers : StopBegin(h) \/ StopStep(h) \/ CancelStop(h)
  \/ \E c \in Cycles : BridgeEnds(c)
  \/ \E c \in Cycles, b \in Backends :
       WorkerReturns(c, b) \/ WorkerFails(c, b) \/ WorkerCancelled(c, b)

Spec == Init /\ [][Next]_vars

\* The event loop runs what is ready: drains end and gathers time out, a cancelled
\* bridge or worker ends (BrokerWorker and FileWorker: CancelEnds).  Nothing is
\* assumed of a worker that nobody cancels.
Fairness ==
  /\ \A h \in Callers : WF_vars(StopStep(h))
  /\ \A c \in Cycles : WF_vars(BridgeEnds(c))
  /\ \A c \in Cycles, b \in Backends : WF_vars(WorkerCancelled(c, b))

FairSpec == Spec /\ Fairness

-----------------------------------------------------------------------------
(* Properties. *)

\* As long as every start finds the last stop over and its tasks forgotten, no task
\* outlives the handler's knowledge of it, whatever was cancelled or has died: there
\* is at most one worker on a backend's queue, and a later stop can end it.
NoOrphanTasks ==
  tidy => /\ \A c \in Cycles : bridge[c] \in Alive => ref = c
          /\ \A c \in Cycles, b \in Backends : worker[c][b] \in Alive => tasks = c

\* As long as every start finds the last stop over and its tasks forgotten (tidy), no
\* stop that has begun, on its own or over another one, whether it returns, raises or
\* is cancelled, leaves the accept event raised over an ingress without its bridge.
\* A start is one step here, as no task of the host runs during it; the order of its
\* writes, which threads see, is a matter of AsyncLoggingHandler.
AcceptMeansServed ==
  tidy /\ accept => ref # 0 /\ tasks = ref /\ bridge[ref] = "running" /\ running

\* A stop that returns, be it the second of two or a retry, has left nothing alive.
ReturnLeavesNothing ==
  tidy /\ last = "returned" =>
    /\ tasks = 0 /\ ref = 0 /\ ~accept
    /\ \A c \in Cycles : bridge[c] \notin Alive /\ Ended(c, {"none"} \union Over)

\* Every call of stop_logging ends, with other stops and starts in flight, dead or
\* hanging workers, and whatever is cancelled.
StopEnds == \A h \in Callers : pc[h] # "idle" ~> pc[h] = "idle"

\* "... then forget them so a later stop does not re-gather already-finished tasks"
\* (async_logging_handler.py:480).  A gather that raises skips the forgetting, so
\* every later stop gathers the same dead tasks and raises again.
FinishedForgotten ==
  \A h \in Callers : pc[h] = "gather" /\ mine[h] \in gathered => ~Ended(mine[h], Over)

=============================================================================

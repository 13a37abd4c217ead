---------------------------- MODULE ErrorChannel ----------------------------
(***************************************************************************)
(* The error channel (config.report_error) inside the code that reports to *)
(* it: emit() on any thread, the fan-out of the bridge and of the flush,   *)
(* and a worker's failure.  A report is a synchronous call: it goes to the *)
(* error_handler callback, or to the logger "scietex.logging", and a host  *)
(* that has attached this handler to that logger or to the root gets the   *)
(* report back as a record, in the middle of the call that reported.       *)
(*                                                                         *)
(* Records are alike here, so the ingress and the one backend's queue are  *)
(* numbers; AsyncLoggingHandler has what becomes of each record.           *)
(***************************************************************************)
EXTENDS Integers

CONSTANTS
  QueueMaxsize,
  MaxCalls,       \* bound: logging calls of the host, which does not log for ever
  RecursionLimit  \* nested reports that exhaust the interpreter's stack

ASSUME BoundsAssumption == /\ QueueMaxsize \in Nat \ {0}
                           /\ MaxCalls \in Nat
                           /\ RecursionLimit \in Nat \ {0}

VARIABLES
  callback,  \* the error_handler: "none", one that "handles" the report or "raises"
  routed,    \* records of "scietex.logging" reach this handler
  accept,    \* logging_accept_event
  ingress,   \* records in the ingress
  event,     \* the wakeup event is set or about to be
  queue,     \* records in the backend's queue
  stop,      \* how far stop_logging is
  section,   \* the await-free section that the event loop is in
  pc,        \* the call that each thread is in
  depth,     \* how many reports that call is nested in
  calls,     \* logging calls so far
  escaped    \* history: the sections out of which a RecursionError has come

host == <<callback, routed>>
vars == <<host, accept, ingress, event, queue, stop, section, pc, depth, calls, escaped>>

Threads == {"app", "loop"}

TypeOK ==
  /\ callback \in {"none", "handles", "raises"} /\ routed \in BOOLEAN
  /\ accept \in BOOLEAN /\ event \in BOOLEAN
  /\ ingress \in 0..QueueMaxsize /\ queue \in 0..QueueMaxsize
  /\ stop \in {"no", "begun", "flushed"}
  /\ section \in {"free", "bridge", "flush", "worker", "host"}
  /\ pc \in [Threads -> {"idle", "emit", "report", "move"}]
  /\ depth \in [Threads -> 0..RecursionLimit]
  /\ calls \in 0..MaxCalls
  /\ escaped \subseteq {"app", "bridge", "flush", "worker", "host"}

\* start_logging has just returned.
Init ==
  /\ callback \in {"none", "handles", "raises"} /\ routed \in BOOLEAN
  /\ accept = TRUE /\ event = FALSE
  /\ ingress = 0 /\ queue = 0
  /\ stop = "no" /\ section = "free"
  /\ pc = [th \in Threads |-> "idle"]
  /\ depth = [th \in Threads |-> 0]
  /\ calls = 0 /\ escaped = {}

-----------------------------------------------------------------------------
\* The innermost call of the thread returns, and with it all that it is nested in:
\* what was being moved or processed goes on.
Return(th) ==
  /\ pc' = [pc EXCEPT ![th] =
              IF th = "loop" /\ section \in {"bridge", "flush"} THEN "move" ELSE "idle"]
  /\ depth' = [depth EXCEPT ![th] = 0]
  /\ section' = IF th = "loop" /\ section \in {"worker", "host"} THEN "free" ELSE section

Goto(th, label) ==
  /\ pc' = [pc EXCEPT ![th] = label]
  /\ UNCHANGED <<depth, section>>

\* A thread, or a coroutine between two awaits, calls logger.info() or the like.
LogCall(th) ==
  /\ pc[th] = "idle" /\ (th = "loop" => section = "free")
  /\ calls < MaxCalls
  /\ calls' = calls + 1
  /\ pc' = [pc EXCEPT ![th] = "emit"]
  /\ section' = IF th = "loop" THEN "host" ELSE section
  /\ UNCHANGED <<host, accept, ingress, event, queue, stop, depth, escaped>>

\* emit(): refused, put into the ingress, or reported as queue.Full.
Emit(th) ==
  /\ pc[th] = "emit"
  /\ \/ ~accept /\ Return(th) /\ UNCHANGED <<ingress, event>>
     \/ /\ accept /\ ingress < QueueMaxsize
        /\ ingress' = ingress + 1 /\ event' = TRUE
        /\ Return(th)
     \/ /\ accept /\ ingress = QueueMaxsize
        /\ Goto(th, "report")
        /\ UNCHANGED <<ingress, event>>
  /\ UNCHANGED <<host, accept, queue, stop, calls, escaped>>

\* The report ends in the callback, or in a logger that is not routed back here.  A
\* callback that raises falls through to the logger.
Settles == callback = "handles" \/ ~routed

ReportSettled(th) ==
  /\ pc[th] = "report" /\ Settles
  /\ Return(th)
  /\ UNCHANGED <<host, accept, ingress, event, queue, stop, calls, escaped>>

\* The report comes back as a record, in a nested emit().
ReportComesBack(th) ==
  /\ pc[th] = "report" /\ ~Settles
  /\ depth[th] < RecursionLimit
  /\ depth' = [depth EXCEPT ![th] = @ + 1]
  /\ pc' = [pc EXCEPT ![th] = "emit"]
  /\ UNCHANGED <<host, accept, ingress, event, queue, stop, section, calls, escaped>>

\* No clause on the way guards the report: the RecursionError goes to the caller of
\* the logging call, or ends the task whose section this is.
ReportOverflows(th) ==
  /\ pc[th] = "report" /\ ~Settles
  /\ depth[th] = RecursionLimit
  /\ escaped' = escaped \cup {IF th = "app" THEN "app" ELSE section}
  /\ pc' = [pc EXCEPT ![th] = "idle"]
  /\ depth' = [depth EXCEPT ![th] = 0]
  /\ section' = IF th = "loop" THEN "free" ELSE section
  /\ UNCHANGED <<host, accept, ingress, event, queue, stop, calls>>

-----------------------------------------------------------------------------
BridgeWake ==
  /\ section = "free" /\ stop = "no" /\ "bridge" \notin escaped
  /\ event
  /\ event' = FALSE
  /\ section' = "bridge"
  /\ pc' = [pc EXCEPT !["loop"] = "move"]
  /\ UNCHANGED <<host, accept, ingress, queue, stop, depth, calls, escaped>>

\* Mutant: put_nowait on a queue without a bound.
Move_Unbounded ==
  /\ pc["loop"] = "move"
  /\ ingress > 0
  /\ ingress' = ingress - 1
  /\ queue' = queue + 1 /\ UNCHANGED <<pc, depth, section>>
  /\ UNCHANGED <<host, accept, event, stop, calls, escaped>>

\* The loop of the bridge and of the flush: get_nowait, then put_nowait into the
\* backend's queue or a report.  There is no await in it.
Move ==
  /\ pc["loop"] = "move"
  /\ ingress > 0
  /\ ingress' = ingress - 1
  /\ \/ queue < QueueMaxsize /\ queue' = queue + 1 /\ UNCHANGED <<pc, depth, section>>
     \/ queue = QueueMaxsize /\ Goto("loop", "report") /\ UNCHANGED queue
  /\ UNCHANGED <<host, accept, event, stop, calls, escaped>>

MoveEnd ==
  /\ pc["loop"] = "move"
  /\ ingress = 0
  /\ pc' = [pc EXCEPT !["loop"] = "idle"]
  /\ stop' = IF section = "flush" THEN "flushed" ELSE stop
  /\ section' = "free"
  /\ UNCHANGED <<host, accept, ingress, event, queue, depth, calls, escaped>>

\* A worker is through with a record; a failure is reported.
WorkerStep ==
  /\ section = "free" /\ "worker" \notin escaped
  /\ queue > 0
  /\ queue' = queue - 1
  /\ \/ UNCHANGED <<pc, section>>
     \/ section' = "worker" /\ pc' = [pc EXCEPT !["loop"] = "report"]
  /\ UNCHANGED <<host, accept, ingress, event, stop, depth, calls, escaped>>

\* Mutant: the accept event is lowered after the flush.
StopBegin_StillAccepting ==
  /\ section = "free" /\ stop = "no"
  /\ stop' = "begun"
  /\ UNCHANGED <<host, accept, ingress, event, queue, section, pc, depth, calls, escaped>>

StopBegin ==
  /\ section = "free" /\ stop = "no"
  /\ accept' = FALSE
  /\ stop' = "begun"
  /\ UNCHANGED <<host, ingress, event, queue, section, pc, depth, calls, escaped>>

\* The bridge has been cancelled and awaited.  The await raises what has ended it.
FlushBegin ==
  /\ section = "free" /\ stop = "begun"
  /\ "bridge" \notin escaped
  /\ section' = "flush"
  /\ pc' = [pc EXCEPT !["loop"] = "move"]
  /\ UNCHANGED <<host, accept, ingress, event, queue, stop, depth, calls, escaped>>

-----------------------------------------------------------------------------
Call(th) == Emit(th) \/ ReportSettled(th) \/ ReportComesBack(th) \/ ReportOverflows(th)

Loop == BridgeWake \/ Move \/ MoveEnd \/ FlushBegin

\* Nobody logs any more, and the handler is stopped.
Idle ==
  /\ \A th \in Threads : pc[th] = "idle"
  /\ section = "free" /\ ~accept
  /\ stop = "flushed" \/ "bridge" \in escaped
  /\ UNCHANGED vars

Next ==
  \/ \E th \in Threads : LogCall(th) \/ Call(th)
  \/ Loop \/ WorkerStep \/ StopBegin
  \/ Idle

\* Threads are scheduled and asyncio runs what is ready.  Nothing obliges a sink to
\* answer, or the host to log or to stop.
Spec == Init /\ [][Next]_vars /\ WF_vars(Loop) /\ \A th \in Threads : WF_vars(Call(th))

-----------------------------------------------------------------------------
(* Properties. *)

\* Whatever the channel does with a report, none that stop_logging's flush, a worker
\* or a coroutine of the host makes ends in a RecursionError once stop_logging has
\* lowered the accept event: its tail is not skipped for one.  A call on another thread
\* that was past the accept check may still end so.
StoppingNeverRaises == [][stop # "no" => escaped' \ escaped \subseteq {"app"}]_vars

\* With any channel the event loop gets control back from the flush, and from a report
\* of a worker or of the host, once stop_logging has lowered the accept event, since
\* then no report comes back into the ingress (the order of the first lines of
\* stop_logging).  The bridge is not in its section by then.
LoopYieldsOnceStopping == (stop # "no" /\ section # "free") ~> section = "free"

\* guide/lifecycle.md: emit() never raises.
EmitNeverRaises == escaped \cap {"app", "host"} = {}

=============================================================================

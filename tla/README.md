# A TLA+ model of scietex.logging

scietex.logging delivers `logging` records asynchronously: `emit()` may be called on any
thread, a bridge task on the event loop fans each record out to the queue of every backend,
and one worker per backend formats it and writes it to the console, to a file or to a broker.
This directory has TLA+ modules for the parts of it that are hard to test (threads against
coroutines, stops against everything, cancellation at every `await`, outages, one record in
many hands), configurations that model-check them with TLC, and theorems about each of these
modules that TLAPS checks for every value of its constants. Paths below are relative to
`src/src/scietex/logging/` unless they start with `docs/`, which is `src/docs/`.

## 1. Inventory

| Component | State | Operations | Talks to |
|---|---|---|---|
| Delivery core, `async_logging_handler.py` | accept and running events, `_closed`, `_loop`, `_ingress`, `_ingress_event`, `_bridge_task`, the queues, hooks and worker tasks | `emit` (any thread), `_bridge_loop`, `start_logging`, `stop_logging`, `close`, `register_backend` | threads through a `queue.Queue` and `call_soon_threadsafe`; workers through one `asyncio.Queue` each; drain hooks and status reporters as callbacks |
| Drain and status, `backend/_base.py` | unfinished count of a queue | `drain`, `report_status` | awaited by `stop_logging` under one timeout |
| Console and file backends, `backend/console.py`, `backend/file.py` | `_stream`, the rotator, the worker's place | `_worker`, `_open_stream`, `_write_record` (four forms), `_close_stream` | the formatter on the loop, the write thread |
| Write executor, `_executor.py` | a single-thread executor per run of a worker | `run`, `shutdown(wait=True)` | blocks the loop in `shutdown` |
| Broker base and Redis, Valkey, MQTT, `handler/*.py` | `client`, `_owns_client`, the reconnect delay | `_worker`, `connect`, `send_message`, `disconnect` | client libraries that raise or hang |
| Error channel, `config.report_error` | none of its own | a callback, or the logger `scietex.logging` | may come back into `emit` of the same handler |
| Formatters, `formatter/*.py` | a copy of the record | `format` | the `LogRecord` object that all sinks and the host share |
| Textual theme conversion, `theme_textual.py`, `_color.py`, `theme.py` | a theme, its variables, a palette | `from_textual_theme`, `format` with the palette | its failures reach a worker as format errors |
| Host lifecycle, `async_logging_handler.py` | which tasks the handler holds, and which calls of the host are in flight | overlapping `stop_logging`, `start_logging`, `close`, and their cancellation | the host's tasks through the handler's fields |
| Configuration and constructors, `config.py`, every `__init__` | frozen dataclasses, owned or injected files and clients, a formatter | validation, `register_backend`, `resolve_color` | decide in which states a worker or formatter can begin |
| Package interface, examples | re-exports; programs that use the package | lazy imports | not modelled: no state, none of the package's logic |

What is hard in it: references read on a thread while a stop and a restart replace them; a
wakeup lost between `clear` and `get_nowait`; the order of bridge, flush and drains; the pairing
of `get` and `task_done` on success, failure, cancellation and clearing; a record in a worker's
hand when its drain completes or times out; cancellation of a write that goes on on its thread;
a client or stream that must be released however the worker ends; a reporter that reports to
itself; a record that several threads format. PROJECT.json lists these hazards by line.

What makes each component correct:

* Core: an accepted record is settled exactly once at every backend, in put order; only overflow,
  a drain that timed out, or being late for the flush costs a record; stop returns and leaves
  nothing behind.
* Lifecycle: the handler never loses sight of a live task; a stop that returns has left none; a
  record is never accepted into a handler that will not serve it; every stop ends.
* Workers: the contract of module `SinkWorker`: one `task_done` per `get`, in order, alive while
  logging is active or records are queued, ended by a cancellation. Files have one writer and
  are closed at the end; a broker client is released, never reused once dead, and reconnected
  with a bounded delay.
* Error channel: it neither raises into the logging path nor keeps the loop from running.
* Formatters: what a sink writes depends on the record as logged and on its own formatter.
* Themes: a theme that is accepted can be formatted with, and stays legible.

## 2. Modules and how they correspond to the code

**AsyncLoggingHandler** is the delivery core. What threads share with the event loop is the accept
event, `_loop`, `_ingress`, `_ingress_event`, the ingress and the callbacks of `call_soon_threadsafe`.
Each read or write of one of these is a step of its own on either side. So one `emit()` is
six actions (`EmitCheck`, `EmitReadIngress`, `EmitReadLoop`, `EmitReadEvent`, `EmitPut`, `EmitWake`), each holding
the references that it captured; `start_logging` is `StartCheck`, `StartLoop`, `StartIngress`, `StartEvent` and
`StartFinish` (the accept event); and the tail of `stop_logging` is `ClearQueues`, `SweepRecord` for each record,
`ReleaseLoop`, `ReleaseIngress` and `ReleaseEvent`. What no thread reads (the bridge task, the running event, the
workers, the backends' queues) changes together with the write next to it, and `close()` is one
action, for only the check of `start_logging` reads `_closed`. `ReleaseLoop` is also the look that finds the ingress
empty; a put between the two commutes with the write of `_loop`. Coroutines interleave only at their
awaits: `loop` names the place in an await-free section (the bridge's inner loop, the flush, the start, the
tail of the stop) during which only threads and `close()` run. Every start creates an ingress
and an event of its own, so they are indexed by cycle, and `ref` and `eventRef` say which cycle
`_ingress` and `_ingress_event` refer to. Before its tail `stop_logging` is `StopBegin`,
`FlushBegin`/`FlushMove`/`FlushEnd`, one `DrainCompleted` or `DrainTimeout` per backend, `StopReport` and
`StopTimeout`. The workers in it are generic (get, settle, exit, cancelled). A record is named by its ticket, the position of its put; `fate` and
`cut` are history variables.

**Lifecycle** has several host tasks on one handler. Its actions are the sections of `stop_logging`
between awaits: `StopNothing` or `StopBegin`, `BridgeAwaited`, `Drained`, `Gathered` or `GatherTimeout`,
`TimeoutRaised`, `Reaped`, ending in `Return` (the tail) or `Raise` (an exception skips it). `CancelStop`
is the host's cancellation at any await: swallowed, raised at once, or raised when the gathered tasks
have answered. It follows tasks and references by cycle and leaves out threads and records, which
**AsyncLoggingHandler** follows through one stop at a time; so `Start` is one action here.

**HandlerSetup** is what the constructors make of their arguments: constant operators that return
the objects a call can return, none if it raises. The initial states of `FileWorker`, `BrokerWorker`
and `SharedRecord` are taken from it, so that they are those which the public constructors let through.

**RecordDelivery** is what the core promises, without machinery; `ImplementsDelivery` is the
refinement, with `issued <- tickets`.

**SinkWorker** is the contract between the core and a worker. **BrokerWorker** and **FileWorker**
refine it, each with the handler as its environment. In both `pc` is the await at which the worker is
suspended, and what it runs up to its next await is one action. `BrokerWorker` covers owned and
injected clients and connects with a probe (Redis) and without (Valkey, MQTT). In both `Interrupted` is
the `CancelledError` at each await, `InnerFinally` and `OuterFinally` the clauses it runs through.
`FileWorker` has a queue of jobs for each run's executor; its thread opens, rolls over, writes and
closes step by step, and goes on with a job whose await was cancelled.

**ErrorChannel** is `report_error` inside `emit`, the bridge, the flush and a worker, as nested
synchronous calls; records are alike there, so queues are numbers.

**SharedRecord** is one `LogRecord` with several sinks, a rotating backend's write thread and a
handler of the host that formats in the stdlib's way; a field is abstracted to who wrote it.

**TextualTheme** is the theme conversion as a function of the theme's tokens. A color is one
channel with an opacity, since blending and contrast treat the channels alike. Tokens are what parsing
comes to. The CIE-Lab conversions are abstracted to what was measured of them: the round trip of
`lighten(0)` keeps a channel or lowers it by one (`Shifted` has the values it lowers; it keeps greys),
and `darken` raises no channel.

`MCAsyncLoggingHandler` adds the symmetry of the emitters to one run.
The theorems about a module are in the module that extends it: `AsyncLoggingHandler_proofs` (flags,
references, wakeups, counts), `AsyncLoggingHandler_delivery` (what becomes of the records), `Lifecycle_proofs`,
`BrokerWorker_proofs`, `FileWorker_proofs`, `ErrorChannel_proofs`, `SharedRecord_proofs` and `TextualTheme_proofs`.

Definitions named `Action_Something` next to an action are faulty forms of it (a dropped guard, a
swapped order). No run uses them: each shows that a property can fail, by being put in the place
of the action.

## 3. Runs

| Run | Bounds | Distinct states | Shows |
|---|---|---|---|
| `cycles` | 2 emitters, 2 backends, queues of 1, 2 tickets, 2 cycles | 6.0 million | safety of the core: wakeups, counts, order, flush, drains, the writes of start and stop, clean restart; the core implements RecordDelivery |
| `live` | 1 emitter, 1 backend, queues of 1, 2 tickets, 2 cycles | 87 thousand | stop returns, the ingress is emptied, records are settled |
| `lifecycle` | 2 stopping tasks, 2 backends, 2 cycles, 1 cancellation | 498 thousand | no task is lost, no record accepted into nothing, every stop ends |
| `broker` | 3 records, queue of 2, 2 cycles, 2 cancellations | 90 thousand | the broker worker, its contract and its liveness |
| `file` | all five kinds, 2 records, 2 cycles, 2 cancellations | 60 thousand | the console and file workers, their contract and liveness |
| `error_channel` | queues of 2, 5 calls, 2 nested reports | 18 thousand | once a stop has begun the channel neither raises into the loop nor holds it |
| `shared_record` | 2 text sinks, 1 rotating, 1 broker | 356 thousand | no sink sees another sink's formatting |
| `theme` | 2 values, 2 opacities, 2 tokens | 1.4 million | accepted themes can be formatted with; CRITICAL is legible |
| `error_raises`, `broker_malformed`, `json_extras`, `lifecycle_regather` | minimal | stop at the violation | the four findings of section 5 |

Why the bounds are enough. Every queue overflows with a bound of one or two: with queues of one
the first ticket is in a queue (or a status record is) when the second one comes. Two tickets are a
record on either side of the cut, or two whose order can change; two backends are one that overflows or
times out and one that does not. Two emitters are needed for a wakeup of one thread that covers the record
of another. Two cycles are a start, a stop and a restart with references that are a cycle old; a
third could only make them older, which the proofs cover. In `lifecycle` two calls of stop overlap, two
backends are a worker that dies and one that does not, and one cancellation hits either call. Two cancellations hit a worker and then
its clean-up; three records take the reconnect delay through failure, success and failure. In
`BrokerWorker` connects may fail for ever; the history `failures` stops counting at seven, where the
delay has long reached its cap.
`RecursionLimit` stands for the interpreter's; two nested reports are one that settles below the
limit and one that does not. In `theme` the value 130 lies above the brightness threshold and 100
below it, and two tokens are one override and one that falls back on it, besides primary.

Fairness. In the core: threads are scheduled, the event loop runs every ready task and callback,
timers expire. `WorkerDone` is not fair: a sink may hang, and stop returns all the same. Only
`EventuallySettled` assumes that sinks answer. In `BrokerWorker` connects and sends need not
return; `SettledWhenReachable` assumes (strongly, since attempts come and go) that a connect
succeeds if it is tried for ever. `disconnect()` is taken to end. In `FileWorker` the system calls of
the write thread return, because `shutdown(wait=True)` holds the event loop until they do. In
`Lifecycle` drains end, gathers time out and a cancelled task ends (`CancelEnds` of the two worker
modules); a worker that nobody cancels may go on for ever. In `ErrorChannel` `MaxCalls` means that the host does not log for ever. Nothing obliges a host to
start, log, stop or close.

asyncio as it is modelled: a task cancelled before its first step runs no clause of its body; a
cancellation is delivered at the next step of the task; `wait_for` over `gather` awaits the children
that it has cancelled; `gather` raises with the first child that fails, and leaves the others running.
The workers' `wait_for` is the one of Python 3.12; the older one may swallow a cancellation that comes
when `get()` has just completed. `Lifecycle` was compared with Python 3.11, in which a cancellation
that comes while `wait_for` itself waits for the cancelled gather is raised at once (`CancelRaised`).

## 4. Proofs

Each of the seven state machines of the code has its theorems in a module that extends it; `AsyncLoggingHandler_delivery`
extends the first one. They hold for all values of the constants that the named assumptions allow:

| Module | Assumed of its constants |
|---|---|
| `AsyncLoggingHandler_proofs`, `AsyncLoggingHandler_delivery` | emitters and backends are finite sets, reporters are backends, `QueueMaxsize` is at least 1 |
| `Lifecycle_proofs` | numbers of cycles and cancellations |
| `ErrorChannel_proofs` | `QueueMaxsize` and `RecursionLimit` are at least 1 |
| `BrokerWorker_proofs` | `QueueMaxsize` is at least 1; the malformed records are among the records |
| `FileWorker_proofs` | kinds are among the five, at least one cycle, `QueueMaxsize` is at least 1 |
| `SharedRecord_proofs` | no sink is of two kinds |
| `TextualTheme_proofs` | values in 0..255, opacities in 0..100 with 100 among them (a color may be given without one), `Shifted` without 0 |

`validate_queue_maxsize` (`config.py:155`) lets no queue bound below 1 through. All
counters (tickets, cycles, calls, cancellations) are bounded by a constant that may be any number. The theorems are stated of `Spec`; the `FairSpec` of a run is `Spec` and its fairness.

| Module | Theorem | States |
|---|---|---|
| `AsyncLoggingHandler_proofs` | `Inductive` | `[]IInv` |
| | `TypeCorrect` | `TypeOK` |
| | `WakeupKept` | `NoLostWakeup` |
| | `JoinCountsRecords` | `UnfinishedBalanced` |
| | `QueuesBounded` | no queue and no ingress exceeds `QueueMaxsize` |
| | `RestartIsClean` | `StoppedIsClean` |
| | `DropsWhileDown` | `SilentDropsAreLate` |
| `AsyncLoggingHandler_delivery` | `DeliveryInductive` | `[]DInv` |
| | `NothingLost` | `Conserved` |
| | `CompletedIsTrue` | `CompletedMeansSettled` |
| | `InOrder` | `HandledInOrder` |
| | `DropsExplained` | `DropsOnlyLateOrTimedOut` |
| | `DeliveryRefined` | `ImplementsDelivery`: the core refines `RecordDelivery` |
| `Lifecycle_proofs` | `LifecycleInductive` | `[]LInv` |
| | `LifecycleTypes` | `TypeOK` |
| | `NoTaskOrphaned` | `NoOrphanTasks` |
| | `AcceptServed` | `AcceptMeansServed` |
| | `ReturnClean` | `ReturnLeavesNothing` |
| `ErrorChannel_proofs` | `ChannelInductive` | `[]ChannelInv` |
| | `ChannelTypes` | `TypeOK` |
| | `StoppingKeepsCalm` | `StoppingNeverRaises` |
| | `StoppingDescends` | once a stop has begun, each step of the loop's section lowers `Ahead`, a number |
| `BrokerWorker_proofs` | `WorkerInductive` | `[]WorkerInv` |
| | `WorkerTypes` | `TypeOK` |
| | `DeadNeverReused` | `DeadClientDropped` |
| | `BackoffRight` | `BackoffMatchesFailures` |
| | `AllReleased` | `ReleasedAtEnd` |
| | `SinkRefined` | `ImplementsSink`, if no record is malformed: the worker refines `SinkWorker` |
| `FileWorker_proofs` | `WorkerInductive` | `[]WorkerInv` |
| | `WorkerTypes` | `TypeOK` |
| | `OneWriter` | `SoleWriter` |
| | `AllClosed` | `ClosedAtEnd` |
| | `SinkRefined` | `ImplementsSink`: the worker refines `SinkWorker` |
| `SharedRecord_proofs` | `RecordInductive` | `[]RecordInv` |
| | `RecordTypes` | `TypeOK` |
| | `StylesStayApart` | `RenderedAsLogged` |
| | `RecordNeverWritten` | `SharedUntouched` |
| `TextualTheme_proofs` | `ThemeInductive` | `[]ThemeInv` |
| | `ThemeTypes` | `TypeOK` |
| | `AcceptedFormats` | `FormatsUnlessAnsiMuted` |
| | `CriticalLegible` | `CriticalReadable` |

So all invariants and all safety properties of the passing runs are proved. In each module there is a
lemma for the initial states, one lemma per action or per conjunct, and one that combines them. Few of
the properties are inductive by themselves; what the invariants add is the argument. TLC has checked
each of them as an invariant before it was proved, on the instance of the run in section 3 (`DInv` also
with a queue of 2 and 3 tickets, `WorkerInv` of the broker also with a malformed record).

* `IInv` adds `Control`, what the flags and the place in start or stop imply about one another (a raised
  accept event means running and not stopping; which references are set at each write of a start and of
  the tail; a stop before its tail has references and no bridge; the ingress of a future cycle is empty); `Hands`, what the state of a worker says of its hand, and that a stopped handler has no worker
  and empty queues; `Bounded`, the bounds of queues; `Admitted`, that every emit under way has a ticket
  left; and `Captured`, that emit, which reads the ingress before the event, never holds an event that is
  older than its ingress, nor the one that a start has yet to set. The last one is the point of `NoLostWakeup`: a wakeup that an emit still owes
  goes to the bridge of the ingress that it has put into, or to one that came later. `DropsWhileDown` needs only that
  a raised accept event means all three references are set (`AcceptImpliesIngress`).
* `DInv` adds where the records are. Sequences ascend by ticket, and what a backend has is older than
  what the bridge or the flush can still move (`Ordered`); no record is in two places (`Apart`); a record
  has a fate from its put on (`Issued`); what is handled is older than what is not (`HandledFirst`); and
  `Drains` says what a drain result and the cut of the flush mean for queue and hand. Order at the sink and
  conservation hold only together: a record that could be in an ingress and in a queue at once, or an older
  one left behind in a previous ingress, would break both.
* `LInv` says that the references are set and released together, and, as long as every start was
  `tidy`, that what is not held is silent, that the flags agree with what is held, and what each call in
  flight has already ended at the await where it is (`Place`). Only `Place` tells, when one of two overlapping
  stops comes to its tail, that the tasks it forgets are over.
* `ChannelInv` says which call the loop is in in which section, that nothing is accepted once a stop has
  begun, and that the loop nests reports only inside a call (`Unnested`), so that a report made after that
  comes back once at most, to be refused. `Ahead` counts four steps for each
  record in the ingress and the rest of the call that the loop is in; it is what makes
  `LoopYieldsOnceStopping` true, of which TLC checks the rest.
* `WorkerInv` of the broker: the await tells whether the worker owns and has a client (`ClientFits`), the
  number of open clients exceeds what the worker knows of by no more than the cancellations that have hit
  it (`Opened`), a dead client is on its way out (`DeadFits`), the delay is that of the failures in a row
  (`BackoffFits`), and each record without a `task_done()` is queued or in hand (`Counted`). The refinement needs
  that no record is malformed, since finding 2 is that the contract fails otherwise.
* `WorkerInv` of the file worker relates worker, executors, threads and files: the await of the worker tells what its
  executor has still to finish (`CurrentFits`), older executors have at most what a cut close has left them
  (`OthersFit`), a thread is within the job that it has begun (`ThreadFits`), and the stream it has fetched
  is the backend's own and its one open file (`FilesFit`). In `FilesFit` a thread that is closing has no file
  open any more, and one that has opened has a handle: without these two conjuncts the next step of a
  thread that goes on by itself breaks it.
* `RecordInv` adds that the shared record is as it was logged but for `exc_text`, which only the host's
  handler sets, and that a copy has the style of the formatter that works on it, or none.
* `ThemeInv` adds that a palette has been built of colors that parsed, except the muted token that is
  taken from the `ansi_palette` unparsed (section 5), and that there is nothing to format with before.

Only model-checked: liveness (`StopReturns`, `IngressDrained`, `EventuallySettled`, `StopEnds`,
`CancelEnds`, `SettledWhenReachable`, `SettledUnlessCancelled`, `LoopYieldsOnceStopping`), because TLAPS
proves nothing that needs `ENABLED` or fairness; and the four counterexamples of section 5, which are runs by
nature. The operators of `HandlerSetup` are used by the proofs, for their initial states, and have none
of their own.

## 5. Findings

Each is a run that TLC ends with a counterexample.

1. `EmitNeverRaises` (`docs/guide/lifecycle.md:63`). A report of a full ingress that is routed back into
   the handler recurses until a RecursionError leaves the logging call (`config.py:236`). It takes the
   handler on the root logger or on `scietex.logging`, and no `error_handler` or one that raises.
   `StoppingNeverRaises` shows that once `stop_logging` has lowered the accept event it cannot
   happen to the event loop any more, nor so to `stop_logging` itself.
2. `RunsWhileActive` (`handler/broker.py:209`). `getMessage()` is outside the `try`: a record with
   arguments that do not fit ends the broker worker, with the record unacknowledged.
3. `JsonOnlyUserExtras` (`formatter/json.py:60`). `asctime`, left on the shared record by the host's
   other handler, is taken for an extra, depending on who formats first.
4. `FinishedForgotten` (`async_logging_handler.py:480-481`). A gather that raises, because a worker died
   or because the stop was cancelled, skips `log_workers_tasks = []`: every later stop gathers the same
   finished tasks, raises again, and never comes to the tail.

Observations from the models that no run is devoted to. On the lifecycle (the hypothesis `tidy` of
the properties of `Lifecycle` excludes the two about starts; all were seen with Python 3.11):

* Logging started again after a stop that raised leaves the workers of the old cycle that are still
  alive without an owner: two workers take from one backend's queue
  (`async_logging_handler.py:297-310`, `486-498`).
* Logging started while another stop is in its gather: the tail of that stop clears the new cycle's
  references and tasks. The accept event stays raised, records are dropped silently, and the bridge is
  left behind (lines 498-522).
* Of two overlapping stops with a worker that hangs, the second raises a CancelledError that nobody sent:
  the timeout of the first has cancelled the task which it gathers.
* A cancellation of `stop_logging` while it awaits the bridge is swallowed (lines 445-449).

On the rest:

* `_flatten` (`theme_textual.py:98-105`) promises to composite a translucent color over the background,
  but swaps the share: `auto 60%` gives 40% text. `TextMuted` is as the code is; the tests compute their
  reference with the same call.
* A console handler with `theme=MONOCHROME` on a terminal emits ANSI sequences (bold level, dim time), since
  it asks `resolve_color` and never `theme.color` (`handler/console.py:71-77`), although `theme.py:143` says that
  the theme renders plain text. This is style "mono" of `HandlerSetup`.
* A file handler with neither `filename` nor `file` is accepted and fails every record; the rotating
  variants take `file=` only to refuse it; a file of mode "w" is truncated at every start.
* With reports coming back, the bridge's inner loop may move and make records without an await, and
  so hold the event loop for as long as the queue is full (`async_logging_handler.py:391-402`).
* A record put after the flush, by an emit that was past the accept check, is swept without a report
  (`async_logging_handler.py:511-513`); `docs/guide/lifecycle.md:63-65` promises a report.
  `DropsOnlyLateOrTimedOut` shows that only such records are swept. One that is put when the sweep has
  found the ingress empty (before or after `_ingress = None`) stays in an ingress that nobody reads.
* `close()` on another thread between the check of `_closed` and `accept.set()` (lines 290 and 306)
  leaves a closed handler that accepts records until it is stopped.
* A second cancellation that hits the await of the close job (`backend/file.py:238`) skips
  `executor.shutdown`; after a restart two threads share the stream. `SoleWriter` excepts it.
* A rollover or reopen that fails leaves `_stream` at a closed handle, and later writes fail until the
  worker ends (`backend/file.py:299-323`, `469-488`); a timed rollover may leave it by its next turn.
* `executor.shutdown(wait=True)` is not awaited: while a write hangs at the end of a worker the whole
  loop stands still (`_executor.py:56`), and stop's timeout with it.
* A cancellation that hits the probe of a Redis client just built, or the final `disconnect()`, leaks
  the client (`handler/redis.py:108-112`, `handler/broker.py:275`). `ReleasedAtEnd` excepts these two.
* A `text-muted` that is an `ansi_*` token is taken from the `ansi_palette` unparsed
  (`theme_textual.py:122-123`), so that a bad entry is found by the first DEBUG record.

## 6. What is not modelled, and the plan

| Step | Modules | State |
|---|---|---|
| 1. Delivery core and its contract, first theorems | AsyncLoggingHandler, RecordDelivery, AsyncLoggingHandler_proofs | done |
| 2. Sinks and the worker contract | SinkWorker, BrokerWorker, FileWorker | done |
| 3. Error channel | ErrorChannel | done |
| 4. Formatters and themes | SharedRecord, TextualTheme | done |
| 5. Several host tasks: overlapping and cancelled stops, dead workers | Lifecycle | done |
| 6. Constructors and configuration | HandlerSetup | done |
| 7. Proofs of conservation, order, drops and drain results, and of the refinement of RecordDelivery | AsyncLoggingHandler_delivery | done |
| 8. Proofs of the invariants of the lifecycle | Lifecycle_proofs | done |
| 9. Proofs of the invariants and of the refinements of SinkWorker | BrokerWorker_proofs, FileWorker_proofs | done |
| 10. Proofs about reports, shared records and themes | ErrorChannel_proofs, SharedRecord_proofs, TextualTheme_proofs | done |
| 11. Descent lemmas, as `StoppingDescends`, for the progress of a stop, of the flush and of a cancelled worker | Lifecycle_proofs, AsyncLoggingHandler_delivery, BrokerWorker_proofs, FileWorker_proofs | planned |

Left out for good: registration of backends on a running handler (the built-in handlers register in
`__init__` only), a closed event loop, a formatter that is exchanged while logging, the values of
single options of the brokers and the colors of the built-in palettes (data), the wording of messages
and status records, `DrainStatus.ERROR` (`asyncio.Queue.join` does not raise), the jitter of the backoff,
backup file names, the CIE-Lab arithmetic, and the examples. A failure of the event loop itself or of
the process ends everything at once: nothing is persisted but what has been written.

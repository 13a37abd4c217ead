------------------------------ MODULE FileWorker ------------------------------
(***************************************************************************)
(* The workers of the console and file backends (backend/console.py,       *)
(* backend/file.py) with their single-thread write executor                *)
(* (_executor.py).  The worker formats on the event loop and awaits each   *)
(* write on the executor's thread; the file is opened, rolled over and     *)
(* closed on that thread too.                                              *)
(*                                                                         *)
(* Cancelling an await does not stop a job that has begun.  Every run of   *)
(* the worker has an executor of its own, named by its cycle; the stream   *)
(* belongs to the backend and outlives them.  As in BrokerWorker the       *)
(* handler's side is the environment.                                      *)
(***************************************************************************)
EXTENDS FiniteSets, SequencesExt, HandlerSetup

CONSTANTS
  Kinds,         \* the kinds of backend in this instance
  MaxRecords,    \* bound: records put in one behaviour
  QueueMaxsize,
  MaxCycles,     \* bound: starts
  MaxCancels     \* bound: cancellations of the worker task

ASSUME KindsAssumption  == Kinds \subseteq {"console", "plain", "rotating", "timed", "watched"}
ASSUME BoundsAssumption == /\ MaxRecords \in Nat /\ MaxCycles \in Nat \ {0}
                           /\ MaxCancels \in Nat
                           /\ QueueMaxsize \in Nat \ {0}

VARIABLES
  kind,        \* "console", or the file backend: "plain", "rotating", "timed", "watched"
  owns,        \* _owns_file: no file object was injected
  filename,    \* there is a filename to open
  running, queue, unfinished, hand,  \* as in BrokerWorker
  pc,          \* the await at which the worker is suspended
  cancelled,   \* cancel() was called; CancelledError comes at the next step
  answer,      \* the result of the awaited job
  cycle,       \* starts so far
  jobs,        \* what each cycle's executor has still to finish
  step,        \* how far its thread is with the first of them
  local,       \* the stream that thread has fetched
  stream,      \* self._stream
  openFiles,   \* the file handles that are open
  puts, cancels, \* counters for the bounds
  cuts,        \* history: where CancelledErrors have hit
  late,        \* history: a write went to a stream that a close job has closed
  fate         \* history: what became of each record

coordinator == <<running, cycle, puts, cancels>>
config      == <<kind, owns, filename>>
threads     == <<step, local>>
files       == <<stream, openFiles, late>>
vars == <<config, coordinator, queue, unfinished, hand, pc, cancelled, answer, jobs,
          threads, files, cuts, fate>>

Records  == 1..MaxRecords
NoRecord == 0
Cycles   == 1..MaxCycles
NoStream == 0
Handles  == 1..(MaxCycles + 2)
Injected == 1
Jobs     == [what : {"write", "close"}, awaited : BOOLEAN]

Suspended == {"new", "get", "write", "close"}

TypeOK ==
  /\ kind \in Kinds /\ owns \in BOOLEAN /\ filename \in BOOLEAN
  /\ running \in BOOLEAN /\ cancelled \in BOOLEAN /\ late \in BOOLEAN
  /\ queue \in Seq(Records) /\ Len(queue) <= QueueMaxsize
  /\ unfinished \in Nat
  /\ hand \in Records \cup {NoRecord}
  /\ pc \in Suspended \cup {"off", "shutdown", "done"}
  /\ answer \in {"none", "ok", "error"}
  /\ cycle \in 0..MaxCycles
  /\ jobs \in [Cycles -> Seq(Jobs)] /\ \A x \in Cycles : Len(jobs[x]) <= 2
  /\ step \in [Cycles -> {"idle", "opened", "rolled", "closing"}]
  /\ local \in [Cycles -> Handles \cup {NoStream}]
  /\ stream \in Handles \cup {NoStream}
  /\ openFiles \subseteq Handles
  /\ cuts \subseteq Suspended
  /\ fate \in [Records -> {"none", "pending", "written", "failed", "unformatted",
                           "abandoned", "cleared"}]

\* The backends that the constructors let through; the console has no file at all.
Backends(k) == IF k = "console" THEN {[owns |-> TRUE, filename |-> FALSE]}
                                ELSE {h.backend : h \in FileHandlers(k, QueueMaxsize)}

Init ==
  /\ kind \in Kinds
  /\ \E b \in Backends(kind) : owns = b.owns /\ filename = b.filename
  /\ stream = IF owns THEN NoStream ELSE Injected
  /\ openFiles = IF owns THEN {} ELSE {Injected}
  /\ running = FALSE
  /\ queue = <<>> /\ unfinished = 0 /\ hand = NoRecord
  /\ pc = "off" /\ cancelled = FALSE /\ answer = "none"
  /\ cycle = 0
  /\ jobs = [x \in Cycles |-> <<>>]
  /\ step = [x \in Cycles |-> "idle"]
  /\ local = [x \in Cycles |-> NoStream]
  /\ puts = 0 /\ cancels = 0
  /\ cuts = {} /\ late = FALSE
  /\ fate = [r \in Records |-> "none"]

-----------------------------------------------------------------------------
(* The environment: the handler's coordinator, on the event loop. *)

\* executor.shutdown(wait=True) is not awaited: until it returns, nothing else runs
\* on the event loop.
LoopBlocked == pc = "shutdown"

Start ==
  /\ pc = "off" /\ ~running
  /\ cycle < MaxCycles
  /\ cycle' = cycle + 1
  /\ running' = TRUE
  /\ pc' = "new"
  /\ UNCHANGED <<config, puts, cancels, queue, unfinished, hand, cancelled, answer, jobs,
                 threads, files, cuts, fate>>

Put ==
  /\ ~LoopBlocked
  /\ running /\ puts < MaxRecords
  /\ Len(queue) < QueueMaxsize
  /\ puts' = puts + 1
  /\ queue' = Append(queue, puts + 1)
  /\ unfinished' = unfinished + 1
  /\ fate' = [fate EXCEPT ![puts + 1] = "pending"]
  /\ UNCHANGED <<config, running, cycle, cancels, hand, pc, cancelled, answer, jobs,
                 threads, files, cuts>>

StopRunning ==
  /\ ~LoopBlocked
  /\ running
  /\ running' = FALSE
  /\ UNCHANGED <<config, cycle, puts, cancels, queue, unfinished, hand, pc, cancelled,
                 answer, jobs, threads, files, cuts, fate>>

Cancel ==
  /\ pc \in Suspended /\ ~cancelled
  /\ cancels < MaxCancels
  /\ cancels' = cancels + 1
  /\ cancelled' = TRUE
  /\ UNCHANGED <<config, running, cycle, puts, queue, unfinished, hand, pc, answer, jobs,
                 threads, files, cuts, fate>>

Clear ==
  /\ pc = "done" /\ ~running
  /\ queue' = <<>>
  /\ unfinished' = unfinished - Len(queue)
  /\ fate' = [r \in Records |-> IF r \in Range(queue) THEN "cleared" ELSE fate[r]]
  /\ pc' = "off"
  /\ UNCHANGED <<config, coordinator, hand, cancelled, answer, jobs, threads, files, cuts>>

-----------------------------------------------------------------------------
(* The worker, on the event loop. *)

Submit(js, what) == Append(js, [what |-> what, awaited |-> TRUE])

\* The outer finally, where js is what the executor has still to finish: a file
\* backend awaits its close job; the console shuts the executor down at once, which
\* waits on the spot for a job that has begun.
Leave(js) ==
  IF kind = "console"
  THEN /\ pc' = IF js = <<>> THEN "done" ELSE "shutdown"
       /\ jobs' = [jobs EXCEPT ![cycle] = js]
  ELSE /\ pc' = "close"
       /\ jobs' = [jobs EXCEPT ![cycle] = Submit(js, "close")]

LoopTop == IF running \/ queue' # <<>> THEN pc' = "get" /\ UNCHANGED jobs
                                       ELSE Leave(jobs[cycle])

Acknowledge(r, outcome) ==
  /\ unfinished' = unfinished - 1
  /\ hand' = NoRecord
  /\ fate' = [fate EXCEPT ![r] = outcome]

Runs(at) == pc = at /\ ~cancelled

First ==
  /\ Runs("new")
  /\ UNCHANGED queue
  /\ LoopTop
  /\ UNCHANGED <<config, coordinator, unfinished, hand, cancelled, answer, threads, files,
                 cuts, fate>>

GetRecord ==
  /\ Runs("get")
  /\ queue # <<>>
  /\ hand' = Head(queue)
  /\ queue' = Tail(queue)
  /\ jobs' = [jobs EXCEPT ![cycle] = Submit(@, "write")]
  /\ pc' = "write"
  /\ UNCHANGED <<config, coordinator, unfinished, cancelled, answer, threads, files, cuts,
                 fate>>

\* Mutant: the formatter runs outside the try block.
GetUnformatted_Dies ==
  /\ Runs("get")
  /\ queue # <<>>
  /\ hand' = Head(queue)
  /\ queue' = Tail(queue)
  /\ Leave(jobs[cycle])
  /\ UNCHANGED <<config, coordinator, unfinished, cancelled, answer, threads, files, cuts,
                 fate>>

\* The formatter raises (reported) or is None (skipped): acknowledged without a job
\* and without an await.
GetUnformatted ==
  /\ Runs("get")
  /\ queue # <<>>
  /\ queue' = Tail(queue)
  /\ unfinished' = unfinished - 1
  /\ \E outcome \in {"failed", "unformatted"} :
       fate' = [fate EXCEPT ![Head(queue)] = outcome]
  /\ LoopTop
  /\ UNCHANGED <<config, coordinator, hand, cancelled, answer, threads, files, cuts>>

GetTimeout ==
  /\ Runs("get")
  /\ queue = <<>>
  /\ UNCHANGED queue
  /\ LoopTop
  /\ UNCHANGED <<config, coordinator, unfinished, hand, cancelled, answer, threads, files,
                 cuts, fate>>

\* The write job has answered; an error is reported.
WriteAnswered ==
  /\ Runs("write")
  /\ answer # "none"
  /\ Acknowledge(hand, IF answer = "ok" THEN "written" ELSE "failed")
  /\ answer' = "none"
  /\ UNCHANGED queue
  /\ LoopTop
  /\ UNCHANGED <<config, coordinator, cancelled, threads, files, cuts>>

\* The close job has answered.  Its error ends the worker before shutdown(), whose
\* executor is idle in either case.
CloseAnswered ==
  /\ Runs("close")
  /\ answer # "none"
  /\ answer' = "none"
  /\ pc' = "done"
  /\ UNCHANGED <<config, coordinator, queue, unfinished, hand, cancelled, jobs, threads,
                 files, cuts, fate>>

ShutdownOver ==
  /\ pc = "shutdown"
  /\ jobs[cycle] = <<>>
  /\ pc' = "done"
  /\ UNCHANGED <<config, coordinator, queue, unfinished, hand, cancelled, answer, jobs,
                 threads, files, cuts, fate>>

\* What a cancelled await leaves to the executor: a job whose thread has not taken
\* it up is dropped, one that has begun goes on unobserved.
AfterCut ==
  LET js      == jobs[cycle]
      begun   == Len(js) = 1
      waiting == Len(js) > 1 \/ step[cycle] = "idle"
  IN  IF js = <<>> THEN {js}
      ELSE (IF waiting THEN {Front(js)} ELSE {})
           \cup (IF begun THEN {[js EXCEPT ![1].awaited = FALSE]} ELSE {})

\* Mutant: task_done() is skipped when the write is cancelled.
InnerFinally_NoAck == hand' = NoRecord /\ UNCHANGED <<unfinished, fate>>

\* Mutant: task_done() also without a record in hand.
InnerFinally_AlwaysAcks ==
  hand' = NoRecord /\ unfinished' = unfinished - 1 /\ UNCHANGED fate

\* The finally around the write acknowledges the record in hand.
InnerFinally == IF pc = "write" THEN Acknowledge(hand, "abandoned")
                                ELSE UNCHANGED <<unfinished, hand, fate>>

EndsWith(js) == pc' = "done" /\ jobs' = [jobs EXCEPT ![cycle] = js]

\* Mutant: the stream is closed on normal exits only.
OuterFinally_NoClose(js) == EndsWith(js)

\* Mutant: the cancellation is swallowed and the loop goes on.
OuterFinally_Swallowed(js) ==
  IF pc \in {"new", "close"} THEN EndsWith(js)
  ELSE pc' = "get" /\ jobs' = [jobs EXCEPT ![cycle] = js]

\* Mutant: the close job is submitted and not awaited.
OuterFinally_NotAwaited(js) ==
  IF pc \in {"new", "close"} \/ kind = "console" THEN EndsWith(js)
  ELSE EndsWith(Append(js, [what |-> "close", awaited |-> FALSE]))

\* The finally around the loop; a cancelled await of the close job skips shutdown().
OuterFinally(js) == IF pc \in {"new", "close"} THEN EndsWith(js) ELSE Leave(js)

\* CancelledError at the await, past every except clause.
Interrupted ==
  /\ cancelled
  /\ cancelled' = FALSE /\ answer' = "none"
  /\ cuts' = cuts \cup {pc}
  /\ InnerFinally
  /\ \E js \in AfterCut : OuterFinally(js)
  /\ UNCHANGED <<config, coordinator, queue, threads, files>>

-----------------------------------------------------------------------------
(* The thread of cycle x's executor. *)

Working(x, what, at) ==
  jobs[x] # <<>> /\ Head(jobs[x]).what = what /\ step[x] = at

JobOver(x, outcome) ==
  /\ jobs' = [jobs EXCEPT ![x] = Tail(@)]
  /\ answer' = IF Head(jobs[x]).awaited THEN outcome ELSE answer
  /\ step' = [step EXCEPT ![x] = "idle"]
  /\ local' = [local EXCEPT ![x] = NoStream]

\* A handle that nothing refers to any more.
NewHandle(h) ==
  h \in Handles \ (openFiles \cup {stream} \cup {local[x] : x \in Cycles})

\* _write_stdout
WriteStdout(x) ==
  /\ kind = "console" /\ Working(x, "write", "idle")
  /\ \E outcome \in {"ok", "error"} : JobOver(x, outcome)
  /\ UNCHANGED <<config, coordinator, queue, unfinished, hand, pc, cancelled, files, cuts,
                 fate>>

\* _open_stream, as the first step of _write_record.
FetchStream(x) ==
  /\ kind # "console" /\ Working(x, "write", "idle")
  /\ stream # NoStream
  /\ local' = [local EXCEPT ![x] = stream]
  /\ step' = [step EXCEPT ![x] = "opened"]
  /\ UNCHANGED <<config, coordinator, queue, unfinished, hand, pc, cancelled, answer, jobs,
                 files, cuts, fate>>

OpenStream(x) ==
  /\ kind # "console" /\ Working(x, "write", "idle")
  /\ stream = NoStream
  /\ \/ \E h \in Handles :
          /\ filename
          /\ NewHandle(h) /\ \A g \in Handles : NewHandle(g) => h <= g
          /\ stream' = h /\ openFiles' = openFiles \cup {h}
          /\ local' = [local EXCEPT ![x] = h]
          /\ step' = [step EXCEPT ![x] = "opened"]
          /\ UNCHANGED <<jobs, answer>>
     \/ JobOver(x, "error") /\ UNCHANGED <<stream, openFiles>>
  /\ UNCHANGED <<config, coordinator, queue, unfinished, hand, pc, cancelled, late, cuts,
                 fate>>

\* The stream that the thread has fetched is closed and a new one takes its place.
Replace(x) ==
  \E h \in Handles :
    /\ NewHandle(h) /\ \A g \in Handles : NewHandle(g) => h <= g
    /\ stream' = h /\ openFiles' = (openFiles \ {local[x]}) \cup {h}
    /\ local' = [local EXCEPT ![x] = h]
    /\ step' = [step EXCEPT ![x] = "rolled"]
    /\ UNCHANGED <<jobs, answer>>

\* doRollover closes the stream, renames, and _open_stream opens the new file.  If the
\* renaming raises, self._stream still is the closed stream; if the opening does, it
\* is None.  Only the timed check, which looks at the clock, can be made on a stream
\* that is closed.
Roll(x) ==
  /\ kind \in {"rotating", "timed"} /\ Working(x, "write", "opened")
  /\ local[x] \in openFiles \/ kind = "timed"
  /\ \/ Replace(x)
     \/ /\ stream' \in {stream, NoStream}
        /\ openFiles' = openFiles \ {local[x]}
        /\ JobOver(x, "error")
  /\ UNCHANGED <<config, coordinator, queue, unfinished, hand, pc, cancelled, late, cuts,
                 fate>>

\* reopenIfNeeded finds another inode: it closes the stream and opens the new file.
\* If that raises, self._stream is not assigned and still is the closed stream.
Reopen(x) ==
  /\ kind = "watched" /\ Working(x, "write", "opened")
  /\ local[x] \in openFiles
  /\ \/ Replace(x)
     \/ /\ openFiles' = openFiles \ {local[x]}
        /\ JobOver(x, "error")
        /\ UNCHANGED stream
  /\ UNCHANGED <<config, coordinator, queue, unfinished, hand, pc, cancelled, late, cuts,
                 fate>>

\* write and flush; on a closed stream they raise ValueError (as shouldRollover and
\* reopenIfNeeded do before them).
Write(x) ==
  /\ Working(x, "write", "opened") \/ Working(x, "write", "rolled")
  /\ \E outcome \in {"ok", "error"} :
       /\ outcome = "ok" => local[x] \in openFiles
       /\ JobOver(x, outcome)
  /\ late' = (late \/ (kind = "plain" /\ local[x] \notin openFiles))
  /\ UNCHANGED <<config, coordinator, queue, unfinished, hand, pc, cancelled, stream,
                 openFiles, cuts, fate>>

\* _close_stream: close, and only then drop the reference.
CloseStream(x) ==
  /\ Working(x, "close", "idle")
  /\ owns /\ stream # NoStream
  /\ openFiles' = openFiles \ {stream}
  /\ step' = [step EXCEPT ![x] = "closing"]
  /\ UNCHANGED <<config, coordinator, queue, unfinished, hand, pc, cancelled, answer, jobs,
                 local, stream, late, cuts, fate>>

CloseOver(x) ==
  /\ \/ Working(x, "close", "closing") /\ stream' = NoStream
     \/ /\ Working(x, "close", "idle")
        /\ ~owns \/ stream = NoStream
        /\ UNCHANGED stream
  /\ \E outcome \in {"ok", "error"} :
       /\ outcome = "error" => step[x] = "closing"
       /\ JobOver(x, outcome)
  /\ UNCHANGED <<config, coordinator, queue, unfinished, hand, pc, cancelled, openFiles,
                 late, cuts, fate>>

-----------------------------------------------------------------------------
Environment == Start \/ Put \/ StopRunning \/ Cancel \/ Clear

Worker == \/ First \/ GetRecord \/ GetUnformatted \/ GetTimeout \/ WriteAnswered
          \/ CloseAnswered \/ ShutdownOver \/ Interrupted

Thread(x) == \/ WriteStdout(x) \/ FetchStream(x) \/ OpenStream(x) \/ Roll(x) \/ Reopen(x)
             \/ Write(x) \/ CloseStream(x) \/ CloseOver(x)

\* Stopped, with no job under way, and the bounds allow no further start.
Idle ==
  /\ pc = "off" /\ ~running /\ cycle = MaxCycles
  /\ \A x \in Cycles : jobs[x] = <<>>
  /\ UNCHANGED vars

Next == Environment \/ Worker \/ (\E x \in Cycles : Thread(x)) \/ Idle

Spec == Init /\ [][Next]_vars

(***************************************************************************)
(* Fairness: the loop runs the worker whenever it can go on, and system    *)
(* calls of the threads return.                                            *)
(***************************************************************************)
FairSpec == Spec /\ WF_vars(Worker) /\ \A x \in Cycles : WF_vars(Thread(x))

-----------------------------------------------------------------------------
(* Properties. *)

\* The worker keeps the contract that AsyncLoggingHandler relies on.
Sink == INSTANCE SinkWorker WITH
  task <- IF pc = "off" THEN "none"
          ELSE IF pc \in {"close", "shutdown", "done"} THEN "done"
          ELSE IF cancelled THEN "cancelled" ELSE "live"

ImplementsSink == Sink!Spec

\* All stream access is on one thread at a time ("the sole-writer invariant"), and no
\* write goes to a stream that a close job has closed, unless a cancellation has hit
\* the await of the close job.
SoleWriter ==
  "close" \notin cuts =>
    /\ ~late
    /\ Cardinality({x \in Cycles : jobs[x] # <<>>}) <= 1

\* The file is only open while logging runs: once the worker has ended, an owned
\* stream is closed and forgotten, and no job is left on its executor.
ClosedAtEnd ==
  (pc \in {"off", "done"} /\ "close" \notin cuts) =>
    /\ owns => openFiles = {} /\ stream = NoStream
    /\ ~owns => stream = Injected /\ openFiles = {Injected}
    /\ \A x \in Cycles : jobs[x] = <<>>

\* A cancelled worker ends, once the write in flight has returned.
CancelEnds == cancelled ~> pc = "done"

\* Every record put is settled unless the worker is cancelled: no failing open,
\* write, rollover or formatter ends the worker or wedges the queue.
SettledUnlessCancelled ==
  \A r \in Records : (fate[r] = "pending") ~> (fate[r] # "pending" \/ cancels > 0)

=============================================================================

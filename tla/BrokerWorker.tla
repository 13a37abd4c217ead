----------------------------- MODULE BrokerWorker -----------------------------
(***************************************************************************)
(* The worker of a broker handler (handler/broker.py, and the connect and  *)
(* disconnect of its Redis, Valkey and MQTT subclasses): connecting with   *)
(* exponential backoff, sending, dropping a client whose send failed, and  *)
(* releasing the client however the worker ends.                           *)
(*                                                                         *)
(* pc is the await at which the worker is suspended; what it runs from one *)
(* await to the next is one action.  The handler's side (start, put, stop, *)
(* cancel, the tail of stop_logging) is the environment here; module       *)
(* AsyncLoggingHandler has it in full.                                     *)
(***************************************************************************)
EXTENDS Sequences, FiniteSets, HandlerSetup

CONSTANTS
  MaxRecords,    \* bound: records put in one behaviour, named 1, 2, ...
  Malformed,     \* those whose getMessage() raises
  QueueMaxsize,
  MaxCycles,     \* bound: starts
  MaxCancels     \* bound: cancellations of the worker task

ASSUME BoundsAssumption == /\ MaxRecords \in Nat /\ MaxCycles \in Nat
                           /\ MaxCancels \in Nat
                           /\ QueueMaxsize \in Nat \ {0}
                           /\ Malformed \subseteq 1..MaxRecords

VARIABLES
  running,     \* logging_running_event
  queue,       \* log_queues[queue_name]
  unfinished,  \* its count of records without task_done()
  hand,        \* the record between get() and task_done()
  pc,          \* where the worker is suspended
  cancelled,   \* cancel() was called; CancelledError comes at the next step
  owns,        \* _owns_client: no client was injected
  probes,      \* connect() probes the client that it has built (Redis; the others await once)
  client,      \* self.client is not None
  delay,       \* connect_delay in half seconds
  puts, cycles, cancels, \* counters for the bounds
  dead,        \* history: the last send over the present client failed
  open,        \* history: clients built and not yet through a disconnect()
  failures,    \* history: failed connects in a row
  cuts,        \* history: where CancelledErrors have hit
  fate         \* history: what became of each record

owner       == <<owns, probes>>
coordinator == <<running, puts, cycles, cancels>>
connection  == <<client, open, dead>>
backoff     == <<delay, failures>>
vars == <<coordinator, queue, unfinished, hand, pc, cancelled, owner, connection, backoff,
          cuts, fate>>

Records  == 1..MaxRecords
NoRecord == 0

\* 0.5 s doubled up to 30 s; the jitter of each sleep is left out.
ConnectRetryBase == 1
ConnectRetryCap  == 60
AtMost(m, n)     == IF m < n THEN m ELSE n

Suspended == {"new", "connect", "probe", "backoff", "get", "send", "teardown", "release"}

TypeOK ==
  /\ running \in BOOLEAN /\ cancelled \in BOOLEAN /\ owns \in BOOLEAN /\ probes \in BOOLEAN
  /\ client \in BOOLEAN /\ dead \in BOOLEAN
  /\ queue \in Seq(Records) /\ Len(queue) <= QueueMaxsize
  /\ unfinished \in Nat
  /\ hand \in Records \cup {NoRecord}
  /\ pc \in Suspended \cup {"off", "done"}
  /\ delay \in ConnectRetryBase..ConnectRetryCap
  /\ open \in 0..(MaxCancels + 1)
  /\ failures \in Nat
  /\ cuts \subseteq Suspended
  /\ fate \in [Records -> {"none", "pending", "sent", "failed", "abandoned", "cleared"}]

Init ==
  /\ running = FALSE
  /\ queue = <<>> /\ unfinished = 0 /\ hand = NoRecord
  /\ pc = "off" /\ cancelled = FALSE
  /\ \E h \in BrokerHandlers(QueueMaxsize) :
       owns = h.owns /\ client = h.client /\ probes = h.probes
  /\ open = 0 /\ dead = FALSE
  /\ delay = ConnectRetryBase /\ failures = 0
  /\ puts = 0 /\ cycles = 0 /\ cancels = 0
  /\ cuts = {}
  /\ fate = [r \in Records |-> "none"]

-----------------------------------------------------------------------------
(* The environment: the handler's coordinator. *)

Start ==
  /\ pc = "off" /\ ~running
  /\ cycles < MaxCycles
  /\ cycles' = cycles + 1
  /\ running' = TRUE
  /\ pc' = "new"
  /\ delay' = ConnectRetryBase /\ failures' = 0
  /\ UNCHANGED <<queue, unfinished, hand, cancelled, owner, connection, puts, cancels,
                 cuts, fate>>

Put ==
  /\ running /\ puts < MaxRecords
  /\ Len(queue) < QueueMaxsize
  /\ puts' = puts + 1
  /\ queue' = Append(queue, puts + 1)
  /\ unfinished' = unfinished + 1
  /\ fate' = [fate EXCEPT ![puts + 1] = "pending"]
  /\ UNCHANGED <<running, hand, pc, cancelled, owner, connection, backoff, cycles,
                 cancels, cuts>>

StopRunning ==
  /\ running
  /\ running' = FALSE
  /\ UNCHANGED <<queue, unfinished, hand, pc, cancelled, owner, connection, backoff, puts,
                 cycles, cancels, cuts, fate>>

\* stop_logging's gather timed out, its own host was cancelled in the meantime, or
\* asyncio.run cancels whatever is left.
Cancel ==
  /\ pc \in Suspended /\ ~cancelled
  /\ cancels < MaxCancels
  /\ cancels' = cancels + 1
  /\ cancelled' = TRUE
  /\ UNCHANGED <<running, queue, unfinished, hand, pc, owner, connection, backoff, puts,
                 cycles, cuts, fate>>

\* The tail of stop_logging drops what is still queued.
Clear ==
  /\ pc = "done" /\ ~running
  /\ queue' = <<>>
  /\ unfinished' = unfinished - Len(queue)
  /\ fate' = [r \in Records |->
       IF \E i \in DOMAIN queue : queue[i] = r THEN "cleared" ELSE fate[r]]
  /\ pc' = "off"
  /\ UNCHANGED <<coordinator, hand, cancelled, owner, connection, backoff, cuts>>

-----------------------------------------------------------------------------
(* The worker. *)

\* The outer finally: an owned client is disconnected, which is an await; otherwise
\* the worker ends at once with self.client = None.
Leave(c) ==
  IF owns /\ c THEN pc' = "release" /\ client' = c
               ELSE pc' = "done" /\ client' = FALSE

\* The top of the loop, with reference c in self.client.  An injected client is
\* restored without an await.
LoopTop(c) ==
  IF running \/ queue' # <<>>
  THEN client' = (c \/ ~owns) /\ pc' = (IF c \/ ~owns THEN "get" ELSE "connect")
  ELSE Leave(c)

\* task_done() for the record in hand.
Acknowledge(outcome) ==
  /\ unfinished' = unfinished - 1
  /\ hand' = NoRecord
  /\ fate' = [fate EXCEPT ![hand] = outcome]

Runs(at) == pc = at /\ ~cancelled

First ==
  /\ Runs("new")
  /\ UNCHANGED queue
  /\ LoopTop(client)
  /\ UNCHANGED <<coordinator, unfinished, hand, cancelled, owner, open, dead, backoff,
                 cuts, fate>>

\* connect() has built a client object, which it now probes with a ping.
ConnectBuilt ==
  /\ Runs("connect") /\ probes
  /\ open' = open + 1
  /\ pc' = "probe"
  /\ UNCHANGED <<coordinator, queue, unfinished, hand, cancelled, owner, client, dead,
                 backoff, cuts, fate>>

\* The one await of connect(), or the ping after it, has returned.
Answered ==
  \/ Runs("probe") /\ UNCHANGED open
  \/ Runs("connect") /\ ~probes /\ open' = open + 1

\* Mutant: the delay is not reset by a successful connect.
Connected_NoReset ==
  /\ Answered
  /\ client' = TRUE /\ dead' = FALSE
  /\ failures' = 0
  /\ pc' = "get"
  /\ UNCHANGED <<coordinator, queue, unfinished, hand, cancelled, owner, delay, cuts, fate>>

Connected ==
  /\ Answered
  /\ client' = TRUE /\ dead' = FALSE
  /\ delay' = ConnectRetryBase /\ failures' = 0
  /\ pc' = "get"
  /\ UNCHANGED <<coordinator, queue, unfinished, hand, cancelled, owner, cuts, fate>>

\* connect() raised, having closed what it had built: report and sleep.
ConnectFailed ==
  /\ Runs("connect") \/ Runs("probe")
  /\ open' = IF pc = "probe" THEN open - 1 ELSE open
  /\ failures' = AtMost(failures + 1, 7)     \* 2^7 half seconds are beyond the cap
  /\ pc' = "backoff"
  /\ UNCHANGED <<coordinator, queue, unfinished, hand, cancelled, owner, client, dead,
                 delay, cuts, fate>>

BackoffOver ==
  /\ Runs("backoff")
  /\ delay' = AtMost(2 * delay, ConnectRetryCap)
  /\ UNCHANGED queue
  /\ LoopTop(client)
  /\ UNCHANGED <<coordinator, unfinished, hand, cancelled, owner, open, dead, failures,
                 cuts, fate>>

\* get() returned a record.  A getMessage() that raises leaves the loop with the
\* record in hand.
GetRecord ==
  /\ Runs("get")
  /\ queue # <<>>
  /\ hand' = Head(queue)
  /\ queue' = Tail(queue)
  /\ IF Head(queue) \in Malformed THEN Leave(client)
                                  ELSE pc' = "send" /\ UNCHANGED client
  /\ UNCHANGED <<coordinator, unfinished, cancelled, owner, open, dead, backoff, cuts, fate>>

GetTimeout ==
  /\ Runs("get")
  /\ queue = <<>>
  /\ UNCHANGED queue
  /\ LoopTop(client)
  /\ UNCHANGED <<coordinator, unfinished, hand, cancelled, owner, open, dead, backoff,
                 cuts, fate>>

SendOk ==
  /\ Runs("send")
  /\ Acknowledge("sent")
  /\ dead' = FALSE
  /\ UNCHANGED queue
  /\ LoopTop(client)
  /\ UNCHANGED <<coordinator, cancelled, owner, open, backoff, cuts>>

\* Mutant: the client is kept after a failed send.
SendFailed_KeepsClient ==
  /\ Runs("send")
  /\ dead' = TRUE
  /\ Acknowledge("failed") /\ UNCHANGED queue /\ LoopTop(client)
  /\ UNCHANGED <<coordinator, cancelled, owner, open, backoff, cuts>>

\* Mutant: no except clause around the send.
SendFailed_Dies ==
  /\ Runs("send")
  /\ dead' = TRUE
  /\ Leave(client)
  /\ UNCHANGED <<coordinator, queue, unfinished, hand, fate, cancelled, owner, open, backoff,
                 cuts>>

\* The failure is reported; an owned client is disconnected before the finally
\* acknowledges the record.
SendFailed ==
  /\ Runs("send")
  /\ dead' = TRUE
  /\ \/ owns /\ pc' = "teardown" /\ UNCHANGED <<queue, unfinished, hand, client, fate>>
     \/ ~owns /\ Acknowledge("failed") /\ UNCHANGED queue /\ LoopTop(client)
  /\ UNCHANGED <<coordinator, cancelled, owner, open, backoff, cuts>>

\* disconnect() returned, or raised and the reference is dropped all the same.
TeardownOver ==
  /\ Runs("teardown")
  /\ open' = open - 1 /\ dead' = FALSE
  /\ Acknowledge("failed")
  /\ UNCHANGED queue
  /\ LoopTop(FALSE)
  /\ UNCHANGED <<coordinator, cancelled, owner, backoff, cuts>>

ReleaseOver ==
  /\ Runs("release")
  /\ open' = open - 1 /\ dead' = FALSE
  /\ client' = FALSE
  /\ pc' = "done"
  /\ UNCHANGED <<coordinator, queue, unfinished, hand, cancelled, owner, backoff, cuts, fate>>

\* Mutant: except Exception instead of finally around task_done().
InnerFinally_NoAck == hand' = NoRecord /\ UNCHANGED <<unfinished, fate>>

\* Mutant: task_done() also without a record in hand.
InnerFinally_AlwaysAcks ==
  hand' = NoRecord /\ unfinished' = unfinished - 1 /\ UNCHANGED fate

\* The finally around the send acknowledges the record in hand.
InnerFinally == IF pc \in {"send", "teardown"} THEN Acknowledge("abandoned")
                                               ELSE UNCHANGED <<unfinished, hand, fate>>

\* Mutant: the client is released by an except Exception clause only.
OuterFinally_NoRelease == pc' = "done" /\ UNCHANGED client

\* Mutant: a connect that catches BaseException takes the cancellation for a failure.
OuterFinally_Swallowed ==
  IF pc = "connect" THEN pc' = "backoff" /\ UNCHANGED client
  ELSE IF pc \in {"new", "release"} THEN pc' = "done" /\ UNCHANGED client ELSE Leave(client)

\* The finally around the loop releases the client.  A task cancelled before its first
\* step runs no clause at all, and a CancelledError inside this one skips the rest.
OuterFinally == IF pc \in {"new", "release"} THEN pc' = "done" /\ UNCHANGED client
                                             ELSE Leave(client)

\* CancelledError at the await, past every except clause.
Interrupted ==
  /\ cancelled
  /\ cancelled' = FALSE
  /\ cuts' = cuts \cup {pc}
  /\ InnerFinally /\ OuterFinally
  /\ UNCHANGED <<coordinator, queue, owner, open, dead, backoff>>

-----------------------------------------------------------------------------
Environment == Start \/ Put \/ StopRunning \/ Cancel \/ Clear

Worker == \/ First \/ ConnectBuilt \/ Connected \/ ConnectFailed
          \/ BackoffOver \/ GetRecord \/ GetTimeout \/ SendOk \/ SendFailed
          \/ TeardownOver \/ ReleaseOver \/ Interrupted

\* Stopped, and the bounds allow no further start.
Idle == pc = "off" /\ ~running /\ cycles = MaxCycles /\ UNCHANGED vars

Next == Environment \/ Worker \/ Idle

Spec == Init /\ [][Next]_vars

(***************************************************************************)
(* Fairness: the loop runs every task that can run, timers expire, and a   *)
(* disconnect() ends one way or the other.  A connect() or send() need     *)
(* never return (only the coordinator's cancel ends those).                *)
(***************************************************************************)
Fairness == WF_vars(First \/ BackoffOver \/ GetRecord \/ GetTimeout
                    \/ TeardownOver \/ ReleaseOver \/ Interrupted)

FairSpec == Spec /\ Fairness

\* The broker is up often enough: connect() succeeds if it is tried for ever, and
\* every send() answers.
Reachable == /\ SF_vars(ConnectBuilt)
             /\ SF_vars(Connected)
             /\ WF_vars(SendOk \/ SendFailed)

-----------------------------------------------------------------------------
(* Properties. *)

\* The worker is what the coordinator takes it for: one task_done() per get(), in
\* order, running until logging stops and the queue is empty or it is cancelled.
Sink == INSTANCE SinkWorker WITH
  task <- IF pc = "off" THEN "none"
          ELSE IF pc \in {"release", "done"} THEN "done"
          ELSE IF cancelled THEN "cancelled" ELSE "live"

ImplementsSink == Sink!Spec

\* A client whose send failed is never used again by an owning handler ("reusing
\* the dead client would drop every subsequent record"), unless the release of it
\* was itself cancelled.
DeadClientDropped == (owns /\ dead /\ pc \in {"get", "send"}) => "release" \in cuts

\* Consecutive failures double the delay from 0.5 s up to 30 s; a success and a new
\* start both reset it, so that a flap does not resume at the capped delay.
BackoffMatchesFailures ==
  pc = "backoff" => delay = AtMost(2 ^ (failures - 1), ConnectRetryCap)

\* Every client built by connect() goes through disconnect() by the time the worker
\* has ended, and the reference is gone, on a normal exit as on cancellation at any
\* await but the two that a finally cannot cover.
ReleasedAtEnd ==
  (pc \in {"off", "done"} /\ cycles > 0 /\ cuts \cap {"probe", "release", "new"} = {}) =>
    open = 0 /\ ~client

\* _worker's docstring: it runs as long as logging is active or records are queued.
RunsWhileActive ==
  (pc \in {"release", "done"} /\ cancels = 0) => ~running /\ queue = <<>>

\* A cancelled worker ends, wherever the cancellation hits it.
CancelEnds == cancelled ~> pc = "done"

\* While the broker is reachable, every record put is settled unless the worker is
\* cancelled: outages delay, and failed sends drop one record each, but nothing
\* wedges the worker.
SettledWhenReachable ==
  Reachable =>
    \A r \in Records : (fate[r] = "pending") ~> (fate[r] # "pending" \/ cancels > 0)

=============================================================================

-------------------------- MODULE BrokerWorker_proofs --------------------------
(***************************************************************************)
(* Theorems about BrokerWorker for any number of records, starts and       *)
(* cancellations and any queue size.                                       *)
(*                                                                         *)
(* WorkerInv is the inductive invariant: the place of the worker tells     *)
(* whether it owns and holds a client (ClientFits), every client built is  *)
(* held or was lost to a cancellation (Opened), a dead client is on its    *)
(* way out (DeadFits), the delay is the one of the failures in a row       *)
(* (BackoffFits), and each record without a task_done() is queued or in    *)
(* hand (Counted).                                                         *)
(***************************************************************************)
EXTENDS BrokerWorker, SequenceTheorems, TLAPS

\* Only a suspended worker can be cancelled; a worker exists since a start.
Bounded ==
  /\ cancelled => pc \in Suspended
  /\ pc # "off" => cycles > 0
  /\ cycles \in Nat /\ cancels \in 0..MaxCancels /\ puts \in 0..MaxRecords

ClientFits ==
  /\ pc \in {"connect", "probe", "backoff"} => owns /\ ~client
  /\ pc \in {"get", "send", "teardown", "release"} => client
  /\ pc \in {"teardown", "release"} => owns
  /\ pc \in {"off", "done"} /\ cycles > 0 /\ cuts \cap {"release", "new"} = {} => ~client

\* Clients that the worker has built and still knows.
Known == IF pc = "probe" \/ (owns /\ client) THEN 1 ELSE 0

\* A cancellation that is under way has not lost a client yet.
Opened ==
  /\ Known <= open /\ open <= Known + cancels
  /\ cancelled => open < Known + cancels
  /\ cuts \cap {"probe", "release"} = {} => open = Known

DeadFits == owns /\ dead => "release" \in cuts \/ pc \in {"teardown", "release"}

\* Half a second, doubled n times, up to the cap.
Doubled(n) == AtMost(2 ^ n, ConnectRetryCap)

BackoffFits ==
  /\ failures \in 0..7
  /\ pc \in {"new", "connect", "probe", "get", "send", "teardown"} => delay = Doubled(failures)
  /\ pc = "backoff" => failures # 0 /\ delay = Doubled(failures - 1)

InHand == IF pc \in {"send", "teardown"} THEN 1 ELSE 0

Counted ==
  /\ pc \in {"send", "teardown"} => hand \in Records
  /\ unfinished >= Len(queue) + InHand
  /\ Malformed = {} => /\ unfinished = Len(queue) + InHand
                       /\ hand # NoRecord => pc \in {"send", "teardown"}

WorkerInv ==
  TypeOK /\ Bounded /\ ClientFits /\ Opened /\ DeadFits /\ BackoffFits /\ Counted

-----------------------------------------------------------------------------
\* The whole table of delays: the cap is reached with the sixth doubling.
LEMMA Delays ==
  /\ Doubled(0) = 1  /\ Doubled(1) = 2  /\ Doubled(2) = 4  /\ Doubled(3) = 8
  /\ Doubled(4) = 16 /\ Doubled(5) = 32 /\ Doubled(6) = 60 /\ Doubled(7) = 60
BY DEF Doubled, AtMost, ConnectRetryCap

\* A further failure waits twice as long, within the cap.
LEMMA DelayDoubles ==
  ASSUME NEW n \in 1..7
  PROVE  /\ Doubled(n) = AtMost(2 * Doubled(n - 1), ConnectRetryCap)
         /\ Doubled(AtMost(n, 7)) = Doubled(n)
<1>1. n = 1 \/ n = 2 \/ n = 3 \/ n = 4 \/ n = 5 \/ n = 6 \/ n = 7
  OBVIOUS
<1>2. QED
  BY <1>1, Delays DEF AtMost, ConnectRetryCap

\* A delay is never beyond its bounds.
LEMMA DelayBounds ==
  ASSUME NEW n \in 0..7
  PROVE  Doubled(n) \in ConnectRetryBase..ConnectRetryCap
<1>1. n = 0 \/ n = 1 \/ n = 2 \/ n = 3 \/ n = 4 \/ n = 5 \/ n = 6 \/ n = 7
  OBVIOUS
<1>2. QED
  BY <1>1, Delays DEF ConnectRetryBase, ConnectRetryCap

\* A broker handler owns its client exactly if none was injected.
LEMMA Constructed ==
  ASSUME NEW n, NEW h \in BrokerHandlers(n)
  PROVE  h.owns \in BOOLEAN /\ h.client \in BOOLEAN /\ h.probes \in BOOLEAN /\ h.owns = ~h.client
<1>1. PICK o \in BrokerOptions(n) :
        h \in AsyncRedisHandler(o) \cup AsyncValkeyHandler(o) \cup AsyncMqttHandler(o)
  BY DEF BrokerHandlers
<1>2. PICK name \in {"_redis", "_valkey", "_mqtt"}, asks \in BOOLEAN : h \in BrokerHandler(o, name, asks)
  BY <1>1 DEF AsyncRedisHandler, AsyncValkeyHandler, AsyncMqttHandler
<1>3. PICK c : h \in AsyncBrokerHandler(o, name, c, asks)
  BY <1>2 DEF BrokerHandler
<1>4. h.owns = ~o.client /\ h.client = o.client /\ h.probes = asks
  BY <1>3 DEF AsyncBrokerHandler, Raises
<1>5. QED
  BY <1>1, <1>2, <1>4 DEF BrokerOptions

\* The outer finally leads to the end, by way of the release of an owned client.
LEMMA LeaveFits ==
  ASSUME NEW c \in BOOLEAN, owns \in BOOLEAN, Leave(c)
  PROVE  /\ pc' \in {"release", "done"} /\ client' \in BOOLEAN
         /\ pc' = "release" => owns /\ client'
         /\ pc' = "done" => ~client'
         /\ (owns /\ client') <=> (owns /\ c)
BY DEF Leave

\* The top of the loop leads on as the client it is given asks for.
LEMMA LoopTopFits ==
  ASSUME NEW c \in BOOLEAN, owns \in BOOLEAN, LoopTop(c)
  PROVE  /\ pc' \in {"get", "connect", "release", "done"} /\ client' \in BOOLEAN
         /\ pc' = "get" => client'
         /\ pc' = "connect" => owns /\ ~client'
         /\ pc' = "release" => owns /\ client'
         /\ pc' = "done" => ~client'
         /\ (owns /\ client') <=> (owns /\ c)
         /\ pc' \in {"release", "done"} => ~running /\ queue' = <<>>
<1>1. CASE running \/ queue' # <<>>
  BY <1>1 DEF LoopTop
<1>2. CASE ~(running \/ queue' # <<>>)
  BY <1>2, LeaveFits DEF LoopTop
<1>3. QED
  BY <1>1, <1>2

(***************************************************************************)
(* The records.                                                            *)
(***************************************************************************)

Outcomes == {"none", "pending", "sent", "failed", "abandoned", "cleared"}
Handling == {"send", "teardown"}

\* TypeOK in two parts: what the records are in, and how the worker is doing.
DataOK ==
  /\ queue \in Seq(Records) /\ Len(queue) <= QueueMaxsize
  /\ unfinished \in Nat
  /\ hand \in Records \cup {NoRecord}
  /\ fate \in [Records -> Outcomes]

ControlOK ==
  /\ running \in BOOLEAN /\ cancelled \in BOOLEAN /\ owns \in BOOLEAN /\ probes \in BOOLEAN
  /\ client \in BOOLEAN /\ dead \in BOOLEAN
  /\ pc \in Suspended \cup {"off", "done"}
  /\ delay \in ConnectRetryBase..ConnectRetryCap
  /\ open \in 0..(MaxCancels + 1)
  /\ failures \in Nat
  /\ cuts \subseteq Suspended

\* The parts make up TypeOK, before a step and after it.
LEMMA Parts == (TypeOK <=> DataOK /\ ControlOK) /\ (TypeOK' <=> DataOK' /\ ControlOK')
BY DEF TypeOK, DataOK, ControlOK, Outcomes

\* Steps that leave the records where they are.
LEMMA DataStill ==
  ASSUME DataOK, Counted, UNCHANGED <<queue, unfinished, hand, fate>>,
         pc' \in Handling <=> pc \in Handling
  PROVE  DataOK' /\ Counted'
BY DEF DataOK, Counted, InHand, Handling

\* The record in hand is acknowledged.
LEMMA DataAcknowledged ==
  ASSUME DataOK, Counted, NEW outcome \in Outcomes, Acknowledge(outcome), queue' = queue,
         pc \in Handling, pc' \notin Handling
  PROVE  DataOK' /\ Counted'
<1>1. /\ Len(queue) \in Nat /\ hand \in Records /\ unfinished \in Nat
      /\ unfinished >= Len(queue) + 1
      /\ Malformed = {} => unfinished = Len(queue) + 1
  BY LenProperties DEF DataOK, Counted, InHand, Handling
<1>2. unfinished' = unfinished - 1 /\ hand' = NoRecord
  BY DEF Acknowledge
<1>3. fate' \in [Records -> Outcomes]
  BY <1>1 DEF Acknowledge, DataOK
<1>4. DataOK'
  BY <1>1, <1>2, <1>3 DEF DataOK
<1>5. Counted'
  BY <1>1, <1>2 DEF Counted, InHand, Handling
<1>6. QED
  BY <1>4, <1>5

\* A record is put.
LEMMA DataPut ==
  ASSUME DataOK, Counted, Bounded, Put
  PROVE  DataOK' /\ Counted'
<1>1. /\ puts + 1 \in Records /\ queue' = Append(queue, puts + 1) /\ Len(queue) < QueueMaxsize
      /\ unfinished' = unfinished + 1 /\ hand' = hand /\ pc' = pc
      /\ fate' = [fate EXCEPT ![puts + 1] = "pending"]
  BY BoundsAssumption DEF Put, Bounded, Records
<1>2. queue' \in Seq(Records) /\ Len(queue') = Len(queue) + 1 /\ Len(queue) \in Nat
  BY <1>1, LenProperties, AppendProperties DEF DataOK
<1>3. fate' \in [Records -> Outcomes]
  BY <1>1 DEF DataOK, Outcomes
<1>4. unfinished' \in Nat /\ Len(queue') <= QueueMaxsize
  BY <1>1, <1>2, BoundsAssumption DEF DataOK
<1>5. DataOK'
  BY <1>1, <1>2, <1>3, <1>4 DEF DataOK
<1>6. InHand' = InHand /\ InHand \in {0, 1}
  BY <1>1 DEF InHand
<1>7. /\ unfinished' >= Len(queue') + InHand'
      /\ Malformed = {} => unfinished' = Len(queue') + InHand'
  BY <1>1, <1>2, <1>6 DEF DataOK, Counted
<1>8. QED
  BY <1>1, <1>5, <1>7 DEF Counted

\* What is still queued is dropped.
LEMMA DataCleared ==
  ASSUME DataOK, Counted, Clear
  PROVE  DataOK' /\ Counted'
<1>1. /\ pc = "done" /\ pc' = "off" /\ queue' = <<>> /\ hand' = hand
      /\ unfinished' = unfinished - Len(queue)
  BY DEF Clear
<1>2. /\ Len(queue) \in Nat /\ unfinished \in Nat /\ unfinished >= Len(queue)
      /\ Malformed = {} => unfinished = Len(queue) /\ hand = NoRecord
  BY <1>1, LenProperties DEF DataOK, Counted, InHand
<1>3. fate' \in [Records -> Outcomes]
  BY DEF Clear, DataOK, Outcomes
<1>4. queue' \in Seq(Records) /\ Len(queue') = 0 /\ 0 <= QueueMaxsize
  BY <1>1, EmptySeq, BoundsAssumption
<1>5. unfinished' \in Nat
  BY <1>1, <1>2
<1>6. DataOK'
  BY <1>1, <1>3, <1>4, <1>5 DEF DataOK
<1>7. Counted'
  BY <1>1, <1>2, <1>4 DEF Counted, InHand
<1>8. QED
  BY <1>6, <1>7

\* The worker takes a record, or leaves with one that it cannot render.
LEMMA DataTaken ==
  ASSUME DataOK, Counted, ControlOK, GetRecord
  PROVE  DataOK' /\ Counted'
<1>1. /\ pc = "get" /\ queue # <<>> /\ hand' = Head(queue) /\ queue' = Tail(queue)
      /\ UNCHANGED <<unfinished, fate>>
  BY DEF GetRecord, Runs
<1>2. /\ Head(queue) \in Records /\ Tail(queue) \in Seq(Records)
      /\ Len(Tail(queue)) = Len(queue) - 1 /\ Len(queue) \in Nat
  BY <1>1, HeadTailProperties, LenProperties DEF DataOK
<1>n. Len(queue) \in Nat
  BY <1>2
<1>3. /\ unfinished \in Nat /\ unfinished >= Len(queue)
      /\ Malformed = {} => unfinished = Len(queue)
  <2>1. InHand = 0
    BY <1>1 DEF InHand
  <2>2. QED
    BY <1>n, <2>1 DEF DataOK, Counted
<1>4. /\ hand' \in Records /\ queue' \in Seq(Records) /\ Len(queue') = Len(queue) - 1
      /\ unfinished' = unfinished /\ fate' = fate
  BY <1>1, <1>2
<1>5. DataOK'
  BY <1>n, <1>4, BoundsAssumption DEF DataOK
<1>6. CASE Head(queue) \in Malformed
  <2>1. pc' \in {"release", "done"} /\ Malformed # {}
    BY <1>6, LeaveFits DEF GetRecord, ControlOK
  <2>2. InHand' = 0
    BY <2>1 DEF InHand
  <2>3. unfinished' >= Len(queue') + InHand'
    BY <1>n, <1>3, <1>4, <2>2
  <2>4. QED
    BY <1>4, <1>5, <2>1, <2>3 DEF Counted
<1>7. CASE Head(queue) \notin Malformed
  <2>1. pc' = "send"
    BY <1>7 DEF GetRecord
  <2>2. InHand' = 1
    BY <2>1 DEF InHand
  <2>3. /\ unfinished' >= Len(queue') + InHand'
        /\ Malformed = {} => unfinished' = Len(queue') + InHand'
    BY <1>n, <1>3, <1>4, <2>2
  <2>4. QED
    BY <1>4, <1>5, <2>1, <2>3 DEF Counted
<1>8. QED
  BY <1>6, <1>7

\* Every step keeps the records' types and their count.
LEMMA DataStep ==
  ASSUME TypeOK, Bounded, ClientFits, Counted, [Next]_vars
  PROVE  DataOK' /\ Counted'
<1>1. DataOK /\ ControlOK
  BY Parts
<1>b. /\ owns \in BOOLEAN /\ client \in BOOLEAN /\ FALSE \in BOOLEAN
      /\ Outcomes = {"none", "pending", "sent", "failed", "abandoned", "cleared"}
  BY <1>1 DEF ControlOK, Outcomes
<1>2. CASE Start
  BY <1>1, <1>2, DataStill DEF Start, Handling
<1>3. CASE Put
  BY <1>1, <1>3, DataPut
<1>4. CASE StopRunning \/ Cancel
  BY <1>1, <1>4, DataStill DEF StopRunning, Cancel
<1>5. CASE Clear
  BY <1>1, <1>5, DataCleared
<1>6. CASE First \/ BackoffOver \/ GetTimeout
  <2>1. /\ LoopTop(client) /\ pc \notin Handling /\ UNCHANGED <<queue, unfinished, hand, fate>>
    BY <1>6 DEF First, BackoffOver, GetTimeout, Runs, Handling
  <2>2. pc' \notin Handling
    BY <1>b, <2>1, LoopTopFits DEF Handling
  <2>3. QED
    BY <1>1, <2>1, <2>2, DataStill
<1>7. CASE ConnectBuilt \/ Connected \/ ConnectFailed \/ ReleaseOver
  BY <1>1, <1>7, DataStill
     DEF ConnectBuilt, Connected, Answered, ConnectFailed, ReleaseOver, Runs, Handling
<1>8. CASE GetRecord
  BY <1>1, <1>8, DataTaken
<1>9. CASE SendOk
  <2>1. LoopTop(client) /\ Acknowledge("sent") /\ queue' = queue /\ pc \in Handling
    BY <1>9 DEF SendOk, Runs, Handling
  <2>2. pc' \notin Handling
    BY <1>b, <2>1, LoopTopFits DEF Handling
  <2>3. QED
    BY <1>1, <1>b, <2>1, <2>2, DataAcknowledged
<1>10. CASE SendFailed
  <2>1. pc \in Handling
    BY <1>10 DEF SendFailed, Runs, Handling
  <2>2. CASE pc' = "teardown" /\ UNCHANGED <<queue, unfinished, hand, client, fate>>
    BY <1>1, <2>1, <2>2, DataStill DEF Handling
  <2>3. CASE Acknowledge("failed") /\ UNCHANGED queue /\ LoopTop(client)
    <3>1. pc' \notin Handling
      BY <1>b, <2>3, LoopTopFits DEF Handling
    <3>2. QED
      BY <1>1, <1>b, <2>1, <2>3, <3>1, DataAcknowledged
  <2>4. QED
    BY <1>10, <2>2, <2>3 DEF SendFailed
<1>11. CASE TeardownOver
  <2>1. LoopTop(FALSE) /\ Acknowledge("failed") /\ queue' = queue /\ pc \in Handling
    BY <1>11 DEF TeardownOver, Runs, Handling
  <2>2. pc' \notin Handling
    BY <1>b, <2>1, LoopTopFits DEF Handling
  <2>3. QED
    BY <1>1, <1>b, <2>1, <2>2, DataAcknowledged
<1>12. CASE Interrupted
  <2>1. pc' \notin Handling
    BY <1>b, <1>12, LeaveFits DEF Interrupted, OuterFinally, Handling
  <2>2. CASE pc \in Handling
    <3>1. Acknowledge("abandoned") /\ queue' = queue
      BY <1>12, <2>2 DEF Interrupted, InnerFinally, Handling
    <3>2. QED
      BY <1>1, <1>b, <2>1, <2>2, <3>1, DataAcknowledged
  <2>3. CASE pc \notin Handling
    <3>1. UNCHANGED <<queue, unfinished, hand, fate>>
      BY <1>12, <2>3 DEF Interrupted, InnerFinally, Handling
    <3>2. QED
      BY <1>1, <2>1, <2>3, <3>1, DataStill
  <2>4. QED
    BY <2>2, <2>3
<1>13. CASE Idle \/ UNCHANGED vars
  BY <1>1, <1>13, DataStill DEF Idle, vars
<1>14. QED
  BY <1>2, <1>3, <1>4, <1>5, <1>6, <1>7, <1>8, <1>9, <1>10, <1>11, <1>12, <1>13
     DEF Next, Environment, Worker

(***************************************************************************)
(* The client and the delay.                                               *)
(***************************************************************************)

Control == ControlOK /\ Bounded /\ ClientFits /\ Opened /\ DeadFits /\ BackoffFits

\* What changes in none of the steps.
LEMMA OwnerStays ==
  ASSUME [Next]_vars
  PROVE  owns' = owns /\ probes' = probes
BY DEF Next, Environment, Worker, Idle, vars, owner, Start, Put, StopRunning, Cancel, Clear,
   First, ConnectBuilt, Connected, ConnectFailed, BackoffOver, GetRecord, GetTimeout, SendOk,
   SendFailed, TeardownOver, ReleaseOver, Interrupted

\* Clients lost, as the difference of those open (o, then p) and those known (l, then k).
LEMMA LostStays ==
  ASSUME NEW k \in Nat, NEW l \in Nat, NEW o \in Nat, NEW p \in Nat, NEW n \in Nat,
         p - k = o - l, l <= o, o <= l + n
  PROVE  k <= p /\ p <= k + n /\ (o = l => p = k)
OBVIOUS

\* A step that gains and drops as many clients as it builds and disconnects.
LEMMA OpenedStays ==
  ASSUME Opened, Known \in Nat, Known' \in 0..1, open \in Nat, open' \in Nat,
         cancels \in 0..MaxCancels, cancels' = cancels, cuts' = cuts, ~cancelled',
         open' - Known' = open - Known
  PROVE  Opened' /\ open' \in 0..(MaxCancels + 1)
<1>1. /\ Known <= open /\ open <= Known + cancels
      /\ cuts \cap {"probe", "release"} = {} => open = Known
  BY DEF Opened
<1>2. MaxCancels \in Nat /\ cancels \in Nat /\ cancels <= MaxCancels
  BY BoundsAssumption
<1>3. Known' \in Nat /\ Known' <= 1
  OBVIOUS
<1>4. Known' <= open' /\ open' <= Known' + cancels /\ (open = Known => open' = Known')
  BY <1>1, <1>2, <1>3, LostStays
<1>5. open' \in 0..(MaxCancels + 1)
  <2>1. PICK k \in Nat, p \in Nat, n \in Nat : k = Known' /\ p = open' /\ n = cancels
    BY <1>2, <1>3
  <2>2. p <= k + n /\ k <= 1 /\ n <= MaxCancels
    BY <1>2, <1>3, <1>4, <2>1
  <2>3. p <= MaxCancels + 1
    BY <1>2, <2>2
  <2>4. QED
    BY <1>2, <2>1, <2>3
<1>6. QED
  BY <1>1, <1>4, <1>5 DEF Opened

\* The worker goes on at the top of the loop: what it knows of a client, built or dead,
\* is as it was at the await, and the delay is right.
LEMMA ControlLoops ==
  ASSUME Control, NEW c \in BOOLEAN, LoopTop(c), pc \in Suspended, ~cancelled, ~cancelled',
         UNCHANGED <<owner, running, cycles, cancels, cuts>>, puts' \in 0..MaxRecords,
         open' \in Nat, open' - (IF owns /\ c THEN 1 ELSE 0) = open - Known,
         dead' \in BOOLEAN, owns /\ dead' => "release" \in cuts,
         failures' \in 0..7, delay' = Doubled(failures'), cancelled' \in BOOLEAN
  PROVE  Control'
<1>k. PICK k \in {0, 1} : k = IF owns /\ c THEN 1 ELSE 0
  OBVIOUS
<1>1. /\ pc' \in {"get", "connect", "release", "done"} /\ client' \in BOOLEAN
      /\ pc' = "get" => client'
      /\ pc' = "connect" => owns /\ ~client'
      /\ pc' = "release" => owns /\ client'
      /\ pc' = "done" => ~client'
      /\ (owns /\ client') <=> (owns /\ c)
  BY LoopTopFits DEF Control, ControlOK
<1>2. owns' = owns /\ probes' = probes /\ owns \in BOOLEAN /\ probes \in BOOLEAN
  BY DEF Control, ControlOK, owner
<1>3. Known' = k /\ open' - k = open - Known
  BY <1>k, <1>1, <1>2 DEF Known
<1>4. Bounded'
  BY <1>1 DEF Control, Bounded, Suspended
<1>5. ClientFits'
  BY <1>1, <1>2 DEF ClientFits
<1>6. Opened' /\ open' \in 0..(MaxCancels + 1)
  <2>1. Opened /\ open \in Nat /\ cancels \in 0..MaxCancels
    BY BoundsAssumption DEF Control, ControlOK, Bounded
  <2>2. Known \in Nat /\ Known' \in 0..1 /\ open' - Known' = open - Known
    BY <1>3 DEF Known
  <2>3. QED
    BY <2>1, <2>2, OpenedStays
<1>7. DeadFits'
  BY <1>2 DEF DeadFits
<1>8. BackoffFits'
  BY <1>1 DEF BackoffFits
<1>9. ControlOK'
  <2>1. delay' \in ConnectRetryBase..ConnectRetryCap
    BY DelayBounds
  <2>2. pc' \in Suspended \cup {"off", "done"}
    BY <1>1 DEF Suspended
  <2>3. QED
    BY <1>1, <1>2, <1>6, <2>1, <2>2 DEF Control, ControlOK
<1>10. QED
  BY <1>4, <1>5, <1>6, <1>7, <1>8, <1>9 DEF Control

\* One more failure in a row, counted as far as the table of delays goes.
LEMMA FailureCounts ==
  ASSUME NEW n \in 0..7
  PROVE  AtMost(n + 1, 7) \in 1..7 /\ Doubled(AtMost(n + 1, 7) - 1) = Doubled(n)
<1>1. n = 0 \/ n = 1 \/ n = 2 \/ n = 3 \/ n = 4 \/ n = 5 \/ n = 6 \/ n = 7
  OBVIOUS
<1>2. QED
  BY <1>1, Delays DEF AtMost

\* The five actions that come to the top of the loop.
LEMMA LoopsStep ==
  ASSUME Control, Counted,
         \/ First \/ BackoffOver \/ GetTimeout \/ SendOk \/ TeardownOver
         \/ SendFailed /\ ~owns
  PROVE  Control'
<1>1. /\ ControlOK /\ Bounded /\ ClientFits /\ Opened /\ DeadFits /\ BackoffFits
  BY DEF Control
<1>2. /\ owns \in BOOLEAN /\ client \in BOOLEAN /\ dead \in BOOLEAN /\ open \in Nat
      /\ puts \in 0..MaxRecords /\ failures \in 0..7 /\ cancelled \in BOOLEAN
  BY <1>1, BoundsAssumption DEF ControlOK, Bounded, BackoffFits
<1>3. CASE First \/ GetTimeout
  <2>1. /\ pc \in {"new", "get"} /\ ~cancelled /\ LoopTop(client)
        /\ UNCHANGED <<owner, running, cycles, cancels, cuts, puts, open, dead, failures, delay,
                       cancelled>>
    BY <1>3 DEF First, GetTimeout, Runs, coordinator, backoff
  <2>2. /\ Known = IF owns /\ client THEN 1 ELSE 0
        /\ owns /\ dead => "release" \in cuts
        /\ delay = Doubled(failures) /\ pc \in Suspended
    BY <1>1, <2>1 DEF Known, DeadFits, BackoffFits, Suspended
  <2>3. open' - (IF owns /\ client THEN 1 ELSE 0) = open - Known
    BY <2>1, <2>2
  <2>4. QED
    BY <1>2, <2>1, <2>2, <2>3, ControlLoops
<1>4. CASE BackoffOver
  <2>1. /\ pc = "backoff" /\ ~cancelled /\ LoopTop(client)
        /\ delay' = AtMost(2 * delay, ConnectRetryCap)
        /\ UNCHANGED <<owner, running, cycles, cancels, cuts, puts, open, dead, failures,
                       cancelled>>
    BY <1>4 DEF BackoffOver, Runs, coordinator
  <2>2. /\ Known = IF owns /\ client THEN 1 ELSE 0
        /\ owns /\ dead => "release" \in cuts
        /\ delay = Doubled(failures - 1) /\ failures \in 1..7 /\ pc \in Suspended
    BY <1>1, <1>2, <2>1 DEF Known, DeadFits, BackoffFits, Suspended
  <2>3. delay' = Doubled(failures')
    BY <2>1, <2>2, DelayDoubles
  <2>4. open' - (IF owns /\ client THEN 1 ELSE 0) = open - Known
    BY <2>1, <2>2
  <2>5. QED
    BY <1>2, <2>1, <2>2, <2>3, <2>4, ControlLoops
<1>5. CASE SendOk \/ (SendFailed /\ ~owns)
  <2>1. /\ pc = "send" /\ ~cancelled /\ LoopTop(client) /\ dead' \in BOOLEAN /\ ~(owns /\ dead')
        /\ UNCHANGED <<owner, running, cycles, cancels, cuts, puts, open, failures, delay,
                       cancelled>>
    BY <1>2, <1>5 DEF SendOk, SendFailed, Runs, coordinator, backoff
  <2>2. /\ Known = IF owns /\ client THEN 1 ELSE 0
        /\ delay = Doubled(failures) /\ pc \in Suspended
    BY <1>1, <2>1 DEF Known, BackoffFits, Suspended
  <2>3. open' - (IF owns /\ client THEN 1 ELSE 0) = open - Known
    BY <2>1, <2>2
  <2>4. QED
    BY <1>2, <2>1, <2>2, <2>3, ControlLoops
<1>6. CASE TeardownOver
  <2>1. /\ pc = "teardown" /\ ~cancelled /\ LoopTop(FALSE) /\ open' = open - 1 /\ ~dead'
        /\ dead' = FALSE
        /\ UNCHANGED <<owner, running, cycles, cancels, cuts, puts, failures, delay, cancelled>>
    BY <1>6 DEF TeardownOver, Runs, coordinator, backoff
  <2>2. Known = 1 /\ delay = Doubled(failures) /\ pc \in Suspended
    BY <1>1, <2>1 DEF Known, ClientFits, BackoffFits, Suspended
  <2>3. open' \in Nat
    BY <1>1, <1>2, <2>1, <2>2 DEF Opened
  <2>4. open' - (IF owns /\ FALSE THEN 1 ELSE 0) = open - Known
    BY <1>2, <2>1, <2>2
  <2>5. QED
    BY <1>2, <2>1, <2>2, <2>3, <2>4, ControlLoops
<1>7. QED
  BY <1>3, <1>4, <1>5, <1>6

\* The actions that move the worker from one await of an attempt or a send to the next.
LEMMA AwaitsStep ==
  ASSUME Control,
         \/ ConnectBuilt \/ Connected \/ ConnectFailed \/ GetRecord \/ ReleaseOver
         \/ SendFailed /\ owns
  PROVE  Control'
<1>1. /\ ControlOK /\ Bounded /\ ClientFits /\ Opened /\ DeadFits /\ BackoffFits
  BY DEF Control
<1>2. /\ owns \in BOOLEAN /\ client \in BOOLEAN /\ dead \in BOOLEAN /\ open \in Nat
      /\ failures \in 0..7 /\ Known \in Nat /\ Known' \in 0..1 /\ cancels \in 0..MaxCancels
      /\ Known <= open
  BY <1>1, BoundsAssumption DEF ControlOK, Bounded, BackoffFits, Known, Opened
<1>3. /\ UNCHANGED <<owns, probes, running, cycles, cancels, cuts, puts, cancelled>> /\ ~cancelled
      /\ pc \in Suspended
  BY DEF ConnectBuilt, Connected, ConnectFailed, GetRecord, ReleaseOver, SendFailed, Answered,
         Runs, coordinator, owner, backoff, Suspended
<1>4. CASE ConnectBuilt
  <2>1. /\ pc = "connect" /\ pc' = "probe" /\ open' = open + 1
        /\ UNCHANGED <<client, dead, delay, failures>>
    BY <1>4 DEF ConnectBuilt, Runs, backoff
  <2>2. Known = 0 /\ Known' = 1
    BY <1>1, <2>1 DEF Known, ClientFits
  <2>3. open' \in Nat /\ open' - Known' = open - Known
    BY <1>2, <2>1, <2>2
  <2>4. Opened' /\ open' \in 0..(MaxCancels + 1)
    BY <1>1, <1>2, <1>3, <2>3, OpenedStays
  <2>5. ControlOK' /\ Bounded'
    BY <1>1, <1>3, <2>1, <2>4 DEF ControlOK, Bounded, Suspended
  <2>6. ClientFits' /\ DeadFits' /\ BackoffFits'
    BY <1>1, <1>3, <2>1 DEF ClientFits, DeadFits, BackoffFits
  <2>7. QED
    BY <2>4, <2>5, <2>6 DEF Control
<1>5. CASE Connected
  <2>1. /\ client' = TRUE /\ dead' = FALSE /\ pc' = "get"
        /\ delay' = ConnectRetryBase /\ failures' = 0
        /\ \/ pc = "probe" /\ open' = open
           \/ pc = "connect" /\ open' = open + 1
    BY <1>5 DEF Connected, Answered, Runs
  <2>2. /\ Known' = 1 /\ open' \in Nat
        /\ \/ Known = 1 /\ open' = open
           \/ Known = 0 /\ open' = open + 1
    BY <1>1, <1>2, <1>3, <2>1 DEF Known, ClientFits
  <2>3. open' - Known' = open - Known
    <3>1. CASE Known = 1 /\ open' = open
      BY <1>2, <2>2, <3>1
    <3>2. CASE Known = 0 /\ open' = open + 1
      BY <1>2, <2>2, <3>2
    <3>3. QED
      BY <2>2, <3>1, <3>2
  <2>4. Opened' /\ open' \in 0..(MaxCancels + 1)
    BY <1>1, <1>2, <1>3, <2>2, <2>3, OpenedStays
  <2>5. ControlOK' /\ Bounded'
    <3>1. delay' \in ConnectRetryBase..ConnectRetryCap /\ failures' \in Nat
      BY <2>1 DEF ConnectRetryBase, ConnectRetryCap
    <3>2. QED
      BY <1>1, <1>3, <2>1, <2>4, <3>1 DEF ControlOK, Bounded, Suspended
  <2>6. ClientFits' /\ DeadFits' /\ BackoffFits'
    BY <1>1, <1>3, <2>1, Delays DEF ClientFits, DeadFits, BackoffFits, ConnectRetryBase
  <2>7. QED
    BY <2>4, <2>5, <2>6 DEF Control
<1>6. CASE ConnectFailed
  <2>1. /\ pc \in {"connect", "probe"} /\ pc' = "backoff"
        /\ open' = (IF pc = "probe" THEN open - 1 ELSE open)
        /\ failures' = AtMost(failures + 1, 7)
        /\ UNCHANGED <<client, dead, delay>>
    BY <1>6 DEF ConnectFailed, Runs
  <2>2. /\ Known' = 0 /\ open' \in Nat
        /\ \/ Known = 1 /\ open' = open - 1
           \/ Known = 0 /\ open' = open
    BY <1>1, <1>2, <2>1 DEF Known, ClientFits
  <2>3. open' - Known' = open - Known
    <3>1. CASE Known = 1 /\ open' = open - 1
      BY <1>2, <2>2, <3>1
    <3>2. CASE Known = 0 /\ open' = open
      BY <1>2, <2>2, <3>2
    <3>3. QED
      BY <2>2, <3>1, <3>2
  <2>4. Opened' /\ open' \in 0..(MaxCancels + 1)
    BY <1>1, <1>2, <1>3, <2>2, <2>3, OpenedStays
  <2>5. failures' \in 1..7 /\ delay' = Doubled(failures' - 1)
    <3>1. delay = Doubled(failures)
      BY <1>1, <2>1 DEF BackoffFits
    <3>2. QED
      BY <1>2, <2>1, <3>1, FailureCounts
  <2>6. ControlOK' /\ Bounded'
    BY <1>1, <1>3, <2>1, <2>4, <2>5 DEF ControlOK, Bounded, Suspended
  <2>7. ClientFits' /\ DeadFits' /\ BackoffFits'
    BY <1>1, <1>3, <2>1, <2>5 DEF ClientFits, DeadFits, BackoffFits
  <2>8. QED
    BY <2>4, <2>6, <2>7 DEF Control
<1>7. CASE GetRecord
  <2>1. /\ pc = "get" /\ UNCHANGED <<open, dead, delay, failures>>
        /\ \/ Leave(client)
           \/ pc' = "send" /\ client' = client
    BY <1>7 DEF GetRecord, Runs, backoff
  <2>2. client
    BY <1>1, <2>1 DEF ClientFits
  <2>3. /\ \/ pc' = "release" /\ owns /\ client'
           \/ pc' = "done" /\ ~owns /\ client' = FALSE
           \/ pc' = "send" /\ client'
        /\ client' \in BOOLEAN
        /\ (owns /\ client') <=> owns
    BY <1>2, <2>1, <2>2 DEF Leave
  <2>4. open' \in Nat /\ open' - Known' = open - Known
    <3>1. Known' = Known
      BY <1>3, <2>1, <2>2, <2>3 DEF Known
    <3>2. QED
      BY <1>2, <2>1, <3>1
  <2>5. Opened' /\ open' \in 0..(MaxCancels + 1)
    BY <1>1, <1>2, <1>3, <2>4, OpenedStays
  <2>6. ControlOK' /\ Bounded'
    BY <1>1, <1>3, <2>1, <2>3, <2>5 DEF ControlOK, Bounded, Suspended
  <2>7. ClientFits' /\ DeadFits' /\ BackoffFits'
    BY <1>1, <1>3, <2>1, <2>3 DEF ClientFits, DeadFits, BackoffFits
  <2>8. QED
    BY <2>5, <2>6, <2>7 DEF Control
<1>8. CASE ReleaseOver
  <2>1. /\ pc = "release" /\ pc' = "done" /\ open' = open - 1
        /\ dead' = FALSE /\ client' = FALSE /\ UNCHANGED <<delay, failures>>
    BY <1>8 DEF ReleaseOver, Runs, backoff
  <2>2. Known = 1 /\ Known' = 0
    BY <1>1, <2>1 DEF Known, ClientFits
  <2>3. open' \in Nat /\ open' - Known' = open - Known
    BY <1>2, <2>1, <2>2
  <2>4. Opened' /\ open' \in 0..(MaxCancels + 1)
    BY <1>1, <1>2, <1>3, <2>3, OpenedStays
  <2>5. ControlOK' /\ Bounded'
    BY <1>1, <1>3, <2>1, <2>4 DEF ControlOK, Bounded, Suspended
  <2>6. ClientFits' /\ DeadFits' /\ BackoffFits'
    BY <1>1, <1>3, <2>1 DEF ClientFits, DeadFits, BackoffFits
  <2>7. QED
    BY <2>4, <2>5, <2>6 DEF Control
<1>9. CASE SendFailed /\ owns
  <2>1. /\ pc = "send" /\ pc' = "teardown" /\ dead' = TRUE
        /\ UNCHANGED <<open, client, delay, failures>>
    BY <1>9 DEF SendFailed, Runs, backoff
  <2>2. open' \in Nat /\ open' - Known' = open - Known
    <3>1. Known' = Known
      BY <1>3, <2>1 DEF Known
    <3>2. QED
      BY <1>2, <2>1, <3>1
  <2>3. Opened' /\ open' \in 0..(MaxCancels + 1)
    BY <1>1, <1>2, <1>3, <2>2, OpenedStays
  <2>4. ControlOK' /\ Bounded'
    BY <1>1, <1>3, <2>1, <2>3 DEF ControlOK, Bounded, Suspended
  <2>5. ClientFits' /\ DeadFits' /\ BackoffFits'
    BY <1>1, <1>3, <1>9, <2>1 DEF ClientFits, DeadFits, BackoffFits
  <2>6. QED
    BY <2>3, <2>4, <2>5 DEF Control
<1>10. QED
  BY <1>4, <1>5, <1>6, <1>7, <1>8, <1>9

\* What a step of the handler's coordinator does to the worker.
LEMMA EnvironmentStep ==
  ASSUME Control, Environment
  PROVE  Control'
<1>1. /\ ControlOK /\ Bounded /\ ClientFits /\ Opened /\ DeadFits /\ BackoffFits
  BY DEF Control
<1>2. /\ open \in Nat /\ Known \in Nat /\ Known' \in 0..1 /\ cancels \in 0..MaxCancels
      /\ cycles \in Nat /\ puts \in 0..MaxRecords
      /\ Known <= open /\ open <= Known + cancels
      /\ cuts \cap {"probe", "release"} = {} => open = Known
  BY <1>1, BoundsAssumption DEF ControlOK, Bounded, Known, Opened
<1>3. UNCHANGED <<owns, probes, client, dead, open, cuts>>
  BY DEF Environment, Start, Put, StopRunning, Cancel, Clear, owner, connection
<1>4. CASE Start
  <2>1. /\ pc = "off" /\ pc' = "new" /\ running' = TRUE /\ cycles' = cycles + 1
        /\ delay' = ConnectRetryBase /\ failures' = 0 /\ UNCHANGED <<cancelled, cancels, puts>>
    BY <1>4 DEF Start
  <2>2. ~cancelled
    BY <1>1, <2>1 DEF Bounded, Suspended
  <2>3. Known' = Known
    BY <1>3, <2>1 DEF Known
  <2>4. Opened'
    BY <1>1, <1>3, <2>1, <2>3 DEF Opened
  <2>5. ControlOK' /\ Bounded'
    BY <1>1, <1>2, <1>3, <2>1
       DEF ControlOK, Bounded, Suspended, ConnectRetryBase, ConnectRetryCap
  <2>6. ClientFits' /\ DeadFits' /\ BackoffFits'
    BY <1>1, <1>3, <2>1, Delays DEF ClientFits, DeadFits, BackoffFits, ConnectRetryBase
  <2>7. QED
    BY <2>4, <2>5, <2>6 DEF Control
<1>5. CASE Put \/ StopRunning
  <2>1. /\ UNCHANGED <<pc, cancelled, delay, failures, cycles, cancels>>
        /\ running' \in BOOLEAN /\ puts' \in 0..MaxRecords
    <3>1. puts + 1 \in 0..MaxRecords \/ ~(puts < MaxRecords)
      BY <1>2, BoundsAssumption
    <3>2. QED
      BY <1>1, <1>2, <1>5, <3>1 DEF Put, StopRunning, backoff, ControlOK
  <2>2. Known' = Known
    BY <1>3, <2>1 DEF Known
  <2>3. Opened'
    BY <1>1, <1>3, <2>1, <2>2 DEF Opened
  <2>4. ControlOK' /\ Bounded'
    BY <1>1, <1>3, <2>1 DEF ControlOK, Bounded
  <2>5. ClientFits' /\ DeadFits' /\ BackoffFits'
    BY <1>1, <1>3, <2>1 DEF ClientFits, DeadFits, BackoffFits
  <2>6. QED
    BY <2>3, <2>4, <2>5 DEF Control
<1>6. CASE Cancel
  <2>1. /\ pc \in Suspended /\ cancels < MaxCancels /\ cancels' = cancels + 1
        /\ cancelled' = TRUE
        /\ UNCHANGED <<running, pc, delay, failures, puts, cycles>>
    BY <1>6 DEF Cancel, backoff
  <2>2. Known' = Known
    BY <1>3, <2>1 DEF Known
  <2>3. open < Known + cancels' /\ open <= Known + cancels' /\ cancels' \in 0..MaxCancels
    BY <1>2, <2>1, BoundsAssumption
  <2>4. Opened'
    BY <1>2, <1>3, <2>2, <2>3 DEF Opened
  <2>5. ControlOK' /\ Bounded'
    BY <1>1, <1>3, <2>1, <2>3 DEF ControlOK, Bounded
  <2>6. ClientFits' /\ DeadFits' /\ BackoffFits'
    BY <1>1, <1>3, <2>1 DEF ClientFits, DeadFits, BackoffFits
  <2>7. QED
    BY <2>4, <2>5, <2>6 DEF Control
<1>7. CASE Clear
  <2>1. /\ pc = "done" /\ pc' = "off"
        /\ UNCHANGED <<running, puts, cycles, cancels, cancelled, delay, failures>>
    BY <1>7 DEF Clear, coordinator, backoff
  <2>2. Known' = Known /\ ~cancelled
    BY <1>1, <1>3, <2>1 DEF Known, Bounded, Suspended
  <2>3. Opened'
    BY <1>1, <1>3, <2>1, <2>2 DEF Opened
  <2>4. ControlOK' /\ Bounded'
    BY <1>1, <1>3, <2>1, <2>2 DEF ControlOK, Bounded
  <2>5. ClientFits' /\ DeadFits' /\ BackoffFits'
    BY <1>1, <1>3, <2>1 DEF ClientFits, DeadFits, BackoffFits
  <2>6. QED
    BY <2>3, <2>4, <2>5 DEF Control
<1>8. QED
  BY <1>4, <1>5, <1>6, <1>7 DEF Environment

\* A cancellation can lose a client only between its construction and its assignment, or
\* within its release.
LEMMA InterruptedStep ==
  ASSUME Control, Interrupted
  PROVE  Control'
<1>1. /\ ControlOK /\ Bounded /\ ClientFits /\ Opened /\ DeadFits /\ BackoffFits
  BY DEF Control
<1>2. /\ cancelled /\ cancelled' = FALSE /\ cuts' = cuts \cup {pc} /\ OuterFinally
      /\ pc \in Suspended
      /\ UNCHANGED <<owns, probes, running, cycles, cancels, puts, open, dead, delay, failures>>
  BY <1>1 DEF Interrupted, coordinator, owner, backoff, Bounded
<1>3. /\ owns \in BOOLEAN /\ client \in BOOLEAN /\ open \in Nat /\ Known \in Nat
      /\ cancels \in 0..MaxCancels /\ Known <= open /\ open < Known + cancels
      /\ cuts \cap {"probe", "release"} = {} => open = Known
  BY <1>1, <1>2, BoundsAssumption DEF ControlOK, Bounded, Known, Opened
<1>4. /\ pc' \in {"release", "done"} /\ client' \in BOOLEAN
      /\ pc' = "release" => owns /\ client'
      /\ pc \in {"new", "release"} => pc' = "done" /\ client' = client
      /\ pc \notin {"new", "release"} /\ pc' = "done" => ~client'
      /\ (owns /\ client') <=> (owns /\ client)
  BY <1>2, <1>3, LeaveFits DEF OuterFinally
<1>5. \/ Known' = Known
      \/ pc = "probe" /\ Known = 1 /\ Known' = 0
  BY <1>1, <1>2, <1>4 DEF Known, ClientFits
<1>6. Opened'
  <2>1. CASE Known' = Known
    BY <1>2, <1>3, <2>1 DEF Opened
  <2>2. CASE pc = "probe" /\ Known = 1 /\ Known' = 0
    <3>1. open' = open /\ cancels' = cancels /\ 0 <= open /\ open <= 0 + cancels
      BY <1>2, <1>3, <2>2
    <3>2. "probe" \in cuts'
      BY <1>2, <2>2
    <3>3. QED
      BY <1>2, <2>2, <3>1, <3>2 DEF Opened
  <2>3. QED
    BY <1>5, <2>1, <2>2
<1>7. ControlOK' /\ Bounded'
  BY <1>1, <1>2, <1>4 DEF ControlOK, Bounded, Suspended
<1>8. ClientFits' /\ BackoffFits'
  BY <1>1, <1>2, <1>4 DEF ClientFits, BackoffFits
<1>9. DeadFits'
  <2>1. CASE pc = "teardown"
    <3>1. owns => pc' = "release"
      BY <1>1, <1>2, <2>1 DEF ClientFits, OuterFinally, Leave
    <3>2. QED
      BY <1>2, <3>1 DEF DeadFits
  <2>2. CASE pc = "release"
    BY <1>2, <2>2 DEF DeadFits
  <2>3. CASE pc \notin {"teardown", "release"}
    BY <1>1, <1>2, <2>3 DEF DeadFits
  <2>4. QED
    BY <2>1, <2>2, <2>3
<1>10. QED
  BY <1>6, <1>7, <1>8, <1>9 DEF Control

(***************************************************************************)
(* The inductive invariant and what follows from it.                       *)
(***************************************************************************)

\* A handler as its constructor leaves it.
LEMMA InitWorkerInv == Init => WorkerInv
<1> SUFFICES ASSUME Init PROVE WorkerInv
  OBVIOUS
<1>1. owns \in BOOLEAN /\ client \in BOOLEAN /\ probes \in BOOLEAN /\ owns = ~client
  <2>1. PICK h \in BrokerHandlers(QueueMaxsize) :
          owns = h.owns /\ client = h.client /\ probes = h.probes
    BY DEF Init
  <2>2. QED
    BY <2>1, Constructed
<1>2. /\ running = FALSE /\ queue = <<>> /\ unfinished = 0 /\ hand = NoRecord /\ pc = "off"
      /\ cancelled = FALSE /\ open = 0 /\ dead = FALSE /\ delay = ConnectRetryBase
      /\ failures = 0 /\ puts = 0 /\ cycles = 0 /\ cancels = 0 /\ cuts = {}
      /\ fate = [r \in Records |-> "none"]
  BY DEF Init
<1>3. DataOK
  <2>1. queue \in Seq(Records) /\ Len(queue) = 0 /\ 0 <= QueueMaxsize
    BY <1>2, EmptySeq, BoundsAssumption
  <2>2. QED
    BY <1>2, <2>1 DEF DataOK, Outcomes
<1>4. ControlOK
  <2>1. 0 \in 0..(MaxCancels + 1) /\ delay \in ConnectRetryBase..ConnectRetryCap
    BY <1>2, BoundsAssumption DEF ConnectRetryBase, ConnectRetryCap
  <2>2. QED
    BY <1>1, <1>2, <2>1 DEF ControlOK
<1>5. Bounded /\ ClientFits /\ DeadFits /\ BackoffFits
  BY <1>2, BoundsAssumption DEF Bounded, ClientFits, DeadFits, BackoffFits
<1>6. Opened
  <2>1. Known = 0
    BY <1>1, <1>2 DEF Known
  <2>2. QED
    BY <1>2, <2>1 DEF Opened
<1>7. Counted
  BY <1>2, EmptySeq DEF Counted, InHand
<1>8. QED
  BY <1>3, <1>4, <1>5, <1>6, <1>7, Parts DEF WorkerInv

\* Every step, of the coordinator or of the worker, keeps the invariant.
LEMMA StepWorkerInv == WorkerInv /\ [Next]_vars => WorkerInv'
<1> SUFFICES ASSUME WorkerInv, [Next]_vars PROVE WorkerInv'
  OBVIOUS
<1>1. TypeOK /\ Bounded /\ ClientFits /\ Counted /\ Control /\ owns \in BOOLEAN
  BY Parts DEF WorkerInv, Control, ControlOK
<1>2. DataOK' /\ Counted'
  BY <1>1, DataStep
<1>3. Control'
  <2>1. CASE Environment
    BY <1>1, <2>1, EnvironmentStep
  <2>2. CASE Worker
    BY <1>1, <2>2, LoopsStep, AwaitsStep, InterruptedStep DEF Worker
  <2>3. CASE Idle \/ UNCHANGED vars
    <3>1. UNCHANGED <<running, puts, cycles, cancels, pc, cancelled, owns, probes, client, open,
                      dead, delay, failures, cuts>>
      BY <2>3 DEF Idle, vars, coordinator, owner, connection, backoff
    <3>2. Known' = Known
      BY <3>1 DEF Known
    <3>3. QED
      BY <1>1, <3>1, <3>2
         DEF Control, ControlOK, Bounded, ClientFits, Opened, DeadFits, BackoffFits
  <2>4. QED
    BY <2>1, <2>2, <2>3 DEF Next
<1>4. QED
  BY <1>2, <1>3, Parts DEF Control, WorkerInv

\* WorkerInv holds in every reachable state.
THEOREM WorkerInductive == Spec => []WorkerInv
BY InitWorkerInv, StepWorkerInv, PTL DEF Spec

\* The worker's state keeps its types: above all, the queue stays within its size, the
\* delay within its bounds, and at most one client more than cancellations is open.
THEOREM WorkerTypes == Spec => []TypeOK
<1>1. WorkerInv => TypeOK
  BY DEF WorkerInv
<1>2. QED
  BY <1>1, WorkerInductive, PTL

\* An owning handler never reads the queue with, nor sends over, a client whose last send
\* failed (the disconnect in _worker's except clause), unless its release was cut short.
THEOREM DeadNeverReused == Spec => []DeadClientDropped
<1>1. WorkerInv => DeadClientDropped
  BY DEF WorkerInv, DeadFits, DeadClientDropped
<1>2. QED
  BY <1>1, WorkerInductive, PTL

\* While the worker sleeps, connect_delay is half a second doubled once for each further
\* failure in a row, up to the cap: a success and a start have reset it.
THEOREM BackoffRight == Spec => []BackoffMatchesFailures
<1>1. WorkerInv => BackoffMatchesFailures
  BY DEF WorkerInv, BackoffFits, BackoffMatchesFailures, Doubled
<1>2. QED
  BY <1>1, WorkerInductive, PTL

\* Once the worker has ended, every client that connect() built has been disconnected and
\* the reference is gone, unless a cancellation hit one of the places no finally covers.
THEOREM AllReleased == Spec => []ReleasedAtEnd
<1>1. WorkerInv => ReleasedAtEnd
  <2> SUFFICES ASSUME WorkerInv, pc \in {"off", "done"}, cycles > 0,
                      cuts \cap {"probe", "release", "new"} = {}
               PROVE  open = 0 /\ ~client
    BY DEF ReleasedAtEnd
  <2>1. ~client
    BY DEF WorkerInv, ClientFits
  <2>2. open = Known
    BY DEF WorkerInv, Opened
  <2>3. Known = 0
    BY <2>1 DEF Known
  <2>4. QED
    BY <2>1, <2>2, <2>3
<1>2. QED
  BY <1>1, WorkerInductive, PTL

(***************************************************************************)
(* The worker implements the contract of module SinkWorker, as long as     *)
(* every record can be rendered: one that cannot leaves it without its     *)
(* task_done().                                                            *)
(***************************************************************************)

\* The worker is created by the step that sets the running event.
LEMMA StartMaps == Start /\ Bounded => Sink!Start
BY DEF Start, Bounded, Suspended, Sink!Start

\* A record is put at the tail; the running event is cleared alone.
LEMMA OfferMaps ==
  ASSUME DataOK, Bounded, running \in BOOLEAN, Put \/ StopRunning
  PROVE  Sink!Offer
<1>1. /\ UNCHANGED <<hand, pc, cancelled>>
      /\ running' = running \/ running' = FALSE
  BY DEF Put, StopRunning
<1>2. Len(queue) \in Nat /\ QueueMaxsize \in Nat /\ unfinished \in Nat
  BY BoundsAssumption, LenProperties DEF DataOK
<1>3. \E n \in 0..(QueueMaxsize - Len(queue)) : \E s \in [1..n -> Records] :
         queue' = queue \o s /\ unfinished' = unfinished + n
  <2>1. CASE Put
    <3>1. /\ puts + 1 \in Records /\ queue' = Append(queue, puts + 1)
          /\ Len(queue) < QueueMaxsize /\ unfinished' = unfinished + 1
      BY <2>1, BoundsAssumption DEF Put, Bounded, Records
    <3>2. queue' = queue \o <<puts + 1>>
      BY <3>1, AppendIsConcat DEF DataOK
    <3>3. <<puts + 1>> \in [1..1 -> Records]
      BY <3>1
    <3>4. 1 \in 0..(QueueMaxsize - Len(queue))
      BY <1>2, <3>1
    <3>5. QED
      BY <3>1, <3>2, <3>3, <3>4
  <2>2. CASE StopRunning
    <3>1. queue' = queue \o << >> /\ unfinished' = unfinished + 0
      BY <1>2, <2>2, ConcatEmptySeq DEF StopRunning, DataOK
    <3>2. << >> \in [1..0 -> Records]
      OBVIOUS
    <3>3. 0 \in 0..(QueueMaxsize - Len(queue))
      BY <1>2 DEF DataOK
    <3>4. QED
      BY <3>1, <3>2, <3>3
  <2>3. QED
    BY <2>1, <2>2
<1>4. QED
  BY <1>1, <1>3 DEF Sink!Offer

\* A cancelled release is the worker's own affair: its queue is done with.
LEMMA CancelMaps == Cancel => Sink!Cancel \/ UNCHANGED Sink!vars
BY DEF Cancel, Suspended, Sink!Cancel, Sink!vars

\* The queue is cleared once the worker has ended.
LEMMA ClearMaps == Clear => Sink!Clear
BY DEF Clear, coordinator, Sink!Clear

\* Coming to the top of the loop with an empty hand goes on, or ends for a good reason.
LEMMA LoopsMap ==
  ASSUME TypeOK, Counted, Malformed = {}, First \/ BackoffOver \/ GetTimeout
  PROVE  Sink!Exit \/ UNCHANGED Sink!vars
<1>1. /\ pc \in {"new", "backoff", "get"} /\ ~cancelled /\ LoopTop(client)
      /\ UNCHANGED <<running, queue, unfinished, hand, cancelled>>
  BY DEF First, BackoffOver, GetTimeout, Runs, coordinator
<1>2. /\ pc' \in {"get", "connect", "release", "done"}
      /\ pc' \in {"release", "done"} => ~running /\ queue' = <<>>
  BY <1>1, LoopTopFits DEF TypeOK
<1>3. hand = NoRecord
  BY <1>1 DEF Counted
<1>4. QED
  BY <1>1, <1>2, <1>3 DEF Sink!Exit, Sink!vars

\* The settled record is acknowledged, and the worker goes on or ends for a good reason.
LEMMA DoneMaps ==
  ASSUME TypeOK, Counted, SendOk \/ SendFailed \/ TeardownOver
  PROVE  Sink!Done \/ UNCHANGED Sink!vars
<1>1. CASE SendFailed /\ pc' = "teardown" /\ UNCHANGED <<queue, unfinished, hand, client, fate>>
  BY <1>1 DEF SendFailed, Runs, coordinator, Sink!vars
<1>2. CASE \E c \in BOOLEAN, outcome \in Outcomes : LoopTop(c) /\ Acknowledge(outcome)
  <2>1. /\ pc \in Handling /\ ~cancelled /\ UNCHANGED <<running, queue, cancelled>>
    BY <1>2 DEF SendOk, SendFailed, TeardownOver, Runs, coordinator, Handling, Acknowledge
  <2>2. /\ pc' \in {"get", "connect", "release", "done"}
        /\ pc' \in {"release", "done"} => ~running /\ queue' = <<>>
    BY <1>2, LoopTopFits DEF TypeOK
  <2>3. hand # NoRecord /\ hand' = NoRecord /\ unfinished' = unfinished - 1
    BY <1>2, <2>1 DEF Counted, Handling, Acknowledge, Records, NoRecord
  <2>4. QED
    BY <2>1, <2>2, <2>3 DEF Sink!Done, Sink!MayEnd, Handling
<1>3. QED
  <2>1. client \in BOOLEAN /\ FALSE \in BOOLEAN /\ {"sent", "failed"} \subseteq Outcomes
    BY DEF TypeOK, Outcomes
  <2>2. CASE SendOk
    BY <1>2, <2>1, <2>2 DEF SendOk
  <2>3. CASE SendFailed
    BY <1>1, <1>2, <2>1, <2>3 DEF SendFailed
  <2>4. CASE TeardownOver
    BY <1>2, <2>1, <2>4 DEF TeardownOver
  <2>5. QED
    BY <2>2, <2>3, <2>4

\* The head of the queue is taken.
LEMMA GetMaps == Malformed = {} /\ Counted /\ GetRecord => Sink!Get
BY DEF GetRecord, Counted, Runs, coordinator, Sink!Get

\* The record in hand is given up at the cancellation.
LEMMA InterruptedMaps ==
  ASSUME TypeOK, Bounded, Counted, Malformed = {}, Interrupted
  PROVE  Sink!Cancelled \/ UNCHANGED Sink!vars
<1>1. /\ cancelled /\ ~cancelled' /\ pc \in Suspended /\ UNCHANGED <<running, queue>>
      /\ InnerFinally /\ OuterFinally
  BY DEF Interrupted, Bounded, coordinator
<1>2. pc' \in {"release", "done"} /\ (pc \in {"new", "release"} => pc' = "done")
  BY <1>1, LeaveFits DEF TypeOK, OuterFinally
<1>3. CASE pc = "release"
  BY <1>1, <1>2, <1>3 DEF InnerFinally, Sink!vars
<1>4. CASE pc \in Handling
  <2>1. hand # NoRecord /\ hand' = NoRecord /\ unfinished' = unfinished - 1
    BY <1>1, <1>4 DEF Counted, Handling, InnerFinally, Acknowledge, Records, NoRecord
  <2>2. QED
    BY <1>1, <1>2, <1>4, <2>1 DEF Sink!Cancelled, Handling
<1>5. CASE pc # "release" /\ pc \notin Handling
  <2>1. hand = NoRecord /\ hand' = NoRecord /\ unfinished' = unfinished
    BY <1>1, <1>5 DEF Counted, Handling, InnerFinally
  <2>2. QED
    BY <1>1, <1>2, <1>5, <2>1 DEF Sink!Cancelled, Suspended
<1>6. QED
  BY <1>3, <1>4, <1>5

\* Connecting and releasing are none of the coordinator's business.
LEMMA ClientMaps ==
  ConnectBuilt \/ Connected \/ ConnectFailed \/ ReleaseOver \/ Idle \/ UNCHANGED vars
    => UNCHANGED Sink!vars
BY DEF ConnectBuilt, Connected, Answered, ConnectFailed, ReleaseOver, Idle, vars, Runs,
       coordinator, Sink!vars

\* If every record can be rendered, the worker is one that the coordinator's contract
\* allows: one task_done() for each get(), in the queue's order, working while logging is
\* active or records are queued, and giving up the record in hand when cancelled.
THEOREM SinkRefined == Malformed = {} => (Spec => ImplementsSink)
<1> SUFFICES ASSUME Malformed = {} PROVE Spec => ImplementsSink
  OBVIOUS
<1>1. Init => Sink!Init
  BY DEF Init, Sink!Init
<1>2. WorkerInv /\ [Next]_vars => [Sink!Next]_(Sink!vars)
  <2> SUFFICES ASSUME WorkerInv, [Next]_vars PROVE Sink!Next \/ UNCHANGED Sink!vars
    OBVIOUS
  <2>1. TypeOK /\ DataOK /\ Bounded /\ Counted /\ running \in BOOLEAN
    BY Parts DEF WorkerInv, ControlOK
  <2>2. CASE Environment
    BY <2>1, <2>2, StartMaps, OfferMaps, CancelMaps, ClearMaps DEF Environment, Sink!Next
  <2>3. CASE Worker
    BY <2>1, <2>3, LoopsMap, DoneMaps, GetMaps, InterruptedMaps, ClientMaps
       DEF Worker, Sink!Next
  <2>4. CASE Idle \/ UNCHANGED vars
    BY <2>4, ClientMaps
  <2>5. QED
    BY <2>2, <2>3, <2>4 DEF Next
<1>3. QED
  BY <1>1, <1>2, WorkerInductive, PTL DEF Spec, ImplementsSink, Sink!Spec

=============================================================================

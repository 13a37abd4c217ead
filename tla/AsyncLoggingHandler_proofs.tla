---------------------- MODULE AsyncLoggingHandler_proofs ----------------------
(***************************************************************************)
(* Theorems about AsyncLoggingHandler for every set of emitters and        *)
(* backends, every queue bound and every number of cycles.                 *)
(*                                                                         *)
(* IInv is the inductive invariant: type correctness together with what    *)
(* the lifecycle flags, the references and the place in start_logging or   *)
(* in the tail of stop_logging imply about one another (Control), what a   *)
(* worker's state says of its hand (Hands), the bounds of the queues       *)
(* (Bounded), and how stale the references an emit() has captured can be   *)
(* (Captured).                                                             *)
(***************************************************************************)
EXTENDS AsyncLoggingHandler, FiniteSetTheorems, SequenceTheorems, TLAPS

Stopped == ~running /\ stop = "idle"

Control ==
  /\ accept => running /\ stop = "idle"
  /\ running => stop \in {"idle", "flush", "drain"}
  /\ stop \in {"flush", "drain"} => running
  /\ hasLoop <=> \/ running
                 \/ stop # "idle" /\ loop \notin {"release_ingress", "release_event"}
                 \/ loop \in Starting \ {"start"}
  /\ ref # None <=> \/ running
                    \/ stop # "idle" /\ loop # "release_event"
                    \/ loop \in {"start_event", "start_accept"}
  /\ eventRef # None <=> running \/ stop # "idle" \/ loop = "start_accept"
  /\ bridge # "none" <=> eventRef # None
  /\ bridge = "done" <=> stop # "idle"
  /\ bridge = "moving" <=> loop = "bridge"
  /\ loop = "flush" => stop = "flush"
  /\ loop \in Releasing => stop \in {"join", "cancel"}
  /\ loop \in Starting => Stopped
  /\ loop \in {"start", "start_ingress"} => cycle < MaxCycles
  /\ loop = "start_event" => ingress[cycle] = <<>>
  /\ \A c \in Cycles : c > cycle => ingress[c] = <<>>

Hands ==
  \A b \in Backends :
    /\ worker[b] \in {"none", "idle", "done"} => hand[b] = NoRecord
    /\ worker[b] = "busy" => hand[b] # NoRecord
    /\ Stopped \/ loop \in Releasing => worker[b] = "none" /\ queue[b] = <<>>

\* No queue exceeds its bound: worst-case buffering is (1 + N) * queue_maxsize.
Bounded ==
  /\ \A b \in Backends : Len(queue[b]) <= QueueMaxsize
  /\ \A c \in Cycles : Len(ingress[c]) <= QueueMaxsize

\* No emit() is admitted without a ticket left for it (a bound of the model).
Admitted == tickets + Cardinality(InFlight) <= MaxTickets

\* emit() reads the ingress before the event, so its event is never the older
\* one; and no thread has the event that start_logging is about to set.
Captured ==
  \A e \in Emitters :
    /\ cap[e].ingress <= cycle /\ cap[e].event <= cycle
    /\ pc[e] \in {"loop", "event", "put", "wake"} => cap[e].ingress \in Cycles
    /\ pc[e] \in {"put", "wake"} =>
         /\ cap[e].ingress <= cap[e].event
         /\ loop = "start_event" => cap[e].event < cycle

IInv == /\ TypeOK /\ Control /\ Hands /\ Bounded /\ Admitted /\ Captured
        /\ UnfinishedBalanced /\ NoLostWakeup

\* Point updates stay in their function sets.
LEMMA Increment ==
  ASSUME NEW S, NEW f \in [S -> Nat], NEW x \in S
  PROVE  [f EXCEPT ![x] = @ + 1] \in [S -> Nat]
OBVIOUS

LEMMA FateUpdate ==
  ASSUME NEW f \in [Backends -> [Tickets -> Fates]], NEW b \in Backends,
         NEW t \in Tickets, NEW outcome \in Fates
  PROVE  [f EXCEPT ![b][t] = outcome] \in [Backends -> [Tickets -> Fates]]
OBVIOUS

\* The number of emits that were admitted and have not put yet.
LEMMA InFlightCount ==
  /\ IsFiniteSet(InFlight) /\ Cardinality(InFlight) \in Nat
  /\ \A e \in InFlight : Cardinality(InFlight) >= 1
<1>1. IsFiniteSet(InFlight)
  BY FiniteAssumption, FS_Subset DEF InFlight
<1>2. Cardinality(InFlight) \in Nat
  BY <1>1, FS_CardinalityType
<1>3. ASSUME NEW e \in InFlight PROVE Cardinality(InFlight) # 0
  BY <1>1, FS_EmptySet
<1>4. QED
  BY <1>1, <1>2, <1>3

LEMMA FanOutBalanced ==
  ASSUME TypeOK, UnfinishedBalanced, NEW t \in Tickets, FanOut(t), UNCHANGED hand
  PROVE  UnfinishedBalanced'
<1>1. ASSUME NEW b \in Backends
      PROVE  unfinished'[b] = Len(queue'[b]) + (IF hand'[b] = NoRecord THEN 0 ELSE 1)
  <2>1. queue[b] \in Seq(Tickets \cup {StatusRecord}) /\ Len(queue[b]) \in Nat
    BY DEF TypeOK
  <2>2. unfinished[b] = Len(queue[b]) + (IF hand[b] = NoRecord THEN 0 ELSE 1)
    BY DEF UnfinishedBalanced
  <2>3. /\ queue'[b] = IF HasRoom(b) THEN Append(queue[b], t) ELSE queue[b]
        /\ unfinished'[b] = IF HasRoom(b) THEN unfinished[b] + 1 ELSE unfinished[b]
    BY DEF FanOut
  <2>4. Len(Append(queue[b], t)) = Len(queue[b]) + 1
    BY <2>1
  <2>5. CASE HasRoom(b)
    <3>1. Len(queue'[b]) = Len(queue[b]) + 1
      BY <2>3, <2>4, <2>5
    <3>2. unfinished'[b] = unfinished[b] + 1
      BY <2>3, <2>5
    <3>3. hand'[b] = hand[b]
      OBVIOUS
    <3> HIDE DEF NoRecord
    <3>4. CASE hand[b] = NoRecord
      BY <2>1, <2>2, <3>1, <3>2, <3>3, <3>4
    <3>5. CASE hand[b] # NoRecord
      BY <2>1, <2>2, <3>1, <3>2, <3>3, <3>5
    <3>6. QED
      BY <3>4, <3>5
  <2>6. CASE ~HasRoom(b)
    BY <2>1, <2>2, <2>3, <2>6
  <2>7. QED
    BY <2>5, <2>6
<1>2. QED
  BY <1>1 DEF UnfinishedBalanced

\* NoLostWakeup speaks of these variables only.
LEMMA WakeupFrame ==
  ASSUME NoLostWakeup, UNCHANGED <<bridge, ingress, event, pending, cycle, pc, cap>>
  PROVE  NoLostWakeup'
BY DEF NoLostWakeup, At

\* The status records a reporter has room for, and what enqueueing them does.
LEMMA StatusCountRoom ==
  ASSUME TypeOK, Bounded, NEW b \in Backends
  PROVE  StatusCount(b) \in Nat /\ StatusCount(b) <= QueueMaxsize - Len(queue[b])
<1>1. Cardinality(Backends) \in Nat
  BY FiniteAssumption, FS_CardinalityType
<1>2. Len(queue[b]) \in Nat /\ Len(queue[b]) <= QueueMaxsize
  BY DEF TypeOK, Bounded
<1>3. QED
  BY <1>1, <1>2, SizesAssumption DEF StatusCount

LEMMA StatusConcat ==
  ASSUME TypeOK, NEW b \in Backends, NEW n \in Nat
  PROVE  LET s == queue[b] \o [i \in 1..n |-> StatusRecord]
         IN  /\ s \in Seq(Tickets \cup {StatusRecord})
             /\ Len(s) = Len(queue[b]) + n
<1>1. /\ [i \in 1..n |-> StatusRecord] \in Seq(Tickets \cup {StatusRecord})
      /\ Len([i \in 1..n |-> StatusRecord]) = n
  OBVIOUS
<1>2. queue[b] \in Seq(Tickets \cup {StatusRecord})
  BY DEF TypeOK
<1>3. QED
  BY <1>1, <1>2, ConcatProperties

\* What the fan-out of one record does to the queues and the counts.
LEMMA FanOutTypes ==
  ASSUME TypeOK, NEW t \in Tickets, FanOut(t)
  PROVE  /\ queue' \in [Backends -> Seq(Tickets \cup {StatusRecord})]
         /\ unfinished' \in [Backends -> Nat]
         /\ fate' \in [Backends -> [Tickets -> Fates]]
<1> USE DEF TypeOK, FanOut, Fates
<1>1. ASSUME NEW b \in Backends
      PROVE  Append(queue[b], t) \in Seq(Tickets \cup {StatusRecord})
  OBVIOUS
<1>2. queue' \in [Backends -> Seq(Tickets \cup {StatusRecord})]
  BY <1>1
<1>3. unfinished' \in [Backends -> Nat]
  OBVIOUS
<1>4. fate' \in [Backends -> [Tickets -> Fates]]
  OBVIOUS
<1>5. QED
  BY <1>2, <1>3, <1>4

\* Every step keeps the types.
LEMMA TypeOKStep ==
  ASSUME IInv, [Next]_vars
  PROVE  TypeOK'
<1> USE SizesAssumption, ReportersAssumption
        DEF IInv, TypeOK, Control, Hands, Bounded, Admitted, Captured,
            UnfinishedBalanced, Cycles, Tickets, None, NoRecord, StatusRecord, Fates,
            Handled, Stopped, Starting, Releasing, vars, flags, refs, wakeups, backends,
            stopping, emits, history
<1>1. ASSUME NEW e \in Emitters, EmitCheck(e)  PROVE TypeOK'
  BY <1>1 DEF EmitCheck, At, Goto
<1>2. ASSUME NEW e \in Emitters, EmitReadIngress(e)  PROVE TypeOK'
  BY <1>2 DEF EmitReadIngress, At, Goto
<1>3. ASSUME NEW e \in Emitters, EmitReadLoop(e)  PROVE TypeOK'
  BY <1>3 DEF EmitReadLoop, At, Goto
<1>4. ASSUME NEW e \in Emitters, EmitReadEvent(e)  PROVE TypeOK'
  BY <1>4 DEF EmitReadEvent, At, Goto
<1>5. ASSUME NEW e \in Emitters, EmitPut(e)  PROVE TypeOK'
  <2>1. cap[e].ingress \in Cycles /\ e \in InFlight
    BY <1>5 DEF EmitPut, At, InFlight, Reading
  <2>2. tickets + 1 \in Tickets
    BY <2>1, InFlightCount
  <2>3. CASE Enqueue(cap[e].ingress) /\ Goto(e, "wake")
    <3>1. Append(ingress[cap[e].ingress], tickets + 1) \in Seq(Tickets)
      BY <2>1, <2>2
    <3>2. ingress' \in [Cycles -> Seq(Tickets)]
      BY <2>3, <3>1 DEF Enqueue
    <3>3. fate' \in [Backends -> [Tickets -> Fates]]
      BY <2>3 DEF Enqueue
    <3>4. pc' \in [Emitters -> {"idle", "ingress", "loop", "event", "put", "wake"}]
      BY <2>3 DEF Goto
    <3>5. tickets' \in 0..MaxTickets
      BY <2>2, <2>3 DEF Enqueue
    <3>6. QED
      BY <1>5, <3>2, <3>3, <3>4, <3>5 DEF EmitPut
  <2>4. CASE Goto(e, "idle") /\ UNCHANGED <<ingress, history>>
    BY <1>5, <2>4 DEF EmitPut, Goto
  <2>5. QED
    BY <1>5, <2>3, <2>4 DEF EmitPut
<1>6. ASSUME NEW e \in Emitters, EmitWake(e)  PROVE TypeOK'
  <2>1. cap[e].event \in Cycles
    BY <1>6 DEF EmitWake, At
  <2>2. pending' \in [Cycles -> Nat]
    BY <1>6, <2>1, Increment DEF EmitWake
  <2>3. pc' \in [Emitters -> {"idle", "ingress", "loop", "event", "put", "wake"}]
    BY <1>6 DEF EmitWake, Goto
  <2>4. QED
    BY <1>6, <2>2, <2>3 DEF EmitWake
<1>7. ASSUME NEW c \in Cycles, SetEvent(c)  PROVE TypeOK'
  BY <1>7 DEF SetEvent
<1>8. CASE BridgeWake
  BY <1>8 DEF BridgeWake
<1>9. CASE BridgeMove
  <2>0. ref \in Cycles /\ ingress[ref] # <<>>
    BY <1>9 DEF BridgeMove, FlushMove, MoveRecord
  <2>1. Head(ingress[ref]) \in Tickets /\ Tail(ingress[ref]) \in Seq(Tickets)
    BY <2>0, HeadTailProperties
  <2>2. FanOut(Head(ingress[ref]))
    BY <1>9 DEF BridgeMove, FlushMove, MoveRecord
  <2>3. /\ queue' \in [Backends -> Seq(Tickets \cup {StatusRecord})]
        /\ unfinished' \in [Backends -> Nat]
        /\ fate' \in [Backends -> [Tickets -> Fates]]
    BY <2>1, <2>2, FanOutTypes
  <2>4. ingress' \in [Cycles -> Seq(Tickets)]
    BY <1>9, <2>1 DEF BridgeMove, FlushMove, MoveRecord
  <2>5. QED
    BY <1>9, <2>3, <2>4 DEF BridgeMove, FlushMove, MoveRecord
<1>10. CASE BridgeWait
  BY <1>10 DEF BridgeWait
<1>11. ASSUME NEW b \in Backends, WorkerGet(b)  PROVE TypeOK'
  <2>1. /\ Head(queue[b]) \in Tickets \cup {StatusRecord}
        /\ Tail(queue[b]) \in Seq(Tickets \cup {StatusRecord})
    BY <1>11 DEF WorkerGet
  <2>2. queue' \in [Backends -> Seq(Tickets \cup {StatusRecord})]
    BY <1>11, <2>1 DEF WorkerGet
  <2>3. hand' \in [Backends -> Tickets \cup {StatusRecord, NoRecord}]
    BY <1>11, <2>1 DEF WorkerGet
  <2>4. QED
    BY <1>11, <2>2, <2>3 DEF WorkerGet
<1>12. ASSUME NEW b \in Backends, WorkerDone(b)  PROVE TypeOK'
  <2>1. PICK outcome \in {"written", "failed", "abandoned"} :
          (hand[b] # NoRecord /\ Finish(b, outcome)) \/ UNCHANGED <<unfinished, fate,
              hand>>
    BY <1>12 DEF WorkerDone, Finish, Handled
  <2>2. unfinished' \in [Backends -> Nat]
    BY <2>1 DEF Finish
  <2>3. fate' \in [Backends -> [Tickets -> Fates]]
    <3>1. outcome \in Fates
      OBVIOUS
    <3>2. CASE hand[b] \in Tickets /\ Finish(b, outcome)
      BY <3>1, <3>2, FateUpdate DEF Finish
    <3>3. CASE fate' = fate
      BY <3>3
    <3>4. QED
      BY <2>1, <3>2, <3>3 DEF Finish
  <2>4. hand' \in [Backends -> Tickets \cup {StatusRecord, NoRecord}]
    BY <2>1 DEF Finish
  <2>5. QED
    BY <1>12, <2>2, <2>3, <2>4 DEF WorkerDone, WorkerCancelled
<1>13. ASSUME NEW b \in Backends, WorkerExit(b)  PROVE TypeOK'
  BY <1>13 DEF WorkerExit
<1>14. ASSUME NEW b \in Backends, WorkerCancelled(b)  PROVE TypeOK'
  <2>1. PICK outcome \in {"written", "failed", "abandoned"} :
          (hand[b] # NoRecord /\ Finish(b, outcome)) \/ UNCHANGED <<unfinished, fate,
              hand>>
    BY <1>14 DEF WorkerCancelled, Finish
  <2>2. unfinished' \in [Backends -> Nat]
    BY <2>1 DEF Finish
  <2>3. fate' \in [Backends -> [Tickets -> Fates]]
    <3>1. outcome \in Fates
      OBVIOUS
    <3>2. CASE hand[b] \in Tickets /\ Finish(b, outcome)
      BY <3>1, <3>2, FateUpdate DEF Finish
    <3>3. CASE fate' = fate
      BY <3>3
    <3>4. QED
      BY <2>1, <3>2, <3>3 DEF Finish
  <2>4. hand' \in [Backends -> Tickets \cup {StatusRecord, NoRecord}]
    BY <2>1 DEF Finish
  <2>5. QED
    BY <1>14, <2>2, <2>3, <2>4 DEF WorkerDone, WorkerCancelled
<1>15. CASE StartCheck
  BY <1>15 DEF StartCheck
<1>16. CASE StartLoop
  BY <1>16 DEF StartLoop
<1>17. CASE StartIngress
  <2>1. cycle + 1 \in Cycles
    BY <1>17 DEF StartIngress
  <2>2. eventRef = None
    BY <1>17 DEF StartIngress
  <2>3. cycle' \in 0..MaxCycles /\ ref' \in {None, cycle'} /\ eventRef' \in {None, cycle'}
    BY <1>17, <2>1, <2>2 DEF StartIngress
  <2>4. QED
    BY <1>17, <2>3 DEF StartIngress
<1>18. CASE StartEvent
  BY <1>18 DEF StartEvent
<1>19. CASE StartFinish
  <2>1. worker' \in [Backends -> {"none", "idle", "busy", "cancelled", "done"}]
    BY <1>19 DEF StartFinish
  <2>2. QED
    BY <1>19, <2>1 DEF StartFinish
<1>20. CASE Close
  BY <1>20 DEF Close
<1>21. CASE StopBegin
  BY <1>21 DEF StopBegin
<1>22. CASE FlushBegin
  BY <1>22 DEF FlushBegin
<1>23. CASE FlushMove
  <2>0. ref \in Cycles /\ ingress[ref] # <<>>
    BY <1>23 DEF BridgeMove, FlushMove, MoveRecord
  <2>1. Head(ingress[ref]) \in Tickets /\ Tail(ingress[ref]) \in Seq(Tickets)
    BY <2>0, HeadTailProperties
  <2>2. FanOut(Head(ingress[ref]))
    BY <1>23 DEF BridgeMove, FlushMove, MoveRecord
  <2>3. /\ queue' \in [Backends -> Seq(Tickets \cup {StatusRecord})]
        /\ unfinished' \in [Backends -> Nat]
        /\ fate' \in [Backends -> [Tickets -> Fates]]
    BY <2>1, <2>2, FanOutTypes
  <2>4. ingress' \in [Cycles -> Seq(Tickets)]
    BY <1>23, <2>1 DEF BridgeMove, FlushMove, MoveRecord
  <2>5. QED
    BY <1>23, <2>3, <2>4 DEF BridgeMove, FlushMove, MoveRecord
<1>24. CASE FlushEnd
  BY <1>24 DEF FlushEnd
<1>25. ASSUME NEW b \in Backends, DrainCompleted(b)  PROVE TypeOK'
  BY <1>25 DEF DrainCompleted, Joined
<1>26. ASSUME NEW b \in Backends, DrainTimeout(b)  PROVE TypeOK'
  BY <1>26 DEF DrainTimeout
<1>27. CASE StopReport
  <2>1. \A b \in Backends : StatusCount(b) \in Nat
    BY StatusCountRoom
  <2>2. queue' \in [Backends -> Seq(Tickets \cup {StatusRecord})]
    BY <1>27, <2>1, StatusConcat DEF StopReport
  <2>3. unfinished' \in [Backends -> Nat]
    BY <1>27, <2>1 DEF StopReport
  <2>4. QED
    BY <1>27, <2>2, <2>3 DEF StopReport
<1>28. CASE StopTimeout
  BY <1>28 DEF StopTimeout
<1>29. CASE ClearQueues
  BY <1>29 DEF ClearQueues, Reaped, AfterClear, LeftOver
<1>30. CASE SweepRecord
  <2>1. ref \in Cycles /\ ingress[ref] # <<>>
    BY <1>30 DEF SweepRecord
  <2>2. Head(ingress[ref]) \in Tickets /\ Tail(ingress[ref]) \in Seq(Tickets)
    BY <2>1, HeadTailProperties
  <2>3. ingress' \in [Cycles -> Seq(Tickets)]
    BY <1>30, <2>2 DEF SweepRecord
  <2>4. fate' \in [Backends -> [Tickets -> Fates]]
    BY <1>30 DEF SweepRecord
  <2>5. QED
    BY <1>30, <2>3, <2>4 DEF SweepRecord
<1>31. CASE ReleaseLoop
  BY <1>31 DEF ReleaseLoop
<1>32. CASE ReleaseIngress
  BY <1>32 DEF ReleaseIngress
<1>33. CASE ReleaseEvent
  BY <1>33 DEF ReleaseEvent
<1>34. CASE Quiescent
  BY <1>34 DEF Quiescent
<1>35. CASE UNCHANGED vars
  BY <1>35
<1>36. QED
  BY <1>1, <1>2, <1>3, <1>4, <1>5, <1>6, <1>7, <1>8, <1>9, <1>10, <1>11, <1>12, <1>13,
     <1>14, <1>15, <1>16, <1>17, <1>18, <1>19, <1>20, <1>21, <1>22, <1>23, <1>24,
     <1>25, <1>26, <1>27, <1>28, <1>29, <1>30, <1>31, <1>32, <1>33, <1>34, <1>35
  DEF Next, EmitStep, BridgeStep, WorkerStep, StartStep, StopStep

\* The flags, the references and the bridge agree with the phase of the lifecycle.
LEMMA ControlStep ==
  ASSUME IInv, [Next]_vars
  PROVE  Control'
<1> USE SizesAssumption, ReportersAssumption
        DEF IInv, TypeOK, Control, Hands, Bounded, Admitted, Captured,
            UnfinishedBalanced, NoLostWakeup, Cycles, Tickets, None, NoRecord,
            StatusRecord, Fates, Handled, Stopped, Starting, Releasing, vars, flags,
            refs, wakeups, backends, stopping, emits, history
<1>1. ASSUME NEW e \in Emitters, EmitCheck(e)  PROVE Control'
  BY <1>1 DEF EmitCheck, At, Goto
<1>2. ASSUME NEW e \in Emitters, EmitReadIngress(e)  PROVE Control'
  BY <1>2 DEF EmitReadIngress, At, Goto
<1>3. ASSUME NEW e \in Emitters, EmitReadLoop(e)  PROVE Control'
  BY <1>3 DEF EmitReadLoop, At, Goto
<1>4. ASSUME NEW e \in Emitters, EmitReadEvent(e)  PROVE Control'
  BY <1>4 DEF EmitReadEvent, At, Goto
<1>5. ASSUME NEW e \in Emitters, EmitPut(e)  PROVE Control'
  <2>1. /\ cap[e].ingress \in Cycles /\ cap[e].ingress <= cycle
        /\ loop = "start_event" => cap[e].ingress < cycle
    BY <1>5 DEF EmitPut, At
  <2>2. ASSUME NEW c \in Cycles, c > cycle \/ (loop = "start_event" /\ c = cycle)
        PROVE  ingress'[c] = ingress[c]
    <3>1. c # cap[e].ingress
      BY <2>1, <2>2
    <3>2. QED
      BY <1>5, <3>1 DEF EmitPut, Enqueue
  <2>3. ASSUME NEW c \in Cycles, c > cycle
        PROVE  ingress'[c] = <<>>
    BY <2>2, <2>3
  <2>4. ASSUME loop = "start_event" PROVE ingress'[cycle] = <<>>
    <3>1. cycle \in Cycles
      BY <2>4
    <3>2. QED
      BY <2>2, <2>4, <3>1
  <2>5. UNCHANGED <<accept, running, cycle, refs, loop, bridge, stop>>
    BY <1>5 DEF EmitPut
  <2>6. QED
    BY <2>3, <2>4, <2>5
<1>6. ASSUME NEW e \in Emitters, EmitWake(e)  PROVE Control'
  BY <1>6 DEF EmitWake, At, Goto
<1>7. ASSUME NEW c \in Cycles, SetEvent(c)  PROVE Control'
  BY <1>7 DEF SetEvent
<1>8. CASE BridgeWake
  BY <1>8 DEF BridgeWake
<1>9. CASE BridgeMove
  BY <1>9 DEF BridgeMove, MoveRecord, FanOut, HasRoom
<1>10. CASE BridgeWait
  BY <1>10 DEF BridgeWait
<1>11. ASSUME NEW b \in Backends, WorkerGet(b)  PROVE Control'
  BY <1>11 DEF WorkerGet
<1>12. ASSUME NEW b \in Backends, WorkerDone(b)  PROVE Control'
  BY <1>12 DEF WorkerDone, Finish, Handled
<1>13. ASSUME NEW b \in Backends, WorkerExit(b)  PROVE Control'
  BY <1>13 DEF WorkerExit
<1>14. ASSUME NEW b \in Backends, WorkerCancelled(b)  PROVE Control'
  BY <1>14 DEF WorkerCancelled, Finish
<1>15. CASE StartCheck
  BY <1>15 DEF StartCheck
<1>16. CASE StartLoop
  BY <1>16 DEF StartLoop
<1>17. CASE StartIngress
  <2>1. /\ loop = "start_ingress" /\ loop' = "start_event"
        /\ cycle' = cycle + 1 /\ ref' = cycle + 1
        /\ UNCHANGED <<accept, running, hasLoop, eventRef, ingress, bridge, stop>>
    BY <1>17 DEF StartIngress
  <2>2. /\ cycle \in Nat /\ cycle + 1 \in Cycles /\ ingress[cycle + 1] = <<>>
    BY <2>1
  <2>3. \A c \in Cycles : c > cycle + 1 => ingress[c] = <<>>
    BY <2>2
  <2>4. QED
    BY <2>1, <2>2, <2>3
<1>18. CASE StartEvent
  BY <1>18 DEF StartEvent
<1>19. CASE StartFinish
  BY <1>19 DEF StartFinish
<1>20. CASE Close
  BY <1>20 DEF Close
<1>21. CASE StopBegin
  BY <1>21 DEF StopBegin
<1>22. CASE FlushBegin
  BY <1>22 DEF FlushBegin
<1>23. CASE FlushMove
  BY <1>23 DEF FlushMove, MoveRecord, FanOut, HasRoom
<1>24. CASE FlushEnd
  BY <1>24 DEF FlushEnd
<1>25. ASSUME NEW b \in Backends, DrainCompleted(b)  PROVE Control'
  BY <1>25 DEF DrainCompleted, Joined
<1>26. ASSUME NEW b \in Backends, DrainTimeout(b)  PROVE Control'
  BY <1>26 DEF DrainTimeout
<1>27. CASE StopReport
  BY <1>27 DEF StopReport, StatusCount
<1>28. CASE StopTimeout
  BY <1>28 DEF StopTimeout
<1>29. CASE ClearQueues
  BY <1>29 DEF ClearQueues, Reaped, AfterClear, LeftOver
<1>30. CASE SweepRecord
  <2>1. UNCHANGED <<accept, running, cycle, refs, loop, bridge, stop>>
    BY <1>30 DEF SweepRecord
  <2>2. loop = "tail"
    BY <1>30 DEF SweepRecord
  <2>3. ASSUME NEW c \in Cycles, c > cycle
        PROVE  ingress'[c] = <<>>
    BY <1>30, <2>3 DEF SweepRecord
  <2>4. QED
    BY <2>1, <2>2, <2>3
<1>31. CASE ReleaseLoop
  BY <1>31 DEF ReleaseLoop
<1>32. CASE ReleaseIngress
  BY <1>32 DEF ReleaseIngress
<1>33. CASE ReleaseEvent
  BY <1>33 DEF ReleaseEvent
<1>34. CASE Quiescent
  BY <1>34 DEF Quiescent
<1>35. CASE UNCHANGED vars
  BY <1>35
<1>36. QED
  BY <1>1, <1>2, <1>3, <1>4, <1>5, <1>6, <1>7, <1>8, <1>9, <1>10, <1>11, <1>12, <1>13,
     <1>14, <1>15, <1>16, <1>17, <1>18, <1>19, <1>20, <1>21, <1>22, <1>23, <1>24,
     <1>25, <1>26, <1>27, <1>28, <1>29, <1>30, <1>31, <1>32, <1>33, <1>34, <1>35
  DEF Next, EmitStep, BridgeStep, WorkerStep, StartStep, StopStep

\* A worker has a record in hand exactly while it processes one.
LEMMA HandsStep ==
  ASSUME IInv, [Next]_vars
  PROVE  Hands'
<1> USE SizesAssumption, ReportersAssumption
        DEF IInv, TypeOK, Control, Hands, Bounded, Admitted, Captured,
            UnfinishedBalanced, NoLostWakeup, Cycles, Tickets, None, NoRecord,
            StatusRecord, Fates, Handled, Stopped, Starting, Releasing, vars, flags,
            refs, wakeups, backends, stopping, emits, history
<1>1. ASSUME NEW e \in Emitters, EmitCheck(e)  PROVE Hands'
  BY <1>1 DEF EmitCheck, At, Goto
<1>2. ASSUME NEW e \in Emitters, EmitReadIngress(e)  PROVE Hands'
  BY <1>2 DEF EmitReadIngress, At, Goto
<1>3. ASSUME NEW e \in Emitters, EmitReadLoop(e)  PROVE Hands'
  BY <1>3 DEF EmitReadLoop, At, Goto
<1>4. ASSUME NEW e \in Emitters, EmitReadEvent(e)  PROVE Hands'
  BY <1>4 DEF EmitReadEvent, At, Goto
<1>5. ASSUME NEW e \in Emitters, EmitPut(e)  PROVE Hands'
  BY <1>5 DEF EmitPut, Enqueue, Goto, At
<1>6. ASSUME NEW e \in Emitters, EmitWake(e)  PROVE Hands'
  BY <1>6 DEF EmitWake, At, Goto
<1>7. ASSUME NEW c \in Cycles, SetEvent(c)  PROVE Hands'
  BY <1>7 DEF SetEvent
<1>8. CASE BridgeWake
  BY <1>8 DEF BridgeWake
<1>9. CASE BridgeMove
  BY <1>9 DEF BridgeMove, MoveRecord, FanOut, HasRoom
<1>10. CASE BridgeWait
  BY <1>10 DEF BridgeWait
<1>11. ASSUME NEW b \in Backends, WorkerGet(b)  PROVE Hands'
  <2>1. Head(queue[b]) \in Tickets \cup {StatusRecord}
    BY <1>11 DEF WorkerGet
  <2>2. ~Stopped
    BY <1>11 DEF WorkerGet
  <2>3. QED
    BY <1>11, <2>1, <2>2 DEF WorkerGet
<1>12. ASSUME NEW b \in Backends, WorkerDone(b)  PROVE Hands'
  BY <1>12 DEF WorkerDone, Finish, Handled
<1>13. ASSUME NEW b \in Backends, WorkerExit(b)  PROVE Hands'
  BY <1>13 DEF WorkerExit
<1>14. ASSUME NEW b \in Backends, WorkerCancelled(b)  PROVE Hands'
  BY <1>14 DEF WorkerCancelled, Finish
<1>15. CASE StartCheck
  BY <1>15 DEF StartCheck
<1>16. CASE StartLoop
  BY <1>16 DEF StartLoop
<1>17. CASE StartIngress
  BY <1>17 DEF StartIngress
<1>18. CASE StartEvent
  BY <1>18 DEF StartEvent
<1>19. CASE StartFinish
  BY <1>19 DEF StartFinish
<1>20. CASE Close
  BY <1>20 DEF Close
<1>21. CASE StopBegin
  BY <1>21 DEF StopBegin
<1>22. CASE FlushBegin
  BY <1>22 DEF FlushBegin
<1>23. CASE FlushMove
  BY <1>23 DEF FlushMove, MoveRecord, FanOut, HasRoom
<1>24. CASE FlushEnd
  BY <1>24 DEF FlushEnd
<1>25. ASSUME NEW b \in Backends, DrainCompleted(b)  PROVE Hands'
  BY <1>25 DEF DrainCompleted, Joined
<1>26. ASSUME NEW b \in Backends, DrainTimeout(b)  PROVE Hands'
  BY <1>26 DEF DrainTimeout
<1>27. CASE StopReport
  BY <1>27 DEF StopReport, StatusCount
<1>28. CASE StopTimeout
  BY <1>28 DEF StopTimeout
<1>29. CASE ClearQueues
  BY <1>29 DEF ClearQueues, Reaped, AfterClear, LeftOver
<1>30. CASE SweepRecord
  BY <1>30 DEF SweepRecord
<1>31. CASE ReleaseLoop
  BY <1>31 DEF ReleaseLoop
<1>32. CASE ReleaseIngress
  BY <1>32 DEF ReleaseIngress
<1>33. CASE ReleaseEvent
  BY <1>33 DEF ReleaseEvent
<1>34. CASE Quiescent
  BY <1>34 DEF Quiescent
<1>35. CASE UNCHANGED vars
  BY <1>35
<1>36. QED
  BY <1>1, <1>2, <1>3, <1>4, <1>5, <1>6, <1>7, <1>8, <1>9, <1>10, <1>11, <1>12, <1>13,
     <1>14, <1>15, <1>16, <1>17, <1>18, <1>19, <1>20, <1>21, <1>22, <1>23, <1>24,
     <1>25, <1>26, <1>27, <1>28, <1>29, <1>30, <1>31, <1>32, <1>33, <1>34, <1>35
  DEF Next, EmitStep, BridgeStep, WorkerStep, StartStep, StopStep

\* An emit() holds references of its own or an older cycle, the event no older
\* than the ingress.
LEMMA CapturedStep ==
  ASSUME IInv, [Next]_vars
  PROVE  Captured'
<1> USE SizesAssumption, ReportersAssumption
        DEF IInv, TypeOK, Control, Hands, Bounded, Admitted, Captured,
            UnfinishedBalanced, NoLostWakeup, Cycles, Tickets, None, NoRecord,
            StatusRecord, Fates, Handled, Stopped, Starting, Releasing, vars, flags,
            refs, wakeups, backends, stopping, emits, history
<1>1. ASSUME NEW e \in Emitters, EmitCheck(e)  PROVE Captured'
  BY <1>1 DEF EmitCheck, At, Goto
<1>2. ASSUME NEW e \in Emitters, EmitReadIngress(e)  PROVE Captured'
  BY <1>2 DEF EmitReadIngress, At, Goto
<1>3. ASSUME NEW e \in Emitters, EmitReadLoop(e)  PROVE Captured'
  BY <1>3 DEF EmitReadLoop, At, Goto
<1>4. ASSUME NEW e \in Emitters, EmitReadEvent(e)  PROVE Captured'
  <2>1. eventRef # None => eventRef = cycle /\ loop # "start_event"
    BY <1>4 DEF EmitReadEvent, At
  <2>2. cap'[e].ingress = cap[e].ingress /\ cap'[e].event = eventRef
    BY <1>4 DEF EmitReadEvent
  <2>3. cap[e].ingress \in Cycles /\ cap[e].ingress <= cycle
    BY <1>4 DEF EmitReadEvent, At
  <2>4. UNCHANGED <<cycle, loop>>
    BY <1>4 DEF EmitReadEvent
  <2>5. pc'[e] = IF eventRef = None THEN "idle" ELSE "put"
    BY <1>4 DEF EmitReadEvent, Goto
  <2>6. ASSUME NEW x \in Emitters, x # e
        PROVE  cap'[x] = cap[x] /\ pc'[x] = pc[x]
    BY <1>4, <2>6 DEF EmitReadEvent, Goto
  <2>7. /\ cap'[e].ingress <= cycle' /\ cap'[e].event <= cycle'
        /\ pc'[e] \in {"loop", "event", "put", "wake"} => cap'[e].ingress \in Cycles
        /\ pc'[e] \in {"put", "wake"} =>
             /\ cap'[e].ingress <= cap'[e].event
             /\ loop' = "start_event" => cap'[e].event < cycle'
    BY <2>1, <2>2, <2>3, <2>4, <2>5
  <2>8. QED
    BY <2>4, <2>6, <2>7
<1>5. ASSUME NEW e \in Emitters, EmitPut(e)  PROVE Captured'
  BY <1>5 DEF EmitPut, Enqueue, Goto, At
<1>6. ASSUME NEW e \in Emitters, EmitWake(e)  PROVE Captured'
  BY <1>6 DEF EmitWake, At, Goto
<1>7. ASSUME NEW c \in Cycles, SetEvent(c)  PROVE Captured'
  BY <1>7 DEF SetEvent
<1>8. CASE BridgeWake
  BY <1>8 DEF BridgeWake
<1>9. CASE BridgeMove
  BY <1>9 DEF BridgeMove, MoveRecord, FanOut, HasRoom
<1>10. CASE BridgeWait
  BY <1>10 DEF BridgeWait
<1>11. ASSUME NEW b \in Backends, WorkerGet(b)  PROVE Captured'
  BY <1>11 DEF WorkerGet
<1>12. ASSUME NEW b \in Backends, WorkerDone(b)  PROVE Captured'
  BY <1>12 DEF WorkerDone, Finish, Handled
<1>13. ASSUME NEW b \in Backends, WorkerExit(b)  PROVE Captured'
  BY <1>13 DEF WorkerExit
<1>14. ASSUME NEW b \in Backends, WorkerCancelled(b)  PROVE Captured'
  BY <1>14 DEF WorkerCancelled, Finish
<1>15. CASE StartCheck
  BY <1>15 DEF StartCheck
<1>16. CASE StartLoop
  BY <1>16 DEF StartLoop
<1>17. CASE StartIngress
  <2>1. cycle' = cycle + 1 /\ cycle \in Nat
    BY <1>17 DEF StartIngress
  <2>2. UNCHANGED <<pc, cap>>
    BY <1>17 DEF StartIngress
  <2>3. ASSUME NEW e \in Emitters
        PROVE  cap[e].ingress <= cycle + 1 /\ cap[e].event < cycle + 1
    <3>1. cap[e].ingress \in Nat /\ cap[e].event \in Nat
      OBVIOUS
    <3>2. cap[e].ingress <= cycle /\ cap[e].event <= cycle
      OBVIOUS
    <3> HIDE DEF IInv
    <3>3. QED
      BY <2>1, <3>1, <3>2
  <2>4. ASSUME NEW e \in Emitters
        PROVE  cap[e].ingress <= cycle + 1 /\ cap[e].event <= cycle + 1
    <3>1. cap[e].event \in Nat
      OBVIOUS
    <3> HIDE DEF IInv
    <3>2. QED
      BY <2>1, <2>3, <3>1
  <2>5. QED
    BY <2>1, <2>2, <2>3, <2>4
<1>18. CASE StartEvent
  BY <1>18 DEF StartEvent
<1>19. CASE StartFinish
  BY <1>19 DEF StartFinish
<1>20. CASE Close
  BY <1>20 DEF Close
<1>21. CASE StopBegin
  BY <1>21 DEF StopBegin
<1>22. CASE FlushBegin
  BY <1>22 DEF FlushBegin
<1>23. CASE FlushMove
  BY <1>23 DEF FlushMove, MoveRecord, FanOut, HasRoom
<1>24. CASE FlushEnd
  BY <1>24 DEF FlushEnd
<1>25. ASSUME NEW b \in Backends, DrainCompleted(b)  PROVE Captured'
  BY <1>25 DEF DrainCompleted, Joined
<1>26. ASSUME NEW b \in Backends, DrainTimeout(b)  PROVE Captured'
  BY <1>26 DEF DrainTimeout
<1>27. CASE StopReport
  BY <1>27 DEF StopReport, StatusCount
<1>28. CASE StopTimeout
  BY <1>28 DEF StopTimeout
<1>29. CASE ClearQueues
  BY <1>29 DEF ClearQueues, Reaped, AfterClear, LeftOver
<1>30. CASE SweepRecord
  BY <1>30 DEF SweepRecord
<1>31. CASE ReleaseLoop
  BY <1>31 DEF ReleaseLoop
<1>32. CASE ReleaseIngress
  BY <1>32 DEF ReleaseIngress
<1>33. CASE ReleaseEvent
  BY <1>33 DEF ReleaseEvent
<1>34. CASE Quiescent
  BY <1>34 DEF Quiescent
<1>35. CASE UNCHANGED vars
  BY <1>35
<1>36. QED
  BY <1>1, <1>2, <1>3, <1>4, <1>5, <1>6, <1>7, <1>8, <1>9, <1>10, <1>11, <1>12, <1>13,
     <1>14, <1>15, <1>16, <1>17, <1>18, <1>19, <1>20, <1>21, <1>22, <1>23, <1>24,
     <1>25, <1>26, <1>27, <1>28, <1>29, <1>30, <1>31, <1>32, <1>33, <1>34, <1>35
  DEF Next, EmitStep, BridgeStep, WorkerStep, StartStep, StopStep

\* The queues stay within their bounds.
LEMMA BoundedStep ==
  ASSUME IInv, [Next]_vars
  PROVE  Bounded'
<1> USE SizesAssumption, ReportersAssumption
        DEF IInv, TypeOK, Bounded, Cycles, Tickets, None, NoRecord, StatusRecord, Fates,
            Handled, Stopped, Starting, Releasing, vars, flags, refs, wakeups, backends,
            stopping, emits, history
<1>1. ASSUME NEW e \in Emitters, EmitCheck(e)  PROVE Bounded'
  BY <1>1 DEF EmitCheck, At, Goto
<1>2. ASSUME NEW e \in Emitters, EmitReadIngress(e)  PROVE Bounded'
  BY <1>2 DEF EmitReadIngress, At, Goto
<1>3. ASSUME NEW e \in Emitters, EmitReadLoop(e)  PROVE Bounded'
  BY <1>3 DEF EmitReadLoop, At, Goto
<1>4. ASSUME NEW e \in Emitters, EmitReadEvent(e)  PROVE Bounded'
  BY <1>4 DEF EmitReadEvent, At, Goto
<1>5. ASSUME NEW e \in Emitters, EmitPut(e)  PROVE Bounded'
  <2>1. cap[e].ingress \in Cycles
    BY <1>5 DEF EmitPut, At, Captured
  <2>2. ASSUME NEW c \in Cycles
        PROVE  Len(ingress'[c]) <= QueueMaxsize
    <3>1. CASE c = cap[e].ingress /\ Len(ingress[c]) < QueueMaxsize /\ Enqueue(c)
      <4>1. ingress'[c] = Append(ingress[c], tickets + 1)
        BY <2>1, <3>1 DEF Enqueue
      <4>2. ingress[c] \in Seq(Tickets)
        OBVIOUS
      <4>3. Len(ingress'[c]) = Len(ingress[c]) + 1 /\ Len(ingress[c]) \in Nat
        BY <4>1, <4>2
      <4>4. QED
        BY <3>1, <4>3
    <3>2. CASE ingress'[c] = ingress[c]
      BY <3>2
    <3>3. QED
      BY <1>5, <2>1, <3>1, <3>2 DEF EmitPut, Enqueue
  <2>3. QED
    BY <1>5, <2>2 DEF EmitPut
<1>6. ASSUME NEW e \in Emitters, EmitWake(e)  PROVE Bounded'
  BY <1>6 DEF EmitWake, At, Goto
<1>7. ASSUME NEW c \in Cycles, SetEvent(c)  PROVE Bounded'
  BY <1>7 DEF SetEvent
<1>8. CASE BridgeWake
  BY <1>8 DEF BridgeWake
<1>9. CASE BridgeMove
  <2>1. ref \in Cycles /\ ingress[ref] # <<>>
    BY <1>9 DEF BridgeMove, FlushMove, MoveRecord, Control
  <2>2. ASSUME NEW b \in Backends
        PROVE  Len(queue'[b]) <= QueueMaxsize
    BY <1>9 DEF BridgeMove, FlushMove, MoveRecord, FanOut, HasRoom
  <2>3. ASSUME NEW c \in Cycles
        PROVE  Len(ingress'[c]) <= QueueMaxsize
    <3>1. CASE c = ref
      <4>1. Len(Tail(ingress[ref])) <= Len(ingress[ref])
        BY <2>1, HeadTailProperties, LenProperties
      <4>2. QED
        BY <1>9, <2>1, <3>1, <4>1, LenProperties, HeadTailProperties DEF BridgeMove,
            FlushMove, MoveRecord
    <3>2. CASE c # ref
      BY <1>9, <3>2 DEF BridgeMove, FlushMove, MoveRecord
    <3>3. QED
      BY <3>1, <3>2
  <2>4. QED
    BY <2>2, <2>3
<1>10. CASE BridgeWait
  BY <1>10 DEF BridgeWait
<1>11. ASSUME NEW b \in Backends, WorkerGet(b)  PROVE Bounded'
  BY <1>11 DEF WorkerGet
<1>12. ASSUME NEW b \in Backends, WorkerDone(b)  PROVE Bounded'
  BY <1>12 DEF WorkerDone, Finish, Handled
<1>13. ASSUME NEW b \in Backends, WorkerExit(b)  PROVE Bounded'
  BY <1>13 DEF WorkerExit
<1>14. ASSUME NEW b \in Backends, WorkerCancelled(b)  PROVE Bounded'
  BY <1>14 DEF WorkerCancelled, Finish
<1>15. CASE StartCheck
  BY <1>15 DEF StartCheck
<1>16. CASE StartLoop
  BY <1>16 DEF StartLoop
<1>17. CASE StartIngress
  BY <1>17 DEF StartIngress
<1>18. CASE StartEvent
  BY <1>18 DEF StartEvent
<1>19. CASE StartFinish
  BY <1>19 DEF StartFinish
<1>20. CASE Close
  BY <1>20 DEF Close
<1>21. CASE StopBegin
  BY <1>21 DEF StopBegin
<1>22. CASE FlushBegin
  BY <1>22 DEF FlushBegin
<1>23. CASE FlushMove
  <2>1. ref \in Cycles /\ ingress[ref] # <<>>
    BY <1>23 DEF BridgeMove, FlushMove, MoveRecord, Control
  <2>2. ASSUME NEW b \in Backends
        PROVE  Len(queue'[b]) <= QueueMaxsize
    BY <1>23 DEF BridgeMove, FlushMove, MoveRecord, FanOut, HasRoom
  <2>3. ASSUME NEW c \in Cycles
        PROVE  Len(ingress'[c]) <= QueueMaxsize
    <3>1. CASE c = ref
      <4>1. Len(Tail(ingress[ref])) <= Len(ingress[ref])
        BY <2>1, HeadTailProperties, LenProperties
      <4>2. QED
        BY <1>23, <2>1, <3>1, <4>1, LenProperties, HeadTailProperties DEF BridgeMove,
            FlushMove, MoveRecord
    <3>2. CASE c # ref
      BY <1>23, <3>2 DEF BridgeMove, FlushMove, MoveRecord
    <3>3. QED
      BY <3>1, <3>2
  <2>4. QED
    BY <2>2, <2>3
<1>24. CASE FlushEnd
  BY <1>24 DEF FlushEnd
<1>25. ASSUME NEW b \in Backends, DrainCompleted(b)  PROVE Bounded'
  BY <1>25 DEF DrainCompleted, Joined
<1>26. ASSUME NEW b \in Backends, DrainTimeout(b)  PROVE Bounded'
  BY <1>26 DEF DrainTimeout
<1>27. CASE StopReport
  <2>1. ASSUME NEW b \in Backends
        PROVE  Len(queue'[b]) <= QueueMaxsize
    <3>1. StatusCount(b) \in Nat /\ StatusCount(b) <= QueueMaxsize - Len(queue[b])
      BY StatusCountRoom
    <3>2. queue'[b] = queue[b] \o [i \in 1..StatusCount(b) |-> StatusRecord]
      BY <1>27 DEF StopReport
    <3>3. Len(queue'[b]) = Len(queue[b]) + StatusCount(b)
      BY <3>1, <3>2, StatusConcat
    <3>4. QED
      BY <3>1, <3>3
  <2>2. QED
    BY <1>27, <2>1 DEF StopReport
<1>28. CASE StopTimeout
  BY <1>28 DEF StopTimeout
<1>29. CASE ClearQueues
  BY <1>29 DEF ClearQueues, Reaped, AfterClear, LeftOver
<1>30. CASE SweepRecord
  <2>1. ref \in Cycles /\ ingress[ref] # <<>>
    BY <1>30 DEF SweepRecord, Control
  <2>2. ASSUME NEW c \in Cycles
        PROVE  Len(ingress'[c]) <= QueueMaxsize
    <3>1. CASE c = ref
      <4>1. Len(Tail(ingress[ref])) <= Len(ingress[ref])
        BY <2>1, HeadTailProperties, LenProperties
      <4>2. QED
        BY <1>30, <2>1, <3>1, <4>1, LenProperties, HeadTailProperties DEF SweepRecord
    <3>2. CASE c # ref
      BY <1>30, <3>2 DEF SweepRecord
    <3>3. QED
      BY <3>1, <3>2
  <2>3. QED
    BY <1>30, <2>2 DEF SweepRecord
<1>31. CASE ReleaseLoop
  BY <1>31 DEF ReleaseLoop
<1>32. CASE ReleaseIngress
  BY <1>32 DEF ReleaseIngress
<1>33. CASE ReleaseEvent
  BY <1>33 DEF ReleaseEvent
<1>34. CASE Quiescent
  BY <1>34 DEF Quiescent
<1>35. CASE UNCHANGED vars
  BY <1>35
<1>36. QED
  BY <1>1, <1>2, <1>3, <1>4, <1>5, <1>6, <1>7, <1>8, <1>9, <1>10, <1>11, <1>12, <1>13,
     <1>14, <1>15, <1>16, <1>17, <1>18, <1>19, <1>20, <1>21, <1>22, <1>23, <1>24,
     <1>25, <1>26, <1>27, <1>28, <1>29, <1>30, <1>31, <1>32, <1>33, <1>34, <1>35
  DEF Next, EmitStep, BridgeStep, WorkerStep, StartStep, StopStep

\* Every admitted emit() keeps its ticket.
LEMMA AdmittedStep ==
  ASSUME IInv, [Next]_vars
  PROVE  Admitted'
<1> USE SizesAssumption, ReportersAssumption
        DEF IInv, TypeOK, Admitted, Cycles, Tickets, None, NoRecord, StatusRecord,
            Fates, Handled, Stopped, Starting, Releasing, vars, flags, refs, wakeups,
            backends, stopping, emits, history
<1>1. ASSUME NEW e \in Emitters, EmitCheck(e)  PROVE Admitted'
  <2>1. InFlight' = InFlight \cup {e} /\ UNCHANGED tickets
    BY <1>1 DEF EmitCheck, At, Goto, InFlight, Reading
  <2>2. e \notin InFlight
    BY <1>1 DEF EmitCheck, At, InFlight, Reading
  <2>3. Cardinality(InFlight') = Cardinality(InFlight) + 1
    BY <2>1, <2>2, InFlightCount, FS_AddElement
  <2>4. tickets + Cardinality(InFlight) < MaxTickets
    BY <1>1 DEF EmitCheck
  <2>5. QED
    BY <2>1, <2>3, <2>4, InFlightCount
<1>2. ASSUME NEW e \in Emitters, EmitReadIngress(e)  PROVE Admitted'
  <2>1. CASE Goto(e, "idle")
    <3>1. InFlight' = InFlight \ {e} /\ e \in InFlight
      BY <1>2, <2>1 DEF EmitReadIngress, At, Goto, InFlight, Reading
    <3>2. Cardinality(InFlight') = Cardinality(InFlight) - 1
      BY <3>1, InFlightCount, FS_RemoveElement
    <3>3. QED
      BY <1>2, <2>1, <3>2, InFlightCount DEF EmitReadIngress
  <2>2. CASE Goto(e, "loop")
    <3>1. InFlight' = InFlight
      BY <1>2, <2>2 DEF EmitReadIngress, At, Goto, InFlight, Reading
    <3>2. QED
      BY <1>2, <3>1 DEF EmitReadIngress
  <2>3. QED
    BY <1>2, <2>1, <2>2 DEF EmitReadIngress
<1>3. ASSUME NEW e \in Emitters, EmitReadLoop(e)  PROVE Admitted'
  <2>1. CASE Goto(e, "idle")
    <3>1. InFlight' = InFlight \ {e} /\ e \in InFlight
      BY <1>3, <2>1 DEF EmitReadLoop, At, Goto, InFlight, Reading
    <3>2. Cardinality(InFlight') = Cardinality(InFlight) - 1
      BY <3>1, InFlightCount, FS_RemoveElement
    <3>3. QED
      BY <1>3, <2>1, <3>2, InFlightCount DEF EmitReadLoop
  <2>2. CASE Goto(e, "event")
    <3>1. InFlight' = InFlight
      BY <1>3, <2>2 DEF EmitReadLoop, At, Goto, InFlight, Reading
    <3>2. QED
      BY <1>3, <3>1 DEF EmitReadLoop
  <2>3. QED
    BY <1>3, <2>1, <2>2 DEF EmitReadLoop
<1>4. ASSUME NEW e \in Emitters, EmitReadEvent(e)  PROVE Admitted'
  <2>1. CASE Goto(e, "idle")
    <3>1. InFlight' = InFlight \ {e} /\ e \in InFlight
      BY <1>4, <2>1 DEF EmitReadEvent, At, Goto, InFlight, Reading
    <3>2. Cardinality(InFlight') = Cardinality(InFlight) - 1
      BY <3>1, InFlightCount, FS_RemoveElement
    <3>3. QED
      BY <1>4, <2>1, <3>2, InFlightCount DEF EmitReadEvent
  <2>2. CASE Goto(e, "put")
    <3>1. InFlight' = InFlight
      BY <1>4, <2>2 DEF EmitReadEvent, At, Goto, InFlight, Reading
    <3>2. QED
      BY <1>4, <3>1 DEF EmitReadEvent
  <2>3. QED
    BY <1>4, <2>1, <2>2 DEF EmitReadEvent
<1>5. ASSUME NEW e \in Emitters, EmitPut(e)  PROVE Admitted'
  <2>1. CASE Goto(e, "wake") /\ tickets' = tickets + 1
    <3>1. InFlight' = InFlight \ {e} /\ e \in InFlight
      BY <1>5, <2>1 DEF EmitReadEvent, EmitPut, At, Goto, InFlight, Reading
    <3>2. Cardinality(InFlight') = Cardinality(InFlight) - 1
      BY <3>1, InFlightCount, FS_RemoveElement
    <3>3. QED
      BY <1>5, <2>1, <3>2, InFlightCount DEF EmitReadEvent, EmitPut, Enqueue
  <2>2. CASE Goto(e, "idle") /\ tickets' = tickets
    <3>1. InFlight' = InFlight \ {e} /\ e \in InFlight
      BY <1>5, <2>2 DEF EmitReadEvent, EmitPut, At, Goto, InFlight, Reading
    <3>2. Cardinality(InFlight') = Cardinality(InFlight) - 1
      BY <3>1, InFlightCount, FS_RemoveElement
    <3>3. QED
      BY <1>5, <2>2, <3>2, InFlightCount DEF EmitReadEvent, EmitPut, Enqueue
  <2>3. QED
    BY <1>5, <2>1, <2>2 DEF EmitPut, Enqueue
<1>6. ASSUME NEW e \in Emitters, EmitWake(e)  PROVE Admitted'
  BY <1>6 DEF EmitWake, At, Goto, InFlight, Reading
<1>7. ASSUME NEW c \in Cycles, SetEvent(c)  PROVE Admitted'
  BY <1>7 DEF SetEvent, InFlight, Reading
<1>8. CASE BridgeWake
  BY <1>8 DEF BridgeWake, InFlight, Reading
<1>9. CASE BridgeMove
  BY <1>9 DEF BridgeMove, MoveRecord, FanOut, HasRoom, InFlight, Reading
<1>10. CASE BridgeWait
  BY <1>10 DEF BridgeWait, InFlight, Reading
<1>11. ASSUME NEW b \in Backends, WorkerGet(b)  PROVE Admitted'
  BY <1>11 DEF WorkerGet, InFlight, Reading
<1>12. ASSUME NEW b \in Backends, WorkerDone(b)  PROVE Admitted'
  BY <1>12 DEF WorkerDone, Finish, Handled, InFlight, Reading
<1>13. ASSUME NEW b \in Backends, WorkerExit(b)  PROVE Admitted'
  BY <1>13 DEF WorkerExit, InFlight, Reading
<1>14. ASSUME NEW b \in Backends, WorkerCancelled(b)  PROVE Admitted'
  BY <1>14 DEF WorkerCancelled, Finish, InFlight, Reading
<1>15. CASE StartCheck
  BY <1>15 DEF StartCheck, InFlight, Reading
<1>16. CASE StartLoop
  BY <1>16 DEF StartLoop, InFlight, Reading
<1>17. CASE StartIngress
  BY <1>17 DEF StartIngress, InFlight, Reading
<1>18. CASE StartEvent
  BY <1>18 DEF StartEvent, InFlight, Reading
<1>19. CASE StartFinish
  BY <1>19 DEF StartFinish, InFlight, Reading
<1>20. CASE Close
  BY <1>20 DEF Close, InFlight, Reading
<1>21. CASE StopBegin
  BY <1>21 DEF StopBegin, InFlight, Reading
<1>22. CASE FlushBegin
  BY <1>22 DEF FlushBegin, InFlight, Reading
<1>23. CASE FlushMove
  BY <1>23 DEF FlushMove, MoveRecord, FanOut, HasRoom, InFlight, Reading
<1>24. CASE FlushEnd
  BY <1>24 DEF FlushEnd, InFlight, Reading
<1>25. ASSUME NEW b \in Backends, DrainCompleted(b)  PROVE Admitted'
  BY <1>25 DEF DrainCompleted, Joined, InFlight, Reading
<1>26. ASSUME NEW b \in Backends, DrainTimeout(b)  PROVE Admitted'
  BY <1>26 DEF DrainTimeout, InFlight, Reading
<1>27. CASE StopReport
  BY <1>27 DEF StopReport, StatusCount, InFlight, Reading
<1>28. CASE StopTimeout
  BY <1>28 DEF StopTimeout, InFlight, Reading
<1>29. CASE ClearQueues
  BY <1>29 DEF ClearQueues, Reaped, AfterClear, LeftOver, InFlight, Reading
<1>30. CASE SweepRecord
  BY <1>30 DEF SweepRecord, InFlight, Reading
<1>31. CASE ReleaseLoop
  BY <1>31 DEF ReleaseLoop, InFlight, Reading
<1>32. CASE ReleaseIngress
  BY <1>32 DEF ReleaseIngress, InFlight, Reading
<1>33. CASE ReleaseEvent
  BY <1>33 DEF ReleaseEvent, InFlight, Reading
<1>34. CASE Quiescent
  BY <1>34 DEF Quiescent, InFlight, Reading
<1>35. CASE UNCHANGED vars
  BY <1>35 DEF InFlight, Reading
<1>36. QED
  BY <1>1, <1>2, <1>3, <1>4, <1>5, <1>6, <1>7, <1>8, <1>9, <1>10, <1>11, <1>12, <1>13,
     <1>14, <1>15, <1>16, <1>17, <1>18, <1>19, <1>20, <1>21, <1>22, <1>23, <1>24,
     <1>25, <1>26, <1>27, <1>28, <1>29, <1>30, <1>31, <1>32, <1>33, <1>34, <1>35
  DEF Next, EmitStep, BridgeStep, WorkerStep, StartStep, StopStep

\* The count of unfinished records stays balanced.
LEMMA UnfinishedBalancedStep ==
  ASSUME IInv, [Next]_vars
  PROVE  UnfinishedBalanced'
<1> USE SizesAssumption, ReportersAssumption
        DEF IInv, TypeOK, UnfinishedBalanced, Hands, Cycles, Tickets, None, NoRecord,
            StatusRecord, Fates, Handled, Stopped, Starting, Releasing, vars, flags,
            refs, wakeups, backends, stopping, emits, history
<1>1. ASSUME NEW e \in Emitters, EmitCheck(e)  PROVE UnfinishedBalanced'
  BY <1>1 DEF EmitCheck, At, Goto
<1>2. ASSUME NEW e \in Emitters, EmitReadIngress(e)  PROVE UnfinishedBalanced'
  BY <1>2 DEF EmitReadIngress, At, Goto
<1>3. ASSUME NEW e \in Emitters, EmitReadLoop(e)  PROVE UnfinishedBalanced'
  BY <1>3 DEF EmitReadLoop, At, Goto
<1>4. ASSUME NEW e \in Emitters, EmitReadEvent(e)  PROVE UnfinishedBalanced'
  BY <1>4 DEF EmitReadEvent, At, Goto
<1>5. ASSUME NEW e \in Emitters, EmitPut(e)  PROVE UnfinishedBalanced'
  BY <1>5 DEF EmitPut, Enqueue, Goto, At
<1>6. ASSUME NEW e \in Emitters, EmitWake(e)  PROVE UnfinishedBalanced'
  BY <1>6 DEF EmitWake, At, Goto
<1>7. ASSUME NEW c \in Cycles, SetEvent(c)  PROVE UnfinishedBalanced'
  BY <1>7 DEF SetEvent
<1>8. CASE BridgeWake
  BY <1>8 DEF BridgeWake
<1>9. CASE BridgeMove
  <2>1. Head(ingress[ref]) \in Tickets
    BY <1>9, HeadTailProperties DEF BridgeMove, FlushMove, MoveRecord
  <2>2. FanOut(Head(ingress[ref])) /\ UNCHANGED hand
    BY <1>9 DEF BridgeMove, FlushMove, MoveRecord
  <2>3. QED
    BY <2>1, <2>2, FanOutBalanced
<1>10. CASE BridgeWait
  BY <1>10 DEF BridgeWait
<1>11. ASSUME NEW b \in Backends, WorkerGet(b)  PROVE UnfinishedBalanced'
  <2>1. /\ queue[b] \in Seq(Tickets \cup {StatusRecord}) /\ queue[b] # <<>>
        /\ hand[b] = NoRecord
    BY <1>11 DEF WorkerGet
  <2>2. Len(Tail(queue[b])) = Len(queue[b]) - 1 /\ Head(queue[b]) \in Tickets \cup {StatusRecord}
    BY <2>1, HeadTailProperties
  <2>3. ASSUME NEW x \in Backends
        PROVE  unfinished'[x] = Len(queue'[x]) + (IF hand'[x] = NoRecord THEN 0 ELSE 1)
    <3>1. Len(queue[x]) \in Nat
      OBVIOUS
    <3>2. unfinished[x] = Len(queue[x]) + (IF hand[x] = NoRecord THEN 0 ELSE 1)
      OBVIOUS
    <3>3. CASE x = b
      BY <1>11, <2>1, <2>2, <3>1, <3>2, <3>3 DEF WorkerGet
    <3>4. CASE x # b
      BY <1>11, <3>2, <3>4 DEF WorkerGet
    <3>5. QED
      BY <3>3, <3>4
  <2>4. QED
    BY <2>3
<1>12. ASSUME NEW b \in Backends, WorkerDone(b)  PROVE UnfinishedBalanced'
  <2>1. UNCHANGED queue
    BY <1>12 DEF WorkerDone, WorkerCancelled
  <2>2. \/ UNCHANGED <<unfinished, hand>>
        \/ /\ hand[b] # NoRecord
           /\ unfinished' = [unfinished EXCEPT ![b] = @ - 1]
           /\ hand' = [hand EXCEPT ![b] = NoRecord]
    BY <1>12 DEF WorkerDone, Finish, Handled
  <2>3. ASSUME NEW x \in Backends
        PROVE  unfinished'[x] = Len(queue'[x]) + (IF hand'[x] = NoRecord THEN 0 ELSE 1)
    <3>1. Len(queue[x]) \in Nat
      OBVIOUS
    <3>2. unfinished[x] = Len(queue[x]) + (IF hand[x] = NoRecord THEN 0 ELSE 1)
      OBVIOUS
    <3>3. CASE x = b
      BY <2>1, <2>2, <3>1, <3>2, <3>3
    <3>4. CASE x # b
      BY <2>1, <2>2, <3>2, <3>4
    <3>5. QED
      BY <3>3, <3>4
  <2>4. QED
    BY <2>3
<1>13. ASSUME NEW b \in Backends, WorkerExit(b)  PROVE UnfinishedBalanced'
  BY <1>13 DEF WorkerExit
<1>14. ASSUME NEW b \in Backends, WorkerCancelled(b)  PROVE UnfinishedBalanced'
  <2>1. UNCHANGED queue
    BY <1>14 DEF WorkerDone, WorkerCancelled
  <2>2. \/ UNCHANGED <<unfinished, hand>>
        \/ /\ hand[b] # NoRecord
           /\ unfinished' = [unfinished EXCEPT ![b] = @ - 1]
           /\ hand' = [hand EXCEPT ![b] = NoRecord]
    BY <1>14 DEF WorkerCancelled, Finish
  <2>3. ASSUME NEW x \in Backends
        PROVE  unfinished'[x] = Len(queue'[x]) + (IF hand'[x] = NoRecord THEN 0 ELSE 1)
    <3>1. Len(queue[x]) \in Nat
      OBVIOUS
    <3>2. unfinished[x] = Len(queue[x]) + (IF hand[x] = NoRecord THEN 0 ELSE 1)
      OBVIOUS
    <3>3. CASE x = b
      BY <2>1, <2>2, <3>1, <3>2, <3>3
    <3>4. CASE x # b
      BY <2>1, <2>2, <3>2, <3>4
    <3>5. QED
      BY <3>3, <3>4
  <2>4. QED
    BY <2>3
<1>15. CASE StartCheck
  BY <1>15 DEF StartCheck
<1>16. CASE StartLoop
  BY <1>16 DEF StartLoop
<1>17. CASE StartIngress
  BY <1>17 DEF StartIngress
<1>18. CASE StartEvent
  BY <1>18 DEF StartEvent
<1>19. CASE StartFinish
  BY <1>19 DEF StartFinish
<1>20. CASE Close
  BY <1>20 DEF Close
<1>21. CASE StopBegin
  BY <1>21 DEF StopBegin
<1>22. CASE FlushBegin
  BY <1>22 DEF FlushBegin
<1>23. CASE FlushMove
  <2>1. Head(ingress[ref]) \in Tickets
    BY <1>23, HeadTailProperties DEF BridgeMove, FlushMove, MoveRecord
  <2>2. FanOut(Head(ingress[ref])) /\ UNCHANGED hand
    BY <1>23 DEF BridgeMove, FlushMove, MoveRecord
  <2>3. QED
    BY <2>1, <2>2, FanOutBalanced
<1>24. CASE FlushEnd
  BY <1>24 DEF FlushEnd
<1>25. ASSUME NEW b \in Backends, DrainCompleted(b)  PROVE UnfinishedBalanced'
  BY <1>25 DEF DrainCompleted, Joined
<1>26. ASSUME NEW b \in Backends, DrainTimeout(b)  PROVE UnfinishedBalanced'
  BY <1>26 DEF DrainTimeout
<1>27. CASE StopReport
  <2>1. ASSUME NEW b \in Backends
        PROVE  unfinished'[b] = Len(queue'[b]) + (IF hand'[b] = NoRecord THEN 0 ELSE 1)
    <3>1. /\ StatusCount(b) \in Nat
          /\ Len(queue[b] \o [i \in 1..StatusCount(b) |-> StatusRecord])
               = Len(queue[b]) + StatusCount(b)
      BY StatusCountRoom, StatusConcat
    <3>2. Len(queue[b]) \in Nat
      OBVIOUS
    <3>3. unfinished[b] = Len(queue[b]) + (IF hand[b] = NoRecord THEN 0 ELSE 1)
      OBVIOUS
    <3>4. QED
      BY <1>27, <3>1, <3>2, <3>3 DEF StopReport
  <2>2. QED
    BY <2>1
<1>28. CASE StopTimeout
  BY <1>28 DEF StopTimeout
<1>29. CASE ClearQueues
  BY <1>29 DEF ClearQueues, Reaped, AfterClear, LeftOver
<1>30. CASE SweepRecord
  BY <1>30 DEF SweepRecord
<1>31. CASE ReleaseLoop
  BY <1>31 DEF ReleaseLoop
<1>32. CASE ReleaseIngress
  BY <1>32 DEF ReleaseIngress
<1>33. CASE ReleaseEvent
  BY <1>33 DEF ReleaseEvent
<1>34. CASE Quiescent
  BY <1>34 DEF Quiescent
<1>35. CASE UNCHANGED vars
  BY <1>35
<1>36. QED
  BY <1>1, <1>2, <1>3, <1>4, <1>5, <1>6, <1>7, <1>8, <1>9, <1>10, <1>11, <1>12, <1>13,
     <1>14, <1>15, <1>16, <1>17, <1>18, <1>19, <1>20, <1>21, <1>22, <1>23, <1>24,
     <1>25, <1>26, <1>27, <1>28, <1>29, <1>30, <1>31, <1>32, <1>33, <1>34, <1>35
  DEF Next, EmitStep, BridgeStep, WorkerStep, StartStep, StopStep

\* A sleeping bridge keeps its wakeup.
LEMMA NoLostWakeupStep ==
  ASSUME IInv, [Next]_vars
  PROVE  NoLostWakeup'
<1> USE SizesAssumption, ReportersAssumption
        DEF IInv, TypeOK, Control, Hands, Bounded, Captured, UnfinishedBalanced,
            NoLostWakeup, Cycles, Tickets, None, NoRecord, StatusRecord, Fates, Handled,
            Stopped, Starting, Releasing, vars, flags, refs, wakeups, backends,
            stopping, emits, history
<1>1. ASSUME NEW e \in Emitters, EmitCheck(e)  PROVE NoLostWakeup'
  BY <1>1 DEF EmitCheck, At, Goto
<1>2. ASSUME NEW e \in Emitters, EmitReadIngress(e)  PROVE NoLostWakeup'
  BY <1>2 DEF EmitReadIngress, At, Goto
<1>3. ASSUME NEW e \in Emitters, EmitReadLoop(e)  PROVE NoLostWakeup'
  BY <1>3 DEF EmitReadLoop, At, Goto
<1>4. ASSUME NEW e \in Emitters, EmitReadEvent(e)  PROVE NoLostWakeup'
  BY <1>4 DEF EmitReadEvent, At, Goto
<1>5. ASSUME NEW e \in Emitters, EmitPut(e)  PROVE NoLostWakeup'
  <2> HIDE DEF Control, Hands, Bounded, UnfinishedBalanced, IInv, TypeOK, Captured
  <2>1. CASE Enqueue(cap[e].ingress) /\ Goto(e, "wake") /\ cap[e].ingress = cycle
    <3>1. cap[e].event = cycle
      BY <1>5, <2>1, SizesAssumption DEF EmitPut, At, IInv, Captured, TypeOK, Cycles
    <3>2. pc'[e] = "wake" /\ UNCHANGED <<cap, cycle>>
      BY <1>5, <2>1 DEF EmitPut, Goto, IInv, TypeOK, At, NoLostWakeup
    <3>3. QED
      BY <3>1, <3>2 DEF NoLostWakeup, At
  <2>2. CASE ingress'[cycle] = ingress[cycle] /\ UNCHANGED <<cycle, cap, event,
      pending, bridge>>
    BY <1>5, <2>2 DEF EmitPut, Goto, IInv, TypeOK, At, NoLostWakeup
  <2>3. CASE Enqueue(cap[e].ingress) /\ cap[e].ingress # cycle
    <3>1. ingress'[cycle] = ingress[cycle]
      BY <2>3 DEF Enqueue, IInv, TypeOK
    <3>2. QED
      BY <1>5, <2>2, <3>1 DEF EmitPut
  <2>4. QED
    BY <1>5, <2>1, <2>2, <2>3 DEF EmitPut, Enqueue
<1>6. ASSUME NEW e \in Emitters, EmitWake(e)  PROVE NoLostWakeup'
  BY <1>6 DEF EmitWake, At, Goto
<1>7. ASSUME NEW c \in Cycles, SetEvent(c)  PROVE NoLostWakeup'
  <2> HIDE DEF Control, Hands, Bounded, UnfinishedBalanced, IInv, TypeOK, Captured
  <2>1. CASE c = cycle
    BY <1>7, <2>1 DEF SetEvent, IInv, TypeOK, At, NoLostWakeup
  <2>2. CASE c # cycle
    BY <1>7, <2>2 DEF SetEvent, IInv, TypeOK, At, NoLostWakeup
  <2>3. QED
    BY <2>1, <2>2
<1>8. CASE BridgeWake
  BY <1>8 DEF BridgeWake
<1>9. CASE BridgeMove
  BY <1>9 DEF BridgeMove, MoveRecord, FanOut, HasRoom
<1>10. CASE BridgeWait
  BY <1>10 DEF BridgeWait
<1>11. ASSUME NEW b \in Backends, WorkerGet(b)  PROVE NoLostWakeup'
  <2>1. UNCHANGED <<bridge, ingress, event, pending, cycle, pc, cap>>
    BY <1>11 DEF WorkerGet
  <2>2. NoLostWakeup
    OBVIOUS
  <2> HIDE DEF IInv, NoLostWakeup
  <2>3. QED
    BY <2>1, <2>2, WakeupFrame
<1>12. ASSUME NEW b \in Backends, WorkerDone(b)  PROVE NoLostWakeup'
  <2>1. UNCHANGED <<bridge, ingress, event, pending, cycle, pc, cap>>
    BY <1>12 DEF WorkerDone, Finish, Handled
  <2>2. NoLostWakeup
    OBVIOUS
  <2> HIDE DEF IInv, NoLostWakeup
  <2>3. QED
    BY <2>1, <2>2, WakeupFrame
<1>13. ASSUME NEW b \in Backends, WorkerExit(b)  PROVE NoLostWakeup'
  BY <1>13 DEF WorkerExit
<1>14. ASSUME NEW b \in Backends, WorkerCancelled(b)  PROVE NoLostWakeup'
  <2>1. UNCHANGED <<bridge, ingress, event, pending, cycle, pc, cap>>
    BY <1>14 DEF WorkerCancelled, Finish
  <2>2. NoLostWakeup
    OBVIOUS
  <2> HIDE DEF IInv, NoLostWakeup
  <2>3. QED
    BY <2>1, <2>2, WakeupFrame
<1>15. CASE StartCheck
  BY <1>15 DEF StartCheck
<1>16. CASE StartLoop
  BY <1>16 DEF StartLoop
<1>17. CASE StartIngress
  BY <1>17 DEF StartIngress
<1>18. CASE StartEvent
  BY <1>18 DEF StartEvent
<1>19. CASE StartFinish
  <2>1. UNCHANGED <<bridge, ingress, event, pending, cycle, pc, cap>>
    BY <1>19 DEF StartFinish
  <2>2. NoLostWakeup
    OBVIOUS
  <2> HIDE DEF IInv, NoLostWakeup
  <2>3. QED
    BY <2>1, <2>2, WakeupFrame
<1>20. CASE Close
  <2>1. UNCHANGED <<bridge, ingress, event, pending, cycle, pc, cap>>
    BY <1>20 DEF Close
  <2>2. NoLostWakeup
    OBVIOUS
  <2> HIDE DEF IInv, NoLostWakeup
  <2>3. QED
    BY <2>1, <2>2, WakeupFrame
<1>21. CASE StopBegin
  BY <1>21 DEF StopBegin
<1>22. CASE FlushBegin
  BY <1>22 DEF FlushBegin
<1>23. CASE FlushMove
  BY <1>23 DEF FlushMove, MoveRecord, FanOut, HasRoom
<1>24. CASE FlushEnd
  BY <1>24 DEF FlushEnd
<1>25. ASSUME NEW b \in Backends, DrainCompleted(b)  PROVE NoLostWakeup'
  BY <1>25 DEF DrainCompleted, Joined
<1>26. ASSUME NEW b \in Backends, DrainTimeout(b)  PROVE NoLostWakeup'
  BY <1>26 DEF DrainTimeout
<1>27. CASE StopReport
  BY <1>27 DEF StopReport, StatusCount
<1>28. CASE StopTimeout
  BY <1>28 DEF StopTimeout
<1>29. CASE ClearQueues
  BY <1>29 DEF ClearQueues, Reaped, AfterClear, LeftOver
<1>30. CASE SweepRecord
  BY <1>30 DEF SweepRecord
<1>31. CASE ReleaseLoop
  BY <1>31 DEF ReleaseLoop
<1>32. CASE ReleaseIngress
  BY <1>32 DEF ReleaseIngress
<1>33. CASE ReleaseEvent
  BY <1>33 DEF ReleaseEvent
<1>34. CASE Quiescent
  BY <1>34 DEF Quiescent
<1>35. CASE UNCHANGED vars
  <2>1. UNCHANGED <<bridge, ingress, event, pending, cycle, pc, cap>>
    BY <1>35 
  <2>2. NoLostWakeup
    OBVIOUS
  <2> HIDE DEF IInv, NoLostWakeup
  <2>3. QED
    BY <2>1, <2>2, WakeupFrame
<1>36. QED
  BY <1>1, <1>2, <1>3, <1>4, <1>5, <1>6, <1>7, <1>8, <1>9, <1>10, <1>11, <1>12, <1>13,
     <1>14, <1>15, <1>16, <1>17, <1>18, <1>19, <1>20, <1>21, <1>22, <1>23, <1>24,
     <1>25, <1>26, <1>27, <1>28, <1>29, <1>30, <1>31, <1>32, <1>33, <1>34, <1>35
  DEF Next, EmitStep, BridgeStep, WorkerStep, StartStep, StopStep

\* The initial states satisfy the inductive invariant.
LEMMA InitIInv == Init => IInv
<1> SUFFICES ASSUME Init PROVE IInv
  OBVIOUS
<1> USE SizesAssumption
    DEF Init, Cycles, Tickets, None, NoRecord, StatusRecord, Fates, Handled, Stopped,
        Starting, Releasing
<1>1. TypeOK
  <2>1. ingress \in [Cycles -> Seq(Tickets)]
    OBVIOUS
  <2>2. queue \in [Backends -> Seq(Tickets \cup {StatusRecord})]
    OBVIOUS
  <2>3. fate \in [Backends -> [Tickets -> Fates]]
    OBVIOUS
  <2>4. cap \in [Emitters -> [ingress : 0..MaxCycles, event : 0..MaxCycles]]
    OBVIOUS
  <2>5. pc \in [Emitters -> {"idle", "ingress", "loop", "event", "put", "wake"}]
    OBVIOUS
  <2>6. /\ closed \in BOOLEAN /\ accept \in BOOLEAN /\ running \in BOOLEAN
        /\ event \in [Cycles -> BOOLEAN] /\ pending \in [Cycles -> Nat]
    OBVIOUS
  <2>7. cycle \in 0..MaxCycles /\ ref \in {None, cycle} /\ eventRef \in {None, cycle}
    OBVIOUS
  <2>t. tickets \in 0..MaxTickets /\ cut \in 0..MaxTickets
    OBVIOUS
  <2>h. hasLoop \in BOOLEAN
    OBVIOUS
  <2>8. /\ unfinished \in [Backends -> Nat]
        /\ worker \in [Backends -> {"none", "idle", "busy", "cancelled", "done"}]
        /\ hand \in [Backends -> Tickets \cup {StatusRecord, NoRecord}]
        /\ result \in [Backends -> {"none", "COMPLETED", "TIMEOUT"}]
    OBVIOUS
  <2>9. /\ loop \in {"free", "bridge", "flush"} \cup Starting \cup Releasing
        /\ bridge \in {"none", "waiting", "moving", "done"}
        /\ stop \in {"idle", "flush", "drain", "join", "cancel"}
    OBVIOUS
  <2> HIDE DEF Init, Cycles, Tickets, Fates, None, NoRecord, StatusRecord, Starting,
               Releasing
  <2>10. QED
    BY <2>1, <2>2, <2>3, <2>4, <2>5, <2>6, <2>7, <2>t, <2>h, <2>8, <2>9
    DEF TypeOK
<1>2. Control
  BY DEF Control
<1>3. Hands
  BY DEF Hands
<1>4. Bounded
  BY DEF Bounded
<1>5. Admitted
  <2>1. InFlight = {}
    BY DEF InFlight, Reading
  <2>2. QED
    BY <2>1, FS_EmptySet DEF Admitted
<1>6. Captured
  BY DEF Captured
<1>7. UnfinishedBalanced
  BY DEF UnfinishedBalanced
<1>8. NoLostWakeup
  BY DEF NoLostWakeup
<1>9. QED
  BY <1>1, <1>2, <1>3, <1>4, <1>5, <1>6, <1>7, <1>8 DEF IInv

\* Every step keeps it.
LEMMA StepIInv == IInv /\ [Next]_vars => IInv'
<1> SUFFICES ASSUME IInv, [Next]_vars PROVE IInv'
  OBVIOUS
<1>1. TypeOK' /\ Control' /\ Hands' /\ Bounded'
  BY TypeOKStep, ControlStep, HandsStep, BoundedStep
<1>2. Admitted' /\ Captured' /\ UnfinishedBalanced' /\ NoLostWakeup'
  BY AdmittedStep, CapturedStep, UnfinishedBalancedStep, NoLostWakeupStep
<1>3. QED
  BY <1>1, <1>2 DEF IInv

\* IInv holds in every reachable state, whatever the emitters, the backends, the
\* queue bound and the number of cycles are.
THEOREM Inductive == Spec => []IInv
<1>1. Init => IInv
  BY InitIInv
<1>2. IInv /\ [Next]_vars => IInv'
  BY StepIInv
<1>3. QED
  BY <1>1, <1>2, PTL DEF Spec

\* Type correctness; in particular no task_done() drives an unfinished count
\* below zero, where asyncio's queue raises ValueError.
THEOREM TypeCorrect == Spec => []TypeOK
<1>1. IInv => TypeOK
  BY DEF IInv
<1>2. QED
  BY <1>1, Inductive, PTL

\* emit() and _bridge_loop lose no wakeup: put before call_soon_threadsafe on one
\* side, clear before get_nowait on the other, across any number of restarts.
THEOREM WakeupKept == Spec => []NoLostWakeup
<1>1. IInv => NoLostWakeup
  BY DEF IInv
<1>2. QED
  BY <1>1, Inductive, PTL

\* queue.join() of every backend counts its queue and the record in hand, through
\* overflow, cancellation, the status records and stop_logging's clearing loop.
THEOREM JoinCountsRecords == Spec => []UnfinishedBalanced
<1>1. IInv => UnfinishedBalanced
  BY DEF IInv
<1>2. QED
  BY <1>1, Inductive, PTL

\* The ingress and every backend queue stay within queue_maxsize, the status
\* records of report_status included.
THEOREM QueuesBounded == Spec => []Bounded
<1>1. IInv => Bounded
  BY DEF IInv
<1>2. QED
  BY <1>1, Inductive, PTL

\* Between cycles nothing of the last one is left: stop_logging's tail clears
\* what start_logging relies on.
THEOREM RestartIsClean == Spec => []StoppedIsClean
<1>1. IInv => StoppedIsClean
  <2> SUFFICES ASSUME IInv, ~running, stop = "idle", loop = "free"
               PROVE  /\ ~hasLoop /\ ref = None /\ eventRef = None
                      /\ bridge = "none" /\ ~accept
                      /\ \A b \in Backends : /\ queue[b] = <<>> /\ unfinished[b] = 0
                                             /\ worker[b] = "none" /\ hand[b] = NoRecord
    BY DEF StoppedIsClean
  <2>1. ~hasLoop /\ ref = None /\ eventRef = None /\ bridge = "none" /\ ~accept
    BY DEF IInv, Control, Starting
  <2>2. ASSUME NEW b \in Backends
        PROVE  queue[b] = <<>> /\ worker[b] = "none" /\ hand[b] = NoRecord
    BY DEF IInv, Hands, Stopped
  <2>3. ASSUME NEW b \in Backends PROVE unfinished[b] = 0
    <3>1. Len(queue[b]) = 0
      BY <2>2
    <3>2. unfinished[b] = Len(queue[b]) + (IF hand[b] = NoRecord THEN 0 ELSE 1)
      BY DEF IInv, UnfinishedBalanced
    <3>3. QED
      BY <2>2, <3>1, <3>2
  <2>4. QED
    BY <2>1, <2>2, <2>3
<1>2. QED
  BY <1>1, Inductive, PTL

\* What a thread finds behind a raised accept event: all three references, of one
\* cycle, and a bridge that serves them.
AcceptHasIngress ==
  accept => /\ hasLoop /\ ref = cycle /\ eventRef = cycle /\ cycle \in Cycles
            /\ bridge \in {"waiting", "moving"}

LEMMA AcceptImpliesIngress == IInv => AcceptHasIngress
<1> SUFFICES ASSUME IInv, accept PROVE AcceptHasIngress
  BY DEF AcceptHasIngress
<1>1. running /\ stop = "idle"
  BY DEF IInv, Control
<1>2. hasLoop /\ ref # None /\ eventRef # None
  BY <1>1 DEF IInv, Control
<1>3. bridge \in {"waiting", "moving"}
  BY <1>1, <1>2 DEF IInv, Control, TypeOK
<1>4. ref = cycle /\ eventRef = cycle /\ cycle \in Cycles
  BY <1>2, SizesAssumption DEF IInv, TypeOK, Cycles, None
<1>5. QED
  BY <1>2, <1>3, <1>4 DEF AcceptHasIngress

\* Only emit()'s own steps move its program counter.
LEMMA OnlyEmitMoves ==
  ASSUME [Next]_vars
  PROVE  UNCHANGED pc \/ \E e \in Emitters : EmitStep(e)
<1> USE DEF vars, flags, refs, wakeups, backends, stopping, emits, history
<1>1. ASSUME NEW c \in Cycles, SetEvent(c) PROVE UNCHANGED pc
  BY <1>1 DEF SetEvent
<1>2. CASE BridgeStep
  BY <1>2 DEF BridgeStep, BridgeWake, BridgeMove, BridgeWait, MoveRecord
<1>3. ASSUME NEW b \in Backends, WorkerStep(b) PROVE UNCHANGED pc
  BY <1>3 DEF WorkerStep, WorkerGet, WorkerDone, WorkerExit, WorkerCancelled
<1>4. CASE StartStep \/ Close
  BY <1>4 DEF StartStep, StartCheck, StartLoop, StartIngress, StartEvent, StartFinish,
              Close
<1>5. CASE StopStep
  BY <1>5 DEF StopStep, StopBegin, FlushBegin, FlushMove, MoveRecord, FlushEnd,
              DrainCompleted, DrainTimeout, StopReport, StopTimeout, ClearQueues,
              SweepRecord, ReleaseLoop, ReleaseIngress, ReleaseEvent
<1>6. CASE Quiescent \/ UNCHANGED vars
  BY <1>6 DEF Quiescent
<1>7. QED
  BY <1>1, <1>2, <1>3, <1>4, <1>5, <1>6 DEF Next

\* emit() drops a record for a missing reference only when the accept event is
\* down: whatever a thread reads between two writes of start_logging or of
\* stop_logging's tail, it never finds a None behind a raised accept event.
THEOREM DropsWhileDown == Spec => SilentDropsAreLate
<1>1. ASSUME IInv, [Next]_vars, NEW e \in Emitters, pc[e] \in Reading, pc'[e] = "idle"
      PROVE  ~accept
  <2>1. pc[e] # "idle" /\ pc[e] # "put" /\ pc[e] # "wake"
    BY <1>1 DEF Reading
  <2>2. PICK x \in Emitters : EmitStep(x)
    BY <1>1, <2>1, OnlyEmitMoves
  <2>3. x = e
    <3>1. pc \in [Emitters -> {"idle", "ingress", "loop", "event", "put", "wake"}]
      BY <1>1 DEF IInv, TypeOK
    <3>2. ASSUME NEW label, Goto(x, label) PROVE x # e => pc'[e] = pc[e]
      BY <3>1, <3>2 DEF Goto
    <3>3. QED
      BY <1>1, <2>1, <2>2, <3>2
      DEF EmitStep, EmitCheck, EmitReadIngress, EmitReadLoop, EmitReadEvent, EmitPut,
          EmitWake
  <2>4. EmitReadIngress(e) \/ EmitReadLoop(e) \/ EmitReadEvent(e)
    <3>1. ~EmitCheck(e) /\ ~EmitPut(e) /\ ~EmitWake(e)
      BY <2>1 DEF EmitCheck, EmitPut, EmitWake, At
    <3>2. QED
      BY <2>2, <2>3, <3>1 DEF EmitStep
  <2>5. ref = None \/ ~hasLoop \/ eventRef = None
    <3>1. pc'[e] # "loop" /\ pc'[e] # "event" /\ pc'[e] # "put"
      BY <1>1
    <3>2. ASSUME NEW label, Goto(e, label) PROVE pc'[e] = label
      BY <1>1, <3>2 DEF Goto, IInv, TypeOK
    <3>3. QED
      BY <2>4, <3>1, <3>2 DEF EmitReadIngress, EmitReadLoop, EmitReadEvent
  <2>6. QED
    BY <1>1, <2>5, AcceptImpliesIngress DEF AcceptHasIngress, Cycles, None
<1>2. IInv /\ [Next]_vars =>
        [\A e \in Emitters :
           (pc[e] \in Reading /\ pc'[e] = "idle") => ~accept]_vars
  BY <1>1
<1>3. QED
  BY <1>2, Inductive, PTL DEF Spec, SilentDropsAreLate

=============================================================================

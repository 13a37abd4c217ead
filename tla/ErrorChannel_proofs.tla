-------------------------- MODULE ErrorChannel_proofs --------------------------
(***************************************************************************)
(* Theorems about ErrorChannel for any queue size, any number of logging   *)
(* calls and any recursion limit.                                          *)
(*                                                                         *)
(* ChannelInv adds to the types which call the loop can be in in which of  *)
(* its sections, that nothing is accepted once a stop has begun, and that  *)
(* the loop's reports are nested no more from then on.                     *)
(***************************************************************************)
EXTENDS ErrorChannel, TLAPS

\* The call that the event loop is in fits the section that it runs.
SectionFits ==
  /\ pc["app"] # "move"
  /\ pc["loop"] = "idle" <=> section = "free"
  /\ pc["loop"] = "move" => section \in {"bridge", "flush"}

\* stop_logging lowers the accept event first, and flushes later.
NothingAccepted == (stop # "no" => ~accept) /\ (section = "flush" => stop # "no")

\* The loop nests reports only inside a call; and when a stop has begun, a nested call
\* is refused and never reports.
Unnested ==
  pc["loop"] \in {"idle", "move"} \/ (stop # "no" /\ pc["loop"] = "report")
    => depth["loop"] = 0

ChannelInv == TypeOK /\ SectionFits /\ NothingAccepted /\ Unnested

\* How far the loop is from the end of its section, once nothing is accepted: a record
\* in the ingress costs it at most a move, a report and the nested call.
Ahead ==
  4 * ingress + CASE pc["loop"] = "idle"   -> 0
                  [] pc["loop"] = "move"   -> 1
                  [] pc["loop"] = "emit"   -> 2
                  [] pc["loop"] = "report" -> 3

-----------------------------------------------------------------------------
\* The handler as start_logging leaves it satisfies the invariant.
LEMMA InitChannelInv == Init => ChannelInv
<1> SUFFICES ASSUME Init PROVE ChannelInv
  OBVIOUS
<1>1. TypeOK
  <2>1. ingress \in 0..QueueMaxsize /\ queue \in 0..QueueMaxsize /\ calls \in 0..MaxCalls
    BY BoundsAssumption DEF Init
  <2>2. depth \in [Threads -> 0..RecursionLimit]
    BY BoundsAssumption DEF Init
  <2>3. QED
    BY <2>1, <2>2 DEF Init, TypeOK
<1>2. SectionFits /\ NothingAccepted /\ Unnested
  BY DEF Init, SectionFits, NothingAccepted, Unnested, Threads
<1>3. QED
  BY <1>1, <1>2 DEF ChannelInv

\* Returning from the innermost call keeps the call and the section in step.
LEMMA ReturnFits ==
  ASSUME TypeOK, SectionFits, NEW th \in Threads, pc[th] \in {"emit", "report"}, Return(th)
  PROVE  /\ pc' \in [Threads -> {"idle", "emit", "report", "move"}]
         /\ depth' \in [Threads -> 0..RecursionLimit]
         /\ section' \in {"free", "bridge", "flush", "worker", "host"}
         /\ SectionFits'
         /\ IF th = "loop" THEN depth'["loop"] = 0
            ELSE depth'["loop"] = depth["loop"] /\ pc'["loop"] = pc["loop"]
         /\ section' = "flush" => section = "flush"
<1>1. 0 \in 0..RecursionLimit
  BY BoundsAssumption
<1>2. /\ pc' \in [Threads -> {"idle", "emit", "report", "move"}]
      /\ depth' \in [Threads -> 0..RecursionLimit]
      /\ section' \in {"free", "bridge", "flush", "worker", "host"}
      /\ IF th = "loop" THEN depth'["loop"] = 0
         ELSE depth'["loop"] = depth["loop"] /\ pc'["loop"] = pc["loop"]
      /\ section' = "flush" => section = "flush"
  BY <1>1 DEF TypeOK, Return, Threads
<1>f. pc \in [Threads -> {"idle", "emit", "report", "move"}] /\ "app" \in Threads /\ "loop" \in Threads
  BY DEF TypeOK, Threads
<1>3. CASE th = "app"
  <2>1. pc'["app"] = "idle" /\ pc'["loop"] = pc["loop"] /\ section' = section
    BY <1>f, <1>3 DEF Return
  <2>2. QED
    BY <1>2, <2>1 DEF SectionFits
<1>4. CASE th = "loop"
  <2>1. /\ pc'["app"] = pc["app"] /\ section # "free"
        /\ pc'["loop"] = IF section \in {"bridge", "flush"} THEN "move" ELSE "idle"
        /\ section' = IF section \in {"worker", "host"} THEN "free" ELSE section
    BY <1>f, <1>4 DEF Return, SectionFits
  <2>2. section \in {"bridge", "flush", "worker", "host"}
    BY <2>1 DEF TypeOK
  <2>3. QED
    BY <1>2, <2>1, <2>2 DEF SectionFits
<1>5. QED
  BY <1>2, <1>3, <1>4 DEF Threads

\* Every step keeps the invariant.
LEMMA StepChannelInv == ChannelInv /\ [Next]_vars => ChannelInv'
<1> SUFFICES ASSUME ChannelInv, [Next]_vars PROVE ChannelInv'
  OBVIOUS
<1>1. TypeOK /\ SectionFits /\ NothingAccepted /\ Unnested
  BY DEF ChannelInv
<1>b. /\ 0 \in 0..QueueMaxsize /\ QueueMaxsize \in Nat /\ 0 \in 0..RecursionLimit
      /\ ingress \in Nat /\ queue \in Nat /\ calls \in Nat
      /\ "app" \in Threads /\ "loop" \in Threads /\ \A th \in Threads : th \in {"app", "loop"}
  BY <1>1, BoundsAssumption DEF TypeOK, Threads
<1>2. ASSUME NEW th \in Threads, LogCall(th) PROVE ChannelInv'
  <2>1. calls' \in 0..MaxCalls
    BY <1>1, <1>2, BoundsAssumption DEF LogCall, TypeOK
  <2>2. TypeOK'
    BY <1>1, <1>2, <2>1 DEF LogCall, TypeOK, host
  <2>3. SectionFits'
    BY <1>1, <1>2 DEF LogCall, TypeOK, SectionFits, Threads
  <2>4. NothingAccepted' /\ Unnested'
    BY <1>1, <1>2 DEF LogCall, NothingAccepted, Unnested, TypeOK, SectionFits, Threads
  <2>5. QED
    BY <2>2, <2>3, <2>4 DEF ChannelInv
<1>3. ASSUME NEW th \in Threads, Emit(th) PROVE ChannelInv'
  <2>1. pc[th] = "emit" /\ UNCHANGED <<host, accept, queue, stop, calls, escaped>>
    BY <1>3 DEF Emit
  <2>2. ingress' \in 0..QueueMaxsize /\ event' \in BOOLEAN
    <3>1. ingress' = ingress \/ (ingress < QueueMaxsize /\ ingress' = ingress + 1)
      BY <1>3 DEF Emit
    <3>2. ingress' \in 0..QueueMaxsize
      BY <1>1, <1>b, <3>1 DEF TypeOK
    <3>3. event' \in BOOLEAN
      BY <1>1, <1>3 DEF Emit, TypeOK
    <3>4. QED
      BY <3>2, <3>3
  <2>3. CASE Return(th)
    <3>1. TypeOK'
      BY <1>1, <2>1, <2>2, <2>3, ReturnFits DEF TypeOK, host
    <3>2. NothingAccepted' /\ Unnested' /\ SectionFits'
      BY <1>1, <2>1, <2>3, ReturnFits DEF NothingAccepted, Unnested, TypeOK, SectionFits, Threads
    <3>3. QED
      BY <3>1, <3>2 DEF ChannelInv
  <2>4. CASE accept /\ Goto(th, "report")
    <3>1. TypeOK'
      BY <1>1, <2>1, <2>2, <2>4 DEF Goto, TypeOK, host
    <3>2. SectionFits'
      BY <1>1, <2>1, <2>4 DEF Goto, SectionFits, TypeOK, Threads
    <3>3. NothingAccepted' /\ Unnested'
      BY <1>1, <2>1, <2>4 DEF Goto, NothingAccepted, Unnested, TypeOK, SectionFits, Threads
    <3>4. QED
      BY <3>1, <3>2, <3>3 DEF ChannelInv
  <2>5. QED
    BY <1>3, <2>3, <2>4 DEF Emit
<1>4. ASSUME NEW th \in Threads, ReportSettled(th) PROVE ChannelInv'
  <2>1. /\ pc[th] = "report" /\ Return(th)
        /\ UNCHANGED <<host, accept, ingress, event, queue, stop, calls, escaped>>
    BY <1>4 DEF ReportSettled
  <2>2. TypeOK'
    BY <1>1, <2>1, ReturnFits DEF TypeOK, host
  <2>3. NothingAccepted' /\ Unnested' /\ SectionFits'
    BY <1>1, <2>1, ReturnFits DEF NothingAccepted, Unnested, TypeOK, SectionFits, Threads
  <2>4. QED
    BY <2>2, <2>3 DEF ChannelInv
<1>5. ASSUME NEW th \in Threads, ReportComesBack(th) PROVE ChannelInv'
  <2>1. pc'[th] = "emit" /\ \A t \in Threads \ {th} : pc'[t] = pc[t] /\ depth'[t] = depth[t]
    BY <1>1, <1>5 DEF ReportComesBack, TypeOK
  <2>2. depth' \in [Threads -> 0..RecursionLimit]
    <3>1. depth[th] + 1 \in 0..RecursionLimit
      BY <1>1, <1>5, BoundsAssumption DEF ReportComesBack, TypeOK
    <3>2. QED
      BY <1>1, <1>5, <3>1 DEF ReportComesBack, TypeOK
  <2>3. TypeOK'
    BY <1>1, <1>5, <2>2 DEF ReportComesBack, TypeOK, host
  <2>4. SectionFits'
    BY <1>1, <1>5 DEF ReportComesBack, SectionFits, TypeOK, Threads
  <2>5. NothingAccepted' /\ Unnested'
    BY <1>1, <1>5, <2>1 DEF ReportComesBack, NothingAccepted, Unnested, TypeOK, SectionFits, Threads
  <2>6. QED
    BY <2>3, <2>4, <2>5 DEF ChannelInv
<1>6. ASSUME NEW th \in Threads, ReportOverflows(th) PROVE ChannelInv'
  <2>1. depth'[th] = 0 /\ \A t \in Threads \ {th} : pc'[t] = pc[t] /\ depth'[t] = depth[t]
    BY <1>1, <1>6 DEF ReportOverflows, TypeOK
  <2>2. escaped' \subseteq {"app", "bridge", "flush", "worker", "host"}
    BY <1>1, <1>6 DEF ReportOverflows, TypeOK, SectionFits, Threads
  <2>3. pc' \in [Threads -> {"idle", "emit", "report", "move"}]
        /\ depth' \in [Threads -> 0..RecursionLimit]
    BY <1>1, <1>6, <1>b DEF ReportOverflows, TypeOK
  <2>4. TypeOK'
    BY <1>1, <1>6, <2>2, <2>3 DEF ReportOverflows, TypeOK, host
  <2>5. SectionFits'
    BY <1>1, <1>6 DEF ReportOverflows, SectionFits, TypeOK, Threads
  <2>6. NothingAccepted' /\ Unnested'
    BY <1>1, <1>6, <2>1 DEF ReportOverflows, NothingAccepted, Unnested, TypeOK, SectionFits, Threads
  <2>7. QED
    BY <2>4, <2>5, <2>6 DEF ChannelInv
<1>7. CASE BridgeWake \/ FlushBegin
  <2>1. TypeOK'
    BY <1>1, <1>7 DEF BridgeWake, FlushBegin, TypeOK, host
  <2>2. SectionFits'
    BY <1>1, <1>7 DEF BridgeWake, FlushBegin, SectionFits, TypeOK, Threads
  <2>3. NothingAccepted' /\ Unnested'
    BY <1>1, <1>7 DEF BridgeWake, FlushBegin, NothingAccepted, Unnested, TypeOK, SectionFits, Threads
  <2>4. QED
    BY <2>1, <2>2, <2>3 DEF ChannelInv
<1>8. CASE Move
  <2>1. ingress' \in 0..QueueMaxsize /\ queue' \in 0..QueueMaxsize
    <3>1. /\ ingress > 0 /\ ingress' = ingress - 1
          /\ queue' = queue \/ (queue < QueueMaxsize /\ queue' = queue + 1)
      BY <1>8 DEF Move
    <3>2. ingress' \in 0..QueueMaxsize
      BY <1>1, <1>b, <3>1 DEF TypeOK
    <3>3. queue' \in 0..QueueMaxsize
      BY <1>1, <1>b, <3>1 DEF TypeOK
    <3>4. QED
      BY <3>2, <3>3
  <2>2. pc' \in [Threads -> {"idle", "emit", "report", "move"}] /\ UNCHANGED <<depth, section>>
    BY <1>1, <1>8 DEF Move, Goto, TypeOK
  <2>3. TypeOK'
    BY <1>1, <1>8, <2>1, <2>2 DEF Move, TypeOK, host
  <2>4. SectionFits'
    BY <1>1, <1>8 DEF Move, Goto, SectionFits, TypeOK, Threads
  <2>5. NothingAccepted' /\ Unnested'
    BY <1>1, <1>8, <2>2 DEF Move, NothingAccepted, Unnested, TypeOK, SectionFits, Threads
  <2>6. QED
    BY <2>3, <2>4, <2>5 DEF ChannelInv
<1>9. CASE MoveEnd
  <2>1. TypeOK'
    BY <1>1, <1>9 DEF MoveEnd, TypeOK, host
  <2>2. SectionFits'
    BY <1>1, <1>9 DEF MoveEnd, SectionFits, TypeOK, Threads
  <2>3. NothingAccepted' /\ Unnested'
    BY <1>1, <1>9 DEF MoveEnd, NothingAccepted, Unnested, TypeOK, SectionFits, Threads
  <2>4. QED
    BY <2>1, <2>2, <2>3 DEF ChannelInv
<1>10. CASE WorkerStep
  <2>1. queue' \in 0..QueueMaxsize
    BY <1>1, <1>10, <1>b DEF WorkerStep, TypeOK
  <2>2. TypeOK'
    BY <1>1, <1>10, <2>1 DEF WorkerStep, TypeOK, host
  <2>3. SectionFits'
    BY <1>1, <1>10 DEF WorkerStep, SectionFits, TypeOK, Threads
  <2>4. NothingAccepted' /\ Unnested'
    BY <1>1, <1>10 DEF WorkerStep, NothingAccepted, Unnested, TypeOK, SectionFits, Threads
  <2>5. QED
    BY <2>2, <2>3, <2>4 DEF ChannelInv
<1>11. CASE StopBegin
  <2>1. TypeOK'
    BY <1>1, <1>11 DEF StopBegin, TypeOK, host
  <2>2. SectionFits' /\ NothingAccepted' /\ Unnested'
    BY <1>1, <1>11 DEF StopBegin, SectionFits, NothingAccepted, Unnested, TypeOK, SectionFits, Threads
  <2>3. QED
    BY <2>1, <2>2 DEF ChannelInv
<1>12. CASE Idle \/ UNCHANGED vars
  <2>1. UNCHANGED vars
    BY <1>12 DEF Idle
  <2>2. TypeOK'
    BY <1>1, <2>1 DEF TypeOK, vars, host
  <2>3. SectionFits' /\ NothingAccepted' /\ Unnested'
    BY <1>1, <2>1 DEF SectionFits, NothingAccepted, Unnested, vars
  <2>4. QED
    BY <2>2, <2>3 DEF ChannelInv
<1>13. QED
  BY <1>2, <1>3, <1>4, <1>5, <1>6, <1>7, <1>8, <1>9, <1>10, <1>11, <1>12
     DEF Next, Call, Loop

\* The invariant holds in every reachable state, with any bound on the queues.
THEOREM ChannelInductive == Spec => []ChannelInv
BY InitChannelInv, StepChannelInv, PTL DEF Spec

\* Type correctness; in particular no overload, however its reports nest, brings a
\* queue beyond queue_maxsize or a call beyond the recursion limit, and a
\* RecursionError always comes out of a thread or of a section that the loop runs.
THEOREM ChannelTypes == Spec => []TypeOK
<1>1. ChannelInv => TypeOK
  BY DEF ChannelInv
<1>2. QED
  BY <1>1, ChannelInductive, PTL

\* A report that stop_logging's flush, a worker or the host makes after the accept event
\* was lowered comes back once at most, to be refused: it never reaches the recursion
\* limit, whatever the limit is, and no RecursionError comes out of the loop.
THEOREM StoppingKeepsCalm == Spec => StoppingNeverRaises
<1>1. ASSUME ChannelInv, [Next]_vars, stop # "no" PROVE escaped' \ escaped \subseteq {"app"}
  <2>1. ~ReportOverflows("loop")
    BY <1>1, BoundsAssumption DEF ChannelInv, Unnested, ReportOverflows
  <2>2. escaped' = escaped \/ ReportOverflows("app")
    BY <1>1, <2>1 DEF Next, LogCall, Call, Emit, ReportSettled, ReportComesBack, Loop,
       BridgeWake, Move, MoveEnd, FlushBegin, WorkerStep, StopBegin, Idle, vars, Threads
  <2>3. ASSUME ReportOverflows("app") PROVE escaped' = escaped \cup {"app"}
    BY <2>3 DEF ReportOverflows
  <2>4. QED
    BY <2>2, <2>3
<1>2. ChannelInv /\ [Next]_vars => [stop # "no" => escaped' \ escaped \subseteq {"app"}]_vars
  BY <1>1
<1>3. QED
  BY <1>2, ChannelInductive, PTL DEF Spec, StoppingNeverRaises

-----------------------------------------------------------------------------
\* What a step does while the loop is in a section of a stop: other threads log and
\* are refused, and the loop comes nearer to the end.
LEMMA StoppingStep ==
  ASSUME ChannelInv, [Next]_vars, stop # "no", section # "free"
  PROVE  /\ Ahead \in Nat /\ Ahead' \in Nat
         /\ (UNCHANGED <<section, ingress>> /\ pc'["loop"] = pc["loop"]) \/ Ahead' < Ahead
<1>1. TypeOK /\ SectionFits /\ ~accept
  BY DEF ChannelInv, NothingAccepted
<1>2. TypeOK'
  BY StepChannelInv DEF ChannelInv
<1>3. ingress \in Nat /\ ingress' \in Nat
  BY <1>1, <1>2, BoundsAssumption DEF TypeOK
<1>4. pc["loop"] \in {"idle", "emit", "report", "move"}
      /\ pc'["loop"] \in {"idle", "emit", "report", "move"}
  BY <1>1, <1>2 DEF TypeOK, Threads
<1>5. Ahead \in Nat /\ Ahead' \in Nat
  BY <1>3, <1>4 DEF Ahead
<1>6. SUFFICES (UNCHANGED <<section, ingress>> /\ pc'["loop"] = pc["loop"]) \/ Ahead' < Ahead
  BY <1>5
<1>7. ASSUME LogCall("app") \/ Emit("app") \/ ReportSettled("app") \/ ReportComesBack("app")
             \/ ReportOverflows("app")
      PROVE  UNCHANGED <<section, ingress>> /\ pc'["loop"] = pc["loop"]
  BY <1>1, <1>7 DEF LogCall, Emit, ReportSettled, ReportComesBack, ReportOverflows, Return, Goto,
     TypeOK, Threads
<1>8. CASE Emit("loop")
  <2>1. pc["loop"] = "emit" /\ ingress' = ingress /\ pc'["loop"] \in {"idle", "move"}
    BY <1>1, <1>8 DEF Emit, Return, TypeOK, Threads
  <2>2. QED
    BY <1>3, <2>1 DEF Ahead
<1>9. CASE ReportSettled("loop") \/ ReportComesBack("loop") \/ ReportOverflows("loop")
  <2>1. pc["loop"] = "report" /\ ingress' = ingress /\ pc'["loop"] \in {"idle", "move", "emit"}
    BY <1>1, <1>9 DEF ReportSettled, ReportComesBack, ReportOverflows, Return, TypeOK, Threads
  <2>2. QED
    BY <1>3, <2>1 DEF Ahead
<1>10. CASE Move
  <2>1. /\ pc["loop"] = "move" /\ ingress' = ingress - 1 /\ ingress > 0
        /\ pc'["loop"] \in {"move", "report"}
    BY <1>1, <1>10 DEF Move, Goto, TypeOK, Threads
  <2>2. QED
    BY <1>3, <2>1 DEF Ahead
<1>11. CASE MoveEnd
  <2>1. pc["loop"] = "move" /\ ingress' = ingress /\ pc'["loop"] = "idle"
    BY <1>1, <1>11 DEF MoveEnd, TypeOK, Threads
  <2>2. QED
    BY <1>3, <2>1 DEF Ahead
<1>12. CASE Idle \/ UNCHANGED vars
  BY <1>12 DEF Idle, vars
<1>13. ~LogCall("loop") /\ ~BridgeWake /\ ~FlushBegin /\ ~WorkerStep /\ ~StopBegin
  BY DEF LogCall, BridgeWake, FlushBegin, WorkerStep, StopBegin
<1>14. QED
  BY <1>7, <1>8, <1>9, <1>10, <1>11, <1>12, <1>13 DEF Next, Call, Loop, Threads

\* Once stop_logging has lowered the accept event, every step of the event loop in the
\* bridge, in the flush or under a failure report leaves it less to do, and no other
\* thread gives it more.  This is why it gets out of the section: the ranking argument
\* under LoopYieldsOnceStopping, which needs fairness besides and stays with TLC.
THEOREM StoppingDescends ==
  Spec => [][stop # "no" /\ section # "free" =>
               \/ UNCHANGED <<section, ingress>> /\ pc'["loop"] = pc["loop"]
               \/ Ahead' < Ahead]_vars
<1>1. ChannelInv /\ [Next]_vars =>
        [stop # "no" /\ section # "free" =>
           \/ UNCHANGED <<section, ingress>> /\ pc'["loop"] = pc["loop"]
           \/ Ahead' < Ahead]_vars
  BY StoppingStep
<1>2. QED
  BY <1>1, ChannelInductive, PTL DEF Spec

=============================================================================

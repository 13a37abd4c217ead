--------------------------- MODULE Lifecycle_proofs ---------------------------
(***************************************************************************)
(* Theorems about Lifecycle for any number of host tasks, backends, cycles *)
(* and cancellations.                                                      *)
(*                                                                         *)
(* LInv is the inductive invariant.  The two references always belong      *)
(* together (Held).  As long as every start was tidy, whatever is not held *)
(* is silent, the flags agree with what is held, and the place of every    *)
(* stop in flight tells what it has already ended (Tidy).                  *)
(***************************************************************************)
EXTENDS Lifecycle, TLAPS

\* No task of the cycle is alive.
Silent(c) ==
  /\ bridge[c] \notin Alive
  /\ \A b \in Backends : worker[c][b] \notin Alive

\* The awaits of stop_logging after the bridge, and after the drains.
PastDrain  == {"gather", "timeout", "reap", "gather cancelled", "reap cancelled"}
PastBridge == {"drain"} \cup PastDrain

\* log_workers_tasks, _ingress and _bridge_task are set and released together.
Held == ref = tasks /\ tasks \in {0, cycle}

\* What is not held is over.
RestSilent == \A c \in Cycles : c # tasks => Silent(c)

\* Logging runs, and accepts, with tasks; nothing is held after a return.
FlagsAgree ==
  /\ running => tasks # 0
  /\ accept => running /\ bridge[tasks] = "running"
  /\ last = "returned" => tasks = 0

\* Where a call is tells which cycle it is about and what has ended before it.
Place(h) ==
  /\ mine[h] \in {0, cycle} /\ (pc[h] = "idle" => mine[h] = 0)
  /\ pc[h] # "idle" => ~accept
  /\ pc[h] \in PastBridge /\ tasks # 0 => bridge[tasks] = "done"
  /\ pc[h] \in PastDrain => ~running

Tidy == RestSilent /\ FlagsAgree /\ \A h \in Callers : Place(h)

LInv == TypeOK /\ Held /\ (tidy => Tidy)

(***************************************************************************)
(* Types and references.                                                   *)
(***************************************************************************)

Places ==
  {"idle", "bridge", "drain", "gather", "timeout", "reap", "gather cancelled", "reap cancelled"}
WorkerStates == {"none"} \union Alive \union Over

\* TypeOK in three parts: the tasks, the calls, and the rest.
TasksOK ==
  /\ bridge \in [Cycles -> {"none", "done"} \union Alive]
  /\ worker \in [Cycles -> [Backends -> WorkerStates]]

CallsOK ==
  /\ pc \in [Callers -> Places]
  /\ mine \in [Callers -> 0..cycle]
  /\ \A h \in Callers : pc[h] \notin {"idle", "drain"} => mine[h] # 0

BooksOK ==
  /\ closed \in BOOLEAN /\ accept \in BOOLEAN /\ running \in BOOLEAN
  /\ tasks \in 0..cycle
  /\ cycle \in 0..MaxCycles /\ cancels \in 0..MaxCancels
  /\ last \in {"none", "returned", "raised"}
  /\ tidy \in BOOLEAN /\ gathered \subseteq Cycles

\* With Held, the parts make up TypeOK, before a step and after it.
LEMMA Parts ==
  /\ Held => (TypeOK <=> BooksOK /\ TasksOK /\ CallsOK)
  /\ Held' => (TypeOK' <=> BooksOK' /\ TasksOK' /\ CallsOK')
<1>1. Held => (TypeOK <=> BooksOK /\ TasksOK /\ CallsOK)
  BY DEF Held, TypeOK, BooksOK, TasksOK, CallsOK, Places, WorkerStates
<1>2. Held' => (TypeOK' <=> BooksOK' /\ TasksOK' /\ CallsOK')
  BY DEF Held, TypeOK, BooksOK, TasksOK, CallsOK, Places, WorkerStates
<1>3. QED
  BY <1>1, <1>2

\* The update of one call keeps the types of the calls.
LEMMA AwaitTypes ==
  ASSUME CallsOK, NEW h \in Callers, NEW where \in Places, NEW c \in 0..cycle,
         Await(h, where, c), where \notin {"idle", "drain"} => c # 0, cycle' = cycle
  PROVE  CallsOK'
<1>1. pc' \in [Callers -> Places] /\ mine' \in [Callers -> 0..cycle']
  BY DEF CallsOK, Await
<1>2. ASSUME NEW g \in Callers PROVE pc'[g] \notin {"idle", "drain"} => mine'[g] # 0
  <2>1. CASE g = h
    BY <2>1 DEF CallsOK, Await
  <2>2. CASE g # h
    BY <2>2 DEF CallsOK, Await
  <2>3. QED
    BY <2>1, <2>2
<1>3. QED
  BY <1>1, <1>2 DEF CallsOK

\* Cancelling the tasks of a cycle revives none and ends none.
LEMMA CancelledTypes ==
  ASSUME TasksOK, NEW d \in Cycles, Cancelled(d)
  PROVE  /\ worker' \in [Cycles -> [Backends -> WorkerStates]]
         /\ \A c \in Cycles, b \in Backends :
              worker'[c][b] \in Alive <=> worker[c][b] \in Alive
<1>1. worker \in [Cycles -> [Backends -> WorkerStates]]
  BY DEF TasksOK
<1>2. worker' = [worker EXCEPT ![d] = [b \in Backends |->
                   IF worker[d][b] = "running" THEN "cancelling" ELSE worker[d][b]]]
  BY DEF Cancelled
<1>3. [b \in Backends |-> IF worker[d][b] = "running" THEN "cancelling" ELSE worker[d][b]]
        \in [Backends -> WorkerStates]
  BY <1>1 DEF Alive, WorkerStates
<1>4. worker' \in [Cycles -> [Backends -> WorkerStates]]
  BY <1>1, <1>2, <1>3
<1>5. ASSUME NEW c \in Cycles, NEW b \in Backends
      PROVE  worker'[c][b] \in Alive <=> worker[c][b] \in Alive
  <2>1. CASE c # d
    BY <1>1, <1>2, <2>1
  <2>2. CASE c = d
    <3>1. worker'[c][b] = IF worker[c][b] = "running" THEN "cancelling" ELSE worker[c][b]
      BY <1>1, <1>2, <2>2
    <3>2. QED
      BY <3>1 DEF Alive
  <2>3. QED
    BY <2>1, <2>2
<1>6. QED
  BY <1>4, <1>5

\* A worker ends: its cycle has a task less alive, and no other changes.
LEMMA WorkerEndsTypes ==
  ASSUME TasksOK, NEW c \in Cycles, NEW b \in Backends, NEW from, NEW how \in Over,
         WorkerEnds(c, b, from, how)
  PROVE  /\ worker' \in [Cycles -> [Backends -> WorkerStates]]
         /\ \A d \in Cycles, a \in Backends :
              worker'[d][a] \in Alive => worker[d][a] \in Alive
<1>1. worker \in [Cycles -> [Backends -> WorkerStates]]
  BY DEF TasksOK
<1>2. worker' = [worker EXCEPT ![c][b] = how]
  BY DEF WorkerEnds
<1>3. worker' \in [Cycles -> [Backends -> WorkerStates]]
  BY <1>1, <1>2 DEF WorkerStates
<1>4. ASSUME NEW d \in Cycles, NEW a \in Backends, worker'[d][a] \in Alive
      PROVE  worker[d][a] \in Alive
  <2>1. how \notin Alive
    BY DEF Alive, Over
  <2>2. worker'[d][a] = IF d = c /\ a = b THEN how ELSE worker[d][a]
    BY <1>1, <1>2
  <2>3. QED
    BY <1>4, <2>1, <2>2
<1>5. QED
  BY <1>3, <1>4

\* What the steps of a call know about the numbers they use.
LEMMA Numbers ==
  ASSUME BooksOK, CallsOK
  PROVE  /\ cycle \in Nat /\ 0 \in 0..cycle /\ tasks \in 0..cycle
         /\ \A c \in 0..cycle : c # 0 => c \in Cycles
         /\ \A h \in Callers :
              /\ mine[h] \in 0..cycle
              /\ pc[h] \notin {"idle", "drain"} => mine[h] # 0 /\ mine[h] \in Cycles
<1>1. cycle \in Nat /\ cycle <= MaxCycles /\ MaxCycles \in Nat
  BY LifecycleAssumption DEF BooksOK
<1>2. \A c \in 0..cycle : c # 0 => c \in Cycles
  BY <1>1 DEF Cycles
<1>3. QED
  BY <1>1, <1>2 DEF BooksOK, CallsOK

\* Steps that leave a part's variables alone.
LEMMA StillParts ==
  /\ TasksOK /\ UNCHANGED live => TasksOK'
  /\ CallsOK /\ UNCHANGED <<calls, cycle>> => CallsOK'
  /\ BooksOK /\ UNCHANGED <<flags, held, past>> => BooksOK'
  /\ Held /\ UNCHANGED <<held, cycle>> => Held'
BY DEF TasksOK, CallsOK, BooksOK, Held, live, calls, flags, held, past

\* A call leaves by the tail or by an exception.
LEMMA LeaveTypes ==
  ASSUME BooksOK, CallsOK, Held, NEW h \in Callers, Return(h) \/ Raise(h),
         cycle' = cycle, tidy' = tidy, closed' = closed, accept' = accept,
         running' \in BOOLEAN, cancels' \in 0..MaxCancels
  PROVE  BooksOK' /\ CallsOK' /\ Held'
<1>1. Await(h, "idle", 0)
  BY DEF Return, Raise
<1>2. CallsOK'
  BY <1>1, AwaitTypes, Numbers DEF Places
<1>3. gathered' \subseteq Cycles
  <2>1. gathered \subseteq Cycles /\ {mine[h]} \ {0} \subseteq Cycles
    BY Numbers DEF BooksOK
  <2>2. QED
    BY <2>1 DEF Return, Raise
<1>4. tasks' \in 0..cycle' /\ Held'
  BY Numbers DEF Return, Raise, held, Held
<1>5. last' \in {"none", "returned", "raised"}
  BY DEF Return, Raise
<1>6. QED
  BY <1>2, <1>3, <1>4, <1>5 DEF BooksOK

\* A call goes on to another await.
LEMMA GoOnTypes ==
  ASSUME BooksOK, CallsOK, Held, NEW h \in Callers, NEW where \in Places, NEW c \in 0..cycle,
         Await(h, where, c), where \notin {"idle", "drain"} => c # 0,
         UNCHANGED held, UNCHANGED <<closed, cycle, last, tidy, gathered>>,
         accept' \in BOOLEAN, running' \in BOOLEAN, cancels' \in 0..MaxCancels
  PROVE  BooksOK' /\ CallsOK' /\ Held'
<1>1. CallsOK'
  BY AwaitTypes
<1>2. tasks' = tasks /\ Held'
  BY DEF held, Held
<1>3. QED
  BY <1>1, <1>2 DEF BooksOK

\* Every step keeps the types, and the references together.
LEMMA TypesStep ==
  ASSUME TypeOK, Held, [Next]_vars
  PROVE  TypeOK' /\ Held'
<1>1. BooksOK /\ TasksOK /\ CallsOK
  BY Parts
<1> SUFFICES BooksOK' /\ TasksOK' /\ CallsOK' /\ Held'
  BY Parts
<1> DEFINE Goal == BooksOK /\ TasksOK /\ CallsOK /\ Held
<1>b. accept \in BOOLEAN /\ running \in BOOLEAN /\ cancels \in 0..MaxCancels
  BY <1>1 DEF BooksOK
<1>n. /\ 0 \in 0..cycle /\ tasks \in 0..cycle
      /\ \A c \in 0..cycle : c # 0 => c \in Cycles
      /\ \A h \in Callers :
           /\ mine[h] \in 0..cycle
           /\ pc[h] \notin {"idle", "drain"} => mine[h] # 0 /\ mine[h] \in Cycles
  BY <1>1, Numbers
<1>w. ASSUME NEW d \in Cycles, Cancelled(d), UNCHANGED bridge PROVE TasksOK'
  BY <1>1, <1>w, CancelledTypes DEF TasksOK
<1>2. CASE Start
  <2>1. /\ cycle + 1 \in Cycles /\ cycle + 1 \in 0..MaxCycles
        /\ cycle + 1 \in 0..(cycle + 1) /\ 0..cycle \subseteq 0..(cycle + 1)
    BY <1>1, <1>2, LifecycleAssumption DEF Start, BooksOK, Cycles
  <2>2. BooksOK' /\ Held'
    BY <1>1, <1>2, <2>1 DEF Start, BooksOK, Held
  <2>3. CallsOK'
    <3>1. pc' = pc /\ mine' = mine /\ cycle' = cycle + 1
      BY <1>2 DEF Start, calls
    <3>2. QED
      BY <1>1, <2>1, <3>1 DEF CallsOK
  <2>4. TasksOK'
    <3>1. bridge' = [bridge EXCEPT ![cycle + 1] = "running"]
      BY <1>2 DEF Start
    <3>2. worker' = [worker EXCEPT ![cycle + 1] = [b \in Backends |-> "running"]]
      BY <1>2 DEF Start
    <3>3. [b \in Backends |-> "running"] \in [Backends -> WorkerStates]
      BY DEF WorkerStates, Alive
    <3>4. worker' \in [Cycles -> [Backends -> WorkerStates]]
      BY <1>1, <3>2, <3>3 DEF TasksOK
    <3>5. bridge' \in [Cycles -> {"none", "done"} \union Alive]
      BY <1>1, <3>1 DEF TasksOK, Alive
    <3>6. QED
      BY <3>4, <3>5 DEF TasksOK
  <2>5. QED
    BY <2>2, <2>3, <2>4
<1>3. CASE Close
  <2>1. BooksOK'
    BY <1>1, <1>3 DEF Close, BooksOK, held, past
  <2>2. QED
    BY <1>1, <1>3, <2>1, StillParts DEF Close, past
<1>4. CASE StopNothing
  <2>1. BooksOK'
    BY <1>1, <1>4 DEF StopNothing, BooksOK, flags, held
  <2>2. QED
    BY <1>1, <1>4, <2>1, StillParts DEF StopNothing
<1>5. ASSUME NEW h \in Callers, StopBegin(h) PROVE Goal'
  <2>1. (ref # 0 /\ Await(h, "bridge", ref)) \/ Await(h, "drain", 0)
    BY <1>5 DEF StopBegin
  <2>2. ref = tasks
    BY DEF Held
  <2>3. BooksOK' /\ CallsOK' /\ Held'
    <3>1. /\ UNCHANGED held /\ UNCHANGED <<closed, cycle, last, tidy, gathered>>
          /\ accept' \in BOOLEAN /\ running' \in BOOLEAN /\ cancels' \in 0..MaxCancels
      BY <1>5, <1>b DEF StopBegin, past
    <3>2. QED
      BY <1>1, <1>n, <2>1, <2>2, <3>1, GoOnTypes DEF Places
  <2>4. TasksOK'
    <3>1. bridge' = bridge \/ bridge' = [bridge EXCEPT ![ref] = "cancelling"]
      BY <1>5 DEF StopBegin
    <3>2. bridge' \in [Cycles -> {"none", "done"} \union Alive]
      BY <1>1, <3>1 DEF TasksOK, Alive
    <3>3. worker' = worker
      BY <1>5 DEF StopBegin
    <3>4. QED
      BY <1>1, <3>2, <3>3 DEF TasksOK
  <2>5. QED
    BY <2>3, <2>4
<1>6. ASSUME NEW h \in Callers, BridgeAwaited(h) PROVE Goal'
  <2>1. /\ Await(h, "drain", 0) /\ UNCHANGED live
        /\ UNCHANGED held /\ UNCHANGED <<closed, cycle, last, tidy, gathered>>
        /\ accept' = accept /\ running' = running /\ cancels' = cancels
    BY <1>6 DEF BridgeAwaited, flags, past
  <2>2. QED
    BY <1>1, <1>b, <1>n, <2>1, GoOnTypes, StillParts DEF Places
<1>7. ASSUME NEW h \in Callers, Drained(h) PROVE Goal'
  <2>1. /\ UNCHANGED <<closed, accept, live, cycle, cancels, tidy>> /\ running' = FALSE
    BY <1>7 DEF Drained
  <2>2. CASE Return(h)
    BY <1>1, <1>b, <2>1, <2>2, LeaveTypes, StillParts
  <2>3. CASE tasks # 0 /\ Await(h, "gather", tasks) /\ UNCHANGED <<held, last, gathered>>
    BY <1>1, <1>b, <1>n, <2>1, <2>3, GoOnTypes, StillParts DEF Places
  <2>4. QED
    BY <1>7, <2>2, <2>3 DEF Drained
<1>8. ASSUME NEW h \in Callers, Gathered(h) \/ Reaped(h) \/ CancelAnswered(h) PROVE Goal'
  <2>1. /\ Return(h) \/ Raise(h)
        /\ UNCHANGED <<flags, live, cycle, cancels, tidy>>
    BY <1>8 DEF Gathered, Reaped, CancelAnswered
  <2>2. closed' = closed /\ accept' = accept /\ running' \in BOOLEAN
        /\ cancels' \in 0..MaxCancels
    BY <1>b, <2>1 DEF flags
  <2>3. QED
    BY <1>1, <2>1, <2>2, LeaveTypes, StillParts
<1>9. ASSUME NEW h \in Callers, GatherTimeout(h) PROVE Goal'
  <2>1. /\ Await(h, "timeout", mine[h]) /\ Cancelled(mine[h]) /\ UNCHANGED bridge
        /\ UNCHANGED held /\ UNCHANGED <<closed, cycle, last, tidy, gathered>>
        /\ accept' = accept /\ running' = running /\ cancels' = cancels
    BY <1>9 DEF GatherTimeout, flags, past
  <2>2. mine[h] \in 0..cycle /\ mine[h] # 0 /\ mine[h] \in Cycles
    BY <1>9, <1>n DEF GatherTimeout
  <2>3. BooksOK' /\ CallsOK' /\ Held'
    BY <1>1, <1>b, <2>1, <2>2, GoOnTypes DEF Places
  <2>4. QED
    BY <1>w, <2>1, <2>2, <2>3
<1>10. ASSUME NEW h \in Callers, TimeoutRaised(h) PROVE Goal'
  <2>1. /\ UNCHANGED <<closed, cycle, tidy>> /\ UNCHANGED bridge
        /\ accept' = accept /\ running' = running /\ cancels' = cancels
    BY <1>10 DEF TimeoutRaised, flags
  <2>2. CASE (Return(h) \/ Raise(h)) /\ UNCHANGED worker
    <3>1. UNCHANGED live
      BY <2>1, <2>2 DEF live
    <3>2. QED
      BY <1>1, <1>b, <2>1, <2>2, <3>1, LeaveTypes, StillParts
  <2>3. CASE /\ tasks # 0 /\ Cancelled(tasks) /\ Await(h, "reap", tasks)
             /\ UNCHANGED <<held, last, gathered>>
    <3>1. BooksOK' /\ CallsOK' /\ Held'
      BY <1>1, <1>b, <1>n, <2>1, <2>3, GoOnTypes DEF Places
    <3>2. QED
      BY <1>n, <1>w, <2>1, <2>3, <3>1
  <2>4. QED
    BY <1>10, <2>2, <2>3 DEF TimeoutRaised
<1>11. ASSUME NEW h \in Callers, CancelStop(h) PROVE Goal'
  <2>1. /\ UNCHANGED <<closed, cycle, tidy>> /\ UNCHANGED bridge /\ UNCHANGED flags
        /\ accept' = accept /\ running' = running
    BY <1>11 DEF CancelStop, flags
  <2>2. cancels' \in 0..MaxCancels
    BY <1>b, <1>11, LifecycleAssumption DEF CancelStop
  <2>3. CASE CancelSwallowed(h)
    <3>1. UNCHANGED live /\ UNCHANGED held /\ UNCHANGED calls /\ UNCHANGED <<last, gathered>>
      BY <2>1, <2>3 DEF CancelSwallowed, live
    <3>2. tasks' = tasks
      BY <3>1 DEF held
    <3>3. BooksOK'
      BY <1>1, <2>1, <2>2, <3>1, <3>2 DEF BooksOK
    <3>4. QED
      BY <1>1, <2>1, <3>1, <3>3, StillParts
  <2>4. CASE CancelRaised(h)
    <3>1. Raise(h) /\ UNCHANGED live
      BY <2>1, <2>4 DEF CancelRaised, live
    <3>2. QED
      BY <1>1, <1>b, <2>1, <2>2, <3>1, LeaveTypes, StillParts
  <2>5. CASE CancelGather(h)
    <3>1. /\ Await(h, "gather cancelled", mine[h]) \/ Await(h, "reap cancelled", mine[h])
          /\ mine[h] # 0 /\ mine[h] \in Cycles /\ mine[h] \in 0..cycle
          /\ Cancelled(mine[h]) /\ UNCHANGED <<held, last, gathered>>
      BY <1>n, <2>5 DEF CancelGather
    <3>2. BooksOK' /\ CallsOK' /\ Held'
      BY <1>1, <1>b, <2>1, <2>2, <3>1, GoOnTypes DEF Places
    <3>3. QED
      BY <1>w, <2>1, <3>1, <3>2
  <2>6. QED
    BY <1>11, <2>3, <2>4, <2>5 DEF CancelStop
<1>12. ASSUME NEW c \in Cycles, BridgeEnds(c) PROVE Goal'
  <2>1. bridge' \in [Cycles -> {"none", "done"} \union Alive] /\ worker' = worker
    BY <1>1, <1>12 DEF BridgeEnds, TasksOK
  <2>2. TasksOK'
    BY <1>1, <2>1 DEF TasksOK
  <2>3. UNCHANGED <<flags, held, calls, past>> /\ cycle' = cycle
    BY <1>12 DEF BridgeEnds, past
  <2>4. QED
    BY <1>1, <2>2, <2>3, StillParts
<1>13. ASSUME NEW c \in Cycles, NEW b \in Backends,
              WorkerReturns(c, b) \/ WorkerFails(c, b) \/ WorkerCancelled(c, b)
       PROVE  Goal'
  <2>1. PICK from : \E how \in Over : WorkerEnds(c, b, from, how)
    BY <1>13 DEF WorkerReturns, WorkerFails, WorkerCancelled, Over
  <2>2. PICK how \in Over : WorkerEnds(c, b, from, how)
    BY <2>1
  <2>3. worker' \in [Cycles -> [Backends -> WorkerStates]]
    BY <1>1, <2>2, WorkerEndsTypes
  <2>4. UNCHANGED <<flags, held, calls, past>> /\ bridge' = bridge /\ cycle' = cycle
    BY <2>2 DEF WorkerEnds, past
  <2>5. TasksOK'
    BY <1>1, <2>3, <2>4 DEF TasksOK
  <2>6. QED
    BY <1>1, <2>4, <2>5, StillParts
<1>14. CASE UNCHANGED vars
  <2>1. UNCHANGED <<flags, held, live, calls, past>> /\ cycle' = cycle
    BY <1>14 DEF vars, past
  <2>2. QED
    BY <1>1, <2>1, StillParts
<1>15. QED
  BY <1>2, <1>3, <1>4, <1>5, <1>6, <1>7, <1>8, <1>9, <1>10, <1>11, <1>12, <1>13, <1>14
     DEF Next, StopStep

(***************************************************************************)
(* Tidy runs.                                                              *)
(***************************************************************************)

\* No task comes alive in the step.
NoneRevived ==
  \A c \in Cycles : /\ bridge'[c] \in Alive => bridge[c] \in Alive
                    /\ \A b \in Backends : worker'[c][b] \in Alive => worker[c][b] \in Alive

\* Silence lasts when no task comes alive.
LEMMA SilenceLasts ==
  ASSUME NoneRevived, NEW c \in Cycles, Silent(c)
  PROVE  Silent(c)'
BY DEF NoneRevived, Silent

\* A call's step leaves the other calls where they are.
LEMMA AwaitCalls ==
  ASSUME CallsOK, NEW h \in Callers, NEW where, NEW c, Await(h, where, c)
  PROVE  /\ pc'[h] = where /\ mine'[h] = c
         /\ \A g \in Callers : g # h => pc'[g] = pc[g] /\ mine'[g] = mine[g]
BY DEF CallsOK, Await

\* A call that leaves by the tail forgets tasks that are all over.
LEMMA ReturnTidy ==
  ASSUME CallsOK, BooksOK, Held, Tidy, NEW h \in Callers, Return(h), pc[h] \in PastBridge,
         UNCHANGED live, cycle' = cycle, accept' = accept, running' = FALSE,
         tasks # 0 => Silent(tasks)
  PROVE  Tidy'
<1>1. RestSilent'
  <2>1. NoneRevived
    BY DEF NoneRevived, live
  <2>2. \A c \in Cycles : Silent(c)
    BY DEF Tidy, RestSilent, Cycles
  <2>3. QED
    BY <2>1, <2>2, SilenceLasts DEF RestSilent
<1>2. ~accept' /\ ~running' /\ tasks' = 0
  BY DEF Tidy, Place, PastBridge, PastDrain, Return
<1>3. FlagsAgree'
  BY <1>2 DEF FlagsAgree
<1>4. ASSUME NEW g \in Callers PROVE Place(g)'
  <2>1. /\ pc'[h] = "idle" /\ mine'[h] = 0
        /\ g # h => pc'[g] = pc[g] /\ mine'[g] = mine[g]
    BY AwaitCalls DEF Return
  <2>2. Place(g)
    BY DEF Tidy
  <2>3. QED
    BY <1>2, <2>1, <2>2 DEF Place
<1>5. QED
  BY <1>1, <1>3, <1>4 DEF Tidy

\* A call goes on, or out by an exception, with the tasks still held.
LEMMA CallTidy ==
  ASSUME CallsOK, BooksOK, Held, Tidy, NEW h \in Callers, NEW where \in Places,
         NEW c \in {0, cycle}, Await(h, where, c), where = "idle" => c = 0,
         pc[h] = "idle" => ~accept' /\ where \notin PastDrain,
         where \in PastBridge /\ tasks # 0 => bridge'[tasks] = "done",
         where \in PastDrain => ~running',
         tasks' = tasks, cycle' = cycle, last' = "returned" => last = "returned",
         accept' => accept, running' => running,
         NoneRevived, tasks # 0 /\ bridge[tasks] = "done" => bridge'[tasks] = "done",
         accept' => bridge'[tasks] = "running",
         accept' => running'
  PROVE  Tidy'
<1>1. RestSilent'
  BY SilenceLasts DEF Tidy, RestSilent
<1>2. FlagsAgree'
  BY DEF Tidy, FlagsAgree
<1>3. ASSUME NEW g \in Callers PROVE Place(g)'
  <2>1. /\ pc'[h] = where /\ mine'[h] = c
        /\ g # h => pc'[g] = pc[g] /\ mine'[g] = mine[g]
    BY AwaitCalls
  <2>2. Place(g) /\ Place(h)
    BY DEF Tidy
  <2>3. CASE g # h
    BY <2>1, <2>2, <2>3 DEF Place
  <2>4. CASE g = h
    BY <2>1, <2>2, <2>4 DEF Place
  <2>5. QED
    BY <2>3, <2>4
<1>4. QED
  BY <1>1, <1>2, <1>3 DEF Tidy

\* A step of no call, in which no task comes alive.
LEMMA TaskTidy ==
  ASSUME Tidy, UNCHANGED <<running, tasks, pc, mine, cycle>>,
         accept' => accept, last' = last \/ tasks = 0,
         NoneRevived,
         bridge[tasks] = "done" => bridge'[tasks] = "done",
         bridge[tasks] = "running" => bridge'[tasks] = "running"
  PROVE  Tidy'
<1>1. RestSilent'
  BY SilenceLasts DEF Tidy, RestSilent
<1>2. FlagsAgree'
  BY DEF Tidy, FlagsAgree
<1>3. ASSUME NEW g \in Callers PROVE Place(g)'
  BY DEF Tidy, Place
<1>4. QED
  BY <1>1, <1>2, <1>3 DEF Tidy

\* A step that starts tidy and stays so keeps Tidy.
LEMMA TidyStep ==
  ASSUME TypeOK, Held, Tidy, [Next]_vars, tidy'
  PROVE  Tidy'
<1>1. BooksOK /\ TasksOK /\ CallsOK
  BY Parts
<1>n. /\ 0 \in 0..cycle /\ tasks \in 0..cycle /\ tasks \in {0, cycle} /\ ref = tasks
      /\ \A c \in 0..cycle : c # 0 => c \in Cycles
      /\ \A h \in Callers :
           /\ mine[h] \in 0..cycle
           /\ pc[h] \notin {"idle", "drain"} => mine[h] # 0 /\ mine[h] \in Cycles
  BY <1>1, Numbers DEF Held
<1>p. ASSUME NEW h \in Callers, pc[h] # "idle"
      PROVE  /\ ~accept /\ mine[h] \in {0, cycle}
             /\ pc[h] \in PastBridge /\ tasks # 0 => bridge[tasks] = "done"
             /\ pc[h] \in PastDrain => ~running
             /\ pc[h] \in PastDrain /\ tasks # 0 => mine[h] = tasks
  <2>1. Place(h)
    BY DEF Tidy
  <2>2. pc[h] \in PastDrain => mine[h] # 0
    BY <1>n DEF PastDrain
  <2>3. QED
    BY <1>n, <1>p, <2>1, <2>2 DEF Place
<1>w. ASSUME NEW d \in Cycles, Cancelled(d), UNCHANGED bridge PROVE NoneRevived
  BY <1>1, <1>w, CancelledTypes DEF NoneRevived
<1>l. ASSUME UNCHANGED live PROVE NoneRevived /\ bridge' = bridge
  BY <1>l DEF NoneRevived, live
\* Out of an await by an exception.
<1>r. ASSUME NEW h \in Callers, pc[h] # "idle", Raise(h), UNCHANGED live,
             UNCHANGED flags, cycle' = cycle
      PROVE  Tidy'
  <2>1. /\ Await(h, "idle", 0) /\ tasks' = tasks /\ last' # "returned"
        /\ accept' = accept /\ running' = running
    BY <1>r DEF Raise, held, flags
  <2>2. ~accept /\ "idle" \in Places /\ "idle" \notin PastBridge /\ "idle" \notin PastDrain
    BY <1>p, <1>r DEF Places, PastBridge, PastDrain
  <2>3. NoneRevived /\ bridge' = bridge
    BY <1>l, <1>r
  <2>4. QED
    BY <1>1, <1>r, <2>1, <2>2, <2>3, CallTidy
\* Out by the tail, from a place after the bridge.
<1>t. ASSUME NEW h \in Callers, pc[h] \in PastBridge, Return(h), UNCHANGED live,
             accept' = accept, ~running' , running' \in BOOLEAN, cycle' = cycle,
             tasks # 0 => \A b \in Backends : worker[tasks][b] \notin Alive
      PROVE  Tidy'
  <2>1. pc[h] # "idle"
    BY <1>t DEF PastBridge, PastDrain
  <2>2. tasks # 0 => Silent(tasks)
    BY <1>p, <1>t, <2>1 DEF Silent, Alive
  <2>3. running' = FALSE
    BY <1>t
  <2>4. QED
    BY <1>1, <1>t, <2>2, <2>3, ReturnTidy
\* On to a later await, with the tasks still held.
<1>g. ASSUME NEW h \in Callers, pc[h] # "idle", NEW where \in PastBridge, NEW c \in {0, cycle},
             Await(h, where, c), pc[h] \in PastBridge \/ where = "drain",
             UNCHANGED held, UNCHANGED bridge, cycle' = cycle, last' = last,
             accept' = accept, running' => running, where \in PastDrain => ~running',
             tasks # 0 => bridge[tasks] = "done", NoneRevived
      PROVE  Tidy'
  <2>1. where \in Places /\ where # "idle" /\ tasks' = tasks
    BY <1>g DEF Places, PastBridge, PastDrain, held
  <2>2. ~accept'
    BY <1>p, <1>g
  <2>3. QED
    BY <1>1, <1>g, <2>1, <2>2, CallTidy
<1>2. CASE Start
  <2>1. tasks = 0 /\ (\A h \in Callers : pc[h] = "idle") /\ cycle + 1 \in Cycles
        /\ cycle + 1 # 0 /\ tasks' = cycle + 1 /\ running' /\ last' = "none"
        /\ pc' = pc /\ mine' = mine /\ cycle' = cycle + 1
    BY <1>1, <1>2, LifecycleAssumption DEF Start, BooksOK, Cycles, calls
  <2>2. bridge' = [bridge EXCEPT ![cycle + 1] = "running"]
    BY <1>2 DEF Start
  <2>3. worker' = [worker EXCEPT ![cycle + 1] = [b \in Backends |-> "running"]]
    BY <1>2 DEF Start
  <2>4. ASSUME NEW c \in Cycles, c # cycle + 1 PROVE Silent(c)'
    <3>1. Silent(c)
      BY <2>1 DEF Tidy, RestSilent, Cycles
    <3>2. bridge'[c] = bridge[c] /\ worker'[c] = worker[c]
      BY <1>1, <2>2, <2>3, <2>4 DEF TasksOK
    <3>3. QED
      BY <3>1, <3>2 DEF Silent
  <2>5. RestSilent'
    BY <2>1, <2>4 DEF RestSilent
  <2>6. FlagsAgree'
    BY <1>1, <2>1, <2>2 DEF FlagsAgree, TasksOK
  <2>7. ASSUME NEW h \in Callers PROVE Place(h)'
    <3>1. pc'[h] = "idle" /\ mine'[h] = 0
      BY <2>1 DEF Tidy, Place
    <3>2. QED
      BY <3>1 DEF Place, PastBridge, PastDrain
  <2>8. QED
    BY <2>5, <2>6, <2>7 DEF Tidy
<1>3. CASE Close
  <2>1. UNCHANGED <<running, tasks, pc, mine, cycle>> /\ ~accept' /\ last' = last /\ UNCHANGED live
    BY <1>3 DEF Close, held, calls, past
  <2>2. QED
    BY <1>l, <2>1, TaskTidy
<1>4. CASE StopNothing
  <2>1. UNCHANGED <<running, tasks, pc, mine, cycle>> /\ accept' = accept /\ tasks = 0
        /\ UNCHANGED live
    BY <1>4 DEF StopNothing, flags, held, calls
  <2>2. QED
    BY <1>l, <2>1, TaskTidy
<1>5. ASSUME NEW h \in Callers, StopBegin(h) PROVE Tidy'
  <2>1. /\ pc[h] = "idle" /\ accept' = FALSE /\ worker' = worker
        /\ tasks' = tasks /\ running' = running /\ cycle' = cycle /\ last' = last
    BY <1>5 DEF StopBegin, held, past
  <2>2. CASE ref # 0 /\ bridge[ref] # "done"
    <3>1. /\ bridge' = [bridge EXCEPT ![ref] = "cancelling"] /\ Await(h, "bridge", ref)
      BY <1>5, <2>2 DEF StopBegin
    <3>2. /\ "bridge" \in Places /\ "bridge" \notin PastBridge /\ "bridge" \notin PastDrain
          /\ ref \in {0, cycle} /\ ref = tasks
      BY <1>n DEF Places, PastBridge, PastDrain
    <3>3. RestSilent'
      <4>1. ASSUME NEW c \in Cycles, c # tasks PROVE Silent(c)'
        <5>1. Silent(c)
          BY <4>1 DEF Tidy, RestSilent
        <5>2. bridge'[c] = bridge[c]
          BY <1>1, <1>n, <3>1, <4>1 DEF TasksOK
        <5>3. QED
          BY <2>1, <5>1, <5>2 DEF Silent
      <4>2. QED
        BY <2>1, <4>1 DEF RestSilent
    <3>4. FlagsAgree'
      BY <2>1 DEF Tidy, FlagsAgree
    <3>5. ASSUME NEW g \in Callers PROVE Place(g)'
      <4>1. /\ pc'[h] = "bridge" /\ mine'[h] = ref
            /\ g # h => pc'[g] = pc[g] /\ mine'[g] = mine[g]
        BY <1>1, <3>1, AwaitCalls
      <4>2. Place(g)
        BY DEF Tidy
      <4>3. CASE g # h
        BY <1>n, <2>1, <2>2, <4>1, <4>2, <4>3 DEF Place
      <4>4. CASE g = h
        BY <1>n, <2>1, <3>2, <4>1, <4>4 DEF Place
      <4>5. QED
        BY <4>3, <4>4
    <3>6. QED
      BY <3>3, <3>4, <3>5 DEF Tidy
  <2>3. CASE ~(ref # 0 /\ bridge[ref] # "done")
    <3>1. Await(h, "drain", 0) /\ bridge' = bridge
      BY <1>5, <2>3 DEF StopBegin
    <3>2. NoneRevived
      BY <2>1, <3>1 DEF NoneRevived
    <3>3. /\ "drain" \in Places /\ "drain" \notin PastDrain /\ "drain" # "idle"
          /\ tasks # 0 => bridge[tasks] = "done"
      BY <1>n, <2>3 DEF Places, PastDrain
    <3>4. QED
      BY <1>1, <2>1, <3>1, <3>2, <3>3, CallTidy
  <2>4. QED
    BY <2>2, <2>3
<1>6. ASSUME NEW h \in Callers, BridgeAwaited(h) PROVE Tidy'
  <2>1. /\ pc[h] = "bridge" /\ bridge[mine[h]] = "done" /\ Await(h, "drain", 0)
        /\ UNCHANGED held /\ UNCHANGED live /\ cycle' = cycle /\ last' = last
        /\ accept' = accept /\ running' = running
    BY <1>6 DEF BridgeAwaited, flags, past
  <2>2. tasks # 0 => bridge[tasks] = "done"
    BY <1>n, <1>p, <2>1
  <2>3. "drain" \in PastBridge /\ "drain" \notin PastDrain
    BY DEF PastBridge, PastDrain
  <2>4. QED
    BY <1>g, <1>l, <2>1, <2>2, <2>3
<1>7. ASSUME NEW h \in Callers, Drained(h) PROVE Tidy'
  <2>1. /\ pc[h] = "drain" /\ running' = FALSE /\ accept' = accept /\ UNCHANGED live
        /\ cycle' = cycle
    BY <1>7 DEF Drained
  <2>2. "drain" \in PastBridge /\ "gather" \in PastBridge
    BY DEF PastBridge, PastDrain
  <2>3. CASE tasks = 0 /\ Return(h)
    BY <1>t, <2>1, <2>2, <2>3
  <2>4. CASE tasks # 0 /\ Await(h, "gather", tasks) /\ UNCHANGED <<held, last, gathered>>
    <3>1. bridge[tasks] = "done"
      BY <1>p, <2>1, <2>2, <2>4
    <3>2. QED
      BY <1>g, <1>l, <1>n, <2>1, <2>2, <2>4, <3>1
  <2>5. QED
    BY <1>7, <2>3, <2>4 DEF Drained
<1>8. ASSUME NEW h \in Callers, Gathered(h) PROVE Tidy'
  <2>1. /\ pc[h] = "gather" /\ UNCHANGED live /\ UNCHANGED flags /\ cycle' = cycle
        /\ accept' = accept /\ running' = running
    BY <1>8 DEF Gathered, flags
  <2>2. pc[h] \in PastBridge /\ pc[h] \in PastDrain
    BY <2>1 DEF PastBridge, PastDrain
  <2>3. CASE Ended(mine[h], {"done"}) /\ Return(h)
    <3>1. tasks # 0 => \A b \in Backends : worker[tasks][b] \notin Alive
      BY <1>p, <2>1, <2>2, <2>3 DEF Ended, Alive
    <3>2. ~running' /\ running' \in BOOLEAN
      BY <1>1, <1>p, <2>1, <2>2 DEF BooksOK
    <3>3. QED
      BY <1>t, <2>1, <2>2, <2>3, <3>1, <3>2
  <2>4. CASE Raise(h)
    BY <1>r, <2>1, <2>4
  <2>5. QED
    BY <1>8, <2>3, <2>4 DEF Gathered
<1>9. ASSUME NEW h \in Callers, GatherTimeout(h) PROVE Tidy'
  <2>1. /\ pc[h] = "gather" /\ Await(h, "timeout", mine[h]) /\ Cancelled(mine[h])
        /\ UNCHANGED bridge /\ UNCHANGED held /\ cycle' = cycle /\ last' = last
        /\ accept' = accept /\ running' = running
    BY <1>9 DEF GatherTimeout, flags, past
  <2>2. pc[h] \in PastBridge /\ pc[h] \in PastDrain /\ "timeout" \in PastBridge
    BY <2>1 DEF PastBridge, PastDrain
  <2>3. NoneRevived /\ mine[h] \in {0, cycle}
    BY <1>n, <1>p, <1>w, <2>1
  <2>4. (tasks # 0 => bridge[tasks] = "done") /\ ~running
    BY <1>p, <2>1, <2>2
  <2>5. QED
    BY <1>g, <2>1, <2>2, <2>3, <2>4
<1>10. ASSUME NEW h \in Callers, TimeoutRaised(h) PROVE Tidy'
  <2>1. /\ pc[h] = "timeout" /\ UNCHANGED bridge /\ UNCHANGED flags /\ cycle' = cycle
        /\ accept' = accept /\ running' = running
    BY <1>10 DEF TimeoutRaised, flags
  <2>2. pc[h] \in PastBridge /\ pc[h] \in PastDrain /\ "reap" \in PastBridge
    BY <2>1 DEF PastBridge, PastDrain
  <2>3. (tasks # 0 => bridge[tasks] = "done") /\ ~running
    BY <1>p, <2>1, <2>2
  <2>4. CASE Raise(h) /\ UNCHANGED worker
    BY <1>r, <2>1, <2>4 DEF live
  <2>5. CASE tasks = 0 /\ Return(h) /\ UNCHANGED worker
    <3>1. ~running' /\ running' \in BOOLEAN /\ UNCHANGED live
      BY <1>1, <2>1, <2>3, <2>5 DEF BooksOK, live
    <3>2. QED
      BY <1>t, <2>1, <2>2, <2>5, <3>1
  <2>6. CASE /\ tasks # 0 /\ Cancelled(tasks) /\ Await(h, "reap", tasks)
             /\ UNCHANGED <<held, last, gathered>>
    <3>1. NoneRevived
      BY <1>n, <1>w, <2>1, <2>6
    <3>2. QED
      BY <1>g, <1>n, <2>1, <2>2, <2>3, <2>6, <3>1
  <2>7. QED
    BY <1>10, <2>4, <2>5, <2>6 DEF TimeoutRaised
<1>11. ASSUME NEW h \in Callers, Reaped(h) PROVE Tidy'
  <2>1. /\ pc[h] = "reap" /\ Ended(mine[h], Over) /\ Return(h) /\ UNCHANGED live
        /\ cycle' = cycle /\ accept' = accept /\ running' = running
    BY <1>11 DEF Reaped, flags
  <2>2. pc[h] \in PastBridge /\ pc[h] \in PastDrain
    BY <2>1 DEF PastBridge, PastDrain
  <2>3. tasks # 0 => \A b \in Backends : worker[tasks][b] \notin Alive
    BY <1>p, <2>1, <2>2 DEF Ended, Over, Alive
  <2>4. ~running' /\ running' \in BOOLEAN
    BY <1>1, <1>p, <2>1, <2>2 DEF BooksOK
  <2>5. QED
    BY <1>t, <2>1, <2>2, <2>3, <2>4
<1>12. ASSUME NEW h \in Callers, CancelAnswered(h) PROVE Tidy'
  <2>1. /\ pc[h] # "idle" /\ Raise(h) /\ UNCHANGED live /\ UNCHANGED flags /\ cycle' = cycle
    BY <1>12 DEF CancelAnswered
  <2>2. QED
    BY <1>r, <2>1
<1>13. ASSUME NEW h \in Callers, CancelStop(h) PROVE Tidy'
  <2>1. /\ UNCHANGED bridge /\ UNCHANGED flags /\ cycle' = cycle
        /\ accept' = accept /\ running' = running
    BY <1>13 DEF CancelStop, flags
  <2>2. CASE CancelSwallowed(h)
    <3>1. UNCHANGED <<running, tasks, pc, mine, cycle>> /\ last' = last /\ UNCHANGED live
      BY <2>1, <2>2 DEF CancelSwallowed, calls, held, live
    <3>2. QED
      BY <1>l, <2>1, <3>1, TaskTidy
  <2>3. CASE CancelRaised(h)
    <3>1. pc[h] # "idle" /\ Raise(h) /\ UNCHANGED live
      BY <2>1, <2>3 DEF CancelRaised, live
    <3>2. QED
      BY <1>r, <2>1, <3>1
  <2>4. CASE CancelGather(h)
    <3>1. PICK where \in {"gather cancelled", "reap cancelled"} : Await(h, where, mine[h])
      BY <2>4 DEF CancelGather
    <3>2. /\ pc[h] # "idle" /\ pc[h] \in PastBridge /\ pc[h] \in PastDrain
          /\ where \in PastBridge /\ mine[h] \in Cycles
          /\ Cancelled(mine[h]) /\ UNCHANGED held /\ last' = last
      BY <1>n, <2>4 DEF CancelGather, PastBridge, PastDrain
    <3>3. /\ mine[h] \in {0, cycle} /\ ~running /\ (tasks # 0 => bridge[tasks] = "done")
          /\ NoneRevived
      BY <1>p, <1>w, <2>1, <3>2
    <3>4. QED
      BY <1>g, <2>1, <3>1, <3>2, <3>3
  <2>5. QED
    BY <1>13, <2>2, <2>3, <2>4 DEF CancelStop
<1>14. ASSUME NEW c \in Cycles, BridgeEnds(c) PROVE Tidy'
  <2>1. bridge[c] = "cancelling" /\ bridge' = [bridge EXCEPT ![c] = "done"] /\ worker' = worker
    BY <1>14 DEF BridgeEnds
  <2>2. UNCHANGED <<running, tasks, pc, mine, cycle>> /\ accept' = accept /\ last' = last
    BY <1>14 DEF BridgeEnds, flags, held, calls, past
  <2>3. \A d : d # c => bridge'[d] = bridge[d] \/ d \notin Cycles
    BY <1>1, <2>1 DEF TasksOK
  <2>4. bridge'[c] = "done"
    BY <1>1, <2>1 DEF TasksOK
  <2>5. NoneRevived
    BY <2>1, <2>3, <2>4 DEF NoneRevived, Alive
  <2>6. CASE tasks \in Cycles
    BY <2>1, <2>2, <2>3, <2>4, <2>5, <2>6, TaskTidy
  <2>7. CASE tasks \notin Cycles
    <3>1. tasks = 0
      BY <1>n, <2>7
    <3>2. RestSilent'
      BY <2>2, <2>5, SilenceLasts DEF Tidy, RestSilent
    <3>3. FlagsAgree' /\ \A h \in Callers : Place(h)'
      BY <2>2, <3>1 DEF Tidy, FlagsAgree, Place
    <3>4. QED
      BY <3>2, <3>3 DEF Tidy
  <2>8. QED
    BY <2>6, <2>7
<1>15. ASSUME NEW c \in Cycles, NEW b \in Backends,
              WorkerReturns(c, b) \/ WorkerFails(c, b) \/ WorkerCancelled(c, b)
       PROVE  Tidy'
  <2>1. PICK from : \E how \in Over : WorkerEnds(c, b, from, how)
    BY <1>15 DEF WorkerReturns, WorkerFails, WorkerCancelled, Over
  <2>2. PICK how \in Over : WorkerEnds(c, b, from, how)
    BY <2>1
  <2>3. /\ UNCHANGED <<running, tasks, pc, mine, cycle>> /\ accept' = accept /\ last' = last
        /\ bridge' = bridge
    BY <2>2 DEF WorkerEnds, flags, held, calls, past
  <2>4. NoneRevived
    BY <1>1, <2>2, <2>3, WorkerEndsTypes DEF NoneRevived
  <2>5. QED
    BY <2>3, <2>4, TaskTidy
<1>16. CASE UNCHANGED vars
  <2>1. /\ UNCHANGED <<running, tasks, pc, mine, cycle>> /\ accept' = accept /\ last' = last
        /\ UNCHANGED live
    BY <1>16 DEF vars, flags, held, calls, past
  <2>2. QED
    BY <1>l, <2>1, TaskTidy
<1>17. QED
  BY <1>2, <1>3, <1>4, <1>5, <1>6, <1>7, <1>8, <1>9, <1>10, <1>11, <1>12, <1>13, <1>14,
     <1>15, <1>16 DEF Next, StopStep

(***************************************************************************)
(* The invariant, and what follows from it.                                *)
(***************************************************************************)

\* A handler that nobody has started satisfies the invariant.
LEMMA InitLInv == Init => LInv
<1> SUFFICES ASSUME Init PROVE LInv
  OBVIOUS
<1>1. Held /\ cycle = 0 /\ tasks = 0
  BY DEF Init, Held
<1>2. BooksOK
  <2>1. tasks \in 0..cycle /\ cycle \in 0..MaxCycles /\ cancels \in 0..MaxCancels
    BY <1>1, LifecycleAssumption DEF Init
  <2>2. closed \in BOOLEAN /\ accept \in BOOLEAN /\ running \in BOOLEAN /\ tidy \in BOOLEAN
    BY DEF Init
  <2>3. last \in {"none", "returned", "raised"} /\ gathered \subseteq Cycles
    BY DEF Init
  <2>4. QED
    BY <2>1, <2>2, <2>3 DEF BooksOK
<1>3. TasksOK
  BY DEF Init, TasksOK, WorkerStates
<1>4. CallsOK
  BY DEF Init, CallsOK, Places
<1>5. RestSilent
  BY DEF Init, RestSilent, Silent, Alive
<1>6. FlagsAgree
  BY DEF Init, FlagsAgree
<1>7. ASSUME NEW h \in Callers PROVE Place(h)
  BY DEF Init, Place, PastBridge, PastDrain
<1>8. QED
  BY <1>1, <1>2, <1>3, <1>4, <1>5, <1>6, <1>7, Parts DEF LInv, Tidy

\* A step never makes an untidy run tidy again.
LEMMA TidyOnlyLost ==
  ASSUME [Next]_vars, tidy'
  PROVE  tidy
<1>1. CASE Start
  BY <1>1 DEF Start
<1>2. CASE Close \/ StopNothing
  BY <1>2 DEF Close, StopNothing, past
<1>3. ASSUME NEW h \in Callers, StopBegin(h) \/ StopStep(h) \/ CancelStop(h) PROVE tidy
  <2>1. CASE StopBegin(h) \/ BridgeAwaited(h) \/ GatherTimeout(h)
    BY <2>1 DEF StopBegin, BridgeAwaited, GatherTimeout, past
  <2>2. CASE Drained(h) \/ Gathered(h) \/ TimeoutRaised(h) \/ Reaped(h) \/ CancelAnswered(h)
    <3>1. tidy' = tidy
      BY <2>2 DEF Drained, Gathered, TimeoutRaised, Reaped, CancelAnswered
    <3>2. QED
      BY <3>1
  <2>3. CASE CancelStop(h)
    BY <2>3 DEF CancelStop
  <2>4. QED
    BY <1>3, <2>1, <2>2, <2>3 DEF StopStep
<1>4. ASSUME NEW c \in Cycles, BridgeEnds(c) PROVE tidy
  BY <1>4 DEF BridgeEnds, past
<1>5. ASSUME NEW c \in Cycles, NEW b \in Backends,
             WorkerReturns(c, b) \/ WorkerFails(c, b) \/ WorkerCancelled(c, b)
      PROVE  tidy
  BY <1>5 DEF WorkerReturns, WorkerFails, WorkerCancelled, WorkerEnds, past
<1>6. CASE UNCHANGED vars
  BY <1>6 DEF vars, past
<1>7. QED
  BY <1>1, <1>2, <1>3, <1>4, <1>5, <1>6 DEF Next

\* Every step keeps the invariant.
LEMMA StepLInv == LInv /\ [Next]_vars => LInv'
<1> SUFFICES ASSUME LInv, [Next]_vars PROVE LInv'
  OBVIOUS
<1>1. TypeOK' /\ Held'
  BY TypesStep DEF LInv
<1>2. tidy' => Tidy'
  BY TidyOnlyLost, TidyStep DEF LInv
<1>3. QED
  BY <1>1, <1>2 DEF LInv

\* LInv holds in every reachable state, for any number of host tasks in
\* stop_logging, backends, starts and cancellations.
THEOREM LifecycleInductive == Spec => []LInv
BY InitLInv, StepLInv, PTL DEF Spec

\* Type correctness: among others, a stop awaits the tasks of a cycle that exists.
THEOREM LifecycleTypes == Spec => []TypeOK
<1>1. LInv => TypeOK
  BY DEF LInv
<1>2. QED
  BY <1>1, LifecycleInductive, PTL

\* As long as every start was tidy: however stops overlap, are cancelled or are cut
\* short by a dead worker, no bridge or worker task is alive that the handler has
\* forgotten, so that a later stop_logging can end every task.
THEOREM NoTaskOrphaned == Spec => []NoOrphanTasks
<1>1. LInv => NoOrphanTasks
  <2> SUFFICES ASSUME LInv, tidy PROVE NoOrphanTasks
    BY DEF NoOrphanTasks
  <2>1. RestSilent /\ ref = tasks
    BY DEF LInv, Tidy, Held
  <2>2. QED
    BY <2>1 DEF NoOrphanTasks, RestSilent, Silent
<1>2. QED
  BY <1>1, LifecycleInductive, PTL

\* As long as every start was tidy, the accept event is raised only over the ingress
\* of the running cycle with that cycle's bridge alive, however stops overlap, raise or
\* are cancelled.  Without tidy it is false: the tail of a stop that was in its gather
\* when logging was started again releases the new cycle's references.
THEOREM AcceptServed == Spec => []AcceptMeansServed
<1>1. LInv => AcceptMeansServed
  <2> SUFFICES ASSUME LInv, tidy, accept
               PROVE  ref # 0 /\ tasks = ref /\ bridge[ref] = "running" /\ running
    BY DEF AcceptMeansServed
  <2>1. FlagsAgree /\ ref = tasks
    BY DEF LInv, Tidy, Held
  <2>2. QED
    BY <2>1 DEF FlagsAgree
<1>2. QED
  BY <1>1, LifecycleInductive, PTL

\* As long as every start was tidy: a stop_logging that returns normally has left
\* nothing alive and nothing held, also when it overlapped with others or was the
\* retry of one that raised.
THEOREM ReturnClean == Spec => []ReturnLeavesNothing
<1>1. LInv => ReturnLeavesNothing
  <2> SUFFICES ASSUME LInv, tidy, last = "returned"
               PROVE  /\ tasks = 0 /\ ref = 0 /\ ~accept
                      /\ \A c \in Cycles : bridge[c] \notin Alive /\ Ended(c, {"none"} \union Over)
    BY DEF ReturnLeavesNothing
  <2>1. RestSilent /\ FlagsAgree /\ ref = tasks /\ TasksOK
    BY Parts DEF LInv, Tidy, Held
  <2>2. tasks = 0 /\ ref = 0 /\ ~accept
    BY <2>1 DEF FlagsAgree
  <2>3. ASSUME NEW c \in Cycles
        PROVE  bridge[c] \notin Alive /\ Ended(c, {"none"} \union Over)
    <3>1. Silent(c)
      BY <2>1, <2>2 DEF RestSilent, Cycles
    <3>2. ASSUME NEW b \in Backends PROVE worker[c][b] \in {"none"} \union Over
      <4>1. worker[c][b] \in WorkerStates
        BY <2>1 DEF TasksOK
      <4>2. QED
        BY <3>1, <4>1 DEF Silent, WorkerStates
    <3>3. QED
      BY <3>1, <3>2 DEF Silent, Ended
  <2>4. QED
    BY <2>2, <2>3
<1>2. QED
  BY <1>1, LifecycleInductive, PTL

=============================================================================

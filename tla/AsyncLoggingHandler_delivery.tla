--------------------- MODULE AsyncLoggingHandler_delivery ---------------------
(***************************************************************************)
(* What AsyncLoggingHandler does with the records, for every set of        *)
(* emitters and backends, every queue bound and every number of cycles:    *)
(* none is lost, sinks see them in put order, a drain result means what it *)
(* says, and the whole implements RecordDelivery.                          *)
(*                                                                         *)
(* DInv adds to IInv where the records are: every sequence is ascending by *)
(* ticket and a backend holds older records than the current ingress       *)
(* (Ordered), no record is in two places (Apart), a record has a fate from *)
(* its put on (Issued), what is handled is older than what is not          *)
(* (HandledFirst), and what the drain results and `cut' say (Drains).      *)
(***************************************************************************)
EXTENDS AsyncLoggingHandler_proofs

\* Ascending by ticket; a status record comes after every ticket.
Ascending(s) ==
  \A i, j \in 1..Len(s) : i < j /\ s[j] # StatusRecord => s[i] < s[j]

AtBackend(b) == (Range(queue[b]) \cap Tickets) \cup InHand(b)

InIngress(c) == Range(ingress[c])

\* The records that the bridge or the flush can still move.
Movable == IF ref = None THEN {} ELSE InIngress(ref)

Ordered ==
  /\ \A c \in Cycles : Ascending(ingress[c])
  /\ \A b \in Backends : Ascending(queue[b])
  /\ \A b \in Backends : \A t \in Range(queue[b]) \cap Tickets :
       hand[b] \in Tickets => hand[b] < t
  /\ \A b \in Backends : \A t \in AtBackend(b) : \A u \in Movable : t < u

Apart ==
  /\ \A c, d \in Cycles : c # d => InIngress(c) \cap InIngress(d) = {}
  /\ \A c \in Cycles \ {ref} : \A b \in Backends : InIngress(c) \cap AtBackend(b) = {}

Issued ==
  /\ \A c \in Cycles : \A t \in InIngress(c) : t <= tickets
  /\ \A b \in Backends : \A t \in Tickets : fate[b][t] = "none" <=> t > tickets

HandledFirst ==
  \A b \in Backends : \A u \in Tickets : fate[b][u] \in Handled =>
    \A t \in AtBackend(b) \cup Movable : u < t

Drains ==
  /\ cut <= tickets
  /\ stop \in {"idle", "flush"} => \A b \in Backends : result[b] = "none"
  /\ stop \in {"join", "cancel"} => \A b \in Backends : result[b] # "none"
  /\ \A b \in Backends : worker[b] = "cancelled" => stop = "cancel"
  /\ \A b \in Backends : result[b] = "COMPLETED" => AtBackend(b) = {}
  /\ stop \in {"drain", "join", "cancel"} => \A t \in Movable : t > cut

DInv == /\ IInv /\ Ordered /\ Apart /\ Issued /\ HandledFirst
        /\ Drains /\ Conserved
(***************************************************************************)
(* Sequences: taking the first record, putting one last, and appending     *)
(* status records.                                                         *)
(***************************************************************************)

\* The range of a sequence is the set of its elements.
LEMMA Elements ==
  ASSUME NEW s \in Seq(Nat)
  PROVE  /\ \A t : t \in Range(s) <=> \E i \in 1..Len(s) : t = s[i]
         /\ Range(s) \subseteq Nat
BY DEF Range

\* get_nowait() takes the oldest record and leaves the others in order.
LEMMA TakeFirst ==
  ASSUME NEW s \in Seq(Nat), s # <<>>, Ascending(s)
  PROVE  /\ Ascending(Tail(s))
         /\ Range(s) = {Head(s)} \cup Range(Tail(s))
         /\ \A t \in Range(Tail(s)) : t # StatusRecord => Head(s) < t
<1>1. /\ Head(s) = s[1] /\ Len(s) \in Nat /\ Len(s) >= 1
      /\ Tail(s) \in Seq(Nat) /\ Len(Tail(s)) = Len(s) - 1
      /\ \A i \in 1..(Len(s) - 1) : Tail(s)[i] = s[i + 1]
  BY HeadTailProperties, EmptySeq
<1>e. /\ \A t : t \in Range(s) <=> \E i \in 1..Len(s) : t = s[i]
      /\ \A t : t \in Range(Tail(s)) <=> \E i \in 1..(Len(s) - 1) : t = Tail(s)[i]
  <2>1. \A t : t \in Range(Tail(s)) <=> \E i \in 1..Len(Tail(s)) : t = Tail(s)[i]
    BY <1>1, Elements
  <2>2. QED
    BY <1>1, <2>1, Elements
<1>2. Ascending(Tail(s))
  <2> SUFFICES ASSUME NEW i \in 1..(Len(s) - 1), NEW j \in 1..(Len(s) - 1), i < j,
                      Tail(s)[j] # StatusRecord
               PROVE  Tail(s)[i] < Tail(s)[j]
    BY <1>1 DEF Ascending
  <2>1. i + 1 \in 1..Len(s) /\ j + 1 \in 1..Len(s) /\ i + 1 < j + 1
    BY <1>1
  <2>2. QED
    BY <1>1, <2>1 DEF Ascending
<1>3. Range(s) = {Head(s)} \cup Range(Tail(s))
  <2>1. ASSUME NEW t \in Range(s) PROVE t \in {Head(s)} \cup Range(Tail(s))
    <3>1. PICK i \in 1..Len(s) : t = s[i]
      BY <1>e
    <3>2. CASE i = 1
      BY <1>1, <3>1, <3>2
    <3>3. CASE i # 1
      <4>1. i - 1 \in 1..(Len(s) - 1) /\ (i - 1) + 1 = i
        BY <1>1, <3>3
      <4>2. Tail(s)[i - 1] = s[(i - 1) + 1]
        BY <1>1, <4>1
      <4>3. Tail(s)[i - 1] = t
        BY <3>1, <4>1, <4>2
      <4>4. QED
        BY <1>e, <4>1, <4>3
    <3>4. QED
      BY <3>2, <3>3
  <2>2. ASSUME NEW t \in Range(Tail(s)) PROVE t \in Range(s)
    <3>1. PICK i \in 1..(Len(s) - 1) : t = Tail(s)[i]
      BY <1>1, <1>e
    <3>2. i + 1 \in 1..Len(s) /\ t = s[i + 1]
      BY <1>1, <3>1
    <3>3. QED
      BY <3>2, <1>e
  <2>3. Head(s) \in Range(s)
    BY <1>1, <1>e
  <2>4. QED
    BY <2>1, <2>2, <2>3
<1>4. ASSUME NEW t \in Range(Tail(s)), t # StatusRecord PROVE Head(s) < t
  <2>1. PICK i \in 1..(Len(s) - 1) : t = Tail(s)[i]
    BY <1>1, <1>e
  <2>2. i + 1 \in 1..Len(s) /\ 1 < i + 1 /\ t = s[i + 1]
    BY <1>1, <2>1
  <2>3. QED
    BY <1>1, <1>4, <2>2 DEF Ascending
<1>5. QED
  BY <1>2, <1>3, <1>4

\* put_nowait() of a record that is newer than all of the queue.
LEMMA PutLast ==
  ASSUME NEW s \in Seq(Nat), Ascending(s),
         NEW t \in Nat, \A u \in Range(s) : u < t
  PROVE  /\ Ascending(Append(s, t))
         /\ Range(Append(s, t)) = Range(s) \cup {t}
<1>1. /\ Len(s) \in Nat /\ Append(s, t) \in Seq(Nat)
      /\ Len(Append(s, t)) = Len(s) + 1
      /\ Append(s, t)[Len(s) + 1] = t
      /\ \A i \in 1..Len(s) : Append(s, t)[i] = s[i]
  OBVIOUS
<1>e. /\ \A u : u \in Range(s) <=> \E i \in 1..Len(s) : u = s[i]
      /\ \A u : u \in Range(Append(s, t))
                <=> \E i \in 1..(Len(s) + 1) : u = Append(s, t)[i]
  <2>1. \A u : u \in Range(Append(s, t))
                <=> \E i \in 1..Len(Append(s, t)) : u = Append(s, t)[i]
    BY <1>1, Elements
  <2>2. QED
    BY <1>1, <2>1, Elements
<1>2. Ascending(Append(s, t))
  <2> SUFFICES ASSUME NEW i \in 1..(Len(s) + 1), NEW j \in 1..(Len(s) + 1), i < j,
                      Append(s, t)[j] # StatusRecord
               PROVE  Append(s, t)[i] < Append(s, t)[j]
    BY <1>1 DEF Ascending
  <2>1. i \in 1..Len(s)
    BY <1>1
  <2>2. CASE j = Len(s) + 1
    BY <1>1, <2>1, <2>2, <1>e
  <2>3. CASE j # Len(s) + 1
    <3>1. j \in 1..Len(s)
      BY <1>1, <2>3
    <3>2. QED
      BY <1>1, <2>1, <3>1 DEF Ascending
  <2>4. QED
    BY <2>2, <2>3
<1>3. Range(Append(s, t)) = Range(s) \cup {t}
  <2>1. ASSUME NEW u \in Range(Append(s, t)) PROVE u \in Range(s) \cup {t}
    <3>1. PICK i \in 1..(Len(s) + 1) : u = Append(s, t)[i]
      BY <1>1, <1>e
    <3>2. QED
      BY <1>1, <3>1, <1>e
  <2>2. ASSUME NEW u \in Range(s) \cup {t} PROVE u \in Range(Append(s, t))
    <3>1. CASE u = t
      BY <1>1, <3>1, <1>e
    <3>2. CASE u \in Range(s)
      <4>1. PICK i \in 1..Len(s) : u = s[i]
        BY <3>2, <1>e
      <4>2. i \in 1..(Len(s) + 1) /\ u = Append(s, t)[i]
        BY <1>1, <4>1
      <4>3. QED
        BY <1>1, <4>2, <1>e
    <3>3. QED
      BY <2>2, <3>1, <3>2
  <2>3. QED
    BY <2>1, <2>2
<1>4. QED
  BY <1>2, <1>3

\* report_status appends records that are no tickets.
LEMMA PutStatus ==
  ASSUME NEW s \in Seq(Nat), Ascending(s), NEW n \in Nat, NEW r,
         r = s \o [i \in 1..n |-> StatusRecord]
  PROVE  /\ Ascending(r)
         /\ Range(r) \ {StatusRecord} = Range(s) \ {StatusRecord}
<1> DEFINE z == [i \in 1..n |-> StatusRecord]
<1>1. z \in Seq(Nat) /\ Len(z) = n /\ \A i \in 1..n : z[i] = StatusRecord
  BY DEF StatusRecord
<1> HIDE DEF z
<1>2. /\ Len(s) \in Nat /\ r \in Seq(Nat) /\ Len(r) = Len(s) + n
      /\ \A i \in 1..(Len(s) + n) : r[i] = IF i <= Len(s) THEN s[i] ELSE z[i - Len(s)]
  BY <1>1, ConcatProperties DEF z
<1>3. \A i \in 1..(Len(s) + n) : r[i] = IF i <= Len(s) THEN s[i] ELSE StatusRecord
  BY <1>1, <1>2
<1>e. /\ \A u : u \in Range(s) <=> \E i \in 1..Len(s) : u = s[i]
      /\ \A u : u \in Range(r) <=> \E i \in 1..(Len(s) + n) : u = r[i]
  <2>1. \A u : u \in Range(r) <=> \E i \in 1..Len(r) : u = r[i]
    BY <1>2, Elements
  <2>2. QED
    BY <1>2, <2>1, Elements
<1>4. Ascending(r)
  BY <1>2, <1>3 DEF Ascending
<1>5. ASSUME NEW u \in Range(r), u # StatusRecord PROVE u \in Range(s)
  <2>1. PICK i \in 1..(Len(s) + n) : u = r[i]
    BY <1>2, <1>e
  <2>2. i \in 1..Len(s) /\ u = s[i]
    BY <1>2, <1>3, <1>5, <2>1
  <2>3. QED
    BY <2>2, <1>e
<1>6. ASSUME NEW u \in Range(s) PROVE u \in Range(r)
  <2>1. PICK i \in 1..Len(s) : u = s[i]
    BY <1>e
  <2>2. i \in 1..(Len(s) + n) /\ u = r[i]
    BY <1>2, <1>3, <2>1
  <2>3. QED
    BY <1>2, <2>2, <1>e
<1>7. QED
  BY <1>4, <1>5, <1>6

(***************************************************************************)
(* Effects: what each step that touches a record does to the places where  *)
(* records are.                                                            *)
(***************************************************************************)
\* An emit() whose put_nowait() found room.
Puts(e) == EmitPut(e) /\ Enqueue(cap[e].ingress)

\* A worker is through with the record in its hand.
Leaves(b, outcome) ==
  Finish(b, outcome) /\ UNCHANGED <<ref, ingress, queue, tickets>>

pipeline == <<ref, ingress, queue, hand, tickets, fate>>

\* The steps that change the reference to the ingress.
Rerefers == StartIngress \/ ReleaseIngress

\* The sequences and sets of records have their types.
LEMMA Places ==
  ASSUME TypeOK
  PROVE  /\ \A c \in Cycles : /\ ingress[c] \in Seq(Nat) /\ ingress[c] \in Seq(Tickets)
                              /\ InIngress(c) \subseteq Tickets
         /\ \A b \in Backends : /\ queue[b] \in Seq(Nat)
                                /\ Range(queue[b]) \subseteq Tickets \cup {StatusRecord}
                                /\ AtBackend(b) \subseteq Tickets
         /\ Movable \subseteq Tickets
         /\ ref # None => ref \in Cycles
         /\ Tickets \subseteq Nat /\ StatusRecord \notin Tickets /\ NoRecord \notin Tickets
<1>1. /\ Tickets \subseteq Nat /\ Tickets \cup {StatusRecord} \subseteq Nat
      /\ StatusRecord \notin Tickets /\ NoRecord \notin Tickets
  BY SizesAssumption DEF Tickets, StatusRecord, NoRecord
<1>2. ASSUME NEW c \in Cycles
      PROVE  /\ ingress[c] \in Seq(Nat) /\ ingress[c] \in Seq(Tickets)
             /\ InIngress(c) \subseteq Tickets
  <2>1. ingress[c] \in Seq(Tickets)
    BY DEF TypeOK
  <2>2. QED
    BY <1>1, <2>1, SeqMonotonic DEF InIngress, Range
<1>3. ASSUME NEW b \in Backends
      PROVE  /\ queue[b] \in Seq(Nat)
             /\ Range(queue[b]) \subseteq Tickets \cup {StatusRecord}
             /\ AtBackend(b) \subseteq Tickets
  <2>1. queue[b] \in Seq(Tickets \cup {StatusRecord})
    BY DEF TypeOK
  <2>2. queue[b] \in Seq(Nat)
    BY <1>1, <2>1, SeqMonotonic
  <2>3. Range(queue[b]) \subseteq Tickets \cup {StatusRecord}
    BY <2>1 DEF Range
  <2>4. QED
    BY <2>2, <2>3 DEF AtBackend, InHand
<1>4. ref # None => ref \in Cycles
  BY SizesAssumption DEF TypeOK, None, Cycles
<1>5. QED
  BY <1>1, <1>2, <1>3, <1>4 DEF Movable

\* Only these steps touch a record or the reference to the ingress.
LEMMA PipelineSteps ==
  ASSUME IInv, [Next]_vars
  PROVE  \/ UNCHANGED pipeline
         \/ \E e \in Emitters : Puts(e)
         \/ BridgeMove \/ FlushMove
         \/ \E b \in Backends : WorkerGet(b) \/ WorkerDone(b) \/ WorkerCancelled(b)
         \/ Rerefers \/ StopReport \/ ClearQueues \/ SweepRecord
<1> USE DEF pipeline, vars, flags, refs, wakeups, backends, stopping, emits, history
<1>1. ASSUME NEW e \in Emitters, EmitStep(e)
      PROVE  UNCHANGED pipeline \/ Puts(e)
  <2>1. ASSUME EmitPut(e), ~Puts(e) PROVE UNCHANGED pipeline
    BY <2>1 DEF EmitPut, Puts
  <2>2. ASSUME \/ EmitCheck(e) \/ EmitReadIngress(e) \/ EmitReadLoop(e)
               \/ EmitReadEvent(e) \/ EmitWake(e)
        PROVE  UNCHANGED pipeline
    BY <2>2 DEF EmitCheck, EmitReadIngress, EmitReadLoop, EmitReadEvent, EmitWake
  <2> HIDE DEF pipeline
  <2>3. QED
    BY <1>1, <2>1, <2>2 DEF EmitStep
<1>2. ASSUME NEW c \in Cycles, SetEvent(c) PROVE UNCHANGED pipeline
  BY <1>2 DEF SetEvent
<1>3. CASE BridgeStep
  BY <1>3 DEF BridgeStep, BridgeWake, BridgeWait
<1>4. ASSUME NEW b \in Backends, WorkerStep(b)
      PROVE  \/ UNCHANGED pipeline
             \/ WorkerGet(b) \/ WorkerDone(b) \/ WorkerCancelled(b)
  BY <1>4 DEF WorkerStep, WorkerExit
<1>5. CASE StartStep \/ Close
  BY <1>5 DEF StartStep, StartCheck, StartLoop, StartEvent, StartFinish, Close, Rerefers
<1>6. CASE StopStep
  BY <1>6 DEF StopStep, StopBegin, FlushBegin, FlushEnd, DrainCompleted, DrainTimeout,
              StopTimeout, ReleaseLoop, ReleaseEvent, Rerefers
<1>7. CASE Quiescent \/ UNCHANGED vars
  BY <1>7 DEF Quiescent
<1>8. QED
  BY <1>1, <1>2, <1>3, <1>4, <1>5, <1>6, <1>7 DEF Next

\* Nothing moves when the pipeline does not change.
LEMMA StillEffect ==
  ASSUME UNCHANGED pipeline
  PROVE  /\ UNCHANGED <<ref, ingress, queue, hand, tickets, fate, Movable>>
         /\ \A c \in Cycles : InIngress(c)' = InIngress(c)
         /\ \A b \in Backends : AtBackend(b)' = AtBackend(b)
BY DEF pipeline, Movable, InIngress, AtBackend, InHand

\* emit() puts the newest record last into the ingress it captured.
LEMMA PutEffect ==
  ASSUME DInv, NEW e \in Emitters, Puts(e)
  PROVE  /\ cap[e].ingress \in Cycles
         /\ tickets + 1 \in Tickets /\ tickets' = tickets + 1
         /\ UNCHANGED <<ref, queue, hand>>
         /\ Movable' \subseteq Movable \cup {tickets + 1}
         /\ \A c \in Cycles :
              /\ Ascending(ingress'[c])
              /\ InIngress(c)' = IF c = cap[e].ingress
                                 THEN InIngress(c) \cup {tickets + 1} ELSE InIngress(c)
         /\ \A b \in Backends : AtBackend(b)' = AtBackend(b)
         /\ \A b \in Backends : \A t \in Tickets :
              fate'[b][t] = IF t = tickets + 1 THEN "pending" ELSE fate[b][t]
<1> DEFINE k == cap[e].ingress
<1>1. TypeOK /\ Captured /\ Ordered /\ Issued /\ Admitted
  BY DEF DInv, IInv
<1>2. k \in Cycles
  BY <1>1 DEF Puts, EmitPut, At, Captured
<1>3. tickets + 1 \in Tickets
  <2>1. e \in InFlight
    BY DEF Puts, EmitPut, At, InFlight, Reading
  <2>2. QED
    BY <1>1, <2>1, InFlightCount, SizesAssumption DEF Admitted, TypeOK, Tickets
<1>4. /\ tickets' = tickets + 1 /\ UNCHANGED <<ref, queue, hand>>
      /\ ingress' = [ingress EXCEPT ![k] = Append(@, tickets + 1)]
      /\ fate' = [b \in Backends |-> [fate[b] EXCEPT ![tickets + 1] = "pending"]]
  BY DEF Puts, EmitPut, Enqueue, flags, refs, backends
<1>5. ASSUME NEW c \in Cycles
      PROVE  /\ Ascending(ingress'[c])
             /\ InIngress(c)' = IF c = k THEN InIngress(c) \cup {tickets + 1}
                                ELSE InIngress(c)
  <2>1. ingress[c] \in Seq(Nat) /\ Ascending(ingress[c]) /\ tickets + 1 \in Nat
    BY <1>1, <1>3, Places DEF Ordered
  <2>2. \A u \in Range(ingress[c]) : u < tickets + 1
    <3>1. ASSUME NEW u \in Range(ingress[c]) PROVE u < tickets + 1
      <4>1. u \in Nat /\ u <= tickets /\ tickets \in Nat
        BY <1>1, <2>1, Elements DEF Issued, InIngress, TypeOK
      <4>2. QED
        BY <4>1
    <3>2. QED
      BY <3>1
  <2>3. CASE c = k
    <3>1. ingress'[c] = Append(ingress[c], tickets + 1)
      BY <1>1, <1>4, <2>3 DEF TypeOK
    <3>2. QED
      BY <2>1, <2>2, <2>3, <3>1, PutLast DEF InIngress
  <2>4. CASE c # k
    <3>1. ingress'[c] = ingress[c]
      BY <1>1, <1>4, <2>4 DEF TypeOK
    <3>2. QED
      BY <2>1, <2>4, <3>1 DEF InIngress
  <2>5. QED
    BY <2>3, <2>4
<1>6. \A b \in Backends : AtBackend(b)' = AtBackend(b)
  BY <1>4 DEF AtBackend, InHand
<1>7. ASSUME NEW b \in Backends, NEW t \in Tickets
      PROVE  fate'[b][t] = IF t = tickets + 1 THEN "pending" ELSE fate[b][t]
  <2>1. fate[b] \in [Tickets -> Fates]
    BY <1>1 DEF TypeOK
  <2>2. QED
    BY <1>4, <2>1
<1>8. Movable' \subseteq Movable \cup {tickets + 1}
  <2>1. ref # None => ref \in Cycles
    BY <1>1, Places
  <2>2. ref' = ref /\ \A c \in Cycles : InIngress(c)' \subseteq InIngress(c) \cup {tickets + 1}
    BY <1>4, <1>5
  <2>3. QED
    BY <2>1, <2>2 DEF Movable
<1>9. QED
  BY <1>2, <1>3, <1>4, <1>5, <1>6, <1>7, <1>8

\* get_nowait() on the current ingress, by the bridge, the flush or the sweep.
LEMMA TakeEffect ==
  ASSUME DInv, ref # None, ingress[ref] # <<>>, ref' = ref,
         ingress' = [ingress EXCEPT ![ref] = Tail(@)]
  PROVE  /\ ref \in Cycles /\ Head(ingress[ref]) \in Tickets
         /\ Movable = InIngress(ref) /\ Head(ingress[ref]) \in Movable
         /\ Movable' = Movable \ {Head(ingress[ref])}
         /\ \A c \in Cycles :
              /\ Ascending(ingress'[c])
              /\ InIngress(c)' = InIngress(c) \ {Head(ingress[ref])}
         /\ \A u \in Movable' : Head(ingress[ref]) < u
<1> DEFINE h == Head(ingress[ref])
<1>1. TypeOK /\ Ordered /\ Apart
  BY DEF DInv, IInv
<1>2. ref \in Cycles /\ ingress[ref] \in Seq(Nat)
  BY <1>1, Places
<1>3. /\ Ascending(Tail(ingress[ref]))
      /\ Range(ingress[ref]) = {h} \cup Range(Tail(ingress[ref]))
      /\ \A t \in Range(Tail(ingress[ref])) : t # StatusRecord => h < t
  BY <1>1, <1>2, TakeFirst DEF Ordered
<1>4. h \in InIngress(ref) /\ h \in Tickets /\ h \in Nat
  BY <1>1, <1>2, <1>3, Places DEF InIngress
<1>5. ingress'[ref] = Tail(ingress[ref])
  BY <1>1, <1>2 DEF TypeOK
<1>6. /\ \A u \in Range(Tail(ingress[ref])) : h < u
      /\ h \notin Range(Tail(ingress[ref]))
  <2>1. StatusRecord \notin Range(ingress[ref])
    BY <1>1, <1>2, Places DEF InIngress
  <2>2. \A u \in Range(Tail(ingress[ref])) : h < u
    BY <1>3, <2>1
  <2>3. QED
    BY <1>4, <2>2
<1>7. ASSUME NEW c \in Cycles
      PROVE  Ascending(ingress'[c]) /\ InIngress(c)' = InIngress(c) \ {h}
  <2>1. CASE c = ref
    BY <1>3, <1>5, <1>6, <2>1 DEF InIngress
  <2>2. CASE c # ref
    <3>1. ingress'[c] = ingress[c]
      BY <1>1, <1>2, <2>2 DEF TypeOK
    <3>2. h \notin InIngress(c)
      BY <1>1, <1>2, <1>4, <2>2 DEF Apart
    <3>3. Ascending(ingress[c])
      BY <1>1 DEF Ordered
    <3>4. QED
      BY <3>1, <3>2, <3>3 DEF InIngress
  <2>3. QED
    BY <2>1, <2>2
<1>8. /\ Movable = InIngress(ref) /\ h \in Movable
      /\ Movable' = Movable \ {h} /\ \A u \in Movable' : h < u
  <2>1. Movable = InIngress(ref) /\ Movable' = Range(Tail(ingress[ref]))
    BY <1>2, <1>5 DEF Movable, InIngress
  <2>2. QED
    BY <1>3, <1>4, <1>6, <2>1 DEF InIngress
<1>9. QED
  BY <1>2, <1>4, <1>7, <1>8

\* The fan-out takes the oldest record of the current ingress and puts it last
\* into every backend queue that has room.
LEMMA MoveEffect ==
  ASSUME DInv, MoveRecord
  PROVE  /\ ref \in Cycles /\ ref # None /\ Head(ingress[ref]) \in Tickets
         /\ Movable = InIngress(ref) /\ Head(ingress[ref]) \in Movable
         /\ Movable' = Movable \ {Head(ingress[ref])}
         /\ UNCHANGED <<ref, hand, tickets>>
         /\ \A c \in Cycles :
              /\ Ascending(ingress'[c])
              /\ InIngress(c)' = InIngress(c) \ {Head(ingress[ref])}
         /\ \A u \in Movable' : Head(ingress[ref]) < u
         /\ \A b \in Backends :
              /\ Ascending(queue'[b])
              /\ Range(queue'[b]) = IF HasRoom(b)
                                    THEN Range(queue[b]) \cup {Head(ingress[ref])}
                                    ELSE Range(queue[b])
              /\ AtBackend(b)' = IF HasRoom(b)
                                 THEN AtBackend(b) \cup {Head(ingress[ref])}
                                 ELSE AtBackend(b)
         /\ \A b \in Backends : \A t \in Tickets :
              fate'[b][t] = IF ~HasRoom(b) /\ t = Head(ingress[ref])
                            THEN "overflow" ELSE fate[b][t]
<1> DEFINE h == Head(ingress[ref])
<1>1. TypeOK /\ Ordered
  BY DEF DInv, IInv
<1>2. /\ ref # None /\ ingress[ref] # <<>>
      /\ FanOut(h) /\ ingress' = [ingress EXCEPT ![ref] = Tail(@)]
      /\ UNCHANGED <<ref, hand, tickets>>
  BY DEF MoveRecord, flags, refs
<1>3. /\ ref \in Cycles /\ h \in Tickets
      /\ Movable = InIngress(ref) /\ h \in Movable /\ Movable' = Movable \ {h}
      /\ \A c \in Cycles : Ascending(ingress'[c]) /\ InIngress(c)' = InIngress(c) \ {h}
      /\ \A u \in Movable' : h < u
  BY <1>2, TakeEffect
<1>4. h \in Nat
  BY <1>1, <1>3, Places
<1>5. ASSUME NEW b \in Backends
      PROVE  /\ Ascending(queue'[b])
             /\ Range(queue'[b]) = IF HasRoom(b) THEN Range(queue[b]) \cup {h}
                                   ELSE Range(queue[b])
             /\ AtBackend(b)' = IF HasRoom(b) THEN AtBackend(b) \cup {h}
                                ELSE AtBackend(b)
  <2>1. queue'[b] = IF HasRoom(b) THEN Append(queue[b], h) ELSE queue[b]
    BY <1>2 DEF FanOut
  <2>2. queue[b] \in Seq(Nat) /\ Ascending(queue[b])
    BY <1>1, Places DEF Ordered
  <2>3. ASSUME NEW u \in Range(queue[b]) PROVE u < h
    <3>1. CASE u = StatusRecord
      BY <1>3, <3>1, SizesAssumption DEF StatusRecord, Tickets
    <3>2. CASE u # StatusRecord
      <4>1. u \in AtBackend(b)
        BY <1>1, <3>2, Places DEF AtBackend
      <4>2. QED
        BY <1>1, <1>3, <4>1 DEF Ordered
    <3>3. QED
      BY <3>1, <3>2
  <2>4. Ascending(Append(queue[b], h)) /\ Range(Append(queue[b], h)) = Range(queue[b]) \cup {h}
    BY <1>4, <2>2, <2>3, PutLast
  <2>5. Range(queue'[b]) = IF HasRoom(b) THEN Range(queue[b]) \cup {h} ELSE Range(queue[b])
    BY <2>1, <2>4
  <2>6. InHand(b)' = InHand(b)
    BY <1>2 DEF InHand
  <2>7. AtBackend(b)' = IF HasRoom(b) THEN AtBackend(b) \cup {h} ELSE AtBackend(b)
    BY <1>3, <2>5, <2>6 DEF AtBackend
  <2>8. QED
    BY <2>1, <2>2, <2>4, <2>5, <2>7
<1>6. ASSUME NEW b \in Backends, NEW t \in Tickets
      PROVE  fate'[b][t] = IF ~HasRoom(b) /\ t = h THEN "overflow" ELSE fate[b][t]
  <2>1. fate'[b] = IF HasRoom(b) THEN fate[b] ELSE [fate[b] EXCEPT ![h] = "overflow"]
    BY <1>2 DEF FanOut
  <2>2. fate[b] \in [Tickets -> Fates]
    BY <1>1 DEF TypeOK
  <2>3. QED
    BY <1>3, <2>1, <2>2
<1>7. QED
  BY <1>2, <1>3, <1>5, <1>6

\* A worker's get() takes the oldest record of its queue into its hand.
LEMMA GetEffect ==
  ASSUME DInv, NEW b \in Backends, WorkerGet(b)
  PROVE  /\ UNCHANGED <<ref, ingress, tickets, fate, Movable>>
         /\ \A a \in Backends : /\ AtBackend(a)' = AtBackend(a)
                                /\ Ascending(queue'[a])
         /\ \A a \in Backends \ {b} : queue'[a] = queue[a] /\ hand'[a] = hand[a]
         /\ \A t \in Range(queue'[b]) \cap Tickets :
              hand'[b] \in Tickets => hand'[b] < t
<1>1. TypeOK /\ Ordered /\ Hands
  BY DEF DInv, IInv
<1>2. /\ worker[b] = "idle" /\ queue[b] # <<>>
      /\ hand' = [hand EXCEPT ![b] = Head(queue[b])]
      /\ queue' = [queue EXCEPT ![b] = Tail(@)]
      /\ UNCHANGED <<ref, ingress, tickets, fate>>
  BY DEF WorkerGet, flags, refs, history
<1>3. /\ hand'[b] = Head(queue[b]) /\ queue'[b] = Tail(queue[b])
      /\ \A a \in Backends \ {b} : queue'[a] = queue[a] /\ hand'[a] = hand[a]
  BY <1>1, <1>2 DEF TypeOK
<1>4. queue[b] \in Seq(Nat) /\ Ascending(queue[b])
  BY <1>1, Places DEF Ordered
<1>5. /\ Ascending(Tail(queue[b]))
      /\ Range(queue[b]) = {Head(queue[b])} \cup Range(Tail(queue[b]))
      /\ \A t \in Range(Tail(queue[b])) : t # StatusRecord => Head(queue[b]) < t
  BY <1>2, <1>4, TakeFirst
<1>6. hand[b] \notin Tickets
  BY <1>1, <1>2, Places DEF Hands
<1>7. AtBackend(b)' = AtBackend(b)
  BY <1>3, <1>5, <1>6 DEF AtBackend, InHand
<1>8. ASSUME NEW a \in Backends
      PROVE  AtBackend(a)' = AtBackend(a) /\ Ascending(queue'[a])
  <2>1. CASE a = b
    BY <1>3, <1>5, <1>7, <2>1
  <2>2. CASE a # b
    BY <1>1, <1>3, <2>2 DEF AtBackend, InHand, Ordered
  <2>3. QED
    BY <2>1, <2>2
<1>9. \A t \in Range(queue'[b]) \cap Tickets : hand'[b] \in Tickets => hand'[b] < t
  BY <1>1, <1>3, <1>5, Places
<1>10. Movable' = Movable
  BY <1>2 DEF Movable, InIngress
<1>11. QED
  BY <1>2, <1>3, <1>8, <1>9, <1>10

\* A worker that answers or is cancelled is through with its record, if it has one.
LEMMA LeaveCases ==
  ASSUME NEW b \in Backends, WorkerDone(b) \/ WorkerCancelled(b)
  PROVE  \/ WorkerCancelled(b) /\ UNCHANGED pipeline
         \/ WorkerCancelled(b) /\ Leaves(b, "abandoned")
         \/ WorkerDone(b) /\ \E outcome \in Handled : Leaves(b, outcome)
<1>1. CASE WorkerDone(b)
  <2>1. PICK outcome \in Handled : Finish(b, outcome)
    BY <1>1 DEF WorkerDone
  <2>2. UNCHANGED <<ref, ingress, queue, tickets>>
    BY <1>1 DEF WorkerDone, flags, refs
  <2>3. Leaves(b, outcome)
    BY <2>1, <2>2 DEF Leaves
  <2>4. QED
    BY <1>1, <2>3
<1>2. CASE WorkerCancelled(b)
  <2>1. UNCHANGED <<ref, ingress, queue, tickets>>
    BY <1>2 DEF WorkerCancelled, flags, refs
  <2>2. Finish(b, "abandoned") \/ UNCHANGED <<hand, fate>>
    BY <1>2 DEF WorkerCancelled
  <2>3. Leaves(b, "abandoned") \/ UNCHANGED pipeline
    BY <2>1, <2>2 DEF Leaves, pipeline
  <2>4. QED
    BY <1>2, <2>3
<1>3. QED
  BY <1>1, <1>2

\* The record leaves the backend with its outcome as its fate there.
LEMMA LeaveEffect ==
  ASSUME DInv, NEW b \in Backends, NEW outcome, Leaves(b, outcome)
  PROVE  /\ UNCHANGED <<ref, ingress, queue, tickets, Movable>>
         /\ hand'[b] = NoRecord
         /\ \A a \in Backends \ {b} : hand'[a] = hand[a]
         /\ \A a \in Backends :
              AtBackend(a)' = IF a = b THEN AtBackend(b) \ {hand[b]} ELSE AtBackend(a)
         /\ \A a \in Backends : \A t \in Tickets :
              fate'[a][t] = IF a = b /\ t = hand[b] THEN outcome ELSE fate[a][t]
<1>1. TypeOK /\ Ordered
  BY DEF DInv, IInv
<1>2. /\ UNCHANGED <<ref, ingress, queue, tickets>>
      /\ hand' = [hand EXCEPT ![b] = NoRecord]
      /\ fate' = IF hand[b] \in Tickets
                 THEN [fate EXCEPT ![b][hand[b]] = outcome] ELSE fate
  BY DEF Leaves, Finish
<1>3. hand'[b] = NoRecord /\ \A a \in Backends \ {b} : hand'[a] = hand[a]
  BY <1>1, <1>2 DEF TypeOK
<1>4. ASSUME NEW a \in Backends
      PROVE  AtBackend(a)' = IF a = b THEN AtBackend(b) \ {hand[b]} ELSE AtBackend(a)
  <2>1. CASE a # b
    BY <1>2, <1>3, <2>1 DEF AtBackend, InHand
  <2>2. CASE a = b
    <3>1. hand[b] \notin Range(queue[b]) \cap Tickets
      <4>1. \A t \in Range(queue[b]) \cap Tickets : hand[b] \in Tickets => hand[b] < t
        BY <1>1 DEF Ordered
      <4>2. \A t \in Tickets : ~(t < t)
        BY <1>1, Places
      <4>3. QED
        BY <4>1, <4>2
    <3>2. InHand(b) \ {hand[b]} = {}
      BY DEF InHand
    <3>3. InHand(b)' = {}
      BY <1>1, <1>3, Places DEF InHand
    <3>4. QED
      BY <1>2, <2>2, <3>1, <3>2, <3>3 DEF AtBackend
  <2>3. QED
    BY <2>1, <2>2
<1>5. ASSUME NEW a \in Backends, NEW t \in Tickets
      PROVE  fate'[a][t] = IF a = b /\ t = hand[b] THEN outcome ELSE fate[a][t]
  <2>1. fate \in [Backends -> [Tickets -> Fates]] /\ fate[b] \in [Tickets -> Fates]
    BY <1>1 DEF TypeOK
  <2>2. QED
    BY <1>2, <2>1
<1>6. Movable' = Movable
  BY <1>2 DEF Movable, InIngress
<1>7. QED
  BY <1>2, <1>3, <1>4, <1>5, <1>6

\* Nothing is at a backend while start_logging runs or stop_logging's tail does.
LEMMA NothingAtBackends ==
  ASSUME DInv, Stopped \/ loop \in Releasing, NEW b \in Backends
  PROVE  AtBackend(b) = {}
<1>1. queue[b] = <<>> /\ hand[b] = NoRecord
  BY DEF DInv, IInv, Hands
<1>2. Range(queue[b]) = {}
  BY <1>1 DEF Range
<1>3. QED
  BY <1>1, <1>2, Places DEF DInv, IInv, AtBackend, InHand

\* The reference to the ingress changes only while every backend is empty: to a
\* new, empty ingress in start_logging, to None in stop_logging.
LEMMA RefEffect ==
  ASSUME DInv, Rerefers
  PROVE  /\ UNCHANGED <<ingress, queue, hand, tickets, fate>>
         /\ Movable' = {}
         /\ \A b \in Backends : AtBackend(b) = {} /\ AtBackend(b)' = {}
<1>1. TypeOK /\ Control
  BY DEF DInv, IInv
<1>2. UNCHANGED <<ingress, queue, hand, tickets, fate>>
  BY DEF Rerefers, StartIngress, ReleaseIngress, backends, history
<1>3. Stopped \/ loop \in Releasing
  BY <1>1 DEF Rerefers, StartIngress, ReleaseIngress, Control, Starting, Releasing
<1>4. ASSUME NEW b \in Backends PROVE AtBackend(b) = {} /\ AtBackend(b)' = {}
  BY <1>2, <1>3, NothingAtBackends DEF AtBackend, InHand
<1>5. CASE StartIngress
  <2>1. /\ ref' = cycle + 1 /\ cycle < MaxCycles
    BY <1>1, <1>5 DEF StartIngress, Control
  <2>2. cycle + 1 \in Cycles /\ cycle + 1 > cycle
    BY <1>1, <2>1, SizesAssumption DEF TypeOK, Cycles
  <2>3. ingress'[cycle + 1] = <<>>
    BY <1>1, <1>2, <2>2 DEF Control
  <2>4. Range(ingress'[cycle + 1]) = {}
    BY <2>3 DEF Range
  <2>5. Movable' = {}
    BY <2>1, <2>4 DEF Movable, InIngress
  <2>6. QED
    BY <1>2, <1>4, <2>5
<1>6. CASE ReleaseIngress
  <2>1. Movable' = {}
    BY <1>6 DEF ReleaseIngress, Movable
  <2>2. QED
    BY <1>2, <1>4, <2>1
<1>7. QED
  BY <1>5, <1>6 DEF Rerefers

\* The status records of report_status come after every record of the queue.
LEMMA ReportEffect ==
  ASSUME DInv, StopReport
  PROVE  /\ UNCHANGED <<ref, ingress, hand, tickets, fate, Movable>>
         /\ \A b \in Backends :
              /\ AtBackend(b)' = AtBackend(b)
              /\ Ascending(queue'[b])
              /\ Range(queue'[b]) \cap Tickets = Range(queue[b]) \cap Tickets
<1>1. TypeOK /\ Ordered /\ Bounded
  BY DEF DInv, IInv
<1>2. /\ UNCHANGED <<ref, ingress, hand, tickets, fate>>
      /\ queue' = [b \in Backends |->
           queue[b] \o [i \in 1..StatusCount(b) |-> StatusRecord]]
  BY DEF StopReport, refs, history
<1>3. ASSUME NEW b \in Backends
      PROVE  /\ AtBackend(b)' = AtBackend(b)
             /\ Ascending(queue'[b])
             /\ Range(queue'[b]) \cap Tickets = Range(queue[b]) \cap Tickets
  <2>1. StatusCount(b) \in Nat
    BY <1>1, StatusCountRoom
  <2>2. queue[b] \in Seq(Nat) /\ Ascending(queue[b])
    BY <1>1, Places DEF Ordered
  <2>3. queue'[b] = queue[b] \o [i \in 1..StatusCount(b) |-> StatusRecord]
    BY <1>2
  <2>4. /\ Ascending(queue'[b])
        /\ Range(queue'[b]) \ {StatusRecord} = Range(queue[b]) \ {StatusRecord}
    BY <2>1, <2>2, <2>3, PutStatus
  <2>5. Range(queue'[b]) \cap Tickets = Range(queue[b]) \cap Tickets
    BY <1>1, <2>4, Places
  <2>6. QED
    BY <1>2, <2>4, <2>5 DEF AtBackend, InHand
<1>4. Movable' = Movable
  BY <1>2 DEF Movable, InIngress
<1>5. QED
  BY <1>2, <1>3, <1>4

\* The tail of stop_logging empties every backend queue; no worker has a record.
LEMMA ClearEffect ==
  ASSUME DInv, ClearQueues
  PROVE  /\ UNCHANGED <<ref, ingress, hand, tickets, Movable>>
         /\ stop \in {"join", "cancel"}
         /\ \A b \in Backends : /\ AtBackend(b)' = {}
                                /\ queue'[b] = <<>> /\ hand'[b] = NoRecord
         /\ \A b \in Backends : \A t \in Tickets :
              fate'[b][t] = IF t \in AtBackend(b) THEN "discarded" ELSE fate[b][t]
<1>1. TypeOK /\ Hands
  BY DEF DInv, IInv
<1>2. /\ stop \in {"join", "cancel"} /\ Reaped
      /\ UNCHANGED <<ref, ingress, hand, tickets>>
      /\ queue' = [b \in Backends |-> <<>>]
      /\ fate' = [b \in Backends |-> [t \in Tickets |->
            IF t \in LeftOver(b) THEN "discarded" ELSE fate[b][t]]]
  BY DEF ClearQueues, flags, refs
<1>3. Movable' = Movable
  BY <1>2 DEF Movable, InIngress
<1>4. ASSUME NEW b \in Backends
      PROVE  /\ AtBackend(b)' = {} /\ LeftOver(b) = AtBackend(b)
             /\ queue'[b] = <<>> /\ hand'[b] = NoRecord
  <2>1. hand[b] = NoRecord
    BY <1>1, <1>2 DEF Reaped, Hands
  <2>2. InHand(b) = {} /\ InHand(b)' = {}
    BY <1>1, <1>2, <2>1, Places DEF InHand
  <2>3. queue'[b] = <<>>
    BY <1>2
  <2>4. Range(<<>>) = {}
    BY DEF Range
  <2>5. QED
    BY <1>2, <2>1, <2>2, <2>3, <2>4 DEF AtBackend, LeftOver
<1>5. ASSUME NEW b \in Backends, NEW t \in Tickets
      PROVE  fate'[b][t] = IF t \in AtBackend(b) THEN "discarded" ELSE fate[b][t]
  BY <1>2, <1>4
<1>6. QED
  BY <1>2, <1>3, <1>4, <1>5

\* ... and takes the records that late emits put into the ingress.
LEMMA SweepEffect ==
  ASSUME DInv, SweepRecord
  PROVE  /\ ref \in Cycles /\ ref # None /\ Head(ingress[ref]) \in Tickets
         /\ stop \in {"join", "cancel"}
         /\ Movable = InIngress(ref) /\ Head(ingress[ref]) \in Movable
         /\ Movable' = Movable \ {Head(ingress[ref])}
         /\ UNCHANGED <<ref, queue, hand, tickets>>
         /\ \A c \in Cycles :
              /\ Ascending(ingress'[c])
              /\ InIngress(c)' = InIngress(c) \ {Head(ingress[ref])}
         /\ \A b \in Backends : AtBackend(b) = {} /\ AtBackend(b)' = {}
         /\ \A b \in Backends : \A t \in Tickets :
              fate'[b][t] = IF t = Head(ingress[ref]) THEN "swept" ELSE fate[b][t]
<1> DEFINE h == Head(ingress[ref])
<1>1. TypeOK /\ Control
  BY DEF DInv, IInv
<1>2. /\ loop = "tail" /\ ingress[ref] # <<>>
      /\ ingress' = [ingress EXCEPT ![ref] = Tail(@)]
      /\ fate' = [b \in Backends |-> [fate[b] EXCEPT ![h] = "swept"]]
      /\ UNCHANGED <<ref, queue, hand, tickets>>
  BY DEF SweepRecord, flags, refs, backends
<1>3. stop \in {"join", "cancel"} /\ ref # None
  BY <1>1, <1>2 DEF Control, Releasing
<1>4. /\ ref \in Cycles /\ h \in Tickets
      /\ Movable = InIngress(ref) /\ h \in Movable /\ Movable' = Movable \ {h}
      /\ \A c \in Cycles : Ascending(ingress'[c]) /\ InIngress(c)' = InIngress(c) \ {h}
  BY <1>2, <1>3, TakeEffect
<1>5. ASSUME NEW b \in Backends PROVE AtBackend(b) = {} /\ AtBackend(b)' = {}
  BY <1>2, NothingAtBackends DEF Releasing, AtBackend, InHand
<1>6. ASSUME NEW b \in Backends, NEW t \in Tickets
      PROVE  fate'[b][t] = IF t = h THEN "swept" ELSE fate[b][t]
  <2>1. fate[b] \in [Tickets -> Fates]
    BY <1>1 DEF TypeOK
  <2>2. QED
    BY <1>2, <2>1
<1>7. QED
  BY <1>2, <1>3, <1>4, <1>5, <1>6

\* Every step has one of these effects on the records.
LEMMA Effects ==
  ASSUME DInv, [Next]_vars
  PROVE  \/ UNCHANGED pipeline
         \/ \E e \in Emitters : Puts(e)
         \/ MoveRecord
         \/ \E b \in Backends : WorkerGet(b)
         \/ \E b \in Backends : \E outcome \in Handled \cup {"abandoned"} : Leaves(b, outcome)
         \/ Rerefers \/ StopReport \/ ClearQueues \/ SweepRecord
<1>1. BridgeMove \/ FlushMove => MoveRecord
  BY DEF BridgeMove, FlushMove
<1>2. ASSUME NEW b \in Backends, WorkerDone(b) \/ WorkerCancelled(b)
      PROVE  \/ UNCHANGED pipeline
             \/ \E outcome \in Handled \cup {"abandoned"} : Leaves(b, outcome)
  BY <1>2, LeaveCases
<1>3. IInv
  BY DEF DInv
<1>4. QED
  BY <1>1, <1>2, <1>3, PipelineSteps

(***************************************************************************)
(* Each part of DInv is kept by every step.                                *)
(***************************************************************************)

\* Every sequence stays in put order, and a backend holds older records than the
\* current ingress.
LEMMA OrderedStep ==
  ASSUME DInv, [Next]_vars
  PROVE  Ordered'
<1> DEFINE Older == \A b \in Backends : \A t \in AtBackend(b) : \A u \in Movable : t < u
           HandFirst(b) == \A t \in Range(queue[b]) \cap Tickets :
                             hand[b] \in Tickets => hand[b] < t
<1>0. /\ TypeOK /\ Issued /\ Conserved
      /\ \A c \in Cycles : Ascending(ingress[c])
      /\ \A b \in Backends : Ascending(queue[b])
      /\ \A b \in Backends : HandFirst(b)
      /\ Older
  BY DEF DInv, IInv, Ordered
<1> SUFFICES /\ \A c \in Cycles : Ascending(ingress'[c])
             /\ \A b \in Backends : Ascending(queue'[b])
             /\ \A b \in Backends : HandFirst(b)'
             /\ Older'
  BY DEF Ordered, Ascending
<1>1. CASE UNCHANGED pipeline
  BY <1>0, <1>1, StillEffect
<1>2. ASSUME NEW e \in Emitters, Puts(e)
      PROVE  /\ \A c \in Cycles : Ascending(ingress'[c])
             /\ \A b \in Backends : Ascending(queue'[b])
             /\ \A b \in Backends : HandFirst(b)'
             /\ Older'
  <2>1. ASSUME NEW b \in Backends, NEW t \in AtBackend(b) PROVE t < tickets + 1
    <3>1. t \in Tickets /\ fate[b][t] = "pending"
      BY <1>0, Places DEF Conserved, AtBackend
    <3>2. t \in Nat /\ tickets \in Nat /\ ~(t > tickets)
      BY <1>0, <3>1, Places DEF Issued, TypeOK
    <3>3. QED
      BY <3>2
  <2>2. Older'
    BY <1>0, <1>2, <2>1, PutEffect
  <2>3. QED
    BY <1>0, <1>2, <2>2, PutEffect
<1>3. CASE MoveRecord
  <2> DEFINE h == Head(ingress[ref])
  <2>1. h \in Movable /\ Movable' \subseteq Movable /\ \A u \in Movable' : h < u
    BY <1>3, MoveEffect
  <2>2. ASSUME NEW b \in Backends PROVE HandFirst(b)'
    <3>1. hand' = hand /\ Range(queue'[b]) \subseteq Range(queue[b]) \cup {h}
      BY <1>3, MoveEffect
    <3>2. hand[b] \in Tickets => hand[b] < h
      BY <1>0, <2>1 DEF AtBackend, InHand
    <3>3. QED
      BY <1>0, <3>1, <3>2
  <2>3. Older'
    <3>1. ASSUME NEW b \in Backends PROVE AtBackend(b)' \subseteq AtBackend(b) \cup {h}
      BY <1>3, MoveEffect
    <3>2. QED
      BY <1>0, <2>1, <3>1
  <2>4. QED
    BY <1>3, <2>2, <2>3, MoveEffect
<1>4. ASSUME NEW b \in Backends, WorkerGet(b)
      PROVE  /\ \A c \in Cycles : Ascending(ingress'[c])
             /\ \A a \in Backends : Ascending(queue'[a])
             /\ \A a \in Backends : HandFirst(a)'
             /\ Older'
  BY <1>0, <1>4, GetEffect
<1>5. ASSUME NEW b \in Backends, NEW outcome, Leaves(b, outcome)
      PROVE  /\ \A c \in Cycles : Ascending(ingress'[c])
             /\ \A a \in Backends : Ascending(queue'[a])
             /\ \A a \in Backends : HandFirst(a)'
             /\ Older'
  <2>1. NoRecord \notin Tickets
    BY <1>0, Places
  <2>2. \A a \in Backends : AtBackend(a)' \subseteq AtBackend(a)
    BY <1>5, LeaveEffect
  <2>3. QED
    BY <1>0, <1>5, <2>1, <2>2, LeaveEffect
<1>6. CASE Rerefers
  BY <1>0, <1>6, RefEffect
<1>7. CASE StopReport
  BY <1>0, <1>7, ReportEffect
<1>8. CASE ClearQueues
  <2>1. Ascending(<<>>) /\ Range(<<>>) = {}
    BY DEF Ascending, Range
  <2>2. QED
    BY <1>0, <1>8, <2>1, ClearEffect
<1>9. CASE SweepRecord
  BY <1>0, <1>9, SweepEffect
<1>10. QED
  BY <1>1, <1>2, <1>3, <1>4, <1>5, <1>6, <1>7, <1>8, <1>9, Effects

\* No record gets into two places.
LEMMA ApartStep ==
  ASSUME DInv, [Next]_vars
  PROVE  Apart'
<1> DEFINE Disjoint == \A c, d \in Cycles : c # d => InIngress(c) \cap InIngress(d) = {}
           Left == \A c \in Cycles \ {ref} : \A b \in Backends :
                     InIngress(c) \cap AtBackend(b) = {}
<1>0. /\ TypeOK /\ Issued /\ Conserved
      /\ Disjoint /\ Left
      /\ \A c \in Cycles : \A t \in InIngress(c) : t \in Nat /\ t < tickets + 1
      /\ \A b \in Backends : \A t \in AtBackend(b) : t \in Nat /\ t < tickets + 1
  <2>1. TypeOK /\ Issued /\ Conserved /\ Disjoint /\ Left
    BY DEF DInv, IInv, Apart
  <2>2. ASSUME NEW c \in Cycles, NEW t \in InIngress(c) PROVE t \in Nat /\ t < tickets + 1
    <3>1. t \in Nat /\ t <= tickets /\ tickets \in Nat
      BY <2>1, Places DEF Issued, TypeOK
    <3>2. QED
      BY <3>1
  <2>3. ASSUME NEW b \in Backends, NEW t \in AtBackend(b) PROVE t \in Nat /\ t < tickets + 1
    <3>1. t \in Tickets /\ fate[b][t] = "pending"
      BY <2>1, Places DEF Conserved, AtBackend
    <3>2. t \in Nat /\ tickets \in Nat /\ ~(t > tickets)
      BY <2>1, <3>1, Places DEF Issued, TypeOK
    <3>3. QED
      BY <3>2
  <2>4. QED
    BY <2>1, <2>2, <2>3
<1> SUFFICES Disjoint' /\ Left'
  BY DEF Apart
<1>1. CASE UNCHANGED pipeline
  BY <1>0, <1>1, StillEffect
<1>2. ASSUME NEW e \in Emitters, Puts(e) PROVE Disjoint' /\ Left'
  <2>1. /\ \A c \in Cycles : tickets + 1 \notin InIngress(c)
        /\ \A b \in Backends : tickets + 1 \notin AtBackend(b)
    BY <1>0
  <2>2. QED
    BY <1>0, <1>2, <2>1, PutEffect
<1>3. CASE MoveRecord
  <2> DEFINE h == Head(ingress[ref])
  <2>1. /\ ref' = ref
        /\ \A c \in Cycles : InIngress(c)' = InIngress(c) \ {h}
        /\ \A b \in Backends : AtBackend(b)' \subseteq AtBackend(b) \cup {h}
    BY <1>3, MoveEffect
  <2>2. QED
    BY <1>0, <2>1
<1>4. ASSUME NEW b \in Backends, WorkerGet(b) PROVE Disjoint' /\ Left'
  BY <1>0, <1>4, GetEffect DEF InIngress
<1>5. ASSUME NEW b \in Backends, NEW outcome, Leaves(b, outcome)
      PROVE  Disjoint' /\ Left'
  <2>1. /\ ref' = ref
        /\ \A c \in Cycles : InIngress(c)' = InIngress(c)
        /\ \A a \in Backends : AtBackend(a)' \subseteq AtBackend(a)
    BY <1>5, LeaveEffect DEF InIngress
  <2>2. QED
    BY <1>0, <2>1
<1>6. CASE Rerefers
  BY <1>0, <1>6, RefEffect DEF InIngress
<1>7. CASE StopReport
  BY <1>0, <1>7, ReportEffect DEF InIngress
<1>8. CASE ClearQueues
  BY <1>0, <1>8, ClearEffect DEF InIngress
<1>9. CASE SweepRecord
  BY <1>0, <1>9, SweepEffect
<1>10. QED
  BY <1>1, <1>2, <1>3, <1>4, <1>5, <1>6, <1>7, <1>8, <1>9, Effects

\* Exactly the records that were put have a fate.
LEMMA IssuedStep ==
  ASSUME DInv, [Next]_vars
  PROVE  Issued'
<1> DEFINE Put == \A c \in Cycles : \A t \in InIngress(c) : t <= tickets
           Fated == \A b \in Backends : \A t \in Tickets : fate[b][t] = "none" <=> t > tickets
<1>0. TypeOK /\ Conserved /\ Put /\ Fated /\ Tickets \subseteq Nat /\ tickets \in Nat
  BY Places DEF DInv, IInv, Issued, TypeOK
<1>p. /\ \A b \in Backends : \A t \in AtBackend(b) : t \in Tickets /\ t <= tickets
      /\ \A c \in Cycles : \A t \in InIngress(c) : t \in Tickets /\ t <= tickets
  <2>1. ASSUME NEW b \in Backends, NEW t \in AtBackend(b) PROVE t \in Tickets /\ t <= tickets
    <3>1. t \in Tickets /\ fate[b][t] = "pending"
      BY <1>0, Places DEF Conserved, AtBackend
    <3>2. t \in Nat /\ ~(t > tickets)
      BY <1>0, <3>1
    <3>3. QED
      BY <1>0, <3>1, <3>2
  <2>2. QED
    BY <1>0, <2>1, Places
<1> SUFFICES Put' /\ Fated'
  BY DEF Issued
<1>1. CASE UNCHANGED pipeline
  BY <1>0, <1>1, StillEffect
<1>2. ASSUME NEW e \in Emitters, Puts(e) PROVE Put' /\ Fated'
  <2>1. tickets' = tickets + 1
    BY <1>2, PutEffect
  <2>2. ASSUME NEW c \in Cycles, NEW t \in InIngress(c)' PROVE t <= tickets'
    <3>1. t \in InIngress(c) \cup {tickets + 1}
      BY <1>2, PutEffect
    <3>2. t \in InIngress(c) => t \in Nat /\ t <= tickets
      BY <1>0, <1>p
    <3>3. QED
      BY <1>0, <2>1, <3>1, <3>2
  <2>3. ASSUME NEW b \in Backends, NEW t \in Tickets
        PROVE  fate'[b][t] = "none" <=> t > tickets'
    <3>1. fate'[b][t] = IF t = tickets + 1 THEN "pending" ELSE fate[b][t]
      BY <1>2, PutEffect
    <3>2. t \in Nat /\ (fate[b][t] = "none" <=> t > tickets)
      BY <1>0
    <3>3. QED
      BY <1>0, <2>1, <3>1, <3>2
  <2>4. QED
    BY <2>2, <2>3
<1>3. CASE MoveRecord
  <2> DEFINE h == Head(ingress[ref])
  <2>1. /\ h \in Tickets /\ h <= tickets /\ tickets' = tickets
        /\ \A c \in Cycles : InIngress(c)' \subseteq InIngress(c)
    BY <1>p, <1>3, MoveEffect
  <2>2. ASSUME NEW b \in Backends, NEW t \in Tickets
        PROVE  fate'[b][t] = "none" <=> t > tickets'
    <3>1. fate'[b][t] = IF ~HasRoom(b) /\ t = h THEN "overflow" ELSE fate[b][t]
      BY <1>3, MoveEffect
    <3>2. fate[b][t] = "none" <=> t > tickets
      BY <1>0
    <3>3. CASE t = h
      BY <1>0, <2>1, <3>1, <3>2, <3>3
    <3>4. CASE t # h
      BY <2>1, <3>1, <3>2, <3>4
    <3>5. QED
      BY <3>3, <3>4
  <2>3. QED
    BY <1>0, <2>1, <2>2
<1>4. ASSUME NEW b \in Backends, WorkerGet(b) PROVE Put' /\ Fated'
  BY <1>0, <1>4, GetEffect DEF InIngress
<1>5. ASSUME NEW b \in Backends, NEW outcome \in Handled \cup {"abandoned"},
             Leaves(b, outcome)
      PROVE  Put' /\ Fated'
  <2>1. outcome # "none"
    BY DEF Handled
  <2>2. ASSUME NEW a \in Backends, NEW t \in Tickets
        PROVE  fate'[a][t] = "none" <=> t > tickets'
    <3>1. fate'[a][t] = IF a = b /\ t = hand[b] THEN outcome ELSE fate[a][t]
      BY <1>5, LeaveEffect
    <3>2. t = hand[b] => t \in AtBackend(b)
      BY DEF AtBackend, InHand
    <3>3. tickets' = tickets
      BY <1>5, LeaveEffect
    <3>4. QED
      BY <1>0, <1>p, <2>1, <3>1, <3>2, <3>3
  <2>3. Put'
    BY <1>0, <1>5, LeaveEffect DEF InIngress
  <2>4. QED
    BY <2>2, <2>3
<1>6. CASE Rerefers
  BY <1>0, <1>6, RefEffect DEF InIngress
<1>7. CASE StopReport
  BY <1>0, <1>7, ReportEffect DEF InIngress
<1>8. CASE ClearQueues
  <2>1. /\ tickets' = tickets
        /\ \A c \in Cycles : InIngress(c)' = InIngress(c)
    BY <1>8, ClearEffect DEF InIngress
  <2>2. ASSUME NEW b \in Backends, NEW t \in Tickets
        PROVE  fate'[b][t] = "none" <=> t > tickets'
    <3>1. fate'[b][t] = IF t \in AtBackend(b) THEN "discarded" ELSE fate[b][t]
      BY <1>8, ClearEffect
    <3>2. QED
      BY <1>0, <1>p, <2>1, <3>1
  <2>3. QED
    BY <1>0, <2>1, <2>2
<1>9. CASE SweepRecord
  <2> DEFINE h == Head(ingress[ref])
  <2>1. /\ h \in Tickets /\ h <= tickets /\ tickets' = tickets
        /\ \A c \in Cycles : InIngress(c)' \subseteq InIngress(c)
    BY <1>p, <1>9, SweepEffect
  <2>2. ASSUME NEW b \in Backends, NEW t \in Tickets
        PROVE  fate'[b][t] = "none" <=> t > tickets'
    <3>1. fate'[b][t] = IF t = h THEN "swept" ELSE fate[b][t]
      BY <1>9, SweepEffect
    <3>2. fate[b][t] = "none" <=> t > tickets
      BY <1>0
    <3>3. CASE t = h
      BY <1>0, <2>1, <3>1, <3>3
    <3>4. CASE t # h
      BY <2>1, <3>1, <3>2, <3>4
    <3>5. QED
      BY <3>3, <3>4
  <2>3. QED
    BY <1>0, <2>1, <2>2
<1>10. QED
  BY <1>1, <1>2, <1>3, <1>4, <1>5, <1>6, <1>7, <1>8, <1>9, Effects

\* A record is pending at a backend exactly while that backend or an ingress has it.
LEMMA ConservedStep ==
  ASSUME DInv, [Next]_vars
  PROVE  Conserved'
<1> DEFINE Somewhere(t) == \E c \in Cycles : t \in InIngress(c)
           Kept(b, t) == fate[b][t] = "pending" <=> t \in AtBackend(b) \/ Somewhere(t)
<1>0. /\ TypeOK /\ Apart /\ Tickets \subseteq Nat /\ tickets \in Nat
      /\ \A b \in Backends : \A t \in Tickets : Kept(b, t)
      /\ \A b \in Backends : \A t \in Tickets : fate[b][t] = "none" <=> t > tickets
  BY Places DEF DInv, IInv, Conserved, TypeOK, AtBackend, InIngress, Issued
<1> SUFFICES \A b \in Backends : \A t \in Tickets : Kept(b, t)'
  BY DEF Conserved, AtBackend, InIngress
<1>s. ASSUME fate' = fate,
             \A b \in Backends : AtBackend(b)' = AtBackend(b),
             \A c \in Cycles : InIngress(c)' = InIngress(c),
             NEW b \in Backends, NEW t \in Tickets
      PROVE  Kept(b, t)'
  <2>1. Somewhere(t)' <=> Somewhere(t)
    BY <1>s
  <2>2. t \in AtBackend(b)' <=> t \in AtBackend(b)
    BY <1>s
  <2>3. Kept(b, t)
    BY <1>0
  <2>4. QED
    BY <1>s, <2>1, <2>2, <2>3
<1>a. ASSUME NEW b \in Backends, NEW t \in AtBackend(b) PROVE ~Somewhere(t)
  <2>1. \A c \in Cycles \ {ref} : t \notin InIngress(c)
    BY <1>0 DEF Apart
  <2>2. ref # None => t \notin InIngress(ref)
    <3>1. \A v \in Movable : t < v
      BY DEF DInv, Ordered
    <3>2. t \in Nat
      BY <1>0, Places
    <3>3. ~(t < t)
      BY <3>2
    <3>4. QED
      BY <3>1, <3>3 DEF Movable
  <2>3. ref \in Cycles => ref # None
    BY DEF Cycles, None
  <2>4. QED
    BY <2>1, <2>2, <2>3
<1>1. ASSUME UNCHANGED pipeline, NEW b \in Backends, NEW t \in Tickets
      PROVE  Kept(b, t)'
  BY <1>s, <1>1, StillEffect
<1>2. ASSUME NEW e \in Emitters, Puts(e), NEW b \in Backends, NEW t \in Tickets
      PROVE  Kept(b, t)'
  <2>1. /\ cap[e].ingress \in Cycles
        /\ \A c \in Cycles : InIngress(c)' = IF c = cap[e].ingress
                                THEN InIngress(c) \cup {tickets + 1} ELSE InIngress(c)
        /\ AtBackend(b)' = AtBackend(b)
        /\ fate'[b][t] = IF t = tickets + 1 THEN "pending" ELSE fate[b][t]
    BY <1>2, PutEffect
  <2>2. CASE t = tickets + 1
    BY <2>1, <2>2
  <2>3. CASE t # tickets + 1
    <3>1. Somewhere(t)' <=> Somewhere(t)
      BY <2>1, <2>3
    <3>2. QED
      BY <1>0, <2>1, <2>3, <3>1
  <2>4. QED
    BY <2>2, <2>3
<1>3. ASSUME MoveRecord, NEW b \in Backends, NEW t \in Tickets
      PROVE  Kept(b, t)'
  <2> DEFINE h == Head(ingress[ref])
  <2>1. /\ ref \in Cycles /\ h \in InIngress(ref) /\ h \in Tickets
        /\ \A c \in Cycles : InIngress(c)' = InIngress(c) \ {h}
        /\ AtBackend(b)' = IF HasRoom(b) THEN AtBackend(b) \cup {h} ELSE AtBackend(b)
        /\ fate'[b][t] = IF ~HasRoom(b) /\ t = h THEN "overflow" ELSE fate[b][t]
    BY <1>3, MoveEffect
  <2>2. CASE t = h
    <3>1. fate[b][h] = "pending"
      BY <1>0, <2>1
    <3>2. ~Somewhere(t)'
      BY <2>1, <2>2
    <3>3. h \notin AtBackend(b)
      BY <1>a, <2>1
    <3>4. CASE HasRoom(b)
      BY <2>1, <2>2, <3>1, <3>4
    <3>5. CASE ~HasRoom(b)
      BY <2>1, <2>2, <3>2, <3>3, <3>5
    <3>6. QED
      BY <3>4, <3>5
  <2>3. CASE t # h
    <3>1. Somewhere(t)' <=> Somewhere(t)
      BY <2>1, <2>3
    <3>2. AtBackend(b)' \ {h} = AtBackend(b) \ {h} /\ fate'[b][t] = fate[b][t]
      BY <2>1, <2>3
    <3>3. Kept(b, t)
      BY <1>0
    <3>4. QED
      BY <2>3, <3>1, <3>2, <3>3
  <2>4. QED
    BY <2>2, <2>3
<1>4. ASSUME NEW a \in Backends, WorkerGet(a), NEW b \in Backends, NEW t \in Tickets
      PROVE  Kept(b, t)'
  <2>1. \A c \in Cycles : InIngress(c)' = InIngress(c)
    BY <1>4, GetEffect DEF InIngress
  <2>2. QED
    BY <1>s, <1>4, <2>1, GetEffect
<1>5. ASSUME NEW a \in Backends, NEW outcome \in Handled \cup {"abandoned"},
             Leaves(a, outcome), NEW b \in Backends, NEW t \in Tickets
      PROVE  Kept(b, t)'
  <2>1. /\ \A c \in Cycles : InIngress(c)' = InIngress(c)
        /\ AtBackend(b)' = IF b = a THEN AtBackend(a) \ {hand[a]} ELSE AtBackend(b)
        /\ fate'[b][t] = IF b = a /\ t = hand[a] THEN outcome ELSE fate[b][t]
        /\ outcome # "pending"
    BY <1>5, LeaveEffect DEF InIngress, Handled
  <2>2. Somewhere(t)' <=> Somewhere(t)
    BY <2>1
  <2>3. CASE b = a /\ t = hand[a]
    <3>1. t \in AtBackend(a)
      BY <2>3 DEF AtBackend, InHand
    <3>2. ~Somewhere(t)
      BY <1>a, <3>1
    <3>3. QED
      BY <2>1, <2>2, <2>3, <3>2
  <2>4. CASE ~(b = a /\ t = hand[a])
    <3>1. fate'[b][t] = fate[b][t] /\ (t \in AtBackend(b)' <=> t \in AtBackend(b))
      BY <2>1, <2>4
    <3>2. Kept(b, t)
      BY <1>0
    <3>3. QED
      BY <2>2, <3>1, <3>2
  <2>5. QED
    BY <2>3, <2>4
<1>6. ASSUME Rerefers \/ StopReport, NEW b \in Backends, NEW t \in Tickets
      PROVE  Kept(b, t)'
  <2>1. /\ fate' = fate
        /\ \A a \in Backends : AtBackend(a)' = AtBackend(a)
        /\ \A c \in Cycles : InIngress(c)' = InIngress(c)
    BY <1>6, RefEffect, ReportEffect DEF InIngress
  <2>2. QED
    BY <1>s, <2>1
<1>7. ASSUME ClearQueues, NEW b \in Backends, NEW t \in Tickets
      PROVE  Kept(b, t)'
  <2>1. /\ \A c \in Cycles : InIngress(c)' = InIngress(c)
        /\ AtBackend(b)' = {}
        /\ fate'[b][t] = IF t \in AtBackend(b) THEN "discarded" ELSE fate[b][t]
    BY <1>7, ClearEffect DEF InIngress
  <2>2. Somewhere(t)' <=> Somewhere(t)
    BY <2>1
  <2>3. Kept(b, t)
    BY <1>0
  <2>4. QED
    BY <1>a, <2>1, <2>2, <2>3
<1>8. ASSUME SweepRecord, NEW b \in Backends, NEW t \in Tickets
      PROVE  Kept(b, t)'
  <2> DEFINE h == Head(ingress[ref])
  <2>1. /\ \A c \in Cycles : InIngress(c)' = InIngress(c) \ {h}
        /\ AtBackend(b) = {} /\ AtBackend(b)' = {}
        /\ fate'[b][t] = IF t = h THEN "swept" ELSE fate[b][t]
    BY <1>8, SweepEffect
  <2>2. CASE t = h
    BY <2>1, <2>2
  <2>3. CASE t # h
    <3>1. Somewhere(t)' <=> Somewhere(t)
      BY <2>1, <2>3
    <3>2. Kept(b, t)
      BY <1>0
    <3>3. QED
      BY <2>1, <2>3, <3>1, <3>2
  <2>4. QED
    BY <2>2, <2>3
<1>9. QED
  BY <1>1, <1>2, <1>3, <1>4, <1>5, <1>6, <1>7, <1>8, Effects

\* What a sink has handled is older than what its backend and the current ingress
\* still have.
LEMMA HandledFirstStep ==
  ASSUME DInv, [Next]_vars
  PROVE  HandledFirst'
<1> DEFINE Behind(b, u) == \A t \in AtBackend(b) \cup Movable : u < t
<1>0. /\ TypeOK /\ Tickets \subseteq Nat /\ tickets \in Nat
      /\ \A b \in Backends : \A u \in Tickets : fate[b][u] \in Handled => Behind(b, u)
  BY Places DEF DInv, IInv, HandledFirst, TypeOK
<1> SUFFICES ASSUME NEW b \in Backends, NEW u \in Tickets, fate'[b][u] \in Handled
             PROVE  Behind(b, u)'
  BY DEF HandledFirst
<1>1. CASE UNCHANGED pipeline
  BY <1>0, <1>1, StillEffect
<1>2. ASSUME NEW e \in Emitters, Puts(e) PROVE Behind(b, u)'
  <2>1. /\ AtBackend(b)' = AtBackend(b) /\ Movable' \subseteq Movable \cup {tickets + 1}
        /\ fate'[b][u] = IF u = tickets + 1 THEN "pending" ELSE fate[b][u]
    BY <1>2, PutEffect
  <2>2. fate[b][u] \in Handled
    BY <2>1 DEF Handled
  <2>3. u < tickets + 1
    <3>1. ~(u > tickets)
      BY <2>2 DEF DInv, Issued, Handled
    <3>2. u \in Nat /\ tickets \in Nat
      BY <1>0
    <3>3. QED
      BY <3>1, <3>2
  <2>4. QED
    BY <1>0, <2>1, <2>2, <2>3
<1>3. CASE MoveRecord
  <2>1. /\ AtBackend(b)' \subseteq AtBackend(b) \cup {Head(ingress[ref])}
        /\ Head(ingress[ref]) \in Movable /\ Movable' \subseteq Movable
        /\ fate'[b][u] \in {"overflow", fate[b][u]}
    BY <1>3, MoveEffect
  <2>2. fate[b][u] \in Handled
    BY <2>1 DEF Handled
  <2>3. QED
    BY <1>0, <2>1, <2>2
<1>4. ASSUME NEW a \in Backends, WorkerGet(a) PROVE Behind(b, u)'
  BY <1>0, <1>4, GetEffect
<1>5. ASSUME NEW a \in Backends, NEW outcome, Leaves(a, outcome) PROVE Behind(b, u)'
  <2>1. /\ AtBackend(b)' = IF b = a THEN AtBackend(a) \ {hand[a]} ELSE AtBackend(b)
        /\ Movable' = Movable /\ UNCHANGED queue /\ hand'[a] = NoRecord
        /\ fate'[b][u] = IF b = a /\ u = hand[a] THEN outcome ELSE fate[b][u]
    BY <1>5, LeaveEffect
  <2>2. CASE b = a /\ u = hand[a]
    <3>1. \A t \in Range(queue[b]) \cap Tickets : u < t
      BY <2>2 DEF DInv, Ordered
    <3>2. \A t \in Movable : u < t
      BY <2>2 DEF DInv, Ordered, AtBackend, InHand
    <3>3. AtBackend(b)' \subseteq Range(queue[b]) \cap Tickets
      BY <2>1, <2>2 DEF AtBackend, InHand
    <3>4. QED
      BY <2>1, <3>1, <3>2, <3>3
  <2>3. CASE ~(b = a /\ u = hand[a])
    BY <1>0, <2>1, <2>3
  <2>4. QED
    BY <2>2, <2>3
<1>6. CASE Rerefers
  BY <1>6, RefEffect
<1>7. CASE StopReport
  BY <1>0, <1>7, ReportEffect
<1>8. CASE ClearQueues
  <2>1. /\ AtBackend(b)' = {} /\ Movable' = Movable
        /\ fate'[b][u] \in {"discarded", fate[b][u]}
    BY <1>8, ClearEffect
  <2>2. fate[b][u] \in Handled
    BY <2>1 DEF Handled
  <2>3. QED
    BY <1>0, <2>1, <2>2
<1>9. CASE SweepRecord
  <2>1. /\ AtBackend(b)' = {} /\ Movable' \subseteq Movable
        /\ fate'[b][u] \in {"swept", fate[b][u]}
    BY <1>9, SweepEffect
  <2>2. fate[b][u] \in Handled
    BY <2>1 DEF Handled
  <2>3. QED
    BY <1>0, <2>1, <2>2
<1>10. QED
  BY <1>1, <1>2, <1>3, <1>4, <1>5, <1>6, <1>7, <1>8, <1>9, Effects

\* The steps that touch no record, no drain result and no worker.
LEMMA CalmSteps ==
  ASSUME [Next]_vars
  PROVE  \/ UNCHANGED <<pipeline, stopping, worker>>
         \/ \E e \in Emitters : Puts(e) /\ UNCHANGED <<stopping, worker>>
         \/ BridgeMove \/ FlushMove
         \/ \E b \in Backends : WorkerStep(b)
         \/ Rerefers \/ StartFinish \/ StopBegin \/ FlushEnd
         \/ \E b \in Backends : DrainCompleted(b) \/ DrainTimeout(b)
         \/ StopReport \/ StopTimeout \/ ClearQueues \/ SweepRecord \/ ReleaseEvent
<1> USE DEF pipeline, vars, flags, refs, wakeups, backends, stopping, emits, history
<1>1. ASSUME NEW e \in Emitters, EmitStep(e)
      PROVE  \/ UNCHANGED <<pipeline, stopping, worker>>
             \/ Puts(e) /\ UNCHANGED <<stopping, worker>>
  <2>1. ASSUME EmitPut(e), ~Puts(e) PROVE UNCHANGED pipeline
    BY <2>1 DEF EmitPut, Puts
  <2>2. ASSUME \/ EmitCheck(e) \/ EmitReadIngress(e) \/ EmitReadLoop(e)
               \/ EmitReadEvent(e) \/ EmitWake(e)
        PROVE  UNCHANGED pipeline
    BY <2>2 DEF EmitCheck, EmitReadIngress, EmitReadLoop, EmitReadEvent, EmitWake
  <2>3. UNCHANGED <<stopping, worker>>
    BY <1>1 DEF EmitStep, EmitCheck, EmitReadIngress, EmitReadLoop, EmitReadEvent,
                EmitPut, EmitWake
  <2> HIDE DEF pipeline, stopping
  <2>4. QED
    BY <1>1, <2>1, <2>2, <2>3 DEF EmitStep
<1>2. ASSUME NEW c \in Cycles, SetEvent(c) PROVE UNCHANGED <<pipeline, stopping, worker>>
  BY <1>2 DEF SetEvent
<1>3. ASSUME BridgeWake \/ BridgeWait PROVE UNCHANGED <<pipeline, stopping, worker>>
  BY <1>3 DEF BridgeWake, BridgeWait
<1>4. ASSUME \/ StartCheck \/ StartLoop \/ StartEvent \/ Close
             \/ FlushBegin \/ ReleaseLoop
      PROVE  UNCHANGED <<pipeline, stopping, worker>>
  BY <1>4 DEF StartCheck, StartLoop, StartEvent, Close, FlushBegin, ReleaseLoop
<1>5. ASSUME Quiescent \/ UNCHANGED vars PROVE UNCHANGED <<pipeline, stopping, worker>>
  BY <1>5 DEF Quiescent
<1> HIDE DEF pipeline, stopping, vars
<1>6. QED
  BY <1>1, <1>2, <1>3, <1>4, <1>5 DEF Next, BridgeStep, StartStep, StopStep, Rerefers

\* The drain results and `cut' say what they mean until stop_logging returns.
LEMMA DrainsStep ==
  ASSUME DInv, [Next]_vars
  PROVE  Drains'
<1> DEFINE Settled(b) == result[b] = "COMPLETED" => AtBackend(b) = {}
           Late == stop \in {"drain", "join", "cancel"} => \A t \in Movable : t > cut
           Results ==
             /\ stop \in {"idle", "flush"} => \A b \in Backends : result[b] = "none"
             /\ stop \in {"join", "cancel"} => \A b \in Backends : result[b] # "none"
           Cancelled == \A b \in Backends : worker[b] = "cancelled" => stop = "cancel"
           Same == /\ Movable' \subseteq Movable
                   /\ \A b \in Backends : AtBackend(b)' \subseteq AtBackend(b)
<1>0. /\ TypeOK /\ Control /\ Hands /\ UnfinishedBalanced
      /\ cut \in Nat /\ tickets \in Nat /\ cut <= tickets
      /\ Results /\ Cancelled /\ Late /\ \A b \in Backends : Settled(b)
  BY SizesAssumption DEF DInv, IInv, Drains, TypeOK
<1> SUFFICES /\ cut' <= tickets' /\ Results' /\ Cancelled' /\ Late'
             /\ \A b \in Backends : Settled(b)'
  BY DEF Drains
<1>s. ASSUME Same, UNCHANGED <<stop, result, cut>>
      PROVE  Late' /\ \A b \in Backends : Settled(b)'
  BY <1>0, <1>s
<1>1. CASE UNCHANGED <<pipeline, stopping, worker>>
  <2>1. Same /\ UNCHANGED <<stop, result, cut, tickets, worker>>
    BY <1>1, StillEffect DEF stopping
  <2>2. QED
    BY <1>0, <1>s, <2>1
<1>2. ASSUME NEW e \in Emitters, Puts(e), UNCHANGED <<stopping, worker>>
      PROVE  /\ cut' <= tickets' /\ Results' /\ Cancelled' /\ Late'
             /\ \A b \in Backends : Settled(b)'
  <2>1. /\ UNCHANGED <<stop, result, cut, worker>> /\ tickets' = tickets + 1
        /\ Movable' \subseteq Movable \cup {tickets + 1}
        /\ \A b \in Backends : AtBackend(b)' = AtBackend(b)
    BY <1>2, PutEffect DEF stopping
  <2>2. tickets + 1 > cut
    BY <1>0
  <2>3. Late'
    BY <1>0, <2>1, <2>2
  <2>4. cut' <= tickets'
    BY <1>0, <2>1
  <2>5. QED
    BY <1>0, <2>1, <2>3, <2>4
<1>3. CASE BridgeMove \/ FlushMove
  <2>1. MoveRecord /\ UNCHANGED <<stop, result, cut, worker>>
    BY <1>3 DEF BridgeMove, FlushMove, MoveRecord, stopping
  <2>2. stop \in {"idle", "flush"}
    BY <1>0, <1>3 DEF Control, BridgeMove, FlushMove
  <2>3. \A b \in Backends : result'[b] = "none"
    BY <1>0, <2>1, <2>2
  <2>4. tickets' = tickets
    BY <2>1, MoveEffect
  <2>5. QED
    BY <1>0, <2>1, <2>2, <2>3, <2>4
<1>4. ASSUME NEW b \in Backends, WorkerStep(b)
      PROVE  /\ cut' <= tickets' /\ Results' /\ Cancelled' /\ Late'
             /\ \A a \in Backends : Settled(a)'
  <2>1. UNCHANGED <<stop, result, cut, tickets>>
    BY <1>4 DEF WorkerStep, WorkerGet, WorkerDone, WorkerExit, WorkerCancelled, stopping,
                history
  <2>2. \A a \in Backends : worker'[a] = "cancelled" => worker[a] = "cancelled"
    BY <1>0, <1>4 DEF WorkerStep, WorkerGet, WorkerDone, WorkerExit, WorkerCancelled, TypeOK
  <2>3. Same
    <3>1. CASE WorkerGet(b)
      BY <3>1, GetEffect
    <3>2. CASE WorkerExit(b)
      <4>1. UNCHANGED pipeline
        BY <3>2 DEF WorkerExit, pipeline, flags, refs, history
      <4>2. QED
        BY <4>1, StillEffect
    <3>3. CASE WorkerDone(b) \/ WorkerCancelled(b)
      <4>1. UNCHANGED pipeline \/ \E outcome : Leaves(b, outcome)
        BY <3>3, LeaveCases
      <4>2. QED
        BY <4>1, StillEffect, LeaveEffect
    <3>4. QED
      BY <1>4, <3>1, <3>2, <3>3 DEF WorkerStep
  <2>4. QED
    BY <1>0, <1>s, <2>1, <2>2, <2>3
<1>5. CASE Rerefers
  <2>1. UNCHANGED <<stop, result, cut, tickets, worker>>
    BY <1>5 DEF Rerefers, StartIngress, ReleaseIngress, backends, stopping, history
  <2>2. Movable' = {} /\ \A b \in Backends : AtBackend(b)' = {}
    BY <1>5, RefEffect
  <2>3. QED
    BY <1>0, <2>1, <2>2
<1>t. CASE StartFinish
  <2>1. /\ UNCHANGED <<stop, result, cut, tickets>> /\ UNCHANGED pipeline
        /\ \A b \in Backends : worker'[b] = "idle"
    BY <1>t DEF StartFinish, stopping, history, pipeline, refs
  <2>2. Same
    BY <2>1, StillEffect
  <2>3. QED
    BY <1>0, <1>s, <2>1, <2>2
<1>6. CASE StopBegin
  <2>1. /\ stop = "idle" /\ stop' = "flush" /\ cut' = tickets
        /\ UNCHANGED <<result, tickets, worker>>
    BY <1>6 DEF StopBegin, backends, history
  <2>2. QED
    BY <1>0, <2>1
<1>7. CASE FlushEnd
  <2>1. /\ stop' = "drain" /\ UNCHANGED <<result, cut, tickets, worker>> /\ UNCHANGED pipeline
        /\ ingress[ref] = <<>>
    BY <1>7 DEF FlushEnd, backends, history, pipeline, flags, refs
  <2>2. stop = "flush"
    BY <1>0, <1>7 DEF FlushEnd, Control
  <2>3. Movable' = {}
    BY <2>1, StillEffect DEF Movable, InIngress, Range
  <2>4. \A b \in Backends : result'[b] = "none"
    BY <1>0, <2>1, <2>2
  <2>5. QED
    BY <1>0, <2>1, <2>2, <2>3, <2>4
<1>8. ASSUME NEW b \in Backends, DrainCompleted(b) \/ DrainTimeout(b)
      PROVE  /\ cut' <= tickets' /\ Results' /\ Cancelled' /\ Late'
             /\ \A a \in Backends : Settled(a)'
  <2>1. /\ stop = "drain" /\ UNCHANGED <<stop, cut, tickets, worker>> /\ UNCHANGED pipeline
        /\ \A a \in Backends : a # b => result'[a] = result[a]
        /\ result'[b] = "TIMEOUT" \/ (result'[b] = "COMPLETED" /\ unfinished[b] = 0)
    BY <1>0, <1>8 DEF DrainCompleted, DrainTimeout, Joined, backends, history, pipeline,
                      flags, refs, TypeOK
  <2>2. /\ Movable' = Movable
        /\ \A a \in Backends : AtBackend(a)' = AtBackend(a)
    BY <2>1, StillEffect
  <2>3. unfinished[b] = 0 => AtBackend(b) = {}
    <3> SUFFICES ASSUME unfinished[b] = 0 PROVE AtBackend(b) = {}
      OBVIOUS
    <3>1. queue[b] \in Seq(Nat) /\ Len(queue[b]) \in Nat
      BY <1>0, Places
    <3>2. Len(queue[b]) = 0 /\ hand[b] = NoRecord
      <4>1. 0 = Len(queue[b]) + (IF hand[b] = NoRecord THEN 0 ELSE 1)
        BY <1>0 DEF UnfinishedBalanced
      <4>2. CASE hand[b] = NoRecord
        BY <3>1, <4>1, <4>2
      <4>3. CASE hand[b] # NoRecord
        <5>1. 0 = Len(queue[b]) + 1
          BY <4>1, <4>3
        <5>2. QED
          BY <3>1, <5>1
      <4>4. QED
        BY <4>2, <4>3
    <3>3. queue[b] = <<>>
      BY <3>1, <3>2, EmptySeq
    <3>4. QED
      BY <1>0, <3>2, <3>3, Places DEF AtBackend, InHand, Range
  <2>4. Settled(b)'
    BY <2>1, <2>2, <2>3
  <2>5. \A a \in Backends : Settled(a)'
    BY <1>0, <2>1, <2>2, <2>4
  <2>6. QED
    BY <1>0, <2>1, <2>2, <2>5
<1>9. CASE StopReport
  <2>1. /\ stop' = "join" /\ UNCHANGED <<result, cut, worker>> /\ stop = "drain"
        /\ \A b \in Backends : result[b] # "none"
    BY <1>9 DEF StopReport
  <2>2. /\ tickets' = tickets /\ Movable' = Movable
        /\ \A b \in Backends : AtBackend(b)' = AtBackend(b)
    BY <1>9, ReportEffect
  <2>3. Cancelled'
    BY <1>0, <2>1
  <2>4. QED
    BY <1>0, <2>1, <2>2, <2>3
<1>10. CASE StopTimeout
  <2>1. /\ stop = "join" /\ stop' = "cancel" /\ UNCHANGED <<result, cut, tickets>>
        /\ UNCHANGED pipeline
    BY <1>10 DEF StopTimeout, pipeline, flags, refs, history
  <2>2. Movable' = Movable /\ \A b \in Backends : AtBackend(b)' = AtBackend(b)
    BY <2>1, StillEffect
  <2>3. QED
    BY <1>0, <2>1, <2>2
<1>11. CASE ClearQueues
  <2>1. /\ UNCHANGED <<stop, result, cut>>
        /\ \A b \in Backends : worker'[b] = "none"
    BY <1>11 DEF ClearQueues, stopping
  <2>2. /\ tickets' = tickets /\ Movable' = Movable
        /\ \A b \in Backends : AtBackend(b)' = {}
    BY <1>11, ClearEffect
  <2>3. QED
    BY <1>0, <1>s, <2>1, <2>2
<1>12. CASE SweepRecord
  <2>1. UNCHANGED <<stop, result, cut, worker>>
    BY <1>12 DEF SweepRecord, stopping, backends
  <2>2. tickets' = tickets /\ Same
    BY <1>12, SweepEffect
  <2>3. QED
    BY <1>0, <1>s, <2>1, <2>2
<1>13. CASE ReleaseEvent
  <2>1. /\ stop' = "idle" /\ cut' = 0 /\ tickets' = tickets
        /\ \A b \in Backends : result'[b] = "none" /\ worker'[b] = worker[b]
    BY <1>13 DEF ReleaseEvent, backends, history
  <2>2. \A b \in Backends : worker[b] = "none"
    BY <1>0, <1>13 DEF ReleaseEvent, Hands, Releasing
  <2>3. QED
    BY <1>0, <2>1, <2>2
<1>14. QED
  BY <1>1, <1>2, <1>3, <1>4, <1>5, <1>t, <1>6, <1>7, <1>8, <1>9, <1>10, <1>11, <1>12,
     <1>13, CalmSteps

(***************************************************************************)
(* The inductive invariant and what follows from it.                       *)
(***************************************************************************)

\* The initial states satisfy DInv.
LEMMA InitDInv == Init => DInv
<1> SUFFICES ASSUME Init PROVE DInv
  OBVIOUS
<1>1. IInv
  BY InitIInv
<1>2. Range(<<>>) = {} /\ Ascending(<<>>)
  BY DEF Range, Ascending
<1>3. /\ \A c \in Cycles : ingress[c] = <<>> /\ InIngress(c) = {}
      /\ Movable = {}
  BY <1>2 DEF Init, InIngress, Movable
<1>4. \A b \in Backends : queue[b] = <<>> /\ AtBackend(b) = {} /\ hand[b] \notin Tickets
  <2>1. \A b \in Backends : queue[b] = <<>> /\ hand[b] = NoRecord
    BY DEF Init
  <2>2. NoRecord \notin Tickets
    BY <1>1, Places DEF IInv
  <2>3. QED
    BY <1>2, <2>1, <2>2 DEF AtBackend, InHand
<1>5. /\ tickets = 0 /\ cut = 0 /\ stop = "idle"
      /\ \A b \in Backends : result[b] = "none" /\ worker[b] = "none"
      /\ \A b \in Backends : \A t \in Tickets : fate[b][t] = "none" /\ t > 0
  BY SizesAssumption DEF Init, Tickets
<1>6. Ordered
  BY <1>2, <1>3, <1>4 DEF Ordered
<1>7. Apart
  BY <1>3, <1>4 DEF Apart
<1>8. Issued
  BY <1>3, <1>5 DEF Issued
<1>9. HandledFirst
  BY <1>5 DEF HandledFirst, Handled
<1>10. Drains
  BY <1>3, <1>5 DEF Drains
<1>11. Conserved
  BY <1>3, <1>4, <1>5 DEF Conserved, InIngress, AtBackend
<1>12. QED
  BY <1>1, <1>6, <1>7, <1>8, <1>9, <1>10, <1>11 DEF DInv

\* Every step keeps it.
LEMMA StepDInv == DInv /\ [Next]_vars => DInv'
<1> SUFFICES ASSUME DInv, [Next]_vars PROVE DInv'
  OBVIOUS
<1>1. IInv'
  BY StepIInv DEF DInv
<1>2. Ordered' /\ Apart' /\ Issued'
  BY OrderedStep, ApartStep, IssuedStep
<1>3. HandledFirst' /\ Drains' /\ Conserved'
  BY HandledFirstStep, DrainsStep, ConservedStep
<1>4. QED
  BY <1>1, <1>2, <1>3 DEF DInv

\* Where the records are is as DInv says in every reachable state.
THEOREM DeliveryInductive == Spec => []DInv
<1>1. QED
  BY InitDInv, StepDInv, PTL DEF Spec

\* No record is lost or duplicated: emit, the bridge, the flush, cancellation and
\* stop_logging's clearing give every accepted record a fate at every backend, and
\* what is pending is in exactly the queues, hands and ingresses.
THEOREM NothingLost == Spec => []Conserved
<1>1. DInv => Conserved
  BY DEF DInv
<1>2. QED
  BY <1>1, DeliveryInductive, PTL

\* drain() returns COMPLETED only when the backend is through with every record
\* put before stop_logging lowered the accept event.
THEOREM CompletedIsTrue == Spec => []CompletedMeansSettled
<1>1. DInv => CompletedMeansSettled
  <2> SUFFICES ASSUME DInv, NEW b \in Backends, result[b] = "COMPLETED",
                      NEW t \in 1..cut, fate[b][t] = "pending"
               PROVE  \E c \in Cycles \ {ref} : t \in Range(ingress[c])
    BY DEF CompletedMeansSettled
  <2>1. TypeOK /\ Drains /\ Conserved
    BY DEF DInv, IInv
  <2>2. t \in Tickets /\ t <= cut /\ cut \in Nat /\ t \in Nat
    BY <2>1, SizesAssumption DEF TypeOK, Tickets
  <2>3. t \notin AtBackend(b)
    BY <2>1 DEF Drains
  <2>4. PICK c \in Cycles : t \in Range(ingress[c])
    BY <2>1, <2>2, <2>3 DEF Conserved, AtBackend
  <2>5. stop \in {"drain", "join", "cancel"}
    BY <2>1 DEF Drains, TypeOK
  <2>6. \A u \in Movable : u > cut
    BY <2>1, <2>5 DEF Drains
  <2>7. c # ref
    <3>1. t \notin Movable
      BY <2>2, <2>6
    <3>2. c = ref => ref # None
      BY DEF Cycles, None
    <3>3. QED
      BY <2>4, <3>1, <3>2 DEF Movable, InIngress
  <2>8. QED
    BY <2>4, <2>7
<1>2. QED
  BY <1>1, DeliveryInductive, PTL

\* Only a worker that is through with the record in its hand handles it, and every
\* older record that is still pending lies in a released ingress.
LEMMA HandleStep ==
  ASSUME DInv, [Next]_vars, NEW b \in Backends, NEW t \in Tickets,
         fate'[b][t] \in Handled, fate[b][t] \notin Handled
  PROVE  /\ t = hand[b] /\ \E outcome \in Handled : Leaves(b, outcome)
         /\ fate[b][t] = "pending"
         /\ \A u \in 1..(t - 1) : fate[b][u] = "pending" =>
              \E c \in Cycles : c # cycle /\ u \in Range(ingress[c])
<1>0. TypeOK /\ Control /\ Hands /\ Ordered /\ Conserved /\ Tickets \subseteq Nat
  BY Places DEF DInv, IInv
<1>1. t = hand[b] /\ \E outcome \in Handled : Leaves(b, outcome)
  <2>1. CASE UNCHANGED pipeline \/ Rerefers \/ StopReport
             \/ \E a \in Backends : WorkerGet(a)
    <3>1. fate' = fate
      BY <2>1, StillEffect, RefEffect, ReportEffect, GetEffect
    <3>2. QED
      BY <3>1
  <2>2. ASSUME NEW e \in Emitters, Puts(e) PROVE FALSE
    <3>1. fate'[b][t] \in {"pending", fate[b][t]}
      BY <2>2, PutEffect
    <3>2. QED
      BY <3>1 DEF Handled
  <2>3. CASE MoveRecord
    <3>1. fate'[b][t] \in {"overflow", fate[b][t]}
      BY <2>3, MoveEffect
    <3>2. QED
      BY <3>1 DEF Handled
  <2>4. CASE ClearQueues \/ SweepRecord
    <3>1. fate'[b][t] \in {"discarded", "swept", fate[b][t]}
      BY <2>4, ClearEffect, SweepEffect
    <3>2. QED
      BY <3>1 DEF Handled
  <2>5. ASSUME NEW a \in Backends, NEW outcome \in Handled \cup {"abandoned"},
               Leaves(a, outcome)
        PROVE  t = hand[b] /\ \E o \in Handled : Leaves(b, o)
    <3>1. fate'[b][t] = IF b = a /\ t = hand[a] THEN outcome ELSE fate[b][t]
      BY <2>5, LeaveEffect
    <3>2. b = a /\ t = hand[a] /\ outcome \in Handled
      BY <3>1
    <3>3. QED
      BY <2>5, <3>2
  <2>6. QED
    BY <2>1, <2>2, <2>3, <2>4, <2>5, Effects
<1>2. t \in AtBackend(b)
  BY <1>1 DEF AtBackend, InHand
<1>3. fate[b][t] = "pending"
  BY <1>0, <1>2 DEF Conserved, AtBackend
<1>4. ref = cycle /\ ref # None
  <2>1. NoRecord \notin Tickets
    BY <1>0, Places
  <2>2. ~Stopped /\ loop \notin Releasing
    BY <1>0, <1>1, <2>1 DEF Hands
  <2>3. ref # None
    BY <1>0, <2>2 DEF Control, Stopped, Releasing
  <2>4. QED
    BY <1>0, <2>3 DEF TypeOK
<1>5. ASSUME NEW u \in 1..(t - 1), fate[b][u] = "pending"
      PROVE  \E c \in Cycles : c # cycle /\ u \in Range(ingress[c])
  <2>1. u \in Tickets /\ u < t /\ u \in Nat /\ t \in Nat
    BY <1>0, SizesAssumption DEF Tickets
  <2>2. u \notin AtBackend(b)
    BY <1>0, <1>1, <2>1 DEF Ordered, AtBackend, InHand
  <2>3. PICK c \in Cycles : u \in Range(ingress[c])
    BY <1>0, <1>5, <2>1, <2>2 DEF Conserved, AtBackend
  <2>4. u \notin Movable
    BY <1>0, <1>2, <2>1 DEF Ordered
  <2>5. c # cycle
    BY <1>4, <2>3, <2>4 DEF Movable, InIngress
  <2>6. QED
    BY <2>3, <2>5
<1>6. QED
  BY <1>1, <1>3, <1>5

\* Every sink sees the records in the order in which emit() put them, and each
\* record once, across overflow, flush, cancellation and restarts.
THEOREM InOrder == Spec => HandledInOrder
<1>1. DInv /\ [Next]_vars =>
        [\A b \in Backends : \A t \in Tickets :
           (fate'[b][t] \in Handled /\ fate[b][t] \notin Handled) =>
             /\ fate[b][t] = "pending"
             /\ \A u \in 1..(t - 1) : fate[b][u] = "pending" =>
                  \E c \in Cycles : c # cycle /\ u \in Range(ingress[c])]_vars
  BY HandleStep
<1>2. QED
  BY <1>1, DeliveryInductive, PTL DEF Spec, HandledInOrder

\* Only stop_logging drops pending records: the tail from a backend queue or from
\* the ingress, the cancellation from a worker's hand.
LEMMA DropStep ==
  ASSUME DInv, [Next]_vars, NEW b \in Backends, NEW t \in Tickets,
         fate[b][t] = "pending"
  PROVE  /\ fate'[b][t] \in {"discarded", "abandoned"} => result[b] = "TIMEOUT"
         /\ fate'[b][t] = "swept" => t > cut
<1>0. TypeOK /\ Drains /\ Tickets \subseteq Nat /\ IInv
  BY Places DEF DInv, IInv
<1>1. ASSUME t \in AtBackend(b), stop \in {"join", "cancel"} PROVE result[b] = "TIMEOUT"
  BY <1>0, <1>1 DEF Drains, TypeOK
<1>2. CASE UNCHANGED pipeline \/ Rerefers \/ StopReport
           \/ \E a \in Backends : WorkerGet(a)
  <2>1. fate' = fate
    BY <1>2, StillEffect, RefEffect, ReportEffect, GetEffect
  <2>2. QED
    BY <2>1
<1>3. ASSUME NEW e \in Emitters, Puts(e) PROVE fate'[b][t] = "pending"
  BY <1>3, PutEffect
<1>4. ASSUME MoveRecord PROVE fate'[b][t] \in {"pending", "overflow"}
  BY <1>4, MoveEffect
<1>5. ASSUME NEW a \in Backends, WorkerDone(a)
      PROVE  fate'[b][t] \in {"pending", "written", "failed"}
  <2>1. PICK outcome \in Handled : Leaves(a, outcome)
    BY <1>5, LeaveCases DEF WorkerDone, WorkerCancelled
  <2>2. fate'[b][t] = IF b = a /\ t = hand[a] THEN outcome ELSE fate[b][t]
    BY <2>1, LeaveEffect
  <2>3. QED
    BY <2>2 DEF Handled
<1>6. ASSUME NEW a \in Backends, WorkerCancelled(a)
      PROVE  /\ fate'[b][t] \in {"pending", "abandoned"}
             /\ fate'[b][t] = "abandoned" => result[b] = "TIMEOUT"
  <2>1. UNCHANGED pipeline \/ Leaves(a, "abandoned")
    BY <1>6, LeaveCases DEF WorkerDone, WorkerCancelled
  <2>2. CASE UNCHANGED pipeline
    BY <2>2, StillEffect
  <2>3. CASE Leaves(a, "abandoned")
    <3>1. fate'[b][t] = IF b = a /\ t = hand[a] THEN "abandoned" ELSE fate[b][t]
      BY <2>3, LeaveEffect
    <3>2. stop = "cancel"
      BY <1>0, <1>6 DEF WorkerCancelled, Drains
    <3>3. b = a /\ t = hand[a] => t \in AtBackend(b)
      BY DEF AtBackend, InHand
    <3>4. QED
      BY <1>1, <3>1, <3>2, <3>3
  <2>4. QED
    BY <2>1, <2>2, <2>3
<1>7. CASE ClearQueues
  <2>1. /\ stop \in {"join", "cancel"}
        /\ fate'[b][t] = IF t \in AtBackend(b) THEN "discarded" ELSE fate[b][t]
    BY <1>7, ClearEffect
  <2>2. QED
    BY <1>1, <2>1
<1>8. CASE SweepRecord
  <2>1. /\ stop \in {"join", "cancel"} /\ Head(ingress[ref]) \in Movable
        /\ fate'[b][t] = IF t = Head(ingress[ref]) THEN "swept" ELSE fate[b][t]
    BY <1>8, SweepEffect
  <2>2. \A v \in Movable : v > cut
    BY <1>0, <2>1 DEF Drains
  <2>3. QED
    BY <2>1, <2>2
<1>9. QED
  BY <1>0, <1>2, <1>3, <1>4, <1>5, <1>6, <1>7, <1>8, PipelineSteps
  DEF BridgeMove, FlushMove

\* stop_logging discards or abandons records only where drain() reported TIMEOUT,
\* and sweeps from the ingress only what came after it lowered the accept event.
THEOREM DropsExplained == Spec => DropsOnlyLateOrTimedOut
<1>1. DInv /\ [Next]_vars =>
        [\A b \in Backends : \A t \in Tickets : fate[b][t] = "pending" =>
           /\ fate'[b][t] \in {"discarded", "abandoned"} => result[b] = "TIMEOUT"
           /\ fate'[b][t] = "swept" => t > cut]_vars
  BY DropStep
<1>2. QED
  BY <1>1, DeliveryInductive, PTL DEF Spec, DropsOnlyLateOrTimedOut

(***************************************************************************)
(* RecordDelivery: each step of the core is one of its steps, or changes   *)
(* neither the number of records issued nor a fate.                        *)
(***************************************************************************)

\* The put of emit() is the acceptance.
LEMMA PutAccepts ==
  ASSUME DInv, NEW e \in Emitters, Puts(e)
  PROVE  Delivery!Accept
<1>1. tickets + 1 \in Tickets /\ tickets' = tickets + 1
  BY PutEffect
<1>2. tickets \in Nat /\ tickets < MaxTickets
  BY <1>1, SizesAssumption DEF DInv, IInv, TypeOK, Tickets
<1>3. fate' = [b \in Backends |-> [fate[b] EXCEPT ![tickets + 1] = "pending"]]
  BY DEF Puts, Enqueue
<1>4. QED
  BY <1>1, <1>2, <1>3 DEF Delivery!Accept

\* The fan-out overflows at the backends without room.
LEMMA MoveOverflows ==
  ASSUME DInv, MoveRecord
  PROVE  \E t \in Delivery!Tickets : Delivery!Overflow(t)
<1> DEFINE h == Head(ingress[ref])
           full == {b \in Backends : ~HasRoom(b)}
<1>1. /\ ref \in Cycles /\ h \in Tickets /\ h \in InIngress(ref) /\ tickets' = tickets
  BY MoveEffect
<1>2. \A b \in Backends : fate[b][h] = "pending"
  BY <1>1 DEF DInv, Conserved, InIngress
<1>3. fate' = [b \in Backends |->
                 IF b \in full THEN [fate[b] EXCEPT ![h] = "overflow"] ELSE fate[b]]
  <2>1. fate' = [b \in Backends |->
                   IF HasRoom(b) THEN fate[b] ELSE [fate[b] EXCEPT ![h] = "overflow"]]
    BY DEF MoveRecord, FanOut
  <2>2. QED
    BY <2>1
<1>4. full \in SUBSET Backends /\ \A b \in full : fate[b][h] = "pending"
  BY <1>2
<1> HIDE DEF full
<1>5. Delivery!Overflow(h)
  BY <1>1, <1>3, <1>4 DEF Delivery!Overflow
<1>6. h \in Delivery!Tickets
  BY <1>1 DEF Tickets, Delivery!Tickets
<1>7. QED
  BY <1>5, <1>6

\* A worker that answers handles the record in its hand.
LEMMA DoneHandles ==
  ASSUME DInv, NEW b \in Backends, NEW outcome \in Handled, Leaves(b, outcome)
  PROVE  \/ UNCHANGED <<tickets, fate>>
         \/ \E t \in Delivery!Tickets : Delivery!Handle(b, t)
<1>0. HandledFirst /\ Conserved /\ Tickets \subseteq Nat
  BY Places DEF DInv, IInv
<1>1. tickets' = tickets /\ fate' = IF hand[b] \in Tickets
                                   THEN [fate EXCEPT ![b][hand[b]] = outcome] ELSE fate
  BY DEF Leaves, Finish
<1>2. CASE hand[b] \notin Tickets
  BY <1>1, <1>2
<1>3. CASE hand[b] \in Tickets
  <2>1. hand[b] \in AtBackend(b)
    BY <1>3 DEF AtBackend, InHand
  <2>2. fate[b][hand[b]] = "pending"
    BY <1>0, <1>3, <2>1 DEF Conserved, AtBackend
  <2>3. ASSUME NEW u \in Tickets, u > hand[b] PROVE fate[b][u] \notin Handled
    <3>1. fate[b][u] \in Handled => u < hand[b]
      BY <1>0, <2>1 DEF HandledFirst
    <3>2. u \in Nat /\ hand[b] \in Nat
      BY <1>0, <1>3
    <3>3. QED
      BY <2>3, <3>1, <3>2
  <2>4. fate' = [fate EXCEPT ![b][hand[b]] = outcome]
    BY <1>1, <1>3
  <2>5. Delivery!Handle(b, hand[b])
    BY <1>1, <2>2, <2>3, <2>4
    DEF Delivery!Handle, Delivery!Handled, Delivery!Tickets, Handled, Tickets
  <2>6. QED
    BY <1>3, <2>5 DEF Tickets, Delivery!Tickets
<1>4. QED
  BY <1>2, <1>3

\* A cancelled worker and the tail of stop_logging give up pending records.
LEMMA ShutdownGivesUp ==
  ASSUME DInv, TypeOK', tickets' = tickets,
         \A b \in Backends : \A t \in Tickets :
           \/ fate'[b][t] = fate[b][t]
           \/ fate[b][t] = "pending" /\ fate'[b][t] \in {"discarded", "abandoned", "swept"}
  PROVE  Delivery!GiveUp
<1>1. fate' = [b \in Backends |-> [t \in Tickets |-> fate'[b][t]]]
  BY DEF TypeOK
<1>2. QED
  BY <1>1 DEF Delivery!GiveUp, Delivery!Shutdown, Delivery!Tickets, Tickets

\* The cancelled worker gives up the record in its hand.
LEMMA CancelGivesUp ==
  ASSUME DInv, TypeOK', NEW b \in Backends, Leaves(b, "abandoned")
  PROVE  Delivery!GiveUp
<1>1. tickets' = tickets
  BY LeaveEffect
<1>2. ASSUME NEW a \in Backends, NEW t \in Tickets
      PROVE  \/ fate'[a][t] = fate[a][t]
             \/ fate[a][t] = "pending" /\ fate'[a][t] = "abandoned"
  <2>1. fate'[a][t] = IF a = b /\ t = hand[b] THEN "abandoned" ELSE fate[a][t]
    BY LeaveEffect
  <2>2. t = hand[b] => fate[b][t] = "pending"
    BY DEF DInv, Conserved, InHand
  <2>3. QED
    BY <2>1, <2>2
<1>3. QED
  BY <1>1, <1>2, ShutdownGivesUp

\* The tail of stop_logging gives up what is queued and what is in the ingress.
LEMMA TailGivesUp ==
  ASSUME DInv, TypeOK', ClearQueues \/ SweepRecord
  PROVE  Delivery!GiveUp
<1>1. tickets' = tickets
  BY ClearEffect, SweepEffect
<1>2. ASSUME NEW b \in Backends, NEW t \in Tickets
      PROVE  \/ fate'[b][t] = fate[b][t]
             \/ fate[b][t] = "pending" /\ fate'[b][t] \in {"discarded", "swept"}
  <2>1. CASE ClearQueues
    <3>1. fate'[b][t] = IF t \in AtBackend(b) THEN "discarded" ELSE fate[b][t]
      BY <2>1, ClearEffect
    <3>2. t \in AtBackend(b) => fate[b][t] = "pending"
      BY DEF DInv, Conserved, AtBackend
    <3>3. QED
      BY <3>1, <3>2
  <2>2. CASE SweepRecord
    <3>1. /\ fate'[b][t] = IF t = Head(ingress[ref]) THEN "swept" ELSE fate[b][t]
          /\ ref \in Cycles /\ Head(ingress[ref]) \in InIngress(ref)
      BY <2>2, SweepEffect
    <3>2. t \in InIngress(ref) => fate[b][t] = "pending"
      BY <3>1 DEF DInv, Conserved, InIngress
    <3>3. QED
      BY <3>1, <3>2
  <2>3. QED
    BY <2>1, <2>2
<1>3. QED
  BY <1>1, <1>2, ShutdownGivesUp

\* Every step maps to a step of RecordDelivery or to a stutter.
LEMMA DeliveryStep ==
  ASSUME DInv, TypeOK', [Next]_vars
  PROVE  Delivery!Next \/ UNCHANGED <<tickets, fate>>
<1>1. CASE UNCHANGED pipeline \/ Rerefers \/ StopReport
           \/ \E a \in Backends : WorkerGet(a)
  BY <1>1, StillEffect, RefEffect, ReportEffect, GetEffect
<1>2. ASSUME NEW e \in Emitters, Puts(e) PROVE Delivery!Next
  BY <1>2, PutAccepts DEF Delivery!Next
<1>3. CASE MoveRecord
  BY <1>3, MoveOverflows DEF Delivery!Next
<1>4. ASSUME NEW b \in Backends, NEW outcome \in Handled, Leaves(b, outcome)
      PROVE  Delivery!Next \/ UNCHANGED <<tickets, fate>>
  BY <1>4, DoneHandles DEF Delivery!Next
<1>5. ASSUME NEW b \in Backends, Leaves(b, "abandoned") PROVE Delivery!Next
  BY <1>5, CancelGivesUp DEF Delivery!Next
<1>6. CASE ClearQueues \/ SweepRecord
  BY <1>6, TailGivesUp DEF Delivery!Next
<1>7. QED
  BY <1>1, <1>2, <1>3, <1>4, <1>5, <1>6, Effects

\* The core implements RecordDelivery: what emit(), the bridge, the workers and
\* stop_logging do to a record is accept, handle in order, overflow or give up.
THEOREM DeliveryRefined == Spec => ImplementsDelivery
<1>1. Init => Delivery!Init
  BY DEF Init, Delivery!Init, Tickets, Delivery!Tickets
<1>2. DInv /\ DInv' /\ [Next]_vars => [Delivery!Next]_(Delivery!vars)
  <2> SUFFICES ASSUME DInv, DInv', [Next]_vars
               PROVE  Delivery!Next \/ UNCHANGED Delivery!vars
    OBVIOUS
  <2>1. TypeOK'
    BY DEF DInv, IInv
  <2>2. QED
    BY <2>1, DeliveryStep DEF Delivery!vars
<1>3. QED
  BY <1>1, <1>2, DeliveryInductive, PTL DEF Spec, ImplementsDelivery, Delivery!Spec

=============================================================================

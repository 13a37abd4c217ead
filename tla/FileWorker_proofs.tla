--------------------------- MODULE FileWorker_proofs ---------------------------
(***************************************************************************)
(* Theorems about FileWorker for any kinds of backend, any number of       *)
(* records, starts and cancellations and any queue size.                   *)
(*                                                                         *)
(* WorkerInv is the inductive invariant: the await of the worker tells     *)
(* what its executor has still to finish (CurrentFits), earlier executors  *)
(* have at most what a cut close has left them (OthersFit), a thread is    *)
(* within the job that it has begun (ThreadFits), and the stream that it   *)
(* has fetched is the backend's own and its one open file (FilesFit).      *)
(***************************************************************************)
EXTENDS FileWorker, SequenceTheorems, FiniteSetTheorems, TLAPS

\* Write and close jobs, awaited by the worker or left to the executor.
WriteJob     == [what |-> "write", awaited |-> TRUE]
LeftWriteJob == [what |-> "write", awaited |-> FALSE]
CloseJob     == [what |-> "close", awaited |-> TRUE]
LeftCloseJob == [what |-> "close", awaited |-> FALSE]

\* The lists of jobs that an executor can have.
Writing     == <<WriteJob>>
LeftWriting == <<LeftWriteJob>>
Closing     == <<CloseJob>>
LeftClosing == <<LeftCloseJob>>
BothLeft    == <<LeftWriteJob, CloseJob>>

\* Only a suspended worker can be cancelled; a worker exists since a start.
Bounded ==
  /\ cancelled => pc \in Suspended
  /\ pc # "off" => cycle > 0
  /\ cycle \in 0..MaxCycles /\ cancels \in 0..MaxCancels /\ puts \in 0..MaxRecords

InHand == IF pc = "write" THEN 1 ELSE 0

Counted ==
  /\ unfinished = Len(queue) + InHand
  /\ pc = "write" => hand \in Records
  /\ pc # "write" => hand = NoRecord

\* What an executor may have left when its worker has ended.
Leftovers == IF "close" \in cuts THEN {<<>>, LeftWriting, LeftClosing} ELSE {<<>>}

\* What the current executor has to finish is what the worker's await asks for.
Fits(js) ==
  /\ pc \in {"new", "get"} => js = <<>>
  /\ pc = "write" => js = IF answer = "none" THEN Writing ELSE <<>>
  /\ pc = "close" => /\ kind # "console"
                     /\ answer = "none" => js \in {Closing, BothLeft}
                     /\ answer # "none" => js = <<>>
  /\ pc = "shutdown" => kind = "console" /\ js \in {<<>>, LeftWriting}
  /\ pc \in {"off", "done"} => js \in Leftovers

CurrentFits ==
  /\ cycle > 0 => Fits(jobs[cycle])
  /\ answer # "none" => pc \in {"write", "close"}

OthersFit ==
  /\ \A x \in Cycles : x < cycle => jobs[x] \in Leftovers
  /\ \A x \in Cycles : x > cycle => jobs[x] = <<>>
  /\ "close" \in cuts => kind # "console"

\* A thread is within a job that its executor has.
ThreadAt(x, js) ==
  /\ js = <<>> => step[x] = "idle"
  /\ step[x] = "closing" => js \in {Closing, LeftClosing} /\ owns
  /\ step[x] \in {"opened", "rolled"} => /\ js \in {Writing, LeftWriting, BothLeft}
                                         /\ kind # "console" /\ local[x] \in Handles

ThreadFits == \A x \in Cycles : ThreadAt(x, jobs[x])

FilesFit ==
  /\ kind = "console" => owns /\ stream = NoStream /\ openFiles = {}
  /\ ~owns => kind = "plain" /\ stream = Injected /\ openFiles = {Injected}
  /\ "close" \notin cuts =>
       /\ ~late
       /\ \A x \in Cycles : step[x] \in {"opened", "rolled"} => local[x] = stream
       /\ owns => openFiles \subseteq {stream}
       /\ (\E x \in Cycles : step[x] = "closing") => openFiles = {}
       /\ kind = "plain" /\ stream # NoStream /\ (\A x \in Cycles : step[x] # "closing")
            => stream \in openFiles
       /\ owns /\ (pc \in {"off", "new", "done"} \/ (pc = "close" /\ answer # "none"))
            => stream = NoStream

WorkerInv ==
  TypeOK /\ Bounded /\ Counted /\ CurrentFits /\ OthersFit /\ ThreadFits /\ FilesFit

(***************************************************************************)
(* The lists of jobs.                                                      *)
(***************************************************************************)

\* Lists of one job are equal if the jobs are.
LEMMA OneEqual ==
  ASSUME NEW s \in Seq(Jobs), NEW t \in Seq(Jobs), Len(s) = 1, Len(t) = 1, s[1] = t[1]
  PROVE  s = t
BY SeqEqual

\* Lists of two jobs are equal if the jobs are.
LEMMA TwoEqual ==
  ASSUME NEW s \in Seq(Jobs), NEW t \in Seq(Jobs), Len(s) = 2, Len(t) = 2,
         s[1] = t[1], s[2] = t[2]
  PROVE  s = t
<1>1. ASSUME NEW k \in 1..Len(s) PROVE s[k] = t[k]
  <2>1. k = 1 \/ k = 2
    OBVIOUS
  <2>2. QED
    BY <2>1
<1>2. QED
  BY <1>1, SeqEqual

\* Lists of one job.
LEMMA SingleFacts ==
  ASSUME NEW j \in Jobs
  PROVE  /\ <<j>> \in Seq(Jobs) /\ Len(<<j>>) = 1 /\ <<j>> # <<>> /\ <<j>>[1] = j
         /\ Head(<<j>>) = j /\ Tail(<<j>>) = <<>> /\ Front(<<j>>) = <<>>
         /\ Append(<<>>, j) = <<j>>
<1>1. <<j>> \in Seq(Jobs) /\ Len(<<j>>) = 1 /\ <<j>> # <<>> /\ <<j>>[1] = j
  OBVIOUS
<1>2. Head(<<j>>) = j /\ Tail(<<j>>) = <<>>
  OBVIOUS
<1>3. Front(<<j>>) = <<>>
  BY <1>1, SubSeqEmpty DEF Front
<1>4. Append(<<>>, j) = <<j>>
  OBVIOUS
<1>5. QED
  BY <1>1, <1>2, <1>3, <1>4

\* A list of two jobs.
LEMMA PairFacts ==
  ASSUME NEW i \in Jobs, NEW j \in Jobs
  PROVE  /\ <<i, j>> \in Seq(Jobs) /\ Len(<<i, j>>) = 2 /\ <<i, j>> # <<>>
         /\ Head(<<i, j>>) = i /\ Tail(<<i, j>>) = <<j>> /\ Front(<<i, j>>) = <<i>>
         /\ Append(<<i>>, j) = <<i, j>>
<1>1. <<i, j>> \in Seq(Jobs) /\ Len(<<i, j>>) = 2 /\ <<i, j>> # <<>>
  OBVIOUS
<1>2. Head(<<i, j>>) = i /\ Tail(<<i, j>>) = <<j>> /\ <<i, j>>[1] = i /\ <<i, j>>[2] = j
  OBVIOUS
<1>3. Front(<<i, j>>) = <<i>>
  <2>1. Front(<<i, j>>) = SubSeq(<<i, j>>, 1, 1)
    BY <1>1 DEF Front
  <2>2. \A k \in 1..1 : <<i, j>>[k] \in Jobs
    OBVIOUS
  <2>3. /\ SubSeq(<<i, j>>, 1, 1) \in Seq(Jobs) /\ Len(SubSeq(<<i, j>>, 1, 1)) = 1
        /\ SubSeq(<<i, j>>, 1, 1)[1] = <<i, j>>[1]
    BY <2>2, SubSeqProperties
  <2>4. SubSeq(<<i, j>>, 1, 1)[1] = <<i>>[1]
    BY <2>3, <1>2, SingleFacts, Zenon
  <2>5. SubSeq(<<i, j>>, 1, 1) = <<i>>
    BY <2>3, <2>4, SingleFacts, OneEqual, Zenon
  <2>6. QED
    BY <2>1, <2>5, Zenon
<1>4. Append(<<i>>, j) = <<i, j>>
  <2>1. <<i>> \in Seq(Jobs) /\ Len(<<i>>) = 1 /\ <<i>>[1] = i
    BY SingleFacts
  <2>2. /\ Append(<<i>>, j) \in Seq(Jobs) /\ Len(Append(<<i>>, j)) = 2
        /\ Append(<<i>>, j)[1] = i /\ Append(<<i>>, j)[2] = j
    BY <2>1, AppendProperties
  <2>3. Append(<<i>>, j)[1] = <<i, j>>[1] /\ Append(<<i>>, j)[2] = <<i, j>>[2]
    BY <2>2, <1>2, Zenon
  <2>4. QED
    BY <1>1, <2>2, <2>3, TwoEqual, Zenon
<1>5. QED
  BY <1>1, <1>2, <1>3, <1>4

\* A list whose only job is replaced.
LEMMA ReplacedFacts ==
  ASSUME NEW i \in Jobs, NEW j \in Jobs
  PROVE  [<<i>> EXCEPT ![1] = j] = <<j>>
<1>1. <<i>> \in Seq(Jobs) /\ Len(<<i>>) = 1 /\ 1 \in 1..Len(<<i>>)
  BY SingleFacts
<1>2. /\ [<<i>> EXCEPT ![1] = j] \in Seq(Jobs) /\ Len([<<i>> EXCEPT ![1] = j]) = 1
      /\ [<<i>> EXCEPT ![1] = j][1] = j
  BY <1>1, ExceptSeq
<1>3. [<<i>> EXCEPT ![1] = j][1] = <<j>>[1]
  BY <1>2, SingleFacts, Zenon
<1>4. QED
  BY <1>2, <1>3, SingleFacts, OneEqual, Zenon

\* A job that has begun is left to the executor.
LEMMA LeftFacts ==
  ASSUME NEW w \in {"write", "close"}
  PROVE  [<<[what |-> w, awaited |-> TRUE]>> EXCEPT ![1].awaited = FALSE]
           = <<[what |-> w, awaited |-> FALSE]>>
<1>1. [what |-> w, awaited |-> TRUE] \in Jobs /\ [what |-> w, awaited |-> FALSE] \in Jobs
  BY DEF Jobs
<1>2. [[what |-> w, awaited |-> TRUE] EXCEPT !.awaited = FALSE] = [what |-> w, awaited |-> FALSE]
  <2>1. ASSUME NEW i \in Jobs, NEW j \in Jobs, i.what = j.what, i.awaited = j.awaited
        PROVE  i = j
    BY <2>1 DEF Jobs
  <2>2. ASSUME NEW j \in Jobs
        PROVE  /\ [j EXCEPT !.awaited = FALSE] \in Jobs
               /\ [j EXCEPT !.awaited = FALSE].what = j.what
               /\ [j EXCEPT !.awaited = FALSE].awaited = FALSE
    BY DEF Jobs
  <2>3. /\ [what |-> w, awaited |-> FALSE].what = [what |-> w, awaited |-> TRUE].what
        /\ [what |-> w, awaited |-> FALSE].awaited = FALSE
    OBVIOUS
  <2>4. QED
    BY <1>1, <2>1, <2>2, <2>3, Zenon
<1>3. [<<[what |-> w, awaited |-> TRUE]>> EXCEPT ![1] = [what |-> w, awaited |-> FALSE]]
        = <<[what |-> w, awaited |-> FALSE]>>
  BY <1>1, ReplacedFacts
<1>4. <<[what |-> w, awaited |-> TRUE]>>[1] = [what |-> w, awaited |-> TRUE]
  OBVIOUS
<1>5. QED
  BY <1>2, <1>3, <1>4

Lists == {<<>>, Writing, LeftWriting, Closing, LeftClosing, BothLeft}

\* What the executor's queue is asked for, of each list.
LEMMA ListFacts ==
  /\ \A l \in Lists : l \in Seq(Jobs) /\ Len(l) <= 2
  /\ Len(Writing) = 1 /\ Len(LeftWriting) = 1 /\ Len(Closing) = 1 /\ Len(LeftClosing) = 1
  /\ Len(BothLeft) = 2 /\ Len(<<>>) = 0
  /\ Head(Writing) = WriteJob /\ Head(LeftWriting) = LeftWriteJob /\ Head(Closing) = CloseJob
  /\ Head(LeftClosing) = LeftCloseJob /\ Head(BothLeft) = LeftWriteJob
  /\ Tail(Writing) = <<>> /\ Tail(LeftWriting) = <<>> /\ Tail(Closing) = <<>>
  /\ Tail(LeftClosing) = <<>> /\ Tail(BothLeft) = Closing
  /\ Submit(<<>>, "write") = Writing /\ Submit(<<>>, "close") = Closing
  /\ Submit(LeftWriting, "close") = BothLeft
  /\ Front(Writing) = <<>> /\ Front(Closing) = <<>> /\ Front(BothLeft) = LeftWriting
  /\ [Writing EXCEPT ![1].awaited = FALSE] = LeftWriting
  /\ [Closing EXCEPT ![1].awaited = FALSE] = LeftClosing
<1>1. /\ WriteJob \in Jobs /\ LeftWriteJob \in Jobs /\ CloseJob \in Jobs /\ LeftCloseJob \in Jobs
  BY DEF WriteJob, LeftWriteJob, CloseJob, LeftCloseJob, Jobs
<1>2. <<>> \in Seq(Jobs) /\ Len(<<>>) = 0
  BY EmptySeq
<1>3. /\ Writing \in Seq(Jobs) /\ Len(Writing) = 1 /\ Head(Writing) = WriteJob
      /\ Tail(Writing) = <<>> /\ Front(Writing) = <<>> /\ Append(<<>>, WriteJob) = Writing
  BY <1>1, SingleFacts, Zenon DEF Writing
<1>4. /\ LeftWriting \in Seq(Jobs) /\ Len(LeftWriting) = 1 /\ Head(LeftWriting) = LeftWriteJob
      /\ Tail(LeftWriting) = <<>>
  BY <1>1, SingleFacts, Zenon DEF LeftWriting
<1>5. /\ Closing \in Seq(Jobs) /\ Len(Closing) = 1 /\ Head(Closing) = CloseJob
      /\ Tail(Closing) = <<>> /\ Front(Closing) = <<>> /\ Append(<<>>, CloseJob) = Closing
  BY <1>1, SingleFacts, Zenon DEF Closing
<1>6. /\ LeftClosing \in Seq(Jobs) /\ Len(LeftClosing) = 1 /\ Head(LeftClosing) = LeftCloseJob
      /\ Tail(LeftClosing) = <<>>
  BY <1>1, SingleFacts, Zenon DEF LeftClosing
<1>7. /\ BothLeft \in Seq(Jobs) /\ Len(BothLeft) = 2 /\ Head(BothLeft) = LeftWriteJob
      /\ Tail(BothLeft) = Closing /\ Front(BothLeft) = LeftWriting
      /\ Append(LeftWriting, CloseJob) = BothLeft
  BY <1>1, PairFacts, Zenon DEF BothLeft, LeftWriting, Closing
<1>8. /\ Submit(<<>>, "write") = Writing /\ Submit(<<>>, "close") = Closing
      /\ Submit(LeftWriting, "close") = BothLeft
  BY <1>3, <1>5, <1>7, Zenon DEF Submit, WriteJob, CloseJob
<1>9. /\ [Writing EXCEPT ![1].awaited = FALSE] = LeftWriting
      /\ [Closing EXCEPT ![1].awaited = FALSE] = LeftClosing
  BY LeftFacts, Zenon
     DEF Writing, LeftWriting, Closing, LeftClosing, WriteJob, LeftWriteJob, CloseJob, LeftCloseJob
<1>10. ASSUME NEW l \in Lists PROVE l \in Seq(Jobs) /\ Len(l) <= 2
  <2>0. \/ l = <<>> \/ l = Writing \/ l = LeftWriting \/ l = Closing \/ l = LeftClosing
        \/ l = BothLeft
    BY DEF Lists
  <2>1. l \in Seq(Jobs)
    BY <2>0, <1>2, <1>3, <1>4, <1>5, <1>6, <1>7, Zenon
  <2>2. Len(l) \in {0, 1, 2}
    BY <2>0, <1>2, <1>3, <1>4, <1>5, <1>6, <1>7, Zenon
  <2>3. \A n \in {0, 1, 2} : n <= 2
    OBVIOUS
  <2>4. QED
    BY <2>1, <2>2, <2>3, Zenon
<1>11. QED
  BY <1>2, <1>3, <1>4, <1>5, <1>6, <1>7, <1>8, <1>9, <1>10

\* The lists apart from each other, by what their thread sees of them.
LEMMA HeadFacts ==
  /\ Head(Writing).what = "write" /\ Head(Writing).awaited
  /\ Head(LeftWriting).what = "write" /\ ~Head(LeftWriting).awaited
  /\ Head(Closing).what = "close" /\ Head(Closing).awaited
  /\ Head(LeftClosing).what = "close" /\ ~Head(LeftClosing).awaited
  /\ Head(BothLeft).what = "write" /\ ~Head(BothLeft).awaited
  /\ <<>> \notin {Writing, LeftWriting, Closing, LeftClosing, BothLeft}
  /\ Writing \notin {LeftWriting, Closing, LeftClosing, BothLeft}
  /\ LeftWriting \notin {Closing, LeftClosing, BothLeft}
  /\ Closing \notin {LeftClosing, BothLeft}
  /\ LeftClosing # BothLeft
<1>1. /\ Head(Writing).what = "write" /\ Head(Writing).awaited
      /\ Head(LeftWriting).what = "write" /\ ~Head(LeftWriting).awaited
      /\ Head(Closing).what = "close" /\ Head(Closing).awaited
  BY ListFacts DEF WriteJob, LeftWriteJob, CloseJob
<1>2. /\ Head(LeftClosing).what = "close" /\ ~Head(LeftClosing).awaited
      /\ Head(BothLeft).what = "write" /\ ~Head(BothLeft).awaited
  BY ListFacts DEF LeftWriteJob, LeftCloseJob
<1>3. /\ Len(Writing) = 1 /\ Len(LeftWriting) = 1 /\ Len(Closing) = 1 /\ Len(LeftClosing) = 1
      /\ Len(BothLeft) = 2 /\ Len(<<>>) = 0
  BY ListFacts
<1>4. QED
  BY <1>1, <1>2, <1>3

(***************************************************************************)
(* The records.                                                            *)
(***************************************************************************)

Outcomes == {"none", "pending", "written", "failed", "unformatted", "abandoned", "cleared"}

\* TypeOK in its parts: the records, the worker, the executors' queues and the threads.
DataOK ==
  /\ queue \in Seq(Records) /\ Len(queue) <= QueueMaxsize
  /\ unfinished \in Nat
  /\ hand \in Records \cup {NoRecord}
  /\ fate \in [Records -> Outcomes]

ControlOK ==
  /\ kind \in Kinds /\ owns \in BOOLEAN /\ filename \in BOOLEAN
  /\ running \in BOOLEAN /\ cancelled \in BOOLEAN
  /\ pc \in Suspended \cup {"off", "shutdown", "done"}
  /\ answer \in {"none", "ok", "error"}
  /\ cycle \in 0..MaxCycles
  /\ cuts \subseteq Suspended

JobsOK == jobs \in [Cycles -> Seq(Jobs)] /\ \A x \in Cycles : Len(jobs[x]) <= 2

FilesOK ==
  /\ late \in BOOLEAN
  /\ step \in [Cycles -> {"idle", "opened", "rolled", "closing"}]
  /\ local \in [Cycles -> Handles \cup {NoStream}]
  /\ stream \in Handles \cup {NoStream}
  /\ openFiles \subseteq Handles

\* The parts make up TypeOK, before a step and after it.
LEMMA Parts ==
  /\ TypeOK <=> DataOK /\ ControlOK /\ JobsOK /\ FilesOK
  /\ TypeOK' <=> DataOK' /\ ControlOK' /\ JobsOK' /\ FilesOK'
BY DEF TypeOK, DataOK, ControlOK, JobsOK, FilesOK, Outcomes

\* Steps that leave the records where they are.
LEMMA DataStill ==
  ASSUME DataOK, Counted, UNCHANGED <<queue, unfinished, hand, fate>>,
         pc' = "write" <=> pc = "write"
  PROVE  DataOK' /\ Counted'
BY DEF DataOK, Counted, InHand

\* The record in hand is acknowledged.
LEMMA DataAcknowledged ==
  ASSUME DataOK, Counted, NEW outcome \in Outcomes, Acknowledge(hand, outcome), queue' = queue,
         pc = "write", pc' # "write"
  PROVE  DataOK' /\ Counted'
<1>1. /\ Len(queue) \in Nat /\ hand \in Records /\ unfinished = Len(queue) + 1
  BY LenProperties DEF DataOK, Counted, InHand
<1>2. unfinished' = unfinished - 1 /\ hand' = NoRecord
  BY DEF Acknowledge
<1>3. fate' \in [Records -> Outcomes]
  BY <1>1 DEF Acknowledge, DataOK
<1>4. DataOK'
  BY <1>1, <1>2, <1>3 DEF DataOK
<1>5. Counted'
  BY <1>1, <1>2 DEF Counted, InHand
<1>6. QED
  BY <1>4, <1>5

\* A record is put.
LEMMA DataPut ==
  ASSUME DataOK, Counted, Bounded, Put
  PROVE  DataOK' /\ Counted'
<1>1. /\ puts + 1 \in Records /\ queue' = Append(queue, puts + 1) /\ Len(queue) < QueueMaxsize
      /\ unfinished' = unfinished + 1 /\ hand' = hand /\ pc' = pc
      /\ fate' = [fate EXCEPT ![puts + 1] = "pending"]
  BY BoundsAssumption DEF Put, Bounded, Records
<1>2. queue' \in Seq(Records) /\ Len(queue') = Len(queue) + 1 /\ Len(queue) \in Nat
  BY <1>1, LenProperties, AppendProperties DEF DataOK
<1>3. fate' \in [Records -> Outcomes]
  BY <1>1 DEF DataOK, Outcomes
<1>4. unfinished' \in Nat /\ Len(queue') <= QueueMaxsize
  BY <1>1, <1>2, BoundsAssumption DEF DataOK
<1>5. DataOK'
  BY <1>1, <1>2, <1>3, <1>4 DEF DataOK
<1>6. InHand' = InHand /\ InHand \in {0, 1}
  BY <1>1 DEF InHand
<1>7. unfinished' = Len(queue') + InHand'
  BY <1>1, <1>2, <1>6 DEF Counted
<1>8. QED
  BY <1>1, <1>5, <1>7 DEF Counted

\* What is still queued is dropped.
LEMMA DataCleared ==
  ASSUME DataOK, Counted, Clear
  PROVE  DataOK' /\ Counted'
<1>1. /\ pc = "done" /\ pc' = "off" /\ queue' = <<>> /\ hand' = hand
      /\ unfinished' = unfinished - Len(queue)
  BY DEF Clear
<1>2. Len(queue) \in Nat /\ unfinished = Len(queue) + 0 /\ hand = NoRecord
  BY <1>1, LenProperties DEF DataOK, Counted, InHand
<1>3. fate' \in [Records -> Outcomes]
  BY DEF Clear, DataOK, Outcomes
<1>4. queue' \in Seq(Records) /\ Len(queue') = 0 /\ 0 <= QueueMaxsize
  BY <1>1, EmptySeq, BoundsAssumption
<1>5. unfinished' = 0
  BY <1>1, <1>2
<1>6. DataOK'
  BY <1>1, <1>2, <1>3, <1>4, <1>5 DEF DataOK
<1>7. Counted'
  BY <1>1, <1>2, <1>4, <1>5 DEF Counted, InHand
<1>8. QED
  BY <1>6, <1>7

\* The worker takes the head of the queue in hand.
LEMMA DataTaken ==
  ASSUME DataOK, Counted, GetRecord
  PROVE  DataOK' /\ Counted'
<1>1. /\ pc = "get" /\ pc' = "write" /\ queue # <<>> /\ hand' = Head(queue)
      /\ queue' = Tail(queue) /\ UNCHANGED <<unfinished, fate>>
  BY DEF GetRecord, Runs
<1>2. /\ hand' \in Records /\ queue' \in Seq(Records)
      /\ Len(queue') = Len(queue) - 1 /\ Len(queue) \in Nat
  BY <1>1, HeadTailProperties, LenProperties DEF DataOK
<1>3. unfinished = Len(queue) + 0 /\ InHand' = 1
  BY <1>1 DEF Counted, InHand
<1>4. DataOK'
  BY <1>1, <1>2, BoundsAssumption DEF DataOK
<1>5. Counted'
  BY <1>1, <1>2, <1>3 DEF Counted
<1>6. QED
  BY <1>4, <1>5

\* The worker answers the head of the queue without an await.
LEMMA DataSkipped ==
  ASSUME DataOK, Counted, GetUnformatted, pc' # "write"
  PROVE  DataOK' /\ Counted'
<1>1. /\ pc = "get" /\ queue # <<>> /\ hand' = hand /\ queue' = Tail(queue)
      /\ unfinished' = unfinished - 1
  BY DEF GetUnformatted, Runs
<1>2. /\ Head(queue) \in Records /\ queue' \in Seq(Records)
      /\ Len(queue') = Len(queue) - 1 /\ Len(queue) \in Nat /\ Len(queue') \in Nat
  BY <1>1, HeadTailProperties, LenProperties DEF DataOK
<1>3. unfinished = Len(queue) + 0 /\ hand = NoRecord /\ InHand' = 0
  BY <1>1 DEF Counted, InHand
<1>4. fate' \in [Records -> Outcomes]
  BY <1>2 DEF GetUnformatted, DataOK, Outcomes
<1>5. unfinished' = Len(queue') + InHand' /\ unfinished' \in Nat
  BY <1>1, <1>2, <1>3
<1>6. DataOK'
  BY <1>1, <1>2, <1>4, <1>5, BoundsAssumption DEF DataOK
<1>7. Counted'
  BY <1>1, <1>3, <1>5 DEF Counted
<1>8. QED
  BY <1>6, <1>7

(***************************************************************************)
(* The executors.                                                          *)
(***************************************************************************)

Work  == ControlOK /\ Bounded /\ jobs \in [Cycles -> Lists] /\ CurrentFits /\ OthersFit
Files == FilesOK /\ ThreadFits /\ FilesFit

\* The executors' queues are lists of the kinds that the worker's await tells.
LEMMA AllListed ==
  ASSUME ControlOK, Bounded, JobsOK, CurrentFits, OthersFit
  PROVE  jobs \in [Cycles -> Lists]
<1>1. Leftovers \subseteq Lists /\ <<>> \in Lists
  BY DEF Leftovers, Lists
<1>2. ASSUME NEW x \in Cycles PROVE jobs[x] \in Lists
  <2>1. CASE x < cycle
    BY <1>1, <2>1 DEF OthersFit
  <2>2. CASE x > cycle
    BY <1>1, <2>2 DEF OthersFit
  <2>3. CASE x = cycle
    <3>1. Fits(jobs[x])
      BY <2>3 DEF CurrentFits, Cycles
    <3>2. QED
      BY <1>1, <3>1 DEF Fits, ControlOK, Suspended, Lists
  <2>4. QED
    BY <2>1, <2>2, <2>3 DEF Cycles, ControlOK
<1>3. QED
  BY <1>2 DEF JobsOK

\* Such queues are of the declared type, before a step and after it.
LEMMA ListedOK ==
  /\ jobs \in [Cycles -> Lists] => JobsOK
  /\ jobs' \in [Cycles -> Lists] => JobsOK'
<1>1. ASSUME NEW f \in [Cycles -> Lists]
      PROVE  f \in [Cycles -> Seq(Jobs)] /\ \A x \in Cycles : Len(f[x]) <= 2
  BY ListFacts, Zenon
<1>2. QED
  BY <1>1 DEF JobsOK

\* The outer finally submits the close job, or shuts the console's executor down.
LEMMA LeaveFits ==
  ASSUME NEW js \in {<<>>, LeftWriting}, Leave(js)
  PROVE  \/ /\ kind = "console" /\ pc' = "done" /\ js = <<>>
            /\ jobs' = [jobs EXCEPT ![cycle] = <<>>]
         \/ /\ kind = "console" /\ pc' = "shutdown" /\ js = LeftWriting
            /\ jobs' = [jobs EXCEPT ![cycle] = LeftWriting]
         \/ /\ kind # "console" /\ pc' = "close" /\ js = <<>>
            /\ jobs' = [jobs EXCEPT ![cycle] = Closing]
         \/ /\ kind # "console" /\ pc' = "close" /\ js = LeftWriting
            /\ jobs' = [jobs EXCEPT ![cycle] = BothLeft]
BY ListFacts, HeadFacts DEF Leave

\* The top of the loop, with nothing on the executor.
LEMMA LoopTopFits ==
  ASSUME jobs \in [Cycles -> Lists], cycle \in Cycles, jobs[cycle] = <<>>, LoopTop
  PROVE  /\ \/ pc' = "get" /\ jobs' = [jobs EXCEPT ![cycle] = <<>>]
            \/ /\ kind = "console" /\ pc' = "done"
               /\ jobs' = [jobs EXCEPT ![cycle] = <<>>]
            \/ /\ kind # "console" /\ pc' = "close"
               /\ jobs' = [jobs EXCEPT ![cycle] = Closing]
         /\ pc' # "get" => ~running /\ queue' = <<>>
<1>1. CASE running \/ queue' # <<>>
  BY <1>1 DEF LoopTop
<1>2. CASE ~(running \/ queue' # <<>>)
  <2>1. Leave(<<>>)
    BY <1>2 DEF LoopTop
  <2>2. <<>> # LeftWriting
    BY HeadFacts
  <2>3. QED
    BY <1>2, <2>1, <2>2, LeaveFits
<1>3. QED
  BY <1>1, <1>2

\* What a cancelled await leaves: what has begun stays, and what is awaited is not taken up.
LEMMA AfterCutFits ==
  ASSUME NEW js \in AfterCut
  PROVE  /\ jobs[cycle] = <<>> => js = <<>>
         /\ jobs[cycle] = Writing => js = LeftWriting \/ (js = <<>> /\ step[cycle] = "idle")
         /\ jobs[cycle] = Closing => js = LeftClosing \/ (js = <<>> /\ step[cycle] = "idle")
         /\ jobs[cycle] = BothLeft => js = LeftWriting
<1>1. CASE jobs[cycle] = <<>>
  BY <1>1, HeadFacts DEF AfterCut
<1>2. CASE jobs[cycle] # <<>>
  <2>1. \/ /\ js = Front(jobs[cycle])
           /\ Len(jobs[cycle]) > 1 \/ step[cycle] = "idle"
        \/ /\ js = [jobs[cycle] EXCEPT ![1].awaited = FALSE]
           /\ Len(jobs[cycle]) = 1
    BY <1>2 DEF AfterCut
  <2>2. Len(Writing) = 1 /\ Len(Closing) = 1 /\ ~(1 > 1) /\ Len(BothLeft) = 2 /\ 2 # 1
    BY ListFacts
  <2>3. CASE jobs[cycle] = Writing
    <3>1. Front(Writing) = <<>> /\ [Writing EXCEPT ![1].awaited = FALSE] = LeftWriting
      BY ListFacts
    <3>2. js = LeftWriting \/ (js = <<>> /\ step[cycle] = "idle")
      BY <2>1, <2>2, <2>3, <3>1, Zenon
    <3>3. QED
      BY <2>3, <3>2, HeadFacts
  <2>4. CASE jobs[cycle] = Closing
    <3>1. Front(Closing) = <<>> /\ [Closing EXCEPT ![1].awaited = FALSE] = LeftClosing
      BY ListFacts
    <3>2. js = LeftClosing \/ (js = <<>> /\ step[cycle] = "idle")
      BY <2>1, <2>2, <2>4, <3>1, Zenon
    <3>3. QED
      BY <2>4, <3>2, HeadFacts
  <2>5. CASE jobs[cycle] = BothLeft
    <3>1. Front(BothLeft) = LeftWriting
      BY ListFacts
    <3>2. js = LeftWriting
      BY <2>1, <2>2, <2>5, <3>1, Zenon
    <3>3. QED
      BY <2>5, <3>2, HeadFacts
  <2>6. QED
    BY <1>2, <2>3, <2>4, <2>5
<1>3. QED
  BY <1>1, <1>2

(***************************************************************************)
(* The worker's steps: they replace the current executor's list and leave  *)
(* the threads and the files alone.                                        *)
(***************************************************************************)

\* Such a step has to fit its list to the next await and to what the thread has begun.
LEMMA WorkerMoves ==
  ASSUME Work, Files, cycle \in Cycles, NEW js \in Lists, jobs' = [jobs EXCEPT ![cycle] = js],
         UNCHANGED <<kind, owns, filename, running, cycle, puts, cancels>>,
         UNCHANGED <<step, local, stream, openFiles, late>>,
         pc' \in Suspended \cup {"shutdown", "done"},
         cancelled' \in BOOLEAN, cancelled' => pc' \in Suspended,
         answer' \in {"none", "ok", "error"}, answer' # "none" => pc' \in {"write", "close"},
         cuts \subseteq cuts', cuts' \subseteq Suspended, "close" \in cuts' => kind # "console",
         Fits(js)', ThreadAt(cycle, js),
         "close" \notin cuts' /\ owns
           /\ (pc' \in {"new", "done"} \/ (pc' = "close" /\ answer' # "none"))
           => stream = NoStream
  PROVE  Work' /\ Files'
<1>1. ControlOK /\ Bounded /\ jobs \in [Cycles -> Lists] /\ OthersFit
  BY DEF Work
<1>2. /\ jobs' \in [Cycles -> Lists] /\ jobs'[cycle] = js
      /\ \A x \in Cycles : x # cycle => jobs'[x] = jobs[x]
  BY <1>1
<1>3. ControlOK' /\ Bounded'
  BY <1>1 DEF ControlOK, Bounded, Cycles
<1>4. CurrentFits'
  BY <1>2 DEF CurrentFits
<1>5. OthersFit'
  <2>1. Leftovers \subseteq Leftovers'
    BY DEF Leftovers
  <2>2. ASSUME NEW x \in Cycles PROVE (x < cycle => x # cycle) /\ (x > cycle => x # cycle)
    BY <1>1 DEF Cycles, ControlOK
  <2>3. QED
    BY <1>1, <1>2, <2>1, <2>2 DEF OthersFit
<1>6. FilesOK'
  BY DEF Files, FilesOK
<1>7. ThreadFits'
  <2>1. ASSUME NEW x \in Cycles PROVE ThreadAt(x, jobs'[x])
    BY <1>2 DEF Files, ThreadFits
  <2>2. QED
    BY <2>1 DEF ThreadFits, ThreadAt
<1>8. FilesFit'
  BY DEF Files, FilesFit, Suspended
<1>9. QED
  BY <1>2, <1>3, <1>4, <1>5, <1>6, <1>7, <1>8 DEF Work, Files

\* The worker comes to the top of the loop.
LEMMA LoopsStep ==
  ASSUME Work, Files, First \/ GetUnformatted \/ GetTimeout \/ WriteAnswered
  PROVE  Work' /\ Files' /\ pc' # "write"
<1>1. /\ pc \in {"new", "get"} \/ (pc = "write" /\ answer # "none")
      /\ ~cancelled /\ LoopTop /\ answer' = "none"
      /\ UNCHANGED <<kind, owns, filename, running, cycle, puts, cancels, cancelled>>
      /\ UNCHANGED <<step, local, stream, openFiles, late, cuts>>
  BY DEF First, GetUnformatted, GetTimeout, WriteAnswered, Runs, config, coordinator, threads,
         files, Work, CurrentFits
<1>2. ControlOK /\ Bounded /\ jobs \in [Cycles -> Lists] /\ CurrentFits /\ OthersFit
  BY DEF Work
<1>3. cycle \in Cycles /\ cycle > 0
  BY <1>1, <1>2 DEF Bounded, Cycles
<1>4. jobs[cycle] = <<>>
  BY <1>1, <1>2, <1>3 DEF CurrentFits, Fits
<1>5. step[cycle] = "idle"
  BY <1>3, <1>4 DEF Files, ThreadFits, ThreadAt
<1>6. PICK js \in {<<>>, Closing} :
        /\ jobs' = [jobs EXCEPT ![cycle] = js]
        /\ \/ pc' = "get" /\ js = <<>>
           \/ pc' = "done" /\ js = <<>> /\ kind = "console"
           \/ pc' = "close" /\ js = Closing /\ kind # "console"
  BY <1>1, <1>2, <1>3, <1>4, LoopTopFits
<1>7. js \in Lists /\ ThreadAt(cycle, js)
  BY <1>5 DEF Lists, ThreadAt
<1>8. Fits(js)'
  BY <1>1, <1>6 DEF Fits, Leftovers
<1>9. kind = "console" => stream = NoStream
  BY DEF Files, FilesFit
<1>10. /\ cuts \subseteq cuts' /\ cuts' \subseteq Suspended
       /\ "close" \in cuts' => kind # "console"
       /\ pc' \in Suspended \cup {"shutdown", "done"} /\ cancelled' = FALSE
  BY <1>1, <1>2, <1>6 DEF ControlOK, OthersFit, Suspended
<1>11. Work' /\ Files'
  BY <1>1, <1>3, <1>6, <1>7, <1>8, <1>9, <1>10, WorkerMoves
<1>12. QED
  BY <1>6, <1>11

\* The worker submits the write of a record.
LEMMA GetStep ==
  ASSUME Work, Files, GetRecord
  PROVE  Work' /\ Files'
<1>1. /\ pc = "get" /\ pc' = "write" /\ ~cancelled
      /\ jobs' = [jobs EXCEPT ![cycle] = Submit(jobs[cycle], "write")]
      /\ UNCHANGED <<kind, owns, filename, running, cycle, puts, cancels, cancelled, answer>>
      /\ UNCHANGED <<step, local, stream, openFiles, late, cuts>>
  BY DEF GetRecord, Runs, config, coordinator, threads, files
<1>2. ControlOK /\ Bounded /\ jobs \in [Cycles -> Lists] /\ CurrentFits /\ OthersFit
  BY DEF Work
<1>3. cycle \in Cycles /\ cycle > 0
  BY <1>1, <1>2 DEF Bounded, Cycles
<1>4. jobs[cycle] = <<>> /\ answer = "none"
  BY <1>1, <1>2, <1>3 DEF CurrentFits, Fits, ControlOK
<1>5. step[cycle] = "idle"
  BY <1>3, <1>4 DEF Files, ThreadFits, ThreadAt
<1>6. jobs' = [jobs EXCEPT ![cycle] = Writing]
  BY <1>1, <1>4, ListFacts
<1>7. Writing \in Lists /\ ThreadAt(cycle, Writing)
  BY <1>5, HeadFacts DEF Lists, ThreadAt
<1>8. Fits(Writing)'
  BY <1>1, <1>4 DEF Fits
<1>9. /\ cuts \subseteq cuts' /\ cuts' \subseteq Suspended
      /\ "close" \in cuts' => kind # "console"
      /\ pc' \in Suspended \cup {"shutdown", "done"} /\ cancelled' = FALSE /\ answer' = "none"
  BY <1>1, <1>2, <1>4 DEF ControlOK, OthersFit, Suspended
<1>10. QED
  BY <1>1, <1>3, <1>6, <1>7, <1>8, <1>9, WorkerMoves

\* The worker is through: its close job has answered, or its executor is shut down.
LEMMA EndsStep ==
  ASSUME Work, Files, CloseAnswered \/ ShutdownOver
  PROVE  Work' /\ Files'
<1>1. /\ pc' = "done" /\ jobs' = jobs /\ answer' = "none"
      /\ UNCHANGED <<kind, owns, filename, running, cycle, puts, cancels, cancelled>>
      /\ UNCHANGED <<step, local, stream, openFiles, late, cuts>>
  BY DEF CloseAnswered, ShutdownOver, config, coordinator, threads, files, Work, CurrentFits
<1>2. ControlOK /\ Bounded /\ jobs \in [Cycles -> Lists] /\ CurrentFits /\ OthersFit
  BY DEF Work
<1>3. cycle \in Cycles /\ cycle > 0 /\ ~cancelled
  BY <1>2 DEF Bounded, Cycles, CloseAnswered, ShutdownOver, Runs, Suspended
<1>4. /\ jobs[cycle] = <<>>
      /\ (pc = "close" /\ answer # "none") \/ kind = "console"
  BY <1>2, <1>3 DEF CloseAnswered, ShutdownOver, Runs, CurrentFits, Fits
<1>5. step[cycle] = "idle"
  BY <1>3, <1>4 DEF Files, ThreadFits, ThreadAt
<1>6. jobs' = [jobs EXCEPT ![cycle] = <<>>]
  BY <1>1, <1>2, <1>4
<1>7. <<>> \in Lists /\ ThreadAt(cycle, <<>>)
  BY <1>5 DEF Lists, ThreadAt
<1>8. Fits(<<>>)'
  BY <1>1 DEF Fits, Leftovers
<1>9. "close" \notin cuts /\ owns => stream = NoStream
  BY <1>4 DEF Files, FilesFit
<1>10. /\ cuts \subseteq cuts' /\ cuts' \subseteq Suspended
       /\ "close" \in cuts' => kind # "console"
       /\ pc' \in Suspended \cup {"shutdown", "done"} /\ cancelled' = FALSE
  BY <1>1, <1>2, <1>3 DEF ControlOK, OthersFit
<1>11. QED
  BY <1>1, <1>3, <1>6, <1>7, <1>8, <1>9, <1>10, WorkerMoves

\* A cancellation leaves what has begun to the executor; a file's close job goes behind it.
LEMMA InterruptedStep ==
  ASSUME Work, Files, Interrupted
  PROVE  Work' /\ Files' /\ pc' # "write"
<1>1. PICK old \in AfterCut : OuterFinally(old)
  BY DEF Interrupted
<1>2. /\ cancelled /\ cancelled' = FALSE /\ answer' = "none" /\ cuts' = cuts \cup {pc}
      /\ UNCHANGED <<kind, owns, filename, running, cycle, puts, cancels>>
      /\ UNCHANGED <<step, local, stream, openFiles, late>>
  BY DEF Interrupted, config, coordinator, threads, files
<1>3. ControlOK /\ Bounded /\ jobs \in [Cycles -> Lists] /\ CurrentFits /\ OthersFit
  BY DEF Work
<1>4. pc \in Suspended /\ cycle \in Cycles /\ cycle > 0
  BY <1>2, <1>3 DEF Bounded, Cycles, Suspended
<1>5. Fits(jobs[cycle]) /\ ThreadAt(cycle, jobs[cycle])
  BY <1>3, <1>4 DEF CurrentFits, Files, ThreadFits
<1>6. /\ cuts \subseteq cuts' /\ cuts' \subseteq Suspended
      /\ "close" \in cuts' => kind # "console"
  BY <1>2, <1>3, <1>4, <1>5 DEF ControlOK, OthersFit, Fits
<1>7. kind = "console" => stream = NoStream
  BY DEF Files, FilesFit
<1>8. pc = "new" /\ owns /\ "close" \notin cuts => stream = NoStream
  BY DEF Files, FilesFit
<1>9. PICK js \in Lists :
        /\ jobs' = [jobs EXCEPT ![cycle] = js]
        /\ pc' \in {"close", "shutdown", "done"} /\ Fits(js)' /\ ThreadAt(cycle, js)
        /\ "close" \notin cuts' /\ owns /\ pc' = "done" => stream = NoStream
  <2>1. <<>> \in Lists /\ LeftWriting \in Lists /\ Closing \in Lists /\ BothLeft \in Lists
        /\ LeftClosing \in Lists
    BY DEF Lists
  <2>2. CASE pc = "new"
    <3>1. old = <<>> /\ pc' = "done" /\ jobs' = [jobs EXCEPT ![cycle] = <<>>]
      BY <1>1, <1>5, <2>2, AfterCutFits DEF Fits, OuterFinally, EndsWith
    <3>2. Fits(<<>>)' /\ ThreadAt(cycle, <<>>)
      BY <1>5, <2>2, <3>1 DEF Fits, Leftovers
    <3>3. QED
      BY <1>6, <1>8, <2>1, <2>2, <3>1, <3>2
  <2>3. CASE pc = "close"
    <3>1. pc' = "done" /\ jobs' = [jobs EXCEPT ![cycle] = old] /\ "close" \in cuts'
      BY <1>1, <1>2, <2>3 DEF OuterFinally, EndsWith
    <3>2. jobs[cycle] \in {<<>>, Closing, BothLeft}
      BY <1>5, <2>3 DEF Fits
    <3>3. old \in {<<>>, LeftWriting, LeftClosing} /\ ThreadAt(cycle, old)
      BY <1>5, <3>2, AfterCutFits, HeadFacts DEF ThreadAt
    <3>4. Fits(old)'
      BY <3>1, <3>3 DEF Fits, Leftovers
    <3>5. QED
      BY <2>1, <3>1, <3>3, <3>4
  <2>4. CASE pc \in {"get", "write"}
    <3>1. jobs[cycle] \in {<<>>, Writing} /\ Leave(old)
      BY <1>1, <1>5, <2>4 DEF Fits, OuterFinally
    <3>2. old = LeftWriting \/ (old = <<>> /\ step[cycle] = "idle")
      BY <1>5, <3>1, AfterCutFits DEF ThreadAt
    <3>3. old = LeftWriting => jobs[cycle] = Writing
      BY <3>1, AfterCutFits, HeadFacts
    <3>4. CASE kind = "console"
      <4>1. /\ pc' = (IF old = <<>> THEN "done" ELSE "shutdown")
            /\ jobs' = [jobs EXCEPT ![cycle] = old]
        BY <3>1, <3>4 DEF Leave
      <4>2. Fits(old)'
        BY <1>2, <3>2, <3>4, <4>1, HeadFacts DEF Fits, Leftovers
      <4>3. ThreadAt(cycle, old)
        BY <1>5, <3>2, <3>3, <3>4, HeadFacts DEF ThreadAt
      <4>4. QED
        BY <1>7, <2>1, <3>2, <3>4, <4>1, <4>2, <4>3
    <3>5. CASE kind # "console"
      <4>1. pc' = "close" /\ jobs' = [jobs EXCEPT ![cycle] = Submit(old, "close")]
        BY <3>1, <3>5 DEF Leave
      <4>2. CASE old = <<>>
        <5>1. Fits(Closing)' /\ ThreadAt(cycle, Closing)
          BY <1>2, <3>2, <3>5, <4>1, <4>2, HeadFacts DEF Fits, ThreadAt
        <5>2. QED
          BY <2>1, <4>1, <4>2, <5>1, ListFacts
      <4>3. CASE old = LeftWriting
        <5>1. Fits(BothLeft)' /\ ThreadAt(cycle, BothLeft)
          BY <1>2, <1>5, <3>3, <3>5, <4>1, <4>3, HeadFacts DEF Fits, ThreadAt
        <5>2. QED
          BY <2>1, <4>1, <4>3, <5>1, ListFacts
      <4>4. QED
        BY <3>2, <4>2, <4>3
    <3>6. QED
      BY <3>4, <3>5
  <2>5. QED
    BY <1>4, <2>2, <2>3, <2>4 DEF Suspended
<1>10. pc' \in Suspended \cup {"shutdown", "done"} /\ cancelled' = FALSE
  BY <1>2, <1>9 DEF Suspended
<1>11. Work' /\ Files'
  BY <1>2, <1>4, <1>6, <1>9, <1>10, WorkerMoves
<1>12. QED
  BY <1>9, <1>11

(***************************************************************************)
(* The coordinator's steps.                                                *)
(***************************************************************************)

\* A start gives the worker an executor of its own, which has nothing to do.
LEMMA StartStep ==
  ASSUME Work, Files, Start
  PROVE  Work' /\ Files'
<1>1. /\ pc = "off" /\ pc' = "new" /\ cycle < MaxCycles /\ cycle' = cycle + 1 /\ running' = TRUE
      /\ UNCHANGED <<kind, owns, filename, puts, cancels, cancelled, answer, jobs, cuts>>
      /\ UNCHANGED <<step, local, stream, openFiles, late>>
  BY DEF Start, config, threads, files
<1>2. ControlOK /\ Bounded /\ jobs \in [Cycles -> Lists] /\ CurrentFits /\ OthersFit
  BY DEF Work
<1>3. cycle' \in Cycles /\ cycle' > cycle /\ cycle' \in 0..MaxCycles /\ cycle' > 0
  BY <1>1, <1>2, BoundsAssumption DEF ControlOK, Cycles
<1>4. ControlOK' /\ Bounded'
  BY <1>1, <1>2, <1>3 DEF ControlOK, Bounded, Suspended
<1>5. Leftovers' = Leftovers
  BY <1>1 DEF Leftovers
<1>6. CurrentFits'
  <2>1. jobs'[cycle'] = <<>>
    BY <1>1, <1>2, <1>3 DEF OthersFit
  <2>2. answer' = "none"
    BY <1>1, <1>2 DEF CurrentFits, ControlOK
  <2>3. PICK x : x = cycle'
    OBVIOUS
  <2>4. QED
    BY <1>1, <2>1, <2>2 DEF CurrentFits, Fits
<1>7. OthersFit'
  <2>1. ASSUME NEW x \in Cycles
        PROVE  /\ x > cycle' => jobs[x] = <<>>
               /\ x < cycle' => jobs[x] \in Leftovers
    <3>1. x > cycle' => x > cycle
      BY <1>1, <1>2 DEF ControlOK, Cycles
    <3>2. x < cycle' => x < cycle \/ (x = cycle /\ cycle > 0)
      BY <1>1, <1>2 DEF ControlOK, Cycles
    <3>3. x = cycle /\ cycle > 0 => jobs[x] \in Leftovers
      BY <1>1, <1>2 DEF CurrentFits, Fits
    <3>4. QED
      BY <1>2, <3>1, <3>2, <3>3 DEF OthersFit
  <2>2. QED
    BY <1>1, <1>2, <1>5, <2>1 DEF OthersFit
<1>8. Files'
  BY <1>1, <1>2 DEF Files, FilesOK, ThreadFits, ThreadAt, FilesFit
<1>9. QED
  BY <1>1, <1>2, <1>4, <1>6, <1>7, <1>8 DEF Work

\* The other steps of the coordinator leave the executors alone.
LEMMA CoordinatorStep ==
  ASSUME Work, Files, Put \/ StopRunning \/ Cancel \/ Clear
  PROVE  Work' /\ Files'
<1>1. /\ UNCHANGED <<kind, owns, filename, cycle, answer, jobs, cuts>>
      /\ UNCHANGED <<step, local, stream, openFiles, late>>
      /\ pc' = pc \/ (pc = "done" /\ pc' = "off")
      /\ running' = running \/ running' = FALSE
  BY DEF Put, StopRunning, Cancel, Clear, config, coordinator, threads, files
<1>2. ControlOK /\ Bounded /\ jobs \in [Cycles -> Lists] /\ CurrentFits /\ OthersFit
  BY DEF Work
<1>3. /\ cancelled' = cancelled \/ (cancelled' = TRUE /\ pc \in Suspended /\ pc' = pc)
      /\ cancels' \in 0..MaxCancels /\ puts' \in 0..MaxRecords
  BY <1>2, BoundsAssumption DEF Put, StopRunning, Cancel, Clear, coordinator, Bounded
<1>4. ControlOK' /\ Bounded'
  <2>1. pc = "done" => ~cancelled
    BY <1>2 DEF Bounded, Suspended
  <2>2. (cancelled' => pc' \in Suspended) /\ (pc' # "off" => cycle' > 0)
    BY <1>1, <1>2, <1>3, <2>1 DEF Bounded
  <2>3. ControlOK'
    BY <1>1, <1>2, <1>3 DEF ControlOK
  <2>4. QED
    BY <1>1, <1>2, <1>3, <2>2, <2>3 DEF Bounded
<1>5. Leftovers' = Leftovers
  BY <1>1 DEF Leftovers
<1>6. CurrentFits' /\ OthersFit'
  BY <1>1, <1>2, <1>5 DEF CurrentFits, Fits, OthersFit
<1>7. Files'
  BY <1>1, <1>2 DEF Files, FilesOK, ThreadFits, ThreadAt, FilesFit
<1>8. QED
  BY <1>1, <1>2, <1>4, <1>6, <1>7 DEF Work

(***************************************************************************)
(* The threads' steps, first as the worker sees them.                      *)
(***************************************************************************)

Aside == <<kind, owns, filename, running, cycle, puts, cancels, pc, cancelled, cuts>>

\* A job is the worker's, or it was left behind.
LEMMA WhoseJob ==
  ASSUME Work, NEW x \in Cycles, jobs[x] # <<>>
  PROVE  /\ "close" \notin cuts => x = cycle /\ pc \in {"write", "close", "shutdown"}
         /\ jobs[x] = Writing => x = cycle /\ pc = "write" /\ answer = "none"
         /\ jobs[x] = Closing => x = cycle /\ pc = "close" /\ answer = "none"
         /\ jobs[x] = BothLeft => x = cycle /\ pc = "close" /\ answer = "none"
         /\ jobs[x] = LeftWriting =>
              (x = cycle /\ pc = "shutdown") \/ (LeftWriting \in Leftovers /\ "close" \in cuts)
         /\ x = cycle /\ pc = "close" => answer = "none"
<1>1. ControlOK /\ Bounded /\ CurrentFits /\ OthersFit
  BY DEF Work
<1>2. x < cycle \/ x > cycle \/ (x = cycle /\ cycle > 0)
  BY <1>1 DEF ControlOK, Cycles
<1>3. CASE x < cycle
  <2>1. jobs[x] \in Leftovers
    BY <1>1, <1>3 DEF OthersFit
  <2>2. x # cycle
    BY <1>1, <1>3 DEF ControlOK, Cycles
  <2>3. QED
    BY <2>1, <2>2, HeadFacts DEF Leftovers
<1>4. CASE x > cycle
  BY <1>1, <1>4 DEF OthersFit
<1>5. CASE x = cycle /\ cycle > 0
  <2>1. Fits(jobs[x])
    BY <1>1, <1>5 DEF CurrentFits
  <2>2. CASE pc \in {"off", "done"}
    BY <2>1, <2>2, HeadFacts DEF Fits, Leftovers
  <2>3. CASE pc \in {"new", "get", "write"}
    BY <1>5, <2>1, <2>3, HeadFacts DEF Fits
  <2>4. CASE pc = "close"
    BY <1>5, <2>1, <2>4, HeadFacts DEF Fits
  <2>5. CASE pc = "shutdown"
    BY <1>5, <2>1, <2>5, HeadFacts DEF Fits
  <2>6. QED
    BY <1>1, <2>2, <2>3, <2>4, <2>5 DEF ControlOK, Suspended
<1>6. QED
  BY <1>2, <1>3, <1>4, <1>5

\* A step within a job is nothing to the worker.
LEMMA WorkStill ==
  ASSUME Work, UNCHANGED Aside, UNCHANGED <<jobs, answer>>
  PROVE  Work'
<1>1. Leftovers' = Leftovers
  BY DEF Leftovers, Aside
<1>2. QED
  BY <1>1 DEF Aside, Work, ControlOK, Bounded, CurrentFits, Fits, OthersFit

\* A job that is over has answered the worker's await, or goes unobserved.
LEMMA WorkAnswered ==
  ASSUME Work, UNCHANGED Aside, NEW x \in Cycles, jobs[x] # <<>>,
         NEW outcome \in {"ok", "error"}, JobOver(x, outcome)
  PROVE  /\ Work'
         /\ jobs' \in [Cycles -> Lists] /\ jobs'[x] = Tail(jobs[x])
         /\ \A y \in Cycles : y # x => jobs'[y] = jobs[y]
         /\ answer' # answer => jobs[x] \in {Writing, Closing} /\ x = cycle
<1>1. ControlOK /\ Bounded /\ jobs \in [Cycles -> Lists] /\ CurrentFits /\ OthersFit
  BY DEF Work
<1>2. /\ jobs' = [jobs EXCEPT ![x] = Tail(jobs[x])]
      /\ answer' = IF Head(jobs[x]).awaited THEN outcome ELSE answer
  BY DEF JobOver
<1>3. jobs[x] \in {Writing, LeftWriting, Closing, LeftClosing, BothLeft}
  BY <1>1 DEF Lists
<1>4. /\ jobs[x] # BothLeft => Tail(jobs[x]) = <<>>
      /\ jobs[x] = BothLeft => Tail(jobs[x]) = Closing
  BY <1>3, ListFacts, HeadFacts
<1>5. /\ jobs[x] \in {Writing, Closing} => answer' = outcome
      /\ jobs[x] \notin {Writing, Closing} => answer' = answer
  BY <1>2, <1>3, HeadFacts
<1>6. /\ jobs' \in [Cycles -> Lists] /\ jobs'[x] = Tail(jobs[x])
      /\ \A y \in Cycles : y # x => jobs'[y] = jobs[y]
  <2>1. <<>> \in Lists /\ Closing \in Lists
    BY DEF Lists
  <2>2. QED
    BY <1>1, <1>2, <1>4, <2>1
<1>7. Leftovers' = Leftovers /\ <<>> \in Leftovers
  BY DEF Leftovers, Aside
<1>8. ControlOK' /\ Bounded'
  BY <1>1, <1>5 DEF Aside, ControlOK, Bounded
<1>9. OthersFit'
  <2>1. ASSUME NEW y \in Cycles PROVE jobs'[y] = <<>> \/ jobs'[y] = jobs[y] \/ y = cycle
    BY <1>4, <1>6, WhoseJob
  <2>2. ASSUME NEW y \in Cycles, y < cycle \/ y > cycle PROVE y # cycle
    BY <1>1, <2>2 DEF ControlOK, Cycles
  <2>3. QED
    BY <1>1, <1>7, <2>1, <2>2 DEF OthersFit, Aside
<1>10. CurrentFits'
  <2>1. CASE x # cycle
    <3>1. answer' = answer
      BY <1>5, <2>1, WhoseJob
    <3>2. cycle > 0 => jobs'[cycle] = jobs[cycle]
      BY <1>1, <1>6, <2>1 DEF ControlOK, Cycles
    <3>3. QED
      BY <1>1, <1>7, <3>1, <3>2 DEF CurrentFits, Fits, Aside
  <2>2. CASE x = cycle /\ jobs[x] \in {Writing, Closing}
    <3>1. jobs'[cycle] = <<>> /\ answer' # "none" /\ pc \in {"write", "close"}
      BY <1>4, <1>5, <1>6, <2>2, HeadFacts, WhoseJob
    <3>2. cycle > 0 /\ Fits(jobs[cycle])
      BY <1>1, <2>2 DEF CurrentFits, Cycles
    <3>3. QED
      BY <1>7, <3>1, <3>2 DEF CurrentFits, Fits, Aside
  <2>3. CASE x = cycle /\ jobs[x] = BothLeft
    <3>1. jobs'[cycle] = Closing /\ answer' = answer /\ answer = "none" /\ pc = "close"
      BY <1>4, <1>5, <1>6, <2>3, HeadFacts, WhoseJob
    <3>2. cycle > 0 /\ Fits(jobs[cycle])
      BY <1>1, <2>3 DEF CurrentFits, Cycles
    <3>3. QED
      BY <1>7, <3>1, <3>2 DEF CurrentFits, Fits, Aside
  <2>4. CASE x = cycle /\ jobs[x] \in {LeftWriting, LeftClosing}
    <3>1. jobs'[cycle] = <<>> /\ answer' = answer
      BY <1>4, <1>5, <1>6, <2>4, HeadFacts
    <3>2. cycle > 0 /\ Fits(jobs[cycle])
      BY <1>1, <2>4 DEF CurrentFits, Cycles
    <3>3. pc \in {"shutdown", "off", "done"} /\ answer = "none"
      BY <1>1, <2>4, <3>2, HeadFacts DEF Fits, CurrentFits, ControlOK, Suspended
    <3>4. QED
      BY <1>7, <3>1, <3>2, <3>3 DEF CurrentFits, Fits, Aside
  <2>5. QED
    BY <1>3, <2>1, <2>2, <2>3, <2>4
<1>11. Work'
  BY <1>6, <1>8, <1>9, <1>10 DEF Work
<1>12. QED
  <2>1. answer' # answer => jobs[x] \in {Writing, Closing} /\ x = cycle
    BY <1>5, WhoseJob
  <2>2. QED
    BY <1>6, <1>11, <2>1

(***************************************************************************)
(* The threads' steps as the files see them.                               *)
(***************************************************************************)

\* While no close was cut, only one thread has anything to do.
LEMMA Alone ==
  ASSUME Work, Files, NEW x \in Cycles, jobs[x] # <<>>, "close" \notin cuts
  PROVE  \A y \in Cycles : y # x => jobs[y] = <<>> /\ step[y] = "idle"
BY WhoseJob DEF Files, ThreadFits, ThreadAt

\* The end of a job: no thread is within one.
LEMMA FilesOver ==
  ASSUME Work, Files, UNCHANGED Aside, NEW x \in Cycles, jobs[x] # <<>>,
         NEW outcome \in {"ok", "error"}, JobOver(x, outcome),
         stream' \in Handles \cup {NoStream}, openFiles' \subseteq Handles, late' \in BOOLEAN,
         kind = "console" \/ ~owns => UNCHANGED <<stream, openFiles>>,
         "close" \notin cuts =>
           /\ ~late'
           /\ owns => openFiles' \subseteq {stream'}
           /\ kind = "plain" /\ stream' # NoStream => stream' \in openFiles'
           /\ owns /\ jobs[x] = Closing => stream' = NoStream
  PROVE  Files'
<1>1. FilesOK /\ ThreadFits /\ FilesFit
  BY DEF Files
<1>2. /\ step' = [step EXCEPT ![x] = "idle"] /\ local' = [local EXCEPT ![x] = NoStream]
  BY DEF JobOver
<1>3. \A y \in Cycles : y # x => jobs'[y] = jobs[y]
  BY WorkAnswered
<1>4. FilesOK'
  <2>1. step' \in [Cycles -> {"idle", "opened", "rolled", "closing"}]
    BY <1>1, <1>2 DEF FilesOK
  <2>2. local' \in [Cycles -> Handles \cup {NoStream}]
    BY <1>1, <1>2 DEF FilesOK
  <2>3. QED
    BY <2>1, <2>2 DEF FilesOK
<1>5. /\ step'[x] = "idle"
      /\ \A y \in Cycles : y # x => step'[y] = step[y] /\ local'[y] = local[y]
  BY <1>1, <1>2 DEF FilesOK
<1>6. ThreadFits'
  <2>1. ASSUME NEW y \in Cycles
        PROVE  /\ jobs'[y] = <<>> => step'[y] = "idle"
               /\ step'[y] = "closing" => jobs'[y] \in {Closing, LeftClosing} /\ owns
               /\ step'[y] \in {"opened", "rolled"} =>
                    /\ jobs'[y] \in {Writing, LeftWriting, BothLeft}
                    /\ kind # "console" /\ local'[y] \in Handles
    <3>1. CASE y = x
      BY <1>5, <3>1
    <3>2. CASE y # x
      BY <1>1, <1>3, <1>5, <3>2 DEF ThreadFits, ThreadAt
    <3>3. QED
      BY <3>1, <3>2
  <2>2. QED
    BY <2>1 DEF ThreadFits, ThreadAt, Aside
<1>7. FilesFit'
  <2>1. /\ kind' = "console" => owns' /\ stream' = NoStream /\ openFiles' = {}
        /\ ~owns' => kind' = "plain" /\ stream' = Injected /\ openFiles' = {Injected}
    BY <1>1 DEF FilesFit, Aside
  <2>2. ASSUME "close" \notin cuts
        PROVE  /\ \A y \in Cycles : step'[y] \notin {"opened", "rolled", "closing"}
               /\ owns /\ (pc \in {"off", "new", "done"} \/ (pc = "close" /\ answer' # "none"))
                    => stream' = NoStream
    <3>1. \A y \in Cycles : step'[y] = "idle"
      BY <1>5, <2>2, Alone
    <3>2. x = cycle /\ pc \in {"write", "close", "shutdown"}
      BY <2>2, WhoseJob
    <3>3. pc = "close" /\ answer' # "none" => jobs[x] = Closing
      BY <3>2, WhoseJob, WorkAnswered
    <3>4. QED
      BY <2>2, <3>1, <3>2, <3>3
  <2>3. QED
    BY <2>1, <2>2 DEF FilesFit, Aside
<1>8. QED
  BY <1>4, <1>6, <1>7 DEF Files

\* A step within a job.
LEMMA FilesOn ==
  ASSUME Work, Files, UNCHANGED Aside, UNCHANGED <<jobs, answer, late>>,
         NEW x \in Cycles, jobs[x] # <<>>,
         NEW at \in {"opened", "rolled", "closing"}, step' = [step EXCEPT ![x] = at],
         local' \in [Cycles -> Handles \cup {NoStream}],
         \A y \in Cycles : y # x => local'[y] = local[y],
         stream' \in Handles \cup {NoStream}, openFiles' \subseteq Handles,
         at = "closing" => jobs[x] \in {Closing, LeftClosing} /\ owns,
         at # "closing" => /\ jobs[x] \in {Writing, LeftWriting, BothLeft}
                           /\ kind # "console" /\ local'[x] \in Handles,
         kind = "console" \/ ~owns => UNCHANGED <<stream, openFiles>>,
         "close" \notin cuts =>
           /\ at # "closing" => local'[x] = stream'
           /\ at = "closing" => openFiles' = {}
           /\ owns => openFiles' \subseteq {stream'}
           /\ kind = "plain" /\ stream' # NoStream /\ at # "closing" => stream' \in openFiles'
  PROVE  Files'
<1>1. FilesOK /\ ThreadFits /\ FilesFit
  BY DEF Files
<1>2. FilesOK'
  BY <1>1 DEF FilesOK
<1>3. step'[x] = at /\ \A y \in Cycles : y # x => step'[y] = step[y]
  BY <1>1 DEF FilesOK
<1>4. ThreadFits'
  <2>1. ASSUME NEW y \in Cycles
        PROVE  /\ jobs[y] = <<>> => step'[y] = "idle"
               /\ step'[y] = "closing" => jobs[y] \in {Closing, LeftClosing} /\ owns
               /\ step'[y] \in {"opened", "rolled"} =>
                    /\ jobs[y] \in {Writing, LeftWriting, BothLeft}
                    /\ kind # "console" /\ local'[y] \in Handles
    <3>1. CASE y = x
      BY <1>3, <3>1
    <3>2. CASE y # x
      BY <1>1, <1>3, <3>2 DEF ThreadFits, ThreadAt
    <3>3. QED
      BY <3>1, <3>2
  <2>2. QED
    BY <2>1 DEF ThreadFits, ThreadAt, Aside
<1>5. FilesFit'
  <2>1. /\ kind' = "console" => owns' /\ stream' = NoStream /\ openFiles' = {}
        /\ ~owns' => kind' = "plain" /\ stream' = Injected /\ openFiles' = {Injected}
    BY <1>1 DEF FilesFit, Aside
  <2>2. ASSUME "close" \notin cuts
        PROVE  /\ \A y \in Cycles : step'[y] \in {"opened", "rolled"} => local'[y] = stream'
               /\ pc \notin {"off", "new", "done"} /\ ~(pc = "close" /\ answer # "none")
               /\ (\A y \in Cycles : step'[y] # "closing") <=> at # "closing"
    <3>1. \A y \in Cycles : y # x => step'[y] = "idle"
      BY <1>3, <2>2, Alone
    <3>2. /\ x = cycle /\ pc \in {"write", "close", "shutdown"}
          /\ ~(pc = "close" /\ answer # "none")
      BY <2>2, WhoseJob
    <3>3. \A y \in Cycles : step'[y] \in {"opened", "rolled"} => local'[y] = stream'
      BY <1>3, <2>2, <3>1
    <3>4. QED
      BY <1>3, <3>1, <3>2, <3>3
  <2>3. ~late' \/ "close" \in cuts
    BY <1>1 DEF FilesFit
  <2>4. QED
    BY <2>1, <2>2, <2>3 DEF FilesFit, Aside
<1>6. QED
  BY <1>2, <1>4, <1>5 DEF Files

\* The job that a thread is within, and the streams of an open file.
LEMMA AtWork ==
  ASSUME Work, Files, NEW x \in Cycles, NEW what \in {"write", "close"}, NEW at,
         Working(x, what, at)
  PROVE  /\ jobs[x] # <<>> /\ step[x] = at
         /\ what = "write" => jobs[x] \in {Writing, LeftWriting, BothLeft}
         /\ what = "close" => jobs[x] \in {Closing, LeftClosing}
         /\ at = "closing" => owns
         /\ at \in {"opened", "rolled"} => local[x] \in Handles /\ kind # "console"
         /\ at \in {"opened", "rolled"} /\ "close" \notin cuts =>
              local[x] = stream /\ (kind = "plain" => stream \in openFiles)
<1>1. jobs[x] # <<>> /\ step[x] = at /\ Head(jobs[x]).what = what
  BY DEF Working
<1>2. jobs[x] \in {Writing, LeftWriting, Closing, LeftClosing, BothLeft}
  BY <1>1 DEF Work, Lists
<1>3. /\ what = "write" => jobs[x] \in {Writing, LeftWriting, BothLeft}
      /\ what = "close" => jobs[x] \in {Closing, LeftClosing}
  BY <1>1, <1>2, HeadFacts
<1>4. ThreadAt(x, jobs[x])
  BY DEF Files, ThreadFits
<1>5. ASSUME at \in {"opened", "rolled"}, "close" \notin cuts
      PROVE  local[x] = stream /\ (kind = "plain" => stream \in openFiles)
  <2>1. local[x] = stream /\ stream # NoStream
    BY <1>1, <1>4, <1>5 DEF Files, FilesFit, ThreadAt, Handles, NoStream
  <2>2. \A y \in Cycles : step[y] # "closing"
    BY <1>1, <1>5, Alone
  <2>3. QED
    BY <1>5, <2>1, <2>2 DEF Files, FilesFit
<1>6. QED
  BY <1>1, <1>3, <1>4, <1>5 DEF ThreadAt

\* The console's write.
LEMMA WriteStdoutStep ==
  ASSUME Work, Files, NEW x \in Cycles, WriteStdout(x)
  PROVE  Work' /\ Files'
<1>1. /\ kind = "console" /\ Working(x, "write", "idle") /\ UNCHANGED Aside
      /\ UNCHANGED <<stream, openFiles, late>>
  BY DEF WriteStdout, config, coordinator, files, Aside
<1>2. PICK outcome \in {"ok", "error"} : JobOver(x, outcome)
  BY DEF WriteStdout
<1>3. jobs[x] # <<>>
  BY <1>1, AtWork
<1>4. FilesOK /\ FilesFit
  BY DEF Files
<1>5. Files'
  BY <1>1, <1>2, <1>3, <1>4, FilesOver DEF FilesOK, FilesFit
<1>6. QED
  BY <1>1, <1>2, <1>3, <1>5, WorkAnswered

\* The stream is open already.
LEMMA FetchStreamStep ==
  ASSUME Work, Files, NEW x \in Cycles, FetchStream(x)
  PROVE  Work' /\ Files'
<1>1. /\ kind # "console" /\ Working(x, "write", "idle") /\ UNCHANGED Aside
      /\ stream # NoStream /\ local' = [local EXCEPT ![x] = stream]
      /\ step' = [step EXCEPT ![x] = "opened"]
      /\ UNCHANGED <<jobs, answer, stream, openFiles, late>>
  BY DEF FetchStream, config, coordinator, files, Aside
<1>2. jobs[x] \in {Writing, LeftWriting, BothLeft} /\ jobs[x] # <<>> /\ step[x] = "idle"
  BY <1>1, AtWork
<1>3. FilesOK /\ FilesFit
  BY DEF Files
<1>4. stream \in Handles
  BY <1>1, <1>3 DEF FilesOK
<1>5. /\ local' \in [Cycles -> Handles \cup {NoStream}] /\ local'[x] = stream
      /\ \A y \in Cycles : y # x => local'[y] = local[y]
  BY <1>1, <1>3, <1>4 DEF FilesOK
<1>6. "close" \notin cuts => \A y \in Cycles : step[y] # "closing"
  BY <1>2, Alone
<1>7. Files'
  BY <1>1, <1>2, <1>3, <1>4, <1>5, <1>6, FilesOn DEF FilesOK, FilesFit
<1>8. QED
  BY <1>1, <1>7, WorkStill

\* The stream is opened, or that raises.
LEMMA OpenStreamStep ==
  ASSUME Work, Files, NEW x \in Cycles, OpenStream(x)
  PROVE  Work' /\ Files'
<1>1. /\ kind # "console" /\ Working(x, "write", "idle") /\ UNCHANGED Aside
      /\ stream = NoStream /\ UNCHANGED late
  BY DEF OpenStream, config, coordinator, Aside
<1>2. /\ jobs[x] \in {Writing, LeftWriting, BothLeft} /\ jobs[x] # <<>> /\ step[x] = "idle"
      /\ jobs[x] # Closing
  BY <1>1, AtWork, HeadFacts
<1>3. FilesOK /\ FilesFit /\ NoStream \notin Handles /\ Injected # NoStream
  BY DEF Files, Handles, NoStream, Injected
<1>4. owns /\ ("close" \notin cuts => openFiles = {} /\ ~late)
  BY <1>1, <1>3 DEF FilesOK, FilesFit
<1>5. CASE JobOver(x, "error") /\ UNCHANGED <<stream, openFiles>>
  <2>1. Files'
    BY <1>1, <1>2, <1>3, <1>4, <1>5, FilesOver DEF FilesOK
  <2>2. QED
    BY <1>1, <1>2, <1>5, <2>1, WorkAnswered
<1>6. CASE ~(JobOver(x, "error") /\ UNCHANGED <<stream, openFiles>>)
  <2>1. PICK h \in Handles :
          /\ stream' = h /\ openFiles' = openFiles \cup {h}
          /\ local' = [local EXCEPT ![x] = h] /\ step' = [step EXCEPT ![x] = "opened"]
          /\ UNCHANGED <<jobs, answer>>
    BY <1>6 DEF OpenStream
  <2>2. /\ local' \in [Cycles -> Handles \cup {NoStream}] /\ local'[x] = h
        /\ \A y \in Cycles : y # x => local'[y] = local[y]
    BY <1>3, <2>1 DEF FilesOK
  <2>3. stream' \in Handles \cup {NoStream} /\ openFiles' \subseteq Handles
    BY <1>3, <2>1 DEF FilesOK
  <2>4. "close" \notin cuts => openFiles' = {stream'} /\ ~late
    BY <1>4, <2>1
  <2>5. Files'
    BY <1>1, <1>2, <1>4, <2>1, <2>2, <2>3, <2>4, FilesOn
  <2>6. QED
    BY <1>1, <2>1, <2>5, WorkStill
<1>7. QED
  BY <1>5, <1>6

\* The stream is replaced, by a rollover or a reopening, or closed when that raises.
LEMMA RollStep ==
  ASSUME Work, Files, NEW x \in Cycles, Roll(x) \/ Reopen(x)
  PROVE  Work' /\ Files'
<1>1. /\ kind \in {"rotating", "timed", "watched"} /\ Working(x, "write", "opened")
      /\ UNCHANGED Aside /\ UNCHANGED late
  BY DEF Roll, Reopen, config, coordinator, Aside
<1>2. /\ jobs[x] \in {Writing, LeftWriting, BothLeft} /\ jobs[x] # <<>> /\ jobs[x] # Closing
      /\ "close" \notin cuts => local[x] = stream
  BY <1>1, AtWork, HeadFacts
<1>3. FilesOK /\ FilesFit
  BY DEF Files
<1>4. /\ owns /\ kind \notin {"console", "plain"}
      /\ "close" \notin cuts => openFiles \ {local[x]} = {} /\ ~late
  BY <1>1, <1>2, <1>3 DEF FilesFit
<1>5. CASE /\ stream' \in {stream, NoStream} /\ openFiles' = openFiles \ {local[x]}
           /\ JobOver(x, "error")
  <2>1. Files'
    BY <1>1, <1>2, <1>3, <1>4, <1>5, FilesOver DEF FilesOK
  <2>2. QED
    BY <1>1, <1>2, <1>5, <2>1, WorkAnswered
<1>6. CASE Replace(x)
  <2>1. PICK h \in Handles :
          /\ stream' = h /\ openFiles' = (openFiles \ {local[x]}) \cup {h}
          /\ local' = [local EXCEPT ![x] = h] /\ step' = [step EXCEPT ![x] = "rolled"]
          /\ UNCHANGED <<jobs, answer>>
    BY <1>6 DEF Replace
  <2>2. /\ local' \in [Cycles -> Handles \cup {NoStream}] /\ local'[x] = h
        /\ \A y \in Cycles : y # x => local'[y] = local[y]
    BY <1>3, <2>1 DEF FilesOK
  <2>3. stream' \in Handles \cup {NoStream} /\ openFiles' \subseteq Handles
    BY <1>3, <2>1 DEF FilesOK
  <2>4. "close" \notin cuts => openFiles' = {stream'}
    BY <1>4, <2>1
  <2>5. Files'
    BY <1>1, <1>2, <1>4, <2>1, <2>2, <2>3, <2>4, FilesOn
  <2>6. QED
    BY <1>1, <2>1, <2>5, WorkStill
<1>7. QED
  BY <1>5, <1>6 DEF Roll, Reopen

\* The record is written to the stream that the thread has fetched.
LEMMA WriteStep ==
  ASSUME Work, Files, NEW x \in Cycles, Write(x)
  PROVE  Work' /\ Files'
<1>1. PICK at \in {"opened", "rolled"} : Working(x, "write", at)
  BY DEF Write
<1>2. /\ UNCHANGED Aside /\ UNCHANGED <<stream, openFiles>>
      /\ late' = (late \/ (kind = "plain" /\ local[x] \notin openFiles))
  BY DEF Write, config, coordinator, Aside
<1>3. PICK outcome \in {"ok", "error"} : JobOver(x, outcome)
  BY DEF Write
<1>4. /\ jobs[x] \in {Writing, LeftWriting, BothLeft} /\ jobs[x] # <<>> /\ jobs[x] # Closing
      /\ "close" \notin cuts => local[x] = stream /\ (kind = "plain" => stream \in openFiles)
  BY <1>1, AtWork, HeadFacts
<1>5. FilesOK /\ FilesFit
  BY DEF Files
<1>6. late' \in BOOLEAN
  BY <1>2, <1>5 DEF FilesOK
<1>7. "close" \notin cuts => ~late'
  BY <1>2, <1>4, <1>5 DEF FilesFit
<1>8. Files'
  BY <1>2, <1>3, <1>4, <1>5, <1>6, <1>7, FilesOver DEF FilesOK, FilesFit
<1>9. QED
  BY <1>2, <1>3, <1>4, <1>8, WorkAnswered

\* The close job closes the file, and then drops the reference.
LEMMA CloseStep ==
  ASSUME Work, Files, NEW x \in Cycles, CloseStream(x) \/ CloseOver(x)
  PROVE  Work' /\ Files'
<1>1. UNCHANGED Aside /\ UNCHANGED late
  BY DEF CloseStream, CloseOver, config, coordinator, Aside
<1>2. FilesOK /\ FilesFit
  BY DEF Files
<1>3. ASSUME Working(x, "close", "idle") \/ Working(x, "close", "closing")
      PROVE  jobs[x] \in {Closing, LeftClosing} /\ jobs[x] # <<>>
  BY <1>3, AtWork
<1>4. CASE CloseStream(x)
  <2>1. /\ Working(x, "close", "idle") /\ owns /\ stream # NoStream
        /\ openFiles' = openFiles \ {stream} /\ step' = [step EXCEPT ![x] = "closing"]
        /\ UNCHANGED <<jobs, answer, local, stream>>
    BY <1>4 DEF CloseStream
  <2>2. jobs[x] \in {Closing, LeftClosing} /\ jobs[x] # <<>>
    BY <1>3, <2>1
  <2>3. kind # "console"
    BY <1>2, <2>1 DEF FilesFit
  <2>4. "close" \notin cuts => openFiles' = {}
    BY <1>2, <2>1 DEF FilesFit
  <2>5. Files'
    BY <1>1, <1>2, <2>1, <2>2, <2>3, <2>4, FilesOn DEF FilesOK
  <2>6. QED
    BY <1>1, <2>1, <2>5, WorkStill
<1>5. CASE CloseOver(x)
  <2>1. PICK at \in {"idle", "closing"} :
          /\ Working(x, "close", at)
          /\ at = "closing" => stream' = NoStream
          /\ at = "idle" => (~owns \/ stream = NoStream) /\ stream' = stream
    BY <1>5 DEF CloseOver
  <2>2. PICK outcome \in {"ok", "error"} : JobOver(x, outcome)
    BY <1>5 DEF CloseOver
  <2>3. openFiles' = openFiles
    BY <1>5 DEF CloseOver
  <2>4. jobs[x] # <<>> /\ step[x] = at /\ (at = "closing" => owns)
    BY <2>1, AtWork
  <2>5. kind = "console" \/ ~owns => stream' = stream
    BY <1>2, <2>1, <2>4 DEF FilesFit
  <2>6. at = "closing" /\ "close" \notin cuts => openFiles = {}
    BY <1>2, <2>4 DEF FilesFit
  <2>7. at = "idle" /\ "close" \notin cuts => \A y \in Cycles : step[y] # "closing"
    BY <2>4, Alone
  <2>8. "close" \notin cuts =>
          /\ ~late
          /\ owns => openFiles \subseteq {stream'}
          /\ kind = "plain" /\ stream' # NoStream => stream' \in openFiles
          /\ owns => stream' = NoStream
    <3>1. CASE at = "closing"
      <4>1. stream' = NoStream /\ ("close" \notin cuts => openFiles = {})
        BY <2>1, <2>6, <3>1, Zenon
      <4>2. QED
        BY <1>2, <4>1 DEF FilesFit
    <3>2. CASE at = "idle"
      <4>1. stream' = stream /\ (~owns \/ stream = NoStream)
        BY <2>1, <3>2, Zenon
      <4>2. QED
        BY <1>2, <2>7, <3>2, <4>1 DEF FilesFit
    <3>3. QED
      BY <3>1, <3>2
  <2>9. Files'
    BY <1>1, <1>2, <2>1, <2>2, <2>3, <2>4, <2>5, <2>8, FilesOver DEF FilesOK
  <2>10. QED
    BY <1>1, <2>2, <2>4, <2>9, WorkAnswered
<1>6. QED
  BY <1>4, <1>5

(***************************************************************************)
(* The inductive invariant and what follows from it.                       *)
(***************************************************************************)

\* The file backends that the constructors let through: only a plain one can be given an
\* open file.
LEMMA Constructed ==
  ASSUME NEW k \in Kinds, NEW b \in Backends(k)
  PROVE  /\ b.owns \in BOOLEAN /\ b.filename \in BOOLEAN
         /\ k = "console" => b.owns
         /\ ~b.owns => k = "plain"
<1>1. CASE k = "console"
  <2>1. b \in {[owns |-> TRUE, filename |-> FALSE]}
    BY <1>1 DEF Backends
  <2>2. b.owns = TRUE /\ b.filename = FALSE
    BY <2>1
  <2>3. QED
    BY <1>1, <2>2
<1>2. CASE k # "console"
  <2>1. PICK h \in FileHandlers(k, QueueMaxsize) : b = h.backend
    BY <1>2 DEF Backends
  <2>2. k \in {"plain", "rotating", "timed", "watched"}
    BY <1>2, KindsAssumption
  <2>3. PICK o \in FileOptions(QueueMaxsize) :
          \/ k = "plain" /\ h \in AsyncFileHandler(o)
          \/ k = "rotating" /\ h \in AsyncRotatingFileHandler(o)
          \/ k = "timed" /\ h \in AsyncTimedRotatingFileHandler(o)
          \/ k = "watched" /\ h \in AsyncWatchedFileHandler(o)
    BY <2>1, <2>2 DEF FileHandlers
  <2>4. /\ h.backend \in FileBackend(o)
        /\ k # "plain" => o.filename
    BY <2>3 DEF AsyncFileHandler, AsyncRotatingFileHandler, AsyncTimedRotatingFileHandler,
                AsyncWatchedFileHandler, FileHandler, Named, RotatingFileBackend,
                TimedRotatingFileBackend, WatchedFileBackend, WithRotator, Raises
  <2>5. b = [filename |-> o.filename, owns |-> ~o.file] /\ ~(o.file /\ o.filename)
    BY <2>1, <2>4 DEF FileBackend, Raises
  <2>6. o.file \in BOOLEAN /\ o.filename \in BOOLEAN
    BY DEF FileOptions
  <2>7. QED
    BY <1>2, <2>4, <2>5, <2>6
<1>3. QED
  BY <1>1, <1>2

\* A backend as its constructor leaves it.
LEMMA InitWorkerInv == Init => WorkerInv
<1> SUFFICES ASSUME Init PROVE WorkerInv
  OBVIOUS
<1>1. /\ kind \in Kinds /\ owns \in BOOLEAN /\ filename \in BOOLEAN
      /\ kind = "console" => owns
      /\ ~owns => kind = "plain"
  <2>1. PICK b \in Backends(kind) : owns = b.owns /\ filename = b.filename
    BY DEF Init
  <2>2. QED
    BY <2>1, Constructed DEF Init
<1>2. /\ stream = (IF owns THEN NoStream ELSE Injected)
      /\ openFiles = (IF owns THEN {} ELSE {Injected})
      /\ running = FALSE /\ queue = <<>> /\ unfinished = 0 /\ hand = NoRecord
      /\ pc = "off" /\ cancelled = FALSE /\ answer = "none" /\ cycle = 0
      /\ jobs = [x \in Cycles |-> <<>>] /\ step = [x \in Cycles |-> "idle"]
      /\ local = [x \in Cycles |-> NoStream]
      /\ puts = 0 /\ cancels = 0 /\ cuts = {} /\ late = FALSE
      /\ fate = [r \in Records |-> "none"]
  BY DEF Init
<1>3. DataOK
  <2>1. queue \in Seq(Records) /\ Len(queue) = 0 /\ 0 <= QueueMaxsize
    BY <1>2, EmptySeq, BoundsAssumption
  <2>2. QED
    BY <1>2, <2>1 DEF DataOK, Outcomes
<1>4. ControlOK /\ Bounded
  <2>1. 0 \in 0..MaxCycles /\ 0 \in 0..MaxCancels /\ 0 \in 0..MaxRecords
    BY BoundsAssumption
  <2>2. QED
    BY <1>1, <1>2, <2>1 DEF ControlOK, Bounded
<1>5. JobsOK
  <2>1. <<>> \in Lists
    BY DEF Lists
  <2>2. QED
    BY <1>2, <2>1, ListedOK
<1>6. FilesOK
  <2>1. Injected \in Handles
    BY BoundsAssumption DEF Injected, Handles
  <2>2. QED
    BY <1>1, <1>2, <2>1 DEF FilesOK
<1>7. CurrentFits /\ OthersFit /\ ThreadFits
  BY <1>2, BoundsAssumption
     DEF CurrentFits, OthersFit, ThreadFits, ThreadAt, Leftovers, Cycles
<1>8. FilesFit
  BY <1>1, <1>2 DEF FilesFit
<1>9. Counted
  BY <1>2, EmptySeq DEF Counted, InHand
<1>10. QED
  BY <1>3, <1>4, <1>5, <1>6, <1>7, <1>8, <1>9, Parts DEF WorkerInv

\* Every step of a thread keeps what the worker and the files are in.
LEMMA ThreadStep ==
  ASSUME Work, Files, NEW x \in Cycles, Thread(x)
  PROVE  Work' /\ Files'
BY WriteStdoutStep, FetchStreamStep, OpenStreamStep, RollStep, WriteStep, CloseStep DEF Thread

\* Every step, of the coordinator, the worker or a thread, keeps the invariant.
LEMMA StepWorkerInv == WorkerInv /\ [Next]_vars => WorkerInv'
<1> SUFFICES ASSUME WorkerInv, [Next]_vars PROVE WorkerInv'
  OBVIOUS
<1>1. DataOK /\ Counted /\ Bounded /\ Work /\ Files
  BY Parts, AllListed DEF WorkerInv, Work, Files
<1>2. Outcomes = {"none", "pending", "written", "failed", "unformatted", "abandoned", "cleared"}
  BY DEF Outcomes
<1>3. SUFFICES DataOK' /\ Counted' /\ Work' /\ Files'
  BY Parts, ListedOK DEF WorkerInv, Work, Files
<1>4. CASE Start
  BY <1>1, <1>4, StartStep, DataStill DEF Start
<1>5. CASE Put
  BY <1>1, <1>5, CoordinatorStep, DataPut
<1>6. CASE StopRunning \/ Cancel
  BY <1>1, <1>6, CoordinatorStep, DataStill DEF StopRunning, Cancel
<1>7. CASE Clear
  BY <1>1, <1>7, CoordinatorStep, DataCleared
<1>8. CASE First \/ GetTimeout
  <2>1. UNCHANGED <<queue, unfinished, hand, fate>> /\ pc # "write"
    BY <1>8 DEF First, GetTimeout, Runs
  <2>2. QED
    BY <1>1, <1>8, <2>1, LoopsStep, DataStill
<1>9. CASE GetRecord
  BY <1>1, <1>9, GetStep, DataTaken
<1>10. CASE GetUnformatted
  BY <1>1, <1>10, LoopsStep, DataSkipped
<1>11. CASE WriteAnswered
  <2>1. /\ pc = "write" /\ queue' = queue
        /\ \E outcome \in {"written", "failed"} : Acknowledge(hand, outcome)
    BY <1>11 DEF WriteAnswered, Runs
  <2>2. QED
    BY <1>1, <1>2, <1>11, <2>1, LoopsStep, DataAcknowledged
<1>12. CASE CloseAnswered \/ ShutdownOver
  BY <1>1, <1>12, EndsStep, DataStill DEF CloseAnswered, ShutdownOver, Runs
<1>13. CASE Interrupted
  <2>1. queue' = queue /\ InnerFinally
    BY <1>13 DEF Interrupted
  <2>2. CASE pc = "write"
    BY <1>1, <1>2, <1>13, <2>1, <2>2, InterruptedStep, DataAcknowledged DEF InnerFinally
  <2>3. CASE pc # "write"
    BY <1>1, <1>13, <2>1, <2>3, InterruptedStep, DataStill DEF InnerFinally
  <2>4. QED
    BY <2>2, <2>3
<1>14. CASE \E x \in Cycles : Thread(x)
  <2>1. PICK x \in Cycles : Thread(x)
    BY <1>14
  <2>2. UNCHANGED <<queue, unfinished, hand, fate, pc>>
    BY <2>1 DEF Thread, WriteStdout, FetchStream, OpenStream, Roll, Reopen, Write, CloseStream,
                CloseOver
  <2>3. QED
    BY <1>1, <2>1, <2>2, ThreadStep, DataStill
<1>15. CASE Idle \/ UNCHANGED vars
  <2>1. /\ UNCHANGED <<queue, unfinished, hand, fate, pc>> /\ UNCHANGED Aside
        /\ UNCHANGED <<jobs, answer, step, local, stream, openFiles, late>>
    BY <1>15 DEF Idle, vars, Aside, config, coordinator, threads, files
  <2>2. DataOK' /\ Counted' /\ Work'
    BY <1>1, <2>1, DataStill, WorkStill
  <2>3. Files'
    BY <1>1, <2>1 DEF Files, FilesOK, ThreadFits, ThreadAt, FilesFit, Aside
  <2>4. QED
    BY <2>2, <2>3
<1>16. QED
  BY <1>4, <1>5, <1>6, <1>7, <1>8, <1>9, <1>10, <1>11, <1>12, <1>13, <1>14, <1>15
     DEF Next, Environment, Worker

\* WorkerInv holds in every reachable state.
THEOREM WorkerInductive == Spec => []WorkerInv
BY InitWorkerInv, StepWorkerInv, PTL DEF Spec

\* The worker's state keeps its types: above all, the queue stays within its size, and no
\* executor ever has more than two jobs to finish.
THEOREM WorkerTypes == Spec => []TypeOK
<1>1. WorkerInv => TypeOK
  BY DEF WorkerInv
<1>2. QED
  BY <1>1, WorkerInductive, PTL

\* Unless a cancellation has hit the await of the close job, no two executors ever have
\* work at a time, and no write goes to a stream that a close job has closed.
THEOREM OneWriter == Spec => []SoleWriter
<1>1. WorkerInv => SoleWriter
  <2> SUFFICES ASSUME WorkerInv, "close" \notin cuts
               PROVE  ~late /\ Cardinality({x \in Cycles : jobs[x] # <<>>}) <= 1
    BY DEF SoleWriter
  <2>1. ~late
    BY DEF WorkerInv, FilesFit
  <2>2. Work
    BY Parts, AllListed DEF WorkerInv, Work
  <2>3. {x \in Cycles : jobs[x] # <<>>} \subseteq {cycle}
    BY <2>2, WhoseJob
  <2>4. IsFiniteSet({cycle}) /\ Cardinality({cycle}) = 1
    BY FS_Singleton
  <2>5. /\ Cardinality({x \in Cycles : jobs[x] # <<>>}) <= Cardinality({cycle})
    BY <2>3, <2>4, FS_Subset
  <2>6. QED
    BY <2>1, <2>4, <2>5
<1>2. QED
  BY <1>1, WorkerInductive, PTL

\* The file is open only while logging runs: with the worker ended, an owned stream is
\* closed and forgotten, an injected one left open, and nothing is left on an executor,
\* unless a cancellation has hit the await of the close job.
THEOREM AllClosed == Spec => []ClosedAtEnd
<1>1. WorkerInv => ClosedAtEnd
  <2> SUFFICES ASSUME WorkerInv, pc \in {"off", "done"}, "close" \notin cuts
               PROVE  /\ owns => openFiles = {} /\ stream = NoStream
                      /\ ~owns => stream = Injected /\ openFiles = {Injected}
                      /\ \A x \in Cycles : jobs[x] = <<>>
    BY DEF ClosedAtEnd
  <2>1. owns => stream = NoStream /\ openFiles \subseteq {NoStream}
    BY DEF WorkerInv, FilesFit
  <2>2. openFiles \subseteq Handles /\ NoStream \notin Handles
    BY DEF WorkerInv, TypeOK, NoStream, Handles
  <2>3. ~owns => stream = Injected /\ openFiles = {Injected}
    BY DEF WorkerInv, FilesFit
  <2>4. Work
    BY Parts, AllListed DEF WorkerInv, Work
  <2>5. \A x \in Cycles : jobs[x] = <<>>
    BY <2>4, WhoseJob
  <2>6. QED
    BY <2>1, <2>2, <2>3, <2>5
<1>2. QED
  BY <1>1, WorkerInductive, PTL

(***************************************************************************)
(* The worker implements the contract of module SinkWorker.                *)
(***************************************************************************)

\* The worker is created by the step that sets the running event.
LEMMA StartMaps == Start /\ Bounded => Sink!Start
BY DEF Start, Bounded, Suspended, Sink!Start

\* A record is put at the tail; the running event is cleared alone.
LEMMA OfferMaps ==
  ASSUME DataOK, Bounded, running \in BOOLEAN, Put \/ StopRunning
  PROVE  Sink!Offer
<1>1. /\ UNCHANGED <<hand, pc, cancelled>>
      /\ running' = running \/ running' = FALSE
  BY DEF Put, StopRunning
<1>2. Len(queue) \in Nat /\ QueueMaxsize \in Nat /\ unfinished \in Nat
  BY BoundsAssumption, LenProperties DEF DataOK
<1>3. \E n \in 0..(QueueMaxsize - Len(queue)) : \E s \in [1..n -> Records] :
         queue' = queue \o s /\ unfinished' = unfinished + n
  <2>1. CASE Put
    <3>1. /\ puts + 1 \in Records /\ queue' = Append(queue, puts + 1)
          /\ Len(queue) < QueueMaxsize /\ unfinished' = unfinished + 1
      BY <2>1, BoundsAssumption DEF Put, Bounded, Records
    <3>2. queue' = queue \o <<puts + 1>>
      BY <3>1, AppendIsConcat DEF DataOK
    <3>3. <<puts + 1>> \in [1..1 -> Records]
      BY <3>1
    <3>4. 1 \in 0..(QueueMaxsize - Len(queue))
      BY <1>2, <3>1
    <3>5. QED
      BY <3>1, <3>2, <3>3, <3>4
  <2>2. CASE StopRunning
    <3>1. queue' = queue \o << >> /\ unfinished' = unfinished + 0
      BY <1>2, <2>2, ConcatEmptySeq DEF StopRunning, DataOK
    <3>2. << >> \in [1..0 -> Records]
      OBVIOUS
    <3>3. 0 \in 0..(QueueMaxsize - Len(queue))
      BY <1>2 DEF DataOK
    <3>4. QED
      BY <3>1, <3>2, <3>3
  <2>3. QED
    BY <2>1, <2>2
<1>4. QED
  BY <1>1, <1>3 DEF Sink!Offer

\* A cancelled close is the worker's own affair: its queue is done with.
LEMMA CancelMaps == Cancel => Sink!Cancel \/ UNCHANGED Sink!vars
BY DEF Cancel, Suspended, Sink!Cancel, Sink!vars

\* The queue is cleared once the worker has ended.
LEMMA ClearMaps == Clear => Sink!Clear
BY DEF Clear, coordinator, Sink!Clear

\* The top of the loop goes on, or ends for a good reason.
LEMMA TopMaps ==
  ASSUME Work, First \/ GetUnformatted \/ GetTimeout \/ WriteAnswered
  PROVE  /\ ~cancelled /\ UNCHANGED <<running, cancelled>>
         /\ \/ pc' = "get"
            \/ pc' \in {"close", "done"} /\ ~running /\ queue' = <<>>
<1>1. /\ pc \in {"new", "get"} \/ (pc = "write" /\ answer # "none")
      /\ ~cancelled /\ LoopTop /\ UNCHANGED <<running, cancelled>>
  BY DEF First, GetUnformatted, GetTimeout, WriteAnswered, Runs, coordinator
<1>2. ControlOK /\ Bounded /\ jobs \in [Cycles -> Lists] /\ CurrentFits
  BY DEF Work
<1>3. cycle \in Cycles /\ cycle > 0
  BY <1>1, <1>2 DEF Bounded, Cycles
<1>4. jobs[cycle] = <<>>
  BY <1>1, <1>2, <1>3 DEF CurrentFits, Fits
<1>5. QED
  BY <1>1, <1>2, <1>3, <1>4, LoopTopFits

\* Coming to the top of the loop with an empty hand is none of the coordinator's business,
\* unless the worker ends.
LEMMA LoopsMap ==
  ASSUME Work, Counted, First \/ GetTimeout
  PROVE  Sink!Exit \/ UNCHANGED Sink!vars
<1>1. pc \in {"new", "get"} /\ UNCHANGED <<queue, unfinished, hand>>
  BY DEF First, GetTimeout, Runs
<1>2. hand = NoRecord
  BY <1>1 DEF Counted
<1>3. QED
  BY <1>1, <1>2, TopMaps DEF Sink!Exit, Sink!vars

\* A record that cannot be rendered is answered at once.
LEMMA SkipMaps ==
  ASSUME Work, Counted, GetUnformatted
  PROVE  Sink!GetAndDone
<1>1. /\ pc = "get" /\ queue # <<>> /\ queue' = Tail(queue)
      /\ unfinished' = unfinished - 1 /\ hand' = hand
  BY DEF GetUnformatted, Runs
<1>2. hand = NoRecord
  BY <1>1 DEF Counted
<1>3. QED
  BY <1>1, <1>2, TopMaps DEF Sink!GetAndDone, Sink!MayEnd

\* The written record is acknowledged.
LEMMA DoneMaps ==
  ASSUME Work, Counted, WriteAnswered
  PROVE  Sink!Done
<1>1. pc = "write" /\ queue' = queue /\ hand' = NoRecord /\ unfinished' = unfinished - 1
  BY DEF WriteAnswered, Runs, Acknowledge
<1>2. hand # NoRecord
  BY <1>1 DEF Counted, Records, NoRecord
<1>3. QED
  BY <1>1, <1>2, TopMaps DEF Sink!Done, Sink!MayEnd

\* The head of the queue is taken.
LEMMA GetMaps == Counted /\ GetRecord => Sink!Get
BY DEF GetRecord, Counted, Runs, coordinator, Sink!Get

\* The record in hand is given up at the cancellation.
LEMMA InterruptedMaps ==
  ASSUME Work, Files, Counted, Interrupted
  PROVE  Sink!Cancelled \/ UNCHANGED Sink!vars
<1>1. /\ cancelled /\ ~cancelled' /\ pc \in Suspended /\ UNCHANGED <<running, queue>>
      /\ InnerFinally
  BY DEF Interrupted, Work, Bounded, coordinator
<1>2. pc' \in {"close", "shutdown", "done"}
  <2>1. \E old : OuterFinally(old)
    BY DEF Interrupted
  <2>2. QED
    BY <2>1 DEF OuterFinally, EndsWith, Leave
<1>3. CASE pc = "close"
  BY <1>1, <1>2, <1>3 DEF InnerFinally, Sink!vars
<1>4. CASE pc = "write"
  <2>1. hand # NoRecord /\ hand' = NoRecord /\ unfinished' = unfinished - 1
    BY <1>1, <1>4 DEF Counted, InnerFinally, Acknowledge, Records, NoRecord
  <2>2. QED
    BY <1>1, <1>2, <1>4, <2>1 DEF Sink!Cancelled
<1>5. CASE pc \in {"new", "get"}
  <2>1. hand = NoRecord /\ hand' = NoRecord /\ unfinished' = unfinished
    BY <1>1, <1>5 DEF Counted, InnerFinally
  <2>2. QED
    BY <1>1, <1>2, <1>5, <2>1 DEF Sink!Cancelled
<1>6. QED
  BY <1>1, <1>3, <1>4, <1>5 DEF Suspended

\* Closing the file, and all that the threads do, is none of the coordinator's business.
LEMMA ThreadMaps ==
  CloseAnswered \/ ShutdownOver \/ (\E x \in Cycles : Thread(x)) \/ Idle \/ UNCHANGED vars
    => UNCHANGED Sink!vars
BY DEF CloseAnswered, ShutdownOver, Thread, WriteStdout, FetchStream, OpenStream, Roll, Reopen,
       Write, CloseStream, CloseOver, Idle, vars, Runs, coordinator, Sink!vars

\* The worker of the console and of every file backend is one that the coordinator's
\* contract allows: one task_done() for each get(), in the queue's order, working while
\* logging is active or records are queued, and giving up the record in hand when cancelled.
THEOREM SinkRefined == Spec => ImplementsSink
<1>1. Init => Sink!Init
  BY DEF Init, Sink!Init
<1>2. WorkerInv /\ [Next]_vars => [Sink!Next]_(Sink!vars)
  <2> SUFFICES ASSUME WorkerInv, [Next]_vars PROVE Sink!Next \/ UNCHANGED Sink!vars
    OBVIOUS
  <2>1. DataOK /\ Bounded /\ Counted /\ running \in BOOLEAN /\ Work /\ Files
    BY Parts, AllListed DEF WorkerInv, ControlOK, Work, Files
  <2>2. CASE Environment
    BY <2>1, <2>2, StartMaps, OfferMaps, CancelMaps, ClearMaps DEF Environment, Sink!Next
  <2>3. CASE Worker
    BY <2>1, <2>3, LoopsMap, SkipMaps, DoneMaps, GetMaps, InterruptedMaps, ThreadMaps
       DEF Worker, Sink!Next
  <2>4. CASE (\E x \in Cycles : Thread(x)) \/ Idle \/ UNCHANGED vars
    BY <2>4, ThreadMaps
  <2>5. QED
    BY <2>2, <2>3, <2>4 DEF Next
<1>3. QED
  BY <1>1, <1>2, WorkerInductive, PTL DEF Spec, ImplementsSink, Sink!Spec

=============================================================================

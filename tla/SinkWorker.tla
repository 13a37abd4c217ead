------------------------------ MODULE SinkWorker ------------------------------
(***************************************************************************)
(* What AsyncLoggingHandler relies on from the worker of a backend,        *)
(* whatever its sink is (the worker contract of register_backend): it      *)
(* takes records from its queue one at a time and in order, answers each   *)
(* with exactly one task_done(), runs for as long as logging is active or  *)
(* records are queued, and once cancelled gives up the record in hand and  *)
(* takes no other.                                                         *)
(*                                                                         *)
(* task is "done" when the worker is through with its queue; releasing its *)
(* sink may follow.                                                        *)
(***************************************************************************)
EXTENDS Integers, Sequences

CONSTANTS
  Records,       \* what can be put into the queue
  NoRecord,      \* the empty hand
  QueueMaxsize

VARIABLES running, queue, unfinished, hand, task

vars == <<running, queue, unfinished, hand, task>>

Tasks == {"none", "live", "cancelled", "done"}

Init ==
  /\ running = FALSE
  /\ queue = <<>> /\ unfinished = 0
  /\ hand = NoRecord
  /\ task = "none"

-----------------------------------------------------------------------------
(* The handler's side. *)

Start ==
  /\ task = "none"
  /\ running' = TRUE
  /\ task' = "live"
  /\ UNCHANGED <<queue, unfinished, hand>>

\* The bridge and the flush put one record, report_status several; the running
\* event may be cleared in the same section, or alone.
Offer ==
  /\ \E n \in 0..(QueueMaxsize - Len(queue)) : \E s \in [1..n -> Records] :
       /\ queue' = queue \o s
       /\ unfinished' = unfinished + n
  /\ running' \in {running, FALSE}
  /\ UNCHANGED <<hand, task>>

Cancel ==
  /\ task = "live"
  /\ task' = "cancelled"
  /\ UNCHANGED <<running, queue, unfinished, hand>>

\* stop_logging's clearing loop, once the worker has ended.
Clear ==
  /\ task = "done"
  /\ queue' = <<>>
  /\ unfinished' = unfinished - Len(queue)
  /\ task' = "none"
  /\ UNCHANGED <<running, hand>>

-----------------------------------------------------------------------------
(* The worker's side. *)

Get ==
  /\ task = "live" /\ hand = NoRecord
  /\ queue # <<>>
  /\ hand' = Head(queue)
  /\ queue' = Tail(queue)
  /\ UNCHANGED <<running, unfinished, task>>

\* task_done(); if nothing is left to do, the worker ends without an await between.
MayEnd(q) == task' = "live" \/ (~running /\ q = <<>> /\ task' = "done")

Done ==
  /\ task = "live" /\ hand # NoRecord
  /\ hand' = NoRecord
  /\ unfinished' = unfinished - 1
  /\ MayEnd(queue)
  /\ UNCHANGED <<running, queue>>

\* A record that is answered without an await.
GetAndDone ==
  /\ task = "live" /\ hand = NoRecord
  /\ queue # <<>>
  /\ queue' = Tail(queue)
  /\ unfinished' = unfinished - 1
  /\ MayEnd(queue')
  /\ UNCHANGED <<running, hand>>

Exit ==
  /\ task = "live" /\ hand = NoRecord
  /\ ~running /\ queue = <<>>
  /\ task' = "done"
  /\ UNCHANGED <<running, queue, unfinished, hand>>

Cancelled ==
  /\ task = "cancelled"
  /\ hand' = NoRecord
  /\ unfinished' = IF hand = NoRecord THEN unfinished ELSE unfinished - 1
  /\ task' = "done"
  /\ UNCHANGED <<running, queue>>

Next == \/ Start \/ Offer \/ Cancel \/ Clear
        \/ Get \/ Done \/ GetAndDone \/ Exit \/ Cancelled

Spec == Init /\ [][Next]_vars

=============================================================================

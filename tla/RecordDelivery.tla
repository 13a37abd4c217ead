--------------------------- MODULE RecordDelivery ---------------------------
(***************************************************************************)
(* What the handler promises about a record, whatever the machinery        *)
(* between emit() and the sinks: an accepted record becomes due at every   *)
(* backend at once; each backend settles it at most once and for good; the *)
(* records a sink handles, it handles in the order in which they were      *)
(* accepted; and records are dropped unhandled only by overflow while the  *)
(* handler serves, or by a shutdown.                                       *)
(***************************************************************************)
EXTENDS Integers

CONSTANTS
  Backends,   \* the sinks
  MaxTickets  \* bound: records accepted in one behaviour

VARIABLES
  issued,     \* records accepted so far
  fate        \* what has become of each of them at each backend

vars == <<issued, fate>>

Tickets  == 1..MaxTickets
Handled  == {"written", "failed"}             \* the sink took it or refused it
Shutdown == {"discarded", "abandoned", "swept"}

Init ==
  /\ issued = 0
  /\ fate = [b \in Backends |-> [t \in Tickets |-> "none"]]

\* A record is accepted: it is now due at every backend.
Accept ==
  /\ issued < MaxTickets
  /\ issued' = issued + 1
  /\ fate' = [b \in Backends |-> [fate[b] EXCEPT ![issued + 1] = "pending"]]

\* A sink is through with a record, and has handled none accepted after it.
Handle(b, t) ==
  /\ fate[b][t] = "pending"
  /\ \A u \in Tickets : u > t => fate[b][u] \notin Handled
  /\ \E outcome \in Handled : fate' = [fate EXCEPT ![b][t] = outcome]
  /\ UNCHANGED issued

\* Some of the backends have no room for a record.
Overflow(t) ==
  /\ \E full \in SUBSET Backends :
       /\ \A b \in full : fate[b][t] = "pending"
       /\ fate' = [b \in Backends |->
            IF b \in full THEN [fate[b] EXCEPT ![t] = "overflow"] ELSE fate[b]]
  /\ UNCHANGED issued

\* A shutdown gives up any of the pending records.
GiveUp ==
  /\ \A b \in Backends : \A t \in Tickets :
       \/ fate'[b][t] = fate[b][t]
       \/ fate[b][t] = "pending" /\ fate'[b][t] \in Shutdown
  /\ fate' = [b \in Backends |-> [t \in Tickets |-> fate'[b][t]]]
  /\ UNCHANGED issued

Next ==
  \/ Accept
  \/ \E b \in Backends, t \in Tickets : Handle(b, t)
  \/ \E t \in Tickets : Overflow(t)
  \/ GiveUp

Spec == Init /\ [][Next]_vars

=============================================================================

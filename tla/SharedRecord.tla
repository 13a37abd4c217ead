----------------------------- MODULE SharedRecord -----------------------------
(***************************************************************************)
(* One LogRecord object in the hands of every sink.  The bridge puts the   *)
(* same object into every backend's queue, and the thread that logged it   *)
(* still has it: the host's other handlers format it there, with formatters*)
(* that write into it.  ScietexFormatter and JsonFormatter work on a copy, *)
(* the rotating file backend hands a copy to its thread, and the broker    *)
(* worker reads the fields that no formatter writes.                       *)
(*                                                                         *)
(* A field is abstracted to who has written it.  The event loop formats    *)
(* for one sink at a time; the write thread and the logging thread         *)
(* interleave with it.  Mutable arguments of the record are left out: they *)
(* are taken to stay as they were logged.                                  *)
(***************************************************************************)
EXTENDS HandlerSetup

CONSTANTS
  Texts,     \* console and file sinks whose write thread only writes
  Rotating,  \* size-based rotating file sinks
  Brokers

ASSUME SinksAssumption == Texts \cap Rotating = {} /\ (Texts \cup Rotating) \cap Brokers = {}

VARIABLES
  exc,        \* the record carries exc_info
  formatter,  \* the formatter of each text sink
  hostTime,   \* the host's other handler has %(asctime)s in its format
  hostExc,    \* and formats exceptions in the stdlib's way or in its own
  hostAt,     \* how far that handler is with the record
  shared,     \* the LogRecord that was logged
  loop,       \* the sink that the event loop is formatting for
  pc,         \* how far each sink is with the record
  work,       \* the copy its formatter is working on
  passed,     \* the copy a rotating sink has given to its write thread
  out         \* what each sink writes or sends, once it does

host   == <<hostTime, hostExc>>
config == <<exc, formatter, host>>
vars   == <<config, hostAt, shared, loop, pc, work, passed, out>>

Styled == Texts \cup Rotating
Sinks  == Styled \cup Brokers
None   == "none"

Record == [levelname : {"logged", "abbreviated", "painted"},
           name      : {"logged", "painted"},
           msg       : {"logged", "painted"},
           message   : {"unset", "logged", "painted"},
           asctime   : BOOLEAN,
           exc_text  : {"unset", "stdlib", "host's"}]

Rendering == [level : {"logged", "abbreviated", "painted"},
              name : {"logged", "painted"},
              message : {"logged", "painted"},
              exception : {"none", "stdlib", "host's"},
              extras : SUBSET {"asctime"}]

Logged == [levelname |-> "logged", name |-> "logged", msg |-> "logged",
           message |-> "unset", asctime |-> FALSE, exc_text |-> "unset"]

TypeOK ==
  /\ exc \in BOOLEAN /\ hostTime \in BOOLEAN /\ hostExc \in {"stdlib", "host's"}
  /\ formatter \in [Styled -> {"color", "mono", "plain", "json"}]
  /\ hostAt \in {"before", "message", "done"}
  /\ shared \in Record
  /\ loop \in Styled \cup {None}
  /\ pc \in [Sinks -> {"queued", "copied", "styled", "rollover", "done"}]
  /\ work \in [Styled -> Record]
  /\ passed \in [Rotating -> Record]
  /\ out \in [Sinks -> SUBSET Rendering]

Init ==
  /\ exc \in BOOLEAN /\ hostTime \in BOOLEAN /\ hostExc \in {"stdlib", "host's"}
  /\ formatter \in [Styled -> Formatters]
  /\ hostAt = "before"
  /\ shared = Logged
  /\ loop = None
  /\ pc = [s \in Sinks |-> "queued"]
  /\ work = [s \in Styled |-> Logged]
  /\ passed = [s \in Rotating |-> Logged]
  /\ out = [s \in Sinks |-> {}]

-----------------------------------------------------------------------------
(* logging.Formatter.format, as every text formatter runs it in the end. *)

\* getMessage() does the formatting of the arguments, if the message still has them.
GetMessage(record) == record.msg

ExcText(record, own) == IF ~exc \/ record.exc_text # "unset" THEN record.exc_text ELSE own

Stamped(record, time) ==
  [record EXCEPT !.message = GetMessage(record), !.asctime = @ \/ time]

\* The host's other handler, on the thread that logged.
HostStamps ==
  /\ hostAt = "before"
  /\ shared' = Stamped(shared, hostTime)
  /\ hostAt' = "message"
  /\ UNCHANGED <<config, loop, pc, work, passed, out>>

HostFormatsException ==
  /\ hostAt = "message"
  /\ shared' = [shared EXCEPT !.exc_text = ExcText(shared, hostExc)]
  /\ hostAt' = "done"
  /\ UNCHANGED <<config, loop, pc, work, passed, out>>

-----------------------------------------------------------------------------
(* The sinks. *)

At(s, label) == pc[s] = label

\* The worker has got the record and calls formatter.format, which copies it.
Copy(s) ==
  /\ At(s, "queued") /\ loop = None
  /\ loop' = s
  /\ work' = [work EXCEPT ![s] = shared]
  /\ pc' = [pc EXCEPT ![s] = "copied"]
  /\ UNCHANGED <<config, hostAt, shared, passed, out>>

\* ScietexFormatter abbreviates the level; in color it paints level (at least bold),
\* name and message and clears the arguments.  JsonFormatter changes nothing.
Restyled(s, record) ==
  CASE formatter[s] = "color" ->
         [record EXCEPT !.levelname = "painted", !.name = "painted", !.msg = "painted"]
    [] formatter[s] = "mono"  -> [record EXCEPT !.levelname = "painted", !.msg = "painted"]
    [] formatter[s] = "plain" -> [record EXCEPT !.levelname = "abbreviated"]
    [] formatter[s] = "json"  -> record

\* Mutant: without copy.copy the formatter restyles the record itself.
Restyle_InPlace(s) ==
  /\ At(s, "copied")
  /\ shared' = Restyled(s, shared)
  /\ work' = [work EXCEPT ![s] = Restyled(s, shared)]
  /\ pc' = [pc EXCEPT ![s] = "styled"]
  /\ UNCHANGED <<config, hostAt, loop, passed, out>>

Restyle(s) ==
  /\ At(s, "copied")
  /\ work' = [work EXCEPT ![s] = Restyled(s, @)]
  /\ pc' = [pc EXCEPT ![s] = "styled"]
  /\ UNCHANGED <<config, hostAt, shared, loop, passed, out>>

\* JsonFormatter takes every attribute that a bare LogRecord does not have for an
\* extra of the user.
Json(record) ==
  [level |-> record.levelname, name |-> record.name, message |-> GetMessage(record),
   exception |-> IF exc THEN "stdlib" ELSE "none",
   extras |-> IF record.asctime THEN {"asctime"} ELSE {}]

Text(record) ==
  [level |-> record.levelname, name |-> record.name, message |-> record.message,
   exception |-> IF exc THEN ExcText(record, "stdlib") ELSE "none",
   extras |-> {}]

\* The end of format().  A rotating sink then copies the record for its thread.
Render(s) ==
  /\ At(s, "styled")
  /\ LET record == Stamped(work[s], TRUE)
     IN  IF formatter[s] = "json"
         THEN out' = [out EXCEPT ![s] = {Json(work[s])}] /\ UNCHANGED work
         ELSE /\ out' = [out EXCEPT ![s] = {Text(record)}]
              /\ work' = [work EXCEPT ![s] = [record EXCEPT !.exc_text = ExcText(record, "stdlib")]]
  /\ passed' = IF s \in Rotating THEN [passed EXCEPT ![s] = shared] ELSE passed
  /\ pc' = [pc EXCEPT ![s] = IF s \in Rotating THEN "rollover" ELSE "done"]
  /\ loop' = None
  /\ UNCHANGED <<config, hostAt, shared>>

\* Mutant: the write thread gets the record itself (_needs_record_copy = False).
Rollover_Shares(s) ==
  /\ At(s, "rollover")
  /\ LET record == Stamped(shared, FALSE)
     IN  shared' = [record EXCEPT !.exc_text = ExcText(record, "stdlib")]
  /\ pc' = [pc EXCEPT ![s] = "done"]
  /\ UNCHANGED <<config, hostAt, loop, work, passed, out>>

\* On the write thread, shouldRollover formats the record with the stdlib's formatter
\* to measure it.
Rollover(s) ==
  /\ At(s, "rollover")
  /\ LET record == Stamped(passed[s], FALSE)
     IN  passed' = [passed EXCEPT ![s] = [record EXCEPT !.exc_text = ExcText(record, "stdlib")]]
  /\ pc' = [pc EXCEPT ![s] = "done"]
  /\ UNCHANGED <<config, hostAt, shared, loop, work, out>>

\* Mutant: record.message, which only a formatter sets, instead of record.getMessage().
BuildEntry_ReadsMessage(s) ==
  /\ At(s, "queued") /\ loop = None
  /\ out' = [out EXCEPT ![s] =
       {[level |-> "abbreviated", name |-> shared.name, message |-> shared.message,
         exception |-> "none", extras |-> {}]}]
  /\ pc' = [pc EXCEPT ![s] = "done"]
  /\ UNCHANGED <<config, hostAt, shared, loop, work, passed>>

\* The broker worker builds its dictionary from the record, the level from levelno.
BuildEntry(s) ==
  /\ At(s, "queued") /\ loop = None
  /\ out' = [out EXCEPT ![s] =
       {[level |-> "abbreviated", name |-> shared.name, message |-> GetMessage(shared),
         exception |-> "none", extras |-> {}]}]
  /\ pc' = [pc EXCEPT ![s] = "done"]
  /\ UNCHANGED <<config, hostAt, shared, loop, work, passed>>

-----------------------------------------------------------------------------
HostHandler == HostStamps \/ HostFormatsException

\* The record has been written everywhere.
Finished ==
  /\ hostAt = "done" /\ \A s \in Sinks : At(s, "done")
  /\ UNCHANGED vars

Next ==
  \/ HostHandler
  \/ \E s \in Styled : Copy(s) \/ Restyle(s) \/ Render(s)
  \/ \E s \in Rotating : Rollover(s)
  \/ \E s \in Brokers : BuildEntry(s)
  \/ Finished

Spec == Init /\ [][Next]_vars

-----------------------------------------------------------------------------
(* Properties. *)

LevelOf(s) == IF s \in Brokers THEN "abbreviated"
              ELSE CASE formatter[s] \in {"color", "mono"} -> "painted"
                     [] formatter[s] = "plain" -> "abbreviated"
                     [] formatter[s] = "json"  -> "logged"

PaintedIn(s, styles) ==
  IF s \in Styled /\ formatter[s] \in styles THEN "painted" ELSE "logged"

\* What a sink writes depends on the record as it was logged and on the sink's own
\* formatter alone: no style of one sink (such as ANSI sequences) shows up at another,
\* in whatever order the loop, the write threads and the logging thread format.  Only
\* the text of an exception may be one that the host's other handler has cached.
RenderedAsLogged ==
  \A s \in Sinks : \A written \in out[s] :
    /\ written.level = LevelOf(s)
    /\ written.name = PaintedIn(s, {"color"})
    /\ written.message = PaintedIn(s, {"color", "mono"})
    /\ written.exception \in
         (IF s \in Brokers \/ ~exc THEN {"none"}
          ELSE IF formatter[s] = "json" THEN {"stdlib"}
          ELSE IF hostAt = "done" THEN {"stdlib", hostExc} ELSE {"stdlib"})

\* Nothing in the package writes into the record that the host and the other sinks
\* hold: on no thread and in no step between the logging call and the last write.
SharedUntouched == [][shared' # shared => HostHandler]_vars

\* json.py: only extras that the user has added are flattened into the line.
JsonOnlyUserExtras == \A s \in Sinks : \A written \in out[s] : written.extras = {}

=============================================================================

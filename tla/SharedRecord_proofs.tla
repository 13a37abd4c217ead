-------------------------- MODULE SharedRecord_proofs --------------------------
(***************************************************************************)
(* Theorems about SharedRecord for any number of sinks of each kind.       *)
(*                                                                         *)
(* RecordInv is the inductive invariant.  RenderedAsLogged speaks of what  *)
(* has been written; that it stays true depends on what is still being     *)
(* formatted: the record that all share is as it was logged, save for what *)
(* the host's other handler has cached in it (SharedFits), and the copy a  *)
(* formatter is working on has that formatter's style or none (WorkFits).  *)
(***************************************************************************)
EXTENDS SharedRecord, TLAPS

\* The texts of its exception that a record, or a copy of it, can have cached by now.
Cached == {"unset"} \cup (IF exc /\ hostAt = "done" THEN {hostExc} ELSE {})

SharedFits ==
  /\ shared.levelname = "logged" /\ shared.name = "logged" /\ shared.msg = "logged"
  /\ shared.exc_text \in Cached

\* A copy as logged, and one in the style of its sink.
Bare(record) ==
  record.levelname = "logged" /\ record.name = "logged" /\ record.msg = "logged"

InStyle(s, record) ==
  /\ record.levelname = LevelOf(s)
  /\ record.name = PaintedIn(s, {"color"})
  /\ record.msg = PaintedIn(s, {"color", "mono"})

CopyFits(s) ==
  /\ At(s, "copied") => Bare(work[s]) /\ work[s].exc_text \in Cached
  /\ At(s, "styled") => InStyle(s, work[s]) /\ work[s].exc_text \in Cached

WorkFits == \A s \in Styled : CopyFits(s)

RecordInv == TypeOK /\ SharedFits /\ WorkFits /\ RenderedAsLogged

-----------------------------------------------------------------------------
Styles == {"color", "mono", "plain", "json"}

\* The formatter that a handler is left with is one of the four.
LEMMA FormattersTypes == Formatters \subseteq Styles
BY DEF Formatters, Given, ConsoleFormatter, ScietexFormatter, Styles

\* What a formatter writes into a record, stamping and caching, keeps it a record.
LEMMA StampedTypes ==
  ASSUME NEW record \in Record, NEW time \in BOOLEAN
  PROVE  /\ Stamped(record, time) \in Record
         /\ Stamped(record, time).levelname = record.levelname
         /\ Stamped(record, time).name = record.name
         /\ Stamped(record, time).msg = record.msg
         /\ Stamped(record, time).message = record.msg
         /\ Stamped(record, time).exc_text = record.exc_text
BY DEF Stamped, GetMessage, Record

\* Caching the text of the exception.
LEMMA CachingTypes ==
  ASSUME NEW record \in Record, NEW own \in {"stdlib", "host's"}
  PROVE  /\ ExcText(record, own) \in {"unset", "stdlib", "host's"}
         /\ [record EXCEPT !.exc_text = ExcText(record, own)] \in Record
         /\ [record EXCEPT !.exc_text = ExcText(record, own)].levelname = record.levelname
         /\ [record EXCEPT !.exc_text = ExcText(record, own)].name = record.name
         /\ [record EXCEPT !.exc_text = ExcText(record, own)].msg = record.msg
         /\ [record EXCEPT !.exc_text = ExcText(record, own)].exc_text = ExcText(record, own)
BY DEF ExcText, Record

\* A bare copy takes the style of its sink.
LEMMA RestyledFits ==
  ASSUME TypeOK, NEW s \in Styled, NEW record \in Record, Bare(record)
  PROVE  /\ Restyled(s, record) \in Record /\ InStyle(s, Restyled(s, record))
         /\ Restyled(s, record).exc_text = record.exc_text
<1>1. s \notin Brokers
  BY SinksAssumption DEF Styled
<1>2. formatter[s] \in Styles
  BY DEF TypeOK, Styles
<1>3. CASE formatter[s] = "color"
  BY <1>1, <1>3 DEF Restyled, Record, Bare, InStyle, LevelOf, PaintedIn
<1>4. CASE formatter[s] = "mono"
  BY <1>1, <1>4 DEF Restyled, Record, Bare, InStyle, LevelOf, PaintedIn
<1>5. CASE formatter[s] = "plain"
  BY <1>1, <1>5 DEF Restyled, Record, Bare, InStyle, LevelOf, PaintedIn
<1>6. CASE formatter[s] = "json"
  BY <1>1, <1>6 DEF Restyled, Record, Bare, InStyle, LevelOf, PaintedIn
<1>7. QED
  BY <1>2, <1>3, <1>4, <1>5, <1>6 DEF Styles

\* RenderedAsLogged for one thing written by one sink.
Fits(s, written) ==
  /\ written.level = LevelOf(s)
  /\ written.name = PaintedIn(s, {"color"})
  /\ written.message = PaintedIn(s, {"color", "mono"})
  /\ written.exception \in
       (IF s \in Brokers \/ ~exc THEN {"none"}
        ELSE IF formatter[s] = "json" THEN {"stdlib"}
        ELSE IF hostAt = "done" THEN {"stdlib", hostExc} ELSE {"stdlib"})

\* A text sink writes its own style, and the standard text of the exception or a cached one.
LEMMA TextFits ==
  ASSUME TypeOK, NEW s \in Styled, formatter[s] # "json", NEW record \in Record,
         InStyle(s, record), record.exc_text \in Cached
  PROVE  /\ Text(Stamped(record, TRUE)) \in Rendering
         /\ Fits(s, Text(Stamped(record, TRUE)))
<1> DEFINE stamped == Stamped(record, TRUE)
<1>1. /\ stamped \in Record /\ stamped.levelname = record.levelname /\ stamped.name = record.name
      /\ stamped.message = record.msg /\ stamped.exc_text = record.exc_text
  BY StampedTypes
<1>2. /\ Text(stamped).level = LevelOf(s)
      /\ Text(stamped).name = PaintedIn(s, {"color"})
      /\ Text(stamped).message = PaintedIn(s, {"color", "mono"})
      /\ Text(stamped).exception = IF exc THEN ExcText(stamped, "stdlib") ELSE "none"
  BY <1>1 DEF Text, InStyle
<1>3. exc => ExcText(stamped, "stdlib") \in {"stdlib"} \cup (IF hostAt = "done" THEN {hostExc} ELSE {})
  BY <1>1 DEF ExcText, Cached
<1>4. s \notin Brokers
  BY SinksAssumption DEF Styled
<1>5. Fits(s, Text(stamped))
  BY <1>2, <1>3, <1>4 DEF Fits
<1>6. Text(stamped) \in Rendering
  <2>1. ExcText(stamped, "stdlib") \in {"stdlib", "host's"} \/ ~exc
    BY <1>3 DEF TypeOK
  <2>2. /\ stamped.levelname \in {"logged", "abbreviated", "painted"}
        /\ stamped.name \in {"logged", "painted"} /\ stamped.message \in {"logged", "painted"}
    BY <1>1 DEF Record
  <2>3. QED
    BY <2>1, <2>2 DEF Text, Rendering
<1>7. QED
  BY <1>5, <1>6

\* A JSON sink writes the fields as they were logged.
LEMMA JsonFits ==
  ASSUME TypeOK, NEW s \in Styled, formatter[s] = "json", NEW record \in Record,
         InStyle(s, record)
  PROVE  Json(record) \in Rendering /\ Fits(s, Json(record))
<1>1. s \notin Brokers
  BY SinksAssumption DEF Styled
<1>2. Fits(s, Json(record))
  BY <1>1 DEF Fits, Json, GetMessage, InStyle
<1>3. Json(record) \in Rendering
  BY DEF Json, GetMessage, Rendering, Record
<1>4. QED
  BY <1>2, <1>3

\* A broker's entry is built of the shared record.
LEMMA EntryFits ==
  ASSUME SharedFits, NEW s \in Brokers,
         NEW entry, entry = [level |-> "abbreviated", name |-> shared.name,
                             message |-> GetMessage(shared), exception |-> "none", extras |-> {}]
  PROVE  entry \in Rendering /\ Fits(s, entry)
<1>1. s \notin Styled
  BY SinksAssumption DEF Styled
<1>2. QED
  BY <1>1 DEF SharedFits, GetMessage, Rendering, Fits, LevelOf, PaintedIn

\* What has been written stays right, and what is cached stays so.
LEMMA WrittenStays ==
  ASSUME UNCHANGED config, hostAt' = hostAt \/ hostAt # "done"
  PROVE  /\ Cached \subseteq Cached'
         /\ \A s, written : Fits(s, written) => Fits(s, written)'
         /\ \A s : /\ LevelOf(s)' = LevelOf(s)
                  /\ PaintedIn(s, {"color"})' = PaintedIn(s, {"color"})
                  /\ PaintedIn(s, {"color", "mono"})' = PaintedIn(s, {"color", "mono"})
<1>1. Cached \subseteq Cached'
  BY DEF Cached, config, host
<1>2. ASSUME NEW s, NEW written, Fits(s, written) PROVE Fits(s, written)'
  BY <1>2 DEF Fits, LevelOf, PaintedIn, config, host
<1>3. ASSUME NEW s
      PROVE  /\ LevelOf(s)' = LevelOf(s)
             /\ PaintedIn(s, {"color"})' = PaintedIn(s, {"color"})
             /\ PaintedIn(s, {"color", "mono"})' = PaintedIn(s, {"color", "mono"})
  BY DEF LevelOf, PaintedIn, config
<1>4. QED
  BY <1>1, <1>2, <1>3

Labels == {"queued", "copied", "styled", "rollover", "done"}

\* A sink's step keeps the invariant if what the sink itself holds and writes is right.
LEMMA SinkStep ==
  ASSUME RecordInv, UNCHANGED <<config, hostAt, shared>>,
         NEW s \in Sinks, NEW label \in Labels, pc' = [pc EXCEPT ![s] = label],
         loop' \in Styled \cup {None}, passed' \in [Rotating -> Record],
         work' \in [Styled -> Record], \A t \in Styled \ {s} : work'[t] = work[t],
         s \in Styled /\ label = "copied" => Bare(work'[s]) /\ work'[s].exc_text \in Cached,
         s \in Styled /\ label = "styled" => InStyle(s, work'[s]) /\ work'[s].exc_text \in Cached,
         out' \in [Sinks -> SUBSET Rendering], \A t \in Sinks \ {s} : out'[t] = out[t],
         \A written \in out'[s] : Fits(s, written)
  PROVE  RecordInv'
<1>1. TypeOK /\ SharedFits /\ WorkFits /\ \A t \in Sinks : \A written \in out[t] : Fits(t, written)
  BY DEF RecordInv, RenderedAsLogged, Fits
<1>2. /\ Cached \subseteq Cached'
      /\ \A t, written : Fits(t, written) => Fits(t, written)'
      /\ \A t : /\ LevelOf(t)' = LevelOf(t)
               /\ PaintedIn(t, {"color"})' = PaintedIn(t, {"color"})
               /\ PaintedIn(t, {"color", "mono"})' = PaintedIn(t, {"color", "mono"})
  BY WrittenStays
<1>3. pc \in [Sinks -> Labels] /\ pc' \in [Sinks -> Labels] /\ Styled \subseteq Sinks
  BY <1>1 DEF TypeOK, Labels, Sinks
<1>4. TypeOK'
  BY <1>1, <1>3 DEF TypeOK, Labels, config, host
<1>5. SharedFits'
  BY <1>1, <1>2 DEF SharedFits
<1>6. WorkFits'
  <2> SUFFICES ASSUME NEW t \in Styled PROVE CopyFits(t)'
    BY DEF WorkFits
  <2>1. CASE t = s
    BY <1>2, <1>3, <2>1 DEF CopyFits, At, Bare, InStyle
  <2>2. CASE t # s
    <3>1. pc'[t] = pc[t] /\ work'[t] = work[t] /\ CopyFits(t)
      BY <1>1, <1>3, <2>2 DEF WorkFits
    <3>2. QED
      BY <1>2, <3>1 DEF CopyFits, At, Bare, InStyle
  <2>3. QED
    BY <2>1, <2>2
<1>7. RenderedAsLogged'
  <2> SUFFICES ASSUME NEW t \in Sinks, NEW written \in out'[t] PROVE Fits(t, written)'
    BY DEF RenderedAsLogged, Fits
  <2>1. Fits(t, written)
    BY <1>1
  <2>2. QED
    BY <1>2, <2>1
<1>8. QED
  BY <1>4, <1>5, <1>6, <1>7 DEF RecordInv

\* The host's other handler writes nothing into the record that a sink reads, but for the
\* text of the exception.
LEMMA HostStep ==
  ASSUME RecordInv, HostHandler
  PROVE  RecordInv'
<1>1. TypeOK /\ SharedFits /\ WorkFits /\ \A t \in Sinks : \A written \in out[t] : Fits(t, written)
  BY DEF RecordInv, RenderedAsLogged, Fits
<1>2. /\ UNCHANGED <<config, loop, pc, work, passed, out>> /\ hostAt # "done"
      /\ hostAt' \in {"message", "done"}
  BY DEF HostHandler, HostStamps, HostFormatsException
<1>3. /\ Cached \subseteq Cached'
      /\ \A t, written : Fits(t, written) => Fits(t, written)'
      /\ \A t : /\ LevelOf(t)' = LevelOf(t)
               /\ PaintedIn(t, {"color"})' = PaintedIn(t, {"color"})
               /\ PaintedIn(t, {"color", "mono"})' = PaintedIn(t, {"color", "mono"})
  BY <1>2, WrittenStays
<1>4. shared' \in Record /\ SharedFits'
  <2>1. shared \in Record /\ hostTime \in BOOLEAN /\ hostExc \in {"stdlib", "host's"}
    BY <1>1 DEF TypeOK
  <2>2. CASE HostStamps
    <3>1. shared' = Stamped(shared, hostTime)
      BY <2>2 DEF HostStamps
    <3>2. /\ shared' \in Record /\ shared'.levelname = shared.levelname
          /\ shared'.name = shared.name /\ shared'.msg = shared.msg
          /\ shared'.exc_text = shared.exc_text
      BY <2>1, <3>1, StampedTypes
    <3>3. QED
      BY <1>1, <1>3, <3>2 DEF SharedFits
  <2>3. CASE HostFormatsException
    <3>1. /\ shared' = [shared EXCEPT !.exc_text = ExcText(shared, hostExc)]
          /\ hostAt' = "done"
      BY <2>3 DEF HostFormatsException
    <3>2. /\ shared' \in Record /\ shared'.levelname = shared.levelname
          /\ shared'.name = shared.name /\ shared'.msg = shared.msg
          /\ shared'.exc_text = ExcText(shared, hostExc)
      BY <2>1, <3>1, CachingTypes
    <3>3. ExcText(shared, hostExc) \in Cached'
      BY <1>1, <1>2, <3>1 DEF SharedFits, ExcText, Cached, config, host
    <3>4. QED
      BY <1>1, <3>2, <3>3 DEF SharedFits
  <2>4. QED
    BY <2>2, <2>3 DEF HostHandler
<1>5. TypeOK'
  BY <1>1, <1>2, <1>4 DEF TypeOK, config, host
<1>6. WorkFits'
  <2> SUFFICES ASSUME NEW t \in Styled PROVE CopyFits(t)'
    BY DEF WorkFits
  <2>1. CopyFits(t) /\ pc' = pc /\ work' = work
    BY <1>1, <1>2 DEF WorkFits
  <2>2. QED
    BY <1>3, <2>1 DEF CopyFits, At, Bare, InStyle
<1>7. RenderedAsLogged'
  <2> SUFFICES ASSUME NEW t \in Sinks, NEW written \in out'[t] PROVE Fits(t, written)'
    BY DEF RenderedAsLogged, Fits
  <2>1. Fits(t, written)
    BY <1>1, <1>2
  <2>2. QED
    BY <1>3, <2>1
<1>8. QED
  BY <1>4, <1>5, <1>6, <1>7 DEF RecordInv

\* The steps of a text sink, whichever its formatter.
LEMMA StyledStep ==
  ASSUME RecordInv, NEW s \in Styled, Copy(s) \/ Restyle(s) \/ Render(s)
  PROVE  RecordInv'
<1>1. TypeOK /\ SharedFits /\ WorkFits /\ s \in Sinks
  BY DEF RecordInv, Sinks
<1>2. /\ work \in [Styled -> Record] /\ out \in [Sinks -> SUBSET Rendering]
      /\ passed \in [Rotating -> Record] /\ shared \in Record /\ loop \in Styled \cup {None}
      /\ formatter[s] \in Styles
  BY <1>1 DEF TypeOK, Styles
<1>3. \A written \in out[s] : Fits(s, written)
  BY <1>1 DEF RecordInv, RenderedAsLogged, Fits
<1>4. UNCHANGED <<config, hostAt, shared>>
  BY DEF Copy, Restyle, Render
<1>5. CASE Copy(s)
  <2>1. /\ loop' = s /\ work' = [work EXCEPT ![s] = shared] /\ pc' = [pc EXCEPT ![s] = "copied"]
        /\ UNCHANGED <<passed, out>>
    BY <1>5 DEF Copy
  <2>2. /\ work' \in [Styled -> Record] /\ work'[s] = shared
        /\ \A t \in Styled \ {s} : work'[t] = work[t]
    BY <1>2, <2>1
  <2>3. Bare(work'[s]) /\ work'[s].exc_text \in Cached
    BY <1>1, <2>2 DEF SharedFits, Bare
  <2>4. "copied" \in Labels
    BY DEF Labels
  <2>5. QED
    BY <1>1, <1>2, <1>3, <1>4, <2>1, <2>2, <2>3, <2>4, SinkStep
<1>6. CASE Restyle(s)
  <2>1. /\ At(s, "copied") /\ work' = [work EXCEPT ![s] = Restyled(s, work[s])]
        /\ pc' = [pc EXCEPT ![s] = "styled"] /\ UNCHANGED <<loop, passed, out>>
    BY <1>6 DEF Restyle
  <2>2. work[s] \in Record /\ Bare(work[s]) /\ work[s].exc_text \in Cached
    BY <1>1, <1>2, <2>1 DEF WorkFits, CopyFits
  <2>3. /\ Restyled(s, work[s]) \in Record /\ InStyle(s, Restyled(s, work[s]))
        /\ Restyled(s, work[s]).exc_text = work[s].exc_text
    BY <1>1, <2>2, RestyledFits
  <2>4. /\ work' \in [Styled -> Record] /\ work'[s] = Restyled(s, work[s])
        /\ \A t \in Styled \ {s} : work'[t] = work[t]
    BY <1>2, <2>1, <2>3
  <2>5. InStyle(s, work'[s]) /\ work'[s].exc_text \in Cached
    BY <2>2, <2>3, <2>4
  <2>6. "styled" \in Labels
    BY DEF Labels
  <2>7. QED
    BY <1>1, <1>2, <1>3, <1>4, <2>1, <2>4, <2>5, <2>6, SinkStep
<1>7. CASE Render(s)
  <2>1. At(s, "styled") /\ loop' = None
    BY <1>7 DEF Render
  <2>2. work[s] \in Record /\ InStyle(s, work[s]) /\ work[s].exc_text \in Cached
    BY <1>1, <1>2, <2>1 DEF WorkFits, CopyFits
  <2>3. PICK label \in {"rollover", "done"} : pc' = [pc EXCEPT ![s] = label]
    BY <1>7 DEF Render
  <2>4. passed' \in [Rotating -> Record]
    BY <1>2, <1>7 DEF Render
  <2>5. PICK written \in Rendering : Fits(s, written) /\ out' = [out EXCEPT ![s] = {written}]
    <3>1. CASE formatter[s] = "json"
      BY <1>1, <1>7, <2>2, <3>1, JsonFits DEF Render
    <3>2. CASE formatter[s] # "json"
      BY <1>1, <1>7, <2>2, <3>2, TextFits DEF Render
    <3>3. QED
      BY <3>1, <3>2
  <2>6. PICK record \in Record : work' = [work EXCEPT ![s] = record]
    <3>1. CASE formatter[s] = "json"
      <4>1. work' = [work EXCEPT ![s] = work[s]]
        BY <1>2, <1>7, <3>1 DEF Render
      <4>2. QED
        BY <2>2, <4>1
    <3>2. CASE formatter[s] # "json"
      <4> DEFINE stamped == Stamped(work[s], TRUE)
                 cached == [stamped EXCEPT !.exc_text = ExcText(stamped, "stdlib")]
      <4>1. work' = [work EXCEPT ![s] = cached]
        BY <1>7, <3>2 DEF Render
      <4>2. stamped \in Record
        BY <2>2, StampedTypes
      <4> HIDE DEF stamped
      <4>3. cached \in Record
        BY <4>2, CachingTypes
      <4>4. QED
        BY <4>1, <4>3
    <3>3. QED
      BY <3>1, <3>2
  <2>7. /\ work' \in [Styled -> Record] /\ \A t \in Styled \ {s} : work'[t] = work[t]
        /\ out' \in [Sinks -> SUBSET Rendering] /\ \A t \in Sinks \ {s} : out'[t] = out[t]
        /\ out'[s] = {written}
    BY <1>1, <1>2, <2>5, <2>6
  <2>8. label \in Labels /\ label # "copied" /\ label # "styled"
    BY DEF Labels
  <2>9. \A w \in out'[s] : Fits(s, w)
    BY <2>5, <2>7
  <2>10. loop' \in Styled \cup {None}
    BY <2>1
  <2>11. QED
    BY <1>1, <1>4, <2>3, <2>4, <2>7, <2>8, <2>9, <2>10, SinkStep
<1>8. QED
  BY <1>5, <1>6, <1>7

\* The write thread of a rotating sink measures its own copy.
LEMMA RolloverStep ==
  ASSUME RecordInv, NEW s \in Rotating, Rollover(s)
  PROVE  RecordInv'
<1>1. TypeOK /\ s \in Sinks /\ s \in Styled /\ \A written \in out[s] : Fits(s, written)
  BY DEF RecordInv, RenderedAsLogged, Fits, Sinks, Styled
<1> DEFINE stamped == Stamped(passed[s], FALSE)
           cached == [stamped EXCEPT !.exc_text = ExcText(stamped, "stdlib")]
<1>2. /\ passed' = [passed EXCEPT ![s] = cached]
      /\ pc' = [pc EXCEPT ![s] = "done"]
      /\ UNCHANGED <<config, hostAt, shared, loop, work, out>>
  BY DEF Rollover
<1>3. stamped \in Record
  BY <1>1, StampedTypes DEF TypeOK
<1> HIDE DEF stamped
<1>4. cached \in Record
  BY <1>3, CachingTypes
<1>5. /\ passed' \in [Rotating -> Record] /\ work' \in [Styled -> Record] /\ work' = work
      /\ out' \in [Sinks -> SUBSET Rendering] /\ out' = out /\ loop' \in Styled \cup {None}
  BY <1>1, <1>2, <1>4 DEF TypeOK
<1>6. "done" \in Labels /\ "done" # "copied" /\ "done" # "styled"
  BY DEF Labels
<1>7. QED
  BY <1>1, <1>2, <1>5, <1>6, SinkStep

\* A broker's entry takes nothing but what was logged.
LEMMA BrokerStep ==
  ASSUME RecordInv, NEW s \in Brokers, BuildEntry(s)
  PROVE  RecordInv'
<1>1. TypeOK /\ SharedFits /\ s \in Sinks /\ s \notin Styled
  BY SinksAssumption DEF RecordInv, Sinks, Styled
<1> DEFINE entry == [level |-> "abbreviated", name |-> shared.name,
                     message |-> GetMessage(shared), exception |-> "none", extras |-> {}]
<1>2. /\ out' = [out EXCEPT ![s] = {entry}]
      /\ pc' = [pc EXCEPT ![s] = "done"]
      /\ UNCHANGED <<config, hostAt, shared, loop, work, passed>>
  BY DEF BuildEntry
<1>3. entry \in Rendering /\ Fits(s, entry)
  BY <1>1, EntryFits
<1> HIDE DEF entry
<1>4. /\ passed' \in [Rotating -> Record] /\ work' \in [Styled -> Record] /\ work' = work
      /\ out' \in [Sinks -> SUBSET Rendering] /\ out'[s] = {entry}
      /\ \A t \in Sinks \ {s} : out'[t] = out[t]
  BY <1>1, <1>2, <1>3 DEF TypeOK
<1>5. "done" \in Labels
  BY DEF Labels
<1>6. loop' \in Styled \cup {None}
  BY <1>1, <1>2 DEF TypeOK
<1>7. QED
  BY <1>1, <1>2, <1>3, <1>4, <1>5, <1>6, SinkStep

-----------------------------------------------------------------------------
\* A record that has just been logged.
LEMMA InitRecordInv == Init => RecordInv
<1> SUFFICES ASSUME Init PROVE RecordInv
  OBVIOUS
<1>1. Logged \in Record
  BY DEF Logged, Record
<1>2. TypeOK
  BY <1>1, FormattersTypes DEF Init, TypeOK, Styles
<1>3. SharedFits
  BY DEF Init, Logged, SharedFits, Cached
<1>4. WorkFits
  <2> SUFFICES ASSUME NEW s \in Styled PROVE CopyFits(s)
    BY DEF WorkFits
  <2>1. pc[s] = "queued"
    BY DEF Init, Sinks
  <2>2. QED
    BY <2>1 DEF CopyFits, At
<1>5. RenderedAsLogged
  BY DEF Init, RenderedAsLogged
<1>6. QED
  BY <1>2, <1>3, <1>4, <1>5 DEF RecordInv

\* Every step, on whichever thread, keeps the invariant.
LEMMA StepRecordInv == RecordInv /\ [Next]_vars => RecordInv'
<1> SUFFICES ASSUME RecordInv, [Next]_vars PROVE RecordInv'
  OBVIOUS
<1>1. CASE HostHandler
  BY <1>1, HostStep
<1>2. CASE \E s \in Styled : Copy(s) \/ Restyle(s) \/ Render(s)
  BY <1>2, StyledStep
<1>3. CASE \E s \in Rotating : Rollover(s)
  BY <1>3, RolloverStep
<1>4. CASE \E s \in Brokers : BuildEntry(s)
  BY <1>4, BrokerStep
<1>5. CASE Finished \/ UNCHANGED vars
  <2>1. UNCHANGED <<exc, formatter, hostTime, hostExc, hostAt, shared, loop, pc, work, passed, out>>
    BY <1>5 DEF Finished, vars, config, host
  <2>2. TypeOK'
    BY <2>1 DEF RecordInv, TypeOK
  <2>3. SharedFits' /\ WorkFits'
    BY <2>1 DEF RecordInv, SharedFits, WorkFits, CopyFits, Cached, At, Bare, InStyle, LevelOf,
                PaintedIn
  <2>4. RenderedAsLogged'
    BY <2>1 DEF RecordInv, RenderedAsLogged, LevelOf, PaintedIn
  <2>5. QED
    BY <2>2, <2>3, <2>4 DEF RecordInv
<1>6. QED
  BY <1>1, <1>2, <1>3, <1>4, <1>5 DEF Next

\* RecordInv holds in every reachable state.
THEOREM RecordInductive == Spec => []RecordInv
BY InitRecordInv, StepRecordInv, PTL DEF Spec

\* The record, its copies and what is written keep their types: no sink writes a message
\* that no formatter has set.
THEOREM RecordTypes == Spec => []TypeOK
<1>1. RecordInv => TypeOK
  BY DEF RecordInv
<1>2. QED
  BY <1>1, RecordInductive, PTL

\* What a sink writes is the record as it was logged in the style of that sink alone,
\* however many sinks share the record and in whatever order they format it.
THEOREM StylesStayApart == Spec => []RenderedAsLogged
<1>1. RecordInv => RenderedAsLogged
  BY DEF RecordInv
<1>2. QED
  BY <1>1, RecordInductive, PTL

\* No step of the package writes into the record that was logged.
THEOREM RecordNeverWritten == Spec => SharedUntouched
<1>1. [Next]_vars => [shared' # shared => HostHandler]_vars
  BY DEF Next, Copy, Restyle, Render, Rollover, BuildEntry, Finished, vars
<1>2. QED
  BY <1>1, PTL DEF Spec, SharedUntouched

=============================================================================

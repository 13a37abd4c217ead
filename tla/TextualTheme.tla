----------------------------- MODULE TextualTheme -----------------------------
(***************************************************************************)
(* from_textual_theme (theme_textual.py, on the color math of _color.py):  *)
(* a host fills in a Textual theme and its variables, converts it, and     *)
(* formats records with the palette.                                       *)
(*                                                                         *)
(* A color is one channel, 0 to 255, with an opacity in percent; blending  *)
(* and the choice of a contrast text treat the channels alike.  A token is *)
(* abstracted to what parsing it comes to, and an ansi_* token to what the *)
(* caller's ansi_palette has for it.                                       *)
(***************************************************************************)
EXTENDS Integers

CONSTANTS
  Values,     \* the channel values that tokens may have
  Opacities,  \* their opacities
  Shifted,    \* values that the Lab round trip lowers by one
  MaxTokens   \* bound: tokens that the host sets beside those it starts with

\* Any notation can do without an opacity.
ASSUME ValuesAssumption == /\ Values \subseteq 0..255
                           /\ Opacities \subseteq 0..100 /\ 100 \in Opacities
                           /\ Shifted \subseteq 1..255
                           /\ MaxTokens \in Nat

VARIABLES
  dark,      \* theme.dark
  isAnsi,    \* theme.ansi
  given,     \* an ansi_palette is passed
  attrs,     \* the theme's color attributes that are set
  variables, \* theme.variables
  tokens,    \* tokens set so far
  result,    \* of the conversion: "none" yet, "palette" or "ValueError"
  palette,   \* the slots of the LoggingTheme
  formatted  \* the last record formatted: its level, and whether that raised

flags == <<dark, isAnsi, given>>
vars  == <<flags, attrs, variables, tokens, result, palette, formatted>>

Base  == {"primary", "secondary", "warning", "error", "success", "accent",
          "background", "foreground"}
Muted == "text-muted"
Slots == {"background", "foreground", "debug", "info", "warning", "error", "critical",
          "critical_bg", "logger_name"}
Levels == {"DEBUG", "INFO", "WARNING", "ERROR", "CRITICAL", "other"}

\* "color": a notation that Color.parse takes; "junk": one that nothing takes.  "ansi":
\* an ansi_* token, with what ansi_palette has for it in `entry'.  "auto": only for
\* text-muted, with its percentage.
Colors == [kind : {"color"}, value : Values, opacity : Opacities]
Junk   == [kind : {"junk"}]
Ansi   == [kind : {"ansi"}, entry : Colors \cup Junk \cup [kind : {"missing"}]]
Automatic == [kind : {"auto"}, opacity : Opacities] \cup [kind : {"auto junk"}]
Absent == [kind |-> "absent"]

BaseTokens  == Colors \cup Junk \cup Ansi
MutedTokens == BaseTokens \cup Automatic

-----------------------------------------------------------------------------
(* _color.py *)

Opaque(v) == [kind |-> "color", value |-> v, opacity |-> 100]

\* lighten(0): the round trip through CIE-Lab.
Canonical(color) == IF color.value \in Shifted THEN [color EXCEPT !.value = @ - 1] ELSE color

Inverse(color) == [color EXCEPT !.value = 255 - @]

\* blend(destination, factor), with the factor in percent and an opaque result.
Blend(color, destination, factor) ==
  IF factor = 0 THEN color
  ELSE IF factor = 100 THEN destination
  ELSE Opaque((100 * color.value + (destination.value - color.value) * factor) \div 100)

\* Mutant: a white that is one too white.
ContrastText_256(color, opacity) ==
  [kind |-> "color", value |-> IF 2 * color.value < 255 THEN 256 ELSE 0, opacity |-> opacity]

\* White on colors whose brightness is below one half, else black.
ContrastText(color, opacity) ==
  [kind |-> "color", value |-> IF 2 * color.value < 255 THEN 255 ELSE 0, opacity |-> opacity]

-----------------------------------------------------------------------------
(* theme_textual.py.  A failure is a result like any other: ValueError. *)

ValueError == [kind |-> "ValueError"]
Failed(color) == color = ValueError

ResolveAnsi(token) ==
  IF ~given \/ token.entry.kind = "missing" THEN ValueError ELSE token.entry

ParseSlot(token) == IF token.kind = "color" THEN token ELSE ValueError

Parsed(token) ==
  ParseSlot(IF token.kind = "ansi" THEN ResolveAnsi(token) ELSE token)

\* A color in effect: the variable, then the attribute, then the fallback.
Resolve(key, fallback) ==
  LET raw == CASE variables[key] # Absent -> variables[key]
               [] variables[key] = Absent /\ attrs[key] # Absent -> attrs[key]
               [] OTHER -> fallback
      color == IF raw = Absent THEN ValueError ELSE Parsed(raw)
  IN  IF color.kind = "color" THEN Canonical(color) ELSE color

\* hex6 of a color, which the next one falls back on: opaque, or the failure.
Hex6(color) == IF color.kind = "color" THEN Opaque(color.value) ELSE color

Primary    == Resolve("primary", Absent)
Secondary  == Resolve("secondary", Hex6(Primary))
Warning    == Resolve("warning", Hex6(Primary))
Error      == Resolve("error", Hex6(Secondary))
Success    == Resolve("success", Hex6(Secondary))
Accent     == Resolve("accent", Hex6(Primary))
Background == Resolve("background", Opaque(IF dark THEN 18 ELSE 239))
Foreground == Resolve("foreground", IF Background.kind = "color" THEN Hex6(Inverse(Background))
                                                                ELSE Background)

\* An opaque form of a color, blended from the color towards the background.
Flatten(color, background) ==
  Hex6(IF color.opacity = 100 THEN color ELSE Blend(color, background, color.opacity))

\* $text-muted, by default a contrast text at 60%.  An entry of the ansi_palette is
\* returned as it is.
MutedToken == IF variables[Muted] = Absent THEN [kind |-> "auto", opacity |-> 60]
                                           ELSE variables[Muted]

MutedColor ==
  IF MutedToken.kind = "auto" THEN ContrastText(Background, MutedToken.opacity)
                              ELSE ParseSlot(MutedToken)

TextMuted ==
  IF MutedToken.kind = "ansi" THEN ResolveAnsi(MutedToken)
  ELSE IF Failed(Background) \/ Failed(MutedColor) THEN ValueError
  ELSE Flatten(MutedColor, Background)

\* What darken may make of a color: CIE-Lab's lightness goes down, and no channel up.
Darker(color) == {Opaque(v) : v \in {w \in Values : w <= color.value}}

\* Mutant: the text is chosen for the error color, before that is darkened.
CriticalText_OnError(bg) == ContrastText(Error, 100)

CriticalText(bg) == ContrastText(bg, 100)

\* Mutant: the accent goes into the palette without being parsed.
Rejected_NotAccent == \/ isAnsi /\ ~given
                      \/ \E c \in {Primary, Secondary, Warning, Error, Success, Background,
                                   Foreground} : Failed(c)
                      \/ Failed(TextMuted)

Rejected == \/ isAnsi /\ ~given
            \/ \E c \in {Primary, Secondary, Warning, Error, Success, Accent, Background,
                         Foreground} : Failed(c)
            \/ Failed(TextMuted)

-----------------------------------------------------------------------------
TypeOK ==
  /\ dark \in BOOLEAN /\ isAnsi \in BOOLEAN /\ given \in BOOLEAN
  /\ attrs \in [Base -> BaseTokens \cup {Absent}]
  /\ variables \in [Base \cup {Muted} -> MutedTokens \cup {Absent}]
  /\ tokens \in 0..MaxTokens
  /\ result \in {"none", "palette", "ValueError"}
  /\ DOMAIN palette = IF result = "palette" THEN Slots ELSE {}
  /\ \A s \in DOMAIN palette : palette[s].kind = "color" => palette[s].value \in 0..255
  /\ formatted \in [level : Levels \cup {"none"}, raised : BOOLEAN]

Init ==
  /\ dark \in BOOLEAN /\ isAnsi \in BOOLEAN /\ given \in BOOLEAN
  /\ \E primary \in {Absent} \cup {Opaque(v) : v \in Values} :
       attrs = [k \in Base |-> IF k = "primary" THEN primary ELSE Absent]
  /\ variables = [k \in Base \cup {Muted} |-> Absent]
  /\ tokens = 0
  /\ result = "none" /\ palette = <<>>
  /\ formatted = [level |-> "none", raised |-> FALSE]

\* The host sets an attribute of the theme, or one of its variables.
SetAttribute(key, token) ==
  /\ result = "none" /\ tokens < MaxTokens
  /\ tokens' = tokens + 1
  /\ attrs' = [attrs EXCEPT ![key] = token]
  /\ UNCHANGED <<flags, variables, result, palette, formatted>>

SetVariable(key, token) ==
  /\ result = "none" /\ tokens < MaxTokens
  /\ tokens' = tokens + 1
  /\ variables' = [variables EXCEPT ![key] = token]
  /\ UNCHANGED <<flags, attrs, result, palette, formatted>>

Convert ==
  /\ result = "none" /\ ~Rejected
  /\ result' = "palette"
  /\ \E bg \in {Hex6(Error)} \cup IF dark THEN Darker(Error) ELSE {} :
       palette' = [background  |-> Hex6(Background), foreground |-> Hex6(Foreground),
                   debug       |-> TextMuted,        info       |-> Hex6(Success),
                   warning     |-> Hex6(Warning),    error      |-> Hex6(Error),
                   critical    |-> CriticalText(bg), critical_bg |-> bg,
                   logger_name |-> Hex6(Accent)]
  /\ UNCHANGED <<flags, attrs, variables, tokens, formatted>>

Reject ==
  /\ result = "none" /\ Rejected
  /\ result' = "ValueError"
  /\ UNCHANGED <<flags, attrs, variables, tokens, palette, formatted>>

-----------------------------------------------------------------------------
(* theme.py and formatter/scietex.py *)

\* The slots that format() paints a record of this level with.
Painted(level) ==
  {"foreground", "logger_name"} \cup
  CASE level = "DEBUG"    -> {"debug"}
    [] level = "INFO"     -> {"info"}
    [] level = "WARNING"  -> {"warning"}
    [] level = "ERROR"    -> {"error"}
    [] level = "CRITICAL" -> {"critical", "critical_bg"}
    [] OTHER              -> {}

\* _parse_hex takes six hexadecimal digits and nothing else.
Emittable(color) == color.kind = "color" /\ color.opacity = 100

Format(level) ==
  /\ result = "palette"
  /\ formatted' = [level  |-> level,
                   raised |-> \E s \in Painted(level) : ~Emittable(palette[s])]
  /\ UNCHANGED <<flags, attrs, variables, tokens, result, palette>>

Rejection == result = "ValueError" /\ UNCHANGED vars

Next ==
  \/ \E k \in Base, t \in BaseTokens : SetAttribute(k, t) \/ SetVariable(k, t)
  \/ \E t \in MutedTokens : SetVariable(Muted, t)
  \/ Convert \/ Reject
  \/ \E level \in Levels : Format(level)
  \/ Rejection

Spec == Init /\ [][Next]_vars

-----------------------------------------------------------------------------
(* Properties. *)

\* A theme that from_textual_theme accepts never makes the formatter raise, and so
\* never costs a worker a record: whatever cannot be parsed is rejected on conversion.
\* The exception is text-muted with an ansi_* token, whose entry nobody parses until
\* the first DEBUG record is formatted.
FormatsUnlessAnsiMuted ==
  formatted.raised => formatted.level = "DEBUG" /\ variables[Muted].kind = "ansi"

\* CRITICAL stays legible: its text is chosen against the background that it is
\* painted on, at least half the range away, in dark and in light themes.
CriticalReadable ==
  result = "palette" =>
    LET text == palette.critical.value
        bg   == palette.critical_bg.value
    IN  text - bg >= 128 \/ bg - text >= 128

=============================================================================

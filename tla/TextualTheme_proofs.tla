-------------------------- MODULE TextualTheme_proofs --------------------------
(***************************************************************************)
(* Theorems about TextualTheme for any channel values and opacities and    *)
(* any number of tokens.                                                   *)
(*                                                                         *)
(* ThemeInv is the inductive invariant: a palette has been built of colors *)
(* that parsed (Sound), and the token that escapes the parsing was there   *)
(* when it was built and still is (the tokens change only before that).    *)
(***************************************************************************)
EXTENDS TextualTheme, TLAPS

\* What a slot that has been parsed holds.
InRange == [kind : {"color"}, value : 0..255, opacity : {100}]

Sound ==
  result = "palette" =>
    /\ DOMAIN palette = Slots
    /\ \A s \in Slots \ {"debug"} : palette[s] \in InRange
    /\ \/ palette.debug \in InRange
       \/ /\ variables[Muted].kind = "ansi"
          /\ palette.debug.kind = "color" => palette.debug.value \in 0..255
    /\ palette.critical = ContrastText(palette.critical_bg, 100)

\* Nothing is formatted before there is a palette.
Unformatted == result # "palette" => palette = <<>> /\ ~formatted.raised

ThemeInv == TypeOK /\ Sound /\ Unformatted /\ FormatsUnlessAnsiMuted

-----------------------------------------------------------------------------
(* The color math. *)

ColorLike == [kind : {"color"}, value : 0..255, opacity : 0..100]

\* A color, or the failure to get one.
Checked == ColorLike \cup {ValueError}

\* Colors and failures are told apart by their kind.
LEMMA Kinds ==
  ASSUME NEW c \in Checked
  PROVE  /\ c.kind = "color" <=> c \in ColorLike
         /\ ~Failed(c) => c \in ColorLike /\ c.kind = "color"
BY DEF Checked, ColorLike, ValueError, Failed

\* An opaque color of a value within the range.
LEMMA OpaqueInRange ==
  ASSUME NEW v \in 0..255
  PROVE  Opaque(v) \in InRange /\ Opaque(v) \in ColorLike /\ Opaque(v).value = v
BY DEF Opaque, InRange, ColorLike

\* What the tokens may hold is within the range.
LEMMA TokenBounds == Values \subseteq 0..255 /\ Opacities \subseteq 0..100
BY ValuesAssumption, Zenon

\* The tokens' colors are colors.
LEMMA TokenColors == Colors \subseteq ColorLike
<1>1. ASSUME NEW c \in Colors PROVE c \in ColorLike
  <2>1. PICK v \in Values, o \in Opacities : c = [kind |-> "color", value |-> v, opacity |-> o]
    BY DEF Colors
  <2>2. v \in 0..255 /\ o \in 0..100
    BY TokenBounds
  <2>3. QED
    BY <2>1, <2>2 DEF ColorLike
<1>2. QED
  BY <1>1

\* hex6 makes a color opaque and passes a failure on.
LEMMA Hex6InRange ==
  ASSUME NEW c \in Checked
  PROVE  Hex6(c) \in Checked /\ (~Failed(c) => Hex6(c) \in InRange /\ Hex6(c).value = c.value)
<1>1. CASE c \in ColorLike
  <2>1. c.kind = "color" /\ c.value \in 0..255
    BY <1>1 DEF ColorLike
  <2>2. Hex6(c) = Opaque(c.value)
    BY <2>1 DEF Hex6
  <2>3. QED
    BY <2>1, <2>2, OpaqueInRange DEF Checked
<1>2. CASE c = ValueError
  BY <1>2 DEF Hex6, Checked, ValueError, Failed
<1>3. QED
  BY <1>1, <1>2 DEF Checked

\* The rounding of the Lab round trip does not leave the range.
LEMMA CanonicalInRange ==
  ASSUME NEW c \in ColorLike
  PROVE  Canonical(c) \in ColorLike
<1>1. CASE c.value \in Shifted
  <2>1. c.value - 1 \in 0..255
    BY <1>1, ValuesAssumption DEF ColorLike
  <2>2. QED
    BY <1>1, <2>1 DEF Canonical, ColorLike
<1>2. CASE c.value \notin Shifted
  BY <1>2 DEF Canonical
<1>3. QED
  BY <1>1, <1>2

\* A mixture of v and d, with f percent of d, lies within the range of both.
LEMMA MixtureInRange ==
  ASSUME NEW v \in 0..255, NEW d \in 0..255, NEW f \in 0..100
  PROVE  (100 * v + (d - v) * f) \div 100 \in 0..255
<1> DEFINE sum == 100 * v + (d - v) * f
<1>1. sum = v * (100 - f) + d * f
  OBVIOUS
<1>2. v * (100 - f) \in Int /\ 0 <= v * (100 - f) /\ v * (100 - f) <= 255 * (100 - f)
  OBVIOUS
<1>3. d * f \in Int /\ 0 <= d * f /\ d * f <= 255 * f
  OBVIOUS
<1>4. sum \in Int /\ 0 <= sum /\ sum <= 25500
  BY <1>1, <1>2, <1>3
<1> HIDE DEF sum
<1>5. sum \div 100 \in 0..255
  BY <1>4
<1>6. QED
  BY <1>5 DEF sum

\* Blending and flattening stay within the range, and flattening is opaque.
LEMMA FlattenInRange ==
  ASSUME NEW c \in ColorLike, NEW b \in ColorLike
  PROVE  Flatten(c, b) \in InRange
<1>1. c.opacity \in 0..100 /\ c.value \in 0..255 /\ b.value \in 0..255
  BY DEF ColorLike
<1>2. Blend(c, b, c.opacity) \in ColorLike
  <2>1. CASE c.opacity \in {0, 100}
    BY <2>1 DEF Blend
  <2>2. CASE c.opacity \notin {0, 100}
    <3> DEFINE v == (100 * c.value + (b.value - c.value) * c.opacity) \div 100
    <3>1. Blend(c, b, c.opacity) = Opaque(v)
      BY <2>2, Zenon DEF Blend
    <3>2. v \in 0..255
      BY <1>1, MixtureInRange, Zenon
    <3> HIDE DEF v
    <3>3. QED
      BY <3>1, <3>2, OpaqueInRange
  <2>3. QED
    BY <2>1, <2>2
<1>3. ~Failed(c) /\ ~Failed(Blend(c, b, c.opacity))
  BY <1>2 DEF Failed, ValueError, ColorLike
<1>4. c \in Checked /\ Blend(c, b, c.opacity) \in Checked
  BY <1>2 DEF Checked
<1>5. QED
  BY <1>3, <1>4, Hex6InRange DEF Flatten

\* The text chosen for a background is at least half the range away from it.
LEMMA ContrastIsFar ==
  ASSUME NEW b, b.value \in 0..255, NEW opacity \in 0..100
  PROVE  /\ ContrastText(b, opacity) \in ColorLike
         /\ opacity = 100 => ContrastText(b, opacity) \in InRange
         /\ \/ ContrastText(b, opacity).value - b.value >= 128
            \/ b.value - ContrastText(b, opacity).value >= 128
<1>1. CASE 2 * b.value < 255
  <2>1. b.value <= 127
    BY <1>1
  <2>2. ContrastText(b, opacity) = [kind |-> "color", value |-> 255, opacity |-> opacity]
    BY <1>1 DEF ContrastText
  <2>3. 255 - b.value >= 128
    BY <2>1
  <2>4. QED
    BY <2>2, <2>3 DEF ColorLike, InRange
<1>2. CASE ~(2 * b.value < 255)
  <2>1. b.value >= 128
    BY <1>2
  <2>2. ContrastText(b, opacity) = [kind |-> "color", value |-> 0, opacity |-> opacity]
    BY <1>2 DEF ContrastText
  <2>3. b.value - 0 >= 128
    BY <2>1
  <2>4. QED
    BY <2>2, <2>3 DEF ColorLike, InRange
<1>3. QED
  BY <1>1, <1>2

-----------------------------------------------------------------------------
(* The conversion. *)

\* Parsing comes to a color, or fails: an unknown notation never gets through.
LEMMA ParseChecks ==
  ASSUME NEW token
  PROVE  (token.kind = "color" => token \in ColorLike) => ParseSlot(token) \in Checked
BY DEF ParseSlot, Checked

\* The kind of a token tells what it is.
LEMMA TokenKinds ==
  ASSUME NEW token \in MutedTokens
  PROVE  /\ token.kind = "color" => token \in ColorLike
         /\ token.kind = "ansi" => token \in Ansi
         /\ token.kind = "auto" => token.opacity \in 0..100
<1>1. CASE token \in Colors
  BY <1>1, TokenColors DEF Colors
<1>2. CASE token \in Junk
  BY <1>2 DEF Junk
<1>3. CASE token \in Ansi
  <2>1. token.kind = "ansi"
    BY <1>3 DEF Ansi
  <2>2. QED
    BY <1>3, <2>1
<1>4. CASE token \in [kind : {"auto"}, opacity : Opacities]
  <2>1. token.kind = "auto" /\ token.opacity \in Opacities
    BY <1>4
  <2>2. ASSUME NEW o \in Opacities PROVE o \in 0..100
    BY TokenBounds
  <2>3. token.opacity \in 0..100
    BY <2>1, <2>2
  <2>4. QED
    BY <2>1, <2>3
<1>5. CASE token \in [kind : {"auto junk"}]
  BY <1>5
<1>6. QED
  BY <1>1, <1>2, <1>3, <1>4, <1>5 DEF MutedTokens, BaseTokens, Automatic

\* A token that the host can set, once an ansi_* token has been looked up.
LEMMA ParsedChecks ==
  ASSUME NEW token \in MutedTokens \cup {ValueError} \cup ColorLike
  PROVE  Parsed(token) \in Checked
<1>1. CASE token.kind = "ansi"
  <2>1. ValueError.kind # "ansi" /\ \A c \in ColorLike : c.kind # "ansi"
    BY DEF ValueError, ColorLike
  <2>2. token \in Ansi
    BY <1>1, <2>1, TokenKinds
  <2>3. /\ token.entry.kind = "color" => token.entry \in ColorLike
        /\ ValueError.kind # "color"
    BY <2>2, TokenColors DEF Ansi, Junk, ValueError
  <2>4. ResolveAnsi(token).kind = "color" => ResolveAnsi(token) \in ColorLike
    BY <2>3 DEF ResolveAnsi
  <2>5. QED
    BY <1>1, <2>4, ParseChecks DEF Parsed
<1>2. CASE token.kind # "ansi"
  <2>1. token.kind = "color" => token \in ColorLike
    BY TokenKinds DEF ValueError
  <2>2. QED
    BY <1>2, <2>1, ParseChecks DEF Parsed
<1>3. QED
  BY <1>1, <1>2

\* The variable, the attribute or the fallback: a color, or the failure.
LEMMA ResolveChecks ==
  ASSUME TypeOK, NEW key \in Base, NEW fallback \in Checked \cup {Absent}
  PROVE  Resolve(key, fallback) \in Checked
<1> DEFINE raw == CASE variables[key] # Absent -> variables[key]
                    [] variables[key] = Absent /\ attrs[key] # Absent -> attrs[key]
                    [] OTHER -> fallback
           color == IF raw = Absent THEN ValueError ELSE Parsed(raw)
<1>1. /\ variables[key] \in MutedTokens \cup {Absent}
      /\ attrs[key] \in BaseTokens \cup {Absent}
  BY DEF TypeOK
<1>2. raw \in MutedTokens \cup Checked \cup {Absent}
  <2>1. CASE variables[key] # Absent
    BY <1>1, <2>1
  <2>2. CASE variables[key] = Absent /\ attrs[key] # Absent
    BY <1>1, <2>2 DEF MutedTokens
  <2>3. CASE variables[key] = Absent /\ attrs[key] = Absent
    BY <2>3
  <2>4. QED
    BY <2>1, <2>2, <2>3
<1> HIDE DEF raw
<1>3. color \in Checked
  BY <1>2, ParsedChecks DEF Checked
<1> HIDE DEF color
<1>4. (IF color.kind = "color" THEN Canonical(color) ELSE color) \in Checked
  BY <1>3, Kinds, CanonicalInRange DEF Checked
<1>5. QED
  BY <1>4 DEF Resolve, raw, color

\* The eight colors of the theme.
LEMMA ThemeChecks ==
  ASSUME TypeOK
  PROVE  /\ Primary \in Checked /\ Secondary \in Checked /\ Warning \in Checked
         /\ Error \in Checked /\ Success \in Checked /\ Accent \in Checked
         /\ Background \in Checked /\ Foreground \in Checked
<1>1. Primary \in Checked
  BY ResolveChecks DEF Primary, Base
<1>2. Hex6(Primary) \in Checked
  BY <1>1, Hex6InRange
<1>3. Secondary \in Checked /\ Warning \in Checked /\ Accent \in Checked
  BY <1>2, ResolveChecks DEF Secondary, Warning, Accent, Base
<1>4. Hex6(Secondary) \in Checked
  BY <1>3, Hex6InRange
<1>5. Error \in Checked /\ Success \in Checked
  BY <1>4, ResolveChecks DEF Error, Success, Base
<1>6. Background \in Checked
  <2>1. Opaque(IF dark THEN 18 ELSE 239) \in Checked
    BY OpaqueInRange DEF Checked
  <2>2. QED
    BY <2>1, ResolveChecks DEF Background, Base
<1>7. Foreground \in Checked
  <2>1. CASE Background.kind = "color"
    <3>1. Background \in ColorLike
      BY <1>6, <2>1, Kinds
    <3>2. Inverse(Background) \in Checked
      BY <3>1 DEF Inverse, ColorLike, Checked
    <3>3. Hex6(Inverse(Background)) \in Checked
      BY <3>2, Hex6InRange
    <3>4. QED
      BY <2>1, <3>3, ResolveChecks DEF Foreground, Base
  <2>2. CASE Background.kind # "color"
    BY <1>6, <2>2, ResolveChecks DEF Foreground, Base
  <2>3. QED
    BY <2>1, <2>2
<1>8. QED
  BY <1>1, <1>3, <1>5, <1>6, <1>7

\* $text-muted: an opaque color, unless an ansi_* token has been set for it.
LEMMA MutedChecks ==
  ASSUME TypeOK, ~Failed(TextMuted)
  PROVE  \/ TextMuted \in InRange
         \/ /\ variables[Muted].kind = "ansi"
            /\ TextMuted.kind = "color" => TextMuted.value \in 0..255
<1>1. variables[Muted] \in MutedTokens \cup {Absent}
  BY DEF TypeOK
<1>2. CASE MutedToken.kind = "ansi"
  <2>1. variables[Muted] # Absent /\ MutedToken = variables[Muted]
    BY <1>2 DEF MutedToken
  <2>2. MutedToken \in Ansi
    BY <1>1, <1>2, <2>1, TokenKinds
  <2>3. MutedToken.entry.kind = "color" => MutedToken.entry \in ColorLike
    BY <2>2, TokenColors DEF Ansi, Junk
  <2>4. TextMuted = ResolveAnsi(MutedToken)
    BY <1>2 DEF TextMuted
  <2>5. TextMuted.kind = "color" => TextMuted \in ColorLike
    BY <2>3, <2>4 DEF ResolveAnsi, ValueError
  <2>6. QED
    BY <1>2, <2>1, <2>5 DEF ColorLike
<1>3. CASE MutedToken.kind # "ansi"
  <2>1. ~Failed(Background) /\ ~Failed(MutedColor) /\ TextMuted = Flatten(MutedColor, Background)
    BY <1>3 DEF TextMuted, Failed
  <2>2. Background \in ColorLike
    BY <2>1, ThemeChecks, Kinds
  <2>3. MutedColor \in Checked
    <3>1. CASE MutedToken.kind = "auto"
      <4>1. MutedToken.opacity \in 0..100
        <5>1. CASE variables[Muted] = Absent
          BY <5>1 DEF MutedToken
        <5>2. CASE variables[Muted] # Absent
          <6>1. MutedToken = variables[Muted] /\ MutedToken \in MutedTokens
            BY <1>1, <5>2 DEF MutedToken
          <6>2. QED
            BY <3>1, <6>1, TokenKinds
        <5>3. QED
          BY <5>1, <5>2
      <4>2. ContrastText(Background, MutedToken.opacity) \in ColorLike
        <5>1. Background.value \in 0..255
          BY <2>2 DEF ColorLike
        <5>2. QED
          BY <4>1, <5>1, ContrastIsFar
      <4>3. QED
        BY <3>1, <4>2 DEF MutedColor, Checked
    <3>2. CASE MutedToken.kind # "auto"
      <4>1. MutedToken \in MutedTokens
        BY <1>1, <3>2 DEF MutedToken
      <4>2. MutedToken.kind = "color" => MutedToken \in ColorLike
        BY <4>1, TokenKinds
      <4>3. QED
        BY <3>2, <4>2, ParseChecks DEF MutedColor
    <3>3. QED
      BY <3>1, <3>2
  <2>4. MutedColor \in ColorLike
    BY <2>1, <2>3, Kinds
  <2>5. QED
    BY <2>1, <2>2, <2>4, FlattenInRange
<1>4. QED
  BY <1>2, <1>3

-----------------------------------------------------------------------------
(* The steps. *)

\* A theme that has not been converted yet.
LEMMA InitThemeInv == Init => ThemeInv
<1> SUFFICES ASSUME Init PROVE ThemeInv
  OBVIOUS
<1>1. attrs \in [Base -> BaseTokens \cup {Absent}]
  <2>1. PICK primary \in {Absent} \cup {Opaque(v) : v \in Values} :
          attrs = [k \in Base |-> IF k = "primary" THEN primary ELSE Absent]
    BY DEF Init
  <2>2. \A v \in Values : Opaque(v) \in Colors
    BY ValuesAssumption DEF Opaque, Colors
  <2>3. primary \in BaseTokens \cup {Absent}
    BY <2>2 DEF BaseTokens
  <2>4. QED
    BY <2>1, <2>3
<1>2. /\ result = "none" /\ palette = << >> /\ formatted = [level |-> "none", raised |-> FALSE]
      /\ variables = [k \in Base \cup {Muted} |-> Absent] /\ tokens = 0
      /\ dark \in BOOLEAN /\ isAnsi \in BOOLEAN /\ given \in BOOLEAN
  BY DEF Init
<1>3. TypeOK
  <2>1. DOMAIN palette = {}
    BY <1>2
  <2>2. tokens \in 0..MaxTokens /\ variables \in [Base \cup {Muted} -> MutedTokens \cup {Absent}]
    BY <1>2, ValuesAssumption
  <2>3. QED
    BY <1>1, <1>2, <2>1, <2>2 DEF TypeOK
<1>4. Sound /\ Unformatted /\ FormatsUnlessAnsiMuted
  BY <1>2 DEF Sound, Unformatted, FormatsUnlessAnsiMuted
<1>5. QED
  BY <1>3, <1>4 DEF ThemeInv

\* The host sets a token, which it can do only before the conversion.
LEMMA SetStep ==
  ASSUME ThemeInv,
         \/ \E k \in Base, t \in BaseTokens : SetAttribute(k, t) \/ SetVariable(k, t)
         \/ \E t \in MutedTokens : SetVariable(Muted, t)
  PROVE  ThemeInv'
<1>1. TypeOK /\ Unformatted
  BY DEF ThemeInv
<1>2. /\ result = "none" /\ tokens < MaxTokens /\ tokens' = tokens + 1
      /\ UNCHANGED <<dark, isAnsi, given, result, palette, formatted>>
  BY DEF SetAttribute, SetVariable, flags
<1>3. /\ attrs' \in [Base -> BaseTokens \cup {Absent}]
      /\ variables' \in [Base \cup {Muted} -> MutedTokens \cup {Absent}]
  BY <1>1 DEF TypeOK, SetAttribute, SetVariable, MutedTokens
<1>4. tokens' \in 0..MaxTokens
  BY <1>1, <1>2, ValuesAssumption DEF TypeOK
<1>5. TypeOK'
  BY <1>1, <1>2, <1>3, <1>4 DEF TypeOK
<1>6. Sound' /\ Unformatted' /\ FormatsUnlessAnsiMuted'
  BY <1>1, <1>2 DEF Sound, Unformatted, FormatsUnlessAnsiMuted
<1>7. QED
  BY <1>5, <1>6 DEF ThemeInv

\* The conversion makes a palette of colors that have parsed.
LEMMA ConvertStep ==
  ASSUME ThemeInv, Convert
  PROVE  ThemeInv'
<1>1. TypeOK /\ Unformatted /\ result = "none" /\ result' = "palette"
      /\ UNCHANGED <<dark, isAnsi, given, attrs, variables, tokens, formatted>>
  BY DEF ThemeInv, Convert, flags
<1>2. /\ ~Failed(Warning) /\ ~Failed(Error) /\ ~Failed(Success) /\ ~Failed(Accent)
      /\ ~Failed(Background) /\ ~Failed(Foreground) /\ ~Failed(TextMuted)
  BY DEF Convert, Rejected
<1>3. /\ Hex6(Background) \in InRange /\ Hex6(Foreground) \in InRange
      /\ Hex6(Success) \in InRange /\ Hex6(Warning) \in InRange /\ Hex6(Error) \in InRange
      /\ Hex6(Accent) \in InRange
  BY <1>1, <1>2, ThemeChecks, Hex6InRange
<1>4. PICK bg \in {Hex6(Error)} \cup Darker(Error) :
        palette' = [background  |-> Hex6(Background), foreground |-> Hex6(Foreground),
                    debug       |-> TextMuted,        info       |-> Hex6(Success),
                    warning     |-> Hex6(Warning),    error      |-> Hex6(Error),
                    critical    |-> CriticalText(bg), critical_bg |-> bg,
                    logger_name |-> Hex6(Accent)]
  BY DEF Convert
<1>5. bg \in InRange
  <2>1. Darker(Error) \subseteq InRange
    <3>1. ASSUME NEW v \in Values PROVE Opaque(v) \in InRange
      <4>1. v \in 0..255
        BY TokenBounds
      <4>2. QED
        BY <4>1, OpaqueInRange
    <3>2. QED
      BY <3>1 DEF Darker
  <2>2. QED
    BY <1>3, <2>1
<1>6. CriticalText(bg) \in InRange /\ CriticalText(bg) = ContrastText(bg, 100)
  BY <1>5, ContrastIsFar DEF CriticalText, InRange
<1>7. \/ TextMuted \in InRange
      \/ /\ variables[Muted].kind = "ansi"
         /\ TextMuted.kind = "color" => TextMuted.value \in 0..255
  BY <1>1, <1>2, MutedChecks
<1>8. /\ DOMAIN palette' = Slots
      /\ palette'.background = Hex6(Background) /\ palette'.foreground = Hex6(Foreground)
      /\ palette'.debug = TextMuted /\ palette'.info = Hex6(Success)
      /\ palette'.warning = Hex6(Warning) /\ palette'.error = Hex6(Error)
      /\ palette'.critical = CriticalText(bg) /\ palette'.critical_bg = bg
      /\ palette'.logger_name = Hex6(Accent)
  BY <1>4 DEF Slots
<1>9. \A s \in Slots \ {"debug"} : palette'[s] \in InRange
  BY <1>3, <1>5, <1>6, <1>8 DEF Slots
<1>10. Sound'
  <2>1. palette'.critical = ContrastText(palette'.critical_bg, 100)
    BY <1>6, <1>8
  <2>2. /\ variables' = variables
        /\ \/ palette'.debug \in InRange
           \/ /\ variables[Muted].kind = "ansi"
              /\ palette'.debug.kind = "color" => palette'.debug.value \in 0..255
    BY <1>1, <1>7, <1>8
  <2>3. QED
    BY <1>8, <1>9, <2>1, <2>2 DEF Sound, ContrastText
<1>11. \A s \in Slots : palette'[s].kind = "color" => palette'[s].value \in 0..255
  <2>1. \A c \in InRange : c.value \in 0..255
    BY DEF InRange
  <2>2. palette'["debug"].kind = "color" => palette'["debug"].value \in 0..255
    BY <1>7, <1>8, <2>1
  <2>3. QED
    BY <1>9, <2>1, <2>2
<1>12. TypeOK'
  BY <1>1, <1>8, <1>11 DEF TypeOK
<1>13. Unformatted' /\ FormatsUnlessAnsiMuted'
  BY <1>1 DEF Unformatted, FormatsUnlessAnsiMuted
<1>14. QED
  BY <1>10, <1>12, <1>13 DEF ThemeInv

\* Formatting raises for no slot but the one that nobody has parsed.
LEMMA FormatStep ==
  ASSUME ThemeInv, NEW level \in Levels, Format(level)
  PROVE  ThemeInv'
<1>1. /\ TypeOK /\ Sound /\ result = "palette"
      /\ formatted' = [level  |-> level,
                       raised |-> \E s \in Painted(level) : ~Emittable(palette[s])]
      /\ UNCHANGED <<dark, isAnsi, given, attrs, variables, tokens, result, palette>>
  BY DEF ThemeInv, Format, flags
<1>2. formatted'.level = level
      /\ (formatted'.raised <=> \E s \in Painted(level) : ~Emittable(palette[s]))
      /\ formatted'.raised \in BOOLEAN
  BY <1>1
<1>3. \A c \in InRange : Emittable(c)
  BY DEF InRange, Emittable
<1>4. Painted(level) \subseteq Slots /\ ("debug" \in Painted(level) => level = "DEBUG")
  BY DEF Painted, Levels, Slots
<1>5. formatted'.raised => level = "DEBUG" /\ variables[Muted].kind = "ansi"
  <2> SUFFICES ASSUME formatted'.raised PROVE level = "DEBUG" /\ variables[Muted].kind = "ansi"
    OBVIOUS
  <2>1. PICK s \in Painted(level) : ~Emittable(palette[s])
    BY <1>2
  <2>2. palette[s] \notin InRange
    BY <1>3, <2>1
  <2>3. s = "debug"
    BY <1>1, <1>4, <2>1, <2>2 DEF Sound
  <2>4. QED
    BY <1>1, <1>4, <2>1, <2>2, <2>3 DEF Sound
<1>6. FormatsUnlessAnsiMuted'
  BY <1>1, <1>2, <1>5 DEF FormatsUnlessAnsiMuted
<1>7. TypeOK'
  BY <1>1 DEF TypeOK
<1>8. Sound' /\ Unformatted'
  BY <1>1 DEF Sound, Unformatted, ContrastText
<1>9. QED
  BY <1>6, <1>7, <1>8 DEF ThemeInv

\* Every step keeps the invariant.
LEMMA StepThemeInv == ThemeInv /\ [Next]_vars => ThemeInv'
<1> SUFFICES ASSUME ThemeInv, [Next]_vars PROVE ThemeInv'
  OBVIOUS
<1>1. CASE \/ \E k \in Base, t \in BaseTokens : SetAttribute(k, t) \/ SetVariable(k, t)
           \/ \E t \in MutedTokens : SetVariable(Muted, t)
  BY <1>1, SetStep
<1>2. CASE Convert
  BY <1>2, ConvertStep
<1>3. CASE \E level \in Levels : Format(level)
  BY <1>3, FormatStep
<1>4. CASE Reject \/ Rejection \/ UNCHANGED vars
  <2>1. /\ UNCHANGED <<dark, isAnsi, given, attrs, variables, tokens, palette, formatted>>
        /\ \/ result' = result
           \/ result = "none" /\ result' = "ValueError"
    BY <1>4 DEF Reject, Rejection, vars, flags
  <2>2. TypeOK'
    BY <2>1 DEF ThemeInv, TypeOK
  <2>3. Sound' /\ Unformatted' /\ FormatsUnlessAnsiMuted'
    BY <2>1 DEF ThemeInv, Sound, Unformatted, FormatsUnlessAnsiMuted, ContrastText
  <2>4. QED
    BY <2>2, <2>3 DEF ThemeInv
<1>5. QED
  BY <1>1, <1>2, <1>3, <1>4 DEF Next

\* ThemeInv holds in every reachable state.
THEOREM ThemeInductive == Spec => []ThemeInv
BY InitThemeInv, StepThemeInv, PTL DEF Spec

\* The palette has all its slots and no channel leaves 0 to 255, whatever is composited.
THEOREM ThemeTypes == Spec => []TypeOK
<1>1. ThemeInv => TypeOK
  BY DEF ThemeInv
<1>2. QED
  BY <1>1, ThemeInductive, PTL

\* A theme that from_textual_theme accepts never makes the formatter raise, but for a
\* DEBUG record under an ansi_* text-muted.
THEOREM AcceptedFormats == Spec => []FormatsUnlessAnsiMuted
<1>1. ThemeInv => FormatsUnlessAnsiMuted
  BY DEF ThemeInv
<1>2. QED
  BY <1>1, ThemeInductive, PTL

\* The text of CRITICAL is at least half the range away from what it is painted on.
THEOREM CriticalLegible == Spec => []CriticalReadable
<1>1. ThemeInv => CriticalReadable
  <2> SUFFICES ASSUME ThemeInv, result = "palette"
               PROVE  \/ palette.critical.value - palette.critical_bg.value >= 128
                      \/ palette.critical_bg.value - palette.critical.value >= 128
    BY DEF CriticalReadable
  <2>1. /\ palette["critical_bg"] \in InRange
        /\ palette.critical = ContrastText(palette.critical_bg, 100)
    BY DEF ThemeInv, Sound, Slots
  <2>2. palette.critical_bg.value \in 0..255
    BY <2>1 DEF InRange
  <2>3. QED
    BY <2>1, <2>2, ContrastIsFar
<1>2. QED
  BY <1>1, ThemeInductive, PTL

=============================================================================

----------------------------- MODULE HandlerSetup -----------------------------
(***************************************************************************)
(* What the constructors make of their arguments: which combinations are   *)
(* refused, who owns the file or the client, and how a sink is styled.     *)
(* The initial states of FileWorker, BrokerWorker and SharedRecord are the *)
(* ones that these constructors leave behind.                              *)
(*                                                                         *)
(* A call is the set of the objects that it can return: empty if it        *)
(* raises.  An argument is reduced to what the code asks of it, which for  *)
(* most is whether it is given.                                            *)
(***************************************************************************)
EXTENDS Integers

Raises == {}

\* A value of another type is refused like zero.
ValidateQueueMaxsize(n) == IF n > 0 THEN {n} ELSE Raises

\* The machinery of every handler, with no backend yet.
AsyncLoggingHandler(n) ==
  [queue_maxsize : ValidateQueueMaxsize(n), log_queues : {{}}]

RegisterBackend(handler, name) ==
  IF name \in handler.log_queues THEN Raises
  ELSE {[handler EXCEPT !.log_queues = @ \cup {name}]}

-----------------------------------------------------------------------------
(* File handlers. *)

\* rotation: the standard library's rotator or watcher accepts what is handed to it.

FileOptions(n) == [filename : BOOLEAN, file : BOOLEAN, rotation : {"accepted", "refused"},
                   queue_maxsize : {0, n}]

\* Neither of the two is let through; such a backend owns a file that it cannot open.
FileBackend(o) ==
  IF o.file /\ o.filename THEN Raises
  ELSE {[filename |-> o.filename, owns |-> ~o.file]}

WithRotator(o) == IF o.rotation = "refused" THEN Raises ELSE FileBackend(o)

RotatingFileBackend(o)      == WithRotator(o)
TimedRotatingFileBackend(o) == WithRotator(o)
WatchedFileBackend(o)       == WithRotator(o)

FileHandler(o, backends) ==
  [backend : backends,
   machinery : UNION {RegisterBackend(h, "_file") : h \in AsyncLoggingHandler(o.queue_maxsize)}]

\* _make_backend of the variants asserts the filename that its signature leaves open.
Named(o, backends) == IF o.filename THEN backends ELSE Raises

AsyncFileHandler(o)              == FileHandler(o, FileBackend(o))
AsyncRotatingFileHandler(o)      == FileHandler(o, Named(o, RotatingFileBackend(o)))
AsyncTimedRotatingFileHandler(o) == FileHandler(o, Named(o, TimedRotatingFileBackend(o)))
AsyncWatchedFileHandler(o)       == FileHandler(o, Named(o, WatchedFileBackend(o)))

FileHandlers(kind, n) ==
  UNION {CASE kind = "plain"    -> AsyncFileHandler(o)
           [] kind = "rotating" -> AsyncRotatingFileHandler(o)
           [] kind = "timed"    -> AsyncTimedRotatingFileHandler(o)
           [] kind = "watched"  -> AsyncWatchedFileHandler(o) : o \in FileOptions(n)}

-----------------------------------------------------------------------------
(* Broker handlers. *)

BrokerOptions(n) == [client : BOOLEAN, config : {"none", "known keys", "unknown key"},
                     queue_maxsize : {0, n}]

\* RedisConfig(**config) and its like: a dataclass takes the keys it knows.
BackendConfig(config) == IF config = "unknown key" THEN Raises ELSE {config}

AsyncBrokerHandler(o, name, config, probes) ==
  IF o.client /\ config # "none" THEN Raises
  ELSE [owns : {~o.client}, client : {o.client}, probes : {probes},
        machinery : UNION {RegisterBackend(h, name) : h \in AsyncLoggingHandler(o.queue_maxsize)}]

\* Without a client the configuration has defaults; with one it is passed on only to
\* be refused.
BrokerHandler(o, name, probes) ==
  UNION {AsyncBrokerHandler(o, name, IF o.client THEN c ELSE "known keys", probes) :
           c \in BackendConfig(o.config)}

\* Whether connect() probes the client it has built.
AsyncRedisHandler(o)  == BrokerHandler(o, "_redis", TRUE)
AsyncValkeyHandler(o) == BrokerHandler(o, "_valkey", FALSE)
AsyncMqttHandler(o)   == BrokerHandler(o, "_mqtt", FALSE)

BrokerHandlers(n) ==
  UNION {AsyncRedisHandler(o) \cup AsyncValkeyHandler(o) \cup AsyncMqttHandler(o) :
           o \in BrokerOptions(n)}

-----------------------------------------------------------------------------
(* The formatter of a text sink: "plain" text, "color", "mono" (in color   *)
(* with a palette that has no color but the foreground), or "json".        *)

Override == {"None", "on", "off"}
Themes   == [colored : BOOLEAN, color : BOOLEAN]

Monochrome == [colored |-> FALSE, color |-> FALSE]

Stdout == [force_color : {FALSE}, no_color : {FALSE}, color : {"None"},
           FORCE_COLOR : BOOLEAN, NO_COLOR : BOOLEAN, isatty : BOOLEAN]

ResolveColor(a) ==
  \/ a.force_color
  \/ /\ ~a.no_color
     /\ \/ a.color = "on"
        \/ a.color = "None" /\ (a.FORCE_COLOR \/ (~a.NO_COLOR /\ a.isatty))

ScietexFormatter(theme, color) ==
  IF ~(color = "on" \/ (color = "None" /\ theme.color)) THEN "plain"
  ELSE IF theme.colored THEN "color" ELSE "mono"

\* theme.color is not asked: an unset color is what stdout says.
ConsoleFormatter(theme, color, stdout) ==
  ScietexFormatter(theme, IF color # "None" THEN color
                          ELSE IF ResolveColor(stdout) THEN "on" ELSE "off")

\* A formatter that is given is used as it is, whatever comes with it; without a theme
\* the default is plain.
Given == {"json"} \cup {ScietexFormatter(t, c) : t \in Themes, c \in Override}

Formatters ==
  Given \cup {ScietexFormatter(Monochrome, "None")}
        \cup {ConsoleFormatter(t, c, s) : t \in Themes, c \in Override, s \in Stdout}

=============================================================================

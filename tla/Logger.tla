-------------------------------- MODULE Logger --------------------------------
(***************************************************************************)
(* muduo::Logger and LogStream: one thread logs lines.  A line is made of  *)
(* items [kind, size]; an item goes into the line's fixed buffer whole or  *)
(* not at all.  The time of a line is cached per second.                   *)
(***************************************************************************)
EXTENDS LogStream

CONSTANTS
  MaxTime,               \* bound: the clock, in ticks
  TicksPerSecond,        \* microseconds of a second
  Texts, Numbers,        \* sizes of the texts and numbers logged
  MaxItems               \* bound: items of a message

Levels == <<"TRACE", "DEBUG", "INFO", "WARN", "ERROR", "FATAL">>

ASSUME LoggerAssumption ==
  TicksPerSecond \in Nat \ {0} /\ \A n \in Numbers : n < kMaxNumericSize

VARIABLES
  g_logLevel,            \* index of Levels
  t_lastSecond, t_time,  \* the second t_time was formatted for, and what it shows
  clock,
  lastLine,              \* the last line output: [items, kept, shown, at]
  aborted                \* a FATAL line was output and flushed

loggerVars == <<g_logLevel, t_lastSecond, t_time, clock, lastLine, aborted>>

(* A bug: the second is remembered and the text is not made anew after it. *)
FormatTime_Stale(now) ==
  LET second == now \div TicksPerSecond
  IN  /\ t_lastSecond' = second
      /\ t_time' = IF t_lastSecond = 0 THEN second ELSE t_time

(* formatTime(): the text t_time is made when the second changes.          *)
FormatTime(now) ==
  LET second == now \div TicksPerSecond
  IN  /\ t_lastSecond' = second
      /\ t_time' = IF second # t_lastSecond THEN second ELSE t_time

(* What Impl() writes: time, microseconds, thread, level; and finish():    *)
(* " - ", the file, ':', the line number, '\n'.  The text of errno and the *)
(* function's name are items of the message.                               *)
Header == [i \in 1 .. 4 |-> [kind |-> "text", size |-> IF i = 1 THEN 2 ELSE 1]]
Finish ==
  [i \in 1 .. 5 |-> [kind |-> IF i = 4 THEN "number" ELSE "text", size |-> 1]]

(* LOG_xxx << message: the macros up to INFO test the level, the others    *)
(* do not; ~Logger() outputs the line, and for FATAL flushes and aborts.   *)
Log(level, message) ==
  /\ ~aborted /\ (Levels[level] \in {"TRACE", "DEBUG", "INFO"} => g_logLevel <= level)
  /\ FormatTime(clock)
  /\ LET items == Header \o message \o Finish
     IN  lastLine' = [items |-> items, kept |-> FoldLeft(Put, <<>>, items), shown |-> t_time',
                      at |-> clock \div TicksPerSecond]
  /\ aborted' = (Levels[level] = "FATAL")
  /\ UNCHANGED <<g_logLevel, clock>>

SetLogLevel(level) ==
  /\ ~aborted /\ g_logLevel' = level
  /\ UNCHANGED <<t_lastSecond, t_time, clock, lastLine, aborted>>

(* gettimeofday(): it may be set back. *)
ClockChanges(now) ==
  /\ ~aborted /\ clock' = now
  /\ UNCHANGED <<g_logLevel, t_lastSecond, t_time, lastLine, aborted>>

NoLine == [items |-> <<>>, kept |-> <<>>, shown |-> 0, at |-> 0]
LoggerInit ==
  /\ g_logLevel \in 1 .. 3 /\ t_lastSecond = 0 /\ t_time = 0 /\ clock = TicksPerSecond
  /\ lastLine = NoLine /\ aborted = FALSE

Items == {[kind |-> "text", size |-> s] : s \in Texts} \cup {[kind |-> "number", size |-> s] : s \in Numbers}
LoggerNext ==
  \/ \E level \in DOMAIN Levels, n \in 0 .. MaxItems : \E m \in [1 .. n -> Items] : Log(level, m)
  \/ \E level \in DOMAIN Levels : SetLogLevel(level)
  \/ \E now \in TicksPerSecond .. MaxTime : ClockChanges(now)

(* Nothing is written past the end of the fixed buffer of a line.          *)
LoggerTypeOK ==
  /\ g_logLevel \in DOMAIN Levels /\ aborted \in BOOLEAN
  /\ Size(lastLine.kept) < kSmallBuffer

(* A line that leaves room for a number at its end is output complete, its *)
(* line number and newline included.                                       *)
ShortLinesComplete ==
  Size(lastLine.items) + kMaxNumericSize <= kSmallBuffer => lastLine.kept = lastLine.items

(* The time a line shows is the second it was logged in, whatever lines    *)
(* were logged before it and although the clock may be set back.           *)
TimeIsNow == lastLine.shown = lastLine.at
=============================================================================

----------------------------- MODULE Conversions -----------------------------
(***************************************************************************)
(* The algorithms of muduo/base beside their references, one at a time:    *)
(* the calendar, time zones, numbers, log lines and small files.           *)
(***************************************************************************)
EXTENDS TimeZone, Logger, FileUtil

CONSTANTS FirstYear, LastYear, MaxNumber

VARIABLE topic

cvars == <<topic, dateVars, zoneVars, number, loggerVars, fileVars>>

Hour == 3600
(* Standard time first, one hour of summer time, and transitions between   *)
(* them, perhaps ending in either.                                         *)
Zone(offset, trans, first) ==
  [trans |-> trans, idx |-> [i \in DOMAIN trans |-> 1 + ((first + i) % 2)],
   types |-> <<[gmtOffset |-> offset, isDst |-> FALSE], [gmtOffset |-> offset + Hour, isDst |-> TRUE]>>]
Zones ==
  {Zone(o, [i \in 1 .. n |-> 1000000 + i * 6 * Hour], 0) : o \in {-8 * Hour, 0, 5 * Hour + 1800}, n \in 0 .. 3}
Instants == {1000000 + i * 1800 : i \in 0 .. 48} \cup {999999 + i * 3 * Hour : i \in 1 .. 8}

(* Days since 1970-01-01 of the first day of each year. *)
YearStart(y) == 365 * (y - 1900) + Cardinality({k \in 1900 .. y - 1 : Leap(k)}) - 25567
ThatDay == FirstDay(1970, 0, 4)
ThatZone == zone = Zone(0, <<>>, 0) /\ instant = 0

ConversionsInit ==
  /\ topic \in {"calendar", "zone", "number", "log", "file"}
  /\ IF topic = "calendar"
     THEN \E y \in FirstYear .. LastYear : FirstDay(y, YearStart(y), (YearStart(y) + 4) % 7) ELSE ThatDay
  /\ IF topic = "zone" THEN zone \in Zones /\ instant \in Instants ELSE ThatZone
  /\ IF topic = "number" THEN number \in -MaxNumber - 1 .. MaxNumber ELSE number = 0
  /\ IF topic = "log" THEN LoggerInit ELSE LoggerInit /\ g_logLevel = 1
  /\ IF topic = "file" THEN FileInit ELSE FileInit /\ fileKind = "missing" /\ maxSize = 0 /\ ~wantsSize

ConversionsNext ==
  /\ UNCHANGED <<topic, zoneVars, number>>
  /\ \/ topic = "calendar" /\ Tomorrow /\ date'.year = date.year /\ UNCHANGED <<loggerVars, fileVars>>
     \/ topic = "log" /\ LoggerNext /\ UNCHANGED <<dateVars, fileVars>>
     \/ topic = "file" /\ FileNext /\ UNCHANGED <<dateVars, loggerVars>>

ConversionsSpec == ConversionsInit /\ [][ConversionsNext]_cvars

(* The calendar of Date and TimeZone is the real one, in UTC and in local  *)
(* time, in both directions.                                               *)
CalendarExact ==
  JulianIsTheCalendar /\ UtcIsTheCalendar /\ LocalIsInEffect /\ LocalRoundTrip

(* A log line shows the second it was logged in and the numbers it was     *)
(* given, and is complete unless it is as long as its buffer.              *)
LogLinesExact == LoggerTypeOK /\ DigitsReadBack /\ ShortLinesComplete /\ TimeIsNow
=============================================================================

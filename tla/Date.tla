--------------------------------- MODULE Date ---------------------------------
(***************************************************************************)
(* muduo::Date: Julian day numbers, and the UTC part of muduo::TimeZone.   *)
(***************************************************************************)
EXTENDS Integers, SequencesExt, FiniteSetsExt

(* Division and remainder of C++, which round towards zero.                *)
Quot(a, b) == IF a >= 0 THEN a \div b ELSE -((-a) \div b)
Rem(a, b) == a - b * Quot(a, b)

GetJulianDayNumber(year, month, day) ==
  LET a == Quot(14 - month, 12)
      y == year + 4800 - a
      m == month + 12 * a - 3
  IN  day + Quot(153 * m + 2, 5) + y * 365 + Quot(y, 4) - Quot(y, 100) + Quot(y, 400) - 32045

GetYearMonthDay(julianDayNumber) ==
  LET a == julianDayNumber + 32044
      b == Quot(4 * a + 3, 146097)
      c == a - Quot(b * 146097, 4)
      d == Quot(4 * c + 3, 1461)
      e == c - Quot(1461 * d, 4)
      m == Quot(5 * e + 2, 153)
  IN  [year |-> b * 100 + d - 4800 + Quot(m, 10), month |-> m + 3 - 12 * Quot(m, 10),
       day |-> e - Quot(153 * m + 2, 5) + 1]

kDaysPerWeek == 7
WeekDay(julianDayNumber) == Rem(julianDayNumber + 1, kDaysPerWeek)
kJulianDayOf1970_01_01 == GetJulianDayNumber(1970, 1, 1)

kSecondsPerDay == 24 * 60 * 60
FillHMS(seconds) == [hour |-> Quot(Quot(seconds, 60), 60), min |-> Rem(Quot(seconds, 60), 60), sec |-> Rem(seconds, 60)]

(* toUtcTime() with yday *)
ToUtcTime(s) ==
  LET before == Rem(s, kSecondsPerDay) < 0
      hms == FillHMS(IF before THEN Rem(s, kSecondsPerDay) + kSecondsPerDay ELSE Rem(s, kSecondsPerDay))
      days == IF before THEN Quot(s, kSecondsPerDay) - 1 ELSE Quot(s, kSecondsPerDay)
      julian == days + kJulianDayOf1970_01_01
      ymd == GetYearMonthDay(julian)
  IN  [year |-> ymd.year - 1900, mon |-> ymd.month - 1, mday |-> ymd.day,
       hour |-> hms.hour, min |-> hms.min, sec |-> hms.sec, wday |-> WeekDay(julian),
       yday |-> julian - GetJulianDayNumber(ymd.year, 1, 1)]

FromUtcTime(tm) ==
  LET days == GetJulianDayNumber(tm.year + 1900, tm.mon + 1, tm.mday) - kJulianDayOf1970_01_01
  IN  days * kSecondsPerDay + tm.hour * 3600 + tm.min * 60 + tm.sec

-----------------------------------------------------------------------------
(* The Gregorian calendar, one day after the other: the reference.         *)
VARIABLES
  date,                  \* [year, month, day]
  dayOfYear, dayOfWeek,
  sinceEpoch             \* days since 1970-01-01

dateVars == <<date, dayOfYear, dayOfWeek, sinceEpoch>>

Leap(y) == y % 4 = 0 /\ (y % 100 = 0 => y % 400 = 0)
MonthDays(y, m) == IF m = 2 THEN IF Leap(y) THEN 29 ELSE 28 ELSE IF m \in {4, 6, 9, 11} THEN 30 ELSE 31

FirstDay(y, since, wday) ==
  date = [year |-> y, month |-> 1, day |-> 1] /\ dayOfYear = 0 /\ dayOfWeek = wday /\ sinceEpoch = since

Tomorrow ==
  /\ date' = IF date.day < MonthDays(date.year, date.month) THEN [date EXCEPT !.day = @ + 1]
             ELSE IF date.month < 12 THEN [date EXCEPT !.day = 1, !.month = @ + 1]
             ELSE [year |-> date.year + 1, month |-> 1, day |-> 1]
  /\ dayOfYear' = IF date'.year = date.year THEN dayOfYear + 1 ELSE 0
  /\ dayOfWeek' = (dayOfWeek + 1) % 7
  /\ sinceEpoch' = sinceEpoch + 1

(* The closed formulas of getJulianDayNumber() and getYearMonthDay() give  *)
(* every day of the calendar its number and back, in the range of years    *)
(* Date.h states, over months of all lengths, leap years and centuries.    *)
JulianIsTheCalendar ==
  LET julian == kJulianDayOf1970_01_01 + sinceEpoch
  IN  /\ GetJulianDayNumber(date.year, date.month, date.day) = julian
      /\ GetYearMonthDay(julian) = date
      /\ WeekDay(julian) = dayOfWeek

(* toUtcTime() finds the day, the day of the week and of the year and the  *)
(* time of day, also before 1970, and fromUtcTime() inverts it.            *)
UtcIsTheCalendar ==
  \A s \in {0, 1, 3599, 3600, kSecondsPerDay - 1} : sinceEpoch \in -24800 .. 24800 =>
    LET t == sinceEpoch * kSecondsPerDay + s
        tm == ToUtcTime(t)
    IN  /\ <<tm.year + 1900, tm.mon + 1, tm.mday>> = <<date.year, date.month, date.day>>
        /\ <<tm.wday, tm.yday, tm.hour * 3600 + tm.min * 60 + tm.sec>> = <<dayOfWeek, dayOfYear, s>>
        /\ FromUtcTime(tm) = t
=============================================================================

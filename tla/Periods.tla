------------------------------- MODULE Periods -------------------------------
(***************************************************************************)
(* The calendar of the reports: which moments a period of the dashboard    *)
(* covers (Period.Range, in UTC), and how a row's time is shown            *)
(* (formatTimeShort, in the server's zone).                                *)
(*                                                                         *)
(* A moment is the number of minutes since 2020-01-01 00:00 UTC, a day the *)
(* number of days since then.  Seconds and milliseconds tell nothing apart *)
(* here.  Date and Weekday are what package time does.                     *)
(***************************************************************************)
EXTENDS Integers

CONSTANT Years  \* bound: the years the calendar knows

\* 2100 is not a leap year.
ASSUME PeriodsAssumption ==
  /\ Years \subseteq 2020..2099
  /\ \A y \in Years : 2020..y \subseteq Years

PeriodNames == {"today", "week", "month", "all"}

-----------------------------------------------------------------------------
(* Package time.                                                           *)

DayOf(t) == t \div 1440
MinuteOf(t) == t % 1440

\* The day a year, a month begins; 2020 is a leap year.
YearStart(y) == 365 * (y - 2020) + (y - 2020 + 3) \div 4
MonthStart(y, m) ==
  YearStart(y) + <<0, 31, 59, 90, 120, 151, 181, 212, 243, 273, 304, 334>>[m]
    + (IF m > 2 /\ y % 4 = 0 THEN 1 ELSE 0)

Date(day) ==
  LET y == CHOOSE z \in Years : YearStart(z) <= day /\ day < YearStart(z + 1)
      m == CHOOSE n \in 1..12 : /\ MonthStart(y, n) <= day
                                /\ n = 12 \/ day < MonthStart(y, n + 1)
  IN  [year |-> y, month |-> m, day |-> day - MonthStart(y, m) + 1]

\* Sunday is 0; 2020-01-01 was a Wednesday.
Weekday(day) == (day + 3) % 7

\* time.Date at 00:00: a day outside the month counts on from it.
Midnight(y, m, d) == 1440 * (MonthStart(y, m) + d - 1)

-----------------------------------------------------------------------------
(* Period.Range.                                                           *)

\* Mutant of DaysIntoWeek: time.Weekday as it is, so that Sunday comes first.
DaysIntoWeekFromSunday(day) == Weekday(day)

\* dow: Monday is 1 and Sunday 7.
DaysIntoWeek(day) == IF Weekday(day) = 0 THEN 7 ELSE Weekday(day)

\* start; a name that is not known is "today" by then (normalizePeriod).
RangeStart(period, now) ==
  LET date == Date(DayOf(now))
  IN  CASE period = "today" -> Midnight(date.year, date.month, date.day)
        [] period = "week" ->
             Midnight(date.year, date.month, date.day - DaysIntoWeek(DayOf(now)) + 1)
        [] period = "month" -> Midnight(date.year, date.month, 1)
        [] period = "all" -> Midnight(2020, 1, 1)

\* end is one minute ahead of the clock.
RangeEnd(now) == now + 1

\* created_at >= start AND created_at < end.
InPeriod(period, now, t) == RangeStart(period, now) <= t /\ t < RangeEnd(now)

-----------------------------------------------------------------------------
(* formatTimeShort.                                                        *)

YearDay(day) == day - YearStart(Date(day).year) + 1

\* Mutant of SameLocalDay: the year is not compared.
SameYearDay(t, now, offset) ==
  YearDay(DayOf(t + offset)) = YearDay(DayOf(now + offset))

\* t.Local() and time.Now() are of one day, offset minutes east of UTC.
SameLocalDay(t, now, offset) ==
  /\ Date(DayOf(t + offset)).year = Date(DayOf(now + offset)).year
  /\ YearDay(DayOf(t + offset)) = YearDay(DayOf(now + offset))

\* A row of today is shown with its time, any other with month and day.
TimeShort(t, now, offset) ==
  LET date == Date(DayOf(t + offset))
      minute == MinuteOf(t + offset)
      hour == minute \div 60
  IN  IF SameLocalDay(t, now, offset)
      THEN [pm |-> hour >= 12, minute |-> minute % 60,
            hour |-> IF hour > 12 THEN hour - 12 ELSE IF hour = 0 THEN 12 ELSE hour]
      ELSE [month |-> date.month, day |-> date.day]

ShowsTime(label) == "pm" \in DOMAIN label
=============================================================================

---------------------------- MODULE TimeIntervals ----------------------------
(***************************************************************************)
(* Named time intervals: the ranges a file may give (the UnmarshalYAML     *)
(* methods of timeinterval), and ContainsTime, which the stages that mute  *)
(* a route by the time ask through Intervener.Mutes.                       *)
(*                                                                         *)
(* A range is a pair <<begin, end>>.  A field of an interval is a sequence *)
(* of ranges with a flag: a field that is not given restricts nothing.  An *)
(* instant is what ContainsTime reads of it, in the interval's location.   *)
(***************************************************************************)
EXTENDS Integers, Sequences

CONSTANTS
  IntervalFiles,    \* lists of intervals as a file gives them
  Instants          \* instants: minute, day, days in the month, weekday, month, year

VARIABLES
  given,            \* the intervals of one name, in order
  tstage            \* "decode", "rejected" or "loaded"

intervalVars == <<given, tstage>>

Absent == [given |-> FALSE, ranges |-> <<>>]

-----------------------------------------------------------------------------
\* Minutes of the day; the end is excluded, and may be 24:00.
timeRangeValid(r) == r[1] \in 0..1440 /\ r[2] \in 0..1440 /\ r[1] < r[2]

weekdayRangeValid(r) == r[1] <= r[2] /\ r[1] \in 0..6 /\ r[2] \in 0..6

\* Days of the month count from its end when they are negative.  The order of
\* the two is only known when both count from the same side; else it is judged
\* by a month of 28 days.
dayOfMonthRangeValid(r) ==
  LET check(d) == IF d < 0 THEN 28 + d ELSE d
  IN  /\ r[1] # 0 /\ r[1] \in -31..31
      /\ r[2] # 0 /\ r[2] \in -31..31
      /\ ~(r[1] < 0 /\ r[2] > 0)
      /\ check(r[1]) <= check(r[2])

monthRangeValid(r) == r[1] <= r[2]

yearRangeValid(r) == r[1] <= r[2]

\* The ranges a field of an interval gives.
Ranges(field) == {field.ranges[i] : i \in DOMAIN field.ranges}

DecodeIntervals ==
  /\ tstage = "decode"
  /\ tstage' = IF \A i \in DOMAIN given :
                    /\ \A r \in Ranges(given[i].times) : timeRangeValid(r)
                    /\ \A r \in Ranges(given[i].weekdays) : weekdayRangeValid(r)
                    /\ \A r \in Ranges(given[i].days) : dayOfMonthRangeValid(r)
                    /\ \A r \in Ranges(given[i].months) : monthRangeValid(r)
                    /\ \A r \in Ranges(given[i].years) : yearRangeValid(r)
                 THEN "loaded" ELSE "rejected"
  /\ UNCHANGED given

-----------------------------------------------------------------------------
clamp(n, min, max) == IF n <= min THEN min ELSE IF n >= max THEN max ELSE n

InTimeRange(t, r) == t.minute >= r[1] /\ t.minute < r[2]

InRange(n, r) == n >= r[1] /\ n <= r[2]

\* Mutant: a range that begins after the end of the month is clamped as well.
InDayRangeClamped(t, r) ==
  LET position(d) == IF d < 0 THEN t.daysInMonth + d + 1 ELSE d
      bound(d) == clamp(position(d), -1 * t.daysInMonth, t.daysInMonth)
  IN  t.day >= bound(r[1]) /\ t.day <= bound(r[2])

\* A range that begins after the end of the month is passed over; the others
\* are clamped to the month.
InDayRange(t, r) ==
  LET position(d) == IF d < 0 THEN t.daysInMonth + d + 1 ELSE d
      bound(d) == clamp(position(d), -1 * t.daysInMonth, t.daysInMonth)
  IN  position(r[1]) <= t.daysInMonth /\ t.day >= bound(r[1]) /\ t.day <= bound(r[2])

ContainsTime(tp, t) ==
  /\ tp.times.given => \E r \in Ranges(tp.times) : InTimeRange(t, r)
  /\ tp.days.given => \E r \in Ranges(tp.days) : InDayRange(t, r)
  /\ tp.months.given => \E r \in Ranges(tp.months) : InRange(t.month, r)
  /\ tp.weekdays.given => \E r \in Ranges(tp.weekdays) : InRange(t.weekday, r)
  /\ tp.years.given => \E r \in Ranges(tp.years) : InRange(t.year, r)

\* Intervener.Mutes for one name: some interval of it contains the instant.
Mutes(t) == \E i \in DOMAIN given : ContainsTime(given[i], t)

IntervalInit == given \in IntervalFiles /\ tstage = "decode"

IntervalNext == DecodeIntervals

-----------------------------------------------------------------------------
IntervalsLoaded == tstage = "loaded"

\* The days a range names, counted one by one in a month of n days.
DaysNamed(r, n) ==
  LET names(d) == {d, d - n - 1}
      first == {d \in 1..n : r[1] \in names(d)}
  IN  {d \in 1..n :
        /\ \E b \in 1..d : b \in first \/ (b = 1 /\ r[1] < -n)
        /\ \E e \in d..n : r[2] \in names(e) \/ (e = n /\ r[2] > n)}

\* An interval mutes on exactly the days its ranges name, in months of every
\* length: counted from either side, a range that reaches past an end of the
\* month is cut there, one that begins after it names no day, and the other
\* ranges of the list count all the same.
DaysAsNamed ==
  IntervalsLoaded => \A t \in Instants :
    LET others(tp) == [tp EXCEPT !.days = Absent]
    IN  Mutes(t) <=>
          \E i \in DOMAIN given :
            /\ ContainsTime(others(given[i]), t)
            /\ given[i].days.given =>
                 \E r \in Ranges(given[i].days) : t.day \in DaysNamed(r, t.daysInMonth)
=============================================================================

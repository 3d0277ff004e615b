------------------------------- MODULE Weeks -------------------------------
(***************************************************************************)
(* Days, weeks and holidays, as ingestion, the pipeline and the dashboards *)
(* count them.  A day is a number; 0 is a Monday (29 December 1969), so    *)
(* that the remainder by 7 is Python's weekday().  There are three kinds   *)
(* of week: an upload counts bookings in buckets from Tuesday to Monday    *)
(* and dates them by the Tuesday, step 1 of the pipeline labels the same   *)
(* buckets by their Monday, and the features of a forecast are those of    *)
(* the seven days that begin with the label.                               *)
(***************************************************************************)
EXTENDS Integers, FiniteSets

\* Proleptic Gregorian calendar; the day numbers of datetime, moved to a Monday.
DayOf(y, m, d) ==
  LET yy  == IF m <= 2 THEN y - 1 ELSE y
      era == yy \div 400
      yoe == yy - era * 400
      doy == (153 * (IF m > 2 THEN m - 3 ELSE m + 9) + 2) \div 5 + d - 1
  IN  era * 146097 + yoe * 365 + yoe \div 4 - yoe \div 100 + doy - 719465

\* The day of a year that begins in March, and the year.
MarchDay(n) ==
  LET z   == n + 719465
      era == z \div 146097
      doe == z - (era * 146097)
      yoe == (doe - doe \div 1460 + doe \div 36524 - doe \div 146096) \div 365
  IN  [year |-> yoe + era * 400,
       day  |-> doe - (365 * yoe + yoe \div 4 - yoe \div 100)]

MonthFromMarch(n) == (5 * MarchDay(n).day + 2) \div 153

DayOfMonth(n) == MarchDay(n).day - (153 * MonthFromMarch(n) + 2) \div 5 + 1

Month(n) == IF MonthFromMarch(n) < 10 THEN MonthFromMarch(n) + 3
                                      ELSE MonthFromMarch(n) - 9

Year(n) == IF Month(n) <= 2 THEN MarchDay(n).year + 1 ELSE MarchDay(n).year

-----------------------------------------------------------------------------
(* Weeks *)

\* to_period("W-MON").start_time: the Tuesday on which the week of n begins.
Bucket(n) == n - ((n - 1) % 7)

\* resample("W-MON"): the Monday on which the week of n ends.
Label(n) == Bucket(n) + 6

Mondays(S) == {n \in S : n % 7 = 0}

\* "Jul W2 2023": the month, here its first day, and the week of the month.
MonthStart(n) == n - (DayOfMonth(n) - 1)

GraphLabel(n) == <<MonthStart(n), (DayOfMonth(n) - 1) \div 7 + 1>>

FirstMonday(first) == first + ((7 - (first % 7)) % 7)

\* Variant: the first Monday is sought from the second day of the month on.
ParseLabelLate(l) == FirstMonday(l[1] + 1) + 7 * (l[2] - 1)

\* The Monday of that week of the month.
ParseLabel(l) == FirstMonday(l[1]) + 7 * (l[2] - 1)

-----------------------------------------------------------------------------
(* Holidays *)

FIXED == {<<1, 1>>, <<1, 29>>, <<2, 25>>, <<4, 9>>, <<5, 1>>, <<6, 12>>, <<8, 21>>,
          <<8, 26>>, <<11, 1>>, <<11, 2>>, <<11, 30>>, <<12, 8>>, <<12, 24>>, <<12, 25>>,
          <<12, 30>>, <<12, 31>>}

MEGA_FIXED == {<<12, 24>>, <<12, 25>>, <<12, 30>>, <<12, 31>>, <<1, 1>>, <<11, 1>>,
               <<11, 2>>}

\* Easter Sunday (Meeus, Jones, Butcher).
Easter(year) ==
  LET a == (year % 19)
      b == year \div 100   c == year % 100
      d == b \div 4        e == b % 4
      f == (b + 8) \div 25
      g == (b - f + 1) \div 3
      h == (19 * a + b - d - g + 15) % 30
      i == c \div 4        k == c % 4
      l == (32 + 2 * e + 2 * i - h - k) % 7
      m == (a + 11 * h + 22 * l) \div 451
      p == h + l - 7 * m + 114
  IN  DayOf(year, p \div 31, (p % 31) + 1)

EasterDays(year) == {Easter(year) - 3, Easter(year) - 2, Easter(year) - 1}

\* The holidays of a year, and those that are mega holidays.
HolidaysOf(year) == {DayOf(year, d[1], d[2]) : d \in FIXED} \cup EasterDays(year)

MegaHolidaysOf(year) == {DayOf(year, d[1], d[2]) : d \in MEGA_FIXED} \cup EasterDays(year)

Years(S) == {Year(n) : n \in S}

\* generate: the holidays among the days S.
Holidays(S) == UNION {{n \in HolidaysOf(y) : n \in S /\ Year(n) = y} : y \in Years(S)}

MegaHolidays(S) ==
  UNION {{n \in MegaHolidaysOf(y) : n \in S /\ Year(n) = y} : y \in Years(S)}

\* The days of a long weekend, by the holidays among the days S.  A holiday on a
\* Thursday takes the Friday with it, one on a Tuesday the Monday.
LongWeekend(S) ==
  LET holidays == Holidays(S)
  IN  {n \in S : \/ n \in holidays /\ n % 7 \in {0, 1, 3, 4}
                 \/ n % 7 = 4 /\ n - 1 \in holidays
                 \/ n % 7 = 0 /\ n + 1 \in holidays}

\* The same without the end of a range.
IsLongWeekend(n) == n \in LongWeekend((n - 1)..(n + 1))

\* weekly_intensity of one week, by a calendar of the days S.
Intensity(week, S) ==
  IF week \cap MegaHolidays(S) # {} THEN 3
  ELSE IF week \cap LongWeekend(S) # {} THEN 2
  ELSE IF week \cap Holidays(S) # {} THEN 1
  ELSE 0
=============================================================================

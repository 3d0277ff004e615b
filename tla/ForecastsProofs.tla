-------------------------- MODULE ForecastsProofs --------------------------
(***************************************************************************)
(* Forecasts, for any files: what the dashboards put together is right     *)
(* because of the remainders by 7 (log weeks begin on Tuesdays, labels are *)
(* Mondays), and a calendar that is cut off gives the flags of all days    *)
(* because a long weekend is known by a day's neighbours.                  *)
(***************************************************************************)
EXTENDS Forecasts, FiniteSetTheorems, TLAPS

-----------------------------------------------------------------------------
(* Days and weeks *)

LEMMA BucketIsTuesday ==
  ASSUME NEW n \in Int
  PROVE  Bucket(n) \in Int /\ Bucket(n) % 7 = 1 /\ Bucket(n) <= n /\ n <= Bucket(n) + 6
BY DEF Bucket

LEMMA LabelIsMonday ==
  ASSUME NEW n \in Int
  PROVE  Label(n) \in Int /\ Label(n) % 7 = 0 /\ n <= Label(n) /\ Label(n) <= n + 6
BY DEF Label, Bucket

\* A day of the month is at least 1: the month begins on or before it.
LEMMA DayOfMonthIsPositive ==
  ASSUME NEW n \in Int
  PROVE  DayOfMonth(n) \in Int /\ DayOfMonth(n) >= 1
<1>1. MarchDay(n).day \in Int
  BY DEF MarchDay
<1>2. DEFINE d == MarchDay(n).day
             q == (5 * d + 2) \div 153
<1>3. q \in Int /\ 153 * q <= 5 * d + 2
  BY <1>1
<1>4. (153 * q + 2) \div 5 \in Int /\ 5 * ((153 * q + 2) \div 5) <= 153 * q + 2
  BY <1>3
<1>5. (153 * q + 2) \div 5 <= d
  BY <1>1, <1>3, <1>4
<1>6. DayOfMonth(n) = d - (153 * q + 2) \div 5 + 1
  BY DEF DayOfMonth, MonthFromMarch
<1> QED
  BY ONLY <1>1, <1>4, <1>5, <1>6

\* A Monday is found again from its month and its week of the month: it is in the week
\* that the first Monday of the month begins, or so many weeks after it.
THEOREM ParseLabelInvertsGraphLabel ==
  \A n \in Int : n % 7 = 0 => ParseLabel(GraphLabel(n)) = n
<1> SUFFICES ASSUME NEW n \in Int, n % 7 = 0
             PROVE  ParseLabel(GraphLabel(n)) = n
  OBVIOUS
<1> DEFINE k == DayOfMonth(n) - 1
<1>1. k \in Int /\ k >= 0
  BY DayOfMonthIsPositive
<1>2. GraphLabel(n)[1] = n - k /\ GraphLabel(n)[2] = k \div 7 + 1
  BY DEF GraphLabel, MonthStart
<1> HIDE DEF k
<1>3. FirstMonday(n - k) = n - k + (k % 7)
  BY <1>1 DEF FirstMonday
<1>4. 7 * (k \div 7) + (k % 7) = k
  BY <1>1
<1> QED
  BY <1>1, <1>2, <1>3, <1>4 DEF ParseLabel

-----------------------------------------------------------------------------
(* The invariant *)

LEMMA ModelType ==
  ASSUME ForecastsInv, NEW m \in Trained
  PROVE  /\ m \in Model /\ m.from \in Int /\ m.to \in Int /\ m.lead \in 1..8
         /\ m.lead \in Leads
<1>1. PICK i \in DOMAIN models : m = models[i]
  BY DEF Trained
<1>2. models \in Seq(Model)
  BY DEF ForecastsInv, TypeOK
<1>3. m \in Model
  BY <1>1, <1>2
<1> QED
  BY <1>3, ForecastsAssumption DEF Model

LEMMA InitInv == ASSUME Init PROVE ForecastsInv
<1>1. TypeOK
  BY DEF Init, TypeOK
<1>2. LogOfWeeks
  BY DEF Init, LogOfWeeks
<1>3. LogIsAnUpload
  BY DEF Init, LogIsAnUpload
<1>4. ModelsOfWeeks
  BY DEF Init, ModelsOfWeeks, Trained
<1>5. ModelsSpanTheirLog
  BY DEF Init, ModelsSpanTheirLog, Trained
<1> QED
  BY <1>1, <1>2, <1>3, <1>4, <1>5 DEF ForecastsInv

LEMMA UploadKeepsInv == ASSUME ForecastsInv, Upload PROVE ForecastsInv'
<1> USE DEF ForecastsInv
<1>1. PICK file \in Files :
        /\ uploads' = Append(uploads, file)
        /\ log' = [batch |-> Len(uploads) + 1, weeks |-> {Bucket(d) : d \in file}]
  BY DEF Upload
<1>2. zone' = zone /\ models' = models
  BY DEF Upload
<1>3. PICK first \in file, last \in file : \A d \in file : first <= d /\ d <= last
  BY ForecastsAssumption
<1>4. \A d \in file : d \in Int /\ Bucket(d) \in Int /\ Bucket(d) % 7 = 1
  BY ForecastsAssumption, BucketIsTuesday
<1>5. TypeOK'
  BY <1>1, <1>2, <1>4 DEF TypeOK
<1>6. \A d \in file : Bucket(first) <= Bucket(d) /\ Bucket(d) <= Bucket(last)
  <2> SUFFICES ASSUME NEW d \in file
               PROVE  Bucket(first) <= Bucket(d) /\ Bucket(d) <= Bucket(last)
    OBVIOUS
  <2>1. first \in Int /\ d \in Int /\ last \in Int /\ first <= d /\ d <= last
    BY <1>3, <1>4
  <2> QED
    BY <2>1 DEF Bucket
<1>7. LogOfWeeks'
  <2>1. log'.weeks = {Bucket(d) : d \in file}
    BY <1>1
  <2>2. \A b \in log'.weeks : b % 7 = 1 /\ Bucket(first) <= b /\ b <= Bucket(last)
    BY <1>4, <1>6, <2>1
  <2>3. Bucket(first) \in log'.weeks /\ Bucket(last) \in log'.weeks
    BY <2>1
  <2> QED
    BY <2>2, <2>3 DEF LogOfWeeks
<1>8. LogIsAnUpload'
  <2>1. uploads \in Seq(Files)
    BY DEF TypeOK
  <2>2. Len(uploads) + 1 \in DOMAIN uploads' /\ uploads'[Len(uploads) + 1] = file
    BY <1>1, <2>1
  <2> QED
    BY <1>1, <2>2 DEF LogIsAnUpload
<1>9. ModelsOfWeeks'
  BY <1>2 DEF ModelsOfWeeks, Trained, WeekDay
<1>10. ModelsSpanTheirLog'
  <2> SUFFICES ASSUME NEW m \in Trained
               PROVE  m.batch \in DOMAIN uploads' /\ log'.batch # m.batch
    BY <1>2 DEF ModelsSpanTheirLog, Trained
  <2>1. uploads \in Seq(Files) /\ m.batch \in DOMAIN uploads
    BY DEF TypeOK, ModelsSpanTheirLog
  <2>2. /\ DOMAIN uploads = 1..Len(uploads) /\ Len(uploads) \in Nat
        /\ DOMAIN uploads' = 1..(Len(uploads) + 1)
    BY <1>1, <2>1
  <2>3. log'.batch = Len(uploads) + 1
    BY <1>1
  <2> QED
    BY <2>1, <2>2, <2>3
<1> QED
  BY <1>5, <1>7, <1>8, <1>9, <1>10

LEMMA UploadFailsKeepsInv == ASSUME ForecastsInv, UploadFails PROVE ForecastsInv'
<1>1. TypeOK'
  BY DEF ForecastsInv, TypeOK, UploadFails
<1>2. LogOfWeeks'
  BY DEF UploadFails, LogOfWeeks
<1>3. LogIsAnUpload'
  BY DEF UploadFails, LogIsAnUpload
<1>4. ModelsOfWeeks'
  BY DEF ForecastsInv, UploadFails, ModelsOfWeeks, Trained, WeekDay
<1>5. ModelsSpanTheirLog'
  BY DEF ForecastsInv, UploadFails, ModelsSpanTheirLog, Trained
<1> QED
  BY <1>1, <1>2, <1>3, <1>4, <1>5 DEF ForecastsInv

LEMMA RetrainKeepsInv == ASSUME ForecastsInv, Retrain PROVE ForecastsInv'
<1> DEFINE dates == {d \in LogDates : d <= SystemDate}
<1>1. PICK from \in dates, to \in dates, lead \in Leads :
        LET m == [batch |-> log.batch, from |-> from, to |-> to, lead |-> lead]
        IN  /\ \A d \in dates : from <= d /\ d <= to
            /\ TrainCount(m) >= MinTrain
            /\ models' = Append(models, m)
  BY DEF Retrain
<1> DEFINE m == [batch |-> log.batch, from |-> from, to |-> to, lead |-> lead]
<1>2. zone' = zone /\ uploads' = uploads /\ log' = log
  BY DEF Retrain
<1>3. \A d \in LogDates : d \in Int /\ d % 7 = WeekDay
  <2> SUFFICES ASSUME NEW b \in log.weeks
               PROVE  ReadDate(b) \in Int /\ ReadDate(b) % 7 = WeekDay
    BY DEF LogDates
  <2>1. b \in Int /\ b % 7 = 1
    BY DEF ForecastsInv, TypeOK, LogOfWeeks
  <2> QED
    BY <2>1 DEF ReadDate, WeekDay
<1>4. m \in Model
  BY <1>3 DEF Model, ForecastsInv, TypeOK
<1>5. models \in Seq(Model)
  BY DEF ForecastsInv, TypeOK
<1>6. TypeOK'
  BY <1>1, <1>2, <1>4 DEF ForecastsInv, TypeOK
<1>7. LogOfWeeks'
  BY <1>2 DEF ForecastsInv, LogOfWeeks
<1>8. from <= to /\ TrainCount(m) >= MinTrain /\ models' = Append(models, m)
  BY <1>1
<1>9. Trained' = Trained \cup {m}
  BY <1>4, <1>5, <1>8 DEF Trained
<1>10. ModelsOfWeeks'
  <2> SUFFICES ASSUME NEW x \in Trained'
               PROVE  /\ x.from % 7 = WeekDay' /\ x.to % 7 = WeekDay' /\ x.from <= x.to
                      /\ TrainCount(x) >= MinTrain
    BY DEF ModelsOfWeeks, TrainCount, WeekCount, LastLabel, FirstLabel
  <2>1. WeekDay' = WeekDay
    BY <1>2 DEF WeekDay
  <2>2. CASE x = m
    BY <1>3, <1>8, <2>1, <2>2
  <2>3. CASE x \in Trained
    BY <2>1, <2>3 DEF ForecastsInv, ModelsOfWeeks
  <2> QED
    BY <1>9, <2>2, <2>3
<1>11. LogIsAnUpload'
  BY <1>2 DEF ForecastsInv, LogIsAnUpload
<1>12. ModelsSpanTheirLog'
  <2>1. LogDates' = LogDates /\ uploads' = uploads /\ log' = log
    BY <1>2 DEF LogDates, ReadDate
  <2>2. m.batch \in DOMAIN uploads
    <3>1. log.weeks # {}
      BY DEF LogDates
    <3> QED
      BY <3>1 DEF ForecastsInv, LogIsAnUpload
  <2>3. \A d \in LogDates : d <= SystemDate => m.from <= d /\ d <= m.to
    BY <1>1
  <2> QED
    BY <1>9, <2>1, <2>2, <2>3 DEF ForecastsInv, ModelsSpanTheirLog
<1> QED
  BY <1>6, <1>7, <1>10, <1>11, <1>12 DEF ForecastsInv

\* What uploads and retrains preserve: the log holds Tuesdays, and models are trained on
\* dates of one day of the week, from their first to their last, all of their log.
THEOREM ForecastsInvariance == Spec => []ForecastsInv
<1>1. ForecastsInv /\ [Next]_vars => ForecastsInv'
  <2> SUFFICES ASSUME ForecastsInv, [Next]_vars PROVE ForecastsInv'
    OBVIOUS
  <2>1. CASE Upload
    BY <2>1, UploadKeepsInv
  <2>2. CASE UploadFails
    BY <2>2, UploadFailsKeepsInv
  <2>3. CASE Retrain
    BY <2>3, RetrainKeepsInv
  <2>4. CASE UNCHANGED vars
    BY <2>4 DEF vars, ForecastsInv, TypeOK, LogOfWeeks, LogIsAnUpload, ModelsOfWeeks,
                  ModelsSpanTheirLog, LogDates, ReadDate, Trained, WeekDay
  <2> QED
    BY <2>1, <2>2, <2>3, <2>4 DEF Next
<1> QED
  BY <1>1, InitInv, PTL DEF Spec

-----------------------------------------------------------------------------
(* Years *)

LastDayOfEra == 146096

\* The year of an era, from March on, and the day of that year.
YearOfEra(e) == (e - e \div 1460 + e \div 36524 - e \div 146096) \div 365

DayOfYear(e) == e - (365 * YearOfEra(e) + YearOfEra(e) \div 4 - YearOfEra(e) \div 100)

\* January is the eleventh month from March on; it begins on day 306.
SinceJanuary(e) == IF DayOfYear(e) >= 306 THEN 1 ELSE 0

Era(n) == (n + 719465) \div 146097

DayOfEra(n) == n + 719465 - Era(n) * 146097

LEMMA DayOfYearBounds ==
  ASSUME NEW e \in Int, 0 <= e, e <= LastDayOfEra
  PROVE  YearOfEra(e) \in 0..399 /\ DayOfYear(e) \in 0..365
BY SMTT(60) DEF LastDayOfEra, YearOfEra, DayOfYear

\* Within a week the year from March on changes at most once, at its end.
LEMMA WeekInAnEra ==
  ASSUME NEW e \in Int, NEW k \in 0..7, 0 <= e, e + k <= LastDayOfEra
  PROVE  \/ /\ YearOfEra(e + k) = YearOfEra(e)
            /\ DayOfYear(e + k) = DayOfYear(e) + k
         \/ /\ YearOfEra(e + k) = YearOfEra(e) + 1
            /\ DayOfYear(e + k) < 7 /\ DayOfYear(e) >= 358
BY SMTT(60) DEF LastDayOfEra, YearOfEra, DayOfYear

LEMMA WeekBetweenEras ==
  ASSUME NEW e \in Int, NEW f \in Int, NEW k \in 0..7, 0 <= e, e <= LastDayOfEra,
         e + k > LastDayOfEra, f = e + k - LastDayOfEra - 1
  PROVE  /\ YearOfEra(e) = 399 /\ YearOfEra(f) = 0
         /\ DayOfYear(f) < 7 /\ DayOfYear(e) >= 358
BY SMTT(60) DEF LastDayOfEra, YearOfEra, DayOfYear

LEMMA DayOfEraBounds ==
  ASSUME NEW n \in Int
  PROVE  /\ Era(n) \in Int /\ DayOfEra(n) \in Int
         /\ 0 <= DayOfEra(n) /\ DayOfEra(n) <= LastDayOfEra
BY SMTT(60) DEF DayOfEra, Era, LastDayOfEra

LEMMA YearFromMarch ==
  ASSUME NEW n \in Int
  PROVE  Year(n) = YearOfEra(DayOfEra(n)) + Era(n) * 400 + SinceJanuary(DayOfEra(n))
<1> DEFINE e == DayOfEra(n)
<1>1. e \in Int /\ 0 <= e /\ e <= LastDayOfEra /\ Era(n) \in Int
  BY DayOfEraBounds
<1>2. MarchDay(n).year = YearOfEra(e) + Era(n) * 400 /\ MarchDay(n).day = DayOfYear(e)
  BY SMT DEF MarchDay, YearOfEra, DayOfYear, DayOfEra, Era
<1> HIDE DEF e
<1>3. YearOfEra(e) \in 0..399 /\ DayOfYear(e) \in 0..365
  BY <1>1, DayOfYearBounds
<1>4. MonthFromMarch(n) = (5 * DayOfYear(e) + 2) \div 153
  BY <1>2 DEF MonthFromMarch
<1>5. MonthFromMarch(n) \in 0..11 /\ (MonthFromMarch(n) >= 10 <=> DayOfYear(e) >= 306)
  BY <1>3, <1>4
<1>6. Month(n) <= 2 <=> DayOfYear(e) >= 306
  BY <1>5 DEF Month
<1>7. Year(n) = YearOfEra(e) + Era(n) * 400 + SinceJanuary(e)
  BY <1>1, <1>2, <1>3, <1>6 DEF Year, SinceJanuary
<1> QED
  BY <1>7 DEF e

\* In seven days New Year comes at most once, and no year comes back.
LEMMA YearOfAWeek ==
  ASSUME NEW n \in Int, NEW k \in 0..7
  PROVE  /\ Year(n) \in Int
         /\ Year(n + k) = Year(n) \/ Year(n + k) = Year(n) + 1
<1> DEFINE e == DayOfEra(n)
           f == DayOfEra(n + k)
<1>1. n + k \in Int
  OBVIOUS
<1>2. /\ e \in Int /\ 0 <= e /\ e <= LastDayOfEra
      /\ f \in Int /\ 0 <= f /\ f <= LastDayOfEra
      /\ Era(n) \in Int /\ LastDayOfEra \in Int
      /\ Year(n) = YearOfEra(e) + Era(n) * 400 + SinceJanuary(e)
      /\ Year(n + k) = YearOfEra(f) + Era(n + k) * 400 + SinceJanuary(f)
  BY <1>1, DayOfEraBounds, YearFromMarch, SMT DEF LastDayOfEra
<1>3. /\ YearOfEra(e) \in 0..399 /\ DayOfYear(e) \in 0..365
      /\ YearOfEra(f) \in 0..399 /\ DayOfYear(f) \in 0..365
  BY <1>2, DayOfYearBounds
<1>4. CASE e + k <= LastDayOfEra
  <2>1. Era(n + k) = Era(n) /\ f = e + k
    BY <1>2, <1>4, SMTT(60) DEF DayOfEra, Era, LastDayOfEra
  <2>2. \/ YearOfEra(f) = YearOfEra(e) /\ DayOfYear(f) = DayOfYear(e) + k
        \/ /\ YearOfEra(f) = YearOfEra(e) + 1
           /\ DayOfYear(f) < 7 /\ DayOfYear(e) >= 358
    BY <1>2, <1>4, <2>1, WeekInAnEra
  <2> HIDE DEF e, f
  <2> QED
    BY <1>2, <1>3, <2>1, <2>2, SMT DEF SinceJanuary
<1>5. CASE e + k > LastDayOfEra
  <2>1. Era(n + k) = Era(n) + 1 /\ f = e + k - LastDayOfEra - 1
    BY <1>2, <1>5, SMTT(60) DEF DayOfEra, Era, LastDayOfEra
  <2>2. /\ YearOfEra(e) = 399 /\ YearOfEra(f) = 0
        /\ DayOfYear(f) < 7 /\ DayOfYear(e) >= 358
    BY <1>2, <1>5, <2>1, WeekBetweenEras
  <2> HIDE DEF e, f
  <2> QED
    BY <1>2, <1>3, <2>1, <2>2, SMT DEF SinceJanuary
<1> QED
  BY <1>2, <1>4, <1>5

\* /api/business-analytics: the year views of a model show weeks of its own dataset only,
\* and while the log is that dataset all of them, except for one around New Year
\* without a booking in the year it is dated to.
THEOREM YearViewsAreOfTheDatasetHolds == Spec => []YearViewsAreOfTheDataset
<1>1. ForecastsInv => YearViewsAreOfTheDataset
  <2> SUFFICES ASSUME ForecastsInv, NEW m \in Trained
               PROVE  LET shown == UNION {YearView(m, y) : y \in AvailableYears(m)}
                      IN  /\ shown \subseteq {Bucket(d) : d \in uploads[m.batch]}
                          /\ log.batch = m.batch =>
                               \A b \in log.weeks \ shown :
                                 Year(ReadDate(b)) + 1 = Year(b + 6)
    BY DEF YearViewsAreOfTheDataset
  <2> DEFINE shown == UNION {YearView(m, y) : y \in AvailableYears(m)}
  <2>1. shown \subseteq {Bucket(d) : d \in uploads[m.batch]}
    BY DEF YearView, ForecastsInv, LogIsAnUpload
  <2>2. ASSUME log.batch = m.batch, NEW b \in log.weeks, b \notin shown
        PROVE  Year(ReadDate(b)) + 1 = Year(b + 6)
    <3>1. b \in Int
      BY DEF ForecastsInv, TypeOK
    <3>2. PICK d \in uploads[m.batch] : b = Bucket(d)
      BY <2>2 DEF ForecastsInv, LogIsAnUpload
    <3>3. d \in Int
      <4>1. uploads[m.batch] \in Files
        BY <2>2 DEF ForecastsInv, TypeOK, LogIsAnUpload
      <4> QED
        BY <4>1, ForecastsAssumption
    <3>4. b <= d /\ d <= b + 6
      BY <3>2, <3>3, BucketIsTuesday
    <3>5. Year(d) # Year(ReadDate(b))
      BY <2>2, <3>2 DEF AvailableYears, YearView
    <3>6. PICK n \in Int : n = ReadDate(b) /\ n <= b /\ b <= n + 1
      BY <3>1 DEF ReadDate
    <3>7. d - n \in 0..7 /\ b + 6 - d \in 0..7 /\ b + 6 - n \in 0..7
      BY <3>1, <3>3, <3>4, <3>6
    <3>8. /\ Year(n) \in Int
          /\ Year(n + (d - n)) = Year(n) \/ Year(n + (d - n)) = Year(n) + 1
          /\ Year(n + (b + 6 - n)) = Year(n) \/ Year(n + (b + 6 - n)) = Year(n) + 1
      BY <3>7, YearOfAWeek
    <3>9. Year(d + (b + 6 - d)) = Year(d) \/ Year(d + (b + 6 - d)) = Year(d) + 1
      BY <3>3, <3>7, YearOfAWeek
    <3>10. /\ n + (d - n) = d /\ n + (b + 6 - n) = b + 6 /\ d + (b + 6 - d) = b + 6
      BY <3>1, <3>3
    <3> QED
      BY <3>5, <3>6, <3>8, <3>9, <3>10
  <2> QED
    BY <2>1, <2>2
<1> QED
  BY <1>1, ForecastsInvariance, PTL

-----------------------------------------------------------------------------
(* The graph *)

LEMMA ModelWeeks ==
  ASSUME ForecastsInv, NEW m \in Trained
  PROVE  /\ FirstLabel(m) \in Int /\ FirstLabel(m) % 7 = 0
         /\ m.from <= FirstLabel(m) /\ FirstLabel(m) <= m.from + 6
         /\ LastLabel(m) \in Int /\ LastLabel(m) % 7 = 0
         /\ m.to <= LastLabel(m) /\ LastLabel(m) <= m.to + 6
<1>1. m.from \in Int /\ m.to \in Int
  BY ModelType
<1> QED
  BY <1>1, LabelIsMonday DEF FirstLabel, LastLabel

LEMMA ForwardIsMonday ==
  ASSUME ForecastsInv, NEW m \in Trained, NEW l \in ForwardLabels(m)
  PROVE  /\ l \in Int /\ l % 7 = 0
         /\ LastLabel(m) + 7 <= l /\ l <= LastLabel(m) + 7 * Steps
<1>1. PICK k \in 1..Steps : l = LastLabel(m) + 7 * k
  BY DEF ForwardLabels
<1>2. Steps \in Nat
  BY ForecastsAssumption
<1> QED
  BY <1>1, <1>2, ModelWeeks

Ahead(m, l) == Cardinality({x \in ForwardLabels(m) : x <= l})

LEMMA ForwardRow ==
  ASSUME NEW m, NEW p \in Forward(m)
  PROVE  \E l \in ForwardLabels(m) :
           /\ p.label = l /\ p.date = ForwardDate(l)
           /\ p.ahead = Ahead(m, l)
<1>1. PICK l \in ForwardLabels(m) :
        p = [label |-> l, date |-> ForwardDate(l),
             of |-> l - (LastLabel(m) - LastTrained(m)),
             ahead |-> Cardinality({x \in ForwardLabels(m) : x <= l})]
  BY Zenon DEF Forward
<1> QED
  BY <1>1 DEF Ahead

LEMMA TestIsMondays ==
  ASSUME ForecastsInv, NEW m \in Trained, NEW l \in Test(m)
  PROVE  l \in Int /\ l % 7 = 0
BY ModelWeeks DEF Test, Labels, Mondays

\* /api/forecast-graph: a test prediction is shown at the week it is of, or nowhere,
\* for all files, bounds and both time zones.
THEOREM OverlayNeedsUtcHolds == Spec => []OverlayNeedsUtc
<1>1. ForecastsInv => OverlayNeedsUtc
  <2> SUFFICES ASSUME ForecastsInv, NEW m \in Trained, NEW b \in log.weeks
               PROVE  Overlay(m, ReadDate(b)) =
                        IF zone = "utc" THEN {Label(ReadDate(b))} \cap Test(m) ELSE {}
    BY DEF OverlayNeedsUtc
  <2>1. b \in Int /\ b % 7 = 1
    BY DEF ForecastsInv, TypeOK, LogOfWeeks
  <2>2. Overlay(m, ReadDate(b)) = {ReadDate(b)} \cap Test(m)
    BY TestIsMondays, ParseLabelInvertsGraphLabel DEF Overlay
  <2>3. CASE zone = "utc"
    <3>1. Label(ReadDate(b)) = ReadDate(b)
      BY <2>1, <2>3 DEF ReadDate, Label, Bucket
    <3> QED
      BY <2>2, <2>3, <3>1
  <2>4. CASE zone # "utc"
    <3>1. ReadDate(b) \notin Test(m)
      BY <2>1, <2>4, TestIsMondays DEF ReadDate
    <3> QED
      BY <2>2, <2>4, <3>1
  <2> QED
    BY <2>3, <2>4
<1> QED
  BY <1>1, ForecastsInvariance, PTL

-----------------------------------------------------------------------------
(* The calendars *)

LEMMA HolidayByItsYear ==
  ASSUME NEW S, NEW n
  PROVE  n \in Holidays(S) <=> n \in S /\ n \in HolidaysOf(Year(n))
<1>1. n \in Holidays(S) => n \in S /\ n \in HolidaysOf(Year(n))
  BY DEF Holidays
<1>2. ASSUME n \in S, n \in HolidaysOf(Year(n)) PROVE n \in Holidays(S)
  <2>1. Year(n) \in Years(S)
    BY <1>2 DEF Years
  <2>2. n \in {d \in HolidaysOf(Year(n)) : d \in S /\ Year(d) = Year(n)}
    BY <1>2
  <2> QED
    BY <2>1, <2>2 DEF Holidays
<1> QED
  BY <1>1, <1>2

LEMMA MegaHolidayByItsYear ==
  ASSUME NEW S, NEW n
  PROVE  n \in MegaHolidays(S) <=> n \in S /\ n \in MegaHolidaysOf(Year(n))
<1>1. n \in MegaHolidays(S) => n \in S /\ n \in MegaHolidaysOf(Year(n))
  BY DEF MegaHolidays
<1>2. ASSUME n \in S, n \in MegaHolidaysOf(Year(n)) PROVE n \in MegaHolidays(S)
  <2>1. Year(n) \in Years(S)
    BY <1>2 DEF Years
  <2>2. n \in {d \in MegaHolidaysOf(Year(n)) : d \in S /\ Year(d) = Year(n)}
    BY <1>2
  <2> QED
    BY <2>1, <2>2 DEF MegaHolidays
<1> QED
  BY <1>1, <1>2

LEMMA LongWeekendDay ==
  ASSUME NEW S, NEW n \in S
  PROVE  n \in LongWeekend(S) <=> \/ n \in Holidays(S) /\ n % 7 \in {0, 1, 3, 4}
                                  \/ n % 7 = 4 /\ n - 1 \in Holidays(S)
                                  \/ n % 7 = 0 /\ n + 1 \in Holidays(S)
BY DEF LongWeekend

\* A Friday needs the day before it, a Monday the day after it, other days neither.
LEMMA LongWeekendByNeighbours ==
  ASSUME NEW S, NEW n \in Int, n \in S,
         n % 7 = 4 => n - 1 \in S,
         n % 7 = 0 => n + 1 \in S
  PROVE  n \in LongWeekend(S) <=> IsLongWeekend(n)
<1> DEFINE T == (n - 1)..(n + 1)
           day(d) == d \in HolidaysOf(Year(d))
<1>1. \A d : /\ d \in Holidays(S) <=> d \in S /\ day(d)
             /\ d \in Holidays(T) <=> d \in T /\ day(d)
  BY HolidayByItsYear
<1>2. n \in T /\ n - 1 \in T /\ n + 1 \in T
  OBVIOUS
<1> HIDE DEF T, day
<1>3. n \in LongWeekend(S) <=> \/ day(n) /\ n % 7 \in {0, 1, 3, 4}
                               \/ n % 7 = 4 /\ day(n - 1)
                               \/ n % 7 = 0 /\ day(n + 1)
  BY <1>1, LongWeekendDay
<1>4. n \in LongWeekend(T) <=> \/ day(n) /\ n % 7 \in {0, 1, 3, 4}
                               \/ n % 7 = 4 /\ day(n - 1)
                               \/ n % 7 = 0 /\ day(n + 1)
  BY <1>1, <1>2, LongWeekendDay
<1> QED
  BY <1>3, <1>4 DEF IsLongWeekend, T

\* A calendar with a week of seven days has its flag right; one from Tuesday to
\* Monday needs a day more.
LEMMA WeekFlag ==
  ASSUME NEW w \in Int, NEW S, Week(w) \subseteq S,
         w % 7 = 0 \/ (w % 7 = 1 /\ w + 7 \in S)
  PROVE  HasLongWeekend(Week(w), S) <=> \E n \in Week(w) : IsLongWeekend(n)
<1>1. \A n \in Week(w) : n \in LongWeekend(S) <=> IsLongWeekend(n)
  <2> SUFFICES ASSUME NEW n \in Week(w)
               PROVE  n \in LongWeekend(S) <=> IsLongWeekend(n)
    OBVIOUS
  <2>1. n \in Int /\ w <= n /\ n <= w + 6
    BY DEF Week
  <2>2. \A d \in Int : w <= d /\ d <= w + 6 => d \in S
    BY DEF Week
  <2>3. n % 7 = 4 => n - 1 \in S
    <3>1. n % 7 = 4 => w <= n - 1
      BY <2>1
    <3> QED
      BY <2>1, <2>2, <3>1
  <2>4. n % 7 = 0 => n + 1 \in S
    <3>1. CASE n = w + 6
      BY <2>1, <3>1
    <3>2. CASE n # w + 6
      BY <2>1, <2>2, <3>2
    <3> QED
      BY <3>1, <3>2
  <2> QED
    BY <2>1, <2>3, <2>4, LongWeekendByNeighbours
<1> QED
  BY <1>1 DEF HasLongWeekend

LEMMA LogEnds ==
  ASSUME ForecastsInv, NEW b \in log.weeks
  PROVE  /\ Least(log.weeks) \in Int /\ Least(log.weeks) <= b
         /\ Greatest(log.weeks) \in Int /\ b <= Greatest(log.weeks)
<1>1. log.weeks \subseteq Int
  BY DEF ForecastsInv, TypeOK
<1>2. PICK first \in log.weeks, last \in log.weeks :
        \A x \in log.weeks : first <= x /\ x <= last
  BY DEF ForecastsInv, LogOfWeeks
<1>3. Least(log.weeks) \in log.weeks /\ \A x \in log.weeks : Least(log.weeks) <= x
  BY <1>2 DEF Least
<1>4. Greatest(log.weeks) \in log.weeks /\ \A x \in log.weeks : x <= Greatest(log.weeks)
  BY <1>2 DEF Greatest
<1> QED
  BY <1>1, <1>3, <1>4

LEMMA IngestFlags ==
  ASSUME ForecastsInv, NEW b \in log.weeks
  PROVE  HasLongWeekend(Week(b), IngestCalendar) <=> \E n \in Week(b) : IsLongWeekend(n)
<1>1. b \in Int /\ b % 7 = 1
  BY DEF ForecastsInv, TypeOK, LogOfWeeks
<1>2. Week(b) \subseteq IngestCalendar /\ b + 7 \in IngestCalendar
  BY <1>1, LogEnds DEF Week, IngestCalendar
<1> QED
  BY <1>1, <1>2, WeekFlag

\* But for the week at the edge, the export has all the days of a week.
LEMMA TrainFlags ==
  ASSUME ForecastsInv, NEW m \in Trained, NEW l \in Labels(m),
         l # IF zone = "utc" THEN FirstLabel(m) ELSE LastLabel(m)
  PROVE  TrainDays(m, l) \cap LongWeekend(PipelineCalendar(m)) # {}
           <=> \E n \in Week(l - 6) : IsLongWeekend(n)
<1>1. /\ m.from \in Int /\ m.to \in Int
      /\ m.from % 7 = WeekDay /\ m.to % 7 = WeekDay
  BY ModelType DEF ForecastsInv, ModelsOfWeeks
<1>2. /\ l \in Int /\ l % 7 = 0 /\ FirstLabel(m) <= l /\ l <= LastLabel(m)
      /\ FirstLabel(m) \in Int /\ FirstLabel(m) % 7 = 0
      /\ m.from <= FirstLabel(m) /\ FirstLabel(m) <= m.from + 6
      /\ LastLabel(m) \in Int /\ LastLabel(m) % 7 = 0
      /\ m.to <= LastLabel(m) /\ LastLabel(m) <= m.to + 6
  BY ModelWeeks DEF Labels, Mondays
<1>3. m.from <= l - 6 /\ l <= m.to
  <2>1. CASE zone = "utc"
    <3>1. m.from % 7 = 0 /\ m.to % 7 = 0
      BY <1>1, <2>1 DEF WeekDay
    <3>2. l # FirstLabel(m)
      BY <2>1
    <3> QED
      BY <1>1, <1>2, <3>1, <3>2
  <2>2. CASE zone # "utc"
    <3>1. m.from % 7 = 1 /\ m.to % 7 = 1
      BY <1>1, <2>2 DEF WeekDay
    <3>2. l # LastLabel(m)
      BY <2>2
    <3> QED
      BY <1>1, <1>2, <3>1, <3>2
  <2> QED
    BY <2>1, <2>2
<1>4. TrainDays(m, l) = Week(l - 6)
  BY <1>1, <1>2, <1>3 DEF TrainDays, Week
<1>5. Week(l - 6) \subseteq PipelineCalendar(m) /\ l - 6 + 7 \in PipelineCalendar(m)
  BY <1>1, <1>2, <1>3 DEF Week, PipelineCalendar
<1>6. l - 6 \in Int /\ (l - 6) % 7 = 1
  BY <1>2
<1> QED
  BY <1>4, <1>5, <1>6, WeekFlag DEF HasLongWeekend

LEMMA ForwardFlags ==
  ASSUME ForecastsInv, NEW m \in Trained, NEW l \in ForwardLabels(m)
  PROVE  HasLongWeekend(Week(l), ForecastCalendar(m))
           <=> \E n \in Week(l) : IsLongWeekend(n)
<1>1. /\ l \in Int /\ l % 7 = 0 /\ LastLabel(m) \in Int /\ Steps \in Int
      /\ LastLabel(m) + 7 <= l /\ l <= LastLabel(m) + 7 * Steps
  BY ForwardIsMonday, ModelWeeks, ForecastsAssumption
<1>2. Week(l) \subseteq ForecastCalendar(m)
  BY <1>1 DEF Week, ForecastCalendar
<1> QED
  BY <1>1, <1>2, WeekFlag

LEMMA IntensityOfWholeWeek ==
  ASSUME NEW w \in Int, w % 7 = 0, NEW S, NEW T, Week(w) \subseteq S, Week(w) \subseteq T
  PROVE  Intensity(Week(w), S) = Intensity(Week(w), T)
<1>1. Week(w) \cap LongWeekend(S) # {} <=> Week(w) \cap LongWeekend(T) # {}
  BY WeekFlag DEF HasLongWeekend
<1>2. Week(w) \cap Holidays(S) = Week(w) \cap Holidays(T)
  BY HolidayByItsYear
<1>3. Week(w) \cap MegaHolidays(S) = Week(w) \cap MegaHolidays(T)
  BY MegaHolidayByItsYear
<1> QED
  BY <1>1, <1>2, <1>3 DEF Intensity

\* The lead of any forecast is in the calendar that step 1 has extended.
LEMMA LeadIsWhole ==
  ASSUME ForecastsInv, NEW m \in Trained, NEW l \in ForwardLabels(m),
         NEW w, w = l + 7 * m.lead
  PROVE  HolidayLead(m, l) = Intensity(Week(w), (w - 1)..(w + 7))
<1>1. /\ l \in Int /\ l % 7 = 0 /\ LastLabel(m) \in Int /\ Steps \in Int /\ Steps <= 16
      /\ LastLabel(m) + 7 <= l /\ l <= LastLabel(m) + 7 * Steps
      /\ m.lead \in 1..8 /\ m.from \in Int /\ m.to \in Int
      /\ m.from <= FirstLabel(m) /\ m.from <= m.to
      /\ m.to <= LastLabel(m) /\ LastLabel(m) <= m.to + 6
  BY ForwardIsMonday, ModelWeeks, ModelType, ForecastsAssumption
     DEF ForecastsInv, ModelsOfWeeks
<1>2. w \in Int /\ w % 7 = 0
  BY <1>1
<1>3. Week(w) \subseteq PipelineCalendar(m) /\ Week(w) \subseteq (w - 1)..(w + 7)
  BY <1>1, <1>2 DEF Week, PipelineCalendar
<1>4. HolidayLead(m, l) = Intensity(Week(w), PipelineCalendar(m))
  BY DEF HolidayLead
<1> QED
  BY <1>2, <1>3, <1>4, IntensityOfWholeWeek

\* The flags are those of all days, whatever the files are.
THEOREM CalendarsAgreeHolds == Spec => []CalendarsAgree
<1>1. ForecastsInv => CalendarsAgree
  <2> SUFFICES ASSUME ForecastsInv PROVE CalendarsAgree
    OBVIOUS
  <2>1. \A b \in log.weeks :
          HasLongWeekend(Week(b), IngestCalendar) <=> \E n \in Week(b) : IsLongWeekend(n)
    BY IngestFlags
  <2>2. ASSUME NEW m \in Trained,
               NEW l \in Labels(m) \ {IF zone = "utc" THEN FirstLabel(m) ELSE LastLabel(m)}
        PROVE  TrainDays(m, l) \cap LongWeekend(PipelineCalendar(m)) # {}
                 <=> \E n \in Week(l - 6) : IsLongWeekend(n)
    BY TrainFlags
  <2>3. ASSUME NEW m \in Trained, NEW l \in ForwardLabels(m)
        PROVE  /\ HasLongWeekend(Week(l), ForecastCalendar(m))
                     <=> \E n \in Week(l) : IsLongWeekend(n)
               /\ LET w == l + 7 * m.lead
                  IN  HolidayLead(m, l) = Intensity(Week(w), (w - 1)..(w + 7))
    BY ForwardFlags, LeadIsWhole
  <2> QED
    BY <2>1, <2>2, <2>3, Zenon DEF CalendarsAgree
<1> QED
  BY <1>1, ForecastsInvariance, PTL

-----------------------------------------------------------------------------
(* The rows of the cache *)

LEMMA CountOfWeeks ==
  ASSUME NEW a \in Int, NEW k \in Nat
  PROVE  /\ IsFiniteSet({a + 7 * j : j \in 1..k})
         /\ Cardinality({a + 7 * j : j \in 1..k}) = k
<1> DEFINE S == {a + 7 * j : j \in 1..k}
           f == [j \in 1..k |-> a + 7 * j]
<1>1. \A i, j \in 1..k : f[i] = f[j] => i = j
  OBVIOUS
<1>2. f \in [1..k -> S]
  OBVIOUS
<1>3. \A l \in S : \E j \in 1..k : f[j] = l
  OBVIOUS
<1>4. f \in Bijection(1..k, S)
  BY <1>1, <1>2, <1>3 DEF Bijection, Injection, Surjection, IsInjective
<1>5. IsFiniteSet(1..k) /\ Cardinality(1..k) = k
  BY FS_Interval
<1> QED
  BY <1>4, <1>5, FS_Bijection DEF ExistsBijection

\* The data are of 15 weeks or more, the last three of them test weeks.
LEMMA SplitOfWeeks ==
  ASSUME ForecastsInv, NEW m \in Trained
  PROVE  /\ LastTrained(m) \in Int /\ LastTrained(m) < LastLabel(m) - 14
         /\ FirstLabel(m) <= LastLabel(m) - 14
<1> DEFINE w == WeekCount(m)
           t == TrainCount(m)
<1>1. /\ FirstLabel(m) \in Int /\ FirstLabel(m) % 7 = 0
      /\ LastLabel(m) \in Int /\ LastLabel(m) % 7 = 0
  BY ModelWeeks
<1>2. w \in Int /\ t \in Int /\ 5 * t <= 4 * w
  BY <1>1 DEF WeekCount, TrainCount
<1>3. t >= 12
  BY <1>2, ForecastsAssumption DEF ForecastsInv, ModelsOfWeeks
<1>4. LastLabel(m) = FirstLabel(m) + 7 * (w - 1)
  <2> DEFINE span == LastLabel(m) - FirstLabel(m)
  <2>1. span \in Int /\ span % 7 = 0
    BY <1>1
  <2>2. span = 7 * (span \div 7)
    BY <2>1
  <2>3. w = span \div 7 + 1
    BY DEF WeekCount
  <2> QED
    BY <1>1, <2>1, <2>2, <2>3
<1>5. LastTrained(m) = FirstLabel(m) + 7 * (t - 1)
  BY DEF LastTrained
<1> QED
  BY ONLY <1>1, <1>2, <1>3, <1>4, <1>5

LEMMA ForwardAhead ==
  ASSUME ForecastsInv, NEW m \in Trained, NEW k \in 1..Steps
  PROVE  /\ LastLabel(m) + 7 * k \in ForwardLabels(m)
         /\ Ahead(m, LastLabel(m) + 7 * k) = k
<1> DEFINE last == LastLabel(m)
<1>1. last \in Int /\ LastTrained(m) \in Int /\ LastTrained(m) < last /\ Steps \in Nat
  BY ModelWeeks, SplitOfWeeks, ForecastsAssumption
<1> HIDE DEF last
<1>2. ForwardLabels(m) = {last + 7 * j : j \in 1..Steps}
  BY <1>1 DEF ForwardLabels, last
<1>3. {x \in ForwardLabels(m) : x <= last + 7 * k} = {last + 7 * j : j \in 1..k}
  BY <1>1, <1>2
<1>4. k \in Nat
  OBVIOUS
<1> QED
  BY <1>1, <1>2, <1>3, <1>4, CountOfWeeks DEF Ahead, last

\* Forward row k.
LEMMA ForwardRowNumber ==
  ASSUME ForecastsInv, NEW m \in Trained, NEW p \in Forward(m)
  PROVE  \E k \in 1..Steps :
           p.ahead = k /\ p.label = LastLabel(m) + 7 * k /\ p.date = ReadDate(p.label)
<1>1. PICK l \in ForwardLabels(m) :
        p.label = l /\ p.date = ForwardDate(l) /\ p.ahead = Ahead(m, l)
  BY ForwardRow
<1>2. PICK k \in 1..Steps : l = LastLabel(m) + 7 * k
  BY DEF ForwardLabels
<1> QED
  BY <1>1, <1>2, ForwardAhead DEF ForwardDate

\* /api/forecast-graph: as long as the log is a model's own, its forecasts are dated after
\* the last week of it that was not dropped by the system date.
THEOREM ForecastsFollowTheirDataHolds == Spec => []ForecastsFollowTheirData
<1>1. ForecastsInv => ForecastsFollowTheirData
  <2> SUFFICES ASSUME ForecastsInv, NEW m \in Trained, log.batch = m.batch,
                      NEW p \in Forward(m), NEW b \in log.weeks,
                      ~(ReadDate(b) > SystemDate)
               PROVE  ~(p.label <= Label(ReadDate(b)))
    BY DEF ForecastsFollowTheirData, GraphForward
  <2>1. b \in Int /\ ReadDate(b) \in Int /\ SystemDate \in Int
    BY ForecastsAssumption DEF ForecastsInv, TypeOK, ReadDate
  <2>2. ReadDate(b) <= m.to /\ m.to \in Int
    BY <2>1, ModelType DEF ForecastsInv, ModelsSpanTheirLog, LogDates
  <2>3. Label(ReadDate(b)) <= Label(m.to)
    BY <2>1, <2>2 DEF Label, Bucket
  <2>4. PICK k \in 1..Steps : p.label = LastLabel(m) + 7 * k
    BY ForwardRowNumber
  <2>5. LastLabel(m) = Label(m.to) /\ Label(m.to) \in Int /\ Label(ReadDate(b)) \in Int
    BY <2>1, <2>2, LabelIsMonday DEF LastLabel
  <2>6. k \in Int /\ k >= 1
    BY ForecastsAssumption
  <2> QED
    BY <2>3, <2>4, <2>5, <2>6
<1> QED
  BY <1>1, ForecastsInvariance, PTL

LEMMA TestSize ==
  ASSUME ForecastsInv, NEW m \in Trained
  PROVE  Cardinality(Test(m)) \in Nat
<1>1. FirstLabel(m) \in Int /\ LastLabel(m) \in Int
  BY ModelWeeks
<1>2. IsFiniteSet(FirstLabel(m)..LastLabel(m))
  BY <1>1, FS_Interval
<1>3. IsFiniteSet(Test(m))
  BY <1>2, FS_Subset DEF Test, Labels, Mondays
<1> QED
  BY <1>3, FS_CardinalityType

Size(m) == IF Cardinality(Test(m)) < Trailing THEN Cardinality(Test(m)) ELSE Trailing

LEMMA SizeType ==
  ASSUME ForecastsInv, NEW m \in Trained
  PROVE  Size(m) \in Nat /\ Size(m) <= Trailing /\ Trailing \in Nat
BY TestSize, ForecastsAssumption DEF Size

BacktestRow(m, i) ==
  [label |-> LastLabel(m) - 7 * (Size(m) - 1 - i), date |-> LastLabel(m) - 7 * (Size(m) - 1 - i),
   of |-> LastLabel(m) - 7 * (Size(m) - 1 - i), ahead |-> i - Trailing, actual |-> LastLabel(m) - 7 * (Trailing - 1 - i)]

LEMMA BacktestRows ==
  ASSUME NEW m
  PROVE  Backtest(m) = {BacktestRow(m, i) : i \in 0..(Size(m) - 1)}
BY DEF Backtest, BacktestRow, BacktestNumber, Size

\* The order of the rows is that of their numbers.
LEMMA CacheOrder ==
  ASSUME ForecastsInv, NEW m \in Trained, NEW p \in Cache(m), NEW x \in Cache(m)
  PROVE  p.date < x.date <=> p.ahead < x.ahead
<1> DEFINE last == LastLabel(m)
<1>1. last \in Int /\ Size(m) \in Nat /\ Trailing \in Nat /\ Size(m) <= Trailing
      /\ Steps \in Nat
  BY ModelWeeks, SizeType, ForecastsAssumption
<1>2. \A q \in Forward(m) : \E k \in 1..Steps : q.ahead = k /\ q.date = ReadDate(last + 7 * k)
  BY ForwardRowNumber
<1>3. \A q \in Backtest(m) : \E i \in 0..(Size(m) - 1) :
        q.ahead = i - Trailing /\ q.date = last - 7 * (Size(m) - 1 - i)
  BY BacktestRows DEF BacktestRow
<1> HIDE DEF last
<1>4. CASE p \in Forward(m) /\ x \in Forward(m)
  <2>1. PICK k \in 1..Steps : p.ahead = k /\ p.date = ReadDate(last + 7 * k)
    BY <1>2, <1>4
  <2>2. PICK j \in 1..Steps : x.ahead = j /\ x.date = ReadDate(last + 7 * j)
    BY <1>2, <1>4
  <2> QED
    BY <1>1, <2>1, <2>2 DEF ReadDate
<1>5. CASE p \in Forward(m) /\ x \in Backtest(m)
  <2>1. PICK k \in 1..Steps : p.ahead = k /\ p.date = ReadDate(last + 7 * k)
    BY <1>2, <1>5
  <2>2. PICK i \in 0..(Size(m) - 1) :
          x.ahead = i - Trailing /\ x.date = last - 7 * (Size(m) - 1 - i)
    BY <1>3, <1>5
  <2> QED
    BY <1>1, <2>1, <2>2 DEF ReadDate
<1>6. CASE p \in Backtest(m) /\ x \in Forward(m)
  <2>1. PICK k \in 1..Steps : x.ahead = k /\ x.date = ReadDate(last + 7 * k)
    BY <1>2, <1>6
  <2>2. PICK i \in 0..(Size(m) - 1) :
          p.ahead = i - Trailing /\ p.date = last - 7 * (Size(m) - 1 - i)
    BY <1>3, <1>6
  <2> QED
    BY <1>1, <2>1, <2>2 DEF ReadDate
<1>7. CASE p \in Backtest(m) /\ x \in Backtest(m)
  <2>1. PICK i \in 0..(Size(m) - 1) :
          p.ahead = i - Trailing /\ p.date = last - 7 * (Size(m) - 1 - i)
    BY <1>3, <1>7
  <2>2. PICK j \in 0..(Size(m) - 1) :
          x.ahead = j - Trailing /\ x.date = last - 7 * (Size(m) - 1 - j)
    BY <1>3, <1>7
  <2> QED
    BY <1>1, <2>1, <2>2
<1> QED
  BY <1>4, <1>5, <1>6, <1>7 DEF Cache

LEMMA ForwardNumbers ==
  ASSUME ForecastsInv, NEW m \in Trained
  PROVE  {p.ahead : p \in Forward(m)} = 1..Steps
<1>1. \A p \in Forward(m) : p.ahead \in 1..Steps
  BY ForwardRowNumber
<1>2. ASSUME NEW k \in 1..Steps PROVE \E p \in Forward(m) : p.ahead = k
  <2> DEFINE l == LastLabel(m) + 7 * k
             row == [label |-> l, date |-> ForwardDate(l),
                     of |-> l - (LastLabel(m) - LastTrained(m)),
                     ahead |-> Cardinality({x \in ForwardLabels(m) : x <= l})]
  <2>1. l \in ForwardLabels(m) /\ Ahead(m, l) = k
    BY ForwardAhead
  <2> HIDE DEF l
  <2>2. row \in Forward(m)
    BY <2>1, Zenon DEF Forward
  <2>3. row.ahead = k
    BY <2>1 DEF Ahead
  <2> QED
    BY <2>2, <2>3
<1> QED
  BY <1>1, <1>2

LEMMA BacktestActuals ==
  ASSUME ForecastsInv, NEW m \in Trained, NEW p \in Backtest(m)
  PROVE  /\ p.ahead < 0
         /\ p.actual = p.of <=> Cardinality(Test(m)) >= Trailing
         /\ Cardinality(Test(m)) >= Trailing => p.label = LastLabel(m) + 7 * (p.ahead + 1)
<1>1. PICK i \in 0..(Size(m) - 1) : p = BacktestRow(m, i)
  BY BacktestRows
<1>2. /\ Size(m) \in Nat /\ Trailing \in Nat /\ LastLabel(m) \in Int
      /\ Cardinality(Test(m)) \in Nat
  BY SizeType, TestSize, ModelWeeks
<1>3. /\ p.label = LastLabel(m) - 7 * (Size(m) - 1 - i) /\ p.of = p.label
      /\ p.ahead = i - Trailing /\ p.actual = LastLabel(m) - 7 * (Trailing - 1 - i)
  BY <1>1 DEF BacktestRow
<1>4. CASE Cardinality(Test(m)) >= Trailing
  <2>1. Size(m) = Trailing
    BY <1>2, <1>4 DEF Size
  <2> QED
    BY <1>2, <1>3, <1>4, <2>1
<1>5. CASE ~(Cardinality(Test(m)) >= Trailing)
  <2>1. Size(m) = Cardinality(Test(m)) /\ Size(m) < Trailing
    BY <1>2, <1>5 DEF Size
  <2> QED
    BY <1>2, <1>3, <1>5, <2>1
<1> QED
  BY <1>4, <1>5

\* forecast_cache: the rows are in the order of their numbers, which begin below zero and
\* end at Steps, and the backtest is next to its own actual weeks if the test part
\* has as many, for all files, bounds and both time zones.
THEOREM CacheInOrderHolds == Spec => []CacheInOrder
<1>1. ForecastsInv => CacheInOrder
  BY CacheOrder, ForwardNumbers, BacktestActuals DEF CacheInOrder
<1> QED
  BY <1>1, ForecastsInvariance, PTL

\* The log, the uploads and the models keep their types.
THEOREM TypeCorrect == Spec => []TypeOK
<1>1. ForecastsInv => TypeOK
  BY DEF ForecastsInv
<1> QED
  BY <1>1, ForecastsInvariance, PTL
=============================================================================

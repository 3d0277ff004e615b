----------------------------- MODULE Forecasts -----------------------------
(***************************************************************************)
(* What becomes of the weeks: an upload counts them, a retrain labels      *)
(* them, splits them, predicts and caches, and the dashboards put actual   *)
(* and predicted weeks together again by their dates.  Requests do not     *)
(* overlap here (they do in Registry); uploads and retrains come in any    *)
(* order, so that a model is shown next to data it has not seen.  A number *)
(* of bookings or a prediction is known by the week it is of, which is not *)
(* always the week it is dated.                                            *)
(***************************************************************************)
EXTENDS Weeks, Sequences

CONSTANTS
  Files,       \* what can be uploaded: the days of the bookings of a file
  MinRows,     \* 20: weeks in the log that a retrain needs
  MinTrain,    \* 12: weeks of training data below which compute_lb_jb fails
  Steps,       \* 12: weeks to forecast
  Trailing,    \* 4: weeks of backtest
  SystemDate,  \* the last day that step 1 accepts
  Leads,       \* 1..8: what the holiday lead search can find
  MaxUploads,  \* bound
  MaxModels    \* bound

ASSUME ForecastsAssumption ==
  /\ \A file \in Files :
       /\ file \subseteq Int
       /\ \E first, last \in file : \A d \in file : first <= d /\ d <= last
  /\ {MinRows, MinTrain, Steps, Trailing, MaxUploads, MaxModels} \subseteq Nat
  /\ MinTrain >= 12 /\ Trailing >= 2
  /\ Steps <= 16 /\ Leads \subseteq 1..8
  /\ SystemDate \in Int

VARIABLES
  zone,     \* "manila" or "utc": the time zone of the database session
  uploads,  \* the files that were uploaded; a batch is a position in it
  log,      \* training_data_log: batch and weeks, as buckets
  models    \* the models, in the order of their training

vars == <<zone, uploads, log, models>>

\* `from`, `to`: the first and the last date of the export.
Model == [batch : Nat, from : Int, to : Int, lead : Leads]

TypeOK ==
  /\ zone \in {"manila", "utc"}
  /\ uploads \in Seq(Files)
  /\ log \in [batch : Nat, weeks : SUBSET Int]
  /\ models \in Seq(Model)

Init ==
  /\ zone \in {"manila", "utc"}
  /\ uploads = <<>>
  /\ log = [batch |-> 0, weeks |-> {}]
  /\ models = <<>>

\* A midnight of Manila is in the evening of the day before in UTC.
ReadDate(day) == IF zone = "utc" THEN day - 1 ELSE day

LogDates == {ReadDate(b) : b \in log.weeks}

-----------------------------------------------------------------------------
(* Uploads and retrains *)

Upload ==
  /\ Len(uploads) < MaxUploads
  /\ \E file \in Files :
       /\ uploads' = Append(uploads, file)
       /\ log' = [batch |-> Len(uploads) + 1, weeks |-> {Bucket(d) : d \in file}]
  /\ UNCHANGED <<zone, models>>

\* The log has been emptied before the file is found bad.
UploadFails ==
  /\ log' = [batch |-> 0, weeks |-> {}]
  /\ UNCHANGED <<zone, uploads, models>>

FirstLabel(m) == Label(m.from)

LastLabel(m) == Label(m.to)

Labels(m) == Mondays(FirstLabel(m)..LastLabel(m))

WeekCount(m) == (LastLabel(m) - FirstLabel(m)) \div 7 + 1

\* int(n * (1 - TEST_RATIO))
TrainCount(m) == (4 * WeekCount(m)) \div 5

LastTrained(m) == FirstLabel(m) + 7 * (TrainCount(m) - 1)

Test(m) == {l \in Labels(m) : l > LastTrained(m)}

Retrain ==
  /\ Len(models) < MaxModels
  /\ Cardinality(log.weeks) >= MinRows
  /\ LET dates == {d \in LogDates : d <= SystemDate}
     IN  \E from, to \in dates, lead \in Leads :
           LET m == [batch |-> log.batch, from |-> from, to |-> to, lead |-> lead]
           IN  /\ \A d \in dates : from <= d /\ d <= to
               /\ TrainCount(m) >= MinTrain
               /\ models' = Append(models, m)
  /\ UNCHANGED <<zone, uploads, log>>

Next == Upload \/ UploadFails \/ Retrain

Spec == Init /\ [][Next]_vars

Trained == {models[i] : i \in DOMAIN models}

-----------------------------------------------------------------------------
(* forecast_cache *)

\* Variant: the rows are dated from the end of the training part on.
ForwardLabelsFromTraining(m) ==
  {l \in {LastTrained(m) + 7 * k : k \in 1..Steps} : l > LastTrained(m)}

\* The labels that are forecast, but for those up to the end of the training.
ForwardLabels(m) ==
  {l \in {LastLabel(m) + 7 * k : k \in 1..Steps} : l > LastTrained(m)}

\* Stored as a midnight of Manila.
ForwardDate(l) == ReadDate(l)

\* get_forecast goes on from the training part, the only one that the model was fitted
\* to; its values are stored at the dates after the last week of all, which lie
\* later by the length of the test part.
Forward(m) ==
  {[label |-> l, date |-> ForwardDate(l), of |-> l - (LastLabel(m) - LastTrained(m)),
    ahead |-> Cardinality({x \in ForwardLabels(m) : x <= l})] : l \in ForwardLabels(m)}

\* Variant: the rows are numbered from the oldest on.
BacktestNumberUp(i) == i + 1

\* -(4 - i)
BacktestNumber(i) == i - Trailing

\* The last of the test weeks.  Their dates are stored without a time zone and
\* read back as they are; their actual numbers are those of the last weeks of all.
Backtest(m) ==
  LET size  == IF Cardinality(Test(m)) < Trailing THEN Cardinality(Test(m)) ELSE Trailing
      label(i) == LastLabel(m) - 7 * (size - 1 - i)
  IN  {[label |-> label(i), date |-> label(i), of |-> label(i),
        ahead |-> BacktestNumber(i),
        actual |-> LastLabel(m) - 7 * (Trailing - 1 - i)] : i \in 0..(size - 1)}

Cache(m) == Forward(m) \cup Backtest(m)

-----------------------------------------------------------------------------
(* The dashboards *)

\* validation_lookup: the label in the validation graph is parsed back into a date.
Overlay(m, date) == {l \in Test(m) : ParseLabel(GraphLabel(l)) = date}

\* Points of /api/forecast-graph: each actual with its overlay, and then the
\* predictions of the dates that are not among the actuals (404 if there are none).
GraphForward(m) == {p \in Forward(m) : p.date \notin LogDates}

\* /api/forecast-outlook: all rows of the cache.
CriticalWeeks(m) == Cache(m)

\* The years of the snapshot, from the column "Generation Date"; the weeks are those of
\* the first column with "date" in its name.  Taken to be one column here.
AvailableYears(m) == {Year(d) : d \in uploads[m.batch]}

\* Variant: the rows are not filtered by their batch.
YearViewOfAll(m, y) == {b \in log.weeks : Year(ReadDate(b)) = y}

\* /api/business-analytics with a year: the weeks of the model's batch in the log.
YearView(m, y) == {b \in log.weeks : log.batch = m.batch /\ Year(ReadDate(b)) = y}

-----------------------------------------------------------------------------
(* Calendars *)

Least(S) == CHOOSE n \in S : \A x \in S : n <= x

Greatest(S) == CHOOSE n \in S : \A x \in S : x <= n

Week(first) == first..(first + 6)

HasLongWeekend(days, calendar) == days \cap LongWeekend(calendar) # {}

\* Variant: a day less.
IngestCalendarShort == (Least(log.weeks) - 7)..(Greatest(log.weeks) + 6)

IngestCalendar == (Least(log.weeks) - 7)..(Greatest(log.weeks) + 7)

\* Step 1 extends the calendar by LEAD_SEARCH_MAX + FORECAST_HORIZON + 4 weeks.
PipelineCalendar(m) == m.from..(m.to + 7 * (8 + 16 + 4))

ForecastCalendar(m) == (LastLabel(m) + 7)..(LastLabel(m) + 7 * Steps + 6)

\* The feature of a week of the data: its days among those of the export.
TrainDays(m, l) == {n \in (l - 6)..l : m.from <= n /\ n <= m.to}

\* holiday_lead: the intensity of the week that begins `lead` weeks after the label.
HolidayLead(m, l) == Intensity(Week(l + 7 * m.lead), PipelineCalendar(m))

-----------------------------------------------------------------------------
(* Properties *)

\* Sorted by date, as every dashboard reads it, the cache is in the order of its numbers:
\* the backtest from below zero, then the forecast from 1 to Steps.  A row of the
\* backtest has the actual number of its own week, and the number that counts back
\* from the last week, if and only if there are as many test weeks as rows.
CacheInOrder ==
  \A m \in Trained :
    /\ \A p, x \in Cache(m) : p.date < x.date <=> p.ahead < x.ahead
    /\ {p.ahead : p \in Forward(m)} = 1..Steps
    /\ \A p \in Backtest(m) :
         /\ p.ahead < 0
         /\ p.actual = p.of <=> Cardinality(Test(m)) >= Trailing
         /\ Cardinality(Test(m)) >= Trailing => p.label = LastLabel(m) + 7 * (p.ahead + 1)

\* The graph shows a test prediction at the week it is of, or not at all: the weeks of
\* the log are Mondays only if the database session is in UTC, and otherwise no
\* prediction is shown at any of them.
OverlayNeedsUtc ==
  \A m \in Trained : \A b \in log.weeks :
    Overlay(m, ReadDate(b)) =
      IF zone = "utc" THEN {Label(ReadDate(b))} \cap Test(m) ELSE {}

\* As long as the log is the one a model was trained on, no forecast in its graph is dated
\* to a week that has an actual number, in either time zone, except for weeks that
\* step 1 has dropped because they begin after the system date.
ForecastsFollowTheirData ==
  \A m \in Trained : log.batch = m.batch =>
    \A p \in GraphForward(m), b \in log.weeks :
      p.label <= Label(ReadDate(b)) => ReadDate(b) > SystemDate

\* Each calendar is cut off at some days, and yet the flags it gives are those of all
\* days: in an upload, in the forecast, and in the data but for one week, the
\* last one (Manila), of which step 1 sees the Tuesday only, or the first (UTC),
\* of which it sees the Monday.
CalendarsAgree ==
  /\ \A b \in log.weeks :
       HasLongWeekend(Week(b), IngestCalendar) <=> \E n \in Week(b) : IsLongWeekend(n)
  /\ \A m \in Trained :
       LET calendar == LongWeekend(PipelineCalendar(m))
           edge == IF zone = "utc" THEN FirstLabel(m) ELSE LastLabel(m)
       IN  /\ \A l \in Labels(m) \ {edge} :
                TrainDays(m, l) \cap calendar # {} <=> \E n \in Week(l - 6) : IsLongWeekend(n)
           /\ \A l \in ForwardLabels(m) :
                /\ HasLongWeekend(Week(l), ForecastCalendar(m))
                     <=> \E n \in Week(l) : IsLongWeekend(n)
                /\ LET w == l + 7 * m.lead
                   IN  HolidayLead(m, l) = Intensity(Week(w), (w - 1)..(w + 7))

\* The year views of a model never show a week of another dataset than its own, and while
\* the log is its own they show every week of it, except for one around New Year
\* that has no booking in the year it is dated to.
YearViewsAreOfTheDataset ==
  \A m \in Trained :
    LET shown == UNION {YearView(m, y) : y \in AvailableYears(m)}
    IN  /\ shown \subseteq {Bucket(d) : d \in uploads[m.batch]}
        /\ log.batch = m.batch =>
             \A b \in log.weeks \ shown : Year(ReadDate(b)) + 1 = Year(b + 6)

-----------------------------------------------------------------------------
(* Why the properties hold: the inductive invariant *)

WeekDay == IF zone = "utc" THEN 0 ELSE 1

LogOfWeeks ==
  /\ \A b \in log.weeks : b % 7 = 1
  /\ log.weeks # {} =>
       \E first, last \in log.weeks : \A b \in log.weeks : first <= b /\ b <= last

LogIsAnUpload ==
  log.weeks # {} =>
    log.batch \in DOMAIN uploads /\ log.weeks = {Bucket(d) : d \in uploads[log.batch]}

ModelsOfWeeks ==
  \A m \in Trained :
    /\ m.from % 7 = WeekDay /\ m.to % 7 = WeekDay /\ m.from <= m.to
    /\ TrainCount(m) >= MinTrain

\* A batch is never reused, and while the log is a model's own its export spans every
\* week up to the system date.
ModelsSpanTheirLog ==
  \A m \in Trained :
    /\ m.batch \in DOMAIN uploads
    /\ log.weeks # {} /\ log.batch = m.batch =>
         \A d \in LogDates : d <= SystemDate => m.from <= d /\ d <= m.to

ForecastsInv == TypeOK /\ LogOfWeeks /\ LogIsAnUpload /\ ModelsOfWeeks /\ ModelsSpanTheirLog

-----------------------------------------------------------------------------
(* What the documentation says and the outlook does not keep *)

\* api/schemas.py, critical_weeks: "all 12 forward weeks"; step 6: "FUTURE FORECAST".
\* What the outlook shows are predictions of the weeks after the last one.
OutlookIsForward ==
  \A m \in Trained :
    {p.of : p \in CriticalWeeks(m)} = {LastLabel(m) + 7 * k : k \in 1..Steps}
=============================================================================

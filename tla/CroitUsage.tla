----------------------------- MODULE CroitUsage -----------------------------
(***************************************************************************)
(* GB-day metering of the Ceph S3 plugin (plugins/ceph-s3, reporting.py):  *)
(* every pass integrates the storage series of the month again, with gaps  *)
(* where the statistics were down, and submits the figure; a past month is *)
(* integrated once more after it ended.                                    *)
(***************************************************************************)
EXTENDS Integers, Sequences, FiniteSets

CONSTANTS MonthTicks,   \* samples of a month; the model runs for two months
          MaxHeld,      \* bound: what the user may hold
          MaxOutages    \* bound: changes of the state of the statistics

VARIABLES tick,       \* the current sample time, 1 .. 2 * MonthTicks + 1
          held,       \* what the user holds
          statsUp,    \* the statistics are recorded
          readable,   \* the series can be read
          samples,    \* [tick -> reading, or NoReading]
          submitted,  \* [month -> figure in Waldur, -1 for none]
          outages

cuvars == <<tick, held, statsUp, readable, samples, submitted, outages>>
NoReading == -1
Months == {1, 2}
First(m) == (m - 1) * MonthTicks + 1
PeriodEnd(m) == m * MonthTicks + 1
ThisMonth == IF tick <= MonthTicks THEN 1 ELSE 2

MeterTypeOK ==
    /\ tick \in 1 .. 2 * MonthTicks + 1 /\ held \in 0 .. MaxHeld /\ submitted \in [Months -> Int]
    /\ DOMAIN samples = 1 .. tick - 1 /\ \A t \in DOMAIN samples : samples[t] \in 0 .. MaxHeld \cup {NoReading}

MeterInit ==
    /\ tick = 1 /\ held \in 0 .. MaxHeld /\ statsUp \in BOOLEAN /\ readable \in BOOLEAN /\ samples = <<>>
    /\ submitted = [m \in Months |-> -1] /\ outages = 0

\* time passes: a reading is taken, and the user stores or deletes
TimePasses ==
    /\ tick <= 2 * MonthTicks /\ tick' = tick + 1
    /\ samples' = Append(samples, IF statsUp THEN held ELSE NoReading) /\ held' \in 0 .. MaxHeld
    /\ UNCHANGED <<statsUp, readable, submitted, outages>>

\* the statistics stop or return, and so does the API
StatisticsChange ==
    /\ outages < MaxOutages /\ outages' = outages + 1
    /\ \/ statsUp' = ~statsUp /\ UNCHANGED readable
       \/ readable' = ~readable /\ UNCHANGED statsUp
    /\ UNCHANGED <<tick, held, samples, submitted>>

\* get_user_storage_series: the points of the window up to the last reading;
\* those in between without one are null
Series(m, end) ==
    LET known == {t \in First(m) .. end - 1 : t \in DOMAIN samples /\ samples[t] # NoReading}
        last == IF known = {} THEN First(m) - 1 ELSE CHOOSE t \in known : \A u \in known : u <= t
    IN [k \in 1 .. last - First(m) + 1 |-> [t |-> First(m) + k - 1, v |-> samples[First(m) + k - 1]]]

\* _is_measurable
IsMeasurable(points) == Len(points) >= 2 /\ \E k \in DOMAIN points : points[k].v # NoReading

\* a null reading carries the previous one
Carried(last, v) == IF v = NoReading THEN last ELSE v

\* the last reading spans one interval at most, and not past the period
Closing(points, end) ==
    LET n == Len(points)
        step == points[n].t - points[n - 1].t
    IN IF points[n].t + step < end THEN points[n].t + step ELSE end

\* _integrate_gb_days
IntegrateGbDays(points, end) ==
    LET n == Len(points)
        upTo(k) == IF k < n THEN points[k + 1].t ELSE Closing(points, end)
        area[k \in 0 .. n] ==
            IF k = 0 THEN [total |-> 0, last |-> 0]
            ELSE LET v == Carried(area[k - 1].last, points[k].v)
                 IN [total |-> area[k - 1].total + v * (upTo(k) - points[k].t), last |-> v]
    IN area[n].total

\* _apply_usage_policy: what cannot be measured leaves the figure of Waldur
ApplyUsagePolicy(m, end) ==
    IF readable /\ IsMeasurable(Series(m, end)) THEN IntegrateGbDays(Series(m, end), end) ELSE submitted[m]

\* a pass: the current month up to now, or the past month with both ends pinned
ReportsUsage(m) ==
    /\ m <= ThisMonth /\ submitted' = [submitted EXCEPT ![m] = ApplyUsagePolicy(m, IF m = ThisMonth THEN tick ELSE PeriodEnd(m))]
    /\ UNCHANGED <<tick, held, statsUp, readable, samples, outages>>

MeterNext == TimePasses \/ StatisticsChange \/ \E m \in Months : ReportsUsage(m)

(***************************************************************************)
(* Properties.                                                             *)
(***************************************************************************)
\* The figure of a month never drops, whatever was down when it was computed
\* again: an outage submits nothing instead of less (_apply_usage_policy,
\* _integrate_gb_days).
AccrualNeverDrops == \A m \in Months : submitted'[m] >= submitted[m]

\* The reading in force at t: the last one taken by then in its month.
InForce(m, t) ==
    LET known == {u \in First(m) .. t : samples[u] # NoReading}
    IN IF known = {} THEN 0 ELSE samples[CHOOSE u \in known : \A w \in known : w <= u]

Sum(m, to) ==
    LET upTo[t \in 0 .. to] == IF t = 0 THEN 0 ELSE InForce(m, t) + upTo[t - 1]
    IN  upTo[to]

\* When the first month is over, could be measured, and the series can be
\* read, its figure becomes what was held: every interval at the reading in
\* force, up to one interval after the last reading (get_usage_report_for_period).
MonthSettled ==
    tick > MonthTicks /\ readable /\ IsMeasurable(Series(1, PeriodEnd(1))) =>
       submitted[1] = Sum(1, Series(1, PeriodEnd(1))[Len(Series(1, PeriodEnd(1)))].t)
=============================================================================

---------------------------- MODULE UsageReports ----------------------------
(***************************************************************************)
(* Usage of one resource on its way to Waldur: the report processor        *)
(* (common/processors.py), the report of each API key                      *)
(* (common/resource_api_keys.py) and the staff tool that loads past months *)
(* (common/historical_usage_loader.py).  The calendar moves on between any *)
(* two calls, usage arrives late or is corrected downwards, calls fail and *)
(* the agent restarts.  Amounts are in hundredths, the unit Waldur keeps.  *)
(***************************************************************************)
EXTENDS Integers, Sequences, FiniteSets

CONSTANTS Components,        \* component types of the offering
          Periods,           \* reporting_periods
          DaysPerMonth,
          FinalReportDays,   \* api_key_final_report_days
          MaxDay, MaxUse,    \* bounds
          MaxMishaps         \* bound: failed calls, restarts, corrections and loads

VARIABLES day,         \* days since the first month began
          used,        \* the backend's figures, per month and component
          filed,       \* Waldur's figures: the amount and the month it was measured in
          parts,       \* Waldur's per-user breakdown of a figure
          pass,        \* the running report of the resource
          loader,      \* the running load of a past month
          keyUsed,     \* the backend's usage of the API key, per month
          keyFiled,    \* the key's figures in Waldur
          keyPeriod,   \* the latest month Waldur holds for the key
          takesClosed, \* Waldur takes reports for a closed month
          omit,        \* omit_anomalous_usage_components
          sent,        \* _final_reports of this process
          uses, mishaps

uvars == <<day, used, filed, parts, pass, loader, keyUsed, keyFiled, keyPeriod, takesClosed, omit, sent,
           uses, mishaps>>
world == <<used, keyUsed, uses>>
totals == <<filed, parts>>
keyState == <<keyFiled, keyPeriod, sent>>
settings == <<takesClosed, omit>>

Month == day \div DaysPerMonth
Months == 0 .. (MaxDay \div DaysPerMonth)
Figure == [amount : Nat, of : Months]
None == [amount |-> -1, of |-> 0]

ReportParameters ==
    /\ {DaysPerMonth, Periods} \subseteq Nat \ {0}
    /\ {FinalReportDays, MaxDay, MaxUse, MaxMishaps} \subseteq Nat

NoReport == [pc |-> "idle", pre |-> 0, now |-> 0, of |-> 0, usage |-> <<>>, detailed |-> FALSE,
             todo |-> <<>>, user |-> <<>>, seen |-> <<>>, omitted |-> {}, amount |-> 0]
NoLoad == [pc |-> "never"]   \* the tool has not been run
Loaded == [pc |-> "ended"]

ReportTypeOK ==
    /\ day \in 0 .. MaxDay
    /\ used \in [Months -> [Components -> Nat]] /\ keyUsed \in [Months -> Nat]
    /\ \A m \in Months, c \in Components :
          filed[m][c] \in Figure \cup {None} /\ (filed[m][c] = None => parts[m][c] = -1)
    /\ \A m \in Months : sent[m] \in Nat \cup {-1, -2} /\ keyFiled[m] \in Figure \cup {None}

ReportInit ==
    /\ day = 0 /\ used = [m \in Months |-> [c \in Components |-> 0]]
    /\ filed = [m \in Months |-> [c \in Components |-> None]]
    /\ parts = [m \in Months |-> [c \in Components |-> -1]]
    /\ pass = NoReport /\ loader = NoLoad
    /\ keyUsed = [m \in Months |-> 0] /\ keyFiled = [m \in Months |-> None] /\ keyPeriod = 0
    /\ takesClosed \in BOOLEAN /\ omit \in BOOLEAN /\ sent = [m \in Months |-> -1]
    /\ uses = 0 /\ mishaps = 0

Mishap == mishaps < MaxMishaps /\ mishaps' = mishaps + 1

(***************************************************************************)
(* The calendar and the backend.                                           *)
(***************************************************************************)
NextDay ==
    /\ day < MaxDay /\ day' = day + 1
    /\ UNCHANGED <<world, totals, pass, loader, keyState, settings, mishaps>>

\* usage through the key, dated this month or, on the month's first days,
\* the last minutes of the month before
Use(c) ==
    /\ uses < MaxUse /\ uses' = uses + 1
    /\ \E m \in {Month} \cup IF day % DaysPerMonth < FinalReportDays THEN {Month - 1} \cap Months ELSE {} :
          used' = [used EXCEPT ![m][c] = @ + 1] /\ keyUsed' = [keyUsed EXCEPT ![m] = @ + 1]
    /\ UNCHANGED <<day, totals, pass, loader, keyState, settings, mishaps>>

\* the backend takes usage back
Correct(m, c) ==
    /\ Mishap
    /\ used[m][c] > 0 /\ used' = [used EXCEPT ![m][c] = @ - 1]
    /\ UNCHANGED <<day, totals, pass, loader, keyUsed, keyState, settings, uses>>

(***************************************************************************)
(* The report of the resource.                                             *)
(***************************************************************************)
\* process_offering reaches the resource, and every retry starts here again
Start ==
    /\ pass = NoReport
    /\ pass' = [NoReport EXCEPT !.pc = "pull", !.pre = Month]
    /\ UNCHANGED <<day, world, totals, loader, keyState, settings, mishaps>>

\* pull_resource: the backend answers for the month it is in
PullResource ==
    /\ pass.pc = "pull"
    /\ \/ \E detailed \in BOOLEAN :
             pass' = [pass EXCEPT !.pc = "check", !.usage = used[Month], !.of = Month,
                                  !.detailed = detailed]
       \/ pass' = NoReport   \* missing in the backend
    /\ UNCHANGED <<day, world, totals, loader, keyState, settings, mishaps>>

ComputeReportingPeriods(m) ==
    LET first == IF m >= Periods - 1 THEN m - Periods + 1 ELSE 0
    IN  [i \in 1 .. (m - first + 1) |-> first + i - 1]

\* a mutant: the month is read once, after the pull
RetrieveOnce ==
    /\ pass.pc = "check"
    /\ pass' = [pass EXCEPT !.pc = "period", !.pre = 0, !.now = Month,
                            !.todo = ComputeReportingPeriods(Month)]
    /\ UNCHANGED <<day, world, totals, loader, keyState, settings, mishaps>>

\* the resource is read again; a month that turned meanwhile drops the report
Retrieve ==
    /\ pass.pc = "check"
    /\ pass' = IF Month # pass.pre THEN NoReport
               ELSE [pass EXCEPT !.pc = "period", !.pre = 0, !.now = Month,
                                 !.todo = ComputeReportingPeriods(Month)]
    /\ UNCHANGED <<day, world, totals, loader, keyState, settings, mishaps>>

\* after the last period come the API keys
NextPeriod == IF Len(pass.todo) = 1 THEN [NoReport EXCEPT !.pc = "keys"]
              ELSE [pass EXCEPT !.pc = "period", !.todo = Tail(@), !.user = <<>>, !.seen = <<>>, !.omitted = {}]

\* components below the figure read from Waldur, among those that count
CheckUsageAnomaly(counted) == {c \in counted : pass.seen[c] # None /\ pass.user[c] < pass.seen[c].amount}

UsageMatchesExisting(comps) == \A c \in comps : pass.seen[c].amount = pass.user[c]

Updated(figures, usage, of, comps) ==
    [c \in Components |-> IF c \in comps THEN [amount |-> usage[c], of |-> of] ELSE figures[c]]

\* the current month takes the usage pulled, a past one asks the backend; then
\* the figures that Waldur holds for the period are read
ProcessResourcePeriod ==
    /\ pass.pc = "period"
    /\ LET m == Head(pass.todo)
           usage == IF m = pass.now THEN pass.usage ELSE used[m]
       IN  pass' = IF m # pass.now /\ usage = [c \in Components |-> 0]
                   THEN NextPeriod   \* no historical data
                   ELSE [pass EXCEPT !.pc = "compare", !.user = usage, !.seen = filed[m]]
    /\ UNCHANGED <<day, world, totals, loader, keyState, settings, mishaps>>

\* the breakdown follows the total
Follow(seen, anomalous) ==
    IF ~pass.detailed THEN NextPeriod
    ELSE [pass EXCEPT !.pc = "users", !.seen = seen, !.omitted = anomalous]

\* a mutant: a decrease goes out as well
CompareUsageAny ==
    /\ pass.pc = "compare"
    /\ pass' = IF UsageMatchesExisting(Components) THEN Follow(pass.seen, {})
               ELSE [pass EXCEPT !.pc = "submit"]
    /\ UNCHANGED <<day, world, totals, loader, keyState, settings, mishaps>>

\* _submit_total_usage_for_resource, up to the call: figures without a
\* breakdown, which is read now, must not decrease
CompareUsage ==
    /\ pass.pc = "compare"
    /\ LET m == Head(pass.todo) IN
       \E counted \in {Components, {c \in Components : parts[m][c] = -1}} :
       LET anomalous == CheckUsageAnomaly(counted)
           comps == Components \ anomalous
       IN  pass' = IF anomalous # {} /\ ~(omit /\ comps # {})
                   THEN IF m = pass.now THEN NoReport ELSE NextPeriod   \* UsageAnomalyError
                   ELSE IF UsageMatchesExisting(comps) THEN Follow(pass.seen, anomalous)
                   ELSE [pass EXCEPT !.pc = "submit", !.omitted = anomalous]
    /\ UNCHANGED <<day, world, totals, loader, keyState, settings, mishaps>>

\* set_usage, whatever Waldur holds by now
SubmitTotalUsage ==
    /\ pass.pc = "submit"
    /\ LET m == Head(pass.todo)
           of == IF m = pass.now THEN pass.of ELSE m
           comps == Components \ pass.omitted
       IN  /\ filed' = [filed EXCEPT ![m] = Updated(@, pass.user, of, comps)]
           /\ pass' = Follow(filed'[m], pass.omitted)
    /\ UNCHANGED <<day, world, parts, loader, keyState, settings, mishaps>>

\* a mutant: omitted components stay in the breakdown
SubmitUserUsagesAll ==
    /\ pass.pc = "users"
    /\ LET m == Head(pass.todo) IN
       parts' = [parts EXCEPT ![m] = [c \in Components |->
                    IF filed[m][c] # None THEN pass.user[c] ELSE @[c]]]
    /\ pass' = NextPeriod
    /\ UNCHANGED <<day, world, filed, loader, keyState, settings, mishaps>>

\* set_user_usages, one call for each component Waldur holds
SubmitUserUsages ==
    /\ pass.pc = "users"
    /\ LET m == Head(pass.todo) IN
       parts' = [parts EXCEPT ![m] = [c \in Components |->
                    IF filed[m][c] # None /\ c \notin pass.omitted THEN pass.user[c] ELSE @[c]]]
    /\ pass' = NextPeriod
    /\ UNCHANGED <<day, world, filed, loader, keyState, settings, mishaps>>

\* a call fails: a past period is skipped, the current one raises and the
\* resource is tried again from the start; the totals may have been filed
ReportFails ==
    /\ Mishap
    /\ pass.pc \in {"pull", "check", "period", "compare", "submit", "users"}
    /\ pass' = IF pass.pc \notin {"pull", "check"} /\ Head(pass.todo) # pass.now
               THEN NextPeriod ELSE NoReport
    /\ UNCHANGED <<day, world, totals, loader, keyState, settings>>

\* the process starts anew and remembers no final report
ReportRestarts ==
    /\ Mishap
    /\ pass' = NoReport /\ sent' = [m \in Months |-> -1]
    /\ UNCHANGED <<day, world, totals, loader, keyFiled, keyPeriod, settings>>

(***************************************************************************)
(* The report of the API key.                                              *)
(***************************************************************************)
\* the month before, while its final report is due
PreviousMonth == IF day % DaysPerMonth < FinalReportDays THEN {Month - 1} \cap Months ELSE {}

\* the final figure goes out unless it is zero, held, sent or refused (-2)
ReportPreviousMonth(m) ==
    IF \/ keyUsed[m] = 0 \/ sent[m] \in {keyUsed[m], -2}
       \/ keyPeriod = m /\ keyFiled[m].amount = keyUsed[m]
    THEN UNCHANGED keyState
    ELSE IF m >= keyPeriod \/ takesClosed
    THEN /\ keyFiled' = [keyFiled EXCEPT ![m] =
                            IF m = keyPeriod \/ keyUsed[m] > @.amount
                            THEN [amount |-> keyUsed[m], of |-> m] ELSE @]
         /\ sent' = [sent EXCEPT ![m] = keyUsed[m]]
         /\ UNCHANGED keyPeriod
    ELSE sent' = [sent EXCEPT ![m] = -2] /\ UNCHANGED <<keyFiled, keyPeriod>>

\* the month is read and the month before goes first
ReportApiKeyUsages ==
    /\ pass.pc = "keys"
    /\ pass' = [NoReport EXCEPT !.pc = "collect", !.now = Month]
    /\ \/ IF PreviousMonth = {} THEN UNCHANGED <<keyState, mishaps>>
          ELSE (\A m \in PreviousMonth : ReportPreviousMonth(m)) /\ UNCHANGED mishaps
       \/ Mishap /\ UNCHANGED keyState
    /\ UNCHANGED <<day, world, totals, loader, settings>>

\* the backend answers for the month it is in
CollectKeyUsage ==
    /\ pass.pc = "collect"
    /\ \/ pass' = [pass EXCEPT !.pc = "keysend", !.amount = keyUsed[Month], !.of = Month]
          /\ UNCHANGED mishaps
       \/ Mishap /\ pass' = NoReport
    /\ UNCHANGED <<day, world, totals, loader, keyState, settings>>

\* the report names its month, and is dropped when the month turned
SendKeyUsage ==
    /\ pass.pc = "keysend"
    /\ pass' = NoReport
    /\ \/ /\ IF \/ Month # pass.now
                \/ keyPeriod = pass.now /\ keyFiled[pass.now].amount = pass.amount
             THEN UNCHANGED <<keyFiled, keyPeriod>>
             ELSE /\ keyFiled' = [keyFiled EXCEPT ![pass.now] =
                                     [amount |-> pass.amount, of |-> pass.of]]
                  /\ keyPeriod' = pass.now
          /\ UNCHANGED mishaps
       \/ Mishap /\ UNCHANGED <<keyFiled, keyPeriod>>
    /\ UNCHANGED <<day, world, totals, loader, sent, settings>>

(***************************************************************************)
(* The staff tool, on one month.                                           *)
(***************************************************************************)
\* load_historical_usage_for_month asks the backend for the month
LoadMonth(m, reconcile) ==
    /\ loader \in {NoLoad, Loaded} /\ Mishap
    /\ m <= Month
    /\ loader' = IF used[m] = [c \in Components |-> 0] /\ ~reconcile THEN Loaded
                 ELSE [pc |-> "total", month |-> m, usage |-> used[m], reconcile |-> reconcile]
    /\ UNCHANGED <<day, world, totals, pass, keyState, settings>>

\* the totals, zeros only where the resource is absent from the report
SubmitResourceUsage ==
    /\ loader.pc = "total"
    /\ LET absent == \A c \in Components : loader.usage[c] = 0
       IN  filed' = [filed EXCEPT ![loader.month] =
                        Updated(@, loader.usage, loader.month,
                                IF absent THEN Components ELSE {c \in Components : loader.usage[c] > 0})]
    /\ \E skip_user_usage \in BOOLEAN :
          loader' = IF skip_user_usage THEN Loaded ELSE [loader EXCEPT !.pc = "users"]
    /\ UNCHANGED <<day, world, parts, pass, keyState, settings, mishaps>>

ReconcileStale(part) == IF part > 0 THEN 0 ELSE part

\* the user's figures; reconciling, a user absent from the report gets zero
SubmitUserUsage ==
    /\ loader.pc = "users"
    /\ LET m == loader.month
           absent == \A c \in Components : loader.usage[c] = 0
       IN  parts' = [parts EXCEPT ![m] = [c \in Components |->
                        IF absent THEN ReconcileStale(@[c])
                        ELSE IF loader.usage[c] > 0 /\ filed[m][c] # None THEN loader.usage[c] ELSE @[c]]]
    /\ loader' = Loaded
    /\ UNCHANGED <<day, world, filed, pass, keyState, settings, mishaps>>

\* one resource's submission fails, which ends its month
LoadFails ==
    /\ loader \notin {NoLoad, Loaded}
    /\ loader' = Loaded
    /\ UNCHANGED <<day, world, totals, pass, keyState, settings, mishaps>>

PassStep ==
    \/ Start \/ PullResource \/ Retrieve \/ ProcessResourcePeriod \/ CompareUsage
    \/ SubmitTotalUsage \/ SubmitUserUsages
    \/ ReportApiKeyUsages \/ CollectKeyUsage \/ SendKeyUsage

ReportNext ==
    \/ NextDay
    \/ \E c \in Components : Use(c) \/ \E m \in Months : Correct(m, c)
    \/ PassStep \/ ReportFails \/ ReportRestarts
    \/ \E m \in Months, reconcile \in BOOLEAN : LoadMonth(m, reconcile)
    \/ SubmitResourceUsage \/ SubmitUserUsage \/ LoadFails

(***************************************************************************)
(* Properties.                                                             *)
(***************************************************************************)
\* Usage is filed under the month it was measured in, for the resource and
\* for its keys, though the month may turn between any two calls of a report
\* (_process_resource, report_api_key_usages).
RightMonth ==
    \A m \in Months :
       /\ \A c \in Components : filed[m][c].amount # -1 => filed[m][c].of = m
       /\ keyFiled[m].amount # -1 => keyFiled[m].of = m

\* A report lowers no figure without a breakdown that Waldur holds: a decrease
\* is an anomaly (_check_usage_anomaly). The check is made on figures read
\* before: only one that the staff tool replaced since then can be lowered.
NeverLowered ==
    loader' = loader =>
       \A m \in Months, c \in Components :
          filed'[m][c].amount < filed[m][c].amount =>
             parts[m][c] # -1 \/ filed[m][c] # pass.seen[c]

\* A breakdown the report files adds up to the total Waldur holds: the
\* components left out of the total are left out of it too
\* (_process_resource_period). Only a total that the staff tool replaced after
\* the report read or filed it is another one.
BreakdownAddsUp ==
    pass.pc = "users" /\ loader' = loader =>
       \A m \in Months, c \in Components :
          parts'[m][c] # parts[m][c] =>
             parts'[m][c] = filed[m][c].amount \/ filed[m][c] # pass.seen[c]

Blocked(m, c) ==
    IF omit THEN used[m][c] < filed[m][c].amount
    ELSE \E d \in Components : used[m][d] < filed[m][d].amount

\* Nothing of the current month can be filed, and its report ends before the
\* API keys (UsageAnomalyError in _process_resource).
Halted == \A c \in Components : Blocked(Month, c)

\* What was used in the reported months reaches Waldur in the end, late
\* records, failed calls and restarts notwithstanding, but for what a
\* decrease blocks; the key's usage of the closed month too, where Waldur
\* takes it and the report comes so far (_compute_reporting_periods,
\* _report_previous_month).
UsageFiled ==
    LET m == Month IN
    /\ \A i \in (m - Periods + 1 .. m) \cap Months, c \in Components :
          Blocked(i, c) \/ used[i][c] \in {filed[i][c].amount, 0}
    /\ \A i \in {m} \cup PreviousMonth :
          takesClosed /\ ~Halted => keyUsed[i] \in {keyFiled[i].amount, 0}

(***************************************************************************)
(* Inductive invariant, for the proofs.                                    *)
(***************************************************************************)
Amounts == [Components -> Nat]
Passes == [pc : {"idle", "pull", "check", "period", "compare", "submit", "users", "keys", "collect",
                 "keysend"},
           pre : Nat, now : Nat, of : Nat, usage : Amounts \cup {<<>>}, detailed : BOOLEAN,
           todo : Seq(Months), user : Amounts \cup {<<>>},
           seen : [Components -> Figure \cup {None}] \cup {<<>>}, omitted : SUBSET Components,
           amount : Nat]
Figures == [Months -> [Components -> Figure \cup {None}]]
KeyFigures == [Months -> Figure \cup {None}]
Breakdowns == [Months -> [Components -> Nat \cup {-1}]]
Loads == [pc : {"total", "users"}, month : Months, usage : Amounts, reconcile : BOOLEAN]

ReportTypes ==
    /\ day \in 0 .. MaxDay /\ used \in [Months -> Amounts] /\ keyUsed \in [Months -> Nat]
    /\ filed \in Figures /\ parts \in Breakdowns /\ keyFiled \in KeyFigures /\ keyPeriod \in Months
    /\ sent \in [Months -> Nat \cup {-1, -2}]
    /\ pass \in Passes /\ loader \in {NoLoad, Loaded} \cup Loads

\* a breakdown is held only for a figure that is
BrokenDownIsFiled ==
    \A m \in Months, c \in Components : filed[m][c] = None => parts[m][c] = -1

\* The months a report read, in the order it read them: what was pulled is of
\* no month before the first reading, and the second one agrees with it.
ReadInOrder ==
    /\ pass.pc = "pull" => pass.pre <= Month
    /\ pass.pc = "check" => pass.pre <= pass.of /\ pass.of <= Month /\ pass.usage \in Amounts
    /\ pass.pc \in {"period", "compare", "submit", "users"} =>
          pass.of = pass.now /\ pass.now \in Months /\ pass.usage \in Amounts /\ Len(pass.todo) > 0
    /\ pass.pc \in {"compare", "submit", "users"} =>
          pass.user \in Amounts /\ pass.seen \in [Components -> Figure \cup {None}]
    /\ pass.pc = "collect" => pass.now <= Month
    /\ pass.pc = "keysend" => pass.now <= pass.of /\ pass.of <= Month

\* what is about to go out is no decrease of a figure read without a breakdown
CheckedFirst ==
    pass.pc = "submit" =>
       \A c \in Components \ pass.omitted :
          parts[Head(pass.todo)][c] = -1 => pass.seen[c].amount <= pass.user[c]

\* before its breakdown goes out, a total is what the breakdown is of, but for
\* the components left out of both
TotalFirst ==
    pass.pc = "users" => \A c \in Components \ pass.omitted : pass.seen[c].amount = pass.user[c]

ReportInv == ReportTypes /\ BrokenDownIsFiled /\ ReadInOrder /\ CheckedFirst /\ TotalFirst /\ RightMonth
=============================================================================

-------------------------- MODULE MC_Agent_proofs --------------------------
(***************************************************************************)
(* The promises of MC_Agent, for every value of the constants: how many    *)
(* log shippers, entries, groups, months, components and failures there    *)
(* may be. The components come first, one after the other, then the        *)
(* promises they make together.                                            *)
(***************************************************************************)
EXTENDS MC_Agent, FiniteSetTheorems, SequenceTheorems, WellFoundedInduction, TLAPS

-----------------------------------------------------------------------------
(* The calendar, the months of a report and the sequences it keeps.          *)

\* Days that follow each other are in months that do.
LEMMA DivMono == ASSUME NEW d \in Nat \ {0}, NEW a \in Nat, NEW b \in Nat, a <= b
                 PROVE /\ a \div d \in Nat /\ b \div d \in Nat
                       /\ a \div d <= b \div d
<1>1. a \div d \in Nat /\ d * (a \div d) <= a
  OBVIOUS
<1>2. b \div d \in Nat /\ b < d * (b \div d) + d
  OBVIOUS
<1>3. a \div d <= b \div d
  <2> DEFINE p == a \div d
  <2> DEFINE q == b \div d
  <2>1. p \in Nat /\ q \in Nat /\ d * p < d * q + d
    BY <1>1, <1>2
  <2> HIDE DEF p, q
  <2>2. SUFFICES ASSUME p >= q + 1 PROVE FALSE
    BY <2>1 DEF p, q
  <2>3. PICK k \in Nat : p = q + 1 + k
    <3>1. p - q - 1 \in Nat /\ p = q + 1 + (p - q - 1)
      BY <2>1, <2>2
    <3> QED BY <3>1
  <2>4. d * p = d * q + d + d * k /\ d * k >= 0
    BY <2>1, <2>3
  <2> QED BY <2>1, <2>4
<1> QED BY <1>1, <1>2, <1>3

\* The current month is one of the months, and so is every month before it.
LEMMA MonthFacts ==
    Usage!ReportTypes =>
       /\ Usage!Month \in Nat /\ Usage!Month \in Usage!Months
       /\ Usage!Months \subseteq Nat /\ 0 \in Usage!Months
       /\ \A k \in Nat : k <= Usage!Month => k \in Usage!Months
<1> SUFFICES ASSUME Usage!ReportTypes
             PROVE  /\ Usage!Month \in Nat /\ Usage!Month \in Usage!Months
                    /\ Usage!Months \subseteq Nat /\ 0 \in Usage!Months
                    /\ \A k \in Nat : k <= Usage!Month => k \in Usage!Months
  OBVIOUS
<1>1. DaysPerMonth \in Nat \ {0} /\ day \in Nat /\ MaxDay \in Nat /\ day <= MaxDay
  BY Parameters DEF Usage!ReportParameters, Usage!ReportTypes
<1>2. Usage!Month \in Nat /\ MaxDay \div DaysPerMonth \in Nat
         /\ Usage!Month <= MaxDay \div DaysPerMonth
  BY <1>1, DivMono DEF Usage!Month
<1> QED BY <1>2 DEF Usage!Months

\* The periods of a report are months, and there is at least one
\* (_compute_reporting_periods).
LEMMA PeriodsFacts ==
    ASSUME Usage!ReportTypes, NEW m \in Usage!Months
    PROVE  Usage!ComputeReportingPeriods(m) \in Seq(Usage!Months)
              /\ Len(Usage!ComputeReportingPeriods(m)) > 0
<1> DEFINE first == IF m >= Periods - 1 THEN m - Periods + 1 ELSE 0
<1>1. m \in Nat /\ Periods \in Nat \ {0}
  BY MonthFacts, Parameters DEF Usage!ReportParameters
<1>2. first \in Nat /\ first <= m
  BY <1>1
<1>3. \A k \in Nat : k <= m => k \in Usage!Months
  <2>1. MaxDay \div DaysPerMonth \in Nat
    BY Parameters, DivMono DEF Usage!ReportParameters
  <2> QED BY <1>1, <2>1 DEF Usage!Months
<1> HIDE DEF first
<1>4. Usage!ComputeReportingPeriods(m) = [i \in 1 .. (m - first + 1) |-> first + i - 1]
  BY DEF Usage!ComputeReportingPeriods, first
<1>5. \A i \in 1 .. (m - first + 1) : first + i - 1 \in Usage!Months
  BY <1>1, <1>2, <1>3
<1>6. m - first + 1 \in Nat /\ m - first + 1 > 0
  BY <1>1, <1>2
<1> QED BY <1>4, <1>5, <1>6

\* No report is a report.
LEMMA IdleFacts == Usage!NoReport \in Usage!Passes /\ Usage!NoReport.pc = "idle"
BY DEF Usage!NoReport, Usage!Passes

\* What Head and Tail return for the periods still to be reported.
LEMMA TailFacts == ASSUME NEW S, NEW s \in Seq(S), Len(s) > 0
                   PROVE  /\ Head(s) \in S
                          /\ Len(s) # 1 => Tail(s) \in Seq(S) /\ Len(Tail(s)) > 0
<1>1. s # <<>> /\ Len(s) \in Nat
  OBVIOUS
<1>2. Head(s) \in S /\ Tail(s) \in Seq(S) /\ Len(Tail(s)) = Len(s) - 1
  BY <1>1, HeadTailProperties
<1> QED BY <1>1, <1>2

\* After a period a report goes on to the next one, with the same usage, or to the
\* API keys.
LEMMA NextPeriodFacts ==
    ASSUME pass \in Usage!Passes, Len(pass.todo) > 0
    PROVE  /\ Usage!NextPeriod \in Usage!Passes
           /\ \/ Usage!NextPeriod.pc = "keys"
              \/ /\ Usage!NextPeriod.pc = "period" /\ Len(Usage!NextPeriod.todo) > 0
                 /\ Usage!NextPeriod.of = pass.of /\ Usage!NextPeriod.now = pass.now
                 /\ Usage!NextPeriod.usage = pass.usage
<1>1. CASE Len(pass.todo) = 1
  <2>1. Usage!NextPeriod = [Usage!NoReport EXCEPT !.pc = "keys"]
    BY <1>1 DEF Usage!NextPeriod
  <2>2. [Usage!NoReport EXCEPT !.pc = "keys"] \in Usage!Passes
           /\ [Usage!NoReport EXCEPT !.pc = "keys"].pc = "keys"
    BY IdleFacts DEF Usage!Passes
  <2> QED BY <2>1, <2>2
<1>2. CASE Len(pass.todo) # 1
  <2>1. Tail(pass.todo) \in Seq(Usage!Months) /\ Len(Tail(pass.todo)) > 0
    <3>1. pass.todo \in Seq(Usage!Months)
      BY DEF Usage!Passes
    <3> QED BY <1>2, <3>1, TailFacts
  <2>2. Usage!NextPeriod = [pass EXCEPT !.pc = "period", !.todo = Tail(@), !.user = <<>>,
                                     !.seen = <<>>, !.omitted = {}]
    BY <1>2 DEF Usage!NextPeriod
  <2> QED BY <2>1, <2>2 DEF Usage!Passes
<1> QED BY <1>1, <1>2

-----------------------------------------------------------------------------
(* The calendar and the backend.                                             *)

\* The invariant holds initially.
LEMMA InitInv == Usage!ReportInit => Usage!ReportInv
<1> SUFFICES ASSUME Usage!ReportInit PROVE Usage!ReportInv
  OBVIOUS
<1>1. Usage!ReportTypes
  BY Parameters, IdleFacts DEF Usage!ReportInit, Usage!ReportTypes, Usage!ReportParameters,
     Usage!Months, Usage!Amounts, Usage!Figures, Usage!KeyFigures, Usage!Breakdowns
<1>2. Usage!BrokenDownIsFiled /\ Usage!ReadInOrder /\ Usage!CheckedFirst /\ Usage!TotalFirst
         /\ Usage!RightMonth
  BY IdleFacts DEF Usage!ReportInit, Usage!BrokenDownIsFiled, Usage!ReadInOrder,
     Usage!CheckedFirst, Usage!TotalFirst, Usage!RightMonth, Usage!None
<1> QED BY <1>1, <1>2 DEF Usage!ReportInv

\* A new day: months only go forward, so what was read stays in order.
LEMMA NextDayInv == Usage!ReportInv /\ Usage!NextDay => Usage!ReportInv'
<1> SUFFICES ASSUME Usage!ReportInv, Usage!NextDay PROVE Usage!ReportInv'
  OBVIOUS
<1> USE DEF Usage!NextDay, Usage!world, Usage!totals, Usage!keyState, Usage!settings
<1>1. Usage!ReportTypes'
  BY Parameters DEF Usage!ReportParameters, Usage!ReportInv, Usage!ReportTypes
<1>2. Usage!Month <= Usage!Month' /\ Usage!Month \in Nat /\ Usage!Month' \in Nat
  <2>1. DaysPerMonth \in Nat \ {0} /\ day \in Nat /\ day' \in Nat /\ day <= day'
    BY Parameters DEF Usage!ReportParameters, Usage!ReportInv, Usage!ReportTypes
  <2> QED BY <2>1, DivMono DEF Usage!Month
<1>4. Usage!ReadInOrder'
  BY <1>2 DEF Usage!ReportInv, Usage!ReportTypes, Usage!Passes, Usage!ReadInOrder
<1>5. Usage!BrokenDownIsFiled' /\ Usage!CheckedFirst' /\ Usage!TotalFirst' /\ Usage!RightMonth'
  BY DEF Usage!ReportInv, Usage!BrokenDownIsFiled,
     Usage!CheckedFirst, Usage!TotalFirst, Usage!RightMonth
<1> QED BY <1>1, <1>4, <1>5 DEF Usage!ReportInv

\* Usage arrives, for this month or late for the one before.
LEMMA UseInv == ASSUME Usage!ReportInv, NEW c \in Components, Usage!Use(c)
                PROVE  Usage!ReportInv'
<1> USE DEF Usage!totals, Usage!keyState, Usage!settings
<1>1. PICK m \in Usage!Months : used' = [used EXCEPT ![m][c] = @ + 1]
         /\ keyUsed' = [keyUsed EXCEPT ![m] = @ + 1]
  BY MonthFacts DEF Usage!Use, Usage!ReportInv
<1>2. Usage!ReportTypes'
  <2>1. used' \in [Usage!Months -> Usage!Amounts] /\ keyUsed' \in [Usage!Months -> Nat]
    BY <1>1 DEF Usage!ReportInv, Usage!ReportTypes, Usage!Amounts
  <2> QED BY <2>1 DEF Usage!Use, Usage!ReportInv, Usage!ReportTypes
<1>3. Usage!BrokenDownIsFiled' /\ Usage!ReadInOrder'
         /\ Usage!CheckedFirst' /\ Usage!TotalFirst' /\ Usage!RightMonth'
  BY DEF Usage!Use, Usage!ReportInv, Usage!BrokenDownIsFiled, Usage!ReadInOrder,
     Usage!CheckedFirst, Usage!TotalFirst, Usage!RightMonth, Usage!Month
<1> QED BY <1>2, <1>3 DEF Usage!ReportInv

\* The backend takes usage back.
LEMMA CorrectInv ==
    ASSUME Usage!ReportInv, NEW m \in Usage!Months, NEW c \in Components, Usage!Correct(m, c)
    PROVE  Usage!ReportInv'
<1> USE DEF Usage!totals, Usage!keyState, Usage!settings
<1>2. Usage!ReportTypes'
  <2>1. used' \in [Usage!Months -> Usage!Amounts]
    BY DEF Usage!Correct, Usage!ReportInv, Usage!ReportTypes, Usage!Amounts
  <2> QED BY <2>1 DEF Usage!Correct, Usage!ReportInv, Usage!ReportTypes
<1>3. Usage!BrokenDownIsFiled' /\ Usage!ReadInOrder'
         /\ Usage!CheckedFirst' /\ Usage!TotalFirst' /\ Usage!RightMonth'
  BY DEF Usage!Correct, Usage!ReportInv, Usage!BrokenDownIsFiled, Usage!ReadInOrder,
     Usage!CheckedFirst, Usage!TotalFirst, Usage!RightMonth, Usage!Month
<1> QED BY <1>2, <1>3 DEF Usage!ReportInv

-----------------------------------------------------------------------------
(* The report of the resource.                                               *)

\* A report begins and reads the month.
LEMMA StartInv == ASSUME Usage!ReportInv, Usage!Start PROVE Usage!ReportInv'
<1>1. pass' \in Usage!Passes /\ pass'.pc = "pull" /\ pass'.pre = Usage!Month
  BY IdleFacts, MonthFacts DEF Usage!Start, Usage!ReportInv, Usage!Passes
<1>2. Usage!ReportTypes'
  BY <1>1 DEF Usage!Start, Usage!ReportInv, Usage!ReportTypes, Usage!world, Usage!totals,
     Usage!keyState, Usage!settings
<1>3. Usage!ReadInOrder'
  BY <1>1, MonthFacts DEF Usage!Start, Usage!ReportInv, Usage!ReadInOrder, Usage!Month
<1>4. Usage!BrokenDownIsFiled' /\ Usage!CheckedFirst' /\ Usage!TotalFirst' /\ Usage!RightMonth'
  BY <1>1 DEF Usage!Start, Usage!ReportInv, Usage!BrokenDownIsFiled,
     Usage!CheckedFirst, Usage!TotalFirst,
     Usage!RightMonth, Usage!totals, Usage!keyState
<1> QED BY <1>2, <1>3, <1>4 DEF Usage!ReportInv

\* The usage pulled is of a month no earlier than the one read (pull_resource).
LEMMA PullResourceInv == ASSUME Usage!ReportInv, Usage!PullResource PROVE Usage!ReportInv'
<1> USE DEF Usage!world, Usage!totals, Usage!keyState, Usage!settings
<1>1. \/ pass' = Usage!NoReport
      \/ /\ pass' \in Usage!Passes /\ pass'.pc = "check" /\ pass'.usage \in Usage!Amounts
         /\ pass'.of = Usage!Month
         /\ pass'.pre = pass.pre
  <2>1. CASE pass' = Usage!NoReport
    BY <2>1
  <2>2. CASE pass' # Usage!NoReport
    <3>1. PICK detailed \in BOOLEAN :
             pass' = [pass EXCEPT !.pc = "check", !.usage = used[Usage!Month],
                 !.of = Usage!Month,
                                  !.detailed = detailed]
      BY <2>2 DEF Usage!PullResource
    <3>2. used[Usage!Month] \in Usage!Amounts /\ Usage!Month \in Nat /\ pass \in Usage!Passes
      BY MonthFacts DEF Usage!ReportInv, Usage!ReportTypes
    <3> QED BY <3>1, <3>2 DEF Usage!Passes
  <2> QED BY <2>1, <2>2
<1>2. pass' \in Usage!Passes /\ pass'.pc \in {"idle", "check"}
  BY <1>1, IdleFacts
<1>3. Usage!ReportTypes'
  BY <1>2 DEF Usage!PullResource, Usage!ReportInv, Usage!ReportTypes
<1>4. Usage!ReadInOrder'
  <2>1. Usage!Month \in Nat /\ Usage!Month' = Usage!Month
    BY MonthFacts DEF Usage!PullResource, Usage!ReportInv, Usage!Month
  <2>2. pass.pre <= Usage!Month
    BY DEF Usage!PullResource, Usage!ReportInv, Usage!ReadInOrder
  <2> QED BY <1>1, <2>1, <2>2, IdleFacts DEF Usage!ReadInOrder
<1>5. Usage!BrokenDownIsFiled' /\ Usage!CheckedFirst' /\ Usage!TotalFirst' /\ Usage!RightMonth'
  BY <1>2 DEF Usage!PullResource, Usage!ReportInv, Usage!BrokenDownIsFiled,
     Usage!CheckedFirst, Usage!TotalFirst,
     Usage!RightMonth
<1> QED BY <1>3, <1>4, <1>5 DEF Usage!ReportInv

\* The month read again is the one read first, so the usage is of that month
\* (_process_resource).
LEMMA RetrieveInv == ASSUME Usage!ReportInv, Usage!Retrieve PROVE Usage!ReportInv'
<1> USE DEF Usage!world, Usage!totals, Usage!keyState, Usage!settings
<1>0. Usage!Month \in Usage!Months /\ Usage!Month \in Nat /\ pass \in Usage!Passes
  BY MonthFacts DEF Usage!ReportInv, Usage!ReportTypes
<1>1. \/ pass' = Usage!NoReport
      \/ /\ pass' \in Usage!Passes /\ pass'.pc = "period" /\ pass'.usage \in Usage!Amounts
         /\ pass'.of = Usage!Month
         /\ pass'.now = Usage!Month /\ Len(pass'.todo) > 0
  <2>1. CASE Usage!Month # pass.pre
    BY <2>1 DEF Usage!Retrieve
  <2>2. CASE Usage!Month = pass.pre
    <3>1. pass' = [pass EXCEPT !.pc = "period", !.pre = 0, !.now = Usage!Month,
                               !.todo = Usage!ComputeReportingPeriods(Usage!Month)]
      BY <2>2 DEF Usage!Retrieve
    <3>2. Usage!ComputeReportingPeriods(Usage!Month) \in Seq(Usage!Months)
             /\ Len(Usage!ComputeReportingPeriods(Usage!Month)) > 0
      BY <1>0, PeriodsFacts DEF Usage!ReportInv
    <3>3. pass.of = Usage!Month /\ pass.usage \in Usage!Amounts
      BY <1>0, <2>2 DEF Usage!Retrieve, Usage!ReportInv, Usage!ReadInOrder, Usage!Passes
    <3> QED BY <1>0, <3>1, <3>2, <3>3 DEF Usage!Passes
  <2> QED BY <2>1, <2>2
<1>2. pass' \in Usage!Passes /\ pass'.pc \in {"idle", "period"}
  BY <1>1, IdleFacts
<1>3. Usage!ReportTypes'
  BY <1>2 DEF Usage!Retrieve, Usage!ReportInv, Usage!ReportTypes
<1>4. Usage!ReadInOrder'
  BY <1>0, <1>1, IdleFacts DEF Usage!ReadInOrder
<1>5. Usage!BrokenDownIsFiled' /\ Usage!CheckedFirst' /\ Usage!TotalFirst' /\ Usage!RightMonth'
  BY <1>2 DEF Usage!Retrieve, Usage!ReportInv, Usage!BrokenDownIsFiled,
     Usage!CheckedFirst, Usage!TotalFirst,
     Usage!RightMonth
<1> QED BY <1>3, <1>4, <1>5 DEF Usage!ReportInv

\* Going on to the next period keeps the invariant.
LEMMA NextPeriodInv ==
    ASSUME Usage!ReportInv, pass.pc \in {"period", "compare", "submit", "users"}, pass' = Usage!NextPeriod,
           UNCHANGED <<day, loader>>
    PROVE  pass' \in Usage!Passes /\ Usage!ReadInOrder' /\ Usage!CheckedFirst' /\ Usage!TotalFirst'
<1>1. pass \in Usage!Passes /\ Len(pass.todo) > 0 /\ pass.of = pass.now
         /\ pass.now \in Usage!Months /\ pass.usage \in Usage!Amounts
  BY DEF Usage!ReportInv, Usage!ReportTypes, Usage!ReadInOrder
<1>2. /\ pass' \in Usage!Passes
      /\ \/ pass'.pc = "keys"
         \/ /\ pass'.pc = "period" /\ Len(pass'.todo) > 0
            /\ pass'.of = pass.of /\ pass'.now = pass.now /\ pass'.usage = pass.usage
  BY <1>1, NextPeriodFacts
<1>3. Usage!ReadInOrder'
  BY <1>1, <1>2 DEF Usage!ReadInOrder
<1>4. Usage!CheckedFirst' /\ Usage!TotalFirst'
  BY <1>2 DEF Usage!CheckedFirst, Usage!TotalFirst
<1> QED BY <1>2, <1>3, <1>4

\* Figures of a month are filed for the month they are of (set_usage).
Files(m, usage, comps) ==
    filed' = [filed EXCEPT ![m] = Usage!Updated(filed[m], usage, m, comps)]

\* What a total that is filed leaves in Waldur.
LEMMA SetUsageFacts ==
    ASSUME Usage!ReportInv, NEW m \in Usage!Months, NEW usage \in Usage!Amounts,
           NEW comps \in SUBSET Components,
           Files(m, usage, comps)
    PROVE  /\ filed' \in Usage!Figures
           /\ \A n \in Usage!Months, c \in Components :
                 filed'[n][c] =
                    IF n = m /\ c \in comps THEN [amount |-> usage[c], of |-> m] ELSE filed[n][c]
<1> DEFINE new == Usage!Updated(filed[m], usage, m, comps)
<1>1. filed' = [filed EXCEPT ![m] = new]
  BY DEF Files
<1>2. filed \in Usage!Figures
  BY DEF Usage!ReportInv, Usage!ReportTypes
<1>3. \A c \in Components : [amount |-> usage[c], of |-> m] \in Usage!Figure
  BY DEF Usage!Amounts, Usage!Figure
<1>4. new \in [Components -> Usage!Figure \cup {Usage!None}]
  BY <1>2, <1>3 DEF Usage!Figures, Usage!Updated
<1>5. \A c \in Components :
         new[c] = IF c \in comps THEN [amount |-> usage[c], of |-> m] ELSE filed[m][c]
  BY DEF Usage!Updated
<1> HIDE DEF new
<1>6. filed' \in Usage!Figures
  BY <1>1, <1>2, <1>4 DEF Usage!Figures
<1>7. \A n \in Usage!Months : filed'[n] = IF n = m THEN new ELSE filed[n]
  BY <1>1, <1>2 DEF Usage!Figures
<1> QED BY <1>5, <1>6, <1>7

\* A total filed for the month it is of keeps the figures right.
LEMMA FiledInv ==
    ASSUME Usage!ReportInv, NEW m \in Usage!Months, NEW usage \in Usage!Amounts,
           NEW comps \in SUBSET Components, Files(m, usage, comps),
           UNCHANGED <<parts, keyFiled>>
    PROVE  /\ filed' \in Usage!Figures
           /\ Usage!BrokenDownIsFiled' /\ Usage!RightMonth'
<1>1. /\ filed' \in Usage!Figures
      /\ \A n \in Usage!Months, c \in Components :
            filed'[n][c] =
               IF n = m /\ c \in comps THEN [amount |-> usage[c], of |-> m] ELSE filed[n][c]
  BY SetUsageFacts
<1>2. \A c \in Components : usage[c] \in Nat
  BY DEF Usage!Amounts
<1>3. ASSUME NEW n \in Usage!Months, NEW c \in Components
      PROVE  /\ filed'[n][c] = Usage!None => filed[n][c] = Usage!None
             /\ filed'[n][c].amount # -1 => filed'[n][c].of = n
  <2>1. filed[n][c].amount # -1 => filed[n][c].of = n
    BY DEF Usage!ReportInv, Usage!RightMonth
  <2>2. [amount |-> usage[c], of |-> m] # Usage!None
    BY <1>2 DEF Usage!None
  <2>3. CASE n = m /\ c \in comps
    <3>1. filed'[n][c] = [amount |-> usage[c], of |-> m]
      BY <1>1, <2>3
    <3>2. [amount |-> usage[c], of |-> m].of = m
      OBVIOUS
    <3> QED BY <2>2, <2>3, <3>1, <3>2
  <2>4. CASE ~(n = m /\ c \in comps)
    BY <1>1, <2>1, <2>4
  <2> QED BY <2>3, <2>4
<1>4. Usage!BrokenDownIsFiled' /\ Usage!RightMonth'
  BY <1>3 DEF Usage!ReportInv, Usage!BrokenDownIsFiled, Usage!RightMonth
<1> QED BY <1>1, <1>4

\* What a report holds of the period it is at.
LEMMA PeriodFacts ==
    ASSUME Usage!ReportInv, pass.pc \in {"period", "compare", "submit", "users"}
    PROVE  /\ pass \in Usage!Passes /\ Head(pass.todo) \in Usage!Months /\ Len(pass.todo) > 0
           /\ pass.of = pass.now /\ pass.now \in Usage!Months /\ pass.usage \in Usage!Amounts
           /\ pass.omitted \in SUBSET Components
           /\ pass.pc # "period" =>
                 pass.user \in Usage!Amounts
                    /\ pass.seen \in [Components -> Usage!Figure \cup {Usage!None}]
           /\ used[Head(pass.todo)] \in Usage!Amounts
           /\ filed[Head(pass.todo)] \in [Components -> Usage!Figure \cup {Usage!None}]
<1>1. /\ pass \in Usage!Passes /\ pass.of = pass.now /\ pass.now \in Usage!Months
      /\ pass.usage \in Usage!Amounts /\ Len(pass.todo) > 0
      /\ used \in [Usage!Months -> Usage!Amounts] /\ filed \in Usage!Figures
  BY DEF Usage!ReportInv, Usage!ReportTypes, Usage!ReadInOrder
<1>2. pass.pc # "period" =>
         pass.user \in Usage!Amounts
            /\ pass.seen \in [Components -> Usage!Figure \cup {Usage!None}]
  BY DEF Usage!ReportInv, Usage!ReadInOrder
<1>3. pass.todo \in Seq(Usage!Months) /\ pass.omitted \in SUBSET Components
  BY <1>1 DEF Usage!Passes
<1>4. Head(pass.todo) \in Usage!Months
  BY <1>1, <1>3, TailFacts
<1>5. /\ used[Head(pass.todo)] \in Usage!Amounts
      /\ filed[Head(pass.todo)] \in [Components -> Usage!Figure \cup {Usage!None}]
  BY <1>1, <1>4 DEF Usage!Figures
<1> QED BY <1>1, <1>2, <1>3, <1>4, <1>5

\* A report that goes on with its period keeps the invariant if what it holds does.
LEMMA PassInv ==
    ASSUME Usage!ReportInv,
           UNCHANGED <<day, used, keyUsed, filed, parts, loader, keyFiled, keyPeriod, sent>>,
           pass' \in Usage!Passes, Usage!ReadInOrder', Usage!CheckedFirst', Usage!TotalFirst'
    PROVE  Usage!ReportInv'
<1>1. Usage!ReportTypes'
  BY DEF Usage!ReportInv, Usage!ReportTypes
<1>2. Usage!BrokenDownIsFiled' /\ Usage!RightMonth'
  BY DEF Usage!ReportInv, Usage!BrokenDownIsFiled, Usage!RightMonth
<1> QED BY <1>1, <1>2 DEF Usage!ReportInv

\* The figures of a period are read, or there are none and the next one follows
\* (_process_resource_period).
LEMMA ProcessResourcePeriodInv ==
    ASSUME Usage!ReportInv, Usage!ProcessResourcePeriod
    PROVE  Usage!ReportInv'
<1> DEFINE m == Head(pass.todo)
<1>1. /\ pass \in Usage!Passes /\ m \in Usage!Months /\ pass.of = pass.now
      /\ pass.now \in Usage!Months /\ Len(pass.todo) > 0
      /\ pass.usage \in Usage!Amounts /\ used[m] \in Usage!Amounts
      /\ filed[m] \in [Components -> Usage!Figure \cup {Usage!None}]
  BY PeriodFacts DEF Usage!ProcessResourcePeriod
<1>2. /\ pass.pc = "period"
      /\ UNCHANGED <<day, used, keyUsed, filed, parts, loader, keyFiled, keyPeriod, sent>>
      /\ \/ pass' = Usage!NextPeriod
         \/ \E u \in {pass.usage, used[m]} :
               pass' = [pass EXCEPT !.pc = "compare", !.user = u, !.seen = filed[m]]
  BY DEF Usage!ProcessResourcePeriod, Usage!world, Usage!totals, Usage!keyState
<1>3. CASE pass' = Usage!NextPeriod
  <2>1. pass' \in Usage!Passes /\ Usage!ReadInOrder' /\ Usage!CheckedFirst' /\ Usage!TotalFirst'
    BY <1>2, <1>3, NextPeriodInv
  <2> QED BY <1>2, <2>1, PassInv
<1>4. ASSUME NEW u \in {pass.usage, used[m]},
             pass' = [pass EXCEPT !.pc = "compare", !.user = u, !.seen = filed[m]]
      PROVE  Usage!ReportInv'
  <2> DEFINE fm == filed[m]
  <2>1. u \in Usage!Amounts /\ fm \in [Components -> Usage!Figure \cup {Usage!None}]
           /\ pass' = [pass EXCEPT !.pc = "compare", !.user = u, !.seen = fm]
    BY <1>1, <1>4
  <2> HIDE DEF fm, m
  <2>2. /\ pass' \in Usage!Passes /\ pass'.pc = "compare" /\ pass'.user = u /\ pass'.seen = fm
        /\ pass'.todo = pass.todo /\ pass'.of = pass.of /\ pass'.now = pass.now
        /\ pass'.usage = pass.usage
    BY <1>1, <2>1 DEF Usage!Passes
  <2>3. Usage!ReadInOrder' /\ Usage!CheckedFirst' /\ Usage!TotalFirst'
    BY <1>1, <2>1, <2>2 DEF Usage!ReadInOrder, Usage!CheckedFirst, Usage!TotalFirst
  <2> QED BY <1>2, <2>2, <2>3, PassInv
<1> QED BY <1>2, <1>3, <1>4

\* The breakdown follows a total that it is of.
LEMMA FollowFacts ==
    ASSUME Usage!ReportInv, pass.pc \in {"compare", "submit"}, UNCHANGED <<day, loader>>,
           NEW s \in [Components -> Usage!Figure \cup {Usage!None}], NEW a \in SUBSET Components,
           \A c \in Components \ a : s[c].amount = pass.user[c],
           pass' = Usage!Follow(s, a)
    PROVE  pass' \in Usage!Passes /\ Usage!ReadInOrder' /\ Usage!CheckedFirst'
              /\ Usage!TotalFirst'
<1>1. CASE pass' = Usage!NextPeriod
  BY <1>1, NextPeriodInv
<1>2. CASE pass' = [pass EXCEPT !.pc = "users", !.seen = s, !.omitted = a]
  <2>1. /\ pass \in Usage!Passes /\ pass.of = pass.now /\ pass.now \in Usage!Months
        /\ Len(pass.todo) > 0 /\ pass.usage \in Usage!Amounts /\ pass.user \in Usage!Amounts
    BY PeriodFacts
  <2>2. /\ pass' \in Usage!Passes /\ pass'.pc = "users" /\ pass'.todo = pass.todo
        /\ pass'.user = pass.user /\ pass'.seen = s /\ pass'.omitted = a
        /\ pass'.of = pass.of /\ pass'.now = pass.now /\ pass'.usage = pass.usage
    BY <1>2, <2>1 DEF Usage!Passes
  <2>3. Usage!ReadInOrder'
    BY <2>1, <2>2 DEF Usage!ReadInOrder
  <2>4. Usage!CheckedFirst' /\ Usage!TotalFirst'
    BY <2>2 DEF Usage!CheckedFirst, Usage!TotalFirst
  <2> QED BY <2>2, <2>3, <2>4
<1> QED BY <1>1, <1>2 DEF Usage!Follow

\* The usage is compared with what was read: what goes out decreases no figure
\* read without a breakdown (_submit_total_usage_for_resource).
LEMMA CompareUsageInv ==
    ASSUME Usage!ReportInv, Usage!CompareUsage
    PROVE  Usage!ReportInv'
<1> DEFINE m == Head(pass.todo)
<1>1. /\ pass \in Usage!Passes /\ m \in Usage!Months /\ pass.of = pass.now
      /\ pass.now \in Usage!Months /\ Len(pass.todo) > 0
      /\ pass.usage \in Usage!Amounts /\ pass.user \in Usage!Amounts
      /\ pass.seen \in [Components -> Usage!Figure \cup {Usage!None}]
  BY PeriodFacts DEF Usage!CompareUsage
<1>2. /\ pass.pc = "compare"
      /\ UNCHANGED <<day, used, keyUsed, filed, parts, loader, keyFiled, keyPeriod, sent>>
  BY DEF Usage!CompareUsage, Usage!world, Usage!totals, Usage!keyState
<1>3. PICK counted \in {Components, {c \in Components : parts[m][c] = -1}} :
         LET anomalous == Usage!CheckUsageAnomaly(counted)
             comps == Components \ anomalous
         IN  pass' = IF anomalous # {} /\ ~(omit /\ comps # {})
                     THEN IF m = pass.now THEN Usage!NoReport ELSE Usage!NextPeriod
                     ELSE IF Usage!UsageMatchesExisting(comps)
                     THEN Usage!Follow(pass.seen, anomalous)
                     ELSE [pass EXCEPT !.pc = "submit", !.omitted = anomalous]
  BY DEF Usage!CompareUsage, m
<1> DEFINE anomalous == Usage!CheckUsageAnomaly(counted)
<1>4. \/ pass' \in {Usage!NoReport, Usage!NextPeriod}
      \/ Usage!UsageMatchesExisting(Components \ anomalous)
            /\ pass' = Usage!Follow(pass.seen, anomalous)
      \/ pass' = [pass EXCEPT !.pc = "submit", !.omitted = anomalous]
  BY <1>3
<1>5. anomalous \in SUBSET Components
  BY DEF Usage!CheckUsageAnomaly
<1>6. \A c \in Components \ anomalous :
         parts[m][c] = -1 => pass.seen[c] = Usage!None \/ ~(pass.user[c] < pass.seen[c].amount)
  BY DEF Usage!CheckUsageAnomaly
<1> HIDE DEF anomalous, m
<1>7. pass' \in Usage!Passes /\ Usage!ReadInOrder' /\ Usage!CheckedFirst' /\ Usage!TotalFirst'
  <2>1. CASE pass' = Usage!NoReport
    BY <2>1, IdleFacts DEF Usage!ReadInOrder, Usage!CheckedFirst, Usage!TotalFirst
  <2>2. CASE pass' = Usage!NextPeriod
    BY <1>2, <2>2, NextPeriodInv
  <2>3. CASE Usage!UsageMatchesExisting(Components \ anomalous)
             /\ pass' = Usage!Follow(pass.seen, anomalous)
    <3>1. \A c \in Components \ anomalous : pass.seen[c].amount = pass.user[c]
      BY <2>3 DEF Usage!UsageMatchesExisting
    <3> QED BY <1>1, <1>2, <1>5, <2>3, <3>1, FollowFacts
  <2>4. CASE pass' = [pass EXCEPT !.pc = "submit", !.omitted = anomalous]
    <3>1. /\ pass' \in Usage!Passes /\ pass'.pc = "submit" /\ pass'.todo = pass.todo
          /\ pass'.user = pass.user /\ pass'.seen = pass.seen /\ pass'.omitted = anomalous
          /\ pass'.of = pass.of /\ pass'.now = pass.now /\ pass'.usage = pass.usage
      BY <1>1, <1>5, <2>4 DEF Usage!Passes
    <3>2. Usage!ReadInOrder'
      BY <1>1, <3>1 DEF Usage!ReadInOrder
    <3>3. ASSUME NEW c \in Components \ anomalous, parts[m][c] = -1
          PROVE  pass.seen[c].amount <= pass.user[c]
      <4>1. pass.user[c] \in Nat /\ pass.seen[c].amount \in Int
               /\ (pass.seen[c] = Usage!None => pass.seen[c].amount = -1)
        BY <1>1 DEF Usage!Amounts, Usage!Figure, Usage!None
      <4>2. pass.seen[c] = Usage!None \/ ~(pass.user[c] < pass.seen[c].amount)
        BY <1>6, <3>3
      <4> QED BY <4>1, <4>2
    <3>4. Usage!CheckedFirst'
      BY <1>2, <3>1, <3>3 DEF Usage!CheckedFirst, m
    <3>5. Usage!TotalFirst'
      BY <3>1 DEF Usage!TotalFirst
    <3> QED BY <3>1, <3>2, <3>4, <3>5
  <2> QED BY <1>4, <2>1, <2>2, <2>3, <2>4
<1> QED BY <1>2, <1>7, PassInv

\* The total goes out, whatever Waldur holds by now: it lowers a figure without a
\* breakdown only where that is no longer the one that was read
\* (_submit_total_usage_for_resource).
LEMMA SubmitTotalUsageInv ==
    ASSUME Usage!ReportInv, Usage!SubmitTotalUsage
    PROVE  Usage!ReportInv' /\ Usage!NeverLowered
<1> DEFINE m == Head(pass.todo)
<1> DEFINE comps == Components \ pass.omitted
<1>1. /\ pass \in Usage!Passes /\ m \in Usage!Months /\ pass.of = pass.now
      /\ pass.user \in Usage!Amounts /\ pass.omitted \in SUBSET Components
      /\ pass.seen \in [Components -> Usage!Figure \cup {Usage!None}]
  BY PeriodFacts DEF Usage!SubmitTotalUsage
<1>2. /\ pass.pc = "submit" /\ comps \in SUBSET Components
      /\ UNCHANGED <<day, used, keyUsed, parts, loader, keyFiled, keyPeriod, sent>>
      /\ Files(m, pass.user, comps)
      /\ pass' = Usage!Follow(filed'[m], pass.omitted)
  BY <1>1 DEF Usage!SubmitTotalUsage, Usage!world, Usage!keyState, Files
<1> HIDE DEF comps, m
<1>3. filed' \in Usage!Figures /\ Usage!BrokenDownIsFiled' /\ Usage!RightMonth'
  BY <1>1, <1>2, FiledInv
<1>4. \A n \in Usage!Months, c \in Components :
         filed'[n][c] =
            IF n = m /\ c \in comps THEN [amount |-> pass.user[c], of |-> m] ELSE filed[n][c]
  BY <1>1, <1>2, SetUsageFacts
<1>5. filed'[m] \in [Components -> Usage!Figure \cup {Usage!None}]
  BY <1>1, <1>3 DEF Usage!Figures
<1>6. \A c \in Components \ pass.omitted : filed'[m][c].amount = pass.user[c]
  <2> SUFFICES ASSUME NEW c \in Components \ pass.omitted
               PROVE  filed'[m][c].amount = pass.user[c]
    OBVIOUS
  <2>1. filed'[m][c] = [amount |-> pass.user[c], of |-> m]
    BY <1>1, <1>4 DEF comps
  <2>2. [amount |-> pass.user[c], of |-> m].amount = pass.user[c]
    OBVIOUS
  <2> QED BY <2>1, <2>2
<1>7. pass' \in Usage!Passes /\ Usage!ReadInOrder' /\ Usage!CheckedFirst' /\ Usage!TotalFirst'
  <2> DEFINE s == filed'[m]
  <2>1. /\ s \in [Components -> Usage!Figure \cup {Usage!None}]
        /\ \A c \in Components \ pass.omitted : s[c].amount = pass.user[c]
        /\ pass' = Usage!Follow(s, pass.omitted)
    BY <1>2, <1>5, <1>6
  <2> HIDE DEF s
  <2> QED BY <1>1, <1>2, <2>1, FollowFacts
<1>8. Usage!ReportTypes'
  BY <1>2, <1>3, <1>7 DEF Usage!ReportInv, Usage!ReportTypes
<1>9. Usage!NeverLowered
  <2> SUFFICES ASSUME NEW n \in Usage!Months, NEW c \in Components,
                      parts[n][c] = -1, filed[n][c] = pass.seen[c]
               PROVE  ~(filed'[n][c].amount < filed[n][c].amount)
    BY DEF Usage!NeverLowered
  <2>1. filed[n][c].amount \in Int
    BY DEF Usage!ReportInv, Usage!ReportTypes, Usage!Figure, Usage!None, Usage!Figures
  <2>2. pass.user[c] \in Nat
    BY <1>1 DEF Usage!Amounts
  <2>3. CASE n = m /\ c \in comps
    <3>1. filed'[n][c] = [amount |-> pass.user[c], of |-> m]
      BY <1>4, <2>3
    <3>2. filed'[n][c].amount = pass.user[c]
      BY <3>1
    <3>3. pass.seen[c].amount <= pass.user[c]
      BY <1>2, <2>3 DEF Usage!ReportInv, Usage!CheckedFirst, comps, m
    <3> QED BY <2>1, <2>2, <3>2, <3>3
  <2>4. CASE ~(n = m /\ c \in comps)
    <3>1. filed'[n][c] = filed[n][c]
      BY <1>4, <2>4
    <3> QED BY <2>1, <3>1
  <2> QED BY <2>3, <2>4
<1> QED BY <1>3, <1>7, <1>8, <1>9 DEF Usage!ReportInv

\* What a breakdown that is filed leaves in Waldur.
LEMMA PartsFacts ==
    ASSUME Usage!ReportInv, NEW m \in Usage!Months, NEW new \in [Components -> Nat \cup {-1}],
           parts' = [parts EXCEPT ![m] = new], UNCHANGED filed,
           \A c \in Components : filed[m][c] = Usage!None => new[c] = parts[m][c]
    PROVE  parts' \in Usage!Breakdowns /\ Usage!BrokenDownIsFiled'
<1>1. parts \in Usage!Breakdowns
  BY DEF Usage!ReportInv, Usage!ReportTypes
<1>2. parts' \in Usage!Breakdowns
  BY <1>1 DEF Usage!Breakdowns
<1>3. \A n \in Usage!Months : parts'[n] = IF n = m THEN new ELSE parts[n]
  BY <1>1 DEF Usage!Breakdowns
<1>4. \A n \in Usage!Months, c \in Components : filed[n][c] = Usage!None => parts[n][c] = -1
  BY DEF Usage!ReportInv, Usage!BrokenDownIsFiled
<1>5. \A n \in Usage!Months, c \in Components : filed'[n][c] = Usage!None => parts'[n][c] = -1
  BY <1>3, <1>4
<1> QED BY <1>2, <1>5 DEF Usage!BrokenDownIsFiled

\* The breakdown of a period adds up to the total filed before it
\* (_submit_user_usages).
LEMMA SubmitUserUsagesInv ==
    ASSUME Usage!ReportInv, Usage!SubmitUserUsages
    PROVE  Usage!ReportInv' /\ Usage!BreakdownAddsUp
<1> DEFINE m == Head(pass.todo)
<1> DEFINE new == [c \in Components |-> IF filed[m][c] # Usage!None /\ c \notin pass.omitted
                                       THEN pass.user[c] ELSE parts[m][c]]
<1>1. pass \in Usage!Passes /\ m \in Usage!Months /\ pass.user \in Usage!Amounts
  <2>1. pass \in Usage!Passes /\ pass.user \in Usage!Amounts /\ Len(pass.todo) > 0
    BY DEF Usage!SubmitUserUsages, Usage!ReportInv, Usage!ReportTypes, Usage!ReadInOrder
  <2>2. pass.todo \in Seq(Usage!Months)
    BY <2>1 DEF Usage!Passes
  <2> QED BY <2>1, <2>2, TailFacts
<1>2. /\ pass.pc = "users" /\ pass' = Usage!NextPeriod /\ parts' = [parts EXCEPT ![m] = new]
      /\ UNCHANGED <<day, used, keyUsed, filed, loader, keyFiled, keyPeriod, sent>>
  BY DEF Usage!SubmitUserUsages, Usage!world, Usage!keyState
<1>3. parts \in Usage!Breakdowns
  BY DEF Usage!ReportInv, Usage!ReportTypes
<1>4. new \in [Components -> Nat \cup {-1}]
  BY <1>1, <1>3 DEF Usage!Amounts, Usage!Breakdowns
<1>5. \A c \in Components : new[c] = IF filed[m][c] # Usage!None /\ c \notin pass.omitted
                                     THEN pass.user[c] ELSE parts[m][c]
  OBVIOUS
<1>6. pass' \in Usage!Passes /\ Usage!ReadInOrder' /\ Usage!CheckedFirst' /\ Usage!TotalFirst'
  BY <1>2, NextPeriodInv
<1>7. Usage!RightMonth'
  BY <1>2 DEF Usage!ReportInv, Usage!RightMonth
<1> HIDE DEF new
<1>8. parts' \in Usage!Breakdowns /\ Usage!BrokenDownIsFiled'
  BY <1>1, <1>2, <1>4, <1>5, PartsFacts
<1>9. Usage!ReportTypes'
  BY <1>2, <1>6, <1>8 DEF Usage!ReportInv, Usage!ReportTypes
<1>10. Usage!BreakdownAddsUp
  <2> SUFFICES ASSUME NEW n \in Usage!Months, NEW c \in Components,
                      parts'[n][c] # parts[n][c], filed[n][c] = pass.seen[c]
               PROVE  parts'[n][c] = filed[n][c].amount
    BY DEF Usage!BreakdownAddsUp
  <2>1. n = m /\ parts'[n] = new
    BY <1>1, <1>2, <1>3
  <2>2. filed[m][c] # Usage!None /\ c \notin pass.omitted /\ new[c] = pass.user[c]
    BY <1>5, <2>1
  <2>3. pass.seen[c].amount = pass.user[c]
    BY <1>2, <2>2 DEF Usage!ReportInv, Usage!TotalFirst
  <2> QED BY <2>1, <2>2, <2>3
<1> QED BY <1>6, <1>7, <1>8, <1>9, <1>10 DEF Usage!ReportInv

-----------------------------------------------------------------------------
(* Failures and the report of the API key.                                   *)

\* A report that stops keeps the invariant if the figures of the key are right.
LEMMA StopsInv ==
    ASSUME Usage!ReportInv, pass' = Usage!NoReport, UNCHANGED <<day, used, keyUsed, filed,
           parts, loader>>,
           keyFiled' \in Usage!KeyFigures, keyPeriod' \in Usage!Months,
           sent' \in [Usage!Months -> Nat \cup {-1, -2}],
           \A m \in Usage!Months : keyFiled'[m].amount # -1 => keyFiled'[m].of = m
    PROVE  Usage!ReportInv'
<1>1. Usage!ReportTypes'
  BY IdleFacts DEF Usage!ReportInv, Usage!ReportTypes
<1>2. Usage!BrokenDownIsFiled' /\ Usage!ReadInOrder'
         /\ Usage!CheckedFirst' /\ Usage!TotalFirst' /\ Usage!RightMonth'
  BY IdleFacts DEF Usage!ReportInv, Usage!BrokenDownIsFiled, Usage!ReadInOrder,
     Usage!CheckedFirst, Usage!TotalFirst, Usage!RightMonth
<1> QED BY <1>1, <1>2 DEF Usage!ReportInv

\* A failed call: the report goes on to the next period or stops.
LEMMA ReportFailsInv == ASSUME Usage!ReportInv, Usage!ReportFails PROVE Usage!ReportInv'
<1>1. UNCHANGED <<day, used, keyUsed, filed, parts, loader, keyFiled, keyPeriod, sent>>
  BY DEF Usage!ReportFails, Usage!world, Usage!totals, Usage!keyState
<1>2. /\ keyFiled \in Usage!KeyFigures /\ keyPeriod \in Usage!Months
      /\ sent \in [Usage!Months -> Nat \cup {-1, -2}]
      /\ \A m \in Usage!Months : keyFiled[m].amount # -1 => keyFiled[m].of = m
  BY DEF Usage!ReportInv, Usage!ReportTypes, Usage!RightMonth
<1>3. CASE pass' = Usage!NoReport
  BY <1>1, <1>2, <1>3, StopsInv
<1>4. CASE pass.pc \in {"period", "compare", "submit", "users"} /\ pass' = Usage!NextPeriod
  <2>1. pass' \in Usage!Passes /\ Usage!ReadInOrder' /\ Usage!CheckedFirst' /\ Usage!TotalFirst'
    BY <1>1, <1>4, NextPeriodInv
  <2>2. Usage!ReportTypes' /\ Usage!BrokenDownIsFiled' /\ Usage!RightMonth'
    BY <1>1, <2>1 DEF Usage!ReportInv, Usage!ReportTypes, Usage!BrokenDownIsFiled,
       Usage!RightMonth
  <2> QED BY <2>1, <2>2 DEF Usage!ReportInv
<1> QED BY <1>3, <1>4 DEF Usage!ReportFails

\* A restart forgets the report and what it sent.
LEMMA ReportRestartsInv == ASSUME Usage!ReportInv, Usage!ReportRestarts PROVE Usage!ReportInv'
<1>1. /\ UNCHANGED <<day, used, keyUsed, filed, parts, loader, keyFiled, keyPeriod>>
      /\ pass' = Usage!NoReport /\ sent' = [m \in Usage!Months |-> -1]
  BY DEF Usage!ReportRestarts, Usage!world, Usage!totals
<1>2. /\ keyFiled \in Usage!KeyFigures /\ keyPeriod \in Usage!Months
      /\ \A m \in Usage!Months : keyFiled[m].amount # -1 => keyFiled[m].of = m
  BY DEF Usage!ReportInv, Usage!ReportTypes, Usage!RightMonth
<1>3. sent' \in [Usage!Months -> Nat \cup {-1, -2}]
  BY <1>1
<1> QED BY <1>1, <1>2, <1>3, StopsInv

\* The final report of a key is filed for the month it is of
\* (_report_previous_month).
LEMMA ReportPreviousMonthFacts ==
    ASSUME Usage!ReportInv, NEW m \in Usage!Months, Usage!ReportPreviousMonth(m)
    PROVE  /\ keyFiled' \in Usage!KeyFigures /\ keyPeriod' \in Usage!Months
           /\ sent' \in [Usage!Months -> Nat \cup {-1, -2}]
           /\ \A n \in Usage!Months : keyFiled'[n].amount # -1 => keyFiled'[n].of = n
<1>1. /\ keyFiled \in Usage!KeyFigures /\ keyPeriod \in Usage!Months
      /\ sent \in [Usage!Months -> Nat \cup {-1, -2}] /\ keyUsed[m] \in Nat
      /\ \A n \in Usage!Months : keyFiled[n].amount # -1 => keyFiled[n].of = n
  BY DEF Usage!ReportInv, Usage!ReportTypes, Usage!RightMonth
<1>2. PICK f \in {keyFiled[m], [amount |-> keyUsed[m], of |-> m]},
           k \in {keyUsed[m], -2, sent[m]} :
         keyFiled' = [keyFiled EXCEPT ![m] = f] /\ sent' = [sent EXCEPT ![m] = k]
            /\ keyPeriod' = keyPeriod
  BY <1>1 DEF Usage!ReportPreviousMonth, Usage!keyState, Usage!KeyFigures
<1>3. f \in Usage!Figure \cup {Usage!None} /\ (f.amount # -1 => f.of = m)
  BY <1>1 DEF Usage!Figure, Usage!KeyFigures
<1> QED BY <1>1, <1>2, <1>3 DEF Usage!KeyFigures

\* The report of the key begins and reads the month (report_api_key_usages).
LEMMA ReportApiKeyUsagesInv == ASSUME Usage!ReportInv, Usage!ReportApiKeyUsages
                               PROVE  Usage!ReportInv'
<1>1. /\ UNCHANGED <<day, used, keyUsed, filed, parts, loader>>
      /\ pass' = [Usage!NoReport EXCEPT !.pc = "collect", !.now = Usage!Month]
  BY DEF Usage!ReportApiKeyUsages, Usage!world, Usage!totals
<1>2. Usage!Month \in Nat /\ Usage!Month' = Usage!Month
  BY <1>1, MonthFacts DEF Usage!ReportInv, Usage!Month
<1>3. pass' \in Usage!Passes /\ pass'.pc = "collect" /\ pass'.now = Usage!Month
  BY <1>1, <1>2, IdleFacts DEF Usage!Passes
<1>4. /\ keyFiled' \in Usage!KeyFigures /\ keyPeriod' \in Usage!Months
      /\ sent' \in [Usage!Months -> Nat \cup {-1, -2}]
      /\ \A m \in Usage!Months : keyFiled'[m].amount # -1 => keyFiled'[m].of = m
  <2>1. CASE UNCHANGED Usage!keyState
    BY <2>1 DEF Usage!keyState, Usage!ReportInv, Usage!ReportTypes, Usage!RightMonth
  <2>2. CASE \E m \in Usage!Months : Usage!ReportPreviousMonth(m)
    BY <2>2, ReportPreviousMonthFacts
  <2>3. Usage!PreviousMonth \subseteq Usage!Months
    BY DEF Usage!PreviousMonth
  <2> QED BY <2>1, <2>2, <2>3 DEF Usage!ReportApiKeyUsages
<1>5. Usage!ReportTypes'
  BY <1>1, <1>3, <1>4 DEF Usage!ReportInv, Usage!ReportTypes
<1>6. Usage!BrokenDownIsFiled' /\ Usage!ReadInOrder'
         /\ Usage!CheckedFirst' /\ Usage!TotalFirst' /\ Usage!RightMonth'
  BY <1>1, <1>2, <1>3, <1>4 DEF Usage!ReportInv, Usage!BrokenDownIsFiled, Usage!ReadInOrder,
     Usage!CheckedFirst, Usage!TotalFirst, Usage!RightMonth
<1> QED BY <1>5, <1>6 DEF Usage!ReportInv

\* The key's usage is of a month no earlier than the one read.
LEMMA CollectKeyUsageInv == ASSUME Usage!ReportInv, Usage!CollectKeyUsage
                            PROVE  Usage!ReportInv'
<1>1. /\ UNCHANGED <<day, used, keyUsed, filed, parts, loader, keyFiled, keyPeriod, sent>>
      /\ pass.pc = "collect"
      /\ \/ pass' = [pass EXCEPT !.pc = "keysend", !.amount = keyUsed[Usage!Month],
          !.of = Usage!Month]
         \/ pass' = Usage!NoReport
  BY DEF Usage!CollectKeyUsage, Usage!world, Usage!totals, Usage!keyState
<1>2. CASE pass' = Usage!NoReport
  BY <1>1, <1>2, StopsInv DEF Usage!ReportInv, Usage!ReportTypes, Usage!RightMonth
<1>3. CASE pass' = [pass EXCEPT !.pc = "keysend", !.amount = keyUsed[Usage!Month],
          !.of = Usage!Month]
  <2>1. Usage!Month \in Nat /\ Usage!Month' = Usage!Month /\ Usage!Month \in Usage!Months
    BY <1>1, MonthFacts DEF Usage!ReportInv, Usage!Month
  <2>2. pass \in Usage!Passes /\ pass.now <= Usage!Month /\ keyUsed[Usage!Month] \in Nat
    BY <1>1, <2>1 DEF Usage!ReportInv, Usage!ReportTypes, Usage!ReadInOrder
  <2>3. pass' \in Usage!Passes /\ pass'.pc = "keysend" /\ pass'.now = pass.now
           /\ pass'.of = Usage!Month
    BY <1>3, <2>1, <2>2 DEF Usage!Passes
  <2>4. Usage!ReportTypes'
    BY <1>1, <2>3 DEF Usage!ReportInv, Usage!ReportTypes
  <2>5. Usage!BrokenDownIsFiled' /\ Usage!ReadInOrder' /\ Usage!CheckedFirst' /\ Usage!TotalFirst'
           /\ Usage!RightMonth'
    BY <1>1, <2>1, <2>2, <2>3 DEF Usage!ReportInv, Usage!BrokenDownIsFiled, Usage!ReadInOrder,
       Usage!CheckedFirst, Usage!TotalFirst, Usage!RightMonth
  <2> QED BY <2>4, <2>5 DEF Usage!ReportInv
<1> QED BY <1>1, <1>2, <1>3

\* The report is sent only while the month is still the one read first.
LEMMA SendKeyUsageInv == ASSUME Usage!ReportInv, Usage!SendKeyUsage PROVE Usage!ReportInv'
<1>1. /\ UNCHANGED <<day, used, keyUsed, filed, parts, loader, sent>>
      /\ pass' = Usage!NoReport
      /\ pass.pc = "keysend"
  BY DEF Usage!SendKeyUsage, Usage!world, Usage!totals
<1>2. /\ keyFiled \in Usage!KeyFigures /\ keyPeriod \in Usage!Months
      /\ sent \in [Usage!Months -> Nat \cup {-1, -2}]
      /\ \A m \in Usage!Months : keyFiled[m].amount # -1 => keyFiled[m].of = m
  BY DEF Usage!ReportInv, Usage!ReportTypes, Usage!RightMonth
<1>3. CASE UNCHANGED <<keyFiled, keyPeriod>>
  BY <1>1, <1>2, <1>3, StopsInv
<1>4. CASE /\ Usage!Month = pass.now /\ keyPeriod' = pass.now
           /\ keyFiled' = [keyFiled EXCEPT ![pass.now] = [amount |-> pass.amount,
               of |-> pass.of]]
  <2>1. Usage!Month \in Nat /\ Usage!Month \in Usage!Months /\ pass \in Usage!Passes
    BY MonthFacts DEF Usage!ReportInv, Usage!ReportTypes
  <2>2. pass.of \in Nat /\ pass.now <= pass.of /\ pass.of <= Usage!Month
           /\ pass.amount \in Nat
    BY <1>1, <2>1 DEF Usage!ReportInv, Usage!ReadInOrder, Usage!Passes
  <2>3. pass.of = pass.now /\ pass.now \in Usage!Months
    BY <1>4, <2>1, <2>2
  <2>4. [amount |-> pass.amount, of |-> pass.of] \in Usage!Figure
    BY <2>2, <2>3 DEF Usage!Figure
  <2>5. keyFiled' \in Usage!KeyFigures /\ keyPeriod' \in Usage!Months
    BY <1>2, <1>4, <2>3, <2>4 DEF Usage!KeyFigures
  <2>6. \A m \in Usage!Months : keyFiled'[m].amount # -1 => keyFiled'[m].of = m
    BY <1>2, <1>4, <2>3
  <2> QED BY <1>1, <1>2, <2>5, <2>6, StopsInv
<1> QED BY <1>3, <1>4 DEF Usage!SendKeyUsage

-----------------------------------------------------------------------------
(* The staff tool.                                                           *)

\* The staff tool is run (load_historical_usage_for_month).
LEMMA LoadMonthInv ==
    ASSUME Usage!ReportInv, NEW m \in Usage!Months,
           NEW reconcile \in BOOLEAN, Usage!LoadMonth(m, reconcile)
    PROVE  Usage!ReportInv' /\ loader' # Usage!NoLoad
<1>1. UNCHANGED <<day, used, keyUsed, filed, parts, pass, keyFiled, keyPeriod, sent>>
  BY DEF Usage!LoadMonth, Usage!world, Usage!totals, Usage!keyState
<1>2. /\ loader' \in {Usage!Loaded, [pc |-> "total", month |-> m, usage |-> used[m],
                                    reconcile |-> reconcile]}
      /\ used[m] \in Usage!Amounts
  BY DEF Usage!LoadMonth, Usage!ReportInv, Usage!ReportTypes
<1>3. loader' \in {Usage!NoLoad, Usage!Loaded} \cup Usage!Loads /\ loader' # Usage!NoLoad
  BY <1>2 DEF Usage!Loads, Usage!Loaded, Usage!NoLoad
<1>4. Usage!ReportTypes'
  BY <1>1, <1>3 DEF Usage!ReportInv, Usage!ReportTypes
<1>5. Usage!BrokenDownIsFiled' /\ Usage!ReadInOrder'
         /\ Usage!CheckedFirst' /\ Usage!TotalFirst' /\ Usage!RightMonth'
  BY <1>1, <1>3 DEF Usage!ReportInv, Usage!BrokenDownIsFiled, Usage!ReadInOrder,
     Usage!CheckedFirst, Usage!TotalFirst, Usage!RightMonth, Usage!Month
<1> QED BY <1>3, <1>4, <1>5 DEF Usage!ReportInv

\* What a running load holds.
LEMMA LoaderFacts ==
    ASSUME Usage!ReportInv, loader \notin {Usage!NoLoad, Usage!Loaded}
    PROVE  /\ loader \in Usage!Loads /\ loader.month \in Usage!Months
           /\ loader.usage \in Usage!Amounts
           /\ [loader EXCEPT !.pc = "users"] \in Usage!Loads
           /\ [loader EXCEPT !.pc = "users"].pc = "users"
           /\ Usage!Loaded \notin Usage!Loads /\ Usage!NoLoad \notin Usage!Loads
           /\ Usage!Loaded # Usage!NoLoad
<1>1. loader \in Usage!Loads
  BY DEF Usage!ReportInv, Usage!ReportTypes
<1>2. Usage!Loaded.pc = "ended" /\ Usage!NoLoad.pc = "never"
         /\ \A l \in Usage!Loads : l.pc \in {"total", "users"}
  BY DEF Usage!Loads, Usage!Loaded, Usage!NoLoad
<1>3. Usage!Loaded \notin Usage!Loads /\ Usage!NoLoad \notin Usage!Loads
         /\ Usage!Loaded # Usage!NoLoad
  BY <1>2
<1> QED BY <1>1, <1>3 DEF Usage!Loads

\* The load files totals for its own month, and leaves its first step.
LEMMA SubmitResourceUsageInv ==
    ASSUME Usage!ReportInv, Usage!SubmitResourceUsage
    PROVE  Usage!ReportInv' /\ loader' # loader /\ loader # Usage!NoLoad
<1>1. /\ UNCHANGED <<day, used, keyUsed, parts, pass, keyFiled, keyPeriod, sent>>
      /\ loader.pc = "total" /\ loader' \in {Usage!Loaded, [loader EXCEPT !.pc = "users"]}
  BY DEF Usage!SubmitResourceUsage, Usage!world, Usage!keyState
<1>2. loader \notin {Usage!NoLoad, Usage!Loaded}
  BY <1>1 DEF Usage!NoLoad, Usage!Loaded
<1>3. /\ loader \in Usage!Loads /\ loader.month \in Usage!Months
      /\ loader.usage \in Usage!Amounts
      /\ loader' \in {Usage!Loaded} \cup Usage!Loads /\ loader' # Usage!NoLoad
      /\ loader' # loader
  BY <1>1, <1>2, LoaderFacts
<1> DEFINE comps == IF \A c \in Components : loader.usage[c] = 0 THEN Components
                    ELSE {c \in Components : loader.usage[c] > 0}
<1>4. Files(loader.month, loader.usage, comps) /\ comps \in SUBSET Components
  BY DEF Usage!SubmitResourceUsage, Files
<1> HIDE DEF comps
<1>5. filed' \in Usage!Figures /\ Usage!BrokenDownIsFiled' /\ Usage!RightMonth'
  BY <1>1, <1>3, <1>4, FiledInv
<1>6. Usage!ReportTypes'
  BY <1>1, <1>3, <1>5 DEF Usage!ReportInv, Usage!ReportTypes
<1>7. Usage!ReadInOrder' /\ Usage!CheckedFirst' /\ Usage!TotalFirst'
  BY <1>1, <1>3 DEF Usage!ReportInv, Usage!ReadInOrder,
     Usage!CheckedFirst, Usage!TotalFirst, Usage!Month
<1> QED BY <1>2, <1>3, <1>5, <1>6, <1>7 DEF Usage!ReportInv

\* The load files a breakdown for figures that are held.
LEMMA SubmitUserUsageInv ==
    ASSUME Usage!ReportInv, Usage!SubmitUserUsage
    PROVE  Usage!ReportInv' /\ loader' # loader
<1> DEFINE m == loader.month
<1> DEFINE gone == \A c \in Components : loader.usage[c] = 0
<1> DEFINE new == [c \in Components |->
                     IF gone THEN Usage!ReconcileStale(parts[m][c])
                     ELSE IF loader.usage[c] > 0 /\ filed[m][c] # Usage!None
                     THEN loader.usage[c] ELSE parts[m][c]]
<1>1. /\ UNCHANGED <<day, used, keyUsed, filed, pass, keyFiled, keyPeriod, sent>>
      /\ loader.pc = "users" /\ loader' = Usage!Loaded /\ parts' = [parts EXCEPT ![m] = new]
  BY DEF Usage!SubmitUserUsage, Usage!world, Usage!keyState
<1>2. loader \notin {Usage!NoLoad, Usage!Loaded}
  BY <1>1 DEF Usage!NoLoad, Usage!Loaded
<1>3. /\ m \in Usage!Months /\ loader.usage \in Usage!Amounts /\ loader' # Usage!NoLoad
      /\ loader' # loader
  BY <1>1, <1>2, LoaderFacts
<1>4. /\ \A c \in Components : parts[m][c] \in Nat \cup {-1} /\ loader.usage[c] \in Nat
      /\ \A c \in Components : filed[m][c] = Usage!None => parts[m][c] = -1
  BY <1>3 DEF Usage!ReportInv, Usage!ReportTypes, Usage!BrokenDownIsFiled, Usage!Amounts,
         Usage!Breakdowns
<1>5. \A c \in Components : Usage!ReconcileStale(parts[m][c]) \in Nat \cup {-1}
                            /\ (parts[m][c] = -1 => Usage!ReconcileStale(parts[m][c]) = -1)
  BY <1>4 DEF Usage!ReconcileStale
<1>6. new \in [Components -> Nat \cup {-1}]
  BY <1>4, <1>5
<1>7. \A c \in Components : filed[m][c] = Usage!None => new[c] = parts[m][c]
  BY <1>4, <1>5
<1>11. \A c \in Components : new[c] = -1 => parts[m][c] = -1
  <2> SUFFICES ASSUME NEW c \in Components, new[c] = -1 PROVE parts[m][c] = -1
    OBVIOUS
  <2>1. new[c] \in {Usage!ReconcileStale(parts[m][c]), loader.usage[c], parts[m][c]}
    OBVIOUS
  <2>2. Usage!ReconcileStale(parts[m][c]) = -1 => parts[m][c] = -1
    BY <1>4 DEF Usage!ReconcileStale
  <2>3. loader.usage[c] # -1
    BY <1>4
  <2> QED BY <2>1, <2>2, <2>3
<1> HIDE DEF new, gone, m
<1>8. parts' \in Usage!Breakdowns /\ Usage!BrokenDownIsFiled'
  BY <1>1, <1>3, <1>6, <1>7, PartsFacts
<1>9. Usage!ReportTypes'
  BY <1>1, <1>8 DEF Usage!ReportInv, Usage!ReportTypes
<1>10. Usage!ReadInOrder' /\ Usage!TotalFirst' /\ Usage!RightMonth'
  BY <1>1, <1>3 DEF Usage!ReportInv, Usage!ReadInOrder, Usage!TotalFirst, Usage!RightMonth,
     Usage!Month
<1>12. Usage!CheckedFirst'
  <2>1. SUFFICES ASSUME pass.pc = "submit", NEW c \in Components \ pass.omitted,
                        parts'[Head(pass.todo)][c] = -1
                 PROVE  pass.seen[c].amount <= pass.user[c]
    BY <1>1 DEF Usage!CheckedFirst
  <2>2. Head(pass.todo) \in Usage!Months
    BY <2>1, PeriodFacts
  <2>3. parts \in Usage!Breakdowns
    BY DEF Usage!ReportInv, Usage!ReportTypes
  <2>4. parts'[Head(pass.todo)] = IF Head(pass.todo) = m THEN new ELSE parts[Head(pass.todo)]
    BY <1>1, <2>2, <2>3 DEF Usage!Breakdowns
  <2>5. parts[Head(pass.todo)][c] = -1
    BY <1>11, <2>1, <2>4
  <2> QED BY <2>1, <2>5 DEF Usage!ReportInv, Usage!CheckedFirst
<1> QED BY <1>3, <1>8, <1>9, <1>10, <1>12 DEF Usage!ReportInv

\* A load that fails ends.
LEMMA LoadFailsInv == ASSUME Usage!ReportInv, Usage!LoadFails PROVE Usage!ReportInv'
<1>1. /\ UNCHANGED <<day, used, keyUsed, filed, parts, pass, keyFiled, keyPeriod, sent>>
      /\ loader' = Usage!Loaded /\ loader' # Usage!NoLoad
  BY LoaderFacts DEF Usage!LoadFails, Usage!world, Usage!totals, Usage!keyState
<1>2. Usage!ReportTypes'
  BY <1>1 DEF Usage!ReportInv, Usage!ReportTypes
<1>3. Usage!BrokenDownIsFiled' /\ Usage!ReadInOrder'
         /\ Usage!CheckedFirst' /\ Usage!TotalFirst' /\ Usage!RightMonth'
  BY <1>1 DEF Usage!ReportInv, Usage!BrokenDownIsFiled, Usage!ReadInOrder,
     Usage!CheckedFirst, Usage!TotalFirst,
     Usage!RightMonth, Usage!Month
<1> QED BY <1>2, <1>3 DEF Usage!ReportInv

-----------------------------------------------------------------------------
(* All steps.                                                                *)

\* Nothing of the reports changes.
LEMMA StutterInv == ASSUME Usage!ReportInv, UNCHANGED Usage!uvars PROVE Usage!ReportInv'
<1>1. Usage!ReportTypes' /\ Usage!BrokenDownIsFiled' /\ Usage!ReadInOrder'
         /\ Usage!CheckedFirst' /\ Usage!TotalFirst' /\ Usage!RightMonth'
  BY DEF Usage!uvars, Usage!ReportInv, Usage!ReportTypes, Usage!BrokenDownIsFiled,
     Usage!ReadInOrder, Usage!CheckedFirst, Usage!TotalFirst, Usage!RightMonth, Usage!Month
<1> QED BY <1>1 DEF Usage!ReportInv

\* Every step keeps the invariant.
LEMMA StepInv == Usage!ReportInv /\ [Usage!ReportNext]_(Usage!uvars) => Usage!ReportInv'
<1> SUFFICES ASSUME Usage!ReportInv, [Usage!ReportNext]_(Usage!uvars) PROVE Usage!ReportInv'
  OBVIOUS
<1>1. ASSUME NEW c \in Components, Usage!Use(c) \/ \E m \in Usage!Months : Usage!Correct(m, c)
      PROVE  Usage!ReportInv'
  BY <1>1, UseInv, CorrectInv
<1>2. CASE Usage!PassStep
  BY <1>2, StartInv, PullResourceInv, RetrieveInv, ProcessResourcePeriodInv,
     CompareUsageInv, SubmitTotalUsageInv, SubmitUserUsagesInv,
     ReportApiKeyUsagesInv, CollectKeyUsageInv, SendKeyUsageInv DEF Usage!PassStep
<1>3. ASSUME NEW m \in Usage!Months, NEW reconcile \in BOOLEAN, Usage!LoadMonth(m, reconcile)
      PROVE  Usage!ReportInv'
  BY <1>3, LoadMonthInv
<1> QED BY <1>1, <1>2, <1>3, NextDayInv, ReportFailsInv, ReportRestartsInv,
           SubmitResourceUsageInv,
           SubmitUserUsageInv, LoadFailsInv, StutterInv DEF Usage!ReportNext

\* No step of a report lowers a figure or files a breakdown that does not add up.
LEMMA StepLowersNothing ==
    Usage!ReportInv /\ [Usage!ReportNext]_(Usage!uvars)
       => Usage!NeverLowered /\ Usage!BreakdownAddsUp
<1> SUFFICES ASSUME Usage!ReportInv, [Usage!ReportNext]_(Usage!uvars)
             PROVE  Usage!NeverLowered /\ Usage!BreakdownAddsUp
  OBVIOUS
<1>1. ASSUME UNCHANGED filed PROVE Usage!NeverLowered
  <2>1. \A n \in Usage!Months, c \in Components : filed[n][c].amount \in Int
    BY DEF Usage!ReportInv, Usage!ReportTypes, Usage!Figure, Usage!None, Usage!Figures
  <2> QED BY <1>1, <2>1 DEF Usage!NeverLowered
<1>2. ASSUME UNCHANGED parts PROVE Usage!BreakdownAddsUp
  BY <1>2 DEF Usage!BreakdownAddsUp
<1>3. CASE Usage!SubmitTotalUsage
  BY <1>2, <1>3, SubmitTotalUsageInv DEF Usage!SubmitTotalUsage
<1>4. CASE Usage!SubmitUserUsages
  BY <1>1, <1>4, SubmitUserUsagesInv DEF Usage!SubmitUserUsages
<1>5. CASE Usage!SubmitResourceUsage
  BY <1>2, <1>5, SubmitResourceUsageInv DEF Usage!SubmitResourceUsage, Usage!NeverLowered
<1>6. CASE Usage!SubmitUserUsage
  BY <1>1, <1>6, SubmitUserUsageInv DEF Usage!SubmitUserUsage, Usage!BreakdownAddsUp
<1>7. \/ UNCHANGED <<filed, parts>> \/ Usage!SubmitTotalUsage \/ Usage!SubmitUserUsages
      \/ Usage!SubmitResourceUsage \/ Usage!SubmitUserUsage
  BY DEF Usage!ReportNext, Usage!PassStep, Usage!NextDay, Usage!Use, Usage!Correct,
     Usage!Start,
     Usage!PullResource, Usage!Retrieve, Usage!ProcessResourcePeriod, Usage!CompareUsage,
     Usage!ReportFails, Usage!ReportRestarts, Usage!ReportApiKeyUsages, Usage!CollectKeyUsage,
     Usage!SendKeyUsage, Usage!LoadMonth, Usage!LoadFails, Usage!uvars, Usage!totals
<1> QED BY <1>1, <1>2, <1>3, <1>4, <1>5, <1>6, <1>7

-----------------------------------------------------------------------------
(* The log shippers: sequences, what is kept of the buffer, and the steps.   *)

\* Nothing is in an empty sequence.
LEMMA EmptyLog == /\ Logs!ToSet(<<>>) = {} /\ Logs!Total(<<>>) = 0
<1>1. Logs!ToSet(<<>>) = {}
  BY DEF Logs!ToSet
<1>2. {i \in 1..Len(<<>>) : <<>>[i] \in Large} = {}
  OBVIOUS
<1>3. Logs!Cardinality({}) = 0
  <2>1. Logs!Cardinality({}) = Cardinality({})
    BY DEF Logs!Cardinality, Cardinality
  <2> QED BY <2>1, FS_EmptySet
<1>4. MaxSize * 0 = 0
  BY Parameters DEF Logs!Parameters
<1> QED BY <1>1, <1>2, <1>3, <1>4 DEF Logs!Total

\* A part of a sequence, as a sequence and as a set.
LEMMA PartOf ==
    ASSUME NEW S, NEW s \in Seq(S), NEW i \in 1..(Len(s) + 1), NEW j \in 0..Len(s)
    PROVE  /\ SubSeq(s, i, j) \in Seq(S)
           /\ Len(SubSeq(s, i, j)) = IF i <= j THEN j - i + 1 ELSE 0
           /\ \A k \in 1..Len(SubSeq(s, i, j)) : SubSeq(s, i, j)[k] = s[k + i - 1]
           /\ Logs!ToSet(SubSeq(s, i, j)) = {s[k] : k \in i..j}
<1>1. /\ SubSeq(s, i, j) \in Seq(S)
      /\ Len(SubSeq(s, i, j)) = IF i <= j THEN j - i + 1 ELSE 0
      /\ \A k \in 1..Len(SubSeq(s, i, j)) : SubSeq(s, i, j)[k] = s[k + i - 1]
  OBVIOUS
<1>2. DOMAIN SubSeq(s, i, j) = 1..Len(SubSeq(s, i, j))
  BY <1>1
<1>3. ASSUME NEW k \in i..j
      PROVE  s[k] \in Logs!ToSet(SubSeq(s, i, j))
  <2>1. k - i + 1 \in DOMAIN SubSeq(s, i, j)
    BY <1>1, <1>2, <1>3
  <2>2. SubSeq(s, i, j)[k - i + 1] = s[k]
    BY <1>1, <1>2, <2>1
  <2> QED BY <2>1, <2>2 DEF Logs!ToSet
<1>4. ASSUME NEW x \in Logs!ToSet(SubSeq(s, i, j))
      PROVE  \E k \in i..j : x = s[k]
  <2>1. PICK m \in 1..Len(SubSeq(s, i, j)) : x = SubSeq(s, i, j)[m]
    BY <1>2 DEF Logs!ToSet
  <2>2. m + i - 1 \in i..j /\ x = s[m + i - 1]
    BY <1>1, <2>1
  <2> QED BY <2>2
<1>5. Logs!ToSet(SubSeq(s, i, j)) = {s[k] : k \in i..j}
  BY <1>3, <1>4
<1> QED BY <1>1, <1>5

\* What a sequence holds, by position.
LEMMA SetOf ==
    ASSUME NEW S, NEW s \in Seq(S)
    PROVE  /\ Logs!ToSet(s) = {s[k] : k \in 1..Len(s)}
           /\ Logs!ToSet(s) \subseteq S
<1>1. DOMAIN s = 1..Len(s)
  OBVIOUS
<1> QED BY <1>1 DEF Logs!ToSet

\* A set of natural numbers has a least one.
LEMMA Least ==
    ASSUME NEW T, T \subseteq Nat, T # {}
    PROVE  \E x \in T : \A y \in T : x <= y
<1>1. PICK x \in T : \A y \in T : ~(<<y, x>> \in OpToRel(<, Nat))
  BY NatLessThanWellFounded, WFMin
<1>2. ASSUME NEW y \in T PROVE x <= y
  <2>1. x \in Nat /\ y \in Nat
    OBVIOUS
  <2>2. <<y, x>> \notin OpToRel(<, Nat)
    BY <1>1
  <2>3. ~(y < x)
    BY <2>1, <2>2 DEF OpToRel
  <2> QED BY <2>1, <2>3
<1> QED BY <1>2

\* add(): what is kept is the end of the sequence, and it fits.
LEMMA TrimKeeps ==
    ASSUME NEW S, NEW s \in Seq(S)
    PROVE  /\ \E i \in 1..(Len(s) + 1) : Logs!Trim(s) = SubSeq(s, i, Len(s))
           /\ Logs!Total(Logs!Trim(s)) <= MaxSize
<1> DEFINE fits == {i \in 1..(Len(s) + 1) : Logs!Total(SubSeq(s, i, Len(s))) <= MaxSize}
<1>1. Len(s) + 1 \in fits
  <2>1. SubSeq(s, Len(s) + 1, Len(s)) = <<>>
    OBVIOUS
  <2>2. Logs!Total(<<>>) <= MaxSize
    BY EmptyLog, Parameters DEF Logs!Parameters
  <2>3. Len(s) + 1 \in 1..(Len(s) + 1)
    OBVIOUS
  <2> QED BY <2>1, <2>2, <2>3
<1>2. PICK i \in fits : \A j \in fits : i <= j
  <2>1. fits \subseteq Nat
    OBVIOUS
  <2> HIDE DEF fits
  <2>2. \E i \in fits : \A j \in fits : i <= j
    BY <1>1, <2>1, Least
  <2> QED BY <2>2
<1>3. Logs!Trim(s) = SubSeq(s, CHOOSE k \in fits : \A j \in fits : k <= j, Len(s))
  BY DEF Logs!Trim
<1> DEFINE first == CHOOSE k \in fits : \A j \in fits : k <= j
<1>4. first \in fits
  BY <1>2
<1> HIDE DEF first
<1> QED BY <1>3, <1>4 DEF first

\* The invariant holds initially.
LEMMA LogInitInv == Logs!LogInit => Logs!LogInv
<1> SUFFICES ASSUME Logs!LogInit PROVE Logs!LogInv
  OBVIOUS
<1> USE DEF Logs!LogInit
<1>1. Logs!LogTypeOK
  <2>1. buffer \in Seq(Logs!Entries) /\ received \in Seq(Logs!Entries)
        /\ load \in [Logs!Workers -> Seq(Logs!Entries)]
    OBVIOUS
  <2>2. at \in 1..Agents /\ logged \in 0..MaxEntries /\ 0 \in 0..Retries
    BY Parameters DEF Logs!Parameters
  <2>3. attempt \in [Logs!Workers -> 0..Retries]
    BY <2>2
  <2> QED BY <2>1, <2>2, <2>3 DEF Logs!LogTypeOK
<1>2. Logs!NothingForgotten
  <2>1. \A w \in Logs!Workers : Logs!ToSet(load[w]) = {}
    BY EmptyLog
  <2>2. Logs!ToSet(buffer) = {} /\ Logs!ToSet(received) = {}
    BY EmptyLog
  <2> QED BY <2>1, <2>2 DEF Logs!NothingForgotten, Logs!Settled, Logs!Held
<1>3. Logs!BufferKeepsNewest
  BY EmptyLog, Parameters DEF Logs!BufferKeepsNewest, Logs!Parameters
<1>4. load[Logs!Main] = <<>>
  BY Parameters DEF Logs!Workers, Logs!Main, Logs!Parameters
<1>5. Logs!ToSet(buffer) = {}
  BY EmptyLog
<1> QED BY <1>1, <1>2, <1>3, <1>4, <1>5 DEF Logs!LogInv

\* A worker other than the main thread is a shipper.
LEMMA TheWorkers == /\ Logs!Main \in Logs!Workers /\ 1..Agents \subseteq Logs!Workers
                    /\ Logs!Main \notin 1..Agents /\ MaxSize \in Nat /\ BatchSize \in Nat
                    /\ BatchSize > 0 /\ Retries \in Nat
BY Parameters DEF Logs!Parameters, Logs!Main, Logs!Workers

\* A worker with nothing at hand takes the buffer.
LEMMA TakesBuffer ==
    ASSUME Logs!LogInv, NEW w \in Logs!Workers, load[w] = <<>>, Logs!GetAndClear(w),
           UNCHANGED <<logged, received, lost>>
    PROVE  Logs!NothingForgotten' /\ Logs!BufferKeepsNewest' /\ buffer' \in Seq(Logs!Entries)
           /\ load' \in [Logs!Workers -> Seq(Logs!Entries)] /\ Logs!ToSet(buffer') = {}
<1> USE DEF Logs!GetAndClear, Logs!LogInv, Logs!LogTypeOK
<1>1. /\ load'[w] = buffer
      /\ \A v \in Logs!Workers : v # w => load'[v] = load[v]
      /\ load' \in [Logs!Workers -> Seq(Logs!Entries)]
  OBVIOUS
<1>2. Logs!ToSet(buffer') = {} /\ Logs!ToSet(load[w]) = {}
  BY EmptyLog
<1>3. Logs!Held' = Logs!ToSet(buffer) \cup Logs!Held
  <2> HIDE DEF Logs!GetAndClear, Logs!LogInv, Logs!LogTypeOK
  <2>1. ASSUME NEW x \in Logs!Held' PROVE x \in Logs!ToSet(buffer) \cup Logs!Held
    <3>1. PICK v \in Logs!Workers : x \in Logs!ToSet(load'[v])
      BY <2>1 DEF Logs!Held
    <3> QED BY <1>1, <3>1 DEF Logs!Held
  <2>2. ASSUME NEW x \in Logs!ToSet(buffer) PROVE x \in Logs!Held'
    BY <1>1, <2>2 DEF Logs!Held
  <2>3. ASSUME NEW x \in Logs!Held PROVE x \in Logs!Held'
    <3>1. PICK v \in Logs!Workers : x \in Logs!ToSet(load[v])
      BY <2>3 DEF Logs!Held
    <3>2. v # w
      BY <1>2, <3>1
    <3> QED BY <1>1, <3>1, <3>2 DEF Logs!Held
  <2> QED BY <2>1, <2>2, <2>3
<1>4. Logs!NothingForgotten'
  BY <1>1, <1>2, <1>3 DEF Logs!NothingForgotten, Logs!Settled
<1>5. Logs!BufferKeepsNewest'
  BY EmptyLog, TheWorkers DEF Logs!BufferKeepsNewest
<1> QED BY <1>1, <1>2, <1>4, <1>5

\* emit() and add(): the oldest entries go, and what is new was nowhere before.
LEMMA LogKeeps ==
    ASSUME Logs!LogInv, NEW warning \in BOOLEAN, Logs!Log(warning)
    PROVE  Logs!LogInv'
<1> DEFINE all == Append(buffer, logged + 1)
<1> DEFINE kept == Logs!Trim(all)
<1>1. /\ buffer' = kept /\ logged' = logged + 1
      /\ lost' = lost \cup (Logs!ToSet(all) \ Logs!ToSet(kept))
      /\ warn' = IF warning THEN FALSE ELSE warn \/ kept # all
      /\ UNCHANGED <<load, attempt, event, alive, client, at, step, received, due>>
  BY DEF Logs!Log
<1>2. /\ buffer \in Seq(Logs!Entries) /\ logged \in Nat /\ logged < MaxEntries
      /\ MaxEntries \in Nat
      /\ logged + 1 \in Logs!Entries
  BY Parameters DEF Logs!LogInv, Logs!LogTypeOK, Logs!Log, Logs!Entries, Logs!Parameters
<1>3. /\ all \in Seq(Logs!Entries) /\ Len(all) = Len(buffer) + 1
      /\ \A k \in 1..Len(all) : all[k] = logged + 1 - Len(all) + k
      /\ Len(buffer) \in Nat
  <2>1. /\ all \in Seq(Logs!Entries) /\ Len(all) = Len(buffer) + 1 /\ Len(buffer) \in Nat
        /\ \A k \in 1..Len(buffer) : all[k] = buffer[k]
        /\ all[Len(buffer) + 1] = logged + 1
    BY <1>2
  <2>2. \A k \in 1..Len(buffer) : buffer[k] = logged - Len(buffer) + k
    BY DEF Logs!LogInv, Logs!BufferKeepsNewest
  <2> HIDE DEF all
  <2> QED BY <1>2, <2>1, <2>2
<1>4. Logs!ToSet(all) = Logs!ToSet(buffer) \cup {logged + 1}
  <2>1. /\ DOMAIN all = 1..(Len(buffer) + 1) /\ DOMAIN buffer = 1..Len(buffer)
        /\ \A k \in 1..Len(buffer) : all[k] = buffer[k]
        /\ all[Len(buffer) + 1] = logged + 1 /\ Len(buffer) \in Nat
    BY <1>2
  <2> HIDE DEF all
  <2>2. DOMAIN all = DOMAIN buffer \cup {Len(buffer) + 1}
    BY <2>1
  <2> QED BY <2>1, <2>2 DEF Logs!ToSet
<1>5. PICK i \in 1..(Len(all) + 1) : kept = SubSeq(all, i, Len(all))
  BY <1>3, TrimKeeps
<1>6. Logs!Total(kept) <= MaxSize
  BY <1>3, TrimKeeps
<1> HIDE DEF kept, all
<1>7. /\ kept \in Seq(Logs!Entries)
      /\ Len(kept) = IF i <= Len(all) THEN Len(all) - i + 1 ELSE 0
      /\ \A k \in 1..Len(kept) : kept[k] = all[k + i - 1]
      /\ Logs!ToSet(kept) = {all[k] : k \in i..Len(all)}
  <2>1. Len(all) \in 0..Len(all)
    BY <1>3
  <2> QED BY <1>3, <1>5, <2>1, PartOf
<1>8. Logs!ToSet(kept) \subseteq Logs!ToSet(all)
  <2>1. Logs!ToSet(all) = {all[k] : k \in 1..Len(all)}
    BY <1>3, SetOf
  <2>2. i..Len(all) \subseteq 1..Len(all)
    BY <1>3, <1>5
  <2> QED BY <1>7, <2>1, <2>2
<1>9. /\ Logs!ToSet(buffer) \subseteq 1..logged /\ due \subseteq 1..logged
      /\ \A w \in Logs!Workers : Logs!ToSet(load[w]) \subseteq 1..logged
  BY DEF Logs!LogInv, Logs!NothingForgotten, Logs!Held
<1>10. logged + 1 \notin 1..logged /\ 1..(logged + 1) = 1..logged \cup {logged + 1}
  BY <1>2
<1>11. Logs!LogTypeOK'
  <2>1. Logs!ToSet(all) \subseteq Logs!Entries
    BY <1>3, SetOf
  <2>2. lost' \subseteq Logs!Entries /\ buffer' \in Seq(Logs!Entries)
           /\ logged' \in 0..MaxEntries
    <3>1. lost \subseteq Logs!Entries
      BY DEF Logs!LogInv, Logs!LogTypeOK
    <3>2. lost' \subseteq Logs!Entries
      BY <1>1, <2>1, <3>1
    <3>3. logged' \in 0..MaxEntries
      BY <1>1, <1>2
    <3> QED BY <1>1, <1>7, <3>2, <3>3
  <2>3. warn' \in BOOLEAN
    BY <1>1 DEF Logs!LogInv, Logs!LogTypeOK
  <2> QED BY <1>1, <2>2, <2>3 DEF Logs!LogInv, Logs!LogTypeOK
<1>12. Logs!NothingForgotten'
  <2>1. 1..logged = Logs!ToSet(buffer) \cup Logs!Held \cup Logs!Settled
    BY DEF Logs!LogInv, Logs!NothingForgotten
  <2>2. Logs!Held' = Logs!Held
    BY <1>1 DEF Logs!Held
  <2>3. 1..logged' = Logs!ToSet(buffer') \cup Logs!Held' \cup Logs!Settled'
    BY <1>1, <1>4, <1>8, <1>10, <2>1, <2>2 DEF Logs!Settled
  <2>4. \A w \in Logs!Workers : Logs!ToSet(load'[w]) \cap Logs!ToSet(buffer') = {}
    BY <1>1, <1>4, <1>8, <1>9, <1>10 DEF Logs!LogInv, Logs!NothingForgotten
  <2>5. \A v, w \in Logs!Workers : v # w
           => Logs!ToSet(load'[v]) \cap Logs!ToSet(load'[w]) = {}
    BY <1>1 DEF Logs!LogInv, Logs!NothingForgotten
  <2> QED BY <2>3, <2>4, <2>5 DEF Logs!NothingForgotten
<1>13. Logs!BufferKeepsNewest'
  <2>1. \A k \in 1..Len(kept) : kept[k] = logged + 1 - Len(kept) + k
    <3>1. ASSUME NEW k \in 1..Len(kept)
          PROVE  kept[k] = logged + 1 - Len(kept) + k
      <4>1. k + i - 1 \in 1..Len(all)
        BY <1>3, <1>5, <1>7
      <4>2. kept[k] = logged + 1 - Len(all) + (k + i - 1)
        BY <1>3, <1>7, <4>1
      <4>3. i \in Int /\ k \in Int /\ logged \in Int /\ Len(all) \in Int
               /\ Len(kept) = Len(all) - i + 1
        BY <1>2, <1>3, <1>5, <1>7
      <4> QED BY <4>2, <4>3
    <3> QED BY <3>1
  <2>2. buffer' = kept /\ logged' = logged + 1
    BY <1>1
  <2>3. Logs!Total(buffer') <= MaxSize
    BY <1>6, <2>2
  <2>4. \A k \in 1..Len(buffer') : buffer'[k] = logged' - Len(buffer') + k
    <3>1. SUFFICES ASSUME NEW k \in 1..Len(buffer')
                  PROVE  buffer'[k] = logged' - Len(buffer') + k
      OBVIOUS
    <3>2. kept[k] = logged + 1 - Len(kept) + k
      BY <2>1, <2>2, <3>1
    <3>3. buffer'[k] = kept[k] /\ Len(buffer') = Len(kept) /\ logged' = logged + 1
      BY <2>2
    <3> QED BY <1>2, <1>7, <3>2, <3>3
  <2> QED BY <2>3, <2>4 DEF Logs!BufferKeepsNewest
<1>14. step' # "ship" => load'[Logs!Main] = <<>>
  BY <1>1 DEF Logs!LogInv
<1>15. due' \subseteq 1..logged' /\ Logs!ToSet(buffer') \cap due' = {}
  BY <1>1, <1>4, <1>8, <1>9, <1>10 DEF Logs!LogInv
<1> QED BY <1>11, <1>12, <1>13, <1>14, <1>15 DEF Logs!LogInv

\* What a worker holds is the batch at hand and the rest.
LEMMA BatchAndRest ==
    ASSUME Logs!LogTypeOK, NEW w \in Logs!Workers
    PROVE  /\ Logs!ToSet(load[w]) = Logs!ToSet(Logs!Batch(w)) \cup Logs!ToSet(Logs!Rest(w))
           /\ Logs!Batch(w) \in Seq(Logs!Entries) /\ Logs!Rest(w) \in Seq(Logs!Entries)
<1> DEFINE s == load[w]
<1> DEFINE n == IF Len(s) < BatchSize THEN Len(s) ELSE BatchSize
<1>1. s \in Seq(Logs!Entries) /\ Len(s) \in Nat /\ BatchSize \in Nat
  BY TheWorkers DEF Logs!LogTypeOK
<1>2. n \in 0..Len(s) /\ Logs!Batch(w) = SubSeq(s, 1, n)
         /\ Logs!Rest(w) = SubSeq(s, BatchSize + 1, Len(s))
  BY <1>1 DEF Logs!Batch, Logs!Rest
<1> HIDE DEF s
<1>3. Logs!Batch(w) \in Seq(Logs!Entries) /\ Logs!ToSet(Logs!Batch(w)) = {s[k] : k \in 1..n}
  BY <1>1, <1>2, PartOf
<1>4. Logs!ToSet(s) = {s[k] : k \in 1..Len(s)}
  BY <1>1, SetOf
<1>5. CASE BatchSize <= Len(s)
  <2>1. BatchSize + 1 \in 1..(Len(s) + 1) /\ Len(s) \in 0..Len(s)
    BY <1>1, <1>5
  <2>2. Logs!Rest(w) \in Seq(Logs!Entries)
    BY <1>1, <1>2, <2>1, PartOf
  <2>4. Logs!ToSet(Logs!Rest(w)) = {s[k] : k \in (BatchSize + 1)..Len(s)}
    <3> DEFINE b == BatchSize + 1
    <3>1. b \in 1..(Len(s) + 1) /\ Len(s) \in 0..Len(s) /\ Logs!Rest(w) = SubSeq(s, b, Len(s))
      BY <1>2, <2>1
    <3> HIDE DEF b
    <3>2. Logs!ToSet(SubSeq(s, b, Len(s))) = {s[k] : k \in b..Len(s)}
      BY <1>1, <3>1, PartOf
    <3> QED BY <3>1, <3>2 DEF b
  <2>3. 1..Len(s) = 1..n \cup (BatchSize + 1)..Len(s)
    BY <1>1, <1>5
  <2> QED BY <1>3, <1>4, <2>2, <2>3, <2>4 DEF s
<1>6. CASE ~(BatchSize <= Len(s))
  <2>1. n = Len(s)
    BY <1>1, <1>6
  <2>2. Logs!Rest(w) = <<>>
    BY <1>1, <1>2, <1>6
  <2> QED BY <1>3, <1>4, <2>1, <2>2, EmptyLog DEF s
<1> QED BY <1>5, <1>6

\* What two sequences hold, one after the other.
LEMMA ToSetOfConcat ==
    ASSUME NEW S, NEW s \in Seq(S), NEW t \in Seq(S)
    PROVE  s \o t \in Seq(S) /\ Logs!ToSet(s \o t) = Logs!ToSet(s) \cup Logs!ToSet(t)
<1>1. /\ s \o t \in Seq(S) /\ Len(s) \in Nat /\ Len(t) \in Nat
      /\ Len(s \o t) = Len(s) + Len(t)
      /\ \A k \in 1..(Len(s) + Len(t)) :
            (s \o t)[k] = IF k <= Len(s) THEN s[k] ELSE t[k - Len(s)]
  OBVIOUS
<1>2. /\ DOMAIN (s \o t) = 1..(Len(s) + Len(t))
      /\ DOMAIN s = 1..Len(s) /\ DOMAIN t = 1..Len(t)
  BY <1>1
<1>3. ASSUME NEW x \in Logs!ToSet(s) PROVE x \in Logs!ToSet(s \o t)
  <2>1. PICK k \in 1..Len(s) : x = s[k]
    BY <1>2 DEF Logs!ToSet
  <2>2. k \in DOMAIN (s \o t) /\ (s \o t)[k] = x
    BY <1>1, <1>2, <2>1
  <2> QED BY <2>2 DEF Logs!ToSet
<1>4. ASSUME NEW x \in Logs!ToSet(t) PROVE x \in Logs!ToSet(s \o t)
  <2>1. PICK k \in 1..Len(t) : x = t[k]
    BY <1>2 DEF Logs!ToSet
  <2>2. Len(s) + k \in DOMAIN (s \o t) /\ (s \o t)[Len(s) + k] = x
    BY <1>1, <1>2, <2>1
  <2> QED BY <2>2 DEF Logs!ToSet
<1>5. ASSUME NEW x \in Logs!ToSet(s \o t) PROVE x \in Logs!ToSet(s) \cup Logs!ToSet(t)
  <2>1. PICK k \in 1..(Len(s) + Len(t)) : x = (s \o t)[k]
    BY <1>2 DEF Logs!ToSet
  <2>2. CASE k <= Len(s)
    BY <1>1, <1>2, <2>1, <2>2 DEF Logs!ToSet
  <2>3. CASE ~(k <= Len(s))
    <3>1. k - Len(s) \in 1..Len(t) /\ x = t[k - Len(s)]
      BY <1>1, <2>1, <2>3
    <3> QED BY <1>2, <3>1 DEF Logs!ToSet
  <2> QED BY <2>2, <2>3
<1> QED BY <1>1, <1>3, <1>4, <1>5

\* _ship_batch: a batch leaves the worker for the server or is written off.
LEMMA ShipKeeps ==
    ASSUME Logs!LogInv, NEW w \in Logs!Workers, Logs!ShipBatch(w)
    PROVE  Logs!LogInv'
<1>1. PICK reply \in {"ok", "404", "error", "unknown"} :
         /\ received' = IF reply \in {"ok", "unknown"}
               THEN received \o Logs!Batch(w) ELSE received
         /\ IF reply \in {"ok", "404"} \/ Logs!LastAttempt(w)
            THEN Logs!NextBatch(w) ELSE attempt' = [attempt EXCEPT ![w] = @ + 1]
               /\ UNCHANGED load
         /\ lost' = IF reply = "404" \/ (reply # "ok" /\ Logs!LastAttempt(w))
                    THEN lost \cup Logs!ToSet(Logs!Batch(w)) ELSE lost
  BY DEF Logs!ShipBatch
<1>2. /\ load[w] # <<>>
      /\ UNCHANGED <<buffer, logged, warn, event, alive, client, at, step, due>>
  BY DEF Logs!ShipBatch
<1>3. /\ Logs!ToSet(load[w]) = Logs!ToSet(Logs!Batch(w)) \cup Logs!ToSet(Logs!Rest(w))
      /\ Logs!Batch(w) \in Seq(Logs!Entries) /\ Logs!Rest(w) \in Seq(Logs!Entries)
      /\ Logs!ToSet(Logs!Batch(w)) \subseteq Logs!Entries
  BY BatchAndRest, SetOf DEF Logs!LogInv
<1>4. /\ received' \in Seq(Logs!Entries)
      /\ Logs!ToSet(received) \subseteq Logs!ToSet(received')
      /\ reply \in {"ok", "unknown"}
            => Logs!ToSet(Logs!Batch(w)) \subseteq Logs!ToSet(received')
      /\ Logs!ToSet(received') \subseteq Logs!ToSet(received) \cup Logs!ToSet(Logs!Batch(w))
  <2>1. received \in Seq(Logs!Entries)
    BY DEF Logs!LogInv, Logs!LogTypeOK
  <2>2. Logs!ToSet(received \o Logs!Batch(w)) = Logs!ToSet(received) \cup Logs!ToSet(Logs!Batch(w))
        /\ received \o Logs!Batch(w) \in Seq(Logs!Entries)
    BY <1>3, <2>1, ToSetOfConcat
  <2> QED BY <1>1, <2>1, <2>2
<1>5. /\ lost \subseteq lost' /\ lost' \subseteq lost \cup Logs!ToSet(Logs!Batch(w))
      /\ reply = "404" \/ (reply # "ok" /\ Logs!LastAttempt(w))
            => Logs!ToSet(Logs!Batch(w)) \subseteq lost'
  BY <1>1
<1>6. /\ load \in [Logs!Workers -> Seq(Logs!Entries)]
      /\ attempt \in [Logs!Workers -> 0..Retries]
      /\ lost \subseteq Logs!Entries
  BY DEF Logs!LogInv, Logs!LogTypeOK
<1>7. CASE reply \in {"ok", "404"} \/ Logs!LastAttempt(w)
  <2>1. /\ load' = [load EXCEPT ![w] = Logs!Rest(w)] /\ attempt' = [attempt EXCEPT ![w] = 0]
    BY <1>1, <1>7 DEF Logs!NextBatch
  <2>2. /\ load'[w] = Logs!Rest(w) /\ \A v \in Logs!Workers : v # w => load'[v] = load[v]
        /\ load' \in [Logs!Workers -> Seq(Logs!Entries)]
    BY <1>3, <1>6, <2>1
  <2>3. attempt' \in [Logs!Workers -> 0..Retries]
    BY <1>6, <2>1, TheWorkers
  <2>4. Logs!ToSet(Logs!Batch(w)) \subseteq Logs!Settled'
    BY <1>4, <1>5, <1>7 DEF Logs!Settled
  <2>5. Logs!Held \cup Logs!Settled' = Logs!Held' \cup Logs!Settled'
           /\ Logs!Held' \subseteq Logs!Held
    <3>1. \A v \in Logs!Workers : Logs!ToSet(load'[v]) \subseteq Logs!ToSet(load[v])
      BY <1>3, <2>2
    <3>2. \A v \in Logs!Workers : Logs!ToSet(load[v]) \subseteq Logs!ToSet(load'[v]) \cup Logs!Settled'
      BY <1>3, <2>2, <2>4
    <3> QED BY <3>1, <3>2 DEF Logs!Held
  <2>6. Logs!Settled \subseteq Logs!Settled'
           /\ Logs!Settled' \subseteq Logs!Settled \cup Logs!ToSet(Logs!Batch(w))
    BY <1>4, <1>5 DEF Logs!Settled
  <2>7. Logs!ToSet(Logs!Batch(w)) \subseteq Logs!Held
    BY <1>3 DEF Logs!Held
  <2>8. 1..logged' = Logs!ToSet(buffer') \cup Logs!Held' \cup Logs!Settled'
    <3>1. 1..logged = Logs!ToSet(buffer) \cup Logs!Held \cup Logs!Settled
      BY DEF Logs!LogInv, Logs!NothingForgotten
    <3> QED BY <1>2, <2>5, <2>6, <2>7, <3>1
  <2>9. /\ \A v \in Logs!Workers : Logs!ToSet(load'[v]) \subseteq Logs!ToSet(load[v])
    BY <1>3, <2>2
  <2>10. Logs!NothingForgotten'
    <3>1. \A v \in Logs!Workers : Logs!ToSet(load'[v]) \cap Logs!ToSet(buffer') = {}
      BY <1>2, <2>9 DEF Logs!LogInv, Logs!NothingForgotten
    <3>2. \A u, v \in Logs!Workers : u # v
             => Logs!ToSet(load'[u]) \cap Logs!ToSet(load'[v]) = {}
      BY <2>9 DEF Logs!LogInv, Logs!NothingForgotten
    <3> QED BY <2>8, <3>1, <3>2 DEF Logs!NothingForgotten
  <2>11. Logs!LogTypeOK'
    BY <1>2, <1>3, <1>4, <1>5, <1>6, <2>2, <2>3 DEF Logs!LogInv, Logs!LogTypeOK
  <2>12. Logs!BufferKeepsNewest'
    BY <1>2 DEF Logs!LogInv, Logs!BufferKeepsNewest
  <2>13. step' # "ship" => load'[Logs!Main] = <<>>
    BY <1>2, <2>2, TheWorkers DEF Logs!LogInv
  <2> QED BY <1>2, <2>10, <2>11, <2>12, <2>13 DEF Logs!LogInv
<1>8. CASE ~(reply \in {"ok", "404"} \/ Logs!LastAttempt(w))
  <2>1. /\ load' = load /\ attempt' = [attempt EXCEPT ![w] = @ + 1] /\ lost' = lost
    BY <1>1, <1>8
  <2>2. attempt[w] # Retries /\ attempt[w] \in 0..Retries /\ Retries \in Nat
    BY <1>6, <1>8, TheWorkers DEF Logs!LastAttempt
  <2>3. attempt' \in [Logs!Workers -> 0..Retries]
    <3>1. attempt[w] + 1 \in 0..Retries
      BY <2>2
    <3> QED BY <1>6, <2>1, <3>1
  <2>4. Logs!LogTypeOK'
    BY <1>2, <1>4, <2>1, <2>3 DEF Logs!LogInv, Logs!LogTypeOK
  <2>5. Logs!Settled \subseteq Logs!Settled'
           /\ Logs!Settled' \subseteq Logs!Settled \cup Logs!Held /\ Logs!Held' = Logs!Held
    <3>1. Logs!ToSet(Logs!Batch(w)) \subseteq Logs!Held
      BY <1>3 DEF Logs!Held
    <3>2. Logs!Held' = Logs!Held
      BY <2>1 DEF Logs!Held
    <3> QED BY <1>4, <2>1, <3>1, <3>2 DEF Logs!Settled
  <2>6. Logs!NothingForgotten'
    <3>1. 1..logged' = Logs!ToSet(buffer') \cup Logs!Held' \cup Logs!Settled'
      <4>1. 1..logged = Logs!ToSet(buffer) \cup Logs!Held \cup Logs!Settled
        BY DEF Logs!LogInv, Logs!NothingForgotten
      <4> QED BY <1>2, <2>5, <4>1
    <3> QED BY <1>2, <2>1, <3>1 DEF Logs!LogInv, Logs!NothingForgotten
  <2>7. Logs!BufferKeepsNewest'
    BY <1>2 DEF Logs!LogInv, Logs!BufferKeepsNewest
  <2> QED BY <1>2, <2>1, <2>4, <2>6, <2>7 DEF Logs!LogInv
<1> QED BY <1>7, <1>8

\* stop(): the last collection takes what is in the buffer, and no entry of it
\* comes back.
LEMMA JoinedKeeps ==
    ASSUME Logs!LogInv, Logs!Joined
    PROVE  Logs!LogInv'
<1>1. /\ step = "join" /\ step' = "ship" /\ Logs!GetAndClear(Logs!Main) /\ due' = 1..logged
      /\ UNCHANGED <<logged, warn, attempt, event, alive, client, at, received, lost>>
  BY DEF Logs!Joined
<1>2. load[Logs!Main] = <<>>
  BY <1>1 DEF Logs!LogInv
<1>3. Logs!NothingForgotten' /\ Logs!BufferKeepsNewest' /\ buffer' \in Seq(Logs!Entries)
           /\ load' \in [Logs!Workers -> Seq(Logs!Entries)] /\ Logs!ToSet(buffer') = {}
  BY <1>1, <1>2, TakesBuffer, TheWorkers
<1>4. 1..logged \subseteq Logs!Entries
  BY Parameters DEF Logs!LogInv, Logs!LogTypeOK, Logs!Entries, Logs!Parameters
<1>5. Logs!LogTypeOK'
  BY <1>1, <1>3, <1>4 DEF Logs!LogInv, Logs!LogTypeOK
<1> QED BY <1>1, <1>3, <1>5 DEF Logs!LogInv

\* Every step keeps the invariant; those that are left move no entry.
LEMMA LogStepsKeep ==
    ASSUME Logs!LogInv, [Logs!LogNext]_(Logs!lvars)
    PROVE  Logs!LogInv'
<1>1. ASSUME NEW a \in 1..Agents, Logs!Collect(a)
      PROVE  Logs!LogInv'
  <2>1. /\ load[a] = <<>> /\ Logs!GetAndClear(a)
        /\ UNCHANGED <<logged, warn, attempt, event, alive, client, at, step, received, lost,
            due>>
    BY <1>1 DEF Logs!Collect, Logs!history
  <2>2. a \in Logs!Workers /\ a # Logs!Main
    BY TheWorkers
  <2>3. Logs!NothingForgotten' /\ Logs!BufferKeepsNewest' /\ buffer' \in Seq(Logs!Entries)
           /\ load' \in [Logs!Workers -> Seq(Logs!Entries)] /\ Logs!ToSet(buffer') = {}
    BY <2>1, <2>2, TakesBuffer
  <2>4. load'[Logs!Main] = load[Logs!Main]
    BY <2>1, <2>2, TheWorkers DEF Logs!GetAndClear, Logs!LogInv, Logs!LogTypeOK
  <2>5. Logs!LogTypeOK'
    BY <2>1, <2>3 DEF Logs!LogInv, Logs!LogTypeOK
  <2> QED BY <2>1, <2>3, <2>4, <2>5 DEF Logs!LogInv
<1>2. ASSUME UNCHANGED <<buffer, logged, warn, load, attempt, received, lost, due>>,
             event' \in [1..Agents -> BOOLEAN], alive' \in [1..Agents -> BOOLEAN],
             client' \in [1..Agents -> {"open", "closed", "none"}], at' \in 1..Agents,
             step' \in {"run", "join", "ship", "close", "drop", "done"},
             step' # "ship" => load[Logs!Main] = <<>>
      PROVE  Logs!LogInv'
  <2>1. Logs!LogTypeOK'
    BY <1>2 DEF Logs!LogInv, Logs!LogTypeOK
  <2>2. Logs!NothingForgotten'
    BY <1>2 DEF Logs!LogInv, Logs!NothingForgotten, Logs!Held, Logs!Settled
  <2>3. Logs!BufferKeepsNewest'
    BY <1>2 DEF Logs!LogInv, Logs!BufferKeepsNewest
  <2> QED BY <1>2, <2>1, <2>2, <2>3 DEF Logs!LogInv
<1> USE DEF Logs!LogInv, Logs!LogTypeOK
<1>3. ASSUME NEW a \in 1..Agents, Logs!ThreadEnds(a)
      PROVE  Logs!LogInv'
  BY <1>2, <1>3 DEF Logs!ThreadEnds, Logs!history
<1>4. CASE Logs!Stop
  BY <1>2, <1>4 DEF Logs!Stop, Logs!history
<1>5. CASE Logs!CloseClient
  BY <1>2, <1>5 DEF Logs!CloseClient, Logs!history
<1>6. CASE Logs!DropClient
  <2>1. at < Agents => at + 1 \in 1..Agents
    BY Parameters DEF Logs!Parameters
  <2> QED BY <1>2, <1>6, <2>1 DEF Logs!DropClient, Logs!history
<1>7. CASE UNCHANGED Logs!lvars
  BY <1>2, <1>7 DEF Logs!lvars
<1> QED BY <1>1, <1>3, <1>4, <1>5, <1>6, <1>7, LogKeeps, ShipKeeps, JoinedKeeps
        DEF Logs!LogNext, Logs!MainStep, Logs!LogEnded

-----------------------------------------------------------------------------
(* The project groups.                                                       *)

\* The invariant holds initially.
LEMMA GroupInitInv == Projects!GroupInit => Projects!GroupInv
<1> SUFFICES ASSUME Projects!GroupInit PROVE Projects!GroupInv
  OBVIOUS
<1>1. /\ waldur \in [Projects!Listed -> Projects!Row]
      /\ parent \in {{Projects!Standin}} \cup ((SUBSET Groups) \ {{}})
      /\ \A g \in parent \ {Projects!Standin} : entry[g] # Projects!None
      /\ pc = "idle" /\ waiting = 0 /\ unread = FALSE /\ managed = {}
      /\ unwanted = {g \in Projects!Listed : ~Projects!Wanted(waldur, g)}
  BY DEF Projects!GroupInit
<1>2. parent \subseteq Groups \cup {Projects!Standin}
  BY <1>1
<1>3. parent = {Projects!Standin} \/ (parent \in SUBSET Groups /\ parent # {})
  BY <1>1
<1>4. parent # {}
  BY <1>3
<1> QED BY <1>1, <1>2, <1>4 DEF Projects!GroupInv, Projects!EventNotLost, Projects!AtWork,
       Projects!AtParent

\* A step that leaves the pass, the parent and what is unwanted alone.
LEMMA OutsideThePass ==
    ASSUME Projects!GroupInv, UNCHANGED <<pc, snap, groupTodo, managed, untouchable, job,
           parent, unwanted, waldur>>,
           Projects!EventNotLost', waiting' \in Nat
    PROVE  Projects!GroupInv'
BY DEF Projects!GroupInv, Projects!AtWork, Projects!AtParent, Projects!Wanted

\* Waldur changes while a pass may be at work on an older listing.
LEMMA ChangeKeeps ==
    ASSUME Projects!GroupInv, NEW g \in Projects!Listed,
           NEW r \in Projects!Row, Projects!Change(g, r)
    PROVE  Projects!GroupInv'
<1>1. /\ waldur' = [waldur EXCEPT ![g] = r] /\ groupMail' = TRUE
      /\ unwanted' = unwanted \cup {h \in Projects!Listed : ~Projects!Wanted(waldur', h)}
      /\ UNCHANGED <<pc, snap, groupTodo, managed, untouchable, job, parent, waiting>>
  BY DEF Projects!Change, Projects!dir, Projects!pass
<1>2. waldur' \in [Projects!Listed -> Projects!Row]
  BY <1>1 DEF Projects!GroupInv
<1>3. Projects!EventNotLost'
  BY <1>1 DEF Projects!EventNotLost
<1>4. \A h \in Projects!Listed : ~Projects!Wanted(waldur', h) => h \in unwanted'
  BY <1>1
<1>5. unwanted \subseteq unwanted'
  BY <1>1
<1>6. Projects!AtWork' = Projects!AtWork /\ Projects!AtParent' = Projects!AtParent
  BY <1>1 DEF Projects!AtWork, Projects!AtParent
<1>7. \A h \in Projects!Listed : Projects!Wanted(snap.waldur,
          h)' <=> Projects!Wanted(snap.waldur, h)
  BY <1>1 DEF Projects!Wanted
<1> QED BY <1>1, <1>2, <1>3, <1>4, <1>5, <1>6, <1>7 DEF Projects!GroupInv

\* The sibling only adds to the parent.
LEMMA SiblingKeeps ==
    ASSUME Projects!GroupInv, NEW g \in Projects!Listed, Projects!Sibling(g)
    PROVE  Projects!GroupInv'
<1>1. /\ parent' = parent \/ parent' = parent \cup {g}
      /\ UNCHANGED <<pc, snap, groupTodo, managed, untouchable, job, waiting, waldur,
          groupMail, pending,
                     unread, owed, unwanted>>
  BY DEF Projects!Sibling, Projects!pass
<1>2. g \in Groups
  BY DEF Projects!Listed
<1>3. Projects!EventNotLost'
  BY <1>1 DEF Projects!GroupInv, Projects!EventNotLost
<1>4. Projects!AtWork' = Projects!AtWork /\ Projects!AtParent' = Projects!AtParent
  BY <1>1 DEF Projects!AtWork, Projects!AtParent
<1>5. \A h \in Projects!Listed :
         /\ Projects!Wanted(snap.waldur, h)' <=> Projects!Wanted(snap.waldur, h)
         /\ Projects!Wanted(waldur, h)' <=> Projects!Wanted(waldur, h)
  BY <1>1 DEF Projects!Wanted
<1> QED BY <1>1, <1>2, <1>3, <1>4, <1>5 DEF Projects!GroupInv

\* The timer, the periodic cycle, a restart and the lock.
LEMMA SchedulingKeeps ==
    ASSUME Projects!GroupInv,
           Projects!OnEvent \/ Projects!TimerFires
              \/ (\E ok \in BOOLEAN : Projects!Periodic(ok)) \/ Projects!AgentRestarts
                 \/ Projects!Lock
    PROVE  Projects!GroupInv'
<1>1. CASE Projects!OnEvent
  <2>1. Projects!EventNotLost' /\ waiting' \in Nat
    BY <1>1 DEF Projects!OnEvent, Projects!GroupInv, Projects!EventNotLost, Projects!pass
  <2> QED BY <1>1, <2>1, OutsideThePass DEF Projects!OnEvent, Projects!pass, Projects!dir
<1>2. CASE Projects!TimerFires
  <2>1. Projects!EventNotLost' /\ waiting' \in Nat
    BY <1>2 DEF Projects!TimerFires, Projects!GroupInv, Projects!EventNotLost, Projects!pass
  <2> QED BY <1>2, <2>1, OutsideThePass DEF Projects!TimerFires, Projects!pass, Projects!dir
<1>3. ASSUME NEW ok \in BOOLEAN, Projects!Periodic(ok) PROVE Projects!GroupInv'
  <2>1. Projects!EventNotLost' /\ waiting' \in Nat
    BY <1>3 DEF Projects!Periodic, Projects!GroupInv, Projects!EventNotLost, Projects!pass
  <2> QED BY <1>3, <2>1, OutsideThePass DEF Projects!Periodic, Projects!pass, Projects!dir
<1>4. CASE Projects!AgentRestarts
  <2>1. /\ pc' = "idle" /\ waiting' = 0 /\ owed' = TRUE /\ managed' = {}
        /\ UNCHANGED <<waldur, parent, unwanted>>
    BY <1>4 DEF Projects!AgentRestarts, Projects!dir
  <2> QED BY <2>1 DEF Projects!GroupInv, Projects!EventNotLost, Projects!AtWork,
         Projects!AtParent, Projects!Wanted
<1>5. CASE Projects!Lock
  <2>1. /\ pc' = "read" /\ waiting > 0 /\ waiting' = waiting - 1
        /\ UNCHANGED <<waldur, parent, unwanted, managed>>
    BY <1>5 DEF Projects!Lock, Projects!dir
  <2> QED BY <2>1 DEF Projects!GroupInv, Projects!EventNotLost, Projects!AtWork,
         Projects!AtParent, Projects!Wanted
<1> QED BY <1>1, <1>2, <1>3, <1>4, <1>5

\* A pass that ends leaves only what Waldur and the parent hold.
LEMMA EndKeeps ==
    ASSUME Projects!GroupInv, pc' = "idle", UNCHANGED <<waldur, waiting, groupMail, pending,
           unread>>,
           pc # "read" \/ owed', owed => owed', unwanted \subseteq unwanted',
           parent' \subseteq Groups \cup {Projects!Standin}, parent' # {}, managed' = {}
    PROVE  Projects!GroupInv'
<1>1. Projects!EventNotLost'
  BY DEF Projects!GroupInv, Projects!EventNotLost
<1> QED BY <1>1 DEF Projects!GroupInv, Projects!AtWork, Projects!AtParent, Projects!Wanted

\* The pass reads Waldur, or fails to.
LEMMA FetchKeeps == ASSUME Projects!GroupInv, Projects!Fetch \/ Projects!FetchFails
                    PROVE  Projects!GroupInv'
<1>1. CASE Projects!Fetch
  <2>1. /\ snap' = [waldur |-> waldur, entry |-> entry, people |-> people]
        /\ groupTodo' = Projects!Listed
        /\ pc' = "groups" /\ unread' = FALSE
        /\ UNCHANGED <<waldur, waiting, parent, unwanted, managed>>
    BY <1>1 DEF Projects!Fetch, Projects!dir
  <2>2. snap'.waldur = waldur
    BY <2>1
  <2>3. Projects!Listed \ groupTodo' = {}
    BY <2>1
  <2>4. Projects!EventNotLost'
    BY <2>1 DEF Projects!EventNotLost
  <2>5. \A g \in Projects!Listed : Projects!Wanted(snap'.waldur,
            g) <=> Projects!Wanted(waldur, g)
    BY <2>2
  <2> QED BY <2>1, <2>3, <2>4, <2>5 DEF Projects!GroupInv, Projects!AtParent,
         Projects!AtWork, Projects!Wanted
<1>2. CASE Projects!FetchFails
  BY <1>2, EndKeeps DEF Projects!FetchFails, Projects!EndPass, Projects!dir, Projects!GroupInv
<1> QED BY <1>1, <1>2

\* A step of the pass that stays at work on the groups: what it has been through
\* is managed, given up or refused.
LEMMA WorkKeeps ==
    ASSUME Projects!GroupInv, Projects!AtWork, Projects!AtWork', ~Projects!AtParent',
           UNCHANGED <<waldur, parent, waiting, groupMail, pending, unread, owed>>,
           snap'.waldur = snap.waldur, unwanted \subseteq unwanted',
           managed \subseteq managed', managed' \subseteq Projects!Listed,
               untouchable \subseteq untouchable',
           \A g \in groupTodo \ groupTodo' : g \in managed' \cup untouchable' \cup unwanted',
           pc' \in {"modify", "again"} => job'.target \in Groups
    PROVE  Projects!GroupInv'
<1>1. Projects!EventNotLost'
  BY DEF Projects!GroupInv, Projects!EventNotLost, Projects!AtWork
<1>2. \A g \in Projects!Listed : ~Projects!Wanted(snap'.waldur, g) => g \in unwanted'
  BY DEF Projects!GroupInv, Projects!Wanted
<1>3. \A g \in Projects!Listed : ~Projects!Wanted(waldur', g) => g \in unwanted'
  BY DEF Projects!GroupInv, Projects!Wanted
<1>4. \A g \in Projects!Listed \ groupTodo' : g \in managed' \cup untouchable' \cup unwanted'
  BY DEF Projects!GroupInv
<1> QED BY <1>1, <1>2, <1>3, <1>4 DEF Projects!GroupInv

\* A group is written, refused or given up (_reconcile_group).
LEMMA ReconcileGroupKeeps ==
    ASSUME Projects!GroupInv, NEW g \in Projects!Listed, Projects!ReconcileGroup(g)
    PROVE  Projects!GroupInv'
<1>1. /\ pc = "groups" /\ g \in groupTodo /\ groupTodo' = groupTodo \ {g}
      /\ unwanted' = IF Projects!Refused(g) THEN unwanted \cup {g} ELSE unwanted
      /\ UNCHANGED <<waldur, parent, waiting, groupMail, pending, unread, owed>>
  BY DEF Projects!ReconcileGroup
<1>2. /\ managed \subseteq managed' /\ managed' \subseteq managed \cup {g}
      /\ untouchable \subseteq untouchable'
      /\ g \in managed' \cup untouchable' \cup unwanted'
      /\ \/ pc' = pc
         \/ pc' = "modify" /\ \E e : job' = Projects!MemberJob(g, e)
      /\ \/ snap' = snap \/ snap' = [snap EXCEPT !.entry[g] = entry'[g]]
         \/ snap' = [snap EXCEPT !.entry[g].gid = Gid[g]]
  BY <1>1 DEF Projects!ReconcileGroup, Projects!Created, Projects!Existing
<1>3. snap'.waldur = snap.waldur
  <2>1. [snap EXCEPT !.entry[g] = entry'[g]].waldur = snap.waldur
    OBVIOUS
  <2>2. [snap EXCEPT !.entry[g].gid = Gid[g]].waldur = snap.waldur
    OBVIOUS
  <2> QED BY <1>2, <2>1, <2>2
<1>4. g \in Groups /\ g # "parent"
  BY Parameters DEF Projects!Listed, Projects!GroupParameters
<1>5. pc' = "modify" => job'.target = g
  BY <1>1, <1>2 DEF Projects!MemberJob
<1>6. Projects!AtWork /\ Projects!AtWork' /\ ~Projects!AtParent' /\ pc' # "again"
  BY <1>1, <1>2, <1>4, <1>5 DEF Projects!AtWork, Projects!AtParent
<1>7. managed' \subseteq Projects!Listed
  BY <1>2 DEF Projects!GroupInv
<1> QED BY <1>1, <1>2, <1>3, <1>4, <1>5, <1>6, <1>7, WorkKeeps

\* _reconcile_parent: what is not desired was unwanted, given up or not listed.
LEMMA ReconcileParentKeeps == ASSUME Projects!GroupInv, Projects!ReconcileParent
                              PROVE  Projects!GroupInv'
<1> DEFINE desired == {g \in managed : snap.waldur[g].used}
<1>1. /\ pc = "groups" /\ groupTodo = {} /\ pc' = "modify"
      /\ job' = [target |-> "parent", add |-> desired \ parent,
                 remove |-> (parent \ desired) \cap Projects!Removable]
      /\ UNCHANGED <<waldur, parent, waiting, groupMail, pending, unread, owed, unwanted,
                     snap, groupTodo, managed, untouchable>>
  BY DEF Projects!ReconcileParent, Projects!dir
<1>2. Projects!AtWork /\ Projects!AtWork' /\ Projects!AtParent'
  BY <1>1 DEF Projects!AtWork, Projects!AtParent
<1>3. ASSUME NEW g \in Projects!Removable, g \notin desired
      PROVE  g \in unwanted /\ g \in Projects!Listed
  <2>1. g \in Projects!Listed /\ g \notin untouchable
    BY DEF Projects!Removable
  <2>2. CASE g \in managed
    <3>1. ~Projects!Wanted(snap.waldur, g)
      BY <1>3, <2>2 DEF Projects!Wanted
    <3> QED BY <1>2, <2>1, <3>1 DEF Projects!GroupInv
  <2>3. CASE g \notin managed
    BY <1>1, <1>2, <2>1, <2>3 DEF Projects!GroupInv
  <2> QED BY <2>1, <2>2, <2>3
<1>4. /\ desired \subseteq Groups
      /\ (parent \ desired) \cap Projects!Removable \subseteq unwanted \cap Projects!Listed
  BY <1>3 DEF Projects!GroupInv, Projects!Listed
<1> HIDE DEF desired
<1>5. /\ job'.target = "parent" /\ job'.add = desired \ parent
      /\ job'.remove = (parent \ desired) \cap Projects!Removable
  BY <1>1
<1>6. /\ job'.remove \subseteq unwanted \cap Projects!Listed
      /\ job'.add \subseteq Groups \cup {Projects!Standin}
      /\ job'.add \cap job'.remove = {}
  BY <1>4, <1>5
<1>7. Projects!EventNotLost'
  BY <1>1 DEF Projects!GroupInv, Projects!EventNotLost
<1>8. \A g \in Projects!Listed :
         /\ Projects!Wanted(waldur, g)' <=> Projects!Wanted(waldur, g)
         /\ Projects!Wanted(snap.waldur, g)' <=> Projects!Wanted(snap.waldur, g)
  BY <1>1 DEF Projects!Wanted
<1>9. pc' # "again"
  BY <1>1
<1> QED BY <1>1, <1>2, <1>5, <1>6, <1>7, <1>8, <1>9 DEF Projects!GroupInv

\* What a pass does with the parent when nothing conflicts.
LEMMA ParentWritten ==
    ASSUME NEW add,
           NEW rem, Projects!Write(add, rem), Projects!AfterJob, job.target = "parent",
               Projects!GroupInv, Projects!AtWork,
           UNCHANGED <<waldur, waiting, groupMail, pending, unread, owed, unwanted>>,
           add \subseteq Groups \cup {Projects!Standin}, add \cap rem = {},
           rem \subseteq unwanted, add # {} \/ ~(parent \subseteq rem)
    PROVE  Projects!GroupInv' /\ Projects!ParentLosesOnlyUnwanted
<1>1. parent' = (parent \cup add) \ rem /\ Projects!EndPass
  BY DEF Projects!Write, Projects!AfterJob
<1>2. parent' \subseteq Groups \cup {Projects!Standin} /\ parent' # {}
         /\ parent \ parent' \subseteq rem
  BY <1>1 DEF Projects!GroupInv
<1>3. Projects!GroupInv'
  BY <1>1, <1>2, EndKeeps DEF Projects!EndPass, Projects!AtWork
<1> QED BY <1>2, <1>3 DEF Projects!ParentLosesOnlyUnwanted

\* A pass goes on to the next group, or gives one up.
LEMMA NextGroup ==
    ASSUME Projects!GroupInv, Projects!AtWork, pc' = "groups", job' = Projects!NoJob
       \/ job' = job,
           groupTodo' = groupTodo
              \/ (\E g \in groupTodo : groupTodo' = groupTodo \ {g} /\ g \in untouchable'),
           snap' = snap, managed' = managed, untouchable \subseteq untouchable',
           UNCHANGED <<waldur, parent, waiting, groupMail, pending, unread, owed, unwanted>>
    PROVE  Projects!GroupInv' /\ Projects!ParentLosesOnlyUnwanted
<1>1. Projects!AtWork' /\ ~Projects!AtParent'
  BY DEF Projects!AtWork, Projects!AtParent
<1>2. \A g \in groupTodo \ groupTodo' : g \in managed' \cup untouchable' \cup unwanted'
  OBVIOUS
<1>3. managed' \subseteq Projects!Listed
  BY DEF Projects!GroupInv
<1>4. Projects!GroupInv'
  BY <1>1, <1>2, <1>3, WorkKeeps
<1> QED BY <1>4 DEF Projects!ParentLosesOnlyUnwanted, Projects!GroupInv

\* A group's members are written.
LEMMA GroupWritten ==
    ASSUME NEW add,
           NEW rem, Projects!Write(add, rem), Projects!AfterJob, job.target # "parent",
               Projects!GroupInv, Projects!AtWork,
           UNCHANGED <<waldur, waiting, groupMail, pending, unread, owed, unwanted>>
    PROVE  Projects!GroupInv' /\ Projects!ParentLosesOnlyUnwanted
<1>1. /\ UNCHANGED <<parent, snap, groupTodo, managed, untouchable>> /\ pc' = "groups"
      /\ job' = Projects!NoJob
  BY DEF Projects!Write, Projects!AfterJob
<1> QED BY <1>1, NextGroup

\* The modify of a group or of the parent, or what is left of it (_modify_members).
LEMMA ModifyKeeps == ASSUME Projects!GroupInv, Projects!ModifyMembers
                     PROVE  Projects!GroupInv' /\ Projects!ParentLosesOnlyUnwanted
<1>1. /\ pc = "modify" /\ Projects!AtWork /\ job.target \in Groups \cup {"parent"}
      /\ UNCHANGED <<waldur, waiting, groupMail, pending, unread, owed, unwanted>>
  BY DEF Projects!ModifyMembers, Projects!AtWork, Projects!GroupInv
<1> DEFINE add == Projects!ToAdd(job)
<1>2. ASSUME job.target = "parent"
      PROVE  /\ add \subseteq Groups \cup {Projects!Standin} /\ add \cap job.remove = {}
             /\ job.remove \subseteq unwanted \cap Projects!Listed
             /\ add # {} \/ ~(parent \subseteq job.remove)
             /\ parent \subseteq job.remove => add # {} /\ add \cap parent = {}
  <2>1. Projects!AtParent
    BY <1>1, <1>2 DEF Projects!AtParent
  <2>2. /\ job.add \subseteq Groups \cup {Projects!Standin} /\ job.add \cap job.remove = {}
        /\ job.remove \subseteq unwanted \cap Projects!Listed /\ parent # {}
    BY <2>1 DEF Projects!GroupInv
  <2>3. Projects!Standin \notin job.remove
    BY <2>2, Parameters DEF Projects!Listed, Projects!Standin, Projects!GroupParameters
  <2>4. add = job.add
           \/ (add = {Projects!Standin} /\ job.add = {} /\ parent \subseteq job.remove)
    BY DEF Projects!ToAdd
  <2>5. parent \subseteq job.remove => add # {}
    <3> SUFFICES ASSUME parent \subseteq job.remove, add = {} PROVE FALSE
      OBVIOUS
    <3>1. add = job.add
      BY <2>4
    <3>2. job.remove # {}
      BY <2>2
    <3>3. add = {Projects!Standin}
      BY <1>2, <3>1, <3>2 DEF Projects!ToAdd
    <3> QED BY <3>3
  <2> HIDE DEF add
  <2> QED BY <2>2, <2>3, <2>4, <2>5
<1>3. CASE Projects!Conflict(add, job.remove)
  <2>1. /\ pc' = "again"
        /\ job' = [job EXCEPT !.add = add \ Projects!Current(job.target),
                              !.remove = job.remove \cap Projects!Current(job.target)]
        /\ UNCHANGED <<entry, parent, snap, groupTodo, managed, untouchable>>
    BY <1>3 DEF Projects!ModifyMembers
  <2>2. CASE job.target # "parent"
    <3>1. job'.target = job.target
      BY <2>1
    <3>2. Projects!AtWork' /\ ~Projects!AtParent'
      BY <2>1, <2>2, <3>1 DEF Projects!AtWork, Projects!AtParent
    <3>3. managed' \subseteq Projects!Listed /\ job'.target \in Groups
      BY <1>1, <2>1, <2>2, <3>1 DEF Projects!GroupInv
    <3>4. Projects!GroupInv'
      BY <1>1, <2>1, <3>2, <3>3, WorkKeeps
    <3> QED BY <2>1, <3>4 DEF Projects!ParentLosesOnlyUnwanted, Projects!GroupInv
  <2>3. CASE job.target = "parent"
    <3>0. DOMAIN job \in {DOMAIN job} /\ Projects!Current(job.target) = parent
      BY <2>3 DEF Projects!Current
    <3>1. job'.target = job.target
      BY <2>1
    <3>2. job'.add = add \ parent
      BY <2>1, <3>0
    <3>3. job'.remove = job.remove \cap parent
      BY <2>1, <3>0
    <3> HIDE DEF add
    <3>4. /\ job'.add \subseteq Groups \cup {Projects!Standin}
          /\ job'.remove \subseteq unwanted \cap Projects!Listed
          /\ job'.add \cap job'.remove = {}
          /\ (job'.add # {} \/ ~(parent \subseteq job'.remove))
      BY <1>2, <2>3, <3>2, <3>3
    <3>5. Projects!EventNotLost'
      BY <1>1, <2>1 DEF Projects!GroupInv, Projects!EventNotLost
    <3>6. Projects!AtWork' /\ Projects!AtParent'
      BY <2>1, <2>3, <3>1 DEF Projects!AtWork, Projects!AtParent
    <3>7. \A g \in Projects!Listed :
             /\ Projects!Wanted(waldur, g)' <=> Projects!Wanted(waldur, g)
             /\ Projects!Wanted(snap.waldur, g)' <=> Projects!Wanted(snap.waldur, g)
      BY <1>1, <2>1 DEF Projects!Wanted
    <3>8. Projects!GroupInv'
      BY <1>1, <2>1, <2>3, <3>1, <3>4, <3>5, <3>6, <3>7 DEF Projects!GroupInv
    <3> QED BY <2>1, <3>8 DEF Projects!ParentLosesOnlyUnwanted, Projects!GroupInv
  <2> QED BY <2>2, <2>3
<1>4. CASE ~Projects!Conflict(add, job.remove)
  <2>1. Projects!Write(add, job.remove) /\ Projects!AfterJob
    BY <1>4 DEF Projects!ModifyMembers
  <2> HIDE DEF add
  <2>2. CASE job.target = "parent"
    BY <1>1, <1>2, <2>1, <2>2, ParentWritten
  <2>3. CASE job.target # "parent"
    BY <1>1, <2>1, <2>3, GroupWritten
  <2> QED BY <2>2, <2>3
<1> QED BY <1>3, <1>4

\* The second attempt.
LEMMA AgainKeeps == ASSUME Projects!GroupInv, Projects!ModifyAgain
                    PROVE  Projects!GroupInv' /\ Projects!ParentLosesOnlyUnwanted
<1>1. /\ pc = "again" /\ Projects!AtWork /\ job.target \in Groups \cup {"parent"}
      /\ UNCHANGED <<waldur, waiting, groupMail, pending, unread, owed, unwanted>>
  BY DEF Projects!ModifyAgain, Projects!AtWork, Projects!GroupInv
<1>2. CASE Projects!Conflict(job.add, job.remove) /\ job.target = "parent"
  <2>1. Projects!EndPass /\ UNCHANGED parent
    BY <1>2 DEF Projects!ModifyAgain
  <2>2. Projects!GroupInv'
    BY <1>1, <2>1, EndKeeps DEF Projects!EndPass, Projects!GroupInv
  <2> QED BY <2>1, <2>2 DEF Projects!ParentLosesOnlyUnwanted, Projects!GroupInv
<1>3. CASE Projects!Conflict(job.add, job.remove) /\ job.target # "parent"
  <2>1. /\ untouchable' = untouchable \cup {job.target} /\ pc' = "groups"
        /\ job' = Projects!NoJob
        /\ UNCHANGED <<snap, groupTodo, managed, parent>>
    BY <1>3 DEF Projects!ModifyAgain, Projects!GiveUp
  <2> QED BY <1>1, <2>1, NextGroup
<1>4. CASE ~Projects!Conflict(job.add, job.remove)
  <2>1. Projects!Write(job.add, job.remove) /\ Projects!AfterJob
    BY <1>4 DEF Projects!ModifyAgain
  <2>2. CASE job.target = "parent"
    <3>1. Projects!AtParent
      BY <1>1, <2>2 DEF Projects!AtParent
    <3>2. /\ job.add \subseteq Groups \cup {Projects!Standin} /\ job.add \cap job.remove = {}
          /\ job.remove \subseteq unwanted /\ (job.add # {} \/ ~(parent \subseteq job.remove))
      BY <1>1, <3>1 DEF Projects!GroupInv
    <3> QED BY <1>1, <2>1, <2>2, <3>2, ParentWritten
  <2>3. CASE job.target # "parent"
    BY <1>1, <2>1, <2>3, GroupWritten
  <2> QED BY <2>2, <2>3
<1> QED BY <1>2, <1>3, <1>4

\* A directory operation raises.
LEMMA FailureKeeps == ASSUME Projects!GroupInv, Projects!OperationFails
                      PROVE  Projects!GroupInv' /\ Projects!ParentLosesOnlyUnwanted
<1>1. UNCHANGED <<waldur, parent, waiting, groupMail, pending, unread, owed, unwanted>>
  BY DEF Projects!OperationFails, Projects!dir
<1>2. CASE /\ pc \in {"modify", "again"} /\ job.target \in Groups
           /\ Projects!GiveUp(job.target) /\ pc' = "groups" /\ job' = Projects!NoJob
           /\ UNCHANGED <<snap, groupTodo, managed>>
  BY <1>1, <1>2, NextGroup DEF Projects!AtWork, Projects!GiveUp
<1>3. CASE pc \in {"modify", "again"} /\ Projects!EndPass
  <2>1. Projects!GroupInv'
    BY <1>1, <1>3, EndKeeps DEF Projects!EndPass, Projects!GroupInv
  <2> QED BY <1>1, <2>1 DEF Projects!ParentLosesOnlyUnwanted, Projects!GroupInv
<1>4. CASE /\ pc = "groups"
           /\ \E g \in groupTodo : groupTodo' = groupTodo \ {g} /\ Projects!GiveUp(g)
           /\ UNCHANGED <<pc, snap, managed, job>>
  BY <1>1, <1>4, NextGroup DEF Projects!AtWork, Projects!GiveUp
<1> QED BY <1>2, <1>3, <1>4 DEF Projects!OperationFails

\* Every step keeps the invariant, and takes only what was unwanted from the parent.
LEMMA GroupStepsKeep ==
    ASSUME Projects!GroupInv, [Projects!GroupNext]_(Projects!gvars)
    PROVE  Projects!GroupInv'
              /\ (Projects!ParentLosesOnlyUnwanted \/ UNCHANGED Projects!gvars)
<1>1. CASE UNCHANGED Projects!gvars
  BY <1>1 DEF Projects!gvars, Projects!dir, Projects!pass, Projects!GroupInv,
     Projects!EventNotLost, Projects!AtWork, Projects!AtParent, Projects!Wanted
<1>2. ASSUME NEW g \in Projects!Listed, NEW r \in Projects!Row,
             Projects!Change(g, r)
      PROVE  Projects!GroupInv' /\ Projects!ParentLosesOnlyUnwanted
  BY <1>2, ChangeKeeps DEF Projects!ParentLosesOnlyUnwanted, Projects!GroupInv,
     Projects!Change, Projects!dir
<1>3. ASSUME NEW g \in Projects!Listed, Projects!Sibling(g)
      PROVE  Projects!GroupInv' /\ Projects!ParentLosesOnlyUnwanted
  <2>1. Projects!GroupInv'
    BY <1>3, SiblingKeeps
  <2>2. parent \subseteq parent'
    BY <1>3 DEF Projects!Sibling
  <2> QED BY <2>1, <2>2 DEF Projects!ParentLosesOnlyUnwanted, Projects!GroupInv
<1>4. CASE Projects!OnEvent \/ Projects!TimerFires
         \/ (\E ok \in BOOLEAN : Projects!Periodic(ok)) \/ Projects!AgentRestarts
            \/ Projects!Lock
  <2>1. Projects!GroupInv'
    BY <1>4, SchedulingKeeps
  <2>2. parent' = parent
    BY <1>4 DEF Projects!OnEvent, Projects!TimerFires, Projects!Periodic,
       Projects!AgentRestarts, Projects!Lock, Projects!dir
  <2> QED BY <2>1, <2>2 DEF Projects!ParentLosesOnlyUnwanted, Projects!GroupInv
<1>5. CASE Projects!Fetch \/ Projects!FetchFails
  <2>1. Projects!GroupInv'
    BY <1>5, FetchKeeps
  <2>2. parent' = parent
    BY <1>5 DEF Projects!Fetch, Projects!FetchFails, Projects!dir
  <2> QED BY <2>1, <2>2 DEF Projects!ParentLosesOnlyUnwanted, Projects!GroupInv
<1>6. ASSUME NEW g \in Projects!Listed, Projects!ReconcileGroup(g)
      PROVE  Projects!GroupInv' /\ Projects!ParentLosesOnlyUnwanted
  <2>1. Projects!GroupInv'
    BY <1>6, ReconcileGroupKeeps
  <2>2. parent' = parent
    BY <1>6 DEF Projects!ReconcileGroup
  <2> QED BY <2>1, <2>2 DEF Projects!ParentLosesOnlyUnwanted, Projects!GroupInv
<1>7. CASE Projects!ReconcileParent
  <2>1. Projects!GroupInv'
    BY <1>7, ReconcileParentKeeps
  <2>2. parent' = parent
    BY <1>7 DEF Projects!ReconcileParent, Projects!dir
  <2> QED BY <2>1, <2>2 DEF Projects!ParentLosesOnlyUnwanted, Projects!GroupInv
<1>8. CASE Projects!ModifyMembers \/ Projects!ModifyAgain \/ Projects!OperationFails
  BY <1>8, ModifyKeeps, AgainKeeps, FailureKeeps
<1> QED BY <1>1, <1>2, <1>3, <1>4, <1>5, <1>6, <1>7, <1>8 DEF Projects!GroupNext,
       Projects!PassStep

-----------------------------------------------------------------------------
(* The members of a resource.                                                *)

\* No pass runs at first.
LEMMA SyncBegins == Team!SyncInit => Team!SyncInv
<1> SUFFICES ASSUME Team!SyncInit PROVE Team!SyncInv
  OBVIOUS
<1>1. Team!NoPass \in Team!SyncRuns /\ Team!NoPass.pc = "idle"
  BY DEF Team!NoPass, Team!SyncRuns
<1> QED BY <1>1 DEF Team!SyncInit, Team!SyncInv, Team!Names

\* A step of the pass that only goes on keeps what it read.
LEMMA SyncStepGoes ==
    ASSUME run \in Team!SyncRuns, NEW c, Team!Step(c),
           c \in {"team", "restrict", "add", "remove", "accounts", "status", "finish"}
    PROVE  /\ run' \in Team!SyncRuns /\ run'.pc = c /\ run'.stale = run.stale
BY DEF Team!Step, Team!SyncRuns

\* A step of the membership processor keeps the invariant, and takes nobody off the
\* resource who was in the team, or was an account, ever since the pull.
LEMMA SyncStepsKeep ==
    ASSUME Team!SyncInv, [Team!SyncNext]_(Team!mvars)
    PROVE  Team!SyncInv' /\ Team!NoFalseRemoval
<1>1. Team!NoPass \in Team!SyncRuns /\ Team!NoPass.pc = "idle"
  BY DEF Team!NoPass, Team!SyncRuns
<1>2. /\ run \in Team!SyncRuns /\ team \subseteq TeamUsers
      /\ live \subseteq ServiceAccounts /\ members \subseteq Team!Names
      /\ restricted \in BOOLEAN /\ flag \in BOOLEAN
  BY DEF Team!SyncInv
<1>3. CASE Team!Pull
  <2>1. PICK s : s = [Team!NoPass EXCEPT !.pc = "team", !.pulled = members,
            !.restricted = restricted,
                             !.flag = flag, !.erred = (syncState = "ERRED")]
    OBVIOUS
  <2>2. s \in Team!SyncRuns /\ s.pc = "team"
    BY <1>2, <2>1 DEF Team!NoPass, Team!SyncRuns
  <2>3. run' = s
    BY <1>3, <2>1 DEF Team!Pull
  <2> QED BY <1>3, <2>2, <2>3 DEF Team!Pull, Team!SyncInv, Team!NoFalseRemoval,
         Team!RemoveUsersFromResource, Team!waldur
<1>4. CASE Team!GroupResourceUsernames
  <2>1. PICK registered \in {TeamUsers \cup ServiceAccounts} \cup SUBSET TeamUsers,
            listed \in BOOLEAN :
          run' = [run EXCEPT !.pc = IF run.restricted THEN "restrict" ELSE "add",
                             !.existing = team \cap run.pulled, !.new = team \ run.pulled,
                             !.stale = IF listed
                                THEN Team!Stale(run.pulled, registered) ELSE {},
                             !.listed = listed, !.live = live]
    BY <1>4 DEF Team!GroupResourceUsernames
  <2>2. PICK stale : stale = IF listed THEN Team!Stale(run.pulled, registered) ELSE {}
    OBVIOUS
  <2>3. run.pc = "team" /\ UNCHANGED <<Team!waldur, preserve, members, absent>>
    BY <1>4 DEF Team!GroupResourceUsernames, Team!limits
  <2>4. run.pulled \subseteq Team!Names /\ run.restricted \in BOOLEAN
    BY <1>2 DEF Team!SyncRuns
  <2>5. stale \subseteq run.pulled \ (team \cup live)
           /\ (preserve => stale \subseteq registered)
    BY <2>2 DEF Team!Stale
  <2>6. \A n \in stale : n \in absent \/ (n \in Outsiders /\ ~preserve)
    BY <2>3, <2>4, <2>5 DEF Team!SyncInv, Team!Names
  <2>7. PICK c : c = IF run.restricted THEN "restrict" ELSE "add"
    OBVIOUS
  <2>8. run' = [run EXCEPT !.pc = c, !.existing = team \cap run.pulled,
            !.new = team \ run.pulled,
                           !.stale = stale, !.listed = listed, !.live = live]
    BY <2>1, <2>2, <2>7
  <2>9. stale \subseteq Team!Names /\ team \ run.pulled \subseteq Team!Names
           /\ live \subseteq Team!Names
        /\ team \cap run.pulled \subseteq Team!Names /\ c \in {"restrict", "add"}
    BY <1>2, <2>4, <2>5, <2>7 DEF Team!Names
  <2>10. run' \in Team!SyncRuns /\ run'.pc = c /\ run'.stale = stale
    BY <1>2, <2>8, <2>9 DEF Team!SyncRuns
  <2> QED BY <2>3, <2>6, <2>9, <2>10 DEF Team!SyncInv, Team!NoFalseRemoval,
         Team!RemoveUsersFromResource, Team!waldur
<1>5. CASE Team!AddUsersToResource
  <2>1. Team!Step("remove") /\ run.pc = "add" /\ UNCHANGED <<Team!waldur, preserve, absent>>
    BY <1>5 DEF Team!AddUsersToResource, Team!limits
  <2>2. members' \subseteq Team!Names
    BY <1>2, <1>5 DEF Team!AddUsersToResource, Team!SyncRuns
  <2>3. run' \in Team!SyncRuns /\ run'.pc = "remove" /\ run'.stale = run.stale
    BY <1>2, <2>1, SyncStepGoes
  <2> QED BY <2>1, <2>2, <2>3 DEF Team!SyncInv, Team!NoFalseRemoval,
         Team!RemoveUsersFromResource, Team!waldur
<1>6. CASE Team!RemoveUsersFromResource
  <2>1. Team!Step("accounts") /\ run.pc = "remove"
           /\ UNCHANGED <<Team!waldur, preserve, absent>>
    BY <1>6 DEF Team!RemoveUsersFromResource, Team!limits
  <2>2. members' \subseteq members /\ members \ members' \subseteq run.stale
    BY <1>6 DEF Team!RemoveUsersFromResource
  <2>3. run' \in Team!SyncRuns /\ run'.pc = "accounts"
    BY <1>2, <2>1, SyncStepGoes
  <2> QED BY <2>1, <2>2, <2>3 DEF Team!SyncInv, Team!NoFalseRemoval, Team!waldur
<1>7. CASE Team!RestrictMembers
  <2>1. Team!Step("accounts") /\ run.pc = "restrict" /\ members' \subseteq members
           /\ UNCHANGED <<Team!waldur, absent>>
    BY <1>7 DEF Team!RestrictMembers
  <2>2. run' \in Team!SyncRuns /\ run'.pc = "accounts"
    BY <1>2, <2>1, SyncStepGoes
  <2> QED BY <2>1, <2>2 DEF Team!SyncInv, Team!NoFalseRemoval, Team!RemoveUsersFromResource,
         Team!waldur
<1>8. CASE Team!SyncResourceServiceAccounts
  <2>1. Team!Step("status") /\ run.pc = "accounts" /\ UNCHANGED <<Team!waldur, absent>>
    BY <1>8 DEF Team!SyncResourceServiceAccounts
  <2>2. members' \subseteq Team!Names
    BY <1>2, <1>8 DEF Team!SyncResourceServiceAccounts, Team!SyncRuns, Team!Names
  <2>3. run' \in Team!SyncRuns /\ run'.pc = "status"
    BY <1>2, <2>1, SyncStepGoes
  <2> QED BY <2>1, <2>2, <2>3 DEF Team!SyncInv, Team!NoFalseRemoval,
         Team!RemoveUsersFromResource, Team!waldur
<1>9. CASE Team!SyncResourceStatus
  <2>1. Team!Step("finish") /\ run.pc = "status" /\ UNCHANGED <<Team!waldur, members, absent>>
    BY <1>9 DEF Team!SyncResourceStatus
  <2>2. run' \in Team!SyncRuns /\ run'.pc = "finish"
    BY <1>2, <2>1, SyncStepGoes
  <2> QED BY <2>1, <2>2 DEF Team!SyncInv, Team!NoFalseRemoval, Team!RemoveUsersFromResource,
         Team!waldur
<1>10. CASE Team!FinishResource \/ Team!MarkErred \/ Team!TransientError
  <2>1. run' = Team!NoPass /\ UNCHANGED <<Team!waldur, members>>
    BY <1>10 DEF Team!FinishResource, Team!MarkErred, Team!TransientError
  <2> QED BY <1>1, <2>1 DEF Team!SyncInv, Team!NoFalseRemoval, Team!waldur
<1>11. CASE Team!SkipStep
  <2>1. PICK c : c = CASE run.pc = "team" -> "accounts" [] run.pc = "accounts" -> "status"
                       [] OTHER -> "finish"
    OBVIOUS
  <2>2. run.pc \in {"team", "accounts", "status"}
           /\ UNCHANGED <<Team!waldur, members, absent>>
    BY <1>11 DEF Team!SkipStep
  <2>3. c \in {"accounts", "status", "finish"} /\ Team!Step(c)
    BY <1>11, <2>1, <2>2 DEF Team!SkipStep
  <2>4. run' \in Team!SyncRuns /\ run'.pc = c
    BY <1>2, <2>3, SyncStepGoes
  <2> QED BY <2>2, <2>3, <2>4 DEF Team!SyncInv, Team!NoFalseRemoval,
         Team!RemoveUsersFromResource, Team!waldur
<1>12. CASE Team!StatusReads \/ Team!ReconcileResourceStatus
          \/ (\E e \in mail : Team!LoseEvent(e)) \/ UNCHANGED Team!mvars
  <2>1. UNCHANGED <<Team!waldur, preserve, members, run, absent>>
    BY <1>12 DEF Team!StatusReads, Team!ReconcileResourceStatus, Team!LoseEvent, Team!mvars,
       Team!waldur, Team!limits
  <2> QED BY <1>2, <2>1 DEF Team!SyncInv, Team!NoFalseRemoval, Team!waldur
<1>13. CASE \/ \E u \in TeamUsers, g \in BOOLEAN : Team!ProcessUserRoleChanged(u, g)
            \/ \E a \in ServiceAccounts : Team!ProcessAccountCreation(a)
               \/ Team!ProcessAccountRemoval(a)
  <2>1. UNCHANGED <<Team!waldur, preserve, run, absent>> /\ members' \subseteq Team!Names
    BY <1>2, <1>13 DEF Team!ProcessUserRoleChanged, Team!ProcessAccountCreation,
       Team!ProcessAccountRemoval, Team!limits, Team!Names
  <2>2. ~Team!RemoveUsersFromResource
    <3>1. SUFFICES ASSUME Team!RemoveUsersFromResource PROVE FALSE
      OBVIOUS
    <3>2. run'.pc = "accounts" /\ run.pc = "remove"
      BY <1>2, <3>1, SyncStepGoes DEF Team!RemoveUsersFromResource
    <3> QED BY <2>1, <3>2
  <2> QED BY <2>1, <2>2 DEF Team!SyncInv, Team!NoFalseRemoval, Team!waldur
<1>14. CASE \E n \in TeamUsers \cup ServiceAccounts : Team!Change(n)
  <2>1. PICK n \in TeamUsers \cup ServiceAccounts : Team!Change(n)
    BY <1>14
  <2>2. /\ UNCHANGED <<restricted, flag, preserve, members, run>>
        /\ team' = IF n \in TeamUsers THEN IF n \in team
              THEN team \ {n} ELSE team \cup {n} ELSE team
        /\ live' = IF n \in ServiceAccounts THEN IF n \in live
              THEN live \ {n} ELSE live \cup {n} ELSE live
        /\ absent' = IF n \in team \cup live
              /\ run.pc # "idle" THEN absent \cup {n} ELSE absent
    BY <2>1 DEF Team!Change
  <2>3. team' \subseteq TeamUsers /\ live' \subseteq ServiceAccounts
           /\ absent \subseteq absent'
    BY <1>2, <2>2
  <2>4. run.pc # "idle"
           => ((TeamUsers \ team) \cup (ServiceAccounts \ live))' \subseteq absent'
    BY <1>2, <2>2 DEF Team!SyncInv
  <2>5. \A m \in run.stale : m \in absent \/ (m \in Outsiders /\ ~preserve)
           => m \in absent' \/ (m \in Outsiders /\ ~preserve')
    BY <2>2, <2>3
  <2> QED BY <1>2, <2>2, <2>3, <2>4, <2>5 DEF Team!SyncInv, Team!NoFalseRemoval
<1>15. CASE Team!SetFlags
  <2>1. UNCHANGED <<team, live, preserve, members, run, absent>>
           /\ restricted' \in BOOLEAN /\ flag' \in BOOLEAN
    BY <1>2, <1>15 DEF Team!SetFlags
  <2> QED BY <1>2, <2>1 DEF Team!SyncInv, Team!NoFalseRemoval
<1> QED BY <1>3, <1>4, <1>5, <1>6, <1>7, <1>8, <1>9, <1>10, <1>11, <1>12, <1>13, <1>14, <1>15
        DEF Team!SyncNext, Team!PassSteps

-----------------------------------------------------------------------------
(* The usernames.                                                            *)

\* No user is being named at first.
LEMMA NamesBegin == Naming!NameInit => Naming!NameInv
  <1> SUFFICES ASSUME Naming!NameInit PROVE Naming!NameInv
    OBVIOUS
  <1>1. Naming!Idle.step = "idle"
    BY DEF Naming!Idle
  <1>2. rows \in [Holders -> Naming!Records]
    BY DEF Naming!NameInit, Naming!RowStates, Naming!Early, Naming!Records
  <1>3. todo \in [Namers -> SUBSET (Holders \X Naming!Early)]
    BY DEF Naming!NameInit
  <1>4. nameAt \in [Namers -> {Naming!Idle} \cup Naming!Jobs]
    BY DEF Naming!NameInit
  <1>5. ASSUME NEW t \in Namers PROVE nameAt[t].step = "idle"
    BY <1>1 DEF Naming!NameInit
  <1> QED
    BY <1>2, <1>3, <1>4, <1>5 DEF Naming!NameInv, Naming!NameInit, Naming!Prepared

\* A user who is being named is the job of the thread.
LEMMA AtAJob ==
    ASSUME Naming!NameInv, NEW t \in Namers, nameAt[t].step # "idle"
    PROVE  nameAt[t] \in Naming!Jobs
  <1>1. Naming!Idle.step = "idle"
    BY DEF Naming!Idle
  <1>2. nameAt[t] = Naming!Idle \/ nameAt[t] \in Naming!Jobs
    BY DEF Naming!NameInv, Naming!Prepared
  <1> QED
    BY <1>1, <1>2

\* The work of a thread goes on within its types, and a name is at hand when it writes.
LEMMA JobGoesOn ==
    ASSUME Naming!NameInv, NEW t \in Namers, NEW j \in {Naming!Idle} \cup Naming!Jobs,
           j.step \in {"complete", "patch"} => j.name,
           nameAt' = [nameAt EXCEPT ![t] = j]
    PROVE  Naming!Prepared'
  <1>1. nameAt \in [Namers -> {Naming!Idle} \cup Naming!Jobs]
    BY DEF Naming!NameInv, Naming!Prepared
  <1>2. nameAt' \in [Namers -> {Naming!Idle} \cup Naming!Jobs]
    BY <1>1
  <1>3. ASSUME NEW s \in Namers PROVE nameAt'[s] = IF s = t THEN j ELSE nameAt[s]
    BY <1>1
  <1> QED
    BY <1>2, <1>3 DEF Naming!NameInv, Naming!Prepared

\* A refused transition changes nothing, and no transition takes a row from OK.
LEMMA TransitionKeeps ==
    ASSUME Naming!NameInv, NEW u \in Holders, NEW from,
           NEW to \in Naming!RowStates, "ok" \notin from
    PROVE  /\ Naming!Transition(u, from, to) \in [Holders -> Naming!Records]
           /\ \A v \in Holders : rows[v].state = "ok"
                 => Naming!Transition(u, from, to)[v] = rows[v]
  <1>1. rows \in [Holders -> Naming!Records]
    BY DEF Naming!NameInv
  <1>2. CASE rows[u].state \in from
    <2>1. Naming!Transition(u, from, to) = [rows EXCEPT ![u].state = to]
      BY <1>2 DEF Naming!Transition
    <2> QED
      BY <1>1, <1>2, <2>1 DEF Naming!Records
  <1>3. CASE rows[u].state \notin from
    BY <1>1, <1>3 DEF Naming!Transition
  <1> QED
    BY <1>2, <1>3

\* A step of the naming keeps the invariant and every ready account.
LEMMA NameStepsKeep ==
    ASSUME Naming!NameInv, [Naming!NameNext]_(Naming!nvars)
    PROVE  Naming!NameInv' /\ Naming!NamedStays
  <1>1. rows \in [Holders -> Naming!Records]
    BY DEF Naming!NameInv
  <1>t. todo \in [Namers -> SUBSET (Holders \X Naming!Early)]
    BY DEF Naming!NameInv
  <1>a. nameAt \in [Namers -> {Naming!Idle} \cup Naming!Jobs]
    BY DEF Naming!NameInv, Naming!Prepared
  <1>2. CASE UNCHANGED Naming!nvars
    <2>1. Naming!NameInv'
      BY <1>2 DEF Naming!NameInv, Naming!nvars, Naming!Prepared
    <2> QED
      BY <1>2, <2>1 DEF Naming!nvars, Naming!NamedStays
  <1>3. CASE Naming!IdpChanges
    <2>1. answer' \in [Holders -> Naming!Answers]
      BY <1>3 DEF Naming!IdpChanges, Naming!NameInv
    <2> QED
      BY <1>3, <2>1 DEF Naming!IdpChanges, Naming!NameInv, Naming!NamedStays, Naming!Prepared
  <1> SUFFICES ASSUME NEW t \in Namers, Naming!NameStep(t) \/ Naming!PassInterrupted(t)
               PROVE  Naming!NameInv' /\ Naming!NamedStays
    BY <1>2, <1>3 DEF Naming!NameNext
  <1>4. Naming!Idle \in {Naming!Idle} \cup Naming!Jobs /\ Naming!Idle.step = "idle"
    BY DEF Naming!Idle
  <1>5. CASE Naming!PassInterrupted(t)
    <2>1. Naming!Prepared'
      BY <1>4, <1>5, JobGoesOn DEF Naming!PassInterrupted
    <2>2. todo' \in [Namers -> SUBSET (Holders \X Naming!Early)]
      BY <1>5, <1>t DEF Naming!PassInterrupted
    <2> QED
      BY <1>5, <2>1, <2>2 DEF Naming!PassInterrupted, Naming!NameInv, Naming!NamedStays
  <1>6. CASE Naming!UpdateOfferingUsers(t)
    <2>1. todo' \in [Namers -> SUBSET (Holders \X Naming!Early)]
      <3> DEFINE L == {u \in Holders : /\ Naming!Listed(rows[u])
                                       /\ Naming!GroupUsersByState(rows[u])}
                 J == {<<u, rows[u].state>> : u \in L}
      <3>1. todo' = [todo EXCEPT ![t] = J]
        BY <1>6 DEF Naming!UpdateOfferingUsers
      <3>2. J \subseteq Holders \X Naming!Early
        BY DEF Naming!Listed
      <3> QED
        BY <1>t, <3>1, <3>2
    <2> QED
      BY <1>6, <2>1 DEF Naming!UpdateOfferingUsers, Naming!NameInv, Naming!NamedStays,
         Naming!Prepared
  <1>7. CASE Naming!TakeUser(t)
    <2>1. PICK j \in todo[t] :
             /\ todo' = [todo EXCEPT ![t] = @ \ {j}]
             /\ nameAt' = [nameAt EXCEPT ![t] = [user |-> j[1], seen |-> j[2],
                 step |-> IF j[2] \in {"requested", "error"}
                    THEN "begin" ELSE "name", name |-> FALSE]]
      BY <1>7 DEF Naming!TakeUser
    <2>2. j \in Holders \X Naming!Early
      BY <1>t
    <2>3. todo' \in [Namers -> SUBSET (Holders \X Naming!Early)]
      BY <1>t, <2>1
    <2> DEFINE n == [user |-> j[1], seen |-> j[2], step |-> IF j[2] \in {"requested",
            "error"} THEN "begin" ELSE "name", name |-> FALSE]
    <2>4. n \in Naming!Jobs /\ n.step \notin {"complete", "patch"}
      BY <2>2 DEF Naming!Jobs, Naming!Steps
    <2>5. Naming!Prepared'
      <3>1. nameAt' = [nameAt EXCEPT ![t] = n]
        BY <2>1
      <3> HIDE DEF n
      <3> QED
        BY <2>4, <3>1, JobGoesOn
    <2> QED
      BY <1>7, <2>3, <2>5 DEF Naming!TakeUser, Naming!NameInv, Naming!NamedStays
  \* From here on the thread has a user.
  <1>8. CASE Naming!GetOrCreateUsername(t)
    <2> DEFINE a == answer[nameAt[t].user]
    <2>1. nameAt[t] \in Naming!Jobs
      BY <1>8, AtAJob DEF Naming!GetOrCreateUsername
    <2>2. Naming!Prepared'
      <3>1. CASE a \in Naming!Refusals /\ nameAt' = [nameAt EXCEPT ![t].step = a]
        <4>1. PICK j : j = [nameAt[t] EXCEPT !.step = a]
          OBVIOUS
        <4>2. j \in Naming!Jobs /\ j.step \notin {"complete", "patch"}
          BY <2>1, <3>1, <4>1 DEF Naming!Jobs, Naming!Steps, Naming!Refusals, Naming!Answers
        <4>3. nameAt' = [nameAt EXCEPT ![t] = j]
          BY <3>1, <4>1
        <4> QED
          BY <4>2, <4>3, JobGoesOn
      <3>2. CASE /\ Naming!Writes(a)
                 /\ nameAt' = [nameAt EXCEPT
                                 ![t].step = IF nameAt[t].seen \in Naming!Pending
                                             THEN "complete" ELSE "patch",
                                 ![t].name = (a = "ready")]
        <4>1. PICK j : j = [nameAt[t] EXCEPT
                              !.step = IF nameAt[t].seen \in Naming!Pending
                                       THEN "complete" ELSE "patch",
                              !.name = TRUE]
          OBVIOUS
        <4>2. j \in Naming!Jobs /\ j.name
          BY <2>1, <4>1 DEF Naming!Jobs, Naming!Steps
        <4>3. a = "ready"
          BY <3>2 DEF Naming!Writes
        <4>4. nameAt' = [nameAt EXCEPT ![t] = j]
          BY <3>2, <4>1, <4>3, <1>a
        <4> QED
          BY <4>2, <4>4, JobGoesOn
      <3>3. CASE nameAt' = [nameAt EXCEPT ![t] = Naming!Idle]
        BY <3>3, <1>4, JobGoesOn
      <3> QED
        BY <1>8, <3>1, <3>2, <3>3 DEF Naming!GetOrCreateUsername
    <2> QED
      BY <1>8, <2>2 DEF Naming!GetOrCreateUsername, Naming!NameInv, Naming!NamedStays
  <1>9. ASSUME NEW R, nameAt[t].step \notin {"complete", "patch"} \/ nameAt[t].name,
               nameAt[t].step # "idle", nameAt' = [nameAt EXCEPT ![t].step = R],
               R \in {"name"} \/ (R = "patch" /\ nameAt[t].name)
        PROVE  Naming!Prepared'
    <2>1. PICK j : j = [nameAt[t] EXCEPT !.step = R]
      OBVIOUS
    <2>2. nameAt[t] \in Naming!Jobs
      BY <1>9, AtAJob
    <2>3. j \in Naming!Jobs /\ (j.step \in {"complete", "patch"} => j.name)
      BY <1>9, <2>1, <2>2 DEF Naming!Jobs, Naming!Steps
    <2>4. nameAt' = [nameAt EXCEPT ![t] = j]
      BY <1>9, <2>1
    <2> QED
      BY <2>3, <2>4, JobGoesOn
  <1>10. CASE Naming!BeginCreating(t)
    <2>1. nameAt[t] \in Naming!Jobs
      BY <1>10, AtAJob DEF Naming!BeginCreating
    <2>2. nameAt[t].user \in Holders
      BY <2>1 DEF Naming!Jobs
    <2>3. /\ rows' \in [Holders -> Naming!Records]
          /\ \A v \in Holders : rows[v].state = "ok" => rows'[v] = rows[v]
      BY <1>10, <2>2, TransitionKeeps DEF Naming!BeginCreating, Naming!RowStates, Naming!Early
    <2>4. Naming!Prepared'
      <3>1. CASE nameAt' = [nameAt EXCEPT ![t].step = "name"]
        BY <1>9, <1>10, <3>1 DEF Naming!BeginCreating
      <3>2. CASE nameAt' = [nameAt EXCEPT ![t] = Naming!Idle]
        BY <3>2, <1>4, JobGoesOn
      <3> QED
        BY <1>10, <3>1, <3>2 DEF Naming!BeginCreating
    <2> QED
      BY <1>10, <2>3, <2>4 DEF Naming!BeginCreating, Naming!NameInv, Naming!NamedStays
  <1>11. CASE Naming!SetValidationComplete(t)
    <2>1. nameAt[t] \in Naming!Jobs
      BY <1>11, AtAJob DEF Naming!SetValidationComplete
    <2>2. nameAt[t].user \in Holders
      BY <2>1 DEF Naming!Jobs
    <2>3. /\ rows' \in [Holders -> Naming!Records]
          /\ \A v \in Holders : rows[v].state = "ok" => rows'[v] = rows[v]
      BY <1>11, <2>2, TransitionKeeps DEF Naming!SetValidationComplete, Naming!RowStates,
         Naming!Pending
    <2>4. Naming!Prepared'
      <3>1. CASE nameAt' = [nameAt EXCEPT ![t].step = "patch"]
        BY <1>9, <1>11, <3>1 DEF Naming!SetValidationComplete, Naming!NameInv, Naming!Prepared
      <3>2. CASE nameAt' = [nameAt EXCEPT ![t] = Naming!Idle]
        BY <3>2, <1>4, JobGoesOn
      <3> QED
        BY <1>11, <3>1, <3>2 DEF Naming!SetValidationComplete
    <2> QED
      BY <1>11, <2>3, <2>4 DEF Naming!SetValidationComplete, Naming!NameInv, Naming!NamedStays
  <1>12. CASE Naming!HandleRefusal(t)
    <2>1. nameAt[t] \in Naming!Jobs
      BY <1>12, AtAJob DEF Naming!HandleRefusal, Naming!Refusals, Naming!Answers
    <2>2. nameAt[t].user \in Holders
      BY <2>1 DEF Naming!Jobs
    <2>3. /\ rows' \in [Holders -> Naming!Records]
          /\ \A v \in Holders : rows[v].state = "ok" => rows'[v] = rows[v]
      <3> DEFINE a == nameAt[t].step
      <3>1. rows' = Naming!OnRefusal(nameAt[t].user, nameAt[t].seen, a)
               /\ a \in Naming!Refusals
        BY <1>12 DEF Naming!HandleRefusal
      <3>2. CASE rows' = rows
        BY <1>1, <3>2
      <3>3. CASE rows' = Naming!Transition(nameAt[t].user, {"creating"}, "error")
        BY <2>2, <3>3, TransitionKeeps DEF Naming!RowStates, Naming!Early
      <3>4. CASE rows' = Naming!Transition(nameAt[t].user, {"creating",
                "error"} \cup (Naming!Pending \ {a}), a)
                 /\ a # "broken"
        <4>1. a \in Naming!RowStates
          BY <3>1, <3>4 DEF Naming!Refusals, Naming!Answers, Naming!RowStates, Naming!Early
        <4> QED
          BY <2>2, <3>4, <4>1, TransitionKeeps DEF Naming!Pending
      <3> QED
        BY <3>1, <3>2, <3>3, <3>4 DEF Naming!OnRefusal
    <2>4. Naming!Prepared'
      BY <1>12, <1>4, JobGoesOn DEF Naming!HandleRefusal
    <2> QED
      BY <1>12, <2>3, <2>4 DEF Naming!HandleRefusal, Naming!NameInv, Naming!NamedStays
  <1>13. CASE Naming!PatchUsername(t)
    <2> DEFINE u == nameAt[t].user
    <2>1. nameAt[t] \in Naming!Jobs /\ nameAt[t].name
      BY <1>13, AtAJob DEF Naming!PatchUsername, Naming!NameInv, Naming!Prepared
    <2>2. u \in Holders /\ nameAt[t].name = TRUE
      BY <2>1 DEF Naming!Jobs
    <2>3. rows' = [rows EXCEPT ![u] = [state |-> IF @.state \in {"creating", "error"}
             THEN "ok" ELSE @.state, named |-> TRUE]]
      BY <1>13, <2>2 DEF Naming!PatchUsername
    <2>4. rows' \in [Holders -> Naming!Records]
      BY <1>1, <2>2, <2>3 DEF Naming!RowStates, Naming!Records
    <2>5. ASSUME NEW v \in Holders, rows[v].named, rows[v].state = "ok"
          PROVE  rows'[v] = rows[v]
      <3>1. rows[v] \in Naming!Records
        BY <1>1
      <3>2. rows[v] = [state |-> "ok", named |-> TRUE]
        BY <2>5, <3>1 DEF Naming!Records
      <3>3. rows[v].state = "ok"
        BY <2>5
      <3>4. CASE v = u
        <4>1. rows'[v] = [state |-> IF rows[v].state \in {"creating", "error"}
                 THEN "ok" ELSE rows[v].state, named |-> TRUE]
          BY <1>1, <2>2, <2>3, <3>4
        <4>2. (IF rows[v].state \in {"creating", "error"} THEN "ok" ELSE rows[v].state) = "ok"
          BY <3>3
        <4> QED
          BY <3>2, <4>1, <4>2
      <3>5. CASE v # u
        BY <1>1, <2>2, <2>3, <3>5
      <3> QED
        BY <3>4, <3>5
    <2>6. Naming!Prepared'
      BY <1>13, <1>4, JobGoesOn DEF Naming!PatchUsername
    <2> QED
      BY <1>13, <2>4, <2>5, <2>6 DEF Naming!PatchUsername, Naming!NameInv, Naming!NamedStays
  <1> QED
    BY <1>5, <1>6, <1>7, <1>8, <1>10, <1>11, <1>12, <1>13 DEF Naming!NameStep

-----------------------------------------------------------------------------
(* The role groups.                                                          *)

\* At first no thread pulls, and a group is the site's or absent.
LEMMA RolesBegin == Roles!LrParameters /\ Roles!LrInit => Roles!LrInv
  <1> SUFFICES ASSUME Roles!LrParameters, Roles!LrInit PROVE Roles!LrInv
    OBVIOUS
  <1>1. lrEntry \in [Roles!GroupNames -> Roles!Entries]
    BY DEF Roles!LrInit, Roles!Absent, Roles!Entries
  <1>2. pulls \in [Pullers -> Roles!Readings]
    BY DEF Roles!LrInit, Roles!NoPull, Roles!Readings
  <1>3. lrGrants \in [Holdings -> SUBSET Roles!Grants] /\ inLdap \subseteq Fellows
    BY DEF Roles!LrInit
  <1>4. \A t \in Pullers : pulls[t] = Roles!NoPull
    BY DEF Roles!LrInit
  <1> QED
    BY <1>1, <1>2, <1>3, <1>4 DEF Roles!LrInv

\* The people a reading wants in a group are people.
LEMMA DesiredArePeople ==
    ASSUME NEW r, NEW gs \in SUBSET Roles!Grants, NEW n
    PROVE  Roles!Desired(r, gs, n) \subseteq Fellows
  BY DEF Roles!Desired, Roles!Grants

\* A pull keeps every group that has a marker with its marker, and those of the site
\* as they are.
LEMMA ReconciledKeeps ==
    ASSUME Roles!LrInv, NEW r \in Holdings, NEW gs \in SUBSET Roles!Grants, NEW failed,
           lrEntry' = Roles!Reconciled(r, gs, failed)
    PROVE  /\ lrEntry' \in [Roles!GroupNames -> Roles!Entries]
           /\ Roles!MarkersRespected
  <1>1. lrEntry \in [Roles!GroupNames -> Roles!Entries]
    BY DEF Roles!LrInv
  <1>2. r # "none" /\ r # "site"
    BY DEF Roles!LrInv, Roles!LrParameters
  <1>3. ASSUME NEW n \in Roles!GroupNames
        PROVE  /\ lrEntry'[n] \in Roles!Entries
               /\ lrEntry[n].owner = "site" => lrEntry'[n] = lrEntry[n]
               /\ lrEntry[n].owner # "none" => lrEntry'[n].owner = lrEntry[n].owner
    <2>1. PICK e : e = lrEntry[n]
      OBVIOUS
    <2>2. e \in Roles!Entries
      BY <1>1, <2>1
    <2>3. \/ lrEntry'[n] = e
          \/ /\ e.owner \in {"none", r}
             /\ lrEntry'[n] = [owner |-> r, members |-> Roles!SyncedMembers(e.members,
                 Roles!Desired(r, gs, n))]
          \/ e.owner = r /\ lrEntry'[n] = [e EXCEPT !.members = {}]
      BY <2>1 DEF Roles!Reconciled, Roles!EnsureOwnedGroup, Roles!Revoked
    <2>4. Roles!SyncedMembers(e.members, Roles!Desired(r, gs, n)) \subseteq Fellows
      BY <2>2, DesiredArePeople DEF Roles!SyncedMembers, Roles!Entries
    <2> QED
      BY <1>2, <2>1, <2>2, <2>3, <2>4 DEF Roles!Entries
  <1>4. lrEntry' = [n \in Roles!GroupNames |-> lrEntry'[n]]
    BY DEF Roles!Reconciled
  <1> QED
    BY <1>3, <1>4 DEF Roles!MarkersRespected

\* The same of a termination.
LEMMA DeletionKeeps ==
    ASSUME Roles!LrInv, NEW r \in Holdings, Roles!DeleteResource(r)
    PROVE  /\ lrEntry' \in [Roles!GroupNames -> Roles!Entries]
           /\ Roles!MarkersRespected
  <1>1. lrEntry \in [Roles!GroupNames -> Roles!Entries]
    BY DEF Roles!LrInv
  <1>2. r # "none" /\ r # "site"
    BY DEF Roles!LrInv, Roles!LrParameters
  <1> DEFINE emptied == [n \in Roles!GroupNames |-> IF lrEntry[n].owner = r
         THEN [lrEntry[n] EXCEPT !.members = {}] ELSE lrEntry[n]]
  <1>3. lrEntry' = emptied
           \/ \E n \in Roles!GroupNames : lrEntry' = [emptied EXCEPT ![n] = lrEntry[n]]
    BY DEF Roles!DeleteResource
  <1>4. ASSUME NEW n \in Roles!GroupNames
        PROVE  /\ emptied[n] \in Roles!Entries
               /\ emptied[n] = lrEntry[n] \/ lrEntry[n].owner = r
               /\ emptied[n].owner = lrEntry[n].owner
    <2>1. PICK e : e = lrEntry[n]
      OBVIOUS
    <2>2. e \in Roles!Entries
      BY <1>1, <2>1
    <2>3. emptied[n] = e \/ (e.owner = r /\ emptied[n] = [e EXCEPT !.members = {}])
      BY <2>1
    <2> QED
      BY <2>1, <2>2, <2>3 DEF Roles!Entries
  <1>5. emptied = [n \in Roles!GroupNames |-> emptied[n]]
    OBVIOUS
  <1> HIDE DEF emptied
  <1>6. /\ lrEntry' = [n \in Roles!GroupNames |-> lrEntry'[n]]
        /\ \A n \in Roles!GroupNames : lrEntry'[n] = emptied[n] \/ lrEntry'[n] = lrEntry[n]
    <2>1. CASE lrEntry' = emptied
      BY <1>5, <2>1
    <2>2. ASSUME NEW m \in Roles!GroupNames, lrEntry' = [emptied EXCEPT ![m] = lrEntry[m]]
          PROVE  /\ lrEntry' = [n \in Roles!GroupNames |-> lrEntry'[n]]
                 /\ \A n \in Roles!GroupNames : lrEntry'[n] = emptied[n]
                       \/ lrEntry'[n] = lrEntry[n]
      BY <1>5, <2>2
    <2> QED
      BY <1>3, <2>1, <2>2
  <1>7. ASSUME NEW n \in Roles!GroupNames
        PROVE  /\ lrEntry'[n] \in Roles!Entries
               /\ lrEntry[n].owner = "site" => lrEntry'[n] = lrEntry[n]
               /\ lrEntry[n].owner # "none" => lrEntry'[n].owner = lrEntry[n].owner
    BY <1>1, <1>2, <1>4, <1>6
  <1> QED
    BY <1>6, <1>7 DEF Roles!MarkersRespected

\* A step of the role groups keeps the invariant and the marked groups.
LEMMA RoleStepsKeep ==
    ASSUME Roles!LrInv, [Roles!LrNext]_(Roles!lrvars)
    PROVE  Roles!LrInv' /\ Roles!MarkersRespected
  <1>1. pulls \in [Pullers -> Roles!Readings]
           /\ lrGrants \in [Holdings -> SUBSET Roles!Grants]
    BY DEF Roles!LrInv
  <1>2. CASE UNCHANGED Roles!lrvars
    <2>1. Roles!LrInv'
      BY <1>2 DEF Roles!LrInv, Roles!lrvars
    <2> QED
      BY <1>2, <2>1 DEF Roles!lrvars, Roles!MarkersRespected
  <1>3. CASE Roles!LrEdit
    <2>1. lrGrants' \in [Holdings -> SUBSET Roles!Grants]
      <3>1. CASE UNCHANGED lrGrants
        BY <1>1, <3>1
      <3>2. ASSUME NEW r \in Holdings, NEW g \in Roles!Grants,
                   lrGrants' = [lrGrants EXCEPT ![r] = IF g \in @
                      THEN @ \ {g} ELSE @ \cup {g}]
            PROVE  lrGrants' \in [Holdings -> SUBSET Roles!Grants]
        BY <1>1, <3>2
      <3> QED
        BY <1>3, <3>1, <3>2 DEF Roles!LrEdit
    <2>2. inLdap' \subseteq Fellows
      BY <1>3 DEF Roles!LrEdit, Roles!LrInv
    <2> QED
      BY <1>3, <2>1, <2>2 DEF Roles!LrEdit, Roles!LrInv, Roles!MarkersRespected
  <1>4. ASSUME NEW t \in Pullers, NEW r \in Holdings, Roles!PullReads(t, r)
        PROVE  Roles!LrInv' /\ Roles!MarkersRespected
    <2>1. PICK p : p = [of |-> r, grants |-> lrGrants[r]]
      OBVIOUS
    <2>2. p \in Roles!Readings /\ p.of \in Holdings
      BY <1>1, <2>1 DEF Roles!Readings
    <2>3. pulls' = [pulls EXCEPT ![t] = p]
      BY <1>4, <2>1 DEF Roles!PullReads
    <2>4. pulls' \in [Pullers -> Roles!Readings]
      BY <1>1, <2>2, <2>3
    <2>5. \A s \in Pullers : pulls'[s] # Roles!NoPull => pulls'[s].of \in Holdings
      BY <1>1, <2>2, <2>3 DEF Roles!LrInv
    <2> QED
      BY <1>4, <2>4, <2>5 DEF Roles!PullReads, Roles!LrInv, Roles!MarkersRespected
  <1>5. ASSUME NEW t \in Pullers, Roles!PullWrites(t)
        PROVE  Roles!LrInv' /\ Roles!MarkersRespected
    <2>1. /\ pulls[t].of \in Holdings /\ pulls[t].grants \in SUBSET Roles!Grants
          /\ pulls' = [pulls EXCEPT ![t] = Roles!NoPull]
      BY <1>1, <1>5 DEF Roles!PullWrites, Roles!LrInv, Roles!Readings
    <2>2. PICK failed : lrEntry' = Roles!Reconciled(pulls[t].of, pulls[t].grants, failed)
      BY <1>5 DEF Roles!PullWrites
    <2>3. /\ lrEntry' \in [Roles!GroupNames -> Roles!Entries]
          /\ Roles!MarkersRespected
      BY <2>1, <2>2, ReconciledKeeps
    <2>4. Roles!NoPull \in Roles!Readings
      BY DEF Roles!NoPull, Roles!Readings
    <2>5. pulls' \in [Pullers -> Roles!Readings]
      BY <1>1, <2>1, <2>4
    <2>6. \A s \in Pullers : pulls'[s] # Roles!NoPull => pulls'[s].of \in Holdings
      BY <1>1, <2>1 DEF Roles!LrInv
    <2> QED
      BY <1>5, <2>3, <2>5, <2>6 DEF Roles!PullWrites, Roles!LrInv
  <1>6. ASSUME NEW r \in Holdings, Roles!DeleteResource(r)
        PROVE  Roles!LrInv' /\ Roles!MarkersRespected
    BY <1>6, DeletionKeeps DEF Roles!DeleteResource, Roles!LrInv
  <1> QED
    BY <1>2, <1>3, <1>4, <1>5, <1>6 DEF Roles!LrNext

-----------------------------------------------------------------------------
(* The promises of MC_Agent.                                                 *)

\* A behaviour that is about the usage reports takes their steps only, and
\* stays about them.
LEMMA AboutUsage ==
    /\ Init /\ part = "usage" => Usage!ReportInit
    /\ [Next]_vars /\ part = "usage" => [Usage!ReportNext]_(Usage!uvars)
    /\ [Next]_vars => (part = "usage" <=> (part = "usage")')
<1>1. Init /\ part = "usage" => Usage!ReportInit
  BY DEF Init
<1>2. [Next]_vars /\ part = "usage" => [Usage!ReportNext]_(Usage!uvars)
  BY DEF Next, Step, vars, UsageVars, Usage!uvars
<1>3. [Next]_vars => (part = "usage" <=> (part = "usage")')
  BY DEF Next, Step, vars
<1> QED BY <1>1, <1>2, <1>3

\* The invariant of the usage reports holds of every behaviour about them.
LEMMA UsageHolds == Spec => [](part = "usage" => Usage!ReportInv)
<1>1. Init => (part = "usage" => Usage!ReportInv)
  BY AboutUsage, InitInv
<1>2. (part = "usage" => Usage!ReportInv)
         /\ [Next]_vars => (part = "usage" => Usage!ReportInv)'
  BY AboutUsage, StepInv
<1> QED BY <1>1, <1>2, PTL DEF Spec

\* Usage is filed under the month it was measured in, for the resource and its
\* keys, though the month turns between any two calls of a report
\* (_process_resource, report_api_key_usages).
THEOREM RightMonthHere == Spec => []RightMonth
<1>1. (part = "usage" => Usage!ReportInv) => RightMonth
  BY DEF RightMonth, Usage!ReportInv
<1> QED BY <1>1, UsageHolds, PTL

\* A report never lowers a figure Waldur holds without a breakdown, and a
\* breakdown adds up to its total, unless the figure is no longer the one the
\* report read or filed because the staff tool replaced it in between
\* (_check_usage_anomaly, _process_resource_period).
THEOREM NeverLoweredHere == Spec => NeverLowered
<1>1. (part = "usage" => Usage!ReportInv) /\ [Next]_vars
         => [part = "usage" => Usage!NeverLowered /\ Usage!BreakdownAddsUp]_vars
  BY AboutUsage, StepLowersNothing
<1> QED BY <1>1, UsageHolds, PTL DEF Spec, NeverLowered

\* A behaviour that is about the log shippers takes their steps only, and stays
\* about them.
LEMMA AboutLogs ==
    /\ Init /\ part = "logs" => Logs!LogInit
    /\ [Next]_vars /\ part = "logs" => [Logs!LogNext]_(Logs!lvars)
    /\ [Next]_vars => (part = "logs" <=> (part = "logs")')
<1>1. Init /\ part = "logs" => Logs!LogInit
  BY DEF Init
<1>2. [Next]_vars /\ part = "logs" => [Logs!LogNext]_(Logs!lvars)
  BY DEF Next, Step, vars, LogsVars, Logs!lvars
<1>3. [Next]_vars => (part = "logs" <=> (part = "logs")')
  BY DEF Next, Step, vars
<1> QED BY <1>1, <1>2, <1>3

\* The invariant of the log shippers holds of every behaviour about them.
LEMMA LogsHold == Spec => [](part = "logs" => Logs!LogInv)
<1>1. Init => (part = "logs" => Logs!LogInv)
  BY AboutLogs, LogInitInv
<1>2. (part = "logs" => Logs!LogInv) /\ [Next]_vars => (part = "logs" => Logs!LogInv)'
  BY AboutLogs, LogStepsKeep
<1> QED BY <1>1, <1>2, PTL DEF Spec

\* A behaviour that is about the project groups takes their steps only, and stays
\* about them.
LEMMA AboutGroups ==
    /\ Init /\ part = "groups" => Projects!GroupInit
    /\ [Next]_vars /\ part = "groups" => [Projects!GroupNext]_(Projects!gvars)
    /\ [Next]_vars => (part = "groups" <=> (part = "groups")')
<1>1. Init /\ part = "groups" => Projects!GroupInit
  BY DEF Init
<1>2. [Next]_vars /\ part = "groups" => [Projects!GroupNext]_(Projects!gvars)
  BY DEF Next, Step, vars, ProjectGroupsVars, Projects!gvars, Projects!dir, Projects!pass
<1>3. [Next]_vars => (part = "groups" <=> (part = "groups")')
  BY DEF Next, Step, vars
<1> QED BY <1>1, <1>2, <1>3

\* The invariant of the project groups holds of every behaviour about them.
LEMMA GroupsHold == Spec => [](part = "groups" => Projects!GroupInv)
<1>1. Init => (part = "groups" => Projects!GroupInv)
  BY AboutGroups, GroupInitInv
<1>2. (part = "groups" => Projects!GroupInv) /\ [Next]_vars
         => (part = "groups" => Projects!GroupInv)'
  BY AboutGroups, GroupStepsKeep
<1> QED BY <1>1, <1>2, PTL DEF Spec

\* What was taken in is not forgotten: every log entry is in one place until it is
\* shipped or written off, an overflow costs the oldest, what was due at the shutdown
\* has left the buffer, and an event about a project group is never absorbed by a pass
\* that has read Waldur before it (LogBuffer, _ship_batch, stop, handlers.py).
THEOREM NothingForgottenHere == Spec => []NothingForgotten
<1>1. (part = "logs" => Logs!LogInv) /\ (part = "groups" => Projects!GroupInv)
         => NothingForgotten
  BY DEF NothingForgotten, Logs!LogInv, Logs!StopDrains, Projects!GroupInv
<1> QED BY <1>1, LogsHold, GroupsHold, PTL

-----------------------------------------------------------------------------
(* The LDAP accounts.                                                        *)

\* A behaviour about one of the two instances takes its steps only.
LEMMA AboutAccounts ==
    /\ Init /\ part = "race" => Race!AccountInit
    /\ Init /\ part = "swap" => Swap!AccountInit
    /\ [Next]_vars /\ part = "race" => [Race!AccountNext]_(Race!avars)
    /\ [Next]_vars /\ part = "swap" => [Swap!AccountNext]_(Swap!avars)
    /\ [Next]_vars => (part = "race" <=> (part = "race")') /\ (part = "swap" <=> (part = "swap")')
<1>1. Init /\ part = "race" => Race!AccountInit
  BY DEF Init
<1>2. Init /\ part = "swap" => Swap!AccountInit
  BY DEF Init
<1>3. [Next]_vars /\ part = "race" => [Race!AccountNext]_(Race!avars)
  BY DEF Next, Step, vars, RaceVars, Race!avars, Race!history
<1>4. [Next]_vars /\ part = "swap" => [Swap!AccountNext]_(Swap!avars)
  BY DEF Next, Step, vars, RaceVars, Swap!avars, Swap!history
<1>5. [Next]_vars => (part = "race" <=> (part = "race")') /\ (part = "swap" <=> (part = "swap")')
  BY DEF Next, Step, vars
<1> QED BY <1>1, <1>2, <1>3, <1>4, <1>5

\* A rename never costs anybody the access nor makes a second entry of them, for any
\* persons, names and number of passes at once.
THEOREM AccessKeptHere == Spec => []AccessKept
<1>1. Race!AccountParameters /\ Swap!AccountParameters
  BY Parameters
<1>2. Race!AccountSpec => [](Race!AccessKept /\ Race!OneEntryPerPerson)
  BY <1>1, Race!AccessIsKept
<1>3. Swap!AccountSpec => [](Swap!AccessKept /\ Swap!OneEntryPerPerson)
  BY <1>1, Swap!AccessIsKept
<1>4. /\ part = "race" => Race!AccessKept /\ Race!OneEntryPerPerson
      /\ part = "swap" => Swap!AccessKept /\ Swap!OneEntryPerPerson
      => AccessKept
  BY DEF AccessKept
<1> QED BY <1>2, <1>3, <1>4, AboutAccounts, PTL DEF Spec, Race!AccountSpec, Swap!AccountSpec

-----------------------------------------------------------------------------
(* What a pass with an old listing may take away.                            *)

\* A behaviour that is about the members, the usernames or the role groups takes the
\* steps of that component only, and stays about it.
LEMMA AboutOthers ==
    /\ Init => /\ part = "team" => Team!SyncInit
               /\ part = "names" => Naming!NameInit
               /\ part = "roles" => Roles!LrInit
    /\ [Next]_vars => /\ part = "team" => [Team!SyncNext]_(Team!mvars)
                      /\ part = "names" => [Naming!NameNext]_(Naming!nvars)
                      /\ part = "roles" => [Roles!LrNext]_(Roles!lrvars)
                      /\ part' = part
<1>1. Init /\ part = "team" => Team!SyncInit
  BY DEF Init
<1>2. Init /\ part = "names" => Naming!NameInit
  BY DEF Init
<1>3. Init /\ part = "roles" => Roles!LrInit
  BY DEF Init
<1>4. [Next]_vars /\ part = "team" => [Team!SyncNext]_(Team!mvars)
  BY DEF Next, Step, vars, TeamVars, Team!mvars
<1>5. [Next]_vars /\ part = "names" => [Naming!NameNext]_(Naming!nvars)
  BY DEF Next, Step, vars, NamingVars, Naming!nvars
<1>6. [Next]_vars /\ part = "roles" => [Roles!LrNext]_(Roles!lrvars)
  BY DEF Next, Step, vars, RolesVars, Roles!lrvars
<1>7. [Next]_vars => part' = part
  BY DEF Next, Step, vars
<1> QED BY <1>1, <1>2, <1>3, <1>4, <1>5, <1>6, <1>7

\* A pass with an old listing takes nothing from anybody that was theirs all the time:
\* no member, no group of the parent, no uid, no ready account, and no group the agent
\* did not make (_sync_resource_users, _sync_parent, _ensure_account,
\* _process_pending_users, _ensure_owned_group).
THEOREM NoFalseRemovalHere == Spec => NoFalseRemoval
<1> DEFINE Inv == /\ part = "team" => Team!SyncInv
                  /\ part = "groups" => Projects!GroupInv
                  /\ part = "race" => Race!AccountInv
                  /\ part = "swap" => Swap!AccountInv
                  /\ part = "names" => Naming!NameInv
                  /\ part = "roles" => Roles!LrInv
           Kept == /\ part = "team" => Team!NoFalseRemoval
                   /\ part = "groups" => Projects!ParentLosesOnlyUnwanted
                   /\ part = "race" => Race!StampedKeepsUid
                   /\ part = "swap" => Swap!StampedKeepsUid
                   /\ part = "names" => Naming!NamedStays
                   /\ part = "roles" => Roles!MarkersRespected
<1>1. Init => Inv
  <2> SUFFICES ASSUME Init PROVE Inv
    OBVIOUS
  <2>1. part = "team" => Team!SyncInv
    BY AboutOthers, SyncBegins
  <2>2. part = "groups" => Projects!GroupInv
    BY AboutGroups, GroupInitInv
  <2>3. part = "race" => Race!AccountInv
    BY AboutAccounts, Parameters, Race!AccountsBegin
  <2>4. part = "swap" => Swap!AccountInv
    BY AboutAccounts, Parameters, Swap!AccountsBegin
  <2>5. part = "names" => Naming!NameInv
    BY AboutOthers, NamesBegin
  <2>6. part = "roles" => Roles!LrInv
    BY AboutOthers, Parameters, RolesBegin
  <2> QED BY <2>1, <2>2, <2>3, <2>4, <2>5, <2>6
<1>2. Inv /\ [Next]_vars => Inv' /\ Kept
  <2> SUFFICES ASSUME Inv, [Next]_vars PROVE Inv' /\ Kept
    OBVIOUS
  <2>1. part' = part
    BY AboutOthers
  <2>2. part = "team" => Team!SyncInv' /\ Team!NoFalseRemoval
    BY AboutOthers, SyncStepsKeep
  <2>3. part = "groups" => Projects!GroupInv' /\ Projects!ParentLosesOnlyUnwanted
    <3>1. Projects!GroupInv /\ UNCHANGED Projects!gvars => Projects!ParentLosesOnlyUnwanted
      BY DEF Projects!GroupInv, Projects!gvars, Projects!dir,
             Projects!ParentLosesOnlyUnwanted
    <3> QED BY <3>1, AboutGroups, GroupStepsKeep
  <2>4. part = "race" => Race!AccountInv' /\ Race!StampedKeepsUid
    BY AboutAccounts, Race!AccountStepsKeep
  <2>5. part = "swap" => Swap!AccountInv' /\ Swap!StampedKeepsUid
    BY AboutAccounts, Swap!AccountStepsKeep
  <2>6. part = "names" => Naming!NameInv' /\ Naming!NamedStays
    BY AboutOthers, NameStepsKeep
  <2>7. part = "roles" => Roles!LrInv' /\ Roles!MarkersRespected
    BY AboutOthers, RoleStepsKeep
  <2> QED BY <2>1, <2>2, <2>3, <2>4, <2>5, <2>6, <2>7
<1>3. Spec => [][Kept]_vars
  BY <1>1, <1>2, PTL DEF Spec
<1> QED BY <1>3 DEF NoFalseRemoval
=============================================================================

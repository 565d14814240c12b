--------------------------- MODULE SpendingFigures ---------------------------
(***************************************************************************)
(* What the pages say of a user's spending: the dashboard, the budget's    *)
(* progress and the savings goal's (core/views/budgets.py), the monthly    *)
(* summaries, the category breakdown and the stability score               *)
(* (core/views/aggregations.py).  Every page computes its figures anew     *)
(* from the same transactions, each with filters of its own.               *)
(*                                                                         *)
(* The calendar is that of the years 1901 to 2099.  Amounts are whole      *)
(* numbers, and a percentage is what it is compared with; its two decimals *)
(* are not modelled.  The filter by account is left out: it restricts all  *)
(* figures of a page alike.  So are merchants, and several rows of one     *)
(* category in a budget, which a constraint excludes.                      *)
(***************************************************************************)
EXTENDS Integers, FiniteSets, Functions

CONSTANTS
  Entries,      \* transactions that may be recorded
  Envelopes,    \* the budget's allocated amount of each category that has one
  Goals,        \* savings goals that may be set
  Dates         \* days on which somebody looks at the pages

VARIABLES
  entries,      \* rows of transactions
  savings,      \* the row of goals, or none
  today

spendingVars == <<entries, savings, today>>

(***************************************************************************)
(* The calendar                                                            *)
(***************************************************************************)

Date(year, month, day) == [year |-> year, month |-> month, day |-> day]

DaysIn(year, month) ==
  IF month = 2 THEN IF year % 4 = 0 THEN 29 ELSE 28
  ELSE IF month \in {4, 6, 9, 11} THEN 30 ELSE 31

\* Days of a common year before the first of each month.
DaysBefore == <<0, 31, 59, 90, 120, 151, 181, 212, 243, 273, 304, 334>>

\* A number for each day, one more than that of the day before.
Number(date) ==
  LET leapDay == IF date.year % 4 = 0 /\ date.month > 2 THEN 1 ELSE 0
  IN  365 * date.year + (date.year - 1) \div 4 + DaysBefore[date.month] + leapDay + date.day

Before(date, other) ==
  \/ date.year < other.year
  \/ date.year = other.year /\ date.month < other.month
  \/ date.year = other.year /\ date.month = other.month /\ date.day < other.day
UpTo(date, other) == date = other \/ Before(date, other)

Kinds == {"debit", "fee", "credit", "none"}

\* The days of the calendar.
IsDay(date) ==
  /\ date \in [year : Nat, month : 1..12, day : 1..31] /\ date.day <= DaysIn(date.year, date.month)
  /\ 1901 <= date.year /\ date.year <= 2099

ASSUME SpendingAssumption ==
  /\ \A e \in Entries : e.kind \in Kinds /\ e.amount \in Nat /\ IsDay(e.on)
  /\ \A g \in Goals : g.target \in Nat /\ g.months \in Nat
  /\ \A d \in Dates : IsDay(d)
  /\ \A c \in DOMAIN Envelopes : Envelopes[c] \in Nat

(***************************************************************************)
(* The user's transactions, and the clock                                  *)
(***************************************************************************)

NoSavings == [target |-> 0, months |-> 0, since |-> Date(1901, 1, 1)]

SpendingInit ==
  /\ entries = {}
  /\ savings = NoSavings
  /\ today \in {d \in Dates : \A e \in Dates : UpTo(d, e)}

\* Entered, approved from a statement, or pushed by a bank; dates may lie ahead.
RecordEntry(e) ==
  /\ e \notin entries /\ entries' = entries \cup {e}
  /\ UNCHANGED <<savings, today>>

RemoveEntry(e) ==
  /\ e \in entries /\ entries' = entries \ {e}
  /\ UNCHANGED <<savings, today>>

\* A goal keeps its created_at when it is changed.
SetSavings(g) ==
  /\ savings' = [target |-> g.target, months |-> g.months,
                 since |-> IF savings = NoSavings THEN today ELSE savings.since]
  /\ UNCHANGED <<entries, today>>

DropSavings ==
  /\ savings # NoSavings /\ savings' = NoSavings
  /\ UNCHANGED <<entries, today>>

DayComes(d) ==
  /\ Before(today, d) /\ today' = d
  /\ UNCHANGED <<entries, savings>>

SpendingNext ==
  \/ \E e \in Entries : RecordEntry(e) \/ RemoveEntry(e)
  \/ \E g \in Goals : SetSavings(g)
  \/ DropSavings
  \/ \E d \in Dates : DayComes(d)

SpendingSpec == SpendingInit /\ [][SpendingNext]_spendingVars

(***************************************************************************)
(* Sums every page is made of                                              *)
(***************************************************************************)

Total(rows)  == SumFunction([e \in rows |-> e.amount])
Spend(rows)  == Total({e \in rows : e.kind \in {"debit", "fee"}})
Inflow(rows) == Total({e \in rows : e.kind = "credit"})
Within(window) == {e \in entries : UpTo(window.start, e.on) /\ UpTo(e.on, window.end)}
InMonth(year, month) == {e \in entries : e.on.year = year /\ e.on.month = month}
Of(category, rows) == {e \in rows : e.category = category}
Positive(n) == IF n < 0 THEN 0 ELSE n

(***************************************************************************)
(* GET /dashboard                                                          *)
(***************************************************************************)

Periods == {"this_month", "last_month", "last_3_months", "this_year", "last_5_years"}

Since(year, month) == [start |-> Date(year, month, 1), end |-> today]
WholeMonth(year, month) ==
  [start |-> Date(year, month, 1), end |-> Date(year, month, DaysIn(year, month))]

\* Mutant: the year is not taken back with the month.
WindowOfOneYear(period) ==
  IF period = "last_month"
    THEN WholeMonth(today.year, IF today.month = 1 THEN 12 ELSE today.month - 1)
    ELSE Since(today.year, today.month)

\* _resolve_window: the window, ...
Window(period) ==
  CASE period = "last_month" ->
         IF today.month = 1 THEN WholeMonth(today.year - 1, 12)
                            ELSE WholeMonth(today.year, today.month - 1)
    [] period = "last_3_months" ->
         IF today.month <= 3 THEN Since(today.year - 1, today.month + 9)
                             ELSE Since(today.year, today.month - 3)
    [] period = "this_year"    -> Since(today.year, 1)
    [] period = "last_5_years" -> Since(today.year - 4, 1)
    [] OTHER                   -> Since(today.year, today.month)

Length(window) == Number(window.end) - Number(window.start) + 1

\* ... and the one before it, of as many days.
Preceding(window) ==
  LET last == Number(window.start) - 1
  IN  {e \in entries : Number(e.on) \in (last - Length(window) + 1)..last}

\* percentage_used >= limit, of the dashboard and of the budget's progress.
UsedUpTo(limit, actual, allocated) ==
  IF allocated # 0 THEN actual * 100 >= limit * allocated
                   ELSE actual # 0 /\ limit <= 100

(***************************************************************************)
(* GET /budget/progress                                                    *)
(***************************************************************************)

Actual(category, rows) == Spend(Of(category, rows))

EnvelopeStatus(category, rows) ==
  LET used(limit) == UsedUpTo(limit, Actual(category, rows), Envelopes[category])
  IN  IF used(100) THEN "over_budget" ELSE IF used(80) THEN "approaching_limit" ELSE "on_track"

(***************************************************************************)
(* The savings goal                                                        *)
(***************************************************************************)

MonthsElapsed ==
  (today.year - savings.since.year) * 12 + (today.month - savings.since.month)
MonthsRemaining == Positive(savings.months - MonthsElapsed)

\* Net cash flow since the goal was set, future rows included.
SavedSoFar(rows) ==
  LET since == {e \in rows : UpTo(savings.since, e.on)}
  IN  Positive(Inflow(since) - Spend(since))

\* GET /budget/savings-progress: at the monthly rate so far, whole days of 30 to
\* a month (the rounding of half a day is left open at the deadline).
DaysNeeded(rows) ==
  LET saved   == SavedSoFar(rows)
      elapsed == IF MonthsElapsed < 1 THEN 1 ELSE MonthsElapsed
  IN  (2 * (savings.target - saved) * elapsed * 30 + saved) \div (2 * saved)

OnTrack(rows) ==
  LET saved == SavedSoFar(rows)
      deadline == Number(savings.since) + 30 * savings.months
  IN  \/ saved >= savings.target /\ Number(today) <= deadline
      \/ /\ saved < savings.target /\ saved > 0
         /\ Number(today) + DaysNeeded(rows) <= deadline

(***************************************************************************)
(* GET /transactions/monthly-summaries, category-breakdown, stability      *)
(***************************************************************************)

Month(date)   == [year |-> date.year, month |-> date.month]
Summary(m)    == LET rows == InMonth(m.year, m.month)
                 IN  [spend |-> Spend(rows), inflow |-> Inflow(rows)]
Summarized    == {Month(e.on) : e \in entries}

\* Amounts of all kinds, of the rows with a category.
Breakdown(m) ==
  LET rows == {e \in InMonth(m.year, m.month) : e.category # "none"}
  IN  [c \in {e.category : e \in rows} |-> Total(Of(c, rows))]

\* The last six months with inflow, however long ago.
IncomeMonths ==
  LET months == {Month(e.on) : e \in {f \in entries : f.kind = "credit"}}
      later(m) == {n \in months : n.year > m.year \/ (n.year = m.year /\ n.month > m.month)}
  IN  {m \in months : Cardinality(later(m)) < 6}

InflowOf(months) == SumFunction([m \in months |-> Summary(m).inflow])
Square(x) == x * x

\* compute_stability_score() reaches the score, which is rounded to a tenth: the
\* deviation of the monthly inflow is at most 1 - score/100 of its mean.
ScoreReaches(score) ==
  LET n      == Cardinality(IncomeMonths)
      sum    == InflowOf(IncomeMonths)
      spread == SumFunction([m \in IncomeMonths |-> Square(n * Summary(m).inflow - sum)])
      tolerated == 2000 - (20 * score - 1)
  IN  sum # 0 /\ spread * Square(2000) <= n * Square(tolerated * sum)

StabilityLabel ==
  IF Cardinality(IncomeMonths) < 2 THEN "insufficient_data"
  ELSE IF ScoreReaches(70) THEN "stable"
  ELSE IF ScoreReaches(40) THEN "variable"
  ELSE "unstable"

(***************************************************************************)
(* Properties                                                              *)
(***************************************************************************)

SpendingTypeOK ==
  /\ entries \subseteq Entries /\ IsFiniteSet(entries)
  /\ savings.target \in Nat /\ savings.months \in Nat
  /\ IsDay(savings.since) /\ UpTo(savings.since, today)
  /\ today \in Dates

NoneAhead == \A e \in entries : UpTo(e.on, today)
SpendOf(months)  == SumFunction([m \in months |-> Summary(m).spend])

\* The months a period is about.
Ago(m) == 12 * (today.year - m.year) + (today.month - m.month)
MonthsOf(period) ==
  {m \in Summarized :
     CASE period = "this_month"    -> Ago(m) = 0
       [] period = "last_month"    -> Ago(m) = 1
       [] period = "last_3_months" -> Ago(m) \in 0..3
       [] period = "this_year"     -> m.year = today.year
       [] period = "last_5_years"  -> m.year \in (today.year - 4)..today.year}

\* The dashboard's windows show what the summaries of their months show: the
\* last month its own, also in January, and the windows up to today those of
\* their months, unless a transaction is dated ahead.
WindowsFitSummaries ==
  \A period \in Periods : LET rows == Within(Window(period)) IN
    period = "last_month" \/ NoneAhead =>
      Spend(rows) = SpendOf(MonthsOf(period)) /\ Inflow(rows) = InflowOf(MonthsOf(period))

\* A window is compared with a span of as many days that ends the day before
\* it, and no transaction counts in both: windows of three months or five years
\* with leap days, too.
WindowsDoNotOverlap ==
  \A period \in Periods :
    LET window == Window(period)
    IN  Length(window) > 0 /\ Preceding(window) \cap Within(window) = {}

\* The dashboard and the budget's progress say the same of an envelope, and a
\* category without inflow is in the breakdown with what its envelope has spent.
EnvelopesAgree ==
  LET month == Month(today)  rows == InMonth(month.year, month.month)
  IN  NoneAhead =>
        \A c \in DOMAIN Envelopes :
          /\ EnvelopeStatus(c, Within(Window("this_month"))) = EnvelopeStatus(c, rows)
          /\ (c \in DOMAIN Breakdown(month) /\ \A e \in Of(c, rows) : e.kind \in {"debit", "fee"})
               => Breakdown(month)[c] = Actual(c, rows)

\* What has been saved since the first of a month is what the summaries since
\* then add up to; more income never takes a goal off its track; and though one
\* page counts calendar months and the other 30 days to each, a goal of up to
\* five years that is reached with two months to go is on track (from 68 months on
\* the two counts can be two months apart), and none is long after its time.
SavingsFitSummaries ==
  savings # NoSavings =>
    /\ savings.since.day = 1 =>
         LET months == {m \in Summarized : UpTo(savings.since, Date(m.year, m.month, 1))}
         IN  SavedSoFar(entries) = Positive(InflowOf(months) - SpendOf(months))
    /\ \A e \in Entries : e.kind = "credit" /\ OnTrack(entries) => OnTrack(entries \cup {e})
    /\ savings.months <= 60 /\ SavedSoFar(entries) >= savings.target /\ MonthsRemaining >= 2
         => OnTrack(entries)
    /\ OnTrack(entries) => MonthsElapsed <= savings.months + 1

\* A score is given when the summaries show inflow in two months, and the same
\* inflow every month is stable.
StabilityFitsSummaries ==
  LET paid == {m \in Summarized : Summary(m).inflow > 0}
  IN  /\ Cardinality(paid) >= 2 => StabilityLabel # "insufficient_data"
      /\ Cardinality(paid) >= 2 /\ paid = IncomeMonths
            /\ Cardinality({Summary(m).inflow : m \in paid}) = 1 => StabilityLabel = "stable"

\* "If a number can be computed from transactions, it is computed": pages that
\* compute it in ways of their own say the same.
PagesAgree ==
  /\ WindowsFitSummaries /\ WindowsDoNotOverlap /\ EnvelopesAgree
  /\ SavingsFitSummaries /\ StabilityFitsSummaries
=============================================================================

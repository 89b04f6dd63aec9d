------------------------- MODULE DepreciationTable -------------------------
(***************************************************************************)
(* The depreciation table of an asset (account_asset_management): what     *)
(* _compute_depreciation_table returns for the time method "year", the     *)
(* only one this repository installs, and for a positive depreciation base.*)
(*                                                                         *)
(* Amounts are whole cents, and every division is rounded where the code   *)
(* rounds.  A fiscal year has PeriodsPerYear periods of two days each; a   *)
(* line is dated on the last day of its period.                            *)
(***************************************************************************)
EXTENDS Integers, Sequences, FiniteSets, FiniteSetsExt

CONSTANTS
  PeriodsPerYear,     \* 12, 4 or 1: method_period
  ProgressFactor      \* method_progress_factor, as <<numerator, denominator>>

ASSUME DepreciationAssumption ==
  /\ PeriodsPerYear \in Nat \ {0}
  /\ ProgressFactor \in (Nat \ {0}) \X (Nat \ {0})

Methods == {"linear", "linear-limit", "degressive", "degr-linear", "degr-limit"}

Day(period) == 2 * period

\* round(n / d) of Python, for n >= 0
RoundedQuotient(n, d) == (2 * n + d) \div (2 * d)

UpToSalvage(a) == a.method \in {"linear-limit", "degr-limit"}

\* depreciation_base
DepreciationBase(a) == IF UpToSalvage(a) THEN a.purchase ELSE a.purchase - a.salvage

\* depr_max: what all the lines add up to
Depreciable(a) == DepreciationBase(a) - (IF UpToSalvage(a) THEN a.salvage ELSE 0)

-----------------------------------------------------------------------------
(* Step 1: the amounts of the fiscal years *)

\* The amounts of a year are fractions over this denominator.
Scale(a) == a.years * ProgressFactor[2]

\* _compute_year_amount, times Scale(a)
YearAmount(a, residual) ==
  LET linear == DepreciationBase(a) * ProgressFactor[2]
      degressive == residual * ProgressFactor[1] * a.years
      rest == residual * Scale(a)
      limited(amount) == Min({amount, rest - a.salvage * Scale(a)})
  IN  CASE a.method = "linear"       -> linear
        [] a.method = "linear-limit" -> limited(linear)
        [] a.method = "degressive"   -> degressive
        [] a.method = "degr-linear"  -> Min({Max({linear, degressive}), rest})
        [] a.method = "degr-limit"   -> limited(degressive)

\* The last period of the table's first and last lines.  Without prorata the
\* table starts with the fiscal year.
FirstPeriod(a) == IF a.prorata THEN a.start + 1 ELSE 1
FinalPeriod(a) == FirstPeriod(a) + a.years * PeriodsPerYear - 1

\* The fiscal years until depreciation_stop_date
FiscalYears(a) == IF FinalPeriod(a) > a.years * PeriodsPerYear THEN a.years + 1 ELSE a.years

\* _get_fy_duration_factor, in periods
PeriodsOf(a, y) == IF a.prorata /\ y = 1 THEN PeriodsPerYear - a.start ELSE PeriodsPerYear

\* fy_amount of the y-th fiscal year, when residual is left before it
FyAmount(a, y, residual) ==
  IF y = FiscalYears(a)
  THEN residual - (DepreciationBase(a) - Depreciable(a))
  ELSE Min({residual, RoundedQuotient(YearAmount(a, residual) * PeriodsOf(a, y),
                                      Scale(a) * PeriodsPerYear)})

\* fy_residual_amount after each fiscal year
FyResidual(a) ==
  LET left[y \in 0 .. FiscalYears(a)] ==
        IF y = 0 THEN DepreciationBase(a) ELSE left[y - 1] - FyAmount(a, y, left[y - 1])
  IN  left

-----------------------------------------------------------------------------
(* Step 2: their lines, when residual is left before the year *)

\* period_amount
PeriodAmount(a, residual) ==
  RoundedQuotient(YearAmount(a, residual), Scale(a) * PeriodsPerYear)

\* What the first n lines of year y take before the year's deviation is put into
\* the last of them: amount each, but for _get_first_period_amount.
PeriodAmounts(a, y, n, year, amount) ==
  IF n = 0 THEN 0
  ELSE n * amount +
       (IF a.prorata /\ y = 1 THEN year - amount * PeriodsOf(a, y) ELSE 0)

\* The number of lines of year y, from period p on
LineCount(a, y, p, residual, year, amount) ==
  LET most == Min({y * PeriodsPerYear, FinalPeriod(a)}) - p + 1
  IN  Min({most} \cup
          {n \in 0 .. most :
             LET taken == PeriodAmounts(a, y, n, year, amount)
             IN  residual = taken \/ (a.method = "degr-linear" /\ year < taken)})

\* What the first n of count lines take
Taken(a, y, n, count, year, amount) ==
  IF n = count THEN year ELSE PeriodAmounts(a, y, n, year, amount)

\* The lines of a year
LinesOf(a, y, p, count, residual, year, amount) ==
  [n \in 1 .. count |->
     [date |-> Day(p + n - 1), year |-> y,
      amount |-> Taken(a, y, n, count, year, amount) - Taken(a, y, n - 1, count, year, amount),
      remaining |-> residual - Taken(a, y, n, count, year, amount)]]

\* The lines of year y, from period p on
YearLines(a, y, p, residual, year, amount) ==
  LinesOf(a, y, p, LineCount(a, y, p, residual, year, amount), residual, year, amount)

\* The table ends with the year that leaves nothing.
LastYear(residual) ==
  Min({Max(DOMAIN residual)} \cup {y \in DOMAIN residual \ {0} : residual[y] = 0})

\* _compute_depreciation_table_lines, for what is left after each year
TableLines(a, residual) ==
  LET upTo[y \in 0 .. LastYear(residual)] ==
        IF y = 0 THEN <<>>
        ELSE upTo[y - 1] \o
             YearLines(a, y, FirstPeriod(a) + Len(upTo[y - 1]), residual[y - 1],
                       residual[y - 1] - residual[y], PeriodAmount(a, residual[y - 1]))
  IN  upTo[LastYear(residual)]

\* The lines of the first year before the asset's start are put into the first
\* one after it: the start of compute_depreciation_board.
Grouped(a, all) ==
  LET n == Cardinality({k \in DOMAIN all : all[k].year = 1})
      early == IF a.prorata THEN 1 ELSE Min({a.start + 1, n})
      first == [all[early] EXCEPT !.amount = DepreciationBase(a) - all[early].remaining]
  IN  <<first>> \o SubSeq(all, early + 1, Len(all))

DepreciationTable(a) == Grouped(a, TableLines(a, FyResidual(a)))
=============================================================================

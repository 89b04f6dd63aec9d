------------------------------ MODULE IncomeTax ------------------------------
(***************************************************************************)
(* Personal income tax withheld from payments (l10n_th_account_pit).  The  *)
(* lines of a payment say how much income it is to whom; what is withheld  *)
(* is the progressive tax on all income of the supplier in that year, less *)
(* what was withheld before.  The amount is shown while the payment is a   *)
(* draft (precalc) and must be the same when it is posted.  A register     *)
(* holds the sums of each supplier and year.  Canceling a payment posts    *)
(* the mirror of its lines.  The form of a supplier shows all of its lines *)
(* and may move one that is not posted to another payment.                 *)
(*                                                                         *)
(* Taxes are in hundredths of the unit of incomes, so that a rate is a     *)
(* percentage.  One table of rates holds for all years.  A step is a       *)
(* transaction; two that post lines of one supplier exclude each other,    *)
(* because both write its register.  The states of a payment are those of  *)
(* the account_voucher module, which is external.                          *)
(***************************************************************************)
EXTENDS Integers, Sequences, FiniteSetsExt

CONSTANTS
  PitPayment,
  Supplier,
  CalendarYear,
  PitRate,        \* rate_ids: the upper limit of each range, and its rate
  Income,         \* the incomes one may type
  TypedWht,       \* and the taxes
  PitLineBound    \* at most that many lines at a time

ASSUME IncomeTaxAssumption ==
  /\ PitRate \in Seq([to : Nat \ {0}, rate : Nat])
  /\ \A i, k \in DOMAIN PitRate : i < k => PitRate[i].to < PitRate[k].to
  /\ Income \subseteq Int
  /\ TypedWht \subseteq Int
  /\ PitLineBound \in Nat

VARIABLES
  pitPayments,
  pitLines,       \* personal.income.tax, in the order of their entry
  yearly,         \* personal.income.tax.yearly; no row is a row of zeros
  pitHistory      \* what else happened

pitVars == <<pitPayments, pitLines, yearly, pitHistory>>

PitLine ==
  [payment : PitPayment, supplier : Supplier, income : Int, precalc : Int,
   posted : BOOLEAN, wht : Int]

PitTypeOK ==
  /\ pitPayments \in [PitPayment -> [state : {"draft", "posted", "cancel", "deleted"},
                                     year : CalendarYear]]
  /\ pitLines \in Seq(PitLine)
  /\ yearly \in [Supplier \X CalendarYear -> [income : Int, wht : Int]]
  /\ pitHistory \subseteq {"posted again", "moved", "edited", "joined"}

PitInit ==
  /\ pitPayments \in [PitPayment -> [state : {"draft"}, year : CalendarYear]]
  /\ pitLines = << >>
  /\ yearly = [s \in Supplier \X CalendarYear |-> [income |-> 0, wht |-> 0]]
  /\ pitHistory = {}

-----------------------------------------------------------------------------
(* The tax *)

\* The rates are continuous, from zero on (_check_rate_ids).
IncomeFrom(i) == IF i = 1 THEN 0 ELSE PitRate[i - 1].to

\* amount_tax_max
TaxMax(i) == (PitRate[i].to - IncomeFrom(i)) * PitRate[i].rate

RateRanges(income) ==
  {i \in DOMAIN PitRate : IncomeFrom(i) < income /\ income <= PitRate[i].to}

Magnitude(income) == IF income < 0 THEN -income ELSE income

\* calculate_wht finds no range for an income of zero, or beyond the last one.
HasRange(income) == \E i \in DOMAIN PitRate : RateRanges(Magnitude(income)) = {i}

\* calculate_wht
CalculateWht(income) ==
  LET range == CHOOSE i \in RateRanges(Magnitude(income)) : TRUE
      tax == SumFunctionOnSet([i \in DOMAIN PitRate |-> TaxMax(i)], 1 .. range - 1)
               + (Magnitude(income) - IncomeFrom(range)) * PitRate[range].rate
  IN  IF income < 0 THEN -tax ELSE tax

\* _calculate_pit_amount_wht, for a supplier whose register of the year is given,
\* fails or not, and the amount
Calculable(register, income) == income = 0 \/ HasRange(register.income + income)

CalculatePit(register, income) ==
  IF income = 0 THEN 0 ELSE CalculateWht(register.income + income) - register.wht

-----------------------------------------------------------------------------
(* Lines *)

LinesOfPayment(v) == {k \in DOMAIN pitLines : pitLines[k].payment = v}

\* register and update_amount: the sums of the posted lines of a supplier and year
Register(lines, supplier, year) ==
  LET posted == {k \in DOMAIN lines :
                   /\ lines[k].posted /\ lines[k].supplier = supplier
                   /\ pitPayments[lines[k].payment].year = year}
  IN  [income |-> SumFunctionOnSet([k \in DOMAIN lines |-> lines[k].income], posted),
       wht |-> SumFunctionOnSet([k \in DOMAIN lines |-> lines[k].wht], posted)]

\* The lines without those of K, in their order
Without(K) ==
  LET kept == DOMAIN pitLines \ K
      nth(n) == CHOOSE k \in kept : Cardinality(kept \cap (0 .. k)) = n
  IN  [n \in 1 .. Cardinality(kept) |-> pitLines[nth(n)]]

Registered(registers, lines, supplier, year) ==
  [registers EXCEPT ![<<supplier, year>>] = Register(lines, supplier, year)]

\* The tax shown in a line, by _onchange_partner_income or as one types it
Shown(register, income) ==
  TypedWht \cup (IF Calculable(register, income) THEN {CalculatePit(register, income)} ELSE {})

\* A line is added to a draft.
AddLine(v, supplier, income) ==
  /\ pitPayments[v].state = "draft"
  /\ Len(pitLines) < PitLineBound
  /\ \E precalc \in Shown(yearly[<<supplier, pitPayments[v].year>>], income) :
       pitLines' = Append(pitLines,
         [payment |-> v, supplier |-> supplier, income |-> income, precalc |-> precalc,
          posted |-> FALSE, wht |-> 0])
  /\ UNCHANGED <<pitPayments, yearly, pitHistory>>

\* A line of a draft is edited, also one that was posted before the payment was
\* canceled and drafted again; its tax is not computed anew then.
EditPitLine(k, supplier, income) ==
  LET year == pitPayments[pitLines[k].payment].year
  IN  /\ pitPayments[pitLines[k].payment].state = "draft"
      /\ \E precalc \in Shown(yearly[<<supplier, year>>], income) :
           pitLines' = [pitLines EXCEPT ![k].supplier = supplier, ![k].income = income,
                                        ![k].precalc = precalc]
      /\ yearly' = Registered(yearly, pitLines', supplier, year)
      /\ pitHistory' = IF pitLines[k].posted THEN pitHistory \cup {"edited"} ELSE pitHistory
      /\ UNCHANGED pitPayments

\* In the form of its supplier a line that is not posted is given another income or
\* payment, whatever became of either payment; the tax shown is not in that form.  In
\* a payment with posted lines it is posted last.
EditInSupplierForm(k, v, income) ==
  LET line == [pitLines[k] EXCEPT !.payment = v, !.income = income]
      last == v # pitLines[k].payment /\ \E j \in LinesOfPayment(v) : pitLines[j].posted
  IN  /\ ~pitLines[k].posted
      /\ pitPayments[v].state # "deleted"
      /\ pitLines' = IF last THEN Append(Without({k}), line) ELSE [pitLines EXCEPT ![k] = line]
      /\ yearly' = Registered(yearly, pitLines', line.supplier, pitPayments[v].year)
      /\ pitHistory' = IF pitPayments[v].state = "posted"
                       THEN pitHistory \cup {"joined"} ELSE pitHistory
      /\ UNCHANGED pitPayments

\* unlink refuses posted lines.
UnlinkLine(k) ==
  /\ pitPayments[pitLines[k].payment].state = "draft"
  /\ ~pitLines[k].posted
  /\ pitLines' = Without({k})
  /\ UNCHANGED <<pitPayments, yearly, pitHistory>>

\* The date of a draft is changed to another year, which becomes that of its lines;
\* the registers are left as they are.
ChangeYear(v, year) ==
  /\ pitPayments[v].state = "draft"
  /\ pitPayments' = [pitPayments EXCEPT ![v].year = year]
  /\ pitHistory' = IF \E k \in LinesOfPayment(v) : pitLines[k].posted
                   THEN pitHistory \cup {"moved"} ELSE pitHistory
  /\ UNCHANGED <<pitLines, yearly>>

-----------------------------------------------------------------------------
(* Posting *)

\* What posting changes, and whether it succeeded so far
Posting == [lines |-> pitLines, registers |-> yearly, valid |-> TRUE]

PostedWith(posting, k, compares) ==
  LET line == posting.lines[k]
      year == pitPayments[line.payment].year
      register == posting.registers[<<line.supplier, year>>]
      calculable == Calculable(register, line.income)
      wht == IF calculable THEN CalculatePit(register, line.income) ELSE 0
      lines == [posting.lines EXCEPT ![k].posted = TRUE, ![k].wht = wht]
  IN  [lines |-> lines,
       registers |-> Registered(posting.registers, lines, line.supplier, year),
       valid |-> posting.valid /\ calculable /\ (compares => line.precalc = wht)]

\* As a bug would have it: the amount is not compared with the one shown.
ActionPostAnyway(posting, k) == PostedWith(posting, k, FALSE)

\* action_post of line k: its tax is computed from the register, also if the line is
\* in the register already, and must be the one shown.
ActionPost(posting, k) == PostedWith(posting, k, TRUE)

\* cancel_voucher posts a copy of line k with the income reversed and the amount
\* that was shown.
PostMirror(posting, k) ==
  LET line == posting.lines[k]
      mirror == [line EXCEPT !.income = -line.income, !.posted = FALSE, !.wht = -line.wht]
  IN  ActionPost([posting EXCEPT !.lines = Append(@, mirror)], Len(posting.lines) + 1)

\* A payment gets a state, and the outcome of posting is stored, if it is valid.
Conclude(v, posting, state) ==
  /\ posting.valid
  /\ Len(posting.lines) <= PitLineBound
  /\ pitLines' = posting.lines
  /\ yearly' = posting.registers
  /\ pitPayments' = [pitPayments EXCEPT ![v].state = state]

\* The outcome of posting the lines K, or their mirrors, in the order of their entry
PostedInOrder(K, mirrored) ==
  LET upTo[n \in 0 .. Len(pitLines)] ==
        IF n = 0 THEN Posting
        ELSE IF n \notin K THEN upTo[n - 1]
        ELSE IF mirrored THEN PostMirror(upTo[n - 1], n) ELSE ActionPost(upTo[n - 1], n)
  IN  upTo[Len(pitLines)]

\* proforma_voucher, which is called again for a posted payment to clear its undue
\* VAT (l10n_th_account), and posts all lines again
PostPit(v) ==
  /\ pitPayments[v].state \in {"draft", "posted"}
  /\ Conclude(v, PostedInOrder(LinesOfPayment(v), FALSE), "posted")
  /\ pitHistory' =
       IF pitPayments[v].state = "draft" /\ \E k \in LinesOfPayment(v) : pitLines[k].posted
       THEN pitHistory \cup {"posted again"} ELSE pitHistory

\* cancel_voucher
CancelPit(v) ==
  /\ pitPayments[v].state = "posted"
  /\ Conclude(v, PostedInOrder({k \in LinesOfPayment(v) : pitLines[k].posted}, TRUE), "cancel")
  /\ UNCHANGED pitHistory

DraftAgain(v) ==
  /\ pitPayments[v].state = "cancel"
  /\ pitPayments' = [pitPayments EXCEPT ![v].state = "draft"]
  /\ UNCHANGED <<pitLines, yearly, pitHistory>>

\* A draft or canceled payment is deleted, and in the database all of its lines
\* with it (ondelete: cascade), of which the registers hear nothing.
DeletePitPayment(v) ==
  /\ pitPayments[v].state \in {"draft", "cancel"}
  /\ pitPayments' = [pitPayments EXCEPT ![v].state = "deleted"]
  /\ pitLines' = Without(LinesOfPayment(v))
  /\ UNCHANGED <<yearly, pitHistory>>

PitNext ==
  \/ \E v \in PitPayment :
       \/ \E supplier \in Supplier, income \in Income : AddLine(v, supplier, income)
       \/ \E year \in CalendarYear : ChangeYear(v, year)
       \/ PostPit(v)
       \/ CancelPit(v)
       \/ DraftAgain(v)
       \/ DeletePitPayment(v)
  \/ \E k \in DOMAIN pitLines :
       \/ \E supplier \in Supplier, income \in Income : EditPitLine(k, supplier, income)
       \/ \E v \in PitPayment, income \in Income : EditInSupplierForm(k, v, income)
       \/ UnlinkLine(k)

PitSpec == PitInit /\ [][PitNext]_pitVars

-----------------------------------------------------------------------------
(* Properties *)

\* The register of a supplier and year is what the payments of that year say, in
\* whatever order they are posted, posted once more to clear their undue VAT,
\* canceled and deleted: its income is that of the posted lines of the payments that
\* are posted, and the tax withheld is the progressive tax of the sum.  All lines of
\* a posted payment are posted, but those that joined it in the form of a supplier.
\* It is so unless a payment was posted again after being canceled, or its posted
\* lines were edited or moved to another year then.
YearlyTax ==
  LET Paid(k) == pitPayments[pitLines[k].payment].state = "posted"
  IN  /\ pitHistory = {} => \A k \in DOMAIN pitLines : Paid(k) => pitLines[k].posted
      /\ pitHistory \subseteq {"joined"} =>
           \A supplier \in Supplier, year \in CalendarYear :
             LET register == yearly[<<supplier, year>>]
                 paid == {k \in DOMAIN pitLines :
                            /\ pitLines[k].supplier = supplier
                            /\ pitLines[k].posted
                            /\ Paid(k)
                            /\ pitPayments[pitLines[k].payment].year = year}
             IN  /\ register.income =
                      SumFunctionOnSet([k \in DOMAIN pitLines |-> pitLines[k].income], paid)
                 /\ register.wht =
                      IF register.income = 0 THEN 0 ELSE CalculateWht(register.income)
=============================================================================

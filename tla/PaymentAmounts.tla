---------------------------- MODULE PaymentAmounts ----------------------------
(***************************************************************************)
(* The amounts of a payment to a supplier (l10n_th_account,                *)
(* l10n_th_account_deduction and the hooks of account_voucher): what is    *)
(* allocated to the open bills of the supplier and to refunds, the tax and *)
(* the retention withheld from it, the VAT which becomes due, and what the *)
(* entry of the payment books as a difference.                             *)
(*                                                                         *)
(* A draft is on the form with its lines, while its taxes are rows of a    *)
(* table that each write computes anew, except a row marked manual.  All   *)
(* of it is in one currency, in whole cents, and rounded where the code or *)
(* a column rounds.  A bill is a number, in the order of move lines, and   *)
(* all its lines have undue VAT; one tax is withheld.  The supplier has    *)
(* one draft at a time.                                                    *)
(***************************************************************************)
EXTENDS Integers, Sequences, FiniteSets, FiniteSetsExt

CONSTANTS
  VendorBill, RefundBill,
  BillLine,        \* the lines of each bill: [base, wht]
  Retention,       \* what may be retained of each bill: a set of functions
  VatRate, WhtRate,                  \* as <<numerator, denominator>>
  Threshold,       \* threshold_wht
  Price,           \* what users enter as the amount of a payment,
  LinePrice,       \* of one of its lines,
  TaxPrice,        \* as tax of a line,
  Deduction,       \* and as a deduction
  PostingBound,
  Common           \* allocations are fractions over it

ASSUME PaymentAmountsAssumption ==
  /\ VendorBill \subseteq Nat /\ IsFiniteSet(VendorBill) /\ RefundBill \subseteq VendorBill
  /\ BillLine \in [VendorBill -> Seq([base : Nat, wht : BOOLEAN])]
  /\ Threshold \in Nat
  /\ Retention \subseteq [VendorBill -> Nat]
  /\ VatRate \in Nat \X (Nat \ {0}) /\ WhtRate \in Nat \X (Nat \ {0})
  /\ Price \subseteq Int /\ LinePrice \subseteq Nat
  /\ TaxPrice \subseteq Int /\ Deduction \subseteq Int
  /\ PostingBound \in Nat

NoDraft == [none |-> TRUE]

VARIABLES
  twoSteps,     \* not auto_recognize_vat
  retained,     \* amount_retention of each bill, retained on payment
  residual,     \* what is left to pay of each bill
  draft,      \* the draft
  entry,        \* history: the entry posted last
  due,          \* history: the VAT of each bill that became due
  parts         \* history: the payments of each bill, and what was odd about them

amountVars == <<twoSteps, retained, residual, draft, entry, due, parts>>

-----------------------------------------------------------------------------

\* round(n / d), half away from zero
InCents(n, d) == IF n >= 0 THEN (2 * n + d) \div (2 * d) ELSE -((d - 2 * n) \div (2 * d))

-----------------------------------------------------------------------------
(* Bills *)

\* compute_all of one tax, on a base multiplied by n / d
TaxOf(rate, base, n, d) == InCents(rate[1] * base * n, rate[2] * d)

VatOf == [b \in VendorBill |->
  SumFunctionOnSet([k \in DOMAIN BillLine[b] |-> TaxOf(VatRate, BillLine[b][k].base, 1, 1)],
                   DOMAIN BillLine[b])]

\* amount_original
Original == [b \in VendorBill |->
  SumFunctionOnSet([k \in DOMAIN BillLine[b] |-> BillLine[b][k].base], DOMAIN BillLine[b])
    + VatOf[b]]

WithholdingLines == [b \in VendorBill |-> {k \in DOMAIN BillLine[b] : BillLine[b][k].wht}]
LinesAbove == [b \in VendorBill |-> {k \in WithholdingLines[b] : BillLine[b][k].base >= Threshold}]

\* The tax withheld from each line for n / d of a bill
WhtOf(b, n, d) == [k \in DOMAIN BillLine[b] |-> TaxOf(WhtRate, BillLine[b][k].base, n, d)]

\* _get_amount_wht: it does not look at the threshold
Withheld(b, n, d) == SumFunctionOnSet(WhtOf(b, n, d), WithholdingLines[b])

\* The same in _get_amount_wht_ex, which does
WithheldAbove(b, n, d) == SumFunctionOnSet(WhtOf(b, n, d), LinesAbove[b])

\* As a bug would have it: the retention is forgotten.
NetOfTax(b) == Original[b] - Withheld(b, 1, 1)

\* new_amt_orig: what is paid of a bill in the end
NetOriginal(b) == Original[b] - Withheld(b, 1, 1) - retained[b]

OpenBills == {b \in VendorBill : residual[b] > 0}
LineSign(b) == IF b \in RefundBill THEN -1 ELSE 1

-----------------------------------------------------------------------------
(* Lines *)

\* A bill is of something, no more is withheld and retained from it than its amount,
\* and all amounts divide the common one.
ASSUME BillsAssumption ==
  /\ Common \in Nat \ {0}
  /\ \A b \in VendorBill :
       /\ Original[b] > 0
       /\ Original[b] * (Common \div Original[b]) = Common
       /\ \A r \in Retention : Withheld(b, 1, 1) + r[b] <= Original[b]

FullAllocation(b) == residual[b] * NetOriginal(b) * (Common \div Original[b])

\* amount_alloc: the net amount allocated to a bill.  Refunds are allocated in full
\* and add to what is there to spend; then the bills take what remains, in order.
\* In the dialog of a bill it is allocated in full.
Allocation(bills, b, price, dialog) ==
  LET full == [c \in bills |-> FullAllocation(c)]
      refunded == SumFunctionOnSet(full, bills \cap RefundBill)
      before == SumFunctionOnSet(full, {c \in bills \ RefundBill : c < b})
      remaining == Max({0, price * Common + refunded - before})
  IN  IF dialog \/ b \in RefundBill THEN FullAllocation(b)
      ELSE Min({FullAllocation(b), remaining})

\* A line for a net amount: the gross amount, and what is withheld, negative
LineForNet(b, net) ==
  LET base == NetOriginal(b) * Common
      wht == WithheldAbove(b, net, base)
  IN  IF net = 0 THEN [amount |-> 0, wht |-> 0, retention |-> 0]
      ELSE [amount |-> InCents(net * NetOriginal(b) + wht * base + retained[b] * net, base),
            wht |-> -wht,
            retention |-> -InCents(retained[b] * net, base)]

\* recompute_voucher_lines
RecomputedLines(bills, price, dialog) ==
  [b \in bills |-> LineForNet(b, Allocation(bills, b, price, dialog))]

\* onchange_amount of a line, for a gross amount
LineForGross(b, amount) ==
  [amount |-> amount,
   wht |-> -Withheld(b, amount, Original[b]),
   retention |-> -InCents(retained[b] * amount, Original[b])]

NetOfLine(line) == line.amount + line.wht + line.retention

\* onchange_journal: the amount that a bill's dialog proposes
ProposedAmount(b) == NetOfLine(LineForGross(b, residual[b]))

-----------------------------------------------------------------------------
(* Taxes *)

\* The row of withheld tax belongs to the first bill it is withheld from.
Withholding(bills) == {b \in bills : LinesAbove[b] # {}}
IsOwner(bills, b) == b \in Withholding(bills) /\ \A c \in Withholding(bills) : b <= c

\* As a bug would have it: the ratio is that of what is left to pay.
VatOfResidual(lines) ==
  [b \in DOMAIN lines |->
     InCents(LineSign(b) * VatOf[b] * lines[b].amount, residual[b])]

\* _compute_one_tax_grouped and compute: the VAT of each bill
ComputedVat(lines) ==
  [b \in DOMAIN lines |->
     InCents(LineSign(b) * VatOf[b] * lines[b].amount, Original[b])]

\* As a bug would have it: the tax withheld from refunds adds up with the rest.
UnsignedWht(lines) ==
  -InCents(SumFunctionOnSet(
             [b \in DOMAIN lines |->
                WithheldAbove(b, 1, 1) * lines[b].amount * (Common \div Original[b])],
             DOMAIN lines),
           Common)

\* and the tax withheld, of all bills together
ComputedWht(lines) ==
  -InCents(SumFunctionOnSet(
             [b \in DOMAIN lines |->
                LineSign(b) * WithheldAbove(b, 1, 1) * lines[b].amount
                  * (Common \div Original[b])],
             DOMAIN lines),
           Common)

\* button_reset_taxes, at the end of each write of a draft
ResetTaxes(v) ==
  [v EXCEPT !.written = TRUE,
            !.vat = ComputedVat(v.line),
            !.undue = [b \in DOMAIN v.line |-> -ComputedVat(v.line)[b]],
            !.wht = [b \in v.manual \cup {c \in DOMAIN v.line : IsOwner(DOMAIN v.line, c)} |->
                       IF b \in v.manual THEN v.wht[b] ELSE ComputedWht(v.line)]]

\* A line is written.  A tax of it that changes is also written to the row of the
\* bill, which becomes manual.
WriteLine(v, b, line) ==
  LET row == b \in DOMAIN v.wht /\ line.wht # v.line[b].wht
      others == \E c \in DOMAIN v.line \ {b} :
                  LinesAbove[c] # {} /\ v.line[c].amount # 0
  IN  [v EXCEPT !.line[b] = line,
                !.registered = FALSE,
                !.manual = IF row THEN @ \cup {b} ELSE @,
                !.wht = IF row THEN [@ EXCEPT ![b] = line.wht] ELSE @,
                !.odd = @ \cup (IF row /\ others THEN {"shared"} ELSE {})
                          \cup (IF row /\ b \in RefundBill THEN {"refund"} ELSE {})
                          \cup (IF v.manual # {} /\ ~row THEN {"stale"} ELSE {})]

-----------------------------------------------------------------------------
(* The draft *)

DraftTyped(v) ==
  /\ DOMAIN v = {"amount", "registered", "line", "written", "vat", "undue", "wht", "manual",
                 "deduction", "odd"}
  /\ v.amount \in Int
  /\ DOMAIN v.line \subseteq VendorBill
  /\ \A b \in DOMAIN v.line :
       v.line[b] \in [amount : Int, wht : Int, retention : Int]
  /\ v.vat \in [DOMAIN v.line -> Int]
  /\ v.undue \in [DOMAIN v.line -> Int]
  /\ v.wht \in [DOMAIN v.wht -> Int]
  /\ v.manual \subseteq DOMAIN v.wht /\ DOMAIN v.wht \subseteq VendorBill
  /\ v.deduction \in Int
  /\ v.written \in BOOLEAN /\ v.registered \in BOOLEAN

AmountsTypeOK ==
  /\ twoSteps \in BOOLEAN
  /\ retained \in Retention
  /\ residual \in [VendorBill -> Int]
  /\ draft = NoDraft \/ DraftTyped(draft)
  /\ due \in [VendorBill -> Int]
  /\ parts.count \in [VendorBill -> 0 .. PostingBound]

AmountsInit ==
  /\ twoSteps \in BOOLEAN
  /\ retained \in Retention
  /\ residual = Original
  /\ draft = NoDraft
  /\ entry = NoDraft
  /\ due = [b \in VendorBill |-> 0]
  /\ parts = [count |-> [b \in VendorBill |-> 0], odd |-> {}]

OverLines(v, f) == SumFunctionOnSet(f, DOMAIN v.line)

\* _calc_writeoff_amount: the difference that the form shows
ShownDifference(v) ==
  v.amount - OverLines(v, [b \in DOMAIN v.line |-> LineSign(b) * NetOfLine(v.line[b])])
    - v.deduction

NewDraft(bills, price, dialog) ==
  [amount |-> price,
   registered |-> dialog,
   line |-> RecomputedLines(bills, price, dialog),
   written |-> FALSE,
   vat |-> [b \in bills |-> 0],
   undue |-> [b \in bills |-> 0],
   wht |-> [b \in {} |-> 0],
   manual |-> {},
   deduction |-> 0,
   odd |-> {}]

\* A draft is created: its taxes are not computed.
CreatePayment(price) ==
  /\ draft = NoDraft
  /\ OpenBills # {}
  /\ draft' = NewDraft(OpenBills, price, FALSE)
  /\ entry' = NoDraft
  /\ UNCHANGED <<twoSteps, retained, residual, due, parts>>

\* Register Payment, of a bill
RegisterPayment(b) ==
  /\ draft = NoDraft
  /\ b \in OpenBills \ RefundBill
  /\ draft' = NewDraft({b}, ProposedAmount(b), TRUE)
  /\ entry' = NoDraft
  /\ UNCHANGED <<twoSteps, retained, residual, due, parts>>

Drafted == draft # NoDraft

\* onchange_amount: the lines are dropped and made again.
ChangeAmount(price) ==
  /\ Drafted
  /\ price # draft.amount
  /\ draft' = ResetTaxes([draft EXCEPT
       !.amount = price,
       !.registered = FALSE,
       !.line = RecomputedLines(OpenBills, price, FALSE),
       !.odd = @ \cup (IF draft.manual # {} THEN {"stale"} ELSE {})])
  /\ UNCHANGED <<twoSteps, retained, residual, entry, due, parts>>

\* The amount of a line is changed.
ChangeLine(b, amount) ==
  /\ Drafted
  /\ b \in DOMAIN draft.line
  /\ amount <= residual[b] /\ amount # draft.line[b].amount
  /\ draft' = ResetTaxes(WriteLine(draft, b, LineForGross(b, amount)))
  /\ UNCHANGED <<twoSteps, retained, residual, entry, due, parts>>

\* The tax of a line is typed.
ChangeTax(b, wht) ==
  /\ Drafted
  /\ b \in DOMAIN draft.line
  /\ wht # draft.line[b].wht
  /\ LET v == ResetTaxes(WriteLine(draft, b, [draft.line[b] EXCEPT !.wht = wht]))
     IN  draft' = [v EXCEPT !.odd = @ \cup
           (IF b \in DOMAIN draft.wht THEN {} ELSE {"typed"})]
  /\ UNCHANGED <<twoSteps, retained, residual, entry, due, parts>>

\* The VAT of a bill is typed: the taxes are not computed anew.
ChangeVat(b, vat) ==
  /\ Drafted
  /\ draft.written
  /\ b \in DOMAIN draft.line
  /\ vat # draft.vat[b]
  /\ draft' = [draft EXCEPT !.vat[b] = vat]
  /\ UNCHANGED <<twoSteps, retained, residual, entry, due, parts>>

\* The difference is explained by a deduction (multiple_reconcile_ids), or no more:
\* the form has a page for it as long as there is either.
Deduct(amount) ==
  /\ Drafted
  /\ ShownDifference(draft) # 0 \/ draft.deduction # 0
  /\ amount # draft.deduction
  /\ draft' = ResetTaxes([draft EXCEPT !.deduction = amount])
  /\ UNCHANGED <<twoSteps, retained, residual, entry, due, parts>>

DiscardPayment ==
  /\ Drafted
  /\ draft' = NoDraft
  /\ UNCHANGED <<twoSteps, retained, residual, entry, due, parts>>

-----------------------------------------------------------------------------
(* Posting *)

\* move_line_get of tax details: an edited VAT is balanced by the tax difference.
TaxDifference(v) == -(OverLines(v, v.vat) + OverLines(v, v.undue))

\* move_line_get of taxes: in two steps, VAT is left to the other entry.
TaxLines(v) ==
  SumFunctionOnSet(v.wht, DOMAIN v.wht)
    + IF twoSteps THEN 0 ELSE OverLines(v, v.vat) + OverLines(v, v.undue)

\* compute_net_tax, of these lines and the tax difference
BookedTaxes(v) == TaxLines(v) + TaxDifference(v)

\* voucher_move_line_retention_create
BookedRetention(v) == OverLines(v, [b \in DOMAIN v.line |-> v.line[b].retention])

\* voucher_move_line_create and _finalize_line_total: what the entry lacks
LineTotal(v) ==
  OverLines(v, [b \in DOMAIN v.line |-> LineSign(b) * v.line[b].amount]) - v.amount
    + BookedTaxes(v) + BookedRetention(v)

\* writeoff_move_line_get: it is written off.  With a deduction that is what the
\* form shows, unless the deduction is compared equal to the total.
WrittenOff(v) ==
  LET total == LineTotal(v)
      rest == IF total = v.deduction THEN 0 ELSE ShownDifference(v)
  IN  IF total = 0 THEN 0
      ELSE IF v.deduction = 0 THEN -total
      ELSE v.deduction + rest

\* What was odd about a payment
Odd(v) ==
  v.odd
    \cup (IF v.written THEN {} ELSE {"unwritten"})
    \cup (IF \E b \in DOMAIN v.line \cap RefundBill : v.line[b].retention # 0
          THEN {"refund"} ELSE {})
    \cup (IF \E b \in DOMAIN v.line : v.vat[b] # -v.undue[b] THEN {"vat"} ELSE {})
    \cup (IF \E b \in DOMAIN v.line : v.line[b].amount # 0 /\ LinesAbove[b] # WithholdingLines[b]
          THEN {"below"} ELSE {})
    \cup (IF v.deduction # 0 /\ LineTotal(v) = v.deduction
          THEN {"deduction"} ELSE {})

\* reconcile refuses what is not balanced: with a deduction and a difference, each
\* bill must be paid in full.
MayReconcile(v) ==
  v.deduction # 0 /\ ShownDifference(v) # 0 =>
    \A b \in DOMAIN v.line : v.line[b].amount \in {0, residual[b]}

\* proforma_voucher: action_move_line_create
PostPaymentDraft ==
  /\ Drafted
  /\ MayReconcile(draft)
  /\ \A b \in DOMAIN draft.line : parts.count[b] < PostingBound
  /\ LET paid == {b \in DOMAIN draft.line : draft.line[b].amount # 0}
     IN  /\ residual' = [b \in VendorBill |->
              IF b \in paid THEN residual[b] - draft.line[b].amount ELSE residual[b]]
         /\ due' = [b \in VendorBill |->
              IF b \in DOMAIN draft.line THEN due[b] + draft.vat[b] ELSE due[b]]
         /\ parts' = [count |-> [b \in VendorBill |->
                                   parts.count[b] + IF b \in paid THEN 1 ELSE 0],
                      odd |-> parts.odd \cup Odd(draft)]
         /\ entry' = [lacks |-> LineTotal(draft),
                      off |-> WrittenOff(draft),
                      shown |-> ShownDifference(draft),
                      deduction |-> draft.deduction,
                      bills |-> paid,
                      registered |-> draft.registered,
                      odd |-> Odd(draft)]
  /\ draft' = NoDraft
  /\ UNCHANGED <<twoSteps, retained>>

AmountsNext ==
  \/ \E price \in Price : CreatePayment(price) \/ ChangeAmount(price)
  \/ \E b \in VendorBill :
       \/ RegisterPayment(b)
       \/ \E amount \in LinePrice : ChangeLine(b, amount)
       \/ \E tax \in TaxPrice : ChangeTax(b, -tax) \/ ChangeVat(b, tax)
  \/ \E amount \in Deduction : Deduct(amount)
  \/ DiscardPayment
  \/ PostPaymentDraft

AmountsSpec == AmountsInit /\ [][AmountsNext]_amountVars

-----------------------------------------------------------------------------
(* Properties *)

Abs(n) == IF n >= 0 THEN n ELSE -n

\* A cent for each line of the bills that tax is withheld from
Cents(bills) == SumFunctionOnSet([b \in bills |-> Cardinality(LinesAbove[b])], bills)

\* What makes an entry differ from its form: no write after the draft was created;
\* a tax typed where the row of the table is another bill's, shared with others,
\* changed again later, or a refund's; lines of a bill below the threshold, which what
\* is to be paid of it counts and the tax of its rows does not; a retention on a
\* refund; a deduction equal to the total; and in two steps a VAT typed by hand.
Misleading ==
  {"unwritten", "typed", "shared", "stale", "below", "refund", "deduction"}
    \cup (IF twoSteps THEN {"vat"} ELSE {})

\* The entry of a payment balances, and writes off the difference which its form
\* showed, together with the deduction: the lines of the form and the rows of the
\* taxes, computed along different ways and rounded in different places, say the
\* same but for the cents, whatever was changed in between, with the exceptions
\* that Misleading names.
WriteoffAsShown ==
  entry # NoDraft /\ entry.odd \cap Misleading = {} =>
    /\ Abs(entry.lacks + entry.off) <= Cents(entry.bills)
    /\ Abs(entry.off - entry.shown - entry.deduction) <= Cents(entry.bills)

\* The VAT of a bill becomes due as it is paid: after any number of payments it is
\* the share of what was paid, within half a cent for each of them, unless
\* a VAT was typed by hand, or a draft posted which was never written.
VatFollowsPayment ==
  parts.odd \cap {"unwritten", "vat"} = {} =>
    \A b \in VendorBill :
      2 * Abs(due[b] * Original[b] - LineSign(b) * VatOf[b] * (Original[b] - residual[b]))
        <= parts.count[b] * Original[b]

\* A payment registered from a bill with the amount that its dialog proposes pays
\* what is left of the bill, but for the cents, also if a part was paid before;
\* not so if tax is proposed for a line below the threshold.
RegisteredPaysInFull ==
  entry # NoDraft /\ entry.registered =>
    \A b \in entry.bills :
      LinesAbove[b] = WithholdingLines[b] => Abs(residual[b]) <= Cents({b})
=============================================================================

------------------------- MODULE PurchaseInvoicePlan -------------------------
(***************************************************************************)
(* A purchase order billed by installments (purchase_invoice_plan).  It    *)
(* differs from the plan of a sales order (SaleInvoicePlan): the first     *)
(* bill is an advance, deducted from every installment in its proportion,  *)
(* or a deposit, deducted from the last installment alone; bills are       *)
(* refused once there are as many as installments; and their total is      *)
(* compared with the order only when they are made for the first time.     *)
(* There is no workflow between the order and its bills.                   *)
(*                                                                         *)
(* Amounts are hundredths of the currency.  A step is a transaction.  The  *)
(* states of the order and of its bills are those of the purchase and      *)
(* account modules, which are external.                                    *)
(***************************************************************************)
EXTENDS Integers, Sequences, FiniteSetsExt

CONSTANTS
  PurchaseLine,
  NoPurchaseLine,     \* the line of the row of the first bill
  PurchaseSubtotal,   \* the amount of each line of the order
  Tenth,              \* hundredths in the unit to which a plan is compared
  LastInstallment,    \* installments at most
  FirstAmount,        \* what the wizard may set as advance or deposit
  RowAmount,          \* what one may type as the amount of a row
  BillBound           \* at most that many bills are made

ASSUME PurchasePlanAssumption ==
  /\ IsFiniteSet(PurchaseLine)
  /\ NoPurchaseLine \notin PurchaseLine
  /\ PurchaseSubtotal \in [PurchaseLine -> Nat \ {0}]
  /\ Tenth \in Nat \ {0}
  /\ LastInstallment \in Nat \ {0}
  /\ FirstAmount \subseteq Nat \ {0}
  /\ RowAmount \subseteq Nat
  /\ BillBound \in Nat

First == <<0, NoPurchaseLine>>
PlanSlot == {First} \cup ((1 .. LastInstallment) \X PurchaseLine)
NoBill == 0

VARIABLES
  purchase,         \* the state of the order
  ignoreMismatch,   \* bypass_validate_amount
  firstBill,        \* use_advance, use_deposit, and the kind of the row First
  rows,             \* the plan
  bills,
  purchaseWizard,   \* is the wizard that makes a plan open?
  billHistory       \* what else happened

purchasePlanVars ==
  <<purchase, ignoreMismatch, firstBill, rows, bills, purchaseWizard, billHistory>>

BillRow == [there : BOOLEAN, amount : Nat, ref : (1 .. BillBound) \cup {NoBill}]

Bill ==
  [state : {"draft", "open", "paid", "cancel"},
   kind : {"advance", "deposit", "installment"},
   slots : SUBSET PlanSlot,                  \* the rows it bills
   amount : [PurchaseLine -> Nat],           \* how much of each line
   first : Nat,                              \* the advance or deposit it bills
   deducts : SUBSET (1 .. BillBound),        \* the bills of those it deducts
   deducted : Nat]                           \* and how much of them

PurchasePlanTypeOK ==
  /\ purchase \in {"draft", "confirmed", "approved", "cancel"}
  /\ ignoreMismatch \in BOOLEAN
  /\ firstBill \in {"none", "advance", "deposit"}
  /\ rows \in [PlanSlot -> BillRow]
  /\ bills \in Seq(Bill) /\ Len(bills) <= BillBound
  /\ purchaseWizard \in BOOLEAN
  /\ billHistory \subseteq {"replanned", "lost", "revived", "late first", "moved", "ignored"}

NoBillRow == [there |-> FALSE, amount |-> 0, ref |-> NoBill]

PurchasePlanInit ==
  /\ purchase = "draft"
  /\ ignoreMismatch = FALSE
  /\ firstBill = "none"
  /\ rows = [s \in PlanSlot |-> NoBillRow]
  /\ bills = << >>
  /\ purchaseWizard = FALSE
  /\ billHistory = {}

-----------------------------------------------------------------------------
(* The plan *)

Valid(i) == bills[i].state # "cancel"

\* The related field state of a row is neither False nor cancel.
HasBill(s) == rows[s].ref # NoBill /\ Valid(rows[s].ref)

Planned == {s \in PlanSlot : rows[s].there}

OrderTotal == SumFunctionOnSet(PurchaseSubtotal, PurchaseLine)

\* What rows amount to
RowsSum(S) == SumFunctionOnSet([s \in PlanSlot |-> rows[s].amount], S)

ToTheTenth(amount) == (amount + Tenth \div 2) \div Tenth

\* _compute_check_invoice_plan_warning, which raises its warning: the rows of each
\* line that has any make its amount.
PlanMatches ==
  ignoreMismatch \/ \A l \in {s[2] : s \in Planned \ {First}} :
    ToTheTenth(RowsSum({s \in Planned : s[2] = l})) = ToTheTenth(PurchaseSubtotal[l])

\* The form lets one set and clear bypass_validate_amount at any time.
SetBypass ==
  /\ ignoreMismatch' = ~ignoreMismatch
  /\ billHistory' = billHistory \cup {"ignored"}
  /\ UNCHANGED <<purchase, firstBill, rows, bills, purchaseWizard>>

OpenPurchaseWizard ==
  /\ purchase = "draft"
  /\ ~purchaseWizard
  /\ purchaseWizard' = TRUE
  /\ UNCHANGED <<purchase, ignoreMismatch, firstBill, rows, bills, billHistory>>

\* do_create_purchase_invoice_plan: all rows are replaced by those of the
\* installments, of which share gives the percentages, whatever became of the order.
DoCreatePurchaseInvoicePlan(share, first, amount) ==
  /\ purchaseWizard
  /\ purchaseWizard' = FALSE
  /\ firstBill' = first
  /\ rows' = [s \in PlanSlot |->
       IF s = First
       THEN [there |-> first # "none", ref |-> NoBill,
             amount |-> IF first = "none" THEN 0 ELSE amount]
       ELSE [there |-> s[1] \in DOMAIN share, ref |-> NoBill,
             amount |-> IF s[1] \in DOMAIN share
                        THEN (share[s[1]] * PurchaseSubtotal[s[2]] + 50) \div 100 ELSE 0]]
  /\ billHistory' = IF \E s \in PlanSlot : HasBill(s)
                    THEN billHistory \cup {"replanned"} ELSE billHistory
  /\ UNCHANGED <<purchase, ignoreMismatch, bills>>

\* The plan is shown in one of two lists; the one with advances is never read only.
PlanEditable == purchase = "draft" \/ firstBill # "none"

\* What a change of the row of the first bill, or of one that is moved, leaves in
\* the history once there are bills
Afterwards(what) == IF bills = << >> THEN billHistory ELSE billHistory \cup what

\* A row typed in the list without advances
TypeRow(s, amount) ==
  /\ purchase = "draft" /\ firstBill = "none"
  /\ s # First /\ ~rows[s].there
  /\ rows' = [rows EXCEPT ![s] = [NoBillRow EXCEPT !.there = TRUE, !.amount = amount]]
  /\ UNCHANGED <<purchase, ignoreMismatch, firstBill, bills, purchaseWizard, billHistory>>

\* The amount of a row without a living bill is changed.
EditRow(s, amount) ==
  /\ PlanEditable
  /\ rows[s].there /\ ~HasBill(s)
  /\ rows' = [rows EXCEPT ![s].amount = amount]
  /\ billHistory' = Afterwards(IF s = First THEN {"late first"} ELSE {})
  /\ UNCHANGED <<purchase, ignoreMismatch, firstBill, bills, purchaseWizard>>

\* A row without a living bill gets another installment, where its line has none.
MoveRow(s, installment) ==
  LET to == <<installment, s[2]>>
  IN  /\ PlanEditable
      /\ s # First
      /\ rows[s].there /\ ~HasBill(s) /\ ~rows[to].there
      /\ rows' = [rows EXCEPT ![s] = NoBillRow, ![to] = rows[s]]
      /\ billHistory' = Afterwards({"moved"})
      /\ UNCHANGED <<purchase, ignoreMismatch, firstBill, bills, purchaseWizard>>

\* A row is deleted; _validate_invoice_plan sees the list without advances only.
UnlinkRow(s) ==
  /\ PlanEditable
  /\ rows[s].there
  /\ firstBill = "none" => ~HasBill(s)
  /\ rows' = [rows EXCEPT ![s] = NoBillRow]
  /\ billHistory' = Afterwards({"lost"})
  /\ UNCHANGED <<purchase, ignoreMismatch, firstBill, bills, purchaseWizard>>

-----------------------------------------------------------------------------
(* Billing *)

\* _compute_plan_invoice_created
PlanInvoiceCreated ==
  /\ bills # << >>
  /\ Cardinality({i \in DOMAIN bills : Valid(i)}) = Cardinality({s[1] : s \in Planned})

\* The rows of an installment that are to be billed
Unbilled(k) == {s \in Planned : s[1] = k /\ ~HasBill(s)}

\* _create_deposit_invoice makes no bill of nothing.
Billing(k) == Unbilled(k) # {} /\ (k = 0 => rows[First].amount > 0)

\* The bill of installment k: they are made in order.
BillFor(k) == Len(bills) + Cardinality({h \in 0 .. k : Billing(h)})

\* As a bug would have it: those of canceled bills are found, too.
FirstBillsEver(kind) ==
  {i \in DOMAIN bills : bills[i].kind = kind}
    \cup (IF Billing(0) /\ firstBill = kind THEN {BillFor(0)} ELSE {})

\* The advances and deposits that compute_advance_payment_line and
\* compute_deposit_line find
FirstBills(kind) ==
  {i \in DOMAIN bills : Valid(i) /\ bills[i].kind = kind}
    \cup (IF Billing(0) /\ firstBill = kind THEN {BillFor(0)} ELSE {})

\* What is deducted from the bill of installment k
Deducts(k) ==
  IF k = 0 THEN {}
  ELSE FirstBills("advance")
         \cup (IF k = Max({s[1] : s \in Planned}) THEN FirstBills("deposit") ELSE {})

BilledOf(k) == RowsSum(Unbilled(k) \ {First})

FirstAmountOf(i) == IF i \in DOMAIN bills THEN bills[i].first ELSE rows[First].amount

\* The part of an advance for a bill of that amount: where the amount is zero, and
\* so the ratio is, "or 1.0" makes it the whole.
AdvancePart(advance, billed) ==
  IF billed = 0 THEN advance
  ELSE (2 * advance * billed + OrderTotal) \div (2 * OrderTotal)

\* If there are several advances, each one's part is that of the whole bill here.
DeductedFrom(k) ==
  SumFunctionOnSet([i \in Deducts(k) |-> IF i \in FirstBills("advance")
                                         THEN AdvancePart(FirstAmountOf(i), BilledOf(k))
                                         ELSE FirstAmountOf(i)], Deducts(k))

BillOf(k) ==
  [state |-> "draft",
   kind |-> IF k = 0 THEN firstBill ELSE "installment",
   slots |-> Unbilled(k),
   amount |-> [l \in PurchaseLine |->
                 IF <<k, l>> \in Unbilled(k) THEN rows[<<k, l>>].amount ELSE 0],
   first |-> IF k = 0 THEN rows[First].amount ELSE 0,
   deducts |-> Deducts(k),
   deducted |-> DeductedFrom(k)]

\* _validate_invoice_balance: to the hundredth, and only for the first bills.  A
\* first bill of nothing is not found by its query, which fails.
BalanceValid(installments) ==
  (ignoreMismatch \/ bills # << >>) \/
    /\ First \in Planned => 0 \in installments
    /\ SumFunctionOnSet([k \in installments |-> BilledOf(k)], installments)
         + (IF 0 \in installments THEN rows[First].amount ELSE 0)
         - SumFunctionOnSet([k \in installments |-> DeductedFrom(k)], installments) = OrderTotal

\* action_invoice_create.  A bill has a line for every line of the order, which
\* cannot be made without a row (_prepare_inv_line).
BillsCreated ==
  LET installments == {k \in 0 .. LastInstallment : Billing(k)}
      all == Len(bills) + Cardinality(installments)
  IN  /\ PlanMatches
      /\ ~PlanInvoiceCreated
      /\ Planned # {}
      /\ \A k \in installments \ {0} : \A l \in PurchaseLine : <<k, l>> \in Unbilled(k)
      /\ BalanceValid(installments)
      /\ all <= BillBound
      /\ bills' = [i \in 1 .. all |->
           IF i <= Len(bills) THEN bills[i]
           ELSE BillOf(CHOOSE k \in installments : BillFor(k) = i)]
      /\ rows' = [s \in PlanSlot |->
           IF s \in Unbilled(s[1])
           THEN [rows[s] EXCEPT !.ref = IF Billing(s[1]) THEN BillFor(s[1]) ELSE NoBill]
           ELSE rows[s]]
      /\ UNCHANGED <<purchase, ignoreMismatch, firstBill, purchaseWizard, billHistory>>

\* create_purchase_invoices, from the button of an order confirmed or approved
CreatePurchaseInvoices == purchase \in {"confirmed", "approved"} /\ BillsCreated

-----------------------------------------------------------------------------
(* The order *)

PurchaseConfirm ==
  /\ purchase = "draft"
  /\ purchase' = "confirmed"
  /\ UNCHANGED <<ignoreMismatch, firstBill, rows, bills, purchaseWizard, billHistory>>

WkfApproveOrder ==
  /\ purchase = "confirmed"
  /\ PlanMatches
  /\ purchase' = "approved"
  /\ UNCHANGED <<ignoreMismatch, firstBill, rows, bills, purchaseWizard, billHistory>>

\* The bills of S are canceled.
BillsCanceled(S) ==
  bills' = [i \in DOMAIN bills |->
              IF i \in S THEN [bills[i] EXCEPT !.state = "cancel"] ELSE bills[i]]

\* action_cancel_draft_invoices
CancelDraftBills ==
  /\ purchase = "approved" /\ PlanInvoiceCreated
  /\ BillsCanceled({i \in DOMAIN bills : bills[i].state = "draft"})
  /\ UNCHANGED <<purchase, ignoreMismatch, firstBill, rows, purchaseWizard, billHistory>>

\* An order is canceled with its drafts, unless a bill is open or paid.
PurchaseCancel ==
  /\ purchase \in {"confirmed", "approved"}
  /\ \A i \in DOMAIN bills : bills[i].state \in {"draft", "cancel"}
  /\ purchase' = "cancel"
  /\ BillsCanceled(DOMAIN bills)
  /\ UNCHANGED <<ignoreMismatch, firstBill, rows, purchaseWizard, billHistory>>

\* action_cancel_draft of an order, which keeps its bills
PurchaseCancelDraft ==
  /\ purchase = "cancel"
  /\ purchase' = "draft"
  /\ UNCHANGED <<ignoreMismatch, firstBill, rows, bills, purchaseWizard, billHistory>>

BillCancel(i) ==
  /\ bills[i].state \in {"draft", "open"}
  /\ BillsCanceled({i})
  /\ UNCHANGED <<purchase, ignoreMismatch, firstBill, rows, purchaseWizard, billHistory>>

\* A bill is validated, or paid, or reset to draft.
BillProceed(i) ==
  /\ bills[i].state # "paid"
  /\ bills' = [bills EXCEPT ![i].state =
       CASE @ = "draft" -> "open" [] @ = "open" -> "paid" [] @ = "cancel" -> "draft"]
  /\ billHistory' = IF Valid(i) THEN billHistory ELSE billHistory \cup {"revived"}
  /\ UNCHANGED <<purchase, ignoreMismatch, firstBill, rows, purchaseWizard>>

\* Shares of the first installments, in hundredths
Shares == UNION {[1 .. n -> {50, 100}] : n \in 1 .. LastInstallment}

PurchasePlanNext ==
  \/ SetBypass
  \/ OpenPurchaseWizard
  \/ \E share \in Shares :
       \/ DoCreatePurchaseInvoicePlan(share, "none", 0)
       \/ \E first \in {"advance", "deposit"}, amount \in FirstAmount :
            DoCreatePurchaseInvoicePlan(share, first, amount)
  \/ \E s \in PlanSlot :
       \/ \E amount \in RowAmount : TypeRow(s, amount) \/ EditRow(s, amount)
       \/ \E installment \in 1 .. LastInstallment : MoveRow(s, installment)
       \/ UnlinkRow(s)
  \/ CreatePurchaseInvoices
  \/ PurchaseConfirm
  \/ WkfApproveOrder
  \/ CancelDraftBills
  \/ PurchaseCancel
  \/ PurchaseCancelDraft
  \/ \E i \in DOMAIN bills : BillCancel(i) \/ BillProceed(i)

PurchasePlanSpec == PurchasePlanInit /\ [][PurchasePlanNext]_purchasePlanVars

-----------------------------------------------------------------------------
(* Properties *)

AllBilled == Planned # {} /\ \A s \in Planned : HasBill(s)

\* The sum of f over the bills that are not canceled
OfBills(f) == SumFunctionOnSet(f, {i \in DOMAIN bills : Valid(i)})

Deducted == OfBills([i \in DOMAIN bills |-> bills[i].deducted])
BilledFirst == OfBills([i \in DOMAIN bills |-> bills[i].first])

AmountsNear(a, b, margin) == a - b <= margin /\ b - a <= margin

\* The bills of the installments are of something, those that are not canceled.
NoneEmpty ==
  \A i \in DOMAIN bills : Valid(i) /\ bills[i].kind = "installment" =>
    \E l \in PurchaseLine : bills[i].amount[l] > 0

\* Once all rows of a plan have bills, the bills that are not canceled are those of
\* the order, however often some were canceled, changed and made again: each row
\* is in one of them; they bill each planned line to a tenth of the currency; and if
\* there are installments, they deduct the deposit once, or the parts of the advance
\* that make the whole, to a hundredth for each bill and the advance's share of that
\* tenth, unless one bills nothing.  It is so unless mismatches were ever ignored, the
\* plan was made anew under living bills, rows were deleted from it or moved after
\* the first bills, or the first one's changed, or a canceled bill was reset to draft.
BilledOnceWithFirst ==
  AllBilled /\ billHistory = {} =>
    /\ \A i, k \in DOMAIN bills :
         Valid(i) /\ Valid(k) /\ bills[i].slots \cap bills[k].slots # {} => i = k
    /\ \A l \in {s[2] : s \in Planned \ {First}} :
         ToTheTenth(OfBills([i \in DOMAIN bills |-> bills[i].amount[l]]))
           = ToTheTenth(PurchaseSubtotal[l])
    /\ firstBill = "deposit" /\ Planned # {First} => Deducted = BilledFirst
    /\ firstBill = "advance" /\ Planned # {First} /\ NoneEmpty =>
         AmountsNear(OrderTotal * Deducted, OrderTotal * BilledFirst,
                     OrderTotal * Len(bills) + rows[First].amount * Tenth * Cardinality(PurchaseLine))
=============================================================================

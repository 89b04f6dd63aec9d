----------------------------- MODULE MCBusiness -----------------------------
(***************************************************************************)
(* The business addons, which share no state here: a behaviour is one of   *)
(* one of them, chosen in the initial state, while the others do nothing.  *)
(* Their states add up instead of multiplying.                             *)
(***************************************************************************)
EXTENDS
  Expenses, BankPayments, SaleInvoicePlan, PurchaseInvoicePlan, Assets, UndueVat, IncomeTax,
  PaymentAmounts

CONSTANTS a1, c1, b1, b2, t1, t2, l1, l2, v1, v2

VARIABLE addon   \* the one which moves

vars ==
  <<expensesVars, bankVars, planVars, purchasePlanVars, assetVars, vatVars, pitVars, amountVars,
    addon>>

\* The asset of a behaviour of another addon
AnAsset == CHOOSE a \in AssetRow : a.state = "draft" /\ a.salvage < a.purchase

FirstYear == CHOOSE year \in CalendarYear : \A other \in CalendarYear : year <= other

\* The setting of a behaviour of another addon
AnyVatSetting == VatInit /\ (addon # "vat" => autoRecognize /\ voids)

AnyYears == PitInit /\ (addon # "pit" => \A v \in PitPayment : pitPayments[v].year = FirstYear)

BillLines ==
  LET withheld(base) == [base |-> base, wht |-> TRUE]
  IN  << <<withheld(25), withheld(25)>>, <<withheld(25), withheld(20)>>, <<withheld(30)>> >>
CommonMultiple == ProductSet({Original[b] : b \in VendorBill})
OneTenth == <<1, 10>>
ThreeTenths == <<3, 10>>
RefundFree == <<5, 0, 0>>
Retentions == {RefundFree, <<5, 0, 4>>}

\* A refund is retained from only where payments post in one step.
AnyAmounts ==
  /\ AmountsInit
  /\ twoSteps => retained = RefundFree
  /\ addon # "amounts" => ~twoSteps /\ retained = RefundFree

Init ==
  /\ addon \in {"expenses", "bank", "plan", "purchase", "asset", "vat", "pit", "amounts"}
  /\ ExpensesInit /\ BankInit /\ PlanInit /\ PurchasePlanInit /\ AssetInit
  /\ AnyVatSetting /\ AnyYears /\ AnyAmounts
  /\ addon # "bank" => ~reversal
  /\ addon # "plan" => ~bypass
  /\ addon # "asset" => asset = AnAsset

Next ==
  /\ \/ /\ addon = "expenses" /\ ExpensesNext
        /\ UNCHANGED <<bankVars, planVars, purchasePlanVars, assetVars, vatVars, pitVars, amountVars>>
     \/ /\ addon = "bank" /\ BankNext
        /\ UNCHANGED <<expensesVars, planVars, purchasePlanVars, assetVars, vatVars, pitVars, amountVars>>
     \/ /\ addon = "plan" /\ PlanNext
        /\ UNCHANGED <<expensesVars, bankVars, purchasePlanVars, assetVars, vatVars, pitVars, amountVars>>
     \/ /\ addon = "purchase" /\ PurchasePlanNext
        /\ UNCHANGED <<expensesVars, bankVars, planVars, assetVars, vatVars, pitVars, amountVars>>
     \/ /\ addon = "asset" /\ AssetNext
        /\ UNCHANGED <<expensesVars, bankVars, planVars, purchasePlanVars, vatVars, pitVars, amountVars>>
     \/ /\ addon = "vat" /\ VatNext
        /\ UNCHANGED <<expensesVars, bankVars, planVars, purchasePlanVars, assetVars, pitVars, amountVars>>
     \/ /\ addon = "pit" /\ PitNext
        /\ UNCHANGED <<expensesVars, bankVars, planVars, purchasePlanVars, assetVars, vatVars, amountVars>>
     \/ /\ addon = "amounts" /\ AmountsNext
        /\ UNCHANGED
             <<expensesVars, bankVars, planVars, purchasePlanVars, assetVars, vatVars, pitVars>>
  /\ UNCHANGED addon

MCSpec == Init /\ [][Next]_vars

Three == [l \in OrderLine |-> 3]
Thousand == [l \in PurchaseLine |-> 1000]
TwoFifths == <<2, 5>>
Rates == <<[to |-> 2, rate |-> 0], [to |-> 4, rate |-> 1], [to |-> 6, rate |-> 2]>>

\* An asset starts in the middle of its year; nothing follows a removal by a wizard
\* that is out of date, or the undoing of one, and one line at most is edited.
SmallAsset ==
  /\ asset.start = 1
  /\ asset.closed /\ asset.autopost <=> asset.prorata
  /\ asset.method \in IF asset.prorata THEN {"degressive", "degr-limit"}
                      ELSE {"linear", "linear-limit", "degr-linear"}
  /\ Cardinality({l \in lines : l.init \/ l.amount \in LineAmount}) <= 1
  /\ Cardinality(removal) <= 1
  /\ removal # {} => computed \/ lines = {}
  /\ trigger => asset.state = "open" /\ removal = {} /\ computed
  /\ undone => asset.state = "close"
  /\ ~late

\* What else happened to a purchase plan ends a behaviour, except that mismatches
\* are ignored; a plan is made anew under bills only in place of one with an advance; one bill at most is open at a time, and only the first one paid.
SmallPurchase ==
  /\ billHistory \subseteq {"ignored"}
  /\ billHistory # {} => ignoreMismatch /\ Len(bills) <= 2
  /\ purchaseWizard =>
       \/ bills = << >>
       \/ /\ purchase = "draft" /\ billHistory = {}
          /\ Len(bills) <= 2 /\ firstBill = "advance" /\ rows[First].there
  /\ \A i \in DOMAIN bills : bills[i].state = "paid" => i = 1
  /\ Cardinality({i \in DOMAIN bills : bills[i].state = "open"}) <= 1
  /\ rows[First].there => rows[First].amount > 0

\* The second payment is there for the numbers: it has no dialog, no certificate and
\* no manual taxes, and nothing is posted of it after an accident.
SmallVat ==
  /\ Cardinality(accidents) <= 1
  /\ payments[v2].filled # 2 /\ ~payments[v2].manual
  /\ pendingDialog = NoDialog \/ pendingDialog[2] = v1
  /\ \A r \in register :
       r.book = "wht" => r.payment = v1 /\ r.period = 1 /\ r.number = 1
  /\ accidents # {} =>
       /\ payments[v2].entry = "none" /\ payments[v2].filled = NotFilled
       /\ ~payments[v2].clearing /\ payments[v2].reversals = 0

\* One sort of accident at most befalls the expenses, and another one than a deletion or
\* a payment undone only as long as an invoice may still come; an invoice is revived
\* only where the advance is none or the largest.
SmallExpenses ==
  LET accident == UNION {history[e] : e \in Expense}
  IN  /\ Cardinality(accident) <= 1
      /\ \/ accident \subseteq {"deleted", "reopened"}
         \/ \E i \in Invoice : invoice[i].type = "none"
      /\ "revived" \in accident => \A a \in Advance : advanced[a] \in {0, MaxAmount}

\* The first payment and line are the first that something happens to; one form at most
\* shows another state than the payment's, and nothing follows what it may not write.
SmallBank ==
  /\ state[b2] # "none" => state[b1] # "none"
  /\ voucher[t2] # "draft" => voucher[t1] # "draft"
  /\ outdated = {}
  /\ Cardinality({f \in form : f.shows # state[f.payment]}) <= 1

\* While amounts are ignored there are two invoices at most, and then without an advance
\* and not paid.  No plan is made anew under more than one invoice, nor an advance
\* written late when all invoices are made; only the first invoice is paid.  An order
\* line has a row of installment 0 only while there are two invoices at most, one
\* beside an advance, none of them paid, and no other accident.
SmallPlan ==
  /\ planHistory \subseteq {"late advance"} \/ planHistory \in {{"unbilled"}, {"ignored"}}
  /\ bypass => made <= 2
  /\ "ignored" \in planHistory =>
       made <= 2 /\ ~useDeposit /\ \A i \in 1 .. made : invoices[i].state # "paid"
  /\ planWizard => made <= 1
  /\ planHistory # {} => made < OrderInvoiceBound
  /\ \A i \in 1 .. made : invoices[i].state = "paid" => i = 1
  /\ (\E l \in OrderLine : plan[<<0, l>>].there) =>
       /\ made <= (IF useDeposit THEN 1 ELSE 2) /\ ~bypass /\ ~planWizard
       /\ {"late advance", "ignored"} \cap planHistory = {}
       /\ \A i \in 1 .. made : invoices[i].state # "paid"
  /\ "unbilled" \in planHistory => made <= 2

\* Nothing follows a payment with something odd, but lines below the threshold; a draft
\* is odd in one respect, on the first payment only; one bill at most is paid in part.
SmallAmounts ==
  /\ parts.odd \subseteq {"below"}
  /\ Cardinality({b \in VendorBill : residual[b] \notin {0, Original[b]}}) <= 1
  /\ draft # NoDraft =>
       /\ draft.odd = {}
            \/ /\ Cardinality(draft.odd) = 1
               /\ residual = Original
               /\ draft.vat = [b \in DOMAIN draft.line |-> -draft.undue[b]]
       /\ draft.manual # {} => draft.deduction = 0

\* Nothing follows an accident of the taxes withheld, but a line that joins a payment,
\* as long as there are few lines.
SmallPit ==
  /\ pitHistory \subseteq {"joined"}
  /\ pitHistory # {} => Len(pitLines) < PitLineBound

\* The documents of the addon that moves are few.
Small ==
  CASE addon = "expenses" -> SmallExpenses
    [] addon = "bank" -> SmallBank
    [] addon = "plan" -> SmallPlan
    [] addon = "purchase" -> SmallPurchase
    [] addon = "asset" -> SmallAsset
    [] addon = "vat" -> SmallVat
    [] addon = "pit" -> SmallPit
    [] addon = "amounts" -> SmallAmounts

-----------------------------------------------------------------------------
\* The tables of the addon that moves hold what their columns may.
TypeOK ==
  CASE addon = "expenses" -> ExpensesTypeOK
    [] addon = "bank" -> BankTypeOK
    [] addon = "plan" -> PlanTypeOK
    [] addon = "purchase" -> PurchasePlanTypeOK
    [] addon = "asset" -> AssetTypeOK
    [] addon = "vat" -> VatTypeOK
    [] addon = "pit" -> PitTypeOK
    [] addon = "amounts" -> AmountsTypeOK
=============================================================================

--------------------------- MODULE SaleInvoicePlan ---------------------------
(***************************************************************************)
(* A sales order invoiced by installments (sale_invoice_plan).  The plan   *)
(* is a table: for each installment and order line, the amount to invoice  *)
(* and the invoice which did, and a row of installment 0 for an advance.   *)
(* Nothing keeps the row of an order line out of installment 0, where it   *)
(* counts but is not billed.                                               *)
(* Invoicing the order makes an invoice of each installment that has rows  *)
(* without a living invoice, and deducts the advance from it.  When an     *)
(* invoice is canceled the order is in exception: its plan may be changed, *)
(* and what was canceled is invoiced again.                                *)
(*                                                                         *)
(* An amount is a number of hundredths of the currency; invoices take the  *)
(* percentage that corresponds to the amount of the row.  A step is a      *)
(* transaction.  What validates and pays invoices, resets them to draft or *)
(* corrects an exception by hand is external.                              *)
(***************************************************************************)
EXTENDS Naturals, FiniteSetsExt

CONSTANTS
  OrderLine,
  NoLine,          \* the line of the row of the advance
  Subtotal,        \* the amount of each order line
  Unit,            \* hundredths in a unit of the currency
  N,               \* installments
  Amount,          \* what one may type as the amount of a row
  OrderInvoiceBound     \* at most that many invoices are made

ASSUME PlanAssumption ==
  /\ NoLine \notin OrderLine
  /\ Subtotal \in [OrderLine -> Nat]
  /\ Unit \in Nat \ {0}
  /\ N \in Nat
  /\ Amount \subseteq Nat
  /\ OrderInvoiceBound \in Nat

Advance0 == <<0, NoLine>>     \* the row of the advance
Slot == {Advance0} \cup ((0 .. N) \X OrderLine)
OrderInvoiceId == 1 .. OrderInvoiceBound
NoOrderInvoice == 0

VARIABLES
  order,       \* the state of the order
  bypass,      \* bypass_validate_amount, "Ignore Amount Mismatch"
  useDeposit,  \* use_deposit: its form shows another view of the plan
  plan,        \* the rows of the plan
  invoices,    \* the invoices made
  made,        \* their number
  planWizard,  \* is the wizard that makes a plan open?
  planHistory  \* what else happened

planVars == <<order, bypass, useDeposit, plan, invoices, made, planWizard, planHistory>>

PlanRow == [there : BOOLEAN, amount : Nat, ref : OrderInvoiceId \cup {NoOrderInvoice}]

OrderInvoice ==
  [state : {"draft", "open", "paid", "cancel"},
   slots : SUBSET Slot,                    \* the rows it invoices
   bills : [OrderLine -> Nat],             \* how much of each order line
   advance : BOOLEAN,                      \* is_advance
   deducts : SUBSET OrderInvoiceId]        \* the advances it deducts

PlanTypeOK ==
  /\ order \in {"draft", "manual", "progress", "invoice_except", "corrected"}
  /\ bypass \in BOOLEAN
  /\ useDeposit \in BOOLEAN
  /\ plan \in [Slot -> PlanRow]
  /\ made \in 0 .. OrderInvoiceBound
  /\ invoices \in [1 .. made -> OrderInvoice]
  /\ planWizard \in BOOLEAN
  /\ planHistory \subseteq {"replanned", "lost", "revived", "late advance", "unbilled", "ignored"}

NoPlanRow == [there |-> FALSE, amount |-> 0, ref |-> NoOrderInvoice]

PlanInit ==
  /\ order = "draft"
  /\ bypass \in BOOLEAN
  /\ useDeposit = FALSE
  /\ plan = [s \in Slot |-> NoPlanRow]
  /\ invoices = << >>
  /\ made = 0
  /\ planWizard = FALSE
  /\ planHistory = {}

-----------------------------------------------------------------------------
(* The plan *)

Rounded(amount) == (amount + Unit \div 2) \div Unit

Living(i) == invoices[i].state # "cancel"

\* The related field state of a row is neither False nor cancel.
Invoiced(s) == plan[s].ref # NoOrderInvoice /\ Living(plan[s].ref)

RowsOf(l) == {s \in Slot : plan[s].there /\ s[2] = l}

\* As a bug would have it: nothing is checked.
NoCheck == TRUE

\* _check_invoice_plan: to the unit, the rows of each line make its amount.
CheckInvoicePlan ==
  bypass \/ \A l \in OrderLine :
              Rounded(SumFunctionOnSet([s \in Slot |-> plan[s].amount], RowsOf(l)))
                = Rounded(Subtotal[l])

\* The wizard is opened from a draft.
OpenPlanWizard ==
  /\ order = "draft"
  /\ ~planWizard
  /\ planWizard' = TRUE
  /\ UNCHANGED <<order, bypass, useDeposit, plan, invoices, made, planHistory>>

\* The amount of a row of order line l: a share, in hundredths, of its subtotal
AmountOf(l, share) == (share * Subtotal[l] + 50) \div 100

\* do_create_invoice_plan: all rows are replaced, whatever became of the order.
DoCreateInvoicePlan(share, deposit) ==
  /\ planWizard
  /\ planWizard' = FALSE
  /\ bypass \/ SumFunctionOnSet(share, 1 .. N) = 100
  /\ plan' = [s \in Slot |->
       IF s = Advance0 THEN [there |-> deposit > 0, amount |-> deposit, ref |-> NoOrderInvoice]
       ELSE IF s[1] = 0 THEN NoPlanRow
       ELSE [there |-> TRUE, amount |-> AmountOf(s[2], share[s[1]]), ref |-> NoOrderInvoice]]
  /\ useDeposit' = (deposit > 0)
  /\ planHistory' = IF order = "draft" THEN planHistory ELSE planHistory \cup {"replanned"}
  /\ UNCHANGED <<order, bypass, invoices, made>>

\* The view of plans without advance is read only but in these states.
Editable == useDeposit \/ order \in {"draft", "invoice_except"}

\* Rows with a living invoice are read only.
WriteRow(s, amount) ==
  /\ Editable
  /\ ~Invoiced(s)
  /\ s = Advance0 => useDeposit
  /\ plan' = [plan EXCEPT ![s].there = TRUE, ![s].amount = amount]
  /\ planHistory' = IF s = Advance0 /\ made > 0
                    THEN planHistory \cup {"late advance"} ELSE planHistory
  /\ UNCHANGED <<order, bypass, useDeposit, invoices, made, planWizard>>

\* The row of an order line is moved to an installment in which the line has none, also
\* if it has a living invoice: the field is never read only ("tates").
Renumber(s, k) ==
  LET moved(t) == IF t = s THEN <<k, s[2]>> ELSE t
  IN  /\ Editable
      /\ s # Advance0
      /\ plan[s].there
      /\ ~plan[<<k, s[2]>>].there
      /\ plan' = [plan EXCEPT ![<<k, s[2]>>] = plan[s], ![s] = NoPlanRow]
      /\ invoices' = [i \in 1 .. made |->
           [invoices[i] EXCEPT !.slots = {moved(t) : t \in invoices[i].slots}]]
      /\ UNCHANGED <<order, bypass, useDeposit, made, planWizard, planHistory>>

\* _validate_invoice_plan, which sees the rows of only one of the two views
ValidateInvoicePlan(s) == useDeposit \/ ~Invoiced(s)

\* A row is deleted
DeleteRow(s) ==
  /\ Editable
  /\ plan[s].there
  /\ ValidateInvoicePlan(s)
  /\ plan' = [plan EXCEPT ![s] = NoPlanRow]
  /\ planHistory' = IF useDeposit /\ (Invoiced(s) \/ s = Advance0)
                THEN planHistory \cup {"lost"} ELSE planHistory
  /\ UNCHANGED <<order, bypass, useDeposit, invoices, made, planWizard>>

-----------------------------------------------------------------------------
(* The order *)

\* The box "Ignore Amount Mismatch" is checked or not, in any state of the order.
BypassValidateAmount ==
  /\ bypass' = ~bypass
  /\ UNCHANGED <<order, useDeposit, plan, invoices, made, planWizard, planHistory>>

\* action_button_confirm
ActionButtonConfirm ==
  /\ order = "draft"
  /\ \E s \in Slot : plan[s].there
  /\ CheckInvoicePlan
  /\ order' = "manual"
  /\ UNCHANGED <<bypass, useDeposit, plan, invoices, made, planWizard, planHistory>>

\* As a bug would have it: invoiced rows are invoiced again.
DueAgain(k) == {s \in Slot : s[1] = k /\ plan[s].there}

\* The rows of an installment which are to be invoiced
Due(k) == {s \in Slot : s[1] = k /\ plan[s].there /\ ~Invoiced(s)}

\* Is there an advance to invoice?  The amount is that of the first row of installment 0,
\* which may be any of them, and the row of an order line may have one, too.
Advancing == IF Due(0) \subseteq {Advance0} THEN {plan[Advance0].amount > 0} ELSE BOOLEAN

\* _create_deposit_invoice makes no invoice of nothing.
Makes(k, advancing) == Due(k) # {} /\ (k = 0 => advancing)

\* The invoice made for installment k: they are made in order.
MadeFor(k, advancing) == made + Cardinality({h \in 0 .. k : Makes(h, advancing)})

\* As a bug would have it: of an advance that is canceled, too.
EveryAdvance(advancing) ==
  {i \in 1 .. made : invoices[i].advance}
    \cup (IF Makes(0, advancing) THEN {MadeFor(0, advancing)} ELSE {})

\* The advances that are deducted from the invoice of an installment
Advances(advancing) ==
  {i \in 1 .. made : invoices[i].advance /\ Living(i)}
    \cup (IF Makes(0, advancing) THEN {MadeFor(0, advancing)} ELSE {})

\* _create_deposit_invoice, which bills no order line, and _make_invoice
InvoiceOf(k, advancing) ==
  [state |-> "draft",
   slots |-> Due(k),
   bills |-> [l \in OrderLine |->
                IF k # 0 /\ <<k, l>> \in Due(k) THEN plan[<<k, l>>].amount ELSE 0],
   advance |-> k = 0,
   deducts |-> IF k = 0 THEN {} ELSE Advances(advancing)]

\* The invoices of all installments with rows that are due
MakeInvoices(advancing) ==
  LET installments == {k \in 0 .. N : Makes(k, advancing)}
      all == made + Cardinality(installments)
  IN  /\ all <= OrderInvoiceBound
      /\ made' = all
      /\ invoices' = [i \in 1 .. all |->
           IF i <= made THEN invoices[i]
           ELSE InvoiceOf(CHOOSE k \in installments : MadeFor(k, advancing) = i, advancing)]
      /\ plan' = [s \in Slot |->
           IF s \in Due(s[1])
           THEN [plan[s] EXCEPT !.ref =
                   IF Makes(s[1], advancing) THEN MadeFor(s[1], advancing) ELSE NoOrderInvoice]
           ELSE plan[s]]

\* action_invoice_create: it fails if there is nothing to do at all.  Were the amounts
\* "ignored" when the order was invoiced last, and ever something "unbilled"?
ActionInvoiceCreate ==
  /\ CheckInvoicePlan
  /\ \E k \in 0 .. N : Due(k) # {}
  /\ \E advancing \in Advancing : MakeInvoices(advancing)
  /\ order' = "progress"
  /\ planHistory' = (planHistory \ {"ignored"})
                      \cup (IF bypass THEN {"ignored"} ELSE {})
                      \cup (IF Due(0) \subseteq {Advance0} THEN {} ELSE {"unbilled"})
  /\ UNCHANGED <<bypass, useDeposit, planWizard>>

\* manual_invoice, and the button that invoices again after an exception
ManualInvoice == order = "manual" /\ ActionInvoiceCreate
InvoiceRecreate == order = "invoice_except" /\ ActionInvoiceCreate

\* The exception is declared corrected
InvoiceCorrected ==
  /\ order = "invoice_except"
  /\ order' = "corrected"
  /\ UNCHANGED <<bypass, useDeposit, plan, invoices, made, planWizard, planHistory>>

\* action_cancel of the invoices S: the workflow of the order is made to wait for
\* the last one, so that its cancellation is an exception of the order.
OrderCanceled(S) ==
  /\ S # {}
  /\ invoices' = [i \in 1 .. made |->
       IF i \in S THEN [invoices[i] EXCEPT !.state = "cancel"] ELSE invoices[i]]
  /\ order' = IF order = "progress" THEN "invoice_except" ELSE order
  /\ UNCHANGED <<bypass, useDeposit, plan, made, planWizard, planHistory>>

\* action_cancel_draft_invoices
ActionCancelDraftInvoices ==
  /\ order = "progress"
  /\ OrderCanceled({i \in 1 .. made : invoices[i].state = "draft"})

-----------------------------------------------------------------------------
(* Invoices *)

OrderInvoiceCancel(i) ==
  /\ invoices[i].state \in {"draft", "open"}
  /\ OrderCanceled({i})

\* An invoice is validated, or paid, or reset to draft
OrderInvoiceProceed(i) ==
  /\ invoices[i].state # "paid"
  /\ invoices' = [invoices EXCEPT ![i].state =
       CASE @ = "draft" -> "open" [] @ = "open" -> "paid" [] @ = "cancel" -> "draft"]
  /\ planHistory' = IF invoices[i].state = "cancel" THEN planHistory \cup {"revived"} ELSE planHistory
  /\ UNCHANGED <<order, bypass, useDeposit, plan, made, planWizard>>

PlanStep ==
  \/ OpenPlanWizard
  \/ \E share \in [1 .. N -> {0, 50, 100}], deposit \in Amount :
       DoCreateInvoicePlan(share, deposit)
  \/ \E s \in Slot :
       \/ DeleteRow(s)
       \/ \E amount \in Amount : WriteRow(s, amount)
       \/ \E k \in 0 .. N : Renumber(s, k)

OrderStep ==
  \/ BypassValidateAmount
  \/ ActionButtonConfirm
  \/ ManualInvoice
  \/ InvoiceRecreate
  \/ InvoiceCorrected
  \/ ActionCancelDraftInvoices

OrderInvoiceStep == \E i \in 1 .. made : OrderInvoiceCancel(i) \/ OrderInvoiceProceed(i)

PlanNext == PlanStep \/ OrderStep \/ OrderInvoiceStep

PlanSpec == PlanInit /\ [][PlanNext]_planVars

-----------------------------------------------------------------------------
(* Properties *)

\* A row of the plan is invoiced once: at most one invoice of it is not canceled,
\* whatever installments rows are moved to, unless canceled invoices were reset to
\* draft, rows deleted under an invoice, or a plan made anew by a wizard opened when
\* the order was a draft.
RowInvoicedOnce ==
  planHistory \subseteq {"late advance", "unbilled", "ignored"} =>
    \A i, k \in 1 .. made :
      Living(i) /\ Living(k) /\ invoices[i].slots \cap invoices[k].slots # {} => i = k

\* While an order is in progress its living invoices bill, to the unit of the
\* currency, the amount of each of its lines, however often installments were
\* canceled, changed, renumbered and invoiced again, unless the last time amounts were
\* ignored, or it was ever invoiced with the row of an order line in installment 0,
\* which counts and is not billed.
BilledInFull ==
  order = "progress" /\ planHistory \subseteq {"late advance"} =>
    \A l \in OrderLine :
      Rounded(SumFunctionOnSet([i \in 1 .. made |-> invoices[i].bills[l]],
                               {i \in 1 .. made : Living(i)}))
        = Rounded(Subtotal[l])

\* The advance of a plan is deducted from every installment, once, in whatever
\* order it and the installments are canceled and invoiced again, as long as its
\* row is not changed after the first invoices, and the only one invoiced in
\* installment 0.
AdvanceDeductedOnce ==
  planHistory \subseteq {"ignored"} /\ plan[Advance0].amount > 0 =>
    \A i \in 1 .. made :
      Living(i) /\ ~invoices[i].advance => Cardinality(invoices[i].deducts) = 1
=============================================================================

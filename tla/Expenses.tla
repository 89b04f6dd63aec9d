------------------------------ MODULE Expenses ------------------------------
(***************************************************************************)
(* Expenses which become supplier invoices (hr_expense_auto_invoice), and  *)
(* money advanced to employees, which is cleared by later expenses or      *)
(* returned (hr_expense_advance_clearing):                                 *)
(*                                                                         *)
(*  - an expense is confirmed, accepted, and invoiced by a wizard; it is   *)
(*    paid when its invoices are, and accepted again when one of them is   *)
(*    canceled;                                                            *)
(*  - the expense of an advance has a stored balance, amount_to_clearing,  *)
(*    recomputed when some of the fields it depends on are written;        *)
(*  - a clearing expense takes from the balance of its advance by a        *)
(*    negative line of its invoice;                                        *)
(*  - a customer invoice returns what is left of an advance.               *)
(*                                                                         *)
(* A step is a transaction.  Paying an invoice, undoing its payment,       *)
(* resetting it to draft and deleting it are the accounting's, external.   *)
(* Amounts are small numbers: an invoice has the total of its expense,     *)
(* except that an accountant may change what an advance really pays.       *)
(***************************************************************************)
EXTENDS Integers, FiniteSetsExt

CONSTANTS
  Advance, Clearing, Plain,   \* expenses of each sort
  NoExpense,
  InvoiceBound,               \* at most that many invoices exist at once
  MaxAmount

ASSUME ExpensesAssumption ==
  /\ Advance \cap Clearing = {}
  /\ (Advance \cup Clearing) \cap Plain = {}
  /\ NoExpense \notin Advance \cup Clearing \cup Plain
  /\ InvoiceBound \in Nat
  /\ MaxAmount \in Nat

Expense == Advance \cup Clearing \cup Plain
Invoice == 1 .. InvoiceBound
NoInvoice == 0

VARIABLES
  expense,    \* the table hr_expense_expense
  advanced,   \* its column amount_advanced
  balance,    \* its column amount_to_clearing
  invoice,    \* the table account_invoice
  wizard,     \* the expenses with a wizard open
  history     \* what happened to the invoices of each expense

expensesVars == <<expense, advanced, balance, invoice, wizard, history>>

ExpenseRow ==
  [state : {"draft", "confirm", "accepted", "done", "paid", "cancelled"},
   amount : 0 .. MaxAmount,
   advance : Advance \cup {NoExpense},        \* advance_expense_id
   invoice : Invoice \cup {NoInvoice}]        \* invoice_id

InvoiceRow ==
  [type : {"none", "expense", "return"},      \* in_invoice or out_invoice
   state : {"draft", "open", "paid", "cancel"},
   expense : Expense \cup {NoExpense},        \* expense_id
   advance : Advance \cup {NoExpense},        \* advance_expense_id
   total : Int,                               \* amount_total
   cleared : Int]                             \* minus the price of the negative line

ExpensesTypeOK ==
  /\ expense \in [Expense -> ExpenseRow]
  /\ advanced \in [Advance -> 0 .. MaxAmount]
  /\ balance \in [Advance -> Int]
  /\ invoice \in [Invoice -> InvoiceRow]
  /\ wizard \subseteq Expense
  /\ history \in [Expense -> SUBSET {"revived", "reopened", "canceled", "deleted", "raced"}]

NoRow == [type |-> "none", state |-> "draft", expense |-> NoExpense,
          advance |-> NoExpense, total |-> 0, cleared |-> 0]

ExpensesInit ==
  /\ expense = [e \in Expense |-> [state |-> "draft", amount |-> 0,
                                   advance |-> NoExpense, invoice |-> NoInvoice]]
  /\ advanced = [a \in Advance |-> 0]
  /\ balance = [a \in Advance |-> 0]
  /\ invoice = [i \in Invoice |-> NoRow]
  /\ wizard = {}
  /\ history = [e \in Expense |-> {}]

-----------------------------------------------------------------------------
(* The balance of an advance *)

Booked == {"open", "paid"}

\* The view hr.expense.clearing: what the invoices of inv clear of advance a.
ClearingAmount(a, inv) ==
  SumFunctionOnSet([i \in Invoice |-> inv[i].cleared],
                   {i \in Invoice : /\ inv[i].type # "none"
                                    /\ inv[i].advance = a
                                    /\ inv[i].state \in Booked
                                    /\ inv[i].cleared > 0})

\* _compute_amount_to_clearing, in the tables exp, adv and inv.
AmountToClearing(a, exp, adv, inv) ==
  LET own == exp[a].invoice
      paidOut == IF own = NoInvoice \/ inv[own].state \in Booked THEN adv[a] ELSE 0
  IN  paidOut - ClearingAmount(a, inv)

\* As a bug would have it: clearing_invoice_ids, clearing_expense_ids forgotten.
DependOnOwn(i, exp, inv) == {a \in Advance : exp[a].invoice = i}

\* The advances whose balance depends on an invoice which is written.
DependOn(i, exp, inv) ==
  {a \in Advance : \/ exp[a].invoice = i
                   \/ inv[i].advance = a
                   \/ inv[i].expense # NoExpense /\ exp[inv[i].expense].advance = a}

\* The balances of the advances in S are recomputed.
Recomputed(S, exp, adv, inv) ==
  [a \in Advance |-> IF a \in S THEN AmountToClearing(a, exp, adv, inv) ELSE balance[a]]

\* The balances after a step that writes expense e and no invoice.
BalanceAfter(e) ==
  Recomputed({a \in Advance : a = e \/ expense'[e].advance = a}, expense', advanced, invoice)

\* The documents that will clear a, and do not yet.
Pending(a, inv) ==
  {i \in Invoice : inv[i].type # "none" /\ inv[i].advance = a /\ inv[i].state = "draft"}

Happened(e, what) == [history EXCEPT ![e] = @ \cup {what}]

-----------------------------------------------------------------------------
(* Expenses *)

\* expense_confirm: a clearing expense may be of nothing.
ExpenseConfirm(e, amount) ==
  /\ expense[e].state = "draft"
  /\ e \in Clearing \/ amount > 0
  /\ \E a \in Advance \cup {NoExpense} :
       /\ IF e \in Clearing
          THEN a # NoExpense /\ expense[a].state \in {"done", "paid"} /\ balance[a] > 0
          ELSE a = NoExpense
       /\ expense' = [expense EXCEPT ![e].state = "confirm", ![e].amount = amount,
                                     ![e].advance = a]
  /\ balance' = BalanceAfter(e)
  /\ UNCHANGED <<advanced, invoice, wizard, history>>

\* The transition from confirm to accepted
ExpenseAccept(e) ==
  /\ expense[e].state = "confirm"
  /\ expense' = [expense EXCEPT ![e].state = "accepted"]
  /\ balance' = BalanceAfter(e)
  /\ UNCHANGED <<advanced, invoice, wizard, history>>

\* The transitions to refused, done_to_refuse included
ExpenseRefuse(e) ==
  /\ expense[e].state \in {"confirm", "accepted", "done"}
  /\ expense' = [expense EXCEPT ![e].state = "cancelled"]
  /\ balance' = BalanceAfter(e)
  /\ UNCHANGED <<advanced, invoice, wizard, history>>

\* view_init
OpenWizard(e) ==
  /\ expense[e].state = "accepted"
  /\ e \notin wizard
  /\ \A i \in Invoice : invoice[i].expense = e => invoice[i].state \in {"paid", "cancel"}
  /\ wizard' = wizard \cup {e}
  /\ UNCHANGED <<expense, advanced, balance, invoice, history>>

Lesser(m, n) == IF m > n THEN n ELSE m

\* As a bug would have it: the balance is not looked at.
ClearTheWhole(e) == IF e \in Clearing THEN expense[e].amount ELSE 0

\* _create_negative_clearing_line: what an invoice of e takes from the balance.
NegativeClearingLine(e) ==
  LET a == expense[e].advance
      left == IF expense[a].invoice # NoInvoice
              THEN balance[a]
              ELSE advanced[a] - ClearingAmount(a, invoice)
  IN  IF e \in Clearing THEN Lesser(expense[e].amount, left) ELSE 0

\* _create_supplier_invoice_from_expense, as invoice i
SupplierInvoice(e) ==
  [type |-> "expense", state |-> "draft", expense |-> e, advance |-> expense[e].advance,
   total |-> expense[e].amount - NegativeClearingLine(e), cleared |-> NegativeClearingLine(e)]

\* As a bug would have it: an invoice is always created.
AlwaysCreate(e) ==
  \E i \in Invoice :
    /\ invoice[i].type = "none"
    /\ \A k \in 1 .. i - 1 : invoice[k].type # "none"
    /\ invoice' = [invoice EXCEPT ![i] = SupplierInvoice(e)]
    /\ expense' = [expense EXCEPT ![e].state = "done", ![e].invoice = i]
    /\ balance' = Recomputed({a \in Advance : a = e \/ a = expense[e].advance},
                             expense', advanced, invoice')
    /\ UNCHANGED <<advanced, history>>

\* action_move_create
ActionMoveCreate(e) ==
  LET kept == expense[e].invoice # NoInvoice
      a == expense[e].advance
  IN  \E i \in Invoice :
        /\ IF kept
           THEN i = expense[e].invoice /\ UNCHANGED invoice
           ELSE /\ invoice[i].type = "none"
                /\ \A k \in 1 .. i - 1 : invoice[k].type # "none"
                /\ invoice' = [invoice EXCEPT ![i] = SupplierInvoice(e)]
        /\ expense' = [expense EXCEPT ![e].state = "done", ![e].invoice = i]
        /\ balance' = Recomputed({b \in Advance : b = e \/ b = a}, expense', advanced, invoice')
        /\ history' = IF a # NoExpense /\ ~kept /\ Pending(a, invoice) # {}
                      THEN Happened(a, "raced") ELSE history
        /\ UNCHANGED advanced

\* action_create_supplier_invoice: the signal done, which only an accepted
\* expense listens to.
ActionCreateSupplierInvoice(e) ==
  /\ e \in wizard
  /\ wizard' = wizard \ {e}
  /\ IF expense[e].state = "accepted"
     THEN ActionMoveCreate(e)
     ELSE UNCHANGED <<expense, advanced, balance, invoice, history>>

\* The transition refuse_to_done
RefuseToDone(e) ==
  /\ expense[e].state = "cancelled"
  /\ ActionMoveCreate(e)
  /\ UNCHANGED wizard

-----------------------------------------------------------------------------
(* Invoices *)

\* The expense of an invoice that becomes paid, in the table inv: confirm_paid.
\* Only an expense that waits for its payment listens to the signal paid.
ConfirmPaid(i, inv) ==
  LET e == inv[i].expense
      own == {k \in Invoice : inv[k].type = "expense" /\ inv[k].expense = e}
      paid == {k \in own : inv[k].state = "paid"}
      total == SumFunctionOnSet([k \in Invoice |-> inv[k].total], paid)
  IN  IF /\ inv[i].type = "expense"
         /\ expense[e].state = "done"
         /\ \/ total = expense[e].amount
            \/ e \in Clearing
            \/ \A k \in own : inv[k].state \in {"paid", "cancel"}
      THEN [expense EXCEPT ![e].state = "paid"]
      ELSE expense

\* invoice_validate, after an accountant may have changed the total of an
\* advance.  The balance is recomputed before amount_advanced is written.  A
\* clearing invoice of nothing is reconciled, which pays it.
InvoiceValidate(i, total) ==
  LET e == invoice[i].expense
      settled == e \in Clearing /\ invoice[i].total = 0
  IN  /\ invoice[i].type # "none"
      /\ invoice[i].state = "draft"
      /\ e \in Advance \/ total = invoice[i].total
      /\ invoice' = [invoice EXCEPT ![i].state = IF settled THEN "paid" ELSE "open",
                                    ![i].total = total]
      /\ expense' = IF settled THEN ConfirmPaid(i, invoice') ELSE expense
      /\ advanced' = IF e \in Advance THEN [advanced EXCEPT ![e] = total] ELSE advanced
      /\ balance' = Recomputed(DependOn(i, expense, invoice), expense', advanced, invoice')
      /\ UNCHANGED <<wizard, history>>

\* The payment of an invoice
Pay(i) ==
  /\ invoice[i].type # "none"
  /\ invoice[i].state = "open"
  /\ invoice' = [invoice EXCEPT ![i].state = "paid"]
  /\ expense' = ConfirmPaid(i, invoice')
  /\ balance' = Recomputed(DependOn(i, expense, invoice), expense', advanced, invoice')
  /\ UNCHANGED <<advanced, wizard, history>>

\* A payment is undone
Reopen(i) ==
  /\ invoice[i].state = "paid"
  /\ invoice' = [invoice EXCEPT ![i].state = "open"]
  /\ balance' = Recomputed(DependOn(i, expense, invoice), expense, advanced, invoice')
  /\ history' = IF invoice[i].type = "expense"
                THEN Happened(invoice[i].expense, "reopened") ELSE history
  /\ UNCHANGED <<expense, advanced, wizard>>

\* As a bug would have it: the state of a canceled expense.
CancelAsExpense(i) ==
  /\ invoice[i].type # "none"
  /\ invoice[i].state \in {"draft", "open"}
  /\ invoice' = [invoice EXCEPT ![i].state = "cancelled"]
  /\ UNCHANGED <<expense, advanced, balance, wizard, history>>

\* As a bug would have it: the expense keeps the invoice that was canceled.
CancelKeepsInvoice(i) ==
  LET e == invoice[i].expense
      canceled == [invoice EXCEPT ![i].state = "cancel"]
  IN  /\ invoice[i].type # "none"
      /\ invoice[i].state \in {"draft", "open"}
      /\ invoice' = canceled
      /\ expense' = IF e = NoExpense THEN expense
                    ELSE [expense EXCEPT
                            ![e].state = IF @ \in {"paid", "done"} THEN "accepted" ELSE @]
      /\ balance' = Recomputed(DependOn(i, expense, invoice), expense', advanced, canceled)
      /\ UNCHANGED <<advanced, wizard, history>>

\* action_cancel, of a draft or open invoice
ActionCancel(i) ==
  LET e == invoice[i].expense
      canceled == [invoice EXCEPT ![i].state = "cancel"]
  IN  /\ invoice[i].type # "none"
      /\ invoice[i].state \in {"draft", "open"}
      /\ invoice' = canceled
      /\ expense' = IF e = NoExpense THEN expense
                    ELSE [expense EXCEPT
                            ![e].invoice = NoInvoice,
                            ![e].state = IF @ \in {"paid", "done"} THEN "accepted" ELSE @]
      /\ balance' = Recomputed(DependOn(i, expense, invoice) \cup ({e} \cap Advance),
                               expense', advanced, canceled)
      /\ history' = IF e \in Advance /\ invoice[i].state = "open"
                    THEN Happened(e, "canceled") ELSE history
      /\ UNCHANGED <<advanced, wizard>>

\* A canceled invoice is reset to draft
ResetToDraft(i) ==
  LET touched == {invoice[i].expense, invoice[i].advance}
  IN  /\ invoice[i].state = "cancel"
      /\ invoice' = [invoice EXCEPT ![i].state = "draft"]
      /\ balance' = Recomputed(DependOn(i, expense, invoice), expense, advanced, invoice')
      /\ history' = [x \in Expense |-> IF x \in touched
                                       THEN history[x] \cup {"revived"} ELSE history[x]]
      /\ UNCHANGED <<expense, advanced, wizard>>

\* A draft invoice is deleted: the database empties the invoice_id of its expense
Delete(i) ==
  LET e == invoice[i].expense
  IN  /\ invoice[i].type # "none"
      /\ invoice[i].state = "draft"
      /\ invoice' = [invoice EXCEPT ![i] = NoRow]
      /\ expense' = IF e # NoExpense /\ expense[e].invoice = i
                    THEN [expense EXCEPT ![e].invoice = NoInvoice] ELSE expense
      /\ balance' = Recomputed(DependOn(i, expense, invoice), expense', advanced, invoice')
      /\ history' = IF e # NoExpense THEN Happened(e, "deleted") ELSE history
      /\ UNCHANGED <<advanced, wizard>>

\* A customer invoice returns money: name_search, _onchange_advance_expense_id.
\* Nothing compares the amount, typed by an accountant, with the balance.
Return(a, amount) ==
  /\ expense[a].state = "paid"
  /\ balance[a] > 0 \/ expense[a].invoice = NoInvoice
  /\ amount > 0
  /\ \E i \in Invoice :
       /\ invoice[i].type = "none"
       /\ \A k \in 1 .. i - 1 : invoice[k].type # "none"
       /\ invoice' = [invoice EXCEPT ![i] =
            [type |-> "return", state |-> "draft", expense |-> NoExpense,
             advance |-> a, total |-> amount, cleared |-> amount]]
  /\ balance' = Recomputed({a}, expense, advanced, invoice')
  /\ history' = IF Pending(a, invoice) # {} \/ amount > balance[a]
                THEN Happened(a, "raced") ELSE history
  /\ UNCHANGED <<expense, advanced, wizard>>

-----------------------------------------------------------------------------
ExpenseStep ==
  \E e \in Expense :
    \/ \E amount \in 0 .. MaxAmount : ExpenseConfirm(e, amount)
    \/ ExpenseAccept(e)
    \/ ExpenseRefuse(e)
    \/ OpenWizard(e)
    \/ ActionCreateSupplierInvoice(e)
    \/ RefuseToDone(e)

InvoiceStep ==
  \E i \in Invoice :
    \/ \E total \in 0 .. MaxAmount : InvoiceValidate(i, total)
    \/ Pay(i)
    \/ Reopen(i)
    \/ ActionCancel(i)
    \/ ResetToDraft(i)
    \/ Delete(i)

ReturnStep == \E a \in Advance, amount \in 1 .. MaxAmount : Return(a, amount)

ExpensesNext == ExpenseStep \/ InvoiceStep \/ ReturnStep

ExpensesSpec == ExpensesInit /\ [][ExpensesNext]_expensesVars

-----------------------------------------------------------------------------
(* Properties *)

\* An expense that waits for payment has an invoice of its own which is not
\* canceled, unless a draft was deleted under it; once the expense is paid, that
\* invoice is, unless its payment was undone or an old invoice came back.
Backed ==
  \A e \in Expense :
    LET i == expense[e].invoice
    IN  expense[e].state \in {"done", "paid"} =>
          \/ i = NoInvoice /\ "deleted" \in history[e]
          \/ /\ i # NoInvoice
             /\ invoice[i].expense = e
             /\ invoice[i].state # "cancel"
             /\ expense[e].state = "paid" /\ history[e] = {} => invoice[i].state = "paid"

\* No expense is invoiced twice: of its invoices at most one is not canceled, as
\* long as no canceled invoice was reset to draft.
InvoicedOnce ==
  \A e \in Expense : "revived" \notin history[e] =>
    \A i, k \in Invoice :
      /\ invoice[i].expense = e /\ invoice[i].state # "cancel"
      /\ invoice[k].expense = e /\ invoice[k].state # "cancel"
      => i = k

\* The stored balance of an advance is right whenever something may be cleared
\* from it: it is stale at most while the invoice of the advance is unpaid, or
\* after an old invoice of it was reset to draft.
BalanceUpToDate ==
  \A a \in Advance :
    LET i == expense[a].invoice
    IN  \/ balance[a] = AmountToClearing(a, expense, advanced, invoice)
        \/ i # NoInvoice /\ invoice[i].state = "open"
        \/ "revived" \in history[a]

\* No more is cleared of an advance than was paid, unless two clearing documents
\* were pending at once or too much was returned, or the invoice of the advance
\* was canceled or came back after it had been paid out.
NotOverCleared ==
  \A a \in Advance : history[a] \subseteq {"deleted", "reopened"} => ClearingAmount(a, invoice) <= advanced[a]
=============================================================================

-------------------------- MODULE Invoices_proofs --------------------------
(***************************************************************************)
(* Proofs about the addons that make invoices, each for any documents,     *)
(* amounts and bounds.                                                     *)
(*                                                                         *)
(* Expenses: that an expense is backed by its invoice and invoiced once,   *)
(* whatever an invoice clears; then that the balance of an advance is      *)
(* right, and that no more is cleared of it than was paid.                 *)
(*                                                                         *)
(* The plan of a sales order: a living invoice is the one of its rows and  *)
(* for their amounts, so that what is billed of a line is the sum of its   *)
(* rows, which is checked before invoices are made.                        *)
(*                                                                         *)
(* The plan of a purchase order: as long as nothing happened that its      *)
(* property excludes, a living bill is that of a whole installment or the  *)
(* first one, for the amounts that its rows have, and deducts what the     *)
(* installment has to.  So once all rows have bills, sums over the bills   *)
(* are sums over the rows, and the parts of the advance are near its       *)
(* proportions of a plan that is near the order.                           *)
(*                                                                         *)
(* Assets: the past ends before the last line of the table does, so there  *)
(* is a next line, and the amounts from it on are the steps from the past  *)
(* to what the asset is to depreciate.  They are those of the table when   *)
(* the past agrees with it.  Posting keeps what the lines add up to, and a *)
(* removal adds what is left: the lines that an early one leaves all count *)
(* as depreciated.                                                         *)
(***************************************************************************)
EXTENDS Expenses, SaleInvoicePlan, PurchaseInvoicePlan, Assets, Sums_proofs, SequenceTheorems

-----------------------------------------------------------------------------
(* The inductive invariant *)

\* The rows of account_invoice, with amounts in T
InvoiceTable(T) ==
  [Invoice -> [type : {"none", "expense", "return"}, state : {"draft", "open", "paid", "cancel"},
               expense : Expense \cup {NoExpense}, advance : Advance \cup {NoExpense},
               total : T, cleared : T]]

Typed ==
  /\ expense \in [Expense -> ExpenseRow]
  /\ \E T : invoice \in InvoiceTable(T)
  /\ wizard \subseteq Expense
  /\ history \in [Expense -> SUBSET {"revived", "reopened", "canceled", "deleted", "raced"}]

\* What the column invoice_id points to
Linked ==
  \A e \in Expense : expense[e].invoice # NoInvoice =>
    /\ invoice[expense[e].invoice].type = "expense"
    /\ invoice[expense[e].invoice].expense = e
    /\ invoice[expense[e].invoice].state # "cancel"

\* The invoice of an expense that is not canceled is the one it points to.
Live ==
  \A i \in Invoice, e \in Expense :
    /\ invoice[i].expense = e
    /\ invoice[i].state # "cancel"
    /\ "revived" \notin history[e]
    => expense[e].invoice = i

\* Only invoices of the sort "expense" have an expense.
Sorted ==
  \A i \in Invoice :
    /\ invoice[i].type = "expense" <=> invoice[i].expense # NoExpense
    /\ invoice[i].type = "none" => invoice[i].state = "draft"

ExpensesInv == Typed /\ Linked /\ Live /\ Sorted /\ Backed

-----------------------------------------------------------------------------
LEMMA Constants == NoExpense \notin Expense /\ Advance \subseteq Expense /\ NoInvoice \notin Invoice
BY ExpensesAssumption DEF Expense, Invoice, NoInvoice

\* The statement of Backed for one expense
BackedOne(e) ==
  expense[e].state \in {"done", "paid"} =>
    \/ expense[e].invoice = NoInvoice /\ "deleted" \in history[e]
    \/ /\ expense[e].invoice # NoInvoice
       /\ invoice[expense[e].invoice].expense = e
       /\ invoice[expense[e].invoice].state # "cancel"
       /\ expense[e].state = "paid" /\ history[e] = {} =>
            invoice[expense[e].invoice].state = "paid"

LEMMA BackedIsBackedOne == Backed <=> \A e \in Expense : BackedOne(e)
BY DEF Backed, BackedOne

LEMMA InitInv == ExpensesInit => ExpensesInv
<1> SUFFICES ASSUME ExpensesInit PROVE ExpensesInv
  OBVIOUS
<1> USE Constants
<1>1. expense \in [Expense -> ExpenseRow]
  BY ExpensesAssumption DEF ExpensesInit, ExpenseRow
<1>2. invoice \in InvoiceTable({0})
  BY DEF ExpensesInit, InvoiceTable, NoRow
<1>3. Typed
  BY <1>1, <1>2 DEF ExpensesInit, Typed
<1>4. Linked /\ Live /\ Sorted /\ Backed
  BY DEF ExpensesInit, NoRow, Linked, Live, Sorted, Backed
<1> QED BY <1>3, <1>4 DEF ExpensesInv

-----------------------------------------------------------------------------
(* What the steps write *)

\* A row of account_invoice in which only the state, and the total, change
LEMMA StateWritten ==
  ASSUME Typed, NEW i \in Invoice, NEW s \in {"draft", "open", "paid", "cancel"}, NEW t,
         \/ invoice' = [invoice EXCEPT ![i].state = s]
         \/ invoice' = [invoice EXCEPT ![i].state = s, ![i].total = t]
  PROVE  /\ \E T : invoice' \in InvoiceTable(T)
         /\ invoice'[i].state = s
         /\ invoice'[i].type = invoice[i].type
         /\ invoice'[i].expense = invoice[i].expense
         /\ \A k \in Invoice : k # i => invoice'[k] = invoice[k]
<1>1. PICK T : invoice \in InvoiceTable(T)
  BY DEF Typed
<1>2. CASE invoice' = [invoice EXCEPT ![i].state = s]
  <2>1. invoice' \in InvoiceTable(T)
    BY <1>1, <1>2 DEF InvoiceTable
  <2> QED BY <1>1, <1>2, <2>1 DEF InvoiceTable
<1>3. CASE invoice' = [invoice EXCEPT ![i].state = s, ![i].total = t]
  <2> DEFINE opened == [invoice EXCEPT ![i].state = s]
  <2>1. opened \in InvoiceTable(T \cup {t})
    BY <1>1 DEF InvoiceTable
  <2>2. invoice' = [opened EXCEPT ![i].total = t]
    BY <1>1, <1>3 DEF InvoiceTable
  <2>3. invoice' \in InvoiceTable(T \cup {t})
    <3> HIDE DEF opened
    <3> QED BY <2>1, <2>2 DEF InvoiceTable
  <2> QED BY <1>1, <2>1, <2>2, <2>3 DEF InvoiceTable
<1> QED BY <1>2, <1>3

\* A new row
LEMMA RowWritten ==
  ASSUME Typed, NEW i \in Invoice, NEW r,
         invoice' = [invoice EXCEPT ![i] = r],
         \E U : r \in [type : {"none", "expense", "return"},
                       state : {"draft", "open", "paid", "cancel"},
                       expense : Expense \cup {NoExpense}, advance : Advance \cup {NoExpense},
                       total : U, cleared : U]
  PROVE  /\ \E T : invoice' \in InvoiceTable(T)
         /\ invoice'[i] = r
         /\ \A k \in Invoice : k # i => invoice'[k] = invoice[k]
<1>1. PICK T : invoice \in InvoiceTable(T)
  BY DEF Typed
<1>2. PICK U : r \in [type : {"none", "expense", "return"},
                      state : {"draft", "open", "paid", "cancel"},
                      expense : Expense \cup {NoExpense}, advance : Advance \cup {NoExpense},
                      total : U, cleared : U]
  OBVIOUS
<1>3. invoice' \in InvoiceTable(T \cup U)
  BY <1>1, <1>2 DEF InvoiceTable
<1> QED BY <1>1, <1>3 DEF InvoiceTable

\* What happens to an expense is never forgotten.
Remembered ==
  /\ history' \in [Expense -> SUBSET {"revived", "reopened", "canceled", "deleted", "raced"}]
  /\ \A e \in Expense : history[e] \subseteq history'[e]

LEMMA HappenedRemembered ==
  ASSUME Typed, NEW e, NEW what \in {"revived", "reopened", "canceled", "deleted", "raced"},
         history' = Happened(e, what) \/ history' = history
  PROVE  Remembered /\ (e \in Expense /\ history' = Happened(e, what) => what \in history'[e])
BY DEF Typed, Happened, Remembered

-----------------------------------------------------------------------------
(* Steps that write an expense only *)

LEMMA StateInv ==
  ASSUME ExpensesInv, NEW e \in Expense, NEW s \in {"confirm", "accepted", "cancelled"},
         expense' \in [Expense -> ExpenseRow],
         expense'[e].state = s, expense'[e].invoice = expense[e].invoice,
         \A x \in Expense : x # e => expense'[x] = expense[x],
         UNCHANGED <<invoice, wizard, history>>
  PROVE  ExpensesInv'
<1>1. Typed'
  BY DEF ExpensesInv, Typed, InvoiceTable, Invoice
<1>2. \A x \in Expense : expense'[x].invoice = expense[x].invoice
  OBVIOUS
<1>3. Linked' /\ Live' /\ Sorted'
  BY <1>2 DEF ExpensesInv, Linked, Live, Sorted
<1>4. ASSUME NEW x \in Expense PROVE BackedOne(x)'
  BY <1>2, BackedIsBackedOne DEF ExpensesInv, BackedOne
<1>5. Backed'
  BY <1>4 DEF BackedOne, Backed
<1> QED BY <1>1, <1>3, <1>5 DEF ExpensesInv

LEMMA ExpenseStateInv ==
  ASSUME ExpensesInv, NEW e \in Expense,
         \/ \E amount \in 0 .. MaxAmount : ExpenseConfirm(e, amount)
         \/ ExpenseAccept(e) \/ ExpenseRefuse(e)
  PROVE  ExpensesInv'
<1>1. expense \in [Expense -> ExpenseRow]
  BY DEF ExpensesInv, Typed
<1>2. ASSUME NEW amount \in 0 .. MaxAmount, ExpenseConfirm(e, amount) PROVE ExpensesInv'
  <2>1. PICK a \in Advance \cup {NoExpense} :
          expense' = [expense EXCEPT ![e].state = "confirm", ![e].amount = amount,
                                     ![e].advance = a]
    BY <1>2 DEF ExpenseConfirm
  <2>2. /\ expense'[e].state = "confirm" /\ expense'[e].invoice = expense[e].invoice
        /\ \A x \in Expense : x # e => expense'[x] = expense[x]
    BY <1>1, <2>1 DEF ExpenseRow
  <2> DEFINE row == [expense[e] EXCEPT !.state = "confirm", !.amount = amount, !.advance = a]
  <2>3. expense' \in [Expense -> ExpenseRow]
    <3>1. row \in ExpenseRow
      BY <1>1 DEF ExpenseRow
    <3>2. expense' = [expense EXCEPT ![e] = row]
      BY <1>1, <2>1 DEF ExpenseRow
    <3> HIDE DEF row
    <3> QED BY <1>1, <3>1, <3>2
  <2> QED BY <1>2, <2>2, <2>3, StateInv DEF ExpenseConfirm
<1>3. ASSUME ExpenseAccept(e) PROVE ExpensesInv'
  <2>1. /\ expense' \in [Expense -> ExpenseRow]
        /\ expense'[e].state = "accepted" /\ expense'[e].invoice = expense[e].invoice
        /\ \A x \in Expense : x # e => expense'[x] = expense[x]
    BY <1>1, <1>3 DEF ExpenseRow, ExpenseAccept
  <2> QED BY <1>3, <2>1, StateInv DEF ExpenseAccept
<1>4. ASSUME ExpenseRefuse(e) PROVE ExpensesInv'
  <2>1. /\ expense' \in [Expense -> ExpenseRow]
        /\ expense'[e].state = "cancelled" /\ expense'[e].invoice = expense[e].invoice
        /\ \A x \in Expense : x # e => expense'[x] = expense[x]
    BY <1>1, <1>4 DEF ExpenseRow, ExpenseRefuse
  <2> QED BY <1>4, <2>1, StateInv DEF ExpenseRefuse
<1> QED BY <1>2, <1>3, <1>4

-----------------------------------------------------------------------------
(* The invoice of an expense *)

\* An expense that has no invoice gets a new one; an expense that has one keeps it.
LEMMA MoveCreateInv ==
  ASSUME ExpensesInv, NEW e \in Expense, ActionMoveCreate(e), wizard' \subseteq Expense
  PROVE  ExpensesInv'
<1> USE Constants
<1>1. PICK i \in Invoice :
        /\ \/ /\ expense[e].invoice # NoInvoice
              /\ i = expense[e].invoice /\ invoice' = invoice
           \/ /\ expense[e].invoice = NoInvoice
              /\ invoice[i].type = "none"
              /\ invoice' = [invoice EXCEPT ![i] = SupplierInvoice(e)]
        /\ expense' = [expense EXCEPT ![e].state = "done", ![e].invoice = i]
        /\ history' = Happened(expense[e].advance, "raced") \/ history' = history
  BY DEF ActionMoveCreate
<1>2. expense \in [Expense -> ExpenseRow] /\ Typed
  BY DEF ExpensesInv, Typed
<1>3. /\ expense' \in [Expense -> ExpenseRow]
      /\ expense'[e].state = "done" /\ expense'[e].invoice = i
      /\ \A x \in Expense : x # e => expense'[x] = expense[x]
  BY <1>1, <1>2 DEF ExpenseRow
<1>4. Remembered
  BY <1>1, <1>2, HappenedRemembered
<1>5. CASE expense[e].invoice # NoInvoice
  <2>1. i = expense[e].invoice /\ invoice' = invoice
    BY <1>1, <1>5
  <2>2. Typed'
    BY <1>2, <1>3, <1>4, <2>1 DEF Typed, Remembered, InvoiceTable, Invoice
  <2>3. \A x \in Expense : expense'[x].invoice = expense[x].invoice
    BY <1>3, <2>1
  <2>4. Linked' /\ Sorted'
    BY <2>1, <2>3 DEF ExpensesInv, Linked, Sorted
  <2>5. Live'
    BY <1>4, <2>1, <2>3 DEF ExpensesInv, Live, Remembered
  <2>6. ASSUME NEW x \in Expense PROVE BackedOne(x)'
    <3>1. CASE x = e
      BY <1>3, <1>5, <2>1, <3>1 DEF BackedOne, ExpensesInv, Linked
    <3>2. CASE x # e
      BY <1>3, <1>4, <2>1, <3>2, BackedIsBackedOne DEF BackedOne, ExpensesInv, Remembered
    <3> QED BY <3>1, <3>2
  <2>7. Backed'
    BY <2>6 DEF BackedOne, Backed
  <2> QED BY <2>2, <2>4, <2>5, <2>7 DEF ExpensesInv
<1>6. CASE expense[e].invoice = NoInvoice
  <2> DEFINE r == SupplierInvoice(e)
  <2>1. invoice[i].type = "none" /\ invoice' = [invoice EXCEPT ![i] = r]
    BY <1>1, <1>6
  <2>2. r.type = "expense" /\ r.state = "draft" /\ r.expense = e
    BY DEF SupplierInvoice
  <2>3. \E U : r \in [type : {"none", "expense", "return"},
                      state : {"draft", "open", "paid", "cancel"},
                      expense : Expense \cup {NoExpense}, advance : Advance \cup {NoExpense},
                      total : U, cleared : U]
    <3>1. expense[e].advance \in Advance \cup {NoExpense}
      BY <1>2 DEF ExpenseRow
    <3>2. r \in [type : {"none", "expense", "return"},
                 state : {"draft", "open", "paid", "cancel"},
                 expense : Expense \cup {NoExpense}, advance : Advance \cup {NoExpense},
                 total : {r.total, r.cleared}, cleared : {r.total, r.cleared}]
      BY <3>1 DEF SupplierInvoice
    <3> QED BY <3>2
  <2>4. /\ \E T : invoice' \in InvoiceTable(T)
        /\ invoice'[i] = r
        /\ \A k \in Invoice : k # i => invoice'[k] = invoice[k]
    BY <1>2, <2>1, <2>3, RowWritten
  <2> HIDE DEF r
  <2>5. Typed'
    BY <1>3, <1>4, <2>4 DEF Typed, Remembered
  <2>6. \A x \in Expense : x # e => expense[x].invoice # i
    BY <2>1 DEF ExpensesInv, Linked
  <2>7. \A x \in Expense : expense[x].invoice \in Invoice \cup {NoInvoice}
    BY <1>2 DEF ExpenseRow
  <2>8. Linked'
    BY <1>3, <2>2, <2>4, <2>6, <2>7 DEF ExpensesInv, Linked
  <2>9. Sorted'
    BY <2>2, <2>4 DEF ExpensesInv, Sorted
  <2>10. Live'
    BY <1>3, <1>4, <1>6, <2>2, <2>4 DEF ExpensesInv, Live, Remembered
  <2>11. ASSUME NEW x \in Expense PROVE BackedOne(x)'
    <3>1. CASE x = e
      BY <1>3, <2>2, <2>4, <3>1 DEF BackedOne
    <3>2. CASE x # e
      BY <1>3, <1>4, <2>4, <2>6, <2>7, <3>2, BackedIsBackedOne DEF BackedOne, ExpensesInv, Remembered
    <3> QED BY <3>1, <3>2
  <2>12. Backed'
    BY <2>11 DEF BackedOne, Backed
  <2> QED BY <2>5, <2>8, <2>9, <2>10, <2>12 DEF ExpensesInv
<1> QED BY <1>5, <1>6

-----------------------------------------------------------------------------
(* Steps that write the state of an invoice *)

\* What StateWritten says of an invoice
Written(i, s) ==
  /\ \E T : invoice' \in InvoiceTable(T)
  /\ invoice'[i].state = s
  /\ invoice'[i].type = invoice[i].type
  /\ invoice'[i].expense = invoice[i].expense
  /\ \A k \in Invoice : k # i => invoice'[k] = invoice[k]

\* An invoice that was not canceled, and is not now
LEMMA BookedInv ==
  ASSUME ExpensesInv, NEW i \in Invoice, NEW s, Written(i, s), s # "cancel",
         invoice[i].type # "none", invoice[i].state # "cancel",
         expense' \in [Expense -> ExpenseRow], wizard' \subseteq Expense, Remembered,
         \A x \in Expense : expense'[x].invoice = expense[x].invoice
  PROVE  Typed' /\ Linked' /\ Live' /\ Sorted'
<1> USE DEF Written
<1>1. Typed'
  BY DEF Typed, Remembered
<1>2. \A x \in Expense : expense[x].invoice \in Invoice \cup {NoInvoice}
  BY DEF ExpensesInv, Typed, ExpenseRow
<1>3. Linked'
  BY <1>2 DEF ExpensesInv, Linked
<1>4. Live'
  BY DEF ExpensesInv, Live, Remembered
<1>5. Sorted'
  BY DEF ExpensesInv, Sorted
<1> QED BY <1>1, <1>3, <1>4, <1>5

\* Only an expense that waits for its payment becomes paid.
LEMMA ConfirmPaidCases ==
  ASSUME NEW i \in Invoice
  PROVE  \/ ConfirmPaid(i, invoice') = expense
         \/ /\ invoice'[i].type = "expense"
            /\ expense[invoice'[i].expense].state = "done"
            /\ ConfirmPaid(i, invoice') = [expense EXCEPT ![invoice'[i].expense].state = "paid"]
BY DEF ConfirmPaid

\* An invoice that is validated or paid
LEMMA PaidInv ==
  ASSUME ExpensesInv, NEW i \in Invoice, NEW s \in {"open", "paid"}, Written(i, s),
         invoice[i].type # "none", invoice[i].state \in {"draft", "open"},
         expense' = expense \/ (s = "paid" /\ expense' = ConfirmPaid(i, invoice')),
         UNCHANGED <<wizard, history>>
  PROVE  ExpensesInv'
<1> USE Constants
<1>1. expense \in [Expense -> ExpenseRow] /\ Typed /\ Remembered
  BY DEF ExpensesInv, Typed, Remembered
<1>2. \A x \in Expense : expense[x].invoice \in Invoice \cup {NoInvoice}
  BY <1>1 DEF ExpenseRow
<1>3. ASSUME expense' = expense PROVE ExpensesInv'
  <2>1. Typed' /\ Linked' /\ Live' /\ Sorted'
    BY <1>1, <1>3, BookedInv DEF Typed
  <2>2. ASSUME NEW x \in Expense PROVE BackedOne(x)'
    <3>1. CASE expense[x].invoice = i
      BY <1>3, <3>1, BackedIsBackedOne DEF ExpensesInv, BackedOne, Written
    <3>2. CASE expense[x].invoice # i
      BY <1>2, <1>3, <3>2, BackedIsBackedOne DEF ExpensesInv, BackedOne, Written
    <3> QED BY <3>1, <3>2
  <2>3. Backed'
    BY <2>2 DEF BackedOne, Backed
  <2> QED BY <2>1, <2>3 DEF ExpensesInv
<1>4. ASSUME s = "paid",
             invoice'[i].type = "expense",
             expense[invoice'[i].expense].state = "done",
             expense' = [expense EXCEPT ![invoice'[i].expense].state = "paid"]
      PROVE  ExpensesInv'
  <2> DEFINE e == invoice[i].expense
  <2>1. invoice'[i].expense = e /\ invoice[i].type = "expense" /\ e \in Expense
    <3>1. invoice[i].type = "expense" /\ invoice'[i].expense = e
      BY <1>4 DEF Written
    <3>2. e \in Expense \cup {NoExpense}
      BY <1>1 DEF Typed, InvoiceTable
    <3> QED BY <3>1, <3>2 DEF ExpensesInv, Sorted
  <2> HIDE DEF e
  <2>2. /\ expense' \in [Expense -> ExpenseRow]
        /\ expense'[e].state = "paid" /\ expense[e].state = "done"
        /\ expense'[e].invoice = expense[e].invoice
        /\ \A x \in Expense : x # e => expense'[x] = expense[x]
    BY <1>1, <1>4, <2>1 DEF ExpenseRow
  <2>3. Typed' /\ Linked' /\ Live' /\ Sorted'
    BY <1>1, <2>2, BookedInv DEF Typed
  <2>4. ASSUME NEW x \in Expense PROVE BackedOne(x)'
    <3>1. CASE x = e
      <4>1. history[e] = {} => expense[e].invoice = i
        BY <2>1 DEF ExpensesInv, Live, e
      <4>2. invoice'[i].state = "paid"
        BY <1>4 DEF Written
      <4>3. CASE expense[e].invoice = i
        BY <2>1, <2>2, <2>3, <3>1, <4>2, <4>3 DEF BackedOne, Linked, Invoice, NoInvoice
      <4>4. CASE expense[e].invoice # i
        BY <1>2, <2>2, <3>1, <4>1, <4>4, BackedIsBackedOne
        DEF ExpensesInv, BackedOne, Written
      <4> QED BY <4>3, <4>4
    <3>2. CASE x # e
      <4>1. expense[x].invoice # i
        BY <3>2 DEF ExpensesInv, Linked, e, Invoice, NoInvoice
      <4> QED BY <1>2, <2>2, <3>2, <4>1, BackedIsBackedOne DEF ExpensesInv, BackedOne, Written
    <3> QED BY <3>1, <3>2
  <2>5. Backed'
    BY <2>4 DEF BackedOne, Backed
  <2> QED BY <2>3, <2>5 DEF ExpensesInv
<1> QED BY <1>3, <1>4, ConfirmPaidCases

LEMMA InvoiceValidateInv ==
  ASSUME ExpensesInv, NEW i \in Invoice, NEW total, InvoiceValidate(i, total)
  PROVE  ExpensesInv'
<1> DEFINE settled == invoice[i].expense \in Clearing /\ invoice[i].total = 0
           s == IF settled THEN "paid" ELSE "open"
<1>1. /\ s \in {"open", "paid"}
      /\ invoice' = [invoice EXCEPT ![i].state = s, ![i].total = total]
      /\ expense' = expense \/ (s = "paid" /\ expense' = ConfirmPaid(i, invoice'))
  <2>1. CASE settled
    BY <2>1 DEF InvoiceValidate
  <2>2. CASE ~settled
    BY <2>2 DEF InvoiceValidate
  <2> QED BY <2>1, <2>2
<1> HIDE DEF s
<1>2. Written(i, s)
  BY <1>1, StateWritten DEF Written, ExpensesInv
<1> QED BY <1>1, <1>2, PaidInv DEF InvoiceValidate

LEMMA PayInv ==
  ASSUME ExpensesInv, NEW i \in Invoice, Pay(i)
  PROVE  ExpensesInv'
<1>1. Written(i, "paid")
  BY StateWritten DEF Written, ExpensesInv, Pay
<1> QED BY <1>1, PaidInv DEF Pay

LEMMA ReopenInv ==
  ASSUME ExpensesInv, NEW i \in Invoice, Reopen(i)
  PROVE  ExpensesInv'
<1> USE Constants
<1>1. Written(i, "open")
  BY StateWritten DEF Written, ExpensesInv, Reopen
<1>2. expense' = expense /\ wizard' = wizard /\ invoice[i].state = "paid"
  BY DEF Reopen
<1>3. invoice[i].type # "none"
  BY <1>2 DEF ExpensesInv, Sorted
<1>4. Remembered
  BY HappenedRemembered DEF Reopen, ExpensesInv
<1>5. Typed' /\ Linked' /\ Live' /\ Sorted'
  BY <1>1, <1>2, <1>3, <1>4, BookedInv DEF Typed, ExpensesInv
<1>6. \A x \in Expense : expense[x].invoice \in Invoice \cup {NoInvoice}
  BY DEF ExpensesInv, Typed, ExpenseRow
<1>7. ASSUME NEW x \in Expense PROVE BackedOne(x)'
  <2>1. CASE expense[x].invoice = i
    <3>1. invoice[i].type = "expense" /\ invoice[i].expense = x
      BY <2>1 DEF ExpensesInv, Linked, Invoice, NoInvoice
    <3>2. "reopened" \in history'[x]
      BY <3>1, HappenedRemembered DEF Reopen, ExpensesInv
    <3> QED BY <1>1, <1>2, <2>1, <3>1, <3>2 DEF BackedOne, Written, Invoice, NoInvoice
  <2>2. CASE expense[x].invoice # i
    BY <1>1, <1>2, <1>4, <1>6, <2>2, BackedIsBackedOne
    DEF ExpensesInv, BackedOne, Written, Remembered
  <2> QED BY <2>1, <2>2
<1>8. Backed'
  BY <1>7 DEF BackedOne, Backed
<1> QED BY <1>5, <1>8 DEF ExpensesInv

\* The expense of a canceled invoice lets it go, and waits for a new one.
LEMMA ActionCancelInv ==
  ASSUME ExpensesInv, NEW i \in Invoice, ActionCancel(i)
  PROVE  ExpensesInv'
<1> DEFINE e == invoice[i].expense
<1> USE Constants
<1>1. Written(i, "cancel") /\ invoice[i].state \in {"draft", "open"} /\ invoice[i].type # "none"
  BY StateWritten DEF Written, ExpensesInv, ActionCancel
<1>2. Remembered
  BY HappenedRemembered DEF ActionCancel, ExpensesInv
<1>3. expense \in [Expense -> ExpenseRow] /\ e \in Expense \cup {NoExpense}
  BY DEF ExpensesInv, Typed, InvoiceTable
<1>4. \A x \in Expense : expense[x].invoice \in Invoice \cup {NoInvoice}
  BY <1>3 DEF ExpenseRow
<1>5. /\ expense' \in [Expense -> ExpenseRow]
      /\ e \in Expense => expense'[e].invoice = NoInvoice /\ expense'[e].state \notin {"done", "paid"}
      /\ \A x \in Expense : x # e => expense'[x] = expense[x]
  <2>1. CASE e = NoExpense
    BY <1>3, <2>1 DEF ActionCancel
  <2>2. CASE e \in Expense
    <3> DEFINE s == IF expense[e].state \in {"paid", "done"} THEN "accepted" ELSE expense[e].state
               freed == [expense EXCEPT ![e].invoice = NoInvoice]
    <3>1. freed \in [Expense -> ExpenseRow] /\ freed[e].state = expense[e].state
      BY <1>3, <2>2 DEF ExpenseRow
    <3>2. expense' = [freed EXCEPT ![e].state = s]
      BY <1>3, <2>2, <3>1 DEF ActionCancel
    <3>3. s \in {"draft", "confirm", "accepted", "cancelled"}
      BY <1>3, <2>2 DEF ExpenseRow
    <3>4. /\ freed[e].invoice = NoInvoice
          /\ \A x \in Expense : x # e => freed[x] = expense[x]
      BY <1>3, <2>2 DEF ExpenseRow
    <3> HIDE DEF freed, s
    <3> QED BY <2>2, <3>1, <3>2, <3>3, <3>4 DEF ExpenseRow
  <2> QED BY <1>3, <2>1, <2>2
<1>6. \A x \in Expense : expense[x].invoice = i => x = e
  BY DEF ExpensesInv, Linked, Invoice, NoInvoice
<1>7. \A x \in Expense : expense'[x].invoice # i
  BY <1>5, <1>6 DEF Invoice, NoInvoice
<1>8. Typed'
  BY <1>1, <1>2, <1>5 DEF Typed, Written, Remembered, ActionCancel, ExpensesInv
<1> HIDE DEF e
<1>9. Linked'
  BY <1>1, <1>4, <1>5, <1>7 DEF Linked, Written, ExpensesInv
<1>10. ASSUME NEW k \in Invoice, NEW x \in Expense,
              invoice'[k].expense = x, invoice'[k].state # "cancel", "revived" \notin history'[x]
       PROVE  expense'[x].invoice = k
  <2>1. k # i
    BY <1>1, <1>10 DEF Written
  <2>2. expense[x].invoice = k
    BY <1>1, <1>2, <1>10, <2>1 DEF Written, Remembered, ExpensesInv, Live
  <2>3. x = e => expense[x].invoice = i
    BY <1>1, <1>2, <1>10 DEF Remembered, ExpensesInv, Live, e
  <2> QED BY <1>5, <2>1, <2>2, <2>3
<1>11. Live'
  BY <1>10 DEF Live
<1>12. Sorted'
  BY <1>1 DEF Sorted, Written, ExpensesInv
<1>13. ASSUME NEW x \in Expense PROVE BackedOne(x)'
  <2>1. CASE x = e
    BY <1>5, <2>1 DEF BackedOne
  <2>2. CASE x # e
    BY <1>1, <1>2, <1>4, <1>5, <1>6, <2>2, BackedIsBackedOne
    DEF ExpensesInv, BackedOne, Written, Remembered
  <2> QED BY <2>1, <2>2
<1>14. Backed'
  BY <1>13 DEF BackedOne, Backed
<1> QED BY <1>8, <1>9, <1>11, <1>12, <1>14 DEF ExpensesInv

\* No expense points to a canceled invoice; the one it belongs to is marked.
LEMMA ResetToDraftInv ==
  ASSUME ExpensesInv, NEW i \in Invoice, ResetToDraft(i)
  PROVE  ExpensesInv'
<1> USE Constants
<1>1. Written(i, "draft") /\ invoice[i].state = "cancel"
  BY StateWritten DEF Written, ExpensesInv, ResetToDraft
<1>2. expense' = expense /\ wizard' = wizard
  BY DEF ResetToDraft
<1>3. Remembered /\ \A x \in Expense : x = invoice[i].expense => "revived" \in history'[x]
  BY DEF Remembered, ResetToDraft, ExpensesInv, Typed
<1>4. Typed'
  BY <1>1, <1>2, <1>3 DEF Typed, Written, Remembered, ExpensesInv
<1>5. \A x \in Expense : expense[x].invoice \in Invoice \cup {NoInvoice} /\ expense[x].invoice # i
  BY <1>1 DEF ExpensesInv, Typed, Linked, ExpenseRow, Invoice, NoInvoice
<1>6. Linked' /\ Sorted'
  BY <1>1, <1>2, <1>5 DEF Linked, Sorted, Written, ExpensesInv
<1>7. ASSUME NEW k \in Invoice, NEW x \in Expense,
             invoice'[k].expense = x, invoice'[k].state # "cancel", "revived" \notin history'[x]
      PROVE  expense'[x].invoice = k
  <2>1. k # i
    BY <1>1, <1>3, <1>7 DEF Written
  <2> QED BY <1>1, <1>2, <1>3, <1>7, <2>1 DEF Written, Remembered, ExpensesInv, Live
<1>8. Live'
  BY <1>7 DEF Live
<1>9. ASSUME NEW x \in Expense PROVE BackedOne(x)'
  BY <1>1, <1>2, <1>3, <1>5, BackedIsBackedOne DEF ExpensesInv, BackedOne, Written, Remembered
<1>10. Backed'
  BY <1>9 DEF BackedOne, Backed
<1> QED BY <1>4, <1>6, <1>8, <1>10 DEF ExpensesInv
\* The database empties the invoice_id of the expense of an invoice it deletes.
LEMMA DeleteInv ==
  ASSUME ExpensesInv, NEW i \in Invoice, Delete(i)
  PROVE  ExpensesInv'
<1> DEFINE e == invoice[i].expense
<1> USE Constants
<1>1. /\ \E T : invoice' \in InvoiceTable(T)
      /\ invoice'[i] = NoRow
      /\ \A k \in Invoice : k # i => invoice'[k] = invoice[k]
  <2>1. NoRow \in [type : {"none", "expense", "return"},
                   state : {"draft", "open", "paid", "cancel"},
                   expense : Expense \cup {NoExpense}, advance : Advance \cup {NoExpense},
                   total : {0}, cleared : {0}]
    BY DEF NoRow
  <2> QED BY <2>1, RowWritten DEF Delete, ExpensesInv
<1>2. Remembered /\ (e \in Expense => "deleted" \in history'[e])
  BY HappenedRemembered DEF Delete, ExpensesInv
<1>3. expense \in [Expense -> ExpenseRow] /\ e \in Expense \cup {NoExpense}
  BY DEF ExpensesInv, Typed, InvoiceTable
<1>4. \A x \in Expense : /\ expense[x].invoice \in Invoice \cup {NoInvoice}
                         /\ expense[x].invoice = i => x = e
  BY <1>3 DEF ExpenseRow, ExpensesInv, Linked, Invoice, NoInvoice
<1>5. /\ expense' \in [Expense -> ExpenseRow]
      /\ \A x \in Expense : \/ expense'[x] = expense[x] /\ expense[x].invoice # i
                            \/ x = e /\ expense[x].invoice = i /\ expense'[x].invoice = NoInvoice
  <2>1. CASE e # NoExpense /\ expense[e].invoice = i
    <3>1. expense' = [expense EXCEPT ![e].invoice = NoInvoice]
      BY <2>1 DEF Delete
    <3> QED BY <1>3, <1>4, <2>1, <3>1 DEF ExpenseRow
  <2>2. CASE ~(e # NoExpense /\ expense[e].invoice = i)
    <3>1. expense' = expense
      BY <2>2 DEF Delete
    <3> QED BY <1>3, <1>4, <2>2, <3>1
  <2> QED BY <2>1, <2>2
<1> HIDE DEF e
<1>6. Typed'
  BY <1>1, <1>2, <1>5 DEF Typed, Remembered, Delete, ExpensesInv
<1>7. Linked'
  BY <1>1, <1>4, <1>5 DEF Linked, ExpensesInv
<1>8. Sorted'
  BY <1>1 DEF Sorted, ExpensesInv, NoRow
<1>9. ASSUME NEW k \in Invoice, NEW x \in Expense,
             invoice'[k].expense = x, invoice'[k].state # "cancel", "revived" \notin history'[x]
      PROVE  expense'[x].invoice = k
  <2>1. k # i
    BY <1>1, <1>9 DEF NoRow
  <2>2. expense[x].invoice = k
    BY <1>1, <1>2, <1>9, <2>1 DEF Remembered, ExpensesInv, Live
  <2> QED BY <1>5, <2>1, <2>2
<1>10. Live'
  BY <1>9 DEF Live
<1>11. ASSUME NEW x \in Expense PROVE BackedOne(x)'
  <2>1. CASE expense'[x] = expense[x] /\ expense[x].invoice # i
    BY <1>1, <1>2, <1>4, <2>1, BackedIsBackedOne DEF ExpensesInv, BackedOne, Remembered
  <2>2. CASE x = e /\ expense'[x].invoice = NoInvoice
    BY <1>2, <2>2 DEF BackedOne
  <2> QED BY <1>5, <2>1, <2>2
<1>12. Backed'
  BY <1>11 DEF BackedOne, Backed
<1> QED BY <1>6, <1>7, <1>8, <1>10, <1>12 DEF ExpensesInv

LEMMA ReturnInv ==
  ASSUME ExpensesInv, NEW a \in Advance, NEW amount, Return(a, amount)
  PROVE  ExpensesInv'
<1> DEFINE r == [type |-> "return", state |-> "draft", expense |-> NoExpense,
                 advance |-> a, total |-> amount, cleared |-> amount]
<1> USE Constants
<1>1. PICK i \in Invoice : invoice[i].type = "none" /\ invoice' = [invoice EXCEPT ![i] = r]
  BY DEF Return
<1>2. r \in [type : {"none", "expense", "return"},
             state : {"draft", "open", "paid", "cancel"},
             expense : Expense \cup {NoExpense}, advance : Advance \cup {NoExpense},
             total : {amount}, cleared : {amount}]
  OBVIOUS
<1>3. r.type = "return" /\ r.state = "draft" /\ r.expense = NoExpense
  OBVIOUS
<1> HIDE DEF r
<1>4. /\ \E T : invoice' \in InvoiceTable(T)
      /\ invoice'[i] = r
      /\ \A k \in Invoice : k # i => invoice'[k] = invoice[k]
  BY <1>1, <1>2, RowWritten DEF ExpensesInv
<1>5. Remembered
  BY HappenedRemembered DEF Return, ExpensesInv
<1>6. expense' = expense /\ wizard' = wizard
  BY DEF Return
<1>7. Typed'
  BY <1>4, <1>5, <1>6 DEF Typed, Remembered, ExpensesInv
<1>8. \A x \in Expense : expense[x].invoice \in Invoice \cup {NoInvoice} /\ expense[x].invoice # i
  BY <1>1 DEF ExpensesInv, Typed, Linked, ExpenseRow, Invoice, NoInvoice
<1>9. Linked' /\ Sorted'
  BY <1>3, <1>4, <1>6, <1>8 DEF Linked, Sorted, ExpensesInv
<1>10. Live'
  BY <1>3, <1>4, <1>5, <1>6 DEF Live, Remembered, ExpensesInv
<1>11. ASSUME NEW x \in Expense PROVE BackedOne(x)'
  BY <1>4, <1>5, <1>6, <1>8, BackedIsBackedOne DEF ExpensesInv, BackedOne, Remembered
<1>12. Backed'
  BY <1>11 DEF BackedOne, Backed
<1> QED BY <1>7, <1>9, <1>10, <1>12 DEF ExpensesInv

\* Opening a wizard, and doing nothing
LEMMA UnwrittenInv ==
  ASSUME ExpensesInv, wizard' \subseteq Expense, UNCHANGED <<expense, invoice, history>>
  PROVE  ExpensesInv'
<1>1. Typed'
  BY DEF ExpensesInv, Typed, InvoiceTable, Invoice
<1>2. Linked' /\ Live' /\ Sorted'
  BY DEF ExpensesInv, Linked, Live, Sorted
<1>3. Backed'
  BY DEF ExpensesInv, Backed
<1> QED BY <1>1, <1>2, <1>3 DEF ExpensesInv

-----------------------------------------------------------------------------
(* The theorems *)

LEMMA StepInv == ExpensesInv /\ [ExpensesNext]_expensesVars => ExpensesInv'
<1> SUFFICES ASSUME ExpensesInv, [ExpensesNext]_expensesVars PROVE ExpensesInv'
  OBVIOUS
<1>1. wizard \subseteq Expense
  BY DEF ExpensesInv, Typed
<1>2. CASE ExpenseStep
  <2> PICK e \in Expense :
        \/ \E amount \in 0 .. MaxAmount : ExpenseConfirm(e, amount)
        \/ ExpenseAccept(e)
        \/ ExpenseRefuse(e)
        \/ OpenWizard(e)
        \/ ActionCreateSupplierInvoice(e)
        \/ RefuseToDone(e)
    BY <1>2 DEF ExpenseStep
  <2>1. CASE \/ \E amount \in 0 .. MaxAmount : ExpenseConfirm(e, amount)
             \/ ExpenseAccept(e) \/ ExpenseRefuse(e)
    BY <2>1, ExpenseStateInv
  <2>2. CASE OpenWizard(e)
    BY <1>1, <2>2, UnwrittenInv DEF OpenWizard
  <2>3. CASE ActionCreateSupplierInvoice(e)
    BY <1>1, <2>3, UnwrittenInv, MoveCreateInv DEF ActionCreateSupplierInvoice
  <2>4. CASE RefuseToDone(e)
    BY <1>1, <2>4, MoveCreateInv DEF RefuseToDone
  <2> QED BY <2>1, <2>2, <2>3, <2>4
<1>3. CASE InvoiceStep
  <2> PICK i \in Invoice :
        \/ \E total \in 0 .. MaxAmount : InvoiceValidate(i, total)
        \/ Pay(i)
        \/ Reopen(i)
        \/ ActionCancel(i)
        \/ ResetToDraft(i)
        \/ Delete(i)
    BY <1>3 DEF InvoiceStep
  <2> QED BY InvoiceValidateInv, PayInv, ReopenInv, ActionCancelInv, ResetToDraftInv, DeleteInv
<1>4. CASE ReturnStep
  BY <1>4, ReturnInv DEF ReturnStep
<1>5. CASE UNCHANGED expensesVars
  BY <1>1, <1>5, UnwrittenInv DEF expensesVars
<1> QED BY <1>2, <1>3, <1>4, <1>5 DEF ExpensesNext

\* An expense points to an invoice of its own which is not canceled, and the
\* invoices that are not canceled are the ones pointed to.
THEOREM ExpensesInvHolds == ExpensesSpec => []ExpensesInv
BY InitInv, StepInv, PTL DEF ExpensesSpec

\* An expense that waits for payment has an invoice, and one that is paid has a
\* paid invoice, whatever the order of the steps (confirm_paid, action_cancel).
THEOREM BackedHolds == ExpensesSpec => []Backed
<1>1. ExpensesInv => Backed
  BY DEF ExpensesInv
<1> QED BY <1>1, ExpensesInvHolds, PTL

\* No expense is invoiced twice (action_move_create, view_init).
THEOREM InvoicedOnceHolds == ExpensesSpec => []InvoicedOnce
<1>1. ExpensesInv => InvoicedOnce
  BY DEF ExpensesInv, Live, InvoicedOnce
<1> QED BY <1>1, ExpensesInvHolds, PTL

-----------------------------------------------------------------------------
(* What is cleared of an advance *)

\* Invoice i clears a part of advance a.
Counts(i, a, inv) ==
  /\ inv[i].type # "none"
  /\ inv[i].advance = a
  /\ inv[i].state \in Booked
  /\ inv[i].cleared > 0

LEMMA ClearingIs ==
  ASSUME NEW a, NEW inv
  PROVE  ClearingAmount(a, inv) = SumFunctionOnSet([i \in Invoice |-> inv[i].cleared],
                                                   {i \in Invoice : Counts(i, a, inv)})
BY DEF ClearingAmount, Counts

LEMMA InvoicesFinite == \A S \in SUBSET Invoice : IsFiniteSet(S)
<1>1. IsFiniteSet(Invoice)
  BY FS_Interval, ExpensesAssumption DEF Invoice
<1> QED BY <1>1, FS_Subset

LEMMA ClearingType ==
  ASSUME NEW a, NEW inv, \A i \in Invoice : inv[i].cleared \in Int
  PROVE  ClearingAmount(a, inv) \in Int
<1> DEFINE S == {i \in Invoice : Counts(i, a, inv)}
           F == [i \in Invoice |-> inv[i].cleared]
<1>1. S \in SUBSET Invoice /\ IsFiniteSet(S)
  BY InvoicesFinite
<1>2. \A i \in S : F[i] \in Int
  BY <1>1
<1> HIDE DEF S, F
<1>3. SumFunctionOnSet(F, S) \in Int
  BY <1>1, <1>2, SumType
<1> QED BY <1>3, ClearingIs DEF S, F

LEMMA ClearingSame ==
  ASSUME NEW a, NEW inv, NEW jnv,
         \A i \in Invoice : /\ Counts(i, a, inv) <=> Counts(i, a, jnv)
                            /\ Counts(i, a, inv) => inv[i].cleared = jnv[i].cleared
  PROVE  ClearingAmount(a, inv) = ClearingAmount(a, jnv)
<1> DEFINE S == {i \in Invoice : Counts(i, a, inv)}
           F == [i \in Invoice |-> inv[i].cleared]
           G == [i \in Invoice |-> jnv[i].cleared]
<1>1. S \in SUBSET Invoice /\ IsFiniteSet(S)
  BY InvoicesFinite
<1>2. S = {i \in Invoice : Counts(i, a, jnv)}
  OBVIOUS
<1>3. \A i \in S : F[i] = G[i]
  OBVIOUS
<1>4. /\ ClearingAmount(a, inv) = SumFunctionOnSet(F, S)
      /\ ClearingAmount(a, jnv) = SumFunctionOnSet(G, S)
  BY <1>2, ClearingIs
<1> HIDE DEF S, F, G
<1> QED BY <1>1, <1>3, <1>4, SumSame

\* One more invoice counts.
LEMMA ClearingMore ==
  ASSUME NEW a, NEW inv, NEW jnv, NEW i \in Invoice,
         \A k \in Invoice : jnv[k].cleared \in Int,
         \A k \in Invoice : k # i => inv[k] = jnv[k],
         ~Counts(i, a, inv), Counts(i, a, jnv)
  PROVE  ClearingAmount(a, jnv) = jnv[i].cleared + ClearingAmount(a, inv)
<1> DEFINE S == {k \in Invoice : Counts(k, a, inv)}
           T == {k \in Invoice : Counts(k, a, jnv)}
           F == [k \in Invoice |-> inv[k].cleared]
           G == [k \in Invoice |-> jnv[k].cleared]
<1>1. IsFiniteSet(S) /\ IsFiniteSet(T) /\ T \subseteq Invoice
  BY InvoicesFinite
<1>2. i \in T /\ G[i] = jnv[i].cleared /\ \A k \in T : G[k] \in Int
  OBVIOUS
<1>3. S = T \ {i}
  BY DEF Counts
<1>4. \A k \in S : F[k] = G[k]
  BY <1>3
<1>5. /\ ClearingAmount(a, inv) = SumFunctionOnSet(F, S)
      /\ ClearingAmount(a, jnv) = SumFunctionOnSet(G, T)
  BY ClearingIs
<1> HIDE DEF S, T, F, G
<1>6. SumFunctionOnSet(G, T) = G[i] + SumFunctionOnSet(G, T \ {i})
  BY <1>1, <1>2, SumRemove
<1>7. SumFunctionOnSet(F, S) = SumFunctionOnSet(G, S)
  BY <1>1, <1>4, SumSame
<1> QED BY <1>2, <1>3, <1>5, <1>6, <1>7

-----------------------------------------------------------------------------
(* Amounts *)

\* A clearing expense that was confirmed knows its advance.
Amounts ==
  /\ advanced \in [Advance -> 0 .. MaxAmount]
  /\ balance \in [Advance -> Int]
  /\ \A i \in Invoice : invoice[i].total \in Int /\ invoice[i].cleared \in Int
  /\ \A e \in Clearing : expense[e].state # "draft" => expense[e].advance \in Advance

LEMMA RecomputedAt ==
  ASSUME NEW a \in Advance, NEW S, NEW exp, NEW adv, NEW inv
  PROVE  Recomputed(S, exp, adv, inv)[a] =
           IF a \in S THEN AmountToClearing(a, exp, adv, inv) ELSE balance[a]
BY DEF Recomputed

LEMMA RecomputedType ==
  ASSUME Amounts, NEW S, NEW exp, NEW inv, \A i \in Invoice : inv[i].cleared \in Int
  PROVE  Recomputed(S, exp, advanced, inv) \in [Advance -> Int]
<1>1. ASSUME NEW a \in Advance PROVE AmountToClearing(a, exp, advanced, inv) \in Int
  <2>1. advanced[a] \in Int
    BY DEF Amounts
  <2>2. ClearingAmount(a, inv) \in Int
    BY ClearingType
  <2> QED BY <2>1, <2>2 DEF AmountToClearing
<1>2. \A a \in Advance : balance[a] \in Int
  BY DEF Amounts
<1> QED BY <1>1, <1>2 DEF Recomputed

\* The expenses keep their advances.
AdvancesKept ==
  \A e \in Expense : /\ expense'[e].advance = expense[e].advance
                     /\ expense'[e].state # "draft" => expense[e].state # "draft"

LEMMA AmountsStep ==
  ASSUME Amounts, AdvancesKept, advanced' \in [Advance -> 0 .. MaxAmount],
         \A i \in Invoice : invoice'[i].total \in Int /\ invoice'[i].cleared \in Int,
         NEW S, NEW exp, balance' = Recomputed(S, exp, advanced, invoice')
  PROVE  Amounts'
<1>1. balance' \in [Advance -> Int]
  BY RecomputedType
<1>2. \A e \in Clearing : e \in Expense
  BY DEF Expense
<1>3. \A e \in Clearing : expense'[e].state # "draft" => expense'[e].advance \in Advance
  BY <1>2 DEF Amounts, AdvancesKept
<1> QED BY <1>1, <1>3 DEF Amounts

\* A row of account_invoice in which the state is written, and an integer as total
Revalued(i, s) ==
  /\ invoice'[i].state = s
  /\ invoice'[i].type = invoice[i].type
  /\ invoice'[i].expense = invoice[i].expense
  /\ invoice'[i].advance = invoice[i].advance
  /\ invoice'[i].cleared = invoice[i].cleared
  /\ invoice'[i].total \in Int
  /\ \A k \in Invoice : k # i => invoice'[k] = invoice[k]

LEMMA StateRevalued ==
  ASSUME Typed, Amounts, NEW i \in Invoice, NEW s \in {"draft", "open", "paid", "cancel"},
         NEW t \in Int,
         \/ invoice' = [invoice EXCEPT ![i].state = s]
         \/ invoice' = [invoice EXCEPT ![i].state = s, ![i].total = t]
  PROVE  Revalued(i, s)
<1>1. PICK T : invoice \in InvoiceTable(T)
  BY DEF Typed
<1>2. CASE invoice' = [invoice EXCEPT ![i].state = s]
  BY <1>1, <1>2 DEF InvoiceTable, Revalued, Amounts
<1>3. CASE invoice' = [invoice EXCEPT ![i].state = s, ![i].total = t]
  <2> DEFINE opened == [invoice EXCEPT ![i].state = s]
  <2>1. opened \in InvoiceTable(T)
    BY <1>1 DEF InvoiceTable
  <2>2. /\ opened[i].state = s /\ opened[i].type = invoice[i].type
        /\ opened[i].expense = invoice[i].expense /\ opened[i].advance = invoice[i].advance
        /\ opened[i].cleared = invoice[i].cleared
        /\ \A k \in Invoice : k # i => opened[k] = invoice[k]
    BY <1>1 DEF InvoiceTable
  <2>3. invoice' = [opened EXCEPT ![i].total = t]
    BY <1>1, <1>3 DEF InvoiceTable
  <2> HIDE DEF opened
  <2> QED BY <2>1, <2>2, <2>3 DEF InvoiceTable, Revalued
<1> QED BY <1>2, <1>3

\* The same when only the state is written
LEMMA OnlyStateRevalued ==
  ASSUME Typed, Amounts, NEW i \in Invoice, NEW s \in {"draft", "open", "paid", "cancel"},
         invoice' = [invoice EXCEPT ![i].state = s]
  PROVE  Revalued(i, s)
<1>1. 0 \in Int
  OBVIOUS
<1> QED BY <1>1, StateRevalued

LEMMA RevaluedAmounts ==
  ASSUME Amounts, NEW i \in Invoice, NEW s, Revalued(i, s)
  PROVE  \A k \in Invoice : invoice'[k].total \in Int /\ invoice'[k].cleared \in Int
BY DEF Amounts, Revalued

-----------------------------------------------------------------------------
(* What each step does to the expenses, to the invoices, and to what happened *)

\* An expense whose state is written, and its invoice
LEMMA ExpenseWritten ==
  ASSUME Typed, NEW e \in Expense, NEW s, NEW i,
         \/ expense' = [expense EXCEPT ![e].state = s]
         \/ expense' = [expense EXCEPT ![e].invoice = i]
         \/ expense' = [expense EXCEPT ![e].state = s, ![e].invoice = i]
         \/ expense' = [expense EXCEPT ![e].invoice = i, ![e].state = s]
  PROVE  /\ \A x \in Expense : expense'[x].advance = expense[x].advance
         /\ \A x \in Expense : x # e => expense'[x] = expense[x]
         /\ expense'[e].state \in {s, expense[e].state}
         /\ expense'[e].invoice \in {i, expense[e].invoice}
         /\ expense' = [expense EXCEPT ![e].state = s] => expense'[e].invoice = expense[e].invoice
BY DEF Typed, ExpenseRow

LEMMA ConfirmPaidKeeps ==
  ASSUME ExpensesInv, NEW i \in Invoice, invoice'[i].type = invoice[i].type,
         invoice'[i].expense = invoice[i].expense, expense' = ConfirmPaid(i, invoice')
  PROVE  AdvancesKept /\ \A x \in Expense : expense'[x].invoice = expense[x].invoice
<1>1. CASE expense' = expense
  BY <1>1 DEF AdvancesKept
<1>2. CASE /\ invoice'[i].type = "expense"
           /\ expense[invoice'[i].expense].state = "done"
           /\ expense' = [expense EXCEPT ![invoice'[i].expense].state = "paid"]
  <2> DEFINE e == invoice'[i].expense
  <2>1. e \in Expense
    BY <1>2 DEF ExpensesInv, Sorted, Typed, InvoiceTable
  <2> HIDE DEF e
  <2>2. /\ \A x \in Expense : expense'[x].advance = expense[x].advance
        /\ \A x \in Expense : x # e => expense'[x] = expense[x]
        /\ expense'[e].invoice = expense[e].invoice
    BY <1>2, <2>1, ExpenseWritten DEF ExpensesInv, e
  <2>3. expense[e].state # "draft"
    BY <1>2 DEF e
  <2> QED BY <2>2, <2>3 DEF AdvancesKept
<1> QED BY <1>1, <1>2, ConfirmPaidCases

LEMMA InvoiceValidateDoes ==
  ASSUME ExpensesInv, Amounts, NEW i \in Invoice, NEW total \in 0 .. MaxAmount,
         InvoiceValidate(i, total)
  PROVE  /\ Revalued(i, "open") \/ Revalued(i, "paid")
         /\ invoice[i].expense \in Advance => Revalued(i, "open")
         /\ invoice[i].type # "none" /\ invoice[i].state = "draft"
         /\ AdvancesKept /\ \A x \in Expense : expense'[x].invoice = expense[x].invoice
         /\ \A a \in Advance : advanced'[a] = IF a = invoice[i].expense THEN total ELSE advanced[a]
         /\ advanced' \in [Advance -> 0 .. MaxAmount]
         /\ balance' = Recomputed(DependOn(i, expense, invoice), expense', advanced, invoice')
         /\ history' = history
<1> DEFINE settled == invoice[i].expense \in Clearing /\ invoice[i].total = 0
           s == IF settled THEN "paid" ELSE "open"
<1>1. /\ s \in {"open", "paid"}
      /\ invoice' = [invoice EXCEPT ![i].state = s, ![i].total = total]
      /\ expense' = expense \/ expense' = ConfirmPaid(i, invoice')
  <2>1. CASE settled
    BY <2>1 DEF InvoiceValidate
  <2>2. CASE ~settled
    BY <2>2 DEF InvoiceValidate
  <2> QED BY <2>1, <2>2
<1>2. invoice[i].expense \in Advance => s = "open"
  BY ExpensesAssumption
<1> HIDE DEF s
<1>3. Revalued(i, s)
  <2>1. total \in Int /\ s \in {"draft", "open", "paid", "cancel"}
    BY <1>1
  <2> QED BY <1>1, <2>1, StateRevalued DEF ExpensesInv
<1>4. AdvancesKept /\ \A x \in Expense : expense'[x].invoice = expense[x].invoice
  <2>1. CASE expense' = expense
    BY <2>1 DEF AdvancesKept
  <2>2. CASE expense' = ConfirmPaid(i, invoice')
    BY <1>3, <2>2, ConfirmPaidKeeps DEF Revalued
  <2> QED BY <1>1, <2>1, <2>2
<1>5. /\ \A a \in Advance : advanced'[a] = IF a = invoice[i].expense THEN total ELSE advanced[a]
      /\ advanced' \in [Advance -> 0 .. MaxAmount]
  <2>1. advanced' = IF invoice[i].expense \in Advance
                    THEN [advanced EXCEPT ![invoice[i].expense] = total] ELSE advanced
    BY DEF InvoiceValidate
  <2>2. advanced \in [Advance -> 0 .. MaxAmount]
    BY DEF Amounts
  <2> QED BY <2>1, <2>2
<1> QED BY <1>1, <1>2, <1>3, <1>4, <1>5 DEF InvoiceValidate

LEMMA PayDoes ==
  ASSUME ExpensesInv, Amounts, NEW i \in Invoice, Pay(i)
  PROVE  /\ Revalued(i, "paid")
         /\ AdvancesKept /\ \A x \in Expense : expense'[x].invoice = expense[x].invoice
<1>1. Revalued(i, "paid")
  BY OnlyStateRevalued DEF Pay, ExpensesInv
<1>2. AdvancesKept /\ \A x \in Expense : expense'[x].invoice = expense[x].invoice
  BY <1>1, ConfirmPaidKeeps DEF Pay, Revalued
<1> QED BY <1>1, <1>2

LEMMA ReopenDoes ==
  ASSUME ExpensesInv, Amounts, NEW i \in Invoice, Reopen(i)
  PROVE  /\ Revalued(i, "open")
         /\ AdvancesKept /\ Remembered
<1>1. Revalued(i, "open")
  BY OnlyStateRevalued DEF Reopen, ExpensesInv
<1>2. AdvancesKept
  BY DEF Reopen, AdvancesKept
<1>3. Remembered
  BY HappenedRemembered DEF Reopen, ExpensesInv
<1> QED BY <1>1, <1>2, <1>3

LEMMA ActionCancelDoes ==
  ASSUME ExpensesInv, Amounts, NEW i \in Invoice, ActionCancel(i)
  PROVE  /\ Revalued(i, "cancel")
         /\ AdvancesKept /\ Remembered
         /\ \A x \in Expense : x # invoice[i].expense => expense'[x] = expense[x]
         /\ \A x \in Expense : x = invoice[i].expense => expense'[x].invoice = NoInvoice
<1> DEFINE e == invoice[i].expense
<1>1. Revalued(i, "cancel")
  BY OnlyStateRevalued DEF ActionCancel, ExpensesInv
<1>2. Remembered
  BY HappenedRemembered DEF ActionCancel, ExpensesInv
<1>3. e \in Expense \cup {NoExpense}
  BY DEF ExpensesInv, Typed, InvoiceTable
<1>4. CASE e = NoExpense
  <2>1. expense' = expense
    BY <1>4 DEF ActionCancel
  <2> QED BY <1>1, <1>2, <1>4, <2>1, Constants DEF AdvancesKept
<1>5. CASE e \in Expense
  <2> DEFINE s == IF expense[e].state \in {"paid", "done"} THEN "accepted" ELSE expense[e].state
  <2>1. expense' = [expense EXCEPT ![e].invoice = NoInvoice, ![e].state = s]
    <3>1. e # NoExpense
      BY <1>5, Constants
    <3>2. expense \in [Expense -> ExpenseRow]
      BY DEF ExpensesInv, Typed
    <3> QED BY <1>5, <3>1, <3>2 DEF ActionCancel, ExpenseRow
  <2>2. s # "draft" => expense[e].state # "draft"
    OBVIOUS
  <2> HIDE DEF e, s
  <2>3. /\ \A x \in Expense : expense'[x].advance = expense[x].advance
        /\ \A x \in Expense : x # e => expense'[x] = expense[x]
        /\ expense'[e].state \in {s, expense[e].state}
    BY <1>5, <2>1, ExpenseWritten DEF ExpensesInv
  <2>4. expense'[e].invoice = NoInvoice
    BY <1>5, <2>1 DEF ExpensesInv, Typed, ExpenseRow
  <2>5. AdvancesKept
    BY <2>2, <2>3 DEF AdvancesKept
  <2> QED BY <1>1, <1>2, <2>3, <2>4, <2>5 DEF e
<1> QED BY <1>3, <1>4, <1>5

LEMMA ResetToDraftDoes ==
  ASSUME ExpensesInv, Amounts, NEW i \in Invoice, ResetToDraft(i)
  PROVE  /\ Revalued(i, "draft")
         /\ AdvancesKept /\ Remembered
         /\ \A x \in Expense : x \in {invoice[i].expense, invoice[i].advance} =>
                                 "revived" \in history'[x]
<1>1. Revalued(i, "draft")
  BY OnlyStateRevalued DEF ResetToDraft, ExpensesInv
<1>2. AdvancesKept
  BY DEF ResetToDraft, AdvancesKept
<1>3. /\ Remembered
      /\ \A x \in Expense : x \in {invoice[i].expense, invoice[i].advance} =>
                              "revived" \in history'[x]
  BY DEF Remembered, ResetToDraft, ExpensesInv, Typed
<1> QED BY <1>1, <1>2, <1>3

LEMMA DeleteDoes ==
  ASSUME ExpensesInv, Amounts, NEW i \in Invoice, Delete(i)
  PROVE  /\ invoice'[i] = NoRow /\ \A k \in Invoice : k # i => invoice'[k] = invoice[k]
         /\ AdvancesKept /\ Remembered
         /\ \A x \in Expense : expense'[x].invoice =
                                 IF expense[x].invoice = i THEN NoInvoice ELSE expense[x].invoice
<1> DEFINE e == invoice[i].expense
<1>1. invoice'[i] = NoRow /\ \A k \in Invoice : k # i => invoice'[k] = invoice[k]
  BY DEF Delete, ExpensesInv, Typed, InvoiceTable
<1>2. Remembered
  BY HappenedRemembered DEF Delete, ExpensesInv
<1>3. \A x \in Expense : expense[x].invoice = i => x = e
  BY DEF ExpensesInv, Linked, Invoice, NoInvoice
<1>4. e \in Expense \cup {NoExpense}
  BY DEF ExpensesInv, Typed, InvoiceTable
<1>5. CASE e # NoExpense /\ expense[e].invoice = i
  <2>1. e \in Expense /\ expense' = [expense EXCEPT ![e].invoice = NoInvoice]
    BY <1>4, <1>5 DEF Delete
  <2> HIDE DEF e
  <2>2. expense \in [Expense -> ExpenseRow]
    BY DEF ExpensesInv, Typed
  <2>3. AdvancesKept
    BY <2>1, <2>2 DEF AdvancesKept, ExpenseRow
  <2>4. \A x \in Expense : expense'[x].invoice =
                             IF expense[x].invoice = i THEN NoInvoice ELSE expense[x].invoice
    BY <1>3, <1>5, <2>1, <2>2 DEF ExpenseRow
  <2> QED BY <1>1, <1>2, <2>3, <2>4
<1>6. CASE ~(e # NoExpense /\ expense[e].invoice = i)
  <2>1. expense' = expense
    BY <1>6 DEF Delete
  <2>2. \A x \in Expense : expense[x].invoice # i
    BY <1>3, <1>6, Constants
  <2> QED BY <1>1, <1>2, <2>1, <2>2 DEF AdvancesKept
<1> QED BY <1>5, <1>6

\* A draft invoice in the place of none
NewRow(i) ==
  /\ invoice[i].type = "none"
  /\ invoice'[i].state = "draft"
  /\ \A k \in Invoice : k # i => invoice'[k] = invoice[k]

LEMMA ActionMoveCreateDoes ==
  ASSUME ExpensesInv, Amounts, NEW e \in Expense, expense[e].state \in {"accepted", "cancelled"},
         ActionMoveCreate(e)
  PROVE  /\ AdvancesKept /\ Remembered
         /\ \A x \in Expense : x # e => expense'[x] = expense[x]
         /\ \/ invoice' = invoice /\ expense'[e].invoice = expense[e].invoice
            \/ /\ expense[e].invoice = NoInvoice
               /\ \E i \in Invoice :
                    NewRow(i) /\ invoice'[i] = SupplierInvoice(e) /\ expense'[e].invoice = i
         /\ \A i \in Invoice : invoice'[i].total \in Int /\ invoice'[i].cleared \in Int
<1>1. PICK i \in Invoice :
        /\ \/ /\ expense[e].invoice # NoInvoice
              /\ i = expense[e].invoice /\ invoice' = invoice
           \/ /\ expense[e].invoice = NoInvoice
              /\ invoice[i].type = "none"
              /\ invoice' = [invoice EXCEPT ![i] = SupplierInvoice(e)]
        /\ expense' = [expense EXCEPT ![e].state = "done", ![e].invoice = i]
        /\ history' = Happened(expense[e].advance, "raced") \/ history' = history
  BY DEF ActionMoveCreate
<1>2. /\ \A x \in Expense : expense'[x].advance = expense[x].advance
      /\ \A x \in Expense : x # e => expense'[x] = expense[x]
  BY <1>1, ExpenseWritten DEF ExpensesInv
<1>3. expense'[e].invoice = i
  BY <1>1 DEF ExpensesInv, Typed, ExpenseRow
<1>4. AdvancesKept
  BY <1>2 DEF AdvancesKept
<1>5. Remembered
  BY <1>1, HappenedRemembered DEF ExpensesInv
<1>6. CASE invoice' = invoice /\ i = expense[e].invoice
  BY <1>2, <1>3, <1>4, <1>5, <1>6 DEF Amounts
<1>7. CASE /\ expense[e].invoice = NoInvoice
           /\ invoice[i].type = "none"
           /\ invoice' = [invoice EXCEPT ![i] = SupplierInvoice(e)]
  <2> DEFINE r == SupplierInvoice(e)
  <2>1. invoice'[i] = r /\ \A k \in Invoice : k # i => invoice'[k] = invoice[k]
    BY <1>7 DEF ExpensesInv, Typed, InvoiceTable
  <2>2. r.state = "draft" /\ r.cleared = NegativeClearingLine(e)
        /\ r.total = expense[e].amount - NegativeClearingLine(e)
    BY DEF SupplierInvoice
  <2>3. expense[e].amount \in Int
    BY DEF ExpensesInv, Typed, ExpenseRow
  <2>4. NegativeClearingLine(e) \in Int
    <3>1. CASE e \in Clearing
      <4> DEFINE a == expense[e].advance
                 left == IF expense[a].invoice # NoInvoice
                         THEN balance[a]
                         ELSE advanced[a] - ClearingAmount(a, invoice)
      <4>1. a \in Advance
        BY <3>1 DEF Amounts
      <4>2. balance[a] \in Int /\ advanced[a] \in Int
        BY <4>1 DEF Amounts
      <4>3. ClearingAmount(a, invoice) \in Int
        BY ClearingType DEF Amounts
      <4>4. left \in Int
        BY <4>2, <4>3
      <4>5. NegativeClearingLine(e) = Lesser(expense[e].amount, left)
        BY <3>1 DEF NegativeClearingLine
      <4> HIDE DEF left
      <4> QED BY <2>3, <4>4, <4>5 DEF Lesser
    <3>2. CASE e \notin Clearing
      BY <3>2 DEF NegativeClearingLine
    <3> QED BY <3>1, <3>2
  <2>5. \A k \in Invoice : invoice'[k].total \in Int /\ invoice'[k].cleared \in Int
    <3> HIDE DEF r
    <3> QED BY <2>1, <2>2, <2>3, <2>4 DEF Amounts
  <2>6. NewRow(i)
    BY <1>7, <2>1, <2>2 DEF NewRow
  <2> QED BY <1>2, <1>3, <1>4, <1>5, <1>7, <2>1, <2>5, <2>6
<1> QED BY <1>1, <1>6, <1>7

-----------------------------------------------------------------------------
(* The types *)

LEMMA InitAmounts == ExpensesInit => Amounts
BY ExpensesAssumption DEF ExpensesInit, Amounts, NoRow, Expense

LEMMA ExpenseConfirmAmounts ==
  ASSUME ExpensesInv, Amounts, NEW e \in Expense, NEW amount \in 0 .. MaxAmount,
         ExpenseConfirm(e, amount)
  PROVE  /\ Amounts' /\ \A x \in Expense : x # e => expense'[x] = expense[x]
         /\ expense'[e].invoice = expense[e].invoice
<1>1. PICK a \in Advance \cup {NoExpense} :
        /\ e \in Clearing => a # NoExpense
        /\ expense' = [expense EXCEPT ![e].state = "confirm", ![e].amount = amount,
                                      ![e].advance = a]
  BY DEF ExpenseConfirm
<1>2. /\ expense'[e].advance = a /\ expense'[e].invoice = expense[e].invoice
      /\ \A x \in Expense : x # e => expense'[x] = expense[x]
  BY <1>1 DEF ExpensesInv, Typed, ExpenseRow
<1>3. balance' \in [Advance -> Int]
  <2>1. balance' = Recomputed({b \in Advance : b = e \/ expense'[e].advance = b}, expense',
                              advanced, invoice)
    BY DEF ExpenseConfirm, BalanceAfter
  <2> QED BY <2>1, RecomputedType DEF Amounts
<1>4. \A x \in Clearing : expense'[x].state # "draft" => expense'[x].advance \in Advance
  BY <1>1, <1>2 DEF Amounts, Expense
<1> QED BY <1>2, <1>3, <1>4 DEF Amounts, ExpenseConfirm

LEMMA ExpenseAmounts ==
  ASSUME ExpensesInv, Amounts, NEW e \in Expense, ExpenseAccept(e) \/ ExpenseRefuse(e)
  PROVE  /\ Amounts' /\ \A x \in Expense : x # e => expense'[x] = expense[x]
         /\ expense'[e].invoice = expense[e].invoice
<1>1. PICK s \in {"accepted", "cancelled"} : expense' = [expense EXCEPT ![e].state = s]
  BY DEF ExpenseAccept, ExpenseRefuse
<1>2. /\ \A x \in Expense : expense'[x].advance = expense[x].advance
      /\ \A x \in Expense : x # e => expense'[x] = expense[x]
      /\ expense'[e].invoice = expense[e].invoice
  BY <1>1, ExpenseWritten DEF ExpensesInv
<1>3. expense[e].state # "draft"
  BY DEF ExpenseAccept, ExpenseRefuse
<1>4. AdvancesKept
  BY <1>2, <1>3 DEF AdvancesKept
<1>5. balance' = Recomputed({b \in Advance : b = e \/ expense'[e].advance = b}, expense',
                            advanced, invoice') /\ advanced' = advanced /\ invoice' = invoice
  BY DEF ExpenseAccept, ExpenseRefuse, BalanceAfter
<1> QED BY <1>2, <1>4, <1>5, AmountsStep DEF Amounts

LEMMA MoveCreateAmounts ==
  ASSUME ExpensesInv, Amounts, NEW e \in Expense, expense[e].state \in {"accepted", "cancelled"},
         ActionMoveCreate(e)
  PROVE  Amounts'
<1>1. /\ advanced' = advanced
      /\ balance' = Recomputed({b \in Advance : b = e \/ b = expense[e].advance}, expense',
                               advanced, invoice')
  BY DEF ActionMoveCreate
<1>2. advanced' \in [Advance -> 0 .. MaxAmount]
  BY <1>1 DEF Amounts
<1> QED BY <1>1, <1>2, ActionMoveCreateDoes, AmountsStep

LEMMA InvoiceStepAmounts ==
  ASSUME ExpensesInv, Amounts, NEW i \in Invoice,
         \/ \E total \in 0 .. MaxAmount : InvoiceValidate(i, total)
         \/ Pay(i) \/ Reopen(i) \/ ActionCancel(i) \/ ResetToDraft(i) \/ Delete(i)
  PROVE  Amounts'
<1>1. ASSUME NEW total \in 0 .. MaxAmount, InvoiceValidate(i, total) PROVE Amounts'
  <2>1. \A k \in Invoice : invoice'[k].total \in Int /\ invoice'[k].cleared \in Int
    BY <1>1, InvoiceValidateDoes, RevaluedAmounts
  <2> QED BY <1>1, <2>1, InvoiceValidateDoes, AmountsStep
<1>2. CASE Pay(i)
  <2>1. /\ balance' = Recomputed(DependOn(i, expense, invoice), expense', advanced, invoice')
        /\ advanced' \in [Advance -> 0 .. MaxAmount]
    BY <1>2 DEF Pay, Amounts
  <2>2. \A k \in Invoice : invoice'[k].total \in Int /\ invoice'[k].cleared \in Int
    BY <1>2, PayDoes, RevaluedAmounts
  <2> QED BY <1>2, <2>1, <2>2, PayDoes, AmountsStep
<1>3. CASE Reopen(i)
  <2>1. /\ balance' = Recomputed(DependOn(i, expense, invoice), expense, advanced, invoice')
        /\ advanced' \in [Advance -> 0 .. MaxAmount]
    BY <1>3 DEF Reopen, Amounts
  <2>2. \A k \in Invoice : invoice'[k].total \in Int /\ invoice'[k].cleared \in Int
    BY <1>3, ReopenDoes, RevaluedAmounts
  <2> QED BY <1>3, <2>1, <2>2, ReopenDoes, AmountsStep
<1>4. CASE ActionCancel(i)
  <2>1. /\ balance' = Recomputed(DependOn(i, expense, invoice) \cup ({invoice[i].expense} \cap Advance),
                                 expense', advanced, invoice')
        /\ advanced' \in [Advance -> 0 .. MaxAmount]
    BY <1>4 DEF ActionCancel, Amounts
  <2>2. \A k \in Invoice : invoice'[k].total \in Int /\ invoice'[k].cleared \in Int
    BY <1>4, ActionCancelDoes, RevaluedAmounts
  <2> QED BY <1>4, <2>1, <2>2, ActionCancelDoes, AmountsStep
<1>5. CASE ResetToDraft(i)
  <2>1. /\ balance' = Recomputed(DependOn(i, expense, invoice), expense, advanced, invoice')
        /\ advanced' \in [Advance -> 0 .. MaxAmount]
    BY <1>5 DEF ResetToDraft, Amounts
  <2>2. \A k \in Invoice : invoice'[k].total \in Int /\ invoice'[k].cleared \in Int
    BY <1>5, ResetToDraftDoes, RevaluedAmounts
  <2> QED BY <1>5, <2>1, <2>2, ResetToDraftDoes, AmountsStep
<1>6. CASE Delete(i)
  <2>1. /\ balance' = Recomputed(DependOn(i, expense, invoice), expense', advanced, invoice')
        /\ advanced' \in [Advance -> 0 .. MaxAmount]
    BY <1>6 DEF Delete, Amounts
  <2>2. \A k \in Invoice : invoice'[k].total \in Int /\ invoice'[k].cleared \in Int
    BY <1>6, DeleteDoes DEF NoRow, Amounts
  <2> QED BY <1>6, <2>1, <2>2, DeleteDoes, AmountsStep
<1> QED BY <1>1, <1>2, <1>3, <1>4, <1>5, <1>6

\* A draft return of an amount of money
LEMMA ReturnDoes ==
  ASSUME ExpensesInv, Amounts, NEW a \in Advance, NEW amount \in 1 .. MaxAmount, Return(a, amount)
  PROVE  /\ Remembered
         /\ \E i \in Invoice : /\ NewRow(i)
                               /\ invoice'[i].advance = a /\ invoice'[i].cleared = amount
         /\ Amounts'
<1>1. PICK i \in Invoice :
        /\ invoice[i].type = "none"
        /\ invoice' = [invoice EXCEPT ![i] =
             [type |-> "return", state |-> "draft", expense |-> NoExpense,
              advance |-> a, total |-> amount, cleared |-> amount]]
  BY DEF Return
<1>2. /\ NewRow(i) /\ invoice'[i].advance = a
      /\ invoice'[i].cleared = amount /\ invoice'[i].total = amount
  BY <1>1 DEF ExpensesInv, Typed, InvoiceTable, NewRow
<1>3. \A k \in Invoice : invoice'[k].total \in Int /\ invoice'[k].cleared \in Int
  BY <1>2 DEF Amounts, NewRow
<1>4. /\ balance' = Recomputed({a}, expense, advanced, invoice')
      /\ advanced' \in [Advance -> 0 .. MaxAmount] /\ AdvancesKept
  BY DEF Return, Amounts, AdvancesKept
<1>5. Amounts'
  BY <1>3, <1>4, AmountsStep
<1>6. Remembered
  BY HappenedRemembered DEF Return, ExpensesInv
<1> QED BY <1>2, <1>5, <1>6

LEMMA UnwrittenAmounts ==
  ASSUME Amounts, UNCHANGED <<expense, advanced, balance, invoice>>
  PROVE  Amounts'
BY DEF Amounts

LEMMA StepAmounts ==
  ASSUME ExpensesInv, Amounts, [ExpensesNext]_expensesVars PROVE Amounts'
<1>1. CASE ExpenseStep
  <2> PICK e \in Expense :
        \/ \E amount \in 0 .. MaxAmount : ExpenseConfirm(e, amount)
        \/ ExpenseAccept(e)
        \/ ExpenseRefuse(e)
        \/ OpenWizard(e)
        \/ ActionCreateSupplierInvoice(e)
        \/ RefuseToDone(e)
    BY <1>1 DEF ExpenseStep
  <2>1. CASE \E amount \in 0 .. MaxAmount : ExpenseConfirm(e, amount)
    BY <2>1, ExpenseConfirmAmounts
  <2>2. CASE ExpenseAccept(e) \/ ExpenseRefuse(e)
    BY <2>2, ExpenseAmounts
  <2>3. CASE OpenWizard(e)
    BY <2>3, UnwrittenAmounts DEF OpenWizard
  <2>4. CASE ActionCreateSupplierInvoice(e)
    BY <2>4, MoveCreateAmounts, UnwrittenAmounts DEF ActionCreateSupplierInvoice
  <2>5. CASE RefuseToDone(e)
    BY <2>5, MoveCreateAmounts DEF RefuseToDone
  <2> QED BY <2>1, <2>2, <2>3, <2>4, <2>5
<1>2. CASE InvoiceStep
  BY <1>2, InvoiceStepAmounts DEF InvoiceStep
<1>3. CASE ReturnStep
  BY <1>3, ReturnDoes DEF ReturnStep
<1>4. CASE UNCHANGED expensesVars
  BY <1>4, UnwrittenAmounts DEF expensesVars
<1> QED BY <1>1, <1>2, <1>3, <1>4 DEF ExpensesNext

\* The types of expenses, of invoices and of the stored balance, for any amounts.
THEOREM ExpensesTypeCorrect == ExpensesSpec => []ExpensesTypeOK
<1>1. ExpensesInit => ExpensesInv /\ Amounts
  BY InitInv, InitAmounts
<1>2. ExpensesInv /\ Amounts /\ [ExpensesNext]_expensesVars => (ExpensesInv /\ Amounts)'
  BY StepInv, StepAmounts
<1>3. ExpensesInv /\ Amounts => ExpensesTypeOK
  <2> SUFFICES ASSUME ExpensesInv, Amounts PROVE ExpensesTypeOK
    OBVIOUS
  <2>1. PICK T : invoice \in InvoiceTable(T)
    BY DEF ExpensesInv, Typed
  <2>2. \A i \in Invoice : invoice[i] \in InvoiceRow
    <3> TAKE i \in Invoice
    <3>1. invoice[i] \in [type : {"none", "expense", "return"},
                          state : {"draft", "open", "paid", "cancel"},
                          expense : Expense \cup {NoExpense}, advance : Advance \cup {NoExpense},
                          total : T, cleared : T]
      BY <2>1 DEF InvoiceTable
    <3>2. invoice[i].total \in Int /\ invoice[i].cleared \in Int
      BY DEF Amounts
    <3> QED BY <3>1, <3>2 DEF InvoiceRow
  <2>3. invoice \in [Invoice -> InvoiceRow]
    BY <2>1, <2>2 DEF InvoiceTable
  <2> QED BY <2>3 DEF ExpensesInv, Typed, Amounts, ExpensesTypeOK
<1> QED BY <1>1, <1>2, <1>3, PTL DEF ExpensesSpec

-----------------------------------------------------------------------------
(* The balance is up to date *)

\* The balance of a is recomputed, from what was paid before the step ...
Fresh(a) == balance'[a] = AmountToClearing(a, expense', advanced, invoice')

\* ... or nothing that it is computed from changes.
Untouched(a) ==
  /\ balance'[a] = balance[a]
  /\ advanced'[a] = advanced[a]
  /\ expense'[a].invoice = expense[a].invoice
  /\ expense[a].invoice # NoInvoice =>
       invoice'[expense[a].invoice].state = invoice[expense[a].invoice].state
  /\ ClearingAmount(a, invoice') = ClearingAmount(a, invoice)

\* The statement of BalanceUpToDate for one advance
UpToDate(a) ==
  \/ balance[a] = AmountToClearing(a, expense, advanced, invoice)
  \/ expense[a].invoice # NoInvoice /\ invoice[expense[a].invoice].state = "open"
  \/ "revived" \in history[a]

LEMMA UpToDateStep ==
  ASSUME NEW a \in Advance, UpToDate(a), Remembered,
         (Fresh(a) /\ advanced'[a] = advanced[a]) \/ Untouched(a)
  PROVE  UpToDate(a)'
<1>1. history[a] \subseteq history'[a]
  BY DEF Remembered, Expense
<1>2. CASE Fresh(a) /\ advanced'[a] = advanced[a]
  BY <1>2 DEF Fresh, UpToDate, AmountToClearing
<1>3. CASE Untouched(a)
  BY <1>1, <1>3 DEF Untouched, UpToDate, AmountToClearing
<1> QED BY <1>2, <1>3

\* A step that writes invoice i, seen from an advance that does not depend on it
LEMMA OtherKept ==
  ASSUME ExpensesInv, NEW i \in Invoice, NEW a \in Advance, a \notin DependOn(i, expense, invoice),
         \A k \in Invoice : k # i => invoice'[k] = invoice[k],
         invoice'[i].type = "none" \/ invoice'[i].advance = invoice[i].advance,
         expense'[a].invoice = expense[a].invoice, advanced'[a] = advanced[a],
         balance'[a] = balance[a]
  PROVE  Untouched(a)
<1>1. expense[a].invoice # i /\ invoice[i].advance # a
  BY DEF DependOn
<1>2. expense[a].invoice \in Invoice \cup {NoInvoice}
  BY DEF ExpensesInv, Typed, ExpenseRow, Expense
<1>3. \A k \in Invoice : /\ Counts(k, a, invoice) <=> Counts(k, a, invoice')
                         /\ Counts(k, a, invoice) => invoice[k].cleared = invoice'[k].cleared
  BY <1>1 DEF Counts
<1>4. ClearingAmount(a, invoice') = ClearingAmount(a, invoice)
  BY <1>3, ClearingSame
<1> QED BY <1>1, <1>2, <1>4 DEF Untouched

\* A step that writes no invoice, or a new one
LEMMA NewRowKept ==
  ASSUME ExpensesInv, NEW a \in Advance,
         invoice' = invoice \/ \E i \in Invoice : NewRow(i)
  PROVE  /\ ClearingAmount(a, invoice') = ClearingAmount(a, invoice)
         /\ expense[a].invoice # NoInvoice =>
              invoice'[expense[a].invoice].state = invoice[expense[a].invoice].state
<1>1. CASE invoice' = invoice
  BY <1>1
<1>2. ASSUME NEW i \in Invoice, NewRow(i)
      PROVE  /\ ClearingAmount(a, invoice') = ClearingAmount(a, invoice)
             /\ expense[a].invoice # NoInvoice =>
                  invoice'[expense[a].invoice].state = invoice[expense[a].invoice].state
  <2>1. \A k \in Invoice : /\ Counts(k, a, invoice) <=> Counts(k, a, invoice')
                           /\ Counts(k, a, invoice) => invoice[k].cleared = invoice'[k].cleared
    BY <1>2 DEF NewRow, Counts, Booked
  <2>2. ClearingAmount(a, invoice') = ClearingAmount(a, invoice)
    BY <2>1, ClearingSame
  <2>3. expense[a].invoice # NoInvoice => expense[a].invoice \in Invoice /\ expense[a].invoice # i
    BY <1>2 DEF NewRow, ExpensesInv, Typed, ExpenseRow, Expense, Linked
  <2> QED BY <1>2, <2>2, <2>3 DEF NewRow
<1> QED BY <1>1, <1>2

LEMMA ExpenseFresh ==
  ASSUME ExpensesInv, Amounts, NEW e \in Expense, NEW a \in Advance,
         \/ \E amount \in 0 .. MaxAmount : ExpenseConfirm(e, amount)
         \/ ExpenseAccept(e) \/ ExpenseRefuse(e)
  PROVE  /\ Fresh(a) \/ Untouched(a)
         /\ advanced' = advanced /\ invoice' = invoice /\ Remembered
         /\ expense'[a].invoice = expense[a].invoice
<1>1. /\ balance' = Recomputed({b \in Advance : b = e \/ expense'[e].advance = b}, expense',
                               advanced, invoice)
      /\ UNCHANGED <<advanced, invoice, history>>
  BY DEF ExpenseConfirm, ExpenseAccept, ExpenseRefuse, BalanceAfter
<1>2. /\ \A x \in Expense : x # e => expense'[x] = expense[x]
      /\ expense'[e].invoice = expense[e].invoice
  BY ExpenseConfirmAmounts, ExpenseAmounts
<1>3. Remembered
  BY <1>1 DEF Remembered, ExpensesInv, Typed
<1>5. a \in Expense
  BY DEF Expense
<1>6. CASE a = e \/ expense'[e].advance = a
  BY <1>1, <1>2, <1>3, <1>5, <1>6, RecomputedAt DEF Fresh
<1>7. CASE ~(a = e \/ expense'[e].advance = a)
  <2>1. balance'[a] = balance[a]
    BY <1>1, <1>7, RecomputedAt
  <2> QED BY <1>1, <1>2, <1>3, <1>5, <1>7, <2>1 DEF Untouched
<1> QED BY <1>6, <1>7

LEMMA MoveCreateFresh ==
  ASSUME ExpensesInv, Amounts, NEW e \in Expense, expense[e].state \in {"accepted", "cancelled"},
         ActionMoveCreate(e), NEW a \in Advance
  PROVE  Fresh(a) \/ Untouched(a)
<1>1. /\ balance' = Recomputed({b \in Advance : b = e \/ b = expense[e].advance}, expense',
                               advanced, invoice')
      /\ advanced' = advanced
  BY DEF ActionMoveCreate
<1>2. CASE a = e \/ a = expense[e].advance
  BY <1>1, <1>2, RecomputedAt DEF Fresh
<1>3. CASE ~(a = e \/ a = expense[e].advance)
  <2>1. balance'[a] = balance[a]
    BY <1>1, <1>3, RecomputedAt
  <2>2. expense'[a] = expense[a]
    BY <1>3, ActionMoveCreateDoes DEF Expense
  <2>3. invoice' = invoice \/ \E i \in Invoice : NewRow(i)
    BY ActionMoveCreateDoes
  <2>4. /\ ClearingAmount(a, invoice') = ClearingAmount(a, invoice)
        /\ expense[a].invoice # NoInvoice =>
             invoice'[expense[a].invoice].state = invoice[expense[a].invoice].state
    BY <2>3, NewRowKept
  <2> QED BY <1>1, <2>1, <2>2, <2>4 DEF Untouched
<1> QED BY <1>2, <1>3

LEMMA ReturnFresh ==
  ASSUME ExpensesInv, Amounts, NEW b \in Advance, NEW amount \in 1 .. MaxAmount, Return(b, amount),
         NEW a \in Advance
  PROVE  Fresh(a) \/ Untouched(a)
<1>1. /\ balance' = Recomputed({b}, expense, advanced, invoice')
      /\ advanced' = advanced /\ expense' = expense
  BY DEF Return
<1>2. CASE a = b
  BY <1>1, <1>2, RecomputedAt DEF Fresh
<1>3. CASE a # b
  <2>1. balance'[a] = balance[a]
    BY <1>1, <1>3, RecomputedAt
  <2>2. \E i \in Invoice : NewRow(i)
    BY ReturnDoes
  <2>3. /\ ClearingAmount(a, invoice') = ClearingAmount(a, invoice)
        /\ expense[a].invoice # NoInvoice =>
             invoice'[expense[a].invoice].state = invoice[expense[a].invoice].state
    BY <2>2, NewRowKept
  <2> QED BY <1>1, <2>1, <2>3 DEF Untouched
<1> QED BY <1>2, <1>3

\* A step that writes an invoice which exists
LEMMA WrittenFresh ==
  ASSUME ExpensesInv, Amounts, NEW i \in Invoice, NEW a \in Advance, NEW S,
         DependOn(i, expense, invoice) \subseteq S,
         NEW exp, exp = expense',
         balance' = Recomputed(S, exp, advanced, invoice'),
         \A k \in Invoice : k # i => invoice'[k] = invoice[k],
         invoice'[i].type = "none" \/ invoice'[i].advance = invoice[i].advance,
         a \notin S => expense'[a].invoice = expense[a].invoice /\ advanced'[a] = advanced[a]
  PROVE  IF a \in S THEN Fresh(a) ELSE Untouched(a)
<1>1. CASE a \in S
  BY <1>1, RecomputedAt DEF Fresh
<1>2. CASE a \notin S
  <2>1. balance'[a] = balance[a]
    BY <1>2, RecomputedAt
  <2> QED BY <1>2, <2>1, OtherKept
<1> QED BY <1>1, <1>2

\* A validated invoice of an advance writes amount_advanced after the balance.
LEMMA ValidateFresh ==
  ASSUME ExpensesInv, Amounts, NEW i \in Invoice, NEW a \in Advance,
         NEW total \in 0 .. MaxAmount, InvoiceValidate(i, total)
  PROVE  /\ Remembered
         /\ invoice[i].expense # a => Fresh(a) \/ Untouched(a)
         /\ advanced'[a] = IF invoice[i].expense = a THEN total ELSE advanced[a]
         /\ invoice[i].expense = a /\ "revived" \notin history[a] =>
              /\ Fresh(a)
              /\ expense[a].invoice = i /\ expense'[a].invoice = i /\ invoice'[i].state = "open"
<1>1. /\ \A k \in Invoice : k # i => invoice'[k] = invoice[k]
      /\ invoice'[i].advance = invoice[i].advance
      /\ invoice[i].expense \in Advance => invoice'[i].state = "open"
      /\ invoice[i].state = "draft"
      /\ \A x \in Expense : expense'[x].invoice = expense[x].invoice
      /\ balance' = Recomputed(DependOn(i, expense, invoice), expense', advanced, invoice')
      /\ advanced'[a] = IF invoice[i].expense = a THEN total ELSE advanced[a]
      /\ history' = history
  BY InvoiceValidateDoes DEF Revalued
<1>2. Remembered
  BY <1>1 DEF Remembered, ExpensesInv, Typed
<1>3. a \in Expense
  BY DEF Expense
<1>4. CASE invoice[i].expense # a
  <2>1. IF a \in DependOn(i, expense, invoice) THEN Fresh(a) ELSE Untouched(a)
    BY <1>1, <1>3, <1>4, WrittenFresh
  <2> QED BY <1>1, <1>2, <1>4, <2>1
<1>5. CASE invoice[i].expense = a /\ "revived" \notin history[a]
  <2>1. expense[a].invoice = i
    BY <1>1, <1>3, <1>5 DEF ExpensesInv, Live
  <2>2. a \in DependOn(i, expense, invoice)
    BY <2>1 DEF DependOn
  <2>3. IF a \in DependOn(i, expense, invoice) THEN Fresh(a) ELSE Untouched(a)
    BY <1>1, <1>3, <2>2, WrittenFresh
  <2> QED BY <1>1, <1>2, <1>3, <1>5, <2>1, <2>2, <2>3
<1> QED BY <1>1, <1>2, <1>4, <1>5

LEMMA InvoiceStepFresh ==
  ASSUME ExpensesInv, Amounts, NEW i \in Invoice, NEW a \in Advance,
         Pay(i) \/ Reopen(i) \/ ActionCancel(i) \/ ResetToDraft(i) \/ Delete(i)
  PROVE  /\ Remembered /\ advanced' = advanced
         /\ IF a \in DependOn(i, expense, invoice) THEN Fresh(a) ELSE Fresh(a) \/ Untouched(a)
<1>0. a \in Expense
  BY DEF Expense
<1>1. CASE Pay(i)
  <2>1. /\ Remembered
        /\ \A k \in Invoice : k # i => invoice'[k] = invoice[k]
        /\ invoice'[i].advance = invoice[i].advance
        /\ \A x \in Expense : expense'[x].invoice = expense[x].invoice
    BY <1>1, PayDoes DEF Revalued, Remembered, Pay, ExpensesInv, Typed
  <2>2. /\ balance' = Recomputed(DependOn(i, expense, invoice), expense', advanced, invoice')
        /\ advanced' = advanced
    BY <1>1 DEF Pay
  <2> QED BY <1>0, <2>1, <2>2, WrittenFresh
<1>2. CASE Reopen(i)
  <2>1. /\ Remembered
        /\ \A k \in Invoice : k # i => invoice'[k] = invoice[k]
        /\ invoice'[i].advance = invoice[i].advance
    BY <1>2, ReopenDoes DEF Revalued
  <2>2. /\ balance' = Recomputed(DependOn(i, expense, invoice), expense, advanced, invoice')
        /\ advanced' = advanced /\ expense = expense'
    BY <1>2 DEF Reopen
  <2> QED BY <2>1, <2>2, WrittenFresh
<1>3. CASE ActionCancel(i)
  <2> DEFINE S == DependOn(i, expense, invoice) \cup ({invoice[i].expense} \cap Advance)
  <2>1. /\ Remembered
        /\ \A k \in Invoice : k # i => invoice'[k] = invoice[k]
        /\ invoice'[i].advance = invoice[i].advance
        /\ \A x \in Expense : x # invoice[i].expense => expense'[x] = expense[x]
    BY <1>3, ActionCancelDoes DEF Revalued
  <2>2. /\ balance' = Recomputed(S, expense', advanced, invoice')
        /\ advanced' = advanced
    BY <1>3 DEF ActionCancel
  <2>3. a \notin S => expense'[a].invoice = expense[a].invoice /\ advanced'[a] = advanced[a]
    BY <1>0, <2>1, <2>2
  <2>4. DependOn(i, expense, invoice) \subseteq S
    OBVIOUS
  <2>5. IF a \in S THEN Fresh(a) ELSE Untouched(a)
    <3> HIDE DEF S
    <3> QED BY <2>1, <2>2, <2>3, <2>4, WrittenFresh
  <2> QED BY <2>1, <2>2, <2>4, <2>5
<1>4. CASE ResetToDraft(i)
  <2>1. /\ Remembered
        /\ \A k \in Invoice : k # i => invoice'[k] = invoice[k]
        /\ invoice'[i].advance = invoice[i].advance
    BY <1>4, ResetToDraftDoes DEF Revalued
  <2>2. /\ balance' = Recomputed(DependOn(i, expense, invoice), expense, advanced, invoice')
        /\ advanced' = advanced /\ expense = expense'
    BY <1>4 DEF ResetToDraft
  <2> QED BY <2>1, <2>2, WrittenFresh
<1>5. CASE Delete(i)
  <2>1. /\ Remembered
        /\ \A k \in Invoice : k # i => invoice'[k] = invoice[k]
        /\ invoice'[i].type = "none"
        /\ \A x \in Expense : expense'[x].invoice =
                                IF expense[x].invoice = i THEN NoInvoice ELSE expense[x].invoice
    BY <1>5, DeleteDoes DEF NoRow
  <2>2. /\ balance' = Recomputed(DependOn(i, expense, invoice), expense', advanced, invoice')
        /\ advanced' = advanced
    BY <1>5 DEF Delete
  <2>3. a \notin DependOn(i, expense, invoice) =>
          expense'[a].invoice = expense[a].invoice /\ advanced'[a] = advanced[a]
    BY <1>0, <2>1, <2>2 DEF DependOn
  <2> QED BY <2>1, <2>2, <2>3, WrittenFresh
<1> QED BY <1>1, <1>2, <1>3, <1>4, <1>5

LEMMA UpToDateNext ==
  ASSUME ExpensesInv, Amounts, [ExpensesNext]_expensesVars, NEW a \in Advance, UpToDate(a)
  PROVE  UpToDate(a)'
<1>1. CASE ExpenseStep
  <2> PICK e \in Expense :
        \/ \E amount \in 0 .. MaxAmount : ExpenseConfirm(e, amount)
        \/ ExpenseAccept(e)
        \/ ExpenseRefuse(e)
        \/ OpenWizard(e)
        \/ ActionCreateSupplierInvoice(e)
        \/ RefuseToDone(e)
    BY <1>1 DEF ExpenseStep
  <2>1. CASE \/ \E amount \in 0 .. MaxAmount : ExpenseConfirm(e, amount)
             \/ ExpenseAccept(e) \/ ExpenseRefuse(e)
    BY <2>1, ExpenseFresh, UpToDateStep
  <2>2. CASE UNCHANGED <<expense, advanced, balance, invoice, history>>
    BY <2>2 DEF UpToDate, AmountToClearing, ClearingAmount, Invoice
  <2>3. CASE ActionMoveCreate(e) /\ expense[e].state \in {"accepted", "cancelled"}
    <3>1. Remembered /\ advanced' = advanced
      BY <2>3, ActionMoveCreateDoes DEF ActionMoveCreate
    <3> QED BY <2>3, <3>1, MoveCreateFresh, UpToDateStep
  <2> QED BY <2>1, <2>2, <2>3 DEF OpenWizard, ActionCreateSupplierInvoice, RefuseToDone
<1>2. CASE InvoiceStep
  <2> PICK i \in Invoice :
        \/ \E total \in 0 .. MaxAmount : InvoiceValidate(i, total)
        \/ Pay(i) \/ Reopen(i) \/ ActionCancel(i) \/ ResetToDraft(i) \/ Delete(i)
    BY <1>2 DEF InvoiceStep
  <2>1. ASSUME NEW total \in 0 .. MaxAmount, InvoiceValidate(i, total) PROVE UpToDate(a)'
    <3>1. CASE invoice[i].expense # a
      BY <2>1, <3>1, ValidateFresh, UpToDateStep
    <3>2. CASE invoice[i].expense = a /\ "revived" \notin history[a]
      <4>1. expense'[a].invoice = i /\ invoice'[i].state = "open" /\ i # NoInvoice
        BY <2>1, <3>2, ValidateFresh, Constants
      <4> QED BY <4>1 DEF UpToDate
    <3>3. CASE "revived" \in history[a]
      <4>1. Remembered /\ a \in Expense
        BY <2>1, ValidateFresh DEF Expense
      <4> QED BY <3>3, <4>1 DEF UpToDate, Remembered
    <3> QED BY <3>1, <3>2, <3>3
  <2>2. CASE Pay(i) \/ Reopen(i) \/ ActionCancel(i) \/ ResetToDraft(i) \/ Delete(i)
    <3>1. Remembered /\ advanced' = advanced /\ (Fresh(a) \/ Untouched(a))
      BY <2>2, InvoiceStepFresh
    <3> QED BY <3>1, UpToDateStep
  <2> QED BY <2>1, <2>2
<1>3. CASE ReturnStep
  <2>1. PICK b \in Advance, amount \in 1 .. MaxAmount : Return(b, amount)
    BY <1>3 DEF ReturnStep
  <2>2. Remembered /\ advanced' = advanced
    BY <2>1, ReturnDoes DEF Return
  <2> QED BY <2>1, <2>2, ReturnFresh, UpToDateStep
<1>4. CASE UNCHANGED expensesVars
  BY <1>4 DEF UpToDate, AmountToClearing, ClearingAmount, Invoice, expensesVars
<1> QED BY <1>1, <1>2, <1>3, <1>4 DEF ExpensesNext

LEMMA NothingCleared == ExpensesInit => \A a \in Advance : ClearingAmount(a, invoice) = 0
<1> SUFFICES ASSUME ExpensesInit, NEW a \in Advance PROVE ClearingAmount(a, invoice) = 0
  OBVIOUS
<1>1. {i \in Invoice : Counts(i, a, invoice)} = {}
  BY DEF ExpensesInit, NoRow, Counts
<1> QED BY <1>1, SumEmpty, ClearingIs

\* The stored balance of an advance is right whenever it may be cleared
\* (_compute_amount_to_clearing, and the fields it depends on).
THEOREM BalanceUpToDateHolds == ExpensesSpec => []BalanceUpToDate
<1> DEFINE Balances == \A a \in Advance : UpToDate(a)
<1>1. ExpensesInit => ExpensesInv /\ Amounts /\ Balances
  <2> SUFFICES ASSUME ExpensesInit, NEW a \in Advance PROVE UpToDate(a)
    BY InitInv, InitAmounts
  <2>1. expense[a].invoice = NoInvoice /\ advanced[a] = 0 /\ balance[a] = 0
    BY DEF ExpensesInit, Expense
  <2> QED BY <2>1, NothingCleared DEF UpToDate, AmountToClearing
<1>2. ExpensesInv /\ Amounts /\ Balances /\ [ExpensesNext]_expensesVars =>
        (ExpensesInv /\ Amounts /\ Balances)'
  BY StepInv, StepAmounts, UpToDateNext
<1>3. Balances => BalanceUpToDate
  BY DEF UpToDate, BalanceUpToDate
<1> HIDE DEF Balances
<1> QED BY <1>1, <1>2, <1>3, PTL DEF ExpensesSpec

-----------------------------------------------------------------------------
(* No more is cleared than was paid *)

\* No old invoice of a came back, none that was paid out was canceled, and no
\* two documents were made at once.
Calm(a) == history[a] \subseteq {"deleted", "reopened"}

\* What is cleared, with what the one pending document will clear, was paid; the
\* balance promises no more than is left; nothing is paid before it is validated.
Pledged(a) ==
  /\ ClearingAmount(a, invoice) <= advanced[a]
  /\ balance[a] <= advanced[a] - ClearingAmount(a, invoice)
  /\ \A i, k \in Pending(a, invoice) : i = k
  /\ \A i \in Pending(a, invoice) :
       invoice[i].cleared > 0 => ClearingAmount(a, invoice) + invoice[i].cleared <= advanced[a]
  /\ (expense[a].invoice = NoInvoice \/ invoice[expense[a].invoice].state = "draft") =>
       advanced[a] = 0

\* What a step does to the documents of a: it drops some, ...
Dropped(a) ==
  /\ ClearingAmount(a, invoice') <= ClearingAmount(a, invoice)
  /\ \A k \in Pending(a, invoice') :
       k \in Pending(a, invoice) /\ invoice'[k].cleared = invoice[k].cleared

\* ... makes a pending one count, ...
Settled(a) ==
  \E i \in Pending(a, invoice) :
    /\ invoice[i].cleared > 0
    /\ ClearingAmount(a, invoice') = invoice[i].cleared + ClearingAmount(a, invoice)
    /\ \A k \in Pending(a, invoice') : k \in Pending(a, invoice) /\ k # i

\* ... or writes a first one, within what is left.
Began(a) ==
  \E i \in Invoice :
    /\ Pending(a, invoice) = {}
    /\ Pending(a, invoice') \subseteq {i}
    /\ ClearingAmount(a, invoice') = ClearingAmount(a, invoice)
    /\ invoice'[i].cleared > 0 =>
         ClearingAmount(a, invoice) + invoice'[i].cleared <= advanced[a]

LEMMA PledgedStep ==
  ASSUME NEW a \in Advance, Pledged(a), Amounts, Amounts', Fresh(a) \/ Untouched(a),
         Dropped(a) \/ Settled(a) \/ Began(a), advanced[a] <= advanced'[a],
         \/ expense'[a].invoice = NoInvoice
         \/ invoice'[expense'[a].invoice].state = "draft"
         => advanced'[a] = 0
  PROVE  Pledged(a)'
<1> DEFINE C == ClearingAmount(a, invoice)
           D == ClearingAmount(a, invoice')
<1>1. C \in Int /\ D \in Int
  BY ClearingType DEF Amounts
<1>2. /\ advanced[a] \in Nat /\ advanced'[a] \in Nat /\ balance[a] \in Int /\ balance'[a] \in Int
      /\ \A i \in Invoice : invoice[i].cleared \in Int /\ invoice'[i].cleared \in Int
  BY ExpensesAssumption DEF Amounts
<1>3. Pending(a, invoice) \subseteq Invoice /\ Pending(a, invoice') \subseteq Invoice
  BY DEF Pending
<1>4. balance'[a] <= advanced'[a] - D
  <2>1. CASE Fresh(a)
    <3>1. balance'[a] = advanced[a] - D \/ balance'[a] = 0 - D
      BY <2>1 DEF Fresh, AmountToClearing
    <3> HIDE DEF D
    <3> QED BY <1>1, <1>2, <3>1
  <2>2. CASE Untouched(a)
    BY <2>2 DEF Untouched, Pledged
  <2> QED BY <2>1, <2>2
<1>5. /\ D <= advanced'[a]
      /\ \A i, k \in Pending(a, invoice') : i = k
      /\ \A i \in Pending(a, invoice') :
           invoice'[i].cleared > 0 => D + invoice'[i].cleared <= advanced'[a]
  <2>1. CASE Dropped(a)
    <3>1. D <= C /\ C <= advanced[a]
      BY <2>1 DEF Dropped, Pledged
    <3>2. \A i, k \in Pending(a, invoice') : i = k
      BY <2>1 DEF Dropped, Pledged
    <3>3. \A i \in Pending(a, invoice') :
            invoice'[i].cleared > 0 => C + invoice'[i].cleared <= advanced[a]
      BY <2>1 DEF Dropped, Pledged
    <3> HIDE DEF C, D
    <3> QED BY <1>1, <1>2, <1>3, <3>1, <3>2, <3>3
  <2>2. CASE Settled(a)
    <3>1. PICK i \in Pending(a, invoice) :
            /\ invoice[i].cleared > 0
            /\ D = invoice[i].cleared + C
            /\ \A k \in Pending(a, invoice') : k \in Pending(a, invoice) /\ k # i
      BY <2>2 DEF Settled
    <3>2. Pending(a, invoice') = {}
      BY <3>1 DEF Pledged
    <3>3. C + invoice[i].cleared <= advanced[a]
      BY <3>1 DEF Pledged
    <3> HIDE DEF C, D
    <3> QED BY <1>1, <1>2, <1>3, <3>1, <3>2, <3>3
  <2>3. CASE Began(a)
    <3>1. PICK i \in Invoice :
            /\ Pending(a, invoice') \subseteq {i}
            /\ D = C
            /\ invoice'[i].cleared > 0 => C + invoice'[i].cleared <= advanced[a]
      BY <2>3 DEF Began
    <3>2. C <= advanced[a]
      BY DEF Pledged
    <3> HIDE DEF C, D
    <3> QED BY <1>1, <1>2, <3>1, <3>2
  <2> QED BY <2>1, <2>2, <2>3
<1> QED BY <1>4, <1>5 DEF Pledged

\* Writing the state of an invoice, other than a draft again
LEMMA RevaluedDocuments ==
  ASSUME Amounts, NEW i \in Invoice, NEW s \in {"open", "paid", "cancel"}, Revalued(i, s),
         invoice[i].type # "none", invoice[i].state \in {"draft", "open", "paid"},
         NEW a \in Advance
  PROVE  Dropped(a) \/ Settled(a)
<1>1. \A k \in Invoice : invoice[k].cleared \in Int /\ invoice'[k].cleared \in Int
  BY DEF Amounts, Revalued
<1>2. ClearingAmount(a, invoice) \in Int /\ ClearingAmount(a, invoice') \in Int
  BY <1>1, ClearingType
<1>3. \A k \in Pending(a, invoice') :
        k \in Pending(a, invoice) /\ invoice'[k].cleared = invoice[k].cleared /\ k # i
  BY DEF Pending, Revalued
<1>4. \A k \in Invoice : k # i => invoice'[k] = invoice[k]
  BY DEF Revalued
<1>5. CASE Counts(i, a, invoice) <=> Counts(i, a, invoice')
  <2>1. \A k \in Invoice : /\ Counts(k, a, invoice) <=> Counts(k, a, invoice')
                           /\ Counts(k, a, invoice) => invoice[k].cleared = invoice'[k].cleared
    BY <1>4, <1>5 DEF Counts, Revalued
  <2>2. ClearingAmount(a, invoice) = ClearingAmount(a, invoice')
    BY <2>1, ClearingSame
  <2> QED BY <1>2, <1>3, <2>2 DEF Dropped
<1>6. CASE Counts(i, a, invoice) /\ ~Counts(i, a, invoice')
  <2>1. ClearingAmount(a, invoice) = invoice[i].cleared + ClearingAmount(a, invoice')
    BY <1>1, <1>4, <1>6, ClearingMore
  <2>2. invoice[i].cleared > 0
    BY <1>6 DEF Counts
  <2>3. ClearingAmount(a, invoice') <= ClearingAmount(a, invoice)
    BY <1>1, <1>2, <2>1, <2>2
  <2> QED BY <1>3, <2>3 DEF Dropped
<1>7. CASE ~Counts(i, a, invoice) /\ Counts(i, a, invoice')
  <2>1. ClearingAmount(a, invoice') = invoice'[i].cleared + ClearingAmount(a, invoice)
    BY <1>1, <1>4, <1>7, ClearingMore
  <2>2. invoice'[i].cleared = invoice[i].cleared /\ invoice[i].cleared > 0
    BY <1>7 DEF Counts, Revalued
  <2>3. i \in Pending(a, invoice)
    BY <1>7 DEF Counts, Revalued, Pending, Booked
  <2> QED BY <1>3, <2>1, <2>2, <2>3 DEF Settled
<1> QED BY <1>5, <1>6, <1>7

\* Writing an invoice that is another's document before and after
LEMMA OtherDocuments ==
  ASSUME Amounts, Amounts', NEW i \in Invoice, NEW a \in Advance,
         \A k \in Invoice : k # i => invoice'[k] = invoice[k],
         ~Counts(i, a, invoice), ~Counts(i, a, invoice'), i \notin Pending(a, invoice')
  PROVE  Dropped(a)
<1>1. \A k \in Invoice : /\ Counts(k, a, invoice) <=> Counts(k, a, invoice')
                         /\ Counts(k, a, invoice) => invoice[k].cleared = invoice'[k].cleared
  BY DEF Counts
<1>2. ClearingAmount(a, invoice) = ClearingAmount(a, invoice')
  BY <1>1, ClearingSame
<1>3. ClearingAmount(a, invoice) \in Int
  BY ClearingType DEF Amounts
<1>4. \A k \in Pending(a, invoice') :
        k \in Pending(a, invoice) /\ invoice'[k].cleared = invoice[k].cleared
  BY DEF Pending
<1> QED BY <1>2, <1>3, <1>4 DEF Dropped

LEMMA SameDocuments ==
  ASSUME Amounts, NEW a \in Advance, invoice' = invoice
  PROVE  Dropped(a)
<1>1. ClearingAmount(a, invoice) \in Int
  BY ClearingType DEF Amounts
<1>2. /\ ClearingAmount(a, invoice') = ClearingAmount(a, invoice)
      /\ Pending(a, invoice') = Pending(a, invoice)
  OBVIOUS
<1> QED BY <1>1, <1>2 DEF Dropped

\* A calm advance was calm before.
LEMMA CalmBefore ==
  ASSUME NEW a \in Advance, Remembered, Calm(a)'
  PROVE  Calm(a) /\ "revived" \notin history'[a] /\ "canceled" \notin history'[a]
         /\ "raced" \notin history'[a]
BY DEF Remembered, Calm, Expense

\* The own invoice of a, and where it points to
LEMMA OwnInvoice ==
  ASSUME ExpensesInv, NEW a \in Advance
  PROVE  /\ a \in Expense
         /\ expense[a].invoice \in Invoice \cup {NoInvoice}
         /\ \A i \in Invoice : expense[a].invoice = i =>
              invoice[i].expense = a /\ invoice[i].state # "cancel"
BY Constants DEF Expense, ExpensesInv, Typed, ExpenseRow, Linked

LEMMA NotLess == ASSUME Amounts, NEW a \in Advance PROVE advanced[a] \in Int /\ advanced[a] <= advanced[a]
BY DEF Amounts

LEMMA ExpensePledged ==
  ASSUME ExpensesInv, Amounts, Amounts', NEW e \in Expense, NEW a \in Advance, Pledged(a),
         \/ \E amount \in 0 .. MaxAmount : ExpenseConfirm(e, amount)
         \/ ExpenseAccept(e) \/ ExpenseRefuse(e)
  PROVE  Pledged(a)'
<1>1. /\ Fresh(a) \/ Untouched(a)
      /\ advanced' = advanced /\ invoice' = invoice
      /\ expense'[a].invoice = expense[a].invoice
  BY ExpenseFresh
<1>2. Dropped(a)
  BY <1>1, SameDocuments
<1>3. /\ expense'[a].invoice = NoInvoice \/ invoice'[expense'[a].invoice].state = "draft"
           => advanced'[a] = 0
      /\ advanced[a] <= advanced'[a]
  BY <1>1 DEF Pledged, Amounts
<1> QED BY <1>1, <1>2, <1>3, PledgedStep

\* A negative line takes no more than what is left of the advance.
LEMMA LineWithinBalance ==
  ASSUME ExpensesInv, Amounts, NEW e \in Expense, expense[e].state # "draft",
         NEW a \in Advance, expense[e].advance = a, Pledged(a), NegativeClearingLine(e) > 0
  PROVE  ClearingAmount(a, invoice) + NegativeClearingLine(e) <= advanced[a]
<1> DEFINE C == ClearingAmount(a, invoice)
           left == IF expense[a].invoice # NoInvoice THEN balance[a] ELSE advanced[a] - C
<1>1. C \in Int /\ balance[a] \in Int /\ advanced[a] \in Int /\ expense[e].amount \in Int
  BY ClearingType DEF Amounts, ExpensesInv, Typed, ExpenseRow
<1>2. left \in Int /\ left <= advanced[a] - C
  <2>1. balance[a] <= advanced[a] - C
    BY DEF Pledged
  <2> HIDE DEF C
  <2> QED BY <1>1, <2>1
<1>3. CASE e \in Clearing
  <2>1. NegativeClearingLine(e) = Lesser(expense[e].amount, left)
    BY <1>3 DEF NegativeClearingLine
  <2> HIDE DEF C, left
  <2>2. NegativeClearingLine(e) \in Int /\ NegativeClearingLine(e) <= left
    BY <1>1, <1>2, <2>1 DEF Lesser
  <2> QED BY <1>1, <1>2, <2>2 DEF C
<1>4. CASE e \notin Clearing
  BY <1>4 DEF NegativeClearingLine
<1> QED BY <1>3, <1>4

LEMMA MoveCreatePledged ==
  ASSUME ExpensesInv, Amounts, Amounts', NEW e \in Expense,
         expense[e].state \in {"accepted", "cancelled"}, ActionMoveCreate(e),
         NEW a \in Advance, Pledged(a), Calm(a)'
  PROVE  Pledged(a)'
<1>1. /\ Fresh(a) \/ Untouched(a)
      /\ advanced' = advanced /\ advanced[a] <= advanced'[a]
  BY MoveCreateFresh, NotLess DEF ActionMoveCreate
<1>2. CASE invoice' = invoice /\ expense'[e].invoice = expense[e].invoice
  <2>1. expense'[a].invoice = expense[a].invoice
    BY <1>2, ActionMoveCreateDoes, OwnInvoice
  <2>2. expense'[a].invoice = NoInvoice \/ invoice'[expense'[a].invoice].state = "draft"
          => advanced'[a] = 0
    BY <1>1, <1>2, <2>1 DEF Pledged
  <2> QED BY <1>1, <1>2, <2>2, SameDocuments, PledgedStep
<1>3. ASSUME NEW i \in Invoice, expense[e].invoice = NoInvoice,
             NewRow(i), invoice'[i] = SupplierInvoice(e), expense'[e].invoice = i
      PROVE  Pledged(a)'
  <2>1. expense'[a].invoice = NoInvoice \/ invoice'[expense'[a].invoice].state = "draft"
          => advanced'[a] = 0
    <3>1. CASE a = e
      BY <1>1, <1>3, <3>1 DEF Pledged
    <3>2. CASE a # e
      <4>1. expense'[a] = expense[a]
        BY <3>2, ActionMoveCreateDoes, OwnInvoice
      <4>2. expense[a].invoice # NoInvoice =>
              invoice'[expense[a].invoice].state = invoice[expense[a].invoice].state
        BY <1>3, NewRowKept
      <4> QED BY <1>1, <4>1, <4>2 DEF Pledged
    <3> QED BY <3>1, <3>2
  <2>2. /\ invoice'[i].advance = expense[e].advance
        /\ invoice'[i].cleared = NegativeClearingLine(e)
    BY <1>3 DEF SupplierInvoice
  <2>3. CASE expense[e].advance = a
    <3>1. Pending(a, invoice) = {}
      <4>1. Pending(a, invoice) # {} => history' = Happened(a, "raced")
        BY <1>3, <2>3, Constants DEF ActionMoveCreate
      <4>2. Pending(a, invoice) # {} => "raced" \in history'[a]
        BY <4>1, OwnInvoice DEF Happened, ExpensesInv, Typed
      <4> QED BY <4>2 DEF Calm
    <3>2. Pending(a, invoice') \subseteq {i}
      <4> SUFFICES ASSUME NEW k \in Pending(a, invoice'), k # i PROVE FALSE
        OBVIOUS
      <4>1. k \in Invoice /\ invoice'[k] = invoice[k]
        BY <1>3 DEF Pending, NewRow
      <4>2. k \in Pending(a, invoice)
        BY <4>1 DEF Pending
      <4> QED BY <3>1, <4>2
    <3>3. ClearingAmount(a, invoice') = ClearingAmount(a, invoice)
      BY <1>3, NewRowKept
    <3>4. NegativeClearingLine(e) > 0 =>
            ClearingAmount(a, invoice) + NegativeClearingLine(e) <= advanced[a]
      BY <2>3, LineWithinBalance
    <3>5. Began(a)
      BY <2>2, <3>1, <3>2, <3>3, <3>4 DEF Began
    <3> QED BY <1>1, <2>1, <3>5, PledgedStep
  <2>4. CASE expense[e].advance # a
    <3>1. Dropped(a)
      <4>1. ~Counts(i, a, invoice) /\ ~Counts(i, a, invoice') /\ i \notin Pending(a, invoice')
        BY <1>3, <2>2, <2>4 DEF Counts, Pending, NewRow
      <4> QED BY <1>3, <4>1, OtherDocuments DEF NewRow
    <3> QED BY <1>1, <2>1, <3>1, PledgedStep
  <2> QED BY <2>3, <2>4
<1> QED BY <1>2, <1>3, ActionMoveCreateDoes

LEMMA ReturnPledged ==
  ASSUME ExpensesInv, Amounts, Amounts', NEW b \in Advance, NEW amount \in 1 .. MaxAmount,
         Return(b, amount), NEW a \in Advance, Pledged(a), Calm(a)'
  PROVE  Pledged(a)'
<1>1. PICK i \in Invoice :
        NewRow(i) /\ invoice'[i].advance = b /\ invoice'[i].cleared = amount
  BY ReturnDoes
<1>2. /\ Fresh(a) \/ Untouched(a)
      /\ advanced' = advanced /\ advanced[a] <= advanced'[a] /\ expense' = expense
  BY ReturnFresh, NotLess DEF Return
<1>3. /\ ClearingAmount(a, invoice') = ClearingAmount(a, invoice)
      /\ expense[a].invoice # NoInvoice =>
           invoice'[expense[a].invoice].state = invoice[expense[a].invoice].state
  BY <1>1, NewRowKept
<1>4. expense'[a].invoice = NoInvoice \/ invoice'[expense'[a].invoice].state = "draft"
        => advanced'[a] = 0
  BY <1>2, <1>3 DEF Pledged
<1>5. CASE a = b
  <2>1. Pending(a, invoice) = {} /\ ~(amount > balance[a])
    <3>1. Pending(a, invoice) # {} \/ amount > balance[a] => history' = Happened(a, "raced")
      BY <1>5 DEF Return
    <3>2. Pending(a, invoice) # {} \/ amount > balance[a] => "raced" \in history'[a]
      BY <3>1, OwnInvoice DEF Happened, ExpensesInv, Typed
    <3> QED BY <3>2 DEF Calm
  <2>2. Pending(a, invoice') \subseteq {i}
    <3> SUFFICES ASSUME NEW k \in Pending(a, invoice'), k # i PROVE FALSE
      OBVIOUS
    <3>1. k \in Invoice /\ invoice'[k] = invoice[k]
      BY <1>1 DEF Pending, NewRow
    <3>2. k \in Pending(a, invoice)
      BY <3>1 DEF Pending
    <3> QED BY <2>1, <3>2
  <2>3. ClearingAmount(a, invoice) + amount <= advanced[a]
    <3>1. balance[a] <= advanced[a] - ClearingAmount(a, invoice)
      BY DEF Pledged
    <3>2. balance[a] \in Int /\ advanced[a] \in Int /\ ClearingAmount(a, invoice) \in Int
      BY ClearingType DEF Amounts
    <3> QED BY <2>1, <3>1, <3>2
  <2>4. Began(a)
    BY <1>1, <1>3, <2>1, <2>2, <2>3 DEF Began
  <2> QED BY <1>2, <1>4, <2>4, PledgedStep
<1>6. CASE a # b
  <2>1. Dropped(a)
    <3>1. ~Counts(i, a, invoice) /\ ~Counts(i, a, invoice') /\ i \notin Pending(a, invoice')
      BY <1>1, <1>6 DEF Counts, Pending, NewRow
    <3> QED BY <1>1, <3>1, OtherDocuments DEF NewRow
  <2> QED BY <1>2, <1>4, <2>1, PledgedStep
<1> QED BY <1>5, <1>6

LEMMA ValidatePledged ==
  ASSUME ExpensesInv, Amounts, Amounts', NEW i \in Invoice, NEW total \in 0 .. MaxAmount,
         InvoiceValidate(i, total), NEW a \in Advance, Pledged(a), Calm(a)'
  PROVE  Pledged(a)'
<1>1. /\ \E s \in {"open", "paid"} : Revalued(i, s)
      /\ invoice[i].type # "none" /\ invoice[i].state = "draft"
      /\ \A x \in Expense : expense'[x].invoice = expense[x].invoice
  BY InvoiceValidateDoes
<1>2. Dropped(a) \/ Settled(a)
  BY <1>1, RevaluedDocuments
<1>3. "revived" \notin history[a]
  BY ValidateFresh, CalmBefore DEF Calm
<1>4. CASE invoice[i].expense = a
  <2>1. /\ Fresh(a) /\ advanced'[a] = total /\ expense[a].invoice = i
        /\ expense'[a].invoice = i /\ invoice'[i].state = "open"
    BY <1>3, <1>4, ValidateFresh
  <2>2. advanced[a] = 0
    BY <1>1, <2>1 DEF Pledged
  <2>3. advanced[a] <= advanced'[a]
    BY <2>1, <2>2
  <2> QED BY <1>2, <2>1, <2>3, Constants, PledgedStep
<1>5. CASE invoice[i].expense # a
  <2>1. /\ Fresh(a) \/ Untouched(a)
        /\ advanced'[a] = advanced[a] /\ advanced[a] <= advanced'[a]
    BY <1>5, ValidateFresh, NotLess
  <2>2. expense[a].invoice # i /\ expense'[a].invoice = expense[a].invoice
    BY <1>1, <1>5, OwnInvoice
  <2>3. expense[a].invoice # NoInvoice => invoice'[expense[a].invoice] = invoice[expense[a].invoice]
    BY <1>1, <2>2, OwnInvoice DEF Revalued
  <2>4. expense'[a].invoice = NoInvoice \/ invoice'[expense'[a].invoice].state = "draft"
          => advanced'[a] = 0
    BY <2>1, <2>2, <2>3 DEF Pledged
  <2> QED BY <1>2, <2>1, <2>4, PledgedStep
<1> QED BY <1>4, <1>5

LEMMA PayPledged ==
  ASSUME ExpensesInv, Amounts, Amounts', NEW i \in Invoice, Pay(i) \/ Reopen(i),
         NEW a \in Advance, Pledged(a)
  PROVE  Pledged(a)'
<1>1. /\ advanced' = advanced /\ advanced[a] <= advanced'[a]
      /\ Fresh(a) \/ Untouched(a)
  BY InvoiceStepFresh, NotLess
<1>2. PICK s \in {"open", "paid"} : Revalued(i, s)
  BY PayDoes, ReopenDoes
<1>3. /\ invoice[i].type # "none" /\ invoice[i].state \in {"open", "paid"}
      /\ expense'[a].invoice = expense[a].invoice
  <2>1. CASE Pay(i)
    BY <2>1, PayDoes, OwnInvoice DEF Pay
  <2>2. CASE Reopen(i)
    BY <2>2 DEF Reopen, ExpensesInv, Sorted
  <2> QED BY <2>1, <2>2
<1>4. Dropped(a) \/ Settled(a)
  BY <1>2, <1>3, RevaluedDocuments
<1>5. expense'[a].invoice = NoInvoice \/ invoice'[expense'[a].invoice].state = "draft"
        => advanced'[a] = 0
  <2>1. CASE expense[a].invoice = i
    BY <1>2, <1>3, <2>1, Constants DEF Revalued
  <2>2. CASE expense[a].invoice # i
    <3>1. expense[a].invoice # NoInvoice =>
            invoice'[expense[a].invoice] = invoice[expense[a].invoice]
      BY <1>2, <2>2, OwnInvoice DEF Revalued
    <3> QED BY <1>1, <1>3, <3>1 DEF Pledged
  <2> QED BY <2>1, <2>2
<1> QED BY <1>1, <1>4, <1>5, PledgedStep

LEMMA CancelPledged ==
  ASSUME ExpensesInv, Amounts, Amounts', NEW i \in Invoice, ActionCancel(i),
         NEW a \in Advance, Pledged(a), Calm(a)'
  PROVE  Pledged(a)'
<1>1. /\ advanced' = advanced /\ advanced[a] <= advanced'[a]
      /\ Fresh(a) \/ Untouched(a)
  BY InvoiceStepFresh, NotLess
<1>2. /\ Revalued(i, "cancel") /\ Remembered
      /\ invoice[i].type # "none" /\ invoice[i].state \in {"draft", "open"}
      /\ \A x \in Expense : x # invoice[i].expense => expense'[x] = expense[x]
      /\ \A x \in Expense : x = invoice[i].expense => expense'[x].invoice = NoInvoice
  BY ActionCancelDoes DEF ActionCancel
<1>3. Dropped(a) \/ Settled(a)
  BY <1>2, RevaluedDocuments
<1>4. expense'[a].invoice = NoInvoice \/ invoice'[expense'[a].invoice].state = "draft"
        => advanced'[a] = 0
  <2>1. CASE invoice[i].expense = a
    <3>1. "revived" \notin history[a] /\ "canceled" \notin history'[a]
      BY <1>2, CalmBefore DEF Calm
    <3>2. expense[a].invoice = i
      BY <1>2, <2>1, <3>1, OwnInvoice DEF ExpensesInv, Live
    <3>3. invoice[i].state # "open"
      <4>1. invoice[i].state = "open" => history' = Happened(a, "canceled")
        BY <2>1 DEF ActionCancel
      <4>2. invoice[i].state = "open" => "canceled" \in history'[a]
        BY <4>1, OwnInvoice DEF Happened, ExpensesInv, Typed
      <4> QED BY <3>1, <4>2
    <3> QED BY <1>1, <1>2, <3>2, <3>3 DEF Pledged
  <2>2. CASE invoice[i].expense # a
    <3>1. expense'[a] = expense[a] /\ expense[a].invoice # i
      BY <1>2, <2>2, OwnInvoice
    <3>2. expense[a].invoice # NoInvoice =>
            invoice'[expense[a].invoice] = invoice[expense[a].invoice]
      BY <1>2, <3>1, OwnInvoice DEF Revalued
    <3> QED BY <1>1, <3>1, <3>2 DEF Pledged
  <2> QED BY <2>1, <2>2
<1> QED BY <1>1, <1>3, <1>4, PledgedStep

LEMMA ResetPledged ==
  ASSUME ExpensesInv, Amounts, Amounts', NEW i \in Invoice, ResetToDraft(i),
         NEW a \in Advance, Pledged(a), Calm(a)'
  PROVE  Pledged(a)'
<1>1. /\ advanced' = advanced /\ advanced[a] <= advanced'[a]
      /\ Fresh(a) \/ Untouched(a)
  BY InvoiceStepFresh, NotLess
<1>2. /\ Revalued(i, "draft") /\ invoice[i].state = "cancel" /\ expense' = expense
      /\ invoice[i].advance # a
  BY ResetToDraftDoes, OwnInvoice DEF ResetToDraft, Calm
<1>3. Dropped(a)
  <2>1. ~Counts(i, a, invoice) /\ ~Counts(i, a, invoice') /\ i \notin Pending(a, invoice')
    BY <1>2 DEF Counts, Pending, Revalued
  <2> QED BY <1>2, <2>1, OtherDocuments DEF Revalued
<1>4. expense[a].invoice # NoInvoice => invoice'[expense[a].invoice] = invoice[expense[a].invoice]
  BY <1>2, OwnInvoice DEF Revalued
<1>5. expense'[a].invoice = NoInvoice \/ invoice'[expense'[a].invoice].state = "draft"
        => advanced'[a] = 0
  BY <1>1, <1>2, <1>4 DEF Pledged
<1> QED BY <1>1, <1>3, <1>5, PledgedStep

LEMMA DeletePledged ==
  ASSUME ExpensesInv, Amounts, Amounts', NEW i \in Invoice, Delete(i),
         NEW a \in Advance, Pledged(a)
  PROVE  Pledged(a)'
<1>1. /\ advanced' = advanced /\ advanced[a] <= advanced'[a]
      /\ Fresh(a) \/ Untouched(a)
  BY InvoiceStepFresh, NotLess
<1>2. /\ invoice'[i] = NoRow /\ \A k \in Invoice : k # i => invoice'[k] = invoice[k]
      /\ invoice[i].state = "draft"
      /\ expense'[a].invoice = IF expense[a].invoice = i THEN NoInvoice ELSE expense[a].invoice
  BY DeleteDoes, OwnInvoice DEF Delete
<1>3. Dropped(a)
  <2>1. ~Counts(i, a, invoice) /\ ~Counts(i, a, invoice') /\ i \notin Pending(a, invoice')
    BY <1>2 DEF Counts, Pending, NoRow, Booked
  <2> QED BY <1>2, <2>1, OtherDocuments
<1>4. expense'[a].invoice = NoInvoice \/ invoice'[expense'[a].invoice].state = "draft"
        => advanced'[a] = 0
  <2>1. CASE expense[a].invoice = i
    BY <1>1, <1>2, <2>1 DEF Pledged
  <2>2. CASE expense[a].invoice # i
    <3>1. expense[a].invoice # NoInvoice =>
            invoice'[expense[a].invoice] = invoice[expense[a].invoice]
      BY <1>2, <2>2, OwnInvoice
    <3> QED BY <1>1, <1>2, <2>2, <3>1 DEF Pledged
  <2> QED BY <2>1, <2>2
<1> QED BY <1>1, <1>3, <1>4, PledgedStep

Covered == \A a \in Advance : Calm(a) => Pledged(a)

LEMMA CoveredNext ==
  ASSUME ExpensesInv, Amounts, Amounts', Covered, [ExpensesNext]_expensesVars
  PROVE  Covered'
<1> SUFFICES ASSUME NEW a \in Advance, Calm(a)' PROVE Pledged(a)'
  BY DEF Covered, Calm, Pledged
<1>1. CASE ExpenseStep
  <2> PICK e \in Expense :
        \/ \E amount \in 0 .. MaxAmount : ExpenseConfirm(e, amount)
        \/ ExpenseAccept(e)
        \/ ExpenseRefuse(e)
        \/ OpenWizard(e)
        \/ ActionCreateSupplierInvoice(e)
        \/ RefuseToDone(e)
    BY <1>1 DEF ExpenseStep
  <2>1. CASE \/ \E amount \in 0 .. MaxAmount : ExpenseConfirm(e, amount)
             \/ ExpenseAccept(e) \/ ExpenseRefuse(e)
    <3>1. Pledged(a)
      BY <2>1, ExpenseFresh, CalmBefore DEF Covered
    <3> QED BY <2>1, <3>1, ExpensePledged
  <2>2. CASE UNCHANGED <<expense, advanced, balance, invoice, history>>
    <3>1. Covered /\ UNCHANGED <<expense, advanced, balance, invoice, history>>
      BY <2>2
    <3>2. ClearingAmount(a, invoice)' = ClearingAmount(a, invoice)
          /\ Pending(a, invoice)' = Pending(a, invoice)
      BY <3>1 DEF ClearingAmount, Pending, Invoice
    <3> QED BY <3>1, <3>2 DEF Covered, Calm, Pledged
  <2>3. CASE ActionMoveCreate(e) /\ expense[e].state \in {"accepted", "cancelled"}
    <3>1. Pledged(a)
      BY <2>3, ActionMoveCreateDoes, CalmBefore DEF Covered
    <3> QED BY <2>3, <3>1, MoveCreatePledged
  <2> QED BY <2>1, <2>2, <2>3 DEF OpenWizard, ActionCreateSupplierInvoice, RefuseToDone
<1>2. CASE InvoiceStep
  <2> PICK i \in Invoice :
        \/ \E total \in 0 .. MaxAmount : InvoiceValidate(i, total)
        \/ Pay(i) \/ Reopen(i) \/ ActionCancel(i) \/ ResetToDraft(i) \/ Delete(i)
    BY <1>2 DEF InvoiceStep
  <2>1. Pledged(a)
    BY ValidateFresh, InvoiceStepFresh, CalmBefore DEF Covered
  <2>2. ASSUME NEW total \in 0 .. MaxAmount, InvoiceValidate(i, total) PROVE Pledged(a)'
    BY <2>1, <2>2, ValidatePledged
  <2>3. CASE Pay(i) \/ Reopen(i)
    BY <2>1, <2>3, PayPledged
  <2>4. CASE ActionCancel(i)
    BY <2>1, <2>4, CancelPledged
  <2>5. CASE ResetToDraft(i)
    BY <2>1, <2>5, ResetPledged
  <2>6. CASE Delete(i)
    BY <2>1, <2>6, DeletePledged
  <2> QED BY <2>2, <2>3, <2>4, <2>5, <2>6
<1>3. CASE ReturnStep
  <2>1. PICK b \in Advance, amount \in 1 .. MaxAmount : Return(b, amount)
    BY <1>3 DEF ReturnStep
  <2>2. Pledged(a)
    BY <2>1, ReturnDoes, CalmBefore DEF Covered
  <2> QED BY <2>1, <2>2, ReturnPledged
<1>4. CASE UNCHANGED expensesVars
  BY <1>4 DEF Covered, Calm, Pledged, Pending, ClearingAmount, Invoice, expensesVars
<1> QED BY <1>1, <1>2, <1>3, <1>4 DEF ExpensesNext

\* No more is cleared of an advance than was paid, unless two documents were made
\* at once or what was paid came back (_create_negative_clearing_line).
THEOREM NotOverClearedHolds == ExpensesSpec => []NotOverCleared
<1>1. ExpensesInit => ExpensesInv /\ Amounts /\ Covered
  <2> SUFFICES ASSUME ExpensesInit, NEW a \in Advance PROVE Pledged(a)
    BY InitInv, InitAmounts DEF Covered
  <2>1. /\ expense[a].invoice = NoInvoice /\ advanced[a] = 0 /\ balance[a] = 0
        /\ Pending(a, invoice) = {}
    BY DEF ExpensesInit, Expense, Pending, NoRow
  <2> QED BY <2>1, NothingCleared DEF Pledged
<1>2. ExpensesInv /\ Amounts /\ Covered /\ [ExpensesNext]_expensesVars =>
        (ExpensesInv /\ Amounts /\ Covered)'
  BY StepInv, StepAmounts, CoveredNext
<1>3. Covered => NotOverCleared
  BY DEF Covered, Calm, Pledged, NotOverCleared
<1> QED BY <1>1, <1>2, <1>3, PTL DEF ExpensesSpec

-----------------------------------------------------------------------------
(* The plan of a sales order: what its steps do *)

LEMMA PlanConstants ==
  /\ NoLine \notin OrderLine
  /\ N \in Nat /\ OrderInvoiceBound \in Nat
  /\ Amount \subseteq Nat /\ Subtotal \in [OrderLine -> Nat]
  /\ Advance0 \in Slot /\ Advance0[1] = 0 /\ Advance0[2] = NoLine
  /\ \A s \in Slot : s[1] \in 0 .. N /\ s = <<s[1], s[2]>> /\ (s # Advance0 => s[2] \in OrderLine)
  /\ \A k \in 0 .. N, l \in OrderLine : <<k, l>> \in Slot /\ <<k, l>> # Advance0
BY PlanAssumption DEF Slot, Advance0

LEMMA MadeType == ASSUME PlanTypeOK PROVE made \in Nat /\ made <= OrderInvoiceBound
<1>1. made \in 0 .. OrderInvoiceBound
  BY DEF PlanTypeOK
<1> QED BY <1>1, PlanConstants

LEMMA PlanInitType == PlanInit => PlanTypeOK
<1> SUFFICES ASSUME PlanInit PROVE PlanTypeOK
  OBVIOUS
<1>1. plan \in [Slot -> PlanRow]
  BY DEF PlanInit, NoPlanRow, PlanRow
<1>2. invoices \in [1 .. made -> OrderInvoice] /\ made \in 0 .. OrderInvoiceBound
  BY PlanConstants DEF PlanInit
<1> QED BY <1>1, <1>2 DEF PlanInit, PlanTypeOK

\* What an invoice bills,
BillsSame(i) ==
  /\ invoices'[i].bills = invoices[i].bills
  /\ invoices'[i].advance <=> invoices[i].advance
  /\ invoices'[i].deducts = invoices[i].deducts

\* and the rows it is of
PlanSame(i) ==
  /\ invoices'[i].slots = invoices[i].slots
  /\ BillsSame(i)

LEMMA CanceledSame ==
  ASSUME PlanTypeOK, NEW S, OrderCanceled(S)
  PROVE  /\ PlanTypeOK'
         /\ made' = made /\ plan' = plan /\ bypass' = bypass /\ planHistory' = planHistory
         /\ \A i \in 1 .. made : PlanSame(i) /\ (Living(i)' => Living(i))
<1>1. ASSUME NEW i \in 1 .. made
      PROVE  invoices'[i] \in OrderInvoice /\ PlanSame(i) /\ (Living(i)' => Living(i))
  <2>1. invoices[i] \in OrderInvoice
    BY DEF PlanTypeOK
  <2>2. invoices'[i] = IF i \in S THEN [invoices[i] EXCEPT !.state = "cancel"] ELSE invoices[i]
    BY DEF OrderCanceled
  <2> DEFINE row == [invoices[i] EXCEPT !.state = "cancel"]
  <2>3. /\ row \in OrderInvoice /\ row.slots = invoices[i].slots /\ row.bills = invoices[i].bills
        /\ row.advance = invoices[i].advance /\ row.deducts = invoices[i].deducts
        /\ row.state = "cancel"
    BY <2>1 DEF OrderInvoice
  <2> HIDE DEF row
  <2> QED BY <2>1, <2>2, <2>3 DEF PlanSame, BillsSame, Living, row
<1>2. invoices' \in [1 .. made -> OrderInvoice]
  BY <1>1 DEF OrderCanceled
<1>3. PlanTypeOK'
  BY <1>2 DEF OrderCanceled, PlanTypeOK
<1> QED BY <1>1, <1>3 DEF OrderCanceled

LEMMA ProceedSame ==
  ASSUME PlanTypeOK, NEW i \in 1 .. made, OrderInvoiceProceed(i)
  PROVE  /\ PlanTypeOK'
         /\ made' = made /\ plan' = plan /\ bypass' = bypass /\ order' = order
         /\ planHistory \subseteq planHistory'
         /\ \A k \in 1 .. made : PlanSame(k)
         /\ "revived" \notin planHistory' => \A k \in 1 .. made : Living(k)' <=> Living(k)
<1> DEFINE next == CASE invoices[i].state = "draft" -> "open"
                     [] invoices[i].state = "open" -> "paid"
                     [] invoices[i].state = "cancel" -> "draft"
           row == [invoices[i] EXCEPT !.state = next]
<1>1. invoices[i] \in OrderInvoice /\ invoices[i].state \in {"draft", "open", "cancel"}
  BY DEF PlanTypeOK, OrderInvoice, OrderInvoiceProceed
<1>2. next \in {"draft", "open", "paid"}
  BY <1>1
<1>3. /\ row \in OrderInvoice /\ row.slots = invoices[i].slots /\ row.bills = invoices[i].bills
      /\ row.advance = invoices[i].advance /\ row.deducts = invoices[i].deducts
      /\ row.state = next
  <2> HIDE DEF next
  <2> QED BY <1>1, <1>2 DEF OrderInvoice
<1>4. invoices' = [invoices EXCEPT ![i] = row]
  BY DEF OrderInvoiceProceed
<1> HIDE DEF row, next
<1>5. invoices' \in [1 .. made -> OrderInvoice]
  BY <1>3, <1>4 DEF PlanTypeOK
<1>6. /\ invoices'[i] = row /\ \A k \in 1 .. made : k # i => invoices'[k] = invoices[k]
  BY <1>4 DEF PlanTypeOK
<1>7. \A k \in 1 .. made : PlanSame(k)
  BY <1>3, <1>6 DEF PlanSame, BillsSame
<1>8. planHistory' = IF invoices[i].state = "cancel" THEN planHistory \cup {"revived"} ELSE planHistory
  BY DEF OrderInvoiceProceed
<1>9. "revived" \notin planHistory' => \A k \in 1 .. made : Living(k)' <=> Living(k)
  BY <1>2, <1>3, <1>6, <1>8 DEF Living
<1>10. PlanTypeOK'
  BY <1>5, <1>8 DEF OrderInvoiceProceed, PlanTypeOK
<1> QED BY <1>7, <1>8, <1>9, <1>10 DEF OrderInvoiceProceed

-----------------------------------------------------------------------------
(* The plan of a sales order: the invoices that are made *)

LEMMA MadeForRank ==
  ASSUME PlanTypeOK, NEW advancing \in BOOLEAN
  PROVE  LET M == {k \in 0 .. N : Makes(k, advancing)}
         IN  /\ IsFiniteSet(M) /\ Cardinality(M) \in Nat
             /\ \A k \in M : MadeFor(k, advancing) \in made + 1 .. made + Cardinality(M)
             /\ \A j, k \in M : MadeFor(j, advancing) = MadeFor(k, advancing) => j = k
             /\ \A i \in made + 1 .. made + Cardinality(M) :
                  \E k \in M : MadeFor(k, advancing) = i
<1> DEFINE M == {k \in 0 .. N : Makes(k, advancing)}
<1>1. M \in SUBSET (0 .. N) /\ N \in Nat /\ made \in Nat
  BY PlanConstants, MadeType
<1>2. \A k \in M : MadeFor(k, advancing) = made + Rank(M, k)
  <2> TAKE k \in M
  <2>1. {h \in 0 .. k : Makes(h, advancing)} = M \cap (0 .. k)
    BY <1>1
  <2> QED BY <2>1 DEF MadeFor, Rank
<1> HIDE DEF M
<1>3. /\ IsFiniteSet(M) /\ Cardinality(M) \in Nat
      /\ \A k \in M : Rank(M, k) \in 1 .. Cardinality(M)
      /\ \A j, k \in M : Rank(M, j) = Rank(M, k) => j = k
      /\ \A r \in 1 .. Cardinality(M) : \E k \in M : Rank(M, k) = r
  BY <1>1, Ranks
<1>4. \A k \in M : MadeFor(k, advancing) \in made + 1 .. made + Cardinality(M)
  BY <1>1, <1>2, <1>3
<1>5. \A j, k \in M : MadeFor(j, advancing) = MadeFor(k, advancing) => j = k
  <2> TAKE j, k \in M
  <2>1. Rank(M, j) \in Int /\ Rank(M, k) \in Int
    BY <1>3
  <2> QED BY <1>1, <1>2, <1>3, <2>1
<1>6. \A i \in made + 1 .. made + Cardinality(M) : \E k \in M : MadeFor(k, advancing) = i
  <2> TAKE i \in made + 1 .. made + Cardinality(M)
  <2>1. i - made \in 1 .. Cardinality(M)
    BY <1>1, <1>3
  <2>2. PICK k \in M : Rank(M, k) = i - made
    BY <1>3, <2>1
  <2> QED BY <1>1, <1>2, <2>2
<1> QED BY <1>3, <1>4, <1>5, <1>6 DEF M

\* An order is invoiced with an advance or without.
LEMMA CreateMakes ==
  ASSUME ActionInvoiceCreate
  PROVE  /\ \E advancing \in BOOLEAN : MakeInvoices(advancing) /\ advancing \in Advancing
         /\ planHistory \subseteq planHistory' \cup {"ignored"}
         /\ planHistory' \subseteq planHistory \cup {"unbilled", "ignored"}
         /\ "unbilled" \notin planHistory' => Due(0) \subseteq {Advance0}
         /\ "ignored" \notin planHistory' => ~bypass
         /\ UNCHANGED <<bypass, useDeposit, planWizard>> /\ order' = "progress"
<1>1. Advancing \subseteq BOOLEAN
  <2>1. (plan[Advance0].amount > 0) \in BOOLEAN
    OBVIOUS
  <2> QED BY <2>1 DEF Advancing
<1>2. \E advancing \in Advancing : MakeInvoices(advancing)
  BY DEF ActionInvoiceCreate
<1>3. /\ planHistory' = (planHistory \ {"ignored"})
                          \cup (IF bypass THEN {"ignored"} ELSE {})
                          \cup (IF Due(0) \subseteq {Advance0} THEN {} ELSE {"unbilled"})
      /\ UNCHANGED <<bypass, useDeposit, planWizard>> /\ order' = "progress"
  BY DEF ActionInvoiceCreate
<1> QED BY <1>1, <1>2, <1>3

\* Invoicing an order: what is made of each installment, and what becomes of its rows
LEMMA InvoicesMade ==
  ASSUME PlanTypeOK, NEW advancing \in BOOLEAN, MakeInvoices(advancing)
  PROVE  /\ made' \in made .. OrderInvoiceBound
         /\ DOMAIN invoices' = 1 .. made'
         /\ \A i \in 1 .. made : invoices'[i] = invoices[i]
         /\ \A i \in made + 1 .. made' :
              \E k \in 0 .. N : /\ Makes(k, advancing) /\ MadeFor(k, advancing) = i
                                /\ invoices'[i] = InvoiceOf(k, advancing)
         /\ \A k \in 0 .. N : Makes(k, advancing) =>
              /\ MadeFor(k, advancing) \in made + 1 .. made'
              /\ invoices'[MadeFor(k, advancing)] = InvoiceOf(k, advancing)
         /\ plan' \in [Slot -> PlanRow]
         /\ \A s \in Slot :
              /\ plan'[s].there <=> plan[s].there
              /\ plan'[s].amount = plan[s].amount
              /\ plan'[s].ref = IF s \in Due(s[1])
                                THEN IF Makes(s[1], advancing)
                                     THEN MadeFor(s[1], advancing) ELSE NoOrderInvoice
                                ELSE plan[s].ref
<1> DEFINE M == {k \in 0 .. N : Makes(k, advancing)}
           all == made + Cardinality(M)
<1>1. /\ made' = all /\ all <= OrderInvoiceBound
      /\ invoices' = [i \in 1 .. all |->
                        IF i <= made THEN invoices[i]
                        ELSE InvoiceOf(CHOOSE k \in M : MadeFor(k, advancing) = i, advancing)]
      /\ plan' = [s \in Slot |->
                    IF s \in Due(s[1])
                    THEN [plan[s] EXCEPT !.ref =
                            IF Makes(s[1], advancing) THEN MadeFor(s[1], advancing) ELSE NoOrderInvoice]
                    ELSE plan[s]]
  BY DEF MakeInvoices
<1>2. /\ Cardinality(M) \in Nat
      /\ \A k \in M : MadeFor(k, advancing) \in made + 1 .. all
      /\ \A j, k \in M : MadeFor(j, advancing) = MadeFor(k, advancing) => j = k
      /\ \A i \in made + 1 .. all : \E k \in M : MadeFor(k, advancing) = i
  BY MadeForRank
<1>3. made \in Nat /\ OrderInvoiceBound \in Nat
  BY PlanConstants, MadeType
<1>4. made' \in made .. OrderInvoiceBound /\ DOMAIN invoices' = 1 .. made'
  <2> HIDE DEF M
  <2> QED BY <1>1, <1>2, <1>3
<1>5. \A i \in 1 .. made : invoices'[i] = invoices[i]
  <2> HIDE DEF M
  <2> QED BY <1>1, <1>2, <1>3
<1>6. ASSUME NEW k \in 0 .. N, Makes(k, advancing)
      PROVE  /\ MadeFor(k, advancing) \in made + 1 .. made'
             /\ invoices'[MadeFor(k, advancing)] = InvoiceOf(k, advancing)
  <2>1. k \in M /\ MadeFor(k, advancing) \in made + 1 .. all
    BY <1>2, <1>6
  <2>2. (CHOOSE j \in M : MadeFor(j, advancing) = MadeFor(k, advancing)) = k
    <3> HIDE DEF M
    <3> QED BY <1>2, <2>1
  <2>3. MadeFor(k, advancing) \in 1 .. all /\ ~(MadeFor(k, advancing) <= made)
    <3> HIDE DEF M
    <3> QED BY <1>2, <1>3, <2>1
  <2>4. invoices'[MadeFor(k, advancing)]
          = InvoiceOf(CHOOSE j \in M : MadeFor(j, advancing) = MadeFor(k, advancing), advancing)
    <3> HIDE DEF M
    <3> QED BY <1>1, <2>3
  <2> QED BY <1>1, <2>1, <2>2, <2>4
<1>7. \A i \in made + 1 .. made' :
        \E k \in 0 .. N : /\ Makes(k, advancing) /\ MadeFor(k, advancing) = i
                          /\ invoices'[i] = InvoiceOf(k, advancing)
  <2> TAKE i \in made + 1 .. made'
  <2>1. PICK k \in M : MadeFor(k, advancing) = i
    BY <1>1, <1>2
  <2> QED BY <1>6, <2>1
<1>8. ASSUME NEW s \in Slot
      PROVE  /\ plan'[s] \in PlanRow
             /\ plan'[s].there <=> plan[s].there
             /\ plan'[s].amount = plan[s].amount
             /\ plan'[s].ref = IF s \in Due(s[1])
                               THEN IF Makes(s[1], advancing)
                                    THEN MadeFor(s[1], advancing) ELSE NoOrderInvoice
                               ELSE plan[s].ref
  <2> DEFINE ref == IF Makes(s[1], advancing) THEN MadeFor(s[1], advancing) ELSE NoOrderInvoice
             row == [plan[s] EXCEPT !.ref = ref]
  <2>1. plan[s] \in PlanRow
    BY DEF PlanTypeOK
  <2>2. ref \in OrderInvoiceId \cup {NoOrderInvoice}
    <3>1. CASE Makes(s[1], advancing)
      <4>1. MadeFor(s[1], advancing) \in made + 1 .. made'
        BY <1>6, <3>1, PlanConstants
      <4>2. MadeFor(s[1], advancing) \in OrderInvoiceId
        BY <1>3, <1>4, <4>1 DEF OrderInvoiceId
      <4> QED BY <3>1, <4>2
    <3>2. CASE ~Makes(s[1], advancing)
      BY <3>2
    <3> QED BY <3>1, <3>2
  <2> HIDE DEF ref
  <2>3. /\ row \in PlanRow /\ row.there = plan[s].there /\ row.amount = plan[s].amount
        /\ row.ref = ref
    BY <2>1, <2>2 DEF PlanRow
  <2>4. plan'[s] = IF s \in Due(s[1]) THEN row ELSE plan[s]
    BY <1>1 DEF ref
  <2> HIDE DEF row
  <2> QED BY <2>1, <2>3, <2>4 DEF ref
<1>9. plan' \in [Slot -> PlanRow]
  BY <1>1, <1>8
<1> HIDE DEF M
<1> QED BY <1>4, <1>5, <1>6, <1>7, <1>8, <1>9

-----------------------------------------------------------------------------
(* The plan of a sales order: the types *)

LEMMA DueSlots ==
  ASSUME NEW k \in 0 .. N
  PROVE  /\ Due(k) \subseteq Slot
         /\ \A s \in Due(k) : s[1] = k /\ plan[s].there
BY DEF Due

LEMMA InvoiceOfType ==
  ASSUME PlanTypeOK, NEW advancing \in BOOLEAN, MakeInvoices(advancing),
         NEW k \in 0 .. N, Makes(k, advancing)
  PROVE  InvoiceOf(k, advancing) \in OrderInvoice
<1>1. Due(k) \in SUBSET Slot
  BY DueSlots
<1>2. [l \in OrderLine |-> IF k # 0 /\ <<k, l>> \in Due(k) THEN plan[<<k, l>>].amount ELSE 0]
        \in [OrderLine -> Nat]
  BY <1>1 DEF PlanTypeOK, PlanRow
<1>3. Advances(advancing) \in SUBSET OrderInvoiceId
  <2>1. 1 .. made \subseteq OrderInvoiceId
    BY MadeType, PlanConstants DEF OrderInvoiceId
  <2>2. Makes(0, advancing) => MadeFor(0, advancing) \in OrderInvoiceId
    <3>1. Makes(0, advancing) => MadeFor(0, advancing) \in made + 1 .. made'
      BY InvoicesMade, PlanConstants
    <3>2. made' \in made .. OrderInvoiceBound
      BY InvoicesMade
    <3> QED BY <3>1, <3>2, MadeType, PlanConstants DEF OrderInvoiceId
  <2> QED BY <2>1, <2>2 DEF Advances
<1> QED BY <1>1, <1>2, <1>3 DEF InvoiceOf, OrderInvoice

LEMMA CreateType == ASSUME PlanTypeOK, ActionInvoiceCreate PROVE PlanTypeOK'
<1>0. PICK advancing \in BOOLEAN : MakeInvoices(advancing)
  BY CreateMakes
<1>1. made' \in 0 .. OrderInvoiceBound
  BY <1>0, InvoicesMade, MadeType, PlanConstants
<1>2. plan' \in [Slot -> PlanRow]
  BY <1>0, InvoicesMade
<1>3. ASSUME NEW i \in 1 .. made' PROVE invoices'[i] \in OrderInvoice
  <2>1. CASE i \in 1 .. made
    BY <1>0, <2>1, InvoicesMade DEF PlanTypeOK
  <2>2. CASE i \in made + 1 .. made'
    BY <1>0, <2>2, InvoicesMade, InvoiceOfType
  <2> QED BY <1>1, <2>1, <2>2, MadeType
<1>4. invoices' \in [1 .. made' -> OrderInvoice]
  <2>1. invoices' = [i \in 1 .. made' |-> invoices'[i]]
    BY <1>0 DEF MakeInvoices
  <2> QED BY <1>3, <2>1
<1>5. planHistory' \subseteq {"replanned", "lost", "revived", "late advance", "unbilled", "ignored"}
  BY CreateMakes DEF PlanTypeOK
<1> QED BY <1>1, <1>2, <1>4, <1>5, CreateMakes DEF PlanTypeOK

LEMMA AmountOfType ==
  ASSUME NEW l \in OrderLine, NEW share \in {0, 50, 100}
  PROVE  AmountOf(l, share) \in Nat
<1>1. Subtotal[l] \in Nat
  BY PlanConstants
<1>2. share * Subtotal[l] \in Nat
  BY <1>1
<1> QED BY <1>2 DEF AmountOf

\* The rows of a new plan
LEMMA NewPlan ==
  ASSUME NEW share \in [1 .. N -> {0, 50, 100}], NEW deposit \in Amount,
         DoCreateInvoicePlan(share, deposit)
  PROVE  /\ plan' \in [Slot -> PlanRow]
         /\ \A s \in Slot : /\ plan'[s].ref = NoOrderInvoice
                            /\ ~plan'[s].there => plan'[s].amount = 0
<1> DEFINE row(s) == IF s = Advance0
                     THEN [there |-> deposit > 0, amount |-> deposit, ref |-> NoOrderInvoice]
                     ELSE IF s[1] = 0 THEN NoPlanRow
                     ELSE [there |-> TRUE, amount |-> AmountOf(s[2], share[s[1]]),
                           ref |-> NoOrderInvoice]
<1>1. plan' = [s \in Slot |-> row(s)]
  BY DEF DoCreateInvoicePlan
<1>2. ASSUME NEW s \in Slot
      PROVE  /\ row(s) \in PlanRow /\ row(s).ref = NoOrderInvoice
             /\ ~row(s).there => row(s).amount = 0
  <2>1. CASE s = Advance0
    <3>1. deposit \in Nat
      BY PlanConstants
    <3>2. CASE deposit > 0
      <4>1. row(s) = [there |-> TRUE, amount |-> deposit, ref |-> NoOrderInvoice]
        BY <2>1, <3>2
      <4> HIDE DEF row
      <4> QED BY <3>1, <4>1 DEF PlanRow
    <3>3. CASE ~(deposit > 0)
      <4>1. row(s) = [there |-> FALSE, amount |-> deposit, ref |-> NoOrderInvoice]
        <5>1. (deposit > 0) = FALSE
          BY <3>3
        <5> QED BY <2>1, <5>1
      <4> HIDE DEF row
      <4> QED BY <3>1, <3>3, <4>1 DEF PlanRow
    <3> QED BY <3>2, <3>3
  <2>2. CASE s # Advance0 /\ s[1] = 0
    <3>1. row(s) = NoPlanRow
      BY <2>2
    <3> HIDE DEF row
    <3> QED BY <3>1 DEF NoPlanRow, PlanRow
  <2>3. CASE s # Advance0 /\ s[1] # 0
    <3> DEFINE a == AmountOf(s[2], share[s[1]])
    <3>1. s[1] \in 1 .. N /\ s[2] \in OrderLine
      BY <2>3, PlanConstants
    <3>2. a \in Nat
      BY <3>1, AmountOfType
    <3>3. row(s) = [there |-> TRUE, amount |-> a, ref |-> NoOrderInvoice]
      BY <2>3
    <3> HIDE DEF a, row
    <3> QED BY <3>2, <3>3 DEF PlanRow
  <2> QED BY <2>1, <2>2, <2>3
<1> HIDE DEF row
<1> QED BY <1>1, <1>2

\* One row is written
LEMMA RowsAfter ==
  ASSUME PlanTypeOK, NEW s \in Slot
  PROVE  /\ \A amount \in Amount : WriteRow(s, amount) =>
              /\ plan' \in [Slot -> PlanRow]
              /\ plan'[s].there /\ plan'[s].amount = amount /\ plan'[s].ref = plan[s].ref
         /\ DeleteRow(s) => plan' \in [Slot -> PlanRow] /\ plan'[s] = NoPlanRow
         /\ (DeleteRow(s) \/ \E amount \in Amount : WriteRow(s, amount)) =>
              /\ \A x \in Slot : x # s => plan'[x] = plan[x]
              /\ UNCHANGED <<order, bypass, useDeposit, invoices, made, planWizard>>
              /\ planHistory \subseteq planHistory'
              /\ planHistory' \subseteq {"replanned", "lost", "revived", "late advance", "unbilled", "ignored"}
<1>1. plan \in [Slot -> PlanRow]
  BY DEF PlanTypeOK
<1>2. ASSUME NEW amount \in Amount, WriteRow(s, amount)
      PROVE  /\ plan' \in [Slot -> PlanRow]
             /\ plan'[s].there /\ plan'[s].amount = amount /\ plan'[s].ref = plan[s].ref
             /\ \A x \in Slot : x # s => plan'[x] = plan[x]
  <2> DEFINE row == [plan[s] EXCEPT !.there = TRUE, !.amount = amount]
  <2>1. plan[s] \in PlanRow /\ amount \in Nat
    BY <1>1, PlanConstants
  <2>2. row \in PlanRow
    BY <2>1 DEF PlanRow
  <2>3. row.there /\ row.amount = amount /\ row.ref = plan[s].ref
    BY <2>1 DEF PlanRow
  <2>4. plan' = [plan EXCEPT ![s] = row]
    BY <1>1, <1>2 DEF WriteRow, PlanRow
  <2> HIDE DEF row
  <2> QED BY <1>1, <2>2, <2>3, <2>4
<1>3. ASSUME DeleteRow(s)
      PROVE  /\ plan' \in [Slot -> PlanRow] /\ plan'[s] = NoPlanRow
             /\ \A x \in Slot : x # s => plan'[x] = plan[x]
  <2>1. NoPlanRow \in PlanRow
    BY DEF NoPlanRow, PlanRow
  <2> QED BY <1>1, <1>3, <2>1 DEF DeleteRow
<1>4. (DeleteRow(s) \/ \E amount \in Amount : WriteRow(s, amount)) =>
        /\ UNCHANGED <<order, bypass, useDeposit, invoices, made, planWizard>>
        /\ planHistory \subseteq planHistory'
        /\ planHistory' \subseteq {"replanned", "lost", "revived", "late advance", "unbilled", "ignored"}
  BY DEF DeleteRow, WriteRow, PlanTypeOK
<1> QED BY <1>2, <1>3, <1>4

\* One row is moved to another installment.
LEMMA RenumberDoes ==
  ASSUME PlanTypeOK, NEW s \in Slot, NEW k \in 0 .. N, Renumber(s, k)
  PROVE  LET t == <<k, s[2]>>
             moved(x) == IF x = s THEN t ELSE x
         IN  /\ t \in Slot /\ t # s /\ s # Advance0 /\ t # Advance0
             /\ plan[s].there /\ ~plan[t].there
             /\ plan' \in [Slot -> PlanRow]
             /\ plan'[s] = NoPlanRow /\ plan'[t] = plan[s]
             /\ \A x \in Slot : x # s /\ x # t => plan'[x] = plan[x]
             /\ invoices' \in [1 .. made -> OrderInvoice]
             /\ \A i \in 1 .. made :
                  /\ invoices'[i].slots = {moved(x) : x \in invoices[i].slots}
                  /\ invoices'[i].state = invoices[i].state
                  /\ BillsSame(i)
             /\ UNCHANGED <<order, bypass, useDeposit, made, planWizard, planHistory>>
<1> DEFINE t == <<k, s[2]>>
           moved(x) == IF x = s THEN t ELSE x
<1>1. s # Advance0 /\ s[2] \in OrderLine /\ t \in Slot /\ t # Advance0
  BY PlanConstants DEF Renumber
<1>2. plan[s].there /\ ~plan[t].there /\ plan' = [plan EXCEPT ![t] = plan[s], ![s] = NoPlanRow]
      /\ UNCHANGED <<order, bypass, useDeposit, made, planWizard, planHistory>>
      /\ invoices' = [i \in 1 .. made |->
           [invoices[i] EXCEPT !.slots = {moved(x) : x \in invoices[i].slots}]]
  BY DEF Renumber
<1>3. t # s
  BY <1>2
<1>4. /\ plan' \in [Slot -> PlanRow] /\ plan'[s] = NoPlanRow /\ plan'[t] = plan[s]
      /\ \A x \in Slot : x # s /\ x # t => plan'[x] = plan[x]
  <2>1. NoPlanRow \in PlanRow
    BY DEF NoPlanRow, PlanRow
  <2>2. plan \in [Slot -> PlanRow]
    BY DEF PlanTypeOK
  <2> HIDE DEF t
  <2> QED BY <1>1, <1>2, <1>3, <2>1, <2>2
<1>5. ASSUME NEW i \in 1 .. made
      PROVE  /\ invoices'[i] \in OrderInvoice
             /\ invoices'[i].slots = {moved(x) : x \in invoices[i].slots}
             /\ invoices'[i].state = invoices[i].state
             /\ BillsSame(i)
  <2> DEFINE S == {moved(x) : x \in invoices[i].slots}
             row == [invoices[i] EXCEPT !.slots = S]
  <2>1. invoices[i] \in OrderInvoice
    BY DEF PlanTypeOK
  <2>2. S \in SUBSET Slot
    <3>1. invoices[i].slots \in SUBSET Slot
      BY <2>1 DEF OrderInvoice
    <3> HIDE DEF t
    <3> QED BY <1>1, <3>1
  <2> HIDE DEF S
  <2>3. /\ row \in OrderInvoice /\ row.slots = S /\ row.state = invoices[i].state
        /\ row.bills = invoices[i].bills /\ row.advance = invoices[i].advance
        /\ row.deducts = invoices[i].deducts
    BY <2>1, <2>2 DEF OrderInvoice
  <2>4. invoices'[i] = row
    BY <1>2 DEF S
  <2> HIDE DEF row
  <2> QED BY <2>3, <2>4 DEF BillsSame, S
<1>6. invoices' \in [1 .. made -> OrderInvoice]
  <2>1. invoices' = [i \in 1 .. made |-> invoices'[i]]
    BY <1>2
  <2> QED BY <1>5, <2>1
<1> QED BY <1>1, <1>2, <1>3, <1>4, <1>5, <1>6

LEMMA PlanStepType == PlanTypeOK /\ [PlanNext]_planVars => PlanTypeOK'
<1> SUFFICES ASSUME PlanTypeOK, [PlanNext]_planVars PROVE PlanTypeOK'
  OBVIOUS
<1>1. CASE PlanStep
  <2>1. CASE OpenPlanWizard
    BY <2>1 DEF OpenPlanWizard, PlanTypeOK
  <2>2. ASSUME NEW share \in [1 .. N -> {0, 50, 100}], NEW deposit \in Amount,
               DoCreateInvoicePlan(share, deposit)
        PROVE  PlanTypeOK'
    <3>1. plan' \in [Slot -> PlanRow]
      BY <2>2, NewPlan
    <3>2. useDeposit' \in BOOLEAN
      BY <2>2 DEF DoCreateInvoicePlan
    <3>3. planHistory' \subseteq {"replanned", "lost", "revived", "late advance", "unbilled", "ignored"}
      BY <2>2 DEF DoCreateInvoicePlan, PlanTypeOK
    <3>4. UNCHANGED <<order, bypass, invoices, made>> /\ planWizard' = FALSE
      BY <2>2 DEF DoCreateInvoicePlan
    <3> QED BY <3>1, <3>2, <3>3, <3>4 DEF PlanTypeOK
  <2>3. ASSUME NEW s \in Slot, DeleteRow(s) \/ \E amount \in Amount : WriteRow(s, amount)
        PROVE  PlanTypeOK'
    <3>1. /\ plan' \in [Slot -> PlanRow]
          /\ UNCHANGED <<order, bypass, useDeposit, invoices, made, planWizard>>
          /\ planHistory' \subseteq {"replanned", "lost", "revived", "late advance", "unbilled", "ignored"}
      BY <2>3, RowsAfter
    <3> QED BY <3>1 DEF PlanTypeOK
  <2>4. ASSUME NEW s \in Slot, NEW k \in 0 .. N, Renumber(s, k) PROVE PlanTypeOK'
    BY <2>4, RenumberDoes DEF PlanTypeOK
  <2> QED BY <1>1, <2>1, <2>2, <2>3, <2>4 DEF PlanStep
<1>2. CASE ActionInvoiceCreate
  BY <1>2, CreateType
<1>3. ASSUME NEW S, OrderCanceled(S) PROVE PlanTypeOK'
  BY <1>3, CanceledSame
<1>4. CASE OrderStep
  <2>1. CASE ActionButtonConfirm \/ InvoiceCorrected \/ BypassValidateAmount
    BY <2>1 DEF ActionButtonConfirm, InvoiceCorrected, BypassValidateAmount, PlanTypeOK
  <2>2. CASE ManualInvoice \/ InvoiceRecreate
    BY <1>2, <2>2 DEF ManualInvoice, InvoiceRecreate
  <2>3. CASE ActionCancelDraftInvoices
    BY <1>3, <2>3 DEF ActionCancelDraftInvoices
  <2> QED BY <1>4, <2>1, <2>2, <2>3 DEF OrderStep
<1>5. CASE OrderInvoiceStep
  <2>1. PICK i \in 1 .. made : OrderInvoiceCancel(i) \/ OrderInvoiceProceed(i)
    BY <1>5 DEF OrderInvoiceStep
  <2> QED BY <1>3, <2>1, ProceedSame DEF OrderInvoiceCancel
<1>6. CASE UNCHANGED planVars
  BY <1>6 DEF planVars, PlanTypeOK
<1> QED BY <1>1, <1>4, <1>5, <1>6 DEF PlanNext

\* The variables of a plan have their types (do_create_invoice_plan, invoice_plan_ids,
\* action_invoice_create).
THEOREM PlanTypeCorrect == PlanSpec => []PlanTypeOK
BY PlanInitType, PlanStepType, PTL DEF PlanSpec

-----------------------------------------------------------------------------
(* The plan of a sales order: its rows and their invoices *)

\* What is always true of an invoice: it is of some rows, one of each line at most,
\* and of the lines of these rows.  Its rows may get into different installments.
InvoiceShape(i) ==
  /\ invoices[i].slots # {}
  /\ \A s, t \in invoices[i].slots : s[2] = t[2] => s = t
  /\ Advance0 \in invoices[i].slots => invoices[i].advance
  /\ \A l \in OrderLine : invoices[i].bills[l] # 0 =>
       \E k \in 0 .. N : <<k, l>> \in invoices[i].slots

\* What is always true of a row
RowShape(s) ==
  /\ plan[s].ref \in 0 .. made
  /\ plan[s].ref # 0 => s \in invoices[plan[s].ref].slots
  /\ ~plan[s].there => plan[s].amount = 0 /\ plan[s].ref = 0

PlanShape ==
  /\ order = "draft" => made = 0
  /\ \A i \in 1 .. made : InvoiceShape(i)
  /\ \A s \in Slot : RowShape(s)

\* Nothing happened but a late advance, rows of installment 0 that were not billed, and
\* amounts that were ignored.
Regular == planHistory \subseteq {"late advance", "unbilled", "ignored"}

\* Nothing happened but a late advance and amounts that were ignored.
Billable == planHistory \subseteq {"late advance", "ignored"}

\* A living invoice is the one of its rows, for their amounts if all rows were billed;
\* then invoices of an advance are of its row.
PlanFollowed ==
  /\ Regular =>
       \A i \in 1 .. made : Living(i) => \A s \in invoices[i].slots : plan[s].ref = i
  /\ Billable =>
       /\ \A i \in 1 .. made : invoices[i].advance => Advance0 \in invoices[i].slots
       /\ \A s \in Slot : s # Advance0 /\ Invoiced(s) =>
            invoices[plan[s].ref].bills[s[2]] = plan[s].amount

PlanInd == PlanTypeOK /\ PlanShape /\ PlanFollowed

LEMMA PlanInitInd == PlanInit => PlanInd
<1> SUFFICES ASSUME PlanInit PROVE PlanInd
  OBVIOUS
<1>1. made = 0 /\ \A s \in Slot : plan[s] = NoPlanRow
  BY DEF PlanInit
<1>2. PlanShape
  BY <1>1 DEF PlanShape, RowShape, NoPlanRow, NoOrderInvoice
<1>3. PlanFollowed
  BY <1>1 DEF PlanFollowed, Invoiced, NoPlanRow
<1> QED BY <1>2, <1>3, PlanInitType DEF PlanInd

\* The rows stay, and the invoices, of which some may be canceled.
LEMMA StatesInd ==
  ASSUME PlanInd, PlanTypeOK', made' = made, plan' = plan,
         order' = "draft" => order = "draft",
         planHistory \subseteq planHistory',
         \A i \in 1 .. made : PlanSame(i),
         Regular' => \A i \in 1 .. made : Living(i)' => Living(i)
  PROVE  PlanInd'
<1>1. \A i \in 1 .. made : InvoiceShape(i)'
  BY DEF PlanInd, PlanShape, InvoiceShape, PlanSame, BillsSame
<1>2. ASSUME NEW s \in Slot PROVE RowShape(s)' /\ plan[s].ref \in 0 .. made
  <2>1. RowShape(s)
    BY DEF PlanInd, PlanShape
  <2>2. plan[s].ref # 0 => plan[s].ref \in 1 .. made
    BY <2>1, MadeType DEF RowShape, PlanInd
  <2>3. plan[s].ref # 0 => invoices'[plan[s].ref].slots = invoices[plan[s].ref].slots
    BY <2>2 DEF PlanSame, BillsSame
  <2> QED BY <2>1, <2>3 DEF RowShape
<1>3. PlanShape'
  BY <1>1, <1>2 DEF PlanInd, PlanShape
<1>4. (Regular' => Regular) /\ (Billable' => Billable /\ Regular')
  BY DEF Regular, Billable
<1>5. ASSUME Regular', NEW i \in 1 .. made, Living(i)', NEW s \in invoices'[i].slots
      PROVE  plan'[s].ref = i
  BY <1>4, <1>5 DEF PlanInd, PlanFollowed, PlanSame, BillsSame
<1>6. ASSUME Billable', NEW s \in Slot, s # Advance0, Invoiced(s)'
      PROVE  invoices'[plan'[s].ref].bills[s[2]] = plan'[s].amount
  <2>1. plan[s].ref \in 1 .. made
    BY <1>2, <1>6, MadeType DEF PlanInd, Invoiced, NoOrderInvoice
  <2>2. Invoiced(s)
    BY <1>4, <1>6, <2>1 DEF Invoiced, Living
  <2> QED BY <1>4, <1>6, <2>1, <2>2 DEF PlanInd, PlanFollowed, PlanSame, BillsSame
<1>7. ASSUME Billable', NEW i \in 1 .. made, invoices'[i].advance
      PROVE  Advance0 \in invoices'[i].slots
  BY <1>4, <1>7 DEF PlanInd, PlanFollowed, PlanSame, BillsSame
<1>8. PlanFollowed'
  BY <1>5, <1>6, <1>7 DEF PlanFollowed
<1> QED BY <1>3, <1>8 DEF PlanInd

\* A row is written or deleted.
LEMMA RowWrittenInd ==
  ASSUME PlanInd, PlanTypeOK', NEW s \in Slot,
         DeleteRow(s) \/ \E amount \in Amount : WriteRow(s, amount)
  PROVE  PlanInd'
<1> USE DEF NoOrderInvoice
<1>0. PlanTypeOK
  BY DEF PlanInd
<1>1. /\ \A x \in Slot : x # s => plan'[x] = plan[x]
      /\ order' = order /\ invoices' = invoices /\ made' = made
      /\ planHistory \subseteq planHistory'
  BY <1>0, RowsAfter
<1>2. \/ plan'[s].there /\ plan'[s].ref = plan[s].ref /\ ~Invoiced(s)
      \/ plan'[s] = NoPlanRow /\ (Regular' => ~Invoiced(s))
  <2>1. CASE DeleteRow(s)
    <3>1. Regular' => ~Invoiced(s)
      <4>1. useDeposit \/ ~Invoiced(s)
        BY <2>1 DEF DeleteRow, ValidateInvoicePlan
      <4>2. useDeposit /\ Invoiced(s) => "lost" \in planHistory'
        BY <2>1 DEF DeleteRow
      <4> QED BY <4>1, <4>2 DEF Regular
    <3> QED BY <1>0, <2>1, <3>1, RowsAfter
  <2>2. ASSUME NEW amount \in Amount, WriteRow(s, amount)
        PROVE  plan'[s].there /\ plan'[s].ref = plan[s].ref /\ ~Invoiced(s)
    BY <1>0, <2>2, RowsAfter DEF WriteRow
  <2> QED BY <2>1, <2>2
<1>3. ASSUME NEW x \in Slot PROVE RowShape(x)'
  <2>1. CASE x # s
    BY <1>1, <2>1 DEF PlanInd, PlanShape, RowShape
  <2>2. CASE x = s
    <3>1. 0 \in 0 .. made
      BY <1>0, MadeType
    <3> QED BY <1>1, <1>2, <2>2, <3>1 DEF PlanInd, PlanShape, RowShape, NoPlanRow
  <2> QED BY <2>1, <2>2
<1>4. PlanShape'
  BY <1>1, <1>3 DEF PlanInd, PlanShape, InvoiceShape
<1>5. (Regular' => Regular) /\ (Billable' => Billable /\ Regular')
  BY <1>1 DEF Regular, Billable
<1>6. \A i \in 1 .. made : invoices[i].slots \subseteq Slot
  BY <1>0 DEF PlanTypeOK, OrderInvoice
<1>7. ASSUME Regular', NEW i \in 1 .. made, Living(i), NEW x \in invoices[i].slots
      PROVE  plan'[x].ref = i
  <2>1. plan[x].ref = i
    BY <1>5, <1>7 DEF PlanInd, PlanFollowed
  <2>2. x = s => Invoiced(s)
    BY <1>7, <2>1 DEF Invoiced
  <2> QED BY <1>1, <1>2, <1>6, <1>7, <2>1, <2>2
<1>8. ASSUME Billable', NEW x \in Slot, x # Advance0, Invoiced(x)'
      PROVE  invoices[plan'[x].ref].bills[x[2]] = plan'[x].amount
  <2>1. x # s
    BY <1>1, <1>2, <1>8 DEF Invoiced, Living, NoPlanRow
  <2>2. Invoiced(x) /\ plan'[x] = plan[x]
    BY <1>1, <1>8, <2>1 DEF Invoiced, Living
  <2> QED BY <1>5, <1>8, <2>2 DEF PlanInd, PlanFollowed
<1>9. PlanFollowed'
  BY <1>1, <1>5, <1>7, <1>8 DEF PlanInd, PlanFollowed, Living
<1> QED BY <1>4, <1>9 DEF PlanInd

\* A plan is made: there are no invoices yet, unless it is made again.
LEMMA NewPlanInd ==
  ASSUME PlanInd, PlanTypeOK', NEW share \in [1 .. N -> {0, 50, 100}], NEW deposit \in Amount,
         DoCreateInvoicePlan(share, deposit)
  PROVE  PlanInd'
<1> USE DEF NoOrderInvoice
<1>1. /\ \A s \in Slot : plan'[s].ref = 0 /\ (~plan'[s].there => plan'[s].amount = 0)
      /\ order' = order /\ invoices' = invoices /\ made' = made
      /\ order # "draft" => ~Regular' /\ ~Billable'
  BY NewPlan DEF DoCreateInvoicePlan, Regular, Billable
<1>2. 0 \in 0 .. made
  BY MadeType DEF PlanInd
<1>3. PlanShape'
  <2>1. \A s \in Slot : RowShape(s)'
    BY <1>1, <1>2 DEF RowShape
  <2>2. \A i \in 1 .. made : InvoiceShape(i)'
    BY <1>1 DEF PlanInd, PlanShape, InvoiceShape
  <2> QED BY <1>1, <2>1, <2>2 DEF PlanInd, PlanShape
<1>4. Regular' \/ Billable' => made = 0
  BY <1>1 DEF PlanInd, PlanShape
<1>5. PlanFollowed'
  BY <1>1, <1>4 DEF PlanFollowed, Invoiced
<1> QED BY <1>3, <1>5 DEF PlanInd

\* The invoice of an installment
LEMMA InvoiceOfShape ==
  ASSUME NEW k \in 0 .. N, NEW advancing \in BOOLEAN, Makes(k, advancing)
  PROVE  LET bill == InvoiceOf(k, advancing)
         IN  /\ bill.slots = Due(k) /\ Due(k) # {}
             /\ bill.advance <=> k = 0
             /\ bill.state = "draft"
             /\ bill.deducts = IF k = 0 THEN {} ELSE Advances(advancing)
             /\ \A l \in OrderLine :
                  bill.bills[l] = IF k # 0 /\ <<k, l>> \in Due(k) THEN plan[<<k, l>>].amount ELSE 0
BY DEF InvoiceOf, Makes

LEMMA CreateInd == ASSUME PlanInd, PlanTypeOK', ActionInvoiceCreate PROVE PlanInd'
<1> USE DEF NoOrderInvoice
<1>0. PICK advancing \in BOOLEAN : MakeInvoices(advancing)
  BY CreateMakes
<1>1. /\ PlanTypeOK /\ made \in Nat /\ made' \in Nat /\ made <= made'
      /\ \A i \in 1 .. made : invoices'[i] = invoices[i]
  BY <1>0, MadeType, InvoicesMade DEF PlanInd
<1>2. \A k \in 0 .. N : Makes(k, advancing) =>
        /\ MadeFor(k, advancing) \in 1 .. made' /\ MadeFor(k, advancing) # 0
        /\ invoices'[MadeFor(k, advancing)] = InvoiceOf(k, advancing)
  <2> TAKE k \in 0 .. N
  <2>1. Makes(k, advancing) =>
          /\ MadeFor(k, advancing) \in made + 1 .. made'
          /\ invoices'[MadeFor(k, advancing)] = InvoiceOf(k, advancing)
    BY <1>0, <1>1, InvoicesMade
  <2> QED BY <1>1, <2>1
<1>3. \A s \in Slot :
        /\ plan'[s].there <=> plan[s].there
        /\ plan'[s].amount = plan[s].amount
        /\ plan'[s].ref = IF s \in Due(s[1])
                          THEN IF Makes(s[1], advancing) THEN MadeFor(s[1], advancing) ELSE 0
                          ELSE plan[s].ref
  BY <1>0, <1>1, InvoicesMade
<1>4. \A i \in 1 .. made' : \/ i \in 1 .. made
                            \/ \E k \in 0 .. N : /\ Makes(k, advancing)
                                                 /\ MadeFor(k, advancing) = i
                                                 /\ invoices'[i] = InvoiceOf(k, advancing)
  <2> TAKE i \in 1 .. made'
  <2>1. i \in 1 .. made \/ i \in made + 1 .. made'
    BY <1>1
  <2> QED BY <1>0, <1>1, <2>1, InvoicesMade
<1>5. ASSUME NEW i \in 1 .. made' PROVE InvoiceShape(i)'
  <2>1. CASE i \in 1 .. made
    BY <1>1, <2>1 DEF PlanInd, PlanShape, InvoiceShape
  <2>2. ASSUME NEW k \in 0 .. N, Makes(k, advancing), invoices'[i] = InvoiceOf(k, advancing)
        PROVE  InvoiceShape(i)'
    <3>1. \A s \in Due(k) : s \in Slot /\ s[1] = k
      BY DueSlots
    <3>2. \A s, t \in Due(k) : s[2] = t[2] => s = t
      BY <3>1, PlanConstants
    <3>3. Advance0 \in Due(k) => k = 0
      BY <3>1, PlanConstants
    <3>4. /\ invoices'[i].slots = Due(k) /\ Due(k) # {} /\ (invoices'[i].advance <=> k = 0)
          /\ \A l \in OrderLine : invoices'[i].bills[l] # 0 => <<k, l>> \in Due(k)
      BY <2>2, InvoiceOfShape
    <3> QED BY <3>2, <3>3, <3>4 DEF InvoiceShape
  <2> QED BY <1>4, <2>1, <2>2
<1>6. ASSUME NEW s \in Slot PROVE RowShape(s)'
  <2>0. s[1] \in 0 .. N
    BY PlanConstants
  <2>1. CASE s \in Due(s[1])
    <3>1. plan[s].there
      BY <2>0, <2>1, DueSlots
    <3>2. CASE Makes(s[1], advancing)
      BY <1>2, <1>3, <2>0, <2>1, <3>1, <3>2, InvoiceOfShape DEF RowShape
    <3>3. CASE ~Makes(s[1], advancing)
      BY <1>1, <1>3, <2>1, <3>1, <3>3 DEF RowShape
    <3> QED BY <3>2, <3>3
  <2>2. CASE s \notin Due(s[1])
    <3>1. RowShape(s) /\ plan'[s].ref = plan[s].ref
      BY <1>3, <2>2 DEF PlanInd, PlanShape
    <3>2. plan[s].ref \in 0 .. made' /\ (plan[s].ref # 0 => plan[s].ref \in 1 .. made)
      BY <1>1, <3>1 DEF RowShape
    <3> QED BY <1>1, <1>3, <3>1, <3>2 DEF RowShape
  <2> QED BY <2>1, <2>2
<1>7. PlanShape'
  <2>1. order' # "draft"
    BY CreateMakes
  <2> QED BY <1>5, <1>6, <2>1 DEF PlanShape
<1>8. /\ Regular' => Regular
      /\ Billable' => Billable /\ Regular' /\ Due(0) \subseteq {Advance0}
  BY CreateMakes DEF Regular, Billable
<1>9. ASSUME Regular', NEW i \in 1 .. made', Living(i)', NEW s \in invoices'[i].slots
      PROVE  plan'[s].ref = i
  <2>1. CASE i \in 1 .. made
    <3>1. Living(i) /\ s \in invoices[i].slots /\ s \in Slot
      BY <1>1, <1>9, <2>1 DEF Living, PlanTypeOK, OrderInvoice
    <3>2. plan[s].ref = i
      BY <1>8, <1>9, <2>1, <3>1 DEF PlanInd, PlanFollowed
    <3>3. Invoiced(s)
      BY <2>1, <3>1, <3>2 DEF Invoiced
    <3> QED BY <1>3, <3>1, <3>2, <3>3 DEF Due
  <2>2. ASSUME NEW k \in 0 .. N, Makes(k, advancing), MadeFor(k, advancing) = i,
               invoices'[i] = InvoiceOf(k, advancing)
        PROVE  plan'[s].ref = i
    <3>1. s \in Due(k) /\ s \in Slot /\ s[1] = k
      BY <1>9, <2>2, InvoiceOfShape, DueSlots
    <3> QED BY <1>3, <2>2, <3>1
  <2> QED BY <1>4, <2>1, <2>2
<1>10. ASSUME Billable', NEW s \in Slot, s # Advance0, Invoiced(s)'
       PROVE  invoices'[plan'[s].ref].bills[s[2]] = plan'[s].amount
  <2>0. s[1] \in 0 .. N /\ s[2] \in OrderLine /\ s = <<s[1], s[2]>>
    BY <1>10, PlanConstants
  <2>1. CASE s \in Due(s[1])
    <3>1. Makes(s[1], advancing)
      BY <1>3, <1>10, <2>1 DEF Invoiced
    <3>2. s[1] # 0
      BY <1>8, <1>10, <2>1
    <3>3. InvoiceOf(s[1], advancing).bills[s[2]] = plan[s].amount
      BY <2>0, <2>1, <3>1, <3>2, InvoiceOfShape
    <3> QED BY <1>2, <1>3, <2>0, <2>1, <3>1, <3>3
  <2>2. CASE s \notin Due(s[1])
    <3>1. plan'[s].ref = plan[s].ref /\ RowShape(s)
      BY <1>3, <2>2 DEF PlanInd, PlanShape
    <3>2. plan[s].ref \in 1 .. made
      BY <1>1, <1>10, <3>1 DEF RowShape, Invoiced
    <3>3. Invoiced(s)
      BY <1>1, <1>10, <3>1, <3>2 DEF Invoiced, Living
    <3>4. invoices[plan[s].ref].bills[s[2]] = plan[s].amount
      BY <1>8, <1>10, <3>3 DEF PlanInd, PlanFollowed
    <3> QED BY <1>1, <1>3, <3>1, <3>2, <3>4
  <2> QED BY <2>1, <2>2
<1>11. ASSUME Billable', NEW i \in 1 .. made', invoices'[i].advance
       PROVE  Advance0 \in invoices'[i].slots
  <2>1. CASE i \in 1 .. made
    BY <1>1, <1>8, <1>11, <2>1 DEF PlanInd, PlanFollowed
  <2>2. ASSUME NEW k \in 0 .. N, Makes(k, advancing), invoices'[i] = InvoiceOf(k, advancing)
        PROVE  Advance0 \in invoices'[i].slots
    <3>1. k = 0 /\ invoices'[i].slots = Due(k) /\ Due(k) # {}
      BY <1>11, <2>2, InvoiceOfShape
    <3> QED BY <1>8, <1>11, <3>1
  <2> QED BY <1>4, <2>1, <2>2
<1>12. PlanFollowed'
  BY <1>9, <1>10, <1>11 DEF PlanFollowed
<1> QED BY <1>7, <1>12 DEF PlanInd

\* A row is moved to another installment: its invoices, living or not, stay its own.
LEMMA RenumberInd ==
  ASSUME PlanInd, PlanTypeOK', NEW s \in Slot, NEW k \in 0 .. N, Renumber(s, k)
  PROVE  PlanInd'
<1> USE DEF NoOrderInvoice
<1> DEFINE t == <<k, s[2]>>
           moved(x) == IF x = s THEN t ELSE x
<1>0. PlanTypeOK /\ \A i \in 1 .. made : invoices[i].slots \subseteq Slot
  BY DEF PlanInd, PlanTypeOK, OrderInvoice
<1>1. /\ t \in Slot /\ t # s /\ s # Advance0 /\ t # Advance0
      /\ plan[s].there /\ ~plan[t].there
      /\ plan'[s] = NoPlanRow /\ plan'[t] = plan[s]
      /\ \A x \in Slot : x # s /\ x # t => plan'[x] = plan[x]
      /\ \A i \in 1 .. made :
           /\ invoices'[i].slots = {moved(x) : x \in invoices[i].slots}
           /\ invoices'[i].state = invoices[i].state
           /\ BillsSame(i)
      /\ made' = made /\ order' = order /\ planHistory' = planHistory
  BY <1>0, RenumberDoes
<1>2. plan[t].ref = 0
  BY <1>1 DEF PlanInd, PlanShape, RowShape
<1>3. t[2] = s[2] /\ \A x : moved(x)[2] = x[2]
  OBVIOUS
<1> HIDE DEF t
<1>4. ASSUME NEW i \in 1 .. made PROVE InvoiceShape(i)'
  <2>0. InvoiceShape(i) /\ BillsSame(i) /\ invoices'[i].slots = {moved(x) : x \in invoices[i].slots}
    BY <1>1 DEF PlanInd, PlanShape
  <2>1. invoices'[i].slots # {}
    BY <2>0 DEF InvoiceShape
  <2>2. ASSUME NEW x \in invoices[i].slots, NEW y \in invoices[i].slots, moved(x)[2] = moved(y)[2]
        PROVE  moved(x) = moved(y)
    BY <1>3, <2>0, <2>2 DEF InvoiceShape
  <2>3. ASSUME Advance0 \in invoices'[i].slots PROVE invoices'[i].advance
    BY <1>1, <2>0, <2>3 DEF InvoiceShape, BillsSame
  <2>4. ASSUME NEW l \in OrderLine, invoices'[i].bills[l] # 0
        PROVE  \E h \in 0 .. N : <<h, l>> \in invoices'[i].slots
    <3>1. PICK h \in 0 .. N : <<h, l>> \in invoices[i].slots
      BY <2>0, <2>4 DEF InvoiceShape, BillsSame
    <3>2. CASE <<h, l>> = s
      <4>1. t = <<k, l>>
        BY <3>2 DEF t
      <4> QED BY <2>0, <3>1, <3>2, <4>1
    <3>3. CASE <<h, l>> # s
      BY <2>0, <3>1, <3>3
    <3> QED BY <3>2, <3>3
  <2> QED BY <2>0, <2>1, <2>2, <2>3, <2>4 DEF InvoiceShape
<1>5. ASSUME NEW x \in Slot PROVE RowShape(x)'
  <2>1. CASE x = s
    <3>1. 0 \in 0 .. made
      BY <1>0, MadeType
    <3> QED BY <1>1, <2>1, <3>1 DEF RowShape, NoPlanRow
  <2>2. CASE x = t
    <3>1. RowShape(s) /\ plan[s].ref \in 0 .. made
      BY DEF PlanInd, PlanShape, RowShape
    <3>2. plan[s].ref # 0 => plan[s].ref \in 1 .. made
      BY <1>0, <3>1, MadeType
    <3> QED BY <1>1, <2>2, <3>1, <3>2 DEF RowShape
  <2>3. CASE x # s /\ x # t
    <3>1. RowShape(x) /\ plan[x].ref \in 0 .. made
      BY DEF PlanInd, PlanShape, RowShape
    <3>2. plan[x].ref # 0 => plan[x].ref \in 1 .. made
      BY <1>0, <3>1, MadeType
    <3> QED BY <1>1, <2>3, <3>1, <3>2 DEF RowShape
  <2> QED BY <2>1, <2>2, <2>3
<1>6. PlanShape'
  BY <1>1, <1>4, <1>5 DEF PlanInd, PlanShape
<1>7. (Regular' => Regular) /\ (Billable' => Billable)
  BY <1>1 DEF Regular, Billable
<1>8. ASSUME Regular', NEW i \in 1 .. made, Living(i)', NEW y \in invoices'[i].slots
      PROVE  plan'[y].ref = i
  <2>1. PICK x \in invoices[i].slots : y = moved(x)
    BY <1>1
  <2>2. plan[x].ref = i /\ x \in Slot /\ i # 0
    BY <1>0, <1>1, <1>7, <1>8 DEF PlanInd, PlanFollowed, Living
  <2> QED BY <1>1, <1>2, <2>1, <2>2
<1>9. ASSUME Billable', NEW x \in Slot, x # Advance0, Invoiced(x)'
      PROVE  invoices'[plan'[x].ref].bills[x[2]] = plan'[x].amount
  <2>1. x # s
    BY <1>1, <1>9 DEF Invoiced, NoPlanRow
  <2>2. PICK z \in Slot : z # Advance0 /\ z[2] = x[2] /\ plan'[x] = plan[z]
    BY <1>1, <1>3, <1>9, <2>1
  <2>3. plan[z].ref \in 1 .. made
    BY <1>0, <1>9, <2>2, MadeType DEF PlanInd, PlanShape, RowShape, Invoiced
  <2>4. Invoiced(z)
    BY <1>1, <1>9, <2>2, <2>3 DEF Invoiced, Living
  <2> QED BY <1>1, <1>7, <1>9, <2>2, <2>3, <2>4 DEF PlanInd, PlanFollowed, BillsSame
<1>10. ASSUME Billable', NEW i \in 1 .. made, invoices'[i].advance
       PROVE  Advance0 \in invoices'[i].slots
  <2>1. Advance0 \in invoices[i].slots
    BY <1>1, <1>7, <1>10 DEF PlanInd, PlanFollowed, BillsSame
  <2> QED BY <1>1, <2>1
<1>11. PlanFollowed'
  BY <1>1, <1>8, <1>9, <1>10 DEF PlanFollowed
<1> QED BY <1>6, <1>11 DEF PlanInd

\* A step keeps the rows and their invoices together.
LEMMA PlanStepInd == PlanInd /\ [PlanNext]_planVars => PlanInd'
<1> SUFFICES ASSUME PlanInd, [PlanNext]_planVars PROVE PlanInd'
  OBVIOUS
<1>0. PlanTypeOK /\ PlanTypeOK'
  BY PlanStepType DEF PlanInd
<1>1. ASSUME order' = "draft" => order = "draft", invoices' = invoices, made' = made,
             plan' = plan, planHistory' = planHistory
      PROVE  PlanInd'
  <2>1. \A i \in 1 .. made : PlanSame(i) /\ (Living(i)' <=> Living(i))
    BY <1>1 DEF PlanSame, BillsSame, Living
  <2> QED BY <1>0, <1>1, <2>1, StatesInd
<1>2. CASE PlanStep
  <2>1. CASE OpenPlanWizard
    BY <1>1, <2>1 DEF OpenPlanWizard
  <2>2. ASSUME NEW share \in [1 .. N -> {0, 50, 100}], NEW deposit \in Amount,
               DoCreateInvoicePlan(share, deposit)
        PROVE  PlanInd'
    BY <1>0, <2>2, NewPlanInd
  <2>3. ASSUME NEW s \in Slot, DeleteRow(s) \/ \E amount \in Amount : WriteRow(s, amount)
        PROVE  PlanInd'
    BY <1>0, <2>3, RowWrittenInd
  <2>4. ASSUME NEW s \in Slot, NEW k \in 0 .. N, Renumber(s, k) PROVE PlanInd'
    BY <1>0, <2>4, RenumberInd
  <2> QED BY <1>2, <2>1, <2>2, <2>3, <2>4 DEF PlanStep
<1>3. ASSUME NEW S, OrderCanceled(S) PROVE PlanInd'
  <2>1. order' = "draft" => order = "draft"
    BY <1>3 DEF OrderCanceled
  <2>2. /\ made' = made /\ plan' = plan /\ planHistory' = planHistory
        /\ \A i \in 1 .. made : PlanSame(i) /\ (Living(i)' => Living(i))
    BY <1>0, <1>3, CanceledSame
  <2> QED BY <1>0, <2>1, <2>2, StatesInd
<1>4. CASE OrderStep
  <2>1. CASE ActionButtonConfirm \/ InvoiceCorrected \/ BypassValidateAmount
    BY <1>1, <2>1 DEF ActionButtonConfirm, InvoiceCorrected, BypassValidateAmount
  <2>2. CASE ManualInvoice \/ InvoiceRecreate
    BY <1>0, <2>2, CreateInd DEF ManualInvoice, InvoiceRecreate
  <2>3. CASE ActionCancelDraftInvoices
    BY <1>3, <2>3 DEF ActionCancelDraftInvoices
  <2> QED BY <1>4, <2>1, <2>2, <2>3 DEF OrderStep
<1>5. CASE OrderInvoiceStep
  <2>1. PICK i \in 1 .. made : OrderInvoiceCancel(i) \/ OrderInvoiceProceed(i)
    BY <1>5 DEF OrderInvoiceStep
  <2>2. CASE OrderInvoiceCancel(i)
    BY <1>3, <2>2 DEF OrderInvoiceCancel
  <2>3. CASE OrderInvoiceProceed(i)
    <3>1. /\ made' = made /\ plan' = plan /\ order' = order /\ planHistory \subseteq planHistory'
          /\ \A k \in 1 .. made : PlanSame(k)
          /\ "revived" \notin planHistory' => \A k \in 1 .. made : Living(k)' <=> Living(k)
      BY <1>0, <2>3, ProceedSame
    <3>2. Regular' => \A k \in 1 .. made : Living(k)' => Living(k)
      BY <3>1 DEF Regular
    <3> QED BY <1>0, <3>1, <3>2, StatesInd
  <2> QED BY <2>1, <2>2, <2>3
<1>6. CASE UNCHANGED planVars
  BY <1>1, <1>6 DEF planVars
<1> QED BY <1>2, <1>4, <1>5, <1>6 DEF PlanNext

\* A row of the plan is in one living invoice at most (action_invoice_create skips the
\* rows whose invoice is not canceled).
THEOREM RowInvoicedOnceAlways == PlanSpec => []RowInvoicedOnce
<1>1. PlanInd => RowInvoicedOnce
  <2> SUFFICES ASSUME PlanInd, Regular, NEW i \in 1 .. made, NEW k \in 1 .. made,
                      Living(i), Living(k), invoices[i].slots \cap invoices[k].slots # {}
               PROVE  i = k
    BY DEF RowInvoicedOnce, Regular
  <2>1. PICK s : s \in invoices[i].slots /\ s \in invoices[k].slots
    OBVIOUS
  <2> QED BY <2>1 DEF PlanInd, PlanFollowed
<1> QED BY <1>1, PlanInitInd, PlanStepInd, PTL DEF PlanSpec

-----------------------------------------------------------------------------
(* The plan of a sales order: the advance *)

DeductInd == PlanInd /\ AdvanceDeductedOnce

\* Where no invoice is made and the advance stays, its deductions do.
LEMMA StatesDeduct ==
  ASSUME DeductInd, made' = made, plan'[Advance0].amount = plan[Advance0].amount,
         planHistory \subseteq planHistory',
         planHistory' \subseteq {"ignored"} => \A i \in 1 .. made : BillsSame(i) /\ (Living(i)' => Living(i))
  PROVE  AdvanceDeductedOnce'
<1> SUFFICES ASSUME planHistory' \subseteq {"ignored"}, plan'[Advance0].amount > 0, NEW i \in 1 .. made,
                    Living(i)', ~invoices'[i].advance
             PROVE  Cardinality(invoices'[i].deducts) = 1
  BY DEF AdvanceDeductedOnce, Advance0
<1>1. planHistory \subseteq {"ignored"} /\ plan[Advance0].amount > 0
  OBVIOUS
<1>2. Living(i) /\ ~invoices[i].advance /\ invoices'[i].deducts = invoices[i].deducts
  BY DEF BillsSame
<1> QED BY <1>1, <1>2 DEF DeductInd, AdvanceDeductedOnce, Advance0

\* When an order is invoiced without other rows in installment 0, the advance is one
\* living invoice or is to be made.
LEMMA OneAdvance ==
  ASSUME PlanInd, Billable, Due(0) \subseteq {Advance0}, plan[Advance0].amount > 0,
         NEW advancing \in Advancing
  PROVE  \E a \in Nat : Advances(advancing) = {a}
<1>0. /\ PlanTypeOK /\ made \in Nat /\ Advance0 \in Slot /\ 0 \in 0 .. N /\ Advance0[1] = 0
      /\ advancing = TRUE /\ Regular
  BY MadeType, PlanConstants DEF PlanInd, Advancing, Regular, Billable
<1>1. plan[Advance0].there
  <2>0. plan[Advance0] \in PlanRow
    BY <1>0 DEF PlanTypeOK
  <2>1. plan[Advance0].amount \in Nat
    BY <2>0 DEF PlanRow
  <2>2. plan[Advance0].amount # 0
    BY <2>1
  <2> QED BY <1>0, <2>2 DEF PlanInd, PlanShape, RowShape
<1>2. ASSUME NEW j \in 1 .. made, invoices[j].advance, Living(j)
      PROVE  plan[Advance0].ref = j /\ Invoiced(Advance0)
  <2>1. Advance0 \in invoices[j].slots
    BY <1>2 DEF PlanInd, PlanFollowed
  <2>2. plan[Advance0].ref = j
    BY <1>0, <1>2, <2>1 DEF PlanInd, PlanFollowed
  <2> QED BY <1>0, <1>2, <2>2 DEF Invoiced, NoOrderInvoice
<1>3. CASE Makes(0, advancing)
  <2>1. Advance0 \in Due(0)
    BY <1>0, <1>3 DEF Makes
  <2>2. ~Invoiced(Advance0)
    BY <2>1 DEF Due
  <2>3. {j \in 1 .. made : invoices[j].advance /\ Living(j)} = {}
    BY <1>2, <2>2
  <2>4. MadeFor(0, advancing) \in Nat
    <3> DEFINE M == {k \in 0 .. N : Makes(k, advancing)}
               c == Cardinality(M)
    <3>1. c \in Nat /\ \A k \in M : MadeFor(k, advancing) \in made + 1 .. made + c
      BY <1>0, MadeForRank
    <3>2. 0 \in M
      BY <1>0, <1>3
    <3>3. c \in Nat /\ MadeFor(0, advancing) \in made + 1 .. made + c
      BY <3>1, <3>2
    <3>4. made \in Nat
      BY <1>0
    <3> HIDE DEF M, c
    <3> QED BY <3>3, <3>4
  <2> QED BY <1>3, <2>3, <2>4 DEF Advances
<1>4. CASE ~Makes(0, advancing)
  <2>1. Due(0) = {}
    BY <1>0, <1>4 DEF Makes
  <2>2. Invoiced(Advance0)
    BY <1>0, <1>1, <2>1 DEF Due
  <2> DEFINE r == plan[Advance0].ref
  <2>3. r \in 1 .. made /\ Living(r) /\ Advance0 \in invoices[r].slots
    BY <1>0, <2>2 DEF PlanInd, PlanShape, RowShape, Invoiced, NoOrderInvoice
  <2>4. invoices[r].advance
    BY <1>0, <2>3 DEF PlanInd, PlanShape, InvoiceShape
  <2>5. Advances(advancing) = {r}
    <3> HIDE DEF r
    <3>1. {j \in 1 .. made : invoices[j].advance /\ Living(j)} = {r}
      BY <1>2, <2>3, <2>4 DEF r
    <3> QED BY <1>4, <3>1 DEF Advances
  <2>6. r \in Nat
    BY <1>0, <2>3
  <2> QED BY <2>5, <2>6
<1> QED BY <1>3, <1>4

\* Each invoice that is made deducts the one advance there is.
LEMMA CreateDeduct == ASSUME DeductInd, ActionInvoiceCreate PROVE AdvanceDeductedOnce'
<1> PICK advancing \in BOOLEAN : MakeInvoices(advancing) /\ advancing \in Advancing
  BY CreateMakes
<1>0. PlanTypeOK /\ made \in Nat /\ Advance0 \in Slot /\ made' \in Nat /\ PlanInd
  BY MadeType, InvoicesMade, PlanConstants DEF DeductInd, PlanInd
<1> SUFFICES ASSUME planHistory' \subseteq {"ignored"}, plan'[Advance0].amount > 0, NEW i \in 1 .. made',
                    Living(i)', ~invoices'[i].advance
             PROVE  Cardinality(invoices'[i].deducts) = 1
  BY DEF AdvanceDeductedOnce, Advance0
<1>1. /\ planHistory \subseteq {"ignored"} /\ plan[Advance0].amount > 0
      /\ Billable /\ Due(0) \subseteq {Advance0}
  BY <1>0, InvoicesMade, CreateMakes DEF Billable
<1>2. CASE i \in 1 .. made
  <2>1. invoices'[i] = invoices[i]
    BY <1>0, <1>2, InvoicesMade
  <2>2. Living(i) /\ ~invoices[i].advance
    BY <2>1 DEF Living
  <2> QED BY <1>1, <1>2, <2>1, <2>2 DEF DeductInd, AdvanceDeductedOnce, Advance0
<1>3. CASE i \in made + 1 .. made'
  <2>1. PICK k \in 0 .. N : Makes(k, advancing) /\ invoices'[i] = InvoiceOf(k, advancing)
    BY <1>0, <1>3, InvoicesMade
  <2>2. invoices'[i].deducts = Advances(advancing)
    BY <2>1, InvoiceOfShape
  <2>3. PICK a \in Nat : Advances(advancing) = {a}
    BY <1>0, <1>1, OneAdvance
  <2> QED BY <2>2, <2>3, FS_Singleton
<1> QED BY <1>0, <1>2, <1>3

LEMMA DeductStep == DeductInd /\ [PlanNext]_planVars => AdvanceDeductedOnce'
<1> SUFFICES ASSUME DeductInd, [PlanNext]_planVars PROVE AdvanceDeductedOnce'
  OBVIOUS
<1>0. PlanTypeOK /\ PlanTypeOK' /\ PlanInd
  BY PlanStepType DEF PlanInd, DeductInd
<1>1. ASSUME invoices' = invoices, made' = made, planHistory \subseteq planHistory',
             plan'[Advance0].amount = plan[Advance0].amount
      PROVE  AdvanceDeductedOnce'
  <2>1. \A i \in 1 .. made : BillsSame(i) /\ (Living(i)' <=> Living(i))
    BY <1>1 DEF BillsSame, Living
  <2> QED BY <1>1, <2>1, StatesDeduct
<1>2. CASE PlanStep
  <2>1. CASE OpenPlanWizard
    BY <1>1, <2>1 DEF OpenPlanWizard
  <2>2. ASSUME NEW share \in [1 .. N -> {0, 50, 100}], NEW deposit \in Amount,
               DoCreateInvoicePlan(share, deposit)
        PROVE  AdvanceDeductedOnce'
    <3>1. made' = made /\ (planHistory' \subseteq {"ignored"} => order = "draft")
      BY <2>2 DEF DoCreateInvoicePlan
    <3>2. planHistory' \subseteq {"ignored"} => made = 0
      BY <1>0, <3>1 DEF PlanInd, PlanShape
    <3> QED BY <3>1, <3>2 DEF AdvanceDeductedOnce
  <2>3. ASSUME NEW s \in Slot, DeleteRow(s) \/ \E amount \in Amount : WriteRow(s, amount)
        PROVE  AdvanceDeductedOnce'
    <3>0. /\ \A x \in Slot : x # s => plan'[x] = plan[x]
          /\ invoices' = invoices /\ made' = made /\ planHistory \subseteq planHistory'
      BY <1>0, <2>3, RowsAfter
    <3>1. CASE s # Advance0
      BY <1>1, <3>0, <3>1, PlanConstants
    <3>2. CASE s = Advance0 /\ DeleteRow(s)
      <4>1. plan'[Advance0] = NoPlanRow
        BY <1>0, <3>2, RowsAfter
      <4>2. ~(plan'[Advance0].amount > 0)
        BY <4>1 DEF NoPlanRow
      <4> QED BY <4>2 DEF AdvanceDeductedOnce, Advance0
    <3>3. CASE s = Advance0 /\ \E amount \in Amount : WriteRow(s, amount)
      <4>1. made > 0 => ~(planHistory' \subseteq {"ignored"})
        <5>1. made > 0 => "late advance" \in planHistory'
          BY <3>3 DEF WriteRow
        <5> QED BY <5>1
      <4>2. planHistory' \subseteq {"ignored"} => made = 0
        BY <1>0, <4>1, MadeType
      <4> QED BY <3>0, <4>2 DEF AdvanceDeductedOnce
    <3> QED BY <2>3, <3>1, <3>2, <3>3
  <2>4. ASSUME NEW s \in Slot, NEW k \in 0 .. N, Renumber(s, k) PROVE AdvanceDeductedOnce'
    <3>1. /\ made' = made /\ planHistory' = planHistory
          /\ \A i \in 1 .. made : BillsSame(i) /\ invoices'[i].state = invoices[i].state
          /\ plan'[Advance0] = plan[Advance0]
      BY <1>0, <2>4, RenumberDoes, PlanConstants
    <3> QED BY <3>1, StatesDeduct DEF Living
  <2> QED BY <1>2, <2>1, <2>2, <2>3, <2>4 DEF PlanStep
<1>3. ASSUME NEW S, OrderCanceled(S) PROVE AdvanceDeductedOnce'
  BY <1>0, <1>3, CanceledSame, StatesDeduct DEF PlanSame
<1>4. CASE OrderStep
  <2>1. CASE ActionButtonConfirm \/ InvoiceCorrected \/ BypassValidateAmount
    BY <1>1, <2>1 DEF ActionButtonConfirm, InvoiceCorrected, BypassValidateAmount
  <2>2. CASE ManualInvoice \/ InvoiceRecreate
    BY <2>2, CreateDeduct DEF ManualInvoice, InvoiceRecreate
  <2>3. CASE ActionCancelDraftInvoices
    BY <1>3, <2>3 DEF ActionCancelDraftInvoices
  <2> QED BY <1>4, <2>1, <2>2, <2>3 DEF OrderStep
<1>5. CASE OrderInvoiceStep
  <2>1. PICK i \in 1 .. made : OrderInvoiceCancel(i) \/ OrderInvoiceProceed(i)
    BY <1>5 DEF OrderInvoiceStep
  <2>2. CASE OrderInvoiceCancel(i)
    BY <1>3, <2>2 DEF OrderInvoiceCancel
  <2>3. CASE OrderInvoiceProceed(i)
    <3>1. /\ made' = made /\ plan' = plan /\ planHistory \subseteq planHistory'
          /\ \A k \in 1 .. made : PlanSame(k)
          /\ "revived" \notin planHistory' => \A k \in 1 .. made : Living(k)' <=> Living(k)
      BY <1>0, <2>3, ProceedSame
    <3> QED BY <1>0, <3>1, StatesDeduct DEF PlanSame
  <2> QED BY <2>1, <2>2, <2>3
<1>6. CASE UNCHANGED planVars
  BY <1>1, <1>6 DEF planVars
<1> QED BY <1>2, <1>4, <1>5, <1>6 DEF PlanNext

\* Each installment deducts the advance, and only once (_make_invoice,
\* which deducts the invoices of the order that are advances and not canceled).
THEOREM AdvanceDeductedOnceAlways == PlanSpec => []AdvanceDeductedOnce
<1>1. PlanInit => DeductInd
  BY PlanInitInd DEF DeductInd, AdvanceDeductedOnce, PlanInit
<1>2. DeductInd /\ [PlanNext]_planVars => DeductInd'
  BY PlanStepInd, DeductStep DEF DeductInd
<1>3. DeductInd => AdvanceDeductedOnce
  BY DEF DeductInd
<1> QED BY <1>1, <1>2, <1>3, PTL DEF PlanSpec

-----------------------------------------------------------------------------
(* The plan of a sales order: what is billed *)

BillInd == PlanInd /\ BilledInFull

\* What is billed of a line
SaleBill(l) == SumFunctionOnSet([i \in 1 .. made |-> invoices[i].bills[l]],
                                {i \in 1 .. made : Living(i)})

\* The bill of a line stays as long as invoices are neither made nor canceled.
LEMMA SameBill ==
  ASSUME BillInd, order' = order, made' = made,
         planHistory \subseteq planHistory',
         Billable' => \A i \in 1 .. made : BillsSame(i) /\ (Living(i)' <=> Living(i))
  PROVE  BilledInFull'
<1> SUFFICES ASSUME order' = "progress", Billable', "ignored" \notin planHistory', NEW l \in OrderLine
             PROVE  Rounded(SaleBill(l)') = Rounded(Subtotal[l])
  BY DEF BilledInFull, SaleBill, Billable
<1>1. Billable /\ "ignored" \notin planHistory
  BY DEF Billable
<1>2. Rounded(SaleBill(l)) = Rounded(Subtotal[l])
  BY <1>1 DEF BillInd, BilledInFull, SaleBill, Billable
<1>3. {i \in 1 .. made : Living(i)'} = {i \in 1 .. made : Living(i)}
  OBVIOUS
<1>4. [i \in 1 .. made |-> invoices'[i].bills[l]] = [i \in 1 .. made |-> invoices[i].bills[l]]
  BY DEF BillsSame
<1>5. SaleBill(l)' = SaleBill(l)
  BY <1>3, <1>4 DEF SaleBill
<1> QED BY <1>2, <1>5 DEF Rounded

\* The rows of a line
LEMMA LineRows ==
  ASSUME NEW l \in OrderLine
  PROVE  /\ IsFiniteSet(RowsOf(l))
         /\ \A s \in RowsOf(l) : s \in Slot /\ plan[s].there /\ s[1] \in 0 .. N /\ s = <<s[1], l>>
<1>1. \A s \in RowsOf(l) : s \in Slot /\ plan[s].there /\ s[2] = l
  BY DEF RowsOf
<1>2. ASSUME NEW s \in RowsOf(l) PROVE s[1] \in 0 .. N /\ s = <<s[1], l>>
  <2>1. s # Advance0
    BY <1>1, PlanConstants DEF Advance0
  <2> QED BY <1>1, <2>1, PlanConstants
<1> DEFINE g == [s \in RowsOf(l) |-> s[1]]
<1>3. IsFiniteSet(0 .. N)
  BY PlanConstants, FS_Interval
<1>4. g \in Injection(RowsOf(l), 0 .. N)
  BY <1>2 DEF Injection, IsInjective
<1>6. IsFiniteSet(RowsOf(l))
  BY <1>3, <1>4, FS_Injection
<1> QED BY <1>1, <1>2, <1>6

\* What is billed of a line once the order is invoiced is what its rows amount to: rows
\* and living invoices of the line are in bijection, but for invoices without it.
LEMMA CreateBills ==
  ASSUME PlanInd, PlanInd', ActionInvoiceCreate, Billable', NEW l \in OrderLine
  PROVE  SaleBill(l)' = SumFunctionOnSet([s \in Slot |-> plan[s].amount], RowsOf(l))
<1> USE DEF NoOrderInvoice
<1> PICK advancing \in BOOLEAN : MakeInvoices(advancing)
  BY CreateMakes
<1>0. PlanTypeOK /\ PlanTypeOK' /\ made' \in Nat /\ made \in Nat /\ made <= made'
  BY MadeType, InvoicesMade DEF PlanInd
<1>b. Regular' /\ Due(0) \subseteq {Advance0}
  BY CreateMakes DEF Regular, Billable
<1> DEFINE F == [s \in Slot |-> plan[s].amount]
           G == [i \in 1 .. made' |-> invoices'[i].bills[l]]
           T == {i \in 1 .. made' : Living(i)'}
           S == RowsOf(l)
           f == [s \in S |-> plan'[s].ref]
<1>1. SaleBill(l)' = SumFunctionOnSet(G, T)
  BY DEF SaleBill
<1>2. IsFiniteSet(S) /\ \A s \in S : s \in Slot /\ plan[s].there /\ s[1] \in 0 .. N /\ s = <<s[1], l>>
  BY LineRows
<1>3. IsFiniteSet(T)
  <2>1. IsFiniteSet(1 .. made')
    BY <1>0, FS_Interval
  <2>2. T \subseteq 1 .. made'
    OBVIOUS
  <2> HIDE DEF T
  <2> QED BY <2>1, <2>2, FS_Subset
<1>4. ASSUME NEW x \in S PROVE F[x] \in Int
  <2>1. x \in Slot
    BY <1>2
  <2>2. plan[x] \in PlanRow
    BY <1>0, <2>1 DEF PlanTypeOK
  <2>3. plan[x].amount \in Nat
    BY <2>2 DEF PlanRow
  <2> QED BY <2>1, <2>3
<1>5. ASSUME NEW y \in T PROVE G[y] \in Int
  <2>1. invoices'[y] \in OrderInvoice
    BY <1>0 DEF PlanTypeOK
  <2>2. invoices'[y].bills[l] \in Nat
    BY <2>1 DEF OrderInvoice
  <2> QED BY <2>2
<1>6. ASSUME NEW x \in S PROVE f[x] \in T /\ G[f[x]] = F[x]
  <2>0. /\ x \in Slot /\ x # Advance0 /\ x[1] \in 0 .. N /\ x[2] = l /\ plan[x].there
        /\ plan'[x].amount = plan[x].amount
    BY <1>0, <1>2, InvoicesMade, PlanConstants
  <2>1. Invoiced(x)'
    <3>1. CASE x \in Due(x[1])
      <4>0. x[1] # 0
        BY <1>b, <2>0, <3>1
      <4>1. Makes(x[1], advancing)
        BY <3>1, <4>0 DEF Makes
      <4>2. /\ MadeFor(x[1], advancing) \in made + 1 .. made'
            /\ invoices'[MadeFor(x[1], advancing)] = InvoiceOf(x[1], advancing)
            /\ plan'[x].ref = MadeFor(x[1], advancing)
        BY <1>0, <2>0, <3>1, <4>1, InvoicesMade
      <4>3. InvoiceOf(x[1], advancing).state = "draft"
        BY <2>0, <4>1, InvoiceOfShape
      <4>4. MadeFor(x[1], advancing) # 0
        BY <1>0, <4>2
      <4> QED BY <4>2, <4>3, <4>4 DEF Invoiced, Living
    <3>2. CASE x \notin Due(x[1])
      <4>1. Invoiced(x)
        BY <2>0, <3>2 DEF Due
      <4>2. plan'[x].ref = plan[x].ref /\ plan[x].ref \in 1 .. made
        BY <1>0, <2>0, <3>2, <4>1, InvoicesMade DEF PlanInd, PlanShape, RowShape, Invoiced
      <4>3. invoices'[plan[x].ref] = invoices[plan[x].ref]
        BY <1>0, <4>2, InvoicesMade
      <4> QED BY <4>1, <4>2, <4>3 DEF Invoiced, Living
    <3> QED BY <3>1, <3>2
  <2>2. plan'[x].ref \in 1 .. made'
    BY <1>0, <2>0, <2>1 DEF PlanInd, PlanShape, RowShape, Invoiced
  <2>3. invoices'[plan'[x].ref].bills[l] = plan'[x].amount
    BY <2>0, <2>1 DEF PlanInd, PlanFollowed
  <2> QED BY <2>0, <2>1, <2>2, <2>3 DEF Invoiced
<1>7. ASSUME NEW x \in S, NEW z \in S, f[x] = f[z] PROVE x = z
  <2>1. f[x] \in 1 .. made'
    BY <1>6
  <2>2. plan'[x].ref = f[x] /\ plan'[z].ref = f[x] /\ f[x] # 0
    BY <1>0, <1>7, <2>1
  <2>3. x \in invoices'[f[x]].slots /\ z \in invoices'[f[x]].slots
    <3> HIDE DEF f, S
    <3>1. RowShape(x)' /\ RowShape(z)'
      BY <1>2 DEF PlanInd, PlanShape
    <3> QED BY <2>2, <3>1 DEF RowShape
  <2>4. \A j \in 1 .. made' : \A t, u \in invoices'[j].slots : t[2] = u[2] => t = u
    <3> HIDE DEF f, S
    <3> QED BY DEF PlanInd, PlanShape, InvoiceShape
  <2>5. x[2] = z[2]
    BY <1>2
  <2> HIDE DEF f, S
  <2> QED BY <2>1, <2>3, <2>4, <2>5
<1>8. ASSUME NEW y \in T, G[y] # 0 PROVE \E x \in S : f[x] = y
  <2>1. y \in 1 .. made' /\ Living(y)' /\ invoices'[y].bills[l] # 0
    BY <1>8
  <2>2. PICK k \in 0 .. N : <<k, l>> \in invoices'[y].slots
    <3>1. InvoiceShape(y)'
      BY <2>1 DEF PlanInd, PlanShape
    <3> QED BY <2>1, <3>1 DEF InvoiceShape
  <2> DEFINE s == <<k, l>>
  <2>3. s \in Slot /\ s[2] = l
    BY PlanConstants
  <2> HIDE DEF s
  <2>4. plan'[s].ref = y
    BY <1>b, <2>1, <2>2 DEF PlanInd, PlanFollowed, s
  <2>5. plan[s].there
    <3>1. RowShape(s)' /\ y # 0
      BY <1>0, <2>1, <2>3 DEF PlanInd, PlanShape
    <3>2. plan'[s].there
      BY <2>4, <3>1 DEF RowShape
    <3> QED BY <1>0, <2>3, <3>2, InvoicesMade
  <2>6. s \in S
    BY <2>3, <2>5 DEF RowsOf
  <2> QED BY <2>4, <2>6
<1> HIDE DEF F, G, T, S, f
<1>9. SumFunctionOnSet(F, S) = SumFunctionOnSet(G, T)
  BY <1>2, <1>3, <1>4, <1>5, <1>6, <1>7, <1>8, SumReindex
<1> QED BY <1>1, <1>9 DEF F, S

LEMMA CreateBillsInFull ==
  ASSUME PlanInd, PlanInd', ActionInvoiceCreate PROVE BilledInFull'
<1> SUFFICES ASSUME Billable', "ignored" \notin planHistory', NEW l \in OrderLine
             PROVE  Rounded(SaleBill(l)') = Rounded(Subtotal[l])
  BY DEF BilledInFull, SaleBill, Billable
<1>1. ~bypass
  BY CreateMakes
<1>2. Rounded(SumFunctionOnSet([s \in Slot |-> plan[s].amount], RowsOf(l))) = Rounded(Subtotal[l])
  BY <1>1 DEF ActionInvoiceCreate, CheckInvoicePlan
<1> QED BY <1>2, CreateBills

LEMMA BillStep == BillInd /\ PlanInd' /\ [PlanNext]_planVars => BilledInFull'
<1> SUFFICES ASSUME BillInd, PlanInd', [PlanNext]_planVars PROVE BilledInFull'
  OBVIOUS
<1>0. PlanTypeOK /\ PlanInd
  BY DEF PlanInd, BillInd
<1>1. ASSUME order' = order, invoices' = invoices, made' = made,
             planHistory \subseteq planHistory'
      PROVE  BilledInFull'
  <2>1. \A i \in 1 .. made : BillsSame(i) /\ (Living(i)' <=> Living(i))
    BY <1>1 DEF BillsSame, Living
  <2> QED BY <1>1, <2>1, SameBill
<1>2. ASSUME order' # "progress" PROVE BilledInFull'
  BY <1>2 DEF BilledInFull
<1>3. CASE PlanStep
  <2>1. CASE OpenPlanWizard
    BY <1>1, <2>1 DEF OpenPlanWizard
  <2>2. ASSUME NEW share \in [1 .. N -> {0, 50, 100}], NEW deposit \in Amount,
               DoCreateInvoicePlan(share, deposit)
        PROVE  BilledInFull'
    BY <1>1, <2>2 DEF DoCreateInvoicePlan
  <2>3. ASSUME NEW s \in Slot, DeleteRow(s) \/ \E amount \in Amount : WriteRow(s, amount)
        PROVE  BilledInFull'
    BY <1>0, <1>1, <2>3, RowsAfter
  <2>4. ASSUME NEW s \in Slot, NEW k \in 0 .. N, Renumber(s, k) PROVE BilledInFull'
    <3>1. /\ UNCHANGED <<order, made, planHistory>>
          /\ \A i \in 1 .. made : BillsSame(i) /\ invoices'[i].state = invoices[i].state
      BY <1>0, <2>4, RenumberDoes
    <3> QED BY <3>1, SameBill DEF Living
  <2> QED BY <1>3, <2>1, <2>2, <2>3, <2>4 DEF PlanStep
<1>4. ASSUME NEW S, OrderCanceled(S) PROVE BilledInFull'
  <2>1. order' # "progress"
    BY <1>4 DEF OrderCanceled
  <2> QED BY <1>2, <2>1
<1>5. CASE OrderStep
  <2>1. CASE ActionButtonConfirm \/ InvoiceCorrected
    BY <1>2, <2>1 DEF ActionButtonConfirm, InvoiceCorrected
  <2>4. CASE BypassValidateAmount
    BY <1>1, <2>4 DEF BypassValidateAmount
  <2>2. CASE ManualInvoice \/ InvoiceRecreate
    BY <1>0, <2>2, CreateBillsInFull DEF ManualInvoice, InvoiceRecreate
  <2>3. CASE ActionCancelDraftInvoices
    BY <1>4, <2>3 DEF ActionCancelDraftInvoices
  <2> QED BY <1>5, <2>1, <2>2, <2>3, <2>4 DEF OrderStep
<1>6. CASE OrderInvoiceStep
  <2>1. PICK i \in 1 .. made : OrderInvoiceCancel(i) \/ OrderInvoiceProceed(i)
    BY <1>6 DEF OrderInvoiceStep
  <2>2. CASE OrderInvoiceCancel(i)
    BY <1>4, <2>2 DEF OrderInvoiceCancel
  <2>3. CASE OrderInvoiceProceed(i)
    <3>1. /\ made' = made /\ order' = order /\ planHistory \subseteq planHistory'
          /\ \A k \in 1 .. made : PlanSame(k)
          /\ "revived" \notin planHistory' => \A k \in 1 .. made : Living(k)' <=> Living(k)
      BY <1>0, <2>3, ProceedSame
    <3>2. Billable' => "revived" \notin planHistory'
      BY DEF Billable
    <3> QED BY <3>1, <3>2, SameBill DEF PlanSame
  <2> QED BY <2>1, <2>2, <2>3
<1>7. CASE UNCHANGED planVars
  BY <1>1, <1>7 DEF planVars
<1> QED BY <1>3, <1>5, <1>6, <1>7 DEF PlanNext

\* The living invoices of an order in progress bill it in full (_check_invoice_plan and
\* action_invoice_create).
THEOREM BilledInFullAlways == PlanSpec => []BilledInFull
<1>1. PlanInit => BillInd
  BY PlanInitInd DEF BillInd, BilledInFull, PlanInit
<1>2. BillInd /\ [PlanNext]_planVars => BillInd'
  BY PlanStepInd, BillStep DEF BillInd
<1>3. BillInd => BilledInFull
  BY DEF BillInd
<1> QED BY <1>1, <1>2, <1>3, PTL DEF PlanSpec

-----------------------------------------------------------------------------
(* The plan of a purchase order: what its steps do *)

LEMMA PurchaseConstants ==
  /\ IsFiniteSet(PurchaseLine) /\ NoPurchaseLine \notin PurchaseLine
  /\ LastInstallment \in Nat /\ BillBound \in Nat /\ Tenth \in Nat /\ Tenth > 0
  /\ FirstAmount \subseteq Nat /\ RowAmount \subseteq Nat
  /\ \A l \in PurchaseLine : PurchaseSubtotal[l] \in Nat /\ PurchaseSubtotal[l] > 0
  /\ First \in PlanSlot
  /\ \A s \in PlanSlot :
       /\ s[1] \in 0 .. LastInstallment /\ (s[1] = 0 <=> s = First)
       /\ s # First => s[2] \in PurchaseLine /\ s[1] \in 1 .. LastInstallment /\ s = <<s[1], s[2]>>
  /\ \A k \in 1 .. LastInstallment, l \in PurchaseLine :
       <<k, l>> \in PlanSlot /\ <<k, l>> # First
BY PurchasePlanAssumption DEF PlanSlot, First

LEMMA BillsType ==
  ASSUME PurchasePlanTypeOK
  PROVE  /\ Len(bills) \in Nat /\ Len(bills) <= BillBound /\ DOMAIN bills = 1 .. Len(bills)
         /\ \A i \in DOMAIN bills : bills[i] \in Bill /\ i \in Nat /\ i # 0
         /\ bills \in [1 .. Len(bills) -> Bill]
         /\ \A s \in PlanSlot : rows[s] \in BillRow
<1>1. bills \in Seq(Bill) /\ Len(bills) <= BillBound /\ rows \in [PlanSlot -> BillRow]
  BY DEF PurchasePlanTypeOK
<1>2. /\ Len(bills) \in Nat /\ DOMAIN bills = 1 .. Len(bills)
      /\ bills \in [1 .. Len(bills) -> Bill]
  BY <1>1, LenProperties
<1>3. \A i \in 1 .. Len(bills) : bills[i] \in Bill /\ i \in Nat /\ i # 0
  BY <1>2
<1> QED BY <1>1, <1>2, <1>3

LEMMA PurchaseInitType == PurchasePlanInit => PurchasePlanTypeOK
<1> SUFFICES ASSUME PurchasePlanInit PROVE PurchasePlanTypeOK
  OBVIOUS
<1>1. NoBillRow \in BillRow
  BY DEF NoBillRow, BillRow
<1>2. rows \in [PlanSlot -> BillRow]
  BY <1>1 DEF PurchasePlanInit
<1>3. bills \in Seq(Bill) /\ Len(bills) <= BillBound
  BY PurchaseConstants, EmptySeq DEF PurchasePlanInit
<1> QED BY <1>2, <1>3 DEF PurchasePlanInit, PurchasePlanTypeOK

\* A bill but for its state
BillSame(i) ==
  /\ bills'[i].kind = bills[i].kind
  /\ bills'[i].slots = bills[i].slots
  /\ bills'[i].amount = bills[i].amount
  /\ bills'[i].first = bills[i].first
  /\ bills'[i].deducted = bills[i].deducted

LEMMA BillWithState ==
  ASSUME NEW bill \in Bill, NEW new \in {"draft", "open", "paid", "cancel"}
  PROVE  LET b == [bill EXCEPT !.state = new]
         IN  /\ b \in Bill /\ b.state = new /\ b.kind = bill.kind /\ b.slots = bill.slots
             /\ b.amount = bill.amount /\ b.first = bill.first /\ b.deducted = bill.deducted
BY DEF Bill

LEMMA BillsCanceledSame ==
  ASSUME PurchasePlanTypeOK, NEW S, BillsCanceled(S)
  PROVE  /\ bills' \in Seq(Bill) /\ Len(bills') = Len(bills)
         /\ \A i \in DOMAIN bills : BillSame(i) /\ (Valid(i)' => Valid(i))
<1> DEFINE n == Len(bills)
<1>0. n \in Nat /\ DOMAIN bills = 1 .. n /\ bills' = [i \in 1 .. n |-> bills'[i]]
  BY BillsType DEF BillsCanceled
<1>1. ASSUME NEW i \in 1 .. n
      PROVE  bills'[i] \in Bill /\ BillSame(i) /\ (Valid(i)' => Valid(i))
  <2> DEFINE b == [bills[i] EXCEPT !.state = "cancel"]
  <2>1. bills[i] \in Bill
    BY <1>0, BillsType
  <2>2. /\ b \in Bill /\ b.state = "cancel" /\ b.kind = bills[i].kind /\ b.slots = bills[i].slots
        /\ b.amount = bills[i].amount /\ b.first = bills[i].first
        /\ b.deducted = bills[i].deducted
    BY <2>1, BillWithState
  <2>3. bills'[i] = IF i \in S THEN b ELSE bills[i]
    BY <1>0 DEF BillsCanceled
  <2> HIDE DEF b
  <2> QED BY <2>1, <2>2, <2>3 DEF BillSame, Valid
<1>2. bills' \in [1 .. n -> Bill]
  BY <1>0, <1>1
<1> HIDE DEF n
<1>3. bills' \in Seq(Bill) /\ Len(bills') = n
  BY <1>0, <1>2, AsSequence
<1> QED BY <1>0, <1>1, <1>3 DEF n

LEMMA BillProceedSame ==
  ASSUME PurchasePlanTypeOK, NEW i \in DOMAIN bills, BillProceed(i)
  PROVE  /\ bills' \in Seq(Bill) /\ Len(bills') = Len(bills)
         /\ \A k \in DOMAIN bills : BillSame(k)
         /\ billHistory' \in {billHistory, billHistory \cup {"revived"}}
         /\ billHistory' = {} => \A k \in DOMAIN bills : Valid(k)' => Valid(k)
<1> DEFINE next == CASE bills[i].state = "draft" -> "open"
                     [] bills[i].state = "open" -> "paid"
                     [] bills[i].state = "cancel" -> "draft"
           b == [bills[i] EXCEPT !.state = next]
           n == Len(bills)
<1>0. n \in Nat /\ DOMAIN bills = 1 .. n /\ bills \in [1 .. n -> Bill]
  BY BillsType
<1>1. bills[i] \in Bill /\ bills[i].state \in {"draft", "open", "cancel"}
  BY <1>0 DEF Bill, BillProceed
<1>2. next \in {"draft", "open", "paid"}
  BY <1>1
<1>3. bills' = [bills EXCEPT ![i] = b]
  BY DEF BillProceed
<1>4. /\ b \in Bill /\ b.kind = bills[i].kind /\ b.slots = bills[i].slots
      /\ b.amount = bills[i].amount /\ b.first = bills[i].first
      /\ b.deducted = bills[i].deducted
  <2>1. next \in {"draft", "open", "paid", "cancel"}
    BY <1>2
  <2> HIDE DEF next
  <2> QED BY <1>1, <2>1, BillWithState
<1> HIDE DEF b, next
<1>5. bills'[i] = b /\ \A k \in DOMAIN bills : k # i => bills'[k] = bills[k]
  BY <1>0, <1>3
<1>6. bills' \in [1 .. n -> Bill]
  BY <1>0, <1>3, <1>4
<1> HIDE DEF n
<1>7. bills' \in Seq(Bill) /\ Len(bills') = n
  BY <1>0, <1>6, AsSequence
<1>8. \A k \in DOMAIN bills : BillSame(k)
  BY <1>4, <1>5 DEF BillSame
<1>9. billHistory' = IF Valid(i) THEN billHistory ELSE billHistory \cup {"revived"}
  BY DEF BillProceed
<1>10. billHistory' = {} => \A k \in DOMAIN bills : Valid(k)' => Valid(k)
  BY <1>5, <1>9 DEF Valid
<1> QED BY <1>7, <1>8, <1>9, <1>10 DEF n

-----------------------------------------------------------------------------
(* The plan of a purchase order: the bills that are made *)

LEMMA BillForRank ==
  ASSUME PurchasePlanTypeOK
  PROVE  LET M == {k \in 0 .. LastInstallment : Billing(k)}
             n == Len(bills)
         IN  /\ IsFiniteSet(M) /\ Cardinality(M) \in Nat
             /\ \A k \in M : BillFor(k) \in n + 1 .. n + Cardinality(M)
             /\ \A j, k \in M : BillFor(j) = BillFor(k) => j = k
             /\ \A i \in n + 1 .. n + Cardinality(M) : \E k \in M : BillFor(k) = i
<1> DEFINE M == {k \in 0 .. LastInstallment : Billing(k)}
           n == Len(bills)
<1>1. M \in SUBSET (0 .. LastInstallment) /\ LastInstallment \in Nat /\ n \in Nat
  BY PurchaseConstants, BillsType
<1>2. \A k \in M : BillFor(k) = n + Rank(M, k)
  <2> TAKE k \in M
  <2>1. {h \in 0 .. k : Billing(h)} = M \cap (0 .. k)
    BY <1>1
  <2> QED BY <2>1 DEF BillFor, Rank
<1> HIDE DEF M, n
<1>3. /\ IsFiniteSet(M) /\ Cardinality(M) \in Nat
      /\ \A k \in M : Rank(M, k) \in 1 .. Cardinality(M)
      /\ \A j, k \in M : Rank(M, j) = Rank(M, k) => j = k
      /\ \A r \in 1 .. Cardinality(M) : \E k \in M : Rank(M, k) = r
  BY <1>1, Ranks
<1>4. \A k \in M : BillFor(k) \in n + 1 .. n + Cardinality(M)
  BY <1>1, <1>2, <1>3
<1>5. \A j, k \in M : BillFor(j) = BillFor(k) => j = k
  <2> TAKE j, k \in M
  <2>1. Rank(M, j) \in Int /\ Rank(M, k) \in Int
    BY <1>3
  <2> QED BY <1>1, <1>2, <1>3, <2>1
<1>6. \A i \in n + 1 .. n + Cardinality(M) : \E k \in M : BillFor(k) = i
  <2> TAKE i \in n + 1 .. n + Cardinality(M)
  <2>1. i - n \in 1 .. Cardinality(M)
    BY <1>1, <1>3
  <2>2. PICK k \in M : Rank(M, k) = i - n
    BY <1>3, <2>1
  <2> QED BY <1>1, <1>2, <2>2
<1> QED BY <1>3, <1>4, <1>5, <1>6 DEF M, n

LEMMA UnbilledSlots ==
  ASSUME NEW k \in 0 .. LastInstallment
  PROVE  /\ Unbilled(k) \subseteq PlanSlot
         /\ \A s \in Unbilled(k) : s[1] = k /\ rows[s].there /\ ~HasBill(s)
         /\ Unbilled(0) \subseteq {First}
BY PurchaseConstants DEF Unbilled, Planned

LEMMA SlotsFinite == IsFiniteSet(PlanSlot)
<1>1. IsFiniteSet(1 .. LastInstallment) /\ IsFiniteSet(PurchaseLine)
  <2>1. 1 \in Int /\ LastInstallment \in Int
    BY PurchaseConstants
  <2> QED BY <2>1, PurchaseConstants, FS_Interval
<1>2. IsFiniteSet((1 .. LastInstallment) \X PurchaseLine)
  BY <1>1, FS_Product
<1>3. IsFiniteSet({First})
  BY FS_Singleton
<1> QED BY <1>2, <1>3, FS_Union DEF PlanSlot

\* What rows amount to is a number.
LEMMA RowsSumType ==
  ASSUME PurchasePlanTypeOK, NEW S \in SUBSET PlanSlot
  PROVE  RowsSum(S) \in Nat
<1>1. IsFiniteSet(S)
  BY SlotsFinite, FS_Subset
<1>2. \A s \in S : [t \in PlanSlot |-> rows[t].amount][s] \in Nat
  BY BillsType DEF BillRow
<1> QED BY <1>1, <1>2, SumNotNegative DEF RowsSum

LEMMA OrderTotalType ==
  /\ OrderTotal \in Nat
  /\ PurchaseLine # {} => OrderTotal > 0
<1>1. \A l \in PurchaseLine : PurchaseSubtotal[l] \in Nat
  BY PurchaseConstants
<1>2. OrderTotal \in Nat
  BY <1>1, PurchaseConstants, SumNotNegative DEF OrderTotal
<1>3. ASSUME NEW l \in PurchaseLine PROVE OrderTotal > 0
  <2> DEFINE rest == SumFunctionOnSet(PurchaseSubtotal, PurchaseLine \ {l})
  <2>1. IsFiniteSet(PurchaseLine \ {l})
    BY PurchaseConstants, FS_Subset
  <2>2. rest \in Nat
    BY <1>1, <2>1, SumNotNegative
  <2>3. \A x \in PurchaseLine : PurchaseSubtotal[x] \in Int
    BY <1>1
  <2>4. OrderTotal = PurchaseSubtotal[l] + rest
    BY <2>3, PurchaseConstants, SumRemove DEF OrderTotal
  <2> HIDE DEF rest
  <2> QED BY <2>2, <2>4, PurchaseConstants
<1> QED BY <1>2, <1>3

\* The part of an advance is it times what is billed over the order, to half a unit.
LEMMA AdvancePartIs ==
  ASSUME NEW advance \in Nat, NEW billed \in Nat, billed > 0 => OrderTotal > 0
  PROVE  /\ AdvancePart(advance, billed) \in Nat
         /\ billed > 0 =>
              AmountsNear(2 * (OrderTotal * AdvancePart(advance, billed)),
                          2 * (advance * billed), OrderTotal)
         /\ advance = 0 => AdvancePart(advance, billed) = 0
<1>1. CASE billed = 0
  BY <1>1 DEF AdvancePart
<1>2. CASE billed > 0
  <2> DEFINE T == OrderTotal
             x == advance * billed
             q == (2 * x + T) \div (2 * T)
  <2>1. T \in Nat /\ T > 0 /\ x \in Nat /\ (advance = 0 => x = 0)
    BY <1>2, OrderTotalType
  <2>2. AdvancePart(advance, billed) = q
    <3>1. 2 * advance * billed = 2 * x
      OBVIOUS
    <3> HIDE DEF x
    <3> QED BY <1>2, <3>1 DEF AdvancePart
  <2> HIDE DEF T, x
  <2>3. /\ q \in Nat /\ 2 * T * q <= 2 * x + T /\ 2 * x + T < 2 * T * q + 2 * T
        /\ 2 * T * q = 2 * (T * q)
    <3>1. 2 * T \in Nat /\ 2 * T > 0 /\ 2 * x + T \in Nat
      BY <2>1
    <3> DEFINE d == 2 * T
               m == 2 * x + T
    <3> HIDE DEF d, m
    <3>2. d \in Nat /\ d > 0 /\ m \in Nat
      BY <3>1 DEF d, m
    <3>3. m \div d \in Nat /\ d * (m \div d) <= m /\ m < d * (m \div d) + d
      BY <3>2
    <3>4. 2 * T * q = 2 * (T * q)
      <4>1. q \in Nat
        BY <3>3 DEF d, m
      <4> HIDE DEF q
      <4> QED BY <2>1, <4>1
    <3> QED BY <3>3, <3>4 DEF d, m
  <2>4. x = 0 => q = 0
    <3> SUFFICES ASSUME x = 0 PROVE q = 0
      OBVIOUS
    <3>1. 2 * x + T = T
      BY <2>1
    <3> QED BY <2>1, <3>1
  <2> HIDE DEF q
  <2>5. AmountsNear(2 * (T * q), 2 * x, T)
    <3>1. T * q \in Int
      BY <2>1, <2>3
    <3> QED BY <2>1, <2>3, <3>1 DEF AmountsNear
  <2> QED BY <2>1, <2>2, <2>3, <2>4, <2>5 DEF T, x
<1> QED BY <1>1, <1>2

\* Making bills: what is made of each installment, and what becomes of its rows
LEMMA BillsMade ==
  ASSUME PurchasePlanTypeOK, BillsCreated
  PROVE  /\ Len(bills)' \in Nat /\ Len(bills) <= Len(bills') /\ Len(bills') <= BillBound
         /\ DOMAIN bills' = 1 .. Len(bills')
         /\ \A i \in DOMAIN bills : bills'[i] = bills[i]
         /\ \A i \in DOMAIN bills' : i \in DOMAIN bills \/
              \E k \in 0 .. LastInstallment :
                Billing(k) /\ BillFor(k) = i /\ bills'[i] = BillOf(k)
         /\ \A k \in 0 .. LastInstallment : Billing(k) =>
              /\ BillFor(k) \in DOMAIN bills' /\ BillFor(k) \notin DOMAIN bills
              /\ bills'[BillFor(k)] = BillOf(k)
         /\ \A j, k \in 0 .. LastInstallment :
              Billing(j) /\ Billing(k) /\ BillFor(j) = BillFor(k) => j = k
<1> DEFINE M == {k \in 0 .. LastInstallment : Billing(k)}
           n == Len(bills)
           all == n + Cardinality(M)
<1>1. /\ all <= BillBound
      /\ bills' = [i \in 1 .. all |->
                     IF i <= n THEN bills[i] ELSE BillOf(CHOOSE k \in M : BillFor(k) = i)]
  BY DEF BillsCreated
<1>2. /\ Cardinality(M) \in Nat
      /\ \A k \in M : BillFor(k) \in n + 1 .. all
      /\ \A j, k \in M : BillFor(j) = BillFor(k) => j = k
      /\ \A i \in n + 1 .. all : \E k \in M : BillFor(k) = i
  BY BillForRank
<1>3. n \in Nat /\ DOMAIN bills = 1 .. n
  BY BillsType
<1>4. all \in Nat /\ n <= all
  <2> HIDE DEF M, n
  <2> QED BY <1>2, <1>3
<1>5. DOMAIN bills' = 1 .. all /\ Len(bills') = all
  <2>1. bills' \in [1 .. all -> {bills'[i] : i \in 1 .. all}]
    <3> HIDE DEF all, n, M
    <3> QED BY <1>1
  <2> HIDE DEF all
  <2> QED BY <1>4, <2>1, AsSequence
<1>6. \A i \in 1 .. n : bills'[i] = bills[i]
  <2> HIDE DEF M, n, all
  <2> QED BY <1>1, <1>3, <1>4
<1>7. ASSUME NEW k \in M
      PROVE  BillFor(k) \in 1 .. all /\ BillFor(k) \notin 1 .. n /\ bills'[BillFor(k)] = BillOf(k)
  <2>1. (CHOOSE j \in M : BillFor(j) = BillFor(k)) = k
    <3> HIDE DEF M
    <3> QED BY <1>2
  <2>2. BillFor(k) \in 1 .. all /\ ~(BillFor(k) <= n) /\ BillFor(k) \notin 1 .. n
    <3> HIDE DEF M, n, all
    <3> QED BY <1>2, <1>3, <1>4
  <2>3. bills'[BillFor(k)] = BillOf(CHOOSE j \in M : BillFor(j) = BillFor(k))
    <3> HIDE DEF M, n, all
    <3> QED BY <1>1, <2>2
  <2> QED BY <2>1, <2>2, <2>3
<1>8. ASSUME NEW i \in 1 .. all, i \notin 1 .. n
      PROVE  \E k \in M : BillFor(k) = i /\ bills'[i] = BillOf(k)
  <2>1. i \in n + 1 .. all
    <3> HIDE DEF M, n, all
    <3> QED BY <1>3, <1>4, <1>8
  <2>2. PICK k \in M : BillFor(k) = i
    BY <1>2, <2>1
  <2> QED BY <1>7, <2>2
<1>9. \A k \in 0 .. LastInstallment : Billing(k) <=> k \in M
  OBVIOUS
<1> HIDE DEF M, n, all
<1>10. \A i \in DOMAIN bills' : i \in DOMAIN bills \/
         \E k \in 0 .. LastInstallment : Billing(k) /\ BillFor(k) = i /\ bills'[i] = BillOf(k)
  <2> TAKE i \in DOMAIN bills'
  <2>1. SUFFICES ASSUME i \notin DOMAIN bills
                 PROVE  \E k \in 0 .. LastInstallment :
                          Billing(k) /\ BillFor(k) = i /\ bills'[i] = BillOf(k)
    OBVIOUS
  <2>2. PICK k \in M : BillFor(k) = i /\ bills'[i] = BillOf(k)
    BY <1>3, <1>5, <1>8, <2>1
  <2> QED BY <2>2 DEF M
<1> QED BY <1>1, <1>2, <1>3, <1>4, <1>5, <1>6, <1>7, <1>9, <1>10 DEF n

\* Making bills changes what bills rows have, and nothing else of them.
LEMMA RowsBilled ==
  ASSUME PurchasePlanTypeOK, BillsCreated
  PROVE  /\ rows' \in [PlanSlot -> BillRow]
         /\ \A s \in PlanSlot :
              /\ rows'[s].there <=> rows[s].there
              /\ rows'[s].amount = rows[s].amount
              /\ rows'[s].ref = IF s \in Unbilled(s[1])
                                THEN IF Billing(s[1]) THEN BillFor(s[1]) ELSE NoBill
                                ELSE rows[s].ref
<1>1. rows' = [s \in PlanSlot |->
                 IF s \in Unbilled(s[1])
                 THEN [rows[s] EXCEPT !.ref = IF Billing(s[1]) THEN BillFor(s[1]) ELSE NoBill]
                 ELSE rows[s]]
  BY DEF BillsCreated
<1>2. ASSUME NEW s \in PlanSlot
      PROVE  /\ rows'[s] \in BillRow
             /\ rows'[s].there <=> rows[s].there
             /\ rows'[s].amount = rows[s].amount
             /\ rows'[s].ref = IF s \in Unbilled(s[1])
                               THEN IF Billing(s[1]) THEN BillFor(s[1]) ELSE NoBill
                               ELSE rows[s].ref
  <2> DEFINE ref == IF Billing(s[1]) THEN BillFor(s[1]) ELSE NoBill
             row == [rows[s] EXCEPT !.ref = ref]
  <2>1. rows[s] \in BillRow
    BY BillsType
  <2>2. ref \in (1 .. BillBound) \cup {NoBill}
    <3>1. CASE Billing(s[1])
      <4>1. s[1] \in 0 .. LastInstallment
        BY PurchaseConstants
      <4>2. BillFor(s[1]) \in 1 .. Len(bills') /\ Len(bills') \in Nat /\ Len(bills') <= BillBound
        BY <3>1, <4>1, BillsMade
      <4>3. BillFor(s[1]) \in 1 .. BillBound
        BY <4>2, PurchaseConstants
      <4> QED BY <3>1, <4>3
    <3>2. CASE ~Billing(s[1])
      BY <3>2
    <3> QED BY <3>1, <3>2
  <2> HIDE DEF ref
  <2>3. /\ row \in BillRow /\ row.there = rows[s].there /\ row.amount = rows[s].amount
        /\ row.ref = ref
    BY <2>1, <2>2 DEF BillRow
  <2>4. rows'[s] = IF s \in Unbilled(s[1]) THEN row ELSE rows[s]
    BY <1>1 DEF ref
  <2> HIDE DEF row
  <2> QED BY <2>1, <2>3, <2>4 DEF ref
<1>3. rows' \in [PlanSlot -> BillRow]
  BY <1>1, <1>2
<1> QED BY <1>2, <1>3

-----------------------------------------------------------------------------
(* The plan of a purchase order: the types *)

\* The row of the first bill is there only if there may be such a bill.
FirstNamed == rows[First].there => firstBill # "none"

PlanTyped == PurchasePlanTypeOK /\ FirstNamed

LEMMA BillingFirst ==
  ASSUME PlanTyped, Billing(0)
  PROVE  /\ firstBill \in {"advance", "deposit"} /\ Unbilled(0) = {First}
         /\ rows[First].there /\ ~HasBill(First) /\ rows[First].amount > 0
<1>1. 0 \in 0 .. LastInstallment
  BY PurchaseConstants
<1>2. First \in Unbilled(0) /\ Unbilled(0) = {First} /\ rows[First].amount > 0
  BY <1>1, UnbilledSlots DEF Billing
<1>3. rows[First].there /\ ~HasBill(First)
  BY <1>1, <1>2, UnbilledSlots
<1> QED BY <1>2, <1>3 DEF PlanTyped, FirstNamed, PurchasePlanTypeOK

\* The first bills that are deducted
LEMMA FirstBillsTyped ==
  ASSUME PlanTyped, BillsCreated, NEW kind \in {"advance", "deposit"}
  PROVE  /\ FirstBills(kind) \in SUBSET (1 .. BillBound)
         /\ \A i \in FirstBills(kind) : FirstAmountOf(i) \in Nat
<1>0. PurchasePlanTypeOK
  BY DEF PlanTyped
<1>1. DOMAIN bills \subseteq 1 .. BillBound
  BY <1>0, BillsType, PurchaseConstants
<1>2. ASSUME Billing(0) PROVE BillFor(0) \in 1 .. BillBound
  <2>1. BillFor(0) \in 1 .. Len(bills') /\ Len(bills') \in Nat /\ Len(bills') <= BillBound
    BY <1>0, <1>2, BillsMade, PurchaseConstants
  <2> QED BY <2>1, PurchaseConstants
<1>3. \A i \in DOMAIN bills : bills[i].first \in Nat
  BY <1>0, BillsType DEF Bill
<1>4. rows[First].amount \in Nat
  BY <1>0, BillsType, PurchaseConstants DEF BillRow
<1> QED BY <1>1, <1>2, <1>3, <1>4 DEF FirstBills, FirstAmountOf

\* An installment that is billed has rows for lines of the order.
LEMMA InstallmentRows ==
  ASSUME PurchasePlanTypeOK, NEW k \in 1 .. LastInstallment
  PROVE  /\ First \notin Unbilled(k) /\ Unbilled(k) \subseteq PlanSlot
         /\ BilledOf(k) = RowsSum(Unbilled(k)) /\ BilledOf(k) \in Nat
         /\ BilledOf(k) > 0 => PurchaseLine # {}
         /\ Billing(k) => PurchaseLine # {}
<1>0. k \in 0 .. LastInstallment /\ k # 0
  BY PurchaseConstants
<1>1. Unbilled(k) \in SUBSET PlanSlot /\ \A s \in Unbilled(k) : s[1] = k
  BY <1>0, UnbilledSlots
<1>2. First \notin Unbilled(k)
  BY <1>0, <1>1, PurchaseConstants
<1>3. Unbilled(k) \ {First} = Unbilled(k)
  BY <1>2
<1>4. BilledOf(k) = RowsSum(Unbilled(k)) /\ BilledOf(k) \in Nat
  BY <1>1, <1>3, RowsSumType DEF BilledOf
<1>5. Unbilled(k) # {} => PurchaseLine # {}
  BY <1>0, <1>1, PurchaseConstants
<1>6. Unbilled(k) = {} => BilledOf(k) = 0
  BY <1>4, SumEmpty DEF RowsSum
<1> QED BY <1>1, <1>2, <1>4, <1>5, <1>6 DEF Billing

LEMMA BillOfType ==
  ASSUME PlanTyped, BillsCreated, NEW k \in 0 .. LastInstallment, Billing(k)
  PROVE  BillOf(k) \in Bill
<1>0. PurchasePlanTypeOK
  BY DEF PlanTyped
<1>1. Unbilled(k) \in SUBSET PlanSlot
  BY UnbilledSlots
<1>2. [l \in PurchaseLine |-> IF <<k, l>> \in Unbilled(k) THEN rows[<<k, l>>].amount ELSE 0]
        \in [PurchaseLine -> Nat]
  BY <1>0, <1>1, BillsType DEF BillRow
<1>3. (IF k = 0 THEN rows[First].amount ELSE 0) \in Nat
  BY <1>0, BillsType, PurchaseConstants DEF BillRow
<1>4. (IF k = 0 THEN firstBill ELSE "installment") \in {"advance", "deposit", "installment"}
  BY BillingFirst
<1>5. /\ Deducts(k) \in SUBSET (1 .. BillBound)
      /\ \A i \in Deducts(k) : FirstAmountOf(i) \in Nat
  BY FirstBillsTyped DEF Deducts
<1>6. DeductedFrom(k) \in Nat
  <2> DEFINE f == [i \in Deducts(k) |-> IF i \in FirstBills("advance")
                                        THEN AdvancePart(FirstAmountOf(i), BilledOf(k))
                                        ELSE FirstAmountOf(i)]
  <2>1. IsFiniteSet(Deducts(k))
    <3>1. IsFiniteSet(1 .. BillBound)
      <4>1. 1 \in Int /\ BillBound \in Int
        BY PurchaseConstants
      <4> QED BY <4>1, FS_Interval
    <3> QED BY <1>5, <3>1, FS_Subset
  <2>2. ASSUME NEW i \in Deducts(k) PROVE f[i] \in Nat
    <3>1. k \in 1 .. LastInstallment
      BY <2>2, PurchaseConstants DEF Deducts
    <3>2. BilledOf(k) \in Nat /\ OrderTotal > 0
      BY <1>0, <3>1, InstallmentRows, OrderTotalType
    <3>3. AdvancePart(FirstAmountOf(i), BilledOf(k)) \in Nat
      BY <1>5, <3>2, AdvancePartIs
    <3> QED BY <1>5, <3>3
  <2> HIDE DEF f
  <2>3. SumFunctionOnSet(f, Deducts(k)) \in Nat
    BY <2>1, <2>2, SumNotNegative
  <2> QED BY <2>3 DEF DeductedFrom, f
<1> QED BY <1>1, <1>2, <1>3, <1>4, <1>5, <1>6 DEF BillOf, Bill

LEMMA BillsCreatedType == ASSUME PlanTyped, BillsCreated PROVE PlanTyped'
<1>0. PurchasePlanTypeOK
  BY DEF PlanTyped
<1>1. ASSUME NEW i \in DOMAIN bills' PROVE bills'[i] \in Bill
  <2>1. CASE i \in DOMAIN bills
    BY <1>0, <2>1, BillsMade, BillsType
  <2>2. CASE i \notin DOMAIN bills
    BY <1>0, <1>1, <2>2, BillsMade, BillOfType
  <2> QED BY <2>1, <2>2
<1> DEFINE all == Len(bills')
<1>2. /\ all \in Nat /\ all <= BillBound /\ DOMAIN bills' = 1 .. all
      /\ bills' = [i \in 1 .. all |-> bills'[i]]
  <2>1. all \in Nat /\ all <= BillBound /\ DOMAIN bills' = 1 .. all
    BY <1>0, BillsMade
  <2>2. bills' = [i \in DOMAIN bills' |-> bills'[i]]
    BY DEF BillsCreated
  <2> HIDE DEF all
  <2> QED BY <2>1, <2>2
<1> HIDE DEF all
<1>3. bills' \in [1 .. all -> Bill]
  BY <1>1, <1>2
<1>4. bills' \in Seq(Bill)
  BY <1>2, <1>3, AsSequence
<1>5. rows' \in [PlanSlot -> BillRow] /\ (rows'[First].there <=> rows[First].there)
  BY <1>0, RowsBilled, PurchaseConstants
<1>6. UNCHANGED <<purchase, ignoreMismatch, firstBill, purchaseWizard, billHistory>>
  BY DEF BillsCreated
<1> QED BY <1>2, <1>4, <1>5, <1>6 DEF PlanTyped, FirstNamed, PurchasePlanTypeOK, all

\* What the wizard makes of a plan
LEMMA PlanMade ==
  ASSUME PurchasePlanTypeOK, NEW share \in Shares, NEW first, NEW amount,
         DoCreatePurchaseInvoicePlan(share, first, amount),
         first \in {"none", "advance", "deposit"}, amount \in Nat
  PROVE  /\ rows' \in [PlanSlot -> BillRow] /\ \A s \in PlanSlot : rows'[s].ref = NoBill
         /\ rows'[First].there <=> first # "none"
         /\ firstBill' = first
         /\ UNCHANGED <<purchase, ignoreMismatch, bills>> /\ purchaseWizard' = FALSE
         /\ billHistory' = IF \E s \in PlanSlot : HasBill(s)
                           THEN billHistory \cup {"replanned"} ELSE billHistory
<1> DEFINE row(s) ==
       IF s = First
       THEN [there |-> first # "none", ref |-> NoBill,
             amount |-> IF first = "none" THEN 0 ELSE amount]
       ELSE [there |-> s[1] \in DOMAIN share, ref |-> NoBill,
             amount |-> IF s[1] \in DOMAIN share
                        THEN (share[s[1]] * PurchaseSubtotal[s[2]] + 50) \div 100 ELSE 0]
<1>1. rows' = [s \in PlanSlot |-> row(s)]
  BY DEF DoCreatePurchaseInvoicePlan
<1>2. ASSUME NEW s \in PlanSlot PROVE row(s) \in BillRow /\ row(s).ref = NoBill
  <2>1. CASE s = First
    <3>1. (IF first = "none" THEN 0 ELSE amount) \in Nat
      OBVIOUS
    <3> QED BY <2>1, <3>1 DEF BillRow
  <2>2. CASE s # First
    <3> DEFINE a == IF s[1] \in DOMAIN share
                    THEN (share[s[1]] * PurchaseSubtotal[s[2]] + 50) \div 100 ELSE 0
    <3>1. a \in Nat
      <4>1. CASE s[1] \in DOMAIN share
        <5>1. share[s[1]] \in {50, 100}
          BY <4>1 DEF Shares
        <5>2. PurchaseSubtotal[s[2]] \in Nat
          BY <2>2, PurchaseConstants
        <5> DEFINE p == share[s[1]] * PurchaseSubtotal[s[2]]
        <5>3. p \in Nat
          BY <5>1, <5>2
        <5> HIDE DEF p
        <5>4. (p + 50) \div 100 \in Nat
          BY <5>3
        <5> QED BY <4>1, <5>4 DEF p
      <4> QED BY <4>1
    <3>2. row(s) = [there |-> s[1] \in DOMAIN share, ref |-> NoBill, amount |-> a]
      BY <2>2
    <3> HIDE DEF a, row
    <3> QED BY <3>1, <3>2 DEF BillRow
  <2> QED BY <2>1, <2>2
<1>3. row(First).there <=> first # "none"
  OBVIOUS
<1> HIDE DEF row
<1> QED BY <1>1, <1>2, <1>3, PurchaseConstants DEF DoCreatePurchaseInvoicePlan

LEMMA AfterwardsType ==
  ASSUME NEW what
  PROVE  /\ billHistory \subseteq Afterwards(what)
         /\ Afterwards(what) \subseteq billHistory \cup what
         /\ Afterwards(what) = {} => billHistory = {} /\ (bills = << >> \/ what = {})
BY DEF Afterwards

\* The amount of one row is changed.
LEMMA RowEdited ==
  ASSUME PurchasePlanTypeOK, NEW s \in PlanSlot, NEW amount \in RowAmount, EditRow(s, amount)
  PROVE  /\ rows' \in [PlanSlot -> BillRow] /\ rows[s].there /\ ~HasBill(s)
         /\ \A x \in PlanSlot : /\ rows'[x].there <=> rows[x].there
                                /\ rows'[x].ref = rows[x].ref
                                /\ x # s => rows'[x].amount = rows[x].amount
         /\ UNCHANGED <<purchase, ignoreMismatch, firstBill, bills, purchaseWizard>>
         /\ billHistory \subseteq billHistory' /\ billHistory' \subseteq billHistory \cup {"late first"}
         /\ billHistory' = {} => bills = << >> \/ s # First
<1> DEFINE row == [rows[s] EXCEPT !.amount = amount]
<1>1. rows[s] \in BillRow /\ amount \in Nat /\ rows \in [PlanSlot -> BillRow]
  BY BillsType, PurchaseConstants DEF PurchasePlanTypeOK
<1>2. /\ row \in BillRow /\ row.there = rows[s].there /\ row.ref = rows[s].ref
  BY <1>1 DEF BillRow
<1>3. rows' = [rows EXCEPT ![s] = row]
  BY <1>1 DEF EditRow
<1> HIDE DEF row
<1>4. rows' \in [PlanSlot -> BillRow] /\ rows'[s] = row /\ \A x \in PlanSlot : x # s => rows'[x] = rows[x]
  BY <1>1, <1>2, <1>3
<1>5. billHistory' = Afterwards(IF s = First THEN {"late first"} ELSE {})
  BY DEF EditRow
<1> QED BY <1>2, <1>4, <1>5, AfterwardsType DEF EditRow

LEMMA RowTyped ==
  ASSUME PurchasePlanTypeOK, NEW s \in PlanSlot, NEW amount \in RowAmount, TypeRow(s, amount)
  PROVE  /\ rows' \in [PlanSlot -> BillRow]
         /\ s # First /\ ~rows[s].there /\ firstBill = "none" /\ rows'[s].ref = NoBill
         /\ \A x \in PlanSlot : x # s => rows'[x] = rows[x]
         /\ UNCHANGED <<purchase, ignoreMismatch, firstBill, bills, purchaseWizard, billHistory>>
<1> DEFINE row == [NoBillRow EXCEPT !.there = TRUE, !.amount = amount]
<1>1. amount \in Nat /\ rows \in [PlanSlot -> BillRow]
  BY PurchaseConstants DEF PurchasePlanTypeOK
<1>2. NoBillRow \in BillRow /\ NoBillRow.ref = NoBill
  BY DEF NoBillRow, BillRow
<1>3. rows' = [rows EXCEPT ![s] = row]
  BY DEF TypeRow
<1>4. row \in BillRow /\ row.ref = NoBill
  BY <1>1, <1>2 DEF BillRow
<1> HIDE DEF row
<1> QED BY <1>1, <1>3, <1>4 DEF TypeRow

\* A row is moved or deleted.
LEMMA RowGone ==
  ASSUME PurchasePlanTypeOK, NEW s \in PlanSlot,
         UnlinkRow(s) \/ \E installment \in 1 .. LastInstallment : MoveRow(s, installment)
  PROVE  /\ rows' \in [PlanSlot -> BillRow]
         /\ \A x \in PlanSlot : \E y \in PlanSlot :
              rows'[x] = rows[y] \/ rows'[x] = NoBillRow
         /\ rows'[First].there => rows[First].there
         /\ UNCHANGED <<purchase, ignoreMismatch, firstBill, bills, purchaseWizard>>
         /\ billHistory' \subseteq billHistory \cup {"moved", "lost"}
         /\ billHistory' = {} => billHistory = {} /\ bills = << >>
<1>1. rows \in [PlanSlot -> BillRow] /\ NoBillRow \in BillRow /\ First \in PlanSlot
      /\ ~NoBillRow.there
  BY PurchaseConstants DEF PurchasePlanTypeOK, NoBillRow, BillRow
<1>2. CASE UnlinkRow(s)
  <2>1. rows' = [rows EXCEPT ![s] = NoBillRow] /\ billHistory' = Afterwards({"lost"})
    BY <1>2 DEF UnlinkRow
  <2> QED BY <1>1, <1>2, <2>1, AfterwardsType DEF UnlinkRow
<1>3. ASSUME NEW installment \in 1 .. LastInstallment, MoveRow(s, installment)
      PROVE  /\ rows' \in [PlanSlot -> BillRow]
             /\ \A x \in PlanSlot : \E y \in PlanSlot :
                  rows'[x] = rows[y] \/ rows'[x] = NoBillRow
             /\ rows'[First].there => rows[First].there
             /\ UNCHANGED <<purchase, ignoreMismatch, firstBill, bills, purchaseWizard>>
             /\ billHistory' \subseteq billHistory \cup {"moved", "lost"}
             /\ billHistory' = {} => billHistory = {} /\ bills = << >>
  <2> DEFINE to == <<installment, s[2]>>
  <2>1. s # First /\ rows' = [rows EXCEPT ![s] = NoBillRow, ![to] = rows[s]]
        /\ billHistory' = Afterwards({"moved"})
    BY <1>3 DEF MoveRow
  <2>2. to \in PlanSlot /\ to # First
    BY <2>1, PurchaseConstants
  <2>3. billHistory' \subseteq billHistory \cup {"moved", "lost"}
        /\ (billHistory' = {} => billHistory = {} /\ bills = << >>)
    BY <2>1, AfterwardsType
  <2>4. UNCHANGED <<purchase, ignoreMismatch, firstBill, bills, purchaseWizard>>
    BY <1>3 DEF MoveRow
  <2> HIDE DEF to
  <2>5. rows' \in [PlanSlot -> BillRow] /\ rows'[First] = rows[First]
    BY <1>1, <2>1, <2>2
  <2>6. \A x \in PlanSlot : rows'[x] = IF x = to THEN rows[s]
                                      ELSE IF x = s THEN NoBillRow ELSE rows[x]
    BY <1>1, <2>1, <2>2
  <2> QED BY <2>3, <2>4, <2>5, <2>6
<1> QED BY <1>2, <1>3

LEMMA PurchaseStepType == PlanTyped /\ [PurchasePlanNext]_purchasePlanVars => PlanTyped'
<1> SUFFICES ASSUME PlanTyped, [PurchasePlanNext]_purchasePlanVars PROVE PlanTyped'
  OBVIOUS
<1>0. PurchasePlanTypeOK
  BY DEF PlanTyped
<1>1. CASE SetBypass \/ OpenPurchaseWizard
  BY <1>1 DEF SetBypass, OpenPurchaseWizard, PlanTyped, FirstNamed, PurchasePlanTypeOK
<1>2. ASSUME NEW share \in Shares, NEW first, NEW amount,
             DoCreatePurchaseInvoicePlan(share, first, amount),
             first \in {"none", "advance", "deposit"}, amount \in Nat
      PROVE  PlanTyped'
  <2>1. /\ rows' \in [PlanSlot -> BillRow] /\ (rows'[First].there <=> first # "none")
        /\ firstBill' = first
        /\ UNCHANGED <<purchase, ignoreMismatch, bills>> /\ purchaseWizard' = FALSE
        /\ billHistory' \subseteq billHistory \cup {"replanned"}
    BY <1>0, <1>2, PlanMade
  <2> QED BY <1>0, <1>2, <2>1 DEF PlanTyped, FirstNamed, PurchasePlanTypeOK
<1>3. ASSUME NEW s \in PlanSlot, NEW amount \in RowAmount, TypeRow(s, amount) \/ EditRow(s, amount)
      PROVE  PlanTyped'
  <2>1. /\ rows' \in [PlanSlot -> BillRow] /\ (rows'[First].there <=> rows[First].there)
        /\ UNCHANGED <<purchase, ignoreMismatch, firstBill, bills, purchaseWizard>>
        /\ billHistory' \subseteq billHistory \cup {"late first"}
    BY <1>0, <1>3, RowTyped, RowEdited, PurchaseConstants
  <2> QED BY <1>0, <2>1 DEF PlanTyped, FirstNamed, PurchasePlanTypeOK
<1>4. ASSUME NEW s \in PlanSlot,
             UnlinkRow(s) \/ \E installment \in 1 .. LastInstallment : MoveRow(s, installment)
      PROVE  PlanTyped'
  <2>1. /\ rows' \in [PlanSlot -> BillRow] /\ (rows'[First].there => rows[First].there)
        /\ UNCHANGED <<purchase, ignoreMismatch, firstBill, bills, purchaseWizard>>
        /\ billHistory' \subseteq billHistory \cup {"moved", "lost"}
    BY <1>0, <1>4, RowGone
  <2> QED BY <1>0, <2>1 DEF PlanTyped, FirstNamed, PurchasePlanTypeOK
<1>5. CASE CreatePurchaseInvoices
  BY <1>5, BillsCreatedType DEF CreatePurchaseInvoices
<1>6. CASE PurchaseConfirm \/ WkfApproveOrder \/ PurchaseCancelDraft
  BY <1>6 DEF PurchaseConfirm, WkfApproveOrder, PurchaseCancelDraft, PlanTyped, FirstNamed,
              PurchasePlanTypeOK
<1>7. ASSUME NEW S, BillsCanceled(S), purchase' \in {purchase, "cancel"},
             UNCHANGED <<ignoreMismatch, firstBill, rows, purchaseWizard, billHistory>>
      PROVE  PlanTyped'
  <2>1. bills' \in Seq(Bill) /\ Len(bills') = Len(bills)
    BY <1>0, <1>7, BillsCanceledSame
  <2> QED BY <1>0, <1>7, <2>1 DEF PlanTyped, FirstNamed, PurchasePlanTypeOK
<1>8. CASE CancelDraftBills \/ PurchaseCancel
  BY <1>7, <1>8 DEF CancelDraftBills, PurchaseCancel
<1>9. ASSUME NEW i \in DOMAIN bills, BillCancel(i) \/ BillProceed(i) PROVE PlanTyped'
  <2>1. CASE BillCancel(i)
    BY <1>7, <2>1 DEF BillCancel
  <2>2. CASE BillProceed(i)
    <3>1. /\ bills' \in Seq(Bill) /\ Len(bills') = Len(bills)
          /\ billHistory' \subseteq billHistory \cup {"revived"}
          /\ UNCHANGED <<purchase, ignoreMismatch, firstBill, rows, purchaseWizard>>
      BY <1>0, <2>2, BillProceedSame DEF BillProceed
    <3> QED BY <1>0, <3>1 DEF PlanTyped, FirstNamed, PurchasePlanTypeOK
  <2> QED BY <1>9, <2>1, <2>2
<1>10. CASE UNCHANGED purchasePlanVars
  BY <1>10 DEF purchasePlanVars, PlanTyped, FirstNamed, PurchasePlanTypeOK
<1>11. \A amount \in FirstAmount : amount \in Nat
  BY PurchaseConstants
<1> QED BY <1>1, <1>2, <1>3, <1>4, <1>5, <1>6, <1>8, <1>9, <1>10, <1>11 DEF PurchasePlanNext

\* The variables of a plan of a purchase order have their types
\* (do_create_purchase_invoice_plan, invoice_plan_ids, action_invoice_create).
THEOREM PurchasePlanTypeCorrect == PurchasePlanSpec => []PurchasePlanTypeOK
<1>1. PurchasePlanInit => PlanTyped
  <2>1. PurchasePlanInit => FirstNamed
    BY PurchaseConstants DEF PurchasePlanInit, FirstNamed, NoBillRow
  <2> QED BY <2>1, PurchaseInitType DEF PlanTyped
<1>2. PlanTyped => PurchasePlanTypeOK
  BY DEF PlanTyped
<1> QED BY <1>1, <1>2, PurchaseStepType, PTL DEF PurchasePlanSpec

-----------------------------------------------------------------------------
(* The plan of a purchase order: its rows and their bills *)

\* The rows of an installment
Cells(k) == {<<k, l>> : l \in PurchaseLine}

\* What is to be deducted from the bill of installment k
PartFor(k) ==
  IF First \notin Planned THEN 0
  ELSE IF firstBill = "advance" THEN AdvancePart(rows[First].amount, RowsSum(Cells(k)))
  ELSE IF firstBill = "deposit" /\ k = Max({s[1] : s \in Planned}) THEN rows[First].amount
  ELSE 0

InstallmentBill(i, k) ==
  /\ bills[i].kind = "installment" /\ PurchaseLine # {}
  /\ bills[i].slots = Cells(k)
  /\ \A l \in PurchaseLine : bills[i].amount[l] = rows[<<k, l>>].amount
  /\ bills[i].first = 0
  /\ bills[i].deducted = PartFor(k)

IsFirstBill(i) ==
  /\ bills[i].kind = firstBill /\ firstBill \in {"advance", "deposit"}
  /\ bills[i].slots = {First}
  /\ \A l \in PurchaseLine : bills[i].amount[l] = 0
  /\ bills[i].first = rows[First].amount /\ bills[i].first > 0
  /\ bills[i].deducted = 0

\* A bill is one of the plan as it is: the whole one of an installment, or the first.
Follows(i) ==
  /\ (\E k \in 1 .. LastInstallment : InstallmentBill(i, k)) \/ IsFirstBill(i)
  /\ \A s \in bills[i].slots : rows[s].there /\ rows[s].ref = i

\* As long as nothing happened, the bills that are not canceled follow the plan, rows
\* that have bills are theirs, and a plan that is billed matches the order.
BillsFollow ==
  billHistory = {} =>
    /\ ~ignoreMismatch
    /\ \A i \in DOMAIN bills : Valid(i) => Follows(i)
    /\ \A s \in PlanSlot : HasBill(s) => s \in bills[rows[s].ref].slots
    /\ AllBilled => PlanMatches

RefsIn == \A s \in PlanSlot : rows[s].ref = NoBill \/ rows[s].ref \in DOMAIN bills

PurchaseInd == PlanTyped /\ RefsIn /\ BillsFollow

LEMMA CellsIn ==
  ASSUME NEW k \in 1 .. LastInstallment
  PROVE  /\ Cells(k) \in SUBSET PlanSlot /\ First \notin Cells(k)
         /\ \A s \in Cells(k) : s[1] = k /\ s[2] \in PurchaseLine /\ s = <<k, s[2]>>
         /\ PurchaseLine # {} => Cells(k) # {}
<1>1. \A l \in PurchaseLine : <<k, l>> \in PlanSlot /\ <<k, l>> # First
  BY PurchaseConstants
<1>2. \A l \in PurchaseLine : <<k, l>>[1] = k /\ <<k, l>>[2] = l
  OBVIOUS
<1>3. \A s \in Cells(k) : \E l \in PurchaseLine : s = <<k, l>>
  BY DEF Cells
<1>4. \A s \in Cells(k) : /\ s \in PlanSlot /\ s # First
                         /\ s[1] = k /\ s[2] \in PurchaseLine /\ s = <<k, s[2]>>
  BY <1>1, <1>2, <1>3
<1>5. PurchaseLine # {} => Cells(k) # {}
  BY DEF Cells
<1> QED BY <1>4, <1>5

LEMMA FollowsSlots ==
  ASSUME NEW i \in DOMAIN bills, Follows(i)
  PROVE  bills[i].slots \subseteq PlanSlot /\ bills[i].slots # {}
<1>1. CASE IsFirstBill(i)
  BY <1>1, PurchaseConstants DEF IsFirstBill
<1>2. ASSUME NEW k \in 1 .. LastInstallment, InstallmentBill(i, k)
      PROVE  bills[i].slots \subseteq PlanSlot /\ bills[i].slots # {}
  BY <1>2, CellsIn DEF InstallmentBill
<1> QED BY <1>1, <1>2 DEF Follows

\* A row of a bill that follows the plan has this bill.
LEMMA FollowsHas ==
  ASSUME PurchasePlanTypeOK, NEW i \in DOMAIN bills, Valid(i), Follows(i), NEW s \in bills[i].slots
  PROVE  HasBill(s) /\ s \in PlanSlot /\ rows[s].there /\ rows[s].ref = i
<1>1. i # NoBill
  BY BillsType DEF NoBill
<1> QED BY <1>1, FollowsSlots DEF Follows, HasBill

\* What is to be deducted stays with the rows that matter for it.
LEMMA PartSame ==
  ASSUME PurchasePlanTypeOK, NEW k \in 1 .. LastInstallment, firstBill' = firstBill,
         \/ firstBill = "none" /\ First \notin Planned /\ First \notin Planned'
         \/ /\ \A s \in PlanSlot : rows'[s].there <=> rows[s].there
            /\ rows'[First].amount = rows[First].amount,
         \A s \in Cells(k) : rows'[s].amount = rows[s].amount
  PROVE  PartFor(k)' = PartFor(k)
<1>1. CASE firstBill = "none" /\ First \notin Planned /\ First \notin Planned'
  BY <1>1 DEF PartFor
<1>2. CASE /\ \A s \in PlanSlot : rows'[s].there <=> rows[s].there
           /\ rows'[First].amount = rows[First].amount
  <2>1. Planned' = Planned
    BY <1>2 DEF Planned
  <2> DEFINE F == [s \in PlanSlot |-> rows[s].amount]
             G == [s \in PlanSlot |-> rows'[s].amount]
  <2>2. RowsSum(Cells(k))' = RowsSum(Cells(k))
    <3>1. IsFiniteSet(Cells(k)) /\ Cells(k) \subseteq PlanSlot
      BY CellsIn, SlotsFinite, FS_Subset
    <3>2. \A s \in Cells(k) : F[s] = G[s]
      BY <3>1
    <3>3. RowsSum(Cells(k)) = SumFunctionOnSet(F, Cells(k))
      BY DEF RowsSum
    <3>4. RowsSum(Cells(k))' = SumFunctionOnSet(G, Cells(k))
      BY DEF RowsSum, Cells
    <3> HIDE DEF F, G
    <3> QED BY <3>1, <3>2, <3>3, <3>4, SumSame
  <2>3. \A a, b : AdvancePart(a, b)' = AdvancePart(a, b)
    BY DEF AdvancePart, OrderTotal
  <2> QED BY <1>2, <2>1, <2>2, <2>3 DEF PartFor
<1> QED BY <1>1, <1>2

LEMMA FollowsKept ==
  ASSUME PurchasePlanTypeOK, NEW i \in DOMAIN bills, Follows(i), BillSame(i), firstBill' = firstBill,
         \/ firstBill = "none" /\ First \notin Planned /\ First \notin Planned'
         \/ /\ \A s \in PlanSlot : rows'[s].there <=> rows[s].there
            /\ rows'[First].amount = rows[First].amount,
         \A s \in bills[i].slots : /\ rows'[s].amount = rows[s].amount
                                   /\ rows'[s].there <=> rows[s].there
                                   /\ rows'[s].ref = rows[s].ref
  PROVE  Follows(i)'
<1>1. CASE IsFirstBill(i)
  <2>1. rows'[First].amount = rows[First].amount
    BY <1>1 DEF IsFirstBill
  <2>2. IsFirstBill(i)'
    BY <1>1, <2>1 DEF IsFirstBill, BillSame
  <2> QED BY <1>1, <2>2 DEF Follows, BillSame
<1>2. ASSUME NEW k \in 1 .. LastInstallment, InstallmentBill(i, k) PROVE Follows(i)'
  <2>1. bills[i].slots = Cells(k)
    BY <1>2 DEF InstallmentBill
  <2>2. PartFor(k)' = PartFor(k)
    BY <2>1, PartSame
  <2>3. \A l \in PurchaseLine : <<k, l>> \in Cells(k)
    BY DEF Cells
  <2>4. InstallmentBill(i, k)'
    BY <1>2, <2>1, <2>2, <2>3 DEF InstallmentBill, BillSame, Cells
  <2> QED BY <1>2, <2>4 DEF Follows, BillSame
<1> QED BY <1>1, <1>2 DEF Follows

LEMMA PurchaseInitInd == PurchasePlanInit => PurchaseInd
<1> SUFFICES ASSUME PurchasePlanInit PROVE PurchaseInd
  OBVIOUS
<1>1. PlanTyped
  <2>1. FirstNamed
    BY PurchaseConstants DEF PurchasePlanInit, FirstNamed, NoBillRow
  <2> QED BY <2>1, PurchaseInitType DEF PlanTyped
<1>2. \A s \in PlanSlot : rows[s].ref = NoBill /\ ~rows[s].there
  BY DEF PurchasePlanInit, NoBillRow
<1>3. Planned = {} /\ DOMAIN bills = {} /\ ~ignoreMismatch
  BY <1>2 DEF PurchasePlanInit, Planned
<1> QED BY <1>1, <1>2, <1>3 DEF PurchaseInd, RefsIn, BillsFollow, HasBill, AllBilled

\* The rows stay, and the bills, of which some may be canceled.
LEMMA BillStatesInd ==
  ASSUME PurchaseInd, PlanTyped', rows' = rows, firstBill' = firstBill,
         Len(bills') = Len(bills), billHistory \subseteq billHistory',
         billHistory' = {} => ignoreMismatch' = ignoreMismatch,
         \A i \in DOMAIN bills : BillSame(i),
         billHistory' = {} => \A i \in DOMAIN bills : Valid(i)' => Valid(i)
  PROVE  PurchaseInd'
<1>0. PurchasePlanTypeOK /\ DOMAIN bills' = DOMAIN bills
  <2>1. PurchasePlanTypeOK /\ PurchasePlanTypeOK'
    BY DEF PurchaseInd, PlanTyped
  <2> QED BY <2>1, BillsType
<1>1. RefsIn'
  BY <1>0 DEF PurchaseInd, RefsIn
<1>2. BillsFollow'
  <2> SUFFICES ASSUME billHistory' = {}
               PROVE  /\ ~ignoreMismatch'
                      /\ \A i \in DOMAIN bills' : Valid(i)' => Follows(i)'
                      /\ \A s \in PlanSlot : HasBill(s)' => s \in bills'[rows'[s].ref].slots
                      /\ AllBilled' => PlanMatches'
    BY DEF BillsFollow
  <2>1. /\ ~ignoreMismatch /\ \A i \in DOMAIN bills : Valid(i) => Follows(i)
        /\ \A s \in PlanSlot : HasBill(s) => s \in bills[rows[s].ref].slots
        /\ AllBilled => PlanMatches
    BY DEF PurchaseInd, BillsFollow
  <2>2. ASSUME NEW i \in DOMAIN bills', Valid(i)' PROVE Follows(i)'
    <3>1. i \in DOMAIN bills /\ Follows(i) /\ BillSame(i)
      BY <1>0, <2>1, <2>2
    <3>2. bills[i].slots \subseteq PlanSlot
      BY <3>1, FollowsSlots
    <3> QED BY <1>0, <3>1, FollowsKept
  <2>3. ASSUME NEW s \in PlanSlot, HasBill(s)'
        PROVE  HasBill(s) /\ s \in bills'[rows'[s].ref].slots
    <3>1. rows[s].ref \in DOMAIN bills /\ Valid(rows[s].ref)'
      BY <2>3 DEF HasBill, PurchaseInd, RefsIn
    <3>2. HasBill(s) /\ BillSame(rows[s].ref)
      BY <2>3, <3>1 DEF HasBill
    <3> QED BY <2>1, <3>2 DEF BillSame
  <2>4. AllBilled' => PlanMatches'
    <3>1. Planned' = Planned /\ Planned \subseteq PlanSlot
      BY DEF Planned
    <3>2. AllBilled' => AllBilled
      BY <2>3, <3>1 DEF AllBilled
    <3>3. PlanMatches => PlanMatches'
      BY <3>1 DEF PlanMatches, RowsSum, ToTheTenth
    <3> QED BY <2>1, <3>2, <3>3
  <2> QED BY <2>1, <2>2, <2>3, <2>4
<1> QED BY <1>1, <1>2 DEF PurchaseInd

\* Rows without a living bill are changed, or rows are added that have none.
LEMMA RowsInd ==
  ASSUME PurchaseInd, PlanTyped', bills' = bills, firstBill' = firstBill,
         ignoreMismatch' = ignoreMismatch, billHistory \subseteq billHistory',
         NEW s \in PlanSlot, ~HasBill(s), ~HasBill(s)', s \in Planned',
         rows'[s].ref = NoBill \/ rows'[s].ref = rows[s].ref,
         \A x \in PlanSlot : x # s => rows'[x] = rows[x],
         \/ firstBill = "none" /\ First \notin Planned /\ First \notin Planned'
         \/ s \in Planned /\ (billHistory' = {} => bills = << >> \/ s # First)
  PROVE  PurchaseInd'
<1>0. PurchasePlanTypeOK
  BY DEF PurchaseInd, PlanTyped
<1>1. RefsIn'
  BY DEF PurchaseInd, RefsIn
<1>2. BillsFollow'
  <2> SUFFICES ASSUME billHistory' = {}
               PROVE  /\ ~ignoreMismatch'
                      /\ \A i \in DOMAIN bills' : Valid(i)' => Follows(i)'
                      /\ \A x \in PlanSlot : HasBill(x)' => x \in bills'[rows'[x].ref].slots
                      /\ AllBilled' => PlanMatches'
    BY DEF BillsFollow
  <2>1. /\ ~ignoreMismatch /\ \A i \in DOMAIN bills : Valid(i) => Follows(i)
        /\ \A x \in PlanSlot : HasBill(x) => x \in bills[rows[x].ref].slots
    BY DEF PurchaseInd, BillsFollow
  <2>2. ASSUME NEW i \in DOMAIN bills', Valid(i)' PROVE Follows(i)'
    <3>1. i \in DOMAIN bills /\ Valid(i) /\ Follows(i) /\ BillSame(i) /\ bills # << >>
      BY <2>1, <2>2 DEF Valid, BillSame
    <3>2. bills[i].slots \subseteq PlanSlot /\ s \notin bills[i].slots
      BY <1>0, <3>1, FollowsSlots, FollowsHas
    <3>3. \/ firstBill = "none" /\ First \notin Planned /\ First \notin Planned'
          \/ s \in Planned /\ s # First
      BY <3>1
    <3>4. \/ firstBill = "none" /\ First \notin Planned /\ First \notin Planned'
          \/ /\ \A x \in PlanSlot : rows'[x].there <=> rows[x].there
             /\ rows'[First].amount = rows[First].amount
      <4>1. CASE s \in Planned /\ s # First
        <5>1. rows[s].there /\ rows'[s].there
          BY <4>1 DEF Planned
        <5> QED BY <4>1, <5>1, PurchaseConstants
      <4> QED BY <3>3, <4>1
    <3>5. \A x \in bills[i].slots : rows'[x] = rows[x]
      BY <3>2
    <3> QED BY <1>0, <3>1, <3>4, <3>5, FollowsKept
  <2>3. ASSUME NEW x \in PlanSlot, HasBill(x)' PROVE x \in bills'[rows'[x].ref].slots
    <3>1. x # s /\ rows'[x] = rows[x]
      BY <2>3
    <3>2. HasBill(x)
      BY <2>3, <3>1 DEF HasBill, Valid
    <3> QED BY <2>1, <3>1, <3>2
  <2>4. ~AllBilled'
    BY DEF AllBilled
  <2> QED BY <2>1, <2>2, <2>3, <2>4
<1> QED BY <1>1, <1>2 DEF PurchaseInd

\* As long as nothing has a living bill, there is nothing to follow.
LEMMA NothingBilledInd ==
  ASSUME PlanTyped', RefsIn', \A s \in PlanSlot : ~HasBill(s)',
         billHistory' = {} => ~ignoreMismatch' /\ \A i \in DOMAIN bills' : ~Valid(i)'
  PROVE  PurchaseInd'
<1>1. ~AllBilled'
  BY DEF AllBilled, Planned
<1>2. BillsFollow'
  BY <1>1 DEF BillsFollow
<1> QED BY <1>2 DEF PurchaseInd

LEMMA PlanMadeInd ==
  ASSUME PurchaseInd, PlanTyped', NEW share \in Shares, NEW first, NEW amount,
         DoCreatePurchaseInvoicePlan(share, first, amount),
         first \in {"none", "advance", "deposit"}, amount \in Nat
  PROVE  PurchaseInd'
<1>0. PurchasePlanTypeOK
  BY DEF PurchaseInd, PlanTyped
<1>1. /\ \A s \in PlanSlot : rows'[s].ref = NoBill
      /\ UNCHANGED <<ignoreMismatch, bills>>
      /\ billHistory' = IF \E s \in PlanSlot : HasBill(s)
                        THEN billHistory \cup {"replanned"} ELSE billHistory
  BY <1>0, PlanMade
<1>2. RefsIn' /\ \A s \in PlanSlot : ~HasBill(s)'
  BY <1>1 DEF RefsIn, HasBill
<1>3. ASSUME billHistory' = {} PROVE ~ignoreMismatch' /\ \A i \in DOMAIN bills' : ~Valid(i)'
  <2>1. billHistory = {} /\ \A s \in PlanSlot : ~HasBill(s)
    BY <1>1, <1>3
  <2>2. ~ignoreMismatch /\ \A i \in DOMAIN bills : Valid(i) => Follows(i)
    BY <2>1 DEF PurchaseInd, BillsFollow
  <2>3. ASSUME NEW i \in DOMAIN bills, Valid(i) PROVE FALSE
    <3>1. PICK s \in bills[i].slots : TRUE
      BY <2>2, <2>3, FollowsSlots
    <3> QED BY <1>0, <2>1, <2>2, <2>3, <3>1, FollowsHas
  <2> QED BY <1>1, <2>2, <2>3 DEF Valid
<1> QED BY <1>2, <1>3, NothingBilledInd

LEMMA RowGoneInd ==
  ASSUME PurchaseInd, PlanTyped', NEW s \in PlanSlot,
         UnlinkRow(s) \/ \E installment \in 1 .. LastInstallment : MoveRow(s, installment)
  PROVE  PurchaseInd'
<1>0. PurchasePlanTypeOK
  BY DEF PurchaseInd, PlanTyped
<1>1. /\ \A x \in PlanSlot : \E y \in PlanSlot : rows'[x] = rows[y] \/ rows'[x] = NoBillRow
      /\ UNCHANGED <<ignoreMismatch, bills>>
      /\ billHistory' = {} => billHistory = {} /\ bills = << >>
  BY <1>0, RowGone
<1>2. RefsIn'
  BY <1>1 DEF PurchaseInd, RefsIn, NoBillRow
<1>3. CASE billHistory' = {}
  <2>1. DOMAIN bills' = {} /\ ~ignoreMismatch'
    BY <1>1, <1>3 DEF PurchaseInd, BillsFollow
  <2>2. \A x \in PlanSlot : ~HasBill(x)'
    BY <1>2, <2>1 DEF RefsIn, HasBill
  <2> QED BY <1>2, <2>1, <2>2, NothingBilledInd
<1>4. CASE billHistory' # {}
  BY <1>2, <1>4 DEF PurchaseInd, BillsFollow
<1> QED BY <1>3, <1>4

\* Whoever makes bills has one first bill to deduct, of the amount of its row, or none.
LEMMA TheFirstBill ==
  ASSUME PurchaseInd, BillsCreated, billHistory = {}, NEW kind \in {"advance", "deposit"}
  PROVE  IF kind = firstBill /\ rows[First].there /\ rows[First].amount > 0
         THEN \E r \in Nat : FirstBills(kind) = {r} /\ FirstAmountOf(r) = rows[First].amount
         ELSE FirstBills(kind) = {}
<1>0. /\ PurchasePlanTypeOK /\ PlanTyped
      /\ \A i \in DOMAIN bills : Valid(i) => Follows(i)
      /\ \A s \in PlanSlot : HasBill(s) => s \in bills[rows[s].ref].slots
  BY DEF PurchaseInd, PlanTyped, BillsFollow
<1>1. ASSUME NEW i \in DOMAIN bills, Valid(i), bills[i].kind = kind
      PROVE  /\ kind = firstBill /\ bills[i].first = rows[First].amount
             /\ rows[First].there /\ rows[First].amount > 0 /\ rows[First].ref = i /\ HasBill(First)
  <2>1. Follows(i)
    BY <1>0, <1>1
  <2>2. IsFirstBill(i)
    BY <1>1, <2>1 DEF Follows, InstallmentBill
  <2>3. First \in bills[i].slots
    BY <2>2 DEF IsFirstBill
  <2>4. HasBill(First) /\ rows[First].there /\ rows[First].ref = i
    BY <1>0, <1>1, <2>1, <2>3, FollowsHas
  <2> QED BY <1>1, <2>2, <2>4 DEF IsFirstBill
<1>2. Billing(0) => /\ firstBill \in {"advance", "deposit"} /\ rows[First].there
                    /\ ~HasBill(First) /\ rows[First].amount > 0
  BY <1>0, BillingFirst
<1>3. CASE kind = firstBill /\ rows[First].there /\ rows[First].amount > 0
  <2>1. CASE HasBill(First)
    <3> DEFINE r == rows[First].ref
    <3>1. r \in DOMAIN bills /\ Valid(r) /\ First \in bills[r].slots
      BY <1>0, <2>1, PurchaseConstants DEF PurchaseInd, RefsIn, HasBill
    <3>2. Follows(r)
      BY <1>0, <3>1
    <3>3. IsFirstBill(r)
      <4>1. ASSUME NEW k \in 1 .. LastInstallment, InstallmentBill(r, k) PROVE FALSE
        BY <3>1, <4>1, CellsIn DEF InstallmentBill
      <4> QED BY <3>2, <4>1 DEF Follows
    <3>4. bills[r].kind = kind /\ bills[r].first = rows[First].amount
      BY <1>3, <3>3 DEF IsFirstBill
    <3>5. {i \in DOMAIN bills : Valid(i) /\ bills[i].kind = kind} = {r}
      BY <1>1, <3>1, <3>4
    <3>6. ~Billing(0)
      BY <1>2, <2>1
    <3>7. r \in Nat /\ FirstAmountOf(r) = rows[First].amount
      BY <1>0, <3>1, <3>4, BillsType DEF FirstAmountOf
    <3> HIDE DEF r
    <3>8. FirstBills(kind) = {r}
      BY <3>5, <3>6 DEF FirstBills
    <3> QED BY <1>3, <3>7, <3>8
  <2>2. CASE ~HasBill(First)
    <3>1. {i \in DOMAIN bills : Valid(i) /\ bills[i].kind = kind} = {}
      BY <1>1, <2>2
    <3>2. Billing(0)
      <4>1. First \in Unbilled(0)
        BY <1>3, <2>2, PurchaseConstants DEF Unbilled, Planned
      <4> QED BY <1>3, <4>1 DEF Billing
    <3> DEFINE r == BillFor(0)
    <3>3. r \in 1 .. Len(bills') /\ r \notin DOMAIN bills
      BY <1>0, <3>2, BillsMade, PurchaseConstants
    <3>4. r \in Nat /\ FirstAmountOf(r) = rows[First].amount
      BY <3>3 DEF FirstAmountOf
    <3> HIDE DEF r
    <3>5. FirstBills(kind) = {r}
      BY <1>3, <3>1, <3>2 DEF FirstBills, r
    <3> QED BY <1>3, <3>4, <3>5
  <2> QED BY <2>1, <2>2
<1>4. CASE ~(kind = firstBill /\ rows[First].there /\ rows[First].amount > 0)
  <2>1. {i \in DOMAIN bills : Valid(i) /\ bills[i].kind = kind} = {}
    BY <1>1, <1>4
  <2>2. ~(Billing(0) /\ firstBill = kind)
    BY <1>2, <1>4
  <2>3. FirstBills(kind) = {}
    BY <2>1, <2>2 DEF FirstBills
  <2> QED BY <1>4, <2>3
<1> QED BY <1>3, <1>4

\* A bill that is made takes the whole installment.
LEMMA WholeInstallment ==
  ASSUME BillsCreated, NEW k \in 1 .. LastInstallment, Billing(k)
  PROVE  Unbilled(k) = Cells(k)
<1>1. k \in 0 .. LastInstallment /\ k # 0
  BY PurchaseConstants
<1>2. \A l \in PurchaseLine : <<k, l>> \in Unbilled(k)
  BY <1>1 DEF BillsCreated
<1>3. ASSUME NEW s \in Unbilled(k) PROVE s \in Cells(k)
  <2>1. s \in PlanSlot /\ s[1] = k
    BY <1>1, UnbilledSlots
  <2>2. s[2] \in PurchaseLine /\ s = <<k, s[2]>>
    BY <1>1, <2>1, PurchaseConstants
  <2> QED BY <2>2 DEF Cells
<1>4. Cells(k) \subseteq Unbilled(k)
  BY <1>2 DEF Cells
<1> QED BY <1>3, <1>4

\* It deducts what is to be deducted.
LEMMA DeductsPart ==
  ASSUME PurchaseInd, BillsCreated, billHistory = {}, NEW k \in 1 .. LastInstallment, Billing(k)
  PROVE  DeductedFrom(k) = PartFor(k)
<1>0. PurchasePlanTypeOK /\ k # 0 /\ rows[First].amount \in Nat
  <2>1. PurchasePlanTypeOK /\ k # 0
    BY PurchaseConstants DEF PurchaseInd, PlanTyped
  <2> QED BY <2>1, BillsType, PurchaseConstants DEF BillRow
<1>1. BilledOf(k) = RowsSum(Cells(k)) /\ BilledOf(k) \in Nat /\ OrderTotal > 0
  BY <1>0, WholeInstallment, InstallmentRows, OrderTotalType
<1> DEFINE last == k = Max({s[1] : s \in Planned})
           A == FirstBills("advance")
           D == FirstBills("deposit")
           f == [i \in Deducts(k) |-> IF i \in A THEN AdvancePart(FirstAmountOf(i), BilledOf(k))
                                      ELSE FirstAmountOf(i)]
           amount == rows[First].amount
           isA == "advance" = firstBill /\ rows[First].there /\ rows[First].amount > 0
           isD == "deposit" = firstBill /\ rows[First].there /\ rows[First].amount > 0
<1>2. /\ Deducts(k) = A \cup (IF last THEN D ELSE {})
      /\ DeductedFrom(k) = SumFunctionOnSet(f, Deducts(k))
  BY <1>0 DEF Deducts, DeductedFrom
<1>3. IF isA THEN \E r \in Nat : A = {r} /\ FirstAmountOf(r) = amount ELSE A = {}
  BY TheFirstBill
<1>4. IF isD THEN \E r \in Nat : D = {r} /\ FirstAmountOf(r) = amount ELSE D = {}
  BY TheFirstBill
<1>5. First \in Planned <=> rows[First].there
  BY PurchaseConstants DEF Planned
<1>6. AdvancePart(amount, BilledOf(k)) \in Nat
      /\ (amount = 0 => AdvancePart(amount, BilledOf(k)) = 0)
  BY <1>0, <1>1, AdvancePartIs
<1>7. \A i \in Deducts(k) : f[i] = IF i \in A THEN AdvancePart(FirstAmountOf(i), BilledOf(k))
                                   ELSE FirstAmountOf(i)
  OBVIOUS
<1> HIDE DEF f, A, D
<1>8. ASSUME NEW r, Deducts(k) = {r}, f[r] \in Int PROVE DeductedFrom(k) = f[r]
  <2>1. IsFiniteSet({r}) /\ \A x \in {r} : f[x] \in Int
    BY <1>8, FS_Singleton
  <2>2. SumFunctionOnSet(f, {r}) = f[r] + SumFunctionOnSet(f, {r} \ {r})
    BY <2>1, SumRemove
  <2>3. SumFunctionOnSet(f, {r} \ {r}) = 0
    <3>1. {r} \ {r} = {}
      OBVIOUS
    <3> QED BY <3>1, SumEmpty
  <2>4. DeductedFrom(k) = SumFunctionOnSet(f, {r})
    BY <1>2, <1>8
  <2> QED BY <1>8, <2>2, <2>3, <2>4
<1>9. Deducts(k) = {} => DeductedFrom(k) = 0
  BY <1>2, SumEmpty
<1>10. CASE isA
  <2>1. PICK r \in Nat : A = {r} /\ FirstAmountOf(r) = amount
    BY <1>3, <1>10
  <2>2. D = {}
    BY <1>4, <1>10
  <2>3. Deducts(k) = {r}
    BY <1>2, <2>1, <2>2
  <2>4. f[r] = AdvancePart(amount, BilledOf(k))
    BY <1>7, <2>1, <2>3
  <2>5. DeductedFrom(k) = AdvancePart(amount, BilledOf(k))
    BY <1>6, <1>8, <2>3, <2>4
  <2> QED BY <1>1, <1>5, <1>10, <2>5 DEF PartFor
<1>11. CASE isD
  <2>1. PICK r \in Nat : D = {r} /\ FirstAmountOf(r) = amount
    BY <1>4, <1>11
  <2>2. A = {}
    BY <1>3, <1>11
  <2>3. CASE last
    <3>1. Deducts(k) = {r}
      BY <1>2, <2>1, <2>2, <2>3
    <3>2. f[r] = amount
      BY <1>7, <2>1, <2>2, <3>1
    <3>3. DeductedFrom(k) = amount
      BY <1>0, <1>8, <3>1, <3>2
    <3> QED BY <1>5, <1>11, <2>3, <3>3 DEF PartFor
  <2>4. CASE ~last
    <3>1. DeductedFrom(k) = 0
      BY <1>2, <1>9, <2>2, <2>4
    <3> QED BY <1>5, <1>11, <2>4, <3>1 DEF PartFor
  <2> QED BY <2>3, <2>4
<1>12. CASE ~isA /\ ~isD
  <2>1. DeductedFrom(k) = 0
    BY <1>2, <1>3, <1>4, <1>9, <1>12
  <2>2. PartFor(k) = 0
    <3>1. CASE ~rows[First].there
      BY <1>5, <3>1 DEF PartFor
    <3>2. CASE rows[First].there /\ amount = 0
      BY <1>1, <1>5, <1>6, <3>2 DEF PartFor
    <3>3. CASE firstBill \notin {"advance", "deposit"}
      BY <3>3 DEF PartFor
    <3> QED BY <1>0, <1>12, <3>1, <3>2, <3>3
  <2> QED BY <2>1, <2>2
<1> QED BY <1>10, <1>11, <1>12

LEMMA BillsCreatedInd == ASSUME PurchaseInd, BillsCreated PROVE PurchaseInd'
<1>0. PurchasePlanTypeOK /\ PlanTyped /\ PlanTyped' /\ RefsIn
      /\ UNCHANGED <<ignoreMismatch, firstBill, billHistory>>
  BY BillsCreatedType DEF PurchaseInd, PlanTyped, BillsCreated
<1>1. /\ \A s \in PlanSlot :
           /\ rows'[s].there <=> rows[s].there
           /\ rows'[s].amount = rows[s].amount
           /\ rows'[s].ref = IF s \in Unbilled(s[1])
                             THEN IF Billing(s[1]) THEN BillFor(s[1]) ELSE NoBill
                             ELSE rows[s].ref
      /\ Planned' = Planned
  <2>1. \A s \in PlanSlot :
           /\ rows'[s].there <=> rows[s].there
           /\ rows'[s].amount = rows[s].amount
           /\ rows'[s].ref = IF s \in Unbilled(s[1])
                             THEN IF Billing(s[1]) THEN BillFor(s[1]) ELSE NoBill
                             ELSE rows[s].ref
    BY <1>0, RowsBilled
  <2>2. Planned' = Planned
    BY <2>1 DEF Planned
  <2> QED BY <2>1, <2>2
<1>2. /\ \A i \in DOMAIN bills : bills'[i] = bills[i] /\ i \in DOMAIN bills'
      /\ \A i \in DOMAIN bills' : i \in DOMAIN bills \/
           \E k \in 0 .. LastInstallment :
             Billing(k) /\ BillFor(k) = i /\ bills'[i] = BillOf(k)
      /\ \A k \in 0 .. LastInstallment : Billing(k) =>
           BillFor(k) \in DOMAIN bills' /\ bills'[BillFor(k)] = BillOf(k)
  <2>1. DOMAIN bills = 1 .. Len(bills) /\ DOMAIN bills' = 1 .. Len(bills')
        /\ Len(bills) \in Nat /\ Len(bills') \in Nat /\ Len(bills) <= Len(bills')
    BY <1>0, BillsMade, BillsType
  <2> QED BY <1>0, <2>1, BillsMade
<1>3. RefsIn'
  <2> SUFFICES ASSUME NEW s \in PlanSlot
               PROVE  rows'[s].ref = NoBill \/ rows'[s].ref \in DOMAIN bills'
    BY DEF RefsIn
  <2>1. s[1] \in 0 .. LastInstallment
    BY PurchaseConstants
  <2>2. rows[s].ref = NoBill \/ rows[s].ref \in DOMAIN bills
    BY <1>0 DEF RefsIn
  <2> QED BY <1>1, <1>2, <2>1, <2>2
<1>4. BillsFollow'
  <2> SUFFICES ASSUME billHistory = {}
               PROVE  /\ ~ignoreMismatch'
                      /\ \A i \in DOMAIN bills' : Valid(i)' => Follows(i)'
                      /\ \A s \in PlanSlot : HasBill(s)' => s \in bills'[rows'[s].ref].slots
                      /\ AllBilled' => PlanMatches'
    BY <1>0 DEF BillsFollow
  <2>1. /\ ~ignoreMismatch /\ \A i \in DOMAIN bills : Valid(i) => Follows(i)
        /\ \A s \in PlanSlot : HasBill(s) => s \in bills[rows[s].ref].slots
    BY DEF PurchaseInd, BillsFollow
  <2>2. \A k \in 0 .. LastInstallment : \A s \in Unbilled(k) :
          s \in PlanSlot /\ s[1] = k /\ rows[s].there /\ ~HasBill(s)
    BY UnbilledSlots
  <2>3. ASSUME NEW i \in DOMAIN bills, Valid(i)' PROVE Follows(i)'
    <3>1. Valid(i) /\ Follows(i) /\ BillSame(i)
      BY <1>2, <2>1, <2>3 DEF Valid, BillSame
    <3>2. ASSUME NEW s \in bills[i].slots
          PROVE  s \in PlanSlot /\ rows'[s].ref = rows[s].ref
      <4>1. s \in PlanSlot /\ HasBill(s)
        BY <1>0, <3>1, FollowsHas
      <4>2. s \notin Unbilled(s[1])
        BY <4>1, UnbilledSlots, PurchaseConstants
      <4> QED BY <1>1, <4>1, <4>2
    <3>3. \A s \in bills[i].slots : /\ rows'[s].amount = rows[s].amount
                                    /\ rows'[s].there <=> rows[s].there
                                    /\ rows'[s].ref = rows[s].ref
      BY <1>1, <3>2
    <3> QED BY <1>0, <1>1, <3>1, <3>3, FollowsKept, PurchaseConstants
  <2>4. ASSUME NEW k \in 0 .. LastInstallment, Billing(k), NEW i, i = BillFor(k),
               bills'[i] = BillOf(k)
        PROVE  Follows(i)'
    <3>1. ASSUME NEW s \in Unbilled(k) PROVE rows'[s].there /\ rows'[s].ref = i
      BY <1>1, <2>2, <2>4
    <3>2. bills'[i].slots = Unbilled(k)
      BY <2>4 DEF BillOf
    <3>3. CASE k = 0
      <4>1. /\ firstBill \in {"advance", "deposit"} /\ Unbilled(0) = {First}
            /\ rows[First].amount > 0
        BY <1>0, <2>4, <3>3, BillingFirst
      <4>2. rows'[First].amount = rows[First].amount
        BY <1>1, PurchaseConstants
      <4>3. DeductedFrom(0) = 0
        <5>1. Deducts(0) = {}
          BY DEF Deducts
        <5> QED BY <5>1, SumEmpty DEF DeductedFrom
      <4>4. /\ bills'[i].kind = firstBill /\ bills'[i].first = rows[First].amount
            /\ bills'[i].deducted = DeductedFrom(0)
            /\ bills'[i].amount = [l \in PurchaseLine |->
                 IF <<0, l>> \in Unbilled(0) THEN rows[<<0, l>>].amount ELSE 0]
        BY <2>4, <3>3 DEF BillOf
      <4>5. \A l \in PurchaseLine : <<0, l>> \notin Unbilled(0)
        <5>1. \A l \in PurchaseLine : <<0, l>> # First
          BY PurchaseConstants DEF First
        <5> QED BY <4>1, <5>1
      <4>6. \A l \in PurchaseLine : bills'[i].amount[l] = 0
        BY <4>4, <4>5
      <4>7. IsFirstBill(i)'
        BY <1>0, <3>2, <3>3, <4>1, <4>2, <4>3, <4>4, <4>6 DEF IsFirstBill
      <4> QED BY <3>1, <3>2, <4>7 DEF Follows
    <3>4. CASE k # 0
      <4>0. k \in 1 .. LastInstallment
        BY <3>4, PurchaseConstants
      <4>1. Unbilled(k) = Cells(k) /\ DeductedFrom(k) = PartFor(k) /\ PurchaseLine # {}
        BY <1>0, <2>4, <4>0, WholeInstallment, DeductsPart, InstallmentRows
      <4>2. PartFor(k)' = PartFor(k)
        <5>1. \A s \in Cells(k) : rows'[s].amount = rows[s].amount
          BY <1>1, <4>0, CellsIn
        <5> QED BY <1>0, <1>1, <4>0, <5>1, PartSame, PurchaseConstants
      <4>3. /\ bills'[i].kind = "installment" /\ bills'[i].first = 0
            /\ bills'[i].deducted = DeductedFrom(k)
            /\ bills'[i].amount = [l \in PurchaseLine |->
                 IF <<k, l>> \in Unbilled(k) THEN rows[<<k, l>>].amount ELSE 0]
        BY <2>4, <3>4 DEF BillOf
      <4>4. \A l \in PurchaseLine : /\ <<k, l>> \in Unbilled(k)
                                    /\ rows'[<<k, l>>].amount = rows[<<k, l>>].amount
        BY <1>1, <4>0, <4>1, PurchaseConstants DEF Cells
      <4>5. \A l \in PurchaseLine : bills'[i].amount[l] = rows'[<<k, l>>].amount
        BY <4>3, <4>4
      <4>6. InstallmentBill(i, k)'
        BY <3>2, <4>1, <4>2, <4>3, <4>5 DEF InstallmentBill, Cells
      <4> QED BY <3>1, <3>2, <4>0, <4>6 DEF Follows
    <3> QED BY <3>3, <3>4
  <2>5. \A i \in DOMAIN bills' : Valid(i)' => Follows(i)'
    BY <1>2, <2>3, <2>4
  <2>6. ASSUME NEW s \in PlanSlot, HasBill(s)' PROVE s \in bills'[rows'[s].ref].slots
    <3>0. s[1] \in 0 .. LastInstallment
      BY PurchaseConstants
    <3>1. CASE s \in Unbilled(s[1])
      <4>1. Billing(s[1]) /\ rows'[s].ref = BillFor(s[1])
        BY <1>1, <2>6, <3>1 DEF HasBill
      <4>2. bills'[rows'[s].ref] = BillOf(s[1])
        BY <1>2, <3>0, <4>1
      <4> QED BY <3>1, <4>2 DEF BillOf
    <3>2. CASE s \notin Unbilled(s[1])
      <4>1. rows'[s].ref = rows[s].ref
        BY <1>1, <3>2
      <4>2. rows[s].ref \in DOMAIN bills
        BY <1>0, <2>6, <4>1 DEF HasBill, RefsIn
      <4>3. bills'[rows[s].ref] = bills[rows[s].ref]
        BY <1>2, <4>2
      <4>4. HasBill(s)
        BY <2>6, <4>1, <4>3 DEF HasBill, Valid
      <4> QED BY <2>1, <4>1, <4>3, <4>4
    <3> QED BY <3>1, <3>2
  <2>7. PlanMatches'
    <3>1. [s \in PlanSlot |-> rows'[s].amount] = [s \in PlanSlot |-> rows[s].amount]
      BY <1>1
    <3>2. PlanMatches
      BY DEF BillsCreated
    <3> QED BY <1>0, <1>1, <3>1, <3>2 DEF PlanMatches, RowsSum, ToTheTenth
  <2> QED BY <1>0, <2>1, <2>5, <2>6, <2>7
<1> QED BY <1>0, <1>3, <1>4 DEF PurchaseInd

LEMMA PurchaseStepInd == PurchaseInd /\ [PurchasePlanNext]_purchasePlanVars => PurchaseInd'
<1> SUFFICES ASSUME PurchaseInd, [PurchasePlanNext]_purchasePlanVars PROVE PurchaseInd'
  OBVIOUS
<1>0. PurchasePlanTypeOK /\ PlanTyped'
  BY PurchaseStepType DEF PurchaseInd, PlanTyped
<1>1. ASSUME UNCHANGED <<firstBill, rows, bills>>, billHistory \subseteq billHistory',
             billHistory' = {} => ignoreMismatch' = ignoreMismatch
      PROVE  PurchaseInd'
  BY <1>0, <1>1, BillStatesInd DEF BillSame, Valid
<1>2. CASE SetBypass \/ OpenPurchaseWizard
  BY <1>1, <1>2 DEF SetBypass, OpenPurchaseWizard
<1>3. ASSUME NEW share \in Shares, NEW first, NEW amount,
             DoCreatePurchaseInvoicePlan(share, first, amount),
             first \in {"none", "advance", "deposit"}, amount \in Nat
      PROVE  PurchaseInd'
  BY <1>0, <1>3, PlanMadeInd
<1>4. ASSUME NEW s \in PlanSlot, NEW amount \in RowAmount, TypeRow(s, amount) PROVE PurchaseInd'
  <2>1. /\ s # First /\ ~rows[s].there /\ firstBill = "none" /\ rows'[s].ref = NoBill
        /\ \A x \in PlanSlot : x # s => rows'[x] = rows[x]
        /\ UNCHANGED <<purchase, ignoreMismatch, firstBill, bills, purchaseWizard, billHistory>>
    BY <1>0, <1>4, RowTyped
  <2>2. First \notin Planned /\ First \notin Planned'
    BY <2>1, PurchaseConstants DEF PurchaseInd, PlanTyped, FirstNamed, Planned
  <2>3. ~HasBill(s)'
    BY <2>1 DEF HasBill
  <2>4. CASE ~HasBill(s)
    <3>1. rows'[s].there
      <4>1. rows' = [rows EXCEPT ![s] = [NoBillRow EXCEPT !.there = TRUE, !.amount = amount]]
        BY <1>4 DEF TypeRow
      <4>2. rows'[s] = [NoBillRow EXCEPT !.there = TRUE, !.amount = amount]
        BY <1>0, <4>1 DEF PurchasePlanTypeOK
      <4> QED BY <4>2 DEF NoBillRow
    <3>2. s \in Planned'
      BY <3>1 DEF Planned
    <3> QED BY <1>0, <2>1, <2>2, <2>3, <2>4, <3>2, RowsInd
  <2>5. CASE HasBill(s)
    \* a row that is not there has no bill that follows the plan
    <3>1. billHistory # {}
      <4>1. SUFFICES ASSUME billHistory = {} PROVE FALSE
        OBVIOUS
      <4>2. rows[s].ref \in DOMAIN bills /\ Valid(rows[s].ref) /\ s \in bills[rows[s].ref].slots
        BY <2>5, <4>1 DEF PurchaseInd, RefsIn, BillsFollow, HasBill
      <4>3. Follows(rows[s].ref)
        BY <4>1, <4>2 DEF PurchaseInd, BillsFollow
      <4> QED BY <2>1, <4>2, <4>3 DEF Follows
    <3>2. RefsIn'
      BY <2>1 DEF PurchaseInd, RefsIn
    <3> QED BY <1>0, <2>1, <3>1, <3>2 DEF PurchaseInd, BillsFollow
  <2> QED BY <2>4, <2>5
<1>5. ASSUME NEW s \in PlanSlot, NEW amount \in RowAmount, EditRow(s, amount) PROVE PurchaseInd'
  <2>1. /\ rows[s].there /\ ~HasBill(s)
        /\ \A x \in PlanSlot : /\ rows'[x].there <=> rows[x].there
                               /\ rows'[x].ref = rows[x].ref
        /\ UNCHANGED <<purchase, ignoreMismatch, firstBill, bills, purchaseWizard>>
        /\ billHistory \subseteq billHistory'
        /\ billHistory' = {} => bills = << >> \/ s # First
    BY <1>0, <1>5, RowEdited
  <2>2. \A x \in PlanSlot : x # s => rows'[x] = rows[x]
    BY <1>0, <1>5 DEF EditRow, PurchasePlanTypeOK
  <2>3. s \in Planned /\ s \in Planned' /\ ~HasBill(s)'
    BY <2>1 DEF Planned, HasBill, Valid
  <2> QED BY <1>0, <2>1, <2>2, <2>3, RowsInd
<1>6. ASSUME NEW s \in PlanSlot,
             UnlinkRow(s) \/ \E installment \in 1 .. LastInstallment : MoveRow(s, installment)
      PROVE  PurchaseInd'
  BY <1>0, <1>6, RowGoneInd
<1>7. CASE CreatePurchaseInvoices
  BY <1>7, BillsCreatedInd DEF CreatePurchaseInvoices
<1>8. CASE PurchaseConfirm \/ WkfApproveOrder \/ PurchaseCancelDraft
  BY <1>1, <1>8 DEF PurchaseConfirm, WkfApproveOrder, PurchaseCancelDraft
<1>9. ASSUME NEW S, BillsCanceled(S), UNCHANGED <<ignoreMismatch, firstBill, rows, billHistory>>
      PROVE  PurchaseInd'
  BY <1>0, <1>9, BillsCanceledSame, BillStatesInd
<1>10. CASE CancelDraftBills \/ PurchaseCancel
  BY <1>9, <1>10 DEF CancelDraftBills, PurchaseCancel
<1>11. ASSUME NEW i \in DOMAIN bills, BillCancel(i) \/ BillProceed(i) PROVE PurchaseInd'
  <2>1. CASE BillCancel(i)
    BY <1>9, <2>1 DEF BillCancel
  <2>2. CASE BillProceed(i)
    <3>1. UNCHANGED <<ignoreMismatch, firstBill, rows>>
      BY <2>2 DEF BillProceed
    <3>2. /\ Len(bills') = Len(bills) /\ \A k \in DOMAIN bills : BillSame(k)
          /\ billHistory \subseteq billHistory'
          /\ billHistory' = {} => \A k \in DOMAIN bills : Valid(k)' => Valid(k)
      BY <1>0, <2>2, BillProceedSame
    <3> QED BY <1>0, <3>1, <3>2, BillStatesInd
  <2> QED BY <1>11, <2>1, <2>2
<1>12. CASE UNCHANGED purchasePlanVars
  BY <1>1, <1>12 DEF purchasePlanVars
<1>13. \A amount \in FirstAmount : amount \in Nat
  BY PurchaseConstants
<1> QED BY <1>2, <1>3, <1>4, <1>5, <1>6, <1>7, <1>8, <1>10, <1>11, <1>12, <1>13
        DEF PurchasePlanNext

-----------------------------------------------------------------------------
(* The plan of a purchase order: what is billed once all rows have bills *)

BilledInd == PurchaseInd /\ AllBilled /\ billHistory = {}

LivingBills == {i \in DOMAIN bills : Valid(i)}

\* The bill of an installment, of which all rows are in the plan
LivingInstallment(i, k) ==
  InstallmentBill(i, k) /\ Cells(k) = {s \in Planned : rows[s].ref = i} /\ First \notin Cells(k)

LivingFirst(i) ==
  IsFirstBill(i) /\ First \in Planned /\ {First} = {s \in Planned : rows[s].ref = i}

\* Once all rows are billed, each one has one bill, which is that of its installment
\* or the first one.
LEMMA BillsOnceAllBilled ==
  ASSUME BilledInd
  PROVE  /\ IsFiniteSet(LivingBills) /\ Cardinality(LivingBills) \in Nat
         /\ Len(bills) \in Nat /\ Cardinality(LivingBills) <= Len(bills)
         /\ LivingBills \subseteq DOMAIN bills /\ \A i \in LivingBills : bills[i] \in Bill
         /\ PlanMatches /\ ~ignoreMismatch /\ Planned # {} /\ Planned \subseteq PlanSlot
         /\ \A s \in Planned : rows[s].ref \in LivingBills
         /\ \A i \in LivingBills : bills[i].slots = {s \in Planned : rows[s].ref = i}
         /\ \A i \in LivingBills : LivingFirst(i) \/ \E k \in 1 .. LastInstallment : LivingInstallment(i, k)
<1>0. /\ PurchasePlanTypeOK /\ ~ignoreMismatch /\ PlanMatches
      /\ \A i \in DOMAIN bills : Valid(i) => Follows(i)
      /\ \A s \in PlanSlot : HasBill(s) => s \in bills[rows[s].ref].slots
      /\ Planned # {} /\ \A s \in Planned : HasBill(s)
      /\ RefsIn
  BY DEF BilledInd, PurchaseInd, PlanTyped, BillsFollow, AllBilled
<1>1. Planned \subseteq PlanSlot
  BY DEF Planned
<1>2. LivingBills \subseteq DOMAIN bills /\ \A i \in LivingBills : bills[i] \in Bill /\ Valid(i)
  BY <1>0, BillsType DEF LivingBills
<1>3. /\ IsFiniteSet(LivingBills) /\ Cardinality(LivingBills) \in Nat
      /\ Len(bills) \in Nat /\ Cardinality(LivingBills) <= Len(bills)
  <2>1. Len(bills) \in Nat /\ DOMAIN bills = 1 .. Len(bills)
    BY <1>0, BillsType
  <2>2. IsFiniteSet(1 .. Len(bills)) /\ Cardinality(1 .. Len(bills)) = Len(bills)
    <3> DEFINE n == Len(bills)
    <3>1. 1 \in Int /\ n \in Int /\ n >= 0
      BY <2>1
    <3> HIDE DEF n
    <3>2. IsFiniteSet(1 .. n) /\ Cardinality(1 .. n) = IF 1 > n THEN 0 ELSE n - 1 + 1
      BY <3>1, FS_Interval
    <3>3. Cardinality(1 .. n) = n
      BY <3>1, <3>2
    <3> QED BY <3>2, <3>3 DEF n
  <2> QED BY <1>2, <2>1, <2>2, FS_Subset, FS_CardinalityType
<1>4. ASSUME NEW s \in Planned
      PROVE  rows[s].ref \in LivingBills /\ s \in bills[rows[s].ref].slots
  <2>1. s \in PlanSlot /\ HasBill(s)
    BY <1>0, <1>1
  <2>2. rows[s].ref # NoBill /\ Valid(rows[s].ref)
    BY <2>1 DEF HasBill
  <2>3. rows[s].ref \in DOMAIN bills
    BY <1>0, <2>1, <2>2 DEF RefsIn
  <2> QED BY <1>0, <2>1, <2>2, <2>3 DEF LivingBills
<1>5. ASSUME NEW i \in LivingBills PROVE bills[i].slots = {s \in Planned : rows[s].ref = i}
  <2>1. i \in DOMAIN bills /\ Valid(i) /\ Follows(i)
    BY <1>0, <1>2
  <2>2. \A s \in bills[i].slots : s \in PlanSlot /\ rows[s].there /\ rows[s].ref = i
    BY <1>0, <2>1, FollowsHas
  <2>3. \A s \in bills[i].slots : s \in Planned /\ rows[s].ref = i
    BY <2>2 DEF Planned
  <2> QED BY <1>4, <2>3
<1>6. ASSUME NEW i \in LivingBills
      PROVE  LivingFirst(i) \/ \E k \in 1 .. LastInstallment : LivingInstallment(i, k)
  <2>1. i \in DOMAIN bills /\ Follows(i)
    BY <1>0, <1>2
  <2>2. CASE IsFirstBill(i)
    <3>1. {First} = {s \in Planned : rows[s].ref = i}
      BY <1>5, <2>2 DEF IsFirstBill
    <3> QED BY <2>2, <3>1 DEF LivingFirst
  <2>3. ASSUME NEW k \in 1 .. LastInstallment, InstallmentBill(i, k)
        PROVE  LivingInstallment(i, k)
    BY <1>5, <2>3, CellsIn DEF InstallmentBill, LivingInstallment
  <2> QED BY <2>1, <2>2, <2>3 DEF Follows
<1> QED BY <1>0, <1>1, <1>2, <1>3, <1>4, <1>5, <1>6

\* The rows of a line are billed for what they amount to.
LEMMA LineBilled ==
  ASSUME BilledInd, NEW l \in PurchaseLine
  PROVE  OfBills([i \in DOMAIN bills |-> bills[i].amount[l]]) = RowsSum({s \in Planned : s[2] = l})
<1> DEFINE S == {s \in Planned : s[2] = l}
           F == [s \in PlanSlot |-> rows[s].amount]
           G == [i \in DOMAIN bills |-> bills[i].amount[l]]
           f == [s \in PlanSlot |-> rows[s].ref]
<1>0. PurchasePlanTypeOK
  BY DEF BilledInd, PurchaseInd, PlanTyped
<1>1. /\ IsFiniteSet(S) /\ S \subseteq Planned /\ S \subseteq PlanSlot
      /\ \A s \in S : F[s] = rows[s].amount /\ F[s] \in Int /\ f[s] = rows[s].ref
  <2>1. S \subseteq Planned /\ S \subseteq PlanSlot
    BY DEF Planned
  <2>2. \A s \in PlanSlot : rows[s].amount \in Int
    BY <1>0, BillsType DEF BillRow
  <2> QED BY <2>1, <2>2, SlotsFinite, FS_Subset
<1>2. IsFiniteSet(LivingBills) /\ \A i \in LivingBills : G[i] = bills[i].amount[l] /\ G[i] \in Int
  BY BillsOnceAllBilled DEF Bill
<1>3. \A s \in S : s # First /\ s = <<s[1], l>>
  <2>1. First[2] # l
    BY PurchaseConstants DEF First
  <2> QED BY <1>1, <2>1, PurchaseConstants
<1> HIDE DEF F, G, f
<1>4. ASSUME NEW i \in LivingBills, NEW k \in 1 .. LastInstallment, LivingInstallment(i, k)
      PROVE  /\ \A s \in S : f[s] = i => s = <<k, l>>
             /\ G[i] = rows[<<k, l>>].amount
             /\ <<k, l>> \in S /\ f[<<k, l>>] = i
  <2>1. \A s \in S : f[s] = i => s \in Cells(k)
    BY <1>1, <1>4 DEF LivingInstallment
  <2>2. \A s \in Cells(k) : s[1] = k
    BY CellsIn
  <2>3. <<k, l>> \in Cells(k)
    BY DEF Cells
  <2>4. <<k, l>> \in Planned /\ rows[<<k, l>>].ref = i
    BY <1>4, <2>3 DEF LivingInstallment
  <2>5. <<k, l>> \in S
    BY <2>4
  <2>6. \A s \in S : f[s] = i => s = <<k, l>>
    BY <1>3, <2>1, <2>2
  <2>7. G[i] = rows[<<k, l>>].amount
    BY <1>2, <1>4 DEF LivingInstallment, InstallmentBill
  <2> QED BY <1>1, <2>4, <2>5, <2>6, <2>7
<1>5. ASSUME NEW i \in LivingBills, LivingFirst(i)
      PROVE  G[i] = 0 /\ \A s \in S : f[s] # i
  <2>1. \A s \in S : f[s] = i => s = First
    BY <1>1, <1>5 DEF LivingFirst
  <2> QED BY <1>2, <1>3, <1>5, <2>1 DEF LivingFirst, IsFirstBill
<1>6. \A s \in S : f[s] \in LivingBills
  BY <1>1, BillsOnceAllBilled
<1> HIDE DEF S
<1>7. \A s \in S : f[s] \in LivingBills /\ G[f[s]] = F[s]
  <2> TAKE s \in S
  <2>1. f[s] \in LivingBills
    BY <1>6
  <2>2. PICK k \in 1 .. LastInstallment : LivingInstallment(f[s], k)
    BY <1>5, <2>1, BillsOnceAllBilled
  <2>3. s = <<k, l>> /\ G[f[s]] = rows[<<k, l>>].amount
    BY <1>4, <2>1, <2>2
  <2> QED BY <1>1, <2>1, <2>3
<1>8. \A s, t \in S : f[s] = f[t] => s = t
  <2> SUFFICES ASSUME NEW s \in S, NEW t \in S, f[s] = f[t] PROVE s = t
    OBVIOUS
  <2>1. f[s] \in LivingBills
    BY <1>6
  <2>2. PICK k \in 1 .. LastInstallment : LivingInstallment(f[s], k)
    BY <1>5, <2>1, BillsOnceAllBilled
  <2> DEFINE i == f[s]
  <2>3. i \in LivingBills /\ LivingInstallment(i, k) /\ f[s] = i /\ f[t] = i
    BY <2>1, <2>2
  <2> HIDE DEF i
  <2>4. s = <<k, l>> /\ t = <<k, l>>
    BY <1>4, <2>3
  <2> QED BY <2>4
<1>9. ASSUME NEW i \in LivingBills PROVE G[i] = 0 \/ \E s \in S : f[s] = i
  <2>1. LivingFirst(i) \/ \E k \in 1 .. LastInstallment : LivingInstallment(i, k)
    BY BillsOnceAllBilled
  <2>2. CASE LivingFirst(i)
    BY <1>5, <2>2
  <2>3. ASSUME NEW k \in 1 .. LastInstallment, LivingInstallment(i, k) PROVE \E s \in S : f[s] = i
    <3>1. <<k, l>> \in S /\ f[<<k, l>>] = i
      BY <1>4, <2>3
    <3> QED BY <3>1
  <2> QED BY <2>1, <2>2, <2>3
<1>10. \A s \in S : F[s] \in Int
  BY <1>1
<1>11. \A i \in LivingBills : G[i] \in Int
  BY <1>2
<1>12. SumFunctionOnSet(F, S) = SumFunctionOnSet(G, LivingBills)
  BY <1>1, <1>2, <1>7, <1>8, <1>9, <1>10, <1>11, SumReindex
<1> QED BY <1>12 DEF F, G, S, OfBills, LivingBills, RowsSum

\* What is billed of the advance or the deposit is that of the first row.
LEMMA FirstBilled ==
  ASSUME BilledInd
  PROVE  BilledFirst = IF First \in Planned THEN rows[First].amount ELSE 0
<1> DEFINE G == [i \in DOMAIN bills |-> bills[i].first]
           r == rows[First].ref
<1>1. IsFiniteSet(LivingBills) /\ \A i \in LivingBills : G[i] = bills[i].first /\ G[i] \in Int
  BY BillsOnceAllBilled DEF Bill
<1>2. BilledFirst = SumFunctionOnSet(G, LivingBills)
  BY DEF BilledFirst, OfBills, LivingBills
<1> HIDE DEF G
<1>3. \A i \in LivingBills : ~LivingFirst(i) => G[i] = 0
  BY <1>1, BillsOnceAllBilled DEF LivingInstallment, InstallmentBill
<1>4. \A i \in LivingBills : LivingFirst(i) => First \in Planned /\ i = r
  BY DEF LivingFirst
<1>5. \A i \in LivingBills : G[i] \in Int
  BY <1>1
<1>6. CASE First \notin Planned
  <2>1. \A i \in LivingBills : G[i] = 0
    BY <1>3, <1>4, <1>6
  <2> QED BY <1>1, <1>2, <1>5, <1>6, <2>1, SumOneTerm
<1>7. CASE First \in Planned
  <2>1. r \in LivingBills
    BY <1>7, BillsOnceAllBilled
  <2>2. \A i \in LivingBills \ {r} : G[i] = 0
    BY <1>3, <1>4
  <2>3. SumFunctionOnSet(G, LivingBills) = G[r]
    BY <1>1, <1>5, <2>1, <2>2, SumOneTerm
  <2>4. LivingFirst(r)
    <3>1. ASSUME NEW k \in 1 .. LastInstallment, LivingInstallment(r, k) PROVE FALSE
      BY <1>7, <3>1 DEF LivingInstallment
    <3> QED BY <2>1, <3>1, BillsOnceAllBilled
  <2> QED BY <1>1, <1>2, <1>7, <2>1, <2>3, <2>4 DEF LivingFirst, IsFirstBill
<1> QED BY <1>6, <1>7

\* What the bills deduct, and nothing where there is no first row
LEMMA WhatIsDeducted ==
  ASSUME BilledInd
  PROVE  LET G == [i \in DOMAIN bills |-> bills[i].deducted]
         IN  /\ Deducted = SumFunctionOnSet(G, LivingBills)
             /\ \A i \in LivingBills : G[i] \in Nat /\ G[i] = bills[i].deducted
             /\ First \notin Planned => Deducted = 0
<1> DEFINE G == [i \in DOMAIN bills |-> bills[i].deducted]
<1>1. IsFiniteSet(LivingBills) /\ \A i \in LivingBills : G[i] = bills[i].deducted /\ G[i] \in Nat
  BY BillsOnceAllBilled DEF Bill
<1>2. Deducted = SumFunctionOnSet(G, LivingBills)
  BY DEF Deducted, OfBills, LivingBills
<1> HIDE DEF G
<1>3. First \notin Planned => \A i \in LivingBills : G[i] = 0
  BY <1>1, BillsOnceAllBilled DEF LivingInstallment, InstallmentBill, PartFor, LivingFirst
<1>4. \A i \in LivingBills : G[i] \in Int
  BY <1>1
<1>5. First \notin Planned => SumFunctionOnSet(G, LivingBills) = 0
  BY <1>1, <1>3, <1>4, SumOneTerm
<1>6. First \notin Planned => Deducted = 0
  BY <1>2, <1>5
<1> QED BY <1>1, <1>2, <1>6 DEF G

\* The deposit is deducted from the bill of the last installment, and from no other.
LEMMA DepositDeducted ==
  ASSUME BilledInd, firstBill = "deposit", Planned # {First}
  PROVE  Deducted = BilledFirst
<1> DEFINE G == [i \in DOMAIN bills |-> bills[i].deducted]
           K == {s[1] : s \in Planned}
           m == Max(K)
<1>0. /\ Deducted = SumFunctionOnSet(G, LivingBills)
      /\ \A i \in LivingBills : G[i] \in Nat /\ G[i] = bills[i].deducted
      /\ First \notin Planned => Deducted = 0
  BY WhatIsDeducted
<1>1. CASE First \notin Planned
  BY <1>0, <1>1, FirstBilled
<1>2. CASE First \in Planned
  <2>1. K \subseteq 0 .. LastInstallment /\ K # {}
    BY BillsOnceAllBilled, PurchaseConstants
  <2>2. m \in K /\ \A k \in K : k <= m
    <3> HIDE DEF K
    <3> QED BY <2>1, MaxUpTo, PurchaseConstants
  <2>3. PICK s \in Planned : s # First
    BY <1>2
  <2>4. s[1] \in K /\ s[1] \in 1 .. LastInstallment
    BY <2>3, BillsOnceAllBilled, PurchaseConstants
  <2>5. PICK t \in Planned : t[1] = m
    BY <2>2
  <2>6. m \in 1 .. LastInstallment /\ t # First
    <3>1. m \in 0 .. LastInstallment /\ s[1] <= m
      BY <2>1, <2>2, <2>4
    <3>2. m \in 1 .. LastInstallment
      <4> HIDE DEF m
      <4> QED BY <2>4, <3>1, PurchaseConstants
    <3>3. t[1] # 0
      BY <2>5, <3>2
    <3>4. t # First
      BY <3>3 DEF First
    <3> QED BY <3>2, <3>4
  <2> DEFINE j == rows[t].ref
  <2>7. t = <<m, t[2]>> /\ t[2] \in PurchaseLine
    BY <2>5, <2>6, BillsOnceAllBilled, PurchaseConstants
  <2>8. \A k \in 1 .. LastInstallment :
          PartFor(k) = IF k = m THEN rows[First].amount ELSE 0
    BY <1>2 DEF PartFor
  <2> HIDE DEF m, K, G
  <2>9. ASSUME NEW i \in LivingBills, NEW k \in 1 .. LastInstallment, LivingInstallment(i, k)
        PROVE  /\ i = j <=> k = m
               /\ G[i] = IF k = m THEN rows[First].amount ELSE 0
    <3>1. i = j => t \in Cells(k)
      BY <2>9 DEF LivingInstallment
    <3>2. t \in Cells(k) => t[1] = k
      BY CellsIn
    <3>3. k = m => t \in Cells(k)
      BY <2>7 DEF Cells
    <3>4. t \in Cells(k) => i = j
      BY <2>9 DEF LivingInstallment
    <3>5. G[i] = PartFor(k)
      BY <1>0, <2>9 DEF LivingInstallment, InstallmentBill
    <3> QED BY <2>5, <2>8, <3>1, <3>2, <3>3, <3>4, <3>5
  <2>10. \A i \in LivingBills : LivingFirst(i) => G[i] = 0 /\ i # j
    BY <1>0, <2>6 DEF LivingFirst, IsFirstBill
  <2>11. j \in LivingBills
    BY BillsOnceAllBilled
  <2> HIDE DEF j
  <2>12. G[j] = rows[First].amount
    BY <2>9, <2>10, <2>11, BillsOnceAllBilled
  <2>13. \A i \in LivingBills \ {j} : G[i] = 0
    BY <2>9, <2>10, BillsOnceAllBilled
  <2>14. IsFiniteSet(LivingBills) /\ \A i \in LivingBills : G[i] \in Int
    BY <1>0, BillsOnceAllBilled
  <2>15. SumFunctionOnSet(G, LivingBills) = G[j]
    BY <2>11, <2>13, <2>14, SumOneTerm
  <2>16. BilledFirst = rows[First].amount
    BY <1>2, FirstBilled
  <2> QED BY <1>0, <2>12, <2>15, <2>16
<1> QED BY <1>1, <1>2

\* The rows of the installments
PlannedRows == Planned \ {First}

\* What the plan bills of the order is the order's total, to the unit of comparison
\* for each line.
LEMMA PlannedTotal ==
  ASSUME BilledInd, Planned # {First}
  PROVE  /\ PurchaseLine # {}
         /\ AmountsNear(RowsSum(PlannedRows), OrderTotal, Tenth * Cardinality(PurchaseLine))
<1> DEFINE P == PlannedRows
           R == [s \in PlanSlot |-> rows[s].amount]
           line == [s \in PlanSlot |-> s[2]]
           L == [l \in PurchaseLine |-> SumFunctionOnSet(R, {s \in P : line[s] = l})]
           E == [l \in PurchaseLine |-> Tenth]
<1>0. PurchasePlanTypeOK
  BY DEF BilledInd, PurchaseInd, PlanTyped
<1>1. /\ IsFiniteSet(P) /\ P \subseteq Planned /\ P \subseteq PlanSlot /\ P # {}
      /\ \A s \in P : s # First /\ s[2] \in PurchaseLine /\ line[s] = s[2]
  <2>1. P \subseteq Planned /\ P \subseteq PlanSlot /\ P # {}
    BY BillsOnceAllBilled DEF PlannedRows
  <2>2. \A s \in P : s # First
    BY DEF PlannedRows
  <2>3. \A s \in P : s[2] \in PurchaseLine /\ line[s] = s[2]
    BY <2>1, <2>2, PurchaseConstants
  <2> QED BY <2>1, <2>2, <2>3, SlotsFinite, FS_Subset
<1>2. \A s \in PlanSlot : R[s] = rows[s].amount /\ R[s] \in Nat
  BY <1>0, BillsType DEF BillRow
<1>3. PurchaseLine # {}
  BY <1>1
<1>4. \A l \in PurchaseLine : \E s \in P : s[2] = l
  <2> TAKE l \in PurchaseLine
  <2>1. PICK s \in P : s # First /\ s \in Planned
    BY <1>1
  <2> DEFINE i == rows[s].ref
  <2>2. i \in LivingBills
    BY <2>1, BillsOnceAllBilled
  <2>3. ~LivingFirst(i)
    BY <2>1 DEF LivingFirst
  <2>4. PICK k \in 1 .. LastInstallment : LivingInstallment(i, k)
    BY <2>2, <2>3, BillsOnceAllBilled
  <2>5. <<k, l>> \in Cells(k)
    BY DEF Cells
  <2>6. <<k, l>> \in Planned /\ <<k, l>> # First
    BY <2>4, <2>5, PurchaseConstants DEF LivingInstallment
  <2>7. <<k, l>> \in P /\ <<k, l>>[2] = l
    BY <2>6 DEF PlannedRows
  <2> QED BY <2>7
<1>5. \A l \in PurchaseLine : L[l] \in Nat /\ ToTheTenth(L[l]) = ToTheTenth(PurchaseSubtotal[l])
  <2> TAKE l \in PurchaseLine
  <2> DEFINE S == {s \in Planned : s[2] = l}
  <2>1. {s \in P : line[s] = l} = S
    <3>1. First[2] # l
      BY PurchaseConstants DEF First
    <3>2. \A s \in S : s \in P
      BY <3>1 DEF PlannedRows
    <3> QED BY <1>1, <3>2
  <2>2. S \in SUBSET PlanSlot
    BY BillsOnceAllBilled
  <2>3. L[l] = RowsSum(S)
    BY <2>1 DEF RowsSum
  <2>4. l \in {s[2] : s \in Planned \ {First}}
    BY <1>4 DEF PlannedRows
  <2>5. ToTheTenth(RowsSum(S)) = ToTheTenth(PurchaseSubtotal[l])
    BY <2>4, BillsOnceAllBilled DEF PlanMatches
  <2> HIDE DEF S, L
  <2> QED BY <1>0, <2>2, <2>3, <2>5, RowsSumType
<1> HIDE DEF P, R, line
<1>6. RowsSum(P) = SumFunctionOnSet(L, PurchaseLine)
  <2>1. \A s \in P : R[s] \in Int
    BY <1>1, <1>2
  <2>2. \A s \in P : line[s] \in PurchaseLine
    BY <1>1
  <2>3. SumFunctionOnSet(R, P) = SumFunctionOnSet(L, PurchaseLine)
    BY <1>1, <2>1, <2>2, PurchaseConstants, SumPartition
  <2> QED BY <2>3 DEF RowsSum, R
<1>7. \A l \in PurchaseLine : L[l] \in Int /\ PurchaseSubtotal[l] \in Int /\ E[l] \in Int
                              /\ E[l] = Tenth
  BY <1>5, PurchaseConstants
<1> HIDE DEF L
<1>8. \A l \in PurchaseLine : /\ 1 * L[l] - 1 * PurchaseSubtotal[l] <= E[l]
                              /\ 1 * PurchaseSubtotal[l] - 1 * L[l] <= E[l]
  <2> TAKE l \in PurchaseLine
  <2>1. ASSUME NEW a \in Nat, NEW b \in Nat, ToTheTenth(a) = ToTheTenth(b)
        PROVE  a - b <= Tenth /\ b - a <= Tenth
    <3> DEFINE h == Tenth \div 2
               q == (a + h) \div Tenth
    <3>1. h \in Nat /\ Tenth \in Nat /\ Tenth > 0
      BY PurchaseConstants
    <3>2. q = (b + h) \div Tenth
      BY <2>1 DEF ToTheTenth
    <3> HIDE DEF h
    <3>3. a + h \in Nat /\ b + h \in Nat
      BY <3>1
    <3>4. Tenth * q <= a + h /\ a + h < Tenth * q + Tenth
      BY <3>1, <3>3
    <3>5. Tenth * q <= b + h /\ b + h < Tenth * q + Tenth
      <4> HIDE DEF q
      <4>1. LET p == (b + h) \div Tenth IN Tenth * p <= b + h /\ b + h < Tenth * p + Tenth
        BY <3>1, <3>3
      <4> QED BY <3>2, <4>1
    <3>6. q \in Int
      BY <3>1, <3>3
    <3> DEFINE w == Tenth * q
    <3>7. w \in Int
      <4> HIDE DEF q
      <4> QED BY <3>1, <3>6
    <3> HIDE DEF q, w
    <3>8. w <= a + h /\ a + h < w + Tenth /\ w <= b + h /\ b + h < w + Tenth
      BY <3>4, <3>5 DEF w
    <3> QED BY <3>1, <3>7, <3>8
  <2>2. L[l] - PurchaseSubtotal[l] <= Tenth /\ PurchaseSubtotal[l] - L[l] <= Tenth
    BY <1>5, <2>1, PurchaseConstants
  <2> QED BY <1>7, <2>2
<1>9. SumFunctionOnSet(E, PurchaseLine) = Tenth * Cardinality(PurchaseLine)
  <2>1. Tenth \in Int
    BY PurchaseConstants
  <2> QED BY <2>1, PurchaseConstants, SumOfSame
<1> HIDE DEF E
<1> DEFINE x == SumFunctionOnSet(L, PurchaseLine)
           y == SumFunctionOnSet(PurchaseSubtotal, PurchaseLine)
           z == SumFunctionOnSet(E, PurchaseLine)
<1>10. 1 * x - 1 * y <= z /\ 1 * y - 1 * x <= z
  <2>1. 1 \in Int
    OBVIOUS
  <2>2. \A l \in PurchaseLine : L[l] \in Int /\ PurchaseSubtotal[l] \in Int /\ E[l] \in Int
    BY <1>7
  <2> QED BY <1>8, <2>1, <2>2, PurchaseConstants, SumsNear
<1>11. x \in Int /\ y \in Int
  <2>1. (\A l \in PurchaseLine : L[l] \in Int) /\ \A l \in PurchaseLine : PurchaseSubtotal[l] \in Int
    BY <1>7
  <2> QED BY <2>1, PurchaseConstants, SumType
<1> HIDE DEF x, y, z
<1>12. x - y <= z /\ y - x <= z
  BY <1>10, <1>11
<1>13. x = RowsSum(P) /\ y = OrderTotal /\ z = Tenth * Cardinality(PurchaseLine)
  BY <1>6, <1>9 DEF x, y, z, OrderTotal
<1> QED BY <1>3, <1>12, <1>13 DEF AmountsNear, P

\* The rows of an installment amount to something if its bill does.
LEMMA CellsPositive ==
  ASSUME BilledInd, NoneEmpty, NEW i \in LivingBills, NEW k \in 1 .. LastInstallment,
         LivingInstallment(i, k)
  PROVE  RowsSum(Cells(k)) \in Nat /\ RowsSum(Cells(k)) > 0
<1> DEFINE R == [s \in PlanSlot |-> rows[s].amount]
<1>0. PurchasePlanTypeOK
  BY DEF BilledInd, PurchaseInd, PlanTyped
<1>1. i \in DOMAIN bills /\ Valid(i) /\ bills[i].kind = "installment"
  BY DEF LivingBills, LivingInstallment, InstallmentBill
<1>2. PICK l \in PurchaseLine : bills[i].amount[l] > 0
  BY <1>1 DEF NoneEmpty
<1> DEFINE c == <<k, l>>
<1>3. c \in Cells(k) /\ rows[c].amount > 0
  BY <1>2 DEF LivingInstallment, InstallmentBill, Cells
<1>4. Cells(k) \subseteq PlanSlot /\ IsFiniteSet(Cells(k)) /\ IsFiniteSet(Cells(k) \ {c})
  BY CellsIn, SlotsFinite, FS_Subset
<1>5. \A s \in PlanSlot : R[s] = rows[s].amount /\ R[s] \in Nat
  BY <1>0, BillsType DEF BillRow
<1>6. RowsSum(Cells(k)) = SumFunctionOnSet(R, Cells(k))
  BY DEF RowsSum
<1> HIDE DEF c, R
<1>7. SumFunctionOnSet(R, Cells(k) \ {c}) \in Nat
  <2>1. \A s \in Cells(k) \ {c} : R[s] \in Nat
    BY <1>4, <1>5
  <2> QED BY <1>4, <2>1, SumNotNegative
<1>8. SumFunctionOnSet(R, Cells(k)) = R[c] + SumFunctionOnSet(R, Cells(k) \ {c})
  <2>1. \A s \in Cells(k) : R[s] \in Int
    BY <1>4, <1>5
  <2> QED BY <1>3, <1>4, <2>1, SumRemove
<1>9. R[c] \in Nat /\ R[c] > 0
  BY <1>3, <1>4, <1>5
<1> QED BY <1>6, <1>7, <1>8, <1>9

\* Each bill deducts its part of the advance, to half a hundredth.
LEMMA PartsNear ==
  ASSUME BilledInd, firstBill = "advance", Planned # {First}, NoneEmpty, First \in Planned
  PROVE  AmountsNear(2 * (OrderTotal * Deducted),
                     2 * (rows[First].amount * RowsSum(PlannedRows)),
                     OrderTotal * Cardinality(LivingBills))
<1> DEFINE P == PlannedRows
           A == rows[First].amount
           T == OrderTotal
           R == [s \in PlanSlot |-> rows[s].amount]
           ref == [s \in PlanSlot |-> rows[s].ref]
           W == [i \in LivingBills |-> SumFunctionOnSet(R, {s \in P : ref[s] = i})]
           G == [i \in DOMAIN bills |-> bills[i].deducted]
           E == [i \in LivingBills |-> T]
<1>0. /\ PurchasePlanTypeOK
      /\ Deducted = SumFunctionOnSet(G, LivingBills)
      /\ \A i \in LivingBills : G[i] \in Nat /\ G[i] = bills[i].deducted
      /\ IsFiniteSet(LivingBills)
  <2>1. PurchasePlanTypeOK
    BY DEF BilledInd, PurchaseInd, PlanTyped
  <2> QED BY <2>1, WhatIsDeducted, BillsOnceAllBilled
<1>1. /\ IsFiniteSet(P) /\ P \subseteq Planned /\ P \subseteq PlanSlot
      /\ First \notin P /\ Planned = P \cup {First}
  <2>1. P \subseteq Planned /\ P \subseteq PlanSlot
    BY BillsOnceAllBilled DEF PlannedRows
  <2> QED BY <2>1, SlotsFinite, FS_Subset DEF PlannedRows
<1>2. \A s \in PlanSlot : R[s] = rows[s].amount /\ R[s] \in Nat /\ ref[s] = rows[s].ref
  BY <1>0, BillsType DEF BillRow
<1>3. A \in Nat /\ T \in Nat /\ T > 0
  <2>1. A \in Nat
    BY <1>0, BillsType, PurchaseConstants DEF BillRow
  <2> QED BY <2>1, PlannedTotal, OrderTotalType
<1> HIDE DEF P, R, ref, G, A, T
<1>4. ASSUME NEW i \in LivingBills
      PROVE  W[i] \in Nat /\ AmountsNear(2 * (T * G[i]), 2 * (A * W[i]), T)
  <2> DEFINE S == {s \in P : ref[s] = i}
  <2>1. W[i] = SumFunctionOnSet(R, S)
    OBVIOUS
  <2>2. S = {s \in Planned : rows[s].ref = i} \ {First}
    BY <1>1, <1>2
  <2> HIDE DEF W, S
  <2>3. CASE LivingFirst(i)
    <3>1. S = {} /\ G[i] = 0
      BY <1>0, <2>2, <2>3 DEF LivingFirst, IsFirstBill
    <3>2. W[i] = 0
      BY <2>1, <3>1, SumEmpty
    <3>3. T * G[i] = 0 /\ A * W[i] = 0
      BY <1>3, <3>1, <3>2
    <3> QED BY <1>3, <3>2, <3>3 DEF AmountsNear
  <2>4. ASSUME NEW k \in 1 .. LastInstallment, LivingInstallment(i, k)
        PROVE  W[i] \in Nat /\ AmountsNear(2 * (T * G[i]), 2 * (A * W[i]), T)
    <3>1. S = Cells(k)
      BY <2>2, <2>4 DEF LivingInstallment
    <3>2. W[i] = RowsSum(Cells(k))
      BY <2>1, <3>1 DEF RowsSum, R
    <3>3. W[i] \in Nat /\ W[i] > 0
      BY <2>4, <3>2, CellsPositive
    <3>4. G[i] = AdvancePart(A, W[i])
      BY <1>0, <2>4, <3>2 DEF LivingInstallment, InstallmentBill, PartFor, A
    <3>5. AmountsNear(2 * (OrderTotal * AdvancePart(A, W[i])), 2 * (A * W[i]), OrderTotal)
      BY <1>3, <3>3, AdvancePartIs DEF T
    <3> QED BY <3>3, <3>4, <3>5 DEF T
  <2> QED BY <2>3, <2>4, BillsOnceAllBilled
<1>5. RowsSum(P) = SumFunctionOnSet(W, LivingBills)
  <2>1. \A s \in P : R[s] \in Int
    BY <1>1, <1>2
  <2>2. \A s \in P : ref[s] \in LivingBills
    BY <1>1, <1>2, BillsOnceAllBilled
  <2>3. SumFunctionOnSet(R, P) = SumFunctionOnSet(W, LivingBills)
    BY <1>0, <1>1, <2>1, <2>2, SumPartition
  <2> QED BY <2>3 DEF RowsSum, R
<1>6. SumFunctionOnSet(E, LivingBills) = T * Cardinality(LivingBills)
  <2>1. T \in Int
    BY <1>3
  <2> QED BY <1>0, <2>1, SumOfSame
<1>7. \A i \in LivingBills : E[i] = T
  OBVIOUS
<1> HIDE DEF W, E
<1> DEFINE a == 2 * T
           b == 2 * A
           d == SumFunctionOnSet(G, LivingBills)
           w == SumFunctionOnSet(W, LivingBills)
           e == SumFunctionOnSet(E, LivingBills)
<1>8. /\ a \in Int /\ b \in Int
      /\ \A i \in LivingBills : G[i] \in Int /\ W[i] \in Int /\ E[i] \in Int
  BY <1>0, <1>3, <1>4, <1>7
<1>9. \A i \in LivingBills : a * G[i] - b * W[i] <= E[i] /\ b * W[i] - a * G[i] <= E[i]
  <2> TAKE i \in LivingBills
  <2>1. a * G[i] = 2 * (T * G[i]) /\ b * W[i] = 2 * (A * W[i])
    BY <1>0, <1>3, <1>4
  <2> HIDE DEF a, b
  <2> QED BY <1>4, <1>7, <2>1 DEF AmountsNear
<1>10. d \in Int /\ w \in Int
  <2>1. (\A i \in LivingBills : G[i] \in Int) /\ \A i \in LivingBills : W[i] \in Int
    BY <1>8
  <2> QED BY <1>0, <2>1, SumType
<1>11. a * d - b * w <= e /\ b * w - a * d <= e
  <2> HIDE DEF a, b
  <2> QED BY <1>0, <1>8, <1>9, SumsNear
<1> HIDE DEF d, w, e
<1>12. a * d = 2 * (T * d) /\ b * w = 2 * (A * w)
  BY <1>3, <1>10
<1> HIDE DEF a, b
<1>13. AmountsNear(2 * (T * d), 2 * (A * w), e)
  BY <1>11, <1>12 DEF AmountsNear
<1> QED BY <1>0, <1>5, <1>6, <1>13 DEF d, w, e, A, T, P

\* The bills deduct the advance, to a hundredth each and its share of the tenth.
LEMMA AdvanceDeducted ==
  ASSUME BilledInd, firstBill = "advance", Planned # {First}, NoneEmpty
  PROVE  AmountsNear(OrderTotal * Deducted, OrderTotal * BilledFirst,
                     OrderTotal * Len(bills)
                       + rows[First].amount * Tenth * Cardinality(PurchaseLine))
<1> DEFINE A == rows[First].amount
           T == OrderTotal
           M == Tenth * Cardinality(PurchaseLine)
           n == Len(bills)
           D == Deducted
<1>0. PurchasePlanTypeOK
  BY DEF BilledInd, PurchaseInd, PlanTyped
<1>1. A \in Nat /\ T \in Nat /\ n \in Nat
  BY <1>0, BillsType, PurchaseConstants, OrderTotalType DEF BillRow
<1>2. Tenth \in Nat /\ Cardinality(PurchaseLine) \in Nat /\ M \in Nat
      /\ A * Tenth * Cardinality(PurchaseLine) = A * M
  <2>1. Tenth \in Nat /\ Cardinality(PurchaseLine) \in Nat
    BY PurchaseConstants, FS_CardinalityType
  <2> DEFINE c == Cardinality(PurchaseLine)
  <2> HIDE DEF c, A
  <2>2. c \in Nat /\ A \in Nat /\ Tenth \in Nat
    BY <1>1, <2>1 DEF c
  <2>3. Tenth * c \in Nat /\ A * Tenth * c = A * (Tenth * c)
    BY <2>2
  <2> QED BY <2>1, <2>3 DEF c
<1> DEFINE tn == T * n
           am == A * M
<1> HIDE DEF A, T, M, n, D
<1>3. tn \in Nat /\ am \in Nat
  BY <1>1, <1>2
<1>4. CASE First \notin Planned
  <2>1. D = 0 /\ BilledFirst = 0
    BY <1>4, WhatIsDeducted, FirstBilled DEF D
  <2>2. T * D = 0 /\ T * BilledFirst = 0
    BY <1>1, <2>1
  <2> HIDE DEF tn, am
  <2>3. AmountsNear(T * D, T * BilledFirst, tn + am)
    BY <1>3, <2>2 DEF AmountsNear
  <2> QED BY <1>2, <2>3 DEF tn, am, T, D, n, A
<1>5. CASE First \in Planned
  <2> DEFINE B == RowsSum(PlannedRows)
             c == Cardinality(LivingBills)
             td == T * D
             ab == A * B
             ta == T * A
             tc == T * c
  <2>1. AmountsNear(2 * td, 2 * ab, tc)
    BY <1>5, PartsNear DEF T, D, A
  <2>2. AmountsNear(B, T, M)
    BY PlannedTotal DEF T, M
  <2>3. B \in Nat /\ c \in Nat /\ c <= n /\ D \in Int
    <3>1. PlannedRows \in SUBSET PlanSlot
      BY BillsOnceAllBilled DEF PlannedRows
    <3>2. B \in Nat
      BY <1>0, <3>1, RowsSumType
    <3>3. D \in Int
      <4> DEFINE G == [i \in DOMAIN bills |-> bills[i].deducted]
      <4>1. D = SumFunctionOnSet(G, LivingBills) /\ \A i \in LivingBills : G[i] \in Nat
        BY WhatIsDeducted DEF D
      <4>2. \A i \in LivingBills : G[i] \in Int
        BY <4>1
      <4> HIDE DEF G
      <4> QED BY <4>1, <4>2, BillsOnceAllBilled, SumType
    <3> QED BY <3>2, <3>3, BillsOnceAllBilled DEF n
  <2> HIDE DEF B, c
  <2>4. td \in Int /\ ab \in Int /\ ta \in Int /\ tc \in Int
    BY <1>1, <2>3
  <2>5. tc <= tn
    <3>1. n - c \in Nat
      BY <1>1, <2>3
    <3>2. T * (n - c) \in Nat
      BY <1>1, <3>1
    <3>3. T * (n - c) = tn - tc
      BY <1>1, <2>3
    <3> QED BY <1>3, <2>4, <3>2, <3>3
  <2>6. ab - ta <= am /\ ta - ab <= am
    <3>1. M - (B - T) \in Nat /\ M - (T - B) \in Nat
      BY <1>1, <1>2, <2>2, <2>3 DEF AmountsNear
    <3>2. A * (M - (B - T)) \in Nat /\ A * (M - (T - B)) \in Nat
      BY <1>1, <3>1
    <3>3. A * (M - (B - T)) = am - (ab - ta) /\ A * (M - (T - B)) = am - (ta - ab)
      BY <1>1, <1>2, <2>3
    <3> QED BY <1>3, <2>4, <3>2, <3>3
  <2>7. BilledFirst = A
    BY <1>5, FirstBilled DEF A
  <2> HIDE DEF td, ab, ta, tc, tn, am
  <2>8. td - ta <= tn + am /\ ta - td <= tn + am
    BY <1>3, <2>1, <2>4, <2>5, <2>6 DEF AmountsNear
  <2>9. AmountsNear(T * D, T * BilledFirst, tn + am)
    BY <2>7, <2>8 DEF AmountsNear, td, ta
  <2> QED BY <1>2, <2>9 DEF tn, am, T, D, n, A
<1> QED BY <1>4, <1>5

LEMMA BilledOnce == PurchaseInd => BilledOnceWithFirst
<1> SUFFICES ASSUME PurchaseInd, AllBilled, billHistory = {}
             PROVE  BilledOnceWithFirst
  BY DEF BilledOnceWithFirst
<1>0. BilledInd
  BY DEF BilledInd
<1>1. ASSUME NEW i \in DOMAIN bills, NEW k \in DOMAIN bills,
             Valid(i), Valid(k), bills[i].slots \cap bills[k].slots # {}
      PROVE  i = k
  <2>1. i \in LivingBills /\ k \in LivingBills
    BY <1>1 DEF LivingBills
  <2>2. PICK s \in bills[i].slots : s \in bills[k].slots
    BY <1>1
  <2>3. rows[s].ref = i /\ rows[s].ref = k
    BY <1>0, <2>1, <2>2, BillsOnceAllBilled
  <2> QED BY <2>3
<1>2. ASSUME NEW l \in {s[2] : s \in Planned \ {First}}
      PROVE  ToTheTenth(OfBills([i \in DOMAIN bills |-> bills[i].amount[l]]))
               = ToTheTenth(PurchaseSubtotal[l])
  <2>1. l \in PurchaseLine
    <3>1. PICK s \in Planned \ {First} : l = s[2]
      BY <1>2
    <3> QED BY <3>1, PurchaseConstants DEF Planned
  <2>2. OfBills([i \in DOMAIN bills |-> bills[i].amount[l]]) = RowsSum({s \in Planned : s[2] = l})
    BY <1>0, <2>1, LineBilled
  <2>3. ToTheTenth(RowsSum({s \in Planned : s[2] = l})) = ToTheTenth(PurchaseSubtotal[l])
    BY <1>0, <1>2, BillsOnceAllBilled DEF PlanMatches
  <2> QED BY <2>2, <2>3
<1>3. firstBill = "deposit" /\ Planned # {First} => Deducted = BilledFirst
  BY <1>0, DepositDeducted
<1>4. firstBill = "advance" /\ Planned # {First} /\ NoneEmpty =>
        AmountsNear(OrderTotal * Deducted, OrderTotal * BilledFirst,
                    OrderTotal * Len(bills)
                      + rows[First].amount * Tenth * Cardinality(PurchaseLine))
  BY <1>0, AdvanceDeducted
<1> QED BY <1>1, <1>2, <1>3, <1>4 DEF BilledOnceWithFirst

\* Once all rows of a plan have bills, each row is in one that is not canceled, each
\* planned line is billed to a tenth of the currency, and if there are installments,
\* they deduct the deposit once, or parts that make the advance to a hundredth each
\* and its share of that tenth, unless one of them bills nothing: for any order, plan
\* and sequence of bills made, canceled and made again, as long as none of what
\* billHistory records happened (BilledOnceWithFirst).
THEOREM BilledOnceWithFirstAlways == PurchasePlanSpec => []BilledOnceWithFirst
<1>1. PurchasePlanInit => PurchaseInd
  BY PurchaseInitInd
<1>2. PurchaseInd /\ [PurchasePlanNext]_purchasePlanVars => PurchaseInd'
  BY PurchaseStepInd
<1>3. PurchaseInd => BilledOnceWithFirst
  BY BilledOnce
<1> QED BY <1>1, <1>2, <1>3, PTL DEF PurchasePlanSpec

-----------------------------------------------------------------------------
(* Assets: the lines of the board *)

SameKey(l, m) == l.type = m.type /\ l.date = m.date /\ l.nth = m.nth

\* The lines are finite in number, and told apart by their type, date and number.
ProperLines(ls) ==
  /\ IsFiniteSet(ls)
  /\ \A l \in ls : l \in AssetLine /\ l.date >= 1
  /\ \A l, m \in ls : SameKey(l, m) => l = m

LEMMA LineFields ==
  ASSUME NEW l \in AssetLine
  PROVE  /\ l.type \in {"depreciate", "remove"} /\ l.date \in Nat
         /\ l.nth \in Nat /\ l.nth # 0 /\ l.amount \in Int
         /\ l.move \in {"none", "draft", "posted"} /\ l.init \in BOOLEAN
BY DEF AssetLine

\* What the lines of a part add up to, as a sum over the whole
LEMMA TotalIs ==
  ASSUME NEW ls, IsFiniteSet(ls), NEW part \in SUBSET ls
  PROVE  Total(part) = SumFunctionOnSet([l \in ls |-> l.amount], part)
<1>1. IsFiniteSet(part)
  BY FS_Subset
<1> DEFINE F == [l \in part |-> l.amount]
           G == [l \in ls |-> l.amount]
<1>2. \A l \in part : F[l] = G[l]
  OBVIOUS
<1> HIDE DEF F, G
<1>3. SumFunctionOnSet(F, part) = SumFunctionOnSet(G, part)
  BY <1>1, <1>2, SumSame
<1> QED BY <1>3 DEF Total, F, G

LEMMA TotalSplit ==
  ASSUME NEW ls, IsFiniteSet(ls), \A l \in ls : l.amount \in Int, NEW part \in SUBSET ls
  PROVE  /\ Total(ls) \in Int /\ Total(part) \in Int /\ Total(ls \ part) \in Int
         /\ Total(ls) = Total(part) + Total(ls \ part)
<1> DEFINE G == [l \in ls |-> l.amount]
           rest == ls \ part
<1>1. \A l \in ls : G[l] \in Int
  OBVIOUS
<1>2. rest \in SUBSET ls /\ ls \in SUBSET ls /\ IsFiniteSet(part) /\ IsFiniteSet(rest)
  BY FS_Subset
<1>3. Total(ls) = SumFunctionOnSet(G, ls) /\ Total(part) = SumFunctionOnSet(G, part)
      /\ Total(rest) = SumFunctionOnSet(G, rest)
  <2> HIDE DEF rest
  <2> QED BY <1>2, TotalIs
<1> HIDE DEF G
<1>4. SumFunctionOnSet(G, ls) = SumFunctionOnSet(G, part) + SumFunctionOnSet(G, rest)
  BY <1>1, SumSplit
<1> HIDE DEF rest
<1>5. SumFunctionOnSet(G, part) \in Int /\ SumFunctionOnSet(G, rest) \in Int
  <2>1. (\A l \in part : G[l] \in Int) /\ (\A l \in rest : G[l] \in Int)
    BY <1>1, <1>2
  <2> QED BY <1>2, <2>1, SumType
<1>6. Total(ls) = Total(part) + Total(rest) /\ Total(part) \in Int /\ Total(rest) \in Int
  BY <1>3, <1>4, <1>5
<1> QED BY <1>6 DEF rest

\* Two sets of lines that share none
LEMMA TotalJoin ==
  ASSUME NEW S, NEW T, IsFiniteSet(S), IsFiniteSet(T), \A l \in S \cup T : l.amount \in Int,
         S \cap T = {}
  PROVE  /\ Total(S) \in Int /\ Total(T) \in Int /\ IsFiniteSet(S \cup T)
         /\ Total(S \cup T) = Total(S) + Total(T)
<1> DEFINE ls == S \cup T
<1>1. IsFiniteSet(ls) /\ S \in SUBSET ls /\ ls \ S = T
  BY FS_Union
<1>2. \A l \in ls : l.amount \in Int
  OBVIOUS
<1> HIDE DEF ls
<1>3. Total(S) \in Int /\ Total(ls \ S) \in Int /\ Total(ls) = Total(S) + Total(ls \ S)
  BY <1>1, <1>2, TotalSplit
<1> QED BY <1>1, <1>3 DEF ls

\* Lines of the same amounts
LEMMA TotalMoved ==
  ASSUME NEW S, IsFiniteSet(S), NEW f, \A l \in S : l.amount \in Int /\ f[l].amount = l.amount,
         \A l, m \in S : f[l] = f[m] => l = m
  PROVE  /\ IsFiniteSet({f[l] : l \in S})
         /\ Total({f[l] : l \in S}) = Total(S)
<1> DEFINE T == {f[l] : l \in S}
           F == [l \in S |-> l.amount]
           G == [l \in T |-> l.amount]
<1>1. IsFiniteSet(T)
  BY FiniteImage
<1>2. /\ \A l \in S : f[l] \in T /\ G[f[l]] = F[l] /\ F[l] \in Int
      /\ \A m \in T : G[m] \in Int /\ \E l \in S : f[l] = m
  OBVIOUS
<1>3. Total(S) = SumFunctionOnSet(F, S) /\ Total(T) = SumFunctionOnSet(G, T)
  BY DEF Total
<1> HIDE DEF F, G, T
<1>4. SumFunctionOnSet(F, S) = SumFunctionOnSet(G, T)
  <2>1. \A l \in S : F[l] \in Int
    BY <1>2
  <2>2. \A m \in T : G[m] \in Int
    BY <1>2
  <2>3. \A l \in S : f[l] \in T /\ G[f[l]] = F[l]
    BY <1>2
  <2>4. \A m \in T : G[m] = 0 \/ \E l \in S : f[l] = m
    BY <1>2
  <2> QED BY <1>1, <2>1, <2>2, <2>3, <2>4, SumReindex
<1> QED BY <1>1, <1>3, <1>4 DEF T

LEMMA TotalOfOne == ASSUME NEW l, l.amount \in Int PROVE Total({l}) = l.amount
<1> DEFINE G == [m \in {l} |-> m.amount]
<1>1. G[l] = l.amount /\ l \in {l}
  OBVIOUS
<1>2. IsFiniteSet({l}) /\ \A m \in {l} : G[m] \in Int
  BY FS_Singleton
<1>3. Total({l}) = SumFunctionOnSet(G, {l})
  BY DEF Total
<1> HIDE DEF G
<1>4. \A m \in {l} \ {l} : G[m] = 0
  OBVIOUS
<1>5. SumFunctionOnSet(G, {l}) = G[l]
  BY <1>1, <1>2, <1>4, SumOneTerm
<1> QED BY <1>1, <1>3, <1>5

\* The number of another line is that of no line of its type and date.
LEMMA AnotherIsNew ==
  ASSUME NEW ls, IsFiniteSet(ls), \A l \in ls : l \in AssetLine, NEW type, NEW date
  PROVE  /\ Another(ls, type, date) \in Nat /\ Another(ls, type, date) # 0
         /\ \A l \in ls : l.type = type /\ l.date = date => l.nth # Another(ls, type, date)
<1> DEFINE same == {m \in ls : m.type = type /\ m.date = date}
           nths == {l.nth : l \in same}
           S == {0} \cup nths
           max == Max(S)
<1>1. IsFiniteSet(same)
  <2>1. same \in SUBSET ls
    OBVIOUS
  <2> HIDE DEF same
  <2> QED BY <2>1, FS_Subset
<1>2. \A l \in same : l.nth \in Nat
  BY LineFields
<1>3. IsFiniteSet(nths) /\ nths \subseteq Nat /\ \A l \in same : l.nth \in nths
  <2> DEFINE f == [l \in same |-> l.nth]
  <2> HIDE DEF same
  <2>1. nths = {f[l] : l \in same} /\ nths \subseteq Nat /\ \A l \in same : l.nth \in nths
    BY <1>2
  <2> HIDE DEF f, nths
  <2>2. IsFiniteSet({f[l] : l \in same})
    BY <1>1, FiniteImage
  <2> QED BY <2>1, <2>2
<1> HIDE DEF nths
<1>4. IsFiniteSet(S) /\ S \subseteq Int /\ S # {} /\ 0 \in S /\ nths \subseteq S
  <2>1. IsFiniteSet(nths \cup {0})
    BY <1>3, FS_AddElement
  <2>2. S = nths \cup {0}
    OBVIOUS
  <2> QED BY <1>3, <2>1, <2>2
<1> HIDE DEF S
<1>5. max \in S /\ \A x \in S : x <= max
  BY <1>4, FiniteMax
<1> HIDE DEF max
<1>6. max \in Int /\ 0 <= max
  BY <1>4, <1>5
<1>7. Another(ls, type, date) = max + 1
  BY DEF Another, max, S, nths
<1>8. ASSUME NEW l \in ls, l.type = type, l.date = date PROVE l.nth # max + 1
  <2>1. l \in same
    BY <1>8
  <2> HIDE DEF same
  <2>2. l.nth \in Nat /\ l.nth <= max
    BY <1>2, <1>3, <1>4, <1>5, <2>1
  <2> QED BY <1>6, <2>2
<1> QED BY <1>6, <1>7, <1>8

\* Lines are replaced by others of the same keys.
Rekeys(f, S) == \A l \in S : f[l] \in AssetLine /\ SameKey(f[l], l)
Replaced(ls, S, f) == (ls \ S) \cup {f[l] : l \in S}

LEMMA Rekeyed ==
  ASSUME NEW ls, ProperLines(ls), NEW S \in SUBSET ls,
         NEW f, Rekeys(f, S)
  PROVE  /\ ProperLines(Replaced(ls, S, f))
         /\ (ls \ S) \cap {f[l] : l \in S} = {}
         /\ \A l, m \in S : f[l] = f[m] => l = m
<1> DEFINE new == {f[l] : l \in S}
           rest == ls \ S
<1>1. IsFiniteSet(new) /\ IsFiniteSet(rest) /\ IsFiniteSet(rest \cup new)
  <2>1. IsFiniteSet(ls)
    BY DEF ProperLines
  <2>2. rest \in SUBSET ls
    OBVIOUS
  <2>3. IsFiniteSet(S) /\ IsFiniteSet(rest)
    BY <2>1, <2>2, FS_Subset
  <2>4. IsFiniteSet(new)
    BY <2>3, FiniteImage
  <2> HIDE DEF new, rest
  <2> QED BY <2>3, <2>4, FS_Union
<1>2. /\ \A l \in ls : l \in AssetLine /\ l.date >= 1
      /\ \A l, m \in ls : SameKey(l, m) => l = m
  BY DEF ProperLines
<1>3. \A l \in S : SameKey(f[l], l) /\ f[l] \in AssetLine /\ l \in ls
  BY DEF Rekeys
<1>4. \A l, m \in S : f[l] = f[m] => l = m
  BY <1>2, <1>3 DEF SameKey
<1>5. \A l \in S, m \in rest : ~SameKey(f[l], m)
  <2> SUFFICES ASSUME NEW l \in S, NEW m \in rest, SameKey(f[l], m) PROVE FALSE
    OBVIOUS
  <2>1. SameKey(l, m) /\ l \in ls /\ m \in ls
    BY <1>3 DEF SameKey
  <2> QED BY <1>2, <2>1
<1>6. \A m \in new : \E l \in S : m = f[l]
  OBVIOUS
<1>7. rest \cap new = {}
  <2> SUFFICES ASSUME NEW m \in rest, m \in new PROVE FALSE
    OBVIOUS
  <2>1. PICK l \in S : m = f[l]
    BY <1>6
  <2>2. SameKey(f[l], m)
    BY <2>1 DEF SameKey
  <2> QED BY <1>5, <2>2
<1>8. \A l \in rest \cup new : l \in AssetLine /\ l.date >= 1
  <2> SUFFICES ASSUME NEW l \in rest \cup new PROVE l \in AssetLine /\ l.date >= 1
    OBVIOUS
  <2>1. CASE l \in rest
    BY <1>2, <2>1
  <2>2. CASE l \in new
    <3>1. PICK m \in S : l = f[m]
      BY <1>6, <2>2
    <3> QED BY <1>2, <1>3, <3>1 DEF SameKey
  <2> HIDE DEF rest, new
  <2> QED BY <2>1, <2>2
<1>9. ASSUME NEW l \in rest \cup new, NEW m \in rest \cup new, SameKey(l, m) PROVE l = m
  <2>1. CASE l \in rest /\ m \in rest
    BY <1>2, <1>9, <2>1
  <2>2. CASE l \in new /\ m \in new
    <3>1. PICK i \in S : l = f[i]
      BY <1>6, <2>2
    <3>2. PICK j \in S : m = f[j]
      BY <1>6, <2>2
    <3>3. SameKey(i, j) /\ i \in ls /\ j \in ls
      BY <1>3, <1>9, <3>1, <3>2 DEF SameKey
    <3> QED BY <1>2, <3>1, <3>2, <3>3
  <2>3. CASE l \in new /\ m \in rest
    BY <1>5, <1>6, <1>9, <2>3
  <2>4. CASE l \in rest /\ m \in new
    <3>1. SameKey(m, l)
      BY <1>9 DEF SameKey
    <3> QED BY <1>5, <1>6, <2>4, <3>1
  <2> HIDE DEF rest, new
  <2> QED BY <2>1, <2>2, <2>3, <2>4
<1>10. ProperLines(rest \cup new)
  <2> HIDE DEF rest, new
  <2> QED BY <1>1, <1>8, <1>9 DEF ProperLines
<1> QED BY <1>4, <1>7, <1>10 DEF Replaced

\* ... and with the same amounts, which add up to the same
LEMMA RekeyedTotal ==
  ASSUME NEW ls, ProperLines(ls), NEW S \in SUBSET ls,
         NEW f, Rekeys(f, S), \A l \in S : f[l].amount = l.amount
  PROVE  Total(Replaced(ls, S, f)) = Total(ls)
<1> DEFINE new == {f[l] : l \in S}
           rest == ls \ S
<1>1. IsFiniteSet(ls) /\ \A l \in ls : l.amount \in Int
  BY LineFields DEF ProperLines
<1>2. rest \cap new = {} /\ \A l, m \in S : f[l] = f[m] => l = m
  BY Rekeyed
<1>3. IsFiniteSet(S) /\ IsFiniteSet(rest)
  <2>1. rest \in SUBSET ls
    OBVIOUS
  <2> QED BY <1>1, <2>1, FS_Subset
<1>4. IsFiniteSet(new) /\ Total(new) = Total(S)
  <2>1. \A l \in S : l.amount \in Int /\ f[l].amount = l.amount
    BY <1>1
  <2> QED BY <1>2, <1>3, <2>1, TotalMoved
<1>5. \A l \in rest \cup new : l.amount \in Int
  BY <1>1
<1>6. Total(S) \in Int /\ Total(rest) \in Int /\ Total(ls) = Total(S) + Total(rest)
  BY <1>1, TotalSplit
<1> HIDE DEF rest, new
<1>7. Total(rest \cup new) = Total(rest) + Total(new)
  BY <1>2, <1>3, <1>4, <1>5, TotalJoin
<1>8. Total(rest \cup new) = Total(ls)
  BY <1>4, <1>6, <1>7
<1> QED BY <1>8 DEF rest, new, Replaced

-----------------------------------------------------------------------------
\* The past is what the table takes before the next line.
Agrees(a, table, next, past) ==
  /\ Runs(table, DepreciationBase(a), DepreciationBase(a) - Depreciable(a))
  /\ next.left = LeftBefore(table, DepreciationBase(a), next.index)
  /\ past = DepreciationBase(a) - next.left

\* The amounts of the board add up to what the past leaves to be depreciated, and
\* they are those of the table when the past agrees with it.
LEMMA BoardAmountsAddUp ==
  ASSUME NEW a, ProperAsset(a), NEW table, ProperTable(table), NEW next,
         next.index \in 1 .. Len(table), next.left \in Int, NEW past \in Int
  PROVE  LET amounts == BoardAmounts(a, table, next, past)
         IN  /\ amounts \in [next.index .. Len(table) -> Int]
             /\ SumFunctionOnSet(amounts, next.index .. Len(table)) = Depreciable(a) - past
             /\ Agrees(a, table, next, past) =>
                  amounts = [k \in next.index .. Len(table) |-> table[k].amount]
<1> DEFINE hi == Len(table)
           i == next.index
           lo == i - 1
           gap == next.left - (DepreciationBase(a) - past)
           D == Depreciable(a)
           One1(k, x) == IF k = hi THEN D ELSE x + table[k].amount - (IF k = i THEN gap ELSE 0)
           After(f, k) == IF k = lo THEN past ELSE One1(k, f[k - 1])
           UpTo(f) == f = [k \in lo .. hi |-> After(f, k)]
           step == [k \in (lo + 1) .. hi |-> [x \in Int |-> One1(k, x)]]
           upTo == CHOOSE g : UpTo(g)
           amounts == [k \in i .. hi |-> upTo[k] - upTo[k - 1]]
<1>1. BoardAmounts(a, table, next, past) = amounts
  BY DEF BoardAmounts
<1>2. hi \in Nat /\ i \in 1 .. hi /\ \A k \in 1 .. hi : table[k].amount \in Int /\ table[k].remaining \in Int
  <2>1. table \in Seq(TableLine)
    BY DEF ProperTable
  <2>2. hi \in Nat /\ \A k \in 1 .. hi : table[k] \in TableLine
    BY <2>1
  <2> QED BY <2>2 DEF TableLine
<1>3. D \in Int /\ gap \in Int
  BY AmountsOfAsset
<1> HIDE DEF hi, D, gap, i
<1>4. lo \in Int /\ lo <= hi /\ lo + 1 = i /\ hi \in Int /\ lo < hi /\ lo >= 0
  BY <1>2
<1>5. ASSUME NEW k \in (lo + 1) .. hi, NEW x \in Int PROVE One1(k, x) \in Int
  <2>1. k \in 1 .. hi
    BY <1>2, <1>4
  <2>2. table[k].amount \in Int
    BY <1>2, <2>1
  <2> QED BY <1>3, <2>2
<1> HIDE DEF One1
<1>6. \A k \in (lo + 1) .. hi : \A x \in Int : step[k][x] \in Int /\ step[k][x] = One1(k, x)
  BY <1>5
<1> HIDE DEF step, lo
<1>7. PICK f \in [lo .. hi -> Int] : f[lo] = past /\ \A k \in (lo + 1) .. hi : f[k] = step[k][f[k - 1]]
  <2>1. Steps(step, lo, hi, Int)
    BY <1>6 DEF Steps
  <2>2. \E f \in [lo .. hi -> Int] : Stepwise(f, step, lo, hi, past)
    BY <1>4, <2>1, Recursion
  <2> QED BY <2>2 DEF Stepwise
<1>8. UpTo(f)
  <2>1. ASSUME NEW k \in lo .. hi PROVE f[k] = After(f, k)
    <3>1. CASE k = lo
      BY <1>7, <3>1
    <3>2. CASE k # lo
      <4>1. k \in (lo + 1) .. hi /\ k - 1 \in lo .. hi
        BY <1>4, <3>2
      <4>2. f[k - 1] \in Int
        BY <1>7, <4>1
      <4>3. step[k][f[k - 1]] = One1(k, f[k - 1])
        BY <1>6, <4>1, <4>2
      <4> QED BY <1>7, <3>2, <4>1, <4>3
    <3> QED BY <3>1, <3>2
  <2>2. f = [k \in lo .. hi |-> f[k]]
    BY <1>7
  <2> HIDE DEF After
  <2> QED BY <2>1, <2>2
<1>9. UpTo(upTo)
  <2> HIDE DEF UpTo
  <2> QED BY <1>8
<1> HIDE DEF upTo
<1>10. \A k \in lo .. hi : upTo[k] = After(upTo, k)
  <2> HIDE DEF After
  <2> QED BY <1>9
<1>11. \A k \in lo .. hi : upTo[k] \in Int
  <2> DEFINE Bad == {m \in Nat : lo + m <= hi /\ upTo[lo + m] \notin Int}
  <2>1. ASSUME Bad # {} PROVE FALSE
    <3>1. Bad \in SUBSET Nat
      OBVIOUS
    <3> HIDE DEF Bad
    <3>2. PICK m \in Bad : \A n \in Bad : m <= n
      BY <2>1, <3>1, LeastNat
    <3> USE DEF Bad
    <3>3. m \in Nat /\ lo + m <= hi /\ upTo[lo + m] \notin Int
      BY <3>2
    <3>4. m # 0
      <4>1. lo + 0 = lo /\ lo \in lo .. hi
        BY <1>4
      <4>2. upTo[lo] = past
        BY <1>10, <4>1
      <4> QED BY <3>3, <4>1, <4>2
    <3>5. m - 1 \in Nat /\ lo + (m - 1) <= hi /\ ~(m <= m - 1)
      BY <1>4, <3>3, <3>4
    <3>6. upTo[lo + (m - 1)] \in Int
      BY <3>2, <3>5
    <3> HIDE DEF Bad
    <3> DEFINE k == lo + m
    <3>7. k \in (lo + 1) .. hi /\ k \in lo .. hi /\ k # lo /\ k - 1 = lo + (m - 1)
      BY <1>4, <3>3, <3>4
    <3> HIDE DEF k
    <3>8. upTo[k] = One1(k, upTo[k - 1])
      BY <1>10, <3>7
    <3>9. upTo[k] \in Int
      BY <1>5, <3>6, <3>7, <3>8
    <3> QED BY <3>3, <3>9 DEF k
  <2>2. ASSUME NEW k \in lo .. hi PROVE upTo[k] \in Int
    <3>1. k - lo \in Nat /\ lo + (k - lo) = k /\ lo + (k - lo) <= hi
      BY <1>4
    <3>2. k - lo \notin Bad
      BY <2>1
    <3> HIDE DEF UpTo
    <3> QED BY <3>1, <3>2
  <2> QED BY <2>2
<1>12. upTo[hi] = D /\ upTo[lo] = past
  <2>1. hi \in lo .. hi /\ lo \in lo .. hi /\ hi # lo
    BY <1>4
  <2>2. upTo[hi] = One1(hi, upTo[hi - 1]) /\ upTo[lo] = past
    BY <1>10, <2>1
  <2> QED BY <2>2 DEF One1
<1>13. amounts \in [i .. hi -> Int]
  <2>1. ASSUME NEW k \in i .. hi PROVE upTo[k] - upTo[k - 1] \in Int
    <3>1. k \in lo .. hi /\ k - 1 \in lo .. hi
      BY <1>2, <1>4
    <3> QED BY <1>11, <3>1
  <2> QED BY <2>1
<1>14. SumFunctionOnSet([k \in (lo + 1) .. hi |-> upTo[k] - upTo[k - 1]], (lo + 1) .. hi)
         = upTo[hi] - upTo[lo]
  BY <1>4, <1>11, Telescope
<1>15. SumFunctionOnSet(amounts, i .. hi) = D - past
  BY <1>4, <1>12, <1>14
<1>16. ASSUME Agrees(a, table, next, past) PROVE amounts = [k \in i .. hi |-> table[k].amount]
  <2> DEFINE b == DepreciationBase(a)
             left(k) == LeftBefore(table, b, k + 1)
             Bad == {m \in Nat : lo + m <= hi /\ upTo[lo + m] # b - left(lo + m)}
  <2>1. /\ b \in Int /\ past = b - left(lo) /\ gap = 0 /\ left(hi) = b - D /\ hi >= 1
        /\ \A k \in 1 .. hi : table[k].remaining = LeftBefore(table, b, k) - table[k].amount
    <3>1. /\ b \in Int /\ next.left = LeftBefore(table, b, i) /\ past = b - next.left
          /\ LeftBefore(table, b, hi + 1) = b - D
          /\ \A k \in 1 .. hi : table[k].remaining = LeftBefore(table, b, k) - table[k].amount
      BY <1>16, AmountsOfAsset DEF Agrees, Runs, i, hi, D
    <3> HIDE DEF b
    <3>2. gap = 0
      BY <3>1 DEF gap, b
    <3> QED BY <1>2, <1>4, <3>1, <3>2
  <2> HIDE DEF b, Bad
  <2>2. ASSUME NEW k \in i .. hi
        PROVE  /\ left(k) \in Int /\ left(k - 1) \in Int /\ table[k].amount = left(k - 1) - left(k)
               /\ k \in 1 .. hi
    <3>1. k \in 1 .. hi /\ k + 1 # 1 /\ k + 1 - 1 = k /\ k - 1 + 1 = k
      BY <1>2
    <3>2. table[k].remaining = LeftBefore(table, b, k) - table[k].amount
          /\ table[k].remaining \in Int /\ table[k].amount \in Int
      BY <1>2, <2>1, <3>1
    <3>3. left(k) = table[k].remaining /\ left(k - 1) = LeftBefore(table, b, k)
      BY <3>1 DEF LeftBefore
    <3>4. LeftBefore(table, b, k) \in Int
      <4>1. CASE k = 1
        BY <2>1, <4>1 DEF LeftBefore
      <4>2. CASE k # 1
        <5>1. k - 1 \in 1 .. hi
          BY <1>2, <3>1, <4>2
        <5>2. table[k - 1].remaining \in Int
          BY <1>2, <5>1
        <5>3. LeftBefore(table, b, k) = table[k - 1].remaining
          BY <4>2 DEF LeftBefore
        <5> QED BY <5>2, <5>3
      <4> QED BY <4>1, <4>2
    <3> QED BY <3>1, <3>2, <3>3, <3>4
  <2> HIDE DEF left
  <2>3. ASSUME Bad # {} PROVE FALSE
    <3>1. Bad \in SUBSET Nat
      BY DEF Bad
    <3>2. PICK m \in Bad : \A n \in Bad : m <= n
      BY <2>3, <3>1, LeastNat
    <3> DEFINE k == lo + m
    <3>3. m \in Nat /\ k <= hi /\ upTo[k] # b - left(k)
      BY <3>2 DEF Bad
    <3>4. m # 0
      BY <1>4, <1>12, <2>1, <3>3
    <3>5. m - 1 \notin Bad /\ m - 1 \in Nat /\ lo + (m - 1) = k - 1 /\ k - 1 <= hi
          /\ k \in i .. hi /\ k \in lo .. hi /\ k # lo
      BY <1>4, <3>2, <3>3, <3>4
    <3>6. upTo[k - 1] = b - left(k - 1)
      BY <3>5 DEF Bad
    <3> HIDE DEF k
    <3>7. upTo[k] = One1(k, upTo[k - 1])
      BY <1>10, <3>5
    <3>8. left(k) \in Int /\ left(k - 1) \in Int /\ table[k].amount = left(k - 1) - left(k)
      BY <2>2, <3>5
    <3>9. upTo[k] = b - left(k)
      BY <1>3, <2>1, <3>6, <3>7, <3>8 DEF One1
    <3> QED BY <3>3, <3>9
  <2>4. ASSUME NEW k \in lo .. hi PROVE upTo[k] = b - left(k)
    <3>1. k - lo \in Nat /\ lo + (k - lo) = k /\ k <= hi /\ k - lo \notin Bad
      BY <1>4, <2>3
    <3> QED BY <3>1 DEF Bad
  <2>5. ASSUME NEW k \in i .. hi PROVE upTo[k] - upTo[k - 1] = table[k].amount
    <3>1. k \in lo .. hi /\ k - 1 \in lo .. hi
      BY <1>2, <1>4
    <3>2. upTo[k] = b - left(k) /\ upTo[k - 1] = b - left(k - 1)
      BY <2>4, <3>1
    <3> QED BY <2>1, <2>2, <3>2
  <2> QED BY <2>5
<1> QED BY <1>1, <1>13, <1>15, <1>16 DEF hi, i, D


-----------------------------------------------------------------------------
(* Assets: the computation of the board *)

LEMMA DatesOf ==
  ASSUME NEW ls, IsFiniteSet(ls), \A l \in ls : l.date \in Nat
  PROVE  /\ IsFiniteSet(Dates(ls)) /\ Dates(ls) \subseteq Nat /\ Dates(ls) \subseteq Int
         /\ \A l \in ls : l.date \in Dates(ls)
         /\ \A d \in Dates(ls) : \E l \in ls : l.date = d
<1> DEFINE f == [l \in ls |-> l.date]
<1>1. /\ Dates(ls) = {f[l] : l \in ls} /\ Dates(ls) \subseteq Nat /\ Dates(ls) \subseteq Int
      /\ \A l \in ls : l.date \in Dates(ls)
      /\ \A d \in Dates(ls) : \E l \in ls : l.date = d
  BY DEF Dates
<1> HIDE DEF f
<1>2. IsFiniteSet({f[l] : l \in ls})
  BY FiniteImage
<1> QED BY <1>1, <1>2

LEMMA LastDate ==
  ASSUME NEW ls, IsFiniteSet(ls), \A l \in ls : l.date \in Nat, ls # {}
  PROVE  /\ Max(Dates(ls)) \in Nat /\ Min(Dates(ls)) \in Nat
         /\ \E l \in ls : l.date = Max(Dates(ls))
         /\ \A l \in ls : l.date <= Max(Dates(ls)) /\ Min(Dates(ls)) <= l.date
<1>1. /\ IsFiniteSet(Dates(ls)) /\ Dates(ls) \subseteq Nat /\ Dates(ls) \subseteq Int
      /\ \A l \in ls : l.date \in Dates(ls)
      /\ \A d \in Dates(ls) : \E l \in ls : l.date = d
  BY DatesOf
<1> DEFINE D == Dates(ls)
           max == Max(D)
           min == Min(D)
<1>2. IsFiniteSet(D) /\ D \subseteq Int /\ D # {}
  BY <1>1
<1>3. max \in D /\ (\A x \in D : x <= max) /\ min \in D /\ \A x \in D : min <= x
  <2> HIDE DEF D
  <2> QED BY <1>2, FiniteMax
<1> HIDE DEF max, min
<1>4. max \in Nat /\ min \in Nat /\ (\E l \in ls : l.date = max)
      /\ \A l \in ls : l.date <= max /\ min <= l.date
  BY <1>1, <1>3
<1> QED BY <1>4 DEF max, min

\* Parts of the lines
LEMMA Parts ==
  ASSUME NEW ls, ProperLines(ls)
  PROVE  /\ Kept(ls) \in SUBSET ls /\ IsFiniteSet(Kept(ls))
         /\ Unposted(ls) \in SUBSET ls /\ IsFiniteSet(Unposted(ls))
         /\ Depreciations(ls) \in SUBSET ls /\ IsFiniteSet(Depreciations(ls))
         /\ \A l \in ls : l \in AssetLine /\ l.date \in Nat /\ l.date >= 1 /\ l.amount \in Int
         /\ Unposted(ls) = {l \in ls : l.type = "depreciate" /\ l.move = "none" /\ ~l.init}
<1>1. IsFiniteSet(ls) /\ \A l \in ls : l \in AssetLine /\ l.date >= 1
  BY DEF ProperLines
<1>2. Kept(ls) \in SUBSET ls /\ Unposted(ls) \in SUBSET ls /\ Depreciations(ls) \in SUBSET ls
  BY DEF Kept, Unposted, Depreciations
<1>3. IsFiniteSet(Kept(ls)) /\ IsFiniteSet(Unposted(ls)) /\ IsFiniteSet(Depreciations(ls))
  BY <1>1, <1>2, FS_Subset
<1>4. \A l \in ls : l.date \in Nat /\ l.amount \in Int
  BY <1>1, LineFields
<1>5. Unposted(ls) = {l \in ls : l.type = "depreciate" /\ l.move = "none" /\ ~l.init}
  BY DEF Kept, Unposted, Depreciations
<1> QED BY <1>1, <1>2, <1>3, <1>4, <1>5

\* The place in the table is one of its lines.
LEMMA NextLineIs ==
  ASSUME NEW a, ProperAsset(a), NEW table, ProperTable(table), NEW ls, ProperLines(ls),
         Kept(ls) # {} => Reaches(table, Max(Dates(Kept(ls))))
  PROVE  NextLine(a, table, ls).index \in 1 .. Len(table) /\ NextLine(a, table, ls).left \in Int
<1> DEFINE last == Max(Dates(Kept(ls)))
           P == PeriodsPerYear
           yearOf == (last - 1) \div Day(PeriodsPerYear) + 1
           same == {k \in DOMAIN table : table[k].year = yearOf}
           ahead == {k \in same : table[k].date >= last}
           here == IF ahead = {} THEN Max(same) ELSE Min(ahead)
           L == Len(table)
           base == DepreciationBase(a)
<1>1. NextLine(a, table, ls) =
        IF Kept(ls) = {} THEN [index |-> 1, left |-> base]
        ELSE IF last = Day(P) * yearOf
        THEN [index |-> Max(same) + 1, left |-> table[Max(same)].remaining]
        ELSE [index |-> IF table[here].date = last THEN here + 1 ELSE here,
              left |-> table[here].remaining]
  BY DEF NextLine
<1>2. base \in Int /\ P \in Nat /\ P # 0
  BY AmountsOfAsset
<1>3. L \in Nat /\ L >= 1 /\ DOMAIN table = 1 .. L
      /\ \A k \in 1 .. L : table[k].remaining \in Int /\ table[k].date \in Int
  <2>1. table \in Seq(TableLine) /\ L >= 1 /\ L \in Nat
    BY DEF ProperTable
  <2>2. DOMAIN table = 1 .. L /\ \A k \in 1 .. L : table[k] \in TableLine
    BY <2>1
  <2> QED BY <2>1, <2>2 DEF TableLine
<1>4. PICK Y \in Nat :
        /\ \A k \in 1 .. L : table[k].year \in 1 .. Y /\ table[k].date <= Day(YearEnd(table[k].year))
        /\ \A y \in 1 .. Y : \E k \in 1 .. L : table[k].year = y
  BY DEF ProperTable
<1> HIDE DEF base, L
<1>5. CASE Kept(ls) = {}
  <2>1. NextLine(a, table, ls) = [index |-> 1, left |-> base]
    BY <1>1, <1>5
  <2> QED BY <1>2, <1>3, <2>1 DEF L
<1>6. CASE Kept(ls) # {}
  <2>1. last \in Nat /\ last >= 1
    <3>1. IsFiniteSet(Kept(ls)) /\ \A l \in Kept(ls) : l.date \in Nat /\ l.date >= 1
      BY Parts
    <3>2. Max(Dates(Kept(ls))) \in Nat /\ \E l \in Kept(ls) : l.date = Max(Dates(Kept(ls)))
      BY <1>6, <3>1, LastDate
    <3> QED BY <3>1, <3>2
  <2>2. table[L].date > last
    BY <1>6 DEF Reaches, L
  <2> HIDE DEF last, P
  <2> DEFINE q == (last - 1) \div (2 * P)
             Last == table[L].year
  <2>3. yearOf = q + 1
    BY DEF Day, P
  <2>4. q \in Nat /\ last - 1 >= (2 * P) * q /\ last - 1 < (2 * P) * q + 2 * P
    <3> DEFINE d == 2 * P
               n == last - 1
    <3>1. d \in Nat /\ d > 0 /\ n \in Nat
      BY <1>2, <2>1
    <3> HIDE DEF d, n
    <3>2. n \div d \in Nat /\ n = d * (n \div d) + (n % d) /\ n % d \in 0 .. d - 1
      BY <3>1
    <3> DEFINE m == d * (n \div d)
    <3>3. m \in Int
      BY <3>1, <3>2, ProductTyped
    <3>4. n = m + (n % d)
      BY <3>2
    <3> HIDE DEF m
    <3>5. n >= m /\ n < m + d
      BY <3>1, <3>2, <3>3, <3>4
    <3> QED BY <3>2, <3>5 DEF m, n, d
  <2> HIDE DEF q
  <2> HIDE DEF yearOf
  <2>5. L \in 1 .. L /\ Last \in 1 .. Y /\ table[L].date <= Day(YearEnd(Last))
    BY <1>3, <1>4
  <2>6. Last \in Nat /\ Last >= 1 /\ table[L].date \in Int
    BY <1>3, <1>4, <2>5
  <2> HIDE DEF Last
  <2>7. last < 2 * (Last * P)
    <3>1. Last * P \in Int
      BY <1>2, <2>6, ProductTyped
    <3> QED BY <2>1, <2>2, <2>5, <2>6, <3>1 DEF Day, YearEnd, P
  \* the year of the last line is that of a line of the table
  <2>8. yearOf \in 1 .. Y /\ yearOf \in Nat
        /\ (last = Day(P) * yearOf => yearOf # Last)
    <3> DEFINE x == (2 * P) * q
               z == 2 * (Last * P)
    <3>1. x \in Int /\ z \in Int
      BY <1>2, <2>4, <2>6, ProductTyped
    <3>2. q + 1 <= Last
      <4> SUFFICES ASSUME ~(q + 1 <= Last) PROVE FALSE
        OBVIOUS
      <4>1. q - Last \in Int /\ q - Last >= 0 /\ 2 * P \in Int /\ 2 * P >= 0
        BY <1>2, <2>4, <2>6
      <4>2. (q - Last) * (2 * P) \in Int /\ (q - Last) * (2 * P) >= 0
        BY <4>1, ProductTyped
      <4>3. x = z + (q - Last) * (2 * P)
        BY <1>2, <2>4, <2>6
      <4>4. last - 1 >= x /\ last < z
        BY <2>4, <2>7
      <4> HIDE DEF x, z
      <4> QED BY <2>1, <3>1, <4>2, <4>3, <4>4
    <3>3. ASSUME last = Day(P) * yearOf PROVE yearOf # Last
      <4> SUFFICES ASSUME yearOf = Last PROVE FALSE
        OBVIOUS
      <4>1. Day(P) * Last = z
        BY <1>2, <2>6 DEF Day
      <4>2. last = z /\ last < z
        BY <2>7, <3>3, <4>1
      <4> HIDE DEF z
      <4> QED BY <2>1, <3>1, <4>2
    <3> HIDE DEF x, z
    <3> QED BY <1>4, <2>3, <2>4, <2>5, <2>6, <3>2, <3>3
  <2>9. same \in SUBSET (0 .. L) /\ same \in SUBSET (1 .. L) /\ same # {}
    <3>1. PICK k \in 1 .. L : table[k].year = yearOf
      BY <1>4, <2>8
    <3>2. k \in same
      BY <1>3, <3>1
    <3> QED BY <1>3, <3>2
  <2>10. \A k \in same : table[k].year = yearOf
    OBVIOUS
  <2> DEFINE max == Max(same)
             min == Min(ahead)
  <2>11. max \in same /\ \A k \in same : k <= max
    <3> HIDE DEF same
    <3> QED BY <1>3, <2>9, MaxUpTo
  <2>12. ahead # {} => min \in ahead /\ min \in same
    <3>1. ahead \in SUBSET (0 .. L) /\ \A k \in ahead : k \in same
      BY <2>9
    <3> HIDE DEF ahead, same
    <3>2. IsFiniteSet(0 .. L) /\ (0 .. L) \subseteq Int
      <4>1. 0 \in Int /\ L \in Int
        BY <1>3
      <4>2. IsFiniteSet(0 .. L)
        BY <4>1, FS_Interval
      <4>3. (0 .. L) \subseteq Int
        OBVIOUS
      <4> QED BY <4>2, <4>3
    <3>3. IsFiniteSet(ahead)
      BY <3>1, <3>2, FS_Subset
    <3>4. ahead \subseteq Int
      BY <3>1, <3>2
    <3>5. ahead # {} => min \in ahead
      BY <3>3, <3>4, FiniteMax
    <3> QED BY <3>1, <3>5
  <2>13. \A k \in ahead : table[k].date >= last
    OBVIOUS
  <2>14. \A k \in same : k \in ahead <=> table[k].date >= last
    OBVIOUS
  <2> HIDE DEF same, ahead, max, min
  <2>15. CASE last = Day(P) * yearOf
    <3>1. NextLine(a, table, ls) = [index |-> max + 1, left |-> table[max].remaining]
      BY <1>1, <1>6, <2>15 DEF max
    <3>2. max \in 1 .. L /\ max # L
      BY <2>8, <2>9, <2>10, <2>11, <2>15 DEF Last
    <3>3. max + 1 \in 1 .. L /\ table[max].remaining \in Int
      BY <1>3, <3>2
    <3> QED BY <3>1, <3>3 DEF L
  <2>16. CASE last # Day(P) * yearOf
    <3>1. here = IF ahead = {} THEN max ELSE min
      BY DEF max, min
    <3>2. here \in same
      BY <2>11, <2>12, <3>1
    <3>3. NextLine(a, table, ls) =
            [index |-> IF table[here].date = last THEN here + 1 ELSE here,
             left |-> table[here].remaining]
      BY <1>1, <1>6, <2>16
    <3> HIDE DEF here
    <3>4. here \in 1 .. L /\ (table[here].date = last => here # L)
      BY <1>3, <2>1, <2>2, <2>9, <3>2
    <3>5. (IF table[here].date = last THEN here + 1 ELSE here) \in 1 .. L
          /\ table[here].remaining \in Int
      BY <1>3, <3>4
    <3> QED BY <3>3, <3>5 DEF L
  <2> QED BY <2>15, <2>16
<1> QED BY <1>5, <1>6

-----------------------------------------------------------------------------
Removals(ls) == {l \in ls : l.type = "remove"}

\* The new lines are told apart from each other, their dates being different, and
\* from those they are put next to.
LEMMA NewLinesAre ==
  ASSUME NEW a, a.closed \in BOOLEAN, NEW table, ProperTable(table), NEW lo \in 1 .. Len(table),
         NEW amounts \in [lo .. Len(table) -> Int],
         NEW ls, IsFiniteSet(ls), \A l \in ls : l \in AssetLine
  PROVE  LET new == NewLines(a, table, amounts, ls)
         IN  /\ ProperLines(new)
             /\ \A l \in new : l.type = "depreciate" /\ \A m \in ls : ~SameKey(l, m)
             /\ Total(new) = SumFunctionOnSet(amounts, lo .. Len(table))
<1> DEFINE hi == Len(table)
           Row(k) == [type |-> "depreciate", date |-> table[k].date,
                      nth |-> Another(ls, "depreciate", table[k].date),
                      amount |-> amounts[k], move |-> "none",
                      init |-> a.closed /\ table[k].year = 1]
           f == [k \in lo .. hi |-> Row(k)]
           I == {j \in DOMAIN amounts : amounts[j] # 0}
           new == {f[k] : k \in I}
<1>1. NewLines(a, table, amounts, ls) = new
  BY DEF NewLines
<1>2. hi \in Nat /\ \E c \in Nat : \A k \in 1 .. hi : table[k].date = Day(c + k)
  BY DEF ProperTable
<1>3. PICK c \in Nat : \A k \in 1 .. hi : table[k].date = Day(c + k)
  BY <1>2
<1>4. DOMAIN amounts = lo .. hi /\ I \in SUBSET (lo .. hi) /\ \A k \in lo .. hi : amounts[k] \in Int
  OBVIOUS
<1>5. lo \in Nat /\ lo >= 1 /\ hi \in Nat
  BY <1>2
<1>6. \A k \in (lo .. hi) \ I : amounts[k] = 0
  BY <1>4
<1> HIDE DEF hi, I
<1>7. ASSUME NEW k \in lo .. hi
      PROVE  /\ f[k] \in AssetLine /\ f[k].type = "depreciate" /\ f[k].date = Day(c + k)
             /\ f[k].date >= 1 /\ f[k].amount = amounts[k]
             /\ \A m \in ls : ~SameKey(f[k], m)
  <2> DEFINE date == table[k].date
             nth == Another(ls, "depreciate", date)
             init == a.closed /\ table[k].year = 1
             amount == amounts[k]
  <2>1. k \in 1 .. hi
    BY <1>5
  <2>2. date = Day(c + k) /\ date \in Nat /\ date >= 1
    BY <1>3, <1>5, <2>1 DEF Day
  <2> HIDE DEF date
  <2>3. /\ nth \in Nat /\ nth # 0
        /\ \A l \in ls : l.type = "depreciate" /\ l.date = date => l.nth # nth
    BY AnotherIsNew
  <2>4. init \in BOOLEAN
    OBVIOUS
  <2>5. amount \in Int
    BY <1>4
  <2>6. f[k] = [type |-> "depreciate", date |-> date, nth |-> nth, amount |-> amount,
                move |-> "none", init |-> init]
    BY DEF date
  <2> HIDE DEF f, nth, init, amount
  <2>7. f[k].type = "depreciate" /\ f[k].date = date /\ f[k].nth = nth /\ f[k].amount = amount
    BY <2>6
  <2>8. f[k] \in AssetLine
    <3>1. nth \in Nat \ {0} /\ date \in Nat
      BY <2>2, <2>3
    <3> QED BY <2>4, <2>5, <2>6, <3>1 DEF AssetLine
  <2>9. \A m \in ls : ~SameKey(f[k], m)
    BY <2>3, <2>7 DEF SameKey
  <2> QED BY <2>2, <2>7, <2>8, <2>9 DEF amount
<1> HIDE DEF f
<1>8. ASSUME NEW j \in lo .. hi, NEW k \in lo .. hi, f[j].date = f[k].date PROVE j = k
  <2>1. Day(c + j) = Day(c + k)
    BY <1>7, <1>8
  <2> QED BY <1>5, <2>1 DEF Day
<1>9. IsFiniteSet(I)
  <2>1. lo \in Int /\ hi \in Int
    BY <1>5
  <2>2. IsFiniteSet(lo .. hi)
    BY <2>1, FS_Interval
  <2> QED BY <1>4, <2>2, FS_Subset
<1>10. ProperLines(new)
  <2>1. IsFiniteSet(new)
    BY <1>9, FiniteImage
  <2>2. ASSUME NEW l \in new PROVE l \in AssetLine /\ l.date >= 1
    <3>1. PICK k \in I : l = f[k]
      OBVIOUS
    <3> QED BY <1>4, <1>7, <3>1
  <2>3. ASSUME NEW l \in new, NEW m \in new, SameKey(l, m) PROVE l = m
    <3>1. PICK j \in I : l = f[j]
      OBVIOUS
    <3>2. PICK k \in I : m = f[k]
      OBVIOUS
    <3>3. f[j].date = f[k].date /\ j \in lo .. hi /\ k \in lo .. hi
      BY <1>4, <2>3, <3>1, <3>2 DEF SameKey
    <3>4. j = k
      BY <1>8, <3>3
    <3> QED BY <3>1, <3>2, <3>4
  <2> HIDE DEF new
  <2> QED BY <2>1, <2>2, <2>3 DEF ProperLines
<1>11. ASSUME NEW l \in new PROVE l.type = "depreciate" /\ \A m \in ls : ~SameKey(l, m)
  <2>1. PICK k \in I : l = f[k]
    OBVIOUS
  <2> QED BY <1>4, <1>7, <2>1
<1>12. Total(new) = SumFunctionOnSet(amounts, lo .. hi)
  <2> DEFINE G == [l \in new |-> l.amount]
  <2>1. \A k \in I : f[k] \in new /\ G[f[k]] = amounts[k]
    BY <1>4, <1>7
  <2>2. \A l \in new : G[l] \in Int /\ \E k \in I : f[k] = l
    <3> TAKE l \in new
    <3>1. PICK k \in I : l = f[k]
      OBVIOUS
    <3> QED BY <1>4, <1>7, <3>1
  <2>3. Total(new) = SumFunctionOnSet(G, new) /\ IsFiniteSet(new)
    BY <1>10 DEF Total, ProperLines
  <2> HIDE DEF G, new
  <2>4. SumFunctionOnSet(amounts, I) = SumFunctionOnSet(G, new)
    <3>1. \A k \in I : amounts[k] \in Int
      BY <1>4
    <3>2. \A l \in new : G[l] \in Int
      BY <2>2
    <3>3. \A j, k \in I : f[j] = f[k] => j = k
      BY <1>4, <1>8
    <3>4. \A l \in new : G[l] = 0 \/ \E k \in I : f[k] = l
      BY <2>2
    <3> QED BY <1>9, <2>1, <2>3, <3>1, <3>2, <3>3, <3>4, SumReindex
  <2>5. SumFunctionOnSet(amounts, lo .. hi) = SumFunctionOnSet(amounts, I)
    <3>1. IsFiniteSet(lo .. hi)
      <4>1. lo \in Int /\ hi \in Int
        BY <1>5
      <4> QED BY <4>1, FS_Interval
    <3>2. \A k \in lo .. hi : amounts[k] \in Int
      BY <1>4
    <3> QED BY <1>4, <1>6, <3>1, <3>2, SumZeros
  <2> QED BY <2>3, <2>4, <2>5
<1>13. \A l \in new : l.type = "depreciate" /\ \A m \in ls : ~SameKey(l, m)
  BY <1>11
<1> HIDE DEF new
<1> QED BY <1>1, <1>10, <1>12, <1>13 DEF hi

\* Lines with different keys together
LEMMA LinesTogether ==
  ASSUME NEW S, ProperLines(S), NEW T, ProperLines(T), \A l \in S, m \in T : ~SameKey(l, m)
  PROVE  /\ ProperLines(S \cup T)
         /\ Total(S \cup T) = Total(S) + Total(T) /\ Total(S) \in Int /\ Total(T) \in Int
<1>1. /\ IsFiniteSet(S) /\ IsFiniteSet(T)
      /\ \A l \in S : l \in AssetLine /\ l.date >= 1
      /\ \A l \in T : l \in AssetLine /\ l.date >= 1
      /\ \A l, m \in S : SameKey(l, m) => l = m
      /\ \A l, m \in T : SameKey(l, m) => l = m
  BY DEF ProperLines
<1>2. S \cap T = {}
  BY DEF SameKey
<1>3. \A l \in S \cup T : l.amount \in Int
  BY <1>1, LineFields
<1>4. IsFiniteSet(S \cup T) /\ Total(S \cup T) = Total(S) + Total(T)
      /\ Total(S) \in Int /\ Total(T) \in Int
  BY <1>1, <1>2, <1>3, TotalJoin
<1>5. ASSUME NEW l \in S \cup T, NEW m \in S \cup T, SameKey(l, m) PROVE l = m
  <2>1. SameKey(m, l)
    BY <1>5 DEF SameKey
  <2> QED BY <1>1, <1>5, <2>1
<1> QED BY <1>1, <1>4, <1>5 DEF ProperLines

LEMMA SomeOfThem ==
  ASSUME NEW ls, ProperLines(ls), NEW part \in SUBSET ls
  PROVE  ProperLines(part)
<1>1. IsFiniteSet(part)
  BY FS_Subset DEF ProperLines
<1> QED BY <1>1 DEF ProperLines

\* The board adds up where no removal is among the lines.
LEMMA BoardIs ==
  ASSUME NEW a \in AssetRow, ProperAsset(a), NEW table, ProperTable(table),
         NEW ls, ProperLines(ls), Kept(ls) # {} => Reaches(table, Max(Dates(Kept(ls))))
  PROVE  /\ ProperLines(Board(a, table, ls))
         /\ Removals(Board(a, table, ls)) = Removals(ls)
         /\ Removals(ls) = {} => Total(Board(a, table, ls)) = Depreciable(a)
<1> DEFINE next == NextLine(a, table, ls)
           past == Total(Kept(ls))
           amounts == BoardAmounts(a, table, next, past)
           kept == ls \ Unposted(ls)
           new == NewLines(a, table, amounts, kept)
           hi == Len(table)
           lo == next.index
           S == SumFunctionOnSet(amounts, lo .. hi)
<1>1. Board(a, table, ls) = kept \cup new
  BY DEF Board
<1>2. lo \in 1 .. hi /\ next.left \in Int
  BY NextLineIs
<1>3. /\ Kept(ls) \in SUBSET ls /\ IsFiniteSet(ls) /\ \A l \in ls : l.amount \in Int
      /\ Unposted(ls) = {l \in ls : l.type = "depreciate" /\ l.move = "none" /\ ~l.init}
  BY Parts DEF ProperLines
<1>4. past \in Int
  BY <1>3, TotalSplit
<1> HIDE DEF next, past
<1>5. amounts \in [lo .. hi -> Int] /\ S = Depreciable(a) - past
  BY <1>2, <1>4, BoardAmountsAddUp
<1>6. ProperLines(kept) /\ IsFiniteSet(kept) /\ \A l \in kept : l \in AssetLine
  <2>1. kept \in SUBSET ls
    OBVIOUS
  <2> HIDE DEF kept
  <2>2. ProperLines(kept)
    BY <2>1, SomeOfThem
  <2> QED BY <2>2 DEF ProperLines
<1>7. a.closed \in BOOLEAN
  BY DEF AssetRow
<1> HIDE DEF amounts, lo, hi, S
<1> HIDE DEF kept
<1>8. /\ ProperLines(new) /\ Total(new) = S
      /\ \A l \in new : l.type = "depreciate" /\ \A m \in kept : ~SameKey(l, m)
  <2>1. lo \in 1 .. Len(table) /\ amounts \in [lo .. Len(table) -> Int]
    BY <1>2, <1>5 DEF hi
  <2> QED BY <1>6, <1>7, <2>1, NewLinesAre DEF S, hi
<1> HIDE DEF new
<1>9. ProperLines(kept \cup new) /\ Total(kept \cup new) = Total(kept) + Total(new)
  <2>1. \A l \in kept, m \in new : ~SameKey(l, m)
    BY <1>8 DEF SameKey
  <2> QED BY <1>6, <1>8, <2>1, LinesTogether
<1>10. Removals(kept \cup new) = Removals(ls)
  BY <1>3, <1>8 DEF Removals, kept
<1>11. ASSUME Removals(ls) = {} PROVE Total(kept \cup new) = Depreciable(a)
  <2>1. kept = Kept(ls)
    <3>1. \A l \in ls : l.type = "depreciate"
      BY <1>11, LineFields DEF ProperLines, Removals
    <3> QED BY <3>1 DEF kept, Kept, Unposted, Depreciations
  <2>2. Depreciable(a) \in Int
    BY AmountsOfAsset
  <2>3. Total(kept) = past
    BY <2>1 DEF past
  <2> QED BY <1>4, <1>5, <1>8, <1>9, <2>2, <2>3
<1> QED BY <1>1, <1>9, <1>10, <1>11

\* ... and so do the lines after the computation, if it was one.
LEMMA ComputedIs ==
  ASSUME NEW a \in AssetRow, ProperAsset(a), NEW ls, ProperLines(ls), Computable(a, ls)
  PROVE  /\ ProperLines(Computed(a, ls))
         /\ Removals(Computed(a, ls)) = Removals(ls)
         /\ Removals(ls) = {} /\ ValueResidual(a, ls) # 0 => Total(Computed(a, ls)) = Depreciable(a)
         /\ ValueResidual(a, ls) = 0 => Computed(a, ls) = ls
<1>1. CASE ValueResidual(a, ls) = 0
  BY <1>1 DEF Computed
<1>2. CASE ValueResidual(a, ls) # 0
  <2> DEFINE table == DepreciationTable(a)
  <2>1. ProperTable(table)
    BY TableIsProper
  <2>2. Kept(ls) # {} => Reaches(table, Max(Dates(Kept(ls))))
    BY <1>2 DEF Computable
  <2>3. Computed(a, ls) = Board(a, table, ls)
    BY <1>2 DEF Computed
  <2> HIDE DEF table
  <2> QED BY <1>2, <2>1, <2>2, <2>3, BoardIs
<1> QED BY <1>1, <1>2

-----------------------------------------------------------------------------
(* Assets: the invariant *)

\* What the computations read of an asset, but for its duration, is the same.
SameFigures(a, b) == b.purchase = a.purchase /\ b.salvage = a.salvage /\ b.method = a.method

LEMMA FiguresSame ==
  ASSUME NEW a, NEW b, SameFigures(a, b)
  PROVE  /\ DepreciationBase(b) = DepreciationBase(a) /\ Depreciable(b) = Depreciable(a)
         /\ \A ls : ValueResidual(b, ls) = ValueResidual(a, ls)
<1>1. DepreciationBase(b) = DepreciationBase(a) /\ Depreciable(b) = Depreciable(a)
  BY DEF SameFigures, DepreciationBase, Depreciable, UpToSalvage
<1> QED BY <1>1 DEF ValueResidual

States == {"draft", "open", "close", "removed"}

LEMMA AssetFields ==
  ASSUME NEW a \in AssetRow
  PROVE  /\ a.state \in States /\ a.purchase \in Purchase /\ a.salvage \in Salvage
         /\ a.method \in Methods /\ a.years \in 1 .. MaxYears
         /\ a.start \in 0 .. PeriodsPerYear - 1
         /\ a.prorata \in BOOLEAN /\ a.closed \in BOOLEAN /\ a.autopost \in BOOLEAN
BY DEF AssetRow, States

LEMMA AssetIsProper ==
  ASSUME NEW a \in AssetRow, a.salvage < a.purchase
  PROVE  ProperAsset(a)
<1>1. MaxYears \in Nat /\ Purchase \subseteq Nat /\ Salvage \subseteq Nat
  BY AssetsAssumption
<1>2. a.years \in 1 .. MaxYears /\ a.purchase \in Purchase /\ a.salvage \in Salvage
  BY AssetFields
<1>3. a.years \in Nat /\ a.years # 0
  BY <1>1, <1>2
<1>4. a.purchase \in Nat /\ a.salvage \in Nat
  BY <1>1, <1>2
<1> QED BY <1>3, <1>4, AssetFields DEF ProperAsset

\* compute_depreciation_board: when what is depreciated so far is what the table
\* takes before the next line, nothing being depreciated among others, the lines of
\* the board have the table's amounts; the correction of the next line and the
\* remainder in the last one change nothing.
THEOREM BoardFollowsTable ==
  ASSUME NEW a \in AssetRow, a.salvage < a.purchase, NEW ls, ProperLines(ls),
         Computable(a, ls), ValueResidual(a, ls) # 0
  PROVE  LET table == DepreciationTable(a)
             next == NextLine(a, table, ls)
             past == Total(Kept(ls))
         IN  \/ Kept(ls) = {}
             \/ /\ next.left = LeftBefore(table, DepreciationBase(a), next.index)
                /\ past = DepreciationBase(a) - next.left
             => BoardAmounts(a, table, next, past)
                  = [k \in next.index .. Len(table) |-> table[k].amount]
<1> DEFINE table == DepreciationTable(a)
           next == NextLine(a, table, ls)
           past == Total(Kept(ls))
           b == DepreciationBase(a)
<1>1. ProperAsset(a)
  BY AssetIsProper
<1>2. ProperTable(table) /\ Runs(table, b, b - Depreciable(a)) /\ b \in Int
  BY <1>1, TableIsProper, AmountsOfAsset
<1>3. Kept(ls) # {} => Reaches(table, Max(Dates(Kept(ls))))
  BY DEF Computable
<1> HIDE DEF table, b
<1>4. next.index \in 1 .. Len(table) /\ next.left \in Int
  BY <1>1, <1>2, <1>3, NextLineIs
<1>5. past \in Int
  <2>1. Kept(ls) \in SUBSET ls /\ IsFiniteSet(ls) /\ \A l \in ls : l.amount \in Int
    BY Parts DEF ProperLines
  <2> QED BY <2>1, TotalSplit
<1>6. ASSUME Kept(ls) = {} PROVE next.left = LeftBefore(table, b, next.index) /\ past = b - next.left
  <2>1. next.index = 1 /\ next.left = b
    BY <1>6 DEF NextLine, b
  <2>2. past = 0
    BY <1>6, SumEmpty DEF Total
  <2> QED BY <1>2, <2>1, <2>2 DEF LeftBefore
<1> HIDE DEF next, past
<1>7. Agrees(a, table, next, past) =>
        BoardAmounts(a, table, next, past) = [k \in next.index .. Len(table) |-> table[k].amount]
  BY <1>1, <1>2, <1>4, <1>5, BoardAmountsAddUp
<1> QED BY <1>2, <1>6, <1>7 DEF Agrees, table, next, past, b

LEMMA InState ==
  ASSUME NEW a \in AssetRow, NEW s \in States
  PROVE  /\ [a EXCEPT !.state = s] \in AssetRow /\ SameFigures(a, [a EXCEPT !.state = s])
         /\ [a EXCEPT !.state = s].state = s
<1> DEFINE b == [a EXCEPT !.state = s]
<1>1. b \in AssetRow /\ b.state = s /\ b.purchase = a.purchase /\ b.salvage = a.salvage
      /\ b.method = a.method
  BY DEF AssetRow, States
<1> HIDE DEF b
<1>2. SameFigures(a, b)
  BY <1>1 DEF SameFigures
<1> QED BY <1>1, <1>2 DEF b

LEMMA WithYears ==
  ASSUME NEW a \in AssetRow, NEW years \in 1 .. MaxYears, NEW method \in Methods
  PROVE  /\ [a EXCEPT !.years = years] \in AssetRow
         /\ SameFigures(a, [a EXCEPT !.years = years])
         /\ [a EXCEPT !.years = years].state = a.state
         /\ [a EXCEPT !.method = method, !.years = years] \in AssetRow
         /\ [a EXCEPT !.method = method, !.years = years].state = a.state
         /\ [a EXCEPT !.method = method, !.years = years].purchase = a.purchase
         /\ [a EXCEPT !.method = method, !.years = years].salvage = a.salvage
<1> DEFINE b == [a EXCEPT !.years = years]
           c == [a EXCEPT !.method = method, !.years = years]
<1>1. b \in AssetRow /\ b.state = a.state /\ b.purchase = a.purchase /\ b.salvage = a.salvage
      /\ b.method = a.method
  BY DEF AssetRow
<1>2. c \in AssetRow /\ c.state = a.state /\ c.purchase = a.purchase /\ c.salvage = a.salvage
  BY DEF AssetRow
<1> HIDE DEF b, c
<1>3. SameFigures(a, b)
  BY <1>1 DEF SameFigures
<1> QED BY <1>1, <1>2, <1>3 DEF b, c

\* The lines that count as depreciated
Counted(ls) == {l \in ls : l.move # "none" \/ l.init}

LEMMA ResidualIs ==
  ASSUME NEW a, NEW ls
  PROVE  ValueResidual(a, ls) = DepreciationBase(a) - Total(Counted(ls))
BY DEF ValueResidual, Counted

LEMMA LineWith ==
  ASSUME NEW l \in AssetLine, NEW move \in {"none", "draft", "posted"}
  PROVE  /\ [l EXCEPT !.move = move] \in AssetLine /\ SameKey([l EXCEPT !.move = move], l)
         /\ [l EXCEPT !.move = move].amount = l.amount /\ [l EXCEPT !.move = move].move = move
         /\ [l EXCEPT !.move = move].type = l.type
<1> DEFINE m == [l EXCEPT !.move = move]
<1>1. m \in AssetLine /\ m.type = l.type /\ m.date = l.date /\ m.nth = l.nth
      /\ m.amount = l.amount /\ m.move = move
  BY DEF AssetLine
<1> HIDE DEF m
<1>2. SameKey(m, l)
  BY <1>1 DEF SameKey
<1> QED BY <1>1, <1>2 DEF m

Single(S) == \E x : S = {x}

\* One line replaced
LEMMA OneReplaced ==
  ASSUME NEW ls, ProperLines(ls), NEW l \in ls, NEW m \in AssetLine, SameKey(m, l)
  PROVE  /\ ProperLines((ls \ {l}) \cup {m})
         /\ m.amount = l.amount => Total((ls \ {l}) \cup {m}) = Total(ls)
         /\ l.type = "depreciate" => Removals((ls \ {l}) \cup {m}) = Removals(ls)
         /\ Single(Removals(ls)) => Single(Removals((ls \ {l}) \cup {m}))
<1> DEFINE f == [x \in {l} |-> m]
           S == {l}
           new == (ls \ {l}) \cup {m}
<1>1. Replaced(ls, S, f) = new /\ f[l] = m /\ \A x \in S : x = l
  BY DEF Replaced
<1>2. S \in SUBSET ls
  OBVIOUS
<1> HIDE DEF f, S
<1>3. Rekeys(f, S) /\ (m.amount = l.amount => \A x \in S : f[x].amount = x.amount)
  BY <1>1 DEF Rekeys
<1>4. ProperLines(Replaced(ls, S, f))
  BY <1>2, <1>3, Rekeyed
<1>5. m.amount = l.amount => Total(Replaced(ls, S, f)) = Total(ls)
  BY <1>2, <1>3, RekeyedTotal
<1>6. m.type = l.type
  BY DEF SameKey
<1>7. l.type = "depreciate" => Removals(new) = Removals(ls)
  BY <1>6 DEF Removals
<1>8. ASSUME NEW r, Removals(ls) = {r} PROVE Single(Removals(new))
  <2>1. CASE l.type = "remove"
    <3>1. l = r
      BY <1>8, <2>1 DEF Removals
    <3>2. Removals(new) = {m}
      BY <1>6, <1>8, <2>1, <3>1 DEF Removals
    <3> QED BY <3>2 DEF Single
  <2>2. CASE l.type # "remove"
    <3>1. Removals(new) = Removals(ls)
      BY <1>6, <2>2 DEF Removals
    <3> QED BY <1>8, <3>1 DEF Single
  <2> QED BY <2>1, <2>2
<1> HIDE DEF new
<1>9. /\ ProperLines(new) /\ (m.amount = l.amount => Total(new) = Total(ls))
      /\ Single(Removals(ls)) => Single(Removals(new))
  BY <1>1, <1>4, <1>5, <1>8 DEF Single
<1> QED BY <1>7, <1>9 DEF new

\* Posting lines leaves what all of them add up to.
LEMMA PostedIs ==
  ASSUME asset \in AssetRow, NEW ls, ProperLines(ls), NEW S \in SUBSET ls
  PROVE  /\ ProperLines(Posted(ls, S)) /\ Total(Posted(ls, S)) = Total(ls)
         /\ (\A l \in S : l.type = "depreciate") => Removals(Posted(ls, S)) = Removals(ls)
         /\ \A l \in Posted(ls, S) : l.move # "none" \/ l \in ls \ S
<1> DEFINE move == IF asset.autopost THEN "posted" ELSE "draft"
           f == [l \in S |-> [l EXCEPT !.move = move]]
<1>1. move \in {"none", "draft", "posted"} /\ move # "none"
  OBVIOUS
<1>2. Posted(ls, S) = (ls \ S) \cup {f[l] : l \in S}
  BY DEF Posted
<1> HIDE DEF move
<1>3. \A l \in S : /\ f[l] \in AssetLine /\ SameKey(f[l], l) /\ f[l].amount = l.amount
                   /\ f[l].move # "none" /\ f[l].type = l.type
  <2> TAKE l \in S
  <2>1. l \in AssetLine
    BY DEF ProperLines
  <2> QED BY <1>1, <2>1, LineWith
<1> HIDE DEF f
<1>4. Rekeys(f, S) /\ Posted(ls, S) = Replaced(ls, S, f)
  BY <1>2, <1>3 DEF Rekeys, Replaced
<1>5. ProperLines(Posted(ls, S))
  BY <1>4, Rekeyed
<1>6. Total(Posted(ls, S)) = Total(ls)
  BY <1>3, <1>4, RekeyedTotal
<1>7. ASSUME \A l \in S : l.type = "depreciate" PROVE Removals(Posted(ls, S)) = Removals(ls)
  <2>1. \A l \in S : f[l].type # "remove" /\ l.type # "remove"
    BY <1>3, <1>7
  <2> QED BY <1>2, <2>1 DEF Removals
<1>8. \A l \in Posted(ls, S) : l.move # "none" \/ l \in ls \ S
  BY <1>2, <1>3
<1> QED BY <1>5, <1>6, <1>7, <1>8

\* Closing when nothing is left
LEMMA CloseIs ==
  ASSUME asset \in AssetRow, NEW ls
  PROVE  LET a == SetCloseAssetZeroValue(ls)
         IN  /\ a \in AssetRow /\ SameFigures(asset, a)
             /\ a.state = asset.state \/ (a.state = "close" /\ ValueResidual(a, ls) = 0)
<1> DEFINE closed == [asset EXCEPT !.state = "close"]
<1>1. closed \in AssetRow /\ SameFigures(asset, closed) /\ closed.state = "close"
  BY InState DEF States
<1>2. ValueResidual(closed, ls) = ValueResidual(asset, ls)
  BY <1>1, FiguresSame
<1>3. SameFigures(asset, asset)
  BY DEF SameFigures
<1>4. \/ SetCloseAssetZeroValue(ls) = asset
      \/ SetCloseAssetZeroValue(ls) = closed /\ ValueResidual(asset, ls) = 0
  BY DEF SetCloseAssetZeroValue
<1> HIDE DEF closed
<1> QED BY <1>1, <1>2, <1>3, <1>4

-----------------------------------------------------------------------------
AssetTyped ==
  /\ asset \in AssetRow /\ asset.salvage < asset.purchase
  /\ removal \subseteq BOOLEAN
  /\ trigger \in BOOLEAN /\ computed \in BOOLEAN /\ undone \in BOOLEAN /\ late \in BOOLEAN

\* Unless a wizard that was out of date wrote one off again, there is one removal
\* among the lines of a removed asset, and none among those of another one.
RemovedOnce ==
  ~late => IF asset.state = "removed" THEN Single(Removals(lines)) ELSE Removals(lines) = {}

AssetInv ==
  AssetTyped /\ ProperLines(lines) /\ RemovedOnce /\ BoardAddsUp /\ ClosedIsDepreciated

LEMMA AssetInit_Inv == AssetInit => AssetInv
<1> SUFFICES ASSUME AssetInit PROVE AssetInv
  OBVIOUS
<1>1. asset \in AssetRow /\ asset.state = "draft" /\ asset.salvage < asset.purchase
      /\ lines = {} /\ removal = {} /\ trigger = FALSE /\ computed = FALSE /\ undone = FALSE
      /\ late = FALSE
  BY DEF AssetInit
<1>2. AssetTyped
  BY <1>1 DEF AssetTyped
<1>3. ProperLines(lines)
  BY <1>1, FS_EmptySet DEF ProperLines
<1>4. RemovedOnce
  BY <1>1 DEF RemovedOnce, Removals
<1>5. BoardAddsUp /\ ClosedIsDepreciated
  BY <1>1 DEF BoardAddsUp, ClosedIsDepreciated
<1> QED BY <1>2, <1>3, <1>4, <1>5 DEF AssetInv

\* The computation of the board
LEMMA Compute_Keeps == AssetInv /\ ComputeDepreciationBoard => AssetInv'
<1> SUFFICES ASSUME AssetInv, ComputeDepreciationBoard PROVE AssetInv'
  OBVIOUS
<1>1. AssetTyped /\ ProperLines(lines) /\ RemovedOnce /\ BoardAddsUp
  BY DEF AssetInv
<1>2. /\ asset.state \in {"draft", "open"} /\ Computable(asset, lines)
      /\ lines' = Computed(asset, lines)
      /\ computed' = (computed \/ ValueResidual(asset, lines) # 0)
      /\ asset' = asset /\ removal' = removal /\ trigger' = trigger /\ undone' = undone /\ late' = late
  BY DEF ComputeDepreciationBoard
<1>3. asset \in AssetRow /\ ProperAsset(asset)
  BY <1>1, AssetIsProper DEF AssetTyped
<1>4. /\ ProperLines(lines') /\ Removals(lines') = Removals(lines)
      /\ Removals(lines) = {} /\ ValueResidual(asset, lines) # 0 => Total(lines') = Depreciable(asset)
      /\ ValueResidual(asset, lines) = 0 => lines' = lines
  BY <1>1, <1>2, <1>3, ComputedIs
<1>5. AssetTyped'
  BY <1>1, <1>2 DEF AssetTyped
<1>6. RemovedOnce'
  BY <1>1, <1>2, <1>4 DEF RemovedOnce
<1>7. BoardAddsUp'
  <2>1. asset.state # "removed" /\ (~late => Removals(lines) = {})
    BY <1>1, <1>2 DEF RemovedOnce
  <2>2. CASE ValueResidual(asset, lines) = 0
    BY <1>1, <1>2, <1>4, <2>2 DEF BoardAddsUp
  <2>3. CASE ValueResidual(asset, lines) # 0
    BY <1>2, <1>4, <2>1, <2>3 DEF BoardAddsUp
  <2> QED BY <2>2, <2>3
<1>8. ClosedIsDepreciated'
  BY <1>2 DEF ClosedIsDepreciated
<1>9. ProperLines(lines)'
  BY <1>4
<1> QED BY <1>5, <1>6, <1>7, <1>8, <1>9 DEF AssetInv

LEMMA Modify_Keeps ==
  ASSUME NEW years \in 1 .. MaxYears, AssetInv, Modify(years)
  PROVE  AssetInv'
<1> DEFINE modified == [asset EXCEPT !.years = years]
<1>1. AssetTyped /\ ProperLines(lines) /\ RemovedOnce
  BY DEF AssetInv
<1>2. /\ asset.state = "open" /\ Computable(modified, lines) /\ asset' = modified
      /\ lines' = Computed(modified, lines)
      /\ computed' = (ValueResidual(modified, lines) # 0)
      /\ removal' = removal /\ trigger' = trigger /\ undone' = undone /\ late' = late
  BY DEF Modify
<1>3. modified \in AssetRow /\ SameFigures(asset, modified) /\ modified.state = asset.state
  <2>1. asset \in AssetRow /\ "linear" \in Methods
    BY <1>1 DEF AssetTyped, Methods
  <2> QED BY <2>1, WithYears
<1> HIDE DEF modified
<1>4. modified.salvage < modified.purchase
  BY <1>1, <1>3 DEF AssetTyped, SameFigures
<1>5. ProperAsset(modified)
  BY <1>3, <1>4, AssetIsProper
<1>6. /\ ProperLines(lines') /\ Removals(lines') = Removals(lines)
      /\ Removals(lines) = {} /\ ValueResidual(modified, lines) # 0 =>
           Total(lines') = Depreciable(modified)
  BY <1>1, <1>2, <1>3, <1>5, ComputedIs
<1>7. AssetTyped'
  BY <1>1, <1>2, <1>3, <1>4 DEF AssetTyped
<1>8. RemovedOnce'
  BY <1>1, <1>2, <1>3, <1>6 DEF RemovedOnce
<1>9. BoardAddsUp'
  <2>1. modified.state # "removed" /\ (~late => Removals(lines) = {})
    BY <1>1, <1>2, <1>3 DEF RemovedOnce
  <2> QED BY <1>2, <1>6, <2>1 DEF BoardAddsUp
<1>10. ClosedIsDepreciated'
  BY <1>2, <1>3 DEF ClosedIsDepreciated
<1>11. ProperLines(lines)'
  BY <1>6
<1> QED BY <1>7, <1>8, <1>9, <1>10, <1>11 DEF AssetInv

LEMMA Edit_Keeps ==
  ASSUME NEW method \in Methods, NEW years \in 1 .. MaxYears, AssetInv, Edit(method, years)
  PROVE  AssetInv'
<1> DEFINE edited == [asset EXCEPT !.method = method, !.years = years]
<1>1. AssetTyped /\ ProperLines(lines) /\ RemovedOnce
  BY DEF AssetInv
<1>2. /\ asset.state = "draft" /\ asset' = edited /\ computed' = FALSE /\ lines' = lines
      /\ removal' = removal /\ trigger' = trigger /\ undone' = undone /\ late' = late
  BY DEF Edit
<1>3. edited \in AssetRow /\ edited.state = asset.state /\ edited.purchase = asset.purchase
      /\ edited.salvage = asset.salvage
  <2>1. asset \in AssetRow
    BY <1>1 DEF AssetTyped
  <2> QED BY <2>1, WithYears
<1> HIDE DEF edited
<1>4. AssetTyped'
  BY <1>1, <1>2, <1>3 DEF AssetTyped
<1>5. RemovedOnce' /\ BoardAddsUp' /\ ClosedIsDepreciated'
  BY <1>1, <1>2, <1>3 DEF RemovedOnce, BoardAddsUp, ClosedIsDepreciated
<1>6. ProperLines(lines)'
  BY <1>1, <1>2
<1> QED BY <1>4, <1>5, <1>6 DEF AssetInv

LEMMA EditLine_Keeps ==
  ASSUME NEW l \in lines, NEW amount \in LineAmount, NEW init \in BOOLEAN, AssetInv,
         EditLine(l, amount, init)
  PROVE  AssetInv'
<1> DEFINE m == [l EXCEPT !.amount = amount, !.init = init]
<1>1. AssetTyped /\ ProperLines(lines) /\ RemovedOnce
  BY DEF AssetInv
<1>2. /\ asset.state = "draft" /\ lines' = (lines \ {l}) \cup {m} /\ computed' = FALSE
      /\ asset' = asset /\ removal' = removal /\ trigger' = trigger /\ undone' = undone
      /\ late' = late
  BY DEF EditLine
<1>3. m \in AssetLine /\ SameKey(m, l)
  <2>1. l \in AssetLine /\ amount \in Int
    BY <1>1, AssetsAssumption DEF ProperLines
  <2>2. m \in AssetLine /\ m.type = l.type /\ m.date = l.date /\ m.nth = l.nth
    BY <2>1 DEF AssetLine
  <2> HIDE DEF m
  <2> QED BY <2>2 DEF SameKey
<1>4. ProperLines(lines') /\ (Single(Removals(lines)) => Single(Removals(lines')))
      /\ (l.type = "depreciate" => Removals(lines') = Removals(lines))
  <2> DEFINE new == (lines \ {l}) \cup {m}
  <2> HIDE DEF m
  <2>1. ProperLines(new) /\ (l.type = "depreciate" => Removals(new) = Removals(lines))
    BY <1>1, <1>3, OneReplaced DEF new
  <2>2. Single(Removals(lines)) => Single(Removals(new))
    BY <1>1, <1>3, OneReplaced DEF new
  <2> HIDE DEF new
  <2>3. lines' = new
    BY <1>2 DEF new
  <2> QED BY <2>1, <2>2, <2>3
<1>5. AssetTyped'
  BY <1>1, <1>2 DEF AssetTyped
<1>6. RemovedOnce'
  <2>1. l.type \in {"depreciate", "remove"}
    BY <1>1, LineFields DEF ProperLines
  <2>2. ~late => l.type = "depreciate"
    BY <1>1, <1>2, <2>1 DEF RemovedOnce, Removals
  <2> QED BY <1>1, <1>2, <1>4, <2>2 DEF RemovedOnce
<1>7. BoardAddsUp' /\ ClosedIsDepreciated'
  BY <1>2 DEF BoardAddsUp, ClosedIsDepreciated
<1>8. ProperLines(lines)'
  BY <1>4
<1> QED BY <1>5, <1>6, <1>7, <1>8 DEF AssetInv

-----------------------------------------------------------------------------
(* Assets: the steps of the entries *)

\* A step that leaves what the lines add up to, or sets it right, and neither writes
\* the asset off nor undoes that, keeps the invariant if closing it is justified.
LEMMA Step_Keeps ==
  ASSUME AssetInv,
         asset' \in AssetRow, SameFigures(asset, asset'),
         (asset'.state = "removed") = (asset.state = "removed"),
         ProperLines(lines'),
         ~late /\ Removals(lines) = {} => Removals(lines') = {},
         Single(Removals(lines)) => Single(Removals(lines')),
         removal' \subseteq BOOLEAN, trigger' \in BOOLEAN, computed' \in BOOLEAN,
         undone' \in BOOLEAN, late' = late,
         \/ computed' = computed /\ Total(lines') = Total(lines)
         \/ ~late => asset.state # "removed" /\ Total(lines') = Depreciable(asset),
         asset'.state = "close" /\ ~undone' => ValueResidual(asset', lines') = 0
  PROVE  AssetInv'
<1>1. AssetTyped /\ RemovedOnce /\ BoardAddsUp
  BY DEF AssetInv
<1>2. DepreciationBase(asset') = DepreciationBase(asset) /\ Depreciable(asset') = Depreciable(asset)
  BY FiguresSame
<1>3. AssetTyped'
  BY <1>1 DEF AssetTyped, SameFigures
<1>4. RemovedOnce'
  BY <1>1 DEF RemovedOnce
<1>5. BoardAddsUp'
  <2>1. SUFFICES ASSUME computed', ~late
                 PROVE  Total(lines') = IF asset'.state = "removed" THEN DepreciationBase(asset')
                                        ELSE Depreciable(asset')
    BY DEF BoardAddsUp
  <2>2. CASE computed' = computed /\ Total(lines') = Total(lines)
    <3>1. Total(lines) = IF asset.state = "removed" THEN DepreciationBase(asset)
                         ELSE Depreciable(asset)
      BY <1>1, <2>1, <2>2 DEF BoardAddsUp
    <3> QED BY <1>2, <2>2, <3>1
  <2>3. CASE ~late => asset.state # "removed" /\ Total(lines') = Depreciable(asset)
    BY <1>2, <2>1, <2>3
  <2> QED BY <2>2, <2>3
<1>6. ClosedIsDepreciated'
  BY DEF ClosedIsDepreciated
<1>7. ProperLines(lines)'
  OBVIOUS
<1> QED BY <1>3, <1>4, <1>5, <1>6, <1>7 DEF AssetInv

\* A line that counts is replaced by another that counts.
LEMMA CountedReplaced ==
  ASSUME NEW ls, ProperLines(ls), NEW l \in ls, NEW m \in AssetLine, SameKey(m, l),
         m.amount = l.amount, l.move # "none", m.move # "none"
  PROVE  Total(Counted((ls \ {l}) \cup {m})) = Total(Counted(ls))
<1> DEFINE C == Counted(ls)
<1>1. l \in C /\ C \in SUBSET ls /\ Counted((ls \ {l}) \cup {m}) = (C \ {l}) \cup {m}
  BY DEF Counted
<1> HIDE DEF C
<1>2. ProperLines(C)
  BY <1>1, SomeOfThem
<1>3. Total((C \ {l}) \cup {m}) = Total(C)
  BY <1>1, <1>2, OneReplaced
<1> QED BY <1>1, <1>3 DEF C

LEMMA Validate_Keeps == AssetInv /\ Validate => AssetInv'
<1> SUFFICES ASSUME AssetInv, Validate PROVE AssetInv'
  OBVIOUS
<1> DEFINE s == IF ValueResidual(asset, lines) = 0 THEN "close" ELSE "open"
<1>1. AssetTyped /\ ProperLines(lines)
  BY DEF AssetInv
<1>2. /\ asset.state = "draft" /\ asset' = [asset EXCEPT !.state = s] /\ undone' = FALSE
      /\ lines' = lines /\ removal' = removal /\ trigger' = trigger /\ computed' = computed
      /\ late' = late
  BY DEF Validate
<1>3. s \in States /\ s # "removed" /\ (s = "close" => ValueResidual(asset, lines) = 0)
  BY DEF States
<1> HIDE DEF s
<1>4. asset' \in AssetRow /\ SameFigures(asset, asset') /\ asset'.state = s
  <2>1. asset \in AssetRow
    BY <1>1 DEF AssetTyped
  <2> QED BY <1>2, <1>3, <2>1, InState
<1>5. ValueResidual(asset', lines) = ValueResidual(asset, lines)
  BY <1>4, FiguresSame
<1>6. /\ ProperLines(lines') /\ removal' \subseteq BOOLEAN /\ trigger' \in BOOLEAN
      /\ computed' \in BOOLEAN /\ undone' \in BOOLEAN
  BY <1>1, <1>2 DEF AssetTyped
<1> QED BY <1>2, <1>3, <1>4, <1>5, <1>6, Step_Keeps

LEMMA SetToDraft_Keeps == AssetInv /\ SetToDraft => AssetInv'
<1> SUFFICES ASSUME AssetInv, SetToDraft PROVE AssetInv'
  OBVIOUS
<1>1. AssetTyped /\ ProperLines(lines)
  BY DEF AssetInv
<1>2. /\ asset.state \in {"open", "close"} /\ asset' = [asset EXCEPT !.state = "draft"]
      /\ undone' = undone /\ lines' = lines /\ removal' = removal /\ trigger' = trigger
      /\ computed' = computed /\ late' = late
  BY DEF SetToDraft
<1>3. asset' \in AssetRow /\ SameFigures(asset, asset') /\ asset'.state = "draft"
  <2>1. asset \in AssetRow /\ "draft" \in States
    BY <1>1 DEF AssetTyped, States
  <2> QED BY <1>2, <2>1, InState
<1>4. /\ ProperLines(lines') /\ removal' \subseteq BOOLEAN /\ trigger' \in BOOLEAN
      /\ computed' \in BOOLEAN /\ undone' \in BOOLEAN
  BY <1>1, <1>2 DEF AssetTyped
<1> QED BY <1>2, <1>3, <1>4, Step_Keeps

\* The asset stays as it is or is closed, nothing being left.
LEMMA Closing ==
  ASSUME AssetTyped, asset.state = "open", NEW ls, NEW due,
         due \in {asset, SetCloseAssetZeroValue(ls)}
  PROVE  /\ due \in AssetRow /\ SameFigures(asset, due) /\ due.state # "removed"
         /\ due.state = "close" => ValueResidual(due, ls) = 0
<1>1. asset \in AssetRow
  BY DEF AssetTyped
<1>2. CASE due = asset
  BY <1>1, <1>2 DEF SameFigures
<1>3. CASE due = SetCloseAssetZeroValue(ls)
  <2> DEFINE a == SetCloseAssetZeroValue(ls)
  <2>1. /\ a \in AssetRow /\ SameFigures(asset, a)
        /\ a.state = asset.state \/ (a.state = "close" /\ ValueResidual(a, ls) = 0)
    BY <1>1, CloseIs
  <2> HIDE DEF a
  <2>2. due = a
    BY <1>3 DEF a
  <2> QED BY <2>1, <2>2
<1> QED BY <1>2, <1>3

LEMMA CreateMove_Keeps ==
  ASSUME NEW l \in lines, AssetInv, CreateMove(l)
  PROVE  AssetInv'
<1> DEFINE posted == Posted(lines, {l})
<1>1. AssetTyped /\ ProperLines(lines)
  BY DEF AssetInv
<1>2. /\ asset.state = "open" /\ l \in Unposted(lines) /\ lines' = posted
      /\ asset' = SetCloseAssetZeroValue(posted)
      /\ removal' = removal /\ trigger' = trigger /\ computed' = computed /\ undone' = undone
      /\ late' = late
  BY DEF CreateMove
<1>3. l.type = "depreciate"
  BY <1>2 DEF Unposted, Depreciations
<1>4. ProperLines(posted) /\ Total(posted) = Total(lines) /\ Removals(posted) = Removals(lines)
  <2> DEFINE S == {l}
  <2>1. S \in SUBSET lines /\ (\A m \in S : m.type = "depreciate") /\ asset \in AssetRow
    BY <1>1, <1>3 DEF AssetTyped
  <2>2. posted = Posted(lines, S)
    OBVIOUS
  <2> HIDE DEF S, posted
  <2> QED BY <1>1, <2>1, <2>2, PostedIs
<1> HIDE DEF posted
<1>5. /\ asset' \in AssetRow /\ SameFigures(asset, asset') /\ asset'.state # "removed"
      /\ asset'.state = "close" => ValueResidual(asset', posted) = 0
  <2> DEFINE due == SetCloseAssetZeroValue(posted)
  <2>1. due \in {asset, SetCloseAssetZeroValue(posted)}
    OBVIOUS
  <2> HIDE DEF due
  <2>2. /\ due \in AssetRow /\ SameFigures(asset, due) /\ due.state # "removed"
        /\ due.state = "close" => ValueResidual(due, posted) = 0
    BY <1>1, <1>2, <2>1, Closing
  <2> QED BY <1>2, <2>2 DEF due
<1>6. /\ ProperLines(lines') /\ removal' \subseteq BOOLEAN /\ trigger' \in BOOLEAN
      /\ computed' \in BOOLEAN /\ undone' \in BOOLEAN
  BY <1>1, <1>2, <1>4 DEF AssetTyped
<1>7. asset'.state = "close" => ValueResidual(asset', lines') = 0
  BY <1>2, <1>5
<1> QED BY <1>2, <1>4, <1>5, <1>6, <1>7, Step_Keeps

LEMMA PostMove_Keeps ==
  ASSUME NEW l \in lines, AssetInv, PostMove(l)
  PROVE  AssetInv'
<1> DEFINE m == [l EXCEPT !.move = "posted"]
           new == (lines \ {l}) \cup {m}
<1>1. AssetTyped /\ ProperLines(lines) /\ ClosedIsDepreciated
  BY DEF AssetInv
<1>2. /\ l.move = "draft" /\ lines' = new /\ asset' = asset
      /\ removal' = removal /\ trigger' = trigger /\ computed' = computed /\ undone' = undone
      /\ late' = late
  BY DEF PostMove
<1>3. l \in AssetLine
  BY <1>1 DEF ProperLines
<1>4. m \in AssetLine /\ SameKey(m, l) /\ m.amount = l.amount /\ m.move # "none"
      /\ m.type = l.type
  BY <1>3, LineWith
<1> HIDE DEF m
<1>5. ProperLines(new) /\ Total(new) = Total(lines)
      /\ (Single(Removals(lines)) => Single(Removals(new)))
  BY <1>1, <1>4, OneReplaced
<1>6. Removals(lines) = {} => Removals(new) = {}
  BY <1>4 DEF Removals
<1>7. Total(Counted(new)) = Total(Counted(lines))
  <2>1. l.move # "none"
    BY <1>2
  <2> QED BY <1>1, <1>4, <2>1, CountedReplaced
<1> HIDE DEF new
<1>8. ValueResidual(asset, new) = ValueResidual(asset, lines)
  BY <1>7, ResidualIs
<1>9. asset' \in AssetRow /\ SameFigures(asset, asset')
      /\ (asset'.state = "close" /\ ~undone' => ValueResidual(asset', lines') = 0)
  BY <1>1, <1>2, <1>8 DEF AssetTyped, SameFigures, ClosedIsDepreciated
<1>10. /\ ProperLines(lines') /\ removal' \subseteq BOOLEAN /\ trigger' \in BOOLEAN
       /\ computed' \in BOOLEAN /\ undone' \in BOOLEAN
  BY <1>1, <1>2, <1>5 DEF AssetTyped
<1> QED BY <1>2, <1>5, <1>6, <1>9, <1>10, Step_Keeps

LEMMA UnlinkMove_Keeps ==
  ASSUME NEW l \in lines, AssetInv, UnlinkMove(l)
  PROVE  AssetInv'
<1>1. AssetTyped /\ ProperLines(lines) /\ RemovedOnce
  BY DEF AssetInv
<1>2. l.move # "none" /\ removal' = removal /\ trigger' = trigger /\ late' = late
  BY DEF UnlinkMove
<1>3. asset \in AssetRow /\ l \in AssetLine
  BY <1>1 DEF AssetTyped, ProperLines
<1>4. CASE l.type = "remove" /\ asset.state = "removed"
  <2> DEFINE rest == lines \ {l}
  <2>1. lines' = rest /\ asset' = [asset EXCEPT !.state = "close"] /\ computed' = FALSE
        /\ undone' = TRUE
    BY <1>4 DEF UnlinkMove
  <2>2. asset' \in AssetRow /\ SameFigures(asset, asset') /\ asset'.state = "close"
    <3>1. "close" \in States
      BY DEF States
    <3> QED BY <1>3, <2>1, <3>1, InState
  <2>3. ASSUME ~late PROVE Removals(rest) = {}
    <3>1. PICK x : Removals(lines) = {x}
      BY <1>1, <1>4, <2>3 DEF RemovedOnce, Single
    <3> QED BY <1>4, <3>1 DEF Removals
  <2>4. ProperLines(rest)
    <3>1. rest \in SUBSET lines
      OBVIOUS
    <3> HIDE DEF rest
    <3> QED BY <1>1, <3>1, SomeOfThem
  <2> HIDE DEF rest
  <2>5. AssetTyped'
    BY <1>1, <1>2, <2>1, <2>2 DEF AssetTyped, SameFigures
  <2>6. RemovedOnce'
    BY <1>2, <2>1, <2>2, <2>3 DEF RemovedOnce
  <2>7. BoardAddsUp' /\ ClosedIsDepreciated'
    BY <2>1 DEF BoardAddsUp, ClosedIsDepreciated
  <2>8. ProperLines(lines)'
    BY <2>1, <2>4
  <2> QED BY <2>5, <2>6, <2>7, <2>8 DEF AssetInv
<1>5. CASE ~(l.type = "remove" /\ asset.state = "removed")
  <2> DEFINE m == [l EXCEPT !.move = "none"]
             new == (lines \ {l}) \cup {m}
             s == IF asset.state = "close" THEN "open" ELSE asset.state
  <2>1. lines' = new /\ asset' = [asset EXCEPT !.state = s] /\ computed' = computed
        /\ undone' = undone
    BY <1>5 DEF UnlinkMove
  <2>2. m \in AssetLine /\ SameKey(m, l) /\ m.amount = l.amount /\ m.type = l.type
    BY <1>3, LineWith
  <2>3. s \in States /\ s # "close" /\ (s = "removed") = (asset.state = "removed")
    BY <1>3, AssetFields DEF States
  <2> HIDE DEF s, m
  <2>4. asset' \in AssetRow /\ SameFigures(asset, asset') /\ asset'.state = s
    BY <1>3, <2>1, <2>3, InState
  <2>5. ProperLines(new) /\ Total(new) = Total(lines)
        /\ (Single(Removals(lines)) => Single(Removals(new)))
    BY <1>1, <2>2, OneReplaced
  <2>6. Removals(lines) = {} => Removals(new) = {}
    BY <2>2 DEF Removals
  <2> HIDE DEF new
  <2>7. /\ ProperLines(lines') /\ removal' \subseteq BOOLEAN /\ trigger' \in BOOLEAN
        /\ computed' \in BOOLEAN /\ undone' \in BOOLEAN
    BY <1>1, <1>2, <2>1, <2>5 DEF AssetTyped
  <2>8. (asset'.state = "removed") = (asset.state = "removed") /\ asset'.state # "close"
    BY <2>3, <2>4
  <2> QED BY <1>2, <2>1, <2>4, <2>5, <2>6, <2>7, <2>8, Step_Keeps
<1> QED BY <1>4, <1>5

LEMMA FiscalYearChanges_Keeps == AssetInv /\ FiscalYearChanges => AssetInv'
<1> SUFFICES ASSUME AssetInv, FiscalYearChanges PROVE AssetInv'
  OBVIOUS
<1>1. AssetTyped /\ ProperLines(lines) /\ ClosedIsDepreciated
  BY DEF AssetInv
<1>2. /\ trigger' = TRUE /\ asset' = asset /\ lines' = lines /\ removal' = removal
      /\ computed' = computed /\ undone' = undone /\ late' = late
  BY DEF FiscalYearChanges
<1>3. asset' \in AssetRow /\ SameFigures(asset, asset')
      /\ (asset'.state = "close" /\ ~undone' => ValueResidual(asset', lines') = 0)
  BY <1>1, <1>2 DEF AssetTyped, SameFigures, ClosedIsDepreciated
<1>4. /\ ProperLines(lines') /\ removal' \subseteq BOOLEAN /\ trigger' \in BOOLEAN
      /\ computed' \in BOOLEAN /\ undone' \in BOOLEAN
  BY <1>1, <1>2 DEF AssetTyped
<1> QED BY <1>2, <1>3, <1>4, Step_Keeps

\* The entries of a period
LEMMA ComputeEntries_Keeps ==
  ASSUME NEW period, AssetInv, ComputeEntries(period)
  PROVE  AssetInv'
<1> DEFINE board == IF trigger THEN Computed(asset, lines) ELSE lines
           S == DueIn(board, period)
           posted == Posted(board, S)
<1>1. AssetTyped /\ ProperLines(lines) /\ RemovedOnce
  BY DEF AssetInv
<1>2. /\ asset.state = "open" /\ (trigger => Computable(asset, lines))
      /\ computed' = (computed \/ (trigger /\ ValueResidual(asset, lines) # 0))
      /\ trigger' = FALSE /\ removal' = removal /\ undone' = undone /\ late' = late
      /\ PostDue(board, period)
  BY DEF ComputeEntries
<1>3. asset \in AssetRow /\ ProperAsset(asset)
  BY <1>1, AssetIsProper DEF AssetTyped
<1>4. /\ ProperLines(board) /\ Removals(board) = Removals(lines)
      /\ trigger /\ ValueResidual(asset, lines) # 0 /\ ~late => Total(board) = Depreciable(asset)
      /\ ~(trigger /\ ValueResidual(asset, lines) # 0) => board = lines
  <2>1. CASE trigger
    <3>1. /\ ProperLines(Computed(asset, lines)) /\ Removals(Computed(asset, lines)) = Removals(lines)
          /\ Removals(lines) = {} /\ ValueResidual(asset, lines) # 0 =>
               Total(Computed(asset, lines)) = Depreciable(asset)
          /\ ValueResidual(asset, lines) = 0 => Computed(asset, lines) = lines
      BY <1>1, <1>2, <1>3, <2>1, ComputedIs
    <3>2. ~late => Removals(lines) = {}
      BY <1>1, <1>2 DEF RemovedOnce
    <3>3. board = Computed(asset, lines)
      BY <2>1
    <3> HIDE DEF board
    <3> QED BY <2>1, <3>1, <3>2, <3>3
  <2>2. CASE ~trigger
    BY <1>1, <2>2
  <2> QED BY <2>1, <2>2
<1> HIDE DEF board
<1>5. lines' = posted /\ asset' \in {asset, SetCloseAssetZeroValue(posted)}
  BY <1>2 DEF PostDue
<1>6. S \in SUBSET board /\ \A l \in S : l.type = "depreciate"
  BY DEF DueIn, Unposted, Depreciations
<1> HIDE DEF S
<1>7. ProperLines(posted) /\ Total(posted) = Total(board) /\ Removals(posted) = Removals(board)
  BY <1>3, <1>4, <1>6, PostedIs
<1> HIDE DEF posted
<1>8. /\ asset' \in AssetRow /\ SameFigures(asset, asset') /\ asset'.state # "removed"
      /\ asset'.state = "close" => ValueResidual(asset', posted) = 0
  BY <1>1, <1>2, <1>5, Closing
<1>9. /\ ProperLines(lines') /\ removal' \subseteq BOOLEAN /\ trigger' \in BOOLEAN
      /\ computed' \in BOOLEAN /\ undone' \in BOOLEAN
      /\ Removals(lines') = Removals(lines)
      /\ asset'.state = "close" => ValueResidual(asset', lines') = 0
  BY <1>1, <1>2, <1>4, <1>5, <1>7, <1>8 DEF AssetTyped
<1>10. \/ computed' = computed /\ Total(lines') = Total(lines)
       \/ ~late => asset.state # "removed" /\ Total(lines') = Depreciable(asset)
  <2>1. CASE trigger /\ ValueResidual(asset, lines) # 0
    BY <1>2, <1>4, <1>5, <1>7, <2>1
  <2>2. CASE ~(trigger /\ ValueResidual(asset, lines) # 0)
    BY <1>1, <1>2, <1>4, <1>5, <1>7, <2>2 DEF AssetTyped
  <2> QED BY <2>1, <2>2
<1> QED BY <1>2, <1>8, <1>9, <1>10, Step_Keeps

-----------------------------------------------------------------------------
(* Assets: the removal *)

LEMMA ResidualTyped ==
  ASSUME NEW a, ProperAsset(a), NEW ls, ProperLines(ls)
  PROVE  ValueResidual(a, ls) \in Int /\ DepreciationBase(a) \in Int /\ Total(Counted(ls)) \in Int
         /\ Total(ls) \in Int
<1> DEFINE C == Counted(ls)
<1>1. IsFiniteSet(ls) /\ \A l \in ls : l.amount \in Int
  BY Parts DEF ProperLines
<1>2. C \in SUBSET ls
  BY DEF Counted
<1> HIDE DEF C
<1>3. Total(C) \in Int /\ Total(ls) \in Int
  BY <1>1, <1>2, TotalSplit
<1>4. DepreciationBase(a) \in Int
  BY AmountsOfAsset
<1>5. ValueResidual(a, ls) = DepreciationBase(a) - Total(C)
  BY ResidualIs DEF C
<1> QED BY <1>3, <1>4, <1>5 DEF C

\* The rest is written off where the lines and the rest are the base.
LEMMA WriteOff_Keeps ==
  ASSUME AssetInv, NEW early, NEW day \in Nat, day >= 1, NEW cut, WriteOff(early, day, cut),
         ProperLines(cut), Removals(lines) = {} => Removals(cut) = {},
         computed /\ ~late' =>
           Total(cut) + ValueResidual(asset, cut) = DepreciationBase(asset)
  PROVE  AssetInv'
<1> DEFINE nth == Another(cut, "remove", day)
           amount == ValueResidual(asset, cut)
           r == [type |-> "remove", date |-> day, nth |-> nth, amount |-> amount,
                 move |-> "draft", init |-> FALSE]
<1>1. AssetTyped /\ RemovedOnce
  BY DEF AssetInv
<1>2. /\ lines' = cut \cup {r} /\ asset' = [asset EXCEPT !.state = "removed"]
      /\ removal' = removal \ {early}
      /\ late' = (late \/ asset.state \notin {"open", "close"} \/ early # Early(asset, lines))
      /\ trigger' = trigger /\ computed' = computed /\ undone' = undone
  BY DEF WriteOff
<1>3. asset \in AssetRow /\ ProperAsset(asset)
  BY <1>1, AssetIsProper DEF AssetTyped
<1>4. asset' \in AssetRow /\ SameFigures(asset, asset') /\ asset'.state = "removed"
  <2>1. "removed" \in States
    BY DEF States
  <2> QED BY <1>2, <1>3, <2>1, InState
<1>5. amount \in Int /\ DepreciationBase(asset) \in Int
  BY <1>3, ResidualTyped
<1>6. IsFiniteSet(cut) /\ \A l \in cut : l \in AssetLine
  BY DEF ProperLines
<1>7. nth \in Nat /\ nth # 0 /\ \A l \in cut : l.type = "remove" /\ l.date = day => l.nth # nth
  BY <1>6, AnotherIsNew
<1> HIDE DEF nth, amount
<1>8. /\ r \in AssetLine /\ r.type = "remove" /\ r.date = day /\ r.nth = nth /\ r.amount = amount
  <2>1. nth \in Nat \ {0}
    BY <1>7
  <2> QED BY <1>5, <2>1 DEF AssetLine
<1> HIDE DEF r
<1>9. ProperLines({r})
  <2>1. IsFiniteSet({r})
    BY FS_Singleton
  <2>2. \A l \in {r} : l \in AssetLine /\ l.date >= 1
    BY <1>8
  <2> QED BY <2>1, <2>2 DEF ProperLines
<1>10. ProperLines(cut \cup {r}) /\ Total(cut \cup {r}) = Total(cut) + amount
  <2> DEFINE T == {r}
  <2>1. \A l \in cut, m \in T : ~SameKey(l, m)
    BY <1>7, <1>8 DEF SameKey
  <2>2. Total(T) = amount
    BY <1>5, <1>8, TotalOfOne
  <2>3. ProperLines(T)
    BY <1>9
  <2> HIDE DEF T
  <2>4. ProperLines(cut \cup T) /\ Total(cut \cup T) = Total(cut) + Total(T)
    BY <2>1, <2>3, LinesTogether
  <2> QED BY <2>2, <2>4 DEF T
<1>11. ~late' => ~late /\ asset.state \in {"open", "close"}
  BY <1>2
<1>12. AssetTyped'
  <2>1. asset'.salvage < asset'.purchase
    BY <1>1, <1>4 DEF AssetTyped, SameFigures
  <2>2. removal' \subseteq BOOLEAN /\ trigger' \in BOOLEAN /\ computed' \in BOOLEAN
        /\ undone' \in BOOLEAN /\ late' \in BOOLEAN
    BY <1>1, <1>2 DEF AssetTyped
  <2> QED BY <1>4, <2>1, <2>2 DEF AssetTyped
<1>13. RemovedOnce'
  <2>1. ASSUME ~late' PROVE Single(Removals(lines'))
    <3>1. Removals(cut) = {}
      BY <1>1, <1>11, <2>1 DEF RemovedOnce
    <3>2. Removals(cut \cup {r}) = {r}
      BY <1>8, <3>1 DEF Removals
    <3> QED BY <1>2, <3>2 DEF Single
  <2> QED BY <1>4, <2>1 DEF RemovedOnce
<1>14. BoardAddsUp'
  <2>1. DepreciationBase(asset') = DepreciationBase(asset)
    BY <1>4, FiguresSame
  <2> QED BY <1>2, <1>4, <1>10, <2>1 DEF BoardAddsUp, amount
<1>15. ClosedIsDepreciated'
  BY <1>4 DEF ClosedIsDepreciated
<1>16. ProperLines(lines)'
  BY <1>2, <1>10
<1> QED BY <1>12, <1>13, <1>14, <1>15, <1>16 DEF AssetInv

LEMMA RemoveDepreciated_Keeps ==
  ASSUME NEW day \in Nat, day >= 1, AssetInv, RemoveDepreciated(day)
  PROVE  AssetInv'
<1> DEFINE rest == IF UpToSalvage(asset) THEN asset.salvage ELSE 0
           base == DepreciationBase(asset)
<1>1. AssetTyped /\ ProperLines(lines) /\ BoardAddsUp
  BY DEF AssetInv
<1>2. WriteOff(FALSE, day, lines)
  BY DEF RemoveDepreciated
<1>3. late' = (late \/ asset.state \notin {"open", "close"} \/ FALSE # Early(asset, lines))
  BY <1>2 DEF WriteOff
<1>4. rest \in Int /\ base \in Int
  <2>1. asset \in AssetRow /\ ProperAsset(asset)
    BY <1>1, AssetIsProper DEF AssetTyped
  <2>2. base \in Int
    BY <2>1, AmountsOfAsset
  <2>3. rest \in Int
    BY <2>1 DEF ProperAsset
  <2> QED BY <2>2, <2>3
<1>5. ASSUME computed, ~late' PROVE Total(lines) + ValueResidual(asset, lines) = base
  <2>1. ~late /\ asset.state # "removed" /\ ~Early(asset, lines)
    BY <1>3, <1>5 DEF Early
  <2>2. ValueResidual(asset, lines) = rest
    BY <2>1 DEF Early
  <2>3. Total(lines) = base - rest
    BY <1>1, <1>5, <2>1 DEF BoardAddsUp, Depreciable
  <2> HIDE DEF rest, base
  <2> QED BY <1>4, <2>2, <2>3
<1> QED BY <1>1, <1>2, <1>5, WriteOff_Keeps

\* The amount of a line that is cut
LEMMA CutAmountTyped ==
  ASSUME NEW line, line.amount \in Int, line.date \in Int, NEW since \in Int, NEW day \in Int,
         line.date # since
  PROVE  CutAmount(line, since, day) \in Int
<1> DEFINE n == (day - 1 - since) * line.amount
           d == line.date - since
           size(x) == Max({x, -x})
           quotient == RoundedQuotient(size(n), size(d))
<1>1. n \in Int /\ d \in Int /\ d # 0
  <2> DEFINE x == day - 1 - since
             y == line.amount
  <2>1. x \in Int /\ y \in Int /\ n = x * y
    OBVIOUS
  <2>2. d \in Int /\ d # 0
    OBVIOUS
  <2> HIDE DEF x, y, n, d
  <2> QED BY <2>1, <2>2, ProductTyped
<1>2. CutAmount(line, since, day) = IF (n < 0) = (d < 0) THEN quotient ELSE -quotient
  BY DEF CutAmount
<1> HIDE DEF n, d
<1>3. ASSUME NEW x \in Int PROVE size(x) \in Int /\ size(x) >= 0 /\ (x # 0 => size(x) # 0)
  <2>1. -x \in Int
    OBVIOUS
  <2>2. size(x) = IF x >= -x THEN x ELSE -x
    BY <2>1, MaxOfTwo
  <2> HIDE DEF size
  <2> QED BY <2>2
<1>4. size(n) \in Int /\ size(d) \in Nat /\ size(d) # 0
  BY <1>1, <1>3
<1> HIDE DEF size
<1>5. quotient \in Int
  BY <1>4, RoundedTyped
<1> HIDE DEF quotient
<1> QED BY <1>2, <1>5

\* The date before a line
LEMMA SinceTyped ==
  ASSUME asset \in AssetRow, NEW board, ProperLines(board), NEW line
  PROVE  Since(board, line) \in Int
<1> DEFINE D == Depreciations(board)
           earlier == {d \in Dates(D) : d < line.date}
<1>1. IsFiniteSet(D) /\ \A l \in D : l.date \in Nat
  BY Parts
<1>2. IsFiniteSet(Dates(D)) /\ Dates(D) \subseteq Int
  BY <1>1, DatesOf
<1>3. earlier \in SUBSET Dates(D) /\ Since(board, line) = IF earlier = {} THEN DateStart(asset) ELSE Max(earlier)
  BY DEF Since
<1> HIDE DEF earlier, D
<1>4. CASE earlier = {}
  <2>1. asset.start \in Int
    <3>1. asset.start \in 0 .. PeriodsPerYear - 1
      BY AssetFields
    <3> QED BY <3>1, DepreciationAssumption
  <2>2. DateStart(asset) \in Int
    BY <2>1 DEF DateStart, Day
  <2> QED BY <1>3, <1>4, <2>2
<1>5. CASE earlier # {}
  <2>1. IsFiniteSet(earlier) /\ earlier \subseteq Int
    BY <1>2, <1>3, FS_Subset
  <2>2. Max(earlier) \in earlier
    BY <1>5, <2>1, FiniteMax
  <2> QED BY <1>3, <1>5, <2>1, <2>2
<1> QED BY <1>4, <1>5

\* What an early removal leaves of a board are lines that count.
LEMMA CutOffIs ==
  ASSUME asset \in AssetRow, NEW board, ProperLines(board), NEW first \in Unposted(board),
         NEW day \in Nat, NEW amount \in Int,
         CutOff(board, first, day, amount) # board \ Unposted(board) => Cuttable(board, day)
  PROVE  LET cut == CutOff(board, first, day, amount)
         IN  /\ ProperLines(cut) /\ Removals(cut) = Removals(board)
             /\ Removals(board) = {} => Counted(cut) = cut
<1> DEFINE kept == board \ Unposted(board)
           nth == Another(kept, "depreciate", day - 1)
           c == [first EXCEPT !.date = day - 1, !.amount = amount, !.nth = nth]
           T == {c}
           posted == Posted(kept \cup T, T)
           cut == CutOff(board, first, day, amount)
<1>1. cut = IF amount = 0 THEN kept ELSE posted
  BY DEF CutOff
<1>2. first \in board /\ first \in AssetLine /\ first.type = "depreciate"
      /\ Unposted(board) = {l \in board : l.type = "depreciate" /\ l.move = "none" /\ ~l.init}
  BY Parts
<1>3. ProperLines(kept)
  <2>1. kept \in SUBSET board
    OBVIOUS
  <2> HIDE DEF kept
  <2> QED BY <2>1, SomeOfThem
<1>4. Removals(kept) = Removals(board)
  BY <1>2 DEF Removals
<1>5. ASSUME Removals(board) = {}, NEW l \in kept PROVE l.move # "none" \/ l.init
  <2>1. l \in board /\ l.type \in {"depreciate", "remove"}
    BY <1>3, LineFields DEF ProperLines
  <2> QED BY <1>2, <1>5, <2>1 DEF Removals
<1>6. IsFiniteSet(kept) /\ \A l \in kept : l \in AssetLine
  BY <1>3 DEF ProperLines
<1> HIDE DEF kept
<1>7. nth \in Nat /\ nth # 0
      /\ \A l \in kept : l.type = "depreciate" /\ l.date = day - 1 => l.nth # nth
  BY <1>6, AnotherIsNew
<1> HIDE DEF nth, posted, cut
<1>8. CASE amount = 0
  <2>1. cut = kept
    BY <1>1, <1>8
  <2>2. Removals(board) = {} => Counted(kept) = kept
    BY <1>5 DEF Counted
  <2> QED BY <1>3, <1>4, <2>1, <2>2 DEF cut
<1>9. CASE amount # 0
  <2>1. cut = posted
    BY <1>1, <1>9
  <2>2. c.type = "depreciate" /\ c.date = day - 1 /\ c.nth = nth
    BY <1>2 DEF AssetLine
  <2> DEFINE p == [c EXCEPT !.move = IF asset.autopost THEN "posted" ELSE "draft"]
  <2>3. p.type = "depreciate" /\ p.date = day - 1 /\ p.nth = nth /\ p.move # "none"
    BY <1>2 DEF AssetLine
  <2>4. posted = ((kept \cup T) \ T) \cup {p}
    BY DEF posted, Posted
  <2> HIDE DEF p
  <2>5. \A l \in posted : l.move # "none" \/ l \in kept
    BY <2>3, <2>4
  <2>6. ASSUME posted = kept PROVE FALSE
    <3>1. p \in posted
      BY <2>4
    <3> QED BY <1>7, <2>6, <2>3, <3>1
  <2>7. day - 1 \in Nat /\ day - 1 >= 1
    <3>1. Cuttable(board, day)
      BY <2>1, <2>6 DEF cut, kept
    <3>2. DateStart(asset) < day
      BY <3>1 DEF Cuttable
    <3>3. asset.start \in 0 .. PeriodsPerYear - 1
      BY AssetFields
    <3>4. asset.start \in Nat
      BY <3>3, DepreciationAssumption
    <3> QED BY <3>2, <3>4 DEF DateStart, Day
  <2>8. c \in AssetLine
    <3>1. day - 1 \in Nat /\ nth \in Nat \ {0}
      BY <1>7, <2>7
    <3> QED BY <1>2, <3>1 DEF AssetLine
  <2> HIDE DEF c
  <2>9. ProperLines(T) /\ \A l \in kept, m \in T : ~SameKey(l, m)
    <3>1. IsFiniteSet(T)
      BY FS_Singleton
    <3>2. \A l \in T : l \in AssetLine /\ l.date >= 1
      BY <2>2, <2>7, <2>8
    <3>3. ProperLines(T)
      BY <3>1, <3>2 DEF ProperLines
    <3>4. \A l \in kept, m \in T : ~SameKey(l, m)
      BY <1>7, <2>2 DEF SameKey
    <3> QED BY <3>3, <3>4
  <2>10. (\A l \in T : l.type = "depreciate") /\ T \in SUBSET (kept \cup T)
    BY <2>2
  <2> HIDE DEF T
  <2>11. ProperLines(kept \cup T)
    BY <1>3, <2>9, LinesTogether
  <2>12. ProperLines(posted) /\ Removals(posted) = Removals(kept \cup T)
    BY <2>10, <2>11, PostedIs DEF posted
  <2>13. Removals(kept \cup T) = Removals(kept)
    BY <2>10 DEF Removals
  <2>14. Removals(board) = {} => Counted(posted) = posted
    BY <1>5, <2>5 DEF Counted
  <2> QED BY <1>4, <2>1, <2>12, <2>13, <2>14 DEF cut
<1> QED BY <1>8, <1>9

-----------------------------------------------------------------------------
LEMMA RemoveEarly_Keeps ==
  ASSUME AssetInv, NEW board, ProperLines(board), Removals(board) = Removals(lines),
         NEW day \in Nat, day >= 1, RemoveEarly(board, day)
  PROVE  AssetInv'
<1>1. AssetTyped /\ RemovedOnce
  BY DEF AssetInv
<1>2. PICK first \in Unposted(board) :
        /\ first.date # Since(board, first)
        /\ \E cut \in {EarlyRemoval(board, first, day)} :
             /\ cut # board \ Unposted(board) => Cuttable(board, day)
             /\ WriteOff(TRUE, day, cut)
  BY DEF RemoveEarly
<1> DEFINE since == Since(board, first)
           amount == CutAmount(first, since, day)
           cut == CutOff(board, first, day, amount)
<1>3. first.date # since /\ (cut # board \ Unposted(board) => Cuttable(board, day))
      /\ WriteOff(TRUE, day, cut)
  BY <1>2 DEF EarlyRemoval
<1>4. asset \in AssetRow /\ ProperAsset(asset)
  BY <1>1, AssetIsProper DEF AssetTyped
<1>5. since \in Int
  BY <1>4, SinceTyped
<1>6. amount \in Int
  <2>1. first \in board /\ first.amount \in Int /\ first.date \in Int
    BY Parts
  <2>2. day \in Int
    OBVIOUS
  <2> HIDE DEF since
  <2> QED BY <1>3, <1>5, <2>1, <2>2, CutAmountTyped
<1> HIDE DEF since, amount
<1>7. ProperLines(cut) /\ Removals(cut) = Removals(board)
      /\ (Removals(board) = {} => Counted(cut) = cut)
  BY <1>3, <1>4, <1>6, CutOffIs
<1> HIDE DEF cut
<1>8. ASSUME ~late' PROVE Total(cut) + ValueResidual(asset, cut) = DepreciationBase(asset)
  <2>1. ~late /\ asset.state # "removed"
    BY <1>3, <1>8 DEF WriteOff
  <2>2. Counted(cut) = cut
    BY <1>1, <1>7, <2>1 DEF RemovedOnce
  <2>3. ValueResidual(asset, cut) = DepreciationBase(asset) - Total(cut)
    BY <2>2, ResidualIs
  <2>4. DepreciationBase(asset) \in Int /\ Total(cut) \in Int
    BY <1>4, <1>7, ResidualTyped
  <2> QED BY <2>3, <2>4
<1>9. Removals(lines) = {} => Removals(cut) = {}
  BY <1>7
<1> QED BY <1>3, <1>7, <1>8, <1>9, WriteOff_Keeps

LEMMA Remove_Keeps ==
  ASSUME NEW early \in BOOLEAN, NEW day \in Nat, day >= 1, AssetInv, Remove(early, day)
  PROVE  AssetInv'
<1>1. AssetTyped /\ ProperLines(lines)
  BY DEF AssetInv
<1>2. CASE RemoveDepreciated(day)
  BY <1>2, RemoveDepreciated_Keeps
<1>3. CASE RemoveEarly(lines, day)
  BY <1>1, <1>3, RemoveEarly_Keeps
<1>4. CASE Computable(asset, lines) /\ RemoveEarly(Computed(asset, lines), day)
  <2> DEFINE board == Computed(asset, lines)
  <2>1. asset \in AssetRow /\ ProperAsset(asset)
    BY <1>1, AssetIsProper DEF AssetTyped
  <2>2. ProperLines(board) /\ Removals(board) = Removals(lines)
    BY <1>1, <1>4, <2>1, ComputedIs
  <2>3. RemoveEarly(board, day)
    BY <1>4
  <2> HIDE DEF board
  <2> QED BY <2>2, <2>3, RemoveEarly_Keeps
<1> QED BY <1>2, <1>3, <1>4 DEF Remove

LEMMA OpenRemoval_Keeps == AssetInv /\ OpenRemoval => AssetInv'
<1> SUFFICES ASSUME AssetInv, OpenRemoval PROVE AssetInv'
  OBVIOUS
<1>1. AssetTyped /\ ProperLines(lines) /\ ClosedIsDepreciated
  BY DEF AssetInv
<1>2. /\ removal' = removal \cup {Early(asset, lines)} /\ asset' = asset /\ lines' = lines
      /\ trigger' = trigger /\ computed' = computed /\ undone' = undone /\ late' = late
  BY DEF OpenRemoval
<1>3. asset' \in AssetRow /\ SameFigures(asset, asset')
      /\ (asset'.state = "close" /\ ~undone' => ValueResidual(asset', lines') = 0)
  BY <1>1, <1>2 DEF AssetTyped, SameFigures, ClosedIsDepreciated
<1>4. removal' \subseteq BOOLEAN
  <2>1. Early(asset, lines) \in BOOLEAN
    BY DEF Early
  <2> QED BY <1>1, <1>2, <2>1 DEF AssetTyped
<1>5. /\ ProperLines(lines') /\ trigger' \in BOOLEAN
      /\ computed' \in BOOLEAN /\ undone' \in BOOLEAN
  BY <1>1, <1>2 DEF AssetTyped
<1> QED BY <1>2, <1>3, <1>4, <1>5, Step_Keeps

LEMMA AssetNext_Keeps == AssetInv /\ [AssetNext]_assetVars => AssetInv'
<1> SUFFICES ASSUME AssetInv, [AssetNext]_assetVars PROVE AssetInv'
  OBVIOUS
<1>1. CASE BoardStep
  <2>1. CASE ComputeDepreciationBoard
    BY <2>1, Compute_Keeps
  <2>2. ASSUME NEW years \in 1 .. MaxYears, Modify(years) PROVE AssetInv'
    BY <2>2, Modify_Keeps
  <2>3. ASSUME NEW method \in Methods, NEW years \in 1 .. MaxYears, Edit(method, years)
        PROVE  AssetInv'
    BY <2>3, Edit_Keeps
  <2>4. ASSUME NEW l \in lines, NEW amount \in LineAmount, NEW init \in BOOLEAN,
               EditLine(l, amount, init)
        PROVE  AssetInv'
    BY <2>4, EditLine_Keeps
  <2> QED BY <1>1, <2>1, <2>2, <2>3, <2>4 DEF BoardStep
<1>2. CASE EntryStep
  <2>1. CASE Validate
    BY <2>1, Validate_Keeps
  <2>2. CASE SetToDraft
    BY <2>2, SetToDraft_Keeps
  <2>3. ASSUME NEW l \in lines, CreateMove(l) PROVE AssetInv'
    BY <2>3, CreateMove_Keeps
  <2>4. ASSUME NEW l \in lines, PostMove(l) PROVE AssetInv'
    BY <2>4, PostMove_Keeps
  <2>5. ASSUME NEW l \in lines, UnlinkMove(l) PROVE AssetInv'
    BY <2>5, UnlinkMove_Keeps
  <2>6. ASSUME NEW period, ComputeEntries(period) PROVE AssetInv'
    BY <2>6, ComputeEntries_Keeps
  <2>7. CASE FiscalYearChanges
    BY <2>7, FiscalYearChanges_Keeps
  <2> QED BY <1>2, <2>1, <2>2, <2>3, <2>4, <2>5, <2>6, <2>7 DEF EntryStep
<1>3. CASE RemovalStep
  <2>1. CASE OpenRemoval
    BY <2>1, OpenRemoval_Keeps
  <2>2. ASSUME NEW early \in BOOLEAN,
               NEW day \in 1 .. Day((MaxYears + 1) * PeriodsPerYear), Remove(early, day)
        PROVE  AssetInv'
    <3> DEFINE last == Day((MaxYears + 1) * PeriodsPerYear)
    <3>1. last \in Int
      <4>1. MaxYears + 1 \in Int /\ PeriodsPerYear \in Int
        BY AssetsAssumption, DepreciationAssumption
      <4>2. (MaxYears + 1) * PeriodsPerYear \in Int
        BY <4>1, ProductTyped
      <4> QED BY <4>2 DEF Day
    <3>2. day \in 1 .. last
      OBVIOUS
    <3> HIDE DEF last
    <3>3. day \in Nat /\ day >= 1
      BY <3>1, <3>2
    <3> QED BY <2>2, <3>3, Remove_Keeps
  <2> QED BY <1>3, <2>1, <2>2 DEF RemovalStep
<1>4. CASE UNCHANGED assetVars
  <2>1. /\ asset' = asset /\ lines' = lines /\ removal' = removal /\ trigger' = trigger
        /\ computed' = computed /\ undone' = undone /\ late' = late
    BY <1>4 DEF assetVars
  <2> QED BY <2>1 DEF AssetInv, AssetTyped, RemovedOnce, BoardAddsUp, ClosedIsDepreciated
<1> QED BY <1>1, <1>2, <1>3, <1>4 DEF AssetNext

LEMMA AssetSpec_Inv == AssetSpec => []AssetInv
<1> QED BY AssetInit_Inv, AssetNext_Keeps, PTL DEF AssetSpec

\* The rows of the asset, its lines and the wizards keep their types.
THEOREM AssetTypeCorrect == AssetSpec => []AssetTypeOK
<1>1. AssetInv => AssetTypeOK
  <2> SUFFICES ASSUME AssetInv PROVE AssetTypeOK
    OBVIOUS
  <2>1. AssetTyped /\ ProperLines(lines)
    BY DEF AssetInv
  <2>2. IsFiniteSet(lines) /\ \A l \in lines : l \in AssetLine
    BY <2>1 DEF ProperLines
  <2>3. {trigger, computed, undone, late} \subseteq BOOLEAN
    BY <2>1 DEF AssetTyped
  <2> QED BY <2>1, <2>2, <2>3 DEF AssetTypeOK, AssetTyped
<1> QED BY <1>1, AssetSpec_Inv, PTL

\* A board that compute_depreciation_board computed adds up to what the asset is to
\* depreciate, and with the line of the removal to its base, for every method,
\* duration, amount and number of periods, and for every order of the entries,
\* edits, cancellations and removals.
THEOREM BoardAddsUpAlways == AssetSpec => []BoardAddsUp
<1>1. AssetInv => BoardAddsUp
  BY DEF AssetInv
<1> QED BY <1>1, AssetSpec_Inv, PTL

\* An asset is closed by validate and by _set_close_asset_zero_value only when nothing
\* is left to depreciate, and it does not stay closed when an entry is deleted.
THEOREM ClosedIsDepreciatedAlways == AssetSpec => []ClosedIsDepreciated
<1>1. AssetInv => ClosedIsDepreciated
  BY DEF AssetInv
<1> QED BY <1>1, AssetSpec_Inv, PTL

=============================================================================

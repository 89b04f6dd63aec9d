---------------------------- MODULE BankPayments ----------------------------
(***************************************************************************)
(* Bank payments (account_bank_payment).  Posted vouchers leave lines in   *)
(* transit; a bank payment collects such lines, and when it is validated   *)
(* posts a move that debits each line and reconciles it with its debit.    *)
(* Canceling it undoes that: the move is deleted, or, with                 *)
(* account_cancel_reversal installed, reversed.                            *)
(*                                                                         *)
(* A form offers the buttons of the state and lists the lines in transit   *)
(* as they were when it was opened, and the methods it calls look at       *)
(* neither: a form is kept here with what it shows.  The client refreshes  *)
(* a form after each call.  A method is one transaction.  Reconciling      *)
(* lines some of which are reconciled, or which do not balance, is refused *)
(* by the accounting (external) and undoes the transaction.                *)
(***************************************************************************)
EXTENDS Naturals, FiniteSets

CONSTANTS
  Payment, Line,
  NoPayment,
  FormBound          \* at most that many forms are open

ASSUME BankPaymentsAssumption ==
  /\ NoPayment \notin Payment
  /\ "void" \notin Payment
  /\ NoPayment # "void"
  /\ FormBound \in Nat

VARIABLES
  reversal,   \* is account_cancel_reversal installed?
  voucher,    \* the state of the voucher of each line
  lineOf,     \* bank_payment_id of the lines
  reconciled, \* what a line is reconciled with: the move of a payment, or a void line
  state,      \* the state of each payment
  move,       \* what became of its move
  debits,     \* the lines its move debits
  form,       \* the open forms, each with the state and the lines it shows
  outdated    \* history: payments an out-of-date form put back to draft, or
              \* changed the lines of when they were no longer draft

bankVars ==
  <<reversal, voucher, lineOf, reconciled, state, move, debits, form, outdated>>

Form == [payment : Payment, shows : {"draft", "done", "cancel"}, lists : SUBSET Line]

BankTypeOK ==
  /\ reversal \in BOOLEAN
  /\ voucher \in [Line -> {"draft", "posted", "canceled"}]
  /\ lineOf \in [Line -> Payment \cup {NoPayment}]
  /\ reconciled \in [Line -> Payment \cup {NoPayment, "void"}]
  /\ state \in [Payment -> {"none", "draft", "done", "cancel", "deleted"}]
  /\ move \in [Payment -> {"none", "live", "reversed"}]
  /\ debits \in [Payment -> SUBSET Line]
  /\ form \subseteq Form
  /\ outdated \subseteq Payment

BankInit ==
  /\ reversal \in BOOLEAN
  /\ voucher = [l \in Line |-> "draft"]
  /\ lineOf = [l \in Line |-> NoPayment]
  /\ reconciled = [l \in Line |-> NoPayment]
  /\ state = [p \in Payment |-> "none"]
  /\ move = [p \in Payment |-> "none"]
  /\ debits = [p \in Payment |-> {}]
  /\ form = {}
  /\ outdated = {}

-----------------------------------------------------------------------------
Lines(p) == {l \in Line : lineOf[l] = p}

\* A canceled voucher leaves its lines only when it was reversed.
Exists(l) == voucher[l] = "posted" \/ (voucher[l] = "canceled" /\ reversal)

\* The lines one may choose in the form of a payment
InTransit == {l \in Line : Exists(l) /\ reconciled[l] = NoPayment}

-----------------------------------------------------------------------------
(* Vouchers *)

\* proforma_voucher
ProformaVoucher(l) ==
  /\ voucher[l] = "draft"
  /\ voucher' = [voucher EXCEPT ![l] = "posted"]
  /\ UNCHANGED <<reversal, lineOf, reconciled, state, move, debits, form, outdated>>

\* The cancellation of a voucher: voucher_move_cancel_hook, which reverses its
\* move, or the accounting, which deletes it
VoucherMoveCancel(l) ==
  /\ voucher[l] = "posted"
  /\ voucher' = [voucher EXCEPT ![l] = "canceled"]
  /\ reconciled' = [reconciled EXCEPT ![l] = IF reversal THEN "void" ELSE NoPayment]
  /\ lineOf' = IF reversal THEN lineOf ELSE [lineOf EXCEPT ![l] = NoPayment]
  /\ UNCHANGED <<reversal, state, move, debits, form, outdated>>

-----------------------------------------------------------------------------
(* Payments *)

\* _create_bank_payment, for the lines of some moves which no payment has
CreateBankPayment(p, S) ==
  /\ state[p] = "none"
  /\ S \subseteq {l \in InTransit : lineOf[l] = NoPayment}
  /\ state' = [state EXCEPT ![p] = "draft"]
  /\ lineOf' = [l \in Line |-> IF l \in S THEN p ELSE lineOf[l]]
  /\ UNCHANGED <<reversal, voucher, reconciled, move, debits, form, outdated>>

OpenForm(p) ==
  /\ state[p] \in {"draft", "done", "cancel"}
  /\ Cardinality(form) < FormBound
  /\ form' = form \cup {[payment |-> p, shows |-> state[p], lists |-> InTransit]}
  /\ form' # form
  /\ UNCHANGED <<reversal, voucher, lineOf, reconciled, state, move, debits, outdated>>

\* A method is called from form f, of a payment that still exists.
Call(f, S) ==
  /\ f.shows \in S
  /\ state[f.payment] # "deleted"
  /\ form' = form \ {f}

\* A form of a draft is saved, with lines that may belong to other payments.
SaveLines(f, S) ==
  LET p == f.payment IN
  /\ Call(f, {"draft"})
  /\ S \subseteq {l \in f.lists \cup Lines(p) : Exists(l)}
  /\ S # Lines(p)
  /\ lineOf' = [l \in Line |-> IF l \in S THEN p
                               ELSE IF lineOf[l] = p THEN NoPayment ELSE lineOf[l]]
  /\ outdated' = IF state[p] = "draft" THEN outdated ELSE outdated \cup {p}
  /\ UNCHANGED <<reversal, voucher, reconciled, state, move, debits>>

\* As a bug would have it: the reconciliation takes whatever is not its own.
Overwrite(f) ==
  LET p == f.payment IN
  /\ Call(f, {"draft"})
  /\ Lines(p) # {}
  /\ state' = [state EXCEPT ![p] = "done"]
  /\ move' = [move EXCEPT ![p] = "live"]
  /\ debits' = [debits EXCEPT ![p] = Lines(p)]
  /\ reconciled' = [l \in Line |-> IF lineOf[l] = p THEN p ELSE reconciled[l]]
  /\ UNCHANGED <<reversal, voucher, lineOf, outdated>>

\* validate_bank_payment
ValidateBankPayment(f) ==
  LET p == f.payment IN
  /\ Call(f, {"draft"})
  /\ Lines(p) # {}
  /\ \A l \in Lines(p) : reconciled[l] = NoPayment
  /\ state' = [state EXCEPT ![p] = "done"]
  /\ move' = [move EXCEPT ![p] = "live"]
  /\ debits' = [debits EXCEPT ![p] = Lines(p)]
  /\ reconciled' = [l \in Line |-> IF lineOf[l] = p THEN p ELSE reconciled[l]]
  /\ UNCHANGED <<reversal, voucher, lineOf, outdated>>

\* As a bug would have it: the reconciliations are forgotten.
NothingUnlinked(p) == UNCHANGED reconciled

\* The lines of p which are reconciled, with anything, no longer are.
UnlinkReconciles(p) ==
  reconciled' = [l \in Line |-> IF lineOf[l] = p THEN NoPayment ELSE reconciled[l]]

\* _cancel_move: the move, and what reconciles it, is deleted.
CancelMove(p) ==
  /\ ~reversal
  /\ move[p] = "live"
  /\ reconciled' = [l \in Line |-> IF lineOf[l] = p \/ reconciled[l] = p
                                   THEN NoPayment ELSE reconciled[l]]
  /\ move' = [move EXCEPT ![p] = "none"]
  /\ debits' = [debits EXCEPT ![p] = {}]

\* _cancel_move of account_cancel_reversal.  All the debits of the move must be
\* free to be reconciled with its reverse: they are not the second time.
ReverseMove(p) ==
  /\ reversal
  /\ move[p] = "live"
  /\ \A l \in debits[p] : reconciled[l] = p => lineOf[l] = p
  /\ UnlinkReconciles(p)
  /\ move' = [move EXCEPT ![p] = "reversed"]
  /\ UNCHANGED debits

\* As a bug would have it: a payment that is done loses its state only.
CancelStateOnly(f) ==
  LET p == f.payment IN
  /\ Call(f, {"draft", "done"})
  /\ state' = [state EXCEPT ![p] = "cancel"]
  /\ UNCHANGED <<reversal, voucher, lineOf, reconciled, move, debits, outdated>>

\* cancel_bank_payment
CancelBankPayment(f) ==
  LET p == f.payment IN
  /\ Call(f, {"draft", "done"})
  /\ \/ CancelMove(p)
     \/ ReverseMove(p)
     \/ move[p] = "none" /\ UNCHANGED <<reconciled, move, debits>>
  /\ state' = [state EXCEPT ![p] = "cancel"]
  /\ UNCHANGED <<reversal, voucher, lineOf, outdated>>

\* backtodraft, a button that account_cancel_reversal hides
BackToDraft(f) ==
  LET p == f.payment IN
  /\ ~reversal
  /\ Call(f, {"cancel"})
  /\ state' = [state EXCEPT ![p] = "draft"]
  /\ outdated' = IF state[p] = "done" THEN outdated \cup {p} ELSE outdated
  /\ UNCHANGED <<reversal, voucher, lineOf, reconciled, move, debits>>

\* unlink
Unlink(p) ==
  /\ state[p] \in {"draft", "cancel"}
  /\ state' = [state EXCEPT ![p] = "deleted"]
  /\ lineOf' = [l \in Line |-> IF lineOf[l] = p THEN NoPayment ELSE lineOf[l]]
  /\ UNCHANGED <<reversal, voucher, reconciled, move, debits, form, outdated>>

VoucherStep ==
  \E l \in Line : ProformaVoucher(l) \/ VoucherMoveCancel(l)

PaymentStep ==
  \E p \in Payment :
    \/ \E S \in SUBSET Line : CreateBankPayment(p, S)
    \/ OpenForm(p)
    \/ Unlink(p)

FormStep ==
  \E f \in form :
    \/ \E S \in SUBSET Line : SaveLines(f, S)
    \/ ValidateBankPayment(f)
    \/ CancelBankPayment(f)
    \/ BackToDraft(f)

BankNext == VoucherStep \/ PaymentStep \/ FormStep

BankSpec == BankInit /\ [][BankNext]_bankVars

-----------------------------------------------------------------------------
(* Properties *)

\* No line in transit is paid by two bank payments: of the moves that debit it
\* at most one is neither deleted nor reversed, even if forms list lines that
\* are no longer in transit; unless an out-of-date form wrote what it may not.
PaidOnce ==
  outdated = {} =>
    \A l \in Line, p, q \in Payment :
      /\ move[p] = "live" /\ l \in debits[p]
      /\ move[q] = "live" /\ l \in debits[q]
      => p = q

\* A payment has a posted move exactly when it is done, and the lines that the
\* move debits are then reconciled with it, unless their voucher was canceled
\* since.  Payments which out-of-date forms wrote are an exception.
DoneIsPosted ==
  \A p \in Payment \ outdated :
    /\ state[p] = "done" <=> move[p] = "live"
    /\ move[p] = "live" /\ outdated = {} =>
         \A l \in debits[p] : voucher[l] = "posted" => reconciled[l] = p

\* When a payment stops being done, in whatever way but the out-of-date form's,
\* all its lines are in transit again in the same transaction.
CanceledFreesLines ==
  [][\A p \in Payment : state[p] = "done" /\ state'[p] # "done" /\ p \notin outdated' =>
       \A l \in Line : lineOf[l] = p => reconciled'[l] = NoPayment]_bankVars
=============================================================================

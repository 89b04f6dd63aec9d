-------------------------- MODULE Payments_proofs --------------------------
(***************************************************************************)
(* Proofs about the addons that pay, each for any documents, amounts and   *)
(* bounds.                                                                 *)
(*                                                                         *)
(* Bank payments: that a line is paid once needs to know with what it is   *)
(* reconciled.  A line that a posted move debits stays reconciled with     *)
(* that move, or was voided; so no other payment can be validated with it. *)
(* Canceling frees the lines of a payment whatever they are reconciled     *)
(* with, and therefore the lines of a posted payment must be among those   *)
(* that its move debits.                                                   *)
(*                                                                         *)
(* Undue VAT: each number below the next one of its register is that of    *)
(* one row, or withdrawn, not both; and each payment has the rows and the  *)
(* entries that its state and its setting call for.                        *)
(*                                                                         *)
(* Amounts of payments: what is written off is about what is withheld and  *)
(* retained, and that is a matter of rounding.  Each amount that a line    *)
(* shows is a part of its bill rounded to cents, so it is off by half a    *)
(* cent of what the part would be, and sums of such are off by half a cent *)
(* for each of their terms.                                                *)
(*                                                                         *)
(* Income tax: the registers are exact as long as nothing is posted again  *)
(* after it was canceled, or moved or edited then.  A mirror has the       *)
(* reversed income of a line and the tax that was shown, and is posted     *)
(* only if that is what the income adds to the tax.  Since the tax grows   *)
(* with the income, it can only be zero.  So the posted lines of a payment *)
(* that is not posted have no tax, their incomes cancel, and leaving them  *)
(* out changes no register.                                                *)
(*                                                                         *)
(* All business addons together: no addon touches the tables of another,   *)
(* so a step of them all is one of some addon or leaves it alone, and what *)
(* each promises on its own holds of them together.                        *)
(***************************************************************************)
EXTENDS MCBusiness, Invoices_proofs

-----------------------------------------------------------------------------
(* Bank payments: the inductive invariant *)

\* A payment has lines that exist.
LinesExist == \A l \in Line : lineOf[l] # NoPayment => Exists(l)

\* A payment that no out-of-date form wrote is done exactly when it has a move.
DoneLive == \A p \in Payment \ outdated : state[p] = "done" <=> move[p] = "live"

\* What a move debits is reconciled with it, or voided.
Held ==
  \A p \in Payment, l \in Line :
    move[p] = "live" /\ l \in debits[p] =>
      \/ reconciled[l] = p
      \/ voucher[l] = "canceled" /\ (reversal => reconciled[l] = "void")

\* The lines of a payment that has a move are debited by it.
Debited ==
  \A p \in Payment, l \in Line : move[p] = "live" /\ lineOf[l] = p => l \in debits[p]

BankInv ==
  /\ BankTypeOK
  /\ LinesExist
  /\ DoneLive
  /\ outdated = {} => Held /\ Debited
  /\ PaidOnce

-----------------------------------------------------------------------------
LEMMA BankConstants == NoPayment \notin Payment /\ "void" \notin Payment /\ NoPayment # "void"
BY BankPaymentsAssumption

LEMMA BankInitType == BankInit => BankTypeOK
BY DEF BankInit, BankTypeOK, Form

\* The type of what a step of a form may write
LEMMA BankFormType ==
  ASSUME BankTypeOK, NEW f \in form
  PROVE  f.payment \in Payment /\ f.lists \subseteq Line /\ form \ {f} \subseteq Form
BY DEF BankTypeOK, Form

\* The variables keep their types.
LEMMA BankStepType == ASSUME BankTypeOK, [BankNext]_bankVars PROVE BankTypeOK'
<1> USE BankConstants
<1>1. ASSUME NEW l \in Line, ProformaVoucher(l) \/ VoucherMoveCancel(l) PROVE BankTypeOK'
  BY <1>1 DEF BankTypeOK, ProformaVoucher, VoucherMoveCancel
<1>2. ASSUME NEW p \in Payment, NEW S \in SUBSET Line, CreateBankPayment(p, S)
      PROVE  BankTypeOK'
  BY <1>2 DEF BankTypeOK, CreateBankPayment
<1>3. ASSUME NEW p \in Payment, OpenForm(p) PROVE BankTypeOK'
  <2>1. [payment |-> p, shows |-> state[p], lists |-> InTransit] \in Form
    BY <1>3 DEF OpenForm, Form, InTransit
  <2>2. form' \subseteq Form
    BY <1>3, <2>1 DEF OpenForm, BankTypeOK
  <2> QED BY <1>3, <2>2 DEF BankTypeOK, OpenForm
<1>4. ASSUME NEW p \in Payment, Unlink(p) PROVE BankTypeOK'
  BY <1>4 DEF BankTypeOK, Unlink
<1>5. ASSUME NEW f \in form, NEW S \in SUBSET Line, SaveLines(f, S) PROVE BankTypeOK'
  BY <1>5, BankFormType DEF BankTypeOK, SaveLines, Call
<1>6. ASSUME NEW f \in form, ValidateBankPayment(f) PROVE BankTypeOK'
  BY <1>6, BankFormType DEF BankTypeOK, ValidateBankPayment, Call, Lines
<1>7. ASSUME NEW f \in form, CancelBankPayment(f) PROVE BankTypeOK'
  BY <1>7, BankFormType
     DEF BankTypeOK, CancelBankPayment, Call, CancelMove, ReverseMove, UnlinkReconciles
<1>8. ASSUME NEW f \in form, BackToDraft(f) PROVE BankTypeOK'
  BY <1>8, BankFormType DEF BankTypeOK, BackToDraft, Call
<1>9. CASE UNCHANGED bankVars
  BY <1>9 DEF BankTypeOK, bankVars
<1> QED
  BY <1>1, <1>2, <1>3, <1>4, <1>5, <1>6, <1>7, <1>8, <1>9
     DEF BankNext, VoucherStep, PaymentStep, FormStep

-----------------------------------------------------------------------------
LEMMA BankInitInv == BankInit => BankInv
BY BankInitType, BankConstants
   DEF BankInit, BankInv, LinesExist, DoneLive, Held, Debited, PaidOnce

\* The debits of the posted moves, when no line is debited anew
LEMMA BankDebitsKept ==
  ASSUME PaidOnce, outdated' = {} => outdated = {},
         \A p \in Payment : move'[p] = "live" => move[p] = "live" /\ debits'[p] = debits[p]
  PROVE  PaidOnce'
BY DEF PaidOnce

\* The steps about vouchers
LEMMA BankVoucherInv ==
  ASSUME BankInv, NEW l \in Line, ProformaVoucher(l) \/ VoucherMoveCancel(l), BankTypeOK'
  PROVE  BankInv'
<1> USE BankConstants
<1>1. LinesExist'
  BY DEF BankInv, BankTypeOK, LinesExist, Exists, ProformaVoucher, VoucherMoveCancel
<1>2. DoneLive'
  BY DEF BankInv, DoneLive, ProformaVoucher, VoucherMoveCancel
<1>3. ASSUME outdated' = {} PROVE Held'
  <2>1. CASE ProformaVoucher(l)
    BY <1>3, <2>1 DEF BankInv, BankTypeOK, Held, ProformaVoucher
  <2>2. CASE VoucherMoveCancel(l)
    BY <1>3, <2>2 DEF BankInv, BankTypeOK, Held, VoucherMoveCancel
  <2> QED BY <2>1, <2>2
<1>4. ASSUME outdated' = {} PROVE Debited'
  BY <1>4 DEF BankInv, BankTypeOK, Debited, ProformaVoucher, VoucherMoveCancel
<1>5. PaidOnce'
  BY DEF BankInv, PaidOnce, ProformaVoucher, VoucherMoveCancel
<1> QED BY <1>1, <1>2, <1>3, <1>4, <1>5 DEF BankInv

\* A payment is created, deleted, or opened in a form
LEMMA BankPaymentInv ==
  ASSUME BankInv, NEW p \in Payment, NEW S \in SUBSET Line,
         CreateBankPayment(p, S) \/ OpenForm(p) \/ Unlink(p), BankTypeOK'
  PROVE  BankInv'
<1> USE BankConstants
<1>1. LinesExist'
  BY DEF BankInv, BankTypeOK, LinesExist, Exists, InTransit, CreateBankPayment, OpenForm, Unlink
<1>2. DoneLive'
  BY DEF BankInv, BankTypeOK, DoneLive, CreateBankPayment, OpenForm, Unlink
<1>3. ASSUME outdated' = {} PROVE Held'
  BY <1>3 DEF BankInv, Held, CreateBankPayment, OpenForm, Unlink
<1>4. ASSUME outdated' = {} PROVE Debited'
  BY <1>4 DEF BankInv, BankTypeOK, Debited, DoneLive, CreateBankPayment, OpenForm, Unlink
<1>5. PaidOnce'
  BY DEF BankInv, PaidOnce, CreateBankPayment, OpenForm, Unlink
<1> QED BY <1>1, <1>2, <1>3, <1>4, <1>5 DEF BankInv

\* The lines of a payment that has a move do not change, but by an out-of-date form.
LEMMA BankSaveInv ==
  ASSUME BankInv, NEW f \in form, NEW S \in SUBSET Line, SaveLines(f, S), BankTypeOK'
  PROVE  BankInv'
<1> USE BankConstants
<1>0. f.payment \in Payment
  BY BankFormType DEF BankInv
<1>1. LinesExist'
  BY <1>0 DEF BankInv, BankTypeOK, LinesExist, Exists, SaveLines
<1>2. DoneLive'
  BY DEF BankInv, DoneLive, SaveLines
<1>3. ASSUME outdated' = {} PROVE Held'
  BY <1>3 DEF BankInv, Held, SaveLines
<1>4. ASSUME outdated' = {} PROVE Debited'
  BY <1>0, <1>4 DEF BankInv, BankTypeOK, Debited, DoneLive, SaveLines
<1>5. PaidOnce'
  BY <1>0 DEF BankInv, PaidOnce, SaveLines
<1> QED BY <1>1, <1>2, <1>3, <1>4, <1>5 DEF BankInv

\* Lines that can be reconciled are debited by no posted move.
LEMMA FreeLines ==
  ASSUME BankInv, outdated = {}, NEW q \in Payment,
         \A l \in Lines(q) : reconciled[l] = NoPayment,
         NEW p \in Payment, move[p] = "live"
  PROVE  debits[p] \cap Lines(q) = {}
BY BankConstants DEF BankInv, BankTypeOK, LinesExist, Exists, Held, Lines

LEMMA BankValidateInv ==
  ASSUME BankInv, NEW f \in form, ValidateBankPayment(f), BankTypeOK'
  PROVE  BankInv'
<1> USE BankConstants
<1> DEFINE q == f.payment
<1>0. q \in Payment
  BY BankFormType DEF BankInv
<1>1. LinesExist'
  BY DEF BankInv, LinesExist, Exists, ValidateBankPayment
<1>2. DoneLive'
  BY <1>0 DEF BankInv, BankTypeOK, DoneLive, ValidateBankPayment
<1>3. /\ move' = [move EXCEPT ![q] = "live"]
      /\ debits' = [debits EXCEPT ![q] = Lines(q)]
      /\ \A l \in Line : reconciled'[l] = IF lineOf[l] = q THEN q ELSE reconciled[l]
      /\ UNCHANGED <<reversal, voucher, lineOf, outdated>>
  BY DEF ValidateBankPayment
<1>4. ASSUME outdated = {}, NEW p \in Payment, p # q, move[p] = "live"
      PROVE  debits[p] \cap Lines(q) = {}
  BY <1>0, <1>4, FreeLines DEF ValidateBankPayment
<1>5. ASSUME outdated' = {} PROVE Held'
  <2> SUFFICES ASSUME NEW p \in Payment, NEW l \in Line, move'[p] = "live", l \in debits'[p]
               PROVE  \/ reconciled'[l] = p
                      \/ voucher'[l] = "canceled" /\ (reversal' => reconciled'[l] = "void")
    BY DEF Held
  <2>1. CASE p = q
    BY <1>0, <1>3, <2>1 DEF BankInv, BankTypeOK, Lines
  <2>2. CASE p # q
    <3>1. move[p] = "live" /\ l \in debits[p]
      BY <1>0, <1>3, <2>2 DEF BankInv, BankTypeOK
    <3>2. lineOf[l] # q
      BY <1>3, <1>4, <1>5, <2>2, <3>1 DEF Lines
    <3> QED BY <1>3, <1>5, <3>1, <3>2 DEF BankInv, Held
  <2> QED BY <2>1, <2>2
<1>6. ASSUME outdated' = {} PROVE Debited'
  BY <1>0, <1>3, <1>6 DEF BankInv, BankTypeOK, Debited, Lines
<1>7. ASSUME outdated' = {} PROVE PaidOnce'
  BY <1>0, <1>3, <1>4, <1>7 DEF BankInv, BankTypeOK, PaidOnce
<1> QED BY <1>1, <1>2, <1>5, <1>6, <1>7 DEF BankInv, PaidOnce

\* Canceling a payment frees no line of another one's move.
LEMMA BankCancelInv ==
  ASSUME BankInv, NEW f \in form, CancelBankPayment(f), BankTypeOK'
  PROVE  BankInv'
<1> USE BankConstants
<1> DEFINE q == f.payment
<1>0. q \in Payment /\ UNCHANGED <<reversal, voucher, lineOf, outdated>>
  BY BankFormType DEF BankInv, CancelBankPayment
<1>1. LinesExist'
  BY <1>0 DEF BankInv, LinesExist, Exists
<1>2. /\ move'[q] # "live"
      /\ \A p \in Payment : p # q => move'[p] = move[p] /\ debits'[p] = debits[p]
  BY <1>0 DEF BankInv, BankTypeOK, CancelBankPayment, CancelMove, ReverseMove
<1>3. DoneLive'
  BY <1>0, <1>2 DEF BankInv, BankTypeOK, DoneLive, CancelBankPayment
<1>4. ASSUME NEW l \in Line, reconciled'[l] # reconciled[l]
      PROVE  move[q] = "live" /\ (lineOf[l] = q \/ (~reversal /\ reconciled[l] = q))
  BY <1>4 DEF BankInv, BankTypeOK, CancelBankPayment, CancelMove, ReverseMove, UnlinkReconciles
<1>5. ASSUME outdated' = {} PROVE Held'
  <2> SUFFICES ASSUME NEW p \in Payment, NEW l \in Line, move'[p] = "live", l \in debits'[p]
               PROVE  \/ reconciled'[l] = p
                      \/ voucher'[l] = "canceled" /\ (reversal' => reconciled'[l] = "void")
    BY DEF Held
  <2>1. p # q /\ move[p] = "live" /\ l \in debits[p]
    BY <1>2
  <2>2. \/ reconciled[l] = p
        \/ voucher[l] = "canceled" /\ (reversal => reconciled[l] = "void")
    BY <1>0, <1>5, <2>1 DEF BankInv, Held
  <2>3. CASE reconciled'[l] = reconciled[l]
    BY <1>0, <2>2, <2>3
  <2>4. CASE reconciled'[l] # reconciled[l]
    <3>1. move[q] = "live" /\ (lineOf[l] = q \/ (~reversal /\ reconciled[l] = q))
      BY <1>4, <2>4
    <3>2. lineOf[l] # q
      BY <1>0, <1>5, <2>1, <3>1 DEF BankInv, Debited, PaidOnce
    <3> QED BY <1>0, <2>1, <2>2, <3>1, <3>2
  <2> QED BY <2>3, <2>4
<1>6. ASSUME outdated' = {} PROVE Debited'
  BY <1>0, <1>2, <1>6 DEF BankInv, Debited
<1>7. PaidOnce'
  BY <1>0, <1>2, BankDebitsKept DEF BankInv
<1> QED BY <1>1, <1>3, <1>5, <1>6, <1>7 DEF BankInv

LEMMA BankBackToDraftInv ==
  ASSUME BankInv, NEW f \in form, BackToDraft(f), BankTypeOK'
  PROVE  BankInv'
<1>0. f.payment \in Payment
  BY BankFormType DEF BankInv
<1>1. LinesExist'
  BY DEF BankInv, LinesExist, Exists, BackToDraft
<1>2. DoneLive'
  BY <1>0 DEF BankInv, BankTypeOK, DoneLive, BackToDraft
<1>3. ASSUME outdated' = {} PROVE Held' /\ Debited'
  BY <1>0, <1>3 DEF BankInv, Held, Debited, BackToDraft
<1>4. PaidOnce'
  BY <1>0 DEF BankInv, PaidOnce, BackToDraft
<1> QED BY <1>1, <1>2, <1>3, <1>4 DEF BankInv

\* A step preserves the invariant.
LEMMA BankStepInv == ASSUME BankInv, [BankNext]_bankVars PROVE BankInv'
<1>1. BankTypeOK'
  BY BankStepType DEF BankInv
<1>2. CASE UNCHANGED bankVars
  BY <1>2 DEF BankInv, BankTypeOK, LinesExist, Exists, DoneLive, Held, Debited, PaidOnce, bankVars
<1>3. CASE VoucherStep
  BY <1>1, <1>3, BankVoucherInv DEF VoucherStep
<1>4. CASE PaymentStep
  BY <1>1, <1>4, BankPaymentInv DEF PaymentStep
<1>5. CASE FormStep
  BY <1>1, <1>5, BankSaveInv, BankValidateInv, BankCancelInv, BankBackToDraftInv DEF FormStep
<1> QED BY <1>2, <1>3, <1>4, <1>5 DEF BankNext

-----------------------------------------------------------------------------
(* Bank payments: the theorems *)

\* The invariant of the bank payments
THEOREM BankInvHolds == BankSpec => []BankInv
BY BankInitInv, BankStepInv, PTL DEF BankSpec

\* The variables of the bank payments keep their types.
THEOREM BankTypeCorrect == BankSpec => []BankTypeOK
<1>1. BankInv => BankTypeOK
  BY DEF BankInv
<1> QED BY <1>1, BankInvHolds, PTL

\* A line in transit is paid by one bank payment at most (PaidOnce).
THEOREM PaidOnceHolds == BankSpec => []PaidOnce
<1>1. BankInv => PaidOnce
  BY DEF BankInv
<1> QED BY <1>1, BankInvHolds, PTL

\* A payment is done exactly when it has a posted move, with which what it debits
\* is reconciled (DoneIsPosted).
THEOREM DoneIsPostedHolds == BankSpec => []DoneIsPosted
<1>1. BankInv => DoneIsPosted
  BY DEF BankInv, DoneIsPosted, DoneLive, Held, BankTypeOK
<1> QED BY <1>1, BankInvHolds, PTL

\* A payment that stops being done frees its lines (CanceledFreesLines).
THEOREM CanceledFreesLinesHolds == BankSpec => CanceledFreesLines
<1> DEFINE Frees ==
      \A p \in Payment : state[p] = "done" /\ state'[p] # "done" /\ p \notin outdated' =>
        \A l \in Line : lineOf[l] = p => reconciled'[l] = NoPayment
<1>1. ASSUME BankInv, [BankNext]_bankVars PROVE [Frees]_bankVars
  <2> SUFFICES ASSUME NEW p \in Payment, state[p] = "done", state'[p] # "done",
                      p \notin outdated', NEW l \in Line, lineOf[l] = p
               PROVE  reconciled'[l] = NoPayment
    OBVIOUS
  <2>1. state \in [Payment -> {"none", "draft", "done", "cancel", "deleted"}]
    BY <1>1 DEF BankInv, BankTypeOK
  <2>2. state' # state
    OBVIOUS
  <2>3. PICK f \in form : CancelBankPayment(f) \/ BackToDraft(f)
    BY <1>1, <2>1, <2>2
       DEF BankNext, VoucherStep, PaymentStep, FormStep, ProformaVoucher, VoucherMoveCancel,
           CreateBankPayment, OpenForm, Unlink, SaveLines, ValidateBankPayment, bankVars
  <2>4. f.payment = p
    BY <2>1, <2>3 DEF CancelBankPayment, BackToDraft
  <2>5. CancelBankPayment(f) /\ p \notin outdated
    BY <2>3, <2>4 DEF BackToDraft, CancelBankPayment
  <2>6. move[p] = "live"
    BY <1>1, <2>5 DEF BankInv, DoneLive
  <2> QED BY <2>4, <2>5, <2>6 DEF CancelBankPayment, CancelMove, ReverseMove, UnlinkReconciles
<1> QED BY <1>1, BankInvHolds, PTL DEF BankSpec, CanceledFreesLines

-----------------------------------------------------------------------------
(* Undue VAT: the types *)

LEMMA VatInitType == VatInit => VatTypeOK
BY UndueVatAssumption DEF VatInit, VatTypeOK, TaxPaymentRow, Book

\* A number given in a register keeps the types of the register and the sequences.
LEMMA NextSequenceType ==
  ASSUME VatTypeOK, NEW book \in Book, NEW period \in TaxPeriod, NEW v \in TaxPayment,
         NEW live \in BOOLEAN, NEW entered \in SUBSET RegisterRow,
         GetNextSequence(book, period, v, live, entered)
  PROVE  /\ register' \subseteq RegisterRow
         /\ nextNumber' \in [Book \X TaxPeriod -> 1 .. NumberBound + 1]
<1> DEFINE n == nextNumber[<<book, period>>]
           row == [book |-> book, period |-> period, number |-> n, payment |-> v, live |-> live]
<1>1. n \in 1 .. NumberBound /\ n + 1 \in 1 .. NumberBound + 1
  <2>1. <<book, period>> \in Book \X TaxPeriod
    OBVIOUS
  <2>2. n \in 1 .. NumberBound + 1 /\ n <= NumberBound
    BY <2>1 DEF VatTypeOK, GetNextSequence
  <2> QED BY <2>2, UndueVatAssumption
<1>2. row \in RegisterRow
  BY <1>1 DEF RegisterRow
<1>3. register' = entered \cup {row} /\ nextNumber' = [nextNumber EXCEPT ![<<book, period>>] = n + 1]
  BY DEF GetNextSequence
<1>4. register' \subseteq RegisterRow
  BY <1>2, <1>3
<1>5. nextNumber' \in [Book \X TaxPeriod -> 1 .. NumberBound + 1]
  BY <1>1, <1>3 DEF VatTypeOK
<1> QED BY <1>4, <1>5

LEMMA SetNextSequenceType ==
  ASSUME VatTypeOK, NEW v \in TaxPayment, NEW document \in TaxPeriod,
         payments[v].filled # NotFilled, SetNextSequence(v, document)
  PROVE  /\ register' \subseteq RegisterRow
         /\ nextNumber' \in [Book \X TaxPeriod -> 1 .. NumberBound + 1]
<1>1. CASE UNCHANGED <<register, nextNumber>>
  BY <1>1 DEF VatTypeOK
<1>2. CASE ~UNCHANGED <<register, nextNumber>>
  <2>1. PICK period \in {document, payments[v].filled} :
          GetNextSequence("vat", period, v, payments[v].state # "cancel", register)
    BY <1>2 DEF SetNextSequence
  <2>2. payments[v] \in TaxPaymentRow
    BY DEF VatTypeOK
  <2>3. period \in TaxPeriod
    BY <2>2 DEF TaxPaymentRow
  <2>4. register \in SUBSET RegisterRow /\ "vat" \in Book /\ (payments[v].state # "cancel") \in BOOLEAN
    BY DEF VatTypeOK, Book
  <2> QED BY <2>1, <2>3, <2>4, NextSequenceType
<1> QED BY <1>1, <1>2

\* What is withdrawn is of the type of the withdrawn.
LEMMA WithdrawnType ==
  ASSUME VatTypeOK, NEW v \in TaxPayment
  PROVE  Withdrawn(v) \subseteq Book \X TaxPeriod \X (1 .. NumberBound)
BY DEF VatTypeOK, Withdrawn, RowsOfPayment, RegisterRow, Book

\* The payments keep their type when one is written.
LEMMA PaymentWritten ==
  ASSUME VatTypeOK, NEW v \in TaxPayment, NEW row \in TaxPaymentRow,
         payments' = [payments EXCEPT ![v] = row]
  PROVE  payments' \in [TaxPayment -> TaxPaymentRow]
BY DEF VatTypeOK

\* A payment has been reversed only if cancellation reverses and it is canceled; and
\* a second time only by the dialog that was open then.
Reversed ==
  \A v \in TaxPayment :
    /\ payments[v].reversals > 0 =>
         voids /\ payments[v].state = "cancel" /\ payments[v].entry # "none"
    /\ payments[v].reversals = 2 => pendingDialog # <<"cancel", v>>

LEMMA VatStepType == ASSUME VatTypeOK, Reversed, [VatNext]_vatVars PROVE VatTypeOK'
<1> USE UndueVatAssumption DEF Dialog
<1>0. \A w \in TaxPayment : payments[w] \in TaxPaymentRow
  BY DEF VatTypeOK
<1>1. ASSUME NEW v \in TaxPayment, NEW manual \in BOOLEAN, EditDraft(v, manual) PROVE VatTypeOK'
  <2>1. payments' \in [TaxPayment -> TaxPaymentRow]
    <3> DEFINE row == [payments[v] EXCEPT !.manual = manual, !.filled = IF manual THEN @ ELSE NotFilled]
    <3>1. row \in TaxPaymentRow
      BY <1>0 DEF TaxPaymentRow
    <3>2. payments' = [payments EXCEPT ![v] = row]
      BY <1>1 DEF EditDraft
    <3> QED BY <3>1, <3>2, PaymentWritten
  <2> QED BY <1>1, <2>1, WithdrawnType DEF VatTypeOK, EditDraft, DialogWithTaxes, RowsOfPayment
<1>2. ASSUME NEW v \in TaxPayment, NEW period \in TaxPeriod, SaveTaxDetail(v, period)
      PROVE  VatTypeOK'
  BY <1>2 DEF VatTypeOK, SaveTaxDetail, TaxPaymentRow
<1>3. ASSUME NEW v \in TaxPayment, NEW period \in TaxPeriod, PostPayment(v, period)
      PROVE  VatTypeOK'
  <2>1. payments' \in [TaxPayment -> TaxPaymentRow]
    <3> DEFINE row == [payments[v] EXCEPT !.state = "posted", !.entry = IF autoRecognize THEN "vat" ELSE "plain"]
    <3>1. row \in TaxPaymentRow
      BY <1>0 DEF TaxPaymentRow
    <3>2. payments' = [payments EXCEPT ![v] = row]
      BY <1>3 DEF PostPayment
    <3> QED BY <3>1, <3>2, PaymentWritten
  <2>2. register' \subseteq RegisterRow /\ nextNumber' \in [Book \X TaxPeriod -> 1 .. NumberBound + 1]
    BY <1>3, SetNextSequenceType DEF PostPayment, VatTypeOK
  <2> QED BY <1>3, <2>1, <2>2 DEF VatTypeOK, PostPayment
<1>4. ASSUME NEW v \in TaxPayment, NEW period \in TaxPeriod, ClearUndueVat(v, period)
      PROVE  VatTypeOK'
  <2>1. payments' \in [TaxPayment -> TaxPaymentRow]
    <3> DEFINE posted == [payments[v] EXCEPT !.state = "posted", !.entry = "vat"]
               cleared == [payments[v] EXCEPT !.clearing = TRUE, !.lost = FALSE]
    <3>1. posted \in TaxPaymentRow /\ cleared \in TaxPaymentRow
      BY <1>0 DEF TaxPaymentRow
    <3>2. \/ payments' = payments
          \/ payments' = [payments EXCEPT ![v] = posted]
          \/ payments' = [payments EXCEPT ![v] = cleared]
      BY <1>4 DEF ClearUndueVat
    <3> QED BY <3>1, <3>2, PaymentWritten DEF VatTypeOK
  <2>2. register' \subseteq RegisterRow /\ nextNumber' \in [Book \X TaxPeriod -> 1 .. NumberBound + 1]
    BY <1>4, SetNextSequenceType DEF ClearUndueVat, MayRecognize
  <2> QED BY <1>4, <2>1, <2>2 DEF VatTypeOK, ClearUndueVat, Calls
<1>5. ASSUME NEW v \in TaxPayment, NEW period \in TaxPeriod, MakeCertificate(v, period)
      PROVE  VatTypeOK'
  <2>1. payments' \in [TaxPayment -> TaxPaymentRow]
    BY <1>5 DEF VatTypeOK, MakeCertificate, TaxPaymentRow
  <2>2. register' \subseteq RegisterRow /\ nextNumber' \in [Book \X TaxPeriod -> 1 .. NumberBound + 1]
    <3> DEFINE entered == IF Resets(v) THEN register \ RowsOfPayment("vat", v) ELSE register
    <3>1. entered \in SUBSET RegisterRow /\ GetNextSequence("wht", period, v, TRUE, entered)
      BY <1>5 DEF MakeCertificate, VatTypeOK
    <3> QED BY <3>1, NextSequenceType DEF Book
  <2> QED BY <1>5, <2>1, <2>2, WithdrawnType DEF VatTypeOK, MakeCertificate, Calls
<1>6. ASSUME NEW v \in TaxPayment, NEW kind \in Dialog, OpenDialog(kind, v) PROVE VatTypeOK'
  BY <1>6 DEF VatTypeOK, OpenDialog
<1>7. ASSUME NEW v \in TaxPayment, CancelVoucher(v) PROVE VatTypeOK'
  <2>1. payments' \in [TaxPayment -> TaxPaymentRow]
    <3> DEFINE old == payments[v]
               filled == IF Resets(v) THEN NotFilled ELSE old.filled
               entry1 == IF voids THEN old.entry ELSE "none"
               count == IF voids /\ payments[v].entry # "none" THEN old.reversals + 1 ELSE old.reversals
               row == [old EXCEPT !.state = "cancel", !.filled = filled, !.entry = entry1,
                                  !.reversals = count, !.lost = FALSE]
    <3>0. payments[v].reversals + 1 \in 0 .. 2
      BY <1>0, <1>7 DEF CancelVoucher, Calls, Offered, Reversed, TaxPaymentRow
    <3>2. payments' = [payments EXCEPT ![v] = row]
      BY <1>7 DEF CancelVoucher
    <3>3. old \in TaxPaymentRow
      BY <1>0
    <3>4. filled \in TaxPeriod \cup {NotFilled} /\ entry1 \in {"none", "plain", "vat"}
      BY <3>3 DEF TaxPaymentRow
    <3>5. count \in 0 .. 2
      BY <3>0, <3>3 DEF TaxPaymentRow
    <3> HIDE DEF old, filled, entry1, count
    <3>1. row \in TaxPaymentRow
      BY <3>3, <3>4, <3>5 DEF TaxPaymentRow
    <3> HIDE DEF row
    <3> QED BY <3>1, <3>2, PaymentWritten
  <2>2. register' \subseteq RegisterRow
    <3> DEFINE entered == IF Resets(v) THEN register \ RowsOfPayment("vat", v) ELSE register
               Off(r) == [r EXCEPT !.live = FALSE]
    <3>1. register' = {IF r.payment = v THEN Off(r) ELSE r : r \in entered}
      BY <1>7 DEF CancelVoucher
    <3>2. entered \in SUBSET RegisterRow
      BY DEF VatTypeOK
    <3>3. \A r \in RegisterRow : Off(r) \in RegisterRow
      BY DEF RegisterRow
    <3> HIDE DEF entered, Off, RegisterRow
    <3> QED BY <3>1, <3>2, <3>3
  <2> QED BY <1>7, <2>1, <2>2, WithdrawnType DEF VatTypeOK, CancelVoucher, Calls
<1>8. ASSUME NEW v \in TaxPayment, ActionCancelDraft(v) PROVE VatTypeOK'
  <2>1. payments' \in [TaxPayment -> TaxPaymentRow]
    <3> DEFINE row == [payments[v] EXCEPT !.state = "draft", !.filled = NotFilled]
    <3>1. row \in TaxPaymentRow
      BY <1>0 DEF TaxPaymentRow
    <3>2. payments' = [payments EXCEPT ![v] = row]
      BY <1>8 DEF ActionCancelDraft
    <3> QED BY <3>1, <3>2, PaymentWritten
  <2> QED BY <1>8, <2>1, WithdrawnType DEF VatTypeOK, ActionCancelDraft, DialogWithTaxes, RowsOfPayment
<1>9. ASSUME NEW v \in TaxPayment, RemoveRecognition(v) PROVE VatTypeOK'
  <2> DEFINE row == [payments[v] EXCEPT !.clearing = FALSE, !.lost = TRUE]
  <2>1. row \in TaxPaymentRow
    BY <1>0 DEF TaxPaymentRow
  <2>2. payments' = [payments EXCEPT ![v] = row]
    BY <1>9 DEF RemoveRecognition
  <2>3. payments' \in [TaxPayment -> TaxPaymentRow]
    BY <2>1, <2>2, PaymentWritten
  <2> QED BY <1>9, <2>3 DEF VatTypeOK, RemoveRecognition
<1>10. CASE SwitchSetting
  BY <1>10 DEF VatTypeOK, SwitchSetting
<1>11. CASE UNCHANGED vatVars
  BY <1>11 DEF VatTypeOK, vatVars
<1> QED
  BY <1>1, <1>2, <1>3, <1>4, <1>5, <1>6, <1>7, <1>8, <1>9, <1>10, <1>11 DEF VatNext, VatPaymentStep

-----------------------------------------------------------------------------
(* Undue VAT: the registers *)

\* The rows of the registers, the withdrawn numbers and the next ones fit: each number
\* below the next one of its register is of one row, or withdrawn, not both.
Fits(entered, gone, next) ==
  /\ \A r \in entered : r.number < next[<<r.book, r.period>>]
  /\ \A r, s \in entered :
       r.book = s.book /\ r.period = s.period /\ r.number = s.number => r = s
  /\ \A book \in Book, period \in TaxPeriod, number \in Nat :
       <<book, period, number>> \in gone =>
         /\ number < next[<<book, period>>]
         /\ \A r \in entered : r.book = book /\ r.period = period => r.number # number
  /\ \A book \in Book, period \in TaxPeriod :
       \A number \in 1 .. next[<<book, period>>] - 1 :
         \/ <<book, period, number>> \in gone
         \/ \E r \in entered : r.book = book /\ r.period = period /\ r.number = number

\* Rows that are withdrawn leave their numbers behind.
LEMMA WithdrawnFits ==
  ASSUME VatTypeOK, NEW v \in TaxPayment, Fits(register, withdrawn, nextNumber)
  PROVE  Fits(register \ RowsOfPayment("vat", v), Withdrawn(v), nextNumber)
<1> DEFINE entered == register \ RowsOfPayment("vat", v)
<1>0. \A r \in register : r.book \in Book /\ r.period \in TaxPeriod /\ r.number \in Nat
  BY DEF VatTypeOK, RegisterRow
<1>1. ASSUME NEW book \in Book, NEW period \in TaxPeriod, NEW number \in Nat,
             <<book, period, number>> \in Withdrawn(v)
      PROVE  /\ number < nextNumber[<<book, period>>]
             /\ \A r \in entered : r.book = book /\ r.period = period => r.number # number
  <2>1. CASE <<book, period, number>> \in withdrawn
    BY <2>1 DEF Fits
  <2>2. CASE <<book, period, number>> \notin withdrawn
    <3>1. PICK r \in RowsOfPayment("vat", v) : book = "vat" /\ period = r.period /\ number = r.number
      BY <1>1, <2>2 DEF Withdrawn
    <3>2. r \in register /\ r.book = "vat"
      BY DEF RowsOfPayment
    <3> QED BY <3>1, <3>2 DEF Fits
  <2> QED BY <2>1, <2>2
<1>2. ASSUME NEW book \in Book, NEW period \in TaxPeriod,
             NEW number \in 1 .. nextNumber[<<book, period>>] - 1,
             <<book, period, number>> \notin Withdrawn(v)
      PROVE  \E r \in entered : r.book = book /\ r.period = period /\ r.number = number
  <2>1. <<book, period, number>> \notin withdrawn
    BY <1>2 DEF Withdrawn
  <2>2. PICK r \in register : r.book = book /\ r.period = period /\ r.number = number
    BY <2>1 DEF Fits
  <2>3. r \notin RowsOfPayment("vat", v)
    BY <1>2, <2>2 DEF Withdrawn, RowsOfPayment
  <2> QED BY <2>2, <2>3
<1>3. /\ \A r \in entered : r.number < nextNumber[<<r.book, r.period>>]
      /\ \A r, s \in entered :
           r.book = s.book /\ r.period = s.period /\ r.number = s.number => r = s
  BY DEF Fits
<1> QED BY <1>1, <1>2, <1>3 DEF Fits

\* A row with the next number fits.
LEMMA NextFits ==
  ASSUME NEW entered \in SUBSET RegisterRow, NEW gone, NEW next \in [Book \X TaxPeriod -> Nat],
         NEW book \in Book, NEW period \in TaxPeriod, Fits(entered, gone, next),
         NEW new \in RegisterRow, new.book = book, new.period = period,
         new.number = next[<<book, period>>]
  PROVE  Fits(entered \cup {new}, gone, [next EXCEPT ![<<book, period>>] = new.number + 1])
<1> DEFINE after == [next EXCEPT ![<<book, period>>] = new.number + 1]
<1>0. /\ \A b \in Book, p \in TaxPeriod : next[<<b, p>>] \in Nat
      /\ \A b \in Book, p \in TaxPeriod :
           after[<<b, p>>] = IF b = book /\ p = period THEN new.number + 1 ELSE next[<<b, p>>]
      /\ new.number \in Nat
      /\ \A r \in entered : r.book \in Book /\ r.period \in TaxPeriod /\ r.number \in Nat
  BY DEF RegisterRow
<1> HIDE DEF after
<1>1. \A r \in entered \cup {new} : r.number < after[<<r.book, r.period>>]
  <2>1. after[<<new.book, new.period>>] = new.number + 1
    BY <1>0
  <2>2. ASSUME NEW r \in entered PROVE r.number < after[<<r.book, r.period>>]
    <3>1. r.number < next[<<r.book, r.period>>]
      BY DEF Fits
    <3>2. r.book \in Book /\ r.period \in TaxPeriod /\ r.number \in Nat
      BY <1>0
    <3>3. CASE r.book = book /\ r.period = period
      <4>1. <<r.book, r.period>> = <<new.book, new.period>>
        BY <3>3
      <4>2. r.number < new.number /\ after[<<r.book, r.period>>] = new.number + 1
        BY <2>1, <3>1, <3>3, <4>1
      <4>3. new.number \in Nat
        BY <1>0
      <4> QED BY <3>2, <4>2, <4>3
    <3>4. CASE ~(r.book = book /\ r.period = period)
      <4>1. after[<<r.book, r.period>>] = next[<<r.book, r.period>>]
        BY <1>0, <3>2, <3>4
      <4> QED BY <3>1, <4>1
    <3> QED BY <3>3, <3>4
  <2>3. new.number < after[<<new.book, new.period>>]
    BY <1>0, <2>1
  <2> QED BY <2>2, <2>3
<1>2. ASSUME NEW r \in entered \cup {new}, NEW s \in entered \cup {new},
             r.book = s.book, r.period = s.period, r.number = s.number
      PROVE  r = s
  BY <1>0, <1>2 DEF Fits
<1>3. ASSUME NEW b \in Book, NEW p \in TaxPeriod, NEW n \in Nat, <<b, p, n>> \in gone
      PROVE  /\ n < after[<<b, p>>]
             /\ \A r \in entered \cup {new} : r.book = b /\ r.period = p => r.number # n
  <2>1. /\ n < next[<<b, p>>]
        /\ \A r \in entered : r.book = b /\ r.period = p => r.number # n
    BY <1>3 DEF Fits
  <2> QED BY <1>0, <2>1
<1>4. ASSUME NEW b \in Book, NEW p \in TaxPeriod, NEW n \in 1 .. after[<<b, p>>] - 1,
             <<b, p, n>> \notin gone
      PROVE  \E r \in entered \cup {new} : r.book = b /\ r.period = p /\ r.number = n
  <2>1. CASE n \in 1 .. next[<<b, p>>] - 1
    BY <1>4, <2>1 DEF Fits
  <2>2. CASE n \notin 1 .. next[<<b, p>>] - 1
    <3>1. b = book /\ p = period /\ n = new.number
      BY <1>0, <1>4, <2>2
    <3> QED BY <3>1
  <2> QED BY <2>1, <2>2
<1>5. Fits(entered \cup {new}, gone, after)
  BY <1>1, <1>2, <1>3, <1>4 DEF Fits
<1> QED BY <1>5 DEF after

\* Whether a row counts is not seen here.
LEMMA CanceledFits ==
  ASSUME NEW entered \in SUBSET RegisterRow, NEW gone, NEW next, NEW v, Fits(entered, gone, next)
  PROVE  Fits({IF r.payment = v THEN [r EXCEPT !.live = FALSE] ELSE r : r \in entered}, gone, next)
<1> DEFINE Off(r) == IF r.payment = v THEN [r EXCEPT !.live = FALSE] ELSE r
           after == {Off(r) : r \in entered}
<1>1. \A r \in entered : /\ Off(r).book = r.book /\ Off(r).period = r.period
                         /\ Off(r).number = r.number
  BY DEF RegisterRow
<1> HIDE DEF Off
<1>2. \A r \in after : \E s \in entered : r = Off(s)
  OBVIOUS
<1>3. \A r \in entered : Off(r) \in after
  OBVIOUS
<1> HIDE DEF after
<1>4. /\ \A r \in after : r.number < next[<<r.book, r.period>>]
      /\ \A r, s \in after :
           r.book = s.book /\ r.period = s.period /\ r.number = s.number => r = s
  BY <1>1, <1>2 DEF Fits
<1>5. ASSUME NEW book \in Book, NEW period \in TaxPeriod, NEW number \in Nat,
             <<book, period, number>> \in gone
      PROVE  /\ number < next[<<book, period>>]
             /\ \A r \in after : r.book = book /\ r.period = period => r.number # number
  BY <1>1, <1>2, <1>5 DEF Fits
<1>6. ASSUME NEW book \in Book, NEW period \in TaxPeriod,
             NEW number \in 1 .. next[<<book, period>>] - 1,
             <<book, period, number>> \notin gone
      PROVE  \E r \in after : r.book = book /\ r.period = period /\ r.number = number
  <2>1. PICK s \in entered : s.book = book /\ s.period = period /\ s.number = number
    BY <1>6 DEF Fits
  <2> QED BY <1>1, <1>3, <2>1
<1>7. Fits(after, gone, next)
  BY <1>4, <1>5, <1>6 DEF Fits
<1> QED BY <1>7 DEF after, Off

-----------------------------------------------------------------------------
(* Undue VAT: a payment, its entries and its rows *)

\* A payment has at most one tax invoice and one certificate in the registers.  They
\* count while it is posted, and then the tax invoice is there if the VAT was booked
\* or its entry deleted; the entries are those the setting asks for.
VatBooked(v) ==
  /\ \A r, s \in RowsOfPayment("vat", v) : r = s
  /\ \A r, s \in RowsOfPayment("wht", v) : r = s
  /\ \A r \in RowsOfPayment("vat", v) :
       payments[v].state # "draft" /\ (r.live <=> payments[v].state = "posted")
  /\ \A r \in RowsOfPayment("wht", v) : r.live => payments[v].state = "posted"
  /\ payments[v].state = "posted" =>
       (RowsOfPayment("vat", v) # {} <=>
          autoRecognize \/ payments[v].clearing \/ payments[v].lost)
  /\ payments[v].clearing \/ payments[v].lost =>
       ~autoRecognize /\ payments[v].state = "posted"
  /\ ~(payments[v].clearing /\ payments[v].lost)
  /\ payments[v].reversals = IF voids /\ payments[v].state = "cancel" THEN 1 ELSE 0
  /\ payments[v].entry =
       IF payments[v].state = "posted" \/ (voids /\ payments[v].state = "cancel")
       THEN IF autoRecognize THEN "vat" ELSE "plain"
       ELSE "none"

AllBooked == accidents = {} => \A v \in TaxPayment : VatBooked(v)

\* What a step adds to the register is of one payment.
LEMMA RowAdded ==
  ASSUME VatTypeOK, NEW book \in Book, NEW period, NEW v \in TaxPayment, NEW live, NEW entered,
         GetNextSequence(book, period, v, live, entered)
  PROVE  \E new : /\ new.book = book /\ new.payment = v /\ new.live = live
                  /\ register' = entered \cup {new}
BY DEF GetNextSequence

\* A payment whose rows and fields are the same is booked as before.
LEMMA SameBooked ==
  ASSUME NEW v, VatBooked(v), UNCHANGED <<autoRecognize, voids>>, payments'[v] = payments[v],
         RowsOfPayment("vat", v)' = RowsOfPayment("vat", v),
         RowsOfPayment("wht", v)' = RowsOfPayment("wht", v)
  PROVE  VatBooked(v)'
BY DEF VatBooked

\* A step of a payment leaves the others alone.
LEMMA OthersSame ==
  ASSUME VatTypeOK, NEW v \in TaxPayment, NEW w \in TaxPayment, w # v,
         \/ \E manual \in BOOLEAN : EditDraft(v, manual)
         \/ \E period \in TaxPeriod : \/ SaveTaxDetail(v, period) \/ PostPayment(v, period)
                                     \/ ClearUndueVat(v, period) \/ MakeCertificate(v, period)
         \/ \E kind \in Dialog : OpenDialog(kind, v)
         \/ CancelVoucher(v)
         \/ ActionCancelDraft(v)
         \/ RemoveRecognition(v)
  PROVE  /\ payments'[w] = payments[w]
         /\ RowsOfPayment("vat", w)' = RowsOfPayment("vat", w)
         /\ RowsOfPayment("wht", w)' = RowsOfPayment("wht", w)
<1>1. payments'[w] = payments[w]
  BY DEF VatTypeOK, EditDraft, SaveTaxDetail, PostPayment, ClearUndueVat, MakeCertificate,
         OpenDialog, CancelVoucher, ActionCancelDraft, RemoveRecognition
<1>2. \A r : r.payment = w => (r \in register' <=> r \in register)
  <2>1. ASSUME NEW doc, SetNextSequence(v, doc)
        PROVE  \A r : r.payment = w => (r \in register' <=> r \in register)
    BY <2>1, RowAdded DEF SetNextSequence, Book
  <2>2. ASSUME NEW entered, NEW period, GetNextSequence("wht", period, v, TRUE, entered),
               entered = IF Resets(v) THEN register \ RowsOfPayment("vat", v) ELSE register
        PROVE  \A r : r.payment = w => (r \in register' <=> r \in register)
    <3>1. PICK new : new.payment = v /\ register' = entered \cup {new}
      BY <2>2 DEF GetNextSequence
    <3>2. \A r : r.payment = w => r \notin RowsOfPayment("vat", v)
      BY DEF RowsOfPayment
    <3>3. \A r : r.payment = w => (r \in entered <=> r \in register)
      BY <2>2, <3>2
    <3> QED BY <3>1, <3>3
  <2>3. ASSUME CancelVoucher(v) PROVE \A r : r.payment = w => (r \in register' <=> r \in register)
    <3>1. \A r \in register : [r EXCEPT !.live = FALSE].payment = r.payment
      BY DEF VatTypeOK, RegisterRow
    <3> DEFINE entered == IF Resets(v) THEN register \ RowsOfPayment("vat", v) ELSE register
    <3>2. register' = {IF r.payment = v THEN [r EXCEPT !.live = FALSE] ELSE r : r \in entered}
      BY <2>3 DEF CancelVoucher
    <3>3. \A r : r.payment = w => (r \in entered <=> r \in register)
      BY DEF RowsOfPayment
    <3>4. entered \subseteq register
      OBVIOUS
    <3> HIDE DEF entered
    <3> QED BY <3>1, <3>2, <3>3, <3>4
  <2>4. ASSUME UNCHANGED register \/ register' = register \ RowsOfPayment("vat", v)
        PROVE  \A r : r.payment = w => (r \in register' <=> r \in register)
    BY <2>4 DEF RowsOfPayment
  <2> QED
    BY <2>1, <2>2, <2>3, <2>4
       DEF EditDraft, SaveTaxDetail, PostPayment, ClearUndueVat, MakeCertificate,
           OpenDialog, ActionCancelDraft, RemoveRecognition
<1> QED BY <1>1, <1>2 DEF RowsOfPayment

\* Every step leaves each payment booked, as long as there are no accidents.
LEMMA AllBookedStep ==
  ASSUME VatTypeOK, AllBooked, [VatNext]_vatVars
  PROVE  AllBooked'
<1> SUFFICES ASSUME accidents' = {} PROVE \A w \in TaxPayment : VatBooked(w)'
  BY DEF AllBooked
<1>0. UNCHANGED voids /\ (UNCHANGED <<autoRecognize, accidents>> \/ SwitchSetting)
  BY DEF VatNext, VatPaymentStep, vatVars, EditDraft, SaveTaxDetail, PostPayment, ClearUndueVat,
         MakeCertificate, OpenDialog, CancelVoucher, ActionCancelDraft, RemoveRecognition,
         SwitchSetting, Calls
<1>1. ~SwitchSetting /\ accidents = {} /\ UNCHANGED autoRecognize
  BY <1>0 DEF SwitchSetting
<1>2. \A w \in TaxPayment : VatBooked(w) /\ payments[w] \in TaxPaymentRow
  BY <1>1 DEF AllBooked, VatTypeOK
<1>3. ASSUME NEW kind, NEW v \in TaxPayment, Calls(kind, v)
      PROVE  Offered(kind, v)
  BY <1>1, <1>3 DEF Calls
<1>4. ASSUME NEW v \in TaxPayment,
             \/ \E manual \in BOOLEAN : EditDraft(v, manual)
             \/ \E period \in TaxPeriod : \/ SaveTaxDetail(v, period) \/ PostPayment(v, period)
                                         \/ ClearUndueVat(v, period) \/ MakeCertificate(v, period)
             \/ \E kind \in Dialog : OpenDialog(kind, v)
             \/ CancelVoucher(v)
             \/ ActionCancelDraft(v)
             \/ RemoveRecognition(v),
             VatBooked(v)'
      PROVE  \A w \in TaxPayment : VatBooked(w)'
  <2>1. ASSUME NEW w \in TaxPayment, w # v PROVE VatBooked(w)'
    BY <1>0, <1>1, <1>2, <1>4, <2>1, OthersSame, SameBooked
  <2> QED BY <1>4, <2>1
<1>5. \A v \in TaxPayment : /\ \A r \in RowsOfPayment("vat", v) : r \in register /\ r.book = "vat" /\ r.payment = v
                            /\ \A r \in RowsOfPayment("wht", v) : r \in register /\ r.book = "wht" /\ r.payment = v
  BY DEF RowsOfPayment
<1>6. ASSUME NEW v \in TaxPayment, NEW manual \in BOOLEAN, EditDraft(v, manual)
      PROVE  VatBooked(v)'
  <2>1. RowsOfPayment("vat", v) = {}
    BY <1>2, <1>6 DEF EditDraft, VatBooked
  <2>2. UNCHANGED register
    BY <1>6, <2>1 DEF EditDraft
  <2>3. /\ payments'[v].state = "draft" /\ payments'[v].entry = payments[v].entry
        /\ payments'[v].reversals = payments[v].reversals
        /\ payments'[v].clearing = payments[v].clearing
        /\ payments'[v].lost = payments[v].lost /\ payments[v].state = "draft"
    BY <1>2, <1>6 DEF EditDraft, VatTypeOK, TaxPaymentRow
  <2> QED BY <1>0, <1>1, <1>2, <2>2, <2>3 DEF VatBooked, RowsOfPayment
<1>7. ASSUME NEW v \in TaxPayment, NEW period \in TaxPeriod, SaveTaxDetail(v, period)
      PROVE  VatBooked(v)'
  <2>1. UNCHANGED register
    BY <1>7 DEF SaveTaxDetail
  <2>2. /\ payments'[v].state = payments[v].state /\ payments'[v].entry = payments[v].entry
        /\ payments'[v].reversals = payments[v].reversals
        /\ payments'[v].clearing = payments[v].clearing
        /\ payments'[v].lost = payments[v].lost
    BY <1>2, <1>7 DEF SaveTaxDetail, VatTypeOK, TaxPaymentRow
  <2> QED BY <1>0, <1>1, <1>2, <2>1, <2>2 DEF VatBooked, RowsOfPayment
<1>8. ASSUME NEW v \in TaxPayment, NEW period \in TaxPeriod, PostPayment(v, period)
      PROVE  VatBooked(v)'
  <2>1. /\ payments'[v].state = "posted" /\ payments[v].state = "draft"
        /\ payments'[v].entry = IF autoRecognize THEN "vat" ELSE "plain"
        /\ payments'[v].reversals = payments[v].reversals
        /\ payments'[v].clearing = payments[v].clearing
        /\ payments'[v].lost = payments[v].lost
    BY <1>2, <1>8 DEF PostPayment, VatTypeOK, TaxPaymentRow
  <2>2. /\ RowsOfPayment("vat", v) = {} /\ ~payments[v].clearing /\ ~payments[v].lost
        /\ payments[v].reversals = 0
    BY <1>2, <2>1 DEF VatBooked
  <2>3. CASE ~autoRecognize
    <3>1. UNCHANGED register
      BY <1>8, <2>3 DEF PostPayment
    <3> QED BY <1>0, <1>1, <1>2, <2>1, <2>2, <2>3, <3>1 DEF VatBooked, RowsOfPayment
  <2>4. CASE autoRecognize
    <3>1. PICK new : /\ new.book = "vat" /\ new.payment = v /\ new.live
                     /\ register' = register \cup {new}
      BY <1>8, <2>1, <2>2, <2>4 DEF PostPayment, SetNextSequence, GetNextSequence
    <3>2. RowsOfPayment("vat", v)' = {new} /\ RowsOfPayment("wht", v)' = RowsOfPayment("wht", v)
      BY <2>2, <3>1 DEF RowsOfPayment
    <3> QED BY <1>0, <1>1, <1>2, <2>1, <2>2, <2>4, <3>1, <3>2 DEF VatBooked
  <2> QED BY <2>3, <2>4
<1>9. ASSUME NEW v \in TaxPayment, NEW period \in TaxPeriod, ClearUndueVat(v, period)
      PROVE  VatBooked(v)'
  <2>1. payments[v].state = "posted" /\ ~autoRecognize /\ ~payments[v].clearing
    BY <1>3, <1>9 DEF ClearUndueVat, Offered
  <2>2. /\ payments'[v].state = "posted" /\ payments'[v].entry = payments[v].entry
        /\ payments'[v].reversals = payments[v].reversals
        /\ payments'[v].clearing /\ ~payments'[v].lost
    BY <1>2, <1>9, <2>1 DEF ClearUndueVat, VatTypeOK, TaxPaymentRow
  <2>3. CASE RowsOfPayment("vat", v) # {}
    <3>1. UNCHANGED register
      BY <1>9, <2>3 DEF ClearUndueVat, SetNextSequence
    <3> QED BY <1>0, <1>1, <1>2, <2>1, <2>2, <2>3, <3>1 DEF VatBooked, RowsOfPayment
  <2>4. CASE RowsOfPayment("vat", v) = {}
    <3>1. PICK new : /\ new.book = "vat" /\ new.payment = v /\ new.live
                     /\ register' = register \cup {new}
      BY <1>9, <2>1, <2>4 DEF ClearUndueVat, SetNextSequence, GetNextSequence
    <3>2. RowsOfPayment("vat", v)' = {new} /\ RowsOfPayment("wht", v)' = RowsOfPayment("wht", v)
      BY <2>4, <3>1 DEF RowsOfPayment
    <3> QED BY <1>0, <1>1, <1>2, <2>1, <2>2, <2>4, <3>1, <3>2 DEF VatBooked
  <2> QED BY <2>3, <2>4
<1>10. ASSUME NEW v \in TaxPayment, NEW period \in TaxPeriod, MakeCertificate(v, period)
       PROVE  VatBooked(v)'
  <2>1. payments[v].state = "posted" /\ RowsOfPayment("wht", v) = {} /\ ~Resets(v)
    BY <1>3, <1>10 DEF MakeCertificate, Offered, Resets
  <2>2. PICK new : /\ new.book = "wht" /\ new.payment = v /\ new.live
                   /\ register' = register \cup {new}
    BY <1>10, <2>1 DEF MakeCertificate, GetNextSequence
  <2>3. RowsOfPayment("wht", v)' = {new} /\ RowsOfPayment("vat", v)' = RowsOfPayment("vat", v)
    BY <2>1, <2>2 DEF RowsOfPayment
  <2>4. payments' = payments
    BY <1>10, <2>1 DEF MakeCertificate
  <2> QED BY <1>0, <1>1, <1>2, <2>1, <2>2, <2>3, <2>4 DEF VatBooked
<1>11. ASSUME NEW v \in TaxPayment, NEW kind \in Dialog, OpenDialog(kind, v) PROVE VatBooked(v)'
  BY <1>0, <1>1, <1>2, <1>11 DEF OpenDialog, VatBooked, RowsOfPayment
<1>12. ASSUME NEW v \in TaxPayment, CancelVoucher(v) PROVE VatBooked(v)'
  <2>1. payments[v].state = "posted" /\ ~Resets(v)
    BY <1>3, <1>12 DEF CancelVoucher, Offered, Resets
  <2>2. /\ payments'[v].state = "cancel"
        /\ payments'[v].entry = IF voids THEN payments[v].entry ELSE "none"
        /\ payments'[v].reversals = IF voids /\ payments[v].entry # "none"
                                   THEN payments[v].reversals + 1 ELSE payments[v].reversals
        /\ payments'[v].clearing = payments[v].clearing
        /\ ~payments'[v].lost
    BY <1>2, <1>12 DEF CancelVoucher, VatTypeOK, TaxPaymentRow
  <2>3. ~payments[v].clearing /\ payments[v].reversals = 0 /\ payments[v].entry # "none"
    BY <1>2, <1>12, <2>1 DEF CancelVoucher, MayCancel, VatBooked
  <2> DEFINE Off(r) == [r EXCEPT !.live = FALSE]
  <2>4. \A r \in register : /\ Off(r).book = r.book /\ Off(r).payment = r.payment
                            /\ ~Off(r).live
    BY DEF VatTypeOK, RegisterRow
  <2>5. register' = {IF r.payment = v THEN Off(r) ELSE r : r \in register}
    BY <1>12, <2>1 DEF CancelVoucher
  <2> HIDE DEF Off
  <2>6. /\ \A r \in RowsOfPayment("vat", v)' : \E s \in RowsOfPayment("vat", v) : r = Off(s)
        /\ \A r \in RowsOfPayment("wht", v)' : \E s \in RowsOfPayment("wht", v) : r = Off(s)
    BY <2>4, <2>5 DEF RowsOfPayment
  <2>7. /\ \A r, s \in RowsOfPayment("vat", v)' : r = s
        /\ \A r, s \in RowsOfPayment("wht", v)' : r = s
        /\ \A r \in RowsOfPayment("vat", v)' : ~r.live
        /\ \A r \in RowsOfPayment("wht", v)' : ~r.live
    BY <1>2, <1>5, <2>4, <2>6 DEF VatBooked
  <2> QED BY <1>0, <1>1, <1>2, <2>1, <2>2, <2>3, <2>7 DEF VatBooked
<1>13. ASSUME NEW v \in TaxPayment, ActionCancelDraft(v) PROVE VatBooked(v)'
  <2>1. /\ payments'[v].state = "draft" /\ payments'[v].entry = payments[v].entry
        /\ payments'[v].reversals = payments[v].reversals
        /\ payments'[v].clearing = payments[v].clearing
        /\ payments'[v].lost = payments[v].lost /\ payments[v].state = "cancel" /\ ~voids
    BY <1>2, <1>13 DEF ActionCancelDraft, VatTypeOK, TaxPaymentRow
  <2>2. RowsOfPayment("vat", v)' = {} /\ RowsOfPayment("wht", v)' = RowsOfPayment("wht", v)
    BY <1>13 DEF ActionCancelDraft, RowsOfPayment
  <2> QED BY <1>0, <1>1, <1>2, <2>1, <2>2 DEF VatBooked
<1>14. ASSUME NEW v \in TaxPayment, RemoveRecognition(v) PROVE VatBooked(v)'
  <2>1. /\ payments'[v].state = payments[v].state /\ payments'[v].entry = payments[v].entry
        /\ payments'[v].reversals = payments[v].reversals
        /\ ~payments'[v].clearing /\ payments[v].clearing
        /\ payments'[v].lost
    BY <1>2, <1>14 DEF RemoveRecognition, VatTypeOK, TaxPaymentRow
  <2>2. UNCHANGED register
    BY <1>14 DEF RemoveRecognition
  <2> QED BY <1>0, <1>1, <1>2, <2>1, <2>2 DEF VatBooked, RowsOfPayment
<1>15. CASE UNCHANGED vatVars
  BY <1>2, <1>15 DEF vatVars, VatBooked, RowsOfPayment
<1> QED
  BY <1>1, <1>4, <1>6, <1>7, <1>8, <1>9, <1>10, <1>11, <1>12, <1>13, <1>14, <1>15
     DEF VatNext, VatPaymentStep

-----------------------------------------------------------------------------
(* Undue VAT: the inductive invariant and the theorems *)

VatInd == VatTypeOK /\ Reversed /\ Fits(register, withdrawn, nextNumber) /\ AllBooked

LEMMA VatInitInd == VatInit => VatInd
<1> SUFFICES ASSUME VatInit PROVE VatInd
  OBVIOUS
<1>1. \A v \in TaxPayment :
        payments[v] = [state |-> "draft", entry |-> "none", reversals |-> 0, clearing |-> FALSE,
                       manual |-> FALSE, filled |-> NotFilled, lost |-> FALSE]
  BY DEF VatInit
<1>2. \A v \in TaxPayment : RowsOfPayment("vat", v) = {} /\ RowsOfPayment("wht", v) = {}
  BY DEF VatInit, RowsOfPayment
<1>3. Reversed
  BY <1>1 DEF Reversed
<1>4. Fits(register, withdrawn, nextNumber)
  BY DEF VatInit, Fits, Book
<1>5. AllBooked
  BY <1>1, <1>2 DEF AllBooked, VatBooked
<1> QED BY <1>3, <1>4, <1>5, VatInitType DEF VatInd

\* A payment whose own reversals are as before, or that no dialog can reverse again
LEMMA ReversedStep ==
  ASSUME VatTypeOK, Reversed, [VatNext]_vatVars
  PROVE  Reversed'
<1>0. \A w \in TaxPayment : payments[w] \in TaxPaymentRow
  BY DEF VatTypeOK
<1>1. UNCHANGED voids
  BY DEF VatNext, VatPaymentStep, vatVars, EditDraft, SaveTaxDetail, PostPayment, ClearUndueVat,
         MakeCertificate, OpenDialog, CancelVoucher, ActionCancelDraft, RemoveRecognition,
         SwitchSetting
<1>2. ASSUME NEW w \in TaxPayment, payments'[w].reversals = payments[w].reversals,
             payments[w].reversals > 0 =>
               payments'[w].state = "cancel" /\ payments'[w].entry # "none",
             pendingDialog' = <<"cancel", w>> =>
               pendingDialog = <<"cancel", w>> \/ payments[w].state = "posted"
      PROVE  /\ payments'[w].reversals > 0 =>
                  voids' /\ payments'[w].state = "cancel" /\ payments'[w].entry # "none"
             /\ payments'[w].reversals = 2 => pendingDialog' # <<"cancel", w>>
  BY <1>1, <1>2 DEF Reversed
<1> USE UndueVatAssumption DEF NoDialog
<1>3. ASSUME NEW v \in TaxPayment, CancelVoucher(v) PROVE Reversed'
  <2>1. /\ payments'[v].state = "cancel"
        /\ payments'[v].entry = IF voids THEN payments[v].entry ELSE "none"
        /\ payments'[v].reversals = IF voids /\ payments[v].entry # "none"
                                   THEN payments[v].reversals + 1 ELSE payments[v].reversals
        /\ \A w \in TaxPayment : w # v => payments'[w] = payments[w]
    BY <1>0, <1>3 DEF CancelVoucher, VatTypeOK, TaxPaymentRow
  <2>2. payments[v].reversals \in 0 .. 2 /\ (voids \in BOOLEAN)
    BY <1>0 DEF TaxPaymentRow, VatTypeOK
  <2>3. \/ payments[v].state = "posted" /\ UNCHANGED pendingDialog
        \/ pendingDialog = <<"cancel", v>> /\ pendingDialog' = NoDialog
    BY <1>3 DEF CancelVoucher, Calls, Offered
  <2>4. \A w \in TaxPayment : pendingDialog' = <<"cancel", w>> => pendingDialog = <<"cancel", w>>
    BY <2>3
  <2>5. ASSUME NEW w \in TaxPayment, w # v
        PROVE  /\ payments'[w].reversals > 0 =>
                    voids' /\ payments'[w].state = "cancel" /\ payments'[w].entry # "none"
               /\ payments'[w].reversals = 2 => pendingDialog' # <<"cancel", w>>
    BY <1>1, <2>1, <2>4, <2>5 DEF Reversed
  <2>6. /\ payments'[v].reversals > 0 =>
             voids' /\ payments'[v].state = "cancel" /\ payments'[v].entry # "none"
        /\ payments'[v].reversals = 2 => pendingDialog' # <<"cancel", v>>
    BY <1>1, <2>1, <2>2, <2>3 DEF Reversed
  <2> QED BY <2>5, <2>6 DEF Reversed
<1>4. ASSUME NEW v \in TaxPayment, NEW period \in TaxPeriod, ClearUndueVat(v, period)
      PROVE  Reversed'
  <2>1. ASSUME NEW w \in TaxPayment
        PROVE  /\ payments'[w].reversals = payments[w].reversals
               /\ \/ payments'[w].state = payments[w].state /\ payments'[w].entry = payments[w].entry
                  \/ payments[w].entry = "none"
    BY <1>0, <1>4 DEF ClearUndueVat, VatTypeOK, TaxPaymentRow
  <2>2. \A w : pendingDialog' = <<"cancel", w>> => pendingDialog = <<"cancel", w>>
    BY <1>4 DEF ClearUndueVat, Calls
  <2> QED BY <1>2, <2>1, <2>2 DEF Reversed
<1>5. ASSUME NEW v \in TaxPayment,
             \/ \E manual \in BOOLEAN : EditDraft(v, manual)
             \/ \E period \in TaxPeriod : \/ SaveTaxDetail(v, period) \/ PostPayment(v, period)
                                         \/ MakeCertificate(v, period)
             \/ \E kind \in Dialog : OpenDialog(kind, v)
             \/ ActionCancelDraft(v)
             \/ RemoveRecognition(v)
      PROVE  Reversed'
  <2>1. ASSUME NEW w \in TaxPayment
        PROVE  /\ payments'[w].reversals = payments[w].reversals
               /\ \/ payments'[w].state = payments[w].state /\ payments'[w].entry = payments[w].entry
                  \/ payments[w].state = "draft" \/ ~voids
    <3>1. CASE \E manual \in BOOLEAN : EditDraft(v, manual)
      BY <1>0, <3>1 DEF EditDraft, VatTypeOK, TaxPaymentRow
    <3>2. CASE \E period \in TaxPeriod : SaveTaxDetail(v, period)
      BY <1>0, <3>2 DEF SaveTaxDetail, VatTypeOK, TaxPaymentRow
    <3>3. CASE \E period \in TaxPeriod : PostPayment(v, period)
      BY <1>0, <3>3 DEF PostPayment, VatTypeOK, TaxPaymentRow
    <3>4. CASE \E period \in TaxPeriod : MakeCertificate(v, period)
      BY <1>0, <3>4 DEF MakeCertificate, VatTypeOK, TaxPaymentRow
    <3>5. CASE \E kind \in Dialog : OpenDialog(kind, v)
      BY <1>0, <3>5 DEF OpenDialog, VatTypeOK, TaxPaymentRow
    <3>6. CASE ActionCancelDraft(v)
      BY <1>0, <3>6 DEF ActionCancelDraft, VatTypeOK, TaxPaymentRow
    <3>7. CASE RemoveRecognition(v)
      BY <1>0, <3>7 DEF RemoveRecognition, VatTypeOK, TaxPaymentRow
    <3> QED BY <1>5, <3>1, <3>2, <3>3, <3>4, <3>5, <3>6, <3>7
  <2>2. ASSUME NEW w, pendingDialog' = <<"cancel", w>>
        PROVE  pendingDialog = <<"cancel", w>> \/ payments[w].state = "posted"
    <3>1. CASE \E kind \in Dialog : OpenDialog(kind, v)
      BY <2>2, <3>1 DEF OpenDialog, Offered
    <3>2. CASE ~(\E kind \in Dialog : OpenDialog(kind, v))
      BY <1>5, <2>2, <3>2
         DEF EditDraft, SaveTaxDetail, PostPayment, MakeCertificate, ActionCancelDraft,
             RemoveRecognition, DialogWithTaxes, Calls
    <3> QED BY <3>1, <3>2
  <2> QED BY <1>2, <2>1, <2>2 DEF Reversed
<1>6. CASE SwitchSetting \/ UNCHANGED vatVars
  BY <1>6 DEF SwitchSetting, vatVars, Reversed
<1> QED
  BY <1>3, <1>4, <1>5, <1>6 DEF VatNext, VatPaymentStep

\* A number is taken only as the next one of its register.
LEMMA GetNextFits ==
  ASSUME VatTypeOK, NEW book \in Book, NEW period \in TaxPeriod, NEW v \in TaxPayment,
         NEW live \in BOOLEAN, NEW entered \in SUBSET RegisterRow, NEW gone,
         Fits(entered, gone, nextNumber), GetNextSequence(book, period, v, live, entered)
  PROVE  Fits(register', gone, nextNumber')
<1> DEFINE n == nextNumber[<<book, period>>]
           row == [book |-> book, period |-> period, number |-> n, payment |-> v, live |-> live]
<1>1. n \in 1 .. NumberBound
  <2>1. <<book, period>> \in Book \X TaxPeriod
    OBVIOUS
  <2>2. n \in 1 .. NumberBound + 1 /\ n <= NumberBound
    BY <2>1 DEF VatTypeOK, GetNextSequence
  <2> QED BY <2>2, UndueVatAssumption
<1>2. row \in RegisterRow /\ row.book = book /\ row.period = period /\ row.number = n
  BY <1>1 DEF RegisterRow
<1>3. nextNumber \in [Book \X TaxPeriod -> Nat]
  BY UndueVatAssumption DEF VatTypeOK
<1>4. register' = entered \cup {row} /\ nextNumber' = [nextNumber EXCEPT ![<<book, period>>] = n + 1]
  BY DEF GetNextSequence
<1> HIDE DEF row
<1>5. Fits(entered \cup {row}, gone, [nextNumber EXCEPT ![<<book, period>>] = row.number + 1])
  BY <1>2, <1>3, NextFits
<1> QED BY <1>2, <1>4, <1>5

LEMMA SetNextFits ==
  ASSUME VatTypeOK, Fits(register, withdrawn, nextNumber), NEW v \in TaxPayment,
         NEW document \in TaxPeriod, payments[v].filled # NotFilled, SetNextSequence(v, document)
  PROVE  Fits(register', withdrawn, nextNumber')
<1>1. CASE UNCHANGED <<register, nextNumber>>
  BY <1>1
<1>2. CASE ~UNCHANGED <<register, nextNumber>>
  <2>1. PICK period \in {document, payments[v].filled} :
          GetNextSequence("vat", period, v, payments[v].state # "cancel", register)
    BY <1>2 DEF SetNextSequence
  <2>2. payments[v] \in TaxPaymentRow
    BY DEF VatTypeOK
  <2>3. period \in TaxPeriod
    BY <2>2 DEF TaxPaymentRow
  <2>4. register \in SUBSET RegisterRow /\ "vat" \in Book /\ (payments[v].state # "cancel") \in BOOLEAN
    BY DEF VatTypeOK, Book
  <2> QED BY <2>1, <2>3, <2>4, GetNextFits
<1> QED BY <1>1, <1>2

LEMMA FitsStep ==
  ASSUME VatTypeOK, Fits(register, withdrawn, nextNumber), [VatNext]_vatVars
  PROVE  Fits(register', withdrawn', nextNumber')
<1> DEFINE Same == UNCHANGED <<register, withdrawn, nextNumber>>
<1>1. ASSUME Same PROVE Fits(register', withdrawn', nextNumber')
  BY <1>1
<1>2. ASSUME NEW v \in TaxPayment, register' = register \ RowsOfPayment("vat", v),
             withdrawn' = Withdrawn(v), UNCHANGED nextNumber
      PROVE  Fits(register', withdrawn', nextNumber')
  BY <1>2, WithdrawnFits
<1>3. ASSUME NEW v \in TaxPayment, NEW period \in TaxPeriod, PostPayment(v, period)
      PROVE  Fits(register', withdrawn', nextNumber')
  BY <1>1, <1>3, SetNextFits DEF PostPayment
<1>4. ASSUME NEW v \in TaxPayment, NEW period \in TaxPeriod, ClearUndueVat(v, period)
      PROVE  Fits(register', withdrawn', nextNumber')
  BY <1>4, SetNextFits DEF ClearUndueVat, MayRecognize
<1>5. ASSUME NEW v \in TaxPayment
      PROVE  /\ (IF Resets(v) THEN register \ RowsOfPayment("vat", v) ELSE register)
                  \in SUBSET RegisterRow
             /\ Fits(IF Resets(v) THEN register \ RowsOfPayment("vat", v) ELSE register,
                     IF Resets(v) THEN Withdrawn(v) ELSE withdrawn, nextNumber)
  <2>1. CASE Resets(v)
    BY <2>1, WithdrawnFits DEF VatTypeOK
  <2>2. CASE ~Resets(v)
    BY <2>2 DEF VatTypeOK
  <2> QED BY <2>1, <2>2
<1>6. ASSUME NEW v \in TaxPayment, NEW period \in TaxPeriod, MakeCertificate(v, period)
      PROVE  Fits(register', withdrawn', nextNumber')
  <2> DEFINE entered == IF Resets(v) THEN register \ RowsOfPayment("vat", v) ELSE register
  <2>1. /\ GetNextSequence("wht", period, v, TRUE, entered)
        /\ withdrawn' = IF Resets(v) THEN Withdrawn(v) ELSE withdrawn
    BY <1>6 DEF MakeCertificate
  <2>2. entered \in SUBSET RegisterRow /\ Fits(entered, withdrawn', nextNumber)
    BY <1>5, <2>1
  <2> HIDE DEF entered
  <2> QED BY <2>1, <2>2, GetNextFits DEF Book
<1>7. ASSUME NEW v \in TaxPayment, CancelVoucher(v)
      PROVE  Fits(register', withdrawn', nextNumber')
  <2> DEFINE entered == IF Resets(v) THEN register \ RowsOfPayment("vat", v) ELSE register
  <2>1. /\ register' = {IF r.payment = v THEN [r EXCEPT !.live = FALSE] ELSE r : r \in entered}
        /\ withdrawn' = IF Resets(v) THEN Withdrawn(v) ELSE withdrawn
        /\ UNCHANGED nextNumber
    BY <1>7 DEF CancelVoucher
  <2>2. entered \in SUBSET RegisterRow /\ Fits(entered, withdrawn', nextNumber)
    BY <1>5, <2>1
  <2> HIDE DEF entered
  <2>3. Fits({IF r.payment = v THEN [r EXCEPT !.live = FALSE] ELSE r : r \in entered}, withdrawn', nextNumber)
    BY <2>2, CanceledFits
  <2> QED BY <2>1, <2>3
<1>8. ASSUME NEW v \in TaxPayment, NEW manual \in BOOLEAN, EditDraft(v, manual)
      PROVE  Fits(register', withdrawn', nextNumber')
  BY <1>1, <1>2, <1>8 DEF EditDraft
<1>9. ASSUME NEW v \in TaxPayment, ActionCancelDraft(v)
      PROVE  Fits(register', withdrawn', nextNumber')
  BY <1>2, <1>9 DEF ActionCancelDraft
<1>10. ASSUME NEW v \in TaxPayment,
              \/ \E period \in TaxPeriod : SaveTaxDetail(v, period)
              \/ \E kind \in Dialog : OpenDialog(kind, v)
              \/ RemoveRecognition(v)
       PROVE  Fits(register', withdrawn', nextNumber')
  BY <1>1, <1>10 DEF SaveTaxDetail, OpenDialog, RemoveRecognition
<1>11. CASE SwitchSetting \/ UNCHANGED vatVars
  BY <1>1, <1>11 DEF SwitchSetting, vatVars
<1> QED
  BY <1>3, <1>4, <1>6, <1>7, <1>8, <1>9, <1>10, <1>11 DEF VatNext, VatPaymentStep

LEMMA VatStepInd == VatInd /\ [VatNext]_vatVars => VatInd'
BY VatStepType, ReversedStep, FitsStep, AllBookedStep DEF VatInd

LEMMA VatIndAlways == VatSpec => []VatInd
BY VatInitInd, VatStepInd, PTL DEF VatSpec

\* The numbers of a register run on, whatever fails or happens late.
THEOREM NumbersRunOnAlways == VatSpec => []NumbersRunOn
<1>1. VatInd => NumbersRunOn
  <2> SUFFICES ASSUME VatInd, NEW book \in Book, NEW period \in TaxPeriod,
                      NEW number \in 1 .. nextNumber[<<book, period>>] - 1
               PROVE  Cardinality({r \in register : /\ r.book = book /\ r.period = period
                                                    /\ r.number = number})
                        + (IF <<book, period, number>> \in withdrawn THEN 1 ELSE 0) = 1
    BY DEF NumbersRunOn
  <2> DEFINE entered == {r \in register : r.book = book /\ r.period = period /\ r.number = number}
  <2>1. nextNumber[<<book, period>>] \in Nat /\ number \in Nat
    BY UndueVatAssumption DEF VatInd, VatTypeOK
  <2>2. CASE <<book, period, number>> \in withdrawn
    <3>1. entered = {}
      BY <2>1, <2>2 DEF VatInd, Fits
    <3>2. Cardinality(entered) = 0
      BY <3>1, FS_EmptySet
    <3> QED BY <2>2, <3>2
  <2>3. CASE <<book, period, number>> \notin withdrawn
    <3>1. PICK r \in entered : TRUE
      BY <2>3 DEF VatInd, Fits
    <3>2. entered = {r}
      BY <3>1 DEF VatInd, Fits
    <3>3. Cardinality(entered) = 1
      <4> HIDE DEF entered
      <4> QED BY <3>2, FS_Singleton
    <3> QED BY <2>3, <3>3
  <2> QED BY <2>2, <2>3
<1> QED BY <1>1, VatIndAlways, PTL

\* A set in which any two elements are equal has one element, or none.
LEMMA AtMostOne ==
  ASSUME NEW S, \A r, s \in S : r = s
  PROVE  Cardinality(S) = IF S = {} THEN 0 ELSE 1
<1>1. CASE S = {}
  BY <1>1, FS_EmptySet
<1>2. ASSUME NEW r \in S PROVE Cardinality(S) = 1
  <2>1. S = {r}
    BY <1>2
  <2> QED BY <2>1, FS_Singleton
<1> QED BY <1>1, <1>2

\* What is declared is what the books say.
THEOREM DeclaredAsBookedAlways == VatSpec => []DeclaredAsBooked
<1>1. VatInd => DeclaredAsBooked
  <2> SUFFICES ASSUME VatInd, accidents = {}, NEW v \in TaxPayment
               PROVE  /\ ~payments[v].lost =>
                           InBooks(v) = Cardinality({r \in RowsOfPayment("vat", v) : r.live})
                      /\ payments[v].reversals = IF voids /\ payments[v].state = "cancel" THEN 1 ELSE 0
                      /\ Cardinality({r \in RowsOfPayment("wht", v) : r.live})
                           <= IF payments[v].state = "posted" THEN 1 ELSE 0
    BY DEF DeclaredAsBooked
  <2> DEFINE vat == {r \in RowsOfPayment("vat", v) : r.live}
             wht == {r \in RowsOfPayment("wht", v) : r.live}
  <2>1. VatBooked(v)
    BY DEF VatInd, AllBooked
  <2>2. /\ Cardinality(vat) = IF vat = {} THEN 0 ELSE 1
        /\ Cardinality(wht) = IF wht = {} THEN 0 ELSE 1
    BY <2>1, AtMostOne DEF VatBooked
  <2>3. payments[v].state # "posted" => vat = {} /\ wht = {}
    BY <2>1 DEF VatBooked
  <2>4. payments[v].state = "posted" => vat = RowsOfPayment("vat", v)
    BY <2>1 DEF VatBooked
  <2>5. payments[v].state = "posted" => (vat # {} <=>
          autoRecognize \/ payments[v].clearing \/ payments[v].lost)
    BY <2>1, <2>4 DEF VatBooked
  <2> HIDE DEF vat, wht
  <2>6. ~payments[v].lost => InBooks(v) = Cardinality(vat)
    BY <2>1, <2>2, <2>3, <2>5 DEF VatBooked, InBooks
  <2>7. payments[v].reversals = IF voids /\ payments[v].state = "cancel" THEN 1 ELSE 0
    BY <2>1 DEF VatBooked
  <2>8. Cardinality(wht) <= IF payments[v].state = "posted" THEN 1 ELSE 0
    BY <2>2, <2>3
  <2> QED BY <2>6, <2>7, <2>8 DEF vat, wht
<1> QED BY <1>1, VatIndAlways, PTL

\* The variables keep their types.
THEOREM VatTypeCorrect == VatSpec => []VatTypeOK
<1>1. VatInd => VatTypeOK
  BY DEF VatInd
<1> QED BY <1>1, VatIndAlways, PTL

-----------------------------------------------------------------------------
(* Amounts of payments: rounding *)

\* Rounding to cents is off by half a cent at most.
LEMMA InCentsNear ==
  ASSUME NEW n \in Int, NEW d \in Nat \ {0}
  PROVE  /\ InCents(n, d) \in Int
         /\ n >= 0 => InCents(n, d) >= 0
         /\ 2 * (InCents(n, d) * d) - 2 * n <= d
         /\ 2 * n - 2 * (InCents(n, d) * d) <= d
<1>1. CASE n >= 0
  <2> DEFINE q == (2 * n + d) \div (2 * d)
  <2>1. /\ q \in Int /\ q >= 0
        /\ (2 * d) * q <= 2 * n + d /\ 2 * n + d < (2 * d) * q + 2 * d
    BY <1>1
  <2>2. InCents(n, d) = q
    BY <1>1 DEF InCents
  <2> HIDE DEF q
  <2> QED BY <2>1, <2>2
<1>2. CASE n < 0
  <2> DEFINE q == (d - 2 * n) \div (2 * d)
  <2>1. /\ q \in Int
        /\ (2 * d) * q <= d - 2 * n /\ d - 2 * n < (2 * d) * q + 2 * d
    BY <1>2
  <2>2. InCents(n, d) = -q
    BY <1>2 DEF InCents
  <2> HIDE DEF q
  <2> QED BY <1>2, <2>1, <2>2
<1> QED BY <1>1, <1>2

LEMMA CancelFactor ==
  ASSUME NEW a \in Int, NEW b \in Int, NEW c \in Nat \ {0}, a * c <= b * c
  PROVE  a <= b
<1>1. ASSUME b < a PROVE FALSE
  <2>1. (b + 1) * c <= a * c
    BY <1>1
  <2> QED BY <2>1
<1> QED BY <1>1

-----------------------------------------------------------------------------
(* Amounts of payments: bills *)

LEMMA BillConstants ==
  ASSUME NEW b \in VendorBill
  PROVE  /\ b \in Nat
         /\ IsFiniteSet(DOMAIN BillLine[b])
         /\ \A k \in DOMAIN BillLine[b] : BillLine[b][k].base \in Nat
         /\ VatRate[1] \in Nat /\ VatRate[2] \in Nat \ {0}
         /\ WhtRate[1] \in Nat /\ WhtRate[2] \in Nat \ {0}
         /\ WithholdingLines[b] \subseteq DOMAIN BillLine[b]
         /\ LinesAbove[b] \subseteq WithholdingLines[b]
         /\ IsFiniteSet(WithholdingLines[b]) /\ IsFiniteSet(LinesAbove[b])
         /\ Cardinality(LinesAbove[b]) \in Nat
<1>1. BillLine[b] \in Seq([base : Nat, wht : BOOLEAN])
  BY PaymentAmountsAssumption
<1>2. DOMAIN BillLine[b] = 1 .. Len(BillLine[b]) /\ Len(BillLine[b]) \in Nat
  BY <1>1
<1>3. IsFiniteSet(DOMAIN BillLine[b])
  <2> DEFINE last == Len(BillLine[b])
  <2>1. 1 \in Int /\ last \in Int /\ DOMAIN BillLine[b] = 1 .. last
    BY <1>2
  <2> HIDE DEF last
  <2>2. IsFiniteSet(1 .. last)
    BY <2>1, FS_Interval
  <2> QED BY <2>1, <2>2
<1>4. \A k \in DOMAIN BillLine[b] : BillLine[b][k].base \in Nat
  <2> DEFINE Row == [base : Nat, wht : BOOLEAN]
             items == BillLine[b]
  <2>1. \A k \in 1 .. Len(items) : items[k] \in Row
    <3>1. items \in Seq(Row)
      BY <1>1
    <3> HIDE DEF Row, items
    <3> QED BY <3>1
  <2> QED BY <1>2, <2>1
<1>5. WithholdingLines[b] \subseteq DOMAIN BillLine[b] /\ LinesAbove[b] \subseteq WithholdingLines[b]
  BY DEF WithholdingLines, LinesAbove
<1>6. IsFiniteSet(WithholdingLines[b]) /\ IsFiniteSet(LinesAbove[b])
  BY <1>3, <1>5, FS_Subset
<1>7. Cardinality(LinesAbove[b]) \in Nat
  BY <1>6, FS_CardinalityType
<1> QED BY <1>3, <1>4, <1>5, <1>6, <1>7, PaymentAmountsAssumption

\* The tax on a line of a bill
LEMMA TaxType ==
  ASSUME NEW b \in VendorBill, NEW k \in DOMAIN BillLine[b], NEW n \in Int, NEW d \in Nat \ {0}
  PROVE  /\ TaxOf(VatRate, BillLine[b][k].base, n, d) \in Int
         /\ TaxOf(WhtRate, BillLine[b][k].base, n, d) \in Int
         /\ n >= 0 => /\ TaxOf(VatRate, BillLine[b][k].base, n, d) \in Nat
                      /\ TaxOf(WhtRate, BillLine[b][k].base, n, d) \in Nat
<1>1. ASSUME NEW r \in Nat, NEW e \in Nat \ {0}
      PROVE  LET x == InCents(r * BillLine[b][k].base * n, e * d)
             IN  x \in Int /\ (n >= 0 => x \in Nat)
  <2>1. BillLine[b][k].base \in Nat
    BY BillConstants
  <2> DEFINE m == r * BillLine[b][k].base
  <2>2. m \in Nat /\ e * d \in Nat \ {0}
    BY <2>1
  <2> HIDE DEF m
  <2>3. m * n \in Int /\ (n >= 0 => m * n >= 0)
    BY <2>2
  <2>4. InCents(m * n, e * d) \in Int /\ (n >= 0 => InCents(m * n, e * d) >= 0)
    BY <2>2, <2>3, InCentsNear
  <2> QED BY <2>4 DEF m
<1> QED BY <1>1, BillConstants DEF TaxOf

\* What is withheld from n / d of a bill
LEMMA WithheldType ==
  ASSUME NEW b \in VendorBill, NEW n \in Int, NEW d \in Nat \ {0}
  PROVE  /\ \A k \in DOMAIN BillLine[b] : WhtOf(b, n, d)[k] \in Int
         /\ Withheld(b, n, d) \in Int /\ WithheldAbove(b, n, d) \in Int
         /\ n >= 0 => Withheld(b, n, d) \in Nat /\ WithheldAbove(b, n, d) \in Nat
<1>1. \A k \in DOMAIN BillLine[b] : WhtOf(b, n, d)[k] = TaxOf(WhtRate, BillLine[b][k].base, n, d)
  BY DEF WhtOf
<1>2. \A k \in DOMAIN BillLine[b] : /\ WhtOf(b, n, d)[k] \in Int
                                    /\ n >= 0 => WhtOf(b, n, d)[k] \in Nat
  BY <1>1, TaxType
<1>3. /\ WithholdingLines[b] \subseteq DOMAIN BillLine[b] /\ LinesAbove[b] \subseteq DOMAIN BillLine[b]
      /\ IsFiniteSet(WithholdingLines[b]) /\ IsFiniteSet(LinesAbove[b])
  BY BillConstants
<1>4. Withheld(b, n, d) \in Int /\ WithheldAbove(b, n, d) \in Int
  BY <1>2, <1>3, SumType DEF Withheld, WithheldAbove
<1>5. n >= 0 => Withheld(b, n, d) \in Nat /\ WithheldAbove(b, n, d) \in Nat
  <2> DEFINE F == WhtOf(b, n, d)
  <2> SUFFICES ASSUME n >= 0
               PROVE  /\ SumFunctionOnSet(F, WithholdingLines[b]) \in Nat
                      /\ SumFunctionOnSet(F, LinesAbove[b]) \in Nat
    BY DEF Withheld, WithheldAbove
  <2>1. /\ \A k \in WithholdingLines[b] : F[k] \in Nat
        /\ \A k \in LinesAbove[b] : F[k] \in Nat
    BY <1>2, <1>3
  <2> HIDE DEF F
  <2>2. SumFunctionOnSet(F, WithholdingLines[b]) \in Nat
    BY <1>3, <2>1, SumNotNegative
  <2>3. SumFunctionOnSet(F, LinesAbove[b]) \in Nat
    BY <1>3, <2>1, SumNotNegative
  <2> QED BY <2>2, <2>3
<1> QED BY <1>2, <1>4, <1>5

LEMMA OriginalType ==
  ASSUME NEW b \in VendorBill
  PROVE  /\ VatOf[b] \in Nat /\ Original[b] \in Nat \ {0}
         /\ Common \in Nat \ {0} /\ Common \div Original[b] \in Nat \ {0}
         /\ Original[b] * (Common \div Original[b]) = Common
<1> DEFINE vat == [k \in DOMAIN BillLine[b] |-> TaxOf(VatRate, BillLine[b][k].base, 1, 1)]
           base == [k \in DOMAIN BillLine[b] |-> BillLine[b][k].base]
<1>1. \A k \in DOMAIN BillLine[b] : vat[k] \in Nat /\ base[k] \in Nat
  <2> TAKE k \in DOMAIN BillLine[b]
  <2>1. TaxOf(VatRate, BillLine[b][k].base, 1, 1) \in Nat
    <3>1. 1 \in Int /\ 1 \in Nat \ {0} /\ 1 >= 0
      OBVIOUS
    <3> QED BY <3>1, TaxType
  <2>2. BillLine[b][k].base \in Nat
    BY BillConstants
  <2> QED BY <2>1, <2>2
<1>2. IsFiniteSet(DOMAIN BillLine[b])
  BY BillConstants
<1>3. VatOf[b] = SumFunctionOnSet(vat, DOMAIN BillLine[b])
  BY DEF VatOf
<1>4. Original[b] = SumFunctionOnSet(base, DOMAIN BillLine[b]) + VatOf[b]
  BY DEF Original
<1> HIDE DEF vat, base
<1>5. VatOf[b] \in Nat /\ SumFunctionOnSet(base, DOMAIN BillLine[b]) \in Nat
  BY <1>1, <1>2, <1>3, SumNotNegative
<1>6. Original[b] \in Nat \ {0}
  BY <1>4, <1>5, BillsAssumption
<1> DEFINE o == Original[b]
           m == Common \div o
<1>7. o * m = Common /\ Common \in Nat \ {0}
  BY BillsAssumption
<1>8. m \in Int
  <2> HIDE DEF o
  <2> QED BY <1>6, <1>7 DEF o
<1>9. m \in Nat \ {0}
  <2>1. o \in Nat \ {0}
    BY <1>6
  <2> HIDE DEF o, m
  <2>2. CASE m <= 0
    <3>1. o * m <= 0
      BY <1>8, <2>1, <2>2
    <3> QED BY <1>7, <3>1
  <2> QED BY <1>8, <2>2
<1> QED BY <1>5, <1>6, <1>7, <1>9

\* What is paid of a bill in the end
LEMMA NetOriginalType ==
  ASSUME NEW b \in VendorBill, retained \in Retention
  PROVE  /\ NetOriginal(b) \in Nat /\ retained[b] \in Nat
         /\ NetOriginal(b) + Withheld(b, 1, 1) + retained[b] = Original[b]
<1>1. Original[b] \in Nat /\ Withheld(b, 1, 1) \in Nat /\ retained[b] \in Nat
  <2>1. 1 \in Int /\ 1 \in Nat \ {0} /\ 1 >= 0
    OBVIOUS
  <2>2. Withheld(b, 1, 1) \in Nat
    BY <2>1, WithheldType
  <2>3. retained \in [VendorBill -> Nat]
    BY PaymentAmountsAssumption
  <2> QED BY <2>2, <2>3, OriginalType
<1>2. Withheld(b, 1, 1) + retained[b] <= Original[b]
  BY BillsAssumption
<1> QED BY <1>1, <1>2 DEF NetOriginal

-----------------------------------------------------------------------------
(* Amounts of payments: lines *)

LEMMA TwoNumbers ==
  ASSUME NEW a \in Int, NEW b \in Int
  PROVE  /\ Max({a, b}) = IF a >= b THEN a ELSE b
         /\ Min({a, b}) = IF a <= b THEN a ELSE b
BY DEF Max, Min

LineRow == [amount : Int, wht : Int, retention : Int]

LEMMA FullAllocationType ==
  ASSUME NEW b \in VendorBill, retained \in Retention, residual[b] \in Nat
  PROVE  /\ FullAllocation(b) \in Nat
         /\ FullAllocation(b) # 0 => NetOriginal(b) # 0
         /\ FullAllocation(b) * Original[b] = residual[b] * (NetOriginal(b) * Common)
<1> DEFINE net == NetOriginal(b)
           m == Common \div Original[b]
           o == Original[b]
           r == residual[b]
<1>1. net \in Nat /\ m \in Nat /\ o \in Nat /\ r \in Nat /\ o * m = Common
  BY NetOriginalType, OriginalType
<1>2. FullAllocation(b) = r * net * m
  BY DEF FullAllocation
<1> HIDE DEF net, m, o, r
<1>3. r * net * m \in Nat /\ (r * net * m # 0 => net # 0)
  BY <1>1
<1>4. (r * net * m) * o = r * (net * (o * m))
  <2> DEFINE x == r * net
  <2>1. x \in Int /\ (x * m) * o = x * (o * m)
    BY <1>1
  <2>2. x * (o * m) = r * (net * (o * m))
    <3> DEFINE z == o * m
    <3>1. z \in Int
      BY <1>1
    <3> HIDE DEF z
    <3> QED BY <1>1, <3>1
  <2> QED BY <2>1, <2>2
<1> QED BY <1>1, <1>2, <1>3, <1>4 DEF net, o, r

LEMMA AllocationType ==
  ASSUME retained \in Retention, NEW selected \in SUBSET VendorBill,
         \A c \in selected : residual[c] \in Nat,
         NEW b \in selected, NEW price \in Int, NEW dialog \in BOOLEAN
  PROVE  /\ Allocation(selected, b, price, dialog) \in Nat
         /\ Allocation(selected, b, price, dialog) <= FullAllocation(b)
         /\ Allocation(selected, b, price, dialog) # 0 => NetOriginal(b) # 0
         /\ dialog => Allocation(selected, b, price, dialog) = FullAllocation(b)
<1> DEFINE full == [c \in selected |-> FullAllocation(c)]
           refunded == SumFunctionOnSet(full, selected \cap RefundBill)
           before == SumFunctionOnSet(full, {c \in selected \ RefundBill : c < b})
           remaining == Max({0, price * Common + refunded - before})
           alloc == Allocation(selected, b, price, dialog)
<1>1. FullAllocation(b) \in Nat /\ (FullAllocation(b) # 0 => NetOriginal(b) # 0)
  BY FullAllocationType
<1>2. alloc = IF dialog \/ b \in RefundBill THEN FullAllocation(b)
              ELSE Min({FullAllocation(b), remaining})
  BY DEF Allocation
<1>3. remaining \in Nat
  <2>1. \A c \in selected : full[c] \in Nat
    BY FullAllocationType
  <2>2. \A s \in SUBSET selected : IsFiniteSet(s)
    BY PaymentAmountsAssumption, FS_Subset
  <2>3. refunded \in Int /\ before \in Int
    <3> HIDE DEF full
    <3>1. (selected \cap RefundBill) \in SUBSET selected /\ {c \in selected \ RefundBill : c < b} \in SUBSET selected
      OBVIOUS
    <3>2. \A s \in SUBSET selected : SumFunctionOnSet(full, s) \in Int
      BY <2>1, <2>2, SumType
    <3> QED BY <3>1, <3>2
  <2>4. price * Common \in Int
    BY OriginalType
  <2> HIDE DEF refunded, before
  <2>5. price * Common + refunded - before \in Int
    BY <2>3, <2>4
  <2> QED BY <2>5, TwoNumbers
<1> HIDE DEF remaining, alloc
<1>4. Min({FullAllocation(b), remaining}) \in {n \in Nat : n <= FullAllocation(b)}
  <2> DEFINE f == FullAllocation(b)
  <2>1. f \in Nat
    BY <1>1
  <2> HIDE DEF f
  <2>2. Min({f, remaining}) = IF f <= remaining THEN f ELSE remaining
    <3>1. f \in Int /\ remaining \in Int
      BY <1>3, <2>1
    <3> QED BY <3>1, TwoNumbers
  <2>3. Min({f, remaining}) \in {n \in Nat : n <= f}
    BY <1>3, <2>1, <2>2
  <2> QED BY <2>3 DEF f
<1> QED BY <1>1, <1>2, <1>4 DEF alloc

LEMMA LineForNetType ==
  ASSUME retained \in Retention, NEW b \in VendorBill, NEW net \in Nat,
         net # 0 => NetOriginal(b) # 0
  PROVE  LineForNet(b, net) \in LineRow /\ LineForNet(b, net).amount >= 0
<1> DEFINE o == NetOriginal(b)
           base == o * Common
           wht == WithheldAbove(b, net, base)
           row == [amount |-> InCents(net * o + wht * base + retained[b] * net, base),
                   wht |-> -wht, retention |-> -InCents(retained[b] * net, base)]
<1>1. CASE net = 0
  BY <1>1 DEF LineForNet, LineRow
<1>2. CASE net # 0
  <2>1. LineForNet(b, net) = row
    BY <1>2 DEF LineForNet
  <2>2. o \in Nat \ {0} /\ retained[b] \in Nat /\ Common \in Nat \ {0}
    BY <1>2, NetOriginalType, OriginalType
  <2>3. base \in Nat \ {0}
    <3> HIDE DEF o
    <3> QED BY <2>2
  <2>4. wht \in Nat
    <3> HIDE DEF base
    <3>1. net >= 0 /\ net \in Int
      OBVIOUS
    <3> QED BY <2>3, <3>1, WithheldType
  <2> HIDE DEF base, o, wht
  <2> DEFINE n == net * o + wht * base + retained[b] * net
  <2>5. n \in Nat /\ retained[b] * net \in Nat
    BY <2>2, <2>3, <2>4
  <2> HIDE DEF n
  <2> DEFINE kept == retained[b] * net
  <2>6. InCents(n, base) \in Nat /\ InCents(kept, base) \in Int
    <3>1. n \in Int /\ n >= 0 /\ kept \in Int
      BY <2>5
    <3> HIDE DEF kept
    <3>2. InCents(n, base) \in Int /\ InCents(n, base) >= 0
      BY <2>3, <3>1, InCentsNear
    <3>3. InCents(kept, base) \in Int
      BY <2>3, <3>1, InCentsNear
    <3> QED BY <3>2, <3>3
  <2>7. row \in LineRow /\ row.amount >= 0
    BY <2>4, <2>6 DEF LineRow, n
  <2> QED BY <2>1, <2>7
<1> QED BY <1>1, <1>2

LEMMA LineForGrossType ==
  ASSUME retained \in Retention, NEW b \in VendorBill, NEW amount \in Int
  PROVE  LineForGross(b, amount) \in LineRow /\ LineForGross(b, amount).amount = amount
<1>1. Withheld(b, amount, Original[b]) \in Int
  BY OriginalType, WithheldType
<1>2. InCents(retained[b] * amount, Original[b]) \in Int
  <2> DEFINE o == Original[b]
             kept == retained[b] * amount
  <2>1. o \in Nat \ {0} /\ kept \in Int
    BY NetOriginalType, OriginalType
  <2> HIDE DEF o, kept
  <2>2. InCents(kept, o) \in Int
    BY <2>1, InCentsNear
  <2> QED BY <2>2 DEF o, kept
<1> QED BY <1>1, <1>2 DEF LineForGross, LineRow

LEMMA RecomputedLinesType ==
  ASSUME retained \in Retention, NEW selected \in SUBSET VendorBill,
         \A c \in selected : residual[c] \in Nat, NEW price \in Int, NEW dialog \in BOOLEAN
  PROVE  /\ RecomputedLines(selected, price, dialog) \in [selected -> LineRow]
         /\ \A b \in selected : RecomputedLines(selected, price, dialog)[b].amount >= 0
<1>1. ASSUME NEW b \in selected
      PROVE  LET line == LineForNet(b, Allocation(selected, b, price, dialog))
             IN  line \in LineRow /\ line.amount >= 0
  BY AllocationType, LineForNetType
<1> QED BY <1>1 DEF RecomputedLines

-----------------------------------------------------------------------------
(* Amounts of payments: what rounding adds up to *)

\* As many times as much
LEMMA TimesNear ==
  ASSUME NEW x \in Int, NEW y \in Int, NEW z \in Int, NEW n \in Nat, x - y <= z, y - x <= z
  PROVE  n * x - n * y <= n * z /\ n * y - n * x <= n * z
<1>1. n * (x - y) <= n * z /\ n * (y - x) <= n * z
  OBVIOUS
<1>2. n * (x - y) = n * x - n * y /\ n * (y - x) = n * y - n * x
  OBVIOUS
<1> QED BY <1>1, <1>2

LEMMA QuotientsNear ==
  ASSUME NEW t \in Int, NEW u \in Int, NEW x \in Int,
         NEW d \in Nat \ {0}, NEW e \in Nat \ {0}, NEW n \in Nat, n <= d,
         2 * (t * (e * d)) - 2 * (x * n) <= e * d, 2 * (x * n) - 2 * (t * (e * d)) <= e * d,
         2 * (u * e) - 2 * x <= e, 2 * x - 2 * (u * e) <= e
  PROVE  d * t - n * u <= d /\ n * u - d * t <= d
<1> DEFINE p == d * t
           q == n * u
           ep == e * p
           eq == e * q
           xn == x * n
           ed == e * d
           en == e * n
<1>1. /\ p \in Int /\ q \in Int /\ ep \in Int /\ eq \in Int /\ xn \in Int
      /\ ed \in Int /\ en \in Int
  OBVIOUS
<1>2. t * (e * d) = ep
  OBVIOUS
<1>3. n * (2 * (u * e)) = 2 * eq /\ n * (2 * x) = 2 * xn /\ n * e = en
  OBVIOUS
<1>4. n * (2 * (u * e)) - n * (2 * x) <= n * e /\ n * (2 * x) - n * (2 * (u * e)) <= n * e
  <2>1. 2 * (u * e) \in Int /\ 2 * x \in Int /\ e \in Int
    OBVIOUS
  <2> QED BY <2>1, TimesNear
<1>5. 2 * eq - 2 * xn <= en /\ 2 * xn - 2 * eq <= en
  BY <1>3, <1>4
<1>6. 2 * ep - 2 * xn <= ed /\ 2 * xn - 2 * ep <= ed
  BY <1>2
<1>7. en <= ed
  OBVIOUS
<1>8. (p - q) * e = ep - eq /\ (q - p) * e = eq - ep /\ d * e = ed
  <2>1. p \in Int /\ q \in Int
    BY <1>1
  <2> HIDE DEF p, q
  <2> QED BY <2>1
<1> HIDE DEF p, q, ep, eq, xn, ed, en
<1>9. ep - eq <= ed /\ eq - ep <= ed
  BY <1>1, <1>5, <1>6, <1>7
<1>10. (p - q) * e <= d * e /\ (q - p) * e <= d * e
  BY <1>8, <1>9
<1>11. p - q \in Int /\ q - p \in Int /\ d \in Int
  BY <1>1
<1>12. p - q <= d /\ q - p <= d
  BY <1>10, <1>11, CancelFactor
<1> QED BY <1>12 DEF p, q

\* Withheld from each line for a part of a bill, the tax is about that part of it.
LEMMA TaxNear ==
  ASSUME NEW b \in VendorBill, NEW k \in DOMAIN BillLine[b],
         NEW n \in Nat, NEW d \in Nat \ {0}, n <= d
  PROVE  LET t == WhtOf(b, n, d)[k]
             u == WhtOf(b, 1, 1)[k]
         IN  /\ t \in Int /\ u \in Int
             /\ d * t - n * u <= d /\ n * u - d * t <= d
             /\ n = 0 => t = 0
<1> DEFINE base == BillLine[b][k].base
           r == WhtRate[1]
           e == WhtRate[2]
           t == WhtOf(b, n, d)[k]
           u == WhtOf(b, 1, 1)[k]
           x == r * base
<1>1. base \in Nat /\ r \in Nat /\ e \in Nat \ {0}
  BY BillConstants
<1>2. t = InCents(r * base * n, e * d) /\ u = InCents(r * base * 1, e * 1)
  BY DEF WhtOf, TaxOf
<1> HIDE DEF base, r, e, t, u
<1>3. x \in Nat
  BY <1>1
<1>4. r * base * n = x * n /\ r * base * 1 = x /\ e * 1 = e
  BY <1>1
<1> HIDE DEF x
<1>5. x * n \in Int /\ e * d \in Nat \ {0}
  BY <1>1, <1>3
<1>6. /\ t \in Int
      /\ 2 * (t * (e * d)) - 2 * (x * n) <= e * d /\ 2 * (x * n) - 2 * (t * (e * d)) <= e * d
  <2> DEFINE y == x * n
             f == e * d
  <2>1. y \in Int /\ f \in Nat \ {0} /\ t = InCents(y, f)
    BY <1>2, <1>4, <1>5
  <2> HIDE DEF y, f
  <2>2. t \in Int /\ 2 * (t * f) - 2 * y <= f /\ 2 * y - 2 * (t * f) <= f
    BY <2>1, InCentsNear
  <2> QED BY <2>2 DEF y, f
<1>7. u \in Int /\ 2 * (u * e) - 2 * x <= e /\ 2 * x - 2 * (u * e) <= e
  <2>1. u = InCents(x, e) /\ x \in Int
    BY <1>2, <1>3, <1>4
  <2> QED BY <1>1, <2>1, InCentsNear
<1>8. d * t - n * u <= d /\ n * u - d * t <= d
  <2>1. x \in Int
    BY <1>3
  <2> QED BY <1>1, <1>6, <1>7, <2>1, QuotientsNear
<1>9. n = 0 => t = 0
  <2> SUFFICES ASSUME n = 0 PROVE t = 0
    OBVIOUS
  <2>1. n * u = 0
    BY <1>7
  <2> DEFINE f == e * d
  <2>2. 2 * (t * f) <= f /\ -(2 * (t * f)) <= f
    <3>1. x * n = 0
      BY <1>3
    <3>2. t * (e * d) \in Int
      BY <1>5, <1>6
    <3> QED BY <1>5, <1>6, <3>1, <3>2
  <2>3. f \in Nat \ {0}
    BY <1>5
  <2> HIDE DEF f
  <2>4. (2 * t) * f <= 1 * f /\ (-(2 * t)) * f <= 1 * f
    BY <1>6, <2>2, <2>3
  <2>5. 2 * t <= 1 /\ -(2 * t) <= 1
    <3>1. 2 * t \in Int /\ -(2 * t) \in Int /\ 1 \in Int
      BY <1>6
    <3> DEFINE a == 2 * t
               c == -(2 * t)
    <3>2. a \in Int /\ c \in Int /\ a * f <= 1 * f /\ c * f <= 1 * f
      BY <2>4, <3>1
    <3> HIDE DEF a, c
    <3>3. a <= 1 /\ c <= 1
      BY <2>3, <3>1, <3>2, CancelFactor
    <3> QED BY <3>3 DEF a, c
  <2> QED BY <1>6, <2>5
<1> QED BY <1>6, <1>7, <1>8, <1>9 DEF t, u

\* The same of a bill, where the threshold makes no difference
LEMMA WithheldNear ==
  ASSUME NEW b \in VendorBill, LinesAbove[b] = WithholdingLines[b],
         NEW n \in Nat, NEW d \in Nat \ {0}, n <= d
  PROVE  LET w == Withheld(b, n, d)
             u == Withheld(b, 1, 1)
             c == Cardinality(LinesAbove[b])
         IN  /\ w \in Nat /\ u \in Nat /\ c \in Nat
             /\ WithheldAbove(b, n, d) = w /\ WithheldAbove(b, 1, 1) = u
             /\ d * w - n * u <= d * c /\ n * u - d * w <= d * c
<1> DEFINE w == Withheld(b, n, d)
           u == Withheld(b, 1, 1)
           S == LinesAbove[b]
           F == WhtOf(b, n, d)
           G == WhtOf(b, 1, 1)
           E == [k \in S |-> d]
           c == Cardinality(S)
<1>1. S \subseteq DOMAIN BillLine[b] /\ IsFiniteSet(S) /\ c \in Nat
  BY BillConstants
<1>2. /\ w = SumFunctionOnSet(F, S) /\ u = SumFunctionOnSet(G, S)
      /\ WithheldAbove(b, n, d) = w /\ WithheldAbove(b, 1, 1) = u
  BY DEF Withheld, WithheldAbove
<1>3. w \in Nat /\ u \in Nat
  <2>1. n \in Int /\ n >= 0 /\ 1 \in Int /\ 1 >= 0 /\ 1 \in Nat \ {0}
    OBVIOUS
  <2>2. w \in Nat
    BY <2>1, WithheldType
  <2>3. u \in Nat
    BY <2>1, WithheldType
  <2> QED BY <2>2, <2>3
<1>4. \A k \in S : /\ F[k] \in Int /\ G[k] \in Int /\ E[k] \in Int
                   /\ d * F[k] - n * G[k] <= E[k] /\ n * G[k] - d * F[k] <= E[k]
  BY <1>1, TaxNear
<1>5. SumFunctionOnSet(E, S) = d * c
  <2>1. IsFiniteSet(S) /\ d \in Int
    BY <1>1
  <2> HIDE DEF S
  <2> QED BY <2>1, SumOfSame
<1> HIDE DEF w, u, S, F, G, E, c
<1>6. d * w - n * u <= d * c /\ n * u - d * w <= d * c
  <2>1. d \in Int /\ n \in Int
    OBVIOUS
  <2> QED BY <1>1, <1>2, <1>4, <1>5, <2>1, SumsNear
<1> QED BY <1>1, <1>2, <1>3, <1>6 DEF w, u, c, S

\* The tax of a line is in proportion to its amount.
WhtNear(b, line) ==
  /\ line.amount = 0 => line.wht = 0
  /\ LinesAbove[b] = WithholdingLines[b] =>
       Abs(Original[b] * line.wht + Withheld(b, 1, 1) * line.amount)
          <= Original[b] * Cardinality(LinesAbove[b])

LEMMA AbsOf ==
  ASSUME NEW n \in Int
  PROVE  /\ Abs(n) \in Nat /\ n <= Abs(n) /\ -n <= Abs(n) /\ (Abs(n) = n \/ Abs(n) = -n)
         /\ \A m \in Int : n <= m /\ -n <= m => Abs(n) <= m
BY DEF Abs

LEMMA WithheldFromNothing ==
  ASSUME NEW b \in VendorBill, NEW d \in Nat \ {0}
  PROVE  Withheld(b, 0, d) = 0
<1> DEFINE F == WhtOf(b, 0, d)
           S == WithholdingLines[b]
<1>1. S \subseteq DOMAIN BillLine[b] /\ IsFiniteSet(S)
  BY BillConstants
<1>2. \A k \in S : F[k] \in Int /\ F[k] = 0
  <2>1. 0 \in Nat /\ 0 <= d
    OBVIOUS
  <2> QED BY <1>1, <2>1, TaxNear
<1>3. Withheld(b, 0, d) = SumFunctionOnSet(F, S)
  BY DEF Withheld
<1> HIDE DEF F, S
<1>4. SumFunctionOnSet(F, S) = SumFunctionOnSet(F, {})
  <2>1. \A k \in S \ {} : F[k] = 0
    BY <1>2
  <2> QED BY <1>1, <1>2, <2>1, SumZeros
<1> QED BY <1>3, <1>4, SumEmpty

LEMMA GrossNear ==
  ASSUME retained \in Retention, NEW b \in VendorBill, NEW amount \in Nat, amount <= Original[b]
  PROVE  WhtNear(b, LineForGross(b, amount))
<1> DEFINE o == Original[b]
           w == Withheld(b, amount, o)
           u == Withheld(b, 1, 1)
           c == Cardinality(LinesAbove[b])
           line == LineForGross(b, amount)
<1>1. o \in Nat \ {0} /\ amount <= o
  BY OriginalType
<1>2. line.amount = amount /\ line.wht = -w
  BY DEF LineForGross
<1>3. amount = 0 => w = 0
  BY <1>1, WithheldFromNothing
<1>4. ASSUME LinesAbove[b] = WithholdingLines[b]
      PROVE  /\ w \in Nat /\ u \in Nat /\ c \in Nat
             /\ o * w - amount * u <= o * c /\ amount * u - o * w <= o * c
  <2> HIDE DEF o
  <2> QED BY <1>1, <1>4, WithheldNear
<1> HIDE DEF o, w, u, c, line
<1>5. ASSUME LinesAbove[b] = WithholdingLines[b]
      PROVE  Abs(o * line.wht + u * line.amount) <= o * c
  <2> DEFINE x == o * w
             y == u * amount
             z == o * c
  <2>1. x \in Int /\ y \in Int /\ z \in Int /\ amount * u = y
    BY <1>1, <1>4, <1>5
  <2>2. x - y <= z /\ y - x <= z
    BY <1>4, <1>5, <2>1
  <2>3. o * line.wht + u * line.amount = -x + y
    <3>1. o * (-w) = -x
      BY <1>1, <1>4, <1>5
    <3> QED BY <1>2, <3>1
  <2> HIDE DEF x, y, z
  <2>4. -x + y \in Int /\ -x + y <= z /\ -(-x + y) <= z
    BY <2>1, <2>2
  <2>5. Abs(-x + y) <= z
    BY <2>1, <2>4, AbsOf
  <2> QED BY <2>3, <2>5 DEF z
<1> QED BY <1>2, <1>3, <1>5 DEF WhtNear, o, u, c, line

\* A line for a net amount: what it is made of
LEMMA NetParts ==
  ASSUME retained \in Retention, NEW b \in VendorBill, NEW net \in Nat \ {0},
         NetOriginal(b) # 0, net <= NetOriginal(b) * Common
  PROVE  LET base == NetOriginal(b) * Common
             w == WithheldAbove(b, net, base)
             u == Withheld(b, 1, 1)
             o == Original[b]
             c == Cardinality(LinesAbove[b])
             line == LineForNet(b, net)
             a == line.amount
         IN  /\ base \in Nat \ {0} /\ w \in Nat /\ u \in Nat /\ o \in Nat \ {0} /\ u <= o
             /\ a \in Nat /\ line.wht = -w /\ c \in Nat
             /\ w * base <= net * (o - u) + w * base
             /\ 2 * (a * base) - 2 * (net * (o - u) + w * base) <= base
             /\ 2 * (net * (o - u) + w * base) - 2 * (a * base) <= base
             /\ LinesAbove[b] = WithholdingLines[b] =>
                  base * w - net * u <= base * c /\ net * u - base * w <= base * c
<1> DEFINE no == NetOriginal(b)
           base == no * Common
           w == WithheldAbove(b, net, base)
           u == Withheld(b, 1, 1)
           o == Original[b]
           r == retained[b]
           c == Cardinality(LinesAbove[b])
           line == LineForNet(b, net)
           a == line.amount
           x == net * no + w * base + r * net
<1>1. /\ no \in Nat \ {0} /\ Common \in Nat \ {0} /\ r \in Nat /\ o \in Nat \ {0}
      /\ no + u + r = o
  BY NetOriginalType, OriginalType
<1>2. u \in Nat
  <2>1. 1 \in Int /\ 1 \in Nat \ {0} /\ 1 >= 0
    OBVIOUS
  <2> QED BY <2>1, WithheldType
<1>3. base \in Nat \ {0}
  <2> HIDE DEF no
  <2> QED BY <1>1
<1>4. w \in Nat /\ c \in Nat
  <2>1. net \in Int /\ net >= 0
    OBVIOUS
  <2> HIDE DEF base
  <2> QED BY <1>3, <2>1, WithheldType, BillConstants
<1>5. a = InCents(x, base) /\ line.wht = -w
  BY DEF LineForNet
<1>6. LinesAbove[b] = WithholdingLines[b] =>
        base * w - net * u <= base * c /\ net * u - base * w <= base * c
  <2>1. net \in Nat /\ net <= base
    OBVIOUS
  <2> HIDE DEF base, c
  <2> SUFFICES ASSUME LinesAbove[b] = WithholdingLines[b]
               PROVE  base * w - net * u <= base * c /\ net * u - base * w <= base * c
    OBVIOUS
  <2>2. w = Withheld(b, net, base) /\ base * Withheld(b, net, base) - net * u <= base * c
        /\ net * u - base * Withheld(b, net, base) <= base * c
    BY <1>3, <2>1, WithheldNear DEF c
  <2> QED BY <2>2
<1> HIDE DEF no, base, w, u, o, r, c, line, a
<1>7. /\ x = net * (o - u) + w * base /\ x \in Nat
      /\ w * base <= net * (o - u) + w * base
      /\ net * (o - u) + w * base \in Int
  <2> DEFINE y == w * base
             z == net * (no + r)
  <2>1. y \in Nat /\ z \in Nat /\ o - u = no + r
    BY <1>1, <1>2, <1>3, <1>4
  <2>2. x = z + y
    BY <1>1, <2>1
  <2> HIDE DEF y, z, x
  <2>3. net * (o - u) + w * base = z + y
    BY <2>1 DEF y, z
  <2> QED BY <2>1, <2>2, <2>3 DEF y
<1>8. a \in Nat /\ 2 * (a * base) - 2 * x <= base /\ 2 * x - 2 * (a * base) <= base
  <2>1. x \in Int /\ x >= 0
    BY <1>7
  <2> HIDE DEF x
  <2>2. /\ InCents(x, base) \in Int /\ InCents(x, base) >= 0
        /\ 2 * (InCents(x, base) * base) - 2 * x <= base
        /\ 2 * x - 2 * (InCents(x, base) * base) <= base
    BY <1>3, <2>1, InCentsNear
  <2>3. a = InCents(x, base)
    BY <1>5 DEF x
  <2> QED BY <2>2, <2>3
<1>9. u <= o
  BY <1>1, <1>2
<1>10. /\ 2 * (a * base) - 2 * (net * (o - u) + w * base) <= base
       /\ 2 * (net * (o - u) + w * base) - 2 * (a * base) <= base
  <2> HIDE DEF x
  <2> QED BY <1>7, <1>8
<1> QED BY <1>1, <1>2, <1>3, <1>4, <1>5, <1>6, <1>7, <1>8, <1>9, <1>10
        DEF no, base, w, u, o, r, c, line, a

LEMMA NetNearNumbers ==
  ASSUME NEW base \in Nat \ {0}, NEW w \in Nat, NEW u \in Nat, NEW o \in Nat \ {0}, u <= o,
         NEW a \in Nat, NEW c \in Nat, NEW net \in Nat,
         2 * (a * base) - 2 * (net * (o - u) + w * base) <= base,
         2 * (net * (o - u) + w * base) - 2 * (a * base) <= base,
         base * w - net * u <= base * c, net * u - base * w <= base * c,
         c = 0 => u = 0
  PROVE  o * w - u * a <= o * c /\ u * a - o * w <= o * c
<1> DEFINE bw == base * w
           nu == net * u
           bc == base * c
           ab == a * base
           no == net * o
           del == bw - nu
           uc == u * bc
           oc == o * bc
           k == o - u
           ud == u * del
           od == o * del
           ux == u * (ab - no - del)
           ub == u * base
<1>1. /\ bw \in Nat /\ nu \in Nat /\ bc \in Nat /\ ab \in Nat /\ no \in Nat /\ del \in Int
      /\ k \in Nat
  OBVIOUS
<1>2. del <= bc /\ -del <= bc
  OBVIOUS
<1>3. net * (o - u) + w * base = no + del
  <2>1. net * (o - u) = no - nu /\ w * base = bw
    OBVIOUS
  <2> QED BY <1>1, <2>1
<1>4. 2 * (ab - no - del) <= base /\ -(2 * (ab - no - del)) <= base
  BY <1>1, <1>3
<1>5. base * (o * w - u * a) = k * del - ux
  <2>1. base * (o * w) = o * bw /\ base * (u * a) = u * ab
    OBVIOUS
  <2>2. base * (o * w - u * a) = base * (o * w) - base * (u * a)
    OBVIOUS
  <2>3. u * no = o * nu
    OBVIOUS
  <2> HIDE DEF bw, nu, bc, ab, no
  <2>4. k * del = o * del - u * del
    BY <1>1
  <2>5. ux = u * ab - u * no - u * del
    BY <1>1
  <2>6. o * del = o * bw - o * nu
    BY <1>1
  <2>7. u * del \in Int /\ o * bw \in Int /\ o * nu \in Int /\ u * ab \in Int
    BY <1>1
  <2> HIDE DEF del, k, ux
  <2> DEFINE p == u * del
             q == o * bw
             r == o * nu
             s == u * ab
             t == base * (o * w - u * a)
  <2>8. t = q - s /\ ux = s - r - p /\ k * del = q - r - p
    BY <2>1, <2>2, <2>3, <2>4, <2>5, <2>6
  <2>9. p \in Int /\ q \in Int /\ r \in Int /\ s \in Int
    BY <2>7
  <2> HIDE DEF p, q, r, s, t
  <2>10. t = k * del - ux
    BY <2>8, <2>9
  <2> QED BY <2>10 DEF t
<1>6. k * del <= k * bc /\ -(k * del) <= k * bc
  <2>1. del - 0 <= bc /\ 0 - del <= bc /\ 0 \in Int
    BY <1>1, <1>2
  <2> HIDE DEF del, bc, k
  <2>2. k * del - k * 0 <= k * bc /\ k * 0 - k * del <= k * bc
    BY <1>1, <2>1, TimesNear
  <2>3. k * del \in Int /\ k * 0 = 0
    BY <1>1
  <2> QED BY <2>2, <2>3
<1>7. 2 * ux <= ub /\ -(2 * ux) <= ub /\ ux \in Int /\ ub \in Nat
  <2> DEFINE eps == ab - no - del
  <2>1. eps \in Int /\ 2 * eps - 0 <= base /\ 0 - 2 * eps <= base /\ 2 * eps \in Int /\ 0 \in Int
    BY <1>1, <1>4
  <2> HIDE DEF eps
  <2>2. u * (2 * eps) - u * 0 <= u * base /\ u * 0 - u * (2 * eps) <= u * base
    <3>1. base \in Int
      OBVIOUS
    <3> QED BY <2>1, <3>1, TimesNear
  <2>3. u * (2 * eps) = 2 * (u * eps) /\ u * 0 = 0 /\ u * eps \in Int
    BY <2>1
  <2> QED BY <2>2, <2>3 DEF eps
<1>8. k * bc = oc - uc /\ uc \in Nat /\ oc \in Nat
  BY <1>1
<1>9. ub <= uc
  <2>1. CASE c = 0
    BY <2>1
  <2>2. CASE c # 0
    <3>1. base <= bc
      <4>1. base * 1 <= base * c
        BY <2>2
      <4> QED BY <4>1
    <3> HIDE DEF bc
    <3> QED BY <1>1, <3>1
  <2> QED BY <2>1, <2>2
<1>10. k * del \in Int
  BY <1>1
<1> DEFINE kd == k * del
           kb == k * bc
           diff == o * w - u * a
<1>11. diff \in Int /\ base * diff = kd - ux /\ kd \in Int /\ kd <= kb /\ -kd <= kb /\ kb = oc - uc
  BY <1>5, <1>6, <1>8, <1>10
<1>12. oc = (o * c) * base /\ o * c \in Int
  OBVIOUS
<1> HIDE DEF bw, nu, bc, ab, no, del, uc, oc, k, ud, od, ux, ub, kd, kb, diff
<1>13. base * diff <= oc /\ -(base * diff) <= oc
  BY <1>7, <1>8, <1>9, <1>11
<1>14. diff * base <= (o * c) * base /\ (-diff) * base <= (o * c) * base
  BY <1>11, <1>12, <1>13
<1>15. diff <= o * c /\ -diff <= o * c
  <2>1. -diff \in Int
    BY <1>11
  <2> DEFINE y == o * c
             m == -diff
  <2>2. y \in Int /\ m \in Int /\ diff * base <= y * base /\ m * base <= y * base
    BY <1>12, <1>14, <2>1
  <2> HIDE DEF y, m
  <2>3. diff <= y /\ m <= y
    BY <1>11, <2>2, CancelFactor
  <2> QED BY <2>3 DEF y, m
<1>16. -diff = u * a - o * w
  <2>1. o * w \in Int /\ u * a \in Int
    OBVIOUS
  <2> QED BY <2>1 DEF diff
<1> QED BY <1>15, <1>16 DEF diff

\* Where no line is above, nothing is withheld.
LEMMA NoneAbove ==
  ASSUME NEW b \in VendorBill, LinesAbove[b] = WithholdingLines[b],
         Cardinality(LinesAbove[b]) = 0
  PROVE  Withheld(b, 1, 1) = 0
<1>1. IsFiniteSet(LinesAbove[b])
  BY BillConstants
<1>2. LinesAbove[b] = {}
  BY <1>1, FS_EmptySet
<1> QED BY <1>2, SumEmpty DEF Withheld

LEMMA NetNear ==
  ASSUME retained \in Retention, NEW b \in VendorBill, NEW net \in Nat,
         net # 0 => NetOriginal(b) # 0, net <= NetOriginal(b) * Common
  PROVE  WhtNear(b, LineForNet(b, net))
<1> DEFINE base == NetOriginal(b) * Common
           w == WithheldAbove(b, net, base)
           u == Withheld(b, 1, 1)
           o == Original[b]
           c == Cardinality(LinesAbove[b])
           line == LineForNet(b, net)
           a == line.amount
<1>1. CASE net = 0
  <2>1. line.amount = 0 /\ line.wht = 0
    BY <1>1 DEF LineForNet
  <2>2. o \in Nat /\ u \in Nat /\ c \in Nat
    <3>1. 1 \in Int /\ 1 \in Nat \ {0} /\ 1 >= 0
      OBVIOUS
    <3> QED BY <3>1, OriginalType, WithheldType, BillConstants
  <2>3. o * 0 + u * 0 = 0 /\ Abs(0) = 0 /\ 0 <= o * c
    BY <2>2 DEF Abs
  <2> QED BY <2>1, <2>3 DEF WhtNear
<1>2. CASE net # 0
  <2>1. /\ base \in Nat \ {0} /\ w \in Nat /\ u \in Nat /\ o \in Nat \ {0} /\ u <= o
        /\ a \in Nat /\ line.wht = -w /\ c \in Nat
        /\ w * base <= net * (o - u) + w * base
        /\ 2 * (a * base) - 2 * (net * (o - u) + w * base) <= base
        /\ 2 * (net * (o - u) + w * base) - 2 * (a * base) <= base
        /\ LinesAbove[b] = WithholdingLines[b] =>
             base * w - net * u <= base * c /\ net * u - base * w <= base * c
    BY <1>2, NetParts
  <2>2. LinesAbove[b] = WithholdingLines[b] => (c = 0 => u = 0)
    BY NoneAbove
  <2> HIDE DEF base, w, u, o, c, line, a
  <2>3. a = 0 => w = 0
    <3> SUFFICES ASSUME a = 0 PROVE w = 0
      OBVIOUS
    <3>1. a * base = 0
      BY <2>1
    <3> DEFINE x == net * (o - u) + w * base
               wb == w * base
    <3>2. x \in Int /\ wb \in Int
      BY <2>1
    <3>3. 2 * x <= base /\ wb <= x
      <4> HIDE DEF x
      <4>1. 2 * x - 2 * (a * base) <= base
        BY <2>1 DEF x
      <4>2. wb <= x
        BY <2>1 DEF x
      <4> QED BY <3>1, <3>2, <4>1, <4>2
    <3>4. 2 * wb <= base
      <4> HIDE DEF x, wb
      <4> QED BY <2>1, <3>2, <3>3
    <3>5. ASSUME w >= 1 PROVE FALSE
      <4>1. 1 * base <= w * base
        BY <2>1, <3>5
      <4> QED BY <2>1, <3>4, <4>1
    <3> QED BY <2>1, <3>5
  <2>4. ASSUME LinesAbove[b] = WithholdingLines[b]
        PROVE  Abs(o * line.wht + u * line.amount) <= o * c
    <3>1. o * w - u * a <= o * c /\ u * a - o * w <= o * c
      BY <2>1, <2>2, <2>4, NetNearNumbers
    <3> DEFINE x == o * w
               y == u * a
               z == o * c
    <3>2. x \in Int /\ y \in Int /\ z \in Int /\ o * (-w) = -x
      BY <2>1
    <3>3. o * line.wht + u * line.amount = -x + y
      BY <2>1, <3>2 DEF a
    <3>4. x - y <= z /\ y - x <= z
      BY <3>1
    <3> HIDE DEF x, y, z
    <3>5. -x + y \in Int /\ -x + y <= z /\ -(-x + y) <= z
      BY <3>2, <3>4
    <3>6. Abs(-x + y) <= z
      BY <3>2, <3>5, AbsOf
    <3> QED BY <3>3, <3>6 DEF z
  <2>5. line.amount = 0 => line.wht = 0
    <3>1. line.wht = -w /\ a = line.amount
      BY <2>1 DEF a
    <3>2. ASSUME NEW n \in Int, n <= 0, n >= 0 PROVE -n = 0
      BY <3>2
    <3>3. w \in Int /\ (w = 0 => w <= 0 /\ w >= 0)
      BY <2>1
    <3>4. w = 0 => -w = 0
      BY <3>2, <3>3
    <3> QED BY <2>3, <3>1, <3>4
  <2>6. WhtNear(b, line)
    BY <2>4, <2>5 DEF WhtNear, o, u, c
  <2> QED BY <2>6 DEF line
<1> QED BY <1>1, <1>2

\* What is left of a bill is allocated at most, and that is no more than it is of.
LEMMA AllocationBound ==
  ASSUME retained \in Retention, NEW selected \in SUBSET VendorBill,
         \A c \in selected : residual[c] \in Nat /\ residual[c] <= Original[c],
         NEW b \in selected, NEW price \in Int, NEW dialog \in BOOLEAN
  PROVE  Allocation(selected, b, price, dialog) <= NetOriginal(b) * Common
<1> DEFINE f == FullAllocation(b)
           o == Original[b]
           r == residual[b]
           x == NetOriginal(b) * Common
           alloc == Allocation(selected, b, price, dialog)
<1>1. /\ f \in Nat /\ o \in Nat \ {0} /\ r \in Nat /\ r <= o /\ x \in Nat
      /\ f * o = r * x
  <2>1. NetOriginal(b) \in Nat /\ Common \in Nat
    BY NetOriginalType, OriginalType
  <2> QED BY <2>1, OriginalType, FullAllocationType
<1>2. alloc <= f /\ alloc \in Nat
  BY AllocationType
<1> HIDE DEF f, o, r, x, alloc
<1>3. r * x <= o * x /\ o * x = x * o
  BY <1>1
<1>4. f * o <= x * o
  BY <1>1, <1>3
<1>5. f <= x
  <2>1. f \in Int /\ x \in Int
    BY <1>1
  <2> QED BY <1>1, <1>4, <2>1, CancelFactor
<1> QED BY <1>1, <1>2, <1>5 DEF x, alloc

LEMMA InFullNumbers ==
  ASSUME NEW base \in Nat \ {0}, NEW w \in Nat, NEW u \in Nat, NEW o \in Nat, u <= o,
         NEW a \in Nat, NEW c \in Nat, NEW net \in Nat, NEW r \in Nat,
         net * o = r * base,
         2 * (a * base) - 2 * (net * (o - u) + w * base) <= base,
         2 * (net * (o - u) + w * base) - 2 * (a * base) <= base,
         base * w - net * u <= base * c, net * u - base * w <= base * c
  PROVE  r - a <= c /\ a - r <= c
<1> DEFINE ab == a * base
           rb == r * base
           nu == net * u
           wb == base * w
           cb == c * base
           d == a - r
<1>1. /\ ab \in Nat /\ rb \in Nat /\ nu \in Nat /\ wb \in Nat /\ cb \in Nat /\ d \in Int
  OBVIOUS
<1>2. net * (o - u) + w * base = rb - nu + wb /\ base * c = cb
  <2>1. net * (o - u) = net * o - net * u /\ w * base = base * w
    OBVIOUS
  <2> QED BY <2>1
<1>3. /\ 2 * ab - 2 * (rb - nu + wb) <= base /\ 2 * (rb - nu + wb) - 2 * ab <= base
      /\ wb - nu <= cb /\ nu - wb <= cb
  BY <1>2
<1>4. 2 * (ab - rb) <= base + 2 * cb /\ 2 * (rb - ab) <= base + 2 * cb
  <2> HIDE DEF ab, rb, nu, wb, cb
  <2> QED BY <1>1, <1>3
<1>5. (2 * d) * base = 2 * (ab - rb) /\ (2 * (-d)) * base = 2 * (rb - ab)
      /\ (1 + 2 * c) * base = base + 2 * cb
  OBVIOUS
<1> HIDE DEF ab, rb, nu, wb, cb, d
<1>6. 2 * d <= 1 + 2 * c /\ 2 * (-d) <= 1 + 2 * c
  <2> DEFINE x == 2 * d
             y == 2 * (-d)
             z == 1 + 2 * c
  <2>1. x \in Int /\ y \in Int /\ z \in Int
    BY <1>1
  <2>2. x * base <= z * base /\ y * base <= z * base
    BY <1>4, <1>5
  <2> HIDE DEF x, y, z
  <2>3. x <= z /\ y <= z
    BY <2>1, <2>2, CancelFactor
  <2> QED BY <2>3 DEF x, y, z
<1>7. d <= c /\ -d <= c
  BY <1>1, <1>6
<1> QED BY <1>7 DEF d

\* A line for all that is left of a bill pays it, but for the cents.
LEMMA LineInFull ==
  ASSUME retained \in Retention, NEW b \in VendorBill,
         residual[b] \in Nat, residual[b] <= Original[b],
         LinesAbove[b] = WithholdingLines[b],
         LineForNet(b, FullAllocation(b)).amount # 0
  PROVE  Abs(residual[b] - LineForNet(b, FullAllocation(b)).amount) <= Cardinality(LinesAbove[b])
<1> DEFINE net == FullAllocation(b)
           base == NetOriginal(b) * Common
           w == WithheldAbove(b, net, base)
           u == Withheld(b, 1, 1)
           o == Original[b]
           c == Cardinality(LinesAbove[b])
           line == LineForNet(b, net)
           a == line.amount
           r == residual[b]
<1>1. net # 0
  BY DEF LineForNet
<1>2. net \in Nat \ {0} /\ NetOriginal(b) # 0 /\ net * o = r * base
  BY <1>1, FullAllocationType
<1>3. net <= NetOriginal(b) * Common
  <2>1. b \in {b} /\ {b} \in SUBSET VendorBill /\ 0 \in Int /\ TRUE \in BOOLEAN
    OBVIOUS
  <2>2. \A k \in {b} : residual[k] \in Nat /\ residual[k] <= Original[k]
    OBVIOUS
  <2>3. Allocation({b}, b, 0, TRUE) <= NetOriginal(b) * Common
    BY <2>1, <2>2, AllocationBound
  <2> QED BY <2>3 DEF Allocation
<1> HIDE DEF net
<1>4. /\ base \in Nat \ {0} /\ w \in Nat /\ u \in Nat /\ o \in Nat \ {0} /\ u <= o
      /\ a \in Nat /\ c \in Nat
      /\ 2 * (a * base) - 2 * (net * (o - u) + w * base) <= base
      /\ 2 * (net * (o - u) + w * base) - 2 * (a * base) <= base
      /\ base * w - net * u <= base * c /\ net * u - base * w <= base * c
  BY <1>2, <1>3, NetParts
<1>5. r \in Nat
  OBVIOUS
<1> HIDE DEF base, w, u, o, c, line, a, r
<1>6. r - a <= c /\ a - r <= c
  BY <1>2, <1>4, <1>5, InFullNumbers
<1>7. Abs(r - a) <= c
  <2>1. r - a \in Int /\ c \in Int /\ r - a <= c /\ -(r - a) <= c
    BY <1>4, <1>5, <1>6
  <2> QED BY <2>1, AbsOf
<1> QED BY <1>7 DEF net, line, a, r, c

\* The cents of one bill
LEMMA CentsOfOne ==
  ASSUME NEW b \in VendorBill
  PROVE  Cents({b}) = Cardinality(LinesAbove[b])
<1> DEFINE F == [k \in {b} |-> Cardinality(LinesAbove[k])]
<1>1. \A k \in {b} : F[k] \in Int /\ F[k] = Cardinality(LinesAbove[b])
  BY BillConstants
<1>2. IsFiniteSet({b})
  BY FS_Singleton
<1>3. Cents({b}) = SumFunctionOnSet(F, {b})
  BY DEF Cents
<1> HIDE DEF F
<1>4. SumFunctionOnSet(F, {b}) = F[b] + SumFunctionOnSet(F, {b} \ {b})
  <2>1. b \in {b}
    OBVIOUS
  <2> QED BY <1>1, <1>2, <2>1, SumRemove
<1>5. SumFunctionOnSet(F, {b} \ {b}) = 0
  <2>1. {b} \ {b} = {}
    OBVIOUS
  <2> QED BY <2>1, SumEmpty
<1> QED BY <1>1, <1>3, <1>4, <1>5

-----------------------------------------------------------------------------
(* Amounts of payments: writing a draft *)

DraftFields ==
  {"amount", "registered", "line", "written", "vat", "undue", "wht", "manual", "deduction", "odd"}

Owners(items) == {b \in DOMAIN items : IsOwner(DOMAIN items, b)}

LEMMA ResetFields ==
  ASSUME NEW v, DOMAIN v = DraftFields
  PROVE  LET u == ResetTaxes(v)
         IN  /\ DOMAIN u = DraftFields
             /\ u.amount = v.amount /\ u.registered = v.registered /\ u.line = v.line
             /\ u.written = TRUE
             /\ u.vat = ComputedVat(v.line)
             /\ u.undue = [b \in DOMAIN v.line |-> -ComputedVat(v.line)[b]]
             /\ u.wht = [b \in v.manual \cup Owners(v.line) |->
                           IF b \in v.manual THEN v.wht[b] ELSE ComputedWht(v.line)]
             /\ u.manual = v.manual /\ u.deduction = v.deduction /\ u.odd = v.odd
BY DEF ResetTaxes, DraftFields, Owners

LinesGood(items) ==
  /\ DOMAIN items \subseteq VendorBill
  /\ \A b \in DOMAIN items : items[b] \in LineRow /\ items[b].amount >= 0

\* The only row of the taxes was typed: it is the line's, and no other line has a tax.
OneManual(v, b) ==
  /\ v.manual = {b}
  /\ b \in DOMAIN v.line \ RefundBill /\ IsOwner(DOMAIN v.line, b)
  /\ v.wht[b] = v.line[b].wht
  /\ \A c \in DOMAIN v.line \ {b} : LinesAbove[c] = {} \/ v.line[c].amount = 0

Disturbed(v) == v.odd \cap {"shared", "stale", "refund"} # {}

\* What a draft is before its taxes are computed
BeforeReset(v) ==
  /\ DOMAIN v = DraftFields /\ v.amount \in Int /\ v.registered \in BOOLEAN
  /\ v.deduction \in Int
  /\ LinesGood(v.line)
  /\ v.wht \in [DOMAIN v.wht -> Int]
  /\ v.manual \subseteq DOMAIN v.wht /\ DOMAIN v.wht \subseteq VendorBill
  /\ "typed" \notin v.odd =>
       \A b \in DOMAIN v.line \ v.manual : WhtNear(b, v.line[b])
  /\ v.manual # {} /\ ~Disturbed(v) => \E b \in VendorBill : OneManual(v, b)

\* and at any time
DraftGood(v) ==
  /\ BeforeReset(v)
  /\ v.written \in BOOLEAN
  /\ v.vat \in [DOMAIN v.line -> Int] /\ v.undue \in [DOMAIN v.line -> Int]
  /\ v.written => v.undue = [b \in DOMAIN v.line |-> -ComputedVat(v.line)[b]]
  /\ DOMAIN v.wht = IF v.written THEN v.manual \cup Owners(v.line) ELSE {}
  /\ v.manual = {} => \A b \in DOMAIN v.wht : v.wht[b] = ComputedWht(v.line)

LEMMA OneOwner ==
  ASSUME NEW selected \in SUBSET VendorBill
  PROVE  /\ \A b, c : IsOwner(selected, b) /\ IsOwner(selected, c) => b = c
         /\ \A b : IsOwner(selected, b) => b \in selected /\ LinesAbove[b] # {}
         /\ (\E b \in selected : LinesAbove[b] # {}) => \E b \in selected : IsOwner(selected, b)
<1>1. Withholding(selected) \in SUBSET Nat
  BY PaymentAmountsAssumption DEF Withholding
<1>2. \A b, c : IsOwner(selected, b) /\ IsOwner(selected, c) => b = c
  <2> TAKE b, c
  <2> HAVE IsOwner(selected, b) /\ IsOwner(selected, c)
  <2>1. b \in Nat /\ c \in Nat /\ b <= c /\ c <= b
    BY <1>1 DEF IsOwner
  <2> QED BY <2>1
<1>3. ASSUME Withholding(selected) # {}
      PROVE  \E b \in selected : IsOwner(selected, b)
  <2>1. PICK b \in Withholding(selected) : \A c \in Withholding(selected) : b <= c
    BY <1>1, <1>3, LeastNat
  <2> QED BY <2>1 DEF IsOwner, Withholding
<1> QED BY <1>2, <1>3 DEF IsOwner, Withholding

LEMMA ComputedType ==
  ASSUME NEW items, LinesGood(items)
  PROVE  /\ ComputedVat(items) \in [DOMAIN items -> Int]
         /\ ComputedWht(items) \in Int
         /\ IsFiniteSet(DOMAIN items)
         /\ \A b \in DOMAIN items :
              LineSign(b) * WithheldAbove(b, 1, 1) * items[b].amount * (Common \div Original[b]) \in Int
<1>1. \A b \in VendorBill : LineSign(b) \in Int
  BY DEF LineSign
<1>2. ASSUME NEW b \in DOMAIN items
      PROVE  /\ LineSign(b) * VatOf[b] * items[b].amount \in Int /\ Original[b] \in Nat \ {0}
             /\ LineSign(b) * WithheldAbove(b, 1, 1) * items[b].amount * (Common \div Original[b])
                  \in Int
  <2>1. b \in VendorBill
    BY DEF LinesGood
  <2>2. items[b] \in LineRow
    BY DEF LinesGood
  <2>3. items[b].amount \in Int
    BY <2>2 DEF LineRow
  <2>4. WithheldAbove(b, 1, 1) \in Int
    <3>1. 1 \in Int /\ 1 \in Nat \ {0}
      OBVIOUS
    <3> QED BY <2>1, <3>1, WithheldType
  <2> DEFINE s == LineSign(b)
             v == VatOf[b]
             w == WithheldAbove(b, 1, 1)
             a == items[b].amount
             m == Common \div Original[b]
  <2>5. s \in Int /\ v \in Int /\ w \in Int /\ a \in Int /\ m \in Int /\ Original[b] \in Nat \ {0}
    BY <1>1, <2>1, <2>3, <2>4, OriginalType
  <2> HIDE DEF s, v, w, a, m
  <2>6. s * v * a \in Int /\ s * w * a * m \in Int
    <3>1. s * v \in Int /\ s * w \in Int
      BY <2>5
    <3>2. s * v * a \in Int /\ s * w * a \in Int
      BY <2>5, <3>1
    <3> QED BY <2>5, <3>2
  <2> QED BY <2>5, <2>6 DEF s, v, w, a, m
<1>3. ComputedVat(items) \in [DOMAIN items -> Int]
  <2>1. ASSUME NEW b \in DOMAIN items
        PROVE  InCents(LineSign(b) * VatOf[b] * items[b].amount, Original[b]) \in Int
    <3> DEFINE n == LineSign(b) * VatOf[b] * items[b].amount
               d == Original[b]
    <3>1. n \in Int /\ d \in Nat \ {0}
      BY <1>2
    <3> HIDE DEF n, d
    <3>2. InCents(n, d) \in Int
      BY <3>1, InCentsNear
    <3> QED BY <3>2 DEF n, d
  <2> QED BY <2>1 DEF ComputedVat
<1>4. IsFiniteSet(DOMAIN items)
  BY PaymentAmountsAssumption, FS_Subset DEF LinesGood
<1>5. ComputedWht(items) \in Int
  <2> DEFINE F == [b \in DOMAIN items |->
                LineSign(b) * WithheldAbove(b, 1, 1) * items[b].amount
                  * (Common \div Original[b])]
             n == SumFunctionOnSet(F, DOMAIN items)
  <2>1. \A b \in DOMAIN items : F[b] \in Int
    BY <1>2
  <2>2. ComputedWht(items) = -InCents(n, Common)
    BY DEF ComputedWht
  <2> HIDE DEF F
  <2>3. n \in Int
    BY <1>4, <2>1, SumType
  <2> HIDE DEF n
  <2>4. Common \in Nat \ {0}
    BY BillsAssumption
  <2>5. InCents(n, Common) \in Int
    BY <2>3, <2>4, InCentsNear
  <2> QED BY <2>2, <2>5
<1> QED BY <1>2, <1>3, <1>4, <1>5

\* The same but for the oddities, and the taxes computed anew
IsReset(v, u) ==
  /\ DOMAIN u = DraftFields
  /\ u.amount = v.amount /\ u.registered = v.registered /\ u.line = v.line
  /\ u.written = TRUE
  /\ u.vat = ComputedVat(v.line)
  /\ u.undue = [b \in DOMAIN v.line |-> -ComputedVat(v.line)[b]]
  /\ u.wht = [b \in v.manual \cup Owners(v.line) |->
                IF b \in v.manual THEN v.wht[b] ELSE ComputedWht(v.line)]
  /\ u.manual = v.manual /\ u.deduction = v.deduction /\ u.odd = v.odd

LEMMA ResetGood ==
  ASSUME NEW v, BeforeReset(v), NEW u, IsReset(v, u)
  PROVE  DraftGood(u)
<1>1. LinesGood(v.line)
  BY DEF BeforeReset
<1>2. ComputedVat(v.line) \in [DOMAIN v.line -> Int] /\ ComputedWht(v.line) \in Int
  BY <1>1, ComputedType
<1>3. u.vat \in [DOMAIN u.line -> Int] /\ u.undue \in [DOMAIN u.line -> Int]
  <2>1. \A n \in Int : -n \in Int
    OBVIOUS
  <2> QED BY <1>2, <2>1 DEF IsReset
<1>4. Owners(v.line) \subseteq VendorBill
  BY <1>1 DEF LinesGood, Owners
<1>5. /\ DOMAIN u.wht = v.manual \cup Owners(v.line)
      /\ \A b \in v.manual : u.wht[b] = v.wht[b] /\ u.wht[b] \in Int
      /\ \A b \in DOMAIN u.wht \ v.manual : u.wht[b] = ComputedWht(v.line)
  BY DEF IsReset, BeforeReset
<1>6. u.wht \in [DOMAIN u.wht -> Int]
  BY <1>2, <1>5 DEF IsReset
<1>7. u.manual \subseteq DOMAIN u.wht /\ DOMAIN u.wht \subseteq VendorBill
  BY <1>4, <1>5 DEF IsReset, BeforeReset
<1>8. ASSUME u.manual # {}, ~Disturbed(u) PROVE \E b \in VendorBill : OneManual(u, b)
  <2>1. v.manual # {} /\ ~Disturbed(v)
    BY <1>8 DEF IsReset, Disturbed
  <2>2. PICK b \in VendorBill : OneManual(v, b)
    BY <2>1 DEF BeforeReset
  <2>3. OneManual(u, b)
    BY <1>5, <2>2 DEF OneManual, IsReset
  <2> QED BY <2>3
<1>9. BeforeReset(u)
  BY <1>6, <1>7, <1>8 DEF BeforeReset, IsReset
<1>10. /\ u.written /\ u.written \in BOOLEAN
       /\ u.undue = [b \in DOMAIN u.line |-> -ComputedVat(u.line)[b]]
       /\ DOMAIN u.wht = u.manual \cup Owners(u.line)
       /\ u.manual = {} => \A b \in DOMAIN u.wht : u.wht[b] = ComputedWht(u.line)
  BY <1>5 DEF IsReset
<1> QED BY <1>3, <1>9, <1>10 DEF DraftGood

\* A line is written: v with what WriteLine changes, and perhaps another oddity.
IsWritten(v, b, line, extra, u) ==
  LET row == b \in DOMAIN v.wht /\ line.wht # v.line[b].wht
      others == \E c \in DOMAIN v.line \ {b} : LinesAbove[c] # {} /\ v.line[c].amount # 0
  IN  /\ DOMAIN u = DraftFields
      /\ u.amount = v.amount /\ u.registered = FALSE /\ u.deduction = v.deduction
      /\ u.line = [v.line EXCEPT ![b] = line]
      /\ u.manual = IF row THEN v.manual \cup {b} ELSE v.manual
      /\ u.wht = IF row THEN [v.wht EXCEPT ![b] = line.wht] ELSE v.wht
      /\ u.odd = (v.odd \cup (IF row /\ others THEN {"shared"} ELSE {})
                        \cup (IF row /\ b \in RefundBill THEN {"refund"} ELSE {})
                        \cup (IF v.manual # {} /\ ~row THEN {"stale"} ELSE {}))
                 \cup extra

LEMMA WriteIs ==
  ASSUME NEW v, DOMAIN v = DraftFields, NEW b, NEW line
  PROVE  IsWritten(v, b, line, {}, WriteLine(v, b, line))
<1> DEFINE row == b \in DOMAIN v.wht /\ line.wht # v.line[b].wht
           others == \E c \in DOMAIN v.line \ {b} : LinesAbove[c] # {} /\ v.line[c].amount # 0
           manual == IF row THEN v.manual \cup {b} ELSE v.manual
           wht == IF row THEN [v.wht EXCEPT ![b] = line.wht] ELSE v.wht
           odd == v.odd \cup (IF row /\ others THEN {"shared"} ELSE {})
                        \cup (IF row /\ b \in RefundBill THEN {"refund"} ELSE {})
                        \cup (IF v.manual # {} /\ ~row THEN {"stale"} ELSE {})
           u == WriteLine(v, b, line)
<1>1. u = [v EXCEPT !.line = [v.line EXCEPT ![b] = line], !.registered = FALSE,
                    !.manual = manual, !.wht = wht, !.odd = odd]
  BY DEF WriteLine, DraftFields
<1> HIDE DEF row, others, manual, wht, odd, u
<1>2. /\ DOMAIN u = DraftFields
      /\ u.amount = v.amount /\ u.registered = FALSE
      /\ u.line = [v.line EXCEPT ![b] = line]
      /\ u.manual = manual
      /\ u.wht = wht
      /\ u.deduction = v.deduction
      /\ u.odd = odd
  BY <1>1 DEF DraftFields
<1>3. u.odd = odd \cup {}
  BY <1>2
<1>4. IsWritten(v, b, line, {}, u)
  BY <1>2, <1>3 DEF IsWritten, row, others, manual, wht, odd
<1> QED BY <1>4 DEF u

LEMMA WriteGood ==
  ASSUME NEW v, DraftGood(v), NEW b \in DOMAIN v.line, NEW line \in LineRow, line.amount >= 0,
         NEW extra, NEW u, IsWritten(v, b, line, extra, u),
         \/ WhtNear(b, line)
         \/ b \in DOMAIN v.wht /\ line.wht # v.line[b].wht
         \/ "typed" \in extra
  PROVE  BeforeReset(u)
<1> DEFINE row == b \in DOMAIN v.wht /\ line.wht # v.line[b].wht
<1>1. /\ DOMAIN v.line \subseteq VendorBill /\ b \in VendorBill
      /\ \A c \in DOMAIN v.line : v.line[c] \in LineRow /\ v.line[c].amount >= 0
      /\ v.wht \in [DOMAIN v.wht -> Int]
      /\ v.manual \subseteq DOMAIN v.wht /\ DOMAIN v.wht \subseteq VendorBill
  BY DEF DraftGood, BeforeReset, LinesGood
<1>2. /\ DOMAIN u.line = DOMAIN v.line /\ u.line[b] = line
      /\ \A c \in DOMAIN v.line \ {b} : u.line[c] = v.line[c]
  BY DEF IsWritten
<1>3. LinesGood(u.line)
  BY <1>1, <1>2 DEF LinesGood
<1>4. line.wht \in Int
  BY DEF LineRow
<1>5. /\ DOMAIN u.wht = DOMAIN v.wht
      /\ row => u.wht[b] = line.wht
      /\ \A c \in DOMAIN v.wht \ {b} : u.wht[c] = v.wht[c]
      /\ ~row => u.wht = v.wht
      /\ u.wht \in [DOMAIN u.wht -> Int]
  BY <1>1, <1>4 DEF IsWritten
<1>6. /\ row => u.manual = v.manual \cup {b}
      /\ ~row => u.manual = v.manual
  BY DEF IsWritten
<1>7. u.manual \subseteq DOMAIN u.wht /\ DOMAIN u.wht \subseteq VendorBill
  BY <1>1, <1>5, <1>6
<1>8. v.odd \subseteq u.odd /\ extra \subseteq u.odd
  BY DEF IsWritten
<1>9. ASSUME "typed" \notin u.odd, NEW c \in DOMAIN u.line \ u.manual
      PROVE  WhtNear(c, u.line[c])
  <2>1. "typed" \notin v.odd /\ "typed" \notin extra
    BY <1>8, <1>9
  <2>2. CASE c = b
    <3>1. ~row
      BY <1>6, <1>9, <2>2
    <3>2. WhtNear(b, line)
      BY <2>1, <3>1
    <3> QED BY <1>2, <2>2, <3>2
  <2>3. CASE c # b
    <3>1. c \in DOMAIN v.line \ v.manual
      BY <1>2, <1>6, <1>9
    <3>2. WhtNear(c, v.line[c])
      BY <2>1, <3>1 DEF DraftGood, BeforeReset
    <3> QED BY <1>2, <2>3, <3>1, <3>2
  <2> QED BY <2>2, <2>3
<1>10. ASSUME u.manual # {}, ~Disturbed(u) PROVE \E c \in VendorBill : OneManual(u, c)
  <2>1. row
    <3> SUFFICES ASSUME ~row PROVE FALSE
      OBVIOUS
    <3>1. v.manual # {}
      BY <1>6, <1>10
    <3>2. "stale" \in u.odd
      BY <3>1 DEF IsWritten
    <3> QED BY <1>10, <3>2 DEF Disturbed
  <2>2. /\ \A c \in DOMAIN v.line \ {b} : LinesAbove[c] = {} \/ v.line[c].amount = 0
        /\ b \notin RefundBill
    BY <1>10, <2>1 DEF IsWritten, Disturbed
  <2>3. v.manual \subseteq {b} /\ IsOwner(DOMAIN v.line, b)
    <3>1. b \in v.manual \cup Owners(v.line)
      BY <2>1 DEF DraftGood
    <3>2. CASE v.manual = {}
      BY <3>1, <3>2 DEF Owners
    <3>3. CASE v.manual # {}
      <4>1. ~Disturbed(v)
        BY <1>8, <1>10 DEF Disturbed
      <4>2. PICK c \in VendorBill : OneManual(v, c)
        BY <3>3, <4>1 DEF DraftGood, BeforeReset
      <4>3. v.manual = {c} /\ IsOwner(DOMAIN v.line, c)
        BY <4>2 DEF OneManual
      <4>4. b = c
        <5>1. b = c \/ IsOwner(DOMAIN v.line, b)
          BY <3>1, <4>3 DEF Owners
        <5>2. DOMAIN v.line \in SUBSET VendorBill
          BY <1>1
        <5> QED BY <4>3, <5>1, <5>2, OneOwner
      <4> QED BY <4>3, <4>4
    <3> QED BY <3>2, <3>3
  <2>4. OneManual(u, b)
    <3>1. u.manual = {b}
      BY <1>6, <2>1, <2>3
    <3>2. u.wht[b] = u.line[b].wht
      BY <1>2, <1>5, <2>1
    <3>3. \A c \in DOMAIN u.line \ {b} : LinesAbove[c] = {} \/ u.line[c].amount = 0
      BY <1>2, <2>2
    <3> QED BY <1>2, <2>2, <2>3, <3>1, <3>2, <3>3 DEF OneManual
  <2> QED BY <1>1, <2>4
<1>11. /\ DOMAIN u = DraftFields /\ u.amount \in Int /\ u.registered \in BOOLEAN
       /\ u.deduction \in Int
  BY DEF IsWritten, DraftGood, BeforeReset
<1> QED BY <1>3, <1>5, <1>7, <1>9, <1>10, <1>11 DEF BeforeReset

-----------------------------------------------------------------------------
(* Amounts of payments: the invariant *)

\* What a registered payment pays of a bill is what is left, but for the cents.
InFull(b, amount) ==
  LinesAbove[b] = WithholdingLines[b] /\ amount # 0 => Abs(residual[b] - amount) <= Cents({b})

DraftInFull ==
  draft.registered => \A b \in DOMAIN draft.line : InFull(b, draft.line[b].amount)

LeftToPay == \A b \in VendorBill : residual[b] <= Original[b]

\* What holds of the draft and of what was posted
AmountsInd ==
  /\ AmountsTypeOK
  /\ LeftToPay
  /\ draft # NoDraft => DraftGood(draft) /\ DraftInFull
  /\ WriteoffAsShown
  /\ VatFollowsPayment
  /\ RegisteredPaysInFull

LEMMA GoodTyped ==
  ASSUME NEW v, DraftGood(v)
  PROVE  DraftTyped(v)
BY DEF DraftGood, BeforeReset, LinesGood, LineRow, DraftTyped, DraftFields

\* A step that only changes the draft
LEMMA DraftStep ==
  ASSUME AmountsInd, draft' = NoDraft \/ (DraftGood(draft') /\ DraftInFull'),
         UNCHANGED <<twoSteps, retained, residual, due, parts>>,
         entry' = entry \/ entry' = NoDraft
  PROVE  AmountsInd'
<1>1. draft' = NoDraft \/ DraftTyped(draft')
  BY GoodTyped
<1>2. AmountsTypeOK'
  BY <1>1 DEF AmountsInd, AmountsTypeOK, DraftTyped
<1>3. LeftToPay' /\ VatFollowsPayment'
  BY DEF AmountsInd, LeftToPay, VatFollowsPayment
<1>4. WriteoffAsShown' /\ RegisteredPaysInFull'
  BY DEF AmountsInd, WriteoffAsShown, RegisteredPaysInFull, Misleading
<1>5. draft' # NoDraft => DraftGood(draft)' /\ DraftInFull'
  BY DEF DraftGood, BeforeReset, OneManual, Disturbed
<1> QED BY <1>2, <1>3, <1>4, <1>5 DEF AmountsInd

LEMMA OpenLeft ==
  ASSUME AmountsInd
  PROVE  /\ retained \in Retention /\ OpenBills \in SUBSET VendorBill
         /\ \A b \in OpenBills : residual[b] \in Nat /\ residual[b] <= Original[b]
BY DEF AmountsInd, AmountsTypeOK, LeftToPay, OpenBills

LEMMA RecomputedGood ==
  ASSUME AmountsInd, NEW selected \in SUBSET OpenBills, NEW price \in Int, NEW dialog \in BOOLEAN
  PROVE  LET items == RecomputedLines(selected, price, dialog)
         IN  /\ LinesGood(items) /\ DOMAIN items = selected
             /\ \A b \in selected : WhtNear(b, items[b])
             /\ dialog => \A b \in selected : InFull(b, items[b].amount)
<1> DEFINE items == RecomputedLines(selected, price, dialog)
<1>1. /\ retained \in Retention /\ selected \in SUBSET VendorBill
      /\ \A c \in selected : residual[c] \in Nat /\ residual[c] <= Original[c]
  BY OpenLeft
<1>2. items \in [selected -> LineRow] /\ \A b \in selected : items[b].amount >= 0
  BY <1>1, RecomputedLinesType
<1>3. ASSUME NEW b \in selected
      PROVE  WhtNear(b, items[b]) /\ (dialog => InFull(b, items[b].amount))
  <2> DEFINE net == Allocation(selected, b, price, dialog)
  <2>1. items[b] = LineForNet(b, net)
    BY DEF RecomputedLines
  <2>2. /\ net \in Nat /\ (net # 0 => NetOriginal(b) # 0)
        /\ dialog => net = FullAllocation(b)
    BY <1>1, AllocationType
  <2>3. net <= NetOriginal(b) * Common
    BY <1>1, AllocationBound
  <2>4. b \in VendorBill
    BY <1>1
  <2> HIDE DEF net, items
  <2>5. WhtNear(b, LineForNet(b, net))
    BY <1>1, <2>2, <2>3, <2>4, NetNear
  <2>6. ASSUME dialog PROVE InFull(b, items[b].amount)
    <3>1. net = FullAllocation(b)
      BY <2>2, <2>6
    <3>2. ASSUME LinesAbove[b] = WithholdingLines[b], LineForNet(b, net).amount # 0
          PROVE  Abs(residual[b] - LineForNet(b, net).amount) <= Cents({b})
      BY <1>1, <2>4, <3>1, <3>2, LineInFull, CentsOfOne
    <3> QED BY <2>1, <3>2 DEF InFull
  <2> QED BY <2>1, <2>5, <2>6
<1>4. LinesGood(items) /\ DOMAIN items = selected
  BY <1>1, <1>2 DEF LinesGood
<1> QED BY <1>3, <1>4

LEMMA NewDraftGood ==
  ASSUME AmountsInd, NEW selected \in SUBSET OpenBills, NEW price \in Int, NEW dialog \in BOOLEAN
  PROVE  DraftGood(NewDraft(selected, price, dialog))
<1> DEFINE items == RecomputedLines(selected, price, dialog)
           v == NewDraft(selected, price, dialog)
<1>1. /\ LinesGood(items) /\ DOMAIN items = selected /\ \A b \in selected : WhtNear(b, items[b])
  BY RecomputedGood
<1>2. v = [amount |-> price, registered |-> dialog, line |-> items, written |-> FALSE,
           vat |-> [b \in selected |-> 0], undue |-> [b \in selected |-> 0], wht |-> [b \in {} |-> 0],
           manual |-> {}, deduction |-> 0, odd |-> {}]
  BY DEF NewDraft
<1> HIDE DEF items, v
<1>3. /\ v.amount = price /\ v.registered = dialog /\ v.line = items /\ v.written = FALSE
      /\ v.vat = [b \in selected |-> 0] /\ v.undue = [b \in selected |-> 0]
      /\ v.wht = [b \in {} |-> 0] /\ v.manual = {} /\ v.deduction = 0 /\ v.odd = {}
      /\ DOMAIN v = DraftFields
  BY <1>2 DEF DraftFields
<1>4. DOMAIN v.wht = {} /\ v.wht \in [DOMAIN v.wht -> Int]
  BY <1>3
<1>5. BeforeReset(v)
  BY <1>1, <1>3, <1>4 DEF BeforeReset
<1>6. v.vat \in [DOMAIN v.line -> Int] /\ v.undue \in [DOMAIN v.line -> Int]
  BY <1>1, <1>3
<1>7. DraftGood(v)
  BY <1>3, <1>4, <1>5, <1>6 DEF DraftGood
<1> QED BY <1>7 DEF v

LEMMA GoodDraft ==
  ASSUME AmountsInd, draft # NoDraft
  PROVE  /\ DraftGood(draft) /\ DraftInFull /\ BeforeReset(draft)
         /\ DOMAIN draft = DraftFields /\ LinesGood(draft.line)
BY DEF AmountsInd, DraftGood, BeforeReset

LEMMA NewDraftFields ==
  ASSUME NEW selected, NEW price, NEW dialog
  PROVE  /\ NewDraft(selected, price, dialog).registered = dialog
         /\ NewDraft(selected, price, dialog).line = RecomputedLines(selected, price, dialog)
BY DEF NewDraft

LEMMA CreatePaymentInd ==
  ASSUME AmountsInd, NEW price \in Price, CreatePayment(price)
  PROVE  AmountsInd'
<1>1. price \in Int /\ FALSE \in BOOLEAN /\ OpenBills \in SUBSET OpenBills
  BY PaymentAmountsAssumption
<1>2. draft' = NewDraft(OpenBills, price, FALSE)
  BY DEF CreatePayment
<1>3. DraftGood(draft')
  BY <1>1, <1>2, NewDraftGood
<1>4. DraftInFull'
  BY <1>2, NewDraftFields DEF DraftInFull
<1> QED BY <1>3, <1>4, DraftStep DEF CreatePayment

LEMMA RegisterPaymentInd ==
  ASSUME AmountsInd, NEW b \in VendorBill, RegisterPayment(b)
  PROVE  AmountsInd'
<1> DEFINE price == ProposedAmount(b)
           items == RecomputedLines({b}, price, TRUE)
<1>1. {b} \in SUBSET OpenBills /\ TRUE \in BOOLEAN /\ residual[b] \in Int /\ retained \in Retention
  BY OpenLeft DEF RegisterPayment
<1>2. price \in Int
  <2>1. LineForGross(b, residual[b]) \in LineRow
    BY <1>1, LineForGrossType
  <2> QED BY <2>1 DEF ProposedAmount, NetOfLine, LineRow
<1>3. draft' = NewDraft({b}, price, TRUE)
  BY DEF RegisterPayment
<1> HIDE DEF price
<1>4. DraftGood(draft')
  BY <1>1, <1>2, <1>3, NewDraftGood
<1>5. DOMAIN items = {b} /\ \A c \in {b} : InFull(c, items[c].amount)
  BY <1>1, <1>2, RecomputedGood
<1>6. draft'.line = items
  <2>1. NewDraft({b}, price, TRUE).line = RecomputedLines({b}, price, TRUE)
    BY ZenonT(30), NewDraftFields
  <2> QED BY <1>3, <2>1
<1> HIDE DEF items
<1>7. DraftInFull'
  BY <1>5, <1>6 DEF DraftInFull, InFull, RegisterPayment
<1> QED BY <1>4, <1>7, DraftStep DEF RegisterPayment

LEMMA ResetIs ==
  ASSUME NEW v, DOMAIN v = DraftFields
  PROVE  IsReset(v, ResetTaxes(v))
BY ResetFields DEF IsReset

LEMMA ChangeAmountInd ==
  ASSUME AmountsInd, NEW price \in Price, ChangeAmount(price)
  PROVE  AmountsInd'
<1> DEFINE items == RecomputedLines(OpenBills, price, FALSE)
           v == [draft EXCEPT !.amount = price, !.registered = FALSE, !.line = items,
                              !.odd = draft.odd \cup (IF draft.manual # {} THEN {"stale"} ELSE {})]
<1>1. price \in Int /\ FALSE \in BOOLEAN /\ OpenBills \in SUBSET OpenBills
  BY PaymentAmountsAssumption
<1>2. LinesGood(items) /\ \A b \in DOMAIN items : WhtNear(b, items[b])
  BY <1>1, RecomputedGood
<1> HIDE DEF items
<1>3. DraftGood(draft) /\ BeforeReset(draft) /\ DOMAIN draft = DraftFields
  BY GoodDraft DEF ChangeAmount, Drafted
<1>4. /\ DOMAIN v = DraftFields /\ v.amount = price /\ v.registered = FALSE /\ v.line = items
      /\ v.wht = draft.wht /\ v.manual = draft.manual /\ v.deduction = draft.deduction
      /\ v.odd = draft.odd \cup (IF draft.manual # {} THEN {"stale"} ELSE {})
  BY <1>3 DEF DraftFields
<1>5. draft' = ResetTaxes(v)
  BY DEF ChangeAmount, items
<1> HIDE DEF v
<1>6. v.manual # {} => Disturbed(v)
  BY <1>4 DEF Disturbed
<1>7. BeforeReset(v)
  BY <1>1, <1>2, <1>3, <1>4, <1>6 DEF BeforeReset
<1>8. IsReset(v, draft')
  BY <1>4, <1>5, ResetIs
<1>9. DraftGood(draft')
  BY <1>7, <1>8, ResetGood
<1>10. draft'.registered = FALSE
  BY <1>4, <1>8 DEF IsReset
<1> QED BY <1>9, <1>10, DraftStep DEF ChangeAmount, DraftInFull

LEMMA ChangeLineInd ==
  ASSUME AmountsInd, NEW b \in VendorBill, NEW amount \in LinePrice, ChangeLine(b, amount)
  PROVE  AmountsInd'
<1> DEFINE line == LineForGross(b, amount)
           v == WriteLine(draft, b, line)
<1>1. DraftGood(draft) /\ DOMAIN draft = DraftFields /\ b \in DOMAIN draft.line
  BY GoodDraft DEF ChangeLine, Drafted
<1>2. amount \in Nat /\ amount <= Original[b] /\ retained \in Retention
  <2>1. residual[b] \in Int /\ residual[b] <= Original[b] /\ retained \in Retention
    BY DEF AmountsInd, AmountsTypeOK, LeftToPay
  <2>2. amount \in Nat /\ amount <= residual[b]
    BY PaymentAmountsAssumption DEF ChangeLine
  <2>3. Original[b] \in Int
    BY OriginalType
  <2> QED BY <2>1, <2>2, <2>3
<1>3. line \in LineRow /\ line.amount >= 0
  BY <1>2, LineForGrossType
<1>4. WhtNear(b, line)
  BY <1>2, GrossNear
<1>5. draft' = ResetTaxes(v)
  BY DEF ChangeLine
<1> HIDE DEF line
<1>6. IsWritten(draft, b, line, {}, v)
  BY <1>1, WriteIs
<1> HIDE DEF v
<1>7. BeforeReset(v)
  BY <1>1, <1>3, <1>4, <1>6, WriteGood
<1>8. IsReset(v, draft')
  BY <1>5, <1>6, ResetIs DEF IsWritten
<1>9. DraftGood(draft')
  BY <1>7, <1>8, ResetGood
<1>10. draft'.registered = FALSE
  BY <1>6, <1>8 DEF IsReset, IsWritten
<1> QED BY <1>9, <1>10, DraftStep DEF ChangeLine, DraftInFull

LEMMA ChangeTaxInd ==
  ASSUME AmountsInd, NEW b \in VendorBill, NEW tax \in TaxPrice, ChangeTax(b, -tax)
  PROVE  AmountsInd'
<1> DEFINE wht == -tax
           line == [draft.line[b] EXCEPT !.wht = wht]
           w == WriteLine(draft, b, line)
           extra == IF b \in DOMAIN draft.wht THEN {} ELSE {"typed"}
           v == [w EXCEPT !.odd = w.odd \cup extra]
           z == ResetTaxes(w)
<1>1. /\ DraftGood(draft) /\ DOMAIN draft = DraftFields /\ b \in DOMAIN draft.line
      /\ draft.line[b] \in LineRow /\ draft.line[b].amount >= 0 /\ LinesGood(draft.line)
  BY GoodDraft DEF ChangeTax, Drafted, LinesGood
<1>2. wht \in Int /\ wht # draft.line[b].wht
  BY PaymentAmountsAssumption DEF ChangeTax
<1>3. draft' = [z EXCEPT !.odd = z.odd \cup extra]
  BY DEF ChangeTax
<1> HIDE DEF wht
<1>4. line \in LineRow /\ line.amount = draft.line[b].amount /\ line.wht = wht
  BY <1>1, <1>2 DEF LineRow
<1>5. line.amount >= 0
  BY <1>1, <1>4
<1> HIDE DEF line
<1>6. IsWritten(draft, b, line, {}, w)
  BY <1>1, WriteIs
<1> HIDE DEF w
<1>7. DOMAIN w = DraftFields /\ IsReset(w, z)
  BY <1>6, ResetIs DEF IsWritten
<1> HIDE DEF z, extra
<1>8. /\ DOMAIN v = DraftFields /\ v.odd = w.odd \cup extra
      /\ v.amount = w.amount /\ v.registered = w.registered /\ v.line = w.line
      /\ v.wht = w.wht /\ v.manual = w.manual /\ v.deduction = w.deduction
  BY <1>7 DEF DraftFields
<1>9. IsWritten(draft, b, line, extra, v)
  BY <1>6, <1>8 DEF IsWritten
<1>10. DOMAIN z = DraftFields
  BY <1>7 DEF IsReset
<1>11. /\ DOMAIN draft' = DraftFields /\ draft'.odd = z.odd \cup extra
       /\ draft'.amount = z.amount /\ draft'.registered = z.registered /\ draft'.line = z.line
       /\ draft'.written = z.written /\ draft'.vat = z.vat /\ draft'.undue = z.undue
       /\ draft'.wht = z.wht /\ draft'.manual = z.manual /\ draft'.deduction = z.deduction
  BY <1>3, <1>10 DEF DraftFields
<1> HIDE DEF v
<1>12. IsReset(v, draft')
  BY <1>7, <1>8, <1>11 DEF IsReset
<1>13. (b \in DOMAIN draft.wht /\ line.wht # draft.line[b].wht) \/ "typed" \in extra
  BY <1>2, <1>4 DEF extra
<1>14. BeforeReset(v)
  BY <1>1, <1>4, <1>5, <1>9, <1>13, WriteGood
<1>15. DraftGood(draft')
  BY <1>12, <1>14, ResetGood
<1>16. draft'.registered = FALSE
  BY <1>9, <1>12 DEF IsReset, IsWritten
<1> QED BY <1>15, <1>16, DraftStep DEF ChangeTax, DraftInFull

LEMMA ChangeVatInd ==
  ASSUME AmountsInd, NEW b \in VendorBill, NEW tax \in TaxPrice, ChangeVat(b, tax)
  PROVE  AmountsInd'
<1>1. DraftGood(draft) /\ DraftInFull /\ DOMAIN draft = DraftFields /\ tax \in Int
  BY GoodDraft, PaymentAmountsAssumption DEF ChangeVat, Drafted
<1>2. draft' = [draft EXCEPT !.vat = [draft.vat EXCEPT ![b] = tax]]
  BY <1>1 DEF ChangeVat, DraftFields
<1>3. /\ DOMAIN draft' = DraftFields /\ draft'.vat = [draft.vat EXCEPT ![b] = tax]
      /\ draft'.amount = draft.amount /\ draft'.registered = draft.registered
      /\ draft'.line = draft.line /\ draft'.written = draft.written
      /\ draft'.undue = draft.undue /\ draft'.wht = draft.wht /\ draft'.manual = draft.manual
      /\ draft'.deduction = draft.deduction /\ draft'.odd = draft.odd
  BY <1>1, <1>2 DEF DraftFields
<1>4. draft'.vat \in [DOMAIN draft'.line -> Int]
  BY <1>1, <1>3 DEF DraftGood
<1>5. BeforeReset(draft')
  BY <1>1, <1>3 DEF DraftGood, BeforeReset, OneManual, Disturbed
<1>6. DraftGood(draft')
  BY <1>1, <1>3, <1>4, <1>5 DEF DraftGood
<1>7. DraftInFull'
  BY <1>1, <1>3 DEF DraftInFull, InFull, ChangeVat
<1> QED BY <1>6, <1>7, DraftStep DEF ChangeVat

LEMMA DeductionInd ==
  ASSUME AmountsInd, NEW amount \in Deduction, Deduct(amount)
  PROVE  AmountsInd'
<1> DEFINE v == [draft EXCEPT !.deduction = amount]
<1>1. DraftGood(draft) /\ DraftInFull /\ DOMAIN draft = DraftFields /\ amount \in Int
  BY GoodDraft, PaymentAmountsAssumption DEF Deduct, Drafted
<1>2. draft' = ResetTaxes(v)
  BY DEF Deduct
<1>3. /\ DOMAIN v = DraftFields
      /\ v.amount = draft.amount /\ v.registered = draft.registered
      /\ v.line = draft.line /\ v.wht = draft.wht /\ v.manual = draft.manual
      /\ v.deduction = amount /\ v.odd = draft.odd
  BY <1>1 DEF DraftFields
<1> HIDE DEF v
<1>4. BeforeReset(v)
  BY <1>1, <1>3 DEF DraftGood, BeforeReset, OneManual, Disturbed
<1>5. IsReset(v, draft')
  BY <1>2, <1>3, ResetIs
<1>6. DraftGood(draft')
  BY <1>4, <1>5, ResetGood
<1>7. DraftInFull'
  <2>1. draft'.registered = draft.registered /\ draft'.line = draft.line
    BY <1>3, <1>5 DEF IsReset
  <2>2. residual' = residual
    BY DEF Deduct
  <2> QED BY <1>1, <2>1, <2>2 DEF DraftInFull, InFull
<1> QED BY <1>6, <1>7, DraftStep DEF Deduct

-----------------------------------------------------------------------------
(* Amounts of payments: the taxes of a draft *)

LEMMA CentsType ==
  ASSUME NEW selected \in SUBSET VendorBill
  PROVE  Cents(selected) \in Nat
<1> DEFINE F == [b \in selected |-> Cardinality(LinesAbove[b])]
<1>1. \A b \in selected : F[b] \in Nat
  BY BillConstants
<1>2. IsFiniteSet(selected)
  BY PaymentAmountsAssumption, FS_Subset
<1>3. Cents(selected) = SumFunctionOnSet(F, selected)
  BY DEF Cents
<1> HIDE DEF F
<1> QED BY <1>1, <1>2, <1>3, SumNotNegative

\* Where nothing is above, the tax of a line is nothing.
LEMMA NoTax ==
  ASSUME NEW b \in VendorBill, NEW line \in LineRow, WhtNear(b, line), LinesAbove[b] = {},
         line.amount # 0 => LinesAbove[b] = WithholdingLines[b]
  PROVE  line.wht = 0
<1> SUFFICES ASSUME line.amount # 0 PROVE line.wht = 0
  BY DEF WhtNear
<1> DEFINE o == Original[b]
           u == Withheld(b, 1, 1)
           w == line.wht
           a == line.amount
           c == Cardinality(LinesAbove[b])
<1>1. o \in Nat \ {0} /\ w \in Int /\ a \in Int
  BY OriginalType DEF LineRow
<1>2. c = 0
  BY FS_EmptySet
<1>3. u = 0
  BY <1>2, NoneAbove
<1>4. Abs(o * w + u * a) <= o * c
  BY DEF WhtNear
<1> HIDE DEF o, u, w, a, c
<1> DEFINE x == o * w
<1>5. x \in Int /\ o * w + u * a = x /\ o * c = 0
  <2>1. u * a = 0
    BY <1>1, <1>3
  <2> QED BY <1>1, <1>2, <2>1
<1>6. x <= 0 /\ -x <= 0
  <2>1. Abs(x) <= 0
    BY <1>4, <1>5
  <2> HIDE DEF x
  <2> QED BY <1>5, <2>1, AbsOf
<1>7. w = 0
  <2>1. ASSUME w > 0 PROVE FALSE
    <3>1. o * w > 0
      BY <1>1, <2>1
    <3> QED BY <1>5, <1>6, <3>1
  <2>2. ASSUME w < 0 PROVE FALSE
    <3>1. -(o * w) > 0
      BY <1>1, <2>2
    <3> QED BY <1>5, <1>6, <3>1
  <2> QED BY <1>1, <2>1, <2>2
<1> QED BY <1>7 DEF w

\* Taxes of lines
SignedWht(items) == [b \in DOMAIN items |-> LineSign(b) * items[b].wht]

\* as a share of what may be withheld, over the common multiple of the bills
Share(items) ==
  [b \in DOMAIN items |->
     LineSign(b) * WithheldAbove(b, 1, 1) * items[b].amount * (Common \div Original[b])]

PaidOf(items) == {b \in DOMAIN items : items[b].amount # 0}

LEMMA OneShareNear ==
  ASSUME NEW items, LinesGood(items), NEW b \in DOMAIN items, WhtNear(b, items[b]),
         items[b].amount # 0 => LinesAbove[b] = WithholdingLines[b]
  PROVE  LET n == IF items[b].amount = 0 THEN 0 ELSE Cardinality(LinesAbove[b])
         IN  /\ SignedWht(items)[b] \in Int /\ Share(items)[b] \in Int
             /\ Common * SignedWht(items)[b] - (-1) * Share(items)[b] <= Common * n
             /\ (-1) * Share(items)[b] - Common * SignedWht(items)[b] <= Common * n
<1> DEFINE s == LineSign(b)
           w == items[b].wht
           a == items[b].amount
           u == WithheldAbove(b, 1, 1)
           m == Common \div Original[b]
           o == Original[b]
           c == Cardinality(LinesAbove[b])
           n == IF a = 0 THEN 0 ELSE c
           sw == SignedWht(items)[b]
           sh == Share(items)[b]
<1>1. b \in VendorBill /\ items[b] \in LineRow
  BY DEF LinesGood
<1>2. /\ (s = 1 \/ s = -1) /\ w \in Int /\ a \in Int /\ m \in Nat /\ o \in Nat
      /\ o * m = Common /\ Common \in Nat
  BY <1>1, OriginalType DEF LineRow, LineSign
<1>3. u \in Int /\ c \in Nat
  <2>1. 1 \in Int /\ 1 \in Nat \ {0}
    OBVIOUS
  <2> QED BY <1>1, <2>1, WithheldType, BillConstants
<1>4. sw = s * w /\ sh = s * u * a * m
  BY DEF SignedWht, Share
<1>5. a = 0 => w = 0
  BY DEF WhtNear
<1>6. ASSUME a # 0 PROVE Abs(o * w + u * a) <= o * c
  <2>1. LinesAbove[b] = WithholdingLines[b]
    BY <1>6
  <2>2. u = Withheld(b, 1, 1)
    BY <2>1 DEF Withheld, WithheldAbove
  <2> QED BY <2>1, <2>2 DEF WhtNear
<1> HIDE DEF s, w, a, u, m, o, c, sw, sh
<1> DEFINE x == o * w + u * a
           y == m * x
<1>7. /\ x \in Int /\ y \in Int /\ sw \in Int /\ sh \in Int
      /\ Common * sw + sh = s * y
  <2>1. x \in Int
    BY <1>2, <1>3
  <2>2. sw \in Int /\ u * a \in Int /\ s \in Int
    BY <1>2, <1>3, <1>4
  <2> DEFINE ua == u * a
             ow == o * w
  <2>3. ua \in Int /\ ow \in Int /\ s * u * a = s * ua
    BY <1>2, <1>3
  <2>4. sh = s * ua * m
    BY <1>4, <2>3
  <2>5. Common * sw = s * (m * ow)
    <3>1. CASE s = 1
      <4>1. Common * w = m * (o * w)
        BY <1>2
      <4> QED BY <1>2, <1>4, <3>1, <4>1
    <3>2. CASE s = -1
      <4>1. Common * (-w) = -(m * (o * w))
        BY <1>2
      <4>2. sw = -w
        BY <1>2, <1>4, <3>2
      <4>3. m * ow \in Int
        BY <1>2
      <4> HIDE DEF ow
      <4>4. s * (m * ow) = -(m * ow)
        BY <3>2, <4>3
      <4> QED BY <4>1, <4>2, <4>4 DEF ow
    <3> QED BY <1>2, <3>1, <3>2
  <2>6. x = ow + ua
    OBVIOUS
  <2> HIDE DEF x, ua, ow
  <2>7. sh = s * (m * ua) /\ m * ua \in Int /\ m * ow \in Int /\ sh \in Int
    BY <1>2, <2>2, <2>3, <2>4
  <2>8. m * x = m * ow + m * ua
    BY <1>2, <2>3, <2>6
  <2> DEFINE p == m * ow
             q == m * ua
  <2>9. p \in Int /\ q \in Int /\ Common * sw = s * p /\ sh = s * q /\ y = p + q
    BY <2>5, <2>7, <2>8
  <2> HIDE DEF p, q, y
  <2>10. s * p + s * q = s * (p + q)
    BY <1>2, <2>9
  <2>11. Common * sw + sh = s * p + s * q
    BY <2>9
  <2>12. y \in Int /\ s * y = s * (p + q)
    BY <2>9
  <2> QED BY <2>1, <2>2, <2>7, <2>10, <2>11, <2>12
<1>8. y <= Common * n /\ -y <= Common * n
  <2>1. CASE a = 0
    <3>1. x = 0
      BY <1>2, <1>3, <1>5, <2>1
    <3>2. y = 0 /\ Common * n = 0
      BY <1>2, <2>1, <3>1
    <3> QED BY <3>2
  <2>2. CASE a # 0
    <3> DEFINE oc == o * c
    <3>1. oc \in Int /\ x <= oc /\ -x <= oc
      <4>1. Abs(x) <= oc
        BY <1>6, <2>2
      <4>2. oc \in Int /\ x \in Int
        BY <1>2, <1>3, <1>7
      <4> HIDE DEF x, oc
      <4> QED BY <4>1, <4>2, AbsOf
    <3>2. m * oc = Common * n
      BY <1>2, <1>3, <2>2
    <3>3. m * x <= m * oc /\ -(m * x) <= m * oc
      <4>1. x \in Int
        BY <1>7
      <4> HIDE DEF x, oc
      <4>2. x - 0 <= oc /\ 0 - x <= oc /\ 0 \in Int
        BY <3>1, <4>1
      <4>3. m * x - m * 0 <= m * oc /\ m * 0 - m * x <= m * oc
        BY <1>2, <3>1, <4>1, <4>2, TimesNear
      <4>4. m * 0 = 0 /\ m * x \in Int
        BY <1>2, <4>1
      <4> QED BY <4>3, <4>4
    <3> QED BY <3>2, <3>3
  <2> QED BY <2>1, <2>2
<1> DEFINE cs == Common * sw
           cn == Common * n
<1>9. cs \in Int /\ cn \in Int /\ (-1) * sh = -sh
  BY <1>2, <1>3, <1>7
<1>10. cs + sh = s * y /\ y <= cn /\ -y <= cn /\ y \in Int /\ sh \in Int
  BY <1>7, <1>8
<1> HIDE DEF cs, cn, y
<1>11. cs - (-sh) <= cn /\ (-sh) - cs <= cn
  <2>1. CASE s = 1
    BY <1>9, <1>10, <2>1
  <2>2. CASE s = -1
    BY <1>9, <1>10, <2>2
  <2> QED BY <1>2, <2>1, <2>2
<1>12. cs - (-1) * sh <= cn /\ (-1) * sh - cs <= cn
  BY <1>9, <1>11
<1> QED BY <1>7, <1>12 DEF cs, cn, sw, sh, a, c

\* The cents of the bills that are paid
LEMMA CentsOfPaid ==
  ASSUME NEW items, LinesGood(items)
  PROVE  LET Terms == [b \in DOMAIN items |->
                     IF items[b].amount = 0 THEN 0 ELSE Cardinality(LinesAbove[b])]
         IN  /\ \A b \in DOMAIN items : Terms[b] \in Nat
             /\ SumFunctionOnSet(Terms, DOMAIN items) = Cents(PaidOf(items))
<1> DEFINE Terms == [b \in DOMAIN items |->
                   IF items[b].amount = 0 THEN 0 ELSE Cardinality(LinesAbove[b])]
           D == DOMAIN items
           P == PaidOf(items)
           F == [b \in P |-> Cardinality(LinesAbove[b])]
<1>1. IsFiniteSet(D) /\ P \in SUBSET D /\ D \subseteq VendorBill /\ IsFiniteSet(P)
  BY ComputedType, FS_Subset DEF LinesGood, PaidOf
<1>2. \A b \in D : Terms[b] \in Nat
  BY <1>1, BillConstants
<1>3. \A b \in D \ P : Terms[b] = 0
  BY DEF PaidOf
<1>4. \A b \in P : Terms[b] = F[b]
  BY DEF PaidOf
<1>5. Cents(P) = SumFunctionOnSet(F, P)
  BY DEF Cents
<1> HIDE DEF Terms, F, P
<1>6. SumFunctionOnSet(Terms, D) = SumFunctionOnSet(Terms, P)
  <2>1. \A b \in D : Terms[b] \in Int
    BY <1>2
  <2> HIDE DEF D
  <2> QED BY <1>1, <1>3, <2>1, SumZeros
<1>7. SumFunctionOnSet(Terms, P) = SumFunctionOnSet(F, P)
  BY <1>1, <1>4, SumSame
<1> QED BY <1>2, <1>5, <1>6, <1>7 DEF Terms, P

\* The taxes of the lines, in sum
LEMMA SharesNear ==
  ASSUME NEW items, LinesGood(items), \A b \in DOMAIN items : WhtNear(b, items[b]),
         \A b \in DOMAIN items : items[b].amount # 0 => LinesAbove[b] = WithholdingLines[b]
  PROVE  LET w == SumFunctionOnSet(SignedWht(items), DOMAIN items)
             y == SumFunctionOnSet(Share(items), DOMAIN items)
             c == Cents(PaidOf(items))
         IN  /\ w \in Int /\ y \in Int /\ c \in Nat
             /\ Common * w + y <= Common * c /\ -(Common * w + y) <= Common * c
<1> DEFINE D == DOMAIN items
           Terms == [b \in DOMAIN items |->
                   IF items[b].amount = 0 THEN 0 ELSE Cardinality(LinesAbove[b])]
           Z == [b \in D |-> 0]
           E == [b \in D |-> Common * Terms[b]]
           W == SignedWht(items)
           S == Share(items)
           w == SumFunctionOnSet(W, D)
           y == SumFunctionOnSet(S, D)
           c == Cents(PaidOf(items))
<1>1. IsFiniteSet(D) /\ Common \in Nat \ {0} /\ Common \in Int /\ -1 \in Int
  BY ComputedType, BillsAssumption
<1>2. (\A b \in D : Terms[b] \in Nat) /\ SumFunctionOnSet(Terms, D) = c
  BY CentsOfPaid
<1>3. \A b \in D : /\ W[b] \in Int /\ S[b] \in Int
                   /\ Common * W[b] - (-1) * S[b] <= Common * Terms[b]
                   /\ (-1) * S[b] - Common * W[b] <= Common * Terms[b]
  BY OneShareNear
<1>4. c \in Nat
  <2>1. PaidOf(items) \in SUBSET VendorBill
    BY DEF LinesGood, PaidOf
  <2> QED BY <2>1, CentsType
<1>5. \A b \in D : Z[b] = 0 /\ E[b] = Common * Terms[b]
  OBVIOUS
<1> HIDE DEF D, Terms, Z, E, W, S, c
<1>6. \A b \in D : E[b] \in Int /\ Z[b] \in Int /\ Terms[b] \in Int /\ E[b] = Z[b] + Common * Terms[b]
  <2> TAKE b \in D
  <2>1. Terms[b] \in Nat /\ Z[b] = 0 /\ E[b] = Common * Terms[b]
    BY <1>2, <1>5
  <2> QED BY <1>1, <2>1
<1>7. SumFunctionOnSet(E, D) = Common * c
  <2>1. SumFunctionOnSet(E, D) = SumFunctionOnSet(Z, D) + Common * SumFunctionOnSet(Terms, D)
    BY <1>1, <1>6, SumLinear
  <2>2. SumFunctionOnSet(Z, D) = 0
    <3>1. \A b \in D \ {} : Z[b] = 0
      BY <1>5
    <3>2. SumFunctionOnSet(Z, D) = SumFunctionOnSet(Z, {})
      BY <1>1, <1>6, <3>1, SumZeros
    <3> QED BY <3>2, SumEmpty
  <2> DEFINE z == Common * c
  <2>3. z \in Int
    BY <1>1, <1>4
  <2> HIDE DEF z
  <2>4. SumFunctionOnSet(E, D) = 0 + z
    BY <1>2, <2>1, <2>2 DEF z
  <2> QED BY <2>3, <2>4 DEF z
<1>8. w \in Int /\ y \in Int
  BY <1>1, <1>3, SumType
<1>9. /\ Common * w - (-1) * y <= Common * c
      /\ (-1) * y - Common * w <= Common * c
  <2>1. \A b \in D : /\ Common * W[b] - (-1) * S[b] <= E[b]
                     /\ (-1) * S[b] - Common * W[b] <= E[b]
    BY <1>3, <1>5
  <2>2. /\ Common * w - (-1) * y <= SumFunctionOnSet(E, D)
        /\ (-1) * y - Common * w <= SumFunctionOnSet(E, D)
    BY <1>1, <1>3, <1>6, <2>1, SumsNear
  <2> QED BY <1>7, <2>2
<1> HIDE DEF w, y
<1>10. Common * w + y <= Common * c /\ -(Common * w + y) <= Common * c
  <2> DEFINE x == Common * w
  <2>1. x \in Int /\ (-1) * y = -y
    BY <1>1, <1>8
  <2>2. x - (-y) = x + y /\ -y - x = -(x + y)
    <3> HIDE DEF x
    <3> QED BY <1>8, <2>1
  <2> HIDE DEF x
  <2>3. x - (-1) * y <= Common * c /\ (-1) * y - x <= Common * c
    BY <1>9 DEF x
  <2>4. x + y <= Common * c /\ -(x + y) <= Common * c
    BY <2>1, <2>2, <2>3
  <2> QED BY <2>4 DEF x
<1> QED BY <1>4, <1>8, <1>10 DEF w, y, c, W, S, D

LEMMA NearInt ==
  ASSUME NEW t \in Int, NEW w \in Int, NEW y \in Int, NEW c \in Nat, NEW m \in Nat \ {0},
         m * w + y <= m * c, -(m * w + y) <= m * c,
         2 * (t * m) + 2 * y <= m, -(2 * (t * m) + 2 * y) <= m
  PROVE  t - w <= c /\ w - t <= c
<1> DEFINE mw == m * w
           mc == m * c
           tm == t * m
           d == t - w
<1>1. mw \in Int /\ mc \in Int /\ tm \in Int /\ d \in Int
  OBVIOUS
<1>2. mw + y <= mc /\ -(mw + y) <= mc /\ 2 * tm + 2 * y <= m /\ -(2 * tm + 2 * y) <= m
  OBVIOUS
<1>3. (2 * d) * m = 2 * tm - 2 * mw /\ (2 * (-d)) * m = 2 * mw - 2 * tm
      /\ (1 + 2 * c) * m = m + 2 * mc
  OBVIOUS
<1> HIDE DEF mw, mc, tm, d
<1>4. 2 * tm - 2 * mw <= m + 2 * mc /\ 2 * mw - 2 * tm <= m + 2 * mc
  BY <1>1, <1>2
<1>5. 2 * d <= 1 + 2 * c /\ 2 * (-d) <= 1 + 2 * c
  <2> DEFINE p == 2 * d
             q == 2 * (-d)
             z == 1 + 2 * c
  <2>1. p \in Int /\ q \in Int /\ z \in Int
    BY <1>1
  <2>2. p * m <= z * m /\ q * m <= z * m
    BY <1>3, <1>4
  <2> HIDE DEF p, q, z
  <2>3. p <= z /\ q <= z
    BY <2>1, <2>2, CancelFactor
  <2> QED BY <2>3 DEF p, q, z
<1>6. d <= c /\ -d <= c
  BY <1>1, <1>5
<1> QED BY <1>6 DEF d

\* The rows of a draft that nothing disturbed say what its lines say.
LEMMA TaxesNear ==
  ASSUME NEW v, DraftGood(v), v.written, "typed" \notin v.odd, ~Disturbed(v),
         \A b \in DOMAIN v.line : v.line[b].amount # 0 => LinesAbove[b] = WithholdingLines[b]
  PROVE  LET t == SumFunctionOnSet(v.wht, DOMAIN v.wht)
             w == SumFunctionOnSet(SignedWht(v.line), DOMAIN v.line)
             c == Cents(PaidOf(v.line))
         IN  t \in Int /\ w \in Int /\ c \in Nat /\ t - w <= c /\ w - t <= c
<1> DEFINE items == v.line
           D == DOMAIN items
           R == DOMAIN v.wht
           t == SumFunctionOnSet(v.wht, R)
           w == SumFunctionOnSet(SignedWht(items), D)
           y == SumFunctionOnSet(Share(items), D)
           c == Cents(PaidOf(items))
<1>1. /\ LinesGood(items) /\ v.wht \in [R -> Int] /\ R \subseteq VendorBill
      /\ D \in SUBSET VendorBill /\ IsFiniteSet(D) /\ IsFiniteSet(R)
  <2>1. LinesGood(items) /\ v.wht \in [R -> Int] /\ R \subseteq VendorBill
    BY DEF DraftGood, BeforeReset
  <2>2. IsFiniteSet(R)
    BY <2>1, PaymentAmountsAssumption, FS_Subset
  <2> QED BY <2>1, <2>2, ComputedType DEF LinesGood
<1>2. c \in Nat
  <2>1. PaidOf(items) \in SUBSET VendorBill
    BY <1>1 DEF PaidOf
  <2> QED BY <2>1, CentsType
<1>3. t \in Int
  BY <1>1, SumType
<1>4. \A b \in D \ v.manual : WhtNear(b, items[b])
  BY DEF DraftGood, BeforeReset
<1>5. R = v.manual \cup Owners(items)
  BY DEF DraftGood
<1>6. CASE v.manual = {}
  <2>1. \A b \in D : WhtNear(b, items[b])
    BY <1>4, <1>6
  <2>2. /\ w \in Int /\ y \in Int
        /\ Common * w + y <= Common * c /\ -(Common * w + y) <= Common * c
    BY <1>1, <2>1, SharesNear
  <2>3. Common \in Nat \ {0}
    BY BillsAssumption
  <2>4. 2 * (t * Common) + 2 * y <= Common /\ -(2 * (t * Common) + 2 * y) <= Common
    <3>1. CASE R = {}
      <4>1. \A b \in D : LinesAbove[b] = {}
        <5> SUFFICES ASSUME \E b \in D : LinesAbove[b] # {} PROVE FALSE
          OBVIOUS
        <5>1. PICK b \in D : IsOwner(D, b)
          BY <1>1, OneOwner
        <5> QED BY <1>5, <3>1, <5>1 DEF Owners
      <4>2. \A b \in D : Share(items)[b] = 0
        <5> TAKE b \in D
        <5>1. WithheldAbove(b, 1, 1) = 0
          BY <4>1, SumEmpty DEF WithheldAbove
        <5> DEFINE s == LineSign(b)
                   a == items[b].amount
                   m == Common \div Original[b]
        <5>2. b \in VendorBill /\ items[b] \in LineRow
          BY <1>1 DEF LinesGood
        <5>3. s \in Int /\ a \in Int /\ m \in Int
          BY <5>2, OriginalType DEF LineSign, LineRow
        <5>4. Share(items)[b] = s * 0 * a * m
          BY <5>1 DEF Share
        <5> HIDE DEF s, a, m
        <5>5. s * 0 * a * m = 0
          <6>1. s * 0 = 0 /\ 0 * a = 0 /\ 0 * m = 0
            BY <5>3
          <6> QED BY <6>1
        <5> QED BY <5>4, <5>5
      <4>3. y = 0
        <5> DEFINE S == Share(items)
        <5>1. \A b \in D : S[b] \in Int
          BY <4>2
        <5>2. \A b \in D \ {} : S[b] = 0
          BY <4>2
        <5> HIDE DEF S, D
        <5>3. SumFunctionOnSet(S, D) = SumFunctionOnSet(S, {})
          BY <1>1, <5>1, <5>2, SumZeros
        <5> QED BY <5>3, SumEmpty DEF S
      <4>4. t = 0
        BY <3>1, SumEmpty
      <4> HIDE DEF t, y
      <4>5. t * Common = 0
        BY <2>3, <4>4
      <4> QED BY <2>3, <4>3, <4>5
    <3>2. CASE R # {}
      <4>1. PICK b : b \in R
        BY <3>2
      <4>2. R = {b}
        BY <1>1, <1>5, <1>6, <4>1, OneOwner DEF Owners
      <4>3. v.wht[b] = ComputedWht(items)
        BY <1>6, <4>1 DEF DraftGood
      <4>4. t = v.wht[b]
        <5> DEFINE F == v.wht
        <5>1. /\ IsFiniteSet(R) /\ (\A k \in R : F[k] \in Int) /\ b \in R
          BY <1>1, <4>1
        <5> HIDE DEF F, R
        <5>2. SumFunctionOnSet(F, R) = F[b] + SumFunctionOnSet(F, R \ {b})
          BY <5>1, SumRemove
        <5>3. R \ {b} = {}
          BY <4>2
        <5>4. SumFunctionOnSet(F, R \ {b}) = 0
          BY <5>3, SumEmpty
        <5> QED BY <5>1, <5>2, <5>4 DEF F
      <4>5. ComputedWht(items) = -InCents(y, Common)
        BY DEF ComputedWht, Share
      <4> HIDE DEF t, y
      <4> DEFINE q == InCents(y, Common)
      <4>6. q \in Int /\ 2 * (q * Common) - 2 * y <= Common /\ 2 * y - 2 * (q * Common) <= Common
        BY <2>2, <2>3, InCentsNear
      <4> HIDE DEF q
      <4>7. t = -q
        BY <4>3, <4>4, <4>5 DEF q
      <4>8. t * Common = -(q * Common) /\ q * Common \in Int
        BY <2>3, <4>6, <4>7
      <4> DEFINE x == q * Common
      <4>9. x \in Int /\ t * Common = -x /\ 2 * x - 2 * y <= Common /\ 2 * y - 2 * x <= Common
        BY <4>6, <4>8
      <4> HIDE DEF x
      <4>10. 2 * (-x) + 2 * y <= Common /\ -(2 * (-x) + 2 * y) <= Common
        BY <2>2, <2>3, <4>9
      <4> QED BY <4>9, <4>10
    <3> QED BY <3>1, <3>2
  <2> HIDE DEF t, w, y, c
  <2>5. t - w <= c /\ w - t <= c
    BY <1>2, <1>3, <2>2, <2>3, <2>4, NearInt
  <2> QED BY <1>2, <1>3, <2>2, <2>5 DEF t, w, c
<1>7. CASE v.manual # {}
  <2>1. PICK b \in VendorBill : OneManual(v, b)
    BY <1>7 DEF DraftGood, BeforeReset
  <2>2. /\ v.manual = {b} /\ b \in D /\ b \notin RefundBill /\ IsOwner(D, b)
        /\ v.wht[b] = items[b].wht
        /\ \A k \in D \ {b} : LinesAbove[k] = {} \/ items[k].amount = 0
    BY <2>1 DEF OneManual
  <2>3. R = {b}
    BY <1>1, <1>5, <2>2, OneOwner DEF Owners
  <2>4. t = v.wht[b]
    <3> DEFINE F == v.wht
    <3>1. /\ IsFiniteSet(R) /\ (\A k \in R : F[k] \in Int) /\ b \in R
      BY <1>1, <2>3
    <3> HIDE DEF F, R
    <3>2. SumFunctionOnSet(F, R) = F[b] + SumFunctionOnSet(F, R \ {b})
      BY <3>1, SumRemove
    <3>3. R \ {b} = {}
      BY <2>3
    <3>4. SumFunctionOnSet(F, R \ {b}) = 0
      BY <3>3, SumEmpty
    <3> QED BY <3>1, <3>2, <3>4 DEF F
  <2>5. \A k \in D \ {b} : items[k].wht = 0
    <3> TAKE k \in D \ {b}
    <3>1. WhtNear(k, items[k]) /\ k \in VendorBill /\ items[k] \in LineRow
      BY <1>1, <1>4, <2>2 DEF LinesGood
    <3>2. CASE items[k].amount = 0
      BY <3>1, <3>2 DEF WhtNear
    <3>3. CASE LinesAbove[k] = {}
      BY <3>1, <3>3, NoTax
    <3> QED BY <2>2, <3>2, <3>3
  <2> DEFINE W == SignedWht(items)
  <2>6. (\A k \in D : W[k] \in Int) /\ (\A k \in D \ {b} : W[k] = 0) /\ W[b] = items[b].wht
    <3>1. \A k \in D : W[k] = LineSign(k) * items[k].wht /\ items[k].wht \in Int
      BY <1>1 DEF SignedWht, LinesGood, LineRow
    <3>2. \A k : LineSign(k) \in Int
      BY DEF LineSign
    <3>3. LineSign(b) = 1
      BY <2>2 DEF LineSign
    <3>4. \A k \in D : LineSign(k) * items[k].wht \in Int
      BY <3>1, <3>2
    <3>5. \A k \in D \ {b} : LineSign(k) * 0 = 0
      BY <3>2
    <3> QED BY <2>2, <2>5, <3>1, <3>3, <3>4, <3>5
  <2>7. w = items[b].wht
    <3> HIDE DEF W, D
    <3>1. SumFunctionOnSet(W, D) = W[b] + SumFunctionOnSet(W, D \ {b})
      BY <1>1, <2>2, <2>6, SumRemove
    <3>2. SumFunctionOnSet(W, D \ {b}) = SumFunctionOnSet(W, {})
      <4>1. IsFiniteSet(D \ {b})
        BY <1>1, FS_Subset
      <4>2. \A k \in D \ {b} : W[k] \in Int
        BY <2>6
      <4>3. \A k \in (D \ {b}) \ {} : W[k] = 0
        BY <2>6
      <4> QED BY <4>1, <4>2, <4>3, SumZeros
    <3>3. SumFunctionOnSet(W, {}) = 0
      BY SumEmpty
    <3>4. W[b] \in Int
      BY <2>2, <2>6
    <3>5. SumFunctionOnSet(W, D) = W[b]
      BY <3>1, <3>2, <3>3, <3>4
    <3> QED BY <2>6, <3>5 DEF W
  <2>8. t = w
    BY <2>2, <2>4, <2>7
  <2> HIDE DEF t, w, c
  <2>9. t - w = 0 /\ w - t = 0
    BY <1>3, <2>8
  <2> QED BY <1>2, <1>3, <2>8, <2>9 DEF t, w, c
<1> QED BY <1>6, <1>7

-----------------------------------------------------------------------------
(* Amounts of payments: the entry *)

\* What the entry lacks is what the form shows and the deduction, but for the
\* difference between the rows of the taxes and the lines.
LEMMA Totals ==
  ASSUME NEW v, DraftGood(v), twoSteps \in BOOLEAN,
         twoSteps => \A b \in DOMAIN v.line : v.vat[b] = -v.undue[b],
         \A b \in DOMAIN v.line \cap RefundBill : v.line[b].retention = 0
  PROVE  LET t == SumFunctionOnSet(v.wht, DOMAIN v.wht)
             w == SumFunctionOnSet(SignedWht(v.line), DOMAIN v.line)
         IN  /\ ShownDifference(v) \in Int /\ LineTotal(v) \in Int /\ v.deduction \in Int
             /\ t \in Int /\ w \in Int
             /\ LineTotal(v) = (t - w) - ShownDifference(v) - v.deduction
<1> DEFINE D == DOMAIN v.line
           A == [b \in DOMAIN v.line |-> LineSign(b) * v.line[b].amount]
           G == [b \in DOMAIN v.line |-> LineSign(b) * NetOfLine(v.line[b])]
           K == [b \in DOMAIN v.line |-> v.line[b].retention]
           W == SignedWht(v.line)
           M == [b \in D |-> A[b] + 1 * W[b]]
           V == v.vat
           U == v.undue
           O == [b \in D |-> V[b] + 1 * U[b]]
           a == SumFunctionOnSet(A, D)
           g == SumFunctionOnSet(G, D)
           k == SumFunctionOnSet(K, D)
           w == SumFunctionOnSet(W, D)
           m == SumFunctionOnSet(M, D)
           vt == SumFunctionOnSet(V, D)
           ut == SumFunctionOnSet(U, D)
           t == SumFunctionOnSet(v.wht, DOMAIN v.wht)
<1>1. /\ IsFiniteSet(D) /\ v.amount \in Int /\ v.deduction \in Int
      /\ D \subseteq VendorBill
      /\ \A b \in D : v.line[b] \in LineRow
      /\ \A b \in D : V[b] \in Int /\ U[b] \in Int
      /\ IsFiniteSet(DOMAIN v.wht) /\ \A b \in DOMAIN v.wht : v.wht[b] \in Int
  <2>1. LinesGood(v.line)
    BY DEF DraftGood, BeforeReset
  <2>2. IsFiniteSet(DOMAIN v.wht)
    BY PaymentAmountsAssumption, FS_Subset DEF DraftGood, BeforeReset
  <2> QED BY <2>1, <2>2, ComputedType DEF DraftGood, BeforeReset, LinesGood
<1>2. \A b \in D : /\ A[b] \in Int /\ G[b] \in Int /\ K[b] \in Int /\ W[b] \in Int /\ M[b] \in Int
                   /\ G[b] = M[b] + 1 * K[b] /\ M[b] = A[b] + 1 * W[b]
  <2> TAKE b \in D
  <2> DEFINE x == v.line[b].amount
             y == v.line[b].wht
             z == v.line[b].retention
             s == LineSign(b)
  <2>1. x \in Int /\ y \in Int /\ z \in Int
    BY <1>1 DEF LineRow
  <2>2. s = 1 \/ (s = -1 /\ z = 0)
    <3>1. b \in RefundBill => z = 0
      OBVIOUS
    <3>2. s = IF b \in RefundBill THEN -1 ELSE 1
      BY DEF LineSign
    <3> HIDE DEF s, z
    <3> QED BY <3>1, <3>2
  <2>3. /\ A[b] = s * x /\ G[b] = s * (x + y + z) /\ K[b] = z /\ W[b] = s * y
        /\ M[b] = A[b] + 1 * W[b]
    BY DEF NetOfLine, SignedWht
  <2> HIDE DEF x, y, z, s, A, G, K, W, M
  <2>4. s * x \in Int /\ s * y \in Int
    BY <2>1, <2>2
  <2>5. s * (x + y + z) = (s * x + 1 * (s * y)) + 1 * z
    <3>1. CASE s = 1
      BY <2>1, <3>1
    <3>2. CASE s = -1 /\ z = 0
      BY <2>1, <3>2
    <3> QED BY <2>2, <3>1, <3>2
  <2>6. M[b] = s * x + 1 * (s * y)
    BY <2>3
  <2>7. G[b] = M[b] + 1 * K[b]
    BY <2>3, <2>5, <2>6
  <2>8. M[b] \in Int /\ G[b] \in Int
    <3> DEFINE p == s * x
               q == s * y
    <3>1. p \in Int /\ q \in Int /\ M[b] = p + 1 * q
      BY <2>4, <2>6
    <3> HIDE DEF p, q
    <3>2. M[b] \in Int
      BY <3>1
    <3> QED BY <2>1, <2>3, <2>7, <3>2
  <2> QED BY <2>1, <2>3, <2>4, <2>7, <2>8
<1>3. /\ ShownDifference(v) = v.amount - g - v.deduction
      /\ LineTotal(v) = a - v.amount + BookedTaxes(v) + k
      /\ BookedTaxes(v) = (t + IF twoSteps THEN 0 ELSE vt + ut) + -(vt + ut)
  BY DEF ShownDifference, LineTotal, BookedTaxes, TaxLines, TaxDifference, BookedRetention,
         OverLines
<1> HIDE DEF D, A, G, K, W, M
<1>4. a \in Int /\ g \in Int /\ k \in Int /\ w \in Int /\ m \in Int
  BY <1>1, <1>2, SumType
<1>5. 1 \in Int
  OBVIOUS
<1>6. m = a + 1 * w
  BY <1>1, <1>2, <1>5, SumLinear
<1>7. g = m + 1 * k
  BY <1>1, <1>2, <1>5, SumLinear
<1>8. vt \in Int /\ ut \in Int /\ t \in Int
  <2> HIDE DEF V, U
  <2>1. vt \in Int /\ ut \in Int
    BY <1>1, SumType
  <2>2. t \in Int
    BY <1>1, SumType
  <2> QED BY <2>1, <2>2
<1>9. twoSteps => vt + ut = 0
  <2> SUFFICES ASSUME twoSteps PROVE vt + ut = 0
    OBVIOUS
  <2>1. \A b \in D : O[b] = V[b] + 1 * U[b] /\ V[b] \in Int /\ U[b] \in Int
    BY <1>1
  <2>2. \A b \in D : O[b] = 0 /\ O[b] \in Int
    <3>1. \A b \in D : V[b] = -U[b]
      BY DEF D
    <3> QED BY <2>1, <3>1
  <2> HIDE DEF O, V, U
  <2>3. SumFunctionOnSet(O, D) = vt + 1 * ut
    BY <1>1, <1>5, <2>1, SumLinear
  <2>4. SumFunctionOnSet(O, D) = SumFunctionOnSet(O, {})
    <3>1. \A b \in D \ {} : O[b] = 0
      BY <2>2
    <3> QED BY <1>1, <2>2, <3>1, SumZeros
  <2>5. SumFunctionOnSet(O, D) = 0
    BY <2>4, SumEmpty
  <2> HIDE DEF vt, ut
  <2> QED BY <1>8, <2>3, <2>5
<1> HIDE DEF a, g, k, w, m, vt, ut, t
<1>10. BookedTaxes(v) = t
  <2>1. CASE twoSteps
    <3>1. -(vt + ut) = 0
      BY <1>8, <1>9, <2>1
    <3> QED BY <1>3, <1>8, <2>1, <3>1
  <2>2. CASE ~twoSteps
    BY <1>3, <1>8, <2>2
  <2> QED BY <2>1, <2>2
<1>11. /\ ShownDifference(v) \in Int /\ LineTotal(v) \in Int
       /\ LineTotal(v) = (t - w) - ShownDifference(v) - v.deduction
  BY <1>1, <1>3, <1>4, <1>6, <1>7, <1>8, <1>10
<1> QED BY <1>1, <1>4, <1>8, <1>11 DEF t, w, W, D

LEMMA WrittenOffNear ==
  ASSUME NEW v, NEW shown \in Int, NEW total \in Int, NEW ded \in Int, NEW e \in Int, NEW c \in Nat,
         ShownDifference(v) = shown, LineTotal(v) = total, v.deduction = ded,
         total = e - shown - ded, e <= c, -e <= c, ~(ded # 0 /\ total = ded)
  PROVE  LET off == WrittenOff(v)
         IN  Abs(total + off) <= c /\ Abs(off - shown - ded) <= c
<1> DEFINE off == WrittenOff(v)
<1>1. off = IF total = 0 THEN 0
            ELSE IF ded = 0 THEN -total
            ELSE ded + (IF total = ded THEN 0 ELSE shown)
  BY DEF WrittenOff
<1> HIDE DEF off
<1>2. CASE total = 0
  <2>1. off = 0
    BY <1>1, <1>2
  <2>2. total + off = 0 /\ off - shown - ded = -e
    BY <1>2, <2>1
  <2> QED BY <2>2 DEF Abs, off
<1>3. CASE total # 0 /\ ded = 0
  <2>1. off = -total
    BY <1>1, <1>3
  <2>2. total + off = 0 /\ off - shown - ded = -e
    BY <1>3, <2>1
  <2> QED BY <2>2 DEF Abs, off
<1>4. CASE total # 0 /\ ded # 0
  <2>1. off = ded + shown
    BY <1>1, <1>4
  <2>2. total + off = e /\ off - shown - ded = 0
    BY <2>1
  <2> QED BY <2>2 DEF Abs, off
<1> QED BY <1>2, <1>3, <1>4

LEMMA EntryAsShown ==
  ASSUME AmountsInd, draft # NoDraft, Odd(draft) \cap Misleading = {}
  PROVE  LET lacks == LineTotal(draft)
             off == WrittenOff(draft)
             shown == ShownDifference(draft)
             paid == {b \in DOMAIN draft.line : draft.line[b].amount # 0}
         IN  /\ Abs(lacks + off) <= Cents(paid)
             /\ Abs(off - shown - draft.deduction) <= Cents(paid)
<1> DEFINE v == draft
           shown == ShownDifference(v)
           total == LineTotal(v)
           ded == v.deduction
           t == SumFunctionOnSet(v.wht, DOMAIN v.wht)
           w == SumFunctionOnSet(SignedWht(v.line), DOMAIN v.line)
           c == Cents(PaidOf(v.line))
           e == t - w
<1>1. DraftGood(v) /\ v.written \in BOOLEAN /\ twoSteps \in BOOLEAN
  BY GoodDraft DEF DraftGood, AmountsInd, AmountsTypeOK
<1>2. /\ v.written
      /\ \A b \in DOMAIN v.line \cap RefundBill : v.line[b].retention = 0
      /\ twoSteps => \A b \in DOMAIN v.line : v.vat[b] = -v.undue[b]
      /\ \A b \in DOMAIN v.line :
           v.line[b].amount # 0 => LinesAbove[b] = WithholdingLines[b]
      /\ ~(ded # 0 /\ total = ded)
      /\ "typed" \notin v.odd /\ ~Disturbed(v)
  <2>1. /\ "unwritten" \notin Odd(v) /\ "refund" \notin Odd(v) /\ "below" \notin Odd(v)
        /\ "deduction" \notin Odd(v) /\ "typed" \notin Odd(v) /\ "shared" \notin Odd(v)
        /\ "stale" \notin Odd(v) /\ (twoSteps => "vat" \notin Odd(v))
    BY DEF Misleading
  <2>2. v.written
    BY <1>1, <2>1 DEF Odd
  <2>3. \A b \in DOMAIN v.line \cap RefundBill : v.line[b].retention = 0
    BY <2>1 DEF Odd
  <2>4. twoSteps => \A b \in DOMAIN v.line : v.vat[b] = -v.undue[b]
    BY <2>1 DEF Odd
  <2>5. \A b \in DOMAIN v.line :
           v.line[b].amount # 0 => LinesAbove[b] = WithholdingLines[b]
    BY <2>1 DEF Odd
  <2>6. ~(ded # 0 /\ total = ded)
    BY <2>1 DEF Odd
  <2>7. v.odd \subseteq Odd(v)
    BY DEF Odd
  <2>8. "typed" \notin v.odd /\ ~Disturbed(v)
    BY <2>1, <2>7 DEF Disturbed
  <2> QED BY <2>2, <2>3, <2>4, <2>5, <2>6, <2>8
<1>3. /\ shown \in Int /\ total \in Int /\ ded \in Int /\ t \in Int /\ w \in Int
      /\ total = (t - w) - shown - ded
  BY <1>1, <1>2, Totals
<1>4. c \in Nat /\ t - w <= c /\ w - t <= c
  BY <1>1, <1>2, TaxesNear
<1>5. e \in Int /\ total = e - shown - ded /\ e <= c /\ -e <= c
  <2> HIDE DEF shown, total, ded, t, w, c
  <2> QED BY <1>3, <1>4
<1>6. Abs(total + WrittenOff(v)) <= c /\ Abs(WrittenOff(v) - shown - ded) <= c
  <2>1. ShownDifference(v) = shown /\ LineTotal(v) = total /\ v.deduction = ded
    OBVIOUS
  <2>2. ~(ded # 0 /\ total = ded)
    BY <1>2
  <2> HIDE DEF v, shown, total, ded, e, c
  <2> QED BY <1>3, <1>4, <1>5, <2>1, <2>2, WrittenOffNear
<1>7. c = Cents({b \in DOMAIN draft.line : draft.line[b].amount # 0})
  BY DEF PaidOf
<1> QED BY <1>6, <1>7

\* One more payment of a bill: half a cent more at most
LEMMA VatNumbers ==
  ASSUME NEW d \in Int, NEW o \in Nat \ {0}, NEW k \in Int, NEW r \in Int, NEW a \in Int,
         NEW n \in Int, NEW q \in Int,
         2 * Abs(d * o - k * (o - r)) <= n * o,
         2 * (q * o) - 2 * (k * a) <= o, 2 * (k * a) - 2 * (q * o) <= o
  PROVE  2 * Abs((d + q) * o - k * (o - (r - a))) <= (n + 1) * o
<1> DEFINE x == d * o - k * (o - r)
           y == q * o - k * a
           z == (d + q) * o - k * (o - (r - a))
           no == n * o
<1>1. x \in Int /\ no \in Int /\ y \in Int /\ z \in Int
  <2>1. d * o \in Int /\ k * (o - r) \in Int /\ q * o \in Int /\ k * a \in Int
        /\ (d + q) * o \in Int /\ k * (o - (r - a)) \in Int
    OBVIOUS
  <2> QED BY <2>1
<1>2. z = x + y
  <2> DEFINE b == o - r
             do == d * o
             qo == q * o
             kb == k * b
             ka == k * a
  <2>1. b \in Int /\ do \in Int /\ qo \in Int /\ kb \in Int /\ ka \in Int
    OBVIOUS
  <2>2. (d + q) * o = do + qo
    OBVIOUS
  <2>3. o - (r - a) = b + a
    OBVIOUS
  <2>4. k * (b + a) = kb + ka
    <3> HIDE DEF b
    <3> QED BY <2>1
  <2>5. z = (do + qo) - (kb + ka)
    BY <2>2, <2>3, <2>4
  <2>6. x = do - kb /\ y = qo - ka
    OBVIOUS
  <2> HIDE DEF z, x, y, do, qo, kb, ka, b
  <2> QED BY <2>1, <2>5, <2>6
<1>3. 2 * Abs(x) <= no
  OBVIOUS
<1>4. 2 * y <= o /\ -(2 * y) <= o
  <2> DEFINE qo == q * o
             ka == k * a
  <2>1. qo \in Int /\ ka \in Int /\ 2 * qo - 2 * ka <= o /\ 2 * ka - 2 * qo <= o /\ y = qo - ka
    OBVIOUS
  <2> HIDE DEF qo, ka, y
  <2> QED BY <2>1
<1>5. (n + 1) * o = no + o
  OBVIOUS
<1> HIDE DEF x, y, z, no
<1>6. 2 * x <= no /\ -(2 * x) <= no
  BY <1>1, <1>3, AbsOf
<1>7. 2 * z <= no + o /\ -(2 * z) <= no + o
  BY <1>1, <1>2, <1>4, <1>6
<1>8. 2 * Abs(z) <= no + o
  BY <1>1, <1>7, AbsOf
<1> QED BY <1>5, <1>8 DEF z

LEMMA InCentsZero ==
  ASSUME NEW d \in Nat \ {0}
  PROVE  InCents(0, d) = 0
<1> DEFINE t == InCents(0, d)
<1>1. t \in Int /\ 2 * (t * d) - 2 * 0 <= d /\ 2 * 0 - 2 * (t * d) <= d
  <2>1. 0 \in Int
    OBVIOUS
  <2> QED BY <2>1, InCentsNear
<1> HIDE DEF t
<1>2. ASSUME t > 0 PROVE FALSE
  <2>1. t * d >= d
    <3>1. t * d >= 1 * d
      BY <1>1, <1>2
    <3> QED BY <3>1
  <2>2. t * d \in Int
    BY <1>1
  <2> QED BY <1>1, <2>1, <2>2
<1>3. ASSUME t < 0 PROVE FALSE
  <2>1. t * d <= -d
    <3>1. t * d <= (-1) * d
      BY <1>1, <1>3
    <3> QED BY <3>1
  <2>2. t * d \in Int
    BY <1>1
  <2> QED BY <1>1, <2>1, <2>2
<1> QED BY <1>1, <1>2, <1>3 DEF t

LEMMA PostFacts ==
  ASSUME AmountsInd, PostPaymentDraft
  PROVE  LET D == DOMAIN draft.line
             amount(b) == draft.line[b].amount
         IN  /\ DraftGood(draft) /\ DraftInFull /\ draft # NoDraft /\ D \subseteq VendorBill
             /\ \A b \in D : amount(b) \in Nat /\ draft.vat[b] \in Int /\ parts.count[b] < PostingBound
             /\ \A b \in VendorBill :
                  /\ residual'[b] = IF b \in D THEN residual[b] - amount(b) ELSE residual[b]
                  /\ due'[b] = IF b \in D THEN due[b] + draft.vat[b] ELSE due[b]
                  /\ parts'.count[b] =
                       IF b \in D /\ amount(b) # 0 THEN parts.count[b] + 1 ELSE parts.count[b]
             /\ parts'.odd = parts.odd \cup Odd(draft)
             /\ draft' = NoDraft
<1> DEFINE D == DOMAIN draft.line
           amount(b) == draft.line[b].amount
           paid == {b \in D : draft.line[b].amount # 0}
           count == [b \in VendorBill |-> parts.count[b] + IF b \in paid THEN 1 ELSE 0]
           odd == parts.odd \cup Odd(draft)
<1>1. DraftGood(draft) /\ DraftInFull /\ LinesGood(draft.line) /\ draft # NoDraft
  BY GoodDraft DEF PostPaymentDraft, Drafted
<1>2. \A b \in D : amount(b) \in Nat /\ draft.vat[b] \in Int /\ b \in VendorBill
  BY <1>1 DEF LinesGood, LineRow, DraftGood
<1>3. /\ residual \in [VendorBill -> Int] /\ due \in [VendorBill -> Int]
      /\ parts.count \in [VendorBill -> 0 .. PostingBound]
  BY DEF AmountsInd, AmountsTypeOK
<1>4. /\ residual' = [b \in VendorBill |->
           IF b \in paid THEN residual[b] - draft.line[b].amount ELSE residual[b]]
      /\ due' = [b \in VendorBill |-> IF b \in D THEN due[b] + draft.vat[b] ELSE due[b]]
      /\ parts' = [count |-> count, odd |-> odd]
      /\ draft' = NoDraft
      /\ \A b \in D : parts.count[b] < PostingBound
  BY DEF PostPaymentDraft
<1>5. parts'.count = count /\ parts'.odd = odd
  <2> HIDE DEF count, odd
  <2> QED BY <1>4
<1>6. ASSUME NEW b \in VendorBill
      PROVE  /\ residual'[b] = IF b \in D THEN residual[b] - amount(b) ELSE residual[b]
             /\ due'[b] = IF b \in D THEN due[b] + draft.vat[b] ELSE due[b]
             /\ parts'.count[b] =
                  IF b \in D /\ amount(b) # 0 THEN parts.count[b] + 1 ELSE parts.count[b]
  <2>1. residual[b] \in Int /\ parts.count[b] \in Int
    BY <1>3, PaymentAmountsAssumption
  <2>2. residual'[b] = IF b \in paid THEN residual[b] - amount(b) ELSE residual[b]
    BY <1>4
  <2>3. residual'[b] = IF b \in D THEN residual[b] - amount(b) ELSE residual[b]
    BY <2>1, <2>2
  <2>4. count[b] = parts.count[b] + IF b \in paid THEN 1 ELSE 0
    OBVIOUS
  <2>5. parts'.count[b] =
          IF b \in D /\ amount(b) # 0 THEN parts.count[b] + 1 ELSE parts.count[b]
    BY <1>5, <2>1, <2>4
  <2> QED BY <1>4, <2>3, <2>5
<1> QED BY <1>1, <1>2, <1>4, <1>5, <1>6

LEMMA PostVat ==
  ASSUME AmountsInd, PostPaymentDraft
  PROVE  VatFollowsPayment'
<1> DEFINE D == DOMAIN draft.line
           amount(b) == draft.line[b].amount
<1>1. /\ DraftGood(draft) /\ D \subseteq VendorBill
      /\ \A b \in D : amount(b) \in Nat /\ draft.vat[b] \in Int
      /\ \A b \in VendorBill :
           /\ residual'[b] = IF b \in D THEN residual[b] - amount(b) ELSE residual[b]
           /\ due'[b] = IF b \in D THEN due[b] + draft.vat[b] ELSE due[b]
           /\ parts'.count[b] =
                IF b \in D /\ amount(b) # 0 THEN parts.count[b] + 1 ELSE parts.count[b]
      /\ parts'.odd = parts.odd \cup Odd(draft)
  BY PostFacts
<1>2. SUFFICES ASSUME parts'.odd \cap {"unwritten", "vat"} = {}, NEW b \in VendorBill
               PROVE  2 * Abs(due'[b] * Original[b]
                              - LineSign(b) * VatOf[b] * (Original[b] - residual'[b]))
                        <= parts'.count[b] * Original[b]
  BY DEF VatFollowsPayment
<1> DEFINE o == Original[b]
           s == LineSign(b)
           k == s * VatOf[b]
           n == parts.count[b]
           d == due[b]
           r == residual[b]
<1>3. 2 * Abs(d * o - k * (o - r)) <= n * o
  <2>1. parts.odd \cap {"unwritten", "vat"} = {}
    BY <1>1, <1>2
  <2> QED BY <2>1 DEF AmountsInd, VatFollowsPayment
<1>4. /\ o \in Nat \ {0} /\ s \in Int /\ VatOf[b] \in Int /\ k \in Int /\ n \in Int /\ d \in Int
      /\ r \in Int
  <2>1. s \in Int
    BY DEF LineSign
  <2>2. VatOf[b] \in Int /\ o \in Nat \ {0}
    BY OriginalType
  <2>3. n \in Int /\ d \in Int /\ r \in Int
    BY PaymentAmountsAssumption DEF AmountsInd, AmountsTypeOK
  <2> QED BY <2>1, <2>2, <2>3
<1>5. CASE b \notin D
  BY <1>1, <1>3, <1>5
<1>6. CASE b \in D
  <2> DEFINE a == amount(b)
             q == draft.vat[b]
  <2>1. a \in Nat /\ q \in Int
    BY <1>1, <1>6
  <2>2. q = InCents(k * a, o)
    <3>1. "unwritten" \notin Odd(draft) /\ "vat" \notin Odd(draft)
      BY <1>1, <1>2
    <3>2. draft.written
      BY <1>1, <3>1 DEF Odd, DraftGood
    <3>3. q = -draft.undue[b]
      BY <1>6, <3>1 DEF Odd
    <3>4. draft.undue[b] = -ComputedVat(draft.line)[b]
      BY <1>1, <1>6, <3>2 DEF DraftGood
    <3>5. ComputedVat(draft.line)[b] = InCents(k * a, o)
      BY <1>6 DEF ComputedVat
    <3>6. ComputedVat(draft.line)[b] \in Int
      <4>1. LinesGood(draft.line)
        BY <1>1 DEF DraftGood, BeforeReset
      <4> QED BY <1>6, <4>1, ComputedType
    <3> DEFINE x == ComputedVat(draft.line)[b]
    <3>7. x \in Int /\ q = -(-x) /\ x = InCents(k * a, o)
      BY <3>3, <3>4, <3>5, <3>6
    <3> HIDE DEF x, q, k, a, o
    <3> QED BY <3>7
  <2>3. /\ due'[b] = d + q /\ residual'[b] = r - a
        /\ parts'.count[b] = IF a # 0 THEN n + 1 ELSE n
    BY <1>1, <1>6
  <2> HIDE DEF k, d, r, o, a, q, n
  <2>4. CASE a # 0
    <3>1. k * a \in Int
      BY <1>4, <2>1
    <3>2. 2 * (q * o) - 2 * (k * a) <= o /\ 2 * (k * a) - 2 * (q * o) <= o
      BY <1>4, <2>2, <3>1, InCentsNear
    <3>3. a \in Int
      BY <2>1
    <3>4. 2 * Abs((d + q) * o - k * (o - (r - a))) <= (n + 1) * o
      BY <1>3, <1>4, <2>1, <3>2, <3>3, VatNumbers
    <3> QED BY <2>3, <2>4, <3>4 DEF k, o
  <2>5. CASE a = 0
    <3>1. k * a = 0
      BY <1>4, <2>5
    <3>2. q = 0
      BY <1>4, <2>2, <3>1, InCentsZero
    <3>3. d + q = d /\ r - a = r
      BY <1>4, <2>5, <3>2
    <3> QED BY <1>3, <2>3, <2>5, <3>3 DEF k, o
  <2> QED BY <2>4, <2>5
<1> QED BY <1>5, <1>6

LEMMA PostPaymentInd ==
  ASSUME AmountsInd, PostPaymentDraft
  PROVE  AmountsInd'
<1> DEFINE D == DOMAIN draft.line
           amount(b) == draft.line[b].amount
           paid == {b \in D : draft.line[b].amount # 0}
<1>1. /\ DraftGood(draft) /\ DraftInFull /\ draft # NoDraft /\ D \subseteq VendorBill
      /\ \A b \in D : amount(b) \in Nat /\ draft.vat[b] \in Int /\ parts.count[b] < PostingBound
      /\ \A b \in VendorBill :
           /\ residual'[b] = IF b \in D THEN residual[b] - amount(b) ELSE residual[b]
           /\ due'[b] = IF b \in D THEN due[b] + draft.vat[b] ELSE due[b]
           /\ parts'.count[b] =
                IF b \in D /\ amount(b) # 0 THEN parts.count[b] + 1 ELSE parts.count[b]
      /\ draft' = NoDraft
  BY PostFacts
<1>2. /\ residual \in [VendorBill -> Int] /\ due \in [VendorBill -> Int]
      /\ parts.count \in [VendorBill -> 0 .. PostingBound] /\ PostingBound \in Nat
      /\ twoSteps \in BOOLEAN /\ retained \in Retention
      /\ \A b \in VendorBill : residual[b] <= Original[b]
  BY PaymentAmountsAssumption DEF AmountsInd, AmountsTypeOK, LeftToPay
<1>3. AmountsTypeOK'
  <2>1. \A b \in VendorBill : residual'[b] \in Int /\ due'[b] \in Int
    BY <1>1, <1>2
  <2>2. \A b \in VendorBill : parts'.count[b] \in 0 .. PostingBound
    BY <1>1, <1>2
  <2>3. residual' \in [VendorBill -> Int] /\ due' \in [VendorBill -> Int]
    BY <2>1 DEF PostPaymentDraft
  <2>4. parts'.count \in [VendorBill -> 0 .. PostingBound]
    <3> DEFINE count == [b \in VendorBill |->
                           parts.count[b] + IF b \in paid THEN 1 ELSE 0]
               odd == parts.odd \cup Odd(draft)
    <3>1. parts' = [count |-> count, odd |-> odd]
      BY DEF PostPaymentDraft
    <3>2. count \in [VendorBill -> {count[b] : b \in VendorBill}]
      OBVIOUS
    <3> HIDE DEF count, odd
    <3>3. parts'.count = count
      BY <3>1
    <3> QED BY <2>2, <3>2, <3>3
  <2>5. twoSteps' = twoSteps /\ retained' = retained
    BY DEF PostPaymentDraft
  <2> QED BY <1>1, <1>2, <2>3, <2>4, <2>5 DEF AmountsTypeOK
<1>4. LeftToPay'
  <2>1. ASSUME NEW b \in VendorBill PROVE residual'[b] <= Original[b]
    <3>1. residual[b] \in Int /\ residual[b] <= Original[b] /\ Original[b] \in Int
      BY <1>2, OriginalType
    <3> QED BY <1>1, <3>1
  <2> QED BY <2>1 DEF LeftToPay
<1>5. draft' # NoDraft => DraftGood(draft)' /\ DraftInFull'
  BY <1>1
<1> DEFINE lacks == LineTotal(draft)
           off == WrittenOff(draft)
           shown == ShownDifference(draft)
           odd == Odd(draft)
           ded == draft.deduction
           reg == draft.registered
<1>6. entry' = [lacks |-> lacks, off |-> off, shown |-> shown, deduction |-> ded,
                bills |-> paid, registered |-> reg, odd |-> odd]
  BY DEF PostPaymentDraft
<1>7. /\ entry'.lacks = lacks /\ entry'.off = off /\ entry'.shown = shown
      /\ entry'.deduction = ded /\ entry'.bills = paid /\ entry'.registered = reg
      /\ entry'.odd = odd
  <2> HIDE DEF lacks, off, shown, odd, ded, reg, paid
  <2> QED BY <1>6
<1>8. WriteoffAsShown'
  <2>1. ASSUME odd \cap Misleading = {}
        PROVE  Abs(lacks + off) <= Cents(paid) /\ Abs(off - shown - ded) <= Cents(paid)
    BY <1>1, <2>1, EntryAsShown
  <2>2. Misleading' = Misleading
    BY DEF Misleading, PostPaymentDraft
  <2> HIDE DEF lacks, off, shown, odd, ded, paid
  <2> QED BY <1>7, <2>1, <2>2 DEF WriteoffAsShown
<1>9. RegisteredPaysInFull'
  <2>1. ASSUME reg, NEW b \in paid, LinesAbove[b] = WithholdingLines[b]
        PROVE  Abs(residual'[b]) <= Cents({b})
    <3>1. Abs(residual[b] - amount(b)) <= Cents({b})
      BY <1>1, <2>1 DEF DraftInFull, InFull
    <3>2. residual'[b] = residual[b] - amount(b)
      BY <1>1
    <3> QED BY <3>1, <3>2
  <2> HIDE DEF reg, paid
  <2> QED BY <1>7, <2>1 DEF RegisteredPaysInFull
<1>10. VatFollowsPayment'
  BY PostVat
<1> QED BY <1>3, <1>4, <1>5, <1>8, <1>9, <1>10 DEF AmountsInd

LEMMA AmountsInitInd ==
  ASSUME AmountsInit
  PROVE  AmountsInd
<1>1. /\ twoSteps \in BOOLEAN /\ retained \in Retention /\ residual = Original /\ draft = NoDraft
      /\ entry = NoDraft /\ due = [b \in VendorBill |-> 0]
      /\ parts = [count |-> [b \in VendorBill |-> 0], odd |-> {}]
  BY DEF AmountsInit
<1>2. DOMAIN Original = VendorBill /\ \A b \in VendorBill : Original[b] \in Nat \ {0}
  BY OriginalType DEF Original
<1>3. Original \in [VendorBill -> Int]
  <2>1. Original = [b \in VendorBill |-> Original[b]]
    BY DEF Original
  <2> QED BY <1>2, <2>1
<1>4. parts.count = [b \in VendorBill |-> 0]
  BY <1>1
<1>5. AmountsTypeOK
  BY <1>1, <1>3, <1>4, PaymentAmountsAssumption DEF AmountsTypeOK
<1>6. LeftToPay
  BY <1>1, <1>2 DEF LeftToPay
<1>7. WriteoffAsShown /\ RegisteredPaysInFull
  BY <1>1 DEF WriteoffAsShown, RegisteredPaysInFull
<1>8. VatFollowsPayment
  <2>1. ASSUME NEW b \in VendorBill
        PROVE  2 * Abs(due[b] * Original[b] - LineSign(b) * VatOf[b] * (Original[b] - residual[b]))
                 <= parts.count[b] * Original[b]
    <3> DEFINE o == Original[b]
               k == LineSign(b) * VatOf[b]
    <3>1. o \in Int /\ k \in Int
      <4>1. LineSign(b) \in Int /\ VatOf[b] \in Int /\ Original[b] \in Int
        BY OriginalType DEF LineSign
      <4> QED BY <4>1
    <3>2. due[b] = 0 /\ residual[b] = o /\ parts.count[b] = 0
      BY <1>1, <1>4
    <3> HIDE DEF o, k
    <3>3. 0 * o - k * (o - o) = 0 /\ 0 * o = 0
      <4>1. o - o = 0 /\ k * 0 = 0 /\ 0 * o = 0
        BY <3>1
      <4> QED BY <4>1
    <3>4. 2 * Abs(0) <= 0
      BY DEF Abs
    <3> QED BY <3>2, <3>3, <3>4 DEF o, k
  <2> QED BY <2>1 DEF VatFollowsPayment
<1> QED BY <1>1, <1>5, <1>6, <1>7, <1>8 DEF AmountsInd

LEMMA AmountsNextInd ==
  ASSUME AmountsInd, [AmountsNext]_amountVars
  PROVE  AmountsInd'
<1>1. ASSUME NEW price \in Price, CreatePayment(price) \/ ChangeAmount(price)
      PROVE  AmountsInd'
  BY <1>1, CreatePaymentInd, ChangeAmountInd
<1>2. ASSUME NEW b \in VendorBill, RegisterPayment(b) PROVE AmountsInd'
  BY <1>2, RegisterPaymentInd
<1>3. ASSUME NEW b \in VendorBill, NEW amount \in LinePrice, ChangeLine(b, amount)
      PROVE  AmountsInd'
  BY <1>3, ChangeLineInd
<1>4. ASSUME NEW b \in VendorBill, NEW tax \in TaxPrice, ChangeTax(b, -tax) \/ ChangeVat(b, tax)
      PROVE  AmountsInd'
  BY <1>4, ChangeTaxInd, ChangeVatInd
<1>5. ASSUME NEW amount \in Deduction, Deduct(amount) PROVE AmountsInd'
  BY <1>5, DeductionInd
<1>6. ASSUME DiscardPayment PROVE AmountsInd'
  BY <1>6, DraftStep DEF DiscardPayment
<1>7. ASSUME UNCHANGED amountVars PROVE AmountsInd'
  <2>1. draft' = NoDraft \/ (DraftGood(draft') /\ DraftInFull')
    BY <1>7 DEF AmountsInd, amountVars, DraftInFull, InFull
  <2> QED BY <1>7, <2>1, DraftStep DEF amountVars
<1> QED BY <1>1, <1>2, <1>3, <1>4, <1>5, <1>6, <1>7, PostPaymentInd DEF AmountsNext

\* The invariant, for any bills, rates, drafts and changes to them.
THEOREM AmountsIndHolds == AmountsSpec => []AmountsInd
BY AmountsInitInd, AmountsNextInd, PTL DEF AmountsSpec

\* The draft and what it is made from have their types.
THEOREM AmountsTypeCorrect == AmountsSpec => []AmountsTypeOK
<1>1. AmountsInd => AmountsTypeOK
  BY DEF AmountsInd
<1> QED BY <1>1, AmountsIndHolds, PTL

\* The entry of a payment balances, and writes off what its form showed, but for the
\* cents (writeoff_move_line_get, _calc_writeoff_amount and the hooks), whatever was
\* changed before, in whatever order, unless it is one of the things Misleading names.
THEOREM WriteoffAsShownHolds == AmountsSpec => []WriteoffAsShown
<1>1. AmountsInd => WriteoffAsShown
  BY DEF AmountsInd
<1> QED BY <1>1, AmountsIndHolds, PTL

\* The VAT that became due (_compute_one_tax_grouped) is in proportion to what was
\* paid of the bill, within half a cent for each payment, however many there are.
THEOREM VatFollowsPaymentHolds == AmountsSpec => []VatFollowsPayment
<1>1. AmountsInd => VatFollowsPayment
  BY DEF AmountsInd
<1> QED BY <1>1, AmountsIndHolds, PTL

\* The amount that the dialog of a bill proposes pays the bill, but for the cents
\* (onchange_journal, recompute_voucher_lines), also after payments in part.
THEOREM RegisteredPaysInFullHolds == AmountsSpec => []RegisteredPaysInFull
<1>1. AmountsInd => RegisteredPaysInFull
  BY DEF AmountsInd
<1> QED BY <1>1, AmountsIndHolds, PTL

-----------------------------------------------------------------------------
(* Income tax: the tax grows with the income *)

\* The tax of the year's income: none where there is no income, and else that of
\* the range the income is in
Tax(income) == IF income = 0 THEN 0 ELSE CalculateWht(income)

HasTax(income) == income = 0 \/ HasRange(income)

\* The tax on an income of m that is in range i
TaxIn(i, m) ==
  SumFunctionOnSet([k \in DOMAIN PitRate |-> TaxMax(k)], 1 .. i - 1)
    + (m - IncomeFrom(i)) * PitRate[i].rate

\* What is withheld depends on the amount of the income and has its sign.
LEMMA CalculateWhtIs ==
  ASSUME NEW income \in Int, NEW i \in DOMAIN PitRate, RateRanges(Magnitude(income)) = {i}
  PROVE  CalculateWht(income) =
           IF income < 0 THEN -TaxIn(i, Magnitude(income)) ELSE TaxIn(i, Magnitude(income))
<1>1. (CHOOSE k \in RateRanges(Magnitude(income)) : TRUE) = i
  OBVIOUS
<1> QED BY <1>1 DEF CalculateWht, TaxIn

\* The ranges of the table and their rates
LEMMA RateTypes ==
  /\ DOMAIN PitRate = 1 .. Len(PitRate) /\ Len(PitRate) \in Nat
  /\ \A i \in DOMAIN PitRate : /\ i \in Nat /\ i >= 1
                               /\ PitRate[i].to \in Nat /\ PitRate[i].to > 0
                               /\ PitRate[i].rate \in Nat
                               /\ IncomeFrom(i) \in Nat /\ IncomeFrom(i) < PitRate[i].to
<1> DEFINE Row == [to : Nat \ {0}, rate : Nat]
<1>1. PitRate \in Seq(Row)
  BY IncomeTaxAssumption
<1> HIDE DEF Row
<1>2. DOMAIN PitRate = 1 .. Len(PitRate) /\ Len(PitRate) \in Nat
  BY <1>1
<1>5. \A i \in DOMAIN PitRate : PitRate[i] \in Row
  BY <1>1, <1>2
<1>3. \A i \in DOMAIN PitRate : PitRate[i].to \in Nat /\ PitRate[i].to > 0 /\ PitRate[i].rate \in Nat
  BY <1>5 DEF Row
<1>4. ASSUME NEW i \in DOMAIN PitRate
      PROVE  /\ i \in Nat /\ i >= 1
             /\ PitRate[i].to \in Nat /\ PitRate[i].to > 0 /\ PitRate[i].rate \in Nat
             /\ IncomeFrom(i) \in Nat /\ IncomeFrom(i) < PitRate[i].to
  <2>1. i \in Nat /\ i >= 1 /\ PitRate[i].to \in Nat /\ PitRate[i].to > 0 /\ PitRate[i].rate \in Nat
    BY <1>2, <1>3
  <2>2. CASE i = 1
    BY <2>1, <2>2 DEF IncomeFrom
  <2>3. CASE i # 1
    <3>1. i - 1 \in DOMAIN PitRate /\ i - 1 < i
      BY <1>2, <2>1, <2>3
    <3>2. PitRate[i - 1].to < PitRate[i].to
      BY <3>1, IncomeTaxAssumption
    <3>3. PitRate[i - 1].to \in Nat
      BY <1>3, <3>1
    <3> QED BY <2>1, <2>3, <3>2, <3>3 DEF IncomeFrom
  <2> QED BY <2>1, <2>2, <2>3
<1> QED BY <1>2, <1>4

\* A range starts where an earlier one ends, or later.
LEMMA RangesAscend ==
  ASSUME NEW i \in DOMAIN PitRate, NEW k \in DOMAIN PitRate, i < k
  PROVE  PitRate[i].to <= IncomeFrom(k)
<1>1. /\ i \in Nat /\ k \in Nat /\ i >= 1 /\ k # 1 /\ i <= k - 1 /\ k - 1 \in DOMAIN PitRate
  BY RateTypes
<1>2. IncomeFrom(k) = PitRate[k - 1].to /\ PitRate[i].to \in Nat /\ PitRate[k - 1].to \in Nat
  BY <1>1, RateTypes DEF IncomeFrom
<1>3. CASE i = k - 1
  BY <1>2, <1>3
<1>4. CASE i # k - 1
  <2>1. i < k - 1
    BY <1>1, <1>4
  <2>2. PitRate[i].to < PitRate[k - 1].to
    BY <1>1, <2>1, IncomeTaxAssumption
  <2> QED BY <1>2, <2>2
<1> QED BY <1>3, <1>4

\* The tax of the full ranges below one
FullBelow(i) == SumFunctionOnSet([k \in DOMAIN PitRate |-> TaxMax(k)], 1 .. i - 1)

\* Full ranges cost what they do, and never less than nothing.
LEMMA FullRanges ==
  /\ \A i \in DOMAIN PitRate : TaxMax(i) \in Nat /\ FullBelow(i) \in Nat
  /\ \A i, k \in DOMAIN PitRate : i < k => FullBelow(i) + TaxMax(i) <= FullBelow(k)
<1> DEFINE F == [k \in DOMAIN PitRate |-> TaxMax(k)]
<1>1. \A i \in DOMAIN PitRate : TaxMax(i) \in Nat
  <2> TAKE i \in DOMAIN PitRate
  <2> DEFINE d == PitRate[i].to - IncomeFrom(i)
             r == PitRate[i].rate
  <2>1. d \in Nat /\ r \in Nat
    BY RateTypes
  <2> HIDE DEF d, r
  <2>2. d * r \in Nat
    BY <2>1
  <2> QED BY <2>2 DEF TaxMax, d, r
<1>2. \A i \in DOMAIN PitRate : /\ 1 .. i - 1 \in SUBSET DOMAIN PitRate
                                /\ IsFiniteSet(1 .. i - 1)
  <2> TAKE i \in DOMAIN PitRate
  <2>1. i \in Nat /\ i >= 1 /\ i <= Len(PitRate) /\ DOMAIN PitRate = 1 .. Len(PitRate)
        /\ Len(PitRate) \in Nat
    BY RateTypes
  <2>2. 1 \in Int /\ i - 1 \in Int /\ 1 .. i - 1 \in SUBSET DOMAIN PitRate
    BY <2>1
  <2>3. IsFiniteSet(1 .. i - 1)
    BY <2>2, FS_Interval
  <2> QED BY <2>2, <2>3
<1>3. \A k \in DOMAIN PitRate : F[k] = TaxMax(k) /\ F[k] \in Nat /\ F[k] \in Int
  BY <1>1
<1> HIDE DEF F
<1>4. ASSUME NEW i \in DOMAIN PitRate PROVE FullBelow(i) \in Nat
  <2>1. SumFunctionOnSet(F, 1 .. i - 1) \in Nat
    <3>1. \A k \in 1 .. i - 1 : F[k] \in Nat
      BY <1>2, <1>3
    <3>2. IsFiniteSet(1 .. i - 1)
      BY <1>2
    <3> HIDE DEF FullBelow
    <3> QED BY <3>1, <3>2, SumNotNegative
  <2> QED BY <2>1 DEF FullBelow, F
<1>5. ASSUME NEW i \in DOMAIN PitRate, NEW k \in DOMAIN PitRate, i < k
      PROVE  FullBelow(i) + TaxMax(i) <= FullBelow(k)
  <2> DEFINE S == 1 .. k - 1
             T == 1 .. i - 1
             U == S \ T
  <2>1. i \in Nat /\ k \in Nat /\ i >= 1
    BY RateTypes
  <2>2. T \in SUBSET S /\ i \in U /\ U \in SUBSET DOMAIN PitRate
    BY <1>2, <1>5, <2>1
  <2>3. IsFiniteSet(S) /\ IsFiniteSet(U) /\ IsFiniteSet(U \ {i})
    <3>1. IsFiniteSet(S)
      BY <1>2
    <3> QED BY <3>1, FS_Subset
  <2>4. (\A j \in S : F[j] \in Int) /\ (\A j \in U : F[j] \in Int)
        /\ (\A j \in U \ {i} : F[j] \in Nat)
    BY <1>2, <1>3
  <2> HIDE DEF S, T, U
  <2>5. SumFunctionOnSet(F, S) = SumFunctionOnSet(F, T) + SumFunctionOnSet(F, U)
    BY <2>2, <2>3, <2>4, SumSplit DEF U
  <2>6. SumFunctionOnSet(F, U) = F[i] + SumFunctionOnSet(F, U \ {i})
    BY <2>2, <2>3, <2>4, SumRemove
  <2>7. SumFunctionOnSet(F, U \ {i}) \in Nat
    BY <2>3, <2>4, SumNotNegative
  <2>8. FullBelow(k) = SumFunctionOnSet(F, S) /\ FullBelow(i) = SumFunctionOnSet(F, T)
    BY DEF FullBelow, F, S, T
  <2>9. F[i] = TaxMax(i) /\ TaxMax(i) \in Nat /\ FullBelow(i) \in Nat
    BY <1>1, <1>3, <1>4
  <2> QED BY <2>5, <2>6, <2>7, <2>8, <2>9
<1> QED BY <1>1, <1>4, <1>5

\* A greater income in the ranges of the table costs at least as much tax.
LEMMA TaxInOrder ==
  ASSUME NEW m \in Nat, NEW n \in Nat, m <= n,
         NEW i \in DOMAIN PitRate, IncomeFrom(i) < m, m <= PitRate[i].to,
         NEW k \in DOMAIN PitRate, IncomeFrom(k) < n, n <= PitRate[k].to
  PROVE  TaxIn(i, m) \in Nat /\ TaxIn(k, n) \in Nat /\ TaxIn(i, m) <= TaxIn(k, n)
<1> DEFINE a == m - IncomeFrom(i)
           b == n - IncomeFrom(k)
           c == PitRate[i].to - IncomeFrom(i)
           r == PitRate[i].rate
           q == PitRate[k].rate
<1>1. /\ a \in Nat /\ b \in Nat /\ c \in Nat /\ r \in Nat /\ q \in Nat /\ a <= c
      /\ (i = k => a <= b /\ q = r)
  BY RateTypes
<1>2. TaxIn(i, m) = FullBelow(i) + a * r /\ TaxIn(k, n) = FullBelow(k) + b * q
      /\ TaxMax(i) = c * r
  BY DEF TaxIn, FullBelow, TaxMax
<1>3. FullBelow(i) \in Nat /\ FullBelow(k) \in Nat
  BY FullRanges
<1>4. i <= k
  <2> SUFFICES ASSUME k < i PROVE FALSE
    BY RateTypes
  <2>1. PitRate[k].to <= IncomeFrom(i)
    BY RangesAscend
  <2>2. PitRate[k].to \in Nat /\ IncomeFrom(i) \in Nat
    BY RateTypes
  <2> QED BY <2>1, <2>2
<1> HIDE DEF a, b, c, r, q
<1>5. a * r \in Nat /\ b * q \in Nat /\ c * r \in Nat
  BY <1>1
<1>6. a * r <= c * r
  BY <1>1
<1>7. CASE i = k
  <2>1. a * r <= b * q
    BY <1>1, <1>7
  <2> QED BY <1>2, <1>3, <1>5, <1>7, <2>1
<1>8. CASE i # k
  <2>1. i < k
    BY <1>4, <1>8, RateTypes
  <2>2. FullBelow(i) + c * r <= FullBelow(k)
    BY <1>2, <2>1, FullRanges
  <2> QED BY <1>2, <1>3, <1>5, <1>6, <2>2
<1> QED BY <1>7, <1>8

\* The tax of an income, and that it grows with the income
LEMMA YearTaxType == ASSUME NEW x \in Int, HasTax(x) PROVE Tax(x) \in Int
<1>1. CASE x = 0
  BY <1>1 DEF Tax
<1>2. CASE x # 0
  <2>1. PICK i \in DOMAIN PitRate : RateRanges(Magnitude(x)) = {i}
    BY <1>2 DEF HasTax, HasRange
  <2> DEFINE m == Magnitude(x)
  <2>2. m \in Nat
    BY DEF Magnitude
  <2>3. IncomeFrom(i) < m /\ m <= PitRate[i].to
    <3> HIDE DEF m
    <3>1. RateRanges(m) = {i}
      BY <2>1 DEF m
    <3> QED BY <3>1 DEF RateRanges
  <2> HIDE DEF m
  <2>4. m <= m
    BY <2>2
  <2>5. TaxIn(i, m) \in Nat
    BY <2>2, <2>3, <2>4, TaxInOrder
  <2>6. CalculateWht(x) = IF x < 0 THEN -TaxIn(i, m) ELSE TaxIn(i, m)
    BY <2>1, CalculateWhtIs DEF m
  <2> QED BY <1>2, <2>5, <2>6 DEF Tax
<1> QED BY <1>1, <1>2

LEMMA TaxGrows ==
  ASSUME NEW x \in Int, NEW y \in Int, HasTax(x), HasTax(y), x <= y
  PROVE  Tax(x) <= Tax(y)
<1> DEFINE m == Magnitude(x)
           n == Magnitude(y)
           In(i, z) == i \in DOMAIN PitRate /\ IncomeFrom(i) < z /\ z <= PitRate[i].to
<1>1. ASSUME NEW z \in Int, HasTax(z), z # 0
      PROVE  \E i : /\ In(i, Magnitude(z)) /\ TaxIn(i, Magnitude(z)) \in Nat
                    /\ Tax(z) = IF z < 0 THEN -TaxIn(i, Magnitude(z)) ELSE TaxIn(i, Magnitude(z))
  <2>1. PICK i \in DOMAIN PitRate : RateRanges(Magnitude(z)) = {i}
    BY <1>1 DEF HasTax, HasRange
  <2> DEFINE o == Magnitude(z)
  <2>2. o \in Nat
    BY DEF Magnitude
  <2>3. RateRanges(o) = {i}
    BY <2>1
  <2>4. CalculateWht(z) = IF z < 0 THEN -TaxIn(i, o) ELSE TaxIn(i, o)
    BY <2>1, CalculateWhtIs
  <2>5. Tax(z) = CalculateWht(z)
    BY <1>1 DEF Tax
  <2> HIDE DEF o
  <2>6. IncomeFrom(i) < o /\ o <= PitRate[i].to
    BY <2>3 DEF RateRanges
  <2>7. o <= o
    BY <2>2
  <2>8. TaxIn(i, o) \in Nat
    BY <2>2, <2>6, <2>7, TaxInOrder
  <2> QED BY <2>4, <2>5, <2>6, <2>8 DEF o
<1>2. m \in Nat /\ n \in Nat
  BY DEF Magnitude
<1>3. Tax(0) = 0
  BY DEF Tax
<1>4. CASE x = 0 /\ y = 0
  BY <1>3, <1>4
<1>5. CASE x # 0 /\ y = 0
  <2>1. PICK i : /\ In(i, m) /\ TaxIn(i, m) \in Nat
                 /\ Tax(x) = IF x < 0 THEN -TaxIn(i, m) ELSE TaxIn(i, m)
    BY <1>1, <1>5
  <2> QED BY <1>3, <1>5, <2>1
<1>6. CASE x = 0 /\ y # 0
  <2>1. PICK i : /\ In(i, n) /\ TaxIn(i, n) \in Nat
                 /\ Tax(y) = IF y < 0 THEN -TaxIn(i, n) ELSE TaxIn(i, n)
    BY <1>1, <1>6
  <2> QED BY <1>3, <1>6, <2>1
<1>7. CASE x # 0 /\ y # 0
  <2>1. PICK i : /\ In(i, m) /\ TaxIn(i, m) \in Nat
                 /\ Tax(x) = IF x < 0 THEN -TaxIn(i, m) ELSE TaxIn(i, m)
    BY <1>1, <1>7
  <2>2. PICK k : /\ In(k, n) /\ TaxIn(k, n) \in Nat
                 /\ Tax(y) = IF y < 0 THEN -TaxIn(k, n) ELSE TaxIn(k, n)
    BY <1>1, <1>7
  <2>3. CASE x < 0 /\ y < 0
    <3>1. n <= m
      BY <2>3 DEF Magnitude
    <3> HIDE DEF m, n
    <3>2. TaxIn(k, n) <= TaxIn(i, m)
      BY <1>2, <2>1, <2>2, <3>1, TaxInOrder
    <3> QED BY <2>1, <2>2, <2>3, <3>2
  <2>4. CASE x < 0 /\ y > 0
    BY <2>1, <2>2, <2>4
  <2>5. CASE x > 0 /\ y > 0
    <3>1. m <= n
      BY <2>5 DEF Magnitude
    <3> HIDE DEF m, n
    <3>2. TaxIn(i, m) <= TaxIn(k, n)
      BY <1>2, <2>1, <2>2, <3>1, TaxInOrder
    <3> QED BY <2>1, <2>2, <2>5, <3>2
  <2> QED BY <1>7, <2>3, <2>4, <2>5
<1> QED BY <1>4, <1>5, <1>6, <1>7

-----------------------------------------------------------------------------
(* Income tax: lines and registers *)

Registers == [Supplier \X CalendarYear -> [income : Int, wht : Int]]

\* The sums over some lines
IncomeOf(ls, K) == SumFunctionOnSet([k \in DOMAIN ls |-> ls[k].income], K)
WithheldOf(ls, K) == SumFunctionOnSet([k \in DOMAIN ls |-> ls[k].wht], K)

\* The posted lines of a supplier and year, where payments are as in pay
BookedIn(ls, pay, s, y) ==
  {k \in DOMAIN ls : ls[k].posted /\ ls[k].supplier = s /\ pay[ls[k].payment].year = y}

\* What register makes of them
Reg(ls, pay, s, y) ==
  [income |-> IncomeOf(ls, BookedIn(ls, pay, s, y)), wht |-> WithheldOf(ls, BookedIn(ls, pay, s, y))]

LEMMA RegisterIs ==
  ASSUME NEW ls, NEW s, NEW y PROVE Register(ls, s, y) = Reg(ls, pitPayments, s, y)
BY DEF Register, Reg, IncomeOf, WithheldOf, BookedIn

\* What a sequence of lines consists of
LEMMA LinesTyped ==
  ASSUME NEW ls \in Seq(PitLine)
  PROVE  /\ Len(ls) \in Nat /\ DOMAIN ls = 1 .. Len(ls) /\ IsFiniteSet(DOMAIN ls)
         /\ \A k \in DOMAIN ls :
              /\ k \in Nat /\ ls[k] \in PitLine
              /\ ls[k].payment \in PitPayment /\ ls[k].supplier \in Supplier
              /\ ls[k].income \in Int /\ ls[k].precalc \in Int /\ ls[k].wht \in Int
              /\ ls[k].posted \in BOOLEAN
<1> HIDE DEF PitLine
<1>1. Len(ls) \in Nat /\ DOMAIN ls = 1 .. Len(ls) /\ \A k \in DOMAIN ls : k \in Nat /\ ls[k] \in PitLine
  OBVIOUS
<1>2. IsFiniteSet(1 .. Len(ls))
  <2>1. 1 \in Int /\ Len(ls) \in Int
    BY <1>1
  <2> QED BY <2>1, FS_Interval
<1> QED BY <1>1, <1>2 DEF PitLine

\* Sums over lines are integers.
LEMMA SumsTyped ==
  ASSUME NEW ls \in Seq(PitLine), NEW K \in SUBSET DOMAIN ls
  PROVE  IsFiniteSet(K) /\ IncomeOf(ls, K) \in Int /\ WithheldOf(ls, K) \in Int
<1> DEFINE F == [k \in DOMAIN ls |-> ls[k].income]
           G == [k \in DOMAIN ls |-> ls[k].wht]
<1>1. IsFiniteSet(K)
  BY LinesTyped, FS_Subset
<1>2. \A k \in K : F[k] \in Int /\ G[k] \in Int
  BY LinesTyped
<1> HIDE DEF F, G
<1>3. SumFunctionOnSet(F, K) \in Int /\ SumFunctionOnSet(G, K) \in Int
  BY <1>1, <1>2, SumType
<1> QED BY <1>1, <1>3 DEF F, G, IncomeOf, WithheldOf

\* Lines that agree where it matters have the same sums.
LEMMA SumsAsBefore ==
  ASSUME NEW ls \in Seq(PitLine), NEW new \in Seq(PitLine), NEW K,
         K \in SUBSET DOMAIN ls, K \in SUBSET DOMAIN new,
         \A k \in K : new[k].income = ls[k].income /\ new[k].wht = ls[k].wht
  PROVE  IncomeOf(new, K) = IncomeOf(ls, K) /\ WithheldOf(new, K) = WithheldOf(ls, K)
<1> DEFINE F == [k \in DOMAIN ls |-> ls[k].income]
           G == [k \in DOMAIN ls |-> ls[k].wht]
           F2 == [k \in DOMAIN new |-> new[k].income]
           G2 == [k \in DOMAIN new |-> new[k].wht]
<1>1. IsFiniteSet(K)
  BY SumsTyped
<1>2. \A k \in K : F2[k] = F[k] /\ G2[k] = G[k]
  OBVIOUS
<1> HIDE DEF F, G, F2, G2
<1>3. SumFunctionOnSet(F2, K) = SumFunctionOnSet(F, K)
  BY <1>1, <1>2, SumSame
<1>4. SumFunctionOnSet(G2, K) = SumFunctionOnSet(G, K)
  BY <1>1, <1>2, SumSame
<1> QED BY <1>3, <1>4 DEF F, G, F2, G2, IncomeOf, WithheldOf

LEMMA RegType ==
  ASSUME NEW ls \in Seq(PitLine), NEW pay, NEW s, NEW y
  PROVE  Reg(ls, pay, s, y) \in [income : Int, wht : Int]
<1>1. BookedIn(ls, pay, s, y) \in SUBSET DOMAIN ls
  BY DEF BookedIn
<1> QED BY <1>1, SumsTyped DEF Reg

\* Lines are removed: f says where each that is kept is then.
Shifted(f, ls, K, new) ==
  /\ new \in Seq(PitLine)
  /\ \A k \in DOMAIN ls \ K : f[k] \in DOMAIN new /\ new[f[k]] = ls[k]
  /\ \A j, k \in DOMAIN ls \ K : f[j] = f[k] => j = k
  /\ \A n \in DOMAIN new : \E k \in DOMAIN ls \ K : f[k] = n

LEMMA WithoutShifts ==
  ASSUME pitLines \in Seq(PitLine), NEW K \in SUBSET DOMAIN pitLines
  PROVE  \E f : Shifted(f, pitLines, K, Without(K))
<1> DEFINE kept == DOMAIN pitLines \ K
           f == [k \in kept |-> Rank(kept, k)]
           c == Cardinality(kept)
           nth(n) == CHOOSE k \in kept : Cardinality(kept \cap (0 .. k)) = n
           new == [n \in 1 .. c |-> pitLines[nth(n)]]
<1>1. Without(K) = new
  BY DEF Without
<1>2. kept \in SUBSET (0 .. Len(pitLines)) /\ Len(pitLines) \in Nat
  BY LinesTyped
<1>3. \A k \in kept : pitLines[k] \in PitLine
  BY LinesTyped
<1> HIDE DEF kept
<1>4. /\ c \in Nat
      /\ \A k \in kept : Rank(kept, k) \in 1 .. c
      /\ \A j, k \in kept : Rank(kept, j) = Rank(kept, k) => j = k
      /\ \A r \in 1 .. c : \E k \in kept : Rank(kept, k) = r
  BY <1>2, Ranks
<1>5. \A n \in 1 .. c : nth(n) \in kept /\ Rank(kept, nth(n)) = n
  <2> TAKE n \in 1 .. c
  <2>1. \E k \in kept : Cardinality(kept \cap (0 .. k)) = n
    BY <1>4 DEF Rank
  <2> HIDE DEF c
  <2> QED BY <2>1 DEF Rank
<1> HIDE DEF nth, c
<1>6. new \in Seq(PitLine) /\ DOMAIN new = 1 .. c
  <2>1. new \in [1 .. c -> PitLine]
    BY <1>3, <1>5
  <2> HIDE DEF PitLine
  <2> QED BY <1>4, <2>1
<1>7. ASSUME NEW k \in kept PROVE f[k] \in DOMAIN new /\ new[f[k]] = pitLines[k]
  <2>1. f[k] = Rank(kept, k) /\ f[k] \in 1 .. c
    BY <1>4
  <2>2. nth(f[k]) = k
    BY <1>4, <1>5, <2>1
  <2> QED BY <1>6, <2>1, <2>2
<1>8. \A j, k \in kept : f[j] = f[k] => j = k
  BY <1>4
<1>9. \A n \in DOMAIN new : \E k \in kept : f[k] = n
  BY <1>4, <1>6
<1> HIDE DEF f, new
<1>10. Shifted(f, pitLines, K, new)
  BY <1>6, <1>7, <1>8, <1>9 DEF Shifted, kept
<1> QED BY <1>1, <1>10

\* The sums of lines that are kept stay.
LEMMA ShiftedSums ==
  ASSUME NEW ls \in Seq(PitLine), NEW K \in SUBSET DOMAIN ls, NEW new, NEW f,
         Shifted(f, ls, K, new), NEW S \in SUBSET (DOMAIN ls \ K), NEW T \in SUBSET DOMAIN new,
         \A k \in S : f[k] \in T, \A n \in T : \E k \in S : f[k] = n
  PROVE  IncomeOf(new, T) = IncomeOf(ls, S) /\ WithheldOf(new, T) = WithheldOf(ls, S)
<1> DEFINE F == [k \in DOMAIN ls |-> ls[k].income]
           G == [k \in DOMAIN new |-> new[k].income]
           H == [k \in DOMAIN ls |-> ls[k].wht]
           J == [k \in DOMAIN new |-> new[k].wht]
<1>1. new \in Seq(PitLine) /\ S \in SUBSET DOMAIN ls
  BY DEF Shifted
<1>2. IsFiniteSet(S) /\ IsFiniteSet(T)
  BY <1>1, SumsTyped
<1>3. \A k \in S : F[k] \in Int
  BY <1>1, LinesTyped
<1>10. \A k \in S : H[k] \in Int
  BY <1>1, LinesTyped
<1>11. \A n \in T : G[n] \in Int
  BY <1>1, LinesTyped
<1>12. \A n \in T : J[n] \in Int
  BY <1>1, LinesTyped
<1>4. \A k \in S : f[k] \in T /\ G[f[k]] = F[k]
  BY DEF Shifted
<1>9. \A k \in S : f[k] \in T /\ J[f[k]] = H[k]
  BY DEF Shifted
<1>5. \A j, k \in S : f[j] = f[k] => j = k
  BY DEF Shifted
<1> HIDE DEF F, G, H, J
<1>6. \A n \in T : G[n] = 0 \/ \E k \in S : f[k] = n
  OBVIOUS
<1>13. \A n \in T : J[n] = 0 \/ \E k \in S : f[k] = n
  OBVIOUS
<1>7. SumFunctionOnSet(F, S) = SumFunctionOnSet(G, T)
  BY <1>2, <1>3, <1>11, <1>4, <1>5, <1>6, SumReindex
<1>8. SumFunctionOnSet(H, S) = SumFunctionOnSet(J, T)
  BY <1>2, <1>10, <1>12, <1>9, <1>5, <1>13, SumReindex
<1> QED BY <1>7, <1>8 DEF F, G, H, J, IncomeOf, WithheldOf

-----------------------------------------------------------------------------
(* Income tax: posting a line *)

\* What posting works on
Proper(p) ==
  /\ p = [lines |-> p.lines, registers |-> p.registers, valid |-> p.valid]
  /\ p.lines \in Seq(PitLine) /\ p.registers \in Registers /\ p.valid \in BOOLEAN

\* Lines as before, but for the tax of line k, which is posted
PostedAt(ls, k, new) ==
  /\ new \in Seq(PitLine) /\ DOMAIN new = DOMAIN ls
  /\ \A j \in DOMAIN ls : j # k => new[j] = ls[j]
  /\ new[k].payment = ls[k].payment /\ new[k].supplier = ls[k].supplier
  /\ new[k].income = ls[k].income /\ new[k].precalc = ls[k].precalc
  /\ new[k].posted = TRUE

\* What posting line k makes of p
Posts(p, k, q) ==
  LET s == p.lines[k].supplier
      y == pitPayments[p.lines[k].payment].year
      held == p.registers[<<s, y>>]
  IN  /\ Proper(q) /\ PostedAt(p.lines, k, q.lines)
      /\ q.registers = [p.registers EXCEPT ![<<s, y>>] = Reg(q.lines, pitPayments, s, y)]
      /\ q.valid => /\ p.valid /\ Calculable(held, p.lines[k].income)
                    /\ q.lines[k].wht = CalculatePit(held, p.lines[k].income)
                    /\ p.lines[k].precalc = q.lines[k].wht

\* There is no tax for no income.
LEMMA RangeNotZero == ASSUME NEW x \in Int, HasRange(x) PROVE x # 0 /\ Tax(x) = CalculateWht(x) /\ HasTax(x)
<1>1. PICK i \in DOMAIN PitRate : RateRanges(Magnitude(x)) = {i}
  BY DEF HasRange
<1>2. IncomeFrom(i) < Magnitude(x)
  BY <1>1 DEF RateRanges
<1>3. IncomeFrom(i) \in Nat
  BY RateTypes
<1>4. x # 0
  BY <1>2, <1>3 DEF Magnitude
<1> QED BY <1>4 DEF Tax, HasTax

\* What is computed for a line is an integer.
LEMMA PitAmountType ==
  ASSUME NEW held \in [income : Int, wht : Int], NEW income \in Int, Calculable(held, income)
  PROVE  CalculatePit(held, income) \in Int
<1>1. CASE income = 0
  BY <1>1 DEF CalculatePit
<1>2. CASE income # 0
  <2> DEFINE x == held.income + income
  <2>1. x \in Int /\ HasRange(x)
    BY <1>2 DEF Calculable
  <2> HIDE DEF x
  <2>2. CalculateWht(x) \in Int
    BY <2>1, RangeNotZero, YearTaxType
  <2>3. CalculatePit(held, income) = CalculateWht(x) - held.wht /\ held.wht \in Int
    BY <1>2 DEF CalculatePit, x
  <2> QED BY <2>2, <2>3
<1> QED BY <1>1, <1>2

\* The years of payments
LEMMA YearType ==
  ASSUME PitTypeOK, NEW v \in PitPayment
  PROVE  pitPayments[v].year \in CalendarYear
BY DEF PitTypeOK

LEMMA ActionPostDoes ==
  ASSUME PitTypeOK, NEW p, Proper(p), NEW k \in DOMAIN p.lines
  PROVE  Posts(p, k, ActionPost(p, k))
<1> DEFINE line == p.lines[k]
           s == line.supplier
           y == pitPayments[line.payment].year
           held == p.registers[<<s, y>>]
           calculable == Calculable(held, line.income)
           wht == IF calculable THEN CalculatePit(held, line.income) ELSE 0
           new == [p.lines EXCEPT ![k].posted = TRUE, ![k].wht = wht]
           registers == [p.registers EXCEPT ![<<s, y>>] = Reg(new, pitPayments, s, y)]
           valid == p.valid /\ calculable /\ line.precalc = wht
           q == [lines |-> new, registers |-> registers, valid |-> valid]
<1>1. ActionPost(p, k) = q
  <2>1. Register(new, s, y) = Reg(new, pitPayments, s, y)
    BY RegisterIs
  <2> QED BY <2>1 DEF ActionPost, PostedWith, Registered
<1>2. p.lines \in Seq(PitLine) /\ p.registers \in Registers /\ p.valid \in BOOLEAN
  BY DEF Proper
<1>3. line \in PitLine /\ s \in Supplier /\ line.payment \in PitPayment /\ line.income \in Int
      /\ line.precalc \in Int
  BY <1>2, LinesTyped
<1>4. y \in CalendarYear
  BY <1>3, YearType
<1>5. held \in [income : Int, wht : Int]
  <2>1. <<s, y>> \in Supplier \X CalendarYear
    BY <1>3, <1>4
  <2> HIDE DEF s, y
  <2> QED BY <1>2, <2>1 DEF Registers
<1> HIDE DEF s, y, held
<1>6. wht \in Int /\ calculable \in BOOLEAN
  <2>1. calculable \in BOOLEAN
    BY DEF Calculable
  <2> HIDE DEF line
  <2>2. calculable => CalculatePit(held, line.income) \in Int
    BY <1>3, <1>5, PitAmountType
  <2> QED BY <2>1, <2>2
<1> HIDE DEF wht, calculable
<1>7. /\ new \in Seq(PitLine) /\ DOMAIN new = DOMAIN p.lines
      /\ \A j \in DOMAIN p.lines : j # k => new[j] = p.lines[j]
      /\ new[k] = [line EXCEPT !.posted = TRUE, !.wht = wht]
  <2> DEFINE rewritten == [line EXCEPT !.posted = TRUE, !.wht = wht]
  <2>1. new = [p.lines EXCEPT ![k] = rewritten]
    OBVIOUS
  <2>2. rewritten \in PitLine
    BY <1>3, <1>6 DEF PitLine
  <2> HIDE DEF rewritten
  <2>3. [p.lines EXCEPT ![k] = rewritten] \in Seq(PitLine)
    <3> HIDE DEF PitLine
    <3> QED BY <1>2, <2>2, ExceptSeq
  <2> HIDE DEF PitLine, new
  <2>4. \A j \in DOMAIN p.lines : [p.lines EXCEPT ![k] = rewritten][j] = IF j = k THEN rewritten ELSE p.lines[j]
    OBVIOUS
  <2>5. DOMAIN [p.lines EXCEPT ![k] = rewritten] = DOMAIN p.lines
    OBVIOUS
  <2> QED BY <2>1, <2>3, <2>4, <2>5 DEF rewritten
<1>8. PostedAt(p.lines, k, new) /\ new[k].wht = wht
  <2>1. /\ new[k].payment = line.payment /\ new[k].supplier = line.supplier
        /\ new[k].income = line.income /\ new[k].precalc = line.precalc
        /\ new[k].posted = TRUE /\ new[k].wht = wht
    <3> HIDE DEF new
    <3> QED BY <1>3, <1>7 DEF PitLine
  <2> HIDE DEF new, PitLine
  <2> QED BY <1>7, <2>1 DEF PostedAt
<1>9. registers \in Registers
  <2> HIDE DEF new
  <2>1. Reg(new, pitPayments, s, y) \in [income : Int, wht : Int]
    BY <1>7, RegType
  <2> DEFINE R == Reg(new, pitPayments, s, y)
  <2> HIDE DEF R
  <2>2. R \in [income : Int, wht : Int]
    BY <2>1 DEF R
  <2>3. [p.registers EXCEPT ![<<s, y>>] = R] \in Registers
    BY <1>2, <2>2 DEF Registers
  <2> QED BY <2>3 DEF R
<1>10. valid \in BOOLEAN
  OBVIOUS
<1> HIDE DEF new, registers, valid
<1>11. q.lines = new /\ q.registers = registers /\ q.valid = valid
       /\ q = [lines |-> q.lines, registers |-> q.registers, valid |-> q.valid]
  OBVIOUS
<1> HIDE DEF q
<1>12. Proper(q)
  BY <1>7, <1>9, <1>10, <1>11 DEF Proper
<1>13. q.registers = [p.registers EXCEPT ![<<s, y>>] = Reg(q.lines, pitPayments, s, y)]
  BY <1>11 DEF registers
<1>14. q.valid => /\ p.valid /\ Calculable(held, line.income)
                  /\ q.lines[k].wht = CalculatePit(held, line.income)
                  /\ line.precalc = q.lines[k].wht
  <2> SUFFICES ASSUME q.valid
               PROVE  /\ p.valid /\ Calculable(held, line.income)
                      /\ q.lines[k].wht = CalculatePit(held, line.income)
                      /\ line.precalc = q.lines[k].wht
    OBVIOUS
  <2>1. p.valid /\ calculable /\ line.precalc = wht
    BY <1>11 DEF valid
  <2>2. q.lines[k].wht = wht
    BY <1>8, <1>11
  <2> QED BY <2>1, <2>2 DEF calculable, wht
<1> QED BY <1>1, <1>8, <1>11, <1>12, <1>13, <1>14 DEF Posts, s, y, held

\* The copy of a line that is posted to undo it
Mirror(line) == [line EXCEPT !.income = -line.income, !.posted = FALSE, !.wht = -line.wht]

WithMirror(p, k) == [p EXCEPT !.lines = Append(p.lines, Mirror(p.lines[k]))]

LEMMA WithMirrorIs ==
  ASSUME NEW p, Proper(p), NEW k \in DOMAIN p.lines
  PROVE  LET o == WithMirror(p, k)
             m == Len(p.lines) + 1
         IN  /\ Proper(o) /\ o.registers = p.registers /\ o.valid = p.valid
             /\ DOMAIN o.lines = DOMAIN p.lines \cup {m} /\ m \notin DOMAIN p.lines
             /\ \A j \in DOMAIN p.lines : o.lines[j] = p.lines[j]
             /\ o.lines[m].payment = p.lines[k].payment
             /\ o.lines[m].supplier = p.lines[k].supplier
             /\ o.lines[m].income = -p.lines[k].income
             /\ o.lines[m].precalc = p.lines[k].precalc
             /\ o.lines[m].posted = FALSE
             /\ PostMirror(p, k) = ActionPost(o, m)
<1> DEFINE ls == p.lines
           line == ls[k]
           mirror == Mirror(line)
           m == Len(ls) + 1
           new == Append(ls, mirror)
           o == WithMirror(p, k)
<1>1. ls \in Seq(PitLine) /\ p.registers \in Registers /\ p.valid \in BOOLEAN
  BY DEF Proper
<1>2. line \in PitLine
  BY <1>1, LinesTyped
<1>3. /\ mirror \in PitLine /\ mirror.payment = line.payment /\ mirror.supplier = line.supplier
      /\ mirror.income = -line.income /\ mirror.precalc = line.precalc /\ mirror.posted = FALSE
  <2>1. line.income \in Int /\ line.wht \in Int
    BY <1>1, LinesTyped
  <2> DEFINE a == -line.income
             b == -line.wht
  <2>2. a \in Int /\ b \in Int
    BY <2>1
  <2>3. mirror = [line EXCEPT !.income = a, !.posted = FALSE, !.wht = b]
    BY DEF Mirror
  <2> HIDE DEF line, a, b, mirror
  <2>4. mirror \in PitLine
    BY <1>2, <2>2, <2>3 DEF PitLine
  <2>5. mirror.payment = line.payment /\ mirror.supplier = line.supplier
    BY <1>2, <2>3 DEF PitLine
  <2>6. mirror.income = a /\ mirror.precalc = line.precalc /\ mirror.posted = FALSE
    BY <1>2, <2>3 DEF PitLine
  <2> QED BY <2>4, <2>5, <2>6 DEF a
<1>4. PostMirror(p, k) = ActionPost(o, m)
  BY DEF PostMirror, WithMirror, Mirror
<1> HIDE DEF mirror, PitLine
<1>5. /\ new \in Seq(PitLine) /\ Len(ls) \in Nat /\ DOMAIN ls = 1 .. Len(ls)
      /\ DOMAIN new = DOMAIN ls \cup {m} /\ m \notin DOMAIN ls
      /\ new[m] = mirror /\ \A j \in DOMAIN ls : new[j] = ls[j]
  <2>1. Len(ls) \in Nat /\ DOMAIN ls = 1 .. Len(ls)
    BY <1>1
  <2>2. /\ new \in Seq(PitLine) /\ DOMAIN new = 1 .. Len(ls) + 1
        /\ new[m] = mirror /\ \A j \in 1 .. Len(ls) : new[j] = ls[j]
    BY <1>1, <1>3
  <2> QED BY <2>1, <2>2
<1> HIDE DEF new
<1>6. o.lines = new /\ o.registers = p.registers /\ o.valid = p.valid
      /\ o = [lines |-> o.lines, registers |-> o.registers, valid |-> o.valid]
  <2> DEFINE a == p.registers
             b == p.valid
  <2>1. p = [lines |-> ls, registers |-> a, valid |-> b]
    BY DEF Proper
  <2>2. o = [p EXCEPT !.lines = new]
    BY DEF WithMirror, new, mirror
  <2> HIDE DEF o, ls, a, b
  <2>3. o = [lines |-> new, registers |-> a, valid |-> b]
    BY <2>1, <2>2
  <2> QED BY <2>3 DEF a, b
<1> HIDE DEF o
<1>7. Proper(o)
  BY <1>1, <1>5, <1>6 DEF Proper
<1> QED BY <1>3, <1>4, <1>5, <1>6, <1>7 DEF o

\* A line that is posted, with the tax that was shown, which has the sign of the income
AsShown(line) ==
  /\ line.posted /\ line.wht = line.precalc
  /\ line.income > 0 => line.wht >= 0
  /\ line.income < 0 => line.wht <= 0
  /\ line.income = 0 => line.wht = 0

\* The registers are the sums of the lines, and what was withheld the tax of them.
Exact(ls, pay, registers) ==
  \A s \in Supplier, y \in CalendarYear :
    /\ registers[<<s, y>>] = Reg(ls, pay, s, y)
    /\ HasTax(registers[<<s, y>>].income)
    /\ registers[<<s, y>>].wht = Tax(registers[<<s, y>>].income)

\* What a line that is posted adds to its register
LEMMA PostedSums ==
  ASSUME NEW ls \in Seq(PitLine), NEW k \in DOMAIN ls, NEW new, PostedAt(ls, k, new),
         NEW B \in SUBSET DOMAIN ls, k \notin B
  PROVE  /\ IncomeOf(new, B) = IncomeOf(ls, B) /\ WithheldOf(new, B) = WithheldOf(ls, B)
         /\ IncomeOf(new, B \cup {k}) = IncomeOf(ls, B) + ls[k].income
         /\ WithheldOf(new, B \cup {k}) = WithheldOf(ls, B) + new[k].wht
<1> DEFINE F == [j \in DOMAIN new |-> new[j].income]
           G == [j \in DOMAIN new |-> new[j].wht]
           C == B \cup {k}
<1>1. /\ new \in Seq(PitLine) /\ DOMAIN new = DOMAIN ls /\ new[k].income = ls[k].income
      /\ B \in SUBSET DOMAIN ls /\ B \in SUBSET DOMAIN new /\ C \in SUBSET DOMAIN new
      /\ k \in C /\ C \ {k} = B
  BY DEF PostedAt
<1>2. \A j \in B : new[j] = ls[j]
  BY DEF PostedAt
<1>3. IncomeOf(new, B) = IncomeOf(ls, B) /\ WithheldOf(new, B) = WithheldOf(ls, B)
  <2>1. \A j \in B : new[j].income = ls[j].income /\ new[j].wht = ls[j].wht
    BY <1>2
  <2> QED BY <1>1, <2>1, SumsAsBefore
<1>4. IsFiniteSet(C)
  BY <1>1, SumsTyped
<1>5. (\A j \in C : F[j] \in Int) /\ (\A j \in C : G[j] \in Int)
  BY <1>1, LinesTyped
<1>6. F[k] = ls[k].income /\ G[k] = new[k].wht
  BY <1>1
<1>10. F[k] \in Int /\ G[k] \in Int
  BY <1>1, <1>5
<1> HIDE DEF F, G, C
<1>7. SumFunctionOnSet(F, C) = F[k] + SumFunctionOnSet(F, C \ {k})
  BY <1>1, <1>4, <1>5, SumRemove
<1>8. SumFunctionOnSet(G, C) = G[k] + SumFunctionOnSet(G, C \ {k})
  BY <1>1, <1>4, <1>5, SumRemove
<1>9. IncomeOf(new, B) = SumFunctionOnSet(F, B) /\ WithheldOf(new, B) = SumFunctionOnSet(G, B)
  BY DEF IncomeOf, WithheldOf, F, G
<1>11. IncomeOf(new, C) = SumFunctionOnSet(F, C) /\ WithheldOf(new, C) = SumFunctionOnSet(G, C)
  BY DEF IncomeOf, WithheldOf, F, G
<1>12. IncomeOf(ls, B) \in Int /\ WithheldOf(ls, B) \in Int
  BY <1>1, SumsTyped
<1>13. IncomeOf(new, C) = IncomeOf(ls, B) + ls[k].income
       /\ WithheldOf(new, C) = WithheldOf(ls, B) + new[k].wht
  <2>1. SumFunctionOnSet(F, C) = F[k] + IncomeOf(ls, B)
    BY <1>1, <1>3, <1>7, <1>9
  <2>2. SumFunctionOnSet(G, C) = G[k] + WithheldOf(ls, B)
    BY <1>1, <1>3, <1>8, <1>9
  <2> QED BY <1>6, <1>10, <1>11, <1>12, <2>1, <2>2
<1> QED BY <1>3, <1>13 DEF C

\* Posting a line once more changes no register.
LEMMA PostAgainKeeps ==
  ASSUME PitTypeOK, NEW p, Proper(p), NEW k \in DOMAIN p.lines, NEW q, Posts(p, k, q), q.valid,
         Exact(p.lines, pitPayments, p.registers), AsShown(p.lines[k])
  PROVE  Exact(q.lines, pitPayments, q.registers) /\ AsShown(q.lines[k])
<1> DEFINE ls == p.lines
           new == q.lines
           line == ls[k]
           s == line.supplier
           y == pitPayments[line.payment].year
<1>1. ls \in Seq(PitLine) /\ p.registers \in Registers
  BY DEF Proper
<1>2. PostedAt(ls, k, new) /\ line.precalc = new[k].wht
  BY DEF Posts
<1>3. new \in Seq(PitLine) /\ DOMAIN new = DOMAIN ls /\ (\A j \in DOMAIN ls : j # k => new[j] = ls[j])
      /\ new[k].payment = line.payment /\ new[k].supplier = line.supplier
      /\ new[k].income = line.income /\ new[k].precalc = line.precalc
      /\ new[k].posted /\ line.posted /\ new[k].wht = line.wht
  BY <1>2 DEF PostedAt, AsShown
<1> HIDE DEF ls, new
<1>4. \A j \in DOMAIN ls : /\ new[j].payment = ls[j].payment /\ new[j].supplier = ls[j].supplier
                           /\ new[j].income = ls[j].income /\ new[j].wht = ls[j].wht
                           /\ new[j].posted <=> ls[j].posted
  BY <1>3
<1>5. ASSUME NEW s2, NEW y2 PROVE Reg(new, pitPayments, s2, y2) = Reg(ls, pitPayments, s2, y2)
  <2> DEFINE B == BookedIn(ls, pitPayments, s2, y2)
  <2>1. BookedIn(new, pitPayments, s2, y2) = B /\ B \in SUBSET DOMAIN ls
    BY <1>3, <1>4 DEF BookedIn
  <2> HIDE DEF B
  <2>2. IncomeOf(new, B) = IncomeOf(ls, B) /\ WithheldOf(new, B) = WithheldOf(ls, B)
    <3>1. \A j \in B : new[j].income = ls[j].income /\ new[j].wht = ls[j].wht
      BY <1>4, <2>1
    <3> QED BY <1>1, <1>3, <2>1, <3>1, SumsAsBefore
  <2> QED BY <2>1, <2>2 DEF Reg, B
<1>6. s \in Supplier /\ y \in CalendarYear
  <2>1. line.payment \in PitPayment /\ s \in Supplier
    BY <1>1, LinesTyped DEF ls
  <2> QED BY <2>1, YearType
<1>7. q.registers = p.registers
  <2>1. q.registers = [p.registers EXCEPT ![<<s, y>>] = Reg(new, pitPayments, s, y)]
    BY DEF Posts, ls, new
  <2>2. Reg(new, pitPayments, s, y) = p.registers[<<s, y>>]
    <3>1. p.registers[<<s, y>>] = Reg(ls, pitPayments, s, y)
      BY <1>6 DEF Exact, ls
    <3> QED BY <1>5, <3>1
  <2> HIDE DEF s, y
  <2> QED BY <1>1, <2>1, <2>2 DEF Registers
<1>8. Exact(new, pitPayments, q.registers)
  BY <1>5, <1>7 DEF Exact, ls
<1>9. AsShown(new[k])
  BY <1>3 DEF AsShown, ls
<1> QED BY <1>8, <1>9 DEF new

\* Posting a line that was not posted makes the tax that of the new sum.
LEMMA PostNewKeeps ==
  ASSUME PitTypeOK, NEW p, Proper(p), NEW k \in DOMAIN p.lines, NEW q, Posts(p, k, q), q.valid,
         Exact(p.lines, pitPayments, p.registers), ~p.lines[k].posted
  PROVE  Exact(q.lines, pitPayments, q.registers) /\ AsShown(q.lines[k])
<1> DEFINE ls == p.lines
           new == q.lines
           line == ls[k]
           s == line.supplier
           y == pitPayments[line.payment].year
           held == p.registers[<<s, y>>]
           w == new[k].wht
           inc == line.income
           sum == held.income + inc
           B == BookedIn(ls, pitPayments, s, y)
<1>1. ls \in Seq(PitLine) /\ p.registers \in Registers
  BY DEF Proper
<1>2. /\ PostedAt(ls, k, new) /\ q.registers = [p.registers EXCEPT ![<<s, y>>] = Reg(new, pitPayments, s, y)]
      /\ Calculable(held, inc) /\ w = CalculatePit(held, inc) /\ line.precalc = w
  BY DEF Posts
<1>3. /\ new \in Seq(PitLine) /\ DOMAIN new = DOMAIN ls /\ (\A j \in DOMAIN ls : j # k => new[j] = ls[j])
      /\ new[k].payment = line.payment /\ new[k].supplier = s
      /\ new[k].income = inc /\ new[k].precalc = line.precalc /\ new[k].posted
  BY <1>2 DEF PostedAt
<1>4. s \in Supplier /\ y \in CalendarYear /\ inc \in Int
  <2>1. line.payment \in PitPayment /\ s \in Supplier /\ inc \in Int
    BY <1>1, LinesTyped
  <2> QED BY <2>1, YearType
<1>5. held = Reg(ls, pitPayments, s, y) /\ HasTax(held.income)
      /\ held.wht = Tax(held.income)
  BY <1>4 DEF Exact
<1>6. B \in SUBSET DOMAIN ls /\ k \notin B
  BY DEF BookedIn
<1>7. held = [income |-> IncomeOf(ls, B), wht |-> WithheldOf(ls, B)]
      /\ IncomeOf(ls, B) \in Int /\ WithheldOf(ls, B) \in Int
  <2>1. B \in SUBSET DOMAIN ls
    BY <1>6
  <2> HIDE DEF B, held
  <2>2. IncomeOf(ls, B) \in Int /\ WithheldOf(ls, B) \in Int
    BY <1>1, <2>1, SumsTyped
  <2> QED BY <1>5, <2>2 DEF Reg, B
<1>8. held.income = IncomeOf(ls, B) /\ held.wht = WithheldOf(ls, B)
      /\ held.income \in Int /\ held.wht \in Int
  BY <1>7
<1> HIDE DEF B, held, w, inc
<1>9. Reg(new, pitPayments, s, y) = [income |-> sum, wht |-> held.wht + w]
  <2>1. BookedIn(new, pitPayments, s, y) = B \cup {k}
    <3>1. \A j \in DOMAIN ls : j \in BookedIn(new, pitPayments, s, y) <=> j \in B \cup {k}
      <4> TAKE j \in DOMAIN ls
      <4>1. CASE j = k
        BY <1>3, <4>1 DEF BookedIn
      <4>2. CASE j # k
        BY <1>3, <4>2 DEF BookedIn, B
      <4> QED BY <4>1, <4>2
    <3>2. BookedIn(new, pitPayments, s, y) \subseteq DOMAIN ls
      BY <1>3 DEF BookedIn
    <3> QED BY <1>6, <3>1, <3>2
  <2>3. k \in DOMAIN ls
    OBVIOUS
  <2> HIDE DEF ls, new
  <2>2. IncomeOf(new, B \cup {k}) = IncomeOf(ls, B) + ls[k].income
        /\ WithheldOf(new, B \cup {k}) = WithheldOf(ls, B) + new[k].wht
    BY <1>1, <1>2, <1>6, <2>3, PostedSums
  <2> QED BY <1>8, <2>1, <2>2 DEF Reg, inc, w
<1>10. ASSUME NEW s2, NEW y2, ~(s2 = s /\ y2 = y)
       PROVE  Reg(new, pitPayments, s2, y2) = Reg(ls, pitPayments, s2, y2)
  <2> DEFINE C == BookedIn(ls, pitPayments, s2, y2)
  <2>1. C \in SUBSET DOMAIN ls /\ k \notin C
    BY <1>10 DEF BookedIn
  <2>2. BookedIn(new, pitPayments, s2, y2) = C
    <3>1. \A j \in DOMAIN ls : j \in BookedIn(new, pitPayments, s2, y2) <=> j \in C
      <4> TAKE j \in DOMAIN ls
      <4>1. CASE j = k
        BY <1>3, <1>10, <4>1 DEF BookedIn
      <4>2. CASE j # k
        BY <1>3, <4>2 DEF BookedIn
      <4> QED BY <4>1, <4>2
    <3>2. BookedIn(new, pitPayments, s2, y2) \subseteq DOMAIN ls
      BY <1>3 DEF BookedIn
    <3> QED BY <2>1, <3>1, <3>2
  <2>4. \A j \in C : new[j].income = ls[j].income /\ new[j].wht = ls[j].wht
    BY <1>3, <2>1
  <2>5. C \in SUBSET DOMAIN new
    BY <1>3, <2>1
  <2> HIDE DEF C, ls, new
  <2>3. IncomeOf(new, C) = IncomeOf(ls, C) /\ WithheldOf(new, C) = WithheldOf(ls, C)
    BY <1>1, <1>3, <2>1, <2>4, <2>5, SumsAsBefore
  <2> QED BY <2>2, <2>3 DEF Reg, C
<1>11. /\ HasTax(sum) /\ held.wht + w = Tax(sum) /\ w \in Int
       /\ (inc > 0 => w >= 0) /\ (inc < 0 => w <= 0) /\ (inc = 0 => w = 0)
  <2>1. CASE inc = 0
    <3>1. w = 0 /\ sum = held.income
      BY <1>2, <1>8, <2>1 DEF CalculatePit
    <3> QED BY <1>5, <1>8, <2>1, <3>1
  <2>2. CASE inc # 0
    <3>1. HasRange(sum) /\ w = CalculateWht(sum) - held.wht /\ sum \in Int
      BY <1>2, <1>4, <1>8, <2>2 DEF Calculable, CalculatePit
    <3> HIDE DEF sum
    <3>2. CalculateWht(sum) = Tax(sum) /\ HasTax(sum)
      BY <3>1, RangeNotZero
    <3>3. Tax(sum) \in Int /\ Tax(held.income) \in Int
      BY <1>5, <1>8, <3>1, <3>2, YearTaxType
    <3>4. inc > 0 => Tax(held.income) <= Tax(sum)
      <4> SUFFICES ASSUME inc > 0 PROVE Tax(held.income) <= Tax(sum)
        OBVIOUS
      <4>1. held.income <= sum
        BY <1>4, <1>8 DEF sum
      <4> QED BY <1>5, <1>8, <3>1, <3>2, <4>1, TaxGrows
    <3>5. inc < 0 => Tax(sum) <= Tax(held.income)
      <4> SUFFICES ASSUME inc < 0 PROVE Tax(sum) <= Tax(held.income)
        OBVIOUS
      <4>1. sum <= held.income
        BY <1>4, <1>8 DEF sum
      <4> QED BY <1>5, <1>8, <3>1, <3>2, <4>1, TaxGrows
    <3> QED BY <1>4, <1>5, <1>8, <2>2, <3>1, <3>2, <3>3, <3>4, <3>5
  <2> QED BY <2>1, <2>2
<1>12. Exact(new, pitPayments, q.registers)
  <2> SUFFICES ASSUME NEW s2 \in Supplier, NEW y2 \in CalendarYear
               PROVE  LET r == q.registers[<<s2, y2>>]
                      IN r = Reg(new, pitPayments, s2, y2) /\ HasTax(r.income) /\ r.wht = Tax(r.income)
    BY DEF Exact
  <2>1. CASE s2 = s /\ y2 = y
    <3>1. q.registers[<<s2, y2>>] = Reg(new, pitPayments, s2, y2)
      <4> HIDE DEF s, y
      <4> QED BY <1>1, <1>2, <1>4, <2>1 DEF Registers
    <3>2. q.registers[<<s2, y2>>].income = sum /\ q.registers[<<s2, y2>>].wht = held.wht + w
      BY <1>9, <2>1, <3>1
    <3> QED BY <1>11, <3>1, <3>2
  <2>2. CASE ~(s2 = s /\ y2 = y)
    <3>1. q.registers[<<s2, y2>>] = p.registers[<<s2, y2>>]
      <4>1. <<s2, y2>> # <<s, y>>
        BY <2>2
      <4> HIDE DEF s, y
      <4> QED BY <1>1, <1>2, <4>1 DEF Registers
    <3>2. Reg(new, pitPayments, s2, y2) = Reg(ls, pitPayments, s2, y2)
      BY <1>10, <2>2
    <3>3. /\ p.registers[<<s2, y2>>] = Reg(ls, pitPayments, s2, y2)
          /\ HasTax(p.registers[<<s2, y2>>].income)
          /\ p.registers[<<s2, y2>>].wht = Tax(p.registers[<<s2, y2>>].income)
      BY DEF Exact
    <3> QED BY <3>1, <3>2, <3>3
  <2> QED BY <2>1, <2>2
<1>13. AsShown(new[k])
  BY <1>2, <1>3, <1>11 DEF AsShown, w
<1> QED BY <1>12, <1>13

-----------------------------------------------------------------------------
(* Income tax: posting lines in order *)

\* What becomes of p at line n
Outcome(p, n, K, mirrored) ==
  IF n \notin K THEN p ELSE IF mirrored THEN PostMirror(p, n) ELSE ActionPost(p, n)

\* it[n] is what posting has done after line n.
PostsUpTo(it, K, mirrored) ==
  it = [n \in 0 .. Len(pitLines) |-> IF n = 0 THEN Posting ELSE Outcome(it[n - 1], n, K, mirrored)]

LEMMA PostedInOrderIs ==
  ASSUME NEW K, NEW mirrored
  PROVE  PostedInOrder(K, mirrored) = (CHOOSE it : PostsUpTo(it, K, mirrored))[Len(pitLines)]
BY DEF PostedInOrder, PostsUpTo, Outcome

\* The outcomes can be computed one after the other.
LEMMA OutcomesExist ==
  ASSUME NEW K, NEW mirrored, NEW L \in Nat, Len(pitLines) = L
  PROVE  \E it : PostsUpTo(it, K, mirrored)
<1> DEFINE After(it, n) == IF n = 0 THEN Posting ELSE Outcome(it[n - 1], n, K, mirrored)
           Upto(m, it) == /\ it = [n \in 0 .. L |-> it[n]]
                          /\ \A n \in 0 .. L : n < m => it[n] = After(it, n)
           Bad == {m \in Nat : m <= L + 1 /\ ~ \E it : Upto(m, it)}
<1>1. ASSUME Bad # {} PROVE FALSE
  <2>1. PICK m \in Bad : \A n \in Bad : m <= n
    <3>1. Bad \in SUBSET Nat
      OBVIOUS
    <3> HIDE DEF Bad
    <3> QED BY <1>1, <3>1, LeastNat
  <2>2. m \in Nat /\ m <= L + 1 /\ ~ \E it : Upto(m, it)
    OBVIOUS
  <2>3. Upto(0, [n \in 0 .. L |-> {}])
    <3>1. \A n \in 0 .. L : ~(n < 0)
      OBVIOUS
    <3> HIDE DEF After
    <3> QED BY <3>1
  <2>4. m # 0
    BY <2>2, <2>3
  <2>5. m - 1 \notin Bad /\ m - 1 \in Nat /\ m - 1 <= L
    BY <2>1, <2>2, <2>4
  <2>6. PICK it : Upto(m - 1, it)
    <3> HIDE DEF Upto
    <3> QED BY <2>2, <2>5
  <2> DEFINE e == m - 1
             new == [it EXCEPT ![e] = After(it, e)]
  <2>7. e \in 0 .. L /\ e \in Nat
    BY <2>5
  <2>8. it = [n \in 0 .. L |-> it[n]] /\ \A n \in 0 .. L : n < e => it[n] = After(it, n)
    BY <2>6
  <2> HIDE DEF Bad, Upto, After
  <2>9. /\ new = [n \in 0 .. L |-> new[n]] /\ new[e] = After(it, e)
        /\ \A n \in (0 .. L) \ {e} : new[n] = it[n]
    BY <2>7, <2>8
  <2> HIDE DEF new, e
  <2>10. ASSUME NEW n \in 0 .. L, n < m PROVE new[n] = After(new, n)
    <3>1. n \in Nat /\ n <= e
      BY <2>2, <2>10 DEF e
    <3>2. After(new, n) = After(it, n)
      <4>1. CASE n = 0
        BY <4>1 DEF After
      <4>2. CASE n # 0
        <5>1. n - 1 \in (0 .. L) \ {e}
          BY <2>7, <3>1, <4>2
        <5>2. new[n - 1] = it[n - 1]
          BY <2>9, <5>1
        <5> QED BY <5>2 DEF After
      <4> QED BY <4>1, <4>2
    <3>3. CASE n = e
      BY <2>9, <3>2, <3>3
    <3>4. CASE n # e
      BY <2>7, <2>8, <2>9, <3>1, <3>2, <3>4
    <3> QED BY <3>3, <3>4
  <2>11. Upto(m, new)
    BY <2>9, <2>10 DEF Upto
  <2> QED BY <2>2, <2>11
<1>2. L + 1 \notin Bad
  BY <1>1
<1>3. PICK it : Upto(L + 1, it)
  <2>1. L + 1 \in Nat /\ L + 1 <= L + 1
    OBVIOUS
  <2> HIDE DEF Upto
  <2> QED BY <1>2, <2>1
<1>4. it = [n \in 0 .. L |-> it[n]] /\ \A n \in 0 .. L : it[n] = After(it, n)
  <2>1. \A n \in 0 .. L : n < L + 1
    OBVIOUS
  <2> HIDE DEF After
  <2> QED BY <1>3, <2>1
<1>5. it = [n \in 0 .. L |-> After(it, n)]
  <2> HIDE DEF After
  <2> QED BY <1>4
<1>6. PostsUpTo(it, K, mirrored)
  <2>1. PostsUpTo(it, K, mirrored) <=> it = [n \in 0 .. L |-> After(it, n)]
    BY DEF PostsUpTo
  <2> QED BY <1>5, <2>1
<1> QED BY <1>6

\* One step after the other, from what there is to what posting results in
LEMMA PostedStepwise ==
  ASSUME pitLines \in Seq(PitLine), NEW K, NEW mirrored
  PROVE  \E it : /\ it[0] = Posting
                 /\ \A n \in 1 .. Len(pitLines) : it[n] = Outcome(it[n - 1], n, K, mirrored)
                 /\ PostedInOrder(K, mirrored) = it[Len(pitLines)]
<1> DEFINE it == CHOOSE it : PostsUpTo(it, K, mirrored)
           L == Len(pitLines)
<1>1. L \in Nat
  BY LinesTyped
<1>2. PostsUpTo(it, K, mirrored)
  <2>1. \E jt : PostsUpTo(jt, K, mirrored)
    BY <1>1, OutcomesExist
  <2> QED BY <2>1
<1> HIDE DEF it
<1>3. it = [n \in 0 .. L |-> IF n = 0 THEN Posting ELSE Outcome(it[n - 1], n, K, mirrored)]
  BY <1>2 DEF PostsUpTo
<1> HIDE DEF L
<1>4. \A n \in 0 .. L : it[n] = IF n = 0 THEN Posting ELSE Outcome(it[n - 1], n, K, mirrored)
  BY <1>3
<1>5. it[0] = Posting
  BY <1>1, <1>4
<1>6. \A n \in 1 .. L : it[n] = Outcome(it[n - 1], n, K, mirrored)
  BY <1>1, <1>4
<1>7. PostedInOrder(K, mirrored) = it[L]
  BY PostedInOrderIs DEF it, L
<1> QED BY <1>5, <1>6, <1>7 DEF L

LEMMA PostingProper == ASSUME PitTypeOK PROVE Proper(Posting)
<1> DEFINE a == pitLines
           b == yearly
<1>1. a \in Seq(PitLine) /\ b \in Registers
  BY DEF PitTypeOK, Registers
<1>2. Posting = [lines |-> a, registers |-> b, valid |-> TRUE]
  BY DEF Posting
<1> HIDE DEF a, b
<1> QED BY <1>1, <1>2 DEF Proper

\* What is true after line n, when the lines K are posted
PostStage(p, n, K) ==
  /\ Proper(p) /\ DOMAIN p.lines = DOMAIN pitLines
  /\ \A k \in DOMAIN pitLines :
       /\ p.lines[k].payment = pitLines[k].payment /\ p.lines[k].supplier = pitLines[k].supplier
       /\ p.lines[k].income = pitLines[k].income
       /\ k \notin K \/ k > n => p.lines[k] = pitLines[k]
  /\ Exact(pitLines, pitPayments, yearly) /\ (\A k \in K : ~pitLines[k].posted \/ AsShown(pitLines[k]))
       /\ p.valid
     => Exact(p.lines, pitPayments, p.registers) /\ \A k \in K : k <= n => AsShown(p.lines[k])

LEMMA PostStep ==
  ASSUME PitTypeOK, NEW K \in SUBSET DOMAIN pitLines, NEW n \in DOMAIN pitLines,
         NEW p, PostStage(p, n - 1, K), NEW q, q = Outcome(p, n, K, FALSE)
  PROVE  PostStage(q, n, K)
<1>1. /\ Proper(p) /\ DOMAIN p.lines = DOMAIN pitLines
      /\ \A k \in DOMAIN pitLines :
           /\ p.lines[k].payment = pitLines[k].payment /\ p.lines[k].supplier = pitLines[k].supplier
           /\ p.lines[k].income = pitLines[k].income
           /\ k \notin K \/ k > n - 1 => p.lines[k] = pitLines[k]
  BY DEF PostStage
<1> DEFINE Before == /\ Exact(pitLines, pitPayments, yearly)
                     /\ \A k \in K : ~pitLines[k].posted \/ AsShown(pitLines[k])
<1>2. Before /\ p.valid => /\ Exact(p.lines, pitPayments, p.registers)
                           /\ \A k \in K : k <= n - 1 => AsShown(p.lines[k])
  BY DEF PostStage
<1>3. pitLines \in Seq(PitLine) /\ \A k \in DOMAIN pitLines : k \in Nat
  <2>1. pitLines \in Seq(PitLine)
    BY DEF PitTypeOK
  <2> QED BY <2>1, LinesTyped
<1>4. \A k \in DOMAIN pitLines : (k > n => k > n - 1) /\ n > n - 1 /\ (k <= n <=> k <= n - 1 \/ k = n)
  BY <1>3
<1>5. CASE n \notin K
  <2>1. q = p
    BY <1>5 DEF Outcome
  <2>2. \A k \in K : k <= n => k <= n - 1
    BY <1>4, <1>5
  <2>3. Before /\ q.valid => /\ Exact(q.lines, pitPayments, q.registers)
                             /\ \A k \in K : k <= n => AsShown(q.lines[k])
    BY <1>2, <2>1, <2>2
  <2> QED BY <1>1, <1>4, <2>1, <2>3 DEF PostStage
<1>6. CASE n \in K
  <2>1. q = ActionPost(p, n) /\ n \in DOMAIN p.lines
    BY <1>1, <1>6 DEF Outcome
  <2>2. Posts(p, n, q)
    BY <1>1, <2>1, ActionPostDoes
  <2>3. Proper(q) /\ PostedAt(p.lines, n, q.lines) /\ (q.valid => p.valid)
    BY <2>2 DEF Posts
  <2>4. /\ DOMAIN q.lines = DOMAIN pitLines
        /\ \A j \in DOMAIN pitLines : j # n => q.lines[j] = p.lines[j]
        /\ q.lines[n].payment = p.lines[n].payment /\ q.lines[n].supplier = p.lines[n].supplier
        /\ q.lines[n].income = p.lines[n].income
    BY <1>1, <2>3 DEF PostedAt
  <2>5. \A k \in DOMAIN pitLines :
          /\ q.lines[k].payment = pitLines[k].payment /\ q.lines[k].supplier = pitLines[k].supplier
          /\ q.lines[k].income = pitLines[k].income
          /\ k \notin K \/ k > n => q.lines[k] = pitLines[k]
    <3> SUFFICES ASSUME NEW k \in DOMAIN pitLines
                 PROVE  /\ q.lines[k].payment = pitLines[k].payment
                        /\ q.lines[k].supplier = pitLines[k].supplier
                        /\ q.lines[k].income = pitLines[k].income
                        /\ k \notin K \/ k > n => q.lines[k] = pitLines[k]
      OBVIOUS
    <3>1. CASE k = n
      <4>1. ~(n > n)
        BY <1>3
      <4> QED BY <1>1, <1>6, <2>4, <3>1, <4>1
    <3>2. CASE k # n
      BY <1>1, <1>4, <2>4, <3>2
    <3> QED BY <3>1, <3>2
  <2>6. ASSUME Before, q.valid
        PROVE  Exact(q.lines, pitPayments, q.registers) /\ \A k \in K : k <= n => AsShown(q.lines[k])
    <3>1. Exact(p.lines, pitPayments, p.registers) /\ \A k \in K : k <= n - 1 => AsShown(p.lines[k])
      BY <1>2, <2>3, <2>6
    <3>2. ~p.lines[n].posted \/ AsShown(p.lines[n])
      BY <1>1, <1>4, <1>6, <2>6
    <3>3. Exact(q.lines, pitPayments, q.registers) /\ AsShown(q.lines[n])
      BY <1>1, <2>1, <2>2, <2>6, <3>1, <3>2, PostAgainKeeps, PostNewKeeps
    <3>4. \A k \in K : k <= n => AsShown(q.lines[k])
      BY <1>4, <2>4, <3>1, <3>3
    <3> QED BY <3>3, <3>4
  <2> QED BY <2>3, <2>4, <2>5, <2>6 DEF PostStage
<1> QED BY <1>5, <1>6

\* What posting the lines of K results in
LEMMA PostAll ==
  ASSUME PitTypeOK, NEW K \in SUBSET DOMAIN pitLines
  PROVE  PostStage(PostedInOrder(K, FALSE), Len(pitLines), K)
<1> DEFINE L == Len(pitLines)
<1>1. pitLines \in Seq(PitLine) /\ L \in Nat /\ DOMAIN pitLines = 1 .. L
  BY LinesTyped DEF PitTypeOK
<1>2. PICK it : /\ it[0] = Posting
                /\ \A n \in 1 .. L : it[n] = Outcome(it[n - 1], n, K, FALSE)
                /\ PostedInOrder(K, FALSE) = it[L]
  BY <1>1, PostedStepwise
<1>3. PostStage(it[0], 0, K)
  <2>1. Proper(Posting)
    BY PostingProper
  <2>2. Posting.lines = pitLines /\ Posting.registers = yearly
    BY DEF Posting
  <2>3. \A k \in K : ~(k <= 0)
    BY <1>1
  <2> QED BY <1>2, <2>1, <2>2, <2>3 DEF PostStage
<1> DEFINE Bad == {n \in 0 .. L : ~PostStage(it[n], n, K)}
<1>4. ASSUME Bad # {} PROVE FALSE
  <2>1. Bad \in SUBSET Nat
    OBVIOUS
  <2> HIDE DEF Bad
  <2>2. PICK n \in Bad : \A m \in Bad : n <= m
    BY <1>4, <2>1, LeastNat
  <2>3. n \in 0 .. L /\ ~PostStage(it[n], n, K)
    BY <2>2 DEF Bad
  <2>4. n # 0
    BY <1>3, <2>3
  <2>5. n \in 1 .. L /\ n - 1 \in 0 .. L /\ ~(n <= n - 1)
    BY <1>1, <2>3, <2>4
  <2>6. PostStage(it[n - 1], n - 1, K)
    BY <2>2, <2>5 DEF Bad
  <2>7. it[n] = Outcome(it[n - 1], n, K, FALSE) /\ n \in DOMAIN pitLines
    BY <1>1, <1>2, <2>5
  <2>8. PostStage(it[n], n, K)
    BY <2>6, <2>7, PostStep
  <2> QED BY <2>3, <2>8
<1>5. L \notin Bad /\ L \in 0 .. L
  BY <1>1, <1>4
<1> QED BY <1>2, <1>5

\* One more line adds its income.
LEMMA IncomeAdded ==
  ASSUME NEW ls \in Seq(PitLine), NEW B \in SUBSET DOMAIN ls, NEW k \in DOMAIN ls, k \notin B
  PROVE  IncomeOf(ls, B \cup {k}) = IncomeOf(ls, B) + ls[k].income
<1> DEFINE F == [j \in DOMAIN ls |-> ls[j].income]
           C == B \cup {k}
<1>1. C \in SUBSET DOMAIN ls /\ k \in C /\ C \ {k} = B
  OBVIOUS
<1>2. IsFiniteSet(C) /\ \A j \in C : F[j] \in Int
  BY <1>1, SumsTyped, LinesTyped
<1>3. F[k] = ls[k].income
  OBVIOUS
<1>4. F[k] \in Int
  BY <1>1, <1>2
<1> HIDE DEF F, C
<1>5. SumFunctionOnSet(F, C) = F[k] + SumFunctionOnSet(F, C \ {k})
  BY <1>1, <1>2, SumRemove
<1>6. IncomeOf(ls, C) = SumFunctionOnSet(F, C) /\ IncomeOf(ls, B) = SumFunctionOnSet(F, B)
  BY DEF IncomeOf, F
<1>7. IncomeOf(ls, B) \in Int
  BY SumsTyped
<1>8. IncomeOf(ls, C) = F[k] + IncomeOf(ls, B)
  BY <1>1, <1>5, <1>6
<1> DEFINE a == IncomeOf(ls, B)
           b == F[k]
<1>9. IncomeOf(ls, C) = b + a /\ a \in Int /\ b \in Int
  BY <1>4, <1>7, <1>8
<1> HIDE DEF a, b
<1>10. IncomeOf(ls, C) = a + b
  BY <1>9
<1> QED BY <1>3, <1>10 DEF a, b, C

\* The lines that were added for a supplier
Added(ls, s) == {k \in DOMAIN ls \ DOMAIN pitLines : ls[k].supplier = s}

\* The lines of K up to n
UpToLine(K, n, s) == {k \in K : k <= n /\ pitLines[k].supplier = s}

\* What is true after line n, when the mirrors of the lines K of v are posted.  The
\* tax of a line and that of its mirror are the same and have opposite signs.
MirrorStage(p, n, K, v) ==
  /\ Proper(p) /\ DOMAIN pitLines \subseteq DOMAIN p.lines
  /\ \A k \in DOMAIN pitLines : p.lines[k] = pitLines[k]
  /\ \A k \in DOMAIN p.lines \ DOMAIN pitLines : p.lines[k].payment = v /\ p.lines[k].posted
  /\ Exact(pitLines, pitPayments, yearly) /\ (\A k \in K : AsShown(pitLines[k])) /\ p.valid
     => /\ Exact(p.lines, pitPayments, p.registers)
        /\ \A k \in DOMAIN p.lines \ DOMAIN pitLines : p.lines[k].wht = 0
        /\ \A k \in K : k <= n => pitLines[k].wht = 0
        /\ \A s \in Supplier :
             IncomeOf(p.lines, Added(p.lines, s)) + IncomeOf(pitLines, UpToLine(K, n, s)) = 0

LEMMA MirrorStep ==
  ASSUME PitTypeOK, NEW v \in PitPayment, NEW K \in SUBSET DOMAIN pitLines,
         \A k \in K : pitLines[k].payment = v,
         NEW n \in K, NEW p, MirrorStage(p, n - 1, K, v), NEW q, q = PostMirror(p, n)
  PROVE  MirrorStage(q, n, K, v)
<1> DEFINE o == WithMirror(p, n)
           m == Len(p.lines) + 1
           Before == Exact(pitLines, pitPayments, yearly) /\ \A k \in K : AsShown(pitLines[k])
           line == pitLines[n]
<1>1. /\ Proper(p) /\ DOMAIN pitLines \subseteq DOMAIN p.lines
      /\ \A k \in DOMAIN pitLines : p.lines[k] = pitLines[k]
      /\ \A k \in DOMAIN p.lines \ DOMAIN pitLines : p.lines[k].payment = v /\ p.lines[k].posted
  BY DEF MirrorStage
<1>2. Before /\ p.valid
      => /\ Exact(p.lines, pitPayments, p.registers)
         /\ \A k \in DOMAIN p.lines \ DOMAIN pitLines : p.lines[k].wht = 0
         /\ \A k \in K : k <= n - 1 => pitLines[k].wht = 0
         /\ \A s \in Supplier :
              IncomeOf(p.lines, Added(p.lines, s)) + IncomeOf(pitLines, UpToLine(K, n - 1, s)) = 0
  BY DEF MirrorStage
<1>3. /\ pitLines \in Seq(PitLine) /\ \A k \in DOMAIN pitLines : k \in Nat
  <2>1. pitLines \in Seq(PitLine)
    BY DEF PitTypeOK
  <2> QED BY <2>1, LinesTyped
<1>4. n \in DOMAIN p.lines /\ p.lines[n] = line /\ line.payment = v /\ n \in DOMAIN pitLines
  BY <1>1
<1>5. /\ Proper(o) /\ o.registers = p.registers /\ o.valid = p.valid
      /\ DOMAIN o.lines = DOMAIN p.lines \cup {m} /\ m \notin DOMAIN p.lines
      /\ \A j \in DOMAIN p.lines : o.lines[j] = p.lines[j]
      /\ o.lines[m].payment = v /\ o.lines[m].supplier = line.supplier
      /\ o.lines[m].income = -line.income /\ o.lines[m].precalc = line.precalc
      /\ o.lines[m].posted = FALSE /\ q = ActionPost(o, m)
  <2>1. /\ Proper(o) /\ o.registers = p.registers /\ o.valid = p.valid
        /\ DOMAIN o.lines = DOMAIN p.lines \cup {m} /\ m \notin DOMAIN p.lines
        /\ \A j \in DOMAIN p.lines : o.lines[j] = p.lines[j]
        /\ o.lines[m].payment = p.lines[n].payment
        /\ o.lines[m].supplier = p.lines[n].supplier
        /\ o.lines[m].income = -p.lines[n].income
        /\ o.lines[m].precalc = p.lines[n].precalc
        /\ o.lines[m].posted = FALSE
        /\ PostMirror(p, n) = ActionPost(o, m)
    BY <1>1, <1>4, WithMirrorIs, Zenon
  <2> HIDE DEF o, m
  <2> QED BY <1>4, <2>1
<1> HIDE DEF o, m
<1>6. Posts(o, m, q) /\ m \in DOMAIN o.lines
  BY <1>5, ActionPostDoes
<1>7. Proper(q) /\ PostedAt(o.lines, m, q.lines) /\ (q.valid => o.valid)
  BY <1>6 DEF Posts
<1>8. /\ DOMAIN q.lines = DOMAIN p.lines \cup {m}
      /\ \A j \in DOMAIN p.lines : q.lines[j] = p.lines[j]
      /\ q.lines[m].payment = v /\ q.lines[m].supplier = line.supplier
      /\ q.lines[m].income = -line.income /\ q.lines[m].precalc = line.precalc
      /\ q.lines[m].posted
  BY <1>5, <1>7 DEF PostedAt
<1>9. DOMAIN pitLines \subseteq DOMAIN q.lines /\ m \in DOMAIN q.lines \ DOMAIN pitLines
      /\ \A k \in DOMAIN pitLines : q.lines[k] = pitLines[k]
  BY <1>1, <1>5, <1>8
<1>10. \A k \in DOMAIN q.lines \ DOMAIN pitLines : q.lines[k].payment = v /\ q.lines[k].posted
  BY <1>1, <1>5, <1>8
<1>11. /\ p.lines \in Seq(PitLine) /\ o.lines \in Seq(PitLine) /\ q.lines \in Seq(PitLine)
  BY <1>1, <1>5, <1>7 DEF Proper
<1>12. ASSUME Before, q.valid
       PROVE  /\ Exact(q.lines, pitPayments, q.registers)
              /\ \A k \in DOMAIN q.lines \ DOMAIN pitLines : q.lines[k].wht = 0
              /\ \A k \in K : k <= n => pitLines[k].wht = 0
              /\ \A s \in Supplier :
                   IncomeOf(q.lines, Added(q.lines, s)) + IncomeOf(pitLines, UpToLine(K, n, s)) = 0
  <2>1. /\ Exact(p.lines, pitPayments, p.registers)
        /\ \A k \in DOMAIN p.lines \ DOMAIN pitLines : p.lines[k].wht = 0
        /\ \A k \in K : k <= n - 1 => pitLines[k].wht = 0
        /\ \A s \in Supplier :
             IncomeOf(p.lines, Added(p.lines, s)) + IncomeOf(pitLines, UpToLine(K, n - 1, s)) = 0
    BY <1>2, <1>5, <1>7, <1>12
  <2>2. ASSUME NEW s, NEW y PROVE Reg(o.lines, pitPayments, s, y) = Reg(p.lines, pitPayments, s, y)
    <3> DEFINE B == BookedIn(p.lines, pitPayments, s, y)
    <3>1. BookedIn(o.lines, pitPayments, s, y) = B
      <4>1. \A j \in DOMAIN o.lines : j \in BookedIn(o.lines, pitPayments, s, y) <=> j \in B
        BY <1>5 DEF BookedIn
      <4>2. BookedIn(o.lines, pitPayments, s, y) \subseteq DOMAIN o.lines /\ B \subseteq DOMAIN o.lines
        BY <1>5 DEF BookedIn
      <4> QED BY <4>1, <4>2
    <3>2. B \in SUBSET DOMAIN p.lines /\ B \in SUBSET DOMAIN o.lines
      BY <1>5 DEF BookedIn
    <3>3. \A j \in B : o.lines[j].income = p.lines[j].income /\ o.lines[j].wht = p.lines[j].wht
      BY <1>5, <3>2
    <3> HIDE DEF B
    <3>4. IncomeOf(o.lines, B) = IncomeOf(p.lines, B) /\ WithheldOf(o.lines, B) = WithheldOf(p.lines, B)
      BY <1>11, <3>2, <3>3, SumsAsBefore
    <3> QED BY <3>1, <3>4 DEF Reg, B
  <2>3. Exact(o.lines, pitPayments, o.registers)
    <3>1. o.registers = p.registers
      BY <1>5
    <3>2. ASSUME NEW s \in Supplier, NEW y \in CalendarYear
          PROVE  /\ o.registers[<<s, y>>] = Reg(o.lines, pitPayments, s, y)
                 /\ HasTax(o.registers[<<s, y>>].income)
                 /\ o.registers[<<s, y>>].wht = Tax(o.registers[<<s, y>>].income)
      <4>1. /\ p.registers[<<s, y>>] = Reg(p.lines, pitPayments, s, y)
            /\ HasTax(p.registers[<<s, y>>].income)
            /\ p.registers[<<s, y>>].wht = Tax(p.registers[<<s, y>>].income)
        BY <2>1 DEF Exact
      <4>2. Reg(o.lines, pitPayments, s, y) = Reg(p.lines, pitPayments, s, y)
        BY <2>2
      <4> QED BY <3>1, <4>1, <4>2
    <3> QED BY <3>2 DEF Exact
  <2>4. Exact(q.lines, pitPayments, q.registers) /\ AsShown(q.lines[m])
    BY <1>5, <1>6, <1>12, <2>3, PostNewKeeps
  <2>5. line.wht = 0 /\ q.lines[m].wht = 0
    <3>1. AsShown(line)
      BY <1>12
    <3>2. line.income \in Int /\ line.wht \in Int /\ q.lines[m].wht \in Int
      <4>1. m \in DOMAIN q.lines
        BY <1>9
      <4> QED BY <1>3, <1>4, <1>11, <4>1, LinesTyped
    <3> DEFINE a == line.income
               b == line.wht
               c == q.lines[m].income
               d == q.lines[m].wht
    <3>3. /\ b = d /\ c = -a /\ a \in Int /\ b \in Int
          /\ (a > 0 => b >= 0) /\ (a < 0 => b <= 0) /\ (a = 0 => b = 0)
          /\ (c > 0 => d >= 0) /\ (c < 0 => d <= 0)
      <4>1. b = line.precalc /\ d = q.lines[m].precalc
        BY <2>4, <3>1 DEF AsShown
      <4>2. (a > 0 => b >= 0) /\ (a < 0 => b <= 0) /\ (a = 0 => b = 0)
        BY <3>1 DEF AsShown
      <4>3. (c > 0 => d >= 0) /\ (c < 0 => d <= 0)
        BY <2>4 DEF AsShown
      <4>4. c = -a /\ b = d
        BY <1>8, <4>1
      <4> QED BY <3>2, <4>2, <4>3, <4>4
    <3> HIDE DEF a, b, c, d
    <3>4. b = 0 /\ d = 0
      BY <3>3
    <3> QED BY <3>4 DEF b, d
  <2>6. \A k \in DOMAIN q.lines \ DOMAIN pitLines : q.lines[k].wht = 0
    BY <1>8, <2>1, <2>5
  <2>7. \A k \in K : k <= n => pitLines[k].wht = 0
    <3> TAKE k \in K
    <3>1. k \in Nat /\ n \in Nat
      BY <1>3
    <3> QED BY <2>1, <2>5, <3>1
  <2>8. ASSUME NEW s \in Supplier
        PROVE  IncomeOf(q.lines, Added(q.lines, s)) + IncomeOf(pitLines, UpToLine(K, n, s)) = 0
    <3> DEFINE A == Added(p.lines, s)
               U == UpToLine(K, n - 1, s)
    <3>1. A \in SUBSET DOMAIN p.lines /\ A \in SUBSET DOMAIN q.lines /\ m \notin A
          /\ U \in SUBSET DOMAIN pitLines /\ n \notin U
      <4>1. ~(n <= n - 1)
        BY <1>3
      <4> QED BY <1>5, <1>8, <4>1 DEF Added, UpToLine
    <3>2. \A j \in A : q.lines[j].income = p.lines[j].income /\ q.lines[j].wht = p.lines[j].wht
      BY <1>8, <3>1
    <3>3. IncomeOf(p.lines, A) + IncomeOf(pitLines, U) = 0
      BY <2>1
    <3>4. CASE line.supplier = s
      <4>1. Added(q.lines, s) = A \cup {m}
        <5>1. \A j \in DOMAIN q.lines : j \in Added(q.lines, s) <=> j \in A \cup {m}
          BY <1>8, <1>9, <3>4 DEF Added
        <5>2. Added(q.lines, s) \subseteq DOMAIN q.lines
          BY DEF Added
        <5> QED BY <1>9, <3>1, <5>1, <5>2
      <4>2. UpToLine(K, n, s) = U \cup {n}
        <5>1. \A k \in K : k \in UpToLine(K, n, s) <=> k \in U \cup {n}
          <6> TAKE k \in K
          <6>1. k \in Nat /\ n \in Nat
            BY <1>3
          <6> QED BY <3>4, <6>1 DEF UpToLine
        <5>2. UpToLine(K, n, s) \subseteq K /\ U \subseteq K
          BY DEF UpToLine
        <5> QED BY <5>1, <5>2
      <4> HIDE DEF A, U
      <4>3. IncomeOf(q.lines, A \cup {m}) = IncomeOf(q.lines, A) + q.lines[m].income
        BY <1>9, <1>11, <3>1, IncomeAdded
      <4>4. IncomeOf(q.lines, A) = IncomeOf(p.lines, A)
        BY <1>11, <3>1, <3>2, SumsAsBefore
      <4>5. IncomeOf(pitLines, U \cup {n}) = IncomeOf(pitLines, U) + line.income
        BY <1>3, <1>4, <3>1, IncomeAdded
      <4>6. /\ IncomeOf(pitLines, U) \in Int /\ IncomeOf(p.lines, A) \in Int
            /\ line.income \in Int
        BY <1>3, <1>4, <1>11, <3>1, SumsTyped, LinesTyped
      <4> DEFINE a == IncomeOf(p.lines, A)
                 u == IncomeOf(pitLines, U)
                 c == line.income
      <4>7. IncomeOf(q.lines, A \cup {m}) = a + (-c)
        BY <1>8, <4>3, <4>4
      <4> HIDE DEF a, u, c
      <4>8. (a + (-c)) + (u + c) = 0
        BY <3>3, <4>6 DEF a, u, c
      <4> QED BY <4>1, <4>2, <4>5, <4>7, <4>8 DEF u, c
    <3>5. CASE line.supplier # s
      <4>1. Added(q.lines, s) = A
        <5>1. \A j \in DOMAIN q.lines : j \in Added(q.lines, s) <=> j \in A
          BY <1>8, <1>9, <3>5 DEF Added
        <5>2. Added(q.lines, s) \subseteq DOMAIN q.lines
          BY DEF Added
        <5> QED BY <1>9, <3>1, <5>1, <5>2
      <4>2. UpToLine(K, n, s) = U
        <5>1. \A k \in K : k \in UpToLine(K, n, s) <=> k \in U
          <6> TAKE k \in K
          <6>1. k \in Nat /\ n \in Nat
            BY <1>3
          <6> QED BY <3>5, <6>1 DEF UpToLine
        <5>2. UpToLine(K, n, s) \subseteq K /\ U \subseteq K
          BY DEF UpToLine
        <5> QED BY <5>1, <5>2
      <4> HIDE DEF A, U
      <4>3. IncomeOf(q.lines, A) = IncomeOf(p.lines, A)
        BY <1>11, <3>1, <3>2, SumsAsBefore
      <4> QED BY <3>3, <4>1, <4>2, <4>3
    <3> QED BY <3>4, <3>5
  <2> QED BY <2>4, <2>6, <2>7, <2>8
<1> QED BY <1>7, <1>9, <1>10, <1>12 DEF MirrorStage

\* What posting the mirrors of the lines K results in
LEMMA MirrorAll ==
  ASSUME PitTypeOK, NEW v \in PitPayment, NEW K \in SUBSET DOMAIN pitLines,
         \A k \in K : pitLines[k].payment = v
  PROVE  MirrorStage(PostedInOrder(K, TRUE), Len(pitLines), K, v)
<1> DEFINE L == Len(pitLines)
<1>1. pitLines \in Seq(PitLine) /\ L \in Nat /\ DOMAIN pitLines = 1 .. L
  BY LinesTyped DEF PitTypeOK
<1>2. PICK it : /\ it[0] = Posting
                /\ \A n \in 1 .. L : it[n] = Outcome(it[n - 1], n, K, TRUE)
                /\ PostedInOrder(K, TRUE) = it[L]
  BY <1>1, PostedStepwise
<1>3. MirrorStage(it[0], 0, K, v)
  <2>1. Proper(Posting)
    BY PostingProper
  <2>2. Posting.lines = pitLines /\ Posting.registers = yearly
    BY DEF Posting
  <2>3. \A k \in K : ~(k <= 0)
    BY <1>1
  <2>4. \A s \in Supplier : IncomeOf(pitLines, Added(pitLines, s)) + IncomeOf(pitLines, UpToLine(K, 0, s)) = 0
    <3> TAKE s \in Supplier
    <3>1. Added(pitLines, s) = {} /\ UpToLine(K, 0, s) = {}
      BY <2>3 DEF Added, UpToLine
    <3>2. IncomeOf(pitLines, {}) = 0
      BY SumEmpty DEF IncomeOf
    <3> QED BY <3>1, <3>2
  <2> QED BY <1>2, <2>1, <2>2, <2>3, <2>4 DEF MirrorStage
<1> DEFINE Bad == {n \in 0 .. L : ~MirrorStage(it[n], n, K, v)}
<1>4. ASSUME Bad # {} PROVE FALSE
  <2>1. Bad \in SUBSET Nat
    OBVIOUS
  <2> HIDE DEF Bad
  <2>2. PICK n \in Bad : \A m \in Bad : n <= m
    BY <1>4, <2>1, LeastNat
  <2>3. n \in 0 .. L /\ ~MirrorStage(it[n], n, K, v)
    BY <2>2 DEF Bad
  <2>4. n # 0
    BY <1>3, <2>3
  <2>5. n \in 1 .. L /\ n - 1 \in 0 .. L /\ ~(n <= n - 1)
    BY <1>1, <2>3, <2>4
  <2>6. MirrorStage(it[n - 1], n - 1, K, v)
    BY <2>2, <2>5 DEF Bad
  <2>7. it[n] = Outcome(it[n - 1], n, K, TRUE) /\ n \in DOMAIN pitLines
    BY <1>1, <1>2, <2>5
  <2>8. MirrorStage(it[n], n, K, v)
    <3>1. CASE n \in K
      <4>1. it[n] = PostMirror(it[n - 1], n)
        BY <2>7, <3>1 DEF Outcome
      <4> QED BY <2>6, <3>1, <4>1, MirrorStep
    <3>2. CASE n \notin K
      <4>1. it[n] = it[n - 1]
        BY <2>7, <3>2 DEF Outcome
      <4>2. \A k \in K : k <= n <=> k <= n - 1
        <5> TAKE k \in K
        <5>1. k \in Nat /\ n \in Nat /\ k # n
          BY <1>1, <2>3, <3>2
        <5> QED BY <5>1
      <4>3. \A s : UpToLine(K, n, s) = UpToLine(K, n - 1, s)
        BY <4>2 DEF UpToLine
      <4> QED BY <2>6, <4>1, <4>2, <4>3 DEF MirrorStage
    <3> QED BY <3>1, <3>2
  <2> QED BY <2>3, <2>8
<1>5. L \notin Bad /\ L \in 0 .. L
  BY <1>1, <1>4
<1> QED BY <1>2, <1>5

-----------------------------------------------------------------------------
(* Income tax: types *)

LEMMA PitInitType == PitInit => PitTypeOK
<1> SUFFICES ASSUME PitInit PROVE PitTypeOK
  OBVIOUS
<1> DEFINE Years == [state : {"draft"}, year : CalendarYear]
           PaymentStates == [state : {"draft", "posted", "cancel", "deleted"}, year : CalendarYear]
<1>1. pitPayments \in [PitPayment -> PaymentStates]
  <2>1. pitPayments \in [PitPayment -> Years]
    BY DEF PitInit
  <2>2. Years \subseteq PaymentStates
    OBVIOUS
  <2> HIDE DEF Years, PaymentStates
  <2> QED BY <2>1, <2>2
<1>2. pitLines \in Seq(PitLine)
  <2> HIDE DEF PitLine
  <2> QED BY DEF PitInit
<1>3. yearly \in [Supplier \X CalendarYear -> [income : Int, wht : Int]]
  BY DEF PitInit
<1>4. pitHistory = {}
  BY DEF PitInit
<1> QED BY <1>1, <1>2, <1>3, <1>4 DEF PitTypeOK

\* A payment may change its state,
LEMMA StateTyped ==
  ASSUME PitTypeOK, NEW v \in PitPayment, NEW st \in {"draft", "posted", "cancel", "deleted"}
  PROVE  /\ [pitPayments EXCEPT ![v].state = st]
              \in [PitPayment -> [state : {"draft", "posted", "cancel", "deleted"}, year : CalendarYear]]
         /\ \A u \in PitPayment :
              /\ [pitPayments EXCEPT ![v].state = st][u].year = pitPayments[u].year
              /\ [pitPayments EXCEPT ![v].state = st][u].state = IF u = v THEN st ELSE pitPayments[u].state
BY DEF PitTypeOK

\* or its year.
LEMMA YearTyped ==
  ASSUME PitTypeOK, NEW v \in PitPayment, NEW y \in CalendarYear
  PROVE  /\ [pitPayments EXCEPT ![v].year = y]
              \in [PitPayment -> [state : {"draft", "posted", "cancel", "deleted"}, year : CalendarYear]]
         /\ \A u \in PitPayment :
              /\ [pitPayments EXCEPT ![v].year = y][u].year = IF u = v THEN y ELSE pitPayments[u].year
              /\ [pitPayments EXCEPT ![v].year = y][u].state = pitPayments[u].state
BY DEF PitTypeOK

\* The lines that are removed or kept are lines.
LEMMA LinesTypes ==
  ASSUME PitTypeOK
  PROVE  /\ pitLines \in Seq(PitLine) /\ yearly \in Registers /\ pitHistory \subseteq {"posted again", "moved", "edited", "joined"}
         /\ \A k \in DOMAIN pitLines : pitLines[k].payment \in PitPayment
         /\ \A v : LinesOfPayment(v) \in SUBSET DOMAIN pitLines
         /\ \A v : \A k \in LinesOfPayment(v) : pitLines[k].payment = v
<1>1. pitLines \in Seq(PitLine) /\ yearly \in Registers /\ pitHistory \subseteq {"posted again", "moved", "edited", "joined"}
  BY DEF PitTypeOK, Registers
<1>2. \A k \in DOMAIN pitLines : pitLines[k].payment \in PitPayment
  BY <1>1, LinesTyped
<1> QED BY <1>1, <1>2 DEF LinesOfPayment

\* The tax that is shown is an integer.
LEMMA ShownType ==
  ASSUME NEW held \in [income : Int, wht : Int], NEW income \in Income
  PROVE  Shown(held, income) \subseteq Int
<1>1. TypedWht \subseteq Int /\ income \in Int
  BY IncomeTaxAssumption
<1>2. Calculable(held, income) => CalculatePit(held, income) \in Int
  BY <1>1, PitAmountType
<1> QED BY <1>1, <1>2 DEF Shown

\* A new line
LEMMA AddLineDoes ==
  ASSUME PitTypeOK, NEW v \in PitPayment, NEW s \in Supplier, NEW income \in Income,
         AddLine(v, s, income)
  PROVE  \E m : /\ pitLines' \in Seq(PitLine) /\ DOMAIN pitLines' = DOMAIN pitLines \cup {m}
                /\ m \notin DOMAIN pitLines
                /\ pitLines'[m].payment = v /\ pitLines'[m].posted = FALSE
                /\ \A k \in DOMAIN pitLines : pitLines'[k] = pitLines[k]
<1> DEFINE held == yearly[<<s, pitPayments[v].year>>]
           line(precalc) == [payment |-> v, supplier |-> s, income |-> income, precalc |-> precalc,
                             posted |-> FALSE, wht |-> 0]
           m == Len(pitLines) + 1
<1>1. pitLines \in Seq(PitLine) /\ yearly \in Registers
  BY LinesTypes
<1>2. held \in [income : Int, wht : Int]
  BY <1>1, YearType DEF Registers
<1>3. PICK precalc \in Shown(held, income) : pitLines' = Append(pitLines, line(precalc))
  BY DEF AddLine
<1>4. precalc \in Int /\ income \in Int
  <2> HIDE DEF held
  <2> QED BY <1>2, <1>3, ShownType, IncomeTaxAssumption
<1> DEFINE new == line(precalc)
<1>5. new \in PitLine /\ new.payment = v /\ new.posted = FALSE
  BY <1>4 DEF PitLine
<1> HIDE DEF new
<1>6. pitLines' = Append(pitLines, new)
  BY <1>3 DEF new
<1> HIDE DEF PitLine, line
<1>7. Len(pitLines) \in Nat /\ DOMAIN pitLines = 1 .. Len(pitLines)
  BY <1>1
<1>8. /\ pitLines' \in Seq(PitLine) /\ DOMAIN pitLines' = 1 .. Len(pitLines) + 1
      /\ pitLines'[m] = new /\ \A k \in 1 .. Len(pitLines) : pitLines'[k] = pitLines[k]
  BY <1>1, <1>5, <1>6
<1>9. DOMAIN pitLines' = DOMAIN pitLines \cup {m} /\ m \notin DOMAIN pitLines
  BY <1>7, <1>8
<1> QED BY <1>5, <1>7, <1>8, <1>9

\* A line that is edited
LEMMA EditPitLineDoes ==
  ASSUME PitTypeOK, NEW k \in DOMAIN pitLines, NEW s \in Supplier, NEW income \in Income,
         EditPitLine(k, s, income)
  PROVE  /\ pitLines' \in Seq(PitLine) /\ DOMAIN pitLines' = DOMAIN pitLines
         /\ \A j \in DOMAIN pitLines : j # k => pitLines'[j] = pitLines[j]
         /\ pitLines'[k].payment = pitLines[k].payment /\ pitLines'[k].posted = pitLines[k].posted
         /\ pitPayments[pitLines[k].payment].year \in CalendarYear
         /\ yearly' = [yearly EXCEPT ![<<s, pitPayments[pitLines[k].payment].year>>] =
                         Reg(pitLines', pitPayments, s, pitPayments[pitLines[k].payment].year)]
         /\ yearly' \in Registers
<1> DEFINE line == pitLines[k]
           y == pitPayments[line.payment].year
           held == yearly[<<s, y>>]
<1>1. pitLines \in Seq(PitLine) /\ yearly \in Registers
  BY LinesTypes
<1>2. line \in PitLine /\ line.payment \in PitPayment /\ y \in CalendarYear
  <2>1. line \in PitLine /\ line.payment \in PitPayment
    BY <1>1, LinesTyped
  <2> QED BY <2>1, YearType
<1>3. held \in [income : Int, wht : Int]
  <2> HIDE DEF y
  <2> QED BY <1>1, <1>2 DEF Registers
<1>4. PICK precalc \in Shown(held, income) :
        pitLines' = [pitLines EXCEPT ![k].supplier = s, ![k].income = income, ![k].precalc = precalc]
  BY DEF EditPitLine
<1>5. precalc \in Int /\ income \in Int
  <2> HIDE DEF held
  <2> QED BY <1>3, <1>4, ShownType, IncomeTaxAssumption
<1> DEFINE new == [line EXCEPT !.supplier = s, !.income = income, !.precalc = precalc]
<1>6. new \in PitLine /\ new.payment = line.payment /\ new.posted = line.posted
  <2> HIDE DEF line
  <2> QED BY <1>2, <1>5 DEF PitLine
<1>7. pitLines' = [pitLines EXCEPT ![k] = new]
  BY <1>4
<1> HIDE DEF new, PitLine
<1>8. pitLines' \in Seq(PitLine)
  BY <1>1, <1>6, <1>7, ExceptSeq
<1>9. /\ DOMAIN pitLines' = DOMAIN pitLines /\ pitLines'[k] = new
      /\ \A j \in DOMAIN pitLines : j # k => pitLines'[j] = pitLines[j]
  BY <1>1, <1>7
<1>10. yearly' = [yearly EXCEPT ![<<s, y>>] = Reg(pitLines', pitPayments, s, y)]
  <2>1. yearly' = [yearly EXCEPT ![<<s, y>>] = Register(pitLines', s, y)]
    BY DEF EditPitLine, Registered
  <2> QED BY <2>1, RegisterIs
<1>11. yearly' \in Registers
  <2> DEFINE R == Reg(pitLines', pitPayments, s, y)
  <2>1. R \in [income : Int, wht : Int]
    BY <1>8, RegType
  <2> HIDE DEF R, y
  <2> QED BY <1>1, <1>10, <2>1 DEF Registers, R
<1> QED BY <1>2, <1>6, <1>8, <1>9, <1>10, <1>11

\* A line that is edited in the form of its supplier
LEMMA EditInSupplierFormDoes ==
  ASSUME PitTypeOK, NEW k \in DOMAIN pitLines, NEW v \in PitPayment, NEW income \in Income,
         EditInSupplierForm(k, v, income)
  PROVE  LET line == [pitLines[k] EXCEPT !.payment = v, !.income = income]
         IN  /\ line \in PitLine /\ line.posted = FALSE /\ pitLines[k].posted = FALSE
             /\ pitLines[k].supplier \in Supplier /\ pitPayments[v].year \in CalendarYear
             /\ \/ pitLines' = [pitLines EXCEPT ![k] = line]
                \/ pitLines' = Append(Without({k}), line)
             /\ pitLines' \in Seq(PitLine)
             /\ yearly' = Registered(yearly, pitLines', pitLines[k].supplier, pitPayments[v].year)
             /\ yearly' \in Registers
             /\ pitPayments' = pitPayments
             /\ pitHistory' \subseteq pitHistory \cup {"joined"}
             /\ pitHistory' = {} => pitPayments[v].state # "posted"
<1> DEFINE old == pitLines[k]
           s == old.supplier
           y == pitPayments[v].year
           line == [old EXCEPT !.payment = v, !.income = income]
<1>1. pitLines \in Seq(PitLine) /\ yearly \in Registers
  BY LinesTypes
<1>2. old \in PitLine /\ s \in Supplier /\ old.posted \in BOOLEAN /\ y \in CalendarYear
  <2>1. old \in PitLine /\ s \in Supplier /\ old.posted \in BOOLEAN
    BY <1>1, LinesTyped
  <2> QED BY <2>1, YearType
<1>3. old.posted = FALSE /\ pitPayments' = pitPayments
  BY <1>2 DEF EditInSupplierForm
<1>4. line \in PitLine /\ line.posted = old.posted /\ line.supplier = s
  <2>1. income \in Int
    BY IncomeTaxAssumption
  <2> HIDE DEF old
  <2> QED BY <1>2, <2>1 DEF PitLine
<1>5. pitLines' = [pitLines EXCEPT ![k] = line] \/ pitLines' = Append(Without({k}), line)
  BY DEF EditInSupplierForm
<1>6. yearly' = Registered(yearly, pitLines', s, y)
  <2>1. yearly' = Registered(yearly, pitLines', line.supplier, y)
    BY DEF EditInSupplierForm
  <2> HIDE DEF line
  <2> QED BY <1>4, <2>1
<1>7. /\ pitHistory' \subseteq pitHistory \cup {"joined"}
      /\ pitHistory' = {} => pitPayments[v].state # "posted"
  BY DEF EditInSupplierForm
<1> HIDE DEF line, PitLine
<1>8. pitLines' \in Seq(PitLine)
  <2>1. CASE pitLines' = [pitLines EXCEPT ![k] = line]
    BY <1>1, <1>4, <2>1, ExceptSeq
  <2>2. CASE pitLines' = Append(Without({k}), line)
    <3>1. {k} \in SUBSET DOMAIN pitLines
      OBVIOUS
    <3>2. PICK f : Shifted(f, pitLines, {k}, Without({k}))
      BY <1>1, <3>1, WithoutShifts
    <3>3. Without({k}) \in Seq(PitLine)
      BY <3>2 DEF Shifted
    <3> QED BY <1>4, <2>2, <3>3
  <2> QED BY <1>5, <2>1, <2>2
<1>9. yearly' \in Registers
  <2> DEFINE R == Reg(pitLines', pitPayments, s, y)
  <2>1. R \in [income : Int, wht : Int]
    BY <1>8, RegType
  <2>2. yearly' = [yearly EXCEPT ![<<s, y>>] = R]
    BY <1>6, RegisterIs DEF Registered
  <2> HIDE DEF R, y, s
  <2> QED BY <1>1, <2>1, <2>2 DEF Registers
<1> QED BY <1>2, <1>3, <1>4, <1>5, <1>6, <1>7, <1>8, <1>9 DEF line

\* Lines that are removed
LEMMA WithoutDoes ==
  ASSUME PitTypeOK, NEW K \in SUBSET DOMAIN pitLines
  PROVE  Without(K) \in Seq(PitLine)
<1>1. PICK f : Shifted(f, pitLines, K, Without(K))
  BY LinesTypes, WithoutShifts
<1> QED BY <1>1 DEF Shifted

LEMMA PitStepType == PitTypeOK /\ [PitNext]_pitVars => PitTypeOK'
<1> SUFFICES ASSUME PitTypeOK, [PitNext]_pitVars PROVE PitTypeOK'
  OBVIOUS
<1> DEFINE PaymentStates ==
             [PitPayment -> [state : {"draft", "posted", "cancel", "deleted"}, year : CalendarYear]]
           AllTyped == /\ pitPayments' \in PaymentStates /\ pitLines' \in Seq(PitLine)
                       /\ yearly' \in Registers
                       /\ pitHistory' \subseteq {"posted again", "moved", "edited", "joined"}
<1>0. AllTyped => PitTypeOK'
  BY DEF PitTypeOK, Registers
<1>1. /\ pitPayments \in PaymentStates /\ pitLines \in Seq(PitLine) /\ yearly \in Registers
      /\ pitHistory \subseteq {"posted again", "moved", "edited", "joined"}
  <2>1. pitPayments \in PaymentStates
    BY DEF PitTypeOK
  <2> QED BY <2>1, LinesTypes
<1>2. ASSUME NEW v \in PitPayment, NEW s \in Supplier, NEW income \in Income, AddLine(v, s, income)
      PROVE  AllTyped
  <2>1. pitLines' \in Seq(PitLine)
    BY <1>2, AddLineDoes
  <2>2. pitPayments' = pitPayments /\ yearly' = yearly /\ pitHistory' = pitHistory
    BY <1>2 DEF AddLine
  <2> HIDE DEF PaymentStates
  <2> QED BY <1>1, <2>1, <2>2
<1>3. ASSUME NEW v \in PitPayment, NEW y \in CalendarYear, ChangeYear(v, y) PROVE AllTyped
  <2>1. pitPayments' \in PaymentStates
    BY <1>3, YearTyped DEF ChangeYear
  <2>2. pitLines' = pitLines /\ yearly' = yearly /\ pitHistory' \subseteq pitHistory \cup {"moved"}
    BY <1>3 DEF ChangeYear
  <2> HIDE DEF PaymentStates
  <2> QED BY <1>1, <2>1, <2>2
<1>4. ASSUME NEW v \in PitPayment, PostPit(v) PROVE AllTyped
  <2> DEFINE K == LinesOfPayment(v)
             posting == PostedInOrder(K, FALSE)
  <2>1. K \in SUBSET DOMAIN pitLines
    BY LinesTypes
  <2>2. /\ pitLines' = posting.lines /\ yearly' = posting.registers
        /\ pitPayments' = [pitPayments EXCEPT ![v].state = "posted"]
        /\ pitHistory' \subseteq pitHistory \cup {"posted again"}
    BY <1>4 DEF PostPit, Conclude
  <2> HIDE DEF K
  <2>3. Proper(posting)
    BY <2>1, PostAll DEF PostStage
  <2>4. pitPayments' \in PaymentStates
    BY <2>2, StateTyped
  <2> HIDE DEF PaymentStates, posting
  <2> QED BY <1>1, <2>2, <2>3, <2>4 DEF Proper
<1>5. ASSUME NEW v \in PitPayment, CancelPit(v) PROVE AllTyped
  <2> DEFINE K == {k \in LinesOfPayment(v) : pitLines[k].posted}
             posting == PostedInOrder(K, TRUE)
  <2>1. K \in SUBSET DOMAIN pitLines /\ \A k \in K : pitLines[k].payment = v
    BY LinesTypes
  <2>2. /\ pitLines' = posting.lines /\ yearly' = posting.registers
        /\ pitPayments' = [pitPayments EXCEPT ![v].state = "cancel"]
        /\ pitHistory' = pitHistory
    BY <1>5 DEF CancelPit, Conclude
  <2> HIDE DEF K
  <2>3. Proper(posting)
    BY <2>1, MirrorAll DEF MirrorStage
  <2>4. pitPayments' \in PaymentStates
    BY <2>2, StateTyped
  <2> HIDE DEF PaymentStates, posting
  <2> QED BY <1>1, <2>2, <2>3, <2>4 DEF Proper
<1>6. ASSUME NEW v \in PitPayment, DraftAgain(v) PROVE AllTyped
  <2>1. pitPayments' \in PaymentStates
    BY <1>6, StateTyped DEF DraftAgain
  <2>2. pitLines' = pitLines /\ yearly' = yearly /\ pitHistory' = pitHistory
    BY <1>6 DEF DraftAgain
  <2> HIDE DEF PaymentStates
  <2> QED BY <1>1, <2>1, <2>2
<1>7. ASSUME NEW v \in PitPayment, DeletePitPayment(v) PROVE AllTyped
  <2>1. pitPayments' \in PaymentStates
    BY <1>7, StateTyped DEF DeletePitPayment
  <2>2. pitLines' = Without(LinesOfPayment(v)) /\ yearly' = yearly /\ pitHistory' = pitHistory
    BY <1>7 DEF DeletePitPayment
  <2>3. pitLines' \in Seq(PitLine)
    BY <2>2, LinesTypes, WithoutDoes
  <2> HIDE DEF PaymentStates
  <2> QED BY <1>1, <2>1, <2>2, <2>3
<1>8. ASSUME NEW k \in DOMAIN pitLines, NEW s \in Supplier, NEW income \in Income, EditPitLine(k, s, income)
      PROVE  AllTyped
  <2>1. pitLines' \in Seq(PitLine) /\ yearly' \in Registers
    BY <1>8, EditPitLineDoes
  <2>2. pitPayments' = pitPayments /\ pitHistory' \subseteq pitHistory \cup {"edited"}
    BY <1>8 DEF EditPitLine
  <2> HIDE DEF PaymentStates
  <2> QED BY <1>1, <2>1, <2>2
<1>9. ASSUME NEW k \in DOMAIN pitLines, UnlinkLine(k) PROVE AllTyped
  <2>1. pitPayments' = pitPayments /\ yearly' = yearly /\ pitHistory' = pitHistory
        /\ pitLines' = Without({k})
    BY <1>9 DEF UnlinkLine
  <2>2. {k} \in SUBSET DOMAIN pitLines
    OBVIOUS
  <2>3. pitLines' \in Seq(PitLine)
    BY <2>1, <2>2, WithoutDoes
  <2> HIDE DEF PaymentStates
  <2> QED BY <1>1, <2>1, <2>3
<1>10. ASSUME NEW k \in DOMAIN pitLines, NEW v \in PitPayment, NEW income \in Income,
              EditInSupplierForm(k, v, income)
       PROVE  AllTyped
  <2>1. /\ pitLines' \in Seq(PitLine) /\ yearly' \in Registers
        /\ pitPayments' = pitPayments /\ pitHistory' \subseteq pitHistory \cup {"joined"}
    BY <1>10, EditInSupplierFormDoes
  <2> HIDE DEF PaymentStates
  <2> QED BY <1>1, <2>1
<1>11. ASSUME UNCHANGED pitVars PROVE AllTyped
  <2>1. pitPayments' = pitPayments /\ pitLines' = pitLines /\ yearly' = yearly /\ pitHistory' = pitHistory
    BY <1>11 DEF pitVars
  <2> HIDE DEF PaymentStates
  <2> QED BY <1>1, <2>1
<1> HIDE DEF AllTyped
<1>12. AllTyped
  BY <1>2, <1>3, <1>4, <1>5, <1>6, <1>7, <1>8, <1>9, <1>10, <1>11 DEF PitNext
<1> QED BY <1>0, <1>12

\* The types of payments, lines and registers are as they should be.
THEOREM PitTypeCorrect == PitSpec => []PitTypeOK
BY PitInitType, PitStepType, PTL DEF PitSpec

-----------------------------------------------------------------------------
(* Income tax: what is withheld is the tax of the year *)

\* The posted lines of a payment to a supplier
PostedOf(ls, v, s) == {k \in DOMAIN ls : ls[k].payment = v /\ ls[k].posted /\ ls[k].supplier = s}

\* The posted lines of a payment that is not posted cancel each other.
Undone(ls, v) ==
  /\ \A k \in DOMAIN ls : ls[k].payment = v /\ ls[k].posted => ls[k].wht = 0
  /\ \A s \in Supplier : IncomeOf(ls, PostedOf(ls, v, s)) = 0

\* Those of a payment that is posted are as they were shown.
AllShown(ls, v) ==
  \A k \in DOMAIN ls : ls[k].payment = v /\ ls[k].posted => AsShown(ls[k])

PitKept(ls, pay) ==
  \A v \in PitPayment : IF pay[v].state = "posted" THEN AllShown(ls, v) ELSE Undone(ls, v)

\* All lines of posted payments are posted, unless a line joined one.
AllPosted(ls, pay) ==
  \A k \in DOMAIN ls : pay[ls[k].payment].state = "posted" => ls[k].posted

PitInd ==
  /\ PitTypeOK
  /\ pitHistory \subseteq {"joined"} =>
       Exact(pitLines, pitPayments, yearly) /\ PitKept(pitLines, pitPayments)
  /\ pitHistory = {} => AllPosted(pitLines, pitPayments)

\* A sum over lines may be taken in two parts.
LEMMA LinesSplit ==
  ASSUME NEW ls \in Seq(PitLine), NEW S \in SUBSET DOMAIN ls, NEW T \in SUBSET S
  PROVE  /\ IncomeOf(ls, S) = IncomeOf(ls, T) + IncomeOf(ls, S \ T)
         /\ WithheldOf(ls, S) = WithheldOf(ls, T) + WithheldOf(ls, S \ T)
<1> DEFINE F == [k \in DOMAIN ls |-> ls[k].income]
           G == [k \in DOMAIN ls |-> ls[k].wht]
<1>1. IsFiniteSet(S) /\ \A k \in S : F[k] \in Int
  BY SumsTyped, LinesTyped
<1>2. \A k \in S : G[k] \in Int
  BY LinesTyped
<1> HIDE DEF F, G
<1>3. SumFunctionOnSet(F, S) = SumFunctionOnSet(F, T) + SumFunctionOnSet(F, S \ T)
  BY <1>1, SumSplit
<1>4. SumFunctionOnSet(G, S) = SumFunctionOnSet(G, T) + SumFunctionOnSet(G, S \ T)
  BY <1>1, <1>2, SumSplit
<1> QED BY <1>3, <1>4 DEF F, G, IncomeOf, WithheldOf

\* No tax adds up to none.
LEMMA NoneWithheld ==
  ASSUME NEW ls \in Seq(PitLine), NEW S \in SUBSET DOMAIN ls, \A k \in S : ls[k].wht = 0
  PROVE  WithheldOf(ls, S) = 0
<1> DEFINE G == [k \in DOMAIN ls |-> ls[k].wht]
           E == {}
<1>1. IsFiniteSet(S) /\ (\A k \in S : G[k] \in Int) /\ E \in SUBSET S /\ \A k \in S \ E : G[k] = 0
  BY SumsTyped
<1> HIDE DEF G, E
<1>2. SumFunctionOnSet(G, S) = SumFunctionOnSet(G, E)
  BY <1>1, SumZeros
<1>3. SumFunctionOnSet(G, E) = 0
  BY SumEmpty DEF E
<1> QED BY <1>2, <1>3 DEF WithheldOf, G

\* The posted lines are the same, and in the same years.
SamePosted(ls, pay, new, npay) ==
  /\ \A k \in DOMAIN ls : ls[k].posted =>
       /\ k \in DOMAIN new /\ new[k] = ls[k]
       /\ npay[ls[k].payment].year = pay[ls[k].payment].year
  /\ \A k \in DOMAIN new : new[k].posted => k \in DOMAIN ls /\ new[k] = ls[k]

\* Then the registers are,
LEMMA SameReg ==
  ASSUME NEW ls \in Seq(PitLine), NEW new \in Seq(PitLine), NEW pay, NEW npay,
         SamePosted(ls, pay, new, npay), NEW s, NEW y
  PROVE  Reg(new, npay, s, y) = Reg(ls, pay, s, y)
<1> DEFINE B == BookedIn(ls, pay, s, y)
<1>1. BookedIn(new, npay, s, y) = B
  <2>1. \A k : k \in BookedIn(new, npay, s, y) => k \in B
    BY DEF SamePosted, BookedIn
  <2>2. \A k : k \in B => k \in BookedIn(new, npay, s, y)
    BY DEF SamePosted, BookedIn
  <2> HIDE DEF B
  <2> QED BY <2>1, <2>2
<1>2. /\ B \in SUBSET DOMAIN ls /\ B \in SUBSET DOMAIN new
      /\ \A k \in B : new[k].income = ls[k].income /\ new[k].wht = ls[k].wht
  BY DEF SamePosted, BookedIn
<1> HIDE DEF B
<1>3. IncomeOf(new, B) = IncomeOf(ls, B) /\ WithheldOf(new, B) = WithheldOf(ls, B)
  BY <1>2, SumsAsBefore
<1> QED BY <1>1, <1>3 DEF Reg, B

LEMMA SameExact ==
  ASSUME NEW ls \in Seq(PitLine), NEW new \in Seq(PitLine), NEW pay, NEW npay,
         SamePosted(ls, pay, new, npay), NEW registers, Exact(ls, pay, registers)
  PROVE  Exact(new, npay, registers)
<1>1. \A s \in Supplier, y \in CalendarYear : Reg(new, npay, s, y) = Reg(ls, pay, s, y)
  BY SameReg
<1> QED BY <1>1 DEF Exact

\* The posted lines of one payment are the same.
SamePostedOf(ls, new, v) ==
  /\ \A k \in DOMAIN ls : ls[k].posted /\ ls[k].payment = v => k \in DOMAIN new /\ new[k] = ls[k]
  /\ \A k \in DOMAIN new : new[k].posted /\ new[k].payment = v => k \in DOMAIN ls /\ new[k] = ls[k]

\* and they still cancel each other.
LEMMA SameUndone ==
  ASSUME NEW ls \in Seq(PitLine), NEW new \in Seq(PitLine), NEW v,
         SamePostedOf(ls, new, v), Undone(ls, v)
  PROVE  Undone(new, v)
<1>1. \A k \in DOMAIN new : new[k].payment = v /\ new[k].posted => new[k].wht = 0
  BY DEF SamePostedOf, Undone
<1>2. ASSUME NEW s \in Supplier PROVE IncomeOf(new, PostedOf(new, v, s)) = 0
  <2> DEFINE B == PostedOf(ls, v, s)
  <2>1. PostedOf(new, v, s) = B
    <3>1. \A k : k \in PostedOf(new, v, s) => k \in B
      BY DEF SamePostedOf, PostedOf
    <3>2. \A k : k \in B => k \in PostedOf(new, v, s)
      BY DEF SamePostedOf, PostedOf
    <3> HIDE DEF B
    <3> QED BY <3>1, <3>2
  <2>2. /\ B \in SUBSET DOMAIN ls /\ B \in SUBSET DOMAIN new
        /\ \A k \in B : new[k].income = ls[k].income /\ new[k].wht = ls[k].wht
    BY DEF SamePostedOf, PostedOf
  <2>3. IncomeOf(ls, B) = 0
    BY DEF Undone
  <2> HIDE DEF B
  <2>4. IncomeOf(new, B) = IncomeOf(ls, B)
    BY <2>2, SumsAsBefore
  <2> QED BY <2>1, <2>3, <2>4
<1> QED BY <1>1, <1>2 DEF Undone

\* So are payments posted or undone as before, where the posted lines are the same.
LEMMA SameKept ==
  ASSUME NEW ls \in Seq(PitLine), NEW new \in Seq(PitLine), NEW pay,
         SamePosted(ls, pay, new, pay), NEW registers, Exact(ls, pay, registers), PitKept(ls, pay)
  PROVE  Exact(new, pay, registers) /\ PitKept(new, pay)
<1>1. Exact(new, pay, registers)
  BY SameExact
<1>2. ASSUME NEW u \in PitPayment
      PROVE  IF pay[u].state = "posted" THEN AllShown(new, u) ELSE Undone(new, u)
  <2>1. CASE pay[u].state = "posted"
    <3>1. AllShown(ls, u)
      BY <2>1 DEF PitKept
    <3>2. AllShown(new, u)
      BY <3>1 DEF SamePosted, AllShown
    <3> QED BY <2>1, <3>2
  <2>2. CASE pay[u].state # "posted"
    <3>1. Undone(ls, u)
      BY <2>2 DEF PitKept
    <3>2. SamePostedOf(ls, new, u)
      BY DEF SamePosted, SamePostedOf
    <3> QED BY <2>2, <3>1, <3>2, SameUndone
  <2> QED BY <2>1, <2>2
<1> QED BY <1>1, <1>2 DEF PitKept

\* To register what is registered changes nothing.
LEMMA RegisteredAgain ==
  ASSUME PitTypeOK, NEW ls, NEW s \in Supplier, NEW y \in CalendarYear, Exact(ls, pitPayments, yearly)
  PROVE  Registered(yearly, ls, s, y) = yearly
<1>1. Register(ls, s, y) = yearly[<<s, y>>]
  BY RegisterIs DEF Exact
<1>2. yearly \in Registers
  BY LinesTypes
<1> QED BY <1>1, <1>2 DEF Registered, Registers

LEMMA PitInitInd == PitInit => PitInd
<1> SUFFICES ASSUME PitInit PROVE PitInd
  OBVIOUS
<1>1. PitTypeOK
  BY PitInitType
<1>2. pitLines = << >> /\ yearly = [s \in Supplier \X CalendarYear |-> [income |-> 0, wht |-> 0]]
      /\ DOMAIN pitLines = {} /\ \A v \in PitPayment : pitPayments[v].state = "draft"
  BY DEF PitInit
<1>3. IncomeOf(pitLines, {}) = 0 /\ WithheldOf(pitLines, {}) = 0
  BY SumEmpty DEF IncomeOf, WithheldOf
<1>4. Exact(pitLines, pitPayments, yearly)
  <2> SUFFICES ASSUME NEW s \in Supplier, NEW y \in CalendarYear
               PROVE  /\ yearly[<<s, y>>] = Reg(pitLines, pitPayments, s, y)
                      /\ HasTax(yearly[<<s, y>>].income)
                      /\ yearly[<<s, y>>].wht = Tax(yearly[<<s, y>>].income)
    BY DEF Exact
  <2>1. yearly[<<s, y>>] = [income |-> 0, wht |-> 0]
    BY <1>2
  <2>2. BookedIn(pitLines, pitPayments, s, y) = {}
    BY <1>2 DEF BookedIn
  <2> QED BY <1>3, <2>1, <2>2 DEF Reg, HasTax, Tax
<1>5. PitKept(pitLines, pitPayments)
  <2> SUFFICES ASSUME NEW v \in PitPayment PROVE Undone(pitLines, v)
    BY <1>2 DEF PitKept
  <2>1. \A s \in Supplier : PostedOf(pitLines, v, s) = {}
    BY <1>2 DEF PostedOf
  <2> QED BY <1>2, <1>3, <2>1 DEF Undone
<1>6. AllPosted(pitLines, pitPayments)
  BY <1>2 DEF AllPosted
<1> QED BY <1>1, <1>4, <1>5, <1>6 DEF PitInd

\* The year of a payment and what was posted of it decide of its lines.
LEMMA AddLineInd ==
  ASSUME PitTypeOK, Exact(pitLines, pitPayments, yearly), PitKept(pitLines, pitPayments),
         NEW v \in PitPayment, NEW s \in Supplier, NEW income \in Income, AddLine(v, s, income)
  PROVE  Exact(pitLines', pitPayments', yearly') /\ PitKept(pitLines', pitPayments')
<1>1. PICK m : /\ pitLines' \in Seq(PitLine) /\ DOMAIN pitLines' = DOMAIN pitLines \cup {m}
               /\ m \notin DOMAIN pitLines
               /\ pitLines'[m].payment = v /\ pitLines'[m].posted = FALSE
               /\ \A k \in DOMAIN pitLines : pitLines'[k] = pitLines[k]
  BY AddLineDoes
<1>2. pitPayments' = pitPayments /\ yearly' = yearly
  BY DEF AddLine
<1>3. pitLines \in Seq(PitLine)
  BY LinesTypes
<1>4. SamePosted(pitLines, pitPayments, pitLines', pitPayments)
  BY <1>1 DEF SamePosted
<1> QED BY <1>1, <1>2, <1>3, <1>4, SameKept

LEMMA EditPitLineInd ==
  ASSUME PitTypeOK, Exact(pitLines, pitPayments, yearly), PitKept(pitLines, pitPayments),
         NEW k \in DOMAIN pitLines, NEW s \in Supplier, NEW income \in Income,
         EditPitLine(k, s, income), pitHistory' \subseteq {"joined"}
  PROVE  Exact(pitLines', pitPayments', yearly') /\ PitKept(pitLines', pitPayments')
<1> DEFINE v == pitLines[k].payment
           y == pitPayments[v].year
<1>1. /\ pitLines' \in Seq(PitLine) /\ DOMAIN pitLines' = DOMAIN pitLines
      /\ \A j \in DOMAIN pitLines : j # k => pitLines'[j] = pitLines[j]
      /\ pitLines'[k].posted = pitLines[k].posted /\ y \in CalendarYear
  BY EditPitLineDoes
<1>2. /\ pitPayments' = pitPayments /\ yearly' = Registered(yearly, pitLines', s, y)
      /\ ~pitLines[k].posted
  BY DEF EditPitLine
<1>3. pitLines \in Seq(PitLine)
  BY LinesTypes
<1>4. SamePosted(pitLines, pitPayments, pitLines', pitPayments)
  BY <1>1, <1>2 DEF SamePosted
<1>5. Exact(pitLines', pitPayments, yearly) /\ PitKept(pitLines', pitPayments)
  BY <1>1, <1>3, <1>4, SameKept
<1>6. yearly' = yearly
  BY <1>1, <1>2, <1>5, RegisteredAgain
<1> QED BY <1>2, <1>5, <1>6

LEMMA ChangeYearInd ==
  ASSUME PitTypeOK, Exact(pitLines, pitPayments, yearly), PitKept(pitLines, pitPayments),
         NEW v \in PitPayment, NEW y \in CalendarYear, ChangeYear(v, y), pitHistory' \subseteq {"joined"}
  PROVE  Exact(pitLines', pitPayments', yearly') /\ PitKept(pitLines', pitPayments')
<1>1. pitLines' = pitLines /\ yearly' = yearly /\ pitPayments' = [pitPayments EXCEPT ![v].year = y]
  BY DEF ChangeYear
<1>2. \A u \in PitPayment : /\ u # v => pitPayments'[u].year = pitPayments[u].year
                            /\ pitPayments'[u].state = pitPayments[u].state
  BY <1>1, YearTyped
<1>3. pitLines \in Seq(PitLine) /\ \A k \in DOMAIN pitLines : pitLines[k].payment \in PitPayment
  BY LinesTypes
<1>4. \A k \in DOMAIN pitLines : pitLines[k].posted => pitLines[k].payment # v
  BY DEF ChangeYear, LinesOfPayment
<1>5. SamePosted(pitLines, pitPayments, pitLines, pitPayments')
  BY <1>2, <1>3, <1>4 DEF SamePosted
<1>6. Exact(pitLines', pitPayments', yearly')
  BY <1>1, <1>3, <1>5, SameExact
<1> QED BY <1>1, <1>2, <1>6 DEF PitKept

\* Registers do not depend on the states of payments.
LEMMA StateExact ==
  ASSUME PitTypeOK, NEW v \in PitPayment, NEW st \in {"draft", "posted", "cancel", "deleted"},
         pitPayments' = [pitPayments EXCEPT ![v].state = st],
         NEW ls \in Seq(PitLine), NEW registers, Exact(ls, pitPayments, registers)
  PROVE  Exact(ls, pitPayments', registers)
<1>1. \A u \in PitPayment : pitPayments'[u].year = pitPayments[u].year
  BY StateTyped
<1>2. \A k \in DOMAIN ls : ls[k].payment \in PitPayment
  BY LinesTyped
<1>3. SamePosted(ls, pitPayments, ls, pitPayments')
  BY <1>1, <1>2 DEF SamePosted
<1> QED BY <1>3, SameExact

LEMMA DraftAgainInd ==
  ASSUME PitTypeOK, Exact(pitLines, pitPayments, yearly), PitKept(pitLines, pitPayments),
         NEW v \in PitPayment, DraftAgain(v)
  PROVE  Exact(pitLines', pitPayments', yearly') /\ PitKept(pitLines', pitPayments')
<1>1. pitLines' = pitLines /\ yearly' = yearly
      /\ pitPayments' = [pitPayments EXCEPT ![v].state = "draft"] /\ pitPayments[v].state = "cancel"
  BY DEF DraftAgain
<1>2. \A u \in PitPayment :
        pitPayments'[u].state = IF u = v THEN "draft" ELSE pitPayments[u].state
  BY <1>1, StateTyped
<1>3. pitLines \in Seq(PitLine)
  BY LinesTypes
<1>4. Exact(pitLines', pitPayments', yearly')
  BY <1>1, <1>3, StateExact
<1> QED BY <1>1, <1>2, <1>4 DEF PitKept

LEMMA PostPitInd ==
  ASSUME PitTypeOK, Exact(pitLines, pitPayments, yearly), PitKept(pitLines, pitPayments),
         NEW v \in PitPayment, PostPit(v), pitHistory' \subseteq {"joined"}
  PROVE  /\ Exact(pitLines', pitPayments', yearly') /\ PitKept(pitLines', pitPayments')
         /\ AllPosted(pitLines, pitPayments) => AllPosted(pitLines', pitPayments')
<1> DEFINE K == LinesOfPayment(v)
           posting == PostedInOrder(K, FALSE)
           L == Len(pitLines)
<1>1. /\ pitLines' = posting.lines /\ yearly' = posting.registers /\ posting.valid
      /\ pitPayments' = [pitPayments EXCEPT ![v].state = "posted"]
  BY DEF PostPit, Conclude
<1>2. pitLines \in Seq(PitLine) /\ L \in Nat /\ DOMAIN pitLines = 1 .. L /\ K \in SUBSET DOMAIN pitLines
  BY LinesTypes, LinesTyped
<1>3. \A k \in K : ~pitLines[k].posted \/ AsShown(pitLines[k])
  <2>1. CASE pitPayments[v].state = "draft"
    BY <2>1 DEF PostPit
  <2>2. CASE pitPayments[v].state = "posted"
    BY <2>2 DEF PitKept, AllShown, LinesOfPayment
  <2> QED BY <2>1, <2>2 DEF PostPit
<1>4. \A k \in DOMAIN pitLines : k \in K <=> pitLines[k].payment = v
  BY DEF LinesOfPayment
<1> HIDE DEF K
<1>5. PostStage(posting, L, K)
  BY <1>2, PostAll
<1>6. Proper(posting) /\ DOMAIN posting.lines = DOMAIN pitLines
      /\ \A k \in DOMAIN pitLines :
           /\ posting.lines[k].payment = pitLines[k].payment
           /\ k \notin K => posting.lines[k] = pitLines[k]
  BY <1>5 DEF PostStage
<1>7. Exact(posting.lines, pitPayments, posting.registers) /\ \A k \in K : AsShown(posting.lines[k])
  <2>1. \A k \in K : k <= L
    BY <1>2
  <2> QED BY <1>1, <1>3, <1>5, <2>1 DEF PostStage
<1> HIDE DEF posting
<1>8. pitLines' \in Seq(PitLine) /\ Exact(pitLines', pitPayments, yearly')
  BY <1>1, <1>6, <1>7 DEF Proper
<1>9. Exact(pitLines', pitPayments', yearly')
  BY <1>1, <1>8, StateExact
<1>10. /\ DOMAIN pitLines' = DOMAIN pitLines
       /\ \A k \in DOMAIN pitLines : /\ pitLines'[k].payment = pitLines[k].payment
                                     /\ k \notin K => pitLines'[k] = pitLines[k]
       /\ \A k \in K : AsShown(pitLines'[k])
  BY <1>1, <1>6, <1>7
<1>11. \A u \in PitPayment :
         pitPayments'[u].state = IF u = v THEN "posted" ELSE pitPayments[u].state
  BY <1>1, StateTyped
<1>12. ASSUME NEW u \in PitPayment
       PROVE  IF pitPayments'[u].state = "posted" THEN AllShown(pitLines', u) ELSE Undone(pitLines', u)
  <2>1. CASE u = v
    BY <1>4, <1>10, <1>11, <2>1 DEF AllShown
  <2>2. CASE u # v /\ pitPayments[u].state = "posted"
    <3>1. AllShown(pitLines, u)
      BY <2>2 DEF PitKept
    <3>2. AllShown(pitLines', u)
      BY <1>4, <1>10, <2>2, <3>1 DEF AllShown
    <3> QED BY <1>11, <2>2, <3>2
  <2>3. CASE u # v /\ pitPayments[u].state # "posted"
    <3>1. Undone(pitLines, u)
      BY <2>3 DEF PitKept
    <3>2. SamePostedOf(pitLines, pitLines', u)
      BY <1>4, <1>10, <2>3 DEF SamePostedOf
    <3>3. Undone(pitLines', u)
      BY <1>2, <1>8, <3>1, <3>2, SameUndone
    <3> QED BY <1>11, <2>3, <3>3
  <2> QED BY <2>1, <2>2, <2>3
<1>13. ASSUME AllPosted(pitLines, pitPayments) PROVE AllPosted(pitLines', pitPayments')
  <2> SUFFICES ASSUME NEW k \in DOMAIN pitLines', pitPayments'[pitLines'[k].payment].state = "posted"
               PROVE  pitLines'[k].posted
    BY DEF AllPosted
  <2>1. CASE k \in K
    BY <1>10, <2>1 DEF AsShown
  <2>2. CASE k \notin K
    <3>1. k \in DOMAIN pitLines /\ pitLines'[k] = pitLines[k] /\ pitLines[k].payment # v
      BY <1>4, <1>10, <2>2
    <3>2. pitLines[k].payment \in PitPayment
      BY <3>1, LinesTypes
    <3> QED BY <1>11, <1>13, <3>1, <3>2 DEF AllPosted
  <2> QED BY <2>1, <2>2
<1> QED BY <1>9, <1>12, <1>13 DEF PitKept

LEMMA CancelPitInd ==
  ASSUME PitTypeOK, Exact(pitLines, pitPayments, yearly), PitKept(pitLines, pitPayments),
         NEW v \in PitPayment, CancelPit(v)
  PROVE  /\ Exact(pitLines', pitPayments', yearly') /\ PitKept(pitLines', pitPayments')
         /\ AllPosted(pitLines, pitPayments) => AllPosted(pitLines', pitPayments')
<1> DEFINE K == {k \in LinesOfPayment(v) : pitLines[k].posted}
           posting == PostedInOrder(K, TRUE)
           L == Len(pitLines)
<1>1. /\ pitLines' = posting.lines /\ yearly' = posting.registers /\ posting.valid
      /\ pitPayments' = [pitPayments EXCEPT ![v].state = "cancel"] /\ pitPayments[v].state = "posted"
  BY DEF CancelPit, Conclude
<1>2. pitLines \in Seq(PitLine) /\ L \in Nat /\ DOMAIN pitLines = 1 .. L /\ K \in SUBSET DOMAIN pitLines
      /\ \A k \in K : pitLines[k].payment = v
  BY LinesTypes, LinesTyped
<1>3. /\ \A k \in K : AsShown(pitLines[k])
      /\ \A k \in DOMAIN pitLines : k \in K <=> pitLines[k].payment = v /\ pitLines[k].posted
  <2>1. AllShown(pitLines, v)
    BY <1>1 DEF PitKept
  <2> QED BY <2>1 DEF AllShown, AsShown, LinesOfPayment
<1> HIDE DEF K
<1>4. MirrorStage(posting, L, K, v)
  BY <1>2, MirrorAll
<1>5. /\ Proper(posting) /\ DOMAIN pitLines \subseteq DOMAIN posting.lines
      /\ \A k \in DOMAIN pitLines : posting.lines[k] = pitLines[k]
      /\ \A k \in DOMAIN posting.lines \ DOMAIN pitLines :
           posting.lines[k].payment = v /\ posting.lines[k].posted
  BY <1>4 DEF MirrorStage
<1>6. /\ Exact(posting.lines, pitPayments, posting.registers)
      /\ \A k \in DOMAIN posting.lines \ DOMAIN pitLines : posting.lines[k].wht = 0
      /\ \A k \in K : k <= L => pitLines[k].wht = 0
      /\ \A s \in Supplier : IncomeOf(posting.lines, Added(posting.lines, s))
                               + IncomeOf(pitLines, UpToLine(K, L, s)) = 0
  BY <1>1, <1>3, <1>4 DEF MirrorStage
<1> HIDE DEF posting
<1>7. pitLines' \in Seq(PitLine) /\ Exact(pitLines', pitPayments, yearly')
  BY <1>1, <1>5, <1>6 DEF Proper
<1>8. Exact(pitLines', pitPayments', yearly')
  BY <1>1, <1>7, StateExact
<1>9. /\ DOMAIN pitLines \subseteq DOMAIN pitLines'
      /\ \A k \in DOMAIN pitLines : pitLines'[k] = pitLines[k]
      /\ \A k \in DOMAIN pitLines' \ DOMAIN pitLines :
           pitLines'[k].payment = v /\ pitLines'[k].posted /\ pitLines'[k].wht = 0
      /\ \A k \in K : k <= L => pitLines[k].wht = 0
      /\ \A s \in Supplier : IncomeOf(pitLines', Added(pitLines', s))
                               + IncomeOf(pitLines, UpToLine(K, L, s)) = 0
  BY <1>1, <1>5, <1>6
<1>10. \A u \in PitPayment :
         pitPayments'[u].state = IF u = v THEN "cancel" ELSE pitPayments[u].state
  BY <1>1, StateTyped
<1>11. Undone(pitLines', v)
  <2>1. \A k \in DOMAIN pitLines' : pitLines'[k].payment = v /\ pitLines'[k].posted => pitLines'[k].wht = 0
    <3> SUFFICES ASSUME NEW k \in DOMAIN pitLines', pitLines'[k].payment = v, pitLines'[k].posted
                 PROVE  pitLines'[k].wht = 0
      OBVIOUS
    <3>1. CASE k \in DOMAIN pitLines
      <4>1. k \in K /\ k <= L /\ pitLines'[k] = pitLines[k]
        BY <1>2, <1>3, <1>9, <3>1
      <4> QED BY <1>9, <4>1
    <3>2. CASE k \notin DOMAIN pitLines
      BY <1>9, <3>2
    <3> QED BY <3>1, <3>2
  <2>2. ASSUME NEW s \in Supplier PROVE IncomeOf(pitLines', PostedOf(pitLines', v, s)) = 0
    <3> DEFINE S == PostedOf(pitLines', v, s)
               A == Added(pitLines', s)
               U == UpToLine(K, L, s)
    <3>1. A \in SUBSET S /\ S \in SUBSET DOMAIN pitLines'
      BY <1>9 DEF Added, PostedOf
    <3>2. S \ A = U
      <4>1. \A k : k \in S \ A => k \in U
        <5> SUFFICES ASSUME NEW k, k \in S, k \notin A PROVE k \in U
          OBVIOUS
        <5>1. /\ k \in DOMAIN pitLines' /\ pitLines'[k].payment = v
              /\ pitLines'[k].supplier = s /\ pitLines'[k].posted
          BY DEF PostedOf
        <5>2. k \in DOMAIN pitLines /\ pitLines'[k] = pitLines[k]
          BY <1>9, <5>1 DEF Added
        <5>3. k \in K /\ k <= L
          BY <1>2, <1>3, <5>1, <5>2
        <5> QED BY <5>1, <5>2, <5>3 DEF UpToLine
      <4>2. \A k : k \in U => k \in S \ A
        <5> SUFFICES ASSUME NEW k, k \in U PROVE k \in S /\ k \notin A
          OBVIOUS
        <5>1. k \in K /\ pitLines[k].supplier = s /\ k \in DOMAIN pitLines
          BY <1>2 DEF UpToLine
        <5>2. pitLines[k].posted /\ pitLines[k].payment = v
          BY <1>3, <5>1 DEF AsShown
        <5>3. k \in DOMAIN pitLines' /\ pitLines'[k] = pitLines[k]
          BY <1>9, <5>1
        <5> QED BY <5>1, <5>2, <5>3 DEF PostedOf, Added
      <4> HIDE DEF S, A, U
      <4> QED BY <3>1, <4>1, <4>2
    <3>3. U \in SUBSET DOMAIN pitLines /\ U \in SUBSET DOMAIN pitLines'
          /\ \A k \in U : pitLines'[k].income = pitLines[k].income /\ pitLines'[k].wht = pitLines[k].wht
      BY <1>2, <1>9 DEF UpToLine
    <3>4. IncomeOf(pitLines', A) + IncomeOf(pitLines, U) = 0
      BY <1>9
    <3> HIDE DEF S, A, U
    <3>5. IncomeOf(pitLines', S) = IncomeOf(pitLines', A) + IncomeOf(pitLines', S \ A)
      BY <1>7, <3>1, LinesSplit
    <3>6. IncomeOf(pitLines', U) = IncomeOf(pitLines, U)
      BY <1>2, <1>7, <3>3, SumsAsBefore
    <3>7. IncomeOf(pitLines', S) = 0
      BY <3>2, <3>4, <3>5, <3>6
    <3> QED BY <3>7 DEF S
  <2> QED BY <2>1, <2>2 DEF Undone
<1>12. ASSUME NEW u \in PitPayment
       PROVE  IF pitPayments'[u].state = "posted" THEN AllShown(pitLines', u) ELSE Undone(pitLines', u)
  <2>1. CASE u = v
    BY <1>10, <1>11, <2>1
  <2>2. CASE u # v /\ pitPayments[u].state = "posted"
    <3>1. AllShown(pitLines, u)
      BY <2>2 DEF PitKept
    <3>2. AllShown(pitLines', u)
      BY <1>9, <2>2, <3>1 DEF AllShown
    <3> QED BY <1>10, <2>2, <3>2
  <2>3. CASE u # v /\ pitPayments[u].state # "posted"
    <3>1. Undone(pitLines, u)
      BY <2>3 DEF PitKept
    <3>2. SamePostedOf(pitLines, pitLines', u)
      BY <1>9, <2>3 DEF SamePostedOf
    <3>3. Undone(pitLines', u)
      BY <1>2, <1>7, <3>1, <3>2, SameUndone
    <3> QED BY <1>10, <2>3, <3>3
  <2> QED BY <2>1, <2>2, <2>3
<1>13. ASSUME AllPosted(pitLines, pitPayments) PROVE AllPosted(pitLines', pitPayments')
  <2> SUFFICES ASSUME NEW k \in DOMAIN pitLines', pitPayments'[pitLines'[k].payment].state = "posted"
               PROVE  pitLines'[k].posted
    BY DEF AllPosted
  <2>1. CASE k \in DOMAIN pitLines
    <3>1. pitLines'[k] = pitLines[k] /\ pitLines[k].payment \in PitPayment
      BY <1>9, <2>1, LinesTypes
    <3> QED BY <1>10, <1>13, <2>1, <3>1 DEF AllPosted
  <2>2. CASE k \notin DOMAIN pitLines
    BY <1>9, <2>2
  <2> QED BY <2>1, <2>2
<1> QED BY <1>8, <1>12, <1>13 DEF PitKept

\* Where lines are removed, registers are the sums of those that are left,
LEMMA RemovedReg ==
  ASSUME NEW ls \in Seq(PitLine), NEW K \in SUBSET DOMAIN ls, NEW new, NEW f,
         Shifted(f, ls, K, new), NEW pay, NEW s, NEW y
  PROVE  LET B == BookedIn(ls, pay, s, y) \ K
         IN  Reg(new, pay, s, y) = [income |-> IncomeOf(ls, B), wht |-> WithheldOf(ls, B)]
<1> DEFINE B == BookedIn(ls, pay, s, y) \ K
           T == BookedIn(new, pay, s, y)
<1>1. B \in SUBSET (DOMAIN ls \ K) /\ T \in SUBSET DOMAIN new
  BY DEF BookedIn
<1>2. \A k \in B : f[k] \in T
  BY DEF BookedIn, Shifted
<1>3. \A n \in T : \E k \in B : f[k] = n
  <2> TAKE n \in T
  <2>1. n \in DOMAIN new
    BY <1>1
  <2>2. PICK k \in DOMAIN ls \ K : f[k] = n
    BY <2>1 DEF Shifted
  <2>3. new[n] = ls[k]
    BY <2>2 DEF Shifted
  <2>4. k \in B
    BY <2>3 DEF BookedIn
  <2> QED BY <2>2, <2>4
<1> HIDE DEF B, T
<1>4. IncomeOf(new, T) = IncomeOf(ls, B) /\ WithheldOf(new, T) = WithheldOf(ls, B)
  BY <1>1, <1>2, <1>3, ShiftedSums
<1> QED BY <1>4 DEF Reg, B, T

\* and payments that lose no posted line are posted or undone as before.
LEMMA RemovedKept ==
  ASSUME NEW ls \in Seq(PitLine), NEW K \in SUBSET DOMAIN ls, NEW new, NEW f,
         Shifted(f, ls, K, new), NEW v
  PROVE  /\ AllShown(ls, v) => AllShown(new, v)
         /\ Undone(ls, v) /\ (\A k \in K : ~(ls[k].posted /\ ls[k].payment = v)) => Undone(new, v)
<1>1. \A n \in DOMAIN new : \E k \in DOMAIN ls \ K : f[k] = n /\ new[n] = ls[k]
  <2> TAKE n \in DOMAIN new
  <2>1. PICK k \in DOMAIN ls \ K : f[k] = n
    BY DEF Shifted
  <2>2. new[f[k]] = ls[k]
    BY DEF Shifted
  <2> QED BY <2>1, <2>2
<1>2. AllShown(ls, v) => AllShown(new, v)
  BY <1>1 DEF AllShown
<1>3. ASSUME Undone(ls, v), \A k \in K : ~(ls[k].posted /\ ls[k].payment = v)
      PROVE  Undone(new, v)
  <2>1. \A n \in DOMAIN new : new[n].payment = v /\ new[n].posted => new[n].wht = 0
    BY <1>1, <1>3 DEF Undone
  <2>2. ASSUME NEW s \in Supplier PROVE IncomeOf(new, PostedOf(new, v, s)) = 0
    <3> DEFINE B == PostedOf(ls, v, s)
               T == PostedOf(new, v, s)
    <3>1. B \in SUBSET (DOMAIN ls \ K) /\ T \in SUBSET DOMAIN new
      BY <1>3 DEF PostedOf
    <3>2. \A k \in B : f[k] \in T
      BY <3>1 DEF PostedOf, Shifted
    <3>3. \A n \in T : \E k \in B : f[k] = n
      <4> TAKE n \in T
      <4>1. PICK k \in DOMAIN ls \ K : f[k] = n /\ new[n] = ls[k]
        BY <1>1, <3>1
      <4>2. k \in B
        BY <4>1 DEF PostedOf
      <4> QED BY <4>1, <4>2
    <3>4. IncomeOf(ls, B) = 0
      BY <1>3 DEF Undone
    <3> HIDE DEF B, T
    <3>5. IncomeOf(new, T) = IncomeOf(ls, B)
      BY <3>1, <3>2, <3>3, ShiftedSums
    <3> QED BY <3>4, <3>5 DEF T
  <2> QED BY <2>1, <2>2 DEF Undone
<1> QED BY <1>2, <1>3

\* A line that is not posted is not missed,
LEMMA UnpostedRemoved ==
  ASSUME PitTypeOK, Exact(pitLines, pitPayments, yearly), PitKept(pitLines, pitPayments),
         NEW k \in DOMAIN pitLines, ~pitLines[k].posted
  PROVE  /\ Without({k}) \in Seq(PitLine)
         /\ Exact(Without({k}), pitPayments, yearly) /\ PitKept(Without({k}), pitPayments)
<1> DEFINE K == {k}
           W == Without(K)
<1>1. pitLines \in Seq(PitLine) /\ K \in SUBSET DOMAIN pitLines /\ \A j \in K : ~pitLines[j].posted
  BY LinesTypes
<1> HIDE DEF K
<1>2. PICK f : Shifted(f, pitLines, K, W)
  BY <1>1, WithoutShifts
<1> HIDE DEF W
<1>3. ASSUME NEW s, NEW y PROVE Reg(W, pitPayments, s, y) = Reg(pitLines, pitPayments, s, y)
  <2>1. BookedIn(pitLines, pitPayments, s, y) \ K = BookedIn(pitLines, pitPayments, s, y)
    BY <1>1 DEF BookedIn
  <2> QED BY <1>1, <1>2, <2>1, RemovedReg DEF Reg
<1>4. Exact(W, pitPayments, yearly)
  BY <1>3 DEF Exact
<1>5. ASSUME NEW u \in PitPayment
      PROVE  IF pitPayments[u].state = "posted" THEN AllShown(W, u) ELSE Undone(W, u)
  BY <1>1, <1>2, RemovedKept DEF PitKept
<1>6. W \in Seq(PitLine)
  BY <1>2 DEF Shifted
<1> QED BY <1>4, <1>5, <1>6 DEF PitKept, W, K

LEMMA UnlinkLineInd ==
  ASSUME PitTypeOK, Exact(pitLines, pitPayments, yearly), PitKept(pitLines, pitPayments),
         NEW k \in DOMAIN pitLines, UnlinkLine(k)
  PROVE  Exact(pitLines', pitPayments', yearly') /\ PitKept(pitLines', pitPayments')
<1>1. /\ pitLines' = Without({k}) /\ pitPayments' = pitPayments /\ yearly' = yearly
      /\ ~pitLines[k].posted
  BY DEF UnlinkLine
<1> QED BY <1>1, UnpostedRemoved

\* nor noticed in another payment.
LEMMA EditInSupplierFormInd ==
  ASSUME PitTypeOK, Exact(pitLines, pitPayments, yearly), PitKept(pitLines, pitPayments),
         NEW k \in DOMAIN pitLines, NEW v \in PitPayment, NEW income \in Income,
         EditInSupplierForm(k, v, income)
  PROVE  Exact(pitLines', pitPayments', yearly') /\ PitKept(pitLines', pitPayments')
<1> DEFINE line == [pitLines[k] EXCEPT !.payment = v, !.income = income]
           s == pitLines[k].supplier
           y == pitPayments[v].year
           W == Without({k})
<1>1. /\ line \in PitLine /\ line.posted = FALSE /\ pitLines[k].posted = FALSE
      /\ s \in Supplier /\ y \in CalendarYear
      /\ pitLines' = [pitLines EXCEPT ![k] = line] \/ pitLines' = Append(W, line)
      /\ pitLines' \in Seq(PitLine)
      /\ yearly' = Registered(yearly, pitLines', s, y)
      /\ pitPayments' = pitPayments
  BY EditInSupplierFormDoes
<1>2. pitLines \in Seq(PitLine)
  BY LinesTypes
<1> HIDE DEF line, s, y
<1>3. Exact(pitLines', pitPayments, yearly) /\ PitKept(pitLines', pitPayments)
  <2>1. CASE pitLines' = [pitLines EXCEPT ![k] = line]
    <3>1. /\ DOMAIN pitLines' = DOMAIN pitLines /\ pitLines'[k] = line
          /\ \A j \in DOMAIN pitLines : j # k => pitLines'[j] = pitLines[j]
      BY <1>2, <2>1
    <3>2. SamePosted(pitLines, pitPayments, pitLines', pitPayments)
      BY <1>1, <3>1 DEF SamePosted
    <3> QED BY <1>1, <1>2, <3>2, SameKept
  <2>2. CASE pitLines' = Append(W, line)
    <3>1. W \in Seq(PitLine) /\ Exact(W, pitPayments, yearly) /\ PitKept(W, pitPayments)
      BY <1>1, UnpostedRemoved
    <3> HIDE DEF W, PitLine
    <3>2. /\ Len(W) \in Nat /\ DOMAIN W = 1 .. Len(W) /\ DOMAIN pitLines' = 1 .. Len(W) + 1
          /\ pitLines'[Len(W) + 1] = line /\ \A j \in DOMAIN W : pitLines'[j] = W[j]
      BY <1>1, <2>2, <3>1
    <3>3. SamePosted(W, pitPayments, pitLines', pitPayments)
      BY <1>1, <3>2 DEF SamePosted
    <3> QED BY <1>1, <3>1, <3>3, SameKept
  <2> QED BY <1>1, <2>1, <2>2
<1>4. yearly' = yearly
  BY <1>1, <1>3, RegisteredAgain
<1> QED BY <1>1, <1>3, <1>4

LEMMA DeletePitPaymentInd ==
  ASSUME PitTypeOK, Exact(pitLines, pitPayments, yearly), PitKept(pitLines, pitPayments),
         NEW v \in PitPayment, DeletePitPayment(v)
  PROVE  Exact(pitLines', pitPayments', yearly') /\ PitKept(pitLines', pitPayments')
<1> DEFINE K == LinesOfPayment(v)
<1>1. /\ pitLines' = Without(K) /\ yearly' = yearly /\ pitPayments[v].state # "posted"
      /\ pitPayments' = [pitPayments EXCEPT ![v].state = "deleted"]
  BY DEF DeletePitPayment
<1>2. pitLines \in Seq(PitLine) /\ K \in SUBSET DOMAIN pitLines
      /\ \A k \in DOMAIN pitLines : k \in K <=> pitLines[k].payment = v
  BY LinesTypes DEF LinesOfPayment
<1> HIDE DEF K
<1>3. PICK f : Shifted(f, pitLines, K, pitLines')
  BY <1>1, <1>2, WithoutShifts
<1>4. Undone(pitLines, v)
  BY <1>1 DEF PitKept
<1>5. ASSUME NEW s \in Supplier, NEW y \in CalendarYear
      PROVE  Reg(pitLines', pitPayments, s, y) = Reg(pitLines, pitPayments, s, y)
  <2> DEFINE B == BookedIn(pitLines, pitPayments, s, y)
             T == B \cap K
  <2>1. B \in SUBSET DOMAIN pitLines /\ T \in SUBSET B /\ T \in SUBSET DOMAIN pitLines /\ B \ T = B \ K
    BY DEF BookedIn
  <2>2. IncomeOf(pitLines, T) = 0
    <3>1. CASE pitPayments[v].year = y
      <4>1. \A k : k \in T => k \in PostedOf(pitLines, v, s)
        BY <1>2 DEF BookedIn, PostedOf
      <4>2. \A k : k \in PostedOf(pitLines, v, s) => k \in T
        BY <1>2, <3>1 DEF BookedIn, PostedOf
      <4> HIDE DEF B, T
      <4>3. T = PostedOf(pitLines, v, s)
        BY <4>1, <4>2
      <4> QED BY <1>4, <4>3 DEF Undone
    <3>2. CASE pitPayments[v].year # y
      <4>1. T = {}
        BY <1>2, <3>2 DEF BookedIn
      <4> HIDE DEF T
      <4> QED BY <4>1, SumEmpty DEF IncomeOf
    <3> QED BY <3>1, <3>2
  <2>3. \A k \in T : pitLines[k].wht = 0
    BY <1>2, <1>4 DEF Undone, BookedIn
  <2> HIDE DEF B, T
  <2>4. WithheldOf(pitLines, T) = 0
    BY <1>2, <2>1, <2>3, NoneWithheld
  <2>5. /\ IncomeOf(pitLines, B) = IncomeOf(pitLines, T) + IncomeOf(pitLines, B \ K)
        /\ WithheldOf(pitLines, B) = WithheldOf(pitLines, T) + WithheldOf(pitLines, B \ K)
    BY <1>2, <2>1, LinesSplit
  <2>6. B \ K \in SUBSET DOMAIN pitLines
    BY <2>1
  <2>7. IncomeOf(pitLines, B \ K) \in Int /\ WithheldOf(pitLines, B \ K) \in Int
    BY <1>2, <2>6, SumsTyped
  <2>8. IncomeOf(pitLines, B) = IncomeOf(pitLines, B \ K) /\ WithheldOf(pitLines, B) = WithheldOf(pitLines, B \ K)
    BY <2>2, <2>4, <2>5, <2>7
  <2>9. Reg(pitLines', pitPayments, s, y)
          = [income |-> IncomeOf(pitLines, B \ K), wht |-> WithheldOf(pitLines, B \ K)]
    BY <1>2, <1>3, RemovedReg DEF B
  <2> QED BY <2>8, <2>9 DEF Reg, B
<1>6. pitLines' \in Seq(PitLine) /\ Exact(pitLines', pitPayments, yearly)
  BY <1>3, <1>5 DEF Exact, Shifted
<1>7. Exact(pitLines', pitPayments', yearly')
  BY <1>1, <1>6, StateExact
<1>8. \A u \in PitPayment :
        pitPayments'[u].state = IF u = v THEN "deleted" ELSE pitPayments[u].state
  BY <1>1, StateTyped
<1>9. \A n \in DOMAIN pitLines' : pitLines'[n].payment # v
  <2> TAKE n \in DOMAIN pitLines'
  <2>1. PICK k \in DOMAIN pitLines \ K : f[k] = n
    BY <1>3 DEF Shifted
  <2>2. pitLines'[n] = pitLines[k]
    BY <1>3, <2>1 DEF Shifted
  <2> QED BY <1>2, <2>1, <2>2
<1>10. ASSUME NEW u \in PitPayment
       PROVE  IF pitPayments'[u].state = "posted" THEN AllShown(pitLines', u) ELSE Undone(pitLines', u)
  <2>1. CASE u = v
    <3>1. \A s \in Supplier : PostedOf(pitLines', v, s) = {}
      BY <1>9 DEF PostedOf
    <3>2. IncomeOf(pitLines', {}) = 0
      BY SumEmpty DEF IncomeOf
    <3>3. Undone(pitLines', v)
      BY <1>9, <3>1, <3>2 DEF Undone
    <3> QED BY <1>8, <2>1, <3>3
  <2>2. CASE u # v
    <3>1. \A k \in K : ~(pitLines[k].posted /\ pitLines[k].payment = u)
      BY <1>2, <2>2
    <3>2. IF pitPayments[u].state = "posted" THEN AllShown(pitLines, u) ELSE Undone(pitLines, u)
      BY DEF PitKept
    <3>3. IF pitPayments[u].state = "posted" THEN AllShown(pitLines', u) ELSE Undone(pitLines', u)
      BY <1>2, <1>3, <3>1, <3>2, RemovedKept
    <3> QED BY <1>8, <2>2, <3>3
  <2> QED BY <2>1, <2>2
<1> QED BY <1>7, <1>10 DEF PitKept

\* Where no line joins a payment that is posted, all of its lines stay posted.
LEMMA AllPostedStep ==
  ASSUME PitInd, [PitNext]_pitVars, pitHistory = {}, pitHistory' = {}
  PROVE  AllPosted(pitLines', pitPayments')
<1>1. /\ PitTypeOK /\ Exact(pitLines, pitPayments, yearly) /\ PitKept(pitLines, pitPayments)
      /\ AllPosted(pitLines, pitPayments)
  BY DEF PitInd
<1>2. pitLines \in Seq(PitLine) /\ \A k \in DOMAIN pitLines : pitLines[k].payment \in PitPayment
  BY <1>1, LinesTypes
<1>3. ASSUME NEW K \in SUBSET DOMAIN pitLines
      PROVE  /\ Without(K) \in Seq(PitLine)
             /\ \A n \in DOMAIN Without(K) : \E k \in DOMAIN pitLines \ K : Without(K)[n] = pitLines[k]
  <2>1. PICK f : Shifted(f, pitLines, K, Without(K))
    BY <1>2, WithoutShifts
  <2> QED BY <2>1 DEF Shifted
<1>4. ASSUME NEW v \in PitPayment, NEW s \in Supplier, NEW income \in Income, AddLine(v, s, income)
      PROVE  AllPosted(pitLines', pitPayments')
  <2>1. PICK m : /\ DOMAIN pitLines' = DOMAIN pitLines \cup {m} /\ pitLines'[m].payment = v
                 /\ \A k \in DOMAIN pitLines : pitLines'[k] = pitLines[k]
    BY <1>1, <1>4, AddLineDoes
  <2>2. pitPayments' = pitPayments /\ pitPayments[v].state = "draft"
    BY <1>4 DEF AddLine
  <2> QED BY <1>1, <2>1, <2>2 DEF AllPosted
<1>5. ASSUME NEW v \in PitPayment, NEW y \in CalendarYear, ChangeYear(v, y)
      PROVE  AllPosted(pitLines', pitPayments')
  <2>1. pitLines' = pitLines /\ \A u \in PitPayment : pitPayments'[u].state = pitPayments[u].state
    BY <1>1, <1>5, YearTyped DEF ChangeYear
  <2> QED BY <1>1, <1>2, <2>1 DEF AllPosted
<1>6. ASSUME NEW v \in PitPayment, PostPit(v) PROVE AllPosted(pitLines', pitPayments')
  BY <1>1, <1>6, PostPitInd
<1>7. ASSUME NEW v \in PitPayment, CancelPit(v) PROVE AllPosted(pitLines', pitPayments')
  BY <1>1, <1>7, CancelPitInd
<1>8. ASSUME NEW v \in PitPayment, DraftAgain(v) PROVE AllPosted(pitLines', pitPayments')
  <2>1. pitLines' = pitLines /\ pitPayments' = [pitPayments EXCEPT ![v].state = "draft"]
    BY <1>8 DEF DraftAgain
  <2>2. \A u \in PitPayment : pitPayments'[u].state = IF u = v THEN "draft" ELSE pitPayments[u].state
    BY <1>1, <2>1, StateTyped
  <2> QED BY <1>1, <1>2, <2>1, <2>2 DEF AllPosted
<1>9. ASSUME NEW v \in PitPayment, DeletePitPayment(v) PROVE AllPosted(pitLines', pitPayments')
  <2> DEFINE K == LinesOfPayment(v)
  <2>1. pitLines' = Without(K) /\ pitPayments' = [pitPayments EXCEPT ![v].state = "deleted"]
    BY <1>9 DEF DeletePitPayment
  <2>2. \A u \in PitPayment :
          pitPayments'[u].state = IF u = v THEN "deleted" ELSE pitPayments[u].state
    BY <1>1, <2>1, StateTyped
  <2>3. K \in SUBSET DOMAIN pitLines
    BY <1>1, LinesTypes
  <2> HIDE DEF K
  <2>4. \A n \in DOMAIN pitLines' : \E k \in DOMAIN pitLines : pitLines'[n] = pitLines[k]
    BY <1>3, <2>1, <2>3
  <2> QED BY <1>1, <1>2, <2>2, <2>4 DEF AllPosted
<1>10. ASSUME NEW k \in DOMAIN pitLines, NEW s \in Supplier, NEW income \in Income, EditPitLine(k, s, income)
       PROVE  AllPosted(pitLines', pitPayments')
  <2>1. /\ DOMAIN pitLines' = DOMAIN pitLines
        /\ \A j \in DOMAIN pitLines : j # k => pitLines'[j] = pitLines[j]
        /\ pitLines'[k].payment = pitLines[k].payment /\ pitLines'[k].posted = pitLines[k].posted
    BY <1>1, <1>10, EditPitLineDoes
  <2>2. pitPayments' = pitPayments
    BY <1>10 DEF EditPitLine
  <2> QED BY <1>1, <2>1, <2>2 DEF AllPosted
<1>11. ASSUME NEW k \in DOMAIN pitLines, UnlinkLine(k) PROVE AllPosted(pitLines', pitPayments')
  <2>1. pitLines' = Without({k}) /\ pitPayments' = pitPayments
    BY <1>11 DEF UnlinkLine
  <2>2. {k} \in SUBSET DOMAIN pitLines
    OBVIOUS
  <2>3. \A n \in DOMAIN pitLines' : \E j \in DOMAIN pitLines : pitLines'[n] = pitLines[j]
    BY <1>3, <2>1, <2>2
  <2> QED BY <1>1, <2>1, <2>3 DEF AllPosted
<1>12. ASSUME NEW k \in DOMAIN pitLines, NEW v \in PitPayment, NEW income \in Income,
              EditInSupplierForm(k, v, income)
       PROVE  AllPosted(pitLines', pitPayments')
  <2> DEFINE line == [pitLines[k] EXCEPT !.payment = v, !.income = income]
  <2>1. /\ line \in PitLine
        /\ pitLines' = [pitLines EXCEPT ![k] = line] \/ pitLines' = Append(Without({k}), line)
        /\ pitPayments' = pitPayments /\ pitPayments[v].state # "posted"
    BY <1>1, <1>12, EditInSupplierFormDoes
  <2>2. line.payment = v
    <3>1. pitLines[k] \in PitLine
      BY <1>2, LinesTyped
    <3> QED BY <3>1 DEF PitLine
  <2> HIDE DEF line, PitLine
  <2>3. \A n \in DOMAIN pitLines' :
          pitLines'[n] = line \/ \E j \in DOMAIN pitLines : pitLines'[n] = pitLines[j]
    <3>1. CASE pitLines' = [pitLines EXCEPT ![k] = line]
      BY <3>1
    <3>2. CASE pitLines' = Append(Without({k}), line)
      <4>1. {k} \in SUBSET DOMAIN pitLines
        OBVIOUS
      <4> DEFINE W == Without({k})
      <4>2. /\ W \in Seq(PitLine) /\ pitLines' = Append(W, line)
            /\ \A n \in DOMAIN W : \E j \in DOMAIN pitLines : W[n] = pitLines[j]
        BY <1>3, <3>2, <4>1
      <4> HIDE DEF W
      <4>3. /\ Len(W) \in Nat /\ DOMAIN W = 1 .. Len(W) /\ DOMAIN pitLines' = 1 .. Len(W) + 1
            /\ pitLines'[Len(W) + 1] = line /\ \A j \in DOMAIN W : pitLines'[j] = W[j]
        BY <2>1, <4>2
      <4> QED BY <4>2, <4>3
    <3> QED BY <2>1, <3>1, <3>2
  <2> QED BY <1>1, <2>1, <2>2, <2>3 DEF AllPosted
<1>13. ASSUME UNCHANGED pitVars PROVE AllPosted(pitLines', pitPayments')
  BY <1>1, <1>13 DEF pitVars
<1> QED BY <1>4, <1>5, <1>6, <1>7, <1>8, <1>9, <1>10, <1>11, <1>12, <1>13 DEF PitNext

\* Every step keeps the registers exact and the payments posted or undone, as long
\* as nothing happened but a line that joined a payment.
LEMMA PitStepInd == PitInd /\ [PitNext]_pitVars => PitInd'
<1> SUFFICES ASSUME PitInd, [PitNext]_pitVars, pitHistory' \subseteq {"joined"}
             PROVE  /\ Exact(pitLines', pitPayments', yearly') /\ PitKept(pitLines', pitPayments')
                    /\ pitHistory' = {} => AllPosted(pitLines', pitPayments')
  BY PitStepType DEF PitInd, Exact, PitKept, AllPosted
<1> DEFINE Coherent == Exact(pitLines', pitPayments', yearly') /\ PitKept(pitLines', pitPayments')
<1>1. PitTypeOK
  BY DEF PitInd
<1>2. pitHistory \subseteq pitHistory'
  BY DEF PitNext, pitVars, AddLine, ChangeYear, PostPit, CancelPit, DraftAgain, DeletePitPayment,
         EditPitLine, EditInSupplierForm, UnlinkLine
<1>3. Exact(pitLines, pitPayments, yearly) /\ PitKept(pitLines, pitPayments)
  BY <1>2 DEF PitInd
<1>4. ASSUME NEW v \in PitPayment, NEW s \in Supplier, NEW income \in Income, AddLine(v, s, income)
      PROVE  Coherent
  BY <1>1, <1>3, <1>4, AddLineInd
<1>5. ASSUME NEW v \in PitPayment, NEW y \in CalendarYear, ChangeYear(v, y) PROVE Coherent
  BY <1>1, <1>3, <1>5, ChangeYearInd
<1>6. ASSUME NEW v \in PitPayment, PostPit(v) PROVE Coherent
  BY <1>1, <1>3, <1>6, PostPitInd
<1>7. ASSUME NEW v \in PitPayment, CancelPit(v) PROVE Coherent
  BY <1>1, <1>3, <1>7, CancelPitInd
<1>8. ASSUME NEW v \in PitPayment, DraftAgain(v) PROVE Coherent
  BY <1>1, <1>3, <1>8, DraftAgainInd
<1>9. ASSUME NEW v \in PitPayment, DeletePitPayment(v) PROVE Coherent
  BY <1>1, <1>3, <1>9, DeletePitPaymentInd
<1>10. ASSUME NEW k \in DOMAIN pitLines, NEW s \in Supplier, NEW income \in Income, EditPitLine(k, s, income)
       PROVE  Coherent
  BY <1>1, <1>3, <1>10, EditPitLineInd
<1>11. ASSUME NEW k \in DOMAIN pitLines, UnlinkLine(k) PROVE Coherent
  BY <1>1, <1>3, <1>11, UnlinkLineInd
<1>12. ASSUME NEW k \in DOMAIN pitLines, NEW v \in PitPayment, NEW income \in Income,
              EditInSupplierForm(k, v, income)
       PROVE  Coherent
  BY <1>1, <1>3, <1>12, EditInSupplierFormInd
<1>13. ASSUME UNCHANGED pitVars PROVE Coherent
  BY <1>3, <1>13 DEF pitVars
<1> HIDE DEF Coherent
<1>14. Coherent
  BY <1>4, <1>5, <1>6, <1>7, <1>8, <1>9, <1>10, <1>11, <1>12, <1>13 DEF PitNext
<1>15. pitHistory' = {} => AllPosted(pitLines', pitPayments')
  BY <1>2, AllPostedStep
<1> QED BY <1>14, <1>15 DEF Coherent

\* What is registered is then what the posted payments say.
LEMMA PitIndIsYearly == PitInd => YearlyTax
<1>0. ASSUME PitInd, pitHistory = {}
      PROVE  \A k \in DOMAIN pitLines :
               pitPayments[pitLines[k].payment].state = "posted" => pitLines[k].posted
  BY <1>0 DEF PitInd, AllPosted
<1> SUFFICES ASSUME PitInd, pitHistory \subseteq {"joined"}, NEW s \in Supplier, NEW y \in CalendarYear
             PROVE  LET held == yearly[<<s, y>>]
                        paid == {k \in DOMAIN pitLines :
                                   /\ pitLines[k].supplier = s /\ pitLines[k].posted
                                   /\ pitPayments[pitLines[k].payment].state = "posted"
                                   /\ pitPayments[pitLines[k].payment].year = y}
                    IN  /\ held.income = SumFunctionOnSet([k \in DOMAIN pitLines |-> pitLines[k].income], paid)
                        /\ held.wht = IF held.income = 0 THEN 0 ELSE CalculateWht(held.income)
  BY <1>0 DEF YearlyTax
<1> DEFINE paid == {k \in DOMAIN pitLines :
                      /\ pitLines[k].supplier = s /\ pitLines[k].posted
                      /\ pitPayments[pitLines[k].payment].state = "posted"
                      /\ pitPayments[pitLines[k].payment].year = y}
           B == BookedIn(pitLines, pitPayments, s, y)
           rest == B \ paid
           F == [k \in DOMAIN pitLines |-> pitLines[k].income]
           group == [k \in DOMAIN pitLines |-> pitLines[k].payment]
<1>1. PitTypeOK /\ Exact(pitLines, pitPayments, yearly) /\ PitKept(pitLines, pitPayments)
  BY DEF PitInd
<1>2. pitLines \in Seq(PitLine) /\ \A k \in DOMAIN pitLines : pitLines[k].payment \in PitPayment
  BY <1>1, LinesTypes
<1>3. yearly[<<s, y>>] = Reg(pitLines, pitPayments, s, y)
      /\ yearly[<<s, y>>].wht = Tax(yearly[<<s, y>>].income)
  BY <1>1 DEF Exact
<1>4. paid \in SUBSET B
  BY DEF BookedIn
<1>5. B \in SUBSET DOMAIN pitLines /\ rest \in SUBSET DOMAIN pitLines
  BY DEF BookedIn
<1>6. \A k \in rest : pitPayments[pitLines[k].payment].state # "posted"
  BY <1>2 DEF BookedIn
<1>7. IncomeOf(pitLines, rest) = 0
  <2>1. ASSUME NEW k \in rest PROVE SumFunctionOnSet(F, {j \in rest : group[j] = group[k]}) = 0
    <3> DEFINE v == pitLines[k].payment
               G == {j \in rest : group[j] = group[k]}
               P == PostedOf(pitLines, v, s)
    <3>1. v \in PitPayment /\ pitPayments[v].state # "posted" /\ pitPayments[v].year = y
          /\ k \in DOMAIN pitLines
      BY <1>2, <1>5, <1>6 DEF BookedIn
    <3>2. Undone(pitLines, v)
      BY <1>1, <3>1 DEF PitKept
    <3>3. \A j : j \in G => j \in P
      BY <1>5, <3>1 DEF BookedIn, PostedOf
    <3>4. \A j : j \in P => j \in G
      <4> SUFFICES ASSUME NEW j, j \in P PROVE j \in G
        OBVIOUS
      <4>1. j \in DOMAIN pitLines /\ pitLines[j].payment = v /\ pitLines[j].posted
            /\ pitLines[j].supplier = s
        BY DEF PostedOf
      <4>2. j \in B
        BY <3>1, <4>1 DEF BookedIn
      <4>3. j \notin paid
        BY <3>1, <4>1
      <4> QED BY <3>1, <4>1, <4>2, <4>3
    <3>5. IncomeOf(pitLines, P) = 0
      BY <3>2 DEF Undone
    <3> HIDE DEF G, P, rest, group
    <3>6. G = P
      BY <3>3, <3>4
    <3>7. SumFunctionOnSet(F, G) = 0
      BY <3>5, <3>6 DEF IncomeOf
    <3> QED BY <3>7 DEF G
  <2>2. \A k \in rest : F[k] \in Int
    BY <1>2, <1>5, LinesTyped
  <2> HIDE DEF rest, F, group
  <2>3. IsFiniteSet(rest)
    BY <1>2, <1>5, SumsTyped
  <2>4. SumFunctionOnSet(F, rest) = 0
    BY <2>1, <2>2, <2>3, SumGroups
  <2> QED BY <2>4 DEF IncomeOf, F
<1> HIDE DEF B, paid
<1>8. IncomeOf(pitLines, B) = IncomeOf(pitLines, paid) + IncomeOf(pitLines, rest)
  BY <1>2, <1>4, <1>5, LinesSplit
<1>9. paid \in SUBSET DOMAIN pitLines
  BY <1>4, <1>5
<1>10. IncomeOf(pitLines, paid) \in Int
  BY <1>2, <1>9, SumsTyped
<1>11. yearly[<<s, y>>].income = IncomeOf(pitLines, paid)
  BY <1>3, <1>7, <1>8, <1>10 DEF Reg, B
<1>12. yearly[<<s, y>>].wht = IF yearly[<<s, y>>].income = 0 THEN 0 ELSE CalculateWht(yearly[<<s, y>>].income)
  BY <1>3 DEF Tax
<1> QED BY <1>11, <1>12 DEF IncomeOf, paid

\* YearlyTax: whatever payments are entered, edited, posted in whatever order, posted
\* again, canceled and deleted, each supplier's register of a year is the income of
\* the posted lines of the posted payments and the progressive tax of it, and those are
\* all of their lines, unless a line joined a payment in the form of a supplier.
THEOREM YearlyTaxHolds == PitSpec => []YearlyTax
<1>1. PitInit => PitInd
  BY PitInitInd
<1>2. PitInd /\ [PitNext]_pitVars => PitInd'
  BY PitStepInd
<1>3. PitInd => YearlyTax
  BY PitIndIsYearly
<1> QED BY <1>1, <1>2, <1>3, PTL DEF PitSpec

-----------------------------------------------------------------------------
(* The addons together *)

\* Whichever addon a behaviour is of, a step of it is a step of each addon, or
\* leaves its tables alone.
LEMMA EachAddonSteps ==
  [Next]_vars =>
    /\ [ExpensesNext]_expensesVars /\ [BankNext]_bankVars /\ [PlanNext]_planVars
    /\ [PurchasePlanNext]_purchasePlanVars /\ [AssetNext]_assetVars /\ [VatNext]_vatVars
    /\ [PitNext]_pitVars /\ [AmountsNext]_amountVars
BY DEF Next, vars

LEMMA EachAddonStarts ==
  Init => /\ ExpensesInit /\ BankInit /\ PlanInit /\ PurchasePlanInit /\ AssetInit
          /\ VatInit /\ PitInit /\ AmountsInit
BY DEF Init, AnyVatSetting, AnyYears, AnyAmounts

\* The addons together implement each of them: whatever is proved of an addon alone
\* holds where the others are, too.
THEOREM BusinessImplementsAddons ==
  MCSpec => /\ ExpensesSpec /\ BankSpec /\ PlanSpec /\ PurchasePlanSpec /\ AssetSpec
            /\ VatSpec /\ PitSpec /\ AmountsSpec
BY EachAddonStarts, EachAddonSteps, PTL
   DEF MCSpec, ExpensesSpec, BankSpec, PlanSpec, PurchasePlanSpec, AssetSpec, VatSpec, PitSpec,
       AmountsSpec

Addons == {"expenses", "bank", "plan", "purchase", "asset", "vat", "pit", "amounts"}

\* In every behaviour of the addons the tables of the one that moves hold what their
\* columns may.
THEOREM BusinessTypeCorrect == MCSpec => []TypeOK
<1>1. Init => addon \in Addons
  BY DEF Init, Addons
<1>2. addon \in Addons /\ [Next]_vars => (addon \in Addons)'
  BY DEF Next, vars, Addons
<1>3. /\ addon \in Addons
      /\ ExpensesTypeOK /\ BankTypeOK /\ PlanTypeOK /\ PurchasePlanTypeOK /\ AssetTypeOK
      /\ VatTypeOK /\ PitTypeOK /\ AmountsTypeOK
      => TypeOK
  BY Zenon DEF TypeOK, Addons
<1>4. MCSpec => [](addon \in Addons)
  BY <1>1, <1>2, PTL DEF MCSpec
<1>5. MCSpec => [](ExpensesTypeOK /\ PlanTypeOK /\ PurchasePlanTypeOK /\ AssetTypeOK)
  BY BusinessImplementsAddons, ExpensesTypeCorrect, PlanTypeCorrect, PurchasePlanTypeCorrect,
     AssetTypeCorrect, PTL
<1>6. MCSpec => [](BankTypeOK /\ VatTypeOK /\ PitTypeOK /\ AmountsTypeOK)
  BY BusinessImplementsAddons, BankTypeCorrect, VatTypeCorrect, PitTypeCorrect,
     AmountsTypeCorrect, PTL
<1> QED BY <1>3, <1>4, <1>5, <1>6, PTL

\* What the addons promise of expenses, plans and assets holds in every behaviour of
\* them together.
THEOREM BusinessInvoicesSafe ==
  MCSpec => /\ []Backed /\ []InvoicedOnce /\ []BalanceUpToDate /\ []NotOverCleared
            /\ []RowInvoicedOnce /\ []AdvanceDeductedOnce /\ []BilledInFull
            /\ []BilledOnceWithFirst /\ []BoardAddsUp /\ []ClosedIsDepreciated
BY BusinessImplementsAddons, BackedHolds, InvoicedOnceHolds, BalanceUpToDateHolds,
   NotOverClearedHolds, RowInvoicedOnceAlways, AdvanceDeductedOnceAlways, BilledInFullAlways,
   BilledOnceWithFirstAlways, BoardAddsUpAlways, ClosedIsDepreciatedAlways, PTL

\* So does what they promise of payments and their taxes.
THEOREM BusinessPaymentsSafe ==
  MCSpec => /\ []PaidOnce /\ []DoneIsPosted /\ CanceledFreesLines
            /\ []NumbersRunOn /\ []DeclaredAsBooked /\ []YearlyTax
            /\ []WriteoffAsShown /\ []VatFollowsPayment /\ []RegisteredPaysInFull
BY BusinessImplementsAddons, PaidOnceHolds, DoneIsPostedHolds, CanceledFreesLinesHolds,
   NumbersRunOnAlways, DeclaredAsBookedAlways, YearlyTaxHolds, WriteoffAsShownHolds,
   VatFollowsPaymentHolds, RegisteredPaysInFullHolds, PTL
=============================================================================

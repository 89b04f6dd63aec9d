------------------------------- MODULE UndueVat -------------------------------
(***************************************************************************)
(* Payments to suppliers of invoices with undue VAT (l10n_th_account,      *)
(* l10n_th_account_tax_detail).  Paying makes the VAT due: an entry moves  *)
(* it from the undue account, and the tax invoice gets a number in the     *)
(* register of a period.  If the company recognizes VAT automatically the  *)
(* entry of the payment does both; otherwise a wizard does, later, with an *)
(* entry of its own.  The payment's withholding tax is certified by a      *)
(* numbered certificate.  Canceling a payment deletes its entry, or, with  *)
(* account_cancel_reversal installed, reverses it.                         *)
(*                                                                         *)
(* Each payment has one undue VAT and one tax invoice.  A tax invoice is   *)
(* registered in the period of the document, or in its own if that is more *)
(* months away than the company allows.  A dialog offered for a posted     *)
(* payment calls methods that do not look at its state: one dialog at a    *)
(* time may stay open while others act.  A step is a transaction; one that *)
(* writes a payment or takes a number excludes the others that do.         *)
(***************************************************************************)
EXTENDS Naturals, FiniteSets

CONSTANTS
  TaxPayment,
  TaxPeriod,
  NumberBound     \* at most that many numbers are taken in a register

ASSUME UndueVatAssumption ==
  /\ TaxPeriod \subseteq Nat \ {0}
  /\ NumberBound \in Nat

NotFilled == 0
Book == {"vat", "wht"}
Dialog == {"clear", "certificate", "cancel"}
NoDialog == <<"none">>

VARIABLES
  autoRecognize,  \* auto_recognize_vat of the company
  voids,          \* is account_cancel_reversal installed?
  payments,
  register,       \* tax details with a number, and certificates
  nextNumber,     \* the sequences of the registers of the periods
  withdrawn,      \* history: the numbers of tax details that were deleted
  pendingDialog,
  accidents       \* history: what else happened

vatVars ==
  <<autoRecognize, voids, payments, register, nextNumber, withdrawn, pendingDialog, accidents>>

TaxPaymentRow ==
  [state : {"draft", "posted", "cancel"},
   entry : {"none", "plain", "vat"},   \* move_id, and whether it moves the VAT
   reversals : 0 .. 2,                 \* of that entry
   clearing : BOOLEAN,                 \* recognize_vat_move_id
   manual : BOOLEAN,                   \* are the rows of its taxes manual?
   filled : TaxPeriod \cup {NotFilled},  \* the tax invoice in its tax detail
   lost : BOOLEAN]     \* history: its VAT was recognized, and the entry deleted

RegisterRow ==
  [book : Book, period : TaxPeriod, number : 1 .. NumberBound,
   payment : TaxPayment, live : BOOLEAN]

VatTypeOK ==
  /\ autoRecognize \in BOOLEAN
  /\ voids \in BOOLEAN
  /\ payments \in [TaxPayment -> TaxPaymentRow]
  /\ register \subseteq RegisterRow
  /\ nextNumber \in [Book \X TaxPeriod -> 1 .. NumberBound + 1]
  /\ withdrawn \subseteq Book \X TaxPeriod \X (1 .. NumberBound)
  /\ pendingDialog \in {NoDialog} \cup (Dialog \X TaxPayment)
  /\ accidents \subseteq {"switched", "late"}

VatInit ==
  /\ autoRecognize \in BOOLEAN
  /\ voids \in BOOLEAN
  /\ payments = [v \in TaxPayment |->
       [state |-> "draft", entry |-> "none", reversals |-> 0, clearing |-> FALSE,
        manual |-> FALSE, filled |-> NotFilled, lost |-> FALSE]]
  /\ register = {}
  /\ nextNumber = [s \in Book \X TaxPeriod |-> 1]
  /\ withdrawn = {}
  /\ pendingDialog = NoDialog
  /\ accidents = {}

-----------------------------------------------------------------------------
(* The register *)

RowsOfPayment(book, v) == {r \in register : r.book = book /\ r.payment = v}

\* _get_next_sequence, _get_next_wht_sequence: the next number of the period,
\* for a payment's row in the register, of which rows are the others.
GetNextSequence(book, period, v, live, rows) ==
  LET number == nextNumber[<<book, period>>]
  IN  /\ number <= NumberBound
      /\ nextNumber' = [nextNumber EXCEPT ![<<book, period>>] = number + 1]
      /\ register' = rows \cup
           {[book |-> book, period |-> period, number |-> number,
             payment |-> v, live |-> live]}

\* As a bug would have it: a tax detail that has a number is given another.
SetAnotherSequence(v, document) ==
  \E period \in {document, payments[v].filled} :
    GetNextSequence("vat", period, v, payments[v].state # "cancel",
                    register \ RowsOfPayment("vat", v))

\* _set_next_sequence of the tax detail of a payment, for a document of a period
SetNextSequence(v, document) ==
  \/ RowsOfPayment("vat", v) # {} /\ UNCHANGED <<register, nextNumber>>
  \/ /\ RowsOfPayment("vat", v) = {}
     /\ \E period \in {document, payments[v].filled} :
          GetNextSequence("vat", period, v, payments[v].state # "cancel", register)

\* The tax detail of a payment is deleted with its row of the register.
Withdrawn(v) ==
  withdrawn \cup {<<"vat", r.period, r.number>> : r \in RowsOfPayment("vat", v)}

\* A write resets the taxes of a payment that is not posted, except manual ones.
Resets(v) == payments[v].state # "posted" /\ ~payments[v].manual

-----------------------------------------------------------------------------
(* Drafts *)

\* The dialog of a certificate fails when the taxes it lists are gone.
DialogWithTaxes(v, manual) ==
  IF pendingDialog = <<"certificate", v>> /\ ~manual THEN NoDialog ELSE pendingDialog

\* A draft is edited, and its taxes marked manual or not.
EditDraft(v, manual) ==
  /\ payments[v].state = "draft"
  /\ payments' = [payments EXCEPT ![v].manual = manual,
                                  ![v].filled = IF manual THEN @ ELSE NotFilled]
  /\ register' = IF manual THEN register ELSE register \ RowsOfPayment("vat", v)
  /\ withdrawn' = IF manual THEN withdrawn ELSE Withdrawn(v)
  /\ pendingDialog' = DialogWithTaxes(v, manual)
  /\ UNCHANGED <<autoRecognize, voids, nextNumber, accidents>>

\* save_tax_detail, for a tax invoice of a period
SaveTaxDetail(v, period) ==
  /\ IF autoRecognize THEN payments[v].state = "draft" ELSE ~payments[v].clearing
  /\ payments' = [payments EXCEPT ![v].filled = period]
  /\ UNCHANGED <<autoRecognize, voids, register, nextNumber, withdrawn, pendingDialog, accidents>>

\* proforma_voucher of a draft: action_move_line_create books the VAT only if it is
\* recognized automatically, and only then the tax invoice must be there.
PostPayment(v, document) ==
  /\ payments[v].state = "draft"
  /\ payments' = [payments EXCEPT ![v].state = "posted",
                                  ![v].entry = IF autoRecognize THEN "vat" ELSE "plain"]
  /\ IF autoRecognize
     THEN payments[v].filled # NotFilled /\ SetNextSequence(v, document)
     ELSE UNCHANGED <<register, nextNumber>>
  /\ UNCHANGED <<autoRecognize, voids, withdrawn, pendingDialog, accidents>>

-----------------------------------------------------------------------------
(* Dialogs *)

\* The buttons that the form of a payment shows
Offered(kind, v) ==
  /\ payments[v].state = "posted"
  /\ kind = "clear" => ~autoRecognize /\ ~payments[v].clearing
  /\ kind = "certificate" => RowsOfPayment("wht", v) = {}

\* A dialog is opened, and left open.
OpenDialog(kind, v) ==
  /\ Offered(kind, v)
  /\ pendingDialog = NoDialog
  /\ pendingDialog' = <<kind, v>>
  /\ UNCHANGED <<autoRecognize, voids, payments, register, nextNumber, withdrawn, accidents>>

\* A method is called from a dialog opened just now, or from the one left open.
Calls(kind, v) ==
  \/ /\ Offered(kind, v)
     /\ UNCHANGED <<pendingDialog, accidents>>
  \/ /\ pendingDialog = <<kind, v>>
     /\ pendingDialog' = NoDialog
     /\ accidents' = IF Offered(kind, v) THEN accidents ELSE accidents \cup {"late"}

\* The first step is not repeated, and the tax invoice must be there, also after
\* the write of the payment.
MayRecognize(v) ==
  /\ ~payments[v].clearing
  /\ payments[v].filled # NotFilled
  /\ ~Resets(v)

\* clear_undue_vat: proforma_voucher once more, with the date of the wizard.  If
\* the company recognizes VAT automatically by now it posts what is not posted.
ClearUndueVat(v, document) ==
  /\ Calls("clear", v)
  /\ IF autoRecognize
     THEN /\ payments[v].filled # NotFilled
          /\ payments' = IF payments[v].entry # "none" THEN payments
                         ELSE [payments EXCEPT ![v].state = "posted", ![v].entry = "vat"]
     ELSE /\ MayRecognize(v)
          /\ payments' = [payments EXCEPT ![v].clearing = TRUE, ![v].lost = FALSE]
  /\ SetNextSequence(v, document)
  /\ UNCHANGED <<autoRecognize, voids, withdrawn>>

\* run_report, of a certificate for a period: it also writes the payment.
MakeCertificate(v, period) ==
  /\ Calls("certificate", v)
  /\ GetNextSequence("wht", period, v, TRUE,
                     IF Resets(v) THEN register \ RowsOfPayment("vat", v) ELSE register)
  /\ withdrawn' = IF Resets(v) THEN Withdrawn(v) ELSE withdrawn
  /\ payments' = IF Resets(v) THEN [payments EXCEPT ![v].filled = NotFilled] ELSE payments
  /\ UNCHANGED <<autoRecognize, voids>>

\* As a bug would have it: a payment whose VAT is recognized is canceled.
CancelAnyway(v) == TRUE

\* An entry that recognizes VAT must be removed first.
MayCancel(v) == autoRecognize \/ ~payments[v].clearing

\* confirm_cancel writes the reason; cancel_voucher cancels the certificates and
\* the tax detail, and deletes the entry or reverses it.
CancelVoucher(v) ==
  /\ Calls("cancel", v)
  /\ MayCancel(v)
  /\ payments' = [payments EXCEPT
       ![v].state = "cancel",
       ![v].filled = IF Resets(v) THEN NotFilled ELSE @,
       ![v].entry = IF voids THEN @ ELSE "none",
       ![v].reversals = IF voids /\ payments[v].entry # "none" THEN @ + 1 ELSE @,
       ![v].lost = FALSE]
  /\ register' = {IF r.payment = v THEN [r EXCEPT !.live = FALSE] ELSE r :
                    r \in IF Resets(v) THEN register \ RowsOfPayment("vat", v) ELSE register}
  /\ withdrawn' = IF Resets(v) THEN Withdrawn(v) ELSE withdrawn
  /\ UNCHANGED <<autoRecognize, voids, nextNumber>>

-----------------------------------------------------------------------------

\* action_cancel_draft, which is not offered where cancellation reverses: the tax
\* detail is deleted, and made anew.
ActionCancelDraft(v) ==
  /\ ~voids
  /\ payments[v].state = "cancel"
  /\ payments' = [payments EXCEPT ![v].state = "draft", ![v].filled = NotFilled]
  /\ register' = register \ RowsOfPayment("vat", v)
  /\ withdrawn' = Withdrawn(v)
  /\ pendingDialog' = DialogWithTaxes(v, payments[v].manual)
  /\ UNCHANGED <<autoRecognize, voids, nextNumber, accidents>>

\* The entry that recognizes the VAT of a payment is deleted, which clears the
\* payment's reference to it (ondelete: set null).
RemoveRecognition(v) ==
  /\ payments[v].clearing
  /\ payments' = [payments EXCEPT ![v].clearing = FALSE, ![v].lost = TRUE]
  /\ UNCHANGED <<autoRecognize, voids, register, nextNumber, withdrawn, pendingDialog, accidents>>

\* The setting of the company is changed.
SwitchSetting ==
  /\ autoRecognize' = ~autoRecognize
  /\ accidents' = accidents \cup {"switched"}
  /\ UNCHANGED <<voids, payments, register, nextNumber, withdrawn, pendingDialog>>

VatPaymentStep ==
  \E v \in TaxPayment :
    \/ \E manual \in BOOLEAN : EditDraft(v, manual)
    \/ \E period \in TaxPeriod :
         \/ SaveTaxDetail(v, period)
         \/ PostPayment(v, period)
         \/ ClearUndueVat(v, period)
         \/ MakeCertificate(v, period)
    \/ \E kind \in Dialog : OpenDialog(kind, v)
    \/ CancelVoucher(v)
    \/ ActionCancelDraft(v)
    \/ RemoveRecognition(v)

VatNext == VatPaymentStep \/ SwitchSetting

VatSpec == VatInit /\ [][VatNext]_vatVars

-----------------------------------------------------------------------------
(* Properties *)

\* The VAT of a payment is in the books by its entry, not reversed, and by the one
\* that recognizes it.
InBooks(v) ==
  (IF payments[v].entry = "vat" /\ payments[v].reversals = 0 THEN 1 ELSE 0)
    + (IF payments[v].clearing THEN 1 ELSE 0)

\* What is declared is what the books say.  The VAT of a payment is booked once, by
\* either entry, exactly when its tax invoice counts in the register; a canceled
\* payment is reversed once, and has no certificate that counts.  It is so unless
\* the setting was changed between two steps of a payment, a dialog left open was
\* used when it was no longer offered, or the entry of the recognition was deleted
\* and the payment not canceled or recognized since.
DeclaredAsBooked ==
  accidents = {} =>
    \A v \in TaxPayment :
      /\ ~payments[v].lost =>
           InBooks(v) = Cardinality({r \in RowsOfPayment("vat", v) : r.live})
      /\ payments[v].reversals = IF voids /\ payments[v].state = "cancel" THEN 1 ELSE 0
      /\ Cardinality({r \in RowsOfPayment("wht", v) : r.live})
           <= IF payments[v].state = "posted" THEN 1 ELSE 0

\* The numbers of a register run on, whatever fails or happens late: each one that
\* was taken belongs to one tax invoice or certificate, or did until its payment's
\* taxes were made anew, and is never given again.
NumbersRunOn ==
  \A book \in Book, period \in TaxPeriod :
    \A number \in 1 .. nextNumber[<<book, period>>] - 1 :
      Cardinality({r \in register : r.book = book /\ r.period = period /\ r.number = number})
        + (IF <<book, period, number>> \in withdrawn THEN 1 ELSE 0) = 1
=============================================================================

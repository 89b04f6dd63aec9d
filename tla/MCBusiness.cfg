CONSTANTS
  a1 = a1
  c1 = c1
  b1 = b1
  b2 = b2
  t1 = t1
  t2 = t2
  l1 = l1
  l2 = l2
  v1 = v1
  v2 = v2
  Advance = {a1}
  Clearing = {c1}
  Plain = {}
  NoExpense = NoExpense
  InvoiceBound = 3
  MaxAmount = 2
  Payment = {b1, b2}
  Line = {t1, t2}
  NoPayment = NoPayment
  FormBound = 2
  OrderLine = {l1}
  NoLine = NoLine
  Subtotal <- Three
  Unit = 2
  N = 2
  Amount = {0, 3}
  OrderInvoiceBound = 4
  PeriodsPerYear = 2
  ProgressFactor <- TwoFifths
  Purchase = {7}
  Salvage = {2}
  MaxYears = 2
  LineAmount = {3}
  PurchaseLine = {l2}
  NoPurchaseLine = NoPurchaseLine
  PurchaseSubtotal <- Thousand
  Tenth = 10
  LastInstallment = 2
  FirstAmount = {200}
  RowAmount = {0, 496}
  BillBound = 5
  TaxPayment = {v1, v2}
  TaxPeriod = {1, 2}
  NumberBound = 2
  PitPayment = {y, z}
  Supplier = {s}
  CalendarYear = {2020, 2021}
  PitRate <- Rates
  Income = {1, 2}
  TypedWht = {0}
  PitLineBound = 4
  VendorBill = {1, 2, 3}
  RefundBill = {3}
  BillLine <- BillLines
  Retention <- Retentions
  VatRate <- OneTenth
  WhtRate <- ThreeTenths
  Threshold = 21
  Price = {8, 56}
  LinePrice = {11, 28, 56}
  TaxPrice = {1}
  Deduction = {0, 3}
  PostingBound = 2
  Common <- CommonMultiple
SPECIFICATION MCSpec
CHECK_DEADLOCK FALSE
CONSTRAINT Small
INVARIANTS TypeOK Backed InvoicedOnce BalanceUpToDate NotOverCleared PaidOnce DoneIsPosted RowInvoicedOnce BilledInFull AdvanceDeductedOnce BoardAddsUp ClosedIsDepreciated BilledOnceWithFirst DeclaredAsBooked NumbersRunOn YearlyTax WriteoffAsShown VatFollowsPayment RegisteredPaysInFull
PROPERTIES CanceledFreesLines

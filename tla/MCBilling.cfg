SPECIFICATION Spec
CONSTANTS
  i1 = i1
  i2 = i2
  v1 = v1
  v2 = v2
  p1 = p1
  p2 = p2
  n1 = n1
  n2 = n2
  t1 = t1
  t2 = t2
  FinNo = FinNo
  NoLock = NoLock
  Income = {i1, i2}
  Invoice = {v1, v2}
  Payment = {p1}
  Thread = {t1, t2}
  Instance = {n1, n2}
  instanceOf <- mcFree
  Official = {v1}
  Existing <- mcExisting
  Ops = {"createInvoice", "makeInvoiceManually", "issue", "makeInvoicePend", "makeInvoicePaid", "makeInvoiceCancel", "revertToPreviousState", "updateInvoice", "forceUpdate", "createIncome", "updateIncome", "forceUpdateIncome", "changeCaseType", "remove", "pay", "verify"}
  MaxRequests = 3
  MaxFaults = 1
INVARIANTS
  LedgerInv
  TypeOK
  PaidIncomeVouched
PROPERTIES
  FollowsBooks
  PaidTogether
CHECK_DEADLOCK FALSE

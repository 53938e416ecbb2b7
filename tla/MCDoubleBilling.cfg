SPECIFICATION Spec
CONSTANTS
  i1 = i1
  i2 = i2
  v1 = v1
  v2 = v2
  p1 = p1
  p2 = p2
  n1 = n1
  n2 = n2
  t1 = t1
  t2 = t2
  FinNo = FinNo
  NoLock = NoLock
  Income = {i1, i2}
  Invoice = {v1, v2}
  Payment = {p1}
  Thread = {t1, t2}
  Instance = {n1, n2}
  instanceOf <- mcInstanceOf
  Official = {v1}
  Existing <- mcNone
  Ops = {"createInvoice"}
  MaxRequests = 2
  MaxFaults = 0
INVARIANT
  BilledOnce
CHECK_DEADLOCK FALSE

SPECIFICATION Spec
CONSTANTS
  c1 = c1
  c2 = c2
  k1 = k1
  k2 = k2
  t1 = t1
  t2 = t2
  Cash = {c1, c2}
  Cost = {k1, k2}
  Thread = {t1, t2}
  Amounts <- mcAmounts
  Prices <- mcPrices
  MaxRequests = 4
  MaxFaults = 1
SYMMETRY Symmetry
INVARIANTS
  TypeOK
  Conserved
  NeverNegative
  PaidInFull
  PaidHasBudget
  InBalance
  CashInv
CHECK_DEADLOCK FALSE

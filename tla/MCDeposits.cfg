SPECIFICATION Spec
CONSTANTS
  u1 = u1  u2 = u2  i1 = i1  i2 = i2  t1 = t1  x1 = x1  a1 = a1
  None = None
  User = {u1, u2}
  Invoice = {i1, i2}
  Transfer = {t1}
  Tx = {x1}
  Address = {a1}
  TxOf <- OneTx
  Sender <- OneSender
  Base = 4
  UnitsPerCent = 2
  MaxExtra = 1
  MaxPending = 2
  Sendable = {7}
  MaxRequests = 1
  StaffAlone = TRUE
  Reconfirm = FALSE
SYMMETRY InvoiceSymmetry
INVARIANTS CreditedOnce DepositSafety
PROPERTIES DecisionIsFinal
CHECK_DEADLOCK FALSE

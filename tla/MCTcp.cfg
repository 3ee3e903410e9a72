SPECIFICATION Spec
CONSTANTS
  MaxBytes <- MCMaxBytes
  SeqMod = 16
  Isn <- MCIsn
  Mss = 2
  InitialCwnd = 3
  MaxCwnd = 3
  MaxRetries = 1
  MaxBlocked = 1
  Aborters = {"client"}
  Budgets <- MCBudgets
INVARIANTS
  TypeOK
  StreamIntact
  QuietEndMeansDelivered
  OutstandingIsTimed
  SendSpaceOrdered
CHECK_DEADLOCK FALSE

SPECIFICATION Spec
CONSTANTS
  Addr = {a1, a2}
  NoAddr = none
  ApAddr = softap
  Lease = 3
  Options <- MCOptions
  BackoffInitial = 1
  BackoffMax = 2
  Jitter = 0
  RenewMin = 1
  MaxTries = 2
  MaxWire = 2
INVARIANTS
  TypeOK
  AddressIsLeased
  ApAddressStays

PROPERTIES
  ExchangeEnds

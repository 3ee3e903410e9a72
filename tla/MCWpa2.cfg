SPECIFICATION Spec
CONSTANTS
  MaxNonce = 3
  MaxGtk = 3
  MaxTries = 3
  MaxTrouble = 2
CHECK_DEADLOCK FALSE
INVARIANTS
  TypeOK
  NoKeyReinstalled
  KeysFollowM4
  AuthenticatedMeansAgreed
  TroubleIsTolerated

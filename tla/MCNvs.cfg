SPECIFICATION Spec
CONSTANTS
  Key = {k1, k2}
  BootKey = boot
  NoKey = none
  MaxVal = 1
  MaxEntries = 2
  MaxHold = 1
INVARIANTS
  TypeOK
  OneEntryPerKey
  CommittedIsStored
  CrashLeavesPrefix
PROPERTY PendingIsCommitted

SPECIFICATION Spec
CONSTANTS
  MaxSeq = 5
  MaxTestBoots = 3
INVARIANT RunningSlotUntouched

SPECIFICATION Spec
CONSTANTS
  MaxSeq = 5
  MaxTestBoots = 3
INVARIANTS
  TypeOK
  SelectionSurvives
  ReportedIsDurable
  CacheCoherent
PROPERTY RulingRecordKept

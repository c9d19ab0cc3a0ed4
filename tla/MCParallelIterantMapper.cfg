SPECIFICATION FairSpec
CONSTANTS
  Consumer = {c1, c2}
  MaxLen = 4
  Capacity = 2
  Parallelism = 2
  MaxPermits = 7
  Absent = Absent
INVARIANTS
  NoStepStranded
  ReadAheadIsBounded
  CapacityRespected
  InSourceOrder
  TakesFindTheirEntries
  EndMeansExhausted
PROPERTIES
  StepsAreAnswered
  ImplementsSharedIterant
CHECK_DEADLOCK FALSE

SPECIFICATION Spec
CONSTANTS
  Consumer = {c1}
  MaxLen = 2
  Capacity = 1
  Parallelism = 2
  MaxPermits = 5
  Absent = Absent
INVARIANT EndOfIterantIsEmpty
CHECK_DEADLOCK FALSE

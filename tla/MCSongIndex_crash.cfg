SPECIFICATION Spec
CONSTANTS
  File = {f1}
  Call = {c1, c2, c3}
  Forced = {}
  MaxChanges = 1
  MaxTime = 2
  MaxRestarts = 1
  Absent = Absent
  NoEntry = NoEntry
  NoFile = NoFile
  NoMsg = NoMsg
  NoCall = NoCall
INVARIANT IndexedMeansSearchable
CHECK_DEADLOCK FALSE

SPECIFICATION Spec
CONSTANTS
  File = {f1}
  Call = {c1, c2, c3}
  Forced = {c3}
  MaxChanges = 1
  MaxTime = 1
  MaxRestarts = 1
  Absent = Absent
  NoEntry = NoEntry
  NoFile = NoFile
  NoMsg = NoMsg
  NoCall = NoCall
SYMMETRY Symmetry
INVARIANTS
  NoStaleEntryTrusted
  IndexMatchesCache
  SearchFollowsIndex
  FreshUnlessTorn
CHECK_DEADLOCK FALSE

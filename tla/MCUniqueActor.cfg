SPECIFICATION FairSpec
CONSTANTS
  Call = {c1, c2, c3}
  Msg = {foo, bar}
  NoMsg = NoMsg
  NoCall = NoCall
INVARIANTS
  OneRunPerMessage
  ClearFindsItsEntry
  NeverServedByAnAnsweredRun
  NobodyLeftBehind
PROPERTIES
  EveryCallAnswered
  ImplementsSingleFlight
CHECK_DEADLOCK FALSE

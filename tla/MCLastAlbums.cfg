SPECIFICATION Spec
CONSTANTS
  Album = {a1, a2}
  Updater = {u1, u2}
  Dequeuer = {d1, d2}
  MaxTime = 3
  MaxChanges = 3
  MaxRestarts = 1
  NoAlbum = NoAlbum
  NoFile = NoFile
  NoMsg = NoMsg
  NoCall = NoCall
SYMMETRY Symmetry
INVARIANTS
  NoAlbumForgotten
  QueueIsOrdered
  AnsweredIsSaved
  TwiceOnlyAfterRace
CHECK_DEADLOCK FALSE

SPECIFICATION Spec
CONSTANTS
  Album = {a1}
  Updater = {u1}
  Dequeuer = {d1, d2}
  MaxTime = 2
  MaxChanges = 1
  MaxRestarts = 0
  NoAlbum = NoAlbum
  NoFile = NoFile
  NoMsg = NoMsg
  NoCall = NoCall
INVARIANT DequeueRemoves
CHECK_DEADLOCK FALSE

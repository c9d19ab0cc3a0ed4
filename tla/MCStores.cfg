INIT Init
NEXT Next
CONSTANTS
  Reader = {r1, r2}
  Pusher = {p1, p2}
  Text = {t1, t2}
  Manual = Manual
  ByArtist = ByArtist
  NoLyrics = NoLyrics
  Entity = {song, artist}
  s1 = s1
  Score = {s1, s2}
  Getter = {get}
  Setter = {put, edit}
  Editor = {edit}
  Boot = Boot
  Unread = Unread
  n1 = n1
  Name = {n1, n2}
  Songs = {l1, l2}
  NoSongs = NoSongs
  Saver = {w1, w2, w3}
  MaxCrashes = 1
  Id = {i1, i2}
  NoId = NoId
  NullId = NullId
  NoLinks = NoLinks
  Viewer = {v1}
  Refresher = {v1}
  Corrector = {c1, c2}
INVARIANTS
  ToldIsStored
  AnsweredIsSeen
  SavedIsKept
  LinksAreOfTheId
CHECK_DEADLOCK FALSE

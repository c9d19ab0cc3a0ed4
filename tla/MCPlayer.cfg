SPECIFICATION FairSpec
CONSTANTS
  a = a
  b = b
  Song <- SongSet
  NoSong = NoSong
  Albums <- AlbumSet
  Saved <- SavedSet
  Slow = {b}
  MaxItems = 1
  MaxIds = 12
  MaxSlides = 1
  MaxLoads = 1
  MaxRandom = 1
INVARIANTS
  NoSongTwice
  CurrentIsListed
  PageShowsList
  MediaIsCurrent
  EndIsFollowed
PROPERTIES
  RemovalIsExact
  NoneIsSpared
  DoomedAreRemoved
  PlaybackGoesOn
  ImplementsSongList

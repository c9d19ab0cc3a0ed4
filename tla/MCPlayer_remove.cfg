SPECIFICATION Spec
CONSTANTS
  a = a
  b = b
  Song <- SongSet
  NoSong = NoSong
  Albums <- AlbumSet
  Saved = {}
  Slow = {}
  MaxItems = 2
  MaxIds = 12
  MaxSlides = 1
  MaxLoads = 1
  MaxRandom = 1
PROPERTIES
  RemovesThisItem

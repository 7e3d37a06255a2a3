\* The system rests when every message was handled and the time is up.
CHECK_DEADLOCK FALSE
SPECIFICATION RefFairSpec
CONSTANTS
  first = first
  second = second
  plain = plain
  titled = titled
  text = text
  otherText = otherText
  album = album
  None = None
  Photos <- AlbumAndTwo
  Texts <- TwoTexts
  Captioned <- SomeTitled
  Albums <- OneAlbum
  AlbumOf <- InAlbum
  Handlers = {h1}
  Limit = 1
  Mishaps <- NoGapKinds
  Burst = 1
  Refill = 1
  Interval = 2
  MaxTime = 4
INVARIANTS
  RefTypeOK
  PhotoAccounted
  PhotoOnce
  RateKept
PROPERTIES
  PhotosSettle

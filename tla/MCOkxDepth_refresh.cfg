\* Updates get lost; checks of books deep enough for the checksum fail; refreshes
\* meet drops and reconnects; the feed of a connection that lasts.
SPECIFICATION FairSpec
CONSTANTS
  None = None
  Symbol = {btc}
  Price = {1, 2, 3, 4}
  Vol = {0, 1}
  Depth = 2
  CheckEvery = 1
  CheckLevels = 1
  DupSnapshot = TRUE
  FeedLoses = TRUE
  MaxUpdate = 3
  MaxTouch = 1
  MaxOpen = 2
  MaxRefresh = 1
INVARIANTS
  TypeOK
  MirrorExact
  StaysSubscribed
  SentIsTopOfBook
PROPERTIES
  CopiesAreRefilled
  FeedSpec
  NoFalseAlarm

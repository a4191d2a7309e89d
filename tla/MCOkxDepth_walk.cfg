\* A copy is cleared while its checksum is computed.
SPECIFICATION Spec
CONSTANTS
  None = None
  Symbol = {btc}
  Price = {1, 2, 3, 4}
  Vol = {0, 1}
  Depth = 2
  CheckEvery = 1
  CheckLevels = 1
  DupSnapshot = TRUE
  FeedLoses = TRUE
  MaxUpdate = 4
  MaxTouch = 1
  MaxOpen = 1
  MaxRefresh = 1
INVARIANTS
  WalkUnderLock

\* Images that hold the whole book, updates of any size, requests that fail.
SPECIFICATION FairSpec
CONSTANTS
  None = None
  Symbol = {btc}
  Price = {1, 2}
  Vol = {0, 1, 2}
  Depth = 2
  MaxUpdate = 3
  MaxTouch = 2
  MaxOpen = 1
  RestFails = TRUE
INVARIANTS
  TypeOK
  SentIsTopOfBook
  MirrorSound
PROPERTIES
  EntriesOnlyAdvance
  RefreshEnds

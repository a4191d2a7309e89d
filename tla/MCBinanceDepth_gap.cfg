\* Drops and reconnects: increments are missed; images cut to the first level of
\* each side.
SPECIFICATION Spec
CONSTANTS
  None = None
  Symbol = {btc}
  Price = {1, 2, 3}
  Vol = {0, 1}
  Depth = 1
  MaxUpdate = 4
  MaxTouch = 1
  MaxOpen = 2
  RestFails = FALSE
INVARIANTS
  MirrorSound
  MirrorComplete
  CopyShowsTop
  FlagShowsMissingImage
PROPERTIES
  FeedSpec
  MissesAreNoticed

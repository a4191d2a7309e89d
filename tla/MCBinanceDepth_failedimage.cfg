\* Two symbols share the flag.  A REST request fails; another is answered before the
\* subscription takes effect.
SPECIFICATION Spec
CONSTANTS
  None = None
  Symbol = {btc, eth}
  Price = {1}
  Vol = {0, 1}
  Depth = 1
  MaxUpdate = 3
  MaxTouch = 1
  MaxOpen = 1
  RestFails = TRUE
INVARIANTS
  FlagShowsUnmetImages

\* An increment overtakes the answer to the request for an image, which is cut to
\* the first level of each side.
SPECIFICATION Spec
CONSTANTS
  None = None
  Symbol = {btc}
  Price = {1, 2, 3, 4}
  Vol = {0, 1}
  Depth = 1
  MaxUpdate = 3
  MaxTouch = 2
  MaxOpen = 1
  RestFails = FALSE
INVARIANTS
  SentIsTopInAnyOrder

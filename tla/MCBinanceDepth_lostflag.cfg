\* A gap is noticed while a refresh is under way.
SPECIFICATION Spec
CONSTANTS
  None = None
  Symbol = {btc}
  Price = {1, 2}
  Vol = {0, 1}
  Depth = 2
  MaxUpdate = 4
  MaxTouch = 1
  MaxOpen = 2
  RestFails = FALSE
INVARIANTS
  FlagShowsGap

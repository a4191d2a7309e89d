\* Two full batches and a rest of depth, one and a rest of trades; no symmetry,
\* because of the liveness.
SPECIFICATION FairSpec
CONSTANTS
  None = None
  m_map_subinfo_depth = {i1, i2, i3, i4, i5}
  m_map_subinfo_trade = {i1, i6, i7}
  Batch = 2
  Docs = 3
  Resubscribes = TRUE
  MaxDrop = 3
  MaxTrouble = 3
INVARIANTS
  TypeOK
  CallsAreWhole
  AllAskedFor
  DocsSuffice
PROPERTIES
  SubscribedInTheEnd

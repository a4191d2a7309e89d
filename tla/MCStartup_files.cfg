\* Two entries, each of any kind: one address or two, all kinds of depth, one of
\* each flaw.  The process may end, hence no check for deadlock.
SPECIFICATION FairSpec
CONSTANTS
  Market = {m1, m2}
  None = None
  Entry <- MCEntry
  Bindable <- MCBindable
  Garbage <- MCGarbage
CHECK_DEADLOCK FALSE
INVARIANTS
  TypeOK
  ForwardedAsConfigured
PROPERTIES
  
  EverythingArrives

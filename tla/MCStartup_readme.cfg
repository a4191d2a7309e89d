\* Two entries, each of any kind: is what the README says of them followed?
SPECIFICATION Spec
CONSTANTS
  Market = {m1, m2}
  None = None
  Entry <- MCEntry
  Bindable <- MCBindable
  Garbage <- MCGarbage
CHECK_DEADLOCK FALSE
INVARIANTS
  EntriesAreFollowed

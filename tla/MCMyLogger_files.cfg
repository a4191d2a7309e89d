\* Two threads, three files of which one cannot be opened, a kill and restart;
\* no symmetry, because of the liveness.
SPECIFICATION FairSpec
CONSTANTS
  None = None
  Thread = {t1, t2}
  File = {market, other, nodir}
  Openable = {market, other}
  MaxLine = 2
  MaxKill = 1
INVARIANTS
  TypeOK
  FilesInOrder
PROPERTIES
  BookSpec
  LinesAreWritten

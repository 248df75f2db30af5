CONSTANTS
  w1 = w1
  w2 = w2
  i1 = i1
  NoWorker = NoWorker
  Workers = {w1, w2}
  Ids = {i1}
  MinStaleAfter = 1
  MaxAge = 2
  Ttls = {0, 1, 2}
  HistoryLimit = 2
SPECIFICATION Spec
INVARIANTS
  TypeOK
  LeaseClockReadable
PROPERTIES
  LeaseRespected
  DisplacementRecorded
  TerminalImmutable
  BlockLiftedCleanly
  ImplementsLease

SPECIFICATION Spec
CONSTANTS
  Messages = {m1, m2}
  Priorities = {0}
  OrderKeys = {0, 1}
  MaxRegistrations = 2
  MaxPosts = 2
  MaxSequence = 3
  MaxDepth = 6
INVARIANTS EveryPostHasOneFate IdsAreUnique
PROPERTY FifoPerKey

SPECIFICATION Spec
CONSTANTS
  Stages = {s1, s2}
  Entities = {e1}
  Models = {m1}
  Images = {t1, t2}
  Sets = 3
  MaxPresentations = 2
  MaxEffects = 2
  NoStage = NoStage
  Dead = Dead
SYMMETRY Symmetry
INVARIANTS
  TexturesResolve
  TexturesAreNeeded
  EffectsEndWithTheDisplay
PROPERTIES
  NothingDetachedIsDrawn
  TexturesAreShared
\* A stage that was shut down stays so, and handles are bounded.
CHECK_DEADLOCK FALSE

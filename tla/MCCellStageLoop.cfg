SPECIFICATION FairSpec
CONSTANTS
  Images = {i0, i1}
  Kinds = {"flat", "tex"}
  FrameFence = FrameFence
  NoImage = NoImage
  Dead = Dead
  Entities <- MCEntities
  KindOf <- MCKindOf
  Sizes = {kViewport, larger}
  kViewport = kViewport
  MaxFrames = 4
  MaxResizes = 2
  Failures = {"start", "begin", "submit", "resize"}
INVARIANTS
  InFlightIsLive
  MeshesAreOwned
  RequestedSizeFollowsWindow
  PictureIsLast
PROPERTIES
  SingletonsAreFree
  LoopEnds
\* The program ends; and after a refused submission it may wait for ever.
CHECK_DEADLOCK FALSE

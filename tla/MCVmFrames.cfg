SPECIFICATION Spec
CONSTANTS
  Frames = {f1, f2, f3, f4, f5}
  Generators = {g1, g2}
  RECURSION_MAX = 2
  MAX_FREE_FRAMES = 2
  MaxCalls = 4
  None = None
SYMMETRY Symmetric
INVARIANTS
  FramesAccounted
  RunningFramesLive
  CallsNest

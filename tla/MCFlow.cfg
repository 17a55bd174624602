SPECIFICATION Spec
CONSTANTS
  FRAME_NEST_MAX = 8
  MaxTrace = 6
  Executables <- ShapedExecutables
INVARIANTS
  TypeOK
  FrameHasShape
  NothingUnderflows
  TraceMatchesSource
PROPERTY Terminates

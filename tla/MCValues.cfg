SPECIFICATION Spec
CONSTANTS
  Bits = 6
  MaxLen = 3
  Points <- MCPoints
  Octets <- MCOctets
  Needles <- MCNeedles
INVARIANTS
  TextAgrees
  BytesAgree
  NumbersAgree
  WritingAgrees
CHECK_DEADLOCK FALSE

SPECIFICATION Spec
CONSTANTS
  x1 = x1
  x2 = x2
  x3 = x3
  Inst = {x1, x2, x3}
  init = init
  secret = secret
  Name = {init, secret}
  Own = Own
  Nothing = Nothing
  MaxClass = 4
  MaxSize = 4
  MaxUsed = 4
  MaxBases = 3
  MaxDepth = 2
SYMMETRY Symmetry
INVARIANTS
  OrderIfAny
  OutsidersSeePublic
  DelegateAnswers
PROPERTIES
  ReadYourWrites
CHECK_DEADLOCK FALSE

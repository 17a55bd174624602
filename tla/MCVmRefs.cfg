SPECIFICATION Spec
CONSTANTS
  o1 = o1
  o2 = o2
  o3 = o3
  o4 = o4
  o5 = o5
  o6 = o6
  o7 = o7
  Objects = {o1, o2, o3, o4, o5, o6, o7}
  Null = Null
  Name = Name
  Error = Error
  Signatures <- MCSignatures
  Scenarios <- MCScenarios
  Steps = 2
  CallSteps = 2
  MaxItems = 2
  MaxFrames = 2
CHECK_DEADLOCK FALSE
INVARIANT NothingDangles
PROPERTY BalancedSteps

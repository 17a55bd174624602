SPECIFICATION Spec
CONSTANTS
  a = a
  t = t
  Item = {a, t}
  Shared = {a}
  Talker = {t}
  Given <- Lent
  Index <- Indices
  Step <- Steps
  MaxLen = 3
  Self = Self
  Null = Null
  Junk = Junk
  Nobody = Nobody
INVARIANTS
  ReferencesExact
  OperationsAgree
PROPERTIES
  LockedNeverGrows
CHECK_DEADLOCK FALSE

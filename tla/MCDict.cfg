SPECIFICATION Spec
CONSTANTS
  Twins = {k1, k2}
  Cousins = {k3}
  Others = {}
  Keys <- KeyNames
  Vals = {v, w}
  NoVal = absent
  hash <- HashOf
  INIT_SIZE = 2
  MaxCount = 6
  MaxClears = 1
  NULL = NULL
  DEAD = DEAD
SYMMETRY Symmetric
VIEW State
INVARIANTS
  TableSound
  IteratorsExact
PROPERTY ImplementsMap

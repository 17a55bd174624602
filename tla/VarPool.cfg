SPECIFICATION Spec
CONSTANTS
  Addr = {a1, a2, a3}
  Static = Static
  TypeType = TypeType
  MAX_FREELIST_SIZE = 1
  MaxRoots = 2
  MaxItems = 1
INVARIANTS
  StorageSound
PROPERTIES
  ImplementsHeap
  Reclaimed

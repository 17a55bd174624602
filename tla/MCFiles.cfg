SPECIFICATION Spec
CONSTANTS
  Letter = Letter  Lead = Lead  Trail = Trail  Newline = Newline  Zero = Zero
  Space = 4
  IO_BUFFER_SIZE = 2
  MaxOffset = 5
  Initial <- MCInitial
  Counts <- MCCounts
  Offsets <- MCOffsets
  Chunks <- MCChunks
  Beyond = {}
  ReallocOfNothing = "block"
INVARIANTS
  BuffersExclusive
 

\* A buffer of two chunks that overflows.
SPECIFICATION FairSpec
CONSTANTS
  Threads = {t1, t2}
  NoThread = NoThread
  NumChunks = 2
  MaxIndex = 3
PROPERTY EveryChunkProcessed

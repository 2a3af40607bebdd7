\* One thread that frees, or two that allocate; orders 0 to 3.
SPECIFICATION Spec
CONSTANTS
  Threads = {t1, t2}
  NumPages = 7
  PageLen = 1
  MaxOrder = 4
  Regions <- OneRegion
  MaxRequest = 4
  Usages <- OneOrAllocating
  Null = Null
  Garbage = Garbage
SYMMETRY Symmetry
INVARIANTS TypeOK BlocksDisjoint NoPageLost  HeadersAreValid
PROPERTY OutOfMemoryMeansFull

\* A block is freed while its lower buddy is free.
SPECIFICATION Spec
CONSTANTS
  Threads = {t1}
  NumPages = 4
  PageLen = 1
  MaxOrder = 3
  Regions <- FourPages
  MaxRequest = 2
  Usages <- FreesAll
  Null = Null
  Garbage = Garbage
INVARIANT NoPageLost

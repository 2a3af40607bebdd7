\* A buffer of three chunks that overflows.
SPECIFICATION FairSpec
CONSTANTS
  Threads = {t1, t2}
  NoThread = NoThread
  NumChunks = 3
  MaxIndex = 4
INVARIANTS TypeOK ChunksAreExclusive ClaimSucceeds AcceptedInOrder NothingAfterALoss RecordsAreWhole
PROPERTIES LossIsReported ProcessedUnlessLost

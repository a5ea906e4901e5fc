SPECIFICATION FairSpec
CONSTANTS
  NumReaders = 2
  Frames = {f1}
  Pages = {p1}
  PeakGuards = 2
  MaxEpoch = 2
  MaxGeneration = 2
  NoFrame = NoFrame
  NoPage = NoPage
INVARIANTS
  IdentityReadSafe
PROPERTIES
  ImplementsLease
  EvictedIsReclaimed

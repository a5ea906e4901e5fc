CONSTANTS
  Openers = {o1}
  Readers = {r1}
  NumFiles = 1
  NumOps = 2
  QueueCapacity = 2
  MaxGeneration = 2
  MaxSequence <- MCMaxSequence
  MaxLeases = 1

SPECIFICATION FairSpec

INVARIANTS
  RegistrationFinds
  BarrierOrder
  NothingOutlivesFile
  ShutdownDrains

\* The pool may be dropped, after which nothing happens.
CHECK_DEADLOCK FALSE
PROPERTIES
  RetirementCompletes

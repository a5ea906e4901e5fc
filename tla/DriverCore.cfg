CONSTANTS
  Threads = {t1, t2}
  NumFiles = 1
  QueueCapacity = 2
  BatchCapacity = 2
  RetryBound = 1
  Units = 2
  Embedders <- MCEmbedders
  MaxGeneration = 2
  MaxOpGeneration = 2

SPECIFICATION Spec
SYMMETRY Symmetry

INVARIANTS
  BackendExact
  AccountingExact
  OpPlaced
  TeardownQuiet

\* The driver may be dropped, after which nothing happens.
CHECK_DEADLOCK FALSE

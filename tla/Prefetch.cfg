SPECIFICATION Spec
CONSTANTS
  Readers = {r1}
  FrameCount = 3
  Capacity = 2
  MaxReads = 2
  VectorWidth = 2
  LastPage = 5
  MaxTokens = 1
  Setups <- MCSetups
  Starts = {0}
  None = None
INVARIANTS
  LedgerExact
  SpansExact
  QueuesExact
  StreamKept

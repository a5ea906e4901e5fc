SPECIFICATION Spec
CONSTANTS
  Readers = {r1, r2}
  Frames = {f1, f2}
  Pages = {p1}
  NoFrame = NoFrame
  NoPage = NoPage
  HandleIds = {h1}
  MaxRetained = 2
  RingCapacity = 2
  Setups <- MCSetups
SYMMETRY Symmetry
INVARIANTS
  RetainedBytesStable
  AccountingExact
  AssertionsHold
  ReleaseKept

\* The pool may be dropped, after which nothing happens.
CHECK_DEADLOCK FALSE

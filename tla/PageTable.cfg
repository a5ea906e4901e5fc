SPECIFICATION Spec
CONSTANTS
  p1 = p1
  p2 = p2
  p3 = p3
  Pages = {p1, p2, p3}
  Readers = {r1}
  FrameCounts = {2, 3}
  ReadFrames = 2
  Homes <- MCHomes
  FileOf <- MCFileOf
  NoPage = NoPage
  NoFrame = NoFrame
SYMMETRY Symmetry
INVARIANTS
  IndexesExact
  PinnedIdentity
  MissJustified

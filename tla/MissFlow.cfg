SPECIFICATION FairSpec
CONSTANTS
  t1 = t1
  t2 = t2
  p1 = p1
  p2 = p2
  p3 = p3
  f1 = f1
  f2 = f2
  Threads = {t1, t2}
  Pages = {p1, p2, p3}
  NoThread = NoThread
  NoPage = NoPage
  NoFrame = NoFrame
  NoEntry = NoEntry
  NoToken = NoToken
  Setups <- MCSetups
INVARIANTS
  SingleFlight
  IndexesAgree
  WaiterExact
  SuccessProtects
PROPERTIES
  MissTerminates

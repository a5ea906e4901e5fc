SPECIFICATION FairSpec
CONSTANTS
  Owner = owner
  Others = {other}
  Submitter = submitter
  NoThread = NoThread
  Modes = {"ring"}
  MaxWakes = 1
  MaxReleases = 0
  MaxOps = 0
PROPERTIES
  WakeReturnsWait

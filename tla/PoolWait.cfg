SPECIFICATION FairSpec
CONSTANTS
  Owner = owner
  Others = {other}
  Submitter = submitter
  NoThread = NoThread
  Modes = {"eager", "ring", "ring_alone"}
  MaxWakes = 1
  MaxReleases = 1
  MaxOps = 1
PROPERTIES
  UnsharedWakeReturnsWait
  ReleaseIsDrained
  OpCompletes

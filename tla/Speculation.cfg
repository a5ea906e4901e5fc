SPECIFICATION FairSpec
CONSTANTS
  FrameCount = 3
  Credits = 2
  Fan = 2
  Readers = {r1}
INVARIANTS
  SpeculationExact
  FeedbackOrdered
PROPERTIES
  SearchExcused
  ConsumedIsRecovered

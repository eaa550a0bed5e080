\* An empty image, one of two blocks and one of four, whose numbers wrap.
SPECIFICATION FairSpec
CONSTANTS
  Lengths = {0, 3, 8}
  DataSize = 2
  BlockNumbers = 3
  CommandRetries = 3
  XmodemRetries = 4
  Polls = 3
  PropLine = 2
  HostLine = 3
INVARIANTS TypeOK FlashedIsImage OnlyWholeImageRuns SuccessMeansRunning
PROPERTIES FlushEnds

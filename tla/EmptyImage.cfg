SPECIFICATION Spec
CONSTANTS
  Lengths = {0, 3}
  DataSize = 2
  BlockNumbers = 3
  CommandRetries = 2
  XmodemRetries = 2
  Polls = 2
  PropLine = 2
  HostLine = 2
INVARIANT FlushReturns

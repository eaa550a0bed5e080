\* Any order of calls, and a queue that never overflows.
SPECIFICATION Spec
CONSTANTS
  Names = {"ledc_"}
  QueueSize = 3
  ErrorWindow = 1
  CommandTimeout = 2
  MaxSleep = 1
  MaxDebt = 3
  MaxCommands = 3
  EcuLine = 1
  PcLine = 2
INVARIANT AckIsOwn

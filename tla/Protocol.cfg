\* Any order of calls, a queue of two, three commands: overflow included.
SPECIFICATION Spec
CONSTANTS
  Names = {"ledc_"}
  QueueSize = 2
  ErrorWindow = 1
  CommandTimeout = 2
  MaxSleep = 1
  MaxDebt = 3
  MaxCommands = 3
  EcuLine = 1
  PcLine = 2
INVARIANTS TypeOK QueueIsNewest NoAckDiscarded OneOutstanding
PROPERTIES SentInOrder LoneAckIsOwn ImplementsDelivery

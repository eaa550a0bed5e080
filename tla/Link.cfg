SPECIFICATION Spec
CONSTANTS
  MaxFrames = 4
  MaxFaults = 1
  ReadSizes = {5, 9}
  kBufferSize = 85
  Commands = {3, 5, 86}
  MaxCommands = 2
INVARIANTS
  TypeOK
  AcceptedInOrder
  IntactIsAccepted
  SentIsWhole

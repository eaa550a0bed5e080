\* The IMU node with its protocol, one damaged packet and one reset service call.
CONSTANTS
  MaxSamples = 3
  MaxFaults = 1
  MaxRequests = 1
  Realtime = {FALSE}
  ReadSizes = {5}
  StampModulus = 256
  kRetryCount = 1
  kMPU9150ResetDuration = 0
  kMPU9150InstructionTimeout = 1
  kImuResetTimeout = 1
  kCycleOverBufferNum = 2
  CyclesPerCheck = 1
  CycleOverLimit = 1
SPECIFICATION Spec
INVARIANTS TypeOK PublishedIsNewest ResetIsAnswered
PROPERTY ResetEnds

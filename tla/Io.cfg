\* The USB-IO board with two exchanges and one fault, or the CGOS board with two GPIOs.
\* The counters stop the environment and the sketch, so that there are final states.
CONSTANTS
  MaxMessages = 2
  MaxCommands = 1
  MaxChanges = 1
  MaxLoops = 5
  MaxLost = 1
  Colors = {30, 130}
  UIntModulus = 65536
  kBumperCount = 2
  kCeaseComunicate = 2
  kBlinkWait = 2
  Pins = {0, 3, 4, 7, 8}
  MaxGpios = 2
  MaxCycles = 2
  Handles = {1, 2}
SPECIFICATION Spec
INVARIANTS InStep HandleIsValid
CHECK_DEADLOCK FALSE

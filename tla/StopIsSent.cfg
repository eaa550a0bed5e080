SPECIFICATION MainSpec
CONSTANTS
  Names = {"time_", "mute_", "start", "stop_", "ledc_"}
  Colors = {black, red}
  Black = black
  QueueSize = 3
  ErrorWindow = 2
  CommandTimeout = 5
  ProcessTimeout = 4
  MaxSleep = 1
  MaxDebt = 6
  MaxCommands = 5
  EcuLine = 1
  PcLine = 1
INVARIANT StopIsSent

SPECIFICATION FairSpec
CONSTANTS
  Names = {"time_", "mute_", "start", "stop_", "ledc_"}
  Colors = {black, red}
  Black = black
  QueueSize = 3
  ErrorWindow = 1
  CommandTimeout = 4
  ProcessTimeout = 3
  MaxSleep = 1
  MaxDebt = 5
  MaxCommands = 6
  EcuLine = 1
  PcLine = 1
INVARIANTS MainTypeOK CountersExact SetupAnswered LedConverges
PROPERTIES StartupEnds ShutdownEnds CommandsComplete HeartbeatsGoOn

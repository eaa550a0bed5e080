SPECIFICATION Spec
CONSTANTS
  Programs = {"library", "exxx_read_data", "exxx_write_data", "exxx_hash", "exxx_eeprom", "exxx_read", "exxx_write"}
  MaxCalls = 2
  MaxFaults = 1
  ReadSizes = {5}
  Statuses = {0, 110}
INVARIANTS
  TypeOK
  AcceptedWasSent
  SuccessIsOwn
  ToolTellsTruth

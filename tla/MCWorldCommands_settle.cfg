SPECIFICATION Spec
CONSTANTS
  GatewayQueueSize = 1
  WorldQueueSize = 1
  PipeSize = 1
  Quits = {FALSE, TRUE}
  StartupCount = 0
  AutoReconnect = TRUE
  Autoconnect = TRUE
  None = None
  MaxCommands = 2
  MaxAttempts = 2
  MaxControls = 1
  MaxRestarts = 1
INVARIANTS
  WrittenInOrder
  ViewAgrees
PROPERTIES
  CommandsSettle
CHECK_DEADLOCK FALSE

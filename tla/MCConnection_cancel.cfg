SPECIFICATION ConnectionSpec
CONSTANTS
  lobby = lobby
  line = line
  None = None
  Worlds <- MCWorlds
  Classes <- MCClasses
  Generations = {0}
  Subscribers = {c1, c2}
  Requests <- MCRequests
  Limit <- MCLimit
  IngressQueueSize = 1
  SubscriberQueueSize = 1
  SourceBytes <- MCSourceBytes
  GagSettings <- NoGag
  MaxEvents = 3
  MaxRestarts = 1
  MaxCancels = 1
  \* recovery and supervisor
  MaxGeneration = 3
  MaxAttempts = 2
  MaxFaults = 2
  MaxRecoveries = 9
  MaxChildren = 3
  MaxErrors = 0
PROPERTIES
  UiGetsFeed
CHECK_DEADLOCK FALSE

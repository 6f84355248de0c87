SPECIFICATION MCSpec
CONSTANTS
  lobby = lobby
  garden = garden
  line = line
  notice = notice
  chatter = chatter
  None = None
  Worlds <- MCWorlds
  Classes <- MCClasses
  Generations = {0, 1}
  Subscribers = {s1}
  Requests <- MCRequests
  Limit <- MCLimit
  IngressQueueSize = 1
  SubscriberQueueSize = 2
  SourceBytes <- MCSourceBytes
  GagSettings <- MCGags
  MaxEvents = 4
INVARIANTS
  FeedExact
  ClosedIsTold
  SnapshotReports
PROPERTIES
  FeedReachesUi
CHECK_DEADLOCK FALSE

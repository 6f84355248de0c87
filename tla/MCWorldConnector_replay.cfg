SPECIFICATION Spec
CONSTANTS
  Worlds <- MCWorlds
  Connections <- MCConnections
  lobby = lobby
  garden = garden
  c1 = c1
  c2 = c2
  None = None
  Sizes = {1, 2}
  PerWorldSize = 2
  GlobalSize = 3
  PipeSize = 1
  AckPipeSize = 3
  MaxFrames = 2
  MaxCrashes = 1
  MaxAborts = 1
INVARIANTS
  OnlyAbortedLost
  SeenInOrder
  GapAnnouncedFirst
PROPERTIES FramesDelivered
CHECK_DEADLOCK FALSE

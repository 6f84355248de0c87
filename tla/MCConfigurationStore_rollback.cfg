SPECIFICATION StoreSpec
CONSTANTS
  c1 = c1
  c2 = c2
  k1 = k1
  k2 = k2
  v = v
  w = w
  Keys = {k1, k2}
  Values = {v, w}
  Unset = Unset
  Callers = {c1, c2}
  Asks <- MigrationAsks
  Edits <- MCBatch
  Profiles <- MCProfiles
  Archives <- MCArchives
  Legacy <- MCLegacy
  None = None
  MaxRevision = 3
  MaxCrashes = 0
SYMMETRY CallersAlike
INVARIANT
  RollbackIsSafe

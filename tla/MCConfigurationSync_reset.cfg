SPECIFICATION Spec
CONSTANTS
  shared = shared
  own = own
  v = v
  w = w
  Keys = {shared, own}
  Shared = {shared}
  Own = {own}
  Values = {v, w}
  Unset = Unset
  Callers = {u1, u2}
  Asks <- ResetAsks
  Edits <- MCReset
  Profiles = {}
  Archives = {}
  Legacy <- MCLegacy
  None = None
  MaxRevision = 2
  MaxCrashes = 1
  MaxBreaks = 1
INVARIANT
  ResetReveals

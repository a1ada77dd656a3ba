SPECIFICATION DataSpec
CONSTANTS
  Jobs = {j1}
  Sandboxes = {s1, s2}
  Observers = {o1, o2}
  MaxEvents = 2
  None = None
  p = p
  q = q
  b1 = b1
  b2 = b2
  v1 = v1
  v2 = v2
  Blobs = {b1, b2}
  Views = {v1, v2}
  V1Views = {v1}
  Grants <- TwoGrants
  CacheLimit = 1
  MaxGrants = 2
  Networks = {n1, n2}
  Callers = {c1, c2}
  MaxSwitches = 4
  NoNetwork = NoNetwork
INVARIANT NothingForgotten
INVARIANT KnownIsComplete
 
 
INVARIANT MountedViewStays
INVARIANT NetworkAsAnswered
PROPERTY EndedStaysEnded
SYMMETRY Symmetry
CHECK_DEADLOCK FALSE

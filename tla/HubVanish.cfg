SPECIFICATION Spec
CONSTANTS
  Containers = {c1, c2}
  Sandboxes = {s1}
  Requests = {r1}
  Keys = {k1}
  None = None
  Shapes = {"plain"}
  Adversity = {"list"}
  PoolTarget = 1
  MaxCrashes = 0
  Reconciling = TRUE
  MaxDrains = 0
SYMMETRY Symmetry
\* An idle Hub whose calls are all made waits for ever.
CHECK_DEADLOCK FALSE
PROPERTY OnlyVanishedLeavePool

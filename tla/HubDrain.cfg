SPECIFICATION Spec
CONSTANTS
  Containers = {c1, c2}
  Sandboxes = {s1, s2}
  Requests = {r1, r2}
  Keys = {k1}
  None = None
  Shapes = {"plain", "inputs"}
  Adversity = {"flaky"}
  PoolTarget = 1
  MaxCrashes = 0
  Reconciling = FALSE
  MaxDrains = 1
SYMMETRY Symmetry
\* An idle Hub whose calls are all made waits for ever.
CHECK_DEADLOCK FALSE
INVARIANTS TenantsApart DedicatedNeverShared OneInputsSandbox

SPECIFICATION Spec
CONSTANTS
  u1 = u1
  u2 = u2
  r = r
  m1 = m1
  m2 = m2
  Areas = {a1, a2}
  Instances = {i1, i2}
  Calls = {c1, c2}
  Owners <- TwoUsers
  Shapes <- TwoShapes
  MountKeys = {m1, m2}
  MountSlots = 4
  MaxPerRole = 1
  MaxPerUser = 0
  MaxMishaps = 1
  MaxRounds = 1
  None = None
SYMMETRY Symmetry
CHECK_DEADLOCK FALSE
INVARIANTS TypeOK LimitsHold RegistrySound PlacesAreOwned  RefsMatchHolders NoUnmountUnderInstance  
PROPERTY AnswerStands

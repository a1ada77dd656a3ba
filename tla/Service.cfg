SPECIFICATION ServiceSpec
CONSTANTS
  Bridges = {b1, b2}
  Forwards = TRUE
  MaxTroubles = 1
  Jobs = {j1, j2}
  Timed = {j1}
  MaxLive = 1
  MaxEvents = 1
  NoJob = NoJob
  Procs = {p1, p2}
  Retain = 2
  MaxBytes = 3
  MaxCalls = 2
  Nobody = Nobody
INVARIANT AdmittedMeansIsolated
INVARIANT WindowsAreBounded
 
INVARIANT OneEngine
INVARIANT LogsAreSound
PROPERTY IdleMeansIdle
PROPERTY IsolationReturns
 
 
PROPERTY EndReachesReader
CHECK_DEADLOCK FALSE

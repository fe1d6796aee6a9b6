CONSTANTS
  NumThreads = 3
  a = a
  b = b
  e1 = e1
  e2 = e2
  Callers = {a, b}
  Engines = {e1}
  EngineOf <- OneEngine
  Totals = {2, 4}
  MaxJobs = 3
  MaxStray = 1
SPECIFICATION PoolSpec
INVARIANTS
  PoolTypeOK
  OneJobAtATime
  EachIndexOnce
  FnAlive
PROPERTIES
  EveryJobJoined
  ShutdownCompletes

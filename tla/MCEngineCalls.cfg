CONSTANTS
  Threads = {t1, t2}
  Requests <- MCRequests
  MaxCalls = 2
SPECIFICATION Spec
INVARIANTS
  TypeOK
  OutputUndisturbed
  LockDiscipline
  DoneExactlyOnce
  CancelStops
PROPERTY EveryCallReturns

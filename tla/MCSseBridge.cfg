CONSTANTS
  Clients = {c1, c2}
  Second = c2
  Requests <- MCRequests
SPECIFICATION MCSpec
INVARIANTS
  TypeOK
  StreamFaithful
  NoOrphanJob
  DisconnectNoticed
PROPERTY EveryResponseEnds

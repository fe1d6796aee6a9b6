CONSTANTS
  Clients = {c1}
  Second = c1
  Requests <- MCRequests
SPECIFICATION Spec
INVARIANT NetOnlyWithoutDone

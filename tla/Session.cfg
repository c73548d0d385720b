\* Two clients, with retries or without, an aborted request and a lost connection.
SPECIFICATION Spec
CONSTANTS
  None = None
  Sessions = {"s1", "s2"}
  Workloads <- MCWorkloads
  Initial <- MCInitial
  Counter <- MCCounter
  MaxRetries = 1
  MaxAborts = 1
  MaxDisconnects = 1
INVARIANTS
  NeverHalts
  IndexExact
  UniqueWhenIndexed
  ViewsConsistent
  IncrementsCounted
  OrphansHarmless

\* A node that crashes while it applies transactions on an indexed table.
SPECIFICATION Spec
CONSTANTS
  None = None
  Initial <- MCInitial
  Calls <- MCCalls
  MaxLog = 4
  MaxCrashes = 1
  MaxLag = 1
INVARIANTS
  ReplayExact
  HaltsOnlySpoiled
  EndIsAtomic
CHECK_DEADLOCK FALSE

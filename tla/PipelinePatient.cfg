SPECIFICATION FairSpec
CONSTANTS
  Calls = {c1, c2, c3}
  Approvals = {a1}
  WorkerSlots = 1
  MaxPolls = 2
  MaxFaults = 0
  Client = "patient"
  SinglePhase = FALSE
CHECK_DEADLOCK FALSE
INVARIANTS
  SuccessTold
PROPERTIES
  CallsEnd
  LifecycleImplemented

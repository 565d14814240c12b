SPECIFICATION Spec
CONSTANTS
  Calls = {c1, c2}
  Approvals = {}
  WorkerSlots = 2
  MaxPolls = 1
  MaxFaults = 0
  Client = "serial"
  SinglePhase = FALSE
CHECK_DEADLOCK FALSE
INVARIANTS
  ProcessingIsExclusive

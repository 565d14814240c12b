SPECIFICATION Spec
CONSTANTS
  Calls = {c1}
  Approvals = {}
  WorkerSlots = 1
  MaxPolls = 1
  MaxFaults = 0
  Client = "patient"
  SinglePhase = FALSE
CHECK_DEADLOCK FALSE
INVARIANTS
  ClientToldOutcome

SPECIFICATION Spec
CONSTANTS
  Calls = {c1, c2}
  Approvals = {a1}
  WorkerSlots = 2
  MaxPolls = 2
  MaxFaults = 1
  Client = "any"
  SinglePhase = FALSE
CHECK_DEADLOCK FALSE
SYMMETRY Symmetry
INVARIANTS
  TypeOK
  ArtifactsMatchStatus
  PollBudgetHolds

SPECIFICATION FairSpec
CONSTANTS
  Calls = {c1, c2, c3}
  Approvals = {a1}
  WorkerSlots = 2
  MaxPolls = 2
  MaxFaults = 0
  Client = "serial"
  SinglePhase = TRUE
CHECK_DEADLOCK FALSE
INVARIANTS
  ProcessingIsExclusive
  FlagWhileEngaged
  ProcessingMeansRunning
  JobFitsPhase
  DiagnosisFitsStatus
PROPERTIES
  StatusOnlyAdvances
  LifecycleImplemented

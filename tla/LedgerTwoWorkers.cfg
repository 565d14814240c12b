SPECIFICATION Spec
CONSTANTS
  k1 = k1
  k2 = k2
  n = n
  Accounts = {m, s}
  Synced = {s}
  Keys = {k1, k2, n}
  NullKeys = {n}
  Batches <- MCBatches
  Tasks = {t1, t2}
  Approvals = {}
  Entries = {}
  Edits = {}
  WorkerSlots = 2
  MaxLost = 0
CHECK_DEADLOCK FALSE
INVARIANTS
  IngestTold

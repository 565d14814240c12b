SPECIFICATION Spec
CONSTANTS
  k1 = k1
  k2 = k2
  n = n
  Accounts = {m, s}
  Synced = {s}
  Keys = {k1, k2, n}
  NullKeys = {n}
  Batches <- MCBatches
  Tasks = {t1, t2}
  Approvals = {p1}
  Entries = {}
  Edits = {}
  WorkerSlots = 1
  MaxLost = 1
CHECK_DEADLOCK FALSE
INVARIANTS
  SyncedRowsFromBank
  SyncedOnce
  PushLands
PROPERTIES
  SyncedHistoryKept

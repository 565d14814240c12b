SPECIFICATION FairSpec
CONSTANTS
  k1 = k1
  k2 = k2
  n = n
  Accounts = {m, s}
  Synced = {s}
  Keys = {k1, k2, n}
  NullKeys = {n}
  Batches <- MCBatches
  Tasks = {}
  Approvals = {p1, p2}
  Entries = {e1}
  Edits = {d1}
  WorkerSlots = 1
  MaxLost = 0
CHECK_DEADLOCK FALSE
INVARIANTS
  TypeOK
  KeyedRowsUnique
PROPERTIES
  WritersEnd

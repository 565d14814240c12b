SPECIFICATION Spec
CONSTANTS
  Users = {u1}
  Customers = {c1, c2}
  Shared = {}
  Rows = {r1, r2}
  Links = {i1, i2}
  Callbacks = {k1, k2}
  Logins = {l1, l2}
  Pushes = {}
  Careful = FALSE
  MaxLost = 0
CHECK_DEADLOCK FALSE
SYMMETRY Symmetry
INVARIANTS
  OneUserPerCustomer

SPECIFICATION Spec
CONSTANTS
  Users = {u1, u2}
  Customers = {c1, c2}
  Shared = {c2}
  Rows = {r1, r2, r3}
  Links = {i1, i2}
  Callbacks = {k1, k2}
  Logins = {l1, l2}
  Pushes = {p1}
  Careful = TRUE
  MaxLost = 1
CHECK_DEADLOCK FALSE
SYMMETRY Symmetry
INVARIANTS
  TypeOK
  OneUserPerCustomer
  LinkOfOneCustomer
  PushGoesHome
  LinkedHasAccounts
PROPERTIES
  CustomerKeepsUser
  LinkedStays

SPECIFICATION Spec
CONSTANTS
  Users = {u1}
  Connections = {c1, c2}
  Senders = {s1, s2, s3, s4}
  None = None
  Capacity = 2
INVARIANTS
  LaggedClientIsTold
CHECK_DEADLOCK FALSE

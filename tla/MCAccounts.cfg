SPECIFICATION Spec
CONSTANTS
  admin = admin
  default = default
  guest = guest
  t0 = t0
  t1 = t1
  r1 = r1
  r2 = r2
  r3 = r3
  s1 = s1
  s2 = s2
  Users = {admin, default, guest}
  Tokens = {t0, t1}
  Requests = {r1, r2, r3}
  Replicas = {s1, s2}
  NoUser = NoUser
  NoToken = NoToken
  Nobody = Nobody
  Admin = admin
  AdminToken = t0
  Bootstraps = {s1}
  Default = default
  LegacyVersion = 3
  Ops <- MCOps
  MaxStarts = 2
INVARIANTS
  RefusalsHold
  CredentialsWork
  LegacyKept
SYMMETRY Symmetry
CHECK_DEADLOCK FALSE

SPECIFICATION Spec
CONSTANTS
  Users = {u1}
  Domains = {playlists, settings}
  Requests = {r1, r2, r3}
  NoRequest = NoRequest
  Absent = Absent
  Versions = {0, 1}
  OneWriter = FALSE
INVARIANTS
  NoLostUpdate
CHECK_DEADLOCK FALSE

CONSTANTS
  d1 = d1
  d2 = d2
  playlists = playlists
  settings = settings
  r1 = r1
  r2 = r2
  r3 = r3
  Devices = {d1, d2}
  Domains = {playlists, settings}
  User = User
  Requests = {r1, r2, r3}
  NoRequest = NoRequest
  Absent = Absent
  Backlog = 1
  MaxDrops = 1
SPECIFICATION FairClientsSpec
INVARIANTS SameVersionSameContent NobodyIsLeftBehind
PROPERTIES NothingUnseenIsReplaced DevicesConverge
CHECK_DEADLOCK FALSE

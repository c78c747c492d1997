SPECIFICATION Spec
CONSTANTS
  Users = {u1, u2}
  Domains = {playlists, settings}
  Requests = {r1, r2, r3}
  NoRequest = NoRequest
  Absent = Absent
  Versions = {0, 1}
  OneWriter = FALSE
SYMMETRY Symmetry
INVARIANTS
  OtherDomainsKept
  AnswersMatchTable
  LocksReleased
  EventsFollowCommits
  UndisturbedWriteIsAtomic
CHECK_DEADLOCK FALSE

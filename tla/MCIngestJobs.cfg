SPECIFICATION FairSpec
CONSTANTS
  Jobs = {j1, j2}
  Sources = {genius, lastfm}
  Workers = {w1, w2}
  Calls = {e1, e2}
  Users = {u1}
  None = None
  MaxAttempts = 2
  AutoLimit = 1
  MaxFaults = 2
INVARIANTS
  OneHolderPerJob
  VerdictsAreEarned
  QuotaRespected
PROPERTIES
  AnswersKept
  JobsSettle
CHECK_DEADLOCK FALSE

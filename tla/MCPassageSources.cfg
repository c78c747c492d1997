CONSTANTS
  p1 = p1
  Pages = {p1}
  Languages = 2
  MaxParts = 2
  MaxTitles = 2
  MaxCandidates = 3
  MaxWorks = 2
  Untouched = Untouched
  Kept = Kept
SPECIFICATION FairSpec
INVARIANTS OutcomeEarned StoredAsFound RequestsBounded
PROPERTY FetchEnds
CHECK_DEADLOCK FALSE

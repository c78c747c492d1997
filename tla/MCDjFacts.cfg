SPECIFICATION Spec
CONSTANTS
  Facts = {fw, fs}
  Structured = {fs}
  Contributions = {c1, c2}
  Reports = {r1, r2}
  Users = {u1, u2}
  Events = {e1, e2}
  None = None
  MaxRetries = 1
SYMMETRY Symmetry
INVARIANTS
  ContributionsAreConfirmed
  PlayedAnswersAgree
  NotToldAgain
CHECK_DEADLOCK FALSE

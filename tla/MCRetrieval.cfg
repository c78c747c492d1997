SPECIFICATION Spec
CONSTANTS
  d1 = d1
  d2 = d2
  Documents = {d1, d2}
  TargetTokens = 4
  MaxTokens = 5
  Sizes = {1, 3, 5, 10}
  MaxPieces <- MCMaxPieces
  BudgetTokens = 9
  PerDocument = 2
INVARIANTS
  ChunksFit
  NothingLost
  SmallOnlyWhenItMustBe
  BudgetKept
  NewBeforeOld
CHECK_DEADLOCK FALSE

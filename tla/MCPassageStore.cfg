SPECIFICATION FairSpec
CONSTANTS
  Refs = {r1}
  Bodies = {long, short}
  LongBody = long
  ChunkCount <- MCChunkCount
  Upserts = {w1, w2, w3}
  Deletes = {x1}
  Listeners = {l1, l2}
  Users = {u1}
  None = None
INVARIANTS
  DocumentsAreWhole
PROPERTIES
  NotToldAgain
  ImplementsLibrary
  UpsertsEnd
CHECK_DEADLOCK FALSE

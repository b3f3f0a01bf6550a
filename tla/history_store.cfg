SPECIFICATION HFairSpec
CONSTANTS
  Handles = {h1, h2}
  NoHandle = NoHandle
  Statements = {s1, s2, s3}
  MaxEntries = 2
  Foreign <- FilesFound
INVARIANTS
  RecallEndsWithPending
  NothingLost
PROPERTIES
  SavesAreAtomic
  AppendReturns

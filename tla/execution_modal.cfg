SPECIFICATION FairSpec
CONSTANTS
  Sessions = {l1}
  NoSession = NoSession
  Statements = {s1}
  Queries = {q1}
  TypedSlashes = {}
  ModalSlashes = {m1}
  NoTask = NoTask
  Typing = {s1}
  MaxInbox = 1
  MaxLog = 4
INVARIANTS
  FailClosed
  CancelHitsRunning
PROPERTIES
  JournalImplemented
  RunningEnds

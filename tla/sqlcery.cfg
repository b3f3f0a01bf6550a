SPECIFICATION CalmSpec
CONSTANTS
  Conns = {c1, c2}
  NoConn = NoConn
  Attempts = {a1, a2}
  NoAttempt = NoAttempt
  CommandLine = {c1}
  MaxMail = 1
  MaxModals = 1
  Statements = {s1}
  Queries = {q1}
  TypedSlashes = {}
  ModalSlashes = {}
  NoTask = NoTask
  Typing = {s1}
  MaxInbox = 1
  MaxLog = 2
CHECK_DEADLOCK FALSE
INVARIANTS
  UncrossedHistory
  UncrossedAdapters
  UncrossedResults

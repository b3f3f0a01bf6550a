SPECIFICATION CalmSpec
CONSTANTS
  Conns = {c1, c2}
  NoConn = NoConn
  Attempts = {a1, a2}
  NoAttempt = NoAttempt
  CommandLine = {c1}
  MaxMail = 1
  MaxModals = 2
  Statements = {}
  Queries = {}
  TypedSlashes = {m1}
  ModalSlashes = {m1}
  NoTask = NoTask
  Typing = {"connect", "slash", "malformed_slash"}
  MaxInbox = 1
  MaxLog = 2
CHECK_DEADLOCK FALSE
PROPERTIES
  UncrossedSwitches

SPECIFICATION SFairSpec
CONSTANTS
  Conns = {c1, c2}
  NoConn = NoConn
  Attempts = {a1, a2}
  NoAttempt = NoAttempt
  CommandLine = {NoConn, c1}
  MaxMail = 1
  MaxModals = 3
CHECK_DEADLOCK FALSE
INVARIANTS
  LiveAdapterNeverClosed
  OpenIsCancellable
  AdaptersAccountedFor
PROPERTIES
  SwitchIsTransactional
  LockLifts

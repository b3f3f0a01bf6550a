SPECIFICATION OrderlySpec
CONSTANTS
  Sessions = {l1}
  NoSession = NoSession
  Statements = {s1}
  Queries = {q1, q2}
  TypedSlashes = {t1}
  ModalSlashes = {t1}
  NoTask = NoTask
  Typing = {s1, "slash"}
  MaxInbox = 1
  MaxLog = 4
SYMMETRY Identities
INVARIANTS
  RunningWhileInFlight
  UnwrittenCompletionIsPending
  EveryInvocationRecalled
PROPERTIES
  BlockedUntilWritten

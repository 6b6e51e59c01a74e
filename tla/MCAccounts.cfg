SPECIFICATION MCSpec
CONSTANTS
  Ids = {bank, invest}
  Investments = {invest}
  Edited = {invest}
  Openings = {1}
  Handlers = {h1, h2}
  ChunkSize = 1
  MaxMoves = 2
  MaxHeld = 2
  MaxDeletes = 2
  Absent = Absent
  Executions = {e1, e2}
  Accounts = {a1, a2}
  CreateKeys = {k1, k2}
  DeleteKeys = {d1, d2}
  MaxAttempts = 3
  MaxCalls = 4
  None = None
INVARIANTS
  BalanceFollowsLiveRows
  ClosedAccountIsDrained
  AcknowledgedMeansGone
  AnswersAreTrue
PROPERTIES
  OnlyMovementsMoveMoney
  EveryDeletionEnds
  KeepsPromise
  EveryCallEnds
CHECK_DEADLOCK FALSE

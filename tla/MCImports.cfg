SPECIFICATION MCSpec
CONSTANTS
  Handlers = {h1, h2}
  Files = {1, 2}
  FileLength = 2
  ChunkSize = 1
  MaxRuns = 3
  MaxTxns = 2
  MaxReviewed = 4
  NoBatch = NoBatch
  Accounts = {"rupiah", "yen"}
  Places <- MCPlaces
  Documents <- MCDocuments
  Piece = 2
  MaxEdits = 2
  MaxStagings = 2
  MaxPresses = 2
  MaxTicks = 1
  Nil = Nil
SYMMETRY HandlerSymmetry
INVARIANTS
  RowIsBookedOnce
  StagingIsFaithful
  BatchTellsTheFile
PROPERTIES
  BookedAsShown
CHECK_DEADLOCK FALSE

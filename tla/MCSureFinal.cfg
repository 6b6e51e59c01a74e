SPECIFICATION MCSpec
CONSTANTS
  Accounts = {"cash", "card"}
  Overdraft = {"cash"}
  Exports = {"old"}
  Id <- MCId
  AccountOf <- MCAccountOf
  AmountOf <- MCAmountOf
  DayOf <- MCDayOf
  Standard = {"s1", "s2", "s3"}
  Excluded = {}
  Bundle <- MCBundle
  Pairs <- MCPairs
  Valuations <- MCValuations
  Today = 9
  Meta <- MCMeta
  LegMenu <- MCLegMenu
  TransferMenu <- MCTransferMenu
  MaxLegs = 0
  PromoteChunkSize = 1
  MaxMigrations = 2
  MaxTouched = 0
  MaxDeletes = 0
INVARIANT FinishedRunMatchesSure
CHECK_DEADLOCK FALSE

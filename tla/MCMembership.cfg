SPECIFICATION FamilySpec
CONSTANTS
  Accounts = {"cash", "card"}
  Overdraft = {"cash"}
  Exports = {"old", "new"}
  Id <- MCId
  AccountOf <- MCAccountOf
  AmountOf <- MCAmountOf
  DayOf <- MCDayOf
  Standard = {"s1", "s2", "s3"}
  Excluded = {}
  Bundle <- MCBundle
  Pairs <- MCPairs
  Valuations <- MCValuations
  Today = 9
  Meta <- MCMeta
  LegMenu <- MCLegMenu
  TransferMenu <- MCTransferMenu
  MaxLegs = 4
  PromoteChunkSize = 1
  MaxMigrations = 2
  MaxTouched = 1
  MaxDeletes = 1
  Users = {u1, u2, u3}
  Families = {f1, f2}
  Handlers = {h1, h2}
  Roles = {"owner", "admin", "member"}
  MaxCalls = 3
  MaxUpdates = 1
  Nobody = Nobody
SYMMETRY MembershipSymmetry
INVARIANTS
  RunKeepsItsWord
  NothingIsGuessed
  FamilyHasOwner
PROPERTIES
  HandlersKeepHomes
  RevokedChangeNothing
CHECK_DEADLOCK FALSE

SPECIFICATION MCSpec
CONSTANTS
  Cash = {c1, c2}
  Tracked = {t1}
  Dates = {1, 2, 3}
  Today = 2
  Amounts = {1}
  Values = {3}
  Fees = {1}
  Opening = 1
  MaxMoves = 2
  MaxValuations = 3
  NoMove = NoMove
  NoValuation = NoValuation
  Slots = {s1, s2}
  Days = {0, 1, 2}
  Times = {0, 1, 3}
  Deltas = {1}
  Asserted = {1, 5}
  Ahead = 1
  MaxRows = 2
  MaxAnchors = 2
  MaxBegins = 4
  NoRow = NoRow
  NoAnchor = NoAnchor
  Idle = Idle
  Clerks = {k1, k2}
  SystemCategories <- MCSystem
  Migrated <- MCMigrated
  Filed <- MCFiled
  Wanted <- MCWanted
  Spendings <- MCSpendings
  Zones <- MCZones
  Bases = {"IDR", "USD"}
  FirstDay <- MCFirstDay
  None = None
  MaxInputs = 4
SYMMETRY Symmetry
INVARIANTS
  CashIsSumOfLiveRows
  TrackedFollowsNewest
  LegsDieTogether
  SpendingIsInOneMonth
  TrailTellsThePresent
  NamesStayApart
PROPERTIES
  DriftIsExplained
CHECK_DEADLOCK FALSE

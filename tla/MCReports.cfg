SPECIFICATION ReportsSpec
CONSTANTS
  Currencies = {"idr", "usd"}
  Default = "idr"
  Conv <- MCConv
  Scale = 2
  CurrencyOf <- MCCurrencyOf
  Liability = {"card"}
  Opened <- MCOpened
  Rows <- MCRows
  Rates <- MCRates
  Today = 2
  LastDay = 3
  Week = 2
  MonthStarts <- MCMonthStarts
  Nothing = "nothing"
  MaxRows = 3
  MaxUpserts = 2
  MaxBases = 1
  MaxDeletes = 1
INVARIANTS
  ProjectionsAreFresh
  ReportsTellTheBook
CHECK_DEADLOCK FALSE

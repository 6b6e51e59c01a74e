SPECIFICATION MCSpec
CONSTANTS
  Accounts = {a1, a2}
  Amounts = {1}
  Destinations = {3}
  EntryKinds = {"standard"}
  Fees = {2}
  EditFees = {2}
  MaxTxn = 1
  NoRow = NoRow
  NoTransfer = NoTransfer
  AccountIds = {"bank", "jar", "fund", "card", "gold"}
  TypeOf <- MCTypeOf
  CurrencyOf <- MCCurrencyOf
  DefaultCurrency = "IDR"
  Unset = Unset
  ReplayKeys = {}
  TrackedAtFirst = {"gold"}
  Sums = {2, 4}
  MaxChanges = 0
  AccountsNow <- MCAccountsNow
  ScaleOf <- MCScaleOf
  Finest = 10
  Typed = {10, 100}
  Purposes = {"savings"}
  CategoryType <- MCCategoryType
  Ledgered <- MCLedgered
  MaxInputs = 1
INVARIANT EditKeepsTheFee
CHECK_DEADLOCK FALSE

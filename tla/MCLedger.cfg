SPECIFICATION MCSpec
CONSTANTS
  Accounts = {a1, a2}
  Amounts = {1}
  Destinations = {3}
  EntryKinds = {"standard"}
  Fees = {2}
  EditFees = {2}
  MaxTxn = 5
  NoRow = NoRow
  NoTransfer = NoTransfer
  AccountIds = {"bank", "jar", "fund", "card", "gold"}
  TypeOf <- MCTypeOf
  CurrencyOf <- MCCurrencyOf
  DefaultCurrency = "IDR"
  Unset = Unset
  ReplayKeys = {"k"}
  TrackedAtFirst = {"gold"}
  Sums = {2, 4}
  MaxChanges = 1
  AccountsNow <- MCAccountsNow
  ScaleOf <- MCScaleOf
  Finest = 10
  Typed = {10, 100}
  Purposes = {"savings"}
  CategoryType <- MCCategoryType
  Ledgered <- MCLedgered
  MaxInputs = 5
SYMMETRY AccountSymmetry
INVARIANTS
  BalanceIsSumOfLiveRows
  TransfersStayWhole
  AuditDriftIsExplained
  SupersessionIsLinear
  SameIsReplayed
  WhatShowsIsBooked
  UntouchedEditKeepsTheRow
PROPERTIES
  HistoryIsAppendOnly
CHECK_DEADLOCK FALSE

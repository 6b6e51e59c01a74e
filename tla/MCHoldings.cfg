SPECIFICATION MCSpec
CONSTANTS
  Cash = {c}
  Tracked = {a1, a2}
  Instruments = {i1, i2}
  Series = {gold, usd}
  Metals = {gold}
  Pairs = {usd}
  QuantityScale = 2
  SpotScale = 2
  GramsPerOunce = 3
  MinorUnits = 2
  Quantities = {1, 3}
  Amounts = {3}
  Prices = {3}
  Quotes = {7}
  Values = {5}
  MaxHoldings = 2
  MaxOps = 4
  None = None
  Syncs = {s1, s2}
  Funds = {"idr_fund", "usd_fund"}
  FundCurrency <- MCFundCurrency
  GoldChain <- MCGoldChain
  Configured = {"logam_mulia", "reksadana_id"}
  Days = {1, 2}
  Navs = {4}
  Pages <- MCPages
  PriceScale = 2
  GramScale = 10
  OunceNum = 31
  OunceDen = 10
  LatestTail = 1
  MaxNews = 2
  MaxCalls = 2
  MaxRegistered = 1
SYMMETRY Symmetry
INVARIANTS
  PositionsAddUp
PROPERTIES
  QuotesTellTheMarket
  MarksMoveForward
CHECK_DEADLOCK FALSE

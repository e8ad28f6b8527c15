\* One fund of each shape, four days, one or two scheduled defects.
SPECIFICATION Spec
CONSTANTS
  LastDay = 4
  Instr <- MCInstr
  WHT_TREATY <- MCTreaty
  Funds <- MCFunds
  InitialCashPct <- MCCashPct
  Intraday <- MCIntraday
  VendorNoise <- MCNoise
  CouponDaily <- MCCoupon
  FxPaths <- MCFxPaths
  EquityPaths <- MCEquityPaths
  BondPaths <- MCBondPaths
  DividendDraws <- MCDividendDraws
  TradeDraws <- MCTradeDraws
  CapstockDraws <- MCCapstockDraws

INVARIANTS
  TypeOK
  BooksBalance
  AssetsExplained
  NavChains
  RowsAgree
  SharesRollForward
  PositionsReconcile
  SignalsAreAccountedFor

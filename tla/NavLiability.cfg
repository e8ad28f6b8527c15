\* The performance fee balance against what the fund owns.
SPECIFICATION Spec
CONSTANTS
  LastDay = 4
  Instr <- MCInstr
  WHT_TREATY <- MCTreaty
  Funds <- MCFunds
  InitialCashPct <- MCCashPct
  Intraday <- MCIntraday
  VendorNoise <- MCNoise
  CouponDaily <- MCCoupon
  FxPaths <- MCFxPaths
  EquityPaths <- MCEquityPaths
  BondPaths <- MCBondPaths
  DividendDraws <- MCDividendDraws
  TradeDraws <- MCTradeDraws
  CapstockDraws <- MCCapstockDraws

INVARIANT
  NavIsWhatIsOwned

----------------------------- MODULE MCDefects ------------------------------
(***************************************************************************)
(* Small funds for Defects, one per shape of config.py: two classes        *)
(* without performance fee (ATLAS), one class with one (COBAL), one class  *)
(* and the defects of the single-class funds (SOLO).  Some schedules have  *)
(* an entry for another fund: a dividend missed, a coupon that the fund    *)
(* does or does not hold the bond of, a dividend taxed wrongly, and one    *)
(* that stays with its fund.  Fees, flows and moves are large, so that     *)
(* each shows after a day.                                                 *)
(***************************************************************************)
EXTENDS Defects, TLC

MCInstr ==
  [EQ |-> [type |-> "EQUITY", ccy |-> "KRW", country |-> "KR", face |-> 100],
   BD |-> [type |-> "BOND", ccy |-> "USD", country |-> "GB", face |-> 100]]
MCTreaty == << "LU", "KR" >> :> [treaty |-> Frac(1, 4), statutory |-> Frac(1, 2)]

MCClass(nav, shares, mgmt, perf) ==
  [nav |-> Rat(nav), shares |-> Rat(shares), mgmt |-> mgmt, perf |-> perf,
   has_hwm |-> perf # Zero]
MCEntry(code, f, class) == [code |-> code, fund_id |-> f, class |-> class, as_of |-> 3]

\* The entries for each fund; the parameters are those of its code.
LateOrder(f)  == MCEntry("subscription_pre_cutoff", f, "A") @@ [amount |-> Rat(8), gain |-> Frac(1, 2)]
ClassFee(f)   == MCEntry("class_fee_misallocation", f, "I") @@ [from |-> "A"]
StaleMark(f)  == MCEntry("stale_hwm_perf_fee", f, "I") @@ [offset |-> Frac(-1, 2)]
Shock(f)      == MCEntry("single_stock_shock", f, "") @@ [instr |-> "EQ", shock |-> Frac(-1, 2)]
WrongSide(f)  == MCEntry("trade_wrong_side", f, "")
Missed(f)     == MCEntry("missed_corp_action", f, "") @@ [instr |-> "EQ", div_pct |-> Frac(1, 4)]
StalePrice(f) == MCEntry("stale_price", f, "")
                   @@ [instr |-> "EQ", stale_days |-> 1, drift |-> Frac(-1, 2)]
WrongSnap(f)  == MCEntry("fx_cutoff_mismatch", f, "") @@ [ccy |-> "KRW", intraday |-> Frac(1, 2)]
Coupon(f, n)  == MCEntry("missed_coupon_accrual", f, "") @@ [instr |-> "BD", missed_days |-> n]
WrongTax(f)   == MCEntry("wrong_wht", f, "")
                   @@ [instr |-> "EQ", treaty_rate |-> Frac(1, 4), applied_rate |-> Frac(1, 2),
                       div_pct |-> Frac(1, 8)]

MCFund(id, classes, domicile, bonds, schedules) ==
  [id |-> id, base |-> "USD", domicile |-> domicile, tolerance |-> Frac(1, 4), classes |-> classes,
   holdings |-> [EQ |-> Rat(8), BD |-> Rat(bonds)], schedules |-> schedules]

MCAtlas == MCFund("ATLAS",
  [A |-> MCClass(4, 8, Frac(1, 2), Zero), I |-> MCClass(16, 2, Zero, Zero)], "LU", 0,
  {<< Coupon("SOLO", 1), LateOrder("ATLAS") >>, << ClassFee("ATLAS"), WrongSnap("SOLO") >>})

MCCobal == MCFund("COBAL", [I |-> MCClass(4, 16, Zero, Frac(1, 2))], "KY", 2,
  {<< StaleMark("COBAL"), WrongTax("SOLO") >>, << Coupon("SOLO", 2), ClassFee("ATLAS") >>})

MCSolo == MCFund("SOLO", [R |-> MCClass(4, 16, Frac(1, 4), Zero)], "LU", 2,
  {<< Shock("SOLO") >>, << WrongSide("SOLO"), Missed("SOLO") >>, << StalePrice("SOLO") >>,
   << WrongSnap("SOLO") >>, << Coupon("SOLO", 2) >>, << WrongTax("SOLO"), Missed("COBAL") >>})

MCFunds == {MCAtlas, MCCobal, MCSolo}

MCFxPaths == {[d \in 1 .. 4 |-> [KRW |-> Frac(p[d], 2)]] : p \in {<< 1, 1, 1, 1 >>, << 1, 1, 2, 1 >>}}
MCEquityPaths == {[d \in 1 .. 4 |-> Rat(p[d])] :
                    p \in {<< 8, 8, 8, 8 >>, << 8, 16, 16, 8 >>, << 8, 16, 8, 16 >>}}
MCBondPaths == {[d \in 1 .. 4 |-> Rat(p[d])] : p \in {<< 12, 12, 12, 12 >>}}
MCDividend(ex, offset) == {[id |-> "CA1", instr |-> "EQ", ex |-> ex, offset |-> offset, gross |-> One]}
MCDividendDraws == {{}, MCDividend(1, 1), MCDividend(2, 4)}
MCTrade(id, instr, side, qty, day) ==
  [id |-> id, instr |-> instr, side |-> side, qty |-> Rat(qty), day |-> day]
MCTradeDraws == {{}, {MCTrade("TR1", "EQ", "BUY", 2, 3), MCTrade("TR2", "BD", "SELL", 1, 3)},
                 {MCTrade("TR1", "EQ", "SELL", 10, 2), MCTrade("TR2", "EQ", "BUY", 4, 3)}}
MCFlow(class, type, day) ==
  [id |-> "CS1", class |-> class, type |-> type, day |-> day, early |-> 1, gross |-> Rat(8)]
MCCapstockDraws == {{}, {MCFlow("A", "SUB", 3)}, {MCFlow("I", "RED", 3)}, {MCFlow("R", "SUB", 2)}}

MCNoise == Frac(3, 2)
MCCoupon == One
MCIntraday == Frac(1, 2)
MCCashPct == Frac(1, 4)
=============================================================================

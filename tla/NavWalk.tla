------------------------------- MODULE NavWalk ------------------------------
(***************************************************************************)
(* How the warehouse gets its figures: the generators of the input tables  *)
(* and the walk of generators/walk.py, which strikes the NAV of each share *)
(* class of a fund day by day.  One fund is followed: the walk of a fund   *)
(* reads no row of another.  Of `input`, FX rates, prices, accruals and    *)
(* corporate actions are the tables of all funds; trades and capstock, and *)
(* the books, are the rows of the fund followed.  Days are business days,  *)
(* numbered from START_DATE; amounts are fractions, and moves and          *)
(* tolerances are kept as fractions of the NAV where the code multiplies   *)
(* them by 10 000.                                                         *)
(***************************************************************************)
EXTENDS Rationals, Sequences, FiniteSets

CONSTANTS
  LastDay,
  Instr,         \* instrument_id |-> [type, ccy, country, face]
  WHT_TREATY,    \* << domicile, country >> |-> [treaty, statutory]
  Funds,         \* the funds that may be followed
  InitialCashPct,
  Intraday,      \* another FX snap, relative to LDN_4PM
  VendorNoise,   \* the SECONDARY price, relative to PRIMARY
  CouponDaily,   \* what a bond accrues in a day
  \* What the random generators may draw:
  FxPaths, EquityPaths, BondPaths, DividendDraws, TradeDraws, CapstockDraws

Days        == 1 .. LastDay
Instruments == DOMAIN Instr
Bonds       == {i \in Instruments : Instr[i].type = "BOND"}
Equities    == Instruments \ Bonds
Ccys        == {"USD"} \cup {Instr[i].ccy : i \in Instruments}
Snaps       == {"LDN_4PM", "NY_10AM"}
Sources     == {"PRIMARY", "SECONDARY"}
CutoffTime  == 12

\* Prices and rates are above zero; what is drawn is of the known instruments
\* and days, and no order of the baseline is late.
ASSUME LastDayAssumption == LastDay \in Nat \ {0}
ASSUME InstrAssumption ==
  /\ IsFiniteSet(Instruments) /\ \A i \in Instruments : Instr[i].face \in Int
  /\ \A x \in DOMAIN WHT_TREATY : IsRat(WHT_TREATY[x].treaty)
ASSUME RatesAssumption ==
  IsRat(InitialCashPct) /\ Positive(Intraday) /\ Positive(VendorNoise) /\ Positive(CouponDaily)
ASSUME PathsAssumption ==
  /\ \A path \in FxPaths : \A d \in Days : \A c \in Ccys \ {"USD"} : Positive(path[d][c])
  /\ \A path \in EquityPaths \cup BondPaths : \A d \in Days : Positive(path[d])
ASSUME DrawsAssumption ==
  /\ \A drawn \in DividendDraws : IsFiniteSet(drawn)
       /\ \A x \in drawn : /\ x.instr \in Instruments /\ IsRat(x.gross)
                          /\ x.ex \in Days /\ x.offset \in Nat
  /\ \A drawn \in TradeDraws : IsFiniteSet(drawn)
       /\ \A t \in drawn : t.instr \in Instruments /\ Positive(t.qty)
  /\ \A drawn \in CapstockDraws : IsFiniteSet(drawn)
       /\ \A e \in drawn : e.day \in Days /\ e.early \in Nat /\ IsRat(e.gross)
ASSUME FundsAssumption ==
  \A f \in Funds :
    /\ f.base \in Ccys /\ IsRat(f.tolerance) /\ IsFiniteSet(DOMAIN f.classes)
    /\ \A i \in Instruments : IsRat(f.holdings[i])
    /\ \A c \in DOMAIN f.classes :
         LET cfg == f.classes[c]
         IN  /\ IsRat(cfg.shares) /\ IsRat(cfg.nav) /\ IsRat(cfg.mgmt) /\ IsRat(cfg.perf)
             /\ cfg.has_hwm \in BOOLEAN

VARIABLES
  phase,      \* the phase of build() that comes next
  fund,       \* the fund followed, from FUNDS
  schedule,   \* DEFECT_SCHEDULE: its entries for this and for other funds
  cursor,     \* the entry the injectors are at
  input,      \* the tables the generators fill, of the shared and of the fund's
  walk,       \* FundState, and the rows not yet written
  books,      \* the tables the walk fills
  catalog     \* expected_bps_impact of each defect scheduled for the fund

vars == << phase, fund, schedule, cursor, input, walk, books, catalog >>

NoBooks == [holdings |-> << >>, cash |-> << >>, fees |-> << >>, nav |-> << >>,
            receipts |-> {}]
-----------------------------------------------------------------------------
(***************************************************************************)
(* The generators.                                                         *)
(***************************************************************************)

Advance(from, to) == phase = from /\ phase' = to

WriteFx ==
  /\ Advance("fx", "equities")
  /\ \E path \in FxPaths :
       input' = [input EXCEPT !.fx =
         [s \in Snaps |-> [d \in Days |-> [c \in Ccys |->
            IF c = "USD" THEN One
            ELSE IF s = "LDN_4PM" THEN path[d][c] ELSE path[d][c] \otimes Intraday]]]]
  /\ UNCHANGED << cursor, fund, schedule, walk, books, catalog >>

\* Both sources: SECONDARY is PRIMARY with a little noise.
Quotes(path, instruments) ==
  [s \in Sources |-> [d \in Days |-> [i \in instruments |->
     IF s = "PRIMARY" THEN path[d] ELSE path[d] \otimes VendorNoise]]]

WriteEquityPrices ==
  /\ Advance("equities", "bonds")
  /\ \E path \in EquityPaths : input' = [input EXCEPT !.prices = Quotes(path, Equities)]
  /\ UNCHANGED << cursor, fund, schedule, walk, books, catalog >>

\* Accrued interest grows by a day's coupon a day: no coupon is paid in the
\* window.
WriteBonds ==
  /\ Advance("bonds", "actions")
  /\ \E path \in BondPaths :
       input' = [input EXCEPT
         !.prices = [s \in Sources |-> [d \in Days |->
                       [i \in DOMAIN input.prices[s][d] \cup Bonds |->
                          IF i \in Bonds THEN Quotes(path, Bonds)[s][d][i]
                          ELSE input.prices[s][d][i]]]],
         !.accruals = [d \in Days |-> [b \in Bonds |-> Rat(d) \otimes CouponDaily]]]
  /\ UNCHANGED << cursor, fund, schedule, walk, books, catalog >>

Least(m, n) == IF m < n THEN m ELSE n

\* Every baseline dividend is applied; a pay date after the window is moved
\* to its last day, an announcement before it to its first.
WriteCorporateActions ==
  /\ Advance("actions", "trades")
  /\ \E drawn \in DividendDraws :
       input' = [input EXCEPT !.actions =
         {[id |-> x.id, instr |-> x.instr, type |-> "CASH_DIV", ex |-> x.ex,
           pay |-> Least(x.ex + x.offset, LastDay), gross |-> x.gross,
           applied |-> TRUE] : x \in drawn}]
  /\ UNCHANGED << cursor, fund, schedule, walk, books, catalog >>

\* The price of a trade is a placeholder until the walk has met it.
WriteTrades ==
  /\ Advance("trades", "capstock")
  /\ \E drawn \in TradeDraws :
       input' = [input EXCEPT !.trades =
         {[id |-> t.id, instr |-> t.instr, side |-> t.side, qty |-> t.qty,
           day |-> t.day, price |-> Zero, note |-> ""] : t \in drawn}]
  /\ UNCHANGED << cursor, fund, schedule, walk, books, catalog >>

\* Orders of the baseline arrive before the cutoff of the day they are
\* booked for; shares_delta is filled in by the walk.
WriteCapstock ==
  /\ Advance("capstock", "prewalk")
  /\ \E drawn \in CapstockDraws :
       input' = [input EXCEPT !.capstock =
         {[id |-> e.id, class |-> e.class, day |-> e.day, received |-> CutoffTime - e.early,
           type |-> e.type, gross |-> e.gross, delta |-> Zero] :
             e \in {e \in drawn : e.class \in DOMAIN fund.classes}}]
  /\ UNCHANGED << cursor, fund, schedule, walk, books, catalog >>
-----------------------------------------------------------------------------
(***************************************************************************)
(* The state the walk starts from.                                         *)
(***************************************************************************)

\* build_initial_portfolio: a position rounded to nothing is left out, and what
\* the rounding leaves is not put back into cash.
InitialAum(f) ==
  Total([c \in DOMAIN f.classes |-> f.classes[c].shares \otimes f.classes[c].nav])
InitialPortfolio(f) ==
  [holdings |-> [i \in {i \in Instruments : Zero \prec f.holdings[i]} |-> f.holdings[i]],
   cash     |-> InitialAum(f) \otimes InitialCashPct,
   aum      |-> InitialAum(f)]

InitFundState(f) ==
  [day      |-> 1,
   holdings |-> InitialPortfolio(f).holdings,
   cash     |-> InitialPortfolio(f).cash,
   prior    |-> InitialPortfolio(f).aum,
   classes  |-> [c \in DOMAIN f.classes |->
                   [shares |-> f.classes[c].shares, nav |-> f.classes[c].nav,
                    balance |-> Zero, hwm |-> f.classes[c].nav]],
   rows     |-> NoBooks]

\* An entry of the schedule is for the fund followed, or for another.
Mine(e) == e.fund_id = fund.id
OwnEntries == {k \in DOMAIN schedule : Mine(schedule[k])}

\* After the schema and load_all_static.
Init ==
  /\ phase = "fx"
  /\ fund \in Funds
  /\ schedule \in fund.schedules
  /\ input = [fx |-> << >>, prices |-> << >>, accruals |-> << >>,
              actions |-> {}, trades |-> {}, capstock |-> {}]
  /\ walk = InitFundState(fund)
  /\ books = NoBooks
  /\ cursor = 1
  /\ catalog = [k \in OwnEntries |-> Zero]
-----------------------------------------------------------------------------
(***************************************************************************)
(* One day of the walk.                                                    *)
(***************************************************************************)

Price(d)      == input.prices["PRIMARY"][d]
FxToBase(d, ccy) ==
  input.fx["LDN_4PM"][d][ccy] \oslash input.fx["LDN_4PM"][d][fund.base]

\* A bond is worth its clean price and the interest accrued, per 100 of face.
MvLocal(i, qty, d) ==
  IF i \in Bonds
  THEN qty \otimes (Price(d)[i] \oplus input.accruals[d][i]) \otimes Frac(Instr[i].face, 100)
  ELSE qty \otimes Price(d)[i]
MvBase(i, qty, d) == MvLocal(i, qty, d) \otimes FxToBase(d, Instr[i].ccy)

SignedQty_Dev(t) == t.qty
SignedQty(t) == IF t.side = "BUY" THEN t.qty ELSE Zero \ominus t.qty

\* Trades of the day, which settle at once at the day's price.
TradesToday(d) == {t \in input.trades : t.day = d /\ t.instr \in DOMAIN Price(d)}
AfterTrades(d) ==
  LET own == DOMAIN walk.holdings \cup {t.instr : t \in TradesToday(d)}
  IN  [i \in own |->
         (IF i \in DOMAIN walk.holdings THEN walk.holdings[i] ELSE Zero)
           \oplus Total([t \in {t \in TradesToday(d) : t.instr = i} |-> SignedQty(t)])]
TradeCash(d) ==
  Zero \ominus Total([t \in TradesToday(d) |-> MvBase(t.instr, SignedQty(t), d)])

HoldingRows(holdings, d) ==
  [i \in {i \in DOMAIN holdings : holdings[i] # Zero /\ i \in DOMAIN Price(d)} |->
     [qty |-> holdings[i], price |-> Price(d)[i], mv_local |-> MvLocal(i, holdings[i], d),
      fx |-> FxToBase(d, Instr[i].ccy), mv_base |-> MvBase(i, holdings[i], d)]]

GetWhtRates(domicile, country) ==
  IF << domicile, country >> \in DOMAIN WHT_TREATY THEN WHT_TREATY[<< domicile, country >>]
  ELSE [treaty |-> Frac(3, 10), statutory |-> Frac(3, 10)]

\* Dividends paid today, on the position as today's trades left it.
Payable_Dev(ca, d) == ca.pay = d
Payable(ca, d)     == ca.pay = d /\ ca.applied
Receipts(holdings, d) ==
  LET Paid(ca) == /\ Payable(ca, d)
                  /\ ca.instr \in DOMAIN holdings /\ Zero \prec holdings[ca.instr]
      Rate(ca) == GetWhtRates(fund.domicile, Instr[ca.instr].country).treaty
      Gross(ca) == holdings[ca.instr] \otimes ca.gross
  IN  {[id |-> ca.id, instr |-> ca.instr, day |-> d, gross |-> Gross(ca), rate |-> Rate(ca),
        net |-> Gross(ca) \ominus (Gross(ca) \otimes Rate(ca))] :
         ca \in {ca \in input.actions : Paid(ca)}}
ReceiptCash_Dev(receipts, d) ==
  Total([x \in receipts |-> x.gross \otimes FxToBase(d, Instr[x.instr].ccy)])
ReceiptCash(receipts, d) ==
  Total([x \in receipts |-> x.net \otimes FxToBase(d, Instr[x.instr].ccy)])

FlowsToday_Dev(c, d) == {e \in input.capstock : e.class = c /\ e.day = d - 1}
FlowsToday(c, d)     == {e \in input.capstock : e.class = c /\ e.day = d}
SignedGross(e) == IF e.type = "SUB" THEN e.gross ELSE Zero \ominus e.gross

SharesDelta_Dev(e, nav, prior) == SignedGross(e) \oslash prior
SharesDelta(e, nav, prior) == SignedGross(e) \oslash nav

PerfFeeDelta(target, balance) == target \ominus balance

(* A class for a day, the fund having returned r: the management fee, the  *)
(* performance fee on what is above the high-water mark, then the flows at *)
(* the NAV after fees.                                                     *)
ClassDay(c, r, d) ==
  LET cs     == walk.classes[c]
      cfg    == fund.classes[c]
      gav    == cs.shares \otimes cs.nav \otimes (One \oplus r)
      mgmt   == gav \otimes cfg.mgmt
      above  == ((gav \ominus mgmt) \oslash cs.shares) \ominus cs.hwm
      target == IF cfg.has_hwm THEN NoLess(Zero, above \otimes cs.shares \otimes cfg.perf)
                ELSE Zero
      nav    == (gav \ominus mgmt \ominus target) \oslash cs.shares
      flows  == FlowsToday(c, d)
  IN  [gav |-> gav, mgmt |-> mgmt, target |-> target, nav |-> nav,
       delta |-> IF cfg.has_hwm THEN PerfFeeDelta(target, cs.balance) ELSE Zero,
       flow |-> Total([e \in flows |-> SignedGross(e)]),
       shares |-> cs.shares \oplus Total([e \in flows |-> SharesDelta(e, nav, cs.nav)])]

Move(nav, prior)    == (nav \oslash prior) \ominus One
DayMove(nav, prior) == IF Zero \prec prior THEN Move(nav, prior) ELSE Zero
IsBreak(move)       == fund.tolerance \prec Magnitude(move)

NavRow_Dev(x, prior) ==
  [gav |-> x.gav, fees |-> x.mgmt \oplus x.target, nav_base |-> x.nav \otimes x.shares,
   shares |-> x.shares, nav |-> x.nav, prior |-> x.nav,
   move |-> DayMove(x.nav, x.nav), is_break |-> IsBreak(DayMove(x.nav, x.nav))]
NavRow(x, prior) ==
  [gav |-> x.gav, fees |-> x.mgmt \oplus x.target, nav_base |-> x.nav \otimes x.shares,
   shares |-> x.shares, nav |-> x.nav, prior |-> prior,
   move |-> DayMove(x.nav, prior), is_break |-> IsBreak(DayMove(x.nav, prior))]
FeeRow(x, cs) == [mgmt |-> x.mgmt, delta |-> x.delta, balance |-> x.target, hwm |-> cs.hwm]

FundReturn(assets) == IF Zero \prec walk.prior THEN (assets \oslash walk.prior) \ominus One ELSE Zero
Put_Dev(table, d, row) ==
  [x \in DOMAIN table \cup {d + 1} |-> IF x \in DOMAIN table THEN table[x] ELSE row]
Put(table, d, row) ==
  [x \in DOMAIN table \cup {d} |-> IF x \in DOMAIN table THEN table[x] ELSE row]

StepOneDay(d) ==
  LET holdings == AfterTrades(d)
      rows     == HoldingRows(holdings, d)
      receipts == Receipts(holdings, d)
      cash     == walk.cash \oplus TradeCash(d) \oplus ReceiptCash(receipts, d)
      assets   == cash \oplus Total([i \in DOMAIN rows |-> rows[i].mv_base])
      day      == [c \in DOMAIN fund.classes |-> ClassDay(c, FundReturn(assets), d)]
      cashOut  == cash \oplus Total([c \in DOMAIN day |->
                                       day[c].flow \ominus day[c].mgmt \ominus day[c].delta])
      nav      == [c \in DOMAIN day |-> NavRow(day[c], walk.classes[c].nav)]
      fees     == [c \in DOMAIN day |-> FeeRow(day[c], walk.classes[c])]
  IN  [day |-> d + 1, holdings |-> holdings, cash |-> cashOut,
       prior |-> Total([c \in DOMAIN day |-> nav[c].nav_base]),
       classes |-> [c \in DOMAIN day |->
          [walk.classes[c] EXCEPT !.shares = day[c].shares, !.nav = day[c].nav,
                                  !.balance = day[c].target]],
       rows |-> [holdings |-> Put(walk.rows.holdings, d, rows),
                 cash |-> Put(walk.rows.cash, d, cashOut),
                 fees |-> Put(walk.rows.fees, d, fees),
                 nav |-> Put(walk.rows.nav, d, nav),
                 receipts |-> walk.rows.receipts \cup receipts]]

\* A day without FX rates is passed over.
WalkDay ==
  /\ phase = "walk" /\ walk.day \in Days
  /\ walk' = IF walk.day \in DOMAIN input.fx["LDN_4PM"] THEN StepOneDay(walk.day)
             ELSE [walk EXCEPT !.day = @ + 1]
  /\ UNCHANGED << phase, cursor, fund, schedule, input, books, catalog >>

\* The rows are kept in memory and inserted when all days are done; then the
\* prices of the trades and the shares of the flows are filled in.
Finalized(rows) ==
  [input EXCEPT
     !.trades = {IF t \in TradesToday(t.day) THEN [t EXCEPT !.price = Price(t.day)[t.instr]]
                 ELSE t : t \in @},
     !.capstock = {[e EXCEPT !.delta = SharesDelta(e, rows.nav[e.day][e.class].nav,
                                                      rows.nav[e.day][e.class].prior)] :
                     e \in @}]

BulkWrite ==
  /\ walk.day = LastDay + 1
  /\ Advance("walk", "postwalk")
  /\ books' = walk.rows
  /\ input' = Finalized(walk.rows)
  /\ UNCHANGED << cursor, fund, schedule, walk, catalog >>
=============================================================================

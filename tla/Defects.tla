------------------------------- MODULE Defects ------------------------------
(***************************************************************************)
(* The defect injectors of nav_oversight/defects.py around the walk: some  *)
(* change the input tables, which the walk then takes for the truth, the   *)
(* others are surgery on what the walk has written.  Each loop goes        *)
(* through DEFECT_SCHEDULE in order and acts on the entries of its own     *)
(* codes; an injector that does not find its rows returns silently.        *)
(*                                                                         *)
(* An entry names a fund, but many tables have none: prices, accruals, FX  *)
(* rates and corporate actions are changed for every fund.  Before the     *)
(* walk an entry is the same to the fund followed whosever it is; after it,*)
(* one for another fund leaves to this one what it puts in those tables.   *)
(***************************************************************************)
EXTENDS NavWalk

PreWalkCodes  == {"single_stock_shock", "missed_corp_action", "stale_price",
                  "missed_coupon_accrual"}
PostWalkCodes == {"fx_cutoff_mismatch", "trade_wrong_side", "subscription_pre_cutoff",
                  "wrong_wht", "stale_hwm_perf_fee", "class_fee_misallocation"}

\* The entries are for days of the window; what an injector reads of an
\* entry, it has, and the classes are those of its fund.
EntryComplete(f, e) ==
  /\ e.as_of \in Days
  /\ e.code = "single_stock_shock" =>
       e.instr \in Instruments /\ Positive(One \oplus e.shock)
  /\ e.code = "missed_corp_action" =>
       e.instr \in Instruments /\ IsRat(e.div_pct) /\ Positive(One \ominus e.div_pct)
  /\ e.code = "stale_price" =>
       e.instr \in Instruments /\ Positive(One \oplus e.drift)
  /\ e.code = "fx_cutoff_mismatch" => e.ccy \in Ccys /\ IsRat(One \ominus e.intraday)
  /\ e.code = "missed_coupon_accrual" => e.instr \in Bonds
  /\ e.code = "wrong_wht" =>
       /\ e.instr \in Instruments
       /\ IsRat(e.div_pct) /\ IsRat(e.applied_rate) /\ IsRat(e.treaty_rate)
  /\ e.fund_id = f.id =>
       /\ e.code = "stale_hwm_perf_fee" => e.class \in DOMAIN f.classes /\ IsRat(e.offset)
       /\ e.code = "subscription_pre_cutoff" =>
            e.class \in DOMAIN f.classes /\ IsRat(e.amount) /\ IsRat(e.gain)
       /\ e.code = "class_fee_misallocation" => {e.class, e.from} \subseteq DOMAIN f.classes
ASSUME ScheduleAssumption ==
  \A f \in Funds : \A s \in f.schedules :
    s \in Seq(Range(s)) /\ \A e \in Range(s) : EntryComplete(f, e)

\* The ids of the rows the injectors add are no others.
ASSUME IdsAssumption ==
  \A drawn \in DividendDraws : \A x \in drawn : x.id \notin {"CA_DEFECT_3", "CA_DEFECT_9"}

PriorBusinessDay(d) == d - 1

Entry == schedule[cursor]     \* the entry under the loop
Due(during, code) ==
  /\ phase = during /\ cursor \in DOMAIN schedule
  /\ Entry.code = code
  /\ cursor' = cursor + 1
DueHere(code)      == Due("postwalk", code) /\ Mine(Entry)
DueElsewhere(code) == Due("postwalk", code) /\ ~Mine(Entry)
-----------------------------------------------------------------------------
(***************************************************************************)
(* Before the walk.                                                        *)
(***************************************************************************)

\* UPDATE prices SET price = price * k from day d on, in the given sources.
Rescaled(prices, sources, i, d, k) ==
  [s \in Sources |-> [x \in Days |->
     IF s \in sources /\ x >= d THEN [prices[s][x] EXCEPT ![i] = @ \otimes k]
     ELSE prices[s][x]]]
Held(table, days, i, value) ==
  [x \in DOMAIN table |-> IF x \in days THEN [table[x] EXCEPT ![i] = value] ELSE table[x]]

\* The shock propagates: both sources are scaled from the day on, by what
\* PRIMARY needs.
Defect1 ==
  LET i == Entry.instr
      d == Entry.as_of
      k == (Price(PriorBusinessDay(d))[i] \otimes (One \oplus Entry.shock)) \oslash Price(d)[i]
  IN  /\ Due("prewalk", "single_stock_shock")
      /\ IF {d, PriorBusinessDay(d)} \subseteq Days
         THEN input' = [input EXCEPT !.prices = Rescaled(@, Sources, i, d, k)]
         ELSE UNCHANGED input
      /\ UNCHANGED << phase, fund, schedule, walk, books, catalog >>

\* A dividend nobody applies, and the price without it.
Defect3 ==
  LET i == Entry.instr
      d == Entry.as_of
  IN  /\ Due("prewalk", "missed_corp_action")
      /\ IF PriorBusinessDay(d) \in Days
         THEN input' = [input EXCEPT
                !.actions = @ \cup
                   {[id |-> "CA_DEFECT_3", instr |-> i, type |-> "SPECIAL_DIV", ex |-> d, pay |-> d,
                     gross |-> Price(PriorBusinessDay(d))[i] \otimes Entry.div_pct,
                     applied |-> FALSE]},
                !.prices = Rescaled(@, Sources, i, d, One \ominus Entry.div_pct)]
         ELSE UNCHANGED input
      /\ UNCHANGED << phase, fund, schedule, walk, books, catalog >>

\* PRIMARY stands still for stale_days and catches up on the day.
StaleWindow(s) == s.as_of - s.stale_days .. s.as_of - 1
Defect4 ==
  LET i    == Entry.instr
      d    == Entry.as_of
      good == d - Entry.stale_days - 1
      k    == (Price(good)[i] \otimes (One \oplus Entry.drift)) \oslash Price(d)[i]
      flat == [input.prices EXCEPT
                 !["PRIMARY"] = Held(@, StaleWindow(Entry), i, Price(good)[i])]
  IN  /\ Due("prewalk", "stale_price")
      /\ IF good \in Days
         THEN input' = [input EXCEPT !.prices = Rescaled(flat, {"PRIMARY"}, i, d, k)]
         ELSE UNCHANGED input
      /\ UNCHANGED << phase, fund, schedule, walk, books, catalog >>

\* The accrual stands still for missed_days, the last of them the day.
FrozenWindow(s) == s.as_of - (s.missed_days - 1) .. s.as_of
Defect7 ==
  LET i    == Entry.instr
      good == Entry.as_of - Entry.missed_days
  IN  /\ Due("prewalk", "missed_coupon_accrual")
      /\ IF good \in Days
         THEN input' = [input EXCEPT
                !.accruals = Held(@, FrozenWindow(Entry), i, input.accruals[good][i])]
         ELSE UNCHANGED input
      /\ UNCHANGED << phase, fund, schedule, walk, books, catalog >>
-----------------------------------------------------------------------------
(***************************************************************************)
(* After the walk.                                                         *)
(***************************************************************************)

\* The row of a class restated: the move and the break follow the NAV.
Restated(row, nav_base, shares, prior, fees) ==
  LET nav == nav_base \oslash shares
  IN  [row EXCEPT !.nav_base = nav_base, !.shares = shares, !.nav = nav, !.prior = prior,
                  !.fees = fees, !.move = Move(nav, prior),
                  !.is_break = IsBreak(Move(nav, prior))]

\* delta_base pro rata over the classes of the fund.
AdjustClassNav_Dev(nav, d, delta) ==
  LET total == Total([c \in DOMAIN nav[d] |-> nav[d][c].nav_base])
  IN  [nav EXCEPT ![d] = [c \in DOMAIN nav[d] |->
         [nav[d][c] EXCEPT !.nav_base = @ \oplus (delta \otimes (@ \oslash total))]]]
AdjustClassNav(nav, d, delta) ==
  LET total == Total([c \in DOMAIN nav[d] |-> nav[d][c].nav_base])
      Part(row) == row.nav_base \oplus (delta \otimes (row.nav_base \oslash total))
  IN  IF ~(Zero \prec total) THEN nav
      ELSE [nav EXCEPT ![d] = [c \in DOMAIN nav[d] |->
              LET row == nav[d][c] IN Restated(row, Part(row), row.shares, row.prior, row.fees)]]

MvBaseTotal(rows) == Total([i \in DOMAIN rows |-> rows[i].mv_base])

\* The foreign holdings of the day revalued at the wrong snap.
NewYorkRate(e) == input.fx["LDN_4PM"][e.as_of][e.ccy] \otimes (One \ominus e.intraday)
Defect2 ==
  LET d    == Entry.as_of
      ccy  == Entry.ccy
      ny   == NewYorkRate(Entry)
      rows == [i \in DOMAIN books.holdings[d] |->
                 IF Instr[i].ccy # ccy THEN books.holdings[d][i]
                 ELSE LET row == books.holdings[d][i]
                      IN  [row EXCEPT !.fx = ny, !.mv_base = row.mv_local \otimes ny]]
      delta == MvBaseTotal(rows) \ominus MvBaseTotal(books.holdings[d])
  IN  /\ DueHere("fx_cutoff_mismatch")
      /\ input' = [input EXCEPT !.fx["NY_10AM"][d][ccy] = ny]
      /\ books' = [books EXCEPT !.holdings[d] = rows, !.nav = AdjustClassNav(@, d, delta)]
      /\ UNCHANGED << phase, fund, schedule, walk, catalog >>

\* The performance fee of the day charged against a lower high-water mark.
Defect5 ==
  LET d      == Entry.as_of
      c      == Entry.class
      cfg    == fund.classes[c]
      row    == books.nav[d][c]
      fee    == books.fees[d][c]
      stale  == cfg.nav \otimes (One \oplus Entry.offset)
      gross  == row.nav_base \oplus fee.balance
      target == NoLess(Zero, ((gross \oslash row.shares) \ominus stale)
                               \otimes row.shares \otimes cfg.perf)
  IN  /\ DueHere("stale_hwm_perf_fee")
      /\ books' = [books EXCEPT
           !.fees[d][c] = [@ EXCEPT !.balance = target, !.delta = target, !.hwm = stale],
           !.nav[d][c]  = Restated(@, gross \ominus target, row.shares, row.prior,
                                   fee.mgmt \oplus target)]
      /\ UNCHANGED << phase, fund, schedule, input, walk, catalog >>

\* The largest trade of the day changes side; positions and cash do not.
Opposite(side) == IF side = "BUY" THEN "SELL" ELSE "BUY"
Defect6 ==
  LET today == {t \in input.trades : t.day = Entry.as_of}
      Size(t) == t.qty \otimes t.price
  IN  /\ DueHere("trade_wrong_side")
      /\ IF today = {} THEN UNCHANGED input
         ELSE \E t \in today :
                /\ \A u \in today : ~(Size(t) \prec Size(u))
                /\ input' = [input EXCEPT !.trades = (@ \ {t}) \cup
                               {[t EXCEPT !.side = Opposite(t.side), !.note = "flipped"]}]
      /\ UNCHANGED << phase, fund, schedule, walk, books, catalog >>

\* A late order priced at yesterday's NAV, on a day the class gained `gain`.
\* The orders already booked for the day leave the row with it.
Defect8 ==
  LET d      == Entry.as_of
      c      == Entry.class
      row    == books.nav[d][c]
      prior  == books.nav[PriorBusinessDay(d)][c].nav
      booked == Total([e \in FlowsToday(c, d) |-> e.delta])
      before == row.shares \ominus booked
      new    == Entry.amount \oslash prior
      order  == [id |-> "CS_DEFECT_8", class |-> c, day |-> d, received |-> CutoffTime + 1,
                 type |-> "SUB", gross |-> Entry.amount, delta |-> new]
  IN  /\ DueHere("subscription_pre_cutoff")
      /\ IF PriorBusinessDay(d) \in DOMAIN books.nav
         THEN /\ input' = [input EXCEPT !.capstock = @ \cup {order}]
              /\ books' = [books EXCEPT !.nav[d][c] =
                   Restated(@, (before \otimes prior \otimes (One \oplus Entry.gain))
                                 \oplus Entry.amount,
                            before \oplus new, prior, row.fees)]
         ELSE UNCHANGED << input, books >>
      /\ UNCHANGED << phase, fund, schedule, walk, catalog >>

\* A dividend of the day booked with the statutory rate: the receipt shows
\* it, the NAV loses the difference, cash is not touched.
DividendPer(e) == Price(e.as_of)[e.instr] \otimes e.div_pct
DividendOf(e)  ==
  [id |-> "CA_DEFECT_9", instr |-> e.instr, type |-> "CASH_DIV", ex |-> e.as_of, pay |-> e.as_of,
   gross |-> DividendPer(e), applied |-> TRUE]
Defect9 ==
  LET d     == Entry.as_of
      i     == Entry.instr
      gross == books.holdings[d][i].qty \otimes DividendPer(Entry)
      over  == (Entry.applied_rate \ominus Entry.treaty_rate) \otimes gross
                 \otimes input.fx["LDN_4PM"][d][Instr[i].ccy]
  IN  /\ DueHere("wrong_wht")
      /\ IF i \in DOMAIN books.holdings[d] /\ Zero \prec books.holdings[d][i].qty
         THEN /\ input' = [input EXCEPT !.actions = @ \cup {DividendOf(Entry)}]
              /\ books' = [books EXCEPT
                   !.receipts = @ \cup
                      {[id |-> "CA_DEFECT_9", instr |-> i, day |-> d, gross |-> gross,
                        rate |-> Entry.applied_rate,
                        net |-> gross \ominus (gross \otimes Entry.applied_rate)]},
                   !.nav = AdjustClassNav(@, d, Zero \ominus over)]
         ELSE UNCHANGED << input, books >>
      /\ UNCHANGED << phase, fund, schedule, walk, catalog >>

\* Ten times the other class's fee of the day on top of the class's own.
Overcharge == Rat(10)
Defect10 ==
  LET d     == Entry.as_of
      c     == Entry.class
      row   == books.nav[d][c]
      extra == books.fees[d][Entry.from].mgmt \otimes Overcharge
  IN  /\ DueHere("class_fee_misallocation")
      /\ books' = [books EXCEPT
           !.nav[d][c]  = Restated(@, row.nav_base \ominus extra, row.shares, row.prior,
                                   row.fees \oplus extra),
           !.fees[d][c].mgmt = @ \oplus extra]
      /\ UNCHANGED << phase, fund, schedule, input, walk, catalog >>
-----------------------------------------------------------------------------
(***************************************************************************)
(* After the walk, for another fund: what reaches the tables of all.       *)
(***************************************************************************)

Defect2Elsewhere ==
  /\ DueElsewhere("fx_cutoff_mismatch")
  /\ input' = [input EXCEPT !.fx["NY_10AM"][Entry.as_of][Entry.ccy] = NewYorkRate(Entry)]
  /\ UNCHANGED << phase, fund, schedule, walk, books, catalog >>

\* The action is for every holder, the receipt for that fund only; without
\* a position of that fund there is neither.
Defect9Elsewhere ==
  /\ DueElsewhere("wrong_wht")
  /\ \/ input' = [input EXCEPT !.actions = @ \cup {DividendOf(Entry)}]
     \/ UNCHANGED input
  /\ UNCHANGED << phase, fund, schedule, walk, books, catalog >>

\* The others rewrite trades, orders, fees and NAVs of their fund.
RowsElsewhere ==
  /\ \E code \in PostWalkCodes \ {"fx_cutoff_mismatch", "wrong_wht"} : DueElsewhere(code)
  /\ UNCHANGED << phase, fund, schedule, input, walk, books, catalog >>
-----------------------------------------------------------------------------
(***************************************************************************)
(* The loops and the catalog.                                              *)
(***************************************************************************)

\* An entry the loop has no injector for.
PassOver ==
  /\ cursor \in DOMAIN schedule
  /\ \/ phase = "prewalk" /\ Entry.code \notin PreWalkCodes
     \/ phase = "postwalk" /\ Entry.code \notin PostWalkCodes
  /\ cursor' = cursor + 1
  /\ UNCHANGED << phase, fund, schedule, input, walk, books, catalog >>

EndInjection ==
  /\ cursor = Len(schedule) + 1
  /\ Advance("prewalk", "walk") \/ Advance("postwalk", "catalog")
  /\ cursor' = 1
  /\ UNCHANGED << fund, schedule, input, walk, books, catalog >>

\* The realized move of the class, or the average over the classes.
RealizedImpact(s) ==
  LET row == books.nav[s.as_of]
  IN  IF s.class # "" THEN row[s.class].move
      ELSE Total([c \in DOMAIN row |-> row[c].move]) \oslash Rat(Cardinality(DOMAIN row))

UpdateCatalog ==
  /\ Advance("catalog", "done")
  /\ catalog' = [k \in OwnEntries |-> RealizedImpact(schedule[k])]
  /\ UNCHANGED << cursor, fund, schedule, input, walk, books >>

Built == phase = "done" /\ UNCHANGED vars

Generate == WriteFx \/ WriteEquityPrices \/ WriteBonds \/ WriteCorporateActions
              \/ WriteTrades \/ WriteCapstock
PreWalk  == Defect1 \/ Defect3 \/ Defect4 \/ Defect7
PostWalk == Defect2 \/ Defect5 \/ Defect6 \/ Defect8 \/ Defect9 \/ Defect10
Elsewhere == Defect2Elsewhere \/ Defect9Elsewhere \/ RowsElsewhere

Next == Generate \/ PreWalk \/ WalkDay \/ BulkWrite \/ PostWalk \/ Elsewhere \/ PassOver
          \/ EndInjection \/ UpdateCatalog \/ Built

Spec == Init /\ [][Next]_vars
-----------------------------------------------------------------------------
(***************************************************************************)
(* Properties.  They speak of the rows the walk has struck so far, and     *)
(* after the walk of the tables.                                           *)
(***************************************************************************)

Rows   == IF phase = "walk" THEN walk.rows ELSE books
Struck == DOMAIN Rows.nav

\* What the fund's post-walk entries of some codes have marred, or will.
Marred(codes, d) == \E k \in OwnEntries : schedule[k].code \in codes /\ schedule[k].as_of = d

\* A fund that goes on: no share class is empty or worth nothing, and on a day
\* still to be walked, or operated on, the fund has assets.  The code divides
\* by these: by a zero it would end with a ZeroDivisionError, and by nothing
\* where a guard passes over the division (walk.py:250, 311, defects.py:621).
Solvent ==
  /\ \A c \in DOMAIN fund.classes : walk.classes[c].shares # Zero /\ walk.classes[c].nav # Zero
  /\ walk.day \in Days =>
       Zero \prec walk.prior /\ \A c \in DOMAIN fund.classes : Zero \prec walk.classes[c].nav
  /\ \A d \in DOMAIN books.nav : \A c \in DOMAIN fund.classes :
       books.nav[d][c].shares # Zero /\ books.nav[d][c].nav # Zero
  /\ phase = "postwalk" =>
       \A k \in OwnEntries : k >= cursor =>
         LET row == books.nav[schedule[k].as_of]
         IN  Zero \prec Total([c \in DOMAIN row |-> row[c].nav_base])

\* The shape of the state: each table has a row for every class and for
\* every day walked, amounts are fractions, and the fund is a going concern.
TypeOK ==
  /\ phase \in {"fx", "equities", "bonds", "actions", "trades", "capstock", "prewalk", "walk",
                "postwalk", "catalog", "done"}
  /\ fund \in Funds /\ schedule \in fund.schedules /\ cursor \in 1 .. Len(schedule) + 1
  /\ walk.day \in 1 .. LastDay + 1 /\ IsRat(walk.cash) /\ IsRat(walk.prior) /\ Solvent
  /\ DOMAIN walk.rows.nav = 1 .. walk.day - 1
  /\ DOMAIN Rows.cash = Struck /\ DOMAIN Rows.holdings = Struck /\ DOMAIN Rows.fees = Struck
  /\ \A d \in Struck : \A c \in DOMAIN fund.classes :
       IsRat(Rows.nav[d][c].nav) /\ Rows.nav[d][c].is_break \in BOOLEAN

\* The NAV of the classes together is what the fund owns, but for the part
\* of the performance fee balance that cash has paid on earlier days: the
\* allocation of the fund's return to the classes (walk.py:249), the fees and
\* the flows neither lose nor make money, and revaluing a day at another FX
\* snap moves holdings and NAV alike.
BooksBalance ==
  \A d \in Struck :
    \/ Marred({"stale_hwm_perf_fee", "subscription_pre_cutoff", "wrong_wht",
               "class_fee_misallocation"}, d)
    \/ Total([c \in DOMAIN fund.classes |-> Rows.nav[d][c].nav_base]) =
         MvBaseTotal(Rows.holdings[d]) \oplus Rows.cash[d] \oplus
           Total([c \in DOMAIN fund.classes |->
                    Rows.fees[d][c].delta \ominus Rows.fees[d][c].balance])

\* The assets of a day are yesterday's positions at today's value,
\* yesterday's cash, the dividends and flows of the day, less the fees of the
\* day: trading is value-neutral, and no dividend is paid twice or gross.
AssetsExplained ==
  phase = "walk" => \A d \in Struck \ {1} :
    LET own == {i \in DOMAIN Rows.holdings[d - 1] : i \in DOMAIN Price(d)}
    IN  MvBaseTotal(Rows.holdings[d]) \oplus Rows.cash[d] =
          Total([i \in own |-> MvBase(i, Rows.holdings[d - 1][i].qty, d)])
            \oplus Rows.cash[d - 1]
            \oplus Total([x \in {x \in Rows.receipts : x.day = d} |->
                           x.net \otimes FxToBase(d, Instr[x.instr].ccy)])
            \oplus Total([e \in {e \in input.capstock : e.day = d} |-> SignedGross(e)])
            \ominus Total([c \in DOMAIN fund.classes |->
                            Rows.fees[d][c].mgmt \oplus Rows.fees[d][c].delta])

\* Yesterday's NAV is what today's row calls prior_nav_per_share, in every
\* table a reader may see, but the day after surgery: the row of a day is
\* rewritten alone (defects.py:361), and the next still tells the NAV of the
\* walk.
NavChains ==
  \A d \in Struck : d + 1 \in Struck =>
    \/ \A c \in DOMAIN fund.classes : Rows.nav[d + 1][c].prior = Rows.nav[d][c].nav
    \/ phase \in {"postwalk", "catalog", "done"} /\ Marred(PostWalkCodes, d)

\* The columns of a row agree with each other and with the fee row, whoever
\* wrote them last: the walk, or an injector that restated some of them.
RowsAgree ==
  \A d \in Struck : \A c \in DOMAIN fund.classes :
    LET row == Rows.nav[d][c]
        fee == Rows.fees[d][c]
    IN  /\ row.nav_base = row.nav \otimes row.shares
        /\ row.move = (row.nav \oslash row.prior) \ominus One
        /\ row.is_break <=> fund.tolerance \prec Magnitude(row.move)
        /\ row.fees = fee.mgmt \oplus fee.balance

\* The shares of a class follow from yesterday's and the orders booked for
\* the day, but where the late order of defect 8 took the place of the orders
\* already booked (defects.py:449), and on the day after.
SharesRollForward ==
  phase \in {"postwalk", "catalog", "done"} =>
    \A d \in Struck \ {1} : \A c \in DOMAIN fund.classes :
      \/ Rows.nav[d][c].shares = Rows.nav[d - 1][c].shares \oplus
           Total([e \in {e \in input.capstock : e.class = c /\ e.day = d} |-> e.delta])
      \/ \E x \in {d, d - 1} : Marred({"subscription_pre_cutoff"}, x)

Quantity(i, d) == IF i \in DOMAIN Rows.holdings[d] THEN Rows.holdings[d][i].qty ELSE Zero
Traded(i, d) ==
  Total([t \in {t \in input.trades : t.instr = i /\ t.day = d} |->
           IF t.side = "BUY" THEN t.qty ELSE Zero \ominus t.qty])

\* The position of a day differs from yesterday's by the trades of the day,
\* exactly when none of them had its side flipped: the reconciliation that
\* finds defect 6 finds it always, and nothing else.
PositionsReconcile ==
  phase \in {"walk", "postwalk", "catalog", "done"} =>
    \A d \in Struck \ {1} : \A i \in Instruments :
      (Quantity(i, d) = Quantity(i, d - 1) \oplus Traded(i, d)) <=>
        ~\E t \in input.trades : t.instr = i /\ t.day = d /\ t.note = "flipped"

\* The detection signals of docs/defects.md, as an investigator of the fund
\* reads them off the tables: an action not paid to a holder, an accrual of a
\* bond held that stands still, an order booked for the day after its cutoff,
\* a rate of tax that is not the treaty's, a high-water mark that is not the
\* class's, a fee that is not the class's rate.
Holds(i, d) == Zero \prec Quantity(i, d)
Signals ==
  {<< "missed_corp_action", ca.pay >> : ca \in {ca \in input.actions :
      /\ Holds(ca.instr, ca.pay)
      /\ \A x \in books.receipts : x.id # ca.id}}
  \cup {<< "missed_coupon_accrual", d >> : d \in {d \in Days \ {1} : \E b \in Bonds :
      /\ Holds(b, d)
      /\ input.accruals[d][b] = input.accruals[d - 1][b]
      /\ d = LastDay \/ input.accruals[d + 1][b] # input.accruals[d][b]}}
  \cup {<< "subscription_pre_cutoff", e.day >> : e \in {e \in input.capstock :
      e.received > CutoffTime}}
  \cup {<< "wrong_wht", x.day >> : x \in {x \in books.receipts :
      x.rate # GetWhtRates(fund.domicile, Instr[x.instr].country).treaty}}
  \cup {<< "stale_hwm_perf_fee", d >> : d \in {d \in Struck : \E c \in DOMAIN fund.classes :
      books.fees[d][c].hwm # fund.classes[c].nav}}
  \cup {<< "class_fee_misallocation", d >> : d \in {d \in Struck :
      \E c \in DOMAIN fund.classes :
        books.fees[d][c].mgmt # books.nav[d][c].gav \otimes fund.classes[c].mgmt}}

\* What the schedule leaves to see in the fund's tables.  Its own entries, the
\* dividends and the coupon when it holds the instrument on the day; of the
\* entries for other funds, the missed action and the missed coupon to each
\* holder, and the dividend of defect 9, which has an action for all and a
\* receipt for one, as an action that was missed.
SharedCodes  == {"missed_corp_action", "missed_coupon_accrual"}
PrivateCodes == {"subscription_pre_cutoff", "wrong_wht", "stale_hwm_perf_fee",
                 "class_fee_misallocation"}
Shows(e) ==
  \/ e.code \in SharedCodes /\ Holds(e.instr, e.as_of)
  \/ e.code \in PrivateCodes /\ Mine(e) /\ (e.code = "wrong_wht" => Holds(e.instr, e.as_of))
Strays(e) ==
  /\ e.code = "wrong_wht" /\ ~Mine(e) /\ Holds(e.instr, e.as_of)
  /\ \E ca \in input.actions : ca.id = "CA_DEFECT_9"
SeededSignals ==
  LET entries == {schedule[k] : k \in DOMAIN schedule}
  IN  {<< e.code, e.as_of >> : e \in {e \in entries : Shows(e)}}
        \cup {<< "missed_corp_action", e.as_of >> : e \in {e \in entries : Strays(e)}}

\* In the finished warehouse an investigator of the fund sees each of these
\* defects that is seeded for it, on its day, and of the others just what the
\* shared tables let through; so a defect does not live on one fund-day, as
\* README.md:7 has it, when another fund holds the instrument.
SignalsAreAccountedFor == phase = "done" => Signals = SeededSignals

\* What walk.py:17-19 says of fees taken out of cash directly: the NAV
\* is the same as with the fees as liabilities, which is what the fund owns.
NavIsWhatIsOwned ==
  phase = "walk" => \A d \in Struck :
    Total([c \in DOMAIN fund.classes |-> Rows.nav[d][c].nav_base]) =
      MvBaseTotal(Rows.holdings[d]) \oplus Rows.cash[d]
=============================================================================

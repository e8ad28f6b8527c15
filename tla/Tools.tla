-------------------------------- MODULE Tools -------------------------------
(***************************************************************************)
(* The tools of the agent: the queries of tools/*.py over one warehouse,   *)
(* and agent/dispatcher.py between them and the model, which advertises a  *)
(* schema for each tool, adapts the arguments the model sends, runs the    *)
(* tool under audit and cuts what it returns.  A query is one record; a    *)
(* row is a function of its columns, of which those are kept that a query  *)
(* filters by, sorts by or hides ("rest" stands for the others).  Names    *)
(* are numbers, in the order of their texts.                               *)
(***************************************************************************)
EXTENDS Computation, FiniteSets

CONSTANTS
  Warehouses,   \* what nav.duckdb may hold: table |-> rows
  Calls,        \* what the model may send: [tool, args]
  Null, Bad,    \* JSON null, and a text that is no date and no number
  MaxRows,      \* _MAX_ROWS_TO_AGENT
  MaxCalls,     \* bounds: the calls of an investigation,
  MaxDifferent  \* and how many of them differ

VARIABLES
  db,      \* the warehouse the connection reads
  log,     \* tool_call_log
  shown,   \* the payload of each call
  audit    \* audit/tool_calls.jsonl

vars == << db, log, shown, audit >>
-----------------------------------------------------------------------------
(***************************************************************************)
(* The tables.                                                             *)
(***************************************************************************)

f ++ g == [x \in (DOMAIN f) \cup DOMAIN g |-> IF x \in DOMAIN f THEN f[x] ELSE g[x]]

Table(key, columns, hidden) ==
  [key |-> key, hidden |-> hidden, columns |-> key \cup columns \cup hidden \cup {"rest"}]

ReferenceTables ==
  [funds         |-> Table({"fund_id"}, {}, {}),
   share_classes |-> Table({"fund_id", "class_code"}, {}, {}),
   instruments   |-> Table({"instrument_id"}, {"ticker", "ccy", "country"}, {})]

MarketTables ==
  [fx_rates          |-> Table({"as_of_date", "ccy", "snap"}, {}, {}),
   prices            |-> Table({"as_of_date", "instrument_id", "source"}, {}, {}),
   bond_accruals     |-> Table({"as_of_date", "instrument_id"}, {}, {}),
   corporate_actions |-> Table({"ca_id"}, {"instrument_id", "ca_type", "ex_date"},
                               {"applied_flag"}),
   wht_treaty        |-> Table({"domicile_country", "source_country"}, {}, {}),
   fund_domiciles    |-> Table({"fund_id"}, {}, {})]

BookTables ==
  [holdings          |-> Table({"as_of_date", "fund_id", "instrument_id"}, {}, {}),
   trades            |-> Table({"trade_id"}, {"fund_id", "instrument_id", "trade_date"},
                               {"booking_note"}),
   capstock          |-> Table({"capstock_id"}, {"fund_id", "class_code", "as_of_date"}, {}),
   cash              |-> Table({"as_of_date", "fund_id", "ccy"}, {}, {}),
   fee_accruals      |-> Table({"as_of_date", "fund_id", "class_code"}, {}, {}),
   dividend_receipts |-> Table({"receipt_id"}, {"fund_id", "instrument_id", "as_of_date"}, {}),
   nav               |-> Table({"as_of_date", "fund_id", "class_code"}, {}, {"is_break"})]

Tables == ReferenceTables ++ MarketTables ++ BookTables

\* The primary keys hold, and of the columns a query reads none may be NULL.
IsWarehouse(w) ==
  /\ DOMAIN w = DOMAIN Tables
  /\ \A t \in DOMAIN Tables :
       /\ IsFiniteSet(w[t])
       /\ \A r \in w[t] : /\ DOMAIN r = Tables[t].columns
                           /\ \A c \in DOMAIN r \ (Tables[t].hidden \cup {"rest"}) : r[c] \in Int
       /\ \A r, s \in w[t] : (\A c \in Tables[t].key : r[c] = s[c]) => r = s

ASSUME NoneAssumption == {Null, Bad} \cap Int = {} /\ Null # Bad
ASSUME WarehousesAssumption == \A w \in Warehouses : IsWarehouse(w)
ASSUME BoundsAssumption == {MaxRows, MaxCalls, MaxDifferent} \subseteq Nat \ {0}
-----------------------------------------------------------------------------
(***************************************************************************)
(* The queries: FROM, WHERE column = ? for each of "equal", the same for   *)
(* those of "optional" that are not None, BETWEEN on "within", ORDER BY.   *)
(***************************************************************************)

Select(from, equal, optional, within, order, shows) ==
  [from |-> from, equal |-> equal, optional |-> optional, within |-> within,
   order |-> order, shows |-> shows]
All(table) == Tables[table].columns \ Tables[table].hidden
Anytime    == ""

get_funds         == Select("funds", {}, {"fund_id"}, Anytime, << "fund_id" >>, All("funds"))
get_share_classes ==
  Select("share_classes", {"fund_id"}, {}, Anytime, << "class_code" >>, All("share_classes"))
get_fund_domicile == Select("fund_domiciles", {"fund_id"}, {}, Anytime, << >>, {"rest"})
get_instruments   ==
  Select("instruments", {}, {"instrument_id", "ticker", "ccy", "country"}, Anytime,
         << "instrument_id" >>, All("instruments"))
get_treaty_rate   ==
  Select("wht_treaty", {"domicile_country", "source_country"}, {}, Anytime, << >>,
         All("wht_treaty"))
get_fund_calendar ==
  Select("share_classes", {"fund_id", "class_code"}, {}, Anytime, << >>, {"fund_id", "class_code"})

get_holdings ==
  Select("holdings", {"fund_id", "as_of_date"}, {"instrument_id"}, Anytime,
         << "instrument_id" >>, All("holdings"))
get_holdings_history ==
  Select("holdings", {"fund_id", "instrument_id"}, {}, "as_of_date", << "as_of_date" >>,
         {"as_of_date", "rest"})
get_trades_Dev ==   \* the trades of a day in any order
  Select("trades", {"fund_id"}, {"instrument_id"}, "trade_date", << "trade_date" >>,
         All("trades"))
get_trades ==
  Select("trades", {"fund_id"}, {"instrument_id"}, "trade_date",
         << "trade_date", "trade_id" >>, All("trades"))
get_cash ==
  Select("cash", {"fund_id", "as_of_date"}, {"ccy"}, Anytime, << "ccy" >>, All("cash"))
get_capstock ==
  Select("capstock", {"fund_id", "class_code"}, {}, "as_of_date",
         << "as_of_date", "capstock_id" >>, All("capstock"))

get_price_series ==
  Select("prices", {"instrument_id", "source"}, {}, "as_of_date", << "as_of_date" >>,
         {"as_of_date", "rest"})
get_price_around_date == get_price_series
get_fx_rate ==
  Select("fx_rates", {"ccy", "as_of_date", "snap"}, {}, Anytime, << >>, All("fx_rates"))
get_fx_rates_all_snaps ==
  Select("fx_rates", {"ccy", "as_of_date"}, {}, Anytime, << "snap" >>, All("fx_rates"))
get_bond_accruals ==
  Select("bond_accruals", {"instrument_id"}, {}, "as_of_date", << "as_of_date" >>,
         {"as_of_date", "rest"})

get_corporate_actions_Dev ==   \* SELECT *
  Select("corporate_actions", {}, {"instrument_id", "ca_type"}, "ex_date",
         << "ex_date", "ca_id" >>, Tables["corporate_actions"].columns)
get_corporate_actions ==
  Select("corporate_actions", {}, {"instrument_id", "ca_type"}, "ex_date",
         << "ex_date", "ca_id" >>, All("corporate_actions"))
get_dividend_receipts ==
  Select("dividend_receipts", {}, {"fund_id", "instrument_id"}, "as_of_date",
         << "as_of_date", "receipt_id" >>, All("dividend_receipts"))

get_nav_history ==
  Select("nav", {"fund_id", "class_code"}, {}, "as_of_date", << "as_of_date" >>,
         {"as_of_date", "rest"})
get_fee_accruals ==
  Select("fee_accruals", {"fund_id", "class_code"}, {}, "as_of_date", << "as_of_date" >>,
         All("fee_accruals"))

QueryOf ==
  [get_funds |-> get_funds, get_share_classes |-> get_share_classes,
   get_fund_domicile |-> get_fund_domicile, get_instruments |-> get_instruments,
   get_treaty_rate |-> get_treaty_rate, get_fund_calendar |-> get_fund_calendar,
   get_holdings |-> get_holdings, get_holdings_history |-> get_holdings_history,
   get_trades |-> get_trades, get_cash |-> get_cash, get_capstock |-> get_capstock,
   get_price_series |-> get_price_series, get_price_around_date |-> get_price_around_date,
   get_fx_rate |-> get_fx_rate, get_fx_rates_all_snaps |-> get_fx_rates_all_snaps,
   get_bond_accruals |-> get_bond_accruals, get_corporate_actions |-> get_corporate_actions,
   get_dividend_receipts |-> get_dividend_receipts, get_nav_history |-> get_nav_history,
   get_fee_accruals |-> get_fee_accruals]
-----------------------------------------------------------------------------
(***************************************************************************)
(* TOOL_REGISTRY: what the model is told of the arguments of a tool, those *)
(* that are required, those that may be null, and the others.              *)
(***************************************************************************)

Takes(required, nullable, plain) ==
  [required |-> required, nullable |-> nullable, plain |-> plain]

ReferenceSchema ==
  [get_funds         |-> Takes({}, {"fund_id"}, {}),
   get_share_classes |-> Takes({"fund_id"}, {}, {}),
   get_fund_domicile |-> Takes({"fund_id"}, {}, {}),
   get_instruments   |-> Takes({}, {"instrument_id", "ticker", "ccy", "country"}, {}),
   get_treaty_rate   |-> Takes({"domicile_country", "source_country"}, {}, {}),
   get_fund_calendar |-> Takes({"fund_id", "share_class"}, {}, {})]

PositionSchema ==
  [get_holdings |-> Takes({"fund_id", "as_of_date"}, {"instrument_id"}, {}),
   get_holdings_history |-> Takes({"fund_id", "instrument_id", "start_date", "end_date"}, {}, {}),
   get_trades   |-> Takes({"fund_id", "start_date", "end_date"}, {"instrument_id"}, {}),
   get_cash     |-> Takes({"fund_id", "as_of_date"}, {"ccy"}, {}),
   get_capstock |-> Takes({"fund_id", "share_class", "start_date", "end_date"}, {}, {})]

MarketSchema ==
  [get_price_series  |-> Takes({"instrument_id", "start_date", "end_date"}, {}, {"source"}),
   get_price_around_date |-> Takes({"instrument_id", "target_date"}, {},
                                   {"lookback_days", "lookahead_days", "source"}),
   get_fx_rate       |-> Takes({"ccy", "as_of_date"}, {}, {"snap"}),
   get_fx_rates_all_snaps |-> Takes({"ccy", "as_of_date"}, {}, {}),
   get_bond_accruals |-> Takes({"instrument_id", "start_date", "end_date"}, {}, {})]

IncomeSchema ==
  [get_corporate_actions |-> Takes({}, {"instrument_id", "start_date", "end_date", "ca_types"}, {}),
   get_dividend_receipts |-> Takes({}, {"fund_id", "instrument_id", "start_date", "end_date"}, {})]

NavSchema ==
  [get_nav_history  |-> Takes({"fund_id", "share_class", "start_date", "end_date"}, {}, {}),
   get_fee_accruals |-> Takes({"fund_id", "share_class", "start_date", "end_date"}, {}, {})]

ComputationSchema ==
  [compute_implied_dividend_return |-> Takes({"gross_amount", "pre_ex_price"}, {}, {}),
   compute_implied_wht_rate  |-> Takes({"gross_amount", "wht_amount"}, {}, {}),
   compute_expected_coupon_accrual |-> Takes({"face_value", "coupon_rate",
                                              "day_count_convention", "days"}, {}, {}),
   compute_perf_fee          |-> Takes({"nav_per_share", "hwm_nav_per_share", "perf_fee_bps",
                                        "period_days"}, {}, {"hurdle_bps"}),
   detect_flat_run_in_series |-> Takes({"series", "min_length_days"}, {}, {"tolerance"}),
   compute_nav_move_bps      |-> Takes({"nav_t", "nav_t_minus_1"}, {}, {})]

Schema == ReferenceSchema ++ PositionSchema ++ MarketSchema ++ IncomeSchema ++ NavSchema
            ++ ComputationSchema

\* Nothing enforces it: the model may send what it likes.
Conforms(c) ==
  LET s == Schema[c.tool]
  IN  /\ c.tool \in DOMAIN Schema
      /\ s.required \subseteq DOMAIN c.args
      /\ \A n \in DOMAIN c.args :
           /\ n \in s.required \cup s.nullable \cup s.plain
           /\ c.args[n] # Bad /\ (c.args[n] = Null => n \in s.nullable)
-----------------------------------------------------------------------------
(***************************************************************************)
(* The adapters: a["x"] for each of "needs", a.get("x") for each of "may". *)
(***************************************************************************)

Reads(needs, may) == [needs |-> needs, may |-> may]

ReferenceArgs ==
  [get_funds         |-> Reads({}, {"fund_id"}),
   get_share_classes |-> Reads({"fund_id"}, {}),
   get_fund_domicile |-> Reads({"fund_id"}, {}),
   get_instruments   |-> Reads({}, {"instrument_id", "ticker", "ccy", "country"}),
   get_treaty_rate   |-> Reads({"domicile_country", "source_country"}, {}),
   get_fund_calendar |-> Reads({"fund_id", "share_class"}, {})]

PositionArgs_Dev ==   \* a["instrument_id"] in two of them
  [get_holdings |-> Reads({"fund_id", "as_of_date", "instrument_id"}, {}),
   get_holdings_history |-> Reads({"fund_id", "instrument_id", "start_date", "end_date"}, {}),
   get_trades   |-> Reads({"fund_id", "start_date", "end_date", "instrument_id"}, {}),
   get_cash     |-> Reads({"fund_id", "as_of_date"}, {"ccy"}),
   get_capstock |-> Reads({"fund_id", "share_class", "start_date", "end_date"}, {})]
PositionArgs ==
  [get_holdings |-> Reads({"fund_id", "as_of_date"}, {"instrument_id"}),
   get_holdings_history |-> Reads({"fund_id", "instrument_id", "start_date", "end_date"}, {}),
   get_trades   |-> Reads({"fund_id", "start_date", "end_date"}, {"instrument_id"}),
   get_cash     |-> Reads({"fund_id", "as_of_date"}, {"ccy"}),
   get_capstock |-> Reads({"fund_id", "share_class", "start_date", "end_date"}, {})]

MarketArgs ==
  [get_price_series  |-> Reads({"instrument_id", "start_date", "end_date"}, {"source"}),
   get_price_around_date |-> Reads({"instrument_id", "target_date"},
                                   {"lookback_days", "lookahead_days", "source"}),
   get_fx_rate       |-> Reads({"ccy", "as_of_date"}, {"snap"}),
   get_fx_rates_all_snaps |-> Reads({"ccy", "as_of_date"}, {}),
   get_bond_accruals |-> Reads({"instrument_id", "start_date", "end_date"}, {})]

IncomeArgs ==
  [get_corporate_actions |-> Reads({}, {"instrument_id", "start_date", "end_date", "ca_types"}),
   get_dividend_receipts |-> Reads({}, {"fund_id", "instrument_id", "start_date", "end_date"})]

NavArgs ==
  [get_nav_history  |-> Reads({"fund_id", "share_class", "start_date", "end_date"}, {}),
   get_fee_accruals |-> Reads({"fund_id", "share_class", "start_date", "end_date"}, {})]

ComputationArgs ==
  [compute_implied_dividend_return |-> Reads({"gross_amount", "pre_ex_price"}, {}),
   compute_implied_wht_rate  |-> Reads({"gross_amount", "wht_amount"}, {}),
   compute_expected_coupon_accrual |-> Reads({"face_value", "coupon_rate",
                                              "day_count_convention", "days"}, {}),
   compute_perf_fee          |-> Reads({"nav_per_share", "hwm_nav_per_share", "perf_fee_bps",
                                        "period_days"}, {"hurdle_bps"}),
   detect_flat_run_in_series |-> Reads({"series", "min_length_days"}, {"tolerance"}),
   compute_nav_move_bps      |-> Reads({"nav_t", "nav_t_minus_1"}, {})]

Adapter == ReferenceArgs ++ PositionArgs ++ MarketArgs ++ IncomeArgs ++ NavArgs
             ++ ComputationArgs

\* Names: 1 for PRIMARY and LDN_4PM, the defaults.
Default == [source |-> 1, snap |-> 1, lookback_days |-> 5, lookahead_days |-> 1,
            hurdle_bps |-> 0, tolerance |-> 0]
Arg(args, n) ==
  IF n \in DOMAIN args THEN args[n] ELSE IF n \in DOMAIN Default THEN Default[n] ELSE Null

\* What is passed on as it is; everything else is parsed, as a date or a number.
Texts == {"fund_id", "instrument_id", "ticker", "ccy", "country", "domicile_country", "ca_types",
          "source_country", "share_class", "source", "snap", "day_count_convention"}

\* Amounts are counted in a unit they are multiples of; bps and days are whole
\* (int() in the adapters), and a series is a list of amounts.
Legible(n, v) == v \in {Null, Bad} \/ (IF n = "series" THEN v \in Seq(Int) ELSE v \in Int)
ASSUME CallsAssumption ==
  \A c \in Calls : \A n \in (DOMAIN c.args) \ Texts : Legible(n, c.args[n])

\* The two tools of income.py take no range unless both ends are given.
RangeIsOptional(tool) == tool \in DOMAIN IncomeArgs
HasRange(tool, args) ==
  RangeIsOptional(tool) => Null \notin {Arg(args, "start_date"), Arg(args, "end_date")}

Parsed(tool, args) ==
  ((Adapter[tool].needs \cup Adapter[tool].may) \ Texts)
    \ (IF HasRange(tool, args) THEN {} ELSE {"start_date", "end_date"})

AdapterRaises(tool, args) ==
  \/ ~(Adapter[tool].needs \subseteq DOMAIN args)                     \* KeyError
  \/ \E n \in Parsed(tool, args) : Arg(args, n) \in {Null, Bad}       \* TypeError, ValueError
-----------------------------------------------------------------------------
(***************************************************************************)
(* Running a tool.                                                         *)
(***************************************************************************)

ArgOf(column) ==
  CASE column = "class_code" -> "share_class" [] column = "ca_type" -> "ca_types"
    [] OTHER -> column

Between_Dev(tool, args, date) ==   \* the last day is left out
  IF tool = "get_price_around_date"
  THEN /\ Arg(args, "target_date") - Arg(args, "lookback_days") <= date
       /\ date <= Arg(args, "target_date") + Arg(args, "lookahead_days")
  ELSE Arg(args, "start_date") <= date /\ date < Arg(args, "end_date")
Between(tool, args, date) ==
  IF tool = "get_price_around_date"
  THEN /\ Arg(args, "target_date") - Arg(args, "lookback_days") <= date
       /\ date <= Arg(args, "target_date") + Arg(args, "lookahead_days")
  ELSE Arg(args, "start_date") <= date /\ date <= Arg(args, "end_date")

\* column = ? is false of a null, and no filter is added for an empty list.
Holds(r, column, v) ==
  IF column = "ca_type" THEN v \in {Null, {}} \/ r[column] \in v ELSE r[column] = v

Found(w, tool, args) ==
  LET q == QueryOf[tool]
  IN  {r \in w[q.from] :
         /\ \A c \in q.equal : Holds(r, c, Arg(args, ArgOf(c)))
         /\ \A c \in q.optional : LET v == Arg(args, ArgOf(c)) IN v = Null \/ Holds(r, c, v)
         /\ q.within # Anytime /\ HasRange(tool, args) => Between(tool, args, r[q.within])}

\* What ORDER BY leaves open is open.
Follows(r, s, order) ==
  \E k \in DOMAIN order : /\ s[order[k]] < r[order[k]]
                          /\ \A j \in 1 .. k - 1 : r[order[j]] = s[order[j]]
Orderings(rows, order) ==
  {s \in [1 .. Cardinality(rows) -> rows] :
     \A j, k \in DOMAIN s : j < k => s[j] # s[k] /\ ~Follows(s[j], s[k], order)}

Project(s, columns) == [k \in DOMAIN s |-> [c \in columns |-> s[k][c]]]

\* Numbers for compute_perf_fee and the others; a series is taken as it is.
Number(args, n) == Rat(Arg(args, n))
ComputeRaises(tool, args) ==
  CASE tool = "compute_implied_dividend_return" -> DividendRaises(Number(args, "pre_ex_price"))
    [] tool = "compute_implied_wht_rate" -> WhtRaises(Number(args, "gross_amount"))
    [] tool = "compute_expected_coupon_accrual" -> CouponRaises(Arg(args, "day_count_convention"))
    [] tool = "compute_perf_fee" ->
         FeeRaises(Number(args, "nav_per_share"), Number(args, "hwm_nav_per_share"),
                   Arg(args, "perf_fee_bps"))
    [] tool = "compute_nav_move_bps" -> MoveRaises(Number(args, "nav_t_minus_1"))
    [] OTHER -> FALSE
Computed(tool, args) ==
  CASE tool = "compute_implied_dividend_return" ->
         compute_implied_dividend_return(Number(args, "gross_amount"), Number(args, "pre_ex_price"))
    [] tool = "compute_implied_wht_rate" ->
         compute_implied_wht_rate(Number(args, "gross_amount"), Number(args, "wht_amount"))
    [] tool = "compute_expected_coupon_accrual" ->
         compute_expected_coupon_accrual(Number(args, "face_value"), Number(args, "coupon_rate"),
           Arg(args, "day_count_convention"), Arg(args, "days"))
    [] tool = "compute_perf_fee" ->
         compute_perf_fee(Number(args, "nav_per_share"), Number(args, "hwm_nav_per_share"),
           Arg(args, "hurdle_bps"), Arg(args, "perf_fee_bps"), Arg(args, "period_days"))
    [] tool = "compute_nav_move_bps" ->
         compute_nav_move_bps(Number(args, "nav_t"), Number(args, "nav_t_minus_1"))

\* What the tool may return: rows, or a value, or an exception.
Outcome(error, rows, value) == [error |-> error, rows |-> rows, value |-> value]
Raised == Outcome(TRUE, << >>, << >>)

Outcomes(w, tool, args) ==
  CASE tool = "detect_flat_run_in_series" ->
         {Outcome(FALSE, detect_flat_run_in_series(Arg(args, "series"),
                    Arg(args, "min_length_days"), Arg(args, "tolerance")), << >>)}
    [] tool \in DOMAIN ComputationArgs \ {"detect_flat_run_in_series"} ->
         {IF ComputeRaises(tool, args) THEN Raised
          ELSE Outcome(FALSE, << >>, Computed(tool, args))}
    [] tool = "get_fund_calendar" /\ Found(w, tool, args) = {} -> {Raised}
    [] OTHER ->
         LET q == QueryOf[tool]
         IN  {Outcome(FALSE, Project(s, q.shows), << >>) :
                s \in Orderings(Found(w, tool, args), q.order)}
-----------------------------------------------------------------------------
(***************************************************************************)
(* dispatch().                                                             *)
(***************************************************************************)

Cut(rows) == SubSeq(rows, 1, IF Len(rows) < MaxRows THEN Len(rows) ELSE MaxRows)

serialize_result_Dev(o) ==   \* asks the head whether it is too long
  [error |-> o.error, value |-> o.value, rows |-> Cut(o.rows), total |-> Len(o.rows),
   truncated |-> Len(Cut(o.rows)) > MaxRows]
serialize_result(o) ==
  [error |-> o.error, value |-> o.value, rows |-> Cut(o.rows), total |-> Len(o.rows),
   truncated |-> Len(o.rows) > MaxRows]

summarize_result_Dev(o) == Len(Cut(o.rows))
summarize_result(o)     == Len(o.rows)

Entry(c, error, rows) == [call |-> c, error |-> error, rows |-> rows]

Accepted(c) == c.tool \in DOMAIN Schema /\ ~AdapterRaises(c.tool, c.args)

\* An unknown tool, and an adapter that raises: no tool is run.
Reject(c) ==
  /\ ~Accepted(c)
  /\ log' = Append(log, Entry(c, TRUE, 0))
  /\ shown' = Append(shown, serialize_result(Raised))
  /\ UNCHANGED << db, audit >>

\* The tool is run, and its outcome is audited unless the line cannot be
\* written, which no one is told of.
Run(c) ==
  /\ Accepted(c)
  /\ \E o \in Outcomes(db, c.tool, c.args) :
       LET entry == Entry(c, o.error, summarize_result(o))
       IN  /\ log' = Append(log, entry)
           /\ shown' = Append(shown, serialize_result(o))
           /\ \/ audit' = Append(audit, Entry(c, o.error, Len(o.rows)))
              \/ UNCHANGED audit
  /\ UNCHANGED db

dispatch(c) == Reject(c) \/ Run(c)

CallsSoFar == {log[k].call : k \in DOMAIN log}

Init ==
  /\ db \in Warehouses
  /\ log = << >> /\ shown = << >> /\ audit = << >>
Next ==
  /\ Len(log) < MaxCalls
  /\ \E c \in IF Cardinality(CallsSoFar) < MaxDifferent THEN Calls ELSE CallsSoFar :
       dispatch(c)
Spec == Init /\ [][Next]_vars
-----------------------------------------------------------------------------
(***************************************************************************)
(* Properties.                                                             *)
(***************************************************************************)

\* What an argument says of a row, by its name; the tool's own default stands
\* for a source or a snap that is not given.
Says(r, date, args, n) ==
  LET v == Arg(args, n)
  IN  CASE n = "start_date"    -> v <= r[date]
        [] n = "end_date"      -> r[date] <= v
        [] n = "target_date"   -> /\ r[date] >= v - Arg(args, "lookback_days")
                                  /\ r[date] <= v + Arg(args, "lookahead_days")
        [] n = "ca_types"      -> v = {} \/ r["ca_type"] \in v
        [] n = "share_class"   -> r["class_code"] = v
        [] n \in {"lookback_days", "lookahead_days"} -> TRUE
        [] OTHER               -> r[n] = v
DateOf(t) == IF t = "corporate_actions" THEN "ex_date"
             ELSE IF t = "trades" THEN "trade_date" ELSE "as_of_date"
Asked(c) ==
  LET t == QueryOf[c.tool].from
      given == {n \in Schema[c.tool].required \cup Schema[c.tool].nullable \cup Schema[c.tool].plain :
                  Arg(c.args, n) # Null}
  IN  {r \in db[t] : \A n \in given : Says(r, DateOf(t), c.args, n)}

IsAnswer(p, c) ==
  LET rows == {[n \in QueryOf[c.tool].shows |-> r[n]] : r \in Asked(c)}
      told == {p.rows[k] : k \in DOMAIN p.rows}
  IN  ~p.error => /\ told \subseteq rows /\ p.total = Cardinality(Asked(c))
                  /\ p.truncated \/ told = rows
                  /\ p.truncated <=> Len(p.rows) < p.total

Queried(k) == log[k].call.tool \in DOMAIN QueryOf /\ Conforms(log[k].call)

\* What a query shows is what its arguments ask for, every one of them, and
\* all of it unless it says that it was cut, and then how much there is
\* (dispatcher.py:57-97 and 165-280 against the SQL of tools/*.py): the agent
\* reasons from rows that are absent.  One end of a range alone is no filter
\* (250-251), although the schema allows it and does not say so.
AnswersAreTheAsked ==
  \A k \in DOMAIN log :
    LET c == log[k].call
    IN  Queried(k) /\ HasRange(c.tool, c.args) => IsAnswer(shown[k], c)

\* The model cannot know more of a tool than its schema: a call that keeps to
\* it is run, and never comes back as a KeyError of the adapter (the registry,
\* 340-728, against the adapters, 133-326).
SchemaIsHonoured ==
  \A k \in DOMAIN log : Conforms(log[k].call) => Accepted(log[k].call)

\* For a fixed warehouse a tool is a function of its arguments, and so the
\* calls of an investigation can be replayed (docs/architecture.md section 4):
\* what ORDER BY leaves open is never seen, nor decides what is cut.
Reproducible ==
  \A j, k \in DOMAIN log : log[j].call = log[k].call => shown[j] = shown[k]

\* The columns that hold the ground truth make no difference to what is shown,
\* be it by projection, filter or order (tests/tools/test_tool_hygiene.py reads
\* the SELECTs only).
Blind(w) ==
  [t \in DOMAIN Tables |->
     {[c \in DOMAIN r |-> IF c \in Tables[t].hidden THEN 0 ELSE r[c]] : r \in w[t]}]
GroundTruthHidden ==
  \A k \in DOMAIN log :
    LET c == log[k].call
    IN  c.tool \in DOMAIN QueryOf /\ ~AdapterRaises(c.tool, c.args) =>
          shown[k] \in {serialize_result(o) : o \in Outcomes(Blind(db), c.tool, c.args)}

\* The run's own record of a call says what the agent was told, and the audit
\* trail holds nothing that did not happen: the row count is that of the
\* answer, not of what was left after the cut.
RecordsAgree ==
  /\ \A k \in DOMAIN log : log[k].error = shown[k].error /\ log[k].rows = shown[k].total
  /\ Len(audit) <= Len(log)
  /\ \A a \in DOMAIN audit : \E k \in DOMAIN log : k >= a /\ log[k] = audit[a]

\* The flat runs are the maximal ones that are long enough: none is missed at
\* either end of the series, and none is split (computation.py:169-208).
Maximal(series, min) ==
  {r \in (DOMAIN series) \X (DOMAIN series) :
     /\ r[2] - r[1] + 1 >= min
     /\ \A i \in r[1] .. r[2] : series[i] = series[r[1]]
     /\ r[1] = 1 \/ series[r[1] - 1] # series[r[1]]
     /\ r[2] = Len(series) \/ series[r[2] + 1] # series[r[1]]}
FlatRunsAreMaximal ==
  \A k \in DOMAIN log :
    LET c == log[k].call  p == shown[k]
    IN  /\ c.tool = "detect_flat_run_in_series" /\ ~p.error /\ ~p.truncated
        /\ Arg(c.args, "tolerance") = 0 /\ Arg(c.args, "min_length_days") > 0
        => {p.rows[i] : i \in DOMAIN p.rows}
             = Maximal(Arg(c.args, "series"), Arg(c.args, "min_length_days"))

\* A performance fee never takes the investor below the mark it is charged
\* above, and is charged on everything above it (computation.py:92-122).
FeeStopsAtTheHurdle ==
  \A k \in DOMAIN log :
    LET c == log[k].call
        nav == Number(c.args, "nav_per_share")
        mark == HurdleAdjusted(Number(c.args, "hwm_nav_per_share"), Arg(c.args, "hurdle_bps"),
                               Arg(c.args, "period_days"))
    IN  c.tool = "compute_perf_fee" /\ ~shown[k].error =>
          IF mark \prec nav
          THEN /\ ~((nav \ominus shown[k].value) \prec mark)
               /\ Arg(c.args, "perf_fee_bps") > 0 => Zero \prec shown[k].value
          ELSE shown[k].value = Zero
=============================================================================

------------------------------ MODULE MCTools -------------------------------
(***************************************************************************)
(* Two small warehouses for Tools, one of them with the ground truth       *)
(* columns set, and for each tool the calls that can be made of a few      *)
(* arguments, given or left out.  Days, funds, instruments, currencies,    *)
(* sources and the rest are numbers from 1.                                *)
(***************************************************************************)
EXTENDS Tools

\* A table of the product of some columns.
Full(rows) == {[r EXCEPT !.rest = 1] : r \in rows}

MCWarehouse(flag, ids) ==
  [funds         |-> Full([fund_id : 1 .. 2, rest : {1}]),
   share_classes |-> Full([fund_id : {1}, class_code : 1 .. 2, rest : {1}]),
   instruments   |-> Full([instrument_id : {1}, ticker : {1}, ccy : {1}, country : {1}, rest : {1}])
                     \cup Full([instrument_id : 2 .. 3, ticker : {2}, ccy : {1}, country : {2},
                                rest : {1}]),
   fx_rates      |-> Full([as_of_date : 1 .. 2, ccy : {1}, snap : 1 .. 2, rest : {1}]),
   prices        |-> Full([as_of_date : 1 .. 3, instrument_id : {1}, source : 1 .. 2, rest : {1}]),
   bond_accruals |-> Full([as_of_date : 1 .. 3, instrument_id : {2}, rest : {1}]),
   corporate_actions |->
     {[ca_id |-> i, instrument_id |-> (i % 2) + 1, ca_type |-> i % 2, ex_date |-> i,
       applied_flag |-> flag, rest |-> 1] : i \in ids},
   wht_treaty    |-> Full([domicile_country : {1}, source_country : 1 .. 2, rest : {1}]),
   fund_domiciles |-> Full([fund_id : {1}, rest : {1}]),
   holdings      |-> Full([as_of_date : 1 .. 2, fund_id : {1}, instrument_id : 1 .. 3, rest : {1}]),
   trades        |->
     {[trade_id |-> i, fund_id |-> 1, instrument_id |-> (i % 2) + 1, trade_date |-> 2,
       booking_note |-> flag, rest |-> 1] : i \in ids},
   capstock      |->
     {[capstock_id |-> i, fund_id |-> 1, class_code |-> 1, as_of_date |-> 2, rest |-> 1] : i \in ids},
   cash          |-> Full([as_of_date : 1 .. 2, fund_id : {1}, ccy : 1 .. 2, rest : {1}]),
   fee_accruals  |-> Full([as_of_date : 1 .. 3, fund_id : {1}, class_code : 1 .. 2, rest : {1}]),
   dividend_receipts |->
     {[receipt_id |-> i, fund_id |-> 1, instrument_id |-> 1, as_of_date |-> (i % 2) + 1, rest |-> 1] :
        i \in ids},
   nav           |-> {[as_of_date |-> d, fund_id |-> 1, class_code |-> 1, is_break |-> flag,
                       rest |-> 1] : d \in 1 .. 3}]

MCWarehouses == {MCWarehouse(0, 1 .. 3), MCWarehouse(1, {1, 2, 4})}

\* Every choice of arguments, each given or not.
Variants(tool, values) ==
  UNION {{[tool |-> tool, args |-> [n \in given |-> a[n]]] : given \in SUBSET DOMAIN a} :
           a \in values}

Name  == {1, 2}
Maybe == {1, Null}
Start == {1, 2, 3, Bad}
End   == {2, 3, Null}

MCQueryCalls ==
  UNION {
    Variants("get_funds", [fund_id : Maybe]),
    Variants("get_share_classes", [fund_id : Name]),
    Variants("get_fund_domicile", [fund_id : Name]),
    Variants("get_instruments", [instrument_id : Maybe, ticker : Maybe, ccy : Maybe,
                                 country : {2, Null}]),
    Variants("get_treaty_rate", [domicile_country : Name, source_country : Name]),
    Variants("get_fund_calendar", [fund_id : Name, share_class : Name]),
    Variants("get_holdings", [fund_id : Name, as_of_date : Start, instrument_id : Maybe]),
    Variants("get_holdings_history", [fund_id : Name, instrument_id : Name, start_date : Start,
                                      end_date : End]),
    Variants("get_trades", [fund_id : Name, start_date : Start, end_date : End,
                            instrument_id : Maybe]),
    Variants("get_cash", [fund_id : Name, as_of_date : Start, ccy : Maybe]),
    Variants("get_capstock", [fund_id : Name, share_class : Name, start_date : Start,
                              end_date : End]),
    Variants("get_price_series", [instrument_id : Name, start_date : Start, end_date : End,
                                  source : {1, 2, Null}]),
    Variants("get_price_around_date", [instrument_id : {1}, target_date : {2, Bad},
                                       lookback_days : {0, 1}, lookahead_days : {0, Null},
                                       source : {1, 2, Null}]),
    Variants("get_fx_rate", [ccy : Name, as_of_date : {1, Bad}, snap : {1, 2, Null}]),
    Variants("get_fx_rates_all_snaps", [ccy : Name, as_of_date : {1, Bad}]),
    Variants("get_bond_accruals", [instrument_id : Name, start_date : Start, end_date : End]),
    Variants("get_corporate_actions", [instrument_id : Maybe, start_date : Start, end_date : End,
                                       ca_types : {Null, {}, {1}, {0, 1}}]),
    Variants("get_dividend_receipts", [fund_id : Maybe, instrument_id : Maybe,
                                       start_date : Start, end_date : End]),
    Variants("get_nav_history", [fund_id : Name, share_class : Name, start_date : Start,
                                 end_date : End]),
    Variants("get_fee_accruals", [fund_id : Name, share_class : Name, start_date : Start,
                                  end_date : End])}

MCComputeCalls ==
  UNION {
    Variants("compute_implied_dividend_return", [gross_amount : {1, Bad}, pre_ex_price : {0, 2}]),
    Variants("compute_implied_wht_rate", [gross_amount : {0, 2}, wht_amount : {1, Null}]),
    Variants("compute_expected_coupon_accrual", [face_value : {100}, coupon_rate : {1},
       day_count_convention : {"ACT/365", "ACT/360", "ACT/ACT"}, days : {4}]),
    Variants("compute_perf_fee", [nav_per_share : {0, 10, 16, 30}, hwm_nav_per_share : {10, -1},
       hurdle_bps : {0, 5000}, perf_fee_bps : {0, 2000, -1}, period_days : {365}]),
    Variants("detect_flat_run_in_series",
       [series : Seqs!BoundedSeq(1 .. 3, 4), min_length_days : 0 .. 3, tolerance : {0, 1}]),
    Variants("compute_nav_move_bps", [nav_t : {1}, nav_t_minus_1 : {0, 2}])}

MCUnknown == Variants("compute_attribution", [holdings_t : {1}])

MCCalls == MCQueryCalls \cup MCComputeCalls \cup MCUnknown
=============================================================================

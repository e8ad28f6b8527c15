---------------------------- MODULE Computation -----------------------------
(***************************************************************************)
(* The computation tools of tools/computation.py: pure functions of the    *)
(* numbers the agent gives them.  An amount is a fraction; a series is a   *)
(* sequence of values, one a day.  Each has its guard beside it: the       *)
(* arguments it raises ValueError for.                                     *)
(***************************************************************************)
EXTENDS Rationals, Sequences

Seqs == INSTANCE SequencesExt

Bps(n) == Frac(n, 10000)
-----------------------------------------------------------------------------
DividendRaises(pre_ex_price) == ~(Zero \prec pre_ex_price)
compute_implied_dividend_return(gross_amount, pre_ex_price) ==
  Zero \ominus (gross_amount \oslash pre_ex_price)

WhtRaises(gross_amount) == ~(Zero \prec gross_amount)
compute_implied_wht_rate(gross_amount, wht_amount) == wht_amount \oslash gross_amount

\* 30/360 is taken for ACT/360.
YearDays == [c \in {"ACT/365", "ACT/360", "30/360"} |-> IF c = "ACT/365" THEN 365 ELSE 360]
CouponRaises(convention) == convention \notin DOMAIN YearDays
compute_expected_coupon_accrual(face, rate, convention, days) ==
  (face \otimes rate) \otimes Frac(days, YearDays[convention])

MoveRaises(nav_t_minus_1) == ~(Zero \prec nav_t_minus_1)
compute_nav_move_bps(nav_t, nav_t_minus_1) ==
  ((nav_t \oslash nav_t_minus_1) \ominus One) \otimes Rat(10000)
-----------------------------------------------------------------------------
FeeRaises(nav, hwm, perf_fee_bps) == nav \prec Zero \/ hwm \prec Zero \/ perf_fee_bps < 0

\* The high water mark, raised by the hurdle for the period.
HurdleAdjusted(hwm, hurdle_bps, days) ==
  hwm \otimes (One \oplus (Bps(hurdle_bps) \otimes Frac(days, 365)))

compute_perf_fee_Dev(nav, hwm, hurdle_bps, perf_fee_bps, days) ==   \* the hurdle as a switch
  LET floor == HurdleAdjusted(hwm, hurdle_bps, days)
  IN  IF floor \prec nav THEN (nav \ominus hwm) \otimes Bps(perf_fee_bps) ELSE Zero
compute_perf_fee(nav, hwm, hurdle_bps, perf_fee_bps, days) ==
  NoLess(Zero, nav \ominus HurdleAdjusted(hwm, hurdle_bps, days)) \otimes Bps(perf_fee_bps)
-----------------------------------------------------------------------------
\* A run ends where the value leaves that of its first day, and at the end of
\* the series.
EndsRun(series, start, i, tolerance) ==
  i = Len(series) + 1 \/ Abs(series[i] - series[start]) > tolerance

detect_flat_run_in_series_Dev(series, min_length_days, tolerance) ==   \* the last run is forgotten
  LET Scan(run, i) ==
        IF i <= Len(series) /\ EndsRun(series, run.start, i, tolerance)
        THEN [start |-> i,
              out |-> IF i - run.start >= min_length_days
                      THEN Append(run.out, << run.start, i - 1 >>) ELSE run.out]
        ELSE run
  IN  IF min_length_days < 1 THEN << >>
      ELSE Seqs!FoldLeft(Scan, [start |-> 1, out |-> << >>],
                         [k \in DOMAIN series |-> k + 1]).out
detect_flat_run_in_series(series, min_length_days, tolerance) ==
  LET Scan(run, i) ==
        IF EndsRun(series, run.start, i, tolerance)
        THEN [start |-> i,
              out |-> IF i - run.start >= min_length_days
                      THEN Append(run.out, << run.start, i - 1 >>) ELSE run.out]
        ELSE run
  IN  IF min_length_days < 1 THEN << >>
      ELSE Seqs!FoldLeft(Scan, [start |-> 1, out |-> << >>],
                         [k \in DOMAIN series |-> k + 1]).out
=============================================================================

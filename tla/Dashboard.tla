----------------------------- MODULE Dashboard ------------------------------
(***************************************************************************)
(* What the pages of the UI compute from a list of runs (the aggregations  *)
(* of ui/data_loaders.py): the latest run of each fund, the severity and   *)
(* the action that stand for a run, the rows of the dashboard and the      *)
(* counts above them, over all dates.                                      *)
(*                                                                         *)
(* A run is what json.loads returned; Missing stands for a key it does not *)
(* have, -1 for the datetime.min of an absent started_at.                  *)
(***************************************************************************)
EXTENDS Policy

RealDefect(v) == v.defect_type # "no_defect"

SeverityRank == [NONE |-> 0, LOW |-> 1, MEDIUM |-> 2, HIGH |-> 3, CRITICAL |-> 4]
ActionRank   == [AUTO_SIGN_OFF |-> 0, LOG_ONLY |-> 1, REVIEW_QUEUE |-> 2,
                 URGENT_REVIEW |-> 3, BLOCK_NAV |-> 4]

(* The loop `if rank(x) > rank(best): best = x`.                           *)
Strictest(rank, best, candidates) ==
  FoldLeft(LAMBDA x, y : IF rank[y] > rank[x] THEN y ELSE x, best, candidates)

Verdicts(run) == SelectSeq(run.verdicts, RealDefect)

(* A no_defect verdict is passed over: it counts as one of severity NONE.  *)
primary_severity(run) ==
  Strictest(SeverityRank, "NONE",
            [i \in DOMAIN run.verdicts |-> IF RealDefect(run.verdicts[i])
                                           THEN run.verdicts[i].severity ELSE "NONE"])

primary_action(run) == Strictest(ActionRank, "AUTO_SIGN_OFF", run.policy_actions)

NoRun == [name |-> Missing, started |-> -1]

(* by_fund: a run takes the place of its fund's only if it started later.  *)
latest_run_per_fund_Dev(runs, Funds) ==
  FoldLeft(LAMBDA by_fund, r : IF r.fund = Missing THEN by_fund ELSE [by_fund EXCEPT ![r.fund] = r],
           [f \in Funds |-> NoRun], runs)

latest_run_per_fund(runs, Funds) ==
  FoldLeft(LAMBDA by_fund, r :
             IF r.fund # Missing /\ (by_fund[r.fund] = NoRun \/ r.started > by_fund[r.fund].started)
             THEN [by_fund EXCEPT ![r.fund] = r]
             ELSE by_fund,
           [f \in Funds |-> NoRun], runs)

Row(run) ==
  IF run = NoRun
  THEN [run_id |-> Missing, status |-> "not_run", severity |-> "-", action |-> "-",
        defects |-> 0, started |-> -1]
  ELSE [run_id |-> run.name, status |-> IF run.converged THEN "complete" ELSE "halted",
        severity |-> primary_severity(run), action |-> primary_action(run),
        defects |-> Len(Verdicts(run)), started |-> run.started]

runs_to_dashboard_table(runs, Funds) ==
  LET by_fund == latest_run_per_fund(runs, Funds) IN [f \in Funds |-> Row(by_fund[f])]

aggregate_metrics(runs) ==
  [n_runs        |-> Len(runs),
   defects_total |-> FoldLeft(LAMBDA n, r : n + Len(Verdicts(r)), 0, runs),
   blocked       |-> Len(SelectSeq(runs, LAMBDA r : primary_action(r) = "BLOCK_NAV"))]
=============================================================================

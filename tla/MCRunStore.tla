----------------------------- MODULE MCRunStore -----------------------------
(***************************************************************************)
(* A directory for RunStore: live runs of ATLAS, a fixture of it and the   *)
(* manifest, sorted by name as on disk.                                    *)
(***************************************************************************)
EXTENDS RunStore

MCOrder == << "live1", "live2", "fixture", "manifest" >>
MCRank  == [n \in Names |-> CHOOSE i \in DOMAIN MCOrder : MCOrder[i] = n]

MCVerdict(defect, severity) ==
  [defect_type |-> defect, severity |-> severity, confidence |-> 90,
   recommended_action |-> "LOG_ONLY"]

MCEnd(converged, verdicts, actions) ==
  [converged |-> converged, verdicts |-> verdicts, policy_actions |-> actions]

\* A run without a verdict or an action, as run_agent returns it when its
\* answer is lost; a run that ran into a limit; a fixture with two defects,
\* the graver one first.
MCOutcomeOf == [n \in Live \cup Fixtures |->
  CASE n = "live1" -> MCEnd(TRUE, << >>, << >>)
    [] n = "live2" -> MCEnd(FALSE, << MCVerdict("agent_did_not_converge", "MEDIUM") >>,
                            << "REVIEW_QUEUE" >>)
    [] n = "fixture" -> MCEnd(TRUE, << MCVerdict("wrong_wht", "HIGH"),
                                       MCVerdict("stale_price", "LOW") >>,
                              << "BLOCK_NAV", "LOG_ONLY" >>)]

MCFundOf == [n \in Live \cup Fixtures |-> "ATLAS"]

MCSymmetry == Permutations(Sessions)
=============================================================================

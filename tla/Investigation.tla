--------------------------- MODULE Investigation ----------------------------
(***************************************************************************)
(* What an investigation promises its readers (the policy layer, the audit *)
(* trail and the UI), without saying how the agent conducts it: it makes   *)
(* tool calls one after the other and ends once, with a report or without. *)
(* The report is complete and does not change any more.                    *)
(***************************************************************************)
EXTENDS Policy

CONSTANTS
  Overrides, Defaults,   \* the rules the verdicts are resolved against
  Fund,
  NoReport               \* not the value of any report

VARIABLES
  status,     \* "open", "reported" or "abandoned"
  calls,      \* the tool calls made so far
  report

vars == << status, calls, report >>

TypeOK ==
  /\ status \in {"open", "reported", "abandoned"}
  /\ status # "reported" <=> report = NoReport

Init == status = "open" /\ calls = << >> /\ report = NoReport

(* One more tool call; the earlier ones stand.                             *)
Inquire ==
  /\ status = "open"
  /\ Len(calls') = Len(calls) + 1
  /\ \A i \in DOMAIN calls : calls'[i] = calls[i]
  /\ UNCHANGED << status, report >>

(* A report accounts for every call, resolves every verdict by the rules,  *)
(* and has at least one verdict unless the agent reached a conclusion.     *)
Complete(r) ==
  /\ r.tool_call_log = calls
  /\ \A i \in DOMAIN r.verdicts : r.verdicts[i] \in Verdict
  /\ DOMAIN r.policy_actions = DOMAIN r.verdicts
  /\ \A i \in DOMAIN r.verdicts :
       FollowsPrecedence(Overrides, Defaults, r.verdicts[i], Fund, r.policy_actions[i])
  /\ r.converged \/ DOMAIN r.verdicts # {}

Report ==
  /\ status = "open"
  /\ status' = "reported"
  /\ report' # NoReport /\ Complete(report')
  /\ UNCHANGED calls

Abandon ==
  /\ status = "open"
  /\ status' = "abandoned"
  /\ UNCHANGED << calls, report >>

Next == Inquire \/ Report \/ Abandon

Spec == Init /\ [][Next]_vars

(* Every investigation ends.                                               *)
Ends == status = "open" ~> status # "open"
=============================================================================

---------------------------- MODULE MCAgentLoop -----------------------------
(***************************************************************************)
(* A small world for AgentLoop: one fund, one real defect, the shipped     *)
(* shape of the rules, a registered and an unknown tool, and the answers   *)
(* that take the loop and the parser down every path.                      *)
(***************************************************************************)
EXTENDS AgentLoop

CONSTANTS
  Forms,          \* the block forms the responses come in
  Costs           \* the tokens a response may cost

MCDefault(id, severities, threshold, action) ==
  [rule_id |-> id, fund_id |-> Missing, defect_type |-> Missing,
   severity_in |-> severities, min_confidence |-> threshold, action |-> action]

MCDefaults ==
  << MCDefault("high_confident", {"HIGH", "CRITICAL"}, 85, "BLOCK_NAV"),
     MCDefault("high_unsure", {"HIGH", "CRITICAL"}, 0, "URGENT_REVIEW"),
     MCDefault("medium", {"MEDIUM"}, 0, "REVIEW_QUEUE"),
     MCDefault("low", {"LOW"}, 0, "LOG_ONLY"),
     MCDefault("none", {"NONE"}, 0, "AUTO_SIGN_OFF") >>

MCOverrides ==
  << [rule_id |-> "other", fund_id |-> "ATLAS", defect_type |-> "missed_corp_action",
      severity_in |-> {}, min_confidence |-> 0, action |-> "LOG_ONLY"],
     [rule_id |-> "strict", fund_id |-> Fund, defect_type |-> "missed_corp_action",
      severity_in |-> {"MEDIUM", "HIGH"}, min_confidence |-> 0, action |-> "URGENT_REVIEW"] >>

MCRuleIds == {"high_confident", "high_unsure", "medium", "low", "none", "other", "strict"}

Item(kind, fault, defect, severity, confidence) ==
  [kind |-> kind, fault |-> fault, defect_type |-> defect, severity |-> severity,
   confidence |-> confidence, recommended_action |-> Missing]

MCBlock(items) == [block |-> "list", items |-> items]

Good       == Item("object", "none", "missed_corp_action", "HIGH", 95)
Odd        == Item("object", "none", Missing, Missing, 150)
Unreadable == Item("object", "skip", "missed_corp_action", "HIGH", 0)
Huge       == Item("object", "overflow", "missed_corp_action", "HIGH", 0)
NotAnObject == Item("other", "none", Missing, Missing, 0)

FinalTexts ==
  {NoText, [block |-> "malformed", items |-> << >>],
   MCBlock(<< Good >>), MCBlock(<< NotAnObject, Unreadable, Odd >>),
   MCBlock(<< Unreadable >>), MCBlock(<< Good, Huge >>)}

TextBlock(t)    == [type |-> "text", name |-> NoTool, text |-> t]
ToolBlock(name) == [type |-> "tool_use", name |-> name, text |-> NoText]
Thinking        == [type |-> "thinking", name |-> NoTool, text |-> NoText]

(* Turns that ask for tools: one, two and the unknown one after a text     *)
(* that already holds a verdicts block.                                    *)
ToolTurns ==
  {<< ToolBlock("get_holdings") >>,
   << Thinking, ToolBlock("get_holdings"), ToolBlock("get_holdings") >>,
   << TextBlock(MCBlock(<< Good >>)), ToolBlock("no_such_tool") >>}

FinalTurns == {<< TextBlock(t) >> : t \in FinalTexts}

MCReply(content, reason, cost, form) ==
  [content |-> content, stop |-> reason, tokens |-> cost, form |-> form]

MCReplies ==
  {MCReply(c, "tool_use", n, f) : c \in ToolTurns, n \in Costs, f \in Forms}
  \cup {MCReply(c, r, n, f) : c \in FinalTurns, r \in {"end_turn", "max_tokens", "other"},
                              n \in Costs, f \in Forms}
  \cup {MCReply(c, "max_tokens", n, f) : c \in ToolTurns, n \in Costs, f \in Forms}

\* A model that does what it is asked: tool calls, then a good verdict.
MCGoodReplies ==
  {MCReply(c, "tool_use", n, f) : c \in ToolTurns, n \in Costs, f \in Forms}
  \cup {MCReply(<< TextBlock(MCBlock(<< Good >>)) >>, "end_turn", n, f) : n \in Costs, f \in Forms}

MCToolNames == {"get_holdings", "no_such_tool"}
MCRegistry  == {"get_holdings"}
=============================================================================

----------------------------- MODULE AgentLoop ------------------------------
(***************************************************************************)
(* One investigation: run_agent in agent/core.py with the retry loop of    *)
(* agent/api_wrapper.py, the dispatcher of agent/dispatcher.py, the audit  *)
(* line of tools/_audit.py and the policy layer.  The language model and   *)
(* the tools are the environment: a call of either may return anything of  *)
(* its kind.  The process may be stopped between any two steps.            *)
(***************************************************************************)
EXTENDS Policy

CONSTANTS
  Funds,              \* the fund_ids of the warehouse
  Fund,               \* the one under investigation
  Overrides,          \* the loaded fund overrides, a sequence of rules
  Defaults,           \* the loaded default rules
  RuleIds,            \* the rule_ids they carry
  ToolNames,          \* the tool names the model may ask for
  Registry,           \* the ones of TOOL_REGISTRY
  Replies,            \* the responses messages.create may return
  MaxIterations,
  MaxTokensPerRun,
  MaxCallTokens,      \* the most input and output tokens one response costs
  MaxRetries

NoTool == "no tool"
NoId   == << 0, 0 >>

StopReasons == {"end_turn", "max_tokens", "tool_use", "other"}

(* A content block of a response: a text, a tool_use or a thinking block.  *)
RawBlock == [type : {"text", "tool_use", "thinking"},
             name : ToolNames \cup {NoTool}, text : Text]

(* form: "dict" when the blocks of the response are plain dicts, "sdk"     *)
(* when they are objects of the anthropic package.                         *)
Reply == [content : Seq(RawBlock), stop : StopReasons,
          tokens : 0 .. MaxCallTokens, form : {"dict", "sdk"}]

ASSUME LoopAssumption ==
  /\ Replies \subseteq Reply
  /\ Registry \subseteq ToolNames
  /\ MaxIterations \in Nat /\ MaxTokensPerRun \in Nat
  /\ MaxCallTokens \in Nat /\ MaxRetries \in Nat

ASSUME RulesAssumption ==
  /\ Fund \in Funds /\ Missing \notin Funds
  /\ Overrides \in Seq(Rule(RuleIds, Funds, Int))
  /\ Defaults \in Seq(Rule(RuleIds, Funds, Int))

VARIABLES
  pc,              \* where run_agent is
  messages,        \* the conversation, messages[1] being the question
  iteration,
  usage,           \* input_tokens + output_tokens so far
  attempt,         \* failed attempts of the current call_messages
  converged,
  halted_reason,
  stop,            \* final_response.stop_reason, "none" before a response
  final_text,
  cursor,          \* the block the dispatch loop is at
  tool_results,    \* the tool_result blocks of the current turn
  tool_call_log,
  audit_lines,     \* the lines this run appended to audit/tool_calls.jsonl
  verdicts,
  policy_actions

loopVars   == << messages, iteration, usage, stop >>
haltVars   == << converged, halted_reason, final_text >>
toolVars   == << cursor, tool_results, tool_call_log, audit_lines >>
resultVars == << verdicts, policy_actions >>
vars == << pc, attempt, loopVars, haltVars, toolVars, resultVars >>

-----------------------------------------------------------------------------
(***************************************************************************)
(* The blocks of the conversation.                                         *)
(***************************************************************************)

Block(type, name, text, id, is_error) ==
  [type |-> type, name |-> name, text |-> text, id |-> id, is_error |-> is_error]

(* _content_blocks_to_dict.  The conditional expression that finds the     *)
(* type of a block is None for every block that is not a dict, and such a  *)
(* block keeps nothing.  The API gives each tool_use an id of its own:     *)
(* here the turn and the position of the block.                            *)
ContentBlocksToDict(reply, turn) ==
  [i \in DOMAIN reply.content |->
     LET b == reply.content[i]
     IN  IF reply.form = "dict"
         THEN Block(b.type, b.name, b.text,
                    IF b.type = "tool_use" THEN << turn, i >> ELSE NoId, FALSE)
         ELSE Block("None", NoTool, NoText, NoId, FALSE)]

(* _extract_text, as far as the parser can tell: the first verdicts block  *)
(* of the joined texts.                                                    *)
ExtractText(blocks) ==
  LET first == SelectInSeq(blocks, LAMBDA b : b.type = "text" /\ b.text.block # "absent")
  IN  IF first = 0 THEN NoText ELSE blocks[first].text

Question == Block("text", NoTool, NoText, NoId, FALSE)

Message(role, content) == [role |-> role, content |-> content]

Turn == messages[Len(messages)].content

-----------------------------------------------------------------------------
(***************************************************************************)
(* The conditions and updates the actions are made of.  A definition whose *)
(* name ends in _Dev deviates from the code: it is the fault that the      *)
(* definition after it is checked not to have.                             *)
(***************************************************************************)

OverBudget_Dev == FALSE
OverBudget == usage > MaxTokensPerRun

(* The loop ran out of turns without a final answer.                       *)
Exhausted_Dev == iteration >= MaxIterations
Exhausted == iteration >= MaxIterations /\ stop # "end_turn"

(* The stop reasons whose response is the last one and keeps its text.     *)
Final_Dev == {"end_turn", "other"}
Final == {"end_turn", "max_tokens", "other"}

FinalText(reason, blocks) ==
  final_text' = IF reason \in Final THEN ExtractText(blocks) ELSE final_text

StartDispatch_Dev == pc' = "dispatching" /\ cursor' = 1 /\ UNCHANGED tool_results
StartDispatch     == pc' = "dispatching" /\ cursor' = 1 /\ tool_results' = << >>

Call(b, is_error) ==
  [iteration |-> iteration, tool_name |-> b.name, tool_use_id |-> b.id,
   error |-> is_error]

LogCall_Lost(b, is_error) == tool_call_log' = << Call(b, is_error) >>
LogCall_Dev(b, is_error)  == tool_call_log' = Append(tool_call_log, Call(b, FALSE))
LogCall(b, is_error)      == tool_call_log' = Append(tool_call_log, Call(b, is_error))

NextAttempt_Dev == attempt' = (attempt + 1) % MaxRetries
NextAttempt     == attempt' = attempt + 1

StandIn_Dev(parsed) == IF DOMAIN parsed = {} /\ ~ converged
                       THEN << DidNotConverge >> ELSE parsed
StandIn(parsed)     == IF DOMAIN parsed = {} /\ ~ converged'
                       THEN << DidNotConverge >> ELSE parsed

-----------------------------------------------------------------------------
Init ==
  /\ pc = "loop"
  /\ messages = << Message("user", << Question >>) >>
  /\ iteration = 0 /\ usage = 0 /\ attempt = 0
  /\ converged = TRUE /\ halted_reason = "none"
  /\ stop = "none" /\ final_text = NoText
  /\ cursor = 1 /\ tool_results = << >>
  /\ tool_call_log = << >> /\ audit_lines = << >>
  /\ verdicts = << >> /\ policy_actions = << >>

(* converged = False, halted_reason = reason, break                        *)
Halt(reason) ==
  /\ pc' = "parsing"
  /\ converged' = FALSE
  /\ halted_reason' = reason

(* The head of the while loop: leave it, give up, or call the model.       *)
LeaveLoop ==
  /\ pc = "loop" /\ iteration >= MaxIterations
  /\ pc' = "parsing"
  /\ UNCHANGED << attempt, loopVars, haltVars, toolVars, resultVars >>

HaltOnBudget ==
  /\ pc = "loop" /\ iteration < MaxIterations
  /\ OverBudget
  /\ Halt("token_budget")
  /\ UNCHANGED << attempt, loopVars, final_text, toolVars, resultVars >>

BeginCall ==
  /\ pc = "loop" /\ iteration < MaxIterations
  /\ ~ OverBudget
  /\ pc' = "calling" /\ attempt' = 0
  /\ UNCHANGED << loopVars, haltVars, toolVars, resultVars >>

(* A transient status, a connection error or a timeout: sleep, try again.  *)
RetryCall ==
  /\ pc = "calling" /\ attempt < MaxRetries
  /\ NextAttempt
  /\ UNCHANGED << pc, loopVars, haltVars, toolVars, resultVars >>

(* call_messages raises: the retries are used up, the status is not        *)
(* transient, or there is no API key.                                      *)
FailCall ==
  /\ pc = "calling"
  /\ Halt("api_error")
  /\ UNCHANGED << attempt, loopVars, final_text, toolVars, resultVars >>

(* A response: count it, append the assistant turn, act on stop_reason.    *)
Answer(reply) ==
  LET blocks == ContentBlocksToDict(reply, iteration + 1)
  IN  /\ pc = "calling" /\ attempt < MaxRetries
      /\ usage' = usage + reply.tokens
      /\ iteration' = iteration + 1
      /\ stop' = reply.stop
      /\ messages' = Append(messages, Message("assistant", blocks))
      /\ FinalText(reply.stop, blocks)
      /\ \/ /\ reply.stop = "tool_use"
            /\ StartDispatch
            /\ UNCHANGED << converged, halted_reason >>
         \/ /\ reply.stop = "max_tokens"
            /\ Halt("max_output_tokens_hit_in_turn")
            /\ UNCHANGED << cursor, tool_results >>
         \/ /\ reply.stop \in {"end_turn", "other"}
            /\ pc' = "parsing"
            /\ UNCHANGED << cursor, tool_results, converged, halted_reason >>
      /\ UNCHANGED << attempt, tool_call_log, audit_lines, resultVars >>

(* The dispatch loop passes over a block that is not a tool_use.           *)
SkipBlock ==
  /\ pc = "dispatching" /\ cursor <= Len(Turn)
  /\ Turn[cursor].type # "tool_use"
  /\ cursor' = cursor + 1
  /\ UNCHANGED << pc, attempt, loopVars, haltVars, tool_results, tool_call_log,
                  audit_lines, resultVars >>

(* dispatch returned for the block at the cursor: the tool_call_log and    *)
(* the tool_result say the same.                                           *)
Dispatched(is_error) ==
  LET b == Turn[cursor]
  IN  /\ LogCall(b, is_error)
      /\ tool_results' = Append(tool_results,
           Block("tool_result", NoTool, NoText, b.id, is_error))
      /\ cursor' = cursor + 1
      /\ UNCHANGED << pc, attempt, loopVars, haltVars, resultVars >>

AtToolUse ==
  /\ pc = "dispatching" /\ cursor <= Len(Turn)
  /\ Turn[cursor].type = "tool_use"

(* An unknown tool, or arguments its adapter cannot convert: the tool      *)
(* function is not entered.                                                *)
RejectTool ==
  /\ AtToolUse
  /\ Dispatched(TRUE)
  /\ UNCHANGED audit_lines

(* The tool function runs, fails or not, and its decorator appends a line  *)
(* to the audit file unless the write fails, which is ignored.             *)
RunTool(fails) ==
  /\ AtToolUse
  /\ Turn[cursor].name \in Registry
  /\ Dispatched(fails)
  /\ \/ audit_lines' = Append(audit_lines, [tool_name |-> Turn[cursor].name, error |-> fails])
     \/ UNCHANGED audit_lines

(* Every block is dispatched: answer the turn and go round the loop.       *)
AnswerTools ==
  /\ pc = "dispatching" /\ cursor > Len(Turn)
  /\ messages' = Append(messages, Message("user", tool_results))
  /\ pc' = "loop"
  /\ UNCHANGED << attempt, iteration, usage, stop, haltVars, toolVars, resultVars >>

(* After the loop: the iteration check, the parser, the stand-in verdict   *)
(* and the policy layer.                                                   *)
Conclude ==
  /\ pc = "parsing"
  /\ ~ ParseRaises(final_text)
  /\ pc' = "saving"
  /\ converged' = (converged /\ ~ Exhausted)
  /\ halted_reason' = IF Exhausted THEN "max_iterations" ELSE halted_reason
  /\ verdicts' = StandIn(ParseVerdicts(final_text))
  /\ policy_actions' = [i \in DOMAIN verdicts' |->
                          ApplyPolicy(Overrides, Defaults, verdicts'[i], Fund)]
  /\ UNCHANGED << attempt, loopVars, final_text, toolVars >>

(* An exception leaves run_agent: the parser's, or that of save_agent_run. *)
Raise ==
  /\ \/ pc = "parsing" /\ ParseRaises(final_text)
     \/ pc = "saving"
  /\ pc' = "lost"
  /\ UNCHANGED << attempt, loopVars, haltVars, toolVars, resultVars >>

(* save_agent_run, and return.  From here on the variables are the fields  *)
(* of the persisted AgentRun.                                              *)
Save ==
  /\ pc = "saving"
  /\ pc' = "done"
  /\ UNCHANGED << attempt, loopVars, haltVars, toolVars, resultVars >>

(* The process is stopped before the run is saved: nothing is kept but the *)
(* audit lines.                                                            *)
Interrupt ==
  /\ pc \notin {"done", "lost"}
  /\ pc' = "lost"
  /\ UNCHANGED << attempt, loopVars, haltVars, toolVars, resultVars >>

Progress ==
  \/ LeaveLoop \/ HaltOnBudget \/ BeginCall
  \/ RetryCall \/ FailCall \/ \E reply \in Replies : Answer(reply)
  \/ SkipBlock \/ RejectTool \/ \E fails \in BOOLEAN : RunTool(fails)
  \/ AnswerTools \/ Conclude \/ Raise \/ Save

Next == Progress \/ Interrupt

(* Requests time out and tools are bounded queries, so run_agent goes on.  *)
Spec == Init /\ [][Next]_vars
FairSpec == Spec /\ WF_vars(Progress)

-----------------------------------------------------------------------------
(***************************************************************************)
(* Properties.                                                             *)
(***************************************************************************)

Locations   == {"loop", "calling", "dispatching", "parsing", "saving", "done", "lost"}
HaltReasons == {"token_budget", "api_error", "max_output_tokens_hit_in_turn",
                "max_iterations"}
Ids         == Nat \X Nat

ContentBlock ==
  [type : {"text", "tool_use", "thinking", "None", "tool_result"},
   name : ToolNames \cup {NoTool}, text : Text, id : Ids, is_error : BOOLEAN]

ChatMessage == [role : {"user", "assistant"}, content : Seq(ContentBlock)]

ToolCall == [iteration : Nat, tool_name : ToolNames \cup {NoTool},
             tool_use_id : Ids, error : BOOLEAN]

AuditLine == [tool_name : Registry, error : BOOLEAN]

(* The variables have the types of AgentRun's fields: in particular every  *)
(* verdict that reaches the policy layer is one Verdict.__post_init__      *)
(* accepts, and each has a policy action.                                  *)
TypeOK ==
  /\ pc \in Locations
  /\ messages \in Seq(ChatMessage) /\ messages # << >>
  /\ iteration \in Nat /\ usage \in Nat /\ attempt \in 0 .. MaxRetries
  /\ converged \in BOOLEAN
  /\ halted_reason \in HaltReasons \cup {"none"}
  /\ stop \in StopReasons \cup {"none"}
  /\ final_text \in Text
  /\ cursor \in Nat \ {0}
  /\ tool_results \in Seq(ContentBlock)
  /\ tool_call_log \in Seq(ToolCall)
  /\ audit_lines \in Seq(AuditLine)
  /\ \A i \in DOMAIN verdicts : verdicts[i] \in Verdict
  /\ DOMAIN policy_actions = DOMAIN verdicts
  /\ \A i \in DOMAIN verdicts : policy_actions[i] \in PolicyAction(RuleIds)

(* results holds one tool_result for each tool_use of turn, in their order.*)
Answered(turn, results) ==
  /\ {r.id : r \in ToSet(results)} = {b.id : b \in {u \in ToSet(turn) : u.type = "tool_use"}}
  /\ \A i, j \in DOMAIN results : i < j => results[i].id[2] < results[j].id[2]

(* The transcript keeps the form that messages.create asks for: the roles  *)
(* alternate, and each user turn after the question answers exactly the    *)
(* tool_use blocks of the assistant turn before it, in order.              *)
HistoryWellFormed ==
  \A k \in DOMAIN messages :
    /\ messages[k].role = IF k % 2 = 1 THEN "user" ELSE "assistant"
    /\ k % 2 = 1 /\ k > 1 => Answered(messages[k - 1].content, messages[k].content)

(* The tool calls the transcript shows in message k: the turn, the tool    *)
(* asked for there, and the outcome the model was told.                    *)
ShownIn(k) ==
  {[iteration |-> k \div 2, tool_name |-> messages[k - 1].content[r.id[2]].name,
    tool_use_id |-> r.id, error |-> r.is_error] :
     r \in {b \in ToSet(messages[k].content) : b.type = "tool_result"}}

ShownCalls == UNION {ShownIn(k) : k \in DOMAIN messages}

(* Between turns, tool_call_log and the transcript, which are built        *)
(* separately and persisted together, tell of the same calls with the same *)
(* outcomes, each once.                                                    *)
LogMatchesHistory ==
  pc \notin {"dispatching", "lost"} =>
    /\ ToSet(tool_call_log) = ShownCalls
    /\ \A i, j \in DOMAIN tool_call_log :
         tool_call_log[i].tool_use_id = tool_call_log[j].tool_use_id => i = j

(* What an investigation may spend: the budget is looked at only before a  *)
(* call, so it can be passed by at most the last one.                      *)
SpendingBounded == usage <= MaxTokensPerRun + MaxCallTokens

(* A finished run says truthfully why it ended: it either converged, with  *)
(* a final answer, or names the limit or failure that stopped it.          *)
HaltedReasonMeaning ==
  pc \in {"saving", "done"} =>
    /\ converged <=> halted_reason = "none"
    /\ converged => stop \in {"end_turn", "other"}
    /\ stop = "end_turn" => converged
    /\ halted_reason = "max_iterations" => iteration = MaxIterations
    /\ halted_reason = "token_budget" => usage > MaxTokensPerRun
    /\ halted_reason = "max_output_tokens_hit_in_turn" => stop = "max_tokens"

(* A run that did not converge never goes unnoticed: it carries a verdict  *)
(* and so an action.                                                       *)
UnconvergedIsRaised ==
  pc \in {"saving", "done"} /\ ~ converged => DOMAIN policy_actions # {}

(* The verdicts of a run are those of the answer its transcript ends with, *)
(* whatever made that answer the last; without any, a run that did not     *)
(* converge has the stand-in verdict and one that did has none.            *)
VerdictsAreTheLastAnswers ==
  pc \in {"saving", "done"} =>
    LET last   == messages[Len(messages)]
        answer == ParseVerdicts(IF last.role = "assistant"
                                THEN ExtractText(last.content) ELSE NoText)
    IN  verdicts = IF DOMAIN answer # {} THEN answer
                   ELSE IF converged THEN << >> ELSE << DidNotConverge >>

(* Every investigation ends: saved, or given up with an exception.         *)
Terminates == <>(pc \in {"done", "lost"})

-----------------------------------------------------------------------------
(***************************************************************************)
(* run_agent carries out an Investigation.                                 *)
(***************************************************************************)

AgentRun ==
  [tool_call_log |-> tool_call_log, verdicts |-> verdicts,
   policy_actions |-> policy_actions, converged |-> converged]

NoRun == << >>

Promise == INSTANCE Investigation WITH
  status   <- IF pc = "done" THEN "reported" ELSE IF pc = "lost" THEN "abandoned" ELSE "open",
  calls    <- tool_call_log,
  report   <- IF pc = "done" THEN AgentRun ELSE NoRun,
  NoReport <- NoRun

(* The persisted run keeps the promise: it holds the calls that were made, *)
(* all of them, and actions that the rules and their precedence give.      *)
KeepsPromise == Promise!Spec

(* tests/agent/test_agent_defect_3.py: the run must converge and produce a *)
(* verdicts block.                                                         *)
ConvergedRunsProduceVerdicts == pc = "done" /\ converged => DOMAIN verdicts # {}
=============================================================================

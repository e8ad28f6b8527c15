-------------------------- MODULE AgentLoop_proofs --------------------------
(***************************************************************************)
(* Theorems of AgentLoop, for every rule list, registry, set of responses  *)
(* and limit.                                                              *)
(***************************************************************************)
EXTENDS AgentLoop, Policy_proofs

(* The blocks kept of a response are content blocks, whatever their form.  *)
LEMMA BlocksType ==
  ASSUME NEW reply \in Replies, NEW turn \in Nat
  PROVE  /\ ContentBlocksToDict(reply, turn) \in Seq(ContentBlock)
         /\ Len(ContentBlocksToDict(reply, turn)) = Len(reply.content)
<1> DEFINE n == Len(reply.content)
           B == ContentBlocksToDict(reply, turn)
<1>1. /\ reply.content \in Seq(RawBlock) /\ n \in Nat
      /\ DOMAIN reply.content = 1 .. n
      /\ \A i \in 1 .. n : reply.content[i] \in RawBlock
  <2>1. reply.content \in Seq(RawBlock)
    BY LoopAssumption DEF Reply
  <2> QED
    BY <2>1, LenProperties
<1>2. NoText \in Text
  BY EmptySeq DEF NoText, Text
<1>3. B \in [1 .. n -> ContentBlock]
  <2>1. ASSUME NEW i \in 1 .. n PROVE B[i] \in ContentBlock
    <3>1. << turn, i >> \in Ids /\ NoId \in Ids
      BY <1>1 DEF Ids, NoId
    <3> QED
      BY <1>1, <1>2, <3>1 DEF ContentBlocksToDict, Block, ContentBlock, RawBlock
  <2>2. B = [i \in 1 .. n |-> B[i]]
    BY <1>1 DEF ContentBlocksToDict
  <2> HIDE DEF B
  <2> QED
    BY <2>1, <2>2
<1> HIDE DEF B
<1> QED
  BY <1>1, <1>3, FunctionIsSeq DEF B

(* The final text is one of the texts of the turn.                         *)
LEMMA ExtractTextType ==
  ASSUME NEW blocks \in Seq(ContentBlock)
  PROVE  ExtractText(blocks) \in Text
<1> DEFINE I == {i \in 1 .. Len(blocks) : blocks[i].type = "text" /\ blocks[i].text.block # "absent"}
           first == SelectInSeq(blocks, LAMBDA b : b.type = "text" /\ b.text.block # "absent")
<1>1. first = IF I # {} THEN Min(I) ELSE 0
  BY DEF SelectInSeq
<1>2. I \in SUBSET (1 .. Len(blocks)) /\ Len(blocks) \in Nat
  BY LenProperties
<1>3. ExtractText(blocks) = IF first = 0 THEN NoText ELSE blocks[first].text
  BY DEF ExtractText
<1> HIDE DEF I, first
<1>4. first \in 0 .. Len(blocks)
  BY <1>1, <1>2, FirstOf
<1>5. NoText \in Text
  BY EmptySeq DEF NoText, Text
<1>6. CASE first = 0
  BY <1>3, <1>5, <1>6
<1>7. CASE first # 0
  <2>1. blocks[first] \in ContentBlock
    BY <1>4, <1>7, LenProperties
  <2> QED
    BY <1>3, <1>7, <2>1 DEF ContentBlock
<1> QED
  BY <1>6, <1>7

(* What the parser and the stand-in give the policy layer are verdicts.    *)
LEMMA VerdictsType ==
  /\ \A text, i : i \in DOMAIN ParseVerdicts(text) => ParseVerdicts(text)[i] \in Verdict
  /\ DidNotConverge \in Verdict
<1>1. \A text, i : i \in DOMAIN ParseVerdicts(text) => ParseVerdicts(text)[i] \in Verdict
  BY CoercedVerdictIsLegal DEF ParseVerdicts
<1>2. DidNotConverge \in Verdict
  BY DEF DidNotConverge, Verdict, DefectTypes, Severities, Confidences, Actions
<1> QED
  BY <1>1, <1>2

-----------------------------------------------------------------------------
(* Type correctness.                                                       *)

LEMMA InitTypeOK == Init => TypeOK
<1> SUFFICES ASSUME Init PROVE TypeOK
  OBVIOUS
<1>1. NoText \in Text /\ NoId \in Ids
  BY EmptySeq DEF NoText, Text, NoId, Ids
<1>2. Question \in ContentBlock
  BY <1>1 DEF Question, Block, ContentBlock
<1>3. messages \in Seq(ChatMessage) /\ messages # << >>
  <2>1. << Question >> \in Seq(ContentBlock)
    BY <1>2
  <2> QED
    BY <2>1 DEF Init, Message, ChatMessage
<1>4. /\ tool_results \in Seq(ContentBlock) /\ tool_call_log \in Seq(ToolCall)
      /\ audit_lines \in Seq(AuditLine) /\ DOMAIN verdicts = {}
      /\ DOMAIN policy_actions = {}
  BY EmptySeq DEF Init
<1>5. attempt \in 0 .. MaxRetries
  BY LoopAssumption DEF Init
<1> QED
  BY <1>1, <1>3, <1>4, <1>5 DEF Init, TypeOK, Locations

(* The last element of a sequence.                                         *)
LEMMA LastIn ==
  ASSUME NEW S, NEW s \in Seq(S), s # << >>
  PROVE  Len(s) \in 1 .. Len(s) /\ s[Len(s)] \in S
BY LenProperties, EmptySeq

(* A dispatched block leaves the types alone, the audit lines apart.       *)
LEMMA DispatchedType ==
  ASSUME TypeOK, AtToolUse, NEW is_error \in BOOLEAN, Dispatched(is_error),
         audit_lines' \in Seq(AuditLine)
  PROVE  TypeOK'
<1> DEFINE b == Turn[cursor]
           r == Block("tool_result", NoTool, NoText, b.id, is_error)
<1>1. b \in ContentBlock
  <2>1. messages[Len(messages)].content \in Seq(ContentBlock)
    <3>1. messages \in Seq(ChatMessage) /\ messages # << >>
      BY DEF TypeOK
    <3>2. messages[Len(messages)] \in ChatMessage
      BY <3>1, LastIn
    <3> QED
      BY <3>2 DEF ChatMessage
  <2>2. cursor \in 1 .. Len(Turn)
    BY LenProperties, <2>1 DEF AtToolUse, TypeOK, Turn
  <2> QED
    BY <2>1, <2>2 DEF Turn
<1>2. /\ tool_call_log' = Append(tool_call_log, Call(b, is_error))
      /\ tool_results' = Append(tool_results, r)
      /\ cursor' = cursor + 1
      /\ UNCHANGED << pc, attempt, loopVars, haltVars, resultVars >>
  BY DEF Dispatched, LogCall
<1> HIDE DEF b
<1>3. Call(b, is_error) \in ToolCall
  BY <1>1 DEF Call, ToolCall, ContentBlock, TypeOK
<1>4. r \in ContentBlock
  <2>1. NoText \in Text
    BY EmptySeq DEF NoText, Text
  <2> QED
    BY <1>1, <2>1 DEF Block, ContentBlock
<1> HIDE DEF r
<1>5. tool_call_log' \in Seq(ToolCall) /\ tool_results' \in Seq(ContentBlock)
  BY <1>2, <1>3, <1>4, AppendProperties DEF TypeOK
<1> QED
  BY <1>2, <1>5 DEF TypeOK, loopVars, haltVars, resultVars

(* The verdicts a run concludes with are legal, parsed or stood in.        *)
LEMMA ConcludedVerdicts ==
  ASSUME Conclude
  PROVE  \A i \in DOMAIN verdicts' : verdicts'[i] \in Verdict
<1>1. \/ verdicts' = ParseVerdicts(final_text)
      \/ verdicts' = << DidNotConverge >>
  BY DEF Conclude, StandIn
<1>2. CASE verdicts' = ParseVerdicts(final_text)
  BY <1>2, VerdictsType
<1>3. CASE verdicts' = << DidNotConverge >>
  BY <1>3, VerdictsType
<1> QED
  BY <1>1, <1>2, <1>3

LEMMA NextTypeOK == TypeOK /\ [Next]_vars => TypeOK'
<1> SUFFICES ASSUME TypeOK, [Next]_vars PROVE TypeOK'
  OBVIOUS
<1> USE DEF TypeOK
<1>1. CASE LeaveLoop
  BY <1>1 DEF LeaveLoop, loopVars, haltVars, toolVars, resultVars, Locations
<1>2. CASE HaltOnBudget
  BY <1>2 DEF HaltOnBudget, Halt, loopVars, toolVars, resultVars, Locations, HaltReasons
<1>3. CASE BeginCall
  BY <1>3, LoopAssumption DEF BeginCall, loopVars, haltVars, toolVars, resultVars, Locations
<1>4. CASE RetryCall
  BY <1>4, LoopAssumption DEF RetryCall, NextAttempt, loopVars, haltVars, toolVars, resultVars
<1>5. CASE FailCall
  BY <1>5 DEF FailCall, Halt, loopVars, toolVars, resultVars, Locations, HaltReasons
<1>6. ASSUME NEW reply \in Replies, Answer(reply) PROVE TypeOK'
  <2> DEFINE blocks == ContentBlocksToDict(reply, iteration + 1)
  <2>1. reply.stop \in StopReasons /\ reply.tokens \in Nat
    BY LoopAssumption DEF Reply
  <2>2. blocks \in Seq(ContentBlock)
    BY BlocksType
  <2>3. /\ usage' = usage + reply.tokens /\ iteration' = iteration + 1
        /\ stop' = reply.stop /\ attempt' = attempt
        /\ messages' = Append(messages, Message("assistant", blocks))
        /\ FinalText(reply.stop, blocks)
        /\ UNCHANGED << tool_call_log, audit_lines, verdicts, policy_actions >>
    BY <1>6 DEF Answer, resultVars
  <2>4. /\ pc' \in Locations
        /\ cursor' \in Nat \ {0} /\ tool_results' \in Seq(ContentBlock)
        /\ converged' \in BOOLEAN /\ halted_reason' \in HaltReasons \cup {"none"}
    <3>1. CASE reply.stop = "tool_use"
      BY <1>6, <3>1, EmptySeq DEF Answer, StartDispatch, Locations
    <3>2. CASE reply.stop # "tool_use"
      BY <1>6, <3>2 DEF Answer, Halt, Locations, HaltReasons
    <3> QED
      BY <3>1, <3>2
  <2> HIDE DEF blocks
  <2>5. messages' \in Seq(ChatMessage) /\ messages' # << >>
    <3>1. Message("assistant", blocks) \in ChatMessage
      BY <2>2 DEF Message, ChatMessage
    <3> QED
      BY <2>3, <3>1, AppendProperties
  <2>6. final_text' \in Text
    BY <2>2, <2>3, ExtractTextType DEF FinalText
  <2> QED
    BY <2>1, <2>3, <2>4, <2>5, <2>6
<1>7. CASE SkipBlock
  BY <1>7 DEF SkipBlock, loopVars, haltVars, resultVars
<1>8. CASE RejectTool
  BY <1>8, DispatchedType DEF RejectTool
<1>9. ASSUME NEW fails \in BOOLEAN, RunTool(fails) PROVE TypeOK'
  <2>1. audit_lines' \in Seq(AuditLine)
    <3> DEFINE line == [tool_name |-> Turn[cursor].name, error |-> fails]
    <3>1. line \in AuditLine
      BY <1>9 DEF RunTool, AuditLine
    <3>2. CASE audit_lines' = audit_lines
      BY <3>2
    <3>3. CASE audit_lines' = Append(audit_lines, line)
      <4> HIDE DEF line
      <4> QED
        BY <3>1, <3>3, AppendProperties
    <3>4. audit_lines' = Append(audit_lines, line) \/ audit_lines' = audit_lines
      BY <1>9 DEF RunTool
    <3> QED
      BY <3>2, <3>3, <3>4
  <2> QED
    BY <1>9, <2>1, DispatchedType DEF RunTool
<1>10. CASE AnswerTools
  <2>1. Message("user", tool_results) \in ChatMessage
    BY DEF Message, ChatMessage
  <2>2. messages' \in Seq(ChatMessage) /\ messages' # << >>
    BY <1>10, <2>1, AppendProperties DEF AnswerTools
  <2> QED
    BY <1>10, <2>2 DEF AnswerTools, haltVars, toolVars, resultVars, Locations
<1>11. CASE Conclude
  <2>1. \A i \in DOMAIN verdicts' : verdicts'[i] \in Verdict
    BY <1>11, ConcludedVerdicts
  <2>2. /\ DOMAIN policy_actions' = DOMAIN verdicts'
        /\ \A i \in DOMAIN verdicts' :
             policy_actions'[i] = ApplyPolicy(Overrides, Defaults, verdicts'[i], Fund)
    BY <1>11 DEF Conclude
  <2>3. \A i \in DOMAIN verdicts' : policy_actions'[i] \in PolicyAction(RuleIds)
    BY <2>1, <2>2, RulesAssumption, PolicyActionType
  <2>4. /\ pc' \in Locations /\ converged' \in BOOLEAN
        /\ halted_reason' \in HaltReasons \cup {"none"}
    BY <1>11 DEF Conclude, Locations, HaltReasons
  <2> QED
    BY <1>11, <2>1, <2>2, <2>3, <2>4 DEF Conclude, loopVars, toolVars
<1>12. CASE Raise \/ Save \/ Interrupt
  BY <1>12 DEF Raise, Save, Interrupt, loopVars, haltVars, toolVars, resultVars, Locations
<1>13. CASE UNCHANGED vars
  BY <1>13 DEF vars, loopVars, haltVars, toolVars, resultVars
<1> QED
  BY <1>1, <1>2, <1>3, <1>4, <1>5, <1>6, <1>7, <1>8, <1>9, <1>10, <1>11, <1>12, <1>13
  DEF Next, Progress

(* Every state of every run has the types of an AgentRun: no verdict that  *)
(* __post_init__ would refuse reaches the policy layer, and each verdict   *)
(* has an action.                                                          *)
THEOREM TypeCorrect == Spec => []TypeOK
<1>1. Init => TypeOK
  BY InitTypeOK
<1>2. TypeOK /\ [Next]_vars => TypeOK'
  BY NextTypeOK
<1> QED
  BY <1>1, <1>2, PTL DEF Spec

-----------------------------------------------------------------------------
(***************************************************************************)
(* The inductive invariant: what run_agent knows at each place.  In the    *)
(* loop nothing has gone wrong yet; at "parsing" the loop was left in one  *)
(* of four ways, which the iteration check has still to tell apart.        *)
(***************************************************************************)

Undisturbed == converged /\ halted_reason = "none"

LoopInv ==
  /\ TypeOK
  /\ iteration <= MaxIterations /\ usage <= MaxTokensPerRun + MaxCallTokens
  /\ pc = "loop" => Undisturbed /\ stop \in {"none", "tool_use"}
  /\ pc = "calling" => /\ Undisturbed /\ stop \in {"none", "tool_use"}
                       /\ iteration < MaxIterations /\ usage <= MaxTokensPerRun
  /\ pc = "dispatching" => Undisturbed /\ stop = "tool_use"
  /\ pc = "parsing" =>
       /\ converged <=> halted_reason = "none"
       /\ converged => stop \in {"end_turn", "other"} \/ iteration = MaxIterations
       /\ stop = "end_turn" => converged
       /\ halted_reason # "max_iterations"
       /\ halted_reason = "token_budget" => usage > MaxTokensPerRun
       /\ halted_reason = "max_output_tokens_hit_in_turn" => stop = "max_tokens"
  /\ HaltedReasonMeaning
  /\ UnconvergedIsRaised
  /\ pc \in {"saving", "done"} =>
       \A i \in DOMAIN verdicts :
         policy_actions[i] = ApplyPolicy(Overrides, Defaults, verdicts[i], Fund)

LEMMA InitLoopInv == Init => LoopInv
<1> SUFFICES ASSUME Init PROVE LoopInv
  OBVIOUS
<1>1. TypeOK
  BY InitTypeOK
<1> QED
  BY <1>1, LoopAssumption DEF Init, LoopInv, Undisturbed, HaltedReasonMeaning, UnconvergedIsRaised

LEMMA NextLoopInv == LoopInv /\ [Next]_vars => LoopInv'
<1> SUFFICES ASSUME LoopInv, [Next]_vars PROVE LoopInv'
  OBVIOUS
<1>0. TypeOK /\ TypeOK'
  BY NextTypeOK DEF LoopInv
<1> USE DEF LoopInv, Undisturbed, HaltedReasonMeaning, UnconvergedIsRaised
<1>1. CASE LeaveLoop
  BY <1>0, <1>1, LoopAssumption
  DEF LeaveLoop, TypeOK, loopVars, haltVars, toolVars, resultVars
<1>2. CASE HaltOnBudget
  BY <1>0, <1>2, LoopAssumption
  DEF HaltOnBudget, OverBudget, Halt, TypeOK, loopVars, toolVars, resultVars
<1>3. CASE BeginCall
  BY <1>0, <1>3, LoopAssumption
  DEF BeginCall, OverBudget, TypeOK, loopVars, haltVars, toolVars, resultVars
<1>4. CASE RetryCall
  BY <1>0, <1>4 DEF RetryCall, loopVars, haltVars, toolVars, resultVars
<1>5. CASE FailCall
  BY <1>0, <1>5 DEF FailCall, Halt, loopVars, toolVars, resultVars
<1>6. ASSUME NEW reply \in Replies, Answer(reply) PROVE LoopInv'
  <2>1. reply.stop \in StopReasons /\ reply.tokens \in 0 .. MaxCallTokens
    BY LoopAssumption DEF Reply
  <2>2. /\ pc = "calling" /\ usage' = usage + reply.tokens
        /\ iteration' = iteration + 1 /\ stop' = reply.stop
    BY <1>6 DEF Answer
  <2>3. iteration' <= MaxIterations /\ usage' <= MaxTokensPerRun + MaxCallTokens
    BY <1>0, <2>1, <2>2, LoopAssumption DEF TypeOK
  <2>4. CASE reply.stop = "tool_use"
    BY <1>0, <1>6, <2>2, <2>3, <2>4 DEF Answer, StartDispatch
  <2>5. CASE reply.stop = "max_tokens"
    BY <1>0, <1>6, <2>2, <2>3, <2>5 DEF Answer, Halt
  <2>6. CASE reply.stop \in {"end_turn", "other"}
    <3>1. pc' = "parsing" /\ UNCHANGED << converged, halted_reason >>
      BY <1>6, <2>6 DEF Answer
    <3>2. converged /\ halted_reason = "none"
      BY <2>2
    <3>3. converged' /\ halted_reason' = "none" /\ (halted_reason = "none")'
      BY <3>1, <3>2
    <3> QED
      BY <1>0, <2>2, <2>3, <2>6, <3>1, <3>3
  <2> QED
    BY <2>1, <2>4, <2>5, <2>6 DEF StopReasons
<1>7. CASE SkipBlock
  BY <1>0, <1>7 DEF SkipBlock, loopVars, haltVars, resultVars
<1>8. CASE RejectTool
  BY <1>0, <1>8 DEF RejectTool, AtToolUse, Dispatched, loopVars, haltVars, resultVars
<1>9. ASSUME NEW fails \in BOOLEAN, RunTool(fails) PROVE LoopInv'
  BY <1>0, <1>9 DEF RunTool, AtToolUse, Dispatched, loopVars, haltVars, resultVars
<1>10. CASE AnswerTools
  BY <1>0, <1>10 DEF AnswerTools, haltVars, toolVars, resultVars
<1>11. CASE Conclude
  <2>1. /\ pc = "parsing" /\ pc' = "saving"
        /\ converged' = (converged /\ ~ Exhausted)
        /\ halted_reason' = IF Exhausted THEN "max_iterations" ELSE halted_reason
        /\ UNCHANGED << iteration, usage, stop >>
        /\ DOMAIN policy_actions' = DOMAIN verdicts'
        /\ \A i \in DOMAIN verdicts' :
             policy_actions'[i] = ApplyPolicy(Overrides, Defaults, verdicts'[i], Fund)
    BY <1>11 DEF Conclude, loopVars
  <2>2. ~ converged' => DOMAIN verdicts' # {}
    BY <1>11 DEF Conclude, StandIn
  <2>3. HaltedReasonMeaning'
    <3>1. CASE Exhausted
      <4>1. converged' = FALSE /\ halted_reason' = "max_iterations"
        BY <2>1, <3>1
      <4>2. iteration' = MaxIterations /\ stop' # "end_turn"
        BY <1>0, <2>1, <3>1, LoopAssumption DEF Exhausted, TypeOK
      <4> QED
        BY <4>1, <4>2
    <3>2. CASE ~ Exhausted
      <4>1. converged' = converged /\ halted_reason' = halted_reason
        BY <1>0, <2>1, <3>2 DEF TypeOK
      <4>2. converged => stop \in {"end_turn", "other"}
        BY <1>0, <2>1, <3>2, LoopAssumption DEF Exhausted, TypeOK
      <4>3. /\ converged <=> halted_reason = "none"
            /\ stop = "end_turn" => converged
            /\ halted_reason # "max_iterations"
            /\ halted_reason = "token_budget" => usage > MaxTokensPerRun
            /\ halted_reason = "max_output_tokens_hit_in_turn" => stop = "max_tokens"
        BY <2>1
      <4> QED
        BY <2>1, <4>1, <4>2, <4>3
    <3> QED
      BY <3>1, <3>2
  <2> QED
    BY <1>0, <2>1, <2>2, <2>3
<1>12. CASE Raise \/ Interrupt
  BY <1>0, <1>12 DEF Raise, Interrupt, loopVars, haltVars, toolVars, resultVars
<1>13. CASE Save
  BY <1>0, <1>13 DEF Save, loopVars, haltVars, toolVars, resultVars
<1>14. CASE UNCHANGED vars
  BY <1>0, <1>14 DEF vars, loopVars, haltVars, toolVars, resultVars
<1> QED
  BY <1>1, <1>2, <1>3, <1>4, <1>5, <1>6, <1>7, <1>8, <1>9, <1>10, <1>11, <1>12, <1>13, <1>14
  DEF Next, Progress

LEMMA LoopInvariant == Spec => []LoopInv
<1>1. Init => LoopInv
  BY InitLoopInv
<1>2. LoopInv /\ [Next]_vars => LoopInv'
  BY NextLoopInv
<1> QED
  BY <1>1, <1>2, PTL DEF Spec

(* However much a response costs, a run passes its token budget by at most *)
(* one response.                                                           *)
THEOREM BudgetHolds == Spec => []SpendingBounded
<1>1. LoopInv => SpendingBounded
  BY DEF LoopInv, SpendingBounded
<1> QED
  BY <1>1, LoopInvariant, PTL

(* converged, halted_reason and stop_reason of a persisted run agree.      *)
THEOREM HaltedReasonsAreTrue == Spec => []HaltedReasonMeaning
<1>1. LoopInv => HaltedReasonMeaning
  BY DEF LoopInv
<1> QED
  BY <1>1, LoopInvariant, PTL

(* A run that did not converge carries an action for someone to take.      *)
THEOREM NoSilentFailure == Spec => []UnconvergedIsRaised
<1>1. LoopInv => UnconvergedIsRaised
  BY DEF LoopInv
<1> QED
  BY <1>1, LoopInvariant, PTL

-----------------------------------------------------------------------------
(***************************************************************************)
(* run_agent implements Investigation.                                     *)
(***************************************************************************)

LEMMA PromiseInit == Init => Promise!Init
BY DEF Init, Promise!Init

(* A dispatched tool call, whatever its outcome, is an Inquire.            *)
LEMMA DispatchInquires ==
  ASSUME TypeOK, AtToolUse, NEW is_error \in BOOLEAN, Dispatched(is_error)
  PROVE  Promise!Inquire
<1> DEFINE c == Call(Turn[cursor], is_error)
<1>1. /\ pc = "dispatching" /\ pc' = pc
      /\ tool_call_log' = Append(tool_call_log, c)
  BY DEF AtToolUse, Dispatched, LogCall
<1> HIDE DEF c
<1>2. tool_call_log \in Seq(ToolCall)
  BY DEF TypeOK
<1>3. /\ Len(tool_call_log') = Len(tool_call_log) + 1
      /\ \A i \in DOMAIN tool_call_log : tool_call_log'[i] = tool_call_log[i]
  BY <1>1, <1>2
<1> QED
  BY <1>1, <1>3 DEF Promise!Inquire

(* Investigation resolves verdicts by the operators of the same Policy.    *)
LEMMA SamePolicy ==
  /\ Promise!Verdict = Verdict
  /\ \A overrides, defaults, v, fund, a :
       FollowsPrecedence(overrides, defaults, v, fund, a)
         => Promise!FollowsPrecedence(overrides, defaults, v, fund, a)
<1>1. Promise!Verdict = Verdict
  BY DEF Promise!Verdict, Promise!DefectTypes, Promise!Severities, Promise!Confidences,
         Promise!Actions, Verdict, DefectTypes, Severities, Confidences, Actions
<1>2. \A r, v, fund : Promise!Matches(r, v, fund) = Matches(r, v, fund)
  BY DEF Promise!Matches, Matches
<1>3. /\ \A action, id, v : Promise!Resolve(action, id, v) = Resolve(action, id, v)
      /\ \A v : Promise!Fallback(v) = Fallback(v)
  BY DEF Promise!Resolve, Resolve, Promise!Fallback, Fallback
<1>4. \A overrides, v, fund :
        Promise!Contenders(overrides, v, fund) = Contenders(overrides, v, fund)
  BY DEF Promise!Contenders, Contenders, Promise!Specificity, Specificity,
         Promise!Matches, Matches
<1>5. \A overrides, i, v, fund :
        Promise!Prevails(overrides, i, v, fund) <=> Prevails(overrides, i, v, fund)
  BY <1>4 DEF Promise!Prevails, Prevails, Promise!Specificity, Specificity
<1>6. \A defaults, v, fund :
        Promise!FirstMatch(defaults, v, fund) = FirstMatch(defaults, v, fund)
  BY DEF Promise!FirstMatch, FirstMatch, Promise!SelectInSeq, SelectInSeq, Promise!Matches, Matches, Promise!Min, Min
<1> QED
  BY <1>1, <1>3, <1>4, <1>5, <1>6 DEF Promise!FollowsPrecedence, FollowsPrecedence

(* Saving the run is a Report that is complete.                            *)
LEMMA SaveReports ==
  ASSUME LoopInv, Save
  PROVE  Promise!Report
<1>1. /\ pc = "saving" /\ pc' = "done"
      /\ UNCHANGED << tool_call_log, verdicts, policy_actions, converged >>
  BY DEF Save, haltVars, toolVars, resultVars
<1>2. AgentRun # NoRun
  <2>1. DOMAIN AgentRun = {"tool_call_log", "verdicts", "policy_actions", "converged"}
    BY DEF AgentRun
  <2>2. DOMAIN NoRun = {}
    BY DEF NoRun
  <2> QED
    BY <2>1, <2>2
<1>3. /\ \A i \in DOMAIN verdicts : verdicts[i] \in Verdict
      /\ DOMAIN policy_actions = DOMAIN verdicts
      /\ converged \/ DOMAIN verdicts # {}
  BY <1>1 DEF LoopInv, TypeOK, UnconvergedIsRaised
<1>4. \A i \in DOMAIN verdicts :
        FollowsPrecedence(Overrides, Defaults, verdicts[i], Fund, policy_actions[i])
  <2> SUFFICES ASSUME NEW i \in DOMAIN verdicts
               PROVE  FollowsPrecedence(Overrides, Defaults, verdicts[i], Fund, policy_actions[i])
    OBVIOUS
  <2>1. policy_actions[i] = ApplyPolicy(Overrides, Defaults, verdicts[i], Fund)
    BY <1>1 DEF LoopInv
  <2> QED
    BY <1>3, <2>1, RulesAssumption, PolicyFollowsPrecedence
<1>5. Promise!Complete(AgentRun)
  BY <1>3, <1>4, SamePolicy DEF Promise!Complete, AgentRun
<1> QED
  BY <1>1, <1>2, <1>5 DEF Promise!Report, AgentRun

LEMMA PromiseNext == LoopInv /\ [Next]_vars => [Promise!Next]_(Promise!vars)
<1> SUFFICES ASSUME LoopInv, [Next]_vars PROVE [Promise!Next]_(Promise!vars)
  OBVIOUS
<1> USE DEF Promise!Next, Promise!vars
<1>0. TypeOK
  BY DEF LoopInv
<1>1. CASE LeaveLoop
  BY <1>1 DEF LeaveLoop, toolVars
<1>2. CASE HaltOnBudget
  BY <1>2 DEF HaltOnBudget, Halt, toolVars
<1>3. CASE BeginCall
  BY <1>3 DEF BeginCall, toolVars
<1>4. CASE RetryCall
  BY <1>4 DEF RetryCall, toolVars
<1>5. CASE FailCall
  BY <1>5 DEF FailCall, Halt, toolVars
<1>6. ASSUME NEW reply \in Replies, Answer(reply) PROVE [Promise!Next]_(Promise!vars)
  <2>1. pc = "calling" /\ pc' \in {"dispatching", "parsing"} /\ UNCHANGED tool_call_log
    BY <1>6 DEF Answer, StartDispatch, Halt
  <2> QED
    BY <2>1
<1>7. CASE SkipBlock
  BY <1>7 DEF SkipBlock
<1>8. CASE RejectTool
  BY <1>0, <1>8, DispatchInquires DEF RejectTool
<1>9. ASSUME NEW fails \in BOOLEAN, RunTool(fails) PROVE [Promise!Next]_(Promise!vars)
  BY <1>0, <1>9, DispatchInquires DEF RunTool
<1>10. CASE AnswerTools
  BY <1>10 DEF AnswerTools, toolVars
<1>11. CASE Conclude
  BY <1>11 DEF Conclude, toolVars
<1>12. CASE Save
  BY <1>12, SaveReports
<1>13. CASE Raise \/ Interrupt
  BY <1>13 DEF Raise, Interrupt, toolVars, Promise!Abandon, TypeOK
<1>14. CASE UNCHANGED vars
  BY <1>14 DEF vars, haltVars, toolVars, resultVars, AgentRun
<1> QED
  BY <1>1, <1>2, <1>3, <1>4, <1>5, <1>6, <1>7, <1>8, <1>9, <1>10, <1>11, <1>12, <1>13, <1>14
  DEF Next, Progress

(* Every run of the agent is an investigation: the calls it logs are never *)
(* rewritten, and what it saves accounts for all of them and resolves each *)
(* verdict by the most specific matching rule.                             *)
THEOREM RunKeepsPromise == Spec => KeepsPromise
<1>1. Init => Promise!Init
  BY PromiseInit
<1>2. LoopInv /\ [Next]_vars => [Promise!Next]_(Promise!vars)
  BY PromiseNext
<1> QED
  BY <1>1, <1>2, LoopInvariant, PTL DEF Spec, KeepsPromise, Promise!Spec

-----------------------------------------------------------------------------
(***************************************************************************)
(* The transcript and the log.  While a turn is dispatched, what its       *)
(* results are to be is half done: DispatchInv says how far, in terms of   *)
(* the cursor.                                                             *)
(***************************************************************************)

IsCall(i) == i \in DOMAIN Turn /\ i < cursor /\ Turn[i].type = "tool_use"

DispatchInv ==
  /\ \A i \in DOMAIN Turn : Turn[i].type = "tool_use" => Turn[i].id = << iteration, i >>
  /\ \A j \in DOMAIN tool_results :
       /\ tool_results[j].type = "tool_result"
       /\ \E i \in DOMAIN Turn : IsCall(i) /\ tool_results[j].id = << iteration, i >>
  /\ \A i \in DOMAIN Turn : IsCall(i) =>
       \E j \in DOMAIN tool_results : tool_results[j].id = << iteration, i >>
  /\ \A i, j \in DOMAIN tool_results :
       i < j => tool_results[i].id[2] < tool_results[j].id[2]

TranscriptInv ==
  /\ HistoryWellFormed
  /\ \A i \in DOMAIN messages[1].content : messages[1].content[i].type # "tool_result"
  /\ \A k \in DOMAIN messages : k % 2 = 0 =>
       \A i \in DOMAIN messages[k].content : messages[k].content[i].type # "tool_result"
  /\ pc \in {"loop", "calling"} => Len(messages) = 2 * iteration + 1
  /\ pc = "dispatching" => Len(messages) = 2 * iteration /\ DispatchInv

(* A message appended to the transcript, as the two turns do it.           *)
LEMMA AppendMessage ==
  ASSUME TypeOK, NEW m \in ChatMessage, messages' = Append(messages, m)
  PROVE  /\ Len(messages) \in Nat /\ Len(messages) # 0
         /\ Len(messages') = Len(messages) + 1
         /\ DOMAIN messages = 1 .. Len(messages)
         /\ DOMAIN messages' = 1 .. Len(messages) + 1
         /\ \A k \in 1 .. Len(messages) : messages'[k] = messages[k]
         /\ messages'[Len(messages) + 1] = m
<1>1. messages \in Seq(ChatMessage) /\ messages # << >>
  BY DEF TypeOK
<1>2. Len(messages) \in Nat /\ Len(messages) # 0 /\ DOMAIN messages = 1 .. Len(messages)
  BY <1>1, LenProperties, EmptySeq
<1>3. /\ messages' \in Seq(ChatMessage) /\ Len(messages') = Len(messages) + 1
      /\ \A k \in 1 .. Len(messages) : messages'[k] = messages[k]
      /\ messages'[Len(messages) + 1] = m
  BY <1>1, AppendProperties
<1>4. DOMAIN messages' = 1 .. Len(messages')
  BY <1>3, LenProperties
<1> QED
  BY <1>2, <1>3, <1>4

(* The assistant turn that was kept of a response.                         *)
LEMMA KeptBlocks ==
  ASSUME NEW reply \in Replies, NEW turn \in Nat
  PROVE  LET blocks == ContentBlocksToDict(reply, turn)
         IN  \A i \in DOMAIN blocks :
               /\ blocks[i].type # "tool_result"
               /\ blocks[i].type = "tool_use" => blocks[i].id = << turn, i >>
<1>1. reply.content \in Seq(RawBlock)
  BY LoopAssumption DEF Reply
<1>2. \A i \in DOMAIN reply.content : reply.content[i] \in RawBlock
  BY <1>1
<1> SUFFICES ASSUME NEW i \in DOMAIN reply.content
             PROVE  LET b == ContentBlocksToDict(reply, turn)[i]
                    IN  b.type # "tool_result" /\ (b.type = "tool_use" => b.id = << turn, i >>)
  BY DEF ContentBlocksToDict
<1>3. reply.content[i] \in RawBlock
  BY <1>2
<1> QED
  BY <1>3 DEF ContentBlocksToDict, Block, RawBlock

(* A dispatched tool_use leaves DispatchInv for the next cursor.           *)
LEMMA DispatchKeeps ==
  ASSUME TypeOK, DispatchInv, AtToolUse, NEW is_error \in BOOLEAN, Dispatched(is_error)
  PROVE  DispatchInv'
<1> DEFINE r == Block("tool_result", NoTool, NoText, Turn[cursor].id, is_error)
           n == Len(tool_results)
<1>1. Turn' = Turn /\ iteration' = iteration /\ cursor' = cursor + 1 /\ cursor \in Nat \ {0}
  BY DEF Dispatched, loopVars, Turn, TypeOK
<1>2. cursor \in DOMAIN Turn /\ Turn[cursor].type = "tool_use"
  <2>1. Turn \in Seq(ContentBlock)
    <3>1. messages[Len(messages)] \in ChatMessage
      BY LastIn DEF TypeOK
    <3> QED
      BY <3>1 DEF ChatMessage, Turn
  <2> QED
    BY <1>1, <2>1, LenProperties DEF AtToolUse
<1>3. r.type = "tool_result" /\ r.id = << iteration, cursor >>
  BY <1>2 DEF Block, DispatchInv
<1>4. tool_results' = Append(tool_results, r)
  BY DEF Dispatched
<1> HIDE DEF r
<1>5. /\ n \in Nat /\ DOMAIN tool_results = 1 .. n
      /\ DOMAIN tool_results' = 1 .. n + 1 /\ tool_results'[n + 1] = r
      /\ \A j \in 1 .. n : tool_results'[j] = tool_results[j]
  <2>1. tool_results \in Seq(ContentBlock) /\ tool_results' = Append(tool_results, r)
    BY <1>4 DEF TypeOK
  <2> QED
    BY <2>1, LenProperties
<1> HIDE DEF n
<1>6. \A i \in DOMAIN Turn : i \in Int
  <2>1. messages[Len(messages)] \in ChatMessage
    BY LastIn DEF TypeOK
  <2>2. Turn \in Seq(ContentBlock)
    BY <2>1 DEF ChatMessage, Turn
  <2> QED
    BY <2>2, LenProperties
<1>7. \A i \in DOMAIN Turn : IsCall(i)' <=> IsCall(i) \/ i = cursor
  BY <1>1, <1>2, <1>6 DEF IsCall
<1>8. \A j \in DOMAIN tool_results' :
        /\ tool_results'[j].type = "tool_result"
        /\ \E i \in DOMAIN Turn : IsCall(i)' /\ tool_results'[j].id = << iteration, i >>
  <2> TAKE j \in DOMAIN tool_results'
  <2>1. CASE j = n + 1
    BY <1>2, <1>3, <1>5, <1>7, <2>1
  <2>2. CASE j \in 1 .. n
    BY <1>5, <1>7, <2>2 DEF DispatchInv
  <2> QED
    BY <1>5, <2>1, <2>2
<1>9. \A i \in DOMAIN Turn : IsCall(i)' =>
        \E j \in DOMAIN tool_results' : tool_results'[j].id = << iteration, i >>
  <2> SUFFICES ASSUME NEW i \in DOMAIN Turn, IsCall(i)'
               PROVE  \E j \in DOMAIN tool_results' : tool_results'[j].id = << iteration, i >>
    OBVIOUS
  <2>1. CASE i = cursor
    BY <1>3, <1>5, <2>1
  <2>2. CASE IsCall(i)
    <3>1. PICK j \in 1 .. n : tool_results[j].id = << iteration, i >>
      BY <1>5, <2>2 DEF DispatchInv
    <3> QED
      BY <1>5, <3>1
  <2> QED
    BY <1>7, <2>1, <2>2
<1>10. \A i, j \in DOMAIN tool_results' :
         i < j => tool_results'[i].id[2] < tool_results'[j].id[2]
  <2> SUFFICES ASSUME NEW i \in 1 .. n + 1, NEW j \in 1 .. n + 1, i < j
               PROVE  tool_results'[i].id[2] < tool_results'[j].id[2]
    BY <1>5
  <2>1. i \in 1 .. n
    BY <1>5
  <2>2. CASE j \in 1 .. n
    BY <1>5, <2>1, <2>2 DEF DispatchInv
  <2>3. CASE j = n + 1
    <3>1. PICK k \in DOMAIN Turn : IsCall(k) /\ tool_results[i].id = << iteration, k >>
      BY <1>5, <2>1 DEF DispatchInv
    <3>2. tool_results'[i].id[2] = k /\ k < cursor
      BY <1>5, <2>1, <3>1 DEF IsCall
    <3>3. tool_results'[j].id[2] = cursor
      BY <1>3, <1>5, <2>3
    <3> QED
      BY <3>2, <3>3
  <2> QED
    BY <1>5, <2>2, <2>3
<1>11. \A i \in DOMAIN Turn : Turn[i].type = "tool_use" => Turn[i].id = << iteration, i >>
  BY DEF DispatchInv
<1> QED
  BY <1>1, <1>8, <1>9, <1>10, <1>11 DEF DispatchInv

(* When the cursor is past the turn, the results answer it.                *)
LEMMA DispatchAnswers ==
  ASSUME TypeOK, DispatchInv, cursor > Len(Turn)
  PROVE  Answered(Turn, tool_results)
<1>1. Turn \in Seq(ContentBlock)
  <2>1. messages[Len(messages)] \in ChatMessage
    BY LastIn DEF TypeOK
  <2> QED
    BY <2>1 DEF ChatMessage, Turn
<1>2. \A i \in DOMAIN Turn : Turn[i].type = "tool_use" => IsCall(i)
  BY <1>1, LenProperties DEF IsCall, TypeOK
<1>3. \A j \in DOMAIN tool_results : \E i \in DOMAIN Turn :
        Turn[i].type = "tool_use" /\ tool_results[j].id = Turn[i].id
  BY DEF DispatchInv, IsCall
<1>4. \A i \in DOMAIN Turn : Turn[i].type = "tool_use" =>
        \E j \in DOMAIN tool_results : tool_results[j].id = Turn[i].id
  BY <1>2 DEF DispatchInv
<1>5. {x.id : x \in ToSet(tool_results)} = {b.id : b \in {u \in ToSet(Turn) : u.type = "tool_use"}}
  BY <1>3, <1>4 DEF ToSet
<1> QED
  BY <1>5 DEF Answered, DispatchInv

(* A message of the right role, answering the one before where it must.    *)
LEMMA HistoryAppend ==
  ASSUME TypeOK, HistoryWellFormed, NEW m \in ChatMessage, messages' = Append(messages, m),
         m.role = IF (Len(messages) + 1) % 2 = 1 THEN "user" ELSE "assistant",
         (Len(messages) + 1) % 2 = 1 => Answered(messages[Len(messages)].content, m.content)
  PROVE  HistoryWellFormed'
<1> DEFINE n == Len(messages)
<1>1. /\ n \in Nat /\ n # 0 /\ DOMAIN messages = 1 .. n /\ DOMAIN messages' = 1 .. n + 1
      /\ \A k \in 1 .. n : messages'[k] = messages[k]
      /\ messages'[n + 1] = m
  BY AppendMessage
<1>2. /\ m.role = IF (n + 1) % 2 = 1 THEN "user" ELSE "assistant"
      /\ (n + 1) % 2 = 1 => Answered(messages[n].content, m.content)
  OBVIOUS
<1> HIDE DEF n
<1> SUFFICES ASSUME NEW k \in 1 .. n + 1
             PROVE  /\ messages'[k].role = IF k % 2 = 1 THEN "user" ELSE "assistant"
                    /\ k % 2 = 1 /\ k > 1 => Answered(messages'[k - 1].content, messages'[k].content)
  BY <1>1 DEF HistoryWellFormed
<1>3. CASE k = n + 1
  <2>1. messages'[k] = m /\ messages'[k - 1] = messages[n]
    BY <1>1, <1>3
  <2> QED
    BY <1>2, <1>3, <2>1
<1>4. CASE k \in 1 .. n
  <2>1. messages'[k] = messages[k] /\ (k > 1 => messages'[k - 1] = messages[k - 1])
    BY <1>1, <1>4
  <2> QED
    BY <1>1, <1>4, <2>1 DEF HistoryWellFormed
<1> QED
  BY <1>1, <1>3, <1>4

LEMMA InitTranscript == Init => TranscriptInv
<1> SUFFICES ASSUME Init PROVE TranscriptInv
  OBVIOUS
<1>1. messages = << Message("user", << Question >>) >> /\ pc = "loop" /\ iteration = 0
  BY DEF Init
<1>2. DOMAIN messages = {1} /\ Len(messages) = 1 /\ messages[1] = Message("user", << Question >>)
  BY <1>1
<1>3. messages[1].role = "user" /\ messages[1].content = << Question >>
  BY <1>2 DEF Message
<1>4. Question.type = "text"
  BY DEF Question, Block
<1> QED
  BY <1>1, <1>2, <1>3, <1>4 DEF TranscriptInv, HistoryWellFormed

LEMMA NextTranscript == TypeOK /\ TranscriptInv /\ [Next]_vars => TranscriptInv'
<1> SUFFICES ASSUME TypeOK, TranscriptInv, [Next]_vars PROVE TranscriptInv'
  OBVIOUS
<1>1. CASE LeaveLoop \/ HaltOnBudget \/ BeginCall \/ RetryCall \/ FailCall
  <2>1. messages' = messages /\ iteration' = iteration
        /\ ((pc' = "calling" /\ pc \in {"loop", "calling"}) \/ pc' = "parsing")
    BY <1>1 DEF LeaveLoop, HaltOnBudget, BeginCall, RetryCall, FailCall, Halt, loopVars
  <2> QED
    BY <2>1 DEF TranscriptInv, HistoryWellFormed
<1>2. CASE Conclude \/ Raise \/ Save \/ Interrupt
  <2>1. messages' = messages /\ pc' \in {"saving", "done", "lost"}
    BY <1>2 DEF Conclude, Raise, Save, Interrupt, loopVars
  <2> QED
    BY <2>1 DEF TranscriptInv, HistoryWellFormed
<1>3. CASE UNCHANGED vars
  <2>1. /\ UNCHANGED << messages, pc, iteration, cursor, tool_results >> /\ Turn' = Turn
    BY <1>3 DEF vars, loopVars, toolVars, Turn
  <2>2. DispatchInv => DispatchInv'
    BY <2>1 DEF DispatchInv, IsCall
  <2> QED
    BY <2>1, <2>2 DEF TranscriptInv, HistoryWellFormed
<1>4. ASSUME NEW reply \in Replies, Answer(reply) PROVE TranscriptInv'
  <2> DEFINE blocks == ContentBlocksToDict(reply, iteration + 1)
             m == Message("assistant", blocks)
             n == Len(messages)
  <2>1. /\ pc = "calling" /\ iteration' = iteration + 1 /\ messages' = Append(messages, m)
        /\ \/ pc' = "dispatching" /\ cursor' = 1 /\ tool_results' = << >>
           \/ pc' = "parsing"
    BY <1>4 DEF Answer, StartDispatch, Halt
  <2>2. m \in ChatMessage /\ m.role = "assistant" /\ m.content = blocks
    BY BlocksType DEF Message, ChatMessage, TypeOK
  <2>3. \A i \in DOMAIN blocks :
          /\ blocks[i].type # "tool_result"
          /\ blocks[i].type = "tool_use" => blocks[i].id = << iteration + 1, i >>
    BY KeptBlocks DEF TypeOK
  <2>4. \A i \in DOMAIN blocks : i \in Int /\ i >= 1
    <3>1. blocks \in Seq(ContentBlock)
      BY BlocksType DEF TypeOK
    <3> QED
      BY <3>1, LenProperties
  <2> HIDE DEF blocks, m
  <2>5. n = 2 * iteration + 1 /\ iteration \in Nat
    BY <2>1 DEF TranscriptInv, TypeOK
  <2>6. (n + 1) % 2 = 0
    BY <2>5
  <2>7. HistoryWellFormed'
    BY <2>1, <2>2, <2>6, HistoryAppend DEF TranscriptInv
  <2>8. /\ n \in Nat /\ n # 0 /\ DOMAIN messages = 1 .. n /\ DOMAIN messages' = 1 .. n + 1
        /\ Len(messages') = n + 1
        /\ \A k \in 1 .. n : messages'[k] = messages[k]
        /\ messages'[n + 1] = m
    BY <2>1, <2>2, AppendMessage
  <2> HIDE DEF n
  <2>9. messages'[1] = messages[1]
    BY <2>8
  <2>10. \A k \in DOMAIN messages' : k % 2 = 0 =>
           \A i \in DOMAIN messages'[k].content : messages'[k].content[i].type # "tool_result"
    <3> SUFFICES ASSUME NEW k \in 1 .. n + 1, k % 2 = 0
                 PROVE  \A i \in DOMAIN messages'[k].content :
                          messages'[k].content[i].type # "tool_result"
      BY <2>8
    <3>1. CASE k = n + 1
      BY <2>2, <2>3, <2>8, <3>1
    <3>2. CASE k \in 1 .. n
      BY <2>8, <3>2 DEF TranscriptInv
    <3> QED
      BY <2>8, <3>1, <3>2
  <2>11. ASSUME pc' = "dispatching" PROVE Len(messages') = 2 * iteration' /\ DispatchInv'
    <3>1. Turn' = blocks
      BY <2>2, <2>8 DEF Turn
    <3>2. cursor' = 1 /\ DOMAIN tool_results' = {}
      BY <2>1, <2>11
    <3>3. DispatchInv'
      BY <2>1, <2>3, <2>4, <3>1, <3>2 DEF DispatchInv, IsCall
    <3> QED
      BY <2>1, <2>5, <2>8, <3>3
  <2> QED
    BY <2>1, <2>7, <2>9, <2>10, <2>11 DEF TranscriptInv
<1>5. CASE SkipBlock
  <2>1. /\ pc = "dispatching" /\ UNCHANGED << messages, pc, iteration, tool_results >> /\ Turn' = Turn
        /\ cursor' = cursor + 1 /\ Turn[cursor].type # "tool_use" /\ cursor \in Nat
    BY <1>5 DEF SkipBlock, loopVars, Turn, TypeOK
  <2>2. \A i \in DOMAIN Turn : i \in Int
    <3>1. messages[Len(messages)] \in ChatMessage
      BY LastIn DEF TypeOK
    <3>2. Turn \in Seq(ContentBlock)
      BY <3>1 DEF ChatMessage, Turn
    <3> QED
      BY <3>2, LenProperties
  <2>3. \A i \in DOMAIN Turn : IsCall(i)' <=> IsCall(i)
    BY <2>1, <2>2 DEF IsCall
  <2>4. DispatchInv'
    BY <2>1, <2>3 DEF DispatchInv, TranscriptInv
  <2> QED
    BY <2>1, <2>4 DEF TranscriptInv, HistoryWellFormed
<1>6. ASSUME NEW is_error \in BOOLEAN, AtToolUse, Dispatched(is_error) PROVE TranscriptInv'
  <2>1. pc = "dispatching" /\ UNCHANGED << messages, pc, iteration >>
    BY <1>6 DEF AtToolUse, Dispatched, loopVars
  <2>2. DispatchInv'
    BY <1>6, <2>1, DispatchKeeps DEF TranscriptInv
  <2> QED
    BY <2>1, <2>2 DEF TranscriptInv, HistoryWellFormed
<1>7. CASE AnswerTools
  <2> DEFINE m == Message("user", tool_results)
             n == Len(messages)
  <2>1. /\ pc = "dispatching" /\ cursor > Len(Turn) /\ pc' = "loop"
        /\ messages' = Append(messages, m) /\ iteration' = iteration
    BY <1>7 DEF AnswerTools
  <2>2. m \in ChatMessage /\ m.role = "user" /\ m.content = tool_results
    BY DEF Message, ChatMessage, TypeOK
  <2>3. n = 2 * iteration /\ iteration \in Nat
    BY <2>1 DEF TranscriptInv, TypeOK
  <2>4. Answered(messages[n].content, m.content)
    BY <2>1, <2>2, DispatchAnswers DEF TranscriptInv, Turn
  <2> HIDE DEF m
  <2>5. (n + 1) % 2 = 1
    BY <2>3
  <2>6. HistoryWellFormed'
    BY <2>1, <2>2, <2>4, <2>5, HistoryAppend DEF TranscriptInv
  <2>7. /\ n \in Nat /\ n # 0 /\ DOMAIN messages = 1 .. n /\ DOMAIN messages' = 1 .. n + 1
        /\ Len(messages') = n + 1
        /\ \A k \in 1 .. n : messages'[k] = messages[k]
        /\ messages'[n + 1] = m
    BY <2>1, <2>2, AppendMessage
  <2> HIDE DEF n
  <2>8. messages'[1] = messages[1] /\ Len(messages') = 2 * iteration' + 1
    BY <2>1, <2>3, <2>7
  <2>9. \A k \in DOMAIN messages' : k % 2 = 0 => k \in 1 .. n
    BY <2>5, <2>7
  <2> QED
    BY <2>1, <2>6, <2>7, <2>8, <2>9 DEF TranscriptInv
<1> QED
  BY <1>1, <1>2, <1>3, <1>4, <1>5, <1>6, <1>7 DEF Next, Progress, RejectTool, RunTool

LEMMA TranscriptInvariant == Spec => [](TypeOK /\ TranscriptInv)
<1>1. Init => TypeOK /\ TranscriptInv
  BY InitTypeOK, InitTranscript
<1>2. TypeOK /\ TranscriptInv /\ [Next]_vars => (TypeOK /\ TranscriptInv)'
  BY NextTypeOK, NextTranscript
<1> QED
  BY <1>1, <1>2, PTL DEF Spec

(* The conversation that core.py:272-345 builds is one the API accepts,    *)
(* whatever the responses hold: turns alternate, and each tool_use has its *)
(* tool_result, in order, in the next one.                                 *)
THEOREM TranscriptIsLegal == Spec => []HistoryWellFormed
<1>1. TranscriptInv => HistoryWellFormed
  BY DEF TranscriptInv
<1> QED
  BY <1>1, TranscriptInvariant, PTL

(* The calls of the turn being dispatched that are not in the transcript   *)
(* yet, as it will show them.                                              *)
Pending ==
  {[iteration |-> iteration, tool_name |-> Turn[r.id[2]].name,
    tool_use_id |-> r.id, error |-> r.is_error] : r \in ToSet(tool_results)}

LogInv ==
  /\ pc \notin {"dispatching", "lost"} => ToSet(tool_call_log) = ShownCalls
  /\ pc = "dispatching" => ToSet(tool_call_log) = ShownCalls \cup Pending
  /\ \A i \in DOMAIN tool_call_log :
       \/ tool_call_log[i].tool_use_id[1] < iteration
       \/ /\ tool_call_log[i].tool_use_id[1] = iteration
          /\ pc = "dispatching" => tool_call_log[i].tool_use_id[2] < cursor
  /\ \A i, j \in DOMAIN tool_call_log :
       tool_call_log[i].tool_use_id = tool_call_log[j].tool_use_id => i = j

(* What an appended element adds to the elements.                          *)
LEMMA AppendToSet ==
  ASSUME NEW S, NEW s \in Seq(S), NEW e \in S
  PROVE  /\ ToSet(Append(s, e)) = ToSet(s) \cup {e}
         /\ Len(s) \in Nat /\ DOMAIN s = 1 .. Len(s)
         /\ DOMAIN Append(s, e) = 1 .. Len(s) + 1
         /\ \A i \in 1 .. Len(s) : Append(s, e)[i] = s[i]
         /\ Append(s, e)[Len(s) + 1] = e
<1> DEFINE t == Append(s, e)
           n == Len(s)
<1>1. /\ n \in Nat /\ DOMAIN s = 1 .. n /\ DOMAIN t = 1 .. n + 1
      /\ \A i \in 1 .. n : t[i] = s[i]
      /\ t[n + 1] = e
  BY LenProperties, AppendProperties
<1> HIDE DEF t, n
<1>2. ToSet(t) = ToSet(s) \cup {e}
  <2>1. ToSet(t) \subseteq ToSet(s) \cup {e}
    <3> SUFFICES ASSUME NEW i \in 1 .. n + 1 PROVE t[i] \in ToSet(s) \cup {e}
      BY <1>1 DEF ToSet
    <3>1. CASE i \in 1 .. n
      BY <1>1, <3>1 DEF ToSet
    <3>2. CASE i = n + 1
      BY <1>1, <3>2
    <3> QED
      BY <1>1, <3>1, <3>2
  <2>2. \A i \in 1 .. n : s[i] = t[i] /\ i \in 1 .. n + 1
    BY <1>1
  <2>3. n + 1 \in 1 .. n + 1
    BY <1>1
  <2>4. ToSet(s) \cup {e} \subseteq ToSet(t)
    BY <1>1, <2>2, <2>3 DEF ToSet
  <2> QED
    BY <2>1, <2>4
<1> QED
  BY <1>1, <1>2 DEF t, n

(* What a message adds to the calls shown: its own results.                *)
LEMMA ShownAppend ==
  ASSUME TypeOK, TranscriptInv, NEW m \in ChatMessage, messages' = Append(messages, m),
         NEW n, n = Len(messages)
  PROVE  ShownCalls' = ShownCalls \cup
           {[iteration |-> (n + 1) \div 2, tool_name |-> messages[n].content[r.id[2]].name,
             tool_use_id |-> r.id, error |-> r.is_error] :
              r \in {b \in ToSet(m.content) : b.type = "tool_result"}}
<1> DEFINE New ==
      {[iteration |-> (n + 1) \div 2, tool_name |-> messages[n].content[r.id[2]].name,
        tool_use_id |-> r.id, error |-> r.is_error] :
         r \in {b \in ToSet(m.content) : b.type = "tool_result"}}
<1>1. /\ n \in Nat /\ n # 0 /\ DOMAIN messages = 1 .. n /\ DOMAIN messages' = 1 .. n + 1
      /\ \A k \in 1 .. n : messages'[k] = messages[k]
      /\ messages'[n + 1] = m
  BY AppendMessage
<1>2. ASSUME NEW k \in 1 .. n PROVE ShownIn(k)' = ShownIn(k)
  <2>1. messages'[k] = messages[k]
    BY <1>1
  <2>2. CASE k = 1
    <3>1. {b \in ToSet(messages[1].content) : b.type = "tool_result"} = {}
      BY DEF TranscriptInv, ToSet
    <3> QED
      BY <2>1, <2>2, <3>1 DEF ShownIn
  <2>3. CASE k # 1
    <3>1. messages'[k - 1] = messages[k - 1]
      BY <1>1, <2>3
    <3> QED
      BY <2>1, <3>1 DEF ShownIn
  <2> QED
    BY <2>2, <2>3
<1>3. ShownIn(n + 1)' = New
  <2>1. n + 1 - 1 = n
    BY <1>1
  <2> QED
    BY <1>1, <2>1 DEF ShownIn
<1> HIDE DEF New
<1>4. ShownCalls' = UNION {ShownIn(k)' : k \in 1 .. n + 1}
  BY <1>1 DEF ShownCalls
<1>5. 1 .. n + 1 = (1 .. n) \cup {n + 1}
  BY <1>1
<1>6. ShownCalls = UNION {ShownIn(k) : k \in 1 .. n}
  BY <1>1 DEF ShownCalls
<1>7. ShownCalls' = ShownCalls \cup New
  BY <1>2, <1>3, <1>4, <1>5, <1>6
<1> QED
  BY <1>7 DEF New

LEMMA InitLog == Init => LogInv
<1> SUFFICES ASSUME Init PROVE LogInv
  OBVIOUS
<1>1. messages = << Message("user", << Question >>) >> /\ pc = "loop" /\ tool_call_log = << >>
  BY DEF Init
<1>2. DOMAIN messages = {1} /\ messages[1] = Message("user", << Question >>)
  BY <1>1
<1>3. messages[1].content = << Question >>
  BY <1>2 DEF Message
<1>4. ToSet(messages[1].content) = {Question}
  BY <1>3 DEF ToSet
<1>5. Question.type = "text"
  BY DEF Question, Block
<1>6. ShownIn(1) = {}
  BY <1>4, <1>5 DEF ShownIn
<1>7. ShownCalls = {}
  BY <1>2, <1>6 DEF ShownCalls
<1>8. ToSet(tool_call_log) = {} /\ DOMAIN tool_call_log = {}
  BY <1>1 DEF ToSet
<1> QED
  BY <1>1, <1>7, <1>8 DEF LogInv

(* A dispatched tool_use goes into the log and among the pending calls.    *)
LEMMA DispatchLogs ==
  ASSUME TypeOK, TranscriptInv, LogInv, AtToolUse,
         NEW is_error \in BOOLEAN, Dispatched(is_error)
  PROVE  LogInv'
<1>1. /\ pc = "dispatching" /\ UNCHANGED << messages, pc, iteration >> /\ Turn' = Turn
      /\ cursor' = cursor + 1 /\ cursor \in Nat \ {0} /\ iteration \in Nat
  BY DEF AtToolUse, Dispatched, loopVars, Turn, TypeOK
<1>2. Turn \in Seq(ContentBlock)
  <2>1. messages[Len(messages)] \in ChatMessage
    BY LastIn DEF TypeOK
  <2> QED
    BY <2>1 DEF ChatMessage, Turn
<1>3. cursor \in DOMAIN Turn /\ Turn[cursor] \in ContentBlock
  BY <1>1, <1>2, LenProperties DEF AtToolUse
<1>4. Turn[cursor].id = << iteration, cursor >>
  BY <1>1, <1>3 DEF AtToolUse, TranscriptInv, DispatchInv
<1> DEFINE r == Block("tool_result", NoTool, NoText, Turn[cursor].id, is_error)
           c == Call(Turn[cursor], is_error)
<1>5. /\ c \in ToolCall /\ c.tool_use_id = << iteration, cursor >>
      /\ c = [iteration |-> iteration, tool_name |-> Turn[cursor].name,
              tool_use_id |-> << iteration, cursor >>, error |-> is_error]
  BY <1>1, <1>3, <1>4 DEF Call, ToolCall, ContentBlock
<1>6. r \in ContentBlock /\ r.id = << iteration, cursor >> /\ r.is_error = is_error
  <2>1. NoText \in Text
    BY EmptySeq DEF NoText, Text
  <2> QED
    BY <1>3, <1>4, <2>1 DEF Block, ContentBlock
<1>7. tool_call_log' = Append(tool_call_log, c) /\ tool_results' = Append(tool_results, r)
  BY DEF Dispatched, LogCall
<1> HIDE DEF r, c
<1>8. Pending' = Pending \cup {c}
  <2>1. ToSet(tool_results') = ToSet(tool_results) \cup {r}
    BY <1>6, <1>7, AppendToSet DEF TypeOK
  <2> DEFINE Shown(b) == [iteration |-> iteration, tool_name |-> Turn[b.id[2]].name,
                          tool_use_id |-> b.id, error |-> b.is_error]
  <2>2. Pending = {Shown(b) : b \in ToSet(tool_results)}
    BY DEF Pending
  <2>3. Pending' = {Shown(b) : b \in ToSet(tool_results')}
    BY <1>1 DEF Pending
  <2>4. Shown(r) = c
    BY <1>5, <1>6
  <2> HIDE DEF Shown
  <2> QED
    BY <2>1, <2>2, <2>3, <2>4
<1>9. ShownCalls' = ShownCalls
  BY <1>1 DEF ShownCalls, ShownIn
<1> DEFINE n == Len(tool_call_log)
<1>10. /\ ToSet(tool_call_log') = ToSet(tool_call_log) \cup {c}
       /\ n \in Nat /\ DOMAIN tool_call_log = 1 .. n /\ DOMAIN tool_call_log' = 1 .. n + 1
       /\ \A i \in 1 .. n : tool_call_log'[i] = tool_call_log[i]
       /\ tool_call_log'[n + 1] = c
  BY <1>5, <1>7, AppendToSet DEF TypeOK
<1> HIDE DEF n
<1>11. \A i \in 1 .. n : tool_call_log[i].tool_use_id[2] \in Nat
  <2>1. \A i \in 1 .. n : tool_call_log[i] \in ToolCall
    BY <1>10, ElementOfSeq DEF TypeOK
  <2> QED
    BY <2>1 DEF ToolCall, Ids
<1>12. \A i \in 1 .. n : tool_call_log[i].tool_use_id # c.tool_use_id
  BY <1>1, <1>5, <1>10, <1>11 DEF LogInv
<1>13. \A i \in 1 .. n + 1 :
         \/ tool_call_log'[i].tool_use_id[1] < iteration
         \/ /\ tool_call_log'[i].tool_use_id[1] = iteration
            /\ tool_call_log'[i].tool_use_id[2] < cursor + 1
  <2> TAKE i \in 1 .. n + 1
  <2>1. CASE i = n + 1
    BY <1>1, <1>5, <1>10, <2>1
  <2>2. CASE i \in 1 .. n
    BY <1>1, <1>10, <1>11, <2>2 DEF LogInv
  <2> QED
    BY <1>10, <2>1, <2>2
<1>14. \A i, j \in 1 .. n + 1 :
         tool_call_log'[i].tool_use_id = tool_call_log'[j].tool_use_id => i = j
  <2> TAKE i, j \in 1 .. n + 1
  <2>1. CASE i \in 1 .. n /\ j \in 1 .. n
    BY <1>10, <2>1 DEF LogInv
  <2>2. CASE i = n + 1 \/ j = n + 1
    BY <1>10, <1>12, <2>2
  <2> QED
    BY <1>10, <2>1, <2>2
<1> QED
  BY <1>1, <1>8, <1>9, <1>10, <1>13, <1>14 DEF LogInv

LEMMA NextLog == TypeOK /\ TranscriptInv /\ LogInv /\ [Next]_vars => LogInv'
<1> SUFFICES ASSUME TypeOK, TranscriptInv, LogInv, [Next]_vars PROVE LogInv'
  OBVIOUS
<1>1. CASE LeaveLoop \/ HaltOnBudget \/ BeginCall \/ RetryCall \/ FailCall
  <2>1. /\ UNCHANGED << messages, iteration, tool_call_log >>
        /\ pc \in {"loop", "calling"} /\ pc' \in {"calling", "parsing"}
    BY <1>1 DEF LeaveLoop, HaltOnBudget, BeginCall, RetryCall, FailCall, Halt, loopVars, toolVars
  <2>2. ShownCalls' = ShownCalls
    BY <2>1 DEF ShownCalls, ShownIn
  <2> QED
    BY <2>1, <2>2 DEF LogInv
<1>2. CASE Conclude \/ Raise \/ Save \/ Interrupt
  <2>1. /\ UNCHANGED << messages, iteration, tool_call_log >>
        /\ pc' = "lost" \/ (pc \notin {"dispatching", "lost"} /\ pc' \in {"saving", "done"})
    BY <1>2 DEF Conclude, Raise, Save, Interrupt, loopVars, toolVars
  <2>2. ShownCalls' = ShownCalls
    BY <2>1 DEF ShownCalls, ShownIn
  <2> QED
    BY <2>1, <2>2 DEF LogInv
<1>3. CASE UNCHANGED vars
  <2>1. UNCHANGED << messages, iteration, tool_call_log, pc, cursor, tool_results >> /\ Turn' = Turn
    BY <1>3 DEF vars, loopVars, toolVars, Turn
  <2>2. ShownCalls' = ShownCalls /\ Pending' = Pending
    BY <2>1 DEF ShownCalls, ShownIn, Pending
  <2> QED
    BY <2>1, <2>2 DEF LogInv
<1>4. ASSUME NEW reply \in Replies, Answer(reply) PROVE LogInv'
  <2> DEFINE blocks == ContentBlocksToDict(reply, iteration + 1)
             m == Message("assistant", blocks)
  <2>1. /\ pc = "calling" /\ iteration' = iteration + 1 /\ messages' = Append(messages, m)
        /\ tool_call_log' = tool_call_log
        /\ \/ pc' = "dispatching" /\ cursor' = 1 /\ tool_results' = << >>
           \/ pc' = "parsing"
    BY <1>4 DEF Answer, StartDispatch, Halt
  <2>2. m \in ChatMessage /\ m.content = blocks
    BY BlocksType DEF Message, ChatMessage, TypeOK
  <2>3. \A i \in DOMAIN blocks : blocks[i].type # "tool_result"
    BY KeptBlocks DEF TypeOK
  <2> HIDE DEF blocks, m
  <2>4. {b \in ToSet(m.content) : b.type = "tool_result"} = {}
    BY <2>2, <2>3 DEF ToSet
  <2>5. ShownCalls' = ShownCalls
    <3>1. PICK n : n = Len(messages)
      OBVIOUS
    <3> QED
      BY <2>1, <2>2, <2>4, <3>1, ShownAppend
  <2>6. pc' = "dispatching" => Pending' = {}
    <3>1. ToSet(<< >>) = {}
      BY DEF ToSet
    <3> QED
      BY <2>1, <3>1 DEF Pending
  <2>7. \A i \in DOMAIN tool_call_log : tool_call_log[i].tool_use_id[1] < iteration + 1
    <3>1. iteration \in Nat /\ \A i \in DOMAIN tool_call_log : tool_call_log[i].tool_use_id[1] \in Nat
      <4>1. \A i \in DOMAIN tool_call_log : tool_call_log[i] \in ToolCall
        BY ElementOfSeq, LenProperties DEF TypeOK
      <4> QED
        BY <4>1 DEF ToolCall, Ids, TypeOK
    <3> QED
      BY <3>1 DEF LogInv
  <2> QED
    BY <2>1, <2>5, <2>6, <2>7 DEF LogInv
<1>5. CASE SkipBlock
  <2>1. /\ UNCHANGED << messages, iteration, tool_call_log, pc, tool_results >> /\ Turn' = Turn
        /\ pc = "dispatching" /\ cursor' = cursor + 1 /\ cursor \in Nat
    BY <1>5 DEF SkipBlock, loopVars, Turn, TypeOK
  <2>2. ShownCalls' = ShownCalls /\ Pending' = Pending
    BY <2>1 DEF ShownCalls, ShownIn, Pending
  <2>3. \A i \in DOMAIN tool_call_log : tool_call_log[i].tool_use_id[2] \in Nat
    <3>1. \A i \in DOMAIN tool_call_log : tool_call_log[i] \in ToolCall
      BY ElementOfSeq, LenProperties DEF TypeOK
    <3> QED
      BY <3>1 DEF ToolCall, Ids
  <2>4. \A i \in DOMAIN tool_call_log :
          tool_call_log[i].tool_use_id[2] < cursor => tool_call_log[i].tool_use_id[2] < cursor'
    BY <2>1, <2>3
  <2> QED
    BY <2>1, <2>2, <2>4 DEF LogInv
<1>6. ASSUME NEW is_error \in BOOLEAN, AtToolUse, Dispatched(is_error) PROVE LogInv'
  BY <1>6, DispatchLogs
<1>7. CASE AnswerTools
  <2> DEFINE m == Message("user", tool_results)
  <2>1. /\ pc = "dispatching" /\ pc' = "loop" /\ messages' = Append(messages, m)
        /\ UNCHANGED << iteration, tool_call_log >>
    BY <1>7 DEF AnswerTools, toolVars
  <2>2. m \in ChatMessage /\ m.content = tool_results
    BY DEF Message, ChatMessage, TypeOK
  <2> HIDE DEF m
  <2>3. {b \in ToSet(m.content) : b.type = "tool_result"} = ToSet(tool_results)
    BY <2>1, <2>2 DEF TranscriptInv, DispatchInv, ToSet
  <2>4. PICK n : n = Len(messages)
    OBVIOUS
  <2>5. n = 2 * iteration /\ iteration \in Nat
    BY <2>1, <2>4 DEF TranscriptInv, TypeOK
  <2>6. (n + 1) \div 2 = iteration
    BY <2>5
  <2>7. ShownCalls' = ShownCalls \cup
          {[iteration |-> iteration, tool_name |-> messages[n].content[r.id[2]].name,
            tool_use_id |-> r.id, error |-> r.is_error] : r \in ToSet(tool_results)}
    BY <2>1, <2>2, <2>3, <2>4, <2>6, ShownAppend
  <2>8. ShownCalls' = ShownCalls \cup Pending
    BY <2>4, <2>7 DEF Pending, Turn
  <2> QED
    BY <2>1, <2>8 DEF LogInv
<1> QED
  BY <1>1, <1>2, <1>3, <1>4, <1>5, <1>6, <1>7 DEF Next, Progress, RejectTool, RunTool

(* tool_call_log and the transcript are built by separate statements of    *)
(* core.py:313-345 and stored side by side: whatever the model asks for    *)
(* and however the tools fail, they tell of the same calls.                *)
THEOREM LogAgreesWithTranscript == Spec => []LogMatchesHistory
<1>1. LogInv => LogMatchesHistory
  BY DEF LogInv, LogMatchesHistory
<1>2. Init => LogInv
  BY InitLog
<1>3. TypeOK /\ TranscriptInv /\ LogInv /\ [Next]_vars => LogInv'
  BY NextLog
<1> QED
  BY <1>1, <1>2, <1>3, TranscriptInvariant, PTL DEF Spec

-----------------------------------------------------------------------------
(***************************************************************************)
(* Where the verdicts come from.  final_text outlives its turn: it must be *)
(* that of the last one.                                                   *)
(***************************************************************************)

LastAnswer ==
  LET last == messages[Len(messages)]
  IN  IF last.role = "assistant" THEN ExtractText(last.content) ELSE NoText

FinalInv ==
  /\ pc \in {"loop", "calling", "dispatching"} => final_text = NoText
  /\ pc = "parsing" => final_text = LastAnswer
  /\ VerdictsAreTheLastAnswers

(* A sequence without elements is the empty one.                           *)
LEMMA NoVerdicts ==
  ASSUME NEW text, DOMAIN ParseVerdicts(text) = {}
  PROVE  ParseVerdicts(text) = << >>
<1> DEFINE P == ParseVerdicts(text)
<1>1. P = [i \in DOMAIN P |-> P[i]]
  BY DEF ParseVerdicts
<1>2. DOMAIN P = {}
  OBVIOUS
<1> HIDE DEF P
<1>3. P \in [1 .. 0 -> Verdict]
  BY <1>1, <1>2
<1>4. P \in Seq(Verdict) /\ Len(P) = 0
  BY <1>3, FunctionIsSeq, LenProperties
<1> QED
  BY <1>4, EmptySeq DEF P

LEMMA NextFinal == TypeOK /\ TranscriptInv /\ FinalInv /\ [Next]_vars => FinalInv'
<1> SUFFICES ASSUME TypeOK, TranscriptInv, FinalInv, [Next]_vars PROVE FinalInv'
  OBVIOUS
<1> USE DEF FinalInv
<1>1. CASE LeaveLoop \/ HaltOnBudget \/ BeginCall \/ RetryCall \/ FailCall
  <2>1. /\ UNCHANGED << messages, final_text >>
        /\ pc \in {"loop", "calling"} /\ pc' \in {"calling", "parsing"}
    BY <1>1 DEF LeaveLoop, HaltOnBudget, BeginCall, RetryCall, FailCall, Halt, loopVars, haltVars
  <2> DEFINE n == Len(messages)
  <2>2. n \in DOMAIN messages /\ n \in Nat
    BY LastIn, LenProperties DEF TypeOK
  <2>3. n = 2 * iteration + 1 /\ iteration \in Nat
    BY <2>1 DEF TranscriptInv, TypeOK
  <2> HIDE DEF n
  <2>4. n % 2 = 1
    BY <2>3
  <2>5. messages[n].role = "user"
    BY <2>2, <2>4 DEF TranscriptInv, HistoryWellFormed
  <2>6. LastAnswer = NoText /\ LastAnswer' = LastAnswer
    BY <2>1, <2>5 DEF LastAnswer, n
  <2> QED
    BY <2>1, <2>6 DEF VerdictsAreTheLastAnswers
<1>2. ASSUME NEW reply \in Replies, Answer(reply) PROVE FinalInv'
  <2> DEFINE blocks == ContentBlocksToDict(reply, iteration + 1)
             m == Message("assistant", blocks)
  <2>1. /\ pc = "calling" /\ messages' = Append(messages, m)
        /\ final_text' = IF reply.stop \in Final THEN ExtractText(blocks) ELSE final_text
        /\ \/ pc' = "dispatching" /\ reply.stop = "tool_use"
           \/ pc' = "parsing" /\ reply.stop \in Final
    BY <1>2 DEF Answer, StartDispatch, Halt, FinalText, Final
  <2>2. m \in ChatMessage /\ m.role = "assistant" /\ m.content = blocks
    BY BlocksType DEF Message, ChatMessage, TypeOK
  <2> HIDE DEF blocks, m
  <2>3. messages'[Len(messages')] = m
    BY <2>1, <2>2, AppendMessage
  <2>4. LastAnswer' = ExtractText(blocks)
    BY <2>2, <2>3 DEF LastAnswer
  <2>5. CASE reply.stop = "tool_use"
    BY <2>1, <2>5 DEF Final, VerdictsAreTheLastAnswers
  <2>6. CASE reply.stop \in Final
    BY <2>1, <2>4, <2>6 DEF Final, VerdictsAreTheLastAnswers
  <2> QED
    BY <2>1, <2>5, <2>6
<1>3. CASE SkipBlock \/ AnswerTools
  <2>1. pc = "dispatching" /\ pc' \in {"loop", "dispatching"} /\ final_text' = final_text
    BY <1>3 DEF SkipBlock, AnswerTools, haltVars
  <2> QED
    BY <2>1 DEF VerdictsAreTheLastAnswers
<1>4. ASSUME NEW is_error \in BOOLEAN, AtToolUse, Dispatched(is_error) PROVE FinalInv'
  <2>1. pc = "dispatching" /\ pc' = pc /\ final_text' = final_text
    BY <1>4 DEF AtToolUse, Dispatched, haltVars
  <2> QED
    BY <2>1 DEF VerdictsAreTheLastAnswers
<1>5. CASE Conclude
  <2> DEFINE answer == ParseVerdicts(final_text)
  <2>1. /\ pc = "parsing" /\ pc' = "saving" /\ messages' = messages
        /\ verdicts' = IF DOMAIN answer = {} /\ ~ converged' THEN << DidNotConverge >> ELSE answer
    BY <1>5 DEF Conclude, StandIn, loopVars
  <2>2. answer = ParseVerdicts(LastAnswer) /\ LastAnswer' = LastAnswer
    BY <2>1 DEF LastAnswer
  <2>3. DOMAIN answer = {} => answer = << >>
    BY NoVerdicts
  <2> HIDE DEF answer
  <2>4. verdicts' = IF DOMAIN answer # {} THEN answer
                    ELSE IF converged' THEN << >> ELSE << DidNotConverge >>
    BY <2>1, <2>3
  <2>5. VerdictsAreTheLastAnswers'
    BY <2>2, <2>4 DEF VerdictsAreTheLastAnswers, LastAnswer
  <2> QED
    BY <2>1, <2>5
<1>6. CASE Raise \/ Interrupt
  BY <1>6 DEF Raise, Interrupt, VerdictsAreTheLastAnswers
<1>7. CASE Save \/ UNCHANGED vars
  <2>1. UNCHANGED << messages, final_text, converged, verdicts >>
        /\ (pc' = pc \/ (pc = "saving" /\ pc' = "done"))
    BY <1>7 DEF Save, vars, loopVars, haltVars, resultVars
  <2> QED
    BY <2>1 DEF VerdictsAreTheLastAnswers, LastAnswer
<1> QED
  BY <1>1, <1>2, <1>3, <1>4, <1>5, <1>6, <1>7 DEF Next, Progress, RejectTool, RunTool

(* Whichever of the ways out of the loop was taken (core.py:243-357), the  *)
(* verdicts of the run are those of the answer its transcript ends with,   *)
(* not of an earlier turn.                                                 *)
THEOREM VerdictsAreLast == Spec => []VerdictsAreTheLastAnswers
<1>1. Init => FinalInv
  BY DEF Init, FinalInv, VerdictsAreTheLastAnswers
<1>2. TypeOK /\ TranscriptInv /\ FinalInv /\ [Next]_vars => FinalInv'
  BY NextFinal
<1>3. FinalInv => VerdictsAreTheLastAnswers
  BY DEF FinalInv
<1> QED
  BY <1>1, <1>2, <1>3, TranscriptInvariant, PTL DEF Spec
=============================================================================

------------------------- MODULE PolicyStore_proofs -------------------------
(***************************************************************************)
(* Theorems of PolicyStore, for every rule file, number of sessions and    *)
(* threads, and choice of edits.                                           *)
(***************************************************************************)
EXTENDS PolicyStore, Policy_proofs

(* What converts the rules of a sequence one by one gives a sequence.      *)
LEMMA MapIsSeq ==
  ASSUME NEW s \in Seq(StoredRule), NEW f, DOMAIN f = DOMAIN s, f = [i \in DOMAIN s |-> f[i]],
         \A i \in DOMAIN s : s[i] \in StoredRule => f[i] \in StoredRule
  PROVE  f \in Seq(StoredRule)
<1>1. Len(s) \in Nat /\ DOMAIN s = 1 .. Len(s) /\ \A i \in 1 .. Len(s) : s[i] \in StoredRule
  BY LenProperties
<1>2. f \in [1 .. Len(s) -> StoredRule]
  BY <1>1
<1> QED
  BY <1>1, <1>2, FunctionIsSeq

(* The rules in memory are stored rules, and the overrides unchanged.      *)
LEMMA LoadRulesType ==
  ASSUME NEW c \in Content
  PROVE  LoadRules(c) \in Content
<1> DEFINE D == [i \in DOMAIN c.defaults |-> WithoutFund(c.defaults[i])]
<1>1. c.defaults \in Seq(StoredRule) /\ c.overrides \in Seq(StoredRule)
  BY DEF Content
<1>2. \A r \in StoredRule : WithoutFund(r) \in StoredRule
  BY DEF WithoutFund, StoredRule, Rule
<1>3. D \in Seq(StoredRule)
  BY <1>1, <1>2, MapIsSeq
<1> QED
  BY <1>1, <1>3 DEF LoadRules, Content

(* So are the rows of the page.                                            *)
LEMMA RenderedType ==
  ASSUME NEW shown \in Content, NEW content \in Content \cup {Empty}, NEW keeps \in BOOLEAN
  PROVE  Rendered(shown, content, keeps) \in Content
<1> DEFINE c == PageLoad(content)
<1>1. c \in Content
  <2>1. Nothing \in Content
    BY EmptySeq DEF Nothing, Content
  <2> QED
    BY <2>1 DEF PageLoad
<1> HIDE DEF c
<1>2. /\ c.overrides \in Seq(StoredRule) /\ c.defaults \in Seq(StoredRule)
      /\ shown.overrides \in Seq(StoredRule) /\ shown.defaults \in Seq(StoredRule)
  BY <1>1 DEF Content
<1>3. FormOverrides(c) \in Seq(StoredRule)
  <2>1. \A rule \in StoredRule : FormOverride(rule) \in StoredRule
    BY DEF FormOverride, StoredRule, Rule
  <2> QED
    BY <1>2, <2>1, MapIsSeq DEF FormOverrides
<1>4. FormDefaults(c) \in Seq(StoredRule)
  <2>1. \A rule \in StoredRule : FormDefault(rule) \in StoredRule
    BY DEF FormDefault, WithoutFund, StoredRule, Rule
  <2> QED
    BY <1>2, <2>1, MapIsSeq DEF FormDefaults
<1>5. ASSUME NEW old \in Seq(StoredRule), NEW stored \in Seq(StoredRule)
      PROVE  Rows(old, stored, keeps) \in Seq(StoredRule)
  <2>1. \A i \in DOMAIN old : old[i] \in StoredRule
    BY LenProperties
  <2> QED
    BY <2>1, MapIsSeq DEF Rows
<1> QED
  BY <1>2, <1>3, <1>4, <1>5 DEF Rendered, Content, c

-----------------------------------------------------------------------------
(***************************************************************************)
(* The inductive invariant.  What a session has parsed is a version; a     *)
(* runner in apply_policy has seen the rules that are loaded, and as long  *)
(* as there were no others it has read exactly those.                      *)
(***************************************************************************)

Active == {"fund_defect", "fund_only", "defect_only", "defaults"}

ParsedWhole ==
  \A s \in Sessions : page[s] \in {"read", "assigned"} =>
    loaded # NotLoaded /\ \E v \in versions : parsed[s] = LoadRules(v)

FileWhole == file \in versions \cup {Empty}

HeldCurrent ==
  \A r \in Runners : runner[r] \in Active => loaded # NotLoaded /\ loaded \in held[r]

(* What a runner at the look-up at has read if the rules have always been h. *)
Seen(h, at) ==
  CASE at = "fund_defect" -> << >>
    [] at = "fund_only"   -> << h.overrides >>
    [] at = "defect_only" -> << h.overrides, h.overrides >>
    [] at = "defaults"    -> << h.overrides, h.overrides, h.overrides >>
    [] at = "done"        -> << h.overrides, h.overrides, h.overrides, h.defaults >>

ReadHeld ==
  \A r \in Runners : \A h \in held[r] :
    runner[r] # "idle" /\ held[r] = {h} => reads[r] = Seen(h, runner[r])

StoreInv ==
  TypeOK /\ FileWhole /\ LoadedWhole /\ ParsedWhole /\ HeldCurrent /\ ReadHeld

LEMMA ContentFields ==
  /\ Nothing \in Content /\ Shipped \in Content
  /\ Empty \notin Content /\ NotLoaded \notin Content
  /\ \A c \in Content : /\ c.overrides \in Seq(StoredRule) /\ c.defaults \in Seq(StoredRule)
                        /\ c = [overrides |-> c.overrides, defaults |-> c.defaults]
  /\ \A o, d \in Seq(StoredRule) : [overrides |-> o, defaults |-> d] \in Content
<1>1. Nothing \in Content /\ Shipped \in Content
  BY EmptySeq, StoreAssumption DEF Nothing, Shipped, Content
<1>2. \A c \in Content : DOMAIN c = {"overrides", "defaults"}
  BY DEF Content
<1>3. DOMAIN Empty = {} /\ DOMAIN NotLoaded = {}
  BY DEF Empty, NotLoaded
<1>4. Empty \notin Content /\ NotLoaded \notin Content
  BY <1>2, <1>3
<1>5. \A c \in Content : /\ c.overrides \in Seq(StoredRule) /\ c.defaults \in Seq(StoredRule)
                         /\ c = [overrides |-> c.overrides, defaults |-> c.defaults]
  BY DEF Content
<1>6. \A o, d \in Seq(StoredRule) : [overrides |-> o, defaults |-> d] \in Content
  BY DEF Content
<1> QED
  BY <1>1, <1>4, <1>5, <1>6

LEMMA InitStoreInv == Init => StoreInv
<1> SUFFICES ASSUME Init PROVE StoreInv
  OBVIOUS
<1>1. TypeOK
  <2>1. (CHOOSE c \in Cases : TRUE) \in Cases
    BY StoreAssumption
  <2>2. question \in [Runners -> Cases]
    BY <2>1 DEF Init
  <2>3. << >> \in Seq(Seq(StoredRule))
    BY EmptySeq
  <2>4. page \in [Sessions -> {"closed", "open", "saving", "writing", "written",
                               "read", "assigned"}]
    BY DEF Init
  <2>5. runner \in [Runners -> {"idle", "fund_defect", "fund_only", "defect_only",
                                "defaults", "done"}]
    BY DEF Init
  <2> QED
    BY <2>2, <2>3, <2>4, <2>5, ContentFields, StoreAssumption DEF Init, TypeOK
<1>2. FileWhole /\ LoadedWhole
  BY DEF Init, FileWhole, LoadedWhole
<1>3. ParsedWhole /\ HeldCurrent /\ ReadHeld
  BY DEF Init, ParsedWhole, HeldCurrent, ReadHeld, Active
<1> QED
  BY <1>1, <1>2, <1>3 DEF StoreInv

(* The user's change of a field leaves a stored rule.                      *)
LEMMA RetouchedType ==
  ASSUME NEW rule \in StoredRule, NEW list, NEW r \in Retouched(rule, list)
  PROVE  r \in StoredRule
<1>1. EditedActions \subseteq Actions /\ EditedIds \subseteq RuleIds \cup {Blank}
      /\ EditedDefects \subseteq DefectTypes \cup {Missing}
  BY StoreAssumption DEF DefectTypes
<1>2. CASE \E a \in EditedActions : r = [rule EXCEPT !.action = a]
  BY <1>1, <1>2 DEF StoredRule, Rule
<1>3. CASE \E id \in EditedIds : r = [rule EXCEPT !.rule_id = id]
  BY <1>1, <1>3 DEF StoredRule, Rule
<1>4. CASE \E d \in EditedDefects : r = [rule EXCEPT !.defect_type = d]
  BY <1>1, <1>4 DEF StoredRule, Rule
<1> QED
  BY <1>2, <1>3, <1>4 DEF Retouched

(* Actions of a page that touch neither the globals nor the file.          *)
LEMMA PageStep ==
  ASSUME StoreInv, NEW s \in Sessions, NEW p \in {"open", "saving"},
         page' = [page EXCEPT ![s] = p] \/ UNCHANGED page,
         form' \in [Sessions -> Content], before' \in [Sessions -> Content],
         edited' \in [Sessions -> SUBSET (RuleIds \cup {Blank})],
         edits' \in 0 .. MaxEdits, failures' \in 0 .. MaxFailures,
         UNCHANGED << fileVars, loaded, parsed, runnerVars >>
  PROVE  StoreInv'
<1> USE DEF StoreInv, fileVars, runnerVars
<1>1. page' \in [Sessions -> {"closed", "open", "saving", "writing", "written",
                              "read", "assigned"}]
  BY DEF TypeOK
<1>2. TypeOK'
  BY <1>1 DEF TypeOK
<1>3. \A t \in Sessions : page'[t] \in {"read", "assigned"} => page[t] \in {"read", "assigned"}
  BY DEF TypeOK
<1>4. (FileWhole /\ LoadedWhole /\ ParsedWhole)'
  BY <1>3 DEF FileWhole, LoadedWhole, ParsedWhole
<1>5. (HeldCurrent /\ ReadHeld)'
  BY DEF HeldCurrent, ReadHeld
<1> QED
  BY <1>2, <1>4, <1>5

LEMMA AppendFourth ==
  ASSUME NEW S, NEW o \in S, NEW d \in S
  PROVE  Append(<< o, o, o >>, d) = << o, o, o, d >>
<1> DEFINE a == Append(<< o, o, o >>, d)
<1>1. << o, o, o >> \in Seq(S) /\ << o, o, o, d >> \in Seq(S)
  OBVIOUS
<1>2. /\ a \in Seq(S) /\ Len(a) = 4 /\ a[4] = d
      /\ \A i \in 1 .. 3 : a[i] = << o, o, o >>[i]
  BY <1>1, AppendProperties
<1> HIDE DEF a
<1>3. \A i \in 1 .. 4 : a[i] = << o, o, o, d >>[i]
  BY <1>2
<1> QED
  BY <1>1, <1>2, <1>3, SeqEqual DEF a

(* A look-up of a global by a runner.                                      *)
LEMMA LookUpStep ==
  ASSUME StoreInv, NEW r \in Runners,
         NEW from \in Active, NEW to, NEW list \in {"overrides", "defaults"},
         \/ from = "fund_defect" /\ list = "overrides" /\ to = "fund_only"
         \/ from = "fund_only" /\ list = "overrides" /\ to = "defect_only"
         \/ from = "defect_only" /\ list = "overrides" /\ to = "defaults"
         \/ from = "defaults" /\ list = "defaults" /\ to = "done",
         LookUp(r, from, list, to)
  PROVE  StoreInv'
<1> USE DEF StoreInv, Active
<1>1. /\ runner[r] = from /\ runner' = [runner EXCEPT ![r] = to]
      /\ reads' = [reads EXCEPT ![r] = Append(@, loaded[list])]
      /\ UNCHANGED << fileVars, loaded, pageVars, question, held, boundVars >>
  BY DEF LookUp
<1>2. loaded \in Content /\ loaded \in held[r]
  BY <1>1, ContentFields DEF TypeOK, HeldCurrent
<1>3. loaded[list] \in Seq(StoredRule)
  BY <1>2, ContentFields
<1>4. reads' \in [Runners -> Seq(Seq(StoredRule))]
  <2> DEFINE rules == loaded[list]
  <2>1. rules \in Seq(StoredRule)
    BY <1>3
  <2>2. reads' = [reads EXCEPT ![r] = Append(@, rules)]
    BY <1>1
  <2> HIDE DEF rules
  <2> QED
    BY <2>1, <2>2, AppendProperties DEF TypeOK
<1>5. TypeOK'
  BY <1>1, <1>4 DEF TypeOK, fileVars, pageVars, boundVars
<1>6. (FileWhole /\ LoadedWhole /\ ParsedWhole)'
  BY <1>1 DEF FileWhole, LoadedWhole, ParsedWhole, fileVars, pageVars
<1>7. HeldCurrent'
  BY <1>1 DEF HeldCurrent, TypeOK
<1>8. ReadHeld'
  <2> SUFFICES ASSUME NEW t \in Runners, NEW h \in held[t], runner'[t] # "idle", held[t] = {h}
               PROVE  reads'[t] = Seen(h, runner'[t])
    BY <1>1 DEF ReadHeld
  <2>1. CASE t # r
    BY <1>1, <2>1 DEF ReadHeld, TypeOK
  <2>2. CASE t = r
    <3>1. h = loaded
      BY <1>2, <2>2
    <3>2. reads[r] = Seen(h, from)
      BY <1>1, <2>2 DEF ReadHeld
    <3>3. reads'[t] = Append(Seen(h, from), h[list]) /\ runner'[t] = to
      BY <1>1, <2>2, <3>1, <3>2 DEF TypeOK
    <3>4. Append(Seen(h, from), h[list]) = Seen(h, to)
      <4>1. CASE from = "fund_defect"
        BY <4>1 DEF Seen
      <4>2. CASE from = "fund_only"
        BY <4>2 DEF Seen
      <4>3. CASE from = "defect_only"
        BY <4>3 DEF Seen
      <4>4. CASE from = "defaults"
        <5>1. list = "defaults" /\ to = "done"
          BY <4>4
        <5>2. h.overrides \in Seq(StoredRule) /\ h.defaults \in Seq(StoredRule)
          BY <1>2, <3>1, ContentFields
        <5>3. /\ Seen(h, "defaults") = << h.overrides, h.overrides, h.overrides >>
              /\ Seen(h, "done") = << h.overrides, h.overrides, h.overrides, h.defaults >>
          BY DEF Seen
        <5> QED
          BY <4>4, <5>1, <5>2, <5>3, AppendFourth
      <4> QED
        BY <4>1, <4>2, <4>3, <4>4
    <3> QED
      BY <3>3, <3>4
  <2> QED
    BY <2>1, <2>2
<1> QED
  BY <1>5, <1>6, <1>7, <1>8

(* The assignment of one of the two globals.                               *)
LEMMA AssignStep ==
  ASSUME StoreInv, NEW s \in Sessions, NEW list \in {"overrides", "defaults"},
         NEW from \in {"read", "assigned"}, NEW to \in {"assigned", "open"},
         Assign(s, list, from, to)
  PROVE  StoreInv'
<1> USE DEF StoreInv
<1>1. /\ page[s] = from /\ page' = [page EXCEPT ![s] = to]
      /\ loaded' = [loaded EXCEPT ![list] = parsed[s][list]]
      /\ held' = [r \in Runners |-> IF runner[r] \in {"idle", "done"} THEN held[r]
                                    ELSE held[r] \cup {loaded'}]
      /\ UNCHANGED << fileVars, form, edited, before, parsed, runner, question, reads, boundVars >>
  BY DEF Assign, Witnessed
<1>2. PICK u \in versions : parsed[s] = LoadRules(u)
  BY <1>1 DEF ParsedWhole
<1>3. loaded # NotLoaded /\ loaded \in Content /\ parsed[s] \in Content
  BY <1>1 DEF ParsedWhole, TypeOK
<1>4. PICK v, w \in versions : loaded = [overrides |-> LoadRules(v).overrides,
                                         defaults  |-> LoadRules(w).defaults]
  BY <1>3 DEF LoadedWhole
<1>5. \/ loaded' = [overrides |-> LoadRules(u).overrides, defaults |-> LoadRules(w).defaults]
      \/ loaded' = [overrides |-> LoadRules(v).overrides, defaults |-> LoadRules(u).defaults]
  <2>1. \/ loaded' = [overrides |-> parsed[s].overrides, defaults |-> loaded.defaults]
        \/ loaded' = [overrides |-> loaded.overrides, defaults |-> parsed[s].defaults]
    BY <1>1, <1>4
  <2> QED
    BY <1>2, <1>4, <2>1
<1>6. loaded' \in Content /\ loaded' # NotLoaded
  <2>1. \A x \in versions : LoadRules(x) \in Content
    BY LoadRulesType DEF TypeOK
  <2> QED
    BY <1>2, <1>4, <1>5, <2>1, ContentFields
<1>7. TypeOK'
  <2>1. page' \in [Sessions -> {"closed", "open", "saving", "writing", "written",
                                "read", "assigned"}]
    BY <1>1 DEF TypeOK
  <2>2. held' \in [Runners -> SUBSET Content]
    BY <1>1, <1>6 DEF TypeOK
  <2> QED
    BY <1>1, <1>6, <2>1, <2>2 DEF TypeOK, fileVars, boundVars
<1>8. FileWhole' /\ LoadedWhole'
  BY <1>1, <1>5, <1>2, <1>4 DEF FileWhole, LoadedWhole, fileVars
<1>9. ParsedWhole'
  BY <1>1, <1>6 DEF ParsedWhole, TypeOK, fileVars
<1>10. HeldCurrent'
  BY <1>1, <1>6 DEF HeldCurrent, Active
<1>11. ReadHeld'
  <2> SUFFICES ASSUME NEW r \in Runners, NEW h \in held'[r],
                      runner[r] # "idle", held'[r] = {h}
               PROVE  reads[r] = Seen(h, runner[r])
    BY <1>1 DEF ReadHeld
  <2>1. held[r] = {h}
    <3>1. CASE runner[r] = "done"
      BY <1>1, <3>1
    <3>2. CASE runner[r] \in Active
      BY <1>1, <3>2 DEF HeldCurrent, Active
    <3> QED
      BY <3>1, <3>2 DEF TypeOK, Active
  <2> QED
    BY <2>1 DEF ReadHeld
<1> QED
  BY <1>7, <1>8, <1>9, <1>10, <1>11

LEMMA NextStoreInv == StoreInv /\ [Next]_vars => StoreInv'
<1> SUFFICES ASSUME StoreInv, [Next]_vars PROVE StoreInv'
  OBVIOUS
<1>0. TypeOK
  BY DEF StoreInv
<1>1. ASSUME NEW s \in Sessions, OpenPage(s) PROVE StoreInv'
  <2>1. Rendered(Nothing, file, FALSE) \in Content
    BY <1>0, ContentFields, RenderedType DEF TypeOK
  <2>2. /\ page' = [page EXCEPT ![s] = "open"]
        /\ form' \in [Sessions -> Content]
        /\ edited' \in [Sessions -> SUBSET (RuleIds \cup {Blank})]
    BY <1>0, <1>1, <2>1 DEF OpenPage, TypeOK
  <2> QED
    BY <1>0, <1>1, <2>2, PageStep DEF OpenPage, TypeOK, boundVars
<1>2. ASSUME NEW s \in Sessions, NEW keeps \in BOOLEAN, NEW list \in {"overrides", "defaults"},
             NEW i \in 1 .. Len(form[s][list]), Edit(s, list, i, keeps)
      PROVE  StoreInv'
  <2> DEFINE shown == Rendered(form[s], file, keeps)
             old   == form[s][list][i]
  <2>1. shown \in Content /\ form[s] \in Content
    BY <1>0, RenderedType DEF TypeOK
  <2>2. shown[list] \in Seq(StoredRule) /\ form[s][list] \in Seq(StoredRule)
    BY <2>1, ContentFields
  <2>3. i \in DOMAIN shown[list] /\ old \in StoredRule
    BY <1>2, <2>2, LenProperties DEF Edit
  <2>4. PICK rule \in Retouched(old, list) :
          /\ form' = [form EXCEPT ![s] = [shown EXCEPT ![list][i] = rule]]
          /\ edited' = [edited EXCEPT ![s] = @ \cup {old.rule_id, rule.rule_id}]
    BY <1>2 DEF Edit
  <2>5. rule \in StoredRule
    BY <2>3, <2>4, RetouchedType
  <2>6. [shown EXCEPT ![list][i] = rule] \in Content
    <3> DEFINE q == [shown[list] EXCEPT ![i] = rule]
    <3>1. q \in Seq(StoredRule)
      BY <2>2, <2>3, <2>5, ExceptSeq
    <3>2. [shown EXCEPT ![list][i] = rule] = [shown EXCEPT ![list] = q]
      OBVIOUS
    <3> HIDE DEF q, shown
    <3>3. [shown EXCEPT ![list] = q] \in Content
      BY <2>1, <3>1 DEF Content
    <3> QED
      BY <3>2, <3>3
  <2>7. form' \in [Sessions -> Content]
    BY <1>0, <2>4, <2>6 DEF TypeOK
  <2>8. edited' \in [Sessions -> SUBSET (RuleIds \cup {Blank})]
    <3>1. old.rule_id \in RuleIds \cup {Blank} /\ rule.rule_id \in RuleIds \cup {Blank}
      BY <2>3, <2>5 DEF StoredRule, Rule
    <3> QED
      BY <1>0, <2>4, <3>1 DEF TypeOK
  <2>9. edits' \in 0 .. MaxEdits
    BY <1>0, <1>2, StoreAssumption DEF Edit, TypeOK
  <2> QED
    BY <1>0, <1>2, <2>7, <2>8, <2>9, PageStep DEF Edit, TypeOK
<1>3. ASSUME NEW s \in Sessions, NEW keeps \in BOOLEAN, Rerun(s, keeps) PROVE StoreInv'
  <2>1. Rendered(form[s], file, keeps) \in Content
    BY <1>0, RenderedType DEF TypeOK
  <2>2. form' \in [Sessions -> Content] /\ UNCHANGED page
    BY <1>0, <1>3, <2>1 DEF Rerun, TypeOK
  <2> QED
    BY <1>0, <1>3, <2>2, PageStep DEF Rerun, TypeOK, boundVars
<1>4. ASSUME NEW s \in Sessions, NEW keeps \in BOOLEAN, ClickSave(s, keeps) PROVE StoreInv'
  <2>1. Rendered(form[s], file, keeps) \in Content /\ PageLoad(file) \in Content
    BY <1>0, RenderedType, ContentFields DEF TypeOK, PageLoad
  <2>2. /\ page' = [page EXCEPT ![s] = "saving"]
        /\ form' \in [Sessions -> Content] /\ before' \in [Sessions -> Content]
    BY <1>0, <1>4, <2>1 DEF ClickSave, TypeOK
  <2> QED
    BY <1>0, <1>4, <2>2, PageStep DEF ClickSave, TypeOK, boundVars
<1>5. ASSUME NEW s \in Sessions, FailWrite(s) PROVE StoreInv'
  <2>1. failures' \in 0 .. MaxFailures
    BY <1>0, <1>5, StoreAssumption DEF FailWrite, TypeOK
  <2> QED
    BY <1>0, <1>5, <2>1, PageStep DEF FailWrite, TypeOK
<1>6. ASSUME NEW s \in Sessions, Truncate(s) \/ Write(s) PROVE StoreInv'
  <2>1. /\ page' = [page EXCEPT ![s] = "writing"] \/ page' = [page EXCEPT ![s] = "written"]
        /\ UNCHANGED << loaded, form, before, parsed, runnerVars, boundVars >>
    BY <1>6 DEF Truncate, Write
  <2>2. /\ versions \subseteq versions' /\ versions' \subseteq Content
        /\ file' \in versions' \cup {Empty}
        /\ edited' \in [Sessions -> SUBSET (RuleIds \cup {Blank})]
    BY <1>0, <1>6 DEF Truncate, Write, TypeOK
  <2>3. \A t \in Sessions : page'[t] \in {"read", "assigned"} => page[t] \in {"read", "assigned"}
    BY <1>0, <2>1 DEF TypeOK
  <2>4. TypeOK'
    BY <1>0, <2>1, <2>2 DEF TypeOK, runnerVars, boundVars
  <2>5. FileWhole' /\ LoadedWhole'
    BY <2>1, <2>2 DEF StoreInv, FileWhole, LoadedWhole
  <2>6. ParsedWhole'
    BY <2>1, <2>2, <2>3 DEF StoreInv, ParsedWhole
  <2>7. HeldCurrent' /\ ReadHeld'
    BY <2>1 DEF StoreInv, HeldCurrent, ReadHeld, runnerVars
  <2> QED
    BY <2>4, <2>5, <2>6, <2>7 DEF StoreInv
<1>7. ASSUME NEW s \in Sessions, ReadBack(s) PROVE StoreInv'
  <2>1. UNCHANGED << fileVars, loaded, form, edited, before, runnerVars, boundVars >>
    BY <1>7 DEF ReadBack
  <2>2. \/ page' = [page EXCEPT ![s] = "open"] /\ UNCHANGED parsed
        \/ /\ page' = [page EXCEPT ![s] = "read"]
           /\ parsed' = [parsed EXCEPT ![s] = LoadRules(file)]
           /\ file # Empty /\ loaded # NotLoaded
    BY <1>7 DEF ReadBack
  <2>3. TypeOK'
    <3>1. file # Empty => LoadRules(file) \in Content
      BY <1>0, LoadRulesType DEF TypeOK
    <3>2. parsed' \in [Sessions -> Content]
      BY <1>0, <2>2, <3>1 DEF TypeOK
    <3>3. page' \in [Sessions -> {"closed", "open", "saving", "writing", "written",
                                  "read", "assigned"}]
      BY <1>0, <2>2 DEF TypeOK
    <3> QED
      BY <1>0, <2>1, <3>2, <3>3 DEF TypeOK, fileVars, runnerVars, boundVars
  <2>4. FileWhole' /\ LoadedWhole' /\ HeldCurrent' /\ ReadHeld'
    BY <2>1 DEF StoreInv, FileWhole, LoadedWhole, HeldCurrent, ReadHeld, fileVars, runnerVars
  <2>5. ParsedWhole'
    BY <1>0, <2>1, <2>2 DEF StoreInv, ParsedWhole, FileWhole, TypeOK, fileVars
  <2> QED
    BY <2>3, <2>4, <2>5 DEF StoreInv
<1>8. ASSUME NEW s \in Sessions, AssignOverrides(s) \/ AssignDefaults(s) PROVE StoreInv'
  <2>1. CASE AssignOverrides(s)
    BY <2>1, AssignStep DEF AssignOverrides
  <2>2. CASE AssignDefaults(s)
    BY <2>2, AssignStep DEF AssignDefaults
  <2> QED
    BY <1>8, <2>1, <2>2
<1>9. CASE Import
  <2>1. /\ loaded = NotLoaded /\ file \in versions /\ loaded' = LoadRules(file)
        /\ UNCHANGED << fileVars, pageVars, runnerVars, boundVars >>
    BY <1>9 DEF Import, StoreInv, FileWhole
  <2>2. LoadRules(file) \in Content
    BY <1>0, <2>1, LoadRulesType DEF TypeOK
  <2>3. TypeOK'
    BY <1>0, <2>1, <2>2 DEF TypeOK, fileVars, pageVars, runnerVars, boundVars
  <2>4. FileWhole' /\ LoadedWhole'
    BY <2>1 DEF StoreInv, FileWhole, LoadedWhole, LoadRules, fileVars
  <2>5. ParsedWhole' /\ HeldCurrent' /\ ReadHeld'
    BY <2>1 DEF StoreInv, ParsedWhole, HeldCurrent, ReadHeld, fileVars, pageVars, runnerVars
  <2> QED
    BY <2>3, <2>4, <2>5 DEF StoreInv
<1>10. CASE Restart
  <2>1. /\ loaded' = NotLoaded /\ page' = [s \in Sessions |-> "closed"]
        /\ runner' = [r \in Runners |-> "idle"] /\ failures' \in 0 .. MaxFailures
        /\ UNCHANGED << fileVars, form, edited, before, parsed, question, reads, held, edits >>
    BY <1>0, <1>10, StoreAssumption DEF Restart, TypeOK
  <2>2. TypeOK'
    BY <1>0, <2>1 DEF TypeOK, fileVars
  <2>3. FileWhole' /\ LoadedWhole' /\ ParsedWhole'
    BY <2>1 DEF StoreInv, FileWhole, LoadedWhole, ParsedWhole, fileVars
  <2>4. HeldCurrent' /\ ReadHeld'
    BY <2>1 DEF HeldCurrent, ReadHeld, Active
  <2> QED
    BY <2>2, <2>3, <2>4 DEF StoreInv
<1>11. ASSUME NEW r \in Runners, Ask(r) PROVE StoreInv'
  <2>1. /\ loaded # NotLoaded /\ question' \in [Runners -> Cases]
        /\ runner' = [runner EXCEPT ![r] = "fund_defect"]
        /\ reads' = [reads EXCEPT ![r] = << >>] /\ held' = [held EXCEPT ![r] = {loaded}]
        /\ UNCHANGED << fileVars, loaded, pageVars, boundVars >>
    BY <1>0, <1>11 DEF Ask, TypeOK
  <2>2. TypeOK'
    <3>1. << >> \in Seq(Seq(StoredRule))
      BY EmptySeq
    <3>2. reads' \in [Runners -> Seq(Seq(StoredRule))] /\ held' \in [Runners -> SUBSET Content]
      BY <1>0, <2>1, <3>1 DEF TypeOK
    <3>3. runner' \in [Runners -> {"idle", "fund_defect", "fund_only", "defect_only",
                                   "defaults", "done"}]
      BY <1>0, <2>1 DEF TypeOK
    <3> QED
      BY <1>0, <2>1, <3>2, <3>3 DEF TypeOK, fileVars, pageVars, boundVars
  <2>3. FileWhole' /\ LoadedWhole' /\ ParsedWhole'
    BY <2>1 DEF StoreInv, FileWhole, LoadedWhole, ParsedWhole, fileVars, pageVars
  <2>4. HeldCurrent' /\ ReadHeld'
    BY <1>0, <2>1 DEF StoreInv, HeldCurrent, ReadHeld, Seen, TypeOK
  <2> QED
    BY <2>2, <2>3, <2>4 DEF StoreInv
<1>12. ASSUME NEW r \in Runners,
              FundDefect(r) \/ FundOnly(r) \/ DefectOnly(r) \/ Default(r)
       PROVE  StoreInv'
  <2> USE DEF Active
  <2>1. CASE FundDefect(r)
    BY <2>1, LookUpStep DEF FundDefect
  <2>2. CASE FundOnly(r)
    BY <2>2, LookUpStep DEF FundOnly
  <2>3. CASE DefectOnly(r)
    BY <2>3, LookUpStep DEF DefectOnly
  <2>4. CASE Default(r)
    BY <2>4, LookUpStep DEF Default
  <2> QED
    BY <1>12, <2>1, <2>2, <2>3, <2>4
<1>13. CASE UNCHANGED vars
  BY <1>13 DEF StoreInv, TypeOK, FileWhole, LoadedWhole, ParsedWhole, HeldCurrent, ReadHeld,
     vars, fileVars, pageVars, runnerVars, boundVars
<1> QED
  BY <1>1, <1>2, <1>3, <1>4, <1>5, <1>6, <1>7, <1>8, <1>9, <1>10, <1>11, <1>12, <1>13 DEF Next

LEMMA StoreInvariant == Spec => []StoreInv
<1>1. Init => StoreInv
  BY InitStoreInv
<1>2. StoreInv /\ [Next]_vars => StoreInv'
  BY NextStoreInv
<1> QED
  BY <1>1, <1>2, PTL DEF Spec

(* The state keeps its types through every interleaving of saves, restarts *)
(* and look-ups: what is loaded or shown is always a pair of rule lists.   *)
THEOREM StoreTypeCorrect == Spec => []TypeOK
<1>1. StoreInv => TypeOK
  BY DEF StoreInv
<1> QED
  BY <1>1, StoreInvariant, PTL

(* A file that is being rewritten never reaches the rules in memory,       *)
(* however many sessions save.                                             *)
THEOREM NeverLoadedTorn == Spec => []LoadedWhole
<1>1. StoreInv => LoadedWhole
  BY DEF StoreInv
<1> QED
  BY <1>1, StoreInvariant, PTL

(* While the rules do not change, the four look-ups of apply_policy give   *)
(* the action of the most specific matching rule.                          *)
THEOREM UndisturbedDecisionsCorrect == Spec => []UndisturbedDecisions
<1>1. StoreInv => UndisturbedDecisions
  <2> SUFFICES ASSUME StoreInv, NEW r \in Runners, NEW h \in held[r],
                      runner[r] = "done", held[r] = {h}
               PROVE  FollowsPrecedence(h.overrides, h.defaults, question[r].verdict,
                                        question[r].fund, Result(r))
    BY DEF UndisturbedDecisions
  <2> DEFINE v == question[r].verdict
             fund == question[r].fund
             o == h.overrides
             d == h.defaults
  <2>1. v \in Verdict /\ fund \in Funds \cup {Blank} /\ Missing \notin Funds \cup {Blank}
    BY StoreAssumption DEF StoreInv, TypeOK
  <2>2. o \in Seq(StoredRule) /\ d \in Seq(StoredRule)
    BY ContentFields DEF StoreInv, TypeOK
  <2>3. reads[r] = << o, o, o, d >>
    BY DEF StoreInv, ReadHeld, Seen
  <2>4. Result(r) = ApplyPolicyTo(o, o, o, d, v, fund)
    BY <2>3 DEF Result
  <2> HIDE DEF v, fund, o, d
  <2>5. FollowsPrecedence(o, d, v, fund, ApplyPolicy(o, d, v, fund))
    BY <2>1, <2>2, PolicyFollowsPrecedence DEF StoredRule
  <2> QED
    BY <2>4, <2>5 DEF ApplyPolicy, v, fund, o, d
<1> QED
  BY <1>1, StoreInvariant, PTL

-----------------------------------------------------------------------------
(***************************************************************************)
(* One session.  (Of two, the one that read the file first may assign      *)
(* last.)  Between its save and the two assignments the rules in memory    *)
(* are behind the file by as much as its page says.                        *)
(***************************************************************************)

Behind(s) ==
  /\ page[s] \in {"closed", "open", "saving"} =>
       (loaded # NotLoaded /\ file # Empty => loaded = LoadRules(file))
  /\ page[s] = "writing" => file = Empty
  /\ page[s] \in {"read", "assigned"} => file # Empty /\ parsed[s] = LoadRules(file)
  /\ page[s] = "assigned" => loaded.overrides = LoadRules(file).overrides

LEMMA NextBehind ==
  ASSUME NEW s, Sessions = {s}, StoreInv, Behind(s), [Next]_vars
  PROVE  Behind(s)'
<1>0. TypeOK
  BY DEF StoreInv
<1>1. CASE OpenPage(s)
  BY <1>0, <1>1 DEF OpenPage, Behind, TypeOK, fileVars
<1>2. ASSUME NEW keeps \in BOOLEAN, NEW list \in {"overrides", "defaults"},
             NEW i \in 1 .. Len(form[s][list]), Edit(s, list, i, keeps)
      PROVE  Behind(s)'
  BY <1>2 DEF Edit, Behind, fileVars
<1>3. ASSUME NEW keeps \in BOOLEAN, Rerun(s, keeps) \/ ClickSave(s, keeps) PROVE Behind(s)'
  BY <1>0, <1>3 DEF Rerun, ClickSave, Behind, TypeOK, fileVars
<1>4. CASE Truncate(s) \/ Write(s) \/ FailWrite(s)
  BY <1>0, <1>4 DEF Truncate, Write, FailWrite, Behind, TypeOK, fileVars
<1>5. CASE ReadBack(s)
  BY <1>0, <1>5 DEF ReadBack, Behind, TypeOK, fileVars
<1>6. CASE AssignOverrides(s)
  <2>1. page[s] = "read" /\ loaded # NotLoaded
    BY <1>6 DEF AssignOverrides, Assign, StoreInv, ParsedWhole
  <2>2. loaded \in Content
    BY <1>0, <2>1 DEF TypeOK
  <2>3. loaded' = [loaded EXCEPT !.overrides = parsed[s].overrides]
    BY <1>6 DEF AssignOverrides, Assign
  <2>4. loaded'.overrides = parsed[s].overrides
    BY <2>2, <2>3 DEF Content
  <2> QED
    BY <1>0, <1>6, <2>1, <2>4 DEF AssignOverrides, Assign, Behind, TypeOK, fileVars
<1>7. CASE AssignDefaults(s)
  <2>1. page[s] = "assigned" /\ loaded # NotLoaded
    BY <1>7 DEF AssignDefaults, Assign, StoreInv, ParsedWhole
  <2>2. loaded \in Content /\ parsed[s] \in Content
    BY <1>0, <2>1 DEF TypeOK
  <2>3. loaded' = [loaded EXCEPT !.defaults = parsed[s].defaults]
    BY <1>7 DEF AssignDefaults, Assign
  <2>4. loaded.overrides = parsed[s].overrides
    BY <2>1 DEF Behind
  <2>5. loaded' = parsed[s]
    <3>1. loaded' = [overrides |-> parsed[s].overrides, defaults |-> parsed[s].defaults]
      BY <2>2, <2>3, <2>4 DEF Content
    <3> QED
      BY <2>2, <3>1, ContentFields
  <2> QED
    BY <1>0, <1>7, <2>1, <2>5 DEF AssignDefaults, Assign, Behind, TypeOK, fileVars
<1>8. CASE Import
  <2>1. /\ loaded = NotLoaded /\ loaded' = LoadRules(file) /\ file # Empty
        /\ UNCHANGED << fileVars, pageVars >>
    BY <1>8 DEF Import
  <2>2. page[s] \notin {"read", "assigned"}
    BY <2>1 DEF StoreInv, ParsedWhole
  <2> QED
    BY <2>1, <2>2 DEF Behind, fileVars, pageVars
<1>9. CASE Restart
  BY <1>0, <1>9 DEF Restart, Behind, TypeOK, fileVars
<1>10. ASSUME NEW r \in Runners,
              Ask(r) \/ FundDefect(r) \/ FundOnly(r) \/ DefectOnly(r) \/ Default(r)
       PROVE  Behind(s)'
  BY <1>10 DEF Ask, FundDefect, FundOnly, DefectOnly, Default, LookUp, Behind, fileVars, pageVars
<1>11. CASE UNCHANGED vars
  BY <1>11 DEF Behind, vars, fileVars, pageVars
<1> QED
  BY <1>1, <1>2, <1>3, <1>4, <1>5, <1>6, <1>7, <1>8, <1>9, <1>10, <1>11 DEF Next

\* "Reload in the policies module so the change takes effect"
\* (4_Configuration.py:240-247): with one session on the page, whenever no
\* save is under way the rules in memory are those of the file, whatever
\* failed or was restarted before, for every rule file and any number of
\* threads that resolve verdicts meanwhile.
THEOREM ChangeAlwaysTakesEffect ==
  ASSUME NEW s, Sessions = {s}
  PROVE  Spec => []ChangeTakesEffect
<1>1. Init => Behind(s)
  BY DEF Init, Behind
<1>2. StoreInv /\ Behind(s) /\ [Next]_vars => Behind(s)'
  BY NextBehind
<1>3. Behind(s) => ChangeTakesEffect
  BY DEF Behind, ChangeTakesEffect
<1> QED
  BY <1>1, <1>2, <1>3, StoreInvariant, PTL DEF Spec

-----------------------------------------------------------------------------
(***************************************************************************)
(* What a save changes.                                                    *)
(***************************************************************************)

(* Two lists of rules that differ in rules named in E alone.               *)
SameBut(old, new, E) ==
  /\ DOMAIN old = DOMAIN new
  /\ \A i \in DOMAIN old : old[i] = new[i] \/ {old[i].rule_id, new[i].rule_id} \subseteq E

LEMMA FirstMatchOf ==
  ASSUME NEW rules \in Seq(StoredRule), NEW v, NEW fund,
         NEW d, d = FirstMatch(rules, v, fund)
  PROVE  /\ d = 0 <=> \A i \in DOMAIN rules : ~Matches(rules[i], v, fund)
         /\ d # 0 => /\ d \in DOMAIN rules /\ Matches(rules[d], v, fund)
                     /\ \A i \in DOMAIN rules : Matches(rules[i], v, fund) => d <= i
<1> DEFINE I == {i \in 1 .. Len(rules) : Matches(rules[i], v, fund)}
<1>1. Len(rules) \in Nat /\ DOMAIN rules = 1 .. Len(rules)
  BY LenProperties
<1>2. d = IF I # {} THEN Min(I) ELSE 0
  BY DEF FirstMatch, SelectInSeq
<1>3. d = 0 <=> I = {}
  BY <1>1, <1>2, FirstOf
<1>4. d # 0 => d \in I /\ \A i \in I : d <= i
  BY <1>1, <1>2, FirstOf
<1> QED
  BY <1>1, <1>3, <1>4

(* If the two lists decide differently, a rule named in E decided before   *)
(* or decides now.                                                         *)
LEMMA OnlyTheEditedDecide ==
  ASSUME NEW o \in Seq(StoredRule), NEW p \in Seq(StoredRule),
         NEW d \in Seq(StoredRule), NEW e \in Seq(StoredRule),
         NEW E, SameBut(o, p, E), SameBut(d, e, E),
         NEW v \in Verdict, NEW fund \in Funds,
         NEW a, a = ApplyPolicy(o, d, v, fund), NEW b, b = ApplyPolicy(p, e, v, fund),
         a.rule_matched \notin E, b.rule_matched \notin E
  PROVE  a = b
<1>1. FollowsPrecedence(o, d, v, fund, a) /\ FollowsPrecedence(p, e, v, fund, b)
  <2>1. Missing \notin Funds \cup {Blank} /\ fund \in Funds \cup {Blank}
    BY StoreAssumption
  <2> QED
    BY <2>1, PolicyFollowsPrecedence DEF StoredRule
<1> DEFINE C(q) == Contenders(q, v, fund)
           ByOverride(q, i, x) ==
             i \in C(q) /\ Prevails(q, i, v, fund) /\ x = Resolve(q[i].action, q[i].rule_id, v)
           ByDefault(q, x) ==
             LET k == FirstMatch(q, v, fund)
             IN  x = IF k = 0 THEN Fallback(v) ELSE Resolve(q[k].action, q[k].rule_id, v)
<1>2. \A x, id : Resolve(x, id, v).rule_matched = id
  BY DEF Resolve
<1>3. \/ \E i \in C(o) : ByOverride(o, i, a)
      \/ C(o) = {} /\ ByDefault(d, a)
  BY <1>1 DEF FollowsPrecedence
<1>4. \/ \E j \in C(p) : ByOverride(p, j, b)
      \/ C(p) = {} /\ ByDefault(e, b)
  BY <1>1 DEF FollowsPrecedence
<1>5. ASSUME NEW i \in C(o), ByOverride(o, i, a) PROVE i \in C(p) /\ o[i] = p[i]
  <2>1. o[i].rule_id = a.rule_matched
    BY <1>2, <1>5
  <2>2. i \in DOMAIN o /\ o[i] = p[i]
    BY <2>1 DEF SameBut, Contenders
  <2> QED
    BY <2>2 DEF SameBut, Contenders
<1>6. ASSUME NEW j \in C(p), ByOverride(p, j, b) PROVE j \in C(o) /\ o[j] = p[j]
  <2>1. p[j].rule_id = b.rule_matched
    BY <1>2, <1>6
  <2>2. j \in DOMAIN p /\ o[j] = p[j]
    BY <2>1 DEF SameBut, Contenders
  <2> QED
    BY <2>2 DEF SameBut, Contenders
<1>7. ASSUME NEW i \in C(o), ByOverride(o, i, a), NEW j \in C(p), ByOverride(p, j, b) PROVE a = b
  <2>1. i \in C(p) /\ j \in C(o) /\ o[i] = p[i] /\ o[j] = p[j]
    BY <1>5, <1>6, <1>7
  <2>2. i \in Nat /\ j \in Nat
    BY LenProperties DEF Contenders
  <2>3. Specificity(o[i]) \in Nat /\ Specificity(o[j]) \in Nat
    BY DEF Specificity
  <2>4. \/ Specificity(o[i]) > Specificity(o[j])
        \/ Specificity(o[i]) = Specificity(o[j]) /\ i <= j
    BY <1>7, <2>1 DEF Prevails
  <2>5. \/ Specificity(o[j]) > Specificity(o[i])
        \/ Specificity(o[j]) = Specificity(o[i]) /\ j <= i
    BY <1>7, <2>1 DEF Prevails
  <2>6. i = j
    BY <2>2, <2>3, <2>4, <2>5
  <2> QED
    BY <1>7, <2>1, <2>6
<1>8. ASSUME C(o) = {}, C(p) = {}, ByDefault(d, a), ByDefault(e, b) PROVE a = b
  <2>1. PICK k, l : k = FirstMatch(d, v, fund) /\ l = FirstMatch(e, v, fund)
    OBVIOUS
  <2>2. /\ a = IF k = 0 THEN Fallback(v) ELSE Resolve(d[k].action, d[k].rule_id, v)
        /\ b = IF l = 0 THEN Fallback(v) ELSE Resolve(e[l].action, e[l].rule_id, v)
    BY <1>8, <2>1
  <2>3. /\ k = 0 <=> \A i \in DOMAIN d : ~Matches(d[i], v, fund)
        /\ k # 0 => /\ k \in DOMAIN d /\ Matches(d[k], v, fund)
                    /\ \A i \in DOMAIN d : Matches(d[i], v, fund) => k <= i
    BY <2>1, FirstMatchOf
  <2>4. /\ l = 0 <=> \A i \in DOMAIN e : ~Matches(e[i], v, fund)
        /\ l # 0 => /\ l \in DOMAIN e /\ Matches(e[l], v, fund)
                    /\ \A i \in DOMAIN e : Matches(e[i], v, fund) => l <= i
    BY <2>1, FirstMatchOf
  <2>5. k # 0 => k \in DOMAIN e /\ d[k] = e[k] /\ l # 0 /\ l <= k
    <3> SUFFICES ASSUME k # 0 PROVE k \in DOMAIN e /\ d[k] = e[k] /\ l # 0 /\ l <= k
      OBVIOUS
    <3>1. d[k].rule_id \notin E /\ k \in DOMAIN d
      BY <1>2, <2>2, <2>3
    <3>2. k \in DOMAIN e /\ d[k] = e[k]
      BY <3>1 DEF SameBut
    <3> QED
      BY <2>3, <2>4, <3>2
  <2>6. l # 0 => l \in DOMAIN d /\ d[l] = e[l] /\ k # 0 /\ k <= l
    <3> SUFFICES ASSUME l # 0 PROVE l \in DOMAIN d /\ d[l] = e[l] /\ k # 0 /\ k <= l
      OBVIOUS
    <3>1. e[l].rule_id \notin E /\ l \in DOMAIN e
      BY <1>2, <2>2, <2>4
    <3>2. l \in DOMAIN d /\ d[l] = e[l]
      BY <3>1 DEF SameBut
    <3> QED
      BY <2>3, <2>4, <3>2
  <2>7. k # 0 => k = l
    <3>1. DOMAIN d = 1 .. Len(d) /\ DOMAIN e = 1 .. Len(e) /\ Len(d) \in Nat /\ Len(e) \in Nat
      BY LenProperties
    <3> QED
      BY <2>5, <2>6, <3>1
  <2> QED
    BY <2>2, <2>5, <2>6, <2>7
<1> HIDE DEF C, ByOverride, ByDefault
<1> QED
  BY <1>3, <1>4, <1>5, <1>6, <1>7, <1>8

(* The rules of a file as the page shows them.                             *)
Stored(content) == [overrides |-> FormOverrides(content), defaults |-> FormDefaults(content)]

(* A file whose overrides the page shows as they are.                      *)
Clean(content) == FormOverrides(content) = content.overrides

(* A row of the page that is not the stored rule was edited.               *)
RowsEdited(rows, stored, E) ==
  \A i \in DOMAIN rows \cap DOMAIN stored :
    stored[i] = rows[i] \/ {stored[i].rule_id, rows[i].rule_id} \subseteq E

(* What the user changed since the last save is in edited, for each of the *)
(* rules that the page shows.                                              *)
Tracked(s) ==
  /\ file # Empty => Clean(file)
  /\ Stored(form[s]) = form[s]
  /\ page[s] = "open" =>
       \A list \in {"overrides", "defaults"} :
         RowsEdited(form[s][list], Stored(PageLoad(file))[list], edited[s])
  /\ page[s] \in {"saving", "writing"} =>
       /\ Clean(before[s])
       /\ \A list \in {"overrides", "defaults"} :
            SameBut(Stored(before[s])[list], form[s][list], edited[s])
  /\ page[s] \in {"written", "read", "assigned"} => file = form[s]

(* The page shows a rule of its own as it is.                              *)
LEMMA ShownTwice ==
  /\ \A r \in StoredRule : FormOverride(FormOverride(r)) = FormOverride(r)
  /\ \A r \in StoredRule : FormDefault(FormDefault(r)) = FormDefault(r)
<1>1. Missing \notin PageDefects /\ Blank # Missing
  BY StoreAssumption, PolicyAssumption
<1>2. ASSUME NEW r \in StoredRule PROVE FormOverride(FormOverride(r)) = FormOverride(r)
  BY <1>1 DEF FormOverride, StoredRule, Rule
<1>3. ASSUME NEW r \in StoredRule PROVE FormDefault(FormDefault(r)) = FormDefault(r)
  BY DEF FormDefault, WithoutFund, StoredRule, Rule
<1> QED
  BY <1>2, <1>3

LEMMA StoredFields ==
  ASSUME NEW c \in Content
  PROVE  /\ Stored(c) \in Content
         /\ DOMAIN Stored(c).overrides = DOMAIN c.overrides
         /\ DOMAIN Stored(c).defaults = DOMAIN c.defaults
         /\ \A i \in DOMAIN c.overrides : Stored(c).overrides[i] = FormOverride(c.overrides[i])
         /\ \A i \in DOMAIN c.defaults : Stored(c).defaults[i] = FormDefault(c.defaults[i])
<1>1. c.overrides \in Seq(StoredRule) /\ c.defaults \in Seq(StoredRule)
  BY ContentFields
<1>2. FormOverrides(c) \in Seq(StoredRule)
  <2>1. \A rule \in StoredRule : FormOverride(rule) \in StoredRule
    BY DEF FormOverride, StoredRule, Rule
  <2> QED
    BY <1>1, <2>1, MapIsSeq DEF FormOverrides
<1>3. FormDefaults(c) \in Seq(StoredRule)
  <2>1. \A rule \in StoredRule : FormDefault(rule) \in StoredRule
    BY DEF FormDefault, WithoutFund, StoredRule, Rule
  <2> QED
    BY <1>1, <2>1, MapIsSeq DEF FormDefaults
<1>4. Stored(c) \in Content
  BY <1>2, <1>3, ContentFields DEF Stored
<1> QED
  BY <1>4 DEF Stored, FormOverrides, FormDefaults

(* Rules all of which the page shows as they are.                          *)
LEMMA ShownAsIs ==
  ASSUME NEW c \in Content,
         \A i \in DOMAIN c.overrides : FormOverride(c.overrides[i]) = c.overrides[i],
         \A i \in DOMAIN c.defaults : FormDefault(c.defaults[i]) = c.defaults[i]
  PROVE  Stored(c) = c
<1>1. /\ c = [overrides |-> c.overrides, defaults |-> c.defaults]
      /\ c.overrides \in Seq(StoredRule) /\ c.defaults \in Seq(StoredRule)
  BY ContentFields
<1>2. FormOverrides(c) = [i \in DOMAIN c.overrides |-> c.overrides[i]]
      /\ FormDefaults(c) = [i \in DOMAIN c.defaults |-> c.defaults[i]]
  BY DEF FormOverrides, FormDefaults
<1>3. \A q \in Seq(StoredRule) : [i \in DOMAIN q |-> q[i]] = q
  BY LenProperties
<1>4. FormOverrides(c) = c.overrides /\ FormDefaults(c) = c.defaults
  BY <1>1, <1>2, <1>3
<1> QED
  BY <1>1, <1>4 DEF Stored

LEMMA ShownIsEach ==
  ASSUME NEW c \in Content, Stored(c) = c
  PROVE  /\ \A i \in DOMAIN c.overrides : FormOverride(c.overrides[i]) = c.overrides[i]
         /\ \A i \in DOMAIN c.defaults : FormDefault(c.defaults[i]) = c.defaults[i]
         /\ Clean(c)
<1>1. Clean(c)
  BY DEF Stored, Clean
<1> QED
  BY <1>1, StoredFields

LEMMA StoredShown ==
  ASSUME NEW c \in Content
  PROVE  Stored(Stored(c)) = Stored(c)
<1>1. PICK d : d = Stored(c)
  OBVIOUS
<1>2. d \in Content
  BY <1>1, StoredFields
<1>3. \A i \in DOMAIN c.overrides : c.overrides[i] \in StoredRule
  BY ContentFields, LenProperties
<1>4. \A i \in DOMAIN c.defaults : c.defaults[i] \in StoredRule
  BY ContentFields, LenProperties
<1>5. \A i \in DOMAIN d.overrides : FormOverride(d.overrides[i]) = d.overrides[i]
  BY <1>1, <1>3, StoredFields, ShownTwice
<1>6. \A i \in DOMAIN d.defaults : FormDefault(d.defaults[i]) = d.defaults[i]
  BY <1>1, <1>4, StoredFields, ShownTwice
<1> QED
  BY <1>1, <1>2, <1>5, <1>6, ShownAsIs

(* A run of the script: each row is one that was shown or the stored one.  *)
IsRerun(new, shown, content) ==
  /\ new \in Content /\ Stored(new) = new
  /\ \A list \in {"overrides", "defaults"} :
       /\ DOMAIN new[list] = DOMAIN Stored(PageLoad(content))[list]
       /\ \A i \in DOMAIN new[list] :
            \/ new[list][i] = Stored(PageLoad(content))[list][i]
            \/ i \in DOMAIN shown[list] /\ new[list][i] = shown[list][i]

LEMMA RenderedRows ==
  ASSUME NEW shown \in Content, Stored(shown) = shown,
         NEW content \in Content \cup {Empty}, NEW keeps \in BOOLEAN
  PROVE  IsRerun(Rendered(shown, content, keeps), shown, content)
<1>0. PICK new : new = Rendered(shown, content, keeps)
  OBVIOUS
<1>1. PICK c : c = PageLoad(content)
  OBVIOUS
<1>2. c \in Content
  BY <1>1, ContentFields DEF PageLoad
<1>3. PICK d : d = Stored(c)
  OBVIOUS
<1>4. d \in Content /\ Stored(d) = d /\ new \in Content
  BY <1>0, <1>2, <1>3, StoredFields, StoredShown, RenderedType
<1>5. /\ new = [overrides |-> Rows(shown.overrides, d.overrides, keeps),
                defaults |-> Rows(shown.defaults, d.defaults, keeps)]
  BY <1>0, <1>1, <1>3 DEF Rendered, Stored
<1>6. /\ new.overrides = Rows(shown.overrides, d.overrides, keeps)
      /\ new.defaults = Rows(shown.defaults, d.defaults, keeps)
  BY <1>5
<1>7. ASSUME NEW list \in {"overrides", "defaults"}
      PROVE  /\ DOMAIN new[list] = DOMAIN d[list]
             /\ \A i \in DOMAIN new[list] :
                  \/ new[list][i] = d[list][i]
                  \/ i \in DOMAIN shown[list] /\ new[list][i] = shown[list][i]
  BY <1>6 DEF Rows
<1>8. \A i \in DOMAIN new.overrides : FormOverride(new.overrides[i]) = new.overrides[i]
  <2>1. \A i \in DOMAIN d.overrides : FormOverride(d.overrides[i]) = d.overrides[i]
    BY <1>4, ShownIsEach
  <2>2. \A i \in DOMAIN shown.overrides : FormOverride(shown.overrides[i]) = shown.overrides[i]
    BY ShownIsEach
  <2> QED
    BY <1>7, <2>1, <2>2
<1>9. \A i \in DOMAIN new.defaults : FormDefault(new.defaults[i]) = new.defaults[i]
  <2>1. \A i \in DOMAIN d.defaults : FormDefault(d.defaults[i]) = d.defaults[i]
    BY <1>4, ShownIsEach
  <2>2. \A i \in DOMAIN shown.defaults : FormDefault(shown.defaults[i]) = shown.defaults[i]
    BY ShownIsEach
  <2> QED
    BY <1>7, <2>1, <2>2
<1>10. Stored(new) = new
  BY <1>4, <1>8, <1>9, ShownAsIs
<1> QED
  BY <1>0, <1>1, <1>3, <1>4, <1>7, <1>10 DEF IsRerun

LEMMA RenderedKeepsTrack ==
  ASSUME NEW s \in Sessions, TypeOK, Tracked(s), page[s] = "open", NEW keeps \in BOOLEAN,
         NEW new, new = Rendered(form[s], file, keeps)
  PROVE  /\ new \in Content /\ Stored(new) = new
         /\ \A list \in {"overrides", "defaults"} :
              /\ DOMAIN new[list] = DOMAIN Stored(PageLoad(file))[list]
              /\ RowsEdited(new[list], Stored(PageLoad(file))[list], edited[s])
<1>1. form[s] \in Content /\ file \in Content \cup {Empty} /\ Stored(form[s]) = form[s]
  BY DEF TypeOK, Tracked
<1>2. PICK d : d = Stored(PageLoad(file))
  OBVIOUS
<1>3. /\ new \in Content /\ Stored(new) = new
      /\ \A list \in {"overrides", "defaults"} :
           /\ DOMAIN new[list] = DOMAIN d[list]
           /\ \A i \in DOMAIN new[list] :
                \/ new[list][i] = d[list][i]
                \/ i \in DOMAIN form[s][list] /\ new[list][i] = form[s][list][i]
  <2>1. IsRerun(new, form[s], file)
    BY <1>1, RenderedRows
  <2> QED
    BY <1>2, <2>1 DEF IsRerun
<1>4. \A list \in {"overrides", "defaults"} : RowsEdited(form[s][list], d[list], edited[s])
  BY <1>2 DEF Tracked
<1>5. \A list \in {"overrides", "defaults"} : RowsEdited(new[list], d[list], edited[s])
  BY <1>3, <1>4 DEF RowsEdited
<1> QED
  BY <1>2, <1>3, <1>5

LEMMA RetouchedShown ==
  ASSUME NEW rule \in StoredRule, NEW r \in StoredRule
  PROVE  /\ FormOverride(rule) = rule /\ r \in Retouched(rule, "overrides") => FormOverride(r) = r
         /\ FormDefault(rule) = rule /\ r \in Retouched(rule, "defaults") => FormDefault(r) = r
<1>1. Missing \notin PageDefects /\ EditedDefects \subseteq PageDefects \cup {Missing}
  BY StoreAssumption, PolicyAssumption
<1>2. ASSUME FormOverride(rule) = rule, r \in Retouched(rule, "overrides")
      PROVE  FormOverride(r) = r
  <2>1. rule.fund_id # Missing /\ rule.defect_type \in PageDefects \cup {Missing}
    BY <1>1, <1>2, StoreAssumption DEF FormOverride, StoredRule, Rule
  <2>2. r.fund_id # Missing /\ r.defect_type \in PageDefects \cup {Missing}
    BY <1>1, <1>2, <2>1 DEF Retouched, StoredRule, Rule
  <2> QED
    BY <2>2 DEF FormOverride, StoredRule, Rule
<1>3. ASSUME FormDefault(rule) = rule, r \in Retouched(rule, "defaults")
      PROVE  FormDefault(r) = r
  <2>1. rule.fund_id = Missing /\ rule.defect_type = Missing
    BY <1>3 DEF FormDefault, WithoutFund, StoredRule, Rule
  <2>2. r.fund_id = Missing /\ r.defect_type = Missing
    BY <1>3, <2>1 DEF Retouched, StoredRule, Rule
  <2> QED
    BY <2>2 DEF FormDefault, WithoutFund, StoredRule, Rule
<1> QED
  BY <1>2, <1>3

LEMMA EditKeepsTrack ==
  ASSUME NEW s \in Sessions, TypeOK, Tracked(s), NEW keeps \in BOOLEAN,
         NEW list \in {"overrides", "defaults"}, NEW i \in 1 .. Len(form[s][list]),
         Edit(s, list, i, keeps)
  PROVE  Tracked(s)'
<1>1. page[s] = "open" /\ form[s] \in Content /\ Stored(form[s]) = form[s]
  BY DEF Edit, TypeOK, Tracked
<1>2. PICK shown : shown = Rendered(form[s], file, keeps)
  OBVIOUS
<1>3. PICK d : d = Stored(PageLoad(file))
  OBVIOUS
<1>4. /\ shown \in Content /\ Stored(shown) = shown
      /\ \A k \in {"overrides", "defaults"} : RowsEdited(shown[k], d[k], edited[s])
  BY <1>1, <1>2, <1>3, RenderedKeepsTrack
<1>5. RowsEdited(form[s][list], d[list], edited[s])
  BY <1>1, <1>3 DEF Tracked
<1>6. PICK old : old = form[s][list][i]
  OBVIOUS
<1>7. /\ i \in DOMAIN form[s][list] /\ i \in DOMAIN shown[list]
      /\ form[s][list] \in Seq(StoredRule) /\ shown[list] \in Seq(StoredRule)
      /\ old \in StoredRule
  <2>1. i \in DOMAIN form[s][list] /\ i \in DOMAIN shown[list]
    BY <1>2 DEF Edit
  <2>2. form[s][list] \in Seq(StoredRule) /\ shown[list] \in Seq(StoredRule)
    BY <1>1, <1>4, ContentFields
  <2> QED
    BY <1>6, <2>1, <2>2, LenProperties
<1>8. PICK rule \in Retouched(old, list) :
        /\ form' = [form EXCEPT ![s] = [shown EXCEPT ![list][i] = rule]]
        /\ edited' = [edited EXCEPT ![s] = @ \cup {old.rule_id, rule.rule_id}]
        /\ UNCHANGED << file, page >>
  BY <1>2, <1>6 DEF Edit, fileVars
<1>9. rule \in StoredRule
  BY <1>7, <1>8, RetouchedType
<1>10. PICK new : new = [shown EXCEPT ![list][i] = rule]
  OBVIOUS
<1>11. PICK E : E = edited[s] \cup {old.rule_id, rule.rule_id}
  OBVIOUS
<1>12. /\ form'[s] = new /\ edited'[s] = E /\ page'[s] = "open" /\ file' = file
  BY <1>1, <1>8, <1>10, <1>11 DEF TypeOK
<1>13. /\ DOMAIN new[list] = DOMAIN shown[list]
       /\ \A j \in DOMAIN new[list] : new[list][j] = IF j = i THEN rule ELSE shown[list][j]
       /\ \A k \in {"overrides", "defaults"} : k # list => new[k] = shown[k]
  <2>1. DOMAIN shown = {"overrides", "defaults"}
    BY <1>4 DEF Content
  <2>2. new = [k \in {"overrides", "defaults"} |->
                 IF k = list THEN [shown[list] EXCEPT ![i] = rule] ELSE shown[k]]
    BY <1>10, <2>1
  <2>3. new[list] = [shown[list] EXCEPT ![i] = rule]
    BY <2>2
  <2>4. \A k \in {"overrides", "defaults"} : k # list => new[k] = shown[k]
    BY <2>2
  <2> QED
    BY <1>7, <2>3, <2>4
<1>14. new \in Content
  <2>1. [shown[list] EXCEPT ![i] = rule] \in Seq(StoredRule)
    BY <1>7, <1>9, ExceptSeq
  <2>2. new = [shown EXCEPT ![list] = [shown[list] EXCEPT ![i] = rule]]
    BY <1>10
  <2>3. PICK q : q = [shown[list] EXCEPT ![i] = rule]
    OBVIOUS
  <2>4. [shown EXCEPT ![list] = q] \in Content
    BY <1>4, <2>1, <2>3 DEF Content
  <2> QED
    BY <2>2, <2>3, <2>4
<1>15. \A k \in {"overrides", "defaults"} : RowsEdited(new[k], d[k], E)
  <2> SUFFICES ASSUME NEW k \in {"overrides", "defaults"}, NEW j \in DOMAIN new[k] \cap DOMAIN d[k]
               PROVE  d[k][j] = new[k][j] \/ {d[k][j].rule_id, new[k][j].rule_id} \subseteq E
    BY DEF RowsEdited
  <2>1. CASE k = list /\ j = i
    <3>1. d[list][i] = old \/ {d[list][i].rule_id, old.rule_id} \subseteq edited[s]
      BY <1>5, <1>6, <1>7, <2>1 DEF RowsEdited
    <3>2. new[list][i] = rule
      BY <1>7, <1>13
    <3> QED
      BY <1>11, <2>1, <3>1, <3>2
  <2>2. CASE k # list \/ j # i
    <3>1. j \in DOMAIN shown[k] /\ new[k][j] = shown[k][j]
      BY <1>13, <2>2
    <3>2. d[k][j] = shown[k][j] \/ {d[k][j].rule_id, shown[k][j].rule_id} \subseteq edited[s]
      BY <1>4, <3>1 DEF RowsEdited
    <3> QED
      BY <1>11, <3>1, <3>2
  <2> QED
    BY <2>1, <2>2
<1>16. Stored(new) = new
  <2>1. /\ \A j \in DOMAIN shown.overrides : FormOverride(shown.overrides[j]) = shown.overrides[j]
        /\ \A j \in DOMAIN shown.defaults : FormDefault(shown.defaults[j]) = shown.defaults[j]
    BY <1>4, ShownIsEach
  <2>2. \A j \in DOMAIN new.overrides : FormOverride(new.overrides[j]) = new.overrides[j]
    <3>1. CASE list = "overrides"
      <4>1. FormOverride(old) = old
        BY <1>1, <1>6, <1>7, <3>1, ShownIsEach
      <4>2. FormOverride(rule) = rule
        BY <1>7, <1>8, <1>9, <3>1, <4>1, RetouchedShown
      <4> QED
        BY <1>13, <2>1, <3>1, <4>2
    <3>2. CASE list # "overrides"
      BY <1>13, <2>1, <3>2
    <3> QED
      BY <3>1, <3>2
  <2>3. \A j \in DOMAIN new.defaults : FormDefault(new.defaults[j]) = new.defaults[j]
    <3>1. CASE list = "defaults"
      <4>1. FormDefault(old) = old
        BY <1>1, <1>6, <1>7, <3>1, ShownIsEach
      <4>2. FormDefault(rule) = rule
        BY <1>7, <1>8, <1>9, <3>1, <4>1, RetouchedShown
      <4> QED
        BY <1>13, <2>1, <3>1, <4>2
    <3>2. CASE list # "defaults"
      BY <1>13, <2>1, <3>2
    <3> QED
      BY <3>1, <3>2
  <2> QED
    BY <1>14, <2>2, <2>3, ShownAsIs
<1> QED
  BY <1>3, <1>12, <1>15, <1>16 DEF Tracked, PageLoad

LEMMA NothingStored ==
  /\ Stored(Nothing) = Nothing
  /\ \A list \in {"overrides", "defaults"} : DOMAIN Stored(Nothing)[list] = {}
  BY DEF Stored, Nothing, FormOverrides, FormDefaults

LEMMA NextTracked ==
  ASSUME NEW s, Sessions = {s}, StoreInv, Behind(s), Tracked(s), [Next]_vars
  PROVE  Tracked(s)'
<1>0. TypeOK
  BY DEF StoreInv
<1>1. CASE OpenPage(s)
  <2>1. /\ page' = [page EXCEPT ![s] = "open"] /\ UNCHANGED file
        /\ form' = [form EXCEPT ![s] = Rendered(Nothing, file, FALSE)]
        /\ page[s] = "closed"
    BY <1>1 DEF OpenPage, fileVars
  <2>2. PICK new : new = Rendered(Nothing, file, FALSE)
    OBVIOUS
  <2>3. form'[s] = new /\ page'[s] = "open"
    BY <1>0, <2>1, <2>2 DEF TypeOK
  <2>4. IsRerun(new, Nothing, file)
    BY <1>0, <2>2, ContentFields, NothingStored, RenderedRows DEF TypeOK
  <2>5. \A list \in {"overrides", "defaults"} : DOMAIN Nothing[list] = {}
    BY DEF Nothing
  <2>6. \A list \in {"overrides", "defaults"} : \A i \in DOMAIN new[list] :
          new[list][i] = Stored(PageLoad(file))[list][i]
    BY <2>4, <2>5 DEF IsRerun
  <2>7. \A list \in {"overrides", "defaults"} :
          RowsEdited(new[list], Stored(PageLoad(file))[list], edited'[s])
    BY <2>6 DEF RowsEdited
  <2> QED
    BY <2>1, <2>3, <2>4, <2>7 DEF Tracked, IsRerun, PageLoad
<1>2. ASSUME NEW keeps \in BOOLEAN, NEW list \in {"overrides", "defaults"},
             NEW i \in 1 .. Len(form[s][list]), Edit(s, list, i, keeps)
      PROVE  Tracked(s)'
  BY <1>0, <1>2, EditKeepsTrack
<1>3. ASSUME NEW keeps \in BOOLEAN, Rerun(s, keeps) \/ ClickSave(s, keeps) PROVE Tracked(s)'
  <2>1. PICK new : new = Rendered(form[s], file, keeps)
    OBVIOUS
  <2>2. PICK d : d = Stored(PageLoad(file))
    OBVIOUS
  <2>3. /\ form' = [form EXCEPT ![s] = new] /\ page[s] = "open"
        /\ UNCHANGED << file, edited >>
    BY <1>3, <2>1 DEF Rerun, ClickSave, fileVars
  <2>4. form'[s] = new /\ edited'[s] = edited[s]
    BY <1>0, <2>3 DEF TypeOK
  <2>5. /\ new \in Content /\ Stored(new) = new
        /\ \A list \in {"overrides", "defaults"} :
             /\ DOMAIN new[list] = DOMAIN d[list]
             /\ RowsEdited(new[list], d[list], edited[s])
    BY <1>0, <2>1, <2>2, <2>3, RenderedKeepsTrack
  <2>6. CASE Rerun(s, keeps)
    BY <2>2, <2>3, <2>4, <2>5, <2>6 DEF Rerun, Tracked, PageLoad
  <2>7. CASE ClickSave(s, keeps)
    <3>1. page'[s] = "saving" /\ before'[s] = PageLoad(file)
      BY <1>0, <2>7 DEF ClickSave, TypeOK
    <3>2. Clean(PageLoad(file))
      BY NothingStored, ContentFields DEF Tracked, PageLoad, Clean, Stored, Nothing
    <3>3. \A list \in {"overrides", "defaults"} : SameBut(d[list], new[list], edited[s])
      BY <2>5 DEF RowsEdited, SameBut
    <3> QED
      BY <2>2, <2>3, <2>4, <2>5, <3>1, <3>2, <3>3 DEF Tracked
  <2> QED
    BY <1>3, <2>6, <2>7
<1>4. CASE Truncate(s)
  <2>1. page'[s] = "writing" /\ file' = Empty /\ page[s] = "saving"
        /\ UNCHANGED << form, before, edited >>
    BY <1>0, <1>4 DEF Truncate, TypeOK
  <2> QED
    BY <2>1 DEF Tracked
<1>5. CASE Write(s)
  <2>1. page'[s] = "written" /\ file' = form[s] /\ form' = form
    BY <1>0, <1>5 DEF Write, TypeOK
  <2>2. Clean(form[s])
    BY <1>0, ShownIsEach DEF Tracked, TypeOK
  <2> QED
    BY <2>1, <2>2 DEF Tracked
<1>6. CASE FailWrite(s)
  <2>1. page'[s] = "open" /\ file' = Empty /\ form' = form
    BY <1>0, <1>6 DEF FailWrite, Behind, TypeOK, fileVars
  <2> QED
    BY <2>1, NothingStored DEF Tracked, RowsEdited, PageLoad
<1>7. CASE ReadBack(s)
  <2>1. file = form[s] /\ file # Empty
    BY <1>0, <1>7, ContentFields DEF ReadBack, Tracked, TypeOK
  <2>2. page'[s] = "read" /\ UNCHANGED << file, form >>
    BY <1>0, <1>7, <2>1 DEF ReadBack, TypeOK, fileVars
  <2> QED
    BY <2>1, <2>2 DEF Tracked
<1>8. CASE AssignOverrides(s)
  BY <1>0, <1>8 DEF AssignOverrides, Assign, Tracked, TypeOK, fileVars
<1>9. CASE AssignDefaults(s)
  <2>1. page'[s] = "open" /\ file = form[s] /\ UNCHANGED << file, form, edited >>
    BY <1>0, <1>9 DEF AssignDefaults, Assign, Tracked, TypeOK, fileVars
  <2>2. PageLoad(file) = form[s]
    BY <1>0, <2>1, ContentFields DEF PageLoad, TypeOK
  <2> QED
    BY <2>1, <2>2 DEF Tracked, RowsEdited, PageLoad
<1>10. CASE Import \/ UNCHANGED vars
  BY <1>10 DEF Import, Tracked, PageLoad, vars, fileVars, pageVars
<1>11. CASE Restart
  <2>1. page'[s] = "closed" /\ UNCHANGED << file, form >>
    BY <1>11 DEF Restart, fileVars
  <2> QED
    BY <2>1 DEF Tracked
<1>12. ASSUME NEW r \in Runners,
              Ask(r) \/ FundDefect(r) \/ FundOnly(r) \/ DefectOnly(r) \/ Default(r)
       PROVE  Tracked(s)'
  BY <1>12 DEF Ask, FundDefect, FundOnly, DefectOnly, Default, LookUp, Tracked, PageLoad,
     fileVars, pageVars
<1> QED
  BY <1>1, <1>2, <1>3, <1>4, <1>5, <1>6, <1>7, <1>8, <1>9, <1>10, <1>11, <1>12 DEF Next

LEMMA SavedDecisions ==
  ASSUME NEW s \in Sessions, TypeOK, Tracked(s), Write(s), NEW c \in Cases,
         NEW a, a = Decision(LoadRules(before[s]), c),
         NEW b, b = Decision(LoadRules(form[s]), c), a # b
  PROVE  {a.rule_matched, b.rule_matched} \cap edited[s] # {}
<1>1. PICK old, new : old = before[s] /\ new = form[s]
  OBVIOUS
<1>2. /\ old \in Content /\ new \in Content /\ Clean(old) /\ Stored(new) = new
      /\ \A list \in {"overrides", "defaults"} : SameBut(Stored(old)[list], new[list], edited[s])
  BY <1>1 DEF Write, Tracked, TypeOK
<1>3. LoadRules(old).overrides = Stored(old).overrides
      /\ LoadRules(old).defaults = Stored(old).defaults
  BY <1>2 DEF LoadRules, Stored, Clean, FormDefaults, FormDefault
<1>4. LoadRules(new).overrides = new.overrides /\ LoadRules(new).defaults = new.defaults
  <2>1. LoadRules(new).defaults = Stored(new).defaults
    BY DEF LoadRules, Stored, FormDefaults, FormDefault
  <2> QED
    BY <1>2, <2>1 DEF LoadRules
<1>5. Stored(old) \in Content
  BY <1>2, StoredFields
<1>6. PICK v, fund : v = c.verdict /\ fund = c.fund
  OBVIOUS
<1>7. v \in Verdict /\ fund \in Funds
  BY <1>6, StoreAssumption
<1>8. PICK o, p, d, e : /\ o = Stored(old).overrides /\ p = new.overrides
                        /\ d = Stored(old).defaults /\ e = new.defaults
  OBVIOUS
<1>9. /\ o \in Seq(StoredRule) /\ p \in Seq(StoredRule)
      /\ d \in Seq(StoredRule) /\ e \in Seq(StoredRule)
  BY <1>2, <1>5, <1>8, ContentFields
<1>10. SameBut(o, p, edited[s]) /\ SameBut(d, e, edited[s])
  BY <1>2, <1>8
<1>11. a = ApplyPolicy(o, d, v, fund) /\ b = ApplyPolicy(p, e, v, fund)
  BY <1>1, <1>3, <1>4, <1>6, <1>8 DEF Decision
<1>12. a.rule_matched \in edited[s] \/ b.rule_matched \in edited[s]
  BY <1>7, <1>9, <1>10, <1>11, OnlyTheEditedDecide
<1> QED
  BY <1>12

\* Saving changes only the decisions that a rule the user edited made before
\* or makes now (4_Configuration.py:118-221), as long as one session saves and
\* the page shows every override of the shipped file as it is, as it does
\* those of config/policies.yaml: each has a fund, and a defect_type of the
\* page's list or none.
THEOREM EditsAlwaysLocal ==
  ASSUME NEW me, Sessions = {me}, Clean(Shipped)
  PROVE  Spec => EditsAreLocal
<1> DEFINE Inv == StoreInv /\ Behind(me) /\ Tracked(me)
           Local == \A s \in Sessions : Write(s) => OnlyEditedDecide(s)
<1>1. Init => Inv
  <2>1. Init => Behind(me)
    BY DEF Init, Behind
  <2>2. Init => Tracked(me)
    BY NothingStored DEF Init, Tracked
  <2> QED
    BY <2>1, <2>2, InitStoreInv
<1>2. Inv /\ [Next]_vars => Inv'
  BY NextStoreInv, NextBehind, NextTracked
<1>3. Inv /\ [Next]_vars => [Local]_vars
  <2> SUFFICES ASSUME Inv, NEW s \in Sessions, Write(s) PROVE OnlyEditedDecide(s)
    OBVIOUS
  <2> QED
    BY SavedDecisions DEF StoreInv, OnlyEditedDecide
<1> QED
  BY <1>1, <1>2, <1>3, PTL DEF Spec, EditsAreLocal
=============================================================================

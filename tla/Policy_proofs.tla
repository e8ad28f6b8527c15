--------------------------- MODULE Policy_proofs ----------------------------
(***************************************************************************)
(* Facts about the operators of Policy, for rule lists of any length.      *)
(***************************************************************************)
EXTENDS Policy, WellFoundedInduction, SequenceTheorems, TLAPS

(* A non-empty set of positions has a least element, and Min is it.        *)
LEMMA MinIsLeast ==
  ASSUME NEW I \in SUBSET Nat, I # {}
  PROVE  Min(I) \in I /\ \A j \in I : Min(I) <= j
<1> DEFINE R == OpToRel(<, Nat)
<1>1. IsWellFoundedOn(R, Nat)
  BY NatLessThanWellFounded
<1>2. \A x, y \in Nat : y < x => << y, x >> \in R
  BY DEF OpToRel
<1> HIDE DEF R
<1>3. PICK x \in I : \A y \in I : ~ (<< y, x >> \in R)
  BY <1>1, WFMin
<1>4. ASSUME NEW y \in I PROVE x <= y
  <2>1. x \in Nat /\ y \in Nat
    OBVIOUS
  <2>2. ~ (y < x)
    BY <1>2, <1>3, <2>1
  <2> QED
    BY <2>1, <2>2
<1> QED
  BY <1>3, <1>4 DEF Min

(* The greatest of some bounded numbers.                                   *)
LEMMA MaxIsGreatest ==
  ASSUME NEW n \in Nat, NEW I \in SUBSET (0 .. n), I # {}
  PROVE  Max(I) \in I /\ \A j \in I : j <= Max(I)
<1> DEFINE J == {n - i : i \in I}
<1>1. J \in SUBSET Nat /\ J # {}
  <2>1. \A i \in I : n - i \in Nat
    OBVIOUS
  <2>2. \E i \in I : n - i \in J
    OBVIOUS
  <2> QED
    BY <2>1, <2>2
<1>2. PICK x \in J : \A y \in J : x <= y
  BY <1>1, MinIsLeast
<1>3. PICK i \in I : x = n - i
  BY <1>2
<1>4. \A j \in I : i >= j
  BY <1>2, <1>3
<1> QED
  BY <1>3, <1>4 DEF Max

(* A function on 1 .. n is a sequence of length n.                         *)
LEMMA FunctionIsSeq ==
  ASSUME NEW S, NEW n \in Nat, NEW f \in [1 .. n -> S]
  PROVE  f \in Seq(S) /\ Len(f) = n
<1>1. f = [i \in 1 .. n |-> f[i]]
  OBVIOUS
<1>2. [i \in 1 .. n |-> f[i]] \in Seq(S) /\ Len(f) = n
  OBVIOUS
<1> QED
  BY <1>1, <1>2

(* What SelectInSeq returns, I being the positions that pass its test.     *)
LEMMA FirstOf ==
  ASSUME NEW n \in Nat, NEW I \in SUBSET (1 .. n),
         NEW m, m = IF I # {} THEN Min(I) ELSE 0
  PROVE  /\ m \in 0 .. n
         /\ m = 0 <=> I = {}
         /\ m # 0 => m \in I /\ \A j \in I : m <= j
<1>1. CASE I = {}
  BY <1>1
<1>2. CASE I # {}
  <2>1. I \in SUBSET Nat
    OBVIOUS
  <2>2. m \in I /\ \A j \in I : m <= j
    BY <1>2, <2>1, MinIsLeast
  <2> QED
    BY <1>2, <2>2
<1> QED
  BY <1>1, <1>2

(* The bucket apply_policy stops at: the first with a matching rule.       *)
LEMMA FirstTier ==
  ASSUME NEW h \in [1 .. 4 -> Nat],
         NEW t, t = SelectInSeq(h, LAMBDA x : x # 0)
  PROVE  /\ h[1] # 0 => t = 1
         /\ h[1] = 0 /\ h[2] # 0 => t = 2
         /\ h[1] = 0 /\ h[2] = 0 /\ h[3] # 0 => t = 3
         /\ h[1] = 0 /\ h[2] = 0 /\ h[3] = 0 /\ h[4] # 0 => t = 4
         /\ h[1] = 0 /\ h[2] = 0 /\ h[3] = 0 /\ h[4] = 0 => t = 0
<1> DEFINE I == {i \in 1 .. 4 : h[i] # 0}
<1>1. Len(h) = 4
  OBVIOUS
<1>2. t = IF I # {} THEN Min(I) ELSE 0
  BY <1>1 DEF SelectInSeq
<1>3. /\ t \in 0 .. 4
      /\ t = 0 <=> I = {}
      /\ t # 0 => t \in I /\ \A j \in I : t <= j
  BY <1>2, FirstOf
<1> QED
  BY <1>3

(* apply_policy keeps the order its docstring gives, for every list of     *)
(* overrides and defaults: the most specific matching override decides,    *)
(* the earliest of equally specific ones, and a default only when no       *)
(* override matches.                                                       *)
THEOREM PolicyFollowsPrecedence ==
  ASSUME NEW Ids, NEW Funds, NEW fund \in Funds, Missing \notin Funds,
         NEW overrides \in Seq(Rule(Ids, Funds, Int)),
         NEW defaults \in Seq(Rule(Ids, Funds, Int)),
         NEW v \in Verdict
  PROVE  FollowsPrecedence(overrides, defaults, v, fund,
                           ApplyPolicy(overrides, defaults, v, fund))
<1> DEFINE n  == Len(overrides)
           FD == {i \in 1 .. n : IsFundDefect(overrides[i], v, fund) /\ Matches(overrides[i], v, fund)}
           FO == {i \in 1 .. n : IsFundOnly(overrides[i], v, fund) /\ Matches(overrides[i], v, fund)}
           DO == {i \in 1 .. n : IsDefectOnly(overrides[i], v, fund) /\ Matches(overrides[i], v, fund)}
           DF == {i \in 1 .. Len(defaults) : IsDefault(defaults[i], v, fund) /\ Matches(defaults[i], v, fund)}
           h1 == FirstHit(overrides, IsFundDefect, v, fund)
           h2 == FirstHit(overrides, IsFundOnly, v, fund)
           h3 == FirstHit(overrides, IsDefectOnly, v, fund)
           h4 == FirstHit(defaults, IsDefault, v, fund)
           hits == << h1, h2, h3, h4 >>
           tier == SelectInSeq(hits, LAMBDA h : h # 0)
           rule == << overrides, overrides, overrides, defaults >>[tier][hits[tier]]
           a == ApplyPolicy(overrides, defaults, v, fund)
           C == Contenders(overrides, v, fund)
<1>1. n \in Nat /\ DOMAIN overrides = 1 .. n /\ Len(defaults) \in Nat
  BY LenProperties
<1>2. /\ h1 = IF FD # {} THEN Min(FD) ELSE 0
      /\ h2 = IF FO # {} THEN Min(FO) ELSE 0
      /\ h3 = IF DO # {} THEN Min(DO) ELSE 0
      /\ h4 = IF DF # {} THEN Min(DF) ELSE 0
  BY DEF FirstHit, SelectInSeq
<1>3. /\ h1 \in 0 .. n /\ (h1 = 0 <=> FD = {}) /\ (h1 # 0 => h1 \in FD /\ \A j \in FD : h1 <= j)
      /\ h2 \in 0 .. n /\ (h2 = 0 <=> FO = {}) /\ (h2 # 0 => h2 \in FO /\ \A j \in FO : h2 <= j)
      /\ h3 \in 0 .. n /\ (h3 = 0 <=> DO = {}) /\ (h3 # 0 => h3 \in DO /\ \A j \in DO : h3 <= j)
      /\ h4 \in 0 .. Len(defaults)
  <2> HIDE DEF h1, h2, h3, h4
  <2>1. FD \in SUBSET (1 .. n) /\ FO \in SUBSET (1 .. n) /\ DO \in SUBSET (1 .. n)
    OBVIOUS
  <2>2. DF \in SUBSET (1 .. Len(defaults))
    OBVIOUS
  <2> HIDE DEF FD, FO, DO, DF, n
  <2> QED
    BY <1>1, <1>2, <2>1, <2>2, FirstOf
<1>4. a = IF tier = 0 THEN Fallback(v) ELSE Resolve(rule.action, rule.rule_id, v)
  BY DEF ApplyPolicy, ApplyPolicyTo
<1>5. C = {i \in 1 .. n : Specificity(overrides[i]) > 0 /\ Matches(overrides[i], v, fund)}
  BY <1>1 DEF Contenders
<1>6. fund # Missing
  OBVIOUS
<1>7. /\ h1 # 0 => tier = 1 /\ hits[tier] = h1 /\ rule = overrides[h1]
      /\ h1 = 0 /\ h2 # 0 => tier = 2 /\ rule = overrides[h2]
      /\ h1 = 0 /\ h2 = 0 /\ h3 # 0 => tier = 3 /\ rule = overrides[h3]
      /\ h1 = 0 /\ h2 = 0 /\ h3 = 0 /\ h4 # 0 => tier = 4 /\ rule = defaults[h4]
      /\ h1 = 0 /\ h2 = 0 /\ h3 = 0 /\ h4 = 0 => tier = 0
  <2> HIDE DEF h1, h2, h3, h4
  <2>1. hits \in [1 .. 4 -> Nat] /\ hits[1] = h1 /\ hits[2] = h2 /\ hits[3] = h3 /\ hits[4] = h4
    BY <1>1, <1>3
  <2> HIDE DEF hits
  <2>2. /\ h1 # 0 => tier = 1
        /\ h1 = 0 /\ h2 # 0 => tier = 2
        /\ h1 = 0 /\ h2 = 0 /\ h3 # 0 => tier = 3
        /\ h1 = 0 /\ h2 = 0 /\ h3 = 0 /\ h4 # 0 => tier = 4
        /\ h1 = 0 /\ h2 = 0 /\ h3 = 0 /\ h4 = 0 => tier = 0
    BY <2>1, FirstTier
  <2> HIDE DEF tier
  <2> QED
    BY <2>1, <2>2
<1> HIDE DEF h1, h2, h3, h4, hits, tier, rule, a, C
<1>8. CASE h1 # 0
  <2>1. h1 \in C /\ Specificity(overrides[h1]) = 3
    BY <1>1, <1>3, <1>5, <1>6, <1>8 DEF IsFundDefect, Specificity
  <2>2. ASSUME NEW j \in C, Specificity(overrides[j]) >= 3 PROVE j \in FD
    BY <1>5, <2>2 DEF IsFundDefect, Specificity, Matches
  <2>3. \A j \in C : Specificity(overrides[j]) \in 0 .. 3 /\ j \in Nat
    BY <1>1, <1>5 DEF Specificity
  <2> HIDE DEF FD
  <2>4. Prevails(overrides, h1, v, fund)
    BY <1>3, <1>8, <2>1, <2>2, <2>3 DEF Prevails, C
  <2> QED
    BY <1>4, <1>7, <1>8, <2>1, <2>4 DEF FollowsPrecedence, C, a
<1>9. CASE h1 = 0 /\ h2 # 0
  <2>1. h2 \in C /\ Specificity(overrides[h2]) = 2
    BY <1>1, <1>3, <1>5, <1>6, <1>9 DEF IsFundOnly, Specificity
  <2>2. ASSUME NEW j \in C, Specificity(overrides[j]) >= 2
        PROVE  j \in FO /\ Specificity(overrides[j]) = 2
    <3>1. j \notin FD
      BY <1>3, <1>9
    <3> QED
      BY <1>5, <2>2, <3>1 DEF IsFundDefect, IsFundOnly, Specificity, Matches
  <2>3. \A j \in C : Specificity(overrides[j]) \in 0 .. 3 /\ j \in Nat
    BY <1>1, <1>5 DEF Specificity
  <2> HIDE DEF FO
  <2>4. Prevails(overrides, h2, v, fund)
    BY <1>3, <1>9, <2>1, <2>2, <2>3 DEF Prevails, C
  <2> QED
    BY <1>4, <1>7, <1>9, <2>1, <2>4 DEF FollowsPrecedence, C, a
<1>10. CASE h1 = 0 /\ h2 = 0 /\ h3 # 0
  <2>1. h3 \in C /\ Specificity(overrides[h3]) = 1
    <3>1. v.defect_type # Missing
      BY PolicyAssumption DEF Verdict, DefectTypes
    <3> QED
      BY <1>1, <1>3, <1>5, <1>10, <3>1 DEF IsDefectOnly, Specificity
  <2>2. ASSUME NEW j \in C PROVE j \in DO /\ Specificity(overrides[j]) = 1
    <3>1. j \notin FD /\ j \notin FO
      BY <1>3, <1>10
    <3> QED
      BY <1>5, <3>1 DEF IsFundDefect, IsFundOnly, IsDefectOnly, Specificity, Matches
  <2>3. \A j \in C : j \in Nat
    BY <1>1, <1>5
  <2> HIDE DEF DO
  <2>4. Prevails(overrides, h3, v, fund)
    BY <1>3, <1>10, <2>1, <2>2, <2>3 DEF Prevails, C
  <2> QED
    BY <1>4, <1>7, <1>10, <2>1, <2>4 DEF FollowsPrecedence, C, a
<1>11. CASE h1 = 0 /\ h2 = 0 /\ h3 = 0
  <2>1. C = {}
    <3>1. FD = {} /\ FO = {} /\ DO = {}
      BY <1>3, <1>11
    <3> QED
      BY <1>5, <3>1 DEF IsFundDefect, IsFundOnly, IsDefectOnly, Specificity, Matches
  <2>2. SelectInSeq(defaults, LAMBDA r : Matches(r, v, fund)) = h4
    BY DEF SelectInSeq, FirstHit, IsDefault, h4
  <2>3. a = IF h4 = 0 THEN Fallback(v) ELSE Resolve(defaults[h4].action, defaults[h4].rule_id, v)
    BY <1>3, <1>4, <1>7, <1>11
  <2> QED
    BY <2>1, <2>2, <2>3 DEF FollowsPrecedence, FirstMatch, C, a
<1> QED
  BY <1>3, <1>8, <1>9, <1>10, <1>11

(* A verdict that satisfies Verdict.__post_init__ is routed to an action   *)
(* of a rule, or of the fallback, and keeps what it says.                  *)
THEOREM PolicyActionType ==
  ASSUME NEW Ids, NEW Funds, NEW fund \in Funds, Missing \notin Funds,
         NEW overrides \in Seq(Rule(Ids, Funds, Int)),
         NEW defaults \in Seq(Rule(Ids, Funds, Int)),
         NEW v \in Verdict
  PROVE  ApplyPolicy(overrides, defaults, v, fund) \in PolicyAction(Ids)
<1> DEFINE a  == ApplyPolicy(overrides, defaults, v, fund)
           DF == {i \in 1 .. Len(defaults) : Matches(defaults[i], v, fund)}
           d  == SelectInSeq(defaults, LAMBDA r : Matches(r, v, fund))
<1>1. FollowsPrecedence(overrides, defaults, v, fund, a)
  BY PolicyFollowsPrecedence
<1>2. /\ \A i \in DOMAIN overrides : overrides[i] \in Rule(Ids, Funds, Int)
      /\ \A i \in 1 .. Len(defaults) : defaults[i] \in Rule(Ids, Funds, Int)
      /\ Len(defaults) \in Nat
  BY LenProperties
<1>3. d \in 0 .. Len(defaults)
  <2>1. d = IF DF # {} THEN Min(DF) ELSE 0
    BY DEF SelectInSeq
  <2>2. DF \in SUBSET (1 .. Len(defaults))
    OBVIOUS
  <2> HIDE DEF d, DF
  <2> QED
    BY <1>2, <2>1, <2>2, FirstOf
<1>4. ASSUME NEW action \in Actions, NEW id \in Ids \cup {"no_rule_matched_fallback"}
      PROVE  Resolve(action, id, v) \in PolicyAction(Ids)
  BY DEF Resolve, PolicyAction, Verdict
<1>5. ASSUME NEW r \in Rule(Ids, Funds, Int)
      PROVE  r.action \in Actions /\ r.rule_id \in Ids
  BY DEF Rule
<1>6. Fallback(v) \in PolicyAction(Ids)
  BY <1>4 DEF Fallback, Actions
<1>7. CASE \E i \in Contenders(overrides, v, fund) :
             a = Resolve(overrides[i].action, overrides[i].rule_id, v)
  BY <1>2, <1>4, <1>5, <1>7 DEF Contenders
<1>8. CASE a = IF d = 0 THEN Fallback(v) ELSE Resolve(defaults[d].action, defaults[d].rule_id, v)
  <2> HIDE DEF d, a
  <2> QED
    BY <1>2, <1>3, <1>4, <1>5, <1>6, <1>8 DEF a
<1> QED
  BY <1>1, <1>7, <1>8 DEF FollowsPrecedence, FirstMatch

(* Whatever JSON object the model wrote, the parser makes a legal verdict  *)
(* of it: the confidence is clamped and unknown words are replaced.        *)
THEOREM CoercedVerdictIsLegal ==
  ASSUME NEW d
  PROVE  CoerceVerdict(d) \in Verdict
BY DEF CoerceVerdict, Verdict, KnownOr, DefectTypes, Severities, Confidences, Actions

-----------------------------------------------------------------------------
(***************************************************************************)
(* Loops.  FoldLeft takes its steps in a function over the sets of         *)
(* positions, the greatest position last.  That there is such a function,  *)
(* and what a loop has after its first k steps, is shown here for every    *)
(* step that keeps to a set A.                                             *)
(***************************************************************************)

Folds(g, m, base, step) ==
  \A s \in SUBSET (1 .. m) :
    g[s] = IF s = {} THEN base ELSE step[Max(s)][g[s \ {Max(s)}]]

LEMMA MaxOfInterval ==
  ASSUME NEW k \in Nat, k # 0
  PROVE  Max(1 .. k) = k /\ (1 .. k) \ {k} = 1 .. k - 1
<1>1. Max(1 .. k) \in 1 .. k /\ \A j \in 1 .. k : j <= Max(1 .. k)
  <2>1. 1 .. k \in SUBSET (0 .. k) /\ 1 .. k # {}
    OBVIOUS
  <2> QED
    BY <2>1, MaxIsGreatest
<1>2. PICK m : m = Max(1 .. k)
  OBVIOUS
<1>3. k \in 1 .. k
  OBVIOUS
<1>4. m = k
  BY <1>1, <1>2, <1>3
<1> QED
  BY <1>2, <1>4

LEMMA FoldExists ==
  ASSUME NEW n \in Nat, NEW A, NEW base \in A, NEW step \in [1 .. n -> [A -> A]]
  PROVE  \E g \in [SUBSET (1 .. n) -> A] : Folds(g, n, base, step)
<1> DEFINE Exists(m) == \E g \in [SUBSET (1 .. m) -> A] : Folds(g, m, base, step)
           Not == {m \in 0 .. n : ~Exists(m)}
<1>1. Exists(0)
  <2>1. PICK g : g = [s \in SUBSET (1 .. 0) |-> base]
    OBVIOUS
  <2>2. g \in [SUBSET (1 .. 0) -> A]
    BY <2>1
  <2>3. \A s \in SUBSET (1 .. 0) : s = {} /\ g[s] = base
    BY <2>1
  <2>4. Folds(g, 0, base, step)
    BY <2>3 DEF Folds
  <2> QED
    BY <2>2, <2>4
<1>2. ASSUME NEW m \in 0 .. n - 1, Exists(m) PROVE Exists(m + 1)
  <2>1. PICK g \in [SUBSET (1 .. m) -> A] : Folds(g, m, base, step)
    BY <1>2
  <2>2. PICK h : h = [s \in SUBSET (1 .. m + 1) |->
                        IF m + 1 \in s THEN step[m + 1][g[s \ {m + 1}]] ELSE g[s]]
    OBVIOUS
  <2>3. \A s \in SUBSET (1 .. m + 1) : s \ {m + 1} \in SUBSET (1 .. m)
    OBVIOUS
  <2>4. \A s \in SUBSET (1 .. m + 1) : m + 1 \notin s => s \in SUBSET (1 .. m)
    OBVIOUS
  <2>5. h \in [SUBSET (1 .. m + 1) -> A]
    <3>1. ASSUME NEW s \in SUBSET (1 .. m + 1) PROVE h[s] \in A
      <4>1. CASE m + 1 \in s
        <5>1. g[s \ {m + 1}] \in A
          BY <2>3
        <5>2. m + 1 \in 1 .. n
          OBVIOUS
        <5> QED
          BY <2>2, <4>1, <5>1, <5>2
      <4>2. CASE m + 1 \notin s
        BY <2>2, <2>4, <4>2
      <4> QED
        BY <4>1, <4>2
    <3> QED
      BY <2>2, <3>1
  <2>6. ASSUME NEW s \in SUBSET (1 .. m + 1)
        PROVE  h[s] = IF s = {} THEN base ELSE step[Max(s)][h[s \ {Max(s)}]]
    <3>1. CASE m + 1 \in s
      <4>1. s \in SUBSET (0 .. m + 1) /\ s # {} /\ m + 1 \in Nat
        BY <3>1
      <4>2. Max(s) \in s /\ \A j \in s : j <= Max(s)
        BY <4>1, MaxIsGreatest
      <4>3. Max(s) = m + 1
        <5>1. PICK x : x = Max(s)
          OBVIOUS
        <5>2. x \in 1 .. m + 1 /\ m + 1 <= x
          BY <3>1, <4>2, <5>1
        <5> QED
          BY <5>1, <5>2
      <4>4. h[s \ {m + 1}] = g[s \ {m + 1}]
        BY <2>2, <2>3
      <4>5. h[s] = step[m + 1][g[s \ {m + 1}]]
        BY <2>2, <3>1
      <4> QED
        BY <4>1, <4>3, <4>4, <4>5
    <3>2. CASE m + 1 \notin s
      <4>1. s \in SUBSET (1 .. m) /\ h[s] = g[s]
        BY <2>2, <2>4, <3>2
      <4>2. g[s] = IF s = {} THEN base ELSE step[Max(s)][g[s \ {Max(s)}]]
        BY <2>1, <4>1 DEF Folds
      <4>3. PICK r : r = s \ {Max(s)}
        OBVIOUS
      <4>4. r \in SUBSET (1 .. m + 1) /\ m + 1 \notin r
        <5>1. r \subseteq s /\ s \subseteq 1 .. m
          BY <4>1, <4>3
        <5>2. r \in SUBSET (1 .. m + 1)
          BY <5>1
        <5>3. m + 1 \notin r
          BY <3>2, <5>1
        <5> QED
          BY <5>2, <5>3
      <4>5. h[r] = g[r]
        BY <2>2, <4>4
      <4> QED
        BY <4>1, <4>2, <4>3, <4>5
    <3> QED
      BY <3>1, <3>2
  <2>7. Folds(h, m + 1, base, step)
    BY <2>6 DEF Folds
  <2> QED
    BY <2>5, <2>7
<1> HIDE DEF Exists
<1>3. Not = {}
  <2> SUFFICES ASSUME Not # {} PROVE FALSE
    OBVIOUS
  <2>1. Not \in SUBSET Nat
    OBVIOUS
  <2>2. PICK m \in Not : \A k \in Not : m <= k
    BY <2>1, MinIsLeast
  <2>3. m \in 0 .. n /\ ~Exists(m)
    OBVIOUS
  <2>4. m # 0
    BY <1>1, <2>3
  <2>5. m - 1 \in 0 .. n - 1 /\ m - 1 \notin Not
    BY <2>2, <2>3, <2>4
  <2>6. Exists(m - 1)
    BY <2>5
  <2>7. Exists(m - 1 + 1)
    BY <1>2, <2>5, <2>6
  <2> QED
    BY <2>3, <2>7
<1>4. Exists(n)
  BY <1>3
<1> QED
  BY <1>4 DEF Exists

(* What holds at the start of a loop of n steps, and after each step if it *)
(* held before, holds at its end.                                          *)
LEMMA LoopInduction ==
  ASSUME NEW n \in Nat, NEW J \in SUBSET (0 .. n), 0 \in J,
         \A k \in 1 .. n : k - 1 \in J => k \in J
  PROVE  n \in J
<1> DEFINE Not == (0 .. n) \ J
<1> SUFFICES ASSUME Not # {} PROVE FALSE
  OBVIOUS
<1>1. Not \in SUBSET Nat
  OBVIOUS
<1>2. PICK m \in Not : \A k \in Not : m <= k
  BY <1>1, MinIsLeast
<1>3. m \in 1 .. n /\ m - 1 \in J
  BY <1>2
<1> QED
  BY <1>2, <1>3
=============================================================================

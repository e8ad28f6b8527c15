---------------------------- MODULE Tools_proofs ----------------------------
(***************************************************************************)
(* For every warehouse, call and bound: what the agent is told by a query  *)
(* is what it asked for, the flat runs of a series are the maximal ones,   *)
(* and a performance fee stops at the mark.                                *)
(***************************************************************************)
EXTENDS Tools, FiniteSetTheorems, FunctionTheorems, SequenceTheorems, WellFoundedInduction, TLAPS

(* A sequence of whatever it holds.                                        *)
Listed(s) == s \in Seq({s[k] : k \in DOMAIN s})

LEMMA Appended ==
  ASSUME NEW s, Listed(s), NEW e
  PROVE  /\ Listed(Append(s, e)) /\ Len(s) \in Nat
         /\ DOMAIN s = 1 .. Len(s)
         /\ DOMAIN Append(s, e) = 1 .. Len(s) + 1
         /\ Len(Append(s, e)) = Len(s) + 1
         /\ \A k \in DOMAIN s : Append(s, e)[k] = s[k]
         /\ Append(s, e)[Len(s) + 1] = e
<1> DEFINE S == {s[k] : k \in DOMAIN s} \cup {e}
           t == Append(s, e)
<1>1. s \in Seq(S) /\ e \in S
  <2>1. s \in Seq({s[k] : k \in DOMAIN s})
    BY DEF Listed
  <2>2. \A k \in 1 .. Len(s) : s[k] \in S
    BY <2>1, LenProperties
  <2> QED
    BY <2>1, <2>2
<1>2. PICK n : n = Len(s)
  OBVIOUS
<1>3. n \in Nat /\ DOMAIN s = 1 .. n
  BY <1>1, <1>2, LenProperties
<1>4. /\ t \in Seq(S) /\ Len(t) = n + 1
      /\ \A k \in 1 .. n : t[k] = s[k]
      /\ t[n + 1] = e
  BY <1>1, <1>2, AppendProperties
<1>5. DOMAIN t = 1 .. n + 1
  BY <1>4, LenProperties
<1>6. Listed(t)
  <2> HIDE DEF t
  <2>1. \A k \in 1 .. n + 1 : t[k] \in {t[i] : i \in DOMAIN t}
    BY <1>5
  <2>2. t \in Seq({t[i] : i \in DOMAIN t})
    BY <1>3, <1>4, <2>1
  <2> QED
    BY <2>2 DEF Listed
<1> QED
  BY <1>2, <1>3, <1>4, <1>5, <1>6
-----------------------------------------------------------------------------
(* What dispatch may answer to a call.                                     *)
Answers(w, c) ==
  IF Accepted(c) THEN {serialize_result(o) : o \in Outcomes(w, c.tool, c.args)}
  ELSE {serialize_result(Raised)}

(* The inductive invariant: every answer is one the tool may give of this  *)
(* warehouse, and the two records are of those answers.                    *)
Truthful ==
  /\ db \in Warehouses
  /\ Listed(log) /\ Listed(shown) /\ Listed(audit)
  /\ Len(shown) = Len(log) /\ Len(audit) <= Len(log)
  /\ \A k \in DOMAIN log : /\ shown[k] \in Answers(db, log[k].call)
                           /\ log[k].error = shown[k].error
                           /\ log[k].rows = shown[k].total
  /\ \A a \in DOMAIN audit : \E k \in DOMAIN log : k >= a /\ log[k] = audit[a]

LEMMA InitTruthful == Init => Truthful
<1> SUFFICES ASSUME Init PROVE Truthful
  OBVIOUS
<1>1. Listed(<< >>) /\ DOMAIN << >> = {} /\ Len(<< >>) = 0
  BY DEF Listed
<1> QED
  BY <1>1 DEF Init, Truthful

(* One more call, with its answer, and its line in the trail or not.       *)
LEMMA RecordedTruthful ==
  ASSUME Truthful, UNCHANGED db, NEW c, NEW answer \in Answers(db, c), NEW entry,
         entry.call = c, entry.error = answer.error, entry.rows = answer.total,
         log' = Append(log, entry), shown' = Append(shown, answer),
         audit' = Append(audit, entry) \/ UNCHANGED audit
  PROVE  Truthful'
<1> PICK n : n = Len(log)
  OBVIOUS
<1> PICK m : m = Len(audit)
  OBVIOUS
<1>1. n \in Nat /\ DOMAIN log = 1 .. n /\ DOMAIN shown = 1 .. n /\ Len(shown) = n
  BY Appended DEF Truthful
<1>2. m \in Nat /\ DOMAIN audit = 1 .. m /\ m <= n
  BY Appended DEF Truthful
<1>3. /\ Listed(log') /\ DOMAIN log' = 1 .. n + 1 /\ Len(log') = n + 1
      /\ \A k \in 1 .. n : log'[k] = log[k]
      /\ log'[n + 1] = entry
  BY <1>1, Appended DEF Truthful
<1>4. /\ Listed(shown') /\ DOMAIN shown' = 1 .. n + 1 /\ Len(shown') = n + 1
      /\ \A k \in 1 .. n : shown'[k] = shown[k]
      /\ shown'[n + 1] = answer
  BY <1>1, Appended DEF Truthful
<1>5. ASSUME NEW k \in 1 .. n + 1
      PROVE  /\ shown'[k] \in Answers(db', log'[k].call)
             /\ log'[k].error = shown'[k].error
             /\ log'[k].rows = shown'[k].total
  <2>1. CASE k \in 1 .. n
    BY <1>1, <1>3, <1>4, <2>1 DEF Truthful
  <2>2. CASE k = n + 1
    BY <1>3, <1>4, <2>2
  <2> QED
    BY <1>1, <2>1, <2>2
<1>6. \A a \in DOMAIN audit : \E k \in DOMAIN log' : k >= a /\ log'[k] = audit[a]
  BY <1>1, <1>2, <1>3 DEF Truthful
<1>7. CASE UNCHANGED audit
  BY <1>1, <1>2, <1>3, <1>4, <1>5, <1>6, <1>7 DEF Truthful
<1>8. CASE audit' = Append(audit, entry)
  <2>1. /\ Listed(audit') /\ DOMAIN audit' = 1 .. m + 1 /\ Len(audit') = m + 1
        /\ \A k \in 1 .. m : audit'[k] = audit[k]
        /\ audit'[m + 1] = entry
    BY <1>2, <1>8, Appended DEF Truthful
  <2>2. ASSUME NEW a \in DOMAIN audit'
        PROVE  \E k \in DOMAIN log' : k >= a /\ log'[k] = audit'[a]
    <3>1. CASE a \in 1 .. m
      BY <1>2, <1>6, <2>1, <3>1
    <3>2. CASE a = m + 1
      BY <1>1, <1>2, <1>3, <2>1, <3>2
    <3> QED
      BY <1>2, <2>1, <3>1, <3>2
  <2> QED
    BY <1>1, <1>2, <1>3, <1>4, <1>5, <2>1, <2>2 DEF Truthful
<1> QED
  BY <1>7, <1>8

LEMMA NextTruthful == Truthful /\ [Next]_vars => Truthful'
<1> SUFFICES ASSUME Truthful, [Next]_vars PROVE Truthful'
  OBVIOUS
<1>1. ASSUME NEW c, Reject(c) PROVE Truthful'
  <2> DEFINE answer == serialize_result(Raised)
             entry  == Entry(c, TRUE, 0)
  <2>1. answer \in Answers(db, c) /\ UNCHANGED << db, audit >>
    BY <1>1 DEF Reject, Answers
  <2>2. entry.call = c /\ entry.error = answer.error /\ entry.rows = answer.total
    BY DEF Entry, serialize_result, Raised, Outcome
  <2>3. log' = Append(log, entry) /\ shown' = Append(shown, answer)
    BY <1>1 DEF Reject
  <2> HIDE DEF answer, entry
  <2> QED
    BY <2>1, <2>2, <2>3, RecordedTruthful
<1>2. ASSUME NEW c, Run(c) PROVE Truthful'
  <2>1. PICK o \in Outcomes(db, c.tool, c.args) :
          /\ log' = Append(log, Entry(c, o.error, Len(o.rows)))
          /\ shown' = Append(shown, serialize_result(o))
          /\ \/ audit' = Append(audit, Entry(c, o.error, Len(o.rows)))
             \/ UNCHANGED audit
    BY <1>2 DEF Run, summarize_result
  <2> DEFINE answer == serialize_result(o)
             entry  == Entry(c, o.error, Len(o.rows))
  <2>2. answer \in Answers(db, c) /\ UNCHANGED db
    BY <1>2 DEF Run, Answers
  <2>3. entry.call = c /\ entry.error = answer.error /\ entry.rows = answer.total
    BY DEF Entry, serialize_result
  <2>4. /\ log' = Append(log, entry) /\ shown' = Append(shown, answer)
        /\ audit' = Append(audit, entry) \/ UNCHANGED audit
    BY <2>1
  <2> HIDE DEF answer, entry
  <2> QED
    BY <2>2, <2>3, <2>4, RecordedTruthful
<1>3. CASE UNCHANGED vars
  BY <1>3 DEF vars, Truthful, Answers, Accepted
<1> QED
  BY <1>1, <1>2, <1>3 DEF Next, dispatch

LEMMA AlwaysTruthful == Spec => []Truthful
<1>1. Init => Truthful
  BY InitTruthful
<1>2. Truthful /\ [Next]_vars => Truthful'
  BY NextTruthful
<1> QED
  BY <1>1, <1>2, PTL DEF Spec

\* The log of a run and the audit trail say what the agent was told, and
\* nothing that did not happen (dispatcher.py:57-97 and 165-280).
THEOREM RecordsAlwaysAgree == Spec => []RecordsAgree
<1>1. Truthful => RecordsAgree
  BY DEF Truthful, RecordsAgree
<1> QED
  BY <1>1, AlwaysTruthful, PTL
-----------------------------------------------------------------------------
(* What an adapter may count on of a call that keeps to the schema: it     *)
(* needs nothing optional, and a date or number it reads is required, or   *)
(* has a default and is never null, or is an end of an optional range.     *)
Advertises(s, a, optional) ==
  /\ a.needs \subseteq s.required
  /\ s.required \cap s.nullable = {}
  /\ \A n \in (a.needs \cup a.may) \ Texts :
       \/ n \in {"start_date", "end_date"} /\ optional
       \/ n \notin s.nullable /\ (n \in a.needs \/ n \in DOMAIN Default)

LEMMA PartsAdvertise ==
  /\ \A t \in DOMAIN ReferenceSchema :
       t \in DOMAIN ReferenceArgs /\ Advertises(ReferenceSchema[t], ReferenceArgs[t], FALSE)
  /\ \A t \in DOMAIN PositionSchema :
       t \in DOMAIN PositionArgs /\ Advertises(PositionSchema[t], PositionArgs[t], FALSE)
  /\ \A t \in DOMAIN MarketSchema :
       t \in DOMAIN MarketArgs /\ Advertises(MarketSchema[t], MarketArgs[t], FALSE)
  /\ \A t \in DOMAIN IncomeSchema :
       t \in DOMAIN IncomeArgs /\ Advertises(IncomeSchema[t], IncomeArgs[t], TRUE)
  /\ \A t \in DOMAIN NavSchema :
       t \in DOMAIN NavArgs /\ Advertises(NavSchema[t], NavArgs[t], FALSE)
  /\ \A t \in DOMAIN ComputationSchema :
       t \in DOMAIN ComputationArgs /\ Advertises(ComputationSchema[t], ComputationArgs[t], FALSE)
<1>1. \A t \in DOMAIN ReferenceSchema :
        t \in DOMAIN ReferenceArgs /\ Advertises(ReferenceSchema[t], ReferenceArgs[t], FALSE)
  BY DEF ReferenceSchema, ReferenceArgs, Takes, Reads, Default, Texts, Advertises
<1>2. \A t \in DOMAIN PositionSchema :
        t \in DOMAIN PositionArgs /\ Advertises(PositionSchema[t], PositionArgs[t], FALSE)
  BY DEF PositionSchema, PositionArgs, Takes, Reads, Default, Texts, Advertises
<1>3. \A t \in DOMAIN MarketSchema :
        t \in DOMAIN MarketArgs /\ Advertises(MarketSchema[t], MarketArgs[t], FALSE)
  BY DEF MarketSchema, MarketArgs, Takes, Reads, Default, Texts, Advertises
<1>4. \A t \in DOMAIN IncomeSchema :
        t \in DOMAIN IncomeArgs /\ Advertises(IncomeSchema[t], IncomeArgs[t], TRUE)
  BY DEF IncomeSchema, IncomeArgs, Takes, Reads, Default, Texts, Advertises
<1>5. \A t \in DOMAIN NavSchema :
        t \in DOMAIN NavArgs /\ Advertises(NavSchema[t], NavArgs[t], FALSE)
  BY DEF NavSchema, NavArgs, Takes, Reads, Default, Texts, Advertises
<1>6. \A t \in DOMAIN ComputationSchema :
        t \in DOMAIN ComputationArgs /\ Advertises(ComputationSchema[t], ComputationArgs[t], FALSE)
  BY DEF ComputationSchema, ComputationArgs, Takes, Reads, Default, Texts, Advertises
<1> QED
  BY <1>1, <1>2, <1>3, <1>4, <1>5, <1>6

LEMMA NamesOfTools ==
  /\ DOMAIN ReferenceSchema = {"get_funds", "get_share_classes", "get_fund_domicile",
                               "get_instruments", "get_treaty_rate", "get_fund_calendar"}
  /\ DOMAIN ReferenceArgs = DOMAIN ReferenceSchema
  /\ DOMAIN PositionSchema = {"get_holdings", "get_holdings_history", "get_trades", "get_cash",
                              "get_capstock"}
  /\ DOMAIN PositionArgs = DOMAIN PositionSchema
  /\ DOMAIN MarketSchema = {"get_price_series", "get_price_around_date", "get_fx_rate",
                            "get_fx_rates_all_snaps", "get_bond_accruals"}
  /\ DOMAIN MarketArgs = DOMAIN MarketSchema
  /\ DOMAIN IncomeSchema = {"get_corporate_actions", "get_dividend_receipts"}
  /\ DOMAIN IncomeArgs = DOMAIN IncomeSchema
  /\ DOMAIN NavSchema = {"get_nav_history", "get_fee_accruals"}
  /\ DOMAIN NavArgs = DOMAIN NavSchema
  /\ DOMAIN ComputationSchema = {"compute_implied_dividend_return", "compute_implied_wht_rate",
                                 "compute_expected_coupon_accrual", "compute_perf_fee",
                                 "detect_flat_run_in_series", "compute_nav_move_bps"}
  /\ DOMAIN ComputationArgs = DOMAIN ComputationSchema
<1>1. DOMAIN ReferenceSchema = {"get_funds", "get_share_classes", "get_fund_domicile",
                               "get_instruments", "get_treaty_rate", "get_fund_calendar"}
      /\ DOMAIN ReferenceArgs = DOMAIN ReferenceSchema
  BY DEF ReferenceSchema, ReferenceArgs
<1>2. DOMAIN PositionSchema = {"get_holdings", "get_holdings_history", "get_trades", "get_cash",
                               "get_capstock"}
      /\ DOMAIN PositionArgs = DOMAIN PositionSchema
  BY DEF PositionSchema, PositionArgs
<1>3. DOMAIN MarketSchema = {"get_price_series", "get_price_around_date", "get_fx_rate",
                             "get_fx_rates_all_snaps", "get_bond_accruals"}
      /\ DOMAIN MarketArgs = DOMAIN MarketSchema
  BY DEF MarketSchema, MarketArgs
<1>4. /\ DOMAIN IncomeSchema = {"get_corporate_actions", "get_dividend_receipts"}
      /\ DOMAIN IncomeArgs = DOMAIN IncomeSchema
      /\ DOMAIN NavSchema = {"get_nav_history", "get_fee_accruals"}
      /\ DOMAIN NavArgs = DOMAIN NavSchema
  BY DEF IncomeSchema, IncomeArgs, NavSchema, NavArgs
<1>5. DOMAIN ComputationSchema = {"compute_implied_dividend_return", "compute_implied_wht_rate",
                                  "compute_expected_coupon_accrual", "compute_perf_fee",
                                  "detect_flat_run_in_series", "compute_nav_move_bps"}
      /\ DOMAIN ComputationArgs = DOMAIN ComputationSchema
  BY DEF ComputationSchema, ComputationArgs
<1> QED
  BY <1>1, <1>2, <1>3, <1>4, <1>5

(* The registry is written in six parts that name different tools.         *)
Apart(a, b, c, d, e, f) ==
  /\ \A t \in DOMAIN b : t \notin DOMAIN a
  /\ \A t \in DOMAIN c : t \notin (DOMAIN a) \cup DOMAIN b
  /\ \A t \in DOMAIN d : t \notin UNION {DOMAIN a, DOMAIN b, DOMAIN c}
  /\ \A t \in DOMAIN e : t \notin UNION {DOMAIN a, DOMAIN b, DOMAIN c, DOMAIN d}
  /\ \A t \in DOMAIN f : t \notin UNION {DOMAIN a, DOMAIN b, DOMAIN c, DOMAIN d, DOMAIN e}

HasParts(j, a, b, c, d, e, f) ==
  /\ DOMAIN j = UNION {DOMAIN a, DOMAIN b, DOMAIN c, DOMAIN d, DOMAIN e, DOMAIN f}
  /\ \A t \in DOMAIN a : j[t] = a[t]
  /\ \A t \in DOMAIN b : j[t] = b[t]
  /\ \A t \in DOMAIN c : j[t] = c[t]
  /\ \A t \in DOMAIN d : j[t] = d[t]
  /\ \A t \in DOMAIN e : j[t] = e[t]
  /\ \A t \in DOMAIN f : j[t] = f[t]

LEMMA SixParts ==
  ASSUME NEW a, NEW b, NEW c, NEW d, NEW e, NEW f, Apart(a, b, c, d, e, f)
  PROVE  HasParts(a ++ b ++ c ++ d ++ e ++ f, a, b, c, d, e, f)
<1> DEFINE j == a ++ b ++ c ++ d ++ e ++ f
<1>1. DOMAIN j = UNION {DOMAIN a, DOMAIN b, DOMAIN c, DOMAIN d, DOMAIN e, DOMAIN f}
  BY DEF ++
<1>2. ASSUME NEW t \in DOMAIN a PROVE j[t] = a[t]
  BY DEF ++, Apart
<1>3. ASSUME NEW t \in DOMAIN b PROVE j[t] = b[t]
  BY DEF ++, Apart
<1>4. ASSUME NEW t \in DOMAIN c PROVE j[t] = c[t]
  BY DEF ++, Apart
<1>5. ASSUME NEW t \in DOMAIN d PROVE j[t] = d[t]
  BY DEF ++, Apart
<1>6. ASSUME NEW t \in DOMAIN e PROVE j[t] = e[t]
  BY DEF ++, Apart
<1>7. ASSUME NEW t \in DOMAIN f PROVE j[t] = f[t]
  BY DEF ++, Apart
<1> QED
  BY <1>1, <1>2, <1>3, <1>4, <1>5, <1>6, <1>7 DEF HasParts

LEMMA PartsOfRegistry ==
  /\ HasParts(Schema, ReferenceSchema, PositionSchema, MarketSchema, IncomeSchema, NavSchema,
              ComputationSchema)
  /\ HasParts(Adapter, ReferenceArgs, PositionArgs, MarketArgs, IncomeArgs, NavArgs,
              ComputationArgs)
<1>1. Apart(ReferenceSchema, PositionSchema, MarketSchema, IncomeSchema, NavSchema,
            ComputationSchema)
  BY NamesOfTools DEF Apart
<1>2. Apart(ReferenceArgs, PositionArgs, MarketArgs, IncomeArgs, NavArgs, ComputationArgs)
  BY NamesOfTools DEF Apart
<1> QED
  BY <1>1, <1>2, SixParts DEF Schema, Adapter

LEMMA AdapterIsAdvertised ==
  ASSUME NEW t \in DOMAIN Schema
  PROVE  Advertises(Schema[t], Adapter[t], RangeIsOptional(t))
<1>1. RangeIsOptional(t) <=> t \in DOMAIN IncomeSchema
  BY NamesOfTools DEF RangeIsOptional
<1>2. RangeIsOptional(t) \in BOOLEAN
  BY DEF RangeIsOptional
<1>3. CASE t \in DOMAIN IncomeSchema
  <2>1. RangeIsOptional(t) = TRUE
    BY <1>1, <1>2, <1>3
  <2> QED
    BY <1>3, <2>1, PartsAdvertise, PartsOfRegistry DEF HasParts
<1>4. CASE t \notin DOMAIN IncomeSchema
  <2>1. RangeIsOptional(t) = FALSE
    BY <1>1, <1>2, <1>4
  <2>2. \/ t \in DOMAIN ReferenceSchema \/ t \in DOMAIN PositionSchema
        \/ t \in DOMAIN MarketSchema \/ t \in DOMAIN NavSchema
        \/ t \in DOMAIN ComputationSchema
    BY <1>4, PartsOfRegistry DEF HasParts
  <2>3. CASE t \in DOMAIN ReferenceSchema
    BY <2>1, <2>3, PartsAdvertise, PartsOfRegistry DEF HasParts
  <2>4. CASE t \in DOMAIN PositionSchema
    BY <2>1, <2>4, PartsAdvertise, PartsOfRegistry DEF HasParts
  <2>5. CASE t \in DOMAIN MarketSchema
    BY <2>1, <2>5, PartsAdvertise, PartsOfRegistry DEF HasParts
  <2>6. CASE t \in DOMAIN NavSchema
    BY <2>1, <2>6, PartsAdvertise, PartsOfRegistry DEF HasParts
  <2>7. CASE t \in DOMAIN ComputationSchema
    BY <2>1, <2>7, PartsAdvertise, PartsOfRegistry DEF HasParts
  <2> QED
    BY <2>2, <2>3, <2>4, <2>5, <2>6, <2>7
<1> QED
  BY <1>3, <1>4

(* A call that keeps to the schema is accepted.                            *)
LEMMA ConformingIsAccepted ==
  ASSUME NEW c, Conforms(c)
  PROVE  Accepted(c)
<1> DEFINE t == c.tool
           s == Schema[t]
           a == Adapter[t]
<1>1. /\ t \in DOMAIN Schema /\ s.required \subseteq DOMAIN c.args
      /\ \A n \in DOMAIN c.args : c.args[n] # Bad /\ (c.args[n] = Null => n \in s.nullable)
  BY DEF Conforms
<1>2. /\ a.needs \subseteq s.required /\ s.required \cap s.nullable = {}
      /\ \A n \in (a.needs \cup a.may) \ Texts :
           \/ n \in {"start_date", "end_date"} /\ RangeIsOptional(t)
           \/ n \notin s.nullable /\ (n \in a.needs \/ n \in DOMAIN Default)
  BY <1>1, AdapterIsAdvertised DEF Advertises
<1>3. \A n \in DOMAIN Default : Default[n] \notin {Null, Bad}
  BY NoneAssumption DEF Default
<1>4. ASSUME NEW n \in Parsed(t, c.args) PROVE Arg(c.args, n) \notin {Null, Bad}
  <2>1. n \in (a.needs \cup a.may) \ Texts
    BY DEF Parsed
  <2>2. CASE n \in {"start_date", "end_date"} /\ RangeIsOptional(t)
    <3>1. HasRange(t, c.args)
      BY <2>2 DEF Parsed
    <3>2. Arg(c.args, n) # Null
      BY <2>2, <3>1 DEF HasRange
    <3>3. n \notin DOMAIN Default
      BY <2>2 DEF Default
    <3> QED
      BY <1>1, <3>2, <3>3 DEF Arg
  <2>3. CASE n \notin s.nullable /\ (n \in a.needs \/ n \in DOMAIN Default)
    BY <1>1, <1>2, <1>3, <2>3 DEF Arg
  <2> QED
    BY <1>2, <2>1, <2>2, <2>3
<1> QED
  BY <1>1, <1>2, <1>4 DEF Accepted, AdapterRaises

\* No call that keeps to its schema comes back as an error of the adapter
\* (dispatcher.py:340-728 against 133-326).
THEOREM SchemaAlwaysHonoured == Spec => []SchemaIsHonoured
<1>1. SchemaIsHonoured
  BY ConformingIsAccepted DEF SchemaIsHonoured
<1> QED
  BY <1>1, PTL
-----------------------------------------------------------------------------
(* Each table, in the part of the schema that lists it.                    *)
LEMMA TablesAre ==
  /\ Tables["funds"] = Table({"fund_id"}, {}, {})
  /\ Tables["share_classes"] = Table({"fund_id", "class_code"}, {}, {})
  /\ Tables["instruments"] = Table({"instrument_id"}, {"ticker", "ccy", "country"}, {})
  /\ Tables["fx_rates"] = Table({"as_of_date", "ccy", "snap"}, {}, {})
  /\ Tables["prices"] = Table({"as_of_date", "instrument_id", "source"}, {}, {})
  /\ Tables["bond_accruals"] = Table({"as_of_date", "instrument_id"}, {}, {})
  /\ Tables["corporate_actions"] =
       Table({"ca_id"}, {"instrument_id", "ca_type", "ex_date"}, {"applied_flag"})
  /\ Tables["wht_treaty"] = Table({"domicile_country", "source_country"}, {}, {})
  /\ Tables["fund_domiciles"] = Table({"fund_id"}, {}, {})
  /\ Tables["holdings"] = Table({"as_of_date", "fund_id", "instrument_id"}, {}, {})
  /\ Tables["trades"] =
       Table({"trade_id"}, {"fund_id", "instrument_id", "trade_date"}, {"booking_note"})
  /\ Tables["capstock"] = Table({"capstock_id"}, {"fund_id", "class_code", "as_of_date"}, {})
  /\ Tables["cash"] = Table({"as_of_date", "fund_id", "ccy"}, {}, {})
  /\ Tables["fee_accruals"] = Table({"as_of_date", "fund_id", "class_code"}, {}, {})
  /\ Tables["dividend_receipts"] =
       Table({"receipt_id"}, {"fund_id", "instrument_id", "as_of_date"}, {})
  /\ Tables["nav"] = Table({"as_of_date", "fund_id", "class_code"}, {}, {"is_break"})
  /\ DOMAIN Tables = {"funds", "share_classes", "instruments", "fx_rates", "prices", "bond_accruals", "corporate_actions", "wht_treaty", "fund_domiciles", "holdings", "trades", "capstock", "cash", "fee_accruals", "dividend_receipts", "nav"}
<1>1. Tables["funds"] = Table({"fund_id"}, {}, {})
  BY DEF Tables, ++, ReferenceTables, MarketTables, BookTables
<1>2. Tables["share_classes"] = Table({"fund_id", "class_code"}, {}, {})
  BY DEF Tables, ++, ReferenceTables, MarketTables, BookTables
<1>3. Tables["instruments"] = Table({"instrument_id"}, {"ticker", "ccy", "country"}, {})
  BY DEF Tables, ++, ReferenceTables, MarketTables, BookTables
<1>4. Tables["fx_rates"] = Table({"as_of_date", "ccy", "snap"}, {}, {})
  BY DEF Tables, ++, ReferenceTables, MarketTables, BookTables
<1>5. Tables["prices"] = Table({"as_of_date", "instrument_id", "source"}, {}, {})
  BY DEF Tables, ++, ReferenceTables, MarketTables, BookTables
<1>6. Tables["bond_accruals"] = Table({"as_of_date", "instrument_id"}, {}, {})
  BY DEF Tables, ++, ReferenceTables, MarketTables, BookTables
<1>7. Tables["corporate_actions"] =
       Table({"ca_id"}, {"instrument_id", "ca_type", "ex_date"}, {"applied_flag"})
  BY DEF Tables, ++, ReferenceTables, MarketTables, BookTables
<1>8. Tables["wht_treaty"] = Table({"domicile_country", "source_country"}, {}, {})
  BY DEF Tables, ++, ReferenceTables, MarketTables, BookTables
<1>9. Tables["fund_domiciles"] = Table({"fund_id"}, {}, {})
  BY DEF Tables, ++, ReferenceTables, MarketTables, BookTables
<1>10. Tables["holdings"] = Table({"as_of_date", "fund_id", "instrument_id"}, {}, {})
  BY DEF Tables, ++, ReferenceTables, MarketTables, BookTables
<1>11. Tables["trades"] =
       Table({"trade_id"}, {"fund_id", "instrument_id", "trade_date"}, {"booking_note"})
  BY DEF Tables, ++, ReferenceTables, MarketTables, BookTables
<1>12. Tables["capstock"] = Table({"capstock_id"}, {"fund_id", "class_code", "as_of_date"}, {})
  BY DEF Tables, ++, ReferenceTables, MarketTables, BookTables
<1>13. Tables["cash"] = Table({"as_of_date", "fund_id", "ccy"}, {}, {})
  BY DEF Tables, ++, ReferenceTables, MarketTables, BookTables
<1>14. Tables["fee_accruals"] = Table({"as_of_date", "fund_id", "class_code"}, {}, {})
  BY DEF Tables, ++, ReferenceTables, MarketTables, BookTables
<1>15. Tables["dividend_receipts"] =
       Table({"receipt_id"}, {"fund_id", "instrument_id", "as_of_date"}, {})
  BY DEF Tables, ++, ReferenceTables, MarketTables, BookTables
<1>16. Tables["nav"] = Table({"as_of_date", "fund_id", "class_code"}, {}, {"is_break"})
  BY DEF Tables, ++, ReferenceTables, MarketTables, BookTables
<1>17. DOMAIN Tables = {"funds", "share_classes", "instruments", "fx_rates", "prices", "bond_accruals", "corporate_actions", "wht_treaty", "fund_domiciles", "holdings", "trades", "capstock", "cash", "fee_accruals", "dividend_receipts", "nav"}
  BY DEF Tables, ++, ReferenceTables, MarketTables, BookTables
<1> QED
  BY <1>1, <1>2, <1>3, <1>4, <1>5, <1>6, <1>7, <1>8, <1>9, <1>10, <1>11, <1>12, <1>13, <1>14, <1>15, <1>16, <1>17

(* The columns a query may look at.                                        *)
Plain(t) == t.columns \ (t.hidden \cup {"rest"})

(* A query filters and sorts by plain columns of its table, shows no       *)
(* hidden one, and fixes the key of a row by its filters and its order.    *)
Keyed(q, t) ==
  /\ \A c \in q.equal \cup q.optional : c \in Plain(t)
  /\ q.within # Anytime => q.within \in Plain(t)
  /\ DOMAIN q.order = 1 .. Len(q.order) /\ Len(q.order) \in Nat
  /\ \A k \in DOMAIN q.order : q.order[k] \in Plain(t)
  /\ \A c \in q.shows : c \in t.columns /\ c \notin t.hidden
  /\ \A c \in t.key : c \in q.equal \/ \E k \in DOMAIN q.order : q.order[k] = c
  /\ "ca_type" \notin q.equal

LEMMA QueriesAreKeyed ==
  ASSUME NEW t \in DOMAIN QueryOf
  PROVE  QueryOf[t].from \in DOMAIN Tables /\ Keyed(QueryOf[t], Tables[QueryOf[t].from])
<1>1. t \in {"get_funds", "get_share_classes", "get_fund_domicile", "get_instruments", "get_treaty_rate", "get_fund_calendar", "get_holdings", "get_holdings_history", "get_trades", "get_cash", "get_capstock", "get_price_series", "get_price_around_date", "get_fx_rate", "get_fx_rates_all_snaps", "get_bond_accruals", "get_corporate_actions", "get_dividend_receipts", "get_nav_history", "get_fee_accruals"}
  BY DEF QueryOf
<1>2. CASE t = "get_funds"
  <2>1. QueryOf[t] = get_funds
    BY <1>2 DEF QueryOf
  <2>2. get_funds.from = "funds"
    BY DEF Select, get_funds
  <2>3. Keyed(get_funds, Tables["funds"])
    BY TablesAre DEF Keyed, Plain, Table, Select, Anytime, All, get_funds
  <2> QED
    BY <2>1, <2>2, <2>3, TablesAre
<1>3. CASE t = "get_share_classes"
  <2>1. QueryOf[t] = get_share_classes
    BY <1>3 DEF QueryOf
  <2>2. get_share_classes.from = "share_classes"
    BY DEF Select, get_share_classes
  <2>3. Keyed(get_share_classes, Tables["share_classes"])
    BY TablesAre DEF Keyed, Plain, Table, Select, Anytime, All, get_share_classes
  <2> QED
    BY <2>1, <2>2, <2>3, TablesAre
<1>4. CASE t = "get_fund_domicile"
  <2>1. QueryOf[t] = get_fund_domicile
    BY <1>4 DEF QueryOf
  <2>2. get_fund_domicile.from = "fund_domiciles"
    BY DEF Select, get_fund_domicile
  <2>3. Keyed(get_fund_domicile, Tables["fund_domiciles"])
    BY TablesAre DEF Keyed, Plain, Table, Select, Anytime, All, get_fund_domicile
  <2> QED
    BY <2>1, <2>2, <2>3, TablesAre
<1>5. CASE t = "get_instruments"
  <2>1. QueryOf[t] = get_instruments
    BY <1>5 DEF QueryOf
  <2>2. get_instruments.from = "instruments"
    BY DEF Select, get_instruments
  <2>3. Keyed(get_instruments, Tables["instruments"])
    BY TablesAre DEF Keyed, Plain, Table, Select, Anytime, All, get_instruments
  <2> QED
    BY <2>1, <2>2, <2>3, TablesAre
<1>6. CASE t = "get_treaty_rate"
  <2>1. QueryOf[t] = get_treaty_rate
    BY <1>6 DEF QueryOf
  <2>2. get_treaty_rate.from = "wht_treaty"
    BY DEF Select, get_treaty_rate
  <2>3. Keyed(get_treaty_rate, Tables["wht_treaty"])
    BY TablesAre DEF Keyed, Plain, Table, Select, Anytime, All, get_treaty_rate
  <2> QED
    BY <2>1, <2>2, <2>3, TablesAre
<1>7. CASE t = "get_fund_calendar"
  <2>1. QueryOf[t] = get_fund_calendar
    BY <1>7 DEF QueryOf
  <2>2. get_fund_calendar.from = "share_classes"
    BY DEF Select, get_fund_calendar
  <2>3. Keyed(get_fund_calendar, Tables["share_classes"])
    BY TablesAre DEF Keyed, Plain, Table, Select, Anytime, All, get_fund_calendar
  <2> QED
    BY <2>1, <2>2, <2>3, TablesAre
<1>8. CASE t = "get_holdings"
  <2>1. QueryOf[t] = get_holdings
    BY <1>8 DEF QueryOf
  <2>2. get_holdings.from = "holdings"
    BY DEF Select, get_holdings
  <2>3. Keyed(get_holdings, Tables["holdings"])
    BY TablesAre DEF Keyed, Plain, Table, Select, Anytime, All, get_holdings
  <2> QED
    BY <2>1, <2>2, <2>3, TablesAre
<1>9. CASE t = "get_holdings_history"
  <2>1. QueryOf[t] = get_holdings_history
    BY <1>9 DEF QueryOf
  <2>2. get_holdings_history.from = "holdings"
    BY DEF Select, get_holdings_history
  <2>3. Keyed(get_holdings_history, Tables["holdings"])
    BY TablesAre DEF Keyed, Plain, Table, Select, Anytime, All, get_holdings_history
  <2> QED
    BY <2>1, <2>2, <2>3, TablesAre
<1>10. CASE t = "get_trades"
  <2>1. QueryOf[t] = get_trades
    BY <1>10 DEF QueryOf
  <2>2. get_trades.from = "trades"
    BY DEF Select, get_trades
  <2>3. Keyed(get_trades, Tables["trades"])
    BY TablesAre DEF Keyed, Plain, Table, Select, Anytime, All, get_trades
  <2> QED
    BY <2>1, <2>2, <2>3, TablesAre
<1>11. CASE t = "get_cash"
  <2>1. QueryOf[t] = get_cash
    BY <1>11 DEF QueryOf
  <2>2. get_cash.from = "cash"
    BY DEF Select, get_cash
  <2>3. Keyed(get_cash, Tables["cash"])
    BY TablesAre DEF Keyed, Plain, Table, Select, Anytime, All, get_cash
  <2> QED
    BY <2>1, <2>2, <2>3, TablesAre
<1>12. CASE t = "get_capstock"
  <2>1. QueryOf[t] = get_capstock
    BY <1>12 DEF QueryOf
  <2>2. get_capstock.from = "capstock"
    BY DEF Select, get_capstock
  <2>3. Keyed(get_capstock, Tables["capstock"])
    BY TablesAre DEF Keyed, Plain, Table, Select, Anytime, All, get_capstock
  <2> QED
    BY <2>1, <2>2, <2>3, TablesAre
<1>13. CASE t = "get_price_series"
  <2>1. QueryOf[t] = get_price_series
    BY <1>13 DEF QueryOf
  <2>2. get_price_series.from = "prices"
    BY DEF Select, get_price_series
  <2>3. Keyed(get_price_series, Tables["prices"])
    BY TablesAre DEF Keyed, Plain, Table, Select, Anytime, All, get_price_series
  <2> QED
    BY <2>1, <2>2, <2>3, TablesAre
<1>14. CASE t = "get_price_around_date"
  <2>1. QueryOf[t] = get_price_around_date
    BY <1>14 DEF QueryOf
  <2>2. get_price_around_date.from = "prices"
    BY DEF Select, get_price_around_date, get_price_series
  <2>3. Keyed(get_price_around_date, Tables["prices"])
    BY TablesAre DEF Keyed, Plain, Table, Select, Anytime, All, get_price_around_date, get_price_series
  <2> QED
    BY <2>1, <2>2, <2>3, TablesAre
<1>15. CASE t = "get_fx_rate"
  <2>1. QueryOf[t] = get_fx_rate
    BY <1>15 DEF QueryOf
  <2>2. get_fx_rate.from = "fx_rates"
    BY DEF Select, get_fx_rate
  <2>3. Keyed(get_fx_rate, Tables["fx_rates"])
    BY TablesAre DEF Keyed, Plain, Table, Select, Anytime, All, get_fx_rate
  <2> QED
    BY <2>1, <2>2, <2>3, TablesAre
<1>16. CASE t = "get_fx_rates_all_snaps"
  <2>1. QueryOf[t] = get_fx_rates_all_snaps
    BY <1>16 DEF QueryOf
  <2>2. get_fx_rates_all_snaps.from = "fx_rates"
    BY DEF Select, get_fx_rates_all_snaps
  <2>3. Keyed(get_fx_rates_all_snaps, Tables["fx_rates"])
    BY TablesAre DEF Keyed, Plain, Table, Select, Anytime, All, get_fx_rates_all_snaps
  <2> QED
    BY <2>1, <2>2, <2>3, TablesAre
<1>17. CASE t = "get_bond_accruals"
  <2>1. QueryOf[t] = get_bond_accruals
    BY <1>17 DEF QueryOf
  <2>2. get_bond_accruals.from = "bond_accruals"
    BY DEF Select, get_bond_accruals
  <2>3. Keyed(get_bond_accruals, Tables["bond_accruals"])
    BY TablesAre DEF Keyed, Plain, Table, Select, Anytime, All, get_bond_accruals
  <2> QED
    BY <2>1, <2>2, <2>3, TablesAre
<1>18. CASE t = "get_corporate_actions"
  <2>1. QueryOf[t] = get_corporate_actions
    BY <1>18 DEF QueryOf
  <2>2. get_corporate_actions.from = "corporate_actions"
    BY DEF Select, get_corporate_actions
  <2>3. Keyed(get_corporate_actions, Tables["corporate_actions"])
    BY TablesAre DEF Keyed, Plain, Table, Select, Anytime, All, get_corporate_actions
  <2> QED
    BY <2>1, <2>2, <2>3, TablesAre
<1>19. CASE t = "get_dividend_receipts"
  <2>1. QueryOf[t] = get_dividend_receipts
    BY <1>19 DEF QueryOf
  <2>2. get_dividend_receipts.from = "dividend_receipts"
    BY DEF Select, get_dividend_receipts
  <2>3. Keyed(get_dividend_receipts, Tables["dividend_receipts"])
    BY TablesAre DEF Keyed, Plain, Table, Select, Anytime, All, get_dividend_receipts
  <2> QED
    BY <2>1, <2>2, <2>3, TablesAre
<1>20. CASE t = "get_nav_history"
  <2>1. QueryOf[t] = get_nav_history
    BY <1>20 DEF QueryOf
  <2>2. get_nav_history.from = "nav"
    BY DEF Select, get_nav_history
  <2>3. Keyed(get_nav_history, Tables["nav"])
    BY TablesAre DEF Keyed, Plain, Table, Select, Anytime, All, get_nav_history
  <2> QED
    BY <2>1, <2>2, <2>3, TablesAre
<1>21. CASE t = "get_fee_accruals"
  <2>1. QueryOf[t] = get_fee_accruals
    BY <1>21 DEF QueryOf
  <2>2. get_fee_accruals.from = "fee_accruals"
    BY DEF Select, get_fee_accruals
  <2>3. Keyed(get_fee_accruals, Tables["fee_accruals"])
    BY TablesAre DEF Keyed, Plain, Table, Select, Anytime, All, get_fee_accruals
  <2> QED
    BY <2>1, <2>2, <2>3, TablesAre
<1> QED
  BY <1>1, <1>2, <1>3, <1>4, <1>5, <1>6, <1>7, <1>8, <1>9, <1>10, <1>11, <1>12, <1>13, <1>14, <1>15, <1>16, <1>17, <1>18, <1>19, <1>20, <1>21

(* What an argument may be called that is no filter of one column.         *)
RangeNames == {"start_date", "end_date", "target_date", "lookback_days", "lookahead_days"}
NamesOf(s) == s.required \cup s.nullable \cup s.plain

(* The schema s of the tool t has an argument for every filter of its      *)
(* query q, none that is ignored, and the ends of a range of dates if and  *)
(* only if the query has one.                                              *)
Covered(t, q, s) ==
  /\ \A c \in q.equal \cup q.optional :
       ArgOf(c) \in NamesOf(s) \ RangeNames /\ c \notin {"share_class", "ca_types"}
  /\ \A c \in q.equal : \/ ArgOf(c) \in s.required
                        \/ ArgOf(c) \in s.plain /\ ArgOf(c) \in DOMAIN Default
  /\ \A n \in NamesOf(s) \ RangeNames : \E c \in q.equal \cup q.optional : ArgOf(c) = n
  /\ s.required \cap s.nullable = {} /\ s.plain \cap s.nullable = {}
  /\ q.within = Anytime => \A n \in NamesOf(s) : n \notin RangeNames
  /\ q.within # Anytime => q.within = DateOf(q.from)
  /\ q.within # Anytime /\ t = "get_price_around_date" =>
       /\ ~RangeIsOptional(t)
       /\ "target_date" \in s.required /\ s.plain \cap RangeNames = {"lookback_days", "lookahead_days"}
       /\ "start_date" \notin NamesOf(s) /\ "end_date" \notin NamesOf(s)
  /\ q.within # Anytime /\ t # "get_price_around_date" =>
       /\ IF RangeIsOptional(t) THEN {"start_date", "end_date"} \subseteq s.nullable
          ELSE {"start_date", "end_date"} \subseteq s.required
       /\ "target_date" \notin NamesOf(s)
       /\ "lookback_days" \notin NamesOf(s) /\ "lookahead_days" \notin NamesOf(s)

LEMMA QueriesAreCovered ==
  ASSUME NEW t \in DOMAIN QueryOf
  PROVE  t \in DOMAIN Schema /\ Covered(t, QueryOf[t], Schema[t])
<1>1. t \in {"get_funds", "get_share_classes", "get_fund_domicile", "get_instruments", "get_treaty_rate", "get_fund_calendar", "get_holdings", "get_holdings_history", "get_trades", "get_cash", "get_capstock", "get_price_series", "get_price_around_date", "get_fx_rate", "get_fx_rates_all_snaps", "get_bond_accruals", "get_corporate_actions", "get_dividend_receipts", "get_nav_history", "get_fee_accruals"}
  BY DEF QueryOf
<1>2. CASE t = "get_funds"
  <2>1. QueryOf[t] = get_funds
    BY <1>2 DEF QueryOf
  <2>2. t \in DOMAIN ReferenceSchema /\ RangeIsOptional(t) = FALSE
    BY <1>2, NamesOfTools DEF RangeIsOptional
  <2>3. t \in DOMAIN Schema /\ Schema[t] = ReferenceSchema["get_funds"]
    BY <1>2, <2>2, PartsOfRegistry DEF HasParts
  <2>4. Covered(t, get_funds, ReferenceSchema["get_funds"])
    BY <1>2, <2>2 DEF Covered, NamesOf, RangeNames, ArgOf, DateOf, Default, Anytime, Select,
         Takes, ReferenceSchema, get_funds
  <2> QED
    BY <2>1, <2>3, <2>4
<1>3. CASE t = "get_share_classes"
  <2>1. QueryOf[t] = get_share_classes
    BY <1>3 DEF QueryOf
  <2>2. t \in DOMAIN ReferenceSchema /\ RangeIsOptional(t) = FALSE
    BY <1>3, NamesOfTools DEF RangeIsOptional
  <2>3. t \in DOMAIN Schema /\ Schema[t] = ReferenceSchema["get_share_classes"]
    BY <1>3, <2>2, PartsOfRegistry DEF HasParts
  <2>4. Covered(t, get_share_classes, ReferenceSchema["get_share_classes"])
    BY <1>3, <2>2 DEF Covered, NamesOf, RangeNames, ArgOf, DateOf, Default, Anytime, Select,
         Takes, ReferenceSchema, get_share_classes
  <2> QED
    BY <2>1, <2>3, <2>4
<1>4. CASE t = "get_fund_domicile"
  <2>1. QueryOf[t] = get_fund_domicile
    BY <1>4 DEF QueryOf
  <2>2. t \in DOMAIN ReferenceSchema /\ RangeIsOptional(t) = FALSE
    BY <1>4, NamesOfTools DEF RangeIsOptional
  <2>3. t \in DOMAIN Schema /\ Schema[t] = ReferenceSchema["get_fund_domicile"]
    BY <1>4, <2>2, PartsOfRegistry DEF HasParts
  <2>4. Covered(t, get_fund_domicile, ReferenceSchema["get_fund_domicile"])
    BY <1>4, <2>2 DEF Covered, NamesOf, RangeNames, ArgOf, DateOf, Default, Anytime, Select,
         Takes, ReferenceSchema, get_fund_domicile
  <2> QED
    BY <2>1, <2>3, <2>4
<1>5. CASE t = "get_instruments"
  <2>1. QueryOf[t] = get_instruments
    BY <1>5 DEF QueryOf
  <2>2. t \in DOMAIN ReferenceSchema /\ RangeIsOptional(t) = FALSE
    BY <1>5, NamesOfTools DEF RangeIsOptional
  <2>3. t \in DOMAIN Schema /\ Schema[t] = ReferenceSchema["get_instruments"]
    BY <1>5, <2>2, PartsOfRegistry DEF HasParts
  <2>4. Covered(t, get_instruments, ReferenceSchema["get_instruments"])
    BY <1>5, <2>2 DEF Covered, NamesOf, RangeNames, ArgOf, DateOf, Default, Anytime, Select,
         Takes, ReferenceSchema, get_instruments
  <2> QED
    BY <2>1, <2>3, <2>4
<1>6. CASE t = "get_treaty_rate"
  <2>1. QueryOf[t] = get_treaty_rate
    BY <1>6 DEF QueryOf
  <2>2. t \in DOMAIN ReferenceSchema /\ RangeIsOptional(t) = FALSE
    BY <1>6, NamesOfTools DEF RangeIsOptional
  <2>3. t \in DOMAIN Schema /\ Schema[t] = ReferenceSchema["get_treaty_rate"]
    BY <1>6, <2>2, PartsOfRegistry DEF HasParts
  <2>4. Covered(t, get_treaty_rate, ReferenceSchema["get_treaty_rate"])
    BY <1>6, <2>2 DEF Covered, NamesOf, RangeNames, ArgOf, DateOf, Default, Anytime, Select,
         Takes, ReferenceSchema, get_treaty_rate
  <2> QED
    BY <2>1, <2>3, <2>4
<1>7. CASE t = "get_fund_calendar"
  <2>1. QueryOf[t] = get_fund_calendar
    BY <1>7 DEF QueryOf
  <2>2. t \in DOMAIN ReferenceSchema /\ RangeIsOptional(t) = FALSE
    BY <1>7, NamesOfTools DEF RangeIsOptional
  <2>3. t \in DOMAIN Schema /\ Schema[t] = ReferenceSchema["get_fund_calendar"]
    BY <1>7, <2>2, PartsOfRegistry DEF HasParts
  <2>4. Covered(t, get_fund_calendar, ReferenceSchema["get_fund_calendar"])
    BY <1>7, <2>2 DEF Covered, NamesOf, RangeNames, ArgOf, DateOf, Default, Anytime, Select,
         Takes, ReferenceSchema, get_fund_calendar
  <2> QED
    BY <2>1, <2>3, <2>4
<1>8. CASE t = "get_holdings"
  <2>1. QueryOf[t] = get_holdings
    BY <1>8 DEF QueryOf
  <2>2. t \in DOMAIN PositionSchema /\ RangeIsOptional(t) = FALSE
    BY <1>8, NamesOfTools DEF RangeIsOptional
  <2>3. t \in DOMAIN Schema /\ Schema[t] = PositionSchema["get_holdings"]
    BY <1>8, <2>2, PartsOfRegistry DEF HasParts
  <2>4. Covered(t, get_holdings, PositionSchema["get_holdings"])
    BY <1>8, <2>2 DEF Covered, NamesOf, RangeNames, ArgOf, DateOf, Default, Anytime, Select,
         Takes, PositionSchema, get_holdings
  <2> QED
    BY <2>1, <2>3, <2>4
<1>9. CASE t = "get_holdings_history"
  <2>1. QueryOf[t] = get_holdings_history
    BY <1>9 DEF QueryOf
  <2>2. t \in DOMAIN PositionSchema /\ RangeIsOptional(t) = FALSE
    BY <1>9, NamesOfTools DEF RangeIsOptional
  <2>3. t \in DOMAIN Schema /\ Schema[t] = PositionSchema["get_holdings_history"]
    BY <1>9, <2>2, PartsOfRegistry DEF HasParts
  <2>4. Covered(t, get_holdings_history, PositionSchema["get_holdings_history"])
    BY <1>9, <2>2 DEF Covered, NamesOf, RangeNames, ArgOf, DateOf, Default, Anytime, Select,
         Takes, PositionSchema, get_holdings_history
  <2> QED
    BY <2>1, <2>3, <2>4
<1>10. CASE t = "get_trades"
  <2>1. QueryOf[t] = get_trades
    BY <1>10 DEF QueryOf
  <2>2. t \in DOMAIN PositionSchema /\ RangeIsOptional(t) = FALSE
    BY <1>10, NamesOfTools DEF RangeIsOptional
  <2>3. t \in DOMAIN Schema /\ Schema[t] = PositionSchema["get_trades"]
    BY <1>10, <2>2, PartsOfRegistry DEF HasParts
  <2>4. Covered(t, get_trades, PositionSchema["get_trades"])
    BY <1>10, <2>2 DEF Covered, NamesOf, RangeNames, ArgOf, DateOf, Default, Anytime, Select,
         Takes, PositionSchema, get_trades
  <2> QED
    BY <2>1, <2>3, <2>4
<1>11. CASE t = "get_cash"
  <2>1. QueryOf[t] = get_cash
    BY <1>11 DEF QueryOf
  <2>2. t \in DOMAIN PositionSchema /\ RangeIsOptional(t) = FALSE
    BY <1>11, NamesOfTools DEF RangeIsOptional
  <2>3. t \in DOMAIN Schema /\ Schema[t] = PositionSchema["get_cash"]
    BY <1>11, <2>2, PartsOfRegistry DEF HasParts
  <2>4. Covered(t, get_cash, PositionSchema["get_cash"])
    BY <1>11, <2>2 DEF Covered, NamesOf, RangeNames, ArgOf, DateOf, Default, Anytime, Select,
         Takes, PositionSchema, get_cash
  <2> QED
    BY <2>1, <2>3, <2>4
<1>12. CASE t = "get_capstock"
  <2>1. QueryOf[t] = get_capstock
    BY <1>12 DEF QueryOf
  <2>2. t \in DOMAIN PositionSchema /\ RangeIsOptional(t) = FALSE
    BY <1>12, NamesOfTools DEF RangeIsOptional
  <2>3. t \in DOMAIN Schema /\ Schema[t] = PositionSchema["get_capstock"]
    BY <1>12, <2>2, PartsOfRegistry DEF HasParts
  <2>4. Covered(t, get_capstock, PositionSchema["get_capstock"])
    BY <1>12, <2>2 DEF Covered, NamesOf, RangeNames, ArgOf, DateOf, Default, Anytime, Select,
         Takes, PositionSchema, get_capstock
  <2> QED
    BY <2>1, <2>3, <2>4
<1>13. CASE t = "get_price_series"
  <2>1. QueryOf[t] = get_price_series
    BY <1>13 DEF QueryOf
  <2>2. t \in DOMAIN MarketSchema /\ RangeIsOptional(t) = FALSE
    BY <1>13, NamesOfTools DEF RangeIsOptional
  <2>3. t \in DOMAIN Schema /\ Schema[t] = MarketSchema["get_price_series"]
    BY <1>13, <2>2, PartsOfRegistry DEF HasParts
  <2>4. Covered(t, get_price_series, MarketSchema["get_price_series"])
    BY <1>13, <2>2 DEF Covered, NamesOf, RangeNames, ArgOf, DateOf, Default, Anytime, Select,
         Takes, MarketSchema, get_price_series
  <2> QED
    BY <2>1, <2>3, <2>4
<1>14. CASE t = "get_price_around_date"
  <2>1. QueryOf[t] = get_price_around_date
    BY <1>14 DEF QueryOf
  <2>2. t \in DOMAIN MarketSchema /\ RangeIsOptional(t) = FALSE
    BY <1>14, NamesOfTools DEF RangeIsOptional
  <2>3. t \in DOMAIN Schema /\ Schema[t] = MarketSchema["get_price_around_date"]
    BY <1>14, <2>2, PartsOfRegistry DEF HasParts
  <2>4. Covered(t, get_price_around_date, MarketSchema["get_price_around_date"])
    BY <1>14, <2>2 DEF Covered, NamesOf, RangeNames, ArgOf, DateOf, Default, Anytime, Select,
         Takes, MarketSchema, get_price_around_date, get_price_series
  <2> QED
    BY <2>1, <2>3, <2>4
<1>15. CASE t = "get_fx_rate"
  <2>1. QueryOf[t] = get_fx_rate
    BY <1>15 DEF QueryOf
  <2>2. t \in DOMAIN MarketSchema /\ RangeIsOptional(t) = FALSE
    BY <1>15, NamesOfTools DEF RangeIsOptional
  <2>3. t \in DOMAIN Schema /\ Schema[t] = MarketSchema["get_fx_rate"]
    BY <1>15, <2>2, PartsOfRegistry DEF HasParts
  <2>4. Covered(t, get_fx_rate, MarketSchema["get_fx_rate"])
    BY <1>15, <2>2 DEF Covered, NamesOf, RangeNames, ArgOf, DateOf, Default, Anytime, Select,
         Takes, MarketSchema, get_fx_rate
  <2> QED
    BY <2>1, <2>3, <2>4
<1>16. CASE t = "get_fx_rates_all_snaps"
  <2>1. QueryOf[t] = get_fx_rates_all_snaps
    BY <1>16 DEF QueryOf
  <2>2. t \in DOMAIN MarketSchema /\ RangeIsOptional(t) = FALSE
    BY <1>16, NamesOfTools DEF RangeIsOptional
  <2>3. t \in DOMAIN Schema /\ Schema[t] = MarketSchema["get_fx_rates_all_snaps"]
    BY <1>16, <2>2, PartsOfRegistry DEF HasParts
  <2>4. Covered(t, get_fx_rates_all_snaps, MarketSchema["get_fx_rates_all_snaps"])
    BY <1>16, <2>2 DEF Covered, NamesOf, RangeNames, ArgOf, DateOf, Default, Anytime, Select,
         Takes, MarketSchema, get_fx_rates_all_snaps
  <2> QED
    BY <2>1, <2>3, <2>4
<1>17. CASE t = "get_bond_accruals"
  <2>1. QueryOf[t] = get_bond_accruals
    BY <1>17 DEF QueryOf
  <2>2. t \in DOMAIN MarketSchema /\ RangeIsOptional(t) = FALSE
    BY <1>17, NamesOfTools DEF RangeIsOptional
  <2>3. t \in DOMAIN Schema /\ Schema[t] = MarketSchema["get_bond_accruals"]
    BY <1>17, <2>2, PartsOfRegistry DEF HasParts
  <2>4. Covered(t, get_bond_accruals, MarketSchema["get_bond_accruals"])
    BY <1>17, <2>2 DEF Covered, NamesOf, RangeNames, ArgOf, DateOf, Default, Anytime, Select,
         Takes, MarketSchema, get_bond_accruals
  <2> QED
    BY <2>1, <2>3, <2>4
<1>18. CASE t = "get_corporate_actions"
  <2>1. QueryOf[t] = get_corporate_actions
    BY <1>18 DEF QueryOf
  <2>2. t \in DOMAIN IncomeSchema /\ RangeIsOptional(t) = TRUE
    BY <1>18, NamesOfTools DEF RangeIsOptional
  <2>3. t \in DOMAIN Schema /\ Schema[t] = IncomeSchema["get_corporate_actions"]
    BY <1>18, <2>2, PartsOfRegistry DEF HasParts
  <2>4. Covered(t, get_corporate_actions, IncomeSchema["get_corporate_actions"])
    BY <1>18, <2>2 DEF Covered, NamesOf, RangeNames, ArgOf, DateOf, Default, Anytime, Select,
         Takes, IncomeSchema, get_corporate_actions
  <2> QED
    BY <2>1, <2>3, <2>4
<1>19. CASE t = "get_dividend_receipts"
  <2>1. QueryOf[t] = get_dividend_receipts
    BY <1>19 DEF QueryOf
  <2>2. t \in DOMAIN IncomeSchema /\ RangeIsOptional(t) = TRUE
    BY <1>19, NamesOfTools DEF RangeIsOptional
  <2>3. t \in DOMAIN Schema /\ Schema[t] = IncomeSchema["get_dividend_receipts"]
    BY <1>19, <2>2, PartsOfRegistry DEF HasParts
  <2>4. Covered(t, get_dividend_receipts, IncomeSchema["get_dividend_receipts"])
    BY <1>19, <2>2 DEF Covered, NamesOf, RangeNames, ArgOf, DateOf, Default, Anytime, Select,
         Takes, IncomeSchema, get_dividend_receipts
  <2> QED
    BY <2>1, <2>3, <2>4
<1>20. CASE t = "get_nav_history"
  <2>1. QueryOf[t] = get_nav_history
    BY <1>20 DEF QueryOf
  <2>2. t \in DOMAIN NavSchema /\ RangeIsOptional(t) = FALSE
    BY <1>20, NamesOfTools DEF RangeIsOptional
  <2>3. t \in DOMAIN Schema /\ Schema[t] = NavSchema["get_nav_history"]
    BY <1>20, <2>2, PartsOfRegistry DEF HasParts
  <2>4. Covered(t, get_nav_history, NavSchema["get_nav_history"])
    BY <1>20, <2>2 DEF Covered, NamesOf, RangeNames, ArgOf, DateOf, Default, Anytime, Select,
         Takes, NavSchema, get_nav_history
  <2> QED
    BY <2>1, <2>3, <2>4
<1>21. CASE t = "get_fee_accruals"
  <2>1. QueryOf[t] = get_fee_accruals
    BY <1>21 DEF QueryOf
  <2>2. t \in DOMAIN NavSchema /\ RangeIsOptional(t) = FALSE
    BY <1>21, NamesOfTools DEF RangeIsOptional
  <2>3. t \in DOMAIN Schema /\ Schema[t] = NavSchema["get_fee_accruals"]
    BY <1>21, <2>2, PartsOfRegistry DEF HasParts
  <2>4. Covered(t, get_fee_accruals, NavSchema["get_fee_accruals"])
    BY <1>21, <2>2 DEF Covered, NamesOf, RangeNames, ArgOf, DateOf, Default, Anytime, Select,
         Takes, NavSchema, get_fee_accruals
  <2> QED
    BY <2>1, <2>3, <2>4
<1> QED
  BY <1>1, <1>2, <1>3, <1>4, <1>5, <1>6, <1>7, <1>8, <1>9, <1>10, <1>11, <1>12, <1>13, <1>14, <1>15, <1>16, <1>17, <1>18, <1>19, <1>20, <1>21

(* For a call that keeps to the schema, what is required is given, and     *)
(* what is plain is given or has a default.                                *)
LEMMA ArgIsGiven ==
  ASSUME NEW c, Conforms(c),
         Schema[c.tool].required \cap Schema[c.tool].nullable = {},
         Schema[c.tool].plain \cap Schema[c.tool].nullable = {}
  PROVE  /\ \A n \in Schema[c.tool].required : Arg(c.args, n) # Null
         /\ \A n \in Schema[c.tool].plain : n \in DOMAIN Default => Arg(c.args, n) # Null
<1>1. \A m \in DOMAIN Default : Default[m] # Null
  BY NoneAssumption DEF Default
<1> QED
  BY <1>1 DEF Conforms, Arg

(* One argument of one column: the filter of the query and the meaning of  *)
(* the argument agree on every row.                                        *)
LEMMA FilterSays ==
  ASSUME NEW r, NEW d, NEW args, NEW c,
         c \notin {"share_class", "ca_types"}, ArgOf(c) \notin RangeNames,
         Arg(args, ArgOf(c)) # Null
  PROVE  Holds(r, c, Arg(args, ArgOf(c))) <=> Says(r, d, args, ArgOf(c))
<1>1. CASE c = "ca_type"
  BY <1>1 DEF ArgOf, Holds, Says
<1>2. CASE c = "class_code"
  BY <1>2 DEF ArgOf, Holds, Says
<1>3. CASE c \notin {"ca_type", "class_code"}
  <2>1. ArgOf(c) = c
    BY <1>3 DEF ArgOf
  <2>2. Says(r, d, args, c) <=> r[c] = Arg(args, c)
    BY <1>3, <2>1 DEF Says, RangeNames
  <2> QED
    BY <1>3, <2>1, <2>2 DEF Holds
<1> QED
  BY <1>1, <1>2, <1>3

(* The ends of the range together.                                         *)
LEMMA RangeSays ==
  ASSUME NEW c, Conforms(c), c.tool \in DOMAIN QueryOf, HasRange(c.tool, c.args),
         QueryOf[c.tool].within # Anytime, NEW r, NEW d
  PROVE  Between(c.tool, c.args, r[d])
           <=> \A n \in NamesOf(Schema[c.tool]) \cap RangeNames :
                 Arg(c.args, n) # Null => Says(r, d, c.args, n)
<1> DEFINE t == c.tool
           s == Schema[t]
<1>1. Covered(t, QueryOf[t], s)
  BY QueriesAreCovered
<1>2. /\ \A n \in s.required : Arg(c.args, n) # Null
      /\ \A n \in s.plain : n \in DOMAIN Default => Arg(c.args, n) # Null
  BY <1>1, ArgIsGiven DEF Covered
<1>3. CASE t = "get_price_around_date"
  <2>1. NamesOf(s) \cap RangeNames = {"target_date", "lookback_days", "lookahead_days"}
    BY <1>1, <1>3 DEF Covered, NamesOf, RangeNames
  <2>2. Arg(c.args, "target_date") # Null
    BY <1>1, <1>2, <1>3 DEF Covered
  <2>3. \A n \in {"lookback_days", "lookahead_days"} : Says(r, d, c.args, n)
    BY DEF Says
  <2>4. Says(r, d, c.args, "target_date")
          <=> /\ Arg(c.args, "target_date") - Arg(c.args, "lookback_days") <= r[d]
              /\ r[d] <= Arg(c.args, "target_date") + Arg(c.args, "lookahead_days")
    BY DEF Says
  <2> QED
    BY <1>3, <2>1, <2>2, <2>3, <2>4 DEF Between
<1>4. CASE t # "get_price_around_date"
  <2>1. NamesOf(s) \cap RangeNames = {"start_date", "end_date"}
    BY <1>1, <1>4 DEF Covered, NamesOf, RangeNames
  <2>2. Arg(c.args, "start_date") # Null /\ Arg(c.args, "end_date") # Null
    BY <1>1, <1>2, <1>4 DEF Covered, HasRange
  <2>3. /\ Says(r, d, c.args, "start_date") <=> Arg(c.args, "start_date") <= r[d]
        /\ Says(r, d, c.args, "end_date") <=> r[d] <= Arg(c.args, "end_date")
    BY DEF Says
  <2> QED
    BY <1>4, <2>1, <2>2, <2>3 DEF Between
<1> QED
  BY <1>3, <1>4

LEMMA FoundIsAsked ==
  ASSUME NEW c, Conforms(c), c.tool \in DOMAIN QueryOf, HasRange(c.tool, c.args)
  PROVE  Found(db, c.tool, c.args) = Asked(c)
<1> DEFINE t == c.tool
           q == QueryOf[t]
           s == Schema[t]
           d == DateOf(q.from)
           Given(n) == Arg(c.args, n) # Null
<1>1. Covered(t, q, s)
  BY QueriesAreCovered
<1> SUFFICES ASSUME NEW r \in db[q.from]
             PROVE  r \in Found(db, t, c.args) <=> r \in Asked(c)
  BY DEF Found, Asked
<1>2. /\ \A n \in s.required : Given(n)
      /\ \A n \in s.plain : n \in DOMAIN Default => Given(n)
  BY <1>1, ArgIsGiven DEF Covered
<1>3. \A x \in q.equal : Given(ArgOf(x))
  BY <1>1, <1>2 DEF Covered
<1>4. \A x \in q.equal \cup q.optional :
        Given(ArgOf(x)) =>
          (Holds(r, x, Arg(c.args, ArgOf(x))) <=> Says(r, d, c.args, ArgOf(x)))
  BY <1>1, FilterSays DEF Covered
<1>5. (q.within # Anytime => Between(t, c.args, r[q.within]))
        <=> \A n \in NamesOf(s) \cap RangeNames : Given(n) => Says(r, d, c.args, n)
  <2>1. CASE q.within = Anytime
    BY <1>1, <2>1 DEF Covered
  <2>2. CASE q.within # Anytime
    BY <1>1, <2>2, RangeSays DEF Covered
  <2> QED
    BY <2>1, <2>2
<1>6. r \in Asked(c) <=> \A n \in NamesOf(s) : Given(n) => Says(r, d, c.args, n)
  BY DEF Asked, NamesOf
<1>7. r \in Found(db, t, c.args)
        <=> /\ \A x \in q.equal : Holds(r, x, Arg(c.args, ArgOf(x)))
            /\ \A x \in q.optional : Given(ArgOf(x)) => Holds(r, x, Arg(c.args, ArgOf(x)))
            /\ q.within # Anytime => Between(t, c.args, r[q.within])
  BY DEF Found
<1>8. (\A n \in NamesOf(s) \ RangeNames : Given(n) => Says(r, d, c.args, n))
        <=> /\ \A x \in q.equal : Holds(r, x, Arg(c.args, ArgOf(x)))
            /\ \A x \in q.optional : Given(ArgOf(x)) => Holds(r, x, Arg(c.args, ArgOf(x)))
  <2> HIDE DEF Given, d, q, s
  <2> QED
    BY <1>1, <1>3, <1>4 DEF Covered
<1> HIDE DEF Given, d, q, s, t
<1> QED
  BY <1>5, <1>6, <1>7, <1>8

-----------------------------------------------------------------------------
(* The rows of a table in an order of the query: each once, and all.       *)
LEMMA OrderingListsAll ==
  ASSUME NEW S, IsFiniteSet(S), NEW order, NEW s \in Orderings(S, order)
  PROVE  /\ Cardinality(S) \in Nat
         /\ s \in [1 .. Cardinality(S) -> S]
         /\ \A r \in S : \E k \in 1 .. Cardinality(S) : s[k] = r
<1> DEFINE n == Cardinality(S)
<1>1. n \in Nat
  BY FS_CardinalityType
<1>2. s \in [1 .. n -> S]
  BY DEF Orderings
<1>3. \A j, k \in 1 .. n : j < k => s[j] # s[k]
  BY <1>2 DEF Orderings
<1>4. \A j, k \in 1 .. n : s[j] = s[k] => j = k
  <2> HIDE DEF n
  <2> QED
    BY <1>1, <1>3
<1>5. s \in Injection(1 .. n, S)
  BY <1>2, <1>4, Fun_IsInj
<1>6. IsFiniteSet(1 .. n) /\ Cardinality(1 .. n) = n
  <2>1. 1 \in Int /\ n \in Int
    BY <1>1
  <2> HIDE DEF n
  <2>2. IsFiniteSet(1 .. n) /\ Cardinality(1 .. n) = IF 1 > n THEN 0 ELSE n - 1 + 1
    BY <2>1, FS_Interval
  <2> QED
    BY <1>1, <2>2
<1>7. s \in Surjection(1 .. n, S)
  BY <1>5, <1>6, FS_Injection
<1> QED
  BY <1>1, <1>2, <1>7, Fun_SurjectionProperties

(* What is left of n rows by the cut.                                      *)
IsCut(h, rows, n) ==
  /\ Len(rows) = n
  /\ Len(h) = (IF n < MaxRows THEN n ELSE MaxRows)
  /\ DOMAIN h = 1 .. Len(h)
  /\ \A k \in DOMAIN h : k \in 1 .. n /\ h[k] = rows[k]

LEMMA CutIsHead ==
  ASSUME NEW n \in Nat, NEW R, NEW rows \in [1 .. n -> R]
  PROVE  IsCut(Cut(rows), rows, n)
<1> DEFINE m == IF n < MaxRows THEN n ELSE MaxRows
           h == SubSeq(rows, 1, m)
<1>1. MaxRows \in Nat /\ m \in 0 .. n
  BY BoundsAssumption
<1>2. Len(rows) = n
  <2>1. [k \in 1 .. n |-> rows[k]] \in Seq(R) /\ rows = [k \in 1 .. n |-> rows[k]]
    OBVIOUS
  <2>2. rows \in Seq(R) /\ DOMAIN rows = 1 .. n
    BY <2>1
  <2> QED
    BY <2>2, LenProperties
<1>3. Cut(rows) = h
  BY <1>2 DEF Cut
<1> HIDE DEF m
<1>4. /\ h \in Seq(R) /\ Len(h) = (IF 1 <= m THEN m - 1 + 1 ELSE 0)
      /\ \A k \in 1 .. m - 1 + 1 : h[k] = rows[1 + k - 1]
  <2>1. 1 \in Int /\ m \in Int
    BY <1>1
  <2>2. \A k \in 1 .. m : rows[k] \in R
    BY <1>1
  <2> QED
    BY <2>1, <2>2, SubSeqProperties
<1> HIDE DEF h
<1>5. Len(h) = m
  BY <1>1, <1>4
<1>6. DOMAIN h = 1 .. m
  BY <1>4, <1>5, LenProperties
<1>7. ASSUME NEW k \in 1 .. m PROVE k \in 1 .. n /\ h[k] = rows[k]
  <2>1. k \in 1 .. m - 1 + 1 /\ 1 + k - 1 = k /\ k \in 1 .. n
    BY <1>1
  <2> QED
    BY <1>4, <2>1
<1> QED
  BY <1>2, <1>3, <1>5, <1>6, <1>7 DEF m, IsCut

(* The tools that query are not those that compute.                        *)
LEMMA QueryOutcomes ==
  ASSUME NEW w, NEW t \in DOMAIN QueryOf, NEW args, NEW o \in Outcomes(w, t, args)
  PROVE  \/ o = Raised /\ t = "get_fund_calendar" /\ Found(w, t, args) = {}
         \/ \E s \in Orderings(Found(w, t, args), QueryOf[t].order) :
              o = Outcome(FALSE, Project(s, QueryOf[t].shows), << >>)
<1>1. t # "detect_flat_run_in_series" /\ t \notin DOMAIN ComputationArgs
  BY NamesOfTools DEF QueryOf
<1> QED
  BY <1>1 DEF Outcomes

(* A warehouse is finite, and so is what a query finds in it.              *)
LEMMA FoundIsFinite ==
  ASSUME NEW w, IsWarehouse(w), NEW t \in DOMAIN QueryOf, NEW args
  PROVE  IsFiniteSet(Found(w, t, args)) /\ Found(w, t, args) \subseteq w[QueryOf[t].from]
<1>1. IsFiniteSet(w[QueryOf[t].from])
  BY QueriesAreKeyed DEF IsWarehouse
<1>2. Found(w, t, args) \in SUBSET w[QueryOf[t].from]
  BY DEF Found
<1> QED
  BY <1>1, <1>2, FS_Subset

LEMMA AnswerIsTheAsked ==
  ASSUME db \in Warehouses, NEW c, Conforms(c), c.tool \in DOMAIN QueryOf,
         HasRange(c.tool, c.args), NEW p \in Answers(db, c)
  PROVE  IsAnswer(p, c)
<1> DEFINE q == QueryOf[c.tool]
           S == Asked(c)
           n == Cardinality(S)
<1> SUFFICES ASSUME ~p.error PROVE IsAnswer(p, c)
  BY DEF IsAnswer
<1>1. IsWarehouse(db) /\ S = Found(db, c.tool, c.args)
  BY WarehousesAssumption, FoundIsAsked
<1>2. IsFiniteSet(S)
  BY <1>1, FoundIsFinite
<1>3. PICK o \in Outcomes(db, c.tool, c.args) : p = serialize_result(o)
  BY ConformingIsAccepted DEF Answers
<1>4. PICK s \in Orderings(S, q.order) : o = Outcome(FALSE, Project(s, q.shows), << >>)
  <2>1. ~o.error
    BY <1>3 DEF serialize_result
  <2>2. o # Raised
    BY <2>1 DEF Raised, Outcome
  <2>3. \E s \in Orderings(Found(db, c.tool, c.args), QueryOf[c.tool].order) :
          o = Outcome(FALSE, Project(s, QueryOf[c.tool].shows), << >>)
    <3>1. PICK t, args : t = c.tool /\ args = c.args
      OBVIOUS
    <3>2. t \in DOMAIN QueryOf /\ o \in Outcomes(db, t, args)
      BY <1>3, <3>1
    <3> HIDE DEF q, S, n
    <3>3. \/ o = Raised
          \/ \E s \in Orderings(Found(db, t, args), QueryOf[t].order) :
               o = Outcome(FALSE, Project(s, QueryOf[t].shows), << >>)
      BY <3>2, QueryOutcomes
    <3> QED
      BY <2>2, <3>1, <3>3
  <2> HIDE DEF S
  <2> QED
    BY <1>1, <2>3
<1>5. /\ n \in Nat /\ s \in [1 .. n -> S]
      /\ \A r \in S : \E k \in 1 .. n : s[k] = r
  <2> HIDE DEF S
  <2> QED
    BY <1>2, OrderingListsAll
<1> DEFINE rows  == Project(s, q.shows)
           shows(r) == [x \in q.shows |-> r[x]]
           asked == {shows(r) : r \in S}
<1>6. rows = [k \in 1 .. n |-> shows(s[k])]
  BY <1>5 DEF Project
<1>7. p.rows = Cut(rows) /\ p.total = Len(rows) /\ (p.truncated <=> Len(rows) > MaxRows)
  BY <1>3, <1>4 DEF serialize_result, Outcome
<1>8. /\ Len(rows) = n
      /\ Len(Cut(rows)) = (IF n < MaxRows THEN n ELSE MaxRows)
      /\ DOMAIN Cut(rows) = 1 .. Len(Cut(rows))
      /\ \A k \in DOMAIN Cut(rows) : k \in 1 .. n /\ Cut(rows)[k] = shows(s[k])
  <2>1. rows \in [1 .. n -> asked] /\ \A k \in 1 .. n : rows[k] = shows(s[k])
    BY <1>5, <1>6
  <2> HIDE DEF rows, shows, n, asked
  <2>2. IsCut(Cut(rows), rows, n)
    BY <1>5, <2>1, CutIsHead
  <2> QED
    BY <2>1, <2>2 DEF IsCut
<1> HIDE DEF rows, shows, n, S
<1> DEFINE told == {p.rows[k] : k \in DOMAIN p.rows}
<1>9. told \subseteq asked
  BY <1>5, <1>7, <1>8
<1>10. MaxRows \in Nat
  BY BoundsAssumption
<1>11. p.truncated \/ told = asked
  <2> SUFFICES ASSUME ~p.truncated PROVE asked \subseteq told
    BY <1>9
  <2>1. DOMAIN p.rows = 1 .. n
    BY <1>5, <1>7, <1>8, <1>10
  <2>2. ASSUME NEW r \in S PROVE shows(r) \in told
    BY <1>5, <1>7, <1>8, <2>1
  <2> QED
    BY <2>2
<1>12. p.truncated <=> Len(p.rows) < p.total
  <2> HIDE DEF n
  <2> QED
    BY <1>5, <1>7, <1>8, <1>10
<1> QED
  BY <1>7, <1>8, <1>9, <1>11, <1>12 DEF IsAnswer, n, S, shows

\* A query shows what its arguments ask for, every one of them, and all of it
\* unless it says that it was cut, and then how much there is: in a warehouse
\* of any size, whatever is cut and wherever (dispatcher.py:57-97 and 165-280
\* against the SQL of tools/*.py).
THEOREM AnswersAlwaysTheAsked == Spec => []AnswersAreTheAsked
<1>1. Truthful => AnswersAreTheAsked
  BY AnswerIsTheAsked DEF Truthful, AnswersAreTheAsked, Queried
<1> QED
  BY <1>1, AlwaysTruthful, PTL

-----------------------------------------------------------------------------
(* A non-empty set of positions has a least element.                       *)
LEMMA HasLeast ==
  ASSUME NEW I \in SUBSET Nat, I # {}
  PROVE  \E x \in I : \A y \in I : x <= y
<1> DEFINE R == OpToRel(<, Nat)
<1>1. IsWellFoundedOn(R, Nat)
  BY NatLessThanWellFounded
<1>2. \A x, y \in Nat : y < x => << y, x >> \in R
  BY DEF OpToRel
<1> HIDE DEF R
<1>3. PICK x \in I : \A y \in I : ~ (<< y, x >> \in R)
  BY <1>1, WFMin
<1>4. ASSUME NEW y \in I PROVE x <= y
  <2>1. x \in Nat /\ y \in Nat
    OBVIOUS
  <2>2. ~ (y < x)
    BY <1>2, <1>3, <2>1
  <2> QED
    BY <2>1, <2>2
<1> QED
  BY <1>4

(* The columns of an ORDER BY tell all rows of S apart.                    *)
Decides(order, S) ==
  /\ \E n \in Nat : DOMAIN order = 1 .. n
  /\ \A r \in S : \A k \in DOMAIN order : r[order[k]] \in Int
  /\ \A r, s \in S : (\A k \in DOMAIN order : r[order[k]] = s[order[k]]) => r = s

(* Then ORDER BY is a strict total order on S.                             *)
LEMMA FollowsIsTotal ==
  ASSUME NEW S, NEW order, Decides(order, S), NEW r \in S, NEW s \in S, r # s
  PROVE  Follows(r, s, order) <=> ~Follows(s, r, order)
<1> PICK n \in Nat : DOMAIN order = 1 .. n
  BY DEF Decides
<1> DEFINE I == {k \in 1 .. n : r[order[k]] # s[order[k]]}
<1>1. I \in SUBSET Nat /\ I # {}
  BY DEF Decides
<1>2. PICK k \in I : \A j \in I : k <= j
  BY <1>1, HasLeast
<1>3. /\ k \in 1 .. n /\ r[order[k]] # s[order[k]]
      /\ \A j \in 1 .. k - 1 : r[order[j]] = s[order[j]]
  BY <1>2
<1>4. r[order[k]] \in Int /\ s[order[k]] \in Int
  BY <1>3 DEF Decides
<1> HIDE DEF I
<1>5. CASE s[order[k]] < r[order[k]]
  <2>1. Follows(r, s, order)
    BY <1>3, <1>5 DEF Follows
  <2>2. ~Follows(s, r, order)
    <3> SUFFICES ASSUME NEW m \in 1 .. n, r[order[m]] < s[order[m]],
                        \A j \in 1 .. m - 1 : s[order[j]] = r[order[j]]
                 PROVE  FALSE
      BY DEF Follows
    <3>1. r[order[m]] \in Int /\ s[order[m]] \in Int
      BY DEF Decides
    <3>2. m # k /\ ~ (m < k)
      BY <1>3, <1>4, <1>5, <3>1
    <3>3. k \in 1 .. m - 1
      BY <1>3, <3>2
    <3> QED
      BY <1>3, <3>3
  <2> QED
    BY <2>1, <2>2
<1>6. CASE r[order[k]] < s[order[k]]
  <2>1. Follows(s, r, order)
    BY <1>3, <1>6 DEF Follows
  <2>2. ~Follows(r, s, order)
    <3> SUFFICES ASSUME NEW m \in 1 .. n, s[order[m]] < r[order[m]],
                        \A j \in 1 .. m - 1 : r[order[j]] = s[order[j]]
                 PROVE  FALSE
      BY DEF Follows
    <3>1. r[order[m]] \in Int /\ s[order[m]] \in Int
      BY DEF Decides
    <3>2. m # k /\ ~ (m < k)
      BY <1>3, <1>4, <1>6, <3>1
    <3>3. k \in 1 .. m - 1
      BY <1>3, <3>2
    <3> QED
      BY <1>3, <3>3
  <2> QED
    BY <2>1, <2>2
<1> QED
  BY <1>3, <1>4, <1>5, <1>6

(* Two orderings of the same rows that agree up to k agree at k: otherwise *)
(* the row that one has at k comes later in the other.                     *)
LEMMA LaterInTheOther ==
  ASSUME NEW S, IsFiniteSet(S), NEW order, Decides(order, S),
         NEW s \in Orderings(S, order), NEW t \in Orderings(S, order),
         NEW k \in 1 .. Cardinality(S), s[k] # t[k], \A j \in 1 .. k - 1 : s[j] = t[j]
  PROVE  Follows(s[k], t[k], order)
<1> PICK n : n = Cardinality(S)
  OBVIOUS
<1>1. /\ n \in Nat /\ s \in [1 .. n -> S] /\ t \in [1 .. n -> S]
      /\ \A r \in S : \E j \in 1 .. n : t[j] = r
  BY OrderingListsAll
<1>2. PICK j \in 1 .. n : t[j] = s[k]
  BY <1>1
<1>3. /\ \A i, m \in 1 .. n : i < m => s[i] # s[m]
      /\ \A i, m \in 1 .. n : i < m => ~Follows(t[i], t[m], order)
  BY <1>1 DEF Orderings
<1>4. k < j
  <2>1. j # k
    BY <1>2
  <2>2. ~ (j < k)
    <3> SUFFICES ASSUME j < k PROVE FALSE
      OBVIOUS
    <3>1. j \in 1 .. k - 1 /\ k \in 1 .. n
      BY <1>1
    <3>2. s[j] = s[k]
      BY <1>2, <3>1
    <3> QED
      BY <1>3, <3>1, <3>2
  <2> QED
    BY <1>1, <2>1, <2>2
<1>5. ~Follows(t[k], s[k], order)
  BY <1>1, <1>2, <1>3, <1>4
<1>6. s[k] \in S /\ t[k] \in S
  BY <1>1
<1> QED
  BY <1>5, <1>6, FollowsIsTotal

LEMMA OneOrdering ==
  ASSUME NEW S, IsFiniteSet(S), NEW order, Decides(order, S),
         NEW s \in Orderings(S, order), NEW t \in Orderings(S, order)
  PROVE  s = t
<1> PICK n : n = Cardinality(S)
  OBVIOUS
<1>1. n \in Nat /\ s \in [1 .. n -> S] /\ t \in [1 .. n -> S]
  BY OrderingListsAll
<1> DEFINE I == {k \in 1 .. n : s[k] # t[k]}
<1>2. CASE I = {}
  BY <1>1, <1>2
<1>3. CASE I # {}
  <2>1. I \in SUBSET Nat
    OBVIOUS
  <2>2. PICK k \in I : \A j \in I : k <= j
    BY <1>3, <2>1, HasLeast
  <2>3. /\ k \in 1 .. n /\ s[k] # t[k]
        /\ \A j \in 1 .. k - 1 : s[j] = t[j]
    BY <1>1, <2>2
  <2>4. Follows(s[k], t[k], order)
    BY <2>3, LaterInTheOther
  <2>5. Follows(t[k], s[k], order)
    BY <2>3, LaterInTheOther
  <2>6. s[k] \in S /\ t[k] \in S
    BY <1>1, <2>3
  <2> QED
    BY <2>3, <2>4, <2>5, <2>6, FollowsIsTotal
<1> QED
  BY <1>2, <1>3

(* The filters and the ORDER BY of a query cover the primary key.          *)
LEMMA OrderDecides ==
  ASSUME NEW w, IsWarehouse(w), NEW t \in DOMAIN QueryOf, NEW args
  PROVE  Decides(QueryOf[t].order, Found(w, t, args))
<1> DEFINE q == QueryOf[t]
           T == Tables[q.from]
           S == Found(w, t, args)
<1>1. q.from \in DOMAIN Tables /\ Keyed(q, T)
  BY QueriesAreKeyed
<1>2. /\ \A r \in w[q.from] : /\ DOMAIN r = T.columns
                              /\ \A c \in Plain(T) : r[c] \in Int
      /\ \A r, s \in w[q.from] : (\A c \in T.key : r[c] = s[c]) => r = s
  BY <1>1 DEF IsWarehouse, Plain
<1>3. S \subseteq w[q.from]
  BY DEF Found
<1>4. \E n \in Nat : DOMAIN q.order = 1 .. n
  BY <1>1 DEF Keyed
<1>5. \A r \in S : \A k \in DOMAIN q.order : r[q.order[k]] \in Int
  BY <1>1, <1>2, <1>3 DEF Keyed
<1>6. ASSUME NEW r \in S, NEW s \in S, \A k \in DOMAIN q.order : r[q.order[k]] = s[q.order[k]]
      PROVE  r = s
  <2>1. ASSUME NEW c \in q.equal PROVE r[c] = s[c]
    <3>1. c # "ca_type"
      BY <1>1 DEF Keyed
    <3>2. Holds(r, c, Arg(args, ArgOf(c))) /\ Holds(s, c, Arg(args, ArgOf(c)))
      BY DEF Found
    <3> QED
      BY <3>1, <3>2 DEF Holds
  <2>2. \A c \in T.key : r[c] = s[c]
    BY <1>1, <1>6, <2>1 DEF Keyed
  <2> QED
    BY <1>2, <1>3, <2>2
<1> QED
  BY <1>4, <1>5, <1>6 DEF Decides

(* A computation has one outcome.                                          *)
LEMMA OneComputation ==
  ASSUME NEW w, NEW t \in DOMAIN ComputationArgs, NEW args
  PROVE  \E o : Outcomes(w, t, args) = {o}
<1>1. CASE t = "detect_flat_run_in_series"
  BY <1>1 DEF Outcomes
<1>2. CASE t # "detect_flat_run_in_series"
  <2>1. Outcomes(w, t, args) = {IF ComputeRaises(t, args) THEN Raised
                                ELSE Outcome(FALSE, << >>, Computed(t, args))}
    BY <1>2, NamesOfTools DEF Outcomes
  <2> QED
    BY <2>1, Zenon
<1> QED
  BY <1>1, <1>2

(* So has a query.                                                         *)
LEMMA OneQuery ==
  ASSUME NEW w, IsWarehouse(w), NEW t \in DOMAIN QueryOf, NEW args,
         NEW o \in Outcomes(w, t, args), NEW u \in Outcomes(w, t, args)
  PROVE  o = u
<1>1. CASE t = "get_fund_calendar" /\ Found(w, t, args) = {}
  <2>1. Outcomes(w, t, args) = {Raised}
    BY <1>1, NamesOfTools DEF Outcomes
  <2> QED
    BY <2>1
<1>2. CASE ~ (t = "get_fund_calendar" /\ Found(w, t, args) = {})
  <2>1. PICK s1 \in Orderings(Found(w, t, args), QueryOf[t].order) :
          o = Outcome(FALSE, Project(s1, QueryOf[t].shows), << >>)
    BY <1>2, QueryOutcomes
  <2>2. PICK s2 \in Orderings(Found(w, t, args), QueryOf[t].order) :
          u = Outcome(FALSE, Project(s2, QueryOf[t].shows), << >>)
    BY <1>2, QueryOutcomes
  <2>3. IsFiniteSet(Found(w, t, args)) /\ Decides(QueryOf[t].order, Found(w, t, args))
    BY FoundIsFinite, OrderDecides
  <2>4. s1 = s2
    BY <2>3, OneOrdering
  <2> QED
    BY <2>1, <2>2, <2>4
<1> QED
  BY <1>1, <1>2

(* For a fixed warehouse a tool is a function of its arguments.            *)
LEMMA OneAnswer ==
  ASSUME NEW w, IsWarehouse(w), NEW c, NEW p \in Answers(w, c), NEW r \in Answers(w, c)
  PROVE  p = r
<1>1. CASE ~Accepted(c)
  BY <1>1 DEF Answers
<1>2. CASE Accepted(c)
  <2>1. PICK o \in Outcomes(w, c.tool, c.args) : p = serialize_result(o)
    BY <1>2 DEF Answers
  <2>2. PICK u \in Outcomes(w, c.tool, c.args) : r = serialize_result(u)
    BY <1>2 DEF Answers
  <2>3. c.tool \in DOMAIN ComputationArgs \/ c.tool \in DOMAIN QueryOf
    BY <1>2, PartsOfRegistry, NamesOfTools DEF Accepted, HasParts, QueryOf
  <2>4. o = u
    BY <2>3, OneComputation, OneQuery
  <2> QED
    BY <2>1, <2>2, <2>4
<1> QED
  BY <1>1, <1>2

\* Asked twice, a tool answers the same, cut or not: what ORDER BY leaves open
\* is never seen (docs/architecture.md section 4; the ORDER BY of tools/*.py
\* against the primary keys of schema.py).
THEOREM AlwaysReproducible == Spec => []Reproducible
<1>1. Truthful => Reproducible
  <2> SUFFICES ASSUME Truthful, NEW j \in DOMAIN log, NEW k \in DOMAIN log,
                      log[j].call = log[k].call
               PROVE  shown[j] = shown[k]
    BY DEF Reproducible
  <2>1. IsWarehouse(db)
    BY WarehousesAssumption DEF Truthful
  <2>2. shown[j] \in Answers(db, log[k].call) /\ shown[k] \in Answers(db, log[k].call)
    BY DEF Truthful
  <2> QED
    BY <2>1, <2>2, OneAnswer
<1> QED
  BY <1>1, AlwaysTruthful, PTL
-----------------------------------------------------------------------------
(* A row without the ground truth, and the query on such rows.             *)
Blinded(t, r) == [c \in DOMAIN r |-> IF c \in Tables[t].hidden THEN 0 ELSE r[c]]

LEMMA BlindFacts ==
  ASSUME NEW w, IsWarehouse(w), NEW t \in DOMAIN QueryOf
  PROVE  LET q == QueryOf[t]
         IN  /\ Blind(w)[q.from] = {Blinded(q.from, r) : r \in w[q.from]}
             /\ \A r \in w[q.from] : \A c \in Plain(Tables[q.from]) \cup q.shows :
                  Blinded(q.from, r)[c] = r[c]
             /\ \A r, s \in w[q.from] : Blinded(q.from, r) = Blinded(q.from, s) => r = s
<1> DEFINE q == QueryOf[t]
           T == Tables[q.from]
<1>1. q.from \in DOMAIN Tables /\ Keyed(q, T)
  BY QueriesAreKeyed
<1>2. /\ \A r \in w[q.from] : DOMAIN r = T.columns
      /\ \A r, s \in w[q.from] : (\A c \in T.key : r[c] = s[c]) => r = s
  BY <1>1 DEF IsWarehouse
<1>3. Blind(w)[q.from] = {Blinded(q.from, r) : r \in w[q.from]}
  BY <1>1 DEF Blind, Blinded
<1>4. ASSUME NEW r \in w[q.from], NEW c \in Plain(T) \cup q.shows
      PROVE  Blinded(q.from, r)[c] = r[c]
  <2>1. c \in T.columns /\ c \notin T.hidden
    BY <1>1 DEF Keyed, Plain
  <2> QED
    BY <1>2, <2>1 DEF Blinded
<1>5. ASSUME NEW r \in w[q.from], NEW s \in w[q.from], Blinded(q.from, r) = Blinded(q.from, s)
      PROVE  r = s
  <2>1. \A c \in T.key : c \in Plain(T)
    BY <1>1 DEF Keyed
  <2>2. \A c \in T.key : r[c] = s[c]
    BY <1>4, <1>5, <2>1
  <2> QED
    BY <1>2, <2>2
<1> QED
  BY <1>3, <1>4, <1>5

(* A filter does not tell a row from its blinded form.                     *)
LEMMA FoundBlind ==
  ASSUME NEW w, IsWarehouse(w), NEW t \in DOMAIN QueryOf, NEW args
  PROVE  Found(Blind(w), t, args) = {Blinded(QueryOf[t].from, r) : r \in Found(w, t, args)}
<1> DEFINE q == QueryOf[t]
           B(r) == Blinded(q.from, r)
           Passes(r) == /\ \A c \in q.equal : Holds(r, c, Arg(args, ArgOf(c)))
                        /\ \A c \in q.optional :
                             Arg(args, ArgOf(c)) = Null \/ Holds(r, c, Arg(args, ArgOf(c)))
                        /\ q.within # Anytime /\ HasRange(t, args) => Between(t, args, r[q.within])
<1>1. /\ Blind(w)[q.from] = {B(r) : r \in w[q.from]}
      /\ \A r \in w[q.from] : \A c \in Plain(Tables[q.from]) : B(r)[c] = r[c]
  BY BlindFacts
<1>2. Keyed(q, Tables[q.from])
  BY QueriesAreKeyed
<1>3. /\ Found(w, t, args) = {r \in w[q.from] : Passes(r)}
      /\ Found(Blind(w), t, args) = {r \in Blind(w)[q.from] : Passes(r)}
  BY DEF Found
<1>4. ASSUME NEW r \in w[q.from] PROVE Passes(B(r)) <=> Passes(r)
  <2>1. \A c \in q.equal \cup q.optional : B(r)[c] = r[c]
    BY <1>1, <1>2 DEF Keyed
  <2>2. \A c \in q.equal \cup q.optional : \A v : Holds(B(r), c, v) <=> Holds(r, c, v)
    BY <2>1 DEF Holds
  <2>3. q.within # Anytime => B(r)[q.within] = r[q.within]
    BY <1>1, <1>2 DEF Keyed
  <2> HIDE DEF q, B
  <2> QED
    BY <2>2, <2>3
<1> HIDE DEF Passes, B
<1>5. {r \in Blind(w)[q.from] : Passes(r)} = {B(r) : r \in {r \in w[q.from] : Passes(r)}}
  BY <1>1, <1>4
<1> QED
  BY <1>3, <1>5 DEF B

(* An ordering of the rows is, blinded, one of the blinded rows, and shows *)
(* the same.                                                               *)
LEMMA OrderingsBlind ==
  ASSUME NEW w, IsWarehouse(w), NEW t \in DOMAIN QueryOf, NEW args,
         NEW s \in Orderings(Found(w, t, args), QueryOf[t].order)
  PROVE  \E b \in Orderings(Found(Blind(w), t, args), QueryOf[t].order) :
           Project(b, QueryOf[t].shows) = Project(s, QueryOf[t].shows)
<1> DEFINE q == QueryOf[t]
           B(r) == Blinded(q.from, r)
           S == Found(w, t, args)
           Z == Found(Blind(w), t, args)
           n == Cardinality(S)
           b == [k \in 1 .. n |-> B(s[k])]
<1>1. /\ \A r \in w[q.from] : \A c \in Plain(Tables[q.from]) \cup q.shows : B(r)[c] = r[c]
      /\ \A r, u \in w[q.from] : B(r) = B(u) => r = u
  BY BlindFacts
<1>2. Keyed(q, Tables[q.from])
  BY QueriesAreKeyed
<1>3. Z = {B(r) : r \in S}
  BY FoundBlind
<1>4. IsFiniteSet(S) /\ S \subseteq w[q.from]
  BY FoundIsFinite
<1>5. n \in Nat /\ s \in [1 .. n -> S]
  <2> HIDE DEF S, q
  <2> QED
    BY <1>4, OrderingListsAll DEF q, S
<1>6. IsFiniteSet(Z) /\ Cardinality(Z) = n
  <2> DEFINE f == [r \in S |-> B(r)]
  <2>1. f \in [S -> Z] /\ (\A r, u \in S : f[r] = f[u] => r = u) /\ \A z \in Z : \E r \in S : f[r] = z
    <3> HIDE DEF B, S, Z
    <3> QED
      BY <1>1, <1>3, <1>4
  <2>2. f \in Bijection(S, Z)
    <3> HIDE DEF f, S, Z
    <3> QED
      BY <2>1, Fun_IsBij
  <2>3. ExistsBijection(S, Z)
    BY <2>2 DEF ExistsBijection
  <2> HIDE DEF S, Z
  <2> QED
    BY <1>4, <2>3, FS_Bijection
<1>7. b \in [1 .. n -> Z]
  <2> HIDE DEF B, n, S, Z
  <2> QED
    BY <1>3, <1>5
<1>8. ASSUME NEW j \in 1 .. n, NEW k \in 1 .. n, j < k
      PROVE  b[j] # b[k] /\ ~Follows(b[j], b[k], q.order)
  <2>1. s[j] \in w[q.from] /\ s[k] \in w[q.from]
    BY <1>4, <1>5
  <2>2. s[j] # s[k] /\ ~Follows(s[j], s[k], q.order)
    BY <1>5, <1>8 DEF Orderings
  <2>3. b[j] = B(s[j]) /\ b[k] = B(s[k])
    OBVIOUS
  <2>4. \A i \in DOMAIN q.order : /\ b[j][q.order[i]] = s[j][q.order[i]]
                                  /\ b[k][q.order[i]] = s[k][q.order[i]]
    BY <1>1, <1>2, <2>1, <2>3 DEF Keyed
  <2> HIDE DEF b, B, q
  <2>5. ~Follows(b[j], b[k], q.order)
    <3> SUFFICES ASSUME NEW i \in DOMAIN q.order, b[k][q.order[i]] < b[j][q.order[i]],
                        \A m \in 1 .. i - 1 : b[j][q.order[m]] = b[k][q.order[m]]
                 PROVE  FALSE
      BY DEF Follows
    <3>1. \A m \in 1 .. i - 1 : m \in DOMAIN q.order
      BY <1>2 DEF Keyed
    <3>2. \A m \in 1 .. i - 1 : s[j][q.order[m]] = s[k][q.order[m]]
      BY <2>4, <3>1
    <3>3. s[k][q.order[i]] < s[j][q.order[i]]
      BY <2>4
    <3> QED
      BY <2>2, <3>2, <3>3 DEF Follows
  <2> QED
    BY <1>1, <2>1, <2>2, <2>3, <2>5
<1>9. b \in Orderings(Z, q.order)
  <2>1. DOMAIN b = 1 .. n
    OBVIOUS
  <2> HIDE DEF b, Z, n
  <2> QED
    BY <1>6, <1>7, <1>8, <2>1 DEF Orderings
<1>10. Project(b, q.shows) = Project(s, q.shows)
  <2>1. ASSUME NEW k \in 1 .. n, NEW c \in q.shows PROVE b[k][c] = s[k][c]
    <3>1. s[k] \in w[q.from] /\ b[k] = B(s[k])
      BY <1>4, <1>5
    <3> HIDE DEF b, B
    <3> QED
      BY <1>1, <3>1
  <2>2. DOMAIN b = 1 .. n /\ DOMAIN s = 1 .. n
    BY <1>5
  <2> HIDE DEF b, n, q
  <2> QED
    BY <2>1, <2>2 DEF Project
<1> HIDE DEF b
<1> QED
  BY <1>9, <1>10

\* The columns that hold the ground truth make no difference to what is shown,
\* be it by projection, filter, order or cut (tests/tools/test_tool_hygiene.py
\* looks at the names of the SELECTs).
THEOREM GroundTruthAlwaysHidden == Spec => []GroundTruthHidden
<1>1. ASSUME NEW w, IsWarehouse(w), NEW t \in DOMAIN QueryOf, NEW args,
             NEW o \in Outcomes(w, t, args)
      PROVE  o \in Outcomes(Blind(w), t, args)
  <2>1. t # "detect_flat_run_in_series" /\ t \notin DOMAIN ComputationArgs
    BY NamesOfTools DEF QueryOf
  <2>2. Found(w, t, args) = {} <=> Found(Blind(w), t, args) = {}
    BY <1>1, FoundBlind
  <2>3. CASE t = "get_fund_calendar" /\ Found(w, t, args) = {}
    BY <2>1, <2>2, <2>3 DEF Outcomes
  <2>4. CASE ~ (t = "get_fund_calendar" /\ Found(w, t, args) = {})
    <3>1. PICK s \in Orderings(Found(w, t, args), QueryOf[t].order) :
            o = Outcome(FALSE, Project(s, QueryOf[t].shows), << >>)
      BY <2>4, QueryOutcomes
    <3>2. PICK b \in Orderings(Found(Blind(w), t, args), QueryOf[t].order) :
            o = Outcome(FALSE, Project(b, QueryOf[t].shows), << >>)
      BY <1>1, <3>1, OrderingsBlind
    <3>3. Outcomes(Blind(w), t, args)
            = {Outcome(FALSE, Project(s1, QueryOf[t].shows), << >>) :
                 s1 \in Orderings(Found(Blind(w), t, args), QueryOf[t].order)}
      BY <2>1, <2>2, <2>4 DEF Outcomes
    <3> QED
      BY <3>2, <3>3
  <2> QED
    BY <2>3, <2>4
<1>2. Truthful => GroundTruthHidden
  <2> SUFFICES ASSUME Truthful, NEW k \in DOMAIN log, log[k].call.tool \in DOMAIN QueryOf,
                      ~AdapterRaises(log[k].call.tool, log[k].call.args)
               PROVE  shown[k] \in {serialize_result(o) :
                        o \in Outcomes(Blind(db), log[k].call.tool, log[k].call.args)}
    BY DEF GroundTruthHidden
  <2>1. IsWarehouse(db) /\ shown[k] \in Answers(db, log[k].call)
    BY WarehousesAssumption DEF Truthful
  <2>2. Accepted(log[k].call)
    BY QueriesAreCovered DEF Accepted
  <2>3. PICK o \in Outcomes(db, log[k].call.tool, log[k].call.args) :
          shown[k] = serialize_result(o)
    BY <2>1, <2>2 DEF Answers
  <2> QED
    BY <1>1, <2>1, <2>3
<1> QED
  BY <1>2, AlwaysTruthful, PTL

-----------------------------------------------------------------------------
(***************************************************************************)
(* The scan of a series.  The lemmas on loops are those of Policy_proofs,  *)
(* which need nothing of the constants there.                              *)
(***************************************************************************)

Loops == INSTANCE Policy_proofs WITH Defects <- {}, Missing <- "none"

(* One pass of the scan, as a function of the run so far.                  *)
Flats(n)  == [start : 1 .. n + 1, out : Seq(Nat \X Nat)]
Passed(series, min, run, i) ==
  IF EndsRun(series, run.start, i, 0)
  THEN [start |-> i,
        out |-> IF i - run.start >= min THEN Append(run.out, << run.start, i - 1 >>) ELSE run.out]
  ELSE run

LEMMA PassedType ==
  ASSUME NEW series \in Seq(Int), NEW min \in Int, NEW run \in Flats(Len(series)),
         NEW k \in 1 .. Len(series)
  PROVE  Passed(series, min, run, k + 1) \in Flats(Len(series))
<1>1. PICK n : n = Len(series)
  OBVIOUS
<1>2. n \in Nat
  BY <1>1, LenProperties
<1>3. PICK s, out : s = run.start /\ out = run.out
  OBVIOUS
<1>4. s \in 1 .. n + 1 /\ out \in Seq(Nat \X Nat) /\ run = [start |-> s, out |-> out]
  BY <1>1, <1>3 DEF Flats
<1>5. s \in Nat /\ (k + 1) - 1 \in Nat /\ k + 1 \in 1 .. n + 1
  BY <1>1, <1>2, <1>4
<1>6. Append(out, << s, (k + 1) - 1 >>) \in Seq(Nat \X Nat)
  BY <1>4, <1>5, AppendProperties
<1>7. CASE EndsRun(series, s, k + 1, 0)
  <2>1. PICK new : new = IF (k + 1) - s >= min THEN Append(out, << s, (k + 1) - 1 >>) ELSE out
    OBVIOUS
  <2>2. new \in Seq(Nat \X Nat)
    BY <1>4, <1>6, <2>1
  <2>3. Passed(series, min, run, k + 1) = [start |-> k + 1, out |-> new]
    BY <1>3, <1>7, <2>1 DEF Passed
  <2> QED
    BY <1>1, <1>5, <2>2, <2>3 DEF Flats
<1>8. CASE ~EndsRun(series, s, k + 1, 0)
  BY <1>3, <1>8 DEF Passed
<1> QED
  BY <1>7, <1>8

(* What the scan has found after its first k days.                         *)
Passes(g, series, min) ==
  /\ g[0] = [start |-> 1, out |-> << >>]
  /\ \A k \in 1 .. Len(series) : g[k] = Passed(series, min, g[k - 1], k + 1)

LEMMA ScanIs ==
  ASSUME NEW series \in Seq(Int), NEW min \in Int, min > 0
  PROVE  \E g : /\ Passes(g, series, min)
                /\ detect_flat_run_in_series(series, min, 0) = g[Len(series)].out
<1> DEFINE n == Len(series)
           A == Flats(n)
           base == [start |-> 1, out |-> << >>]
           step == [k \in 1 .. n |-> [run \in A |-> Passed(series, min, run, k + 1)]]
           days == [k \in DOMAIN series |-> k + 1]
           Is(g) == g = [s \in SUBSET (1 .. n) |->
                           IF s = {} THEN base
                           ELSE Passed(series, min, g[s \ {Loops!Max(s)}], days[Loops!Max(s)])]
<1>1. n \in Nat /\ DOMAIN series = 1 .. n
  BY LenProperties
<1>2. base \in A /\ step \in [1 .. n -> [A -> A]]
  <2>1. base \in A
    BY <1>1 DEF Flats
  <2> HIDE DEF base
  <2>2. ASSUME NEW k \in 1 .. n, NEW run \in A PROVE Passed(series, min, run, k + 1) \in A
    BY PassedType
  <2> HIDE DEF A
  <2> QED
    BY <2>1, <2>2
<1>3. \E g : Is(g)
  <2> HIDE DEF A, base
  <2>1. PICK g \in [SUBSET (1 .. n) -> A] : Loops!Folds(g, n, base, step)
    BY <1>1, <1>2, Loops!FoldExists
  <2>2. ASSUME NEW s \in SUBSET (1 .. n), s # {}
        PROVE  Loops!Max(s) \in 1 .. n /\ g[s \ {Loops!Max(s)}] \in A
    <3>1. s \in SUBSET (0 .. n)
      OBVIOUS
    <3>2. Loops!Max(s) \in s
      BY <1>1, <2>2, <3>1, Loops!MaxIsGreatest
    <3>3. s \ {Loops!Max(s)} \in SUBSET (1 .. n)
      OBVIOUS
    <3> QED
      BY <3>2, <3>3
  <2>3. ASSUME NEW s \in SUBSET (1 .. n)
        PROVE  g[s] = IF s = {} THEN base
                      ELSE Passed(series, min, g[s \ {Loops!Max(s)}], days[Loops!Max(s)])
    <3>1. CASE s = {}
      BY <2>1, <3>1 DEF Loops!Folds
    <3>2. CASE s # {}
      <4>1. PICK m, r : m = Loops!Max(s) /\ r = g[s \ {m}]
        OBVIOUS
      <4>2. m \in 1 .. n /\ r \in A
        BY <2>2, <3>2, <4>1
      <4>3. g[s] = step[m][r]
        BY <2>1, <3>2, <4>1 DEF Loops!Folds
      <4>4. days[m] = m + 1
        BY <1>1, <4>2
      <4>5. step[m][r] = Passed(series, min, r, m + 1)
        BY <4>2
      <4> QED
        BY <3>2, <4>1, <4>3, <4>4, <4>5
    <3> QED
      BY <3>1, <3>2
  <2>4. g = [s \in SUBSET (1 .. n) |-> g[s]]
    OBVIOUS
  <2>5. Is(g)
    BY <2>3, <2>4
  <2> QED
    BY <2>5
<1>4. detect_flat_run_in_series(series, min, 0) = (CHOOSE g : Is(g))[1 .. n].out
  <2>1. DOMAIN days = 1 .. n
    BY <1>1
  <2> HIDE DEF days
  <2> QED
    BY <2>1 DEF detect_flat_run_in_series, Seqs!FoldLeft, Seqs!MapThenFoldSet, Seqs!Max, Loops!Max,
         Passed, days
<1>5. PICK g : g = CHOOSE h : Is(h)
  OBVIOUS
<1>6. Is(g)
  BY <1>3, <1>5
<1> HIDE DEF n, A, base, step, days
<1>7. g[{}] = base
  BY <1>6
<1>8. ASSUME NEW k \in 1 .. n
      PROVE  g[1 .. k] = Passed(series, min, g[1 .. k - 1], k + 1)
  <2>1. Loops!Max(1 .. k) = k /\ (1 .. k) \ {k} = 1 .. k - 1
    BY <1>1, Loops!MaxOfInterval
  <2>2. PICK s : s = 1 .. k
    OBVIOUS
  <2>3. s \in SUBSET (1 .. n) /\ s # {}
    <3>1. s \subseteq 1 .. n
      BY <1>1, <2>2
    <3>2. k \in s
      BY <1>1, <2>2
    <3> QED
      BY <3>1, <3>2
  <2>4. g[s] = Passed(series, min, g[s \ {Loops!Max(s)}], days[Loops!Max(s)])
    BY <1>6, <2>3
  <2>5. days[k] = k + 1
    BY <1>1 DEF days
  <2> QED
    BY <2>1, <2>2, <2>4, <2>5
<1>9. PICK h : h = [k \in 0 .. n |-> g[1 .. k]]
  OBVIOUS
<1>10. 1 .. 0 = {} /\ 0 \in 0 .. n /\ n \in 0 .. n
  BY <1>1
<1>11. h[0] = base /\ h[n] = g[1 .. n]
  BY <1>7, <1>9, <1>10
<1>12. ASSUME NEW k \in 1 .. n PROVE h[k] = Passed(series, min, h[k - 1], k + 1)
  <2>1. k \in 0 .. n /\ k - 1 \in 0 .. n
    BY <1>1
  <2> QED
    BY <1>8, <1>9, <2>1
<1>13. Passes(h, series, min)
  BY <1>11, <1>12 DEF Passes, base, n
<1> QED
  BY <1>4, <1>5, <1>11, <1>13 DEF n

(* Days of one run: the same value, and another one before them.           *)
OneRun(series, s, k) ==
  /\ s \in 1 .. k + 1
  /\ \A j \in s .. k + 1 : j <= Len(series) => series[j] = series[s]
  /\ s > 1 /\ s <= Len(series) => series[s - 1] # series[s]
Before(series, min, s) == {r \in Maximal(series, min) : r[1] < s}

(* The loop's invariant: what is open is one run, and the maximal ones that *)
(* began before it are found.                                              *)
Scanned(series, min, run, k) ==
  /\ OneRun(series, run.start, k)
  /\ k = Len(series) => run.start = k + 1
  /\ run.out \in Seq(Nat \X Nat)
  /\ {run.out[i] : i \in DOMAIN run.out} = Before(series, min, run.start)

LEMMA EndsWhere ==
  ASSUME NEW series \in Seq(Int), NEW s \in 1 .. Len(series), NEW i \in 1 .. Len(series) + 1
  PROVE  EndsRun(series, s, i, 0) <=> i = Len(series) + 1 \/ series[i] # series[s]
<1>1. PICK n : n = Len(series)
  OBVIOUS
<1>2. n \in Nat /\ \A j \in 1 .. n : series[j] \in Int
  BY <1>1, LenProperties
<1>3. CASE i = n + 1
  BY <1>1, <1>3 DEF EndsRun
<1>4. CASE i # n + 1
  <2>1. i \in 1 .. n /\ s \in 1 .. n
    BY <1>1, <1>2, <1>4
  <2>2. PICK u, v : u = series[i] /\ v = series[s]
    OBVIOUS
  <2>3. u \in Int /\ v \in Int
    BY <1>2, <2>1, <2>2
  <2>4. Abs(u - v) > 0 <=> u # v
    BY <2>3 DEF Abs
  <2> QED
    BY <1>1, <1>4, <2>2, <2>4 DEF EndsRun
<1> QED
  BY <1>3, <1>4

(* Of the maximal runs, one that begins between the open one and the day   *)
(* that ends it is the open one.                                           *)
LEMMA RunsBefore ==
  ASSUME NEW series \in Seq(Int), NEW min \in Int, min > 0, NEW k \in 1 .. Len(series), NEW s,
         OneRun(series, s, k - 1), s <= Len(series), EndsRun(series, s, k + 1, 0)
  PROVE  Before(series, min, k + 1) =
           Before(series, min, s) \cup (IF (k + 1) - s >= min THEN {<< s, k >>} ELSE {})
<1>1. PICK n : n = Len(series)
  OBVIOUS
<1>2. n \in Nat /\ DOMAIN series = 1 .. n /\ k \in 1 .. n /\ s \in 1 .. k /\ s \in 1 .. n
  BY <1>1, LenProperties DEF OneRun
<1>3. \A j \in s .. k : series[j] = series[s]
  BY <1>1, <1>2 DEF OneRun
<1>4. s = 1 \/ series[s - 1] # series[s]
  BY <1>1, <1>2 DEF OneRun
<1>5. k = n \/ series[k + 1] # series[s]
  <2>1. k + 1 \in 1 .. n + 1
    BY <1>2
  <2> QED
    BY <1>1, <1>2, <2>1, EndsWhere
<1>6. ASSUME NEW r \in Maximal(series, min), r[1] < k + 1, ~(r[1] < s)
      PROVE  r = << s, k >> /\ (k + 1) - s >= min
  <2>1. PICK a, b : a = r[1] /\ b = r[2] /\ r = << a, b >>
    BY DEF Maximal
  <2>2. /\ a \in 1 .. n /\ b \in 1 .. n /\ b - a + 1 >= min
        /\ \A i \in a .. b : series[i] = series[a]
        /\ a = 1 \/ series[a - 1] # series[a]
        /\ b = n \/ series[b + 1] # series[a]
    BY <1>1, <1>2, <2>1 DEF Maximal
  <2>3. a \in s .. k /\ series[a] = series[s]
    <3>1. a < k + 1 /\ ~(a < s)
      BY <1>6, <2>1
    <3>2. a \in s .. k
      BY <1>2, <2>2, <3>1
    <3> QED
      BY <1>3, <3>2
  <2>4. a = s
    <3>1. ASSUME a # s PROVE FALSE
      <4>1. a - 1 \in s .. k /\ a # 1
        BY <1>2, <2>3, <3>1
      <4>2. series[a - 1] = series[s]
        BY <1>3, <4>1
      <4> QED
        BY <2>2, <2>3, <4>1, <4>2
    <3> QED
      BY <3>1
  <2>5. ~(b < k)
    <3>1. ASSUME b < k PROVE FALSE
      <4>1. b + 1 \in s .. k /\ b # n
        BY <1>2, <2>2, <2>4, <3>1
      <4>2. series[b + 1] = series[s]
        BY <1>3, <4>1
      <4> QED
        BY <2>2, <2>3, <4>1, <4>2
    <3> QED
      BY <3>1
  <2>6. ~(b > k)
    <3>1. ASSUME b > k PROVE FALSE
      <4>1. k + 1 \in a .. b /\ k # n
        BY <1>2, <2>2, <2>4, <3>1
      <4> QED
        BY <1>5, <2>2, <2>4, <4>1
    <3> QED
      BY <3>1
  <2>7. b = k
    BY <1>2, <2>2, <2>5, <2>6
  <2> QED
    BY <1>2, <2>1, <2>2, <2>4, <2>7
<1>7. ASSUME (k + 1) - s >= min PROVE << s, k >> \in Maximal(series, min)
  <2>1. k - s + 1 >= min
    BY <1>2, <1>7
  <2> QED
    BY <1>1, <1>2, <1>3, <1>4, <1>5, <2>1 DEF Maximal
<1>8. ASSUME NEW r \in Maximal(series, min) PROVE r[1] \in Int
  BY <1>2 DEF Maximal
<1>9. \A r \in Maximal(series, min) : r[1] < s => r[1] < k + 1
  BY <1>2, <1>8
<1>10. << s, k >>[1] < k + 1
  BY <1>2
<1> HIDE DEF Maximal
<1> QED
  BY <1>6, <1>7, <1>9, <1>10 DEF Before

LEMMA AppendedSet ==
  ASSUME NEW S, NEW q \in Seq(S), NEW e \in S
  PROVE  /\ Append(q, e) \in Seq(S)
         /\ {Append(q, e)[i] : i \in DOMAIN Append(q, e)} = {q[i] : i \in DOMAIN q} \cup {e}
<1>1. PICK n, t : n = Len(q) /\ t = Append(q, e)
  OBVIOUS
<1>2. /\ n \in Nat /\ DOMAIN q = 1 .. n /\ t \in Seq(S)
      /\ Len(t) = n + 1 /\ \A k \in 1 .. n : t[k] = q[k]
      /\ t[n + 1] = e
  BY <1>1, LenProperties, AppendProperties
<1>3. DOMAIN t = 1 .. n + 1
  BY <1>2, LenProperties
<1>4. \A i \in 1 .. n + 1 : i \in 1 .. n \/ i = n + 1
  BY <1>2
<1>5. 1 .. n \subseteq 1 .. n + 1 /\ n + 1 \in 1 .. n + 1
  BY <1>2
<1> QED
  BY <1>1, <1>2, <1>3, <1>4, <1>5

LEMMA PassScans ==
  ASSUME NEW series \in Seq(Int), NEW min \in Int, min > 0, NEW k \in 1 .. Len(series), NEW run,
         Scanned(series, min, run, k - 1)
  PROVE  Scanned(series, min, Passed(series, min, run, k + 1), k)
<1>1. PICK n : n = Len(series)
  OBVIOUS
<1>2. PICK s, out : s = run.start /\ out = run.out
  OBVIOUS
<1>3. n \in Nat /\ k \in 1 .. n /\ s \in 1 .. k /\ s \in 1 .. n /\ OneRun(series, s, k - 1)
  BY <1>1, <1>2, LenProperties DEF Scanned, OneRun
<1>4. out \in Seq(Nat \X Nat) /\ {out[i] : i \in DOMAIN out} = Before(series, min, s)
  BY <1>2 DEF Scanned
<1>5. k + 1 \in 1 .. n + 1 /\ (k + 1) - 1 = k
  BY <1>3
<1>6. CASE EndsRun(series, s, k + 1, 0)
  <2>1. PICK new : new = IF (k + 1) - s >= min THEN Append(out, << s, k >>) ELSE out
    OBVIOUS
  <2>2. Passed(series, min, run, k + 1) = [start |-> k + 1, out |-> new]
    BY <1>2, <1>5, <1>6, <2>1 DEF Passed
  <2>3. Before(series, min, k + 1) =
          Before(series, min, s) \cup (IF (k + 1) - s >= min THEN {<< s, k >>} ELSE {})
    BY <1>1, <1>3, <1>6, RunsBefore
  <2>4. new \in Seq(Nat \X Nat) /\ {new[i] : i \in DOMAIN new} = Before(series, min, k + 1)
    <3>1. << s, k >> \in Nat \X Nat
      BY <1>3
    <3>2. CASE (k + 1) - s >= min
      <4>1. PICK S, e : S = Nat \X Nat /\ e = << s, k >>
        OBVIOUS
      <4>2. out \in Seq(S) /\ e \in S
        BY <1>4, <3>1, <4>1
      <4>3. /\ Append(out, e) \in Seq(S)
            /\ {Append(out, e)[i] : i \in DOMAIN Append(out, e)} =
                 {out[i] : i \in DOMAIN out} \cup {e}
        BY <4>2, AppendedSet
      <4>4. new = Append(out, e)
        BY <2>1, <3>2, <4>1
      <4>5. Before(series, min, k + 1) = Before(series, min, s) \cup {e}
        BY <2>3, <3>2, <4>1
      <4> QED
        BY <1>4, <4>1, <4>3, <4>4, <4>5
    <3>3. CASE ~((k + 1) - s >= min)
      BY <1>4, <2>1, <2>3, <3>3
    <3> QED
      BY <3>2, <3>3
  <2>5. OneRun(series, k + 1, k)
    <3>1. ASSUME k + 1 <= n PROVE series[k] # series[k + 1]
      <4>1. series[k + 1] # series[s]
        BY <1>1, <1>3, <1>5, <1>6, <3>1, EndsWhere
      <4>2. series[k] = series[s]
        <5>1. k \in s .. (k - 1) + 1 /\ k <= n
          BY <1>3
        <5> QED
          BY <1>1, <1>3, <5>1 DEF OneRun
      <4> QED
        BY <4>1, <4>2
    <3>2. k + 1 \in 1 .. k + 1
      BY <1>3
    <3>3. \A j \in k + 1 .. k + 1 : j = k + 1
      BY <1>3
    <3> QED
      BY <1>1, <1>5, <3>1, <3>2, <3>3 DEF OneRun
  <2> QED
    BY <2>2, <2>4, <2>5 DEF Scanned
<1>7. CASE ~EndsRun(series, s, k + 1, 0)
  <2>1. Passed(series, min, run, k + 1) = run
    BY <1>2, <1>7 DEF Passed
  <2>2. k # n /\ series[k + 1] = series[s]
    BY <1>1, <1>3, <1>5, <1>7, EndsWhere
  <2>3. OneRun(series, s, k)
    <3>1. \A j \in s .. k + 1 : j = k + 1 \/ j \in s .. (k - 1) + 1
      BY <1>3
    <3>2. s \in 1 .. k + 1
      BY <1>3
    <3> QED
      BY <1>1, <1>3, <2>2, <3>1, <3>2 DEF OneRun
  <2> QED
    BY <1>1, <1>2, <1>4, <2>1, <2>2, <2>3 DEF Scanned
<1> QED
  BY <1>6, <1>7

(* The scan finds the maximal runs of any series.                          *)
LEMMA ScanFindsMaximal ==
  ASSUME NEW series \in Seq(Int), NEW min \in Int, min > 0,
         NEW out, out = detect_flat_run_in_series(series, min, 0)
  PROVE  out \in Seq(Nat \X Nat) /\ {out[i] : i \in DOMAIN out} = Maximal(series, min)
<1>1. PICK n : n = Len(series)
  OBVIOUS
<1>2. n \in Nat /\ DOMAIN series = 1 .. n
  BY <1>1, LenProperties
<1>3. PICK g : Passes(g, series, min) /\ out = g[n].out
  BY <1>1, ScanIs
<1> DEFINE J == {k \in 0 .. n : Scanned(series, min, g[k], k)}
<1>4. 0 \in J
  <2>1. PICK run : run = [start |-> 1, out |-> << >>]
    OBVIOUS
  <2>2. run.start = 1 /\ run.out = << >> /\ DOMAIN run.out = {} /\ run.out \in Seq(Nat \X Nat)
    BY <2>1
  <2>3. OneRun(series, 1, 0)
    <3>1. 1 \in 1 .. 0 + 1 /\ \A j \in 1 .. 0 + 1 : j = 1
      OBVIOUS
    <3> QED
      BY <3>1 DEF OneRun
  <2>4. Before(series, min, 1) = {}
    <3>1. \A r \in Maximal(series, min) : r[1] \in 1 .. n
      BY <1>2 DEF Maximal
    <3>2. \A r \in Maximal(series, min) : ~(r[1] < 1)
      BY <3>1
    <3> QED
      BY <3>2 DEF Before
  <2>5. Scanned(series, min, run, 0)
    BY <1>1, <2>2, <2>3, <2>4 DEF Scanned
  <2>6. g[0] = run /\ 0 \in 0 .. n
    BY <1>2, <1>3, <2>1 DEF Passes
  <2> QED
    BY <2>5, <2>6
<1>5. ASSUME NEW k \in 1 .. n, k - 1 \in J PROVE k \in J
  <2>1. g[k] = Passed(series, min, g[k - 1], k + 1)
    BY <1>1, <1>3 DEF Passes
  <2>2. Scanned(series, min, g[k - 1], k - 1)
    BY <1>5
  <2>3. Scanned(series, min, g[k], k)
    BY <1>1, <2>1, <2>2, PassScans
  <2>4. k \in 0 .. n
    BY <1>2
  <2> QED
    BY <2>3, <2>4
<1>6. n \in J
  <2>1. J \in SUBSET (0 .. n)
    OBVIOUS
  <2> HIDE DEF J
  <2> QED
    BY <1>2, <1>4, <1>5, <2>1, Loops!LoopInduction
<1>7. Scanned(series, min, g[n], n)
  BY <1>6
<1>8. g[n].start = n + 1
  BY <1>1, <1>7 DEF Scanned
<1>9. Before(series, min, n + 1) = Maximal(series, min)
  <2>1. \A r \in Maximal(series, min) : r[1] \in 1 .. n
    BY <1>2 DEF Maximal
  <2>2. \A r \in Maximal(series, min) : r[1] < n + 1
    BY <1>2, <2>1
  <2> QED
    BY <2>2 DEF Before
<1> QED
  BY <1>3, <1>7, <1>8, <1>9 DEF Scanned

(* All calls are those the model may send.                                 *)
Sent == \A k \in DOMAIN log : log[k].call \in Calls

LEMMA AlwaysSent == Spec => []Sent
<1>1. Init => Sent
  <2>1. DOMAIN << >> = {}
    OBVIOUS
  <2> QED
    BY <2>1 DEF Init, Sent
<1>2. Truthful /\ Sent /\ [Next]_vars => Sent'
  <2> SUFFICES ASSUME Truthful, Sent, [Next]_vars PROVE Sent'
    OBVIOUS
  <2>1. ASSUME NEW c \in Calls, NEW entry, entry.call = c, log' = Append(log, entry) PROVE Sent'
    <3>1. PICK n : n = Len(log)
      OBVIOUS
    <3>2. /\ DOMAIN log = 1 .. n /\ n \in Nat /\ DOMAIN log' = 1 .. n + 1
          /\ \A k \in 1 .. n : log'[k] = log[k]
          /\ log'[n + 1] = entry
      BY <2>1, <3>1, Appended DEF Truthful
    <3>3. \A k \in 1 .. n + 1 : k \in 1 .. n \/ k = n + 1
      BY <3>2
    <3> QED
      BY <2>1, <3>2, <3>3 DEF Sent
  <2>2. ASSUME NEW c \in Calls, dispatch(c) PROVE Sent'
    <3>1. \E error, rows : log' = Append(log, Entry(c, error, rows))
      <4>1. CASE Reject(c)
        BY <4>1 DEF Reject
      <4>2. CASE Run(c)
        BY <4>2 DEF Run
      <4> QED
        BY <2>2, <4>1, <4>2 DEF dispatch
    <3>2. \A error, rows : Entry(c, error, rows).call = c
      BY DEF Entry
    <3> QED
      BY <2>1, <3>1, <3>2
  <2>3. CallsSoFar \subseteq Calls
    BY DEF CallsSoFar, Sent
  <2>4. CASE Next
    BY <2>2, <2>3, <2>4 DEF Next
  <2>5. CASE UNCHANGED vars
    BY <2>5 DEF vars, Sent
  <2> QED
    BY <2>4, <2>5
<1> QED
  BY <1>1, <1>2, AlwaysTruthful, PTL DEF Spec

(* What an adapter parses is a number when the call is accepted, and the   *)
(* series a list of numbers.                                               *)
LEMMA ParsedIsNumber ==
  ASSUME NEW c \in Calls, Accepted(c), NEW t, t = c.tool, t \in DOMAIN ComputationArgs,
         NEW n \in ComputationArgs[t].needs \cup ComputationArgs[t].may, n \notin Texts
  PROVE  IF n = "series" THEN Arg(c.args, n) \in Seq(Int) ELSE Arg(c.args, n) \in Int
<1>1. Adapter[t] = ComputationArgs[t]
  BY PartsOfRegistry DEF HasParts
<1>2. HasRange(t, c.args)
  BY NamesOfTools DEF HasRange, RangeIsOptional
<1>3. n \in Parsed(t, c.args)
  BY <1>1, <1>2 DEF Parsed
<1>4. Arg(c.args, n) \notin {Null, Bad} /\ ComputationArgs[t].needs \subseteq DOMAIN c.args
  BY <1>1, <1>3 DEF Accepted, AdapterRaises
<1>5. CASE n \in DOMAIN c.args
  <2>1. Legible(n, c.args[n]) /\ Arg(c.args, n) = c.args[n]
    BY <1>5, CallsAssumption DEF Arg
  <2> QED
    BY <1>4, <2>1 DEF Legible
<1>6. CASE n \notin DOMAIN c.args
  <2>1. n \in {"hurdle_bps", "tolerance"}
    <3>1. n \in ComputationArgs[t].may
      BY <1>4, <1>6
    <3>2. \A x \in DOMAIN ComputationArgs : ComputationArgs[x].may \subseteq {"hurdle_bps", "tolerance"}
      BY DEF ComputationArgs, Reads
    <3> QED
      BY <3>1, <3>2
  <2>2. Arg(c.args, n) = 0
    BY <1>6, <2>1 DEF Arg, Default
  <2> QED
    BY <2>1, <2>2
<1> QED
  BY <1>5, <1>6

(* The rows of an answer that was not cut are those of the outcome.        *)
LEMMA UncutIsWhole ==
  ASSUME NEW rows, Listed(rows), ~(Len(rows) > MaxRows)
  PROVE  {Cut(rows)[i] : i \in DOMAIN Cut(rows)} = {rows[i] : i \in DOMAIN rows}
<1> DEFINE R == {rows[i] : i \in DOMAIN rows}
<1>1. PICK n : n = Len(rows)
  OBVIOUS
<1>2. n \in Nat /\ rows \in [1 .. n -> R] /\ DOMAIN rows = 1 .. n
  <2>1. rows \in Seq(R)
    BY DEF Listed
  <2> QED
    BY <1>1, <2>1, LenProperties
<1>3. PICK h : h = Cut(rows)
  OBVIOUS
<1>4. IsCut(h, rows, n)
  BY <1>2, <1>3, CutIsHead
<1>5. MaxRows \in Nat
  BY BoundsAssumption
<1>6. DOMAIN h = 1 .. n /\ \A k \in 1 .. n : h[k] = rows[k]
  BY <1>1, <1>2, <1>4, <1>5 DEF IsCut
<1> QED
  BY <1>2, <1>3, <1>6

\* Whatever series the model sends, the flat runs it is told of are the
\* maximal ones that are long enough, every one (computation.py:169-208).
THEOREM FlatRunsAlwaysMaximal == Spec => []FlatRunsAreMaximal
<1>1. Truthful /\ Sent => FlatRunsAreMaximal
  <2> SUFFICES ASSUME Truthful, Sent, NEW k \in DOMAIN log,
                      NEW c, c = log[k].call, NEW p, p = shown[k],
                      c.tool = "detect_flat_run_in_series", ~p.error, ~p.truncated,
                      Arg(c.args, "tolerance") = 0, Arg(c.args, "min_length_days") > 0
               PROVE  {p.rows[i] : i \in DOMAIN p.rows}
                        = Maximal(Arg(c.args, "series"), Arg(c.args, "min_length_days"))
    BY DEF FlatRunsAreMaximal
  <2>1. c \in Calls /\ p \in Answers(db, c)
    BY DEF Truthful, Sent
  <2>2. Accepted(c)
    <3>1. serialize_result(Raised).error = TRUE
      BY DEF serialize_result, Raised, Outcome
    <3> QED
      BY <2>1, <3>1 DEF Answers
  <2>3. PICK series, min : series = Arg(c.args, "series") /\ min = Arg(c.args, "min_length_days")
    OBVIOUS
  <2>4. series \in Seq(Int) /\ min \in Int /\ min > 0
    <3>1. /\ c.tool \in DOMAIN ComputationArgs
          /\ {"series", "min_length_days"} \subseteq ComputationArgs[c.tool].needs
      BY DEF ComputationArgs, Reads
    <3>2. "series" \notin Texts /\ "min_length_days" \notin Texts
      BY DEF Texts
    <3>3. IF "series" = "series" THEN Arg(c.args, "series") \in Seq(Int)
          ELSE Arg(c.args, "series") \in Int
      BY <2>1, <2>2, <3>1, <3>2, ParsedIsNumber
    <3>4. IF "min_length_days" = "series" THEN Arg(c.args, "min_length_days") \in Seq(Int)
          ELSE Arg(c.args, "min_length_days") \in Int
      BY <2>1, <2>2, <3>1, <3>2, ParsedIsNumber
    <3> QED
      BY <2>3, <3>3, <3>4
  <2>5. PICK out : out = detect_flat_run_in_series(series, min, 0)
    OBVIOUS
  <2>6. out \in Seq(Nat \X Nat) /\ {out[i] : i \in DOMAIN out} = Maximal(series, min)
    BY <2>4, <2>5, ScanFindsMaximal
  <2>7. Outcomes(db, c.tool, c.args) = {Outcome(FALSE, out, << >>)}
    BY <2>3, <2>5 DEF Outcomes
  <2>8. p = serialize_result(Outcome(FALSE, out, << >>))
    BY <2>1, <2>2, <2>7 DEF Answers
  <2>9. p.rows = Cut(out) /\ p.truncated = (Len(out) > MaxRows)
    BY <2>8 DEF serialize_result, Outcome
  <2>10. Listed(out)
    <3>1. \A i \in 1 .. Len(out) : out[i] \in {out[j] : j \in DOMAIN out}
      BY <2>6, LenProperties
    <3> QED
      BY <2>6, <3>1, LenProperties DEF Listed
  <2>11. ~(Len(out) > MaxRows)
    BY <2>9
  <2>12. {Cut(out)[i] : i \in DOMAIN Cut(out)} = {out[i] : i \in DOMAIN out}
    BY <2>10, <2>11, UncutIsWhole
  <2>13. {p.rows[i] : i \in DOMAIN p.rows} = Maximal(series, min)
    BY <2>6, <2>9, <2>12
  <2> QED
    BY <2>3, <2>13
<1> QED
  BY <1>1, AlwaysTruthful, AlwaysSent, PTL

-----------------------------------------------------------------------------
(***************************************************************************)
(* Fractions, as much of them as the fee needs: what a sum, a difference   *)
(* and a product are worth.  The Gcd need not be the greatest for that; it *)
(* is one of the common divisors, the one all others divide.               *)
(***************************************************************************)

Divides(t, m) == \E k \in Int : m = t * k
CommonDivisors(m, n) == {t \in Nat : Divides(t, m) /\ Divides(t, n)}
Chief(S) == CHOOSE t \in S : \A u \in S : Divides(u, t)

LEMMA ChiefOfOne ==
  ASSUME NEW m \in Nat
  PROVE  Chief(CommonDivisors(m, 0)) = m
<1>1. PICK S : S = CommonDivisors(m, 0)
  OBVIOUS
<1>2. m \in S
  <2>1. m = m * 1 /\ 0 = m * 0
    OBVIOUS
  <2> QED
    BY <1>1, <2>1 DEF CommonDivisors, Divides
<1>3. \A u \in S : u \in Nat /\ Divides(u, m)
  BY <1>1 DEF CommonDivisors
<1>4. Chief(S) \in S /\ \A u \in S : Divides(u, Chief(S))
  BY <1>2, <1>3 DEF Chief
<1>5. PICK t : t = Chief(S)
  OBVIOUS
<1>6. t \in Nat /\ Divides(t, m) /\ Divides(m, t)
  BY <1>2, <1>3, <1>4, <1>5
<1>7. PICK j \in Int : m = t * j
  BY <1>6 DEF Divides
<1>8. PICK k \in Int : t = m * k
  BY <1>6 DEF Divides
<1>9. CASE m = 0
  BY <1>1, <1>5, <1>8, <1>9
<1>10. CASE m > 0
  <2>1. t > 0 /\ j > 0 /\ k > 0
    BY <1>6, <1>7, <1>8, <1>10
  <2>2. t * j >= t /\ m * k >= m
    BY <1>6, <2>1
  <2>3. t = m
    BY <1>6, <1>7, <1>8, <2>2
  <2> QED
    BY <1>1, <1>5, <2>3
<1> QED
  BY <1>9, <1>10

LEMMA DividesCombination ==
  ASSUME NEW t \in Nat, NEW m \in Int, NEW n \in Int, NEW j \in Int,
         Divides(t, m), Divides(t, n)
  PROVE  Divides(t, m + n * j)
<1>1. PICK a \in Int : m = t * a
  BY DEF Divides
<1>2. PICK b \in Int : n = t * b
  BY DEF Divides
<1>3. m + n * j = t * (a + b * j) /\ a + b * j \in Int
  BY <1>1, <1>2
<1> QED
  BY <1>3 DEF Divides

LEMMA SameDivisors ==
  ASSUME NEW m \in Nat, NEW n \in Nat, n > 0
  PROVE  m % n \in 0 .. n - 1 /\ CommonDivisors(m, n) = CommonDivisors(n, m % n)
<1>1. PICK q, r : q = m \div n /\ r = m % n
  OBVIOUS
<1>2. q \in Int /\ r \in 0 .. n - 1 /\ m = n * q + r
  BY <1>1
<1>3. PICK p \in Int : p = -q
  BY <1>2
<1>4. r = m + n * p /\ m = r + n * q
  BY <1>2, <1>3
<1>5. ASSUME NEW t \in Nat, Divides(t, n) PROVE Divides(t, m) <=> Divides(t, r)
  <2>0. m \in Int /\ n \in Int /\ r \in Int
    BY <1>2
  <2>1. ASSUME Divides(t, m) PROVE Divides(t, m + n * p)
    BY <1>5, <2>0, <2>1, DividesCombination, Zenon
  <2>2. ASSUME Divides(t, r) PROVE Divides(t, r + n * q)
    BY <1>2, <1>5, <2>0, <2>2, DividesCombination, Zenon
  <2> QED
    BY <1>4, <2>1, <2>2
<1>6. CommonDivisors(m, n) = CommonDivisors(n, r)
  BY <1>5 DEF CommonDivisors
<1> QED
  BY <1>1, <1>2, <1>6

(* What the recursive definition of Gcd asks of a function.                *)
Euclid(f) == f = [n \in Nat |-> [m \in Nat |-> IF n = 0 THEN m ELSE f[m % n][n]]]

LEMMA EuclidExists == \E f : Euclid(f)
<1> DEFINE G(m, n) == Chief(CommonDivisors(m, n))
           f == [n \in Nat |-> [m \in Nat |-> G(m, n)]]
<1>1. ASSUME NEW m \in Nat, NEW n \in Nat
      PROVE  f[n][m] = IF n = 0 THEN m ELSE f[m % n][n]
  <2>1. CASE n = 0
    BY <2>1, ChiefOfOne
  <2>2. CASE n > 0
    <3>1. PICK r : r = m % n
      OBVIOUS
    <3>2. r \in Nat /\ G(m, n) = G(n, r)
      BY <2>2, <3>1, SameDivisors
    <3>3. f[n][m] = G(m, n) /\ f[r][n] = G(n, r)
      BY <3>2
    <3> QED
      BY <2>2, <3>1, <3>2, <3>3
  <2> QED
    BY <2>1, <2>2
<1>2. \A n \in Nat : f[n] = [m \in Nat |-> IF n = 0 THEN m ELSE f[m % n][n]]
  <2> SUFFICES ASSUME NEW n \in Nat
               PROVE  f[n] = [m \in Nat |-> IF n = 0 THEN m ELSE f[m % n][n]]
    OBVIOUS
  <2>1. f[n] = [m \in Nat |-> f[n][m]]
    OBVIOUS
  <2> QED
    BY <1>1, <2>1
<1>3. f = [n \in Nat |-> f[n]]
  OBVIOUS
<1> HIDE DEF f
<1>4. Euclid(f)
  BY <1>2, <1>3 DEF Euclid
<1> QED
  BY <1>4

LEMMA GcdIs ==
  ASSUME NEW m \in Nat, NEW n \in Nat
  PROVE  Gcd[n][m] = IF n = 0 THEN m ELSE Gcd[m % n][n]
BY EuclidExists DEF Gcd, Euclid

LEMMA GcdDivides ==
  ASSUME NEW m \in Nat, NEW n \in Nat
  PROVE  Gcd[n][m] \in CommonDivisors(m, n)
<1> DEFINE Not == {y \in Nat : \E x \in Nat : ~(Gcd[y][x] \in CommonDivisors(x, y))}
<1> SUFFICES ASSUME Not # {} PROVE FALSE
  OBVIOUS
<1>1. PICK y \in Not : \A z \in Not : y <= z
  <2>1. Not \in SUBSET Nat
    OBVIOUS
  <2> HIDE DEF Not
  <2> QED
    BY <2>1, Loops!MinIsLeast
<1>2. PICK x \in Nat : ~(Gcd[y][x] \in CommonDivisors(x, y))
  OBVIOUS
<1>3. y \in Nat /\ y > 0
  <2>1. x \in CommonDivisors(x, 0)
    <3>1. x = x * 1 /\ 0 = x * 0
      OBVIOUS
    <3> QED
      BY <3>1 DEF CommonDivisors, Divides
  <2>2. Gcd[0][x] = x
    BY GcdIs
  <2> QED
    BY <1>2, <2>1, <2>2
<1>4. PICK r : r = x % y
  OBVIOUS
<1>5. r \in 0 .. y - 1 /\ CommonDivisors(x, y) = CommonDivisors(y, r)
  BY <1>3, <1>4, SameDivisors
<1>6. r \notin Not /\ r \in Nat
  BY <1>1, <1>3, <1>5
<1>7. Gcd[r][y] \in CommonDivisors(y, r)
  BY <1>3, <1>6
<1>8. Gcd[y][x] = Gcd[r][y]
  BY <1>3, <1>4, GcdIs
<1> QED
  BY <1>2, <1>5, <1>7, <1>8

LEMMA GcdPositive ==
  ASSUME NEW m \in Nat, m > 0, NEW n \in Nat
  PROVE  /\ Gcd[n][m] \in Nat /\ Gcd[n][m] > 0 /\ Gcd[m][n] \in Nat /\ Gcd[m][n] > 0
         /\ Divides(Gcd[n][m], m) /\ Divides(Gcd[n][m], n)
         /\ Divides(Gcd[m][n], m) /\ Divides(Gcd[m][n], n)
<1>1. PICK g, h : g = Gcd[n][m] /\ h = Gcd[m][n]
  OBVIOUS
<1>2. /\ g \in Nat /\ Divides(g, m) /\ Divides(g, n)
      /\ h \in Nat /\ Divides(h, m) /\ Divides(h, n)
  BY <1>1, GcdDivides DEF CommonDivisors
<1>3. ASSUME NEW d \in Nat, Divides(d, m) PROVE d > 0
  <2>1. PICK k \in Int : m = d * k
    BY <1>3 DEF Divides
  <2> QED
    BY <2>1
<1> QED
  BY <1>1, <1>2, <1>3

(* x is the number n / d.                                                  *)
Worth(x, n, d) ==
  /\ x[1] \in Int /\ x[2] \in Nat /\ x[2] > 0
  /\ n \in Int /\ d \in Int /\ d > 0 /\ x[1] * d = n * x[2]

LEMMA Cancel ==
  ASSUME NEW k \in Int, k # 0, NEW m \in Int, NEW n \in Int, k * m = k * n
  PROVE  m = n
<1>1. k * (m - n) = 0
  OBVIOUS
<1> QED
  BY <1>1

LEMMA SameSign ==
  ASSUME NEW x, NEW n, NEW d, Worth(x, n, d)
  PROVE  (x[1] < 0 <=> n < 0) /\ n \in Int
<1>1. PICK p, q : p = x[1] /\ q = x[2]
  OBVIOUS
<1>2. p \in Int /\ q \in Int /\ q > 0 /\ n \in Int /\ d \in Int /\ d > 0 /\ p * d = n * q
  BY <1>1 DEF Worth
<1>3. p < 0 => p * d < 0
  BY <1>2
<1>4. p >= 0 => p * d >= 0
  BY <1>2
<1>5. n < 0 => n * q < 0
  BY <1>2
<1>6. n >= 0 => n * q >= 0
  BY <1>2
<1> QED
  BY <1>1, <1>2, <1>3, <1>4, <1>5, <1>6

LEMMA FracWorth ==
  ASSUME NEW n \in Int, NEW d \in Nat, d > 0
  PROVE  Worth(Frac(n, d), n, d)
<1>1. PICK N : N = Abs(n)
  OBVIOUS
<1>2. N \in Nat /\ Abs(d) = d
  BY <1>1 DEF Abs
<1>3. PICK g : g = Gcd[d][N]
  OBVIOUS
<1>4. g \in Nat /\ g > 0 /\ Divides(g, N) /\ Divides(g, d)
  BY <1>2, <1>3, GcdPositive
<1>5. PICK b \in Int : d = g * b
  BY <1>4 DEF Divides
<1>6. PICK a \in Int : n = g * a
  <2>1. PICK k \in Int : N = g * k
    BY <1>4 DEF Divides
  <2>2. -k \in Int /\ (n = g * k \/ n = g * (-k))
    BY <1>1, <1>4, <2>1 DEF Abs
  <2> QED
    BY <2>1, <2>2
<1>7. n \div g = a /\ d \div g = b /\ b > 0
  BY <1>4, <1>5, <1>6
<1>8. Frac(n, d) = << 1 * (n \div g), 1 * (d \div g) >>
  BY <1>1, <1>2, <1>3 DEF Frac
<1>9. PICK x : x = Frac(n, d)
  OBVIOUS
<1>10. x[1] = a /\ x[2] = b
  BY <1>7, <1>8, <1>9
<1>11. a * d = n * b
  BY <1>4, <1>5, <1>6
<1> QED
  BY <1>7, <1>9, <1>10, <1>11 DEF Worth

(* From what x and y are to what n / d and m / e are.                      *)
LEMMA WorthSame ==
  ASSUME NEW x, NEW n, NEW d, Worth(x, n, d), NEW m \in Int, NEW e \in Int, e > 0, n * e = m * d
  PROVE  Worth(x, m, e)
<1>1. PICK p, q : p = x[1] /\ q = x[2]
  OBVIOUS
<1>2. /\ p \in Int /\ q \in Nat /\ q > 0 /\ n \in Int /\ d \in Int /\ d > 0
      /\ p * d = n * q
  BY <1>1 DEF Worth
<1>3. d * (p * e) = d * (m * q)
  <2>1. d * (p * e) = (p * d) * e /\ (n * q) * e = (n * e) * q /\ (m * d) * q = d * (m * q)
    BY <1>2
  <2> QED
    BY <1>2, <2>1
<1>4. p * e \in Int /\ m * q \in Int
  BY <1>2
<1>5. p * e = m * q
  BY <1>2, <1>3, <1>4, Cancel
<1> QED
  BY <1>1, <1>2, <1>5 DEF Worth

LEMMA SumWorth ==
  ASSUME NEW x, NEW y, NEW n, NEW d, NEW m, NEW e, Worth(x, n, d), Worth(y, m, e)
  PROVE  Worth(x \oplus y, n * e + m * d, d * e)
<1>1. PICK p, q : p = x[1] /\ q = x[2]
  OBVIOUS
<1>2. PICK r, s : r = y[1] /\ s = y[2]
  OBVIOUS
<1>3. /\ p \in Int /\ q \in Nat /\ q > 0 /\ r \in Int /\ s \in Nat /\ s > 0
      /\ n \in Int /\ d \in Int /\ d > 0 /\ m \in Int /\ e \in Int /\ e > 0
      /\ p * d = n * q /\ r * e = m * s
  BY <1>1, <1>2 DEF Worth
<1>4. PICK g : g = Gcd[s][q]
  OBVIOUS
<1>5. g \in Nat /\ g > 0 /\ Divides(g, q) /\ Divides(g, s)
  BY <1>3, <1>4, GcdPositive
<1>6. PICK u \in Int : q = g * u
  BY <1>5 DEF Divides
<1>7. PICK v \in Int : s = g * v
  BY <1>5 DEF Divides
<1>8. q \div g = u /\ s \div g = v /\ u > 0
  BY <1>3, <1>5, <1>6, <1>7
<1>9. PICK N, D : N = p * v + r * u /\ D = u * s
  OBVIOUS
<1>10. x \oplus y = Frac(N, D)
  BY <1>1, <1>2, <1>4, <1>8, <1>9 DEF \oplus
<1>11. N \in Int /\ D \in Nat /\ D > 0
  BY <1>3, <1>8, <1>9
<1>12. Worth(Frac(N, D), N, D)
  BY <1>11, FracWorth
<1>13. N * (d * e) = (n * e + m * d) * D
  <2>1. g * (N * (d * e)) = (p * d) * (s * e) + (r * e) * (q * d)
    <3>1. g * N = p * s + r * q
      BY <1>3, <1>5, <1>6, <1>7, <1>9
    <3>2. g * (N * (d * e)) = (g * N) * (d * e)
      BY <1>3, <1>5, <1>11
    <3>3. (p * s + r * q) * (d * e) = (p * d) * (s * e) + (r * e) * (q * d)
      BY <1>3
    <3> QED
      BY <3>1, <3>2, <3>3
  <2>2. g * ((n * e + m * d) * D) = (n * q) * (s * e) + (m * s) * (q * d)
    <3>1. g * D = q * s
      BY <1>3, <1>5, <1>6, <1>9
    <3>2. g * ((n * e + m * d) * D) = (n * e + m * d) * (g * D)
      BY <1>3, <1>5, <1>11
    <3>3. (n * e + m * d) * (q * s) = (n * q) * (s * e) + (m * s) * (q * d)
      BY <1>3
    <3> QED
      BY <3>1, <3>2, <3>3
  <2>3. N * (d * e) \in Int /\ (n * e + m * d) * D \in Int
    BY <1>3, <1>11
  <2>4. g * (N * (d * e)) = g * ((n * e + m * d) * D)
    BY <1>3, <2>1, <2>2
  <2> QED
    BY <1>5, <2>3, <2>4, Cancel
<1>14. n * e + m * d \in Int /\ d * e \in Int /\ d * e > 0
  BY <1>3
<1> QED
  BY <1>10, <1>12, <1>13, <1>14, WorthSame

LEMMA DifferenceWorth ==
  ASSUME NEW x, NEW y, NEW n, NEW d, NEW m, NEW e, Worth(x, n, d), Worth(y, m, e)
  PROVE  Worth(x \ominus y, n * e - m * d, d * e)
<1>1. PICK z : z = << -y[1], y[2] >>
  OBVIOUS
<1>2. PICK k : k = -m
  OBVIOUS
<1>3. Worth(z, k, e)
  <2>1. z[1] = -y[1] /\ z[2] = y[2]
    BY <1>1
  <2>2. PICK r, s : r = y[1] /\ s = y[2]
    OBVIOUS
  <2>3. r \in Int /\ s \in Nat /\ s > 0 /\ m \in Int /\ e \in Int /\ e > 0 /\ r * e = m * s
    BY <2>2 DEF Worth
  <2>4. (-r) * e = k * s /\ -r \in Int /\ k \in Int
    BY <1>2, <2>3
  <2> QED
    BY <2>1, <2>2, <2>3, <2>4 DEF Worth
<1>4. Worth(x \oplus z, n * e + k * d, d * e)
  BY <1>3, SumWorth
<1>5. n * e + k * d = n * e - m * d
  BY <1>2 DEF Worth
<1>6. x \ominus y = x \oplus z
  BY <1>1 DEF \ominus
<1> QED
  BY <1>4, <1>5, <1>6

LEMMA ProductWorth ==
  ASSUME NEW x, NEW y, NEW n, NEW d, NEW m, NEW e, Worth(x, n, d), Worth(y, m, e)
  PROVE  Worth(x \otimes y, n * m, d * e)
<1>1. PICK p, q : p = x[1] /\ q = x[2]
  OBVIOUS
<1>2. PICK r, s : r = y[1] /\ s = y[2]
  OBVIOUS
<1>3. /\ p \in Int /\ q \in Nat /\ q > 0 /\ r \in Int /\ s \in Nat /\ s > 0
      /\ n \in Int /\ d \in Int /\ d > 0 /\ m \in Int /\ e \in Int /\ e > 0
      /\ p * d = n * q /\ r * e = m * s
  BY <1>1, <1>2 DEF Worth
<1>4. PICK a, b : a = Frac(p, s) /\ b = Frac(r, q)
  OBVIOUS
<1>5. Worth(a, p, s) /\ Worth(b, r, q)
  BY <1>3, <1>4, FracWorth
<1>6. PICK i, j, k, l : i = a[1] /\ j = a[2] /\ k = b[1] /\ l = b[2]
  OBVIOUS
<1>7. /\ i \in Int /\ j \in Nat /\ j > 0 /\ k \in Int /\ l \in Nat /\ l > 0
      /\ i * s = p * j /\ k * q = r * l
  BY <1>5, <1>6 DEF Worth
<1>8. PICK z : z = << i * k, j * l >>
  OBVIOUS
<1>9. z = x \otimes y /\ z[1] = i * k /\ z[2] = j * l
  BY <1>1, <1>2, <1>4, <1>6, <1>8 DEF \otimes
<1>10. Worth(z, p * r, q * s)
  <2>1. (i * k) * (q * s) = (i * s) * (k * q)
    BY <1>3, <1>7
  <2>2. (p * j) * (r * l) = (p * r) * (j * l)
    BY <1>3, <1>7
  <2>3. (i * k) * (q * s) = (p * r) * (j * l)
    BY <1>7, <2>1, <2>2
  <2>4. i * k \in Int /\ j * l \in Nat /\ j * l > 0 /\ p * r \in Int /\ q * s \in Int /\ q * s > 0
    BY <1>3, <1>7
  <2> QED
    BY <1>9, <2>3, <2>4 DEF Worth
<1>11. (p * r) * (d * e) = (n * m) * (q * s)
  <2>1. (p * r) * (d * e) = (p * d) * (r * e)
    BY <1>3
  <2>2. (n * q) * (m * s) = (n * m) * (q * s)
    BY <1>3
  <2> QED
    BY <1>3, <2>1, <2>2
<1>12. n * m \in Int /\ d * e \in Int /\ d * e > 0
  BY <1>3
<1> QED
  BY <1>9, <1>10, <1>11, <1>12, WorthSame

LEMMA RatWorth == ASSUME NEW n \in Int PROVE Worth(Rat(n), n, 1)
  BY DEF Rat, Worth

(* Nothing of anything is nothing.                                         *)
LEMMA ZeroTimes ==
  ASSUME NEW x, NEW n, NEW d, Worth(x, n, d)
  PROVE  Zero \otimes x = Zero
<1>1. PICK p, q : p = x[1] /\ q = x[2]
  OBVIOUS
<1>2. p \in Int /\ q \in Nat /\ q > 0
  BY <1>1 DEF Worth
<1>3. Frac(0, q) = << 0, 1 >>
  <2>1. Abs(q) = q /\ Abs(0) = 0 /\ ~(q < 0) /\ 0 % q = 0
    BY <1>2 DEF Abs
  <2>2. Gcd[q][0] = q
    BY <1>2, <2>1, GcdIs
  <2>3. 0 \div q = 0 /\ q \div q = 1
    BY <1>2
  <2> QED
    BY <2>1, <2>2, <2>3 DEF Frac
<1>4. Frac(p, 1) = << p, 1 >>
  <2>1. PICK m : m = Abs(p)
    OBVIOUS
  <2>2. m \in Nat /\ Abs(1) = 1 /\ m % 1 = 0
    BY <1>2, <2>1 DEF Abs
  <2>3. Gcd[1][m] = 1
    BY <2>2, GcdIs
  <2>4. p \div 1 = p /\ 1 \div 1 = 1
    BY <1>2
  <2> QED
    BY <1>2, <2>1, <2>2, <2>3, <2>4 DEF Frac
<1> QED
  BY <1>1, <1>2, <1>3, <1>4 DEF Zero, Rat, \otimes

LEMMA Precedes ==
  ASSUME NEW x, NEW y, NEW n, NEW d, NEW m, NEW e, Worth(x, n, d), Worth(y, m, e)
  PROVE  (x \prec y) <=> n * e - m * d < 0
<1>1. Worth(x \ominus y, n * e - m * d, d * e)
  BY DifferenceWorth
<1> QED
  BY <1>1, SameSign DEF \prec

LEMMA MarkWorth ==
  ASSUME NEW j \in Int, NEW h \in Int, NEW days \in Int
  PROVE  \E n, d : Worth(HurdleAdjusted(Rat(j), h, days), n, d)
<1>1. Worth(Bps(h), h, 10000) /\ Worth(Frac(days, 365), days, 365)
  BY FracWorth DEF Bps
<1>2. Worth(Bps(h) \otimes Frac(days, 365), h * days, 10000 * 365)
  BY <1>1, ProductWorth
<1>3. Worth(One, 1, 1)
  BY RatWorth DEF One
<1>4. PICK x, y : x = Bps(h) \otimes Frac(days, 365) /\ y = One \oplus x
  OBVIOUS
<1>5. PICK n, d : n = h * days /\ d = 10000 * 365
  OBVIOUS
<1>6. Worth(x, n, d)
  BY <1>2, <1>4, <1>5
<1>7. Worth(y, 1 * d + n * 1, 1 * d)
  BY <1>3, <1>4, <1>6, SumWorth
<1>8. PICK m, e : Worth(y, m, e)
  BY <1>7
<1>9. PICK r : r = Rat(j)
  OBVIOUS
<1>10. Worth(r, j, 1)
  BY <1>9, RatWorth
<1>11. Worth(r \otimes y, j * m, 1 * e)
  BY <1>8, <1>10, ProductWorth
<1>12. HurdleAdjusted(Rat(j), h, days) = r \otimes y
  BY <1>4, <1>9 DEF HurdleAdjusted
<1> QED
  BY <1>11, <1>12

(* A share f of what is above the mark leaves at least the mark.           *)
StopsAt(nav, mark, fee, f) ==
  IF mark \prec nav
  THEN /\ ~((nav \ominus fee) \prec mark)
       /\ f > 0 => Zero \prec fee
  ELSE fee = Zero

LEMMA FeeStops ==
  ASSUME NEW nav, NEW mark, NEW f \in Int, 0 <= f, f <= 10000,
         NEW a, NEW b, Worth(nav, a, b), NEW p, NEW q, Worth(mark, p, q),
         NEW fee, fee = NoLess(Zero, nav \ominus mark) \otimes Bps(f)
  PROVE  StopsAt(nav, mark, fee, f)
<1>1. a \in Int /\ b \in Int /\ b > 0 /\ p \in Int /\ q \in Int /\ q > 0
  BY DEF Worth
<1>2. PICK D, E : D = a * q - p * b /\ E = b * q
  OBVIOUS
<1>3. D \in Int /\ E \in Int /\ E > 0
  BY <1>1, <1>2
<1>4. PICK d : d = nav \ominus mark
  OBVIOUS
<1>5. Worth(d, D, E)
  BY <1>2, <1>4, DifferenceWorth
<1>6. Worth(Zero, 0, 1)
  BY RatWorth DEF Zero
<1>7. (mark \prec nav) <=> D > 0
  <2>1. (mark \prec nav) <=> p * b - a * q < 0
    BY Precedes
  <2> QED
    BY <1>1, <1>2, <2>1
<1>8. (Zero \prec d) <=> D > 0
  <2>1. (Zero \prec d) <=> 0 * E - D * 1 < 0
    BY <1>5, <1>6, Precedes
  <2> QED
    BY <1>3, <2>1
<1>9. Worth(Bps(f), f, 10000)
  BY FracWorth DEF Bps
<1>10. CASE D > 0
  <2>1. fee = d \otimes Bps(f)
    BY <1>4, <1>8, <1>10 DEF NoLess
  <2>2. PICK n, m : n = D * f /\ m = E * 10000
    OBVIOUS
  <2>3. Worth(fee, n, m) /\ n \in Int /\ m \in Int /\ m > 0
    <3>1. PICK r : r = Bps(f)
      OBVIOUS
    <3>2. Worth(r, f, 10000)
      BY <1>9, <3>1
    <3>3. Worth(d \otimes r, D * f, E * 10000)
      BY <1>5, <3>2, ProductWorth
    <3> QED
      BY <2>1, <2>2, <3>1, <3>3 DEF Worth
  <2>4. ~((nav \ominus fee) \prec mark)
    <3>1. PICK k, l : k = a * m - n * b /\ l = b * m
      OBVIOUS
    <3>2. Worth(nav \ominus fee, k, l)
      BY <2>3, <3>1, DifferenceWorth
    <3>3. ((nav \ominus fee) \prec mark) <=> k * q - p * l < 0
      BY <3>2, Precedes
    <3>4. k * q - p * l = (D * E) * (10000 - f)
      <4>1. k * q - p * l = m * (a * q - p * b) - n * (b * q)
        BY <1>1, <2>3, <3>1
      <4>2. m * (a * q - p * b) - n * (b * q) = m * D - n * E
        BY <1>2
      <4>3. m * D - n * E = (D * E) * (10000 - f)
        BY <1>3, <2>2
      <4> QED
        BY <4>1, <4>2, <4>3
    <3>5. (D * E) * (10000 - f) >= 0
      <4>1. D * E > 0 /\ D * E \in Int
        BY <1>3, <1>10
      <4>2. PICK x, y : x = D * E /\ y = 10000 - f
        OBVIOUS
      <4>3. x \in Int /\ y \in Int /\ x > 0 /\ y >= 0
        BY <4>1, <4>2
      <4>4. x * y >= 0
        BY <4>3
      <4> QED
        BY <4>2, <4>4
    <3>6. PICK z : z = k * q - p * l
      OBVIOUS
    <3>7. z \in Int /\ z >= 0
      BY <1>3, <3>4, <3>5, <3>6
    <3>8. ((nav \ominus fee) \prec mark) <=> z < 0
      BY <3>3, <3>6
    <3> QED
      BY <3>7, <3>8
  <2>5. ASSUME f > 0 PROVE Zero \prec fee
    <3>0. Worth(fee, n, m)
      BY <2>3
    <3>1. (Zero \prec fee) <=> 0 * m - n * 1 < 0
      BY <1>6, <3>0, Precedes
    <3>2. n > 0
      BY <1>3, <1>10, <2>2, <2>5
    <3> QED
      BY <2>3, <3>1, <3>2
  <2> QED
    BY <1>7, <1>10, <2>4, <2>5 DEF StopsAt
<1>11. CASE ~(D > 0)
  <2>1. NoLess(Zero, d) = Zero
    BY <1>8, <1>11 DEF NoLess
  <2>2. fee = Zero
    BY <1>4, <1>9, <2>1, ZeroTimes
  <2> QED
    BY <1>7, <1>11, <2>2 DEF StopsAt
<1> QED
  BY <1>10, <1>11

(* No fee is more than the whole.                                          *)
FeesArePartial ==
  \A c \in Calls :
    c.tool = "compute_perf_fee" /\ Arg(c.args, "perf_fee_bps") \in Int =>
      Arg(c.args, "perf_fee_bps") <= 10000

\* For any numbers the model sends, a fee of at most the whole return never
\* takes the investor below the mark it is charged above, and is charged on
\* everything above it (computation.py:92-122).
THEOREM FeeAlwaysStopsAtTheHurdle ==
  ASSUME FeesArePartial PROVE Spec => []FeeStopsAtTheHurdle
<1>1. Truthful /\ Sent => FeeStopsAtTheHurdle
  <2> SUFFICES ASSUME Truthful, Sent, NEW k \in DOMAIN log,
                      NEW c, c = log[k].call, NEW p, p = shown[k],
                      NEW nav, nav = Number(c.args, "nav_per_share"),
                      NEW mark, mark = HurdleAdjusted(Number(c.args, "hwm_nav_per_share"),
                                         Arg(c.args, "hurdle_bps"), Arg(c.args, "period_days")),
                      c.tool = "compute_perf_fee", ~p.error
               PROVE  StopsAt(nav, mark, p.value, Arg(c.args, "perf_fee_bps"))
    BY DEF FeeStopsAtTheHurdle, StopsAt
  <2>1. c \in Calls /\ p \in Answers(db, c)
    BY DEF Truthful, Sent
  <2>2. Accepted(c)
    <3>1. serialize_result(Raised).error = TRUE
      BY DEF serialize_result, Raised, Outcome
    <3> QED
      BY <2>1, <3>1 DEF Answers
  <2>3. PICK i, j, h, f, days :
          /\ i = Arg(c.args, "nav_per_share") /\ j = Arg(c.args, "hwm_nav_per_share")
          /\ h = Arg(c.args, "hurdle_bps") /\ f = Arg(c.args, "perf_fee_bps")
          /\ days = Arg(c.args, "period_days")
    OBVIOUS
  <2>4. i \in Int /\ j \in Int /\ h \in Int /\ f \in Int /\ days \in Int
    <3> DEFINE Names == {"nav_per_share", "hwm_nav_per_share", "hurdle_bps", "perf_fee_bps",
                         "period_days"}
    <3>1. /\ c.tool \in DOMAIN ComputationArgs
          /\ Names \subseteq ComputationArgs[c.tool].needs \cup ComputationArgs[c.tool].may
      BY DEF ComputationArgs, Reads
    <3>2. \A n \in Names : n \notin Texts /\ n # "series"
      BY DEF Texts
    <3>3. ASSUME NEW n \in Names PROVE Arg(c.args, n) \in Int
      <4>1. /\ n \in ComputationArgs[c.tool].needs \cup ComputationArgs[c.tool].may
            /\ n \notin Texts /\ n # "series"
        BY <3>1, <3>2
      <4> HIDE DEF Names
      <4>2. IF n = "series" THEN Arg(c.args, n) \in Seq(Int) ELSE Arg(c.args, n) \in Int
        BY <2>1, <2>2, <3>1, <4>1, ParsedIsNumber
      <4> QED
        BY <4>1, <4>2
    <3> QED
      BY <2>3, <3>3
  <2>5. f <= 10000
    BY <2>1, <2>3, <2>4 DEF FeesArePartial
  <2>6. /\ ~FeeRaises(Rat(i), Rat(j), f)
        /\ p.value = compute_perf_fee(Rat(i), Rat(j), h, f, days)
    <3>1. Outcomes(db, c.tool, c.args) =
            {IF ComputeRaises(c.tool, c.args) THEN Raised
             ELSE Outcome(FALSE, << >>, Computed(c.tool, c.args))}
      BY DEF Outcomes, ComputationArgs
    <3>2. PICK o : /\ p = serialize_result(o)
                   /\ o = IF ComputeRaises(c.tool, c.args) THEN Raised
                          ELSE Outcome(FALSE, << >>, Computed(c.tool, c.args))
      BY <2>1, <2>2, <3>1 DEF Answers
    <3>3. p.error = o.error /\ p.value = o.value
      BY <3>2 DEF serialize_result
    <3>4. ~ComputeRaises(c.tool, c.args)
      <4>1. Raised.error = TRUE
        BY DEF Raised, Outcome
      <4> QED
        BY <3>2, <3>3, <4>1
    <3>5. o.value = Computed(c.tool, c.args)
      BY <3>2, <3>4 DEF Outcome
    <3>6. ComputeRaises(c.tool, c.args) <=> FeeRaises(Rat(i), Rat(j), f)
      BY <2>3 DEF ComputeRaises, Number
    <3>7. Computed(c.tool, c.args) = compute_perf_fee(Rat(i), Rat(j), h, f, days)
      BY <2>3 DEF Computed, Number
    <3> QED
      BY <3>3, <3>4, <3>5, <3>6, <3>7
  <2>7. f >= 0
    BY <2>4, <2>6 DEF FeeRaises
  <2>8. nav = Rat(i) /\ mark = HurdleAdjusted(Rat(j), h, days)
    BY <2>3 DEF Number
  <2>9. Worth(nav, i, 1)
    BY <2>4, <2>8, RatWorth
  <2>10. PICK m, e : Worth(mark, m, e)
    BY <2>4, <2>8, MarkWorth
  <2>11. p.value = NoLess(Zero, nav \ominus mark) \otimes Bps(f)
    BY <2>6, <2>8 DEF compute_perf_fee
  <2>12. StopsAt(nav, mark, p.value, f)
    BY <2>4, <2>5, <2>7, <2>9, <2>10, <2>11, FeeStops
  <2> QED
    BY <2>3, <2>12
<1> QED
  BY <1>1, AlwaysTruthful, AlwaysSent, PTL
=============================================================================

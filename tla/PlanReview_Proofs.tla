---- MODULE PlanReview_Proofs ----
(***************************************************************************)
(* Proofs about PlanReview for any action names, whatever aliases they     *)
(* contain, any alerted values and any length of plans: which handlers of  *)
(* high risk a plan can reach without a decision, what the rules of the    *)
(* sandbox stop, and that their verdict is none weaker than that of any    *)
(* single action.                                                          *)
(*                                                                         *)
(* The first two compare tables: HANDLERS with the names the risk policy   *)
(* calls high (HighNames), with the sandbox's risks (HighIsRisky) and with *)
(* the order of the aliases (AliasedHandler).  That no action makes up for *)
(* another rests on how few effects degrade a metric (DegradingEffect).    *)
(***************************************************************************)
EXTENDS PlanReview, FiniteSetTheorems, TLAPS

Risky(p) == \E i \in DOMAIN p : p[i] \in HighRiskActions

\* What holds of a plan until the sandbox replaces it.
RiskFits == stage # "arbitrating" /\ ~replaced /\ Risky(plan) => risk = "high"

DecisionFits ==
    stage \notin {"arbitrating", "waiting"} /\ decision = "none" => ~RequiresApproval(risk)

VerdictFits ==
    /\ stage \in {"arbitrating", "waiting", "verifying"} =>
          judge = "none" /\ dispatched = 0 /\ ~replaced
    /\ judge = "rules" => verdict = RuleVerdict(plan, current) /\ ~replaced
    /\ dispatched > 0 => verdict # "blocked"
    /\ stage = "executing" => verdict # "blocked"

IInv ==
    /\ TypeOK
    /\ RiskFits
    /\ DecisionFits
    /\ VerdictFits

----------------------------------------------------------------------------
(* The tables *)

HandlerNames ==
    {"rollback_deployment", "scale_deployment", "scale_down", "restart_pod",
     "redis_config_set", "mysql_kill_query", "mysql_failover", "network_traffic_shift",
     "dns_failover", "plc_parameter_rollback", "cnc_parameter_adjust", "emergency_stop"}

LEMMA HandlerTable ==
    /\ DOMAIN HANDLERS = HandlerNames
    /\ \A h \in HandlerNames : HANDLERS[h] = "high" <=> h \in HighRiskActions
  BY DEF HANDLERS, HandlerNames, HighRiskActions

\* The risk policy knows every handler of high risk under its own name.
LEMMA HighNames ==
    ASSUME NEW h, HighRisk(h)
    PROVE  h \in HighRiskActions
  BY HandlerTable DEF HighRisk

\* So does the sandbox.
LEMMA HighIsRisky ==
    ASSUME NEW h \in HighRiskActions
    PROVE  /\ h \in DOMAIN CROSS_ACTION_RISKS
           /\ CROSS_ACTION_RISKS[h] \in {"high", "critical"}
  BY DEF HighRiskActions, CROSS_ACTION_RISKS

\* Of the handlers of high risk only mysql_failover is reached by an alias:
\* a name that holds "plc_rollback" holds "rollback", which comes first.
LEMMA AliasedHandler ==
    ASSUME NEW n \in Names, n \notin DOMAIN HANDLERS, HighRisk(Handler(n))
    PROVE  Handler(n) = "mysql_failover"
<1>1. "none" \notin HighRiskActions
  BY DEF HighRiskActions
<1>2. Hits(n) # {} /\ Handler(n) = alias_map[FirstHit(n)][2]
  BY <1>1, HighNames DEF Handler
<1>3. DOMAIN alias_map = 1 .. 7 /\ Hits(n) \subseteq 1 .. 7
  BY DEF alias_map, Hits
<1>4. \E i \in Hits(n) : \A j \in Hits(n) : i <= j
  <2>1. \A k \in 1 .. 7 : k \in Hits(n) /\ (\A j \in 1 .. k - 1 : j \notin Hits(n))
                             => \A j \in Hits(n) : k <= j
    BY <1>3
  <2>2. \E k \in 1 .. 7 : k \in Hits(n) /\ (\A j \in 1 .. k - 1 : j \notin Hits(n))
    BY <1>2, <1>3
  <2> QED BY <2>1, <2>2
<1>5. FirstHit(n) \in Hits(n) /\ \A j \in Hits(n) : FirstHit(n) <= j
  BY <1>4 DEF FirstHit
<1>6. FirstHit(n) # 7
  <2> SUFFICES ASSUME FirstHit(n) = 7 PROVE FALSE
    OBVIOUS
  <2>1. "plc_rollback" \in FoldedWords[n]
    BY <1>5 DEF Hits, alias_map
  <2>2. 1 \in Hits(n)
    BY <1>3, <2>1, FoldedWordsAssumption DEF Hits, alias_map
  <2> QED BY <1>5, <2>2
<1>7. FirstHit(n) \in 1 .. 6
  BY <1>3, <1>5, <1>6
<1>8. \A k \in 1 .. 6 : alias_map[k][2] \in HighRiskActions => alias_map[k][2] = "mysql_failover"
  BY DEF alias_map, HighRiskActions
<1> QED BY <1>2, <1>7, <1>8, HighNames

\* A name the risk policy calls high makes the plan high, whatever the severity.
LEMMA RiskyIsHigh ==
    ASSUME NEW severity, NEW llmRisk, NEW types, types \cap HighRiskActions # {}
    PROVE  RiskOfPlan(severity, llmRisk, types) = "high"
  BY DEF RiskOfPlan

LEMMA RiskType ==
    ASSUME NEW severity, NEW llmRisk \in RiskLevels, NEW types
    PROVE  RiskOfPlan(severity, llmRisk, types) \in RiskLevels
<1>1. SeverityRisk(severity, llmRisk) \in RiskLevels
  BY DEF SeverityRisk, RiskLevels
<1>2. min_risk(SeverityRisk(severity, llmRisk), "low") \in RiskLevels
  BY <1>1 DEF min_risk, RiskLevels
<1> QED BY <1>1, <1>2 DEF RiskOfPlan, RiskLevels

\* The rules block a plan with a name of high risk, whatever the metrics.
LEMMA RiskyIsBlocked ==
    ASSUME NEW p, NEW c, Risky(p)
    PROVE  RuleVerdict(p, c) = "blocked"
<1>1. PICK i \in DOMAIN p : p[i] \in HighRiskActions
  BY DEF Risky
<1>2. CROSS_ACTION_RISKS[p[i]] \in Risks(p, c)
  BY <1>1, HighIsRisky DEF Risks, CrossRisks
<1> QED BY <1>1, <1>2, HighIsRisky DEF RuleVerdict

\* Of all the effects one alone degrades: more processor load by scaling.
LEMMA DegradingEffect ==
    ASSUME NEW n \in DOMAIN ACTION_EFFECTS, NEW e \in ACTION_EFFECTS[n], e.direction = "degrading"
    PROVE  e = Effect("cpu_usage", "degrading", 15)
<1>1. \A m, d, x : Effect(m, d, x).direction = d
  BY DEF Effect
<1> HIDE DEF Effect
<1>2. n \in {"scale", "scale_deployment"} => e \in Scaling
  BY DEF ACTION_EFFECTS
<1>3. n \notin {"scale", "scale_deployment"} => e.direction # "degrading"
  BY <1>1 DEF ACTION_EFFECTS
<1> QED
  BY <1>1, <1>2, <1>3 DEF Scaling

\* A plan of one action is therefore never bad for its degrading metrics.
LEMMA OneActionDegradesOne ==
    ASSUME NEW n, NEW c
    PROVE  Cardinality(Degrading(<<n>>, c)) \in {0, 1}
<1> DEFINE load == Point(1, "cpu_usage", PostValue(PreValue(c, "cpu_usage"), Effect("cpu_usage", "degrading", 15)), "degrading")
<1>1. ASSUME NEW p \in Degrading(<<n>>, c) PROVE p = load
  <2>1. p \in Simulate(1, n, c) /\ p.trend = "degrading"
    BY DEF Degrading, SimulatedMetrics
  <2>2. n \in DOMAIN ACTION_EFFECTS
    BY <2>1 DEF Simulate, Point
  <2>3. PICK e \in ACTION_EFFECTS[n] : p = Point(1, e.metric_name, PostValue(PreValue(c, e.metric_name), e), e.direction)
    BY <2>1, <2>2 DEF Simulate
  <2>4. e.direction = "degrading"
    BY <2>1, <2>3 DEF Point
  <2>5. e = Effect("cpu_usage", "degrading", 15)
    BY <2>2, <2>4, DegradingEffect
  <2>6. e.metric_name = "cpu_usage"
    BY <2>5 DEF Effect
  <2> QED
    BY <2>3, <2>4, <2>5, <2>6
<1> HIDE DEF load
<1>2. Degrading(<<n>>, c) = {} \/ Degrading(<<n>>, c) = {load}
  BY <1>1
<1> QED
  BY <1>2, FS_EmptySet, FS_Singleton

\* What the rules find in an action alone, they find in a plan that has it.
LEMMA RisksOfOne ==
    ASSUME NEW p \in Seq(Names), NEW c, NEW i \in DOMAIN p
    PROVE  Risks(<<p[i]>>, c) \subseteq Risks(p, c)
<1> DEFINE n == p[i]
<1>1. CrossRisks(<<n>>) \subseteq CrossRisks(p)
  BY DEF CrossRisks
<1>2. ASSUME NEW q \in SimulatedMetrics(<<n>>, c)
      PROVE  \E r \in SimulatedMetrics(p, c) : r.metric_name = q.metric_name /\ r.post = q.post
  <2>1. q \in Simulate(1, n, c)
    BY DEF SimulatedMetrics
  <2>2. \E r \in Simulate(i, n, c) : r.metric_name = q.metric_name /\ r.post = q.post
    <3>1. CASE n \in DOMAIN ACTION_EFFECTS
      <4>1. PICK e \in ACTION_EFFECTS[n] :
                q = Point(1, e.metric_name, PostValue(PreValue(c, e.metric_name), e), e.direction)
        BY <2>1, <3>1 DEF Simulate
      <4>2. Point(i, e.metric_name, PostValue(PreValue(c, e.metric_name), e), e.direction) \in Simulate(i, n, c)
        BY <3>1 DEF Simulate
      <4> QED
        BY <4>1, <4>2 DEF Point
    <3>2. CASE n \notin DOMAIN ACTION_EFFECTS
      <4>1. PICK m \in Metrics : c[m] # 0 /\ q = Point(1, m, 100 * c[m], "neutral")
        BY <2>1, <3>2 DEF Simulate
      <4>2. Point(i, m, 100 * c[m], "neutral") \in Simulate(i, n, c)
        BY <3>2, <4>1 DEF Simulate
      <4> QED
        BY <4>1, <4>2 DEF Point
    <3> QED
      BY <3>1, <3>2
  <2>3. Simulate(i, n, c) \subseteq SimulatedMetrics(p, c)
    BY DEF SimulatedMetrics
  <2> QED
    BY <2>2, <2>3
<1>3. ThresholdRisks(SimulatedMetrics(<<n>>, c)) \subseteq ThresholdRisks(SimulatedMetrics(p, c))
  BY <1>2 DEF ThresholdRisks
<1> QED
  BY <1>1, <1>3 DEF Risks

\* No action makes up for another: the verdict on a plan is as strong as the
\* verdict on each of its actions.
LEMMA VerdictOfOne ==
    ASSUME NEW p \in Seq(Names), NEW c, NEW i \in DOMAIN p
    PROVE  Strength(RuleVerdict(p, c)) >= Strength(RuleVerdict(<<p[i]>>, c))
<1>1. Risks(<<p[i]>>, c) \subseteq Risks(p, c) /\ ~(Cardinality(Degrading(<<p[i]>>, c)) > 2)
  <2>1. Cardinality(Degrading(<<p[i]>>, c)) \in {0, 1}
    BY OneActionDegradesOne
  <2> QED
    BY <2>1, RisksOfOne
<1>2. RuleVerdict(<<p[i]>>, c) = "blocked" => RuleVerdict(p, c) = "blocked"
  BY <1>1 DEF RuleVerdict
<1>3. RuleVerdict(<<p[i]>>, c) = "needs_modification" => RuleVerdict(p, c) \in {"blocked", "needs_modification"}
  BY <1>1 DEF RuleVerdict
<1>4. \A q : RuleVerdict(q, c) \in {"safe", "needs_modification", "blocked"}
  BY DEF RuleVerdict
<1> QED
  BY <1>2, <1>3, <1>4 DEF Strength

----------------------------------------------------------------------------
(* The invariant *)

LEMMA InitInvariant == Init => IInv
<1> SUFFICES ASSUME Init PROVE IInv
  OBVIOUS
<1>1. plan = << >> /\ plan \in Seq(Names) /\ Len(plan) = 0
  BY DEF Init
<1>2. dispatched \in 0 .. Len(plan)
  BY <1>1 DEF Init
<1>3. TypeOK
  BY <1>1, <1>2, Zenon DEF Init, TypeOK, RiskLevels
<1> QED BY <1>3 DEF Init, IInv, RiskFits, DecisionFits, VerdictFits

LEMMA PlansAreSequences ==
    ASSUME NEW S, NEW max \in Nat, NEW p \in Plans(S, max)
    PROVE  p \in Seq(S) /\ DOMAIN p = 1 .. Len(p) /\ Len(p) \in Nat
<1>1. PICK n \in 0 .. max : p \in [1 .. n -> S]
  BY DEF Plans
<1> QED BY <1>1

\* The verdicts of the sandbox keep the invariant.
LEMMA JudgedKeeps ==
    ASSUME IInv, stage = "verifying",
           NEW j \in {"skipped", "nothing", "fail_open", "rules", "llm"},
           NEW v \in {"skipped", "safe", "needs_modification", "blocked", "other"},
           NEW alternatives \in Seq(Names), NEW areOrdered \in BOOLEAN,
           Judged(j, v, alternatives, areOrdered),
           current' \in Currents \cup {NoAlerts},
           j = "rules" => v = RuleVerdict(plan, current') /\ alternatives = << >>
    PROVE  IInv'
<1>1. /\ judge' = j /\ verdict' = v
      /\ stage' = IF v = "blocked" THEN "finished" ELSE "executing"
      /\ UNCHANGED <<risk, decision, dispatched>>
      /\ dispatched = 0 /\ ~replaced
  BY DEF Judged, IInv, VerdictFits
<1>2. \/ v = "needs_modification" /\ alternatives # << >> /\ plan' = alternatives
           /\ replaced' = TRUE /\ ordered' = areOrdered
      \/ UNCHANGED <<plan, replaced, ordered>>
  BY DEF Judged
<1>3. TypeOK'
  <2> USE DEF IInv, TypeOK
  <2>1. plan' \in Seq(Names) /\ Len(plan') \in Nat
    BY <1>2
  <2>2. replaced' \in BOOLEAN /\ ordered' \in BOOLEAN
    BY <1>2, Zenon
  <2>3. dispatched' \in 0 .. Len(plan')
    BY <1>1, <2>1
  <2>4. stage' \in {"arbitrating", "waiting", "verifying", "executing", "finished", "failed"}
    BY <1>1, Zenon
  <2>5. judge' \in {"none", "skipped", "nothing", "fail_open", "rules", "llm"}
        /\ verdict' \in {"none", "skipped", "safe", "needs_modification", "blocked", "other"}
    BY <1>1
  <2>6. risk' \in RiskLevels /\ decision' \in {"none", "approved", "rejected"}
    BY <1>1, Zenon
  <2> QED BY <2>1, <2>2, <2>3, <2>4, <2>5, <2>6, Zenon
<1>4. RiskFits'
  BY <1>1, <1>2 DEF IInv, RiskFits, Risky
<1>5. DecisionFits'
  BY <1>1 DEF IInv, DecisionFits, RequiresApproval
<1>6. VerdictFits'
  <2>1. j = "rules" => v = RuleVerdict(plan, current)' /\ ~replaced'
    <3>1. j = "rules" => UNCHANGED <<plan, replaced, ordered>>
      BY <1>2
    <3>2. UNCHANGED plan => RuleVerdict(plan, current)' = RuleVerdict(plan, current')
      BY DEF RuleVerdict, Risks, SimulatedMetrics, CrossRisks, Degrading, Simulate, PreValue
    <3> QED BY <1>1, <3>1, <3>2
  <2> QED BY <1>1, <2>1 DEF VerdictFits
<1> QED BY <1>3, <1>4, <1>5, <1>6 DEF IInv

LEMMA StepInvariant == IInv /\ [Next]_vars => IInv'
<1> SUFFICES ASSUME IInv, [Next]_vars PROVE IInv'
  OBVIOUS
<1>1. CASE Synthesize
  <2>1. PICK suggested \in Plans(Names \cup {NoName}, MaxActions),
             severity \in Severities, llmRisk \in RiskLevels :
           /\ plan' = [i \in DOMAIN suggested |-> Planned(suggested[i])]
           /\ risk' = RiskOfPlan(severity, llmRisk, {suggested[i] : i \in DOMAIN suggested})
    BY <1>1 DEF Synthesize
  <2>2. /\ stage = "arbitrating"
        /\ stage' = IF RequiresApproval(risk') THEN "waiting" ELSE "verifying"
        /\ UNCHANGED <<decision, judge, verdict, current, replaced, ordered, dispatched>>
    BY <1>1 DEF Synthesize
  <2>3. suggested \in Seq(Names \cup {NoName}) /\ DOMAIN suggested = 1 .. Len(suggested)
        /\ Len(suggested) \in Nat
    BY CurrentsAssumption, PlansAreSequences
  <2>4. \A i \in DOMAIN suggested : Planned(suggested[i]) \in Names
    BY <2>3, NamesAssumption DEF Planned
  <2>5. plan' \in Seq(Names) /\ DOMAIN plan' = DOMAIN suggested
    BY <2>1, <2>3, <2>4
  <2>6. Risky(plan)' => risk' = "high"
    <3> SUFFICES ASSUME NEW i \in DOMAIN plan', plan'[i] \in HighRiskActions
                 PROVE  risk' = "high"
      BY DEF Risky
    <3>1. suggested[i] \in HighRiskActions
      <4>1. plan'[i] = Planned(suggested[i]) /\ i \in DOMAIN suggested
        BY <2>1, <2>5
      <4> QED BY <4>1 DEF Planned, HighRiskActions
    <3> QED BY <2>1, <2>5, <3>1, RiskyIsHigh
  <2>7. TypeOK'
    BY <2>1, <2>2, <2>5, RiskType DEF IInv, TypeOK, VerdictFits
  <2>8. RiskFits'
    BY <2>6 DEF RiskFits
  <2>9. DecisionFits' /\ VerdictFits'
    BY <2>2 DEF IInv, DecisionFits, VerdictFits, TypeOK
  <2> QED BY <2>7, <2>8, <2>9 DEF IInv
<1>2. CASE Decide
  <2>1. TypeOK'
    BY <1>2 DEF IInv, TypeOK, Decide
  <2> QED BY <1>2, <2>1 DEF IInv, RiskFits, DecisionFits, VerdictFits, Decide, Risky, TypeOK
<1> DEFINE none == << >>
<1>e. none \in Seq(Names) /\ TRUE \in BOOLEAN
  OBVIOUS
<1>c. current \in Currents \cup {NoAlerts}
  BY DEF IInv, TypeOK
<1>3. CASE SkipRejected
  BY <1>3, <1>e, <1>c, JudgedKeeps DEF SkipRejected
<1>4. CASE NothingToVerify
  BY <1>4, <1>e, <1>c, JudgedKeeps DEF NothingToVerify, Unrejected
<1>5. CASE FailOpen
  BY <1>5, <1>e, <1>c, JudgedKeeps DEF FailOpen, Unrejected
<1>6. CASE VerifyByRules
  <2>1. RuleVerdict(plan, current') \in {"safe", "needs_modification", "blocked"}
    BY DEF RuleVerdict
  <2> QED BY <1>6, <1>e, <2>1, JudgedKeeps DEF VerifyByRules, Unrejected
<1>7. CASE VerifyByModel
  <2>1. PICK v \in {"safe", "needs_modification", "blocked", "other"},
             alternatives \in Plans(Names, MaxAlternatives), areOrdered \in BOOLEAN :
           Judged("llm", v, alternatives, areOrdered)
    BY <1>7 DEF VerifyByModel
  <2>2. alternatives \in Seq(Names)
    BY CurrentsAssumption, PlansAreSequences
  <2>3. stage = "verifying" /\ current' \in Currents \cup {NoAlerts}
    BY <1>7, <1>c DEF VerifyByModel, Unrejected
  <2> QED BY <2>1, <2>2, <2>3, JudgedKeeps
<1>8. CASE ExecutionRaises
  BY <1>8 DEF IInv, TypeOK, RiskFits, Risky, DecisionFits, VerdictFits, ExecutionRaises
<1>9. CASE Dispatch
  BY <1>9 DEF IInv, TypeOK, RiskFits, Risky, DecisionFits, VerdictFits, Dispatch
<1>10. CASE ExecutionEnds
  BY <1>10 DEF IInv, TypeOK, RiskFits, Risky, DecisionFits, VerdictFits, ExecutionEnds
<1>11. CASE UNCHANGED vars
  BY <1>11 DEF IInv, TypeOK, RiskFits, Risky, DecisionFits, VerdictFits, vars
<1> QED BY <1>1, <1>2, <1>3, <1>4, <1>5, <1>6, <1>7, <1>8, <1>9, <1>10, <1>11 DEF Next

LEMMA Invariance == Spec => []IInv
<1> QED BY InitInvariant, StepInvariant, PTL DEF Spec

----------------------------------------------------------------------------
(* Theorems *)

LEMMA SentIsPlanned ==
    ASSUME TypeOK, NEW n \in Sent
    PROVE  /\ n \in Names
           /\ dispatched > 0
           /\ n \in HighRiskActions => Risky(plan)
  BY DEF TypeOK, Sent, Risky

\* Every variable keeps its type.
THEOREM TypeCorrect == Spec => []TypeOK
<1>1. IInv => TypeOK
  BY DEF IInv
<1> QED BY <1>1, Invariance, PTL

\* For any names and aliases, a plan the sandbox left alone reaches a handler
\* of high risk without a decision only as an aliased mysql_failover.
THEOREM OnlyFailoverUndecided == Spec => []UndecidedHighRiskIsAliasedFailover
<1>1. IInv => UndecidedHighRiskIsAliasedFailover
  <2> SUFFICES ASSUME IInv, NEW n \in Sent, ~replaced, decision = "none", HighRisk(Handler(n))
               PROVE  Handler(n) = "mysql_failover" /\ n \notin DOMAIN HANDLERS
    BY DEF UndecidedHighRiskIsAliasedFailover
  <2>1. n \in Names /\ dispatched > 0 /\ (n \in HighRiskActions => Risky(plan))
    BY SentIsPlanned DEF IInv
  <2>2. stage \notin {"arbitrating", "waiting"}
    BY <2>1 DEF IInv, VerdictFits, TypeOK
  <2>3. n \notin HighRiskActions
    BY <2>1, <2>2 DEF IInv, RiskFits, DecisionFits, RequiresApproval
  <2>4. n \notin DOMAIN HANDLERS
    BY <2>3, HighNames DEF Handler
  <2> QED BY <2>1, <2>4, AliasedHandler
<1> QED BY <1>1, Invariance, PTL

\* For any alerted values, what is sent on the word of the rules is not named
\* like a handler of high risk.
THEOREM RulesStop == Spec => []RulesStopHighRisk
<1>1. IInv => RulesStopHighRisk
  <2> SUFFICES ASSUME IInv, judge = "rules", NEW n \in Sent, HighRisk(n)
               PROVE  FALSE
    BY DEF RulesStopHighRisk
  <2>1. dispatched > 0 /\ Risky(plan)
    BY SentIsPlanned, HighNames DEF IInv
  <2>2. verdict = "blocked"
    BY <2>1, RiskyIsBlocked DEF IInv, VerdictFits
  <2> QED BY <2>1, <2>2 DEF IInv, VerdictFits
<1> QED BY <1>1, Invariance, PTL

\* For any plan and any alerted values, the rules judge the plan no better
\* than they would judge any of its actions.
THEOREM EveryActionJudged == Spec => []RulesJudgeEveryAction
<1>1. IInv => RulesJudgeEveryAction
  BY VerdictOfOne DEF IInv, TypeOK, VerdictFits, RulesJudgeEveryAction
<1> QED BY <1>1, Invariance, PTL
====

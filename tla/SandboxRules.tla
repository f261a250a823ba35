---- MODULE SandboxRules ----
(***************************************************************************)
(* The sandbox without its language model: the simulation of a plan's      *)
(* effects and the rules that judge it (sandbox-service/app/simulator.py   *)
(* and _rule_based_verdict in main.py).                                    *)
(*                                                                         *)
(* Only the metrics with a danger threshold are kept: the simulation of    *)
(* another metric reaches a verdict through a degrading trend alone, and   *)
(* no effect of theirs degrades.  The wildcard effect of emergency_stop is *)
(* skipped by the simulation.  The error rate is in tenths of a percent,   *)
(* simulated values are times 100; the rounding to two digits is left out. *)
(***************************************************************************)
EXTENDS Integers, FiniteSets, Sequences

Metrics == {"error_rate", "p99_latency_ms", "cpu_usage"}

DefaultForMetric == [error_rate |-> 5, p99_latency_ms |-> 80, cpu_usage |-> 30]

Effect(metric, direction, pct) ==
    [metric_name |-> metric, direction |-> direction, magnitude_pct |-> pct]

Scaling == {Effect("p99_latency_ms", "improving", -50), Effect("cpu_usage", "degrading", 15)}

ACTION_EFFECTS ==
    [rollback_deployment |-> {Effect("p99_latency_ms", "improving", -85),
                              Effect("error_rate", "improving", -90),
                              Effect("cpu_usage", "improving", -60)},
     rollback |-> {Effect("p99_latency_ms", "improving", -85),
                   Effect("error_rate", "improving", -90)},
     restart_pod |-> {Effect("p99_latency_ms", "spike_then_recover", 40),
                      Effect("error_rate", "spike_then_recover", 20),
                      Effect("cpu_usage", "improving", -40)},
     restart |-> {Effect("cpu_usage", "improving", -40)},
     scale |-> Scaling,
     scale_deployment |-> Scaling,
     redis_config_set |-> {Effect("p99_latency_ms", "improving", -70),
                           Effect("cpu_usage", "improving", -30)},
     mysql_failover |-> {Effect("error_rate", "spike_then_recover", 300),
                         Effect("p99_latency_ms", "spike_then_recover", 100)},
     kill_query |-> {Effect("p99_latency_ms", "improving", -60),
                     Effect("cpu_usage", "improving", -30)},
     plc_parameter_rollback |-> {},
     cnc_parameter_adjust |-> {},
     emergency_stop |-> {},
     network_traffic_shift |-> {Effect("p99_latency_ms", "improving", -80),
                                Effect("error_rate", "improving", -85)},
     dns_failover |-> {Effect("p99_latency_ms", "improving", -60),
                       Effect("error_rate", "improving", -70)},
     scale_down |-> {Effect("cpu_usage", "improving", -30)}]

CROSS_ACTION_RISKS ==
    [restart_pod |-> "low", scale_deployment |-> "medium", mysql_failover |-> "high",
     plc_parameter_rollback |-> "high", emergency_stop |-> "critical",
     cnc_parameter_adjust |-> "high"]

\* current[m] is the value an alert reported for metric m, 0 for no alert.
PreValue(current, m) == IF current[m] # 0 THEN current[m] ELSE DefaultForMetric[m]

PostValue(pre, e) ==
    CASE e.direction = "improving" -> pre * (100 + e.magnitude_pct)
      [] e.direction \in {"degrading", "spike_then_recover"} -> pre * (100 + e.magnitude_pct)
      [] OTHER -> pre * 100

Point(step, m, value, direction) ==
    [step |-> step, metric_name |-> m, post |-> value, trend |-> direction]

\* simulate_actions, for the step-th action.  An action without an entry keeps
\* the alerted metrics as they are.
Simulate(step, name, current) ==
    IF name \in DOMAIN ACTION_EFFECTS
    THEN {Point(step, e.metric_name, PostValue(PreValue(current, e.metric_name), e), e.direction) :
              e \in ACTION_EFFECTS[name]}
    ELSE {Point(step, m, 100 * current[m], "neutral") : m \in {x \in Metrics : current[x] # 0}}

SimulatedMetrics(plan, current) ==
    UNION {Simulate(i, plan[i], current) : i \in DOMAIN plan}

\* evaluate_safety: the severities of the risks found.
ThresholdRisks(points) ==
    {r \in {"high", "medium"} : \E p \in points :
        \/ r = "high" /\ p.metric_name = "error_rate" /\ p.post > 100 * 100
        \/ r = "medium" /\ p.metric_name = "p99_latency_ms" /\ p.post > 100 * 2000
        \/ r = "medium" /\ p.metric_name = "cpu_usage" /\ p.post > 100 * 95}

CrossRisks(plan) ==
    {CROSS_ACTION_RISKS[plan[i]] : i \in {j \in DOMAIN plan : plan[j] \in DOMAIN CROSS_ACTION_RISKS}}

Risks(plan, current) ==
    ThresholdRisks(SimulatedMetrics(plan, current)) \cup CrossRisks(plan)

Degrading(plan, current) ==
    {p \in SimulatedMetrics(plan, current) : p.trend = "degrading"}

\* Mutant: "critical" is not among the severities that block.
RuleVerdictCriticalForgotten(plan, current) ==
    IF "high" \in Risks(plan, current) THEN "blocked"
    ELSE IF "medium" \in Risks(plan, current) \/ Cardinality(Degrading(plan, current)) > 2
         THEN "needs_modification"
    ELSE "safe"

\* Mutant: the verdict looks at the first risks only.
RuleVerdictOfFirst(plan, current) ==
    LET first == SubSeq(plan, 1, 1)
    IN  IF Risks(first, current) \cap {"high", "critical"} # {} THEN "blocked"
        ELSE IF "medium" \in Risks(plan, current) \/ Cardinality(Degrading(plan, current)) > 2
             THEN "needs_modification"
        ELSE "safe"

\* _rule_based_verdict
RuleVerdict(plan, current) ==
    IF Risks(plan, current) \cap {"high", "critical"} # {} THEN "blocked"
    ELSE IF "medium" \in Risks(plan, current) \/ Cardinality(Degrading(plan, current)) > 2
         THEN "needs_modification"
    ELSE "safe"
====

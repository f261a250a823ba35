---- MODULE RiskPolicy ----
(***************************************************************************)
(* The risk level of a plan: the rules in _synthesize and min_risk of      *)
(* agent-supervisor/app/arbitrator.py.                                     *)
(***************************************************************************)
EXTENDS Integers

CONSTANT Words  \* name -> which of "rollback", "restart", "scale" it holds

\* "other" stands for the texts the code does not know.
Severities == {"minor", "warning", "major", "critical", "other"}
RiskLevels == {"low", "medium", "high", "other"}

LowRiskActions ==
    {"rollback_deployment", "restart_pod", "scale_deployment", "redis_config_set",
     "rollback", "restart", "scale", "config_set"}
HighRiskActions ==
    {"mysql_failover", "plc_parameter_rollback", "emergency_stop", "cnc_parameter_adjust"}

SeverityRisk(severity, llmRisk) ==
    CASE severity \in {"minor", "warning"} -> "low"
      [] severity = "major" -> "medium"
      [] severity = "critical" -> "high"
      [] OTHER -> llmRisk

RiskOrder(r) == CASE r = "low" -> 0 [] r = "high" -> 2 [] OTHER -> 1

min_risk(a, b) == IF RiskOrder(a) <= RiskOrder(b) THEN a ELSE b

\* The names among the suggested actions decide; a name without an entry in
\* Words is the empty one.
Operational(types) ==
    \/ types \subseteq LowRiskActions
    \/ \E a \in types \cap DOMAIN Words : Words[a] # {}

\* Mutant: the high-risk names are looked at last.
RiskOfPlanOperationalFirst(severity, llmRisk, types) ==
    IF types # {} /\ Operational(types)
    THEN min_risk(SeverityRisk(severity, llmRisk), "low")
    ELSE IF types \cap HighRiskActions # {} THEN "high"
    ELSE SeverityRisk(severity, llmRisk)

RiskOfPlan(severity, llmRisk, types) ==
    IF types \cap HighRiskActions # {} THEN "high"
    ELSE IF types # {} /\ Operational(types)
         THEN min_risk(SeverityRisk(severity, llmRisk), "low")
    ELSE SeverityRisk(severity, llmRisk)

RequiresApproval(risk) == risk \in {"medium", "high"}
====

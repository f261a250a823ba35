---- MODULE PlanReview ----
(***************************************************************************)
(* The way of one self-healing plan: its risk level (RiskPolicy), the      *)
(* decision about it, the sandbox's verdict with its fallbacks             *)
(* (SandboxRules and sandbox_client.py) and the handlers its actions reach *)
(* (ActionExecutor).  DiagnosisPipeline has the runs, checkpoints and      *)
(* callbacks around it and leaves out what this module is about: the       *)
(* actions themselves and the tables that judge them.                      *)
(***************************************************************************)
EXTENDS ActionExecutor, RiskPolicy, SandboxRules

CONSTANTS NoName,        \* an action the model wrote without a name
          Currents,      \* alerted values of the metrics
          MaxActions,    \* bounds the length of a plan
          MaxAlternatives \* bounds the length of the sandbox's alternatives

ASSUME NamesAssumption ==
    /\ "manual_check" \in Names
    /\ NoName \notin Names \cup LowRiskActions \cup HighRiskActions
    /\ DOMAIN Words = Names

ASSUME CurrentsAssumption ==
    /\ Currents \subseteq [Metrics -> Nat]
    /\ MaxActions \in Nat /\ MaxAlternatives \in Nat

VARIABLES
    stage,       \* where the plan stands
    plan,        \* the names of its actions
    risk,        \* its risk_level
    decision,    \* the human decision, if one was asked for
    judge,       \* who made the verdict
    verdict,     \* sandbox_verdict.verdict
    current,     \* the alerted values the rules judged by
    replaced,    \* the sandbox's alternatives took the place of the actions
    ordered,     \* every action has the "order" SelfHealingAction requires
    dispatched   \* how many actions the executor was sent

vars == <<stage, plan, risk, decision, judge, verdict, current, replaced, ordered, dispatched>>

----------------------------------------------------------------------------
Plans(S, max) == UNION {[1 .. n -> S] : n \in 0 .. max}
NoAlerts == [m \in Metrics |-> 0]

TypeOK ==
    /\ stage \in {"arbitrating", "waiting", "verifying", "executing", "finished", "failed"}
    /\ plan \in Seq(Names)
    /\ risk \in RiskLevels
    /\ decision \in {"none", "approved", "rejected"}
    /\ judge \in {"none", "skipped", "nothing", "fail_open", "rules", "llm"}
    /\ verdict \in {"none", "skipped", "safe", "needs_modification", "blocked", "other"}
    /\ current \in Currents \cup {NoAlerts}
    /\ replaced \in BOOLEAN /\ ordered \in BOOLEAN
    /\ dispatched \in 0 .. Len(plan)

Init ==
    /\ stage = "arbitrating"
    /\ plan = << >>
    /\ risk = "low"
    /\ decision = "none"
    /\ judge = "none" /\ verdict = "none"
    /\ current = NoAlerts
    /\ replaced = FALSE /\ ordered = TRUE
    /\ dispatched = 0

----------------------------------------------------------------------------
(* Arbitration *)

\* Mutant: the missing name stays in the plan.
PlannedAsWritten(n) == n

\* An action without a name is planned as "manual_check"; the rules for the
\* risk see the empty name.
Planned(n) == IF n = NoName THEN "manual_check" ELSE n

Synthesize ==
    /\ stage = "arbitrating"
    /\ \E suggested \in Plans(Names \cup {NoName}, MaxActions), severity \in Severities, llmRisk \in RiskLevels :
          LET types == {suggested[i] : i \in DOMAIN suggested}
          IN  /\ plan' = [i \in DOMAIN suggested |-> Planned(suggested[i])]
              /\ risk' = RiskOfPlan(severity, llmRisk, types)
    /\ stage' = IF RequiresApproval(risk') THEN "waiting" ELSE "verifying"
    /\ UNCHANGED <<decision, judge, verdict, current, replaced, ordered, dispatched>>

Decide ==
    /\ stage = "waiting"
    /\ decision' \in {"approved", "rejected"}
    /\ stage' = "verifying"
    /\ UNCHANGED <<plan, risk, judge, verdict, current, replaced, ordered, dispatched>>

----------------------------------------------------------------------------
(* Sandbox *)

\* What node_sandbox_verify and its router make of a verdict v about the plan.
Judged(j, v, alternatives, areOrdered) ==
    /\ judge' = j
    /\ verdict' = v
    /\ stage' = IF v = "blocked" THEN "finished" ELSE "executing"
    /\ IF v = "needs_modification" /\ alternatives # << >>
       THEN /\ plan' = alternatives
            /\ replaced' = TRUE
            /\ ordered' = areOrdered
       ELSE UNCHANGED <<plan, replaced, ordered>>
    /\ UNCHANGED <<risk, decision, dispatched>>

\* A rejected plan skips the sandbox and is routed to execution all the same.
SkipRejected ==
    /\ stage = "verifying" /\ decision = "rejected"
    /\ Judged("skipped", "skipped", << >>, TRUE)
    /\ UNCHANGED current

Unrejected == stage = "verifying" /\ decision # "rejected"

\* Without actions the client does not call the sandbox.
NothingToVerify ==
    /\ Unrejected /\ plan = << >>
    /\ Judged("nothing", "safe", << >>, TRUE)
    /\ UNCHANGED current

\* A timeout, an unreachable or a failing sandbox counts as "safe".
FailOpen ==
    /\ Unrejected /\ plan # << >>
    /\ Judged("fail_open", "safe", << >>, TRUE)
    /\ UNCHANGED current

\* No API key, or the language model fails: the rules alone, which never offer
\* an alternative.
VerifyByRules ==
    /\ Unrejected /\ plan # << >>
    /\ current' \in Currents
    /\ Judged("rules", RuleVerdict(plan, current'), << >>, TRUE)

\* The language model's verdict stands whatever the rules found; it may be a
\* text the graph does not know, and "safe" if it is missing.
VerifyByModel ==
    /\ Unrejected /\ plan # << >>
    /\ \E v \in {"safe", "needs_modification", "blocked", "other"},
          alternatives \in Plans(Names, MaxAlternatives), areOrdered \in BOOLEAN :
          Judged("llm", v, alternatives, areOrdered)
    /\ UNCHANGED current

----------------------------------------------------------------------------
(* Execution *)

\* SelfHealingPlan(**plan_dict) raises for an action without "order".
ExecutionRaises ==
    /\ stage = "executing" /\ ~ordered
    /\ stage' = "failed"
    /\ UNCHANGED <<plan, risk, decision, judge, verdict, current, replaced, ordered, dispatched>>

Dispatch ==
    /\ stage = "executing" /\ ordered /\ dispatched < Len(plan)
    /\ dispatched' = dispatched + 1
    /\ UNCHANGED <<stage, plan, risk, decision, judge, verdict, current, replaced, ordered>>

ExecutionEnds ==
    /\ stage = "executing" /\ ordered /\ dispatched = Len(plan)
    /\ stage' = "finished"
    /\ UNCHANGED <<plan, risk, decision, judge, verdict, current, replaced, ordered, dispatched>>

Next ==
    \/ Synthesize
    \/ Decide
    \/ SkipRejected
    \/ NothingToVerify
    \/ FailOpen
    \/ VerifyByRules
    \/ VerifyByModel
    \/ ExecutionRaises
    \/ Dispatch
    \/ ExecutionEnds

Spec == Init /\ [][Next]_vars

----------------------------------------------------------------------------
(* Properties *)

\* The names of the actions that were sent to the executor.
Sent == {plan[i] : i \in 1 .. dispatched}

\* executor.py:35-38 keeps the industrial actions to humans.  In a plan the
\* sandbox left alone, the one handler of high risk that can be reached
\* without a decision is mysql_failover, and only through the alias
\* "failover": the risk rules know handlers by their full names, the executor
\* also by aliases, and the order of the aliases keeps the PLC out.
UndecidedHighRiskIsAliasedFailover ==
    \A n \in Sent :
        ~replaced /\ decision = "none" /\ HighRisk(Handler(n)) =>
            Handler(n) = "mysql_failover" /\ n \notin DOMAIN HANDLERS

\* A plan judged by the rules alone sends no action that is named like a
\* handler of high risk: the sandbox's table of risks knows every handler the
\* executor's table marks so.
RulesStopHighRisk ==
    judge = "rules" => \A n \in Sent : ~HighRisk(n)

\* A plan is judged no better than any of its actions would be: no action
\* makes up for another.
Strength(v) == CASE v = "safe" -> 0 [] v = "needs_modification" -> 1 [] OTHER -> 2

RulesJudgeEveryAction ==
    judge = "rules" =>
        \A i \in DOMAIN plan : Strength(verdict) >= Strength(RuleVerdict(<<plan[i]>>, current))
====

---- MODULE SelfHealer ----
(***************************************************************************)
(* One call of execute_and_watch (agent-supervisor/app/self_healer.py):    *)
(* the actions of a plan are posted to the action executor, the metrics of *)
(* the rollback playbook are watched for a window, and a metric that       *)
(* violates its threshold often enough in a row triggers the rollback.     *)
(*                                                                         *)
(* Each await is a step: the post of an action, the sleep before a check,  *)
(* the fetch of a metric together with the evaluation that follows it, and *)
(* the rollback.  The playbook is a parameter; DefaultPlaybook holds the   *)
(* one the arbitrator generates.  The handler of a failed post at lines    *)
(* 77-79 is left out: _execute_action catches every exception itself.      *)
(***************************************************************************)
EXTENDS Integers, Sequences

CONSTANTS Risks,            \* risk levels of a plan
          WatchWindow,      \* risk level -> watch_window_seconds
          CheckInterval,    \* check_interval_seconds
          TriggerMetrics,   \* the playbook's trigger_metrics
          RollbackCommands, \* the playbook's rollback_commands
          Values,           \* the values the tool endpoints report
          MaxActions        \* bounds the length of a plan

Metrics == DOMAIN TriggerMetrics

ASSUME WindowAssumption ==
    /\ CheckInterval \in Nat \ {0}
    /\ WatchWindow \in [Risks -> Nat]

\* The counters are kept by name: "name" is the part of a definition that
\* tells metrics apart, "about" what _safe_fallback_value finds in the name.
ASSUME TriggerMetricsAssumption ==
    /\ TriggerMetrics \in Seq([name : STRING,
                               about : {"error", "latency", "cpu", "mem", "other"},
                               threshold_type : STRING, threshold_value : Int,
                               consecutive_violations : Nat \ {0}])
    /\ \A m, n \in Metrics : TriggerMetrics[m].name = TriggerMetrics[n].name => m = n

ASSUME DataAssumption ==
    /\ Values \subseteq Int
    /\ RollbackCommands \in Seq(STRING)
    /\ MaxActions \in Nat

VARIABLES
    pc,         \* where the coroutine stands
    risk,       \* the plan's risk level, which chose the window
    planned,    \* the number of actions in the plan
    statuses,   \* what _execute_action returned for the actions posted so far
    elapsed,    \* the loop variable: seconds before the current check
    cursor,     \* the trigger metric the current check is at
    counters,   \* violation_counters
    violations, \* metric -> which of its readings violated the threshold
    issued,     \* the rollback commands posted
    result      \* the result returned

vars == <<pc, risk, planned, statuses, elapsed, cursor, counters, violations,
          issued, result>>

----------------------------------------------------------------------------
Needed(m) == TriggerMetrics[m].consecutive_violations

TypeOK ==
    /\ pc \in {"acting", "sleeping", "checking", "rolling_back", "returned"}
    /\ risk \in Risks
    /\ planned \in 0 .. MaxActions
    /\ statuses \in Seq({"done", "failed"}) /\ Len(statuses) <= planned
    /\ elapsed \in Nat
    /\ cursor \in 1 .. Len(TriggerMetrics) + 1
    /\ counters \in [Metrics -> Nat]
    /\ \A m \in Metrics : counters[m] <= Needed(m)
    /\ violations \in [Metrics -> Seq(BOOLEAN)]
    /\ issued \in Seq(STRING)
    /\ result \in {"none", "success", "rollback_triggered"}

Init ==
    /\ pc = "acting"
    /\ risk \in Risks
    /\ planned \in 0 .. MaxActions
    /\ statuses = << >>
    /\ elapsed = 0
    /\ cursor = 1
    /\ counters = [m \in Metrics |-> 0]
    /\ violations = [m \in Metrics |-> << >>]
    /\ issued = << >>
    /\ result = "none"

----------------------------------------------------------------------------
(* Metrics *)

\* _safe_fallback_value, by what the metric's name contains.
SafeFallbackValue ==
    [error |-> 0, latency |-> 50, cpu |-> 30, mem |-> 45, other |-> 1]

\* _fetch_metric with _extract_metric_value: a value of the endpoint, 0 for a
\* text that is no number, or the fallback when the call fails or the answer
\* does not hold the metric.
FetchMetric(d) == Values \cup {0, SafeFallbackValue[d.about]}

\* _evaluate_threshold.  The baseline of a relative threshold is taken to be 1.
EvaluateThreshold(d, value) ==
    \/ d.threshold_type = "absolute_value" /\ value > d.threshold_value
    \/ d.threshold_type = "relative_pct_increase" /\ 100 * value > 100 + d.threshold_value

----------------------------------------------------------------------------
(* execute_and_watch *)

\* _execute_action.  A failed post does not tell whether the executor acted on
\* it; the loop goes on after either status.
ExecuteAction ==
    /\ pc = "acting" /\ Len(statuses) < planned
    /\ \E s \in {"done", "failed"} : statuses' = Append(statuses, s)
    /\ UNCHANGED <<pc, risk, planned, elapsed, cursor, counters, violations,
                   issued, result>>

\* Mutant: the observation waits for every action to have succeeded.
EnterWhenAllDone ==
    /\ pc = "acting" /\ Len(statuses) = planned
    /\ \A i \in DOMAIN statuses : statuses[i] = "done"
    /\ pc' = "sleeping"
    /\ UNCHANGED <<risk, planned, statuses, elapsed, cursor, counters, violations,
                   issued, result>>

EnterObservation ==
    /\ pc = "acting" /\ Len(statuses) = planned
    /\ pc' = "sleeping"
    /\ UNCHANGED <<risk, planned, statuses, elapsed, cursor, counters, violations,
                   issued, result>>

\* Mutant: the last check of the window is left out.
MoreChecksButLast(e) == e + CheckInterval < WatchWindow[risk]

\* range(0, watch_seconds, interval)
MoreChecks(e) == e < WatchWindow[risk]

Sleep ==
    /\ pc = "sleeping" /\ MoreChecks(elapsed)
    /\ pc' = "checking"
    /\ cursor' = 1
    /\ UNCHANGED <<risk, planned, statuses, elapsed, counters, violations,
                   issued, result>>

\* Mutant: the reset of line 152 is missing.
CountedForever(m, is_violation) == IF is_violation THEN counters[m] + 1 ELSE counters[m]

\* The violation counter of a metric after a reading.
Counted(m, is_violation) == IF is_violation THEN counters[m] + 1 ELSE 0

\* Mutant: > instead of >= at line 147.
RollbackDueLate(m, is_violation) ==
    is_violation /\ Counted(m, is_violation) > Needed(m)

RollbackDue(m, is_violation) ==
    is_violation /\ Counted(m, is_violation) >= Needed(m)

CheckMetric ==
    /\ pc = "checking" /\ cursor \in Metrics
    /\ \E value \in FetchMetric(TriggerMetrics[cursor]) :
          LET is_violation == EvaluateThreshold(TriggerMetrics[cursor], value)
              due == RollbackDue(cursor, is_violation)
          IN  /\ counters' = [counters EXCEPT ![cursor] = Counted(cursor, is_violation)]
              /\ violations' = [violations EXCEPT ![cursor] = Append(@, is_violation)]
              /\ pc' = IF due THEN "rolling_back" ELSE pc
              /\ cursor' = IF due THEN cursor ELSE cursor + 1
    /\ UNCHANGED <<risk, planned, statuses, elapsed, issued, result>>

EndCheck ==
    /\ pc = "checking" /\ cursor \notin Metrics
    /\ pc' = "sleeping"
    /\ elapsed' = elapsed + CheckInterval
    /\ UNCHANGED <<risk, planned, statuses, cursor, counters, violations,
                   issued, result>>

\* _execute_rollback posts every command, whatever the answers; the result is
\* the same either way.
ExecuteRollback ==
    /\ pc = "rolling_back"
    /\ issued' = RollbackCommands
    /\ result' = "rollback_triggered"
    /\ pc' = "returned"
    /\ UNCHANGED <<risk, planned, statuses, elapsed, cursor, counters, violations>>

WindowPassed ==
    /\ pc = "sleeping" /\ ~MoreChecks(elapsed)
    /\ result' = "success"
    /\ pc' = "returned"
    /\ UNCHANGED <<risk, planned, statuses, elapsed, cursor, counters, violations,
                   issued>>

Next ==
    \/ ExecuteAction
    \/ EnterObservation
    \/ Sleep
    \/ CheckMetric
    \/ EndCheck
    \/ ExecuteRollback
    \/ WindowPassed

Spec == Init /\ [][Next]_vars

\* Every post and fetch has a timeout and a sleep ends, so the event loop goes
\* on with the coroutine as long as the process lives.
FairSpec == Spec /\ WF_vars(Next)

----------------------------------------------------------------------------
(* Properties *)

\* Metric m has, up to its k-th reading, as many violations in a row as its
\* definition asks for.
BreachAt(m, k) ==
    /\ k >= Needed(m)
    /\ \A i \in k - Needed(m) + 1 .. k : violations[m][i]

RollingBack == pc = "rolling_back" \/ result = "rollback_triggered"

\* A counter is the length of the run of violations a metric's readings end
\* with: what violation_counters += 1 and = 0 add up to over the window.
CountersAreStreaks ==
    \A m \in Metrics :
        LET n == Len(violations[m])
            c == counters[m]
        IN  /\ c <= n
            /\ \A i \in n - c + 1 .. n : violations[m][i]
            /\ c < n => ~violations[m][n - c]

\* The rollback is triggered by the first breach of the window and by nothing
\* else: it has none before, and none is passed over.
RollbackOnFirstBreach ==
    \A m \in Metrics : \A k \in DOMAIN violations[m] :
        BreachAt(m, k) <=> RollingBack /\ m = cursor /\ k = Len(violations[m])

\* "success" means that every metric was read at every check of a window at
\* least as long as the playbook says, and not longer than it takes.
WholeWindowWatched ==
    result = "success" =>
        \A m \in Metrics :
            LET n == Len(violations[m])
            IN  /\ n * CheckInterval >= WatchWindow[risk]
                /\ n > 0 => (n - 1) * CheckInterval < WatchWindow[risk]

\* execute_and_watch returns, whatever the executor and the tools answer.
Returns == <>(pc = "returned")
====

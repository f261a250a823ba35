---- MODULE DefaultPlaybook ----
(***************************************************************************)
(* The rollback playbook of every plan: _default_rollback_playbook of      *)
(* agent-supervisor/app/arbitrator.py with the defaults of its schema.     *)
(***************************************************************************)
EXTENDS Integers, Sequences

DefaultWatchWindow == [low |-> 60, medium |-> 90, high |-> 120]

\* The schema's default.
DefaultCheckInterval == 10

DefaultTriggerMetrics ==
    << [name |-> "p99_latency_ms", about |-> "latency",
        threshold_type |-> "relative_pct_increase", threshold_value |-> 200,
        consecutive_violations |-> 2],
       [name |-> "error_rate", about |-> "error",
        threshold_type |-> "absolute_value", threshold_value |-> 5,
        consecutive_violations |-> 1] >>

\* Not among the arguments: the schema's default, an empty list.
DefaultRollbackCommands == << >>
====

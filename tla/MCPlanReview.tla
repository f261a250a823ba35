---- MODULE MCPlanReview ----
(***************************************************************************)
(* TLC instance of PlanReview: action names that meet every rule of the    *)
(* risk policy, the sandbox and the executor.                              *)
(***************************************************************************)
EXTENDS PlanReview

\* name -> the aliases it contains.
SampleWords ==
    [restart_pod |-> {"restart"}, scale_deployment |-> {"scale"}, mysql_failover |-> {"failover"},
     plc_parameter_rollback |-> {"rollback"}, emergency_stop |-> {},
     plc_rollback |-> {"rollback", "plc_rollback"}, db_failover |-> {"failover"},
     manual_check |-> {}]

SampleNames == DOMAIN SampleWords

SampleRiskWords == [n \in SampleNames |-> SampleWords[n] \cap {"rollback", "restart", "scale"}]

\* Below and above what the rules allow after a restart or a scaling.
SampleCurrents ==
    {[error_rate |-> e, p99_latency_ms |-> p, cpu_usage |-> c] :
        e \in {0, 90}, p \in {0, 1500}, c \in {0, 90}}
====

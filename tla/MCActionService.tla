---- MODULE MCActionService ----
(***************************************************************************)
(* TLC instance of ActionService: plans that meet every handler with       *)
(* statements, a simulated one, an alias and a name nobody knows.          *)
(***************************************************************************)
EXTENDS ActionService, TLC

\* name -> the aliases it contains.
SampleWords ==
    [restart_pod |-> {"restart"}, redis_config_set |-> {"config_set"}, db_failover |-> {"failover"},
     mysql_kill_query |-> {"kill_query"}, emergency_stop |-> {}, manual_check |-> {}]

SampleNames == DOMAIN SampleWords

Act(name, target, parameters) == [name |-> name, target |-> target, parameters |-> parameters]

Arbitrated(name) == Act(name, "name", "none")

\* A plan of the arbitrator, a simulated action, and alternatives of the
\* sandbox's model, which may hold parameters.
SamplePlans ==
    {<<Arbitrated("redis_config_set"), Arbitrated("db_failover")>>,
     <<Arbitrated("emergency_stop")>>,
     <<Act("redis_config_set", "name", "key"), Arbitrated("restart_pod")>>,
     <<Act("db_failover", "name", "unknown_action"), Arbitrated("manual_check")>>,
     <<Act("mysql_kill_query", "number", "none"), Act("db_failover", "name", "set_readonly")>>}

RunSymmetry == Permutations(Runs)
====

---- MODULE ActionExecutor ----
(***************************************************************************)
(* Which handler an action name reaches: the handler table, the aliases    *)
(* and execute_action of action-executor/app/executor.py.                  *)
(***************************************************************************)
EXTENDS Integers, Sequences

CONSTANTS Names,       \* the action names a language model may write
          FoldedWords  \* name -> the aliases found in its lower-case form

\* The handlers with their risk levels.
HANDLERS ==
    [rollback_deployment |-> "low", scale_deployment |-> "low", scale_down |-> "low",
     restart_pod |-> "low", redis_config_set |-> "medium", mysql_kill_query |-> "medium",
     mysql_failover |-> "high", network_traffic_shift |-> "medium", dns_failover |-> "low",
     plc_parameter_rollback |-> "high", cnc_parameter_adjust |-> "high",
     emergency_stop |-> "high"]

\* alias_map, in the order in which it is searched.
alias_map ==
    << <<"rollback", "rollback_deployment">>, <<"restart", "restart_pod">>,
       <<"scale", "scale_deployment">>, <<"config_set", "redis_config_set">>,
       <<"kill_query", "mysql_kill_query">>, <<"failover", "mysql_failover">>,
       <<"plc_rollback", "plc_parameter_rollback">> >>

Aliases == {alias_map[i][1] : i \in DOMAIN alias_map}

\* What is true of substrings: a name that holds "plc_rollback" holds "rollback".
ASSUME FoldedWordsAssumption ==
    /\ FoldedWords \in [Names -> SUBSET Aliases]
    /\ \A n \in Names : "plc_rollback" \in FoldedWords[n] => "rollback" \in FoldedWords[n]

Hits(n) == {i \in DOMAIN alias_map : alias_map[i][1] \in FoldedWords[n]}

\* Mutant: the aliases are searched from the other end.
LastHit(n) == CHOOSE i \in Hits(n) : \A j \in Hits(n) : j <= i

FirstHit(n) == CHOOSE i \in Hits(n) : \A j \in Hits(n) : i <= j

\* The handler of an action, "none" for an action that is skipped.
Handler(n) ==
    IF n \in DOMAIN HANDLERS THEN n
    ELSE IF Hits(n) # {} THEN alias_map[FirstHit(n)][2]
    ELSE "none"

HighRisk(h) == h \in DOMAIN HANDLERS /\ HANDLERS[h] = "high"
====

---- MODULE ActionService ----
(***************************************************************************)
(* The plans on their way through the action executor: the loop that posts *)
(* a plan's actions (execute_and_watch of agent-supervisor/app/            *)
(* self_healer.py) and the service that handles the posts                  *)
(* (action-executor/app/main.py, executor.py and handlers/).               *)
(*                                                                         *)
(* A handler talks to kubectl, Redis or MySQL in statements; each is a     *)
(* step, may fail with or without its effect, and may never end.  The post *)
(* of a client that gave up, or whose process is gone, stays with the      *)
(* executor.  What the handlers of PLC, CNC, network and DNS actions do is *)
(* simulated by the code itself: they touch nothing.                       *)
(***************************************************************************)
EXTENDS ActionExecutor

CONSTANTS Runs,       \* calls of execute_and_watch
          Plans,      \* the plans they are called with: sequences of actions
          MaxActions, \* bounds the length of a plan
          Unset       \* the Redis setting nobody wrote yet, and no value read

\* "parameters" is what a handler finds in them, "target" whether it is a
\* number, as the id of a query has to be.
Actions ==
    [name : Names, target : {"name", "number"},
     parameters : {"none", "key", "set_readonly", "unknown_action"}]

Posts == [run : Runs, index : 1 .. MaxActions]

ASSUME PlansAssumption ==
    /\ MaxActions \in Nat
    /\ Plans \subseteq Seq(Actions)
    /\ \A plan \in Plans : Len(plan) <= MaxActions
    /\ Unset \notin Posts

VARIABLES
    dry,      \* DRY_RUN, from the environment
    plans,    \* run -> its plan
    at,       \* run -> where its coroutine stands
    statuses, \* run -> what _execute_action returned so far
    inbox,    \* the posts the executor has not started on
    handling, \* the handlers at work: [post, step, old]
    done,     \* post -> how many statements of its handler took effect
    config,   \* the Redis setting: the last post that wrote it
    server    \* the MySQL server the handlers talk to

clients == <<plans, at, statuses>>
systems == <<done, config, server>>
vars == <<dry, clients, inbox, handling, systems>>

----------------------------------------------------------------------------
(* Handlers *)

Action(p) == plans[p.run][p.index]
HandlerOf(p) == Handler(Action(p).name)

Kubectl == {"rollback_deployment", "scale_deployment", "scale_down", "restart_pod"}

\* Handlers that touch no system, as there is no PLC, CNC, mesh or resolver.
IndustrialActions == {"plc_parameter_rollback", "cnc_parameter_adjust", "emergency_stop"}
NetworkActions == {"network_traffic_shift", "dns_failover"}

\* Mutant: the server accepts writes before it is cut off from its source.
PromotionReversed == <<"READ_ONLY_OFF", "STOP_SLAVE", "RESET_SLAVE_ALL">>

Promotion == <<"STOP_SLAVE", "RESET_SLAVE_ALL", "READ_ONLY_OFF">>

\* The statements a handler sends to a real system, in order.
Statements(p) ==
    LET h == HandlerOf(p)
        a == Action(p)
    IN  IF dry THEN << >>
        ELSE CASE h \in Kubectl -> <<"kubectl">>
               [] h = "redis_config_set" /\ a.parameters = "key" ->
                     <<"CONFIG_GET", "CONFIG_SET", "CONFIG_GET">>
               [] h = "mysql_failover" /\ a.parameters \in {"none", "key"} -> Promotion
               [] h = "mysql_failover" /\ a.parameters = "set_readonly" -> <<"READ_ONLY_ON">>
               [] h = "mysql_kill_query" /\ a.target = "number" -> <<"KILL">>
               [] h \in IndustrialActions \cup NetworkActions -> << >>
               [] OTHER -> << >>

\* No key to set, no number of a query, or an action of mysql_failover that
\* its branches do not know, so that it returns None.
Refused(p) ==
    LET h == HandlerOf(p)
        a == Action(p)
    IN  \/ h = "redis_config_set" /\ a.parameters # "key"
        \/ h = "mysql_failover" /\ a.parameters = "unknown_action"
        \/ h = "mysql_kill_query" /\ a.target # "number"

\* execute_action, when no statement failed.
StatusOf(p) ==
    IF HandlerOf(p) = "none" THEN "skipped"
    ELSE IF ~dry /\ Refused(p) THEN "failed"
    ELSE "success"

NextStatement(h) == Statements(h.post)[h.step]

\* What a statement changes.
Effect(h) ==
    LET s == NextStatement(h)
    IN  /\ done' = [done EXCEPT ![h.post] = h.step]
        /\ config' = IF s = "CONFIG_SET" THEN h.post ELSE config
        /\ server' = [attached |-> server.attached /\ s # "RESET_SLAVE_ALL",
                      read_only |-> IF s = "READ_ONLY_OFF" THEN FALSE
                                    ELSE server.read_only \/ s = "READ_ONLY_ON"]

----------------------------------------------------------------------------
ServiceTypeOK ==
    /\ dry \in BOOLEAN
    /\ plans \in [Runs -> Plans \cup {<< >>}]
    /\ at \in [Runs -> {"idle", "acting", "waiting", "observing", "lost"}]
    /\ statuses \in [Runs -> Seq({"success", "failed", "skipped"})]
    /\ \A r \in Runs :
          /\ Len(statuses[r]) <= Len(plans[r])
          /\ at[r] = "waiting" => Len(statuses[r]) < Len(plans[r])
    /\ inbox \subseteq Posts
    /\ \A h \in handling :
          /\ h \in [post : Posts, step : 1 .. 4, old : Posts \cup {Unset}]
          /\ h.step <= Len(Statements(h.post)) + 1
    /\ done \in [Posts -> 0 .. 3]
    /\ config \in Posts \cup {Unset}
    /\ server \in [attached : BOOLEAN, read_only : BOOLEAN]

Init ==
    /\ dry \in BOOLEAN
    /\ plans = [r \in Runs |-> << >>]
    /\ at = [r \in Runs |-> "idle"]
    /\ statuses = [r \in Runs |-> << >>]
    /\ inbox = {}
    /\ handling = {}
    /\ done = [p \in Posts |-> 0]
    /\ config = Unset
    /\ \E replica \in BOOLEAN : server = [attached |-> replica, read_only |-> replica]

----------------------------------------------------------------------------
(* execute_and_watch *)

Begin(r) ==
    /\ at[r] = "idle"
    /\ at' = [at EXCEPT ![r] = "acting"]
    /\ \E plan \in Plans : plans' = [plans EXCEPT ![r] = plan]
    /\ UNCHANGED <<dry, statuses, inbox, handling, systems>>

\* The post of the action run r is at.
Current(r) == [run |-> r, index |-> Len(statuses[r]) + 1]

PostAction(r) ==
    /\ at[r] = "acting" /\ Len(statuses[r]) < Len(plans[r])
    /\ at' = [at EXCEPT ![r] = "waiting"]
    /\ inbox' = inbox \cup {Current(r)}
    /\ UNCHANGED <<dry, plans, statuses, handling, systems>>

Return(r, status) ==
    /\ statuses' = [statuses EXCEPT ![r] = Append(@, status)]
    /\ at' = [at EXCEPT ![r] = "acting"]
    /\ UNCHANGED plans

\* No answer within execution_timeout_seconds, or no connection.
PostFails(r) ==
    /\ at[r] = "waiting"
    /\ Return(r, "failed")
    /\ UNCHANGED <<dry, inbox, handling, systems>>

EnterObservation(r) ==
    /\ at[r] = "acting" /\ Len(statuses[r]) = Len(plans[r])
    /\ at' = [at EXCEPT ![r] = "observing"]
    /\ UNCHANGED <<dry, plans, statuses, inbox, handling, systems>>

\* The supervisor restarts: its runs are gone, what they posted is not.
SupervisorRestart ==
    /\ at' = [r \in Runs |-> IF at[r] = "idle" THEN "idle" ELSE "lost"]
    /\ UNCHANGED <<dry, plans, statuses, inbox, handling, systems>>

----------------------------------------------------------------------------
(* The executor *)

\* Mutant: a late answer counts for the action its run is at now.
AnswerRun(p, status) ==
    IF at[p.run] = "waiting" THEN Return(p.run, status) ELSE UNCHANGED clients

\* An answer reaches the client that still waits for it.
Answer(p, status) ==
    IF at[p.run] = "waiting" /\ Current(p.run) = p
    THEN Return(p.run, status)
    ELSE UNCHANGED clients

\* A post that never arrives, is rejected, or whose client is found gone.
Lose(p) ==
    /\ p \in inbox
    /\ inbox' = inbox \ {p}
    /\ UNCHANGED <<dry, clients, handling, systems>>

\* Mutant: the endpoint is no coroutine and runs in the thread pool.
StartHandlerInPool(p) ==
    /\ p \in inbox
    /\ inbox' = inbox \ {p}
    /\ handling' = handling \cup {[post |-> p, step |-> 1, old |-> Unset]}
    /\ UNCHANGED <<dry, clients, systems>>

\* execute_single is a coroutine that calls its handler without awaiting: the
\* event loop takes no other post until the handler has returned.
StartHandler(p) ==
    /\ p \in inbox
    /\ handling = {}
    /\ inbox' = inbox \ {p}
    /\ handling' = {[post |-> p, step |-> 1, old |-> Unset]}
    /\ UNCHANGED <<dry, clients, systems>>

Statement(h) ==
    /\ h.step <= Len(Statements(h.post))
    /\ Effect(h)
    /\ LET old == IF NextStatement(h) = "CONFIG_GET" /\ h.step = 1 THEN config ELSE h.old
       IN  handling' = (handling \ {h}) \cup {[h EXCEPT !.step = @ + 1, !.old = old]}
    /\ UNCHANGED <<dry, clients, inbox>>

\* An error or a timeout of a statement, which may have been carried out.
StatementFails(h) ==
    /\ h.step <= Len(Statements(h.post))
    /\ Effect(h) \/ UNCHANGED systems
    /\ handling' = handling \ {h}
    /\ Answer(h.post, "failed")
    /\ UNCHANGED <<dry, inbox>>

HandlerReturns(h) ==
    /\ h.step > Len(Statements(h.post))
    /\ handling' = handling \ {h}
    /\ Answer(h.post, StatusOf(h.post))
    /\ UNCHANGED <<dry, inbox, systems>>

\* The executor restarts and forgets its handler and its connections.
ExecutorRestart ==
    /\ handling' = {}
    /\ inbox' = {}
    /\ UNCHANGED <<dry, clients, systems>>

RunStep(r) == PostAction(r) \/ PostFails(r) \/ EnterObservation(r)

Next ==
    \/ \E r \in Runs : Begin(r) \/ RunStep(r)
    \/ \E p \in inbox : Lose(p) \/ StartHandler(p)
    \/ \E h \in handling : Statement(h) \/ StatementFails(h) \/ HandlerReturns(h)
    \/ SupervisorRestart
    \/ ExecutorRestart

Spec == Init /\ [][Next]_vars

----------------------------------------------------------------------------
(* Properties *)

\* "success" of an action on a real system means that every statement of its
\* handler took effect, in spite of posts that outlive their clients' patience.
SuccessIsDone ==
    \A r \in Runs : \A i \in DOMAIN statuses[r] :
        LET p == [run |-> r, index |-> i]
        IN  statuses[r][i] = "success" => done[p] = Len(Statements(p))

\* However far a failover comes before it fails or its process dies, the
\* server does not take writes while it is attached to a source.
NoSplitBrain == ~server.read_only => ~server.attached

\* redis_config_set answers the value it replaced and the value it set: no other
\* handler of the executor comes between its statements.
ReportIsTrue ==
    \A h \in handling :
        HandlerOf(h.post) = "redis_config_set" /\ Statements(h.post) # << >> =>
            /\ h.step = 2 => h.old = config
            /\ h.step > 2 => config = h.post
====

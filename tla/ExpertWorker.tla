---- MODULE ExpertWorker ----
(***************************************************************************)
(* One expert worker (expert-worker/app/): the tools of its kind, what     *)
(* they return when the systems behind them come and go, the diagnosis     *)
(* that calls them all, and the cross-validation with which the arbitrator *)
(* (agent-supervisor/app/arbitrator.py) calls one of them again.           *)
(*                                                                         *)
(* A tool's result is told apart by where it comes from: an answer of the  *)
(* real system, data the tool made up, an answer of a mock service, or an  *)
(* error.  The worker looks at nothing but the key "error".                *)
(***************************************************************************)
EXTENDS Integers, Sequences, FiniteSets

CONSTANT Agents \* the agent types whose workers are looked at

ASSUME AgentsAssumption == Agents \subseteq {"k8s", "middleware", "network", "application"}

VARIABLES
    agent,     \* AGENT_TYPE
    mock,      \* the service behind MOCK_BASE_URL, "none" when it is unset
    urls,      \* the systems whose URLs are set, of those that need one
    up,        \* the systems and mock services that can be reached
    connected, \* the clients that could connect when the worker started (_HAS_REDIS, ...)
    session,   \* whether the worker's only MySQL connection is alive
    phase,     \* where the diagnosis stands
    results,   \* the results of its tool calls
    validation \* the result of the arbitrator's call, "none" before it

process == <<connected, session>>
deployment == <<agent, mock, urls>>
vars == <<deployment, up, process, phase, results, validation>>

----------------------------------------------------------------------------
(* Tools *)

K8S_TOOLS == <<"get_pod_status", "get_pod_events", "get_deploy_history",
               "get_resource_quota", "get_node_metrics">>

MIDDLEWARE_TOOLS == <<"get_redis_slowlog", "get_redis_config", "get_redis_info",
                      "get_mysql_slowlog", "get_mysql_status", "get_kafka_consumer_lag",
                      "get_kafka_topic_info", "get_kafka_broker_metrics", "sample_kafka_topic">>

NETWORK_TOOLS == <<"ping_mesh", "trace_route", "check_dns", "get_svc_mesh_metrics">>

APP_TOOLS == <<"get_trace", "search_logs", "get_apm_metrics", "get_recent_deployments",
               "get_config_diff">>

TOOLS ==
    CASE agent = "k8s"         -> K8S_TOOLS
      [] agent = "middleware"  -> MIDDLEWARE_TOOLS
      [] agent = "network"     -> NETWORK_TOOLS
      [] agent = "application" -> APP_TOOLS

\* The tools of an agent type that a mock service has a route for.
K8sRoutes == {K8S_TOOLS[i] : i \in DOMAIN K8S_TOOLS}
RedisRoutes == {"get_redis_slowlog", "get_redis_config", "get_redis_info"}

\* The DNS route needs a hostname, which no GET of execute_tool carries.
NetworkRoutes == {"ping_mesh", "trace_route", "get_svc_mesh_metrics"}

Routes(service) ==
    CASE service = "k8s_mock"     -> K8sRoutes
      [] service = "redis_mock"   -> RedisRoutes
      [] service = "network_mock" -> NetworkRoutes

\* What docker-compose.yml gives the workers.
ComposeMock ==
    [k8s |-> "k8s_mock", middleware |-> "redis_mock", network |-> "network_mock",
     application |-> "k8s_mock"]

\* Mutant: a topic and a hostname are made up as well.
BuildToolParamsAll(tool) == {"topic", "hostname"}

\* _build_tool_params, of the parameters without which a tool fails: neither has
\* a default or is taken from the incident.
BuildToolParams(tool) == {}

\* kube-api: there is no fallback; the client raises, or answers an error.
KubeResults == IF "kube" \in up THEN {"answer", "error"} ELSE {"error"}

\* Redis: a client that did not connect at the start is never tried again.
RedisResults ==
    IF "redis" \in connected \cap up THEN {"answer", "error"} ELSE {"error"}

\* MySQL: the same, and its connection is never opened again.
MysqlResults ==
    IF session /\ "mysql" \in connected \cap up THEN {"answer", "error"} ELSE {"error"}

KafkaResults ==
    IF "kafka" \in connected \cap up THEN {"answer", "error"} ELSE {"error"}

TopicSampleResults(params) == IF "topic" \in params THEN KafkaResults ELSE {"error"}

\* ping3 or the system's ping: lost packets are an answer.
PingResults == {"answer", "error"}
TraceRouteResults == {"answer", "error"}
DnsResults(params) == IF "hostname" \in params THEN {"answer", "error"} ELSE {"error"}
MeshResults == {"synthetic"}

\* Jaeger, the log store and Prometheus: without a URL or an answer, data is made up.
TraceResults == IF "jaeger" \in urls \cap up THEN {"answer", "synthetic"} ELSE {"synthetic"}
LogResults == IF "logs" \in urls \cap up THEN {"answer", "synthetic"} ELSE {"synthetic"}
ApmResults == IF "prometheus" \in urls \cap up THEN {"answer", "synthetic"} ELSE {"synthetic"}
ChangeResults == {"synthetic"}

\* The real function of a tool.
RealResults(tool, params) ==
    CASE tool \in K8sRoutes -> KubeResults
      [] tool \in RedisRoutes -> RedisResults
      [] tool \in {"get_mysql_slowlog", "get_mysql_status"} -> MysqlResults
      [] tool \in {"get_kafka_consumer_lag", "get_kafka_topic_info", "get_kafka_broker_metrics"} -> KafkaResults
      [] tool = "sample_kafka_topic" -> TopicSampleResults(params)
      [] tool = "ping_mesh" -> PingResults
      [] tool = "trace_route" -> TraceRouteResults
      [] tool = "check_dns" -> DnsResults(params)
      [] tool = "get_svc_mesh_metrics" -> MeshResults
      [] tool = "get_trace" -> TraceResults
      [] tool = "search_logs" -> LogResults
      [] tool = "get_apm_metrics" -> ApmResults
      [] tool \in {"get_recent_deployments", "get_config_diff"} -> ChangeResults

\* The HTTP call to a mock service.
MockResults(tool) ==
    IF mock \in up /\ tool \in Routes(mock) THEN {"mocked", "error"} ELSE {"error"}

\* execute_tool: with MOCK_BASE_URL every tool goes to the mock service, without
\* it none does.
ExecuteTool(tool, params) ==
    IF mock = "none" THEN RealResults(tool, params) ELSE MockResults(tool)

----------------------------------------------------------------------------
\* What the tools of an agent type, and the modules that define them, talk to.
Systems ==
    CASE agent = "k8s"         -> {"kube"}
      [] agent = "middleware"  -> {"redis", "mysql", "kafka"}
      [] agent = "network"     -> {}
      [] agent = "application" -> {"jaeger", "logs", "prometheus"}

Reachable == Systems \cup ({mock} \ {"none"})

\* The clients that connect when their module is imported.
Clients == Systems \cap {"redis", "mysql", "kafka"}

WorkerTypeOK ==
    /\ agent \in Agents
    /\ mock \in {"none", ComposeMock[agent]}
    /\ urls \subseteq Systems
    /\ up \subseteq Reachable
    /\ connected \subseteq Clients
    /\ session \in BOOLEAN /\ (session => "mysql" \in connected)
    /\ phase \in {"idle", "calling", "answered", "lost"}
    /\ results \in Seq({"answer", "synthetic", "mocked", "error"})
    /\ Len(results) <= Len(TOOLS)
    /\ validation \in {"none", "answer", "synthetic", "mocked", "error"}

Init ==
    /\ agent \in Agents
    /\ mock \in {"none", ComposeMock[agent]}
    /\ urls \in {{}, Systems \ ({"kube"} \cup Clients)}
    /\ up \in SUBSET Reachable
    /\ connected \in SUBSET (Clients \cap up)
    /\ session = ("mysql" \in connected)
    /\ phase = "idle"
    /\ results = << >>
    /\ validation = "none"

----------------------------------------------------------------------------
(* The systems *)

ComesUp(s) ==
    /\ s \notin up
    /\ up' = up \cup {s}
    /\ UNCHANGED <<deployment, process, phase, results, validation>>

\* A MySQL server that is gone for a while may have broken the connection.
GoesDown(s) ==
    /\ s \in up
    /\ up' = up \ {s}
    /\ session' \in {session, session /\ s # "mysql"}
    /\ UNCHANGED <<deployment, connected, phase, results, validation>>

----------------------------------------------------------------------------
(* The worker *)

\* The modules are imported again and try each of their clients once.
Restart ==
    /\ connected' \in SUBSET (Clients \cap up)
    /\ session' = ("mysql" \in connected')
    /\ phase' = IF phase = "calling" THEN "lost" ELSE phase
    /\ UNCHANGED <<deployment, up, results, validation>>

Diagnose ==
    /\ phase = "idle"
    /\ phase' = "calling"
    /\ UNCHANGED <<deployment, up, process, results, validation>>

\* The next tool of the loop, whatever the last one returned.  A read of MySQL
\* that times out closes the connection.
CallTool ==
    /\ phase = "calling" /\ Len(results) < Len(TOOLS)
    /\ LET tool == TOOLS[Len(results) + 1]
       IN  \E r \in ExecuteTool(tool, BuildToolParams(tool)) :
              /\ results' = Append(results, r)
              /\ session' \in {session, session /\ ~(r = "error" /\ mock = "none" /\
                                      tool \in {"get_mysql_slowlog", "get_mysql_status"})}
    /\ UNCHANGED <<deployment, up, connected, phase, validation>>

Evidence == {i \in DOMAIN results : results[i] # "error"}

Answer ==
    /\ phase = "calling" /\ Len(results) = Len(TOOLS)
    /\ phase' = "answered"
    /\ UNCHANGED <<deployment, up, process, results, validation>>

----------------------------------------------------------------------------
(* The arbitrator *)

VALIDATION_TOOLS ==
    [k8s |-> "get_pod_events", middleware |-> "get_redis_info", network |-> "ping_mesh",
     application |-> "get_apm_metrics"]

\* _cross_validate, which may also find the worker gone or too slow.
CrossValidate ==
    /\ phase = "answered" /\ validation = "none"
    /\ validation' \in ExecuteTool(VALIDATION_TOOLS[agent], {}) \cup {"error"}
    /\ UNCHANGED <<deployment, up, process, phase, results>>

Next ==
    \/ \E s \in Reachable : ComesUp(s) \/ GoesDown(s)
    \/ Restart
    \/ Diagnose
    \/ CallTool
    \/ Answer
    \/ CrossValidate

Spec == Init /\ [][Next]_vars

----------------------------------------------------------------------------
(* Properties *)

\* No diagnosis samples a topic or resolves a name; the mock services know three
\* of the middleware's tools and none of the application's.
MostEvidence ==
    IF mock = "none"
    THEN [k8s |-> 5, middleware |-> 8, network |-> 3, application |-> 5]
    ELSE [k8s |-> 5, middleware |-> 3, network |-> 3, application |-> 0]

\* How much evidence a worker can give the vote, however the systems come and go
\* between its calls: the deployment decides it, and a worker of the application,
\* whose own tools make up what they cannot get, has all of it.
EvidenceWithinReach ==
    /\ Cardinality(Evidence) <= MostEvidence[agent]
    /\ agent = "application" /\ mock = "none" /\ phase = "answered" =>
          Cardinality(Evidence) = MostEvidence[agent]

\* However the systems come and go between its calls, the evidence of one
\* diagnosis and the arbitrator's own call never mix mock and real data, and
\* the k8s and middleware workers make nothing up.
NeverMixed ==
    \A r \in {results[i] : i \in DOMAIN results} \cup {validation} :
        /\ r = "mocked" => mock # "none"
        /\ r = "answer" => mock = "none"
        /\ r = "synthetic" => mock = "none" /\ agent \in {"network", "application"}
====

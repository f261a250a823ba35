---- MODULE ExpertWorker_Proofs ----
(***************************************************************************)
(* Proofs about ExpertWorker, for any agents and however the systems come  *)
(* and go: its types, that mock and real data never mix, and how much      *)
(* evidence a diagnosis can gather.                                        *)
(*                                                                         *)
(* The evidence is counted, so the invariant says of each tool call what   *)
(* its result can be (Fits), which no outage and no restart changes, and   *)
(* that an answered diagnosis made every call.  The counts follow from     *)
(* where the evidence can be.                                              *)
(***************************************************************************)
EXTENDS ExpertWorker, FiniteSetTheorems, TLAPS

Origins == {"answer", "synthetic", "mocked", "error"}

\* The result r of a tool does not depend on what is up.
Possible(tool, r) ==
    IF mock = "none"
    THEN /\ r # "mocked"
         /\ r = "synthetic" => agent \in {"network", "application"}
         /\ tool \in {"sample_kafka_topic", "check_dns"} => r = "error"
         /\ agent = "application" => r # "error"
    ELSE /\ r \in {"mocked", "error"}
         /\ r = "mocked" => tool \in Routes(mock)

Fits(i) == Possible(TOOLS[i], results[i])

WorkerInv ==
    /\ WorkerTypeOK
    /\ \A i \in DOMAIN results : Fits(i)
    /\ phase = "answered" => Len(results) = Len(TOOLS)
    /\ validation \notin {"none", "error"} => Possible(VALIDATION_TOOLS[agent], validation)

----------------------------------------------------------------------------
(* Tools *)

LEMMA K8sTools ==
    /\ Len(K8S_TOOLS) = 5
    /\ K8sRoutes = {"get_pod_status", "get_pod_events", "get_deploy_history",
                    "get_resource_quota", "get_node_metrics"}
  BY DEF K8sRoutes, K8S_TOOLS

\* The tools of each agent type, by their places.
LEMMA ToolsOf ==
    ASSUME agent \in {"k8s", "middleware", "network", "application"}
    PROVE  /\ agent = "k8s" => Len(TOOLS) = 5 /\ \A i \in 1 .. 5 : TOOLS[i] \in K8sRoutes
           /\ agent = "middleware" =>
                 /\ Len(TOOLS) = 9 /\ TOOLS[9] = "sample_kafka_topic"
                 /\ \A i \in 4 .. 9 : TOOLS[i] \notin RedisRoutes
                 /\ \A i \in 1 .. 8 : TOOLS[i] \in {"get_redis_slowlog", "get_redis_config",
                       "get_redis_info", "get_mysql_slowlog", "get_mysql_status",
                       "get_kafka_consumer_lag", "get_kafka_topic_info",
                       "get_kafka_broker_metrics"}
           /\ agent = "network" =>
                 /\ Len(TOOLS) = 4 /\ TOOLS[3] = "check_dns"
                 /\ \A i \in {1, 2, 4} : TOOLS[i] \in {"ping_mesh", "trace_route", "get_svc_mesh_metrics"}
           /\ agent = "application" =>
                 /\ Len(TOOLS) = 5
                 /\ \A i \in 1 .. 5 : TOOLS[i] \in {"get_trace", "search_logs", "get_apm_metrics",
                       "get_recent_deployments", "get_config_diff"}
<1>1. CASE agent = "k8s"
  BY <1>1, K8sTools DEF TOOLS, K8S_TOOLS
<1>2. CASE agent = "middleware"
  BY <1>2 DEF TOOLS, MIDDLEWARE_TOOLS, RedisRoutes
<1>3. CASE agent = "network"
  BY <1>3 DEF TOOLS, NETWORK_TOOLS
<1>4. CASE agent = "application"
  BY <1>4 DEF TOOLS, APP_TOOLS
<1> QED
  BY <1>1, <1>2, <1>3, <1>4

MiddlewareTools == {"get_redis_slowlog", "get_redis_config", "get_redis_info",
                    "get_mysql_slowlog", "get_mysql_status", "get_kafka_consumer_lag",
                    "get_kafka_topic_info", "get_kafka_broker_metrics"}
AppTools == {"get_trace", "search_logs", "get_apm_metrics", "get_recent_deployments",
             "get_config_diff"}

\* What a tool returns without a topic and a hostname.
LEMMA RealResultsOf ==
    ASSUME NEW tool, NEW r \in RealResults(tool, {})
    PROVE  /\ tool \in K8sRoutes \cup MiddlewareTools => r \in {"answer", "error"}
           /\ tool \in {"sample_kafka_topic", "check_dns"} => r = "error"
           /\ tool \in {"ping_mesh", "trace_route"} => r \in {"answer", "error"}
           /\ tool = "get_svc_mesh_metrics" => r = "synthetic"
           /\ tool \in AppTools => r \in {"answer", "synthetic"}
<1> USE K8sTools DEF RealResults, RedisRoutes, MiddlewareTools, AppTools
<1>1. CASE tool \in K8sRoutes
  BY <1>1 DEF KubeResults
<1>2. CASE tool \in MiddlewareTools
  BY <1>2 DEF RedisResults, MysqlResults, KafkaResults
<1>3. CASE tool \in {"sample_kafka_topic", "check_dns"}
  BY <1>3 DEF TopicSampleResults, DnsResults
<1>4. CASE tool \in {"ping_mesh", "trace_route", "get_svc_mesh_metrics"}
  BY <1>4 DEF PingResults, TraceRouteResults, MeshResults
<1>5. CASE tool \in AppTools
  BY <1>5 DEF TraceResults, LogResults, ApmResults, ChangeResults
<1> QED
  BY <1>1, <1>2, <1>3, <1>4, <1>5

\* The tools that an agent type calls, for a diagnosis or for a validation.
Called(tool) == (\E i \in 1 .. Len(TOOLS) : tool = TOOLS[i]) \/ tool = VALIDATION_TOOLS[agent]

LEMMA CalledTools ==
    ASSUME agent \in {"k8s", "middleware", "network", "application"}, NEW tool, Called(tool)
    PROVE  /\ agent = "k8s" => tool \in K8sRoutes
           /\ agent = "middleware" => tool \in MiddlewareTools \cup {"sample_kafka_topic"}
           /\ agent = "network" =>
                 tool \in {"ping_mesh", "trace_route", "check_dns", "get_svc_mesh_metrics"}
           /\ agent = "application" => tool \in AppTools
<1>1. CASE tool = VALIDATION_TOOLS[agent]
  BY <1>1, K8sTools DEF VALIDATION_TOOLS, MiddlewareTools, AppTools
<1>2. CASE \E i \in 1 .. Len(TOOLS) : tool = TOOLS[i]
  <2>1. PICK i \in 1 .. Len(TOOLS) : tool = TOOLS[i]
    BY <1>2
  <2>2. CASE agent = "k8s"
    BY <2>1, <2>2, ToolsOf
  <2>3. CASE agent = "middleware"
    <3>1. Len(TOOLS) = 9 /\ TOOLS[9] = "sample_kafka_topic" /\ \A j \in 1 .. 8 : TOOLS[j] \in MiddlewareTools
      BY <2>3, ToolsOf DEF MiddlewareTools
    <3>2. i \in 1 .. 8 \/ i = 9
      BY <3>1
    <3> QED
      BY <2>1, <2>3, <3>1, <3>2
  <2>4. CASE agent = "network"
    <3>1. /\ Len(TOOLS) = 4 /\ TOOLS[3] = "check_dns"
          /\ \A j \in {1, 2, 4} : TOOLS[j] \in {"ping_mesh", "trace_route", "get_svc_mesh_metrics"}
      BY <2>4, ToolsOf
    <3>2. i \in {1, 2, 4} \/ i = 3
      BY <3>1
    <3> QED
      BY <2>1, <2>4, <3>1, <3>2
  <2>5. CASE agent = "application"
    BY <2>1, <2>5, ToolsOf DEF AppTools
  <2> QED
    BY <2>2, <2>3, <2>4, <2>5
<1> QED
  BY <1>1, <1>2 DEF Called

\* Any result of a call is one the tool can give whatever is up.
LEMMA CallIsPossible ==
    ASSUME agent \in {"k8s", "middleware", "network", "application"},
           NEW tool, Called(tool), NEW r \in ExecuteTool(tool, {})
    PROVE  r \in Origins /\ Possible(tool, r)
<1>1. CASE mock = "none"
  <2>1. r \in RealResults(tool, {})
    BY <1>1 DEF ExecuteTool
  <2>2. /\ tool \in K8sRoutes \cup MiddlewareTools => r \in {"answer", "error"}
        /\ tool \in {"sample_kafka_topic", "check_dns"} => r = "error"
        /\ tool \in {"ping_mesh", "trace_route"} => r \in {"answer", "error"}
        /\ tool = "get_svc_mesh_metrics" => r = "synthetic"
        /\ tool \in AppTools => r \in {"answer", "synthetic"}
    BY <2>1, RealResultsOf
  <2>3. /\ agent = "k8s" => tool \in K8sRoutes
        /\ agent = "middleware" => tool \in MiddlewareTools \cup {"sample_kafka_topic"}
        /\ agent = "network" =>
              tool \in {"ping_mesh", "trace_route", "check_dns", "get_svc_mesh_metrics"}
        /\ agent = "application" => tool \in AppTools
    BY CalledTools
  <2>4. r \in Origins
    BY <2>2, <2>3 DEF Origins
  <2>5. r # "mocked"
    BY <2>2, <2>3
  <2>6. r = "synthetic" => agent \in {"network", "application"}
    BY <2>2, <2>3
  <2>7. agent = "application" => r # "error"
    BY <2>2, <2>3
  <2> QED
    BY <1>1, <2>2, <2>4, <2>5, <2>6, <2>7 DEF Possible
<1>2. CASE mock # "none"
  BY <1>2 DEF ExecuteTool, MockResults, Possible, Origins
<1> QED
  BY <1>1, <1>2

----------------------------------------------------------------------------
(* The invariant *)

LEMMA InitWorkerInv == Init => WorkerInv
<1> SUFFICES ASSUME Init PROVE WorkerInv
  OBVIOUS
<1>1. WorkerTypeOK
  <2>1. agent \in {"k8s", "middleware", "network", "application"}
    BY AgentsAssumption DEF Init
  <2>2. Len(TOOLS) \in Nat
    BY <2>1, ToolsOf
  <2>3. urls \subseteq Systems /\ up \subseteq Reachable /\ connected \subseteq Clients
    BY DEF Init
  <2>4. session \in BOOLEAN /\ (session => "mysql" \in connected)
    <3>1. session = ("mysql" \in connected)
      BY DEF Init
    <3>2. CASE "mysql" \in connected
      BY <3>1, <3>2
    <3>3. CASE ~("mysql" \in connected)
      <4>1. ("mysql" \in connected) = FALSE
        BY <3>3
      <4>2. session = FALSE
        BY <3>1, <4>1
      <4> QED
        BY <4>2
    <3> QED
      BY <3>2, <3>3
  <2>5. /\ agent \in Agents /\ mock \in {"none", ComposeMock[agent]}
        /\ phase = "idle" /\ results = << >> /\ validation = "none"
    BY DEF Init
  <2>6. results \in Seq({"answer", "synthetic", "mocked", "error"}) /\ Len(results) <= Len(TOOLS)
    BY <2>2, <2>5
  <2> QED
    BY <2>3, <2>4, <2>5, <2>6 DEF WorkerTypeOK
<1> QED
  BY <1>1 DEF Init, WorkerInv

LEMMA NextWorkerInv == WorkerInv /\ [Next]_vars => WorkerInv'
<1> SUFFICES ASSUME WorkerInv, [Next]_vars PROVE WorkerInv'
  OBVIOUS
<1>0. WorkerTypeOK /\ agent \in {"k8s", "middleware", "network", "application"}
  BY AgentsAssumption DEF WorkerInv, WorkerTypeOK
<1>1. agent' = agent /\ mock' = mock /\ urls' = urls
  BY DEF Next, ComesUp, GoesDown, Restart, Diagnose, CallTool, Answer, CrossValidate,
         vars, deployment
<1>2. /\ TOOLS' = TOOLS /\ Systems' = Systems /\ Reachable' = Reachable /\ Clients' = Clients
      /\ \A tool, r : Possible(tool, r)' <=> Possible(tool, r)
  BY <1>1 DEF TOOLS, Systems, Reachable, Clients, Possible
<1>3. CASE \E s \in Reachable : ComesUp(s) \/ GoesDown(s)
  <2>1. PICK s \in Reachable : ComesUp(s) \/ GoesDown(s)
    BY <1>3
  <2>2. /\ up' \subseteq Reachable
        /\ connected' = connected /\ phase' = phase /\ results' = results /\ validation' = validation
    BY <1>0, <2>1 DEF ComesUp, GoesDown, process, WorkerTypeOK
  <2>3. session \in BOOLEAN /\ (session => "mysql" \in connected)
    BY <1>0 DEF WorkerTypeOK
  <2>4. session' \in {session, session /\ s # "mysql"}
    BY <2>1 DEF ComesUp, GoesDown, process
  <2>5. session' \in BOOLEAN /\ (session' => session)
    BY <2>3, <2>4
  <2> QED
    BY <1>0, <1>1, <1>2, <2>2, <2>3, <2>5 DEF WorkerInv, WorkerTypeOK, Fits
<1>4. CASE Restart
  <2>1. /\ connected' \subseteq Clients
        /\ phase' = (IF phase = "calling" THEN "lost" ELSE phase)
        /\ up' = up /\ results' = results /\ validation' = validation
    BY <1>4 DEF Restart
  <2>2. session' = ("mysql" \in connected')
    BY <1>4 DEF Restart
  <2>3. session' \in BOOLEAN /\ (session' => "mysql" \in connected')
    <3>1. CASE "mysql" \in connected'
      BY <2>2, <3>1
    <3>2. CASE ~("mysql" \in connected')
      <4>1. ("mysql" \in connected') = FALSE
        BY <3>2
      <4>2. session' = FALSE
        BY <2>2, <4>1
      <4> QED
        BY <4>2
    <3> QED
      BY <3>1, <3>2
  <2> QED
    BY <1>0, <1>1, <1>2, <2>1, <2>3 DEF WorkerInv, WorkerTypeOK, Fits
<1>5. CASE Diagnose
  BY <1>0, <1>1, <1>2, <1>5 DEF Diagnose, process, WorkerInv, WorkerTypeOK, Fits
<1>6. CASE CallTool
  <2>1. /\ phase = "calling" /\ phase' = "calling" /\ Len(results) < Len(TOOLS)
        /\ up' = up /\ connected' = connected /\ validation' = validation
    BY <1>6 DEF CallTool
  <2>2. PICK r \in ExecuteTool(TOOLS[Len(results) + 1], BuildToolParams(TOOLS[Len(results) + 1])) :
           /\ results' = Append(results, r)
           /\ session' \in {session, session /\ ~(r = "error" /\ mock = "none" /\
                                TOOLS[Len(results) + 1] \in {"get_mysql_slowlog", "get_mysql_status"})}
    BY <1>6 DEF CallTool
  <2>3. Len(results) \in Nat /\ Len(TOOLS) \in Nat /\ results \in Seq(Origins)
    BY <1>0, ToolsOf DEF WorkerTypeOK, Origins
  <2>4. Called(TOOLS[Len(results) + 1])
    BY <2>1, <2>3 DEF Called
  <2>5. r \in Origins /\ Possible(TOOLS[Len(results) + 1], r)
    BY <1>0, <2>2, <2>4, CallIsPossible DEF BuildToolParams
  <2>6. /\ results' \in Seq(Origins) /\ Len(results') = Len(results) + 1
        /\ results'[Len(results) + 1] = r
        /\ \A i \in 1 .. Len(results) : results'[i] = results[i]
        /\ DOMAIN results' = 1 .. Len(results) + 1 /\ DOMAIN results = 1 .. Len(results)
    BY <2>2, <2>3, <2>5
  <2>7. ASSUME NEW i \in DOMAIN results' PROVE Fits(i)'
    <3>1. CASE i = Len(results) + 1
      BY <1>2, <2>5, <2>6, <3>1 DEF Fits
    <3>2. CASE i # Len(results) + 1
      <4>1. i \in DOMAIN results /\ results'[i] = results[i]
        BY <2>3, <2>6, <3>2
      <4> QED
        BY <1>2, <4>1 DEF WorkerInv, Fits
    <3> QED
      BY <3>1, <3>2
  <2>8. WorkerTypeOK'
    <3>1. /\ results' \in Seq({"answer", "synthetic", "mocked", "error"})
          /\ Len(results') <= Len(TOOLS)
      BY <2>1, <2>3, <2>6 DEF Origins
    <3>2. session' \in BOOLEAN /\ (session' => "mysql" \in connected')
      <4>1. session \in BOOLEAN /\ (session => "mysql" \in connected)
        BY <1>0 DEF WorkerTypeOK
      <4>2. session' \in BOOLEAN /\ (session' => session)
        BY <2>2, <4>1
      <4> QED
        BY <2>1, <4>1, <4>2
    <3> QED
      BY <1>0, <1>1, <1>2, <2>1, <3>1, <3>2 DEF WorkerTypeOK
  <2>9. validation' \notin {"none", "error"} => Possible(VALIDATION_TOOLS[agent], validation)'
    BY <1>1, <1>2, <2>1 DEF WorkerInv
  <2> QED
    BY <2>1, <2>7, <2>8, <2>9 DEF WorkerInv
<1>7. CASE Answer
  BY <1>0, <1>1, <1>2, <1>7 DEF Answer, process, WorkerInv, WorkerTypeOK, Fits
<1>8. CASE CrossValidate
  <2>1. /\ phase' = phase /\ up' = up /\ results' = results
        /\ connected' = connected /\ session' = session
        /\ validation' \in ExecuteTool(VALIDATION_TOOLS[agent], {}) \cup {"error"}
    BY <1>8 DEF CrossValidate, process
  <2>2. validation' \in Origins
           /\ (validation' # "error" => Possible(VALIDATION_TOOLS[agent], validation'))
    <3>1. Called(VALIDATION_TOOLS[agent])
      BY DEF Called
    <3>2. ASSUME NEW r \in ExecuteTool(VALIDATION_TOOLS[agent], {})
          PROVE  r \in Origins /\ Possible(VALIDATION_TOOLS[agent], r)
      BY <1>0, <3>1, CallIsPossible
    <3> QED
      BY <2>1, <3>2 DEF Origins
  <2>3. (validation' # "error" => Possible(VALIDATION_TOOLS[agent], validation)')
    BY <1>1, <1>2, <2>2
  <2>4. WorkerTypeOK'
    BY <1>0, <1>1, <1>2, <2>1, <2>2 DEF WorkerTypeOK, Origins
  <2> QED
    BY <1>1, <1>2, <2>1, <2>3, <2>4 DEF WorkerInv, Fits
<1>9. CASE UNCHANGED vars
  BY <1>0, <1>1, <1>2, <1>9 DEF vars, process, WorkerInv, WorkerTypeOK, Fits
<1> QED
  BY <1>3, <1>4, <1>5, <1>6, <1>7, <1>8, <1>9 DEF Next

THEOREM WorkerInvariant == Spec => []WorkerInv
  BY InitWorkerInv, NextWorkerInv, PTL DEF Spec

----------------------------------------------------------------------------
(* The theorems *)

\* A worker's state keeps its types whatever its systems and its restarts do: no
\* diagnosis makes more calls than the agent type has tools, and there is a MySQL
\* connection only if the worker could connect when it started.
THEOREM WorkerTypeCorrect == Spec => []WorkerTypeOK
<1>1. WorkerInv => WorkerTypeOK
  BY DEF WorkerInv
<1> QED
  BY <1>1, WorkerInvariant, PTL

\* The evidence of a diagnosis and of its validation never mixes mock and real
\* data, and the k8s and middleware workers make nothing up.
THEOREM NeverMixedHolds == Spec => []NeverMixed
<1>1. WorkerInv => NeverMixed
  <2> SUFFICES ASSUME WorkerInv,
                      NEW r \in {results[i] : i \in DOMAIN results} \cup {validation}
               PROVE  /\ r = "mocked" => mock # "none"
                      /\ r = "answer" => mock = "none"
                      /\ r = "synthetic" => mock = "none" /\ agent \in {"network", "application"}
    BY DEF NeverMixed
  <2>1. r \in {"none", "error"} \/ \E tool : Possible(tool, r)
    BY DEF WorkerInv, Fits
  <2> QED
    BY <2>1 DEF Possible
<1> QED
  BY <1>1, WorkerInvariant, PTL

\* The calls whose result is no error.
LEMMA EvidencePlaces ==
    ASSUME WorkerInv
    PROVE  /\ agent \in {"k8s", "middleware", "network", "application"}
           /\ mock \in {"none", ComposeMock[agent]}
           /\ Evidence \subseteq 1 .. Len(TOOLS)
           /\ agent = "middleware" /\ mock = "none" => Evidence \subseteq 1 .. 8
           /\ agent = "middleware" /\ mock # "none" => Evidence \subseteq 1 .. 3
           /\ agent = "network" => Evidence \subseteq {1, 2, 4}
           /\ agent = "application" /\ mock # "none" => Evidence = {}
           /\ agent = "application" /\ mock = "none" => Evidence = DOMAIN results
<1>1. WorkerTypeOK /\ agent \in {"k8s", "middleware", "network", "application"}
  BY AgentsAssumption DEF WorkerInv, WorkerTypeOK
<1>2. /\ mock \in {"none", ComposeMock[agent]} /\ DOMAIN results = 1 .. Len(results)
      /\ Len(results) \in Nat /\ Len(results) <= Len(TOOLS) /\ Len(TOOLS) \in Nat
  BY <1>1, ToolsOf DEF WorkerTypeOK
<1>3. Evidence \subseteq 1 .. Len(TOOLS)
  BY <1>2 DEF Evidence
<1>4. ASSUME NEW i \in Evidence PROVE Possible(TOOLS[i], results[i]) /\ results[i] # "error"
  BY DEF WorkerInv, Fits, Evidence
<1>5. ASSUME agent = "middleware", mock = "none" PROVE Evidence \subseteq 1 .. 8
  <2>1. Len(TOOLS) = 9 /\ TOOLS[9] = "sample_kafka_topic"
    BY <1>5, ToolsOf
  <2>2. 9 \notin Evidence
    BY <1>4, <1>5, <2>1 DEF Possible
  <2> QED
    BY <1>3, <2>1, <2>2
<1>6. ASSUME agent = "middleware", mock # "none" PROVE Evidence \subseteq 1 .. 3
  <2>1. Len(TOOLS) = 9 /\ \A i \in 4 .. 9 : TOOLS[i] \notin RedisRoutes
    BY <1>6, ToolsOf
  <2>2. Routes(mock) = RedisRoutes
    BY <1>2, <1>6 DEF ComposeMock, Routes
  <2>3. ASSUME NEW i \in Evidence PROVE TOOLS[i] \in RedisRoutes
    BY <1>4, <1>6, <2>2 DEF Possible
  <2> QED
    BY <1>3, <2>1, <2>3
<1>7. ASSUME agent = "network" PROVE Evidence \subseteq {1, 2, 4}
  <2>1. Len(TOOLS) = 4 /\ TOOLS[3] = "check_dns"
    BY <1>7, ToolsOf
  <2>2. mock # "none" => Routes(mock) = NetworkRoutes
    BY <1>2, <1>7 DEF ComposeMock, Routes
  <2>3. 3 \notin Evidence
    BY <1>4, <2>1, <2>2 DEF Possible, NetworkRoutes
  <2> QED
    BY <1>3, <2>1, <2>3
<1>8. ASSUME agent = "application", mock # "none" PROVE Evidence = {}
  <2>1. Len(TOOLS) = 5 /\ \A i \in 1 .. 5 : TOOLS[i] \notin K8sRoutes
    BY <1>8, ToolsOf, K8sTools
  <2>2. Routes(mock) = K8sRoutes
    BY <1>2, <1>8 DEF ComposeMock, Routes
  <2>3. ASSUME NEW i \in Evidence PROVE FALSE
    BY <1>3, <1>4, <1>8, <2>1, <2>2 DEF Possible
  <2> QED
    BY <2>3
<1>9. ASSUME agent = "application", mock = "none" PROVE Evidence = DOMAIN results
  <2>1. ASSUME NEW i \in DOMAIN results PROVE results[i] # "error"
    BY <1>9 DEF WorkerInv, Fits, Possible
  <2> QED
    BY <2>1 DEF Evidence
<1> QED
  BY <1>1, <1>2, <1>3, <1>5, <1>6, <1>7, <1>8, <1>9

LEMMA FirstOnes == ASSUME NEW n \in Nat PROVE IsFiniteSet(1 .. n) /\ Cardinality(1 .. n) = n
  BY FS_Interval

LEMMA AtMost ==
    ASSUME NEW n \in Nat, NEW S \in SUBSET (1 .. n)
    PROVE  Cardinality(S) <= n
<1>1. IsFiniteSet(1 .. n) /\ Cardinality(1 .. n) = n
  BY FirstOnes
<1>2. Cardinality(S) <= Cardinality(1 .. n)
  BY <1>1, FS_Subset
<1> QED
  BY <1>1, <1>2

\* The evidence a worker can give the vote: all its tools but those that need a
\* topic or a hostname, or none when the mock service does not know them.
THEOREM EvidenceHolds == Spec => []EvidenceWithinReach
<1>1. WorkerInv => EvidenceWithinReach
  <2> SUFFICES ASSUME WorkerInv PROVE EvidenceWithinReach
    OBVIOUS
  <2>1. /\ agent \in {"k8s", "middleware", "network", "application"}
        /\ Evidence \subseteq 1 .. Len(TOOLS)
        /\ agent = "middleware" /\ mock = "none" => Evidence \subseteq 1 .. 8
        /\ agent = "middleware" /\ mock # "none" => Evidence \subseteq 1 .. 3
        /\ agent = "network" => Evidence \subseteq {1, 2, 4}
        /\ agent = "application" /\ mock # "none" => Evidence = {}
        /\ agent = "application" /\ mock = "none" => Evidence = DOMAIN results
    BY EvidencePlaces
  <2>2. CASE agent = "k8s"
    <3>1. Len(TOOLS) = 5
      BY <2>2, ToolsOf
    <3> QED
      BY <2>1, <2>2, <3>1, AtMost DEF EvidenceWithinReach, MostEvidence
  <2>3. CASE agent = "middleware"
    BY <2>1, <2>3, AtMost DEF EvidenceWithinReach, MostEvidence
  <2>4. CASE agent = "network"
    <3>1. IsFiniteSet({1, 2, 4}) /\ Cardinality({1, 2, 4}) = 3
      <4>1. {1, 2, 4} = (1 .. 4) \ {3} /\ 3 \in 1 .. 4
        OBVIOUS
      <4>2. IsFiniteSet(1 .. 4) /\ Cardinality(1 .. 4) = 4
        BY FirstOnes
      <4> QED
        BY <4>1, <4>2, FS_RemoveElement
    <3>2. Cardinality(Evidence) <= 3
      <4>1. Cardinality(Evidence) <= Cardinality({1, 2, 4})
        BY <2>1, <2>4, <3>1, FS_Subset
      <4> QED
        BY <3>1, <4>1
    <3> QED
      BY <2>4, <3>2 DEF EvidenceWithinReach, MostEvidence
  <2>5. CASE agent = "application" /\ mock # "none"
    <3>1. Cardinality(Evidence) = 0
      BY <2>1, <2>5, FS_EmptySet
    <3> QED
      BY <2>5, <3>1 DEF EvidenceWithinReach, MostEvidence
  <2>6. CASE agent = "application" /\ mock = "none"
    <3>1. Len(TOOLS) = 5
      BY <2>6, ToolsOf
    <3>2. Cardinality(Evidence) <= 5
      BY <2>1, <3>1, AtMost
    <3>3. phase = "answered" => Evidence = 1 .. 5
      BY <2>1, <2>6, <3>1 DEF WorkerInv, WorkerTypeOK
    <3>4. Cardinality(1 .. 5) = 5
      BY FirstOnes
    <3> QED
      BY <2>6, <3>2, <3>3, <3>4 DEF EvidenceWithinReach, MostEvidence
  <2> QED
    BY <2>1, <2>2, <2>3, <2>4, <2>5, <2>6
<1> QED
  BY <1>1, WorkerInvariant, PTL
====

# Verification of the industrial fault repair agent

This directory holds TLA+ models of the fault repair system, the TLC
configurations that check them on small instances, and proofs that hold for every
instance. The source is the reference: every definition is translated from the
code, and `PROJECT.json` names the lines each one stands for.

## The system

A Flink job finds anomalies in metrics and posts incidents to the
agent-supervisor, which runs a seven-node LangGraph diagnosis for each:
RAG prefetch, expert dispatch, arbitration, human approval, sandbox
verification, execution with observation, review.

| Component | State it keeps | Operations | Talks to |
|---|---|---|---|
| Anomaly stream (`flink/.../anomaly`) | per-key baselines, de-jitter counters, pending anomalies and alerts with timers, aggregation windows | map, route, cross-validate, aggregate | webhook sink |
| Webhook sink | none (retry counter of a call) | post an incident, retry up to 3 times | supervisor `/incident` |
| Supervisor (`agent-supervisor`) | LangGraph checkpoints in SQLite, `_active_configs`, the gauge of active diagnoses, the asyncio tasks | `/incident`, `/resume`, `/fallback`, queries; the seven nodes | RAG, experts, LLM, gateway, sandbox, executor |
| Arbitrator | none | conflict detection, voting, debate, plan synthesis, risk policy | LLM |
| Self-healer | none beyond one execution | execute actions, observe metrics, roll back | executor, experts' tools |
| HITL gateway (`hitl-gateway`) | approvals in memory, WebSocket clients, the scan's schedule | create, approve, reject, expiry scan every 30 s | supervisor `/resume` and `/fallback` |
| HITL panel (`hitl-frontend`) | the page | list, approve, reject | gateway |
| Sandbox (`sandbox-service`) | none | simulate, judge by LLM or by rules, merge risks | RAG, LLM |
| Executor (`action-executor`) | the posts it has not handled, the handler at work | look a handler up by name, run its statements | Kubernetes, MySQL, Redis; PLC, CNC, network and DNS actions are simulated |
| RAG service | ChromaDB collection, BM25 index | retrieve and fuse, upsert | - |
| Expert workers | clients connected when the process started, one MySQL connection | one LLM conversation with tool calls; single tools for the arbitrator and the self-healer | monitored systems or a mock service |

What is hard:

* **Several runs on one diagnosis.** Each accepted `/resume` creates a new asyncio
  task on the same LangGraph thread, whether or not a task is at work on it and
  wherever it stands. There is no lock, and the interrupted node
  asks for another approval when it runs again, whose decision resumes again.
* **Checkpoints written by one run and used by another**, with a restart at any
  point in between, inside a node as well.
* **Threads of the gateway** reading and writing an approval without a lock,
  against each other and against the expiry scan.
* **Calls made once**: callbacks to `/resume` that fail or are refused, an approval
  request whose answer is lost, approvals lost in a restart.
* **Answers computed from what has changed since**: a retrieval searches, then waits for the language model, while
  others write the corpus.
* **Fallbacks that absorb failures**: fail-open sandbox, default metrics, plans
  without actions or without a plan at all.

What makes each component correct:

* supervisor: no plan that requires approval is executed without a decision
  delivered to its diagnosis; nothing blocked or unverified is executed; the
  reported status agrees with the checkpoint; a finished diagnosis stays
  finished; every run ends.
* gateway: enough votes, by different users, each counted once; one decision per
  approval, reported to the supervisor; an expired approval does not stay pending.
* self-healer: a rollback exactly when a metric was violated often enough in a row,
  success only after a whole window; a triggered rollback does something.
* intake: two diagnoses of a node at a time only where the duplicate check could not see one of them; no
  stale entry that would block a node for good.
* anomaly stream: baselines are those of the values observed; nothing is aggregated that is not persistent or said to be
  validated by an alert that was not near; aggregates do not depend on how they were split.
* RAG: the index knows only stored tickets, with their current content wherever a write reached it; a diagnosis is shown that content,
  as of its search.
* review: only executed diagnoses become knowledge, each once where its runs followed one another.
* arbitrator: the vote prefers nobody to an expert that is better in everything it looks at.
* risk policy and executor: which high-risk handlers a plan can reach without a decision.
* executor: what is reported as a success took effect, whatever posts are late; a failover that breaks off leaves no
  server that takes writes and follows a source; a configuration change reports what it replaced.
* expert workers: mock, real and made-up data do not mix in a diagnosis; how much evidence a deployment allows.
* sandbox: the rules stop every high-risk name; their verdict is no weaker than that of the worst action.

## Modules

| Module | Models | Checked by |
|---|---|---|
| `GatedExecution` | what the pipeline promises about executing plans (abstract) | as a property of `DiagnosisPipeline` |
| `DiagnosisPipeline` | `graph.py` and `main.py` of the supervisor | `MCDiagnosisPipeline`, four configurations |
| `DiagnosisPipeline_Proofs` | theorems about it | TLAPS |
| `HitlGateway` | `main.py` of the gateway | `MCHitlGateway`, three configurations |
| `HitlGateway_Proofs` | theorems about it | TLAPS |
| `SelfHealer` | `self_healer.py`: one execution with its observation window | `MCSelfHealer`, one configuration |
| `DefaultPlaybook` | the rollback playbook the arbitrator generates | gives `SelfHealer` its constants in `MCSelfHealer` |
| `SelfHealer_Proofs` | theorems about `SelfHealer` | TLAPS |
| `RiskPolicy` | the risk level of a plan (`arbitrator.py`) | through `PlanReview` |
| `SandboxRules` | the sandbox's simulation and rules (`simulator.py`, `_rule_based_verdict`) | through `PlanReview` |
| `ActionExecutor` | the handler an action name reaches (`executor.py`) | through `PlanReview` and `ActionService` |
| `ActionService` | plans on their way through the executor: the posting loop of `self_healer.py`, `main.py`, `executor.py` and `handlers/` of the executor | `MCActionService`, one configuration |
| `ActionService_Proofs` | theorems about it | TLAPS |
| `ExpertWorker` | one expert worker: its tools, `execute_tool`, `diagnose`, and the arbitrator's cross-validation call | itself, one configuration |
| `ExpertWorker_Proofs` | theorems about it | TLAPS |
| `PlanReview` | one plan's way through these three, with the fallbacks of `sandbox_client.py` | `MCPlanReview`, one configuration |
| `PlanReview_Proofs` | theorems about it | TLAPS |
| `Fractions` | exact fractions for the code's doubles | through `DynamicBaseline` |
| `DynamicBaseline` | Welford buckets, pooled baseline, thresholds, router (no state) | through `AnomalyStream` |
| `AnomalyStream` | the Flink job from Kafka to its incidents | through `IncidentLoop` |
| `AnomalyStream_Proofs` | theorems about it, its folds and `DynamicBaseline` | TLAPS |
| `IncidentIntake` | `WebhookSink.java`, `create_incident`, the runs as far as it looks at them | through `IncidentLoop` |
| `RagIndex` | the RAG service: collection and keyword index | through `IncidentLoop` |
| `Arbitration` | the experts' opinions, conflicts, vote and debate (no state) | through `IncidentLoop` |
| `IncidentLoop` | all of them composed: stream, sink, supervisor, experts, reviews, corpus | `MCIncidentLoop`, one configuration |
| `IncidentLoop_Proofs` | theorems about intake, RAG index and `Arbitration`, each on its own, and about the composition | TLAPS |

### DiagnosisPipeline

A *run* is one asyncio task in `_run_graph`. `pc[r]` is where it stands: created
but not scheduled (`launched`, `resuming`), in one of the nodes, between the two
halves of a node (`interrupting`, `observing`), or over (`suspended` at the
interrupt, `done`, `failed`, `lost` in a restart). `local[r]` is the graph state in
its memory, cut down to the six fields that decide what the graph does;
`ckpt[t]` is the latest checkpoint of a diagnosis, its state and the next node.

* One action per node. `node_hitl_interrupt` is split after the approval request
  and `node_execute_and_observe` after the actions were sent, because those effects
  stay when the rest of the node never happens.
* A superstep (`Advance`) applies the node's updates, chooses the next node and
  writes the checkpoint in one step. LangGraph writes it through the SQLite saver
  right after the node; a restart between the two is the same as one before the node
  returned, except for the effects of the node, which the split covers.
* `Command(resume=...)` (`StartResume`) loads the latest checkpoint and runs its next
  node from the top; the value serves the first superstep only.
* Plans are told apart only where the code does: none at all (no expert answered),
  without actions, with actions, replaced by the sandbox with or without the `order`
  that `SelfHealingAction` requires. Exceptions end a run and leave the checkpoint.
* The gateway is environment here: an approval may be decided, expire, be lost in a
  restart, and its single callback may arrive or have no effect at any time.
* `resume_diagnosis` is one step at the moment it reads the checkpoint; whatever other
  runs do between that and the new task's first step they do before `StartResume`.
* `OperatorResumes` is a call of `/resume` by hand. The endpoint looks at the status alone, so operators may resume a
  diagnosis that runs before its arbitration or was lost in a restart, as often as they like. Two runs before arbitration both arbitrate;
  `contended` remembers the diagnoses that were resumed that way, and `ArbitratedOnce` and `ResumedRunLeavesInterrupt` speak of the others.
  All other properties hold for the contended ones too. In such a diagnosis the plan that is executed may be one a human never saw: `ApprovalGate` asks for a
  decision delivered to the diagnosis, and the code does not keep more.

### HitlGateway

`approve` and `reject` are plain functions and run in FastAPI's thread pool; the scan runs
in APScheduler's thread. A thread can be switched out wherever it calls Python code,
which pydantic's attribute writes do. So the status check, the duplicate check, the append,
the read and the write of `current_approvals += 1`, the threshold, the status write and the
callback are steps of their own. `req[p].user` is the id a request sends: the person's
own, or, from the panel, one that is new with every click. `contended` is a history variable:
the approvals two threads ever worked on at a time. The scan snapshots the time at its start
and breaks off when the dict has grown.

### SelfHealer

The detail behind the pipeline's `execute_and_observe`: one call of `execute_and_watch`, one action per
await. `ExecuteAction` posts the next action of the plan and goes on whatever the answer; `Sleep` waits for
the next check of `range(0, window, interval)`, `CheckMetric` fetches one metric, evaluates it and counts,
`EndCheck` closes the check, `ExecuteRollback` and `WindowPassed` return. A fetch yields a value of the
tool, 0 for a text that is no number, or `_safe_fallback_value`. `violations[m]` is the part of
`observation_log` about metric m, cut down to whether each reading violated the threshold. The playbook is a
parameter; `DefaultPlaybook` holds the only one the code makes.

A restart in the middle of the call is `SupervisorRestarts` of the pipeline: the checkpoint stands before the node
and the call starts over when a resumption comes, so the call itself needs no crash.

### PlanReview

`DiagnosisPipeline` knows of a plan only whether it has actions and needs approval; `PlanReview` knows the
actions, and leaves out the runs and checkpoints around them. Three services judge an action by its name, each with a
table of its own: `_synthesize` (`RiskOfPlan`), the sandbox (`ACTION_EFFECTS`, `CROSS_ACTION_RISKS`, judged by
`RuleVerdict`) and the executor (`HANDLERS`, then the aliases in their order). The tables are in the modules as they are in
the code. A name is a model value with the substrings that matter (`FoldedWords` for the executor,
which folds case, `Words` for the arbitrator, which does not); `FoldedWordsAssumption` is the one fact about
substrings that is used. `Synthesize` takes any list of names a language model may suggest, a missing name included;
`VerifyByModel` any verdict and any alternatives; `FailOpen` is possible for every plan with actions. The simulation keeps the
three metrics with a danger threshold.

### ActionService

What `SelfHealer` sees of an action is an answer or a failure; `ActionService` is what happens to it. `at[r]` is where an
`execute_and_watch` stands, `statuses[r]` what its posts returned. A post goes to the `inbox` of the executor and from there to a
handler, whose statements to kubectl, Redis or MySQL are one step each (`Statement`) and may fail before or after their effect
(`StatementFails`) or never end. The client's timeout (`PostFails`) leaves the post where it is: the executor carries it out later and
its answer finds nobody, which `Answer` says. `execute_single` calls its handler without awaiting, so one handler is at work at a time (`StartHandler`).
Restarts of supervisor and executor come anywhere. `done[p]` counts the statements of a post that took effect; `config` is
the last post that wrote the one Redis setting, `server` whether the MySQL server follows a source and refuses writes. Plans may hold what the arbitrator or the
sandbox's model can put into them: parameters that fit, do not fit or are missing.

### ExpertWorker

`results` are what the tools of one diagnosis returned, in their order, told apart by origin: the real system, a mock service, data the tool made up, an
error. Which is possible depends on the deployment (`mock`, `urls`) and on what is `up` at the moment of the call. `connected` are the clients
of the middleware worker that connected when the module was imported: none is tried again, and the one MySQL `session` is never reopened. `BuildToolParams`
stands for `_build_tool_params`, of which only two parameters matter, those without which a tool fails. `validation` is what
`_cross_validate` gets from the same worker later. An evidence item is a result without the key `error`, made up or not.

### DynamicBaseline and AnomalyStream

Doubles are exact fractions in lowest terms and a sigma appears as its square, so that the pooled standard deviation can be compared with
its definition; rounding is not modelled, and nothing checked or proved speaks of it. The definition (`BaselineIsHistory`) goes through the values of each day in the order
they came, the model's buckets through their running count, mean and `m2`. The state is that of the keyed operators: `buckets` (the MapState of `DynamicBaselineFunction`),
`counts` (`DeJitterWindow`), `lastAnomaly`, `lastAlert`, `pendingIds` and `timers` (`AlertCrossValidator`), the open `windows`
and the `outbox` to the sink. `samples` and `alertsSeen` are history variables. A metric is one step from the source to
its window (`NormalMetric`, `UnconfirmedAnomaly`, `ConfirmedAnomaly`): the operators share no state and keyed streams keep the order of a
key. What interleaves are metrics, alerts, processing-time timers against `now`, and the watermark, which trails the latest event by five
seconds or less far. `IdsRead` is the comma-separated text of alert ids as the aggregation reads it back, with its glued id.

### IncidentIntake

`sink` is one call of `WebhookSink.invoke`; `requests[h]` an open `create_incident`, whose `todo` is what is left of the snapshot of
`_active_configs`, one `aget_state` per step; `progress[t]` the incident and the status in the checkpoint of a diagnosis. `runs[r]` is one task of
`_run_graph`: its diagnosis, where it is (`launched` and `resuming` before its first step, `answering` when it carries a decision into the
interrupt, `running`, then over) and the status in its memory, which every superstep writes over that of the checkpoint (`Writes`). `Resumes` looks
at the checkpoint alone, so any number of runs of a diagnosis may be at work, and the first to end takes the diagnosis out of `_active_configs` (`RunEnds`).
A request whose caller timed out goes on (`SinkTimesOut`). `missed` is a history variable with one entry for every way the check can fail to
see a diagnosis: no checkpoint yet, not readable, accepted while another request for the node was checking, crashed, lost in a restart, or one of several runs
that ended, finished or was turned down while another goes on.

### RagIndex

`store` is the ChromaDB collection; `built` and `appended` are the BM25 index as last rebuilt and what `add_document` added since.
Endpoints that write change both without an await, so each is one step; a call that ChromaDB answered with an error may have been carried out or not
(`UpsertTears`, `Seeds`, `RagStarts`). A retrieval searches without an await (`Candidates`) and then awaits the language model for up to 15 seconds
(`Reranked`): two steps, between which anything may happen (`Searches` and `Prefetches` in `IncidentLoop`). `Collections` is `_get_collection`, which deletes and creates the
collection when it can neither get nor create it. `torn` is a history variable: tickets written to the collection alone. Scores are left open, the fusion's one entry per
ticket is not. `/health` is a plain function, so it runs in a thread of the pool and may be the first call to open the collection (`HealthAsked`).
It is a step of its own between two steps of the event loop; that the two threads meet inside `_get_collection`, which takes a process whose
startup could not open the collection, is not modelled. Once the collection is open the health check changes nothing.

### Arbitration

An opinion is the set of keywords in its root cause, a confidence in tenths and a number of evidence items. The score, the caps, the
discounts, the lead of 20% and the stable sort are those of the code in integers. Cross-validation answers and the debate's judge are left open.

### IncidentLoop

The composition. The stream's outbox feeds the sink, the intake's diagnoses go through the graph's nodes, and reviews upsert into the corpus from which
later diagnoses are shown documents. `cases[t]` is what the checkpoint of a diagnosis holds besides its status (next node, documents, panel, decision), `drafts[r]` the
same in the memory of a run, with whether its review has filed the case. `searches[r]` is the retrieval a run waits for: what came out of the search, and which of its tickets were
in the index with entries of several ages, missed it, or were written since (`SearchesAge`). A RAG service that restarts drops the calls it was answering (`SearchesDie`).
`node_review` is two steps, `FilesCase` and `ReviewEnds`, because a crash between them keeps the upsert and loses the
checkpoint. `shared` is a history variable: diagnoses that were resumed while a run of theirs was at work. Each of their runs that reaches the review files a
case under an id of its own, so `OneTicketPerDiagnosis` speaks of the others. A behaviour has one of `Workloads`: the events that may come, which services answer, and a
budget for each kind of disturbance.

## Runs

| Run | Question | Bounds | Result |
|---|---|---|---|
| `pipeline_safety` | the safety and action properties, refinement of `GatedExecution` | 1 diagnosis, 3 runs, 1 approval, 1 restart, 2 runs on a contended diagnosis | holds, 1,039,817 states up to symmetry |
| `pipeline_liveness` | every run ends; a resumed run leaves the interrupt | 2 runs, 1 approval, 1 restart | holds |
| `rejected_plan_executed` | the executor acts after approval | 2 runs, 2 approvals | violated: a rejected plan is executed |
| `restart_does_not_resume` | diagnoses resume after a restart | 2 runs, 1 restart | violated: nothing resumes them |
| `gateway_safety` | votes, sequential decisions, final decisions | 1 approval, 3 requests | holds, 402,653 states up to symmetry |
| `gateway_liveness` | overdue approvals do not stay pending | 2 approvals, 1 request, 1 restart | holds |
| `one_human_approves_twice` | high risk takes two people | 1 approval, 2 requests, 1 person | violated: two clicks of one person suffice |
| `self_healer` | counters, rollback, whole window, return | the generated playbook, its windows of 60, 90 and 120 s, up to 2 actions | holds, 57,419 states |
| `plan_review` | what reaches a high-risk handler undecided; what the rules stop | 8 names, up to 3 actions, 1 alternative, 8 alert situations | holds, 26,423 states |
| `incident_loop` | stream, intake, corpus, reviews and votes, composed | 12 workloads, 2 requests, 2 diagnoses, 3 runs, 3 appended entries | holds, 538,981 states up to symmetry |
| `action_service` | successes, failovers and reported configurations | 2 executions, 5 plans of up to 2 actions | holds, 379,128 states up to symmetry |
| `expert_worker` | how much evidence a diagnosis can have | all four kinds, both deployments | holds, 199,099 states |

Diagnoses share nothing but `_active_configs` and the gauge, so one diagnosis is enough for the
properties here; the supervisor serves the rest independently. Three runs let
two resumed runs work on what a third left. One restart separates what was
written before from what is done after; a second adds nothing the first does not. Three requests
are the least for a lost vote on an approval that needs two. Two approvals let the scan meet a new
entry. `CHECK_DEADLOCK FALSE` everywhere: the bounded systems come to rest when no runs or
requests are left. `Runs`, `Approvals`, `Requests`, `MaxRestarts`, `MaxContenders`, `MaxActions` and `MaxAlternatives` are the only bounds. `MaxContenders` keeps a contended diagnosis to
two runs, the least for a second arbitration; with three on it the run would not end in time, and the proofs need no such bound.
The names of `plan_review` are one for every way through the three tables: known to all, to the executor by an alias
only, to none, with two aliases at once, of medium, high and critical risk; its alerted values lie on both sides of the thresholds
after a restart or a scaling. Three actions are the least for more than two degrading metrics.
The self-healer runs with the real windows and interval; its `Values` lie at and just above the two thresholds
(3 and 5), which is all that `_evaluate_threshold` tells apart, and its actions do not influence each other.
Two executions are the least for posts of two clients in the executor, and a timed-out post makes a third party of any run; the plans of `action_service` meet every
handler with statements, with and without the parameters it needs, a simulated handler, an alias and an unknown name. `Agents` of `expert_worker` are the four
there are; a worker makes one diagnosis, since what survives one, its clients, changes in any state.

The workloads of `incident_loop` keep apart what does not influence each other, and each is the least in which its case happens:
six metrics over three days for the pooled baseline (two days are a cold start's end, the third is judged); four error metrics and
two alerts, within and beyond a minute, with a clock that passes the timers; five errors on both sides of a window's end; two incidents of a
node with one piece of trouble (an attempt or an answer lost, an unreadable checkpoint), one crash, one restart or one resumption, which comes
beside the run at work or to a paused one; incidents of two nodes with the corpus, so that the second is shown the first one's case; one incident with all
experts; one with the corpus, a resumption and a crash or a restart, so that a review is resumed or two runs of a diagnosis each file a case; one with two writes of
other clients and a restart, which meet its retrieval before, in the middle and after.
Two requests and two diagnoses are the least for a race of the duplicate check, three runs for two of one diagnosis beside another diagnosis's,
three appended entries for an updated ticket beside a review.
`MCClock` bounds processing time, `MaxEntries` the appended entries, the budgets everything that comes from outside.

**Fairness.** `FairSpec` of the pipeline is weak fairness of each run's steps: asyncio schedules
every ready task, and every await in a node is an HTTP call with a timeout or a sleep. Nothing is
assumed of humans, operators, the gateway or the services' answers. `FairSpec` of the gateway is weak
fairness of each request's thread and of the scan, which APScheduler starts every 30 seconds.
The self-healer's is weak fairness of its
steps: posts and fetches have timeouts, sleeps end.
A bounded number of creations is what lets the scan get through; a creation
during every single scan could starve the entries at the end of the dict.

### What the violations show

1. *Rejected plans are executed.* `node_sandbox_verify` sets `rejected`, but
   `route_after_sandbox_verify` only tests for `blocked_by_sandbox`.
2. *No automatic resumption.* `lifespan` builds the graph and looks for no unfinished checkpoint.
3. *One person, two approvals.* The duplicate check compares ids the panel makes up per click;
   and even with fixed ids two concurrent requests of one user both pass it.

In the model as the code has it, without a run of their own:

* *Two runs of one diagnosis.* `/resume` accepts a diagnosis whose status is `running` (`main.py:232`) and creates a task beside the one at work. Before the
  arbitration that gives two arbitrations, and a decision may meet a plan it was not made for; each run that reaches the review files its own ticket
  (`review_extractor.py:59`); the first to end drops the diagnosis's config (`main.py:199`), so the next incident of the node is accepted although the other
  run goes on.
* *A second approval per resume.* The comment at `graph.py:143` promises reuse of the approval id, but the
  id is returned only after `interrupt()`; the checkpoint does not have it when the node runs again.
* *Self-healer.* The generated playbook has no `rollback_commands`, so a triggered rollback posts nothing. When all actions
  fail the window is watched all the same, against the comment at `self_healer.py:75`; the fallback 50.0 for a
  latency, commented as healthy, is above the threshold of 3.0 that a relative increase of 200% on
  the assumed baseline 1.0 gives, so two failed fetches in a row trigger the rollback.
* *Executor.* `execute_and_watch` enters the window when every post was answered or timed out; an action that timed out may still be
  executed during the window or after it. Plans built by the arbitrator have no parameters (`arbitrator.py:393`), so the executor refuses every
  `redis_config_set` among them. A statement of pymysql without a read timeout can block the event loop and all later posts for good.
* *Expert workers.* Data a tool made up counts as evidence and, for the application worker, as cross-validation with full weight, against the
  docstring at `arbitrator.py:160`. `docker-compose.yml:375` gives that worker the mock of Kubernetes, which has no route for any of its tools, so
  that there it has no evidence at all, where `app_tools.py:9` promises synthetic data. `sample_kafka_topic` and `check_dns` fail in every
  diagnosis, as nothing fills in a topic or a hostname.

* *Names.* A name like `db_failover` is at low risk for the arbitrator and harmless for the
sandbox, and reaches `mysql_failover`; the sandbox's alternatives replace an approved plan without being classified, verified or
approved again (`graph.py:220` says "if provided and safer", and only the first is looked at); one operational name
lowers the whole plan although the comment at `arbitrator.py:378` speaks of purely operational ones; `redis_config_set` is low for
the arbitrator and medium for the executor; the rules block a high-risk plan that people have approved; the rules' `needs_modification`
offers no alternative, so the plan goes on unchanged.

* *Stream.* The de-jitter counter is never reset: normal metrics, which would do it (`DeJitterWindow.java:23`), leave at the router, so from
  the third anomaly on every single one counts as persistent. An alert cannot bypass the de-jitter, as `AlertCrossValidator.java:29`
  says, since only confirmed anomalies reach the validator. An anomaly is sent again by every alert that confirms it, is counted each time,
  and may go into another window, whose incident then has the same id. The aggregation reads the id `a1|alerts:a1` from
  the text it is given. A metric that never varied is never flagged: its variance of 0 looks like a cold start.
* *Intake.* A diagnosis without a first checkpoint is purged by the next incident's check. `rejected` is not among the statuses the check looks
  for. A diagnosis whose approval is lost stays active and blocks its node's incidents until a restart. The sink counts the 429 of
  a duplicate as a failed attempt and drops the incident after three.
* *RAG.* Vector results carry no `ticket_id` (`chroma_client.py:112`) and the fusion skips them (`rrf.py:39`), so the hybrid search is a keyword
  search. An updated ticket keeps its old entry in the index, and which one is shown is the ranking's choice. A failed rebuild is
  not tried again on the first query, against the log at `main.py:103`. A restart seeds over updated seed tickets. A failing language
  model leaves no documents at all, and an answering one may name a document twice.
* *Reviews.* A diagnosis that ended in a rollback becomes knowledge as well; its `fix_success` is only looked at with a filter nobody sets.
  A crash between upsert and checkpoint loses `review`'s result but not the case: the status already is one that no resumption accepts.
* *Arbitration.* The debate is between the two of highest confidence, who need not be in conflict, and only the text of the root cause follows it, not the plan.
  The keyword `io` is found in `application`, `config` in `configured`, so the mocks' sentences agree with many. The vote
  marks its own winner as disagreeing if anybody conflicts with it.

## Proofs

Every safety invariant and action property of the passing runs is proved. The types of `SelfHealer`, `ActionService`, `ExpertWorker`
and of the parts of `IncidentLoop` are invariants of no run of their own: they are proved here, the last ones as conjuncts of `LoopTypeOK`.

`DiagnosisPipeline_Proofs` proves for any number of diagnoses, runs, approvals and restarts, from
the assumptions that `NoTrace`, `NoApproval` are no members of `Traces`, `Approvals` and that `MaxRestarts`
is a natural number:

* `TypeCorrect`: the type invariant;
* `ApprovalGateHolds`, `ExecutedWasVerifiedHolds`, `StatusMatches`, `DecisionDurable`: the
  safety invariants of `pipeline_safety`;
* `ClosedHolds`: the action property that a closed diagnosis stays closed;
* `ArbitratedOnceHolds`: the action property that a diagnosis that is not contended is arbitrated once;
* `Refinement`: `DiagnosisPipeline` implements `GatedExecution`.

None of the safety invariants is inductive: what a run executes depends on the checkpoint it was resumed
from, which another run wrote. The inductive invariant `IInv` therefore says what holds of a graph state
at each node (`StateAt`: before arbitration the initial state; at the interrupt a plan that waits; past it a
decision that was delivered; before execution a verdict that lets it pass; the status that belongs to
the node), and says it of every working run and every checkpoint alike. `RunMoves`
shows that a step of one run keeps it if that run and its checkpoint are in order, `AdvanceKeeps` does so for a
superstep, `LaunchKeeps` for a launch, where the point is that delivered decisions are never
withdrawn; `RunStepKeeps` and `NextKeeps` go through the actions. The refinement uses the same
invariant: `Cleared` maps a graph state to its clearance, and only the arbitration, the
return of the interrupt and the loading of a checkpoint change it.

That a diagnosis is arbitrated once needs to know that no run with an old state in its memory is left to write it. `Once` says so of a diagnosis that is not
contended: a run before its arbitration is the only one at work on it (`Alone`) and the checkpoint has no plan yet (`RunFits`), and so is a run about to load such a checkpoint;
any other run with a plan agrees with the checkpoint on what arbitration decided (`Agree`). A resumption that would break `Alone` is what makes a diagnosis contended. After a restart
nobody is at work, so the diagnoses it interrupted may be resumed before their arbitration and stay in the theorem. `NodesAgree` shows that no later node touches what `Agree`
speaks of, so a superstep of any run, also one with a state older than the checkpoint, writes nothing else (`RunWrites`).

`HitlGateway_Proofs` proves for any approvals, requests, people and restarts, from the assumptions that approvals and requests are finite,
people's ids are no request ids, and `MaxRestarts` is a natural number:

* `TypeCorrect`: the types, with `current_approvals` and the counts threads have read bounded by the number of requests;
* `EnoughVotesHold`: the supervisor is told of an approval only with enough votes recorded in it;
* `SequentialDecisionHolds`: an approval no two threads were ever at work on at a time is counted, decided and reported once;
* `DecisionFinalHolds`: the action property that such an approval, once decided or expired, changes no more.

The count is read and written in two steps without a lock, so it may be anything up to the number of votes, and a thread may
write a number older than the one that stands there. `VotesCounted` bounds both by the votes whose increment is over
(`Stored`): a thread that reads sees at most these, is not among them, and joins them when it writes. `PassedWithEnough` carries this from the threshold to
the callback, over a restart in between, which forgets the approval but not the thread. The second half is a proof in the manner of Owicki and
Gries with one thread at a time: `Midway` is an assertion for every point between the status check and the callback, `Settled` what holds
between requests, and `Alone` says that a thread on an approval never contended is by itself, the scan included.
`OwnStep` shows each point's assertion from the one before, `AloneFrame` that steps elsewhere keep them. `Alone` allows a
thread that entered before a restart to be at its check of an approval that is gone. Which threads overlapped is what `contended` remembers, and
nothing is claimed of those: with them the run `one_human_approves_twice` and lost votes are possible.

`SelfHealer_Proofs` proves for any playbook whose metrics have distinct names, any window, interval, values
and length of plan:

* `TypeCorrect`: the types, with every counter bounded by `consecutive_violations`;
* `StreaksCounted`: a counter is the length of the run of violations its readings end with;
* `FirstBreachRollsBack`: the first breach in the readings triggers the rollback, and nothing else does;
* `SuccessWatchedAll`: success means a whole window, and no check more;
* `EveryStepCounts`: every step leaves a call fewer steps to take.

The last is the part of `Returns` that does not need fairness: `StepsLeft` counts the posts to come, a round of readings for every second of the
window that is left, the rest of the check under way and the rollback, and a step that is not a stutter makes it smaller. It rests on an
interval above 0 and on a check that reads each metric once. That a call which has not returned can take a step is left to TLC.

The second and third speak of the readings, the code of counters. `StreakStep` shows that counting keeps the
streak, `BreachNow` that with every counter below its need a reading completes a breach exactly when its
counter reaches the need, `BreachBefore` that earlier readings are not touched. The inductive invariant
adds `BelowThreshold`, the fit of position and result (`Position`), and that the checks a metric has seen
multiplied by the interval are the time elapsed (`Timing`), from which the length of the window follows.

`PlanReview_Proofs` proves for any names with any aliases, any alerted values and any length of plan:

* `TypeCorrect`;
* `OnlyFailoverUndecided`: the only high-risk handler a plan left alone reaches undecided is an aliased `mysql_failover`;
* `RulesStop`: what is sent on the word of the rules is not named like a high-risk handler;
* `EveryActionJudged`: the rules judge a plan no better than any one of its actions.

The first two compare the tables: every high-risk handler is among the names the policy calls high (`HighNames`) and
the sandbox blocks (`HighIsRisky`), and a name with the PLC's alias `plc_rollback` meets `rollback` first (`AliasedHandler`). The inductive
invariant ties the risk to the names in the plan (`RiskFits`), the absence of a decision to the risk (`DecisionFits`), and the
verdict to the plan it was made about (`VerdictFits`). For the last, `RisksOfOne` shows that what an action alone puts at risk is at risk in every plan
with it. The rules also modify a plan with more than two degrading metrics; the only effect in the table that degrades is the processor load of
scaling (`DegradingEffect`), so one action never has that many (`OneActionDegradesOne`). `FoldedWordsAssumption`, `NamesAssumption` and `CurrentsAssumption` are what
they rest on.

`AnomalyStream_Proofs` proves of the stream, for any metrics, alerts and clock:

* `StreamTypeCorrect`: the types;
* `ValidationIsReal`: an anomaly that is marked validated had an alert of its node within a minute of event time;
* `IdsExpire`: pending alert ids have a timer to come;
* `JitterStaysOut`: what is aggregated had three anomalies of its key;
* `BaselineMatchesHistory`: the baseline made from the buckets is the one the values of the days before define;
* `SplitWindowsMerge`: a window's accumulator does not depend on how its elements were split between partial ones, and names every alert they carry.

An element enters a window with what the validator remembers of its node, so `StreamInv` says of the stored anomaly and
the stored alert what the properties say of the elements (`Remembered`). The thresholds play no part: the theorems hold whatever
is judged an anomaly.

The last two are about folds over sequences of any length. A fold unfolds to a recursive function that `CHOOSE` finds. That there is one is shown by induction
over the size of its domain (`FoldExists`, `RunExists`; `IterEnds` for the fold over a sequence), from which follows what the fold does to one more element
(`FoldedAppend`, `AnyFoldExists`). The induction principles `Inductive` and `InductiveSeq` take a set where the library's take an operator, and the step of a fold is a function.

* Windows: `PartsMerge` is by induction over the second part. Its step, `MergeAdd`, says that an element makes the same difference whether it is added before or after a merge: field by
  field, that earliest, latest, greatest severity, greatest deviation with the alert and group that belong to it, and adding what is new are associative. `AttachedAreNamed` says that the ids of
  an accumulator include those of its elements.
* Baselines: equal fractions are equal pairs (`FracsEqual`, by Euclid's algorithm on the absolute values), so an equation between fractions can be shown by multiplying out. `WelfordIsExact` says that one more
  value takes the count, mean and `m2` of some values to those of all, `ShiftOfStats` that `m2` and the shift of a day's mean make its squared distances from any center, `BaselineOfStats` pools the days.

`Accounted` is inductive with the types: every bucket is the statistics of its samples, and every deviation on its way is a fraction above or equal to 0 with a positive
denominator, without which comparing two is no order and the greatest is not associative. From the constants the proofs need that `NoEvent` is none of the events and no number (`StreamAssumption`).

`IncidentLoop_Proofs` begins with what the composition builds on besides the stream. Of the intake, for any number of requests, diagnoses and runs, from `NoRequest \notin Requests` and `NoTrace \notin Traces`:

* `IntakeTypeCorrect`: the types and the limit of three attempts;
* `DuplicateCheckIsSound`: two unfinished diagnoses of a node mean that one of them is in `missed`;
* `NoStaleConfig`: a diagnosis in `_active_configs` has a run at work or waits for its approval.

The second needs to know what a request has still to look at. A diagnosis is `Live` while its status is one the check looks for or a run of it is at work.
`Registered` says that a live diagnosis that is not missed is in
`_active_configs`; `StillToSee` that a request in the middle of its check has each such diagnosis of its node still on its list; `OneLiveBut` that of two live diagnoses of a node
one is missed. An acceptance finds the list empty, hence no other. A step of a run that goes on (`RunStep`) makes nothing live that was not, since only what is live
moves (`AtWorkIsLive`). `Held` is what keeps a diagnosis in `_active_configs`, for the third: a checkpoint that waits for the approval, or a run at work
that will not end in a pause.
The invariant `IntakeInv` is kept by a step of the sink with any incident (`SinkMoves`), not only with those of the constant `Incidents`:
that is what lets the composition feed the sink from the stream.

Of the RAG index, for any tickets, contents and seeds:

* `RagTypeCorrect`: the types;
* `SearchIsFaithful`: the index follows the collection.

What is found under a ticket depends on the last entry appended for it. `MaxIndex` gives that entry from the minimum of a well-founded relation
(`WFMin`), which takes no operator as a parameter. `EmptyUntilOpened` is the strengthening: before the process has opened the
collection the index is empty, so deleting the collection takes nothing from under it.

Of the arbitration, which has no state, for every panel the experts can make:

* `NobodyOutvoted`: no weighted vote is won while another expert has at least the winner's confidence, evidence and validation.

`ScoreGrows`: caps, discounts and truncating division keep the order of what they are given. `FirstIsLargest`: the stable sort puts a largest score first,
by the minimum of the well-founded order on score and place (`LowestOf`). `LeadIsStrict`: a lead of 20% of a score that is not 0 is a
lead, and with a score of 0 there is none to have.

Of the composition it proves, for any number of requests, diagnoses and runs and any events, corpus, findings and workloads:

* `LoopImplementsCorpus`: the composition implements `RagSpec`, from which `SearchIsFaithfulInLoop` follows;
* `DuplicateCheckInLoop`, `StreamInLoop`, `LoopTypeCorrect`: the parts' theorems, of the composition;
* `KnowledgeIsOfOutcomes`: a case in the collection was executed and observed by a run of its diagnosis, and where runs did not overlap the checkpoint keeps saying so;
* `FiledOnce`: one ticket at most for a diagnosis whose runs did not overlap;
* `VotesAreFair`, `ShownCasesAreCurrent`: the vote in every checkpoint and memory, and what every run is shown.

`StreamSide`, `IntakeSide` and `CorpusSide` say what a step of the loop is to each part: a step of its own, or one that leaves its variables
alone. `LoopInv` is the invariants of the parts and what ties them together. `Fits` says of a checkpoint (`CheckpointOk`) and of a run's memory (`RunOk`) alike that the next
node fits the status and that the panel are experts that were called, none of them outvoted. `OutcomeOk`: a diagnosis in the collection was executed by one of its runs. `AloneOk` is
the part about a diagnosis that is not shared: at most one run is at work, its memory is what the checkpoint holds, and a case in the collection stands under a final
status, with its review over or about to be checkpointed. The crash between upsert and checkpoint is why it speaks of the status and not of the next node. It is an
invariant for the reason that a resumption beside a run at work makes the diagnosis shared, and one of a diagnosis nobody is at work on loads the checkpoint. `SearchOk` says of a
retrieval under way that what it found of a ticket is what is stored, unless the ticket is noted as stale; `CorpusSearchInv`, `FileSearchInv` and `RunSearchInv` carry it over the writes in between. The
proofs assume that no seed ticket has the content of a diagnosis and that `NoDecision` is no decision (`LoopAssumption`).

`ActionService_Proofs` proves for any names with any aliases, any plans, any number of executions and restarts:

* `ServiceTypeCorrect`: the types; no handler goes past its last statement, no execution past its plan;
* `SuccessHolds`: a success took effect with every statement;
* `NoSplitBrainHolds`: no server takes writes and follows a source;
* `ReportIsTrueHolds`: nobody writes the setting between the statements of `redis_config_set`.

A post is named by its execution and its place in the plan, and a late one must not be taken for its successor. `Placed` says that a post is in one place, not
yet made, in the inbox, with the one handler, or over, and that `done` counts the statements its handler is past; `Succeeded` that a post
whose execution was told of a success is in neither, so nothing more happens to it, and is complete. `SamePost` ties a place in the plan to one post. For the failover,
`CutOffFirst`: a promotion about to open the server has cut it off, whatever ran in between, because nothing attaches a server again and no other handler is at work.
`StatementsOf` is the table of handlers, `KeptStatements` that the statements of a post made are those of its plan for ever, which `PlansFit` needs: only an
execution that has not begun gets a plan. `RunsInv`, `StartInv`, `StatementInv` and `EndInv` go through the actions.

`ExpertWorker_Proofs` proves for any set of agent types, however systems come and go and workers restart:

* `WorkerTypeCorrect`: the types; a live MySQL session belongs to a client that connected;
* `NeverMixedHolds`: mock, real and made-up data do not mix in a diagnosis and its cross-validation;
* `EvidenceHolds`: how much evidence each kind of worker can have in each deployment.

A bound on a count is not inductive. `Fits` says of each call what its result can be in any state of the systems (`Possible`), which no outage changes once the call
is over; `EvidencePlaces` turns that into the places in the list of tools where evidence can stand, and `AtMost` into the number. For the equality
in the application worker's case the invariant has that an answered diagnosis made all its calls.

Every invariant and action property of the passing runs is stated by a theorem. Only model-checked are the liveness properties (`EveryRunEnds`, `ResumedRunLeavesInterrupt`,
`DueIsResolved`, `Returns`), because liveness under fairness and `ENABLED` are out of the prover's reach, and the runs that show a violation. The library's induction theorems take an
operator as a parameter, which the provers cannot instantiate; where a proof needs induction it uses a set for the predicate. Modules with `RECURSIVE` operators cannot be proved about, so the
modules to be proved about have none.

## Not modelled

* Flink's checkpoints and recovery, and the eight days' TTL of the buckets, which no baseline of seven days reaches.
* Scores of the retrieval, embeddings, filters: which entries a query finds is left open.
* What the tools of the expert workers return beyond its origin, and `mcp_tools.py`, which nothing imports.
* The executor's endpoint for whole plans, `/api/v1/execute`, which no service calls, and the made-up outputs of its simulated handlers.
* The WebSocket push: `_broadcast` from a pool thread raises in `asyncio.create_task` and takes every client
  off the list. No decision depends on it.
* Texts, timings, metrics other than the gauge, authentication, notifications, the scenarios of the mock services, generators.
* The wording of cases and of the experts' conversations: a case is one content per diagnosis, an opinion its keywords and numbers.
* Incidents the sink drops: it keeps nothing of them, and nothing in the code promises their delivery.

## Plan

1. `HitlLoop`: the pipeline composed with the gateway, to show that each decision of an approval
   reaches the diagnosis at most once per callback.
2. Proofs: that the intake, as part of the loop, implements a specification of the duplicate check alone.
3. `ActionService` below `SelfHealer`: that the posting loop implements the healer's actions, with rollbacks among the posts.

---- MODULE DiagnosisPipeline ----
(***************************************************************************)
(* The agent-supervisor: the seven-node diagnosis graph, its SQLite        *)
(* checkpoints, the asyncio tasks that run it, and the endpoints that      *)
(* start and resume it (agent-supervisor/app/graph.py and main.py).        *)
(*                                                                         *)
(* A run is one asyncio task executing _run_graph.  Several runs may work  *)
(* on one diagnosis at a time: nothing in the code excludes it.  A run     *)
(* keeps the graph state in memory and writes it to the checkpoint of its  *)
(* diagnosis whenever a node returns.  Node bodies with an effect outside  *)
(* the process before they return (the approval request, the execution of  *)
(* the plan) are split at that effect, because a restart, another run or a *)
(* callback may come in between.                                           *)
(*                                                                         *)
(* The HITL gateway appears only as the environment the supervisor sees:   *)
(* approvals that get decided, expire or are lost, and the calls to        *)
(* /resume they cause.  HitlGateway models its inside.  Diagnoses are for  *)
(* distinct nodes, so that no incident is refused as a duplicate.          *)
(***************************************************************************)
EXTENDS Integers, FiniteSets

CONSTANTS Traces,      \* diagnoses (supervisor_trace_id)
          Runs,        \* graph runs; bounds how many are ever launched
          Approvals,   \* approval ids; bounds how many are ever created
          NoTrace,     \* the trace of a run or an approval not in use
          NoApproval,  \* the empty approval id
          MaxRestarts, \* bounds the restarts of the supervisor
          MaxContenders \* bounds the runs of a diagnosis resumed beside a run
                        \* still before arbitration

ASSUME NoTraceAssumption == NoTrace \notin Traces
ASSUME NoApprovalAssumption == NoApproval \notin Approvals
ASSUME MaxRestartsAssumption == MaxRestarts \in Nat
ASSUME MaxContendersAssumption == MaxContenders \in Nat

VARIABLES
    ckpt,          \* trace -> latest checkpoint: graph state and next node
    pc,            \* run -> where its task stands
    owner,         \* run -> the trace it works on
    local,         \* run -> the graph state in its memory
    given,         \* run -> the decision it was launched with
    resume,        \* run -> the resume value its first superstep can read
    ticket,        \* run -> the id its approval request returned, while it waits
    executed,      \* runs that have sent plan actions to the executor
    activeConfigs, \* main.py's _active_configs
    activeGauge,   \* the ACTIVE_DIAGNOSES gauge
    approvals,     \* approval id -> what the gateway holds of it
    contended,     \* traces resumed before arbitration beside a run still at work
    restarts       \* how often the supervisor was restarted

runVars == <<pc, owner, local, given, resume, ticket, executed>>
taskVars == <<activeConfigs, activeGauge>>
vars == <<ckpt, pc, owner, local, given, resume, ticket, executed,
          activeConfigs, activeGauge, approvals, contended, restarts>>

----------------------------------------------------------------------------
Decisions == {"approved", "rejected"}
Nodes == {"rag_prefetch", "dispatch_experts", "arbitrate", "hitl_interrupt",
          "sandbox_verify", "execute_and_observe", "review"}
\* "failed" is not among them: self_healer's only return of it is unreachable.
Statuses == {"running", "awaiting_approval", "rejected", "blocked_by_sandbox",
             "success", "rollback_triggered"}

\* What the rest of the graph tells apart in a self-healing plan: no plan at
\* all (no expert answered), a plan without actions (the LLM is unavailable),
\* actions, and the sandbox's replacement actions with or without the "order"
\* that SelfHealingAction requires.
Plans == {"undetermined", "no_plan", "empty", "actions", "replaced", "unordered"}
Verdicts == {"none", "skipped", "safe", "needs_modification", "blocked"}

\* The fields of DiagnosisState that decide what the graph does.
DiagnosisState ==
    [execution_status : Statuses, requires_approval : BOOLEAN, plan : Plans,
     approval_id : Approvals \cup {NoApproval},
     approval_status : Decisions \cup {"none"}, verdict : Verdicts]

InitialState ==
    [execution_status |-> "running", requires_approval |-> FALSE,
     plan |-> "undetermined", approval_id |-> NoApproval,
     approval_status |-> "none", verdict |-> "none"]

Checkpoints == [next : Nodes \cup {"none", "end"}, state : DiagnosisState]
NoCheckpoint == [next |-> "none", state |-> InitialState]

\* A run's task: created and not yet scheduled (launched, resuming), in a
\* node, between the two halves of a node (interrupting, observing), or over.
Over == {"idle", "suspended", "done", "failed", "lost"}
Points == Nodes \cup Over \cup {"launched", "resuming", "interrupting", "observing"}
Live(r) == pc[r] \notin Over

ApprovalRecords ==
    [trace : Traces \cup {NoTrace},
     status : {"free", "pending", "approved", "rejected", "expired", "lost"},
     calling : BOOLEAN]

TypeOK ==
    /\ ckpt \in [Traces -> Checkpoints]
    /\ pc \in [Runs -> Points]
    /\ owner \in [Runs -> Traces \cup {NoTrace}]
    /\ local \in [Runs -> DiagnosisState]
    /\ given \in [Runs -> Decisions \cup {"none"}]
    /\ resume \in [Runs -> Decisions \cup {"none"}]
    /\ ticket \in [Runs -> Approvals \cup {NoApproval}]
    /\ executed \subseteq Runs
    /\ activeConfigs \subseteq Traces
    /\ activeGauge \in Int
    /\ approvals \in [Approvals -> ApprovalRecords]
    /\ contended \subseteq Traces
    /\ restarts \in 0 .. MaxRestarts

Init ==
    /\ ckpt = [t \in Traces |-> NoCheckpoint]
    /\ pc = [r \in Runs |-> "idle"]
    /\ owner = [r \in Runs |-> NoTrace]
    /\ local = [r \in Runs |-> InitialState]
    /\ given = [r \in Runs |-> "none"]
    /\ resume = [r \in Runs |-> "none"]
    /\ ticket = [r \in Runs |-> NoApproval]
    /\ executed = {}
    /\ activeConfigs = {}
    /\ activeGauge = 0
    /\ approvals = [a \in Approvals |->
                       [trace |-> NoTrace, status |-> "free", calling |-> FALSE]]
    /\ contended = {}
    /\ restarts = 0

----------------------------------------------------------------------------
(* Starting runs: POST /incident and POST /incident/{trace_id}/resume      *)

\* _active_configs entries create_incident drops on its way: those without a
\* checkpoint yet and those whose diagnosis has ended.
Purged ==
    {t \in activeConfigs :
        \/ ckpt[t].next = "none"
        \/ ckpt[t].state.execution_status \in {"success", "rollback_triggered"}}

\* create_incident: a new trace, its config kept, a task created to run it.
CreateIncident(t, r) ==
    /\ \A q \in Runs : owner[q] # t
    /\ pc[r] = "idle"
    /\ pc' = [pc EXCEPT ![r] = "launched"]
    /\ owner' = [owner EXCEPT ![r] = t]
    /\ activeConfigs' = (activeConfigs \ Purged) \cup {t}
    /\ activeGauge' = activeGauge + 1
    /\ UNCHANGED <<ckpt, local, given, resume, ticket, executed, approvals, contended, restarts>>

\* Mutant: resume_diagnosis without its 409.
ResumeOfAnyKnown(t) == ckpt[t].next # "none"

\* resume_diagnosis refuses an unknown trace (404) and an ended one (409).
ResumeAccepted(t) ==
    /\ ckpt[t].next # "none"
    /\ ckpt[t].state.execution_status \in {"running", "awaiting_approval"}

\* A run resumed now on t stands before arbitration, and another is at work.
Contends(t) ==
    /\ ckpt[t].state.plan = "undetermined"
    /\ \E q \in Runs : owner[q] = t /\ Live(q)

\* resume_diagnosis: a task is created to run Command(resume=decision), whether
\* or not another run is at work on the diagnosis.  The step stands for the
\* moment aget_state reads the checkpoint; what other runs do between that and
\* the task's first step they do before StartResume.
Resume(t, d, r) ==
    /\ ResumeAccepted(t)
    /\ contended' = IF Contends(t) THEN contended \cup {t} ELSE contended
    /\ t \in contended' => Cardinality({q \in Runs : owner[q] = t}) < MaxContenders
    /\ pc[r] = "idle"
    /\ pc' = [pc EXCEPT ![r] = "resuming"]
    /\ owner' = [owner EXCEPT ![r] = t]
    /\ given' = [given EXCEPT ![r] = d]
    /\ resume' = [resume EXCEPT ![r] = d]
    /\ activeConfigs' = activeConfigs \cup {t}
    /\ UNCHANGED <<ckpt, local, ticket, executed, activeGauge, restarts>>

----------------------------------------------------------------------------
(* The graph: LangGraph's supersteps and the nodes                         *)

\* A superstep ends: the node's updates are applied, the next node chosen,
\* and both written to the checkpoint.  The resume value was for this
\* superstep only.
Advance(r, node, s) ==
    /\ local' = [local EXCEPT ![r] = s]
    /\ pc' = [pc EXCEPT ![r] = node]
    /\ ckpt' = [ckpt EXCEPT ![owner[r]] = [next |-> node, state |-> s]]
    /\ resume' = [resume EXCEPT ![r] = "none"]
    /\ UNCHANGED <<owner, given>>

\* _run_graph after an exception and after a result that is not
\* "awaiting_approval": the gauge goes down and the config is dropped.
TaskEnds(r) ==
    /\ activeGauge' = activeGauge - 1
    /\ activeConfigs' = activeConfigs \ {owner[r]}

\* A node raises: the checkpoint stays what it was before the node.
RunFails(r) ==
    /\ pc' = [pc EXCEPT ![r] = "failed"]
    /\ TaskEnds(r)
    /\ UNCHANGED <<ckpt, owner, local, given, resume, ticket, executed, approvals, contended, restarts>>

\* ainvoke(initial_state): the input is checkpointed, then the entry point.
StartGraph(r) ==
    /\ pc[r] = "launched"
    /\ Advance(r, "rag_prefetch", InitialState)
    /\ UNCHANGED <<ticket, executed, taskVars, approvals, contended, restarts>>

\* Mutant: the resume value is gone before the pending node runs again.
StartResumeEmptyHanded(r) ==
    /\ pc[r] = "resuming"
    /\ ckpt[owner[r]].next # "end"
    /\ local' = [local EXCEPT ![r] = ckpt[owner[r]].state]
    /\ pc' = [pc EXCEPT ![r] = ckpt[owner[r]].next]
    /\ resume' = [resume EXCEPT ![r] = "none"]
    /\ UNCHANGED <<ckpt, owner, given, ticket, executed, taskVars, approvals, contended, restarts>>

\* Mutant: a resumed graph starts over at its entry point.
StartResumeFromTop(r) ==
    /\ pc[r] = "resuming"
    /\ Advance(r, "rag_prefetch", InitialState)
    /\ UNCHANGED <<ticket, executed, taskVars, approvals, contended, restarts>>

\* ainvoke(Command(resume=...)): the latest checkpoint is loaded and its next
\* node run from the top.  A graph that has reached END runs nothing, and
\* _run_graph does its bookkeeping for the old result again.
StartResume(r) ==
    LET latest == ckpt[owner[r]] IN
    /\ pc[r] = "resuming"
    /\ local' = [local EXCEPT ![r] = latest.state]
    /\ \/ /\ latest.next # "end"
          /\ pc' = [pc EXCEPT ![r] = latest.next]
          /\ UNCHANGED taskVars
       \/ /\ latest.next = "end"
          /\ pc' = [pc EXCEPT ![r] = "done"]
          /\ TaskEnds(r)
    /\ UNCHANGED <<ckpt, owner, given, resume, ticket, executed, approvals, contended, restarts>>

\* node_rag_prefetch and node_dispatch_experts absorb every failure of the
\* services they call: they change nothing the graph's control depends on.
RagPrefetch(r) ==
    /\ pc[r] = "rag_prefetch"
    /\ Advance(r, "dispatch_experts", local[r])
    /\ UNCHANGED <<ticket, executed, taskVars, approvals, contended, restarts>>

DispatchExperts(r) ==
    /\ pc[r] = "dispatch_experts"
    /\ Advance(r, "arbitrate", local[r])
    /\ UNCHANGED <<ticket, executed, taskVars, approvals, contended, restarts>>

\* Mutant: every plan goes to the sandbox without a human.
route_ungated(s) == "sandbox_verify"

route_after_arbitrate(s) ==
    IF s.requires_approval THEN "hitl_interrupt" ELSE "sandbox_verify"

\* Without an expert's answer there is no plan, the risk is "medium" and
\* approval is required; otherwise the plan's risk decides.
Arbitration(s, plan, needs) ==
    [s EXCEPT !.plan = plan,
              !.requires_approval = needs,
              !.execution_status = IF needs THEN "awaiting_approval" ELSE "running"]

Arbitrate(r) ==
    /\ pc[r] = "arbitrate"
    /\ \E plan \in {"no_plan", "empty", "actions"}, needs \in BOOLEAN :
          LET s == Arbitration(local[r], plan, needs) IN
          /\ plan = "no_plan" => needs
          /\ Advance(r, route_after_arbitrate(s), s)
    /\ UNCHANGED <<ticket, executed, taskVars, approvals, contended, restarts>>

\* An LLM answer that is JSON of an unexpected shape raises in _synthesize.
ArbitrateRaises(r) == pc[r] = "arbitrate" /\ RunFails(r)

\* First half of node_hitl_interrupt: an approval is requested unless the
\* graph state holds the id of one.  The request may fail (gateway down, or
\* 422 for a missing plan), and its answer may be lost after the gateway has
\* created the approval; the node goes on in every case.
RequestApproval(r) ==
    /\ pc[r] = "hitl_interrupt"
    /\ pc' = [pc EXCEPT ![r] = "interrupting"]
    /\ \/ /\ local[r].approval_id # NoApproval
          /\ ticket' = [ticket EXCEPT ![r] = local[r].approval_id]
          /\ UNCHANGED approvals
       \/ /\ local[r].approval_id = NoApproval
          /\ ticket' = [ticket EXCEPT ![r] = NoApproval]
          /\ UNCHANGED approvals
       \/ /\ local[r].approval_id = NoApproval
          /\ local[r].plan # "no_plan"
          /\ \E a \in Approvals :
                /\ approvals[a].status = "free"
                /\ approvals' = [approvals EXCEPT ![a] =
                      [trace |-> owner[r], status |-> "pending", calling |-> FALSE]]
                /\ ticket' \in {[ticket EXCEPT ![r] = a], [ticket EXCEPT ![r] = NoApproval]}
    /\ UNCHANGED <<ckpt, owner, local, given, resume, executed, taskVars, contended, restarts>>

\* interrupt() without a resume value: the node is abandoned before it
\* returns, ainvoke returns, and _run_graph sees "awaiting_approval".
Interrupt(r) ==
    /\ pc[r] = "interrupting"
    /\ resume[r] = "none"
    /\ pc' = [pc EXCEPT ![r] = "suspended"]
    /\ ticket' = [ticket EXCEPT ![r] = NoApproval]
    /\ UNCHANGED <<ckpt, owner, local, given, resume, executed, taskVars, approvals, contended, restarts>>

\* Mutant: the decision is stored, the status still says "awaiting_approval".
DecisionKeepsStatus(s, decision, id) ==
    [s EXCEPT !.approval_id = id, !.approval_status = decision]

\* interrupt() returns the resume value and the node returns its updates.
DecisionReceived(s, decision, id) ==
    [s EXCEPT !.approval_id = id,
              !.approval_status = decision,
              !.execution_status = "running"]

\* Mutant: interrupt() returns whether or not there is a resume value.
InterruptNeverWaits(r) ==
    /\ pc[r] = "interrupting"
    /\ Advance(r, "sandbox_verify", DecisionReceived(local[r], resume[r], ticket[r]))
    /\ ticket' = [ticket EXCEPT ![r] = NoApproval]
    /\ UNCHANGED <<executed, taskVars, approvals, contended, restarts>>

InterruptReturns(r) ==
    /\ pc[r] = "interrupting"
    /\ resume[r] # "none"
    /\ Advance(r, "sandbox_verify", DecisionReceived(local[r], resume[r], ticket[r]))
    /\ ticket' = [ticket EXCEPT ![r] = NoApproval]
    /\ UNCHANGED <<executed, taskVars, approvals, contended, restarts>>

\* Mutants: a blocked plan is executed; a blocked plan is planned again.
route_executes_blocked(s) == "execute_and_observe"
route_replans_blocked(s) ==
    IF s.execution_status = "blocked_by_sandbox" THEN "arbitrate" ELSE "execute_and_observe"

\* Only a blocked plan is kept from execution.
route_after_sandbox_verify(s) ==
    IF s.execution_status = "blocked_by_sandbox" THEN "review" ELSE "execute_and_observe"

\* What node_sandbox_verify makes of the state: it skips the sandbox for a
\* rejected plan; a plan without actions is safe; otherwise the sandbox, or
\* the client's fail-open answer for it, gives any verdict.
SandboxOutcomes(s) ==
    IF s.approval_status = "rejected"
    THEN {[s EXCEPT !.execution_status = "rejected", !.verdict = "skipped"]}
    ELSE {[s EXCEPT !.execution_status = "running", !.verdict = "safe"]} \cup
         (IF s.plan = "empty" THEN {} ELSE
            {[s EXCEPT !.execution_status = "blocked_by_sandbox", !.verdict = "blocked"]} \cup
            {[s EXCEPT !.execution_status = "running", !.verdict = "needs_modification",
                       !.plan = p] : p \in {s.plan, "replaced", "unordered"}})

SandboxVerify(r) ==
    /\ pc[r] = "sandbox_verify"
    /\ local[r].plan # "no_plan" \/ local[r].approval_status = "rejected"
    /\ \E s \in SandboxOutcomes(local[r]) : Advance(r, route_after_sandbox_verify(s), s)
    /\ UNCHANGED <<ticket, executed, taskVars, approvals, contended, restarts>>

\* verify_actions reads plan.get(...) outside its try: no plan, no verdict.
SandboxRaises(r) ==
    /\ pc[r] = "sandbox_verify"
    /\ local[r].plan = "no_plan"
    /\ local[r].approval_status # "rejected"
    /\ RunFails(r)

\* First half of node_execute_and_observe: every action of the plan is sent
\* to the executor.
SendActions(r) ==
    /\ pc[r] = "execute_and_observe"
    /\ local[r].plan # "unordered"
    /\ pc' = [pc EXCEPT ![r] = "observing"]
    /\ executed' = IF local[r].plan \in {"actions", "replaced"}
                   THEN executed \cup {r} ELSE executed
    /\ UNCHANGED <<ckpt, owner, local, given, resume, ticket, taskVars, approvals, contended, restarts>>

\* SelfHealingPlan(**plan_dict) does not validate actions without an order.
SendActionsRaises(r) ==
    /\ pc[r] = "execute_and_observe"
    /\ local[r].plan = "unordered"
    /\ RunFails(r)

\* Mutant: the self-healer's unreachable "failed" result is returned.
ObservationFails(r) ==
    /\ pc[r] = "observing"
    /\ Advance(r, "review", [local[r] EXCEPT !.execution_status = "failed"])
    /\ UNCHANGED <<ticket, executed, taskVars, approvals, contended, restarts>>

\* Second half: the observation window ends.  Without a plan there is no
\* metric to trigger a rollback.
ObservationEnds(r) ==
    /\ pc[r] = "observing"
    /\ \E result \in {"success", "rollback_triggered"} :
          /\ local[r].plan = "no_plan" => result = "success"
          /\ Advance(r, "review", [local[r] EXCEPT !.execution_status = result])
    /\ UNCHANGED <<ticket, executed, taskVars, approvals, contended, restarts>>

\* node_review, the edge to END, and _run_graph's bookkeeping after it.  The
\* case it adds to the RAG knowledge base is not part of this module.
Review(r) ==
    /\ pc[r] = "review"
    /\ ckpt' = [ckpt EXCEPT ![owner[r]] = [next |-> "end", state |-> local[r]]]
    /\ pc' = [pc EXCEPT ![r] = "done"]
    /\ resume' = [resume EXCEPT ![r] = "none"]
    /\ TaskEnds(r)
    /\ UNCHANGED <<owner, local, given, ticket, executed, approvals, contended, restarts>>

RunStep(r) ==
    \/ StartGraph(r) \/ StartResume(r)
    \/ RagPrefetch(r) \/ DispatchExperts(r)
    \/ Arbitrate(r) \/ ArbitrateRaises(r)
    \/ RequestApproval(r) \/ Interrupt(r) \/ InterruptReturns(r)
    \/ SandboxVerify(r) \/ SandboxRaises(r)
    \/ SendActions(r) \/ SendActionsRaises(r) \/ ObservationEnds(r)
    \/ Review(r)

----------------------------------------------------------------------------
(* The environment: the gateway's approvals, operators, restarts           *)

\* An approval is decided and the gateway starts its call to /resume.
GatewayDecides(a, d) ==
    /\ approvals[a].status = "pending"
    /\ approvals' = [approvals EXCEPT ![a].status = d, ![a].calling = TRUE]
    /\ UNCHANGED <<ckpt, runVars, taskVars, contended, restarts>>

\* The call arrives and is accepted.
DecisionArrives(a, r) ==
    /\ approvals[a].calling
    /\ approvals' = [approvals EXCEPT ![a].calling = FALSE]
    /\ Resume(approvals[a].trace, approvals[a].status, r)

\* The call fails or is refused: the gateway logs that and never retries.
DecisionWithoutEffect(a) ==
    /\ approvals[a].calling
    /\ approvals' = [approvals EXCEPT ![a].calling = FALSE]
    /\ UNCHANGED <<ckpt, runVars, taskVars, contended, restarts>>

\* An approval expires: the fallback the gateway calls only notifies people
\* (fallback.handle_fallback), the diagnosis stays as it is.
GatewayExpires(a) ==
    /\ approvals[a].status = "pending"
    /\ approvals' = [approvals EXCEPT ![a].status = "expired"]
    /\ UNCHANGED <<ckpt, runVars, taskVars, contended, restarts>>

\* The gateway restarts: its approvals and the calls it was making are gone.
GatewayRestarts ==
    /\ \E a \in Approvals : approvals[a].status = "pending" \/ approvals[a].calling
    /\ approvals' = [a \in Approvals |->
          [approvals[a] EXCEPT !.status = IF @ = "pending" THEN "lost" ELSE @,
                               !.calling = FALSE]]
    /\ UNCHANGED <<ckpt, runVars, taskVars, contended, restarts>>

\* The runbook's manual /resume, of any diagnosis the endpoint takes it for,
\* as often as operators call it: also of one lost in a restart, and of one
\* that is still running.
OperatorResumes(t, d, r) ==
    /\ Resume(t, d, r)
    /\ UNCHANGED approvals

\* The supervisor restarts: tasks, configs and the gauge are gone, the
\* checkpoints stay.  lifespan only builds the graph again.
SupervisorRestarts ==
    /\ restarts < MaxRestarts
    /\ restarts' = restarts + 1
    /\ pc' = [r \in Runs |-> IF Live(r) THEN "lost" ELSE pc[r]]
    /\ ticket' = [r \in Runs |-> NoApproval]
    /\ activeConfigs' = {}
    /\ activeGauge' = 0
    /\ UNCHANGED <<ckpt, owner, local, given, resume, executed, approvals, contended>>

Next ==
    \/ \E t \in Traces, r \in Runs : CreateIncident(t, r)
    \/ \E r \in Runs : RunStep(r)
    \/ \E a \in Approvals, d \in Decisions : GatewayDecides(a, d)
    \/ \E a \in Approvals, r \in Runs : DecisionArrives(a, r)
    \/ \E a \in Approvals : DecisionWithoutEffect(a) \/ GatewayExpires(a)
    \/ \E t \in Traces, d \in Decisions, r \in Runs : OperatorResumes(t, d, r)
    \/ GatewayRestarts
    \/ SupervisorRestarts

Spec == Init /\ [][Next]_vars

\* asyncio schedules every task and every await in a node has a timeout; no
\* human, operator or gateway has to do anything.
FairSpec == Spec /\ \A r \in Runs : WF_vars(RunStep(r))

----------------------------------------------------------------------------
(* Properties                                                              *)

\* A plan that requires approval is executed only by a run launched with a
\* human decision, and the decision in the run's state is one that a run of
\* the same diagnosis was really launched with: neither a restart nor a
\* resumption of a half-done graph gets a plan past the interrupt
\* (route_after_arbitrate, node_hitl_interrupt, resume_diagnosis).
ApprovalGate ==
    \A r \in executed :
        local[r].requires_approval =>
            /\ given[r] # "none"
            /\ \E q \in Runs : /\ owner[q] = owner[r]
                               /\ given[q] = local[r].approval_status

\* What is executed went through node_sandbox_verify in the same diagnosis:
\* a run never executes a plan whose verdict is "blocked", nor one without a
\* verdict, even when it was resumed past the sandbox.
ExecutedWasVerified ==
    \A r \in executed :
        \/ local[r].verdict \in {"safe", "needs_modification"}
        \/ local[r].verdict = "skipped" /\ local[r].approval_status = "rejected"

\* A diagnosis reports "awaiting_approval" exactly while its checkpoint stands
\* before hitl_interrupt, so that a resume finds the interrupt to answer; it
\* reports how it ended only at or before the final review.
StatusMatchesPosition ==
    \A t \in Traces :
        LET c == ckpt[t] IN
        /\ c.state.execution_status = "awaiting_approval" <=> c.next = "hitl_interrupt"
        /\ c.state.execution_status \in {"success", "rollback_triggered", "blocked_by_sandbox"}
              <=> c.next \in {"review", "end"}

\* The decision outlives the run that carried it: in every checkpoint past the
\* interrupt of a diagnosis that requires approval stands a decision with which
\* a run of that diagnosis was launched, whatever other runs wrote over it and
\* wherever a restart came (node_hitl_interrupt's returned approval_status).
DecisionIsDurable ==
    \A t \in Traces :
        ckpt[t].state.requires_approval /\ ckpt[t].next \notin {"none", "hitl_interrupt"}
            => \E q \in Runs : /\ owner[q] = t
                               /\ given[q] = ckpt[t].state.approval_status
                               /\ given[q] # "none"

\* The pipeline implements GatedExecution: at most one execution per run, and
\* none without clearance.
clearance ==
    [r \in Runs |->
        IF local[r].plan = "undetermined" THEN "none"
        ELSE IF ~local[r].requires_approval THEN "low_risk"
        ELSE IF local[r].approval_status # "none" THEN "human" ELSE "none"]

Gated == INSTANCE GatedExecution WITH
            work <- owner,
            decided <- {t \in Traces : \E r \in Runs : owner[r] = t /\ given[r] # "none"}

ImplementsGatedExecution == Gated!Spec

\* While the checkpoint of a diagnosis stands at END, no run is launched on it
\* (the 409 of resume_diagnosis), whatever approvals are still decided for it:
\* every way to END leaves a status the guard refuses, also the way of a
\* rejected plan and of a missing one.
ClosedStaysClosed ==
    [][\A t \in Traces :
          ckpt[t].next = "end" =>
              \A r \in Runs : owner'[r] = t => owner[r] = t]_vars

\* A diagnosis that was not resumed beside a run still on its way to
\* arbitration is arbitrated once: no restart, no late or doubled decision and
\* no resumption from whatever checkpoint takes it back before its arbitration,
\* so that a decision is never applied to a plan made after it was asked for
\* (graph.py's edges, resume_diagnosis; two runs before arbitration, which
\* main.py:232 lets in, arbitrate twice).
ArbitratedOnce ==
    [][\A t \in Traces \ contended :
          LET before == ckpt[t].state  after == ckpt'[t].state IN
          before.plan # "undetermined" =>
              /\ after.plan # "undetermined"
              /\ after.requires_approval = before.requires_approval
              /\ (before.plan = "no_plan") <=> (after.plan = "no_plan")]_vars

\* Every run comes to an end: it is suspended at the interrupt, completes,
\* fails, or is lost in a restart.
EveryRunEnds == \A r \in Runs : Live(r) ~> ~Live(r)

\* A run resumed at the interrupt never parks there again: its decision
\* carries it to the end of the pipeline or to an exception, whatever other
\* runs write between /resume and its first step.  Only in a contended diagnosis
\* may a run still before arbitration put the interrupt out of its reach.
ResumedRunLeavesInterrupt ==
    \A r \in Runs :
        pc[r] = "resuming" /\ ckpt[owner[r]].next = "hitl_interrupt"
            ~> pc[r] \in {"done", "failed", "lost"} \/ owner[r] \in contended

\* graph.py:7 and main.py:119-120: after a restart a diagnosis resumes from
\* its last checkpoint automatically.
RestartResumesDiagnosis ==
    \A t \in Traces :
        restarts > 0 /\ ckpt[t].next # "none" /\ ckpt[t].state.execution_status = "running"
            ~> \/ ckpt[t].next \in {"hitl_interrupt", "end"}
               \/ \E r \in Runs : owner[r] = t /\ pc[r] = "failed"

\* action-executor/app/main.py:2: the executor carries out actions after HITL
\* approval; so never a plan that a human rejected.
RejectedNeverExecuted ==
    \A r \in executed : local[r].approval_status # "rejected"
====

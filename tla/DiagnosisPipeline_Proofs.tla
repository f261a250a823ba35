---- MODULE DiagnosisPipeline_Proofs ----
(***************************************************************************)
(* Proofs about DiagnosisPipeline: type correctness, the approval gate and *)
(* its companions, one arbitration per diagnosis, and the refinement of    *)
(* GatedExecution, for any number of diagnoses, runs, approvals, restarts. *)
(*                                                                         *)
(* The safety properties are not inductive: what a run may do depends on   *)
(* the checkpoint it was resumed from, which another run wrote.  IInv says *)
(* what holds of a graph state at each node (StateAt), and says it of      *)
(* every working run and of every checkpoint alike, so that a run which    *)
(* loads a checkpoint finds what it needs and a run which writes one       *)
(* leaves it.                                                              *)
(***************************************************************************)
EXTENDS DiagnosisPipeline, TLAPS

Early == {"rag_prefetch", "dispatch_experts", "arbitrate"}
Working == Nodes \cup {"interrupting", "observing"}

\* The node a working run is in.
At(r) == IF pc[r] = "interrupting" THEN "hitl_interrupt"
         ELSE IF pc[r] = "observing" THEN "execute_and_observe"
         ELSE pc[r]

\* The decisions with which runs of diagnosis t were launched.
Delivered(t) == {d \in Decisions : \E q \in Runs : owner[q] = t /\ given[q] = d}

Verified(s) ==
    \/ s.verdict \in {"safe", "needs_modification"}
    \/ s.verdict = "skipped" /\ s.approval_status = "rejected"

\* What holds of a graph state s before node n, where D are the decisions
\* that were delivered to its diagnosis.
StateAt(s, n, D) ==
    /\ n \in Early => s = InitialState
    /\ n \notin Early => s.plan # "undetermined"
    /\ n = "hitl_interrupt" => s.requires_approval /\ s.approval_status = "none"
    /\ n \notin Early \cup {"hitl_interrupt"} /\ s.requires_approval => s.approval_status \in D
    /\ n = "execute_and_observe" => Verified(s)
    /\ s.execution_status = "awaiting_approval" <=> n = "hitl_interrupt"
    /\ s.execution_status \in {"success", "rollback_triggered", "blocked_by_sandbox"}
          <=> n \in {"review", "end"}

\* A run past the interrupt of a plan that requires approval has a decision.
Entitled(r) == local[r].requires_approval => given[r] # "none"

TaskOK(r) ==
    /\ pc[r] = "idle" => owner[r] = NoTrace /\ given[r] = "none"
    /\ pc[r] # "idle" => owner[r] \in Traces
    /\ pc[r] \in {"idle", "launched", "resuming"} => local[r] = InitialState
    /\ pc[r] = "resuming" => given[r] # "none" /\ ckpt[owner[r]].next # "none"
    /\ resume[r] \in {"none", given[r]}
    /\ pc[r] \in Working => StateAt(local[r], At(r), Delivered(owner[r]))
    /\ pc[r] \in Working /\ At(r) \notin Early \cup {"hitl_interrupt"} => Entitled(r)

ExecutedOK(r) ==
    /\ pc[r] \in {"observing", "review", "done", "lost"}
    /\ Verified(local[r])
    /\ Entitled(r)
    /\ local[r].requires_approval => local[r].approval_status \in Delivered(owner[r])

CheckpointOK(t) ==
    /\ ckpt[t].next = "none" => ckpt[t].state = InitialState
    /\ ckpt[t].next # "none" => /\ \E q \in Runs : owner[q] = t
                               /\ StateAt(ckpt[t].state, ckpt[t].next, Delivered(t))

ApprovalOK(a) ==
    /\ approvals[a].status = "pending" \/ approvals[a].calling => approvals[a].trace \in Traces
    /\ approvals[a].calling => approvals[a].status \in Decisions

IInv ==
    /\ TypeOK
    /\ \A r \in Runs : TaskOK(r)
    /\ \A r \in executed : ExecutedOK(r)
    /\ \A t \in Traces : CheckpointOK(t)
    /\ \A a \in Approvals : ApprovalOK(a)

----------------------------------------------------------------------------
(* Types                                                                   *)

USE NoTraceAssumption, NoApprovalAssumption, MaxRestartsAssumption

\* The values nodes write are graph states.
LEMMA StatesTyped ==
    /\ InitialState \in DiagnosisState
    /\ NoCheckpoint \in Checkpoints
    /\ \A s \in DiagnosisState, plan \in {"no_plan", "empty", "actions"}, needs \in BOOLEAN :
          Arbitration(s, plan, needs) \in DiagnosisState
    /\ \A s \in DiagnosisState, d \in Decisions, id \in Approvals \cup {NoApproval} :
          DecisionReceived(s, d, id) \in DiagnosisState
    /\ \A s \in DiagnosisState : SandboxOutcomes(s) \subseteq DiagnosisState
    /\ \A s \in DiagnosisState, x \in {"success", "rollback_triggered"} :
          [s EXCEPT !.execution_status = x] \in DiagnosisState
    /\ \A s \in DiagnosisState : route_after_arbitrate(s) \in Nodes
    /\ \A s \in DiagnosisState : route_after_sandbox_verify(s) \in Nodes
<1>1. InitialState \in DiagnosisState /\ NoCheckpoint \in Checkpoints
  BY DEF InitialState, DiagnosisState, Statuses, Plans, Verdicts, NoCheckpoint, Checkpoints
<1>2. ASSUME NEW s \in DiagnosisState, NEW plan \in {"no_plan", "empty", "actions"},
             NEW needs \in BOOLEAN
      PROVE  Arbitration(s, plan, needs) \in DiagnosisState
  BY <1>2 DEF Arbitration, DiagnosisState, Statuses, Plans
<1>3. ASSUME NEW s \in DiagnosisState, NEW d \in Decisions,
             NEW id \in Approvals \cup {NoApproval}
      PROVE  DecisionReceived(s, d, id) \in DiagnosisState
  BY <1>3 DEF DecisionReceived, DiagnosisState, Statuses
<1>4. ASSUME NEW s \in DiagnosisState, NEW x \in SandboxOutcomes(s)
      PROVE  x \in DiagnosisState
  <2>1. [s EXCEPT !.execution_status = "rejected", !.verdict = "skipped"] \in DiagnosisState
    BY DEF DiagnosisState, Statuses, Verdicts
  <2>2. [s EXCEPT !.execution_status = "running", !.verdict = "safe"] \in DiagnosisState
    BY DEF DiagnosisState, Statuses, Verdicts
  <2>3. [s EXCEPT !.execution_status = "blocked_by_sandbox", !.verdict = "blocked"]
           \in DiagnosisState
    BY DEF DiagnosisState, Statuses, Verdicts
  <2>4. s.plan \in Plans
    BY DEF DiagnosisState
  <2>5. ASSUME NEW p \in {s.plan, "replaced", "unordered"}
        PROVE  [s EXCEPT !.execution_status = "running", !.verdict = "needs_modification",
                         !.plan = p] \in DiagnosisState
    BY <2>4, <2>5 DEF DiagnosisState, Statuses, Verdicts, Plans
  <2> QED
    BY <1>4, <2>1, <2>2, <2>3, <2>5, Zenon DEF SandboxOutcomes
<1>5. ASSUME NEW s \in DiagnosisState, NEW x \in {"success", "rollback_triggered"}
      PROVE  [s EXCEPT !.execution_status = x] \in DiagnosisState
  BY <1>5 DEF DiagnosisState, Statuses
<1>6. ASSUME NEW s \in DiagnosisState
      PROVE  route_after_arbitrate(s) \in Nodes /\ route_after_sandbox_verify(s) \in Nodes
  BY DEF route_after_arbitrate, route_after_sandbox_verify, Nodes
<1> QED
  BY <1>1, <1>2, <1>3, <1>4, <1>5, <1>6

\* A node that returns a graph state keeps the types of what it writes.
LEMMA AdvanceTyped ==
    ASSUME TypeOK, NEW r \in Runs, NEW n \in Nodes, NEW s \in DiagnosisState, Advance(r, n, s)
    PROVE  /\ ckpt' \in [Traces -> Checkpoints]
           /\ pc' \in [Runs -> Points]
           /\ owner' \in [Runs -> Traces \cup {NoTrace}]
           /\ local' \in [Runs -> DiagnosisState]
           /\ given' \in [Runs -> Decisions \cup {"none"}]
           /\ resume' \in [Runs -> Decisions \cup {"none"}]
<1>1. [next |-> n, state |-> s] \in Checkpoints
  BY DEF Checkpoints
<1>2. ckpt' \in [Traces -> Checkpoints]
  BY <1>1 DEF Advance, TypeOK
<1>3. n \in Points
  BY DEF Points
<1> QED
  BY <1>2, <1>3 DEF Advance, TypeOK

\* An exception keeps the types.
LEMMA RunFailsTyped ==
    ASSUME TypeOK, NEW r \in Runs, RunFails(r)
    PROVE  TypeOK'
  BY DEF RunFails, TaskEnds, TypeOK, Points, Over

\* A launch keeps the types.
LEMMA ResumeTyped ==
    ASSUME TypeOK, NEW r \in Runs, NEW t \in Traces, NEW d \in Decisions, Resume(t, d, r),
           approvals' \in [Approvals -> ApprovalRecords]
    PROVE  TypeOK'
  BY DEF Resume, TypeOK, Points, Over

\* A run's step keeps the types.
LEMMA RunStepTyped ==
    ASSUME IInv, NEW r \in Runs, RunStep(r)
    PROVE  TypeOK'
<1> USE DEF IInv
<1>1. CASE StartGraph(r)
  <2>1. "rag_prefetch" \in Nodes
    BY DEF Nodes
  <2> QED
    BY <1>1, <2>1, StatesTyped, AdvanceTyped DEF StartGraph, TypeOK, taskVars
<1>2. CASE StartResume(r)
  <2>1. owner[r] \in Traces /\ ckpt[owner[r]].next \in Nodes \cup {"end"}
    BY <1>2 DEF StartResume, TaskOK, TypeOK, Checkpoints
  <2>2. ckpt[owner[r]].state \in DiagnosisState
    BY <2>1 DEF TypeOK, Checkpoints
  <2>3. local' \in [Runs -> DiagnosisState]
    BY <1>2, <2>2 DEF StartResume, TypeOK
  <2>4. pc' \in [Runs -> Points]
    BY <1>2, <2>1 DEF StartResume, TypeOK, Points, Over
  <2>5. activeConfigs' \subseteq Traces /\ activeGauge' \in Int
    BY <1>2 DEF StartResume, TaskEnds, taskVars, TypeOK
  <2> QED
    BY <1>2, <2>3, <2>4, <2>5 DEF StartResume, TypeOK
<1>3. CASE RagPrefetch(r) \/ DispatchExperts(r)
  <2>1. {"dispatch_experts", "arbitrate"} \subseteq Nodes /\ local[r] \in DiagnosisState
    BY DEF Nodes, TypeOK
  <2> QED
    BY <1>3, <2>1, AdvanceTyped DEF RagPrefetch, DispatchExperts, TypeOK, taskVars
<1>4. CASE Arbitrate(r)
  <2>1. PICK plan \in {"no_plan", "empty", "actions"}, needs \in BOOLEAN :
           Advance(r, route_after_arbitrate(Arbitration(local[r], plan, needs)),
                   Arbitration(local[r], plan, needs))
    BY <1>4 DEF Arbitrate
  <2>2. Arbitration(local[r], plan, needs) \in DiagnosisState
    BY StatesTyped DEF TypeOK
  <2> QED
    BY <1>4, <2>1, <2>2, StatesTyped, AdvanceTyped DEF Arbitrate, TypeOK, taskVars
<1>5. CASE RequestApproval(r)
  <2>1. owner[r] \in Traces /\ local[r].approval_id \in Approvals \cup {NoApproval}
    BY <1>5 DEF RequestApproval, TaskOK, TypeOK, DiagnosisState
  <2>2. \A a \in Approvals : [trace |-> owner[r], status |-> "pending", calling |-> FALSE]
                                 \in ApprovalRecords
    BY <2>1 DEF ApprovalRecords
  <2>3. approvals' \in [Approvals -> ApprovalRecords]
    BY <1>5, <2>2 DEF RequestApproval, TypeOK
  <2>4. ticket' \in [Runs -> Approvals \cup {NoApproval}]
    BY <1>5, <2>1 DEF RequestApproval, TypeOK
  <2> QED
    BY <1>5, <2>3, <2>4 DEF RequestApproval, TypeOK, taskVars, Points
<1>6. CASE Interrupt(r)
  BY <1>6 DEF Interrupt, TypeOK, taskVars, Points, Over
<1>7. CASE InterruptReturns(r)
  <2>1. DecisionReceived(local[r], resume[r], ticket[r]) \in DiagnosisState
    BY <1>7, StatesTyped DEF InterruptReturns, TypeOK
  <2>2. "sandbox_verify" \in Nodes
    BY DEF Nodes
  <2> QED
    BY <1>7, <2>1, <2>2, AdvanceTyped DEF InterruptReturns, TypeOK, taskVars
<1>8. CASE SandboxVerify(r)
  <2>1. PICK s \in SandboxOutcomes(local[r]) : Advance(r, route_after_sandbox_verify(s), s)
    BY <1>8 DEF SandboxVerify
  <2>2. s \in DiagnosisState
    BY StatesTyped DEF TypeOK
  <2> QED
    BY <1>8, <2>1, <2>2, StatesTyped, AdvanceTyped DEF SandboxVerify, TypeOK, taskVars
<1>9. CASE SendActions(r)
  BY <1>9 DEF SendActions, TypeOK, taskVars, Points
<1>10. CASE ObservationEnds(r)
  <2>1. PICK x \in {"success", "rollback_triggered"} :
           Advance(r, "review", [local[r] EXCEPT !.execution_status = x])
    BY <1>10 DEF ObservationEnds
  <2>2. [local[r] EXCEPT !.execution_status = x] \in DiagnosisState /\ "review" \in Nodes
    BY StatesTyped DEF TypeOK, Nodes
  <2> QED
    BY <1>10, <2>1, <2>2, AdvanceTyped DEF ObservationEnds, TypeOK, taskVars
<1>11. CASE Review(r)
  <2>1. [next |-> "end", state |-> local[r]] \in Checkpoints
    BY DEF Checkpoints, TypeOK
  <2>2. ckpt' \in [Traces -> Checkpoints]
    BY <1>11, <2>1 DEF Review, TypeOK
  <2> QED
    BY <1>11, <2>2 DEF Review, TaskEnds, TypeOK, Points, Over
<1>12. CASE ArbitrateRaises(r) \/ SandboxRaises(r) \/ SendActionsRaises(r)
  BY <1>12, RunFailsTyped DEF ArbitrateRaises, SandboxRaises, SendActionsRaises
<1> QED
  BY <1>1, <1>2, <1>3, <1>4, <1>5, <1>6, <1>7, <1>8, <1>9, <1>10, <1>11, <1>12 DEF RunStep

\* What the gateway writes into an approval is an approval record.
LEMMA ApprovalsTyped ==
    ASSUME NEW x \in ApprovalRecords, NEW b \in BOOLEAN,
           NEW d \in {"free", "pending", "approved", "rejected", "expired", "lost"}
    PROVE  /\ [x EXCEPT !.status = d, !.calling = b] \in ApprovalRecords
           /\ [x EXCEPT !.calling = b] \in ApprovalRecords
           /\ [x EXCEPT !.status = d] \in ApprovalRecords
  BY DEF ApprovalRecords

\* Every step keeps the types.
LEMMA NextTyped == IInv /\ [Next]_vars => TypeOK'
<1> SUFFICES ASSUME IInv, [Next]_vars PROVE TypeOK'
  OBVIOUS
<1> USE DEF IInv
<1>1. ASSUME NEW t \in Traces, NEW r \in Runs, CreateIncident(t, r) PROVE TypeOK'
  BY <1>1 DEF CreateIncident, Purged, TypeOK, Points
<1>2. ASSUME NEW r \in Runs, RunStep(r) PROVE TypeOK'
  BY <1>2, RunStepTyped
<1>3. ASSUME NEW a \in Approvals, NEW d \in Decisions, GatewayDecides(a, d) PROVE TypeOK'
  <2>1. [approvals[a] EXCEPT !.status = d, !.calling = TRUE] \in ApprovalRecords
    BY ApprovalsTyped DEF TypeOK, Decisions
  <2> QED
    BY <1>3, <2>1 DEF GatewayDecides, TypeOK, runVars, taskVars
<1>4. ASSUME NEW a \in Approvals PROVE [approvals[a] EXCEPT !.calling = FALSE] \in ApprovalRecords
  BY ApprovalsTyped DEF TypeOK
<1>5. ASSUME NEW a \in Approvals, NEW r \in Runs, DecisionArrives(a, r) PROVE TypeOK'
  <2>1. approvals[a].trace \in Traces /\ approvals[a].status \in Decisions
    BY <1>5 DEF DecisionArrives, ApprovalOK
  <2>2. approvals' \in [Approvals -> ApprovalRecords]
    BY <1>4, <1>5 DEF DecisionArrives, TypeOK
  <2> QED
    BY <1>5, <2>1, <2>2, ResumeTyped DEF DecisionArrives
<1>6. ASSUME NEW a \in Approvals, DecisionWithoutEffect(a) PROVE TypeOK'
  BY <1>4, <1>6 DEF DecisionWithoutEffect, TypeOK, runVars, taskVars
<1>7. ASSUME NEW a \in Approvals, GatewayExpires(a) PROVE TypeOK'
  <2>1. [approvals[a] EXCEPT !.status = "expired"] \in ApprovalRecords
    BY DEF TypeOK, ApprovalRecords
  <2> QED
    BY <1>7, <2>1 DEF GatewayExpires, TypeOK, runVars, taskVars
<1>8. ASSUME NEW t \in Traces, NEW d \in Decisions, NEW r \in Runs, OperatorResumes(t, d, r)
      PROVE TypeOK'
  BY <1>8, ResumeTyped DEF OperatorResumes, TypeOK
<1>9. ASSUME GatewayRestarts PROVE TypeOK'
  <2>1. ASSUME NEW a \in Approvals
        PROVE  [approvals[a] EXCEPT !.status = IF @ = "pending" THEN "lost" ELSE @,
                                    !.calling = FALSE] \in ApprovalRecords
    <3>1. approvals[a] \in ApprovalRecords
      BY DEF TypeOK
    <3>2. (IF approvals[a].status = "pending" THEN "lost" ELSE approvals[a].status)
             \in {"free", "pending", "approved", "rejected", "expired", "lost"}
      BY <3>1 DEF ApprovalRecords
    <3> QED
      BY <3>1, <3>2, ApprovalsTyped
  <2> QED
    BY <1>9, <2>1 DEF GatewayRestarts, TypeOK, runVars, taskVars
<1>10. ASSUME SupervisorRestarts PROVE TypeOK'
  BY <1>10 DEF SupervisorRestarts, TypeOK, Points, Over
<1>11. ASSUME UNCHANGED vars PROVE TypeOK'
  BY <1>11 DEF vars, TypeOK
<1> QED
  BY <1>1, <1>2, <1>3, <1>5, <1>6, <1>7, <1>8, <1>9, <1>10, <1>11 DEF Next

----------------------------------------------------------------------------
(* The inductive invariant                                                 *)

LEMMA InitIInv == Init => IInv
<1> SUFFICES ASSUME Init PROVE IInv
  OBVIOUS
<1>1. TypeOK
  BY StatesTyped DEF Init, TypeOK, Points, Over, ApprovalRecords
<1>2. \A r \in Runs : TaskOK(r)
  BY DEF Init, TaskOK, Working, Nodes
<1>3. \A t \in Traces : CheckpointOK(t)
  BY DEF Init, CheckpointOK, NoCheckpoint
<1>4. \A a \in Approvals : ApprovalOK(a)
  BY DEF Init, ApprovalOK
<1> QED
  BY <1>1, <1>2, <1>3, <1>4 DEF IInv, Init

\* More decisions delivered to a diagnosis never spoil a graph state.
LEMMA MoreDelivered ==
    ASSUME NEW s, NEW n, NEW D, NEW E, D \subseteq E, StateAt(s, n, D)
    PROVE  StateAt(s, n, E)
  BY DEF StateAt

\* The parts of IInv about runs and checkpoints, apart from the types.
Gated_IInv ==
    /\ \A q \in Runs : TaskOK(q)
    /\ \A q \in executed : ExecutedOK(q)
    /\ \A t \in Traces : CheckpointOK(t)

\* A step of run r alone keeps them if it leaves r, the checkpoint of its
\* diagnosis and r's execution in order.
LEMMA RunMoves ==
    ASSUME IInv, NEW r \in Runs, owner[r] \in Traces,
           owner' = owner, given' = given,
           \A q \in Runs \ {r} : pc'[q] = pc[q] /\ local'[q] = local[q] /\ resume'[q] = resume[q],
           \A t \in Traces \ {owner[r]} : ckpt'[t] = ckpt[t],
           ckpt[owner[r]].next # "none" => ckpt'[owner[r]].next # "none",
           executed' \subseteq executed \cup {r},
           TaskOK(r)', CheckpointOK(owner[r])', r \in executed' => ExecutedOK(r)'
    PROVE  Gated_IInv'
<1>1. \A t : Delivered(t)' = Delivered(t)
  BY DEF Delivered
<1>2. ASSUME NEW q \in Runs, q # r PROVE TaskOK(q)'
  <2>1. TaskOK(q) /\ At(q)' = At(q)
    BY <1>2 DEF IInv, At
  <2>2. pc[q] = "resuming" => ckpt'[owner[q]].next # "none"
    BY <2>1, <1>2 DEF TaskOK
  <2> QED
    BY <1>1, <1>2, <2>1, <2>2 DEF TaskOK, Entitled
<1>3. ASSUME NEW q \in executed', q # r PROVE ExecutedOK(q)'
  <2>1. q \in Runs /\ ExecutedOK(q)
    BY <1>3 DEF IInv, TypeOK
  <2> QED
    BY <1>1, <1>3, <2>1 DEF ExecutedOK, Entitled
<1>4. ASSUME NEW t \in Traces, t # owner[r] PROVE CheckpointOK(t)'
  BY <1>1, <1>4 DEF IInv, CheckpointOK
<1> QED
  BY <1>2, <1>3, <1>4 DEF Gated_IInv

\* A superstep keeps them if its node returns a state fit for the next node,
\* and lets a run past the interrupt only with a decision.
LEMMA AdvanceKeeps ==
    ASSUME IInv, NEW r \in Runs, NEW n \in Nodes, NEW s \in DiagnosisState,
           owner[r] \in Traces, Advance(r, n, s), executed' = executed,
           StateAt(s, n, Delivered(owner[r])),
           n \notin Early \cup {"hitl_interrupt"} /\ s.requires_approval => given[r] # "none",
           r \in executed =>
              /\ n = "review"
              /\ Verified(s)
              /\ s.requires_approval = local[r].requires_approval
              /\ s.approval_status = local[r].approval_status
    PROVE  Gated_IInv'
<1>1. /\ owner' = owner /\ given' = given
      /\ pc'[r] = n /\ local'[r] = s /\ resume'[r] = "none"
      /\ ckpt'[owner[r]] = [next |-> n, state |-> s]
      /\ \A q \in Runs \ {r} : pc'[q] = pc[q] /\ local'[q] = local[q] /\ resume'[q] = resume[q]
      /\ \A t \in Traces \ {owner[r]} : ckpt'[t] = ckpt[t]
  BY DEF Advance, IInv, TypeOK
<1>2. \A t : Delivered(t)' = Delivered(t)
  BY <1>1 DEF Delivered
<1>3. n \notin {"none", "idle", "launched", "resuming", "interrupting", "observing"}
  BY DEF Nodes
<1>4. CheckpointOK(owner[r])'
  BY <1>1, <1>2, <1>3 DEF CheckpointOK
<1>5. TaskOK(r)'
  BY <1>1, <1>2, <1>3 DEF TaskOK, At, Entitled
<1>6. r \in executed' => ExecutedOK(r)'
  BY <1>1, <1>2 DEF IInv, ExecutedOK, Entitled
<1>7. ckpt'[owner[r]].next # "none"
  BY <1>1, <1>3
<1> QED
  BY <1>1, <1>4, <1>5, <1>6, <1>7, RunMoves

\* A step within a node, or out of it, that leaves the checkpoints alone.
LEMMA TaskMoves ==
    ASSUME IInv, NEW r \in Runs, NEW p \in Points, owner[r] \in Traces,
           UNCHANGED <<owner, given, local, resume, ckpt>>,
           pc' = [pc EXCEPT ![r] = p],
           executed' \subseteq executed \cup {r},
           TaskOK(r)', r \in executed' => ExecutedOK(r)'
    PROVE  Gated_IInv'
<1>1. \A q \in Runs \ {r} : pc'[q] = pc[q]
  BY DEF IInv, TypeOK
<1>2. CheckpointOK(owner[r])'
  BY DEF IInv, CheckpointOK, Delivered
<1> QED
  BY <1>1, <1>2, RunMoves

\* What node_sandbox_verify leaves alone, and what it says of the rest.
LEMMA SandboxKeeps ==
    ASSUME NEW l \in DiagnosisState, NEW s \in SandboxOutcomes(l)
    PROVE  /\ s.requires_approval = l.requires_approval
           /\ s.approval_status = l.approval_status
           /\ s.plan \in {l.plan, "replaced", "unordered"}
           /\ \/ s.execution_status \in {"running", "rejected"} /\ Verified(s)
              \/ s.execution_status = "blocked_by_sandbox"
<1>1. CASE l.approval_status = "rejected"
  <2>1. s = [l EXCEPT !.execution_status = "rejected", !.verdict = "skipped"]
    BY <1>1, Zenon DEF SandboxOutcomes
  <2> QED
    BY <1>1, <2>1 DEF DiagnosisState, Verified
<1>2. CASE s = [l EXCEPT !.execution_status = "running", !.verdict = "safe"]
  BY <1>2 DEF DiagnosisState, Verified
<1>3. CASE s = [l EXCEPT !.execution_status = "blocked_by_sandbox", !.verdict = "blocked"]
  BY <1>3 DEF DiagnosisState
<1>4. ASSUME NEW p \in {l.plan, "replaced", "unordered"},
             s = [l EXCEPT !.execution_status = "running",
                           !.verdict = "needs_modification", !.plan = p]
      PROVE  /\ s.requires_approval = l.requires_approval
             /\ s.approval_status = l.approval_status
             /\ s.plan = p
             /\ s.execution_status = "running" /\ s.verdict = "needs_modification"
  BY <1>4 DEF DiagnosisState
<1>5. \/ l.approval_status = "rejected"
      \/ s = [l EXCEPT !.execution_status = "running", !.verdict = "safe"]
      \/ s = [l EXCEPT !.execution_status = "blocked_by_sandbox", !.verdict = "blocked"]
      \/ \E p \in {l.plan, "replaced", "unordered"} :
            s = [l EXCEPT !.execution_status = "running",
                          !.verdict = "needs_modification", !.plan = p]
  BY Zenon DEF SandboxOutcomes
<1> QED
  BY <1>1, <1>2, <1>3, <1>4, <1>5 DEF Verified

LEMMA RunFailsKeeps ==
    ASSUME IInv, NEW r \in Runs, RunFails(r), pc[r] \in Nodes, r \notin executed
    PROVE  Gated_IInv'
<1>1. "failed" \in Points /\ owner[r] \in Traces /\ TaskOK(r)
  BY DEF Points, Over, IInv, TaskOK, Nodes
<1>2. TaskOK(r)'
  BY <1>1 DEF RunFails, TaskOK, Working, Nodes, IInv, TypeOK
<1> QED
  BY <1>1, <1>2, TaskMoves DEF RunFails

LEMMA RunStepKeeps ==
    ASSUME IInv, NEW r \in Runs, RunStep(r)
    PROVE  Gated_IInv'
<1>1. TaskOK(r) /\ local[r] \in DiagnosisState
  BY DEF IInv, TypeOK
<1>2. r \in executed => ExecutedOK(r)
  BY DEF IInv
<1>3. pc[r] # "idle" => owner[r] \in Traces
  BY <1>1 DEF TaskOK
<1>4. ASSUME pc[r] \in Working PROVE StateAt(local[r], At(r), Delivered(owner[r]))
  BY <1>1, <1>4 DEF TaskOK
<1>5. CASE StartGraph(r)
  <2>1. Advance(r, "rag_prefetch", InitialState) /\ r \notin executed /\ executed' = executed
    BY <1>2, <1>5 DEF StartGraph, ExecutedOK
  <2>2. StateAt(InitialState, "rag_prefetch", Delivered(owner[r]))
    BY DEF StateAt, Early, InitialState
  <2> QED
    BY <1>3, <1>5, <2>1, <2>2, StatesTyped, AdvanceKeeps DEF StartGraph, Early, Nodes
<1>6. CASE StartResume(r)
  <2>1. owner[r] \in Traces /\ ckpt[owner[r]].next # "none" /\ r \notin executed
        /\ given[r] # "none"
    BY <1>1, <1>2, <1>6 DEF StartResume, TaskOK, ExecutedOK
  <2>2. StateAt(ckpt[owner[r]].state, ckpt[owner[r]].next, Delivered(owner[r]))
    BY <2>1 DEF IInv, CheckpointOK
  <2>3. /\ local'[r] = ckpt[owner[r]].state
        /\ pc'[r] = IF ckpt[owner[r]].next = "end" THEN "done" ELSE ckpt[owner[r]].next
        /\ \A q \in Runs \ {r} : pc'[q] = pc[q] /\ local'[q] = local[q]
        /\ owner' = owner /\ given' = given /\ resume' = resume
        /\ ckpt' = ckpt /\ executed' = executed
    BY <1>6 DEF StartResume, IInv, TypeOK
  <2>4. ckpt[owner[r]].next \in Nodes \cup {"end"}
    BY <2>1 DEF IInv, TypeOK, Checkpoints
  <2>5. Delivered(owner[r])' = Delivered(owner[r])
    BY <2>3 DEF Delivered
  <2>6. TaskOK(r)'
    <3>1. CASE ckpt[owner[r]].next = "end"
      BY <1>1, <2>1, <2>3, <3>1 DEF TaskOK, Working, Nodes
    <3>2. CASE ckpt[owner[r]].next # "end"
      <4>1. pc'[r] \in Nodes /\ At(r)' = ckpt[owner[r]].next
        BY <2>3, <2>4, <3>2 DEF At, Nodes
      <4> QED
        BY <1>1, <2>1, <2>2, <2>3, <2>5, <4>1 DEF TaskOK, Working, Nodes, Entitled
    <3> QED
      BY <3>1, <3>2
  <2>7. CheckpointOK(owner[r])'
    BY <2>1, <2>3, <2>5 DEF IInv, CheckpointOK
  <2> QED
    BY <2>1, <2>3, <2>6, <2>7, RunMoves
<1>7. CASE RagPrefetch(r) \/ DispatchExperts(r)
  <2>1. PICK n \in {"dispatch_experts", "arbitrate"} : Advance(r, n, local[r]) /\ executed' = executed
    BY <1>7 DEF RagPrefetch, DispatchExperts
  <2>2. pc[r] \in {"rag_prefetch", "dispatch_experts"} /\ r \notin executed
    BY <1>2, <1>7 DEF RagPrefetch, DispatchExperts, ExecutedOK
  <2>3. StateAt(local[r], pc[r], Delivered(owner[r]))
    BY <1>4, <2>2 DEF Working, Nodes, At
  <2>4. StateAt(local[r], n, Delivered(owner[r]))
    BY <2>2, <2>3 DEF StateAt, Early
  <2> QED
    BY <1>1, <1>3, <2>1, <2>2, <2>4, AdvanceKeeps DEF Early, Nodes
<1>8. CASE Arbitrate(r)
  <2>1. PICK plan \in {"no_plan", "empty", "actions"}, needs \in BOOLEAN :
           Advance(r, route_after_arbitrate(Arbitration(local[r], plan, needs)),
                   Arbitration(local[r], plan, needs))
    BY <1>8 DEF Arbitrate
  <2> DEFINE s == Arbitration(local[r], plan, needs)
  <2>2. pc[r] = "arbitrate" /\ r \notin executed /\ owner[r] \in Traces /\ executed' = executed
    BY <1>2, <1>3, <1>8 DEF Arbitrate, ExecutedOK
  <2>3. local[r] = InitialState
    BY <1>4, <2>2 DEF Working, Nodes, At, StateAt, Early
  <2>4. /\ s.plan = plan /\ s.requires_approval = needs /\ s.approval_status = "none"
        /\ s.execution_status = IF needs THEN "awaiting_approval" ELSE "running"
    BY <2>3 DEF Arbitration, InitialState
  <2>5. route_after_arbitrate(s) = IF needs THEN "hitl_interrupt" ELSE "sandbox_verify"
    BY <2>4 DEF route_after_arbitrate
  <2>6. StateAt(s, route_after_arbitrate(s), Delivered(owner[r]))
    BY <2>4, <2>5 DEF StateAt, Early
  <2>7. s \in DiagnosisState /\ route_after_arbitrate(s) \in Nodes
    BY <1>1, StatesTyped
  <2>8. route_after_arbitrate(s) \notin Early \cup {"hitl_interrupt"} => ~s.requires_approval
    BY <2>4, <2>5
  <2> QED
    BY <2>1, <2>2, <2>6, <2>7, <2>8, AdvanceKeeps
<1>9. CASE RequestApproval(r)
  <2>1. pc[r] = "hitl_interrupt" /\ r \notin executed /\ owner[r] \in Traces
        /\ "interrupting" \in Points
    BY <1>2, <1>3, <1>9 DEF RequestApproval, ExecutedOK, Points
  <2>2. TaskOK(r)'
    BY <1>1, <1>9, <2>1 DEF RequestApproval, taskVars, TaskOK, At, Working, Nodes, Delivered,
                            IInv, TypeOK
  <2> QED
    BY <1>9, <2>1, <2>2, TaskMoves DEF RequestApproval
<1>10. CASE Interrupt(r)
  <2>1. pc[r] = "interrupting" /\ r \notin executed /\ owner[r] \in Traces
        /\ "suspended" \in Points
    BY <1>2, <1>3, <1>10 DEF Interrupt, ExecutedOK, Points, Over
  <2>2. TaskOK(r)'
    BY <1>1, <1>10, <2>1 DEF Interrupt, TaskOK, Working, Nodes, IInv, TypeOK
  <2> QED
    BY <1>10, <2>1, <2>2, TaskMoves DEF Interrupt
<1>11. CASE InterruptReturns(r)
  <2> DEFINE s == DecisionReceived(local[r], resume[r], ticket[r])
  <2>1. /\ pc[r] = "interrupting" /\ resume[r] # "none" /\ Advance(r, "sandbox_verify", s)
        /\ executed' = executed
    BY <1>11 DEF InterruptReturns
  <2>2. r \notin executed /\ owner[r] \in Traces
    BY <1>2, <1>3, <2>1 DEF ExecutedOK
  <2>3. given[r] # "none" /\ resume[r] = given[r] /\ resume[r] \in Decisions
    BY <1>1, <2>1 DEF TaskOK, IInv, TypeOK
  <2>4. resume[r] \in Delivered(owner[r])
    BY <2>3 DEF Delivered
  <2>5. StateAt(local[r], "hitl_interrupt", Delivered(owner[r]))
    BY <1>4, <2>1 DEF At, Working
  <2>6. s.plan = local[r].plan /\ s.approval_status = resume[r] /\ s.execution_status = "running"
    BY <1>1 DEF DecisionReceived, DiagnosisState
  <2>7. StateAt(s, "sandbox_verify", Delivered(owner[r]))
    BY <2>4, <2>5, <2>6 DEF StateAt, Early
  <2>8. s \in DiagnosisState /\ "sandbox_verify" \in Nodes
    BY <1>1, <2>3, StatesTyped DEF IInv, TypeOK, Nodes
  <2> QED
    BY <2>1, <2>2, <2>3, <2>7, <2>8, AdvanceKeeps
<1>12. CASE SandboxVerify(r)
  <2>1. PICK s \in SandboxOutcomes(local[r]) : Advance(r, route_after_sandbox_verify(s), s)
    BY <1>12 DEF SandboxVerify
  <2>2. pc[r] = "sandbox_verify" /\ r \notin executed /\ owner[r] \in Traces /\ executed' = executed
    BY <1>2, <1>3, <1>12 DEF SandboxVerify, ExecutedOK
  <2>3. StateAt(local[r], "sandbox_verify", Delivered(owner[r])) /\ Entitled(r)
    BY <1>1, <2>2 DEF TaskOK, At, Working, Nodes, Early
  <2>4. /\ s.requires_approval = local[r].requires_approval
        /\ s.approval_status = local[r].approval_status
        /\ s.plan \in {local[r].plan, "replaced", "unordered"}
        /\ \/ s.execution_status \in {"running", "rejected"} /\ Verified(s)
           \/ s.execution_status = "blocked_by_sandbox"
    BY <1>1, SandboxKeeps
  <2>5. StateAt(s, route_after_sandbox_verify(s), Delivered(owner[r]))
    BY <2>3, <2>4 DEF StateAt, Early, route_after_sandbox_verify
  <2>6. s \in DiagnosisState /\ route_after_sandbox_verify(s) \in Nodes
    BY <1>1, StatesTyped
  <2> QED
    BY <2>1, <2>2, <2>3, <2>4, <2>5, <2>6, AdvanceKeeps DEF Entitled
<1>13. CASE SendActions(r)
  <2>1. pc[r] = "execute_and_observe" /\ owner[r] \in Traces /\ "observing" \in Points
    BY <1>3, <1>13 DEF SendActions, Points
  <2>2. StateAt(local[r], "execute_and_observe", Delivered(owner[r])) /\ Entitled(r)
    BY <1>1, <2>1 DEF TaskOK, At, Working, Nodes, Early
  <2>3. /\ pc'[r] = "observing" /\ At(r)' = "execute_and_observe"
        /\ Delivered(owner[r])' = Delivered(owner[r])
        /\ UNCHANGED <<owner, given, local, resume, ckpt>>
    BY <1>13 DEF SendActions, IInv, TypeOK, At, Delivered
  <2>4. TaskOK(r)'
    BY <1>1, <2>1, <2>2, <2>3 DEF TaskOK, Entitled
  <2>5. ExecutedOK(r)'
    BY <2>2, <2>3 DEF ExecutedOK, Entitled, StateAt, Early
  <2> QED
    BY <1>13, <2>1, <2>3, <2>4, <2>5, TaskMoves DEF SendActions
<1>14. CASE ObservationEnds(r)
  <2>1. PICK x \in {"success", "rollback_triggered"} :
           Advance(r, "review", [local[r] EXCEPT !.execution_status = x])
    BY <1>14 DEF ObservationEnds
  <2> DEFINE s == [local[r] EXCEPT !.execution_status = x]
  <2>2. pc[r] = "observing" /\ owner[r] \in Traces /\ executed' = executed
    BY <1>3, <1>14 DEF ObservationEnds
  <2>3. StateAt(local[r], "execute_and_observe", Delivered(owner[r])) /\ Entitled(r)
    BY <1>1, <2>2 DEF TaskOK, At, Working, Early
  <2>4. /\ s.plan = local[r].plan /\ s.requires_approval = local[r].requires_approval
        /\ s.approval_status = local[r].approval_status /\ s.verdict = local[r].verdict
        /\ s.execution_status = x
    BY <1>1 DEF DiagnosisState
  <2>5. StateAt(s, "review", Delivered(owner[r])) /\ Verified(s)
    BY <2>3, <2>4 DEF StateAt, Early, Verified
  <2>6. s \in DiagnosisState /\ "review" \in Nodes
    BY <1>1, StatesTyped DEF Nodes
  <2> QED
    BY <2>1, <2>2, <2>3, <2>4, <2>5, <2>6, AdvanceKeeps DEF Entitled
<1>15. CASE Review(r)
  <2>1. pc[r] = "review" /\ owner[r] \in Traces
    BY <1>3, <1>15 DEF Review
  <2>2. /\ ckpt'[owner[r]] = [next |-> "end", state |-> local[r]]
        /\ \A t \in Traces \ {owner[r]} : ckpt'[t] = ckpt[t]
        /\ pc'[r] = "done" /\ resume'[r] = "none"
        /\ \A q \in Runs \ {r} : pc'[q] = pc[q] /\ resume'[q] = resume[q]
        /\ UNCHANGED <<owner, given, local, executed>>
    BY <1>15, <2>1 DEF Review, IInv, TypeOK
  <2>3. StateAt(local[r], "review", Delivered(owner[r]))
    BY <1>4, <2>1 DEF At, Working, Nodes
  <2>4. Delivered(owner[r])' = Delivered(owner[r])
    BY <2>2 DEF Delivered
  <2>5. CheckpointOK(owner[r])'
    BY <2>2, <2>3, <2>4 DEF CheckpointOK, StateAt, Early
  <2>6. TaskOK(r)'
    BY <2>1, <2>2 DEF TaskOK, Working, Nodes
  <2>7. r \in executed' => ExecutedOK(r)'
    BY <1>2, <2>2, <2>4 DEF ExecutedOK, Entitled
  <2> QED
    BY <2>1, <2>2, <2>5, <2>6, <2>7, RunMoves
<1>16. CASE ArbitrateRaises(r) \/ SandboxRaises(r) \/ SendActionsRaises(r)
  <2>1. pc[r] \in {"arbitrate", "sandbox_verify", "execute_and_observe"} /\ RunFails(r)
    BY <1>16 DEF ArbitrateRaises, SandboxRaises, SendActionsRaises
  <2> QED
    BY <1>2, <2>1, RunFailsKeeps DEF ExecutedOK, Nodes
<1> QED
  BY <1>5, <1>6, <1>7, <1>8, <1>9, <1>10, <1>11, <1>12, <1>13, <1>14, <1>15, <1>16 DEF RunStep

\* A launch on a diagnosis: the run had none before, so no decision is lost.
LEMMA LaunchKeeps ==
    ASSUME IInv, NEW r \in Runs, NEW t \in Traces, pc[r] = "idle",
           NEW p \in {"launched", "resuming"}, NEW d \in Decisions \cup {"none"},
           pc' = [pc EXCEPT ![r] = p], owner' = [owner EXCEPT ![r] = t],
           given' = [given EXCEPT ![r] = d], resume' = [resume EXCEPT ![r] = d],
           p = "resuming" => d # "none" /\ ckpt[t].next # "none",
           UNCHANGED <<ckpt, local, executed>>
    PROVE  Gated_IInv'
<1>1. /\ pc'[r] = p /\ owner'[r] = t /\ given'[r] = d /\ resume'[r] = d
      /\ \A q \in Runs \ {r} : /\ pc'[q] = pc[q] /\ owner'[q] = owner[q]
                             /\ given'[q] = given[q] /\ resume'[q] = resume[q]
  BY DEF IInv, TypeOK
<1>2. owner[r] = NoTrace /\ local[r] = InitialState /\ r \notin executed
  BY DEF IInv, TaskOK, ExecutedOK
<1>3. ASSUME NEW u \in Traces PROVE Delivered(u) \subseteq Delivered(u)'
  BY <1>1, <1>2 DEF Delivered
<1>4. ASSUME NEW q \in Runs PROVE TaskOK(q)'
  <2>1. CASE q = r
    BY <1>1, <1>2, <2>1 DEF TaskOK, Working, Nodes
  <2>2. CASE q # r
    <3>1. TaskOK(q) /\ At(q)' = At(q)
      BY <1>1, <2>2 DEF IInv, At
    <3>2. pc[q] \in Working => StateAt(local[q], At(q), Delivered(owner[q])')
      <4>1. pc[q] \in Working => owner[q] \in Traces
        BY <3>1 DEF TaskOK, Working, Nodes
      <4> QED
        BY <1>1, <1>3, <2>2, <3>1, <4>1, MoreDelivered DEF TaskOK
    <3> QED
      BY <1>1, <2>2, <3>1, <3>2 DEF TaskOK, Entitled
  <2> QED
    BY <2>1, <2>2
<1>5. ASSUME NEW q \in executed PROVE ExecutedOK(q)'
  <2>1. q \in Runs /\ q # r /\ ExecutedOK(q) /\ owner[q] \in Traces
    BY <1>2, <1>5 DEF IInv, TypeOK, ExecutedOK, TaskOK
  <2>2. Delivered(owner[q]) \subseteq Delivered(owner[q])'
    BY <1>1, <1>3, <2>1
  <2> QED
    BY <1>1, <2>1, <2>2 DEF ExecutedOK, Entitled
<1>6. ASSUME NEW u \in Traces PROVE CheckpointOK(u)'
  <2>1. CheckpointOK(u)
    BY DEF IInv
  <2>2. (\E q \in Runs : owner[q] = u) => \E q \in Runs : owner'[q] = u
    BY <1>1, <1>2
  <2>3. ckpt[u].next # "none" => StateAt(ckpt[u].state, ckpt[u].next, Delivered(u)')
    BY <1>3, <2>1, MoreDelivered DEF CheckpointOK
  <2> QED
    BY <2>1, <2>2, <2>3 DEF CheckpointOK
<1> QED
  BY <1>4, <1>5, <1>6 DEF Gated_IInv

LEMMA ResumeKeeps ==
    ASSUME IInv, NEW r \in Runs, NEW t \in Traces, NEW d \in Decisions, Resume(t, d, r)
    PROVE  Gated_IInv'
<1>1. d # "none" /\ ckpt[t].next # "none"
  BY DEF Resume, ResumeAccepted, Decisions
<1> QED
  BY <1>1, LaunchKeeps DEF Resume

\* A step that changes neither runs nor checkpoints.
LEMMA OthersMove ==
    ASSUME IInv, UNCHANGED <<ckpt, runVars>>
    PROVE  Gated_IInv'
<1>1. UNCHANGED <<ckpt, pc, owner, local, given, resume, ticket, executed>>
  BY DEF runVars
<1>2. \A q : At(q)' = At(q) /\ Entitled(q)' = Entitled(q)
  BY <1>1 DEF At, Entitled
<1>3. \A t : Delivered(t)' = Delivered(t)
  BY <1>1 DEF Delivered
<1>4. ASSUME NEW q \in Runs PROVE TaskOK(q)'
  BY <1>1, <1>2, <1>3 DEF IInv, TaskOK
<1>5. ASSUME NEW q \in executed PROVE ExecutedOK(q)'
  BY <1>1, <1>2, <1>3, <1>5 DEF IInv, ExecutedOK
<1>6. ASSUME NEW t \in Traces PROVE CheckpointOK(t)'
  BY <1>1, <1>3 DEF IInv, CheckpointOK
<1> QED
  BY <1>1, <1>4, <1>5, <1>6 DEF Gated_IInv

LEMMA NextKeeps == IInv /\ [Next]_vars => Gated_IInv'
<1> SUFFICES ASSUME IInv, [Next]_vars PROVE Gated_IInv'
  OBVIOUS
<1>1. ASSUME NEW t \in Traces, NEW r \in Runs, CreateIncident(t, r) PROVE Gated_IInv'
  <2>1. pc[r] = "idle" /\ given[r] = "none" /\ resume[r] = "none"
    BY <1>1 DEF CreateIncident, IInv, TaskOK
  <2>2. given' = [given EXCEPT ![r] = "none"] /\ resume' = [resume EXCEPT ![r] = "none"]
    BY <1>1, <2>1 DEF CreateIncident, IInv, TypeOK
  <2> QED
    BY <1>1, <2>1, <2>2, LaunchKeeps DEF CreateIncident
<1>2. ASSUME NEW r \in Runs, RunStep(r) PROVE Gated_IInv'
  BY <1>2, RunStepKeeps
<1>3. ASSUME NEW a \in Approvals, NEW d \in Decisions, GatewayDecides(a, d) PROVE Gated_IInv'
  BY <1>3, OthersMove DEF GatewayDecides
<1>4. ASSUME NEW a \in Approvals, NEW r \in Runs, DecisionArrives(a, r) PROVE Gated_IInv'
  <2>1. approvals[a].trace \in Traces /\ approvals[a].status \in Decisions
    BY <1>4 DEF DecisionArrives, IInv, ApprovalOK
  <2> QED
    BY <1>4, <2>1, ResumeKeeps DEF DecisionArrives
<1>5. ASSUME NEW a \in Approvals, DecisionWithoutEffect(a) \/ GatewayExpires(a) PROVE Gated_IInv'
  BY <1>5, OthersMove DEF DecisionWithoutEffect, GatewayExpires
<1>6. ASSUME NEW t \in Traces, NEW d \in Decisions, NEW r \in Runs, OperatorResumes(t, d, r)
      PROVE Gated_IInv'
  BY <1>6, ResumeKeeps DEF OperatorResumes
<1>7. ASSUME GatewayRestarts PROVE Gated_IInv'
  BY <1>7, OthersMove DEF GatewayRestarts
<1>8. ASSUME SupervisorRestarts PROVE Gated_IInv'
  <2>1. /\ \A q \in Runs : pc'[q] = pc[q] \/ pc'[q] = "lost"
        /\ \A q \in Runs : pc'[q] = "lost" => pc[q] # "idle"
        /\ UNCHANGED <<owner, given, local, resume, ckpt, executed>>
    BY <1>8 DEF SupervisorRestarts, Live, Over
  <2>2. \A t : Delivered(t)' = Delivered(t)
    BY <2>1 DEF Delivered
  <2>3. ASSUME NEW q \in Runs PROVE TaskOK(q)'
    <3>1. TaskOK(q) /\ (pc'[q] = pc[q] => At(q)' = At(q))
      BY DEF IInv, At
    <3> QED
      BY <2>1, <2>2, <3>1 DEF TaskOK, Working, Nodes, Entitled
  <2>4. ASSUME NEW q \in executed PROVE ExecutedOK(q)'
    <3>1. q \in Runs /\ ExecutedOK(q)
      BY <2>4 DEF IInv, TypeOK
    <3> QED
      BY <2>1, <2>2, <3>1 DEF ExecutedOK, Entitled
  <2>5. ASSUME NEW t \in Traces PROVE CheckpointOK(t)'
    BY <2>1, <2>2 DEF IInv, CheckpointOK
  <2> QED
    BY <2>1, <2>3, <2>4, <2>5 DEF Gated_IInv
<1>9. ASSUME UNCHANGED vars PROVE Gated_IInv'
  BY <1>9, OthersMove DEF vars, runVars
<1> QED
  BY <1>1, <1>2, <1>3, <1>4, <1>5, <1>6, <1>7, <1>8, <1>9 DEF Next

\* Approvals in use belong to a diagnosis; a call in flight carries a decision.
LEMMA NextKeepsApprovals == IInv /\ [Next]_vars => \A a \in Approvals : ApprovalOK(a)'
<1> SUFFICES ASSUME IInv, [Next]_vars, NEW b \in Approvals PROVE ApprovalOK(b)'
  OBVIOUS
<1>1. ApprovalOK(b)
  BY DEF IInv
<1>2. CASE UNCHANGED approvals
  BY <1>1, <1>2 DEF ApprovalOK
<1>3. ASSUME NEW r \in Runs, RequestApproval(r) PROVE ApprovalOK(b)'
  <2>1. owner[r] \in Traces
    BY <1>3 DEF RequestApproval, IInv, TaskOK
  <2> QED
    BY <1>1, <1>3, <2>1 DEF RequestApproval, ApprovalOK, IInv, TypeOK
<1>4. ASSUME NEW a \in Approvals, NEW d \in Decisions, GatewayDecides(a, d) PROVE ApprovalOK(b)'
  BY <1>1, <1>4 DEF GatewayDecides, ApprovalOK, IInv, TypeOK, ApprovalRecords
<1>5. ASSUME NEW a \in Approvals, approvals' = [approvals EXCEPT ![a].calling = FALSE]
      PROVE ApprovalOK(b)'
  BY <1>1, <1>5 DEF ApprovalOK, IInv, TypeOK, ApprovalRecords
<1>6. ASSUME NEW a \in Approvals, GatewayExpires(a) PROVE ApprovalOK(b)'
  <2>1. /\ approvals'[b].trace = approvals[b].trace
        /\ approvals'[b].calling = approvals[b].calling
        /\ approvals'[b].status = IF b = a THEN "expired" ELSE approvals[b].status
    BY <1>6 DEF GatewayExpires, IInv, TypeOK, ApprovalRecords
  <2> QED
    BY <1>1, <1>6, <2>1 DEF GatewayExpires, ApprovalOK, Decisions
<1>7. ASSUME GatewayRestarts PROVE ApprovalOK(b)'
  <2>1. approvals'[b] = [approvals[b] EXCEPT
           !.status = IF @ = "pending" THEN "lost" ELSE @, !.calling = FALSE]
    BY <1>7 DEF GatewayRestarts
  <2>2. ~approvals'[b].calling
    BY <2>1 DEF IInv, TypeOK, ApprovalRecords
  <2>3. approvals'[b].status # "pending"
    BY <2>1 DEF IInv, TypeOK, ApprovalRecords
  <2> QED
    BY <2>2, <2>3 DEF ApprovalOK
<1> QED
  BY <1>2, <1>3, <1>4, <1>5, <1>6, <1>7
  DEF Next, vars, CreateIncident, RunStep, StartGraph, StartResume, RagPrefetch, DispatchExperts,
      Arbitrate, ArbitrateRaises, Interrupt, InterruptReturns, SandboxVerify, SandboxRaises,
      SendActions, SendActionsRaises, ObservationEnds, Review, RunFails,
      DecisionArrives, DecisionWithoutEffect, OperatorResumes, SupervisorRestarts

LEMMA NextIInv == IInv /\ [Next]_vars => IInv'
  BY NextTyped, NextKeeps, NextKeepsApprovals DEF IInv, Gated_IInv

THEOREM Invariance == Spec => []IInv
<1>1. Init => IInv
  BY InitIInv
<1>2. IInv /\ [Next]_vars => IInv'
  BY NextIInv
<1> QED
  BY <1>1, <1>2, PTL DEF Spec

----------------------------------------------------------------------------
(* The properties of the runs                                              *)

\* The type invariant of the supervisor's state holds for any number of
\* diagnoses, runs, approvals and restarts.
THEOREM TypeCorrect == Spec => []TypeOK
<1>1. IInv => TypeOK
  BY DEF IInv
<1> QED
  BY <1>1, Invariance, PTL

\* No interleaving of runs, callbacks and restarts carries a plan that requires
\* approval to the executor without a decision delivered to its diagnosis.
THEOREM ApprovalGateHolds == Spec => []ApprovalGate
<1>1. IInv => ApprovalGate
  BY DEF IInv, ExecutedOK, Entitled, Delivered, ApprovalGate
<1> QED
  BY <1>1, Invariance, PTL

\* Only a plan with a verdict that lets it pass is executed, also when the run
\* was resumed past the sandbox.
THEOREM ExecutedWasVerifiedHolds == Spec => []ExecutedWasVerified
<1>1. IInv => ExecutedWasVerified
  BY DEF IInv, ExecutedOK, Verified, ExecutedWasVerified
<1> QED
  BY <1>1, Invariance, PTL

\* The status callers read agrees with where the checkpoint stands, whichever
\* run wrote it last.
THEOREM StatusMatches == Spec => []StatusMatchesPosition
<1>1. ASSUME IInv, NEW t \in Traces, ckpt[t].next = "none"
      PROVE  ckpt[t].state.execution_status = "running"
  BY <1>1 DEF IInv, CheckpointOK, InitialState
<1>2. IInv => StatusMatchesPosition
  BY <1>1 DEF IInv, CheckpointOK, StateAt, StatusMatchesPosition
<1> QED
  BY <1>2, Invariance, PTL

\* A checkpoint past the interrupt keeps a decision that was delivered.
THEOREM DecisionDurable == Spec => []DecisionIsDurable
<1>1. ASSUME IInv, NEW t \in Traces, ckpt[t].state.requires_approval,
             ckpt[t].next \notin {"none", "hitl_interrupt"}
      PROVE  ckpt[t].state.approval_status \in Delivered(t)
  <2>1. StateAt(ckpt[t].state, ckpt[t].next, Delivered(t))
    BY <1>1 DEF IInv, CheckpointOK
  <2> QED
    BY <1>1, <2>1 DEF StateAt, InitialState
<1>2. IInv => DecisionIsDurable
  BY <1>1 DEF DecisionIsDurable, Delivered, Decisions
<1> QED
  BY <1>2, Invariance, PTL

\* The 409 of resume_diagnosis closes every diagnosis whose checkpoint is at END.
THEOREM ClosedHolds == Spec => ClosedStaysClosed
<1> DEFINE A == \A t \in Traces :
                  ckpt[t].next = "end" => \A r \in Runs : owner'[r] = t => owner[r] = t
<1>1. ASSUME IInv, [Next]_vars, NEW t \in Traces, ckpt[t].next = "end",
             NEW r \in Runs, owner'[r] = t, owner[r] # t
      PROVE  FALSE
  <2>1. /\ \E q \in Runs : owner[q] = t
        /\ ckpt[t].state.execution_status \notin {"running", "awaiting_approval"}
    BY <1>1 DEF IInv, CheckpointOK, StateAt
  <2>2. owner \in [Runs -> Traces \cup {NoTrace}]
    BY <1>1 DEF IInv, TypeOK
  <2>3. ASSUME NEW u \in Traces, NEW q \in Runs, CreateIncident(u, q) PROVE FALSE
    BY <1>1, <2>1, <2>2, <2>3 DEF CreateIncident
  <2>4. ASSUME NEW u, NEW d, NEW q \in Runs, Resume(u, d, q) PROVE FALSE
    BY <1>1, <2>1, <2>2, <2>4 DEF Resume, ResumeAccepted
  <2> QED
    BY <1>1, <2>3, <2>4
    DEF Next, vars, RunStep, StartGraph, StartResume, RagPrefetch, DispatchExperts, Arbitrate,
        ArbitrateRaises, RequestApproval, Interrupt, InterruptReturns, SandboxVerify,
        SandboxRaises, SendActions, SendActionsRaises, ObservationEnds, Review, RunFails, Advance,
        GatewayDecides, DecisionArrives, DecisionWithoutEffect, GatewayExpires, GatewayRestarts,
        OperatorResumes, SupervisorRestarts, runVars
<1>2. IInv /\ [Next]_vars => A
  BY <1>1
<1>3. Spec => [][A]_vars
  BY <1>2, Invariance, PTL DEF Spec
<1> QED
  BY <1>3 DEF ClosedStaysClosed

----------------------------------------------------------------------------
(* One arbitration                                                         *)

\* What arbitration decides and no later node changes.
Agree(s, c) ==
    /\ s.plan # "undetermined" /\ c.plan # "undetermined"
    /\ s.requires_approval = c.requires_approval
    /\ (s.plan = "no_plan") <=> (c.plan = "no_plan")

\* No other run is at work on the diagnosis of r.
Alone(r) == \A q \in Runs \ {r} : owner[q] = owner[r] => ~Live(q)

\* On a diagnosis that is not contended, a run before its arbitration is alone;
\* every later one agrees with the checkpoint it loaded or wrote, whoever wrote
\* it since.
RunFits(r) ==
    owner[r] \notin contended =>
        /\ pc[r] \in {"launched"} \cup Early =>
              ckpt[owner[r]].state.plan = "undetermined" /\ Alone(r)
        /\ pc[r] = "resuming" /\ ckpt[owner[r]].state.plan = "undetermined" => Alone(r)
        /\ pc[r] \in Working \ Early => Agree(local[r], ckpt[owner[r]].state)

Once == \A r \in Runs : RunFits(r)

\* No step changes in a checkpoint what arbitration decided.
Kept ==
    \A t \in Traces \ contended :
        ckpt[t].state.plan # "undetermined" => Agree(ckpt[t].state', ckpt[t].state)

LEMMA AgreeTransitive ==
    ASSUME NEW s, NEW c, NEW d, Agree(s, c), Agree(c, d)
    PROVE  Agree(s, d) /\ Agree(c, s)
  BY DEF Agree

\* The nodes after arbitration leave its decisions alone.
LEMMA NodesAgree ==
    ASSUME NEW s \in DiagnosisState, s.plan # "undetermined"
    PROVE  /\ Agree(s, s)
           /\ \A d, id : Agree(DecisionReceived(s, d, id), s)
           /\ s.plan # "no_plan" \/ s.approval_status = "rejected" =>
                 \A o \in SandboxOutcomes(s) : Agree(o, s)
           /\ \A x : Agree([s EXCEPT !.execution_status = x], s)
<1>1. Agree(s, s) /\ \A d, id : Agree(DecisionReceived(s, d, id), s)
  BY DEF Agree, DecisionReceived, DiagnosisState
<1>2. \A x : Agree([s EXCEPT !.execution_status = x], s)
  BY DEF Agree, DiagnosisState
<1>3. ASSUME NEW o \in SandboxOutcomes(s), s.plan # "no_plan" \/ s.approval_status = "rejected"
      PROVE  Agree(o, s)
  <2>1. o.requires_approval = s.requires_approval /\ o.plan \in {s.plan, "replaced", "unordered"}
    BY SandboxKeeps
  <2>2. CASE s.plan = "no_plan"
    <3>1. o = [s EXCEPT !.execution_status = "rejected", !.verdict = "skipped"]
      BY <1>3, <2>2 DEF SandboxOutcomes
    <3> QED
      BY <3>1 DEF Agree, DiagnosisState
  <2>3. CASE s.plan # "no_plan"
    BY <2>1, <2>3 DEF Agree
  <2> QED
    BY <2>2, <2>3
<1> QED
  BY <1>1, <1>2, <1>3

\* A checkpoint past arbitration does not stand before it.
LEMMA PastArbitration ==
    ASSUME IInv, NEW t \in Traces
    PROVE  ckpt[t].state.plan # "undetermined" <=> ckpt[t].next \notin Early \cup {"none"}
  BY DEF IInv, CheckpointOK, StateAt, InitialState, Early

\* A run writes the checkpoint of its diagnosis: what the others find there.
LEMMA RunWrites ==
    ASSUME IInv, Once, NEW r \in Runs, NEW n, NEW s \in DiagnosisState, owner[r] \in Traces,
           pc[r] \in {"launched"} \cup Working,
           ckpt' = [ckpt EXCEPT ![owner[r]] = [next |-> n, state |-> s]],
           pc[r] \in Working \ Early => Agree(s, local[r]),
           UNCHANGED <<owner, contended>>,
           \A q \in Runs \ {r} : pc'[q] = pc[q] /\ local'[q] = local[q],
           RunFits(r)'
    PROVE  Once' /\ Kept
<1> DEFINE t == owner[r]
<1>1. /\ ckpt'[t].state = s /\ \A u \in Traces \ {t} : ckpt'[u] = ckpt[u]
      /\ \A q \in Runs : RunFits(q)
  BY DEF IInv, TypeOK, Once
<1>2. ASSUME NEW q \in Runs \ {r}
      PROVE  /\ RunFits(q) /\ owner'[q] = owner[q] /\ pc'[q] = pc[q] /\ local'[q] = local[q]
             /\ Live(q)' = Live(q)
  BY <1>1 DEF Live
<1>3. Live(r) /\ pc[r] \notin Over
  BY DEF Live, Over, Working, Nodes
\* The runs of other diagnoses.
<1>4. ASSUME NEW q \in Runs \ {r}, owner[q] # t PROVE RunFits(q)'
  <2>1. pc[q] \in {"launched", "resuming"} \cup Working => ckpt'[owner[q]] = ckpt[owner[q]]
    <3>1. pc[q] \in {"launched", "resuming"} \cup Working => owner[q] \in Traces
      BY DEF IInv, TaskOK, Working, Nodes
    <3> QED
      BY <1>1, <1>4, <3>1
  <2>2. Alone(q) => Alone(q)'
    BY <1>2, <1>4 DEF Alone
  <2> QED
    BY <1>2, <2>1, <2>2 DEF RunFits, Working, Early, Nodes
<1>5. CASE t \in contended
  <2>1. ASSUME NEW q \in Runs \ {r} PROVE RunFits(q)'
    BY <1>2, <1>4, <1>5, <2>1 DEF RunFits
  <2>2. Kept
    BY <1>1, <1>5 DEF Kept, Agree
  <2> QED
    BY <2>1, <2>2 DEF Once
<1>6. CASE t \notin contended /\ pc[r] \in Working \ Early
  <2>1. Agree(s, ckpt[t].state)
    BY <1>1, <1>6, AgreeTransitive DEF RunFits
  <2>2. Kept
    BY <1>1, <2>1 DEF Kept, Agree
  <2>3. ASSUME NEW q \in Runs \ {r}, owner[q] = t PROVE RunFits(q)'
    <3>1. pc[q] \notin {"launched"} \cup Early
      BY <1>2, <1>6, <2>1, <2>3 DEF RunFits, Agree
    <3>2. pc[q] \in Working \ Early => Agree(local[q], s)
      <4>1. pc[q] \in Working \ Early => Agree(local[q], ckpt[t].state)
        BY <1>2, <1>6, <2>3 DEF RunFits
      <4>2. Agree(ckpt[t].state, s)
        BY <2>1 DEF Agree
      <4> QED
        BY <4>1, <4>2, AgreeTransitive
    <3>3. s.plan # "undetermined"
      BY <2>1 DEF Agree
    <3> QED
      BY <1>1, <1>2, <2>3, <3>1, <3>2, <3>3 DEF RunFits
  <2> QED
    BY <1>4, <2>2, <2>3 DEF Once
<1>7. CASE t \notin contended /\ pc[r] \in {"launched"} \cup Early
  <2>1. ckpt[t].state.plan = "undetermined" /\ Alone(r)
    BY <1>1, <1>7 DEF RunFits
  <2>2. Kept
    BY <1>1, <2>1 DEF Kept, Agree
  <2>3. ASSUME NEW q \in Runs \ {r}, owner[q] = t PROVE RunFits(q)'
    <3>1. pc'[q] \in Over
      BY <1>2, <2>1, <2>3 DEF Alone, Live
    <3> QED
      BY <3>1 DEF RunFits, Over, Working, Early, Nodes
  <2> QED
    BY <1>4, <2>2, <2>3 DEF Once
<1> QED
  BY <1>5, <1>6, <1>7

\* A step that writes no checkpoint, in which at most run r moves, and does not
\* come to life.
LEMMA NoWrite ==
    ASSUME IInv, Once, UNCHANGED <<ckpt, owner, contended>>, NEW r \in Runs,
           \A q \in Runs \ {r} : pc'[q] = pc[q] /\ local'[q] = local[q],
           Live(r)' => Live(r),
           RunFits(r)'
    PROVE  Once' /\ Kept
<1>1. ASSUME NEW q \in Runs \ {r} PROVE RunFits(q)'
  <2>1. RunFits(q) /\ pc'[q] = pc[q] /\ local'[q] = local[q]
    BY DEF Once
  <2>2. \A p \in Runs : Live(p)' => Live(p)
    BY DEF Live
  <2>3. Alone(q) => Alone(q)'
    BY <2>2 DEF Alone
  <2> QED
    BY <2>1, <2>3 DEF RunFits
<1>2. Kept
  BY DEF Kept, Agree
<1> QED
  BY <1>1, <1>2 DEF Once

LEMMA RunStepOnce ==
    ASSUME IInv, Once, NEW r \in Runs, RunStep(r)
    PROVE  Once' /\ Kept
<1>1. /\ TypeOK /\ TaskOK(r) /\ RunFits(r) /\ local[r] \in DiagnosisState
  BY DEF IInv, Once, TypeOK
<1>2. ASSUME NEW n, NEW s, Advance(r, n, s)
      PROVE  /\ owner' = owner /\ pc'[r] = n /\ local'[r] = s
             /\ \A q \in Runs \ {r} : pc'[q] = pc[q] /\ local'[q] = local[q]
             /\ ckpt' = [ckpt EXCEPT ![owner[r]] = [next |-> n, state |-> s]]
             /\ owner[r] \in Traces => ckpt'[owner[r]].state = s
  BY <1>1, <1>2 DEF Advance, TypeOK
<1>3. pc[r] # "idle" /\ owner[r] \in Traces
  <2>1. pc[r] # "idle"
    BY DEF RunStep, StartGraph, StartResume, RagPrefetch, DispatchExperts, Arbitrate, ArbitrateRaises,
           RequestApproval, Interrupt, InterruptReturns, SandboxVerify, SandboxRaises, SendActions,
           SendActionsRaises, ObservationEnds, Review
  <2> QED
    BY <1>1, <2>1 DEF TaskOK
\* Before arbitration.
<1>4. ASSUME NEW n \in Early, Advance(r, n, InitialState), pc[r] \in {"launched"} \cup Early, contended' = contended
      PROVE  Once' /\ Kept
  <2>0. /\ owner' = owner /\ pc'[r] = n
        /\ \A q \in Runs \ {r} : pc'[q] = pc[q] /\ local'[q] = local[q]
        /\ ckpt' = [ckpt EXCEPT ![owner[r]] = [next |-> n, state |-> InitialState]]
        /\ ckpt'[owner[r]].state = InitialState
    BY <1>2, <1>3, <1>4
  <2>1. ckpt'[owner[r]].state.plan = "undetermined"
    BY <2>0 DEF InitialState
  <2>a. owner[r] \notin contended => Alone(r)'
    <3>1. owner[r] \notin contended => Alone(r)
      BY <1>1, <1>4 DEF RunFits
    <3> QED
      BY <2>0, <3>1 DEF Alone, Live
  <2>2. RunFits(r)'
    BY <1>4, <2>0, <2>1, <2>a DEF RunFits, Early, Working, Nodes
  <2>3. /\ InitialState \in DiagnosisState /\ pc[r] \in {"launched"} \cup Working
        /\ pc[r] \notin Working \ Early
    BY <1>4, StatesTyped DEF Early, Working, Nodes
  <2> QED
    BY <1>3, <1>4, <2>0, <2>2, <2>3, RunWrites
\* After arbitration.
<1>5. ASSUME NEW n \in Nodes \ Early, NEW s \in DiagnosisState, Advance(r, n, s),
             pc[r] \in Working \ Early, Agree(s, local[r]), contended' = contended
      PROVE  Once' /\ Kept
  <2>1. Agree(s, s)
    BY <1>5 DEF Agree
  <2>2. RunFits(r)'
    BY <1>2, <1>3, <1>5, <2>1 DEF RunFits, Early, Working, Nodes
  <2> QED
    BY <1>2, <1>3, <1>5, <2>2, RunWrites
<1>6. ASSUME pc[r] \in Working \ Early PROVE local[r].plan # "undetermined"
  BY <1>1, <1>6 DEF TaskOK, StateAt, At, Early
<1>7. CASE StartGraph(r)
  BY <1>4, <1>7 DEF StartGraph, Early
<1>8. CASE RagPrefetch(r) \/ DispatchExperts(r)
  <2>1. pc[r] \in Early /\ local[r] = InitialState
    BY <1>1, <1>8 DEF RagPrefetch, DispatchExperts, Early, TaskOK, StateAt, At, Working, Nodes
  <2> QED
    BY <1>4, <1>8, <2>1 DEF RagPrefetch, DispatchExperts, Early
<1>9. CASE Arbitrate(r)
  <2>1. PICK plan \in {"no_plan", "empty", "actions"}, needs \in BOOLEAN :
           Advance(r, route_after_arbitrate(Arbitration(local[r], plan, needs)),
                   Arbitration(local[r], plan, needs))
    BY <1>9 DEF Arbitrate
  <2> DEFINE s == Arbitration(local[r], plan, needs)
             n == route_after_arbitrate(s)
  <2>a. s \in DiagnosisState
    BY <1>1, StatesTyped
  <2>b. s.plan = plan
    BY <1>1 DEF Arbitration, DiagnosisState
  <2>c. n \in {"hitl_interrupt", "sandbox_verify"}
    BY DEF route_after_arbitrate
  <2>2. s \in DiagnosisState /\ s.plan # "undetermined" /\ n \in {"hitl_interrupt", "sandbox_verify"}
    BY <2>a, <2>b, <2>c
  <2>3. pc[r] = "arbitrate" /\ contended' = contended
    BY <1>9 DEF Arbitrate
  <2>4. Advance(r, n, s)
    BY <2>1
  <2> HIDE DEF s, n
  <2>0. /\ owner' = owner /\ pc'[r] = n /\ local'[r] = s
        /\ \A q \in Runs \ {r} : pc'[q] = pc[q] /\ local'[q] = local[q]
        /\ ckpt' = [ckpt EXCEPT ![owner[r]] = [next |-> n, state |-> s]]
        /\ ckpt'[owner[r]].state = s
    BY <1>2, <1>3, <2>4
  <2>5. RunFits(r)'
    BY <2>0, <2>2 DEF RunFits, Early, Working, Nodes, Agree
  <2>6. pc[r] \in Early /\ pc[r] \in Working
    BY <2>3 DEF Early, Working, Nodes
  <2> QED
    BY <1>3, <2>0, <2>2, <2>3, <2>5, <2>6, RunWrites
<1>10. CASE InterruptReturns(r)
  <2>1. pc[r] \in Working \ Early /\ "sandbox_verify" \in Nodes \ Early /\ contended' = contended
    BY <1>10 DEF InterruptReturns, Working, Early, Nodes
  <2>2. DecisionReceived(local[r], resume[r], ticket[r]) \in DiagnosisState
    BY <1>1, <1>10, StatesTyped DEF InterruptReturns, TypeOK
  <2> QED
    BY <1>1, <1>5, <1>6, <1>10, <2>1, <2>2, NodesAgree DEF InterruptReturns
<1>11. CASE SandboxVerify(r)
  <2>1. PICK s \in SandboxOutcomes(local[r]) : Advance(r, route_after_sandbox_verify(s), s)
    BY <1>11 DEF SandboxVerify
  <2>2. pc[r] \in Working \ Early /\ route_after_sandbox_verify(s) \in Nodes \ Early /\ contended' = contended
    BY <1>11 DEF SandboxVerify, route_after_sandbox_verify, Working, Early, Nodes
  <2>3. s \in DiagnosisState /\ Agree(s, local[r])
    BY <1>1, <1>6, <1>11, <2>2, StatesTyped, NodesAgree DEF SandboxVerify
  <2> QED
    BY <1>5, <2>1, <2>2, <2>3
<1>12. CASE ObservationEnds(r)
  <2>1. PICK x \in {"success", "rollback_triggered"} :
           Advance(r, "review", [local[r] EXCEPT !.execution_status = x])
    BY <1>12 DEF ObservationEnds
  <2>2. pc[r] \in Working \ Early /\ "review" \in Nodes \ Early /\ contended' = contended
    BY <1>12 DEF ObservationEnds, Working, Early, Nodes
  <2>3. [local[r] EXCEPT !.execution_status = x] \in DiagnosisState
        /\ Agree([local[r] EXCEPT !.execution_status = x], local[r])
    BY <1>1, <1>6, <2>2, StatesTyped, NodesAgree
  <2> QED
    BY <1>5, <2>1, <2>2, <2>3
<1>13. CASE Review(r)
  <2>1. /\ pc[r] \in Working \ Early /\ owner' = owner /\ contended' = contended /\ pc'[r] = "done"
        /\ \A q \in Runs \ {r} : pc'[q] = pc[q] /\ local'[q] = local[q]
        /\ ckpt' = [ckpt EXCEPT ![owner[r]] = [next |-> "end", state |-> local[r]]]
    BY <1>1, <1>13 DEF Review, Working, Early, Nodes, TypeOK
  <2>2. Agree(local[r], local[r])
    BY <1>1, <1>6, <2>1, NodesAgree
  <2>3. RunFits(r)'
    BY <2>1 DEF RunFits, Early, Working, Nodes
  <2> QED
    BY <1>1, <1>3, <2>1, <2>2, <2>3, RunWrites
<1>14. CASE StartResume(r)
  <2>1. /\ ckpt' = ckpt /\ owner' = owner /\ contended' = contended /\ pc[r] = "resuming"
        /\ local'[r] = ckpt[owner[r]].state
        /\ pc'[r] = IF ckpt[owner[r]].next = "end" THEN "done" ELSE ckpt[owner[r]].next
        /\ \A q \in Runs \ {r} : pc'[q] = pc[q] /\ local'[q] = local[q]
    BY <1>1, <1>14 DEF StartResume, TypeOK
  <2>2. ckpt[owner[r]].next \in Nodes \cup {"end"}
    BY <1>1, <1>3, <2>1 DEF TaskOK, TypeOK, Checkpoints
  <2>3. Live(r) /\ pc'[r] \notin {"launched", "resuming"}
    BY <2>1, <2>2 DEF Nodes, Live, Over
  <2>4. RunFits(r)'
    <3>1. CASE ckpt[owner[r]].state.plan = "undetermined"
      <4>1. ckpt[owner[r]].next \in Early
        BY <1>3, <2>2, <3>1, PastArbitration DEF Nodes
      <4>2. owner[r] \notin contended => Alone(r)'
        <5>1. owner[r] \notin contended => Alone(r)
          BY <1>1, <2>1, <3>1 DEF RunFits
        <5> QED
          BY <2>1, <5>1 DEF Alone, Live
      <4> QED
        BY <2>1, <2>3, <3>1, <4>1, <4>2 DEF RunFits, Early
    <3>2. CASE ckpt[owner[r]].state.plan # "undetermined"
      <4>1. ckpt[owner[r]].next \notin Early
        BY <1>3, <3>2, PastArbitration
      <4>2. pc'[r] \notin Early
        BY <2>1, <4>1 DEF Early
      <4> QED
        BY <2>1, <2>3, <3>2, <4>2 DEF RunFits, Agree
    <3> QED
      BY <3>1, <3>2
  <2> QED
    BY <2>1, <2>3, <2>4, NoWrite
<1>15. CASE RequestApproval(r)
  <2>1. /\ ckpt' = ckpt /\ owner' = owner /\ local' = local /\ pc[r] = "hitl_interrupt" /\ pc'[r] = "interrupting"
        /\ contended' = contended /\ \A q \in Runs \ {r} : pc'[q] = pc[q]
    BY <1>1, <1>15 DEF RequestApproval, TypeOK
  <2>2. owner[r] \notin contended => Agree(local[r], ckpt[owner[r]].state)
    BY <1>1, <2>1 DEF RunFits, Working, Early, Nodes
  <2>3. RunFits(r)' /\ Live(r)
    BY <2>1, <2>2 DEF RunFits, Early, Live, Over
  <2> QED
    BY <2>1, <2>3, NoWrite
<1>16. CASE SendActions(r)
  <2>1. /\ ckpt' = ckpt /\ owner' = owner /\ local' = local /\ contended' = contended
        /\ pc[r] = "execute_and_observe" /\ pc'[r] = "observing"
        /\ \A q \in Runs \ {r} : pc'[q] = pc[q]
    BY <1>1, <1>16 DEF SendActions, TypeOK
  <2>2. RunFits(r)' /\ Live(r)
    BY <1>1, <2>1 DEF RunFits, Working, Early, Nodes, Live, Over
  <2> QED
    BY <2>1, <2>2, NoWrite
<1>17. CASE Interrupt(r) \/ ArbitrateRaises(r) \/ SandboxRaises(r) \/ SendActionsRaises(r)
  <2>1. /\ ckpt' = ckpt /\ owner' = owner /\ local' = local /\ contended' = contended
        /\ pc'[r] \in {"suspended", "failed"}
        /\ \A q \in Runs \ {r} : pc'[q] = pc[q]
    BY <1>1, <1>17 DEF Interrupt, ArbitrateRaises, SandboxRaises, SendActionsRaises, RunFails, TypeOK
  <2>2. RunFits(r)' /\ ~Live(r)'
    BY <2>1 DEF RunFits, Working, Early, Nodes, Live, Over
  <2> QED
    BY <2>1, <2>2, NoWrite
<1> QED
  BY <1>7, <1>8, <1>9, <1>10, <1>11, <1>12, <1>13, <1>14, <1>15, <1>16, <1>17 DEF RunStep

\* A launch: of a new diagnosis, or a resumption, which joins no run before
\* arbitration without making the diagnosis a contended one.
LEMMA LaunchOnce ==
    ASSUME IInv, Once, NEW t \in Traces, NEW r \in Runs, NEW point \in {"launched", "resuming"},
           pc[r] = "idle", pc' = [pc EXCEPT ![r] = point], owner' = [owner EXCEPT ![r] = t],
           UNCHANGED <<ckpt, local>>,
           contended \subseteq contended',
           ckpt[t].state.plan = "undetermined" /\ t \notin contended'
               => \A q \in Runs : owner[q] = t => ~Live(q),
           point = "launched" => ckpt[t].state.plan = "undetermined"
    PROVE  Once' /\ Kept
<1>1. /\ owner[r] = NoTrace /\ owner'[r] = t /\ pc'[r] = point
      /\ \A q \in Runs \ {r} : owner'[q] = owner[q] /\ pc'[q] = pc[q]
  BY DEF IInv, TaskOK, TypeOK
<1>2. RunFits(r)'
  <2>1. ckpt[t].state.plan = "undetermined" /\ t \notin contended' => Alone(r)'
    BY <1>1 DEF Alone, Live
  <2> QED
    BY <1>1, <2>1 DEF RunFits, Early, Working, Nodes
<1>3. ASSUME NEW q \in Runs \ {r} PROVE RunFits(q)'
  <2>1. RunFits(q) /\ owner'[q] = owner[q] /\ pc'[q] = pc[q]
    BY <1>1 DEF Once
  <2>2. CASE owner[q] # t
    <3>1. Alone(q) => Alone(q)'
      BY <1>1, <2>2 DEF Alone, Live
    <3> QED
      BY <2>1, <3>1 DEF RunFits
  <2>3. CASE owner[q] = t /\ ckpt[t].state.plan = "undetermined" /\ t \notin contended'
    <3>1. pc[q] \in Over
      BY <2>3 DEF Live
    <3> QED
      BY <2>1, <3>1 DEF RunFits, Over, Working, Early, Nodes
  <2>4. CASE owner[q] = t /\ (ckpt[t].state.plan # "undetermined" \/ t \in contended')
    BY <2>1, <2>4 DEF RunFits
  <2> QED
    BY <2>2, <2>3, <2>4
<1>4. Kept
  BY DEF Kept, Agree
<1> QED
  BY <1>2, <1>3, <1>4 DEF Once

LEMMA NextOnce == IInv /\ Once /\ [Next]_vars => Once' /\ Kept
<1> SUFFICES ASSUME IInv, Once, [Next]_vars PROVE Once' /\ Kept
  OBVIOUS
<1>1. ASSUME NEW t \in Traces, NEW r \in Runs, CreateIncident(t, r) PROVE Once' /\ Kept
  <2>1. ckpt[t].state.plan = "undetermined"
    BY <1>1, PastArbitration DEF CreateIncident, IInv, CheckpointOK
  <2> QED
    BY <1>1, <2>1, LaunchOnce DEF CreateIncident
<1>2. ASSUME NEW t \in Traces, NEW d, NEW r \in Runs, Resume(t, d, r) PROVE Once' /\ Kept
  <2>1. contended \subseteq contended' /\ (Contends(t) => t \in contended')
    BY <1>2 DEF Resume
  <2> QED
    BY <1>2, <2>1, LaunchOnce DEF Resume, Contends
<1>3. ASSUME NEW a \in Approvals, NEW r \in Runs, DecisionArrives(a, r) PROVE Once' /\ Kept
  <2>1. approvals[a].trace \in Traces
    BY <1>3 DEF DecisionArrives, IInv, ApprovalOK
  <2> QED
    BY <1>2, <1>3, <2>1 DEF DecisionArrives
<1>4. ASSUME NEW t \in Traces, NEW d \in Decisions, NEW r \in Runs, OperatorResumes(t, d, r) PROVE Once' /\ Kept
  BY <1>2, <1>4 DEF OperatorResumes
\* Where no run and no checkpoint changes, or only a restart ends runs.
<1>5. ASSUME UNCHANGED <<ckpt, owner, local, contended>>, \A r \in Runs : pc'[r] \in {pc[r], "lost"}
      PROVE  Once' /\ Kept
  <2>1. ASSUME NEW r \in Runs PROVE RunFits(r)'
    <3>1. RunFits(r) /\ pc'[r] \in {pc[r], "lost"}
      BY <1>5 DEF Once
    <3>2. Alone(r) => Alone(r)'
      BY <1>5 DEF Alone, Live, Over
    <3> QED
      BY <1>5, <3>1, <3>2 DEF RunFits, Working, Early, Nodes
  <2>2. Kept
    BY <1>5 DEF Kept, Agree
  <2> QED
    BY <2>1, <2>2 DEF Once
<1>6. ASSUME NEW a \in Approvals, NEW d \in Decisions, GatewayDecides(a, d) PROVE Once' /\ Kept
  BY <1>5, <1>6 DEF GatewayDecides, runVars
<1>7. ASSUME NEW a \in Approvals, DecisionWithoutEffect(a) \/ GatewayExpires(a) PROVE Once' /\ Kept
  BY <1>5, <1>7 DEF DecisionWithoutEffect, GatewayExpires, runVars
<1>8. ASSUME GatewayRestarts PROVE Once' /\ Kept
  BY <1>5, <1>8 DEF GatewayRestarts, runVars
<1>9. ASSUME SupervisorRestarts PROVE Once' /\ Kept
  BY <1>5, <1>9 DEF SupervisorRestarts
<1>10. ASSUME UNCHANGED vars PROVE Once' /\ Kept
  BY <1>5, <1>10 DEF vars
<1>11. ASSUME NEW r \in Runs, RunStep(r) PROVE Once' /\ Kept
  BY <1>11, RunStepOnce
<1> QED
  BY <1>1, <1>3, <1>4, <1>6, <1>7, <1>8, <1>9, <1>10, <1>11 DEF Next

\* Whatever runs are resumed on a diagnosis, unless one of them joins a run still
\* before arbitration, none of them goes back before it, and no step changes
\* what it decided.
THEOREM ArbitratedOnceHolds == Spec => ArbitratedOnce
<1>1. Init => Once
  BY DEF Init, Once, RunFits, Early, Working, Nodes
<1>2. IInv /\ Once /\ [Next]_vars => Once'
  BY NextOnce
<1>3. IInv /\ Once /\ [Next]_vars => [Kept]_vars
  BY NextOnce
<1>4. Spec => [][Kept]_vars
  BY <1>1, <1>2, <1>3, Invariance, PTL DEF Spec
<1>5. [][Kept]_vars => ArbitratedOnce
  <2>1. [Kept]_vars => [\A t \in Traces \ contended :
             LET before == ckpt[t].state  after == ckpt'[t].state IN
             before.plan # "undetermined" =>
                 /\ after.plan # "undetermined"
                 /\ after.requires_approval = before.requires_approval
                 /\ (before.plan = "no_plan") <=> (after.plan = "no_plan")]_vars
    BY DEF Kept, Agree
  <2> QED
    BY <2>1, PTL DEF ArbitratedOnce
<1> QED
  BY <1>4, <1>5

----------------------------------------------------------------------------
(* The refinement of GatedExecution                                        *)

decidedTraces == {t \in Traces : \E r \in Runs : owner[r] = t /\ given[r] # "none"}
gatedVars == <<owner, decidedTraces, clearance, executed>>

\* How a graph state is cleared.
Cleared(s) ==
    IF s.plan = "undetermined" THEN "none"
    ELSE IF ~s.requires_approval THEN "low_risk"
    ELSE IF s.approval_status # "none" THEN "human" ELSE "none"

LEMMA InitGated == Init => Gated!Init
  BY DEF Init, Gated!Init, clearance, InitialState

\* A step that changes one run's graph state maps to a stutter or to Clear.
LEMMA ClearsOrStutters ==
    ASSUME IInv, NEW r \in Runs, NEW s \in DiagnosisState,
           UNCHANGED <<owner, given, executed>>,
           local' = [local EXCEPT ![r] = s],
           \/ Cleared(s) = Cleared(local[r])
           \/ /\ Cleared(local[r]) = "none"
              /\ Cleared(s) = "human" => owner[r] \in decidedTraces
    PROVE  [Gated!Next]_gatedVars
<1>1. clearance = [q \in Runs |-> Cleared(local[q])]
  BY DEF clearance, Cleared
<1>2. clearance' = [clearance EXCEPT ![r] = Cleared(s)]
  BY <1>1 DEF clearance, Cleared, IInv, TypeOK
<1>3. decidedTraces' = decidedTraces
  BY DEF decidedTraces
<1>4. CASE Cleared(s) = Cleared(local[r])
  BY <1>1, <1>2, <1>3, <1>4 DEF gatedVars
<1>5. CASE Cleared(local[r]) = "none" /\ Cleared(s) # "none"
             /\ (Cleared(s) = "human" => owner[r] \in decidedTraces)
  <2>1. Cleared(s) \in {"low_risk", "human"} /\ clearance[r] = "none"
    BY <1>1, <1>5 DEF Cleared
  <2>2. Gated!Clear(r, Cleared(s))
    BY <1>2, <1>3, <1>5, <2>1 DEF Gated!Clear, decidedTraces
  <2> QED
    BY <2>1, <2>2 DEF Gated!Next
<1> QED
  BY <1>4, <1>5

LEMMA LaunchGated ==
    ASSUME IInv, NEW r \in Runs, NEW t \in Traces, pc[r] = "idle",
           NEW d \in Decisions \cup {"none"},
           owner' = [owner EXCEPT ![r] = t], given' = [given EXCEPT ![r] = d],
           UNCHANGED <<local, executed>>
    PROVE  [Gated!Next]_gatedVars
<1>1. owner[r] = NoTrace /\ given[r] = "none"
  BY DEF IInv, TaskOK
<1>2. /\ owner'[r] = t /\ given'[r] = d
      /\ \A q \in Runs \ {r} : owner'[q] = owner[q] /\ given'[q] = given[q]
  BY DEF IInv, TypeOK
<1>3. decidedTraces' = IF d = "none" THEN decidedTraces ELSE decidedTraces \cup {t}
  BY <1>1, <1>2 DEF decidedTraces
<1>4. clearance' = clearance
  BY DEF clearance
<1>5. Gated!Launch(r, t)
  BY <1>1, <1>3, <1>4 DEF Gated!Launch, decidedTraces
<1> QED
  BY <1>5 DEF Gated!Next

LEMMA StutterGated ==
    ASSUME UNCHANGED <<owner, given, local, executed>>
    PROVE  [Gated!Next]_gatedVars
  BY DEF gatedVars, decidedTraces, clearance

LEMMA RunStepGated ==
    ASSUME IInv, NEW r \in Runs, RunStep(r)
    PROVE  [Gated!Next]_gatedVars
<1>1. TaskOK(r) /\ local[r] \in DiagnosisState /\ (r \in executed => ExecutedOK(r))
  BY DEF IInv, TypeOK
<1>2. ASSUME pc[r] \in Working PROVE StateAt(local[r], At(r), Delivered(owner[r]))
  BY <1>1, <1>2 DEF TaskOK
<1>3. ASSUME pc[r] # "idle", given[r] # "none" PROVE owner[r] \in decidedTraces
  BY <1>1, <1>3 DEF TaskOK, decidedTraces
<1>4. ASSUME NEW n, NEW s, Advance(r, n, s)
      PROVE  UNCHANGED <<owner, given>> /\ local' = [local EXCEPT ![r] = s]
  BY <1>4 DEF Advance
<1>5. CASE StartGraph(r)
  <2>1. local[r] = InitialState
    BY <1>1, <1>5 DEF StartGraph, TaskOK
  <2> QED
    BY <1>4, <1>5, <2>1, StatesTyped, ClearsOrStutters DEF StartGraph
<1>6. CASE StartResume(r)
  <2>1. /\ local[r] = InitialState /\ owner[r] \in decidedTraces /\ owner[r] \in Traces
    BY <1>1, <1>3, <1>6 DEF StartResume, TaskOK
  <2>2. Cleared(local[r]) = "none"
    BY <2>1 DEF Cleared, InitialState
  <2>3. ckpt[owner[r]].state \in DiagnosisState
    BY <2>1 DEF IInv, TypeOK, Checkpoints
  <2> QED
    BY <1>6, <2>1, <2>2, <2>3, ClearsOrStutters DEF StartResume
<1>7. CASE RagPrefetch(r) \/ DispatchExperts(r)
  <2>1. PICK n : Advance(r, n, local[r]) /\ executed' = executed
    BY <1>7 DEF RagPrefetch, DispatchExperts
  <2> QED
    BY <1>1, <1>4, <2>1, ClearsOrStutters
<1>8. CASE Arbitrate(r)
  <2>1. PICK plan \in {"no_plan", "empty", "actions"}, needs \in BOOLEAN :
           Advance(r, route_after_arbitrate(Arbitration(local[r], plan, needs)),
                   Arbitration(local[r], plan, needs))
    BY <1>8 DEF Arbitrate
  <2> DEFINE s == Arbitration(local[r], plan, needs)
  <2>2. local[r] = InitialState /\ executed' = executed
    BY <1>2, <1>8 DEF Arbitrate, Working, Nodes, At, StateAt, Early
  <2>3. s.approval_status = "none"
    BY <2>2 DEF InitialState, Arbitration
  <2>4. Cleared(local[r]) = "none" /\ Cleared(s) # "human"
    BY <2>2, <2>3 DEF Cleared, InitialState
  <2>5. s \in DiagnosisState
    BY <1>1, StatesTyped
  <2> QED
    BY <1>4, <2>1, <2>2, <2>4, <2>5, ClearsOrStutters
<1>9. CASE InterruptReturns(r)
  <2> DEFINE s == DecisionReceived(local[r], resume[r], ticket[r])
  <2>1. /\ pc[r] = "interrupting" /\ resume[r] # "none" /\ Advance(r, "sandbox_verify", s)
        /\ executed' = executed
    BY <1>9 DEF InterruptReturns
  <2>2. given[r] # "none" /\ resume[r] \in Decisions
    BY <1>1, <2>1 DEF TaskOK, IInv, TypeOK
  <2>3. local[r].requires_approval /\ local[r].approval_status = "none"
    BY <1>2, <2>1 DEF At, Working, StateAt
  <2>4. s \in DiagnosisState
    BY <1>1, <2>2, StatesTyped DEF IInv, TypeOK
  <2>5. Cleared(local[r]) = "none"
    BY <2>3 DEF Cleared
  <2> QED
    BY <1>3, <1>4, <2>1, <2>2, <2>4, <2>5, ClearsOrStutters
<1>10. CASE SandboxVerify(r)
  <2>1. PICK s \in SandboxOutcomes(local[r]) : Advance(r, route_after_sandbox_verify(s), s)
    BY <1>10 DEF SandboxVerify
  <2>2. local[r].plan # "undetermined" /\ executed' = executed
    BY <1>2, <1>10 DEF SandboxVerify, Working, Nodes, At, StateAt, Early
  <2>3. /\ s.requires_approval = local[r].requires_approval
        /\ s.approval_status = local[r].approval_status
        /\ s.plan \in {local[r].plan, "replaced", "unordered"}
    BY <1>1, SandboxKeeps
  <2>4. Cleared(s) = Cleared(local[r]) /\ s \in DiagnosisState
    BY <1>1, <2>2, <2>3, StatesTyped DEF Cleared
  <2> QED
    BY <1>4, <2>1, <2>2, <2>4, ClearsOrStutters
<1>11. CASE SendActions(r)
  <2>1. StateAt(local[r], "execute_and_observe", Delivered(owner[r])) /\ r \notin executed
    BY <1>1, <1>2, <1>11 DEF SendActions, Working, Nodes, At, ExecutedOK
  <2>2. Cleared(local[r]) # "none"
    BY <2>1 DEF StateAt, Early, Cleared, Delivered, Decisions
  <2>3. clearance[r] # "none"
    BY <2>2 DEF clearance, Cleared
  <2>4. UNCHANGED <<owner, decidedTraces, clearance>>
    BY <1>11 DEF SendActions, decidedTraces, clearance
  <2>5. CASE executed' = executed
    BY <2>4, <2>5 DEF gatedVars
  <2>6. CASE executed' = executed \cup {r}
    <3>1. Gated!Execute(r)
      BY <2>1, <2>3, <2>4, <2>6 DEF Gated!Execute, decidedTraces
    <3> QED
      BY <3>1 DEF Gated!Next
  <2> QED
    BY <1>11, <2>5, <2>6 DEF SendActions
<1>12. CASE ObservationEnds(r)
  <2>1. PICK x \in {"success", "rollback_triggered"} :
           Advance(r, "review", [local[r] EXCEPT !.execution_status = x])
    BY <1>12 DEF ObservationEnds
  <2> DEFINE s == [local[r] EXCEPT !.execution_status = x]
  <2>2. Cleared(s) = Cleared(local[r]) /\ s \in DiagnosisState
    BY <1>1, StatesTyped DEF Cleared, DiagnosisState
  <2> QED
    BY <1>4, <1>12, <2>1, <2>2, ClearsOrStutters DEF ObservationEnds
<1>13. CASE RequestApproval(r) \/ Interrupt(r) \/ Review(r)
            \/ ArbitrateRaises(r) \/ SandboxRaises(r) \/ SendActionsRaises(r)
  BY <1>13, StutterGated DEF RequestApproval, Interrupt, Review, ArbitrateRaises,
     SandboxRaises, SendActionsRaises, RunFails
<1> QED
  BY <1>5, <1>6, <1>7, <1>8, <1>9, <1>10, <1>11, <1>12, <1>13 DEF RunStep

LEMMA NextGated == IInv /\ [Next]_vars => [Gated!Next]_gatedVars
<1> SUFFICES ASSUME IInv, [Next]_vars PROVE [Gated!Next]_gatedVars
  OBVIOUS
<1>1. ASSUME NEW t \in Traces, NEW r \in Runs, CreateIncident(t, r)
      PROVE  [Gated!Next]_gatedVars
  <2>1. given' = [given EXCEPT ![r] = "none"]
    BY <1>1 DEF CreateIncident, IInv, TaskOK, TypeOK
  <2> QED
    BY <1>1, <2>1, LaunchGated DEF CreateIncident
<1>2. ASSUME NEW t \in Traces, NEW d \in Decisions, NEW r \in Runs, Resume(t, d, r)
      PROVE  [Gated!Next]_gatedVars
  BY <1>2, LaunchGated DEF Resume
<1>3. ASSUME NEW a \in Approvals, NEW r \in Runs, DecisionArrives(a, r)
      PROVE  [Gated!Next]_gatedVars
  BY <1>2, <1>3 DEF DecisionArrives, IInv, ApprovalOK
<1>4. ASSUME NEW t \in Traces, NEW d \in Decisions, NEW r \in Runs, OperatorResumes(t, d, r)
      PROVE  [Gated!Next]_gatedVars
  BY <1>2, <1>4 DEF OperatorResumes
<1>5. ASSUME NEW r \in Runs, RunStep(r) PROVE [Gated!Next]_gatedVars
  BY <1>5, RunStepGated
<1>6. ASSUME UNCHANGED <<owner, given, local, executed>> PROVE [Gated!Next]_gatedVars
  BY <1>6, StutterGated
<1> QED
  BY <1>1, <1>3, <1>4, <1>5, <1>6 DEF Next, vars, GatewayDecides, DecisionWithoutEffect,
     GatewayExpires, GatewayRestarts, SupervisorRestarts, runVars

\* The supervisor carries out plans as GatedExecution promises: every step of
\* the pipeline is a launch, a clearance, an execution or nothing at all.
THEOREM Refinement == Spec => ImplementsGatedExecution
<1>1. Init => Gated!Init
  BY InitGated
<1>2. IInv /\ [Next]_vars => [Gated!Next]_(Gated!vars)
  BY NextGated DEF Gated!vars, gatedVars, decidedTraces
<1>3. Spec => Gated!Spec
  BY <1>1, <1>2, Invariance, PTL DEF Spec, Gated!Spec
<1> QED
  BY <1>3 DEF ImplementsGatedExecution
====

---- MODULE GatedExecution ----
(***************************************************************************)
(* What the diagnosis pipeline promises about carrying out a self-healing  *)
(* plan, whatever the order of callbacks, restarts and graph runs:         *)
(*   - a graph run executes the plan at most once;                         *)
(*   - it does so only after it was cleared: the plan is low risk, or a    *)
(*     human decision was delivered to the diagnosis the run works on.     *)
(* DiagnosisPipeline is shown to implement this specification.             *)
(***************************************************************************)
CONSTANTS Traces,   \* diagnoses (supervisor_trace_id)
          Runs,     \* executions of the graph, one per asyncio task
          NoTrace   \* the diagnosis of a run that was not launched

VARIABLES work,      \* the diagnosis each run works on
          decided,   \* the diagnoses to which a human decision was delivered
          clearance, \* how each run was cleared, "none" before that
          executed   \* the runs that have sent the plan to the executor

vars == <<work, decided, clearance, executed>>

TypeOK ==
    /\ work \in [Runs -> Traces \cup {NoTrace}]
    /\ decided \subseteq Traces
    /\ clearance \in [Runs -> {"none", "low_risk", "human"}]
    /\ executed \subseteq Runs

Init ==
    /\ work = [r \in Runs |-> NoTrace]
    /\ decided = {}
    /\ clearance = [r \in Runs |-> "none"]
    /\ executed = {}

\* Run r starts to work on diagnosis t, for a new incident or because a
\* human decision on t has arrived.
Launch(r, t) ==
    /\ work[r] = NoTrace
    /\ work' = [work EXCEPT ![r] = t]
    /\ decided' \in {decided, decided \cup {t}}
    /\ UNCHANGED <<clearance, executed>>

\* Run r is cleared to execute.
Clear(r, how) ==
    /\ clearance[r] = "none"
    /\ how = "human" => work[r] \in decided
    /\ clearance' = [clearance EXCEPT ![r] = how]
    /\ UNCHANGED <<work, decided, executed>>

\* A cleared run executes the plan; it never does so again.
Execute(r) ==
    /\ clearance[r] # "none"
    /\ r \notin executed
    /\ executed' = executed \cup {r}
    /\ UNCHANGED <<work, decided, clearance>>

Next ==
    \E r \in Runs :
        \/ \E t \in Traces : Launch(r, t)
        \/ \E how \in {"low_risk", "human"} : Clear(r, how)
        \/ Execute(r)

Spec == Init /\ [][Next]_vars
====

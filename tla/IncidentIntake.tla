---- MODULE IncidentIntake ----
(***************************************************************************)
(* From the webhook sink to one graph run per incident                     *)
(* (flink/.../sink/WebhookSink.java, agent-supervisor/app/main.py): the    *)
(* sink's attempts and timeouts, the duplicate check with its awaits, and  *)
(* as much of the runs as it looks at.                                     *)
(*                                                                         *)
(* A diagnosis may have any number of runs at a time: /resume looks at its *)
(* checkpoint alone.  Each run has a status of its own in memory, writes   *)
(* it over that of the checkpoint with every superstep, and drops the      *)
(* diagnosis's entry of _active_configs when it ends.                      *)
(***************************************************************************)
EXTENDS Integers

CONSTANTS
    Incidents,   \* records with a field node
    Requests,    \* handlers of POST /api/v1/incident that may be open at a time
    Traces,
    Runs,        \* asyncio tasks of _run_graph; bounds how many are ever launched
    NoIncident, NoRequest, NoTrace

ASSUME IntakeAssumption == NoRequest \notin Requests /\ NoTrace \notin Traces

VARIABLES
    sink,       \* WebhookSink.invoke
    requests,   \* the open create_incident calls
    configs,    \* _active_configs
    progress,   \* the incident and the status in the checkpoint of a diagnosis
    runs,       \* run -> its diagnosis, where its task is, the status in its memory
    missed      \* history: diagnoses a duplicate check did not or may not see

intakeVars == <<sink, requests, configs, progress, runs, missed>>

----------------------------------------------------------------------------
MAX_RETRIES == 3

\* Mutant: a diagnosis that waits for its approval is not looked for.
ActiveButWaiting == {"running"}

\* The statuses the duplicate check refuses for; the two others it names, ""
\* and "observing", are never written.
ActiveStatuses == {"running", "awaiting_approval"}
TerminalStatuses == {"success", "rollback_triggered"}
Statuses == {"none", "running", "awaiting_approval", "rejected", "blocked_by_sandbox"} \cup TerminalStatuses

\* A task that was created but has not taken its first step, one that carries a
\* decision into the interrupt, one in a node; then those that are over.
AtWork == {"launched", "resuming", "answering", "running"}
Tasks == {"unused", "paused", "ended", "lost"} \cup AtWork

RunsOf(t) == {r \in Runs : runs[r].trace = t}
Busy(t) == \E r \in RunsOf(t) : runs[r].task \in AtWork
BusyBeside(r) == \E q \in RunsOf(runs[r].trace) \ {r} : runs[q].task \in AtWork

Unfinished(t) ==
    \/ progress[t].status \in {"running", "awaiting_approval"}
    \/ \E r \in RunsOf(t) : runs[r].task = "launched"

UnfinishedTraces == {t \in Traces : Unfinished(t)}

NodeOf(t) == progress[t].incident.node

IntakeTypeOK ==
    /\ sink.pc \in {"idle", "calling", "waiting"}
    /\ sink.attempt \in 1 .. MAX_RETRIES
    /\ sink.request \in Requests \cup {NoRequest}
    /\ sink.pc = "waiting" => sink.request \in Requests
    /\ DOMAIN requests = Requests
    /\ \A h \in Requests :
          /\ requests[h].pc \in {"free", "checking", "accepted", "refused"}
          /\ requests[h].todo \in SUBSET Traces
    /\ configs \in SUBSET Traces
    /\ DOMAIN progress = Traces
    /\ \A t \in Traces : progress[t].status \in Statuses
    /\ runs \in [Runs -> [trace : Traces \cup {NoTrace}, task : Tasks, status : Statuses]]
    /\ missed \in SUBSET Traces

Free == [pc |-> "free", incident |-> NoIncident, todo |-> {}]
IdleSink == [pc |-> "idle", incident |-> NoIncident, attempt |-> 1, request |-> NoRequest]

IntakeInit ==
    /\ sink = IdleSink
    /\ requests = [h \in Requests |-> Free]
    /\ configs = {}
    /\ progress = [t \in Traces |-> [incident |-> NoIncident, status |-> "none"]]
    /\ runs = [r \in Runs |-> [trace |-> NoTrace, task |-> "unused", status |-> "none"]]
    /\ missed = {}

----------------------------------------------------------------------------
(* The sink *)

\* After an exception, a 429 or any other answer that is no success; the
\* incident is dropped when the attempts are used up.
AnotherTry ==
    IF sink.attempt < MAX_RETRIES
    THEN [sink EXCEPT !.pc = "calling", !.attempt = @ + 1, !.request = NoRequest]
    ELSE IdleSink

SinkTakes(incident) ==
    /\ sink.pc = "idle"
    /\ sink' = [IdleSink EXCEPT !.pc = "calling", !.incident = incident]
    /\ UNCHANGED <<requests, configs, progress, runs, missed>>

\* The handler starts with a snapshot of _active_configs.
SinkCalls(h) ==
    /\ sink.pc = "calling" /\ requests[h].pc = "free"
    /\ sink' = [sink EXCEPT !.pc = "waiting", !.request = h]
    /\ requests' = [requests EXCEPT ![h] = [pc |-> "checking", incident |-> sink.incident, todo |-> configs]]
    /\ UNCHANGED <<configs, progress, runs, missed>>

SinkUnreachable ==
    /\ sink.pc = "calling"
    /\ sink' = AnotherTry
    /\ UNCHANGED <<requests, configs, progress, runs, missed>>

\* The handler goes on without a listener; what it answered is lost.
SinkTimesOut ==
    /\ sink.pc = "waiting"
    /\ sink' = AnotherTry
    /\ requests' = [requests EXCEPT
                       ![sink.request] = IF @.pc = "checking" THEN @ ELSE Free]
    /\ UNCHANGED <<configs, progress, runs, missed>>

SinkHears ==
    /\ sink.pc = "waiting"
    /\ requests[sink.request].pc \in {"accepted", "refused"}
    /\ sink' = IF requests[sink.request].pc = "accepted" THEN IdleSink ELSE AnotherTry
    /\ requests' = [requests EXCEPT ![sink.request] = Free]
    /\ UNCHANGED <<configs, progress, runs, missed>>

Answered(h, answer) ==
    IF sink.pc = "waiting" /\ sink.request = h THEN [requests[h] EXCEPT !.pc = answer, !.todo = {}] ELSE Free

----------------------------------------------------------------------------
(* create_incident: one diagnosis of the snapshot per await *)

Checked(h, t) == requests' = [requests EXCEPT ![h].todo = @ \ {t}]

Checks(h, t) == requests[h].pc = "checking" /\ t \in requests[h].todo

SameNode(h, t) == NodeOf(t) = requests[h].incident.node

\* A diagnosis whose task has not written its first checkpoint counts as stale.
PurgesUnborn(h, t) ==
    /\ Checks(h, t)
    /\ progress[t].status = "none"
    /\ configs' = configs \ {t}
    /\ missed' = missed \cup {t}
    /\ Checked(h, t)
    /\ UNCHANGED <<sink, progress, runs>>

\* So does one whose last checkpoint reads finished, though a run of it may
\* still be at work.
PurgesFinished(h, t) ==
    /\ Checks(h, t)
    /\ progress[t].status \in TerminalStatuses
    /\ configs' = configs \ {t}
    /\ missed' = IF Busy(t) THEN missed \cup {t} ELSE missed
    /\ Checked(h, t)
    /\ UNCHANGED <<sink, progress, runs>>

Refuses(h, t) ==
    /\ Checks(h, t)
    /\ progress[t].status \in ActiveStatuses /\ SameNode(h, t)
    /\ requests' = [requests EXCEPT ![h] = Answered(h, "refused")]
    /\ UNCHANGED <<sink, configs, progress, runs, missed>>

\* Another node's diagnosis, or one that was turned down or blocked, as far as
\* its last checkpoint says.
PassesOver(h, t) ==
    /\ Checks(h, t)
    /\ progress[t].status \notin TerminalStatuses \cup {"none"}
    /\ ~(progress[t].status \in ActiveStatuses /\ SameNode(h, t))
    /\ missed' = IF SameNode(h, t) /\ Busy(t) THEN missed \cup {t} ELSE missed
    /\ Checked(h, t)
    /\ UNCHANGED <<sink, configs, progress, runs>>

\* An exception of aget_state is swallowed.
CheckRaises(h, t) ==
    /\ Checks(h, t)
    /\ missed' = missed \cup {t}
    /\ Checked(h, t)
    /\ UNCHANGED <<sink, configs, progress, runs>>

\* Requests for the same node that are still checking will not see the new one.
Races(h) ==
    \E g \in Requests \ {h} :
        requests[g].pc = "checking" /\ requests[g].incident.node = requests[h].incident.node

Accepts(h, t, r) ==
    /\ requests[h].pc = "checking" /\ requests[h].todo = {}
    /\ RunsOf(t) = {} /\ runs[r].task = "unused"
    /\ configs' = configs \cup {t}
    /\ progress' = [progress EXCEPT ![t] = [incident |-> requests[h].incident, status |-> "none"]]
    /\ runs' = [runs EXCEPT ![r] = [trace |-> t, task |-> "launched", status |-> "none"]]
    /\ missed' = IF Races(h) THEN missed \cup {t} ELSE missed
    /\ requests' = [requests EXCEPT ![h] = Answered(h, "accepted")]
    /\ UNCHANGED sink

----------------------------------------------------------------------------
(* The runs, as far as their status and their place in _active_configs go *)

Task(r, task) == runs' = [runs EXCEPT ![r].task = task]

\* A superstep of run r ends: the status goes into its memory and over that of
\* the checkpoint, whatever other runs of the diagnosis wrote there.
Writes(r, status) ==
    /\ runs' = [runs EXCEPT ![r].task = "running", ![r].status = status]
    /\ progress' = [progress EXCEPT ![runs[r].trace].status = status]
    /\ UNCHANGED <<sink, requests, configs, missed>>

\* The input is the first checkpoint.
RunBegins(r) == runs[r].task = "launched" /\ Writes(r, "running")

\* A node that leaves the status alone.
GoesOn(r) == runs[r].task = "running" /\ Writes(r, runs[r].status)

\* arbitrate sets the status; the request for the approval is still to come.
AsksApproval(r) ==
    /\ runs[r].task = "running" /\ runs[r].status = "running"
    /\ Writes(r, "awaiting_approval")

\* The interrupt ends the task and keeps the config.
Pauses(r) ==
    /\ runs[r].task = "running" /\ runs[r].status = "awaiting_approval"
    /\ Task(r, "paused")
    /\ UNCHANGED <<sink, requests, configs, progress, missed>>

\* Mutant: a closed diagnosis is resumed as well.
ResumableAlways(t) == progress[t].status # "none"

Resumable(t) == progress[t].status \in ActiveStatuses

\* /resume by the gateway or an operator, whoever is at work on the diagnosis.
Resumes(t, r) ==
    /\ Resumable(t)
    /\ runs[r].task = "unused"
    /\ configs' = configs \cup {t}
    /\ runs' = [runs EXCEPT ![r] = [trace |-> t, task |-> "resuming", status |-> "none"]]
    /\ UNCHANGED <<sink, requests, progress, missed>>

\* The task's first step: the checkpoint it finds is the one of now.
Loads(r) ==
    LET status == progress[runs[r].trace].status IN
    /\ runs[r].task = "resuming"
    /\ runs' = [runs EXCEPT ![r].status = status,
                            ![r].task = IF status = "awaiting_approval" THEN "answering" ELSE "running"]
    /\ UNCHANGED <<sink, requests, configs, progress, missed>>

\* interrupt() returns the decision the run was resumed with.
InterruptReturns(r) == runs[r].task = "answering" /\ Writes(r, "running")

SandboxDecides(r, status) ==
    /\ runs[r].task = "running" /\ runs[r].status = "running"
    /\ status \in {"rejected", "blocked_by_sandbox"}
    /\ Writes(r, status)

\* A rejected diagnosis is executed as well.
Executed(r, status) ==
    /\ runs[r].task = "running" /\ runs[r].status \in {"running", "rejected"}
    /\ status \in TerminalStatuses
    /\ Writes(r, status)

\* The config goes, though another run of the diagnosis may be at work, or have
\* written a checkpoint that is unfinished.
RunEnds(r) ==
    LET t == runs[r].trace IN
    /\ runs[r].task = "running"
    /\ runs[r].status \in TerminalStatuses \cup {"blocked_by_sandbox"}
    /\ Task(r, "ended")
    /\ configs' = configs \ {t}
    /\ missed' = IF BusyBeside(r) \/ progress[t].status \in ActiveStatuses
                 THEN missed \cup {t} ELSE missed
    /\ UNCHANGED <<sink, requests, progress>>

\* Mutant: the handler of a crashed run keeps its config.
RunFailsInPlace(r) ==
    /\ runs[r].task \in AtWork
    /\ Task(r, "ended")
    /\ missed' = missed \cup {runs[r].trace}
    /\ UNCHANGED <<sink, requests, configs, progress>>

\* The checkpoint keeps the status it had.
RunFails(r) ==
    /\ runs[r].task \in AtWork
    /\ Task(r, "ended")
    /\ configs' = configs \ {runs[r].trace}
    /\ missed' = missed \cup {runs[r].trace}
    /\ UNCHANGED <<sink, requests, progress>>

\* Nothing refills _active_configs.
SupervisorRestarts ==
    /\ requests' = [h \in Requests |-> Free]
    /\ configs' = {}
    /\ missed' = missed \cup UnfinishedTraces
    /\ runs' = [r \in Runs |->
                   [runs[r] EXCEPT !.task = IF @ \in AtWork THEN "lost" ELSE @]]
    /\ UNCHANGED <<sink, progress>>

SinkNext ==
    \/ \E i \in Incidents : SinkTakes(i)
    \/ \E h \in Requests : SinkCalls(h)
    \/ SinkUnreachable
    \/ SinkTimesOut
    \/ SinkHears

CheckNext(h, t) ==
    \/ PurgesUnborn(h, t)
    \/ PurgesFinished(h, t)
    \/ Refuses(h, t)
    \/ PassesOver(h, t)
    \/ CheckRaises(h, t)
    \/ \E r \in Runs : Accepts(h, t, r)

RunNext(r) ==
    \/ RunBegins(r)
    \/ GoesOn(r)
    \/ AsksApproval(r)
    \/ Pauses(r)
    \/ \E t \in Traces : Resumes(t, r)
    \/ Loads(r)
    \/ InterruptReturns(r)
    \/ \E status \in Statuses : SandboxDecides(r, status) \/ Executed(r, status)
    \/ RunEnds(r)
    \/ RunFails(r)

IntakeNext ==
    \/ SinkNext
    \/ \E h \in Requests, t \in Traces : CheckNext(h, t)
    \/ \E r \in Runs : RunNext(r)
    \/ SupervisorRestarts

IntakeSpec == IntakeInit /\ [][IntakeNext]_intakeVars

----------------------------------------------------------------------------
(* Properties *)

\* Two diagnoses of one node are unfinished at a time only through the gaps of
\* the duplicate check: one of them had no checkpoint when it was looked at,
\* was not readable, was accepted while another request for the node was
\* checking, crashed, was under way when the supervisor restarted, or was
\* resumed beside a run of it, one of which ended, finished or was turned down
\* while the other went on.
DuplicatesOnlyThroughGaps ==
    \A t, u \in Traces :
        /\ t # u /\ Unfinished(t) /\ Unfinished(u)
        /\ NodeOf(t) = NodeOf(u)
        => t \in missed \/ u \in missed

\* Only a diagnosis with a task, or one whose checkpoint waits for an approval,
\* stands in _active_configs, however its runs came and went: what crashed,
\* ended or was lost blocks no node.
ConfigsAreLive == \A t \in configs : Busy(t) \/ progress[t].status = "awaiting_approval"
====

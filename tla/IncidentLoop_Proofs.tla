---- MODULE IncidentLoop_Proofs ----
(***************************************************************************)
(* Proofs about IncidentLoop and the two of its parts that keep state      *)
(* besides the stream (AnomalyStream_Proofs): the intake of incidents and  *)
(* the corpus, first each on its own, then the loop.                       *)
(*                                                                         *)
(* IncidentIntake, for any number of requests, diagnoses and incidents:    *)
(* its types, that duplicates come only through the known gaps, and that   *)
(* _active_configs holds live diagnoses only.  DuplicatesOnlyThroughGaps   *)
(* is not inductive.  What carries it is that a diagnosis nobody missed    *)
(* stands in _active_configs as long as it is unfinished (Registered), so  *)
(* the snapshot of a check holds it, and that a check drops no such        *)
(* diagnosis of its own node (StillToSee): when a check has nothing left   *)
(* to look at, there is none.                                              *)
(*                                                                         *)
(* RagIndex, for any tickets, contents, seeds and bound: its types, and    *)
(* that the keyword index follows the collection.  Together the two are    *)
(* almost inductive.  What they lack is why deleting the collection leaves *)
(* no entry behind: only a process without a collection may do it, and     *)
(* such a process has an empty index (EmptyUntilOpened).                   *)
(*                                                                         *)
(* Arbitration has no state; what its votes keep holds for any findings a  *)
(* model may answer and any number of evidence items.  The score never     *)
(* falls when confidence, evidence or validation rise (ScoreGrows), and    *)
(* the required lead puts every other expert strictly below the winner     *)
(* (LeadIsStrict).                                                         *)
(*                                                                         *)
(* The loop: what holds of the stream, the intake and the corpus alone     *)
(* holds of them in the loop, and what it adds: which cases become         *)
(* knowledge, how often, what a diagnosis is shown of it and how a vote    *)
(* ends, for any events, nodes, requests, diagnoses, runs, tickets,        *)
(* findings and workloads.  What carries the first two is AloneOk: where   *)
(* runs follow one another, the one at work has in memory what the         *)
(* checkpoint holds, so a case that was filed stands under a status no     *)
(* resumption accepts.  The third rests on SearchOk: what a search found   *)
(* stays current until its ticket is noted as written since.               *)
(***************************************************************************)
EXTENDS IncidentLoop, AnomalyStream_Proofs, TLAPS

----------------------------------------------------------------------------
(* IncidentIntake *)

\* Records of the right kind, whatever their incident is.
IsSink(s) ==
    s \in [pc : {"idle", "calling", "waiting"}, incident : {s.incident},
           attempt : 1 .. MAX_RETRIES, request : Requests \cup {NoRequest}]

IsRequest(r) ==
    r \in [pc : {"free", "checking", "accepted", "refused"}, incident : {r.incident}, todo : SUBSET Traces]

IsProgress(p) == p \in [incident : {p.incident}, status : Statuses]

Shape ==
    /\ IsSink(sink)
    /\ sink.pc = "waiting" => sink.request \in Requests
    /\ DOMAIN requests = Requests /\ \A h \in Requests : IsRequest(requests[h])
    /\ configs \in SUBSET Traces
    /\ DOMAIN progress = Traces /\ \A t \in Traces : IsProgress(progress[t])
    /\ runs \in [Runs -> [trace : Traces \cup {NoTrace}, task : Tasks, status : Statuses]]
    /\ \A r \in Runs : runs[r].task = "unused" <=> runs[r].trace \notin Traces
    /\ missed \in SUBSET Traces

\* The steps, with any incident the sink may be given.
SinkMoves == SinkNext \/ \E incident : SinkTakes(incident)

IntakeMoves ==
    \/ SinkMoves
    \/ \E h \in Requests, t \in Traces : CheckNext(h, t)
    \/ \E r \in Runs : RunNext(r)
    \/ SupervisorRestarts

\* A diagnosis that may still become unfinished: its checkpoint says so, or a
\* run is at work on it.
Live(t) == progress[t].status \in ActiveStatuses \/ Busy(t)

\* What keeps a diagnosis in _active_configs: a checkpoint that waits for the
\* approval, or a run that does not know of one.
Held(t) ==
    \/ progress[t].status = "awaiting_approval"
    \/ \E r \in RunsOf(t) : runs[r].task \in AtWork /\ runs[r].status # "awaiting_approval"

ConfigsHeld == \A t \in configs : Held(t)

Registered == \A t \in Traces : Live(t) /\ t \notin missed => t \in configs

StillToSee ==
    \A h \in Requests, t \in Traces :
        /\ requests[h].pc = "checking" /\ SameNode(h, t)
        /\ Live(t) /\ t \notin missed
        => t \in requests[h].todo

OneLiveBut ==
    \A t, u \in Traces :
        t # u /\ Live(t) /\ Live(u) /\ NodeOf(t) = NodeOf(u) => t \in missed \/ u \in missed

IntakeInv == Shape /\ ConfigsHeld /\ Registered /\ StillToSee /\ OneLiveBut

----------------------------------------------------------------------------
LEMMA ShapeIsType == Shape => IntakeTypeOK
  BY DEF Shape, IntakeTypeOK, IsSink, IsRequest, IsProgress

LEMMA UnfinishedIsLive == \A t \in Traces : Unfinished(t) => Live(t)
  BY DEF Unfinished, Live, ActiveStatuses, Busy, AtWork

LEMMA InvImplies == IntakeInv => DuplicatesOnlyThroughGaps /\ ConfigsAreLive
<1> SUFFICES ASSUME IntakeInv PROVE DuplicatesOnlyThroughGaps /\ ConfigsAreLive
    OBVIOUS
<1>1. DuplicatesOnlyThroughGaps
  BY UnfinishedIsLive DEF IntakeInv, OneLiveBut, DuplicatesOnlyThroughGaps
<1>2. ConfigsAreLive
  BY DEF IntakeInv, ConfigsHeld, Held, ConfigsAreLive, Busy
<1> QED
  BY <1>1, <1>2

LEMMA IntakeInitInv == IntakeInit => IntakeInv
<1> SUFFICES ASSUME IntakeInit PROVE IntakeInv
    OBVIOUS
<1>1. Shape
  BY IntakeAssumption
     DEF IntakeInit, Shape, IdleSink, Free, IsSink, IsRequest, IsProgress, Statuses, Tasks, MAX_RETRIES
<1>2. \A t \in Traces : ~Live(t)
  BY DEF IntakeInit, Live, ActiveStatuses, Busy, RunsOf, AtWork
<1>3. ConfigsHeld
  BY DEF IntakeInit, ConfigsHeld
<1> QED
  BY <1>1, <1>2, <1>3 DEF IntakeInv, Registered, StillToSee, OneLiveBut

----------------------------------------------------------------------------
(* The shape *)

LEMMA AnotherTryShape ==
    ASSUME Shape
    PROVE  IsSink(AnotherTry) /\ AnotherTry.pc \in {"idle", "calling"}
<1> DEFINE again == [sink EXCEPT !.pc = "calling", !.attempt = @ + 1, !.request = NoRequest]
<1>1. IsSink(IdleSink) /\ IdleSink.pc = "idle"
  BY DEF IdleSink, IsSink, MAX_RETRIES
<1>2. IsSink(sink)
  BY DEF Shape
<1>3. sink.attempt \in 1 .. 3
  BY <1>2 DEF IsSink, MAX_RETRIES
<1>4. CASE sink.attempt < MAX_RETRIES
  <2>1. sink.attempt + 1 \in 1 .. MAX_RETRIES
    BY <1>3, <1>4 DEF MAX_RETRIES
  <2>2. \A n \in 1 .. MAX_RETRIES :
           IsSink([sink EXCEPT !.pc = "calling", !.attempt = n, !.request = NoRequest])
    BY <1>2 DEF IsSink
  <2>3. IsSink(again) /\ again.pc = "calling"
    BY <1>2, <2>1, <2>2 DEF IsSink
  <2> QED
    BY <1>4, <2>3 DEF AnotherTry
<1>5. CASE ~(sink.attempt < MAX_RETRIES)
  BY <1>1, <1>5 DEF AnotherTry
<1> QED
  BY <1>4, <1>5

LEMMA AnsweredShape ==
    ASSUME Shape, NEW h \in Requests, NEW answer \in {"accepted", "refused"}
    PROVE  /\ IsRequest(Answered(h, answer))
           /\ Answered(h, answer).pc # "checking"
<1> DEFINE heard == [requests[h] EXCEPT !.pc = answer, !.todo = {}]
<1>1. IsRequest(requests[h])
  BY DEF Shape
<1>2. IsRequest(heard) /\ heard.pc = answer
  BY <1>1 DEF IsRequest
<1>3. IsRequest(Free) /\ Free.pc = "free"
  BY DEF Free, IsRequest
<1>4. Answered(h, answer) = heard \/ Answered(h, answer) = Free
  BY DEF Answered
<1> QED
  BY <1>2, <1>3, <1>4

LEMMA SinkShape == Shape /\ SinkMoves => Shape'
<1> SUFFICES ASSUME Shape, SinkMoves PROVE Shape'
    OBVIOUS
<1>1. ASSUME NEW i, SinkTakes(i) PROVE Shape'
  <2>1. sink' = [pc |-> "calling", incident |-> i, attempt |-> 1, request |-> NoRequest]
    BY <1>1 DEF SinkTakes, IdleSink
  <2>2. IsSink(sink') /\ sink'.pc = "calling"
    BY <2>1 DEF IsSink, MAX_RETRIES
  <2> QED
    BY <1>1, <2>2 DEF Shape, SinkTakes
<1>2. ASSUME NEW h \in Requests, SinkCalls(h) PROVE Shape'
  BY <1>2 DEF Shape, SinkCalls, IsSink, IsRequest
<1>3. CASE SinkUnreachable
  BY <1>3, AnotherTryShape DEF Shape, SinkUnreachable
<1>4. CASE SinkTimesOut
  BY <1>4, AnotherTryShape DEF Shape, SinkTimesOut, IsRequest, Free
<1>5. CASE SinkHears
  BY <1>5, AnotherTryShape DEF Shape, SinkHears, IsRequest, Free, IdleSink, IsSink, MAX_RETRIES
<1> QED
  BY <1>1, <1>2, <1>3, <1>4, <1>5 DEF SinkMoves, SinkNext

LEMMA CheckedShape ==
    ASSUME Shape, NEW h \in Requests, NEW t \in Traces, Checked(h, t)
    PROVE  DOMAIN requests' = Requests /\ \A g \in Requests : IsRequest(requests'[g])
  BY DEF Shape, Checked, IsRequest

LEMMA CheckShape ==
    ASSUME Shape, NEW h \in Requests, NEW t \in Traces, CheckNext(h, t)
    PROVE  Shape'
<1>1. CASE PurgesUnborn(h, t)
  BY <1>1, CheckedShape DEF Shape, PurgesUnborn
<1>2. CASE PurgesFinished(h, t)
  BY <1>2, CheckedShape DEF Shape, PurgesFinished
<1>3. CASE Refuses(h, t)
  BY <1>3, AnsweredShape DEF Shape, Refuses
<1>4. CASE PassesOver(h, t)
  BY <1>4, CheckedShape DEF Shape, PassesOver
<1>5. CASE CheckRaises(h, t)
  BY <1>5, CheckedShape DEF Shape, CheckRaises
<1>6. ASSUME NEW r \in Runs, Accepts(h, t, r) PROVE Shape'
  <2>1. DOMAIN requests' = Requests /\ \A g \in Requests : IsRequest(requests'[g])
    BY <1>6, AnsweredShape DEF Shape, Accepts
  <2>2. DOMAIN progress' = Traces /\ \A u \in Traces : IsProgress(progress'[u])
    BY <1>6 DEF Shape, Accepts, IsProgress, IsRequest, Statuses
  <2>3. /\ runs' \in [Runs -> [trace : Traces \cup {NoTrace}, task : Tasks, status : Statuses]]
        /\ \A q \in Runs : runs'[q].task = "unused" <=> runs'[q].trace \notin Traces
    BY <1>6 DEF Shape, Accepts, Statuses, Tasks, AtWork
  <2> QED
    BY <1>6, <2>1, <2>2, <2>3 DEF Shape, Accepts
<1> QED
  BY <1>1, <1>2, <1>3, <1>4, <1>5, <1>6 DEF CheckNext

\* Only r moves, it is for t from now on, and of the checkpoints only the
\* status of t's may change.
OnlyMoves(r, t) ==
    /\ runs[r].trace = t \/ runs[r].task = "unused"
    /\ runs' = [q \in Runs |-> IF q = r THEN runs'[r] ELSE runs[q]]
    /\ runs'[r] \in [trace : {t}, task : Tasks \ {"launched", "unused"}, status : Statuses]
    /\ progress' = progress \/ \E status \in Statuses : progress' = [progress EXCEPT ![t].status = status]
    /\ UNCHANGED <<sink, requests>>
    /\ configs' \in {configs, configs \cup {t}, configs \ {t}}
    /\ missed' \in {missed, missed \cup {t}}

\* Which run moves, and whose, after a step of RunNext.
Mover(r, t) == t \in Traces /\ Live(t) /\ OnlyMoves(r, t)

\* A run at work: its diagnosis is one and is live.
LEMMA AtWorkIsLive ==
    ASSUME Shape, NEW r \in Runs, runs[r].task \in AtWork
    PROVE  runs[r].trace \in Traces /\ Live(runs[r].trace)
  BY DEF Shape, Live, Busy, RunsOf, AtWork

LEMMA WritesMove ==
    ASSUME Shape, NEW r \in Runs, NEW status \in Statuses, runs[r].task \in AtWork, Writes(r, status)
    PROVE  /\ Mover(r, runs[r].trace) /\ UNCHANGED <<configs, missed>>
           /\ runs'[r] = [trace |-> runs[r].trace, task |-> "running", status |-> status]
           /\ progress'[runs[r].trace].status = status
<1> DEFINE t == runs[r].trace
<1>1. t \in Traces /\ Live(t)
  BY AtWorkIsLive
<1>2. /\ runs' = [q \in Runs |-> IF q = r THEN runs'[r] ELSE runs[q]]
      /\ runs'[r] = [trace |-> t, task |-> "running", status |-> status]
  BY DEF Shape, Writes
<1>3. /\ progress' = [progress EXCEPT ![t].status = status] /\ progress'[t].status = status
      /\ UNCHANGED <<sink, requests, configs, missed>>
  BY <1>1 DEF Shape, IsProgress, Writes
<1>4. "running" \in Tasks \ {"launched", "unused"}
  BY DEF Tasks, AtWork
<1>5. runs'[r] \in [trace : {t}, task : Tasks \ {"launched", "unused"}, status : Statuses]
  BY <1>2, <1>4
<1> QED
  BY <1>1, <1>2, <1>3, <1>5 DEF Mover, OnlyMoves

LEMMA TaskMoves ==
    ASSUME Shape, NEW r \in Runs, NEW task \in {"paused", "ended"}, runs[r].task \in AtWork, Task(r, task),
           UNCHANGED <<sink, requests, progress>>,
           configs' \in {configs, configs \ {runs[r].trace}},
           missed' \in {missed, missed \cup {runs[r].trace}}
    PROVE  /\ Mover(r, runs[r].trace)
           /\ runs'[r] = [trace |-> runs[r].trace, task |-> task, status |-> runs[r].status]
<1> DEFINE t == runs[r].trace
<1>1. t \in Traces /\ Live(t)
  BY AtWorkIsLive
<1>2. /\ runs' = [q \in Runs |-> IF q = r THEN runs'[r] ELSE runs[q]]
      /\ runs'[r] = [trace |-> t, task |-> task, status |-> runs[r].status]
      /\ runs[r].status \in Statuses
  BY DEF Shape, Task
<1>3. task \in Tasks \ {"launched", "unused"}
  BY DEF Tasks, AtWork
<1>4. runs'[r] \in [trace : {t}, task : Tasks \ {"launched", "unused"}, status : Statuses]
  BY <1>2, <1>3
<1> QED
  BY <1>1, <1>2, <1>4 DEF Mover, OnlyMoves

LEMMA ResumesMove ==
    ASSUME Shape, NEW r \in Runs, NEW t \in Traces, Resumes(t, r)
    PROVE  /\ Mover(r, t) /\ progress' = progress /\ configs' = configs \cup {t} /\ missed' = missed
           /\ runs'[r] = [trace |-> t, task |-> "resuming", status |-> "none"]
<1>1. "resuming" \in Tasks \ {"launched", "unused"} /\ "none" \in Statuses
  BY DEF Tasks, AtWork, Statuses
<1>2. Live(t)
  BY DEF Resumes, Resumable, Live
<1>3. /\ runs' = [q \in Runs |-> IF q = r THEN runs'[r] ELSE runs[q]]
      /\ runs'[r] = [trace |-> t, task |-> "resuming", status |-> "none"]
  BY DEF Resumes, Shape
<1> QED
  BY <1>1, <1>2, <1>3 DEF Resumes, Mover, OnlyMoves

LEMMA LoadsMove ==
    ASSUME Shape, NEW r \in Runs, Loads(r)
    PROVE  /\ Mover(r, runs[r].trace) /\ progress' = progress /\ configs' = configs /\ missed' = missed
           /\ runs'[r] = [trace |-> runs[r].trace, status |-> progress[runs[r].trace].status,
                          task |-> IF progress[runs[r].trace].status = "awaiting_approval"
                                   THEN "answering" ELSE "running"]
<1> DEFINE t == runs[r].trace
           status == progress[t].status
           task == IF status = "awaiting_approval" THEN "answering" ELSE "running"
<1>1. t \in Traces /\ Live(t)
  BY AtWorkIsLive DEF Loads, AtWork
<1>2. status \in Statuses /\ task \in Tasks \ {"launched", "unused"}
  BY <1>1 DEF Shape, IsProgress, Tasks, AtWork
<1>3. runs' = [runs EXCEPT ![r].status = status, ![r].task = task]
  BY DEF Loads
<1>4. /\ runs' = [q \in Runs |-> IF q = r THEN runs'[r] ELSE runs[q]]
      /\ runs'[r] = [trace |-> t, task |-> task, status |-> status]
  <2> HIDE DEF status, task, t
  <2>1. runs[r] \in [trace : Traces \cup {NoTrace}, task : Tasks, status : Statuses] /\ DOMAIN runs = Runs
    BY DEF Shape
  <2> QED
    BY <1>3, <2>1 DEF t
<1>5. runs'[r] \in [trace : {t}, task : Tasks \ {"launched", "unused"}, status : Statuses]
  BY <1>2, <1>4
<1> QED
  BY <1>1, <1>4, <1>5 DEF Mover, OnlyMoves, Loads

LEMMA RunStep ==
    ASSUME Shape, NEW r \in Runs, RunNext(r)
    PROVE  \E t \in Traces : Mover(r, t)
<1>0. runs[r].status \in Statuses /\ {"running", "awaiting_approval"} \subseteq Statuses
      /\ {"launched", "resuming", "answering", "running"} \subseteq AtWork
  BY DEF Shape, Statuses, AtWork
<1>1. ASSUME NEW status \in Statuses, runs[r].task \in AtWork, Writes(r, status)
      PROVE  \E t \in Traces : Mover(r, t)
  BY <1>1, WritesMove DEF Mover
<1>2. CASE RunBegins(r) \/ GoesOn(r) \/ AsksApproval(r) \/ InterruptReturns(r)
  BY <1>0, <1>1, <1>2 DEF RunBegins, GoesOn, AsksApproval, InterruptReturns
<1>3. CASE \E status \in Statuses : SandboxDecides(r, status) \/ Executed(r, status)
  BY <1>0, <1>1, <1>3 DEF SandboxDecides, Executed
<1>4. CASE \E t \in Traces : Resumes(t, r)
  BY <1>4, ResumesMove DEF Mover
<1>5. CASE Loads(r)
  BY <1>5, LoadsMove DEF Mover
<1>6. CASE Pauses(r)
  BY <1>0, <1>6, TaskMoves DEF Pauses, Mover
<1>7. CASE RunEnds(r)
  BY <1>0, <1>7, TaskMoves DEF RunEnds, Mover
<1>8. CASE RunFails(r)
  BY <1>0, <1>8, TaskMoves DEF RunFails, Mover
<1> QED
  BY <1>2, <1>3, <1>4, <1>5, <1>6, <1>7, <1>8 DEF RunNext

LEMMA MoverShape ==
    ASSUME Shape, NEW r \in Runs, NEW t \in Traces, Mover(r, t)
    PROVE  Shape'
<1>1. DOMAIN progress' = Traces /\ \A u \in Traces : IsProgress(progress'[u])
  BY DEF Shape, Mover, OnlyMoves, IsProgress
<1>2. /\ runs' \in [Runs -> [trace : Traces \cup {NoTrace}, task : Tasks, status : Statuses]]
      /\ \A q \in Runs : runs'[q].task = "unused" <=> runs'[q].trace \notin Traces
  <2>1. runs' = [q \in Runs |-> IF q = r THEN runs'[r] ELSE runs[q]]
    BY DEF Mover, OnlyMoves
  <2>2. \A q \in Runs : /\ runs'[q] \in [trace : Traces \cup {NoTrace}, task : Tasks, status : Statuses]
                        /\ runs'[q].task = "unused" <=> runs'[q].trace \notin Traces
    BY DEF Shape, Mover, OnlyMoves
  <2> QED
    BY <2>1, <2>2
<1>3. UNCHANGED <<sink, requests>> /\ configs' \in SUBSET Traces /\ missed' \in SUBSET Traces
  BY DEF Shape, Mover, OnlyMoves
<1> QED
  BY <1>1, <1>2, <1>3 DEF Shape

LEMMA ShapeStep == Shape /\ [IntakeMoves]_intakeVars => Shape'
<1> SUFFICES ASSUME Shape, [IntakeMoves]_intakeVars PROVE Shape'
    OBVIOUS
<1>1. CASE SinkMoves
  BY <1>1, SinkShape
<1>2. ASSUME NEW h \in Requests, NEW t \in Traces, CheckNext(h, t) PROVE Shape'
  BY <1>2, CheckShape
<1>3. ASSUME NEW r \in Runs, RunNext(r) PROVE Shape'
  BY <1>3, RunStep, MoverShape
<1>4. CASE SupervisorRestarts
  <2>1. DOMAIN requests' = Requests /\ \A g \in Requests : IsRequest(requests'[g])
    BY <1>4 DEF SupervisorRestarts, Free, IsRequest
  <2>2. /\ runs' \in [Runs -> [trace : Traces \cup {NoTrace}, task : Tasks, status : Statuses]]
        /\ \A q \in Runs : runs'[q].task = "unused" <=> runs'[q].trace \notin Traces
    <3>1. ASSUME NEW r \in Runs
          PROVE  /\ runs'[r] \in [trace : Traces \cup {NoTrace}, task : Tasks, status : Statuses]
                 /\ runs'[r].task = "unused" <=> runs[r].task = "unused"
                 /\ runs'[r].trace = runs[r].trace
      <4>1. runs[r] \in [trace : Traces \cup {NoTrace}, task : Tasks, status : Statuses]
        BY DEF Shape
      <4>2. "lost" \in Tasks
        BY DEF Tasks
      <4>3. runs'[r] = [runs[r] EXCEPT !.task = IF @ \in AtWork THEN "lost" ELSE @]
        BY <1>4 DEF SupervisorRestarts
      <4>4. runs[r].task \in AtWork => runs[r].task # "unused"
        BY DEF AtWork
      <4> QED
        BY <4>1, <4>2, <4>3, <4>4
    <3>2. runs' = [r \in Runs |-> runs'[r]]
      BY <1>4 DEF SupervisorRestarts
    <3> QED
      BY <3>1, <3>2 DEF Shape
  <2> QED
    BY <1>4, <2>1, <2>2 DEF Shape, SupervisorRestarts, UnfinishedTraces
<1>5. CASE UNCHANGED intakeVars
  BY <1>5 DEF Shape, intakeVars
<1> QED
  BY <1>1, <1>2, <1>3, <1>4, <1>5 DEF IntakeMoves

----------------------------------------------------------------------------
(* The invariant, by the kind of step *)

\* While progress and runs stay, so does what is live, and where.
LEMMA LiveStays ==
    ASSUME UNCHANGED <<progress, runs>>
    PROVE  \A u \in Traces : Live(u)' = Live(u) /\ NodeOf(u)' = NodeOf(u) /\ Held(u)' = Held(u)
  BY DEF Live, NodeOf, Held, Busy, RunsOf

LEMMA SinkInv == IntakeInv /\ SinkMoves => IntakeInv'
<1> SUFFICES ASSUME IntakeInv, SinkMoves PROVE IntakeInv'
    OBVIOUS
<1>0. Shape' /\ UNCHANGED <<configs, progress, runs, missed>>
  BY SinkShape DEF IntakeInv, SinkMoves, SinkNext, SinkTakes, SinkCalls, SinkUnreachable, SinkTimesOut, SinkHears
<1>1. ConfigsHeld' /\ Registered' /\ OneLiveBut'
  BY <1>0, LiveStays DEF IntakeInv, Shape, ConfigsHeld, Registered, OneLiveBut
<1>2. ASSUME NEW g \in Requests, requests'[g].pc = "checking"
      PROVE  requests'[g] = requests[g] \/ requests'[g].todo = configs
  <2>1. ASSUME NEW h \in Requests, SinkCalls(h) PROVE requests'[g] = requests[g] \/ requests'[g].todo = configs
    BY <2>1 DEF IntakeInv, Shape, SinkCalls
  <2>2. CASE SinkTimesOut
    BY <1>2, <2>2 DEF IntakeInv, Shape, SinkTimesOut, Free
  <2>3. CASE SinkHears
    BY <1>2, <2>3 DEF IntakeInv, Shape, SinkHears, Free
  <2>4. CASE UNCHANGED requests
    BY <2>4
  <2> QED
    BY <2>1, <2>2, <2>3, <2>4 DEF SinkMoves, SinkNext, SinkTakes, SinkUnreachable
<1>3. StillToSee'
  <2> SUFFICES ASSUME NEW g \in Requests, NEW t \in Traces,
                      requests'[g].pc = "checking", SameNode(g, t)', Live(t), t \notin missed
               PROVE  t \in requests'[g].todo
    BY <1>0, LiveStays DEF StillToSee
  <2>1. CASE requests'[g] = requests[g]
    BY <1>0, <2>1 DEF IntakeInv, StillToSee, SameNode, NodeOf
  <2>2. CASE requests'[g].todo = configs
    BY <2>2 DEF IntakeInv, Registered
  <2> QED
    BY <1>2, <2>1, <2>2
<1> QED
  BY <1>0, <1>1, <1>3 DEF IntakeInv

\* A step of a check that only looks at t: t leaves the open list of h, and if
\* it is not missed it is of another node or not live.
LEMMA LookedAt ==
    ASSUME IntakeInv, Shape', NEW h \in Requests, NEW t \in Traces,
           Checked(h, t), UNCHANGED <<progress, runs>>,
           configs' \in {configs, configs \ {t}}, missed' \in {missed, missed \cup {t}},
           t \in missed' \/ ~Live(t) \/ (configs' = configs /\ ~SameNode(h, t))
    PROVE  IntakeInv'
<1>0. \A u \in Traces : Live(u)' = Live(u) /\ NodeOf(u)' = NodeOf(u) /\ Held(u)' = Held(u)
  BY LiveStays
<1>1. ConfigsHeld'
  BY <1>0 DEF IntakeInv, Shape, ConfigsHeld
<1>2. Registered'
  BY <1>0 DEF IntakeInv, Registered
<1>3. OneLiveBut'
  BY <1>0 DEF IntakeInv, OneLiveBut
<1>4. StillToSee'
  <2> SUFFICES ASSUME NEW g \in Requests, NEW u \in Traces,
                      requests'[g].pc = "checking", SameNode(g, u)', Live(u), u \notin missed'
               PROVE  u \in requests'[g].todo
    BY <1>0 DEF StillToSee
  <2>1. /\ requests'[g].pc = requests[g].pc /\ requests'[g].incident = requests[g].incident
        /\ g # h => requests'[g].todo = requests[g].todo
        /\ g = h => requests'[g].todo = requests[g].todo \ {t}
    BY DEF IntakeInv, Shape, IsRequest, Checked
  <2>2. SameNode(g, u) /\ u \in requests[g].todo
    BY <1>0, <2>1 DEF IntakeInv, StillToSee, SameNode
  <2>3. g = h => u # t
    BY <2>2
  <2> QED
    BY <2>1, <2>2, <2>3
<1> QED
  BY <1>1, <1>2, <1>3, <1>4 DEF IntakeInv

LEMMA AcceptInv ==
    ASSUME IntakeInv, Shape', NEW h \in Requests, NEW t \in Traces, NEW r \in Runs, Accepts(h, t, r)
    PROVE  IntakeInv'
<1> DEFINE incident == requests[h].incident
<1>1. /\ configs' = configs \cup {t} /\ missed' \in {missed, missed \cup {t}}
      /\ progress' = [progress EXCEPT ![t] = [incident |-> incident, status |-> "none"]]
      /\ runs' = [runs EXCEPT ![r] = [trace |-> t, task |-> "launched", status |-> "none"]]
      /\ requests[h].pc = "checking" /\ requests[h].todo = {} /\ runs[r].task = "unused"
      /\ Races(h) => t \in missed'
  BY DEF Accepts
<1>2. runs'[r] = [trace |-> t, task |-> "launched", status |-> "none"] /\ \A q \in Runs \ {r} : runs'[q] = runs[q]
  BY <1>1 DEF IntakeInv, Shape
<1>3. /\ NodeOf(t)' = incident.node
      /\ \A u \in Traces \ {t} : progress'[u] = progress[u] /\ NodeOf(u)' = NodeOf(u)
  BY <1>1 DEF IntakeInv, Shape, NodeOf
<1>4. ASSUME NEW u \in Traces \ {t}, NEW q \in Runs
      PROVE  /\ runs'[q].trace = u /\ runs'[q].task \in AtWork <=> runs[q].trace = u /\ runs[q].task \in AtWork
             /\ runs[q].trace = u /\ runs[q].task \in AtWork => runs'[q] = runs[q]
  BY <1>1, <1>2 DEF AtWork
<1>5. \A u \in Traces \ {t} : (Live(u)' <=> Live(u)) /\ (Held(u) => Held(u)')
  BY <1>3, <1>4 DEF Live, Held, Busy, RunsOf
<1>6. Held(t)'
  BY <1>2 DEF Held, RunsOf, AtWork
<1>7. \A g \in Requests : requests'[g].pc = "checking" => g # h /\ requests'[g] = requests[g]
  BY AnsweredShape DEF Accepts, IntakeInv, Shape
<1>8. ConfigsHeld'
  BY <1>1, <1>5, <1>6 DEF IntakeInv, Shape, ConfigsHeld
<1>9. Registered'
  BY <1>1, <1>5 DEF IntakeInv, Registered
<1>10. StillToSee'
  <2> SUFFICES ASSUME NEW g \in Requests, NEW u \in Traces,
                      requests'[g].pc = "checking", SameNode(g, u)', Live(u)', u \notin missed'
               PROVE  u \in requests'[g].todo
    BY DEF StillToSee
  <2>1. g # h /\ requests'[g] = requests[g]
    BY <1>7
  <2>2. CASE u = t
    BY <1>1, <1>3, <2>1, <2>2 DEF Races, SameNode
  <2>3. CASE u # t
    BY <1>1, <1>3, <1>5, <2>1, <2>3 DEF IntakeInv, StillToSee, SameNode
  <2> QED
    BY <2>2, <2>3
<1>11. ASSUME NEW u \in Traces \ {t}, Live(u), NodeOf(u) = incident.node PROVE u \in missed
  BY <1>1, <1>11 DEF IntakeInv, StillToSee, SameNode
<1>12. OneLiveBut'
  <2> SUFFICES ASSUME NEW u \in Traces, NEW v \in Traces, u # v, Live(u)', Live(v)', NodeOf(u)' = NodeOf(v)'
               PROVE  u \in missed' \/ v \in missed'
    BY DEF OneLiveBut
  <2>1. CASE u = t
    BY <1>1, <1>3, <1>5, <1>11, <2>1
  <2>2. CASE v = t
    BY <1>1, <1>3, <1>5, <1>11, <2>2
  <2>3. CASE u # t /\ v # t
    BY <1>1, <1>3, <1>5, <2>3 DEF IntakeInv, OneLiveBut
  <2> QED
    BY <2>1, <2>2, <2>3
<1> QED
  BY <1>8, <1>9, <1>10, <1>12 DEF IntakeInv

LEMMA CheckInv ==
    ASSUME IntakeInv, NEW h \in Requests, NEW t \in Traces, CheckNext(h, t)
    PROVE  IntakeInv'
<1>0. Shape' /\ Shape
  BY CheckShape DEF IntakeInv
<1>1. CASE PurgesUnborn(h, t)
  BY <1>0, <1>1, LookedAt DEF PurgesUnborn
<1>2. CASE PurgesFinished(h, t)
  <2>1. ~Live(t) \/ t \in missed'
    BY <1>2 DEF PurgesFinished, TerminalStatuses, ActiveStatuses, Live
  <2> QED
    BY <1>0, <1>2, <2>1, LookedAt DEF PurgesFinished
<1>3. CASE PassesOver(h, t)
  <2>1. ~Live(t) \/ ~SameNode(h, t) \/ t \in missed'
    BY <1>3 DEF PassesOver, Live
  <2> QED
    BY <1>0, <1>3, <2>1, LookedAt DEF PassesOver
<1>4. CASE CheckRaises(h, t)
  BY <1>0, <1>4, LookedAt DEF CheckRaises
<1>5. CASE Refuses(h, t)
  <2>1. /\ UNCHANGED <<configs, progress, runs, missed>>
        /\ \A g \in Requests : requests'[g].pc = "checking" => requests'[g] = requests[g]
    BY <1>0, <1>5, AnsweredShape DEF Refuses, Shape
  <2>2. ConfigsHeld' /\ Registered' /\ OneLiveBut'
    BY <1>0, <2>1, LiveStays DEF IntakeInv, Shape, ConfigsHeld, Registered, OneLiveBut
  <2>3. StillToSee'
    BY <2>1, LiveStays DEF IntakeInv, StillToSee, SameNode
  <2> QED
    BY <1>0, <2>2, <2>3 DEF IntakeInv
<1>6. ASSUME NEW r \in Runs, Accepts(h, t, r) PROVE IntakeInv'
  BY <1>0, <1>6, AcceptInv
<1> QED
  BY <1>1, <1>2, <1>3, <1>4, <1>5, <1>6 DEF CheckNext

\* A run's step leaves every other diagnosis alone, so the invariant stays if
\* the entry of its own has something to hold it, and is there while it is live.
LEMMA OwnStep ==
    ASSUME IntakeInv, NEW r \in Runs, NEW t \in Traces, Mover(r, t),
           t \in configs' => Held(t)', Live(t)' => t \in missed' \/ t \in configs'
    PROVE  IntakeInv'
<1>0. Shape' /\ Shape
  BY MoverShape DEF IntakeInv
<1>1. /\ UNCHANGED requests /\ configs' \in {configs, configs \cup {t}, configs \ {t}}
      /\ missed' \in {missed, missed \cup {t}}
      /\ Live(t) /\ (runs[r].trace = t \/ runs[r].task = "unused") /\ runs'[r].trace = t
  BY DEF Mover, OnlyMoves
<1>2. \A q \in Runs \ {r} : runs'[q] = runs[q]
  BY DEF Mover, OnlyMoves
<1>3. /\ \A u \in Traces : NodeOf(u)' = NodeOf(u)
      /\ \A u \in Traces \ {t} : progress'[u] = progress[u]
  BY <1>0 DEF Shape, IsProgress, Mover, OnlyMoves, NodeOf
<1>4. ASSUME NEW u \in Traces \ {t}, NEW q \in Runs
      PROVE  /\ runs'[q].trace = u /\ runs'[q].task \in AtWork <=> runs[q].trace = u /\ runs[q].task \in AtWork
             /\ runs[q].trace = u /\ runs[q].task \in AtWork => runs'[q] = runs[q]
  BY <1>1, <1>2 DEF AtWork
<1>5. \A u \in Traces \ {t} : (Live(u)' <=> Live(u)) /\ (Held(u) => Held(u)')
  BY <1>3, <1>4 DEF Live, Held, Busy, RunsOf
<1>6. \A u \in Traces : Live(u)' => Live(u)
  BY <1>1, <1>5
<1>7. ConfigsHeld'
  BY <1>0, <1>1, <1>5 DEF IntakeInv, Shape, ConfigsHeld
<1>8. Registered'
  BY <1>1, <1>5 DEF IntakeInv, Registered
<1>9. StillToSee'
  BY <1>1, <1>3, <1>6 DEF IntakeInv, StillToSee, SameNode
<1>10. OneLiveBut'
  BY <1>1, <1>3, <1>6 DEF IntakeInv, OneLiveBut
<1> QED
  BY <1>0, <1>7, <1>8, <1>9, <1>10 DEF IntakeInv

LEMMA RunInv ==
    ASSUME IntakeInv, NEW r \in Runs, RunNext(r)
    PROVE  IntakeInv'
<1>t. PICK t : t = runs[r].trace
  OBVIOUS
<1>0. /\ Shape /\ runs[r].status \in Statuses
      /\ {"running", "awaiting_approval"} \subseteq Statuses
      /\ {"launched", "resuming", "answering", "running"} \subseteq AtWork
  BY DEF IntakeInv, Shape, Statuses, AtWork
<1>1. runs[r].task \in AtWork => t \in Traces /\ (t \in missed \/ t \in configs)
  BY <1>t, <1>0, AtWorkIsLive DEF IntakeInv, Registered
<1>2. ASSUME NEW status \in Statuses, runs[r].task \in AtWork, Writes(r, status) PROVE IntakeInv'
  <2>1. /\ Mover(r, t) /\ UNCHANGED <<configs, missed>> /\ progress'[t].status = status
        /\ runs'[r] = [trace |-> t, task |-> "running", status |-> status]
    BY <1>0, <1>2, WritesMove, <1>t
  <2>2. Held(t)'
    BY <1>0, <2>1 DEF Held, RunsOf
  <2> QED
    BY <1>1, <1>2, <2>1, <2>2, OwnStep
<1>3. CASE RunBegins(r) \/ GoesOn(r) \/ AsksApproval(r) \/ InterruptReturns(r)
  BY <1>0, <1>2, <1>3 DEF RunBegins, GoesOn, AsksApproval, InterruptReturns
<1>4. CASE \E status \in Statuses : SandboxDecides(r, status) \/ Executed(r, status)
  BY <1>0, <1>2, <1>4 DEF SandboxDecides, Executed
<1>5. ASSUME NEW u \in Traces, Resumes(u, r) PROVE IntakeInv'
  <2>1. /\ Mover(r, u) /\ configs' = configs \cup {u}
        /\ runs'[r] = [trace |-> u, task |-> "resuming", status |-> "none"]
    BY <1>0, <1>5, ResumesMove
  <2>2. Held(u)'
    BY <1>0, <2>1 DEF Held, RunsOf
  <2> QED
    BY <2>1, <2>2, OwnStep
<1>6. CASE Loads(r)
  <2>1. runs[r].task \in AtWork
    BY <1>0, <1>6 DEF Loads
  <2>2. /\ Mover(r, t) /\ progress' = progress /\ configs' = configs /\ missed' = missed
        /\ runs'[r] = [trace |-> t, status |-> progress[t].status,
                       task |-> IF progress[t].status = "awaiting_approval" THEN "answering" ELSE "running"]
    BY <1>0, <1>6, LoadsMove, <1>t
  <2>3. Held(t)'
    BY <1>0, <2>2 DEF Held, RunsOf
  <2> QED
    BY <1>1, <2>1, <2>2, <2>3, OwnStep
<1>7. CASE Pauses(r)
  <2>1. runs[r].task \in AtWork /\ runs[r].status = "awaiting_approval"
        /\ UNCHANGED <<sink, requests, configs, progress, missed>> /\ Task(r, "paused")
    BY <1>0, <1>7 DEF Pauses
  <2>2. /\ Mover(r, t) /\ runs'[r] = [trace |-> t, task |-> "paused", status |-> runs[r].status]
    BY <1>0, <2>1, TaskMoves, <1>t
  <2>3. t \in configs' => Held(t)'
    <3>1. t \in configs' => Held(t)
      BY <2>1 DEF IntakeInv, ConfigsHeld
    <3>2. \A q \in Runs \ {r} : runs'[q] = runs[q]
      BY <2>2 DEF Mover, OnlyMoves
    <3>3. ASSUME NEW q \in RunsOf(t), runs[q].task \in AtWork, runs[q].status # "awaiting_approval"
          PROVE  q \in RunsOf(t)' /\ runs'[q] = runs[q]
      BY <2>1, <3>2, <3>3 DEF RunsOf
    <3> QED
      BY <2>1, <3>1, <3>3 DEF Held
  <2> QED
    BY <1>1, <2>1, <2>2, <2>3, OwnStep
<1>8. CASE RunEnds(r)
  <2>1. runs[r].task \in AtWork /\ UNCHANGED <<sink, requests, progress>> /\ Task(r, "ended")
        /\ configs' = configs \ {t}
        /\ missed' = IF BusyBeside(r) \/ progress[t].status \in ActiveStatuses THEN missed \cup {t} ELSE missed
    BY <1>t, <1>0, <1>8 DEF RunEnds
  <2>2. /\ Mover(r, t) /\ runs'[r] = [trace |-> t, task |-> "ended", status |-> runs[r].status]
    BY <1>0, <2>1, TaskMoves, <1>t
  <2>3. Live(t)' => t \in missed'
    <3>1. \A q \in Runs \ {r} : runs'[q] = runs[q]
      BY <2>2 DEF Mover, OnlyMoves
    <3>2. Busy(t)' => BusyBeside(r)
      BY <1>t, <2>2, <3>1 DEF Busy, BusyBeside, RunsOf, AtWork
    <3>3. Live(t)' => Busy(t)' \/ progress[t].status \in ActiveStatuses
      BY <2>1 DEF Live
    <3> QED
      BY <2>1, <3>2, <3>3
  <2> QED
    BY <1>1, <2>1, <2>2, <2>3, OwnStep
<1>9. CASE RunFails(r)
  <2>1. runs[r].task \in AtWork /\ UNCHANGED <<sink, requests, progress>> /\ Task(r, "ended")
        /\ configs' = configs \ {t} /\ missed' = missed \cup {t}
    BY <1>t, <1>9 DEF RunFails
  <2>2. Mover(r, t)
    BY <1>0, <2>1, TaskMoves, <1>t
  <2> QED
    BY <1>1, <2>1, <2>2, OwnStep
<1> QED
  BY <1>3, <1>4, <1>5, <1>6, <1>7, <1>8, <1>9 DEF RunNext

LEMMA RestartInv == IntakeInv /\ Shape' /\ SupervisorRestarts => IntakeInv'
<1> SUFFICES ASSUME IntakeInv, Shape', SupervisorRestarts PROVE IntakeInv'
    OBVIOUS
<1>1. /\ progress' = progress /\ configs' = {}
      /\ \A r \in Runs : runs'[r].task \notin AtWork
  BY DEF IntakeInv, Shape, SupervisorRestarts, AtWork
<1>2. \A t \in Traces : Live(t)' => t \in missed'
  BY <1>1 DEF Live, ActiveStatuses, Busy, RunsOf, Unfinished, UnfinishedTraces, SupervisorRestarts
<1>3. \A h \in Requests : requests'[h].pc = "free"
  BY DEF SupervisorRestarts, Free
<1> QED
  BY <1>1, <1>2, <1>3 DEF IntakeInv, ConfigsHeld, Registered, StillToSee, OneLiveBut

LEMMA IntakeStepInv == IntakeInv /\ [IntakeMoves]_intakeVars => IntakeInv'
<1> SUFFICES ASSUME IntakeInv, [IntakeMoves]_intakeVars PROVE IntakeInv'
    OBVIOUS
<1>0. Shape'
  BY ShapeStep DEF IntakeInv
<1>1. CASE SinkMoves
  BY <1>1, SinkInv
<1>2. ASSUME NEW h \in Requests, NEW t \in Traces, CheckNext(h, t) PROVE IntakeInv'
  BY <1>2, CheckInv
<1>3. ASSUME NEW r \in Runs, RunNext(r) PROVE IntakeInv'
  BY <1>3, RunInv
<1>4. CASE SupervisorRestarts
  BY <1>0, <1>4, RestartInv
<1>5. CASE UNCHANGED intakeVars
  <2>1. UNCHANGED <<requests, configs, progress, runs, missed>>
    BY <1>5 DEF intakeVars
  <2> QED
    BY <1>0, <2>1, LiveStays DEF IntakeInv, Shape, ConfigsHeld, Registered, StillToSee, OneLiveBut, SameNode
<1> QED
  BY <1>1, <1>2, <1>3, <1>4, <1>5 DEF IntakeMoves

LEMMA IntakeInvHolds == IntakeSpec => []IntakeInv
<1>1. IntakeInit => IntakeInv
  BY IntakeInitInv
<1>2. IntakeInv /\ [IntakeMoves]_intakeVars => IntakeInv'
  BY IntakeStepInv
<1>3. [IntakeNext]_intakeVars => [IntakeMoves]_intakeVars
  BY DEF IntakeMoves, SinkMoves, IntakeNext
<1> QED
  BY <1>1, <1>2, <1>3, PTL DEF IntakeSpec

----------------------------------------------------------------------------
(* Theorems *)

\* The sink's attempts stay within MAX_RETRIES, it waits only for a request,
\* and the requests, the configs and the diagnoses keep their types.
THEOREM IntakeTypeCorrect == IntakeSpec => []IntakeTypeOK
<1>1. IntakeInv => IntakeTypeOK
  BY ShapeIsType DEF IntakeInv
<1> QED
  BY <1>1, IntakeInvHolds, PTL

\* create_incident accepts no second diagnosis of a node while one is
\* unfinished, but through the gaps: a check that ran before the first
\* checkpoint, a checkpoint that could not be read, two requests at a time, a
\* crash, a restart, or several runs of one diagnosis.
THEOREM DuplicateCheckIsSound == IntakeSpec => []DuplicatesOnlyThroughGaps
<1>1. IntakeInv => DuplicatesOnlyThroughGaps
  BY InvImplies
<1> QED
  BY <1>1, IntakeInvHolds, PTL

\* A diagnosis nobody works on and nobody waits for does not stay in
\* _active_configs, where it would count as active.
THEOREM NoStaleConfig == IntakeSpec => []ConfigsAreLive
<1>1. IntakeInv => ConfigsAreLive
  BY InvImplies
<1> QED
  BY <1>1, IntakeInvHolds, PTL

----------------------------------------------------------------------------
(* RagIndex *)

EmptyUntilOpened == ~opened => built = << >> /\ appended = << >>

CorpusInv == RagTypeOK /\ EmptyUntilOpened /\ IndexFollowsStore

----------------------------------------------------------------------------
(* Corpora *)

LEMMA CorporaDef ==
    ASSUME NEW f
    PROVE  f \in Corpora <=> DOMAIN f \subseteq Tickets /\ f \in [DOMAIN f -> Contents]
  BY DEF Corpora

LEMMA EmptyCorpus == << >> \in Corpora /\ DOMAIN << >> = {}
  BY DEF Corpora

LEMMA WrittenCorpus ==
    ASSUME NEW f \in Corpora, NEW g \in Corpora
    PROVE  /\ Written(f, g) \in Corpora
           /\ DOMAIN Written(f, g) = DOMAIN f \cup DOMAIN g
           /\ \A t \in DOMAIN f : Written(f, g)[t] = f[t]
           /\ \A t \in DOMAIN g \ DOMAIN f : Written(f, g)[t] = g[t]
<1> DEFINE S == DOMAIN f \cup DOMAIN g
           h == [t \in S |-> IF t \in DOMAIN f THEN f[t] ELSE g[t]]
<1>1. S \subseteq Tickets /\ \A t \in S : h[t] \in Contents
  BY CorporaDef
<1>2. h \in [S -> Contents]
  BY <1>1
<1>3. h \in Corpora
  BY <1>1, <1>2 DEF Corpora
<1> QED
  BY <1>3 DEF Written

LEMMA SingleCorpus ==
    ASSUME NEW t \in Tickets, NEW c \in Contents
    PROVE  [u \in {t} |-> c] \in Corpora
<1>1. [u \in {t} |-> c] \in [{t} -> Contents]
  OBVIOUS
<1> QED
  BY <1>1 DEF Corpora

LEMMA RestrictedCorpus ==
    ASSUME NEW f, DOMAIN f \subseteq Tickets, \A t \in DOMAIN f : f[t] \in Contents,
           NEW S \in SUBSET DOMAIN f
    PROVE  /\ Restrict(f, S) \in Corpora
           /\ DOMAIN Restrict(f, S) = S
           /\ \A t \in S : Restrict(f, S)[t] = f[t]
<1>1. Restrict(f, S) \in [S -> Contents]
  BY DEF Restrict
<1> QED
  BY <1>1 DEF Corpora, Restrict

\* build_index keeps what has words.
LEMMA BuiltCorpus ==
    ASSUME NEW f \in Corpora
    PROVE  /\ Built(f) \in Corpora
           /\ DOMAIN Built(f) = {t \in DOMAIN f : HasWords(f[t])}
           /\ \A t \in DOMAIN Built(f) : Built(f)[t] = f[t]
  BY CorporaDef, RestrictedCorpus DEF Built

\* A load or an upsert changes what it wrote and nothing else.
LEMMA LoadedCorpus ==
    ASSUME NEW f, DOMAIN f \subseteq Tickets, \A t \in DOMAIN f : f[t] \in Contents,
           NEW S \in SUBSET DOMAIN f, NEW corpus \in Corpora
    PROVE  /\ WithLoad(f, S, corpus) \in Corpora
           /\ DOMAIN WithLoad(f, S, corpus) = S \cup DOMAIN corpus
           /\ \A t \in DOMAIN corpus \ S : WithLoad(f, S, corpus)[t] = corpus[t]
<1> DEFINE loaded == Restrict(f, S)
<1>1. loaded \in Corpora /\ DOMAIN loaded = S
  BY RestrictedCorpus
<1>2. WithLoad(f, S, corpus) = Written(loaded, corpus)
  BY DEF WithLoad
<1> HIDE DEF loaded
<1>3. /\ Written(loaded, corpus) \in Corpora
      /\ DOMAIN Written(loaded, corpus) = DOMAIN loaded \cup DOMAIN corpus
      /\ \A t \in DOMAIN corpus \ DOMAIN loaded : Written(loaded, corpus)[t] = corpus[t]
  BY <1>1, WrittenCorpus
<1> QED
  BY <1>1, <1>2, <1>3

LEMMA LoadedTickets ==
    ASSUME NEW f, NEW S \in SUBSET DOMAIN f, NEW corpus, NEW t \in S
    PROVE  WithLoad(f, S, corpus)[t] = f[t]
  BY DEF WithLoad, Written, Restrict

LEMMA UpsertedCorpus ==
    ASSUME NEW t \in Tickets, NEW c \in Contents, NEW corpus \in Corpora
    PROVE  /\ WithTicket(t, c, corpus) \in Corpora
           /\ DOMAIN WithTicket(t, c, corpus) = {t} \cup DOMAIN corpus
           /\ WithTicket(t, c, corpus)[t] = c
           /\ \A u \in DOMAIN corpus \ {t} : WithTicket(t, c, corpus)[u] = corpus[u]
<1> DEFINE single == [u \in {t} |-> c]
<1>1. single \in Corpora /\ DOMAIN single = {t} /\ single[t] = c
  BY SingleCorpus
<1> HIDE DEF single
<1>2. WithTicket(t, c, corpus) = Written(single, corpus)
  BY DEF WithTicket, single
<1>3. /\ Written(single, corpus) \in Corpora
      /\ DOMAIN Written(single, corpus) = DOMAIN single \cup DOMAIN corpus
      /\ \A u \in DOMAIN single : Written(single, corpus)[u] = single[u]
      /\ \A u \in DOMAIN corpus \ DOMAIN single : Written(single, corpus)[u] = corpus[u]
  BY <1>1, WrittenCorpus
<1> QED
  BY <1>1, <1>2, <1>3

----------------------------------------------------------------------------
(* What the kinds of step do to IndexFollowsStore *)

\* A rebuilt index holds what the collection does.
LEMMA RebuildFollows ==
    ASSUME store' \in Corpora, Rebuilds
    PROVE  built' \in Corpora /\ appended' = << >> /\ torn' = {} /\ IndexFollowsStore'
<1>1. /\ built' \in Corpora
      /\ DOMAIN built' = {t \in DOMAIN store' : HasWords(store'[t])}
      /\ \A t \in DOMAIN built' : built'[t] = store'[t]
  BY BuiltCorpus DEF Rebuilds
<1>2. appended' = << >> /\ torn' = {}
  BY DEF Rebuilds
<1>3. \A t : AppendedFor(t)' = {}
  BY <1>2 DEF AppendedFor
<1>4. \A t : Indexed(t)' <=> t \in DOMAIN built'
  BY <1>3 DEF Indexed
<1>5. \A t : IndexedContent(t)' = built'[t]
  BY <1>3 DEF IndexedContent
<1> QED
  BY <1>1, <1>2, <1>4, <1>5 DEF IndexFollowsStore, Stored, Current

\* An empty index follows a collection all of whose tickets are torn.
LEMMA NothingIndexed ==
    ASSUME built' = << >>, appended' = << >>, torn' = DOMAIN store'
    PROVE  IndexFollowsStore'
<1>1. \A t : ~Indexed(t)'
  BY EmptyCorpus DEF Indexed, AppendedFor
<1> QED
  BY <1>1 DEF IndexFollowsStore

\* The index stays, and what was written is torn.
LEMMA IndexStays ==
    ASSUME EmptyUntilOpened, IndexFollowsStore, UNCHANGED <<built, appended>>,
           NEW corpus \in Collections, NEW S,
           DOMAIN store' = S \cup DOMAIN corpus,
           \A t \in DOMAIN corpus \ S : store'[t] = corpus[t],
           S \cup torn \subseteq torn'
    PROVE  IndexFollowsStore'
<1>1. \A t : (Indexed(t)' <=> Indexed(t)) /\ IndexedContent(t)' = IndexedContent(t)
  BY DEF Indexed, IndexedContent, AppendedFor
<1>2. CASE corpus = store
  BY <1>1, <1>2 DEF IndexFollowsStore, Stored, Current
<1>3. CASE ~opened /\ corpus = << >>
  <2>1. \A t : ~Indexed(t)'
    BY <1>1, <1>3, EmptyCorpus DEF EmptyUntilOpened, Indexed, AppendedFor
  <2>2. DOMAIN store' \subseteq torn'
    BY <1>3, EmptyCorpus
  <2> QED
    BY <2>1, <2>2 DEF IndexFollowsStore
<1> QED
  BY <1>2, <1>3 DEF Collections

----------------------------------------------------------------------------
(* Upserts.  The content found last under a ticket is that of its greatest   *)
(* index, so there has to be one.                                            *)

LEMMA LastEntry ==
    ASSUME appended \in Seq(Tickets \X Contents), NEW u, AppendedFor(u) # {}
    PROVE  \E i \in AppendedFor(u) :
              /\ \A j \in AppendedFor(u) : j <= i
              /\ IndexedContent(u) = appended[i][2]
<1>1. Len(appended) \in Nat /\ AppendedFor(u) \in SUBSET (1 .. Len(appended))
  BY DEF AppendedFor
<1>2. \E i \in AppendedFor(u) : \A j \in AppendedFor(u) : j <= i
  BY <1>1, MaxIndex
<1> QED
  BY <1>2 DEF IndexedContent

\* An entry for t does not change what the index has of another ticket.
LEMMA OtherEntries ==
    ASSUME appended \in Seq(Tickets \X Contents), NEW t \in Tickets, NEW c \in Contents,
           AddsDocument(t, c), UNCHANGED built, NEW u, u # t
    PROVE  (Indexed(u)' <=> Indexed(u)) /\ (Indexed(u) => IndexedContent(u)' = IndexedContent(u))
<1>1. CASE HasWords(c)
  <2>1. appended' = Append(appended, <<t, c>>)
    BY <1>1 DEF AddsDocument
  <2>2. /\ DOMAIN appended' = DOMAIN appended \cup {Len(appended) + 1}
        /\ \A i \in DOMAIN appended : appended'[i] = appended[i]
        /\ appended'[Len(appended) + 1] = <<t, c>>
    BY <2>1
  <2>3. AppendedFor(u)' = AppendedFor(u)
    BY <2>2 DEF AppendedFor
  <2>4. CASE AppendedFor(u) = {}
    BY <2>3, <2>4 DEF Indexed, IndexedContent
  <2>5. CASE AppendedFor(u) # {}
    <3> DEFINE last == CHOOSE i \in AppendedFor(u) : \A j \in AppendedFor(u) : j <= i
    <3>1. last \in AppendedFor(u)
      BY <2>5, LastEntry
    <3>2. last \in DOMAIN appended
      BY <3>1 DEF AppendedFor
    <3>3. IndexedContent(u) = appended[last][2] /\ IndexedContent(u)' = appended'[last][2]
      BY <2>3, <2>5 DEF IndexedContent
    <3> QED
      BY <2>2, <2>3, <2>5, <3>2, <3>3 DEF Indexed
  <2> QED
    BY <2>4, <2>5
<1>2. CASE ~HasWords(c)
  BY <1>2 DEF AddsDocument, Indexed, IndexedContent, AppendedFor
<1> QED
  BY <1>1, <1>2

\* The new entry is the one found under its ticket.
LEMMA OwnEntry ==
    ASSUME appended \in Seq(Tickets \X Contents), NEW t \in Tickets, NEW c \in Contents,
           AddsDocument(t, c), HasWords(c)
    PROVE  Indexed(t)' /\ IndexedContent(t)' = c
<1> DEFINE n == Len(appended) + 1
<1>1. appended' = Append(appended, <<t, c>>)
  BY DEF AddsDocument
<1>2. DOMAIN appended' = 1 .. n /\ appended'[n] = <<t, c>> /\ n \in Nat
  BY <1>1
<1>3. n \in AppendedFor(t)' /\ \A j \in AppendedFor(t)' : j \in 1 .. n
  BY <1>2 DEF AppendedFor
<1> HIDE DEF n
<1> DEFINE last == CHOOSE i \in AppendedFor(t)' : \A j \in AppendedFor(t)' : j <= i
<1>4. last \in AppendedFor(t)' /\ \A j \in AppendedFor(t)' : j <= last
  <2>1. ASSUME NEW j \in AppendedFor(t)' PROVE j <= n
    <3>1. j \in 1 .. n
      BY <1>3
    <3> QED
      BY <3>1
  <2>2. \E i \in AppendedFor(t)' : \A j \in AppendedFor(t)' : j <= i
    BY <1>3, <2>1, Zenon
  <2> QED
    BY <2>2, Zenon
<1>5. IndexedContent(t)' = appended'[last][2]
  BY <1>3 DEF IndexedContent
<1> HIDE DEF last
<1>6. last = n
  BY <1>2, <1>3, <1>4
<1>7. Indexed(t)'
  BY <1>3 DEF Indexed
<1> QED
  BY <1>2, <1>5, <1>6, <1>7

----------------------------------------------------------------------------
(* The invariant, by the kind of step *)

LEMMA CorpusInitInv == RagInit => CorpusInv
<1> SUFFICES ASSUME RagInit PROVE CorpusInv
    OBVIOUS
<1>1. RagTypeOK
  <2>1. store \in Corpora /\ built \in Corpora
    BY EmptyCorpus DEF RagInit
  <2>2. << >> \in Seq(Tickets \X Contents) /\ Len(<< >>) <= MaxEntries
    BY CorpusAssumption
  <2> QED
    BY <2>1, <2>2 DEF RagInit, RagTypeOK
<1>2. EmptyUntilOpened
  BY DEF RagInit, EmptyUntilOpened
<1>3. IndexFollowsStore
  BY EmptyCorpus DEF RagInit, IndexFollowsStore, Stored, Indexed, AppendedFor
<1> QED
  BY <1>1, <1>2, <1>3 DEF CorpusInv

LEMMA CollectionsAreCorpora == RagTypeOK => Collections \subseteq Corpora
  BY EmptyCorpus DEF RagTypeOK, Collections

\* Steps that leave an empty or a rebuilt index.
LEMMA FreshIndex ==
    ASSUME CorpusInv, store' \in Corpora, opened' \in BOOLEAN, torn' \in SUBSET Tickets,
           \/ Rebuilds /\ opened'
           \/ built' = << >> /\ appended' = << >> /\ torn' = DOMAIN store'
    PROVE  CorpusInv'
<1>1. built' \in Corpora /\ appended' = << >> /\ IndexFollowsStore'
  BY EmptyCorpus, RebuildFollows, NothingIndexed
<1>2. RagTypeOK'
  BY <1>1, CorpusAssumption DEF RagTypeOK
<1>3. EmptyUntilOpened'
  BY DEF EmptyUntilOpened
<1> QED
  BY <1>1, <1>2, <1>3 DEF CorpusInv

LEMMA StartInv == CorpusInv /\ (RagStarts \/ RagStartsAlone) => CorpusInv'
<1> SUFFICES ASSUME CorpusInv, RagStarts \/ RagStartsAlone PROVE CorpusInv'
    OBVIOUS
<1>0. store \in Corpora /\ << >> \in Corpora
  BY EmptyCorpus DEF CorpusInv, RagTypeOK
<1>1. CASE RagStarts
  <2>1. PICK corpus \in {store, << >>}, taken \in SUBSET DOMAIN SeedTickets :
           store' = WithLoad(SeedTickets, taken, corpus)
    BY <1>1 DEF RagStarts
  <2>2. store' \in Corpora
    BY <1>0, <2>1, LoadedCorpus, CorpusAssumption
  <2>3. torn' \in SUBSET Tickets
    BY <1>1, <2>2, CorporaDef DEF RagStarts, Rebuilds
  <2> QED
    BY <1>1, <2>2, <2>3, FreshIndex DEF RagStarts
<1>2. CASE RagStartsAlone
  BY <1>0, <1>2, FreshIndex, CorporaDef DEF RagStartsAlone
<1> QED
  BY <1>1, <1>2

\* Steps that keep the index and tear what they write.
LEMMA TornStep ==
    ASSUME CorpusInv, UNCHANGED <<built, appended>>, opened' \in {opened, TRUE},
           NEW corpus \in Collections, NEW S, store' \in Corpora,
           DOMAIN store' = S \cup DOMAIN corpus,
           \A t \in DOMAIN corpus \ S : store'[t] = corpus[t],
           S \cup torn \subseteq torn', torn' \in SUBSET Tickets
    PROVE  CorpusInv'
<1>1. IndexFollowsStore'
  BY IndexStays DEF CorpusInv
<1>2. RagTypeOK' /\ EmptyUntilOpened'
  BY DEF CorpusInv, RagTypeOK, EmptyUntilOpened
<1> QED
  BY <1>1, <1>2 DEF CorpusInv

LEMMA SeedsInv ==
    ASSUME CorpusInv, NEW tickets \in Corpora, Seeds(tickets)
    PROVE  CorpusInv'
<1>1. PICK corpus \in Collections, taken \in SUBSET DOMAIN tickets :
         store' = WithLoad(tickets, taken, corpus)
  BY DEF Seeds
<1>2. DOMAIN tickets \subseteq Tickets /\ \A t \in DOMAIN tickets : tickets[t] \in Contents
  BY CorporaDef
<1>3. /\ store' \in Corpora
      /\ DOMAIN store' = taken \cup DOMAIN corpus
      /\ \A t \in DOMAIN corpus \ taken : store'[t] = corpus[t]
  <2>1. corpus \in Corpora
    BY CollectionsAreCorpora DEF CorpusInv
  <2>2. taken \in SUBSET DOMAIN tickets
    OBVIOUS
  <2>3. /\ WithLoad(tickets, taken, corpus) \in Corpora
        /\ DOMAIN WithLoad(tickets, taken, corpus) = taken \cup DOMAIN corpus
        /\ \A t \in DOMAIN corpus \ taken : WithLoad(tickets, taken, corpus)[t] = corpus[t]
    BY <1>2, <2>1, <2>2, LoadedCorpus
  <2> QED
    BY <1>1, <2>3
<1>4. CASE Rebuilds
  BY <1>3, <1>4, FreshIndex DEF Seeds, Rebuilds
<1>5. CASE torn' = torn \cup DOMAIN tickets /\ UNCHANGED <<built, appended>>
  <2>1. torn' \in SUBSET Tickets /\ taken \cup torn \subseteq torn'
    BY <1>2, <1>5 DEF CorpusInv, RagTypeOK
  <2> QED
    BY <1>3, <1>5, <2>1, TornStep DEF Seeds
<1> QED
  BY <1>4, <1>5 DEF Seeds

LEMMA TearsInv ==
    ASSUME CorpusInv, NEW t \in Tickets, NEW c \in Contents, UpsertTears(t, c)
    PROVE  CorpusInv'
<1>1. PICK corpus \in Collections : store' = WithTicket(t, c, corpus)
  BY DEF UpsertTears
<1>2. /\ store' \in Corpora
      /\ DOMAIN store' = {t} \cup DOMAIN corpus
      /\ \A u \in DOMAIN corpus \ {t} : store'[u] = corpus[u]
  BY <1>1, UpsertedCorpus, CollectionsAreCorpora DEF CorpusInv
<1>3. torn' \in SUBSET Tickets /\ {t} \cup torn \subseteq torn'
  BY DEF CorpusInv, RagTypeOK, UpsertTears
<1> QED
  BY <1>2, <1>3, TornStep DEF UpsertTears

LEMMA UpsertInv ==
    ASSUME CorpusInv, NEW t \in Tickets, NEW c \in Contents, Upserts(t, c)
    PROVE  CorpusInv'
<1>1. PICK corpus \in Collections : store' = WithTicket(t, c, corpus)
  BY DEF Upserts
<1>2. /\ store' \in Corpora
      /\ DOMAIN store' = {t} \cup DOMAIN corpus
      /\ store'[t] = c
      /\ \A u \in DOMAIN corpus \ {t} : store'[u] = corpus[u]
  BY <1>1, UpsertedCorpus, CollectionsAreCorpora DEF CorpusInv
<1>3. /\ appended \in Seq(Tickets \X Contents)
      /\ AddsDocument(t, c) /\ UNCHANGED built /\ torn' = torn \ {t} /\ opened' = TRUE
      /\ Len(appended) < MaxEntries
  BY DEF CorpusInv, RagTypeOK, Upserts
<1>4. RagTypeOK'
  <2>1. appended' \in Seq(Tickets \X Contents) /\ Len(appended') <= MaxEntries
    BY <1>3, CorpusAssumption DEF AddsDocument
  <2> QED
    BY <1>2, <1>3, <2>1 DEF CorpusInv, RagTypeOK
<1>5. \A u : u # t => (Indexed(u)' <=> Indexed(u)) /\ (Indexed(u) => IndexedContent(u)' = IndexedContent(u))
  BY <1>3, OtherEntries
<1>6. HasWords(c) => Indexed(t)' /\ IndexedContent(t)' = c
  BY <1>3, OwnEntry
<1>7. ASSUME corpus = store PROVE IndexFollowsStore'
  <2>1. \A u \in Tickets : Indexed(u)' => Stored(u)'
    BY <1>2, <1>5, <1>7 DEF CorpusInv, IndexFollowsStore, Stored
  <2>2. ASSUME NEW u \in DOMAIN store' \ torn', HasWords(store'[u])
        PROVE  Indexed(u)' /\ Current(u, IndexedContent(u))'
    <3>1. CASE u = t
      BY <1>2, <1>6, <2>2, <3>1 DEF Current
    <3>2. CASE u # t
      <4>1. u \in DOMAIN store \ torn /\ store'[u] = store[u]
        BY <1>2, <1>3, <1>7, <2>2, <3>2
      <4>2. Indexed(u) /\ Current(u, IndexedContent(u))
        BY <2>2, <4>1 DEF CorpusInv, IndexFollowsStore
      <4> QED
        BY <1>5, <3>2, <4>1, <4>2 DEF Current
    <3> QED
      BY <3>1, <3>2
  <2> QED
    BY <2>1, <2>2 DEF IndexFollowsStore, HasWords, Current
<1>8. ASSUME ~opened, corpus = << >> PROVE IndexFollowsStore'
  <2>1. \A u : ~Indexed(u)
    BY <1>8, EmptyCorpus DEF CorpusInv, EmptyUntilOpened, Indexed, AppendedFor
  <2>2. DOMAIN store' = {t}
    BY <1>2, <1>8, EmptyCorpus
  <2>3. \A u \in Tickets : Indexed(u)' => Stored(u)'
    BY <1>5, <2>1, <2>2 DEF Stored
  <2>4. ASSUME NEW u \in DOMAIN store' \ torn', HasWords(store'[u])
        PROVE  Indexed(u)' /\ Current(u, IndexedContent(u))'
    BY <1>2, <1>6, <2>2, <2>4 DEF Current
  <2> QED
    BY <2>3, <2>4 DEF IndexFollowsStore, HasWords, Current
<1>9. EmptyUntilOpened'
  BY <1>3 DEF EmptyUntilOpened
<1> QED
  BY <1>4, <1>7, <1>8, <1>9 DEF CorpusInv, Collections

LEMMA RetrievesInv == CorpusInv /\ Retrieves => CorpusInv'
<1> SUFFICES ASSUME CorpusInv, Retrieves PROVE CorpusInv'
    OBVIOUS
<1>1. store' \in Collections /\ store' \in Corpora
  BY CollectionsAreCorpora DEF Retrieves, CorpusInv
<1>2. DOMAIN store' = {} \cup DOMAIN store' /\ {} \cup torn \subseteq torn' /\ torn' \in SUBSET Tickets
  BY DEF Retrieves, CorpusInv, RagTypeOK
<1>3. UNCHANGED <<built, appended>> /\ opened' \in {opened, TRUE}
  BY DEF Retrieves
<1> QED
  BY <1>1, <1>2, <1>3, TornStep

LEMMA CorpusStepInv == CorpusInv /\ [RagNext]_ragVars => CorpusInv'
<1> SUFFICES ASSUME CorpusInv, [RagNext]_ragVars PROVE CorpusInv'
    OBVIOUS
<1>1. CASE RagStarts \/ RagStartsAlone
  BY <1>1, StartInv
<1>2. ASSUME NEW tickets \in Corpora, Seeds(tickets) PROVE CorpusInv'
  BY <1>2, SeedsInv
<1>3. ASSUME NEW t \in Tickets, NEW c \in Contents, Upserts(t, c) \/ UpsertTears(t, c) PROVE CorpusInv'
  BY <1>3, UpsertInv, TearsInv
<1>4. CASE Retrieves \/ HealthAsked
  BY <1>4, RetrievesInv DEF HealthAsked
<1>5. CASE UNCHANGED ragVars
  <2>1. UNCHANGED <<store, opened, built, appended, torn>>
    BY <1>5 DEF ragVars
  <2>2. RagTypeOK' /\ EmptyUntilOpened'
    BY <2>1 DEF CorpusInv, RagTypeOK, EmptyUntilOpened
  <2>3. store \in Collections
    BY DEF Collections
  <2>4. DOMAIN store' = {} \cup DOMAIN store /\ {} \cup torn \subseteq torn'
    BY <2>1
  <2>5. IndexFollowsStore'
    BY <2>1, <2>3, <2>4, IndexStays DEF CorpusInv
  <2> QED
    BY <2>2, <2>5 DEF CorpusInv
<1> QED
  BY <1>1, <1>2, <1>3, <1>4, <1>5 DEF RagNext

LEMMA CorpusInvHolds == RagSpec => []CorpusInv
<1>1. RagInit => CorpusInv
  BY CorpusInitInv
<1>2. CorpusInv /\ [RagNext]_ragVars => CorpusInv'
  BY CorpusStepInv
<1> QED
  BY <1>1, <1>2, PTL DEF RagSpec

----------------------------------------------------------------------------
(* Theorems *)

\* The collection and what the rebuilds read of it map tickets to contents, and
\* the entries added since stay within the bound.
THEOREM RagTypeCorrect == RagSpec => []RagTypeOK
<1>1. CorpusInv => RagTypeOK
  BY DEF CorpusInv
<1> QED
  BY <1>1, CorpusInvHolds, PTL

\* Keyword search knows no ticket that the collection lost or never had, and
\* finds under a ticket whose writes all reached it what the collection holds,
\* whatever restarts, failed rebuilds and repeated upserts came between.
THEOREM SearchIsFaithful == RagSpec => []IndexFollowsStore
<1>1. CorpusInv => IndexFollowsStore
  BY DEF CorpusInv
<1> QED
  BY <1>1, CorpusInvHolds, PTL

----------------------------------------------------------------------------
(* Opinions *)

\* What the arbitrator knows of an expert's answer.
IsOpinion(o) == o.confidence \in 0 .. 10 /\ o.evidence \in Nat

IsPanel(panel) == DOMAIN panel \subseteq Experts /\ \A e \in DOMAIN panel : IsOpinion(panel[e])

LEMMA PanelsArePanels ==
    ASSUME NEW experts \in SUBSET Experts, NEW panel \in Panels(experts)
    PROVE  IsPanel(panel)
<1>1. PICK answering \in SUBSET experts :
         /\ DOMAIN panel = answering
         /\ \A e \in answering : panel[e] \in Answers(e)
  BY DEF Panels
<1>2. ASSUME NEW e \in Experts, NEW o \in Answers(e) PROVE IsOpinion(o)
  <2>1. MockFinding(e).confidence = 5
    BY DEF MockFinding
  <2>2. \A f \in Reasoned(e) : f.confidence \in 0 .. 10
    BY <2>1, ArbitrationAssumption DEF Reasoned
  <2> QED
    BY <2>2, ArbitrationAssumption DEF Answers, IsOpinion
<1> QED
  BY <1>1, <1>2 DEF IsPanel

----------------------------------------------------------------------------
(* Scores *)

LEMMA ProductGrows ==
    ASSUME NEW a \in Nat, NEW b \in Nat, NEW c \in Nat, NEW d \in Nat, a >= b, c >= d
    PROVE  a * c >= b * d /\ a * c \in Nat /\ b * d \in Nat
<1>1. a * c = b * c + (a - b) * c /\ (a - b) * c >= 0
  OBVIOUS
<1>2. b * c = b * d + b * (c - d) /\ b * (c - d) >= 0
  OBVIOUS
<1> QED
  BY <1>1, <1>2

LEMMA WeightGrows ==
    ASSUME NEW n \in Nat, NEW k \in Nat, n >= k
    PROVE  EvidenceWeight(n) >= EvidenceWeight(k) /\ EvidenceWeight(n) \in Nat /\ EvidenceWeight(k) \in Nat
  BY DEF EvidenceWeight

LEMMA ReproducibilityGrows ==
    ASSUME NEW o, NEW p, IsOpinion(o), IsOpinion(p), o.evidence >= p.evidence,
           NEW v \in BOOLEAN, NEW w \in BOOLEAN, w => v
    PROVE  /\ Reproducibility(o, v) >= Reproducibility(p, w)
           /\ Reproducibility(o, v) \in Nat /\ Reproducibility(p, w) \in Nat
  BY DEF Reproducibility, IsOpinion

LEMMA ScoreIsNat ==
    ASSUME NEW panel, IsPanel(panel), NEW validated \in [DOMAIN panel -> BOOLEAN], NEW e \in DOMAIN panel
    PROVE  Score(panel, validated, e) \in 0 .. 1000
<1>1. panel[e].confidence \in 0 .. 10 /\ panel[e].evidence \in Nat
  BY DEF IsPanel, IsOpinion
<1>2. EvidenceWeight(panel[e].evidence) \in 5 .. 10
  BY <1>1 DEF EvidenceWeight
<1>3. Reproducibility(panel[e], validated[e]) \in {3, 5, 10}
  BY <1>1 DEF Reproducibility
<1>4. \A c \in 0 .. 10, w \in 5 .. 10 : c * w \in 0 .. 100
  OBVIOUS
<1>5. panel[e].confidence * EvidenceWeight(panel[e].evidence) \in 0 .. 100
  BY <1>1, <1>2, <1>4
<1>6. \A x \in 0 .. 100, r \in {3, 5, 10} : x * r \in 0 .. 1000
  OBVIOUS
<1> QED
  BY <1>3, <1>5, <1>6 DEF Score

LEMMA ScoreGrows ==
    ASSUME NEW panel, IsPanel(panel), NEW validated \in [DOMAIN panel -> BOOLEAN],
           NEW e \in DOMAIN panel, NEW f \in DOMAIN panel, AtLeast(panel, validated, e, f)
    PROVE  Score(panel, validated, e) >= Score(panel, validated, f)
<1> DEFINE W(x) == EvidenceWeight(panel[x].evidence)
           R(x) == Reproducibility(panel[x], validated[x])
<1>1. /\ IsOpinion(panel[e]) /\ IsOpinion(panel[f])
      /\ panel[e].confidence >= panel[f].confidence /\ panel[e].evidence >= panel[f].evidence
      /\ validated[f] => validated[e]
      /\ validated[e] \in BOOLEAN /\ validated[f] \in BOOLEAN
  BY DEF IsPanel, AtLeast
<1>2. W(e) >= W(f) /\ W(e) \in Nat /\ W(f) \in Nat
  BY <1>1, WeightGrows DEF IsOpinion
<1>3. R(e) >= R(f) /\ R(e) \in Nat /\ R(f) \in Nat
  BY <1>1, ReproducibilityGrows
<1>4. panel[e].confidence \in Nat /\ panel[f].confidence \in Nat
  BY <1>1 DEF IsOpinion
<1> HIDE DEF W, R
<1>5. /\ panel[e].confidence * W(e) >= panel[f].confidence * W(f)
      /\ panel[e].confidence * W(e) \in Nat /\ panel[f].confidence * W(f) \in Nat
  BY <1>1, <1>2, <1>4, ProductGrows
<1>6. (panel[e].confidence * W(e)) * R(e) >= (panel[f].confidence * W(f)) * R(f)
  BY <1>3, <1>5, ProductGrows
<1> QED
  BY <1>6 DEF Score, W, R

----------------------------------------------------------------------------
(* First of a sorted list *)

LEMMA Positions == \A e \in Experts : Position(e) \in 1 .. 4
<1>1. DOMAIN ExpertOrder = 1 .. 4
  BY DEF ExpertOrder
<1>2. \A e \in Experts : \E i \in DOMAIN ExpertOrder : ExpertOrder[i] = e
  BY DEF Experts
<1> QED
  BY <1>1, <1>2 DEF Position

\* What scores and positions range over.
Points == 0 .. 1000
Places == 1 .. 4

\* The place of an expert in the list, as one number.
Rank(v, n) == 5 * (1000 - v) + n

LEMMA LessIsNotMore == \A v, w \in Points : ~(v < w /\ v >= w)
  BY DEF Points

LEMMA RankIsNat == \A v \in Points, n \in Places : Rank(v, n) \in Nat
  BY DEF Rank, Points, Places

LEMMA RankOrders ==
    \A v, w \in Points, n, k \in Places :
       ~(Rank(w, k) < Rank(v, n)) => (v > w \/ (v = w /\ n <= k)) /\ v >= w
  BY DEF Rank, Points, Places

LEMMA LowestOf ==
    ASSUME NEW T \in SUBSET Nat, T # {}
    PROVE  \E x \in T : \A y \in T : ~(y < x)
<1> DEFINE R == OpToRel(<, Nat)
<1>1. IsWellFoundedOn(R, Nat)
  BY NatLessThanWellFounded, Zenon
<1>2. \A x, y \in Nat : x < y => <<x, y>> \in R
  BY DEF OpToRel
<1> HIDE DEF R
<1>3. \E x \in T : \A y \in T : ~(<<y, x>> \in R)
  BY <1>1, WFMin
<1> QED
  BY <1>2, <1>3

LEMMA FirstIsLargest ==
    ASSUME NEW S \in SUBSET Experts, S # {}, NEW value, \A e \in S : value[e] \in Points
    PROVE  First(S, value) \in S /\ \A f \in S : value[First(S, value)] >= value[f]
<1> DEFINE T == {Rank(value[e], Position(e)) : e \in S}
<1>1. \A e \in S : Position(e) \in Places /\ value[e] \in Points
  BY Positions DEF Places
<1>2. \A e \in S : Rank(value[e], Position(e)) \in Nat
  BY <1>1, RankIsNat, Zenon
<1>3. T \in SUBSET Nat /\ T # {}
  BY <1>2
<1>4. \E x \in T : \A y \in T : ~(y < x)
  <2> HIDE DEF T
  <2> QED
    BY <1>3, LowestOf
<1>5. PICK e \in S : \A f \in S : ~(Rank(value[f], Position(f)) < Rank(value[e], Position(e)))
  BY <1>4, Zenon
<1>6. \A f \in S : value[e] > value[f] \/ (value[e] = value[f] /\ Position(e) <= Position(f))
  BY <1>1, <1>5, RankOrders, Zenon
<1>7. /\ First(S, value) \in S
      /\ \A f \in S : \/ value[First(S, value)] > value[f]
                     \/ (value[First(S, value)] = value[f] /\ Position(First(S, value)) <= Position(f))
  BY <1>6, Zenon DEF First
<1>8. \A v, w \in Points : v > w \/ v = w => v >= w
  BY DEF Points
<1>9. \A f \in S : value[First(S, value)] >= value[f]
  BY <1>1, <1>7, <1>8, Zenon
<1> QED
  BY <1>7, <1>9, Zenon

LEMMA LeadIsStrict ==
    ASSUME NEW S \in SUBSET Experts, NEW scores \in [S -> Points], NEW winner \in S,
           NEW e \in S \ {winner}, Decisive(scores, winner)
    PROVE  scores[e] < scores[winner]
<1> DEFINE rest == S \ {winner}
           second == First(rest, scores)
<1>1. second \in rest /\ scores[second] >= scores[e]
  BY FirstIsLargest
<1>2. scores[winner] > 0 /\ 5 * (scores[winner] - scores[second]) >= scores[winner]
  BY DEF Decisive
<1> HIDE DEF second
<1>3. scores[winner] \in Points /\ scores[second] \in Points /\ scores[e] \in Points
  BY <1>1
<1>4. \A w, r, x \in Points : w > 0 /\ 5 * (w - r) >= w /\ r >= x => x < w
  BY DEF Points
<1> QED
  BY <1>1, <1>2, <1>3, <1>4, Zenon

LEMMA ScoresOf ==
    ASSUME NEW panel, IsPanel(panel), NEW validated \in CrossValidations(panel)
    PROVE  /\ validated \in [DOMAIN panel -> BOOLEAN]
           /\ Scores(panel, validated) \in [DOMAIN panel -> Points]
  BY ScoreIsNat DEF Scores, Points, CrossValidations

LEMMA WhoDebates ==
    ASSUME NEW panel, IsPanel(panel), Conflicts(panel) # {}
    PROVE  Debaters(panel) \subseteq Experts /\ DOMAIN panel # {}
<1> DEFINE confidence == [e \in DOMAIN panel |-> panel[e].confidence]
           first == First(DOMAIN panel, confidence)
           second == First(DOMAIN panel \ {first}, confidence)
<1>1. PICK e \in DOMAIN panel, f \in DOMAIN panel : e # f
  BY DEF Conflicts
<1>2. \A x \in DOMAIN panel : confidence[x] \in 0 .. 1000
  BY DEF IsPanel, IsOpinion
<1>3. DOMAIN panel \in SUBSET Experts /\ DOMAIN panel # {}
  BY <1>1 DEF IsPanel
<1> HIDE DEF confidence
<1>4. first \in DOMAIN panel
  <2>1. \A x \in DOMAIN panel : confidence[x] \in Points
    BY <1>2 DEF Points
  <2> QED
    BY <1>3, <2>1, FirstIsLargest
<1> HIDE DEF first
<1>5. DOMAIN panel \ {first} \in SUBSET Experts /\ DOMAIN panel \ {first} # {}
  BY <1>1, <1>3
<1>6. second \in DOMAIN panel
  <2>1. \A x \in DOMAIN panel \ {first} : confidence[x] \in Points
    BY <1>2 DEF Points
  <2>2. second \in DOMAIN panel \ {first}
    BY <1>5, <2>1, FirstIsLargest
  <2> QED
    BY <2>2
<1> QED
  BY <1>3, <1>4, <1>6 DEF Debaters, first, confidence

LEMMA DecisionsAreRecords ==
    ASSUME NEW panel, IsPanel(panel), NEW decision \in Decisions(panel)
    PROVE  decision \in DecisionRecords
<1> DEFINE Validations == UNION {[S -> BOOLEAN] : S \in SUBSET Experts}
<1>1. \A strategy \in {"unanimous", "weighted_voting", "adversarial_debate"},
         winner \in Experts \cup {NoExpert}, validated \in Validations :
            Decision(strategy, winner, validated) \in DecisionRecords
  BY DEF Decision, DecisionRecords
<1>2. CASE Conflicts(panel) = {}
  <2>1. << >> \in [{} -> BOOLEAN]
    OBVIOUS
  <2>2. << >> \in Validations
    BY <2>1
  <2>3. decision = Decision("unanimous", NoExpert, << >>)
    BY <1>2 DEF Decisions
  <2> HIDE DEF Validations
  <2> QED
    BY <1>1, <2>2, <2>3
<1>3. CASE Conflicts(panel) # {}
  <2>1. PICK validated \in CrossValidations(panel) :
           \/ decision = Decision("weighted_voting", First(DOMAIN panel, Scores(panel, validated)), validated)
           \/ \E side \in Debaters(panel) \cup {NoExpert} :
                 decision = Decision("adversarial_debate", side, validated)
    BY <1>3 DEF Decisions
  <2>2. validated \in Validations
    BY DEF CrossValidations, IsPanel
  <2>3. DOMAIN panel \in SUBSET Experts /\ DOMAIN panel # {} /\ Debaters(panel) \subseteq Experts
    BY <1>3, WhoDebates DEF IsPanel
  <2>4. First(DOMAIN panel, Scores(panel, validated)) \in Experts
    BY <2>3, ScoresOf, FirstIsLargest
  <2> HIDE DEF Validations
  <2> QED
    BY <1>1, <2>1, <2>2, <2>3, <2>4
<1> QED
  BY <1>2, <1>3

----------------------------------------------------------------------------
(* Theorems *)

\* Whatever the experts answer and whatever the cross-validations find, a vote that
\* stands outvotes no expert in favour of one that is nowhere better.
THEOREM NobodyOutvoted ==
    ASSUME NEW panel, IsPanel(panel), NEW decision \in Decisions(panel)
    PROVE  NotOutvoted(panel, decision)
<1> SUFFICES ASSUME decision.strategy = "weighted_voting",
                    NEW e \in DOMAIN panel \ {decision.winner},
                    AtLeast(panel, decision.validated, e, decision.winner)
             PROVE  FALSE
    BY DEF NotOutvoted
<1>1. PICK validated \in [DOMAIN panel -> BOOLEAN] :
         LET scores == Scores(panel, validated)
             winner == First(DOMAIN panel, scores)
         IN  Decisive(scores, winner) /\ decision = Decision("weighted_voting", winner, validated)
  BY DEF Decisions, Decision, CrossValidations
<1> DEFINE scores == Scores(panel, validated)
           winner == First(DOMAIN panel, scores)
<1>2. decision.winner = winner /\ decision.validated = validated /\ Decisive(scores, winner)
  BY <1>1 DEF Decision
<1>3. DOMAIN panel \in SUBSET Experts /\ DOMAIN panel # {}
  BY DEF IsPanel
<1>4. scores \in [DOMAIN panel -> Points]
  BY ScoreIsNat DEF Scores, Points
<1>5. winner \in DOMAIN panel
  BY <1>3, <1>4, FirstIsLargest
<1>6. scores[e] < scores[winner]
  BY <1>2, <1>3, <1>4, <1>5, LeadIsStrict
<1>7. Score(panel, validated, e) >= Score(panel, validated, winner)
  BY <1>2, <1>5, ScoreGrows
<1>8. scores[e] >= scores[winner]
  BY <1>5, <1>7 DEF Scores
<1>9. scores[e] \in Points /\ scores[winner] \in Points
  BY <1>4, <1>5
<1> QED
  BY <1>6, <1>8, <1>9, LessIsNotMore

----------------------------------------------------------------------------
(* What a step of the loop is to its parts *)

\* The operators' state, without the outbox, which the sink empties.
operatorVars == <<buckets, samples, counts, lastAnomaly, lastAlert, alertsSeen, pendingIds,
                  timers, now, maxSeen, watermark, windows>>

LEMMA StreamSide ==
    ASSUME LoopNext, workload \in Workloads
    PROVE  StreamNext \/ UNCHANGED operatorVars
<1>0. workload.metrics \subseteq MetricEvents /\ workload.alerts \subseteq AlertEvents
  BY LoopAssumption
<1>1. CASE StreamStep
  BY <1>0, <1>1 DEF StreamStep, StreamNext
<1>2. CASE SinkTakesNext
  BY <1>2 DEF SinkTakesNext, operatorVars
<1>3. CASE UNCHANGED streamVars
  BY <1>3 DEF streamVars, operatorVars
<1>4. ASSUME NEW incident \in Incidents, SinkTakesOther(incident) PROVE UNCHANGED streamVars
  BY <1>4 DEF SinkTakesOther
<1>5. CASE DeliveryStep \/ RestartsSupervisor \/ CorpusStep
  BY <1>3, <1>5 DEF DeliveryStep, RestartsSupervisor, CorpusStep
<1>6. ASSUME NEW r \in Runs, CaseNext(r) PROVE UNCHANGED streamVars
  BY <1>6 DEF CaseNext, Begins, Searches, Prefetches, Dispatches, Arbitrates, PausesCase, ResumesCase, LoadsCase,
              TakesDecision, Verifies, Executes, FilesCase, ReviewEnds, EndsRun, Crashes, CaseStep, Forgets
<1> QED
  BY <1>1, <1>2, <1>3, <1>4, <1>5, <1>6 DEF LoopNext

LEMMA RunSide ==
    ASSUME NEW r \in Runs, CaseNext(r)
    PROVE  RunNext(r) \/ UNCHANGED intakeVars
<1>1. CASE Begins(r) \/ PausesCase(r) \/ LoadsCase(r) \/ TakesDecision(r) \/ EndsRun(r) \/ Crashes(r)
  BY <1>1 DEF Begins, PausesCase, LoadsCase, TakesDecision, EndsRun, Crashes, RunNext
<1>2. CASE Prefetches(r) \/ Dispatches(r) \/ Arbitrates(r) \/ ReviewEnds(r)
  BY <1>2 DEF Prefetches, Dispatches, Arbitrates, ReviewEnds, RunNext
<1>3. CASE Verifies(r)
  BY <1>3 DEF Verifies, RunNext, Statuses
<1>4. CASE Executes(r)
  BY <1>4 DEF Executes, RunNext, Statuses
<1>5. CASE Searches(r) \/ FilesCase(r)
  BY <1>5 DEF Searches, FilesCase
<1>6. ASSUME NEW t \in Traces, ResumesCase(t, r) PROVE RunNext(r)
  BY <1>6 DEF ResumesCase, RunNext
<1> QED
  BY <1>1, <1>2, <1>3, <1>4, <1>5, <1>6 DEF CaseNext

LEMMA IntakeSide ==
    ASSUME LoopNext
    PROVE  IntakeMoves \/ UNCHANGED intakeVars
<1>1. CASE StreamStep \/ CorpusStep
  BY <1>1 DEF StreamStep, CorpusStep
<1>2. CASE SinkTakesNext
  BY <1>2 DEF SinkTakesNext, IntakeMoves, SinkMoves
<1>3. ASSUME NEW incident \in Incidents, SinkTakesOther(incident) PROVE IntakeMoves
  BY <1>3 DEF SinkTakesOther, IntakeMoves, SinkMoves
<1>4. CASE DeliveryStep
  BY <1>4 DEF DeliveryStep, IntakeMoves, SinkMoves, SinkNext, CheckNext
<1>5. CASE RestartsSupervisor
  BY <1>5 DEF RestartsSupervisor, IntakeMoves
<1>6. \A r \in Runs : CaseNext(r) => RunNext(r) \/ UNCHANGED intakeVars
  BY RunSide
<1> QED
  BY <1>1, <1>2, <1>3, <1>4, <1>5, <1>6 DEF LoopNext, IntakeMoves

LEMMA SeedsAreCorpus == SeedTickets \in Corpora
  BY CorpusAssumption, CorporaDef

LEMMA CorpusSide ==
    ASSUME LoopNext, \A r \in Runs : runs[r].task = "running" => runs[r].trace \in Traces
    PROVE  RagNext \/ UNCHANGED ragVars
<1>1. CASE StreamStep \/ SinkTakesNext \/ DeliveryStep \/ RestartsSupervisor
  BY <1>1 DEF StreamStep, SinkTakesNext, DeliveryStep, RestartsSupervisor, ragVars
<1>2. ASSUME NEW incident \in Incidents, SinkTakesOther(incident) PROVE UNCHANGED ragVars
  BY <1>2 DEF SinkTakesOther
<1>3. ASSUME NEW r \in Runs, CaseNext(r) PROVE RagNext \/ UNCHANGED ragVars
  <2>1. CASE Searches(r)
    BY <2>1 DEF Searches, RagNext
  <2>2. CASE FilesCase(r)
    <3>1. runs[r].trace \in Traces => ReviewTickets \subseteq Tickets /\ runs[r].trace \in Contents
      BY LoopAssumption
    <3>2. ASSUME NEW ticket \in ReviewTickets, Upserts(ticket, runs[r].trace) \/ UpsertTears(ticket, runs[r].trace),
                 runs[r].trace \in Traces
          PROVE  RagNext
      BY <3>1, <3>2 DEF RagNext
    <3>3. runs[r].trace \in Traces
      BY <2>2 DEF FilesCase, Working
    <3> QED
      BY <2>2, <3>2, <3>3 DEF FilesCase, UpsertsCase, WritesNoCase
  <2>3. CASE ~Searches(r) /\ ~FilesCase(r)
    BY <1>3, <2>3 DEF CaseNext, Begins, Prefetches, Dispatches, Arbitrates, PausesCase, ResumesCase, LoadsCase,
                      TakesDecision, Verifies, Executes, ReviewEnds, EndsRun, Crashes, Forgets
  <2> QED
    BY <2>1, <2>2, <2>3
<1>4. CASE CorpusStep
  BY <1>4, SeedsAreCorpus DEF CorpusStep, RagNext, ClientTickets, ClientContents
<1> QED
  BY <1>1, <1>2, <1>3, <1>4 DEF LoopNext

----------------------------------------------------------------------------
(* The invariant *)

IsCase(c) ==
    c \in [stage : Stages, docs : {c.docs}, panel : {c.panel}, decision : DecisionRecords \cup {NoDecision}]

CaseShape ==
    /\ DOMAIN cases = Traces /\ DOMAIN drafts = Runs /\ DOMAIN searches = Runs
    /\ workload \in Workloads

\* A case as it may be under a status, with opinions of these experts.
Fits(experts, status, c) ==
    /\ IsCase(c) /\ Placed(status, c)
    /\ IsPanel(c.panel) /\ DOMAIN c.panel \subseteq experts
    /\ c.decision # NoDecision => NotOutvoted(c.panel, c.decision)

\* The tasks of a run that has read its checkpoint.
Loaded == {"answering", "running"}

RunOk(r) ==
    /\ drafts[r] \in [case : {Case(r)}, filed : BOOLEAN]
    /\ runs[r].task \in Loaded => Fits(Called(runs[r].trace), runs[r].status, Case(r))
    /\ runs[r].task \notin Loaded => drafts[r] = NoDraft
    /\ runs[r].task \in {"launched", "resuming"} => runs[r].status = "none"
    /\ runs[r].task = "answering" => runs[r].status = "awaiting_approval"
    /\ drafts[r].filed => runs[r].task = "running" /\ Case(r).stage = "review"

CheckpointOk(t) ==
    /\ Fits(IF RunsOf(t) = {} THEN {} ELSE Called(t), progress[t].status, cases[t])
    /\ RunsOf(t) = {} => progress[t].status = "none"

InStore(t) == \E k \in DOMAIN store : store[k] = t

\* A diagnosis in the experience base was executed by one of its runs.
OutcomeOk(t) == InStore(t) => \E r \in RunsOf(t) : runs[r].status \in TerminalStatuses

\* Where runs follow one another, the one at work has in memory what the
\* checkpoint holds, and once the case is filed nobody will review it again.
AloneOk(t) ==
    t \notin shared =>
        /\ \A q, r \in RunsOf(t) : runs[q].task \in AtWork /\ runs[r].task \in AtWork => q = r
        /\ \A r \in RunsOf(t) : runs[r].task \in Loaded =>
              runs[r].status = progress[t].status /\ Case(r) = cases[t]
        /\ InStore(t) =>
              /\ progress[t].status \in TerminalStatuses
              /\ \A r \in RunsOf(t) : runs[r].task \in AtWork =>
                    runs[r].task = "running" /\ (drafts[r].filed \/ Case(r).stage = "end")

DiagnosisOk(t) == CheckpointOk(t) /\ OutcomeOk(t) /\ AloneOk(t)

CasesInv ==
    /\ OneTicketPerDiagnosis
    /\ \A r \in Runs : RunOk(r)
    /\ \A t \in Traces : DiagnosisOk(t)

\* What a search found is still there, and current unless marked.
SearchOk(r) ==
    LET search == searches[r]
    IN  /\ search = [asked |-> search.asked, hits |-> search.hits, stale |-> search.stale]
        /\ search.asked => runs[r].task = "running" /\ Case(r).stage = "prefetch"
        /\ ~search.asked => search.hits = {}
        /\ \A d \in search.hits :
              opened /\ Stored(d.ticket) /\ (d.ticket \notin search.stale => Current(d.ticket, d.content))

LoopInv ==
    /\ CaseShape /\ StreamInv /\ Accounted /\ IntakeInv /\ CorpusInv
    /\ CasesInv
    /\ \A r \in Runs : SearchOk(r)

----------------------------------------------------------------------------
(* What the corpus takes *)

\* No case comes into the collection.
NoNewCases ==
    \A k \in DOMAIN store' : store'[k] \in Traces => k \in DOMAIN store /\ store[k] = store'[k]

LEMMA KeptCases ==
    ASSUME NoNewCases
    PROVE  /\ \A t \in Traces : InStore(t)' => InStore(t)
           /\ OneTicketPerDiagnosis /\ shared \subseteq shared' => OneTicketPerDiagnosis'
<1>1. \A t \in Traces : InStore(t)' => InStore(t)
  BY DEF NoNewCases, InStore
<1>2. OneTicketPerDiagnosis /\ shared \subseteq shared' => OneTicketPerDiagnosis'
  BY DEF NoNewCases, OneTicketPerDiagnosis
<1> QED
  BY <1>1, <1>2

LEMMA CollectionsHoldNothingNew ==
    ASSUME NEW corpus \in Collections, NEW k \in DOMAIN corpus
    PROVE  k \in DOMAIN store /\ corpus[k] = store[k]
  BY EmptyCorpus DEF Collections

LEMMA WritesKeepCases ==
    ASSUME CorpusInv, NEW corpus \in Collections, NEW ticket \in Tickets, NEW c \in Contents,
           store' = WithTicket(ticket, c, corpus)
    PROVE  /\ DOMAIN store' = {ticket} \cup DOMAIN corpus
           /\ store'[ticket] = c
           /\ \A k \in DOMAIN store' \ {ticket} : k \in DOMAIN store /\ store[k] = store'[k]
<1>1. corpus \in Corpora
  BY CollectionsAreCorpora DEF CorpusInv
<1>2. /\ DOMAIN store' = {ticket} \cup DOMAIN corpus
      /\ store'[ticket] = c
      /\ \A k \in DOMAIN corpus \ {ticket} : store'[k] = corpus[k]
  BY <1>1, UpsertedCorpus
<1> QED
  BY <1>2, CollectionsHoldNothingNew

LEMMA LoadsKeepCases ==
    ASSUME NEW corpus \in Corpora, NEW taken \in SUBSET DOMAIN SeedTickets,
           store' = WithLoad(SeedTickets, taken, corpus),
           \A k \in DOMAIN corpus : k \in DOMAIN store /\ corpus[k] = store[k]
    PROVE  NoNewCases
<1>1. DOMAIN SeedTickets \subseteq Tickets /\ \A t \in DOMAIN SeedTickets : SeedTickets[t] \in Contents
  BY CorpusAssumption
<1>2. /\ DOMAIN store' = taken \cup DOMAIN corpus
      /\ \A k \in DOMAIN corpus \ taken : store'[k] = corpus[k]
  <2>1. taken \in SUBSET DOMAIN SeedTickets
    OBVIOUS
  <2>2. /\ WithLoad(SeedTickets, taken, corpus) \in Corpora
        /\ DOMAIN WithLoad(SeedTickets, taken, corpus) = taken \cup DOMAIN corpus
        /\ \A t \in DOMAIN corpus \ taken : WithLoad(SeedTickets, taken, corpus)[t] = corpus[t]
    BY <1>1, <2>1, LoadedCorpus
  <2> QED
    BY <2>2
<1>3. \A k \in taken : store'[k] = SeedTickets[k]
  BY LoadedTickets
<1>4. \A k \in taken : SeedTickets[k] \notin Traces
  BY LoopAssumption
<1> QED
  BY <1>2, <1>3, <1>4 DEF NoNewCases

LEMMA OthersFileNothing ==
    ASSUME CorpusInv, CorpusStep
    PROVE  NoNewCases
<1>0. store \in Corpora /\ << >> \in Corpora /\ DOMAIN << >> = {}
  BY EmptyCorpus DEF CorpusInv, RagTypeOK
<1>1. CASE RagStarts
  <2>1. PICK corpus \in {store, << >>}, taken \in SUBSET DOMAIN SeedTickets :
           store' = WithLoad(SeedTickets, taken, corpus)
    BY <1>1 DEF RagStarts
  <2> QED
    BY <1>0, <2>1, LoadsKeepCases
<1>2. CASE RagStartsAlone
  BY <1>0, <1>2 DEF RagStartsAlone, NoNewCases
<1>3. CASE Seeds(SeedTickets)
  <2>1. PICK corpus \in Collections, taken \in SUBSET DOMAIN SeedTickets :
           store' = WithLoad(SeedTickets, taken, corpus)
    BY <1>3 DEF Seeds
  <2>2. corpus \in Corpora
    BY CollectionsAreCorpora DEF CorpusInv
  <2> QED
    BY <2>1, <2>2, LoadsKeepCases, CollectionsHoldNothingNew
<1>4. ASSUME NEW ticket \in ClientTickets, NEW c \in ClientContents,
             Upserts(ticket, c) \/ UpsertTears(ticket, c)
      PROVE  NoNewCases
  <2>1. ticket \in Tickets /\ c \in Contents /\ c \notin Traces
    BY DEF ClientTickets, ClientContents
  <2>2. PICK corpus \in Collections : store' = WithTicket(ticket, c, corpus)
    BY <1>4 DEF Upserts, UpsertTears
  <2>3. /\ store'[ticket] = c
        /\ \A k \in DOMAIN store' \ {ticket} : k \in DOMAIN store /\ store[k] = store'[k]
    BY <2>1, <2>2, WritesKeepCases
  <2> QED
    BY <2>1, <2>3 DEF NoNewCases
<1>5. CASE HealthAsked
  BY <1>5, CollectionsHoldNothingNew DEF HealthAsked, Retrieves, NoNewCases
<1> QED
  BY <1>1, <1>2, <1>3, <1>4, <1>5 DEF CorpusStep

LEMMA RetrievalsFileNothing ==
    ASSUME Retrieves \/ UNCHANGED ragVars
    PROVE  NoNewCases
<1>1. CASE Retrieves
  BY <1>1, CollectionsHoldNothingNew DEF Retrieves, NoNewCases
<1>2. CASE UNCHANGED ragVars
  BY <1>2 DEF ragVars, NoNewCases
<1> QED
  BY <1>1, <1>2

----------------------------------------------------------------------------
(* The steps of a diagnosis *)

LEMMA RerankedAreShort ==
    ASSUME NEW hits, NEW docs \in Reranked(hits)
    PROVE  Len(docs) <= FINAL_TOP_K /\ Range(docs) \subseteq hits
<1>1. PICK k \in 0 .. FINAL_TOP_K : docs \in [1 .. k -> hits]
  BY DEF Reranked
<1>2. k \in Nat /\ k <= FINAL_TOP_K
  BY DEF FINAL_TOP_K
<1>3. docs \in Seq(hits) /\ Len(docs) = k
  BY <1>1, <1>2
<1> QED
  BY <1>1, <1>2, <1>3 DEF Range

\* What run r, of diagnosis t from now on, leaves alone.
Aside(r, t) ==
    /\ runs[r].trace = t \/ runs[r].trace \notin Traces
    /\ runs'[r].trace = t
    /\ \A q \in Runs \ {r} : runs'[q] = runs[q] /\ drafts'[q] = drafts[q]
    /\ \A u \in Traces \ {t} : progress'[u] = progress[u] /\ cases'[u] = cases[u]
    /\ progress'[t].incident = progress[t].incident \/ RunsOf(t) = {}
    /\ shared' \in {shared, shared \cup {t}}
    /\ \A u \in Traces \ {t} : InStore(u)' => InStore(u)

LEMMA OthersOk ==
    ASSUME LoopInv, NEW r \in Runs, NEW t \in Traces, Aside(r, t)
    PROVE  /\ \A q \in Runs \ {r} : RunOk(q)'
           /\ \A u \in Traces \ {t} : DiagnosisOk(u)'
<1>0. Shape /\ \A q \in Runs : RunOk(q)
  BY DEF LoopInv, IntakeInv, CasesInv
<1>1. ASSUME NEW q \in Runs \ {r} PROVE RunOk(q)'
  <2>1. RunOk(q) /\ runs'[q] = runs[q] /\ drafts'[q] = drafts[q]
    BY <1>0 DEF Aside
  <2>2. runs[q].task \in Loaded => Called(runs[q].trace)' = Called(runs[q].trace)
    <3> SUFFICES ASSUME runs[q].task \in Loaded PROVE Called(runs[q].trace)' = Called(runs[q].trace)
        OBVIOUS
    <3>1. PICK u \in Traces : u = runs[q].trace
      BY <1>0 DEF Shape, Loaded
    <3>2. progress'[u].incident = progress[u].incident
      <4>1. q \in RunsOf(u)
        BY <3>1 DEF RunsOf
      <4> QED
        BY <4>1 DEF Aside
    <3> QED
      BY <2>1, <3>1, <3>2 DEF Called, NodeOf
  <2> QED
    BY <2>1, <2>2 DEF RunOk, Case
<1>2. ASSUME NEW u \in Traces \ {t} PROVE DiagnosisOk(u)'
  <2>1. DiagnosisOk(u)
    BY DEF LoopInv, CasesInv
  <2>2. /\ progress'[u] = progress[u] /\ cases'[u] = cases[u]
        /\ InStore(u)' => InStore(u)
        /\ u \in shared' <=> u \in shared
    BY DEF Aside
  <2>3. RunsOf(u)' = RunsOf(u) /\ r \notin RunsOf(u)
    BY DEF Aside, RunsOf
  <2>4. \A q \in RunsOf(u) : runs'[q] = runs[q] /\ drafts'[q] = drafts[q]
    BY <2>3 DEF Aside, RunsOf
  <2>5. CheckpointOk(u)'
    BY <2>1, <2>2, <2>3 DEF DiagnosisOk, CheckpointOk, Called, NodeOf
  <2>6. OutcomeOk(u)'
    BY <2>1, <2>2, <2>3, <2>4 DEF DiagnosisOk, OutcomeOk
  <2>7. AloneOk(u)'
    BY <2>1, <2>2, <2>3, <2>4 DEF DiagnosisOk, AloneOk, Case
  <2> QED
    BY <2>5, <2>6, <2>7 DEF DiagnosisOk
<1> QED
  BY <1>1, <1>2

\* A run at work that has not filed: if its diagnosis is in the experience base,
\* another run was at work beside it.
LEMMA NotFiled ==
    ASSUME LoopInv, NEW r \in Runs, runs[r].task \in AtWork,
           runs[r].task = "running" => ~drafts[r].filed /\ Case(r).stage # "end",
           runs[r].trace \notin shared
    PROVE  ~InStore(runs[r].trace)
<1>1. PICK t \in Traces : t = runs[r].trace
  BY AtWorkIsLive DEF LoopInv, IntakeInv
<1>2. AloneOk(t) /\ r \in RunsOf(t)
  BY <1>1 DEF LoopInv, CasesInv, DiagnosisOk, RunsOf
<1> QED
  BY <1>1, <1>2 DEF AloneOk

\* A superstep of run r: what it makes of the status and of the case.
Superstep(r, status, case) ==
    /\ runs[r].task \in AtWork /\ status \in Statuses
    /\ Writes(r, status) /\ CaseStep(r, case)
    /\ Fits(Called(runs[r].trace), status, case)
    /\ runs[r].status \in TerminalStatuses => status \in TerminalStatuses
    /\ \/ runs[r].trace \in shared \/ ~InStore(runs[r].trace)
       \/ runs[r].status = status /\ case.stage = "end"
    /\ UNCHANGED ragVars

LEMMA SuperstepInv ==
    ASSUME LoopInv, NEW r \in Runs, NEW status, NEW case, Superstep(r, status, case)
    PROVE  CasesInv'
<1>t. PICK t \in Traces : t = runs[r].trace
  BY AtWorkIsLive DEF LoopInv, IntakeInv, Superstep
<1>0. /\ Shape /\ CaseShape /\ RunOk(r) /\ DiagnosisOk(t) /\ OneTicketPerDiagnosis
      /\ runs[r].task \in AtWork /\ status \in Statuses
  BY <1>t DEF LoopInv, IntakeInv, CasesInv, Superstep
<1>1. Mover(r, t) /\ runs'[r] = [trace |-> t, task |-> "running", status |-> status] /\ progress'[t].status = status
  BY <1>t, <1>0, WritesMove DEF Superstep
<1>2. \A q \in Runs \ {r} : runs'[q] = runs[q]
  BY <1>1 DEF Mover, OnlyMoves
<1>3. /\ \A u \in Traces : progress'[u].incident = progress[u].incident
      /\ \A u \in Traces \ {t} : progress'[u] = progress[u]
  BY <1>0, <1>1 DEF Mover, OnlyMoves, Shape, IsProgress
<1>4. /\ drafts'[r] = Draft(case, FALSE) /\ \A q \in Runs \ {r} : drafts'[q] = drafts[q]
      /\ cases'[t] = case /\ \A u \in Traces \ {t} : cases'[u] = cases[u]
      /\ shared' = shared
  BY <1>t, <1>0 DEF Superstep, CaseStep, CaseShape
<1>5. NoNewCases
  BY RetrievalsFileNothing DEF Superstep
<1>6. /\ OneTicketPerDiagnosis' /\ \A u \in Traces : InStore(u)' => InStore(u)
  BY <1>0, <1>4, <1>5, KeptCases
<1>7. Aside(r, t)
  BY <1>t, <1>1, <1>2, <1>3, <1>4, <1>6 DEF Aside
<1>8. Case(r)' = case /\ ~drafts'[r].filed /\ drafts'[r] \in [case : {case}, filed : BOOLEAN]
  BY <1>4 DEF Case, Draft
<1>9. Called(t)' = Called(t) /\ Fits(Called(t), status, case)
  BY <1>t, <1>3 DEF Called, NodeOf, Superstep
<1>10. RunOk(r)'
  BY <1>1, <1>8, <1>9 DEF RunOk, Loaded
<1>11. RunsOf(t)' = RunsOf(t) /\ r \in RunsOf(t)
  BY <1>t, <1>1, <1>2 DEF RunsOf
<1>12. CheckpointOk(t)'
  BY <1>1, <1>4, <1>9, <1>11 DEF CheckpointOk
<1>13. OutcomeOk(t)'
  <2>1. ASSUME NEW q \in RunsOf(t), runs[q].status \in TerminalStatuses PROVE runs'[q].status \in TerminalStatuses
    BY <1>t, <1>1, <1>2, <2>1 DEF Superstep, RunsOf
  <2> QED
    BY <1>0, <1>6, <1>11, <2>1 DEF DiagnosisOk, OutcomeOk
<1>14. AloneOk(t)'
  <2> SUFFICES ASSUME t \notin shared PROVE AloneOk(t)'
    BY <1>4 DEF AloneOk
  <2>1. /\ \A q, x \in RunsOf(t) : runs[q].task \in AtWork /\ runs[x].task \in AtWork => q = x
        /\ InStore(t) => /\ progress[t].status \in TerminalStatuses
                         /\ runs[r].task = "running" /\ (drafts[r].filed \/ Case(r).stage = "end")
        /\ runs[r].task \in Loaded => runs[r].status = progress[t].status
    BY <1>0, <1>11 DEF DiagnosisOk, AloneOk
  <2>2. \A q \in RunsOf(t) : runs'[q].task \in AtWork => q = r
    BY <1>0, <1>2, <1>11, <2>1 DEF RunsOf
  <2>3. \A q \in RunsOf(t) : runs'[q].task \in Loaded => runs'[q].status = progress'[t].status /\ Case(q)' = cases'[t]
    BY <1>1, <1>4, <1>8, <2>2 DEF Loaded, AtWork
  <2>4. InStore(t) => status \in TerminalStatuses /\ case.stage = "end"
    BY <1>t, <2>1 DEF Superstep, Loaded
  <2> QED
    BY <1>1, <1>6, <1>8, <1>11, <2>2, <2>3, <2>4 DEF AloneOk
<1> QED
  BY <1>6, <1>7, <1>10, <1>12, <1>13, <1>14, OthersOk DEF CasesInv, DiagnosisOk

\* The nodes, each as a superstep.
LEMMA BeginCase ==
    ASSUME LoopInv, NEW r \in Runs, Begins(r)
    PROVE  Superstep(r, "running", NoCase)
<1>1. runs[r].task = "launched" /\ Writes(r, "running") /\ CaseStep(r, NoCase) /\ UNCHANGED ragVars
  BY DEF Begins, RunBegins
<1>2. runs[r].task \in AtWork /\ "running" \in Statuses /\ runs[r].status = "none"
  BY <1>1 DEF AtWork, Statuses, LoopInv, CasesInv, RunOk
<1>3. \A experts : Fits(experts, "running", NoCase)
  <2>1. IsPanel(<< >>) /\ DOMAIN << >> = {} /\ Len(<< >>) <= FINAL_TOP_K
    BY DEF IsPanel, FINAL_TOP_K
  <2> QED
    BY <2>1 DEF Fits, IsCase, Placed, NoCase, Stages, TerminalStatuses
<1>4. runs[r].trace \in shared \/ ~InStore(runs[r].trace)
  BY <1>1, <1>2, NotFiled
<1> QED
  BY <1>1, <1>2, <1>3, <1>4 DEF Superstep, TerminalStatuses

\* A node before the review: the case goes to another stage, with what the node adds.
LEMMA NodeCase ==
    ASSUME LoopInv, NEW r \in Runs, runs[r].task \in Loaded, ~drafts[r].filed, Case(r).stage # "end",
           NEW status \in Statuses, NEW case, Writes(r, status), CaseStep(r, case), UNCHANGED ragVars,
           Fits(Called(runs[r].trace), status, case),
           runs[r].status \in TerminalStatuses => status \in TerminalStatuses
    PROVE  Superstep(r, status, case)
<1>1. runs[r].task \in AtWork
  BY DEF Loaded, AtWork
<1>2. runs[r].trace \in shared \/ ~InStore(runs[r].trace)
  BY <1>1, NotFiled
<1> QED
  BY <1>1, <1>2 DEF Superstep

\* What is known of a run that works at a stage.
LEMMA AtStage ==
    ASSUME LoopInv, NEW r \in Runs, runs[r].task \in Loaded
    PROVE  /\ IsCase(Case(r)) /\ Placed(runs[r].status, Case(r))
           /\ IsPanel(Case(r).panel) /\ DOMAIN Case(r).panel \subseteq Called(runs[r].trace)
           /\ Case(r).decision # NoDecision => NotOutvoted(Case(r).panel, Case(r).decision)
           /\ runs[r].status \in Statuses
           /\ drafts[r].filed => Case(r).stage = "review"
  BY DEF LoopInv, CasesInv, RunOk, Fits, IntakeInv, Shape

LEMMA PrefetchCase ==
    ASSUME LoopInv, NEW r \in Runs, Prefetches(r)
    PROVE  \E status, case : Superstep(r, status, case)
<1>1. PICK docs \in Reranked(searches[r].hits) :
         CaseStep(r, [Case(r) EXCEPT !.stage = "dispatch", !.docs = docs])
  BY DEF Prefetches
<1> DEFINE case == [Case(r) EXCEPT !.stage = "dispatch", !.docs = docs]
<1>2. /\ runs[r].task = "running" /\ Case(r).stage = "prefetch" /\ UNCHANGED ragVars
      /\ Writes(r, runs[r].status)
  BY DEF Prefetches, Working, GoesOn
<1>3. /\ IsCase(Case(r)) /\ Placed(runs[r].status, Case(r)) /\ Fits(Called(runs[r].trace), runs[r].status, Case(r))
      /\ ~drafts[r].filed /\ runs[r].status \in Statuses
  BY <1>2, AtStage DEF Loaded, Fits
<1>4. Len(docs) <= FINAL_TOP_K
  BY <1>1, RerankedAreShort
<1>5. Fits(Called(runs[r].trace), runs[r].status, case)
  <2>1. /\ IsCase(case) /\ case.stage = "dispatch" /\ case.docs = docs /\ case.panel = Case(r).panel
        /\ case.decision = Case(r).decision
    BY <1>3 DEF IsCase, Stages
  <2> HIDE DEF case
  <2> QED
    BY <1>2, <1>3, <1>4, <2>1 DEF Fits, Placed, Stages
<1> QED
  BY <1>1, <1>2, <1>3, <1>5, NodeCase DEF Loaded

LEMMA DispatchCase ==
    ASSUME LoopInv, NEW r \in Runs, Dispatches(r)
    PROVE  \E status, case : Superstep(r, status, case)
<1>1. PICK panel \in Panels(Called(runs[r].trace) \cap workload.experts) :
         CaseStep(r, [Case(r) EXCEPT !.stage = "arbitrate", !.panel = panel])
  BY DEF Dispatches
<1> DEFINE case == [Case(r) EXCEPT !.stage = "arbitrate", !.panel = panel]
<1>2. /\ runs[r].task = "running" /\ Case(r).stage = "dispatch" /\ UNCHANGED ragVars
      /\ Writes(r, runs[r].status)
  BY DEF Dispatches, Working, GoesOn
<1>3. /\ IsCase(Case(r)) /\ Placed(runs[r].status, Case(r))
      /\ ~drafts[r].filed /\ runs[r].status \in Statuses
  BY <1>2, AtStage DEF Loaded
<1>4. IsPanel(panel) /\ DOMAIN panel \subseteq Called(runs[r].trace)
  <2>1. Called(runs[r].trace) \cap workload.experts \in SUBSET Experts
    BY LoopAssumption DEF LoopInv, CaseShape
  <2>2. DOMAIN panel \subseteq Called(runs[r].trace)
    BY DEF Panels
  <2> QED
    BY <2>1, <2>2, PanelsArePanels
<1>5. Fits(Called(runs[r].trace), runs[r].status, case)
  <2>1. /\ IsCase(case) /\ case.stage = "arbitrate" /\ case.docs = Case(r).docs /\ case.panel = panel
        /\ case.decision = Case(r).decision
    BY <1>3 DEF IsCase, Stages
  <2> HIDE DEF case
  <2> QED
    BY <1>2, <1>3, <1>4, <2>1 DEF Fits, Placed, Stages
<1> QED
  BY <1>1, <1>2, <1>3, <1>5, NodeCase DEF Loaded

LEMMA ArbitrateCase ==
    ASSUME LoopInv, NEW r \in Runs, Arbitrates(r)
    PROVE  \E status, case : Superstep(r, status, case)
<1>1. PICK decision \in Decisions(Case(r).panel), stage \in {"verify", "interrupt"},
           status \in {runs[r].status, "awaiting_approval"} :
         /\ CaseStep(r, [Case(r) EXCEPT !.stage = stage, !.decision = decision])
         /\ Writes(r, status)
         /\ stage = "verify" => status = runs[r].status
         /\ stage = "interrupt" => status = "awaiting_approval" /\ runs[r].status = "running"
  BY DEF Arbitrates, GoesOn, AsksApproval
<1> DEFINE case == [Case(r) EXCEPT !.stage = stage, !.decision = decision]
<1>2. runs[r].task = "running" /\ Case(r).stage = "arbitrate" /\ UNCHANGED ragVars
  BY DEF Arbitrates, Working
<1>3. /\ IsCase(Case(r)) /\ Placed(runs[r].status, Case(r)) /\ IsPanel(Case(r).panel)
      /\ DOMAIN Case(r).panel \subseteq Called(runs[r].trace)
      /\ ~drafts[r].filed /\ runs[r].status \in Statuses /\ status \in Statuses
  BY <1>2, AtStage DEF Loaded, Statuses
<1>4. decision \in DecisionRecords /\ decision # NoDecision /\ NotOutvoted(Case(r).panel, decision)
  BY <1>3, DecisionsAreRecords, NobodyOutvoted, LoopAssumption
<1>5. Fits(Called(runs[r].trace), status, case)
  <2>1. /\ IsCase(case) /\ case.stage = stage /\ case.docs = Case(r).docs /\ case.panel = Case(r).panel
        /\ case.decision = decision
    BY <1>3, <1>4 DEF IsCase, Stages
  <2> HIDE DEF case
  <2> QED
    BY <1>1, <1>2, <1>3, <1>4, <2>1 DEF Fits, Placed, Stages, TerminalStatuses
<1>6. runs[r].status \in TerminalStatuses => status \in TerminalStatuses
  BY <1>1 DEF TerminalStatuses
<1> QED
  BY <1>1, <1>2, <1>3, <1>5, <1>6, NodeCase DEF Loaded

\* Nodes that only move the case on.
LEMMA StageFits ==
    ASSUME LoopInv, NEW r \in Runs, runs[r].task \in Loaded, NEW status \in Statuses,
           Case(r).stage \in {"interrupt", "verify", "turned_down", "execute", "review"},
           NEW stage \in {"verify", "turned_down", "execute", "review", "end"},
           status # "awaiting_approval",
           status \in TerminalStatuses => stage \in {"review", "end"}
    PROVE  Fits(Called(runs[r].trace), status, [Case(r) EXCEPT !.stage = stage])
<1> DEFINE case == [Case(r) EXCEPT !.stage = stage]
<1>1. /\ IsCase(Case(r)) /\ Placed(runs[r].status, Case(r)) /\ IsPanel(Case(r).panel)
      /\ DOMAIN Case(r).panel \subseteq Called(runs[r].trace)
      /\ Case(r).decision # NoDecision => NotOutvoted(Case(r).panel, Case(r).decision)
  BY AtStage
<1>2. /\ IsCase(case) /\ case.stage = stage /\ case.docs = Case(r).docs /\ case.panel = Case(r).panel
      /\ case.decision = Case(r).decision
  BY <1>1 DEF IsCase, Stages
<1> HIDE DEF case
<1>3. Placed(status, case)
  BY <1>1, <1>2 DEF Placed, Stages
<1>4. Fits(Called(runs[r].trace), status, case)
  BY <1>1, <1>2, <1>3 DEF Fits
<1> QED
  BY <1>4 DEF case

LEMMA DecisionCase ==
    ASSUME LoopInv, NEW r \in Runs, TakesDecision(r)
    PROVE  \E status, case : Superstep(r, status, case)
<1>1. PICK stage \in {"verify", "turned_down"} : CaseStep(r, [Case(r) EXCEPT !.stage = stage])
  BY DEF TakesDecision
<1>2. runs[r].task = "answering" /\ UNCHANGED ragVars /\ Writes(r, "running") /\ "running" \in Statuses
  BY DEF TakesDecision, InterruptReturns, Statuses
<1>3. runs[r].status = "awaiting_approval" /\ ~drafts[r].filed
  BY <1>2 DEF LoopInv, CasesInv, RunOk
<1>4. Case(r).stage = "interrupt"
  BY <1>2, <1>3, AtStage DEF Loaded, Placed
<1>5. Fits(Called(runs[r].trace), "running", [Case(r) EXCEPT !.stage = stage])
  BY <1>2, <1>4, StageFits DEF Loaded, TerminalStatuses
<1> QED
  BY <1>1, <1>2, <1>3, <1>4, <1>5, NodeCase DEF Loaded, TerminalStatuses

LEMMA VerifyCase ==
    ASSUME LoopInv, NEW r \in Runs, Verifies(r)
    PROVE  \E status, case : Superstep(r, status, case)
<1>1. PICK stage \in {"execute", "review"}, status \in {runs[r].status, "rejected", "blocked_by_sandbox"} :
         /\ CaseStep(r, [Case(r) EXCEPT !.stage = stage])
         /\ Writes(r, status) /\ (status = runs[r].status \/ runs[r].status = "running")
  BY DEF Verifies, GoesOn, SandboxDecides
<1>2. runs[r].task = "running" /\ Case(r).stage \in {"verify", "turned_down"} /\ UNCHANGED ragVars
  BY DEF Verifies, Working
<1>3. /\ Placed(runs[r].status, Case(r)) /\ ~drafts[r].filed /\ status \in Statuses
  BY <1>2, AtStage DEF Loaded, Statuses
<1>4. runs[r].status \notin TerminalStatuses \cup {"awaiting_approval"}
  BY <1>2, <1>3 DEF Placed
<1>5. Fits(Called(runs[r].trace), status, [Case(r) EXCEPT !.stage = stage])
  <2>1. status # "awaiting_approval" /\ status \notin TerminalStatuses
    BY <1>4 DEF TerminalStatuses
  <2> QED
    BY <1>2, <1>3, <2>1, StageFits DEF Loaded
<1> QED
  BY <1>1, <1>2, <1>3, <1>4, <1>5, NodeCase DEF Loaded

LEMMA ExecuteCase ==
    ASSUME LoopInv, NEW r \in Runs, Executes(r)
    PROVE  \E status, case : Superstep(r, status, case)
<1>1. PICK status \in TerminalStatuses : Writes(r, status) /\ status \in Statuses
  BY DEF Executes, Executed, Statuses
<1>2. /\ runs[r].task = "running" /\ Case(r).stage = "execute" /\ UNCHANGED ragVars
      /\ CaseStep(r, [Case(r) EXCEPT !.stage = "review"])
  BY DEF Executes, Working
<1>3. ~drafts[r].filed
  BY <1>2, AtStage DEF Loaded
<1>4. Fits(Called(runs[r].trace), status, [Case(r) EXCEPT !.stage = "review"])
  BY <1>1, <1>2, StageFits DEF Loaded, TerminalStatuses
<1> QED
  BY <1>1, <1>2, <1>3, <1>4, NodeCase DEF Loaded

LEMMA ReviewEndCase ==
    ASSUME LoopInv, NEW r \in Runs, ReviewEnds(r)
    PROVE  \E status, case : Superstep(r, status, case)
<1> DEFINE case == [Case(r) EXCEPT !.stage = "end"]
<1>1. /\ runs[r].task = "running" /\ Case(r).stage = "review" /\ UNCHANGED ragVars
      /\ CaseStep(r, case) /\ Writes(r, runs[r].status)
  BY DEF ReviewEnds, Working, GoesOn
<1>2. /\ runs[r].status \in Statuses /\ runs[r].status # "awaiting_approval" /\ IsCase(Case(r))
  BY <1>1, AtStage DEF Loaded, Placed
<1>3. Fits(Called(runs[r].trace), runs[r].status, case)
  BY <1>1, <1>2, StageFits DEF Loaded
<1>4. case.stage = "end"
  BY <1>2 DEF IsCase
<1> QED
  BY <1>1, <1>2, <1>3, <1>4 DEF Superstep, AtWork

----------------------------------------------------------------------------
(* The steps of a run that make no checkpoint *)

\* The task is over: its memory goes, its checkpoint stays.
LEMMA TaskOverInv ==
    ASSUME LoopInv, NEW r \in Runs, runs[r].task \in AtWork, NEW task \in {"paused", "ended"}, Task(r, task),
           UNCHANGED progress, Forgets(r)
    PROVE  CasesInv'
<1>t. PICK t \in Traces : t = runs[r].trace
  BY AtWorkIsLive DEF LoopInv, IntakeInv
<1>0. Shape /\ CaseShape /\ RunOk(r) /\ DiagnosisOk(t) /\ OneTicketPerDiagnosis
  BY DEF LoopInv, IntakeInv, CasesInv
<1>1. /\ runs'[r] = [trace |-> t, task |-> task, status |-> runs[r].status]
      /\ \A q \in Runs \ {r} : runs'[q] = runs[q]
  BY <1>t, <1>0 DEF Task, Shape
<1>2. /\ drafts'[r] = NoDraft /\ \A q \in Runs \ {r} : drafts'[q] = drafts[q]
      /\ cases' = cases /\ shared' = shared /\ progress' = progress
  BY <1>0 DEF Forgets, CaseShape
<1>3. OneTicketPerDiagnosis' /\ \A u \in Traces : InStore(u)' => InStore(u)
  <2>1. NoNewCases
    BY RetrievalsFileNothing DEF Forgets
  <2> QED
    BY <1>0, <1>2, <2>1, KeptCases
<1>4. Aside(r, t)
  BY <1>t, <1>1, <1>2, <1>3 DEF Aside
<1>5. RunOk(r)'
  BY <1>1, <1>2 DEF RunOk, Loaded, Case, NoDraft, Draft
<1>6. RunsOf(t)' = RunsOf(t) /\ r \in RunsOf(t) /\ Called(t)' = Called(t)
  BY <1>t, <1>1, <1>2 DEF RunsOf, Called, NodeOf
<1>7. CheckpointOk(t)'
  BY <1>0, <1>2, <1>6 DEF DiagnosisOk, CheckpointOk
<1>8. OutcomeOk(t)'
  <2>1. \A q \in RunsOf(t) : runs'[q].status = runs[q].status
    BY <1>1 DEF RunsOf
  <2> QED
    BY <1>0, <1>3, <1>6, <2>1 DEF DiagnosisOk, OutcomeOk
<1>9. AloneOk(t)'
  <2>1. ASSUME NEW q \in RunsOf(t), runs'[q].task \in AtWork
        PROVE  runs'[q] = runs[q] /\ drafts'[q] = drafts[q]
    BY <1>1, <1>2, <2>1 DEF RunsOf, AtWork
  <2>2. Loaded \subseteq AtWork
    BY DEF Loaded, AtWork
  <2> QED
    BY <1>0, <1>2, <1>3, <1>6, <2>1, <2>2 DEF DiagnosisOk, AloneOk, Case
<1> QED
  BY <1>3, <1>4, <1>5, <1>7, <1>8, <1>9, OthersOk DEF CasesInv, DiagnosisOk

LEMMA ResumeInv ==
    ASSUME LoopInv, NEW r \in Runs, NEW t \in Traces, ResumesCase(t, r)
    PROVE  CasesInv'
<1>0. Shape /\ CaseShape /\ RunOk(r) /\ DiagnosisOk(t) /\ OneTicketPerDiagnosis
  BY DEF LoopInv, IntakeInv, CasesInv
<1>1. /\ runs'[r] = [trace |-> t, task |-> "resuming", status |-> "none"] /\ progress' = progress
      /\ runs[r].task = "unused" /\ runs[r].trace \notin Traces /\ progress[t].status \in ActiveStatuses
      /\ \A q \in Runs \ {r} : runs'[q] = runs[q]
  BY <1>0 DEF ResumesCase, Resumes, Resumable, Shape
<1>2. /\ UNCHANGED <<cases, drafts>> /\ shared' \in {shared, shared \cup {t}}
      /\ Busy(t) => t \in shared'
  BY DEF ResumesCase
<1>3. OneTicketPerDiagnosis' /\ \A u \in Traces : InStore(u)' => InStore(u)
  <2>1. NoNewCases
    BY RetrievalsFileNothing DEF ResumesCase
  <2> QED
    BY <1>0, <1>2, <2>1, KeptCases
<1>4. Aside(r, t)
  BY <1>1, <1>2, <1>3 DEF Aside
<1>5. RunOk(r)'
  <2>1. drafts[r] = NoDraft
    BY <1>0, <1>1 DEF RunOk, Loaded
  <2> QED
    BY <1>1, <1>2, <2>1 DEF RunOk, Loaded, Case, NoDraft, Draft
<1>6. RunsOf(t)' = RunsOf(t) \cup {r} /\ r \notin RunsOf(t) /\ Called(t)' = Called(t)
  BY <1>1 DEF RunsOf, Called, NodeOf
<1>7. RunsOf(t) # {}
  BY <1>0, <1>1 DEF DiagnosisOk, CheckpointOk, ActiveStatuses
<1>8. CheckpointOk(t)'
  BY <1>0, <1>1, <1>2, <1>6, <1>7 DEF DiagnosisOk, CheckpointOk
<1>9. OutcomeOk(t)'
  <2>1. \A q \in RunsOf(t) : runs'[q].status = runs[q].status
    BY <1>1, <1>6 DEF RunsOf
  <2> QED
    BY <1>0, <1>3, <1>6, <2>1 DEF DiagnosisOk, OutcomeOk
<1>10. AloneOk(t)'
  <2> SUFFICES ASSUME t \notin shared' PROVE AloneOk(t)'
    BY DEF AloneOk
  <2>1. t \notin shared /\ \A q \in RunsOf(t) : runs[q].task \notin AtWork
    BY <1>2 DEF Busy
  <2>2. \A q \in RunsOf(t) : runs'[q].task \notin AtWork
    BY <1>1, <1>6, <2>1 DEF RunsOf
  <2>3. ~InStore(t)
    BY <1>0, <1>1, <2>1 DEF DiagnosisOk, AloneOk, ActiveStatuses, TerminalStatuses
  <2>4. "resuming" \notin Loaded /\ Loaded \subseteq AtWork
    BY DEF Loaded, AtWork
  <2> QED
    BY <1>1, <1>3, <1>6, <2>2, <2>3, <2>4 DEF AloneOk
<1> QED
  BY <1>3, <1>4, <1>5, <1>8, <1>9, <1>10, OthersOk DEF CasesInv, DiagnosisOk

LEMMA LoadInv ==
    ASSUME LoopInv, NEW r \in Runs, LoadsCase(r)
    PROVE  CasesInv'
<1>t. PICK t \in Traces : t = runs[r].trace
  BY AtWorkIsLive DEF LoopInv, IntakeInv, LoadsCase, Loads, AtWork
<1>0. /\ Shape /\ CaseShape /\ RunOk(r) /\ DiagnosisOk(t) /\ OneTicketPerDiagnosis
      /\ runs[r].task = "resuming" /\ runs[r].status = "none"
  BY DEF LoopInv, IntakeInv, CasesInv, LoadsCase, Loads, RunOk
<1>1. /\ Mover(r, t) /\ progress' = progress
      /\ runs'[r] = [trace |-> t, status |-> progress[t].status,
                     task |-> IF progress[t].status = "awaiting_approval" THEN "answering" ELSE "running"]
  BY <1>t, <1>0, LoadsMove DEF LoadsCase
<1>2. /\ \A q \in Runs \ {r} : runs'[q] = runs[q]
      /\ drafts'[r] = Draft(cases[t], FALSE) /\ \A q \in Runs \ {r} : drafts'[q] = drafts[q]
      /\ cases' = cases /\ shared' = shared
  BY <1>t, <1>0, <1>1 DEF LoadsCase, CaseShape, Mover, OnlyMoves
<1>3. OneTicketPerDiagnosis' /\ \A u \in Traces : InStore(u)' => InStore(u)
  <2>1. NoNewCases
    BY RetrievalsFileNothing DEF LoadsCase
  <2> QED
    BY <1>0, <1>2, <2>1, KeptCases
<1>4. Aside(r, t)
  BY <1>t, <1>1, <1>2, <1>3 DEF Aside
<1>5. RunsOf(t)' = RunsOf(t) /\ r \in RunsOf(t) /\ Called(t)' = Called(t)
  BY <1>t, <1>1, <1>2 DEF RunsOf, Called, NodeOf
<1>6. Case(r)' = cases[t] /\ ~drafts'[r].filed /\ drafts'[r] \in [case : {cases[t]}, filed : BOOLEAN]
  BY <1>2 DEF Case, Draft
<1>7. Fits(Called(t), progress[t].status, cases[t])
  BY <1>0, <1>5 DEF DiagnosisOk, CheckpointOk
<1>8. RunOk(r)'
  <2>1. /\ runs'[r].trace = t /\ runs'[r].status = progress[t].status
        /\ runs'[r].task \in Loaded /\ (runs'[r].task = "answering" => progress[t].status = "awaiting_approval")
    BY <1>1 DEF Loaded
  <2>2. Fits(Called(runs[r].trace)', runs'[r].status, Case(r)')
    BY <1>5, <1>6, <1>7, <2>1 DEF Called, NodeOf
  <2> QED
    BY <1>6, <2>1, <2>2 DEF RunOk, Loaded
<1>9. CheckpointOk(t)'
  BY <1>0, <1>1, <1>2, <1>5 DEF DiagnosisOk, CheckpointOk
<1>10. OutcomeOk(t)'
  <2>1. ASSUME NEW q \in RunsOf(t), runs[q].status \in TerminalStatuses PROVE runs'[q].status = runs[q].status
    BY <1>0, <1>2, <2>1 DEF RunsOf, TerminalStatuses
  <2> QED
    BY <1>0, <1>3, <1>5, <2>1 DEF DiagnosisOk, OutcomeOk
<1>11. AloneOk(t)'
  <2> SUFFICES ASSUME t \notin shared PROVE AloneOk(t)'
    BY <1>2 DEF AloneOk
  <2>1. /\ \A q, x \in RunsOf(t) : runs[q].task \in AtWork /\ runs[x].task \in AtWork => q = x
        /\ ~InStore(t)
    BY <1>0, <1>5 DEF DiagnosisOk, AloneOk, AtWork
  <2>2. runs[r].task \in AtWork /\ Loaded \subseteq AtWork
    BY <1>0 DEF AtWork, Loaded
  <2>3. \A q \in RunsOf(t) : runs'[q].task \in AtWork => q = r
    BY <1>2, <1>5, <2>1, <2>2 DEF RunsOf
  <2>4. \A q \in RunsOf(t) : runs'[q].task \in Loaded => runs'[q].status = progress'[t].status /\ Case(q)' = cases'[t]
    BY <1>1, <1>2, <1>6, <2>2, <2>3
  <2> QED
    BY <1>3, <1>5, <2>1, <2>3, <2>4 DEF AloneOk
<1> QED
  BY <1>3, <1>4, <1>8, <1>9, <1>10, <1>11, OthersOk DEF CasesInv, DiagnosisOk

\* A review: what the collection has of t comes in now, and under one ticket
\* unless several runs review t.
LEMMA FileInv ==
    ASSUME LoopInv, NEW r \in Runs, FilesCase(r)
    PROVE  CasesInv'
<1>t. PICK t \in Traces : t = runs[r].trace
  BY AtWorkIsLive DEF LoopInv, IntakeInv, FilesCase, Working, AtWork
<1>0. /\ Shape /\ CaseShape /\ CorpusInv /\ RunOk(r) /\ DiagnosisOk(t) /\ OneTicketPerDiagnosis
      /\ runs[r].task = "running" /\ Case(r).stage = "review" /\ runs[r].status \in TerminalStatuses
      /\ ~drafts[r].filed
  BY DEF LoopInv, IntakeInv, CasesInv, FilesCase, Working, Reviewed
<1>1. UNCHANGED <<runs, progress, cases, shared>>
  BY DEF FilesCase, intakeVars
<1>2. /\ drafts'[r] = [drafts[r] EXCEPT !.filed = TRUE] /\ \A q \in Runs \ {r} : drafts'[q] = drafts[q]
  BY <1>0 DEF FilesCase, CaseShape
<1>3. Case(r)' = Case(r) /\ drafts'[r].filed /\ drafts'[r] \in [case : {Case(r)}, filed : BOOLEAN]
  BY <1>0, <1>2 DEF Case, RunOk
<1>4. t \in shared \/ ~InStore(t)
  BY <1>t, <1>0, NotFiled DEF AtWork
<1>5. /\ OneTicketPerDiagnosis'
      /\ \A u \in Traces \ {t} : InStore(u)' => InStore(u)
  <2>1. CASE UNCHANGED ragVars
    BY <1>0, <1>1, <2>1, KeptCases, RetrievalsFileNothing
  <2>2. ASSUME NEW ticket \in ReviewTickets, Upserts(ticket, t) \/ UpsertTears(ticket, t)
        PROVE  /\ OneTicketPerDiagnosis'
               /\ \A u \in Traces \ {t} : InStore(u)' => InStore(u)
    <3>1. ticket \in Tickets /\ t \in Contents
      BY LoopAssumption
    <3>2. PICK corpus \in Collections : store' = WithTicket(ticket, t, corpus)
      BY <2>2 DEF Upserts, UpsertTears
    <3>3. /\ store'[ticket] = t
          /\ \A k \in DOMAIN store' \ {ticket} : k \in DOMAIN store /\ store[k] = store'[k]
      BY <1>0, <3>1, <3>2, WritesKeepCases
    <3>4. t \in shared \/ \A k \in DOMAIN store' \ {ticket} : store'[k] # t
      BY <1>4, <3>3 DEF InStore
    <3>5. OneTicketPerDiagnosis'
      BY <1>0, <1>1, <3>3, <3>4 DEF OneTicketPerDiagnosis
    <3>6. \A u \in Traces \ {t} : InStore(u)' => InStore(u)
      BY <3>3 DEF InStore
    <3> QED
      BY <3>5, <3>6
  <2> QED
    BY <1>t, <2>1, <2>2 DEF FilesCase, UpsertsCase, WritesNoCase
<1>6. Aside(r, t)
  BY <1>t, <1>1, <1>2, <1>5 DEF Aside
<1>7. RunOk(r)'
  BY <1>0, <1>1, <1>3 DEF RunOk, Loaded, Called, NodeOf
<1>8. RunsOf(t)' = RunsOf(t) /\ r \in RunsOf(t) /\ Called(t)' = Called(t)
  BY <1>t, <1>1 DEF RunsOf, Called, NodeOf
<1>9. CheckpointOk(t)' /\ OutcomeOk(t)'
  BY <1>0, <1>1, <1>8 DEF DiagnosisOk, CheckpointOk, OutcomeOk
<1>10. AloneOk(t)'
  <2> SUFFICES ASSUME t \notin shared PROVE AloneOk(t)'
    BY <1>1 DEF AloneOk
  <2>1. /\ \A q, x \in RunsOf(t) : runs[q].task \in AtWork /\ runs[x].task \in AtWork => q = x
        /\ \A q \in RunsOf(t) : runs[q].task \in Loaded => runs[q].status = progress[t].status /\ Case(q) = cases[t]
    BY <1>0 DEF DiagnosisOk, AloneOk
  <2>2. runs[r].task \in AtWork /\ runs[r].task \in Loaded
    BY <1>0 DEF AtWork, Loaded
  <2>3. \A q \in RunsOf(t) : runs[q].task \in AtWork => q = r
    BY <1>8, <2>1, <2>2
  <2>4. progress[t].status \in TerminalStatuses
    BY <1>0, <1>8, <2>1, <2>2
  <2>5. \A q \in RunsOf(t) : Case(q)' = Case(q)
    BY <1>2, <1>3 DEF Case, RunsOf
  <2> QED
    BY <1>0, <1>1, <1>3, <1>8, <2>1, <2>3, <2>4, <2>5 DEF AloneOk
<1> QED
  BY <1>5, <1>6, <1>7, <1>9, <1>10, OthersOk DEF CasesInv, DiagnosisOk

----------------------------------------------------------------------------
(* The invariant, by the kind of step *)

\* Steps that touch no run and no case, whatever they do to the corpus.
LEMMA CasesStay ==
    ASSUME LoopInv, UNCHANGED <<cases, drafts, shared, progress, runs>>, NoNewCases
    PROVE  CasesInv'
<1>1. OneTicketPerDiagnosis' /\ \A t \in Traces : InStore(t)' => InStore(t)
  BY KeptCases DEF LoopInv, CasesInv
<1>2. ASSUME NEW r \in Runs PROVE RunOk(r)'
  <2>1. RunOk(r)
    BY DEF LoopInv, CasesInv
  <2> QED
    BY <2>1 DEF RunOk, Case, Called, NodeOf
<1>3. ASSUME NEW t \in Traces PROVE DiagnosisOk(t)'
  <2>1. DiagnosisOk(t) /\ RunsOf(t)' = RunsOf(t)
    BY DEF LoopInv, CasesInv, RunsOf
  <2>2. CheckpointOk(t)'
    BY <2>1 DEF DiagnosisOk, CheckpointOk, Called, NodeOf
  <2>3. OutcomeOk(t)'
    BY <1>1, <2>1 DEF DiagnosisOk, OutcomeOk
  <2>4. AloneOk(t)'
    BY <1>1, <2>1 DEF DiagnosisOk, AloneOk, Case
  <2> QED
    BY <2>2, <2>3, <2>4 DEF DiagnosisOk
<1> QED
  BY <1>1, <1>2, <1>3 DEF CasesInv

LEMMA CaseNextInv ==
    ASSUME LoopInv, NEW r \in Runs, CaseNext(r)
    PROVE  CasesInv'
<1>1. CASE Begins(r) \/ Prefetches(r) \/ Dispatches(r) \/ Arbitrates(r) \/ TakesDecision(r) \/ Verifies(r)
           \/ Executes(r) \/ ReviewEnds(r)
  BY <1>1, SuperstepInv, BeginCase, PrefetchCase, DispatchCase, ArbitrateCase, DecisionCase, VerifyCase,
     ExecuteCase, ReviewEndCase
<1>2. CASE PausesCase(r)
  BY <1>2, TaskOverInv DEF PausesCase, Pauses, AtWork
<1>3. CASE EndsRun(r)
  BY <1>3, TaskOverInv DEF EndsRun, RunEnds, AtWork
<1>4. CASE Crashes(r)
  BY <1>4, TaskOverInv DEF Crashes, RunFails
<1>5. ASSUME NEW t \in Traces, ResumesCase(t, r) PROVE CasesInv'
  BY <1>5, ResumeInv
<1>6. CASE LoadsCase(r)
  BY <1>6, LoadInv
<1>7. CASE FilesCase(r)
  BY <1>7, FileInv
<1>8. CASE Searches(r)
  <2>1. UNCHANGED <<cases, drafts, shared, progress, runs>> /\ NoNewCases
    BY <1>8, RetrievalsFileNothing DEF Searches, intakeVars
  <2> QED
    BY <2>1, CasesStay
<1> QED
  BY <1>1, <1>2, <1>3, <1>4, <1>5, <1>6, <1>7, <1>8 DEF CaseNext

LEMMA AcceptCase ==
    ASSUME LoopInv, NEW h \in Requests, NEW t \in Traces, NEW r \in Runs, Accepts(h, t, r),
           UNCHANGED <<ragVars, caseVars>>
    PROVE  CasesInv'
<1>0. Shape /\ CaseShape /\ RunOk(r) /\ DiagnosisOk(t) /\ OneTicketPerDiagnosis
  BY DEF LoopInv, IntakeInv, CasesInv
<1>1. /\ runs'[r] = [trace |-> t, task |-> "launched", status |-> "none"] /\ RunsOf(t) = {}
      /\ runs[r].task = "unused" /\ runs[r].trace \notin Traces
      /\ \A q \in Runs \ {r} : runs'[q] = runs[q]
      /\ progress'[t].status = "none" /\ \A u \in Traces \ {t} : progress'[u] = progress[u]
  BY <1>0 DEF Accepts, Shape
<1>2. UNCHANGED <<cases, drafts, shared>>
  BY DEF caseVars
<1>3. OneTicketPerDiagnosis' /\ \A u \in Traces : InStore(u)' => InStore(u)
  BY <1>0, <1>2, KeptCases, RetrievalsFileNothing
<1>4. Aside(r, t)
  BY <1>1, <1>2, <1>3 DEF Aside
<1>5. RunOk(r)'
  <2>1. drafts[r] = NoDraft
    BY <1>0, <1>1 DEF RunOk, Loaded
  <2> QED
    BY <1>1, <1>2, <2>1 DEF RunOk, Loaded, Case, NoDraft, Draft
<1>6. RunsOf(t)' = {r}
  BY <1>1 DEF RunsOf
<1>7. progress[t].status = "none" /\ Fits({}, "none", cases[t])
  BY <1>0, <1>1 DEF DiagnosisOk, CheckpointOk
<1>8. CheckpointOk(t)'
  <2>1. \A experts : Fits(experts, "none", cases[t])
    BY <1>7 DEF Fits
  <2> QED
    BY <1>1, <1>2, <1>6, <2>1 DEF CheckpointOk
<1>9. ~InStore(t)'
  BY <1>0, <1>1, <1>3 DEF DiagnosisOk, OutcomeOk
<1>10. OutcomeOk(t)' /\ AloneOk(t)'
  BY <1>1, <1>6, <1>9 DEF OutcomeOk, AloneOk, Loaded
<1> QED
  BY <1>3, <1>4, <1>5, <1>8, <1>10, OthersOk DEF CasesInv, DiagnosisOk

LEMMA RestartCase ==
    ASSUME LoopInv, RestartsSupervisor
    PROVE  CasesInv'
<1>0. Shape /\ CaseShape /\ OneTicketPerDiagnosis
  BY DEF LoopInv, IntakeInv, CasesInv
<1>1. /\ UNCHANGED <<progress, cases, shared>> /\ drafts' = [r \in Runs |-> NoDraft]
      /\ \A r \in Runs : /\ runs'[r].trace = runs[r].trace /\ runs'[r].status = runs[r].status
                         /\ runs'[r].task \notin AtWork
  BY <1>0 DEF RestartsSupervisor, SupervisorRestarts, Shape, AtWork
<1>2. OneTicketPerDiagnosis' /\ \A u \in Traces : InStore(u)' => InStore(u)
  BY <1>0, <1>1, KeptCases, RetrievalsFileNothing DEF RestartsSupervisor
<1>3. Loaded \subseteq AtWork /\ {"launched", "resuming", "running", "answering"} \subseteq AtWork
  BY DEF Loaded, AtWork
<1>4. \A r \in Runs : RunOk(r)'
  BY <1>1, <1>3 DEF RunOk, Case, NoDraft, Draft
<1>5. ASSUME NEW t \in Traces PROVE DiagnosisOk(t)'
  <2>1. DiagnosisOk(t) /\ RunsOf(t)' = RunsOf(t) /\ Called(t)' = Called(t)
    BY <1>1 DEF LoopInv, CasesInv, RunsOf, Called, NodeOf
  <2>2. CheckpointOk(t)'
    BY <1>1, <2>1 DEF DiagnosisOk, CheckpointOk
  <2>3. OutcomeOk(t)'
    BY <1>1, <1>2, <2>1 DEF DiagnosisOk, OutcomeOk, RunsOf
  <2>4. AloneOk(t)'
    <3>1. \A r \in RunsOf(t) : runs'[r].task \notin AtWork
      BY <1>1 DEF RunsOf
    <3> QED
      BY <1>1, <1>2, <1>3, <2>1, <3>1 DEF DiagnosisOk, AloneOk
  <2> QED
    BY <2>2, <2>3, <2>4 DEF DiagnosisOk
<1> QED
  BY <1>2, <1>4, <1>5 DEF CasesInv

----------------------------------------------------------------------------
(* The searches under way *)

\* What an open collection holds stays in it, but for a restart.
LEMMA TicketsStay ==
    ASSUME CorpusInv, opened,
           \/ Retrieves \/ UNCHANGED ragVars \/ Seeds(SeedTickets)
           \/ \E t \in Tickets, c \in Contents : Upserts(t, c) \/ UpsertTears(t, c)
    PROVE  opened' /\ DOMAIN store \subseteq DOMAIN store'
<1>0. store \in Corpora /\ Collections = {store}
  BY DEF CorpusInv, RagTypeOK, Collections
<1>1. CASE Retrieves \/ UNCHANGED ragVars
  BY <1>0, <1>1 DEF Retrieves, ragVars
<1>2. CASE Seeds(SeedTickets)
  <2>1. PICK taken \in SUBSET DOMAIN SeedTickets : store' = WithLoad(SeedTickets, taken, store)
    BY <1>0, <1>2 DEF Seeds
  <2>2. DOMAIN WithLoad(SeedTickets, taken, store) = taken \cup DOMAIN store
    BY <1>0, CorpusAssumption, LoadedCorpus
  <2> QED
    BY <1>2, <2>1, <2>2 DEF Seeds
<1>3. ASSUME NEW t \in Tickets, NEW c \in Contents, Upserts(t, c) \/ UpsertTears(t, c)
      PROVE  opened' /\ DOMAIN store \subseteq DOMAIN store'
  <2>1. store' = WithTicket(t, c, store)
    BY <1>0, <1>3 DEF Upserts, UpsertTears
  <2>2. DOMAIN store' = {t} \cup DOMAIN store
    BY <1>0, <2>1, UpsertedCorpus
  <2> QED
    BY <1>3, <2>2 DEF Upserts, UpsertTears
<1> QED
  BY <1>1, <1>2, <1>3

\* A search that goes on while the corpus changes, and its run stays where it is.
LEMMA AgedOk ==
    ASSUME CorpusInv, NEW r \in Runs, SearchOk(r), searches'[r] = Aged(searches[r], Changed),
           opened => opened' /\ DOMAIN store \subseteq DOMAIN store',
           searches[r].asked => runs'[r].task = "running" /\ Case(r)'.stage = "prefetch"
    PROVE  SearchOk(r)'
<1> DEFINE search == searches[r]
<1>1. /\ search = [asked |-> search.asked, hits |-> search.hits, stale |-> search.stale]
      /\ ~search.asked => search.hits = {}
      /\ \A d \in search.hits :
            opened /\ Stored(d.ticket) /\ (d.ticket \notin search.stale => Current(d.ticket, d.content))
  BY DEF SearchOk
<1>2. CASE ~search.asked
  BY <1>1, <1>2 DEF SearchOk, Aged
<1>3. CASE search.asked
  <2>1. searches'[r] = [asked |-> search.asked, hits |-> search.hits, stale |-> search.stale \cup Changed]
    BY <1>1, <1>3 DEF Aged
  <2>2. ASSUME NEW d \in search.hits
        PROVE  /\ opened' /\ Stored(d.ticket)'
               /\ d.ticket \notin search.stale \cup Changed => Current(d.ticket, d.content)'
    <3>1. opened /\ Stored(d.ticket) /\ (d.ticket \notin search.stale => Current(d.ticket, d.content))
      BY <1>1
    <3>2. opened' /\ Stored(d.ticket)' /\ d.ticket \in Tickets
      BY <3>1, CorporaDef DEF Stored, CorpusInv, RagTypeOK
    <3>3. d.ticket \notin Changed => store'[d.ticket] = store[d.ticket]
      BY <3>1, <3>2 DEF Changed
    <3> QED
      BY <3>1, <3>2, <3>3 DEF Current
  <2> QED
    BY <1>3, <2>1, <2>2 DEF SearchOk
<1> QED
  BY <1>2, <1>3

LEMMA NoSearchOk ==
    ASSUME NEW r, searches'[r] = NoSearch
    PROVE  SearchOk(r)'
  BY DEF SearchOk, NoSearch

\* A step that leaves the corpus, this search and its run alone.
LEMMA SearchStays ==
    ASSUME NEW r \in Runs, SearchOk(r), searches'[r] = searches[r], UNCHANGED ragVars,
           searches[r].asked => runs'[r].task = runs[r].task /\ Case(r)'.stage = Case(r).stage
    PROVE  SearchOk(r)'
  BY DEF SearchOk, ragVars, Stored, Current

\* What the index holds is stored, and current unless torn or updated.
LEMMA EntriesAreStored ==
    ASSUME CorpusInv, NEW d \in Entries
    PROVE  /\ opened /\ Stored(d.ticket) /\ d.ticket \in Tickets
           /\ d.ticket \notin torn /\ AppendedFor(d.ticket) = {} => Current(d.ticket, d.content)
<1>0. opened
  BY DEF CorpusInv, EmptyUntilOpened, Entries, Range
<1>1. CASE \E u \in DOMAIN built : d = [ticket |-> u, content |-> built[u]]
  <2>1. /\ d.ticket \in DOMAIN built /\ d.content = built[d.ticket] /\ d.ticket \in Tickets
    BY <1>1, CorporaDef DEF CorpusInv, RagTypeOK
  <2>2. Stored(d.ticket)
    BY <2>1 DEF CorpusInv, IndexFollowsStore, Indexed
  <2>3. ASSUME d.ticket \notin torn, AppendedFor(d.ticket) = {} PROVE Current(d.ticket, d.content)
    <3>1. IndexedContent(d.ticket) = d.content
      BY <2>1, <2>3 DEF IndexedContent
    <3> QED
      BY <2>2, <2>3, <3>1 DEF CorpusInv, IndexFollowsStore, Stored, Current
  <2> QED
    BY <1>0, <2>1, <2>2, <2>3
<1>2. CASE \E e \in Range(appended) : d = [ticket |-> e[1], content |-> e[2]]
  <2>1. PICK i \in DOMAIN appended : d.ticket = appended[i][1]
    BY <1>2 DEF Range
  <2>2. i \in AppendedFor(d.ticket) /\ d.ticket \in Tickets
    BY <2>1 DEF AppendedFor, CorpusInv, RagTypeOK
  <2> QED
    BY <1>0, <2>2 DEF CorpusInv, IndexFollowsStore, Indexed
<1> QED
  BY <1>1, <1>2 DEF Entries

LEMMA SearchesInv ==
    ASSUME LoopInv, NEW r \in Runs, Searches(r)
    PROVE  \A q \in Runs : SearchOk(q)'
<1>0. CorpusInv /\ \A q \in Runs : SearchOk(q)
  BY DEF LoopInv
<1>1. UNCHANGED <<runs, drafts>> /\ Retrieves
  BY DEF Searches, intakeVars
<1>2. opened => opened' /\ DOMAIN store \subseteq DOMAIN store'
  BY <1>0, <1>1, TicketsStay
<1>3. PICK hits \in Candidates :
         searches' = [q \in Runs |->
             IF q = r THEN [asked |-> TRUE, hits |-> hits,
                            stale |-> torn \cup {t \in Tickets : AppendedFor(t) # {}}]
             ELSE Aged(searches[q], Changed)]
  BY DEF Searches
<1>4. SearchOk(r)'
  <2> DEFINE stale == torn \cup {t \in Tickets : AppendedFor(t) # {}}
  <2>1. searches'[r] = [asked |-> TRUE, hits |-> hits, stale |-> stale]
    BY <1>3
  <2>2. ASSUME NEW d \in hits
        PROVE  opened' /\ Stored(d.ticket)' /\ (d.ticket \notin stale => Current(d.ticket, d.content)')
    <3>1. /\ opened /\ Stored(d.ticket)
          /\ d.ticket \notin stale => Current(d.ticket, d.content)
      BY <1>0, EntriesAreStored DEF Candidates
    <3>2. opened' /\ store' = store
      BY <1>1, <3>1 DEF Retrieves, Collections
    <3> QED
      BY <3>1, <3>2 DEF Stored, Current
  <2>3. runs'[r].task = "running" /\ Case(r)'.stage = "prefetch"
    BY <1>1 DEF Searches, Working, Case
  <2> HIDE DEF stale
  <2> QED
    BY <2>1, <2>2, <2>3 DEF SearchOk
<1>5. ASSUME NEW q \in Runs \ {r} PROVE SearchOk(q)'
  <2>1. searches'[q] = Aged(searches[q], Changed) /\ SearchOk(q)
    BY <1>0, <1>3
  <2>2. searches[q].asked => runs'[q].task = "running" /\ Case(q)'.stage = "prefetch"
    BY <1>1, <2>1 DEF SearchOk, Case
  <2> QED
    BY <1>0, <1>2, <2>1, <2>2, AgedOk
<1> QED
  BY <1>4, <1>5

\* Steps of a run that neither search nor file.
LEMMA RunSearchInv ==
    ASSUME LoopInv, NEW r \in Runs, CaseNext(r), ~Searches(r), ~FilesCase(r)
    PROVE  \A q \in Runs : SearchOk(q)'
<1>0. CaseShape /\ Shape /\ \A q \in Runs : SearchOk(q)
  BY DEF LoopInv, IntakeInv
<1>1. UNCHANGED ragVars
  BY DEF CaseNext, Begins, Prefetches, Dispatches, Arbitrates, PausesCase, ResumesCase, LoadsCase, TakesDecision,
         Verifies, Executes, ReviewEnds, EndsRun, Crashes, Forgets
<1>2. /\ searches' = searches \/ searches' = [searches EXCEPT ![r] = NoSearch]
      /\ drafts' = drafts \/ \E draft : drafts' = [drafts EXCEPT ![r] = draft]
  BY DEF CaseNext, Begins, Prefetches, Dispatches, Arbitrates, PausesCase, ResumesCase, LoadsCase, TakesDecision,
         Verifies, Executes, ReviewEnds, EndsRun, Crashes, Forgets, CaseStep
<1>3. \A q \in Runs \ {r} : runs'[q] = runs[q]
  <2>1. RunNext(r) \/ UNCHANGED intakeVars
    BY RunSide
  <2>2. \E t : Mover(r, t) \/ runs' = runs
    BY <1>0, <2>1, RunStep DEF intakeVars
  <2> QED
    BY <2>2 DEF Mover, OnlyMoves
<1>4. ASSUME NEW q \in Runs \ {r} PROVE SearchOk(q)'
  <2>1. searches'[q] = searches[q] /\ drafts'[q] = drafts[q] /\ runs'[q] = runs[q] /\ SearchOk(q)
    BY <1>0, <1>2, <1>3 DEF CaseShape
  <2> QED
    BY <1>1, <2>1, SearchStays DEF Case
<1>5. SearchOk(r)'
  <2>1. CASE searches'[r] = NoSearch
    BY <2>1, NoSearchOk
  <2>2. CASE searches'[r] # NoSearch
    <3>1. searches'[r] = searches[r] /\ ~searches[r].asked
      <4>1. searches'[r] = searches[r] /\ SearchOk(r)
        BY <1>0, <1>2, <2>2 DEF CaseShape
      <4>2. ~Prefetches(r) /\ ~PausesCase(r) /\ ~EndsRun(r) /\ ~Crashes(r)
        BY <1>0, <2>2 DEF Prefetches, PausesCase, EndsRun, Crashes, Forgets, CaseShape
      <4>3. runs[r].task # "running" \/ Case(r).stage # "prefetch"
        BY <4>2 DEF CaseNext, Begins, RunBegins, Dispatches, Arbitrates, ResumesCase, Resumes, LoadsCase, Loads,
                    TakesDecision, InterruptReturns, Verifies, Executes, ReviewEnds, Working
      <4> QED
        BY <4>1, <4>3 DEF SearchOk
    <3> QED
      BY <1>0, <1>1, <3>1, SearchStays
  <2> QED
    BY <2>1, <2>2
<1> QED
  BY <1>4, <1>5

\* Writes to the corpus by reviews and other callers.
LEMMA WritesSearchInv ==
    ASSUME LoopInv, SearchesAge,
           opened => opened' /\ DOMAIN store \subseteq DOMAIN store',
           UNCHANGED runs, \A q \in Runs : Case(q)'.stage = Case(q).stage
    PROVE  \A q \in Runs : SearchOk(q)'
<1> SUFFICES ASSUME NEW q \in Runs PROVE SearchOk(q)'
    OBVIOUS
<1>1. CorpusInv /\ SearchOk(q) /\ searches'[q] = Aged(searches[q], Changed)
  BY DEF LoopInv, SearchesAge
<1>2. searches[q].asked => runs'[q].task = "running" /\ Case(q)'.stage = "prefetch"
  BY <1>1 DEF SearchOk
<1> QED
  BY <1>1, <1>2, AgedOk

LEMMA FileSearchInv ==
    ASSUME LoopInv, NEW r \in Runs, FilesCase(r)
    PROVE  \A q \in Runs : SearchOk(q)'
<1>0. /\ CaseShape /\ CorpusInv /\ \A q \in Runs : RunOk(q)
      /\ runs[r].trace \in Traces
  BY AtWorkIsLive DEF LoopInv, IntakeInv, CasesInv, FilesCase, Working, AtWork
<1>1. SearchesAge /\ UNCHANGED runs /\ drafts' = [drafts EXCEPT ![r].filed = TRUE]
  BY DEF FilesCase, intakeVars
<1>2. \A q \in Runs : Case(q)'.stage = Case(q).stage
  <2>1. ASSUME NEW q \in Runs PROVE drafts'[q].case = drafts[q].case
    <3>1. drafts[q] \in [case : {Case(q)}, filed : BOOLEAN]
      BY <1>0 DEF RunOk
    <3> QED
      BY <1>0, <1>1, <3>1 DEF CaseShape
  <2> QED
    BY <2>1 DEF Case
<1>3. opened => opened' /\ DOMAIN store \subseteq DOMAIN store'
  <2>1. \/ UNCHANGED ragVars
        \/ \E t \in Tickets, c \in Contents : Upserts(t, c) \/ UpsertTears(t, c)
    BY <1>0, LoopAssumption DEF FilesCase, UpsertsCase, WritesNoCase
  <2> QED
    BY <1>0, <2>1, TicketsStay
<1> QED
  BY <1>1, <1>2, <1>3, WritesSearchInv

LEMMA CorpusSearchInv ==
    ASSUME LoopInv, CorpusStep
    PROVE  \A q \in Runs : SearchOk(q)'
<1>0. CorpusInv /\ UNCHANGED <<runs, drafts>> /\ \A q \in Runs : SearchOk(q)
  BY DEF LoopInv, CorpusStep, intakeVars
<1>1. CASE SearchesDie
  <2> SUFFICES ASSUME NEW q \in Runs PROVE SearchOk(q)'
      OBVIOUS
  <2>1. CASE ~searches[q].asked
    BY <1>1, <2>1, NoSearchOk DEF SearchesDie
  <2>2. CASE searches[q].asked
    <3>1. searches'[q] = [asked |-> TRUE, hits |-> {}, stale |-> {}]
      BY <1>1, <2>2 DEF SearchesDie, NoSearch
    <3>2. runs'[q].task = "running" /\ Case(q)'.stage = "prefetch"
      BY <1>0, <2>2 DEF SearchOk, Case
    <3> QED
      BY <3>1, <3>2 DEF SearchOk
  <2> QED
    BY <2>1, <2>2
<1>2. CASE ~SearchesDie
  <2>1. SearchesAge
    BY <1>2 DEF CorpusStep
  <2>2. \/ Retrieves \/ Seeds(SeedTickets)
        \/ \E t \in Tickets, c \in Contents : Upserts(t, c) \/ UpsertTears(t, c)
    BY <1>2 DEF CorpusStep, HealthAsked, ClientTickets, ClientContents
  <2>3. opened => opened' /\ DOMAIN store \subseteq DOMAIN store'
    BY <1>0, <2>2, TicketsStay
  <2> QED
    BY <1>0, <2>1, <2>3, WritesSearchInv DEF Case
<1> QED
  BY <1>1, <1>2

----------------------------------------------------------------------------
(* All together *)

LEMMA RunningHasTrace == LoopInv => \A r \in Runs : runs[r].task = "running" => runs[r].trace \in Traces
  BY DEF LoopInv, IntakeInv, Shape

LEMMA LoopInitInv == LoopInit => LoopInv
<1> SUFFICES ASSUME LoopInit PROVE LoopInv
    OBVIOUS
<1>1. StreamInv /\ Accounted /\ IntakeInv /\ CorpusInv /\ CaseShape
  BY StreamInitInv, AccountedInit, IntakeInitInv, CorpusInitInv DEF LoopInit, CaseShape
<1>2. /\ \A t \in Traces : progress[t].status = "none" /\ cases[t] = NoCase /\ ~InStore(t) /\ RunsOf(t) = {}
      /\ \A r \in Runs : runs[r].task = "unused" /\ drafts[r] = NoDraft /\ searches[r] = NoSearch
  BY EmptyCorpus, IntakeAssumption DEF LoopInit, IntakeInit, RagInit, InStore, RunsOf
<1>3. Fits({}, "none", NoCase)
  <2>1. IsPanel(<< >>) /\ DOMAIN << >> = {} /\ Len(<< >>) <= FINAL_TOP_K
    BY DEF IsPanel, FINAL_TOP_K
  <2> QED
    BY <2>1 DEF Fits, IsCase, Placed, NoCase, Stages, TerminalStatuses
<1>4. \A t \in Traces : DiagnosisOk(t)
  BY <1>2, <1>3 DEF DiagnosisOk, CheckpointOk, OutcomeOk, AloneOk
<1>5. ASSUME NEW r \in Runs
      PROVE  RunOk(r)
  <2>1. runs[r].task = "unused" /\ drafts[r] = NoDraft
    BY <1>2
  <2>2. drafts[r] \in [case : {Case(r)}, filed : BOOLEAN] /\ ~drafts[r].filed
    BY <2>1 DEF Case, NoDraft, Draft
  <2> QED
    BY <2>1, <2>2 DEF RunOk, Loaded
<1>6. \A r \in Runs : SearchOk(r)
  BY <1>2 DEF SearchOk, NoSearch
<1>7. OneTicketPerDiagnosis
  BY EmptyCorpus DEF LoopInit, RagInit, OneTicketPerDiagnosis
<1> QED
  BY <1>1, <1>4, <1>5, <1>6, <1>7 DEF LoopInv, CasesInv

LEMMA PartsKeep ==
    ASSUME LoopInv, [LoopNext]_vars
    PROVE  StreamInv' /\ Accounted' /\ IntakeInv' /\ CorpusInv'
<1>0. StreamInv /\ Accounted /\ IntakeInv /\ CorpusInv /\ workload \in Workloads
  BY DEF LoopInv, CaseShape
<1>1. StreamNext \/ UNCHANGED operatorVars
  BY <1>0, StreamSide DEF vars, streamVars, operatorVars
<1>2. StreamInv'
  <2>1. CASE UNCHANGED operatorVars
    <3>1. now' \in Nat /\ watermark' \in Nat
      BY <1>0, <2>1 DEF StreamInv, StreamTypeOK, operatorVars
    <3> QED
      BY <1>0, <2>1, <3>1, TimeInv DEF operatorVars
  <2> QED
    BY <1>0, <1>1, <2>1, StreamStepInv
<1>3. IntakeMoves \/ UNCHANGED intakeVars
  BY IntakeSide DEF vars
<1>4. RagNext \/ UNCHANGED ragVars
  BY RunningHasTrace, CorpusSide DEF vars
<1>5. Accounted'
  <2>1. StreamNext \/ UNCHANGED <<buckets, samples, lastAnomaly, windows>>
    BY <1>1 DEF operatorVars
  <2> QED
    BY <1>0, <2>1, AccountedStep DEF StreamInv
<1> QED
  BY <1>0, <1>2, <1>3, <1>4, <1>5, IntakeStepInv, CorpusStepInv

LEMMA CasesKeep ==
    ASSUME LoopInv, [LoopNext]_vars
    PROVE  CasesInv' /\ \A q \in Runs : SearchOk(q)'
<1>0. CorpusInv /\ \A q \in Runs : SearchOk(q)
  BY DEF LoopInv
<1>1. ASSUME NEW r \in Runs, CaseNext(r) PROVE CasesInv' /\ \A q \in Runs : SearchOk(q)'
  BY <1>1, CaseNextInv, SearchesInv, FileSearchInv, RunSearchInv
<1>2. ASSUME UNCHANGED <<ragVars, caseVars, progress, runs>>
      PROVE  CasesInv' /\ \A q \in Runs : SearchOk(q)'
  <2>1. UNCHANGED <<cases, drafts, searches, shared>>
    BY <1>2 DEF caseVars
  <2> QED
    BY <1>0, <1>2, <2>1, CasesStay, SearchStays, RetrievalsFileNothing DEF Case
<1>3. CASE StreamStep \/ SinkTakesNext \/ UNCHANGED vars
  BY <1>2, <1>3 DEF StreamStep, SinkTakesNext, SinkTakes, intakeVars, vars
<1>4. ASSUME NEW incident \in Incidents, SinkTakesOther(incident) PROVE CasesInv' /\ \A q \in Runs : SearchOk(q)'
  BY <1>2, <1>4 DEF SinkTakesOther, SinkTakes
<1>5. CASE DeliveryStep
  <2>1. UNCHANGED <<ragVars, caseVars>>
    BY <1>5 DEF DeliveryStep
  <2>2. CASE UNCHANGED <<progress, runs>>
    BY <1>2, <2>1, <2>2
  <2>3. ASSUME NEW h \in Requests, NEW t \in Traces, NEW r \in Runs, Accepts(h, t, r)
        PROVE  CasesInv' /\ \A q \in Runs : SearchOk(q)'
    <3>1. CasesInv'
      BY <2>1, <2>3, AcceptCase
    <3>2. ASSUME NEW q \in Runs PROVE SearchOk(q)'
      <4>1. searches[q].asked => runs'[q] = runs[q]
        BY <1>0, <2>3 DEF SearchOk, Accepts, LoopInv, IntakeInv, Shape
      <4> QED
        BY <1>0, <2>1, <4>1, SearchStays DEF caseVars, Case
    <3> QED
      BY <3>1, <3>2
  <2> QED
    BY <1>5, <2>2, <2>3 DEF DeliveryStep, SinkCalls, SinkUnreachable, SinkTimesOut, SinkHears, PurgesUnborn,
                            PurgesFinished, Refuses, PassesOver, CheckRaises
<1>6. CASE RestartsSupervisor
  <2>1. \A q \in Runs : searches'[q] = NoSearch
    BY <1>6 DEF RestartsSupervisor
  <2> QED
    BY <1>6, <2>1, RestartCase, NoSearchOk
<1>7. CASE CorpusStep
  <2>1. UNCHANGED <<cases, drafts, shared, progress, runs>>
    BY <1>7 DEF CorpusStep, intakeVars
  <2> QED
    BY <1>0, <1>7, <2>1, OthersFileNothing, CasesStay, CorpusSearchInv
<1> QED
  BY <1>1, <1>3, <1>4, <1>5, <1>6, <1>7 DEF LoopNext

LEMMA ShapesKeep ==
    ASSUME LoopInv, [LoopNext]_vars
    PROVE  CaseShape'
<1>0. CaseShape
  BY DEF LoopInv
<1>1. workload' = workload
  BY DEF LoopNext, StreamStep, SinkTakesNext, SinkTakesOther, DeliveryStep, CaseNext, RestartsSupervisor, CorpusStep,
         Spend, controlVars, vars, Begins, Searches, Prefetches, Dispatches, Arbitrates, PausesCase, ResumesCase,
         LoadsCase, TakesDecision, Verifies, Executes, FilesCase, ReviewEnds, EndsRun, Crashes, CaseStep
<1>2. ASSUME NEW r \in Runs, CaseNext(r)
      PROVE  DOMAIN cases' = Traces /\ DOMAIN drafts' = Runs /\ DOMAIN searches' = Runs
  BY <1>0, <1>2 DEF CaseShape, CaseNext, Begins, Searches, Prefetches, Dispatches, Arbitrates, PausesCase, ResumesCase,
         LoadsCase, TakesDecision, Verifies, Executes, FilesCase, ReviewEnds, EndsRun, Crashes, CaseStep, Forgets,
         SearchesAge
<1>3. ASSUME CorpusStep \/ RestartsSupervisor
      PROVE  DOMAIN cases' = Traces /\ DOMAIN drafts' = Runs /\ DOMAIN searches' = Runs
  BY <1>0, <1>3 DEF CaseShape, CorpusStep, RestartsSupervisor, SearchesAge, SearchesDie
<1>4. ASSUME UNCHANGED caseVars
      PROVE  DOMAIN cases' = Traces /\ DOMAIN drafts' = Runs /\ DOMAIN searches' = Runs
  BY <1>0, <1>4 DEF CaseShape, caseVars
<1>5. DOMAIN cases' = Traces /\ DOMAIN drafts' = Runs /\ DOMAIN searches' = Runs
  BY <1>2, <1>3, <1>4 DEF LoopNext, StreamStep, SinkTakesNext, SinkTakesOther, DeliveryStep, vars, CaseShape
<1> QED
  BY <1>0, <1>1, <1>5 DEF CaseShape

LEMMA LoopStepInv == LoopInv /\ [LoopNext]_vars => LoopInv'
  BY PartsKeep, CasesKeep, ShapesKeep DEF LoopInv

LEMMA LoopInvHolds == Spec => []LoopInv
  BY LoopInitInv, LoopStepInv, PTL DEF Spec

----------------------------------------------------------------------------
(* Theorems *)

\* The loop does nothing to the corpus that the RAG service alone could not do:
\* what is proved of it holds in the loop.
THEOREM LoopImplementsCorpus == Spec => RagSpec
<1>1. LoopInit => RagInit
  BY DEF LoopInit
<1>2. LoopInv /\ [LoopNext]_vars => [RagNext]_ragVars
  BY RunningHasTrace, CorpusSide DEF vars
<1> QED
  BY <1>1, <1>2, LoopInvHolds, PTL DEF Spec, RagSpec

\* Keyword search follows the collection while reviews, clients and restarts
\* write to it.
THEOREM SearchIsFaithfulInLoop == Spec => []IndexFollowsStore
  BY LoopImplementsCorpus, SearchIsFaithful, PTL

\* The duplicate check misses only what it cannot see and keeps no stale entry, with
\* the incidents the stream sends and the runs the graph makes.
THEOREM DuplicateCheckInLoop == Spec => [](DuplicatesOnlyThroughGaps /\ ConfigsAreLive)
<1>1. LoopInv => DuplicatesOnlyThroughGaps /\ ConfigsAreLive
  BY InvImplies DEF LoopInv
<1> QED
  BY <1>1, LoopInvHolds, PTL

\* What the stream promises of marks, pending ids, jitter, baselines and windows
\* holds with a sink that takes incidents while the windows fire.
THEOREM StreamInLoop ==
    Spec => [](/\ ValidatedByNearAlert /\ PendingIdsExpire /\ OnlyPersistentAggregated
               /\ BaselineIsHistory /\ WindowsAddUp)
<1>1. LoopInv => /\ ValidatedByNearAlert /\ PendingIdsExpire /\ OnlyPersistentAggregated
                 /\ BaselineIsHistory /\ WindowsAddUp
  BY BaselineFromStats, WindowsFromElements DEF LoopInv, StreamInv
<1> QED
  BY <1>1, LoopInvHolds, PTL

\* The parts keep their types.  The position and the status of a diagnosis fit
\* together, and so do its position and what it holds, in its checkpoint and in
\* the memory of every run at work on it.
THEOREM LoopTypeCorrect == Spec => []LoopTypeOK
<1>1. LoopInv => StreamTypeOK /\ IntakeTypeOK /\ RagTypeOK
  BY ShapeIsType DEF LoopInv, StreamInv, IntakeInv, CorpusInv
<1>2. LoopInv => LoopTypeOK
  <2> SUFFICES ASSUME LoopInv PROVE LoopTypeOK
      OBVIOUS
  <2>1. ASSUME NEW t \in Traces
        PROVE  /\ Placed(progress[t].status, cases[t])
               /\ DOMAIN cases[t].panel \subseteq (IF RunsOf(t) = {} THEN {} ELSE Called(t))
    BY DEF LoopInv, CasesInv, DiagnosisOk, CheckpointOk, Fits
  <2>2. ASSUME NEW r \in Runs
        PROVE  /\ runs[r].task \in AtWork => Placed(runs[r].status, Case(r))
               /\ drafts[r].filed => runs[r].task = "running" /\ Case(r).stage \in {"review", "end"}
    <3>1. RunOk(r)
      BY DEF LoopInv, CasesInv
    <3>2. Placed("none", NoCase) /\ NoDraft.case = NoCase
      <4>1. Len(<< >>) <= FINAL_TOP_K
        BY DEF FINAL_TOP_K
      <4> QED
        BY <4>1 DEF Placed, NoCase, Stages, TerminalStatuses, NoDraft, Draft
    <3> QED
      BY <3>1, <3>2 DEF RunOk, Loaded, AtWork, Fits, Case
  <2>3. \A r \in Runs : searches[r].asked => runs[r].task = "running" /\ Case(r).stage = "prefetch"
    BY DEF LoopInv, SearchOk
  <2>4. DOMAIN cases = Traces /\ DOMAIN drafts = Runs /\ DOMAIN searches = Runs
    BY DEF LoopInv, CaseShape
  <2> QED
    BY <1>1, <2>1, <2>2, <2>3, <2>4 DEF LoopTypeOK, Case
<1> QED
  BY <1>1, <1>2, LoopInvHolds, PTL

\* Nothing enters the experience base but what a run executed to its end; where
\* runs follow one another the checkpoint says so from then on.
THEOREM KnowledgeIsOfOutcomes == Spec => []KnowledgeComesFromOutcomes
<1>1. LoopInv => KnowledgeComesFromOutcomes
  BY DEF LoopInv, CasesInv, DiagnosisOk, OutcomeOk, AloneOk, InStore, KnowledgeComesFromOutcomes
<1> QED
  BY <1>1, LoopInvHolds, PTL

\* A diagnosis has two tickets only after runs of it were at work side by side,
\* however often its runs crashed between the upsert and the checkpoint and were
\* resumed one after the other.
THEOREM FiledOnce == Spec => []OneTicketPerDiagnosis
<1>1. LoopInv => OneTicketPerDiagnosis
  BY DEF LoopInv, CasesInv
<1> QED
  BY <1>1, LoopInvHolds, PTL

\* No decision of a diagnosis, in a checkpoint or a run's memory, outvotes an
\* expert in favour of one that is nowhere better.
THEOREM VotesAreFair == Spec => []WinnerNotOutdone
<1>1. LoopInv => WinnerNotOutdone
  <2> SUFFICES ASSUME LoopInv,
                      NEW c \in Range(cases) \cup {Case(r) : r \in Runs}, c.decision # NoDecision
               PROVE  NotOutvoted(c.panel, c.decision)
    BY DEF WinnerNotOutdone
  <2>1. ASSUME NEW t \in Traces, c = cases[t] PROVE NotOutvoted(c.panel, c.decision)
    BY <2>1 DEF LoopInv, CasesInv, DiagnosisOk, CheckpointOk, Fits
  <2>2. ASSUME NEW r \in Runs, c = Case(r) PROVE NotOutvoted(c.panel, c.decision)
    <3>1. RunOk(r) /\ NoDraft.case.decision = NoDecision
      BY DEF LoopInv, CasesInv, NoDraft, Draft, NoCase
    <3> QED
      BY <2>2, <3>1 DEF RunOk, Case, Fits
  <2> QED
    BY <2>1, <2>2 DEF Range, LoopInv, CaseShape
<1> QED
  BY <1>1, LoopInvHolds, PTL

\* What a run is shown of a ticket is stored when it is shown, and is what is
\* stored then unless the index had several entries of it or missed a write when
\* it was searched, or the ticket was written while the language model chose.
THEOREM ShownCasesAreCurrent == Spec => ShownIsCurrent
<1> DEFINE Shown ==
             \A r \in Runs :
                 LET docs == Case(r)'.docs IN
                 Working(r, "prefetch") /\ Case(r)'.stage = "dispatch" =>
                     \A d \in Range(docs) :
                         /\ Stored(d.ticket)
                         /\ d.ticket \notin searches[r].stale => Current(d.ticket, d.content)
<1>1. ASSUME LoopInv, [LoopNext]_vars PROVE Shown
  <2> SUFFICES ASSUME NEW r \in Runs, Working(r, "prefetch"), Case(r)'.stage = "dispatch",
                      NEW d \in Range(Case(r)'.docs)
               PROVE  /\ Stored(d.ticket)
                      /\ d.ticket \notin searches[r].stale => Current(d.ticket, d.content)
      OBVIOUS
  <2>0. /\ CaseShape /\ RunOk(r) /\ SearchOk(r) /\ runs[r].task = "running" /\ Case(r).stage = "prefetch"
        /\ IsCase(Case(r))
    BY <1>1, AtStage DEF LoopInv, CasesInv, Working, Loaded
  <2>1. drafts'[r].case # drafts[r].case
    BY <2>0 DEF Case
  <2>2. CaseNext(r)
    <3>1. ASSUME NEW q \in Runs \ {r}, CaseNext(q) PROVE drafts'[r] = drafts[r]
      BY <2>0, <3>1 DEF CaseShape, CaseNext, Begins, Searches, Prefetches, Dispatches, Arbitrates, PausesCase,
             ResumesCase, LoadsCase, TakesDecision, Verifies, Executes, FilesCase, ReviewEnds, EndsRun, Crashes,
             CaseStep, Forgets
    <3>2. ASSUME UNCHANGED caseVars PROVE drafts'[r] = drafts[r]
      BY <3>2 DEF caseVars
    <3>3. ~RestartsSupervisor
      BY <2>0 DEF RestartsSupervisor, Case, NoDraft, Draft, NoCase
    <3>4. CorpusStep => drafts'[r] = drafts[r]
      BY DEF CorpusStep
    <3> QED
      BY <1>1, <2>1, <3>1, <3>2, <3>3, <3>4 DEF LoopNext, StreamStep, SinkTakesNext, SinkTakesOther, DeliveryStep, vars
  <2>3. Prefetches(r)
    <3>1. ~Forgets(r)
      BY <2>0 DEF Forgets, CaseShape, Case, NoDraft, Draft, NoCase
    <3>2. ~FilesCase(r)
      BY <2>0 DEF FilesCase, Working
    <3>3. drafts' # drafts
      BY <2>1
    <3> QED
      BY <2>0, <2>2, <3>1, <3>2, <3>3
         DEF CaseNext, Begins, RunBegins, Searches, Dispatches, Arbitrates, PausesCase, ResumesCase, LoadsCase, Loads,
             TakesDecision, InterruptReturns, Verifies, Executes, ReviewEnds, EndsRun, Crashes, Working
  <2>4. PICK docs \in Reranked(searches[r].hits) :
           CaseStep(r, [Case(r) EXCEPT !.stage = "dispatch", !.docs = docs])
    BY <2>3 DEF Prefetches
  <2>5. Case(r)'.docs = docs
    BY <2>0, <2>4 DEF CaseStep, CaseShape, Case, Draft, IsCase
  <2>6. d \in searches[r].hits
    BY <2>4, <2>5, RerankedAreShort
  <2> QED
    BY <2>0, <2>6 DEF SearchOk
<1>2. LoopInv /\ [LoopNext]_vars => [Shown]_vars
  BY <1>1
<1> QED
  BY <1>2, LoopInvHolds, PTL DEF ShownIsCurrent, Spec
====

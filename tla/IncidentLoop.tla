---- MODULE IncidentLoop ----
(***************************************************************************)
(* The whole loop: the anomaly stream hands incidents to the sink, the     *)
(* sink to the supervisor, every diagnosis asks the RAG service and the    *)
(* experts, and a finished one adds its case to the corpus the next one    *)
(* is answered from.                                                       *)
(*                                                                         *)
(* What goes into a behaviour is one of Workloads, chosen at the start:    *)
(* the events that may come and how many of each kind, and which services  *)
(* answer at all.                                                          *)
(***************************************************************************)
EXTENDS AnomalyStream, IncidentIntake, RagIndex, Arbitration

CONSTANTS
    NodeType,       \* node -> node_type
    ReviewTickets,  \* ticket ids of after-action reviews
    Workloads,
    NoDecision

BudgetKinds == {"metric", "alert", "trouble", "crash", "restart", "resume", "write"}

ASSUME LoopAssumption ==
    /\ ReviewTickets \subseteq Tickets /\ Traces \subseteq Contents \ Wordless
    /\ \A s \in DOMAIN SeedTickets : SeedTickets[s] \notin Traces
    /\ NoDecision \notin DecisionRecords
    /\ \A w \in Workloads : /\ w.metrics \subseteq MetricEvents /\ w.alerts \subseteq AlertEvents
                            /\ w.incidents \subseteq Incidents /\ w.experts \subseteq Experts
                            /\ w.budget \in [BudgetKinds -> Nat]

VARIABLES
    cases,     \* what the checkpoint of a diagnosis holds beside its status
    drafts,    \* the same in the memory of a run
    searches,  \* the retrieval a run waits for
    shared,    \* history: diagnoses resumed while a run of them was at work
    workload,  \* the workload of this behaviour
    reported,  \* the workload's incidents the sink has taken
    spent      \* how much of the workload's budget is used

caseVars == <<cases, drafts, searches, shared>>
controlVars == <<workload, reported, spent>>
vars == <<streamVars, intakeVars, ragVars, caseVars, controlVars>>

----------------------------------------------------------------------------
(* One diagnosis: stage is the next node                                     *)

Stages ==
    {"prefetch", "dispatch", "arbitrate", "interrupt", "verify", "turned_down", "execute", "review", "end"}

NoCase == [stage |-> "prefetch", docs |-> << >>, panel |-> << >>, decision |-> NoDecision]

\* In memory a run also has whether its review has called the RAG service.
Draft(case, filed) == [case |-> case, filed |-> filed]
NoDraft == Draft(NoCase, FALSE)

\* What came of the searches before the language model was asked, and which of
\* their tickets had entries of several ages then or were written since.
NoSearch == [asked |-> FALSE, hits |-> {}, stale |-> {}]

\* The experts of node_dispatch_experts.
Called(t) == DetermineExperts(NodeType[NodeOf(t)], progress[t].incident.metricGroup)

\* The status of a graph state against what else it holds, in a checkpoint and
\* in a run's memory.
Placed(status, c) ==
    /\ c.stage \in Stages /\ Len(c.docs) <= FINAL_TOP_K
    /\ c.decision = NoDecision <=> c.stage \in {"prefetch", "dispatch", "arbitrate"}
    /\ c.stage = "interrupt" <=> status = "awaiting_approval"
    /\ status \in TerminalStatuses => c.stage \in {"review", "end"}

LoopTypeOK ==
    /\ StreamTypeOK /\ IntakeTypeOK /\ RagTypeOK
    /\ DOMAIN cases = Traces /\ DOMAIN drafts = Runs /\ DOMAIN searches = Runs
    /\ \A t \in Traces :
          /\ Placed(progress[t].status, cases[t])
          /\ DOMAIN cases[t].panel \subseteq (IF RunsOf(t) = {} THEN {} ELSE Called(t))
    /\ \A r \in Runs :
          /\ runs[r].task \in AtWork => Placed(runs[r].status, drafts[r].case)
          /\ drafts[r].filed => runs[r].task = "running" /\ drafts[r].case.stage \in {"review", "end"}
          /\ searches[r].asked => runs[r].task = "running" /\ drafts[r].case.stage = "prefetch"

Spend(kind) ==
    /\ spent[kind] < workload.budget[kind]
    /\ spent' = [spent EXCEPT ![kind] = @ + 1]
    /\ UNCHANGED <<workload, reported>>

LoopInit ==
    /\ StreamInit /\ IntakeInit /\ RagInit
    /\ cases = [t \in Traces |-> NoCase]
    /\ drafts = [r \in Runs |-> NoDraft]
    /\ searches = [r \in Runs |-> NoSearch]
    /\ shared = {}
    /\ workload \in Workloads
    /\ reported = {}
    /\ spent = [kind \in BudgetKinds |-> 0]

----------------------------------------------------------------------------
(* The stream and the sink *)

StreamStep ==
    /\ \/ \E e \in workload.metrics :
             Spend("metric") /\ (NormalMetric(e) \/ UnconfirmedAnomaly(e) \/ ConfirmedAnomaly(e))
       \/ \E a \in workload.alerts : Spend("alert") /\ (AlertConfirms(a) \/ AlertWaits(a))
       \/ UNCHANGED controlVars /\ \E n \in Machines : \E t \in timers[n] : TimerFires(n, t)
       \/ UNCHANGED controlVars /\ workload.alerts # {} /\ ClockAdvances
       \/ UNCHANGED controlVars /\ WatermarkAdvances
       \/ UNCHANGED controlVars /\ \E w \in DOMAIN windows : WindowFires(w)
    /\ UNCHANGED <<intakeVars, ragVars, caseVars>>

\* The incidents are taken in their order.
SinkTakesNext ==
    /\ outbox # << >>
    /\ SinkTakes(Head(outbox)) /\ outbox' = Tail(outbox)
    /\ UNCHANGED <<buckets, samples, counts, lastAnomaly, lastAlert, alertsSeen, pendingIds,
                   timers, now, maxSeen, watermark, windows, ragVars, caseVars, controlVars>>

\* Incidents of windows that are not looked at here.
SinkTakesOther(incident) ==
    /\ incident \in workload.incidents \ reported
    /\ SinkTakes(incident) /\ reported' = reported \cup {incident}
    /\ UNCHANGED <<streamVars, ragVars, caseVars, workload, spent>>

DeliveryStep ==
    /\ \/ UNCHANGED controlVars /\ (\E h \in Requests : SinkCalls(h))
       \/ Spend("trouble") /\ SinkUnreachable
       \/ Spend("trouble") /\ SinkTimesOut
       \/ UNCHANGED controlVars /\ SinkHears
       \/ \E h \in Requests, t \in Traces :
             \/ /\ UNCHANGED controlVars
                /\ \/ PurgesUnborn(h, t) \/ PurgesFinished(h, t) \/ Refuses(h, t)
                   \/ PassesOver(h, t)
                   \/ \E r \in Runs : Accepts(h, t, r)
             \/ Spend("trouble") /\ CheckRaises(h, t)
    /\ UNCHANGED <<streamVars, ragVars, caseVars>>

----------------------------------------------------------------------------
(* The RAG service's searches under way *)

Changed == {t \in Tickets : Stored(t) # Stored(t)' \/ (Stored(t) /\ store[t] # store'[t])}

Aged(search, tickets) ==
    IF search.asked THEN [search EXCEPT !.stale = @ \cup tickets] ELSE search

\* A write comes between a search and its answer.
SearchesAge == \E tickets \in {Changed} : searches' = [r \in Runs |-> Aged(searches[r], tickets)]

\* The calls of a RAG service that restarts end in an exception.
SearchesDie ==
    searches' = [r \in Runs |->
        IF searches[r].asked THEN [NoSearch EXCEPT !.asked = TRUE] ELSE NoSearch]

----------------------------------------------------------------------------
(* The graph's nodes *)

Case(r) == drafts[r].case

Working(r, stage) == runs[r].task = "running" /\ Case(r).stage = stage

\* A superstep: what it made of the case goes into the checkpoint too.
CaseStep(r, case) ==
    /\ drafts' = [drafts EXCEPT ![r] = Draft(case, FALSE)]
    /\ cases' = [cases EXCEPT ![runs[r].trace] = case]
    /\ UNCHANGED <<streamVars, shared, controlVars>>

\* The memory of a run whose task is over.
Forgets(r) ==
    /\ drafts' = [drafts EXCEPT ![r] = NoDraft]
    /\ searches' = [searches EXCEPT ![r] = NoSearch]
    /\ UNCHANGED <<streamVars, ragVars, cases, shared>>

Begins(r) ==
    /\ RunBegins(r)
    /\ CaseStep(r, NoCase)
    /\ UNCHANGED <<ragVars, searches>>

\* node_rag_prefetch calls; the service searches, and calls the language model.
Searches(r) ==
    /\ Working(r, "prefetch") /\ ~searches[r].asked
    /\ workload.corpus
    /\ Retrieves
    /\ \E hits \in Candidates, tickets \in {Changed} :
          searches' = [q \in Runs |->
              IF q = r THEN [asked |-> TRUE, hits |-> hits,
                             stale |-> torn \cup {t \in Tickets : AppendedFor(t) # {}}]
              ELSE Aged(searches[q], tickets)]
    /\ UNCHANGED <<streamVars, intakeVars, cases, drafts, shared, controlVars>>

\* node_rag_prefetch returns; a retrieval that failed, was not answered in time
\* or found nobody gives no documents.
Prefetches(r) ==
    /\ Working(r, "prefetch") /\ (searches[r].asked \/ ~workload.corpus)
    /\ \E docs \in Reranked(searches[r].hits) :
          CaseStep(r, [Case(r) EXCEPT !.stage = "dispatch", !.docs = docs])
    /\ searches' = [searches EXCEPT ![r] = NoSearch]
    /\ GoesOn(r)
    /\ UNCHANGED ragVars

\* node_dispatch_experts
Dispatches(r) ==
    /\ Working(r, "dispatch")
    /\ \E panel \in Panels(Called(runs[r].trace) \cap workload.experts) :
          CaseStep(r, [Case(r) EXCEPT !.stage = "arbitrate", !.panel = panel])
    /\ GoesOn(r)
    /\ UNCHANGED <<ragVars, searches>>

\* node_arbitrate; whether the plan needs approval is PlanReview's subject.
Arbitrates(r) ==
    /\ Working(r, "arbitrate")
    /\ \E decision \in Decisions(Case(r).panel) :
          \/ /\ CaseStep(r, [Case(r) EXCEPT !.stage = "verify", !.decision = decision])
             /\ GoesOn(r)
          \/ /\ CaseStep(r, [Case(r) EXCEPT !.stage = "interrupt", !.decision = decision])
             /\ AsksApproval(r)
    /\ UNCHANGED <<ragVars, searches>>

PausesCase(r) ==
    /\ Pauses(r)
    /\ Forgets(r)
    /\ UNCHANGED controlVars

\* resume_diagnosis.
ResumesCase(t, r) ==
    /\ Resumes(t, r)
    /\ Spend("resume")
    /\ shared' = IF Busy(t) THEN shared \cup {t} ELSE shared
    /\ UNCHANGED <<streamVars, ragVars, cases, drafts, searches>>

\* Mutant: a resumed diagnosis starts over.
LoadsTop(r) ==
    /\ Loads(r)
    /\ drafts' = [drafts EXCEPT ![r] = Draft([cases[runs[r].trace] EXCEPT !.stage = "prefetch"], FALSE)]
    /\ UNCHANGED <<streamVars, ragVars, cases, searches, shared, controlVars>>

\* A resumed diagnosis goes on from the checkpoint its run finds.
LoadsCase(r) ==
    /\ Loads(r)
    /\ drafts' = [drafts EXCEPT ![r] = Draft(cases[runs[r].trace], FALSE)]
    /\ UNCHANGED <<streamVars, ragVars, cases, searches, shared, controlVars>>

\* node_hitl_interrupt returns with the decision the run was resumed with.
TakesDecision(r) ==
    /\ InterruptReturns(r)
    /\ \E stage \in {"verify", "turned_down"} : CaseStep(r, [Case(r) EXCEPT !.stage = stage])
    /\ UNCHANGED <<ragVars, searches>>

\* node_sandbox_verify and the route after it.
Verifies(r) ==
    /\ \/ /\ Working(r, "turned_down") /\ SandboxDecides(r, "rejected")
          /\ CaseStep(r, [Case(r) EXCEPT !.stage = "execute"])
       \/ /\ Working(r, "verify") /\ GoesOn(r)
          /\ CaseStep(r, [Case(r) EXCEPT !.stage = "execute"])
       \/ /\ Working(r, "verify") /\ SandboxDecides(r, "blocked_by_sandbox")
          /\ CaseStep(r, [Case(r) EXCEPT !.stage = "review"])
    /\ UNCHANGED <<ragVars, searches>>

\* node_execute_and_observe
Executes(r) ==
    /\ Working(r, "execute")
    /\ CaseStep(r, [Case(r) EXCEPT !.stage = "review"])
    /\ \E status \in TerminalStatuses : Executed(r, status)
    /\ UNCHANGED <<ragVars, searches>>

\* Mutant: the review does not look at what became of the plan.
ReviewedAlways(r) == TRUE

\* What node_review reviews.
Reviewed(r) == runs[r].status \in TerminalStatuses

\* The upsert under a new ticket id; an error or no answer is absorbed.
UpsertsCase(r) ==
    \/ \E ticket \in ReviewTickets :
          /\ workload.corpus /\ ~Stored(ticket) /\ ~Indexed(ticket)
          /\ Upserts(ticket, runs[r].trace) \/ UpsertTears(ticket, runs[r].trace)
    \/ UNCHANGED ragVars

\* The model's case came out empty, so there is nothing to upsert.
WritesNoCase(r) == UNCHANGED ragVars

\* run_review
FilesCase(r) ==
    /\ Working(r, "review") /\ Reviewed(r) /\ ~drafts[r].filed
    /\ drafts' = [drafts EXCEPT ![r].filed = TRUE]
    /\ UpsertsCase(r) \/ WritesNoCase(r)
    /\ SearchesAge
    /\ UNCHANGED <<streamVars, intakeVars, cases, shared, controlVars>>

\* The node's checkpoint.
ReviewEnds(r) ==
    /\ Working(r, "review") /\ (drafts[r].filed \/ ~Reviewed(r))
    /\ CaseStep(r, [Case(r) EXCEPT !.stage = "end"])
    /\ GoesOn(r)
    /\ UNCHANGED <<ragVars, searches>>

EndsRun(r) ==
    /\ Working(r, "end")
    /\ RunEnds(r)
    /\ Forgets(r)
    /\ UNCHANGED controlVars

\* Crashes leave the checkpoint and lose what was in memory.
Crashes(r) ==
    /\ Spend("crash")
    /\ RunFails(r)
    /\ Forgets(r)

RestartsSupervisor ==
    /\ Spend("restart")
    /\ SupervisorRestarts
    /\ drafts' = [r \in Runs |-> NoDraft]
    /\ searches' = [r \in Runs |-> NoSearch]
    /\ UNCHANGED <<streamVars, ragVars, cases, shared>>

CaseNext(r) ==
    \/ Begins(r)
    \/ Searches(r)
    \/ Prefetches(r)
    \/ Dispatches(r)
    \/ Arbitrates(r)
    \/ PausesCase(r)
    \/ \E t \in Traces : ResumesCase(t, r)
    \/ LoadsCase(r)
    \/ TakesDecision(r)
    \/ Verifies(r)
    \/ Executes(r)
    \/ FilesCase(r)
    \/ ReviewEnds(r)
    \/ EndsRun(r)
    \/ Crashes(r)

----------------------------------------------------------------------------
(* Other callers of the RAG service, and its restarts *)

ClientTickets == Tickets \ ReviewTickets
ClientContents == Contents \ Traces

CorpusStep ==
    /\ \/ Spend("restart") /\ SearchesDie /\ (RagStarts \/ RagStartsAlone)
       \/ UNCHANGED controlVars /\ workload.corpus /\ HealthAsked /\ SearchesAge
       \/ /\ Spend("write")
          /\ \/ Seeds(SeedTickets)
             \/ \E ticket \in ClientTickets, c \in ClientContents :
                   Upserts(ticket, c) \/ UpsertTears(ticket, c)
          /\ SearchesAge
    /\ UNCHANGED <<streamVars, intakeVars, cases, drafts, shared>>

LoopNext ==
    \/ StreamStep
    \/ SinkTakesNext
    \/ \E incident \in Incidents : SinkTakesOther(incident)
    \/ DeliveryStep
    \/ \E r \in Runs : CaseNext(r)
    \/ RestartsSupervisor
    \/ CorpusStep

Spec == LoopInit /\ [][LoopNext]_vars

----------------------------------------------------------------------------
(* Properties *)

\* What the experience base holds of a diagnosis comes from a run that executed
\* its plan to the end, with success or a rollback; and unless several runs were
\* at work on the diagnosis at a time its checkpoint keeps saying so, whatever
\* crashes, restarts and resumptions it goes through (node_review's condition,
\* the statuses resume_diagnosis takes).
KnowledgeComesFromOutcomes ==
    \A ticket \in DOMAIN store : store[ticket] \in Traces =>
        LET t == store[ticket] IN
        /\ \E r \in RunsOf(t) : runs[r].status \in TerminalStatuses
        /\ t \notin shared => progress[t].status \in TerminalStatuses

\* A diagnosis on which no two runs were at work at a time is reviewed once: a
\* crash between the upsert and the checkpoint leaves it where the review would
\* run again, but with a status that no resumption accepts.  Runs side by side,
\* which main.py:232 lets in, each file a case under an id of their own.
OneTicketPerDiagnosis ==
    \A k, l \in DOMAIN store :
        k # l /\ store[k] = store[l] => store[k] \notin Traces \ shared

\* What a run is shown of a ticket is what the collection holds at that moment,
\* unless when it searched the ticket had been updated since the last rebuild or
\* a write of it had missed the index, or the ticket was written while the
\* language model chose; and what it is shown is still there
\* (retrieve, rerank_pipeline).
ShownIsCurrent ==
    [][\A r \in Runs :
          LET docs == Case(r)'.docs IN
          Working(r, "prefetch") /\ Case(r)'.stage = "dispatch" =>
              \A d \in Range(docs) :
                  /\ Stored(d.ticket)
                  /\ d.ticket \notin searches[r].stale => Current(d.ticket, d.content)]_vars

\* The vote outvotes no expert in favour of one that is nowhere better, by
\* way of caps, discounts, the lead and ties.
WinnerNotOutdone ==
    \A c \in Range(cases) \cup {Case(r) : r \in Runs} :
        c.decision # NoDecision => NotOutvoted(c.panel, c.decision)
====

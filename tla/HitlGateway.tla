---- MODULE HitlGateway ----
(***************************************************************************)
(* The HITL gateway (hitl-gateway/app/main.py): approvals kept in a dict   *)
(* of the process, decided by requests and expired by a scheduled scan.    *)
(*                                                                         *)
(* approve and reject are plain functions, which FastAPI runs in a thread  *)
(* pool, and the scan runs in APScheduler's thread; no lock protects the   *)
(* approvals.  A request therefore is a thread whose reads and writes of   *)
(* an approval are steps of their own.  create_approval runs on the event  *)
(* loop.  Calls to the supervisor are the last thing a request does.       *)
(*                                                                         *)
(* Left out: the WebSocket push and the notifications, on which no         *)
(* decision depends.                                                       *)
(***************************************************************************)
EXTENDS Integers, Sequences, FiniteSets

CONSTANTS Approvals,   \* approval ids; bounds how many are ever created
          Requests,    \* approve and reject requests; bounds how many arrive
          Humans,      \* the people who decide
          Unsent,      \* the content of a request that has not arrived
          MaxRestarts  \* bounds the restarts of the gateway

ASSUME FiniteAssumption == IsFiniteSet(Approvals) /\ IsFiniteSet(Requests)
ASSUME DistinctIdsAssumption == Humans \cap Requests = {}
ASSUME MaxRestartsAssumption == MaxRestarts \in Nat

VARIABLES
    approvals, \* _approvals: what the gateway holds under each id
    order,     \* the ids in the dict, in insertion order
    due,       \* approvals whose expires_at has passed
    pc,        \* request -> where its thread stands
    req,       \* request -> its content
    loaded,    \* request -> the current_approvals it read for its "+= 1"
    scan,      \* the expiry scan
    called,    \* requests that have called the supervisor's /resume
    fellBack,  \* approvals and requests for which /fallback was called
    contended, \* approvals that two threads ever worked on at a time (history)
    restarts   \* how often the gateway was restarted

threadVars == <<pc, req, loaded>>
callVars == <<called, fellBack>>
vars == <<approvals, order, due, pc, req, loaded, scan, called, fellBack, contended, restarts>>

----------------------------------------------------------------------------
Votes == {"approved", "rejected"}
Risks == {"medium", "high"}

\* A caller of the API sends the id of a person.  The approval panel sends a
\* new id with every click ('engineer-' + Date.now()); here that is the
\* request's own name.
UserIds == Humans \cup Requests

RequestContents ==
    [approval : Approvals, vote : Votes, human : Humans, user : UserIds]

\* "approvers" is the list of votes: here the requests that cast them.
ApprovalRecords ==
    [risk : Risks,
     status : {"none", "pending", "approved", "rejected", "expired", "gone"},
     approvers : SUBSET Requests,
     current_approvals : 0 .. Cardinality(Requests)]

Absent == [risk |-> "medium", status |-> "none", approvers |-> {}, current_approvals |-> 0]

required(risk) == IF risk = "medium" THEN 1 ELSE 2

\* The scan: its place in the dict (0: not running), the size of the dict and
\* the due approvals at its start, and whether it is expiring the approval at
\* its place or calling the fallback for it.
Idle == [at |-> 0, size |-> 0, due |-> {}, doing |-> "look"]

Over == {"unsent", "done", "dead"}
Points == Over \cup {"check", "duplicate", "append", "load", "store", "threshold",
                     "approve", "reject", "record", "call", "fallback"}
Live(p) == pc[p] \notin Over
WorkingOn(a) == {p \in Requests : Live(p) /\ req[p].approval = a}

TypeOK ==
    /\ approvals \in [Approvals -> ApprovalRecords]
    /\ order \in Seq(Approvals) /\ Len(order) <= Cardinality(Approvals)
    /\ due \subseteq Approvals
    /\ pc \in [Requests -> Points]
    /\ \A p \in Requests : req[p] \in RequestContents \/ pc[p] = "unsent"
    /\ loaded \in [Requests -> 0 .. Cardinality(Requests)]
    /\ scan \in [at : 0 .. Cardinality(Approvals) + 1, size : 0 .. Cardinality(Approvals),
                 due : SUBSET Approvals, doing : {"look", "expire", "fallback"}]
    /\ called \subseteq Requests
    /\ fellBack \subseteq Approvals \cup Requests
    /\ contended \subseteq Approvals
    /\ restarts \in 0 .. MaxRestarts

Init ==
    /\ approvals = [a \in Approvals |-> Absent]
    /\ order = <<>>
    /\ due = {}
    /\ pc = [p \in Requests |-> "unsent"]
    /\ req = [p \in Requests |-> Unsent]
    /\ loaded = [p \in Requests |-> 0]
    /\ scan = Idle
    /\ called = {}
    /\ fellBack = {}
    /\ contended = {}
    /\ restarts = 0

----------------------------------------------------------------------------
(* The event loop and the clock                                            *)

\* create_approval; a risk that is neither medium nor high is refused (400).
CreateApproval(a, risk) ==
    /\ approvals[a].status = "none"
    /\ approvals' = [approvals EXCEPT ![a] = [Absent EXCEPT !.risk = risk, !.status = "pending"]]
    /\ order' = Append(order, a)
    /\ UNCHANGED <<due, threadVars, scan, callVars, contended, restarts>>

\* The time limit of an approval passes; nothing reacts until the next scan.
TimePasses(a) ==
    /\ approvals[a].status = "pending"
    /\ due' = due \cup {a}
    /\ UNCHANGED <<approvals, order, threadVars, scan, callVars, contended, restarts>>

\* The process restarts: the approvals and the threads are gone.
GatewayRestarts ==
    /\ restarts < MaxRestarts
    /\ restarts' = restarts + 1
    /\ approvals' = [a \in Approvals |->
          IF approvals[a].status = "none" THEN approvals[a]
          ELSE [approvals[a] EXCEPT !.status = "gone"]]
    /\ order' = <<>>
    /\ pc' = [p \in Requests |-> IF Live(p) THEN "dead" ELSE pc[p]]
    /\ scan' = Idle
    /\ UNCHANGED <<due, req, loaded, callVars, contended>>

----------------------------------------------------------------------------
(* approve and reject, one thread per request                              *)

\* A thread goes on to its next point without touching anything else.
Goes(p, point) == pc' = [pc EXCEPT ![p] = point]

\* A request reaches the gateway and gets its thread.
Arrive(p, content) ==
    /\ pc[p] = "unsent"
    /\ content.user \in {content.human, p}
    /\ approvals[content.approval].status # "none"
    /\ req' = [req EXCEPT ![p] = content]
    /\ Goes(p, "check")
    /\ LET a == content.approval IN
       contended' = IF \/ WorkingOn(a) # {}
                       \/ scan.doing # "look" /\ order[scan.at] = a
                    THEN contended \cup {a} ELSE contended
    /\ UNCHANGED <<approvals, order, due, loaded, scan, callVars, restarts>>

\* Mutant: the 409 of a decided approval is missing.
CheckNothing(p) ==
    /\ pc[p] = "check"
    /\ Goes(p, IF req[p].vote = "approved" THEN "duplicate" ELSE "reject")
    /\ UNCHANGED <<approvals, order, due, req, loaded, scan, callVars, contended, restarts>>

\* The 404 of an approval that is gone and the 409 of a decided one.
CheckStatus(p) ==
    /\ pc[p] = "check"
    /\ Goes(p, IF approvals[req[p].approval].status # "pending" THEN "done"
               ELSE IF req[p].vote = "approved" THEN "duplicate" ELSE "reject")
    /\ UNCHANGED <<approvals, order, due, req, loaded, scan, callVars, contended, restarts>>

\* Mutant: a user may vote again.
voted_never(p) == FALSE

\* The loop over approvers.
voted(p) == \E q \in approvals[req[p].approval].approvers : req[q].user = req[p].user

\* The 409 of a user who has voted.
CheckDuplicate(p) ==
    /\ pc[p] = "duplicate"
    /\ Goes(p, IF voted(p) THEN "done" ELSE "append")
    /\ UNCHANGED <<approvals, order, due, req, loaded, scan, callVars, contended, restarts>>

AppendVote(p) ==
    /\ pc[p] = "append"
    /\ approvals' = [approvals EXCEPT ![req[p].approval].approvers = @ \cup {p}]
    /\ Goes(p, "load")
    /\ UNCHANGED <<order, due, req, loaded, scan, callVars, contended, restarts>>

\* current_approvals += 1 reads the field, then calls pydantic's __setattr__.
LoadCount(p) ==
    /\ pc[p] = "load"
    /\ loaded' = [loaded EXCEPT ![p] = approvals[req[p].approval].current_approvals]
    /\ Goes(p, "store")
    /\ UNCHANGED <<approvals, order, due, req, scan, callVars, contended, restarts>>

\* Mutant: a vote counts twice.
StoreCountTwice(p) ==
    /\ pc[p] = "store"
    /\ approvals' = [approvals EXCEPT ![req[p].approval].current_approvals = loaded[p] + 2]
    /\ Goes(p, "threshold")
    /\ UNCHANGED <<order, due, req, loaded, scan, callVars, contended, restarts>>

StoreCount(p) ==
    /\ pc[p] = "store"
    /\ approvals' = [approvals EXCEPT ![req[p].approval].current_approvals = loaded[p] + 1]
    /\ Goes(p, "threshold")
    /\ UNCHANGED <<order, due, req, loaded, scan, callVars, contended, restarts>>

\* Mutant: one vote too few is enough.
enough_but_one(a) == approvals[a].current_approvals + 1 >= required(approvals[a].risk)

enough(a) == approvals[a].current_approvals >= required(approvals[a].risk)

CheckThreshold(p) ==
    /\ pc[p] = "threshold"
    /\ Goes(p, IF enough(req[p].approval) THEN "approve" ELSE "done")
    /\ UNCHANGED <<approvals, order, due, req, loaded, scan, callVars, contended, restarts>>

\* The status is written; it is not read again.
SetStatus(p, point, status, next) ==
    /\ pc[p] = point
    /\ approvals' = [approvals EXCEPT ![req[p].approval].status = status]
    /\ Goes(p, next)
    /\ UNCHANGED <<order, due, req, loaded, scan, callVars, contended, restarts>>

SetApproved(p) == SetStatus(p, "approve", "approved", "call")
SetRejected(p) == SetStatus(p, "reject", "rejected", "record")

RecordRejection(p) ==
    /\ pc[p] = "record"
    /\ approvals' = [approvals EXCEPT ![req[p].approval].approvers = @ \cup {p}]
    /\ Goes(p, "call")
    /\ UNCHANGED <<order, due, req, loaded, scan, callVars, contended, restarts>>

\* The call to /resume is made.  When it raises, an approval is only logged,
\* a rejection goes to /fallback; an answer other than 2xx raises nothing.
CallResume(p) ==
    /\ pc[p] = "call"
    /\ called' = called \cup {p}
    /\ \/ Goes(p, "done")
       \/ req[p].vote = "rejected" /\ Goes(p, "fallback")
    /\ UNCHANGED <<approvals, order, due, req, loaded, scan, fellBack, contended, restarts>>

CallFallback(p) ==
    /\ pc[p] = "fallback"
    /\ fellBack' = fellBack \cup {p}
    /\ Goes(p, "done")
    /\ UNCHANGED <<approvals, order, due, req, loaded, scan, called, contended, restarts>>

RequestStep(p) ==
    \/ CheckStatus(p) \/ CheckDuplicate(p) \/ AppendVote(p)
    \/ LoadCount(p) \/ StoreCount(p) \/ CheckThreshold(p)
    \/ SetApproved(p) \/ SetRejected(p) \/ RecordRejection(p)
    \/ CallResume(p) \/ CallFallback(p)

----------------------------------------------------------------------------
(* _scan_expired, every 30 seconds                                         *)

ScanStarts ==
    /\ scan.at = 0
    /\ order # <<>>
    /\ scan' = [at |-> 1, size |-> Len(order), due |-> due, doing |-> "look"]
    /\ UNCHANGED <<approvals, order, due, threadVars, callVars, contended, restarts>>

\* The iteration goes on: it raises when the dict has grown, and ends after
\* the last entry.
ScanLooks ==
    /\ scan.at > 0
    /\ scan.doing = "look"
    /\ \/ /\ Len(order) # scan.size \/ scan.at > scan.size
          /\ scan' = Idle
          /\ UNCHANGED contended
       \/ /\ Len(order) = scan.size /\ scan.at <= scan.size
          /\ LET a == order[scan.at] IN
             IF approvals[a].status = "pending" /\ a \in scan.due
             THEN /\ scan' = [scan EXCEPT !.doing = "expire"]
                  /\ contended' = IF WorkingOn(a) = {} THEN contended ELSE contended \cup {a}
             ELSE /\ scan' = [scan EXCEPT !.at = @ + 1]
                  /\ UNCHANGED contended
    /\ UNCHANGED <<approvals, order, due, threadVars, callVars, restarts>>

\* Mutant: the approval is reported before it is marked, and never marked.
ScanForgetsStatus ==
    /\ scan.doing = "expire"
    /\ scan' = [scan EXCEPT !.doing = "fallback"]
    /\ UNCHANGED <<approvals, order, due, threadVars, callVars, contended, restarts>>

ScanExpires ==
    /\ scan.doing = "expire"
    /\ approvals' = [approvals EXCEPT ![order[scan.at]].status = "expired"]
    /\ scan' = [scan EXCEPT !.doing = "fallback"]
    /\ UNCHANGED <<order, due, threadVars, callVars, contended, restarts>>

\* The supervisor's /fallback is called; an exception is logged.
ScanCallsFallback ==
    /\ scan.doing = "fallback"
    /\ fellBack' = fellBack \cup {order[scan.at]}
    /\ scan' = [scan EXCEPT !.at = @ + 1, !.doing = "look"]
    /\ UNCHANGED <<approvals, order, due, threadVars, called, contended, restarts>>

ScanStep == ScanStarts \/ ScanLooks \/ ScanExpires \/ ScanCallsFallback

Next ==
    \/ \E a \in Approvals, risk \in Risks : CreateApproval(a, risk)
    \/ \E a \in Approvals : TimePasses(a)
    \/ \E p \in Requests, content \in RequestContents : Arrive(p, content)
    \/ \E p \in Requests : RequestStep(p)
    \/ ScanStep
    \/ GatewayRestarts

Spec == Init /\ [][Next]_vars

\* The thread pool runs every request, APScheduler runs the scan again and
\* again; nobody has to send a request.
FairSpec == Spec /\ WF_vars(ScanStep) /\ \A p \in Requests : WF_vars(RequestStep(p))

----------------------------------------------------------------------------
(* Properties                                                              *)

ApproveVotes(a) == {p \in approvals[a].approvers : req[p].vote = "approved"}

\* The supervisor is told that an approval was approved only when at least
\* required_approvers votes are recorded in it.  The unprotected "+= 1" may
\* lose votes in a race but never counts one that was not cast.
EnoughVotes ==
    \A p \in called :
        LET a == req[p].approval IN
        req[p].vote = "approved" => Cardinality(ApproveVotes(a)) >= required(approvals[a].risk)

\* As long as no two threads ever worked on an approval at a time, it is
\* decided as a sequential reading of the code says: by distinct user ids, all
\* counted, approved exactly when the count is reached, and reported to the
\* supervisor exactly once, with the status it keeps.
SequentialDecision ==
    \A a \in Approvals \ contended :
        LET A == approvals[a]
            users == {req[p].user : p \in ApproveVotes(a)}
            calls == {p \in called : req[p].approval = a}
        IN
        WorkingOn(a) = {} /\ A.status \notin {"none", "gone"} =>
            /\ A.current_approvals = Cardinality(users)
            /\ A.status = "approved" <=> A.current_approvals >= required(A.risk)
            /\ IF A.status \in Votes
               THEN \E p \in calls : calls = {p} /\ req[p].vote = A.status
               ELSE calls = {}

\* A decided or expired approval changes only when threads have worked on it
\* at the same time: no late vote and no late scan reopens it.
DecisionFinal ==
    [][\A a \in Approvals :
          approvals[a].status \in {"approved", "rejected", "expired"}
             => \/ approvals'[a].status \in {approvals[a].status, "gone"}
                \/ a \in contended]_vars

\* An approval whose time has passed does not stay pending, although a scan
\* that meets a new approval breaks off with an exception.
DueIsResolved ==
    \A a \in Approvals :
        a \in due /\ approvals[a].status = "pending" ~> approvals[a].status # "pending"

\* hitl-gateway/app/main.py:7: high risk requires 2 human approvals.
HighRiskNeedsTwoHumans ==
    \A a \in Approvals :
        approvals[a].risk = "high" /\ approvals[a].status = "approved"
            => Cardinality({req[p].human : p \in ApproveVotes(a)}) >= 2
====

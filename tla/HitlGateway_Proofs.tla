---- MODULE HitlGateway_Proofs ----
(***************************************************************************)
(* Proofs about HitlGateway, for any approvals, requests, people and       *)
(* restarts: its types, that no approval is reported without enough votes  *)
(* in it, and that an approval no two threads ever worked on at a time is  *)
(* decided as the code reads.                                              *)
(*                                                                         *)
(* The count is bounded by the votes whose "+= 1" is over (VotesCounted).  *)
(* The sequential reading is an invariant with an assertion for every      *)
(* point of the one thread at work (Midway).                               *)
(***************************************************************************)
EXTENDS HitlGateway, FiniteSetTheorems, TLAPS

Sent(p) == pc[p] # "unsent"
OnIt(p) == req[p].approval

Statuses == {"none", "pending", "approved", "rejected", "expired", "gone"}
Entries == [risk : Risks, status : Statuses, approvers : SUBSET Requests, current_approvals : Nat]

\* What the types say of the state, without the bounds of the counters.
Shape ==
    /\ approvals \in [Approvals -> Entries]
    /\ order \in Seq(Approvals)
    /\ due \subseteq Approvals
    /\ pc \in [Requests -> Points]
    /\ DOMAIN req = Requests /\ \A p \in Requests : Sent(p) => req[p] \in RequestContents
    /\ loaded \in [Requests -> Nat]
    /\ scan \in [at : Nat, size : Nat, due : SUBSET Approvals, doing : {"look", "expire", "fallback"}]
    /\ called \subseteq Requests
    /\ fellBack \subseteq Approvals \cup Requests
    /\ contended \subseteq Approvals
    /\ restarts \in 0 .. MaxRestarts

\* The dict holds every approval once, and the scan is inside of it.
OrderFits ==
    /\ \A i \in 1 .. Len(order) : approvals[order[i]].status # "none"
    /\ \A i, j \in 1 .. Len(order) : order[i] = order[j] => i = j
    /\ scan.at <= scan.size + 1 /\ scan.size <= Len(order)
    /\ scan.doing # "look" => scan.at >= 1 /\ scan.at <= scan.size

BeforeVote == {"unsent", "check", "duplicate", "append", "reject", "record"}

\* Where a thread stands agrees with the kind of its request and the votes.
ThreadFits(p) ==
    /\ Sent(p) => approvals[OnIt(p)].status # "none"
    /\ pc[p] \in {"duplicate", "append", "load", "store", "threshold", "approve"} => req[p].vote = "approved"
    /\ pc[p] \in {"reject", "record", "fallback"} => req[p].vote = "rejected"
    /\ pc[p] \in {"load", "store", "threshold", "approve"} => p \in approvals[OnIt(p)].approvers
    /\ p \in called => pc[p] \in {"fallback", "done", "dead"}

VotersFit(a) == \A p \in approvals[a].approvers : OnIt(p) = a /\ pc[p] \notin BeforeVote

\* The votes whose increment is stored.
Stored(a) == {p \in ApproveVotes(a) : pc[p] \notin {"load", "store"}}

\* A stale read loses increments and never adds one.
VotesCounted ==
    /\ \A a \in Approvals : approvals[a].current_approvals <= Cardinality(Stored(a))
    /\ \A p \in Requests : pc[p] = "store" => loaded[p] <= Cardinality(Stored(OnIt(p)))

\* The requests that passed the threshold.
Passed == {p \in Requests : Sent(p) /\ req[p].vote = "approved" /\ (pc[p] \in {"approve", "call"} \/ p \in called)}

PassedWithEnough ==
    \A p \in Passed : Cardinality(ApproveVotes(OnIt(p))) >= required(approvals[OnIt(p)].risk)

VoteInv ==
    /\ Shape
    /\ OrderFits
    /\ \A p \in Requests : ThreadFits(p)
    /\ \A a \in Approvals : VotersFit(a)
    /\ VotesCounted
    /\ PassedWithEnough

----------------------------------------------------------------------------
(* The sequential reading *)

Present(a) == approvals[a].status \notin {"none", "gone"}
CallsFor(a) == {p \in called : OnIt(p) = a}
ScanIsAt(a) == scan.doing # "look" /\ order[scan.at] = a

OneVoteEach(a) == \A p, q \in ApproveVotes(a) : req[p].user = req[q].user => p = q

Tally(a) == approvals[a].current_approvals = Cardinality(ApproveVotes(a))
Uncalled(a, status) == approvals[a].status = status /\ CallsFor(a) = {}

\* Between requests: counted, decided when the count says so, reported once.
Settled(a) ==
    /\ Tally(a)
    /\ approvals[a].status = "approved" <=> enough(a)
    /\ IF approvals[a].status \in Votes
       THEN \E p \in CallsFor(a) : CallsFor(a) = {p} /\ req[p].vote = approvals[a].status
       ELSE CallsFor(a) = {}

\* What holds of an approval while a thread is at work on it alone.
Midway(p, a) ==
    /\ pc[p] \in {"check", "duplicate", "append", "reject", "fallback"} => Settled(a)
    /\ pc[p] \in {"duplicate", "append", "reject"} => approvals[a].status = "pending"
    /\ pc[p] = "append" => ~voted(p)
    /\ pc[p] \in {"load", "store"} =>
          /\ Uncalled(a, "pending")
          /\ approvals[a].current_approvals + 1 = Cardinality(ApproveVotes(a))
    /\ pc[p] = "store" => loaded[p] = approvals[a].current_approvals
    /\ pc[p] = "threshold" => Tally(a) /\ Uncalled(a, "pending")
    /\ pc[p] = "approve" => Tally(a) /\ Uncalled(a, "pending") /\ enough(a)
    /\ pc[p] = "record" => Tally(a) /\ Uncalled(a, "rejected") /\ ~enough(a)
    /\ pc[p] = "call" =>
          /\ Tally(a) /\ Uncalled(a, req[p].vote)
          /\ req[p].vote = "approved" <=> enough(a)

Alone(a) ==
    /\ \A p, q \in WorkingOn(a) : p = q
    /\ ScanIsAt(a) => WorkingOn(a) = {}
    /\ ScanIsAt(a) /\ scan.doing = "expire" => approvals[a].status = "pending"
    /\ approvals[a].status = "gone" => \A p \in WorkingOn(a) : pc[p] = "check"
    /\ Present(a) => /\ OneVoteEach(a)
                     /\ WorkingOn(a) = {} => Settled(a)
                     /\ \A p \in WorkingOn(a) : Midway(p, a)

GatewayInv == VoteInv /\ \A a \in Approvals \ contended : Alone(a)

----------------------------------------------------------------------------
(* Types and the scan *)

LEMMA AbsentRecord ==
    /\ Absent.status = "none" /\ Absent.approvers = {} /\ Absent.current_approvals = 0
    /\ Absent.risk \in Risks
  BY DEF Absent, Risks

LEMMA EntryInDict ==
    ASSUME Shape, OrderFits, scan.doing # "look"
    PROVE  /\ scan.at \in 1 .. Len(order)
           /\ order[scan.at] \in Approvals
           /\ approvals[order[scan.at]].status # "none"
  BY DEF Shape, OrderFits

\* A request's thread works on an approval that exists.
LEMMA WorksOnApproval ==
    ASSUME Shape, NEW p \in Requests, Sent(p)
    PROVE  /\ OnIt(p) \in Approvals
           /\ req[p].vote \in Votes
           /\ approvals[OnIt(p)].approvers \subseteq Requests
           /\ approvals[OnIt(p)] \in Entries
           /\ approvals[OnIt(p)].current_approvals \in Nat
           /\ approvals[OnIt(p)].risk \in Risks
  BY DEF Shape, RequestContents, OnIt, Entries

LEMMA InitVoteInv == Init => VoteInv
<1> SUFFICES ASSUME Init PROVE VoteInv
  OBVIOUS
<1>1. Shape
  <2>1. approvals \in [Approvals -> Entries]
    BY DEF Init, Absent, Risks, Entries, Statuses
  <2>2. pc \in [Requests -> Points] /\ DOMAIN req = Requests /\ loaded \in [Requests -> Nat]
    BY DEF Init, Points, Over
  <2>3. \A p \in Requests : ~Sent(p)
    BY DEF Init, Sent
  <2>4. order \in Seq(Approvals) /\ Len(order) = 0
    BY DEF Init
  <2>5. scan \in [at : Nat, size : Nat, due : SUBSET Approvals, doing : {"look", "expire", "fallback"}]
    BY DEF Init, Idle
  <2> QED
    BY <2>1, <2>2, <2>3, <2>4, <2>5, MaxRestartsAssumption DEF Init, Shape
<1>2. OrderFits
  <2>1. Len(order) = 0 /\ scan.at = 0 /\ scan.size = 0 /\ scan.doing = "look"
    BY DEF Init, Idle
  <2> QED
    BY <2>1 DEF OrderFits
<1>3. \A p \in Requests : ThreadFits(p) /\ pc[p] = "unsent"
  BY DEF Init, ThreadFits, Sent
<1>4. \A a \in Approvals : approvals[a].approvers = {} /\ approvals[a].current_approvals = 0
  BY AbsentRecord DEF Init
<1>5. VotesCounted
  <2>1. \A a \in Approvals : Stored(a) = {}
    BY <1>4 DEF Stored, ApproveVotes
  <2> QED
    BY <1>3, <1>4, <2>1, FS_EmptySet DEF VotesCounted
<1> QED
  BY <1>1, <1>2, <1>3, <1>4, <1>5 DEF VoteInv, VotersFit, PassedWithEnough, Passed, Sent

\* What a step of a request leaves alone.
LEMMA RequestFrame ==
    ASSUME Shape, NEW p \in Requests, RequestStep(p)
    PROVE  /\ UNCHANGED <<order, due, req, scan, contended, restarts>>
           /\ pc[p] \in Points \ Over
           /\ pc'[p] \in Points \ {"unsent"}
           /\ pc' \in [Requests -> Points]
           /\ \A q \in Requests \ {p} : pc'[q] = pc[q] /\ loaded'[q] = loaded[q]
           /\ loaded' \in [Requests -> Nat]
           /\ called' \in {called, called \cup {p}} /\ fellBack' \in {fellBack, fellBack \cup {p}}
           /\ DOMAIN approvals' = Approvals
           /\ \A a \in Approvals : a # OnIt(p) => approvals'[a] = approvals[a]
<1> USE DEF Goes, OnIt
<1>0. pc \in [Requests -> Points] /\ loaded \in [Requests -> Nat] /\ DOMAIN approvals = Approvals
  BY DEF Shape
<1>p. /\ {"check", "duplicate", "append", "load", "store", "threshold", "approve", "reject", "record",
          "call", "fallback"} = Points \ Over
      /\ Points \ Over \subseteq Points \ {"unsent"} /\ "done" \in Points \ {"unsent"}
  BY DEF Points, Over
<1>1. CASE CheckStatus(p)
  BY <1>0, <1>1, <1>p DEF CheckStatus, threadVars, callVars
<1>2. CASE CheckDuplicate(p)
  BY <1>0, <1>2, <1>p DEF CheckDuplicate, threadVars, callVars
<1>3. CASE AppendVote(p)
  BY <1>0, <1>3, <1>p DEF AppendVote, threadVars, callVars
<1>4. CASE LoadCount(p)
  BY <1>0, <1>4, <1>p, WorksOnApproval DEF LoadCount, Sent, threadVars, callVars
<1>5. CASE StoreCount(p)
  BY <1>0, <1>5, <1>p DEF StoreCount, threadVars, callVars
<1>6. CASE CheckThreshold(p)
  BY <1>0, <1>6, <1>p DEF CheckThreshold, threadVars, callVars
<1>7. CASE SetApproved(p)
  BY <1>0, <1>7, <1>p DEF SetApproved, SetStatus, threadVars, callVars
<1>8. CASE SetRejected(p)
  BY <1>0, <1>8, <1>p DEF SetRejected, SetStatus, threadVars, callVars
<1>9. CASE RecordRejection(p)
  BY <1>0, <1>9, <1>p DEF RecordRejection, threadVars, callVars
<1>10. CASE CallResume(p)
  BY <1>0, <1>10, <1>p DEF CallResume, threadVars, callVars
<1>11. CASE CallFallback(p)
  BY <1>0, <1>11, <1>p DEF CallFallback, threadVars, callVars
<1> QED
  BY <1>1, <1>2, <1>3, <1>4, <1>5, <1>6, <1>7, <1>8, <1>9, <1>10, <1>11 DEF RequestStep

\* What a step of a request does to its approval.
LEMMA RequestWrites ==
    ASSUME Shape, NEW p \in Requests, RequestStep(p)
    PROVE  \/ approvals' = approvals /\ ~AppendVote(p) /\ ~StoreCount(p)
           \/ /\ AppendVote(p) \/ RecordRejection(p)
              /\ approvals' = [approvals EXCEPT ![OnIt(p)].approvers = @ \cup {p}]
           \/ /\ StoreCount(p)
              /\ approvals' = [approvals EXCEPT ![OnIt(p)].current_approvals = loaded[p] + 1]
           \/ /\ SetApproved(p)
              /\ approvals' = [approvals EXCEPT ![OnIt(p)].status = "approved"]
           \/ /\ SetRejected(p)
              /\ approvals' = [approvals EXCEPT ![OnIt(p)].status = "rejected"]
<1> USE DEF OnIt
<1>1. CASE AppendVote(p)
  BY <1>1 DEF AppendVote
<1>2. CASE RecordRejection(p)
  BY <1>2 DEF RecordRejection
<1>3. CASE StoreCount(p)
  BY <1>3 DEF StoreCount
<1>4. CASE SetApproved(p) \/ SetRejected(p)
  BY <1>4 DEF SetApproved, SetRejected, SetStatus
<1>5. CASE CheckStatus(p) \/ CheckDuplicate(p) \/ LoadCount(p) \/ CheckThreshold(p) \/ CallResume(p) \/ CallFallback(p)
  <2>1. approvals' = approvals /\ pc[p] \notin {"append", "store"}
    BY <1>5 DEF CheckStatus, CheckDuplicate, LoadCount, CheckThreshold, CallResume, CallFallback
  <2> QED
    BY <2>1 DEF AppendVote, StoreCount
<1> QED
  BY <1>1, <1>2, <1>3, <1>4, <1>5 DEF RequestStep

\* An approval after a write keeps its type and its risk.
LEMMA RequestApprovals ==
    ASSUME Shape, NEW p \in Requests, RequestStep(p)
    PROVE  /\ approvals' \in [Approvals -> Entries]
           /\ \A a \in Approvals : /\ approvals'[a].risk = approvals[a].risk
                                   /\ approvals[a].approvers \subseteq approvals'[a].approvers
                                   /\ approvals'[a].approvers \subseteq approvals[a].approvers \cup {p}
                                   /\ approvals'[a].status # "none" \/ approvals[a].status = "none"
<1> DEFINE a == OnIt(p)
           A == approvals[a]
<1>1. a \in Approvals /\ A \in Entries
  <2>1. Sent(p)
    BY RequestFrame DEF Sent, Over
  <2> QED
    BY <2>1, WorksOnApproval
<1>2. loaded[p] + 1 \in Nat /\ approvals \in [Approvals -> Entries]
  BY DEF Shape
<1> DEFINE Written == {A, [A EXCEPT !.approvers = A.approvers \cup {p}],
                       [A EXCEPT !.current_approvals = loaded[p] + 1],
                       [A EXCEPT !.status = "approved"], [A EXCEPT !.status = "rejected"]}
<1>3. \E B \in Written : approvals' = [approvals EXCEPT ![a] = B]
  <2>1. approvals = [approvals EXCEPT ![a] = A]
    BY <1>2
  <2> QED
    BY <2>1, RequestWrites, Zenon
<1>4. \A B \in Written : /\ B \in Entries /\ B.risk = A.risk
                         /\ A.approvers \subseteq B.approvers /\ B.approvers \subseteq A.approvers \cup {p}
                         /\ B.status # "none" \/ A.status = "none"
  BY <1>1, <1>2 DEF Entries, Statuses
<1> HIDE DEF a, Written
<1>5. PICK B \in Written : approvals' = [approvals EXCEPT ![a] = B]
  BY <1>3
<1> HIDE DEF A
<1>7. \A b \in Approvals : approvals'[b] = IF b = a THEN B ELSE approvals[b]
  BY <1>2, <1>5
<1>8. DOMAIN approvals' = Approvals
  BY <1>2, <1>5
<1>9. approvals' \in [Approvals -> Entries]
  BY <1>1, <1>2, <1>4, <1>5
<1> QED
  BY <1>4, <1>7, <1>9 DEF A

LEMMA RequestShape ==
    ASSUME Shape, OrderFits, NEW p \in Requests, RequestStep(p)
    PROVE  Shape' /\ OrderFits'
<1>1. \A q \in Requests : Sent(q)' => Sent(q)
  BY RequestFrame DEF Sent, Over
<1>2. Shape'
  <2>0. called' \in {called, called \cup {p}} /\ fellBack' \in {fellBack, fellBack \cup {p}}
    BY RequestFrame
  <2>1. called' \subseteq Requests /\ fellBack' \subseteq Approvals \cup Requests
    BY <2>0 DEF Shape
  <2>2. /\ order' \in Seq(Approvals) /\ due' \subseteq Approvals /\ DOMAIN req' = Requests
        /\ scan' \in [at : Nat, size : Nat, due : SUBSET Approvals, doing : {"look", "expire", "fallback"}]
        /\ contended' \subseteq Approvals /\ restarts' \in 0 .. MaxRestarts
        /\ \A q \in Requests : Sent(q)' => req'[q] \in RequestContents
    BY <1>1, RequestFrame, Zenon DEF Shape
  <2> QED
    BY <2>1, <2>2, RequestFrame, RequestApprovals, Zenon DEF Shape
<1>3. OrderFits'
  <2>1. UNCHANGED <<order, scan>>
    BY RequestFrame
  <2>2. \A i \in 1 .. Len(order) : order[i] \in Approvals
    BY DEF Shape
  <2> QED
    BY <2>1, <2>2, RequestApprovals DEF OrderFits
<1> QED
  BY <1>2, <1>3

----------------------------------------------------------------------------
(* Votes *)

LEMMA RequestSets ==
    ASSUME NEW S \in SUBSET Requests, NEW T \in SUBSET Requests, S \subseteq T
    PROVE  /\ IsFiniteSet(S) /\ IsFiniteSet(T)
           /\ Cardinality(S) \in Nat /\ Cardinality(T) \in Nat
           /\ Cardinality(S) <= Cardinality(T)
           /\ Cardinality(T) <= Cardinality(Requests)
<1>1. IsFiniteSet(S) /\ IsFiniteSet(T) /\ Cardinality(T) <= Cardinality(Requests)
  BY FiniteAssumption, FS_Subset
<1>2. Cardinality(S) <= Cardinality(T)
  BY <1>1, FS_Subset
<1> QED
  BY <1>1, <1>2, FS_CardinalityType

\* Where a thread comes from and goes to.
LEMMA RequestFlow ==
    ASSUME Shape, NEW p \in Requests, RequestStep(p)
    PROVE  \/ /\ CheckStatus(p) /\ pc[p] = "check"
              /\ \/ pc'[p] = "done"
                 \/ pc'[p] = "duplicate" /\ req[p].vote = "approved"
                 \/ pc'[p] = "reject" /\ req[p].vote = "rejected"
           \/ CheckDuplicate(p) /\ pc[p] = "duplicate" /\ pc'[p] \in {"done", "append"}
           \/ AppendVote(p) /\ pc[p] = "append" /\ pc'[p] = "load"
           \/ LoadCount(p) /\ pc[p] = "load" /\ pc'[p] = "store"
           \/ StoreCount(p) /\ pc[p] = "store" /\ pc'[p] = "threshold"
           \/ /\ CheckThreshold(p) /\ pc[p] = "threshold"
              /\ \/ pc'[p] = "approve" /\ enough(OnIt(p))
                 \/ pc'[p] = "done" /\ ~enough(OnIt(p))
           \/ SetApproved(p) /\ pc[p] = "approve" /\ pc'[p] = "call"
           \/ SetRejected(p) /\ pc[p] = "reject" /\ pc'[p] = "record"
           \/ RecordRejection(p) /\ pc[p] = "record" /\ pc'[p] = "call"
           \/ /\ CallResume(p) /\ pc[p] = "call"
              /\ \/ pc'[p] = "done"
                 \/ pc'[p] = "fallback" /\ req[p].vote = "rejected"
           \/ CallFallback(p) /\ pc[p] = "fallback" /\ pc'[p] = "done"
<1>0. pc \in [Requests -> Points] /\ (Sent(p) => req[p].vote \in {"approved", "rejected"})
  BY WorksOnApproval DEF Shape, Votes
<1> USE DEF Goes, OnIt
<1>1. CASE CheckStatus(p)
  <2>1. pc'[p] = IF approvals[req[p].approval].status # "pending" THEN "done"
                 ELSE IF req[p].vote = "approved" THEN "duplicate" ELSE "reject"
    BY <1>0, <1>1 DEF CheckStatus
  <2>2. pc[p] = "check" /\ Sent(p)
    BY <1>1 DEF CheckStatus, Sent
  <2> QED
    BY <1>0, <1>1, <2>1, <2>2
<1>2. CASE CheckDuplicate(p)
  BY <1>0, <1>2 DEF CheckDuplicate
<1>3. CASE AppendVote(p)
  BY <1>0, <1>3 DEF AppendVote
<1>4. CASE LoadCount(p)
  BY <1>0, <1>4 DEF LoadCount
<1>5. CASE StoreCount(p)
  BY <1>0, <1>5 DEF StoreCount
<1>6. CASE CheckThreshold(p)
  <2>1. pc'[p] = IF enough(req[p].approval) THEN "approve" ELSE "done"
    BY <1>0, <1>6 DEF CheckThreshold
  <2> QED
    BY <1>0, <1>6, <2>1, Zenon DEF CheckThreshold
<1>7. CASE SetApproved(p)
  BY <1>0, <1>7 DEF SetApproved, SetStatus
<1>8. CASE SetRejected(p)
  BY <1>0, <1>8 DEF SetRejected, SetStatus
<1>9. CASE RecordRejection(p)
  BY <1>0, <1>9 DEF RecordRejection
<1>10. CASE CallResume(p)
  BY <1>0, <1>10 DEF CallResume
<1>11. CASE CallFallback(p)
  BY <1>0, <1>11 DEF CallFallback
<1> QED
  BY <1>1, <1>2, <1>3, <1>4, <1>5, <1>6, <1>7, <1>8, <1>9, <1>10, <1>11 DEF RequestStep

\* Only CallResume calls, and only votes and rejections enter the list.
LEMMA RequestEffects ==
    ASSUME Shape, NEW p \in Requests, RequestStep(p)
    PROVE  /\ called' = IF pc[p] = "call" THEN called \cup {p} ELSE called
           /\ approvals' = approvals \/ pc[p] \in {"append", "store", "approve", "reject", "record"}
           /\ pc[p] \in {"append", "record"} =>
                  approvals' = [approvals EXCEPT ![OnIt(p)].approvers = @ \cup {p}]
           /\ pc[p] = "store" =>
                  approvals' = [approvals EXCEPT ![OnIt(p)].current_approvals = loaded[p] + 1]
           /\ pc[p] = "approve" => approvals' = [approvals EXCEPT ![OnIt(p)].status = "approved"]
           /\ pc[p] = "reject" => approvals' = [approvals EXCEPT ![OnIt(p)].status = "rejected"]
           /\ pc[p] = "load" => loaded' = [loaded EXCEPT ![p] = approvals[OnIt(p)].current_approvals]
           /\ pc[p] # "load" => loaded' = loaded
           /\ pc[p] = "duplicate" => pc'[p] = IF voted(p) THEN "done" ELSE "append"
           /\ pc[p] = "check" /\ pc'[p] # "done" => approvals[OnIt(p)].status = "pending"
<1>0. pc \in [Requests -> Points] /\ loaded \in [Requests -> Nat]
  BY DEF Shape
<1> USE DEF Goes, OnIt
<1>1. CASE CheckStatus(p)
  BY <1>0, <1>1 DEF CheckStatus, callVars
<1>2. CASE CheckDuplicate(p)
  <2>1. pc'[p] = IF voted(p) THEN "done" ELSE "append"
    BY <1>0, <1>2 DEF CheckDuplicate
  <2>2. pc[p] = "duplicate" /\ approvals' = approvals /\ called' = called /\ loaded' = loaded
    BY <1>2 DEF CheckDuplicate, callVars
  <2> QED
    BY <2>1, <2>2
<1>3. CASE AppendVote(p)
  BY <1>0, <1>3 DEF AppendVote, callVars
<1>4. CASE LoadCount(p)
  BY <1>0, <1>4 DEF LoadCount, callVars
<1>5. CASE StoreCount(p)
  BY <1>0, <1>5 DEF StoreCount, callVars
<1>6. CASE CheckThreshold(p)
  BY <1>0, <1>6 DEF CheckThreshold, callVars
<1>7. CASE SetApproved(p)
  BY <1>0, <1>7 DEF SetApproved, SetStatus, callVars
<1>8. CASE SetRejected(p)
  BY <1>0, <1>8 DEF SetRejected, SetStatus, callVars
<1>9. CASE RecordRejection(p)
  BY <1>0, <1>9 DEF RecordRejection, callVars
<1>10. CASE CallResume(p)
  BY <1>0, <1>10 DEF CallResume
<1>11. CASE CallFallback(p)
  BY <1>0, <1>11 DEF CallFallback
<1> QED
  BY <1>1, <1>2, <1>3, <1>4, <1>5, <1>6, <1>7, <1>8, <1>9, <1>10, <1>11 DEF RequestStep

\* The approval of a request, field by field, after a step of the request.
LEMMA RequestFields ==
    ASSUME Shape, NEW p \in Requests, RequestStep(p)
    PROVE  /\ approvals'[OnIt(p)].approvers = IF pc[p] \in {"append", "record"}
                  THEN approvals[OnIt(p)].approvers \cup {p} ELSE approvals[OnIt(p)].approvers
           /\ approvals'[OnIt(p)].current_approvals = IF pc[p] = "store"
                  THEN loaded[p] + 1 ELSE approvals[OnIt(p)].current_approvals
           /\ approvals'[OnIt(p)].status = IF pc[p] = "approve" THEN "approved"
                  ELSE IF pc[p] = "reject" THEN "rejected" ELSE approvals[OnIt(p)].status
           /\ approvals'[OnIt(p)].risk = approvals[OnIt(p)].risk
<1> DEFINE a == OnIt(p)
<1>1. a \in Approvals /\ Sent(p)
  BY RequestFrame, WorksOnApproval DEF Sent, Over
<1>2. approvals \in [Approvals -> Entries]
  BY DEF Shape
<1> HIDE DEF a
<1>3. CASE approvals' = approvals /\ pc[p] \notin {"append", "store", "approve", "reject", "record"}
  BY <1>3 DEF a
<1>4. CASE pc[p] \in {"append", "record"}
  <2>1. approvals' = [approvals EXCEPT ![a].approvers = @ \cup {p}]
    BY <1>4, RequestEffects DEF a
  <2>2. approvals'[a] = [approvals[a] EXCEPT !.approvers = approvals[a].approvers \cup {p}]
    BY <1>1, <1>2, <2>1
  <2> QED
    BY <1>1, <1>2, <1>4, <2>2 DEF a, Entries
<1>5. CASE pc[p] = "store"
  <2>1. approvals' = [approvals EXCEPT ![a].current_approvals = loaded[p] + 1]
    BY <1>5, RequestEffects DEF a
  <2>2. approvals'[a] = [approvals[a] EXCEPT !.current_approvals = loaded[p] + 1]
    BY <1>1, <1>2, <2>1
  <2> QED
    BY <1>1, <1>2, <1>5, <2>2 DEF a, Entries
<1>6. CASE pc[p] = "approve"
  <2>1. approvals' = [approvals EXCEPT ![a].status = "approved"]
    BY <1>6, RequestEffects DEF a
  <2>2. approvals'[a] = [approvals[a] EXCEPT !.status = "approved"]
    BY <1>1, <1>2, <2>1
  <2> QED
    BY <1>1, <1>2, <1>6, <2>2 DEF a, Entries
<1>7. CASE pc[p] = "reject"
  <2>1. approvals' = [approvals EXCEPT ![a].status = "rejected"]
    BY <1>7, RequestEffects DEF a
  <2>2. approvals'[a] = [approvals[a] EXCEPT !.status = "rejected"]
    BY <1>1, <1>2, <2>1
  <2> QED
    BY <1>1, <1>2, <1>7, <2>2 DEF a, Entries
<1>8. approvals' = approvals \/ pc[p] \in {"append", "store", "approve", "reject", "record"}
  BY RequestEffects
<1> QED
  BY <1>3, <1>4, <1>5, <1>6, <1>7, <1>8

\* A step of a request, for the invariants about votes.
LEMMA RequestThreads ==
    ASSUME VoteInv, NEW p \in Requests, RequestStep(p)
    PROVE  /\ \A q \in Requests : ThreadFits(q)'
           /\ \A a \in Approvals : VotersFit(a)'
<1>1. Shape /\ UNCHANGED req
  BY RequestFrame DEF VoteInv
<1>2. \A a \in Approvals : approvals[a].approvers \subseteq approvals'[a].approvers
                           /\ approvals'[a].approvers \subseteq approvals[a].approvers \cup {p}
  BY <1>1, RequestApprovals
<1>3. OnIt(p) \in Approvals
  BY <1>1, RequestFrame, WorksOnApproval DEF Sent, Over
<1>4. \A q \in Requests \ {p} : pc'[q] = pc[q] /\ (q \in called' <=> q \in called)
  BY <1>1, RequestFrame, RequestEffects
<1>5. ASSUME NEW q \in Requests \ {p} PROVE ThreadFits(q)'
  <2>1. pc[q] \in {"load", "store", "threshold", "approve"} =>
           OnIt(q) \in Approvals /\ q \in approvals[OnIt(q)].approvers
    BY <1>1, WorksOnApproval DEF VoteInv, ThreadFits, Sent
  <2>2. Sent(q)' => approvals'[OnIt(q)].status # "none"
    BY <1>1, <1>4, RequestApprovals, WorksOnApproval DEF VoteInv, ThreadFits, Sent
  <2> QED
    BY <1>1, <1>2, <1>4, <2>1, <2>2 DEF VoteInv, ThreadFits, OnIt
<1>6. ThreadFits(p)'
  <2>1. ThreadFits(p)
    BY DEF VoteInv
  <2>2. pc[p] = "append" => p \in approvals'[OnIt(p)].approvers
    BY <1>1, <1>3, RequestEffects DEF Shape, Entries
  <2>3. pc[p] # "call" => called' = called
    BY <1>1, RequestEffects
  <2>4. approvals'[OnIt(p)].status # "none"
    <3>1. Sent(p)
      BY <1>1, RequestFrame DEF Sent, Over
    <3> QED
      BY <1>1, <1>3, <2>1, <3>1, RequestApprovals DEF ThreadFits
  <2> QED
    BY <1>1, <1>2, <1>3, <2>1, <2>2, <2>3, <2>4, RequestFlow DEF ThreadFits, OnIt
<1>7. ASSUME NEW a \in Approvals PROVE VotersFit(a)'
  <2> SUFFICES ASSUME NEW q \in approvals'[a].approvers PROVE OnIt(q)' = a /\ pc'[q] \notin BeforeVote
    BY DEF VotersFit
  <2>1. q \in Requests
    BY <1>1, RequestApprovals DEF Entries
  <2>2. VotersFit(a)
    BY DEF VoteInv
  <2>3. CASE q # p
    BY <1>1, <1>2, <1>4, <2>1, <2>2, <2>3 DEF VotersFit, OnIt
  <2>4. CASE q = p /\ p \in approvals[a].approvers
    BY <1>1, <2>2, <2>4, RequestFlow DEF VotersFit, OnIt, BeforeVote
  <2>5. CASE q = p /\ p \notin approvals[a].approvers
    <3>1. a = OnIt(p) /\ pc[p] \in {"append", "record"}
      <4>1. approvals'[a] # approvals[a]
        BY <2>5
      <4>2. a = OnIt(p)
        BY <1>1, <4>1, RequestFrame
      <4>3. pc[p] \in {"append", "store", "approve", "reject", "record"}
        BY <1>1, <4>1, RequestEffects
      <4>4. pc[p] \in {"store", "approve", "reject"} => approvals'[a].approvers = approvals[a].approvers
        BY <1>1, <4>2, RequestFields
      <4> QED
        BY <2>5, <4>2, <4>3, <4>4
    <3> QED
      BY <1>1, <2>5, <3>1, RequestFlow DEF OnIt, BeforeVote
  <2> QED
    BY <2>3, <2>4, <2>5
<1> QED
  BY <1>5, <1>6, <1>7

\* Votes only come, and an increment that is stored stays so.
LEMMA RequestVotesGrow ==
    ASSUME VoteInv, NEW p \in Requests, RequestStep(p), NEW a \in Approvals
    PROVE  /\ ApproveVotes(a) \subseteq ApproveVotes(a)' /\ Stored(a) \subseteq Stored(a)'
           /\ ApproveVotes(a)' \in SUBSET Requests /\ Stored(a)' \in SUBSET ApproveVotes(a)'
           /\ ApproveVotes(a) \in SUBSET Requests /\ Stored(a) \in SUBSET ApproveVotes(a)
           /\ IF pc[p] = "append" /\ OnIt(p) = a
              THEN ApproveVotes(a)' = ApproveVotes(a) \cup {p} /\ p \notin ApproveVotes(a)
              ELSE ApproveVotes(a)' = ApproveVotes(a)
           /\ pc[p] = "store" /\ OnIt(p) = a => Stored(a)' = Stored(a) \cup {p} /\ p \notin Stored(a)
<1>1. Shape /\ UNCHANGED req
  BY RequestFrame DEF VoteInv
<1>2. /\ approvals[a].approvers \subseteq approvals'[a].approvers
      /\ approvals'[a].approvers \subseteq approvals[a].approvers \cup {p}
      /\ approvals'[a].approvers \subseteq Requests
  BY <1>1, RequestApprovals DEF Entries
<1>3. \A q \in Requests \ {p} : pc'[q] = pc[q]
  BY <1>1, RequestFrame
<1>4. p \in ApproveVotes(a) => OnIt(p) = a /\ pc[p] \notin BeforeVote
  BY DEF VoteInv, VotersFit, ApproveVotes
<1>5. pc'[p] = "load" => pc[p] = "append"
  BY <1>1, RequestFlow
<1>6. pc'[p] = "store" => pc[p] = "load"
  BY <1>1, RequestFlow
<1>7. pc[p] = "store" => pc'[p] = "threshold"
  BY <1>1, RequestFlow
<1>8. CASE ~(pc[p] = "append" /\ OnIt(p) = a)
  <2>1. p \in ApproveVotes(a)' => p \in ApproveVotes(a)
    <3> SUFFICES ASSUME p \in ApproveVotes(a)', p \notin approvals[a].approvers PROVE FALSE
      BY <1>1 DEF ApproveVotes
    <3>1. a = OnIt(p)
      BY <1>1, RequestFrame DEF ApproveVotes
    <3>2. pc[p] \in {"store", "approve", "reject"} => approvals'[a].approvers = approvals[a].approvers
      BY <1>1, <3>1, RequestFields
    <3>3. pc[p] # "record"
      BY <1>1 DEF ApproveVotes, VoteInv, ThreadFits
    <3>4. approvals' = approvals \/ pc[p] \in {"append", "store", "approve", "reject", "record"}
      BY <1>1, RequestEffects
    <3> QED
      BY <1>8, <3>1, <3>2, <3>3, <3>4 DEF ApproveVotes
  <2>2. ApproveVotes(a)' = ApproveVotes(a)
    BY <1>1, <1>2, <2>1 DEF ApproveVotes
  <2> QED
    BY <1>1, <1>2, <1>3, <1>4, <1>5, <1>6, <1>7, <1>8, <2>2 DEF Stored, ApproveVotes, BeforeVote, VoteInv, ThreadFits
<1>9. CASE pc[p] = "append" /\ OnIt(p) = a
  <2>1. approvals'[a].approvers = approvals[a].approvers \cup {p} /\ req[p].vote = "approved"
    BY <1>1, <1>9, RequestEffects DEF Shape, Entries, VoteInv, ThreadFits
  <2>2. p \notin ApproveVotes(a)
    BY <1>4, <1>9 DEF BeforeVote
  <2>3. ApproveVotes(a)' = ApproveVotes(a) \cup {p}
    BY <1>1, <2>1 DEF ApproveVotes
  <2> QED
    BY <1>1, <1>2, <1>3, <1>9, <2>2, <2>3 DEF Stored, ApproveVotes
<1> QED
  BY <1>8, <1>9

LEMMA RequestCounts ==
    ASSUME VoteInv, NEW p \in Requests, RequestStep(p)
    PROVE  VotesCounted'
<1>1. Shape /\ UNCHANGED req /\ Sent(p)
  BY RequestFrame DEF VoteInv, Sent, Over
<1>2. OnIt(p) \in Approvals
  BY <1>1, WorksOnApproval
<1>3. ASSUME NEW a \in Approvals
      PROVE  /\ Cardinality(Stored(a)) \in Nat /\ Cardinality(Stored(a)') \in Nat
             /\ Cardinality(Stored(a)) <= Cardinality(Stored(a)')
             /\ approvals[a].current_approvals \in Nat
             /\ approvals[a].current_approvals <= Cardinality(Stored(a))
  <2>1. Stored(a) \subseteq Stored(a)' /\ Stored(a)' \in SUBSET Requests /\ Stored(a) \in SUBSET Requests
    BY RequestVotesGrow
  <2>2. approvals[a].current_approvals \in Nat
    BY <1>1 DEF Shape, Entries
  <2> QED
    BY <2>1, <2>2, RequestSets DEF VoteInv, VotesCounted
<1>4. \A q \in Requests : pc[q] = "store" => loaded[q] \in Nat /\ loaded[q] <= Cardinality(Stored(OnIt(q)))
  BY <1>1 DEF VoteInv, VotesCounted, Shape
<1>5. ASSUME NEW a \in Approvals PROVE approvals'[a].current_approvals <= Cardinality(Stored(a)')
  <2>1. CASE a # OnIt(p) \/ pc[p] # "store"
    <3>1. approvals'[a].current_approvals = approvals[a].current_approvals
      <4>1. CASE a = OnIt(p)
        BY <1>1, <2>1, <4>1, RequestFields
      <4>2. CASE a # OnIt(p)
        BY <1>1, <4>2, RequestFrame
      <4> QED
        BY <4>1, <4>2
    <3> QED
      BY <1>3, <3>1
  <2>2. CASE a = OnIt(p) /\ pc[p] = "store"
    <3>1. approvals'[a].current_approvals = loaded[p] + 1
      BY <1>1, <2>2, RequestFields
    <3>2. Stored(a)' = Stored(a) \cup {p} /\ p \notin Stored(a) /\ Stored(a) \in SUBSET Requests
      BY <2>2, RequestVotesGrow
    <3>3. Cardinality(Stored(a)') = Cardinality(Stored(a)) + 1
      <4>1. IsFiniteSet(Stored(a))
        BY <3>2, RequestSets
      <4> QED
        BY <3>2, <4>1, FS_AddElement
    <3> QED
      BY <1>3, <1>4, <2>2, <3>1, <3>3
  <2> QED
    BY <2>1, <2>2
<1>6. ASSUME NEW q \in Requests, pc'[q] = "store" PROVE loaded'[q] <= Cardinality(Stored(OnIt(q))')
  <2>1. Sent(q) /\ OnIt(q) \in Approvals
    <3>1. Sent(q)
      BY <1>1, <1>6, RequestFrame DEF Sent, Over
    <3> QED
      BY <1>1, <3>1, WorksOnApproval
  <2>2. PICK b \in Approvals : b = OnIt(q)
    BY <2>1
  <2>3. Stored(OnIt(q))' = Stored(b)'
    BY <1>1, <2>2 DEF Stored, ApproveVotes, OnIt
  <2>4. loaded'[q] \in Nat /\ loaded'[q] <= Cardinality(Stored(b))
    <3>1. CASE q # p
      <4>1. pc[q] = "store" /\ loaded'[q] = loaded[q]
        BY <1>1, <1>6, <3>1, RequestFrame
      <4> QED
        BY <1>4, <2>2, <4>1
    <3>2. CASE q = p
      <4>1. pc[p] = "load"
        BY <1>1, <1>6, <3>2, RequestFlow
      <4>2. loaded'[p] = approvals[OnIt(p)].current_approvals
        BY <1>1, <4>1, RequestEffects DEF Shape
      <4>3. loaded'[q] = approvals[b].current_approvals
        BY <2>2, <3>2, <4>2
      <4> QED
        BY <1>3, <4>3
    <3> QED
      BY <3>1, <3>2
  <2> QED
    BY <1>3, <2>3, <2>4
<1> QED
  BY <1>5, <1>6 DEF VotesCounted

\* The number an approval requires is within what its votes reach.
LEMMA EnoughMeansVotes ==
    ASSUME VoteInv, NEW a \in Approvals, enough(a)
    PROVE  Cardinality(ApproveVotes(a)) >= required(approvals[a].risk)
<1>1. ApproveVotes(a) \in SUBSET Requests /\ Stored(a) \subseteq ApproveVotes(a)
  BY DEF VoteInv, Shape, Entries, Stored, ApproveVotes
<1>2. /\ Cardinality(Stored(a)) \in Nat /\ Cardinality(ApproveVotes(a)) \in Nat
      /\ Cardinality(Stored(a)) <= Cardinality(ApproveVotes(a))
  BY <1>1, RequestSets
<1>3. approvals[a].current_approvals \in Nat /\ approvals[a].current_approvals <= Cardinality(Stored(a))
  BY DEF VoteInv, Shape, Entries, VotesCounted
<1>4. required(approvals[a].risk) \in Nat
  BY DEF required
<1> QED
  BY <1>2, <1>3, <1>4 DEF enough

LEMMA RequestPasses ==
    ASSUME VoteInv, NEW p \in Requests, RequestStep(p)
    PROVE  PassedWithEnough'
<1>1. Shape /\ UNCHANGED req
  BY RequestFrame DEF VoteInv
<1> SUFFICES ASSUME NEW q \in Passed'
             PROVE  (Cardinality(ApproveVotes(OnIt(q))) >= required(approvals[OnIt(q)].risk))'
  BY DEF PassedWithEnough
<1>2. q \in Requests /\ Sent(q) /\ req[q].vote = "approved" /\ (pc'[q] \in {"approve", "call"} \/ q \in called')
  <2>1. q \in Requests /\ Sent(q)' /\ req[q].vote = "approved" /\ (pc'[q] \in {"approve", "call"} \/ q \in called')
    BY <1>1 DEF Passed
  <2>2. Sent(q)
    BY <1>1, <2>1, RequestFrame DEF Sent, Over
  <2> QED
    BY <2>1, <2>2
<1> DEFINE b == OnIt(q)
<1>3. b \in Approvals /\ b' = b
  BY <1>1, <1>2, WorksOnApproval DEF OnIt
<1>4. Cardinality(ApproveVotes(b)) >= required(approvals[b].risk)
  <2>1. CASE q \in Passed
    BY <2>1 DEF VoteInv, PassedWithEnough
  <2>2. CASE q \notin Passed
    <3>1. pc[q] \notin {"approve", "call"} /\ q \notin called
      BY <1>2, <2>2 DEF Passed
    <3>2. q = p /\ pc'[p] \in {"approve", "call"}
      BY <1>1, <1>2, <3>1, RequestFrame, RequestEffects
    <3>3. pc[p] # "record"
      BY <1>2, <3>2 DEF VoteInv, ThreadFits
    <3>4. enough(b)
      BY <1>1, <3>1, <3>2, <3>3, RequestFlow
    <3> QED
      BY <1>3, <3>4, EnoughMeansVotes
  <2> QED
    BY <2>1, <2>2
<1>5. Cardinality(ApproveVotes(b)) \in Nat /\ Cardinality(ApproveVotes(b)') \in Nat
      /\ Cardinality(ApproveVotes(b)) <= Cardinality(ApproveVotes(b)')
  <2>1. ApproveVotes(b) \subseteq ApproveVotes(b)' /\ ApproveVotes(b) \in SUBSET Requests
        /\ ApproveVotes(b)' \in SUBSET Requests
    BY <1>3, RequestVotesGrow
  <2> QED
    BY <2>1, RequestSets
<1>6. approvals'[b].risk = approvals[b].risk
  BY <1>1, <1>3, RequestApprovals
<1>7. required(approvals[b].risk) \in Nat
  BY DEF required
<1> HIDE DEF b
<1>8. Cardinality(ApproveVotes(b)') >= required(approvals'[b].risk)
  BY <1>4, <1>5, <1>6, <1>7
<1> QED
  BY <1>3, <1>8 DEF b

LEMMA RequestVoteInv ==
    ASSUME VoteInv, NEW p \in Requests, RequestStep(p)
    PROVE  VoteInv'
  BY RequestShape, RequestThreads, RequestCounts, RequestPasses DEF VoteInv

----------------------------------------------------------------------------
(* The event loop, the clock and the scan leave votes alone *)

LEMMA NotYetCreated ==
    ASSUME VoteInv, NEW a \in Approvals, approvals[a].status = "none"
    PROVE  approvals[a].approvers = {} /\ approvals[a].current_approvals = 0
<1>1. approvals[a].approvers \subseteq Requests /\ approvals[a].current_approvals \in Nat
  BY DEF VoteInv, Shape, Entries
<1>2. approvals[a].approvers = {}
  BY <1>1 DEF VoteInv, VotersFit, ThreadFits, Sent, BeforeVote
<1>3. Stored(a) = {}
  BY <1>2 DEF Stored, ApproveVotes
<1> QED
  BY <1>1, <1>2, <1>3, FS_EmptySet DEF VoteInv, VotesCounted

LEMMA QuietStep ==
    ASSUME VoteInv, Shape', OrderFits', called' = called,
           \A a \in Approvals :
              /\ approvals'[a].approvers = approvals[a].approvers
              /\ approvals'[a].current_approvals = approvals[a].current_approvals
              /\ approvals[a].status # "none" =>
                    approvals'[a].risk = approvals[a].risk /\ approvals'[a].status # "none",
           \A p \in Requests : Sent(p) =>
              /\ req'[p] = req[p] /\ loaded'[p] = loaded[p]
              /\ pc'[p] \in {pc[p], "dead"},
           \A p \in Requests : ~Sent(p) => 
              \/ pc'[p] = "unsent"
              \/ pc'[p] = "check" /\ approvals'[OnIt(p)'].status # "none"
    PROVE  VoteInv'
<1>1. Shape /\ \A p \in Requests : ~Sent(p) => p \notin called
  BY DEF VoteInv, ThreadFits, Sent
<1>2. \A a \in Approvals : \A p \in approvals[a].approvers : p \in Requests /\ OnIt(p) = a /\ Sent(p)
  BY DEF VoteInv, Shape, Entries, VotersFit, Sent, BeforeVote
<1>3. ASSUME NEW p \in Requests PROVE ThreadFits(p)'
  <2>1. CASE ~Sent(p)
    <3>1. p \notin called' /\ pc'[p] \in {"unsent", "check"} /\ (Sent(p)' => approvals'[OnIt(p)'].status # "none")
      BY <1>1, <2>1 DEF Sent
    <3> QED
      BY <3>1 DEF ThreadFits
  <2>2. CASE Sent(p)
    <3>1. OnIt(p)' = OnIt(p) /\ req'[p] = req[p] /\ pc'[p] \in {pc[p], "dead"}
      BY <2>2 DEF OnIt
    <3>2. OnIt(p) \in Approvals
      BY <1>1, <2>2, WorksOnApproval
    <3>3. ThreadFits(p)
      BY DEF VoteInv
    <3>4. approvals'[OnIt(p)].status # "none" /\ approvals'[OnIt(p)].approvers = approvals[OnIt(p)].approvers
      BY <2>2, <3>2, <3>3 DEF ThreadFits
    <3> QED
      BY <3>1, <3>3, <3>4 DEF ThreadFits
  <2> QED
    BY <2>1, <2>2
<1>4. ASSUME NEW a \in Approvals
      PROVE  /\ VotersFit(a)'
             /\ ApproveVotes(a)' = ApproveVotes(a)
             /\ Cardinality(Stored(a)) \in Nat /\ Cardinality(Stored(a)') \in Nat
             /\ Cardinality(Stored(a)) <= Cardinality(Stored(a)')
  <2>1. approvals'[a].approvers = approvals[a].approvers
    OBVIOUS
  <2>2. \A p \in approvals[a].approvers : /\ OnIt(p) = a /\ req'[p] = req[p] /\ pc[p] \notin BeforeVote
                                          /\ pc'[p] \in {pc[p], "dead"}
    BY <1>2 DEF VoteInv, VotersFit
  <2>3. VotersFit(a)'
    BY <2>1, <2>2 DEF VotersFit, OnIt, BeforeVote
  <2>4. ApproveVotes(a)' = ApproveVotes(a)
    BY <2>1, <2>2 DEF ApproveVotes
  <2>5. Stored(a) \subseteq Stored(a)'
    BY <2>2, <2>4 DEF Stored, ApproveVotes
  <2>6. Stored(a) \in SUBSET Requests /\ Stored(a)' \in SUBSET Requests
    BY <1>2, <2>1 DEF Stored, ApproveVotes
  <2> QED
    BY <2>3, <2>4, <2>5, <2>6, RequestSets
<1>5. VotesCounted'
  <2>1. ASSUME NEW a \in Approvals PROVE approvals'[a].current_approvals <= Cardinality(Stored(a)')
    <3>1. approvals[a].current_approvals \in Nat /\ approvals[a].current_approvals <= Cardinality(Stored(a))
      BY DEF VoteInv, Shape, Entries, VotesCounted
    <3> QED
      BY <1>4, <3>1
  <2>2. ASSUME NEW p \in Requests, pc'[p] = "store" PROVE loaded'[p] <= Cardinality(Stored(OnIt(p))')
    <3>1. Sent(p)
      BY <2>2
    <3>2. pc[p] = "store" /\ loaded'[p] = loaded[p] /\ req'[p] = req[p]
      BY <2>2, <3>1
    <3>3. PICK a \in Approvals : a = OnIt(p)
      BY <1>1, <3>1, WorksOnApproval
    <3>4. Stored(OnIt(p))' = Stored(a)'
      BY <3>2, <3>3 DEF Stored, ApproveVotes, OnIt
    <3>5. loaded[p] \in Nat /\ loaded[p] <= Cardinality(Stored(a))
      BY <3>2, <3>3 DEF VoteInv, VotesCounted, Shape
    <3> QED
      BY <1>4, <3>2, <3>4, <3>5
  <2> QED
    BY <2>1, <2>2 DEF VotesCounted
<1>6. PassedWithEnough'
  <2> SUFFICES ASSUME NEW p \in Passed'
               PROVE  (Cardinality(ApproveVotes(OnIt(p))) >= required(approvals[OnIt(p)].risk))'
    BY DEF PassedWithEnough
  <2>1. p \in Requests /\ req'[p].vote = "approved" /\ (pc'[p] \in {"approve", "call"} \/ p \in called)
    BY DEF Passed
  <2>2. Sent(p)
    BY <1>1, <2>1
  <2>3. p \in Passed /\ req'[p] = req[p]
    BY <2>1, <2>2 DEF Passed
  <2>4. PICK a \in Approvals : a = OnIt(p)
    BY <1>1, <2>1, <2>2, WorksOnApproval
  <2>5. approvals[a].status # "none"
    BY <2>1, <2>2, <2>4 DEF VoteInv, ThreadFits
  <2>6. Cardinality(ApproveVotes(a)') >= required(approvals'[a].risk)
    BY <1>4, <2>3, <2>4, <2>5 DEF VoteInv, PassedWithEnough
  <2>7. OnIt(p)' = a
    BY <2>3, <2>4 DEF OnIt
  <2>8. ApproveVotes(OnIt(p))' = ApproveVotes(a)' /\ required(approvals[OnIt(p)].risk)' = required(approvals'[a].risk)
    BY <2>7 DEF ApproveVotes, required
  <2> QED
    BY <2>6, <2>8
<1> QED
  BY <1>3, <1>4, <1>5, <1>6 DEF VoteInv

LEMMA CreateVoteInv ==
    ASSUME VoteInv, NEW a \in Approvals, NEW risk \in Risks, CreateApproval(a, risk)
    PROVE  VoteInv'
<1> DEFINE New == [Absent EXCEPT !.risk = risk, !.status = "pending"]
<1>1. /\ approvals[a].status = "none" /\ approvals' = [approvals EXCEPT ![a] = New]
      /\ order' = Append(order, a)
      /\ UNCHANGED <<due, pc, req, loaded, scan, called, fellBack, contended, restarts>>
  BY DEF CreateApproval, threadVars, callVars
<1>2. Shape /\ OrderFits
  BY DEF VoteInv
<1>3. New \in Entries /\ New.status = "pending" /\ New.approvers = {} /\ New.current_approvals = 0
  BY DEF Absent, Entries, Statuses, Risks
<1> HIDE DEF New
<1>4. approvals' \in [Approvals -> Entries] /\ \A b \in Approvals : approvals'[b] = IF b = a THEN New ELSE approvals[b]
  BY <1>1, <1>2, <1>3 DEF Shape
<1>5. order' \in Seq(Approvals)
  BY <1>1, <1>2 DEF Shape
<1>6. Shape'
  BY <1>1, <1>2, <1>4, <1>5 DEF Shape, Sent
<1>7. OrderFits'
  <2>0. order \in Seq(Approvals)
    BY <1>2 DEF Shape
  <2>1. /\ Len(order') = Len(order) + 1 /\ order'[Len(order')] = a
        /\ \A i \in 1 .. Len(order) : order'[i] = order[i] /\ order[i] \in Approvals
    BY <1>1, <2>0
  <2>2. \A i \in 1 .. Len(order) : order[i] # a
    BY <1>1, <1>2 DEF OrderFits
  <2>3. \A i \in 1 .. Len(order') : i \in 1 .. Len(order) \/ i = Len(order')
    BY <2>0, <2>1
  <2>4. \A i \in 1 .. Len(order') : approvals'[order'[i]].status # "none"
    BY <1>2, <1>3, <1>4, <2>1, <2>2, <2>3 DEF OrderFits
  <2>5. \A i, j \in 1 .. Len(order') : order'[i] = order'[j] => i = j
    BY <1>2, <2>1, <2>2, <2>3 DEF OrderFits
  <2>6. scan' = scan /\ scan.at \in Nat /\ scan.size \in Nat /\ Len(order) \in Nat
    BY <1>1, <1>2, <2>0 DEF Shape
  <2>7. scan.at <= scan.size + 1 /\ scan.size <= Len(order) /\ (scan.doing # "look" => scan.at >= 1 /\ scan.at <= scan.size)
    BY <1>2 DEF OrderFits
  <2>8. scan.size <= Len(order')
    BY <2>1, <2>6, <2>7
  <2> QED
    BY <2>4, <2>5, <2>6, <2>7, <2>8 DEF OrderFits
<1>8. approvals[a].approvers = {} /\ approvals[a].current_approvals = 0
  BY <1>1, NotYetCreated
<1>9. \A b \in Approvals :
        /\ approvals'[b].approvers = approvals[b].approvers
        /\ approvals'[b].current_approvals = approvals[b].current_approvals
        /\ approvals[b].status # "none" => approvals'[b].risk = approvals[b].risk /\ approvals'[b].status # "none"
  BY <1>1, <1>3, <1>4, <1>8
<1> QED
  BY <1>1, <1>6, <1>7, <1>9, QuietStep DEF Sent

LEMMA ArriveVoteInv ==
    ASSUME VoteInv, NEW p \in Requests, NEW content \in RequestContents, Arrive(p, content)
    PROVE  VoteInv'
<1>1. /\ pc[p] = "unsent" /\ approvals[content.approval].status # "none"
      /\ req' = [req EXCEPT ![p] = content] /\ pc' = [pc EXCEPT ![p] = "check"]
      /\ UNCHANGED <<approvals, order, due, loaded, scan, called, fellBack, restarts>>
  BY DEF Arrive, Goes, callVars
<1>2. contended' \in {contended, contended \cup {content.approval}}
  BY DEF Arrive
<1>3. Shape /\ OrderFits
  BY DEF VoteInv
<1>4. content.approval \in Approvals /\ "check" \in Points
  BY DEF RequestContents, Points
<1>5. /\ \A q \in Requests : q # p => pc'[q] = pc[q] /\ req'[q] = req[q]
      /\ pc'[p] = "check" /\ req'[p] = content
      /\ pc' \in [Requests -> Points] /\ DOMAIN req' = Requests
  BY <1>1, <1>3, <1>4 DEF Shape
<1>6. contended' \subseteq Approvals
  BY <1>2, <1>3, <1>4 DEF Shape
<1>7. Shape'
  BY <1>1, <1>3, <1>5, <1>6 DEF Shape, Sent
<1>8. OrderFits'
  BY <1>1, <1>3 DEF OrderFits
<1> QED
  BY <1>1, <1>5, <1>7, <1>8, QuietStep DEF Sent, OnIt

LEMMA RestartVoteInv ==
    ASSUME VoteInv, GatewayRestarts
    PROVE  VoteInv'
<1>1. Shape
  BY DEF VoteInv
<1>2. /\ restarts' = restarts + 1 /\ restarts < MaxRestarts
      /\ order' = <<>> /\ scan' = Idle
      /\ UNCHANGED <<due, req, loaded, called, fellBack, contended>>
  BY DEF GatewayRestarts, callVars
<1>3. /\ DOMAIN approvals' = Approvals
      /\ \A a \in Approvals : approvals'[a] = IF approvals[a].status = "none" THEN approvals[a]
                                              ELSE [approvals[a] EXCEPT !.status = "gone"]
  BY DEF GatewayRestarts
<1>4. \A a \in Approvals :
        /\ approvals'[a] \in Entries
        /\ approvals'[a].approvers = approvals[a].approvers
        /\ approvals'[a].current_approvals = approvals[a].current_approvals
        /\ approvals'[a].risk = approvals[a].risk
        /\ approvals[a].status # "none" => approvals'[a].status # "none"
  <2> TAKE a \in Approvals
  <2>1. approvals[a] \in Entries
    BY <1>1 DEF Shape
  <2>2. approvals'[a] = IF approvals[a].status = "none" THEN approvals[a] ELSE [approvals[a] EXCEPT !.status = "gone"]
    BY <1>3
  <2> QED
    BY <2>1, <2>2 DEF Entries, Statuses
<1>5. approvals' \in [Approvals -> Entries]
  <2>1. approvals' = [a \in Approvals |-> IF approvals[a].status = "none" THEN approvals[a]
                                          ELSE [approvals[a] EXCEPT !.status = "gone"]]
    BY DEF GatewayRestarts
  <2> QED
    BY <1>4, <2>1
<1>6. pc' = [p \in Requests |-> IF Live(p) THEN "dead" ELSE pc[p]]
  BY DEF GatewayRestarts
<1>7. pc' \in [Requests -> Points] /\ \A p \in Requests : pc'[p] \in {pc[p], "dead"} /\ (~Sent(p) => pc'[p] = "unsent")
  BY <1>1, <1>6 DEF Shape, Points, Over, Sent, Live
<1>8. /\ Len(order') = 0 /\ order' \in Seq(Approvals) /\ scan'.at = 0 /\ scan'.size = 0 /\ scan'.doing = "look"
      /\ scan' \in [at : Nat, size : Nat, due : SUBSET Approvals, doing : {"look", "expire", "fallback"}]
  BY <1>2 DEF Idle
<1>9. restarts' \in 0 .. MaxRestarts
  BY <1>1, <1>2, MaxRestartsAssumption DEF Shape
<1>10. Shape'
  BY <1>1, <1>2, <1>5, <1>7, <1>8, <1>9 DEF Shape, Sent
<1>11. OrderFits'
  BY <1>8 DEF OrderFits
<1> QED
  BY <1>2, <1>4, <1>7, <1>10, <1>11, QuietStep DEF Sent

\* What a step of the scan leaves alone.
LEMMA ScanFrame ==
    ASSUME Shape, OrderFits, ScanStep
    PROVE  /\ UNCHANGED <<order, due, pc, req, loaded, called, restarts>>
           /\ approvals' \in [Approvals -> Entries]
           /\ \A a \in Approvals : /\ approvals'[a].risk = approvals[a].risk
                                   /\ approvals'[a].approvers = approvals[a].approvers
                                   /\ approvals'[a].current_approvals = approvals[a].current_approvals
                                   /\ approvals'[a].status # "none" \/ approvals[a].status = "none"
           /\ \A a \in Approvals : approvals'[a] # approvals[a] =>
                  ScanIsAt(a) /\ scan.doing = "expire" /\ approvals'[a].status = "expired"
<1> USE DEF threadVars, callVars
<1>1. approvals \in [Approvals -> Entries]
  BY DEF Shape
<1>2. CASE ScanStarts \/ ScanLooks \/ ScanCallsFallback
  BY <1>1, <1>2 DEF ScanStarts, ScanLooks, ScanCallsFallback
<1>3. CASE ScanExpires
  <2> DEFINE b == order[scan.at]
  <2>1. b \in Approvals /\ scan.doing = "expire"
    BY <1>3, EntryInDict DEF ScanExpires
  <2>2. approvals' = [approvals EXCEPT ![b].status = "expired"]
    BY <1>3 DEF ScanExpires
  <2> HIDE DEF b
  <2>3. approvals'[b] = [approvals[b] EXCEPT !.status = "expired"] /\ approvals[b] \in Entries
    BY <1>1, <2>1, <2>2
  <2>4. /\ approvals'[b] \in Entries /\ approvals'[b].status = "expired"
        /\ approvals'[b].risk = approvals[b].risk
        /\ approvals'[b].approvers = approvals[b].approvers
        /\ approvals'[b].current_approvals = approvals[b].current_approvals
    BY <2>3 DEF Entries, Statuses
  <2>5. \A a \in Approvals : a # b => approvals'[a] = approvals[a]
    BY <1>1, <2>2
  <2>6. approvals' \in [Approvals -> Entries]
    BY <1>1, <2>2, <2>3, <2>4
  <2>7. UNCHANGED <<order, due, pc, req, loaded, called, restarts>>
    BY <1>3 DEF ScanExpires
  <2>8. \A a \in Approvals : approvals'[a] # approvals[a] => a = b
    BY <2>5
  <2>9. ScanIsAt(b)
    BY <2>1 DEF ScanIsAt, b
  <2> QED
    BY <2>1, <2>4, <2>5, <2>6, <2>7, <2>8, <2>9
<1> QED
  BY <1>2, <1>3 DEF ScanStep

LEMMA ScanVoteInv ==
    ASSUME VoteInv, ScanStep
    PROVE  VoteInv'
<1>1. Shape /\ OrderFits
  BY DEF VoteInv
<1>2. /\ order \in Seq(Approvals) /\ Len(order) \in Nat /\ due \subseteq Approvals
      /\ scan \in [at : Nat, size : Nat, due : SUBSET Approvals, doing : {"look", "expire", "fallback"}]
      /\ scan.at <= scan.size + 1 /\ scan.size <= Len(order)
      /\ scan.doing # "look" => scan.at \in 1 .. scan.size /\ order[scan.at] \in Approvals
  BY <1>1, EntryInDict DEF Shape, OrderFits
<1>t. scan.at \in Nat /\ scan.size \in Nat /\ scan.due \in SUBSET Approvals
  BY <1>2
<1>3. /\ scan' \in [at : Nat, size : Nat, due : SUBSET Approvals, doing : {"look", "expire", "fallback"}]
      /\ scan'.at <= scan'.size + 1 /\ scan'.size <= Len(order)
      /\ scan'.doing # "look" => scan'.at \in 1 .. scan'.size
      /\ fellBack' \subseteq Approvals \cup Requests /\ contended' \subseteq Approvals
  <2>0. fellBack \subseteq Approvals \cup Requests /\ contended \subseteq Approvals
    BY <1>1 DEF Shape
  <2>1. CASE ScanStarts
    <3>1. scan' = [at |-> 1, size |-> Len(order), due |-> due, doing |-> "look"] /\ UNCHANGED <<fellBack, contended>>
      BY <2>1 DEF ScanStarts, callVars
    <3> QED
      BY <1>2, <2>0, <3>1
  <2>2. CASE ScanLooks
    <3>1. \/ scan' = Idle
          \/ /\ scan.at <= scan.size /\ scan.at > 0 /\ scan.doing = "look"
             /\ scan' \in {[scan EXCEPT !.doing = "expire"], [scan EXCEPT !.at = scan.at + 1]}
      BY <2>2 DEF ScanLooks
    <3>2. fellBack' = fellBack
      BY <2>2 DEF ScanLooks, callVars
    <3>3. \/ contended' = contended
          \/ scan.at \in 1 .. Len(order) /\ contended' = contended \cup {order[scan.at]}
      <4>1. \/ contended' = contended
            \/ /\ scan.at > 0 /\ Len(order) = scan.size /\ scan.at <= scan.size
               /\ contended' = contended \cup {order[scan.at]}
        BY <2>2 DEF ScanLooks
      <4> QED
        BY <1>t, <4>1
    <3>4. contended' \subseteq Approvals
      <4>1. \A i \in 1 .. Len(order) : order[i] \in Approvals
        BY <1>2
      <4> QED
        BY <2>0, <3>3, <4>1
    <3>5. CASE scan' = Idle
      BY <1>2, <2>0, <3>2, <3>4, <3>5 DEF Idle
    <3>6. CASE scan' # Idle
      BY <1>2, <2>0, <3>1, <3>2, <3>4, <3>6
    <3> QED
      BY <3>5, <3>6
  <2>3. CASE ScanExpires
    <3>1. scan' = [scan EXCEPT !.doing = "fallback"] /\ scan.doing = "expire" /\ UNCHANGED <<fellBack, contended>>
      BY <2>3 DEF ScanExpires, callVars
    <3> QED
      BY <1>2, <2>0, <3>1
  <2>4. CASE ScanCallsFallback
    <3>1. /\ scan' = [scan EXCEPT !.at = scan.at + 1, !.doing = "look"] /\ scan.doing = "fallback"
          /\ fellBack' = fellBack \cup {order[scan.at]} /\ contended' = contended
      BY <2>4 DEF ScanCallsFallback
    <3>2. scan.at \in 1 .. scan.size /\ order[scan.at] \in Approvals
      BY <1>2, <3>1
    <3>3. scan'.at = scan.at + 1 /\ scan'.size = scan.size /\ scan'.due = scan.due /\ scan'.doing = "look"
      BY <1>2, <3>1
    <3>4. scan' \in [at : Nat, size : Nat, due : SUBSET Approvals, doing : {"look", "expire", "fallback"}]
      <4>1. scan' = [at |-> scan.at + 1, size |-> scan.size, due |-> scan.due, doing |-> "look"]
        BY <1>2, <3>1
      <4>2. scan.at + 1 \in Nat
        BY <1>t
      <4> QED
        BY <1>t, <4>1, <4>2
    <3> QED
      BY <1>2, <1>t, <2>0, <3>1, <3>2, <3>3, <3>4
  <2> QED
    BY <2>1, <2>2, <2>3, <2>4 DEF ScanStep
<1>4. Shape'
  BY <1>1, <1>3, ScanFrame DEF Shape, Sent
<1>5. OrderFits'
  <2>1. \A i \in 1 .. Len(order) : order[i] \in Approvals
    BY <1>2
  <2>2. order' = order /\ \A i \in 1 .. Len(order) : approvals'[order[i]].status # "none"
    BY <1>1, <2>1, ScanFrame DEF OrderFits
  <2> QED
    BY <1>1, <1>3, <2>2 DEF OrderFits
<1>6. UNCHANGED <<req, loaded, pc, called>>
  BY <1>1, ScanFrame
<1>7. \A a \in Approvals :
        /\ approvals'[a].approvers = approvals[a].approvers
        /\ approvals'[a].current_approvals = approvals[a].current_approvals
        /\ approvals[a].status # "none" => approvals'[a].risk = approvals[a].risk /\ approvals'[a].status # "none"
  BY <1>1, ScanFrame
<1>8. /\ called' = called
      /\ \A p \in Requests : Sent(p) =>
            /\ req'[p] = req[p] /\ loaded'[p] = loaded[p]
            /\ pc'[p] \in {pc[p], "dead"}
      /\ \A p \in Requests : ~Sent(p) =>
            \/ pc'[p] = "unsent"
            \/ pc'[p] = "check" /\ approvals'[OnIt(p)'].status # "none"
  BY <1>6 DEF Sent
<1> QED
  BY <1>4, <1>5, <1>6, <1>7, <1>8, QuietStep

LEMMA NextVoteInv == VoteInv /\ [Next]_vars => VoteInv'
<1> SUFFICES ASSUME VoteInv, [Next]_vars PROVE VoteInv'
  OBVIOUS
<1>1. ASSUME NEW a \in Approvals, TimePasses(a) PROVE VoteInv'
  <2>1. due' \subseteq Approvals /\ UNCHANGED <<approvals, order, pc, req, loaded, scan, called, fellBack, contended, restarts>>
    BY <1>1 DEF TimePasses, threadVars, callVars, VoteInv, Shape
  <2>2. Shape' /\ OrderFits'
    BY <2>1 DEF VoteInv, Shape, OrderFits, Sent
  <2> QED
    BY <2>1, <2>2, QuietStep DEF Sent
<1>2. CASE UNCHANGED vars
  <2>1. UNCHANGED <<approvals, order, due, pc, req, loaded, scan, called, fellBack, contended, restarts>>
    BY <1>2 DEF vars
  <2>2. Shape' /\ OrderFits'
    BY <2>1 DEF VoteInv, Shape, OrderFits, Sent
  <2> QED
    BY <2>1, <2>2, QuietStep DEF Sent
<1> QED
  BY <1>1, <1>2, CreateVoteInv, ArriveVoteInv, RequestVoteInv, ScanVoteInv, RestartVoteInv DEF Next

----------------------------------------------------------------------------
(* Types and votes, proved *)

\* The dict holds no approval twice, so it is no longer than the ids.
LEMMA OrderBounded ==
    ASSUME VoteInv
    PROVE  Len(order) \in Nat /\ Len(order) <= Cardinality(Approvals)
<1>1. /\ order \in Seq(Approvals) /\ Len(order) \in Nat
      /\ \A i, j \in 1 .. Len(order) : order[i] = order[j] => i = j
  BY DEF VoteInv, Shape, OrderFits
<1> DEFINE S == 1 .. Len(order)
           f == [i \in S |-> order[i]]
<1>2. f \in [S -> Approvals] /\ \A i, j \in S : f[i] = f[j] => i = j
  BY <1>1
<1>3. f \in Injection(S, Approvals)
  BY <1>2 DEF Injection, IsInjective
<1>4. Cardinality(S) = Len(order)
  <2>1. 1 \in Int /\ Len(order) \in Int
    BY <1>1
  <2>2. Cardinality(1 .. Len(order)) = IF 1 > Len(order) THEN 0 ELSE Len(order) - 1 + 1
    BY <2>1, FS_Interval, Zenon
  <2> QED
    BY <1>1, <2>2
<1> HIDE DEF S, f
<1>5. Cardinality(S) <= Cardinality(Approvals)
  BY <1>3, FiniteAssumption, FS_Injection
<1> QED
  BY <1>1, <1>4, <1>5

\* No count exceeds the requests.
LEMMA CountsBounded ==
    ASSUME VoteInv, NEW a \in Approvals
    PROVE  approvals[a].current_approvals \in 0 .. Cardinality(Requests)
<1>1. Stored(a) \in SUBSET Requests
  BY DEF VoteInv, Shape, Entries, Stored, ApproveVotes
<1>2. Cardinality(Stored(a)) \in Nat /\ Cardinality(Stored(a)) <= Cardinality(Requests)
  BY <1>1, RequestSets
<1>3. approvals[a].current_approvals \in Nat /\ approvals[a].current_approvals <= Cardinality(Stored(a))
  BY DEF VoteInv, Shape, Entries, VotesCounted
<1>4. Cardinality(Requests) \in Nat
  BY FiniteAssumption, FS_CardinalityType
<1> QED
  BY <1>2, <1>3, <1>4

LoadsBounded == \A p \in Requests : loaded[p] \in 0 .. Cardinality(Requests)

LEMMA NextLoadsBounded == VoteInv /\ LoadsBounded /\ [Next]_vars => LoadsBounded'
<1> SUFFICES ASSUME VoteInv, LoadsBounded, [Next]_vars PROVE LoadsBounded'
  OBVIOUS
<1>1. ASSUME NEW p \in Requests, RequestStep(p) PROVE LoadsBounded'
  <2>1. Shape /\ loaded \in [Requests -> Nat]
    BY DEF VoteInv, Shape
  <2>2. CASE pc[p] = "load"
    <3>1. loaded' = [loaded EXCEPT ![p] = approvals[OnIt(p)].current_approvals]
      BY <1>1, <2>1, <2>2, RequestEffects
    <3>2. OnIt(p) \in Approvals
      BY <2>1, <2>2, WorksOnApproval DEF Sent
    <3>3. approvals[OnIt(p)].current_approvals \in 0 .. Cardinality(Requests)
      BY <3>2, CountsBounded
    <3> QED
      BY <2>1, <3>1, <3>3 DEF LoadsBounded
  <2>3. CASE pc[p] # "load"
    BY <1>1, <2>1, <2>3, RequestEffects DEF LoadsBounded
  <2> QED
    BY <2>2, <2>3
<1>2. CASE ScanStep
  BY <1>2, ScanFrame DEF VoteInv, LoadsBounded
<1>3. CASE ~ScanStep /\ ~\E p \in Requests : RequestStep(p)
  <2>1. loaded' = loaded
    BY <1>3 DEF Next, vars, CreateApproval, TimePasses, Arrive, GatewayRestarts, threadVars
  <2> QED
    BY <2>1 DEF LoadsBounded
<1> QED
  BY <1>1, <1>2, <1>3

\* Every variable keeps the type the module states: the dict never holds an
\* approval twice, and neither a count nor a count that was read exceeds the
\* number of requests, lost increments included.
THEOREM TypeCorrect == Spec => []TypeOK
<1>1. Init => VoteInv /\ LoadsBounded
  <2>1. Init => LoadsBounded
    BY FiniteAssumption, FS_CardinalityType DEF Init, LoadsBounded
  <2> QED
    BY <2>1, InitVoteInv
<1>2. VoteInv /\ LoadsBounded /\ [Next]_vars => VoteInv' /\ LoadsBounded'
  BY NextVoteInv, NextLoadsBounded
<1>3. VoteInv /\ LoadsBounded => TypeOK
  <2> SUFFICES ASSUME VoteInv, LoadsBounded PROVE TypeOK
    OBVIOUS
  <2>1. Shape /\ OrderFits
    BY DEF VoteInv
  <2>2. approvals \in [Approvals -> ApprovalRecords]
    <3>1. \A a \in Approvals : approvals[a] \in ApprovalRecords
      <4> TAKE a \in Approvals
      <4>1. approvals[a] \in Entries /\ approvals[a].current_approvals \in 0 .. Cardinality(Requests)
        BY <2>1, CountsBounded DEF Shape
      <4> QED
        BY <4>1 DEF Entries, Statuses, ApprovalRecords
    <3> QED
      BY <2>1, <3>1 DEF Shape
  <2>3. loaded \in [Requests -> 0 .. Cardinality(Requests)]
    BY <2>1 DEF Shape, LoadsBounded
  <2>4. scan \in [at : 0 .. Cardinality(Approvals) + 1, size : 0 .. Cardinality(Approvals),
                  due : SUBSET Approvals, doing : {"look", "expire", "fallback"}]
    <3>1. Len(order) \in Nat /\ Len(order) <= Cardinality(Approvals) /\ Cardinality(Approvals) \in Nat
      BY OrderBounded, FiniteAssumption, FS_CardinalityType
    <3>2. scan.at \in Nat /\ scan.size \in Nat /\ scan.at <= scan.size + 1 /\ scan.size <= Len(order)
      BY <2>1 DEF Shape, OrderFits
    <3>3. scan.at \in 0 .. Cardinality(Approvals) + 1 /\ scan.size \in 0 .. Cardinality(Approvals)
      BY <3>1, <3>2
    <3>4. scan \in [at : Nat, size : Nat, due : SUBSET Approvals, doing : {"look", "expire", "fallback"}]
      BY <2>1 DEF Shape
    <3> QED
      BY <3>3, <3>4
  <2> QED
    BY <2>1, <2>2, <2>3, <2>4, OrderBounded DEF TypeOK, Shape, Sent
<1> QED
  BY <1>1, <1>2, <1>3, PTL DEF Spec

\* However the threads interleave, the supervisor hears of an approval only
\* when enough approve votes are in it.
THEOREM EnoughVotesHold == Spec => []EnoughVotes
<1>1. VoteInv => EnoughVotes
  <2> SUFFICES ASSUME VoteInv, NEW p \in called, req[p].vote = "approved"
               PROVE  Cardinality(ApproveVotes(OnIt(p))) >= required(approvals[OnIt(p)].risk)
    BY DEF EnoughVotes, OnIt
  <2>1. p \in Requests /\ Sent(p)
    BY DEF VoteInv, Shape, ThreadFits, Sent
  <2> QED
    BY <2>1 DEF VoteInv, PassedWithEnough, Passed
<1> QED
  BY <1>1, InitVoteInv, NextVoteInv, PTL DEF Spec

----------------------------------------------------------------------------
(* The sequential reading, approval by approval *)

\* The requests on an approval are those that were sent to it.
SentTo(a) == {p \in Requests : Sent(p) /\ OnIt(p) = a}

LEMMA SentToFacts ==
    ASSUME VoteInv, NEW a \in Approvals
    PROVE  /\ WorkingOn(a) \subseteq SentTo(a) /\ approvals[a].approvers \subseteq SentTo(a)
           /\ CallsFor(a) \subseteq SentTo(a) /\ ApproveVotes(a) \subseteq SentTo(a)
           /\ approvals[a].status = "none" => SentTo(a) = {}
<1>1. WorkingOn(a) \subseteq SentTo(a)
  BY DEF WorkingOn, Live, Over, SentTo, Sent, OnIt
<1>2. approvals[a].approvers \subseteq SentTo(a)
  BY DEF VoteInv, Shape, Entries, VotersFit, BeforeVote, SentTo, Sent
<1>3. CallsFor(a) \subseteq SentTo(a)
  BY DEF VoteInv, Shape, ThreadFits, CallsFor, SentTo, Sent
<1>4. approvals[a].status = "none" => SentTo(a) = {}
  BY DEF VoteInv, ThreadFits, SentTo
<1> QED
  BY <1>1, <1>2, <1>3, <1>4 DEF ApproveVotes

\* A step that touches neither the approval nor the requests on it.
LEMMA AloneFrame ==
    ASSUME VoteInv, NEW a \in Approvals, Alone(a),
           approvals'[a] = approvals[a],
           SentTo(a)' = SentTo(a),
           \A p \in SentTo(a) : /\ req'[p] = req[p] /\ pc'[p] = pc[p] /\ loaded'[p] = loaded[p]
                                /\ p \in called' <=> p \in called,
           \A p \in called' : p \in Requests /\ Sent(p)',
           ScanIsAt(a)' => /\ WorkingOn(a) = {}
                           /\ scan'.doing = "expire" => approvals[a].status = "pending"
    PROVE  Alone(a)'
<1>1. WorkingOn(a)' = WorkingOn(a)
  <2>1. \A p \in SentTo(a) : p \in WorkingOn(a)' <=> p \in WorkingOn(a)
    BY DEF WorkingOn, Live, SentTo, OnIt
  <2>2. WorkingOn(a) \subseteq SentTo(a)
    BY SentToFacts
  <2>3. WorkingOn(a)' \subseteq SentTo(a)'
    BY DEF WorkingOn, Live, Over, SentTo, Sent, OnIt
  <2> QED
    BY <2>1, <2>2, <2>3
<1>2. CallsFor(a)' = CallsFor(a)
  <2>1. CallsFor(a)' \subseteq SentTo(a)'
    BY DEF CallsFor, SentTo
  <2>2. CallsFor(a) \subseteq SentTo(a)
    BY SentToFacts
  <2>3. \A p \in SentTo(a) : p \in CallsFor(a)' <=> p \in CallsFor(a)
    BY DEF CallsFor, SentTo, OnIt
  <2> QED
    BY <2>1, <2>2, <2>3
<1>3. approvals[a].approvers \subseteq SentTo(a) /\ ApproveVotes(a) \subseteq SentTo(a) /\ WorkingOn(a) \subseteq SentTo(a)
      /\ CallsFor(a) \subseteq SentTo(a)
  BY SentToFacts
<1>4. ApproveVotes(a)' = ApproveVotes(a)
  BY <1>3 DEF ApproveVotes
<1>5. Tally(a)' <=> Tally(a)
  BY <1>4 DEF Tally
<1>6. enough(a)' <=> enough(a)
  BY DEF enough, required
<1>7. Settled(a)' <=> Settled(a)
  BY <1>2, <1>3, <1>5, <1>6 DEF Settled
<1>8. OneVoteEach(a)' <=> OneVoteEach(a)
  BY <1>3, <1>4 DEF OneVoteEach
<1>9. ASSUME NEW p \in WorkingOn(a) PROVE Midway(p, a)' <=> Midway(p, a)
  <2>1. p \in SentTo(a) /\ req'[p] = req[p] /\ pc'[p] = pc[p] /\ loaded'[p] = loaded[p] /\ req[p].approval = a
    BY <1>3 DEF SentTo, OnIt
  <2>2. voted(p)' <=> voted(p)
    <3>1. voted(p) <=> \E q \in approvals[a].approvers : req[q].user = req[p].user
      BY <2>1 DEF voted
    <3>2. voted(p)' <=> \E q \in approvals'[a].approvers : req'[q].user = req'[p].user
      BY <2>1 DEF voted
    <3>3. \A q \in approvals[a].approvers : req'[q] = req[q]
      BY <1>3
    <3> QED
      BY <2>1, <3>1, <3>2, <3>3
  <2>3. \A st : Uncalled(a, st)' <=> Uncalled(a, st)
    BY <1>2 DEF Uncalled
  <2> QED
    BY <1>4, <1>5, <1>6, <1>7, <2>1, <2>2, <2>3 DEF Midway
<1>10. Present(a)' <=> Present(a)
  BY DEF Present
<1> QED
  BY <1>1, <1>3, <1>7, <1>8, <1>9, <1>10 DEF Alone

\* What a step of the only thread on an approval does, for the assertions.
LEMMA OwnStepFacts ==
    ASSUME VoteInv, NEW p \in Requests, RequestStep(p), NEW a \in Approvals, OnIt(p) = a
    PROVE  /\ Sent(p) /\ p \in WorkingOn(a) /\ UNCHANGED <<order, scan, req>>
           /\ approvals[a].status # "none"
           /\ approvals'[a].risk = approvals[a].risk
           /\ CallsFor(a)' = IF pc[p] = "call" THEN CallsFor(a) \cup {p} ELSE CallsFor(a)
           /\ ApproveVotes(a)' = IF pc[p] = "append" THEN ApproveVotes(a) \cup {p} ELSE ApproveVotes(a)
           /\ Cardinality(ApproveVotes(a)) \in Nat
           /\ pc[p] = "append" => Cardinality(ApproveVotes(a)') = Cardinality(ApproveVotes(a)) + 1
<1>1. Shape /\ UNCHANGED <<order, scan, req>> /\ Sent(p) /\ Live(p)
  BY RequestFrame DEF VoteInv, Sent, Live, Over
<1>2. p \in WorkingOn(a) /\ approvals[a].status # "none"
  BY <1>1 DEF WorkingOn, OnIt, VoteInv, ThreadFits
<1>3. called' = IF pc[p] = "call" THEN called \cup {p} ELSE called
  BY <1>1, RequestEffects
<1>4. CallsFor(a)' = IF pc[p] = "call" THEN CallsFor(a) \cup {p} ELSE CallsFor(a)
  <2>1. CallsFor(a)' = {q \in called' : OnIt(q) = a}
    BY <1>1 DEF CallsFor, OnIt
  <2> QED
    BY <1>3, <2>1 DEF CallsFor
<1>5. /\ ApproveVotes(a)' = IF pc[p] = "append" THEN ApproveVotes(a) \cup {p} ELSE ApproveVotes(a)
      /\ pc[p] = "append" => p \notin ApproveVotes(a)
      /\ ApproveVotes(a) \in SUBSET Requests
  BY RequestVotesGrow
<1>6. IsFiniteSet(ApproveVotes(a)) /\ Cardinality(ApproveVotes(a)) \in Nat
  BY <1>5, RequestSets
<1>7. pc[p] = "append" => Cardinality(ApproveVotes(a)') = Cardinality(ApproveVotes(a)) + 1
  BY <1>5, <1>6, FS_AddElement
<1> QED
  BY <1>1, <1>2, <1>4, <1>5, <1>6, <1>7, RequestApprovals

\* It is enough to look at the assertion where the thread goes.
LEMMA OwnStepEnds ==
    ASSUME VoteInv, NEW p \in Requests, RequestStep(p), NEW a \in Approvals, OnIt(p) = a, Alone(a),
           Present(a) => /\ OneVoteEach(a)'
                         /\ IF pc'[p] \in Over THEN Settled(a)' ELSE Midway(p, a)'
    PROVE  Alone(a)'
<1>1. WorkingOn(a) = {p} /\ ~ScanIsAt(a)
  BY OwnStepFacts DEF Alone
<1>2. ~ScanIsAt(a)'
  BY <1>1, OwnStepFacts DEF ScanIsAt
<1>3. WorkingOn(a)' = IF pc'[p] \in Over THEN {} ELSE {p}
  <2>1. \A q \in Requests \ {p} : pc'[q] = pc[q]
    BY RequestFrame DEF VoteInv
  <2>2. req' = req
    BY OwnStepFacts
  <2> QED
    BY <1>1, <2>1, <2>2 DEF WorkingOn, Live, OnIt
<1>4. CASE approvals[a].status = "gone"
  <2>1. pc[p] = "check"
    BY <1>1, <1>4 DEF Alone
  <2>2. pc'[p] = "done" /\ approvals'[a].status = "gone"
    BY <1>4, <2>1, RequestFlow, RequestEffects, RequestFields DEF VoteInv
  <2> QED
    BY <1>2, <1>3, <2>2 DEF Alone, Present, Over
<1>5. CASE approvals[a].status # "gone"
  <2>1. Present(a)
    BY <1>5, OwnStepFacts DEF Present
  <2>2. approvals'[a].status # "gone"
    BY <1>5, RequestFields DEF VoteInv
  <2> QED
    BY <1>2, <1>3, <2>1, <2>2 DEF Alone
<1> QED
  BY <1>4, <1>5

LEMMA OwnStep ==
    ASSUME VoteInv, NEW p \in Requests, RequestStep(p), NEW a \in Approvals, OnIt(p) = a, Alone(a)
    PROVE  Alone(a)'
<1> SUFFICES ASSUME Present(a) PROVE OneVoteEach(a)' /\ IF pc'[p] \in Over THEN Settled(a)' ELSE Midway(p, a)'
  BY OwnStepEnds
<1> DEFINE AV == ApproveVotes(a)
           n == Cardinality(ApproveVotes(a))
<1>1. OneVoteEach(a) /\ Midway(p, a) /\ UNCHANGED req
  BY OwnStepFacts DEF Alone
<1>2. /\ CallsFor(a)' = IF pc[p] = "call" THEN CallsFor(a) \cup {p} ELSE CallsFor(a)
      /\ ApproveVotes(a)' = IF pc[p] = "append" THEN AV \cup {p} ELSE AV
      /\ n \in Nat
      /\ pc[p] = "append" => Cardinality(ApproveVotes(a)') = n + 1
      /\ approvals'[a].risk = approvals[a].risk
  BY OwnStepFacts
<1>3. /\ approvals'[a].current_approvals = IF pc[p] = "store" THEN loaded[p] + 1 ELSE approvals[a].current_approvals
      /\ approvals'[a].status = IF pc[p] = "approve" THEN "approved"
             ELSE IF pc[p] = "reject" THEN "rejected" ELSE approvals[a].status
  BY RequestFields DEF VoteInv
<1>4. approvals[a].current_approvals \in Nat /\ loaded[p] \in Nat /\ pc[p] \in Points \ Over
  BY RequestFrame DEF VoteInv, Shape, Entries
<1>5. pc[p] # "store" => (enough(a)' <=> enough(a))
  BY <1>2, <1>3 DEF enough
<1>6. OneVoteEach(a)'
  <2>1. CASE pc[p] # "append"
    BY <1>1, <1>2, <2>1 DEF OneVoteEach
  <2>2. CASE pc[p] = "append"
    <3>1. ~voted(p)
      BY <1>1, <2>2 DEF Midway
    <3>2. \A q \in AV : req[q].user # req[p].user
      BY <3>1 DEF voted, ApproveVotes, OnIt
    <3>3. \A q, r \in AV \cup {p} : req[q].user = req[r].user => q = r
      BY <1>1, <3>2 DEF OneVoteEach
    <3> QED
      BY <1>1, <1>2, <2>2, <3>3 DEF OneVoteEach
  <2> QED
    BY <2>1, <2>2
\* Where nothing that Settled reads is written, it stays.
<1>7. ASSUME pc[p] \notin {"append", "store", "approve", "reject", "call"} PROVE Settled(a)' <=> Settled(a)
  <2>1. CallsFor(a)' = CallsFor(a) /\ AV' = AV /\ approvals'[a].status = approvals[a].status
        /\ approvals'[a].current_approvals = approvals[a].current_approvals
    BY <1>2, <1>3, <1>7
  <2>2. Tally(a)' <=> Tally(a)
    BY <2>1 DEF Tally
  <2> QED
    BY <1>1, <1>5, <1>7, <2>1, <2>2 DEF Settled
<1>8. IF pc'[p] \in Over THEN Settled(a)' ELSE Midway(p, a)'
  <2>1. CASE pc[p] = "check"
    <3>1. Settled(a)' /\ (pc'[p] # "done" => approvals'[a].status = "pending")
      BY <1>1, <1>3, <1>7, <2>1, RequestEffects DEF Midway, VoteInv
    <3>2. pc'[p] \in {"done", "duplicate", "reject"}
      BY <2>1, RequestFlow DEF VoteInv
    <3> QED
      BY <3>1, <3>2 DEF Midway, Over
  <2>2. CASE pc[p] = "duplicate"
    <3>1. Settled(a)' /\ approvals'[a].status = "pending" /\ (pc'[p] = "append" => ~voted(p))
      BY <1>1, <1>3, <1>7, <2>2, RequestEffects DEF Midway, VoteInv
    <3>2. pc'[p] \in {"done", "append"}
      BY <2>2, RequestFlow DEF VoteInv
    <3>3. voted(p)' <=> voted(p)
      <4>1. approvals'[a].approvers = approvals[a].approvers
        BY <2>2, RequestFields DEF VoteInv
      <4> QED
        BY <1>1, <4>1 DEF voted, OnIt
    <3> QED
      BY <3>1, <3>2, <3>3 DEF Midway, Over
  <2>3. CASE pc[p] = "append"
    <3>1. pc'[p] = "load"
      BY <2>3, RequestFlow DEF VoteInv
    <3>2. Settled(a) /\ approvals[a].status = "pending"
      BY <1>1, <2>3 DEF Midway
    <3>3. Uncalled(a, "pending")' /\ approvals[a].current_approvals = n
      BY <1>2, <1>3, <2>3, <3>2 DEF Uncalled, Settled, Tally, Votes
    <3>4. approvals'[a].current_approvals + 1 = Cardinality(ApproveVotes(a)')
      BY <1>2, <1>3, <2>3, <3>3
    <3> QED
      BY <3>1, <3>3, <3>4 DEF Midway, Over
  <2>4. CASE pc[p] = "load"
    <3>1. pc'[p] = "store"
      BY <2>4, RequestFlow DEF VoteInv
    <3>2. Uncalled(a, "pending") /\ approvals[a].current_approvals + 1 = n
      BY <1>1, <2>4 DEF Midway
    <3>3. Uncalled(a, "pending")'
      BY <1>2, <1>3, <2>4, <3>2 DEF Uncalled
    <3>4. approvals'[a].current_approvals + 1 = Cardinality(ApproveVotes(a)')
      BY <1>2, <1>3, <2>4, <3>2
    <3>5. loaded'[p] = approvals'[a].current_approvals
      <4>1. loaded' = [loaded EXCEPT ![p] = approvals[a].current_approvals]
        BY <2>4, RequestEffects DEF VoteInv
      <4> QED
        BY <1>3, <2>4, <4>1 DEF VoteInv, Shape
    <3> QED
      BY <3>1, <3>3, <3>4, <3>5 DEF Midway, Over
  <2>5. CASE pc[p] = "store"
    <3>1. pc'[p] = "threshold"
      BY <2>5, RequestFlow DEF VoteInv
    <3>2. Uncalled(a, "pending") /\ loaded[p] + 1 = n
      BY <1>1, <2>5 DEF Midway
    <3>3. Uncalled(a, "pending")'
      BY <1>2, <1>3, <2>5, <3>2 DEF Uncalled
    <3>4. Tally(a)'
      BY <1>2, <1>3, <2>5, <3>2 DEF Tally
    <3> QED
      BY <3>1, <3>3, <3>4 DEF Midway, Over
  <2>6. CASE pc[p] = "threshold"
    <3>1. pc'[p] \in {"approve", "done"} /\ (pc'[p] = "approve" <=> enough(a))
      BY <2>6, RequestFlow DEF VoteInv
    <3>2. Tally(a) /\ Uncalled(a, "pending")
      BY <1>1, <2>6 DEF Midway
    <3>3. Uncalled(a, "pending")'
      BY <1>2, <1>3, <2>6, <3>2 DEF Uncalled
    <3>4. Tally(a)'
      BY <1>2, <1>3, <2>6, <3>2 DEF Tally
    <3>5. enough(a)' <=> enough(a)
      BY <1>5, <2>6
    <3>6. CASE pc'[p] = "approve"
      BY <3>1, <3>3, <3>4, <3>5, <3>6 DEF Midway, Over
    <3>7. CASE pc'[p] = "done"
      <4>1. ~enough(a)'
        BY <3>1, <3>5, <3>7
      <4>2. Settled(a)'
        BY <3>3, <3>4, <4>1 DEF Settled, Uncalled, Votes
      <4> QED
        BY <3>7, <4>2 DEF Over
    <3> QED
      BY <3>1, <3>6, <3>7
  <2>7. CASE pc[p] = "approve"
    <3>1. pc'[p] = "call" /\ req'[p].vote = "approved"
      BY <1>1, <2>7, RequestFlow DEF VoteInv, ThreadFits
    <3>2. Tally(a) /\ Uncalled(a, "pending") /\ enough(a)
      BY <1>1, <2>7 DEF Midway
    <3>3. Uncalled(a, "approved")' /\ Tally(a)'
      BY <1>2, <1>3, <2>7, <3>2 DEF Uncalled, Tally
    <3>4. enough(a)'
      BY <1>5, <2>7, <3>2
    <3> QED
      BY <3>1, <3>3, <3>4 DEF Midway, Over
  <2>8. CASE pc[p] = "reject"
    <3>1. pc'[p] = "record"
      BY <2>8, RequestFlow DEF VoteInv
    <3>2. Settled(a) /\ approvals[a].status = "pending"
      BY <1>1, <2>8 DEF Midway
    <3>3. Tally(a) /\ CallsFor(a) = {} /\ ~enough(a)
      BY <3>2 DEF Settled, Votes
    <3>4. Uncalled(a, "rejected")' /\ Tally(a)'
      BY <1>2, <1>3, <2>8, <3>3 DEF Uncalled, Tally
    <3>5. ~enough(a)'
      BY <1>5, <2>8, <3>3
    <3> QED
      BY <3>1, <3>4, <3>5 DEF Midway, Over
  <2>9. CASE pc[p] = "record"
    <3>1. pc'[p] = "call" /\ req'[p].vote = "rejected"
      BY <1>1, <2>9, RequestFlow DEF VoteInv, ThreadFits
    <3>2. Tally(a) /\ Uncalled(a, "rejected") /\ ~enough(a)
      BY <1>1, <2>9 DEF Midway
    <3>3. Uncalled(a, "rejected")' /\ Tally(a)'
      BY <1>2, <1>3, <2>9, <3>2 DEF Uncalled, Tally
    <3>4. ~enough(a)'
      BY <1>5, <2>9, <3>2
    <3> QED
      BY <3>1, <3>3, <3>4 DEF Midway, Over
  <2>10. CASE pc[p] = "call"
    <3>1. pc'[p] \in {"done", "fallback"}
      BY <2>10, RequestFlow DEF VoteInv
    <3>2. Tally(a) /\ Uncalled(a, req[p].vote) /\ (req[p].vote = "approved" <=> enough(a))
      BY <1>1, <2>10 DEF Midway
    <3>3. CallsFor(a)' = {p} /\ approvals'[a].status = req'[p].vote /\ Tally(a)'
      BY <1>1, <1>2, <1>3, <2>10, <3>2 DEF Uncalled, Tally
    <3>4. enough(a)' <=> enough(a)
      BY <1>5, <2>10
    <3>5. req'[p].vote \in Votes
      BY <1>1, OwnStepFacts, WorksOnApproval DEF VoteInv
    <3>6. Settled(a)'
      BY <1>1, <3>2, <3>3, <3>4, <3>5 DEF Settled
    <3> QED
      BY <3>1, <3>6 DEF Midway, Over
  <2>11. CASE pc[p] = "fallback"
    <3>1. pc'[p] = "done"
      BY <2>11, RequestFlow DEF VoteInv
    <3>2. Settled(a)'
      BY <1>1, <1>7, <2>11 DEF Midway
    <3> QED
      BY <3>1, <3>2 DEF Over
  <2> QED
    BY <1>4, <2>1, <2>2, <2>3, <2>4, <2>5, <2>6, <2>7, <2>8, <2>9, <2>10, <2>11 DEF Points, Over
<1> QED
  BY <1>6, <1>8

\* What happens elsewhere, as the approval that is left alone sees it.
LEMMA RequestAlone ==
    ASSUME VoteInv, NEW a \in Approvals, Alone(a), NEW p \in Requests, RequestStep(p)
    PROVE  Alone(a)'
<1>1. CASE OnIt(p) = a
  BY <1>1, OwnStep
<1>2. CASE OnIt(p) # a
  <2>1. Shape /\ Sent(p)
    BY RequestFrame DEF VoteInv, Sent, Over
  <2>2. /\ approvals'[a] = approvals[a] /\ UNCHANGED <<order, req, scan>>
        /\ \A q \in Requests \ {p} : pc'[q] = pc[q] /\ loaded'[q] = loaded[q]
        /\ pc'[p] # "unsent" /\ called' \in {called, called \cup {p}}
    BY <1>2, <2>1, RequestFrame
  <2>3. \A q \in Requests : (Sent(q)' <=> Sent(q)) /\ OnIt(q)' = OnIt(q)
    BY <2>1, <2>2 DEF Sent, OnIt
  <2>4. SentTo(a)' = SentTo(a) /\ \A q \in SentTo(a) : q \in Requests \ {p}
    BY <1>2, <2>3 DEF SentTo
  <2>5. ScanIsAt(a)' => WorkingOn(a) = {} /\ (scan'.doing = "expire" => approvals[a].status = "pending")
    BY <2>2 DEF ScanIsAt, Alone
  <2>6. \A q \in called' : q \in Requests /\ Sent(q)'
    <3>1. \A q \in called : q \in Requests /\ Sent(q)
      BY DEF VoteInv, Shape, ThreadFits, Sent
    <3> QED
      BY <2>1, <2>2, <2>3, <3>1
  <2>7. \A q \in SentTo(a) : /\ req'[q] = req[q] /\ pc'[q] = pc[q] /\ loaded'[q] = loaded[q]
                             /\ q \in called' <=> q \in called
    BY <2>2, <2>4
  <2> QED
    BY <2>2, <2>4, <2>5, <2>6, <2>7, AloneFrame
<1> QED
  BY <1>1, <1>2

\* Steps of the event loop, the clock and the scan change no request.
LEMMA ElsewhereAlone ==
    ASSUME VoteInv, NEW a \in Approvals, Alone(a), approvals'[a] = approvals[a],
           UNCHANGED <<pc, req, loaded, called>>,
           ScanIsAt(a)' => /\ WorkingOn(a) = {}
                           /\ scan'.doing = "expire" => approvals[a].status = "pending"
    PROVE  Alone(a)'
<1>1. SentTo(a)' = SentTo(a) /\ \A q \in SentTo(a) : q \in Requests
  BY DEF SentTo, Sent, OnIt
<1>2. \A q \in called' : q \in Requests /\ Sent(q)'
  BY DEF VoteInv, Shape, ThreadFits, Sent
<1> QED
  BY <1>1, <1>2, AloneFrame

LEMMA CreateAlone ==
    ASSUME VoteInv, NEW a \in Approvals, Alone(a), NEW b \in Approvals, NEW risk \in Risks, CreateApproval(b, risk)
    PROVE  Alone(a)'
<1> DEFINE New == [Absent EXCEPT !.risk = risk, !.status = "pending"]
<1>1. /\ approvals[b].status = "none" /\ approvals' = [approvals EXCEPT ![b] = New]
      /\ order' = Append(order, b)
      /\ UNCHANGED <<pc, req, loaded, scan, called>>
  BY DEF CreateApproval, threadVars, callVars
<1>2. New.status = "pending" /\ New.approvers = {} /\ New.current_approvals = 0
  BY DEF Absent
<1> HIDE DEF New
<1>3. \A c \in Approvals : approvals'[c] = IF c = b THEN New ELSE approvals[c]
  BY <1>1 DEF VoteInv, Shape
<1>4. ScanIsAt(a)' <=> ScanIsAt(a)
  <2>1. scan.doing # "look" => scan.at \in 1 .. Len(order)
    BY EntryInDict DEF VoteInv
  <2>2. order \in Seq(Approvals)
    BY DEF VoteInv, Shape
  <2>3. scan.doing # "look" => order'[scan.at] = order[scan.at]
    BY <1>1, <2>1, <2>2
  <2> QED
    BY <1>1, <2>3 DEF ScanIsAt
<1>5. CASE a # b
  BY <1>1, <1>3, <1>4, <1>5, ElsewhereAlone DEF Alone
<1>6. CASE a = b
  <2>1. approvals[a].status = "none" /\ approvals'[a] = New
    BY <1>1, <1>3, <1>6
  <2>2. ~ScanIsAt(a)
    BY <2>1, EntryInDict DEF VoteInv, ScanIsAt
  <2>3. WorkingOn(a)' = {} /\ CallsFor(a)' = {}
    <3>1. WorkingOn(a) = {} /\ CallsFor(a) = {}
      BY <2>1, SentToFacts
    <3>2. WorkingOn(a)' = WorkingOn(a) /\ CallsFor(a)' = CallsFor(a)
      BY <1>1 DEF WorkingOn, Live, CallsFor, OnIt
    <3> QED
      BY <3>1, <3>2
  <2>4. ApproveVotes(a)' = {}
    BY <1>2, <2>1 DEF ApproveVotes
  <2>5. Tally(a)' /\ ~enough(a)'
    <3>1. approvals'[a].current_approvals = 0
      BY <1>2, <2>1
    <3>2. Cardinality(ApproveVotes(a)') = 0
      BY <2>4, FS_EmptySet
    <3> QED
      BY <3>1, <3>2 DEF Tally, enough, required
  <2>6. approvals'[a].status = "pending"
    BY <1>2, <2>1
  <2>7. Settled(a)' /\ OneVoteEach(a)'
    BY <2>3, <2>4, <2>5, <2>6 DEF Settled, Votes, OneVoteEach
  <2> QED
    BY <1>4, <2>2, <2>3, <2>6, <2>7 DEF Alone
<1> QED
  BY <1>5, <1>6

LEMMA ArriveAlone ==
    ASSUME VoteInv, NEW a \in Approvals, Alone(a), a \notin contended',
           NEW p \in Requests, NEW content \in RequestContents, Arrive(p, content)
    PROVE  Alone(a)'
<1>1. /\ pc[p] = "unsent" /\ approvals[content.approval].status # "none"
      /\ req' = [req EXCEPT ![p] = content] /\ pc' = [pc EXCEPT ![p] = "check"]
      /\ UNCHANGED <<approvals, order, loaded, scan, called>>
  BY DEF Arrive, Goes, callVars
<1>2. /\ \A q \in Requests : q # p => pc'[q] = pc[q] /\ req'[q] = req[q]
      /\ pc'[p] = "check" /\ req'[p] = content
  BY <1>1 DEF VoteInv, Shape
<1>3. \A q \in called : q \in Requests /\ Sent(q) /\ q # p
  BY <1>1 DEF VoteInv, Shape, ThreadFits, Sent
<1>4. ScanIsAt(a)' <=> ScanIsAt(a)
  BY <1>1 DEF ScanIsAt
<1>5. CASE content.approval # a
  <2>1. SentTo(a)' = SentTo(a) /\ \A q \in SentTo(a) : q \in Requests /\ q # p
    BY <1>1, <1>2, <1>5 DEF SentTo, Sent, OnIt
  <2>2. \A q \in called' : q \in Requests /\ Sent(q)'
    BY <1>1, <1>2, <1>3 DEF Sent
  <2>3. ScanIsAt(a)' => WorkingOn(a) = {} /\ (scan'.doing = "expire" => approvals[a].status = "pending")
    BY <1>1, <1>4 DEF Alone
  <2>4. \A q \in SentTo(a) : /\ req'[q] = req[q] /\ pc'[q] = pc[q] /\ loaded'[q] = loaded[q]
                             /\ q \in called' <=> q \in called
    BY <1>1, <1>2, <2>1
  <2> QED
    BY <1>1, <2>1, <2>2, <2>3, <2>4, AloneFrame
<1>6. CASE content.approval = a
  <2>1. WorkingOn(a) = {} /\ ~ScanIsAt(a)
    BY <1>6 DEF Arrive, ScanIsAt
  <2>2. WorkingOn(a)' = {p}
    <3>1. \A q \in Requests : q # p => (q \in WorkingOn(a)' <=> q \in WorkingOn(a))
      BY <1>2 DEF WorkingOn, Live
    <3>2. p \in WorkingOn(a)'
      BY <1>2, <1>6 DEF WorkingOn, Live, Over
    <3>3. \A q \in WorkingOn(a)' : q \in Requests
      BY DEF WorkingOn
    <3> QED
      BY <2>1, <3>1, <3>2, <3>3
  <2>3. \A q \in approvals[a].approvers : q \in Requests /\ q # p
    BY <1>1, SentToFacts DEF SentTo, Sent
  <2>4. CallsFor(a)' = CallsFor(a) /\ ApproveVotes(a)' = ApproveVotes(a)
    BY <1>1, <1>2, <1>3, <2>3 DEF CallsFor, ApproveVotes, OnIt
  <2>5. (Tally(a)' <=> Tally(a)) /\ (enough(a)' <=> enough(a))
    BY <1>1, <2>4 DEF Tally, enough
  <2>6. Settled(a) => Settled(a)'
    <3>1. \A q \in CallsFor(a) : req'[q] = req[q]
      BY <1>2, <1>3 DEF CallsFor
    <3> QED
      BY <1>1, <2>4, <2>5, <3>1 DEF Settled
  <2>7. OneVoteEach(a) => OneVoteEach(a)'
    <3>1. \A q \in ApproveVotes(a) : req'[q] = req[q]
      BY <1>2, <2>3 DEF ApproveVotes
    <3> QED
      BY <2>4, <3>1 DEF OneVoteEach
  <2>8. Present(a)' <=> Present(a)
    BY <1>1 DEF Present
  <2>9. Present(a) => OneVoteEach(a)' /\ Midway(p, a)'
    BY <1>2, <2>1, <2>6, <2>7 DEF Alone, Midway
  <2> QED
    BY <1>2, <1>4, <2>1, <2>2, <2>8, <2>9 DEF Alone
<1> QED
  BY <1>5, <1>6

LEMMA RestartAlone ==
    ASSUME VoteInv, NEW a \in Approvals, GatewayRestarts
    PROVE  Alone(a)'
<1>1. scan'.doing = "look"
  BY DEF GatewayRestarts, Idle
<1>2. pc' = [p \in Requests |-> IF Live(p) THEN "dead" ELSE pc[p]]
  BY DEF GatewayRestarts
<1>3. WorkingOn(a)' = {}
  BY <1>2 DEF WorkingOn, Live, Over
<1>4. approvals'[a] = IF approvals[a].status = "none" THEN approvals[a] ELSE [approvals[a] EXCEPT !.status = "gone"]
  BY DEF GatewayRestarts
<1>5. approvals[a] \in Entries
  BY DEF VoteInv, Shape
<1>6. ~Present(a)'
  BY <1>4, <1>5 DEF Present, Entries
<1> QED
  BY <1>1, <1>3, <1>6 DEF Alone, ScanIsAt

LEMMA ScanAlone ==
    ASSUME VoteInv, NEW a \in Approvals, Alone(a), a \notin contended', ScanStep
    PROVE  Alone(a)'
<1>1. Shape /\ OrderFits
  BY DEF VoteInv
<1>2. UNCHANGED <<order, pc, req, loaded, called>>
  BY <1>1, ScanFrame
<1>3. scan.at \in Nat /\ scan.doing \in {"look", "expire", "fallback"} /\ DOMAIN scan = {"at", "size", "due", "doing"}
  BY <1>1 DEF Shape
<1>4. CASE ScanStarts \/ ScanCallsFallback
  <2>1. scan'.doing = "look" /\ approvals' = approvals
    <3>1. CASE ScanStarts
      BY <3>1 DEF ScanStarts
    <3>2. CASE ScanCallsFallback
      <4>1. scan' = [scan EXCEPT !.at = scan.at + 1, !.doing = "look"] /\ approvals' = approvals
        BY <3>2 DEF ScanCallsFallback
      <4>2. scan \in [at : Nat, size : Nat, due : SUBSET Approvals, doing : {"look", "expire", "fallback"}]
        BY <1>1 DEF Shape
      <4> QED
        BY <4>1, <4>2
    <3> QED
      BY <1>4, <3>1, <3>2
  <2> QED
    BY <1>2, <2>1, ElsewhereAlone DEF ScanIsAt
<1>5. CASE ScanLooks
  <2>1. /\ scan.doing = "look" /\ approvals' = approvals
        /\ \/ scan'.doing = "look"
           \/ /\ scan'.at = scan.at /\ approvals[order[scan.at]].status = "pending"
              /\ contended' = IF WorkingOn(order[scan.at]) = {} THEN contended ELSE contended \cup {order[scan.at]}
    BY <1>3, <1>5 DEF ScanLooks, Idle
  <2>2. ScanIsAt(a)' => WorkingOn(a) = {} /\ approvals[a].status = "pending"
    BY <1>2, <2>1 DEF ScanIsAt
  <2> QED
    BY <1>2, <2>1, <2>2, ElsewhereAlone
<1>6. CASE ScanExpires
  <2>1. /\ scan.doing = "expire" /\ scan' = [scan EXCEPT !.doing = "fallback"]
        /\ approvals' = [approvals EXCEPT ![order[scan.at]].status = "expired"]
    BY <1>6 DEF ScanExpires
  <2>2. order[scan.at] \in Approvals /\ (ScanIsAt(a) <=> order[scan.at] = a) /\ (ScanIsAt(a)' <=> order[scan.at] = a)
    BY <1>1, <1>2, <1>3, <2>1, EntryInDict DEF ScanIsAt
  <2>3. CASE order[scan.at] # a
    <3>1. approvals'[a] = approvals[a]
      BY <1>1, <2>1, <2>2, <2>3 DEF Shape
    <3> QED
      BY <1>2, <2>2, <2>3, <3>1, ElsewhereAlone
  <2>4. CASE order[scan.at] = a
    <3>1. WorkingOn(a) = {} /\ approvals[a].status = "pending" /\ scan'.doing = "fallback"
      BY <1>3, <2>1, <2>2, <2>4 DEF Alone
    <3>2. approvals'[a] = [approvals[a] EXCEPT !.status = "expired"] /\ approvals[a] \in Entries
      BY <1>1, <2>1, <2>2, <2>4 DEF Shape
    <3>3. /\ approvals'[a].status = "expired" /\ approvals'[a].risk = approvals[a].risk
          /\ approvals'[a].approvers = approvals[a].approvers
          /\ approvals'[a].current_approvals = approvals[a].current_approvals
      BY <3>2 DEF Entries
    <3>4. WorkingOn(a)' = {} /\ CallsFor(a)' = CallsFor(a) /\ ApproveVotes(a)' = ApproveVotes(a)
      <4>1. WorkingOn(a)' = WorkingOn(a) /\ CallsFor(a)' = CallsFor(a) /\ ApproveVotes(a)' = ApproveVotes(a)
        BY <1>2, <3>3 DEF WorkingOn, Live, CallsFor, ApproveVotes, OnIt
      <4> QED
        BY <3>1, <4>1
    <3>5. OneVoteEach(a) /\ Settled(a)
      BY <3>1 DEF Alone, Present
    <3>6. Tally(a) /\ ~enough(a) /\ CallsFor(a) = {}
      BY <3>1, <3>5 DEF Settled, Votes
    <3>7. Tally(a)' /\ ~enough(a)'
      BY <3>3, <3>4, <3>6 DEF Tally, enough
    <3>8. Settled(a)' /\ OneVoteEach(a)'
      BY <1>2, <3>3, <3>4, <3>5, <3>6, <3>7 DEF Settled, Votes, OneVoteEach
    <3> QED
      BY <3>1, <3>3, <3>4, <3>8 DEF Alone
  <2> QED
    BY <2>3, <2>4
<1> QED
  BY <1>4, <1>5, <1>6 DEF ScanStep

LEMMA InitGatewayInv == Init => GatewayInv
<1> SUFFICES ASSUME Init, NEW a \in Approvals PROVE Alone(a)
  BY InitVoteInv DEF GatewayInv
<1>1. WorkingOn(a) = {} /\ scan.doing = "look"
  BY DEF Init, WorkingOn, Live, Over, Idle
<1>2. approvals[a].status = "none"
  BY AbsentRecord DEF Init
<1> QED
  BY <1>1, <1>2 DEF Alone, Present, ScanIsAt

LEMMA NextGatewayInv == GatewayInv /\ [Next]_vars => GatewayInv'
<1> SUFFICES ASSUME GatewayInv, [Next]_vars PROVE GatewayInv'
  OBVIOUS
<1>1. VoteInv /\ VoteInv'
  BY NextVoteInv DEF GatewayInv
<1> SUFFICES ASSUME NEW a \in Approvals, a \notin contended' PROVE Alone(a)'
  BY <1>1 DEF GatewayInv
<1>2. a \notin contended
  <2>1. CASE \E p \in Requests : RequestStep(p)
    BY <1>1, <2>1, RequestFrame DEF VoteInv
  <2>2. CASE ~\E p \in Requests : RequestStep(p)
    BY <2>2 DEF Next, vars, CreateApproval, TimePasses, Arrive, GatewayRestarts,
                ScanStep, ScanStarts, ScanLooks, ScanExpires, ScanCallsFallback
  <2> QED
    BY <2>1, <2>2
<1>3. Alone(a)
  BY <1>2 DEF GatewayInv
<1>4. ASSUME NEW b \in Approvals, TimePasses(b) PROVE Alone(a)'
  <2>1. UNCHANGED <<approvals, order, scan, pc, req, loaded, called>>
    BY <1>4 DEF TimePasses, threadVars, callVars
  <2> QED
    BY <1>1, <1>3, <2>1, ElsewhereAlone DEF ScanIsAt, Alone
<1>5. CASE UNCHANGED vars
  <2>1. UNCHANGED <<approvals, order, scan, pc, req, loaded, called>>
    BY <1>5 DEF vars
  <2> QED
    BY <1>1, <1>3, <2>1, ElsewhereAlone DEF ScanIsAt, Alone
<1> QED
  BY <1>1, <1>3, <1>4, <1>5, CreateAlone, ArriveAlone, RequestAlone, ScanAlone, RestartAlone DEF Next

THEOREM GatewayInvariant == Spec => []GatewayInv
  BY InitGatewayInv, NextGatewayInv, PTL DEF Spec

\* An approval no two threads ever worked on at a time is decided by distinct
\* user ids, all counted, exactly when the count says so, and is reported once
\* with the status it keeps.
THEOREM SequentialDecisionHolds == Spec => []SequentialDecision
<1>1. GatewayInv => SequentialDecision
  <2> SUFFICES ASSUME GatewayInv, NEW a \in Approvals \ contended,
                      WorkingOn(a) = {}, approvals[a].status \notin {"none", "gone"}
               PROVE  LET A == approvals[a]
                          users == {req[p].user : p \in ApproveVotes(a)}
                          calls == {p \in called : req[p].approval = a}
                      IN  /\ A.current_approvals = Cardinality(users)
                          /\ A.status = "approved" <=> A.current_approvals >= required(A.risk)
                          /\ IF A.status \in Votes
                             THEN \E p \in calls : calls = {p} /\ req[p].vote = A.status
                             ELSE calls = {}
    BY DEF SequentialDecision
  <2>1. OneVoteEach(a) /\ Settled(a)
    BY DEF GatewayInv, Alone, Present
  <2> DEFINE users == {req[p].user : p \in ApproveVotes(a)}
  <2>2. Cardinality(users) = Cardinality(ApproveVotes(a))
    <3> DEFINE f == [p \in ApproveVotes(a) |-> req[p].user]
    <3>1. f \in Surjection(ApproveVotes(a), users)
      BY DEF Surjection
    <3>2. f \in Injection(ApproveVotes(a), users)
      BY <2>1 DEF Injection, IsInjective, OneVoteEach
    <3>3. IsFiniteSet(ApproveVotes(a))
      <4>1. ApproveVotes(a) \in SUBSET Requests
        BY DEF GatewayInv, VoteInv, Shape, Entries, ApproveVotes
      <4> QED
        BY <4>1, RequestSets
    <3> HIDE DEF f, users
    <3> QED
      BY <3>1, <3>2, <3>3, FS_Surjection
  <2> QED
    BY <2>1, <2>2 DEF Settled, Tally, enough, CallsFor, OnIt
<1> QED
  BY <1>1, GatewayInvariant, PTL

\* A decided or expired approval that no two threads ever worked on at a time
\* keeps its status until the gateway restarts.
THEOREM DecisionFinalHolds == Spec => DecisionFinal
<1> DEFINE Final(a) ==
             approvals[a].status \in {"approved", "rejected", "expired"}
                => \/ approvals'[a].status \in {approvals[a].status, "gone"}
                   \/ a \in contended
<1>1. GatewayInv /\ [Next]_vars => [\A a \in Approvals : Final(a)]_vars
  <2> SUFFICES ASSUME GatewayInv, Next, NEW a \in Approvals PROVE Final(a)
    BY DEF vars
  <2> SUFFICES ASSUME approvals[a].status \in {"approved", "rejected", "expired"}, a \notin contended,
                      approvals'[a].status # approvals[a].status
               PROVE  approvals'[a].status = "gone"
    OBVIOUS
  <2>1. Alone(a) /\ Shape /\ OrderFits
    BY DEF GatewayInv, VoteInv
  <2>2. ASSUME NEW p \in Requests, RequestStep(p) PROVE FALSE
    <3>1. OnIt(p) = a
      BY <2>1, <2>2, RequestFrame
    <3>2. pc[p] \in {"approve", "reject"}
      BY <2>1, <2>2, <3>1, RequestFields
    <3>3. p \in WorkingOn(a)
      BY <2>2, <3>1, OwnStepFacts DEF GatewayInv
    <3>4. approvals[a].status = "pending"
      BY <2>1, <3>2, <3>3 DEF Alone, Present, Midway, Uncalled
    <3> QED
      BY <3>4
  <2>3. ASSUME ScanStep PROVE FALSE
    <3>1. ScanIsAt(a) /\ scan.doing = "expire"
      BY <2>1, <2>3, ScanFrame
    <3> QED
      BY <2>1, <3>1 DEF Alone
  <2>4. ASSUME NEW b \in Approvals, NEW risk \in Risks, CreateApproval(b, risk) PROVE FALSE
    <3>1. approvals[b].status = "none" /\ \A c \in Approvals : c # b => approvals'[c] = approvals[c]
      BY <2>1, <2>4 DEF CreateApproval, Shape
    <3> QED
      BY <3>1
  <2>5. ASSUME GatewayRestarts PROVE approvals'[a].status = "gone"
    <3>1. approvals'[a] = [approvals[a] EXCEPT !.status = "gone"] /\ approvals[a] \in Entries
      BY <2>1, <2>5 DEF GatewayRestarts, Shape
    <3> QED
      BY <3>1 DEF Entries
  <2>6. CASE approvals' = approvals
    BY <2>6
  <2> QED
    BY <2>2, <2>3, <2>4, <2>5, <2>6 DEF Next, TimePasses, Arrive
<1> HIDE DEF Final
<1>2. [][\A a \in Approvals : Final(a)]_vars => DecisionFinal
  BY DEF DecisionFinal, Final
<1> QED
  BY <1>1, <1>2, GatewayInvariant, PTL DEF Spec
====

---- MODULE Arbitration ----
(***************************************************************************)
(* The experts' opinions and how the arbitrator decides between them,      *)
(* without state (agent-supervisor/app/arbitrator.py, expert_client.py and *)
(* graph.py, expert-worker/app/main.py and llm_client.py).  The plan that  *)
(* goes with the decision is PlanReview's subject.                         *)
(*                                                                         *)
(* An opinion is the set of diagnostic keywords in its root cause, its     *)
(* confidence in tenths and the number of its evidence items.              *)
(***************************************************************************)
EXTENDS Integers, Sequences, FiniteSets

CONSTANTS
    Findings,   \* what a model may answer: records [terms, confidence]
    Evidence,   \* numbers of tools that may succeed
    NoExpert

ASSUME ArbitrationAssumption ==
    /\ \A f \in Findings : f.confidence \in 0 .. 10
    /\ Evidence \subseteq Nat

----------------------------------------------------------------------------
(* Which experts, and what they answer *)

\* sorted(experts) is the order of every dict of results.
ExpertOrder == <<"application", "k8s", "middleware", "network">>
Experts == {ExpertOrder[i] : i \in DOMAIN ExpertOrder}
Position(e) == CHOOSE i \in DOMAIN ExpertOrder : ExpertOrder[i] = e

DetermineExperts(nodeType, metricGroup) ==
    LET byNode == CASE nodeType \in {"server", "container"} -> {"k8s", "application"}
                    [] nodeType \in {"plc", "cnc", "robotarm", "agv", "edgegw"} -> {"network", "application"}
                    [] OTHER -> {}
        chosen == byNode \cup (IF metricGroup \in {"queue", "latency"} THEN {"middleware"} ELSE {})
    IN  IF chosen = {} THEN {"application", "network"} ELSE chosen

\* The keywords found in the mock's sentence: "configured" holds "config" and
\* "application" holds "io".
MockFinding(expert) ==
    [terms |-> {"config"} \cup (CASE expert = "application" -> {"io"}
                                  [] expert = "network"     -> {"network"}
                                  [] OTHER                  -> {}),
     confidence |-> 5]

\* reason: the mock stands in for a model without key or answer.
Reasoned(expert) == Findings \cup {MockFinding(expert)}

\* diagnose: the tools one after the other, those that fail give no evidence,
\* and the model's finding on top.
Answers(expert) ==
    {[terms |-> f.terms, confidence |-> f.confidence, evidence |-> n] :
        f \in Reasoned(expert), n \in Evidence}

\* What is left of dispatch_all_parallel: experts that time out, fail or answer
\* something invalid have no opinion.
Panels(experts) ==
    UNION {{p \in [answering -> UNION {Answers(e) : e \in answering}] :
               \A e \in answering : p[e] \in Answers(e)} : answering \in SUBSET experts}

----------------------------------------------------------------------------
(* Conflicts and the vote *)

InConflict(panel, e, f) == panel[e].terms \cap panel[f].terms = {}

Conflicts(panel) ==
    {pair \in SUBSET DOMAIN panel :
        \E e, f \in pair : e # f /\ pair = {e, f} /\ InConflict(panel, e, f)}

\* In fifths.
EvidenceWeight(n) == 5 + (IF n < 5 THEN n ELSE 5)

\* In tenths.
Reproducibility(opinion, validated) ==
    IF validated THEN 10 ELSE IF opinion.evidence >= 2 THEN 5 ELSE 3

\* One tool of every expert is called once more; it may answer, fail or time out.
CrossValidations(panel) == [DOMAIN panel -> BOOLEAN]

Score(panel, validated, e) ==
    panel[e].confidence * EvidenceWeight(panel[e].evidence) * Reproducibility(panel[e], validated[e])

\* A stable sort in descending order has this expert first.
First(experts, value) ==
    CHOOSE e \in experts : \A f \in experts :
        value[e] > value[f] \/ (value[e] = value[f] /\ Position(e) <= Position(f))

Scores(panel, validated) == [e \in DOMAIN panel |-> Score(panel, validated, e)]

\* Mutant: the runner-up is taken from a list that is not sorted yet.
LeadOverAnother(scores, winner) ==
    LET runnerUp == First(DOMAIN scores \ {winner}, [e \in DOMAIN scores |-> -Position(e)])
    IN  scores[winner] > 0 /\ 5 * (scores[winner] - scores[runnerUp]) >= scores[winner]

\* A lead of 20% of the winner's score.
Decisive(scores, winner) ==
    LET runnerUp == First(DOMAIN scores \ {winner}, scores)
    IN  scores[winner] > 0 /\ 5 * (scores[winner] - scores[runnerUp]) >= scores[winner]

\* The two that debate have the highest confidence; they need not be in conflict.
Debaters(panel) ==
    LET confidence == [e \in DOMAIN panel |-> panel[e].confidence]
        first      == First(DOMAIN panel, confidence)
    IN  {first, First(DOMAIN panel \ {first}, confidence)}

Decision(strategy, winner, validated) ==
    [strategy |-> strategy, winner |-> winner, validated |-> validated]

DecisionRecords ==
    [strategy : {"unanimous", "weighted_voting", "adversarial_debate"}, winner : Experts \cup {NoExpert},
     validated : UNION {[S -> BOOLEAN] : S \in SUBSET Experts}]

\* arbitrate; the debate's judge may name a side or a synthesis of both.
Decisions(panel) ==
    IF Conflicts(panel) = {}
    THEN {Decision("unanimous", NoExpert, << >>)}
    ELSE UNION {LET scores == Scores(panel, validated)
                    winner == First(DOMAIN panel, scores)
                IN  IF Decisive(scores, winner)
                    THEN {Decision("weighted_voting", winner, validated)}
                    ELSE {Decision("adversarial_debate", side, validated) :
                             side \in Debaters(panel) \cup {NoExpert}}
                : validated \in CrossValidations(panel)}

----------------------------------------------------------------------------
(* What a vote must respect *)

\* e is nowhere worse than f in what the vote looks at, confidence, evidence
\* and validation.
AtLeast(panel, validated, e, f) ==
    /\ panel[e].confidence >= panel[f].confidence
    /\ panel[e].evidence >= panel[f].evidence
    /\ validated[f] => validated[e]

\* Nobody is outvoted by an expert that is nowhere better.
NotOutvoted(panel, decision) ==
    decision.strategy = "weighted_voting" =>
        \A e \in DOMAIN panel \ {decision.winner} :
            ~AtLeast(panel, decision.validated, e, decision.winner)
====

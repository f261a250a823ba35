---- MODULE MCIncidentLoop ----
EXTENDS IncidentLoop

CONSTANTS h1, h2, t1, t2, r1, r2, r3, k1, k2

MCRequests == {h1, h2}
MCTraces == {t1, t2}
MCRuns == {r1, r2, r3}
MCReviewTickets == {k1, k2}
Symmetry ==
    Permutations(MCRequests) \cup Permutations(MCTraces) \cup Permutations(MCRuns)
        \cup Permutations(MCReviewTickets)

\* An arm of an assembly line and a container.
MCNodeType == ("arm" :> "robotarm") @@ ("box" :> "container")

Metric(node, type, timestamp, value) ==
    [node |-> node, metricType |-> type, lineProfile |-> "assembly", timestamp |-> timestamp,
     value |-> value, severity |-> IF value > 15 THEN "critical" ELSE "warning"]

Alert(id, timestamp) == [id |-> id, node |-> "arm", timestamp |-> timestamp]

\* The same time of three days.
Days ==
    {Metric("arm", "cpu_usage", 0, 10), Metric("arm", "cpu_usage", 0, 14),
     Metric("arm", "cpu_usage", 86400, 12), Metric("arm", "cpu_usage", 172800, 40)}

\* Error rates, above the threshold at any time.
Error(timestamp) == Metric("arm", "error_rate", timestamp, 20)
Errors == {Error(100), Error(290), Error(400), Error(705)}

Alerts == {Alert("a1", 120), Alert("a2", 310)}

MCMetricEvents == Days \cup Errors
MCClock == {0, 120, 200}

Reported(id, node, group) ==
    [id |-> <<id, node>>, node |-> node, severityMax |-> "major", metricGroup |-> group, worstAlert |-> NoEvent]

MCFindings ==
    {[terms |-> {"redis"}, confidence |-> 9], [terms |-> {"redis", "network"}, confidence |-> 6]}
MCEvidence == {1, 6}

MCTickets == {"s1"} \cup MCReviewTickets
MCContents == {"v1", "v2", "blank"} \cup MCTraces
MCSeedTickets == "s1" :> "v1"

Nothing == [metrics |-> {}, alerts |-> {}, incidents |-> {}, experts |-> {}, corpus |-> FALSE,
            budget |-> [kind \in BudgetKinds |-> 0]]

FromArm == Reported(1, "arm", "resource")
FromArmAgain == Reported(2, "arm", "error")
FromBox == Reported(3, "box", "queue")
MCIncidents == {FromArm, FromArmAgain, FromBox}

MCWorkloads ==
    { [Nothing EXCEPT !.metrics = Days, !.budget.metric = 6],
      [Nothing EXCEPT !.metrics = {Error(290)}, !.alerts = Alerts, !.budget.metric = 4, !.budget.alert = 2],
      [Nothing EXCEPT !.metrics = {Error(100), Error(400), Error(705)}, !.budget.metric = 5],
      [Nothing EXCEPT !.incidents = {FromArm, FromArmAgain}, !.budget.trouble = 1],
      [Nothing EXCEPT !.incidents = {FromArm, FromArmAgain}, !.budget.restart = 1],
      [Nothing EXCEPT !.incidents = {FromArm, FromBox}, !.corpus = TRUE],
      [Nothing EXCEPT !.incidents = {FromBox}, !.experts = Experts],
      [Nothing EXCEPT !.incidents = {FromBox}, !.corpus = TRUE,
                      !.budget.write = 2, !.budget.restart = 1],
      [Nothing EXCEPT !.incidents = {FromArm, FromArmAgain}, !.budget.resume = 1],
      [Nothing EXCEPT !.incidents = {FromBox}, !.corpus = TRUE, !.budget.resume = 1, !.budget.crash = 1],
      [Nothing EXCEPT !.incidents = {FromBox}, !.corpus = TRUE, !.budget.resume = 1, !.budget.restart = 1],
      [Nothing EXCEPT !.incidents = {FromArm, FromArmAgain}, !.budget.crash = 1] }
====

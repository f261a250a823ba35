---- MODULE AnomalyStream ----
(***************************************************************************)
(* The Flink job from its two Kafka sources to the incidents it hands to   *)
(* the webhook sink (flink/.../anomaly): baseline and router, de-jitter,   *)
(* cross-validation with the alert stream, aggregation in tumbling         *)
(* windows.                                                                *)
(*                                                                         *)
(* The operators share no state, and one element's way from the source to  *)
(* its window is one step here: elements of other keys can only come       *)
(* before or after it.  What interleaves are the two streams, the          *)
(* processing-time timers and the watermark.  Times are in seconds.        *)
(***************************************************************************)
EXTENDS DynamicBaseline, SequencesExt, Functions

CONSTANTS
    MetricEvents,  \* records [node, metricType, lineProfile, timestamp, value, severity]
    AlertEvents,   \* records [id, node, timestamp]
    Clock,         \* the processing times the model looks at
    NoEvent        \* an empty ValueState

ASSUME StreamAssumption ==
    /\ \A e \in MetricEvents : e.timestamp \in Nat /\ e.value \in Int
    /\ \A a \in AlertEvents : a.timestamp \in Nat
    /\ Clock \subseteq Nat
    /\ NoEvent \notin MetricEvents \cup AlertEvents \cup Nat

VARIABLES
    buckets,      \* key -> bucket -> BucketStats
    samples,      \* history: key -> bucket -> the values it was given
    counts,       \* key -> DeJitterWindow's consecutiveCount
    lastAnomaly,  \* node -> lastAnomalyMetric
    lastAlert,    \* node -> lastAlert
    alertsSeen,   \* history: the alerts that arrived
    pendingIds,   \* node -> pendingAlertIds
    timers,       \* node -> registered processing-time timers
    now,          \* processing time
    maxSeen,      \* the latest event time of both streams
    watermark,    \* event time the windows have reached
    windows,      \* <<node, start>> -> what the open window was given
    outbox        \* incidents on their way to the sink

streamVars == <<buckets, samples, counts, lastAnomaly, lastAlert, alertsSeen, pendingIds,
                timers, now, maxSeen, watermark, windows, outbox>>

----------------------------------------------------------------------------
DEJITTER_CONSECUTIVE_WINDOWS == 3
CROSS_WINDOW == 60
AGGREGATION_WINDOW_SECONDS == 300
OUT_OF_ORDERNESS == 5

Key(event) == <<event.node, event.metricType>>
Keys == {Key(e) : e \in MetricEvents}
Machines == {e.node : e \in MetricEvents} \cup {a.node : a \in AlertEvents}
AlertIds == {a.id : a \in AlertEvents}
Windows == {<<n, BucketKey(x.timestamp) * AGGREGATION_WINDOW_SECONDS>> :
               n \in Machines, x \in MetricEvents \cup AlertEvents}

StreamTypeOK ==
    /\ DOMAIN buckets = Keys /\ DOMAIN samples = Keys
    /\ \A k \in Keys : DOMAIN buckets[k] = DOMAIN samples[k]
    /\ counts \in [Keys -> Nat]
    /\ DOMAIN lastAnomaly = Machines
    /\ lastAlert \in [Machines -> AlertEvents \cup {NoEvent}]
    /\ alertsSeen \subseteq AlertEvents
    /\ pendingIds \in [Machines -> Seq(AlertIds)]
    /\ timers \in [Machines -> SUBSET Nat]
    /\ now \in Nat /\ maxSeen \in Nat /\ watermark \in Nat
    /\ DOMAIN windows \subseteq Windows
    /\ \A w \in DOMAIN windows : windows[w] # << >>

StreamInit ==
    /\ buckets = [k \in Keys |-> << >>]
    /\ samples = [k \in Keys |-> << >>]
    /\ counts = [k \in Keys |-> 0]
    /\ lastAnomaly = [n \in Machines |-> NoEvent]
    /\ lastAlert = [n \in Machines |-> NoEvent]
    /\ alertsSeen = {}
    /\ pendingIds = [n \in Machines |-> << >>]
    /\ timers = [n \in Machines |-> {}]
    /\ now = 0 /\ maxSeen = 0 /\ watermark = 0
    /\ windows = << >>
    /\ outbox = << >>

----------------------------------------------------------------------------
(* Aggregation *)

SeverityWeight(severity) ==
    CASE severity = "critical" -> 100
      [] severity = "major"    -> 60
      [] severity = "minor"    -> 20
      [] OTHER                 -> 5

\* Mutant: the severity that comes last wins.
LaterSeverity(a, b) == b

MaxSeverity(a, b) == IF SeverityWeight(b) > SeverityWeight(a) THEN b ELSE a

\* classifyMetricGroup looks for parts of the name and has its own view of
\* some metrics.
MetricGroup(metricType) ==
    CASE metricType \in {"p99_latency_ms", "comms_latency_ms", "cycle_time_ms", "gc_pause_ms"} -> "latency"
      [] metricType \in QueueMetrics -> "queue"
      [] metricType \in ErrorMetrics -> "error"
      [] OTHER                       -> "resource"

\* The ids the aggregation reads from the text an anomaly carries,
\* "cross-validated:a,b|alerts:a,b": split at the commas, the first part ends
\* in an id that is glued to the first one of the second part.
IdsRead(confirmed, attached) ==
    LET Single(ids) == [i \in DOMAIN ids |-> <<ids[i]>>]
        first == IF confirmed = << >> THEN << >>
                 ELSE IF attached = << >> THEN Single(confirmed)
                 ELSE Single(Front(confirmed)) \o <<<<Last(confirmed), Head(attached)>>>>
                      \o Single(Tail(attached))
    IN  first \o Single(attached)

AddNew(list, item) == IF Contains(list, item) THEN list ELSE Append(list, item)

Accumulator ==
    [first |-> NoEvent, last |-> NoEvent, alertCount |-> 0, severityMax |-> "warning",
     worstSigma |-> Whole(0), worstAlert |-> NoEvent, metricGroup |-> "mixed",
     externalAlertIds |-> << >>, crossValidated |-> FALSE]

Earlier(a, b) == IF a = NoEvent THEN b ELSE IF b = NoEvent \/ a <= b THEN a ELSE b
Later(a, b) == IF a = NoEvent THEN b ELSE IF b = NoEvent \/ a >= b THEN a ELSE b

\* AggregationFunction.add
AddToIncident(acc, m) ==
    LET worse == Exceeds(m.deviation, acc.worstSigma)
    IN  [first |-> Earlier(acc.first, m.event.timestamp),
         last |-> Later(acc.last, m.event.timestamp),
         alertCount |-> acc.alertCount + 1,
         severityMax |-> MaxSeverity(acc.severityMax, m.event.severity),
         worstSigma |-> IF worse THEN m.deviation ELSE acc.worstSigma,
         worstAlert |-> IF worse THEN m.event ELSE acc.worstAlert,
         metricGroup |-> IF worse THEN MetricGroup(m.event.metricType) ELSE acc.metricGroup,
         externalAlertIds |-> FoldLeft(AddNew, acc.externalAlertIds, IdsRead(m.confirmed, m.attached)),
         crossValidated |-> acc.crossValidated \/ m.confirmed # << >>]

\* AggregationFunction.merge; of two equal deviations the first stays the worst.
Merge(a, b) ==
    LET worse == IF Exceeds(b.worstSigma, a.worstSigma) THEN b ELSE a
    IN  [first |-> Earlier(a.first, b.first),
         last |-> Later(a.last, b.last),
         alertCount |-> a.alertCount + b.alertCount,
         severityMax |-> MaxSeverity(a.severityMax, b.severityMax),
         worstSigma |-> worse.worstSigma, worstAlert |-> worse.worstAlert,
         metricGroup |-> worse.metricGroup,
         externalAlertIds |-> FoldLeft(AddNew, a.externalAlertIds, b.externalAlertIds),
         crossValidated |-> a.crossValidated \/ b.crossValidated]

\* A window's accumulator after what it was given.
Aggregated(members) == FoldLeft(AddToIncident, Accumulator, members)

\* getResult; the incident's id is made of its first time and its node.
Incident(node, acc) ==
    [id |-> <<acc.first, node>>, node |-> node, severityMax |-> acc.severityMax,
     metricGroup |-> acc.metricGroup, worstAlert |-> acc.worstAlert]

\* A MapState after put.
Put(map, key, value) ==
    [x \in DOMAIN map \cup {key} |-> IF x = key THEN value ELSE map[x]]

WindowStart(timestamp) == BucketKey(timestamp) * AGGREGATION_WINDOW_SECONDS
Passed(start) == start + AGGREGATION_WINDOW_SECONDS <= watermark

\* An element goes into the window of the record's time, which is the time of
\* the element that made the operator send it; late ones are dropped.
Emit(m, timestamp) ==
    LET w == <<m.event.node, WindowStart(timestamp)>>
        given == IF w \in DOMAIN windows THEN windows[w] ELSE << >>
    IN  windows' = IF Passed(w[2]) THEN windows ELSE Put(windows, w, Append(given, m))

\* The watermark passes the end of windows.  It trails the latest element of
\* the two streams; an idle stream does not hold it back.
WatermarkAdvances ==
    /\ watermark' \in {w[2] + AGGREGATION_WINDOW_SECONDS : w \in Windows}
    /\ watermark < watermark' /\ watermark' <= maxSeen - OUT_OF_ORDERNESS
    /\ UNCHANGED <<buckets, samples, counts, lastAnomaly, lastAlert, alertsSeen, pendingIds,
                   timers, now, maxSeen, windows, outbox>>

\* A node's windows fire in their order.
WindowFires(w) ==
    /\ w \in DOMAIN windows /\ Passed(w[2])
    /\ \A v \in DOMAIN windows : v[1] = w[1] => v[2] >= w[2]
    /\ outbox' = Append(outbox, Incident(w[1], Aggregated(windows[w])))
    /\ windows' = Restrict(windows, DOMAIN windows \ {w})
    /\ UNCHANGED <<buckets, samples, counts, lastAnomaly, lastAlert, alertsSeen, pendingIds,
                   timers, now, maxSeen, watermark>>

----------------------------------------------------------------------------
(* Cross-validation *)

Near(s, t) == s - t <= CROSS_WINDOW /\ t - s <= CROSS_WINDOW

\* Mutant: no timer is registered for an anomaly.
AnomalyTimersForgotten(n) == timers[n]

\* The timers after an anomaly arrived.
AnomalyTimers(n) == timers[n] \cup {now + CROSS_WINDOW}

\* Mutant: the age of the alert is not looked at.
AlertOfAnyAge(anomaly) == lastAlert[anomaly.event.node] # NoEvent

RecentAlert(anomaly) ==
    LET alert == lastAlert[anomaly.event.node]
    IN  alert # NoEvent /\ Near(anomaly.event.timestamp, alert.timestamp)

\* processElement1: the stored anomaly is the one that arrived; pending ids go
\* out with it whatever their age.
CrossValidate(anomaly) ==
    LET n      == anomaly.event.node
        recent == RecentAlert(anomaly)
        ids    == IF recent THEN Append(pendingIds[n], lastAlert[n].id) ELSE pendingIds[n]
    IN  /\ lastAnomaly' = [lastAnomaly EXCEPT ![n] = anomaly]
        /\ timers' = [timers EXCEPT ![n] = AnomalyTimers(n)]
        /\ pendingIds' = [pendingIds EXCEPT ![n] = ids]
        /\ Emit([event |-> anomaly.event, deviation |-> anomaly.deviation,
                 confirmed |-> IF recent THEN ids ELSE << >>, attached |-> ids],
                anomaly.event.timestamp)

\* What processElement2 does with every alert.
StoreAlert(a) ==
    /\ lastAlert' = [lastAlert EXCEPT ![a.node] = a]
    /\ alertsSeen' = alertsSeen \cup {a}
    /\ pendingIds' = [pendingIds EXCEPT ![a.node] = AddNew(@, a.id)]
    /\ timers' = [timers EXCEPT ![a.node] = @ \cup {now + CROSS_WINDOW}]
    /\ maxSeen' = Max({maxSeen, a.timestamp})
    /\ UNCHANGED <<buckets, samples, counts, lastAnomaly, now, watermark, outbox>>

Confirms(a) ==
    /\ lastAnomaly[a.node] # NoEvent
    /\ Near(a.timestamp, lastAnomaly[a.node].event.timestamp)

\* The stored anomaly is sent once more, by every alert that confirms it.
AlertConfirms(a) ==
    /\ Confirms(a)
    /\ StoreAlert(a)
    /\ Emit([event |-> lastAnomaly[a.node].event, deviation |-> lastAnomaly[a.node].deviation,
             confirmed |-> <<a.id>>, attached |-> << >>],
            a.timestamp)

AlertWaits(a) ==
    /\ ~Confirms(a)
    /\ StoreAlert(a)
    /\ UNCHANGED windows

\* onTimer: what is older than the window by processing time is cleared, the
\* pending ids in any case.
TimerFires(n, t) ==
    LET Expired(timestamp) == now - timestamp > CROSS_WINDOW
    IN  /\ t \in timers[n] /\ t <= now
        /\ timers' = [timers EXCEPT ![n] = @ \ {t}]
        /\ lastAnomaly' = [lastAnomaly EXCEPT
               ![n] = IF @ # NoEvent /\ Expired(@.event.timestamp) THEN NoEvent ELSE @]
        /\ lastAlert' = [lastAlert EXCEPT ![n] = IF @ # NoEvent /\ Expired(@.timestamp) THEN NoEvent ELSE @]
        /\ pendingIds' = [pendingIds EXCEPT ![n] = << >>]
        /\ UNCHANGED <<buckets, samples, counts, alertsSeen, now, maxSeen, watermark, windows, outbox>>

ClockAdvances ==
    /\ now' \in Clock /\ now < now'
    /\ UNCHANGED <<buckets, samples, counts, lastAnomaly, lastAlert, alertsSeen, pendingIds,
                   timers, maxSeen, watermark, windows, outbox>>

----------------------------------------------------------------------------
(* Metrics: baseline, router, de-jitter *)

BucketOf(e) ==
    LET b == BucketKey(e.timestamp)
    IN  IF b \in DOMAIN buckets[Key(e)] THEN buckets[Key(e)][b] ELSE EmptyBucket

SamplesOf(e) ==
    LET b == BucketKey(e.timestamp)
    IN  IF b \in DOMAIN samples[Key(e)] THEN samples[Key(e)][b] ELSE << >>

\* Every metric goes into its bucket.
Observe(e) ==
    /\ buckets' = [buckets EXCEPT ![Key(e)] =
                      Put(@, BucketKey(e.timestamp), Add(BucketOf(e), e.value))]
    /\ samples' = [samples EXCEPT ![Key(e)] =
                      Put(@, BucketKey(e.timestamp), Append(SamplesOf(e), e.value))]
    /\ maxSeen' = Max({maxSeen, e.timestamp})
    /\ UNCHANGED <<lastAlert, alertsSeen, now, watermark, outbox>>

\* The baseline its deviation comes from; the bucket it went into has no part in it.
BaselineFor(e) == Baseline(buckets[Key(e)], BucketKey(e.timestamp), e.value)

\* Mutant: two anomalies suffice.
PersistentAfterTwo(count) == count >= DEJITTER_CONSECUTIVE_WINDOWS - 1

Persistent(count) == count >= DEJITTER_CONSECUTIVE_WINDOWS

\* Normal metrics and those of a cold start leave the stream at the router.
NormalMetric(e) ==
    /\ Route(e, BaselineFor(e)) # "anomaly"
    /\ Observe(e)
    /\ UNCHANGED <<counts, lastAnomaly, pendingIds, timers, windows>>

\* The counter only ever sees anomalies: the normal metrics that would reset
\* it have left the stream.
Counted(e) == [counts EXCEPT ![Key(e)] = @ + 1]

UnconfirmedAnomaly(e) ==
    /\ Route(e, BaselineFor(e)) = "anomaly"
    /\ Observe(e)
    /\ counts' = Counted(e)
    /\ ~Persistent(counts'[Key(e)])
    /\ UNCHANGED <<lastAnomaly, pendingIds, timers, windows>>

ConfirmedAnomaly(e) ==
    /\ Route(e, BaselineFor(e)) = "anomaly"
    /\ Observe(e)
    /\ counts' = Counted(e)
    /\ Persistent(counts'[Key(e)])
    /\ CrossValidate([event |-> e, deviation |-> BaselineFor(e).deviation])

StreamNext ==
    \/ \E e \in MetricEvents : NormalMetric(e) \/ UnconfirmedAnomaly(e) \/ ConfirmedAnomaly(e)
    \/ \E a \in AlertEvents : AlertConfirms(a) \/ AlertWaits(a)
    \/ \E n \in Machines : \E t \in timers[n] : TimerFires(n, t)
    \/ ClockAdvances
    \/ WatermarkAdvances
    \/ \E w \in DOMAIN windows : WindowFires(w)

StreamSpec == StreamInit /\ [][StreamNext]_streamVars

----------------------------------------------------------------------------
(* Properties *)

Members == UNION {Range(windows[w]) : w \in DOMAIN windows}

\* The mean of values, and their squared distances from a center.
MeanOf(values) == Frac(FoldLeft(+, 0, values), Len(values))
Spread(values, center) ==
    FoldLeft(LAMBDA sum, v : Plus(sum, Square(Minus(Whole(v), center))), Whole(0), values)

\* Welford's running statistics and the pooling around the mean of the days'
\* means give the baseline that the values of the days before define, in
\* whatever order they arrived: the mean of the daily means, and the squared
\* distances of all values from it over one less than their number.
BaselineIsHistory ==
    \A k \in Keys, e \in MetricEvents :
        LET b      == BucketKey(e.timestamp)
            days   == History(samples[k], b)
            Of(d)  == samples[k][b - d * BUCKETS_PER_DAY]
            mean   == Per(Total([d \in days |-> MeanOf(Of(d))]), Cardinality(days))
            spread == Total([d \in days |-> Spread(Of(d), mean)])
            number == SumFunction([d \in days |-> Len(Of(d))])
            base   == Baseline(buckets[k], b, e.value)
        IN  Cardinality(days) >= 2 =>
                base.mean = mean /\ base.variance = Per(spread, number - 1)

\* An anomaly is marked as cross-validated only if an alert of its node came
\* within a minute of event time, however old the stored alert or anomaly had
\* become by the time the other one arrived and whatever timers ran.
ValidatedByNearAlert ==
    \A m \in Members : m.confirmed # << >> =>
        \E a \in alertsSeen :
            /\ a.node = m.event.node /\ Near(a.timestamp, m.event.timestamp)
            /\ Contains(m.confirmed, a.id)

\* Ids that wait to be attached have a timer that will clear them, though
\* anomalies add the id of a stored alert whose own timer is long past.
PendingIdsExpire ==
    \A n \in Machines : pendingIds[n] # << >> => timers[n] # {}

\* No anomaly is aggregated before its key had three of them, alerts that
\* confirm it notwithstanding.
OnlyPersistentAggregated ==
    \A m \in Members : counts[Key(m.event)] >= DEJITTER_CONSECUTIVE_WINDOWS

\* The accumulator depends only on what a window was given, not on how it was
\* split between partial aggregates, and names every alert its anomalies carry.
WindowsAddUp ==
    \A w \in DOMAIN windows :
        LET members == windows[w]
            acc     == Aggregated(members)
        IN  /\ \A i \in 0 .. Len(members) :
                  Merge(Aggregated(SubSeq(members, 1, i)),
                        Aggregated(SubSeq(members, i + 1, Len(members)))) = acc
            /\ \A m \in Range(members) :
                  Range(m.attached) \subseteq {id[1] : id \in {x \in Range(acc.externalAlertIds) : Len(x) = 1}}
====

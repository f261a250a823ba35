---- MODULE DynamicBaseline ----
(***************************************************************************)
(* The arithmetic of the Flink job's baseline and routing, without state   *)
(* (flink/.../process/DynamicBaselineFunction.java and ZScoreRouter.java,  *)
(* with the tables of config/ThresholdConfig.java).                        *)
(*                                                                         *)
(* Doubles are exact fractions.  A standard deviation appears as its       *)
(* square, the variance, and a deviation in sigmas as its square too, so   *)
(* that no root is taken.                                                  *)
(***************************************************************************)
EXTENDS Integers, FiniteSets, Functions, Fractions

----------------------------------------------------------------------------
(* BucketStats and the baseline *)

BUCKETS_PER_DAY == 288
BUCKET_SIZE_SECONDS == 300
BASELINE_DAYS == 7

BucketKey(timestamp) == timestamp \div BUCKET_SIZE_SECONDS

EmptyBucket == [count |-> 0, mean |-> Whole(0), m2 |-> Whole(0)]

\* Mutant: the squared difference is taken from the old mean alone.
AddFromOldMean(stats, value) ==
    LET count == stats.count + 1
        delta == Minus(Whole(value), stats.mean)
    IN  [count |-> count, mean |-> Plus(stats.mean, Per(delta, count)),
         m2    |-> Plus(stats.m2, Times(delta, delta))]

\* Welford's update of one bucket.
Add(stats, value) ==
    LET count == stats.count + 1
        delta == Minus(Whole(value), stats.mean)
        mean  == Plus(stats.mean, Per(delta, count))
    IN  [count |-> count, mean |-> mean,
         m2    |-> Plus(stats.m2, Times(delta, Minus(Whole(value), mean)))]

\* The buckets at the same time of day on the days before, as far as they exist.
History(buckets, bucketKey) ==
    {day \in 1 .. BASELINE_DAYS : bucketKey - day * BUCKETS_PER_DAY \in DOMAIN buckets}

\* What an event of a value is enriched with: the mean of the days' means, the
\* variance pooled around it, and the deviation.  Below two days it is a cold start.
Baseline(buckets, bucketKey, value) ==
    LET days      == History(buckets, bucketKey)
        Of(day)   == buckets[bucketKey - day * BUCKETS_PER_DAY]
        mean      == Per(Total([d \in days |-> Of(d).mean]), Cardinality(days))
        Shift(d)  == Times(Whole(Of(d).count), Square(Minus(Of(d).mean, mean)))
        m2        == Total([d \in days |-> Plus(Of(d).m2, Shift(d))])
        count     == SumFunction([d \in days |-> Of(d).count])
        variance  == IF count > 1 THEN Per(m2, count - 1) ELSE Whole(1)
        distance  == Square(Minus(Whole(value), mean))
    IN  IF Cardinality(days) < 2
        THEN [mean |-> Whole(value), variance |-> Whole(1), deviation |-> Whole(0)]
        ELSE [mean |-> mean, variance |-> variance,
              deviation |-> IF Exceeds(variance, Whole(0)) THEN Quotient(distance, variance) ELSE Whole(0)]

----------------------------------------------------------------------------
(* ThresholdConfig and ZScoreRouter *)

LatencyMetrics ==
    {"p99_latency_ms", "comms_latency_ms", "scan_cycle_ms", "cycle_time_ms", "gc_pause_ms",
     "program_cycle_us", "joint_angle_0_deg", "feed_rate_mm_min"}
QueueMetrics ==
    {"queue_depth", "msg_queue_depth", "connection_pool_used", "thread_pool_active", "connection_count"}
ErrorMetrics == {"error_rate"}

\* Tenths of a sigma; the resource metrics have the default's 3.0.
BaseThreshold(metricType) ==
    CASE metricType \in LatencyMetrics -> 25
      [] metricType \in QueueMetrics   -> 20
      [] OTHER                         -> 30

ProfileOffset(lineProfile) ==
    CASE lineProfile = "precision_machining" -> -3
      [] lineProfile = "assembly"            -> -1
      [] OTHER                               -> 0

\* In percent; error rates are modelled as percentages.
ERROR_RATE_ABSOLUTE_THRESHOLD == 1

Threshold(metricType, lineProfile) == BaseThreshold(metricType) + ProfileOffset(lineProfile)

\* The router's three outputs.  A deviation of 0 from a variance up to 1 counts
\* as a cold start, wherever it comes from.
Route(event, baseline) ==
    IF event.metricType \in ErrorMetrics
    THEN IF event.value > ERROR_RATE_ABSOLUTE_THRESHOLD THEN "anomaly" ELSE "normal"
    ELSE IF baseline.deviation = Whole(0) /\ ~Exceeds(baseline.variance, Whole(1)) THEN "cold_start"
    ELSE IF Exceeds(Times(Whole(100), baseline.deviation),
                    Whole(Threshold(event.metricType, event.lineProfile) ^ 2))
         THEN "anomaly" ELSE "normal"
====

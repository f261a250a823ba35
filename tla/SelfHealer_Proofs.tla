---- MODULE SelfHealer_Proofs ----
(***************************************************************************)
(* Proofs about SelfHealer for any playbook whose metrics have distinct    *)
(* names, any window and any values: type correctness, the meaning of the  *)
(* violation counters, the rollback on the first breach, and the length of *)
(* a window that was passed.                                               *)
(*                                                                         *)
(* A breach is a property of the readings, the rollback one of a counter.  *)
(* The counters are streaks (Streak), and as long as no rollback is under  *)
(* way each is below what its metric needs (BelowThreshold); then a new    *)
(* reading completes a breach exactly when its counter reaches the need.   *)
(***************************************************************************)
EXTENDS SelfHealer, TLAPS

\* The sequence s of readings ends with exactly c violations.
Streak(s, c) ==
    /\ c <= Len(s)
    /\ \A i \in Len(s) - c + 1 .. Len(s) : s[i]
    /\ c < Len(s) => ~s[Len(s) - c]

\* The n readings of s up to the k-th are violations.
Breach(s, n, k) ==
    /\ k >= n
    /\ \A i \in k - n + 1 .. k : s[i]

BelowThreshold ==
    \A m \in Metrics :
        counters[m] < Needed(m) \/ (RollingBack /\ m = cursor)

\* Where the coroutine stands, the result and the position in the loops fit.
Position ==
    /\ pc \in {"acting", "sleeping", "checking", "rolling_back"} <=> result = "none"
    /\ pc = "acting" => elapsed = 0 /\ cursor = 1
    /\ RollingBack => cursor \in Metrics
    /\ pc = "checking" => elapsed < WatchWindow[risk]
    /\ elapsed > 0 => elapsed - CheckInterval < WatchWindow[risk]
    /\ result = "success" => elapsed >= WatchWindow[risk]

\* The checks a metric has seen take up the time elapsed: one more of them
\* when the current check has passed it.
Timing ==
    ~RollingBack =>
        \A m \in Metrics :
            Len(violations[m]) * CheckInterval
                = IF pc = "checking" /\ m < cursor THEN elapsed + CheckInterval ELSE elapsed

IInv ==
    /\ TypeOK
    /\ Position
    /\ CountersAreStreaks
    /\ BelowThreshold
    /\ RollbackOnFirstBreach
    /\ Timing

----------------------------------------------------------------------------
(* Sequences of readings *)

LEMMA AppendReading ==
    ASSUME NEW s \in Seq(BOOLEAN), NEW b \in BOOLEAN
    PROVE  /\ Append(s, b) \in Seq(BOOLEAN)
           /\ Len(s) \in Nat
           /\ Len(Append(s, b)) = Len(s) + 1
           /\ Append(s, b)[Len(s) + 1] = b
           /\ \A i \in 1 .. Len(s) : Append(s, b)[i] = s[i]
  OBVIOUS

\* A reading extends the streak of violations or ends it.
LEMMA StreakStep ==
    ASSUME NEW s \in Seq(BOOLEAN), NEW c \in Nat, NEW b \in BOOLEAN, Streak(s, c)
    PROVE  Streak(Append(s, b), IF b THEN c + 1 ELSE 0)
<1> DEFINE t == Append(s, b)
<1>1. /\ Len(s) \in Nat /\ Len(t) = Len(s) + 1 /\ t[Len(s) + 1] = b
      /\ \A i \in 1 .. Len(s) : t[i] = s[i]
  BY AppendReading
<1> HIDE DEF t
<1>2. CASE b
  <2>1. ASSUME NEW i \in Len(t) - (c + 1) + 1 .. Len(t)
        PROVE  t[i]
    <3>1. CASE i = Len(s) + 1
      BY <1>1, <1>2, <3>1
    <3>2. CASE i # Len(s) + 1
      <4>1. i \in Len(s) - c + 1 .. Len(s) /\ i \in 1 .. Len(s)
        BY <1>1, <2>1, <3>2 DEF Streak
      <4> QED BY <1>1, <4>1 DEF Streak
    <3> QED BY <3>1, <3>2
  <2>2. c + 1 < Len(t) => ~t[Len(t) - (c + 1)]
    <3> SUFFICES ASSUME c + 1 < Len(t) PROVE ~t[Len(t) - (c + 1)]
      OBVIOUS
    <3>1. Len(s) - c \in 1 .. Len(s) /\ c < Len(s) /\ Len(t) - (c + 1) = Len(s) - c
      BY <1>1
    <3>2. ~s[Len(s) - c]
      BY <3>1 DEF Streak
    <3> QED BY <1>1, <3>1, <3>2
  <2>3. c + 1 <= Len(t)
    BY <1>1 DEF Streak
  <2>4. Streak(t, c + 1)
    BY <2>1, <2>2, <2>3 DEF Streak
  <2> QED BY <1>2, <2>4 DEF t
<1>3. CASE ~b
  <2>1. ~t[Len(t) - 0] /\ 0 <= Len(t) /\ Len(t) - 0 + 1 .. Len(t) = {}
    BY <1>1, <1>3
  <2>2. Streak(t, 0)
    BY <2>1 DEF Streak
  <2> QED BY <1>3, <2>2 DEF t
<1> QED BY <1>2, <1>3

\* A later reading does not change what was a breach.
LEMMA BreachBefore ==
    ASSUME NEW s \in Seq(BOOLEAN), NEW b \in BOOLEAN, NEW n \in Nat \ {0}, NEW k \in 1 .. Len(s)
    PROVE  Breach(Append(s, b), n, k) <=> Breach(s, n, k)
<1>1. \A i \in 1 .. Len(s) : Append(s, b)[i] = s[i]
  BY AppendReading
<1>2. k >= n => \A i \in k - n + 1 .. k : i \in 1 .. Len(s)
  BY AppendReading
<1> QED BY <1>1, <1>2 DEF Breach

\* A reading completes a breach of n when its streak reaches n.
LEMMA BreachNow ==
    ASSUME NEW s \in Seq(BOOLEAN), NEW c \in Nat, NEW b \in BOOLEAN, NEW n \in Nat \ {0},
           Streak(s, c), c < n
    PROVE  Breach(Append(s, b), n, Len(s) + 1) <=> b /\ c + 1 >= n
<1> DEFINE t == Append(s, b)
<1>1. /\ Len(s) \in Nat /\ Len(t) = Len(s) + 1 /\ t[Len(s) + 1] = b
      /\ \A i \in 1 .. Len(s) : t[i] = s[i]
  BY AppendReading
<1>2. Streak(t, IF b THEN c + 1 ELSE 0)
  BY StreakStep
<1> HIDE DEF t
<1>3. CASE ~b
  <2>1. ~Breach(t, n, Len(s) + 1)
    <3>1. Len(s) + 1 \in Len(s) + 1 - n + 1 .. Len(s) + 1
      BY <1>1
    <3> QED BY <1>1, <1>3, <3>1 DEF Breach
  <2> QED BY <1>3, <2>1 DEF t
<1>4. CASE b /\ c + 1 >= n
  <2>1. n = c + 1 /\ Streak(t, c + 1)
    BY <1>2, <1>4
  <2>2. Breach(t, n, Len(s) + 1)
    BY <1>1, <2>1 DEF Breach, Streak
  <2> QED BY <1>4, <2>2 DEF t
<1>5. CASE b /\ c + 1 < n
  <2>1. Streak(t, c + 1)
    BY <1>2, <1>5
  <2>2. ~Breach(t, n, Len(s) + 1)
    <3> SUFFICES ASSUME Breach(t, n, Len(s) + 1) PROVE FALSE
      OBVIOUS
    <3>1. c + 1 < Len(t)
      BY <1>1, <1>5 DEF Breach
    <3>2. Len(t) - (c + 1) \in Len(s) + 1 - n + 1 .. Len(s) + 1
      BY <1>1, <1>5, <3>1
    <3> QED BY <2>1, <3>1, <3>2 DEF Breach, Streak
  <2>3. ~(c + 1 >= n)
    BY <1>5
  <2> QED BY <2>2, <2>3, Zenon DEF t
<1>6. c + 1 >= n \/ c + 1 < n
  OBVIOUS
<1> QED BY <1>3, <1>4, <1>5, <1>6, Zenon

----------------------------------------------------------------------------
(* The data of a playbook *)

LEMMA PlaybookData ==
    /\ Metrics = 1 .. Len(TriggerMetrics) /\ Len(TriggerMetrics) \in Nat
    /\ \A m \in Metrics : Needed(m) \in Nat \ {0}
    /\ CheckInterval \in Nat \ {0} /\ \A r \in Risks : WatchWindow[r] \in Nat
<1> DEFINE Definitions == [name : STRING, about : {"error", "latency", "cpu", "mem", "other"},
                           threshold_type : STRING, threshold_value : Int,
                           consecutive_violations : Nat \ {0}]
<1>1. TriggerMetrics \in Seq(Definitions)
  BY TriggerMetricsAssumption
<1>2. \A d \in Definitions : d.consecutive_violations \in Nat \ {0}
  OBVIOUS
<1> HIDE DEF Definitions
<1>3. Metrics = 1 .. Len(TriggerMetrics) /\ Len(TriggerMetrics) \in Nat
  BY <1>1 DEF Metrics
<1>4. \A m \in Metrics : TriggerMetrics[m] \in Definitions
  BY <1>1, <1>3
<1>5. \A m \in Metrics : Needed(m) \in Nat \ {0}
  BY <1>2, <1>4 DEF Needed
<1> QED BY <1>3, <1>5, WindowAssumption

\* The counters of the specification are streaks, its breaches are breaches.
LEMMA Readings ==
    /\ CountersAreStreaks <=> \A m \in Metrics : Streak(violations[m], counters[m])
    /\ \A m \in Metrics : \A k : BreachAt(m, k) <=> Breach(violations[m], Needed(m), k)
  BY DEF CountersAreStreaks, Streak, BreachAt, Breach

LEMMA EvaluateThresholdBoolean ==
    ASSUME NEW d, NEW value PROVE EvaluateThreshold(d, value) \in BOOLEAN
  BY DEF EvaluateThreshold

----------------------------------------------------------------------------
(* The invariant *)

LEMMA InitInvariant == Init => IInv
<1> SUFFICES ASSUME Init PROVE IInv
  OBVIOUS
<1>1. TypeOK
  BY PlaybookData DEF Init, TypeOK
<1>2. Position
  BY DEF Init, Position, RollingBack
<1>3. CountersAreStreaks
  BY DEF Init, CountersAreStreaks
<1>4. BelowThreshold
  <2>1. \A m \in Metrics : counters[m] = 0
    BY DEF Init
  <2> QED BY <2>1, PlaybookData DEF BelowThreshold
<1>5. RollbackOnFirstBreach
  BY DEF Init, RollbackOnFirstBreach
<1>6. Timing
  BY PlaybookData DEF Init, Timing
<1> QED BY <1>1, <1>2, <1>3, <1>4, <1>5, <1>6 DEF IInv

\* Steps that leave the readings, the counters and whether a rollback is under
\* way alone, and the cursor too unless no rollback is.
LEMMA ReadingsKept ==
    ASSUME CountersAreStreaks, BelowThreshold, RollbackOnFirstBreach,
           UNCHANGED <<counters, violations>>, RollingBack' <=> RollingBack,
           RollingBack => UNCHANGED cursor
    PROVE  CountersAreStreaks' /\ BelowThreshold' /\ RollbackOnFirstBreach'
<1>1. CountersAreStreaks'
  BY DEF CountersAreStreaks
<1>2. BelowThreshold'
  BY DEF BelowThreshold, Metrics, Needed
<1>3. RollbackOnFirstBreach'
  <2>1. \A m \in Metrics : \A k : BreachAt(m, k)' <=> BreachAt(m, k)
    BY DEF BreachAt, Needed
  <2> QED BY <2>1 DEF RollbackOnFirstBreach, Metrics
<1> QED BY <1>1, <1>2, <1>3

LEMMA StepInvariant == IInv /\ [Next]_vars => IInv'
<1> SUFFICES ASSUME IInv, [Next]_vars PROVE IInv'
  OBVIOUS
<1> USE PlaybookData
<1>1. CASE ExecuteAction
  <2>1. TypeOK'
    BY <1>1 DEF IInv, TypeOK, ExecuteAction
  <2>2. Position' /\ Timing'
    BY <1>1 DEF IInv, Position, Timing, RollingBack, ExecuteAction
  <2> QED BY <1>1, <2>1, <2>2, ReadingsKept DEF IInv, ExecuteAction, RollingBack
<1>2. CASE EnterObservation
  <2>1. TypeOK'
    BY <1>2 DEF IInv, TypeOK, EnterObservation
  <2>2. Position' /\ Timing' /\ (RollingBack' <=> RollingBack)
    BY <1>2 DEF IInv, Position, Timing, RollingBack, EnterObservation
  <2> QED BY <1>2, <2>1, <2>2, ReadingsKept DEF IInv, EnterObservation
<1>3. CASE Sleep
  <2>1. TypeOK'
    BY <1>3 DEF IInv, TypeOK, Sleep
  <2>2. ~RollingBack /\ ~RollingBack'
    BY <1>3 DEF IInv, Position, RollingBack, Sleep
  <2>3. Position'
    BY <1>3, <2>2 DEF IInv, Position, RollingBack, Sleep, MoreChecks
  <2>4. Timing'
    BY <1>3, <2>2 DEF IInv, Timing, RollingBack, Sleep, Metrics, TypeOK
  <2> QED BY <1>3, <2>1, <2>2, <2>3, <2>4, ReadingsKept DEF IInv, Sleep
<1>4. CASE CheckMetric
  <2>1. PICK value \in FetchMetric(TriggerMetrics[cursor]) :
           LET b == EvaluateThreshold(TriggerMetrics[cursor], value)
           IN  /\ counters' = [counters EXCEPT ![cursor] = Counted(cursor, b)]
               /\ violations' = [violations EXCEPT ![cursor] = Append(@, b)]
               /\ pc' = IF RollbackDue(cursor, b) THEN "rolling_back" ELSE pc
               /\ cursor' = IF RollbackDue(cursor, b) THEN cursor ELSE cursor + 1
    BY <1>4 DEF CheckMetric
  <2>2. PICK b \in BOOLEAN :
           /\ counters' = [counters EXCEPT ![cursor] = Counted(cursor, b)]
           /\ violations' = [violations EXCEPT ![cursor] = Append(@, b)]
           /\ pc' = IF RollbackDue(cursor, b) THEN "rolling_back" ELSE pc
           /\ cursor' = IF RollbackDue(cursor, b) THEN cursor ELSE cursor + 1
    BY <2>1, EvaluateThresholdBoolean, Zenon
  <2> DEFINE s == violations[cursor]
             c == counters[cursor]
             n == Needed(cursor)
  <2>3. /\ pc = "checking" /\ cursor \in Metrics /\ result = "none"
        /\ UNCHANGED <<risk, planned, statuses, elapsed, issued, result>>
        /\ ~RollingBack
    BY <1>4 DEF CheckMetric, IInv, Position, RollingBack
  <2>4. /\ s \in Seq(BOOLEAN) /\ c \in Nat /\ n \in Nat \ {0}
        /\ c < n /\ Streak(s, c)
    BY <2>3, Readings DEF IInv, TypeOK, BelowThreshold
  <2>5. RollingBack' <=> b /\ c + 1 >= n
    BY <2>2, <2>3 DEF RollingBack, RollbackDue, Counted
  <2>6. /\ violations'[cursor] = Append(s, b)
        /\ \A m \in Metrics \ {cursor} : violations'[m] = violations[m]
        /\ counters'[cursor] = IF b THEN c + 1 ELSE 0
        /\ \A m \in Metrics \ {cursor} : counters'[m] = counters[m]
    BY <2>2, <2>3 DEF IInv, TypeOK, Counted
  <2>7. CountersAreStreaks'
    <3>1. \A m \in Metrics : Streak(violations'[m], counters'[m])
      BY <2>3, <2>4, <2>6, Readings, StreakStep DEF IInv
    <3> QED BY <3>1 DEF CountersAreStreaks, Streak
  <2>8. BelowThreshold'
    <3>1. counters'[cursor] < n \/ RollingBack'
      BY <2>4, <2>5, <2>6
    <3>2. RollingBack' => cursor' = cursor
      BY <2>2, <2>4, <2>5 DEF RollbackDue, Counted
    <3>3. \A m \in Metrics \ {cursor} : counters'[m] < Needed(m)
      BY <2>3, <2>6 DEF IInv, BelowThreshold
    <3>4. \A m \in Metrics : counters'[m] < Needed(m) \/ (RollingBack' /\ m = cursor')
      BY <3>1, <3>2, <3>3
    <3> QED BY <3>4 DEF BelowThreshold, Metrics, Needed
  <2>9. RollbackOnFirstBreach'
    <3>1. /\ Len(s) \in Nat
          /\ DOMAIN violations'[cursor] = 1 .. Len(s) + 1
          /\ Len(violations'[cursor]) = Len(s) + 1
      BY <2>4, <2>6, AppendReading
    <3>2. \A m \in Metrics : \A k : BreachAt(m, k)' <=> Breach(violations'[m], Needed(m), k)
      BY DEF BreachAt, Breach, Needed
    <3>3. \A m \in Metrics : \A k \in DOMAIN violations[m] : ~Breach(violations[m], Needed(m), k)
      BY <2>3, Readings DEF IInv, RollbackOnFirstBreach
    <3>4. Breach(violations'[cursor], n, Len(s) + 1) <=> RollingBack'
      <4>1. Breach(Append(s, b), n, Len(s) + 1) <=> b /\ c + 1 >= n
        BY <2>4, BreachNow
      <4> QED BY <2>5, <2>6, <4>1, Zenon
    <3>5. \A k \in 1 .. Len(s) : ~Breach(violations'[cursor], n, k)
      <4>1. \A k \in 1 .. Len(s) : Breach(Append(s, b), n, k) <=> Breach(s, n, k)
        BY <2>4, BreachBefore
      <4>2. \A k \in 1 .. Len(s) : ~Breach(s, n, k)
        <5>1. DOMAIN violations[cursor] = 1 .. Len(s)
          BY <2>4
        <5> QED BY <2>3, <3>3, <5>1
      <4> QED BY <2>6, <4>1, <4>2, Zenon
    <3>6. RollingBack' => cursor' = cursor
      BY <2>2, <2>4, <2>5 DEF RollbackDue, Counted
    <3>7. ASSUME NEW m \in Metrics, NEW k \in DOMAIN violations'[m]
          PROVE  BreachAt(m, k)' <=> RollingBack' /\ m = cursor' /\ k = Len(violations'[m])
      <4>1. CASE m # cursor
        BY <2>6, <3>2, <3>3, <3>6, <3>7, <4>1
      <4>2. CASE m = cursor /\ k = Len(s) + 1
        BY <3>1, <3>2, <3>4, <3>6, <4>2
      <4>3. CASE m = cursor /\ k # Len(s) + 1
        <5>1. k \in 1 .. Len(s)
          BY <3>1, <3>7, <4>3
        <5> QED BY <3>1, <3>2, <3>5, <4>3, <5>1
      <4> QED BY <4>1, <4>2, <4>3
    <3> QED BY <3>7 DEF RollbackOnFirstBreach, Metrics
  <2>10. TypeOK'
    <3>1. pc' \in {"checking", "rolling_back"} /\ cursor' \in 1 .. Len(TriggerMetrics) + 1
      BY <2>2, <2>3
    <3>2. violations' \in [Metrics -> Seq(BOOLEAN)]
      BY <2>2, <2>3, <2>4, AppendReading DEF IInv, TypeOK
    <3>3. counters' \in [Metrics -> Nat] /\ \A m \in Metrics : counters'[m] <= Needed(m)
      BY <2>2, <2>3, <2>4, <2>6 DEF IInv, TypeOK, Counted
    <3> QED BY <2>3, <3>1, <3>2, <3>3 DEF IInv, TypeOK, Metrics, Needed
  <2>11. Position'
    BY <2>2, <2>3, <2>5 DEF IInv, Position, RollingBack, RollbackDue, Metrics
  <2>12. Timing'
    <3> SUFFICES ASSUME ~RollingBack', NEW m \in Metrics
                 PROVE  Len(violations'[m]) * CheckInterval
                           = IF pc' = "checking" /\ m < cursor' THEN elapsed' + CheckInterval
                             ELSE elapsed'
      BY DEF Timing, Metrics
    <3>1. pc' = "checking" /\ cursor' = cursor + 1 /\ elapsed' = elapsed
      BY <2>2, <2>3 DEF RollingBack
    <3>2. Len(violations[m]) * CheckInterval
             = IF m < cursor THEN elapsed + CheckInterval ELSE elapsed
      BY <2>3 DEF IInv, Timing
    <3>3. CASE m = cursor
      <4>1. Len(violations'[m]) = Len(s) + 1 /\ Len(s) \in Nat
        BY <2>4, <2>6, <3>3, AppendReading
      <4>2. (Len(s) + 1) * CheckInterval = Len(s) * CheckInterval + CheckInterval
        BY <4>1
      <4>3. Len(s) * CheckInterval = elapsed
        BY <2>3, <3>2, <3>3
      <4> QED BY <2>3, <3>1, <3>3, <4>1, <4>2, <4>3
    <3>4. CASE m # cursor
      <4>1. m < cursor <=> m < cursor'
        BY <2>3, <3>1, <3>4
      <4>2. violations'[m] = violations[m]
        BY <2>6, <3>4
      <4> QED BY <3>1, <3>2, <4>1, <4>2
    <3> QED BY <3>3, <3>4
  <2> QED BY <2>7, <2>8, <2>9, <2>10, <2>11, <2>12 DEF IInv
<1>5. CASE EndCheck
  <2>1. TypeOK'
    BY <1>5 DEF IInv, TypeOK, EndCheck
  <2>2. ~RollingBack /\ ~RollingBack'
    BY <1>5 DEF IInv, Position, RollingBack, EndCheck
  <2>3. Position'
    BY <1>5, <2>2 DEF IInv, TypeOK, Position, RollingBack, EndCheck
  <2>4. Timing'
    <3>1. \A m \in Metrics : m < cursor
      BY <1>5 DEF IInv, TypeOK, EndCheck
    <3> QED BY <1>5, <2>2, <3>1 DEF IInv, Timing, EndCheck, Metrics
  <2> QED BY <1>5, <2>1, <2>2, <2>3, <2>4, ReadingsKept DEF IInv, EndCheck
<1>6. CASE ExecuteRollback
  <2>1. TypeOK'
    BY <1>6, DataAssumption DEF IInv, TypeOK, ExecuteRollback
  <2>2. RollingBack /\ RollingBack'
    BY <1>6 DEF RollingBack, ExecuteRollback
  <2>3. Position' /\ Timing'
    BY <1>6, <2>2 DEF IInv, Position, Timing, ExecuteRollback
  <2> QED BY <1>6, <2>1, <2>2, <2>3, ReadingsKept DEF IInv, ExecuteRollback
<1>7. CASE WindowPassed
  <2>1. TypeOK'
    BY <1>7 DEF IInv, TypeOK, WindowPassed
  <2>2. ~RollingBack /\ ~RollingBack'
    BY <1>7 DEF IInv, Position, RollingBack, WindowPassed
  <2>3. Position'
    BY <1>7, <2>2 DEF IInv, TypeOK, Position, RollingBack, WindowPassed, MoreChecks
  <2>4. Timing'
    BY <1>7, <2>2 DEF IInv, Timing, WindowPassed, Metrics
  <2> QED BY <1>7, <2>1, <2>2, <2>3, <2>4, ReadingsKept DEF IInv, WindowPassed
<1>8. CASE UNCHANGED vars
  BY <1>8 DEF IInv, vars, TypeOK, Position, CountersAreStreaks, BelowThreshold, Timing,
              RollbackOnFirstBreach, RollingBack, BreachAt, Metrics, Needed
<1> QED BY <1>1, <1>2, <1>3, <1>4, <1>5, <1>6, <1>7, <1>8 DEF Next

LEMMA Invariance == Spec => []IInv
<1> QED BY InitInvariant, StepInvariant, PTL DEF Spec

----------------------------------------------------------------------------
(* Theorems *)

\* Every variable keeps its type, and no counter passes what its metric needs.
THEOREM TypeCorrect == Spec => []TypeOK
<1>1. IInv => TypeOK
  BY DEF IInv
<1> QED BY <1>1, Invariance, PTL

\* violation_counters holds, for every metric, the length of the run of
\* violations its readings end with.
THEOREM StreaksCounted == Spec => []CountersAreStreaks
<1>1. IInv => CountersAreStreaks
  BY DEF IInv
<1> QED BY <1>1, Invariance, PTL

\* The first breach of any metric triggers the rollback, and only a breach does.
THEOREM FirstBreachRollsBack == Spec => []RollbackOnFirstBreach
<1>1. IInv => RollbackOnFirstBreach
  BY DEF IInv
<1> QED BY <1>1, Invariance, PTL

\* "success" is returned after a full window of checks of every metric.
THEOREM SuccessWatchedAll == Spec => []WholeWindowWatched
<1>1. IInv => WholeWindowWatched
  <2> SUFFICES ASSUME IInv, result = "success", NEW m \in Metrics
               PROVE  LET n == Len(violations[m])
                      IN  /\ n * CheckInterval >= WatchWindow[risk]
                          /\ n > 0 => (n - 1) * CheckInterval < WatchWindow[risk]
    BY DEF WholeWindowWatched
  <2> DEFINE n == Len(violations[m])
  <2>1. /\ n \in Nat /\ CheckInterval \in Nat \ {0}
        /\ WatchWindow[risk] \in Nat /\ elapsed \in Nat
    BY PlaybookData DEF IInv, TypeOK
  <2>2. n * CheckInterval = elapsed
    BY DEF IInv, Position, Timing, RollingBack
  <2>3. elapsed >= WatchWindow[risk] /\ (elapsed > 0 => elapsed - CheckInterval < WatchWindow[risk])
    BY DEF IInv, Position
  <2> HIDE DEF n
  <2>4. n > 0 => elapsed > 0 /\ (n - 1) * CheckInterval = elapsed - CheckInterval
    BY <2>1, <2>2
  <2>5. n * CheckInterval >= WatchWindow[risk] /\ (n > 0 => (n - 1) * CheckInterval < WatchWindow[risk])
    BY <2>2, <2>3, <2>4
  <2> QED BY <2>5 DEF n
<1> QED BY <1>1, Invariance, PTL

----------------------------------------------------------------------------
(* How long a call can take *)

\* The seconds of the window still to be watched.
WindowLeft == IF elapsed < WatchWindow[risk] THEN WatchWindow[risk] - elapsed ELSE 0

\* More steps than a check of all the metrics takes.
Round == Len(TriggerMetrics) + 3

\* A bound on the steps a call has still to take: posts and whole checks, what
\* is left of the check it is in, the rollback.
StepsLeft ==
    CASE pc = "acting"       -> planned - Len(statuses) + 2 + WindowLeft * Round
      [] pc = "sleeping"     -> 1 + WindowLeft * Round
      [] pc = "checking"     -> (WindowLeft - 1) * Round + Len(TriggerMetrics) + 3 - cursor
      [] pc = "rolling_back" -> 1
      [] OTHER               -> 0

\* Rounds are ordered as their numbers are.
LEMMA FewerRounds ==
    ASSUME NEW a \in Nat, NEW b \in Nat, a < b
    PROVE  /\ a * Round \in Nat /\ b * Round \in Nat /\ (b - 1) * Round \in Nat
           /\ a * Round <= (b - 1) * Round
           /\ (b - 1) * Round + Round = b * Round
<1>1. Round \in Nat
  BY PlaybookData DEF Round
<1>2. PICK d \in Nat : b - 1 = a + d
  <2>1. b - 1 - a \in Nat /\ b - 1 = a + (b - 1 - a)
    OBVIOUS
  <2> QED
    BY <2>1
<1> HIDE DEF Round
<1>3. /\ a * Round \in Nat /\ d * Round \in Nat /\ (a + d) * Round = a * Round + d * Round
      /\ (b - 1 + 1) * Round = (b - 1) * Round + Round
  BY <1>1
<1>4. b = b - 1 + 1
  OBVIOUS
<1> QED
  BY <1>1, <1>2, <1>3, <1>4

LEMMA StepsLeftTypes ==
    ASSUME IInv
    PROVE  /\ WindowLeft \in Nat /\ WindowLeft * Round \in Nat
           /\ Len(TriggerMetrics) \in Nat /\ Metrics = 1 .. Len(TriggerMetrics)
           /\ CheckInterval \in Nat \ {0} /\ WatchWindow[risk] \in Nat /\ elapsed \in Nat
           /\ pc = "checking" => WindowLeft > 0 /\ (WindowLeft - 1) * Round \in Nat
           /\ planned \in Nat /\ Len(statuses) \in Nat /\ Len(statuses) <= planned
           /\ cursor \in 1 .. Len(TriggerMetrics) + 1
<1>1. /\ Len(TriggerMetrics) \in Nat /\ Metrics = 1 .. Len(TriggerMetrics)
      /\ CheckInterval \in Nat \ {0} /\ WatchWindow[risk] \in Nat /\ elapsed \in Nat
      /\ planned \in Nat /\ Len(statuses) \in Nat /\ Len(statuses) <= planned
      /\ cursor \in 1 .. Len(TriggerMetrics) + 1
  BY PlaybookData, DataAssumption DEF IInv, TypeOK
<1>2. WindowLeft \in Nat /\ (pc = "checking" => WindowLeft > 0)
  BY <1>1 DEF WindowLeft, IInv, Position
<1>3. Round \in Nat
  BY <1>1 DEF Round
<1>4. WindowLeft * Round \in Nat
  BY <1>2, <1>3
<1>5. ASSUME pc = "checking" PROVE (WindowLeft - 1) * Round \in Nat
  BY <1>2, <1>5, FewerRounds
<1> QED
  BY <1>1, <1>2, <1>4, <1>5

\* No step is without effect: each leaves a call fewer steps to take.  A call
\* that went round for ever would need a check that does not advance elapsed,
\* an interval of 0, or a metric that is read twice in a check.
THEOREM EveryStepCounts == Spec => [](StepsLeft \in Nat) /\ [][StepsLeft' < StepsLeft]_vars
<1>1. ASSUME IInv PROVE StepsLeft \in Nat
  <2>1. /\ WindowLeft * Round \in Nat /\ Len(TriggerMetrics) \in Nat
        /\ planned \in Nat /\ Len(statuses) \in Nat /\ Len(statuses) <= planned
        /\ cursor \in 1 .. Len(TriggerMetrics) + 1
        /\ pc = "checking" => (WindowLeft - 1) * Round \in Nat
    BY <1>1, StepsLeftTypes
  <2> DEFINE ahead == WindowLeft * Round
             within == (WindowLeft - 1) * Round
  <2>2. StepsLeft = CASE pc = "acting"       -> planned - Len(statuses) + 2 + ahead
                      [] pc = "sleeping"     -> 1 + ahead
                      [] pc = "checking"     -> within + Len(TriggerMetrics) + 3 - cursor
                      [] pc = "rolling_back" -> 1
                      [] OTHER               -> 0
    BY DEF StepsLeft
  <2> HIDE DEF ahead, within
  <2> QED
    BY <2>1, <2>2 DEF ahead, within
<1>2. ASSUME IInv, IInv', Next PROVE StepsLeft' < StepsLeft
  <2> USE <1>2
  <2>0. /\ Len(TriggerMetrics) \in Nat /\ Round = Len(TriggerMetrics) + 3
        /\ Metrics = 1 .. Len(TriggerMetrics)
        /\ WindowLeft \in Nat /\ WindowLeft * Round \in Nat
        /\ cursor \in 1 .. Len(TriggerMetrics) + 1
    BY StepsLeftTypes DEF Round
  <2>1. CASE ExecuteAction
    <3>1. Len(statuses') = Len(statuses) + 1
      BY <2>1 DEF ExecuteAction, IInv, TypeOK
    <3>2. WindowLeft' = WindowLeft /\ pc' = "acting" /\ pc = "acting" /\ planned' = planned
      BY <2>1 DEF ExecuteAction, WindowLeft
    <3> QED
      BY <2>0, <3>1, <3>2, StepsLeftTypes DEF StepsLeft
  <2>2. CASE EnterObservation
    <3>1. WindowLeft' = WindowLeft /\ pc' = "sleeping" /\ pc = "acting" /\ Len(statuses) = planned
      BY <2>2 DEF EnterObservation, WindowLeft
    <3> QED
      BY <2>0, <3>1, StepsLeftTypes DEF StepsLeft
  <2>3. CASE Sleep
    <3>1. /\ WindowLeft' = WindowLeft /\ pc' = "checking" /\ pc = "sleeping" /\ cursor' = 1
          /\ WindowLeft > 0
      BY <2>3, StepsLeftTypes DEF Sleep, WindowLeft, MoreChecks
    <3>2. (WindowLeft - 1) * Round \in Nat /\ (WindowLeft - 1) * Round + Round = WindowLeft * Round
      BY <2>0, <3>1, FewerRounds
    <3>3. /\ StepsLeft = 1 + WindowLeft * Round
          /\ StepsLeft' = (WindowLeft - 1) * Round + Len(TriggerMetrics) + 3 - 1
      BY <3>1 DEF StepsLeft
    <3> QED
      BY <2>0, <3>2, <3>3
  <2>4. CASE CheckMetric
    <3>1. /\ WindowLeft' = WindowLeft /\ pc = "checking" /\ cursor \in Metrics
          /\ \/ pc' = "rolling_back"
             \/ pc' = "checking" /\ cursor' = cursor + 1
      BY <2>4 DEF CheckMetric, WindowLeft
    <3>2. /\ (WindowLeft - 1) * Round \in Nat
          /\ StepsLeft = (WindowLeft - 1) * Round + Len(TriggerMetrics) + 3 - cursor
      BY <3>1, StepsLeftTypes DEF StepsLeft
    <3>3. CASE pc' = "rolling_back"
      <4>1. StepsLeft' = 1
        BY <3>3 DEF StepsLeft
      <4> QED
        BY <2>0, <3>1, <3>2, <4>1
    <3>4. CASE pc' = "checking" /\ cursor' = cursor + 1
      <4>1. StepsLeft' = (WindowLeft - 1) * Round + Len(TriggerMetrics) + 3 - (cursor + 1)
        BY <3>1, <3>4 DEF StepsLeft
      <4> QED
        BY <2>0, <3>1, <3>2, <4>1
    <3> QED
      BY <3>1, <3>3, <3>4
  <2>5. CASE EndCheck
    <3>1. /\ pc = "checking" /\ cursor = Len(TriggerMetrics) + 1 /\ pc' = "sleeping"
          /\ elapsed' = elapsed + CheckInterval /\ risk' = risk
      BY <2>0, <2>5 DEF EndCheck
    <3>2. WindowLeft' \in Nat /\ WindowLeft' < WindowLeft
      <4>1. /\ elapsed \in Nat /\ WatchWindow[risk] \in Nat /\ CheckInterval \in Nat \ {0}
            /\ WindowLeft > 0
        BY <3>1, StepsLeftTypes
      <4>2. /\ WindowLeft = IF elapsed < WatchWindow[risk] THEN WatchWindow[risk] - elapsed ELSE 0
            /\ WindowLeft' = IF elapsed + CheckInterval < WatchWindow[risk]
                             THEN WatchWindow[risk] - (elapsed + CheckInterval) ELSE 0
        BY <3>1 DEF WindowLeft
      <4> QED
        BY <4>1, <4>2
    <3>3. /\ (WindowLeft - 1) * Round \in Nat /\ WindowLeft' * Round \in Nat
          /\ WindowLeft' * Round <= (WindowLeft - 1) * Round
      BY <2>0, <3>2, FewerRounds
    <3>4. Round' = Round
      BY DEF Round
    <3>5. /\ StepsLeft = (WindowLeft - 1) * Round + 2
          /\ StepsLeft' = 1 + WindowLeft' * Round
      BY <2>0, <3>1, <3>3, <3>4 DEF StepsLeft
    <3> QED
      BY <3>3, <3>5
  <2>6. CASE ExecuteRollback
    BY <2>6 DEF ExecuteRollback, StepsLeft
  <2>7. CASE WindowPassed
    <3>1. pc = "sleeping" /\ pc' = "returned"
      BY <2>7 DEF WindowPassed
    <3> QED
      BY <2>0, <3>1 DEF StepsLeft
  <2> QED
    BY <2>1, <2>2, <2>3, <2>4, <2>5, <2>6, <2>7 DEF Next
<1>3. IInv /\ IInv' /\ [Next]_vars => [StepsLeft' < StepsLeft]_vars
  BY <1>2
<1> QED
  BY <1>1, <1>3, Invariance, PTL DEF Spec
====

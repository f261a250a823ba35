---- MODULE AnomalyStream_Proofs ----
(***************************************************************************)
(* Proofs about AnomalyStream, for any events, alerts and processing       *)
(* times.  IncidentLoop_Proofs carries the results over to the loop.       *)
(*                                                                         *)
(* First come the operators.  A fold unfolds to a recursive function, the  *)
(* one CHOOSE finds; FoldExists shows by induction over the size of a set  *)
(* that there is one, RunExists and IterEnds the same for a sequence, and  *)
(* FoldedAppend gives a fold's value after one more element.  The steps of *)
(* a fold are a function F here, since no lemma can take an operator.      *)
(*                                                                         *)
(* From there PartsMerge: a window's partial accumulators merge to the     *)
(* accumulator of the whole, wherever it is split.  It holds because an    *)
(* element makes the same difference before and after a merge (MergeAdd),  *)
(* which field by field is that earlier, later, the greater severity, the  *)
(* greater deviation with what belongs to it, and adding what is new are   *)
(* associative.                                                            *)
(*                                                                         *)
(* And BaselineOfStats: Frac gives equal pairs for equal values            *)
(* (FracsEqual), so sums and squares of the values give what Welford's     *)
(* running update gives (WelfordIsExact), and a day's share in the pooled  *)
(* variance is the distance of its values (ShiftOfStats).                  *)
(*                                                                         *)
(* Then the steps.  The windows get their elements from the validator's    *)
(* state, so the invariant says of the stored anomaly and the stored alert *)
(* what the properties say of the elements (Remembered).  That each bucket *)
(* is the statistics of its samples, and that every deviation on its way   *)
(* is not negative (Accounted), is inductive together with the types.      *)
(***************************************************************************)
EXTENDS AnomalyStream, SequenceTheorems, FiniteSetTheorems, WellFoundedInduction, TLAPS

----------------------------------------------------------------------------
(* Induction, with a set for the predicate *)

\* Induction over the natural numbers, with a set for the predicate.
LEMMA Inductive ==
    ASSUME NEW A, 0 \in A, \A n \in Nat : n \in A => n + 1 \in A
    PROVE  Nat \subseteq A
<1> SUFFICES ASSUME Nat \ A # {} PROVE FALSE
  OBVIOUS
<1>1. PICK n \in Nat \ A : \A k \in Nat \ A : ~ (<<k, n>> \in OpToRel(<, Nat))
  BY NatLessThanWellFounded, WFMin, Zenon
<1>2. \A k \in Nat \ A : ~ (k < n)
  BY <1>1 DEF OpToRel
<1>3. n # 0 /\ n - 1 \in Nat /\ n - 1 < n /\ (n - 1) + 1 = n
  OBVIOUS
<1> QED
  BY <1>2, <1>3

\* Induction over sequences, with a set for the predicate.
LEMMA InductiveSeq ==
    ASSUME NEW M, NEW A, << >> \in A,
           \A s \in Seq(M), m \in M : s \in A => Append(s, m) \in A
    PROVE  Seq(M) \subseteq A
<1> DEFINE Good == {n \in Nat : \A s \in Seq(M) : Len(s) = n => s \in A}
<1>1. 0 \in Good
  <2>1. \A s \in Seq(M) : Len(s) = 0 => s = << >>
    BY EmptySeq
  <2> QED
    BY <2>1
<1>2. ASSUME NEW n \in Nat, n \in Good PROVE n + 1 \in Good
  <2> SUFFICES ASSUME NEW s \in Seq(M), Len(s) = n + 1 PROVE s \in A
    OBVIOUS
  <2> DEFINE t == SubSeq(s, 1, n)
  <2>1. t \in Seq(M) /\ Len(t) = n /\ s[n + 1] \in M
    OBVIOUS
  <2>2. s = Append(t, s[n + 1])
    OBVIOUS
  <2>3. t \in A
    BY <1>2, <2>1
  <2> HIDE DEF t
  <2> QED
    BY <2>1, <2>2, <2>3
<1>3. Nat \subseteq Good
  BY <1>1, <1>2, Inductive
<1> QED
  BY <1>3

----------------------------------------------------------------------------
(* Folds over finite sets *)

IsStep(F, V, M) == F \in [V \X M -> V]

Chooses(ch, S) == \A T \in SUBSET S : T # {} => ch[T] \in T

IsFold(f, F, base, ch, S) ==
    \A T \in SUBSET S : f[T] = IF T = {} THEN base ELSE F[<<f[T \ {ch[T]}], ch[T]>>]

\* A fold over a finite set has the value its recursion says, whatever the
\* order in which it chooses the elements.
LEMMA FoldExists ==
    ASSUME NEW S, IsFiniteSet(S), NEW V, NEW base \in V, NEW F, IsStep(F, V, S),
           NEW ch, Chooses(ch, S)
    PROVE  \E f \in [SUBSET S -> V] : IsFold(f, F, base, ch, S)
<1> USE DEF Chooses, IsStep
<1> DEFINE Up(f, T) == IF T = {} THEN base ELSE F[<<f[T \ {ch[T]}], ch[T]>>]
           Good == {n \in Nat : \E f \in [SUBSET S -> V] :
                       \A T \in SUBSET S : Cardinality(T) <= n => f[T] = Up(f, T)}
<1>1. ASSUME NEW f \in [SUBSET S -> V], NEW T \in SUBSET S
      PROVE  Up(f, T) \in V
  OBVIOUS
<1>2. ASSUME NEW T \in SUBSET S
      PROVE  /\ Cardinality(T) \in Nat /\ (Cardinality(T) <= 0 => T = {})
             /\ T # {} => T \ {ch[T]} \in SUBSET S /\ Cardinality(T \ {ch[T]}) = Cardinality(T) - 1
  <2>1. IsFiniteSet(T) /\ Cardinality(T) \in Nat
    BY FS_Subset, FS_CardinalityType
  <2>2. Cardinality(T) <= 0 => T = {}
    BY <2>1, FS_EmptySet
  <2>3. ASSUME T # {}
        PROVE  T \ {ch[T]} \in SUBSET S /\ Cardinality(T \ {ch[T]}) = Cardinality(T) - 1
    BY <2>1, <2>3, FS_RemoveElement
  <2> QED
    BY <2>1, <2>2, <2>3
<1>3. 0 \in Good
  <2> DEFINE f == [T \in SUBSET S |-> base]
  <2>1. f \in [SUBSET S -> V] /\ \A T \in SUBSET S : Cardinality(T) <= 0 => f[T] = Up(f, T)
    BY <1>2
  <2> QED
    BY <2>1
<1>4. ASSUME NEW n \in Nat, n \in Good PROVE n + 1 \in Good
  <2>1. PICK f \in [SUBSET S -> V] : \A T \in SUBSET S : Cardinality(T) <= n => f[T] = Up(f, T)
    BY <1>4
  <2> DEFINE g == [T \in SUBSET S |-> Up(f, T)]
  <2>2. g \in [SUBSET S -> V] /\ \A T \in SUBSET S : g[T] = Up(f, T)
    BY <1>1
  <2>3. ASSUME NEW T \in SUBSET S, Cardinality(T) <= n + 1 PROVE g[T] = Up(g, T)
    <3>1. CASE T = {}
      BY <2>2, <3>1
    <3>2. CASE T # {}
      <4> DEFINE R == T \ {ch[T]}
      <4>1. R \in SUBSET S /\ Cardinality(R) <= n
        BY <1>2, <2>3, <3>2
      <4>2. g[R] = f[R]
        BY <2>1, <2>2, <4>1
      <4> QED
        BY <2>2, <3>2, <4>2
    <3> QED
      BY <3>1, <3>2
  <2>4. \E h \in [SUBSET S -> V] :
           \A T \in SUBSET S : Cardinality(T) <= n + 1 => h[T] = Up(h, T)
    <3> HIDE DEF g, Up
    <3> QED
      BY <2>2, <2>3
  <2> HIDE DEF Up
  <2> QED
    BY <2>4
<1>5. Cardinality(S) \in Good
  BY <1>3, <1>4, Inductive, FS_CardinalityType
<1>6. \A T \in SUBSET S : Cardinality(T) <= Cardinality(S)
  BY FS_Subset
<1>7. PICK f \in [SUBSET S -> V] :
         \A T \in SUBSET S : Cardinality(T) <= Cardinality(S) => f[T] = Up(f, T)
  BY <1>5
<1> QED
  BY <1>6, <1>7 DEF IsFold

Picked(T) == CHOOSE x \in T : TRUE

\* The steps of a fold as far as the values are known to be of V.
IsTypedFold(h, V, F, base, S) ==
    \A T \in SUBSET S :
       /\ T = {} => h[T] = base
       /\ T # {} /\ h[T \ {Picked(T)}] \in V => h[T] = F[<<h[T \ {Picked(T)}], Picked(T)>>]

\* Whatever has the steps of a fold over a finite set has its values.
LEMMA FoldInside ==
    ASSUME NEW S, IsFiniteSet(S), NEW V, NEW base \in V, NEW F, IsStep(F, V, S),
           NEW h, IsTypedFold(h, V, F, base, S)
    PROVE  \A T \in SUBSET S : h[T] \in V
<1> USE DEF IsStep
<1> DEFINE Good == {n \in Nat : \A T \in SUBSET S : Cardinality(T) <= n => h[T] \in V}
<1>1. ASSUME NEW T \in SUBSET S
      PROVE  /\ Cardinality(T) \in Nat /\ (Cardinality(T) <= 0 => T = {})
             /\ T # {} => Picked(T) \in T /\ Cardinality(T \ {Picked(T)}) = Cardinality(T) - 1
  <2>1. IsFiniteSet(T) /\ Cardinality(T) \in Nat
    BY FS_Subset, FS_CardinalityType
  <2>2. Cardinality(T) <= 0 => T = {}
    BY <2>1, FS_EmptySet
  <2>3. T # {} => Picked(T) \in T
    BY DEF Picked
  <2>4. T # {} => Cardinality(T \ {Picked(T)}) = Cardinality(T) - 1
    BY <2>1, <2>3, FS_RemoveElement
  <2> QED
    BY <2>1, <2>2, <2>3, <2>4
<1>2. h[{}] \in V
  BY DEF IsTypedFold
<1>3. 0 \in Good
  BY <1>1, <1>2
<1>4. ASSUME NEW n \in Nat, n \in Good PROVE n + 1 \in Good
  <2> SUFFICES ASSUME NEW T \in SUBSET S, Cardinality(T) <= n + 1 PROVE h[T] \in V
    OBVIOUS
  <2>1. CASE T = {}
    BY <1>2, <2>1
  <2>2. CASE T # {}
    <3>1. T \ {Picked(T)} \in SUBSET S /\ Cardinality(T \ {Picked(T)}) <= n /\ Picked(T) \in S
      BY <1>1, <2>2
    <3>2. h[T \ {Picked(T)}] \in V
      BY <1>4, <3>1
    <3> QED
      BY <2>2, <3>1, <3>2 DEF IsTypedFold
  <2> QED
    BY <2>1, <2>2
<1> HIDE DEF Good
<1>5. ASSUME NEW T \in SUBSET S PROVE h[T] \in V
  <2>1. Cardinality(T) \in Good
    BY <1>1, <1>3, <1>4, Inductive
  <2> QED
    BY <1>1, <2>1 DEF Good
<1> QED
  BY <1>5

IsAnyFold(g, F, base, S) ==
    \A T \in SUBSET S : g[T] = IF T = {} THEN base ELSE F[<<g[T \ {Picked(T)}], Picked(T)>>]

\* The fold itself has such steps.
LEMMA AnyFoldExists ==
    ASSUME NEW S, IsFiniteSet(S), NEW V, NEW base \in V, NEW F, IsStep(F, V, S)
    PROVE  \E g \in [SUBSET S -> V] : IsAnyFold(g, F, base, S)
<1> DEFINE ch == [T \in SUBSET S |-> Picked(T)]
<1>1. \A T \in SUBSET S : ch[T] = Picked(T) /\ (T # {} => Picked(T) \in T)
  BY DEF Picked
<1> HIDE DEF ch
<1>2. Chooses(ch, S)
  BY <1>1 DEF Chooses
<1>3. PICK g \in [SUBSET S -> V] : IsFold(g, F, base, ch, S)
  BY <1>2, FoldExists
<1> QED
  BY <1>1, <1>3 DEF IsFold, IsAnyFold

----------------------------------------------------------------------------
(* Folds over sequences                                                     *)
(* A function F takes the place of the operator.  FoldLeft chooses the      *)
(* greatest index of what is left, so it goes through the prefixes.         *)

IsRun(g, F, base, s) == g[0] = base /\ \A i \in 1 .. Len(s) : g[i] = F[<<g[i - 1], s[i]>>]

Folded(F, base, s) == (CHOOSE g : IsRun(g, F, base, s))[Len(s)]

LEMMA RunExists ==
    ASSUME NEW V, NEW M, NEW base \in V, NEW F, IsStep(F, V, M), NEW s \in Seq(M)
    PROVE  \E g \in [0 .. Len(s) -> V] : IsRun(g, F, base, s)
<1> USE DEF IsStep
<1> DEFINE n == Len(s)
           Good == {k \in Nat : k <= n => \E g \in [0 .. n -> V] :
                       g[0] = base /\ \A i \in 1 .. k : g[i] = F[<<g[i - 1], s[i]>>]}
<1>1. n \in Nat /\ \A i \in 1 .. n : s[i] \in M
  OBVIOUS
<1> HIDE DEF n
<1>2. 0 \in Good
  <2> DEFINE g == [i \in 0 .. n |-> base]
  <2>1. g \in [0 .. n -> V] /\ g[0] = base /\ \A i \in 1 .. 0 : g[i] = F[<<g[i - 1], s[i]>>]
    BY <1>1
  <2> HIDE DEF g
  <2> QED
    BY <2>1
<1>3. ASSUME NEW k \in Nat, k \in Good PROVE k + 1 \in Good
  <2> SUFFICES ASSUME k + 1 <= n
               PROVE  \E h \in [0 .. n -> V] :
                         h[0] = base /\ \A i \in 1 .. (k + 1) : h[i] = F[<<h[i - 1], s[i]>>]
    OBVIOUS
  <2>1. PICK g \in [0 .. n -> V] :
           g[0] = base /\ \A i \in 1 .. k : g[i] = F[<<g[i - 1], s[i]>>]
    BY <1>1, <1>3
  <2> DEFINE v == F[<<g[k], s[k + 1]>>]
             h == [g EXCEPT ![k + 1] = v]
  <2>2. v \in V
    BY <1>1, <2>1
  <2>3. h \in [0 .. n -> V] /\ h[k + 1] = v /\ \A i \in 0 .. k : h[i] = g[i]
    BY <1>1, <2>1, <2>2
  <2> HIDE DEF h
  <2>4. \A i \in 1 .. (k + 1) : h[i] = F[<<h[i - 1], s[i]>>]
    <3> TAKE i \in 1 .. (k + 1)
    <3>1. CASE i = k + 1
      BY <2>3, <3>1
    <3>2. CASE i \in 1 .. k
      BY <2>1, <2>3, <3>2
    <3> QED
      BY <3>1, <3>2
  <2>5. h[0] = base
    BY <2>1, <2>3
  <2> QED
    BY <2>3, <2>4, <2>5
<1>4. n \in Good
  BY <1>1, <1>2, <1>3, Inductive
<1> QED
  BY <1>1, <1>4 DEF IsRun, n

\* The steps of a run as far as the values are known to be of V.
IsTypedRun(r, V, F, base, s) ==
    r[0] = base /\ \A i \in 1 .. Len(s) : r[i - 1] \in V => r[i] = F[<<r[i - 1], s[i]>>]

\* Whatever has the first value and the steps of a run ends where it ends.
LEMMA FoldedBySteps ==
    ASSUME NEW V, NEW M, NEW base \in V, NEW F, IsStep(F, V, M), NEW s \in Seq(M),
           NEW r, IsTypedRun(r, V, F, base, s)
    PROVE  r[Len(s)] = Folded(F, base, s) /\ Folded(F, base, s) \in V
<1> USE DEF IsStep
<1> DEFINE n == Len(s)
           g == CHOOSE h : IsRun(h, F, base, s)
           Good == {k \in Nat : k <= n => r[k] = g[k] /\ r[k] \in V}
<1>1. n \in Nat /\ \A i \in 1 .. n : s[i] \in M
  OBVIOUS
<1>2. IsRun(g, F, base, s)
  BY RunExists
<1>3. g[0] = base /\ \A i \in 1 .. n : g[i] = F[<<g[i - 1], s[i]>>]
  BY <1>2 DEF IsRun
<1> HIDE DEF g
<1>r. r[0] = base /\ \A i \in 1 .. n : r[i - 1] \in V => r[i] = F[<<r[i - 1], s[i]>>]
  BY DEF IsTypedRun
<1>4. 0 \in Good
  BY <1>3, <1>r
<1>5. ASSUME NEW k \in Nat, k \in Good PROVE k + 1 \in Good
  <2> SUFFICES ASSUME k + 1 <= n PROVE r[k + 1] = g[k + 1] /\ r[k + 1] \in V
    OBVIOUS
  <2>1. r[k] = g[k] /\ r[k] \in V /\ k + 1 \in 1 .. n /\ (k + 1) - 1 = k
    BY <1>1, <1>5
  <2>2. r[k + 1] = F[<<r[k], s[k + 1]>>] /\ g[k + 1] = F[<<g[k], s[k + 1]>>]
    BY <1>3, <1>r, <2>1
  <2> QED
    BY <1>1, <2>1, <2>2
<1>6. n \in Good
  BY <1>1, <1>4, <1>5, Inductive
<1> QED
  BY <1>1, <1>6 DEF Folded, g

LEMMA FoldedInside ==
    ASSUME NEW V, NEW M, NEW base \in V, NEW F, IsStep(F, V, M), NEW s \in Seq(M)
    PROVE  Folded(F, base, s) \in V
<1>1. PICK g : IsRun(g, F, base, s)
  BY RunExists
<1>2. IsTypedRun(g, V, F, base, s)
  BY <1>1 DEF IsRun, IsTypedRun
<1> QED
  BY <1>2, FoldedBySteps

LEMMA FoldedEmpty ==
    ASSUME NEW V, NEW M, NEW base \in V, NEW F, IsStep(F, V, M)
    PROVE  Folded(F, base, << >>) = base
<1>1. \E g : IsRun(g, F, base, << >>)
  BY RunExists, << >> \in Seq(M)
<1> QED
  BY <1>1, Len(<< >>) = 0 DEF Folded, IsRun

LEMMA FoldedAppend ==
    ASSUME NEW V, NEW M, NEW base \in V, NEW F, IsStep(F, V, M), NEW s \in Seq(M), NEW m \in M
    PROVE  Folded(F, base, s) \in V /\ Folded(F, base, Append(s, m)) = F[<<Folded(F, base, s), m>>]
<1> USE DEF IsStep
<1>0. PICK t : t = Append(s, m)
  OBVIOUS
<1>1. /\ t \in Seq(M) /\ Len(t) = Len(s) + 1 /\ t[Len(s) + 1] = m
      /\ Len(s) \in Nat /\ \A i \in 1 .. Len(s) : t[i] = s[i]
  BY <1>0
<1>2. PICK g \in [0 .. Len(t) -> V] : IsRun(g, F, base, t)
  BY <1>1, RunExists
<1>3. g[0] = base /\ \A i \in 1 .. Len(t) : g[i] = F[<<g[i - 1], t[i]>>]
  BY <1>2 DEF IsRun
<1>4. ASSUME NEW u \in Seq(M), IsTypedRun(g, V, F, base, u)
      PROVE  g[Len(u)] = Folded(F, base, u) /\ Folded(F, base, u) \in V
  BY <1>4, FoldedBySteps
<1>5. g[Len(t)] = Folded(F, base, t)
  BY <1>1, <1>3, <1>4 DEF IsTypedRun
<1>6. g[Len(s)] = Folded(F, base, s) /\ Folded(F, base, s) \in V
  BY <1>1, <1>3, <1>4 DEF IsTypedRun
<1>7. g[Len(t)] = F[<<g[Len(s)], m>>]
  BY <1>1, <1>3
<1> QED
  BY <1>0, <1>5, <1>6, <1>7

LEMMA MaxIndex ==
    ASSUME NEW n \in Nat, NEW S \in SUBSET (1 .. n), S # {}
    PROVE  \E i \in S : \A j \in S : j <= i
<1> DEFINE T == {n - i : i \in S}
           R == OpToRel(<, Nat)
<1>1. T \subseteq Nat /\ T # {}
  <2>1. \A i \in S : n - i \in Nat
    OBVIOUS
  <2>2. PICK i \in S : TRUE
    OBVIOUS
  <2>3. n - i \in T
    OBVIOUS
  <2> QED
    BY <2>1, <2>3
<1>2. IsWellFoundedOn(R, Nat)
  BY NatLessThanWellFounded, Zenon
<1>3. \A x, y \in Nat : x < y => <<x, y>> \in R
  BY DEF OpToRel
<1>4. \E x \in T : \A y \in T : ~(<<y, x>> \in R)
  <2> HIDE DEF R, T
  <2> QED
    BY <1>1, <1>2, WFMin
<1>5. PICK x \in T : \A y \in T : ~(y < x)
  BY <1>1, <1>3, <1>4
<1>6. PICK i \in S : x = n - i
  BY <1>5
<1>7. ASSUME NEW j \in S PROVE j <= i
  <2>1. n - j \in T
    OBVIOUS
  <2>2. ~(n - j < x)
    BY <1>5, <2>1
  <2> QED
    BY <1>6, <2>2
<1> QED
  BY <1>7

LEMMA MaxOfIndices ==
    ASSUME NEW n \in Nat
    PROVE  /\ \A T \in SUBSET (1 .. n) : T # {} => Max(T) \in T
           /\ \A i \in 1 .. n : Max(1 .. i) = i /\ (1 .. i) \ {i} = 1 .. (i - 1)
<1>1. ASSUME NEW T \in SUBSET (1 .. n), T # {} PROVE Max(T) \in T
  <2>1. \E i \in T : \A j \in T : i >= j
    BY <1>1, MaxIndex
  <2> QED
    BY <2>1 DEF Max
<1>2. ASSUME NEW i \in 1 .. n PROVE Max(1 .. i) = i /\ (1 .. i) \ {i} = 1 .. (i - 1)
  <2>1. i \in 1 .. i /\ \A j \in 1 .. i : i >= j
    OBVIOUS
  <2>2. \A k \in 1 .. i : (\A j \in 1 .. i : k >= j) => k = i
    OBVIOUS
  <2> QED
    BY <2>1, <2>2 DEF Max
<1> QED
  BY <1>1, <1>2

IsIteration(f, F, base, s) ==
    \A T \in SUBSET (1 .. Len(s)) :
       f[T] = IF T = {} THEN base ELSE F[<<f[T \ {Max(T)}], s[Max(T)]>>]

\* The function behind FoldLeft exists.
LEMMA IterExists ==
    ASSUME NEW V, NEW M, NEW base \in V, NEW F, IsStep(F, V, M), NEW s \in Seq(M)
    PROVE  \E f \in [SUBSET (1 .. Len(s)) -> V] : IsIteration(f, F, base, s)
<1> DEFINE S == 1 .. Len(s)
           ch == [T \in SUBSET S |-> Max(T)]
           G == [x \in V \X S |-> F[<<x[1], s[x[2]]>>]]
<1>1. Len(s) \in Nat /\ IsFiniteSet(S) /\ \A i \in S : s[i] \in M
  BY FS_Interval
<1>2. \A T \in SUBSET S : ch[T] = Max(T) /\ (T # {} => ch[T] \in T)
  BY <1>1, MaxOfIndices
<1>3. IsStep(G, V, S) /\ \A i \in S, v \in V : G[<<v, i>>] = F[<<v, s[i]>>]
  BY <1>1 DEF IsStep
<1> HIDE DEF ch, G, S
<1>4. PICK f \in [SUBSET S -> V] : IsFold(f, G, base, ch, S)
  <2>1. Chooses(ch, S)
    BY <1>2 DEF Chooses
  <2> QED
    BY <1>1, <1>3, <2>1, FoldExists
<1>5. ASSUME NEW T \in SUBSET S
      PROVE  f[T] = IF T = {} THEN base ELSE F[<<f[T \ {Max(T)}], s[Max(T)]>>]
  <2>1. CASE T = {}
    BY <1>4, <2>1 DEF IsFold
  <2>2. CASE T # {}
    <3>1. ch[T] = Max(T) /\ Max(T) \in S
      BY <1>2, <2>2
    <3>2. T \ {Max(T)} \in SUBSET S
      OBVIOUS
    <3>3. f[T \ {Max(T)}] \in V
      BY <3>2
    <3>4. f[T] = G[<<f[T \ {Max(T)}], Max(T)>>]
      BY <1>4, <2>2, <3>1 DEF IsFold
    <3> QED
      BY <1>3, <2>2, <3>1, <3>3, <3>4
  <2> QED
    BY <2>1, <2>2
<1> QED
  BY <1>4, <1>5 DEF S, IsIteration

IsTypedIteration(g, V, F, base, s) ==
    /\ g[{}] = base
    /\ \A i \in 1 .. Len(s) :
          g[(1 .. i) \ {Max(1 .. i)}] \in V =>
             g[1 .. i] = F[<<g[(1 .. i) \ {Max(1 .. i)}], s[Max(1 .. i)]>>]

\* What has the steps of FoldLeft on the sequence's prefixes ends like the fold.
LEMMA IterEnds ==
    ASSUME NEW V, NEW M, NEW base \in V, NEW F, IsStep(F, V, M), NEW s \in Seq(M),
           NEW g, IsTypedIteration(g, V, F, base, s)
    PROVE  g[DOMAIN s] = Folded(F, base, s) /\ Folded(F, base, s) \in V
<1> DEFINE n == Len(s)
           r == [i \in 0 .. n |-> g[1 .. i]]
<1>1. n \in Nat /\ DOMAIN s = 1 .. n /\ 1 .. 0 = {}
  OBVIOUS
<1>2. r[0] = base
  BY <1>1 DEF IsTypedIteration
<1>3. ASSUME NEW i \in 1 .. n, r[i - 1] \in V PROVE r[i] = F[<<r[i - 1], s[i]>>]
  <2>1. Max(1 .. i) = i /\ (1 .. i) \ {i} = 1 .. (i - 1)
    BY <1>1, MaxOfIndices
  <2>2. r[i] = g[1 .. i] /\ r[i - 1] = g[1 .. (i - 1)]
    BY <1>1
  <2> HIDE DEF r
  <2> QED
    BY <1>3, <2>1, <2>2 DEF IsTypedIteration
<1>4. r[n] = g[DOMAIN s]
  BY <1>1
<1> HIDE DEF r
<1>5. IsTypedRun(r, V, F, base, s)
  BY <1>2, <1>3 DEF IsTypedRun
<1> QED
  BY <1>4, <1>5, FoldedBySteps

----------------------------------------------------------------------------
(* Lists that take each element once *)

LEMMA AddNewType ==
    ASSUME NEW X, NEW list \in Seq(X), NEW x \in X
    PROVE  AddNew(list, x) \in Seq(X)
  BY DEF AddNew

AddNewFcn(X) == [p \in Seq(X) \X X |-> AddNew(p[1], p[2])]

LEMMA AddNewFcnType ==
    ASSUME NEW X
    PROVE  /\ IsStep(AddNewFcn(X), Seq(X), X)
           /\ \A list \in Seq(X), x \in X : AddNewFcn(X)[<<list, x>>] = AddNew(list, x)
  BY AddNewType DEF AddNewFcn, IsStep

AddAll(list, items) == FoldLeft(AddNew, list, items)

LEMMA AddNewFolded ==
    ASSUME NEW X, NEW base \in Seq(X), NEW s \in Seq(X)
    PROVE  AddAll(base, s) = Folded(AddNewFcn(X), base, s)
<1> DEFINE F == AddNewFcn(X)
           n == Len(s)
           IsIter(f) == f = [T \in SUBSET (DOMAIN s) |->
                               IF T = {} THEN base ELSE AddNew(f[T \ {Max(T)}], s[Max(T)])]
           g == CHOOSE f : IsIter(f)
<1>1. AddAll(base, s) = g[DOMAIN s]
  BY DEF AddAll, FoldLeft, MapThenFoldSet
<1>2. /\ IsStep(F, Seq(X), X)
      /\ \A list \in Seq(X), x \in X : F[<<list, x>>] = AddNew(list, x)
  BY AddNewFcnType
<1>3. n \in Nat /\ DOMAIN s = 1 .. n /\ \A i \in 1 .. n : s[i] \in X
  OBVIOUS
<1> HIDE DEF F
<1>4. IsIter(g)
  <2>1. PICK f \in [SUBSET (1 .. n) -> Seq(X)] : IsIteration(f, F, base, s)
    BY <1>2, IterExists
  <2>2. ASSUME NEW T \in SUBSET (1 .. n), T # {}
        PROVE  F[<<f[T \ {Max(T)}], s[Max(T)]>>] = AddNew(f[T \ {Max(T)}], s[Max(T)])
    <3>1. s[Max(T)] \in X /\ T \ {Max(T)} \in SUBSET (1 .. n)
      BY <1>3, <2>2, MaxOfIndices
    <3> QED
      BY <1>2, <3>1
  <2>3. IsIter(f)
    BY <1>3, <2>1, <2>2 DEF IsIteration
  <2> HIDE DEF IsIter
  <2> QED
    BY <2>3
<1> HIDE DEF g
<1>5. IsTypedIteration(g, Seq(X), F, base, s)
  <2>1. ASSUME NEW i \in 1 .. n
        PROVE  /\ g[1 .. i] = AddNew(g[(1 .. i) \ {Max(1 .. i)}], s[Max(1 .. i)])
               /\ s[Max(1 .. i)] \in X
    <3>1. (1 .. i) \in SUBSET (DOMAIN s) /\ i \in 1 .. i /\ Max(1 .. i) = i
      BY <1>3, MaxOfIndices
    <3> QED
      BY <1>3, <1>4, <3>1
  <2> QED
    BY <1>2, <1>4, <2>1 DEF IsTypedIteration
<1> QED
  BY <1>1, <1>2, <1>5, IterEnds DEF F

LEMMA AddNewFoldEmpty ==
    ASSUME NEW X, NEW base \in Seq(X)
    PROVE  AddAll(base, << >>) = base
<1>1. << >> \in Seq(X)
  OBVIOUS
<1>2. Folded(AddNewFcn(X), base, << >>) = base
  <2>1. IsStep(AddNewFcn(X), Seq(X), X)
    BY AddNewFcnType
  <2> QED
    BY <2>1, FoldedEmpty
<1> QED
  BY <1>1, <1>2, AddNewFolded

LEMMA AddNewFoldType ==
    ASSUME NEW X, NEW base \in Seq(X), NEW s \in Seq(X)
    PROVE  AddAll(base, s) \in Seq(X)
  BY AddNewFcnType, AddNewFolded, FoldedInside

LEMMA AddNewFoldAppend ==
    ASSUME NEW X, NEW base \in Seq(X), NEW s \in Seq(X), NEW x \in X
    PROVE  AddAll(base, Append(s, x)) = AddNew(AddAll(base, s), x)
<1> DEFINE F == AddNewFcn(X)
<1>1. IsStep(F, Seq(X), X) /\ \A list \in Seq(X), y \in X : F[<<list, y>>] = AddNew(list, y)
  BY AddNewFcnType
<1>2. \A t \in Seq(X) : AddAll(base, t) = Folded(F, base, t)
  BY AddNewFolded
<1> HIDE DEF F
<1>3. Append(s, x) \in Seq(X) /\ AddAll(base, s) \in Seq(X)
  BY AddNewFoldType
<1>4. Folded(F, base, Append(s, x)) = F[<<Folded(F, base, s), x>>]
  BY <1>1, FoldedAppend
<1> QED
  BY <1>1, <1>2, <1>3, <1>4

LEMMA ContainsAppend ==
    ASSUME NEW X, NEW s \in Seq(X), NEW x, NEW y \in X
    PROVE  Contains(Append(s, y), x) <=> Contains(s, x) \/ x = y
<1>1. /\ Len(s) \in Nat /\ Len(Append(s, y)) = Len(s) + 1 /\ Append(s, y)[Len(s) + 1] = y
      /\ \A i \in 1 .. Len(s) : Append(s, y)[i] = s[i]
  OBVIOUS
<1> QED
  BY <1>1 DEF Contains

LEMMA ContainsAddNew ==
    ASSUME NEW X, NEW s \in Seq(X), NEW x, NEW y \in X
    PROVE  Contains(AddNew(s, y), x) <=> Contains(s, x) \/ x = y
  BY ContainsAppend DEF AddNew

\* A list with new elements has the ones it had and those it was given.
LEMMA FoldContains ==
    ASSUME NEW X, NEW base \in Seq(X), NEW s \in Seq(X), NEW x
    PROVE  Contains(AddAll(base, s), x) <=> Contains(base, x) \/ Contains(s, x)
<1> DEFINE A == {t \in Seq(X) :
                   Contains(AddAll(base, t), x) <=> Contains(base, x) \/ Contains(t, x)}
<1>1. << >> \in A
  <2>1. ~Contains(<< >>, x) /\ << >> \in Seq(X)
    BY DEF Contains
  <2>2. AddAll(base, << >>) = base
    BY AddNewFoldEmpty
  <2> QED
    BY <2>1, <2>2
<1>2. ASSUME NEW t \in Seq(X), NEW m \in X, t \in A PROVE Append(t, m) \in A
  <2>1. /\ Append(t, m) \in Seq(X) /\ AddAll(base, t) \in Seq(X)
        /\ AddAll(base, Append(t, m)) = AddNew(AddAll(base, t), m)
    BY AddNewFoldType, AddNewFoldAppend
  <2> QED
    BY <1>2, <2>1, ContainsAppend, ContainsAddNew
<1>3. s \in A
  BY <1>1, <1>2, InductiveSeq
<1> QED
  BY <1>3

\* It makes no difference whether elements are added to a list first and the
\* list then to another one, or one after the other.
LEMMA FoldAssociates ==
    ASSUME NEW X, NEW a \in Seq(X), NEW b \in Seq(X), NEW s \in Seq(X)
    PROVE  AddAll(a, AddAll(b, s)) = AddAll(AddAll(a, b), s)
<1> DEFINE A == {t \in Seq(X) : AddAll(a, AddAll(b, t)) = AddAll(AddAll(a, b), t)}
<1>0. /\ \A base \in Seq(X) : AddAll(base, << >>) = base
      /\ \A base, t \in Seq(X) : AddAll(base, t) \in Seq(X)
      /\ \A base, t \in Seq(X), x \in X : AddAll(base, Append(t, x)) = AddNew(AddAll(base, t), x)
      /\ \A base, t \in Seq(X), x \in X : Contains(AddAll(base, t), x) <=> Contains(base, x) \/ Contains(t, x)
  <2>1. ASSUME NEW base \in Seq(X) PROVE AddAll(base, << >>) = base
    BY AddNewFoldEmpty
  <2>2. ASSUME NEW base \in Seq(X), NEW t \in Seq(X), NEW x \in X
        PROVE  /\ AddAll(base, Append(t, x)) = AddNew(AddAll(base, t), x)
               /\ Contains(AddAll(base, t), x) <=> Contains(base, x) \/ Contains(t, x)
    BY AddNewFoldAppend, FoldContains
  <2>3. \A base, t \in Seq(X) : AddAll(base, t) \in Seq(X)
    BY AddNewFoldType
  <2> QED
    BY <2>1, <2>2, <2>3
<1>1. << >> \in A
  BY <1>0
<1>2. ASSUME NEW t \in Seq(X), NEW m \in X, t \in A PROVE Append(t, m) \in A
  <2> DEFINE u == AddAll(b, t)
  <2>1. u \in Seq(X) /\ AddAll(a, b) \in Seq(X) /\ AddAll(a, u) \in Seq(X)
    BY <1>0
  <2>2. AddAll(a, u) = AddAll(AddAll(a, b), t)
    BY <1>2
  <2>3. AddAll(b, Append(t, m)) = AddNew(u, m) /\ AddAll(AddAll(a, b), Append(t, m)) = AddNew(AddAll(a, u), m)
    BY <1>0, <2>1, <2>2
  <2>4. AddAll(a, AddNew(u, m)) = AddNew(AddAll(a, u), m)
    <3>1. CASE Contains(u, m)
      BY <1>0, <2>1, <3>1 DEF AddNew
    <3>2. CASE ~Contains(u, m)
      <4>1. AddNew(u, m) = Append(u, m)
        BY <3>2 DEF AddNew
      <4> QED
        BY <1>0, <2>1, <4>1
    <3> QED
      BY <3>1, <3>2
  <2> QED
    BY <2>3, <2>4
<1>3. s \in A
  BY <1>1, <1>2, InductiveSeq
<1> QED
  BY <1>3

----------------------------------------------------------------------------
(* The greatest common divisor *)

GcdStep(f, a, b) == IF b = 0 THEN a ELSE f[<<b, a % b>>]

\* A function that computes the divisor as long as the second number is at most n.
IsGcdUpTo(f, n) ==
    f \in [Nat \X Nat -> Nat] /\ \A a, b \in Nat : b <= n => f[<<a, b>>] = GcdStep(f, a, b)

LEMMA GcdApproximated ==
    ASSUME NEW n \in Nat
    PROVE  \E f : IsGcdUpTo(f, n)
<1> DEFINE Good == {k \in Nat : \E f : IsGcdUpTo(f, k)}
<1>1. 0 \in Good
  <2> DEFINE f == [p \in Nat \X Nat |-> p[1]]
  <2>1. f \in [Nat \X Nat -> Nat] /\ \A a, b \in Nat : f[<<a, b>>] = a
    OBVIOUS
  <2> HIDE DEF f
  <2>2. IsGcdUpTo(f, 0)
    BY <2>1 DEF IsGcdUpTo, GcdStep
  <2> QED
    BY <2>2
<1>2. ASSUME NEW k \in Nat, k \in Good PROVE k + 1 \in Good
  <2>1. PICK f : IsGcdUpTo(f, k)
    BY <1>2
  <2> DEFINE g == [p \in Nat \X Nat |-> GcdStep(f, p[1], p[2])]
  <2>2. \A a, b \in Nat : b # 0 => a % b \in Nat /\ a % b < b
    OBVIOUS
  <2>3. \A a, b \in Nat : GcdStep(f, a, b) \in Nat
    BY <2>1, <2>2 DEF IsGcdUpTo, GcdStep
  <2>4. g \in [Nat \X Nat -> Nat] /\ \A a, b \in Nat : g[<<a, b>>] = GcdStep(f, a, b)
    BY <2>3
  <2> HIDE DEF g
  <2>5. ASSUME NEW a \in Nat, NEW b \in Nat, b <= k + 1 PROVE g[<<a, b>>] = GcdStep(g, a, b)
    <3>1. CASE b = 0
      BY <2>4, <3>1 DEF GcdStep
    <3>2. CASE b # 0
      <4> DEFINE r == a % b
      <4>1. r \in Nat /\ r <= k
        BY <2>2, <2>5, <3>2
      <4> HIDE DEF r
      <4>2. g[<<b, r>>] = GcdStep(f, b, r) /\ f[<<b, r>>] = GcdStep(f, b, r)
        BY <2>1, <2>4, <4>1 DEF IsGcdUpTo
      <4>3. g[<<a, b>>] = f[<<b, r>>] /\ GcdStep(g, a, b) = g[<<b, r>>]
        BY <2>4, <3>2 DEF GcdStep, r
      <4> QED
        BY <4>2, <4>3
    <3> QED
      BY <3>1, <3>2
  <2>6. IsGcdUpTo(g, k + 1)
    BY <2>4, <2>5 DEF IsGcdUpTo
  <2> QED
    BY <2>6
<1>3. n \in Good
  BY <1>1, <1>2, Inductive
<1> QED
  BY <1>3

LEMMA GcdUnique ==
    ASSUME NEW n \in Nat, NEW f, NEW g, NEW m \in Nat, IsGcdUpTo(f, n), IsGcdUpTo(g, m),
           NEW a \in Nat, NEW b \in Nat, b <= n, b <= m
    PROVE  f[<<a, b>>] = g[<<a, b>>]
<1> DEFINE Good == {k \in Nat : \A c, d \in Nat : d <= k /\ d <= n /\ d <= m => f[<<c, d>>] = g[<<c, d>>]}
<1>1. 0 \in Good
  <2>1. ASSUME NEW c \in Nat PROVE f[<<c, 0>>] = g[<<c, 0>>]
    <3>1. f[<<c, 0>>] = GcdStep(f, c, 0) /\ g[<<c, 0>>] = GcdStep(g, c, 0)
      BY DEF IsGcdUpTo
    <3> QED
      BY <3>1 DEF GcdStep
  <2>2. \A d \in Nat : d <= 0 => d = 0
    OBVIOUS
  <2> QED
    BY <2>1, <2>2
<1>2. ASSUME NEW k \in Nat, k \in Good PROVE k + 1 \in Good
  <2> SUFFICES ASSUME NEW c \in Nat, NEW d \in Nat, d <= k + 1, d <= n, d <= m
               PROVE  f[<<c, d>>] = g[<<c, d>>]
    OBVIOUS
  <2>1. f[<<c, d>>] = GcdStep(f, c, d) /\ g[<<c, d>>] = GcdStep(g, c, d)
    BY DEF IsGcdUpTo
  <2>2. CASE d = 0
    BY <2>1, <2>2 DEF GcdStep
  <2>3. CASE d # 0
    <3>1. c % d \in Nat /\ c % d <= k /\ c % d <= n /\ c % d <= m
      BY <2>3
    <3>2. f[<<d, c % d>>] = g[<<d, c % d>>]
      BY <1>2, <3>1
    <3> QED
      BY <2>1, <2>3, <3>2 DEF GcdStep
  <2> QED
    BY <2>2, <2>3
<1>3. b \in Good
  BY <1>1, <1>2, Inductive
<1> QED
  BY <1>3

\* The recursion of Gcd defines a function.
LEMMA GcdRecursion ==
    \A a, b \in Nat :
       Gcd[<<a, b>>] \in Nat /\ Gcd[<<a, b>>] = IF b = 0 THEN a ELSE Gcd[<<b, a % b>>]
<1> DEFINE IsGcd(f) == f = [p \in Nat \X Nat |-> IF p[2] = 0 THEN p[1] ELSE f[<<p[2], p[1] % p[2]>>]]
           Up(n) == CHOOSE f : IsGcdUpTo(f, n)
           G == [p \in Nat \X Nat |-> Up(p[2])[p]]
<1>1. \A n \in Nat : IsGcdUpTo(Up(n), n)
  BY GcdApproximated
<1> HIDE DEF Up
<1>2. \A a, b \in Nat : G[<<a, b>>] = Up(b)[<<a, b>>]
  OBVIOUS
<1>3. ASSUME NEW a \in Nat, NEW b \in Nat PROVE G[<<a, b>>] = IF b = 0 THEN a ELSE G[<<b, a % b>>]
  <2>1. Up(b)[<<a, b>>] = GcdStep(Up(b), a, b)
    BY <1>1 DEF IsGcdUpTo
  <2>2. CASE b = 0
    BY <1>2, <2>1, <2>2 DEF GcdStep
  <2>3. CASE b # 0
    <3> DEFINE r == a % b
    <3>1. r \in Nat /\ r <= b
      BY <2>3
    <3>2. Up(b)[<<a, b>>] = Up(b)[<<b, r>>]
      BY <2>1, <2>3 DEF GcdStep
    <3> HIDE DEF r
    <3>3. Up(b)[<<b, r>>] = Up(r)[<<b, r>>]
      BY <1>1, <3>1, GcdUnique
    <3>4. G[<<b, r>>] = Up(r)[<<b, r>>]
      BY <1>2, <3>1
    <3> QED
      BY <1>2, <2>3, <3>2, <3>3, <3>4 DEF r
  <2> QED
    BY <2>2, <2>3
<1>4. IsGcd(G)
  <2>1. ASSUME NEW p \in Nat \X Nat
        PROVE  G[p] = IF p[2] = 0 THEN p[1] ELSE G[<<p[2], p[1] % p[2]>>]
    <3>1. p[1] \in Nat /\ p[2] \in Nat /\ p = <<p[1], p[2]>>
      OBVIOUS
    <3> HIDE DEF G
    <3> QED
      BY <1>3, <3>1
  <2> QED
    BY <2>1
<1>5. IsGcd(Gcd)
  <2> HIDE DEF G
  <2>1. \E f : IsGcd(f)
    BY <1>4
  <2>2. Gcd = CHOOSE f : IsGcd(f)
    BY DEF Gcd
  <2> QED
    BY <2>1, <2>2
<1>6. \A a, b \in Nat : Gcd[<<a, b>>] = IF b = 0 THEN a ELSE Gcd[<<b, a % b>>]
  BY <1>5
<1> DEFINE Good == {n \in Nat : \A a, b \in Nat : b <= n => Gcd[<<a, b>>] \in Nat}
<1>7. 0 \in Good
  <2>1. \A a \in Nat : Gcd[<<a, 0>>] \in Nat
    BY <1>6
  <2>2. \A b \in Nat : b <= 0 => b = 0
    OBVIOUS
  <2> QED
    BY <2>1, <2>2
<1>8. ASSUME NEW n \in Nat, n \in Good PROVE n + 1 \in Good
  <2> SUFFICES ASSUME NEW a \in Nat, NEW b \in Nat, b <= n + 1 PROVE Gcd[<<a, b>>] \in Nat
    OBVIOUS
  <2>1. b # 0 => a % b \in Nat /\ a % b <= n
    OBVIOUS
  <2> QED
    BY <1>6, <1>8, <2>1
<1>9. ASSUME NEW a \in Nat, NEW b \in Nat PROVE Gcd[<<a, b>>] \in Nat
  <2>1. b \in Good
    BY <1>7, <1>8, Inductive
  <2> QED
    BY <2>1
<1> QED
  BY <1>6, <1>9

LEMMA Division ==
    ASSUME NEW a \in Int, NEW d \in Nat \ {0}, NEW q \in Int, NEW r \in Nat, r < d, a = q * d + r
    PROVE  a \div d = q /\ a % d = r
<1> DEFINE p == a \div d
           s == a % d
<1>1. p \in Int /\ s \in Nat /\ s < d /\ a = d * p + s
  OBVIOUS
<1> HIDE DEF p, s
<1>2. d * (p - q) = r - s
  BY <1>1
<1>3. CASE p > q
  <2>1. d * (p - q) >= d
    <3>1. p - q >= 1 /\ p - q \in Int
      BY <1>1, <1>3
    <3> QED
      BY <3>1
  <2> QED
    BY <1>1, <1>2, <2>1
<1>4. CASE p < q
  <2>1. d * (q - p) >= d
    <3>1. q - p >= 1 /\ q - p \in Int
      BY <1>1, <1>4
    <3> QED
      BY <3>1
  <2>2. d * (q - p) = s - r
    BY <1>1, <1>2
  <2> QED
    BY <1>1, <2>1, <2>2
<1>5. CASE p = q
  BY <1>1, <1>2, <1>5
<1> QED
  BY <1>1, <1>3, <1>4, <1>5 DEF p, s

LEMMA GcdDivides ==
    ASSUME NEW a \in Nat, NEW b \in Nat, a + b > 0
    PROVE  \E g \in Nat \ {0}, x \in Nat, y \in Nat : Gcd[<<a, b>>] = g /\ a = x * g /\ b = y * g
<1> DEFINE Divides(c, d) ==
              \E g \in Nat \ {0}, x \in Nat, y \in Nat : Gcd[<<c, d>>] = g /\ c = x * g /\ d = y * g
           Good == {n \in Nat : \A c, d \in Nat : d <= n /\ c + d > 0 => Divides(c, d)}
<1>0. ASSUME NEW c \in Nat, c > 0 PROVE Divides(c, 0)
  <2>1. Gcd[<<c, 0>>] = c
    BY GcdRecursion
  <2>2. c \in Nat \ {0} /\ c = 1 * c /\ 0 = 0 * c
    BY <1>0
  <2> QED
    BY <2>1, <2>2
<1>1. 0 \in Good
  <2>1. ASSUME NEW c \in Nat, NEW d \in Nat, d <= 0, c + d > 0 PROVE Divides(c, d)
    <3>1. d = 0 /\ c > 0
      BY <2>1
    <3> HIDE DEF Divides
    <3> QED
      BY <1>0, <3>1
  <2> HIDE DEF Divides
  <2> QED
    BY <2>1
<1>2. ASSUME NEW n \in Nat, n \in Good PROVE n + 1 \in Good
  <2> HIDE DEF Divides
  <2> SUFFICES ASSUME NEW c \in Nat, NEW d \in Nat, d <= n + 1, c + d > 0 PROVE Divides(c, d)
    OBVIOUS
  <2>1. CASE d = 0
    <3>1. c > 0
      BY <2>1
    <3> QED
      BY <1>0, <2>1, <3>1
  <2> USE DEF Divides
  <2>2. CASE d # 0
    <3> DEFINE r == c % d
               q == c \div d
    <3>0. r \in Nat /\ r < d /\ q \in Nat /\ c = q * d + r
      BY <2>2
    <3>1. r \in Nat /\ r <= n /\ d + r > 0 /\ q \in Nat /\ c = q * d + r
      BY <2>2, <3>0
    <3> HIDE DEF q, r
    <3>2. PICK g \in Nat \ {0}, x \in Nat, y \in Nat : Gcd[<<d, r>>] = g /\ d = x * g /\ r = y * g
      BY <1>2, <3>1
    <3>3. Gcd[<<c, d>>] = g
      BY <2>2, <3>2, GcdRecursion DEF r
    <3>4. q * x + y \in Nat /\ c = (q * x + y) * g
      BY <3>1, <3>2
    <3> QED
      BY <3>2, <3>3, <3>4
  <2> QED
    BY <2>1, <2>2
<1>3. b \in Good
  <2> HIDE DEF Good
  <2> QED
    BY <1>1, <1>2, Inductive
<1>4. Divides(a, b)
  <2> HIDE DEF Divides
  <2> QED
    BY <1>3
<1> QED
  BY <1>4

LEMMA GcdScales ==
    ASSUME NEW k \in Nat \ {0}, NEW a \in Nat, NEW b \in Nat
    PROVE  Gcd[<<k * a, k * b>>] = k * Gcd[<<a, b>>]
<1> DEFINE Good == {n \in Nat : \A c, d \in Nat : d <= n => Gcd[<<k * c, k * d>>] = k * Gcd[<<c, d>>]}
<1>0. ASSUME NEW c \in Nat PROVE Gcd[<<k * c, k * 0>>] = k * Gcd[<<c, 0>>]
  <2>1. k * 0 = 0 /\ k * c \in Nat
    OBVIOUS
  <2> QED
    BY <2>1, GcdRecursion
<1>1. 0 \in Good
  <2>1. \A d \in Nat : d <= 0 => d = 0
    OBVIOUS
  <2> QED
    BY <1>0, <2>1
<1>2. ASSUME NEW n \in Nat, n \in Good PROVE n + 1 \in Good
  <2> SUFFICES ASSUME NEW c \in Nat, NEW d \in Nat, d <= n + 1
               PROVE  Gcd[<<k * c, k * d>>] = k * Gcd[<<c, d>>]
    OBVIOUS
  <2>1. CASE d = 0
    BY <1>0, <2>1
  <2>2. CASE d # 0
    <3> DEFINE r == c % d
               q == c \div d
    <3>1. r \in Nat /\ r < d /\ r <= n /\ q \in Nat /\ c = q * d + r
      BY <2>2
    <3> HIDE DEF q
    <3>2. (k * c) % (k * d) = k * r
      <4> HIDE DEF r
      <4>1. k * c \in Int /\ k * d \in Nat \ {0} /\ k * r \in Nat
        BY <2>2, <3>1
      <4>2. k * r < k * d
        BY <3>1
      <4>3. k * c = q * (k * d) + k * r
        BY <3>1
      <4> QED
        BY ONLY <3>1, <4>1, <4>2, <4>3, Division, q \in Int, k \in Nat
    <3>3. Gcd[<<c, d>>] = Gcd[<<d, r>>]
      BY <2>2, GcdRecursion
    <3>4. Gcd[<<k * c, k * d>>] = Gcd[<<k * d, k * r>>]
      <4>1. k * c \in Nat /\ k * d \in Nat /\ k * d # 0
        BY <2>2
      <4> QED
        BY <3>2, <4>1, GcdRecursion
    <3> HIDE DEF r
    <3> QED
      BY <1>2, <3>1, <3>3, <3>4
  <2> QED
    BY <2>1, <2>2
<1>3. b \in Good
  <2> HIDE DEF Good
  <2> QED
    BY <1>1, <1>2, Inductive
<1> QED
  BY <1>3

----------------------------------------------------------------------------
(* Fractions *)

Ratios == Int \X (Nat \ {0})
NonNegative == Nat \X (Nat \ {0})

LEMMA TimesPositive ==
    ASSUME NEW p \in Int, NEW q \in Int, NEW k \in Nat \ {0}
    PROVE  /\ p <= q <=> p * k <= q * k
           /\ p = q <=> p * k = q * k
  OBVIOUS

LEMMA NotExceedsTransitive ==
    ASSUME NEW x \in Ratios, NEW y \in Ratios, NEW z \in Ratios,
           ~Exceeds(x, y), ~Exceeds(y, z)
    PROVE  ~Exceeds(x, z)
<1>1. PICK a \in Int, b \in Nat \ {0} : x = <<a, b>>
  BY DEF Ratios
<1>2. PICK c \in Int, d \in Nat \ {0} : y = <<c, d>>
  BY DEF Ratios
<1>3. PICK e \in Int, f \in Nat \ {0} : z = <<e, f>>
  BY DEF Ratios
<1>4. a * d <= c * b /\ c * f <= e * d
  BY <1>1, <1>2, <1>3 DEF Exceeds
<1>5. (a * d) * f <= (c * b) * f
  BY <1>4, TimesPositive
<1>6. (c * f) * b <= (e * d) * b
  BY <1>4, TimesPositive
<1>7. (a * f) * d <= (e * b) * d
  BY <1>5, <1>6
<1>8. a * f <= e * b
  BY <1>7, TimesPositive
<1> QED
  BY <1>1, <1>3, <1>8 DEF Exceeds

LEMMA ExceedsFacts ==
    /\ \A x \in NonNegative : x \in Ratios /\ ~Exceeds(Whole(0), x)
    /\ \A x, y \in Ratios : Exceeds(x, y) => ~Exceeds(y, x)
    /\ Whole(0) \in NonNegative
<1>1. ASSUME NEW a \in Nat, NEW b \in Nat \ {0} PROVE ~Exceeds(Whole(0), <<a, b>>)
  BY DEF Exceeds, Whole
<1> QED
  BY <1>1 DEF Exceeds, Ratios, NonNegative, Whole

LEMMA SizeScales ==
    ASSUME NEW n \in Int, NEW k \in Nat \ {0}
    PROVE  Size(n) \in Nat /\ Size(k * n) = k * Size(n)
<1>1. CASE n < 0
  <2>1. k * n < 0
    BY <1>1
  <2> QED
    BY <1>1, <2>1 DEF Size
<1>2. CASE n >= 0
  <2>1. k * n >= 0
    BY <1>2
  <2> QED
    BY <1>2, <2>1 DEF Size
<1> QED
  BY <1>1, <1>2

\* A fraction is its terms without a common factor.
LEMMA FracTerms ==
    ASSUME NEW n \in Int, NEW d \in Nat \ {0}
    PROVE  \E p \in Int, q \in Nat \ {0}, g \in Nat \ {0} :
              /\ Frac(n, d) = <<p, q>> /\ n = p * g /\ d = q * g
              /\ n >= 0 => p >= 0
              /\ g = Gcd[<<Size(n), d>>]
<1>1. Size(n) \in Nat /\ Size(n) + d > 0 /\ (n = Size(n) \/ n = -Size(n))
  BY DEF Size
<1>2. PICK g \in Nat \ {0}, x \in Nat, y \in Nat :
         Gcd[<<Size(n), d>>] = g /\ Size(n) = x * g /\ d = y * g
  BY <1>1, GcdDivides
<1>3. PICK p \in Int : n = p * g /\ (n >= 0 => p >= 0)
  <2>1. CASE n = Size(n)
    BY <1>2, <2>1
  <2>2. CASE n # Size(n)
    <3>1. n = (-x) * g /\ -x \in Int /\ n < 0
      BY <1>1, <1>2, <2>2
    <3> QED
      BY <3>1
  <2> QED
    BY <2>1, <2>2
<1>4. y # 0
  BY <1>2
<1>5. n \div g = p /\ d \div g = y
  <2>1. n = p * g + 0 /\ d = y * g + 0
    BY <1>2, <1>3
  <2> QED
    BY <1>2, <2>1, Division
<1> QED
  BY <1>2, <1>3, <1>4, <1>5 DEF Frac

LEMMA FracScales ==
    ASSUME NEW n \in Int, NEW d \in Nat \ {0}, NEW k \in Nat \ {0}
    PROVE  Frac(k * n, k * d) = Frac(n, d)
<1>1. PICK p \in Int, q \in Nat \ {0}, g \in Nat \ {0} :
         Frac(n, d) = <<p, q>> /\ n = p * g /\ d = q * g /\ g = Gcd[<<Size(n), d>>]
  BY FracTerms
<1>2. Gcd[<<Size(k * n), k * d>>] = k * g
  <2>1. Size(k * n) = k * Size(n) /\ Size(n) \in Nat
    BY SizeScales
  <2>2. Gcd[<<k * Size(n), k * d>>] = k * Gcd[<<Size(n), d>>]
    BY <2>1, GcdScales
  <2> QED
    BY <1>1, <2>1, <2>2
<1>3. k * n = p * (k * g) /\ k * d = q * (k * g) /\ k * g \in Nat \ {0}
  <2>1. k * n = p * (k * g)
    BY <1>1
  <2>2. k * d = q * (k * g)
    BY <1>1
  <2> QED
    BY <2>1, <2>2
<1>4. PICK h \in Nat \ {0} : h = k * g
  BY <1>3
<1>5. (k * n) \div h = p /\ (k * d) \div h = q
  <2>1. k * n = p * h + 0 /\ k * d = q * h + 0 /\ k * n \in Int /\ k * d \in Int
    BY <1>3, <1>4
  <2> QED
    BY <2>1, Division
<1> QED
  BY <1>1, <1>2, <1>4, <1>5 DEF Frac

\* Two fractions of one value are the same pair.
LEMMA FracsEqual ==
    ASSUME NEW a \in Int, NEW b \in Nat \ {0}, NEW c \in Int, NEW d \in Nat \ {0}, a * d = c * b
    PROVE  Frac(a, b) = Frac(c, d)
<1>1. Frac(d * a, d * b) = Frac(a, b)
  BY FracScales
<1>2. Frac(b * c, b * d) = Frac(c, d)
  BY FracScales
<1>3. d * a = b * c /\ d * b = b * d
  OBVIOUS
<1> QED
  BY <1>1, <1>2, <1>3

LEMMA WholeIsFrac ==
    ASSUME NEW n \in Int
    PROVE  Whole(n) = Frac(n, 1)
<1>1. Size(n) \in Nat /\ Size(n) % 1 = 0
  <2>1. Size(n) \in Nat
    BY DEF Size
  <2>2. Size(n) = Size(n) * 1 + 0
    BY <2>1
  <2> QED
    BY <2>1, <2>2, Division
<1>2. Gcd[<<Size(n), 1>>] = 1
  <2>1. \A a, b \in Nat : Gcd[<<a, b>>] = IF b = 0 THEN a ELSE Gcd[<<b, a % b>>]
    BY GcdRecursion
  <2>2. PICK m \in Nat : m = Size(n)
    BY <1>1
  <2>3. Gcd[<<m, 1>>] = Gcd[<<1, 0>>]
    BY <1>1, <2>1, <2>2
  <2>4. Gcd[<<1, 0>>] = 1
    BY <2>1
  <2> QED
    BY <2>2, <2>3, <2>4
<1>3. n \div 1 = n /\ 1 \div 1 = 1
  OBVIOUS
<1> QED
  BY <1>2, <1>3 DEF Whole, Frac

LEMMA PlusOfFracs ==
    ASSUME NEW a \in Int, NEW b \in Nat \ {0}, NEW c \in Int, NEW d \in Nat \ {0}
    PROVE  /\ Plus(Frac(a, b), Frac(c, d)) = Frac(a * d + c * b, b * d)
           /\ Minus(Frac(a, b), Frac(c, d)) = Frac(a * d - c * b, b * d)
           /\ Times(Frac(a, b), Frac(c, d)) = Frac(a * c, b * d)
<1>1. PICK p \in Int, q \in Nat \ {0}, g \in Nat \ {0} :
         /\ Frac(a, b) = <<p, q>> /\ a = p * g /\ b = q * g
         /\ a >= 0 => p >= 0
         /\ g = Gcd[<<Size(a), b>>]
  BY FracTerms
<1>2. PICK r \in Int, s \in Nat \ {0}, h \in Nat \ {0} :
         /\ Frac(c, d) = <<r, s>> /\ c = r * h /\ d = s * h
         /\ c >= 0 => r >= 0
         /\ h = Gcd[<<Size(c), d>>]
  BY FracTerms
<1>3. PICK k \in Nat \ {0} : k = g * h
  <2>1. g * h \in Nat /\ g * h > 0
    OBVIOUS
  <2> QED
    BY <2>1
<1>4. q * s \in Nat \ {0}
  <2>1. q * s \in Nat /\ q * s > 0
    OBVIOUS
  <2> QED
    BY <2>1
<1>5. b * d = k * (q * s)
  BY <1>1, <1>2, <1>3
<1>6. a * d = k * (p * s) /\ c * b = k * (r * q) /\ a * c = k * (p * r)
  BY <1>1, <1>2, <1>3
<1>7. a * d + c * b = k * (p * s + r * q) /\ a * d - c * b = k * (p * s - r * q)
  <2>1. p * s \in Int /\ r * q \in Int
    OBVIOUS
  <2>2. PICK x \in Int, y \in Int : x = p * s /\ y = r * q
    BY <2>1
  <2>3. k * x + k * y = k * (x + y) /\ k * x - k * y = k * (x - y)
    OBVIOUS
  <2> QED
    BY <1>6, <2>2, <2>3
<1>8. /\ Frac(k * (p * s + r * q), k * (q * s)) = Frac(p * s + r * q, q * s)
      /\ Frac(k * (p * s - r * q), k * (q * s)) = Frac(p * s - r * q, q * s)
      /\ Frac(k * (p * r), k * (q * s)) = Frac(p * r, q * s)
  <2>1. p * s + r * q \in Int /\ p * s - r * q \in Int /\ p * r \in Int
    OBVIOUS
  <2> QED
    BY <1>4, <2>1, FracScales
<1>9. /\ Plus(Frac(a, b), Frac(c, d)) = Frac(p * s + r * q, q * s)
      /\ Minus(Frac(a, b), Frac(c, d)) = Frac(p * s - r * q, q * s)
      /\ Times(Frac(a, b), Frac(c, d)) = Frac(p * r, q * s)
  BY <1>1, <1>2 DEF Plus, Minus, Times
<1> QED
  BY <1>5, <1>6, <1>7, <1>8, <1>9

LEMMA PerOfFrac ==
    ASSUME NEW a \in Int, NEW b \in Nat \ {0}, NEW n \in Nat \ {0}
    PROVE  Per(Frac(a, b), n) = Frac(a, b * n)
<1>1. PICK p \in Int, q \in Nat \ {0}, g \in Nat \ {0} :
         /\ Frac(a, b) = <<p, q>> /\ a = p * g /\ b = q * g
         /\ a >= 0 => p >= 0
         /\ g = Gcd[<<Size(a), b>>]
  BY FracTerms
<1>2. q * n \in Nat \ {0}
  <2>1. q * n \in Nat /\ q * n > 0
    OBVIOUS
  <2> QED
    BY <2>1
<1>3. a = g * p /\ b * n = g * (q * n)
  BY <1>1
<1>4. Frac(g * p, g * (q * n)) = Frac(p, q * n)
  BY <1>2, FracScales
<1> QED
  BY <1>1, <1>3, <1>4 DEF Per

Lowest == {Frac(n, d) : n \in Int, d \in Nat \ {0}}

LEMMA FracType ==
    ASSUME NEW n \in Int, NEW d \in Nat \ {0}
    PROVE  Frac(n, d) \in Ratios /\ (n >= 0 => Frac(n, d) \in NonNegative)
<1>1. PICK p \in Int, q \in Nat \ {0}, g \in Nat \ {0} :
         /\ Frac(n, d) = <<p, q>> /\ n = p * g /\ d = q * g
         /\ n >= 0 => p >= 0
         /\ g = Gcd[<<Size(n), d>>]
  BY FracTerms
<1> QED
  BY <1>1 DEF Ratios, NonNegative

LEMMA LowestType ==
    /\ Lowest \subseteq Ratios
    /\ \A n \in Int : Whole(n) \in Lowest
    /\ \A a, b \in Lowest : Plus(a, b) \in Lowest /\ Minus(a, b) \in Lowest /\ Times(a, b) \in Lowest
    /\ \A a \in Lowest, n \in Nat \ {0} : Per(a, n) \in Lowest
    /\ \A a \in Lowest : Square(a) \in Lowest \cap NonNegative
<1>1. Lowest \subseteq Ratios
  BY FracType DEF Lowest
<1>2. ASSUME NEW n \in Int PROVE Whole(n) \in Lowest
  BY WholeIsFrac DEF Lowest
<1>p. ASSUME NEW d \in Nat \ {0}, NEW e \in Nat \ {0} PROVE d * e \in Nat \ {0}
  <2>1. d * e \in Nat /\ d * e > 0
    OBVIOUS
  <2> QED
    BY <2>1
<1>3. ASSUME NEW a \in Lowest, NEW b \in Lowest
      PROVE  Plus(a, b) \in Lowest /\ Minus(a, b) \in Lowest /\ Times(a, b) \in Lowest
  <2>1. PICK p \in Int, q \in Nat \ {0} : a = Frac(p, q)
    BY DEF Lowest
  <2>2. PICK r \in Int, s \in Nat \ {0} : b = Frac(r, s)
    BY DEF Lowest
  <2>3. /\ Plus(a, b) = Frac(p * s + r * q, q * s)
        /\ Minus(a, b) = Frac(p * s - r * q, q * s)
        /\ Times(a, b) = Frac(p * r, q * s)
    BY <2>1, <2>2, PlusOfFracs
  <2>4. /\ p * s + r * q \in Int /\ p * s - r * q \in Int /\ p * r \in Int
        /\ q * s \in Nat \ {0}
    BY <1>p
  <2> QED
    BY <2>3, <2>4 DEF Lowest
<1>4. ASSUME NEW a \in Lowest, NEW n \in Nat \ {0} PROVE Per(a, n) \in Lowest
  <2>1. PICK p \in Int, q \in Nat \ {0} : a = Frac(p, q)
    BY DEF Lowest
  <2>2. Per(a, n) = Frac(p, q * n) /\ q * n \in Nat \ {0}
    BY <1>p, <2>1, PerOfFrac
  <2> QED
    BY <2>2 DEF Lowest
<1>5. ASSUME NEW a \in Lowest PROVE Square(a) \in Lowest \cap NonNegative
  <2>1. PICK p \in Int, q \in Nat \ {0} : a = Frac(p, q)
    BY DEF Lowest
  <2>2. Square(a) = Frac(p * p, q * q)
    BY <2>1, PlusOfFracs DEF Square
  <2>3. p * p \in Int /\ p * p >= 0 /\ q * q \in Nat \ {0}
    BY <1>p
  <2> QED
    BY <2>2, <2>3, FracType DEF Lowest
<1> QED
  BY <1>1, <1>2, <1>3, <1>4, <1>5

\* A squared distance over a positive variance is not negative.
LEMMA QuotientType ==
    ASSUME NEW a \in NonNegative, NEW b \in Ratios, Exceeds(b, Whole(0))
    PROVE  Quotient(a, b) \in NonNegative
<1>1. b[1] \in Nat \ {0} /\ b[2] \in Nat \ {0} /\ a[1] \in Nat /\ a[2] \in Nat \ {0}
  BY DEF Exceeds, Whole, Ratios, NonNegative
<1>2. PICK p \in Nat, q \in Nat \ {0}, r \in Nat \ {0}, s \in Nat \ {0} :
         p = a[1] /\ q = a[2] /\ r = b[1] /\ s = b[2]
  BY <1>1
<1>3. p * s \in Nat /\ q * r \in Nat /\ q * r > 0
  OBVIOUS
<1>4. p * s \in Int /\ p * s >= 0 /\ q * r \in Nat \ {0}
  BY <1>3
<1> QED
  BY <1>2, <1>4, FracType DEF Quotient

----------------------------------------------------------------------------
(* The fields of an accumulator *)

Moments == Nat \cup {NoEvent}

LEMMA EarlierLater ==
    ASSUME NEW a \in Moments, NEW b \in Moments, NEW c \in Moments
    PROVE  /\ Earlier(a, b) \in Moments /\ Later(a, b) \in Moments
           /\ Earlier(a, NoEvent) = a /\ Later(a, NoEvent) = a
           /\ Earlier(a, Earlier(b, c)) = Earlier(Earlier(a, b), c)
           /\ Later(a, Later(b, c)) = Later(Later(a, b), c)
<1>1. NoEvent \notin Nat
  BY StreamAssumption
<1> QED
  BY <1>1 DEF Earlier, Later, Moments

LEMMA Severities ==
    ASSUME NEW a, NEW b, NEW c
    PROVE  /\ MaxSeverity(a, "warning") = a
           /\ MaxSeverity(a, MaxSeverity(b, c)) = MaxSeverity(MaxSeverity(a, b), c)
<1>1. \A x : SeverityWeight(x) \in Nat /\ SeverityWeight(x) >= 5
  BY DEF SeverityWeight
<1>2. SeverityWeight("warning") = 5
  BY DEF SeverityWeight
<1> HIDE DEF SeverityWeight
<1>3. MaxSeverity(a, "warning") = a
  BY <1>1, <1>2 DEF MaxSeverity
<1>4. MaxSeverity(a, MaxSeverity(b, c)) = MaxSeverity(MaxSeverity(a, b), c)
  BY <1>1 DEF MaxSeverity
<1> QED
  BY <1>3, <1>4

\* The value that goes with the greatest of three deviations, the first of equals.
LEMMA WorstAssociates ==
    ASSUME NEW A \in Ratios, NEW B \in Ratios, NEW D \in Ratios, NEW x, NEW y, NEW z
    PROVE  (IF Exceeds(IF Exceeds(D, B) THEN D ELSE B, A)
            THEN IF Exceeds(D, B) THEN z ELSE y
            ELSE x)
         = (IF Exceeds(D, IF Exceeds(B, A) THEN B ELSE A)
            THEN z
            ELSE IF Exceeds(B, A) THEN y ELSE x)
<1>1. CASE Exceeds(D, B) /\ Exceeds(D, A)
  BY <1>1
<1>2. CASE Exceeds(D, B) /\ ~Exceeds(D, A)
  <2>1. ~Exceeds(B, A)
    BY <1>2, ExceedsFacts, NotExceedsTransitive
  <2> QED
    BY <1>2, <2>1
<1>3. CASE ~Exceeds(D, B) /\ Exceeds(B, A)
  BY <1>3
<1>4. CASE ~Exceeds(D, B) /\ ~Exceeds(B, A)
  <2>1. ~Exceeds(D, A)
    BY <1>4, NotExceedsTransitive
  <2> QED
    BY <1>4, <2>1
<1> QED
  BY <1>1, <1>2, <1>3, <1>4

LEMMA SinglesType ==
    ASSUME NEW X, NEW ids \in Seq(X)
    PROVE  /\ [i \in DOMAIN ids |-> <<ids[i]>>] \in Seq(Seq(X))
           /\ \A i \in 1 .. Len(ids) : Contains([j \in DOMAIN ids |-> <<ids[j]>>], <<ids[i]>>)
<1> DEFINE s == [i \in DOMAIN ids |-> <<ids[i]>>]
<1>1. Len(ids) \in Nat /\ DOMAIN ids = 1 .. Len(ids) /\ \A i \in 1 .. Len(ids) : <<ids[i]>> \in Seq(X)
  OBVIOUS
<1>2. s \in [1 .. Len(ids) -> Seq(X)]
  BY <1>1
<1>3. s \in Seq(Seq(X)) /\ Len(s) = Len(ids)
  BY <1>1, <1>2
<1> QED
  BY <1>1, <1>3 DEF Contains

LEMMA ContainsConcat ==
    ASSUME NEW X, NEW s \in Seq(X), NEW t \in Seq(X), NEW x, Contains(t, x)
    PROVE  Contains(s \o t, x)
<1>1. PICK i \in 1 .. Len(t) : t[i] = x
  BY DEF Contains
<1>2. Len(s) + i \in 1 .. Len(s \o t) /\ (s \o t)[Len(s) + i] = x
  BY <1>1
<1> QED
  BY <1>2 DEF Contains

LEMMA IdsReadType ==
    ASSUME NEW X, NEW confirmed \in Seq(X), NEW attached \in Seq(X)
    PROVE  /\ IdsRead(confirmed, attached) \in Seq(Seq(X))
           /\ \A i \in 1 .. Len(attached) : Contains(IdsRead(confirmed, attached), <<attached[i]>>)
<1> DEFINE Single(ids) == [i \in DOMAIN ids |-> <<ids[i]>>]
           glued == <<<<Last(confirmed), Head(attached)>>>>
           first == IF confirmed = << >> THEN << >>
                    ELSE IF attached = << >> THEN Single(confirmed)
                    ELSE Single(Front(confirmed)) \o glued \o Single(Tail(attached))
<1>1. \A ids \in Seq(X) : Single(ids) \in Seq(Seq(X))
  BY SinglesType
<1>2. first \in Seq(Seq(X))
  <2>1. CASE confirmed # << >> /\ attached # << >>
    <3>1. Front(confirmed) \in Seq(X) /\ Last(confirmed) \in X
      BY <2>1 DEF Front, Last
    <3>2. Head(attached) \in X /\ Tail(attached) \in Seq(X)
      BY <2>1
    <3>3. glued \in Seq(Seq(X))
      BY <3>1, <3>2
    <3>4. Single(Front(confirmed)) \in Seq(Seq(X)) /\ Single(Tail(attached)) \in Seq(Seq(X))
      BY <1>1, <3>1, <3>2
    <3>5. first = Single(Front(confirmed)) \o glued \o Single(Tail(attached))
      BY <2>1
    <3> HIDE DEF Single, glued, first
    <3> QED
      BY <3>3, <3>4, <3>5
  <2>2. CASE confirmed = << >>
    BY <2>2
  <2>3. CASE confirmed # << >> /\ attached = << >>
    BY <1>1, <2>3
  <2> QED
    BY <2>1, <2>2, <2>3
<1>3. IdsRead(confirmed, attached) = first \o Single(attached)
  BY DEF IdsRead
<1> HIDE DEF first
<1>4. ASSUME NEW i \in 1 .. Len(attached) PROVE Contains(Single(attached), <<attached[i]>>)
  BY SinglesType
<1> HIDE DEF Single
<1>5. Single(attached) \in Seq(Seq(X))
  BY <1>1
<1>6. first \o Single(attached) \in Seq(Seq(X))
  BY <1>2, <1>5
<1> QED
  BY <1>2, <1>3, <1>4, <1>5, <1>6, ContainsConcat

----------------------------------------------------------------------------
(* Accumulators *)

SeenSeverities == {e.severity : e \in MetricEvents} \cup {"warning"}
MetricGroups == {"mixed", "latency", "queue", "error", "resource"}

Elements ==
    [event : MetricEvents, deviation : NonNegative, confirmed : Seq(AlertIds), attached : Seq(AlertIds)]

Accumulators ==
    [first : Moments, last : Moments, alertCount : Nat, severityMax : SeenSeverities,
     worstSigma : NonNegative, worstAlert : MetricEvents \cup {NoEvent}, metricGroup : MetricGroups,
     externalAlertIds : Seq(Seq(AlertIds)), crossValidated : BOOLEAN]

LEMMA AccumulatorType == Accumulator \in Accumulators
<1>1. Whole(0) \in NonNegative /\ << >> \in Seq(Seq(AlertIds))
  BY ExceedsFacts
<1> QED
  BY <1>1 DEF Accumulator, Accumulators, Moments, SeenSeverities, MetricGroups

LEMMA AddToIncidentType ==
    ASSUME NEW acc \in Accumulators, NEW m \in Elements
    PROVE  AddToIncident(acc, m) \in Accumulators
<1>1. /\ m.event \in MetricEvents /\ m.event.timestamp \in Moments
      /\ m.event.severity \in SeenSeverities /\ m.deviation \in NonNegative
      /\ m.confirmed \in Seq(AlertIds) /\ m.attached \in Seq(AlertIds)
  BY StreamAssumption DEF Elements, Moments, SeenSeverities
<1>2. /\ Earlier(acc.first, m.event.timestamp) \in Moments
      /\ Later(acc.last, m.event.timestamp) \in Moments
  BY <1>1, EarlierLater DEF Accumulators
<1>3. acc.alertCount + 1 \in Nat
  BY DEF Accumulators
<1>4. MaxSeverity(acc.severityMax, m.event.severity) \in SeenSeverities
  BY <1>1 DEF MaxSeverity, Accumulators
<1>5. MetricGroup(m.event.metricType) \in MetricGroups
  BY DEF MetricGroup, MetricGroups
<1>6. FoldLeft(AddNew, acc.externalAlertIds, IdsRead(m.confirmed, m.attached)) \in Seq(Seq(AlertIds))
  <2>1. /\ acc.externalAlertIds \in Seq(Seq(AlertIds))
        /\ IdsRead(m.confirmed, m.attached) \in Seq(Seq(AlertIds))
    BY <1>1, IdsReadType DEF Accumulators
  <2>2. AddAll(acc.externalAlertIds, IdsRead(m.confirmed, m.attached)) \in Seq(Seq(AlertIds))
    BY <2>1, AddNewFoldType
  <2> QED
    BY <2>2 DEF AddAll
<1>7. (acc.crossValidated \/ m.confirmed # << >>) \in BOOLEAN
  OBVIOUS
<1>8. /\ (IF Exceeds(m.deviation, acc.worstSigma) THEN m.deviation ELSE acc.worstSigma) \in NonNegative
      /\ (IF Exceeds(m.deviation, acc.worstSigma) THEN m.event ELSE acc.worstAlert)
            \in MetricEvents \cup {NoEvent}
      /\ (IF Exceeds(m.deviation, acc.worstSigma) THEN MetricGroup(m.event.metricType) ELSE acc.metricGroup)
            \in MetricGroups
  BY <1>1, <1>5 DEF Accumulators
<1> QED
  BY <1>2, <1>3, <1>4, <1>6, <1>7, <1>8 DEF AddToIncident, Accumulators

AddToIncidentFcn == [p \in Accumulators \X Elements |-> AddToIncident(p[1], p[2])]

LEMMA AddToIncidentFcnType ==
    /\ IsStep(AddToIncidentFcn, Accumulators, Elements)
    /\ \A acc \in Accumulators, m \in Elements : AddToIncidentFcn[<<acc, m>>] = AddToIncident(acc, m)
  BY AddToIncidentType DEF AddToIncidentFcn, IsStep

LEMMA AggregatedFolded ==
    ASSUME NEW s \in Seq(Elements)
    PROVE  Aggregated(s) = Folded(AddToIncidentFcn, Accumulator, s)
<1> DEFINE F == AddToIncidentFcn
           X == Accumulators
           base == Accumulator
           n == Len(s)
           IsIter(f) == f = [T \in SUBSET (DOMAIN s) |->
                               IF T = {} THEN base ELSE AddToIncident(f[T \ {Max(T)}], s[Max(T)])]
           g == CHOOSE f : IsIter(f)
<1>1. Aggregated(s) = g[DOMAIN s]
  BY DEF Aggregated, FoldLeft, MapThenFoldSet
<1>2. /\ IsStep(F, X, Elements) /\ base \in X
      /\ \A acc \in X, m \in Elements : F[<<acc, m>>] = AddToIncident(acc, m)
  BY AddToIncidentFcnType, AccumulatorType
<1>3. n \in Nat /\ DOMAIN s = 1 .. n /\ \A i \in 1 .. n : s[i] \in Elements
  OBVIOUS
<1> HIDE DEF F, X, base
<1>4. IsIter(g)
  <2>1. PICK f \in [SUBSET (1 .. n) -> X] : IsIteration(f, F, base, s)
    BY <1>2, IterExists
  <2>2. ASSUME NEW T \in SUBSET (1 .. n), T # {}
        PROVE  F[<<f[T \ {Max(T)}], s[Max(T)]>>] = AddToIncident(f[T \ {Max(T)}], s[Max(T)])
    <3>1. s[Max(T)] \in Elements /\ T \ {Max(T)} \in SUBSET (1 .. n)
      BY <1>3, <2>2, MaxOfIndices
    <3> QED
      BY <1>2, <3>1
  <2>3. IsIter(f)
    BY <1>3, <2>1, <2>2 DEF IsIteration
  <2> HIDE DEF IsIter
  <2> QED
    BY <2>3
<1> HIDE DEF g
<1>5. IsTypedIteration(g, X, F, base, s)
  <2>1. ASSUME NEW i \in 1 .. n
        PROVE  /\ g[1 .. i] = AddToIncident(g[(1 .. i) \ {Max(1 .. i)}], s[Max(1 .. i)])
               /\ s[Max(1 .. i)] \in Elements
    <3>1. (1 .. i) \in SUBSET (DOMAIN s) /\ i \in 1 .. i /\ Max(1 .. i) = i
      BY <1>3, MaxOfIndices
    <3> QED
      BY <1>3, <1>4, <3>1
  <2> QED
    BY <1>2, <1>4, <2>1 DEF IsTypedIteration
<1> QED
  BY <1>1, <1>2, <1>5, IterEnds DEF F, base

LEMMA AggregatedEmpty == Aggregated(<< >>) = Accumulator
<1>1. << >> \in Seq(Elements)
  OBVIOUS
<1>2. Folded(AddToIncidentFcn, Accumulator, << >>) = Accumulator
  BY AddToIncidentFcnType, AccumulatorType, FoldedEmpty
<1> QED
  BY <1>1, <1>2, AggregatedFolded

LEMMA AggregatedAppend ==
    ASSUME NEW s \in Seq(Elements), NEW m \in Elements
    PROVE  /\ Aggregated(s) \in Accumulators
           /\ Aggregated(Append(s, m)) = AddToIncident(Aggregated(s), m)
<1>1. Append(s, m) \in Seq(Elements)
  OBVIOUS
<1>2. IsStep(AddToIncidentFcn, Accumulators, Elements) /\ Accumulator \in Accumulators
  BY AddToIncidentFcnType, AccumulatorType
<1>3. Folded(AddToIncidentFcn, Accumulator, s) \in Accumulators
  BY <1>2, FoldedInside
<1>4. Folded(AddToIncidentFcn, Accumulator, Append(s, m)) = AddToIncidentFcn[<<Folded(AddToIncidentFcn, Accumulator, s), m>>]
  BY <1>2, FoldedAppend
<1> QED
  BY <1>1, <1>3, <1>4, AddToIncidentFcnType, AggregatedFolded

LEMMA AggregatedType ==
    ASSUME NEW s \in Seq(Elements)
    PROVE  Aggregated(s) \in Accumulators
  BY AddToIncidentFcnType, AccumulatorType, AggregatedFolded, FoldedInside

----------------------------------------------------------------------------
(* Partial aggregates *)

Fields(acc) ==
    [first |-> acc.first, last |-> acc.last, alertCount |-> acc.alertCount,
     severityMax |-> acc.severityMax, worstSigma |-> acc.worstSigma, worstAlert |-> acc.worstAlert,
     metricGroup |-> acc.metricGroup, externalAlertIds |-> acc.externalAlertIds,
     crossValidated |-> acc.crossValidated]

LEMMA MergeNothing ==
    ASSUME NEW a \in Accumulators
    PROVE  Merge(a, Accumulator) = a
<1> DEFINE acc == Accumulator
<1>1. /\ acc.first = NoEvent /\ acc.last = NoEvent /\ acc.alertCount = 0 /\ acc.severityMax = "warning"
      /\ acc.worstSigma = Whole(0) /\ acc.externalAlertIds = << >> /\ acc.crossValidated = FALSE
  BY DEF Accumulator
<1> HIDE DEF acc
<1>2. /\ a.first \in Moments /\ a.last \in Moments /\ a.alertCount \in Nat /\ a.crossValidated \in BOOLEAN
      /\ a.worstSigma \in NonNegative /\ a.externalAlertIds \in Seq(Seq(AlertIds))
  BY DEF Accumulators
<1>3. Earlier(a.first, NoEvent) = a.first /\ Later(a.last, NoEvent) = a.last
  BY <1>2, EarlierLater DEF Moments
<1>4. MaxSeverity(a.severityMax, "warning") = a.severityMax
  BY Severities
<1>5. ~Exceeds(acc.worstSigma, a.worstSigma)
  BY <1>1, <1>2, ExceedsFacts
<1>6. AddAll(a.externalAlertIds, << >>) = a.externalAlertIds
  BY <1>2, AddNewFoldEmpty
<1>7. FoldLeft(AddNew, a.externalAlertIds, acc.externalAlertIds) = a.externalAlertIds
  BY <1>1, <1>6 DEF AddAll
<1>8. a.alertCount + 0 = a.alertCount /\ (a.crossValidated \/ FALSE) = a.crossValidated
  BY <1>2
<1>9. Merge(a, acc) = Fields(a)
  BY <1>1, <1>3, <1>4, <1>5, <1>7, <1>8 DEF Merge, Fields
<1> QED
  BY <1>9 DEF Accumulators, Fields, acc

\* An element makes the same difference to a partial aggregate before and
\* after it is merged.
LEMMA MergeAdd ==
    ASSUME NEW a \in Accumulators, NEW b \in Accumulators, NEW m \in Elements
    PROVE  Merge(a, AddToIncident(b, m)) = AddToIncident(Merge(a, b), m)
<1> DEFINE l == Merge(a, AddToIncident(b, m))
           r == AddToIncident(Merge(a, b), m)
           t == m.event.timestamp
           ids == IdsRead(m.confirmed, m.attached)
<1>1. /\ m.deviation \in Ratios /\ a.worstSigma \in Ratios /\ b.worstSigma \in Ratios
      /\ t \in Moments /\ a.first \in Moments /\ a.last \in Moments /\ b.first \in Moments /\ b.last \in Moments
      /\ a.alertCount \in Nat /\ b.alertCount \in Nat
      /\ a.externalAlertIds \in Seq(Seq(AlertIds)) /\ b.externalAlertIds \in Seq(Seq(AlertIds))
      /\ ids \in Seq(Seq(AlertIds))
  BY StreamAssumption, IdsReadType, ExceedsFacts DEF Elements, Accumulators, Moments
<1>2. /\ Earlier(a.first, Earlier(b.first, t)) = Earlier(Earlier(a.first, b.first), t)
      /\ Later(a.last, Later(b.last, t)) = Later(Later(a.last, b.last), t)
  <2>1. \A u, v, w \in Moments : /\ Earlier(u, Earlier(v, w)) = Earlier(Earlier(u, v), w)
                                /\ Later(u, Later(v, w)) = Later(Later(u, v), w)
    BY EarlierLater
  <2> QED
    BY <1>1, <2>1
<1>3. a.alertCount + (b.alertCount + 1) = (a.alertCount + b.alertCount) + 1
  BY <1>1
<1>4. MaxSeverity(a.severityMax, MaxSeverity(b.severityMax, m.event.severity))
         = MaxSeverity(MaxSeverity(a.severityMax, b.severityMax), m.event.severity)
  BY Severities
<1>5. FoldLeft(AddNew, a.externalAlertIds, FoldLeft(AddNew, b.externalAlertIds, ids))
         = FoldLeft(AddNew, FoldLeft(AddNew, a.externalAlertIds, b.externalAlertIds), ids)
  BY <1>1, FoldAssociates DEF AddAll
<1>6. (a.crossValidated \/ (b.crossValidated \/ m.confirmed # << >>))
         = ((a.crossValidated \/ b.crossValidated) \/ m.confirmed # << >>)
  OBVIOUS
<1>7. l.first = r.first /\ l.last = r.last /\ l.alertCount = r.alertCount
  BY <1>2, <1>3 DEF Merge, AddToIncident
<1>8. l.severityMax = r.severityMax /\ l.crossValidated = r.crossValidated
  BY <1>4, <1>6 DEF Merge, AddToIncident
<1>9. l.externalAlertIds = r.externalAlertIds
  BY <1>5 DEF Merge, AddToIncident
<1>10. ASSUME NEW x, NEW y, NEW z
       PROVE  (IF Exceeds(IF Exceeds(m.deviation, b.worstSigma) THEN m.deviation ELSE b.worstSigma,
                          a.worstSigma)
               THEN IF Exceeds(m.deviation, b.worstSigma) THEN z ELSE y
               ELSE x)
            = (IF Exceeds(m.deviation, IF Exceeds(b.worstSigma, a.worstSigma)
                                       THEN b.worstSigma ELSE a.worstSigma)
               THEN z
               ELSE IF Exceeds(b.worstSigma, a.worstSigma) THEN y ELSE x)
  BY <1>1, WorstAssociates
<1>11. l.worstSigma = r.worstSigma
  BY <1>10 DEF Merge, AddToIncident
<1>12. l.worstAlert = r.worstAlert
  BY <1>10 DEF Merge, AddToIncident
<1>13. l.metricGroup = r.metricGroup
  BY <1>10 DEF Merge, AddToIncident
<1>14. ASSUME NEW x PROVE AddToIncident(x, m) = Fields(AddToIncident(x, m)) /\ Merge(a, x) = Fields(Merge(a, x))
  BY DEF Merge, AddToIncident, Fields
<1>15. l = Fields(l) /\ r = Fields(r)
  BY <1>14
<1> HIDE DEF l, r
<1>16. l = r
  BY <1>7, <1>8, <1>9, <1>11, <1>12, <1>13, <1>15 DEF Fields
<1> QED
  BY <1>16 DEF l, r

\* However a window is split, its two parts merge to what it is on the whole.
THEOREM PartsMerge ==
    ASSUME NEW s \in Seq(Elements), NEW i \in 0 .. Len(s)
    PROVE  Merge(Aggregated(SubSeq(s, 1, i)), Aggregated(SubSeq(s, i + 1, Len(s)))) = Aggregated(s)
<1> DEFINE n == Len(s)
           Before(k) == SubSeq(s, 1, i + k)
           After(k) == SubSeq(s, i + 1, i + k)
           Good == {k \in Nat : i + k <= n =>
                       Merge(Aggregated(Before(0)), Aggregated(After(k))) = Aggregated(Before(k))}
<1>1. n \in Nat /\ i \in Nat /\ i <= n /\ \A j \in 1 .. n : s[j] \in Elements
  OBVIOUS
<1>2. ASSUME NEW k \in Nat, i + k <= n
      PROVE  Before(k) \in Seq(Elements) /\ After(k) \in Seq(Elements)
  BY <1>1, <1>2
<1>3. 0 \in Good
  <2>1. After(0) = << >>
    BY <1>1
  <2>2. Before(0) \in Seq(Elements)
    BY <1>1
  <2>3. Aggregated(Before(0)) \in Accumulators
    BY <2>2, AggregatedType
  <2>4. Merge(Aggregated(Before(0)), Aggregated(After(0))) = Aggregated(Before(0))
    BY <2>1, <2>3, AggregatedEmpty, MergeNothing
  <2> QED
    BY <2>4
<1>4. ASSUME NEW k \in Nat, k \in Good PROVE k + 1 \in Good
  <2> SUFFICES ASSUME i + (k + 1) <= n
               PROVE  Merge(Aggregated(Before(0)), Aggregated(After(k + 1))) = Aggregated(Before(k + 1))
    OBVIOUS
  <2> DEFINE m == s[i + (k + 1)]
  <2>1. m \in Elements
    BY <1>1
  <2>2. Before(k + 1) = Append(Before(k), m) /\ After(k + 1) = Append(After(k), m)
    BY <1>1
  <2>3. Before(0) \in Seq(Elements) /\ Before(k) \in Seq(Elements) /\ After(k) \in Seq(Elements)
    BY <1>1, <1>2
  <2>4. Merge(Aggregated(Before(0)), Aggregated(After(k))) = Aggregated(Before(k))
    BY <1>1, <1>4
  <2>5. /\ Aggregated(Before(0)) \in Accumulators /\ Aggregated(After(k)) \in Accumulators
        /\ Aggregated(After(k + 1)) = AddToIncident(Aggregated(After(k)), m)
        /\ Aggregated(Before(k + 1)) = AddToIncident(Aggregated(Before(k)), m)
    <3> HIDE DEF m, Before, After
    <3> QED
      BY <2>1, <2>2, <2>3, AggregatedType, AggregatedAppend
  <2> HIDE DEF m, Before, After
  <2> QED
    BY <2>1, <2>4, <2>5, MergeAdd
<1> HIDE DEF Good
<1>5. n - i \in Good
  BY <1>1, <1>3, <1>4, Inductive
<1>6. Before(n - i) = s /\ i + (n - i) = n /\ Before(0) = SubSeq(s, 1, i) /\ After(n - i) = SubSeq(s, i + 1, n)
  BY <1>1
<1>7. Merge(Aggregated(Before(0)), Aggregated(After(n - i))) = Aggregated(Before(n - i))
  BY <1>5, <1>6 DEF Good
<1> QED
  BY <1>6, <1>7

\* An accumulator names the alerts attached to what it was given.
LEMMA AttachedAreNamed ==
    ASSUME NEW s \in Seq(Elements), NEW j \in 1 .. Len(s), NEW k \in 1 .. Len(s[j].attached)
    PROVE  Contains(Aggregated(s).externalAlertIds, <<s[j].attached[k]>>)
<1> DEFINE Names(t) == \A i \in 1 .. Len(t) : \A l \in 1 .. Len(t[i].attached) :
                          Contains(Aggregated(t).externalAlertIds, <<t[i].attached[l]>>)
           A == {t \in Seq(Elements) : Names(t)}
<1>1. << >> \in A
  OBVIOUS
<1>2. ASSUME NEW t \in Seq(Elements), NEW m \in Elements, t \in A PROVE Append(t, m) \in A
  <2> DEFINE u == Append(t, m)
             had == Aggregated(t).externalAlertIds
             read == IdsRead(m.confirmed, m.attached)
  <2>1. /\ u \in Seq(Elements) /\ Len(u) = Len(t) + 1 /\ u[Len(t) + 1] = m
        /\ Len(t) \in Nat /\ \A i \in 1 .. Len(t) : u[i] = t[i]
    OBVIOUS
  <2>2. had \in Seq(Seq(AlertIds))
    BY AggregatedType DEF Accumulators
  <2>3. /\ m.attached \in Seq(AlertIds) /\ read \in Seq(Seq(AlertIds))
        /\ \A l \in 1 .. Len(m.attached) : Contains(read, <<m.attached[l]>>)
    BY IdsReadType DEF Elements
  <2>4. Aggregated(u).externalAlertIds = AddAll(had, read)
    BY AggregatedAppend DEF AddToIncident, AddAll
  <2> HIDE DEF u, had, read
  <2>5. \A x : Contains(had, x) \/ Contains(read, x) => Contains(Aggregated(u).externalAlertIds, x)
    BY <2>2, <2>3, <2>4, FoldContains
  <2>6. ASSUME NEW i \in 1 .. Len(u), NEW l \in 1 .. Len(u[i].attached)
        PROVE  Contains(Aggregated(u).externalAlertIds, <<u[i].attached[l]>>)
    <3>1. CASE i = Len(t) + 1
      BY <2>1, <2>3, <2>5, <3>1
    <3>2. CASE i \in 1 .. Len(t)
      <4>1. Contains(had, <<t[i].attached[l]>>)
        BY <1>2, <2>1, <3>2 DEF had
      <4> QED
        BY <2>1, <2>5, <3>2, <4>1
    <3> QED
      BY <2>1, <3>1, <3>2
  <2> QED
    BY <2>1, <2>6 DEF u
<1>3. s \in A
  BY <1>1, <1>2, InductiveSeq
<1> QED
  BY <1>3

----------------------------------------------------------------------------
(* Sums over days *)

\* A sum of fractions is one.
LEMMA TotalType ==
    ASSUME NEW S, IsFiniteSet(S), NEW f \in [S -> Lowest]
    PROVE  Total(f) \in Lowest
<1> DEFINE IsIter(g) == g = [T \in SUBSET S |->
                               IF T = {} THEN Whole(0) ELSE Plus(f[Picked(T)], g[T \ {Picked(T)}])]
           h == CHOOSE g : IsIter(g)
           F == [x \in Lowest \X S |-> Plus(f[x[2]], x[1])]
<1>1. Total(f) = h[S]
  BY DEF Total, FoldFunction, FoldFunctionOnSet, MapThenFoldSet, Picked
<1>2. IsStep(F, Lowest, S) /\ \A v \in Lowest, x \in S : F[<<v, x>>] = Plus(f[x], v)
  BY LowestType DEF IsStep
<1>3. Whole(0) \in Lowest /\ \A T \in SUBSET S : T # {} => Picked(T) \in S
  BY LowestType DEF Picked
<1> HIDE DEF F
<1>4. PICK g \in [SUBSET S -> Lowest] : IsAnyFold(g, F, Whole(0), S)
  BY <1>2, <1>3, AnyFoldExists
<1>5. ASSUME NEW T \in SUBSET S, T # {} PROVE g[T] = Plus(f[Picked(T)], g[T \ {Picked(T)}])
  BY <1>2, <1>3, <1>4, <1>5 DEF IsAnyFold
<1>6. IsIter(g)
  BY <1>4, <1>5 DEF IsAnyFold
<1>7. IsIter(h)
  <2> HIDE DEF IsIter
  <2> QED
    BY <1>6
<1> HIDE DEF h
<1>8. IsTypedFold(h, Lowest, F, Whole(0), S)
  BY <1>2, <1>3, <1>7 DEF IsTypedFold
<1> QED
  BY <1>1, <1>2, <1>3, <1>8, FoldInside

\* A sum of positive numbers over two or more indices exceeds 1.
LEMMA SumType ==
    ASSUME NEW S, IsFiniteSet(S), NEW f \in [S -> Nat \ {0}]
    PROVE  /\ SumFunction(f) \in Nat
           /\ Cardinality(S) >= 2 => SumFunction(f) > 1
<1> DEFINE IsIter(g) == g = [T \in SUBSET S |->
                               IF T = {} THEN 0 ELSE f[Picked(T)] + g[T \ {Picked(T)}]]
           h == CHOOSE g : IsIter(g)
           F == [x \in Nat \X S |-> f[x[2]] + x[1]]
<1>1. SumFunction(f) = h[S]
  BY DEF SumFunction, SumFunctionOnSet, FoldFunctionOnSet, MapThenFoldSet, Picked
<1>2. IsStep(F, Nat, S) /\ \A v \in Nat, x \in S : F[<<v, x>>] = f[x] + v
  BY DEF IsStep
<1>3. \A T \in SUBSET S : T # {} => Picked(T) \in T
  BY DEF Picked
<1> HIDE DEF F
<1>4. PICK g \in [SUBSET S -> Nat] : IsAnyFold(g, F, 0, S)
  BY <1>2, AnyFoldExists
<1>5. ASSUME NEW T \in SUBSET S, T # {} PROVE g[T] = f[Picked(T)] + g[T \ {Picked(T)}]
  BY <1>2, <1>3, <1>4, <1>5 DEF IsAnyFold
<1>6. IsIter(g)
  BY <1>4, <1>5 DEF IsAnyFold
<1>7. IsIter(h)
  <2> HIDE DEF IsIter
  <2> QED
    BY <1>6
<1> HIDE DEF h
<1>8. IsTypedFold(h, Nat, F, 0, S)
  BY <1>2, <1>3, <1>7 DEF IsTypedFold
<1>9. \A T \in SUBSET S : h[T] \in Nat
  BY <1>2, <1>8, FoldInside
<1>10. ASSUME NEW T \in SUBSET S, T # {}
       PROVE  h[T] = f[Picked(T)] + h[T \ {Picked(T)}] /\ f[Picked(T)] \in Nat \ {0} /\ T \ {Picked(T)} \in SUBSET S
  BY <1>3, <1>7, <1>10
<1>11. ASSUME Cardinality(S) >= 2 PROVE S # {} /\ S \ {Picked(S)} # {}
  <2>1. S # {}
    BY <1>11, FS_EmptySet
  <2>2. Cardinality(S \ {Picked(S)}) = Cardinality(S) - 1
    BY <1>3, <2>1, FS_RemoveElement
  <2>3. Cardinality({}) = 0
    BY FS_EmptySet
  <2>4. Cardinality(S) \in Nat
    BY FS_CardinalityType
  <2>5. PICK R : R = S \ {Picked(S)}
    OBVIOUS
  <2>6. Cardinality(R) # 0
    BY <1>11, <2>2, <2>4, <2>5
  <2>7. R # {}
    BY <2>3, <2>6, Zenon
  <2> QED
    BY <2>1, <2>5, <2>7
<1>12. ASSUME Cardinality(S) >= 2 PROVE h[S] > 1
  <2>1. PICK R \in SUBSET S : R = S \ {Picked(S)} /\ R # {}
    BY <1>11, <1>12
  <2>2. h[S] = f[Picked(S)] + h[R] /\ f[Picked(S)] \in Nat \ {0}
    BY <1>10, <1>11, <1>12, <2>1
  <2>3. h[R] = f[Picked(R)] + h[R \ {Picked(R)}] /\ f[Picked(R)] \in Nat \ {0} /\ h[R \ {Picked(R)}] \in Nat
    BY <1>9, <1>10, <2>1
  <2> QED
    BY <2>2, <2>3
<1> QED
  BY <1>1, <1>9, <1>12

----------------------------------------------------------------------------
(* The statistics of a bucket *)

SumOf(s) == FoldLeft(+, 0, s)
SumFcn == [p \in Int \X Int |-> p[1] + p[2]]
SquaresFcn == [p \in Int \X Int |-> p[1] + p[2] * p[2]]
SquaresOf(s) == Folded(SquaresFcn, 0, s)

LEMMA SumFolded ==
    ASSUME NEW s \in Seq(Int)
    PROVE  SumOf(s) = Folded(SumFcn, 0, s)
<1> DEFINE F == SumFcn
           n == Len(s)
           IsIter(f) == f = [T \in SUBSET (DOMAIN s) |->
                               IF T = {} THEN 0 ELSE f[T \ {Max(T)}] + s[Max(T)]]
           g == CHOOSE f : IsIter(f)
<1>1. SumOf(s) = g[DOMAIN s]
  BY DEF SumOf, FoldLeft, MapThenFoldSet
<1>2. IsStep(F, Int, Int) /\ \A u, v \in Int : F[<<u, v>>] = u + v
  BY DEF SumFcn, IsStep
<1>3. n \in Nat /\ DOMAIN s = 1 .. n /\ \A i \in 1 .. n : s[i] \in Int
  OBVIOUS
<1> HIDE DEF F
<1>4. IsIter(g)
  <2>0. PICK V : V = Int
    OBVIOUS
  <2>1. PICK f \in [SUBSET (1 .. n) -> V] : IsIteration(f, F, 0, s)
    <3>1. IsStep(F, V, V) /\ 0 \in V /\ s \in Seq(V)
      BY <1>2, <2>0
    <3> QED
      BY <3>1, IterExists
  <2>2. ASSUME NEW T \in SUBSET (1 .. n), T # {}
        PROVE  F[<<f[T \ {Max(T)}], s[Max(T)]>>] = f[T \ {Max(T)}] + s[Max(T)]
    <3>1. s[Max(T)] \in Int /\ T \ {Max(T)} \in SUBSET (1 .. n)
      BY <1>3, <2>2, MaxOfIndices
    <3> QED
      BY <1>2, <2>0, <2>1, <3>1
  <2>3. IsIter(f)
    BY <1>3, <2>0, <2>1, <2>2 DEF IsIteration
  <2> HIDE DEF IsIter
  <2> QED
    BY <2>3
<1> HIDE DEF g
<1>5. IsTypedIteration(g, Int, F, 0, s)
  <2>1. ASSUME NEW i \in 1 .. n
        PROVE  /\ g[1 .. i] = g[(1 .. i) \ {Max(1 .. i)}] + s[Max(1 .. i)]
               /\ s[Max(1 .. i)] \in Int
    <3>1. (1 .. i) \in SUBSET (DOMAIN s) /\ i \in 1 .. i /\ Max(1 .. i) = i
      BY <1>3, MaxOfIndices
    <3> QED
      BY <1>3, <1>4, <3>1
  <2> QED
    BY <1>2, <1>4, <2>1 DEF IsTypedIteration
<1> QED
  BY <1>1, <1>2, <1>5, IterEnds DEF F

LEMMA SumsAppend ==
    /\ SumOf(<< >>) = 0 /\ SquaresOf(<< >>) = 0
    /\ \A s \in Seq(Int), v \in Int :
          /\ SumOf(s) \in Int /\ SquaresOf(s) \in Int
          /\ SumOf(Append(s, v)) = SumOf(s) + v
          /\ SquaresOf(Append(s, v)) = SquaresOf(s) + v * v
<1>1. /\ IsStep(SumFcn, Int, Int) /\ IsStep(SquaresFcn, Int, Int)
      /\ \A u, v \in Int : SumFcn[<<u, v>>] = u + v /\ SquaresFcn[<<u, v>>] = u + v * v
  BY DEF SumFcn, SquaresFcn, IsStep
<1>2. PICK V : V = Int
  OBVIOUS
<1>3. IsStep(SumFcn, V, V) /\ IsStep(SquaresFcn, V, V) /\ 0 \in V
  BY <1>1, <1>2
<1>4. Folded(SumFcn, 0, << >>) = 0 /\ Folded(SquaresFcn, 0, << >>) = 0
  BY <1>3, FoldedEmpty
<1>5. ASSUME NEW s \in Seq(V), NEW v \in V
      PROVE  /\ Folded(SumFcn, 0, s) \in V /\ Folded(SquaresFcn, 0, s) \in V
             /\ Folded(SumFcn, 0, Append(s, v)) = SumFcn[<<Folded(SumFcn, 0, s), v>>]
             /\ Folded(SquaresFcn, 0, Append(s, v)) = SquaresFcn[<<Folded(SquaresFcn, 0, s), v>>]
  BY <1>3, FoldedAppend
<1>6. << >> \in Seq(Int) /\ \A s \in Seq(Int), v \in Int : Append(s, v) \in Seq(Int)
  OBVIOUS
<1>7. \A s \in Seq(Int) : SumOf(s) = Folded(SumFcn, 0, s)
  BY SumFolded
<1>8. ASSUME NEW s \in Seq(Int), NEW v \in Int
      PROVE  /\ SumOf(s) \in Int /\ SquaresOf(s) \in Int
             /\ SumOf(Append(s, v)) = SumOf(s) + v
             /\ SquaresOf(Append(s, v)) = SquaresOf(s) + v * v
  <2>1. /\ Folded(SumFcn, 0, s) \in Int /\ Folded(SquaresFcn, 0, s) \in Int
        /\ Folded(SumFcn, 0, Append(s, v)) = SumFcn[<<Folded(SumFcn, 0, s), v>>]
        /\ Folded(SquaresFcn, 0, Append(s, v)) = SquaresFcn[<<Folded(SquaresFcn, 0, s), v>>]
    BY <1>2, <1>5
  <2>2. SumOf(s) = Folded(SumFcn, 0, s) /\ SumOf(Append(s, v)) = Folded(SumFcn, 0, Append(s, v))
    BY <1>6, <1>7
  <2> QED
    BY <1>1, <2>1, <2>2 DEF SquaresOf
<1> QED
  BY <1>4, <1>6, <1>7, <1>8 DEF SquaresOf

\* The statistics that the values of a bucket define.
StatsOf(values) ==
    [count |-> Len(values),
     mean  |-> Frac(SumOf(values), Len(values)),
     m2    |-> Frac(Len(values) * SquaresOf(values) - SumOf(values) * SumOf(values), Len(values))]

LEMMA ProductPositive ==
    ASSUME NEW d \in Nat \ {0}, NEW e \in Nat \ {0}
    PROVE  d * e \in Nat \ {0}
<1>1. d * e \in Nat /\ d * e > 0
  OBVIOUS
<1> QED
  BY <1>1

\* Welford's identities over the integers.
LEMMA WelfordIdentities ==
    ASSUME NEW n \in Int, NEW S \in Int, NEW Q \in Int, NEW v \in Int
    PROVE  /\ (S * (n * (n + 1)) + (v * n - S * 1) * n) * (n + 1) = (S + v) * (n * (n * (n + 1)))
           /\ ((n * Q - S * S) * (n * (n + 1)) + ((v * n - S * 1) * (v * (n + 1) - (S + v) * 1)) * n)
                 * (n + 1)
              = ((n + 1) * (Q + v * v) - (S + v) * (S + v)) * (n * (n * (n + 1)))
  OBVIOUS

LEMMA AddOfFracs ==
    ASSUME NEW n \in Nat \ {0}, NEW S \in Int, NEW Q \in Int, NEW v \in Int
    PROVE  Add([count |-> n, mean |-> Frac(S, n), m2 |-> Frac(n * Q - S * S, n)], v)
              = [count |-> n + 1, mean |-> Frac(S + v, n + 1),
                 m2 |-> Frac((n + 1) * (Q + v * v) - (S + v) * (S + v), n + 1)]
<1> DEFINE stats == [count |-> n, mean |-> Frac(S, n), m2 |-> Frac(n * Q - S * S, n)]
           delta == Minus(Whole(v), Frac(S, n))
           mean == Plus(Frac(S, n), Per(delta, n + 1))
           m2 == Plus(Frac(n * Q - S * S, n), Times(delta, Minus(Whole(v), mean)))
<1>0. Add(stats, v) = [count |-> n + 1, mean |-> mean, m2 |-> m2]
  BY DEF Add
<1>1. Whole(v) = Frac(v, 1) /\ n + 1 \in Nat \ {0} /\ n * (n + 1) \in Nat \ {0}
  BY WholeIsFrac, ProductPositive
<1>2. n * (n * (n + 1)) \in Nat \ {0}
  BY <1>1, ProductPositive
<1>3. PICK k \in Nat \ {0} : k = n * (n + 1)
  BY <1>1
<1>4. /\ v * n - S * 1 \in Int /\ v * (n + 1) - (S + v) * 1 \in Int /\ n * Q - S * S \in Int
      /\ (n + 1) * (Q + v * v) - (S + v) * (S + v) \in Int
  OBVIOUS
<1>5. PICK d \in Int, e \in Int, m \in Int, x \in Int :
         /\ d = v * n - S * 1 /\ e = v * (n + 1) - (S + v) * 1 /\ m = n * Q - S * S
         /\ x = (n + 1) * (Q + v * v) - (S + v) * (S + v)
  BY <1>4
<1>6. delta = Frac(d, n)
  <2>1. Minus(Frac(v, 1), Frac(S, n)) = Frac(v * n - S * 1, 1 * n)
    BY PlusOfFracs
  <2> QED
    BY <1>1, <1>5, <2>1
<1> HIDE DEF delta
<1>7. mean = Frac(S + v, n + 1)
  <2>1. Per(Frac(d, n), n + 1) = Frac(d, k)
    BY <1>1, <1>3, PerOfFrac
  <2>2. Plus(Frac(S, n), Frac(d, k)) = Frac(S * k + d * n, n * k)
    BY PlusOfFracs
  <2>3. (S * k + d * n) * (n + 1) = (S + v) * (n * k)
    BY <1>3, <1>5, WelfordIdentities
  <2>4. Frac(S * k + d * n, n * k) = Frac(S + v, n + 1)
    <3>1. S * k + d * n \in Int /\ n * k \in Nat \ {0} /\ S + v \in Int /\ n + 1 \in Nat \ {0}
      BY <1>1, <1>2, <1>3
    <3> QED
      BY <2>3, <3>1, FracsEqual
  <2> QED
    BY <1>6, <2>1, <2>2, <2>4
<1> HIDE DEF mean
<1>8. m2 = Frac(x, n + 1)
  <2>1. Minus(Frac(v, 1), Frac(S + v, n + 1)) = Frac(e, n + 1)
    <3>1. PICK t \in Int, j \in Nat \ {0} : t = S + v /\ j = n + 1
      BY <1>1
    <3>2. Minus(Frac(v, 1), Frac(t, j)) = Frac(v * j - t * 1, 1 * j)
      BY PlusOfFracs
    <3> QED
      BY <1>5, <3>1, <3>2
  <2>2. Times(Frac(d, n), Frac(e, n + 1)) = Frac(d * e, k)
    BY <1>1, <1>3, PlusOfFracs
  <2>3. Plus(Frac(m, n), Frac(d * e, k)) = Frac(m * k + (d * e) * n, n * k)
    BY PlusOfFracs
  <2>4. (m * k + (d * e) * n) * (n + 1) = x * (n * k)
    BY <1>3, <1>5, WelfordIdentities
  <2>5. Frac(m * k + (d * e) * n, n * k) = Frac(x, n + 1)
    <3>1. m * k + (d * e) * n \in Int /\ n * k \in Nat \ {0} /\ n + 1 \in Nat \ {0}
      BY <1>1, <1>2, <1>3
    <3> QED
      BY <2>4, <3>1, FracsEqual
  <2> QED
    BY <1>1, <1>5, <1>6, <1>7, <2>1, <2>2, <2>3, <2>5
<1> QED
  BY <1>0, <1>5, <1>7, <1>8

\* A bucket holds the statistics of the values it was given.
THEOREM WelfordIsExact ==
    /\ \A v \in Int : Add(EmptyBucket, v) = StatsOf(<<v>>)
    /\ \A s \in Seq(Int) \ {<< >>}, v \in Int : Add(StatsOf(s), v) = StatsOf(Append(s, v))
<1>1. ASSUME NEW v \in Int PROVE Add(EmptyBucket, v) = StatsOf(<<v>>)
  <2> DEFINE delta == Minus(Whole(v), Whole(0))
             mean == Plus(Whole(0), Per(delta, 1))
             m2 == Plus(Whole(0), Times(delta, Minus(Whole(v), mean)))
  <2>1. Add(EmptyBucket, v) = [count |-> 1, mean |-> mean, m2 |-> m2]
    BY DEF Add, EmptyBucket
  <2>2. Whole(v) = Frac(v, 1) /\ Whole(0) = Frac(0, 1)
    BY WholeIsFrac
  <2>3. delta = Frac(v, 1)
    <3>1. Minus(Frac(v, 1), Frac(0, 1)) = Frac(v * 1 - 0 * 1, 1 * 1)
      BY PlusOfFracs
    <3> QED
      BY <2>2, <3>1
  <2> HIDE DEF delta
  <2>4. mean = Frac(v, 1)
    <3>1. Per(Frac(v, 1), 1) = Frac(v, 1 * 1)
      BY PerOfFrac
    <3>2. Plus(Frac(0, 1), Frac(v, 1)) = Frac(0 * 1 + v * 1, 1 * 1)
      BY PlusOfFracs
    <3> QED
      BY <2>2, <2>3, <3>1, <3>2
  <2> HIDE DEF mean
  <2>5. m2 = Frac(0, 1)
    <3>1. Minus(Frac(v, 1), Frac(v, 1)) = Frac(v * 1 - v * 1, 1 * 1)
      BY PlusOfFracs
    <3>2. Times(Frac(v, 1), Frac(0, 1)) = Frac(v * 0, 1 * 1)
      BY PlusOfFracs
    <3>3. Plus(Frac(0, 1), Frac(0, 1)) = Frac(0 * 1 + 0 * 1, 1 * 1)
      BY PlusOfFracs
    <3>4. v * 1 - v * 1 = 0 /\ v * 0 = 0
      OBVIOUS
    <3> QED
      BY <2>2, <2>3, <2>4, <3>1, <3>2, <3>3, <3>4
  <2> HIDE DEF m2
  <2>6. SumOf(<<v>>) = v /\ SquaresOf(<<v>>) = v * v /\ Len(<<v>>) = 1
    <3>1. << >> \in Seq(Int) /\ Append(<< >>, v) = <<v>> /\ Len(<<v>>) = 1
      OBVIOUS
    <3>2. SumOf(Append(<< >>, v)) = SumOf(<< >>) + v /\ SquaresOf(Append(<< >>, v)) = SquaresOf(<< >>) + v * v
      BY <3>1, SumsAppend
    <3> QED
      BY <3>1, <3>2, SumsAppend
  <2>7. 1 * (v * v) - v * v = 0
    OBVIOUS
  <2> QED
    BY <2>1, <2>4, <2>5, <2>6, <2>7 DEF StatsOf
<1>2. ASSUME NEW s \in Seq(Int) \ {<< >>}, NEW v \in Int
      PROVE  Add(StatsOf(s), v) = StatsOf(Append(s, v))
  <2>1. Len(s) \in Nat \ {0} /\ Len(Append(s, v)) = Len(s) + 1
    OBVIOUS
  <2>2. /\ SumOf(s) \in Int /\ SquaresOf(s) \in Int
        /\ SumOf(Append(s, v)) = SumOf(s) + v
        /\ SquaresOf(Append(s, v)) = SquaresOf(s) + v * v
    BY SumsAppend
  <2>3. PICK n \in Nat \ {0}, S \in Int, Q \in Int : n = Len(s) /\ S = SumOf(s) /\ Q = SquaresOf(s)
    BY <2>1, <2>2
  <2>4. StatsOf(s) = [count |-> n, mean |-> Frac(S, n), m2 |-> Frac(n * Q - S * S, n)]
    BY <2>3 DEF StatsOf
  <2>5. StatsOf(Append(s, v)) = [count |-> n + 1, mean |-> Frac(S + v, n + 1),
                                m2 |-> Frac((n + 1) * (Q + v * v) - (S + v) * (S + v), n + 1)]
    BY <2>1, <2>2, <2>3 DEF StatsOf
  <2>6. Add([count |-> n, mean |-> Frac(S, n), m2 |-> Frac(n * Q - S * S, n)], v)
           = [count |-> n + 1, mean |-> Frac(S + v, n + 1),
              m2 |-> Frac((n + 1) * (Q + v * v) - (S + v) * (S + v), n + 1)]
    BY AddOfFracs
  <2> QED
    BY <2>4, <2>5, <2>6
<1> QED
  BY <1>1, <1>2

----------------------------------------------------------------------------
(* Squared distances from a center *)

SpreadFcn(center) == [x \in Lowest \X Int |-> Plus(x[1], Square(Minus(Whole(x[2]), center)))]

LEMMA SpreadFcnType ==
    ASSUME NEW center \in Lowest
    PROVE  /\ IsStep(SpreadFcn(center), Lowest, Int)
           /\ \A sum \in Lowest, v \in Int :
                 SpreadFcn(center)[<<sum, v>>] = Plus(sum, Square(Minus(Whole(v), center)))
<1>1. ASSUME NEW sum \in Lowest, NEW v \in Int
      PROVE  Plus(sum, Square(Minus(Whole(v), center))) \in Lowest
  BY LowestType
<1> QED
  BY <1>1 DEF SpreadFcn, IsStep

LEMMA SpreadFolded ==
    ASSUME NEW center \in Lowest, NEW s \in Seq(Int)
    PROVE  Spread(s, center) = Folded(SpreadFcn(center), Whole(0), s)
<1> DEFINE F == SpreadFcn(center)
           n == Len(s)
           Farther(sum, v) == Plus(sum, Square(Minus(Whole(v), center)))
           IsIter(f) == f = [T \in SUBSET (DOMAIN s) |->
                               IF T = {} THEN Whole(0) ELSE Farther(f[T \ {Max(T)}], s[Max(T)])]
           g == CHOOSE f : IsIter(f)
<1>1. Spread(s, center) = g[DOMAIN s]
  BY DEF Spread, FoldLeft, MapThenFoldSet
<1>2. /\ IsStep(F, Lowest, Int) /\ Whole(0) \in Lowest
      /\ \A sum \in Lowest, v \in Int : F[<<sum, v>>] = Farther(sum, v)
  BY SpreadFcnType, LowestType
<1>3. n \in Nat /\ DOMAIN s = 1 .. n /\ \A i \in 1 .. n : s[i] \in Int
  OBVIOUS
<1> HIDE DEF F, Farther
<1>4. IsIter(g)
  <2>0. PICK V : V = Int
    OBVIOUS
  <2>1. PICK f \in [SUBSET (1 .. n) -> Lowest] : IsIteration(f, F, Whole(0), s)
    <3>1. IsStep(F, Lowest, V) /\ s \in Seq(V)
      BY <1>2, <2>0
    <3> QED
      BY <1>2, <3>1, IterExists
  <2>2. ASSUME NEW T \in SUBSET (1 .. n), T # {}
        PROVE  F[<<f[T \ {Max(T)}], s[Max(T)]>>] = Farther(f[T \ {Max(T)}], s[Max(T)])
    <3>1. s[Max(T)] \in Int /\ T \ {Max(T)} \in SUBSET (1 .. n)
      BY <1>3, <2>2, MaxOfIndices
    <3> QED
      BY <1>2, <2>1, <3>1
  <2>3. IsIter(f)
    BY <1>3, <2>1, <2>2 DEF IsIteration
  <2> HIDE DEF IsIter
  <2> QED
    BY <2>3
<1> HIDE DEF g
<1>5. IsTypedIteration(g, Lowest, F, Whole(0), s)
  <2>1. ASSUME NEW i \in 1 .. n
        PROVE  /\ g[1 .. i] = Farther(g[(1 .. i) \ {Max(1 .. i)}], s[Max(1 .. i)])
               /\ s[Max(1 .. i)] \in Int
    <3>1. (1 .. i) \in SUBSET (DOMAIN s) /\ i \in 1 .. i /\ Max(1 .. i) = i
      BY <1>3, MaxOfIndices
    <3> QED
      BY <1>3, <1>4, <3>1
  <2> QED
    BY <1>2, <1>4, <2>1 DEF IsTypedIteration
<1>6. PICK V : V = Int
  OBVIOUS
<1>7. IsStep(F, Lowest, V) /\ s \in Seq(V)
  BY <1>2, <1>6
<1>8. g[DOMAIN s] = Folded(F, Whole(0), s)
  BY <1>2, <1>5, <1>7, IterEnds
<1> QED
  BY <1>1, <1>8 DEF F

SpreadSum(n, S, Q, P, R) == (R * R) * Q - (2 * R * P) * S + n * (P * P)

\* The distances are known from the number, the sum and the squares of the values.
LEMMA SpreadOfFrac ==
    ASSUME NEW P \in Int, NEW R \in Nat \ {0}, NEW s \in Seq(Int)
    PROVE  Spread(s, Frac(P, R)) = Frac(SpreadSum(Len(s), SumOf(s), SquaresOf(s), P, R), R * R)
<1> DEFINE center == Frac(P, R)
           Sum(t) == SpreadSum(Len(t), SumOf(t), SquaresOf(t), P, R)
           A == {t \in Seq(Int) : Spread(t, center) = Frac(Sum(t), R * R)}
<1>0. R * R \in Nat \ {0}
  BY ProductPositive
<1>1. PICK k \in Nat \ {0} : k = R * R
  BY <1>0
<1>2. center \in Lowest
  BY DEF Lowest
<1>3. PICK V : V = Int
  OBVIOUS
<1>4. /\ IsStep(SpreadFcn(center), Lowest, V) /\ Whole(0) \in Lowest
      /\ \A sum \in Lowest, v \in Int :
            SpreadFcn(center)[<<sum, v>>] = Plus(sum, Square(Minus(Whole(v), center)))
  BY <1>2, <1>3, SpreadFcnType, LowestType
<1> HIDE DEF center
<1>5. << >> \in A
  <2>1. << >> \in Seq(Int) /\ Len(<< >>) = 0
    OBVIOUS
  <2>2. Folded(SpreadFcn(center), Whole(0), << >>) = Whole(0)
    BY <1>4, FoldedEmpty
  <2>3. Sum(<< >>) = 0
    BY <2>1, SumsAppend DEF SpreadSum
  <2>4. Frac(0, k) = Frac(0, 1)
    BY FracsEqual
  <2>5. Whole(0) = Frac(0, 1)
    BY WholeIsFrac
  <2>6. Spread(<< >>, center) = Whole(0)
    BY <1>2, <2>1, <2>2, SpreadFolded
  <2> QED
    BY <1>1, <2>1, <2>3, <2>4, <2>5, <2>6
<1>6. ASSUME NEW t \in Seq(Int), NEW v \in Int, t \in A PROVE Append(t, v) \in A
  <2>1. Append(t, v) \in Seq(Int) /\ Len(Append(t, v)) = Len(t) + 1 /\ Len(t) \in Int
    OBVIOUS
  <2>2. /\ SumOf(t) \in Int /\ SquaresOf(t) \in Int
        /\ SumOf(Append(t, v)) = SumOf(t) + v
        /\ SquaresOf(Append(t, v)) = SquaresOf(t) + v * v
    BY SumsAppend
  <2>3. PICK d \in Int : d = v * R - P * 1
    OBVIOUS
  <2>4. Sum(t) \in Int /\ Sum(t) + d * d = Sum(Append(t, v))
    <3>1. PICK n \in Int, S \in Int, Q \in Int : n = Len(t) /\ S = SumOf(t) /\ Q = SquaresOf(t)
      BY <2>1, <2>2
    <3>2. /\ SpreadSum(n, S, Q, P, R) \in Int
          /\ SpreadSum(n, S, Q, P, R) + (v * R - P * 1) * (v * R - P * 1)
                = SpreadSum(n + 1, S + v, Q + v * v, P, R)
      BY DEF SpreadSum
    <3> QED
      BY <2>1, <2>2, <2>3, <3>1, <3>2
  <2>5. PICK X \in Int : X = Sum(t)
    BY <2>4
  <2>6. /\ Folded(SpreadFcn(center), Whole(0), t) \in Lowest
        /\ Folded(SpreadFcn(center), Whole(0), Append(t, v))
              = SpreadFcn(center)[<<Folded(SpreadFcn(center), Whole(0), t), v>>]
    BY <1>3, <1>4, FoldedAppend
  <2>7. /\ Spread(t, center) = Folded(SpreadFcn(center), Whole(0), t)
        /\ Spread(Append(t, v), center) = Folded(SpreadFcn(center), Whole(0), Append(t, v))
    BY <1>2, <2>1, SpreadFolded
  <2>8. Spread(Append(t, v), center) = Plus(Spread(t, center), Square(Minus(Whole(v), center)))
    BY <1>4, <2>6, <2>7
  <2>9. Spread(t, center) = Frac(X, k)
    BY <1>1, <1>6, <2>5
  <2>10. Square(Minus(Whole(v), center)) = Frac(d * d, k)
    <3>1. Minus(Frac(v, 1), Frac(P, R)) = Frac(v * R - P * 1, 1 * R)
      BY PlusOfFracs
    <3>2. Times(Frac(d, R), Frac(d, R)) = Frac(d * d, R * R)
      BY PlusOfFracs
    <3>3. Whole(v) = Frac(v, 1) /\ 1 * R = R
      BY WholeIsFrac
    <3> QED
      BY <1>1, <2>3, <3>1, <3>2, <3>3 DEF Square, center
  <2>11. Plus(Frac(X, k), Frac(d * d, k)) = Frac(X + d * d, k)
    <3>1. PICK y \in Int : y = d * d
      OBVIOUS
    <3>2. Plus(Frac(X, k), Frac(y, k)) = Frac(X * k + y * k, k * k)
      BY PlusOfFracs
    <3>3. Frac(k * (X + y), k * k) = Frac(X + y, k)
      <4>1. PICK z \in Int : z = X + y
        OBVIOUS
      <4>2. Frac(k * z, k * k) = Frac(z, k)
        BY FracScales
      <4> QED
        BY <4>1, <4>2
    <3>4. X * k + y * k = k * (X + y)
      OBVIOUS
    <3> QED
      BY <3>1, <3>2, <3>3, <3>4
  <2>12. Spread(Append(t, v), center) = Frac(Sum(Append(t, v)), k)
    <3> HIDE DEF Sum
    <3> QED
      BY <2>4, <2>5, <2>8, <2>9, <2>10, <2>11
  <2> QED
    BY <1>1, <2>1, <2>12
<1> HIDE DEF A
<1>7. << >> \in A /\ \A t \in Seq(V), v \in V : t \in A => Append(t, v) \in A
  BY <1>3, <1>5, <1>6
<1>8. Seq(V) \subseteq A
  BY <1>7, InductiveSeq
<1>9. s \in A
  BY <1>3, <1>8
<1> QED
  BY <1>9 DEF A, center

LEMMA PoolingIdentities ==
    ASSUME NEW n \in Int, NEW S \in Int, NEW Q \in Int, NEW P \in Int, NEW R \in Int
    PROVE  /\ ((n * Q - S * S) * (n * (R * R)) + ((S * R - P * n) * (S * R - P * n)) * n) * (R * R)
                 = SpreadSum(n, S, Q, P, R) * (n * (n * (R * R)))
           /\ (n * ((S * R - P * n) * (S * R - P * n))) * (n * (R * R))
                 = ((S * R - P * n) * (S * R - P * n)) * ((n * R) * (n * R))
  BY DEF SpreadSum

\* A day's share in the pooled variance is the distance of its values.
LEMMA ShiftOfStats ==
    ASSUME NEW s \in Seq(Int) \ {<< >>}, NEW center \in Lowest
    PROVE  Plus(StatsOf(s).m2,
                Times(Whole(StatsOf(s).count), Square(Minus(StatsOf(s).mean, center))))
              = Spread(s, center)
<1>1. Len(s) \in Nat \ {0} /\ SumOf(s) \in Int /\ SquaresOf(s) \in Int
  BY SumsAppend
<1>2. PICK n \in Nat \ {0}, S \in Int, Q \in Int : n = Len(s) /\ S = SumOf(s) /\ Q = SquaresOf(s)
  BY <1>1
<1>3. PICK P \in Int, R \in Nat \ {0} : center = Frac(P, R)
  BY DEF Lowest
<1>4. PICK m \in Int, d \in Int, e \in Int, x \in Int :
         /\ m = n * Q - S * S /\ d = S * R - P * n /\ e = d * d /\ x = SpreadSum(n, S, Q, P, R)
  <2>1. n * Q - S * S \in Int /\ S * R - P * n \in Int /\ SpreadSum(n, S, Q, P, R) \in Int
    BY DEF SpreadSum
  <2>2. PICK d \in Int : d = S * R - P * n
    BY <2>1
  <2>3. d * d \in Int
    OBVIOUS
  <2> QED
    BY <2>1, <2>2, <2>3
<1>5. n * R \in Nat \ {0} /\ R * R \in Nat \ {0}
  BY ProductPositive
<1>6. PICK j \in Nat \ {0}, k \in Nat \ {0} : j = n * R /\ k = R * R
  BY <1>5
<1>7. j * j \in Nat \ {0} /\ n * k \in Nat \ {0}
  BY ProductPositive
<1>8. PICK i \in Nat \ {0}, l \in Nat \ {0} : i = j * j /\ l = n * k
  BY <1>7
<1>9. StatsOf(s).count = n /\ StatsOf(s).mean = Frac(S, n) /\ StatsOf(s).m2 = Frac(m, n)
  BY <1>2, <1>4 DEF StatsOf
<1>10. Square(Minus(Frac(S, n), Frac(P, R))) = Frac(e, i)
  <2>1. Minus(Frac(S, n), Frac(P, R)) = Frac(d, j)
    BY <1>4, <1>6, PlusOfFracs
  <2>2. Times(Frac(d, j), Frac(d, j)) = Frac(d * d, j * j)
    BY PlusOfFracs
  <2> QED
    BY <1>4, <1>8, <2>1, <2>2 DEF Square
<1>11. Times(Whole(n), Frac(e, i)) = Frac(e, l)
  <2>1. Times(Frac(n, 1), Frac(e, i)) = Frac(n * e, 1 * i)
    BY PlusOfFracs
  <2>2. (n * e) * l = e * i
    BY <1>4, <1>6, <1>8, PoolingIdentities
  <2>3. n * e \in Int /\ 1 * i = i
    OBVIOUS
  <2>4. Frac(n * e, i) = Frac(e, l)
    BY <2>2, <2>3, FracsEqual
  <2>5. Whole(n) = Frac(n, 1)
    BY WholeIsFrac
  <2> QED
    BY <2>1, <2>3, <2>4, <2>5
<1>12. Plus(Frac(m, n), Frac(e, l)) = Frac(x, k)
  <2>1. Plus(Frac(m, n), Frac(e, l)) = Frac(m * l + e * n, n * l)
    BY PlusOfFracs
  <2>2. (m * l + e * n) * k = x * (n * l)
    BY <1>4, <1>6, <1>8, PoolingIdentities
  <2>3. m * l + e * n \in Int /\ n * l \in Nat \ {0}
    BY ProductPositive
  <2> QED
    BY <2>1, <2>2, <2>3, FracsEqual
<1>13. Spread(s, center) = Frac(x, k)
  BY <1>2, <1>3, <1>4, <1>6, SpreadOfFrac
<1> QED
  BY <1>3, <1>9, <1>10, <1>11, <1>12, <1>13

\* Buckets that hold the statistics of the samples they were given.
Accounts(stats, given) ==
    /\ DOMAIN stats = DOMAIN given
    /\ \A b \in DOMAIN given : given[b] \in Seq(Int) \ {<< >>} /\ stats[b] = StatsOf(given[b])

LEMMA HistoryFacts ==
    ASSUME NEW stats, NEW b
    PROVE  /\ IsFiniteSet(History(stats, b)) /\ Cardinality(History(stats, b)) \in Nat
           /\ \A d \in History(stats, b) : b - d * BUCKETS_PER_DAY \in DOMAIN stats
<1>1. BASELINE_DAYS \in Nat
  BY DEF BASELINE_DAYS
<1>2. IsFiniteSet(1 .. BASELINE_DAYS)
  BY <1>1, FS_Interval
<1>3. History(stats, b) \subseteq 1 .. BASELINE_DAYS
  BY DEF History
<1> QED
  BY <1>2, <1>3, FS_Subset, FS_CardinalityType DEF History

----------------------------------------------------------------------------
(* The baseline *)

LEMMA StatsFields ==
    ASSUME NEW s \in Seq(Int) \ {<< >>}
    PROVE  /\ MeanOf(s) = StatsOf(s).mean /\ StatsOf(s).count = Len(s)
           /\ MeanOf(s) \in Lowest /\ Len(s) \in Nat \ {0}
<1>1. MeanOf(s) = Frac(SumOf(s), Len(s))
  BY DEF MeanOf, SumOf
<1>2. Len(s) \in Nat \ {0} /\ SumOf(s) \in Int
  BY SumsAppend
<1> QED
  BY <1>1, <1>2 DEF StatsOf, Lowest

\* The baseline that the samples define, and a deviation that is not negative.
IsBaselineOf(base, given, b) ==
    LET days   == History(given, b)
        Of(d)  == given[b - d * BUCKETS_PER_DAY]
        mean   == Per(Total([d \in days |-> MeanOf(Of(d))]), Cardinality(days))
        spread == Total([d \in days |-> Spread(Of(d), mean)])
        number == SumFunction([d \in days |-> Len(Of(d))])
    IN  /\ base.deviation \in NonNegative
        /\ Cardinality(days) >= 2 =>
              base.mean = mean /\ base.variance = Per(spread, number - 1)

\* The buckets give that baseline.
LEMMA BaselineOfStats ==
    ASSUME NEW stats, NEW given, Accounts(stats, given), NEW b, NEW value \in Int
    PROVE  IsBaselineOf(Baseline(stats, b, value), given, b)
<1> DEFINE days == History(given, b)
           Of(d) == given[b - d * BUCKETS_PER_DAY]
           Had(d) == stats[b - d * BUCKETS_PER_DAY]
           mean == Per(Total([d \in days |-> MeanOf(Of(d))]), Cardinality(days))
           spread == Total([d \in days |-> Spread(Of(d), mean)])
           number == SumFunction([d \in days |-> Len(Of(d))])
           base == Baseline(stats, b, value)
           Shift(d) == Times(Whole(Had(d).count), Square(Minus(Had(d).mean, mean)))
           m2 == Total([d \in days |-> Plus(Had(d).m2, Shift(d))])
           count == SumFunction([d \in days |-> Had(d).count])
           variance == IF count > 1 THEN Per(m2, count - 1) ELSE Whole(1)
           distance == Square(Minus(Whole(value), mean))
<1>1. History(stats, b) = days
  BY DEF History, Accounts
<1>2. IsFiniteSet(days) /\ Cardinality(days) \in Nat
  BY HistoryFacts
<1>3. ASSUME NEW d \in days PROVE Of(d) \in Seq(Int) \ {<< >>} /\ Had(d) = StatsOf(Of(d))
  <2>1. b - d * BUCKETS_PER_DAY \in DOMAIN given
    BY HistoryFacts
  <2> QED
    BY <2>1 DEF Accounts
<1>s. ASSUME NEW d \in days
      PROVE  /\ Had(d).mean = MeanOf(Of(d)) /\ Had(d).count = Len(Of(d))
             /\ MeanOf(Of(d)) \in Lowest /\ Len(Of(d)) \in Nat \ {0}
  <2>1. PICK s \in Seq(Int) \ {<< >>} : s = Of(d)
    BY <1>3
  <2> QED
    BY <1>3, <2>1, StatsFields
<1>4. [d \in days |-> Had(d).mean] = [d \in days |-> MeanOf(Of(d))]
  BY <1>s
<1>5. [d \in days |-> Had(d).count] = [d \in days |-> Len(Of(d))]
  BY <1>s
<1>6. base = IF Cardinality(days) < 2
             THEN [mean |-> Whole(value), variance |-> Whole(1), deviation |-> Whole(0)]
             ELSE [mean |-> mean, variance |-> variance,
                   deviation |-> IF Exceeds(variance, Whole(0)) THEN Quotient(distance, variance)
                                 ELSE Whole(0)]
  BY <1>1, <1>4 DEF Baseline
<1>7. Whole(0) \in NonNegative
  BY ExceedsFacts
<1>8. CASE Cardinality(days) < 2
  BY <1>2, <1>6, <1>7, <1>8 DEF IsBaselineOf
<1>9. CASE Cardinality(days) >= 2
  <2>1. Cardinality(days) \in Nat \ {0}
    BY <1>2, <1>9
  <2>2. mean \in Lowest
    <3>2. PICK f \in [days -> Lowest] : f = [d \in days |-> MeanOf(Of(d))]
      BY <1>s
    <3>3. Total(f) \in Lowest
      BY <1>2, TotalType
    <3>4. Per(Total(f), Cardinality(days)) \in Lowest
      BY <2>1, <3>3, LowestType
    <3> QED
      BY <3>2, <3>4
  <2> HIDE DEF mean
  <2>3. ASSUME NEW d \in days
        PROVE  Plus(Had(d).m2, Shift(d)) = Spread(Of(d), mean) /\ Spread(Of(d), mean) \in Lowest
    <3>1. PICK s \in Seq(Int) \ {<< >>} : s = Of(d)
      BY <1>3
    <3>2. PICK P \in Int, R \in Nat \ {0} : mean = Frac(P, R)
      BY <2>2 DEF Lowest
    <3>3. Spread(s, mean) \in Lowest
      <4>1. Spread(s, Frac(P, R)) = Frac(SpreadSum(Len(s), SumOf(s), SquaresOf(s), P, R), R * R)
        BY SpreadOfFrac
      <4>2. Len(s) \in Int /\ SumOf(s) \in Int /\ SquaresOf(s) \in Int
        BY SumsAppend
      <4>3. SpreadSum(Len(s), SumOf(s), SquaresOf(s), P, R) \in Int /\ R * R \in Nat \ {0}
        BY <4>2, ProductPositive DEF SpreadSum
      <4> QED
        BY <3>2, <4>1, <4>3 DEF Lowest
    <3>4. Plus(StatsOf(s).m2, Times(Whole(StatsOf(s).count), Square(Minus(StatsOf(s).mean, mean))))
             = Spread(s, mean)
      BY <2>2, ShiftOfStats
    <3> QED
      BY <1>3, <3>1, <3>3, <3>4
  <2>4. m2 = spread /\ spread \in Lowest
    <3>1. [d \in days |-> Plus(Had(d).m2, Shift(d))] = [d \in days |-> Spread(Of(d), mean)]
      BY <2>3
    <3>2. PICK f \in [days -> Lowest] : f = [d \in days |-> Spread(Of(d), mean)]
      BY <2>3
    <3>3. Total(f) \in Lowest
      BY <1>2, TotalType
    <3> QED
      BY <3>1, <3>2, <3>3
  <2>5. count = number /\ number \in Nat /\ number > 1
    <3>2. PICK f \in [days -> Nat \ {0}] : f = [d \in days |-> Len(Of(d))]
      BY <1>s
    <3>3. SumFunction(f) \in Nat /\ SumFunction(f) > 1
      BY <1>2, <1>9, SumType
    <3> QED
      BY <1>5, <3>2, <3>3
  <2> HIDE DEF m2, spread, count, number
  <2>6. variance = Per(spread, number - 1) /\ variance \in Lowest
    <3>1. number - 1 \in Nat \ {0}
      BY <2>5
    <3>2. Per(spread, number - 1) \in Lowest
      BY <2>4, <3>1, LowestType
    <3> QED
      BY <2>4, <2>5, <3>2
  <2> HIDE DEF variance
  <2>7. distance \in NonNegative
    <3>1. Whole(value) \in Lowest
      BY LowestType
    <3>2. Minus(Whole(value), mean) \in Lowest
      BY <2>2, <3>1, LowestType
    <3> QED
      BY <3>2, LowestType
  <2>8. Exceeds(variance, Whole(0)) => Quotient(distance, variance) \in NonNegative
    <3> HIDE DEF distance
    <3> QED
      BY <2>6, <2>7, LowestType, QuotientType
  <2>9. base = [mean |-> mean, variance |-> variance,
                deviation |-> IF Exceeds(variance, Whole(0)) THEN Quotient(distance, variance)
                              ELSE Whole(0)]
    BY <1>2, <1>6, <1>9
  <2> HIDE DEF base, distance
  <2>10. base.deviation \in NonNegative /\ base.mean = mean /\ base.variance = Per(spread, number - 1)
    BY <1>7, <2>6, <2>8, <2>9
  <2> QED
    BY <2>10 DEF mean, spread, number, base, IsBaselineOf
<1> QED
  BY <1>2, <1>8, <1>9

----------------------------------------------------------------------------
(* AnomalyStream *)

\* The stored alert of a node did arrive, and its stored anomaly was persistent.
Remembered ==
    \A n \in Machines :
        /\ lastAlert[n] # NoEvent => lastAlert[n] \in alertsSeen /\ lastAlert[n].node = n
        /\ lastAnomaly[n] # NoEvent =>
              /\ lastAnomaly[n].event \in MetricEvents
              /\ lastAnomaly[n].event.node = n
              /\ counts[Key(lastAnomaly[n].event)] >= DEJITTER_CONSECUTIVE_WINDOWS

IsSequence(s) == s \in Seq(Range(s))

WindowsOfMetrics ==
    /\ \A w \in DOMAIN windows : IsSequence(windows[w])
    /\ \A m \in Members : m.event \in MetricEvents

StreamInv ==
    /\ StreamTypeOK /\ Remembered /\ WindowsOfMetrics
    /\ PendingIdsExpire /\ OnlyPersistentAggregated /\ ValidatedByNearAlert

----------------------------------------------------------------------------
(* Times and windows *)

LEMMA StartsAreNat ==
    ASSUME NEW t \in Nat
    PROVE  WindowStart(t) \in Nat /\ BucketKey(t) \in Nat
  BY DEF WindowStart, BucketKey, AGGREGATION_WINDOW_SECONDS, BUCKET_SIZE_SECONDS

LEMMA LaterIsNat ==
    ASSUME NEW s \in Nat, NEW t \in Nat
    PROVE  Max({s, t}) \in Nat
  BY DEF Max

LEMMA AppendedRange ==
    ASSUME NEW s, IsSequence(s), NEW m
    PROVE  /\ IsSequence(Append(s, m))
           /\ Range(Append(s, m)) = Range(s) \cup {m}
           /\ Append(s, m) # << >>
<1>1. s \in Seq(Range(s) \cup {m})
  BY DEF IsSequence
<1>2. /\ Append(s, m) \in Seq(Range(s) \cup {m})
      /\ Len(Append(s, m)) = Len(s) + 1
      /\ \A i \in 1 .. Len(s) : Append(s, m)[i] = s[i]
      /\ Append(s, m)[Len(s) + 1] = m
  BY <1>1
<1>3. DOMAIN s = 1 .. Len(s) /\ DOMAIN Append(s, m) = 1 .. Len(s) + 1 /\ Len(s) \in Nat
  BY <1>1, <1>2
<1>4. Range(Append(s, m)) = Range(s) \cup {m}
  BY <1>2, <1>3 DEF Range
<1> QED
  BY <1>2, <1>3, <1>4 DEF IsSequence

\* What a window and all of them hold after an element was sent.
LEMMA Emitted ==
    ASSUME WindowsOfMetrics, DOMAIN windows \subseteq Windows,
           \A w \in DOMAIN windows : windows[w] # << >>,
           NEW m, m.event \in MetricEvents, NEW x \in MetricEvents \cup AlertEvents,
           Emit(m, x.timestamp)
    PROVE  /\ Members \subseteq Members' /\ Members' \subseteq Members \cup {m}
           /\ WindowsOfMetrics'
           /\ DOMAIN windows' \subseteq Windows
           /\ \A w \in DOMAIN windows' : windows'[w] # << >>
<1> DEFINE w == <<m.event.node, WindowStart(x.timestamp)>>
           given == IF w \in DOMAIN windows THEN windows[w] ELSE << >>
<1>1. CASE windows' = windows
  BY <1>1 DEF WindowsOfMetrics, Members
<1>2. CASE windows' = Put(windows, w, Append(given, m))
  <2>1. w \in Windows
    <3>1. m.event.node \in Machines
      BY DEF Machines
    <3>2. w = <<m.event.node, BucketKey(x.timestamp) * AGGREGATION_WINDOW_SECONDS>>
      BY DEF WindowStart
    <3> QED
      BY <3>1, <3>2 DEF Windows
  <2>2. IsSequence(given)
    BY DEF WindowsOfMetrics, IsSequence, Range
  <2>3. /\ IsSequence(Append(given, m))
        /\ Range(Append(given, m)) = Range(given) \cup {m}
        /\ Append(given, m) # << >>
    BY <2>2, AppendedRange
  <2>4. /\ DOMAIN windows' = DOMAIN windows \cup {w}
        /\ windows'[w] = Append(given, m)
        /\ \A v \in DOMAIN windows \ {w} : windows'[v] = windows[v]
    BY <1>2 DEF Put
  <2>5. Range(given) \subseteq Members
    BY DEF Members, Range
  <2>6. Members' \subseteq Members \cup {m}
    BY <2>3, <2>4, <2>5 DEF Members
  <2>7. Members \subseteq Members'
    BY <2>3, <2>4 DEF Members
  <2>8. WindowsOfMetrics'
    BY <2>3, <2>4, <2>6 DEF WindowsOfMetrics
  <2> QED
    BY <2>1, <2>3, <2>4, <2>6, <2>7, <2>8
<1> QED
  BY <1>1, <1>2 DEF Emit

----------------------------------------------------------------------------
(* Cross-validation *)

LEMMA AddNewKeeps ==
    ASSUME NEW S, NEW list \in Seq(S), NEW item \in S
    PROVE  AddNew(list, item) \in Seq(S)
  BY DEF AddNew

\* What CrossValidate sends is marked only beside the stored alert.
LEMMA MarkedBesideAlert ==
    ASSUME StreamTypeOK, Remembered, NEW anomaly, anomaly.event \in MetricEvents,
           RecentAlert(anomaly)
    PROVE  LET n == anomaly.event.node
           IN  /\ lastAlert[n] \in alertsSeen /\ lastAlert[n] \in AlertEvents
               /\ lastAlert[n].node = n
               /\ Near(lastAlert[n].timestamp, anomaly.event.timestamp)
<1>1. anomaly.event.node \in Machines
  BY DEF Machines
<1> QED
  BY <1>1 DEF RecentAlert, Remembered, StreamTypeOK, Near

LEMMA CrossValidateInv ==
    ASSUME StreamInv, NEW e \in MetricEvents, NEW anomaly, anomaly.event = e,
           CrossValidate(anomaly),
           counts'[Key(e)] >= DEJITTER_CONSECUTIVE_WINDOWS, counts' \in [Keys -> Nat],
           \A k \in Keys : counts'[k] >= counts[k],
           UNCHANGED <<lastAlert, alertsSeen, now>>
    PROVE  /\ Remembered' /\ WindowsOfMetrics'
           /\ PendingIdsExpire' /\ OnlyPersistentAggregated' /\ ValidatedByNearAlert'
           /\ DOMAIN lastAnomaly' = Machines
           /\ pendingIds' \in [Machines -> Seq(AlertIds)] /\ timers' \in [Machines -> SUBSET Nat]
           /\ DOMAIN windows' \subseteq Windows /\ \A w \in DOMAIN windows' : windows'[w] # << >>
<1> DEFINE n == e.node
           recent == RecentAlert(anomaly)
           ids == IF recent THEN Append(pendingIds[n], lastAlert[n].id) ELSE pendingIds[n]
           m == [event |-> anomaly.event, deviation |-> anomaly.deviation,
                 confirmed |-> IF recent THEN ids ELSE << >>, attached |-> ids]
<1>1. n \in Machines /\ Key(e) \in Keys
  BY DEF Machines, Keys
<1>2. /\ lastAnomaly' = [lastAnomaly EXCEPT ![n] = anomaly]
      /\ timers' = [timers EXCEPT ![n] = timers[n] \cup {now + CROSS_WINDOW}]
      /\ pendingIds' = [pendingIds EXCEPT ![n] = ids]
      /\ Emit(m, e.timestamp)
  BY DEF CrossValidate, AnomalyTimers
<1>3. ids \in Seq(AlertIds)
  <2>1. pendingIds[n] \in Seq(AlertIds)
    BY <1>1 DEF StreamInv, StreamTypeOK
  <2>2. CASE recent
    <3>1. lastAlert[n].id \in AlertIds
      BY <2>2, MarkedBesideAlert DEF StreamInv, AlertIds
    <3> QED
      BY <2>1, <2>2, <3>1
  <2> QED
    BY <2>1, <2>2
<1>4. pendingIds' \in [Machines -> Seq(AlertIds)]
  BY <1>2, <1>3 DEF StreamInv, StreamTypeOK
<1>5. timers' \in [Machines -> SUBSET Nat]
  <2>1. now + CROSS_WINDOW \in Nat /\ timers \in [Machines -> SUBSET Nat]
    BY DEF StreamInv, StreamTypeOK, CROSS_WINDOW
  <2> QED
    BY <1>2, <2>1
<1>6. DOMAIN lastAnomaly' = Machines
  BY <1>2 DEF StreamInv, StreamTypeOK
<1>7. PendingIdsExpire'
  BY <1>1, <1>2 DEF StreamInv, StreamTypeOK, PendingIdsExpire
<1>8. Remembered'
  <2> SUFFICES ASSUME NEW k \in Machines
               PROVE  /\ lastAlert[k] # NoEvent => lastAlert[k] \in alertsSeen /\ lastAlert[k].node = k
                      /\ lastAnomaly'[k] # NoEvent =>
                            /\ lastAnomaly'[k].event \in MetricEvents
                            /\ lastAnomaly'[k].event.node = k
                            /\ counts'[Key(lastAnomaly'[k].event)] >= DEJITTER_CONSECUTIVE_WINDOWS
      BY DEF Remembered
  <2>1. CASE k = n
    BY <1>1, <1>2, <2>1 DEF StreamInv, StreamTypeOK, Remembered
  <2>2. CASE k # n
    <3>1. lastAnomaly'[k] = lastAnomaly[k]
      BY <1>2, <2>2 DEF StreamInv, StreamTypeOK
    <3>2. \A f \in MetricEvents : Key(f) \in Keys
      BY DEF Keys
    <3> QED
      BY <3>1, <3>2 DEF StreamInv, StreamTypeOK, Remembered, DEJITTER_CONSECUTIVE_WINDOWS
  <2> QED
    BY <2>1, <2>2
<1>9. /\ Members' \subseteq Members \cup {m} /\ WindowsOfMetrics'
      /\ DOMAIN windows' \subseteq Windows /\ \A w \in DOMAIN windows' : windows'[w] # << >>
  <2> HIDE DEF m
  <2>1. m.event = e
    BY DEF m
  <2> QED
    BY <1>2, <2>1, Emitted DEF StreamInv, StreamTypeOK
<1>10. OnlyPersistentAggregated'
  <2>1. ASSUME NEW x \in Members' PROVE counts'[Key(x.event)] >= DEJITTER_CONSECUTIVE_WINDOWS
    <3>1. CASE x = m
      BY <3>1
    <3>2. CASE x \in Members
      <4>1. Key(x.event) \in Keys
        BY <3>2 DEF StreamInv, WindowsOfMetrics, Keys
      <4>2. counts[Key(x.event)] \in Nat /\ counts'[Key(x.event)] \in Nat
        BY <4>1 DEF StreamInv, StreamTypeOK
      <4> QED
        BY <3>2, <4>1, <4>2 DEF StreamInv, OnlyPersistentAggregated, DEJITTER_CONSECUTIVE_WINDOWS
    <3> QED
      BY <1>9, <2>1, <3>1, <3>2
  <2> QED
    BY <2>1 DEF OnlyPersistentAggregated
<1>11. ValidatedByNearAlert'
  <2>1. ASSUME m.confirmed # << >>
        PROVE  \E a \in alertsSeen : /\ a.node = m.event.node /\ Near(a.timestamp, m.event.timestamp)
                                     /\ Contains(m.confirmed, a.id)
    <3>1. recent /\ m.confirmed = Append(pendingIds[n], lastAlert[n].id)
      BY <2>1
    <3>2. /\ lastAlert[n] \in alertsSeen /\ lastAlert[n].node = n
          /\ lastAlert[n].id \in AlertIds
          /\ Near(lastAlert[n].timestamp, e.timestamp)
      BY <3>1, MarkedBesideAlert DEF StreamInv, AlertIds
    <3>3. pendingIds[n] \in Seq(AlertIds)
      BY <1>1 DEF StreamInv, StreamTypeOK
    <3>4. Contains(m.confirmed, lastAlert[n].id)
      BY <3>1, <3>2, <3>3 DEF Contains
    <3> QED
      BY <3>2, <3>4
  <2> QED
    BY <1>9, <2>1 DEF StreamInv, ValidatedByNearAlert
<1> QED
  BY <1>4, <1>5, <1>6, <1>7, <1>8, <1>9, <1>10, <1>11

----------------------------------------------------------------------------
(* Alerts *)

LEMMA StoreAlertInv ==
    ASSUME StreamInv, NEW a \in AlertEvents, StoreAlert(a)
    PROVE  /\ Remembered' /\ PendingIdsExpire'
           /\ lastAlert' \in [Machines -> AlertEvents \cup {NoEvent}]
           /\ alertsSeen' \subseteq AlertEvents /\ alertsSeen \subseteq alertsSeen' /\ a \in alertsSeen'
           /\ pendingIds' \in [Machines -> Seq(AlertIds)] /\ timers' \in [Machines -> SUBSET Nat]
           /\ maxSeen' \in Nat
<1>1. a.node \in Machines /\ a.id \in AlertIds /\ a.timestamp \in Nat
  BY StreamAssumption DEF Machines, AlertIds
<1>2. /\ lastAlert' = [lastAlert EXCEPT ![a.node] = a]
      /\ alertsSeen' = alertsSeen \cup {a}
      /\ pendingIds' = [pendingIds EXCEPT ![a.node] = AddNew(pendingIds[a.node], a.id)]
      /\ timers' = [timers EXCEPT ![a.node] = timers[a.node] \cup {now + CROSS_WINDOW}]
      /\ maxSeen' = Max({maxSeen, a.timestamp})
      /\ UNCHANGED <<lastAnomaly, counts>>
  BY DEF StoreAlert
<1>3. AddNew(pendingIds[a.node], a.id) \in Seq(AlertIds)
  <2>1. pendingIds[a.node] \in Seq(AlertIds)
    BY <1>1 DEF StreamInv, StreamTypeOK
  <2> QED
    BY <1>1, <2>1, AddNewKeeps
<1>4. pendingIds' \in [Machines -> Seq(AlertIds)]
  BY <1>2, <1>3 DEF StreamInv, StreamTypeOK
<1>5. timers' \in [Machines -> SUBSET Nat]
  <2>1. now + CROSS_WINDOW \in Nat /\ timers \in [Machines -> SUBSET Nat]
    BY DEF StreamInv, StreamTypeOK, CROSS_WINDOW
  <2> QED
    BY <1>2, <2>1
<1>6. lastAlert' \in [Machines -> AlertEvents \cup {NoEvent}]
  BY <1>2 DEF StreamInv, StreamTypeOK
<1>7. alertsSeen' \subseteq AlertEvents /\ alertsSeen \subseteq alertsSeen' /\ a \in alertsSeen'
  BY <1>2 DEF StreamInv, StreamTypeOK
<1>8. PendingIdsExpire'
  BY <1>1, <1>2 DEF StreamInv, StreamTypeOK, PendingIdsExpire
<1>9. Remembered'
  BY <1>1, <1>2 DEF StreamInv, StreamTypeOK, Remembered
<1>10. maxSeen' \in Nat
  BY <1>1, <1>2, LaterIsNat DEF StreamInv, StreamTypeOK
<1> QED
  BY <1>4, <1>5, <1>6, <1>7, <1>8, <1>9, <1>10

\* More alerts and the same counters keep what is known of the windows' elements.
LEMMA MembersStay ==
    ASSUME StreamInv, Members' \subseteq Members, alertsSeen \subseteq alertsSeen', UNCHANGED counts
    PROVE  OnlyPersistentAggregated' /\ ValidatedByNearAlert'
  BY DEF StreamInv, OnlyPersistentAggregated, ValidatedByNearAlert

LEMMA AlertInv ==
    ASSUME StreamInv, NEW a \in AlertEvents, AlertConfirms(a) \/ AlertWaits(a)
    PROVE  StreamInv'
<1>0. StoreAlert(a) /\ UNCHANGED <<buckets, samples, counts, lastAnomaly, now, watermark>>
  BY DEF AlertConfirms, AlertWaits, StoreAlert
<1>1. /\ Remembered' /\ PendingIdsExpire'
      /\ lastAlert' \in [Machines -> AlertEvents \cup {NoEvent}]
      /\ alertsSeen' \subseteq AlertEvents /\ alertsSeen \subseteq alertsSeen' /\ a \in alertsSeen'
      /\ pendingIds' \in [Machines -> Seq(AlertIds)] /\ timers' \in [Machines -> SUBSET Nat]
      /\ maxSeen' \in Nat
  BY <1>0, StoreAlertInv
<1>2. CASE AlertWaits(a)
  <2>1. UNCHANGED windows
    BY <1>2 DEF AlertWaits
  <2>2. Members' = Members
    BY <2>1 DEF Members
  <2>3. OnlyPersistentAggregated' /\ ValidatedByNearAlert'
    BY <1>0, <1>1, <2>2, MembersStay
  <2>4. WindowsOfMetrics'
    BY <2>1, <2>2 DEF StreamInv, WindowsOfMetrics
  <2>5. StreamTypeOK'
    BY <1>0, <1>1, <2>1 DEF StreamInv, StreamTypeOK
  <2> QED
    BY <1>1, <2>3, <2>4, <2>5 DEF StreamInv
<1>3. CASE AlertConfirms(a)
  <2> DEFINE old == lastAnomaly[a.node]
             m == [event |-> old.event, deviation |-> old.deviation,
                   confirmed |-> <<a.id>>, attached |-> << >>]
  <2>1. /\ old.event \in MetricEvents /\ old.event.node = a.node
        /\ counts[Key(old.event)] >= DEJITTER_CONSECUTIVE_WINDOWS
        /\ Near(a.timestamp, old.event.timestamp)
    <3>1. a.node \in Machines
      BY DEF Machines
    <3> QED
      BY <1>3, <3>1 DEF StreamInv, Remembered, AlertConfirms, Confirms
  <2>2. /\ m.event = old.event /\ m.confirmed = <<a.id>>
        /\ Emit(m, a.timestamp)
    BY <1>3 DEF AlertConfirms
  <2>3. /\ Members' \subseteq Members \cup {m} /\ WindowsOfMetrics'
        /\ DOMAIN windows' \subseteq Windows /\ \A w \in DOMAIN windows' : windows'[w] # << >>
    <3> HIDE DEF m
    <3> QED
      BY <2>1, <2>2, Emitted DEF StreamInv, StreamTypeOK
  <2>4. OnlyPersistentAggregated'
    BY <1>0, <2>1, <2>2, <2>3 DEF StreamInv, OnlyPersistentAggregated
  <2>5. Contains(m.confirmed, a.id)
    BY <2>2 DEF Contains
  <2>6. ValidatedByNearAlert'
    <3> HIDE DEF m
    <3>1. \E b \in alertsSeen' : /\ b.node = m.event.node /\ Near(b.timestamp, m.event.timestamp)
                                 /\ Contains(m.confirmed, b.id)
      BY <1>1, <2>1, <2>2, <2>5
    <3> QED
      BY <1>1, <2>3, <3>1 DEF StreamInv, ValidatedByNearAlert
  <2>7. StreamTypeOK'
    BY <1>0, <1>1, <2>3 DEF StreamInv, StreamTypeOK
  <2> QED
    BY <1>1, <2>3, <2>4, <2>6, <2>7 DEF StreamInv
<1> QED
  BY <1>2, <1>3

----------------------------------------------------------------------------
(* Metrics *)

LEMMA Observed ==
    ASSUME StreamTypeOK, NEW e \in MetricEvents, Observe(e)
    PROVE  /\ DOMAIN buckets' = Keys /\ DOMAIN samples' = Keys
           /\ \A k \in Keys : DOMAIN buckets'[k] = DOMAIN samples'[k]
           /\ maxSeen' \in Nat
<1> DEFINE b == BucketKey(e.timestamp)
           newBucket == Add(BucketOf(e), e.value)
           newSamples == Append(SamplesOf(e), e.value)
<1>1. /\ buckets' = [buckets EXCEPT ![Key(e)] = Put(buckets[Key(e)], b, newBucket)]
      /\ samples' = [samples EXCEPT ![Key(e)] = Put(samples[Key(e)], b, newSamples)]
      /\ maxSeen' = Max({maxSeen, e.timestamp})
  BY DEF Observe
<1> HIDE DEF newBucket, newSamples
<1>2. DOMAIN buckets' = Keys /\ DOMAIN samples' = Keys
  BY <1>1 DEF StreamTypeOK
<1>3. \A k \in Keys : DOMAIN buckets'[k] = DOMAIN samples'[k]
  BY <1>1 DEF StreamTypeOK, Put
<1>4. maxSeen' \in Nat
  BY <1>1, LaterIsNat, StreamAssumption DEF StreamTypeOK
<1> QED
  BY <1>2, <1>3, <1>4

LEMMA CountedMore ==
    ASSUME StreamTypeOK, NEW e \in MetricEvents, counts' = Counted(e)
    PROVE  counts' \in [Keys -> Nat] /\ \A k \in Keys : counts'[k] >= counts[k]
<1>1. counts \in [Keys -> Nat] /\ Key(e) \in Keys
  BY DEF StreamTypeOK, Keys
<1>2. counts[Key(e)] + 1 \in Nat
  BY <1>1
<1>3. counts' \in [Keys -> Nat]
  BY <1>1, <1>2 DEF Counted
<1>4. ASSUME NEW k \in Keys PROVE counts'[k] >= counts[k]
  BY <1>1 DEF Counted
<1> QED
  BY <1>3, <1>4

\* What a metric that is not sent on leaves in order.
LEMMA StayingMetricInv ==
    ASSUME StreamInv, NEW e \in MetricEvents, Observe(e),
           counts' \in [Keys -> Nat], \A k \in Keys : counts'[k] >= counts[k],
           UNCHANGED <<lastAnomaly, pendingIds, timers, windows>>
    PROVE  StreamInv'
<1>0. UNCHANGED <<lastAlert, alertsSeen, now, watermark>>
  BY DEF Observe
<1>1. StreamTypeOK'
  <2>1. /\ DOMAIN buckets' = Keys /\ DOMAIN samples' = Keys
        /\ \A k \in Keys : DOMAIN buckets'[k] = DOMAIN samples'[k]
        /\ maxSeen' \in Nat
    BY Observed DEF StreamInv
  <2> QED
    BY <1>0, <2>1 DEF StreamInv, StreamTypeOK
<1>2. \A f \in MetricEvents : Key(f) \in Keys
  BY DEF Keys
<1>3. ASSUME NEW f \in MetricEvents, counts[Key(f)] >= DEJITTER_CONSECUTIVE_WINDOWS
      PROVE  counts'[Key(f)] >= DEJITTER_CONSECUTIVE_WINDOWS
  <2>1. counts[Key(f)] \in Nat /\ counts'[Key(f)] \in Nat /\ counts'[Key(f)] >= counts[Key(f)]
    BY <1>2 DEF StreamInv, StreamTypeOK
  <2> QED
    BY <1>3, <2>1 DEF DEJITTER_CONSECUTIVE_WINDOWS
<1>4. Remembered'
  BY <1>0, <1>3 DEF StreamInv, Remembered
<1>5. Members' = Members
  BY DEF Members
<1>6. WindowsOfMetrics' /\ PendingIdsExpire'
  BY <1>5 DEF StreamInv, WindowsOfMetrics, PendingIdsExpire
<1>7. OnlyPersistentAggregated'
  BY <1>3, <1>5 DEF StreamInv, WindowsOfMetrics, OnlyPersistentAggregated
<1>8. ValidatedByNearAlert'
  BY <1>0, <1>5 DEF StreamInv, ValidatedByNearAlert
<1> QED
  BY <1>1, <1>4, <1>6, <1>7, <1>8 DEF StreamInv

LEMMA MetricInv ==
    ASSUME StreamInv, NEW e \in MetricEvents,
           NormalMetric(e) \/ UnconfirmedAnomaly(e) \/ ConfirmedAnomaly(e)
    PROVE  StreamInv'
<1>0. StreamTypeOK /\ Observe(e)
  BY DEF StreamInv, NormalMetric, UnconfirmedAnomaly, ConfirmedAnomaly
<1>1. CASE NormalMetric(e)
  <2>1. UNCHANGED <<counts, lastAnomaly, pendingIds, timers, windows>>
    BY <1>1 DEF NormalMetric
  <2>2. counts' \in [Keys -> Nat] /\ \A k \in Keys : counts'[k] >= counts[k]
    BY <1>0, <2>1 DEF StreamTypeOK
  <2> QED
    BY <1>0, <2>1, <2>2, StayingMetricInv
<1>2. CASE UnconfirmedAnomaly(e)
  <2>1. counts' = Counted(e) /\ UNCHANGED <<lastAnomaly, pendingIds, timers, windows>>
    BY <1>2 DEF UnconfirmedAnomaly
  <2> QED
    BY <1>0, <2>1, CountedMore, StayingMetricInv
<1>3. CASE ConfirmedAnomaly(e)
  <2> DEFINE anomaly == [event |-> e, deviation |-> BaselineFor(e).deviation]
  <2>1. counts' = Counted(e) /\ Persistent(counts'[Key(e)]) /\ CrossValidate(anomaly)
    BY <1>3 DEF ConfirmedAnomaly
  <2>2. anomaly.event = e
    OBVIOUS
  <2> HIDE DEF anomaly
  <2>3. counts' \in [Keys -> Nat] /\ \A k \in Keys : counts'[k] >= counts[k]
    BY <1>0, <2>1, CountedMore
  <2>4. counts'[Key(e)] >= DEJITTER_CONSECUTIVE_WINDOWS
    BY <2>1 DEF Persistent
  <2>5. UNCHANGED <<lastAlert, alertsSeen, now, watermark>>
    BY <1>0 DEF Observe
  <2>6. /\ Remembered' /\ WindowsOfMetrics'
        /\ PendingIdsExpire' /\ OnlyPersistentAggregated' /\ ValidatedByNearAlert'
        /\ DOMAIN lastAnomaly' = Machines
        /\ pendingIds' \in [Machines -> Seq(AlertIds)] /\ timers' \in [Machines -> SUBSET Nat]
        /\ DOMAIN windows' \subseteq Windows /\ \A w \in DOMAIN windows' : windows'[w] # << >>
    BY <2>1, <2>2, <2>3, <2>4, <2>5, CrossValidateInv
  <2>7. /\ DOMAIN buckets' = Keys /\ DOMAIN samples' = Keys
        /\ \A k \in Keys : DOMAIN buckets'[k] = DOMAIN samples'[k]
        /\ maxSeen' \in Nat
    BY <1>0, Observed
  <2>8. StreamTypeOK'
    BY <1>0, <2>3, <2>5, <2>6, <2>7 DEF StreamTypeOK
  <2> QED
    BY <2>6, <2>8 DEF StreamInv
<1> QED
  BY <1>1, <1>2, <1>3

----------------------------------------------------------------------------
(* Timers, clock and windows *)

LEMMA TimerInv ==
    ASSUME StreamInv, NEW n \in Machines, NEW t \in timers[n], TimerFires(n, t)
    PROVE  StreamInv'
<1>1. /\ timers' = [timers EXCEPT ![n] = timers[n] \ {t}]
      /\ pendingIds' = [pendingIds EXCEPT ![n] = << >>]
      /\ UNCHANGED <<buckets, samples, counts, alertsSeen, now, maxSeen, watermark, windows>>
  BY DEF TimerFires
<1>2. /\ DOMAIN lastAnomaly' = Machines
      /\ \A k \in Machines : lastAnomaly'[k] \in {lastAnomaly[k], NoEvent}
  BY DEF TimerFires, StreamInv, StreamTypeOK
<1>3. /\ lastAlert' \in [Machines -> AlertEvents \cup {NoEvent}]
      /\ \A k \in Machines : lastAlert'[k] \in {lastAlert[k], NoEvent}
  BY DEF TimerFires, StreamInv, StreamTypeOK
<1>4. pendingIds' \in [Machines -> Seq(AlertIds)]
  BY <1>1 DEF StreamInv, StreamTypeOK
<1>5. timers' \in [Machines -> SUBSET Nat]
  BY <1>1 DEF StreamInv, StreamTypeOK
<1>6. StreamTypeOK'
  BY <1>1, <1>2, <1>3, <1>4, <1>5 DEF StreamInv, StreamTypeOK
<1>7. Remembered'
  BY <1>1, <1>2, <1>3 DEF StreamInv, Remembered
<1>8. PendingIdsExpire'
  BY <1>1 DEF StreamInv, StreamTypeOK, PendingIdsExpire
<1>9. Members' = Members
  BY <1>1 DEF Members
<1>10. WindowsOfMetrics'
  BY <1>1, <1>9 DEF StreamInv, WindowsOfMetrics
<1>11. OnlyPersistentAggregated' /\ ValidatedByNearAlert'
  BY <1>1, <1>9, MembersStay
<1> QED
  BY <1>6, <1>7, <1>8, <1>10, <1>11 DEF StreamInv

LEMMA FiringInv ==
    ASSUME StreamInv, NEW w \in DOMAIN windows, WindowFires(w)
    PROVE  StreamInv'
<1>1. /\ windows' = Restrict(windows, DOMAIN windows \ {w})
      /\ UNCHANGED <<buckets, samples, counts, lastAnomaly, lastAlert, alertsSeen, pendingIds,
                     timers, now, maxSeen, watermark>>
  BY DEF WindowFires
<1>2. /\ DOMAIN windows' \subseteq DOMAIN windows
      /\ \A v \in DOMAIN windows' : windows'[v] = windows[v]
  BY <1>1 DEF Restrict
<1>3. Members' \subseteq Members
  BY <1>2 DEF Members
<1>4. StreamTypeOK' /\ Remembered' /\ PendingIdsExpire'
  BY <1>1, <1>2 DEF StreamInv, StreamTypeOK, Remembered, PendingIdsExpire
<1>5. WindowsOfMetrics'
  BY <1>2, <1>3 DEF StreamInv, WindowsOfMetrics
<1>6. OnlyPersistentAggregated' /\ ValidatedByNearAlert'
  BY <1>1, <1>3, MembersStay
<1> QED
  BY <1>4, <1>5, <1>6 DEF StreamInv

\* Steps that move the two clocks or take an incident from the outbox.
LEMMA TimeInv ==
    ASSUME StreamInv, now' \in Nat, watermark' \in Nat,
           UNCHANGED <<buckets, samples, counts, lastAnomaly, lastAlert, alertsSeen, pendingIds,
                       timers, maxSeen, windows>>
    PROVE  StreamInv'
<1>1. Members' = Members
  BY DEF Members
<1>2. StreamTypeOK' /\ Remembered' /\ PendingIdsExpire'
  BY DEF StreamInv, StreamTypeOK, Remembered, PendingIdsExpire
<1>3. WindowsOfMetrics' /\ OnlyPersistentAggregated' /\ ValidatedByNearAlert'
  BY <1>1 DEF StreamInv, WindowsOfMetrics, OnlyPersistentAggregated, ValidatedByNearAlert
<1> QED
  BY <1>2, <1>3 DEF StreamInv

LEMMA StreamInitInv == StreamInit => StreamInv
<1> SUFFICES ASSUME StreamInit PROVE StreamInv
    OBVIOUS
<1>1. Members = {}
  BY DEF StreamInit, Members
<1>2. StreamTypeOK
  BY DEF StreamInit, StreamTypeOK
<1>3. Remembered /\ PendingIdsExpire
  BY DEF StreamInit, Remembered, PendingIdsExpire
<1>4. WindowsOfMetrics /\ OnlyPersistentAggregated /\ ValidatedByNearAlert
  BY <1>1 DEF StreamInit, WindowsOfMetrics, OnlyPersistentAggregated, ValidatedByNearAlert
<1> QED
  BY <1>2, <1>3, <1>4 DEF StreamInv

LEMMA StreamStepInv == StreamInv /\ [StreamNext]_streamVars => StreamInv'
<1> SUFFICES ASSUME StreamInv, [StreamNext]_streamVars PROVE StreamInv'
    OBVIOUS
<1>0. now \in Nat /\ watermark \in Nat
  BY DEF StreamInv, StreamTypeOK
<1>1. ASSUME NEW e \in MetricEvents, NormalMetric(e) \/ UnconfirmedAnomaly(e) \/ ConfirmedAnomaly(e)
      PROVE  StreamInv'
  BY <1>1, MetricInv
<1>2. ASSUME NEW a \in AlertEvents, AlertConfirms(a) \/ AlertWaits(a) PROVE StreamInv'
  BY <1>2, AlertInv
<1>3. ASSUME NEW n \in Machines, NEW t \in timers[n], TimerFires(n, t) PROVE StreamInv'
  BY <1>3, TimerInv
<1>4. CASE ClockAdvances
  <2>1. now' \in Nat
    BY <1>4, StreamAssumption DEF ClockAdvances
  <2> QED
    BY <1>0, <1>4, <2>1, TimeInv DEF ClockAdvances
<1>5. CASE WatermarkAdvances
  <2>1. \A w \in Windows : w[2] + AGGREGATION_WINDOW_SECONDS \in Nat
    <3>1. \A x \in MetricEvents \cup AlertEvents :
             BucketKey(x.timestamp) * AGGREGATION_WINDOW_SECONDS \in Nat
      BY StreamAssumption, StartsAreNat DEF WindowStart
    <3> QED
      BY <3>1 DEF Windows, AGGREGATION_WINDOW_SECONDS
  <2>2. watermark' \in Nat
    BY <1>5, <2>1 DEF WatermarkAdvances
  <2> QED
    BY <1>0, <1>5, <2>2, TimeInv DEF WatermarkAdvances
<1>6. ASSUME NEW w \in DOMAIN windows, WindowFires(w) PROVE StreamInv'
  BY <1>6, FiringInv
<1>7. CASE UNCHANGED streamVars
  BY <1>0, <1>7, TimeInv DEF streamVars
<1> QED
  BY <1>1, <1>2, <1>3, <1>4, <1>5, <1>6, <1>7 DEF StreamNext

LEMMA StreamInvHolds == StreamSpec => []StreamInv
<1> QED
  BY StreamInitInv, StreamStepInv, PTL DEF StreamSpec

----------------------------------------------------------------------------
(* What the keyed states hold *)

StoredAnomalies == [event : MetricEvents, deviation : NonNegative]

\* What the keyed states hold: the statistics of the values that were observed,
\* anomalies with the deviations of the baseline, windows of such elements.
Accounted ==
    /\ \A k \in Keys : Accounts(buckets[k], samples[k])
    /\ \A n \in Machines : lastAnomaly[n] # NoEvent => lastAnomaly[n] \in StoredAnomalies
    /\ \A w \in DOMAIN windows : windows[w] \in Seq(Elements)

LEMMA PutAccounts ==
    ASSUME NEW stats, NEW given, Accounts(stats, given), NEW b, NEW v \in Int
    PROVE  LET had  == IF b \in DOMAIN stats THEN stats[b] ELSE EmptyBucket
               seen == IF b \in DOMAIN given THEN given[b] ELSE << >>
           IN  Accounts(Put(stats, b, Add(had, v)), Put(given, b, Append(seen, v)))
<1> DEFINE had == IF b \in DOMAIN stats THEN stats[b] ELSE EmptyBucket
           seen == IF b \in DOMAIN given THEN given[b] ELSE << >>
<1>1. Append(seen, v) \in Seq(Int) \ {<< >>} /\ Add(had, v) = StatsOf(Append(seen, v))
  <2>1. CASE b \in DOMAIN given
    <3>1. PICK s \in Seq(Int) \ {<< >>} : s = given[b] /\ stats[b] = StatsOf(s)
      BY <2>1 DEF Accounts
    <3>2. Append(s, v) \in Seq(Int) \ {<< >>} /\ Add(StatsOf(s), v) = StatsOf(Append(s, v))
      BY WelfordIsExact
    <3> QED
      BY <2>1, <3>1, <3>2 DEF Accounts
  <2>2. CASE b \notin DOMAIN given
    <3>1. Append(<< >>, v) = <<v>> /\ <<v>> \in Seq(Int) \ {<< >>} /\ Add(EmptyBucket, v) = StatsOf(<<v>>)
      BY WelfordIsExact
    <3> QED
      BY <2>2, <3>1 DEF Accounts
  <2> QED
    BY <2>1, <2>2
<1> HIDE DEF had, seen
<1>2. Accounts(Put(stats, b, Add(had, v)), Put(given, b, Append(seen, v)))
  BY <1>1 DEF Accounts, Put
<1> QED
  BY <1>2 DEF had, seen

LEMMA ObservedAccounts ==
    ASSUME StreamTypeOK, Accounted, NEW e \in MetricEvents, Observe(e)
    PROVE  \A k \in Keys : Accounts(buckets'[k], samples'[k])
<1> DEFINE b == BucketKey(e.timestamp)
           own == Key(e)
<1>1. e.value \in Int /\ own \in Keys /\ DOMAIN buckets = Keys /\ DOMAIN samples = Keys
  BY StreamAssumption DEF Keys, StreamTypeOK
<1>2. /\ buckets' = [buckets EXCEPT ![own] = Put(buckets[own], b, Add(BucketOf(e), e.value))]
      /\ samples' = [samples EXCEPT ![own] = Put(samples[own], b, Append(SamplesOf(e), e.value))]
  BY DEF Observe
<1>3. /\ BucketOf(e) = IF b \in DOMAIN buckets[own] THEN buckets[own][b] ELSE EmptyBucket
      /\ SamplesOf(e) = IF b \in DOMAIN samples[own] THEN samples[own][b] ELSE << >>
  BY DEF BucketOf, SamplesOf
<1>4. Accounts(buckets[own], samples[own])
  BY <1>1 DEF Accounted
<1> HIDE DEF own, b
<1>5. Accounts(Put(buckets[own], b, Add(BucketOf(e), e.value)),
               Put(samples[own], b, Append(SamplesOf(e), e.value)))
  BY <1>1, <1>3, <1>4, PutAccounts
<1> QED
  BY <1>1, <1>2, <1>5 DEF Accounted

LEMMA EmittedElements ==
    ASSUME Accounted, NEW m \in Elements, NEW t, Emit(m, t)
    PROVE  \A w \in DOMAIN windows' : windows'[w] \in Seq(Elements)
<1> DEFINE w == <<m.event.node, WindowStart(t)>>
           given == IF w \in DOMAIN windows THEN windows[w] ELSE << >>
<1>1. given \in Seq(Elements)
  BY DEF Accounted
<1>2. windows' = windows \/ windows' = Put(windows, w, Append(given, m))
  BY DEF Emit
<1> HIDE DEF w, given
<1> QED
  BY <1>1, <1>2 DEF Accounted, Put

\* The deviation an anomaly carries is the baseline's.
LEMMA DeviationType ==
    ASSUME Accounted, NEW e \in MetricEvents
    PROVE  BaselineFor(e).deviation \in NonNegative
<1>1. e.value \in Int /\ Key(e) \in Keys
  BY StreamAssumption DEF Keys
<1>2. Accounts(buckets[Key(e)], samples[Key(e)])
  BY <1>1 DEF Accounted
<1> QED
  BY <1>1, <1>2, BaselineOfStats DEF BaselineFor, IsBaselineOf

LEMMA ConfirmedAccounts ==
    ASSUME StreamTypeOK, Accounted, NEW e \in MetricEvents, ConfirmedAnomaly(e)
    PROVE  Accounted'
<1> DEFINE anomaly == [event |-> e, deviation |-> BaselineFor(e).deviation]
           n == e.node
           recent == RecentAlert(anomaly)
           ids == IF recent THEN Append(pendingIds[n], lastAlert[n].id) ELSE pendingIds[n]
           m == [event |-> e, deviation |-> BaselineFor(e).deviation,
                 confirmed |-> IF recent THEN ids ELSE << >>, attached |-> ids]
<1>1. Observe(e) /\ lastAnomaly' = [lastAnomaly EXCEPT ![n] = anomaly] /\ Emit(m, e.timestamp)
  BY DEF ConfirmedAnomaly, CrossValidate
<1>2. BaselineFor(e).deviation \in NonNegative
  BY DeviationType
<1>3. n \in Machines
  BY DEF Machines
<1>4. recent => lastAlert[n] \in AlertEvents
  BY <1>3 DEF RecentAlert, StreamTypeOK
<1>5. ids \in Seq(AlertIds)
  <2>1. pendingIds[n] \in Seq(AlertIds)
    BY <1>3 DEF StreamTypeOK
  <2>2. recent => lastAlert[n].id \in AlertIds
    BY <1>4 DEF AlertIds
  <2> HIDE DEF recent
  <2> QED
    BY <2>1, <2>2
<1> HIDE DEF recent, ids
<1>6. m \in Elements /\ anomaly \in StoredAnomalies
  BY <1>2, <1>5 DEF Elements, StoredAnomalies
<1> HIDE DEF m, anomaly
<1>7. \A w \in DOMAIN windows' : windows'[w] \in Seq(Elements)
  BY <1>1, <1>6, EmittedElements
<1>8. \A k \in Keys : Accounts(buckets'[k], samples'[k])
  BY <1>1, ObservedAccounts
<1>9. \A l \in Machines : lastAnomaly'[l] # NoEvent => lastAnomaly'[l] \in StoredAnomalies
  BY <1>1, <1>3, <1>6 DEF Accounted, StreamTypeOK
<1> QED
  BY <1>7, <1>8, <1>9 DEF Accounted

LEMMA AccountedStep ==
    ASSUME StreamTypeOK, Accounted,
           StreamNext \/ UNCHANGED <<buckets, samples, lastAnomaly, windows>>
    PROVE  Accounted'
<1>1. ASSUME NEW e \in MetricEvents, NormalMetric(e) \/ UnconfirmedAnomaly(e) PROVE Accounted'
  <2>1. Observe(e) /\ UNCHANGED <<lastAnomaly, windows>>
    BY <1>1 DEF NormalMetric, UnconfirmedAnomaly
  <2>2. \A k \in Keys : Accounts(buckets'[k], samples'[k])
    BY <2>1, ObservedAccounts
  <2> QED
    BY <2>1, <2>2 DEF Accounted
<1>2. ASSUME NEW e \in MetricEvents, ConfirmedAnomaly(e) PROVE Accounted'
  BY <1>2, ConfirmedAccounts
<1>3. ASSUME NEW a \in AlertEvents, AlertConfirms(a) PROVE Accounted'
  <2> DEFINE m == [event |-> lastAnomaly[a.node].event, deviation |-> lastAnomaly[a.node].deviation,
                   confirmed |-> <<a.id>>, attached |-> << >>]
  <2>1. Emit(m, a.timestamp) /\ UNCHANGED <<buckets, samples, lastAnomaly>>
    BY <1>3 DEF AlertConfirms, StoreAlert
  <2>2. lastAnomaly[a.node] \in StoredAnomalies
    BY <1>3 DEF AlertConfirms, Confirms, Machines, Accounted
  <2>3. a.id \in AlertIds
    BY DEF AlertIds
  <2>4. m \in Elements
    BY <2>2, <2>3 DEF StoredAnomalies, Elements
  <2> HIDE DEF m
  <2>5. \A w \in DOMAIN windows' : windows'[w] \in Seq(Elements)
    BY <2>1, <2>4, EmittedElements
  <2> QED
    BY <2>1, <2>5 DEF Accounted
<1>4. ASSUME NEW a \in AlertEvents, AlertWaits(a) PROVE Accounted'
  BY <1>4 DEF AlertWaits, StoreAlert, Accounted
<1>5. ASSUME NEW n \in Machines, NEW t \in timers[n], TimerFires(n, t) PROVE Accounted'
  <2>1. UNCHANGED <<buckets, samples, windows>>
    BY <1>5 DEF TimerFires
  <2>2. \A l \in Machines : lastAnomaly'[l] = lastAnomaly[l] \/ lastAnomaly'[l] = NoEvent
    BY <1>5 DEF TimerFires, StreamTypeOK
  <2> QED
    BY <2>1, <2>2 DEF Accounted
<1>6. CASE ClockAdvances \/ WatermarkAdvances \/ UNCHANGED <<buckets, samples, lastAnomaly, windows>>
  BY <1>6 DEF ClockAdvances, WatermarkAdvances, Accounted
<1>7. ASSUME NEW w \in DOMAIN windows, WindowFires(w) PROVE Accounted'
  <2>1. UNCHANGED <<buckets, samples, lastAnomaly>> /\ windows' = Restrict(windows, DOMAIN windows \ {w})
    BY <1>7 DEF WindowFires
  <2> QED
    BY <2>1 DEF Restrict, Accounted
<1> QED
  BY <1>1, <1>2, <1>3, <1>4, <1>5, <1>6, <1>7 DEF StreamNext

LEMMA AccountedInit == StreamInit => Accounted
<1>1. Accounts(<< >>, << >>)
  BY DEF Accounts
<1> QED
  BY <1>1 DEF StreamInit, Accounted, Keys, Machines

LEMMA WindowsFromElements == Accounted => WindowsAddUp
<1> SUFFICES ASSUME Accounted, NEW w \in DOMAIN windows
             PROVE  LET members == windows[w]
                        acc     == Aggregated(members)
                    IN  /\ \A i \in 0 .. Len(members) :
                              Merge(Aggregated(SubSeq(members, 1, i)),
                                    Aggregated(SubSeq(members, i + 1, Len(members)))) = acc
                        /\ \A m \in Range(members) :
                              Range(m.attached) \subseteq
                                 {id[1] : id \in {x \in Range(acc.externalAlertIds) : Len(x) = 1}}
  BY DEF WindowsAddUp
<1>1. PICK s \in Seq(Elements) : s = windows[w]
  BY DEF Accounted
<1>2. \A i \in 0 .. Len(s) :
         Merge(Aggregated(SubSeq(s, 1, i)), Aggregated(SubSeq(s, i + 1, Len(s)))) = Aggregated(s)
  BY PartsMerge
<1> DEFINE named == Aggregated(s).externalAlertIds
<1>3. ASSUME NEW m \in Range(s), NEW id \in Range(m.attached)
      PROVE  \E x \in Range(named) : Len(x) = 1 /\ x[1] = id
  <2>1. PICK j \in 1 .. Len(s) : s[j] = m
    BY DEF Range
  <2>2. m.attached \in Seq(AlertIds)
    <3>1. m \in Elements
      BY <2>1
    <3> QED
      BY <3>1 DEF Elements
  <2>3. PICK k \in 1 .. Len(m.attached) : m.attached[k] = id
    BY <2>2 DEF Range
  <2>4. Contains(named, <<id>>)
    BY <2>1, <2>3, AttachedAreNamed
  <2>5. named \in Seq(Seq(AlertIds))
    BY AggregatedType DEF Accumulators
  <2>6. <<id>> \in Range(named)
    <3> HIDE DEF named
    <3>1. PICK i \in 1 .. Len(named) : named[i] = <<id>>
      BY <2>4 DEF Contains
    <3>2. DOMAIN named = 1 .. Len(named)
      BY <2>5
    <3> QED
      BY <3>1, <3>2 DEF Range
  <2> QED
    BY <2>6
<1> HIDE DEF named
<1>4. \A m \in Range(s) : Range(m.attached) \subseteq {id[1] : id \in {x \in Range(named) : Len(x) = 1}}
  BY <1>3
<1> QED
  BY <1>1, <1>2, <1>4 DEF named

LEMMA BaselineFromStats == Accounted => BaselineIsHistory
<1> SUFFICES ASSUME Accounted, NEW k \in Keys, NEW e \in MetricEvents
             PROVE  LET b      == BucketKey(e.timestamp)
                        days   == History(samples[k], b)
                        Of(d)  == samples[k][b - d * BUCKETS_PER_DAY]
                        mean   == Per(Total([d \in days |-> MeanOf(Of(d))]), Cardinality(days))
                        spread == Total([d \in days |-> Spread(Of(d), mean)])
                        number == SumFunction([d \in days |-> Len(Of(d))])
                        base   == Baseline(buckets[k], b, e.value)
                    IN  Cardinality(days) >= 2 =>
                            base.mean = mean /\ base.variance = Per(spread, number - 1)
  BY DEF BaselineIsHistory
<1>1. Accounts(buckets[k], samples[k]) /\ e.value \in Int
  BY StreamAssumption DEF Accounted
<1>2. IsBaselineOf(Baseline(buckets[k], BucketKey(e.timestamp), e.value), samples[k],
                   BucketKey(e.timestamp))
  BY <1>1, BaselineOfStats
<1> QED
  BY <1>2 DEF IsBaselineOf

LEMMA AccountedHolds == StreamSpec => []Accounted
<1>1. StreamInv => StreamTypeOK
  BY DEF StreamInv
<1>2. StreamTypeOK /\ Accounted /\ [StreamNext]_streamVars => Accounted'
  BY AccountedStep DEF streamVars
<1> QED
  BY <1>1, <1>2, StreamInvHolds, AccountedInit, PTL DEF StreamSpec

----------------------------------------------------------------------------
(* Theorems *)

\* The operators' states keep their types; every bucket has its samples.
THEOREM StreamTypeCorrect == StreamSpec => []StreamTypeOK
<1>1. StreamInv => StreamTypeOK
  BY DEF StreamInv
<1> QED
  BY <1>1, StreamInvHolds, PTL

\* An anomaly in a window that is marked as cross-validated has an alert of its
\* node within a minute, and names it.
THEOREM ValidationIsReal == StreamSpec => []ValidatedByNearAlert
<1>1. StreamInv => ValidatedByNearAlert
  BY DEF StreamInv
<1> QED
  BY <1>1, StreamInvHolds, PTL

\* Alert ids never wait without a timer that clears them.
THEOREM IdsExpire == StreamSpec => []PendingIdsExpire
<1>1. StreamInv => PendingIdsExpire
  BY DEF StreamInv
<1> QED
  BY <1>1, StreamInvHolds, PTL

\* No anomaly is aggregated before its key had three, not by way of an alert either.
THEOREM JitterStaysOut == StreamSpec => []OnlyPersistentAggregated
<1>1. StreamInv => OnlyPersistentAggregated
  BY DEF StreamInv
<1> QED
  BY <1>1, StreamInvHolds, PTL

\* The baseline an event is compared with is the one its key's earlier values
\* define: the mean of the days' means, and the variance of all values around it,
\* though the buckets only ever hold running statistics.
THEOREM BaselineMatchesHistory == StreamSpec => []BaselineIsHistory
<1>1. Accounted => BaselineIsHistory
  BY BaselineFromStats
<1> QED
  BY <1>1, AccountedHolds, PTL

\* A window's accumulator is the same however its elements were split between
\* partial ones, and names every alert they carry.
THEOREM SplitWindowsMerge == StreamSpec => []WindowsAddUp
<1>1. Accounted => WindowsAddUp
  BY WindowsFromElements
<1> QED
  BY <1>1, AccountedHolds, PTL
====

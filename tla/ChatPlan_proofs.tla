---------------------------- MODULE ChatPlan_proofs ----------------------------
(***************************************************************************)
(* Proofs about ModelRouting, TokenAccounting and Admission: what they     *)
(* compute for every route, every text and every request, not only for     *)
(* those MCChatPlan enumerates.  The loops of the code are folds, so each  *)
(* section first shows that its fold exists and what one more element does *)
(* to it.  At the end the theorems give the invariants of MCChatPlan.      *)
(***************************************************************************)
EXTENDS MCChatPlan, FoldLemmas

-----------------------------------------------------------------------------
(* The running weight                                                      *)

\* Targets whose weights are numbers, zero included.
Targets(M) == [model : M, weight : Nat]

Weights(t) == FoldLeft(LAMBDA sum, x : sum + x.weight, 0, t)

IsWeights(g, t) ==
  g = [s \in SUBSET DOMAIN t |-> IF s = {} THEN 0 ELSE g[Rest(s)] + t[Max(s)].weight]

\* Weights is the value of a recursive function.
LEMMA WeightsIsFold ==
  ASSUME NEW t
  PROVE  Weights(t) = (CHOOSE g : IsWeights(g, t))[DOMAIN t]
BY DEF Weights, FoldLeft, MapThenFoldSet, IsWeights, Rest

WeightF(M) == [x \in Nat \X Targets(M) |-> x[1] + x[2].weight]

\* It is a fold.
LEMMA WeightsFold ==
  ASSUME NEW M, NEW t \in Seq(Targets(M))
  PROVE  Weights(t) = Fold(WeightF(M), 0, t)
<1> DEFINE F == WeightF(M)
           C == Targets(M)
<1>1. /\ F \in [Nat \X C -> Nat] /\ 0 \in Nat
      /\ \A a \in Nat, c \in C : F[<<a, c>>] = a + c.weight
  BY DEF WeightF, Targets
<1> HIDE DEF F, C
<1>2. \E g : IsWeights(g, t)
  <2>1. PICK g : Computes(g, Nat, C, F, 0, t)
    BY <1>1, FoldSteps DEF C
  <2>2. \A s \in SUBSET DOMAIN t :
          g[s] = IF s = {} THEN 0 ELSE g[Rest(s)] + t[Max(s)].weight
    BY <1>1, <2>1 DEF Computes
  <2>3. IsWeights(g, t)
    BY <2>1, <2>2 DEF IsWeights, Computes
  <2> QED
    BY <2>3
<1> DEFINE h == CHOOSE g : IsWeights(g, t)
<1>3. IsWeights(h, t)
  BY <1>2
<1> HIDE DEF h
<1>4. ASSUME NEW s \in SUBSET DOMAIN t, s # {}, h[Rest(s)] \in Nat, t[Max(s)] \in C
      PROVE  h[s] = F[<<h[Rest(s)], t[Max(s)]>>]
  <2>1. h[s] = h[Rest(s)] + t[Max(s)].weight
    BY <1>3, <1>4 DEF IsWeights
  <2> QED
    BY <1>1, <1>4, <2>1
<1>5. h[{}] = 0
  BY <1>3 DEF IsWeights
<1>6. t \in Seq(C)
  BY DEF C
<1>7. Follows(h, Nat, C, F, 0, t)
  BY <1>1, <1>4, <1>5, <1>6 DEF Follows
<1>8. h[DOMAIN t] = Fold(F, 0, t)
  BY <1>7, SameAsFold
<1> QED
  BY <1>8, WeightsIsFold DEF h, F

\* A prefix one element longer.
LEMMA LongerPrefix ==
  ASSUME NEW S, NEW t \in Seq(S), NEW n \in Nat, n + 1 <= Len(t)
  PROVE  /\ SubSeq(t, 1, n) \in Seq(S) /\ t[n + 1] \in S
         /\ SubSeq(t, 1, n + 1) = Append(SubSeq(t, 1, n), t[n + 1])
<1>1. Len(t) \in Nat /\ n + 1 \in 1 .. Len(t) /\ n \in 0 .. Len(t) /\ \A i \in 1 .. Len(t) : t[i] \in S
  BY LenProperties
<1>2. t[n + 1] \in S
  BY <1>1
<1> DEFINE u == SubSeq(t, 1, n)
           k == n + 1
<1>3. u \in Seq(S)
  BY <1>1, SubSeqProperties
<1>4. SubSeq(t, 1, k) = SubSeq(t, 1, k - 1) \o <<t[k]>>
  <2> HIDE DEF u
  <2>1. k \in 1 .. Len(t)
    BY <1>1
  <2> HIDE DEF k
  <2> QED
    BY <2>1, SubSeqRecursiveSecond
<1>5. k - 1 = n
  OBVIOUS
<1> HIDE DEF u
<1>6. u \o <<t[n + 1]>> = Append(u, t[n + 1])
  BY <1>2, <1>3, AppendIsConcat
<1> QED
  BY <1>2, <1>3, <1>4, <1>5, <1>6 DEF u

\* The running weight grows by the weight of the next target.
LEMMA RunningSteps ==
  ASSUME NEW M, NEW t \in Seq(Targets(M))
  PROVE  /\ RunningWeight(t, 0) = 0
         /\ \A n \in 0 .. Len(t) : RunningWeight(t, n) \in Nat
         /\ \A n \in 1 .. Len(t) :
              /\ t[n].weight \in Nat
              /\ RunningWeight(t, n) = RunningWeight(t, n - 1) + t[n].weight
<1> DEFINE F == WeightF(M)
           C == Targets(M)
<1>1. /\ F \in [Nat \X C -> Nat] /\ 0 \in Nat
      /\ \A a \in Nat, c \in C : c.weight \in Nat /\ F[<<a, c>>] = a + c.weight
  BY DEF WeightF, Targets
<1>2. \A n : RunningWeight(t, n) = Weights(SubSeq(t, 1, n))
  BY DEF RunningWeight, Weights
<1>3. ASSUME NEW u \in Seq(C)
      PROVE  Weights(u) = Fold(F, 0, u) /\ Weights(u) \in Nat
  <2>1. Weights(u) = Fold(F, 0, u)
    BY <1>3, WeightsFold
  <2> HIDE DEF F, C
  <2>2. Fold(F, 0, u) \in Nat
    BY <1>1, <1>3, FoldType
  <2> QED
    BY <2>1, <2>2
<1>4. t \in Seq(C) /\ Len(t) \in Nat /\ \A i \in 1 .. Len(t) : t[i] \in C
  BY LenProperties
<1> HIDE DEF F, C
<1>5. ASSUME NEW n \in 0 .. Len(t)
      PROVE  SubSeq(t, 1, n) \in Seq(C) /\ RunningWeight(t, n) \in Nat
  <2>1. SubSeq(t, 1, n) \in Seq(C)
    BY <1>4, SubSeqProperties
  <2> QED
    BY <1>2, <1>3, <2>1
<1>6. RunningWeight(t, 0) = 0
  <2>1. SubSeq(t, 1, 0) = << >> /\ << >> \in Seq(C)
    BY SubSeqEmpty, EmptySeq
  <2>2. Fold(F, 0, << >>) = 0
    BY FoldOfEmpty
  <2> QED
    BY <1>2, <1>3, <2>1, <2>2
<1>7. ASSUME NEW n \in 1 .. Len(t)
      PROVE  t[n].weight \in Nat /\ RunningWeight(t, n) = RunningWeight(t, n - 1) + t[n].weight
  <2> DEFINE m == n - 1
             u == SubSeq(t, 1, m)
  <2>1. m \in Nat /\ m + 1 <= Len(t) /\ m + 1 = n /\ m \in 0 .. Len(t)
    BY <1>4
  <2>2. u \in Seq(C) /\ t[n] \in C /\ SubSeq(t, 1, n) = Append(u, t[n])
    <3> HIDE DEF m
    <3> QED
      BY <1>4, <2>1, LongerPrefix
  <2> HIDE DEF u, m
  <2>3. Append(u, t[n]) \in Seq(C)
    BY <2>2, AppendProperties
  <2>4. Fold(F, 0, Append(u, t[n])) = F[<<Fold(F, 0, u), t[n]>>]
    BY <2>2, FoldOfAppend
  <2>5. Weights(Append(u, t[n])) = Weights(u) + t[n].weight
    BY <1>1, <1>3, <2>2, <2>3, <2>4
  <2> QED
    BY <1>1, <1>2, <2>2, <2>5 DEF u, m
<1> QED
  BY <1>5, <1>6, <1>7

\* It never falls.
LEMMA RunningGrows ==
  ASSUME NEW M, NEW t \in Seq(Targets(M)), NEW i \in 0 .. Len(t), NEW j \in i .. Len(t)
  PROVE  RunningWeight(t, i) <= RunningWeight(t, j)
<1> DEFINE P == {d \in Nat : i + d <= Len(t) => RunningWeight(t, i) <= RunningWeight(t, i + d)}
<1>1. Len(t) \in Nat /\ i \in Nat
  BY LenProperties
<1>2. 0 \in P
  <2>1. i + 0 = i /\ RunningWeight(t, i) \in Nat
    BY <1>1, RunningSteps
  <2> QED
    BY <2>1
<1>3. ASSUME NEW d \in Nat, d \in P
      PROVE  d + 1 \in P
  <2> SUFFICES ASSUME i + (d + 1) <= Len(t)
               PROVE  RunningWeight(t, i) <= RunningWeight(t, i + (d + 1))
    OBVIOUS
  <2> DEFINE n == i + (d + 1)
  <2>1. n \in 1 .. Len(t) /\ n - 1 = i + d /\ i + d \in 0 .. Len(t) /\ i + d <= Len(t)
    BY <1>1
  <2>2. RunningWeight(t, i) <= RunningWeight(t, i + d)
    BY <1>3, <2>1
  <2> HIDE DEF n
  <2>3. t[n].weight \in Nat /\ RunningWeight(t, n) = RunningWeight(t, n - 1) + t[n].weight
    BY <2>1, RunningSteps
  <2>4. RunningWeight(t, i) \in Nat /\ RunningWeight(t, i + d) \in Nat
    BY <1>1, <2>1, RunningSteps
  <2>5. RunningWeight(t, i) <= RunningWeight(t, n)
    BY <2>1, <2>2, <2>3, <2>4
  <2> QED
    BY <2>5 DEF n
<1>4. Nat \subseteq P
  <2> HIDE DEF P
  <2> QED
    BY <1>2, <1>3, NatSetInduction
<1>5. j - i \in P /\ i + (j - i) = j /\ j <= Len(t)
  <2> HIDE DEF P
  <2>1. j - i \in Nat
    BY <1>1
  <2> QED
    BY <1>1, <1>4, <2>1
<1> QED
  BY <1>5

-----------------------------------------------------------------------------
(* The selected target                                                     *)

\* Whatever the slot, a target of the route is selected.
LEMMA SelectedIn ==
  ASSUME NEW M, NEW t \in Seq(Targets(M)), t # << >>, NEW hash
  PROVE  WeightedTargetIndex(t, hash) \in 1 .. Len(t)
<1> DEFINE over == {i \in DOMAIN t : hash < RunningWeight(t, i)}
<1>1. DOMAIN t = 1 .. Len(t) /\ Len(t) \in Nat \ {0}
  BY LenProperties, EmptySeq
<1>2. over # {} => Min(over) \in over
  <2>1. over \in SUBSET Nat
    BY <1>1
  <2> HIDE DEF over
  <2> QED
    BY <2>1, MinIn
<1> QED
  BY <1>1, <1>2 DEF WeightedTargetIndex

\* The slots of a target are those from the running weight before it up to its own.
LEMMA SelectedIff ==
  ASSUME NEW M, NEW t \in Seq(Targets(M)), NEW s \in Slots(t), NEW i \in 1 .. Len(t)
  PROVE  WeightedTargetIndex(t, s) = i
           <=> (RunningWeight(t, i - 1) <= s /\ s < RunningWeight(t, i))
<1> DEFINE RW(n) == RunningWeight(t, n)
           over == {n \in DOMAIN t : s < RW(n)}
           k == Min(over)
<1>1. DOMAIN t = 1 .. Len(t) /\ Len(t) \in Nat \ {0}
  BY LenProperties
<1>2. RW(0) = 0 /\ \A n \in 0 .. Len(t) : RW(n) \in Nat
  BY RunningSteps
<1>3. s \in Nat /\ s < RW(Len(t))
  BY <1>1, <1>2 DEF Slots, TotalWeight
<1>4. \A m \in 0 .. Len(t), n \in 0 .. Len(t) : m <= n => RW(m) <= RW(n)
  <2>1. ASSUME NEW m \in 0 .. Len(t), NEW n \in 0 .. Len(t), m <= n
        PROVE  RW(m) <= RW(n)
    <3>1. n \in m .. Len(t)
      BY <1>1, <2>1
    <3> QED
      BY <3>1, RunningGrows
  <2> QED
    BY <2>1
<1>5. Len(t) \in over /\ over \in SUBSET Nat
  BY <1>1, <1>3
<1>6. k \in over /\ \A y \in over : k <= y
  <2> HIDE DEF over
  <2> QED
    BY <1>5, MinIn
<1>7. WeightedTargetIndex(t, s) = k
  BY <1>5 DEF WeightedTargetIndex
<1> HIDE DEF k
<1>8. k \in 1 .. Len(t) /\ s < RW(k)
  BY <1>1, <1>6
<1>9. RW(k - 1) <= s
  <2>1. k - 1 \in 0 .. Len(t) /\ k - 1 \notin over
    BY <1>1, <1>6, <1>8
  <2>2. k - 1 = 0 \/ k - 1 \in DOMAIN t
    BY <1>1, <1>8
  <2>3. RW(k - 1) \in Nat
    BY <1>2, <2>1
  <2> HIDE DEF RW
  <2>4. CASE k - 1 = 0
    BY <1>2, <1>3, <2>4
  <2>5. CASE k - 1 \in DOMAIN t
    BY <1>3, <2>1, <2>3, <2>5
  <2> QED
    BY <2>2, <2>4, <2>5
<1>10. ASSUME RW(i - 1) <= s, s < RW(i)
       PROVE  k = i
  <2>1. i \in over
    BY <1>1, <1>10
  <2>2. k <= i
    BY <1>6, <2>1
  <2>3. i - 1 \in 0 .. Len(t) /\ k \in 0 .. Len(t)
    BY <1>1, <1>8
  <2>4. ASSUME k <= i - 1 PROVE FALSE
    <3>1. RW(k) <= RW(i - 1)
      BY <1>4, <2>3, <2>4
    <3>2. RW(k) \in Nat /\ RW(i - 1) \in Nat
      BY <1>2, <2>3
    <3> HIDE DEF RW
    <3> QED
      BY <1>3, <1>8, <1>10, <3>1, <3>2
  <2> QED
    BY <1>1, <1>8, <2>2, <2>4
<1> HIDE DEF RW
<1>11. WeightedTargetIndex(t, s) = i <=> (RW(i - 1) <= s /\ s < RW(i))
  BY <1>7, <1>8, <1>9, <1>10
<1> QED
  BY <1>11 DEF RW

\* For every route, also one with targets of weight 0: a target is selected by
\* exactly as many slots as its weight says.
THEOREM WeightsAreExact ==
  ASSUME NEW M, NEW t \in Seq(Targets(M))
  PROVE  WeightsExact(t)
<1> SUFFICES ASSUME NEW i \in DOMAIN t
             PROVE  Cardinality({s \in Slots(t) : WeightedTargetIndex(t, s) = i}) = t[i].weight
  BY DEF WeightsExact
<1> DEFINE a == RunningWeight(t, i - 1)
           b == RunningWeight(t, i)
           mine == {s \in Slots(t) : WeightedTargetIndex(t, s) = i}
<1>1. DOMAIN t = 1 .. Len(t) /\ Len(t) \in Nat /\ i \in 1 .. Len(t)
  BY LenProperties
<1>2. a \in Nat /\ b \in Nat /\ t[i].weight \in Nat /\ b = a + t[i].weight
  <2>1. i - 1 \in 0 .. Len(t) /\ i \in 0 .. Len(t)
    BY <1>1
  <2> QED
    BY <1>1, <2>1, RunningSteps
<1>3. b <= TotalWeight(t) /\ TotalWeight(t) \in Nat
  <2>1. i \in 0 .. Len(t) /\ Len(t) \in i .. Len(t) /\ Len(t) \in 0 .. Len(t)
    BY <1>1
  <2> QED
    BY <2>1, RunningGrows, RunningSteps DEF TotalWeight
<1>4. \A s \in Slots(t) : WeightedTargetIndex(t, s) = i <=> (a <= s /\ s < b)
  BY <1>1, SelectedIff
<1> HIDE DEF a, b
<1>5. mine = a .. b - 1
  BY <1>2, <1>3, <1>4 DEF Slots
<1>6. Cardinality(a .. b - 1) = t[i].weight
  <2>1. b - 1 \in Int /\ a \in Int
    BY <1>2
  <2>2. Cardinality(a .. b - 1) = IF a > b - 1 THEN 0 ELSE (b - 1) - a + 1
    BY <2>1, FS_Interval
  <2> QED
    BY <1>2, <2>2
<1> QED
  BY <1>5, <1>6

-----------------------------------------------------------------------------
(* The order of attempts                                                   *)

\* The indices that are not the chosen one, as SelectModelRoute collects them.
Kept(chosen, t) == FoldLeft(LAMBDA acc, x : IF x = chosen THEN acc ELSE Append(acc, x), << >>, t)

IsKept(chosen, g, t) ==
  g = [s \in SUBSET DOMAIN t |-> IF s = {} THEN << >> ELSE IF t[Max(s)] = chosen THEN g[Rest(s)] ELSE Append(g[Rest(s)], t[Max(s)])]

\* The sequence is the value of a recursive function.
LEMMA KeptIsFold ==
  ASSUME NEW chosen, NEW t
  PROVE  Kept(chosen, t) = (CHOOSE g : IsKept(chosen, g, t))[DOMAIN t]
BY DEF Kept, FoldLeft, MapThenFoldSet, IsKept, Rest

KeptF(chosen) == [y \in Seq(Nat) \X Nat |-> IF y[2] = chosen THEN y[1] ELSE Append(y[1], y[2])]

\* It is a fold.
LEMMA KeptFold ==
  ASSUME NEW chosen, NEW t \in Seq(Nat)
  PROVE  Kept(chosen, t) = Fold(KeptF(chosen), << >>, t)
<1> DEFINE F == KeptF(chosen)
           A == Seq(Nat)
           C == Nat
           base == << >>
<1>1. /\ F \in [A \X C -> A] /\ base \in A
      /\ \A a \in A, c \in C : F[<<a, c>>] = IF c = chosen THEN a ELSE Append(a, c)
  <2>1. \A a \in A, c \in C : (IF c = chosen THEN a ELSE Append(a, c)) \in A
    BY AppendProperties
  <2>2. base \in A
    BY EmptySeq
  <2> QED
    BY <2>1, <2>2 DEF KeptF
<1>2. t \in Seq(C)
  OBVIOUS
<1> HIDE DEF F, A, C
<1>3. \E g : IsKept(chosen, g, t)
  <2>1. PICK g : Computes(g, A, C, F, base, t)
    <3> HIDE DEF base
    <3> QED
      BY <1>1, <1>2, FoldSteps
  <2>2. \A s \in SUBSET DOMAIN t :
          g[s] = IF s = {} THEN base ELSE IF t[Max(s)] = chosen THEN g[Rest(s)] ELSE Append(g[Rest(s)], t[Max(s)])
    <3> HIDE DEF base
    <3> QED
      BY <1>1, <2>1 DEF Computes
  <2>3. IsKept(chosen, g, t)
    BY <2>1, <2>2 DEF IsKept, Computes
  <2> QED
    BY <2>3
<1> DEFINE h == CHOOSE g : IsKept(chosen, g, t)
<1>4. IsKept(chosen, h, t)
  BY <1>3
<1> HIDE DEF h
<1>5. ASSUME NEW s \in SUBSET DOMAIN t, s # {}, h[Rest(s)] \in A, t[Max(s)] \in C
      PROVE  h[s] = F[<<h[Rest(s)], t[Max(s)]>>]
  <2>1. h[s] = IF t[Max(s)] = chosen THEN h[Rest(s)] ELSE Append(h[Rest(s)], t[Max(s)])
    BY <1>4, <1>5 DEF IsKept
  <2> QED
    BY <1>1, <1>5, <2>1
<1>6. h[{}] = base
  BY <1>4 DEF IsKept
<1>7. h[DOMAIN t] = Fold(F, base, t)
  <2> HIDE DEF base
  <2>1. Follows(h, A, C, F, base, t)
    BY <1>1, <1>2, <1>5, <1>6 DEF Follows
  <2> QED
    BY <2>1, SameAsFold
<1> QED
  BY <1>7, KeptIsFold DEF h, F

Upto(n) == [i \in 1 .. n |-> i]

\* The first n indices without the chosen one.
Without(chosen, n) ==
  [j \in 1 .. (IF n < chosen THEN n ELSE n - 1) |-> IF j < chosen THEN j ELSE j + 1]

\* What SelectModelRoute collects of the first n indices.
LEMMA KeptOfUpto ==
  ASSUME NEW chosen \in Nat \ {0}, NEW n \in Nat
  PROVE  Kept(chosen, Upto(n)) = Without(chosen, n)
<1> DEFINE F == KeptF(chosen)
           P == {m \in Nat : Fold(F, << >>, Upto(m)) = Without(chosen, m)}
<1>1. \A m \in Nat : Upto(m) \in Seq(Nat) /\ Len(Upto(m)) = m
  BY DEF Upto
<1>2. \A m \in Nat : Without(chosen, m) \in Seq(Nat)
                     /\ Len(Without(chosen, m)) = IF m < chosen THEN m ELSE m - 1
  BY DEF Without
<1>3. 0 \in P
  <2>1. Upto(0) = << >> /\ Without(chosen, 0) = << >>
    BY DEF Upto, Without
  <2> HIDE DEF F
  <2>2. Fold(F, << >>, << >>) = << >>
    BY FoldOfEmpty
  <2> QED
    BY <2>1, <2>2
<1>4. ASSUME NEW m \in Nat, m \in P
      PROVE  m + 1 \in P
  <2> DEFINE k == m + 1
  <2>1. Upto(k) = Append(Upto(m), k)
    BY DEF Upto
  <2>2. Fold(F, << >>, Append(Upto(m), k)) = F[<<Fold(F, << >>, Upto(m)), k>>]
    <3>1. k \in Nat /\ Upto(m) \in Seq(Nat)
      BY <1>1
    <3> HIDE DEF F, k
    <3> QED
      BY <3>1, FoldOfAppend
  <2>3. F[<<Without(chosen, m), k>>] =
          IF k = chosen THEN Without(chosen, m) ELSE Append(Without(chosen, m), k)
    <3>1. \A a \in Seq(Nat), c \in Nat : F[<<a, c>>] = IF c = chosen THEN a ELSE Append(a, c)
      BY DEF KeptF
    <3>2. Without(chosen, m) \in Seq(Nat) /\ k \in Nat
      BY <1>2
    <3> HIDE DEF F, k
    <3> QED
      BY <3>1, <3>2
  <2>4. CASE k = chosen
    <3>1. Without(chosen, k) = Without(chosen, m)
      BY <2>4 DEF Without
    <3> QED
      BY <1>4, <2>1, <2>2, <2>3, <2>4, <3>1
  <2>5. CASE k # chosen
    <3> DEFINE u == Without(chosen, m)
               v == Without(chosen, k)
    <3>1. Append(u, k) = v
      <4>1. u \in Seq(Nat) /\ v \in Seq(Nat) /\ k \in Nat
        BY <1>2
      <4>2. Len(v) = Len(u) + 1 /\ Len(u) = IF m < chosen THEN m ELSE m - 1
        <5>1. Len(v) = (IF k < chosen THEN k ELSE k - 1) /\ Len(u) = IF m < chosen THEN m ELSE m - 1
          BY <1>2
        <5> HIDE DEF u, v
        <5> QED
          BY <2>5, <5>1
      <4>3. \A i \in 1 .. Len(u) : u[i] = v[i]
        BY <4>2 DEF Without
      <4>4. v[Len(u) + 1] = k
        BY <2>5, <4>2 DEF Without
      <4> HIDE DEF u, v, k
      <4>5. Append(u, k) \in Seq(Nat) /\ Len(Append(u, k)) = Len(u) + 1
            /\ \A i \in 1 .. Len(u) : Append(u, k)[i] = u[i]
            /\ Append(u, k)[Len(u) + 1] = k
        BY <4>1, AppendProperties
      <4>6. Len(u) \in Nat
        BY <4>1, LenProperties
      <4>7. \A i \in 1 .. Len(u) + 1 : Append(u, k)[i] = v[i]
        BY <4>3, <4>4, <4>5, <4>6
      <4> QED
        BY <4>1, <4>2, <4>5, <4>7, SeqEqual
    <3>2. Fold(F, << >>, Upto(m)) = u
      BY <1>4
    <3> HIDE DEF F, u
    <3>3. Fold(F, << >>, Upto(k)) = v
      BY <2>1, <2>2, <2>3, <2>5, <3>1, <3>2 DEF u
    <3> HIDE DEF v
    <3>4. k \in P
      BY <3>3 DEF v, F
    <3> QED
      BY <3>4
  <2> QED
    BY <2>4, <2>5
<1>5. Nat \subseteq P
  <2> HIDE DEF P
  <2> QED
    BY <1>3, <1>4, NatSetInduction
<1>6. Kept(chosen, Upto(n)) = Fold(F, << >>, Upto(n))
  BY <1>1, KeptFold
<1> QED
  BY <1>5, <1>6

\* The target of the j-th attempt.
Attempt(chosen, j) == IF j = 1 THEN chosen ELSE IF j - 1 < chosen THEN j - 1 ELSE j

\* The plan, one attempt at a time.
LEMMA PlanAttempts ==
  ASSUME NEW M, NEW t \in Seq(Targets(M)), t # << >>, NEW hash
  PROVE  LET plan == SelectModelRoute(t, hash)
             chosen == WeightedTargetIndex(t, hash)
         IN /\ plan \in Seq(M) /\ Len(plan) = Len(t)
            /\ \A j \in 1 .. Len(t) : /\ Attempt(chosen, j) \in 1 .. Len(t)
                                      /\ plan[j] = t[Attempt(chosen, j)].model
<1> DEFINE plan == SelectModelRoute(t, hash)
           chosen == WeightedTargetIndex(t, hash)
           n == Len(t)
           order == <<chosen>> \o Kept(chosen, Upto(n))
<1>1. n \in Nat /\ \A i \in 1 .. n : t[i].model \in M
  <2>1. n \in Nat /\ \A i \in 1 .. n : t[i] \in Targets(M)
    BY LenProperties
  <2>2. \A x \in Targets(M) : x.model \in M
    BY DEF Targets
  <2> HIDE DEF n
  <2> QED
    BY <2>1, <2>2
<1>2. chosen \in 1 .. n
  BY SelectedIn
<1>3. plan = [j \in 1 .. n |-> t[order[j]].model]
  BY DEF SelectModelRoute, Kept, Upto
<1> HIDE DEF plan, chosen, n
<1>4. \A j \in 1 .. n : order[j] = Attempt(chosen, j)
  <2> DEFINE rest == Without(chosen, n)
  <2>1. Kept(chosen, Upto(n)) = rest
    BY <1>1, <1>2, KeptOfUpto
  <2>2. rest \in Seq(Nat) /\ Len(rest) = n - 1
        /\ \A j \in 1 .. n - 1 : rest[j] = IF j < chosen THEN j ELSE j + 1
    BY <1>1, <1>2 DEF Without
  <2>3. <<chosen>> \in Seq(Nat) /\ Len(<<chosen>>) = 1 /\ <<chosen>>[1] = chosen
    BY <1>1, <1>2
  <2> HIDE DEF rest
  <2>4. \A j \in 1 .. 1 + (n - 1) : (<<chosen>> \o rest)[j] =
          IF j <= 1 THEN <<chosen>>[j] ELSE rest[j - 1]
    BY <2>2, <2>3, ConcatProperties
  <2> QED
    BY <1>1, <1>2, <2>1, <2>2, <2>3, <2>4 DEF Attempt
<1>5. \A j \in 1 .. n : Attempt(chosen, j) \in 1 .. n
  BY <1>1, <1>2 DEF Attempt
<1> HIDE DEF order
<1>6. \A j \in 1 .. n : plan[j] = t[Attempt(chosen, j)].model
  BY <1>3, <1>4
<1>7. plan \in Seq(M) /\ Len(plan) = n
  <2>1. \A j \in 1 .. n : t[order[j]].model \in M
    BY <1>1, <1>4, <1>5
  <2> QED
    BY <1>1, <1>3, <2>1
<1> QED
  BY <1>5, <1>6, <1>7 DEF plan, chosen, n

\* For every route and every slot: the attempts are the targets of the route,
\* each once, the selected one first and the others in the order of the route.
THEOREM AttemptsAreTheTargets ==
  ASSUME NEW M, NEW t \in Seq(Targets(M)), t # << >>, NEW hash
  PROVE  AttemptsAreTargets(t, hash)
<1> DEFINE models == [i \in DOMAIN t |-> t[i].model]
           plan == SelectModelRoute(t, hash)
           chosen == WeightedTargetIndex(t, hash)
           n == Len(t)
           front == SubSeq(models, 1, chosen - 1)
           back == SubSeq(models, chosen + 1, n)
<1>1. n \in Nat \ {0} /\ DOMAIN t = 1 .. n /\ \A i \in 1 .. n : t[i].model \in M
  <2>1. n \in Nat \ {0} /\ DOMAIN t = 1 .. n /\ \A i \in 1 .. n : t[i] \in Targets(M)
    BY LenProperties, EmptySeq
  <2>2. \A x \in Targets(M) : x.model \in M
    BY DEF Targets
  <2> HIDE DEF n
  <2> QED
    BY <2>1, <2>2
<1>2. chosen \in 1 .. n
  BY SelectedIn
<1>3. models \in Seq(M) /\ Len(models) = n /\ \A i \in 1 .. n : models[i] = t[i].model
  BY <1>1
<1>4. /\ plan \in Seq(M) /\ Len(plan) = n
      /\ \A j \in 1 .. n : Attempt(chosen, j) \in 1 .. n /\ plan[j] = t[Attempt(chosen, j)].model
  BY PlanAttempts
<1> HIDE DEF plan, chosen, n, models
<1>5. front \in Seq(M) /\ Len(front) = chosen - 1
      /\ \A i \in 1 .. chosen - 1 : front[i] = models[i]
  <2> DEFINE k == chosen - 1
  <2>1. k \in Int /\ k >= 0 /\ \A i \in 1 .. k : models[i] \in M
    BY <1>1, <1>2, <1>3
  <2> HIDE DEF k
  <2>2. SubSeq(models, 1, k) \in Seq(M) /\ Len(SubSeq(models, 1, k)) = (IF 1 <= k THEN k - 1 + 1 ELSE 0)
        /\ \A i \in 1 .. k - 1 + 1 : SubSeq(models, 1, k)[i] = models[1 + i - 1]
    BY <2>1, SubSeqProperties
  <2>3. SubSeq(models, 1, k) \in Seq(M) /\ Len(SubSeq(models, 1, k)) = k
        /\ \A i \in 1 .. k : SubSeq(models, 1, k)[i] = models[i]
    BY <2>1, <2>2
  <2> QED
    BY <2>3 DEF k
<1>6. back \in Seq(M) /\ Len(back) = n - chosen
      /\ \A i \in 1 .. n - chosen : back[i] = models[chosen + i]
  <2> DEFINE k == chosen + 1
  <2>1. k \in Int /\ n \in Int /\ k <= n + 1 /\ \A i \in k .. n : models[i] \in M
    BY <1>1, <1>2, <1>3
  <2>2. k = chosen + 1
    OBVIOUS
  <2> HIDE DEF k
  <2>3. SubSeq(models, k, n) \in Seq(M) /\ Len(SubSeq(models, k, n)) = (IF k <= n THEN n - k + 1 ELSE 0)
        /\ \A i \in 1 .. n - k + 1 : SubSeq(models, k, n)[i] = models[k + i - 1]
    BY <2>1, SubSeqProperties
  <2>4. SubSeq(models, k, n) \in Seq(M) /\ Len(SubSeq(models, k, n)) = n - chosen
        /\ \A i \in 1 .. n - chosen : SubSeq(models, k, n)[i] = models[chosen + i]
    BY <1>1, <1>2, <2>1, <2>2, <2>3
  <2> QED
    BY <2>4 DEF k
<1> HIDE DEF front, back
<1>7. front \o back \in Seq(M) /\ Len(front \o back) = n - 1
      /\ \A i \in 1 .. n - 1 : (front \o back)[i] =
           IF i <= chosen - 1 THEN front[i] ELSE back[i - (chosen - 1)]
  <2>1. front \o back \in Seq(M) /\ Len(front \o back) = Len(front) + Len(back)
        /\ \A i \in 1 .. Len(front) + Len(back) : (front \o back)[i] =
             IF i <= Len(front) THEN front[i] ELSE back[i - Len(front)]
    BY <1>5, <1>6, ConcatProperties
  <2>2. Len(front) + Len(back) = n - 1
    BY <1>1, <1>2, <1>5, <1>6
  <2> QED
    BY <1>5, <2>1, <2>2
<1>8. plan # << >> /\ Head(plan) = plan[1]
  BY <1>1, <1>4, EmptySeq
<1>9. Tail(plan) \in Seq(M) /\ Len(Tail(plan)) = n - 1
      /\ \A i \in 1 .. n - 1 : Tail(plan)[i] = plan[i + 1]
  BY <1>4, <1>8, HeadTailProperties
<1>10. ASSUME NEW i \in 1 .. n - 1
       PROVE  Tail(plan)[i] = (front \o back)[i]
  <2>1. i \in Nat /\ i + 1 \in 1 .. n /\ i + 1 # 1 /\ (i + 1) - 1 = i
    BY <1>1
  <2>2. Tail(plan)[i] = t[Attempt(chosen, i + 1)].model
    BY <1>4, <1>9, <2>1
  <2>3. CASE i < chosen
    <3>1. i <= chosen - 1 /\ i \in 1 .. chosen - 1 /\ i \in 1 .. n
      BY <1>1, <1>2, <2>1, <2>3
    <3>2. Attempt(chosen, i + 1) = i
      BY <2>1, <2>3 DEF Attempt
    <3>3. (front \o back)[i] = models[i]
      BY <1>5, <1>7, <3>1
    <3> QED
      BY <1>3, <2>2, <3>1, <3>2, <3>3
  <2>4. CASE ~(i < chosen)
    <3>1. ~(i <= chosen - 1) /\ i - (chosen - 1) \in 1 .. n - chosen /\ i + 1 \in 1 .. n
          /\ chosen + (i - (chosen - 1)) = i + 1
      BY <1>1, <1>2, <2>1, <2>4
    <3>2. Attempt(chosen, i + 1) = i + 1
      BY <2>1, <2>4 DEF Attempt
    <3>3. (front \o back)[i] = models[i + 1]
      BY <1>6, <1>7, <3>1
    <3> QED
      BY <1>3, <2>2, <3>1, <3>2, <3>3
  <2> QED
    BY <2>3, <2>4
<1>11. Tail(plan) = front \o back
  BY <1>7, <1>9, <1>10, SeqEqual
<1>12. Head(plan) = models[chosen]
  <2>1. Attempt(chosen, 1) = chosen /\ 1 \in 1 .. n
    BY <1>1 DEF Attempt
  <2> QED
    BY <1>2, <1>3, <1>4, <1>8, <2>1
<1>13. Len(models) = n
  BY <1>3
<1> QED
  BY <1>11, <1>12, <1>13 DEF AttemptsAreTargets, plan, chosen, n, models, front, back

-----------------------------------------------------------------------------
(* Listing and resolving                                                   *)

\* The elements of a short sequence.
LEMMA ToSetOfOne ==
  /\ \A x : ToSet(<<x>>) = {x}
  /\ ToSet(<< >>) = {}
<1>1. DOMAIN << >> = {}
  OBVIOUS
<1>2. ASSUME NEW x
      PROVE  ToSet(<<x>>) = {x}
  <2>1. DOMAIN <<x>> = {1} /\ <<x>>[1] = x
    OBVIOUS
  <2> QED
    BY <2>1 DEF ToSet
<1> QED
  BY <1>1, <1>2 DEF ToSet

\* A plan of a route that parses names no empty model.
LEMMA PlanNamesModels ==
  ASSUME NEW M, NEW t \in Seq(Targets(M)), IsRoute(t), NEW hash
  PROVE  "" \notin ToSet(SelectModelRoute(t, hash))
<1> DEFINE plan == SelectModelRoute(t, hash)
           chosen == WeightedTargetIndex(t, hash)
<1>1. t # << >> /\ DOMAIN t = 1 .. Len(t) /\ \A i \in 1 .. Len(t) : t[i].model # ""
  <2>1. DOMAIN t = 1 .. Len(t) /\ Len(t) > 0
    BY LenProperties DEF IsRoute
  <2>2. t # << >>
    BY <2>1, EmptySeq
  <2>3. \A i \in DOMAIN t : t[i].model # ""
    BY DEF IsRoute, IsTarget
  <2> QED
    BY <2>1, <2>2, <2>3
<1>2. /\ plan \in Seq(M) /\ Len(plan) = Len(t)
      /\ \A j \in 1 .. Len(t) : Attempt(chosen, j) \in 1 .. Len(t) /\ plan[j] = t[Attempt(chosen, j)].model
  BY <1>1, PlanAttempts
<1> HIDE DEF plan, chosen
<1>3. DOMAIN plan = 1 .. Len(t)
  BY <1>2, LenProperties
<1>4. \A j \in DOMAIN plan : plan[j] # ""
  BY <1>1, <1>2, <1>3
<1> QED
  BY <1>4 DEF ToSet, plan

\* A name an alias leads to is not empty.
LEMMA AliasNamesModel ==
  ASSUME NEW aliases, NEW default, default # "", AliasesParse(aliases)
  PROVE  \A m \in DOMAIN LoadModelAliases(aliases, default) :
           LoadModelAliases(aliases, default)[m] # ""
<1>1. CASE DOMAIN aliases = {}
  <2>1. LoadModelAliases(aliases, default) = [m \in {default} |-> default]
    BY <1>1 DEF LoadModelAliases
  <2> QED
    BY <2>1
<1>2. CASE DOMAIN aliases # {}
  <2>1. LoadModelAliases(aliases, default) = aliases
    BY <1>2 DEF LoadModelAliases
  <2> QED
    BY <2>1 DEF AliasesParse
<1> QED
  BY <1>1, <1>2

\* For all settings and every name: /v1/models and chat agree.
THEOREM ListedIsResolvable ==
  ASSUME NEW M, NEW routes, \A a \in DOMAIN routes : routes[a] \in Seq(Targets(M)),
         NEW aliases, NEW default, default # "", NEW name, NEW hash
  PROVE  ListedIffResolvable(name, routes, aliases, default, hash)
<1> DEFINE all == LoadModelAliases(aliases, default)
           listed == ListGatewayModels(routes, aliases, default)
           resolved == ResolveModelRoute(name, routes, aliases, default, hash)
<1>1. CASE ~RoutesParse(routes)
  <2>1. listed.error = "ValueError" /\ resolved.error = "ValueError"
    BY <1>1 DEF ListGatewayModels, ResolveModelRoute, Raised
  <2> QED
    BY <2>1 DEF ListedIffResolvable
<1>2. CASE RoutesParse(routes) /\ name \in DOMAIN routes
  <2> DEFINE plan == SelectModelRoute(routes[name], hash)
  <2>1. resolved.error = "none" /\ resolved.models = plan
    BY <1>2 DEF ResolveModelRoute, Selected
  <2>2. "" \notin ToSet(plan)
    <3>1. IsRoute(routes[name])
      BY <1>2 DEF RoutesParse
    <3> QED
      BY <1>2, <3>1, PlanNamesModels
  <2>3. listed.error = "none" => name \in listed.models
    BY <1>2 DEF ListGatewayModels
  <2> HIDE DEF listed, resolved, plan
  <2>4. "" \notin ToSet(resolved.models) /\ resolved.error # "ValueError"
    BY <2>1, <2>2
  <2> QED
    BY <1>2, <2>1, <2>3, <2>4 DEF ListedIffResolvable, listed, resolved
<1>3. CASE RoutesParse(routes) /\ name \notin DOMAIN routes /\ ~AliasesParse(aliases)
  <2>1. listed.error = "ValueError" /\ resolved.error = "ValueError"
    BY <1>3 DEF ListGatewayModels, ResolveModelRoute, Raised
  <2> QED
    BY <2>1 DEF ListedIffResolvable
<1>4. CASE RoutesParse(routes) /\ name \notin DOMAIN routes /\ AliasesParse(aliases)
  <2>1. listed.error = "none" /\ listed.models = DOMAIN routes \cup DOMAIN all
    BY <1>4 DEF ListGatewayModels
  <2>2. resolved = IF name \in DOMAIN all THEN Selected(<<all[name]>>) ELSE Raised("ModelAliasError")
    BY <1>4 DEF ResolveModelRoute
  <2>3. CASE name \in DOMAIN all
    <3>1. resolved.error = "none" /\ resolved.models = <<all[name]>>
      <4> HIDE DEF resolved, all
      <4>1. resolved = Selected(<<all[name]>>)
        BY <2>2, <2>3
      <4> QED
        BY <4>1 DEF Selected
    <3>2. all[name] # ""
      BY <1>4, <2>3, AliasNamesModel
    <3> HIDE DEF listed, resolved, all
    <3>3. "" \notin ToSet(resolved.models)
      BY <3>1, <3>2, ToSetOfOne
    <3>4. name \in listed.models /\ resolved.error # "ValueError"
      BY <2>1, <2>3, <3>1
    <3> QED
      BY <2>1, <3>1, <3>3, <3>4 DEF ListedIffResolvable, listed, resolved
  <2>4. CASE name \notin DOMAIN all
    <3>1. resolved.error = "ModelAliasError" /\ resolved.models = << >>
      <4> HIDE DEF resolved, all
      <4>1. resolved = Raised("ModelAliasError")
        BY <2>2, <2>4
      <4> QED
        BY <4>1 DEF Raised
    <3> HIDE DEF listed, resolved, all
    <3>2. "" \notin ToSet(resolved.models)
      BY <3>1, ToSetOfOne
    <3>3. name \notin listed.models /\ resolved.error # "ValueError" /\ resolved.error # "none"
      BY <1>4, <2>1, <2>4, <3>1
    <3> QED
      BY <2>1, <3>2, <3>3 DEF ListedIffResolvable, listed, resolved
  <2> QED
    BY <2>3, <2>4
<1> QED
  BY <1>1, <1>2, <1>3, <1>4

-----------------------------------------------------------------------------
(* Counting the elements of a text                                         *)

CountIn(t, K) == Cardinality({i \in DOMAIN t : t[i] \in K})

\* A count is a number, and no more than the length.
LEMMA CountType ==
  ASSUME NEW S, NEW t \in Seq(S), NEW K
  PROVE  /\ IsFiniteSet({i \in DOMAIN t : t[i] \in K})
         /\ CountIn(t, K) \in Nat /\ CountIn(t, K) <= Len(t)
<1> DEFINE D == 1 .. Len(t)
           A == {i \in DOMAIN t : t[i] \in K}
<1>1. Len(t) \in Nat /\ DOMAIN t = D
  BY LenProperties
<1>2. A \in SUBSET D
  BY <1>1
<1>3. IsFiniteSet(D) /\ Cardinality(D) = Len(t)
  BY <1>1, FS_Interval
<1> HIDE DEF A, D
<1>4. IsFiniteSet(A) /\ Cardinality(A) <= Cardinality(D)
  BY <1>2, <1>3, FS_Subset
<1>5. Cardinality(A) \in Nat
  BY <1>4, FS_CardinalityType
<1> QED
  BY <1>3, <1>4, <1>5 DEF A, CountIn

\* An element more counts if it is one of those that are counted.
LEMMA CountOfAppend ==
  ASSUME NEW S, NEW t \in Seq(S), NEW c \in S, NEW K
  PROVE  CountIn(Append(t, c), K) = IF c \in K THEN CountIn(t, K) + 1 ELSE CountIn(t, K)
<1> DEFINE u == Append(t, c)
           n == Len(t)
           A == {i \in DOMAIN t : t[i] \in K}
           B == {i \in DOMAIN u : u[i] \in K}
<1>1. n \in Nat /\ DOMAIN t = 1 .. n
  BY LenProperties
<1>2. u \in Seq(S) /\ Len(u) = n + 1 /\ u[n + 1] = c /\ \A i \in 1 .. n : u[i] = t[i]
  BY AppendProperties
<1>3. DOMAIN u = 1 .. n + 1
  BY <1>2, LenProperties
<1>4. IsFiniteSet(A)
  BY CountType
<1> HIDE DEF u, n
<1>5. B = IF c \in K THEN A \cup {n + 1} ELSE A
  BY <1>1, <1>2, <1>3
<1>6. n + 1 \notin A
  BY <1>1
<1> HIDE DEF A, B
<1>7. Cardinality(A \cup {n + 1}) = Cardinality(A) + 1
  BY <1>4, <1>6, FS_AddElement
<1>8. CountIn(u, K) = Cardinality(B) /\ CountIn(t, K) = Cardinality(A)
  BY DEF CountIn, A, B
<1>9. CountIn(u, K) = IF c \in K THEN CountIn(t, K) + 1 ELSE CountIn(t, K)
  BY <1>5, <1>7, <1>8
<1> QED
  BY <1>9 DEF u

\* Nothing in an empty text counts.
LEMMA CountOfEmpty ==
  ASSUME NEW K
  PROVE  CountIn(<< >>, K) = 0
<1>1. {i \in DOMAIN << >> : << >>[i] \in K} = {}
  OBVIOUS
<1> QED
  BY <1>1, FS_EmptySet DEF CountIn

\* The counts of two kinds of elements add up to the length.
LEMMA CountsAddUp ==
  ASSUME NEW K, NEW L, K \cap L = {}, NEW t \in Seq(K \cup L)
  PROVE  CountIn(t, K) + CountIn(t, L) = Len(t)
<1> DEFINE S == K \cup L
           P == {u \in Seq(S) : CountIn(u, K) + CountIn(u, L) = Len(u)}
<1>1. << >> \in P
  <2>1. << >> \in Seq(S) /\ Len(<< >>) = 0
    BY EmptySeq
  <2>2. CountIn(<< >>, K) = 0 /\ CountIn(<< >>, L) = 0
    BY CountOfEmpty
  <2> QED
    BY <2>1, <2>2
<1>2. ASSUME NEW u \in Seq(S), NEW c \in S, u \in P
      PROVE  Append(u, c) \in P
  <2>1. Append(u, c) \in Seq(S) /\ Len(Append(u, c)) = Len(u) + 1
    BY AppendProperties
  <2>2. CountIn(Append(u, c), K) = (IF c \in K THEN CountIn(u, K) + 1 ELSE CountIn(u, K))
    BY CountOfAppend
  <2>3. CountIn(Append(u, c), L) = (IF c \in L THEN CountIn(u, L) + 1 ELSE CountIn(u, L))
    BY CountOfAppend
  <2>4. CountIn(u, K) \in Nat /\ CountIn(u, L) \in Nat /\ Len(u) \in Nat
    BY CountType, LenProperties
  <2>5. c \in K <=> c \notin L
    OBVIOUS
  <2>6. CountIn(u, K) + CountIn(u, L) = Len(u)
    BY <1>2
  <2>7. CountIn(Append(u, c), K) + CountIn(Append(u, c), L) = Len(Append(u, c))
    BY <2>1, <2>2, <2>3, <2>4, <2>5, <2>6
  <2> QED
    BY <2>1, <2>7
<1>3. t \in Seq(S)
  OBVIOUS
<1>4. Seq(S) \subseteq P
  <2> HIDE DEF P, S
  <2> QED
    BY <1>1, <1>2, SeqInduction
<1> QED
  BY <1>3, <1>4

\* A sequence that is not empty ends with its last element.
LEMMA FrontAndLast ==
  ASSUME NEW S, NEW t \in Seq(S), t # << >>
  PROVE  /\ Front(t) \in Seq(S) /\ Last(t) \in S
         /\ t = Append(Front(t), Last(t)) /\ Last(t) = t[Len(t)]
<1> DEFINE n == Len(t) - 1
<1>1. n \in Nat /\ n + 1 = Len(t) /\ Len(t) \in Nat
  BY EmptySeq
<1>2. SubSeq(t, 1, Len(t)) = t
  BY SubSeqFull
<1>3. /\ SubSeq(t, 1, n) \in Seq(S) /\ t[n + 1] \in S
      /\ SubSeq(t, 1, n + 1) = Append(SubSeq(t, 1, n), t[n + 1])
  <2> HIDE DEF n
  <2>1. n + 1 <= Len(t)
    BY <1>1
  <2> QED
    BY <1>1, <2>1, LongerPrefix
<1>4. Front(t) = SubSeq(t, 1, n) /\ Last(t) = t[n + 1]
  BY <1>1 DEF Front, Last
<1> QED
  BY <1>1, <1>2, <1>3, <1>4

\* The front and the last of a sequence that was appended to.
LEMMA FrontOfAppend ==
  ASSUME NEW S, NEW t \in Seq(S), NEW e \in S
  PROVE  Front(Append(t, e)) = t /\ Last(Append(t, e)) = e
<1> DEFINE u == Append(t, e)
<1>1. u \in Seq(S) /\ u # << >>
  BY AppendProperties
<1> HIDE DEF u
<1>2. Front(u) \in Seq(S) /\ Last(u) \in S /\ u = Append(Front(u), Last(u))
  BY <1>1, FrontAndLast
<1>3. Append(t, e) = Append(Front(u), Last(u)) <=> t = Front(u) /\ e = Last(u)
  BY <1>2, AppendInjective
<1> QED
  BY <1>2, <1>3 DEF u

-----------------------------------------------------------------------------
(* Stripping a text                                                        *)

\* What is stripped from t is everything outside of a .. b.
Stripped(t, a, b) ==
  /\ Strip(t) = SubSeq(t, a, b)
  /\ t[a] # "space" /\ t[b] # "space"
  /\ \A i \in DOMAIN t : i \notin a .. b => t[i] = "space"

\* A text is blank, or stripped to what begins and ends with no space.
LEMMA StripShape ==
  ASSUME NEW S, NEW t \in Seq(S)
  PROVE  \/ Strip(t) = << >> /\ \A i \in DOMAIN t : t[i] = "space"
         \/ \E a \in 1 .. Len(t) : \E b \in a .. Len(t) : Stripped(t, a, b)
<1> DEFINE solid == {i \in DOMAIN t : t[i] # "space"}
<1>1. Len(t) \in Nat /\ DOMAIN t = 1 .. Len(t)
  BY LenProperties
<1>2. CASE solid = {}
  BY <1>2 DEF Strip
<1>3. CASE solid # {}
  <2>1. solid \in SUBSET (1 .. Len(t)) /\ solid \in SUBSET Nat
    BY <1>1
  <2>2. Min(solid) \in solid /\ \A y \in solid : Min(solid) <= y
    <3> HIDE DEF solid
    <3> QED
      BY <1>3, <2>1, MinIn
  <2>3. Max(solid) \in solid /\ \A y \in solid : Max(solid) >= y
    <3> HIDE DEF solid
    <3> QED
      BY <1>1, <1>3, <2>1, MaxIn
  <2>4. Strip(t) = SubSeq(t, Min(solid), Max(solid))
    BY <1>3 DEF Strip
  <2> DEFINE a == Min(solid)
             b == Max(solid)
  <2> HIDE DEF a, b
  <2>5. a \in 1 .. Len(t) /\ b \in a .. Len(t)
    BY <1>1, <2>1, <2>2, <2>3 DEF a, b
  <2>6. t[a] # "space" /\ t[b] # "space"
    BY <2>2, <2>3 DEF a, b
  <2>7. ASSUME NEW i \in DOMAIN t, i \notin a .. b
        PROVE  t[i] = "space"
    <3>1. i \in solid => a <= i /\ i <= b
      BY <1>1, <2>1, <2>2, <2>3 DEF a, b
    <3>2. i \notin solid
      BY <1>1, <2>5, <2>7, <3>1
    <3> QED
      BY <3>2
  <2>8. Strip(t) = SubSeq(t, a, b)
    BY <2>4 DEF a, b
  <2>9. Stripped(t, a, b)
    BY <2>6, <2>7, <2>8 DEF Stripped
  <2> HIDE DEF solid
  <2> QED
    BY <2>5, <2>9
<1> QED
  BY <1>2, <1>3

\* The stripped text, one element at a time.
LEMMA StrippedElements ==
  ASSUME NEW S, NEW t \in Seq(S), NEW a \in 1 .. Len(t), NEW b \in a .. Len(t), Stripped(t, a, b)
  PROVE  /\ Strip(t) \in Seq(S) /\ Len(Strip(t)) = b - a + 1
         /\ DOMAIN Strip(t) = 1 .. b - a + 1
         /\ \A i \in 1 .. b - a + 1 : Strip(t)[i] = t[a + i - 1]
<1>1. Len(t) \in Nat /\ \A i \in 1 .. Len(t) : t[i] \in S
  BY LenProperties
<1>2. a \in Int /\ b \in Int /\ a <= b /\ \A i \in a .. b : t[i] \in S
  BY <1>1
<1>3. /\ SubSeq(t, a, b) \in Seq(S)
      /\ Len(SubSeq(t, a, b)) = IF a <= b THEN b - a + 1 ELSE 0
      /\ \A i \in 1 .. b - a + 1 : SubSeq(t, a, b)[i] = t[a + i - 1]
  BY <1>2, SubSeqProperties
<1>4. Strip(t) = SubSeq(t, a, b)
  BY DEF Stripped
<1>5. Strip(t) \in Seq(S) /\ Len(Strip(t)) = b - a + 1
  BY <1>2, <1>3, <1>4
<1>6. DOMAIN Strip(t) = 1 .. b - a + 1
  BY <1>5, LenProperties
<1> QED
  BY <1>3, <1>4, <1>5, <1>6

\* What counts in the stripped text counts in the text; only spaces are lost.
LEMMA StripCounts ==
  ASSUME NEW S, NEW t \in Seq(S), NEW K
  PROVE  /\ Strip(t) \in Seq(S) /\ Len(Strip(t)) <= Len(t)
         /\ CountIn(Strip(t), K) <= CountIn(t, K)
         /\ "space" \notin K => CountIn(Strip(t), K) = CountIn(t, K)
<1> DEFINE u == Strip(t)
           A == {i \in DOMAIN u : u[i] \in K}
           B == {i \in DOMAIN t : t[i] \in K}
<1>1. Len(t) \in Nat /\ DOMAIN t = 1 .. Len(t)
  BY LenProperties
<1>2. CASE u = << >> /\ \A i \in DOMAIN t : t[i] = "space"
  <2>1. u \in Seq(S) /\ Len(u) = 0 /\ CountIn(u, K) = 0
    BY <1>2, EmptySeq, CountOfEmpty
  <2>2. CountIn(t, K) \in Nat
    BY CountType
  <2>3. ASSUME "space" \notin K PROVE CountIn(t, K) = 0
    <3>1. B = {}
      BY <1>2, <2>3
    <3> QED
      BY <3>1, FS_EmptySet DEF CountIn
  <2> QED
    BY <1>1, <2>1, <2>2, <2>3
<1>3. ASSUME NEW a \in 1 .. Len(t), NEW b \in a .. Len(t), Stripped(t, a, b)
      PROVE  /\ u \in Seq(S) /\ Len(u) <= Len(t)
             /\ CountIn(u, K) <= CountIn(t, K)
             /\ "space" \notin K => CountIn(u, K) = CountIn(t, K)
  <2>1. /\ u \in Seq(S) /\ Len(u) = b - a + 1 /\ DOMAIN u = 1 .. b - a + 1
        /\ \A i \in 1 .. b - a + 1 : u[i] = t[a + i - 1]
    BY <1>3, StrippedElements
  <2>2. \A i \in DOMAIN t : i \notin a .. b => t[i] = "space"
    BY <1>3 DEF Stripped
  <2> HIDE DEF u
  <2> DEFINE f == [i \in A |-> a + i - 1]
  <2>3. f \in [A -> B] /\ \A i \in A : i \in Int /\ f[i] = a + i - 1
    BY <1>1, <2>1
  <2>4. IsFiniteSet(B) /\ CountIn(t, K) = Cardinality(B) /\ CountIn(u, K) = Cardinality(A)
    BY CountType DEF CountIn
  <2>5. ASSUME "space" \notin K, NEW y \in B
        PROVE  \E i \in A : f[i] = y
    <3>1. y \in a .. b
      BY <2>2, <2>5
    <3>2. y - a + 1 \in A /\ a + (y - a + 1) - 1 = y
      BY <2>1, <2>5, <3>1
    <3> QED
      BY <2>3, <3>2
  <2>6. f \in Injection(A, B)
    <3>1. \A i, j \in A : f[i] = f[j] => i = j
      <4> SUFFICES ASSUME NEW i \in A, NEW j \in A, f[i] = f[j] PROVE i = j
        OBVIOUS
      <4>1. i \in Int /\ j \in Int /\ f[i] = a + i - 1 /\ f[j] = a + j - 1
        BY <2>3
      <4>2. a \in Int
        BY <1>1
      <4> HIDE DEF f, A
      <4>3. a + i - 1 = a + j - 1
        BY <4>1
      <4>4. i \in Int /\ j \in Int
        BY <4>1
      <4> QED
        BY <4>2, <4>3, <4>4
    <3> HIDE DEF f, A, B
    <3>2. IsInjective(f)
      BY <2>3, <3>1 DEF IsInjective
    <3> QED
      BY <2>3, <3>2 DEF Injection
  <2>7. "space" \notin K => f \in Surjection(A, B)
    <3> HIDE DEF f, A, B
    <3> QED
      BY <2>3, <2>5 DEF Surjection
  <2> HIDE DEF f, A, B
  <2>8. Cardinality(A) <= Cardinality(B)
    BY <2>4, <2>6, FS_Injection
  <2>9. Cardinality(A) = Cardinality(B) <=> f \in Surjection(A, B)
    BY <2>4, <2>6, FS_Injection
  <2>10. Len(u) <= Len(t)
    BY <1>1, <2>1
  <2> QED
    BY <2>1, <2>4, <2>7, <2>8, <2>9, <2>10
<1> QED
  BY <1>2, <1>3, StripShape

-----------------------------------------------------------------------------
(* Totals                                                                  *)

\* The total of w over a sequence of elements of E.
TotalF(E, w) == [x \in Nat \X E |-> x[1] + w[x[2]]]
Total(E, w, t) == Fold(TotalF(E, w), 0, t)

\* One element at a time.
LEMMA TotalSteps ==
  ASSUME NEW E, NEW w \in [E -> Nat]
  PROVE  /\ Total(E, w, << >>) = 0
         /\ \A t \in Seq(E) : Total(E, w, t) \in Nat
         /\ \A t \in Seq(E), e \in E : Total(E, w, Append(t, e)) = Total(E, w, t) + w[e]
<1> DEFINE F == TotalF(E, w)
<1>1. /\ F \in [Nat \X E -> Nat] /\ 0 \in Nat
      /\ \A a \in Nat, e \in E : F[<<a, e>>] = a + w[e]
  BY DEF TotalF
<1>2. \A t : Total(E, w, t) = Fold(F, 0, t)
  BY DEF Total
<1> HIDE DEF F
<1>3. Total(E, w, << >>) = 0
  BY <1>2, FoldOfEmpty
<1>4. ASSUME NEW t \in Seq(E)
      PROVE  Total(E, w, t) \in Nat
  <2>1. Fold(F, 0, t) \in Nat
    BY <1>1, FoldType
  <2> QED
    BY <1>2, <2>1
<1>5. ASSUME NEW t \in Seq(E), NEW e \in E
      PROVE  Total(E, w, Append(t, e)) = Total(E, w, t) + w[e]
  <2>1. Fold(F, 0, Append(t, e)) = F[<<Fold(F, 0, t), e>>]
    BY FoldOfAppend
  <2>2. Fold(F, 0, t) \in Nat
    BY <1>2, <1>4
  <2> QED
    BY <1>1, <1>2, <2>1, <2>2
<1> QED
  BY <1>3, <1>4, <1>5

\* The total of what is nowhere larger is not larger.
LEMMA TotalsCompare ==
  ASSUME NEW E, NEW v \in [E -> Nat], NEW w \in [E -> Nat], \A e \in E : v[e] <= w[e],
         NEW t \in Seq(E)
  PROVE  Total(E, v, t) <= Total(E, w, t)
<1> DEFINE P == {u \in Seq(E) : Total(E, v, u) <= Total(E, w, u)}
<1>1. << >> \in P
  <2>1. Total(E, v, << >>) = 0 /\ Total(E, w, << >>) = 0
    BY TotalSteps
  <2> QED
    BY <2>1, EmptySeq
<1>2. ASSUME NEW u \in Seq(E), NEW e \in E, u \in P
      PROVE  Append(u, e) \in P
  <2>1. Append(u, e) \in Seq(E)
    BY AppendProperties
  <2>2. Total(E, v, Append(u, e)) = Total(E, v, u) + v[e] /\ Total(E, v, u) \in Nat
    BY TotalSteps
  <2>3. Total(E, w, Append(u, e)) = Total(E, w, u) + w[e] /\ Total(E, w, u) \in Nat
    BY TotalSteps
  <2>4. v[e] \in Nat /\ w[e] \in Nat /\ v[e] <= w[e] /\ Total(E, v, u) <= Total(E, w, u)
    BY <1>2
  <2>5. Total(E, v, Append(u, e)) <= Total(E, w, Append(u, e))
    BY <2>2, <2>3, <2>4
  <2> QED
    BY <2>1, <2>5
<1>3. Seq(E) \subseteq P
  <2> HIDE DEF P
  <2> QED
    BY <1>1, <1>2, SeqInduction
<1> QED
  BY <1>3

\* The same with a factor.
LEMMA TotalsCompareFour ==
  ASSUME NEW E, NEW v \in [E -> Nat], NEW w \in [E -> Nat], \A e \in E : v[e] <= 4 * w[e],
         NEW t \in Seq(E)
  PROVE  Total(E, v, t) <= 4 * Total(E, w, t)
<1> DEFINE P == {u \in Seq(E) : Total(E, v, u) <= 4 * Total(E, w, u)}
<1>1. << >> \in P
  <2>1. Total(E, v, << >>) = 0 /\ Total(E, w, << >>) = 0
    BY TotalSteps
  <2> QED
    BY <2>1, EmptySeq
<1>2. ASSUME NEW u \in Seq(E), NEW e \in E, u \in P
      PROVE  Append(u, e) \in P
  <2>1. Append(u, e) \in Seq(E)
    BY AppendProperties
  <2>2. Total(E, v, Append(u, e)) = Total(E, v, u) + v[e] /\ Total(E, v, u) \in Nat
    BY TotalSteps
  <2>3. Total(E, w, Append(u, e)) = Total(E, w, u) + w[e] /\ Total(E, w, u) \in Nat
    BY TotalSteps
  <2>4. v[e] \in Nat /\ w[e] \in Nat /\ v[e] <= 4 * w[e] /\ Total(E, v, u) <= 4 * Total(E, w, u)
    BY <1>2
  <2>5. Total(E, v, Append(u, e)) <= 4 * Total(E, w, Append(u, e))
    BY <2>2, <2>3, <2>4
  <2> QED
    BY <2>1, <2>5
<1>3. Seq(E) \subseteq P
  <2> HIDE DEF P
  <2> QED
    BY <1>1, <1>2, SeqInduction
<1> QED
  BY <1>3

-----------------------------------------------------------------------------
(* The segments of a text                                                  *)

\* Only letters and digits make runs.
Segment ==
  {s \in [class : Characters, len : Nat \ {0}] : s.class \in {"letter", "digit"} \/ s.len = 1}

\* Whether a character makes the last segment longer, and what it makes of the
\* segments before it.
Extends(acc, c) == acc # << >> /\ c \in {"letter", "digit"} /\ Last(acc).class = c
Grow(acc, c) ==
  IF Extends(acc, c)
  THEN Append(Front(acc), [class |-> c, len |-> Last(acc).len + 1])
  ELSE Append(acc, [class |-> c, len |-> 1])

\* They stay segments, and the last one is of the class of the character.
LEMMA GrowType ==
  ASSUME NEW acc \in Seq(Segment), NEW c \in Characters
  PROVE  Grow(acc, c) \in Seq(Segment) /\ Grow(acc, c) # << >> /\ Last(Grow(acc, c)).class = c
<1>1. CASE Extends(acc, c)
  <2> DEFINE e == [class |-> c, len |-> Last(acc).len + 1]
             u == Front(acc)
  <2>1. u \in Seq(Segment) /\ Last(acc) \in Segment
    BY <1>1, FrontAndLast DEF Extends
  <2>2. e \in Segment
    BY <1>1, <2>1 DEF Segment, Extends
  <2>3. e.class = c
    OBVIOUS
  <2>4. Grow(acc, c) = Append(u, e)
    BY <1>1 DEF Grow
  <2> HIDE DEF u, e
  <2>5. Append(u, e) \in Seq(Segment) /\ Append(u, e) # << >>
    BY <2>1, <2>2, AppendProperties
  <2>6. Last(Append(u, e)) = e
    BY <2>1, <2>2, FrontOfAppend
  <2> QED
    BY <2>3, <2>4, <2>5, <2>6
<1>2. CASE ~Extends(acc, c)
  <2> DEFINE e == [class |-> c, len |-> 1]
  <2>2. e \in Segment
    BY DEF Segment
  <2>3. e.class = c
    OBVIOUS
  <2>4. Grow(acc, c) = Append(acc, e)
    BY <1>2 DEF Grow
  <2> HIDE DEF e
  <2>5. Append(acc, e) \in Seq(Segment) /\ Append(acc, e) # << >>
    BY <2>2, AppendProperties
  <2>6. Last(Append(acc, e)) = e
    BY <2>2, FrontOfAppend
  <2> QED
    BY <2>3, <2>4, <2>5, <2>6
<1> QED
  BY <1>1, <1>2

IsSegments(g, t) ==
  g = [s \in SUBSET DOMAIN t |-> IF s = {} THEN << >> ELSE Grow(g[Rest(s)], t[Max(s)])]

\* The segments is the value of a recursive function.
LEMMA SegmentsIsFold ==
  ASSUME NEW t
  PROVE  Segments(t) = (CHOOSE g : IsSegments(g, t))[DOMAIN t]
BY DEF Segments, FoldLeft, MapThenFoldSet, IsSegments, Rest, Grow, Extends

SegmentsF == [y \in Seq(Segment) \X Characters |-> Grow(y[1], y[2])]

\* It is a fold.
LEMMA SegmentsFold ==
  ASSUME NEW t \in Seq(Characters)
  PROVE  Segments(t) = Fold(SegmentsF, << >>, t)
<1> DEFINE F == SegmentsF
           A == Seq(Segment)
           C == Characters
           base == << >>
<1>1. /\ F \in [A \X C -> A] /\ base \in A
      /\ \A a \in A, c \in C : F[<<a, c>>] = Grow(a, c)
  <2>1. \A a \in A, c \in C : Grow(a, c) \in A
    BY GrowType
  <2>2. base \in A
    BY EmptySeq
  <2> HIDE DEF A, C
  <2> QED
    BY <2>1, <2>2 DEF SegmentsF, A, C
<1>2. t \in Seq(C)
  OBVIOUS
<1> HIDE DEF F, A, C
<1>3. \E g : IsSegments(g, t)
  <2>1. PICK g : Computes(g, A, C, F, base, t)
    <3> HIDE DEF base
    <3> QED
      BY <1>1, <1>2, FoldSteps
  <2>2. \A s \in SUBSET DOMAIN t :
          g[s] = IF s = {} THEN base ELSE Grow(g[Rest(s)], t[Max(s)])
    <3> HIDE DEF base
    <3> QED
      BY <1>1, <2>1 DEF Computes
  <2>3. IsSegments(g, t)
    BY <2>1, <2>2 DEF IsSegments, Computes
  <2> QED
    BY <2>3
<1> DEFINE h == CHOOSE g : IsSegments(g, t)
<1>4. IsSegments(h, t)
  BY <1>3
<1> HIDE DEF h
<1>5. ASSUME NEW s \in SUBSET DOMAIN t, s # {}, h[Rest(s)] \in A, t[Max(s)] \in C
      PROVE  h[s] = F[<<h[Rest(s)], t[Max(s)]>>]
  <2>1. h[s] = Grow(h[Rest(s)], t[Max(s)])
    BY <1>4, <1>5 DEF IsSegments
  <2> QED
    BY <1>1, <1>5, <2>1
<1>6. h[{}] = base
  BY <1>4 DEF IsSegments
<1>7. h[DOMAIN t] = Fold(F, base, t)
  <2> HIDE DEF base
  <2>1. Follows(h, A, C, F, base, t)
    BY <1>1, <1>2, <1>5, <1>6 DEF Follows
  <2> QED
    BY <2>1, SameAsFold
<1> QED
  BY <1>7, SegmentsIsFold DEF h, F

\* The segments of a text that grows.
LEMMA SegmentsSteps ==
  /\ Segments(<< >>) = << >>
  /\ \A t \in Seq(Characters) : Segments(t) \in Seq(Segment)
  /\ \A t \in Seq(Characters), c \in Characters :
       Segments(Append(t, c)) = Grow(Segments(t), c)
<1> DEFINE F == SegmentsF
           A == Seq(Segment)
<1>1. \A a \in A, c \in Characters : Grow(a, c) \in A
  BY GrowType
<1>2. << >> \in A /\ << >> \in Seq(Characters)
  BY EmptySeq
<1>3. /\ F \in [A \X Characters -> A]
      /\ \A a \in A, c \in Characters : F[<<a, c>>] = Grow(a, c)
  <2> HIDE DEF A
  <2> QED
    BY <1>1 DEF SegmentsF, A
<1>4. \A t \in Seq(Characters) : Segments(t) = Fold(F, << >>, t)
  BY SegmentsFold
<1> HIDE DEF F, A
<1>5. Segments(<< >>) = << >>
  BY <1>2, <1>4, FoldOfEmpty
<1>6. ASSUME NEW t \in Seq(Characters)
      PROVE  Segments(t) \in A
  <2>1. Fold(F, << >>, t) \in A
    BY <1>2, <1>3, FoldType
  <2> QED
    BY <1>4, <2>1
<1>7. ASSUME NEW t \in Seq(Characters), NEW c \in Characters
      PROVE  Segments(Append(t, c)) = Grow(Segments(t), c)
  <2>1. Fold(F, << >>, Append(t, c)) = F[<<Fold(F, << >>, t), c>>]
    BY FoldOfAppend
  <2>2. Append(t, c) \in Seq(Characters)
    BY AppendProperties
  <2> QED
    BY <1>3, <1>4, <1>6, <2>1, <2>2
<1> QED
  BY <1>5, <1>6, <1>7 DEF A

\* The characters every profile sees, and four measures of a segment.
Seen     == {"letter", "digit", "cjk", "mark"}
ByLength == [s \in Segment |-> s.len]
BySeen   == [s \in Segment |-> IF s.class \in Seen THEN s.len ELSE 0]
ByWords  == [s \in Segment |-> IF s.class \in Seen THEN 1 ELSE 0]
ByTokens == [s \in Segment |-> SegmentTokens(s)]

\* A segment has no more tokens than characters; one that is seen has at least
\* one, and one for every four of its characters.
LEMMA TokensOfSegment ==
  ASSUME NEW s \in Segment
  PROVE  /\ SegmentTokens(s) \in Nat /\ SegmentTokens(s) <= s.len
         /\ s.class \in Seen => SegmentTokens(s) >= 1 /\ s.len <= 4 * SegmentTokens(s)
<1>1. s.len \in Nat /\ s.len > 0 /\ s.class \in Characters
  BY DEF Segment
<1>2. CASE s.class = "digit"
  <2>1. SegmentTokens(s) = CeilDiv(s.len, 3)
    BY <1>2 DEF SegmentTokens
  <2> DEFINE n == s.len
  <2>2. n \in Nat /\ n > 0 /\ SegmentTokens(s) = CeilDiv(n, 3)
    BY <1>1, <2>1
  <2> HIDE DEF n
  <2>3. SegmentTokens(s) \in Nat /\ SegmentTokens(s) <= n /\ SegmentTokens(s) >= 1 /\ n <= 4 * SegmentTokens(s)
    BY <2>2 DEF CeilDiv
  <2> QED
    BY <2>3 DEF n
<1>3. CASE s.class = "letter"
  <2>1. SegmentTokens(s) = CeilDiv(s.len, 4)
    BY <1>3 DEF SegmentTokens
  <2> DEFINE n == s.len
  <2>2. n \in Nat /\ n > 0 /\ SegmentTokens(s) = CeilDiv(n, 4)
    BY <1>1, <2>1
  <2> HIDE DEF n
  <2>3. SegmentTokens(s) \in Nat /\ SegmentTokens(s) <= n /\ SegmentTokens(s) >= 1 /\ n <= 4 * SegmentTokens(s)
    BY <2>2 DEF CeilDiv
  <2> QED
    BY <2>3 DEF n
<1>4. CASE s.class \in {"cjk", "mark"}
  <2>1. SegmentTokens(s) = 1 /\ s.len = 1
    BY <1>4 DEF SegmentTokens, Segment
  <2> QED
    BY <2>1
<1>5. CASE s.class \in {"word", "space"}
  <2>1. SegmentTokens(s) = 0
    BY <1>5 DEF SegmentTokens
  <2> QED
    BY <1>1, <1>5, <2>1 DEF Seen
<1> QED
  BY <1>1, <1>2, <1>3, <1>4, <1>5 DEF Characters

\* The measures of a segment are functions on the segments.
LEMMA MeasuresType ==
  /\ ByLength \in [Segment -> Nat] /\ BySeen \in [Segment -> Nat]
  /\ ByWords \in [Segment -> Nat] /\ ByTokens \in [Segment -> Nat]
<1>1. \A s \in Segment : s.len \in Nat /\ SegmentTokens(s) \in Nat
  BY TokensOfSegment DEF Segment
<1> QED
  BY <1>1 DEF ByLength, BySeen, ByWords, ByTokens

\* A character makes the last segment longer by one or adds one of length one.
LEMMA GrowTotals ==
  ASSUME NEW acc \in Seq(Segment), NEW c \in Characters, NEW w \in [Segment -> Nat]
  PROVE  \/ /\ Extends(acc, c) /\ Last(acc) \in Segment /\ Last(acc).class = c
            /\ [class |-> c, len |-> Last(acc).len + 1] \in Segment
            /\ Total(Segment, w, Grow(acc, c)) + w[Last(acc)]
                 = Total(Segment, w, acc) + w[[class |-> c, len |-> Last(acc).len + 1]]
         \/ /\ ~Extends(acc, c) /\ [class |-> c, len |-> 1] \in Segment
            /\ Total(Segment, w, Grow(acc, c)) = Total(Segment, w, acc) + w[[class |-> c, len |-> 1]]
<1>1. CASE Extends(acc, c)
  <2> DEFINE e == [class |-> c, len |-> Last(acc).len + 1]
             u == Front(acc)
             l == Last(acc)
  <2>1. u \in Seq(Segment) /\ l \in Segment /\ acc = Append(u, l)
    BY <1>1, FrontAndLast DEF Extends
  <2>2. e \in Segment /\ l.class = c
    BY <1>1, <2>1 DEF Segment, Extends
  <2>3. Grow(acc, c) = Append(u, e)
    BY <1>1 DEF Grow
  <2> HIDE DEF u, e, l
  <2>4. Total(Segment, w, Append(u, e)) = Total(Segment, w, u) + w[e]
    BY <2>1, <2>2, TotalSteps
  <2>5. Total(Segment, w, Append(u, l)) = Total(Segment, w, u) + w[l]
    BY <2>1, TotalSteps
  <2>6. Total(Segment, w, u) \in Nat /\ w[e] \in Nat /\ w[l] \in Nat
    BY <2>1, <2>2, TotalSteps
  <2>7. Total(Segment, w, Grow(acc, c)) + w[l] = Total(Segment, w, acc) + w[e]
    BY <2>1, <2>3, <2>4, <2>5, <2>6
  <2> QED
    BY <1>1, <2>1, <2>2, <2>7 DEF e, l
<1>2. CASE ~Extends(acc, c)
  <2> DEFINE e == [class |-> c, len |-> 1]
  <2>1. e \in Segment
    BY DEF Segment
  <2>2. Grow(acc, c) = Append(acc, e)
    BY <1>2 DEF Grow
  <2> HIDE DEF e
  <2>3. Total(Segment, w, Append(acc, e)) = Total(Segment, w, acc) + w[e]
    BY <2>1, TotalSteps
  <2> QED
    BY <1>2, <2>1, <2>2, <2>3 DEF e
<1> QED
  BY <1>1, <1>2

\* A character adds one to the length of the segments, and to the length of
\* those that are seen if it is seen.
LEMMA GrowMeasures ==
  ASSUME NEW acc \in Seq(Segment), NEW c \in Characters
  PROVE  /\ Total(Segment, ByLength, Grow(acc, c)) = Total(Segment, ByLength, acc) + 1
         /\ Total(Segment, BySeen, Grow(acc, c))
              = IF c \in Seen THEN Total(Segment, BySeen, acc) + 1 ELSE Total(Segment, BySeen, acc)
         /\ Total(Segment, ByWords, Grow(acc, c))
              = IF c \in Seen /\ ~Extends(acc, c)
                THEN Total(Segment, ByWords, acc) + 1 ELSE Total(Segment, ByWords, acc)
<1> DEFINE l == Last(acc)
           longer == [class |-> c, len |-> l.len + 1]
           single == [class |-> c, len |-> 1]
           T(w, s) == Total(Segment, w, s)
           grown == Grow(acc, c)
<1>1. \A w \in [Segment -> Nat] : T(w, acc) \in Nat /\ T(w, grown) \in Nat
  BY GrowType, TotalSteps
<1>2. \A w \in [Segment -> Nat] :
        \/ /\ Extends(acc, c) /\ l \in Segment /\ l.class = c /\ longer \in Segment
           /\ T(w, grown) + w[l] = T(w, acc) + w[longer]
        \/ /\ ~Extends(acc, c) /\ single \in Segment
           /\ T(w, grown) = T(w, acc) + w[single]
  BY GrowTotals
<1>3. ByLength \in [Segment -> Nat] /\ BySeen \in [Segment -> Nat] /\ ByWords \in [Segment -> Nat]
  BY MeasuresType
<1>4. longer.class = c /\ longer.len = l.len + 1 /\ single.class = c /\ single.len = 1
  OBVIOUS
<1>5. \A s \in Segment : /\ ByLength[s] = s.len /\ s.len \in Nat
                         /\ BySeen[s] = IF s.class \in Seen THEN s.len ELSE 0
                         /\ ByWords[s] = IF s.class \in Seen THEN 1 ELSE 0
  BY DEF ByLength, BySeen, ByWords, Segment
<1> HIDE DEF T, grown, l, longer, single
<1>6. CASE Extends(acc, c)
  <2>1. l \in Segment /\ l.class = c /\ longer \in Segment
    BY <1>2, <1>3, <1>6
  <2>2. c \in Seen
    BY <1>6 DEF Extends, Seen
  <2>3. /\ T(ByLength, grown) + ByLength[l] = T(ByLength, acc) + ByLength[longer]
        /\ T(BySeen, grown) + BySeen[l] = T(BySeen, acc) + BySeen[longer]
        /\ T(ByWords, grown) + ByWords[l] = T(ByWords, acc) + ByWords[longer]
    BY <1>2, <1>3, <1>6
  <2>4. /\ ByLength[longer] = ByLength[l] + 1 /\ ByLength[l] \in Nat
        /\ BySeen[longer] = BySeen[l] + 1 /\ BySeen[l] \in Nat
        /\ ByWords[longer] = ByWords[l] /\ ByWords[l] \in Nat
    BY <1>4, <1>5, <2>1, <2>2
  <2>5. /\ T(ByLength, grown) \in Nat /\ T(ByLength, acc) \in Nat
        /\ T(BySeen, grown) \in Nat /\ T(BySeen, acc) \in Nat
        /\ T(ByWords, grown) \in Nat /\ T(ByWords, acc) \in Nat
    BY <1>1, <1>3
  <2>6. /\ T(ByLength, grown) = T(ByLength, acc) + 1
        /\ T(BySeen, grown) = T(BySeen, acc) + 1
        /\ T(ByWords, grown) = T(ByWords, acc)
    <3>0. \A p, q, r \in Nat : p + q = r + (q + 1) => p = r + 1
      OBVIOUS
    <3>1. T(ByLength, grown) = T(ByLength, acc) + 1
      <4>1. T(ByLength, grown) + ByLength[l] = T(ByLength, acc) + (ByLength[l] + 1)
        BY <2>3, <2>4
      <4> QED
        BY <2>4, <2>5, <3>0, <4>1
    <3>2. T(BySeen, grown) = T(BySeen, acc) + 1
      <4>1. T(BySeen, grown) + BySeen[l] = T(BySeen, acc) + (BySeen[l] + 1)
        BY <2>3, <2>4
      <4> QED
        BY <2>4, <2>5, <3>0, <4>1
    <3>3. T(ByWords, grown) = T(ByWords, acc)
      BY <2>3, <2>4, <2>5
    <3> QED
      BY <3>1, <3>2, <3>3
  <2> QED
    BY <1>6, <2>2, <2>6 DEF T, grown
<1>7. CASE ~Extends(acc, c)
  <2>1. single \in Segment
    BY <1>2, <1>3, <1>7
  <2>2. /\ T(ByLength, grown) = T(ByLength, acc) + ByLength[single]
        /\ T(BySeen, grown) = T(BySeen, acc) + BySeen[single]
        /\ T(ByWords, grown) = T(ByWords, acc) + ByWords[single]
    BY <1>2, <1>3, <1>7
  <2>3. /\ ByLength[single] = 1
        /\ BySeen[single] = IF c \in Seen THEN 1 ELSE 0
        /\ ByWords[single] = IF c \in Seen THEN 1 ELSE 0
    BY <1>4, <1>5, <2>1
  <2>4. T(ByLength, acc) \in Nat /\ T(BySeen, acc) \in Nat /\ T(ByWords, acc) \in Nat
    BY <1>1, <1>3
  <2> QED
    BY <1>7, <2>2, <2>3, <2>4 DEF T, grown
<1> QED
  BY <1>6, <1>7

\* The segments of a text have its length, and as much of it is seen.
LEMMA SegmentsMeasure ==
  ASSUME NEW t \in Seq(Characters)
  PROVE  /\ Total(Segment, ByLength, Segments(t)) = Len(t)
         /\ Total(Segment, BySeen, Segments(t)) = CountIn(t, Seen)
<1> DEFINE Fits(u) == /\ Total(Segment, ByLength, Segments(u)) = Len(u)
                      /\ Total(Segment, BySeen, Segments(u)) = CountIn(u, Seen)
           P == {u \in Seq(Characters) : Fits(u)}
<1>1. << >> \in P
  <2>1. Segments(<< >>) = << >> /\ Len(<< >>) = 0 /\ << >> \in Seq(Characters) /\ CountIn(<< >>, Seen) = 0
    BY SegmentsSteps, EmptySeq, CountOfEmpty
  <2>2. Total(Segment, ByLength, << >>) = 0 /\ Total(Segment, BySeen, << >>) = 0
    BY TotalSteps, MeasuresType
  <2>3. Fits(<< >>)
    BY <2>1, <2>2
  <2> QED
    BY <2>1, <2>3
<1>2. ASSUME NEW u \in Seq(Characters), NEW c \in Characters, u \in P
      PROVE  Append(u, c) \in P
  <2>1. Append(u, c) \in Seq(Characters) /\ Len(Append(u, c)) = Len(u) + 1
    BY AppendProperties
  <2>2. Segments(u) \in Seq(Segment) /\ Segments(Append(u, c)) = Grow(Segments(u), c)
    BY SegmentsSteps
  <2>3. CountIn(Append(u, c), Seen) = IF c \in Seen THEN CountIn(u, Seen) + 1 ELSE CountIn(u, Seen)
    BY CountOfAppend
  <2>4. /\ Total(Segment, ByLength, Grow(Segments(u), c)) = Total(Segment, ByLength, Segments(u)) + 1
        /\ Total(Segment, BySeen, Grow(Segments(u), c))
             = IF c \in Seen THEN Total(Segment, BySeen, Segments(u)) + 1 ELSE Total(Segment, BySeen, Segments(u))
    BY <2>2, GrowMeasures
  <2>5. Fits(u)
    BY <1>2
  <2>6. Fits(Append(u, c))
    BY <2>1, <2>2, <2>3, <2>4, <2>5
  <2> HIDE DEF Fits
  <2> QED
    BY <2>1, <2>6
<1>3. Seq(Characters) \subseteq P
  <2> HIDE DEF P
  <2> QED
    BY <1>1, <1>2, SeqInduction
<1>4. Fits(t)
  <2> HIDE DEF Fits
  <2> QED
    BY <1>3
<1> QED
  BY <1>4

\* Where the words of a text start.
Starts(t) == {i \in DOMAIN t : t[i] # "space" /\ (i = 1 \/ t[i - 1] = "space")}

\* None in an empty text.
LEMMA StartsOfEmpty == Starts(<< >>) = {}
BY DEF Starts

\* There are no more of them than characters.
LEMMA StartsType ==
  ASSUME NEW S, NEW t \in Seq(S)
  PROVE  /\ IsFiniteSet(Starts(t)) /\ Cardinality(Starts(t)) \in Nat
         /\ Cardinality(Starts(t)) <= Len(t)
<1> DEFINE D == 1 .. Len(t)
<1>1. Len(t) \in Nat /\ DOMAIN t = D
  BY LenProperties
<1>2. Starts(t) \in SUBSET D
  BY <1>1 DEF Starts
<1>3. IsFiniteSet(D) /\ Cardinality(D) = Len(t)
  BY <1>1, FS_Interval
<1> HIDE DEF D
<1>4. IsFiniteSet(Starts(t)) /\ Cardinality(Starts(t)) <= Cardinality(D)
  BY <1>2, <1>3, FS_Subset
<1> QED
  BY <1>3, <1>4, FS_CardinalityType

\* A character starts a word after a space and at the beginning.
LEMMA StartsOfAppend ==
  ASSUME NEW S, NEW t \in Seq(S), NEW c \in S
  PROVE  Cardinality(Starts(Append(t, c))) =
           IF c # "space" /\ (t = << >> \/ Last(t) = "space")
           THEN Cardinality(Starts(t)) + 1 ELSE Cardinality(Starts(t))
<1> DEFINE u == Append(t, c)
           n == Len(t)
           new == c # "space" /\ (t = << >> \/ Last(t) = "space")
<1>1. n \in Nat /\ DOMAIN t = 1 .. n /\ (t = << >> <=> n = 0) /\ Last(t) = t[n]
  BY LenProperties, EmptySeq DEF Last
<1>2. u \in Seq(S) /\ Len(u) = n + 1 /\ u[n + 1] = c /\ \A i \in 1 .. n : u[i] = t[i]
  BY AppendProperties
<1>3. DOMAIN u = 1 .. n + 1
  BY <1>2, LenProperties
<1>4. IsFiniteSet(Starts(t))
  BY StartsType
<1> HIDE DEF u, n
<1>5. \A i \in 1 .. n : i \in Starts(u) <=> i \in Starts(t)
  <2>1. ASSUME NEW i \in 1 .. n
        PROVE  i \in Starts(u) <=> i \in Starts(t)
    <3>1. i = 1 \/ i - 1 \in 1 .. n
      BY <1>1
    <3>2. u[i] = t[i] /\ (i = 1 \/ u[i - 1] = t[i - 1])
      BY <1>2, <3>1
    <3>3. i \in DOMAIN t /\ i \in DOMAIN u
      BY <1>1, <1>3
    <3> QED
      BY <3>2, <3>3 DEF Starts
  <2> QED
    BY <2>1
<1>6. n + 1 \in Starts(u) <=> new
  <2>1. n + 1 \in DOMAIN u /\ (n + 1) - 1 = n /\ (n + 1 = 1 <=> n = 0)
    BY <1>1, <1>3
  <2>2. CASE n = 0
    BY <1>1, <1>2, <2>1, <2>2 DEF Starts
  <2>3. CASE n # 0
    <3>1. n \in 1 .. n
      BY <1>1, <2>3
    <3>2. u[n] = Last(t) /\ t # << >>
      BY <1>1, <1>2, <2>3, <3>1
    <3> QED
      BY <1>2, <2>1, <2>3, <3>2 DEF Starts
  <2> QED
    BY <2>2, <2>3
<1> HIDE DEF new
<1>7. Starts(u) = IF new THEN Starts(t) \cup {n + 1} ELSE Starts(t)
  <2>1. Starts(u) \subseteq 1 .. n + 1 /\ Starts(t) \subseteq 1 .. n
    BY <1>1, <1>3 DEF Starts
  <2>2. 1 .. n + 1 = (1 .. n) \cup {n + 1}
    BY <1>1
  <2>3. \A i : i \in 1 .. n + 1 <=> i \in 1 .. n \/ i = n + 1
    BY <2>2
  <2>4. CASE new
    <3>1. \A i : i \in Starts(u) <=> i \in Starts(t) \/ i = n + 1
      BY <1>5, <1>6, <2>1, <2>3, <2>4
    <3> QED
      BY <2>4, <3>1
  <2>5. CASE ~new
    <3>1. \A i : i \in Starts(u) <=> i \in Starts(t)
      BY <1>5, <1>6, <2>1, <2>3, <2>5
    <3> QED
      BY <2>5, <3>1
  <2> QED
    BY <2>4, <2>5
<1>8. n + 1 \notin Starts(t)
  BY <1>1 DEF Starts
<1>9. Cardinality(Starts(t) \cup {n + 1}) = Cardinality(Starts(t)) + 1
  BY <1>4, <1>8, FS_AddElement
<1>10. Cardinality(Starts(u)) = IF new THEN Cardinality(Starts(t)) + 1 ELSE Cardinality(Starts(t))
  BY <1>7, <1>9
<1> QED
  BY <1>10 DEF u, new

\* Without letters of other alphabets a word starts no more often than a
\* segment that is seen.
Visible == Seen \cup {"space"}

\* Every start of a word begins a segment.
LEMMA WordsOfSegments ==
  ASSUME NEW t \in Seq(Visible)
  PROVE  Cardinality(Starts(t)) <= Total(Segment, ByWords, Segments(t))
<1> DEFINE W(u) == Total(Segment, ByWords, Segments(u))
           Fits(u) == /\ Cardinality(Starts(u)) <= W(u)
                      /\ u # << >> => Segments(u) # << >> /\ Last(Segments(u)).class = Last(u)
           P == {u \in Seq(Visible) : Fits(u)}
<1>0. Visible \subseteq Characters
  BY DEF Visible, Seen, Characters
<1>1. << >> \in P
  <2>1. Segments(<< >>) = << >> /\ << >> \in Seq(Visible) /\ Cardinality(Starts(<< >>)) = 0
    BY SegmentsSteps, EmptySeq, StartsOfEmpty, FS_EmptySet
  <2>2. Total(Segment, ByWords, << >>) = 0
    BY TotalSteps, MeasuresType
  <2>3. Fits(<< >>)
    BY <2>1, <2>2
  <2> QED
    BY <2>1, <2>3
<1>2. ASSUME NEW u \in Seq(Visible), NEW c \in Visible, u \in P
      PROVE  Append(u, c) \in P
  <2> DEFINE g == Segments(u)
  <2>1. u \in Seq(Characters) /\ c \in Characters
    BY <1>0, SeqMonotonic
  <2>2. Append(u, c) \in Seq(Visible) /\ Append(u, c) # << >>
    BY AppendProperties
  <2>3. g \in Seq(Segment) /\ Segments(Append(u, c)) = Grow(g, c)
    BY <2>1, SegmentsSteps
  <2>4. Last(Append(u, c)) = c
    BY FrontOfAppend
  <2>5. Fits(u)
    BY <1>2
  <2>6. Cardinality(Starts(Append(u, c))) =
           IF c # "space" /\ (u = << >> \/ Last(u) = "space")
           THEN Cardinality(Starts(u)) + 1 ELSE Cardinality(Starts(u))
    BY StartsOfAppend
  <2>7. Total(Segment, ByWords, Grow(g, c)) =
          IF c \in Seen /\ ~Extends(g, c)
          THEN Total(Segment, ByWords, g) + 1 ELSE Total(Segment, ByWords, g)
    BY <2>1, <2>3, GrowMeasures
  <2>8. Grow(g, c) # << >> /\ Last(Grow(g, c)).class = c
    BY <2>1, <2>3, GrowType
  <2>9. Cardinality(Starts(u)) \in Nat /\ Total(Segment, ByWords, g) \in Nat
    BY <2>3, StartsType, TotalSteps, MeasuresType
  <2>10. c # "space" => c \in Seen
    BY DEF Visible
  <2>11. Extends(g, c) => u # << >> /\ c # "space" /\ Last(u) = c
    <3>1. ASSUME Extends(g, c)
          PROVE  u # << >>
      <4>1. g # << >>
        BY <3>1 DEF Extends
      <4> QED
        BY <4>1, SegmentsSteps
    <3>2. ASSUME Extends(g, c)
          PROVE  Last(g).class = c /\ c # "space"
      BY <3>2 DEF Extends
    <3> QED
      BY <2>5, <3>1, <3>2
  <2> HIDE DEF g
  <2>12. Cardinality(Starts(u)) <= Total(Segment, ByWords, g)
    BY <2>5 DEF g
  <2>13. Cardinality(Starts(Append(u, c))) <= Total(Segment, ByWords, Grow(g, c))
    <3>1. CASE Extends(g, c)
      <4>1. Cardinality(Starts(Append(u, c))) = Cardinality(Starts(u))
        BY <2>6, <2>11, <3>1
      <4> QED
        BY <2>7, <2>12, <3>1, <4>1
    <3>2. CASE ~Extends(g, c) /\ c # "space"
      <4>1. Total(Segment, ByWords, Grow(g, c)) = Total(Segment, ByWords, g) + 1
        BY <2>7, <2>10, <3>2
      <4> QED
        BY <2>6, <2>9, <2>12, <4>1
    <3>3. CASE c = "space"
      <4>1. c \notin Seen
        BY <3>3 DEF Seen
      <4> QED
        BY <2>6, <2>7, <2>12, <3>3, <4>1
    <3> QED
      BY <3>1, <3>2, <3>3
  <2>14. Fits(Append(u, c))
    BY <2>2, <2>3, <2>4, <2>8, <2>13
  <2> HIDE DEF Fits
  <2> QED
    BY <2>2, <2>14
<1>3. Seq(Visible) \subseteq P
  <2> HIDE DEF P
  <2> QED
    BY <1>1, <1>2, SeqInduction
<1>4. Fits(t)
  <2> HIDE DEF Fits
  <2> QED
    BY <1>3
<1> QED
  BY <1>4

Tokens(t) == FoldLeft(LAMBDA n, x : n + SegmentTokens(x), 0, t)

IsTokens(g, t) ==
  g = [s \in SUBSET DOMAIN t |-> IF s = {} THEN 0 ELSE g[Rest(s)] + SegmentTokens(t[Max(s)])]

\* The count of tokens is the value of a recursive function.
LEMMA TokensIsFold ==
  ASSUME NEW t
  PROVE  Tokens(t) = (CHOOSE g : IsTokens(g, t))[DOMAIN t]
BY DEF Tokens, FoldLeft, MapThenFoldSet, IsTokens, Rest

\* It is a total.
LEMMA TokensIsTotal ==
  ASSUME NEW t \in Seq(Segment)
  PROVE  Tokens(t) = Total(Segment, ByTokens, t)
<1> DEFINE C == Segment
           w == ByTokens
           F == TotalF(C, w)
<1>1. w \in [C -> Nat] /\ \A a \in Nat, c \in C : a + w[c] = a + SegmentTokens(c)
  BY MeasuresType DEF ByTokens
<1>2. t \in Seq(C)
  OBVIOUS
<1> HIDE DEF w, C
<1>3. /\ F \in [Nat \X C -> Nat] /\ 0 \in Nat
      /\ \A a \in Nat, c \in C : F[<<a, c>>] = a + SegmentTokens(c)
  <2>1. \A a \in Nat, c \in C : w[c] \in Nat /\ F[<<a, c>>] = a + w[c]
    BY <1>1 DEF TotalF
  <2>2. F \in [Nat \X C -> Nat]
    <3>1. w \in [C -> Nat]
      BY <1>1
    <3> QED
      BY <3>1 DEF TotalF
  <2> HIDE DEF F
  <2> QED
    BY <1>1, <2>1, <2>2
<1> HIDE DEF F
<1>4. \E g : IsTokens(g, t)
  <2>1. PICK g : Computes(g, Nat, C, F, 0, t)
    BY <1>2, <1>3, FoldSteps
  <2>2. \A s \in SUBSET DOMAIN t :
          g[s] = IF s = {} THEN 0 ELSE g[Rest(s)] + SegmentTokens(t[Max(s)])
    BY <1>3, <2>1 DEF Computes
  <2>3. IsTokens(g, t)
    BY <2>1, <2>2 DEF IsTokens, Computes
  <2> QED
    BY <2>3
<1> DEFINE h == CHOOSE g : IsTokens(g, t)
<1>5. IsTokens(h, t)
  BY <1>4
<1> HIDE DEF h
<1>6. ASSUME NEW s \in SUBSET DOMAIN t, s # {}, h[Rest(s)] \in Nat, t[Max(s)] \in C
      PROVE  h[s] = F[<<h[Rest(s)], t[Max(s)]>>]
  <2>1. h[s] = h[Rest(s)] + SegmentTokens(t[Max(s)])
    BY <1>5, <1>6 DEF IsTokens
  <2> QED
    BY <1>3, <1>6, <2>1
<1>7. h[{}] = 0
  BY <1>5 DEF IsTokens
<1>8. Follows(h, Nat, C, F, 0, t)
  BY <1>2, <1>3, <1>6, <1>7 DEF Follows
<1>9. h[DOMAIN t] = Fold(F, 0, t)
  BY <1>8, SameAsFold
<1> QED
  BY <1>9, TokensIsFold DEF h, F, C, w, Total

\* Between a quarter of the characters that are seen and all characters.
LEMMA TokensOfText ==
  ASSUME NEW t \in Seq(Characters)
  PROVE  /\ Tokens(Segments(t)) \in Nat /\ Tokens(Segments(t)) <= Len(t)
         /\ CountIn(t, Seen) <= 4 * Tokens(Segments(t))
         /\ t \in Seq(Visible) => Cardinality(Starts(t)) <= Tokens(Segments(t))
<1> DEFINE g == Segments(t)
<1>1. g \in Seq(Segment)
  BY SegmentsSteps
<1>2. Tokens(g) = Total(Segment, ByTokens, g)
  BY <1>1, TokensIsTotal
<1>3. /\ ByLength \in [Segment -> Nat] /\ BySeen \in [Segment -> Nat]
      /\ ByWords \in [Segment -> Nat] /\ ByTokens \in [Segment -> Nat]
  BY MeasuresType
<1>4. /\ \A s \in Segment : ByTokens[s] <= ByLength[s]
      /\ \A s \in Segment : BySeen[s] <= 4 * ByTokens[s]
      /\ \A s \in Segment : ByWords[s] <= ByTokens[s]
  <2> SUFFICES ASSUME NEW s \in Segment
               PROVE  /\ ByTokens[s] <= ByLength[s]
                      /\ BySeen[s] <= 4 * ByTokens[s]
                      /\ ByWords[s] <= ByTokens[s]
    OBVIOUS
  <2>1. /\ ByTokens[s] = SegmentTokens(s) /\ ByLength[s] = s.len
        /\ BySeen[s] = (IF s.class \in Seen THEN s.len ELSE 0)
        /\ ByWords[s] = (IF s.class \in Seen THEN 1 ELSE 0)
    BY DEF ByTokens, ByLength, BySeen, ByWords
  <2> QED
    BY <2>1, TokensOfSegment
<1>5. /\ Total(Segment, ByLength, g) = Len(t)
      /\ Total(Segment, BySeen, g) = CountIn(t, Seen)
  BY SegmentsMeasure
<1>6. t \in Seq(Visible) => Cardinality(Starts(t)) <= Total(Segment, ByWords, g)
  BY WordsOfSegments
<1> HIDE DEF g
<1>7. Total(Segment, ByTokens, g) \in Nat /\ Total(Segment, ByWords, g) \in Nat
  BY <1>1, <1>3, TotalSteps
<1>8. Total(Segment, ByTokens, g) <= Total(Segment, ByLength, g)
  BY <1>1, <1>3, <1>4, TotalsCompare
<1>9. Total(Segment, ByWords, g) <= Total(Segment, ByTokens, g)
  BY <1>1, <1>3, <1>4, TotalsCompare
<1>10. Total(Segment, BySeen, g) <= 4 * Total(Segment, ByTokens, g)
  BY <1>1, <1>3, <1>4, TotalsCompareFour
<1>11. t \in Seq(Visible) => Cardinality(Starts(t)) <= Tokens(g)
  <2>1. Cardinality(Starts(t)) \in Nat
    BY StartsType
  <2> QED
    BY <1>2, <1>6, <1>7, <1>9, <2>1
<1>12. Tokens(g) \in Nat /\ Tokens(g) <= Len(t) /\ CountIn(t, Seen) <= 4 * Tokens(g)
  BY <1>2, <1>5, <1>7, <1>8, <1>10
<1> QED
  BY <1>11, <1>12 DEF g

-----------------------------------------------------------------------------
(* What a text reserves                                                    *)

\* A text that is not blank reserves something, at least a token for every four
\* characters every profile sees, and no more than a token for every character.
LEMMA TokensOfSolid ==
  ASSUME NEW s \in Seq(Characters), s # << >>, NEW n \in {Qwen2Tokens(s), EstimatedTokens(s)}
  PROVE  n \in Nat /\ n > 0 /\ n <= Len(s) /\ CeilDiv(CountIn(s, Seen), 4) <= n
<1> DEFINE l == Len(s)
           seen == CountIn(s, Seen)
           tokens == Tokens(Segments(s))
           words == Cardinality(Starts(s))
<1>1. l \in Nat /\ l > 0
  BY EmptySeq
<1>2. seen \in Nat /\ seen <= l
  BY CountType
<1>3. tokens \in Nat /\ tokens <= l /\ seen <= 4 * tokens
  BY TokensOfText
<1>4. words \in Nat /\ words <= l
  BY StartsType
<1>5. Qwen2Tokens(s) = Larger(tokens, 1)
  BY DEF Qwen2Tokens, Tokens
<1>6. EstimatedTokens(s) = Larger(words, Larger(CeilDiv(l, 4), 1))
  BY DEF EstimatedTokens, Starts, TOKEN_ESTIMATE_CHARS_PER_TOKEN
<1> HIDE DEF l, seen, tokens, words
<1>7. CASE n = Qwen2Tokens(s)
  <2>1. n = Larger(tokens, 1)
    BY <1>5, <1>7
  <2>2. n \in Nat /\ n > 0 /\ n <= l /\ tokens <= n
    BY <1>1, <1>3, <2>1 DEF Larger
  <2>3. CeilDiv(seen, 4) <= n
    BY <1>2, <1>3, <2>2 DEF CeilDiv
  <2> QED
    BY <2>2, <2>3 DEF l, seen
<1>8. CASE n = EstimatedTokens(s)
  <2> DEFINE q == CeilDiv(l, 4)
  <2>1. q \in Nat /\ q <= l /\ CeilDiv(seen, 4) <= q
    BY <1>1, <1>2 DEF CeilDiv
  <2>2. n = Larger(words, Larger(q, 1))
    BY <1>6, <1>8
  <2> HIDE DEF q
  <2>3. n \in Nat /\ n > 0 /\ n <= l /\ q <= n
    BY <1>1, <1>4, <2>1, <2>2 DEF Larger
  <2>4. CeilDiv(seen, 4) \in Int
    BY <1>2 DEF CeilDiv
  <2>5. CeilDiv(seen, 4) <= n
    BY <2>1, <2>3, <2>4
  <2> QED
    BY <2>3, <2>5 DEF l, seen
<1> QED
  BY <1>7, <1>8

\* For every text and profile, whatever its name.
THEOREM TextReservesItsLength ==
  ASSUME NEW t \in Seq(Characters), NEW profile
  PROVE  /\ ReservesItsLength(t, TextTokens(t, profile))
         /\ TextTokens(t, profile) \in Nat /\ TextTokens(t, profile) <= Len(t)
<1> DEFINE s == Strip(t)
           n == TextTokens(t, profile)
           shown == Cardinality({i \in DOMAIN t : t[i] # "space"})
           seen == Cardinality({i \in DOMAIN t : t[i] \notin {"space", "word"}})
<1>1. s \in Seq(Characters) /\ Len(s) <= Len(t) /\ CountIn(s, Seen) = CountIn(t, Seen)
  <2>1. "space" \notin Seen
    BY DEF Seen
  <2> QED
    BY <2>1, StripCounts
<1>2. seen = CountIn(t, Seen)
  <2>1. \A i \in DOMAIN t : t[i] \in Characters
    BY LenProperties
  <2>2. {i \in DOMAIN t : t[i] \notin {"space", "word"}} = {i \in DOMAIN t : t[i] \in Seen}
    BY <2>1 DEF Seen, Characters
  <2> QED
    BY <2>2 DEF CountIn
<1>3. Len(s) \in Nat /\ Len(t) \in Nat
  BY <1>1, LenProperties
<1>4. ReservesItsLength(t, n) <=> /\ CeilDiv(seen, 4) <= n /\ n <= Len(s) /\ (shown > 0 => n > 0)
  BY DEF ReservesItsLength, TOKEN_ESTIMATE_CHARS_PER_TOKEN
<1>5. CASE s = << >>
  <2>1. n = 0
    BY <1>5 DEF TextTokens
  <2>2. \A i \in DOMAIN t : t[i] = "space"
    <3>1. ASSUME NEW a \in 1 .. Len(t), NEW b \in a .. Len(t), Stripped(t, a, b)
          PROVE  FALSE
      <4>1. Len(s) = b - a + 1
        BY <3>1, StrippedElements
      <4>2. Len(s) = 0
        BY <1>5
      <4> QED
        BY <1>3, <4>1, <4>2
    <3> QED
      BY <3>1, StripShape
  <2>3. shown = 0
    <3>1. {i \in DOMAIN t : t[i] # "space"} = {}
      BY <2>2
    <3> QED
      BY <3>1, FS_EmptySet
  <2>4. CountIn(t, Seen) = 0
    BY <1>1, <1>5, CountOfEmpty
  <2>5. CeilDiv(0, 4) = 0 /\ Len(s) = 0
    BY <1>5 DEF CeilDiv
  <2> HIDE DEF n, s, shown, seen
  <2> QED
    BY <1>2, <1>3, <1>4, <2>1, <2>3, <2>4, <2>5 DEF n
<1>6. CASE s # << >>
  <2>1. n \in {Qwen2Tokens(s), EstimatedTokens(s)}
    BY <1>6 DEF TextTokens
  <2> HIDE DEF n, s, shown, seen
  <2>2. n \in Nat /\ n > 0 /\ n <= Len(s) /\ CeilDiv(CountIn(s, Seen), 4) <= n
    BY <1>1, <1>6, <2>1, TokensOfSolid
  <2>3. n <= Len(t)
    BY <1>1, <1>3, <2>2
  <2> QED
    BY <1>1, <1>2, <1>4, <2>2, <2>3 DEF n
<1> QED
  BY <1>5, <1>6

\* For every text, what two backends with different profiles would reserve.
THEOREM ProfilesAgreeOnText ==
  ASSUME NEW t \in Seq(Characters)
  PROVE  ProfilesAgree(t)
<1> DEFINE s == Strip(t)
           estimated == TextTokens(t, "estimated")
           qwen2 == TextTokens(t, "qwen2")
           spaces == CountIn(t, {"space"})
<1>1. SUFFICES ASSUME "word" \notin ToSet(t)
               PROVE  qwen2 <= 4 * estimated /\ estimated <= qwen2 + CeilDiv(spaces, 4)
  <2>1. Cardinality({i \in DOMAIN t : t[i] = "space"}) = spaces
    <3>1. {i \in DOMAIN t : t[i] = "space"} = {i \in DOMAIN t : t[i] \in {"space"}}
      OBVIOUS
    <3> QED
      BY <3>1 DEF CountIn
  <2> HIDE DEF spaces, estimated, qwen2
  <2> QED
    BY <1>1, <2>1 DEF ProfilesAgree, TOKEN_ESTIMATE_CHARS_PER_TOKEN, estimated, qwen2
<1>2. t \in Seq(Visible)
  <2>1. Len(t) \in Nat /\ t \in [1 .. Len(t) -> Characters] /\ DOMAIN t = 1 .. Len(t)
    BY LenProperties
  <2>2. \A i \in 1 .. Len(t) : t[i] \in Visible
    <3>1. \A i \in DOMAIN t : t[i] # "word"
      BY <1>1 DEF ToSet
    <3> QED
      BY <2>1, <3>1 DEF Visible, Seen, Characters
  <2>3. t \in [1 .. Len(t) -> Visible]
    BY <2>1, <2>2
  <2>4. \A S : Seq(S) = UNION {[1 .. n -> S] : n \in Nat}
    BY SeqDef
  <2> QED
    BY <2>1, <2>3, <2>4
<1>3. spaces \in Nat /\ CountIn(s, {"space"}) <= spaces /\ s \in Seq(Visible)
  BY <1>2, CountType, StripCounts
<1>4. CASE s = << >>
  <2>1. qwen2 = 0 /\ estimated = 0
    BY <1>4 DEF TextTokens
  <2>2. CeilDiv(spaces, 4) >= 0
    BY <1>3 DEF CeilDiv
  <2> HIDE DEF qwen2, estimated, spaces
  <2>3. CeilDiv(spaces, 4) \in Int
    BY <1>3 DEF CeilDiv
  <2> QED
    BY <2>1, <2>2, <2>3
<1>5. CASE s # << >>
  <2> DEFINE l == Len(s)
             seen == CountIn(s, Seen)
             kept == CountIn(s, {"space"})
             tokens == Tokens(Segments(s))
             words == Cardinality(Starts(s))
  <2>1. estimated = Larger(words, Larger(CeilDiv(l, 4), 1))
    BY <1>5 DEF TextTokens, EstimatedTokens, Starts, TOKEN_ESTIMATE_CHARS_PER_TOKEN
  <2>2. qwen2 = Larger(tokens, 1)
    BY <1>5 DEF TextTokens, Qwen2Tokens, Tokens
  <2> HIDE DEF s, estimated, qwen2, spaces
  <2>3. s \in Seq(Characters)
    <3>1. Visible \subseteq Characters
      BY DEF Visible, Seen, Characters
    <3> QED
      BY <1>3, <3>1, SeqMonotonic
  <2>4. tokens \in Nat /\ tokens <= l /\ seen <= 4 * tokens /\ words <= tokens
    BY <1>3, <2>3, TokensOfText
  <2>5. seen + kept = l
    <3>1. Seen \cap {"space"} = {}
      BY DEF Seen
    <3>2. s \in Seq(Seen \cup {"space"})
      BY <1>3 DEF Visible
    <3> QED
      BY <3>1, <3>2, CountsAddUp
  <2>6. seen \in Nat /\ kept \in Nat /\ words \in Nat /\ kept <= spaces
    BY <1>3, <2>3, CountType, StartsType
  <2>7. l \in Nat /\ l > 0
    BY <1>5, <2>3, EmptySeq
  <2> HIDE DEF l, seen, kept, tokens, words
  <2> DEFINE q == CeilDiv(l, 4)
             r == CeilDiv(spaces, 4)
  <2>8. q \in Nat /\ r \in Nat /\ l <= 4 * q
    BY <1>3, <2>7 DEF CeilDiv
  <2>9. q <= tokens + r
    BY <1>3, <2>4, <2>5, <2>6, <2>7 DEF CeilDiv
  <2> HIDE DEF q, r
  <2>10. estimated = Larger(words, Larger(q, 1))
    BY <2>1 DEF q
  <2>11. qwen2 \in Nat /\ tokens <= qwen2 /\ qwen2 >= 1 /\ qwen2 <= l
    BY <2>2, <2>4, <2>7 DEF Larger
  <2>12. estimated \in Nat /\ q <= estimated
    BY <2>6, <2>8, <2>10 DEF Larger
  <2>13. qwen2 <= 4 * estimated
    BY <2>7, <2>8, <2>11, <2>12
  <2>14. estimated <= qwen2 + r
    BY <2>4, <2>6, <2>8, <2>9, <2>10, <2>11 DEF Larger
  <2> QED
    BY <2>13, <2>14 DEF r
<1> QED
  BY <1>4, <1>5

\* For every text, whatever the names of the models and the entries of the
\* settings: without a tokenizer file that can be loaded, the count is that of
\* a profile.
THEOREM CountReservesItsLength ==
  ASSUME NEW t \in Seq(Characters), NEW exact, NEW paths, NEW profiles, NEW IsQwen,
         NEW client, NEW backend
  PROVE  LET n == CountText(t, exact, paths, {}, profiles, IsQwen, client, backend)
         IN ReservesItsLength(t, n) /\ n \in Nat
<1> DEFINE profile == ResolveProfile(profiles, IsQwen, client, backend)
           n == CountText(t, exact, paths, {}, profiles, IsQwen, client, backend)
<1>1. n = TextTokens(t, profile)
  BY DEF CountText, Loaded
<1> HIDE DEF n, profile
<1>2. ReservesItsLength(t, TextTokens(t, profile)) /\ TextTokens(t, profile) \in Nat
  BY TextReservesItsLength
<1>3. ReservesItsLength(t, n) /\ n \in Nat
  BY <1>1, <1>2
<1> QED
  BY <1>3 DEF n

-----------------------------------------------------------------------------
(* What a request reserves                                                 *)

CostOfCount == [c \in Nat |-> CHAT_MESSAGE_OVERHEAD_TOKENS + c]
LengthOfText == [u \in Seq(Characters) |-> Len(u)]

\* The costs of the messages, as ChatCost adds them up.
Costs(t) == FoldLeft(LAMBDA n, x : n + CHAT_MESSAGE_OVERHEAD_TOKENS + x, 0, t)

IsCosts(g, t) ==
  g = [s \in SUBSET DOMAIN t |-> IF s = {} THEN 0 ELSE g[Rest(s)] + CHAT_MESSAGE_OVERHEAD_TOKENS + t[Max(s)]]

\* The sum of the costs is the value of a recursive function.
LEMMA CostsIsFold ==
  ASSUME NEW t
  PROVE  Costs(t) = (CHOOSE g : IsCosts(g, t))[DOMAIN t]
BY DEF Costs, FoldLeft, MapThenFoldSet, IsCosts, Rest

\* It is a total.
LEMMA CostsIsTotal ==
  ASSUME NEW t \in Seq(Nat)
  PROVE  Costs(t) = Total(Nat, CostOfCount, t)
<1> DEFINE C == Nat
           w == CostOfCount
           F == TotalF(C, w)
<1>1. w \in [C -> Nat] /\ \A a \in Nat, c \in C : a + w[c] = a + CHAT_MESSAGE_OVERHEAD_TOKENS + c
  BY DEF CostOfCount, CHAT_MESSAGE_OVERHEAD_TOKENS
<1>2. t \in Seq(C)
  OBVIOUS
<1> HIDE DEF w, C
<1>3. /\ F \in [Nat \X C -> Nat] /\ 0 \in Nat
      /\ \A a \in Nat, c \in C : F[<<a, c>>] = a + CHAT_MESSAGE_OVERHEAD_TOKENS + c
  <2>1. \A a \in Nat, c \in C : w[c] \in Nat /\ F[<<a, c>>] = a + w[c]
    BY <1>1 DEF TotalF
  <2>2. F \in [Nat \X C -> Nat]
    <3>1. w \in [C -> Nat]
      BY <1>1
    <3> QED
      BY <3>1 DEF TotalF
  <2> HIDE DEF F
  <2> QED
    BY <1>1, <2>1, <2>2
<1> HIDE DEF F
<1>4. \E g : IsCosts(g, t)
  <2>1. PICK g : Computes(g, Nat, C, F, 0, t)
    BY <1>2, <1>3, FoldSteps
  <2>2. \A s \in SUBSET DOMAIN t :
          g[s] = IF s = {} THEN 0 ELSE g[Rest(s)] + CHAT_MESSAGE_OVERHEAD_TOKENS + t[Max(s)]
    BY <1>3, <2>1 DEF Computes
  <2>3. IsCosts(g, t)
    BY <2>1, <2>2 DEF IsCosts, Computes
  <2> QED
    BY <2>3
<1> DEFINE h == CHOOSE g : IsCosts(g, t)
<1>5. IsCosts(h, t)
  BY <1>4
<1> HIDE DEF h
<1>6. ASSUME NEW s \in SUBSET DOMAIN t, s # {}, h[Rest(s)] \in Nat, t[Max(s)] \in C
      PROVE  h[s] = F[<<h[Rest(s)], t[Max(s)]>>]
  <2>1. h[s] = h[Rest(s)] + CHAT_MESSAGE_OVERHEAD_TOKENS + t[Max(s)]
    BY <1>5, <1>6 DEF IsCosts
  <2> QED
    BY <1>3, <1>6, <2>1
<1>7. h[{}] = 0
  BY <1>5 DEF IsCosts
<1>8. Follows(h, Nat, C, F, 0, t)
  BY <1>2, <1>3, <1>6, <1>7 DEF Follows
<1>9. h[DOMAIN t] = Fold(F, 0, t)
  BY <1>8, SameAsFold
<1> QED
  BY <1>9, CostsIsFold DEF h, F, C, w, Total

IsCharsOf(g, t) ==
  g = [s \in SUBSET DOMAIN t |-> IF s = {} THEN 0 ELSE g[Rest(s)] + Len(t[Max(s)])]

\* The number of characters is the value of a recursive function.
LEMMA CharsOfIsFold ==
  ASSUME NEW t
  PROVE  CharsOf(t) = (CHOOSE g : IsCharsOf(g, t))[DOMAIN t]
BY DEF CharsOf, FoldLeft, MapThenFoldSet, IsCharsOf, Rest

\* It is a total.
LEMMA CharsOfIsTotal ==
  ASSUME NEW t \in Seq(Seq(Characters))
  PROVE  CharsOf(t) = Total(Seq(Characters), LengthOfText, t)
<1> DEFINE C == Seq(Characters)
           w == LengthOfText
           F == TotalF(C, w)
<1>1. w \in [C -> Nat] /\ \A a \in Nat, c \in C : a + w[c] = a + Len(c)
  BY LenProperties DEF LengthOfText
<1>2. t \in Seq(C)
  OBVIOUS
<1> HIDE DEF w, C
<1>3. /\ F \in [Nat \X C -> Nat] /\ 0 \in Nat
      /\ \A a \in Nat, c \in C : F[<<a, c>>] = a + Len(c)
  <2>1. \A a \in Nat, c \in C : w[c] \in Nat /\ F[<<a, c>>] = a + w[c]
    BY <1>1 DEF TotalF
  <2>2. F \in [Nat \X C -> Nat]
    <3>1. w \in [C -> Nat]
      BY <1>1
    <3> QED
      BY <3>1 DEF TotalF
  <2> HIDE DEF F
  <2> QED
    BY <1>1, <2>1, <2>2
<1> HIDE DEF F
<1>4. \E g : IsCharsOf(g, t)
  <2>1. PICK g : Computes(g, Nat, C, F, 0, t)
    BY <1>2, <1>3, FoldSteps
  <2>2. \A s \in SUBSET DOMAIN t :
          g[s] = IF s = {} THEN 0 ELSE g[Rest(s)] + Len(t[Max(s)])
    BY <1>3, <2>1 DEF Computes
  <2>3. IsCharsOf(g, t)
    BY <2>1, <2>2 DEF IsCharsOf, Computes
  <2> QED
    BY <2>3
<1> DEFINE h == CHOOSE g : IsCharsOf(g, t)
<1>5. IsCharsOf(h, t)
  BY <1>4
<1> HIDE DEF h
<1>6. ASSUME NEW s \in SUBSET DOMAIN t, s # {}, h[Rest(s)] \in Nat, t[Max(s)] \in C
      PROVE  h[s] = F[<<h[Rest(s)], t[Max(s)]>>]
  <2>1. h[s] = h[Rest(s)] + Len(t[Max(s)])
    BY <1>5, <1>6 DEF IsCharsOf
  <2> QED
    BY <1>3, <1>6, <2>1
<1>7. h[{}] = 0
  BY <1>5 DEF IsCharsOf
<1>8. Follows(h, Nat, C, F, 0, t)
  BY <1>2, <1>3, <1>6, <1>7 DEF Follows
<1>9. h[DOMAIN t] = Fold(F, 0, t)
  BY <1>8, SameAsFold
<1> QED
  BY <1>9, CharsOfIsFold DEF h, F, C, w, Total

Counts(m, profile) == [i \in DOMAIN m |-> TextTokens(m[i], profile)]

\* The counts of a message more.
LEMMA CountsSteps ==
  ASSUME NEW profile
  PROVE  /\ Counts(<< >>, profile) = << >>
         /\ \A m \in Seq(Seq(Characters)) : Counts(m, profile) \in Seq(Nat)
         /\ \A m \in Seq(Seq(Characters)), u \in Seq(Characters) :
              Counts(Append(m, u), profile) = Append(Counts(m, profile), TextTokens(u, profile))
<1> DEFINE T == Seq(Characters)
           N(u) == TextTokens(u, profile)
<1>1. Counts(<< >>, profile) = << >>
  BY DEF Counts
<1>2. \A u \in T : N(u) \in Nat
  BY TextReservesItsLength
<1> HIDE DEF N, T
<1>3. ASSUME NEW m \in Seq(T)
      PROVE  /\ Counts(m, profile) \in Seq(Nat) /\ Len(Counts(m, profile)) = Len(m)
             /\ \A i \in 1 .. Len(m) : Counts(m, profile)[i] = N(m[i])
  <2>1. DOMAIN m = 1 .. Len(m) /\ Len(m) \in Nat /\ \A i \in 1 .. Len(m) : m[i] \in T
    BY LenProperties
  <2>2. Counts(m, profile) = [i \in 1 .. Len(m) |-> N(m[i])]
    BY <2>1 DEF Counts, N
  <2> QED
    BY <1>2, <2>1, <2>2
<1>4. ASSUME NEW m \in Seq(T), NEW u \in T
      PROVE  Counts(Append(m, u), profile) = Append(Counts(m, profile), N(u))
  <2> DEFINE n == Len(m)
             v == Append(m, u)
             a == Counts(v, profile)
             k == Counts(m, profile)
             b == Append(k, N(u))
  <2>1. v \in Seq(T) /\ Len(v) = n + 1 /\ n \in Nat
        /\ v[n + 1] = u /\ \A i \in 1 .. n : v[i] = m[i]
    BY AppendProperties, LenProperties
  <2>2. a \in Seq(Nat) /\ Len(a) = n + 1 /\ \A i \in 1 .. n + 1 : a[i] = N(v[i])
    <3> HIDE DEF v, n
    <3> QED
      BY <1>3, <2>1
  <2>3. k \in Seq(Nat) /\ Len(k) = n /\ \A i \in 1 .. n : k[i] = N(m[i])
    BY <1>3
  <2>4. N(u) \in Nat
    BY <1>2
  <2> HIDE DEF v, n, a, k
  <2>5. b \in Seq(Nat) /\ Len(b) = n + 1 /\ b[n + 1] = N(u) /\ \A i \in 1 .. n : b[i] = k[i]
    BY <2>3, <2>4, AppendProperties
  <2> HIDE DEF b
  <2>6. \A i \in 1 .. n + 1 : i \in 1 .. n \/ i = n + 1
    BY <2>1
  <2>7. \A i \in 1 .. n + 1 : a[i] = b[i]
    <3> SUFFICES ASSUME NEW i \in 1 .. n + 1 PROVE a[i] = b[i]
      OBVIOUS
    <3>1. a[i] = N(v[i])
      BY <2>2
    <3> HIDE DEF N
    <3>2. CASE i \in 1 .. n
      BY <2>1, <2>3, <2>5, <3>1, <3>2
    <3>3. CASE i = n + 1
      BY <2>1, <2>5, <3>1, <3>3
    <3> QED
      BY <2>6, <3>2, <3>3
  <2>8. a = b
    BY <2>2, <2>5, <2>7, SeqEqual
  <2> QED
    BY <2>8 DEF a, b, v, k
<1> QED
  BY <1>1, <1>3, <1>4 DEF N, T

\* A message costs its overhead and no more than a token for every character.
LEMMA CostsBounded ==
  ASSUME NEW m \in Seq(Seq(Characters)), NEW profile
  PROVE  /\ Costs(Counts(m, profile)) \in Nat /\ CharsOf(m) \in Nat
         /\ 4 * Len(m) <= Costs(Counts(m, profile))
         /\ Costs(Counts(m, profile)) <= 4 * Len(m) + CharsOf(m)
<1> DEFINE T == Seq(Characters)
           X(u) == Costs(Counts(u, profile))
           Fits(u) == /\ X(u) \in Nat /\ CharsOf(u) \in Nat
                      /\ 4 * Len(u) <= X(u) /\ X(u) <= 4 * Len(u) + CharsOf(u)
           P == {u \in Seq(T) : Fits(u)}
<1>0. CostOfCount \in [Nat -> Nat] /\ LengthOfText \in [T -> Nat]
  BY LenProperties DEF CostOfCount, LengthOfText, CHAT_MESSAGE_OVERHEAD_TOKENS
<1>1. (\A c \in Nat : CostOfCount[c] = 4 + c) /\ (\A e \in T : LengthOfText[e] = Len(e))
  BY LenProperties DEF CostOfCount, LengthOfText, CHAT_MESSAGE_OVERHEAD_TOKENS
<1>2. << >> \in P
  <2>1. << >> \in Seq(T) /\ << >> \in Seq(Nat) /\ Len(<< >>) = 0
    BY EmptySeq
  <2>2. Counts(<< >>, profile) = << >>
    BY CountsSteps
  <2>3. Costs(<< >>) = Total(Nat, CostOfCount, << >>) /\ CharsOf(<< >>) = Total(T, LengthOfText, << >>)
    BY <2>1, CostsIsTotal, CharsOfIsTotal
  <2>4. Total(Nat, CostOfCount, << >>) = 0
    BY <1>0, TotalSteps
  <2> HIDE DEF T
  <2>5. Total(T, LengthOfText, << >>) = 0
    BY <1>0, TotalSteps
  <2>6. Fits(<< >>)
    BY <2>1, <2>2, <2>3, <2>4, <2>5
  <2> QED
    BY <2>1, <2>6
<1>3. ASSUME NEW u \in Seq(T), NEW e \in T, u \in P
      PROVE  Append(u, e) \in P
  <2> DEFINE n == TextTokens(e, profile)
             k == Counts(u, profile)
             v == Append(u, e)
  <2>1. n \in Nat /\ n <= Len(e) /\ Len(e) \in Nat
    BY TextReservesItsLength, LenProperties
  <2>2. k \in Seq(Nat) /\ Counts(v, profile) = Append(k, n)
    BY CountsSteps
  <2>3. v \in Seq(T) /\ Len(v) = Len(u) + 1 /\ Len(u) \in Nat
    BY AppendProperties, LenProperties
  <2>4. CharsOf(u) = Total(T, LengthOfText, u) /\ CharsOf(v) = Total(T, LengthOfText, v)
    BY <2>3, CharsOfIsTotal
  <2> HIDE DEF n, k, T
  <2>5. Total(T, LengthOfText, v) = Total(T, LengthOfText, u) + Len(e)
    <3>1. Total(T, LengthOfText, Append(u, e)) = Total(T, LengthOfText, u) + LengthOfText[e]
      BY <1>0, TotalSteps
    <3> QED
      BY <1>1, <3>1
  <2>6. Append(k, n) \in Seq(Nat)
    BY <2>1, <2>2, AppendProperties
  <2>7. Costs(k) = Total(Nat, CostOfCount, k) /\ Costs(Append(k, n)) = Total(Nat, CostOfCount, Append(k, n))
    BY <2>2, <2>6, CostsIsTotal
  <2>8. Total(Nat, CostOfCount, Append(k, n)) = Total(Nat, CostOfCount, k) + (4 + n)
    <3>1. Total(Nat, CostOfCount, Append(k, n)) = Total(Nat, CostOfCount, k) + CostOfCount[n]
      BY <1>0, <2>1, <2>2, TotalSteps
    <3> QED
      BY <1>1, <2>1, <3>1
  <2> HIDE DEF v
  <2>9. X(v) = X(u) + (4 + n)
    BY <2>2, <2>7, <2>8 DEF k
  <2>10. CharsOf(v) = CharsOf(u) + Len(e)
    BY <2>4, <2>5
  <2>11. Fits(u)
    BY <1>3
  <2>12. X(u) \in Nat /\ CharsOf(u) \in Nat /\ 4 * Len(u) <= X(u) /\ X(u) <= 4 * Len(u) + CharsOf(u)
    BY <2>11
  <2> HIDE DEF X
  <2>13. X(v) \in Nat /\ CharsOf(v) \in Nat
    BY <2>1, <2>9, <2>10, <2>12
  <2>14. 4 * Len(v) <= X(v)
    BY <2>1, <2>3, <2>9, <2>12
  <2>15. X(v) <= 4 * Len(v) + CharsOf(v)
    BY <2>1, <2>3, <2>9, <2>10, <2>12
  <2>16. Fits(v)
    BY <2>13, <2>14, <2>15
  <2> HIDE DEF Fits
  <2> QED
    BY <2>3, <2>16 DEF v
<1>4. Seq(T) \subseteq P
  <2> HIDE DEF P, T
  <2> QED
    BY <1>2, <1>3, SeqInduction
<1>5. Fits(m)
  <2> HIDE DEF Fits
  <2> QED
    BY <1>4
<1> QED
  BY <1>5

\* What passes the checks has passed the schema and the limits.
LEMMA AcceptedRequest ==
  ASSUME NEW req, NEW limits, Admit(req, limits) = Accepted
  PROVE  /\ ~TooLarge(req, limits) /\ req.body \notin {"unreadable", "no_json"}
         /\ RequireApiKey(req.authorization, limits.api_keys) \notin {"raises", "no"}
         /\ SchemaAccepts(req) /\ LimitExceeded(req.messages, limits) = "none"
<1>1. Admit(req, limits).status = 0
  BY DEF Accepted
<1>2. \A status, code : Refused(status, code).status = status
  BY DEF Refused
<1> QED
  BY <1>1, <1>2 DEF Admit

\* For every request of messages and every limits: what is accepted reserves
\* its overhead and its completion budget, and no more than the limits allow.
THEOREM AcceptedCostIsBounded ==
  ASSUME NEW req, req.messages \in Seq(Seq(Characters)), req.max_tokens \in Int,
         NEW limits, limits.max_chat_messages \in Int,
         limits.max_chat_total_message_chars \in Int,
         limits.rate_limit_default_completion_tokens \in Nat \ {0}
  PROVE  AcceptedCostBounded(req, limits)
<1> SUFFICES ASSUME Admit(req, limits) = Accepted, NEW profile \in {"estimated", "qwen2"}
             PROVE  LET m == req.messages
                        budget == CompletionBudget(req, limits)
                        cost == ChatCost([i \in DOMAIN m |-> TextTokens(m[i], profile)], budget)
                    IN /\ budget > 0
                       /\ cost >= budget + 2 + 4
                       /\ cost <= budget + 2 + 4 * limits.max_chat_messages
                                  + limits.max_chat_total_message_chars
  BY DEF AcceptedCostBounded, CHAT_REQUEST_OVERHEAD_TOKENS, CHAT_MESSAGE_OVERHEAD_TOKENS
<1> DEFINE m == req.messages
           budget == CompletionBudget(req, limits)
           sum == Costs(Counts(m, profile))
           l == Len(m)
           chars == CharsOf(m)
           most == limits.max_chat_messages
           all == limits.max_chat_total_message_chars
<1>1. SchemaAccepts(req) /\ LimitExceeded(m, limits) = "none"
  BY AcceptedRequest
<1>2. ChatCost([i \in DOMAIN m |-> TextTokens(m[i], profile)], budget) = 2 + budget + sum
  BY DEF ChatCost, Costs, Counts, CHAT_REQUEST_OVERHEAD_TOKENS
<1>3. budget \in Int /\ budget > 0
  <2>1. req.max_tokens = -1 \/ req.max_tokens > 0
    BY <1>1 DEF SchemaAccepts, Absent
  <2>2. CASE req.max_tokens \in {-1, 0}
    BY <2>2 DEF CompletionBudget, Absent
  <2>3. CASE req.max_tokens \notin {-1, 0}
    BY <2>1, <2>3 DEF CompletionBudget, Absent
  <2> QED
    BY <2>2, <2>3
<1>4. l \in Nat /\ l > 0
  BY <1>1, LenProperties DEF SchemaAccepts
<1>5. ~(l > most) /\ ~(chars > all)
  BY <1>1 DEF LimitExceeded
<1>6. sum \in Nat /\ chars \in Nat /\ 4 * l <= sum /\ sum <= 4 * l + chars
  BY CostsBounded
<1>7. most \in Int /\ all \in Int
  OBVIOUS
<1> HIDE DEF budget, sum, l, chars, most, all, m
<1>8. 2 + budget + sum >= budget + 2 + 4
  BY <1>3, <1>4, <1>6
<1>9. 2 + budget + sum <= budget + 2 + 4 * most + all
  <2>1. l <= most /\ chars <= all
    BY <1>4, <1>5, <1>6, <1>7
  <2> QED
    BY <1>3, <1>4, <1>6, <1>7, <2>1
<1> QED
  BY <1>2, <1>3, <1>8, <1>9 DEF m, budget, most, all

-----------------------------------------------------------------------------
(* The keys of the setting                                                 *)

PartStep(acc, c) ==
  IF c = "comma" THEN Append(acc, << >>) ELSE Append(Front(acc), Append(Last(acc), c))
KeepStep(kept, part) == IF Strip(part) = << >> THEN kept ELSE Append(kept, Strip(part))

\* Sequences of what stands between two commas; splitting yields at least one.
KeyTexts(S) == Seq(Seq(S \ {"comma"}))
SomeParts(S) == KeyTexts(S) \ {<< >>}

\* A step adds a part or a character to the last one.
LEMMA PartStepType ==
  ASSUME NEW S, NEW acc \in SomeParts(S), NEW c \in S
  PROVE  PartStep(acc, c) \in SomeParts(S)
<1> DEFINE D == S \ {"comma"}
           T == Seq(D)
<1>1. acc \in Seq(T) /\ acc # << >>
  BY DEF SomeParts, KeyTexts
<1>2. CASE c = "comma"
  <2>1. << >> \in T
    BY EmptySeq
  <2> HIDE DEF T
  <2>2. Append(acc, << >>) \in Seq(T) /\ Append(acc, << >>) # << >>
    BY <1>1, <2>1, AppendProperties
  <2> QED
    BY <1>2, <2>2 DEF PartStep, SomeParts, KeyTexts, T
<1>3. CASE c # "comma"
  <2> DEFINE l == Append(Last(acc), c)
             f == Front(acc)
  <2>1. f \in Seq(T) /\ Last(acc) \in T
    <3> HIDE DEF T
    <3> QED
      BY <1>1, FrontAndLast
  <2>2. l \in T
    <3>1. c \in D
      BY <1>3
    <3> HIDE DEF D
    <3> QED
      BY <2>1, <3>1, AppendProperties
  <2> HIDE DEF T, l, f
  <2>3. Append(f, l) \in Seq(T) /\ Append(f, l) # << >>
    BY <2>1, <2>2, AppendProperties
  <2> QED
    BY <1>3, <2>3 DEF PartStep, SomeParts, KeyTexts, T, l, f
<1> QED
  BY <1>2, <1>3

\* A part that is kept is stripped.
LEMMA KeepStepType ==
  ASSUME NEW D, NEW kept \in Seq(Seq(D)), NEW part \in Seq(D)
  PROVE  KeepStep(kept, part) \in Seq(Seq(D))
<1>1. Strip(part) \in Seq(D)
  BY StripCounts
<1> DEFINE T == Seq(D)
<1> HIDE DEF T
<1>2. ASSUME NEW p \in T, NEW k \in Seq(T)
      PROVE  Append(k, p) \in Seq(T)
  BY AppendProperties
<1> QED
  BY <1>1, <1>2 DEF KeepStep, T

\* The parts of a setting, as AllowedApiKeys splits it.
Parts(t) == FoldLeft(LAMBDA acc, x : PartStep(acc, x), << << >> >>, t)

IsParts(g, t) ==
  g = [s \in SUBSET DOMAIN t |-> IF s = {} THEN << << >> >> ELSE PartStep(g[Rest(s)], t[Max(s)])]

\* The splitting is the value of a recursive function.
LEMMA PartsIsFold ==
  ASSUME NEW t
  PROVE  Parts(t) = (CHOOSE g : IsParts(g, t))[DOMAIN t]
BY DEF Parts, FoldLeft, MapThenFoldSet, IsParts, Rest, PartStep

PartsF(S) == [y \in SomeParts(S) \X S |-> PartStep(y[1], y[2])]

\* It is a fold.
LEMMA PartsFold ==
  ASSUME NEW S, NEW t \in Seq(S)
  PROVE  Parts(t) = Fold(PartsF(S), << << >> >>, t)
<1> DEFINE F == PartsF(S)
           A == SomeParts(S)
           C == S
           base == << << >> >>
<1>1. /\ F \in [A \X C -> A] /\ base \in A
      /\ \A a \in A, c \in C : F[<<a, c>>] = PartStep(a, c)
  <2>1. \A a \in A, c \in C : PartStep(a, c) \in A
    BY PartStepType
  <2>2. base \in A
    <3> DEFINE T == Seq(S \ {"comma"})
    <3>1. << >> \in T
      BY EmptySeq
    <3> HIDE DEF T
    <3>2. << << >> >> \in Seq(T) /\ << << >> >> # << >>
      BY <3>1
    <3> QED
      BY <3>2 DEF SomeParts, KeyTexts, T
  <2> HIDE DEF A, C
  <2> QED
    BY <2>1, <2>2 DEF PartsF, A, C
<1>2. t \in Seq(C)
  OBVIOUS
<1> HIDE DEF F, A, C
<1>3. \E g : IsParts(g, t)
  <2>1. PICK g : Computes(g, A, C, F, base, t)
    <3> HIDE DEF base
    <3> QED
      BY <1>1, <1>2, FoldSteps
  <2>2. \A s \in SUBSET DOMAIN t :
          g[s] = IF s = {} THEN base ELSE PartStep(g[Rest(s)], t[Max(s)])
    <3> HIDE DEF base
    <3> QED
      BY <1>1, <2>1 DEF Computes
  <2>3. IsParts(g, t)
    BY <2>1, <2>2 DEF IsParts, Computes
  <2> QED
    BY <2>3
<1> DEFINE h == CHOOSE g : IsParts(g, t)
<1>4. IsParts(h, t)
  BY <1>3
<1> HIDE DEF h
<1>5. ASSUME NEW s \in SUBSET DOMAIN t, s # {}, h[Rest(s)] \in A, t[Max(s)] \in C
      PROVE  h[s] = F[<<h[Rest(s)], t[Max(s)]>>]
  <2>1. h[s] = PartStep(h[Rest(s)], t[Max(s)])
    BY <1>4, <1>5 DEF IsParts
  <2> QED
    BY <1>1, <1>5, <2>1
<1>6. h[{}] = base
  BY <1>4 DEF IsParts
<1>7. h[DOMAIN t] = Fold(F, base, t)
  <2> HIDE DEF base
  <2>1. Follows(h, A, C, F, base, t)
    BY <1>1, <1>2, <1>5, <1>6 DEF Follows
  <2> QED
    BY <2>1, SameAsFold
<1> QED
  BY <1>7, PartsIsFold DEF h, F

\* The parts that are kept.
Keys(t) == FoldLeft(LAMBDA acc, x : KeepStep(acc, x), << >>, t)

IsKeys(g, t) ==
  g = [s \in SUBSET DOMAIN t |-> IF s = {} THEN << >> ELSE KeepStep(g[Rest(s)], t[Max(s)])]

\* The keeping is the value of a recursive function.
LEMMA KeysIsFold ==
  ASSUME NEW t
  PROVE  Keys(t) = (CHOOSE g : IsKeys(g, t))[DOMAIN t]
BY DEF Keys, FoldLeft, MapThenFoldSet, IsKeys, Rest, KeepStep

KeysF(D) == [y \in Seq(Seq(D)) \X Seq(D) |-> KeepStep(y[1], y[2])]

\* It is a fold.
LEMMA KeysFold ==
  ASSUME NEW D, NEW t \in Seq(Seq(D))
  PROVE  Keys(t) = Fold(KeysF(D), << >>, t)
<1> DEFINE F == KeysF(D)
           A == Seq(Seq(D))
           C == Seq(D)
           base == << >>
<1>1. /\ F \in [A \X C -> A] /\ base \in A
      /\ \A a \in A, c \in C : F[<<a, c>>] = KeepStep(a, c)
  <2>1. \A a \in A, c \in C : KeepStep(a, c) \in A
    BY KeepStepType
  <2>2. base \in A
    BY EmptySeq
  <2> HIDE DEF A, C
  <2> QED
    BY <2>1, <2>2 DEF KeysF, A, C
<1>2. t \in Seq(C)
  OBVIOUS
<1> HIDE DEF F, A, C
<1>3. \E g : IsKeys(g, t)
  <2>1. PICK g : Computes(g, A, C, F, base, t)
    <3> HIDE DEF base
    <3> QED
      BY <1>1, <1>2, FoldSteps
  <2>2. \A s \in SUBSET DOMAIN t :
          g[s] = IF s = {} THEN base ELSE KeepStep(g[Rest(s)], t[Max(s)])
    <3> HIDE DEF base
    <3> QED
      BY <1>1, <2>1 DEF Computes
  <2>3. IsKeys(g, t)
    BY <2>1, <2>2 DEF IsKeys, Computes
  <2> QED
    BY <2>3
<1> DEFINE h == CHOOSE g : IsKeys(g, t)
<1>4. IsKeys(h, t)
  BY <1>3
<1> HIDE DEF h
<1>5. ASSUME NEW s \in SUBSET DOMAIN t, s # {}, h[Rest(s)] \in A, t[Max(s)] \in C
      PROVE  h[s] = F[<<h[Rest(s)], t[Max(s)]>>]
  <2>1. h[s] = KeepStep(h[Rest(s)], t[Max(s)])
    BY <1>4, <1>5 DEF IsKeys
  <2> QED
    BY <1>1, <1>5, <2>1
<1>6. h[{}] = base
  BY <1>4 DEF IsKeys
<1>7. h[DOMAIN t] = Fold(F, base, t)
  <2> HIDE DEF base
  <2>1. Follows(h, A, C, F, base, t)
    BY <1>1, <1>2, <1>5, <1>6 DEF Follows
  <2> QED
    BY <2>1, SameAsFold
<1> QED
  BY <1>7, KeysIsFold DEF h, F

\* A setting without a comma is one part.
LEMMA PartsOfPlain ==
  ASSUME NEW S, NEW k \in Seq(S \ {"comma"})
  PROVE  Parts(k) = <<k>>
<1> DEFINE D == S \ {"comma"}
           F == PartsF(S)
           base == << << >> >>
           P == {u \in Seq(D) : Fold(F, base, u) = <<u>>}
<1>1. << >> \in P
  <2>1. << >> \in Seq(D)
    BY EmptySeq
  <2> HIDE DEF F, D
  <2>2. Fold(F, base, << >>) = base
    BY FoldOfEmpty
  <2> QED
    BY <2>1, <2>2
<1>2. ASSUME NEW u \in Seq(D), NEW c \in D, u \in P
      PROVE  Append(u, c) \in P
  <2>1. Append(u, c) \in Seq(D)
    BY AppendProperties
  <2>2. Fold(F, base, Append(u, c)) = F[<<Fold(F, base, u), c>>]
    <3> HIDE DEF F, base, D
    <3> QED
      BY FoldOfAppend
  <2>3. Fold(F, base, u) = <<u>>
    BY <1>2
  <2>4. <<u>> \in SomeParts(S) /\ Append(<< >>, Append(u, c)) = <<Append(u, c)>>
    <3> DEFINE T == Seq(D)
    <3>1. u \in T
      OBVIOUS
    <3> HIDE DEF T
    <3>2. <<u>> \in Seq(T) /\ <<u>> # << >>
      BY <3>1
    <3>3. <<u>> \in SomeParts(S)
      BY <3>2 DEF SomeParts, KeyTexts, T
    <3> QED
      BY <3>3
  <2>5. F[<< <<u>>, c >>] = PartStep(<<u>>, c)
    <3>1. \A a \in SomeParts(S), e \in S : F[<<a, e>>] = PartStep(a, e)
      BY DEF PartsF
    <3>2. c \in S
      OBVIOUS
    <3> HIDE DEF F
    <3> QED
      BY <2>4, <3>1, <3>2
  <2>6. PartStep(<<u>>, c) = <<Append(u, c)>>
    <3> DEFINE T == Seq(D)
    <3>1. u \in T /\ << >> \in Seq(T)
      BY EmptySeq
    <3>2. Front(Append(<< >>, u)) = << >> /\ Last(Append(<< >>, u)) = u
      <4> HIDE DEF T
      <4> QED
        BY <3>1, FrontOfAppend
    <3>3. Append(<< >>, u) = <<u>>
      OBVIOUS
    <3>4. Front(<<u>>) = << >> /\ Last(<<u>>) = u
      BY <3>2, <3>3
    <3>5. c # "comma"
      OBVIOUS
    <3> QED
      BY <2>4, <3>4, <3>5 DEF PartStep
  <2> HIDE DEF F, base, D
  <2>7. Fold(F, base, Append(u, c)) = <<Append(u, c)>>
    BY <2>2, <2>3, <2>5, <2>6
  <2> QED
    BY <2>1, <2>7
<1>3. Seq(D) \subseteq P
  <2> HIDE DEF P, D
  <2> QED
    BY <1>1, <1>2, SeqInduction
<1>4. Fold(F, base, k) = <<k>>
  BY <1>3
<1>5. k \in Seq(S)
  BY SeqMonotonic
<1> QED
  BY <1>4, <1>5, PartsFold

\* No key of the setting holds a comma; a setting without one is one key.
LEMMA KeysOfSetting ==
  ASSUME NEW S, NEW k \in Seq(S)
  PROVE  /\ AllowedApiKeys(k) \in KeyTexts(S)
         /\ k \in Seq(S \ {"comma"}) /\ Strip(k) # << >> => AllowedApiKeys(k) = <<Strip(k)>>
<1> DEFINE D == S \ {"comma"}
           T == Seq(D)
           G == KeysF(D)
<1>1. AllowedApiKeys(k) = Keys(Parts(k))
  BY DEF AllowedApiKeys, Keys, Parts, PartStep, KeepStep
<1>2. Parts(k) \in Seq(T)
  <2> DEFINE F == PartsF(S)
             A == SomeParts(S)
             base == << << >> >>
  <2>1. F \in [A \X S -> A]
    <3>1. \A a \in A, c \in S : PartStep(a, c) \in A
      BY PartStepType
    <3> HIDE DEF A
    <3> QED
      BY <3>1 DEF PartsF, A
  <2>2. base \in A
    <3>1. << >> \in T
      BY EmptySeq
    <3> HIDE DEF T
    <3>2. << << >> >> \in Seq(T) /\ << << >> >> # << >>
      BY <3>1
    <3> QED
      BY <3>2 DEF SomeParts, KeyTexts, T
  <2>3. Parts(k) = Fold(F, base, k)
    BY PartsFold
  <2> HIDE DEF F, A, base
  <2>4. Parts(k) \in A
    <3>1. Fold(F, base, k) \in A
      BY <2>1, <2>2, FoldType
    <3> QED
      BY <2>3, <3>1
  <2> QED
    BY <2>4 DEF A, SomeParts, KeyTexts
<1>3. \A p \in Seq(T) : Keys(p) = Fold(G, << >>, p)
  BY KeysFold
<1>4. G \in [Seq(T) \X T -> Seq(T)] /\ \A a \in Seq(T), e \in T : G[<<a, e>>] = KeepStep(a, e)
  <2>1. \A a \in Seq(T), e \in T : KeepStep(a, e) \in Seq(T)
    BY KeepStepType
  <2> HIDE DEF T
  <2> QED
    BY <2>1 DEF KeysF, T
<1>5. << >> \in Seq(T)
  BY EmptySeq
<1>6. AllowedApiKeys(k) \in Seq(T)
  <2> HIDE DEF G, T
  <2>1. Fold(G, << >>, Parts(k)) \in Seq(T)
    BY <1>2, <1>4, <1>5, FoldType
  <2> QED
    BY <1>1, <1>2, <1>3, <2>1
<1>7. ASSUME k \in Seq(D), Strip(k) # << >>
      PROVE  AllowedApiKeys(k) = <<Strip(k)>>
  <2>1. Parts(k) = <<k>>
    BY <1>7, PartsOfPlain
  <2>2. k \in T /\ Append(<< >>, k) = <<k>> /\ Append(<< >>, Strip(k)) = <<Strip(k)>>
    BY <1>7
  <2> HIDE DEF G, T
  <2>3. Fold(G, << >>, Append(<< >>, k)) = G[<<Fold(G, << >>, << >>), k>>]
    <3> DEFINE e == << >>
    <3>1. e \in Seq(T)
      BY <1>5
    <3> HIDE DEF e
    <3>2. Fold(G, << >>, Append(e, k)) = G[<<Fold(G, << >>, e), k>>]
      BY <2>2, <3>1, FoldOfAppend
    <3> QED
      BY <3>2 DEF e
  <2>4. Fold(G, << >>, << >>) = << >>
    BY FoldOfEmpty
  <2>5. G[<< << >>, k >>] = KeepStep(<< >>, k)
    BY <1>4, <1>5, <2>2
  <2>6. KeepStep(<< >>, k) = <<Strip(k)>>
    BY <1>7, <2>2 DEF KeepStep
  <2> QED
    BY <1>1, <1>2, <1>3, <2>1, <2>2, <2>3, <2>4, <2>5, <2>6
<1> QED
  BY <1>6, <1>7 DEF KeyTexts

\* Nothing but spaces is lost.
LEMMA StripKeeps ==
  ASSUME NEW S, NEW t \in Seq(S), NEW i \in DOMAIN t, t[i] # "space"
  PROVE  t[i] \in ToSet(Strip(t))
<1>1. Len(t) \in Nat /\ DOMAIN t = 1 .. Len(t)
  BY LenProperties
<1>2. PICK a \in 1 .. Len(t) : \E b \in a .. Len(t) : Stripped(t, a, b)
  BY StripShape
<1>3. PICK b \in a .. Len(t) : Stripped(t, a, b)
  BY <1>2
<1>4. i \in a .. b
  BY <1>3 DEF Stripped
<1>5. /\ DOMAIN Strip(t) = 1 .. b - a + 1
      /\ \A j \in 1 .. b - a + 1 : Strip(t)[j] = t[a + j - 1]
  BY <1>2, <1>3, StrippedElements
<1> DEFINE j == i - a + 1
<1>6. j \in 1 .. b - a + 1 /\ a + j - 1 = i
  BY <1>1, <1>2, <1>3, <1>4
<1> HIDE DEF j
<1>7. Strip(t)[j] = t[i] /\ j \in DOMAIN Strip(t)
  BY <1>5, <1>6
<1> QED
  BY <1>7 DEF ToSet

\* What an --api-key can hold.
KeyCharacters == {"letter", "space", "comma", "foreign"}

\* The setting that the script makes of its key accepts the key it then sends
\* if it is not blank and holds neither a comma nor a foreign character.
LEMMA KeyIsAllowed ==
  ASSUME NEW k \in Seq(KeyCharacters), NEW authorization,
         authorization.scheme = "bearer", authorization.token = k
  PROVE  RequireApiKey(authorization, k) \notin {"raises", "no"}
           <=> /\ Strip(k) # << >>
               /\ \A i \in DOMAIN k : k[i] \in {"letter", "space"}
<1> DEFINE token == Strip(k)
           keys == AllowedApiKeys(k)
           foreign(x) == "foreign" \in ToSet(x)
           ends == {i \in DOMAIN keys : keys[i] = token \/ foreign(keys[i]) \/ foreign(token)}
           answer == RequireApiKey(authorization, k)
           plain == \A i \in DOMAIN k : k[i] \in {"letter", "space"}
           T == Seq(KeyCharacters \ {"comma"})
<1>1. answer = IF token = << >> THEN "no" ELSE IsAllowed(token, keys)
  BY DEF RequireApiKey, BearerToken
<1>2. IsAllowed(token, keys) =
        IF ends = {} THEN "no"
        ELSE IF foreign(token) \/ foreign(keys[Min(ends)]) THEN "raises" ELSE "yes"
  BY DEF IsAllowed
<1>3. keys \in Seq(T) /\ (k \in T /\ token # << >> => keys = <<token>>)
  BY KeysOfSetting DEF KeyTexts
<1>4. token \in Seq(KeyCharacters)
  BY StripCounts
<1>5. \A i \in DOMAIN k : k[i] # "space" => k[i] \in ToSet(token)
  BY StripKeeps
<1>6. Len(k) \in Nat /\ DOMAIN k = 1 .. Len(k) /\ \A i \in DOMAIN k : k[i] \in KeyCharacters
  BY LenProperties
<1>7. ASSUME token # << >>, plain
      PROVE  answer \notin {"raises", "no"}
  <2> DEFINE D == {"letter", "space"}
  <2>1. k \in Seq(D)
    <3>1. k \in [1 .. Len(k) -> D]
      <4>1. \A i \in 1 .. Len(k) : k[i] \in D
        BY <1>6, <1>7
      <4>2. k \in [1 .. Len(k) -> KeyCharacters]
        BY LenProperties
      <4> QED
        BY <4>1, <4>2
    <3> HIDE DEF D
    <3> QED
      BY <1>6, <3>1, SeqDef
  <2>2. k \in T
    <3>1. D \subseteq KeyCharacters \ {"comma"}
      BY DEF KeyCharacters
    <3> HIDE DEF D
    <3> QED
      BY <2>1, <3>1, SeqMonotonic
  <2>3. ~foreign(token)
    <3>1. token \in Seq(D)
      <4> HIDE DEF D
      <4> QED
        BY <2>1, StripCounts
    <3>2. \A i \in DOMAIN token : token[i] \in D
      <4> HIDE DEF D, token
      <4> QED
        BY <3>1, LenProperties
    <3> HIDE DEF token
    <3>3. \A i \in DOMAIN token : token[i] # "foreign"
      BY <3>2
    <3> QED
      BY <3>3 DEF ToSet
  <2>4. keys = <<token>>
    BY <1>3, <1>7, <2>2
  <2>5. DOMAIN keys = {1} /\ keys[1] = token
    <3> HIDE DEF token, keys
    <3> QED
      BY <2>4
  <2>6. ends = {1}
    BY <2>5
  <2>7. Min(ends) \in ends
    <3>1. ends \in SUBSET Nat /\ ends # {}
      BY <2>6
    <3> HIDE DEF ends
    <3> QED
      BY <3>1, MinIn
  <2>8. keys[Min(ends)] = token
    BY <2>5, <2>6, <2>7
  <2> HIDE DEF token, keys, ends, foreign, answer
  <2>9. answer = "yes"
    BY <1>1, <1>2, <1>7, <2>3, <2>6, <2>8
  <2> QED
    BY <2>9
<1>8. ASSUME answer \notin {"raises", "no"}
      PROVE  token # << >> /\ plain
  <2>1. token # << >> /\ ends # {} /\ ~foreign(token) /\ ~foreign(keys[Min(ends)])
    <3> HIDE DEF token, keys, ends, foreign, answer
    <3> QED
      BY <1>1, <1>2, <1>8
  <2>2. Min(ends) \in ends
    <3>1. DOMAIN keys = 1 .. Len(keys) /\ Len(keys) \in Nat
      <4> HIDE DEF keys, T
      <4> QED
        BY <1>3, LenProperties
    <3>2. ends \in SUBSET Nat
      BY <3>1
    <3> HIDE DEF ends
    <3> QED
      BY <2>1, <3>2, MinIn
  <2>3. keys[Min(ends)] = token /\ Min(ends) \in DOMAIN keys
    BY <2>1, <2>2
  <2>4. token \in T
    <3> HIDE DEF keys, T, ends, token
    <3> QED
      BY <1>3, <2>3, LenProperties
  <2>5. "comma" \notin ToSet(token)
    <3>1. \A i \in DOMAIN token : token[i] \in KeyCharacters \ {"comma"}
      <4> DEFINE D == KeyCharacters \ {"comma"}
      <4>1. token \in Seq(D)
        BY <2>4
      <4> HIDE DEF D, token
      <4>2. \A i \in DOMAIN token : token[i] \in D
        BY <4>1, LenProperties
      <4> QED
        BY <4>2 DEF D
    <3> HIDE DEF token
    <3>2. \A i \in DOMAIN token : token[i] # "comma"
      BY <3>1
    <3> QED
      BY <3>2 DEF ToSet
  <2>6. ASSUME NEW i \in DOMAIN k
        PROVE  k[i] \in {"letter", "space"}
    <3>1. k[i] \in KeyCharacters
      BY <1>6
    <3>2. k[i] # "comma"
      <4> HIDE DEF token
      <4> QED
        BY <1>5, <2>5
    <3>3. k[i] # "foreign"
      <4> HIDE DEF token
      <4> QED
        BY <1>5, <2>1
    <3> QED
      BY <3>1, <3>2, <3>3 DEF KeyCharacters
  <2> QED
    BY <2>1, <2>6
<1> QED
  BY <1>7, <1>8

-----------------------------------------------------------------------------
(* The smoke test                                                          *)

\* The settings that build_gateway_env sets, of an environment that has them.
LEMMA GatewaySettings ==
  ASSUME NEW config, NEW base,
         {"api_keys", "default_model", "rate_limit_enabled", "backend_type", "mock_base_url",
          "model_aliases"} \subseteq DOMAIN base
  PROVE  /\ GatewayEnv(config, base).api_keys = config.api_key
         /\ GatewayEnv(config, base).default_model = config.model
         /\ GatewayEnv(config, base).rate_limit_enabled = FALSE
         /\ GatewayEnv(config, base).backend_type = "mock"
         /\ GatewayEnv(config, base).mock_base_url = "the mock of the script"
         /\ GatewayEnv(config, base).model_aliases = [m \in {"mock", config.model} |-> "mock"]
<1> DEFINE env == GatewayEnv(config, base)
           aliases == [m \in {"mock", config.model} |-> "mock"]
           key == config.api_key
           name == config.model
<1>1. env = [base EXCEPT !.api_keys = key, !.default_model = name, !.rate_limit_enabled = FALSE,
               !.backend_type = "mock", !.mock_base_url = "the mock of the script",
               !.model_aliases = aliases]
  BY DEF GatewayEnv
<1> HIDE DEF env, aliases, key, name
<1>2. env.api_keys = key /\ env.default_model = name /\ env.rate_limit_enabled = FALSE
  BY <1>1
<1>3. env.backend_type = "mock" /\ env.mock_base_url = "the mock of the script"
  BY <1>1
<1>4. env.model_aliases = aliases
  BY <1>1
<1>5. /\ GatewayEnv(config, base).api_keys = config.api_key
      /\ GatewayEnv(config, base).default_model = config.model
      /\ GatewayEnv(config, base).rate_limit_enabled = FALSE
  BY <1>2 DEF env, key, name
<1>6. /\ GatewayEnv(config, base).backend_type = "mock"
      /\ GatewayEnv(config, base).mock_base_url = "the mock of the script"
  BY <1>3 DEF env
<1>7. GatewayEnv(config, base).model_aliases = [m \in {"mock", config.model} |-> "mock"]
  BY <1>4 DEF env, aliases, name
<1> QED
  BY <1>5, <1>6, <1>7

\* Those it leaves alone.
LEMMA OtherSettings ==
  ASSUME NEW config, NEW base,
         {"model_routes", "max_request_body_bytes", "max_chat_messages", "max_chat_message_chars",
          "max_chat_total_message_chars"} \subseteq DOMAIN base
  PROVE  LET env == GatewayEnv(config, base)
         IN /\ env.model_routes = base.model_routes
            /\ env.max_request_body_bytes = base.max_request_body_bytes
            /\ env.max_chat_messages = base.max_chat_messages
            /\ env.max_chat_message_chars = base.max_chat_message_chars
            /\ env.max_chat_total_message_chars = base.max_chat_total_message_chars
BY DEF GatewayEnv

\* The model the script asks for is one of the aliases it configures, if it has
\* a name; a route of that name would do as well.
LEMMA SmokeModelResolves ==
  ASSUME NEW name, NEW routes, NEW chosen
  PROVE  ResolveModelRoute(name, routes, [m \in {"mock", name} |-> "mock"], name, chosen).error = "none"
           <=> RoutesParse(routes) /\ name # ""
<1> DEFINE aliases == [m \in {"mock", name} |-> "mock"]
           resolved == ResolveModelRoute(name, routes, aliases, name, chosen)
<1>1. DOMAIN aliases = {"mock", name} /\ aliases[name] = "mock" /\ aliases["mock"] = "mock"
  OBVIOUS
<1>2. LoadModelAliases(aliases, name) = aliases
  BY <1>1 DEF LoadModelAliases
<1>3. AliasesParse(aliases) <=> name # ""
  BY <1>1 DEF AliasesParse
<1> HIDE DEF aliases
<1>4. /\ \A models : Selected(models).error = "none"
      /\ Raised("ValueError").error = "ValueError"
  BY DEF Selected, Raised
<1>5. CASE ~RoutesParse(routes)
  <2>1. resolved = Raised("ValueError")
    BY <1>5 DEF ResolveModelRoute
  <2> HIDE DEF resolved
  <2>2. resolved.error # "none"
    BY <1>4, <2>1
  <2> QED
    BY <1>5, <2>2 DEF resolved, aliases
<1>6. CASE RoutesParse(routes) /\ name \in DOMAIN routes
  <2>1. resolved = Selected(SelectModelRoute(routes[name], chosen))
    BY <1>6 DEF ResolveModelRoute
  <2>2. name # ""
    BY <1>6 DEF RoutesParse
  <2> HIDE DEF resolved
  <2>3. resolved.error = "none"
    BY <1>4, <2>1
  <2> QED
    BY <1>6, <2>2, <2>3 DEF resolved, aliases
<1>7. CASE RoutesParse(routes) /\ name \notin DOMAIN routes /\ name # ""
  <2>1. resolved = Selected(<<aliases[name]>>)
    BY <1>1, <1>2, <1>3, <1>7 DEF ResolveModelRoute
  <2> HIDE DEF resolved
  <2>2. resolved.error = "none"
    BY <1>4, <2>1
  <2> QED
    BY <1>7, <2>2 DEF resolved, aliases
<1>8. CASE RoutesParse(routes) /\ name \notin DOMAIN routes /\ name = ""
  <2>1. resolved = Raised("ValueError")
    BY <1>3, <1>8 DEF ResolveModelRoute
  <2> HIDE DEF resolved
  <2>2. resolved.error # "none"
    BY <1>4, <2>1
  <2> QED
    BY <1>8, <2>2 DEF resolved, aliases
<1> QED
  BY <1>5, <1>6, <1>7, <1>8

\* The settings local_e2e.py's gateway takes from its environment or replaces.
EnvironmentNames ==
  {"api_keys", "default_model", "rate_limit_enabled", "backend_type", "mock_base_url",
   "model_aliases", "model_routes", "max_request_body_bytes", "max_chat_messages",
   "max_chat_message_chars", "max_chat_total_message_chars"}

\* What the checks say of the smoke test's request under the gateway's settings.
LEMMA SmokeIsAccepted ==
  ASSUME NEW config, config.api_key \in Seq(KeyCharacters),
         NEW base, EnvironmentNames \subseteq DOMAIN base
  PROVE  Admit(SmokeRequest(config), GatewayEnv(config, base)) = Accepted
           <=> /\ ~TooLarge(SmokeRequest(config), base)
               /\ LimitExceeded(SmokeRequest(config).messages, base) = "none"
               /\ Strip(config.api_key) # << >>
               /\ \A i \in DOMAIN config.api_key : config.api_key[i] \in {"letter", "space"}
<1> DEFINE env == GatewayEnv(config, base)
           req == SmokeRequest(config)
           authorization == [scheme |-> "bearer", token |-> config.api_key]
           key == RequireApiKey(req.authorization, env.api_keys)
           limit == LimitExceeded(req.messages, env)
           fine == /\ Strip(config.api_key) # << >>
                   /\ \A i \in DOMAIN config.api_key : config.api_key[i] \in {"letter", "space"}
<1>1. /\ req.content_length = 5 /\ req.body = "json" /\ req.wellformed = TRUE
      /\ req.max_tokens = Absent /\ req.messages = << <<"letter", "space", "letter">> >>
      /\ req.authorization = authorization
  BY DEF SmokeRequest
<1>0. {"api_keys", "default_model", "rate_limit_enabled", "backend_type", "mock_base_url",
       "model_aliases"} \subseteq DOMAIN base
  BY DEF EnvironmentNames
<1>2. env.api_keys = config.api_key
  <2>1. GatewayEnv(config, base).api_keys = config.api_key
    BY <1>0, GatewaySettings
  <2> QED
    BY <2>1
<1>3. /\ env.max_request_body_bytes = base.max_request_body_bytes
      /\ env.max_chat_messages = base.max_chat_messages
      /\ env.max_chat_message_chars = base.max_chat_message_chars
      /\ env.max_chat_total_message_chars = base.max_chat_total_message_chars
  BY OtherSettings DEF EnvironmentNames
<1>4. Admit(req, env) =
        IF TooLarge(req, env) THEN Refused(413, "request_body_too_large")
        ELSE IF req.body = "unreadable" THEN Refused(400, "none")
        ELSE IF req.body = "no_json" THEN Refused(422, "none")
        ELSE IF key = "raises" THEN Refused(500, "none")
        ELSE IF key = "no" THEN Refused(401, "invalid_api_key")
        ELSE IF ~SchemaAccepts(req) THEN Refused(422, "none")
        ELSE IF limit # "none" THEN Refused(400, limit)
        ELSE Accepted
  BY DEF Admit
<1>5. key \notin {"raises", "no"} <=> fine
  <2>1. authorization.scheme = "bearer" /\ authorization.token = config.api_key
    OBVIOUS
  <2> DEFINE k == config.api_key
  <2>2. k \in Seq(KeyCharacters)
    OBVIOUS
  <2>3. key = RequireApiKey(authorization, k)
    BY <1>1, <1>2
  <2> HIDE DEF authorization, k, key
  <2>4. RequireApiKey(authorization, k) \notin {"raises", "no"}
          <=> Strip(k) # << >> /\ \A i \in DOMAIN k : k[i] \in {"letter", "space"}
    BY <2>1, <2>2, KeyIsAllowed DEF k
  <2> QED
    BY <2>3, <2>4 DEF k
<1> HIDE DEF req, env, authorization, key, limit, fine
<1>6. TooLarge(req, env) <=> TooLarge(req, base)
  BY <1>3 DEF TooLarge
<1>7. limit = LimitExceeded(req.messages, base)
  BY <1>3 DEF LimitExceeded, limit
<1>8. SchemaAccepts(req)
  <2>1. Len(<< <<"letter", "space", "letter">> >>) = 1
    OBVIOUS
  <2> QED
    BY <1>1, <2>1 DEF SchemaAccepts
<1>9. \A status \in {413, 422, 500, 401, 400} : \A code : Refused(status, code) # Accepted
  <2> SUFFICES ASSUME NEW status \in {413, 422, 500, 401, 400}, NEW code
               PROVE  Refused(status, code) # Accepted
    OBVIOUS
  <2>1. Refused(status, code).status = status /\ Accepted.status = 0
    BY DEF Refused, Accepted
  <2>2. status # 0
    OBVIOUS
  <2> QED
    BY <2>1, <2>2
<1>10. Admit(req, env) = Accepted
         <=> ~TooLarge(req, env) /\ key \notin {"raises", "no"} /\ limit = "none"
  BY <1>1, <1>4, <1>8, <1>9
<1> QED
  BY <1>5, <1>6, <1>7, <1>10 DEF req, env, fine

\* For every key, model and environment: the smoke test's request is served
\* by the mock exactly when the script can be expected to.
THEOREM SmokeTestIsServed ==
  ASSUME NEW config, config.api_key \in Seq(KeyCharacters),
         NEW base, EnvironmentNames \subseteq DOMAIN base, NEW hash
  PROVE  SmokeIsServed(config, base, hash)
<1> DEFINE env == GatewayEnv(config, base)
           req == SmokeRequest(config)
           resolved == ResolveModelRoute(req.model, env.model_routes, env.model_aliases,
                                         env.default_model, hash)
<1>1. /\ env.default_model = config.model /\ env.rate_limit_enabled = FALSE
      /\ env.backend_type = "mock" /\ env.mock_base_url = "the mock of the script"
      /\ env.model_aliases = [m \in {"mock", config.model} |-> "mock"]
  <2>1. {"api_keys", "default_model", "rate_limit_enabled", "backend_type", "mock_base_url",
         "model_aliases"} \subseteq DOMAIN base
    BY DEF EnvironmentNames
  <2> HIDE DEF req, resolved
  <2> QED
    BY <2>1, GatewaySettings
<1>2. env.model_routes = base.model_routes
  BY OtherSettings DEF EnvironmentNames
<1>3. req.model = config.model
  BY DEF SmokeRequest
<1>4. resolved.error = "none" <=> RoutesParse(base.model_routes) /\ config.model # ""
  <2> HIDE DEF env, req
  <2>1. resolved = ResolveModelRoute(config.model, base.model_routes,
                                     [m \in {"mock", config.model} |-> "mock"], config.model, hash)
    BY <1>1, <1>2, <1>3
  <2> HIDE DEF resolved
  <2> QED
    BY <2>1, SmokeModelResolves
<1>5. BaseUrl(env) = "the mock of the script" /\ ~env.rate_limit_enabled
  <2> HIDE DEF env
  <2> QED
    BY <1>1 DEF BaseUrl
<1>6. Admit(req, env) = Accepted
        <=> /\ ~TooLarge(req, base)
            /\ LimitExceeded(req.messages, base) = "none"
            /\ Strip(config.api_key) # << >>
            /\ \A i \in DOMAIN config.api_key : config.api_key[i] \in {"letter", "space"}
  BY SmokeIsAccepted
<1>7. SmokeIsServed(config, base, hash)
        <=> ((/\ Admit(req, env) = Accepted
              /\ resolved.error = "none"
              /\ BaseUrl(env) = "the mock of the script" /\ ~env.rate_limit_enabled)
             <=> (/\ Strip(config.api_key) # << >>
                  /\ \A i \in DOMAIN config.api_key : config.api_key[i] \in {"letter", "space"}
                  /\ config.model # ""
                  /\ ~TooLarge(req, base) /\ LimitExceeded(req.messages, base) = "none"
                  /\ RoutesParse(base.model_routes)))
  BY DEF SmokeIsServed
<1> HIDE DEF env, req, resolved
<1> QED
  BY <1>4, <1>5, <1>6, <1>7

-----------------------------------------------------------------------------
(* The state of the bounded inputs                                         *)

\* The models of the routes under test and of the one that does not parse.
AnyModel == Models \cup {"m1"}

\* Routes that have the shape of the setting, whether or not they parse.
AreRoutes(routes) == \A a \in DOMAIN routes : routes[a] \in Seq(Targets(AnyModel))

TargetsOK  == targets \in Seq(Targets(AnyModel)) /\ targets # << >>
SettingsOK == AreRoutes(settings.routes)
TextOK     == text \in Seq(Characters)
RequestOK  == request.messages \in Seq(Seq(Characters)) /\ request.max_tokens \in Int
LocalOK    == local.config.api_key \in Seq(KeyCharacters) /\ EnvironmentNames \subseteq DOMAIN local.base

\* The inputs have the types the code is called with.
PlanType == TargetsOK /\ SettingsOK /\ TextOK /\ RequestOK /\ LocalOK

\* The value of an entry that is added is its own, the others stay.
LEMMA WithType ==
  ASSUME NEW V, NEW entries, \A a \in DOMAIN entries : entries[a] \in V, NEW name, NEW value \in V
  PROVE  \A a \in DOMAIN With(entries, name, value) : With(entries, name, value)[a] \in V
BY DEF With

\* Every setting of routes has the shape of one.
LEMMA RouteSettingsType ==
  ASSUME TargetsOK, NEW routes \in RouteSettings
  PROVE  AreRoutes(routes)
<1> DEFINE V == Seq(Targets(AnyModel))
           two == [a \in {"routed", "both"} |-> targets]
           bad == <<[model |-> "m1", weight |-> 0]>>
<1>1. targets \in V /\ << >> \in V
  BY EmptySeq DEF TargetsOK
<1>2. bad \in V
  <2> DEFINE t == [model |-> "m1", weight |-> 0]
  <2>1. t \in Targets(AnyModel)
    BY DEF Targets, AnyModel
  <2> HIDE DEF t
  <2>2. <<t>> \in V
    BY <2>1
  <2> QED
    BY <2>2 DEF t
<1> HIDE DEF V, bad
<1>3. \A a \in DOMAIN two : two[a] \in V
  BY <1>1
<1>4. routes \in {<< >>, two, With(two, "", targets), With(two, "aliased", << >>), With(two, "aliased", bad)}
  BY DEF RouteSettings, bad
<1> HIDE DEF two
<1>5. CASE routes = << >>
  <2>1. DOMAIN << >> = {}
    OBVIOUS
  <2> QED
    BY <1>5, <2>1 DEF AreRoutes
<1>6. CASE routes = two
  BY <1>3, <1>6 DEF AreRoutes, V
<1>7. CASE routes = With(two, "", targets)
  <2>1. \A a \in DOMAIN With(two, "", targets) : With(two, "", targets)[a] \in V
    BY <1>1, <1>3, WithType
  <2> QED
    BY <1>7, <2>1 DEF AreRoutes, V
<1>8. CASE routes = With(two, "aliased", << >>)
  <2>1. \A a \in DOMAIN With(two, "aliased", << >>) : With(two, "aliased", << >>)[a] \in V
    BY <1>1, <1>3, WithType
  <2> QED
    BY <1>8, <2>1 DEF AreRoutes, V
<1>9. CASE routes = With(two, "aliased", bad)
  <2>1. \A a \in DOMAIN With(two, "aliased", bad) : With(two, "aliased", bad)[a] \in V
    BY <1>2, <1>3, WithType
  <2> QED
    BY <1>9, <2>1 DEF AreRoutes, V
<1> QED
  BY <1>4, <1>5, <1>6, <1>7, <1>8, <1>9

\* A function on the first n numbers is a sequence.
LEMMA ShortSeq ==
  ASSUME NEW S, NEW T, S \subseteq T, NEW n \in Nat, NEW f \in [1 .. n -> S]
  PROVE  f \in Seq(T)
<1>1. f \in [1 .. n -> T]
  OBVIOUS
<1> QED
  BY <1>1, SeqDef

\* The messages of a request are texts.
LEMMA RequestsType ==
  ASSUME NEW r \in SomeRequests
  PROVE  r.messages \in Seq(Seq(Characters)) /\ r.max_tokens \in Int
<1> DEFINE T == Seq(Characters)
<1>1. PICK n \in 0 .. 3 : r.messages \in [1 .. n -> SomeTexts]
  BY DEF SomeRequests
<1>2. SomeTexts \subseteq T
  BY DEF SomeTexts, Characters
<1> HIDE DEF T
<1>3. r.messages \in Seq(T)
  BY <1>1, <1>2, ShortSeq
<1>4. r.max_tokens \in Int
  BY DEF SomeRequests, Absent
<1> QED
  BY <1>3, <1>4 DEF T

\* The key of the script consists of what a key can hold.
LEMMA ConfigsType ==
  ASSUME NEW c \in SomeConfigs
  PROVE  c.api_key \in Seq(KeyCharacters)
<1>1. PICK n \in 0 .. 3 : c.api_key \in [1 .. n -> KeyCharacters]
  BY DEF SomeConfigs, KeyCharacters
<1> QED
  BY <1>1, ShortSeq

\* An environment has every setting.
LEMMA EnvironmentType ==
  ASSUME NEW backend, NEW limited, NEW chars, NEW routes
  PROVE  EnvironmentNames \subseteq DOMAIN Environment(backend, limited, chars, routes)
BY DEF EnvironmentNames, Environment

\* The first inputs have their types.
LEMMA InitTypes == Init => PlanType
<1> SUFFICES ASSUME Init PROVE PlanType
  OBVIOUS
<1>1. TargetsOK
  <2>1. PICK n \in 1 .. MaxTargets : targets \in [1 .. n -> Target]
    BY DEF Init
  <2>0. MaxTargets \in Nat /\ MaxWeight \in Nat
    BY ChatPlanAssumption DEF ChatPlanAssumption
  <2>2. n \in Nat /\ n # 0
    BY <2>0, <2>1
  <2>3. Target \subseteq Targets(AnyModel)
    BY <2>0 DEF Target, Targets, AnyModel
  <2>4. targets \in Seq(Targets(AnyModel))
    BY <2>1, <2>2, <2>3, ShortSeq
  <2>5. DOMAIN targets # {}
    <3>1. DOMAIN targets = 1 .. n /\ 1 \in 1 .. n
      BY <2>1, <2>2
    <3> QED
      BY <3>1
  <2>6. DOMAIN << >> = {}
    OBVIOUS
  <2> QED
    BY <2>4, <2>5, <2>6 DEF TargetsOK
<1>2. SettingsOK
  <2>1. settings.routes = << >> /\ DOMAIN << >> = {}
    BY DEF Init
  <2> QED
    BY <2>1 DEF SettingsOK, AreRoutes
<1>3. TextOK
  BY EmptySeq DEF Init, TextOK
<1>4. RequestOK
  <2>1. request.messages = << >> /\ request.max_tokens = -1
    BY DEF Init, NoRequest, Absent
  <2>2. << >> \in Seq(Seq(Characters))
    BY EmptySeq
  <2> QED
    BY <2>1, <2>2 DEF RequestOK
<1>5. LocalOK
  <2>1. local.config.api_key = << >> /\ local.base = Environment("mock", FALSE, 3, << >>)
    BY DEF Init, NoScript
  <2>2. << >> \in Seq(KeyCharacters)
    BY EmptySeq
  <2> QED
    BY <2>1, <2>2, EnvironmentType DEF LocalOK
<1> QED
  BY <1>1, <1>2, <1>3, <1>4, <1>5 DEF PlanType

\* They keep them.
LEMMA StepTypes == PlanType /\ [Next]_vars => PlanType'
<1> SUFFICES ASSUME PlanType, [Next]_vars PROVE PlanType'
  OBVIOUS
<1> USE DEF PlanType
<1>1. CASE Ask
  <2>1. UNCHANGED <<targets, text, request, local>>
    BY <1>1 DEF Ask
  <2>2. TargetsOK' /\ TextOK' /\ RequestOK' /\ LocalOK'
    BY <2>1 DEF TargetsOK, TextOK, RequestOK, LocalOK
  <2>3. settings'.routes \in RouteSettings
    <3>1. settings' \in [routes : RouteSettings, aliases : AliasSettings]
      BY <1>1 DEF Ask
    <3> QED
      BY <3>1
  <2>4. SettingsOK'
    BY <2>3, RouteSettingsType DEF SettingsOK
  <2> QED
    BY <2>2, <2>4
<1>2. CASE Type
  <2>1. UNCHANGED <<targets, settings, request, local>>
    BY <1>2 DEF Type
  <2>2. TargetsOK' /\ SettingsOK' /\ RequestOK' /\ LocalOK'
    BY <2>1 DEF TargetsOK, SettingsOK, RequestOK, LocalOK
  <2>3. PICK c \in Characters : text' = Append(text, c)
    BY <1>2 DEF Type
  <2>4. TextOK'
    BY <2>3, AppendProperties DEF TextOK
  <2> QED
    BY <2>2, <2>4
<1>3. CASE Send
  <2>1. UNCHANGED <<targets, settings, text, local>> /\ request' \in SomeRequests
    BY <1>3 DEF Send
  <2>2. TargetsOK' /\ SettingsOK' /\ TextOK' /\ LocalOK'
    BY <2>1 DEF TargetsOK, SettingsOK, TextOK, LocalOK
  <2>3. RequestOK'
    BY <2>1, RequestsType DEF RequestOK
  <2> QED
    BY <2>2, <2>3
<1>4. CASE Script
  <2>1. UNCHANGED <<targets, settings, text, request>>
    BY <1>4 DEF Script
  <2>2. TargetsOK' /\ SettingsOK' /\ TextOK' /\ RequestOK'
    BY <2>1 DEF TargetsOK, SettingsOK, TextOK, RequestOK
  <2>3. \E b, limited, chars, routes :
          local' \in [config : SomeConfigs, base : {Environment(b, limited, chars, routes)}]
    BY <1>4 DEF Script
  <2>4. PICK b, limited, chars, routes :
          local' \in [config : SomeConfigs, base : {Environment(b, limited, chars, routes)}]
    BY <2>3
  <2>5. local'.config \in SomeConfigs /\ local'.base = Environment(b, limited, chars, routes)
    BY <2>4
  <2>6. LocalOK'
    BY <2>5, ConfigsType, EnvironmentType DEF LocalOK
  <2> QED
    BY <2>2, <2>6
<1>5. CASE UNCHANGED vars
  BY <1>5 DEF vars, TargetsOK, SettingsOK, TextOK, RequestOK, LocalOK
<1> QED
  BY <1>1, <1>2, <1>3, <1>4, <1>5 DEF Next

\* In every reachable state the inputs have the types the code is called with.
THEOREM PlanTypeInvariant == Spec => []PlanType
<1>1. Init => PlanType
  BY InitTypes
<1>2. PlanType /\ [Next]_vars => PlanType'
  BY StepTypes
<1> QED
  BY <1>1, <1>2, PTL DEF Spec

-----------------------------------------------------------------------------
(* The invariants                                                          *)

\* The share of requests a target gets is its weight.
THEOREM WeightsInvariant == Spec => []InvWeightsExact
<1>1. PlanType => InvWeightsExact
  BY WeightsAreExact DEF PlanType, TargetsOK, InvWeightsExact
<1> QED
  BY <1>1, PlanTypeInvariant, PTL

\* The order of attempts is a rotation of one target to the front.
THEOREM AttemptsInvariant == Spec => []InvAttemptsAreTargets
<1>1. PlanType => InvAttemptsAreTargets
  BY AttemptsAreTheTargets DEF PlanType, TargetsOK, InvAttemptsAreTargets
<1> QED
  BY <1>1, PlanTypeInvariant, PTL

\* Listing and resolving agree, whatever the settings hold.
THEOREM ListedInvariant == Spec => []InvListedIffResolvable
<1>1. PlanType => InvListedIffResolvable
  <2> SUFFICES ASSUME PlanType
               PROVE  ListedIffResolvable(model, settings.routes, settings.aliases, "default", slot)
    BY DEF InvListedIffResolvable
  <2>1. \A a \in DOMAIN settings.routes : settings.routes[a] \in Seq(Targets(AnyModel))
    BY DEF PlanType, SettingsOK, AreRoutes
  <2>2. "default" # ""
    OBVIOUS
  <2> QED
    BY <2>1, <2>2, ListedIsResolvable
<1> QED
  BY <1>1, PlanTypeInvariant, PTL

\* The cost of a request of one message is positive.
LEMMA CostOfOne ==
  ASSUME NEW n \in Nat
  PROVE  ChatCost(<<n>>, 1) \in Nat \ {0}
<1>1. CostOfCount \in [Nat -> Nat] /\ CostOfCount[n] = 4 + n
  BY DEF CostOfCount, CHAT_MESSAGE_OVERHEAD_TOKENS
<1> DEFINE e == << >>
<1>2. e \in Seq(Nat) /\ Append(e, n) = <<n>> /\ <<n>> \in Seq(Nat)
  OBVIOUS
<1>3. Total(Nat, CostOfCount, e) = 0
  BY <1>1, TotalSteps
<1> HIDE DEF e
<1>4. Total(Nat, CostOfCount, Append(e, n)) = Total(Nat, CostOfCount, e) + CostOfCount[n]
  BY <1>1, <1>2, TotalSteps
<1>5. Costs(<<n>>) = 4 + n
  <2>1. Costs(<<n>>) = Total(Nat, CostOfCount, <<n>>)
    BY <1>2, CostsIsTotal
  <2>2. Total(Nat, CostOfCount, <<n>>) = 0 + (4 + n)
    BY <1>1, <1>2, <1>3, <1>4
  <2> QED
    BY <2>1, <2>2
<1>6. ChatCost(<<n>>, 1) = 2 + 1 + Costs(<<n>>)
  BY DEF ChatCost, Costs, CHAT_REQUEST_OVERHEAD_TOKENS
<1> QED
  BY <1>5, <1>6

\* A text reserves its length whichever profile the settings lead to.
THEOREM ReservesInvariant == Spec => []InvReservesItsLength
<1>1. PlanType => InvReservesItsLength
  <2> SUFFICES ASSUME PlanType,
                      NEW client \in {"alias", "qwen"},
                      NEW configured \in SUBSET {"alias", "qwen"},
                      NEW broken \in SUBSET {"alias", "qwen"},
                      NEW profile \in {"", "estimated", "qwen2"}
               PROVE  LET n == CountText(text, 0, LoadEntries([m \in broken |-> "moved"]), {},
                                         LoadEntries([m \in configured |-> profile]), {"qwen"},
                                         client, "qwen")
                      IN ReservesItsLength(text, n) /\ ChatCost(<<n>>, 1) \in Nat \ {0}
    BY DEF InvReservesItsLength
  <2> DEFINE paths == LoadEntries([m \in broken |-> "moved"])
             profiles == LoadEntries([m \in configured |-> profile])
             n == CountText(text, 0, paths, {}, profiles, {"qwen"}, client, "qwen")
  <2>1. ReservesItsLength(text, n) /\ n \in Nat
    <3>1. text \in Seq(Characters)
      BY DEF PlanType, TextOK
    <3> HIDE DEF paths, profiles
    <3> QED
      BY <3>1, CountReservesItsLength
  <2> HIDE DEF n
  <2>2. ChatCost(<<n>>, 1) \in Nat \ {0}
    <3>1. n \in Nat
      BY <2>1
    <3> QED
      BY <3>1, CostOfOne
  <2> QED
    BY <2>1, <2>2 DEF n
<1> QED
  BY <1>1, PlanTypeInvariant, PTL

\* What two backends with different profiles would reserve is not far apart.
THEOREM ProfilesInvariant == Spec => []InvProfilesAgree
<1>1. PlanType => InvProfilesAgree
  BY ProfilesAgreeOnText DEF PlanType, TextOK, InvProfilesAgree
<1> QED
  BY <1>1, PlanTypeInvariant, PTL

\* What passes the checks has a bounded cost.
THEOREM AcceptedCostInvariant == Spec => []InvAcceptedCostBounded
<1>1. PlanType => InvAcceptedCostBounded
  <2>1. /\ Limits.max_chat_messages \in Int /\ Limits.max_chat_total_message_chars \in Int
        /\ Limits.rate_limit_default_completion_tokens \in Nat \ {0}
    BY DEF Limits
  <2> QED
    BY <2>1, AcceptedCostIsBounded DEF PlanType, RequestOK, InvAcceptedCostBounded
<1> QED
  BY <1>1, PlanTypeInvariant, PTL

\* What the script configures is what it then asks for.
THEOREM SmokeInvariant == Spec => []InvSmokeIsServed
<1>1. PlanType => InvSmokeIsServed
  BY SmokeTestIsServed DEF PlanType, LocalOK, InvSmokeIsServed
<1> QED
  BY <1>1, PlanTypeInvariant, PTL

=============================================================================

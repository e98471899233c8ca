------------------------------ MODULE FoldLemmas ------------------------------
(***************************************************************************)
(* Facts about the folds of the community modules, for the components that *)
(* are stated by them: MapThenSumSet(LAMBDA x : f[x], S), the sum of a     *)
(* function over a finite set, and FoldLeft over a sequence.               *)
(***************************************************************************)
EXTENDS Integers, FiniteSets, FiniteSetsExt, SequencesExt,
        FiniteSetTheorems, SequenceTheorems, TLAPS

\* The element a fold takes from the set first.
Pick(s) == CHOOSE x \in s : TRUE

\* The recursive function that the fold over S defines.
IsSum(g, f, S) ==
  g = [s \in SUBSET S |-> IF s = {} THEN 0 ELSE f[Pick(s)] + g[s \ {Pick(s)}]]

SumOn(f, S) == (CHOOSE g : IsSum(g, f, S))[S]

\* SumOn is what the community modules' fold computes.
LEMMA SumOnIsFold ==
  ASSUME NEW f, NEW S
  PROVE  MapThenSumSet(LAMBDA x : f[x], S) = SumOn(f, S)
BY DEF MapThenSumSet, MapThenFoldSet, SumOn, IsSum, Pick

\* The elements of D on which r has the value k, or a value in K.
Class(r, D, k) == {i \in D : r[i] = k}
Classes(r, D, K) == {i \in D : r[i] \in K}

-----------------------------------------------------------------------------
(* Induction                                                               *)

\* A property, given as the set P of the sets that have it, holds of every
\* subset of a finite set if it holds of a set whenever it holds of all its
\* proper subsets.
LEMMA SubsetInduction ==
  ASSUME NEW S, IsFiniteSet(S), NEW P,
         \A s \in SUBSET S : (\A u \in SUBSET s : u # s => u \in P) => s \in P
  PROVE  SUBSET S \subseteq P
<1> DEFINE Bad == (SUBSET S) \ P
<1>1. IsWellFoundedOn(StrictSubsetOrdering(S), SUBSET S)
  BY FS_StrictSubsetOrderingWellFounded, FS_FiniteSubsetsOfFinite
<1>2. ASSUME Bad # {} PROVE FALSE
  <2>1. PICK s \in Bad : \A u \in Bad : <<u, s>> \notin StrictSubsetOrdering(S)
    <3> HIDE DEF Bad
    <3>1. Bad \subseteq SUBSET S
      BY DEF Bad
    <3> QED
      BY <1>1, <1>2, <3>1, WFMin
  <2>2. \A u \in SUBSET s : u # s => u \in P
    BY <2>1 DEF StrictSubsetOrdering
  <2> QED
    BY <2>1, <2>2
<1> QED
  BY <1>2

\* The picked element is one of the set, and what is left is smaller.
LEMMA PickIn ==
  ASSUME NEW s, s # {}
  PROVE  Pick(s) \in s /\ s \ {Pick(s)} \in SUBSET s /\ s \ {Pick(s)} # s
BY DEF Pick

-----------------------------------------------------------------------------
(* The fold has a value, and it is the same for every larger set           *)

\* Two functions that compute the sum agree wherever both are defined.
LEMMA SumUnique ==
  ASSUME NEW f, NEW S, IsFiniteSet(S), NEW T, NEW g, IsSum(g, f, S), NEW h, IsSum(h, f, T)
  PROVE  \A s \in SUBSET S : s \subseteq T => g[s] = h[s]
<1> DEFINE P == {s \in SUBSET S : s \subseteq T => g[s] = h[s]}
<1>1. ASSUME NEW s \in SUBSET S, \A u \in SUBSET s : u # s => u \in P
      PROVE  s \in P
  <2> SUFFICES ASSUME s \subseteq T PROVE g[s] = h[s]
    OBVIOUS
  <2>1. CASE s = {}
    <3>1. g[s] = 0 /\ h[s] = 0
      BY <2>1 DEF IsSum
    <3> QED
      BY <3>1
  <2>2. CASE s # {}
    <3>1. g[s] = f[Pick(s)] + g[s \ {Pick(s)}] /\ h[s] = f[Pick(s)] + h[s \ {Pick(s)}]
      BY <2>2 DEF IsSum
    <3>2. s \ {Pick(s)} \in P
      BY <1>1, <2>2, PickIn
    <3>3. g[s \ {Pick(s)}] = h[s \ {Pick(s)}]
      BY <3>2
    <3> QED
      BY <3>1, <3>3
  <2> QED
    BY <2>1, <2>2
<1>2. SUBSET S \subseteq P
  <2> HIDE DEF P
  <2> QED
    BY <1>1, SubsetInduction
<1> QED
  BY <1>2

\* There is a function that computes it.
LEMMA SumExists ==
  ASSUME NEW f, NEW S, IsFiniteSet(S)
  PROVE  \E g : IsSum(g, f, S)
<1> DEFINE P == {s \in SUBSET S : \E g : IsSum(g, f, s)}
<1>1. ASSUME NEW s \in SUBSET S, \A u \in SUBSET s : u # s => u \in P
      PROVE  s \in P
  <2> DEFINE G(u) == CHOOSE g : IsSum(g, f, u)
             rest(t) == t \ {Pick(t)}
             new == [t \in SUBSET s |-> IF t = {} THEN 0 ELSE f[Pick(t)] + G(rest(t))[rest(t)]]
  <2>1. \A u \in SUBSET s : u # s => IsSum(G(u), f, u)
    BY <1>1
  <2>2. ASSUME NEW t \in SUBSET s, t # {}
        PROVE  new[t] = f[Pick(t)] + new[rest(t)]
    <3>1. rest(t) \in SUBSET s /\ rest(t) # s /\ new[t] = f[Pick(t)] + G(rest(t))[rest(t)]
      BY <2>2, PickIn
    <3>2. new[rest(t)] = G(rest(t))[rest(t)]
      <4> DEFINE u == rest(t)
      <4>1. u \in SUBSET s /\ u # s
        BY <3>1
      <4> HIDE DEF u
      <4>2. IsSum(G(u), f, u)
        BY <2>1, <4>1
      <4>3. CASE u = {}
        <5>1. G(u)[u] = 0
          BY <4>2, <4>3 DEF IsSum
        <5>2. new[u] = 0
          BY <4>1, <4>3
        <5> QED
          BY <5>1, <5>2 DEF u
      <4>4. CASE u # {}
        <5>1. rest(u) \in SUBSET u /\ rest(u) \in SUBSET s /\ rest(u) # s
          BY <4>1, <4>4, PickIn
        <5>2. IsSum(G(rest(u)), f, rest(u)) /\ IsFiniteSet(rest(u))
          BY <2>1, <5>1, FS_Subset
        <5>3. G(rest(u))[rest(u)] = G(u)[rest(u)]
          <6> HIDE DEF G, rest
          <6> QED
            BY <4>2, <5>1, <5>2, SumUnique
        <5>4. G(u)[u] = f[Pick(u)] + G(u)[rest(u)]
          BY <4>2, <4>4 DEF IsSum
        <5>5. new[u] = f[Pick(u)] + G(rest(u))[rest(u)]
          BY <4>1, <4>4
        <5> QED
          BY <5>3, <5>4, <5>5 DEF u
      <4> QED
        BY <4>3, <4>4
    <3> QED
      BY <3>1, <3>2
  <2>3. \A t \in SUBSET s : new[t] = IF t = {} THEN 0 ELSE f[Pick(t)] + new[rest(t)]
    <3> SUFFICES ASSUME NEW t \in SUBSET s
                 PROVE  new[t] = IF t = {} THEN 0 ELSE f[Pick(t)] + new[rest(t)]
      OBVIOUS
    <3>1. CASE t = {}
      <4>1. new[t] = 0
        BY <3>1
      <4> HIDE DEF new
      <4> QED
        BY <3>1, <4>1
    <3>2. CASE t # {}
      <4> HIDE DEF new
      <4> QED
        BY <2>2, <3>2
    <3> QED
      BY <3>1, <3>2
  <2>4. new = [t \in SUBSET s |-> new[t]]
    OBVIOUS
  <2>5. IsSum(new, f, s)
    <3> HIDE DEF new
    <3>1. new = [t \in SUBSET s |-> IF t = {} THEN 0 ELSE f[Pick(t)] + new[rest(t)]]
      BY <2>3, <2>4
    <3> QED
      BY <3>1 DEF IsSum
  <2> QED
    BY <2>5
<1>2. SUBSET S \subseteq P
  <2> HIDE DEF P
  <2> QED
    BY <1>1, SubsetInduction
<1> QED
  BY <1>2

\* The sum, one element at a time, in the order of the fold.
LEMMA SumSteps ==
  ASSUME NEW f, NEW S, IsFiniteSet(S)
  PROVE  SumOn(f, S) = IF S = {} THEN 0 ELSE f[Pick(S)] + SumOn(f, S \ {Pick(S)})
<1> DEFINE g == CHOOSE g : IsSum(g, f, S)
           R == S \ {Pick(S)}
           h == CHOOSE h : IsSum(h, f, R)
<1>1. IsSum(g, f, S)
  BY SumExists
<1>2. IsFiniteSet(R) /\ R \in SUBSET S
  BY FS_Subset
<1>3. IsSum(h, f, R)
  <2> HIDE DEF R
  <2> QED
    BY <1>2, SumExists
<1> HIDE DEF g, h
<1>4. g[R] = h[R]
  <2> HIDE DEF R
  <2> QED
    BY <1>1, <1>2, <1>3, SumUnique
<1>5. g[S] = IF S = {} THEN 0 ELSE f[Pick(S)] + g[R]
  BY <1>1 DEF IsSum
<1>6. SumOn(f, S) = g[S] /\ SumOn(f, R) = h[R]
  BY DEF SumOn, g, h
<1> QED
  BY <1>4, <1>5, <1>6

-----------------------------------------------------------------------------
(* The sum, in any order                                                   *)

\* A sum of numbers is a number.
LEMMA SumType ==
  ASSUME NEW S, IsFiniteSet(S), NEW f, \A x \in S : f[x] \in Nat
  PROVE  SumOn(f, S) \in Nat
<1> DEFINE P == {s \in SUBSET S : SumOn(f, s) \in Nat}
<1>1. ASSUME NEW s \in SUBSET S, \A u \in SUBSET s : u # s => u \in P
      PROVE  s \in P
  <2>1. SumOn(f, s) = IF s = {} THEN 0 ELSE f[Pick(s)] + SumOn(f, s \ {Pick(s)})
    BY SumSteps, FS_Subset
  <2>2. s # {} => f[Pick(s)] \in Nat /\ SumOn(f, s \ {Pick(s)}) \in Nat
    BY <1>1, PickIn
  <2> QED
    BY <2>1, <2>2
<1>2. SUBSET S \subseteq P
  <2> HIDE DEF P
  <2> QED
    BY <1>1, SubsetInduction
<1> QED
  BY <1>2

\* Whichever element is taken first.
LEMMA SumRemove ==
  ASSUME NEW S, IsFiniteSet(S), NEW f, \A x \in S : f[x] \in Nat
  PROVE  \A x \in S : SumOn(f, S) = f[x] + SumOn(f, S \ {x})
<1> DEFINE P == {s \in SUBSET S : \A x \in s : SumOn(f, s) = f[x] + SumOn(f, s \ {x})}
<1>1. ASSUME NEW s \in SUBSET S, \A u \in SUBSET s : u # s => u \in P
      PROVE  s \in P
  <2> SUFFICES ASSUME NEW x \in s PROVE SumOn(f, s) = f[x] + SumOn(f, s \ {x})
    OBVIOUS
  <2> DEFINE c == Pick(s)
  <2>1. SumOn(f, s) = f[c] + SumOn(f, s \ {c}) /\ c \in s
    BY SumSteps, FS_Subset, PickIn
  <2> HIDE DEF c
  <2>2. CASE x # c
    <3>1. s \ {c} \in P /\ s \ {x} \in P
      <4> HIDE DEF P
      <4>1. s \ {c} \in SUBSET s /\ s \ {c} # s /\ s \ {x} \in SUBSET s /\ s \ {x} # s
        BY <2>1
      <4> QED
        BY <1>1, <4>1
    <3>2. SumOn(f, s \ {c}) = f[x] + SumOn(f, (s \ {c}) \ {x})
      BY <2>2, <3>1
    <3>3. SumOn(f, s \ {x}) = f[c] + SumOn(f, (s \ {x}) \ {c})
      BY <2>1, <2>2, <3>1
    <3>4. (s \ {c}) \ {x} = (s \ {x}) \ {c}
      OBVIOUS
    <3>5. SumOn(f, (s \ {x}) \ {c}) \in Nat
      <4> DEFINE t == (s \ {x}) \ {c}
      <4>1. IsFiniteSet(t) /\ t \subseteq S
        BY FS_Subset
      <4> HIDE DEF t
      <4>2. SumOn(f, t) \in Nat
        BY <4>1, SumType
      <4> QED
        BY <4>2 DEF t
    <3> QED
      BY <2>1, <3>2, <3>3, <3>4, <3>5
  <2> QED
    BY <2>1, <2>2
<1>2. SUBSET S \subseteq P
  <2> HIDE DEF P
  <2> QED
    BY <1>1, SubsetInduction
<1> QED
  BY <1>2

\* The sum over the empty set.
THEOREM SumOfNothing == \A f : SumOn(f, {}) = 0
BY SumSteps, FS_EmptySet

\* Adding an element adds its summand.
THEOREM SumAdd ==
  ASSUME NEW S, IsFiniteSet(S), NEW x, x \notin S,
         NEW f, \A y \in S \cup {x} : f[y] \in Nat
  PROVE  SumOn(f, S \cup {x}) = SumOn(f, S) + f[x]
<1> DEFINE T == S \cup {x}
<1>1. IsFiniteSet(T) /\ x \in T /\ T \ {x} = S
  BY FS_AddElement
<1>2. SumOn(f, T) = f[x] + SumOn(f, T \ {x})
  <2> HIDE DEF T
  <2> QED
    BY <1>1, SumRemove DEF T
<1>3. SumOn(f, S) \in Nat /\ f[x] \in Nat
  BY SumType
<1> HIDE DEF T
<1>4. SumOn(f, T) = f[x] + SumOn(f, S)
  BY <1>1, <1>2
<1> QED
  BY <1>3, <1>4 DEF T

\* The sizes of the classes of a function add up to the size of their union.
THEOREM SumOfClasses ==
  ASSUME NEW D, IsFiniteSet(D), NEW r, NEW K, IsFiniteSet(K), NEW f,
         \A k \in K : f[k] = Cardinality(Class(r, D, k))
  PROVE  SumOn(f, K) = Cardinality(Classes(r, D, K))
<1> USE DEF Class, Classes
<1> DEFINE class(k) == {i \in D : r[i] = k}
           union(s) == {i \in D : r[i] \in s}
           P == {s \in SUBSET K : SumOn(f, s) = Cardinality(union(s))}
<1>0. \A k \in K : f[k] \in Nat /\ IsFiniteSet(class(k))
  <2> SUFFICES ASSUME NEW k \in K PROVE f[k] \in Nat /\ IsFiniteSet(class(k))
    OBVIOUS
  <2>1. IsFiniteSet(class(k))
    BY FS_Subset
  <2> HIDE DEF class
  <2>2. Cardinality(class(k)) \in Nat
    BY <2>1, FS_CardinalityType
  <2> QED
    BY <2>1, <2>2 DEF class
<1>1. ASSUME NEW s \in SUBSET K, \A u \in SUBSET s : u # s => u \in P
      PROVE  s \in P
  <2>1. CASE s = {}
    <3>1. SumOn(f, s) = 0
      BY <2>1, SumOfNothing
    <3>2. union(s) = {}
      BY <2>1
    <3> QED
      BY <3>1, <3>2, FS_EmptySet
  <2>2. CASE s # {}
    <3> DEFINE k == Pick(s)
               u == s \ {k}
    <3>1. k \in s /\ u \in SUBSET s /\ u # s /\ IsFiniteSet(s)
      BY <2>2, PickIn, FS_Subset
    <3>2. SumOn(f, s) = f[k] + SumOn(f, u)
      BY <2>2, <3>1, SumSteps
    <3> HIDE DEF k, u
    <3>3. u \in P
      BY <1>1, <3>1
    <3>4. SumOn(f, u) = Cardinality(union(u))
      BY <3>3
    <3>5. union(s) = class(k) \cup union(u) /\ class(k) \cap union(u) = {}
      BY <3>1 DEF u
    <3>6. IsFiniteSet(class(k)) /\ IsFiniteSet(union(u)) /\ f[k] = Cardinality(class(k))
      BY <1>0, <3>1, FS_Subset
    <3> HIDE DEF class, union, P
    <3>7. Cardinality(union(s)) = Cardinality(class(k)) + Cardinality(union(u))
      <4>1. /\ Cardinality(class(k) \cup union(u)) =
                 Cardinality(class(k)) + Cardinality(union(u)) - Cardinality(class(k) \cap union(u))
        BY <3>6, FS_Union
      <4>2. Cardinality(class(k)) \in Nat /\ Cardinality(union(u)) \in Nat
        BY <3>6, FS_CardinalityType
      <4> QED
        BY <3>5, <4>1, <4>2, FS_EmptySet
    <3>8. SumOn(f, s) = Cardinality(union(s))
      BY <3>2, <3>4, <3>6, <3>7
    <3> QED
      BY <3>8 DEF P
  <2> QED
    BY <2>1, <2>2
<1>2. SUBSET K \subseteq P
  <2> HIDE DEF P
  <2> QED
    BY <1>1, SubsetInduction
<1> QED
  BY <1>2


\* Every summand of a sum is 1: the sum counts the set.
THEOREM SumOfOnes ==
  ASSUME NEW S, IsFiniteSet(S), NEW f, \A x \in S : f[x] = 1
  PROVE  SumOn(f, S) = Cardinality(S)
<1> DEFINE P == {s \in SUBSET S : SumOn(f, s) = Cardinality(s)}
<1>1. ASSUME NEW s \in SUBSET S, \A u \in SUBSET s : u # s => u \in P
      PROVE  s \in P
  <2>1. CASE s = {}
    <3>1. SumOn(f, s) = 0
      BY <2>1, SumOfNothing
    <3> QED
      BY <2>1, <3>1, FS_EmptySet
  <2>2. CASE s # {}
    <3> DEFINE k == Pick(s)
               u == s \ {k}
    <3>1. k \in s /\ u \in SUBSET s /\ u # s /\ IsFiniteSet(s)
      BY <2>2, PickIn, FS_Subset
    <3>2. SumOn(f, s) = f[k] + SumOn(f, u)
      BY <2>2, <3>1, SumSteps
    <3>3. Cardinality(u) = Cardinality(s) - 1 /\ Cardinality(s) \in Nat
      <4> HIDE DEF k
      <4> QED
        BY <3>1, FS_RemoveElement, FS_CardinalityType
    <3> HIDE DEF k, u
    <3>4. u \in P
      BY <1>1, <3>1
    <3>5. SumOn(f, s) = Cardinality(s)
      BY <3>1, <3>2, <3>3, <3>4
    <3> QED
      BY <3>5
  <2> QED
    BY <2>1, <2>2
<1>2. SUBSET S \subseteq P
  <2> HIDE DEF P
  <2> QED
    BY <1>1, SubsetInduction
<1> QED
  BY <1>2

\* A sum of natural numbers over fewer elements is not larger.
THEOREM SumMonotone ==
  ASSUME NEW T, IsFiniteSet(T), NEW S, S \subseteq T, NEW f, \A x \in T : f[x] \in Nat
  PROVE  SumOn(f, S) <= SumOn(f, T)
<1> DEFINE P == {t \in SUBSET T : \A s \in SUBSET t : SumOn(f, s) <= SumOn(f, t)}
<1>1. ASSUME NEW t \in SUBSET T, \A u \in SUBSET t : u # t => u \in P
      PROVE  t \in P
  <2> SUFFICES ASSUME NEW s \in SUBSET t PROVE SumOn(f, s) <= SumOn(f, t)
    OBVIOUS
  <2>0. IsFiniteSet(t) /\ IsFiniteSet(s)
    BY FS_Subset
  <2>1. SumOn(f, s) \in Nat /\ SumOn(f, t) \in Nat
    BY <2>0, SumType
  <2>2. CASE s = t
    BY <2>1, <2>2
  <2>3. CASE s # t
    <3>1. PICK x \in t : x \notin s
      BY <2>3
    <3> DEFINE u == t \ {x}
    <3>2. SumOn(f, t) = f[x] + SumOn(f, u) /\ f[x] \in Nat
      BY <2>0, SumRemove
    <3>3. u \in SUBSET t /\ u # t /\ s \in SUBSET u /\ IsFiniteSet(u) /\ u \subseteq T
      BY <2>0, <3>1, FS_Subset
    <3> HIDE DEF u
    <3>4. SumOn(f, s) <= SumOn(f, u)
      <4>1. u \in P
        BY <1>1, <3>3
      <4> QED
        BY <3>3, <4>1
    <3>5. SumOn(f, u) \in Nat
      BY <3>3, SumType
    <3> QED
      BY <2>1, <3>2, <3>4, <3>5
  <2> QED
    BY <2>2, <2>3
<1>2. SUBSET T \subseteq P
  <2> HIDE DEF P
  <2> QED
    BY <1>1, SubsetInduction
<1> QED
  BY <1>2

-----------------------------------------------------------------------------
(* Folds over sequences                                                    *)

\* What is left of a set of indices when the fold has taken the last.
Rest(s) == s \ {Max(s)}

\* The recursive function that the fold of the function G over seq defines.
IsFold(g, G, base, seq) ==
  g = [s \in SUBSET DOMAIN seq |->
         IF s = {} THEN base ELSE G[<<g[Rest(s)], seq[Max(s)]>>]]

Fold(G, base, seq) == (CHOOSE g : IsFold(g, G, base, seq))[DOMAIN seq]

-----------------------------------------------------------------------------
(* Induction                                                               *)

\* Induction over the naturals, with the property given as a set.
LEMMA NatSetInduction ==
  ASSUME NEW P, 0 \in P, \A n \in Nat : n \in P => n + 1 \in P
  PROVE  Nat \subseteq P
<1> DEFINE Bad == Nat \ P
<1>1. ASSUME Bad # {} PROVE FALSE
  <2>1. PICK n \in Bad : \A m \in Bad : <<m, n>> \notin OpToRel(<, Nat)
    <3>1. Bad \subseteq Nat
      OBVIOUS
    <3> HIDE DEF Bad
    <3> QED
      BY <1>1, <3>1, NatLessThanWellFounded, WFMin
  <2>2. n \in Nat /\ n # 0
    BY <2>1
  <2>3. n - 1 \in Nat /\ n - 1 < n /\ (n - 1) + 1 = n
    BY <2>2
  <2>4. n - 1 \in Bad
    BY <2>1, <2>3
  <2>5. <<n - 1, n>> \in OpToRel(<, Nat)
    BY <2>2, <2>3 DEF OpToRel
  <2> QED
    BY <2>1, <2>4, <2>5
<1> QED
  BY <1>1

\* A property of sequences, given as the set P of those that have it, holds of
\* every sequence over S if it holds of the empty one and is kept by Append.
LEMMA SeqInduction ==
  ASSUME NEW S, NEW P, << >> \in P,
         \A t \in Seq(S), e \in S : t \in P => Append(t, e) \in P
  PROVE  Seq(S) \subseteq P
<1> DEFINE Q == {n \in Nat : \A t \in Seq(S) : Len(t) = n => t \in P}
<1>1. 0 \in Q
  <2> SUFFICES ASSUME NEW t \in Seq(S), Len(t) = 0 PROVE t \in P
    OBVIOUS
  <2> QED
    BY EmptySeq
<1>2. ASSUME NEW n \in Nat, n \in Q PROVE n + 1 \in Q
  <2> SUFFICES ASSUME NEW t \in Seq(S), Len(t) = n + 1 PROVE t \in P
    BY <1>2
  <2>1. t # << >>
    BY EmptySeq
  <2>2. PICK u \in Seq(S), e \in S : t = Append(u, e)
    BY <2>1, SequenceEmptyOrAppend
  <2>3. Len(u) = n
    BY <1>2, <2>2, AppendProperties, LenProperties
  <2> QED
    BY <1>2, <2>2, <2>3
<1>3. Nat \subseteq Q
  <2> HIDE DEF Q
  <2> QED
    BY <1>1, <1>2, NatSetInduction
<1> QED
  BY <1>3, LenProperties

-----------------------------------------------------------------------------
(* The fold has one value                                                  *)

\* Induction over the sets of indices of a sequence of n elements.
LEMMA IntervalInduction ==
  ASSUME NEW n \in Nat, NEW P,
         \A s \in SUBSET (1 .. n) : (\A u \in SUBSET s : u # s => u \in P) => s \in P
  PROVE  SUBSET (1 .. n) \subseteq P
<1> DEFINE D == 1 .. n
<1>1. IsFiniteSet(D)
  BY FS_Interval
<1>2. \A s \in SUBSET D : (\A u \in SUBSET s : u # s => u \in P) => s \in P
  OBVIOUS
<1> HIDE DEF D
<1>3. SUBSET D \subseteq P
  BY <1>1, <1>2, SubsetInduction
<1> QED
  BY <1>3 DEF D

\* The fold takes the greatest index, and goes on with fewer.
LEMMA MaxIn ==
  ASSUME NEW n \in Nat, NEW s \in SUBSET (1 .. n), s # {}
  PROVE  /\ Max(s) \in s /\ \A y \in s : Max(s) >= y
         /\ Rest(s) \in SUBSET s /\ Rest(s) # s
<1>1. \E x \in s : \A y \in s : x >= y
  <2> DEFINE P == {u \in SUBSET (1 .. n) : u # {} => \E x \in u : \A y \in u : x >= y}
  <2>1. ASSUME NEW u \in SUBSET (1 .. n), \A v \in SUBSET u : v # u => v \in P
        PROVE  u \in P
    <3> SUFFICES ASSUME u # {} PROVE \E x \in u : \A y \in u : x >= y
      OBVIOUS
    <3>1. PICK z \in u : TRUE
      OBVIOUS
    <3>2. CASE u \ {z} = {}
      BY <3>1, <3>2
    <3>3. CASE u \ {z} # {}
      <4>1. PICK x \in u \ {z} : \A y \in u \ {z} : x >= y
        <5>1. u \ {z} \in P
          BY <2>1, <3>1
        <5> QED
          BY <3>3, <5>1
      <4>2. x \in Nat /\ z \in Nat /\ u \subseteq Nat
        BY <3>1, <4>1
      <4>3. CASE x >= z
        BY <4>1, <4>2, <4>3
      <4>4. CASE ~(x >= z)
        BY <3>1, <4>1, <4>2, <4>4
      <4> QED
        BY <4>3, <4>4
    <3> QED
      BY <3>2, <3>3
  <2>2. SUBSET (1 .. n) \subseteq P
    <3> HIDE DEF P
    <3> QED
      BY <2>1, IntervalInduction
  <2> QED
    BY <2>2
<1> QED
  BY <1>1 DEF Max, Rest

\* A set of natural numbers has a least one.
LEMMA MinIn ==
  ASSUME NEW s \in SUBSET Nat, s # {}
  PROVE  Min(s) \in s /\ \A y \in s : Min(s) <= y
<1>1. \E x \in s : \A y \in s : x <= y
  <2>1. PICK x \in s : \A y \in s : <<y, x>> \notin OpToRel(<, Nat)
    BY NatLessThanWellFounded, WFMin
  <2>2. ASSUME NEW y \in s
        PROVE  x <= y
    <3>1. x \in Nat /\ y \in Nat
      OBVIOUS
    <3>2. ~(y < x)
      BY <2>1, <3>1 DEF OpToRel
    <3> QED
      BY <3>1, <3>2
  <2> QED
    BY <2>2
<1> QED
  BY <1>1 DEF Min

\* Of all indices it takes the last, and goes on with those before it.
LEMMA MaxOfInterval ==
  ASSUME NEW n \in Nat, n > 0
  PROVE  Max(1 .. n) = n /\ Rest(1 .. n) = 1 .. n - 1
<1>1. Max(1 .. n) \in 1 .. n /\ Max(1 .. n) >= n
  <2> DEFINE s == 1 .. n
  <2>1. s \in SUBSET (1 .. n) /\ s # {} /\ n \in s
    OBVIOUS
  <2>2. Max(s) \in s /\ Max(s) >= n
    <3> HIDE DEF s
    <3> QED
      BY <2>1, MaxIn
  <2> QED
    BY <2>2
<1>2. Max(1 .. n) = n
  BY <1>1
<1> QED
  BY <1>2 DEF Rest

\* Two recursions that do the same with the same value.
Alike(n, g, h) ==
  /\ g[{}] = h[{}]
  /\ \A s \in SUBSET (1 .. n) : s # {} /\ g[Rest(s)] = h[Rest(s)] => g[s] = h[s]

\* Such recursions have the same value on all indices.
LEMMA SameRecursion ==
  ASSUME NEW n \in Nat, NEW g, NEW h, Alike(n, g, h)
  PROVE  g[1 .. n] = h[1 .. n]
<1> DEFINE P == {s \in SUBSET (1 .. n) : g[s] = h[s]}
<1>1. ASSUME NEW s \in SUBSET (1 .. n), \A u \in SUBSET s : u # s => u \in P
      PROVE  s \in P
  <2>1. CASE s = {}
    BY <2>1 DEF Alike
  <2>2. CASE s # {}
    <3>1. Rest(s) \in P
      BY <1>1, <2>2, MaxIn
    <3> QED
      BY <2>2, <3>1 DEF Alike
  <2> QED
    BY <2>1, <2>2
<1>2. SUBSET (1 .. n) \subseteq P
  <2> HIDE DEF P
  <2> QED
    BY <1>1, IntervalInduction
<1> QED
  BY <1>2

\* The recursive function of a fold exists: FoldLeft has a value.
LEMMA FoldExists ==
  ASSUME NEW G, NEW base, NEW n \in Nat, NEW seq, DOMAIN seq = 1 .. n
  PROVE  \E g : IsFold(g, G, base, seq)
<1> DEFINE Rec(g, S) == g = [s \in SUBSET S |->
                               IF s = {} THEN base ELSE G[<<g[Rest(s)], seq[Max(s)]>>]]
           P == {S \in SUBSET (1 .. n) : \E g : Rec(g, S)}
<1>1. ASSUME NEW S \in SUBSET (1 .. n), \A u \in SUBSET S : u # S => u \in P
      PROVE  S \in P
  <2> DEFINE F(u) == CHOOSE g : Rec(g, u)
             new == [t \in SUBSET S |->
                       IF t = {} THEN base ELSE G[<<F(Rest(t))[Rest(t)], seq[Max(t)]>>]]
  <2>1. \A u \in SUBSET S : u # S => Rec(F(u), u)
    BY <1>1
  <2>2. ASSUME NEW t \in SUBSET S, t # {}
        PROVE  F(Rest(t))[Rest(t)] = new[Rest(t)]
    <3> DEFINE u == Rest(t)
    <3>1. u \in SUBSET S /\ u # S
      <4>1. t \in SUBSET (1 .. n) /\ t # {}
        BY <2>2
      <4>2. Rest(t) \in SUBSET t /\ Rest(t) # t
        BY <4>1, MaxIn
      <4> QED
        BY <4>2
    <3> HIDE DEF u
    <3>2. Rec(F(u), u)
      BY <2>1, <3>1
    <3>3. CASE u = {}
      <4>1. F(u)[u] = base
        <5> HIDE DEF F
        <5> QED
          BY <3>2, <3>3
      <4>2. new[u] = base
        BY <3>1, <3>3
      <4> QED
        BY <4>1, <4>2 DEF u
    <3>4. CASE u # {}
      <4>1. Rest(u) \in SUBSET u /\ Rest(u) # S /\ Rest(u) \in SUBSET S /\ Rest(u) # u
        BY <3>1, <3>4, MaxIn
      <4>2. Rec(F(Rest(u)), Rest(u))
        BY <2>1, <4>1
      <4>3. F(Rest(u))[Rest(u)] = F(u)[Rest(u)]
        <5> DEFINE g == F(Rest(u))
                   h == F(u)
                   v == Rest(u)
                   Q == {s \in SUBSET v : g[s] = h[s]}
        <5>1. Rec(g, v) /\ Rec(h, u) /\ v \in SUBSET u /\ v \in SUBSET (1 .. n)
          BY <3>1, <3>2, <4>1, <4>2
        <5> HIDE DEF g, h, v
        <5>2. ASSUME NEW s \in SUBSET v, \A w \in SUBSET s : w # s => w \in Q
              PROVE  s \in Q
          <6>1. CASE s = {}
            <7>1. g[s] = base /\ h[s] = base
              BY <5>1, <6>1
            <7> QED
              BY <7>1
          <6>2. CASE s # {}
            <7>1. Rest(s) \in Q
              BY <5>1, <5>2, <6>2, MaxIn
            <7>2. /\ g[s] = G[<<g[Rest(s)], seq[Max(s)]>>]
                  /\ h[s] = G[<<h[Rest(s)], seq[Max(s)]>>]
              BY <5>1, <6>2
            <7> QED
              BY <7>1, <7>2
          <6> QED
            BY <6>1, <6>2
        <5>3. IsFiniteSet(v)
          <6> DEFINE D == 1 .. n
          <6>1. IsFiniteSet(D) /\ v \subseteq D
            BY <5>1, FS_Interval
          <6> HIDE DEF D
          <6> QED
            BY <6>1, FS_Subset
        <5>4. SUBSET v \subseteq Q
          <6> HIDE DEF Q
          <6> QED
            BY <5>2, <5>3, SubsetInduction
        <5>5. g[v] = h[v]
          BY <5>4
        <5> QED
          BY <5>5 DEF g, h, v
      <4>4. F(u)[u] = G[<<F(u)[Rest(u)], seq[Max(u)]>>]
        <5> DEFINE h == F(u)
        <5> HIDE DEF F
        <5>1. Rec(h, u)
          BY <3>2
        <5> HIDE DEF h
        <5>2. h[u] = G[<<h[Rest(u)], seq[Max(u)]>>]
          BY <3>4, <5>1
        <5> QED
          BY <5>2 DEF h
      <4>5. new[u] = G[<<F(Rest(u))[Rest(u)], seq[Max(u)]>>]
        <5> HIDE DEF F
        <5> QED
          BY <3>1, <3>4
      <4> HIDE DEF F, new
      <4> QED
        BY <4>3, <4>4, <4>5 DEF u
    <3> QED
      BY <3>3, <3>4
  <2>3. Rec(new, S)
    <3>1. \A t \in SUBSET S : new[t] =
            IF t = {} THEN base ELSE G[<<new[Rest(t)], seq[Max(t)]>>]
      <4> SUFFICES ASSUME NEW t \in SUBSET S
                   PROVE  new[t] = IF t = {} THEN base ELSE G[<<new[Rest(t)], seq[Max(t)]>>]
        OBVIOUS
      <4>1. new[t] = IF t = {} THEN base ELSE G[<<F(Rest(t))[Rest(t)], seq[Max(t)]>>]
        <5> HIDE DEF F
        <5> QED
          OBVIOUS
      <4> HIDE DEF new, F
      <4> QED
        BY <2>2, <4>1
    <3>2. new = [t \in SUBSET S |-> new[t]]
      <4> HIDE DEF F
      <4> QED
        OBVIOUS
    <3> HIDE DEF new
    <3> QED
      BY <3>1, <3>2
  <2> HIDE DEF new, Rec
  <2> QED
    BY <2>3
<1>2. SUBSET (1 .. n) \subseteq P
  <2> HIDE DEF P
  <2> QED
    BY <1>1, IntervalInduction
<1>3. 1 .. n \in P
  <2> HIDE DEF P
  <2> QED
    BY <1>2
<1> QED
  BY <1>3 DEF IsFold

-----------------------------------------------------------------------------
(* The fold, one element at a time                                         *)

\* The fold of nothing is the base.
LEMMA FoldOfEmpty ==
  ASSUME NEW G, NEW base
  PROVE  Fold(G, base, << >>) = base
<1> DEFINE g == CHOOSE g : IsFold(g, G, base, << >>)
<1>1. DOMAIN << >> = 1 .. 0 /\ 1 .. 0 = {}
  OBVIOUS
<1>2. IsFold(g, G, base, << >>)
  BY <1>1, FoldExists
<1> HIDE DEF g
<1>3. g[{}] = base
  BY <1>2 DEF IsFold
<1> QED
  BY <1>1, <1>3 DEF Fold, g

\* Two folds of the same function over sequences that agree.
LEMMA FoldAgrees ==
  ASSUME NEW n \in Nat, NEW G, NEW base,
         NEW s, 1 .. n \subseteq DOMAIN s, NEW t, 1 .. n \subseteq DOMAIN t,
         \A i \in 1 .. n : s[i] = t[i],
         NEW g, IsFold(g, G, base, s), NEW h, IsFold(h, G, base, t)
  PROVE  g[1 .. n] = h[1 .. n]
<1>1. g[{}] = h[{}]
  BY DEF IsFold
<1>2. ASSUME NEW u \in SUBSET (1 .. n), u # {}, g[Rest(u)] = h[Rest(u)]
      PROVE  g[u] = h[u]
  <2>1. u \in SUBSET DOMAIN s /\ u \in SUBSET DOMAIN t
    OBVIOUS
  <2>2. /\ g[u] = G[<<g[Rest(u)], s[Max(u)]>>]
        /\ h[u] = G[<<h[Rest(u)], t[Max(u)]>>]
    BY <1>2, <2>1 DEF IsFold
  <2>3. s[Max(u)] = t[Max(u)]
    BY <1>2, MaxIn
  <2> QED
    BY <1>2, <2>2, <2>3
<1>3. Alike(n, g, h)
  BY <1>1, <1>2 DEF Alike
<1> QED
  BY <1>3, SameRecursion

\* The fold of a longer sequence takes one step more.
LEMMA FoldOfAppend ==
  ASSUME NEW G, NEW base, NEW C, NEW t \in Seq(C), NEW c \in C
  PROVE  Fold(G, base, Append(t, c)) = G[<<Fold(G, base, t), c>>]
<1> DEFINE u == Append(t, c)
           g == CHOOSE g : IsFold(g, G, base, u)
           h == CHOOSE h : IsFold(h, G, base, t)
           n == Len(t)
<1>1. /\ n \in Nat /\ DOMAIN t = 1 .. n /\ DOMAIN u = 1 .. n + 1
      /\ u[n + 1] = c /\ \A i \in 1 .. n : u[i] = t[i]
  BY LenProperties, AppendProperties
<1>2. IsFold(h, G, base, t)
  BY <1>1, FoldExists
<1>3. IsFold(g, G, base, u)
  <2>1. n + 1 \in Nat /\ DOMAIN u = 1 .. n + 1
    BY <1>1
  <2> HIDE DEF u, n
  <2>2. \E f : IsFold(f, G, base, u)
    BY <2>1, FoldExists
  <2> QED
    BY <2>2
<1> HIDE DEF u, n, g, h
<1>4. g[1 .. n] = h[1 .. n]
  <2>1. 1 .. n \subseteq DOMAIN u /\ 1 .. n \subseteq DOMAIN t
    BY <1>1
  <2> QED
    BY <1>1, <1>2, <1>3, <2>1, FoldAgrees
<1>5. g[1 .. n + 1] = G[<<g[1 .. n], c>>]
  <2> DEFINE D == 1 .. n + 1
  <2>1. D # {} /\ Max(D) = n + 1 /\ Rest(D) = 1 .. n
    <3>1. n + 1 \in Nat /\ n + 1 > 0 /\ (n + 1) - 1 = n
      BY <1>1
    <3>2. Max(1 .. n + 1) = n + 1 /\ Rest(1 .. n + 1) = 1 .. n
      BY <3>1, MaxOfInterval
    <3> QED
      BY <3>1, <3>2
  <2>2. D \in SUBSET DOMAIN u
    BY <1>1
  <2> HIDE DEF D
  <2>3. g[D] = G[<<g[Rest(D)], u[Max(D)]>>]
    BY <1>3, <2>1, <2>2 DEF IsFold
  <2> QED
    BY <1>1, <2>1, <2>3 DEF D
<1> QED
  BY <1>1, <1>4, <1>5 DEF Fold, g, h, u

\* The values of a fold, and that a recursion that does what G does computes it.
LEMMA FoldType ==
  ASSUME NEW A, NEW C, NEW G \in [A \X C -> A], NEW base \in A, NEW t \in Seq(C)
  PROVE  Fold(G, base, t) \in A
<1> DEFINE P == {s \in Seq(C) : Fold(G, base, s) \in A}
<1>1. << >> \in P
  BY FoldOfEmpty, EmptySeq
<1>2. ASSUME NEW s \in Seq(C), NEW e \in C, s \in P
      PROVE  Append(s, e) \in P
  <2>1. Append(s, e) \in Seq(C)
    BY AppendProperties
  <2>2. Fold(G, base, Append(s, e)) = G[<<Fold(G, base, s), e>>]
    BY FoldOfAppend
  <2>3. <<Fold(G, base, s), e>> \in A \X C
    BY <1>2
  <2> QED
    BY <2>1, <2>2, <2>3
<1>3. Seq(C) \subseteq P
  <2> HIDE DEF P
  <2> QED
    BY <1>1, <1>2, SeqInduction
<1> QED
  BY <1>3

\* The recursive function of the fold has its values in A on all sets of indices.
LEMMA FoldValues ==
  ASSUME NEW A, NEW C, NEW G \in [A \X C -> A], NEW base \in A, NEW t \in Seq(C),
         NEW g, IsFold(g, G, base, t)
  PROVE  \A s \in SUBSET (1 .. Len(t)) : g[s] \in A
<1> DEFINE P == {s \in SUBSET (1 .. Len(t)) : g[s] \in A}
<1>1. Len(t) \in Nat /\ DOMAIN t = 1 .. Len(t) /\ \A i \in 1 .. Len(t) : t[i] \in C
  BY LenProperties
<1>2. ASSUME NEW s \in SUBSET (1 .. Len(t)), \A u \in SUBSET s : u # s => u \in P
      PROVE  s \in P
  <2>1. CASE s = {}
    BY <1>1, <2>1 DEF IsFold
  <2>2. CASE s # {}
    <3>1. Rest(s) \in P /\ Max(s) \in 1 .. Len(t)
      BY <1>1, <1>2, <2>2, MaxIn
    <3>2. g[s] = G[<<g[Rest(s)], t[Max(s)]>>]
      BY <1>1, <2>2 DEF IsFold
    <3> QED
      BY <1>1, <3>1, <3>2
  <2> QED
    BY <2>1, <2>2
<1>3. SUBSET (1 .. Len(t)) \subseteq P
  <2> HIDE DEF P
  <2> QED
    BY <1>1, <1>2, IntervalInduction
<1> QED
  BY <1>3

\* The recursive function that computes a fold of values in A.
Computes(g, A, C, G, base, t) ==
  /\ g = [s \in SUBSET DOMAIN t |-> g[s]] /\ g[{}] = base
  /\ g[DOMAIN t] = Fold(G, base, t)
  /\ \A s \in SUBSET DOMAIN t : s # {} =>
       /\ g[Rest(s)] \in A /\ t[Max(s)] \in C
       /\ g[s] = G[<<g[Rest(s)], t[Max(s)]>>]

\* There is one for every sequence.
LEMMA FoldSteps ==
  ASSUME NEW A, NEW C, NEW G \in [A \X C -> A], NEW base \in A, NEW t \in Seq(C)
  PROVE  \E g : Computes(g, A, C, G, base, t)
<1> DEFINE g == CHOOSE g : IsFold(g, G, base, t)
<1>1. Len(t) \in Nat /\ DOMAIN t = 1 .. Len(t) /\ \A i \in 1 .. Len(t) : t[i] \in C
  BY LenProperties
<1>2. IsFold(g, G, base, t)
  BY <1>1, FoldExists
<1>3. g[DOMAIN t] = Fold(G, base, t)
  BY DEF Fold
<1> HIDE DEF g
<1>4. g = [s \in SUBSET DOMAIN t |-> g[s]] /\ g[{}] = base
  BY <1>2 DEF IsFold
<1>5. ASSUME NEW s \in SUBSET DOMAIN t, s # {}
      PROVE  /\ g[Rest(s)] \in A /\ t[Max(s)] \in C
             /\ g[s] = G[<<g[Rest(s)], t[Max(s)]>>]
  <2>1. Max(s) \in DOMAIN t /\ Rest(s) \in SUBSET DOMAIN t
    BY <1>1, <1>5, MaxIn
  <2>2. g[s] = G[<<g[Rest(s)], t[Max(s)]>>]
    BY <1>2, <1>5 DEF IsFold
  <2>3. g[Rest(s)] \in A
    BY <1>1, <1>2, <2>1, FoldValues
  <2> QED
    BY <1>1, <2>1, <2>2, <2>3
<1> QED
  BY <1>3, <1>4, <1>5 DEF Computes

\* Another recursive function that does the same.
Follows(h, A, C, G, base, t) ==
  /\ G \in [A \X C -> A] /\ base \in A /\ t \in Seq(C)
  /\ h[{}] = base
  /\ \A s \in SUBSET DOMAIN t : s # {} /\ h[Rest(s)] \in A /\ t[Max(s)] \in C =>
       h[s] = G[<<h[Rest(s)], t[Max(s)]>>]

\* It has the value of the fold.
LEMMA SameAsFold ==
  ASSUME NEW h, NEW A, NEW C, NEW G, NEW base, NEW t, Follows(h, A, C, G, base, t)
  PROVE  h[DOMAIN t] = Fold(G, base, t)
<1>1. PICK g : Computes(g, A, C, G, base, t)
  BY FoldSteps DEF Follows
<1>2. Len(t) \in Nat /\ DOMAIN t = 1 .. Len(t)
  BY LenProperties DEF Follows
<1>3. Alike(Len(t), g, h)
  BY <1>1, <1>2 DEF Alike, Computes, Follows
<1>4. g[1 .. Len(t)] = h[1 .. Len(t)]
  BY <1>2, <1>3, SameRecursion
<1> QED
  BY <1>1, <1>2, <1>4 DEF Computes

=============================================================================

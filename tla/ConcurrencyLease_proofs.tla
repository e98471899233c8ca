----------------------- MODULE ConcurrencyLease_proofs -----------------------
(***************************************************************************)
(* Proofs about ConcurrencyLease for every number of requests and gateway  *)
(* processes, every limit, time to live and number of mishaps.             *)
(***************************************************************************)
EXTENDS ConcurrencyLease, FiniteSetTheorems, TLAPS

\* Every set of requests is finite and no larger than Requests.
LEMMA SubsetSize ==
  ASSUME NEW S \in SUBSET Requests
  PROVE  /\ IsFiniteSet(S)
         /\ Cardinality(S) \in Nat
         /\ Cardinality(S) \in 0 .. Cardinality(Requests)
<1>1. IsFiniteSet(Requests)
  BY LeaseAssumption DEF LeaseAssumption
<1>2. IsFiniteSet(S) /\ Cardinality(S) <= Cardinality(Requests)
  BY <1>1, FS_Subset
<1>3. Cardinality(S) \in Nat /\ Cardinality(Requests) \in Nat
  BY <1>1, <1>2, FS_CardinalityType
<1> QED
  BY <1>2, <1>3

\* The sets of admitted and of counted requests, before and after a step.
LEMMA Sizes ==
  /\ Admitted \subseteq Counted
  /\ Cardinality(Admitted) \in Nat
  /\ Cardinality(Counted) \in 0 .. Cardinality(Requests)
  /\ Cardinality(Admitted) <= Cardinality(Counted)
<1>1. Admitted \subseteq Counted
  BY DEF Admitted, Counted, Counting
<1>2. Admitted \in SUBSET Requests /\ Counted \in SUBSET Requests
  BY DEF Admitted, Counted
<1>3. IsFiniteSet(Counted)
  BY <1>2, SubsetSize
<1>4. Cardinality(Admitted) <= Cardinality(Counted)
  BY <1>1, <1>3, FS_Subset
<1> QED
  BY <1>1, <1>2, <1>4, SubsetSize

\* Moving one request to another label changes the counted set by at most
\* that request.
LEMMA GotoSizes ==
  ASSUME TypeOK, NEW r \in Requests, NEW label \in Labels, Goto(r, label)
  PROVE  /\ pc' \in [Requests -> Labels]
         /\ age' \in [Requests -> 0 .. Deadline]
         /\ Counted' = IF label \in Counting THEN Counted \cup {r} ELSE Counted \ {r}
         /\ Admitted' = IF label \in Admitting THEN Admitted \cup {r} ELSE Admitted \ {r}
         /\ Cardinality(Counted') =
              Cardinality(Counted)
              + (IF label \in Counting THEN 1 ELSE 0)
              - (IF pc[r] \in Counting THEN 1 ELSE 0)
         /\ Cardinality(Admitted') =
              Cardinality(Admitted)
              + (IF label \in Admitting THEN 1 ELSE 0)
              - (IF pc[r] \in Admitting THEN 1 ELSE 0)
<1>0. Deadline \in Nat
  BY LeaseAssumption DEF LeaseAssumption
<1>1. pc' = [pc EXCEPT ![r] = label] /\ pc \in [Requests -> Labels]
  BY DEF Goto, TypeOK
<1>2. pc' \in [Requests -> Labels]
  BY <1>1
<1>3. age' \in [Requests -> 0 .. Deadline]
  BY <1>0 DEF Goto, TypeOK
<1>4. Counted' = IF label \in Counting THEN Counted \cup {r} ELSE Counted \ {r}
  BY <1>1 DEF Counted
<1>5. Admitted' = IF label \in Admitting THEN Admitted \cup {r} ELSE Admitted \ {r}
  BY <1>1 DEF Admitted
<1>6. /\ IsFiniteSet(Counted) /\ Cardinality(Counted) \in Nat
      /\ IsFiniteSet(Admitted) /\ Cardinality(Admitted) \in Nat
  <2>1. Counted \in SUBSET Requests /\ Admitted \in SUBSET Requests
    BY DEF Counted, Admitted
  <2> QED
    BY <2>1, SubsetSize
<1>7. r \in Counted <=> pc[r] \in Counting
  BY DEF Counted
<1>8. r \in Admitted <=> pc[r] \in Admitting
  BY DEF Admitted
<1>9. Cardinality(Counted') =
        Cardinality(Counted)
        + (IF label \in Counting THEN 1 ELSE 0)
        - (IF pc[r] \in Counting THEN 1 ELSE 0)
  <2>1. Cardinality(Counted \cup {r}) =
          IF r \in Counted THEN Cardinality(Counted) ELSE Cardinality(Counted) + 1
    BY <1>6, FS_AddElement
  <2>2. Cardinality(Counted \ {r}) =
          IF r \in Counted THEN Cardinality(Counted) - 1 ELSE Cardinality(Counted)
    BY <1>6, FS_RemoveElement
  <2>3. CASE label \in Counting
    BY <2>1, <2>3, <1>4, <1>6, <1>7
  <2>4. CASE label \notin Counting
    BY <2>2, <2>4, <1>4, <1>6, <1>7
  <2> QED
    BY <2>3, <2>4
<1>10. Cardinality(Admitted') =
         Cardinality(Admitted)
         + (IF label \in Admitting THEN 1 ELSE 0)
         - (IF pc[r] \in Admitting THEN 1 ELSE 0)
  <2>1. Cardinality(Admitted \cup {r}) =
          IF r \in Admitted THEN Cardinality(Admitted) ELSE Cardinality(Admitted) + 1
    BY <1>6, FS_AddElement
  <2>2. Cardinality(Admitted \ {r}) =
          IF r \in Admitted THEN Cardinality(Admitted) - 1 ELSE Cardinality(Admitted)
    BY <1>6, FS_RemoveElement
  <2>3. CASE label \in Admitting
    BY <2>1, <2>3, <1>5, <1>6, <1>8
  <2>4. CASE label \notin Admitting
    BY <2>2, <2>4, <1>5, <1>6, <1>8
  <2> QED
    BY <2>3, <2>4
<1> QED
  BY <1>2, <1>3, <1>4, <1>5, <1>9, <1>10

-----------------------------------------------------------------------------
(* The inductive invariant: the limit follows from the accounting, because *)
(* the count INCR returns is a count of every counted request.             *)

IInv == TypeOK /\ CounterIsSlots /\ AdmittedWithinLimit /\ NoSilentLeak

\* A Redis command of the handler keeps the key well formed.
LEMMA KeyTypes ==
  ASSUME TypeOK, CounterIsSlots
  PROVE  /\ \A d \in Int : AddToKey(d) =>
              val' = val + d /\ ttl' \in 0 .. TTL \cup {NoTTL} /\ ttl' # 0
         /\ SetTTL => val' = val /\ ttl' \in 0 .. TTL \cup {NoTTL} /\ (ttl' = 0 => val = 0)
<1>1. TTL \in Nat \ {0}
  BY LeaseAssumption DEF LeaseAssumption
<1> QED
  BY <1>1 DEF TypeOK, CounterIsSlots, AddToKey, SetTTL, NoTTL

\* A mishap is one more, within its bound.
LEMMA MishapTypes ==
  ASSUME TypeOK, Mishap
  PROVE  mishaps' \in 0 .. MaxMishaps /\ mishaps' # 0
<1>1. MaxMishaps \in Nat
  BY LeaseAssumption DEF LeaseAssumption
<1> QED
  BY <1>1 DEF TypeOK, Mishap

\* A step that moves one request preserves the invariant if it changes the
\* key and the leak count in step with what the move does to the counted set,
\* and admits only on a count within the limit.
LEMMA GotoPreserves ==
  ASSUME IInv, NEW r \in Requests, NEW label \in Labels, Goto(r, label),
         UNCHANGED forgotten,
         val' \in Int, leaked' \in Nat,
         ttl' \in 0 .. TTL \cup {NoTTL}, ttl' = 0 => val' = 0,
         mishaps' \in 0 .. MaxMishaps, mishaps' = 0 => leaked' = 0,
         val' - leaked' = val - leaked
                          + (IF label \in Counting THEN 1 ELSE 0)
                          - (IF pc[r] \in Counting THEN 1 ELSE 0),
         label \in Admitting /\ pc[r] \notin Admitting =>
           val' <= Limit /\ pc[r] \notin Counting
  PROVE  IInv'
<1> USE DEF IInv
<1>1. /\ Limit \in Nat
      /\ val \in Int /\ leaked \in Nat
      /\ forgotten \in 0 .. Cardinality(Requests)
  BY LeaseAssumption DEF LeaseAssumption, TypeOK
<1>2. Cardinality(Requests) \in Nat
  <2>1. Requests \in SUBSET Requests
    OBVIOUS
  <2> QED
    BY <2>1, SubsetSize
<1>3. TypeOK'
  BY GotoSizes DEF TypeOK
<1>4. CounterIsSlots'
  <2>1. Cardinality(Counted) \in Int
    BY Sizes, <1>2
  <2>2. Cardinality(Counted') = Cardinality(Counted)
                                + (IF label \in Counting THEN 1 ELSE 0)
                                - (IF pc[r] \in Counting THEN 1 ELSE 0)
    BY GotoSizes
  <2>3. val' = Cardinality(Counted') + leaked' - forgotten
    BY <1>1, <1>2, <2>1, <2>2 DEF CounterIsSlots
  <2> QED
    BY <2>3 DEF CounterIsSlots
<1>5. AdmittedWithinLimit'
  <2>1. /\ Cardinality(Admitted) \in Nat
        /\ Cardinality(Counted) \in Nat
        /\ Cardinality(Admitted) <= Cardinality(Counted)
    BY Sizes, <1>2
  <2>2. Cardinality(Admitted') = Cardinality(Admitted)
                                 + (IF label \in Admitting THEN 1 ELSE 0)
                                 - (IF pc[r] \in Admitting THEN 1 ELSE 0)
    BY GotoSizes
  <2>3. CASE label \in Admitting /\ pc[r] \notin Admitting
    <3>1. label \in Counting /\ pc[r] \notin Counting /\ val' <= Limit
      BY <2>3 DEF Counting
    <3>2. val' - leaked' = val - leaked + 1 - 0
      BY <3>1
    <3>3. Cardinality(Counted) + leaked' + 1 <= Limit + forgotten
      BY <1>1, <1>2, <2>1, <3>1, <3>2 DEF CounterIsSlots
    <3>4. Cardinality(Admitted') = Cardinality(Admitted) + 1
      BY <2>1, <2>2, <2>3
    <3> QED
      BY <1>1, <1>2, <2>1, <3>3, <3>4 DEF AdmittedWithinLimit
  <2>4. CASE ~(label \in Admitting /\ pc[r] \notin Admitting)
    <3>1. Cardinality(Admitted') <= Cardinality(Admitted)
      BY <2>1, <2>2, <2>4
    <3>2. Cardinality(Admitted') \in Int
      BY <2>1, <2>2
    <3> QED
      BY <1>1, <1>2, <2>1, <3>1, <3>2 DEF AdmittedWithinLimit
  <2> QED
    BY <2>3, <2>4
<1>6. NoSilentLeak'
  BY DEF NoSilentLeak
<1> QED
  BY <1>3, <1>4, <1>5, <1>6

-----------------------------------------------------------------------------
(* One lemma per action of Next.                                           *)

\* The labels and their roles, as facts the arithmetic steps can use.
LEMMA LabelRoles ==
  /\ Labels = {"expire", "windows", "serve", "stream", "iterate", "release",
               "expire_over", "undo", "idle", "incr", "close"}
  /\ \A l \in {"expire", "windows", "serve", "stream", "iterate", "release"} :
       l \in Admitting /\ l \in Counting
  /\ \A l \in {"expire_over", "undo"} : l \notin Admitting /\ l \in Counting
  /\ \A l \in {"idle", "incr", "close"} : l \notin Admitting /\ l \notin Counting
BY DEF Labels, Counting, Admitting

\* Steps that move a request between labels of equal standing and touch
\* nothing else.
LEMMA QuietMove ==
  ASSUME IInv, NEW r \in Requests, NEW label \in Labels, Goto(r, label),
         UNCHANGED <<val, ttl, leaked, forgotten, mishaps>>,
         label \in Counting <=> pc[r] \in Counting,
         label \in Admitting => pc[r] \in Admitting
  PROVE  IInv'
<1>1. val \in Int /\ leaked \in Nat
  BY DEF IInv, TypeOK
<1>2. val' - leaked' = val - leaked
                       + (IF label \in Counting THEN 1 ELSE 0)
                       - (IF pc[r] \in Counting THEN 1 ELSE 0)
  BY <1>1
<1> QED
  BY <1>2, GotoPreserves DEF IInv, TypeOK, CounterIsSlots, NoSilentLeak

\* Giving back: either the DECR is applied or the slot is leaked.
LEMMA GiveBackPreserves ==
  ASSUME IInv, NEW r \in Requests, NEW label \in {"close", "idle"},
         Goto(r, label), pc[r] \in Counting, UNCHANGED forgotten,
         \/ UNCHANGED mishaps /\ AddToKey(-1) /\ UNCHANGED leaked
         \/ Mishap /\ AddToKey(-1) /\ UNCHANGED leaked
         \/ Mishap /\ leaked' = leaked + 1 /\ UNCHANGED <<val, ttl>>
  PROVE  IInv'
<1>1. /\ val \in Int /\ leaked \in Nat /\ mishaps \in 0 .. MaxMishaps
      /\ ttl \in 0 .. TTL \cup {NoTTL} /\ (ttl = 0 => val = 0)
      /\ mishaps = 0 => leaked = 0
  BY DEF IInv, TypeOK, CounterIsSlots, NoSilentLeak
<1>2. label \in Labels /\ label \notin Counting /\ label \notin Admitting
  BY LabelRoles
<1>3. CASE AddToKey(-1) /\ UNCHANGED leaked /\ (Mishap \/ UNCHANGED mishaps)
  <2>1. val' = val - 1 /\ ttl' \in 0 .. TTL \cup {NoTTL} /\ ttl' # 0
    BY <1>1, <1>3, KeyTypes DEF IInv
  <2>2. mishaps' \in 0 .. MaxMishaps /\ (mishaps' = 0 => leaked' = 0)
    BY <1>1, <1>3, MishapTypes DEF IInv
  <2>3. val' - leaked' = val - leaked
                         + (IF label \in Counting THEN 1 ELSE 0)
                         - (IF pc[r] \in Counting THEN 1 ELSE 0)
    BY <1>1, <1>2, <1>3, <2>1
  <2>4. val' \in Int /\ leaked' \in Nat
    BY <1>1, <1>3, <2>1
  <2> QED
    BY <1>2, <2>1, <2>2, <2>3, <2>4, GotoPreserves
<1>4. CASE Mishap /\ leaked' = leaked + 1 /\ UNCHANGED <<val, ttl>>
  <2>1. mishaps' \in 0 .. MaxMishaps /\ mishaps' # 0
    BY <1>4, MishapTypes DEF IInv
  <2>2. val' - leaked' = val - leaked
                         + (IF label \in Counting THEN 1 ELSE 0)
                         - (IF pc[r] \in Counting THEN 1 ELSE 0)
    BY <1>1, <1>2, <1>4
  <2>3. val' \in Int /\ leaked' \in Nat
    BY <1>1, <1>4
  <2> QED
    BY <1>1, <1>2, <1>4, <2>1, <2>2, <2>3, GotoPreserves
<1> QED
  BY <1>3, <1>4

\* INCR counts one request more, and admits it only within the limit.
LEMMA IncrPreserves ==
  ASSUME IInv, NEW r \in Requests, Incr(r)
  PROVE  IInv'
<1>1. /\ val \in Int /\ leaked \in Nat /\ mishaps \in 0 .. MaxMishaps
      /\ ttl \in 0 .. TTL \cup {NoTTL} /\ (ttl = 0 => val = 0)
      /\ mishaps = 0 => leaked = 0
      /\ Limit \in Nat
  BY LeaseAssumption DEF IInv, TypeOK, CounterIsSlots, NoSilentLeak, LeaseAssumption
<1>2. pc[r] = "incr" /\ UNCHANGED forgotten
  BY DEF Incr
<1>3. pc[r] \notin Counting /\ pc[r] \notin Admitting
  BY <1>2, LabelRoles
<1>4. CASE /\ NoMishap
           /\ Goto(r, IF val + 1 <= Limit THEN "expire" ELSE "expire_over")
           /\ AddToKey(1)
           /\ UNCHANGED leaked
  <2> DEFINE label == IF val + 1 <= Limit THEN "expire" ELSE "expire_over"
  <2>1. val' = val + 1 /\ ttl' \in 0 .. TTL \cup {NoTTL} /\ ttl' # 0
    BY <1>4, KeyTypes DEF IInv
  <2>2. label \in Labels /\ label \in Counting /\ (label \in Admitting => val' <= Limit)
    BY <2>1, LabelRoles
  <2>3. mishaps' \in 0 .. MaxMishaps /\ (mishaps' = 0 => leaked' = 0)
    BY <1>1, <1>4 DEF NoMishap
  <2>4. val' - leaked' = val - leaked
                         + (IF label \in Counting THEN 1 ELSE 0)
                         - (IF pc[r] \in Counting THEN 1 ELSE 0)
    BY <1>1, <1>3, <1>4, <2>1, <2>2
  <2>5. val' \in Int /\ leaked' \in Nat /\ Goto(r, label)
    BY <1>1, <1>4, <2>1
  <2> HIDE DEF label
  <2> QED
    BY <1>2, <1>3, <2>1, <2>2, <2>3, <2>4, <2>5, GotoPreserves
<1>5. CASE Mishap /\ Goto(r, "close") /\ AddToKey(1) /\ leaked' = leaked + 1
  <2>1. val' = val + 1 /\ ttl' \in 0 .. TTL \cup {NoTTL} /\ ttl' # 0
    BY <1>5, KeyTypes DEF IInv
  <2>2. "close" \in Labels /\ "close" \notin Counting /\ "close" \notin Admitting
    BY LabelRoles
  <2>3. mishaps' \in 0 .. MaxMishaps /\ mishaps' # 0
    BY <1>5, MishapTypes DEF IInv
  <2>4. val' - leaked' = val - leaked
                         + (IF "close" \in Counting THEN 1 ELSE 0)
                         - (IF pc[r] \in Counting THEN 1 ELSE 0)
    BY <1>1, <1>3, <1>5, <2>1, <2>2
  <2>5. val' \in Int /\ leaked' \in Nat
    BY <1>1, <1>5, <2>1
  <2> QED
    BY <1>2, <1>5, <2>1, <2>2, <2>3, <2>4, <2>5, GotoPreserves
<1>6. CASE Mishap /\ Goto(r, "close") /\ UNCHANGED <<val, ttl, leaked>>
  <2>1. "close" \in Labels /\ "close" \notin Counting /\ "close" \notin Admitting
    BY LabelRoles
  <2>2. mishaps' \in 0 .. MaxMishaps /\ mishaps' # 0
    BY <1>6, MishapTypes DEF IInv
  <2>3. val' - leaked' = val - leaked
                         + (IF "close" \in Counting THEN 1 ELSE 0)
                         - (IF pc[r] \in Counting THEN 1 ELSE 0)
    BY <1>1, <1>3, <1>6, <2>1
  <2>4. val' \in Int /\ leaked' \in Nat
    BY <1>1, <1>6
  <2> QED
    BY <1>1, <1>2, <1>6, <2>1, <2>2, <2>3, <2>4, GotoPreserves
<1> QED
  BY <1>4, <1>5, <1>6 DEF Incr

\* EXPIRE renews the time to live and moves the request on.
LEMMA ExpirePreserves ==
  ASSUME IInv, NEW r \in Requests, Expire(r)
  PROVE  IInv'
<1>1. /\ val \in Int /\ leaked \in Nat /\ mishaps \in 0 .. MaxMishaps
      /\ ttl \in 0 .. TTL \cup {NoTTL} /\ (ttl = 0 => val = 0)
      /\ mishaps = 0 => leaked = 0
  BY DEF IInv, TypeOK, CounterIsSlots, NoSilentLeak
<1>2. pc[r] \in {"expire", "expire_over"} /\ UNCHANGED forgotten
  BY DEF Expire
<1>3. pc[r] \in Counting /\ (pc[r] = "expire" => pc[r] \in Admitting)
  BY <1>2, LabelRoles
<1>4. SetTTL \/ UNCHANGED <<val, ttl>>
  BY DEF Expire
<1>5. val' = val /\ ttl' \in 0 .. TTL \cup {NoTTL} /\ (ttl' = 0 => val' = 0)
  <2>1. CASE SetTTL
    BY <1>1, <2>1, KeyTypes DEF IInv
  <2>2. CASE UNCHANGED <<val, ttl>>
    BY <1>1, <2>2
  <2> QED
    BY <1>4, <2>1, <2>2
<1>6. CASE /\ NoMishap
           /\ Goto(r, IF pc[r] = "expire" THEN "windows" ELSE "undo")
           /\ UNCHANGED leaked
  <2> DEFINE label == IF pc[r] = "expire" THEN "windows" ELSE "undo"
  <2>1. /\ label \in Labels /\ label \in Counting
        /\ label \in Admitting => pc[r] \in Admitting
    BY <1>3, LabelRoles
  <2>2. mishaps' \in 0 .. MaxMishaps /\ (mishaps' = 0 => leaked' = 0)
    BY <1>1, <1>6 DEF NoMishap
  <2>3. val' - leaked' = val - leaked
                         + (IF label \in Counting THEN 1 ELSE 0)
                         - (IF pc[r] \in Counting THEN 1 ELSE 0)
    BY <1>1, <1>3, <1>5, <1>6, <2>1
  <2>4. val' \in Int /\ leaked' \in Nat /\ Goto(r, label)
    BY <1>1, <1>5, <1>6
  <2> HIDE DEF label
  <2> QED
    BY <1>2, <1>5, <2>1, <2>2, <2>3, <2>4, GotoPreserves
<1>7. CASE Mishap /\ Goto(r, "close") /\ leaked' = leaked + 1
  <2>1. "close" \in Labels /\ "close" \notin Counting /\ "close" \notin Admitting
    BY LabelRoles
  <2>2. mishaps' \in 0 .. MaxMishaps /\ mishaps' # 0
    BY <1>7, MishapTypes DEF IInv
  <2>3. val' - leaked' = val - leaked
                         + (IF "close" \in Counting THEN 1 ELSE 0)
                         - (IF pc[r] \in Counting THEN 1 ELSE 0)
    BY <1>1, <1>3, <1>5, <1>7, <2>1
  <2>4. val' \in Int /\ leaked' \in Nat
    BY <1>1, <1>5, <1>7
  <2> QED
    BY <1>2, <1>5, <1>7, <2>1, <2>2, <2>3, <2>4, GotoPreserves
<1> QED
  BY <1>6, <1>7 DEF Expire

\* A killed process takes its requests with it; what they counted is leaked.
LEMMA CrashSizes ==
  ASSUME TypeOK, NEW g \in Gateways, Crash(g)
  PROVE  /\ Counted' \subseteq Counted /\ Admitted' \subseteq Admitted
         /\ pc' \in [Requests -> Labels] /\ age' \in [Requests -> 0 .. Deadline]
         /\ leaked' \in Nat /\ Cardinality(Counted') \in Nat
         /\ Cardinality(Counted') + leaked' = Cardinality(Counted) + leaked
         /\ Cardinality(Admitted') \in Nat
         /\ Cardinality(Admitted') <= Cardinality(Admitted)
<1> DEFINE lost == {r \in Requests : HostOf[r] = g}
<1>1. /\ pc' = [r \in Requests |-> IF r \in lost THEN "idle" ELSE pc[r]]
      /\ age' = [r \in Requests |-> IF r \in lost THEN 0 ELSE age[r]]
      /\ leaked' = leaked + Cardinality(Counted \cap lost)
  BY DEF Crash
<1>2. pc' \in [Requests -> Labels] /\ age' \in [Requests -> 0 .. Deadline]
  BY <1>1, LeaseAssumption DEF TypeOK, Labels, LeaseAssumption
<1>3. Counted' = Counted \ lost /\ Admitted' = Admitted \ lost
  BY <1>1 DEF Counted, Admitted, Counting, Admitting
<1>4. /\ Counted \in SUBSET Requests /\ Admitted \in SUBSET Requests
      /\ Counted \cap lost \in SUBSET Requests
  BY DEF Counted, Admitted
<1>5. /\ IsFiniteSet(Counted) /\ Cardinality(Counted) \in Nat
      /\ Cardinality(Counted \cap lost) \in Nat
      /\ IsFiniteSet(Admitted)
  BY <1>4, SubsetSize
<1>6. Cardinality(Counted') = Cardinality(Counted) - Cardinality(Counted \cap lost)
  <2> HIDE DEF lost
  <2>1. Cardinality(Counted \ lost) = Cardinality(Counted) - Cardinality(Counted \cap lost)
    BY <1>5, FS_Difference
  <2> QED
    BY <1>3, <2>1
<1>7. Cardinality(Admitted') \in Nat /\ Cardinality(Admitted') <= Cardinality(Admitted)
  <2>1. Admitted \ lost \in SUBSET Admitted /\ Admitted \ lost \in SUBSET Requests
    BY <1>4
  <2>2. Cardinality(Admitted \ lost) <= Cardinality(Admitted)
    BY <1>5, <2>1, FS_Subset
  <2>3. Cardinality(Admitted \ lost) \in Nat
    BY <2>1, SubsetSize
  <2> QED
    BY <1>3, <2>2, <2>3
<1>8. leaked \in Nat
  BY DEF TypeOK
<1>9. /\ leaked' \in Nat /\ Cardinality(Counted') \in Nat
      /\ Cardinality(Counted') + leaked' = Cardinality(Counted) + leaked
  <2>1. Counted \ lost \in SUBSET Requests
    BY <1>4
  <2>2. Cardinality(Counted \ lost) \in Nat
    BY <2>1, SubsetSize
  <2> HIDE DEF lost
  <2> QED
    BY <1>1, <1>3, <1>5, <1>6, <1>8, <2>2
<1> QED
  BY <1>2, <1>3, <1>7, <1>9

\* A gateway that crashes leaks the slots its requests hold, which is a mishap.
LEMMA CrashPreserves ==
  ASSUME IInv, NEW g \in Gateways, Crash(g)
  PROVE  IInv'
<1>1. TypeOK /\ CounterIsSlots /\ AdmittedWithinLimit
  BY DEF IInv
<1>2. Mishap /\ UNCHANGED <<val, ttl, forgotten>>
  BY DEF Crash
<1>3. mishaps' \in 0 .. MaxMishaps /\ mishaps' # 0
  BY <1>1, <1>2, MishapTypes
<1>4. TypeOK'
  BY <1>1, <1>2, <1>3, CrashSizes DEF TypeOK
<1>5. CounterIsSlots'
  <2>1. /\ leaked' \in Nat /\ Cardinality(Counted') \in Nat
        /\ Cardinality(Counted') + leaked' = Cardinality(Counted) + leaked
    BY <1>1, CrashSizes
  <2>2. val = Cardinality(Counted) + leaked - forgotten /\ (ttl = 0 => val = 0)
    BY <1>1 DEF CounterIsSlots
  <2>3. /\ Cardinality(Counted) \in Int /\ leaked \in Int /\ forgotten \in Int
    BY <1>1, Sizes DEF TypeOK
  <2>4. val = Cardinality(Counted') + leaked' - forgotten
    BY <2>1, <2>2, <2>3
  <2> QED
    BY <1>2, <2>2, <2>4 DEF CounterIsSlots
<1>6. AdmittedWithinLimit'
  <2>1. /\ Cardinality(Admitted') \in Nat
        /\ Cardinality(Admitted') <= Cardinality(Admitted)
    BY <1>1, CrashSizes
  <2>2. Cardinality(Admitted) \in Nat /\ Limit \in Nat /\ forgotten \in Int
    BY <1>1, Sizes, LeaseAssumption DEF LeaseAssumption, TypeOK
  <2> QED
    BY <1>1, <1>2, <2>1, <2>2 DEF AdmittedWithinLimit
<1>7. NoSilentLeak'
  BY <1>3 DEF NoSilentLeak
<1> QED
  BY <1>4, <1>5, <1>6, <1>7 DEF IInv

\* Losing the key makes every counted request a forgotten one.
LEMMA LoseKeyPreserves ==
  ASSUME IInv, LoseKey, UNCHANGED pc, age' \in [Requests -> 0 .. Deadline],
         mishaps' \in 0 .. MaxMishaps
  PROVE  IInv'
<1>1. Counted' = Counted /\ Admitted' = Admitted
  BY DEF Counted, Admitted
<1>2. val' = 0 /\ ttl' = 0 /\ leaked' = 0 /\ forgotten' = Cardinality(Counted)
  BY DEF LoseKey
<1>3. /\ Cardinality(Admitted) \in Nat
      /\ Cardinality(Counted) \in 0 .. Cardinality(Requests)
      /\ Cardinality(Admitted) <= Cardinality(Counted)
  BY Sizes
<1>4. Limit \in Nat /\ TTL \in Nat
  BY LeaseAssumption DEF LeaseAssumption
<1>5. Cardinality(Requests) \in Nat /\ Cardinality(Counted) \in Nat
  <2>1. Requests \in SUBSET Requests /\ Counted \in SUBSET Requests
    BY DEF Counted
  <2> QED
    BY <2>1, SubsetSize
<1>6. TypeOK'
  BY <1>2, <1>3, <1>4 DEF IInv, TypeOK
<1>7. CounterIsSlots'
  <2>1. val' = Cardinality(Counted') + leaked' - forgotten'
    BY <1>1, <1>2, <1>5
  <2> QED
    BY <1>2, <2>1 DEF CounterIsSlots
<1>8. AdmittedWithinLimit'
  <2>1. Cardinality(Admitted) <= Limit + Cardinality(Counted)
    BY <1>3, <1>4, <1>5
  <2> QED
    BY <1>1, <1>2, <2>1 DEF AdmittedWithinLimit
<1>9. NoSilentLeak'
  BY <1>2 DEF NoSilentLeak
<1> QED
  BY <1>6, <1>7, <1>8, <1>9 DEF IInv

\* A tick ages the requests and may remove the key, which forgets its slots.
LEMMA TickPreserves ==
  ASSUME IInv, Tick
  PROVE  IInv'
<1>1. age' \in [Requests -> 0 .. Deadline]
  <2>1. Deadline \in Nat /\ age \in [Requests -> 0 .. Deadline]
    BY LeaseAssumption DEF LeaseAssumption, IInv, TypeOK
  <2>2. \A r \in Requests : pc[r] # "idle" => age[r] < Deadline
    BY DEF Tick
  <2>3. age' = [r \in Requests |-> IF pc[r] = "idle" THEN 0 ELSE age[r] + 1]
    BY DEF Tick
  <2> QED
    BY <2>1, <2>2, <2>3
<1>2. mishaps' \in 0 .. MaxMishaps /\ UNCHANGED <<pc, mishaps>>
  BY DEF Tick, IInv, TypeOK
<1>3. CASE ttl = 1
  BY <1>1, <1>2, <1>3, LoseKeyPreserves DEF Tick
<1>4. CASE ttl # 1
  <2>1. /\ ttl' = IF ttl > 1 THEN ttl - 1 ELSE ttl
        /\ UNCHANGED <<val, leaked, forgotten>>
    BY <1>4 DEF Tick
  <2>2. TTL \in Nat /\ ttl \in 0 .. TTL \cup {NoTTL}
    BY LeaseAssumption DEF LeaseAssumption, IInv, TypeOK
  <2>3. ttl' \in 0 .. TTL \cup {NoTTL} /\ (ttl' = 0 => ttl = 0)
    BY <1>4, <2>1, <2>2 DEF NoTTL
  <2>4. Counted' = Counted /\ Admitted' = Admitted
    BY <1>2 DEF Counted, Admitted
  <2>5. TypeOK'
    BY <1>1, <1>2, <2>1, <2>3 DEF IInv, TypeOK
  <2>6. CounterIsSlots' /\ AdmittedWithinLimit' /\ NoSilentLeak'
    BY <1>2, <2>1, <2>3, <2>4
       DEF IInv, CounterIsSlots, AdmittedWithinLimit, NoSilentLeak
  <2> QED
    BY <2>5, <2>6 DEF IInv
<1> QED
  BY <1>3, <1>4

-----------------------------------------------------------------------------
\* The invariant holds at first: nothing is counted.
LEMMA InitIInv == Init => IInv
<1> SUFFICES ASSUME Init PROVE IInv
  OBVIOUS
<1>1. Counted = {} /\ Admitted = {}
  BY DEF Init, Counted, Admitted, Counting, Admitting
<1>2. Cardinality(Counted) = 0 /\ Cardinality(Admitted) = 0
  BY <1>1, FS_EmptySet
<1>3. Cardinality(Requests) \in Nat
  <2>1. Requests \in SUBSET Requests
    OBVIOUS
  <2> QED
    BY <2>1, SubsetSize
<1>4. Limit \in Nat /\ TTL \in Nat /\ Deadline \in Nat /\ MaxMishaps \in Nat
  BY LeaseAssumption DEF LeaseAssumption
<1>5. TypeOK
  BY <1>3, <1>4 DEF Init, TypeOK, Labels
<1>6. CounterIsSlots /\ AdmittedWithinLimit /\ NoSilentLeak
  BY <1>2, <1>4 DEF Init, CounterIsSlots, AdmittedWithinLimit, NoSilentLeak
<1> QED
  BY <1>5, <1>6 DEF IInv

\* Every step keeps the invariant.
LEMMA NextIInv == IInv /\ [Next]_vars => IInv'
<1> SUFFICES ASSUME IInv, [Next]_vars PROVE IInv'
  OBVIOUS
<1>1. ASSUME NEW r \in Requests,
             Arrive(r) \/ Windows(r) \/ Serve(r) \/ StartStream(r)
               \/ EndStream(r) \/ Close(r)
      PROVE  IInv'
  <2>1. CASE Arrive(r)
    BY <2>1, QuietMove, LabelRoles DEF Arrive
  <2>2. CASE Windows(r)
    BY <2>2, QuietMove, LabelRoles DEF Windows
  <2>3. CASE Serve(r)
    BY <2>3, QuietMove, LabelRoles DEF Serve
  <2>4. CASE StartStream(r)
    BY <2>4, QuietMove, LabelRoles DEF StartStream
  <2>5. CASE EndStream(r)
    BY <2>5, QuietMove, LabelRoles DEF EndStream
  <2>6. CASE Close(r)
    BY <2>6, QuietMove, LabelRoles DEF Close
  <2> QED
    BY <1>1, <2>1, <2>2, <2>3, <2>4, <2>5, <2>6
<1>2. ASSUME NEW r \in Requests, Undo(r) \/ Release(r)
      PROVE  IInv'
  <2>1. pc[r] \in Counting
    BY <1>2, LabelRoles DEF Undo, Release
  <2>2. GiveBack(r)
    BY <1>2 DEF Undo, Release
  <2> QED
    BY <2>1, <2>2, GiveBackPreserves DEF GiveBack, NoMishap
<1>3. ASSUME NEW r \in Requests, DropUnstarted(r) \/ CancelStream(r)
      PROVE  IInv'
  <2>1. pc[r] \in Counting /\ Goto(r, "idle") /\ UNCHANGED forgotten
    BY <1>3, LabelRoles DEF DropUnstarted, CancelStream
  <2>2. \/ Mishap /\ AddToKey(-1) /\ UNCHANGED leaked
        \/ Mishap /\ leaked' = leaked + 1 /\ UNCHANGED <<val, ttl>>
    BY <1>3 DEF DropUnstarted, CancelStream
  <2> QED
    BY <2>1, <2>2, GiveBackPreserves
<1>4. CASE RedisRestart
  <2>1. mishaps' \in 0 .. MaxMishaps
    BY <1>4, MishapTypes DEF RedisRestart, IInv
  <2>2. age' \in [Requests -> 0 .. Deadline] /\ UNCHANGED pc
    BY <1>4 DEF RedisRestart, IInv, TypeOK
  <2> QED
    BY <1>4, <2>1, <2>2, LoseKeyPreserves DEF RedisRestart
<1>5. CASE UNCHANGED vars
  BY <1>5 DEF vars, IInv, TypeOK, CounterIsSlots, AdmittedWithinLimit,
              NoSilentLeak, Counted, Admitted
<1> QED
  BY <1>1, <1>2, <1>3, <1>4, <1>5,
     IncrPreserves, ExpirePreserves, CrashPreserves, TickPreserves
     DEF Next, Handle, Proceed

\* The inductive invariant holds in every reachable state.
THEOREM InductiveInvariant == Spec => []IInv
<1>1. Init => IInv
  BY InitIInv
<1>2. IInv /\ [Next]_vars => IInv'
  BY NextIInv
<1> QED
  BY <1>1, <1>2, PTL DEF Spec

\* Every variable keeps its type.
THEOREM TypeCorrect == Spec => []TypeOK
<1>1. IInv => TypeOK
  BY DEF IInv
<1> QED
  BY <1>1, InductiveInvariant, PTL

\* The Redis counter counts exactly the slots still owed a DECR: no request
\* gives its slot back twice, and only mishaps lose one: without any no slot is
\* lost, whichever way the handlers end.
THEOREM CounterCorrect == Spec => []CounterAccounts
<1>1. IInv => CounterAccounts
  BY DEF IInv, CounterAccounts
<1> QED
  BY <1>1, InductiveInvariant, PTL

\* The limit of an API key is exceeded by at most the number of requests the
\* key counted when Redis last lost it.
THEOREM LimitCorrect == Spec => []AdmittedWithinLimit
<1>1. IInv => AdmittedWithinLimit
  BY DEF IInv
<1> QED
  BY <1>1, InductiveInvariant, PTL

-----------------------------------------------------------------------------
(* ConcurrencyLease implements SlotPool.                                   *)

\* The instance's copy of Cardinality is the one used here.
LEMMA SameCardinality == \A S : Pool!Cardinality(S) = Cardinality(S)
  BY DEF Cardinality, Pool!Cardinality

\* Steps that admit nobody and keep what was forgotten give slots back.
LEMMA ShrinkIsGiveBack ==
  ASSUME Admitted' \subseteq Admitted, UNCHANGED forgotten
  PROVE  Pool!Next
<1>1. Admitted \subseteq Requests
  BY DEF Admitted
<1>2. Admitted' = Admitted \ (Requests \ Admitted')
  BY <1>1
<1>3. Pool!GiveBack(Requests \ Admitted')
  BY <1>2 DEF Pool!GiveBack
<1>4. (Requests \ Admitted') \in SUBSET Requests
  OBVIOUS
<1> QED
  BY <1>3, <1>4 DEF Pool!Next

\* An INCR that stays within the limit is granted by the pool too.
LEMMA IncrIsGrant ==
  ASSUME IInv, NEW r \in Requests, Incr(r)
  PROVE  Pool!Next
<1>1. pc[r] \notin Counting /\ pc[r] \notin Admitting /\ UNCHANGED forgotten
  BY LabelRoles DEF Incr
<1>2. r \notin Admitted
  BY <1>1 DEF Admitted
<1>3. CASE val + 1 <= Limit /\ Goto(r, "expire")
  <2>1. Admitted' = Admitted \cup {r}
    BY <1>3, LabelRoles, GotoSizes DEF IInv
  <2>2. /\ Cardinality(Admitted) \in Nat /\ Cardinality(Counted) \in Int
        /\ Cardinality(Admitted) <= Cardinality(Counted)
        /\ val \in Int /\ leaked \in Nat /\ forgotten \in Int /\ Limit \in Nat
        /\ val = Cardinality(Counted) + leaked - forgotten
    BY Sizes, LeaseAssumption DEF LeaseAssumption, IInv, TypeOK, CounterIsSlots
  <2>3. Cardinality(Admitted) + 1 <= Limit + forgotten
    BY <1>3, <2>2
  <2>4. Pool!Grant(r)
    BY <1>1, <1>2, <2>1, <2>3, SameCardinality DEF Pool!Grant
  <2> QED
    BY <2>4 DEF Pool!Next
<1>4. CASE Goto(r, "expire_over") \/ Goto(r, "close")
  <2>1. Admitted' \subseteq Admitted
    BY <1>4, LabelRoles, GotoSizes DEF IInv
  <2> QED
    BY <1>1, <2>1, ShrinkIsGiveBack
<1> QED
  BY <1>3, <1>4 DEF Incr

\* Losing the key is the pool's Forget.
LEMMA LoseKeyIsForget ==
  ASSUME IInv, LoseKey, UNCHANGED pc
  PROVE  Pool!Next
<1>1. Admitted' = Admitted
  BY DEF Admitted
<1>2. forgotten' = Cardinality(Counted)
  BY DEF LoseKey
<1>3. Cardinality(Counted) \in Cardinality(Admitted) .. Cardinality(Requests)
  BY Sizes
<1>4. Pool!Forget
  BY <1>1, <1>2, <1>3, SameCardinality DEF Pool!Forget
<1> QED
  BY <1>4 DEF Pool!Next

\* Every step is one of the pool or leaves the pool alone.
LEMMA StepIsPoolStep == IInv /\ [Next]_vars => [Pool!Next]_<<Admitted, forgotten>>
<1> SUFFICES ASSUME IInv, [Next]_vars PROVE [Pool!Next]_<<Admitted, forgotten>>
  OBVIOUS
<1>1. ASSUME NEW r \in Requests, Arrive(r) \/ Handle(r) \/ DropUnstarted(r) \/ CancelStream(r),
             ~Incr(r)
      PROVE  Pool!Next
  <2>1. PICK label \in Labels : Goto(r, label) /\ (label \in Admitting => pc[r] \in Admitting)
    BY <1>1, LabelRoles
       DEF Handle, Proceed, Arrive, Expire, Undo, Windows, Serve, StartStream, EndStream,
           Release, Close, GiveBack, DropUnstarted, CancelStream
  <2>2. UNCHANGED forgotten
    BY <1>1
       DEF Handle, Proceed, Arrive, Expire, Undo, Windows, Serve, StartStream, EndStream,
           Release, Close, GiveBack, DropUnstarted, CancelStream
  <2>3. Admitted' = IF label \in Admitting THEN Admitted \cup {r} ELSE Admitted \ {r}
    BY <2>1, GotoSizes DEF IInv
  <2>4. Admitted' \subseteq Admitted
    BY <2>1, <2>3 DEF Admitted
  <2> QED
    BY <2>2, <2>4, ShrinkIsGiveBack
<1>2. ASSUME NEW r \in Requests, Incr(r)
      PROVE  Pool!Next
  BY <1>2, IncrIsGrant
<1>3. ASSUME NEW g \in Gateways, Crash(g)
      PROVE  Pool!Next
  <2>1. Admitted' \subseteq Admitted
    BY <1>3, CrashSizes DEF IInv
  <2>2. UNCHANGED forgotten
    BY <1>3 DEF Crash
  <2> QED
    BY <2>1, <2>2, ShrinkIsGiveBack
<1>4. CASE RedisRestart
  BY <1>4, LoseKeyIsForget DEF RedisRestart
<1>5. CASE Tick
  <2>1. UNCHANGED pc
    BY <1>5 DEF Tick
  <2>2. LoseKey \/ UNCHANGED forgotten
    BY <1>5 DEF Tick
  <2>3. CASE LoseKey
    BY <2>1, <2>3, LoseKeyIsForget
  <2>4. CASE UNCHANGED forgotten
    BY <2>1, <2>4 DEF Admitted
  <2> QED
    BY <2>2, <2>3, <2>4
<1>6. CASE UNCHANGED vars
  BY <1>6 DEF vars, Admitted
<1> QED
  BY <1>1, <1>2, <1>3, <1>4, <1>5, <1>6 DEF Next, Handle, Proceed

\* The limiter implements the abstract pool of slots.
THEOREM LeaseImplementsPool == Spec => ImplementsPool
<1>1. Init => Pool!Init
  BY DEF Init, Pool!Init, Admitted, Admitting
<1>2. IInv /\ [Next]_vars => [Pool!Next]_<<Admitted, forgotten>>
  BY StepIsPoolStep
<1> QED
  BY <1>1, <1>2, InductiveInvariant, PTL
     DEF Spec, ImplementsPool, Pool!Spec, Pool!poolVars

-----------------------------------------------------------------------------
(* The key does not expire under a request that renewed it, if requests    *)
(* are shorter than its time to live.                                      *)

Renewed == Counting \ {"expire", "expire_over"}

\* Time since a request arrived and time left to the key add up to at least
\* a full time to live, unless the key is missing or has no time to live.
RenewInv ==
  \A r \in Requests :
    pc[r] \in Renewed => ttl \in {0, NoTTL} \/ ttl + age[r] >= TTL

\* A step of one request leaves RenewInv if it renews the key before it
\* moves the request past its EXPIRE.
LEMMA GotoRenews ==
  ASSUME TypeOK, RenewInv, NEW q \in Requests, NEW label \in Labels, Goto(q, label),
         ttl' \in {0, NoTTL, TTL} \/ ttl' = ttl,
         label \in Renewed /\ pc[q] \notin Renewed => ttl' \in {0, TTL}
  PROVE  RenewInv'
<1> SUFFICES ASSUME NEW r \in Requests, pc'[r] \in Renewed
             PROVE  ttl' \in {0, NoTTL} \/ ttl' + age'[r] >= TTL
  BY DEF RenewInv
<1>1. TTL \in Nat /\ Deadline \in Nat
  BY LeaseAssumption DEF LeaseAssumption
<1>2. label # "idle" \/ r # q
  BY DEF Goto, TypeOK, Renewed, Counting, Admitting
<1>3. age'[r] = age[r] /\ age[r] \in Nat
  BY <1>1, <1>2 DEF Goto, TypeOK
<1>4. CASE ttl' \in {0, NoTTL, TTL}
  BY <1>1, <1>3, <1>4
<1>5. CASE ttl' = ttl /\ pc[r] \in Renewed
  BY <1>3, <1>5 DEF RenewInv
<1>6. CASE pc[r] \notin Renewed
  <2>1. r = q /\ label \in Renewed
    BY <1>6 DEF Goto, TypeOK
  <2> QED
    BY <1>4, <1>6, <2>1
<1> QED
  BY <1>4, <1>5, <1>6

\* A tick keeps the ages behind the last renewal; a key about to expire has no
\* request past its EXPIRE.
LEMMA TickRenews ==
  ASSUME TypeOK, RenewInv, Tick, Deadline < TTL
  PROVE  /\ RenewInv'
         /\ ttl = 1 => Counted \subseteq Acquiring
<1>1. /\ TTL \in Nat \ {0} /\ Deadline \in Nat
      /\ ttl \in 0 .. TTL \cup {NoTTL}
      /\ age \in [Requests -> 0 .. Deadline]
  BY LeaseAssumption DEF LeaseAssumption, TypeOK
<1>2. \A r \in Requests : pc[r] # "idle" => age[r] < Deadline /\ age'[r] = age[r] + 1
  BY DEF Tick
<1>3. \A r \in Requests : pc[r] \in Renewed => pc[r] # "idle"
  BY DEF Renewed, Counting, Admitting
<1>4. UNCHANGED pc
  BY DEF Tick
<1>5. CASE ttl = 1
  <2>1. \A r \in Requests : pc[r] \notin Renewed
    <3>1. \A r \in Requests : pc[r] \in Renewed => 1 + age[r] >= TTL
      BY <1>5 DEF RenewInv, NoTTL
    <3> QED
      BY <1>1, <1>2, <1>3, <3>1
  <2>2. Counted \subseteq Acquiring
    BY <2>1 DEF Counted, Acquiring, Renewed
  <2>3. RenewInv'
    BY <1>4, <2>1 DEF RenewInv
  <2> QED
    BY <2>2, <2>3
<1>6. CASE ttl # 1
  <2>1. ttl' = IF ttl > 1 THEN ttl - 1 ELSE ttl
    BY <1>6 DEF Tick
  <2>2. ASSUME NEW r \in Requests, pc[r] \in Renewed
        PROVE  ttl' \in {0, NoTTL} \/ ttl' + age'[r] >= TTL
    <3>1. ttl \in {0, NoTTL} \/ ttl + age[r] >= TTL
      BY <2>2 DEF RenewInv
    <3>2. age[r] \in Nat /\ age'[r] = age[r] + 1
      BY <1>1, <1>2, <1>3, <2>2
    <3>3. CASE ttl \in {0, NoTTL}
      BY <2>1, <3>3 DEF NoTTL
    <3>4. CASE ttl > 1 /\ ttl + age[r] >= TTL
      BY <1>1, <2>1, <3>2, <3>4 DEF NoTTL
    <3> QED
      BY <1>1, <1>6, <3>1, <3>3, <3>4 DEF NoTTL
  <2>3. RenewInv'
    BY <1>4, <2>2 DEF RenewInv
  <2> QED
    BY <1>6, <2>3
<1> QED
  BY <1>5, <1>6

\* So does every step.
LEMMA NextRenews ==
  ASSUME Deadline < TTL, TypeOK, RenewInv, [Next]_vars
  PROVE  RenewInv'
<1>1. ASSUME NEW r \in Requests, Arrive(r) \/ Handle(r) \/ DropUnstarted(r) \/ CancelStream(r)
      PROVE  RenewInv'
  <2>1. PICK label \in Labels :
          Goto(r, label) /\ (label \in Renewed => pc[r] \in Renewed \/ (Expire(r) /\ SetTTL))
    BY <1>1, LabelRoles
       DEF Handle, Proceed, Arrive, Incr, Expire, Undo, Windows, Serve, StartStream, EndStream,
           Release, Close, GiveBack, DropUnstarted, CancelStream, Renewed
  <2>2. ttl' \in {0, NoTTL, TTL} \/ ttl' = ttl
    BY <1>1
       DEF Handle, Proceed, Arrive, Incr, Expire, Undo, Windows, Serve, StartStream, EndStream,
           Release, Close, GiveBack, DropUnstarted, CancelStream, AddToKey, SetTTL
  <2>3. SetTTL => ttl' \in {0, TTL}
    BY DEF SetTTL
  <2> QED
    BY <2>1, <2>2, <2>3, GotoRenews
<1>2. ASSUME NEW g \in Gateways, Crash(g)
      PROVE  RenewInv'
  <2>1. UNCHANGED ttl
    BY <1>2 DEF Crash
  <2>2. \A r \in Requests : pc'[r] \in Renewed => pc'[r] = pc[r] /\ age'[r] = age[r]
    BY <1>2 DEF Crash, Renewed, Counting, Admitting
  <2> QED
    BY <2>1, <2>2 DEF RenewInv
<1>3. CASE RedisRestart
  BY <1>3 DEF RedisRestart, LoseKey, RenewInv
<1>4. CASE Tick
  BY <1>4, TickRenews
<1>5. CASE UNCHANGED vars
  BY <1>5 DEF vars, RenewInv
<1> QED
  BY <1>1, <1>2, <1>3, <1>4, <1>5 DEF Next

\* Without mishaps, and when requests are shorter than the key's time to live,
\* the key expires only under requests that have not sent their EXPIRE yet.
THEOREM ExpiryCorrect ==
  ASSUME Deadline < TTL
  PROVE  Spec => ExpiryOnlyRacesAcquire
<1>1. Init => RenewInv
  BY DEF Init, RenewInv, Renewed, Counting, Admitting
<1>2. TypeOK /\ RenewInv /\ [Next]_vars => RenewInv'
  BY NextRenews
<1>3. TypeOK /\ RenewInv /\ [Next]_vars
        => [ttl = 1 /\ ttl' = 0 /\ NoMishap => Counted \subseteq Acquiring]_vars
  <2> SUFFICES ASSUME TypeOK, RenewInv, Next, ttl = 1, ttl' = 0, NoMishap
               PROVE  Counted \subseteq Acquiring
    BY DEF vars
  <2>1. TTL \in Nat \ {0} /\ mishaps \in Int
    BY LeaseAssumption DEF LeaseAssumption, TypeOK
  <2>2. ~Mishap
    BY <2>1 DEF Mishap, NoMishap
  <2>3. \A r \in Requests : ~(Arrive(r) \/ Handle(r) \/ DropUnstarted(r) \/ CancelStream(r))
    BY <2>1
       DEF Handle, Proceed, Arrive, Incr, Expire, Undo, Windows, Serve, StartStream, EndStream,
           Release, Close, GiveBack, DropUnstarted, CancelStream, AddToKey, SetTTL, NoTTL
  <2>4. Tick
    BY <2>2, <2>3 DEF Next, Crash, RedisRestart
  <2> QED
    BY <2>4, TickRenews
<1> QED
  BY <1>1, <1>2, <1>3, TypeCorrect, PTL DEF Spec, ExpiryOnlyRacesAcquire

-----------------------------------------------------------------------------
(* The time to live of a positive counter                                  *)

\* A step of one request leaves a positive counter without a time to live only
\* to the requests that are still to send EXPIRE.
LEMMA HandleExpires ==
  ASSUME TypeOK, CounterAccounts, PositiveCounterExpires, mishaps' = 0,
         NEW q \in Requests,
         Arrive(q) \/ Handle(q) \/ DropUnstarted(q) \/ CancelStream(q)
  PROVE  PositiveCounterExpires'
<1> SUFFICES ASSUME ttl' = NoTTL, val' > 0
             PROVE  \E r \in Requests : pc'[r] \in {"expire", "expire_over"}
  BY DEF PositiveCounterExpires
<1>1. /\ mishaps = 0 /\ ~Mishap
      /\ pc \in [Requests -> Labels] /\ val \in Int
      /\ TTL \in Nat \ {0} /\ (ttl = 0 => val = 0)
  <2>1. mishaps \in Nat /\ mishaps' \in {mishaps, mishaps + 1}
    BY LeaseAssumption
       DEF LeaseAssumption, TypeOK, Handle, Proceed, Arrive, Incr, Expire, Undo, Windows, Serve, StartStream,
           EndStream, Release, Close, GiveBack, DropUnstarted, CancelStream, Mishap, NoMishap
  <2>2. mishaps = 0 /\ ~Mishap
    BY <2>1 DEF Mishap
  <2> QED
    BY <2>2, LeaseAssumption DEF LeaseAssumption, TypeOK, CounterAccounts, CounterIsSlots
<1>2. CASE Incr(q)
  <2>1. Goto(q, IF val + 1 <= Limit THEN "expire" ELSE "expire_over")
    BY <1>1, <1>2 DEF Incr
  <2>2. pc'[q] \in {"expire", "expire_over"}
    BY <1>1, <2>1 DEF Goto
  <2> QED
    BY <2>2
<1>3. CASE Expire(q)
  <2>1. SetTTL
    BY <1>1, <1>3 DEF Expire
  <2> QED
    BY <1>1, <2>1 DEF SetTTL, NoTTL
<1>4. CASE /\ pc[q] \notin {"expire", "expire_over"}
           /\ \E label : pc' = [pc EXCEPT ![q] = label]
           /\ AddToKey(-1) \/ UNCHANGED <<val, ttl>>
  <2>1. ttl = NoTTL /\ val > 0
    BY <1>1, <1>4 DEF AddToKey, NoTTL
  <2>2. PICK r \in Requests : pc[r] \in {"expire", "expire_over"}
    BY <1>1, <2>1 DEF PositiveCounterExpires
  <2>3. pc'[r] = pc[r]
    BY <1>1, <1>4, <2>2
  <2> QED
    BY <2>2, <2>3
<1>5. Incr(q) \/ Expire(q)
        \/ /\ pc[q] \notin {"expire", "expire_over"}
           /\ \E label : pc' = [pc EXCEPT ![q] = label]
           /\ AddToKey(-1) \/ UNCHANGED <<val, ttl>>
  BY <1>1
     DEF Handle, Proceed, Arrive, Undo, Windows, Serve, StartStream, EndStream, Release, Close, GiveBack,
         DropUnstarted, CancelStream, Goto
<1> QED
  BY <1>2, <1>3, <1>4, <1>5

\* While nothing fails, no step leaves a positive counter without a time to
\* live to come.
LEMMA NextExpires ==
  ASSUME TypeOK, CounterAccounts, PositiveCounterExpires, [Next]_vars
  PROVE  PositiveCounterExpires'
<1> SUFFICES ASSUME mishaps' = 0
             PROVE  PositiveCounterExpires'
  BY DEF PositiveCounterExpires
<1>1. mishaps \in Nat /\ MaxMishaps \in Nat
  BY LeaseAssumption DEF LeaseAssumption, TypeOK
<1>2. ASSUME NEW r \in Requests, Arrive(r) \/ Handle(r) \/ DropUnstarted(r) \/ CancelStream(r)
      PROVE  PositiveCounterExpires'
  BY <1>2, HandleExpires
<1>3. ~Mishap
  BY <1>1 DEF Mishap
<1>4. CASE Tick
  <2>1. UNCHANGED <<pc, mishaps>>
    BY <1>4 DEF Tick
  <2>2. (ttl' = NoTTL => ttl = NoTTL) /\ (ttl' # 0 => val' = val)
    BY <1>4, LeaseAssumption DEF Tick, LoseKey, TypeOK, LeaseAssumption, NoTTL
  <2> QED
    BY <2>1, <2>2 DEF PositiveCounterExpires, NoTTL
<1>5. CASE UNCHANGED vars
  BY <1>5 DEF vars, PositiveCounterExpires
<1> QED
  BY <1>2, <1>3, <1>4, <1>5 DEF Next, Crash, RedisRestart

\* Without mishaps a positive counter without a time to live is about to get
\* one: a request whose INCR it counted is still to send its EXPIRE.
THEOREM PositiveCounterHeals == Spec => []PositiveCounterExpires
<1>1. Init => PositiveCounterExpires
  BY DEF Init, PositiveCounterExpires, NoTTL
<1>2. TypeOK /\ CounterAccounts /\ PositiveCounterExpires /\ [Next]_vars
        => PositiveCounterExpires'
  BY NextExpires
<1> QED
  BY <1>1, <1>2, TypeCorrect, CounterCorrect, PTL DEF Spec

-----------------------------------------------------------------------------
(* Rejections                                                              *)

\* Only the INCR of a request over the limit decides that it is rejected.
LEMMA RejectionIsIncr ==
  ASSUME TypeOK, [Next]_vars, NEW r \in Requests, pc[r] = "incr", pc'[r] = "expire_over"
  PROVE  val + 1 > Limit
<1>1. pc \in [Requests -> Labels]
  BY DEF TypeOK
<1>2. ASSUME NEW q \in Requests, Arrive(q) \/ Handle(q) \/ DropUnstarted(q) \/ CancelStream(q)
      PROVE  Incr(r) /\ Goto(r, IF val + 1 <= Limit THEN "expire" ELSE "expire_over")
  <2>1. \E label : Goto(q, label)
    BY <1>2
       DEF Handle, Proceed, Arrive, Incr, Expire, Undo, Windows, Serve, StartStream, EndStream,
           Release, Close, GiveBack, DropUnstarted, CancelStream
  <2>2. q = r
    BY <1>1, <2>1 DEF Goto
  <2>3. Incr(r)
    BY <1>2, <2>2
       DEF Handle, Proceed, Arrive, Expire, Undo, Windows, Serve, StartStream, EndStream,
           Release, Close, DropUnstarted, CancelStream
  <2>4. ~Goto(r, "close")
    BY <1>1 DEF Goto
  <2> QED
    BY <2>3, <2>4 DEF Incr
<1>3. ~(\E g \in Gateways : Crash(g)) /\ ~RedisRestart /\ ~Tick /\ ~UNCHANGED vars
  BY <1>1 DEF Crash, RedisRestart, Tick, vars
<1>4. Goto(r, IF val + 1 <= Limit THEN "expire" ELSE "expire_over")
  BY <1>2, <1>3 DEF Next
<1>5. ~(val + 1 <= Limit)
  BY <1>1, <1>4 DEF Goto
<1> QED
  BY <1>5, LeaseAssumption DEF LeaseAssumption, TypeOK

\* Nobody is rejected but for requests that are counted or were leaked: a loser
\* of a burst stands in the way of others until its own DECR and no longer.
THEOREM RejectionsHaveACause == Spec => RejectedWhileFull
<1>1. TypeOK /\ CounterAccounts /\ [Next]_vars
        => [\A r \in Requests : pc[r] = "incr" /\ pc'[r] = "expire_over" =>
              Cardinality(Counted) + leaked >= Limit + forgotten]_vars
  <2> SUFFICES ASSUME TypeOK, CounterAccounts, [Next]_vars,
                      NEW r \in Requests, pc[r] = "incr", pc'[r] = "expire_over"
               PROVE  Cardinality(Counted) + leaked >= Limit + forgotten
    OBVIOUS
  <2>1. val + 1 > Limit
    BY RejectionIsIncr
  <2>2. Cardinality(Counted) \in Nat /\ forgotten \in Nat
    BY Sizes, SubsetSize DEF TypeOK
  <2> QED
    BY <2>1, <2>2, LeaseAssumption DEF LeaseAssumption, TypeOK, CounterAccounts, CounterIsSlots
<1> QED
  BY <1>1, TypeCorrect, CounterCorrect, PTL DEF Spec, RejectedWhileFull

=============================================================================

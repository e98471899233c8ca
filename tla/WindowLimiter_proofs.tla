------------------------- MODULE WindowLimiter_proofs -------------------------
(***************************************************************************)
(* Proofs about WindowLimiter for every set of requests, every cost, limit,*)
(* window, delay, clock and number of mishaps.  The two counters obey the  *)
(* same argument, so it is made once, for a counter of kind k that each    *)
(* request raises by its price.                                            *)
(***************************************************************************)
EXTENDS WindowLimiter, FoldLemmas

IncrAt(k)   == IF k = "rpm" THEN "rpm_incr" ELSE "tpm_incr"
ExpireAt(k) == IF k = "rpm" THEN "rpm_expire" ELSE "tpm_expire"
Rejected(k) == IF k = "rpm" THEN "no_requests" ELSE "no_tokens"
LimitOf(k)  == IF k = "rpm" THEN RequestLimit ELSE TokenLimit
Price(k)    == [r \in Requests |-> IF k = "rpm" THEN 1 ELSE Cost[r]]
Passed(k)   == {r \in Requests : charged[k][r] # NoCharge /\ pc[r] # Rejected(k)}

\* Where a request is before the counter of kind k has counted it.
Before(k) == IF k = "rpm" THEN {"idle", "rpm_incr"}
             ELSE {"idle", "rpm_incr", "rpm_expire", "tpm_incr", "no_requests"}

-----------------------------------------------------------------------------
(* The parts of the inductive invariant                                    *)

\* A key that exists has been created and counts something.
Keys ==
  \A k \in Kinds, b \in Buckets :
    IF expires[k][b] = Missing
    THEN count[k][b] = 0
    ELSE count[k][b] > 0 /\ life[k][b] > 0

\* A request is counted once, by a command that it has sent, in a life that
\* the key has begun.
Charges ==
  \A k \in Kinds, r \in Requests : charged[k][r] # NoCharge =>
    /\ pc[r] \notin Before(k)
    /\ charged[k][r][2] \in 1 .. life[k][charged[k][r][1]]

\* A request whose command is sent asks for no more than the limit.
Affordable ==
  \A k \in Kinds, r \in Requests :
    pc[r] \in {IncrAt(k), ExpireAt(k)} => Price(k)[r] <= LimitOf(k)

\* The key counts what the requests of its life asked for; what it counts and
\* no request was told of is due to mishaps.
Accounts ==
  \A k \in Kinds, b \in Buckets : expires[k][b] # Missing =>
    LET total == SumOn(Price(k), CountedBy(Requests, k, b, life[k][b]))
    IN total <= count[k][b] /\ (mishaps = 0 => total = count[k][b])

\* RequestsPerLife and TokensPerLife.
PerLife ==
  \A k \in Kinds, b \in Buckets : \A l \in 1 .. life[k][b] :
    SumOn(Price(k), CountedBy(Passed(k), k, b, l)) <= LimitOf(k)

\* RejectionsJustified.
Justified ==
  mishaps = 0 =>
    \A k \in Kinds, r \in Requests : pc[r] = Rejected(k) =>
      \/ k = "tpm" /\ Cost[r] > TokenLimit
      \/ /\ charged[k][r] # NoCharge
         /\ SumOn(Price(k), CountedBy(Requests, k, charged[k][r][1], charged[k][r][2]))
              > LimitOf(k)

\* CountersExpire.
Expiring ==
  mishaps = 0 =>
    \A k \in Kinds, b \in Buckets : expires[k][b] = Never =>
      \E r \in Requests : pc[r] = ExpireAt(k) /\ bucket[r] = b

IInv ==
  /\ TypeOK /\ Keys /\ Charges /\ Affordable
  /\ Accounts /\ PerLife /\ Justified /\ Expiring

-----------------------------------------------------------------------------
(* Constants and operators                                                 *)

\* What the assumption says of each constant.
LEMMA Constants ==
  /\ IsFiniteSet(Requests) /\ Cost \in [Requests -> Nat \ {0}]
  /\ RequestLimit \in Nat \ {0} /\ TokenLimit \in Nat \ {0} /\ Window \in Nat \ {0}
  /\ MaxDelay \in Nat /\ MaxTime \in Nat /\ MaxMishaps \in Nat
BY WindowAssumption DEF WindowAssumption

\* Limits and prices are positive.
LEMMA Prices ==
  /\ \A k \in Kinds : LimitOf(k) \in Nat \ {0}
  /\ \A k \in Kinds, r \in Requests : Price(k)[r] \in Nat \ {0}
BY Constants DEF LimitOf, Price, Kinds

\* A bucket begins with its minute and ends with it.
LEMMA BucketOf ==
  ASSUME NEW t \in 0 .. MaxTime
  PROVE  /\ t \div Window \in Buckets
         /\ (t \div Window) * Window <= t
         /\ t < (t \div Window) * Window + Window
<1>1. /\ t \div Window \in Nat /\ MaxTime \div Window \in Nat
      /\ (t \div Window) * Window <= t /\ t < (t \div Window) * Window + Window
      /\ MaxTime < (MaxTime \div Window) * Window + Window
  BY Constants
<1> DEFINE q == t \div Window
           m == MaxTime \div Window
<1>2. q * Window < m * Window + Window
  BY <1>1, Constants
<1>3. q \in Nat /\ m \in Nat
  BY <1>1
<1>4. q <= m
  <2> HIDE DEF q, m
  <2> SUFFICES ASSUME q > m PROVE FALSE
    BY <1>3
  <2>1. PICK d \in Nat : q = m + 1 + d
    <3>1. q - m - 1 \in Nat /\ q = m + 1 + (q - m - 1)
      BY <1>3
    <3> QED
      BY <3>1
  <2>2. q * Window = m * Window + Window + d * Window /\ d * Window \in Nat
    BY <2>1, <1>3, Constants
  <2>3. m * Window \in Nat
    BY <1>3, Constants
  <2> QED
    BY <1>2, <2>2, <2>3, Constants
<1> QED
  BY <1>1, <1>3, <1>4 DEF Buckets

\* The sets the sums run over are finite.
LEMMA SumsOfRequests ==
  ASSUME NEW k \in Kinds, NEW S \in SUBSET Requests
  PROVE  IsFiniteSet(S) /\ SumOn(Price(k), S) \in Nat
<1>1. IsFiniteSet(S)
  BY Constants, FS_Subset
<1>2. \A r \in S : Price(k)[r] \in Nat
  BY Prices
<1> QED
  BY <1>1, <1>2, SumType

\* There are two kinds of counter.
LEMMA KindOf == \A k \in Kinds : k = "rpm" \/ k = "tpm"
BY DEF Kinds

-----------------------------------------------------------------------------
(* Redis commands                                                          *)

\* INCR and INCRBY, key by key.
LEMMA AddEffect ==
  ASSUME TypeOK, NEW k \in Kinds, NEW b \in Buckets, NEW n \in Nat \ {0}, AddToKey(k, b, n)
  PROVE  /\ count' \in [Kinds -> [Buckets -> Nat]]
         /\ expires' \in [Kinds -> [Buckets -> {Missing, Never} \cup 1 .. MaxTime + Window]]
         /\ life' \in [Kinds -> [Buckets -> Nat]]
         /\ count'[k][b] = count[k][b] + n
         /\ expires'[k][b] = IF expires[k][b] = Missing THEN Never ELSE expires[k][b]
         /\ life'[k][b] = IF expires[k][b] = Missing THEN life[k][b] + 1 ELSE life[k][b]
         /\ \A j \in Kinds, c \in Buckets : j # k \/ c # b =>
              count'[j][c] = count[j][c] /\ expires'[j][c] = expires[j][c] /\ life'[j][c] = life[j][c]
<1>1. count[k][b] \in Nat /\ life[k][b] \in Nat
  BY DEF TypeOK
<1>2. /\ count' \in [Kinds -> [Buckets -> Nat]]
      /\ count'[k][b] = count[k][b] + n
  BY <1>1 DEF AddToKey, TypeOK
<1>3. CASE expires[k][b] = Missing
  <2>1. /\ expires' = [expires EXCEPT ![k][b] = Never]
        /\ life' = [life EXCEPT ![k][b] = @ + 1]
    BY <1>3 DEF AddToKey
  <2> QED
    BY <1>1, <1>2, <1>3, <2>1 DEF TypeOK, AddToKey
<1>4. CASE expires[k][b] # Missing
  BY <1>1, <1>2, <1>4 DEF TypeOK, AddToKey
<1> QED
  BY <1>3, <1>4

\* EXPIRE, key by key.
LEMMA ExpireEffect ==
  ASSUME TypeOK, NEW k \in Kinds, NEW b \in Buckets, SetTTL(k, b)
  PROVE  /\ expires' \in [Kinds -> [Buckets -> {Missing, Never} \cup 1 .. MaxTime + Window]]
         /\ expires'[k][b] = IF expires[k][b] = Missing THEN Missing ELSE now + Window
         /\ \A j \in Kinds, c \in Buckets : j # k \/ c # b => expires'[j][c] = expires[j][c]
<1>1. now + Window \in 1 .. MaxTime + Window
  BY Constants DEF TypeOK
<1>2. expires' = [expires EXCEPT ![k][b] = IF @ = Missing THEN Missing ELSE now + Window]
  BY DEF SetTTL
<1> QED
  BY <1>1, <1>2 DEF TypeOK

\* The clock, key by key.
LEMMA TickEffect ==
  ASSUME TypeOK, Tick
  PROVE  /\ count' \in [Kinds -> [Buckets -> Nat]]
         /\ expires' \in [Kinds -> [Buckets -> {Missing, Never} \cup 1 .. MaxTime + Window]]
         /\ \A k \in Kinds, b \in Buckets :
              \/ count'[k][b] = count[k][b] /\ expires'[k][b] = expires[k][b]
                 /\ (expires[k][b] \in {Missing, Never} \/ expires[k][b] > now + 1)
              \/ count'[k][b] = 0 /\ expires'[k][b] = Missing
                 /\ expires[k][b] \notin {Missing, Never} /\ expires[k][b] <= now + 1
<1>1. now \in Nat /\ MaxTime + Window \in Nat
  BY Constants DEF TypeOK
<1>2. /\ count' = [k \in Kinds |-> [b \in Buckets |->
                    IF expires[k][b] >= 0 /\ expires[k][b] <= now + 1 THEN 0 ELSE count[k][b]]]
      /\ expires' = [k \in Kinds |-> [b \in Buckets |->
                    IF expires[k][b] >= 0 /\ expires[k][b] <= now + 1 THEN Missing ELSE expires[k][b]]]
  BY DEF Tick
<1>3. ASSUME NEW k \in Kinds, NEW b \in Buckets
      PROVE  /\ count'[k][b] \in Nat
             /\ expires'[k][b] \in {Missing, Never} \cup 1 .. MaxTime + Window
             /\ \/ count'[k][b] = count[k][b] /\ expires'[k][b] = expires[k][b]
                   /\ (expires[k][b] \in {Missing, Never} \/ expires[k][b] > now + 1)
                \/ count'[k][b] = 0 /\ expires'[k][b] = Missing
                   /\ expires[k][b] \notin {Missing, Never} /\ expires[k][b] <= now + 1
  <2>1. /\ count[k][b] \in Nat
        /\ expires[k][b] \in {Missing, Never} \cup 1 .. MaxTime + Window
    BY DEF TypeOK
  <2>2. /\ count'[k][b] = IF expires[k][b] >= 0 /\ expires[k][b] <= now + 1 THEN 0 ELSE count[k][b]
        /\ expires'[k][b] = IF expires[k][b] >= 0 /\ expires[k][b] <= now + 1 THEN Missing ELSE expires[k][b]
    BY <1>2
  <2> QED
    BY <1>1, <2>1, <2>2 DEF Missing, Never
<1>4. count' \in [Kinds -> [Buckets -> Nat]]
  BY <1>2, <1>3
<1>5. expires' \in [Kinds -> [Buckets -> {Missing, Never} \cup 1 .. MaxTime + Window]]
  BY <1>2, <1>3
<1> QED
  BY <1>3, <1>4, <1>5

-----------------------------------------------------------------------------
(* The steps of a request, by what they do to the keys                     *)

\* How a request goes on after the check of kind k let it through.
Lets(k, r) ==
  pc'[r] = IF k = "tpm" THEN "passed" ELSE IF Cost[r] > TokenLimit THEN "no_tokens" ELSE "tpm_incr"

\* The counter of kind k counts r, and its answer decides.
CountStep(k, r) ==
  LET n == count[k][bucket[r]] + Price(k)[r]
  IN /\ pc[r] = IncrAt(k) /\ UNCHANGED <<now, mishaps>>
     /\ AddToKey(k, bucket[r], Price(k)[r]) /\ Charge(k, r, bucket[r])
     /\ \/ n = Price(k)[r] /\ pc'[r] = ExpireAt(k)
        \/ n # Price(k)[r] /\ n <= LimitOf(k) /\ Lets(k, r)
        \/ n # Price(k)[r] /\ n > LimitOf(k) /\ pc'[r] = Rejected(k)

\* The counter counts r, and the answer is lost.
LoseStep(k, r) ==
  /\ pc[r] = IncrAt(k) /\ pc'[r] = "error"
  /\ AddToKey(k, bucket[r], Price(k)[r])
  /\ mishaps' = mishaps + 1 /\ UNCHANGED <<now, charged>>

\* EXPIRE.
RenewStep(k, r) ==
  /\ pc[r] = ExpireAt(k) /\ SetTTL(k, bucket[r])
  /\ UNCHANGED <<now, charged>>
  /\ \/ Lets(k, r) /\ UNCHANGED mishaps
     \/ pc'[r] = "error" /\ mishaps' = mishaps + 1

\* Nothing reaches Redis.
QuietStep(r) ==
  /\ UNCHANGED <<now, count, expires, life, charged>>
  /\ \/ pc[r] = "idle" /\ pc'[r] = "rpm_incr" /\ UNCHANGED mishaps
     \/ pc[r] \in Sending /\ pc'[r] = "error" /\ mishaps' = mishaps + 1

\* Only r moves, and it names the key of its next command after the minute.
Alone(r) ==
  /\ pc' = [pc EXCEPT ![r] = pc'[r]] /\ pc'[r] \in Labels
  /\ bucket' \in [Requests -> Buckets] /\ built' \in [Requests -> 0 .. MaxTime]
  /\ \A q \in Requests \ {r} : bucket'[q] = bucket[q] /\ built'[q] = built[q]
  /\ pc'[r] \in {"rpm_incr", "tpm_incr"} => bucket'[r] = now \div Window /\ built'[r] = now
  /\ pc'[r] \in {"rpm_expire", "tpm_expire"} => bucket'[r] = bucket[r] /\ built'[r] = built[r]
  /\ mishaps' \in 0 .. MaxMishaps

\* Building a key concerns the request that builds it, in the current minute.
LEMMA BuildAlone ==
  ASSUME TypeOK, NEW r \in Requests, Build(r)
  PROVE  /\ bucket' \in [Requests -> Buckets] /\ built' \in [Requests -> 0 .. MaxTime]
         /\ \A q \in Requests \ {r} : bucket'[q] = bucket[q] /\ built'[q] = built[q]
         /\ bucket'[r] = now \div Window /\ built'[r] = now
<1>1. now \in 0 .. MaxTime /\ now \div Window \in Buckets
  BY BucketOf DEF TypeOK
<1> DEFINE b == now \div Window
<1>2. bucket' = [bucket EXCEPT ![r] = b] /\ built' = [built EXCEPT ![r] = now]
  BY DEF Build
<1> HIDE DEF b
<1>3. bucket' \in [Requests -> Buckets] /\ built' \in [Requests -> 0 .. MaxTime]
  BY <1>1, <1>2 DEF TypeOK, b
<1>4. bucket'[r] = b /\ built'[r] = now
  BY <1>2 DEF TypeOK
<1>5. \A q \in Requests \ {r} : bucket'[q] = bucket[q] /\ built'[q] = built[q]
  BY <1>2 DEF TypeOK
<1> QED
  BY <1>3, <1>4, <1>5 DEF b

\* Entering the token check moves that request only.
LEMMA EnterAlone ==
  ASSUME TypeOK, NEW r \in Requests, EnterTokens(r)
  PROVE  /\ pc' = [pc EXCEPT ![r] = pc'[r]]
         /\ pc'[r] = IF Cost[r] > TokenLimit THEN "no_tokens" ELSE "tpm_incr"
         /\ bucket' \in [Requests -> Buckets] /\ built' \in [Requests -> 0 .. MaxTime]
         /\ \A q \in Requests \ {r} : bucket'[q] = bucket[q] /\ built'[q] = built[q]
         /\ pc'[r] = "tpm_incr" => bucket'[r] = now \div Window /\ built'[r] = now
<1>1. CASE Cost[r] > TokenLimit
  BY <1>1 DEF EnterTokens, Goto, TypeOK
<1>2. CASE ~(Cost[r] > TokenLimit)
  <2>1. Build(r) /\ pc' = [pc EXCEPT ![r] = "tpm_incr"]
    BY <1>2 DEF EnterTokens, Goto
  <2>2. pc'[r] = "tpm_incr" /\ pc' = [pc EXCEPT ![r] = pc'[r]]
    BY <2>1 DEF TypeOK
  <2> QED
    BY <1>2, <2>1, <2>2, BuildAlone
<1> QED
  BY <1>1, <1>2

\* So does a change of its label.
LEMMA GotoAlone ==
  ASSUME TypeOK, NEW r \in Requests, NEW label, Goto(r, label)
  PROVE  pc' = [pc EXCEPT ![r] = pc'[r]] /\ pc'[r] = label
BY DEF Goto, TypeOK

\* A step of a request has one of the four shapes, and moves that request
\* alone.
LEMMA Shapes ==
  ASSUME TypeOK, NEW r \in Requests, Step(r) \/ Fail(r)
  PROVE  /\ Alone(r)
         /\ \/ QuietStep(r)
            \/ \E k \in Kinds : CountStep(k, r) \/ LoseStep(k, r) \/ RenewStep(k, r)
<1>0. /\ mishaps \in 0 .. MaxMishaps /\ MaxMishaps \in Nat
      /\ bucket \in [Requests -> Buckets] /\ built \in [Requests -> 0 .. MaxTime]
      /\ bucket[r] \in Buckets
      /\ Price("rpm")[r] = 1 /\ Price("tpm")[r] = Cost[r]
      /\ "rpm" \in Kinds /\ "tpm" \in Kinds
      /\ RequestLimit \in Nat \ {0} /\ TokenLimit \in Nat \ {0} /\ Cost[r] \in Nat \ {0}
  BY Constants DEF TypeOK, Price, Kinds
<1>1. CASE CheckRequests(r)
  <2>1. Alone(r)
    BY <1>0, <1>1, BuildAlone, GotoAlone DEF CheckRequests, Alone, Labels
  <2>2. QuietStep(r)
    BY <1>1, GotoAlone DEF CheckRequests, QuietStep
  <2> QED
    BY <2>1, <2>2
<1>2. CASE IncrRequests(r)
  <2>1. Alone(r)
    BY <1>0, <1>2, EnterAlone, GotoAlone DEF IncrRequests, Alone, Labels
  <2>2. CountStep("rpm", r)
    BY <1>0, <1>2, EnterAlone, GotoAlone
       DEF IncrRequests, CountStep, Lets, IncrAt, ExpireAt, Rejected, LimitOf
  <2> QED
    BY <1>0, <2>1, <2>2
<1>3. CASE ExpireRequests(r)
  <2>1. Alone(r)
    BY <1>0, <1>3, EnterAlone DEF ExpireRequests, Alone, Labels
  <2>2. RenewStep("rpm", r)
    BY <1>0, <1>3, EnterAlone DEF ExpireRequests, RenewStep, Lets, ExpireAt
  <2> QED
    BY <1>0, <2>1, <2>2
<1>4. CASE IncrTokens(r)
  <2>1. Alone(r)
    BY <1>0, <1>4, GotoAlone DEF IncrTokens, Alone, Labels
  <2>2. CountStep("tpm", r)
    BY <1>0, <1>4, GotoAlone
       DEF IncrTokens, CountStep, Lets, IncrAt, ExpireAt, Rejected, LimitOf, TypeOK
  <2> QED
    BY <1>0, <2>1, <2>2
<1>5. CASE ExpireTokens(r)
  <2>1. Alone(r)
    BY <1>0, <1>5, GotoAlone DEF ExpireTokens, Alone, Labels
  <2>2. RenewStep("tpm", r)
    BY <1>0, <1>5, GotoAlone DEF ExpireTokens, RenewStep, Lets, ExpireAt
  <2> QED
    BY <1>0, <2>1, <2>2
<1>6. CASE Fail(r)
  <2>1. Alone(r)
    BY <1>0, <1>6, GotoAlone DEF Fail, Alone, Mishap, Labels
  <2>2. /\ pc'[r] = "error" /\ mishaps' = mishaps + 1 /\ UNCHANGED <<now, charged>>
        /\ \/ pc[r] \in Sending /\ UNCHANGED <<count, expires, life>>
           \/ pc[r] = "rpm_incr" /\ AddToKey("rpm", bucket[r], 1)
           \/ pc[r] = "tpm_incr" /\ AddToKey("tpm", bucket[r], Cost[r])
           \/ pc[r] = "rpm_expire" /\ SetTTL("rpm", bucket[r])
           \/ pc[r] = "tpm_expire" /\ SetTTL("tpm", bucket[r])
    BY <1>6, GotoAlone DEF Fail, Mishap, Sending
  <2>3. \/ QuietStep(r) \/ LoseStep("rpm", r) \/ LoseStep("tpm", r)
        \/ RenewStep("rpm", r) \/ RenewStep("tpm", r)
    BY <1>0, <2>2 DEF QuietStep, LoseStep, RenewStep, IncrAt, ExpireAt
  <2> QED
    BY <1>0, <2>1, <2>3
<1> QED
  BY <1>1, <1>2, <1>3, <1>4, <1>5, <1>6 DEF Step

-----------------------------------------------------------------------------
(* Who is charged to which life of a key                                   *)

\* A charge is written for one request at one counter.
LEMMA ChargeEffect ==
  ASSUME TypeOK, NEW k \in Kinds, NEW r \in Requests, NEW b \in Buckets,
         life'[k][b] \in Nat, Charge(k, r, b)
  PROVE  /\ charged' \in [Kinds -> [Requests -> (Buckets \X Nat \X (0 .. MaxTime)) \cup {NoCharge}]]
         /\ charged'[k][r] = <<b, life'[k][b], now>>
         /\ \A j \in Kinds, q \in Requests : j # k \/ q # r => charged'[j][q] = charged[j][q]
<1> DEFINE new == <<b, life'[k][b], now>>
           Values == (Buckets \X Nat \X (0 .. MaxTime)) \cup {NoCharge}
<1>1. new \in Values
  BY DEF TypeOK
<1>2. charged \in [Kinds -> [Requests -> Values]]
  BY DEF TypeOK
<1>3. charged' = [charged EXCEPT ![k][r] = new]
  BY DEF Charge
<1> HIDE DEF new, Values
<1>4. charged' \in [Kinds -> [Requests -> Values]] /\ charged'[k][r] = new
  BY <1>1, <1>2, <1>3
<1>5. \A j \in Kinds, q \in Requests : j # k \/ q # r => charged'[j][q] = charged[j][q]
  BY <1>2, <1>3
<1> QED
  BY <1>4, <1>5 DEF new, Values

\* A step of one request changes at most one key.
LEMMA TypesKept ==
  ASSUME TypeOK, NEW r \in Requests, Step(r) \/ Fail(r)
  PROVE  TypeOK'
<1>1. /\ Alone(r)
      /\ \/ QuietStep(r)
         \/ \E k \in Kinds : CountStep(k, r) \/ LoseStep(k, r) \/ RenewStep(k, r)
  BY Shapes
<1>2. /\ pc' \in [Requests -> Labels] /\ bucket' \in [Requests -> Buckets]
      /\ built' \in [Requests -> 0 .. MaxTime] /\ mishaps' \in 0 .. MaxMishaps
      /\ bucket[r] \in Buckets
  BY <1>1 DEF Alone, TypeOK
<1>3. CASE QuietStep(r)
  BY <1>2, <1>3 DEF QuietStep, TypeOK
<1>4. ASSUME NEW k \in Kinds, CountStep(k, r)
      PROVE  TypeOK'
  <2>1. AddToKey(k, bucket[r], Price(k)[r]) /\ Price(k)[r] \in Nat \ {0} /\ Charge(k, r, bucket[r])
    BY <1>4, Prices DEF CountStep
  <2>2. /\ count' \in [Kinds -> [Buckets -> Nat]]
        /\ expires' \in [Kinds -> [Buckets -> {Missing, Never} \cup 1 .. MaxTime + Window]]
        /\ life' \in [Kinds -> [Buckets -> Nat]] /\ life'[k][bucket[r]] \in Nat
    BY <1>2, <2>1, AddEffect
  <2>3. charged' \in [Kinds -> [Requests -> (Buckets \X Nat \X (0 .. MaxTime)) \cup {NoCharge}]]
    BY <1>2, <2>1, <2>2, ChargeEffect
  <2>4. now' \in 0 .. MaxTime
    BY <1>4 DEF CountStep, TypeOK
  <2> QED
    BY <1>2, <2>2, <2>3, <2>4 DEF TypeOK
<1>5. ASSUME NEW k \in Kinds, LoseStep(k, r)
      PROVE  TypeOK'
  <2>1. AddToKey(k, bucket[r], Price(k)[r]) /\ Price(k)[r] \in Nat \ {0}
    BY <1>5, Prices DEF LoseStep
  <2>2. /\ count' \in [Kinds -> [Buckets -> Nat]]
        /\ expires' \in [Kinds -> [Buckets -> {Missing, Never} \cup 1 .. MaxTime + Window]]
        /\ life' \in [Kinds -> [Buckets -> Nat]]
    BY <1>2, <2>1, AddEffect
  <2> QED
    BY <1>2, <1>5, <2>2 DEF TypeOK, LoseStep
<1>6. ASSUME NEW k \in Kinds, RenewStep(k, r)
      PROVE  TypeOK'
  <2>1. SetTTL(k, bucket[r]) /\ UNCHANGED <<count, life, now, charged>>
    BY <1>6 DEF RenewStep, SetTTL
  <2>2. expires' \in [Kinds -> [Buckets -> {Missing, Never} \cup 1 .. MaxTime + Window]]
    BY <1>2, <2>1, ExpireEffect
  <2> QED
    BY <1>2, <2>1, <2>2 DEF TypeOK
<1> QED
  BY <1>1, <1>3, <1>4, <1>5, <1>6

\* What a charge adds to the sets the sums run over.
LEMMA CountEffect ==
  ASSUME TypeOK, Keys, Charges, Accounts,
         NEW r \in Requests, Alone(r), NEW k \in Kinds, CountStep(k, r),
         NEW b, b = bucket[r], NEW L, L = life'[k][b]
  PROVE  /\ b \in Buckets /\ L \in Nat /\ L > 0 /\ L \in {life[k][b], life[k][b] + 1}
         /\ r \notin CountedBy(Requests, k, b, L)
         /\ CountedBy(Requests, k, b, L)' = CountedBy(Requests, k, b, L) \cup {r}
         /\ \A j \in Kinds, c \in Buckets : \A l : j # k \/ c # b \/ l # L =>
              CountedBy(Requests, j, c, l)' = CountedBy(Requests, j, c, l)
         /\ L = life[k][b] + 1 => CountedBy(Requests, k, b, L) = {}
         /\ LET total == SumOn(Price(k), CountedBy(Requests, k, b, L))
            IN /\ total \in Nat /\ total <= count[k][b] /\ (mishaps = 0 => total = count[k][b])
               /\ SumOn(Price(k), CountedBy(Requests, k, b, L))' = total + Price(k)[r]
<1>1. b \in Buckets /\ life[k][b] \in Nat /\ count[k][b] \in Nat
  BY DEF TypeOK
<1>2. /\ L = IF expires[k][b] = Missing THEN life[k][b] + 1 ELSE life[k][b]
      /\ L \in Nat
  BY <1>1, AddEffect, Prices DEF CountStep
<1>3. L > 0
  BY <1>1, <1>2 DEF Keys
<1>4. /\ charged'[k][r] = <<b, L, now>>
      /\ \A j \in Kinds, q \in Requests : j # k \/ q # r => charged'[j][q] = charged[j][q]
  <2>1. Charge(k, r, b) /\ life'[k][b] \in Nat
    BY <1>2 DEF CountStep
  <2> QED
    BY <1>1, <2>1, ChargeEffect
<1>5. charged[k][r] = NoCharge
  BY DEF Charges, CountStep, IncrAt, Before, Kinds
<1>6. \A c, l : c \in Buckets => r \notin CountedBy(Requests, k, c, l)
  BY <1>5 DEF CountedBy, NoCharge, Buckets
<1>7. CountedBy(Requests, k, b, L)' = CountedBy(Requests, k, b, L) \cup {r}
  BY <1>4 DEF CountedBy
<1>8. ASSUME NEW j \in Kinds, NEW c \in Buckets, NEW l, j # k \/ c # b \/ l # L
      PROVE  CountedBy(Requests, j, c, l)' = CountedBy(Requests, j, c, l)
  <2>1. CASE j # k
    BY <1>4, <2>1 DEF CountedBy
  <2>2. CASE j = k /\ (c # b \/ l # L)
    <3>1. ~(charged'[k][r][1] = c /\ charged'[k][r][2] = l)
      BY <1>4, <2>2
    <3>2. ~(charged[k][r][1] = c /\ charged[k][r][2] = l)
      BY <1>5 DEF NoCharge, Buckets
    <3> QED
      BY <1>4, <2>2, <3>1, <3>2 DEF CountedBy
  <2> QED
    BY <1>8, <2>1, <2>2
<1> DEFINE S == CountedBy(Requests, k, b, L)
<1>9. L = life[k][b] + 1 => S = {}
  <2>1. ASSUME NEW q \in Requests, charged[k][q][1] = b, charged[k][q][2] = life[k][b] + 1
        PROVE  FALSE
    <3>1. charged[k][q] # NoCharge
      BY <1>1, <2>1 DEF NoCharge, Buckets
    <3>2. charged[k][q][2] \in 1 .. life[k][b]
      BY <2>1, <3>1 DEF Charges
    <3> QED
      BY <1>1, <2>1, <3>2
  <2> QED
    BY <2>1 DEF CountedBy
<1>10. S \in SUBSET Requests /\ IsFiniteSet(S) /\ SumOn(Price(k), S) \in Nat
  <2>1. S \in SUBSET Requests
    BY DEF CountedBy
  <2> HIDE DEF S
  <2> QED
    BY <2>1, SumsOfRequests
<1>11. SumOn(Price(k), S) <= count[k][b] /\ (mishaps = 0 => SumOn(Price(k), S) = count[k][b])
  <2>1. CASE expires[k][b] = Missing
    <3>1. S = {} /\ count[k][b] = 0
      BY <1>1, <1>2, <1>9, <2>1 DEF Keys
    <3> QED
      BY <3>1, SumOfNothing
  <2>2. CASE expires[k][b] # Missing
    BY <1>1, <1>2, <2>2 DEF Accounts
  <2> QED
    BY <2>1, <2>2
<1>12. SumOn(Price(k), S \cup {r}) = SumOn(Price(k), S) + Price(k)[r]
  <2>1. r \notin S
    BY <1>1, <1>6
  <2>2. \A q \in S \cup {r} : Price(k)[q] \in Nat
    BY <1>10, Prices
  <2> HIDE DEF S
  <2> QED
    BY <1>10, <2>1, <2>2, SumAdd
<1>13. SumOn(Price(k), CountedBy(Requests, k, b, L))' = SumOn(Price(k), S \cup {r})
  BY <1>7 DEF Price
<1> QED
  BY <1>1, <1>2, <1>3, <1>6, <1>7, <1>8, <1>9, <1>10, <1>11, <1>12, <1>13

-----------------------------------------------------------------------------
(* Preservation                                                            *)

Shape(r) ==
  /\ Alone(r)
  /\ \/ QuietStep(r)
     \/ \E k \in Kinds : CountStep(k, r) \/ LoseStep(k, r) \/ RenewStep(k, r)

\* No step of a request makes an unaffordable one send the command.
LEMMA AffordableKept ==
  ASSUME TypeOK, Affordable, NEW r \in Requests, Shape(r)
  PROVE  Affordable'
<1> SUFFICES ASSUME NEW j \in Kinds, NEW q \in Requests, pc'[q] \in {IncrAt(j), ExpireAt(j)}
             PROVE  Price(j)[q] <= LimitOf(j)
  BY DEF Affordable, IncrAt, ExpireAt, Price, LimitOf
<1>1. CASE q # r
  BY <1>1 DEF Shape, Alone, TypeOK, Affordable
<1>2. CASE q = r
  <2>1. CASE j = "rpm"
    BY <2>1, Constants DEF Price, LimitOf
  <2>2. CASE j = "tpm" /\ pc'[r] = "tpm_incr"
    <3>1. Cost[r] <= TokenLimit
      <4>1. CASE QuietStep(r)
        BY <2>2, <4>1 DEF QuietStep
      <4>2. ASSUME NEW k \in Kinds, CountStep(k, r) \/ RenewStep(k, r) PROVE Cost[r] <= TokenLimit
        BY <2>2, <4>2, Constants DEF CountStep, RenewStep, Lets, ExpireAt, Rejected, Kinds
      <4>3. ASSUME NEW k \in Kinds, LoseStep(k, r) PROVE Cost[r] <= TokenLimit
        BY <2>2, <4>3 DEF LoseStep
      <4> QED
        BY <4>1, <4>2, <4>3 DEF Shape
    <3> QED
      BY <1>2, <2>2, <3>1 DEF Price, LimitOf
  <2>3. CASE j = "tpm" /\ pc'[r] = "tpm_expire"
    <3>1. pc[r] = "tpm_incr"
      BY <2>3 DEF Shape, QuietStep, CountStep, RenewStep, LoseStep, Lets, ExpireAt, IncrAt, Rejected, Kinds
    <3> QED
      BY <1>2, <2>3, <3>1 DEF Affordable, IncrAt
  <2> QED
    BY <1>2, <2>1, <2>2, <2>3 DEF IncrAt, ExpireAt, Kinds
<1> QED
  BY <1>1, <1>2

\* Only a charge changes who passed: a request is never rejected afterwards.
LEMMA PassedEffect ==
  ASSUME TypeOK, Charges, NEW r \in Requests, Shape(r), NEW j \in Kinds
  PROVE  /\ CountStep(j, r) =>
              Passed(j)' = IF pc'[r] = Rejected(j) THEN Passed(j) ELSE Passed(j) \cup {r}
         /\ ~CountStep(j, r) => Passed(j)' = Passed(j)
<1>0. /\ \A q \in Requests : q # r => pc'[q] = pc[q]
      /\ bucket[r] \in Buckets
  BY DEF Shape, Alone, TypeOK
<1>1. ASSUME CountStep(j, r)
      PROVE  Passed(j)' = IF pc'[r] = Rejected(j) THEN Passed(j) ELSE Passed(j) \cup {r}
  <2>1. /\ charged'[j][r] # NoCharge
        /\ \A q \in Requests : q # r => charged'[j][q] = charged[j][q]
    <3>1. life'[j][bucket[r]] \in Nat
      BY <1>0, <1>1, AddEffect, Prices DEF CountStep
    <3>2. charged'[j][r] = <<bucket[r], life'[j][bucket[r]], now>>
      BY <1>0, <1>1, <3>1, ChargeEffect DEF CountStep
    <3>3. \A q \in Requests : q # r => charged'[j][q] = charged[j][q]
      BY <1>0, <1>1, <3>1, ChargeEffect DEF CountStep
    <3> QED
      BY <1>0, <3>2, <3>3 DEF NoCharge, Buckets
  <2>2. charged[j][r] = NoCharge
    BY <1>1 DEF CountStep, Charges, IncrAt, Before, Kinds
  <2> QED
    BY <1>0, <2>1, <2>2 DEF Passed, Rejected
<1>2. ASSUME ~CountStep(j, r)
      PROVE  Passed(j)' = Passed(j)
  <2>1. \A q \in Requests : charged'[j][q] = charged[j][q]
    <3>1. ASSUME NEW k \in Kinds, CountStep(k, r)
          PROVE  \A q \in Requests : charged'[j][q] = charged[j][q]
      <4>1. k # j
        BY <1>2, <3>1
      <4>2. life'[k][bucket[r]] \in Nat
        BY <1>0, <3>1, AddEffect, Prices DEF CountStep
      <4> QED
        BY <1>0, <3>1, <4>1, <4>2, ChargeEffect DEF CountStep
    <3> QED
      BY <3>1 DEF Shape, QuietStep, LoseStep, RenewStep
  <2>2. charged[j][r] # NoCharge => pc[r] # Rejected(j) /\ pc'[r] # Rejected(j)
    <3>1. pc[r] \in {"idle", "rpm_incr", "rpm_expire", "tpm_incr", "tpm_expire"}
      BY DEF Shape, QuietStep, CountStep, LoseStep, RenewStep, IncrAt, ExpireAt, Sending
    <3>2. charged[j][r] # NoCharge => pc[r] \notin Before(j)
      BY DEF Charges
    <3>3. j = "rpm" => pc'[r] # "no_requests"
      BY <1>2 DEF Shape, QuietStep, CountStep, LoseStep, RenewStep, Lets, Rejected, ExpireAt, IncrAt, Kinds
    <3>4. j = "tpm" /\ pc[r] = "tpm_expire" => pc'[r] # "no_tokens"
      BY DEF Shape, QuietStep, CountStep, LoseStep, RenewStep, Lets, ExpireAt, IncrAt, Kinds
    <3> QED
      BY <3>1, <3>2, <3>3, <3>4 DEF Rejected, Before, Kinds
  <2> QED
    BY <1>0, <2>1, <2>2 DEF Passed, Rejected
<1> QED
  BY <1>1, <1>2

\* A charge keeps every part.
LEMMA CountKeepsIInv ==
  ASSUME IInv, NEW r \in Requests, Shape(r), TypeOK', NEW k \in Kinds, CountStep(k, r)
  PROVE  IInv'
<1> USE DEF IInv
<1>a. PICK b \in Buckets : b = bucket[r]
  BY DEF TypeOK
<1> DEFINE n == count[k][b] + Price(k)[r]
<1>0. /\ b \in Buckets /\ Price(k)[r] \in Nat \ {0} /\ LimitOf(k) \in Nat \ {0}
      /\ count[k][b] \in Nat /\ AddToKey(k, b, Price(k)[r]) /\ pc[r] = IncrAt(k)
      /\ \A q \in Requests : q # r => pc'[q] = pc[q]
      /\ mishaps' = mishaps
  BY <1>a, Prices DEF TypeOK, CountStep, Shape, Alone
<1>1. PICK L \in Nat : L = life'[k][b]
  BY <1>0, AddEffect
<1>2. /\ L > 0 /\ L \in {life[k][b], life[k][b] + 1}
      /\ r \notin CountedBy(Requests, k, b, L)
      /\ CountedBy(Requests, k, b, L)' = CountedBy(Requests, k, b, L) \cup {r}
      /\ \A j \in Kinds, c \in Buckets : \A l : j # k \/ c # b \/ l # L =>
           CountedBy(Requests, j, c, l)' = CountedBy(Requests, j, c, l)
      /\ L = life[k][b] + 1 => CountedBy(Requests, k, b, L) = {}
      /\ LET total == SumOn(Price(k), CountedBy(Requests, k, b, L))
         IN /\ total \in Nat /\ total <= count[k][b] /\ (mishaps = 0 => total = count[k][b])
            /\ SumOn(Price(k), CountedBy(Requests, k, b, L))' = total + Price(k)[r]
  <2>1. Alone(r) /\ TypeOK /\ Keys /\ Charges /\ Accounts
    BY DEF Shape
  <2> HIDE DEF IInv
  <2> QED
    BY <1>1, <1>a, <2>1, CountEffect
<1>3. /\ count'[k][b] = n
      /\ expires'[k][b] = IF expires[k][b] = Missing THEN Never ELSE expires[k][b]
      /\ life'[k][b] = IF expires[k][b] = Missing THEN life[k][b] + 1 ELSE life[k][b]
      /\ \A j \in Kinds, c \in Buckets : j # k \/ c # b =>
           count'[j][c] = count[j][c] /\ expires'[j][c] = expires[j][c] /\ life'[j][c] = life[j][c]
  BY <1>0, AddEffect
<1>4. /\ charged'[k][r] = <<b, L, now>> /\ charged[k][r] = NoCharge
      /\ \A j \in Kinds, q \in Requests : j # k \/ q # r => charged'[j][q] = charged[j][q]
  <2>1. Charge(k, r, b) /\ life'[k][b] \in Nat
    BY <1>1, <1>a DEF CountStep
  <2>2. charged[k][r] = NoCharge
    BY <1>0 DEF Charges, IncrAt, Before, Kinds
  <2> QED
    BY <1>0, <1>1, <2>1, <2>2, ChargeEffect
<1>5. \/ n = Price(k)[r] /\ pc'[r] = ExpireAt(k)
      \/ n # Price(k)[r] /\ n <= LimitOf(k) /\ Lets(k, r)
      \/ n # Price(k)[r] /\ n > LimitOf(k) /\ pc'[r] = Rejected(k)
  BY <1>a DEF CountStep
<1>6. pc'[r] # Rejected(k) => n <= LimitOf(k)
  <2>1. Price(k)[r] <= LimitOf(k)
    BY <1>0 DEF Affordable
  <2> QED
    BY <1>5, <2>1
<1> HIDE DEF n
<1>7. Keys'
  <2>1. n > 0
    BY <1>0 DEF n
  <2>2. expires'[k][b] # Missing /\ life'[k][b] > 0
    BY <1>0, <1>1, <1>2, <1>3 DEF Never, Missing
  <2> QED
    BY <1>0, <1>3, <2>1, <2>2 DEF Keys
<1>8. Charges'
  <2> SUFFICES ASSUME NEW j \in Kinds, NEW q \in Requests, charged'[j][q] # NoCharge
               PROVE  /\ pc'[q] \notin Before(j)
                      /\ charged'[j][q][2] \in 1 .. life'[j][charged'[j][q][1]]
    BY DEF Charges, Before
  <2>1. CASE j = k /\ q = r
    <3>1. pc'[r] \notin Before(k)
      BY <1>5 DEF Lets, ExpireAt, Rejected, Before, Kinds
    <3> QED
      BY <1>1, <1>2, <1>4, <2>1, <3>1
  <2>2. CASE j # k \/ q # r
    <3>1. charged'[j][q] = charged[j][q] /\ charged[j][q] # NoCharge
      BY <1>4, <2>2
    <3>2. pc[q] \notin Before(j) /\ charged[j][q][2] \in 1 .. life[j][charged[j][q][1]]
          /\ charged[j][q][1] \in Buckets
      BY <3>1 DEF Charges, TypeOK
    <3>3. pc'[q] \notin Before(j)
      <4>1. CASE q # r
        BY <1>0, <3>2, <4>1
      <4>2. CASE q = r
        BY <1>0, <1>5, <2>2, <3>2, <4>2 DEF IncrAt, Before, Lets, ExpireAt, Rejected, Kinds
      <4> QED
        BY <4>1, <4>2
    <3>4. life'[j][charged[j][q][1]] >= life[j][charged[j][q][1]]
          /\ life[j][charged[j][q][1]] \in Nat /\ life'[j][charged[j][q][1]] \in Nat
      <4>1. life[j][charged[j][q][1]] \in Nat /\ life'[j][charged[j][q][1]] \in Nat
        BY <3>2 DEF TypeOK
      <4> QED
        BY <1>3, <3>2, <4>1
    <3> QED
      BY <3>1, <3>2, <3>3, <3>4
  <2> QED
    BY <2>1, <2>2
<1>9. Affordable'
  BY AffordableKept
<1>10. Accounts'
  <2> SUFFICES ASSUME NEW j \in Kinds, NEW c \in Buckets, expires'[j][c] # Missing
               PROVE  LET total == SumOn(Price(j), CountedBy(Requests, j, c, life[j][c]))'
                      IN total <= count'[j][c] /\ (mishaps' = 0 => total = count'[j][c])
    BY DEF Accounts
  <2>1. CASE j = k /\ c = b
    <3>1. SumOn(Price(k), CountedBy(Requests, k, b, life[k][b]))' =
            SumOn(Price(k), CountedBy(Requests, k, b, L)) + Price(k)[r]
      <4>1. CountedBy(Requests, k, b, life[k][b])' = CountedBy(Requests, k, b, L)'
        BY <1>1 DEF CountedBy
      <4> QED
        BY <1>2, <4>1 DEF Price
    <3>2. count'[k][b] = count[k][b] + Price(k)[r]
      BY <1>3 DEF n
    <3> QED
      BY <1>0, <1>2, <2>1, <3>1, <3>2
  <2>2. CASE j # k \/ c # b
    <3>1. CountedBy(Requests, j, c, life[j][c])' = CountedBy(Requests, j, c, life[j][c])
      <4>1. PICK l : l = life'[j][c]
        OBVIOUS
      <4>2. life[j][c] = l
        BY <1>3, <2>2, <4>1
      <4>3. CountedBy(Requests, j, c, l)' = CountedBy(Requests, j, c, l)
        BY <1>2, <2>2
      <4> QED
        BY <4>1, <4>2, <4>3 DEF CountedBy
    <3> QED
      BY <1>0, <1>3, <2>2, <3>1 DEF Accounts, Price
  <2> QED
    BY <2>1, <2>2
<1>11. PerLife'
  <2> SUFFICES ASSUME NEW j \in Kinds, NEW c \in Buckets, NEW l \in 1 .. life'[j][c]
               PROVE  SumOn(Price(j), CountedBy(Passed(j), j, c, l))' <= LimitOf(j)
    BY DEF PerLife, LimitOf
  <2>0. /\ life[j][c] \in Nat /\ life'[j][c] \in Nat /\ LimitOf(j) \in Nat
    BY Prices DEF TypeOK
  <2>1. CASE j = k /\ c = b /\ l = L /\ pc'[r] # Rejected(k)
    <3> DEFINE S == CountedBy(Passed(j), j, c, l)'
               T == CountedBy(Requests, k, b, L)'
    <3>1. S \subseteq T /\ T \in SUBSET Requests
      BY <2>1 DEF CountedBy, Passed
    <3>2. SumOn(Price(j), T) = SumOn(Price(k), CountedBy(Requests, k, b, L)) + Price(k)[r]
      BY <1>2, <2>1 DEF Price
    <3> HIDE DEF S, T
    <3>3. IsFiniteSet(T) /\ SumOn(Price(j), T) \in Nat /\ S \in SUBSET Requests
      BY <3>1, SumsOfRequests
    <3>4. SumOn(Price(j), S) \in Nat
      BY <3>3, SumsOfRequests
    <3>5. SumOn(Price(j), S) <= SumOn(Price(j), T)
      <4>1. \A q \in T : Price(j)[q] \in Nat
        BY <3>1, Prices
      <4> QED
        BY <3>1, <3>3, <4>1, SumMonotone
    <3>6. SumOn(Price(j), S) <= LimitOf(j)
      BY <1>0, <1>2, <1>6, <2>0, <2>1, <3>2, <3>3, <3>4, <3>5 DEF n
    <3> QED
      BY <3>6 DEF S, Price
  <2>2. CASE ~(j = k /\ c = b /\ l = L /\ pc'[r] # Rejected(k))
    <3>1. CountedBy(Passed(j), j, c, l)' = CountedBy(Passed(j), j, c, l)
      <4>1. Passed(j) \subseteq Requests /\ Passed(j)' \subseteq Requests
        BY DEF Passed
      <4>2. CASE j = k /\ c = b /\ l = L
        <5>1. Passed(j)' = Passed(j)
          BY <2>2, <4>2, PassedEffect
        <5>2. r \notin Passed(j)
          BY <1>4, <4>2 DEF Passed
        <5> QED
          BY <1>4, <4>1, <5>1, <5>2 DEF CountedBy
      <4>3. CASE j # k \/ c # b \/ l # L
        <5>1. CountedBy(Requests, j, c, l)' = CountedBy(Requests, j, c, l)
          BY <1>2, <4>3
        <5>2. \A q \in Requests : charged'[j][q][1] = c /\ charged'[j][q][2] = l
                <=> charged[j][q][1] = c /\ charged[j][q][2] = l
          BY <5>1 DEF CountedBy
        <5>3. Passed(j)' = Passed(j) \/ (j = k /\ Passed(j)' = Passed(j) \cup {r})
          <6>1. CASE j = k
            BY <6>1, PassedEffect
          <6>2. CASE j # k
            <7>1. ~CountStep(j, r)
              BY <1>4, <6>2, <1>0 DEF CountStep, IncrAt, Kinds
            <7> QED
              BY <7>1, PassedEffect
          <6> QED
            BY <6>1, <6>2
        <5>4. j = k => ~(charged'[j][r][1] = c /\ charged'[j][r][2] = l)
          BY <1>4, <4>3
        <5> QED
          BY <4>1, <5>2, <5>3, <5>4 DEF CountedBy
      <4> QED
        BY <4>2, <4>3
    <3>2. CASE l \in 1 .. life[j][c]
      BY <3>1, <3>2 DEF PerLife, Price
    <3>3. CASE l \notin 1 .. life[j][c]
      <4>1. j = k /\ c = b /\ l = L /\ L = life[k][b] + 1
        BY <1>1, <1>2, <1>3, <2>0, <3>3
      <4>2. CountedBy(Passed(j), j, c, l) = {}
        BY <1>2, <4>1 DEF CountedBy, Passed
      <4>3. SumOn(Price(j), CountedBy(Passed(j), j, c, l))' = SumOn(Price(j), {})
        BY <3>1, <4>2 DEF Price
      <4> QED
        BY <2>0, <4>3, SumOfNothing
    <3> QED
      BY <3>2, <3>3
  <2> QED
    BY <2>1, <2>2
<1>12. Justified'
  <2> SUFFICES ASSUME mishaps = 0, NEW j \in Kinds, NEW q \in Requests, pc'[q] = Rejected(j)
               PROVE  \/ j = "tpm" /\ Cost[q] > TokenLimit
                      \/ /\ charged'[j][q] # NoCharge
                         /\ SumOn(Price(j), CountedBy(Requests, j, charged[j][q][1], charged[j][q][2]))'
                              > LimitOf(j)
    BY <1>0 DEF Justified, Rejected, LimitOf
  <2>1. CASE q = r /\ j = k
    <3>1. n > LimitOf(k)
      BY <1>5, <2>1 DEF Lets, ExpireAt, Rejected, Kinds
    <3>2. CountedBy(Requests, j, charged[j][q][1], charged[j][q][2])' = CountedBy(Requests, k, b, L)'
      BY <1>4, <2>1 DEF CountedBy
    <3>3. SumOn(Price(j), CountedBy(Requests, j, charged[j][q][1], charged[j][q][2]))' = n
      BY <1>2, <2>1, <3>2 DEF n, Price
    <3>4. charged'[j][q] # NoCharge
      BY <1>0, <1>4, <2>1 DEF NoCharge, Buckets
    <3> QED
      BY <2>1, <3>1, <3>3, <3>4
  <2>2. CASE q = r /\ j # k
    BY <1>5, <2>2 DEF Lets, ExpireAt, Rejected, Kinds
  <2>3. CASE q # r
    <3>1. pc[q] = Rejected(j) /\ charged'[j][q] = charged[j][q]
      BY <1>0, <1>4, <2>3
    <3>2. CASE j = "tpm" /\ Cost[q] > TokenLimit
      BY <3>2
    <3>3. CASE ~(j = "tpm" /\ Cost[q] > TokenLimit)
      <4> DEFINE c == charged[j][q][1]
                 l == charged[j][q][2]
                 S == CountedBy(Requests, j, c, l)
      <4>1. charged[j][q] # NoCharge /\ SumOn(Price(j), S) > LimitOf(j)
        BY <3>1, <3>3 DEF Justified
      <4>2. c \in Buckets /\ l \in Nat
        BY <4>1 DEF TypeOK
      <4>3. SumOn(Price(j), S) \in Nat
        <5>1. S \in SUBSET Requests
          BY DEF CountedBy
        <5> HIDE DEF S
        <5> QED
          BY <5>1, SumsOfRequests
      <4>4. CountedBy(Requests, j, charged[j][q][1], charged[j][q][2])' =
              {p \in Requests : charged'[j][p][1] = c /\ charged'[j][p][2] = l}
        BY <3>1 DEF CountedBy
      <4>5. PICK cc, ll : cc = c /\ ll = l
        OBVIOUS
      <4>6. CountedBy(Requests, j, charged[j][q][1], charged[j][q][2])' = CountedBy(Requests, j, cc, ll)'
        BY <4>4, <4>5 DEF CountedBy
      <4>7. CASE j = k /\ c = b /\ l = L
        <5>1. S = CountedBy(Requests, k, b, L)
          BY <4>7
        <5>2. CountedBy(Requests, j, cc, ll)' = CountedBy(Requests, k, b, L)'
          BY <4>5, <4>7 DEF CountedBy
        <5>3. SumOn(Price(j), CountedBy(Requests, j, charged[j][q][1], charged[j][q][2]))' =
                SumOn(Price(j), S) + Price(k)[r]
          BY <1>2, <4>6, <4>7, <5>1, <5>2 DEF Price
        <5> HIDE DEF S
        <5>4. SumOn(Price(j), S) + Price(k)[r] > LimitOf(j)
          BY <1>0, <4>1, <4>3, <4>7
        <5> QED
          BY <3>1, <4>1, <5>3, <5>4
      <4>8. CASE j # k \/ c # b \/ l # L
        <5>1. CountedBy(Requests, j, cc, ll)' = CountedBy(Requests, j, cc, ll)
          BY <1>2, <4>2, <4>5, <4>8
        <5>2. SumOn(Price(j), CountedBy(Requests, j, charged[j][q][1], charged[j][q][2]))' =
                SumOn(Price(j), S)
          BY <4>5, <4>6, <5>1 DEF Price
        <5> QED
          BY <3>1, <4>1, <5>2
      <4> QED
        BY <4>7, <4>8
    <3> QED
      BY <3>2, <3>3
  <2> QED
    BY <2>1, <2>2, <2>3
<1>13. Expiring'
  <2> SUFFICES ASSUME mishaps = 0, NEW j \in Kinds, NEW c \in Buckets, expires'[j][c] = Never
               PROVE  \E q \in Requests : pc'[q] = ExpireAt(j) /\ bucket'[q] = c
    BY <1>0 DEF Expiring, ExpireAt
  <2>1. CASE j = k /\ c = b /\ expires[k][b] = Missing
    <3>1. n = Price(k)[r]
      BY <1>0, <2>1 DEF Keys, n
    <3>2. pc'[r] = ExpireAt(k)
      BY <1>5, <3>1
    <3>3. bucket'[r] = b
      BY <1>a, <3>2 DEF Shape, Alone, ExpireAt
    <3> QED
      BY <2>1, <3>2, <3>3
  <2>2. CASE ~(j = k /\ c = b /\ expires[k][b] = Missing)
    <3>1. expires[j][c] = Never
      BY <1>0, <1>3, <2>2
    <3>2. PICK q \in Requests : pc[q] = ExpireAt(j) /\ bucket[q] = c
      BY <3>1 DEF Expiring
    <3>3. q # r
      BY <1>0, <3>2 DEF ExpireAt, IncrAt
    <3>4. pc'[q] = pc[q] /\ bucket'[q] = bucket[q]
      BY <1>0, <3>3 DEF Shape, Alone
    <3> QED
      BY <3>2, <3>4
  <2> QED
    BY <2>1, <2>2
<1> QED
  BY <1>7, <1>8, <1>9, <1>10, <1>11, <1>12, <1>13

\* Steps after which the requests counted are the same.
LEMMA UncountedKeeps ==
  ASSUME IInv, NEW r \in Requests, Shape(r), TypeOK',
         \A k \in Kinds : ~CountStep(k, r), charged' = charged,
         \A k \in Kinds, b \in Buckets : life'[k][b] \in {life[k][b], life[k][b] + 1}
  PROVE  Charges' /\ PerLife' /\ Justified'
<1> USE DEF IInv
<1>0. \A q \in Requests : q # r => pc'[q] = pc[q]
  BY DEF Shape, Alone, TypeOK
<1>1. \/ pc[r] = "idle" /\ pc'[r] = "rpm_incr"
      \/ pc'[r] = "error"
      \/ pc[r] = "rpm_expire" /\ pc'[r] = IF Cost[r] > TokenLimit THEN "no_tokens" ELSE "tpm_incr"
      \/ pc[r] = "tpm_expire" /\ pc'[r] = "passed"
  BY DEF Shape, QuietStep, LoseStep, RenewStep, ExpireAt, Lets, Kinds
<1>2. Charges'
  <2> SUFFICES ASSUME NEW j \in Kinds, NEW q \in Requests, charged'[j][q] # NoCharge
               PROVE  /\ pc'[q] \notin Before(j)
                      /\ charged'[j][q][2] \in 1 .. life'[j][charged'[j][q][1]]
    BY DEF Charges, Before
  <2>1. /\ charged[j][q] # NoCharge /\ pc[q] \notin Before(j)
        /\ charged[j][q][2] \in 1 .. life[j][charged[j][q][1]] /\ charged[j][q][1] \in Buckets
    BY DEF Charges, TypeOK
  <2>2. life'[j][charged[j][q][1]] >= life[j][charged[j][q][1]]
        /\ life[j][charged[j][q][1]] \in Nat /\ life'[j][charged[j][q][1]] \in Nat
    <3>1. PICK c \in Buckets : c = charged[j][q][1]
      BY <2>1
    <3>2. /\ life[j][c] \in Nat /\ life'[j][c] \in Nat
          /\ life'[j][c] \in {life[j][c], life[j][c] + 1}
      BY DEF TypeOK
    <3> QED
      BY <3>1, <3>2
  <2>3. pc'[q] \notin Before(j)
    BY <1>0, <1>1, <2>1 DEF Before, Kinds
  <2> QED
    BY <2>1, <2>2, <2>3
<1>3. ASSUME NEW j \in Kinds, NEW c, NEW l
      PROVE  /\ CountedBy(Passed(j), j, c, l)' = CountedBy(Passed(j), j, c, l)
             /\ CountedBy(Requests, j, c, l)' = CountedBy(Requests, j, c, l)
  <2>1. Passed(j)' = Passed(j)
    BY PassedEffect
  <2> QED
    BY <2>1 DEF CountedBy
<1>4. PerLife'
  <2> SUFFICES ASSUME NEW j \in Kinds, NEW c \in Buckets, NEW l \in 1 .. life'[j][c]
               PROVE  SumOn(Price(j), CountedBy(Passed(j), j, c, l))' <= LimitOf(j)
    BY DEF PerLife, LimitOf
  <2>0. life[j][c] \in Nat /\ life'[j][c] \in Nat /\ LimitOf(j) \in Nat
    BY Prices DEF TypeOK
  <2>1. SumOn(Price(j), CountedBy(Passed(j), j, c, l))' = SumOn(Price(j), CountedBy(Passed(j), j, c, l))
    BY <1>3 DEF Price
  <2>2. CASE l \in 1 .. life[j][c]
    BY <2>1, <2>2 DEF PerLife
  <2>3. CASE l \notin 1 .. life[j][c]
    <3>1. CountedBy(Passed(j), j, c, l) = {}
      BY <2>3 DEF CountedBy, Passed, Charges
    <3> QED
      BY <2>0, <2>1, <3>1, SumOfNothing
  <2> QED
    BY <2>2, <2>3
<1>5. Justified'
  <2> SUFFICES ASSUME mishaps' = 0, NEW j \in Kinds, NEW q \in Requests, pc'[q] = Rejected(j)
               PROVE  \/ j = "tpm" /\ Cost[q] > TokenLimit
                      \/ /\ charged'[j][q] # NoCharge
                         /\ SumOn(Price(j), CountedBy(Requests, j, charged[j][q][1], charged[j][q][2]))'
                              > LimitOf(j)
    BY DEF Justified, Rejected, LimitOf
  <2>0. mishaps = 0
    BY DEF Shape, QuietStep, LoseStep, RenewStep, TypeOK
  <2>1. CASE q = r
    BY <1>1, <2>1 DEF Rejected, Kinds
  <2>2. CASE q # r
    <3>1. pc[q] = Rejected(j)
      BY <1>0, <2>2
    <3>2. CountedBy(Requests, j, charged[j][q][1], charged[j][q][2])' =
            CountedBy(Requests, j, charged[j][q][1], charged[j][q][2])
      BY DEF CountedBy
    <3> QED
      BY <2>0, <3>1, <3>2 DEF Justified, Price
  <2> QED
    BY <2>1, <2>2
<1> QED
  BY <1>2, <1>4, <1>5

\* A lost answer: the key counts more than anybody was told.
LEMMA LoseKeepsIInv ==
  ASSUME IInv, NEW r \in Requests, Shape(r), TypeOK', NEW k \in Kinds, LoseStep(k, r)
  PROVE  IInv'
<1> USE DEF IInv
<1>a. PICK b \in Buckets : b = bucket[r]
  BY DEF TypeOK
<1>0. /\ Price(k)[r] \in Nat \ {0} /\ count[k][b] \in Nat
      /\ AddToKey(k, b, Price(k)[r]) /\ charged' = charged
      /\ mishaps' # 0
  BY <1>a, Prices DEF TypeOK, LoseStep
<1>1. /\ count'[k][b] = count[k][b] + Price(k)[r]
      /\ expires'[k][b] = IF expires[k][b] = Missing THEN Never ELSE expires[k][b]
      /\ life'[k][b] = IF expires[k][b] = Missing THEN life[k][b] + 1 ELSE life[k][b]
      /\ \A j \in Kinds, c \in Buckets : j # k \/ c # b =>
           count'[j][c] = count[j][c] /\ expires'[j][c] = expires[j][c] /\ life'[j][c] = life[j][c]
  BY <1>0, AddEffect
<1>2. /\ \A j \in Kinds, c \in Buckets : life'[j][c] \in {life[j][c], life[j][c] + 1}
      /\ \A j \in Kinds : ~CountStep(j, r)
  <2>1. \A j \in Kinds : ~CountStep(j, r)
    BY DEF LoseStep, CountStep, Lets, Rejected, ExpireAt
  <2> QED
    BY <1>1, <2>1
<1>3. Charges' /\ PerLife' /\ Justified'
  BY <1>0, <1>2, UncountedKeeps
<1>4. Keys'
  <2>1. count'[k][b] > 0 /\ expires'[k][b] # Missing /\ life'[k][b] > 0
    <3>1. life[k][b] \in Nat
      BY DEF TypeOK
    <3> QED
      BY <1>0, <1>1, <3>1 DEF Keys, Missing, Never
  <2> QED
    BY <1>1, <2>1 DEF Keys
<1>5. Affordable'
  BY AffordableKept
<1>6. Accounts'
  <2> SUFFICES ASSUME NEW j \in Kinds, NEW c \in Buckets, expires'[j][c] # Missing
               PROVE  SumOn(Price(j), CountedBy(Requests, j, c, life[j][c]))' <= count'[j][c]
    BY <1>0 DEF Accounts
  <2>1. CountedBy(Requests, j, c, life[j][c])' = CountedBy(Requests, j, c, life'[j][c])
    BY <1>0 DEF CountedBy
  <2>2. SumOn(Price(j), CountedBy(Requests, j, c, life[j][c]))' =
          SumOn(Price(j), CountedBy(Requests, j, c, life'[j][c]))
    BY <2>1 DEF Price
  <2>3. CASE expires[j][c] = Missing
    <3>1. j = k /\ c = b /\ life'[j][c] = life[j][c] + 1
      BY <1>1, <2>3
    <3>2. CountedBy(Requests, j, c, life[j][c] + 1) = {}
      <4> SUFFICES ASSUME NEW q \in Requests, charged[j][q][1] = c, charged[j][q][2] = life[j][c] + 1
                   PROVE  FALSE
        BY DEF CountedBy
      <4>1. charged[j][q] # NoCharge /\ life[j][c] \in Nat
        <5>1. -1 \notin Buckets
          BY DEF Buckets
        <5>2. life[j][c] \in Nat
          BY DEF TypeOK
        <5> QED
          BY <5>1, <5>2 DEF NoCharge
      <4>2. charged[j][q][2] \in 1 .. life[j][c]
        BY <4>1 DEF Charges
      <4> QED
        BY <4>1, <4>2
    <3>3. count'[j][c] \in Nat
      BY DEF TypeOK
    <3> QED
      BY <2>2, <3>1, <3>2, <3>3, SumOfNothing
  <2>4. CASE expires[j][c] # Missing
    <3>1. life'[j][c] = life[j][c]
      BY <1>1, <2>4
    <3>2. /\ SumOn(Price(j), CountedBy(Requests, j, c, life[j][c])) <= count[j][c]
          /\ count[j][c] \in Nat
      BY <2>4 DEF Accounts, TypeOK
    <3>3. SumOn(Price(j), CountedBy(Requests, j, c, life[j][c])) \in Nat
      <4> DEFINE S == CountedBy(Requests, j, c, life[j][c])
      <4>1. S \in SUBSET Requests
        BY DEF CountedBy
      <4> HIDE DEF S
      <4> QED
        BY <4>1, SumsOfRequests DEF S
    <3>4. count'[j][c] >= count[j][c] /\ count'[j][c] \in Nat
      <4>1. CASE j = k /\ c = b
        BY <1>0, <1>1, <4>1
      <4>2. CASE j # k \/ c # b
        BY <1>1, <3>2, <4>2
      <4> QED
        BY <4>1, <4>2
    <3> QED
      BY <2>2, <3>1, <3>2, <3>3, <3>4
  <2> QED
    BY <2>3, <2>4
<1>7. Expiring'
  BY <1>0 DEF Expiring
<1> QED
  BY <1>3, <1>4, <1>5, <1>6, <1>7

\* EXPIRE keeps the key it finds.
LEMMA RenewKeepsIInv ==
  ASSUME IInv, NEW r \in Requests, Shape(r), TypeOK', NEW k \in Kinds, RenewStep(k, r)
  PROVE  IInv'
<1> USE DEF IInv
<1>a. PICK b \in Buckets : b = bucket[r]
  BY DEF TypeOK
<1>0. /\ SetTTL(k, b) /\ count' = count /\ life' = life /\ charged' = charged
      /\ now \in Nat /\ Window \in Nat
  BY <1>a, Constants DEF TypeOK, RenewStep, SetTTL
<1>1. /\ expires'[k][b] = IF expires[k][b] = Missing THEN Missing ELSE now + Window
      /\ \A j \in Kinds, c \in Buckets : j # k \/ c # b => expires'[j][c] = expires[j][c]
  BY <1>0, ExpireEffect
<1>2. \A j \in Kinds, c \in Buckets : expires'[j][c] = Missing <=> expires[j][c] = Missing
  BY <1>0, <1>1 DEF Missing
<1>3. Charges' /\ PerLife' /\ Justified'
  <2>1. \A j \in Kinds : ~CountStep(j, r)
    BY DEF RenewStep, CountStep, ExpireAt, IncrAt
  <2> QED
    BY <1>0, <2>1, UncountedKeeps
<1>4. Keys'
  BY <1>0, <1>2 DEF Keys
<1>5. Affordable'
  BY AffordableKept
<1>6. Accounts'
  <2> SUFFICES ASSUME NEW j \in Kinds, NEW c \in Buckets, expires'[j][c] # Missing
               PROVE  LET total == SumOn(Price(j), CountedBy(Requests, j, c, life[j][c]))'
                      IN total <= count'[j][c] /\ (mishaps' = 0 => total = count'[j][c])
    BY DEF Accounts
  <2>1. CountedBy(Requests, j, c, life[j][c])' = CountedBy(Requests, j, c, life[j][c])
    BY <1>0 DEF CountedBy
  <2>2. mishaps' = 0 => mishaps = 0
    BY DEF RenewStep, TypeOK
  <2> QED
    BY <1>0, <1>2, <2>1, <2>2 DEF Accounts, Price
<1>7. Expiring'
  <2> SUFFICES ASSUME mishaps' = 0, NEW j \in Kinds, NEW c \in Buckets, expires'[j][c] = Never
               PROVE  \E q \in Requests : pc'[q] = ExpireAt(j) /\ bucket'[q] = c
    BY DEF Expiring, ExpireAt
  <2>1. expires[j][c] = Never /\ ~(j = k /\ c = b)
    BY <1>0, <1>1 DEF Missing, Never
  <2>2. mishaps = 0
    BY DEF RenewStep, TypeOK
  <2>3. PICK q \in Requests : pc[q] = ExpireAt(j) /\ bucket[q] = c
    BY <2>1, <2>2 DEF Expiring
  <2>4. q # r
    BY <1>a, <2>1, <2>3 DEF RenewStep, ExpireAt, Kinds
  <2> QED
    BY <2>3, <2>4 DEF Shape, Alone, TypeOK
<1> QED
  BY <1>3, <1>4, <1>5, <1>6, <1>7

\* A step that reaches no key.
LEMMA QuietKeepsIInv ==
  ASSUME IInv, NEW r \in Requests, Shape(r), TypeOK', QuietStep(r)
  PROVE  IInv'
<1> USE DEF IInv
<1>0. UNCHANGED <<count, expires, life, charged>>
  BY DEF QuietStep
<1>1. Charges' /\ PerLife' /\ Justified'
  <2>1. \A j \in Kinds : ~CountStep(j, r)
    BY DEF QuietStep, CountStep, ExpireAt, IncrAt, Lets, Rejected
  <2> QED
    BY <1>0, <2>1, UncountedKeeps
<1>2. Keys'
  BY <1>0 DEF Keys
<1>3. Affordable'
  BY AffordableKept
<1>4. mishaps' = 0 => mishaps = 0 /\ pc[r] = "idle"
  BY DEF QuietStep, TypeOK
<1>5. Accounts'
  <2> SUFFICES ASSUME NEW j \in Kinds, NEW c \in Buckets, expires'[j][c] # Missing
               PROVE  LET total == SumOn(Price(j), CountedBy(Requests, j, c, life[j][c]))'
                      IN total <= count'[j][c] /\ (mishaps' = 0 => total = count'[j][c])
    BY DEF Accounts
  <2>1. CountedBy(Requests, j, c, life[j][c])' = CountedBy(Requests, j, c, life[j][c])
    BY <1>0 DEF CountedBy
  <2> QED
    BY <1>0, <1>4, <2>1 DEF Accounts, Price
<1>6. Expiring'
  <2> SUFFICES ASSUME mishaps' = 0, NEW j \in Kinds, NEW c \in Buckets, expires'[j][c] = Never
               PROVE  \E q \in Requests : pc'[q] = ExpireAt(j) /\ bucket'[q] = c
    BY DEF Expiring, ExpireAt
  <2>1. PICK q \in Requests : pc[q] = ExpireAt(j) /\ bucket[q] = c
    BY <1>0, <1>4 DEF Expiring
  <2>2. q # r
    BY <1>4, <2>1 DEF ExpireAt
  <2> QED
    BY <2>1, <2>2 DEF Shape, Alone, TypeOK
<1> QED
  BY <1>1, <1>2, <1>3, <1>5, <1>6

\* The clock ends lives and begins none.
LEMMA TickKeepsIInv ==
  ASSUME IInv, Tick
  PROVE  IInv'
<1> USE DEF IInv
<1>0. /\ life' = life /\ pc' = pc /\ bucket' = bucket /\ built' = built
      /\ charged' = charged /\ mishaps' = mishaps
  BY DEF Tick
<1>1. /\ count' \in [Kinds -> [Buckets -> Nat]]
      /\ expires' \in [Kinds -> [Buckets -> {Missing, Never} \cup 1 .. MaxTime + Window]]
      /\ \A k \in Kinds, b \in Buckets :
              \/ count'[k][b] = count[k][b] /\ expires'[k][b] = expires[k][b]
              \/ count'[k][b] = 0 /\ expires'[k][b] = Missing /\ expires[k][b] # Never
  BY TickEffect
<1>2. TypeOK'
  <2>1. now' \in 0 .. MaxTime
    BY Constants DEF Tick, TypeOK
  <2> QED
    BY <1>0, <1>1, <2>1 DEF TypeOK
<1>3. Keys'
  BY <1>0, <1>1 DEF Keys
<1>4. \A j, c, l : /\ CountedBy(Passed(j), j, c, l)' = CountedBy(Passed(j), j, c, l)
                   /\ CountedBy(Requests, j, c, l)' = CountedBy(Requests, j, c, l)
  BY <1>0 DEF CountedBy, Passed, Rejected
<1>5. Charges' /\ Affordable'
  BY <1>0 DEF Charges, Affordable, Before, IncrAt, ExpireAt, Price, LimitOf
<1>6. Accounts'
  <2> SUFFICES ASSUME NEW j \in Kinds, NEW c \in Buckets, expires'[j][c] # Missing
               PROVE  LET total == SumOn(Price(j), CountedBy(Requests, j, c, life[j][c]))'
                      IN total <= count'[j][c] /\ (mishaps' = 0 => total = count'[j][c])
    BY DEF Accounts
  <2>1. CountedBy(Requests, j, c, life[j][c])' = CountedBy(Requests, j, c, life[j][c])
    BY <1>0 DEF CountedBy
  <2> QED
    BY <1>0, <1>1, <2>1 DEF Accounts, Price
<1>7. PerLife'
  BY <1>0, <1>4 DEF PerLife, Price, LimitOf
<1>8. Justified'
  <2> SUFFICES ASSUME mishaps = 0, NEW j \in Kinds, NEW q \in Requests, pc[q] = Rejected(j)
               PROVE  \/ j = "tpm" /\ Cost[q] > TokenLimit
                      \/ /\ charged[j][q] # NoCharge
                         /\ SumOn(Price(j), CountedBy(Requests, j, charged[j][q][1], charged[j][q][2]))'
                              > LimitOf(j)
    BY <1>0 DEF Justified, Rejected, LimitOf
  <2>1. CountedBy(Requests, j, charged[j][q][1], charged[j][q][2])' =
          CountedBy(Requests, j, charged[j][q][1], charged[j][q][2])
    BY <1>0 DEF CountedBy
  <2> QED
    BY <2>1 DEF Justified, Price
<1>9. Expiring'
  BY <1>0, <1>1 DEF Expiring, ExpireAt, Missing, Never
<1> QED
  BY <1>2, <1>3, <1>5, <1>6, <1>7, <1>8, <1>9

\* A step that changes nothing keeps the invariant.
LEMMA StutterKeepsIInv ==
  ASSUME IInv, UNCHANGED vars
  PROVE  IInv'
<1> USE DEF IInv, vars
<1>1. TypeOK' /\ Keys' /\ Charges' /\ Affordable'
  BY DEF TypeOK, Keys, Charges, Affordable, Before, IncrAt, ExpireAt, Price, LimitOf
<1>2. \A j, c, l : /\ CountedBy(Passed(j), j, c, l)' = CountedBy(Passed(j), j, c, l)
                   /\ CountedBy(Requests, j, c, l)' = CountedBy(Requests, j, c, l)
  BY DEF CountedBy, Passed, Rejected
<1>3. \A j, c : CountedBy(Requests, j, c, life[j][c])' = CountedBy(Requests, j, c, life[j][c])
  BY DEF CountedBy
<1>4. \A j, q : CountedBy(Requests, j, charged[j][q][1], charged[j][q][2])' =
                  CountedBy(Requests, j, charged[j][q][1], charged[j][q][2])
  BY DEF CountedBy
<1>5. Accounts' /\ PerLife'
  BY <1>2, <1>3 DEF Accounts, PerLife, Price, LimitOf
<1>6. Justified' /\ Expiring'
  BY <1>4 DEF Justified, Expiring, Price, LimitOf, Rejected, ExpireAt
<1> QED
  BY <1>1, <1>5, <1>6

\* Every step keeps the invariant.
LEMMA NextKeepsIInv ==
  ASSUME IInv, [Next]_vars
  PROVE  IInv'
<1>1. CASE Tick
  BY <1>1, TickKeepsIInv
<1>2. ASSUME NEW r \in Requests, Step(r) \/ Fail(r)
      PROVE  IInv'
  <2>1. Shape(r) /\ TypeOK'
    BY <1>2, Shapes, TypesKept DEF IInv, Shape
  <2>2. CASE QuietStep(r)
    BY <2>1, <2>2, QuietKeepsIInv
  <2>3. ASSUME NEW k \in Kinds, CountStep(k, r) \/ LoseStep(k, r) \/ RenewStep(k, r)
        PROVE  IInv'
    BY <2>1, <2>3, CountKeepsIInv, LoseKeepsIInv, RenewKeepsIInv
  <2> QED
    BY <2>1, <2>2, <2>3 DEF Shape
<1>3. CASE UNCHANGED vars
  BY <1>3, StutterKeepsIInv
<1> QED
  BY <1>1, <1>2, <1>3 DEF Next

\* The invariant holds at first.
LEMMA InitIInv ==
  ASSUME Init
  PROVE  IInv
<1> USE DEF Init
<1>1. 0 \in Buckets
  <2>1. 0 \in 0 .. MaxTime /\ 0 \div Window = 0
    BY Constants
  <2> QED
    BY <2>1, BucketOf
<1>2. TypeOK
  BY <1>1, Constants DEF TypeOK, Labels, Missing, Kinds
<1>3. Keys /\ Accounts /\ Expiring
  BY DEF Keys, Accounts, Expiring, Missing, Never
<1>4. Charges /\ PerLife
  BY DEF Charges, PerLife
<1>5. Affordable /\ Justified
  BY DEF Affordable, Justified, IncrAt, ExpireAt, Rejected
<1> QED
  BY <1>2, <1>3, <1>4, <1>5 DEF IInv

-----------------------------------------------------------------------------
(* The theorems                                                            *)

\* The parts of IInv hold in every reachable state.
THEOREM InductiveInvariant == Spec => []IInv
<1>1. Init => IInv
  BY InitIInv
<1>2. IInv /\ [Next]_vars => IInv'
  BY NextKeepsIInv
<1> QED
  BY <1>1, <1>2, PTL DEF Spec

\* The variables keep their types: among others, every command names a bucket
\* the clock can reach, and a time to live is always later than the first tick.
THEOREM WellTyped == Spec => []TypeOK
<1>1. IInv => TypeOK
  BY DEF IInv
<1> QED
  BY <1>1, InductiveInvariant, PTL

\* One request raises the request counter by one.
LEMMA IInvRequests ==
  ASSUME IInv
  PROVE  RequestsPerLife
<1> SUFFICES ASSUME NEW b \in Buckets, NEW l \in 1 .. life["rpm"][b]
             PROVE  Cardinality(CountedBy(Cleared, "rpm", b, l)) <= RequestLimit
  BY DEF RequestsPerLife
<1>1. Cleared = Passed("rpm") /\ LimitOf("rpm") = RequestLimit /\ "rpm" \in Kinds
  BY DEF Cleared, Passed, Rejected, LimitOf, Kinds
<1>2. SumOn(Price("rpm"), CountedBy(Cleared, "rpm", b, l)) <= RequestLimit
  BY <1>1 DEF IInv, PerLife
<1>3. CountedBy(Cleared, "rpm", b, l) \in SUBSET Requests
  BY DEF CountedBy, Cleared
<1>4. SumOn(Price("rpm"), CountedBy(Cleared, "rpm", b, l)) = Cardinality(CountedBy(Cleared, "rpm", b, l))
  <2> DEFINE S == CountedBy(Cleared, "rpm", b, l)
  <2>1. IsFiniteSet(S)
    BY <1>1, <1>3, SumsOfRequests
  <2>2. \A r \in S : Price("rpm")[r] = 1
    BY <1>3 DEF Price
  <2> HIDE DEF S
  <2> QED
    BY <2>1, <2>2, SumOfOnes DEF S
<1> QED
  BY <1>2, <1>4

\* However the gateways' INCR and EXPIRE commands interleave, are delayed, fail
\* or lose their answers, one life of a request counter lets at most
\* RequestLimit requests pass check_requests.
THEOREM RequestsLimited == Spec => []RequestsPerLife
<1>1. IInv => RequestsPerLife
  BY IInvRequests
<1> QED
  BY <1>1, InductiveInvariant, PTL

\* The requests that one life of a token counter lets pass check_tokens cost at
\* most TokenLimit together.
THEOREM TokensLimited == Spec => []TokensPerLife
<1>1. ASSUME IInv PROVE TokensPerLife
  <2> SUFFICES ASSUME NEW b \in Buckets, NEW l \in 1 .. life["tpm"][b]
               PROVE  MapThenSumSet(LAMBDA r : Cost[r], CountedBy(Funded, "tpm", b, l)) <= TokenLimit
    BY DEF TokensPerLife
  <2>1. Funded = Passed("tpm") /\ LimitOf("tpm") = TokenLimit /\ Price("tpm") = Cost /\ "tpm" \in Kinds
    BY Constants DEF Funded, Passed, Rejected, LimitOf, Price, Kinds
  <2>2. SumOn(Cost, CountedBy(Funded, "tpm", b, l)) <= TokenLimit
    BY <1>1, <2>1 DEF IInv, PerLife
  <2> QED
    BY <2>2, SumOnIsFold
<1>2. IInv => TokensPerLife
  BY <1>1
<1> QED
  BY <1>2, InductiveInvariant, PTL

\* As long as nothing fails, a request is only turned away when its counter has
\* counted more than the limit since it was created, or when the request alone
\* costs more than the token limit.
THEOREM NobodyTurnedAwayEarly == Spec => []RejectionsJustified
<1>1. ASSUME IInv PROVE RejectionsJustified
  <2> SUFFICES ASSUME mishaps = 0, NEW r \in Requests
               PROVE LET counted(k) == CountedBy(Requests, k, charged[k][r][1], charged[k][r][2])
                     IN /\ pc[r] = "no_requests" => Cardinality(counted("rpm")) > RequestLimit
                        /\ pc[r] = "no_tokens" =>
                             \/ Cost[r] > TokenLimit
                             \/ MapThenSumSet(LAMBDA q : Cost[q], counted("tpm")) > TokenLimit
    BY DEF RejectionsJustified
  <2>1. /\ "rpm" \in Kinds /\ "tpm" \in Kinds /\ Price("tpm") = Cost
        /\ LimitOf("rpm") = RequestLimit /\ LimitOf("tpm") = TokenLimit
        /\ Rejected("rpm") = "no_requests" /\ Rejected("tpm") = "no_tokens"
    BY Constants DEF Kinds, Price, LimitOf, Rejected
  <2>2. ASSUME pc[r] = "no_requests"
        PROVE  Cardinality(CountedBy(Requests, "rpm", charged["rpm"][r][1], charged["rpm"][r][2])) > RequestLimit
    <3> DEFINE S == CountedBy(Requests, "rpm", charged["rpm"][r][1], charged["rpm"][r][2])
    <3>1. SumOn(Price("rpm"), S) > RequestLimit
      BY <1>1, <2>1, <2>2 DEF IInv, Justified
    <3>2. S \in SUBSET Requests /\ \A q \in S : Price("rpm")[q] = 1
      BY DEF CountedBy, Price
    <3> HIDE DEF S
    <3>3. SumOn(Price("rpm"), S) = Cardinality(S)
      BY <2>1, <3>2, SumsOfRequests, SumOfOnes
    <3> QED
      BY <3>1, <3>3 DEF S
  <2>3. ASSUME pc[r] = "no_tokens", ~(Cost[r] > TokenLimit)
        PROVE  MapThenSumSet(LAMBDA q : Cost[q],
                 CountedBy(Requests, "tpm", charged["tpm"][r][1], charged["tpm"][r][2])) > TokenLimit
    <3>1. SumOn(Cost, CountedBy(Requests, "tpm", charged["tpm"][r][1], charged["tpm"][r][2])) > TokenLimit
      BY <1>1, <2>1, <2>3 DEF IInv, Justified
    <3> QED
      BY <3>1, SumOnIsFold
  <2> QED
    BY <2>2, <2>3
<1>2. IInv => RejectionsJustified
  BY <1>1
<1> QED
  BY <1>2, InductiveInvariant, PTL

\* As long as nothing fails, a key without a time to live has a request whose
\* next command is the EXPIRE of that key.
THEOREM CountersGetTheirTTL == Spec => []CountersExpire
<1>1. IInv => CountersExpire
  BY DEF IInv, Expiring, CountersExpire, ExpireAt
<1> QED
  BY <1>1, InductiveInvariant, PTL

-----------------------------------------------------------------------------
(***************************************************************************)
(* What the request counters promise of any span of one window, whichever  *)
(* minutes it touches: proofs of AtMostTwoLives and BurstBound.  They are  *)
(* about time: when a command is sent, when the lives of a key begin and   *)
(* end, and when a request is counted.                                     *)
(***************************************************************************)


\* The time at which minute n begins.
Start(n) == n * Window

\* The requests of S that a life of a request counter counted at time u or later.
Recent(S, b, l, u) == {r \in CountedBy(S, "rpm", b, l) : charged["rpm"][r][3] >= u}

\* The requests that passed check_requests in the span of one window from t.
Span(t) == {r \in Cleared : charged["rpm"][r][3] \in t .. t + Window - 1}

-----------------------------------------------------------------------------
(* The parts of the inductive invariant                                    *)

\* A command is built in the minute it names, and applied soon.
Sent ==
  \A r \in Requests : pc[r] \in Sending =>
    /\ Start(bucket[r]) <= built[r] /\ built[r] < Start(bucket[r] + 1)
    /\ built[r] <= now /\ now <= built[r] + MaxDelay

\* The l-th life of a counter begins in the l-th minute from its own, or later,
\* and ends in a later minute.
Lives ==
  \A k \in Kinds, b \in Buckets :
    /\ life[k][b] <= 2
    /\ expires[k][b] = Missing => life[k][b] = 0 \/ Start(b + life[k][b]) <= now
    /\ expires[k][b] # Missing => Start(b + life[k][b] - 1) <= now
    /\ expires[k][b] \notin {Missing, Never} => Start(b + life[k][b]) <= expires[k][b]

\* A request is counted while its counter may live, before the end of the next
\* minute.
ChargeTimes ==
  \A r \in Requests : charged["rpm"][r] # NoCharge =>
    LET c == charged["rpm"][r]
    IN /\ Start(c[1] + c[2] - 1) <= c[3] /\ c[3] < Start(c[1] + 2) - 1
       /\ c[3] <= now

\* What a life of a counter counted in its last window is not all it counted:
\* the command that created the key came before EXPIRE.
LateStart ==
  \A b \in Buckets, u \in Int :
    /\ \A l \in 1 .. life["rpm"][b] :
         /\ l < life["rpm"][b] \/ expires["rpm"][b] = Missing
         /\ u > now - Window
         => Cardinality(Recent(Cleared, b, l, u)) <= RequestLimit - 1
    /\ expires["rpm"][b] \notin {Missing, Never} /\ u > expires["rpm"][b] - Window =>
         /\ Cardinality(Recent(Requests, b, life["rpm"][b], u)) <= count["rpm"][b] - 1
         /\ Cardinality(Recent(Cleared, b, life["rpm"][b], u)) <= RequestLimit - 1

\* BurstBound for the spans that are over.
PastBursts ==
  \A t \in 0 .. MaxTime : t + Window - 1 < now => Cardinality(Span(t)) <= 5 * RequestLimit - 2

TInv == MaxDelay < Window => Sent /\ Lives /\ ChargeTimes /\ LateStart /\ PastBursts

-----------------------------------------------------------------------------
(* Minutes                                                                 *)

\* Minutes follow one another.
LEMMA StartNext ==
  \A n \in Int : /\ Start(n) \in Int /\ Start(n + 1) = Start(n) + Window
                 /\ Start(n + 2) = Start(n) + Window + Window
                 /\ Start(n - 1) = Start(n) - Window
BY Constants DEF Start

\* A later minute does not start earlier.
LEMMA StartMonotone ==
  ASSUME NEW m \in Int, NEW n \in Int, m <= n
  PROVE  Start(m) <= Start(n)
<1>1. PICK d \in Nat : n = m + d
  <2>1. n - m \in Nat /\ n = m + (n - m)
    OBVIOUS
  <2> QED
    BY <2>1
<1>2. Start(n) = Start(m) + d * Window /\ d * Window \in Nat /\ Start(m) \in Int
  BY <1>1, Constants DEF Start
<1> QED
  BY <1>2

\* The commands of the code are built in the minute they name.
LEMMA BuiltInMinute ==
  ASSUME NEW t \in 0 .. MaxTime
  PROVE  Start(t \div Window) <= t /\ t < Start(t \div Window + 1)
<1>1. t \div Window \in Int
  BY Constants
<1> DEFINE q == t \div Window
<1>2. Start(q + 1) = q * Window + Window
  <2> HIDE DEF q
  <2> QED
    BY <1>1, Constants DEF Start, q
<1> QED
  BY <1>2, BucketOf DEF Start

-----------------------------------------------------------------------------
(* Commands and keys                                                       *)

\* A step of a request builds a command in the minute it names.
LEMMA SentKept ==
  ASSUME IInv, Sent, NEW r \in Requests, Shape(r)
  PROVE  Sent'
<1> SUFFICES ASSUME NEW q \in Requests, pc'[q] \in Sending
             PROVE  /\ Start(bucket'[q]) <= built'[q] /\ built'[q] < Start(bucket'[q] + 1)
                    /\ built'[q] <= now /\ now <= built'[q] + MaxDelay
  <2>1. now' = now
    BY DEF Shape, QuietStep, CountStep, LoseStep, RenewStep
  <2> QED
    BY <2>1 DEF Sent, Start, Sending
<1>1. now \in 0 .. MaxTime /\ MaxDelay \in Nat
  BY Constants DEF IInv, TypeOK
<1>2. CASE q # r
  BY <1>2 DEF Shape, Alone, Sent, IInv, TypeOK
<1>3. CASE q = r /\ pc'[r] \in {"rpm_incr", "tpm_incr"}
  BY <1>1, <1>3, BuiltInMinute DEF Shape, Alone
<1>4. CASE q = r /\ pc'[r] \in {"rpm_expire", "tpm_expire"}
  <2>1. pc[r] \in Sending
    BY <1>4 DEF Shape, QuietStep, CountStep, LoseStep, RenewStep, Lets, IncrAt, ExpireAt, Rejected, Sending
  <2> QED
    BY <1>4, <2>1 DEF Shape, Alone, Sent
<1> QED
  BY <1>2, <1>3, <1>4 DEF Sending

\* What a step of a request does to a key, and who sent the command.
LEMMA KeyEffect ==
  ASSUME IInv, NEW r \in Requests, Shape(r), NEW j \in Kinds, NEW c \in Buckets
  PROVE  \/ expires'[j][c] = expires[j][c] /\ life'[j][c] = life[j][c]
            /\ count'[j][c] \in Nat /\ count'[j][c] >= count[j][c]
         \/ /\ expires[j][c] = Missing /\ expires'[j][c] = Never /\ life'[j][c] = life[j][c] + 1
            /\ pc[r] = IncrAt(j) /\ c = bucket[r]
         \/ /\ expires[j][c] # Missing /\ expires'[j][c] = now + Window
            /\ life'[j][c] = life[j][c] /\ count'[j][c] = count[j][c]
            /\ pc[r] = ExpireAt(j) /\ c = bucket[r]
<1>0. TypeOK /\ bucket[r] \in Buckets /\ count[j][c] \in Nat
  BY DEF IInv, TypeOK
<1>1. CASE QuietStep(r)
  BY <1>0, <1>1 DEF QuietStep
<1>2. ASSUME NEW k \in Kinds, CountStep(k, r) \/ LoseStep(k, r)
      PROVE  \/ expires'[j][c] = expires[j][c] /\ life'[j][c] = life[j][c]
                /\ count'[j][c] \in Nat /\ count'[j][c] >= count[j][c]
             \/ /\ expires[j][c] = Missing /\ expires'[j][c] = Never /\ life'[j][c] = life[j][c] + 1
                /\ pc[r] = IncrAt(j) /\ c = bucket[r]
  <2>1. AddToKey(k, bucket[r], Price(k)[r]) /\ Price(k)[r] \in Nat \ {0} /\ pc[r] = IncrAt(k)
    BY <1>2, Prices DEF CountStep, LoseStep
  <2>2. CASE k = j /\ c = bucket[r]
    BY <1>0, <2>1, <2>2, AddEffect
  <2>3. CASE k # j \/ c # bucket[r]
    BY <1>0, <2>1, <2>3, AddEffect
  <2> QED
    BY <2>2, <2>3
<1>3. ASSUME NEW k \in Kinds, RenewStep(k, r)
      PROVE  \/ expires'[j][c] = expires[j][c] /\ life'[j][c] = life[j][c]
                /\ count'[j][c] \in Nat /\ count'[j][c] >= count[j][c]
             \/ /\ expires[j][c] # Missing /\ expires'[j][c] = now + Window
                /\ life'[j][c] = life[j][c] /\ count'[j][c] = count[j][c]
                /\ pc[r] = ExpireAt(j) /\ c = bucket[r]
  <2>1. SetTTL(k, bucket[r]) /\ UNCHANGED <<count, life>> /\ pc[r] = ExpireAt(k)
    BY <1>3 DEF RenewStep, SetTTL
  <2>2. CASE k = j /\ c = bucket[r] /\ expires[j][c] # Missing
    BY <1>0, <2>1, <2>2, ExpireEffect
  <2>3. CASE k # j \/ c # bucket[r] \/ expires[j][c] = Missing
    BY <1>0, <2>1, <2>3, ExpireEffect
  <2> QED
    BY <2>2, <2>3
<1> QED
  BY <1>1, <1>2, <1>3 DEF Shape

\* No step of a request begins a third life of a counter, or ends one too
\* early.
LEMMA LivesKept ==
  ASSUME IInv, Sent, Lives, MaxDelay < Window, NEW r \in Requests, Shape(r)
  PROVE  Lives'
<1> SUFFICES ASSUME NEW k \in Kinds, NEW b \in Buckets
    PROVE /\ life'[k][b] <= 2
          /\ expires'[k][b] = Missing => life'[k][b] = 0 \/ Start(b + life'[k][b]) <= now
          /\ expires'[k][b] # Missing => Start(b + life'[k][b] - 1) <= now
          /\ expires'[k][b] \notin {Missing, Never} => Start(b + life'[k][b]) <= expires'[k][b]
  <2>1. now' = now
    BY DEF Shape, QuietStep, CountStep, LoseStep, RenewStep
  <2> QED
    BY <2>1 DEF Lives, Start, Missing, Never
<1>0. /\ b \in Int /\ life[k][b] \in Nat /\ now \in Nat /\ Window \in Nat \ {0} /\ MaxDelay \in Nat
      /\ built[r] \in Nat
  BY Constants DEF IInv, TypeOK, Buckets
<1>1. /\ life[k][b] <= 2
      /\ expires[k][b] = Missing => life[k][b] = 0 \/ Start(b + life[k][b]) <= now
      /\ expires[k][b] # Missing => Start(b + life[k][b] - 1) <= now
      /\ expires[k][b] \notin {Missing, Never} => Start(b + life[k][b]) <= expires[k][b]
  BY DEF Lives
<1>2. CASE expires'[k][b] = expires[k][b] /\ life'[k][b] = life[k][b]
  BY <1>1, <1>2
<1>3. CASE /\ expires[k][b] = Missing /\ expires'[k][b] = Never /\ life'[k][b] = life[k][b] + 1
           /\ pc[r] = IncrAt(k) /\ b = bucket[r]
  <2>1. /\ Start(b) <= built[r] /\ built[r] < Start(b + 1)
        /\ built[r] <= now /\ now <= built[r] + MaxDelay
    BY <1>3 DEF Sent, IncrAt, Sending
  <2>2. /\ Start(b) \in Int /\ Start(b + 1) = Start(b) + Window
        /\ Start(b + 2) = Start(b) + Window + Window
    BY <1>0, StartNext
  <2>3. now < Start(b + 2) - 1
    BY <1>0, <2>1, <2>2
  <2>4. life[k][b] # 2
    BY <1>1, <1>3, <2>2, <2>3, <1>0
  <2>5. Start(b + life'[k][b] - 1) <= now
    <3>1. CASE life[k][b] = 0
      <4>1. b + life'[k][b] - 1 = b
        BY <1>0, <1>3, <3>1
      <4> QED
        BY <1>0, <2>1, <2>2, <4>1
    <3>2. CASE life[k][b] # 0
      <4>1. b + life'[k][b] - 1 = b + life[k][b]
        BY <1>0, <1>3
      <4> QED
        BY <1>1, <1>3, <3>2, <4>1
    <3> QED
      BY <3>1, <3>2
  <2> QED
    BY <1>0, <1>1, <1>3, <2>4, <2>5 DEF Missing, Never
<1>4. CASE /\ expires[k][b] # Missing /\ expires'[k][b] = now + Window
           /\ life'[k][b] = life[k][b]
  <2>1. b + life[k][b] \in Int
    BY <1>0
  <2>2. Start(b + life[k][b] - 1) = Start(b + life[k][b]) - Window /\ Start(b + life[k][b]) \in Int
    <3>1. PICK n \in Int : n = b + life[k][b]
      BY <2>1
    <3>2. Start(n - 1) = Start(n) - Window /\ Start(n) \in Int
      BY StartNext
    <3> QED
      BY <1>0, <3>1, <3>2
  <2> QED
    BY <1>0, <1>1, <1>4, <2>2 DEF Missing, Never
<1> QED
  BY <1>2, <1>3, <1>4, KeyEffect

-----------------------------------------------------------------------------
(* When requests are counted                                               *)

\* What only a charge by the request counter changes.
LEMMA NotCounted ==
  ASSUME IInv, NEW r \in Requests, Shape(r), ~CountStep("rpm", r)
  PROVE  /\ Cleared' = Cleared
         /\ \A q \in Requests : charged'["rpm"][q] = charged["rpm"][q]
<1>1. "rpm" \in Kinds /\ Passed("rpm") = Cleared /\ Passed("rpm")' = Cleared'
  BY DEF Kinds, Passed, Cleared, Rejected
<1>2. Cleared' = Cleared
  BY <1>1, PassedEffect DEF IInv
<1>3. ASSUME NEW k \in Kinds, CountStep(k, r)
      PROVE  \A q \in Requests : charged'["rpm"][q] = charged["rpm"][q]
  <2>1. k # "rpm" /\ TypeOK /\ bucket[r] \in Buckets
    BY <1>3 DEF IInv, TypeOK
  <2>2. life'[k][bucket[r]] \in Nat
    BY <1>3, <2>1, AddEffect, Prices DEF CountStep
  <2> QED
    BY <1>1, <1>3, <2>1, <2>2, ChargeEffect DEF CountStep
<1>4. \A q \in Requests : charged'["rpm"][q] = charged["rpm"][q]
  BY <1>3 DEF Shape, QuietStep, LoseStep, RenewStep
<1> QED
  BY <1>2, <1>4

\* What a charge by the request counter changes.
LEMMA Counted ==
  ASSUME IInv, NEW r \in Requests, Shape(r), CountStep("rpm", r),
         NEW b, b = bucket[r], NEW L, L = life'["rpm"][b]
  PROVE  /\ b \in Buckets /\ L \in Nat /\ L > 0 /\ RequestLimit \in Nat \ {0}
         /\ charged["rpm"][r] = NoCharge /\ charged'["rpm"][r] = <<b, L, now>>
         /\ \A q \in Requests : q # r => charged'["rpm"][q] = charged["rpm"][q]
         /\ count["rpm"][b] \in Nat /\ count'["rpm"][b] = count["rpm"][b] + 1
         /\ expires["rpm"][b] # Missing =>
              expires'["rpm"][b] = expires["rpm"][b] /\ L = life["rpm"][b]
         /\ \/ Cleared' = Cleared
            \/ Cleared' = Cleared \cup {r} /\ count'["rpm"][b] <= RequestLimit
<1>0. /\ TypeOK /\ "rpm" \in Kinds /\ b \in Buckets /\ Price("rpm")[r] = 1
      /\ RequestLimit \in Nat \ {0} /\ count["rpm"][b] \in Nat /\ life["rpm"][b] \in Nat
      /\ LimitOf("rpm") = RequestLimit
  BY Constants DEF IInv, TypeOK, Kinds, Price, LimitOf
<1>1. /\ count'["rpm"][b] = count["rpm"][b] + 1
      /\ expires'["rpm"][b] = IF expires["rpm"][b] = Missing THEN Never ELSE expires["rpm"][b]
      /\ L = IF expires["rpm"][b] = Missing THEN life["rpm"][b] + 1 ELSE life["rpm"][b]
  <2>1. AddToKey("rpm", b, 1)
    BY <1>0 DEF CountStep
  <2> QED
    BY <1>0, <2>1, AddEffect
<1>2. L \in Nat /\ L > 0
  BY <1>0, <1>1 DEF IInv, Keys
<1>3. /\ charged'["rpm"][r] = <<b, L, now>>
      /\ \A q \in Requests : q # r => charged'["rpm"][q] = charged["rpm"][q]
  <2>1. Charge("rpm", r, b)
    BY DEF CountStep
  <2> QED
    BY <1>0, <1>2, <2>1, ChargeEffect
<1>4. charged["rpm"][r] = NoCharge
  BY <1>0 DEF CountStep, IInv, Charges, IncrAt, Before
<1>5. Cleared' = IF pc'[r] = "no_requests" THEN Cleared ELSE Cleared \cup {r}
  <2>1. /\ Passed("rpm") = Cleared /\ Passed("rpm")' = Cleared' /\ Rejected("rpm") = "no_requests"
    BY DEF Passed, Cleared, Rejected
  <2> QED
    BY <1>0, <2>1, PassedEffect DEF IInv
<1>6. pc'[r] # "no_requests" => count'["rpm"][b] <= RequestLimit
  BY <1>0, <1>1 DEF CountStep, Rejected
<1> QED
  BY <1>0, <1>1, <1>2, <1>3, <1>4, <1>5, <1>6

\* A request is counted while its counter may live.
LEMMA ChargeTimesKept ==
  ASSUME IInv, Sent, Lives, ChargeTimes, MaxDelay < Window, NEW r \in Requests, Shape(r)
  PROVE  ChargeTimes'
<1>0. now' = now
  BY DEF Shape, QuietStep, CountStep, LoseStep, RenewStep
<1>1. CASE ~CountStep("rpm", r)
  BY <1>0, <1>1, NotCounted DEF ChargeTimes, Start
<1>2. CASE CountStep("rpm", r)
  <2>a. PICK b, L : b = bucket[r] /\ L = life'["rpm"][b]
    OBVIOUS
  <2>1. /\ b \in Buckets /\ L \in Nat /\ L > 0
        /\ charged["rpm"][r] = NoCharge /\ charged'["rpm"][r] = <<b, L, now>>
        /\ \A q \in Requests : q # r => charged'["rpm"][q] = charged["rpm"][q]
    BY <1>2, <2>a, Counted
  <2>2. /\ Start(b) <= built[r] /\ built[r] < Start(b + 1)
        /\ now <= built[r] + MaxDelay
    BY <1>2, <2>a DEF CountStep, IncrAt, Sent, Sending
  <2>3. now < Start(b + 2) - 1
    <3>1. now \in Nat /\ built[r] \in Nat /\ MaxDelay \in Nat /\ Window \in Nat /\ b \in Int
      BY <2>1, Constants DEF IInv, TypeOK, Buckets
    <3>2. Start(b) \in Int /\ Start(b + 1) = Start(b) + Window /\ Start(b + 2) = Start(b) + Window + Window
      BY <3>1, StartNext
    <3> QED
      BY <2>2, <3>1, <3>2
  <2>4. Start(b + L - 1) <= now
    <3>1. Lives' /\ "rpm" \in Kinds
      BY LivesKept DEF Kinds
    <3>2. expires'["rpm"][b] # Missing
      <4>1. AddToKey("rpm", b, Price("rpm")[r]) /\ Price("rpm")[r] \in Nat \ {0} /\ TypeOK
        BY <1>2, <2>a, <3>1, Prices DEF CountStep, IInv
      <4> QED
        BY <2>1, <3>1, <4>1, AddEffect DEF Missing, Never
    <3> QED
      BY <1>0, <2>a, <2>1, <3>1, <3>2 DEF Lives, Start
  <2>5. ASSUME NEW q \in Requests, charged'["rpm"][q] # NoCharge
        PROVE  LET c == charged'["rpm"][q]
               IN /\ Start(c[1] + c[2] - 1) <= c[3] /\ c[3] < Start(c[1] + 2) - 1
                  /\ c[3] <= now
    <3>1. CASE q = r
      <4>1. now <= now
        BY DEF IInv, TypeOK
      <4> QED
        BY <2>1, <2>3, <2>4, <3>1, <4>1
    <3>2. CASE q # r
      BY <2>1, <2>5, <3>2 DEF ChargeTimes
    <3> QED
      BY <3>1, <3>2
  <2> QED
    BY <1>0, <2>5 DEF ChargeTimes, Start
<1> QED
  BY <1>1, <1>2

-----------------------------------------------------------------------------
(* What a life counted last                                                *)

\* There are finitely many requests that a life counted from some time on.
LEMMA RecentFinite ==
  ASSUME NEW S \in SUBSET Requests, NEW b, NEW l, NEW u
  PROVE  /\ Recent(S, b, l, u) \in SUBSET Requests /\ IsFiniteSet(Recent(S, b, l, u))
         /\ Cardinality(Recent(S, b, l, u)) \in Nat
<1>1. Recent(S, b, l, u) \in SUBSET Requests
  BY DEF Recent, CountedBy
<1> QED
  BY <1>1, Constants, FS_Subset, FS_CardinalityType

\* What a life counted in its last window stays less than all it counted.
LEMMA LateStartKept ==
  ASSUME IInv, ChargeTimes, LateStart, NEW r \in Requests, Shape(r)
  PROVE  LateStart'
<1>0. /\ now' = now /\ now \in Nat /\ Window \in Nat \ {0} /\ RequestLimit \in Nat \ {0} /\ "rpm" \in Kinds
  BY Constants DEF Shape, QuietStep, CountStep, LoseStep, RenewStep, IInv, TypeOK, Kinds
<1> SUFFICES ASSUME NEW b \in Buckets, NEW u \in Int
             PROVE
    /\ \A l \in 1 .. life'["rpm"][b] :
         /\ l < life'["rpm"][b] \/ expires'["rpm"][b] = Missing
         /\ u > now - Window
         => Cardinality(Recent(Cleared, b, l, u)') <= RequestLimit - 1
    /\ expires'["rpm"][b] \notin {Missing, Never} /\ u > expires'["rpm"][b] - Window =>
         /\ Cardinality(Recent(Requests, b, life["rpm"][b], u)') <= count'["rpm"][b] - 1
         /\ Cardinality(Recent(Cleared, b, life["rpm"][b], u)') <= RequestLimit - 1
  BY <1>0 DEF LateStart, Missing, Never
<1>1. /\ \A l \in 1 .. life["rpm"][b] :
         /\ l < life["rpm"][b] \/ expires["rpm"][b] = Missing
         /\ u > now - Window
         => Cardinality(Recent(Cleared, b, l, u)) <= RequestLimit - 1
      /\ expires["rpm"][b] \notin {Missing, Never} /\ u > expires["rpm"][b] - Window =>
         /\ Cardinality(Recent(Requests, b, life["rpm"][b], u)) <= count["rpm"][b] - 1
         /\ Cardinality(Recent(Cleared, b, life["rpm"][b], u)) <= RequestLimit - 1
  BY DEF LateStart
<1>2. /\ life["rpm"][b] \in Nat /\ count["rpm"][b] \in Nat
      /\ expires["rpm"][b] \in {Missing, Never} \cup 1 .. MaxTime + Window
      /\ Cleared \subseteq Requests
  BY <1>0 DEF IInv, TypeOK, Cleared
<1>3. PICK K : K = life'["rpm"][b]
  OBVIOUS
<1>4. \A S : Recent(S, b, life["rpm"][b], u)' = Recent(S, b, K, u)'
  BY <1>3 DEF Recent, CountedBy
<1>5. ASSUME ~CountStep("rpm", r)
      PROVE  \A l : /\ Recent(Requests, b, l, u)' = Recent(Requests, b, l, u)
                    /\ Recent(Cleared, b, l, u)' = Recent(Cleared, b, l, u)
  BY <1>2, <1>5, NotCounted DEF Recent, CountedBy
<1>6. ASSUME CountStep("rpm", r)
      PROVE  \A l : b # bucket[r] \/ l # K =>
               /\ Recent(Requests, b, l, u)' = Recent(Requests, b, l, u)
               /\ Recent(Cleared, b, l, u)' = Recent(Cleared, b, l, u)
  <2>1. PICK c, L : c = bucket[r] /\ L = life'["rpm"][c]
    OBVIOUS
  <2>2. /\ charged["rpm"][r] = NoCharge /\ charged'["rpm"][r] = <<c, L, now>>
        /\ \A q \in Requests : q # r => charged'["rpm"][q] = charged["rpm"][q]
        /\ Cleared' = Cleared \/ Cleared' = Cleared \cup {r}
    BY <1>6, <2>1, Counted
  <2>3. charged["rpm"][r][1] # b
    BY <2>2 DEF NoCharge, Buckets
  <2>4. SUFFICES ASSUME NEW l, b # bucket[r] \/ l # K
                 PROVE  /\ Recent(Requests, b, l, u)' = Recent(Requests, b, l, u)
                        /\ Recent(Cleared, b, l, u)' = Recent(Cleared, b, l, u)
    OBVIOUS
  <2>5. ~(charged'["rpm"][r][1] = b /\ charged'["rpm"][r][2] = l)
    BY <1>3, <2>1, <2>2, <2>4
  <2> QED
    BY <1>2, <2>2, <2>3, <2>5 DEF Recent, CountedBy
<1>7. CASE /\ expires'["rpm"][b] = expires["rpm"][b] /\ life'["rpm"][b] = life["rpm"][b]
           /\ count'["rpm"][b] \in Nat /\ count'["rpm"][b] >= count["rpm"][b]
  <2>1. CASE ~CountStep("rpm", r) \/ b # bucket[r]
    <3>1. \A l : /\ Recent(Requests, b, l, u)' = Recent(Requests, b, l, u)
                 /\ Recent(Cleared, b, l, u)' = Recent(Cleared, b, l, u)
      BY <1>5, <1>6, <2>1
    <3>2. Recent(Requests, b, life["rpm"][b], u) \in SUBSET Requests
          /\ Cardinality(Recent(Requests, b, life["rpm"][b], u)) \in Nat
      BY RecentFinite
    <3> QED
      BY <1>1, <1>2, <1>3, <1>4, <1>7, <3>1, <3>2
  <2>2. CASE CountStep("rpm", r) /\ b = bucket[r]
    <3>1. /\ charged["rpm"][r] = NoCharge /\ charged'["rpm"][r] = <<b, K, now>>
          /\ \A q \in Requests : q # r => charged'["rpm"][q] = charged["rpm"][q]
          /\ count'["rpm"][b] = count["rpm"][b] + 1
          /\ expires["rpm"][b] # Missing => K = life["rpm"][b]
          /\ \/ Cleared' = Cleared
             \/ Cleared' = Cleared \cup {r} /\ count'["rpm"][b] <= RequestLimit
      BY <1>3, <2>2, Counted
    <3>2. expires'["rpm"][b] # Missing
      <4>1. AddToKey("rpm", b, Price("rpm")[r]) /\ Price("rpm")[r] \in Nat \ {0} /\ TypeOK
        BY <1>0, <2>2, Prices DEF CountStep, IInv
      <4>2. expires'["rpm"][b] = IF expires["rpm"][b] = Missing THEN Never ELSE expires["rpm"][b]
        BY <1>0, <4>1, AddEffect
      <4> QED
        BY <4>2 DEF Missing, Never
    <3>3. ASSUME NEW l \in 1 .. K, l < K, u > now - Window
          PROVE  Cardinality(Recent(Cleared, b, l, u)') <= RequestLimit - 1
      BY <1>1, <1>2, <1>3, <1>6, <1>7, <2>2, <3>3
    <3>4. ASSUME expires'["rpm"][b] \notin {Missing, Never}, u > expires'["rpm"][b] - Window
          PROVE  /\ Cardinality(Recent(Requests, b, K, u)') <= count'["rpm"][b] - 1
                 /\ Cardinality(Recent(Cleared, b, K, u)') <= RequestLimit - 1
      <4>1. /\ Cardinality(Recent(Requests, b, K, u)) <= count["rpm"][b] - 1
            /\ Cardinality(Recent(Cleared, b, K, u)) <= RequestLimit - 1
        BY <1>1, <1>3, <1>7, <3>4
      <4>2. /\ IsFiniteSet(Recent(Requests, b, K, u)) /\ Cardinality(Recent(Requests, b, K, u)) \in Nat
            /\ Cardinality(Recent(Requests, b, K, u) \cup {r}) <= Cardinality(Recent(Requests, b, K, u)) + 1
        <5> DEFINE S == Recent(Requests, b, K, u)
        <5>1. IsFiniteSet(S) /\ Cardinality(S) \in Nat
          BY RecentFinite
        <5> HIDE DEF S
        <5>2. Cardinality(S \cup {r}) <= Cardinality(S) + 1
          BY <5>1, FS_AddElement
        <5> QED
          BY <5>1, <5>2 DEF S
      <4>3. Recent(Requests, b, K, u)' \subseteq Recent(Requests, b, K, u) \cup {r}
        BY <3>1 DEF Recent, CountedBy
      <4>4. /\ IsFiniteSet(Recent(Requests, b, K, u)')
            /\ Cardinality(Recent(Requests, b, K, u)') \in Nat
            /\ Cardinality(Recent(Requests, b, K, u)') <= Cardinality(Recent(Requests, b, K, u)) + 1
        <5>1. IsFiniteSet(Recent(Requests, b, K, u) \cup {r})
          BY <4>2, FS_AddElement
        <5>2. /\ IsFiniteSet(Recent(Requests, b, K, u)')
              /\ Cardinality(Recent(Requests, b, K, u)') <= Cardinality(Recent(Requests, b, K, u) \cup {r})
          BY <4>3, <5>1, FS_Subset
        <5>3. Cardinality(Recent(Requests, b, K, u)') \in Nat
              /\ Cardinality(Recent(Requests, b, K, u) \cup {r}) \in Nat
          BY <5>1, <5>2, FS_CardinalityType
        <5> QED
          BY <4>2, <5>2, <5>3
      <4>5. CASE Cleared' = Cleared
        <5>1. r \notin Cleared
          BY <3>1 DEF Cleared
        <5>2. Recent(Cleared, b, K, u)' = Recent(Cleared, b, K, u)
          BY <1>2, <3>1, <4>5, <5>1 DEF Recent, CountedBy
        <5> QED
          BY <1>2, <3>1, <4>1, <4>2, <4>4, <5>2
      <4>6. CASE Cleared' = Cleared \cup {r} /\ count'["rpm"][b] <= RequestLimit
        <5>1. Recent(Cleared, b, K, u)' \subseteq Recent(Requests, b, K, u)'
          BY <1>2, <4>6 DEF Recent, CountedBy
        <5>2. /\ Cardinality(Recent(Cleared, b, K, u)') <= Cardinality(Recent(Requests, b, K, u)')
              /\ Cardinality(Recent(Cleared, b, K, u)') \in Nat
          BY <4>4, <5>1, FS_Subset, FS_CardinalityType
        <5> QED
          BY <1>0, <1>2, <3>1, <4>1, <4>2, <4>4, <4>6, <5>2
      <4> QED
        BY <3>1, <4>5, <4>6
    <3> QED
      BY <1>3, <1>4, <3>2, <3>3, <3>4
  <2> QED
    BY <2>1, <2>2
<1>8. CASE /\ expires["rpm"][b] = Missing /\ expires'["rpm"][b] = Never
           /\ life'["rpm"][b] = life["rpm"][b] + 1
  <2> SUFFICES ASSUME NEW l \in 1 .. K, l < K, u > now - Window
               PROVE  Cardinality(Recent(Cleared, b, l, u)') <= RequestLimit - 1
    BY <1>3, <1>8 DEF Missing, Never
  <2>1. l \in 1 .. life["rpm"][b] /\ l # K
    BY <1>2, <1>3, <1>8
  <2>2. Recent(Cleared, b, l, u)' = Recent(Cleared, b, l, u)
    BY <1>5, <1>6, <2>1
  <2> QED
    BY <1>1, <1>8, <2>1, <2>2
<1>9. CASE /\ expires["rpm"][b] # Missing /\ expires'["rpm"][b] = now + Window
           /\ life'["rpm"][b] = life["rpm"][b] /\ count'["rpm"][b] = count["rpm"][b]
           /\ pc[r] = ExpireAt("rpm")
  <2>1. \A l : /\ Recent(Requests, b, l, u)' = Recent(Requests, b, l, u)
               /\ Recent(Cleared, b, l, u)' = Recent(Cleared, b, l, u)
    BY <1>5, <1>9 DEF CountStep, IncrAt, ExpireAt
  <2>2. ASSUME NEW l \in 1 .. K, l < K, u > now - Window
        PROVE  Cardinality(Recent(Cleared, b, l, u)') <= RequestLimit - 1
    BY <1>1, <1>3, <1>9, <2>1, <2>2
  <2>3. ASSUME u > now
        PROVE  Recent(Requests, b, K, u) = {} /\ Recent(Cleared, b, K, u) = {}
    <3> SUFFICES ASSUME NEW q \in Requests, charged["rpm"][q][1] = b, charged["rpm"][q][3] >= u
                 PROVE  FALSE
      BY <1>2 DEF Recent, CountedBy
    <3>1. charged["rpm"][q] # NoCharge
      BY DEF NoCharge, Buckets
    <3>2. charged["rpm"][q][3] <= now /\ charged["rpm"][q][3] \in Nat
      BY <1>0, <3>1 DEF ChargeTimes, IInv, TypeOK
    <3> QED
      BY <1>0, <2>3, <3>2
  <2>4. count["rpm"][b] > 0
    BY <1>0, <1>9 DEF IInv, Keys
  <2>5. ASSUME u > now
        PROVE  /\ Cardinality(Recent(Requests, b, K, u)') <= count'["rpm"][b] - 1
               /\ Cardinality(Recent(Cleared, b, K, u)') <= RequestLimit - 1
    <3>1. Recent(Requests, b, K, u)' = {} /\ Recent(Cleared, b, K, u)' = {}
      BY <2>1, <2>3, <2>5
    <3> QED
      BY <1>0, <1>2, <1>9, <2>4, <3>1, FS_EmptySet
  <2> QED
    BY <1>0, <1>3, <1>4, <1>9, <2>2, <2>5 DEF Missing
<1> QED
  BY <1>0, <1>7, <1>8, <1>9, KeyEffect

-----------------------------------------------------------------------------
(* Spans                                                                   *)

\* A counter lets at most twice the limit less one pass in a span that is not
\* over, in its two lives together: the second begins a window after the
\* request that created the first one.
LEMMA TwoLivesInASpan ==
  ASSUME IInv, Lives, ChargeTimes, LateStart, NEW t \in 0 .. MaxTime, now <= t + Window - 1,
         NEW b \in Int
  PROVE  /\ Cardinality(Recent(Cleared, b, 1, t)) <= RequestLimit
         /\ Cardinality(Recent(Cleared, b, 1, t) \cup Recent(Cleared, b, 2, t)) <= 2 * RequestLimit - 1
<1> DEFINE A == Recent(Cleared, b, 1, t)
           B == Recent(Cleared, b, 2, t)
<1>0. /\ now \in Nat /\ Window \in Nat \ {0} /\ RequestLimit \in Nat \ {0} /\ "rpm" \in Kinds
      /\ Cleared \in SUBSET Requests
  BY Constants DEF IInv, TypeOK, Kinds, Cleared
<1>1. ASSUME NEW l \in {1, 2}
      PROVE  /\ IsFiniteSet(Recent(Cleared, b, l, t)) /\ Cardinality(Recent(Cleared, b, l, t)) \in Nat
             /\ Cardinality(Recent(Cleared, b, l, t)) <= RequestLimit
             /\ Recent(Cleared, b, l, t) # {} => b \in Buckets /\ l \in 1 .. life["rpm"][b]
  <2>1. IsFiniteSet(Recent(Cleared, b, l, t)) /\ Cardinality(Recent(Cleared, b, l, t)) \in Nat
    BY <1>0, RecentFinite
  <2>2. Recent(Cleared, b, l, t) # {} => b \in Buckets /\ l \in 1 .. life["rpm"][b]
    <3> SUFFICES ASSUME NEW q \in Requests, charged["rpm"][q] # NoCharge,
                        charged["rpm"][q][1] = b, charged["rpm"][q][2] = l
                 PROVE  b \in Buckets /\ l \in 1 .. life["rpm"][b]
      BY DEF Recent, CountedBy, Cleared
    <3> QED
      BY <1>0 DEF IInv, TypeOK, Charges
  <2>3. CASE Recent(Cleared, b, l, t) = {}
    BY <1>0, <2>1, <2>3, FS_EmptySet
  <2>4. CASE Recent(Cleared, b, l, t) # {}
    <3>1. RequestsPerLife
      BY IInvRequests
    <3>2. Cardinality(CountedBy(Cleared, "rpm", b, l)) <= RequestLimit
      BY <2>2, <2>4, <3>1 DEF RequestsPerLife
    <3>3. /\ Recent(Cleared, b, l, t) \subseteq CountedBy(Cleared, "rpm", b, l)
          /\ CountedBy(Cleared, "rpm", b, l) \in SUBSET Requests
      BY <1>0 DEF Recent, CountedBy
    <3>4. IsFiniteSet(CountedBy(Cleared, "rpm", b, l))
          /\ Cardinality(CountedBy(Cleared, "rpm", b, l)) \in Nat
          /\ Cardinality(Recent(Cleared, b, l, t)) <= Cardinality(CountedBy(Cleared, "rpm", b, l))
      BY <3>3, Constants, FS_Subset, FS_CardinalityType
    <3> QED
      BY <1>0, <2>1, <2>2, <3>2, <3>4
  <2> QED
    BY <2>1, <2>2, <2>3, <2>4
<1>2. /\ IsFiniteSet(A) /\ Cardinality(A) \in Nat /\ Cardinality(A) <= RequestLimit
      /\ IsFiniteSet(B) /\ Cardinality(B) \in Nat /\ Cardinality(B) <= RequestLimit
  BY <1>1
<1>3. B # {} => Cardinality(A) <= RequestLimit - 1
  <2> SUFFICES ASSUME B # {} PROVE Cardinality(A) <= RequestLimit - 1
    OBVIOUS
  <2>1. b \in Buckets /\ 1 \in 1 .. life["rpm"][b] /\ 1 < life["rpm"][b]
    <3>1. b \in Buckets /\ 2 \in 1 .. life["rpm"][b]
      BY <1>1
    <3>2. life["rpm"][b] \in Nat
      BY <1>0, <3>1 DEF IInv, TypeOK
    <3> QED
      BY <3>1, <3>2
  <2>2. t \in Int /\ t > now - Window
    BY <1>0
  <2> QED
    BY <2>1, <2>2 DEF LateStart
<1> HIDE DEF A, B
<1>4. Cardinality(A \cup B) <= 2 * RequestLimit - 1
  <2>1. CASE B = {}
    <3>1. Cardinality(A \cup B) = Cardinality(A)
      <4>1. A \cup B = A
        BY <2>1
      <4> QED
        BY <4>1
    <3> QED
      BY <1>0, <1>2, <3>1
  <2>2. CASE B # {}
    <3>1. /\ Cardinality(A \cup B) = Cardinality(A) + Cardinality(B) - Cardinality(A \cap B)
          /\ Cardinality(A \cap B) \in Nat
      BY <1>2, FS_Union, FS_Intersection, FS_CardinalityType
    <3> QED
      BY <1>0, <1>2, <1>3, <2>2, <3>1
  <2> QED
    BY <2>1, <2>2
<1> QED
  BY <1>2, <1>4 DEF A, B

\* Three minutes' counters can let requests pass in a span, and the third one
\* has one life in it.
LEMMA SpanNow ==
  ASSUME IInv, Lives, ChargeTimes, LateStart, NEW t \in 0 .. MaxTime, now <= t + Window - 1,
         MaxDelay < Window
  PROVE  Cardinality(Span(t)) <= 5 * RequestLimit - 2
<1>0. /\ now \in Nat /\ Window \in Nat \ {0} /\ RequestLimit \in Nat \ {0} /\ "rpm" \in Kinds
      /\ Cleared \in SUBSET Requests /\ t \in Nat
  BY Constants DEF IInv, TypeOK, Kinds, Cleared
<1>1. PICK q \in Int : Start(q) <= t /\ t < Start(q + 1)
  <2>1. t \div Window \in Int
    BY Constants
  <2> QED
    BY <2>1, BuiltInMinute
<1>2. /\ Start(q) \in Int /\ Start(q + 1) = Start(q) + Window
      /\ Start(q + 2) = Start(q) + Window + Window
  BY StartNext
<1> DEFINE P(b) == Recent(Cleared, b, 1, t) \cup Recent(Cleared, b, 2, t)
           C == Recent(Cleared, q + 1, 1, t)
<1>3. Span(t) \subseteq (P(q - 1) \cup P(q)) \cup C
  <2> SUFFICES ASSUME NEW r \in Span(t)
               PROVE  r \in P(q - 1) \/ r \in P(q) \/ r \in C
    OBVIOUS
  <2>1. PICK b, l, u : charged["rpm"][r] = <<b, l, u>> /\ b \in Buckets /\ l \in Nat /\ u \in Nat
    BY <1>0 DEF Span, Cleared, IInv, TypeOK
  <2>2. r \in Requests /\ charged["rpm"][r] # NoCharge /\ t <= u /\ u <= t + Window - 1
        /\ r \in Cleared
    BY <1>0, <2>1 DEF Span, Cleared
  <2>3. b \in Int /\ l \in {1, 2}
    <3>1. l \in 1 .. life["rpm"][b] /\ life["rpm"][b] <= 2 /\ life["rpm"][b] \in Nat
      <4>1. life["rpm"][b] \in Nat /\ life["rpm"][b] <= 2
        BY <1>0, <2>1 DEF IInv, TypeOK, Lives
      <4>2. charged["rpm"][r][2] \in 1 .. life["rpm"][charged["rpm"][r][1]]
        BY <1>0, <2>2 DEF IInv, Charges
      <4> QED
        BY <2>1, <4>1, <4>2
    <3> QED
      BY <2>1, <3>1 DEF Buckets
  <2>4. /\ Start(b + l - 1) <= u /\ u < Start(b + 2) - 1
    <3>1. /\ charged["rpm"][r][1] = b /\ charged["rpm"][r][2] = l /\ charged["rpm"][r][3] = u
      BY <2>1
    <3>2. LET c == charged["rpm"][r]
          IN Start(c[1] + c[2] - 1) <= c[3] /\ c[3] < Start(c[1] + 2) - 1
      BY <2>2 DEF ChargeTimes
    <3> QED
      BY <3>1, <3>2
  <2>5. b >= q - 1
    <3> SUFFICES ASSUME b <= q - 2 PROVE FALSE
      BY <2>3
    <3>1. b + 2 \in Int /\ b + 2 <= q
      BY <2>3
    <3>2. Start(b + 2) <= Start(q) /\ Start(b + 2) \in Int
      BY <3>1, StartMonotone, StartNext
    <3> QED
      BY <1>0, <1>1, <1>2, <2>1, <2>2, <2>4, <3>2
  <2>6. b + l - 1 <= q + 1
    <3> SUFFICES ASSUME b + l - 1 >= q + 2 PROVE FALSE
      BY <2>3
    <3>1. PICK n \in Int : n = b + l - 1
      BY <2>3
    <3>2. Start(q + 2) <= Start(n) /\ Start(n) \in Int
      BY <3>1, StartMonotone, StartNext
    <3>3. Start(n) <= u
      BY <2>4, <3>1
    <3> QED
      BY <1>0, <1>1, <1>2, <2>1, <2>2, <3>2, <3>3
  <2>7. \/ b = q - 1
        \/ b = q
        \/ b = q + 1 /\ l = 1
    <3>1. CASE l = 1
      BY <1>1, <2>3, <2>5, <2>6, <3>1
    <3>2. CASE l = 2
      <4>1. b <= q
        BY <1>1, <2>3, <2>6, <3>2
      <4> QED
        BY <1>1, <2>3, <2>5, <4>1
    <3> QED
      BY <2>3, <3>1, <3>2
  <2>8. r \in Recent(Cleared, b, l, t)
    BY <2>1, <2>2 DEF Recent, CountedBy
  <2> QED
    BY <2>3, <2>7, <2>8
<1>4. /\ Cardinality(P(q - 1)) <= 2 * RequestLimit - 1
      /\ Cardinality(P(q)) <= 2 * RequestLimit - 1
      /\ Cardinality(C) <= RequestLimit
  <2>1. q - 1 \in Int /\ q + 1 \in Int
    OBVIOUS
  <2> QED
    BY <2>1, TwoLivesInASpan
<1>5. /\ IsFiniteSet(P(q - 1)) /\ IsFiniteSet(P(q)) /\ IsFiniteSet(C)
  <2>1. \A b, l : IsFiniteSet(Recent(Cleared, b, l, t))
    BY <1>0, RecentFinite
  <2> QED
    BY <2>1, FS_Union
<1> HIDE DEF P, C
<1>6. /\ Cardinality(P(q - 1)) \in Nat /\ Cardinality(P(q)) \in Nat /\ Cardinality(C) \in Nat
  BY <1>5, FS_CardinalityType
<1> DEFINE D == P(q - 1) \cup P(q)
<1>7. /\ IsFiniteSet(D) /\ Cardinality(D) \in Nat
      /\ Cardinality(D) <= Cardinality(P(q - 1)) + Cardinality(P(q))
  <2>1. /\ IsFiniteSet(D)
        /\ Cardinality(D) = Cardinality(P(q - 1)) + Cardinality(P(q)) - Cardinality(P(q - 1) \cap P(q))
    BY <1>5, FS_Union
  <2>2. Cardinality(P(q - 1) \cap P(q)) \in Nat
    BY <1>5, FS_Intersection, FS_CardinalityType
  <2>3. Cardinality(D) \in Nat
    BY <2>1, FS_CardinalityType
  <2> HIDE DEF D
  <2> QED
    BY <1>6, <2>1, <2>2, <2>3
<1> HIDE DEF D
<1>8. /\ IsFiniteSet(D \cup C) /\ Cardinality(D \cup C) \in Nat
      /\ Cardinality(D \cup C) <= Cardinality(D) + Cardinality(C)
  <2>1. /\ IsFiniteSet(D \cup C)
        /\ Cardinality(D \cup C) = Cardinality(D) + Cardinality(C) - Cardinality(D \cap C)
    BY <1>5, <1>7, FS_Union
  <2>2. Cardinality(D \cap C) \in Nat /\ Cardinality(D \cup C) \in Nat
    BY <1>5, <1>7, <2>1, FS_Intersection, FS_CardinalityType
  <2> QED
    BY <1>6, <1>7, <2>1, <2>2
<1>9. Cardinality(Span(t)) <= Cardinality(D \cup C) /\ Cardinality(Span(t)) \in Nat
  BY <1>3, <1>8, FS_Subset, FS_CardinalityType DEF D
<1> QED
  BY <1>0, <1>4, <1>6, <1>7, <1>8, <1>9

\* A request is not counted in a span that is over.
LEMMA PastBurstsKept ==
  ASSUME IInv, PastBursts, NEW r \in Requests, Shape(r)
  PROVE  PastBursts'
<1>0. /\ now' = now /\ now \in Nat /\ Window \in Nat
  BY Constants DEF Shape, QuietStep, CountStep, LoseStep, RenewStep, IInv, TypeOK
<1> SUFFICES ASSUME NEW t \in 0 .. MaxTime, t + Window - 1 < now
             PROVE  Cardinality(Span(t)') <= 5 * RequestLimit - 2
  BY <1>0 DEF PastBursts
<1>1. CASE ~CountStep("rpm", r)
  <2>1. Span(t)' = Span(t)
    BY <1>1, NotCounted DEF Span, Cleared
  <2> QED
    BY <2>1 DEF PastBursts
<1>2. CASE CountStep("rpm", r)
  <2>1. PICK b, L : b = bucket[r] /\ L = life'["rpm"][b]
    OBVIOUS
  <2>2. /\ charged["rpm"][r] = NoCharge /\ charged'["rpm"][r] = <<b, L, now>>
        /\ \A q \in Requests : q # r => charged'["rpm"][q] = charged["rpm"][q]
        /\ Cleared' = Cleared \/ Cleared' = Cleared \cup {r}
    BY <1>2, <2>1, Counted
  <2>3. charged'["rpm"][r][3] \notin t .. t + Window - 1
    BY <1>0, <2>2
  <2>4. r \notin Cleared /\ Cleared \subseteq Requests
    BY <2>2 DEF Cleared
  <2>5. Span(t)' = {q \in Cleared' : charged'["rpm"][q][3] \in t .. t + Window - 1}
    BY DEF Span
  <2>6. Span(t)' = Span(t)
    BY <2>2, <2>3, <2>4, <2>5 DEF Span
  <2> QED
    BY <2>6 DEF PastBursts
<1> QED
  BY <1>1, <1>2

-----------------------------------------------------------------------------
(* The clock                                                               *)

\* The clock keeps what is said of times.
LEMMA TickKeepsTInv ==
  ASSUME IInv, TInv, Tick, MaxDelay < Window
  PROVE  Sent' /\ Lives' /\ ChargeTimes' /\ LateStart' /\ PastBursts'
<1>0. /\ Sent /\ Lives /\ ChargeTimes /\ LateStart /\ PastBursts
  BY DEF TInv
<1>1. /\ now \in Nat /\ now' = now + 1 /\ Window \in Nat \ {0} /\ RequestLimit \in Nat \ {0} /\ MaxDelay \in Nat
      /\ life' = life /\ pc' = pc /\ bucket' = bucket /\ built' = built /\ charged' = charged
      /\ "rpm" \in Kinds /\ Cleared \in SUBSET Requests
  BY Constants DEF Tick, IInv, TypeOK, Kinds, Cleared
<1>2. \A k \in Kinds, b \in Buckets :
        /\ life[k][b] \in Nat /\ expires[k][b] \in {Missing, Never} \cup 1 .. MaxTime + Window
        /\ \/ count'[k][b] = count[k][b] /\ expires'[k][b] = expires[k][b]
           \/ expires'[k][b] = Missing /\ expires[k][b] \notin {Missing, Never}
              /\ expires[k][b] <= now + 1
  BY TickEffect DEF IInv, TypeOK
<1>3. Sent'
  <2> SUFFICES ASSUME NEW r \in Requests, pc[r] \in Sending
               PROVE  /\ Start(bucket[r]) <= built[r] /\ built[r] < Start(bucket[r] + 1)
                      /\ built[r] <= now + 1 /\ now + 1 <= built[r] + MaxDelay
    BY <1>1 DEF Sent, Start, Sending
  <2>1. now < built[r] + MaxDelay /\ built[r] \in Nat
    BY DEF Tick, IInv, TypeOK
  <2> QED
    BY <1>0, <1>1, <2>1 DEF Sent
<1>4. Lives'
  <2> SUFFICES ASSUME NEW k \in Kinds, NEW b \in Buckets
      PROVE /\ life[k][b] <= 2
            /\ expires'[k][b] = Missing => life[k][b] = 0 \/ Start(b + life[k][b]) <= now + 1
            /\ expires'[k][b] # Missing => Start(b + life[k][b] - 1) <= now + 1
            /\ expires'[k][b] \notin {Missing, Never} => Start(b + life[k][b]) <= expires'[k][b]
    BY <1>1 DEF Lives, Start, Missing, Never
  <2>1. /\ life[k][b] <= 2
        /\ expires[k][b] = Missing => life[k][b] = 0 \/ Start(b + life[k][b]) <= now
        /\ expires[k][b] # Missing => Start(b + life[k][b] - 1) <= now
        /\ expires[k][b] \notin {Missing, Never} => Start(b + life[k][b]) <= expires[k][b]
    BY <1>0 DEF Lives
  <2>2. b + life[k][b] \in Int /\ b + life[k][b] - 1 \in Int
    BY <1>2 DEF Buckets
  <2>3. Start(b + life[k][b]) \in Int /\ Start(b + life[k][b] - 1) \in Int
    BY <2>2, StartNext
  <2> QED
    BY <1>1, <1>2, <2>1, <2>2, <2>3 DEF Missing, Never
<1>5. ChargeTimes'
  <2> SUFFICES ASSUME NEW r \in Requests, charged["rpm"][r] # NoCharge
               PROVE  LET c == charged["rpm"][r]
                      IN /\ Start(c[1] + c[2] - 1) <= c[3] /\ c[3] < Start(c[1] + 2) - 1
                         /\ c[3] <= now + 1
    BY <1>1 DEF ChargeTimes, Start
  <2>1. charged["rpm"][r][3] \in Nat
    BY <1>1 DEF IInv, TypeOK
  <2> QED
    BY <1>0, <1>1, <2>1 DEF ChargeTimes
<1>6. Cleared' = Cleared
  BY <1>1 DEF Cleared
<1>7. LateStart'
  <2> SUFFICES ASSUME NEW b \in Buckets, NEW u \in Int
               PROVE
      /\ \A l \in 1 .. life["rpm"][b] :
           /\ l < life["rpm"][b] \/ expires'["rpm"][b] = Missing
           /\ u > now + 1 - Window
           => Cardinality(Recent(Cleared, b, l, u)) <= RequestLimit - 1
      /\ expires'["rpm"][b] \notin {Missing, Never} /\ u > expires'["rpm"][b] - Window =>
           /\ Cardinality(Recent(Requests, b, life["rpm"][b], u)) <= count'["rpm"][b] - 1
           /\ Cardinality(Recent(Cleared, b, life["rpm"][b], u)) <= RequestLimit - 1
    <3>1. \A b, l, u : /\ Recent(Cleared, b, l, u)' = Recent(Cleared, b, l, u)
                       /\ Recent(Requests, b, l, u)' = Recent(Requests, b, l, u)
      BY <1>1, <1>6 DEF Recent, CountedBy
    <3>2. \A b, u : /\ Recent(Requests, b, life["rpm"][b], u)' = Recent(Requests, b, life["rpm"][b], u)
                    /\ Recent(Cleared, b, life["rpm"][b], u)' = Recent(Cleared, b, life["rpm"][b], u)
      BY <1>1, <1>6 DEF Recent, CountedBy
    <3> QED
      BY <1>1, <3>1, <3>2 DEF LateStart, Missing, Never
  <2>1. /\ \A l \in 1 .. life["rpm"][b] :
           /\ l < life["rpm"][b] \/ expires["rpm"][b] = Missing
           /\ u > now - Window
           => Cardinality(Recent(Cleared, b, l, u)) <= RequestLimit - 1
        /\ expires["rpm"][b] \notin {Missing, Never} /\ u > expires["rpm"][b] - Window =>
           /\ Cardinality(Recent(Requests, b, life["rpm"][b], u)) <= count["rpm"][b] - 1
           /\ Cardinality(Recent(Cleared, b, life["rpm"][b], u)) <= RequestLimit - 1
    BY <1>0 DEF LateStart
  <2>2. u > now + 1 - Window => u > now - Window
    BY <1>1
  <2>3. CASE count'["rpm"][b] = count["rpm"][b] /\ expires'["rpm"][b] = expires["rpm"][b]
    BY <2>1, <2>2, <2>3
  <2>4. CASE expires'["rpm"][b] = Missing /\ expires["rpm"][b] \notin {Missing, Never}
             /\ expires["rpm"][b] <= now + 1
    <3> SUFFICES ASSUME NEW l \in 1 .. life["rpm"][b], u > now + 1 - Window
                 PROVE  Cardinality(Recent(Cleared, b, l, u)) <= RequestLimit - 1
      BY <2>4
    <3>1. CASE l < life["rpm"][b]
      BY <2>1, <2>2, <3>1
    <3>2. CASE l = life["rpm"][b]
      <4>1. expires["rpm"][b] \in Nat
        BY <1>1, <1>2, <2>4
      <4>2. u > expires["rpm"][b] - Window
        BY <1>1, <2>4, <4>1
      <4> QED
        BY <2>1, <2>4, <3>2, <4>2
    <3> QED
      BY <1>1, <1>2, <3>1, <3>2
  <2> QED
    BY <1>1, <1>2, <2>3, <2>4
<1>8. PastBursts'
  <2> SUFFICES ASSUME NEW t \in 0 .. MaxTime, t + Window - 1 < now + 1
               PROVE  Cardinality(Span(t)') <= 5 * RequestLimit - 2
    BY <1>1 DEF PastBursts
  <2>1. Span(t)' = Span(t)
    BY <1>1, <1>6 DEF Span
  <2>2. CASE t + Window - 1 < now
    BY <1>0, <2>1, <2>2 DEF PastBursts
  <2>3. CASE now <= t + Window - 1
    BY <1>0, <2>1, <2>3, SpanNow
  <2> QED
    BY <1>1, <2>2, <2>3
<1> QED
  BY <1>3, <1>4, <1>5, <1>7, <1>8

-----------------------------------------------------------------------------
(* The theorems                                                            *)

\* What is said of times holds at first.
LEMMA InitTInv ==
  ASSUME Init
  PROVE  TInv
<1>0. now = 0 /\ Window \in Nat \ {0} /\ \A r \in Requests : charged["rpm"][r] = NoCharge
  BY Constants DEF Init, Kinds
<1>1. Sent /\ ChargeTimes
  BY <1>0 DEF Init, Sent, ChargeTimes, Sending
<1>2. Lives
  BY DEF Init, Lives, Missing, Never
<1>3. LateStart
  BY DEF Init, LateStart, Missing, Never, Kinds
<1>4. PastBursts
  BY <1>0 DEF PastBursts
<1> QED
  BY <1>1, <1>2, <1>3, <1>4 DEF TInv

\* Every step keeps what is said of times.
LEMMA NextKeepsTInv ==
  ASSUME IInv, TInv, [Next]_vars
  PROVE  TInv'
<1> SUFFICES ASSUME MaxDelay < Window
             PROVE  Sent' /\ Lives' /\ ChargeTimes' /\ LateStart' /\ PastBursts'
  BY DEF TInv
<1>0. Sent /\ Lives /\ ChargeTimes /\ LateStart /\ PastBursts
  BY DEF TInv
<1>1. CASE Tick
  BY <1>1, TickKeepsTInv
<1>2. ASSUME NEW r \in Requests, Step(r) \/ Fail(r)
      PROVE  Sent' /\ Lives' /\ ChargeTimes' /\ LateStart' /\ PastBursts'
  <2>1. Shape(r)
    BY <1>2, Shapes DEF IInv, Shape
  <2> QED
    BY <1>0, <2>1, SentKept, LivesKept, ChargeTimesKept, LateStartKept, PastBurstsKept
<1>3. CASE UNCHANGED vars
  <2>1. Sent' /\ Lives' /\ ChargeTimes'
    BY <1>0, <1>3 DEF vars, Sent, Lives, ChargeTimes, Start, Sending, Missing, Never
  <2>2. \A b, l, u : /\ Recent(Cleared, b, l, u)' = Recent(Cleared, b, l, u)
                     /\ Recent(Requests, b, l, u)' = Recent(Requests, b, l, u)
    BY <1>3 DEF vars, Recent, CountedBy, Cleared
  <2>3. \A b, u : /\ Recent(Cleared, b, life["rpm"][b], u)' = Recent(Cleared, b, life["rpm"][b], u)
                  /\ Recent(Requests, b, life["rpm"][b], u)' = Recent(Requests, b, life["rpm"][b], u)
    BY <1>3 DEF vars, Recent, CountedBy, Cleared
  <2>4. LateStart'
    BY <1>0, <1>3, <2>2, <2>3 DEF vars, LateStart, Missing, Never
  <2>5. \A t : Span(t)' = Span(t)
    BY <1>3 DEF vars, Span, Cleared
  <2>6. PastBursts'
    BY <1>0, <1>3, <2>5 DEF vars, PastBursts
  <2> QED
    BY <2>1, <2>4, <2>6
<1> QED
  BY <1>1, <1>2, <1>3 DEF Next

\* The two invariants together.
THEOREM TimedInvariant == Spec => [](IInv /\ TInv)
<1>1. Init => IInv /\ TInv
  BY InitIInv, InitTInv
<1>2. IInv /\ TInv /\ [Next]_vars => IInv' /\ TInv'
  BY NextKeepsIInv, NextKeepsTInv
<1> QED
  BY <1>1, <1>2, PTL DEF Spec

\* A counter is created again only by a command that was built in its minute
\* and applied after it expired; commands are applied within the next minute,
\* when a second life still lives: there is no third one.
THEOREM TwoLivesAtMost == Spec => []AtMostTwoLives
<1>1. TInv => AtMostTwoLives
  BY DEF TInv, Lives, AtMostTwoLives
<1> QED
  BY <1>1, TimedInvariant, PTL

\* What the per-minute counters leave of the limit: in no span of one window do
\* more than five times the limit less two requests pass check_requests.
THEOREM BurstsBounded == Spec => []BurstBound
<1>1. ASSUME IInv, TInv, MaxDelay < Window, NEW t \in 0 .. MaxTime
      PROVE  Cardinality(Span(t)) <= 5 * RequestLimit - 2
  <2>1. Lives /\ ChargeTimes /\ LateStart /\ PastBursts
    BY <1>1 DEF TInv
  <2>2. now \in Nat /\ Window \in Nat
    BY <1>1, Constants DEF IInv, TypeOK
  <2>3. CASE t + Window - 1 < now
    BY <2>1, <2>3 DEF PastBursts
  <2>4. CASE now <= t + Window - 1
    BY <1>1, <2>1, <2>4, SpanNow
  <2> QED
    BY <2>2, <2>3, <2>4
<1>2. IInv /\ TInv => BurstBound
  BY <1>1 DEF BurstBound, Span
<1> QED
  BY <1>2, TimedInvariant, PTL

=============================================================================

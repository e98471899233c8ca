---------------------------- MODULE WindowLimiter ----------------------------
(***************************************************************************)
(* The requests-per-minute and tokens-per-minute limits of ONE API key:    *)
(* RateLimiter.check_chat_request, check_requests, check_tokens and        *)
(* _redis_key.  The counters are Redis keys named after a bucket, the      *)
(* number of the minute.  The bucket is computed when a command is built;  *)
(* Redis applies the command later, possibly in the next minute, when the  *)
(* key may already have expired.                                           *)
(***************************************************************************)
EXTENDS Integers, FiniteSets, FiniteSetsExt

CONSTANTS
  Requests,      (* the chat requests of the API key; each is checked once  *)
  Cost,          (* Cost[r]: estimate_chat_token_cost of r                  *)
  RequestLimit,  (* settings.rate_limit_rpm                                 *)
  TokenLimit,    (* settings.rate_limit_tpm                                 *)
  Window,        (* RATE_LIMIT_WINDOW_SECONDS, in ticks of the clock        *)
  MaxDelay,      (* bound: ticks from building a command to its application *)
  MaxTime,       (* bound: the clock stops there                            *)
  MaxMishaps     (* bound: failed commands and lost replies                 *)

ASSUME WindowAssumption ==
  /\ IsFiniteSet(Requests)
  /\ Cost \in [Requests -> Nat \ {0}]     \* two tokens, and four per message
  /\ RequestLimit \in Nat \ {0}           \* Settings declares both with gt=0
  /\ TokenLimit \in Nat \ {0}
  /\ Window \in Nat \ {0}
  /\ MaxDelay \in Nat /\ MaxTime \in Nat /\ MaxMishaps \in Nat

Kinds == {"rpm", "tpm"}
Buckets == 0 .. (MaxTime \div Window)

VARIABLES
  now,       (* the clock of the gateways and of Redis                      *)
  count,     (* count[k][b]: the integer under rate_limit:<k>:<hash>:<b>    *)
  expires,   (* expires[k][b]: when that key expires; Never; or Missing     *)
  life,      (* history: how often key <k, b> has been created              *)
  pc,        (* pc[r]: see Labels                                           *)
  bucket,    (* bucket[r]: the bucket of the command r is sending           *)
  built,     (* built[r]: when that command was built                       *)
  charged,   (* history: charged[k][r]: <<bucket, life, time>> of the       *)
             (* command of kind k that counted r, or NoCharge               *)
  mishaps    (* history: mishaps so far                                     *)

vars == <<now, count, expires, life, pc, bucket, built, charged, mishaps>>

Missing == -1
Never   == -2
NoCharge == <<-1, 0, -1>>

\*   idle          the request has not reached check_chat_request
\*   rpm_incr      INCR of the request counter is on its way
\*   rpm_expire    INCR returned 1: EXPIRE of that key is next
\*   tpm_incr      INCRBY of the token counter is on its way
\*   tpm_expire    INCRBY returned the request's own cost: EXPIRE is next
\*   passed        both checks passed
\*   no_requests, no_tokens   RateLimitExceeded of that kind was raised
\*   error         a Redis command raised
Labels == {"idle", "rpm_incr", "rpm_expire", "tpm_incr", "tpm_expire",
           "passed", "no_requests", "no_tokens", "error"}

-----------------------------------------------------------------------------
(* Redis                                                                   *)

\* INCR and INCRBY create a missing key, without a time to live.
AddToKey(k, b, n) ==
  /\ count' = [count EXCEPT ![k][b] = @ + n]
  /\ IF expires[k][b] = Missing
     THEN /\ expires' = [expires EXCEPT ![k][b] = Never]
          /\ life' = [life EXCEPT ![k][b] = @ + 1]
     ELSE UNCHANGED <<expires, life>>

\* Mutant: the time to live is half a window.
SetTTLShort(k, b) ==
  /\ expires' = [expires EXCEPT ![k][b] = IF @ = Missing THEN Missing
                                          ELSE now + Window \div 2]
  /\ UNCHANGED <<count, life>>

\* EXPIRE does nothing when the key is missing.
SetTTL(k, b) ==
  /\ expires' = [expires EXCEPT ![k][b] = IF @ = Missing THEN Missing ELSE now + Window]
  /\ UNCHANGED <<count, life>>

Charge(k, r, b) ==
  charged' = [charged EXCEPT ![k][r] = <<b, life'[k][b], now>>]

Mishap == mishaps < MaxMishaps /\ mishaps' = mishaps + 1

Goto(r, label) == pc' = [pc EXCEPT ![r] = label]

\* Mutant: the key is named after the second, not the minute.
BuildBySecond(r) ==
  /\ bucket' = [bucket EXCEPT ![r] = now]
  /\ built' = [built EXCEPT ![r] = now]

\* _redis_key: the bucket is the minute in which the command is built.
Build(r) ==
  /\ bucket' = [bucket EXCEPT ![r] = now \div Window]
  /\ built' = [built EXCEPT ![r] = now]

-----------------------------------------------------------------------------
\* Mutant: the request's own cost is not compared with the limit.
EnterTokensUnchecked(r) == Goto(r, "tpm_incr") /\ Build(r)

\* The first lines of check_tokens, up to the INCRBY: a request that can
\* never fit is rejected before the token counter is touched.
EnterTokens(r) ==
  IF Cost[r] > TokenLimit
  THEN Goto(r, "no_tokens") /\ UNCHANGED <<bucket, built>>
  ELSE Goto(r, "tpm_incr") /\ Build(r)

CheckRequests(r) ==
  /\ pc[r] = "idle"
  /\ Goto(r, "rpm_incr")
  /\ Build(r)
  /\ UNCHANGED <<now, count, expires, life, charged, mishaps>>

\* Mutants: one request too many passes; the count is not compared at all.
IncrRequestsOneMore(r) ==
  LET b == bucket[r]
      n == count["rpm"][b] + 1
  IN /\ pc[r] = "rpm_incr"
     /\ AddToKey("rpm", b, 1)
     /\ Charge("rpm", r, b)
     /\ \/ n = 1 /\ Goto(r, "rpm_expire") /\ UNCHANGED <<bucket, built>>
        \/ n # 1 /\ n <= RequestLimit + 1 /\ EnterTokens(r)
        \/ n > RequestLimit + 1 /\ Goto(r, "no_requests") /\ UNCHANGED <<bucket, built>>
     /\ UNCHANGED <<now, mishaps>>

IncrRequestsUnchecked(r) ==
  LET b == bucket[r]
  IN /\ pc[r] = "rpm_incr"
     /\ AddToKey("rpm", b, 1)
     /\ Charge("rpm", r, b)
     /\ IF count["rpm"][b] = 0
        THEN Goto(r, "rpm_expire") /\ UNCHANGED <<bucket, built>>
        ELSE EnterTokens(r)
     /\ UNCHANGED <<now, mishaps>>

IncrRequests(r) ==
  LET b == bucket[r]
      n == count["rpm"][b] + 1
  IN /\ pc[r] = "rpm_incr"
     /\ AddToKey("rpm", b, 1)
     /\ Charge("rpm", r, b)
     /\ \/ n = 1 /\ Goto(r, "rpm_expire") /\ UNCHANGED <<bucket, built>>
        \/ n # 1 /\ n <= RequestLimit /\ EnterTokens(r)
        \/ n # 1 /\ n > RequestLimit /\ Goto(r, "no_requests") /\ UNCHANGED <<bucket, built>>
     /\ UNCHANGED <<now, mishaps>>

\* The count was 1, which no limit is below.
ExpireRequests(r) ==
  /\ pc[r] = "rpm_expire"
  /\ SetTTL("rpm", bucket[r])
  /\ EnterTokens(r)
  /\ UNCHANGED <<now, charged, mishaps>>

\* Mutant: the new key is recognised by a count of 1, as for requests.
IncrTokensExpiresAtOne(r) ==
  LET b == bucket[r]
      n == count["tpm"][b] + Cost[r]
  IN /\ pc[r] = "tpm_incr"
     /\ AddToKey("tpm", b, Cost[r])
     /\ Charge("tpm", r, b)
     /\ Goto(r, IF n = 1 THEN "tpm_expire"
                ELSE IF n > TokenLimit THEN "no_tokens" ELSE "passed")
     /\ UNCHANGED <<now, bucket, built, mishaps>>

\* Mutant: the last token of the window is not given away.
IncrTokensStrict(r) ==
  LET b == bucket[r]
      n == count["tpm"][b] + Cost[r]
  IN /\ pc[r] = "tpm_incr"
     /\ AddToKey("tpm", b, Cost[r])
     /\ Charge("tpm", r, b)
     /\ Goto(r, IF n = Cost[r] THEN "tpm_expire"
                ELSE IF n >= TokenLimit THEN "no_tokens" ELSE "passed")
     /\ UNCHANGED <<now, bucket, built, mishaps>>

IncrTokens(r) ==
  LET b == bucket[r]
      n == count["tpm"][b] + Cost[r]
  IN /\ pc[r] = "tpm_incr"
     /\ AddToKey("tpm", b, Cost[r])
     /\ Charge("tpm", r, b)
     /\ Goto(r, IF n = Cost[r] THEN "tpm_expire"
                ELSE IF n > TokenLimit THEN "no_tokens" ELSE "passed")
     /\ UNCHANGED <<now, bucket, built, mishaps>>

\* The count was the request's own cost, which EnterTokens compared.
ExpireTokens(r) ==
  /\ pc[r] = "tpm_expire"
  /\ SetTTL("tpm", bucket[r])
  /\ Goto(r, "passed")
  /\ UNCHANGED <<now, bucket, built, charged, mishaps>>

\* A command raises: not applied, or applied and its reply lost.
Fail(r) ==
  /\ Mishap
  /\ Goto(r, "error")
  /\ \/ /\ pc[r] \in {"rpm_incr", "tpm_incr", "rpm_expire", "tpm_expire"}
        /\ UNCHANGED <<count, expires, life>>
     \/ pc[r] = "rpm_incr" /\ AddToKey("rpm", bucket[r], 1)
     \/ pc[r] = "tpm_incr" /\ AddToKey("tpm", bucket[r], Cost[r])
     \/ pc[r] = "rpm_expire" /\ SetTTL("rpm", bucket[r])
     \/ pc[r] = "tpm_expire" /\ SetTTL("tpm", bucket[r])
  /\ UNCHANGED <<now, bucket, built, charged>>

Sending == {"rpm_incr", "rpm_expire", "tpm_incr", "tpm_expire"}

\* The clock advances; Redis drops the keys whose time has come.
Tick ==
  LET Gone(k, b) == expires[k][b] >= 0 /\ expires[k][b] <= now + 1
  IN /\ now < MaxTime
     /\ \A r \in Requests : pc[r] \in Sending => now < built[r] + MaxDelay
     /\ now' = now + 1
     /\ count' = [k \in Kinds |-> [b \in Buckets |->
                    IF Gone(k, b) THEN 0 ELSE count[k][b]]]
     /\ expires' = [k \in Kinds |-> [b \in Buckets |->
                    IF Gone(k, b) THEN Missing ELSE expires[k][b]]]
     /\ UNCHANGED <<life, pc, bucket, built, charged, mishaps>>

Init ==
  /\ now = 0
  /\ count = [k \in Kinds |-> [b \in Buckets |-> 0]]
  /\ expires = [k \in Kinds |-> [b \in Buckets |-> Missing]]
  /\ life = [k \in Kinds |-> [b \in Buckets |-> 0]]
  /\ pc = [r \in Requests |-> "idle"]
  /\ bucket = [r \in Requests |-> 0]
  /\ built = [r \in Requests |-> 0]
  /\ charged = [k \in Kinds |-> [r \in Requests |-> NoCharge]]
  /\ mishaps = 0

Step(r) ==
  \/ CheckRequests(r) \/ IncrRequests(r) \/ ExpireRequests(r)
  \/ IncrTokens(r) \/ ExpireTokens(r)

Next == Tick \/ \E r \in Requests : Step(r) \/ Fail(r)

Spec == Init /\ [][Next]_vars

-----------------------------------------------------------------------------
(* Properties                                                              *)

TypeOK ==
  /\ now \in 0 .. MaxTime
  /\ count \in [Kinds -> [Buckets -> Nat]]
  /\ expires \in [Kinds -> [Buckets -> {Missing, Never} \cup 1 .. MaxTime + Window]]
  /\ life \in [Kinds -> [Buckets -> Nat]]
  /\ pc \in [Requests -> Labels]
  /\ bucket \in [Requests -> Buckets]
  /\ built \in [Requests -> 0 .. MaxTime]
  /\ charged \in [Kinds -> [Requests -> (Buckets \X Nat \X (0 .. MaxTime)) \cup {NoCharge}]]
  /\ mishaps \in 0 .. MaxMishaps

\* Requests that check_requests let through.
Cleared == {r \in Requests : charged["rpm"][r] # NoCharge /\ pc[r] # "no_requests"}

\* Requests that check_tokens let through.
Funded == {r \in Requests : charged["tpm"][r] # NoCharge /\ pc[r] # "no_tokens"}

\* The requests of S that the key of kind k and bucket b counted in its l-th life.
CountedBy(S, k, b, l) ==
  {r \in S : charged[k][r][1] = b /\ charged[k][r][2] = l}

\* Between the creation of a request counter and its expiry at most
\* RequestLimit requests pass check_requests, in whatever order the gateways'
\* INCR and EXPIRE commands reach Redis.
RequestsPerLife ==
  \A b \in Buckets : \A l \in 1 .. life["rpm"][b] :
    Cardinality(CountedBy(Cleared, "rpm", b, l)) <= RequestLimit

\* Between the creation of a token counter and its expiry the requests that
\* pass check_tokens cost at most TokenLimit together.
TokensPerLife ==
  \A b \in Buckets : \A l \in 1 .. life["tpm"][b] :
    MapThenSumSet(LAMBDA r : Cost[r], CountedBy(Funded, "tpm", b, l)) <= TokenLimit

\* A counter is created a second time only by a command that was built in its
\* minute and applied after it expired; such commands are applied within the
\* next minute, so a counter never has a third life.
AtMostTwoLives ==
  MaxDelay < Window => \A k \in Kinds, b \in Buckets : life[k][b] <= 2

\* What the limits above leave of "requests per minute": a span of one window
\* meets the counters of three minutes, that of the past one by delayed
\* commands; the first two may begin a second life in it, but then the request
\* that created the first life passed before the span.
BurstBound ==
  MaxDelay < Window =>
    \A t \in 0 .. MaxTime :
      Cardinality({r \in Cleared : charged["rpm"][r][3] \in t .. t + Window - 1})
        <= 5 * RequestLimit - 2

\* Without mishaps no request is turned away early: the requests its counter
\* counted since it was created exceed the limit, those that were turned away
\* themselves included (the code counts before it compares), or it asks for
\* more tokens than the limit alone.
RejectionsJustified ==
  mishaps = 0 =>
    \A r \in Requests :
      LET counted(k) == CountedBy(Requests, k, charged[k][r][1], charged[k][r][2])
      IN /\ pc[r] = "no_requests" => Cardinality(counted("rpm")) > RequestLimit
         /\ pc[r] = "no_tokens" =>
              \/ Cost[r] > TokenLimit
              \/ MapThenSumSet(LAMBDA q : Cost[q], counted("tpm")) > TokenLimit

\* Without mishaps a counter has no time to live only while the request that
\* created it is about to send EXPIRE: counters do not pile up in Redis.
CountersExpire ==
  mishaps = 0 =>
    \A k \in Kinds, b \in Buckets : expires[k][b] = Never =>
      \E r \in Requests : /\ pc[r] = (IF k = "rpm" THEN "rpm_expire" ELSE "tpm_expire")
                          /\ bucket[r] = b

=============================================================================

-------------------------- MODULE ConcurrencyLease --------------------------
(***************************************************************************)
(* The concurrent-request limit of ONE API key: RateLimiter.acquire_concurrent *)
(* and release_concurrent, RateLimitLease.release and wrap_stream,         *)
(* enforce_chat_rate_limit, and the part of create_chat_completion that    *)
(* decides who releases the lease.  Keys of different API keys never meet  *)
(* (_stable_redis_key hashes the API key), so one key is enough.           *)
(*                                                                         *)
(* Every awaited Redis command is a step: the coroutines of all gateway    *)
(* processes interleave between any two of them.  A command may fail       *)
(* before Redis applies it, or be applied and its reply be lost.           *)
(***************************************************************************)
EXTENDS Integers, FiniteSets

CONSTANTS
  Requests,    (* client connections; each issues one request after another *)
  Gateways,    (* gateway processes (replicas)                              *)
  HostOf,      (* HostOf[r]: the process that serves r's requests           *)
  Limit,       (* settings.rate_limit_concurrent_requests                   *)
  TTL,         (* CONCURRENT_REQUEST_TTL_SECONDS, in ticks of the clock     *)
  Deadline,    (* bound: no request is alive for more than Deadline ticks   *)
  MaxMishaps   (* bound: failed commands, lost replies, crashes, restarts,  *)
               (* cancelled streams                                         *)

ASSUME LeaseAssumption ==
  /\ IsFiniteSet(Requests)
  /\ HostOf \in [Requests -> Gateways]
  /\ Limit \in Nat \ {0}      \* Settings declares the limit with gt=0
  /\ TTL \in Nat \ {0}
  /\ Deadline \in Nat \ {0}
  /\ MaxMishaps \in Nat

VARIABLES
  pc,          (* pc[r]: where r's handler is (see Labels)                  *)
  age,         (* age[r]: ticks since r's current request arrived           *)
  val,         (* the integer stored under rate_limit:concurrent:<hash>     *)
  ttl,         (* 0: the key does not exist; NoTTL: it never expires        *)
  leaked,      (* history: INCRs whose request ended without a DECR, since  *)
               (* Redis last lost the key                                   *)
  forgotten,   (* history: requests the key counted when Redis last lost it *)
  mishaps      (* history: mishaps so far                                   *)

vars == <<pc, age, val, ttl, leaked, forgotten, mishaps>>

NoTTL == -1

-----------------------------------------------------------------------------
(* Where a request's coroutine is suspended.                               *)
(*   idle         no request on this connection                            *)
(*   incr         in acquire_concurrent, about to send INCR                *)
(*   expire       INCR answered a count within the limit; EXPIRE is next   *)
(*   expire_over  INCR answered a count over the limit; EXPIRE is next     *)
(*   undo         over the limit; DECR is next                             *)
(*   windows      lease acquired; check_chat_request runs                  *)
(*   serve        in the try block of create_chat_completion               *)
(*   stream       StreamingResponse returned, its generator not started    *)
(*   iterate      wrap_stream's generator is running                       *)
(*   release      released = True is set; DECR is next                     *)
(*   close        the slot is settled; the Redis client's aclose is next   *)

Admitting == {"expire", "windows", "serve", "stream", "iterate", "release"}
Counting  == Admitting \cup {"expire_over", "undo"}
Labels    == Counting \cup {"idle", "incr", "close"}

\* Requests inside the backend part of the handler: what the setting limits.
InFlight == {r \in Requests : pc[r] \in {"serve", "stream", "iterate"}}

\* Requests whose INCR stayed within the limit and is not yet undone.
Admitted == {r \in Requests : pc[r] \in Admitting}

\* Requests whose INCR was applied and answered, and is not yet undone.
Counted == {r \in Requests : pc[r] \in Counting}

-----------------------------------------------------------------------------
(* Redis                                                                   *)

\* INCR and DECR create a missing key with value 0 and no time to live.
AddToKey(d) ==
  /\ val' = val + d
  /\ ttl' = IF ttl = 0 THEN NoTTL ELSE ttl

\* Mutants: the time to live is added to, or set on a new key only.
SetTTLAdds ==
  /\ ttl' = IF ttl = 0 THEN 0 ELSE IF ttl = NoTTL THEN TTL ELSE ttl + TTL
  /\ UNCHANGED val

SetTTLOnce ==
  /\ ttl' = IF ttl = NoTTL THEN TTL ELSE ttl
  /\ UNCHANGED val

\* EXPIRE does nothing when the key is missing.
SetTTL ==
  /\ ttl' = IF ttl = 0 THEN 0 ELSE TTL
  /\ UNCHANGED val

LoseKey ==
  /\ val' = 0
  /\ ttl' = 0
  /\ leaked' = 0
  /\ forgotten' = Cardinality(Counted)

Goto(r, label) ==
  /\ pc' = [pc EXCEPT ![r] = label]
  /\ age' = IF label = "idle" THEN [age EXCEPT ![r] = 0] ELSE age

Mishap == mishaps < MaxMishaps /\ mishaps' = mishaps + 1

NoMishap == UNCHANGED mishaps

-----------------------------------------------------------------------------
(* Acquiring                                                               *)

Arrive(r) ==
  /\ pc[r] = "idle"
  /\ Goto(r, "incr")
  /\ UNCHANGED <<val, ttl, leaked, forgotten, mishaps>>

\* Mutant: the limit is compared with the count before the increment.
IncrTestsOldCount(r) ==
  /\ pc[r] = "incr"
  /\ Goto(r, IF val <= Limit THEN "expire" ELSE "expire_over")
  /\ AddToKey(1)
  /\ UNCHANGED <<leaked, forgotten, mishaps>>

\* The count INCR returns decides the request, two awaits later (line 131).
\* On an error lease is still None, so the except clause only closes.
Incr(r) ==
  /\ pc[r] = "incr"
  /\ \/ /\ NoMishap
        /\ Goto(r, IF val + 1 <= Limit THEN "expire" ELSE "expire_over")
        /\ AddToKey(1)
        /\ UNCHANGED leaked
     \/ /\ Mishap                                    \* applied, reply lost
        /\ Goto(r, "close")
        /\ AddToKey(1)
        /\ leaked' = leaked + 1
     \/ /\ Mishap                                    \* not applied
        /\ Goto(r, "close")
        /\ UNCHANGED <<val, ttl, leaked>>
  /\ UNCHANGED forgotten

\* Mutants: the EXPIRE is left out; the count is not compared after it.
ExpireOmitted(r) ==
  /\ pc[r] \in {"expire", "expire_over"}
  /\ Goto(r, IF pc[r] = "expire" THEN "windows" ELSE "undo")
  /\ UNCHANGED <<val, ttl, leaked, forgotten, mishaps>>

ExpireAdmitsAll(r) ==
  /\ pc[r] \in {"expire", "expire_over"}
  /\ SetTTL
  /\ Goto(r, "windows")
  /\ UNCHANGED <<leaked, forgotten, mishaps>>

\* EXPIRE is sent for every request, also for one that is about to be
\* rejected.  If it raises, lease is still None: the slot is not given back.
Expire(r) ==
  /\ pc[r] \in {"expire", "expire_over"}
  /\ \/ /\ NoMishap
        /\ SetTTL
        /\ Goto(r, IF pc[r] = "expire" THEN "windows" ELSE "undo")
        /\ UNCHANGED leaked
     \/ /\ Mishap
        /\ SetTTL \/ UNCHANGED <<val, ttl>>
        /\ Goto(r, "close")
        /\ leaked' = leaked + 1
  /\ UNCHANGED forgotten

\* The DECR of a request that is rejected or of a lease that is released.
\* Whatever happens to it, the client is closed next and DECR is not retried.
GiveBack(r) ==
  /\ Goto(r, "close")
  /\ \/ NoMishap /\ AddToKey(-1) /\ UNCHANGED leaked
     \/ Mishap /\ AddToKey(-1) /\ UNCHANGED leaked       \* reply lost
     \/ Mishap /\ leaked' = leaked + 1 /\ UNCHANGED <<val, ttl>>
  /\ UNCHANGED forgotten

\* Mutants: a rejected request keeps a lease and releases it as well; it asks
\* again instead of being rejected; its DECR is left out.
UndoKeepsLease(r) ==
  /\ pc[r] = "undo"
  /\ Goto(r, "release")
  /\ AddToKey(-1)
  /\ UNCHANGED <<leaked, forgotten, mishaps>>

UndoRetries(r) ==
  /\ pc[r] = "undo"
  /\ Goto(r, "incr")
  /\ AddToKey(-1)
  /\ UNCHANGED <<leaked, forgotten, mishaps>>

UndoOmitsDecr(r) ==
  /\ pc[r] = "undo"
  /\ Goto(r, "close")
  /\ UNCHANGED <<val, ttl, leaked, forgotten, mishaps>>

Undo(r) == pc[r] = "undo" /\ GiveBack(r)

\* check_chat_request: within the limits; or RateLimitExceeded or a Redis
\* error, and the except clause of enforce_chat_rate_limit releases.
Windows(r) ==
  /\ pc[r] = "windows"
  /\ \E next \in {"serve", "release"} : Goto(r, next)
  /\ UNCHANGED <<val, ttl, leaked, forgotten, mishaps>>

-----------------------------------------------------------------------------
(* Serving and releasing                                                   *)

\* A response, an error response or an exception leaves the try block through
\* the finally clause; a stream that opened takes the lease with it.
Serve(r) ==
  /\ pc[r] = "serve"
  /\ \E next \in {"release", "stream"} : Goto(r, next)
  /\ UNCHANGED <<val, ttl, leaked, forgotten, mishaps>>

StartStream(r) ==
  /\ pc[r] = "stream"
  /\ Goto(r, "iterate")
  /\ UNCHANGED <<val, ttl, leaked, forgotten, mishaps>>

\* The stream is exhausted or raises; or the client leaves while the generator
\* is suspended at its yield, and the event loop finalizes it in a fresh task.
EndStream(r) ==
  /\ pc[r] = "iterate"
  /\ Goto(r, "release")
  /\ UNCHANGED <<val, ttl, leaked, forgotten, mishaps>>

\* The client leaves before the generator's first step: its finally clause
\* does not exist yet, and nobody else owns the lease.
DropUnstarted(r) ==
  /\ pc[r] = "stream"
  /\ Mishap
  /\ Goto(r, "idle")
  /\ leaked' = leaked + 1
  /\ UNCHANGED <<val, ttl, forgotten>>

\* The client leaves while the generator awaits the backend: release runs in
\* the cancelled scope, which may stop it before its DECR is sent.
CancelStream(r) ==
  /\ pc[r] = "iterate"
  /\ Mishap
  /\ Goto(r, "idle")
  /\ \/ AddToKey(-1) /\ UNCHANGED leaked
     \/ leaked' = leaked + 1 /\ UNCHANGED <<val, ttl>>
  /\ UNCHANGED forgotten

Release(r) == pc[r] = "release" /\ GiveBack(r)

Close(r) ==
  /\ pc[r] = "close"
  /\ Goto(r, "idle")
  /\ UNCHANGED <<val, ttl, leaked, forgotten, mishaps>>

-----------------------------------------------------------------------------
(* The environment                                                         *)

\* A gateway process is killed: its requests end where they are.
Crash(g) ==
  LET lost == {r \in Requests : HostOf[r] = g}
  IN /\ \E r \in lost : pc[r] # "idle"
     /\ Mishap
     /\ pc'  = [r \in Requests |-> IF r \in lost THEN "idle" ELSE pc[r]]
     /\ age' = [r \in Requests |-> IF r \in lost THEN 0 ELSE age[r]]
     /\ leaked' = leaked + Cardinality(Counted \cap lost)
     /\ UNCHANGED <<val, ttl, forgotten>>

\* Redis keeps nothing on disk.
RedisRestart ==
  /\ ttl # 0
  /\ Mishap
  /\ LoseKey
  /\ UNCHANGED <<pc, age>>

\* Time passes for every live request and for the key.
Tick ==
  /\ \A r \in Requests : pc[r] # "idle" => age[r] < Deadline
  /\ \/ ttl > 0
     \/ \E r \in Requests : pc[r] # "idle"
  /\ age' = [r \in Requests |-> IF pc[r] = "idle" THEN 0 ELSE age[r] + 1]
  /\ IF ttl = 1
     THEN LoseKey
     ELSE /\ ttl' = IF ttl > 1 THEN ttl - 1 ELSE ttl
          /\ UNCHANGED <<val, leaked, forgotten>>
  /\ UNCHANGED <<pc, mishaps>>

-----------------------------------------------------------------------------
Init ==
  /\ pc = [r \in Requests |-> "idle"]
  /\ age = [r \in Requests |-> 0]
  /\ val = 0
  /\ ttl = 0
  /\ leaked = 0
  /\ forgotten = 0
  /\ mishaps = 0

\* The steps for which r waits only for the event loop, Redis and the backend.
Proceed(r) ==
  \/ Incr(r) \/ Expire(r) \/ Undo(r) \/ Windows(r)
  \/ Serve(r) \/ StartStream(r) \/ Release(r) \/ Close(r)

Handle(r) == Proceed(r) \/ EndStream(r)

Next ==
  \/ \E r \in Requests :
       Arrive(r) \/ Handle(r) \/ DropUnstarted(r) \/ CancelStream(r)
  \/ \E g \in Gateways : Crash(g)
  \/ RedisRestart
  \/ Tick

Spec == Init /\ [][Next]_vars

\* The event loop resumes every ready coroutine, every Redis command returns or
\* raises, and every attempt at a backend is bounded by its timeout.  A stream
\* need not end: at every chunk wrap_stream waits for the client to read.
Fairness == \A r \in Requests : WF_vars(Proceed(r))

FairSpec == Spec /\ Fairness

-----------------------------------------------------------------------------
(* Properties                                                              *)

TypeOK ==
  /\ pc \in [Requests -> Labels]
  /\ age \in [Requests -> 0 .. Deadline]
  /\ val \in Int
  /\ ttl \in 0 .. TTL \cup {NoTTL}
  /\ leaked \in Nat
  /\ forgotten \in 0 .. Cardinality(Requests)
  /\ mishaps \in 0 .. MaxMishaps

\* The stored integer is the number of requests that will still send a DECR,
\* plus the DECRs that will never come, minus the INCRs Redis forgot.
CounterIsSlots ==
  /\ val = Cardinality(Counted) + leaked - forgotten
  /\ ttl = 0 => val = 0

\* Without a failed command, a lost reply, a crash or a cancelled stream every
\* request gives its slot back, whichever way its handler ends.
NoSilentLeak == mishaps = 0 => leaked = 0

\* Over any interleaving, mishap or expiry no path of acquire_concurrent,
\* enforce_chat_rate_limit, release and wrap_stream sends a second DECR for one
\* INCR, and none but the mishaps' drops one.
CounterAccounts == CounterIsSlots /\ NoSilentLeak

\* At most Limit requests of the API key are admitted at once, except for
\* those the counter forgot when its key was last lost.  Deciding on the
\* count INCR returned, and not on a later read, is what makes this so.
AdmittedWithinLimit == Cardinality(Admitted) <= Limit + forgotten

\* If requests end within the key's time to live, the key never expires under
\* a request whose own EXPIRE was sent: every acquire, even one that will be
\* rejected, renews the key (rate_limit.py line 129).  Only a request caught
\* between its INCR and its EXPIRE can lose its slot.
Acquiring == {r \in Requests : pc[r] \in {"expire", "expire_over"}}

ExpiryOnlyRacesAcquire ==
  [][ttl = 1 /\ ttl' = 0 /\ NoMishap => Counted \subseteq Acquiring]_vars

\* A positive counter without a time to live would be a leak that nothing
\* heals; without mishaps it lasts only until the EXPIRE that follows the INCR.
PositiveCounterExpires ==
  mishaps = 0 /\ ttl = NoTTL /\ val > 0 =>
     \E r \in Requests : pc[r] \in {"expire", "expire_over"}

\* Every request that arrived ends or has a stream that goes on at the pace of
\* its client, for ever if the client neither reads nor leaves; and once the
\* stream is over, its slot is given back and the request ends.
EveryRequestEnds ==
  \A r \in Requests :
    /\ pc[r] = "incr" ~> pc[r] \in {"idle", "iterate"}
    /\ pc[r] = "release" ~> pc[r] = "idle"

\* A request is rejected only while as many are counted as the limit allows:
\* requests in flight, losers that have not undone their INCR yet, and what
\* mishaps leaked.  Whoever comes after the last DECR of a burst is admitted.
RejectedWhileFull ==
  [][\A r \in Requests : pc[r] = "incr" /\ pc'[r] = "expire_over" =>
       Cardinality(Counted) + leaked >= Limit + forgotten]_vars

Pool == INSTANCE SlotPool WITH Clients <- Requests,
                               holders <- Admitted,
                               slack <- forgotten

\* The counter in Redis implements a pool of Limit slots that grants a slot
\* only below its limit, and that forgets only when Redis loses the key.
ImplementsPool == Pool!Spec

-----------------------------------------------------------------------------
(* What the documentation says                                             *)

\* docs/configuration.md:33: "Simultaneous in-flight chat requests allowed
\* for each API key."
InFlightWithinLimit == Cardinality(InFlight) <= Limit

=============================================================================

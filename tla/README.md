# TLA+ specifications of the Mini LLM Serving Platform

The platform is an OpenAI-compatible gateway (FastAPI, one event loop per
replica) in front of a model backend, with per-API-key limits kept in Redis,
and a set of Python tools that start, test and measure it. These modules model
the parts of it that interleave, fail half way or count: the rate limiter, the
checks a request must pass, its way through the gateway, routing and token
costs, the streamed text, the benchmark runner and the local end-to-end script.
TLC checks them on small instances. For every instance, TLAPS proves every safety
property the passing runs check: of the concurrency limit, of the window counters,
of routing, token costs and admission, of one chat request, of its streamed text,
of the benchmark's breakdowns and of the local script (section 5).

Check one run with `tlc -config MCLeaseFaults.cfg MCConcurrencyLease`, the
proofs of one module with `tlapm ConcurrencyLease_proofs.tla`, and likewise
`WindowLimiter_proofs`, `ChatPlan_proofs`, `ChatHandler_proofs`,
`StreamText_proofs`, `BenchmarkRun_proofs`, `LocalE2E_proofs` and `FoldLemmas`.

## 1. The system

| Component | Code | State it keeps | Operations |
|---|---|---|---|
| Concurrent-request limit | `gateway/app/core/rate_limit.py`, `api/routes_chat.py` | one Redis integer per API key with a time to live; a lease per request | `acquire_concurrent`, `release`, `wrap_stream`, the `except` clause of `enforce_chat_rate_limit`, the `finally` clause of `create_chat_completion` |
| Request and token windows | `core/rate_limit.py` | two Redis integers per API key and minute | `check_chat_request` = `check_requests`, then `check_tokens` |
| Token accounting | `core/token_accounting.py` | a cache of tokenizer files | `load_tokenizer_profiles`, `load_tokenizer_paths`, `count_text`, `estimate_chat_token_cost` |
| Model routing | `proxy/model_aliases.py` | two JSON settings, parsed by every request | `resolve_model_route`, `list_gateway_models` |
| Chat handler | `api/routes_chat.py`, `main.py`, middlewares | the response, the lease, who owns it | one request |
| Backend client | `proxy/backend_client.py` | an httpx client per attempt or stream | `create_chat_completion`, `open_chat_completion_stream`, `list_models` |
| Streamed text | `proxy/streaming.py`, `observability/metrics.py` | two text buffers, one per generator | rewriting of model names; counting of content chunks |
| Metrics | `observability/metrics.py` | Prometheus counters | once per request, once per stream |
| Authentication, request limits | `core/security.py`, `core/request_limits.py` | none | `require_api_key`, `request_body_size_middleware`, `validate_chat_request_limits` |
| Readiness, model listing | `api/routes_health.py`, `routes_models.py` | none | one request to the backend, or none |
| Settings and schemas | `core/config.py`, `schemas/openai.py` | none after the start | `allowed_api_keys`, validation of a request |
| Mock backend | `serving/mock_backend/app.py` | none | a completion, or a stream of seven events |
| Benchmark runner | `benchmark/run_benchmark.py` | results and summaries | warmup, concurrency levels, breakdowns |
| Benchmark reports | `benchmark/compare_results.py`, `generate_report.py`, `collect_*`, `sample_*` | files | pure functions of files, a sampling loop |
| Local end-to-end run | `scripts/local_e2e.py`, `scripts/demo_portfolio.py` | two child processes | start, wait, smoke test, stop; being killed |
| Scripts, deployment | the rest of `scripts/`, `deploy/` | - | - |

How they interact: a request passes the metrics, logging, body-size and
request-id middlewares (in this order from the outside), authentication,
validation and routing; then `enforce_chat_rate_limit` takes a slot of the API
key and charges both windows, each Redis command an `await` at which every
other request of every replica may run; then the backends of the route are
tried in turn. A plain response gives the slot back in the handler's `finally`
clause. A stream takes its lease along: three generators inside each other
(`wrap_stream` over `observe_streaming_chunks` over `rewrite_sse_model_events`
over `BackendStream.aiter_text`) release it when the stream ends, breaks or is
left. The benchmark runner is a client of all this, and the local script the
parent of a gateway and a mock backend; `demo_portfolio` can be the parent of
the local script.

What is hard: commands of many requests interleave on one counter that
also expires; a command can fail before or after Redis applied it; streams
outlive time limits; a client can leave at any await and the generators are
then finalized late, from the outside in, or not at all; exceptions nobody
catches bypass the middlewares; text arrives in chunks that end anywhere;
a client's timeout frees the client and not the gateway; Ctrl-C in a terminal
reaches a script, its parent and its children at once. `PROJECT.json` lists
each hazard at its line with the properties that watch it.

## 2. The modules

| Module | Models | Composed with |
|---|---|---|
| `SlotPool` | the abstract promise of the concurrency limit: a pool of `Limit` slots that may forget its holders | implemented by `ConcurrencyLease` |
| `ConcurrencyLease` | the Redis counter of one API key, its time to live, and every request's lease, over several replicas | `SlotPool` through `INSTANCE` |
| `ConcurrencyLease_proofs` | the proofs about it | extends `ConcurrencyLease` |
| `WindowLimiter` | the bucketed request and token counters of one API key | takes `Cost` from `TokenAccounting`'s promise |
| `WindowLimiter_proofs` | the proofs of what one life of a counter lets pass, and any span of a window | extends `WindowLimiter` and `FoldLemmas` |
| `FoldLemmas` | lemmas about sums over finite sets and folds over sequences, and the inductions they need | used by the proofs about `WindowLimiter`, `MCChatPlan`, `StreamText` and `BenchmarkRun` |
| `TokenAccounting` | the settings of the tokenizers, the cost of a text and of a request | used by `Admission` |
| `ModelRouting` | the two settings, route selection, fallback order, listing | used by `Admission` and `ChatHandler` |
| `Admission` | the checks before a request is routed, in the order the framework runs them; the settings the local script gives its gateway | extends `ModelRouting` and `TokenAccounting`; all three run in `MCChatPlan` |
| `ChatPlan_proofs` | the proofs about all three | extends `MCChatPlan` and `FoldLemmas` |
| `BackendClient` | what the client makes of each failure of the backend; `/ready` | used by `ChatHandler` for its attempts and by `LocalE2E` for its polls |
| `ChatHandler` | one request from the outermost middleware to its last `finally` | extends `ModelRouting` and `BackendClient`; its lease is the one `ConcurrencyLease` counts |
| `ChatHandler_proofs` | the proofs about it | extends `ChatHandler` |
| `StreamText` | the text of a stream and the metrics of it | the inside of `ChatHandler`'s `reading`/`yielded` states |
| `StreamText_proofs` | the proofs about it | extends `StreamText` and `FoldLemmas` |
| `MockBackend` | the stream of the mock backend | one of the bodies `StreamText` reads in `MCStreamText` |
| `BenchmarkRun` | warmup, levels, semaphore, client timeouts, against a gateway with a limit | the gateway is `ConcurrencyLease` without its faults |
| `BenchmarkRun_proofs` | the proofs about it | extends `BenchmarkRun` and `FoldLemmas` |
| `LocalE2E` | the script, its two children, Ctrl-C, `demo_portfolio` | the readiness it polls for is `BackendClient`'s `Ready` |
| `LocalE2E_proofs` | the proofs about it | extends `LocalE2E` |
| `MC*` | instances for TLC | |

### ConcurrencyLease and SlotPool

State: `val` and `ttl` are the Redis key; `pc[r]` is the `await` (or the point
between two statements that matter) at which request `r` is suspended, `age[r]`
how long it has been alive. `leaked`, `forgotten` and `mishaps` are history
variables: they guard nothing but the number of mishaps.
Actions are named after the command they send: `Incr`, `Expire`, `Undo` (the
DECR of a rejected request), `Windows` (`check_chat_request` and the `except`
clause around it), `Serve`, `StartStream`, `EndStream`, `Release`, `Close`.
Each command may succeed, be lost, or be applied and its reply lost (`Mishap`).
`Crash` ends all requests of a replica where they are, `RedisRestart` loses the
key, `Tick` lets time pass. `DropUnstarted` and `CancelStream` are the two
departures of a client after which the DECR may never be sent.

Keys of different API keys never meet (the key's name contains a hash of the
API key), so one API key is modelled.

### WindowLimiter

State: `count`, `expires` and `life` of each key (kind, minute), where `life`
is a history of how often the key was created; `pc`, `bucket` and `built` of
each request. The minute of a command is computed when it is built, and the
command is applied at most `MaxDelay` ticks later, possibly after the key has
expired. `EnterTokens` is the part of `check_tokens` before its command and
happens within the action that ends `check_requests`, as in the code.

### ModelRouting, TokenAccounting and Admission

Operators. A route is a sequence of targets with weights; SHA-256 is the slot
it selects; a setting that does not parse is a function that violates
`RoutesParse` or `AliasesParse`. A text is a sequence of character classes,
the ones the regular expressions distinguish; in an API key a comma and a
character that is not ASCII matter too. `LoadEntries` is what the two loaders of
tokenizer settings keep, `Loaded` what `lru_cache` remembers of a file. `Admit`
is the outcome of the size check, the parsing of the body, the API key, the
schema and `validate_chat_request_limits`, in this order: the framework reads
the body before it runs the dependencies and reports what is wrong with it
afterwards. A `body` can be JSON, not JSON (the framework's 422) or impossible to
read (its 400). `wellformed` stands for the fields of the schema whose bounds decide
nothing else (temperature, top_p, roles).

### BackendClient

`Failure` and `Listing` are the answers the code tells apart, `StatusOf` and
`CodeOf` the `BackendClientError` of a failure, `Ready` the response of `/ready`.
What `response.json()` raises has no handler, and `Ready` is then a bare 500.

### ChatHandler

`pc` follows the request (its labels are explained in the module), `tried` is
the history of the failures of its attempts, `lease` what became of the slot,
`conn` of the stream's connection, `resp` of the response with its error code,
`counted` (a status and the reason of a rejection) and `observed` what the
metrics recorded, `metrics` whether they are enabled. While a chunk is being sent
the generators are suspended (`yielded`) until the server has taken it (`Resume`);
`YieldRest` is the yield of what is left in the rewriting's buffer, which comes after
`aiter_text` has closed the connection. `Respond` sets the id only of what passes
`request_id_middleware`; the 413 of the size check brings its own. The limiter appears as its outcomes (held, 429, exception);
`ConcurrencyLease` shows what each means for the counter.

### StreamText

Text is a sequence of symbols small enough to cut an event anywhere that
matters: before, inside and after the JSON of a chunk, and between the two
newlines of a separator. `Split` is the loop on `"\n\n"`, `Lines` is
`str.splitlines`, which also ends lines at U+2028, U+2029, U+0085 and others
(`sep`). A data line without a space after its colon (`tight`) is counted as
content and not rewritten, as in the code. `buffer` and `held` are the two buffers.

### BenchmarkRun

`task[i]` is where the i-th coroutine of the level is, seen from both sides:
at the semaphore, before the gateway's INCR, holding a slot, rejected, waiting
for the response, done. `orphans` are the gateway's handlers whose client has
timed out or has left a stream at `[DONE]`. A request that got its slot can fail by
its backend, by a full request or token window (a 429 that is no rejection of the
concurrency limit) or by a broken connection or body; `Timeout` also stands for a
connection that fails while the gateway's handler goes on.

### LocalE2E

`pc` is `main()`, `processes` its list, `child` the two services, `asked` and
`killed` the signals they got. A service can block in a write to its stdout, a
pipe the script does not read, and then ignores SIGTERM; when the script is
gone the pipe has no reader, the write fails and the service goes on
(`Unblock`). `Interrupt` is a KeyboardInterrupt at any point: from a SIGINT to
the script alone, or from Ctrl-C in the terminal, which the services get too
since `Popen` leaves them in the script's process group (`ctrlc`). A service
that is being forked at that moment can miss it (`unheard`). `Kill` is the death
of the script without its `finally` clause: a SIGTERM, or the SIGKILL with which
`subprocess.run` in `demo_portfolio` (`demo`) ends it a quarter of a second after
a Ctrl-C both got. `lost` is a history variable for the situations in which
`main()` gives up on a child: an interrupt between `Popen` and the append or in
the clean-up, a kill, a service that SIGKILL does not end in five seconds.

## 3. The runs

| Run | Question | Bounds |
|---|---|---|
| `MCLeaseRace` | When requests are shorter than the key's life, can interleavings alone leave a counter without its time to live, lose a key, or reject a request without a cause? Does every request end? | 3 connections, 2 replicas, limit 1, life 2 ticks, requests at most 1 tick, 1 mishap |
| `MCLeaseFaults` | Does the counter stay accountable under faults and long streams, and does it implement the pool? | 3 connections, 2 replicas, limit 2, life 2, requests up to 3 ticks, 2 mishaps |
| `MCLeaseLongStream` | Is the limit a bound on requests in flight? (no) | 3 connections, limit 1, life 1, requests up to 2, no mishap |
| `MCWindowLimiter` | What do the two windows bound, with delayed commands? | 4 requests of costs 1, 2, 2, 4, limits 1 and 3, window 2 ticks, delay 1, 5 instants, 1 mishap |
| `MCChatPlan` | Are routing, listing, token costs and the admission checks right on every small input, and does what the local script configures fit what it asks for? | routes of up to 3 targets of weight 1 or 2, 20 pairs of settings, texts of up to 5 of 6 classes, requests on both sides of every limit, API keys of up to 3 characters of 4 classes |
| `MCChatHandler` | Does a request on any path settle its lease, connection, response and metrics? | 3 targets (one model twice), 2 chunks, metrics on and off |
| `MCChatNoId`, `MCChatNoEnvelope` | Do the two sentences of the API documentation hold? (no) | as above |
| `MCStreamText` | Does the client get the same text however it is cut, and do the metrics agree with it? | 3 events of 4 kinds, last one cut at 3 places, and the streams of the mock backend for three conversations; every partition |
| `MCStreamModel` | Is the model name always rewritten? (no) | 1 event |
| `MCBenchmarkRun` | Does a level within the limit measure the concurrency it names, and does the run end with every summary? | 1 warmup, levels of 3 and 2 with 4 requests each, limit 2, 1 timeout, 1 failure |
| `MCLocalE2E` | Is nothing left running, also after Ctrl-C and under `demo_portfolio`, and does exit status 0 mean what it says? | 2 polls, 2 mishaps among crashes, interrupts, a kill and a SIGKILL that takes too long |

Distinct states: 0.15 million in `MCLeaseRace`, 1.6 in `MCLeaseFaults`, 2.5 in
`MCWindowLimiter`, 0.18 in `MCChatPlan`, 0.56 in `MCBenchmarkRun`, 49,000 in
`MCStreamText`, 22,000 in `MCChatHandler`, 8,000 in `MCLocalE2E`; each run takes
between two seconds and a minute and a half.

Why these bounds suffice. In `MCLeaseRace` and `MCLeaseFaults` three
connections are one more than the limit can hold in one case and two more in
the other, so that a rejected request, an admitted one and one in between
exist at once; a connection issues one request after another, so histories are
not limited to three requests. A life of two ticks lets the key be renewed, age
and expire under requests of either kind; three ticks let a stream outlive it.
The second mishap is needed for a leak that is followed by a loss of the key.
In `MCWindowLimiter` five instants are two full minutes and the beginning of a
third, enough for a counter to expire, to be recreated by a delayed command and
for the next minute's counter to exist beside it. The bound of `BurstBound`, three
at this limit, is not reached here: it takes five requests, since those that
create a counter before the span pass too, and commands delayed by almost a
window (`Window = 3`, `MaxDelay = 2`, `MaxTime = 6` and no mishap, 0.6 million
states, reach it and do not cross it). That it holds at all is a theorem. The limits 1 and 3 make two requests of the same
minute, and two costs of the same minute, the interesting cases. A route of
three targets has a first, a middle and a last one; texts of five characters
cross the boundaries of four and of three characters per token. Three events
give an event before and after every cut. Four requests at a level of three
leave one at the semaphore. Two polls distinguish a first, a last and no answer;
two mishaps let a second Ctrl-C or a kill hit the clean-up after the first.
`HostOf`, symmetry and model values are in the `.cfg` files; symmetry is used in
safety runs only.

What the properties say, in short:

- `CounterAccounts`: the Redis integer is the slots still to be given back, plus
  those leaked by mishaps, minus those Redis forgot. No path sends two DECRs
  for one INCR, and without mishaps no slot is leaked. `AdmittedWithinLimit`: at most `Limit` admitted, plus what was
  forgotten. `ImplementsPool`: the counter refines `SlotPool`.
  `PositiveCounterExpires`, `ExpiryOnlyRacesAcquire`: without
  mishaps a positive counter always gets its time to live,
  and the key expires only under a request between its INCR and its EXPIRE.
  `RejectedWhileFull`: a request is rejected only while requests in flight, losers
  that have not undone their INCR yet and what mishaps leaked fill the limit.
  `EveryRequestEnds`: a request ends, or has a stream that goes on at its client's
  pace; once the stream is over its slot is given back and the request ends.
- `RequestsPerLife`, `TokensPerLife`, `AtMostTwoLives`, `BurstBound`,
  `CountersExpire`: what one life of a counter lets pass, how many lives it can
  have, what follows for any span of a minute, and that counters do not pile up.
- `RejectionsJustified`: without mishaps a request is turned away only by a
  counter that the requests since its creation have filled, those that were
  turned away included.
- `InvWeightsExact`, `InvAttemptsAreTargets`, `InvListedIffResolvable`,
  `InvReservesItsLength`: shares are weights; the attempts are a
  rotation of one target to the front; the listing and chat agree, also when a
  setting does not parse; a text reserves at least a token for every four of the ASCII
  letters and digits, Chinese characters and marks it shows, at most one for every
  character of the stripped text, and at least one if it shows anything.
  `InvProfilesAgree`: the cost is estimated for the selected backend only; what a
  fallback with the other profile would have reserved is within a factor of four
  one way and a token for every four spaces the other.
  `InvAcceptedCostBounded`: what passes every check costs at least its overhead
  and no more than the limits allow. `InvSmokeIsServed`: exactly which command
  lines and environments let the local script's own smoke request through.
- `FallbackCorrect`, `SlotCoversBackend`, `Settled`, `CountedAsSent`,
  `StreamObserved`, `RequestEnds`: one request, on every path: the response is
  the first success or the last failure with its code, the metrics
  count what was sent under its status and reason, and the lease is settled once.
  What can be left behind is a slot or a connection by the two departures of its
  client, and a slot by a DECR that raised; the latter is never behind a response
  that looks like a success. Every response but a bare 500 has an id. A request ends,
  with or without its client, unless it waits at a yield for a client that stays
  and does not read, with its slot held.
- `OutputExact`, `CountExact`, `FirstContentOnce`: independence from chunking.
- `RejectionsAreOverlaps`: at a level within the limit a request is rejected only
  while the gateway holds the slot of one nobody waits for any more, a stream
  left at `[DONE]` or a request that timed out. `BreakdownsAddUp`,
  `EveryLevelReported`: no result of a level is lost.
- `NoOrphans`, `MockOutlivesGateway`, `SuccessIsComplete`, `MainEnds`: the script.
  `CtrlCEndsServices`: Ctrl-C in the terminal ends both services at whatever step
  it comes, also if `demo_portfolio` kills the script before its clean-up. The
  first two except an interrupted clean-up, the last the service that is forked
  at the very moment of the Ctrl-C.

Every property of a passing run has a mutant in `PROJECT.json`: a plausible
mistake in the named definition, defined before it and commented "Mutant",
under which TLC finds the property violated.

### Where the documentation promises more than the code keeps

Four runs expect a violation and quote the sentence they check.

- `docs/configuration.md:33` calls the limit one on simultaneous in-flight
  requests. A stream that lives longer than 3600 s after the last acquire is
  forgotten when the key expires, and its DECR then makes the recreated
  counter negative (`MCLeaseLongStream`). What does hold is
  `AdmittedWithinLimit`.
- `docs/api_usage.md:39` says every response has an `X-Request-ID`. An
  exception that no handler knows (a Redis error, a backend body that is not
  JSON, a setting that does not parse) is answered outside the middlewares
  (`MCChatNoId`); such a response is not counted either.
- `docs/api_usage.md:269` says backend failures become error envelopes. A 200
  that is not JSON and a stream that breaks do not (`MCChatNoEnvelope`).
- `docs/api_usage.md:193` says streamed model names are rewritten. A content
  with a line separator that JSON leaves alone and `str.splitlines` does not
  is cut in two (`MCStreamModel`).

Seen while modelling and covered by the models' behaviours, without a run of
their own: a DECR that fails is not retried, so the slot stays taken until the
key expires, and every later acquire, a rejected one included, renews the key;
a rejected request occupies the counter until its own DECR, so a burst can
reject requests while fewer than `Limit` are admitted; a command delayed past
its key's expiry starts the minute's count anew; a streamed benchmark at the
limit can be rejected by slots of streams it has finished reading; with the
default settings 64000 characters pass the request limits and may cost more than
the 60000 tokens of a minute, a request that no retry can get accepted; an API
key that is not ASCII, the client's or one configured before the client's,
is answered with a bare 500; a client that stays connected and does not read its
stream keeps its slot for as long as it likes, since the sending of a chunk has no
timeout; the tokenizer file of a model that is missing at
its first request is ignored until a restart.

## 4. Fairness

Safety runs use none. `MCLeaseRace` assumes weak fairness of each request's own
steps for which it waits only for the event loop, Redis and the backend (`Proceed`):
the loop resumes every ready coroutine, every Redis command returns or raises, and a
backend call is bounded by the timeouts of the settings. The end of a stream
(`EndStream`) is not among them, since between two chunks the generators wait for
the client to read, with the slot held, and nothing bounds that wait. Clients need not come back, and mishaps need not happen; `Tick` is
not fair. `MCChatHandler` assumes the same of the one request it follows, and that a
backend's stream is not endless. The client owes nothing: it need not leave, and
while it stays it need not read, so `Resume` is not fair; `RequestEnds` says what
that leaves. `MCBenchmarkRun` assumes that the two event
loops go on (`Proceed`), but no timeout. `MCLocalE2E` assumes that the script
goes on, that a signal takes effect (SIGTERM and SIGINT only if the child's event
loop runs, SIGKILL always), and that a write to a pipe without a reader fails.
Crashes, interrupts and kills need not happen, and a service need not come up.

## 5. What is proved

Eight modules hold theorems. They hold for every value of the constants that the
named assumption of the module they extend allows, and those say no more than
the code: a limit or a window is positive since the settings declare it so, sets
are finite, a route is a sequence of targets with positive weights
(`HandlerAssumption`), the backend's text consists of the symbols the modelled code
tells apart (`StreamAssumption`), the levels of a benchmark are positive numbers, at least one
(`BenchmarkAssumption`), no target of a route is without a name (`ChatPlanAssumption`;
`parse_model_route` refuses one). Each module about a state machine states an
inductive invariant `IInv` as a conjunction of named parts, shows that `Init`
establishes it and every action preserves it (one lemma per action or kind of
action), and reads the properties off its parts. TLC checks the same formulas, or
the parts that are new in `IInv`, on the instances of section 3.

### ConcurrencyLease_proofs

| Theorem | Statement |
|---|---|
| `TypeCorrect` | `Spec => []TypeOK` |
| `CounterCorrect` | `Spec => []CounterAccounts` |
| `LimitCorrect` | `Spec => []AdmittedWithinLimit` |
| `LeaseImplementsPool` | `Spec => ImplementsPool` |
| `ExpiryCorrect` | `Spec => ExpiryOnlyRacesAcquire`, if `Deadline < TTL` |
| `RejectionsHaveACause` | `Spec => RejectedWhileFull` |
| `PositiveCounterHeals` | `Spec => []PositiveCounterExpires` |

`AdmittedWithinLimit` is not inductive: whether `Incr` may admit depends on
`val`, so the invariant must say what `val` is worth. `IInv` therefore joins the
types, the accounting of the counter, the absence of silent leaks and the bound on
the admitted requests. Each action is a lemma (`IncrPreserves`,
`ExpirePreserves`, `GiveBackPreserves`, `CrashPreserves`, `LoseKeyPreserves`,
`TickPreserves`, and `QuietMove` for those that touch neither counter nor role),
resting on `GotoSizes`: moving one request changes the counted and the admitted
sets by at most that request. The refinement needs one lemma per effect on the
pool: a step that shrinks the admitted set is a `GiveBack`, `Incr` within the
limit is a `Grant`, a lost key is a `Forget`. `ExpiryCorrect` adds an invariant
of its own: a request that is counted and past its EXPIRE is older than the time
since the key was last renewed (the lemmas on `Renews`), so with
`Deadline < TTL` a key about to expire has none. `RejectionsHaveACause` follows from
the accounting: only an INCR that finds the counter at the limit leads to a
rejection (`RejectionIsIncr`), and `CounterAccounts` says what fills it.
`PositiveCounterHeals` joins
`IInv` for the same reason as the limit: without a time to live the counter is
positive only through requests that `CounterAccounts` counts, and only an `Incr`
that is still to send its EXPIRE makes it so.

### WindowLimiter_proofs

| Theorem | Statement |
|---|---|
| `WellTyped` | `Spec => []TypeOK` |
| `RequestsLimited` | `Spec => []RequestsPerLife` |
| `TokensLimited` | `Spec => []TokensPerLife` |
| `NobodyTurnedAwayEarly` | `Spec => []RejectionsJustified` |
| `CountersGetTheirTTL` | `Spec => []CountersExpire` |
| `TwoLivesAtMost` | `Spec => []AtMostTwoLives` |
| `BurstsBounded` | `Spec => []BurstBound` |

The code treats both counters alike, so the argument is made once, for a kind
`k` of counter that a request raises by its `Price`. What a life lets pass is
bounded because the counter is at least the sum of the prices of the requests it
counted (`Accounts`), and exactly that sum while nothing failed, which is what
`NobodyTurnedAwayEarly` needs; `Charges` says that a request is counted once and
in a life that exists, `Keys` that a missing key counts nothing, `Affordable`
that a request which alone exceeds the limit never sends the command. The actions
fall into four shapes (`CountStep`, `LoseStep`, `RenewStep`, `QuietStep`), and
one lemma each shows what a step of that shape does to one counter.

The second half of the module adds time: when a command was sent (`Sent`), when the lives
of a counter begin and end (`Lives`) and when a request was counted in them
(`ChargeTimes`), under the hypothesis `MaxDelay < Window` that the properties
carry themselves. `AtMostTwoLives` is a part of `Lives`. For `BurstBound` the
invariant needs `LateStart`: a life that ends within a span had, at most one
window before its end, its EXPIRE, and its creator was counted before that; so
of the limit's worth of requests at least one passed before the span. A span
meets the counters of three minutes, the first two with at most two lives that
together let `2 * RequestLimit - 1` pass (`TwoLivesInASpan`), the third with one.
An attempt to prove the bound this specification stated before, less than
`3 * RequestLimit`, failed on a counter of the last minute and then on TLC: with
delays of two ticks or more it is false.

Both halves rest on the sums of `FoldLemmas`.

### FoldLemmas

| Theorem | Statement |
|---|---|
| `SumOfClasses` | the sizes of the classes of a function add up to the size of their union |

Sums over finite sets as `MapThenSumSet` computes them, and folds over sequences as
`FoldLeft` does. What a fold computes for every set or sequence is an induction; the
library's induction theorems take operators as parameters, which the provers cannot
instantiate, so `SubsetInduction` states induction over the subsets of a finite set
for a set of sets `P`, from the fact that the strict subset ordering is
well-founded, and `SeqInduction` induction over sequences for a set of sequences.
`SumAdd`, `SumOfClasses`, `SumOfOnes` and `SumMonotone` follow by the first.

`FoldLeft` is the value of a recursive function on sets of indices. That function
exists and is unique (`FoldExists`, `SameRecursion`), has its values where the
step has (`FoldType`), and takes one step more over `Append(t, c)` (`FoldOfAppend`).
`FoldSteps` gathers this for a step `G` given as a function on pairs, and
`SameAsFold` says that a recursion that does what `G` does computes the fold of `G`;
a definition of the specification becomes such a fold by a lemma that expands it.

### ChatPlan_proofs

| Theorem | For every | Invariant of `MCChatPlan` |
|---|---|---|
| `WeightsAreExact` | route | `WeightsInvariant`: `Spec => []InvWeightsExact` |
| `AttemptsAreTheTargets` | route that is not empty, and hash | `AttemptsInvariant`: `Spec => []InvAttemptsAreTargets` |
| `ListedIsResolvable` | pair of settings, default model with a name, name and hash | `ListedInvariant`: `Spec => []InvListedIffResolvable` |
| `TextReservesItsLength`, `CountReservesItsLength` | text, profile, entries of the two settings and names of models | `ReservesInvariant`: `Spec => []InvReservesItsLength` |
| `ProfilesAgreeOnText` | text | `ProfilesInvariant`: `Spec => []InvProfilesAgree` |
| `AcceptedCostIsBounded` | request and limits, also negative ones | `AcceptedCostInvariant`: `Spec => []InvAcceptedCostBounded` |
| `SmokeTestIsServed` | key, model, environment and hash | `SmokeInvariant`: `Spec => []InvSmokeIsServed` |

What `MCChatPlan` enumerates is a small part of what the functions of
`ModelRouting`, `TokenAccounting` and `Admission` are called with; the theorems on
the left say the same of all routes, texts, requests and settings. They are about
functions and not about steps, so the inductive invariant is only that the inputs
have the types the theorems need (`PlanTypeInvariant`: `Spec => []PlanType`), and
each invariant follows from the general theorem. The length of a text, the number of
targets and the weights are arbitrary there.

The loops of the code are folds, and each section begins with what one more
element does to its fold.

- Routes: the running weight grows (`RunningGrows`), and a target is selected by the
  slots between the running weight before it and its own (`SelectedIff`); their
  number is its weight. This holds for targets of weight 0 too, which
  `parse_model_route` refuses. The indices that are not chosen are those before and
  those after it (`KeptOfUpto`), which gives the order of attempts.
- Texts: the proofs do not follow the segments of the qwen2 profile one by one but
  measure them. The lengths of the segments add up to the length of the text, those of
  the seen ones (letters, digits, Chinese characters and marks) to the number of
  seen characters (`SegmentsMeasure`), and every start of a word as the estimate counts
  them begins a seen segment (`WordsOfSegments`). `GrowMeasures` is the step: a
  character makes the last segment longer or begins another. `TokensOfSegment` bounds
  the tokens of a segment by its measures, so the count of a text is bounded by the
  sums. `StripCounts` shows that stripping loses spaces only.
- Requests: the order of the checks gives what an accepted request satisfies
  (`AcceptedRequest`); `CostsBounded` adds up the costs of its messages, `CharsOf` the
  characters the limit counts.
- The smoke test: a key without a comma is the one part of the setting it becomes
  (`PartsOfPlain`, `KeysOfSetting`); `KeyIsAllowed` says for which keys the
  gateway accepts what the script sends.

### ChatHandler_proofs

| Theorem | Statement |
|---|---|
| `WellTyped` | `Spec => []TypeOK` |
| `FallbackFollowsThePlan` | `Spec => []FallbackCorrect` |
| `SlotHeldWhileBackendWorks` | `Spec => []SlotCoversBackend` |
| `NothingLeftBehind` | `Spec => []Settled` |
| `MetricsMatchResponse` | `Spec => []CountedAsSent` |
| `DurationObservedOnce` | `Spec => []StreamObserved` |

The properties speak of the end of a request; the invariant adds what it holds at
every stage before (`Stages`: no lease before the limiter, a held lease at every
attempt and while a stream is read, whose connection is open or, for the rest of a
buffer, just closed), what only
a client that left can have left (`Departures`), and when the metrics are recorded and
the id is set (`Records`: a 413 has its id before the way out, a stream before its
first chunk). The route and the number of chunks are arbitrary.

### StreamText_proofs

| Theorem | Statement |
|---|---|
| `OutputIndependentOfChunks` | `Spec => []OutputExact` |
| `ContentCountedOnce` | `Spec => []CountExact` |
| `FirstContentObservedOnce` | `Spec => []FirstContentOnce` |

They hold for texts of any length, any number of events and any cut into chunks.
Neither `OutputExact` nor `CountExact` is inductive: they compare texts, and a step
moves one event or one chunk. `InStep` says that the text read so far and the buffer
are inside the same event, and that what was sent, with the events still in the
buffer, is what the events read so far are worth; once the rest of a text that ends
inside an event is sent, `AtEnd` takes its place. `Counting` says that what the
observer holds is the rest of what the client was sent.

What carries the steps is `SplitConcat`: splitting a text, and then its rest together
with what comes after it, gives the events of the whole, so that the cut is of no
matter; and `FirstEvent`: a text with an event is that event, its empty line, and a
text with the other events. `Split`, `Lines`, `RewriteEvent` and `ContentOf` are
folds, so what they do with one more symbol is shown first, by `FoldLemmas`.

### BenchmarkRun_proofs

| Theorem | Statement |
|---|---|
| `SummariesAddUp` | `Spec => []BreakdownsAddUp` |
| `RejectionsExplained` | `Spec => RejectionsAreOverlaps` |

A rejection needs `Limit` slots held; a level within the limit has one permit less
than that for all others. So the action property needs `WithinWidth` (the semaphore
bounds the coroutines at the gateway) and `OrphansHaveACause` (only streams and
timeouts leave a handler behind). That the breakdown by status adds up is
`SumOfClasses` on the results.

### LocalE2E_proofs

| Theorem | Statement |
|---|---|
| `NoServiceLeft` | `Spec => []NoOrphans` |
| `MockStopsLast` | `Spec => []MockOutlivesGateway` |
| `SuccessMeansAll` | `Spec => []SuccessIsComplete` |

`NoOrphans` speaks of the end; the invariant says that before it whatever runs is in
the list of processes, or is the one just started (`StartedInOrder`,
`StopsWhatItStarted`), so that the clean-up, which takes the list from its end and
leaves a process only when it has ended, leaves none. The list has one of three
values (`Lists`), which is why its order proves `MockStopsLast`.

### Only model-checked

- Every liveness property (`EveryRequestEnds`, `RequestEnds`, `EveryLevelReported`,
  `MainEnds`, `CtrlCEndsServices`): fairness and ENABLED are out of the prover's
  reach.
- The four runs that expect a violation.

## 6. What is abstracted, and what is not modelled

- Rate limiting is on. With rate limiting off no lease exists.
- Redis applies a command at most once: redis-py's own retries are not
  modelled. EXPIRE and the clock of Redis advance with the requests' clock.
- uvicorn and Starlette: a handler that has not answered is not cancelled when
  its client leaves; a response's generators may be cancelled at an await, left
  unstarted, or finalized by the event loop while suspended at a yield. uvicorn
  waits for room in its write buffer before it writes, and a client has read the
  earlier responses of its connection: so a stream can wait for its client at a
  chunk, and a plain response only at its end, when nothing of the handler is left.
- JSON, SHA-256, tokenizer files, percentiles and file formats are data. A tokenizer
  setting that does not parse and a file that exists and cannot be read both raise:
  they are part of the exception of `ChatHandler`'s `Limit`.
- Line ends with a carriage return: the backends this gateway is written for
  separate events by two newlines.
- Benchmark: connection pool limits of httpx are above the levels in use.
- Local script: `Popen` itself does not fail, and no foreign program takes the
  ports between the check and the start.
- Partly modelled: of readiness and model listing, `/ready` and what is listed,
  not the static `/health` and `/metrics`; of settings and schemas, what parses,
  refuses or decides, not the defaults and the ranges of single fields (these are
  the assumptions on the constants); of the mock backend, its stream, since its
  plain completion is one record; of the benchmark runner, not its prompts,
  percentiles and output files.
- Not modelled: the benchmark reports (`compare_results`, `generate_report`,
  `collect_*`, `sample_*`: tables and averages computed from files already
  written, without state or control that outlives a call); `warmup_gateway`, the
  smoke tests and `check_release_version` (linear clients and a comparison of two
  strings); the deployment files (declarations).
- A foreign server that takes a port between the local script's check and its
  start, and answers like a service, is not an actor of `LocalE2E`.

## 7. Plan

Order followed so far: the concurrency limit with its abstraction and proofs;
the windows; routing and the chat handler; streamed text; token accounting; the
two tools; the checks before routing, the backend client and the mock backend;
the local script under its parent and in its terminal; the proofs about the
windows, the chat handler, the streamed text, the benchmark and the local script;
the proofs about routing, token costs and admission.
What is left:

1. Composition of `ChatHandler` and `ConcurrencyLease` for two requests, so
   that `Settled` and `CounterAccounts` meet in one run.
2. A service of `LocalE2E` whose port a foreign server has taken.

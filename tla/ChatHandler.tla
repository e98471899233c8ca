----------------------------- MODULE ChatHandler -----------------------------
(***************************************************************************)
(* One POST /v1/chat/completions through the gateway: the middlewares of   *)
(* create_app (metrics outermost, then logging, body size, request id),    *)
(* the dependencies and create_chat_completion, BackendClient's attempts,  *)
(* the stream's generators, and the way out again.  Requests share nothing *)
(* here but the limiter, whose counters ConcurrencyLease and WindowLimiter *)
(* model; this module only says what becomes of the request's own lease.   *)
(***************************************************************************)
EXTENDS Integers, Sequences, ModelRouting, BackendClient

CONSTANTS
  Targets,       (* the route of the requested model                        *)
  MaxChunks      (* bound: chunks a stream delivers                         *)

ASSUME HandlerAssumption ==
  /\ Targets \in Seq([model : STRING, weight : Nat]) /\ IsRoute(Targets)
  /\ MaxChunks \in Nat \ {0}

VARIABLES
  metrics,     (* settings.metrics_enabled                                  *)
  pc,          (* where the request is: see Labels                          *)
  stream,      (* request.stream                                            *)
  plan,        (* route_selection.backend_models                            *)
  tried,       (* history: how the attempts failed, in order                *)
  lease,       (* the slot: none, held, released, unsure (the DECR raised),  *)
               (* lost (nobody is left to release it)                       *)
  conn,        (* the httpx client of an opened stream                      *)
  chunks,      (* chunks delivered to the client                            *)
  resp,        (* the response being built or sent                          *)
  counted,     (* what the metrics middleware counted: the status label of  *)
               (* HTTP_REQUESTS_TOTAL and the reason label of               *)
               (* HTTP_REJECTIONS_TOTAL, or NotCounted                      *)
  observed,    (* STREAM_DURATION_SECONDS: the status labels observed       *)
  gone         (* the client has disconnected                               *)

vars == <<metrics, pc, stream, plan, tried, lease, conn, chunks, resp, counted, observed, gone>>

\*   arrive    before the middlewares        validate  at create_chat_completion
\*   limit     at enforce_chat_rate_limit    attempt   about to call the backend
\*   finally   leaving through the finally clause with resp
\*   raise     an exception no handler knows is on its way out
\*   out       a response is on its way out through the middlewares
\*   unstarted response headers sent, wrap_stream not yet entered
\*   reading   the generators await the backend, or after its end run to theirs
\*   yielded   the generators are suspended at their yields
\*   closing   wrap_stream's finally clause is next
\*   finalize  the generators inside wrap_stream are finalized next
\*   done      nothing of the request is left to run
Labels == {"arrive", "validate", "limit", "attempt", "finally", "raise", "out",
           "unstarted", "reading", "yielded", "closing", "finalize", "done"}

\* code: of the ErrorResponse that is the body, and X-Gateway-Error-Code, or
\* "none"; id: X-Request-ID is set; complete: the body was sent to its end.
Response(status, code) ==
  [status |-> status, code |-> code, id |-> FALSE, complete |-> FALSE]
NoResponse == Response(0, "none")
NotCounted == [status |-> 0, reason |-> "none"]

\* Of an error whose response has no code the reason is "unknown".
Reason(r) == IF r.status < 400 THEN "none" ELSE IF r.code = "none" THEN "unknown" ELSE r.code

\* The end of observe_streaming_chunks.
Observe(status) == observed' = IF metrics THEN Append(observed, status) ELSE observed

-----------------------------------------------------------------------------
(* Which failure leads to another attempt                                  *)

FALLBACK_STATUS_CODES == {404, 429, 502, 503, 504}

\* Mutant: the last backend is followed by another one.
ShouldTryOneMore(status, attempt) ==
  attempt <= Len(plan) /\ status \in FALLBACK_STATUS_CODES

ShouldTryNextBackend(status, attempt) ==
  attempt < Len(plan) /\ status \in FALLBACK_STATUS_CODES

-----------------------------------------------------------------------------
(* The way in                                                              *)

\* Mutant: the answer of the size check is left without its id.
BodyTooLargeWithoutId ==
  /\ pc = "arrive"
  /\ resp' = Response(413, "request_body_too_large")
  /\ pc' = "out"
  /\ UNCHANGED <<metrics, stream, plan, tried, lease, conn, chunks, counted, observed, gone>>

\* request_body_size_middleware answers itself, outside request_id_middleware,
\* and sets the header itself.
BodyTooLarge ==
  /\ pc = "arrive"
  /\ resp' = [Response(413, "request_body_too_large") EXCEPT !.id = TRUE]
  /\ pc' = "out"
  /\ UNCHANGED <<metrics, stream, plan, tried, lease, conn, chunks, counted, observed, gone>>

\* The framework and the dependencies: require_api_key (401), a body that cannot
\* be read (400) and the request schema (422, both with the framework's own body).
Refuse ==
  /\ pc = "arrive"
  /\ resp' \in {Response(401, "invalid_api_key"), Response(400, "none"), Response(422, "none")}
  /\ pc' = "out"
  /\ UNCHANGED <<metrics, stream, plan, tried, lease, conn, chunks, counted, observed, gone>>

\* compare_digest raises TypeError for a key that is not ASCII.
AuthRaises ==
  /\ pc = "arrive"
  /\ pc' = "raise"
  /\ UNCHANGED <<metrics, stream, plan, tried, lease, conn, chunks, resp, counted, observed, gone>>

Accept ==
  /\ pc = "arrive"
  /\ stream' \in BOOLEAN
  /\ pc' = "validate"
  /\ UNCHANGED <<metrics, plan, tried, lease, conn, chunks, resp, counted, observed, gone>>

\* validate_chat_request_limits, or an unknown model.
Invalid ==
  /\ pc = "validate"
  /\ \E code \in {"too_many_messages", "chat_message_too_large", "chat_messages_too_large",
                  "model_not_found"} :
       resp' = Response(400, code)
  /\ pc' = "out"
  /\ UNCHANGED <<metrics, stream, plan, tried, lease, conn, chunks, counted, observed, gone>>

Route ==
  /\ pc = "validate"
  /\ \E slot \in Slots(Targets) : plan' = SelectModelRoute(Targets, slot)
  /\ pc' = "limit"
  /\ UNCHANGED <<metrics, stream, tried, lease, conn, chunks, resp, counted, observed, gone>>

\* A routing setting that does not parse: ValueError has no handler.
RouteRaises ==
  /\ pc = "validate"
  /\ pc' = "raise"
  /\ UNCHANGED <<metrics, stream, plan, tried, lease, conn, chunks, resp, counted, observed, gone>>

\* rate_limit_exception_handler.
RateLimitCode(kind) ==
  CASE kind = "tokens"      -> "token_rate_limit_exceeded"
    [] kind = "concurrency" -> "concurrent_request_limit_exceeded"
    [] kind = "requests"    -> "rate_limit_exceeded"

\* Mutant: a request over the limit is tried again instead of answered.
LimitRetries ==
  /\ pc = "limit"
  /\ \/ lease' = "held" /\ pc' = "attempt"
     \/ pc' = "validate" /\ UNCHANGED lease
  /\ UNCHANGED <<metrics, stream, plan, tried, conn, chunks, resp, counted, observed, gone>>

\* RateLimitExceeded has a handler; a Redis error, a tokenizer setting that
\* does not parse (ValueError of the two loaders) or a tokenizer file that
\* Tokenizer.from_file cannot read has none.  The tokens are counted before
\* anything is acquired; after that enforce_chat_rate_limit has settled what it
\* acquired (ConcurrencyLease).
Limit ==
  /\ pc = "limit"
  /\ \/ lease' = "held" /\ pc' = "attempt" /\ UNCHANGED resp
     \/ /\ \E kind \in {"requests", "tokens", "concurrency"} :
             resp' = Response(429, RateLimitCode(kind))
        /\ pc' = "out" /\ UNCHANGED lease
     \/ pc' = "raise" /\ UNCHANGED <<resp, lease>>
  /\ UNCHANGED <<metrics, stream, plan, tried, conn, chunks, counted, observed, gone>>

-----------------------------------------------------------------------------
(* The attempts                                                            *)

\* BackendClientError: the next backend, or backend_error_response.
AttemptFails ==
  /\ pc = "attempt"
  /\ \E f \in Failure :
       /\ tried' = Append(tried, f)
       /\ IF ShouldTryNextBackend(StatusOf(f), Len(tried) + 1)
          THEN UNCHANGED <<pc, resp>>
          ELSE pc' = "finally" /\ resp' = Response(StatusOf(f), CodeOf(f))
  /\ UNCHANGED <<metrics, stream, plan, lease, conn, chunks, counted, observed, gone>>

\* What is raised is not a BackendClientError: by response.json() or the
\* assignment to response["model"], or by httpx before there is a response.
AttemptRaises ==
  /\ pc = "attempt"
  /\ resp' = NoResponse
  /\ pc' = "finally"
  /\ UNCHANGED <<metrics, stream, plan, tried, lease, conn, chunks, counted, observed, gone>>

Complete ==
  /\ pc = "attempt"
  /\ ~stream
  /\ resp' = Response(200, "none")
  /\ pc' = "finally"
  /\ UNCHANGED <<metrics, stream, plan, tried, lease, conn, chunks, counted, observed, gone>>

\* Mutant: the flag is not set, so the finally clause releases the lease.
OpenStreamDisowned ==
  /\ pc = "attempt"
  /\ stream
  /\ conn' = "open"
  /\ resp' = Response(200, "none")
  /\ pc' = "finally"
  /\ UNCHANGED <<metrics, stream, plan, tried, lease, chunks, counted, observed, gone>>

\* stream_owns_rate_limit_lease = True: the finally clause does nothing.
OpenStream ==
  /\ pc = "attempt"
  /\ stream
  /\ conn' = "open"
  /\ resp' = Response(200, "none")
  /\ pc' = "out"
  /\ UNCHANGED <<metrics, stream, plan, tried, lease, chunks, counted, observed, gone>>

\* Mutant: the lease is released after the loop, not in a finally clause.
FinallyOnReturnOnly ==
  /\ pc = "finally"
  /\ IF resp = NoResponse
     THEN pc' = "raise" /\ UNCHANGED lease
     ELSE pc' = "out" /\ lease' = "released"
  /\ UNCHANGED <<metrics, stream, plan, tried, conn, chunks, resp, counted, observed, gone>>

\* The finally clause of create_chat_completion.  If the DECR raises, the
\* exception replaces the response, also that of a completion that succeeded.
Finally ==
  /\ pc = "finally"
  /\ \/ /\ lease' = "released"
        /\ pc' = IF resp = NoResponse THEN "raise" ELSE "out"
     \/ /\ lease' = "unsure"
        /\ pc' = "raise"
  /\ UNCHANGED <<metrics, stream, plan, tried, conn, chunks, resp, counted, observed, gone>>

-----------------------------------------------------------------------------
(* The way out                                                             *)

\* The answer of the size check is the one that does not come from inside
\* request_id_middleware.
PassesRequestId(r) == r.code # "request_body_too_large"

\* request_id_middleware sets the header, the metrics middleware counts, once
\* the response's headers pass them; a body that is not a stream follows.
Respond ==
  /\ pc = "out"
  /\ counted' = IF metrics THEN [status |-> resp.status, reason |-> Reason(resp)] ELSE NotCounted
  /\ resp' = [resp EXCEPT !.id = (@ \/ PassesRequestId(resp)), !.complete = (conn = "none")]
  /\ pc' = IF conn = "none" THEN "done" ELSE "unstarted"
  /\ UNCHANGED <<metrics, stream, plan, tried, lease, conn, chunks, observed, gone>>

\* The exception passes every middleware, whose code after call_next does not
\* run, and Starlette's outermost handler answers.
Raise ==
  /\ pc = "raise"
  /\ resp' = [Response(500, "none") EXCEPT !.complete = TRUE]
  /\ pc' = "done"
  /\ UNCHANGED <<metrics, stream, plan, tried, lease, conn, chunks, counted, observed, gone>>

-----------------------------------------------------------------------------
(* The stream: wrap_stream over observe_streaming_chunks over              *)
(* rewrite_sse_model_events over BackendStream.aiter_text                  *)

StartStream ==
  /\ pc = "unstarted"
  /\ pc' = "reading"
  /\ UNCHANGED <<metrics, stream, plan, tried, lease, conn, chunks, resp, counted, observed, gone>>

YieldChunk ==
  /\ pc = "reading" /\ conn = "open"
  /\ chunks < MaxChunks
  /\ chunks' = chunks + 1
  /\ pc' = "yielded"
  /\ UNCHANGED <<metrics, stream, plan, tried, lease, conn, resp, counted, observed, gone>>

\* The backend's stream has ended inside an event: aiter_text closes the
\* connection before rewrite_sse_model_events yields the rest.
YieldRest ==
  /\ pc = "reading" /\ conn = "open"
  /\ chunks < MaxChunks
  /\ chunks' = chunks + 1
  /\ conn' = "closed"
  /\ pc' = "yielded"
  /\ UNCHANGED <<metrics, stream, plan, tried, lease, resp, counted, observed, gone>>

\* The server has taken the chunk: its buffer has room, or the client has read.
\* Nothing bounds how long that takes while the client stays.
Resume ==
  /\ pc = "yielded"
  /\ pc' = "reading"
  /\ UNCHANGED <<metrics, stream, plan, tried, lease, conn, chunks, resp, counted, observed, gone>>

\* Mutant: the duration is observed after the loop, not in a finally clause.
EndOfStreamObservesSuccess ==
  /\ pc = "reading"
  /\ conn' = "closed"
  /\ \/ Observe("completed") /\ resp' = [resp EXCEPT !.complete = TRUE]
     \/ conn = "open" /\ UNCHANGED <<observed, resp>>
  /\ pc' = "closing"
  /\ UNCHANGED <<metrics, stream, plan, tried, lease, chunks, counted, gone>>

\* The backend's stream ends, or it breaks (an httpx error that nothing
\* converts): the finally clauses of aiter_text and observe_streaming_chunks.
\* After YieldRest nothing is left that could break.
EndOfStream ==
  /\ pc = "reading"
  /\ conn' = "closed"
  /\ \/ Observe("completed") /\ resp' = [resp EXCEPT !.complete = TRUE]
     \/ conn = "open" /\ Observe("interrupted") /\ UNCHANGED resp
  /\ pc' = "closing"
  /\ UNCHANGED <<metrics, stream, plan, tried, lease, chunks, counted, gone>>

\* The finally clause of wrap_stream; if the DECR raises, the exception ends
\* the response before its last, empty, body message.
ReleaseStream ==
  /\ pc = "closing"
  /\ \/ lease' = "released" /\ UNCHANGED resp
     \/ lease' = "unsure" /\ resp' = [resp EXCEPT !.complete = FALSE]
  /\ pc' = "done"
  /\ UNCHANGED <<metrics, stream, plan, tried, conn, chunks, counted, observed, gone>>

\* The client leaves before the generator is entered: no finally clause of
\* the chain is ever run.
DisconnectUnstarted ==
  /\ pc = "unstarted"
  /\ gone' = TRUE
  /\ lease' = "lost"
  /\ conn' = "abandoned"
  /\ pc' = "done"
  /\ UNCHANGED <<metrics, stream, plan, tried, chunks, resp, counted, observed>>

\* The client leaves while the backend is awaited: the finally clauses run,
\* but every await of theirs may be cancelled.
DisconnectReading ==
  /\ pc = "reading" /\ conn = "open"
  /\ gone' = TRUE
  /\ conn' \in {"closed", "abandoned"}
  /\ Observe("interrupted")
  /\ lease' \in {"released", "unsure"}
  /\ pc' = "done"
  /\ UNCHANGED <<metrics, stream, plan, tried, chunks, resp, counted>>

\* The client leaves while a chunk is being sent: the event loop finalizes the
\* suspended generators from the outside in, the lease's owner first.
DisconnectYielded ==
  /\ pc = "yielded"
  /\ gone' = TRUE
  /\ lease' \in {"released", "unsure"}
  /\ pc' = "finalize"
  /\ UNCHANGED <<metrics, stream, plan, tried, conn, chunks, resp, counted, observed>>

\* Mutant: both the except and the finally clause observe the duration.
FinalizeInnerTwice ==
  /\ pc = "finalize"
  /\ observed' = observed \o <<"interrupted", "interrupted">>
  /\ conn' = "closed"
  /\ pc' = "done"
  /\ UNCHANGED <<metrics, stream, plan, tried, lease, chunks, resp, counted, gone>>

FinalizeInner ==
  /\ pc = "finalize"
  /\ Observe("interrupted")
  /\ conn' = "closed"
  /\ pc' = "done"
  /\ UNCHANGED <<metrics, stream, plan, tried, lease, chunks, resp, counted, gone>>

-----------------------------------------------------------------------------
Init ==
  /\ metrics \in BOOLEAN
  /\ pc = "arrive"
  /\ stream = FALSE
  /\ plan = << >>
  /\ tried = << >>
  /\ lease = "none"
  /\ conn = "none"
  /\ chunks = 0
  /\ resp = NoResponse
  /\ counted = NotCounted
  /\ observed = << >>
  /\ gone = FALSE

\* The steps for which the request waits only for the event loop, Redis and the
\* backend.
Proceed ==
  \/ BodyTooLarge \/ Refuse \/ AuthRaises \/ Accept \/ Invalid \/ Route \/ RouteRaises \/ Limit
  \/ AttemptFails \/ AttemptRaises \/ Complete \/ OpenStream \/ Finally
  \/ Respond \/ Raise
  \/ StartStream \/ YieldChunk \/ YieldRest \/ EndOfStream \/ ReleaseStream
  \/ FinalizeInner

\* Those of a client that stays, and reads, or leaves.
Next == Proceed \/ Resume \/ DisconnectUnstarted \/ DisconnectReading \/ DisconnectYielded

Spec == Init /\ [][Next]_vars

\* The event loop resumes a ready coroutine, calls of Redis and of the backend
\* return or time out, and a stream's length is bounded.  The client owes
\* nothing: it need not leave, and while it stays it need not read.
FairSpec == Spec /\ WF_vars(Proceed)

-----------------------------------------------------------------------------
(* Properties                                                              *)

TypeOK ==
  /\ pc \in Labels
  /\ metrics \in BOOLEAN /\ stream \in BOOLEAN /\ gone \in BOOLEAN
  /\ Len(plan) \in {0, Len(Targets)}
  /\ \A i \in DOMAIN tried : tried[i] \in Failure
  /\ lease \in {"none", "held", "released", "unsure", "lost"}
  /\ conn \in {"none", "open", "closed", "abandoned"}
  /\ chunks \in 0 .. MaxChunks
  /\ counted \in {NotCounted, [status |-> resp.status, reason |-> Reason(resp)]}
  /\ Len(observed) <= 1

\* Every backend is tried at most once and only after a fallback-eligible
\* failure of the one before; a stream that opened or a response that came is
\* never followed by another attempt; and the request is given up with the
\* status and the code of the last failure, when no backend is left or it is
\* not eligible.
FallbackCorrect ==
  LET eligible(n) == \A i \in 1 .. n : StatusOf(tried[i]) \in FALLBACK_STATUS_CODES
      last == tried[Len(tried)]
  IN /\ Len(tried) <= Len(plan)
     /\ eligible(Len(tried) - 1)
     /\ pc = "attempt" \/ resp.status = 200 => eligible(Len(tried)) /\ Len(tried) < Len(plan)
     /\ resp.code # "none" /\ lease \in {"held", "released"} =>
          /\ resp.status = StatusOf(last) /\ resp.code = CodeOf(last)
          /\ Len(tried) = Len(plan) \/ ~eligible(Len(tried))

\* While the backend works for the request the request holds its slot: on
\* every path but a disconnect, wrap_stream's release comes after the
\* backend's stream is closed.
SlotCoversBackend == conn = "open" /\ ~gone => lease = "held"

\* When nothing of the request is left to run, its slot and its backend
\* connection have been given back, whichever way it ended.  There are two
\* exceptions.  A client that disconnected, before the first chunk or while the
\* backend was awaited, can leave either open.  And a DECR that raised has been
\* sent once and may not have been applied: then no response that looks like a
\* success was sent to its end, the client got a bare 500 or a body cut short.
Settled ==
  pc = "done" =>
    /\ lease # "held" /\ conn # "open"
    /\ lease = "lost" => gone /\ chunks = 0
    /\ conn = "abandoned" => gone
    /\ lease = "unsure" => ~resp.complete \/ (resp.status = 500 /\ ~resp.id)

\* Every response has its id, whichever middleware made it, but for the bare 500
\* of an exception that passed them all.  With metrics enabled exactly those
\* with an id are counted, under the status and the code they have; nothing is
\* counted before they are sent, and of a success there is no rejection.
CountedAsSent ==
  /\ counted # NotCounted =>
       /\ metrics /\ resp.id
       /\ counted.status = resp.status
       /\ counted.reason # "none" <=> resp.status >= 400
       /\ resp.code # "none" => counted.reason = resp.code
  /\ pc = "done" /\ resp.id /\ metrics => counted # NotCounted
  /\ pc = "done" /\ ~resp.id => resp.status = 500 /\ resp.code = "none"

\* With metrics enabled the duration of every stream whose generators were
\* entered is observed exactly once, as completed whenever the client got the
\* whole body.
StreamObserved ==
  pc = "done" /\ conn # "none" =>
    /\ Len(observed) = (IF lease = "lost" \/ ~metrics THEN 0 ELSE 1)
    /\ resp.complete /\ metrics => observed = <<"completed">>

\* Every request ends, with or without its client, unless the client stays and
\* stops reading: then the generators stay at a yield for ever, with the slot
\* held, since no timeout of the gateway bounds the sending of a chunk.
RequestEnds == <>(pc = "done") \/ <>[](pc = "yielded" /\ lease = "held")

-----------------------------------------------------------------------------
(* What the documentation says                                             *)

\* docs/api_usage.md:39: "Every response includes an `X-Request-ID` header."
EveryResponseHasId == pc = "done" => resp.id

\* docs/api_usage.md:269: "Backend failures are normalized into the same
\* OpenAI-style error envelope": without a Redis failure or a disconnect, the
\* client gets a complete completion or an envelope.
FailuresAreEnvelopes ==
  pc = "done" /\ lease = "released" /\ ~gone =>
    resp.code # "none" \/ (resp.status = 200 /\ resp.complete)

=============================================================================

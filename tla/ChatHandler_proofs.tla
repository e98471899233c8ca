--------------------------- MODULE ChatHandler_proofs ---------------------------
(***************************************************************************)
(* Proofs about ChatHandler for every route and every length of a stream:  *)
(* what one chat request does to its lease, its backend connection, its    *)
(* response and the metrics, on every path.                                *)
(***************************************************************************)
EXTENDS ChatHandler, SequenceTheorems, TLAPS

Entering  == {"arrive", "validate", "limit"}
Streaming == {"unstarted", "reading", "yielded"}

\* The codes of the error responses.
Codes == {"none", "request_body_too_large", "invalid_api_key", "too_many_messages",
          "chat_message_too_large", "chat_messages_too_large", "model_not_found",
          "token_rate_limit_exceeded", "concurrent_request_limit_exceeded",
          "rate_limit_exceeded", "backend_timeout", "backend_unavailable",
          "backend_rejected_request"}

Types ==
  /\ TypeOK
  /\ tried \in Seq(Failure)
  /\ resp \in [status : Nat, code : Codes, id : BOOLEAN, complete : BOOLEAN]

\* What a request holds at each stage of its way.
Stages ==
  /\ pc \in Entering => lease = "none" /\ tried = << >> /\ resp = NoResponse
  /\ pc = "limit" => Len(plan) = Len(Targets)
  /\ pc = "attempt" => lease = "held" /\ resp = NoResponse /\ Len(tried) < Len(plan)
  /\ pc = "finally" => lease = "held" /\ (resp = NoResponse \/ resp.status # 0)
  /\ pc = "raise" => lease \in {"none", "released", "unsure"}
  /\ pc \in Entering \cup {"attempt", "finally", "raise"} => conn = "none" /\ ~resp.id
  /\ pc = "out" =>
       /\ resp.status # 0
       /\ \/ conn = "open" /\ lease = "held" /\ resp.status = 200 /\ resp.code = "none"
          \/ conn = "none" /\ lease \in {"none", "released"}
  /\ pc \in Streaming => conn \in {"open", "closed"} /\ lease = "held"
  /\ pc = "closing" => conn = "closed" /\ lease = "held"
  /\ pc = "finalize" => conn \in {"open", "closed"} /\ lease \in {"released", "unsure"} /\ gone

\* Only a stream that was entered delivers chunks, only a client that left
\* leaves something open, and nothing of the handler runs after that but the
\* finalization of its generators.
Departures ==
  /\ pc \notin {"reading", "yielded", "closing", "finalize", "done"} => chunks = 0
  /\ gone => pc \in {"finalize", "done"}
  /\ lease = "lost" => gone /\ chunks = 0
  /\ conn = "abandoned" => gone

\* What the metrics have recorded at each stage.
Records ==
  /\ pc \in Entering \cup {"attempt", "finally", "raise", "out"} => counted = NotCounted
  /\ pc \notin {"closing", "done"} => observed = << >> /\ ~resp.complete
  /\ pc = "closing" =>
       /\ Len(observed) = (IF metrics THEN 1 ELSE 0)
       /\ resp.complete /\ metrics => observed = <<"completed">>
  /\ resp.code # "none" => resp.status >= 400
  /\ pc \in {"finally", "out"} /\ resp.code = "request_body_too_large" => resp.id
  /\ pc \in Streaming \cup {"closing", "finalize"} => resp.id
  /\ pc # "out" /\ resp.id /\ metrics => counted # NotCounted

IInv ==
  /\ Types /\ Stages /\ Departures /\ Records
  /\ FallbackCorrect /\ SlotCoversBackend /\ Settled /\ CountedAsSent /\ StreamObserved

-----------------------------------------------------------------------------
(* Operators                                                               *)

\* The error statuses of the backend client, and that its errors have codes.
LEMMA FailureFacts ==
  ASSUME NEW f \in Failure
  PROVE  /\ StatusOf(f) \in Nat /\ StatusOf(f) >= 400
         /\ CodeOf(f) \in Codes \ {"none", "request_body_too_large"}
<1>1. StatusOf(f) \in {400, 404, 429, 502, 504}
  BY DEF Failure, StatusOf
<1>2. CodeOf(f) \in {"backend_timeout", "backend_unavailable", "backend_rejected_request"}
  BY DEF Failure, CodeOf
<1>3. StatusOf(f) \in Nat /\ StatusOf(f) >= 400
  BY <1>1
<1>4. CodeOf(f) \in Codes \ {"none", "request_body_too_large"}
  BY <1>2 DEF Codes
<1> QED
  BY <1>3, <1>4

\* A plan has an attempt for every target of the route.
LEMMA PlanLength ==
  ASSUME NEW slot
  PROVE  Len(SelectModelRoute(Targets, slot)) = Len(Targets)
<1> DEFINE attempts == SelectModelRoute(Targets, slot)
<1>1. Len(Targets) \in Nat
  BY HandlerAssumption DEF HandlerAssumption
<1>2. \E order : attempts = [j \in 1 .. Len(Targets) |-> Targets[order[j]].model]
  BY Zenon DEF SelectModelRoute
<1>3. PICK order : attempts = [j \in 1 .. Len(Targets) |-> Targets[order[j]].model]
  BY <1>2
<1> HIDE DEF attempts
<1>4. Len(attempts) = Len(Targets)
  BY <1>1, <1>3
<1> QED
  BY <1>4 DEF attempts

\* The route has a target.
LEMMA RouteNotEmpty == Len(Targets) \in Nat /\ Len(Targets) > 0
BY HandlerAssumption DEF HandlerAssumption, IsRoute

\* Responses are records whose fields can be replaced one by one.
LEMMA ResponseType ==
  ASSUME NEW status \in Nat, NEW code \in Codes
  PROVE  /\ Response(status, code) \in [status : Nat, code : Codes, id : BOOLEAN, complete : BOOLEAN]
         /\ Response(status, code).status = status /\ Response(status, code).code = code
         /\ ~Response(status, code).id /\ ~Response(status, code).complete
BY DEF Response

-----------------------------------------------------------------------------
(* The attempts                                                            *)

\* A step that makes no attempt keeps FallbackCorrect, unless it answers 200,
\* or with a code of its own while the slot is held or given back.
LEMMA FallbackKept ==
  ASSUME FallbackCorrect, UNCHANGED <<tried, plan>>, pc' # "attempt",
         resp'.status = 200 => resp.status = 200 \/ pc = "attempt",
         resp'.code # "none" /\ lease' \in {"held", "released"} =>
           resp'.code = resp.code /\ resp'.status = resp.status /\ lease \in {"held", "released"}
  PROVE  FallbackCorrect'
BY DEF FallbackCorrect

-----------------------------------------------------------------------------
(* Preservation, one lemma for each group of actions                       *)

\* The invariant holds when the request arrives.
LEMMA InitIInv == Init => IInv
<1> SUFFICES ASSUME Init PROVE IInv
  OBVIOUS
<1> USE DEF Init, NoResponse, Response
<1>1. tried \in Seq(Failure) /\ Len(plan) = 0 /\ Len(observed) = 0 /\ DOMAIN tried = {}
  OBVIOUS
<1>2. resp \in [status : Nat, code : Codes, id : BOOLEAN, complete : BOOLEAN]
  BY DEF Codes
<1>3. MaxChunks \in Nat
  BY HandlerAssumption DEF HandlerAssumption
<1>4. Types
  <2>1. /\ pc \in Labels
        /\ metrics \in BOOLEAN /\ stream \in BOOLEAN /\ gone \in BOOLEAN
        /\ lease \in {"none", "held", "released", "unsure", "lost"}
        /\ conn \in {"none", "open", "closed", "abandoned"}
    BY DEF Labels
  <2>2. /\ Len(plan) \in {0, Len(Targets)} /\ Len(observed) <= 1
        /\ \A i \in DOMAIN tried : tried[i] \in Failure
        /\ chunks \in 0 .. MaxChunks
    BY <1>1, <1>3
  <2>3. counted \in {NotCounted, [status |-> resp.status, reason |-> Reason(resp)]}
    OBVIOUS
  <2>4. TypeOK
    BY <2>1, <2>2, <2>3 DEF TypeOK
  <2> QED
    BY <1>1, <1>2, <2>4 DEF Types
<1>5. Stages /\ Departures
  BY DEF Stages, Departures, Entering, Streaming
<1>6. Records
  BY DEF Records, NotCounted, Entering, Streaming
<1>7. FallbackCorrect
  BY DEF FallbackCorrect
<1>8. SlotCoversBackend /\ Settled /\ CountedAsSent /\ StreamObserved
  BY DEF SlotCoversBackend, Settled, CountedAsSent, StreamObserved, NotCounted
<1> QED
  BY <1>4, <1>5, <1>6, <1>7, <1>8 DEF IInv

\* The ways from the middlewares and dependencies, and from the validation,
\* straight to an answer or an exception.
EntryExit == BodyTooLarge \/ Refuse \/ AuthRaises \/ Accept \/ Invalid \/ RouteRaises

\* They keep the invariant: nothing was taken yet.
LEMMA EntryExitKeepsIInv ==
  ASSUME IInv, EntryExit
  PROVE  IInv'
<1> USE DEF IInv
<1>1. /\ pc \in {"arrive", "validate"} /\ pc' \in {"validate", "out", "raise"}
      /\ UNCHANGED <<metrics, plan, tried, lease, conn, chunks, counted, observed, gone>>
      /\ stream' \in BOOLEAN
  BY DEF EntryExit, BodyTooLarge, Refuse, AuthRaises, Accept, Invalid, RouteRaises, Types, TypeOK
<1>2. /\ resp' \in [status : Nat, code : Codes, id : BOOLEAN, complete : BOOLEAN]
      /\ IF pc' = "out"
         THEN /\ resp'.status \in {400, 401, 413, 422} /\ ~resp'.complete
              /\ resp'.code = "request_body_too_large" => resp'.id
         ELSE resp' = resp
  <2>1. CASE BodyTooLarge
    <3>1. resp' = [status |-> 413, code |-> "request_body_too_large", id |-> TRUE, complete |-> FALSE]
      BY <2>1 DEF BodyTooLarge, Response
    <3> QED
      BY <3>1, <2>1 DEF Codes, BodyTooLarge
  <2>2. CASE Refuse
    <3>1. PICK status \in {400, 401, 422}, code \in {"invalid_api_key", "none"} : resp' = Response(status, code)
      BY <2>2 DEF Refuse
    <3>2. status \in Nat /\ code \in Codes
      BY DEF Codes
    <3>3. /\ resp' \in [status : Nat, code : Codes, id : BOOLEAN, complete : BOOLEAN]
          /\ resp'.status = status /\ resp'.code = code /\ ~resp'.complete
      BY <3>1, <3>2, ResponseType
    <3> QED
      BY <2>2, <3>3 DEF Refuse
  <2>3. CASE Invalid
    BY <2>3 DEF Invalid, Response, Codes
  <2>4. CASE AuthRaises \/ Accept \/ RouteRaises
    BY <2>4 DEF AuthRaises, Accept, RouteRaises, Types
  <2> QED
    BY <2>1, <2>2, <2>3, <2>4 DEF EntryExit
<1>3. Types'
  BY <1>1, <1>2 DEF Types, TypeOK, Labels, Records, Entering
<1>4. Stages'
  BY <1>1, <1>2 DEF Stages, Entering, Streaming, NoResponse, Response
<1>5. Departures'
  BY <1>1 DEF Departures
<1>6. Records'
  BY <1>1, <1>2 DEF Records, Entering, Streaming, Stages, NoResponse, Response
<1>7. FallbackCorrect'
  BY <1>1, <1>2, FallbackKept DEF Stages, Entering
<1>8. SlotCoversBackend' /\ Settled' /\ CountedAsSent' /\ StreamObserved'
  BY <1>1, <1>2
  DEF SlotCoversBackend, Settled, CountedAsSent, StreamObserved, Stages, Records, Entering
<1> QED
  BY <1>3, <1>4, <1>5, <1>6, <1>7, <1>8

\* Routing keeps it: the plan it makes is the selected target and its
\* fallbacks.
LEMMA RouteKeepsIInv ==
  ASSUME IInv, Route
  PROVE  IInv'
<1> USE DEF IInv
<1>1. /\ pc = "validate" /\ pc' = "limit"
      /\ UNCHANGED <<metrics, stream, tried, lease, conn, chunks, resp, counted, observed, gone>>
      /\ Len(plan') = Len(Targets)
  BY PlanLength DEF Route
<1>2. tried = << >> /\ resp = NoResponse /\ lease = "none" /\ conn = "none"
  BY <1>1 DEF Stages, Entering
<1>3. Types'
  BY <1>1 DEF Types, TypeOK, Labels
<1>4. Stages' /\ Departures' /\ Records'
  BY <1>1, <1>2 DEF Stages, Departures, Records, Entering, Streaming
<1>5. FallbackCorrect'
  BY <1>1, <1>2, RouteNotEmpty DEF FallbackCorrect, NoResponse, Response
<1>6. SlotCoversBackend' /\ Settled' /\ CountedAsSent' /\ StreamObserved'
  BY <1>1, <1>2 DEF SlotCoversBackend, Settled, CountedAsSent, StreamObserved, Records, Entering
<1> QED
  BY <1>3, <1>4, <1>5, <1>6

\* The limits let the request through with its slot, or answer 429.
LEMMA LimitKeepsIInv ==
  ASSUME IInv, Limit
  PROVE  IInv'
<1> USE DEF IInv
<1>1. /\ pc = "limit" /\ pc' \in {"attempt", "out", "raise"}
      /\ UNCHANGED <<metrics, stream, plan, tried, conn, chunks, counted, observed, gone>>
      /\ lease' = IF pc' = "attempt" THEN "held" ELSE lease
  BY DEF Limit
<1>2. tried = << >> /\ resp = NoResponse /\ lease = "none" /\ conn = "none"
  BY <1>1 DEF Stages, Entering
<1>3. \A kind \in {"requests", "tokens", "concurrency"} : RateLimitCode(kind) \in Codes
  BY DEF RateLimitCode, Codes
<1>4. \A code \in Codes :
        /\ Response(429, code) \in [status : Nat, code : Codes, id : BOOLEAN, complete : BOOLEAN]
        /\ Response(429, code).status = 429
        /\ ~Response(429, code).id /\ ~Response(429, code).complete
  BY ResponseType
<1>5. /\ resp' \in [status : Nat, code : Codes, id : BOOLEAN, complete : BOOLEAN]
      /\ IF pc' = "out"
         THEN /\ resp'.status = 429 /\ ~resp'.complete /\ ~resp'.id
              /\ resp'.code # "request_body_too_large"
         ELSE resp' = resp
  <2>1. CASE pc' = "out"
    <3>1. PICK kind \in {"requests", "tokens", "concurrency"} :
            resp' = Response(429, RateLimitCode(kind))
      BY <1>1, <2>1 DEF Limit
    <3>2. Response(429, RateLimitCode(kind)).code = RateLimitCode(kind)
      BY <1>3, ResponseType
    <3>3. RateLimitCode(kind) # "request_body_too_large"
      BY DEF RateLimitCode
    <3> QED
      BY <1>3, <1>4, <2>1, <3>1, <3>2, <3>3
  <2>2. CASE pc' # "out"
    BY <2>2 DEF Limit, Types
  <2> QED
    BY <2>1, <2>2
<1>6. Types'
  BY <1>1, <1>2, <1>5 DEF Types, TypeOK, Labels, Records, Entering
<1>7. Stages' /\ Departures'
  BY <1>1, <1>2, <1>5, RouteNotEmpty DEF Stages, Departures, Entering, Streaming, NoResponse, Response
<1>8. Records'
  BY <1>1, <1>2, <1>5 DEF Records, Entering, Streaming, NoResponse, Response
<1>9. FallbackCorrect'
  BY <1>1, <1>2, <1>5, RouteNotEmpty DEF FallbackCorrect, NoResponse, Response, Stages
<1>10. SlotCoversBackend' /\ Settled' /\ CountedAsSent' /\ StreamObserved'
  BY <1>1, <1>2, <1>5
  DEF SlotCoversBackend, Settled, CountedAsSent, StreamObserved, Records, Entering
<1> QED
  BY <1>6, <1>7, <1>8, <1>9, <1>10

\* A backend refuses, answers, or makes the handler raise.
LEMMA AttemptFailsKeepsIInv ==
  ASSUME IInv, AttemptFails
  PROVE  IInv'
<1> USE DEF IInv
<1>1. PICK f \in Failure :
        /\ tried' = Append(tried, f)
        /\ IF ShouldTryNextBackend(StatusOf(f), Len(tried) + 1)
           THEN UNCHANGED <<pc, resp>>
           ELSE pc' = "finally" /\ resp' = Response(StatusOf(f), CodeOf(f))
  BY DEF AttemptFails
<1>2. /\ pc = "attempt"
      /\ UNCHANGED <<metrics, stream, plan, lease, conn, chunks, counted, observed, gone>>
  BY DEF AttemptFails
<1>3. /\ tried \in Seq(Failure) /\ tried' \in Seq(Failure)
      /\ Len(tried') = Len(tried) + 1 /\ tried'[Len(tried')] = f
      /\ \A i \in 1 .. Len(tried) : tried'[i] = tried[i]
  BY <1>1, AppendProperties DEF Types
<1>4. /\ Len(plan) \in Nat /\ Len(tried) < Len(plan) /\ resp = NoResponse /\ lease = "held"
      /\ \A i \in 1 .. Len(tried) : StatusOf(tried[i]) \in FALLBACK_STATUS_CODES
  BY <1>2, RouteNotEmpty DEF Stages, Types, TypeOK, FallbackCorrect
<1>5. /\ StatusOf(f) \in Nat /\ StatusOf(f) >= 400
      /\ CodeOf(f) \in Codes \ {"none", "request_body_too_large"}
  BY FailureFacts
<1>6. CASE ShouldTryNextBackend(StatusOf(f), Len(tried) + 1)
  <2>1. Len(tried') < Len(plan) /\ StatusOf(f) \in FALLBACK_STATUS_CODES /\ UNCHANGED <<pc, resp>>
    BY <1>1, <1>3, <1>6 DEF ShouldTryNextBackend
  <2>2. Types'
    BY <1>2, <1>3, <2>1 DEF Types, TypeOK
  <2>3. Stages' /\ Departures' /\ Records'
    BY <1>2, <2>1 DEF Stages, Departures, Records, Entering, Streaming
  <2>4. \A i \in 1 .. Len(tried') : StatusOf(tried'[i]) \in FALLBACK_STATUS_CODES
    BY <1>3, <1>4, <2>1
  <2>5. FallbackCorrect'
    BY <1>2, <1>3, <1>4, <2>1, <2>4 DEF FallbackCorrect, NoResponse, Response
  <2>6. SlotCoversBackend' /\ Settled' /\ CountedAsSent' /\ StreamObserved'
    BY <1>2, <2>1 DEF SlotCoversBackend, Settled, CountedAsSent, StreamObserved
  <2> QED
    BY <2>2, <2>3, <2>5, <2>6
<1>7. CASE ~ShouldTryNextBackend(StatusOf(f), Len(tried) + 1)
  <2>1. /\ pc' = "finally"
        /\ resp' = Response(StatusOf(f), CodeOf(f))
        /\ Len(tried') = Len(plan) \/ StatusOf(f) \notin FALLBACK_STATUS_CODES
    BY <1>1, <1>3, <1>4, <1>7 DEF ShouldTryNextBackend
  <2>2. /\ resp' \in [status : Nat, code : Codes, id : BOOLEAN, complete : BOOLEAN]
        /\ resp'.status = StatusOf(f) /\ resp'.code = CodeOf(f) /\ ~resp'.id /\ ~resp'.complete
    BY <1>5, <2>1, ResponseType
  <2>3. Types'
    BY <1>2, <1>3, <2>1, <2>2 DEF Types, TypeOK, Labels, Records, Entering
  <2>4. Stages' /\ Departures' /\ Records'
    BY <1>2, <1>5, <2>1, <2>2 DEF Stages, Departures, Records, Entering, Streaming
  <2>5. FallbackCorrect'
    BY <1>2, <1>3, <1>4, <1>5, <2>1, <2>2 DEF FallbackCorrect
  <2>6. SlotCoversBackend' /\ Settled' /\ CountedAsSent' /\ StreamObserved'
    BY <1>2, <1>4, <2>1, <2>2
    DEF SlotCoversBackend, Settled, CountedAsSent, StreamObserved, Stages, Records
  <2> QED
    BY <2>3, <2>4, <2>5, <2>6
<1> QED
  BY <1>6, <1>7

\* The end of an attempt, by an exception or an answer, keeps it.
LEMMA AnswerKeepsIInv ==
  ASSUME IInv, AttemptRaises \/ Complete \/ OpenStream
  PROVE  IInv'
<1> USE DEF IInv
<1>1. /\ pc = "attempt"
      /\ UNCHANGED <<metrics, stream, plan, tried, lease, chunks, counted, observed, gone>>
      /\ \/ pc' = "finally" /\ resp' = NoResponse /\ conn' = conn
         \/ pc' = "finally" /\ resp' = Response(200, "none") /\ conn' = conn
         \/ pc' = "out" /\ resp' = Response(200, "none") /\ conn' = "open"
  BY DEF AttemptRaises, Complete, OpenStream
<1>2. /\ resp' \in [status : Nat, code : Codes, id : BOOLEAN, complete : BOOLEAN]
      /\ resp'.code = "none" /\ ~resp'.id /\ ~resp'.complete
      /\ resp'.status \in {0, 200}
      /\ pc' = "out" => resp'.status = 200
  <2>1. \E status \in {0, 200} :
          /\ resp' = [status |-> status, code |-> "none", id |-> FALSE, complete |-> FALSE]
          /\ pc' = "out" => status = 200
    BY <1>1 DEF NoResponse, Response
  <2>2. PICK status \in {0, 200} :
          /\ resp' = [status |-> status, code |-> "none", id |-> FALSE, complete |-> FALSE]
          /\ pc' = "out" => status = 200
    BY <2>1
  <2>3. status \in Nat /\ "none" \in Codes
    BY DEF Codes
  <2>4. resp'.status = status
    BY <2>2
  <2> QED
    BY <2>2, <2>3, <2>4
<1>3. Types'
  BY <1>1, <1>2 DEF Types, TypeOK, Labels, Records, Entering
<1>4. Stages'
  <2>1. pc' = "finally" => resp' = NoResponse \/ resp'.status # 0
    BY <1>1 DEF Response
  <2> QED
    BY <1>1, <1>2, <2>1 DEF Stages, Entering, Streaming
<1>5. Departures' /\ Records' /\ FallbackCorrect'
  BY <1>1, <1>2, FallbackKept DEF Departures, Records, Entering, Streaming
<1>6. SlotCoversBackend' /\ Settled' /\ CountedAsSent' /\ StreamObserved'
  BY <1>1, <1>2
  DEF SlotCoversBackend, Settled, CountedAsSent, StreamObserved, Stages, Records
<1> QED
  BY <1>3, <1>4, <1>5, <1>6

\* The slot is given back, or its DECR raises.
LEMMA FinallyKeepsIInv ==
  ASSUME IInv, Finally
  PROVE  IInv'
<1> USE DEF IInv
<1>1. /\ pc = "finally" /\ pc' \in {"out", "raise"} /\ lease' \in {"released", "unsure"}
      /\ UNCHANGED <<metrics, stream, plan, tried, conn, chunks, resp, counted, observed, gone>>
      /\ pc' = "out" => resp # NoResponse /\ lease' = "released"
  BY DEF Finally
<1>2. Types'
  BY <1>1 DEF Types, TypeOK, Labels
<1>3. Stages'
  BY <1>1 DEF Stages, Entering, Streaming
<1>4. Departures' /\ Records' /\ FallbackCorrect'
  BY <1>1, FallbackKept DEF Stages, Departures, Records, Entering, Streaming
<1>5. SlotCoversBackend' /\ Settled' /\ CountedAsSent' /\ StreamObserved'
  BY <1>1 DEF SlotCoversBackend, Settled, CountedAsSent, StreamObserved, Stages, Records
<1> QED
  BY <1>2, <1>3, <1>4, <1>5

-----------------------------------------------------------------------------
(* The way out and the stream                                              *)

\* The response on its way out keeps it: it is counted as it is sent.
LEMMA RespondKeepsIInv ==
  ASSUME IInv, Respond
  PROVE  IInv'
<1> USE DEF IInv
<1>1. /\ pc = "out" /\ pc' = (IF conn = "none" THEN "done" ELSE "unstarted")
      /\ UNCHANGED <<metrics, stream, plan, tried, lease, conn, chunks, observed, gone>>
      /\ counted' = IF metrics THEN [status |-> resp.status, reason |-> Reason(resp)] ELSE NotCounted
  BY DEF Respond
<1>2. /\ resp' \in [status : Nat, code : Codes, id : BOOLEAN, complete : BOOLEAN]
      /\ resp'.status = resp.status /\ resp'.code = resp.code
      /\ resp'.id /\ resp'.complete = (conn = "none")
  BY DEF Respond, Types, Records, PassesRequestId
<1>3. /\ resp.status \in Nat /\ resp.status # 0
      /\ \/ conn = "open" /\ lease = "held" /\ resp.status = 200 /\ resp.code = "none"
         \/ conn = "none" /\ lease \in {"none", "released"}
      /\ counted = NotCounted /\ observed = << >> /\ ~gone
  BY <1>1 DEF Stages, Records, Types, Departures
<1>4. /\ counted' \in {NotCounted, [status |-> resp'.status, reason |-> Reason(resp')]}
      /\ counted' # NotCounted <=> metrics
      /\ metrics => /\ counted'.status = resp'.status
                    /\ counted'.reason # "none" <=> resp'.status >= 400
                    /\ resp'.code # "none" => counted'.reason = resp'.code
  BY <1>1, <1>2, <1>3 DEF Reason, NotCounted, Records
<1>5. Types'
  BY <1>1, <1>2, <1>4 DEF Types, TypeOK, Labels
<1>6. Stages' /\ Departures'
  BY <1>1, <1>3 DEF Stages, Departures, Entering, Streaming
<1>7. Records'
  BY <1>1, <1>2, <1>3, <1>4 DEF Records, Entering
<1>8. FallbackCorrect'
  BY <1>1, <1>2, FallbackKept
<1>9. SlotCoversBackend' /\ Settled' /\ StreamObserved'
  BY <1>1, <1>3 DEF SlotCoversBackend, Settled, StreamObserved, Departures
<1>10. CountedAsSent'
  BY <1>1, <1>2, <1>4 DEF CountedAsSent
<1> QED
  BY <1>5, <1>6, <1>7, <1>8, <1>9, <1>10

\* An exception on its way out keeps it.
LEMMA RaiseKeepsIInv ==
  ASSUME IInv, Raise
  PROVE  IInv'
<1> USE DEF IInv
<1>1. /\ pc = "raise" /\ pc' = "done"
      /\ UNCHANGED <<metrics, stream, plan, tried, lease, conn, chunks, counted, observed, gone>>
  BY DEF Raise
<1>2. /\ resp' \in [status : Nat, code : Codes, id : BOOLEAN, complete : BOOLEAN]
      /\ resp'.status = 500 /\ resp'.code = "none" /\ ~resp'.id
  <2>1. resp' = [status |-> 500, code |-> "none", id |-> FALSE, complete |-> TRUE]
    BY DEF Raise, Response
  <2> QED
    BY <2>1 DEF Codes
<1>3. /\ counted = NotCounted /\ observed = << >> /\ conn = "none"
      /\ lease \in {"none", "released", "unsure"}
  BY <1>1 DEF Stages, Records
<1>4. Types'
  BY <1>1, <1>2, <1>3 DEF Types, TypeOK, Labels
<1>5. Stages' /\ Departures' /\ Records'
  BY <1>1, <1>2, <1>3 DEF Stages, Departures, Records, Entering, Streaming
<1>6. FallbackCorrect'
  BY <1>1, <1>2, FallbackKept
<1>7. SlotCoversBackend' /\ Settled' /\ CountedAsSent' /\ StreamObserved'
  BY <1>1, <1>2, <1>3
  DEF SlotCoversBackend, Settled, CountedAsSent, StreamObserved
<1> QED
  BY <1>4, <1>5, <1>6, <1>7

\* Chunks are delivered.
Deliver == StartStream \/ YieldChunk \/ YieldRest \/ Resume

\* They keep the invariant.
LEMMA DeliverKeepsIInv ==
  ASSUME IInv, Deliver
  PROVE  IInv'
<1> USE DEF IInv
<1>1. /\ pc \in Streaming /\ pc' \in {"reading", "yielded"} /\ chunks' \in 0 .. MaxChunks
      /\ conn' \in {conn, "closed"}
      /\ UNCHANGED <<metrics, stream, plan, tried, lease, resp, counted, observed, gone>>
  BY HandlerAssumption
  DEF Deliver, StartStream, YieldChunk, YieldRest, Resume, Streaming, Types, TypeOK, HandlerAssumption
<1>2. Types'
  BY <1>1 DEF Types, TypeOK, Labels
<1>3. Stages' /\ Departures' /\ Records'
  BY <1>1 DEF Stages, Departures, Records, Entering, Streaming
<1>4. FallbackCorrect'
  BY <1>1, FallbackKept
<1>5. SlotCoversBackend' /\ Settled' /\ CountedAsSent' /\ StreamObserved'
  BY <1>1 DEF SlotCoversBackend, Settled, CountedAsSent, StreamObserved
<1> QED
  BY <1>2, <1>3, <1>4, <1>5

\* The backend's stream ends or breaks, and its duration is observed.
LEMMA EndOfStreamKeepsIInv ==
  ASSUME IInv, EndOfStream
  PROVE  IInv'
<1> USE DEF IInv
<1>1. /\ pc = "reading" /\ pc' = "closing" /\ conn' = "closed"
      /\ UNCHANGED <<metrics, stream, plan, tried, lease, chunks, counted, gone>>
  BY DEF EndOfStream
<1>2. /\ lease = "held" /\ observed = << >> /\ ~resp.complete
      /\ ~gone /\ resp.id
  BY <1>1 DEF Stages, Records, Streaming, Departures
<1>3. /\ resp' \in [status : Nat, code : Codes, id : BOOLEAN, complete : BOOLEAN]
      /\ resp'.status = resp.status /\ resp'.code = resp.code /\ resp'.id = resp.id
  BY DEF EndOfStream, Types
<1>4. /\ Len(observed') = (IF metrics THEN 1 ELSE 0)
      /\ resp'.complete /\ metrics => observed' = <<"completed">>
  BY <1>2 DEF EndOfStream, Observe, Types
<1>5. Types'
  BY <1>1, <1>3, <1>4 DEF Types, TypeOK, Labels, Reason
<1>6. Stages' /\ Departures'
  BY <1>1, <1>2 DEF Stages, Departures, Entering, Streaming
<1>7. Records'
  BY <1>1, <1>3, <1>4 DEF Records, Entering, Streaming
<1>8. FallbackCorrect'
  BY <1>1, <1>3, FallbackKept
<1>9. SlotCoversBackend' /\ Settled' /\ CountedAsSent' /\ StreamObserved'
  BY <1>1, <1>3 DEF SlotCoversBackend, Settled, CountedAsSent, StreamObserved
<1> QED
  BY <1>5, <1>6, <1>7, <1>8, <1>9

\* The release after a stream keeps it.
LEMMA ReleaseStreamKeepsIInv ==
  ASSUME IInv, ReleaseStream
  PROVE  IInv'
<1> USE DEF IInv
<1>1. /\ pc = "closing" /\ pc' = "done" /\ lease' \in {"released", "unsure"}
      /\ UNCHANGED <<metrics, stream, plan, tried, conn, chunks, counted, observed, gone>>
  BY DEF ReleaseStream
<1>2. /\ conn = "closed" /\ lease = "held"
      /\ Len(observed) = (IF metrics THEN 1 ELSE 0)
      /\ resp.complete /\ metrics => observed = <<"completed">>
  BY <1>1 DEF Stages, Records
<1>3. /\ resp' \in [status : Nat, code : Codes, id : BOOLEAN, complete : BOOLEAN]
      /\ resp'.status = resp.status /\ resp'.code = resp.code /\ resp'.id = resp.id
      /\ resp'.complete => resp.complete
      /\ lease' = "unsure" => ~resp'.complete
  BY DEF ReleaseStream, Types
<1>4. Types'
  BY <1>1, <1>3 DEF Types, TypeOK, Labels, Reason
<1>5. Stages' /\ Departures' /\ Records'
  BY <1>1, <1>2, <1>3 DEF Stages, Departures, Records, Entering, Streaming
<1>6. FallbackCorrect'
  BY <1>1, <1>2, <1>3, FallbackKept
<1>7. SlotCoversBackend' /\ Settled' /\ StreamObserved'
  BY <1>1, <1>2, <1>3 DEF SlotCoversBackend, Settled, StreamObserved
<1>8. CountedAsSent'
  BY <1>1, <1>3 DEF CountedAsSent, Records
<1> QED
  BY <1>4, <1>5, <1>6, <1>7, <1>8

\* The client leaves, before the generators are entered or while they run,
\* or the event loop finalizes those it left suspended.
Depart == DisconnectUnstarted \/ DisconnectReading \/ DisconnectYielded \/ FinalizeInner

\* A departure keeps it: what it leaves behind is what the invariant allows.
LEMMA DepartKeepsIInv ==
  ASSUME IInv, Depart
  PROVE  IInv'
<1> USE DEF IInv
<1>1. /\ pc \in Streaming \cup {"finalize"} /\ pc' \in {"finalize", "done"} /\ resp.id
      /\ UNCHANGED <<metrics, stream, plan, tried, chunks, resp, counted>>
      /\ gone' /\ gone' \in BOOLEAN
      /\ lease' = lease \/ lease = "held"
  BY DEF Depart, DisconnectUnstarted, DisconnectReading, DisconnectYielded, FinalizeInner,
         Streaming, Stages, Records, Types, TypeOK
<1>2. /\ \/ pc' = "finalize" /\ conn' \in {"open", "closed"} /\ lease' \in {"released", "unsure"}
         \/ pc' = "done" /\ lease' = "lost" /\ conn' = "abandoned" /\ chunks' = 0
         \/ pc' = "done" /\ lease' \in {"released", "unsure"} /\ conn' \in {"closed", "abandoned"}
  BY DEF Depart, DisconnectUnstarted, DisconnectReading, DisconnectYielded, FinalizeInner,
         Streaming, Stages, Departures
<1>3. observed = << >> /\ ~resp.complete
  BY <1>1 DEF Records, Streaming
<1>4. /\ pc' = "finalize" \/ lease' = "lost" => observed' = << >>
      /\ pc' = "done" /\ lease' # "lost" => Len(observed') = (IF metrics THEN 1 ELSE 0)
  BY <1>3 DEF Depart, DisconnectUnstarted, DisconnectReading, DisconnectYielded, FinalizeInner,
              Observe, Stages, Types, TypeOK
<1>5. Len(observed') <= 1
  <2>1. CASE pc' = "finalize" \/ lease' = "lost"
    <3>1. observed' = << >>
      BY <1>4, <2>1
    <3> QED
      BY <3>1
  <2>2. CASE pc' = "done" /\ lease' # "lost"
    <3>1. Len(observed') = 0 \/ Len(observed') = 1
      BY <1>4, <2>2
    <3>2. CASE Len(observed') = 0
      BY <3>2
    <3>3. CASE Len(observed') = 1
      BY <3>3
    <3> QED
      BY <3>1, <3>2, <3>3
  <2> QED
    BY <1>1, <2>1, <2>2
<1>6. Types'
  BY <1>1, <1>2, <1>5 DEF Types, TypeOK, Labels, Reason
<1>7. Stages' /\ Departures'
  BY <1>1, <1>2 DEF Stages, Departures, Entering, Streaming
<1>8. Records'
  BY <1>1, <1>2, <1>3, <1>4 DEF Records, Entering, Streaming
<1>9. FallbackCorrect'
  BY <1>1, <1>2, FallbackKept DEF Stages, Streaming
<1>10. SlotCoversBackend' /\ Settled'
  BY <1>1, <1>2, <1>3 DEF SlotCoversBackend, Settled
<1>11. CountedAsSent'
  BY <1>1 DEF CountedAsSent, Records, Streaming
<1>12. StreamObserved'
  BY <1>1, <1>2, <1>3, <1>4 DEF StreamObserved
<1> QED
  BY <1>6, <1>7, <1>8, <1>9, <1>10, <1>11, <1>12

-----------------------------------------------------------------------------
(* The results                                                             *)

\* Every step keeps the invariant.
LEMMA NextIInv == IInv /\ [Next]_vars => IInv'
<1> SUFFICES ASSUME IInv, [Next]_vars PROVE IInv'
  OBVIOUS
<1>1. CASE EntryExit
  BY <1>1, EntryExitKeepsIInv
<1>2. CASE Route
  BY <1>2, RouteKeepsIInv
<1>3. CASE Limit
  BY <1>3, LimitKeepsIInv
<1>4. CASE AttemptFails
  BY <1>4, AttemptFailsKeepsIInv
<1>5. CASE AttemptRaises \/ Complete \/ OpenStream
  BY <1>5, AnswerKeepsIInv
<1>6. CASE Finally
  BY <1>6, FinallyKeepsIInv
<1>7. CASE Respond
  BY <1>7, RespondKeepsIInv
<1>8. CASE Raise
  BY <1>8, RaiseKeepsIInv
<1>9. CASE Deliver
  BY <1>9, DeliverKeepsIInv
<1>10. CASE EndOfStream
  BY <1>10, EndOfStreamKeepsIInv
<1>11. CASE ReleaseStream
  BY <1>11, ReleaseStreamKeepsIInv
<1>12. CASE Depart
  BY <1>12, DepartKeepsIInv
<1>13. CASE UNCHANGED vars
  BY <1>13
  DEF vars, IInv, Types, TypeOK, Stages, Departures, Records, FallbackCorrect,
      SlotCoversBackend, Settled, CountedAsSent, StreamObserved, Reason
<1> QED
  BY <1>1, <1>2, <1>3, <1>4, <1>5, <1>6, <1>7, <1>8, <1>9, <1>10, <1>11, <1>12, <1>13
  DEF Next, Proceed, EntryExit, Deliver, Depart

\* The invariant of one request, on every path through the handler, the
\* middlewares and the stream's generators.
THEOREM InductiveInvariant == Spec => []IInv
BY InitIInv, NextIInv, PTL DEF Spec

\* The type invariant.
THEOREM WellTyped == Spec => []TypeOK
<1>1. IInv => TypeOK
  BY DEF IInv, Types
<1> QED
  BY <1>1, InductiveInvariant, PTL

\* The fallback over the plan of backends, for every route: no backend is tried
\* twice or after a failure that is not eligible, nothing is tried after an
\* answer, and the error given back is the last one, with no backend left to try.
THEOREM FallbackFollowsThePlan == Spec => []FallbackCorrect
<1>1. IInv => FallbackCorrect
  BY DEF IInv
<1> QED
  BY <1>1, InductiveInvariant, PTL

\* A backend connection is open only while the slot of the request is held, as
\* long as the client stays: the release of create_chat_completion's or
\* wrap_stream's finally clause comes after the backend is done.
THEOREM SlotHeldWhileBackendWorks == Spec => []SlotCoversBackend
<1>1. IInv => SlotCoversBackend
  BY DEF IInv
<1> QED
  BY <1>1, InductiveInvariant, PTL

\* A request that has ended has given back its slot and its connection, but for
\* what a client that disconnected at one of two points leaves.
THEOREM NothingLeftBehind == Spec => []Settled
<1>1. IInv => Settled
  BY DEF IInv
<1> QED
  BY <1>1, InductiveInvariant, PTL

\* What the metrics middleware counts is what is sent, with its status and the
\* reason that its code gives.
THEOREM MetricsMatchResponse == Spec => []CountedAsSent
<1>1. IInv => CountedAsSent
  BY DEF IInv
<1> QED
  BY <1>1, InductiveInvariant, PTL

\* The duration of a stream whose generators were entered is observed once.
THEOREM DurationObservedOnce == Spec => []StreamObserved
<1>1. IInv => StreamObserved
  BY DEF IInv
<1> QED
  BY <1>1, InductiveInvariant, PTL

=============================================================================

------------------------------- MODULE Admission -------------------------------
(***************************************************************************)
(* What a chat request must pass before it is routed: the size check, the  *)
(* API key, the request schema and validate_chat_request_limits, in the    *)
(* order in which create_app and the framework run them; and the settings  *)
(* scripts/local_e2e.py gives its gateway.                                 *)
(*                                                                         *)
(* A text is a sequence of character classes as in TokenAccounting; in an  *)
(* API key "comma" and "foreign" (not ASCII) matter too.  A setting is a   *)
(* field of a record, with the name it has in config.py.                   *)
(***************************************************************************)
EXTENDS ModelRouting, TokenAccounting

Absent == -1      \* a header or a field that is not there

Accepted == [status |-> 0, code |-> "none"]
Refused(status, code) == [status |-> status, code |-> code]

-----------------------------------------------------------------------------
(* security.py                                                             *)

\* Settings.allowed_api_keys: split at commas, stripped, without the blank ones.
AllowedApiKeys(api_keys) ==
  LET step(acc, c) ==
        IF c = "comma" THEN Append(acc, << >>) ELSE Append(Front(acc), Append(Last(acc), c))
      parts == FoldLeft(step, << << >> >>, api_keys)
      keep(kept, part) == IF Strip(part) = << >> THEN kept ELSE Append(kept, Strip(part))
  IN FoldLeft(keep, << >>, parts)

\* extract_bearer_token: << >> stands for None.
BearerToken(authorization) ==
  IF authorization.scheme = "bearer" THEN Strip(authorization.token) ELSE << >>

\* is_allowed_api_key: the keys are compared up to the first match, and
\* compare_digest raises TypeError when either side is not ASCII.
IsAllowed(token, keys) ==
  LET foreign(k) == "foreign" \in ToSet(k)
      ends == {i \in DOMAIN keys : keys[i] = token \/ foreign(keys[i]) \/ foreign(token)}
  IN IF ends = {} THEN "no"
     ELSE IF foreign(token) \/ foreign(keys[Min(ends)]) THEN "raises" ELSE "yes"

RequireApiKey(authorization, api_keys) ==
  LET token == BearerToken(authorization)
  IN IF token = << >> THEN "no" ELSE IsAllowed(token, AllowedApiKeys(api_keys))

-----------------------------------------------------------------------------
(* request_limits.py and schemas/openai.py                                 *)

\* ChatCompletionRequest; wellformed: what the schema says of the other fields.
SchemaAccepts(request) ==
  /\ request.wellformed
  /\ Len(request.messages) > 0
  /\ request.max_tokens = Absent \/ request.max_tokens > 0

CharsOf(messages) == FoldLeft(LAMBDA n, text : n + Len(text), 0, messages)

\* Mutant: only single messages are limited.
LimitExceededBySingle(messages, settings) ==
  IF Len(messages) > settings.max_chat_messages THEN "too_many_messages"
  ELSE IF \E i \in DOMAIN messages : Len(messages[i]) > settings.max_chat_message_chars
       THEN "chat_message_too_large"
  ELSE "none"

\* validate_chat_request_limits: the code of ChatRequestLimitExceeded.
LimitExceeded(messages, settings) ==
  IF Len(messages) > settings.max_chat_messages THEN "too_many_messages"
  ELSE IF \E i \in DOMAIN messages : Len(messages[i]) > settings.max_chat_message_chars
       THEN "chat_message_too_large"
  ELSE IF CharsOf(messages) > settings.max_chat_total_message_chars
       THEN "chat_messages_too_large"
  ELSE "none"

\* request_body_size_middleware; a body sent in chunks has no Content-Length,
\* and an unreadable or negative one counts as none.
TooLarge(request, settings) ==
  request.content_length > settings.max_request_body_bytes

\* The framework parses the body before it runs the dependencies, and these
\* before it validates the parsed body.  A body whose reading fails otherwise than
\* by JSONDecodeError, one that is not UTF-8 say, is answered 400.  An exception
\* of the code becomes a bare 500.
Admit(request, settings) ==
  LET key   == RequireApiKey(request.authorization, settings.api_keys)
      limit == LimitExceeded(request.messages, settings)
  IN IF TooLarge(request, settings) THEN Refused(413, "request_body_too_large")
     ELSE IF request.body = "unreadable" THEN Refused(400, "none")
     ELSE IF request.body = "no_json" THEN Refused(422, "none")
     ELSE IF key = "raises" THEN Refused(500, "none")
     ELSE IF key = "no" THEN Refused(401, "invalid_api_key")
     ELSE IF ~SchemaAccepts(request) THEN Refused(422, "none")
     ELSE IF limit # "none" THEN Refused(400, limit)
     ELSE Accepted

\* What estimate_chat_token_cost makes of max_tokens.
CompletionBudget(request, settings) ==
  IF request.max_tokens \in {Absent, 0}
  THEN settings.rate_limit_default_completion_tokens ELSE request.max_tokens

-----------------------------------------------------------------------------
(* local_e2e.py                                                            *)

\* BackendClient._base_url.
BaseUrl(settings) ==
  IF settings.backend_type = "vllm" THEN settings.vllm_base_url ELSE settings.mock_base_url

\* Mutant: BACKEND_TYPE is left to the environment.
GatewayEnvKeepsBackend(config, base) ==
  [base EXCEPT !.api_keys = config.api_key, !.default_model = config.model,
     !.rate_limit_enabled = FALSE, !.mock_base_url = "the mock of the script",
     !.model_aliases = [m \in {"mock", config.model} |-> "mock"]]

\* build_gateway_env: what it does not name comes from the script's environment.
GatewayEnv(config, base) ==
  [base EXCEPT !.api_keys = config.api_key, !.default_model = config.model,
     !.rate_limit_enabled = FALSE, !.backend_type = "mock",
     !.mock_base_url = "the mock of the script",
     !.model_aliases = [m \in {"mock", config.model} |-> "mock"]]

\* The request build_smoke_command leads to.
SmokeRequest(config) ==
  [content_length |-> 5, body |-> "json", wellformed |-> TRUE, max_tokens |-> Absent,
   messages |-> << <<"letter", "space", "letter">> >>, model |-> config.model,
   authorization |-> [scheme |-> "bearer", token |-> config.api_key]]

-----------------------------------------------------------------------------
(* Properties, of one request or one configuration                         *)

\* What a request that passes the checks reserves is positive and bounded by
\* the settings and by its own max_tokens, under either profile: between the
\* overhead plus the completion budget and that plus a token for every
\* character the limits allow.
AcceptedCostBounded(request, settings) ==
  Admit(request, settings) = Accepted =>
    \A profile \in {"estimated", "qwen2"} :
      LET m == request.messages
          budget == CompletionBudget(request, settings)
          cost == ChatCost([i \in DOMAIN m |-> TextTokens(m[i], profile)], budget)
      IN /\ budget > 0
         /\ cost >= budget + CHAT_REQUEST_OVERHEAD_TOKENS + CHAT_MESSAGE_OVERHEAD_TOKENS
         /\ cost <= budget + CHAT_REQUEST_OVERHEAD_TOKENS
                    + CHAT_MESSAGE_OVERHEAD_TOKENS * settings.max_chat_messages
                    + settings.max_chat_total_message_chars

\* Whatever the script's environment configures, the smoke test's request
\* reaches the mock the script has started, and needs no Redis, unless the
\* --api-key is not one key, the --model is empty, or what the script leaves to
\* the environment is in the way: its size limits, or routes that do not parse.
SmokeIsServed(config, base, slot) ==
  LET settings == GatewayEnv(config, base)
      request  == SmokeRequest(config)
      served ==
        /\ Admit(request, settings) = Accepted
        /\ ResolveModelRoute(request.model, settings.model_routes, settings.model_aliases,
                             settings.default_model, slot).error = "none"
        /\ BaseUrl(settings) = "the mock of the script" /\ ~settings.rate_limit_enabled
      plain(c) == c \in {"letter", "space"}
  IN served <=> /\ Strip(config.api_key) # << >>
                /\ \A i \in DOMAIN config.api_key : plain(config.api_key[i])
                /\ config.model # ""
                /\ ~TooLarge(request, base) /\ LimitExceeded(request.messages, base) = "none"
                /\ RoutesParse(base.model_routes)

=============================================================================

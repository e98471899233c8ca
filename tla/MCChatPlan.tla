----------------------------- MODULE MCChatPlan -----------------------------
(***************************************************************************)
(* What a chat request is planned to do, on bounded inputs: ModelRouting on *)
(* every route of at most MaxTargets targets with weights up to MaxWeight  *)
(* and every slot, TokenAccounting on every text of at most MaxLength      *)
(* characters under every configuration, Admission on requests around its  *)
(* limits and on what local_e2e.py can be given.  A step asks for a model, *)
(* adds a character to the text, sends a request, or starts the script.    *)
(***************************************************************************)
EXTENDS Admission

CONSTANTS Models, MaxTargets, MaxWeight, MaxLength

\* parse_model_route refuses a target without a name or a weight.
ASSUME ChatPlanAssumption ==
  /\ "" \notin Models
  /\ MaxTargets \in Nat /\ MaxWeight \in Nat /\ MaxLength \in Nat

VARIABLES targets,   (* the configured route                              *)
          settings,  (* MODEL_ROUTES_JSON and MODEL_ALIASES_JSON          *)
          slot,      (* what the request's key hashes to                  *)
          model,     (* the model the request names                       *)
          text,      (* the content of the request's message              *)
          request,   (* a whole request                                   *)
          local      (* the command line and the environment of the script *)

vars == <<targets, settings, slot, model, text, request, local>>

Target == [model : Models, weight : 1 .. MaxWeight]
Names  == {"routed", "aliased", "both", "default", "unknown"}

With(entries, name, value) ==
  [a \in DOMAIN entries \cup {name} |-> IF a = name THEN value ELSE entries[a]]

\* What the settings can hold besides the route under test: nothing, another
\* entry, or one that does not parse.
RouteSettings ==
  LET two == [a \in {"routed", "both"} |-> targets]
  IN {<< >>, two, With(two, "", targets), With(two, "aliased", << >>),
      With(two, "aliased", <<[model |-> "m1", weight |-> 0]>>)}
AliasSettings ==
  LET two == [a \in {"aliased", "both"} |-> "backend"]
  IN {<< >>, two, With(two, "other", ""), With(two, "", "backend")}

Characters == {"letter", "digit", "cjk", "mark", "word", "space"}

\* Limits that a few characters exceed, and a key that is not ASCII.
Limits == [max_request_body_bytes |-> 5, max_chat_messages |-> 2,
           max_chat_message_chars |-> 3, max_chat_total_message_chars |-> 4,
           rate_limit_default_completion_tokens |-> 2,
           api_keys |-> <<"letter", "comma", "space", "comma", "foreign">>]
SomeTexts == {<< >>, <<"space">>, <<"mark">>, <<"mark", "cjk">>, <<"mark", "letter", "mark">>,
              <<"mark", "space", "letter", "mark">>}
SomeTokens == {<< >>, <<"letter">>, <<"space", "letter">>, <<"digit">>, <<"letter", "foreign">>}
SomeRequests ==
  [content_length : {Absent, 6}, body : {"json", "no_json", "unreadable"}, wellformed : BOOLEAN,
   authorization : [scheme : {"bearer", "basic"}, token : SomeTokens],
   messages : UNION {[1 .. n -> SomeTexts] : n \in 0 .. 3}, max_tokens : {Absent, -1, 0, 1, 3}]
SomeConfigs ==
  [model : {"", "mock", "routed"},
   api_key : UNION {[1 .. n -> {"letter", "space", "comma", "foreign"}] : n \in 0 .. 3}]

\* The environment local_e2e.py is started in.
Environment(backend, limited, chars, routes) ==
  [backend_type |-> backend, rate_limit_enabled |-> limited, max_chat_message_chars |-> chars,
   model_routes |-> routes, model_aliases |-> << >>, default_model |-> "mock",
   mock_base_url |-> "elsewhere", vllm_base_url |-> "elsewhere",
   api_keys |-> Limits.api_keys,
   max_request_body_bytes |-> Limits.max_request_body_bytes,
   max_chat_messages |-> Limits.max_chat_messages,
   max_chat_total_message_chars |-> Limits.max_chat_total_message_chars]

NoRequest == [content_length |-> Absent, body |-> "no_json", wellformed |-> FALSE,
              authorization |-> [scheme |-> "basic", token |-> << >>],
              messages |-> << >>, max_tokens |-> Absent]
NoScript == [config |-> [model |-> "", api_key |-> << >>],
             base |-> Environment("mock", FALSE, 3, << >>)]

Init ==
  /\ \E n \in 1 .. MaxTargets : targets \in [1 .. n -> Target]
  /\ settings = [routes |-> << >>, aliases |-> << >>]
  /\ slot = 0
  /\ model = "none"
  /\ text = << >>
  /\ request = NoRequest /\ local = NoScript

\* Nothing has been asked yet.
Fresh == model = "none" /\ text = << >> /\ request = NoRequest /\ local = NoScript

Ask ==
  /\ Fresh
  /\ slot' \in Slots(targets)
  /\ model' \in Names
  /\ settings' \in [routes : RouteSettings, aliases : AliasSettings]
  /\ UNCHANGED <<targets, text, request, local>>

\* One route is enough for what does not depend on it.
OneRoute == Len(targets) = 1 /\ targets[1].weight = 1 /\ targets[1].model = "m1"

\* The text grows by a character.
Type ==
  /\ OneRoute /\ Len(text) < MaxLength /\ (text = << >> => Fresh)
  /\ \E c \in Characters : text' = Append(text, c)
  /\ UNCHANGED <<targets, settings, slot, model, request, local>>

Send ==
  /\ OneRoute /\ Fresh
  /\ request' \in SomeRequests
  /\ UNCHANGED <<targets, settings, slot, model, text, local>>

Script ==
  /\ OneRoute /\ Fresh
  /\ \E b \in {"mock", "vllm"}, limited \in BOOLEAN, chars \in {2, 3}, routes \in RouteSettings :
       local' \in [config : SomeConfigs, base : {Environment(b, limited, chars, routes)}]
  /\ UNCHANGED <<targets, settings, slot, model, text, request>>

Next == Ask \/ Type \/ Send \/ Script

Spec == Init /\ [][Next]_vars

\* The share of requests a target gets is its weight.
InvWeightsExact == WeightsExact(targets)

\* The order of attempts is a rotation of one target to the front.
InvAttemptsAreTargets == AttemptsAreTargets(targets, slot)

\* Listing and resolving agree, whatever the settings hold.
InvListedIffResolvable ==
  ListedIffResolvable(model, settings.routes, settings.aliases, "default", slot)

\* Whatever profile the names of the client's and the backend's model lead
\* to, and when a tokenizer file is configured but cannot be loaded, a text
\* reserves its length, and the cost of its request is positive, as
\* WindowLimiter assumes.
InvReservesItsLength ==
  \A client \in {"alias", "qwen"}, configured, broken \in SUBSET {"alias", "qwen"} :
    \A profile \in {"", "estimated", "qwen2"} :
      LET n == CountText(text, 0, LoadEntries([m \in broken |-> "moved"]), {},
                         LoadEntries([m \in configured |-> profile]), {"qwen"}, client, "qwen")
      IN ReservesItsLength(text, n) /\ ChatCost(<<n>>, 1) \in Nat \ {0}

\* The cost is estimated for the selected backend; what a fallback with the
\* other profile would have reserved is not far from it.
InvProfilesAgree == ProfilesAgree(text)

\* What passes the checks has a bounded cost.
InvAcceptedCostBounded == AcceptedCostBounded(request, Limits)

\* What the script configures is what it then asks for.
InvSmokeIsServed == SmokeIsServed(local.config, local.base, 0)

=============================================================================

---------------------------- MODULE BackendClient ----------------------------
(***************************************************************************)
(* gateway/app/proxy/backend_client.py: what BackendClient makes of what   *)
(* the backend does with a request, and what GET /ready makes of that.     *)
(***************************************************************************)
EXTENDS Naturals

\* What becomes a BackendClientError: nothing in time; no connection, or a
\* broken one; a status of 500 and more; 404; 429; another one from 400.
Failure == {"timeout", "unreachable", "server_error", "not_found", "busy", "rejected"}

\* Answers below 400 to GET /models: the body is not JSON (that of a redirect,
\* which httpx does not follow, is not either), no object, an object without
\* a list in "data", an empty list, a list of models.
Listing == {"not_json", "not_object", "no_list", "empty", "models"}

\* The status and the code of the BackendClientError.
StatusOf(f) == CASE f = "timeout"                         -> 504
                 [] f \in {"unreachable", "server_error"} -> 502
                 [] f = "not_found"                       -> 404
                 [] f = "busy"                            -> 429
                 [] f = "rejected"                        -> 400
CodeOf(f) == CASE f = "timeout"                         -> "backend_timeout"
               [] f \in {"unreachable", "server_error"} -> "backend_unavailable"
               [] OTHER                                 -> "backend_rejected_request"

\* GET /ready, by what the backend answers to GET /models: the response's
\* status and X-Gateway-Error-Code.  What response.json() and count_models
\* raise has no handler.
Ready(reply) ==
  CASE reply \in Failure                      -> [status |-> 503, code |-> CodeOf(reply)]
    [] reply \in {"not_json", "not_object"}   -> [status |-> 500, code |-> "none"]
    [] reply \in {"no_list", "empty"}         -> [status |-> 503, code |-> "backend_model_list_empty"]
    [] reply = "models"                       -> [status |-> 200, code |-> "none"]

=============================================================================

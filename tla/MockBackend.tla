----------------------------- MODULE MockBackend -----------------------------
(***************************************************************************)
(* serving/mock_backend/app.py: the stream it answers a request with, in   *)
(* the symbols of StreamText.                                              *)
(***************************************************************************)
EXTENDS Integers, Sequences, SequencesExt

\* _last_user_message: of the last user, or whoever speaks last.
LastUserMessage(messages) ==
  LET users == {i \in DOMAIN messages : messages[i].role = "user"}
  IN messages[IF users = {} THEN Len(messages) ELSE Max(users)].content

\* One server-sent event.
Event(payload) == <<"data">> \o payload \o <<"nl", "nl">>

\* _stream_chat_completion: five chunks with a content, of which the last is
\* the prompt (its separators stay as they are in model_dump_json, its
\* newlines do not), the chunk with the finish reason, the end.
StreamChatCompletion(messages) ==
  LET separators == SelectSeq(LastUserMessage(messages), LAMBDA c : c = "sep")
      said(text) == Event(<<"say">> \o text \o <<"backend">>)
  IN FlattenSeq([i \in 1 .. 4 |-> said(<< >>)]) \o said(separators)
     \o Event(<<"role", "backend">>) \o Event(<<"done">>)

=============================================================================

----------------------------- MODULE MCStreamText -----------------------------
(***************************************************************************)
(* StreamText on every stream of MaxEvents events, the last of which the   *)
(* backend may leave without one or both of its newlines, with and without *)
(* a space after "data:", and on those of the mock backend.                *)
(***************************************************************************)
EXTENDS StreamText, MockBackend, FiniteSets

CONSTANTS MaxEvents,
          Payloads        (* what an event of the backend carries          *)

\* A chunk with content, one without, the end, a content with a separator.
AllPayloads  == {<<"say", "backend">>, <<"role", "backend">>, <<"done">>,
                 <<"say", "sep", "backend">>}

Texts == {FlattenSeq([i \in 1 .. n |-> Event(ps[i])]) :
            n \in {MaxEvents}, ps \in [1 .. MaxEvents -> Payloads]}

\* The same of a backend that leaves out the space.
Tight(t) == [i \in DOMAIN t |-> IF t[i] = "data" THEN "tight" ELSE t[i]]

\* Conversations whose last user message has a separator, or has none.
Conversations ==
  {<<[role |-> "user", content |-> <<"word", "sep">>]>>,
   <<[role |-> "user", content |-> <<"word">>], [role |-> "assistant", content |-> <<"sep">>]>>,
   <<[role |-> "system", content |-> <<"word">>]>>}

EveryBody == UNION {{t, Front(t), Front(Front(t))} : t \in Texts \cup {Tight(t) : t \in Texts}}
             \cup {StreamChatCompletion(c) : c \in Conversations}

=============================================================================

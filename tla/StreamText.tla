------------------------------ MODULE StreamText ------------------------------
(***************************************************************************)
(* What a streamed completion says, and what the metrics count of it:      *)
(* rewrite_sse_model_events inside observe_streaming_chunks.  The backend's *)
(* text arrives in chunks that end anywhere; events end at an empty line.  *)
(*                                                                         *)
(* Text is a sequence of symbols:                                          *)
(*   nl                a newline                                           *)
(*   sep               U+2028 and its kin: str.splitlines ends a line      *)
(*                     there, JSON and SSE do not                          *)
(*   data              "data: "                                            *)
(*   tight             "data:" with no space after it: SSE allows it, the   *)
(*                     rewriting skips such a line, the counting does not  *)
(*   done              "[DONE]"                                            *)
(*   say, role         the first half of a JSON chunk whose delta has, or  *)
(*                     has not, a content                                  *)
(*   backend, client   the second half, with the model name of the backend *)
(*                     or of the client                                    *)
(* Lines that end with a carriage return are not modelled: the backends    *)
(* this gateway is written for separate events by two newlines.            *)
(***************************************************************************)
EXTENDS Integers, Sequences, SequencesExt, FiniteSets

CONSTANT Bodies      (* the texts a backend streams                        *)

Symbols == {"nl", "sep", "data", "tight", "done", "say", "role", "backend", "client"}

ASSUME StreamAssumption == Bodies \subseteq Seq(Symbols)

VARIABLES
  body,      (* the text of this stream                                    *)
  alias,     (* the client's model name is not the backend's               *)
  read,      (* how much of body BackendStream.aiter_text has yielded      *)
  buffer,    (* rewrite_sse_model_events: text without a complete event    *)
  held,      (* observe_streaming_chunks: the same, of what it yields      *)
  out,       (* the text yielded to the client                             *)
  counted,   (* STREAM_OUTPUT_CHUNKS_TOTAL                                 *)
  seen,      (* first_content_seen                                         *)
  ttft,      (* observations of STREAM_TTFT_SECONDS                        *)
  status     (* running; completed; broken by the backend; left by the     *)
             (* client (the code says "interrupted" of both)               *)

vars == <<body, alias, read, buffer, held, out, counted, seen, ttft, status>>

-----------------------------------------------------------------------------
(* Text                                                                    *)

\* The loop `while "\n\n" in buffer`: the complete events, without their
\* empty lines, and what is left.
Split(text) ==
  LET step(acc, c) ==
        IF c = "nl" /\ acc.rest # << >> /\ Last(acc.rest) = "nl"
        THEN [events |-> Append(acc.events, Front(acc.rest)), rest |-> << >>]
        ELSE [acc EXCEPT !.rest = Append(@, c)]
  IN FoldLeft(step, [events |-> << >>, rest |-> << >>], text)

\* str.splitlines: a line break at the very end begins no line.
Lines(text) ==
  LET step(acc, c) ==
        IF c \in {"nl", "sep"}
        THEN [lines |-> Append(acc.lines, acc.line), line |-> << >>]
        ELSE [acc EXCEPT !.line = Append(@, c)]
      end == FoldLeft(step, [lines |-> << >>, line |-> << >>], text)
  IN IF end.line = << >> THEN end.lines ELSE Append(end.lines, end.line)

\* json.loads accepts only a chunk that is whole.
Chunks == {<<d, m>> : d \in {"say", "role"}, m \in {"backend", "client"}}
IsData(line) == line # << >> /\ Head(line) \in {"data", "tight"} /\ Tail(line) \in Chunks
IsRewritable(line) == IsData(line) /\ Head(line) = "data"

RewriteLine(line) ==
  IF IsRewritable(line) /\ Last(line) = "backend" THEN Append(Front(line), "client") ELSE line

\* rewrite_sse_event_model: the lines are joined with newlines again.
RewriteEvent(event) ==
  LET lines == Lines(event)
      join(acc, i) == acc \o (IF i = 1 THEN << >> ELSE <<"nl">>) \o RewriteLine(lines[i])
  IN FoldLeft(join, << >>, [i \in 1 .. Len(lines) |-> i])

\* count_sse_event_content_chunks.
ContentChunks(event) ==
  LET lines == Lines(event)
  IN Cardinality({i \in DOMAIN lines : IsData(lines[i]) /\ lines[i][2] = "say"})

ContentOf(events) == FoldLeft(LAMBDA n, e : n + ContentChunks(e), 0, events)

-----------------------------------------------------------------------------
\* Mutant: the flag is not set.
CountForgetsFirst(text) ==
  LET s == Split(text)
      n == ContentOf(s.events)
  IN /\ held' = s.rest
     /\ counted' = counted + n
     /\ UNCHANGED seen
     /\ ttft' = IF n > 0 /\ ~seen THEN ttft + 1 ELSE ttft

\* The body of observe_streaming_chunks' loop, on held \o chunk.
Count(text) ==
  LET s == Split(text)
      n == ContentOf(s.events)
  IN /\ held' = s.rest
     /\ counted' = counted + n
     /\ seen' = (seen \/ n > 0)
     /\ ttft' = IF n > 0 /\ ~seen THEN ttft + 1 ELSE ttft

\* Both generators yield a text: it is counted, then it is sent.
Yield(text) ==
  /\ Count(held \o text)
  /\ out' = out \o text

Complete(text) == Split(text).events # << >>

\* Mutant: every chunk is rewritten as if it were made of whole events.
ReadChunkwise(n) ==
  /\ status = "running"
  /\ read + n <= Len(body)
  /\ Yield(RewriteEvent(SubSeq(body, read + 1, read + n)))
  /\ read' = read + n
  /\ UNCHANGED <<body, alias, buffer, status>>

\* A chunk of n symbols arrives.  Without an alias it is yielded as it is.
Read(n) ==
  LET chunk == SubSeq(body, read + 1, read + n)
  IN /\ status = "running" /\ ~Complete(buffer)
     /\ read + n <= Len(body)
     /\ read' = read + n
     /\ IF alias
        THEN /\ buffer' = buffer \o chunk
             /\ UNCHANGED <<held, out, counted, seen, ttft>>
        ELSE /\ Yield(chunk)
             /\ UNCHANGED buffer
     /\ UNCHANGED <<body, alias, status>>

\* The first complete event leaves the buffer, rewritten.
EmitEvent ==
  LET event == Split(buffer).events[1]
  IN /\ status = "running" /\ Complete(buffer)
     /\ Yield(RewriteEvent(event) \o <<"nl", "nl">>)
     /\ buffer' = SubSeq(buffer, Len(event) + 3, Len(buffer))
     /\ UNCHANGED <<body, alias, read, status>>

\* The backend's stream has ended inside an event.
EmitRest ==
  /\ status = "running" /\ read = Len(body)
  /\ buffer # << >> /\ ~Complete(buffer)
  /\ Yield(RewriteEvent(buffer))
  /\ buffer' = << >>
  /\ UNCHANGED <<body, alias, read, status>>

\* Mutant: the rest is not counted.
ConcludeUncounted(how) ==
  /\ status' = how
  /\ UNCHANGED <<body, alias, read, buffer, held, out, counted, seen, ttft>>

\* The finally clause of observe_streaming_chunks counts what it holds.
Conclude(how) ==
  LET n == ContentChunks(held)
  IN /\ status' = how
     /\ counted' = counted + n
     /\ ttft' = IF n > 0 /\ ~seen THEN ttft + 1 ELSE ttft
     /\ UNCHANGED <<body, alias, read, buffer, held, out, seen>>

Finish ==
  /\ status = "running" /\ read = Len(body) /\ buffer = << >>
  /\ Conclude("completed")

\* The backend's connection breaks; rewrite_sse_model_events has no except
\* clause: what it has buffered is lost.
Break ==
  /\ status = "running" /\ ~Complete(buffer)
  /\ Conclude("broken")

\* The client leaves while a text is being sent to it, or waits for more.
Leave ==
  /\ status = "running"
  /\ Conclude("left")

Init ==
  /\ body \in Bodies
  /\ alias \in BOOLEAN
  /\ read = 0 /\ buffer = << >> /\ held = << >> /\ out = << >>
  /\ counted = 0 /\ seen = FALSE /\ ttft = 0
  /\ status = "running"

Next ==
  \/ \E n \in 1 .. Len(body) : Read(n)
  \/ EmitEvent \/ EmitRest \/ Finish \/ Break \/ Leave

Spec == Init /\ [][Next]_vars

-----------------------------------------------------------------------------
(* Properties                                                              *)

\* What the text means whatever the chunks: every event rewritten on its own.
Rewritten(text) ==
  LET s == Split(text)
  IN FlattenSeq([i \in 1 .. Len(s.events) |-> RewriteEvent(s.events[i]) \o <<"nl", "nl">>])
     \o RewriteEvent(s.rest)

\* However the backend's text is cut into chunks, the client gets the same
\* text, up to where the stream got: what is missing is what the buffer still
\* holds.  A stream that completes loses nothing.
OutputExact ==
  LET sofar == SubSeq(body, 1, read)
  IN /\ IF alias THEN out \o Rewritten(buffer) = Rewritten(sofar) ELSE out = sofar
     /\ status = "completed" => out = IF alias THEN Rewritten(body) ELSE body

\* The chunk counter agrees with the text the client was sent, however it was
\* cut: every content chunk once, also one whose event is never completed.
CountExact ==
  LET s == Split(out)
  IN counted = ContentOf(s.events) + (IF status = "running" THEN 0 ELSE ContentChunks(s.rest))

\* The time to the first content is observed once, with the first content.
FirstContentOnce == ttft = IF counted > 0 THEN 1 ELSE 0

-----------------------------------------------------------------------------
(* What the documentation says                                             *)

\* docs/api_usage.md:193: "The Gateway rewrites streamed `model` values back
\* to the client-facing alias, so clients see the same model name they
\* requested."
ModelRewritten == alias => \A i \in DOMAIN out : out[i] # "backend"

=============================================================================

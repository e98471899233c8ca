--------------------------- MODULE TokenAccounting ---------------------------
(***************************************************************************)
(* gateway/app/core/token_accounting.py: the tokens a chat request         *)
(* reserves.  A text is a sequence of character classes: letter (ASCII),   *)
(* digit, cjk, mark (neither word nor space), word (any other word         *)
(* character) and space.                                                   *)
(***************************************************************************)
EXTENDS Integers, Sequences, SequencesExt

CHAT_MESSAGE_OVERHEAD_TOKENS == 4
CHAT_REQUEST_OVERHEAD_TOKENS == 2
TOKEN_ESTIMATE_CHARS_PER_TOKEN == 4

CeilDiv(n, d) == (n + d - 1) \div d
Larger(m, n) == IF m > n THEN m ELSE n

\* str.strip.
Strip(text) ==
  LET solid == {i \in DOMAIN text : text[i] # "space"}
  IN IF solid = {} THEN << >> ELSE SubSeq(text, Min(solid), Max(solid))

\* The segments _TEXT_SEGMENT_RE finds, and between them what it skips:
\* letters and digits make runs, every other character stands alone.
Segments(text) ==
  LET extends(acc, c) ==
        /\ acc # << >> /\ c \in {"letter", "digit"} /\ Last(acc).class = c
      step(acc, c) ==
        IF extends(acc, c)
        THEN Append(Front(acc), [class |-> c, len |-> Last(acc).len + 1])
        ELSE Append(acc, [class |-> c, len |-> 1])
  IN FoldLeft(step, << >>, text)

SegmentTokens(s) ==
  CASE s.class = "digit"  -> CeilDiv(s.len, 3)
    [] s.class = "letter" -> CeilDiv(s.len, 4)
    [] s.class \in {"cjk", "mark"} -> 1
    [] s.class \in {"word", "space"} -> 0

\* estimate_qwen2_text_tokens.
Qwen2Tokens(text) ==
  Larger(FoldLeft(LAMBDA n, s : n + SegmentTokens(s), 0, Segments(text)), 1)

\* Mutant: a text is estimated by its words alone.
EstimatedTokensOfWords(text) ==
  Cardinality({i \in DOMAIN text : text[i] # "space" /\ (i = 1 \/ text[i - 1] = "space")})

\* Mutant: the division rounds down.
EstimatedTokensFloor(text) ==
  Larger(Cardinality({i \in DOMAIN text : text[i] # "space" /\ (i = 1 \/ text[i - 1] = "space")}),
         Larger(Len(text) \div TOKEN_ESTIMATE_CHARS_PER_TOKEN, 1))

\* The larger of a count of words and one of characters.
EstimatedTokens(text) ==
  LET words == {i \in DOMAIN text : text[i] # "space" /\ (i = 1 \/ text[i - 1] = "space")}
  IN Larger(Cardinality(words),
            Larger(CeilDiv(Len(text), TOKEN_ESTIMATE_CHARS_PER_TOKEN), 1))

\* estimate_text_tokens_by_profile: any other name means the estimate.
TextTokens(text, profile) ==
  LET stripped == Strip(text)
  IN IF stripped = << >> THEN 0
     ELSE IF profile = "qwen2" THEN Qwen2Tokens(stripped)
     ELSE EstimatedTokens(stripped)

-----------------------------------------------------------------------------
\* load_tokenizer_profiles and load_tokenizer_paths, of a JSON object that maps
\* strings to strings: an entry whose name or value is blank, "" here, is dropped
\* without a word.  Another setting raises ValueError in both, which ends the
\* request: the exception of ChatHandler's Limit.
LoadEntries(raw) == [m \in {n \in DOMAIN raw : n # "" /\ raw[n] # ""} |-> raw[m]]

CandidateModels(client, backend) ==
  IF client = backend THEN <<client>> ELSE <<client, backend>>

\* The first candidate with an entry in the configuration.
Configured(entries, client, backend) ==
  SelectSeq(CandidateModels(client, backend), LAMBDA m : m \in DOMAIN entries)

\* resolve_profile; IsQwen says which model names contain "qwen".
ResolveProfile(profiles, IsQwen, client, backend) ==
  LET found == Configured(profiles, client, backend)
  IN IF found # << >> THEN profiles[Head(found)]
     ELSE IF backend \in IsQwen THEN "qwen2" ELSE "estimated"

\* load_huggingface_tokenizer.  files: the paths that existed when they were
\* first asked for, with the tokenizers package installed; lru_cache keeps the
\* answer, also when it is None.  A file that exists and that
\* Tokenizer.from_file cannot read raises at every request, since an exception
\* is not kept: ChatHandler's Limit again.
Loaded(path, files) == path \in files

\* count_text; exact is what the tokenizer, external, counts.  A first file that
\* cannot be loaded leads to the profile, not to the second candidate's file.
CountText(text, exact, paths, files, profiles, IsQwen, client, backend) ==
  LET found == Configured(paths, client, backend)
  IN IF found # << >> /\ Loaded(paths[Head(found)], files) THEN exact
     ELSE TextTokens(text, ResolveProfile(profiles, IsQwen, client, backend))

\* estimate_chat_token_cost, of the counts of the messages' texts and of
\* max_tokens, or its default.
ChatCost(counts, completion) ==
  CHAT_REQUEST_OVERHEAD_TOKENS + completion
    + FoldLeft(LAMBDA n, c : n + CHAT_MESSAGE_OVERHEAD_TOKENS + c, 0, counts)

-----------------------------------------------------------------------------
(* Properties, of one text                                                 *)

\* A text reserves at least one token for every four of the ASCII letters and
\* digits, Chinese characters and marks it shows, at most one for every character
\* of the stripped text, and at least one if it shows anything, under every
\* profile and whatever model names decide it.  Spaces do not count below, and
\* other letters and digits do not either: the qwen2 profile does not see them.
ReservesItsLength(text, n) ==
  LET shown == Cardinality({i \in DOMAIN text : text[i] # "space"})
      seen  == Cardinality({i \in DOMAIN text : text[i] \notin {"space", "word"}})
  IN /\ CeilDiv(seen, TOKEN_ESTIMATE_CHARS_PER_TOKEN) <= n
     /\ n <= Len(Strip(text))
     /\ shown > 0 => n > 0

\* What two backends with different profiles would reserve for one text: the
\* estimate is at least a quarter of the qwen2 count, and exceeds it by no more
\* than one token for every four spaces.  Letters outside ASCII excepted.
ProfilesAgree(text) ==
  LET estimated == TextTokens(text, "estimated")
      qwen2     == TextTokens(text, "qwen2")
      spaces    == Cardinality({i \in DOMAIN text : text[i] = "space"})
  IN "word" \notin ToSet(text) =>
       /\ qwen2 <= TOKEN_ESTIMATE_CHARS_PER_TOKEN * estimated
       /\ estimated <= qwen2 + CeilDiv(spaces, TOKEN_ESTIMATE_CHARS_PER_TOKEN)

=============================================================================

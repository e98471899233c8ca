--------------------------- MODULE StreamText_proofs ---------------------------
(***************************************************************************)
(* For every set of bodies, and every cut of a body into chunks: the       *)
(* client gets the same text, every content chunk of it is counted once,   *)
(* and the time to the first content is observed once.                     *)
(*                                                                         *)
(* Split, Lines, RewriteEvent and ContentOf are folds.  What they compute  *)
(* is known here one symbol at a time: a fold over a sequence is the value *)
(* of one recursive function on sets of indices, and the community         *)
(* modules' FoldLeft is that function's.                                   *)
(***************************************************************************)
EXTENDS StreamText, FoldLemmas

-----------------------------------------------------------------------------
(* The loops of the code, as folds                                         *)

Text == Seq(Symbols)

\* The states of the loop of Split, and its step.
Halves == [events : Seq(Text), rest : Text]
NoText == [events |-> << >>, rest |-> << >>]

SplitStep(acc, c) ==
  IF c = "nl" /\ acc.rest # << >> /\ Last(acc.rest) = "nl"
  THEN [events |-> Append(acc.events, Front(acc.rest)), rest |-> << >>]
  ELSE [acc EXCEPT !.rest = Append(@, c)]

IsSplit(g, t) ==
  g = [s \in SUBSET DOMAIN t |->
         IF s = {} THEN NoText ELSE SplitStep(g[Rest(s)], t[Max(s)])]

\* Split is the value of a recursive function with the step SplitStep.
LEMMA SplitIsFold ==
  ASSUME NEW t
  PROVE  Split(t) = (CHOOSE g : IsSplit(g, t))[DOMAIN t]
BY DEF Split, FoldLeft, MapThenFoldSet, IsSplit, Rest, SplitStep, NoText

\* The states of str.splitlines.
LinesStep(acc, c) ==
  IF c \in {"nl", "sep"}
  THEN [lines |-> Append(acc.lines, acc.line), line |-> << >>]
  ELSE [acc EXCEPT !.line = Append(@, c)]

IsLines(g, t) ==
  g = [s \in SUBSET DOMAIN t |->
         IF s = {} THEN [lines |-> << >>, line |-> << >>]
         ELSE LinesStep(g[Rest(s)], t[Max(s)])]

\* So is what Lines ends with.
LEMMA LinesIsFold ==
  ASSUME NEW t
  PROVE  LET end == (CHOOSE g : IsLines(g, t))[DOMAIN t]
         IN  Lines(t) = IF end.line = << >> THEN end.lines ELSE Append(end.lines, end.line)
BY DEF Lines, FoldLeft, MapThenFoldSet, IsLines, Rest, LinesStep

JoinStep(lines, acc, i) == acc \o (IF i = 1 THEN << >> ELSE <<"nl">>) \o RewriteLine(lines[i])
IsJoin(g, lines, t) ==
  g = [s \in SUBSET DOMAIN t |->
         IF s = {} THEN << >> ELSE JoinStep(lines, g[Rest(s)], t[Max(s)])]

\* So is the rewritten event, whose lines are joined in their order.
LEMMA JoinIsFold ==
  ASSUME NEW event
  PROVE  LET t == [i \in 1 .. Len(Lines(event)) |-> i]
         IN  RewriteEvent(event) = (CHOOSE g : IsJoin(g, Lines(event), t))[DOMAIN t]
BY DEF RewriteEvent, FoldLeft, MapThenFoldSet, IsJoin, Rest, JoinStep

IsContent(g, t) ==
  g = [s \in SUBSET DOMAIN t |->
         IF s = {} THEN 0 ELSE g[Rest(s)] + ContentChunks(t[Max(s)])]
\* So is the count of the content chunks.
LEMMA ContentIsFold ==
  ASSUME NEW t
  PROVE  ContentOf(t) = (CHOOSE g : IsContent(g, t))[DOMAIN t]
BY DEF ContentOf, FoldLeft, MapThenFoldSet, IsContent, Rest

-----------------------------------------------------------------------------
SplitF == [x \in Halves \X Symbols |-> SplitStep(x[1], x[2])]

\* Text without its last symbol is text.
LEMMA FrontOfText ==
  ASSUME NEW t \in Text, t # << >>
  PROVE  Front(t) \in Text
<1>1. Len(t) \in Nat /\ \A i \in 1 .. Len(t) - 1 : t[i] \in Symbols
  BY LenProperties DEF Text
<1> QED
  BY <1>1, SubSeqProperties DEF Front, Text

\* A step of Split keeps texts apart from what is left.
LEMMA SplitStepType ==
  ASSUME NEW a \in Halves, NEW c \in Symbols
  PROVE  SplitStep(a, c) \in Halves
<1>1. a.events \in Seq(Text) /\ a.rest \in Text
  BY DEF Halves
<1>2. CASE c = "nl" /\ a.rest # << >> /\ Last(a.rest) = "nl"
  <2>1. Append(a.events, Front(a.rest)) \in Seq(Text) /\ << >> \in Text
    BY <1>1, <1>2, FrontOfText, AppendProperties, EmptySeq DEF Text
  <2> QED
    BY <1>2, <2>1 DEF SplitStep, Halves
<1>3. CASE ~(c = "nl" /\ a.rest # << >> /\ Last(a.rest) = "nl")
  <2>1. Append(a.rest, c) \in Text
    BY <1>1, AppendProperties DEF Text
  <2> QED
    BY <1>3, <2>1 DEF SplitStep, Halves
<1> QED
  BY <1>2, <1>3

\* Split is a fold.
LEMMA SplitFold ==
  ASSUME NEW t \in Text
  PROVE  Split(t) = Fold(SplitF, NoText, t)
<1>0. t \in Seq(Symbols)
  BY DEF Text
<1>1. SplitF \in [Halves \X Symbols -> Halves] /\ NoText \in Halves
  BY SplitStepType, EmptySeq DEF SplitF, NoText, Halves, Text
<1>2. \A a \in Halves, c \in Symbols : SplitF[<<a, c>>] = SplitStep(a, c)
  BY DEF SplitF
<1>3. \E g : IsSplit(g, t)
  <2>1. PICK g : Computes(g, Halves, Symbols, SplitF, NoText, t)
    BY <1>0, <1>1, FoldSteps
  <2>2. \A s \in SUBSET DOMAIN t :
          g[s] = IF s = {} THEN NoText ELSE SplitStep(g[Rest(s)], t[Max(s)])
    BY <1>2, <2>1 DEF Computes
  <2>3. IsSplit(g, t)
    BY <2>1, <2>2 DEF IsSplit, Computes
  <2> QED
    BY <2>3
<1> DEFINE h == CHOOSE g : IsSplit(g, t)
<1>4. IsSplit(h, t)
  BY <1>3
<1> HIDE DEF h
<1>5. ASSUME NEW s \in SUBSET DOMAIN t, s # {}, h[Rest(s)] \in Halves, t[Max(s)] \in Symbols
      PROVE  h[s] = SplitF[<<h[Rest(s)], t[Max(s)]>>]
  <2>1. h[s] = SplitStep(h[Rest(s)], t[Max(s)])
    BY <1>4, <1>5 DEF IsSplit
  <2> QED
    BY <1>2, <1>5, <2>1
<1>6. h[{}] = NoText
  BY <1>4 DEF IsSplit
<1>7. h[DOMAIN t] = Fold(SplitF, NoText, t)
  <2>1. Follows(h, Halves, Symbols, SplitF, NoText, t)
    BY <1>0, <1>1, <1>5, <1>6 DEF Follows
  <2> QED
    BY <2>1, SameAsFold
<1> QED
  BY <1>7, SplitIsFold DEF h

\* Split, one symbol at a time.
LEMMA SplitSteps ==
  /\ Split(<< >>) = NoText
  /\ \A t \in Text : Split(t) \in Halves
  /\ \A t \in Text, c \in Symbols : Split(Append(t, c)) = SplitStep(Split(t), c)
<1>1. SplitF \in [Halves \X Symbols -> Halves] /\ NoText \in Halves
  BY SplitStepType, EmptySeq DEF SplitF, NoText, Halves, Text
<1>2. << >> \in Text
  BY EmptySeq DEF Text
<1>3. ASSUME NEW t \in Text
      PROVE  Split(t) \in Halves
  <2>1. t \in Seq(Symbols) /\ Split(t) = Fold(SplitF, NoText, t)
    BY SplitFold DEF Text
  <2>2. Fold(SplitF, NoText, t) \in Halves
    BY <1>1, <2>1, FoldType
  <2> QED
    BY <2>1, <2>2
<1>4. ASSUME NEW t \in Text, NEW c \in Symbols
      PROVE  Split(Append(t, c)) = SplitStep(Split(t), c)
  <2>1. Append(t, c) \in Text
    BY AppendProperties DEF Text
  <2>2. Split(Append(t, c)) = SplitF[<<Split(t), c>>]
    <3>1. t \in Seq(Symbols)
      BY DEF Text
    <3>2. Fold(SplitF, NoText, Append(t, c)) = SplitF[<<Fold(SplitF, NoText, t), c>>]
      BY <3>1, FoldOfAppend
    <3> QED
      BY <2>1, <3>2, SplitFold
  <2> QED
    BY <1>3, <2>2 DEF SplitF
<1> QED
  BY <1>2, <1>3, <1>4, SplitFold, FoldOfEmpty

-----------------------------------------------------------------------------
LineStates == [lines : Seq(Text), line : Text]
NoLine == [lines |-> << >>, line |-> << >>]
LinesF == [x \in LineStates \X Symbols |-> LinesStep(x[1], x[2])]

\* A step of Lines keeps lines apart from the line it is in.
LEMMA LinesFType ==
  /\ LinesF \in [LineStates \X Symbols -> LineStates] /\ NoLine \in LineStates
  /\ \A a \in LineStates, c \in Symbols : LinesF[<<a, c>>] = LinesStep(a, c)
<1>1. ASSUME NEW a \in LineStates, NEW c \in Symbols
      PROVE  LinesStep(a, c) \in LineStates
  <2>1. /\ a.lines \in Seq(Text) /\ a.line \in Text /\ << >> \in Text
        /\ a = [lines |-> a.lines, line |-> a.line]
    BY EmptySeq DEF LineStates, Text
  <2>2. Append(a.lines, a.line) \in Seq(Text) /\ Append(a.line, c) \in Text
    BY <2>1, AppendProperties DEF Text
  <2> QED
    BY <2>1, <2>2 DEF LinesStep, LineStates
<1>2. NoLine \in LineStates
  BY EmptySeq DEF NoLine, LineStates, Text
<1> QED
  BY <1>1, <1>2 DEF LinesF

\* Lines is what a fold ends with.
LEMMA LinesFold ==
  ASSUME NEW t \in Text
  PROVE  (CHOOSE g : IsLines(g, t))[DOMAIN t] = Fold(LinesF, NoLine, t)
<1>0. t \in Seq(Symbols)
  BY DEF Text
<1>1. \E g : IsLines(g, t)
  <2>1. PICK g : Computes(g, LineStates, Symbols, LinesF, NoLine, t)
    BY <1>0, LinesFType, FoldSteps
  <2>2. \A s \in SUBSET DOMAIN t :
          g[s] = IF s = {} THEN NoLine ELSE LinesStep(g[Rest(s)], t[Max(s)])
    BY <2>1, LinesFType DEF Computes
  <2>3. IsLines(g, t)
    BY <2>1, <2>2 DEF IsLines, Computes, NoLine
  <2> QED
    BY <2>3
<1> DEFINE h == CHOOSE g : IsLines(g, t)
<1>2. IsLines(h, t)
  BY <1>1
<1> HIDE DEF h
<1>3. ASSUME NEW s \in SUBSET DOMAIN t, s # {}, h[Rest(s)] \in LineStates, t[Max(s)] \in Symbols
      PROVE  h[s] = LinesF[<<h[Rest(s)], t[Max(s)]>>]
  <2>1. h[s] = LinesStep(h[Rest(s)], t[Max(s)])
    BY <1>2, <1>3 DEF IsLines
  <2> QED
    BY <1>3, <2>1, LinesFType
<1>4. h[{}] = NoLine
  BY <1>2 DEF IsLines, NoLine
<1>5. Follows(h, LineStates, Symbols, LinesF, NoLine, t)
  BY <1>0, <1>3, <1>4, LinesFType DEF Follows
<1>6. h[DOMAIN t] = Fold(LinesF, NoLine, t)
  BY <1>5, SameAsFold
<1> QED
  BY <1>6 DEF h

\* The lines of a text are texts, and an empty text has none.
LEMMA LinesOfText ==
  /\ \A t \in Text : Lines(t) \in Seq(Text)
  /\ Lines(<< >>) = << >>
<1>1. ASSUME NEW t \in Text
      PROVE  /\ Fold(LinesF, NoLine, t) \in LineStates
             /\ LET end == Fold(LinesF, NoLine, t)
                IN  Lines(t) = IF end.line = << >> THEN end.lines ELSE Append(end.lines, end.line)
  <2>1. t \in Seq(Symbols)
    BY DEF Text
  <2>2. Fold(LinesF, NoLine, t) \in LineStates
    BY <2>1, LinesFType, FoldType
  <2> QED
    <3> DEFINE end == (CHOOSE g : IsLines(g, t))[DOMAIN t]
    <3>1. Lines(t) = IF end.line = << >> THEN end.lines ELSE Append(end.lines, end.line)
      BY LinesIsFold
    <3>2. end = Fold(LinesF, NoLine, t)
      BY LinesFold
    <3> HIDE DEF end
    <3> QED
      BY <2>2, <3>1, <3>2
<1>2. ASSUME NEW t \in Text PROVE Lines(t) \in Seq(Text)
  <2> DEFINE end == Fold(LinesF, NoLine, t)
  <2>1. end.lines \in Seq(Text) /\ end.line \in Text
    BY <1>1 DEF LineStates
  <2>2. Append(end.lines, end.line) \in Seq(Text)
    BY <2>1, AppendProperties
  <2> QED
    BY <1>1, <2>1, <2>2
<1>3. << >> \in Text /\ Fold(LinesF, NoLine, << >>) = NoLine
  BY EmptySeq, FoldOfEmpty DEF Text
<1>4. Lines(<< >>) = << >>
  BY <1>1, <1>3 DEF NoLine
<1> QED
  BY <1>2, <1>4

-----------------------------------------------------------------------------
\* A rewritten line is a text.
LEMMA RewriteLineType ==
  ASSUME NEW l \in Text
  PROVE  RewriteLine(l) \in Text
<1>1. CASE IsRewritable(l) /\ Last(l) = "backend"
  <2>1. Front(l) \in Text
    BY <1>1, FrontOfText DEF IsRewritable, IsData
  <2>2. Append(Front(l), "client") \in Text
    BY <2>1, AppendProperties DEF Text, Symbols
  <2> QED
    BY <1>1, <2>2 DEF RewriteLine
<1> QED
  BY <1>1 DEF RewriteLine

\* Rewritten lines joined are a text.
LEMMA JoinFType ==
  ASSUME NEW lines \in Seq(Text)
  PROVE  LET C == 1 .. Len(lines)
             F == [x \in Text \X C |-> JoinStep(lines, x[1], x[2])]
         IN  /\ F \in [Text \X C -> Text]
             /\ \A a \in Text, i \in C : F[<<a, i>>] = JoinStep(lines, a, i)
<1>1. ASSUME NEW a \in Text, NEW i \in 1 .. Len(lines)
      PROVE  JoinStep(lines, a, i) \in Text
  <2> DEFINE between == IF i = 1 THEN << >> ELSE <<"nl">>
  <2>1. between \in Text
    <3>1. << >> \in Text
      BY EmptySeq DEF Text
    <3>2. "nl" \in Symbols
      BY DEF Symbols
    <3>3. <<"nl">> \in Text
      BY <3>2 DEF Text
    <3> QED
      BY <3>1, <3>3
  <2>2. lines[i] \in Text
    BY ElementOfSeq
  <2>3. RewriteLine(lines[i]) \in Text
    BY <2>2, RewriteLineType
  <2> HIDE DEF between
  <2>4. a \o between \in Text
    BY <2>1, ConcatProperties DEF Text
  <2>5. (a \o between) \o RewriteLine(lines[i]) \in Text
    BY <2>3, <2>4, ConcatProperties DEF Text
  <2> QED
    BY <2>5 DEF JoinStep, between
<1> QED
  BY <1>1

\* A rewritten event is a text, and nothing remains nothing.
LEMMA RewrittenIsText ==
  /\ \A e \in Text : RewriteEvent(e) \in Text
  /\ RewriteEvent(<< >>) = << >>
<1>1. ASSUME NEW e \in Text
      PROVE  /\ RewriteEvent(e) \in Text
             /\ Lines(e) = << >> => RewriteEvent(e) = << >>
  <2> DEFINE lines == Lines(e)
             C == 1 .. Len(lines)
             t == [i \in 1 .. Len(lines) |-> i]
             F == [x \in Text \X C |-> JoinStep(lines, x[1], x[2])]
  <2>1. lines \in Seq(Text) /\ Len(lines) \in Nat /\ (lines = << >> => Len(lines) = 0)
    BY <1>1, LinesOfText, LenProperties
  <2>2. RewriteEvent(e) = (CHOOSE g : IsJoin(g, lines, t))[DOMAIN t]
    BY JoinIsFold
  <2> HIDE DEF lines
  <2>3. /\ F \in [Text \X C -> Text] /\ << >> \in Text
        /\ \A a \in Text, i \in C : F[<<a, i>>] = JoinStep(lines, a, i)
    BY <2>1, JoinFType, EmptySeq DEF Text
  <2>4. t \in Seq(C) /\ DOMAIN t = 1 .. Len(lines)
    BY <2>1
  <2>5. Len(lines) = 0 => t = << >>
    BY <2>1
  <2> HIDE DEF F, t, C
  <2>6. \E g : IsJoin(g, lines, t)
    <3>1. PICK g : Computes(g, Text, C, F, << >>, t)
      BY <2>3, <2>4, FoldSteps
    <3>2. \A s \in SUBSET DOMAIN t :
            g[s] = IF s = {} THEN << >> ELSE JoinStep(lines, g[Rest(s)], t[Max(s)])
      BY <2>3, <3>1 DEF Computes
    <3>3. IsJoin(g, lines, t)
      BY <3>1, <3>2 DEF IsJoin, Computes
    <3> QED
      BY <3>3
  <2> DEFINE h == CHOOSE g : IsJoin(g, lines, t)
  <2>7. IsJoin(h, lines, t)
    BY <2>6
  <2> HIDE DEF h
  <2>8. ASSUME NEW s \in SUBSET DOMAIN t, s # {}, h[Rest(s)] \in Text, t[Max(s)] \in C
        PROVE  h[s] = F[<<h[Rest(s)], t[Max(s)]>>]
    <3>1. h[s] = JoinStep(lines, h[Rest(s)], t[Max(s)])
      BY <2>7, <2>8 DEF IsJoin
    <3> QED
      BY <2>3, <2>8, <3>1
  <2>9. h[{}] = << >>
    BY <2>7 DEF IsJoin
  <2>10. Follows(h, Text, C, F, << >>, t)
    BY <2>3, <2>4, <2>8, <2>9 DEF Follows
  <2>11. h[DOMAIN t] = Fold(F, << >>, t)
    BY <2>10, SameAsFold
  <2>12. Fold(F, << >>, t) \in Text
    BY <2>3, <2>4, FoldType
  <2>13. Fold(F, << >>, << >>) = << >>
    BY FoldOfEmpty
  <2> QED
    BY <2>1, <2>2, <2>5, <2>11, <2>12, <2>13 DEF h, lines
<1>2. << >> \in Text
  BY EmptySeq DEF Text
<1> QED
  BY <1>1, <1>2, LinesOfText

-----------------------------------------------------------------------------
\* The content chunks of an event can be counted.
LEMMA ChunksAreFinite ==
  ASSUME NEW e \in Text
  PROVE  ContentChunks(e) \in Nat
<1> DEFINE lines == Lines(e)
           D == DOMAIN lines
           S == {i \in D : IsData(lines[i]) /\ lines[i][2] = "say"}
<1>1. Len(lines) \in Nat /\ D = 1 .. Len(lines)
  BY LinesOfText, LenProperties
<1>2. IsFiniteSet(D)
  BY <1>1, FS_Interval
<1>3. S \subseteq D
  OBVIOUS
<1>4. ContentChunks(e) = Cardinality(S)
  BY DEF ContentChunks
<1> HIDE DEF S, D
<1> QED
  BY <1>2, <1>3, <1>4, FS_Subset, FS_CardinalityType

ContentF == [x \in Nat \X Text |-> x[1] + ContentChunks(x[2])]

\* ContentOf is a fold.
LEMMA ContentFold ==
  ASSUME NEW t \in Seq(Text)
  PROVE  ContentOf(t) = Fold(ContentF, 0, t)
<1>1. /\ ContentF \in [Nat \X Text -> Nat] /\ 0 \in Nat
      /\ \A a \in Nat, c \in Text : ContentF[<<a, c>>] = a + ContentChunks(c)
  BY ChunksAreFinite DEF ContentF
<1>2. \E g : IsContent(g, t)
  <2>1. PICK g : Computes(g, Nat, Text, ContentF, 0, t)
    BY <1>1, FoldSteps
  <2>2. \A s \in SUBSET DOMAIN t :
          g[s] = IF s = {} THEN 0 ELSE g[Rest(s)] + ContentChunks(t[Max(s)])
    BY <1>1, <2>1 DEF Computes
  <2>3. IsContent(g, t)
    BY <2>1, <2>2 DEF IsContent, Computes
  <2> QED
    BY <2>3
<1> DEFINE h == CHOOSE g : IsContent(g, t)
<1>3. IsContent(h, t)
  BY <1>2
<1> HIDE DEF h
<1>4. ASSUME NEW s \in SUBSET DOMAIN t, s # {}, h[Rest(s)] \in Nat, t[Max(s)] \in Text
      PROVE  h[s] = ContentF[<<h[Rest(s)], t[Max(s)]>>]
  <2>1. h[s] = h[Rest(s)] + ContentChunks(t[Max(s)])
    BY <1>3, <1>4 DEF IsContent
  <2> QED
    BY <1>1, <1>4, <2>1
<1>5. h[{}] = 0
  BY <1>3 DEF IsContent
<1>6. Follows(h, Nat, Text, ContentF, 0, t)
  BY <1>1, <1>4, <1>5 DEF Follows
<1>7. h[DOMAIN t] = Fold(ContentF, 0, t)
  BY <1>6, SameAsFold
<1> QED
  BY <1>7, ContentIsFold DEF h

\* The content of a sequence of events, one event at a time.
LEMMA ContentSteps ==
  /\ ContentOf(<< >>) = 0
  /\ \A t \in Seq(Text) : ContentOf(t) \in Nat
  /\ \A t \in Seq(Text), e \in Text : ContentOf(Append(t, e)) = ContentOf(t) + ContentChunks(e)
<1>1. ContentF \in [Nat \X Text -> Nat] /\ 0 \in Nat
  BY ChunksAreFinite DEF ContentF
<1>2. << >> \in Seq(Text)
  BY EmptySeq
<1>3. ASSUME NEW t \in Seq(Text)
      PROVE  ContentOf(t) \in Nat
  <2>1. Fold(ContentF, 0, t) \in Nat
    BY <1>1, FoldType
  <2> QED
    BY <2>1, ContentFold
<1>4. ASSUME NEW t \in Seq(Text), NEW e \in Text
      PROVE  ContentOf(Append(t, e)) = ContentOf(t) + ContentChunks(e)
  <2>1. Append(t, e) \in Seq(Text)
    BY AppendProperties
  <2>2. Fold(ContentF, 0, Append(t, e)) = ContentF[<<Fold(ContentF, 0, t), e>>]
    BY FoldOfAppend
  <2> QED
    BY <1>3, <2>1, <2>2, ContentFold DEF ContentF
<1> QED
  BY <1>2, <1>3, <1>4, ContentFold, FoldOfEmpty

-----------------------------------------------------------------------------
\* A sequence and one symbol after it.
LEMMA ConcatAppend ==
  ASSUME NEW S, NEW a \in Seq(S), NEW b \in Seq(S), NEW e \in S
  PROVE  a \o Append(b, e) = Append(a \o b, e)
<1>1. <<e>> \in Seq(S) /\ a \o b \in Seq(S)
  BY ConcatProperties
<1>2. a \o Append(b, e) = a \o (b \o <<e>>)
  BY AppendIsConcat
<1>3. a \o (b \o <<e>>) = (a \o b) \o <<e>>
  BY <1>1, ConcatAssociative
<1>4. (a \o b) \o <<e>> = Append(a \o b, e)
  BY <1>1, AppendIsConcat
<1> QED
  BY <1>2, <1>3, <1>4

ConcatF == [x \in Text \X Text |-> x[1] \o x[2]]

\* Three texts one after the other.
LEMMA TextsAssociate ==
  ASSUME NEW x \in Text, NEW y \in Text, NEW z \in Text
  PROVE  (x \o y) \o z = x \o (y \o z)
BY ConcatAssociative DEF Text

\* Texts one after the other are a text.
LEMMA ConcatFType ==
  /\ ConcatF \in [Text \X Text -> Text] /\ << >> \in Text
  /\ \A a, b \in Text : ConcatF[<<a, b>>] = a \o b
<1>1. \A a, b \in Text : a \o b \in Text
  BY ConcatProperties DEF Text
<1> QED
  BY <1>1, EmptySeq DEF ConcatF, Text

IsFlat(f, t) == f = [i \in 1 .. Len(t) |-> IF i = 1 THEN t[i] ELSE f[i - 1] \o t[i]]

\* The recursion of FlattenSeq.
LEMMA FlattenDef ==
  ASSUME NEW t
  PROVE  FlattenSeq(t) = IF Len(t) = 0 THEN t ELSE (CHOOSE f : IsFlat(f, t))[Len(t)]
BY DEF FlattenSeq, IsFlat

\* FlattenSeq is a fold.
LEMMA FlattenFold ==
  ASSUME NEW t \in Seq(Text)
  PROVE  FlattenSeq(t) = Fold(ConcatF, << >>, t)
<1> DEFINE n == Len(t)
           upto(i) == Fold(ConcatF, << >>, SubSeq(t, 1, i))
<1>1. n \in Nat /\ \A i \in 1 .. n : t[i] \in Text
  BY LenProperties
<1>2. \A i \in 0 .. n : SubSeq(t, 1, i) \in Seq(Text)
  BY <1>1, SubSeqProperties
<1>3. ASSUME NEW i \in 1 .. n
      PROVE  upto(i) = upto(i - 1) \o t[i] /\ upto(i - 1) \in Text
  <2>1. i - 1 \in 0 .. n /\ t[i] \in Text
    BY <1>1
  <2>2. SubSeq(t, 1, i) = SubSeq(t, 1, i - 1) \o <<t[i]>>
    BY <1>1, SubSeqRecursiveSecond
  <2> DEFINE u == SubSeq(t, 1, i - 1)
  <2>3. u \in Seq(Text)
    BY <1>2, <2>1
  <2> HIDE DEF u
  <2>4. u \o <<t[i]>> = Append(u, t[i])
    BY <2>1, <2>3, AppendIsConcat
  <2>5. Fold(ConcatF, << >>, Append(u, t[i])) = ConcatF[<<Fold(ConcatF, << >>, u), t[i]>>]
    BY <2>1, <2>3, FoldOfAppend
  <2>6. Fold(ConcatF, << >>, u) \in Text
    BY <2>3, ConcatFType, FoldType
  <2> QED
    BY <2>1, <2>2, <2>4, <2>5, <2>6, ConcatFType DEF u
<1>4. upto(0) = << >>
  <2>1. SubSeq(t, 1, 0) = << >>
    BY SubSeqEmpty
  <2> QED
    BY <2>1, FoldOfEmpty
<1>5. 1 \in 1 .. n => upto(1) = t[1]
  <2> SUFFICES ASSUME 1 \in 1 .. n PROVE upto(1) = t[1]
    OBVIOUS
  <2> HIDE DEF upto, n
  <2>1. upto(1) = upto(0) \o t[1] /\ t[1] \in Text
    <3>1. t[1] \in Text
      BY <1>1
    <3>2. \A i \in 1 .. n : i = 1 => upto(i) = upto(0) \o t[i]
      <4> SUFFICES ASSUME NEW i \in 1 .. n, i = 1 PROVE upto(i) = upto(0) \o t[i]
        OBVIOUS
      <4>1. i - 1 = 0
        OBVIOUS
      <4>2. upto(i) = upto(i - 1) \o t[i]
        BY <1>3
      <4> QED
        BY <4>1, <4>2
    <3> QED
      BY <3>1, <3>2
  <2>2. << >> \o t[1] = t[1]
    BY <2>1, ConcatEmptySeq DEF Text
  <2> QED
    BY <1>4, <2>1, <2>2
<1>6. upto(n) = Fold(ConcatF, << >>, t)
  BY SubSeqFull
<1> HIDE DEF upto, n
<1>7. CASE n = 0
  <2>1. t = << >>
    BY <1>7, EmptySeq DEF n
  <2> QED
    BY <1>7, <2>1, FlattenDef, FoldOfEmpty DEF n
<1>8. CASE n # 0
  <2> DEFINE f == [i \in 1 .. n |-> upto(i)]
  <2>1. f = [i \in 1 .. n |-> IF i = 1 THEN t[i] ELSE f[i - 1] \o t[i]]
    <3>1. ASSUME NEW i \in 1 .. n PROVE upto(i) = IF i = 1 THEN t[i] ELSE f[i - 1] \o t[i]
      <4>1. i # 1 => i - 1 \in 1 .. n
        BY <1>1
      <4> QED
        BY <1>3, <1>5, <4>1
    <3> QED
      BY <3>1
  <2>2. IsFlat(f, t)
    <3> HIDE DEF f
    <3> QED
      BY <2>1 DEF IsFlat, n
  <2> DEFINE h == CHOOSE g : IsFlat(g, t)
  <2>3. IsFlat(h, t)
    <3> HIDE DEF f
    <3> QED
      BY <2>2
  <2> HIDE DEF h
  <2> DEFINE P == {i \in Nat : i + 1 \in 1 .. n => h[i + 1] = upto(i + 1)}
  <2>4. 0 \in P
    BY <1>5, <2>3 DEF IsFlat, n
  <2>5. ASSUME NEW i \in Nat, i \in P PROVE i + 1 \in P
    <3> SUFFICES ASSUME (i + 1) + 1 \in 1 .. n PROVE h[(i + 1) + 1] = upto((i + 1) + 1)
      OBVIOUS
    <3> DEFINE j == (i + 1) + 1
    <3>1. j \in 1 .. n /\ j # 1 /\ j - 1 = i + 1 /\ i + 1 \in 1 .. n
      BY <1>1
    <3>2. h[j] = h[j - 1] \o t[j]
      BY <2>3, <3>1 DEF IsFlat, n
    <3>3. upto(j) = upto(j - 1) \o t[j]
      BY <1>3, <3>1
    <3>4. h[j - 1] = upto(j - 1)
      BY <2>5, <3>1
    <3> QED
      BY <3>2, <3>3, <3>4
  <2>6. Nat \subseteq P
    <3> HIDE DEF P
    <3> QED
      BY <2>4, <2>5, NatSetInduction
  <2>7. n - 1 \in P /\ (n - 1) + 1 = n /\ n \in 1 .. n
    <3> HIDE DEF P
    <3> QED
      BY <1>1, <1>8, <2>6
  <2>8. h[n] = upto(n)
    BY <2>7
  <2>9. FlattenSeq(t) = h[n]
    BY <1>8, FlattenDef DEF n, h
  <2> QED
    BY <1>6, <2>8, <2>9
<1> QED
  BY <1>7, <1>8

-----------------------------------------------------------------------------
\* What the client is sent for a complete event, and for a sequence of them.
EventText(e) == RewriteEvent(e) \o <<"nl", "nl">>
Emitted(events) == FlattenSeq([i \in 1 .. Len(events) |-> EventText(events[i])])

\* What is sent for an event is a text.
LEMMA EventTextType ==
  ASSUME NEW e \in Text
  PROVE  EventText(e) \in Text
<1>1. "nl" \in Symbols
  BY DEF Symbols
<1>2. <<"nl", "nl">> \in Text
  BY <1>1 DEF Text
<1> QED
  BY <1>2, RewrittenIsText, ConcatProperties DEF EventText, Text

\* What is sent for a sequence of events, one event at a time.
LEMMA EmittedSteps ==
  /\ Emitted(<< >>) = << >>
  /\ \A t \in Seq(Text) : Emitted(t) \in Text
  /\ \A t \in Seq(Text), e \in Text : Emitted(Append(t, e)) = Emitted(t) \o EventText(e)
<1> DEFINE Of(t) == [i \in 1 .. Len(t) |-> EventText(t[i])]
<1>1. ASSUME NEW t \in Seq(Text)
      PROVE  /\ Of(t) \in Seq(Text) /\ Len(Of(t)) = Len(t)
             /\ Emitted(t) = Fold(ConcatF, << >>, Of(t)) /\ Emitted(t) \in Text
  <2>1. Len(t) \in Nat /\ \A i \in 1 .. Len(t) : EventText(t[i]) \in Text
    BY LenProperties, EventTextType
  <2>2. Of(t) \in Seq(Text) /\ Len(Of(t)) = Len(t)
    BY <2>1
  <2> DEFINE u == Of(t)
  <2>3. Emitted(t) = FlattenSeq(u)
    BY DEF Emitted
  <2>4. u \in Seq(Text)
    BY <2>2
  <2> HIDE DEF u
  <2>5. FlattenSeq(u) = Fold(ConcatF, << >>, u)
    BY <2>4, FlattenFold
  <2>6. Fold(ConcatF, << >>, u) \in Text
    BY <2>4, ConcatFType, FoldType
  <2> QED
    BY <2>2, <2>3, <2>5, <2>6 DEF u
<1>2. ASSUME NEW t \in Seq(Text), NEW e \in Text
      PROVE  Emitted(Append(t, e)) = Emitted(t) \o EventText(e)
  <2>1. /\ Append(t, e) \in Seq(Text) /\ Len(Append(t, e)) = Len(t) + 1 /\ Len(t) \in Nat
        /\ \A i \in 1 .. Len(t) : Append(t, e)[i] = t[i]
        /\ Append(t, e)[Len(t) + 1] = e
    BY AppendProperties, LenProperties
  <2>2. Of(t) \in Seq(Text) /\ Len(Of(t)) = Len(t) /\ EventText(e) \in Text
    BY <1>1, EventTextType
  <2>3. Of(Append(t, e)) = Append(Of(t), EventText(e))
    <3> DEFINE u == Of(Append(t, e))
               v == Append(Of(t), EventText(e))
    <3>1. u \in Seq(Text) /\ Len(u) = Len(t) + 1
      BY <1>1, <2>1
    <3>2. /\ v \in Seq(Text) /\ Len(v) = Len(t) + 1
          /\ \A i \in 1 .. Len(t) : v[i] = Of(t)[i]
          /\ v[Len(t) + 1] = EventText(e)
      <4> DEFINE w == Of(t)
      <4>1. w \in Seq(Text) /\ Len(w) = Len(t)
        BY <2>2
      <4> HIDE DEF w
      <4>2. /\ Append(w, EventText(e)) \in Seq(Text)
            /\ Len(Append(w, EventText(e))) = Len(t) + 1
            /\ \A i \in 1 .. Len(t) : Append(w, EventText(e))[i] = w[i]
            /\ Append(w, EventText(e))[Len(t) + 1] = EventText(e)
        BY <2>2, <4>1, AppendProperties
      <4> QED
        BY <4>2 DEF w
    <3>3. ASSUME NEW i \in 1 .. Len(t) + 1 PROVE u[i] = v[i]
      <4>1. u[i] = EventText(Append(t, e)[i])
        BY <2>1
      <4>2. CASE i = Len(t) + 1
        BY <2>1, <3>2, <4>1, <4>2
      <4>3. CASE i # Len(t) + 1
        <5>1. i \in 1 .. Len(t)
          BY <2>1, <4>3
        <5>2. v[i] = EventText(t[i])
          BY <3>2, <5>1
        <5> QED
          BY <2>1, <4>1, <5>1, <5>2
      <4> QED
        BY <4>2, <4>3
    <3> HIDE DEF u, v
    <3>4. u = v
      BY <3>1, <3>2, <3>3, SeqEqual
    <3> QED
      BY <3>4 DEF u, v
  <2> HIDE DEF Of
  <2>4. Fold(ConcatF, << >>, Append(Of(t), EventText(e)))
          = ConcatF[<<Fold(ConcatF, << >>, Of(t)), EventText(e)>>]
    BY <2>2, FoldOfAppend
  <2>5. Emitted(Append(t, e)) = Fold(ConcatF, << >>, Of(Append(t, e)))
    BY <1>1, <2>1
  <2> QED
    BY <1>1, <2>2, <2>3, <2>4, <2>5, ConcatFType
<1>3. Emitted(<< >>) = << >>
  <2>1. << >> \in Seq(Text) /\ Of(<< >>) = << >>
    BY EmptySeq
  <2> HIDE DEF Of
  <2>2. Emitted(<< >>) = Fold(ConcatF, << >>, << >>)
    BY <1>1, <2>1
  <2> QED
    BY <2>2, FoldOfEmpty
<1> QED
  BY <1>1, <1>2, <1>3

\* What is sent for the events of two sequences, and counted of them.
LEMMA EventsConcat ==
  ASSUME NEW a \in Seq(Text), NEW b \in Seq(Text)
  PROVE  /\ Emitted(a \o b) = Emitted(a) \o Emitted(b)
         /\ ContentOf(a \o b) = ContentOf(a) + ContentOf(b)
<1> DEFINE P == {s \in Seq(Text) : /\ Emitted(a \o s) = Emitted(a) \o Emitted(s)
                                   /\ ContentOf(a \o s) = ContentOf(a) + ContentOf(s)}
<1>1. Emitted(a) \in Text /\ ContentOf(a) \in Nat
  BY EmittedSteps, ContentSteps
<1>2. << >> \in P
  <2>1. << >> \in Seq(Text) /\ a \o << >> = a
    BY EmptySeq, ConcatEmptySeq
  <2>2. Emitted(a) \o << >> = Emitted(a)
    BY <1>1, ConcatEmptySeq DEF Text
  <2> QED
    <3>1. Emitted(a \o << >>) = Emitted(a) \o Emitted(<< >>)
      BY <2>1, <2>2, EmittedSteps
    <3>2. ContentOf(a \o << >>) = ContentOf(a) + ContentOf(<< >>)
      BY <1>1, <2>1, ContentSteps
    <3> QED
      BY <2>1, <3>1, <3>2
<1>3. ASSUME NEW s \in Seq(Text), NEW e \in Text, s \in P
      PROVE  Append(s, e) \in P
  <2>1. a \o Append(s, e) = Append(a \o s, e) /\ a \o s \in Seq(Text) /\ Append(s, e) \in Seq(Text)
    BY ConcatAppend, ConcatProperties, AppendProperties
  <2>2. Emitted(a \o Append(s, e)) = Emitted(a \o s) \o EventText(e)
    BY <2>1, EmittedSteps
  <2>3. (Emitted(a) \o Emitted(s)) \o EventText(e) = Emitted(a) \o (Emitted(s) \o EventText(e))
    <3>1. Emitted(s) \in Text /\ Emitted(a) \in Text /\ EventText(e) \in Text
      BY EmittedSteps, EventTextType
    <3> QED
      BY <3>1, TextsAssociate
  <2>4. Emitted(Append(s, e)) = Emitted(s) \o EventText(e)
    BY EmittedSteps
  <2>5. /\ ContentOf(a \o Append(s, e)) = ContentOf(a \o s) + ContentChunks(e)
        /\ ContentOf(Append(s, e)) = ContentOf(s) + ContentChunks(e)
    BY <2>1, ContentSteps
  <2>6. ContentChunks(e) \in Nat /\ ContentOf(s) \in Nat
    BY ChunksAreFinite, ContentSteps
  <2> QED
    <3>1. Emitted(a \o s) = Emitted(a) \o Emitted(s) /\ ContentOf(a \o s) = ContentOf(a) + ContentOf(s)
      BY <1>3
    <3>2. Emitted(a \o Append(s, e)) = Emitted(a) \o Emitted(Append(s, e))
      BY <2>2, <2>3, <2>4, <3>1
    <3>3. ContentOf(a \o Append(s, e)) = ContentOf(a) + ContentOf(Append(s, e))
      BY <1>1, <2>5, <2>6, <3>1
    <3> QED
      BY <2>1, <3>2, <3>3
<1>4. Seq(Text) \subseteq P
  <2> HIDE DEF P
  <2> QED
    BY <1>2, <1>3, SeqInduction
<1> QED
  BY <1>4

-----------------------------------------------------------------------------
\* What Split gives has two parts.
LEMMA HalvesParts ==
  ASSUME NEW x \in Halves
  PROVE  x.events \in Seq(Text) /\ x.rest \in Text /\ x = [events |-> x.events, rest |-> x.rest]
BY DEF Halves

\* What is left of a text holds no complete event.
LEMMA RestIsRest ==
  ASSUME NEW a \in Text
  PROVE  Split(Split(a).rest) = [events |-> << >>, rest |-> Split(a).rest]
<1> DEFINE P == {t \in Text : Split(Split(t).rest) = [events |-> << >>, rest |-> Split(t).rest]}
<1>1. << >> \in P
  BY SplitSteps, EmptySeq DEF NoText, Text
<1>2. ASSUME NEW t \in Text, NEW c \in Symbols, t \in P
      PROVE  Append(t, c) \in P
  <2> DEFINE s == Split(t)
  <2>1. /\ s \in Halves /\ s.events \in Seq(Text) /\ s.rest \in Text
        /\ Split(Append(t, c)) = SplitStep(s, c) /\ Append(t, c) \in Text
        /\ Split(s.rest) = [events |-> << >>, rest |-> s.rest]
        /\ s = [events |-> s.events, rest |-> s.rest]
    BY <1>2, SplitSteps, HalvesParts, AppendProperties DEF Text
  <2> HIDE DEF s
  <2>2. CASE c = "nl" /\ s.rest # << >> /\ Last(s.rest) = "nl"
    <3>1. SplitStep(s, c).rest = << >>
      BY <2>2 DEF SplitStep
    <3> QED
      BY <2>1, <3>1, SplitSteps DEF NoText
  <2>3. CASE ~(c = "nl" /\ s.rest # << >> /\ Last(s.rest) = "nl")
    <3>1. SplitStep(s, c).rest = Append(s.rest, c)
      BY <2>1, <2>3 DEF SplitStep
    <3>2. Split(Append(s.rest, c)) = SplitStep([events |-> << >>, rest |-> s.rest], c)
      BY <2>1, SplitSteps
    <3>3. SplitStep([events |-> << >>, rest |-> s.rest], c)
            = [events |-> << >>, rest |-> Append(s.rest, c)]
      BY <2>3 DEF SplitStep
    <3> QED
      BY <2>1, <3>1, <3>2, <3>3
  <2> QED
    BY <2>2, <2>3
<1>3. Seq(Symbols) \subseteq P
  <2> HIDE DEF P
  <2> QED
    BY <1>1, <1>2, SeqInduction DEF Text
<1> QED
  BY <1>3 DEF Text

\* Two texts, split one after the other.
Resumed(x, y) == [events |-> x.events \o y.events, rest |-> y.rest]

\* The parts of what the second split adds to the first.
LEMMA ResumedParts ==
  ASSUME NEW x, NEW y
  PROVE  Resumed(x, y).events = x.events \o y.events /\ Resumed(x, y).rest = y.rest
BY DEF Resumed

\* Splitting what is left of a text together with what comes after it gives the
\* events that splitting the whole gives: the cut between them is of no matter.
LEMMA SplitConcat ==
  ASSUME NEW a \in Text, NEW b \in Text
  PROVE  Split(a \o b) = Resumed(Split(a), Split(Split(a).rest \o b))
<1> DEFINE s == Split(a)
           P == {t \in Text : Split(a \o t) = Resumed(s, Split(s.rest \o t))}
<1>1. /\ s \in Halves /\ s.events \in Seq(Text) /\ s.rest \in Text
      /\ s = [events |-> s.events, rest |-> s.rest]
      /\ Split(s.rest) = [events |-> << >>, rest |-> s.rest]
  BY SplitSteps, HalvesParts, RestIsRest
<1> HIDE DEF s
<1>2. << >> \in P
  <2>1. << >> \in Text
    BY EmptySeq DEF Text
  <2>2. a \o << >> = a /\ s.rest \o << >> = s.rest
    BY <1>1, ConcatEmptySeq DEF Text
  <2>3. s.events \o << >> = s.events
    BY <1>1, ConcatEmptySeq
  <2>4. Resumed(s, Split(s.rest)) = s
    <3>1. Split(s.rest).events = << >> /\ Split(s.rest).rest = s.rest
      BY <1>1
    <3>2. Resumed(s, Split(s.rest)) = [events |-> s.events, rest |-> s.rest]
      BY <2>3, <3>1 DEF Resumed
    <3> QED
      BY <1>1, <3>2
  <2>5. Split(a \o << >>) = Resumed(s, Split(s.rest \o << >>))
    BY <2>2, <2>4 DEF s
  <2>6. ASSUME NEW t \in Text, Split(a \o t) = Resumed(s, Split(s.rest \o t)) PROVE t \in P
    BY <2>6
  <2> HIDE DEF P
  <2> QED
    BY <2>1, <2>5, <2>6
<1>3. ASSUME NEW t \in Text, NEW c \in Symbols, t \in P
      PROVE  Append(t, c) \in P
  <2>1. /\ a \o Append(t, c) = Append(a \o t, c) /\ a \o t \in Text /\ Append(t, c) \in Text
        /\ s.rest \o Append(t, c) = Append(s.rest \o t, c) /\ s.rest \o t \in Text
    <3>1. a \in Seq(Symbols) /\ s.rest \in Seq(Symbols) /\ t \in Seq(Symbols)
      BY <1>1 DEF Text
    <3>2. \A u \in Seq(Symbols) : u \o Append(t, c) = Append(u \o t, c)
      BY <3>1, ConcatAppend
    <3>3. Append(t, c) \in Text
      BY <3>1, AppendProperties DEF Text
    <3>4. a \o t \in Text /\ s.rest \o t \in Text
      BY <3>1, ConcatProperties DEF Text
    <3> QED
      BY <3>1, <3>2, <3>3, <3>4
  <2> DEFINE x == Split(a \o t)
             y == Split(s.rest \o t)
  <2>2. x = Resumed(s, y)
    BY <1>3
  <2>3. /\ y \in Halves /\ y.events \in Seq(Text) /\ y.rest \in Text
        /\ y = [events |-> y.events, rest |-> y.rest]
    BY <2>1, SplitSteps, HalvesParts
  <2>4. Split(a \o Append(t, c)) = SplitStep(x, c)
    BY <2>1, SplitSteps
  <2>5. Split(s.rest \o Append(t, c)) = SplitStep(y, c)
    BY <2>1, SplitSteps
  <2> HIDE DEF x, y
  <2>6. CASE c = "nl" /\ y.rest # << >> /\ Last(y.rest) = "nl"
    <3>1. Front(y.rest) \in Text
      BY <2>3, <2>6, FrontOfText
    <3>2. s.events \o Append(y.events, Front(y.rest)) = Append(s.events \o y.events, Front(y.rest))
      BY <1>1, <2>3, <3>1, ConcatAppend
    <3>3. SplitStep(y, c) = [events |-> Append(y.events, Front(y.rest)), rest |-> << >>]
      BY <2>6 DEF SplitStep
    <3>4. SplitStep(x, c)
            = [events |-> Append(s.events \o y.events, Front(y.rest)), rest |-> << >>]
      BY <2>2, <2>6 DEF SplitStep, Resumed
    <3> QED
      <4>1. SplitStep(x, c) = Resumed(s, SplitStep(y, c))
        <5>1. Resumed(s, SplitStep(y, c))
                = [events |-> s.events \o Append(y.events, Front(y.rest)), rest |-> << >>]
          BY <3>3 DEF Resumed
        <5> QED
          BY <3>2, <3>4, <5>1
      <4> QED
        BY <2>1, <2>4, <2>5, <4>1
  <2>7. CASE ~(c = "nl" /\ y.rest # << >> /\ Last(y.rest) = "nl")
    <3>1. SplitStep(y, c) = [events |-> y.events, rest |-> Append(y.rest, c)]
      BY <2>3, <2>7 DEF SplitStep
    <3>2. SplitStep(x, c) = [events |-> s.events \o y.events, rest |-> Append(y.rest, c)]
      BY <2>2, <2>7 DEF SplitStep, Resumed
    <3> QED
      <4>1. SplitStep(x, c) = Resumed(s, SplitStep(y, c))
        BY <3>1, <3>2 DEF Resumed
      <4> QED
        BY <2>1, <2>4, <2>5, <4>1
  <2> QED
    BY <2>6, <2>7
<1>4. Seq(Symbols) \subseteq P
  <2> HIDE DEF P
  <2> QED
    BY <1>2, <1>3, SeqInduction DEF Text
<1> QED
  BY <1>4 DEF Text, s

\* The first event of a text that has one, and what follows it.
Follow(t, u) ==
  LET s == Split(t)
  IN /\ t = (s.events[1] \o <<"nl", "nl">>) \o u
     /\ Split(u) = [events |-> Tail(s.events), rest |-> s.rest]

\* A text without a complete event is all left; one with an event begins with it.
LEMMA FirstEvent ==
  ASSUME NEW t \in Text
  PROVE  /\ Split(t).events = << >> => Split(t).rest = t
         /\ Split(t).events # << >> => \E u \in Text : Follow(t, u)
<1> DEFINE P == {a \in Text : /\ Split(a).events = << >> => Split(a).rest = a
                              /\ Split(a).events # << >> => \E u \in Text : Follow(a, u)}
<1>1. << >> \in P
  BY SplitSteps, EmptySeq DEF NoText, Text
<1>2. ASSUME NEW a \in Text, NEW c \in Symbols, a \in P
      PROVE  Append(a, c) \in P
  <2> DEFINE s == Split(a)
             b == Append(a, c)
  <2>1. /\ s \in Halves /\ s.events \in Seq(Text) /\ s.rest \in Text
        /\ s = [events |-> s.events, rest |-> s.rest]
        /\ Split(b) = SplitStep(s, c) /\ b \in Text
    BY SplitSteps, HalvesParts, AppendProperties DEF Text
  <2>2. CASE s.events # << >>
    <3>1. PICK u \in Text : Follow(a, u)
      BY <1>2, <2>2
    <3> DEFINE e == s.events[1]
               x == e \o <<"nl", "nl">>
    <3>2. /\ a = x \o u /\ Split(u) = [events |-> Tail(s.events), rest |-> s.rest]
      BY <3>1 DEF Follow
    <3>3. e \in Text
      BY <2>1, <2>2, EmptySeq, ElementOfSeq
    <3>4. x \in Text
      <4>1. "nl" \in Symbols
        BY DEF Symbols
      <4>2. <<"nl", "nl">> \in Text
        BY <4>1 DEF Text
      <4> QED
        BY <3>3, <4>2, ConcatProperties DEF Text
    <3> HIDE DEF x, s, e
    <3>5. b = x \o Append(u, c) /\ Append(u, c) \in Text
      BY <3>2, <3>4, ConcatAppend, AppendProperties DEF Text
    <3>6. Split(Append(u, c)) = SplitStep(Split(u), c)
      BY SplitSteps
    <3>7. Tail(s.events) \in Seq(Text)
      BY <2>1, <2>2, HeadTailProperties
    <3>8. CASE c = "nl" /\ s.rest # << >> /\ Last(s.rest) = "nl"
      <4>1. Front(s.rest) \in Text
        BY <2>1, <3>8, FrontOfText
      <4>2. /\ Append(s.events, Front(s.rest)) # << >>
            /\ Append(s.events, Front(s.rest))[1] = s.events[1]
            /\ Tail(Append(s.events, Front(s.rest))) = Append(Tail(s.events), Front(s.rest))
        <5>1. 1 \in 1 .. Len(s.events)
          BY <2>1, <2>2, EmptySeq
        <5> QED
          BY <2>1, <2>2, <4>1, <5>1, AppendProperties, HeadTailAppend
      <4>3. Split(b) = [events |-> Append(s.events, Front(s.rest)), rest |-> << >>]
        BY <2>1, <3>8 DEF SplitStep
      <4>4. Split(Append(u, c)) = [events |-> Append(Tail(s.events), Front(s.rest)), rest |-> << >>]
        BY <3>2, <3>6, <3>8 DEF SplitStep
      <4>5. Follow(b, Append(u, c))
        <5>1. b = (Split(b).events[1] \o <<"nl", "nl">>) \o Append(u, c)
          <6>1. Split(b).events[1] = e
            BY <4>2, <4>3 DEF e
          <6> QED
            BY <3>5, <6>1 DEF x
        <5>2. Split(Append(u, c)) = [events |-> Tail(Split(b).events), rest |-> Split(b).rest]
          <6>1. Split(b).events = Append(s.events, Front(s.rest)) /\ Split(b).rest = << >>
            BY <4>3
          <6> QED
            BY <4>2, <4>4, <6>1
        <5> QED
          BY <5>1, <5>2 DEF Follow
      <4> QED
        BY <2>1, <3>5, <4>2, <4>3, <4>5
    <3>9. CASE ~(c = "nl" /\ s.rest # << >> /\ Last(s.rest) = "nl")
      <4>1. Split(b) = [events |-> s.events, rest |-> Append(s.rest, c)]
        BY <2>1, <3>9 DEF SplitStep
      <4>2. Split(Append(u, c)) = [events |-> Tail(s.events), rest |-> Append(s.rest, c)]
        <5>1. SplitStep([events |-> Tail(s.events), rest |-> s.rest], c)
                = [events |-> Tail(s.events), rest |-> Append(s.rest, c)]
          BY <3>9 DEF SplitStep
        <5> QED
          BY <3>2, <3>6, <5>1
      <4>3. Follow(b, Append(u, c))
        <5>1. b = (Split(b).events[1] \o <<"nl", "nl">>) \o Append(u, c)
          <6>1. Split(b).events[1] = e
            BY <4>1 DEF e
          <6> QED
            BY <3>5, <6>1 DEF x
        <5>2. Split(Append(u, c)) = [events |-> Tail(Split(b).events), rest |-> Split(b).rest]
          BY <4>1, <4>2
        <5> QED
          BY <5>1, <5>2 DEF Follow
      <4> QED
        BY <2>1, <2>2, <3>5, <4>1, <4>3
    <3> QED
      BY <3>8, <3>9
  <2>3. CASE s.events = << >>
    <3>1. s.rest = a
      BY <1>2, <2>3
    <3> HIDE DEF s
    <3>2. CASE c = "nl" /\ a # << >> /\ Last(a) = "nl"
      <4>1. Split(b) = [events |-> <<Front(a)>>, rest |-> << >>]
        BY <2>1, <2>3, <3>1, <3>2 DEF SplitStep
      <4>2. << >> \in Text /\ Split(<< >>) = [events |-> << >>, rest |-> << >>]
        BY SplitSteps, EmptySeq DEF NoText, Text
      <4>3. b = (Front(a) \o <<"nl", "nl">>) \o << >>
        <5>1. Front(a) \in Text
          BY <3>2, FrontOfText
        <5>2. a = Append(Front(a), "nl")
          <6>1. PICK f \in Seq(Symbols), d \in Symbols : a = Append(f, d)
            BY <3>2, SequenceEmptyOrAppend DEF Text
          <6>2. Len(a) = Len(f) + 1 /\ Len(f) \in Nat /\ a[Len(f) + 1] = d
            BY <6>1, AppendProperties, LenProperties
          <6>3. d = "nl"
            BY <3>2, <6>2 DEF Last
          <6>4. Front(a) = f
            <7>1. Front(a) \in Seq(Symbols) /\ Len(Front(a)) = Len(f)
              <8>1. /\ \A i \in 1 .. Len(a) - 1 : a[i] \in Symbols
                    /\ Len(a) - 1 = Len(f) /\ Len(a) - 1 \in Int
                BY <6>2, LenProperties DEF Text
              <8> QED
                BY <6>2, <8>1, SubSeqProperties DEF Front
            <7>2. \A i \in 1 .. Len(f) : Front(a)[i] = f[i]
              BY <6>1, <6>2, AppendProperties DEF Front
            <7> QED
              BY <7>1, <7>2, SeqEqual
          <6> QED
            BY <6>1, <6>3, <6>4
        <5> DEFINE f == Front(a)
        <5>3. f \in Seq(Symbols) /\ "nl" \in Symbols
          BY <5>1 DEF Text, Symbols
        <5> HIDE DEF f
        <5>4. Append(f, "nl") = f \o <<"nl">> /\ <<"nl">> \in Seq(Symbols) /\ f \o <<"nl">> \in Seq(Symbols)
          BY <5>3, AppendIsConcat, ConcatProperties
        <5>5. Append(f \o <<"nl">>, "nl") = (f \o <<"nl">>) \o <<"nl">>
          BY <5>3, <5>4, AppendIsConcat
        <5>6. (f \o <<"nl">>) \o <<"nl">> = f \o (<<"nl">> \o <<"nl">>)
          BY <5>3, <5>4, ConcatAssociative
        <5>7. <<"nl">> \o <<"nl">> = <<"nl", "nl">>
          <6>1. Append(<<"nl">>, "nl") = <<"nl">> \o <<"nl">>
            BY <5>3, <5>4, AppendIsConcat
          <6>2. Append(<<"nl">>, "nl") = <<"nl", "nl">>
            <7> DEFINE u == Append(<<"nl">>, "nl")
                       v == <<"nl", "nl">>
            <7>1. u \in Seq(Symbols) /\ Len(u) = 2 /\ u[1] = "nl" /\ u[2] = "nl"
              BY <5>3, <5>4, AppendProperties
            <7>2. v \in Seq(Symbols) /\ Len(v) = 2 /\ v[1] = "nl" /\ v[2] = "nl"
              BY <5>3
            <7> HIDE DEF u, v
            <7>3. Len(u) = Len(v) /\ \A i \in 1 .. Len(u) : u[i] = v[i]
              BY <7>1, <7>2
            <7>4. u = v
              BY <7>1, <7>2, <7>3, SeqEqual
            <7> QED
              BY <7>4 DEF u, v
          <6> QED
            BY <6>1, <6>2
        <5>8. f \o <<"nl", "nl">> \in Seq(Symbols)
          BY <5>3, <5>4, <5>6, <5>7, ConcatProperties
        <5>9. (f \o <<"nl", "nl">>) \o << >> = f \o <<"nl", "nl">>
          BY <5>8, ConcatEmptySeq
        <5> QED
          BY <3>2, <5>2, <5>4, <5>5, <5>6, <5>7, <5>9 DEF f
      <4>4. Tail(<<Front(a)>>) = << >>
        OBVIOUS
      <4>5. Follow(b, << >>)
        BY <4>1, <4>2, <4>3, <4>4 DEF Follow
      <4> QED
        <5>1. Split(b).events # << >>
          BY <4>1
        <5> QED
          BY <2>1, <4>2, <4>5, <5>1
    <3>3. CASE ~(c = "nl" /\ a # << >> /\ Last(a) = "nl")
      <4>1. Split(b) = [events |-> << >>, rest |-> b]
        BY <2>1, <2>3, <3>1, <3>3 DEF SplitStep
      <4> QED
        BY <2>1, <4>1
    <3> QED
      BY <3>2, <3>3
  <2> QED
    BY <2>2, <2>3
<1>3. Seq(Symbols) \subseteq P
  <2> HIDE DEF P
  <2> QED
    BY <1>1, <1>2, SeqInduction DEF Text
<1> QED
  BY <1>3 DEF Text
-----------------------------------------------------------------------------
(* The inductive invariant                                                 *)

Types ==
  /\ body \in Text /\ alias \in BOOLEAN /\ read \in 0 .. Len(body)
  /\ buffer \in Text /\ held \in Text /\ out \in Text
  /\ counted \in Nat /\ seen \in BOOLEAN /\ ttft \in Nat
  /\ status \in {"running", "completed", "broken", "left"}

\* The observer holds what is left of the text the client was sent, and has
\* counted the rest of it.
Counting ==
  /\ held = Split(out).rest
  /\ status = "running" => /\ counted = ContentOf(Split(out).events)
                           /\ seen <=> counted > 0
  /\ CountExact /\ FirstContentOnce

Sofar == SubSeq(body, 1, read)

\* The rewriter has sent the events of what it has read but for those of its
\* buffer, and is inside the same event as the text is.
InStep ==
  /\ Split(Sofar).rest = Split(buffer).rest
  /\ Emitted(Split(Sofar).events) = out \o Emitted(Split(buffer).events)

\* It has sent the event the text ends in, too.
AtEnd == read = Len(body) /\ buffer = << >> /\ out = Rewritten(body)

Progress ==
  /\ ~alias => out = Sofar /\ buffer = << >>
  /\ alias => InStep \/ AtEnd
  /\ status = "completed" => read = Len(body) /\ buffer = << >>

IInv == Types /\ Counting /\ Progress

-----------------------------------------------------------------------------
(* One step                                                                *)

\* An empty buffer has no event and says nothing.
LEMMA NothingIsComplete ==
  /\ << >> \in Text /\ Split(<< >>) = NoText /\ ~Complete(<< >>)
  /\ Emitted(<< >>) = << >> /\ Rewritten(<< >>) = << >>
<1>1. << >> \in Text /\ Split(<< >>) = NoText /\ Split(<< >>).events = << >> /\ Split(<< >>).rest = << >>
  BY SplitSteps, EmptySeq DEF NoText, Text
<1>2. << >> \o << >> = << >>
  BY ConcatEmptySeq, EmptySeq
<1>3. Rewritten(<< >>) = Emitted(<< >>) \o RewriteEvent(<< >>)
  BY <1>1 DEF Rewritten, Emitted, EventText
<1> QED
  BY <1>1, <1>2, <1>3, EmittedSteps, RewrittenIsText DEF Complete

\* The rewritten text is what is sent for its events, and its rest rewritten.
LEMMA RewrittenParts ==
  ASSUME NEW t \in Text
  PROVE  Rewritten(t) = Emitted(Split(t).events) \o RewriteEvent(Split(t).rest)
BY DEF Rewritten, Emitted, EventText

\* What is read is followed by the next chunk.
LEMMA SofarGrows ==
  ASSUME NEW t \in Text, NEW i \in 0 .. Len(t), NEW n \in 1 .. Len(t), i + n <= Len(t)
  PROVE  /\ SubSeq(t, 1, i) \in Text /\ SubSeq(t, i + 1, i + n) \in Text
         /\ SubSeq(t, 1, i + n) = SubSeq(t, 1, i) \o SubSeq(t, i + 1, i + n)
<1>1. t \in Seq(Symbols) /\ Len(t) \in Nat /\ \A j \in 1 .. Len(t) : t[j] \in Symbols
  BY LenProperties DEF Text
<1> DEFINE u == SubSeq(t, 1, i)
           v == SubSeq(t, i + 1, i + n)
           w == SubSeq(t, 1, i + n)
<1>2. u \in Seq(Symbols) /\ Len(u) = i /\ \A j \in 1 .. i : u[j] = t[j]
  BY <1>1, SubSeqProperties
<1>3. v \in Seq(Symbols) /\ Len(v) = n /\ \A j \in 1 .. n : v[j] = t[i + j]
  BY <1>1, SubSeqProperties
<1>4. w \in Seq(Symbols) /\ Len(w) = i + n /\ \A j \in 1 .. i + n : w[j] = t[j]
  BY <1>1, SubSeqProperties
<1> HIDE DEF u, v, w
<1>5. u \o v \in Seq(Symbols) /\ Len(u \o v) = i + n
  BY <1>2, <1>3, ConcatProperties
<1>6. ASSUME NEW j \in 1 .. i + n PROVE (u \o v)[j] = w[j]
  <2>1. (u \o v)[j] = IF j <= i THEN u[j] ELSE v[j - i]
    BY <1>2, <1>3, <1>5, ConcatProperties
  <2>2. CASE j <= i
    <3>1. j \in 1 .. i
      BY <2>2
    <3> QED
      BY <1>2, <1>4, <2>1, <2>2, <3>1
  <2>3. CASE ~(j <= i)
    <3>1. j - i \in 1 .. n /\ i + (j - i) = j
      BY <2>3
    <3> QED
      BY <1>3, <1>4, <2>1, <2>3, <3>1
  <2> QED
    BY <2>2, <2>3
<1>7. w = u \o v
  BY <1>4, <1>5, <1>6, SeqEqual
<1> QED
  BY <1>2, <1>3, <1>7 DEF u, v, w, Text

\* In the end the body is read.
LEMMA SofarFull ==
  ASSUME NEW t \in Text
  PROVE  SubSeq(t, 1, Len(t)) = t
BY SubSeqFull DEF Text

\* What is sent is counted, once, wherever it was cut.
LEMMA YieldCounts ==
  ASSUME Types, Counting, status = "running", status' = status,
         NEW x \in Text, Yield(x)
  PROVE  /\ out' = out \o x /\ out' \in Text /\ held' \in Text
         /\ counted' \in Nat /\ seen' \in BOOLEAN /\ ttft' \in Nat
         /\ Counting'
<1> DEFINE s == Split(out)
           y == Split(held \o x)
           n == ContentOf(y.events)
<1>1. out \in Text /\ held \in Text /\ out \o x \in Text /\ held \o x \in Text
  BY ConcatProperties DEF Types, Text
<1>2. s.events \in Seq(Text) /\ y.events \in Seq(Text) /\ y.rest \in Text
  BY <1>1, SplitSteps, HalvesParts
<1>3. held = s.rest
  BY DEF Counting
<1>4. Split(out \o x) = Resumed(s, y)
  BY <1>1, <1>3, SplitConcat
<1>5. out' = out \o x /\ held' = y.rest /\ counted' = counted + n
      /\ seen' = (seen \/ n > 0)
      /\ ttft' = IF n > 0 /\ ~seen THEN ttft + 1 ELSE ttft
  BY DEF Yield, Count
<1>6. counted = ContentOf(s.events) /\ counted \in Nat /\ seen \in BOOLEAN /\ ttft \in Nat
      /\ (seen <=> counted > 0) /\ ttft = IF counted > 0 THEN 1 ELSE 0
  BY DEF Counting, Types, FirstContentOnce
<1>7. n \in Nat
  BY <1>2, ContentSteps
<1> HIDE DEF s, y, n
<1>8. Split(out').rest = y.rest /\ Split(out').events = s.events \o y.events
  <2>1. Split(out') = Resumed(s, y)
    BY <1>4, <1>5
  <2> QED
    BY <2>1, ResumedParts
<1>9. counted' = ContentOf(Split(out').events)
  <2>1. ContentOf(s.events \o y.events) = ContentOf(s.events) + n
    BY <1>2, EventsConcat DEF n
  <2> QED
    BY <1>5, <1>6, <1>8, <2>1
<1>10. (seen' <=> counted' > 0) /\ ttft' = IF counted' > 0 THEN 1 ELSE 0
  <2>1. CASE n > 0
    <3>1. seen' /\ counted' > 0
      <4>1. seen'
        BY <1>5, <2>1
      <4>2. counted' > 0
        BY <1>5, <1>6, <1>7, <2>1
      <4> QED
        BY <4>1, <4>2
    <3>2. CASE seen
      BY <1>5, <1>6, <3>1, <3>2
    <3>3. CASE ~seen
      BY <1>5, <1>6, <2>1, <3>1, <3>3
    <3> QED
      BY <3>2, <3>3
  <2>2. CASE n = 0
    <3>1. counted' = counted /\ ttft' = ttft
      BY <1>5, <1>6, <2>2
    <3>2. seen' = seen
      BY <1>5, <1>6, <2>2
    <3> QED
      BY <1>6, <3>1, <3>2
  <2> QED
    BY <1>7, <2>1, <2>2
<1>11. counted' \in Nat /\ seen' \in BOOLEAN /\ ttft' \in Nat
  BY <1>5, <1>6, <1>7
<1>12. CountExact'
  <2>1. counted' \in Nat
    BY <1>11
  <2>2. counted' = ContentOf(Split(out').events) + 0
    BY <1>9, <2>1
  <2> QED
    BY <2>2 DEF CountExact
<1>13. FirstContentOnce'
  BY <1>10 DEF FirstContentOnce
<1>14. Counting'
  BY <1>5, <1>8, <1>9, <1>10, <1>12, <1>13 DEF Counting
<1> QED
  BY <1>1, <1>2, <1>5, <1>11, <1>14

\* A chunk ends anywhere: buffered or sent, it keeps the invariant.
LEMMA ReadKeeps ==
  ASSUME IInv, NEW n \in 1 .. Len(body), Read(n)
  PROVE  IInv'
<1> DEFINE chunk == SubSeq(body, read + 1, read + n)
<1>1. /\ body \in Text /\ read \in 0 .. Len(body) /\ Len(body) \in Nat /\ buffer \in Text /\ out \in Text
      /\ alias \in BOOLEAN /\ status = "running" /\ ~Complete(buffer) /\ read + n <= Len(body)
  BY LenProperties DEF IInv, Types, Read, Text
<1>2. read' = read + n /\ body' = body /\ alias' = alias /\ status' = status
  BY DEF Read
<1>3. chunk \in Text /\ Sofar \in Text /\ Sofar' = Sofar \o chunk
  BY <1>1, <1>2, SofarGrows DEF Sofar
<1>4. read' \in 0 .. Len(body)
  BY <1>1, <1>2
<1> HIDE DEF chunk
<1>5. CASE alias
  <2>1. /\ buffer' = buffer \o chunk
        /\ held' = held /\ out' = out /\ counted' = counted /\ seen' = seen /\ ttft' = ttft
    BY <1>5 DEF Read, chunk
  <2>2. buffer' \in Text
    BY <1>1, <1>3, <2>1, ConcatProperties DEF Text
  <2>3. Types'
    BY <1>1, <1>2, <1>4, <2>1, <2>2 DEF IInv, Types
  <2>4. Counting'
    BY <1>2, <2>1 DEF IInv, Counting, CountExact, FirstContentOnce
  <2>5. Split(buffer).events = << >> /\ Split(buffer).rest = buffer
    BY <1>1, FirstEvent DEF Complete
  <2>6. InStep
    <3>1. ~AtEnd
      BY <1>1 DEF AtEnd
    <3> QED
      BY <1>5, <3>1 DEF IInv, Progress
  <2>7. Emitted(Split(Sofar).events) = out
    <3>1. out \o << >> = out
      BY <1>1, ConcatEmptySeq DEF Text
    <3> QED
      BY <2>5, <2>6, <3>1, NothingIsComplete DEF InStep
  <2>8. Split(Sofar') = Resumed(Split(Sofar), Split(buffer'))
    BY <1>1, <1>3, <2>1, <2>5, <2>6, SplitConcat DEF InStep
  <2>9. /\ Split(Sofar').rest = Split(buffer').rest
        /\ Split(Sofar').events = Split(Sofar).events \o Split(buffer').events
    BY <2>8, ResumedParts
  <2>10. Split(Sofar).events \in Seq(Text) /\ Split(buffer').events \in Seq(Text)
    BY <1>3, <2>2, SplitSteps, HalvesParts
  <2>11. Emitted(Split(Sofar').events) = out' \o Emitted(Split(buffer').events)
    BY <2>1, <2>7, <2>9, <2>10, EventsConcat
  <2>12. InStep'
    BY <2>9, <2>11 DEF InStep
  <2>13. Progress'
    BY <1>1, <1>2, <1>5, <2>12 DEF Progress
  <2> QED
    BY <2>3, <2>4, <2>13 DEF IInv
<1>6. CASE ~alias
  <2>1. Yield(chunk) /\ buffer' = buffer /\ out = Sofar /\ buffer = << >>
    BY <1>6 DEF Read, chunk, IInv, Progress
  <2>2. /\ out' = out \o chunk /\ out' \in Text /\ held' \in Text
        /\ counted' \in Nat /\ seen' \in BOOLEAN /\ ttft' \in Nat
        /\ Counting'
    BY <1>1, <1>2, <1>3, <2>1, YieldCounts DEF IInv
  <2>3. Types'
    BY <1>1, <1>2, <1>4, <2>1, <2>2 DEF IInv, Types
  <2>4. Progress'
    BY <1>1, <1>2, <1>3, <1>6, <2>1, <2>2 DEF Progress
  <2> QED
    BY <2>2, <2>3, <2>4 DEF IInv
<1> QED
  BY <1>1, <1>5, <1>6

\* What follows a prefix.
LEMMA AfterPrefix ==
  ASSUME NEW S, NEW x \in Seq(S), NEW u \in Seq(S)
  PROVE  SubSeq(x \o u, Len(x) + 1, Len(x \o u)) = u
<1> DEFINE t == x \o u
           m == Len(x)
           v == SubSeq(t, m + 1, m + Len(u))
<1>1. m \in Nat /\ Len(u) \in Nat
  BY LenProperties
<1>2. /\ t \in Seq(S) /\ Len(t) = m + Len(u)
      /\ \A i \in 1 .. m + Len(u) : t[i] = IF i <= m THEN x[i] ELSE u[i - m]
  BY ConcatProperties
<1> HIDE DEF t, m
<1>3. \A i \in m + 1 .. m + Len(u) : t[i] \in S
  BY <1>1, <1>2, LenProperties
<1>4. v \in Seq(S) /\ Len(v) = Len(u) /\ \A i \in 1 .. Len(u) : v[i] = t[m + i]
  <2> DEFINE k == m + 1
             l == m + Len(u)
  <2>1. k \in Int /\ l \in Int /\ l - k + 1 = Len(u) /\ (k <= l \/ Len(u) = 0)
        /\ \A i \in 1 .. Len(u) : k + i - 1 = m + i
    BY <1>1
  <2>2. \A i \in k .. l : t[i] \in S
    BY <1>3
  <2> HIDE DEF k, l
  <2>3. /\ SubSeq(t, k, l) \in Seq(S)
        /\ Len(SubSeq(t, k, l)) = IF k <= l THEN l - k + 1 ELSE 0
        /\ \A i \in 1 .. l - k + 1 : SubSeq(t, k, l)[i] = t[k + i - 1]
    BY <2>1, <2>2, SubSeqProperties
  <2> QED
    BY <1>1, <2>1, <2>3 DEF k, l
<1> HIDE DEF v
<1>5. ASSUME NEW i \in 1 .. Len(u) PROVE v[i] = u[i]
  <2>1. m + i \in 1 .. m + Len(u) /\ ~(m + i <= m) /\ (m + i) - m = i
    BY <1>1
  <2> QED
    BY <1>2, <1>4, <2>1
<1>6. v = u
  BY <1>4, <1>5, SeqEqual
<1> QED
  BY <1>2, <1>6 DEF v, t, m

\* The complete event e, its empty line, and what follows it.
LEMMA AfterEvent ==
  ASSUME NEW e \in Text, NEW u \in Text
  PROVE  LET t == (e \o <<"nl", "nl">>) \o u
         IN  SubSeq(t, Len(e) + 3, Len(t)) = u
<1> DEFINE nl == <<"nl", "nl">>
           x == e \o nl
<1>1. "nl" \in Symbols
  BY DEF Symbols
<1>2. nl \in Seq(Symbols) /\ Len(nl) = 2
  BY <1>1
<1> HIDE DEF nl
<1>3. x \in Seq(Symbols) /\ Len(x) = Len(e) + Len(nl)
  BY <1>2, ConcatProperties DEF Text
<1>4. Len(x) + 1 = Len(e) + 3
  BY <1>2, <1>3, LenProperties DEF Text
<1> HIDE DEF x
<1>5. SubSeq(x \o u, Len(x) + 1, Len(x \o u)) = u
  BY <1>3, AfterPrefix DEF Text
<1> QED
  BY <1>4, <1>5 DEF x, nl

\* The first event of the buffer leaves it, and is sent.
LEMMA EmitEventKeeps ==
  ASSUME IInv, EmitEvent
  PROVE  IInv'
<1> DEFINE s == Split(buffer)
           e == s.events[1]
<1>1. /\ body \in Text /\ buffer \in Text /\ out \in Text /\ status = "running"
      /\ s.events # << >> /\ s.events \in Seq(Text)
  BY SplitSteps, HalvesParts DEF IInv, Types, EmitEvent, Complete
<1>2. alias /\ InStep
  <2>1. buffer # << >>
    BY <1>1, NothingIsComplete DEF NoText
  <2> QED
    BY <2>1 DEF IInv, Types, Progress, AtEnd
<1>3. PICK u \in Text : Follow(buffer, u)
  BY <1>1, FirstEvent
<1>4. e \in Text
  BY <1>1, EmptySeq, ElementOfSeq
<1>5. Split(u) = [events |-> Tail(s.events), rest |-> s.rest]
  BY <1>3 DEF Follow
<1>6. body' = body /\ alias' = alias /\ read' = read /\ status' = status /\ Yield(EventText(e))
      /\ buffer' = SubSeq(buffer, Len(e) + 3, Len(buffer))
  BY DEF EmitEvent, EventText
<1>7. buffer' = u
  <2>1. buffer = (e \o <<"nl", "nl">>) \o u
    BY <1>3 DEF Follow
  <2> HIDE DEF e
  <2> QED
    BY <1>4, <1>6, <2>1, AfterEvent
<1>8. EventText(e) \in Text
  BY <1>4, EventTextType
<1> HIDE DEF e
<1>9. /\ out' = out \o EventText(e) /\ out' \in Text /\ held' \in Text
      /\ counted' \in Nat /\ seen' \in BOOLEAN /\ ttft' \in Nat
      /\ Counting'
  BY <1>1, <1>6, <1>8, YieldCounts DEF IInv
<1>10. Types'
  BY <1>6, <1>7, <1>9 DEF IInv, Types
<1>11. Emitted(s.events) = EventText(e) \o Emitted(Tail(s.events))
  <2> DEFINE one == <<e>>
  <2>1. one \in Seq(Text) /\ Tail(s.events) \in Seq(Text)
    BY <1>1, <1>4, HeadTailProperties
  <2>2. s.events = one \o Tail(s.events)
    BY <1>1 DEF e
  <2>3. Emitted(one) = EventText(e)
    <3>1. one = Append(<< >>, e) /\ << >> \in Seq(Text)
      BY EmptySeq
    <3> HIDE DEF one
    <3>2. Emitted(one) = Emitted(<< >>) \o EventText(e)
      BY <1>4, <3>1, EmittedSteps
    <3> QED
      BY <1>8, <3>2, EmittedSteps, ConcatEmptySeq DEF Text
  <2> HIDE DEF one, s
  <2>4. Emitted(one \o Tail(s.events)) = Emitted(one) \o Emitted(Tail(s.events))
    BY <2>1, EventsConcat
  <2> QED
    BY <2>2, <2>3, <2>4
<1>12. InStep'
  <2>1. Tail(s.events) \in Seq(Text)
    BY <1>1, HeadTailProperties
  <2>2. Emitted(Tail(s.events)) \in Seq(Symbols) /\ EventText(e) \in Seq(Symbols) /\ out \in Seq(Symbols)
    BY <1>1, <1>8, <2>1, EmittedSteps DEF Text
  <2>3. out \o (EventText(e) \o Emitted(Tail(s.events))) = (out \o EventText(e)) \o Emitted(Tail(s.events))
    BY <2>2, ConcatAssociative
  <2>4. Sofar' = Sofar
    BY <1>6 DEF Sofar
  <2>5. Split(buffer').events = Tail(s.events) /\ Split(buffer').rest = s.rest
    BY <1>5, <1>7
  <2>6. Split(Sofar).rest = s.rest /\ Emitted(Split(Sofar).events) = out \o Emitted(s.events)
    BY <1>2 DEF InStep
  <2> HIDE DEF s
  <2> QED
    BY <1>9, <1>11, <2>3, <2>4, <2>5, <2>6 DEF InStep
<1>13. Progress'
  BY <1>1, <1>2, <1>6, <1>12 DEF Progress
<1> QED
  BY <1>9, <1>10, <1>13 DEF IInv

\* The event the body ends in is sent, though it is not complete.
LEMMA EmitRestKeeps ==
  ASSUME IInv, EmitRest
  PROVE  IInv'
<1>1. /\ body \in Text /\ buffer \in Text /\ out \in Text /\ status = "running"
      /\ read = Len(body) /\ buffer # << >> /\ ~Complete(buffer)
  BY DEF IInv, Types, EmitRest
<1>2. alias /\ InStep
  BY <1>1 DEF IInv, Types, Progress, AtEnd
<1>3. body' = body /\ alias' = alias /\ read' = read /\ status' = status
      /\ Yield(RewriteEvent(buffer)) /\ buffer' = << >>
  BY DEF EmitRest
<1>4. RewriteEvent(buffer) \in Text
  BY <1>1, RewrittenIsText
<1>5. /\ out' = out \o RewriteEvent(buffer) /\ out' \in Text /\ held' \in Text
      /\ counted' \in Nat /\ seen' \in BOOLEAN /\ ttft' \in Nat
      /\ Counting'
  BY <1>1, <1>3, <1>4, YieldCounts DEF IInv
<1>6. Types'
  BY <1>3, <1>5, NothingIsComplete DEF IInv, Types
<1>7. Rewritten(body) = out \o RewriteEvent(buffer)
  <2>1. Sofar = body
    BY <1>1, SofarFull DEF Sofar
  <2>2. Split(buffer).events = << >> /\ Split(buffer).rest = buffer
    BY <1>1, FirstEvent DEF Complete
  <2>3. out \o << >> = out
    BY <1>1, ConcatEmptySeq DEF Text
  <2>4. Split(body).rest = buffer /\ Emitted(Split(body).events) = out
    BY <1>2, <2>1, <2>2, <2>3, NothingIsComplete DEF InStep
  <2> QED
    BY <1>1, <2>4, RewrittenParts
<1>8. AtEnd'
  BY <1>1, <1>3, <1>5, <1>7 DEF AtEnd, Rewritten
<1>9. Progress'
  BY <1>1, <1>2, <1>3, <1>8 DEF Progress
<1> QED
  BY <1>5, <1>6, <1>9 DEF IInv

\* However the stream ends, what the observer holds is counted with it.
LEMMA ConcludeKeeps ==
  ASSUME IInv, NEW how \in {"completed", "broken", "left"}, status = "running", Conclude(how),
         how = "completed" => read = Len(body) /\ buffer = << >>
  PROVE  IInv'
<1> DEFINE n == ContentChunks(held)
<1>1. /\ status' = how /\ counted' = counted + n
      /\ ttft' = IF n > 0 /\ ~seen THEN ttft + 1 ELSE ttft
      /\ body' = body /\ alias' = alias /\ read' = read /\ buffer' = buffer
      /\ held' = held /\ out' = out /\ seen' = seen
  BY DEF Conclude
<1>2. n \in Nat
  BY ChunksAreFinite DEF IInv, Types
<1>3. /\ counted \in Nat /\ ttft \in Nat /\ (seen <=> counted > 0) /\ seen \in BOOLEAN
      /\ counted = ContentOf(Split(out).events) /\ held = Split(out).rest
      /\ ttft = IF counted > 0 THEN 1 ELSE 0
  BY DEF IInv, Types, Counting, FirstContentOnce
<1>4. CountExact'
  <2>1. counted' = ContentOf(Split(out').events) + ContentChunks(Split(out').rest)
    BY <1>1, <1>3
  <2> QED
    BY <1>1, <2>1 DEF CountExact
<1> HIDE DEF n
<1>5. FirstContentOnce'
  <2>1. CASE n > 0
    BY <1>1, <1>2, <1>3, <2>1 DEF FirstContentOnce
  <2>2. CASE n = 0
    BY <1>1, <1>2, <1>3, <2>2 DEF FirstContentOnce
  <2> QED
    BY <1>2, <2>1, <2>2
<1>6. Types'
  <2>1. counted' \in Nat /\ ttft' \in Nat
    BY <1>1, <1>2, <1>3
  <2> QED
    BY <1>1, <2>1 DEF IInv, Types
<1>7. Counting'
  BY <1>1, <1>3, <1>4, <1>5 DEF Counting
<1>8. Progress'
  BY <1>1 DEF IInv, Progress, InStep, AtEnd, Sofar
<1> QED
  BY <1>6, <1>7, <1>8 DEF IInv

-----------------------------------------------------------------------------
(* The theorems                                                            *)

\* A stream starts with nothing read, sent or counted.
LEMMA Initially == Init => IInv
<1> SUFFICES ASSUME Init PROVE IInv
  OBVIOUS
<1>1. /\ body \in Text /\ alias \in BOOLEAN /\ read = 0 /\ buffer = << >> /\ held = << >> /\ out = << >>
      /\ counted = 0 /\ seen = FALSE /\ ttft = 0 /\ status = "running"
  BY StreamAssumption DEF Init, Text
<1>2. /\ << >> \in Text /\ Split(<< >>).events = << >> /\ Split(<< >>).rest = << >>
      /\ Emitted(<< >>) = << >> /\ << >> \o << >> = << >>
  BY NothingIsComplete, ConcatEmptySeq, EmptySeq DEF NoText
<1>3. Len(body) \in Nat /\ Sofar = << >>
  BY <1>1, LenProperties, SubSeqEmpty DEF Sofar, Text
<1>4. Types
  <2>1. 0 \in 0 .. Len(body)
    BY <1>3
  <2> QED
    BY <1>1, <1>2, <2>1 DEF Types
<1>5. ContentOf(<< >>) = 0
  BY ContentSteps
<1>6. Counting
  BY <1>1, <1>2, <1>5 DEF Counting, CountExact, FirstContentOnce
<1>7. Progress
  BY <1>1, <1>2, <1>3 DEF Progress, InStep
<1> QED
  BY <1>4, <1>6, <1>7 DEF IInv

\* The counts agree with what was sent, and what was sent with what was read,
\* after every step of the two generators.
THEOREM InductiveInvariant == Spec => []IInv
<1>1. IInv /\ [Next]_vars => IInv'
  <2> SUFFICES ASSUME IInv, [Next]_vars PROVE IInv'
    OBVIOUS
  <2>1. ASSUME NEW n \in 1 .. Len(body), Read(n) PROVE IInv'
    BY <2>1, ReadKeeps
  <2>2. CASE EmitEvent
    BY <2>2, EmitEventKeeps
  <2>3. CASE EmitRest
    BY <2>3, EmitRestKeeps
  <2>4. CASE Finish
    BY <2>4, ConcludeKeeps DEF Finish
  <2>5. CASE Break
    BY <2>5, ConcludeKeeps DEF Break
  <2>6. CASE Leave
    BY <2>6, ConcludeKeeps DEF Leave
  <2>7. CASE UNCHANGED vars
    BY <2>7 DEF vars, IInv, Types, Counting, CountExact, FirstContentOnce,
                Progress, InStep, AtEnd, Sofar
  <2> QED
    BY <2>1, <2>2, <2>3, <2>4, <2>5, <2>6, <2>7 DEF Next
<1> QED
  BY <1>1, Initially, PTL DEF Spec

\* The client gets the same text however the backend's is cut into chunks: the
\* text as it came, or every event of it rewritten, up to what the buffer holds;
\* and all of it when the stream completes.
THEOREM OutputIndependentOfChunks == Spec => []OutputExact
<1>1. IInv => OutputExact
  <2> SUFFICES ASSUME IInv PROVE OutputExact
    OBVIOUS
  <2>1. body \in Text /\ buffer \in Text /\ out \in Text /\ read \in 0 .. Len(body) /\ alias \in BOOLEAN
    BY DEF IInv, Types
  <2>2. read = Len(body) => Sofar = body
    BY <2>1, SofarFull DEF Sofar
  <2>3. ASSUME alias PROVE out \o Rewritten(buffer) = Rewritten(Sofar)
    <3>1. CASE InStep
      <4> DEFINE events == Emitted(Split(buffer).events)
                 rest == RewriteEvent(Split(buffer).rest)
      <4>1. Split(buffer).events \in Seq(Text) /\ Split(buffer).rest \in Text
        BY <2>1, SplitSteps, HalvesParts
      <4>2. events \in Seq(Symbols) /\ rest \in Seq(Symbols) /\ out \in Seq(Symbols)
        BY <2>1, <4>1, EmittedSteps, RewrittenIsText DEF Text
      <4>3. Rewritten(buffer) = events \o rest
        BY <2>1, RewrittenParts
      <4>4. Sofar \in Text
        BY <2>1, SubSeqProperties, LenProperties DEF Sofar, Text
      <4>5. Rewritten(Sofar) = (out \o events) \o rest
        BY <3>1, <4>4, RewrittenParts DEF InStep
      <4> HIDE DEF events, rest
      <4>6. (out \o events) \o rest = out \o (events \o rest)
        BY <4>2, ConcatAssociative
      <4> QED
        BY <4>3, <4>5, <4>6
    <3>2. CASE AtEnd
      <4>1. out \o << >> = out
        BY <2>1, ConcatEmptySeq DEF Text
      <4> QED
        BY <2>2, <3>2, <4>1, NothingIsComplete DEF AtEnd
    <3> QED
      BY <2>3, <3>1, <3>2 DEF IInv, Progress
  <2>4. ASSUME ~alias PROVE out = Sofar
    BY <2>4 DEF IInv, Progress
  <2>5. ASSUME status = "completed" PROVE out = IF alias THEN Rewritten(body) ELSE body
    <3>1. Sofar = body /\ buffer = << >>
      BY <2>2, <2>5 DEF IInv, Progress
    <3>2. out \o << >> = out
      BY <2>1, ConcatEmptySeq DEF Text
    <3>3. CASE alias
      BY <2>3, <3>1, <3>2, <3>3, NothingIsComplete
    <3>4. CASE ~alias
      BY <2>4, <3>1, <3>4
    <3> QED
      BY <3>3, <3>4
  <2> QED
    BY <2>3, <2>4, <2>5 DEF OutputExact, Sofar
<1> QED
  BY <1>1, InductiveInvariant, PTL

\* Every content chunk of the text the client was sent is counted once,
\* wherever the chunks were cut and however the stream ended.
THEOREM ContentCountedOnce == Spec => []CountExact
<1>1. IInv => CountExact
  BY DEF IInv, Counting
<1> QED
  BY <1>1, InductiveInvariant, PTL

\* The time to the first content is observed once, and only if there was any.
THEOREM FirstContentObservedOnce == Spec => []FirstContentOnce
<1>1. IInv => FirstContentOnce
  BY DEF IInv, Counting
<1> QED
  BY <1>1, InductiveInvariant, PTL

=============================================================================

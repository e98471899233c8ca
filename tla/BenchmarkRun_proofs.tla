------------------------- MODULE BenchmarkRun_proofs -------------------------
(***************************************************************************)
(* Proofs about BenchmarkRun, for every list of levels, number of requests,*)
(* limit of the gateway and number of timeouts and failures: what the      *)
(* summaries add up to, and what a rejection at a level within the limit   *)
(* means.                                                                  *)
(***************************************************************************)
EXTENDS BenchmarkRun, FoldLemmas

TaskStates == {"waiting", "sent", "held", "undo", "answer", "done"}
Results == {"none", "ok", "exception", "429", "502"}

Summaries == [total : Nat, success : Nat, errors : Int,
              statuses : UNION {[K -> Nat] : K \in SUBSET Results}]

\* How many coroutines the gather of a level waits for.
Size == IF level = 0 THEN Warmups ELSE IF level \in DOMAIN Levels THEN Requests ELSE 0

\* The coroutines that hold a permit of the semaphore.
Active == {i \in Tasks : task[i] \notin {"waiting", "done"}}

-----------------------------------------------------------------------------
(* The parts of the inductive invariant                                    *)

Types ==
  /\ stream \in BOOLEAN
  /\ level \in 0 .. Len(Levels) + 1
  /\ task \in [1 .. Size -> TaskStates]
  /\ result \in [1 .. Size -> Results]
  /\ orphans \in [{"sent", "undo", "held"} -> Nat]
  /\ timeouts \in Nat
  /\ summaries \in Seq(Summaries)

\* The semaphore: no more requests at the gateway than the level is wide.
WithinWidth == level \in 0 .. Len(Levels) => Cardinality(Active) <= Width

\* A handler loses its client when it times out, or leaves a stream at its end.
OrphansHaveACause ==
  orphans["sent"] + orphans["held"] + orphans["undo"] > 0 => stream \/ timeouts > 0

\* A summary counts every request of its level, and every error under its status.
AddsUp(s) ==
  /\ s.total = Requests /\ s.success + s.errors = s.total
  /\ SumOn(s.statuses, DOMAIN s.statuses) = s.errors

Breakdowns == \A l \in DOMAIN summaries : AddsUp(summaries[l])

IInv == Types /\ WithinWidth /\ OrphansHaveACause /\ Breakdowns

-----------------------------------------------------------------------------
(* The operators                                                           *)

\* What the assumption says of each constant.
LEMMA Constants ==
  /\ Levels \in Seq(Nat \ {0}) /\ Len(Levels) \in Nat /\ DOMAIN Levels = 1 .. Len(Levels)
  /\ \A l \in DOMAIN Levels : Levels[l] \in Nat \ {0}
  /\ Requests \in Nat \ {0} /\ Limit \in Nat \ {0} /\ Warmups \in Nat
BY BenchmarkAssumption DEF BenchmarkAssumption

\* There are finitely many results, so a level can be counted by them.
LEMMA ResultsFinite == IsFiniteSet(Results)
<1>1. IsFiniteSet({"none"})
  BY FS_Singleton
<1>2. IsFiniteSet({"none", "ok"})
  BY <1>1, FS_AddElement, {"none", "ok"} = {"none"} \cup {"ok"}
<1>3. IsFiniteSet({"none", "ok", "exception"})
  BY <1>2, FS_AddElement, {"none", "ok", "exception"} = {"none", "ok"} \cup {"exception"}
<1>4. IsFiniteSet({"none", "ok", "exception", "429"})
  BY <1>3, FS_AddElement,
     {"none", "ok", "exception", "429"} = {"none", "ok", "exception"} \cup {"429"}
<1> QED
  BY <1>4, FS_AddElement,
     Results = {"none", "ok", "exception", "429"} \cup {"502"} DEF Results

\* The statuses of a level are counted without gap and without overlap.
LEMMA StatusesAddUp ==
  ASSUME NEW n \in Nat, NEW res \in [1 .. n -> Results]
  PROVE  LET s == Summary(res)
         IN /\ s \in Summaries
            /\ s.total = n /\ s.success + s.errors = s.total
            /\ SumOn(s.statuses, DOMAIN s.statuses) = s.errors
<1> DEFINE D == 1 .. n
           K == {res[i] : i \in D} \ {"ok"}
           f == ErrorStatuses(res)
<1>1. /\ DOMAIN res = D /\ Len(res) = n /\ IsFiniteSet(D) /\ Cardinality(D) = n
  BY FS_Interval
<1>2. /\ DOMAIN f = K /\ \A k \in K : f[k] = Cardinality(Class(res, D, k))
  BY <1>1 DEF ErrorStatuses, Of, Class
<1>3. IsFiniteSet(K)
  <2>1. K \subseteq Results
    OBVIOUS
  <2> QED
    BY <2>1, ResultsFinite, FS_Subset
<1>4. SumOn(f, K) = Cardinality(Classes(res, D, K))
  <2> HIDE DEF D, K, f
  <2> QED
    BY <1>1, <1>2, <1>3, SumOfClasses
<1>5. Cardinality(Classes(res, D, K)) = n - Cardinality({i \in D : res[i] = "ok"})
  <2> DEFINE ok == {i \in D : res[i] = "ok"}
  <2>1. Classes(res, D, K) = D \ ok
    BY DEF Classes
  <2>2. IsFiniteSet(ok) /\ ok \subseteq D
    BY <1>1, FS_Subset
  <2>3. D \cap ok = ok
    OBVIOUS
  <2> HIDE DEF D, K, ok
  <2>4. Cardinality(D \ ok) = Cardinality(D) - Cardinality(D \cap ok)
    BY <1>1, <2>2, FS_Difference
  <2> QED
    BY <1>1, <2>1, <2>3, <2>4 DEF ok
<1>6. Cardinality({i \in D : res[i] = "ok"}) \in Nat
  <2>1. {i \in D : res[i] = "ok"} \subseteq D
    OBVIOUS
  <2> QED
    BY <1>1, <2>1, FS_Subset, FS_CardinalityType
<1>7. f \in [K -> Nat] /\ K \in SUBSET Results
  <2>1. K \in SUBSET Results
    OBVIOUS
  <2>2. \A k \in K : f[k] \in Nat
    <3> SUFFICES ASSUME NEW k \in K PROVE f[k] \in Nat
      OBVIOUS
    <3>1. Class(res, D, k) \subseteq D
      BY DEF Class
    <3>2. IsFiniteSet(Class(res, D, k))
      BY <1>1, <3>1, FS_Subset
    <3> HIDE DEF D, K, f
    <3> QED
      BY <1>2, <3>2, FS_CardinalityType
  <2>3. f = [k \in K |-> f[k]]
    BY <1>1 DEF ErrorStatuses
  <2> HIDE DEF f, K
  <2> QED
    BY <2>1, <2>2, <2>3
<1>8. /\ Summary(res).total = n
      /\ Summary(res).success = Cardinality({i \in D : res[i] = "ok"})
      /\ Summary(res).errors = n - Cardinality({i \in D : res[i] = "ok"})
      /\ Summary(res).statuses = f
  BY <1>1 DEF Summary, Of
<1>9. Summary(res) = [total |-> Summary(res).total, success |-> Summary(res).success,
                      errors |-> Summary(res).errors, statuses |-> Summary(res).statuses]
  BY DEF Summary
<1> DEFINE ok == Cardinality({i \in D : res[i] = "ok"})
<1>10. ok \in Nat /\ n - ok \in Int
  BY <1>6
<1> HIDE DEF D, K, f, ok
<1>11. f \in UNION {[k -> Nat] : k \in SUBSET Results}
  BY <1>7
<1>12. Summary(res).total = n /\ Summary(res).success = ok /\ Summary(res).errors = n - ok
  BY <1>8 DEF ok
<1>13. Summary(res) = [total |-> n, success |-> ok, errors |-> n - ok, statuses |-> f]
  BY <1>8, <1>9, <1>12
<1>14. [total |-> n, success |-> ok, errors |-> n - ok, statuses |-> f] \in Summaries
  BY <1>10, <1>11 DEF Summaries
<1>15. Summary(res) \in Summaries
  BY <1>13, <1>14
<1>16. SumOn(f, K) = n - ok /\ DOMAIN f = K
  BY <1>2, <1>4, <1>5 DEF ok
<1> QED
  BY <1>8, <1>10, <1>12, <1>15, <1>16

\* The coroutines at the gateway can be counted.
LEMMA ActiveFinite ==
  ASSUME Types
  PROVE  IsFiniteSet(Tasks) /\ Tasks = 1 .. Size /\ IsFiniteSet(Active) /\ Cardinality(Active) \in Nat
<1>1. Tasks = 1 .. Size /\ Size \in Nat
  BY Constants DEF Types, Tasks, Size
<1>2. IsFiniteSet(Tasks)
  BY <1>1, FS_Interval
<1>3. Active \subseteq Tasks
  BY DEF Active
<1> QED
  BY <1>1, <1>2, <1>3, FS_Subset, FS_CardinalityType

\* The gateway's counter is a number.
LEMMA CounterType ==
  ASSUME Types
  PROVE  Cardinality(InState("held") \cup InState("undo")) \in Nat /\ Counter \in Nat
<1>1. InState("held") \cup InState("undo") \subseteq Tasks
  BY DEF InState
<1>2. Cardinality(InState("held") \cup InState("undo")) \in Nat
  BY <1>1, ActiveFinite, FS_Subset, FS_CardinalityType
<1>3. orphans["held"] \in Nat /\ orphans["undo"] \in Nat
  BY DEF Types
<1> QED
  BY <1>2, <1>3 DEF Counter

-----------------------------------------------------------------------------
(* Steps of one request                                                    *)

\* The request i moves, and with it its result and the gateway's orphans.
Moves(i, s) ==
  /\ i \in DOMAIN task /\ s \in TaskStates
  /\ task' = [task EXCEPT ![i] = s]
  /\ \/ task[i] \notin {"waiting", "done"}
     \/ task[i] = "waiting" /\ Permits > 0 /\ s = "sent"
  /\ \/ result' = result
     \/ \E r \in Results : result' = [result EXCEPT ![i] = r]
  /\ UNCHANGED <<stream, level, summaries>>
  /\ timeouts' \in {timeouts, timeouts + 1}
  /\ \/ orphans' = orphans
     \/ \E o \in {"sent", "undo", "held"} :
          /\ orphans' = [orphans EXCEPT ![o] = orphans[o] + 1]
          /\ stream \/ timeouts' > timeouts

\* An orphan moves.
OrphanMoves ==
  /\ UNCHANGED <<stream, level, task, result, summaries, timeouts>>
  /\ orphans' \in [{"sent", "undo", "held"} -> Nat]
  /\ orphans["sent"] + orphans["held"] + orphans["undo"] > 0

\* Every step moves one coroutine, moves orphans, or ends the warmup or a
\* level.
LEMMA Steps ==
  ASSUME Types, Next
  PROVE  \/ \E i \in DOMAIN task, s \in TaskStates : Moves(i, s)
         \/ OrphanMoves \/ EndWarmup \/ NextLevel
<1>0. /\ task \in [1 .. Size -> TaskStates] /\ timeouts \in Nat
      /\ orphans \in [{"sent", "undo", "held"} -> Nat]
  BY DEF Types
<1>1. ASSUME NEW i \in DOMAIN task, Start(i) \/ Incr(i) \/ Undo(i) \/ Release(i) \/ LeaveAtDone(i) \/ Answer(i) \/ Timeout(i)
      PROVE  \E s \in TaskStates : Moves(i, s)
  <2>1. CASE Start(i)
    <3>1. Moves(i, "sent")
      BY <1>0, <2>1 DEF Start, Moves, Goto, TaskStates
    <3> QED
      BY <3>1 DEF TaskStates
  <2>2. CASE Incr(i)
    <3>1. Moves(i, "held") \/ Moves(i, "undo")
      BY <1>0, <2>2 DEF Incr, Moves, Goto, Set, TaskStates, Results
    <3> QED
      BY <3>1 DEF TaskStates
  <2>3. CASE Undo(i)
    <3>1. Moves(i, "answer")
      BY <1>0, <2>3 DEF Undo, Moves, Goto, TaskStates
    <3> QED
      BY <3>1 DEF TaskStates
  <2>4. CASE Release(i)
    <3>1. Moves(i, "answer")
      BY <1>0, <2>4 DEF Release, Moves, Goto, Set, TaskStates, Results
    <3> QED
      BY <3>1 DEF TaskStates
  <2>5. CASE LeaveAtDone(i)
    <3>1. orphans' = [orphans EXCEPT !["held"] = orphans["held"] + 1]
      BY <2>5 DEF LeaveAtDone
    <3>2. Moves(i, "done")
      BY <1>0, <2>5, <3>1 DEF LeaveAtDone, Moves, Goto, Set, TaskStates, Results
    <3> QED
      BY <3>2 DEF TaskStates
  <2>6. CASE Answer(i)
    <3>1. Moves(i, "done")
      BY <1>0, <2>6 DEF Answer, Moves, Goto, TaskStates
    <3> QED
      BY <3>1 DEF TaskStates
  <2>7. CASE Timeout(i)
    <3>1. /\ orphans' = orphans
          \/ \E o \in {"sent", "undo", "held"} : orphans' = [orphans EXCEPT ![o] = orphans[o] + 1]
      BY <2>7 DEF Timeout
    <3>2. Moves(i, "done")
      BY <1>0, <2>7, <3>1 DEF Timeout, Moves, Goto, Set, TaskStates, Results
    <3> QED
      BY <3>2 DEF TaskStates
  <2> QED
    BY <1>1, <2>1, <2>2, <2>3, <2>4, <2>5, <2>6, <2>7
<1>2. CASE OrphanIncr
  <2>1. orphans["sent"] \in Nat /\ orphans["sent"] > 0 /\ orphans["held"] \in Nat /\ orphans["undo"] \in Nat
    BY <1>0, <1>2 DEF OrphanIncr
  <2>2. orphans' \in [{"sent", "undo", "held"} -> Nat]
    <3>1. CASE orphans' = [orphans EXCEPT !["sent"] = @ - 1, !["held"] = @ + 1]
      BY <1>0, <2>1, <3>1
    <3>2. CASE orphans' = [orphans EXCEPT !["sent"] = @ - 1, !["undo"] = @ + 1]
      BY <1>0, <2>1, <3>2
    <3> QED
      BY <1>2, <3>1, <3>2 DEF OrphanIncr
  <2> QED
    BY <1>2, <2>1, <2>2 DEF OrphanIncr, OrphanMoves
<1>3. CASE OrphanEnds
  <2>1. PICK s \in {"held", "undo"} : orphans[s] > 0 /\ orphans' = [orphans EXCEPT ![s] = @ - 1]
    BY <1>3 DEF OrphanEnds
  <2>2. orphans["sent"] \in Nat /\ orphans["held"] \in Nat /\ orphans["undo"] \in Nat
    BY <1>0
  <2>3. orphans' \in [{"sent", "undo", "held"} -> Nat]
    BY <1>0, <2>1, <2>2
  <2> QED
    BY <1>3, <2>1, <2>2, <2>3 DEF OrphanEnds, OrphanMoves
<1> QED
  BY <1>1, <1>2, <1>3 DEF Next, Proceed

-----------------------------------------------------------------------------
(* Preservation                                                            *)

\* A coroutine that goes on keeps the invariant.
LEMMA MovesKeepIInv ==
  ASSUME IInv, NEW i \in DOMAIN task, NEW s \in TaskStates, Moves(i, s)
  PROVE  IInv'
<1> USE DEF IInv, Moves
<1>0. /\ Size' = Size /\ Width' = Width /\ DOMAIN task = 1 .. Size /\ DOMAIN task' = 1 .. Size
      /\ timeouts \in Nat /\ orphans \in [{"sent", "undo", "held"} -> Nat]
  BY DEF Size, Width, Types
<1>1. Types'
  <2>1. task' \in [1 .. Size -> TaskStates]
    BY DEF Types
  <2>2. result' \in [1 .. Size -> Results]
    BY <1>0 DEF Types
  <2>3. orphans' \in [{"sent", "undo", "held"} -> Nat] /\ timeouts' \in Nat
    BY <1>0
  <2> QED
    BY <1>0, <2>1, <2>2, <2>3 DEF Types
<1>2. WithinWidth'
  <2> SUFFICES ASSUME level \in 0 .. Len(Levels)
               PROVE  Cardinality(Active') <= Width
    BY <1>0 DEF WithinWidth
  <2>0. /\ IsFiniteSet(Active) /\ Cardinality(Active) \in Nat /\ Cardinality(Active) <= Width
        /\ Width \in Nat /\ Permits = Width - Cardinality(Active)
    <3>1. IsFiniteSet(Active) /\ Cardinality(Active) \in Nat
      BY ActiveFinite
    <3>2. Cardinality(Active) <= Width
      BY DEF WithinWidth
    <3>3. Width \in Nat
      BY Constants DEF Width
    <3> QED
      BY <3>1, <3>2, <3>3 DEF Permits, Active
  <2>1. CASE task[i] \notin {"waiting", "done"}
    <3>1. Active' \subseteq Active
      BY <1>0, <2>1 DEF Active, Tasks, Types
    <3>2. Cardinality(Active') <= Cardinality(Active) /\ Cardinality(Active') \in Nat
      BY <2>0, <3>1, FS_Subset, FS_CardinalityType
    <3> QED
      BY <2>0, <3>2
  <2>2. CASE task[i] = "waiting" /\ Permits > 0
    <3>1. Active' \subseteq Active \cup {i}
      BY <1>0 DEF Active, Tasks, Types
    <3>2. IsFiniteSet(Active \cup {i}) /\ Cardinality(Active \cup {i}) <= Cardinality(Active) + 1
          /\ Cardinality(Active \cup {i}) \in Nat
      <4>1. IsFiniteSet(Active \cup {i})
            /\ Cardinality(Active \cup {i}) = IF i \in Active THEN Cardinality(Active) ELSE Cardinality(Active) + 1
        BY <2>0, FS_AddElement
      <4> QED
        BY <2>0, <4>1
    <3>3. Cardinality(Active') <= Cardinality(Active \cup {i}) /\ Cardinality(Active') \in Nat
      BY <3>1, <3>2, FS_Subset, FS_CardinalityType
    <3> QED
      BY <2>0, <2>2, <3>2, <3>3
  <2> QED
    BY <2>1, <2>2
<1>3. OrphansHaveACause'
  BY <1>0 DEF OrphansHaveACause
<1>4. Breakdowns'
  BY DEF Breakdowns, AddsUp
<1> QED
  BY <1>1, <1>2, <1>3, <1>4

\* Handlers whose client has gone keep it.
LEMMA OrphanMovesKeepsIInv ==
  ASSUME IInv, OrphanMoves
  PROVE  IInv'
<1> USE DEF IInv, OrphanMoves
<1>1. Types'
  BY DEF Types, Size
<1>2. WithinWidth'
  BY DEF WithinWidth, Active, Tasks, Width
<1>3. OrphansHaveACause'
  BY DEF OrphansHaveACause
<1>4. Breakdowns'
  BY DEF Breakdowns, AddsUp
<1> QED
  BY <1>1, <1>2, <1>3, <1>4

\* A level that begins has all its permits.
LEMMA FreshLevel ==
  ASSUME Types, NEW n \in Nat, task' = Fresh(n), n = Size', result' = Unknown(n)
  PROVE  /\ task' \in [1 .. Size -> TaskStates]' /\ result' \in [1 .. Size -> Results]'
         /\ Cardinality(Active') = 0
<1>1. task' = [j \in 1 .. n |-> "waiting"] /\ result' = [j \in 1 .. n |-> "none"]
  BY DEF Fresh, Unknown
<1>2. Active' = {}
  BY <1>1 DEF Active, Tasks
<1> QED
  BY <1>1, <1>2, FS_EmptySet DEF TaskStates, Results

\* The end of the warmup keeps it: no coroutine is left at the gateway.
LEMMA EndWarmupKeepsIInv ==
  ASSUME IInv, EndWarmup
  PROVE  IInv'
<1> USE DEF IInv, EndWarmup
<1>0. /\ level' = 1 /\ 1 \in DOMAIN Levels /\ Len(Levels) \in Nat
      /\ UNCHANGED <<stream, orphans, summaries, timeouts>>
  <2>1. Len(Levels) # 0
    BY BenchmarkAssumption DEF BenchmarkAssumption
  <2> QED
    BY <2>1, Constants
<1>1. Size' = Requests /\ Width' = Levels[1]
  BY <1>0 DEF Size, Width
<1>2. task' \in [1 .. Size -> TaskStates]' /\ result' \in [1 .. Size -> Results]' /\ Cardinality(Active') = 0
  BY <1>1, Constants, FreshLevel DEF StartLevel
<1>3. Types'
  BY <1>0, <1>2 DEF Types
<1>4. WithinWidth' /\ OrphansHaveACause' /\ Breakdowns'
  BY <1>0, <1>1, <1>2, Constants DEF WithinWidth, OrphansHaveACause, Breakdowns, AddsUp
<1> QED
  BY <1>3, <1>4

\* The end of a level keeps it: its summary adds up.
LEMMA NextLevelKeepsIInv ==
  ASSUME IInv, NextLevel
  PROVE  IInv'
<1> USE DEF IInv, NextLevel
<1>0. /\ level' = level + 1 /\ level \in 1 .. Len(Levels) /\ Len(Levels) \in Nat
      /\ UNCHANGED <<stream, orphans, timeouts>> /\ level # 0 /\ Requests \in Nat
  BY Constants DEF Types
<1>1. /\ Summary(result) \in Summaries /\ AddsUp(Summary(result))
  <2>1. result \in [1 .. Requests -> Results]
    BY <1>0, Constants DEF Types, Size
  <2> QED
    BY <1>0, <2>1, StatusesAddUp DEF AddsUp
<1>2. /\ summaries' = Append(summaries, Summary(result)) /\ summaries' \in Seq(Summaries)
      /\ DOMAIN summaries' = 1 .. Len(summaries) + 1 /\ Len(summaries) \in Nat
      /\ \A l \in 1 .. Len(summaries) : summaries'[l] = summaries[l] /\ l \in DOMAIN summaries
      /\ summaries'[Len(summaries) + 1] = Summary(result)
  <2>1. PICK new \in Summaries : new = Summary(result)
    BY <1>1
  <2>2. summaries' = Append(summaries, new) /\ summaries \in Seq(Summaries)
    BY <2>1 DEF Types
  <2> QED
    BY <2>1, <2>2
<1>3. Breakdowns'
  <2> SUFFICES ASSUME NEW l \in 1 .. Len(summaries) + 1
               PROVE  AddsUp(summaries'[l])
    BY <1>2 DEF Breakdowns, AddsUp
  <2>1. CASE l \in 1 .. Len(summaries)
    BY <1>2, <2>1 DEF Breakdowns
  <2>2. CASE l = Len(summaries) + 1
    BY <1>1, <1>2, <2>2
  <2> QED
    BY <1>2, <2>1, <2>2
<1>4. OrphansHaveACause'
  BY <1>0 DEF OrphansHaveACause
<1>5. CASE level < Len(Levels)
  <2>1. Size' = Requests /\ level' \in DOMAIN Levels /\ Width' = Levels[level'] /\ Width' \in Nat \ {0}
    BY <1>0, <1>5, Constants DEF Size, Width
  <2>2. task' \in [1 .. Size -> TaskStates]' /\ result' \in [1 .. Size -> Results]' /\ Cardinality(Active') = 0
    BY <1>0, <1>5, <2>1, FreshLevel DEF StartLevel
  <2>3. Types' /\ WithinWidth'
    BY <1>0, <1>2, <2>1, <2>2 DEF Types, WithinWidth
  <2> QED
    BY <1>3, <1>4, <2>3
<1>6. CASE level = Len(Levels)
  <2>1. Size' = 0 /\ task' = << >> /\ result' = << >> /\ level' = Len(Levels) + 1
    BY <1>0, <1>6, Constants DEF Size
  <2>2. task' \in [1 .. Size -> TaskStates]' /\ result' \in [1 .. Size -> Results]'
    BY <2>1
  <2>3. Types' /\ WithinWidth'
    BY <1>0, <1>2, <2>1, <2>2 DEF Types, WithinWidth
  <2> QED
    BY <1>3, <1>4, <2>3
<1> QED
  BY <1>0, <1>5, <1>6

\* Every step keeps the invariant.
LEMMA NextKeepsIInv ==
  ASSUME IInv, [Next]_vars
  PROVE  IInv'
<1>1. CASE Next
  BY <1>1, Steps, MovesKeepIInv, OrphanMovesKeepsIInv, EndWarmupKeepsIInv, NextLevelKeepsIInv DEF IInv
<1>2. CASE UNCHANGED vars
  BY <1>2 DEF vars, IInv, Types, Size, WithinWidth, Active, Tasks, Width, OrphansHaveACause, Breakdowns, AddsUp
<1> QED
  BY <1>1, <1>2

\* The invariant holds at first.
LEMMA InitIInv ==
  ASSUME Init
  PROVE  IInv
<1> USE DEF Init
<1>1. Size = Warmups /\ Width = 1
  BY DEF Size, Width
<1>2. task = [j \in 1 .. Warmups |-> "waiting"] /\ result = [j \in 1 .. Warmups |-> "none"]
  BY DEF Fresh, Unknown
<1>3. Types
  BY <1>1, <1>2, Constants DEF Types, TaskStates, Results
<1>4. WithinWidth
  <2>1. Active = {}
    BY <1>2 DEF Active, Tasks
  <2> QED
    BY <1>1, <2>1, FS_EmptySet DEF WithinWidth
<1>5. OrphansHaveACause /\ Breakdowns
  BY DEF OrphansHaveACause, Breakdowns
<1> QED
  BY <1>3, <1>4, <1>5 DEF IInv

-----------------------------------------------------------------------------
(* The theorems                                                            *)

\* The parts of IInv hold in every reachable state.
THEOREM InductiveInvariant == Spec => []IInv
<1>1. Init => IInv
  BY InitIInv
<1>2. IInv /\ [Next]_vars => IInv'
  BY NextKeepsIInv
<1> QED
  BY <1>1, <1>2, PTL DEF Spec

\* Every summary counts every request of its level once: the successes and the
\* errors make up the total, and the errors by status make up the errors.
THEOREM SummariesAddUp == Spec => []BreakdownsAddUp
<1>1. ASSUME IInv PROVE BreakdownsAddUp
  <2> SUFFICES ASSUME NEW l \in DOMAIN summaries
               PROVE  LET s == summaries[l]
                      IN /\ s.total = Requests /\ s.success + s.errors = s.total
                         /\ MapThenSumSet(LAMBDA k : s.statuses[k], DOMAIN s.statuses) = s.errors
    BY DEF BreakdownsAddUp
  <2>1. AddsUp(summaries[l])
    BY <1>1 DEF IInv, Breakdowns
  <2> QED
    BY <2>1, SumOnIsFold DEF AddsUp
<1>2. IInv => BreakdownsAddUp
  BY <1>1
<1> QED
  BY <1>2, InductiveInvariant, PTL

\* At a level within the gateway's limit, and in the warmup, only a handler
\* whose client has gone, and that still holds a slot, gets a request rejected.
THEOREM RejectionsExplained == Spec => RejectionsAreOverlaps
<1>1. ASSUME IInv, Next, NEW i \in InState("sent") \cap DOMAIN task', task'[i] = "undo", Width <= Limit
      PROVE  orphans.held + orphans.undo > 0 /\ (stream \/ timeouts > 0)
  <2>0. /\ i \in DOMAIN task /\ task[i] = "sent" /\ Types
        /\ orphans["sent"] \in Nat /\ orphans["held"] \in Nat /\ orphans["undo"] \in Nat
        /\ Limit \in Nat
    BY <1>1, Constants DEF InState, Tasks, IInv, Types
  <2>1. level \in 0 .. Len(Levels) /\ Width \in Nat
    <3>1. level \in 0 .. Len(Levels) + 1 /\ Len(Levels) \in Nat /\ i \in 1 .. Size
      BY <2>0, Constants DEF Types
    <3>2. level # Len(Levels) + 1
      BY <3>1, Constants DEF Size
    <3> QED
      BY <3>1, <3>2, Constants DEF Width
  <2>2. Counter + 1 > Limit
    <3>1. ~Gathered
      BY <2>0 DEF Gathered, Tasks
    <3>2. Incr(i)
      <4>1. ASSUME NEW j \in DOMAIN task, Start(j) \/ Undo(j) \/ Release(j) \/ LeaveAtDone(j) \/ Answer(j) \/ Timeout(j) \/ Incr(j)
            PROVE  Incr(i)
        <5>1. j = i
          BY <1>1, <2>0, <4>1 DEF Start, Undo, Release, LeaveAtDone, Answer, Timeout, Incr, Goto, Types
        <5> QED
          BY <1>1, <2>0, <4>1, <5>1 DEF Start, Undo, Release, LeaveAtDone, Answer, Timeout, Goto, Types
      <4>2. ~OrphanIncr /\ ~OrphanEnds
        BY <1>1, <2>0 DEF OrphanIncr, OrphanEnds
      <4> QED
        BY <1>1, <3>1, <4>1, <4>2 DEF Next, Proceed, EndWarmup, NextLevel
    <3> QED
      BY <1>1, <2>0, <2>1, <3>2, CounterType DEF Incr, Goto, Types
  <2>3. Cardinality(InState("held") \cup InState("undo")) <= Width - 1
    <3> DEFINE H == InState("held") \cup InState("undo")
    <3>1. IsFiniteSet(Active) /\ Cardinality(Active) \in Nat /\ Cardinality(Active) <= Width /\ i \in Active
      BY <1>1, <2>0, <2>1, ActiveFinite DEF IInv, WithinWidth, Active, Tasks
    <3>2. H \subseteq Active \ {i}
      BY <2>0 DEF InState, Active
    <3> HIDE DEF H
    <3>3. IsFiniteSet(Active \ {i}) /\ Cardinality(Active \ {i}) = Cardinality(Active) - 1
      BY <3>1, FS_RemoveElement
    <3>4. Cardinality(H) <= Cardinality(Active \ {i}) /\ Cardinality(H) \in Nat
      BY <3>2, <3>3, FS_Subset, FS_CardinalityType
    <3> QED
      BY <2>1, <3>1, <3>3, <3>4 DEF H
  <2>4. orphans["held"] + orphans["undo"] > 0
    <3>1. Cardinality(InState("held") \cup InState("undo")) \in Nat
      BY <2>0, CounterType
    <3> QED
      BY <1>1, <2>0, <2>1, <2>2, <2>3, <3>1 DEF Counter
  <2>5. stream \/ timeouts > 0
    BY <1>1, <2>0, <2>4 DEF IInv, OrphansHaveACause
  <2> QED
    BY <2>4, <2>5
<1>2. IInv /\ [Next]_vars =>
        [\A i \in InState("sent") \cap DOMAIN task' : task'[i] = "undo" /\ Width <= Limit =>
           orphans.held + orphans.undo > 0 /\ (stream \/ timeouts > 0)]_vars
  BY <1>1
<1> QED
  BY <1>2, InductiveInvariant, PTL DEF Spec, RejectionsAreOverlaps

=============================================================================

----------------------------- MODULE BenchmarkRun -----------------------------
(***************************************************************************)
(* benchmark/run_benchmark.py against a gateway that limits the concurrent *)
(* requests of the benchmark's API key: run_benchmark, the warmup, the     *)
(* levels of run_concurrency_level with their semaphore and gather, the    *)
(* two forms of send_chat_completion_request, and the breakdowns of        *)
(* summarize_results.  The gateway is what ConcurrencyLease says of it,    *)
(* without its faults: a slot is given back before a plain response is     *)
(* sent, and after the last chunk of a stream is.                          *)
(***************************************************************************)
EXTENDS Integers, Sequences, FiniteSets, FiniteSetsExt

CONSTANTS
  Levels,         (* args.concurrency                                      *)
  Requests,       (* args.requests_per_level                               *)
  Warmups,        (* args.warmup_requests                                  *)
  Limit,          (* rate_limit_concurrent_requests of the gateway         *)
  MaxTimeouts,    (* bound: requests the client gives up                   *)
  MaxFailures     (* bound: requests that fail after their INCR            *)

ASSUME BenchmarkAssumption ==
  /\ Levels \in Seq(Nat \ {0}) /\ Levels # << >>
  /\ Requests \in Nat \ {0}
  /\ Limit \in Nat \ {0}
  /\ Warmups \in Nat /\ MaxTimeouts \in Nat /\ MaxFailures \in Nat

VARIABLES
  stream,      (* args.stream                                               *)
  level,       (* 0: warming up; else the index of the level                *)
  task,        (* task[i]: where the coroutine of the i-th request is       *)
  result,      (* result[i]: its status code; "ok"; "exception"             *)
  orphans,     (* the gateway's handlers whose client does not wait for     *)
               (* them: how many are "sent", "undo" and "held"              *)
  summaries,   (* the summaries of the levels done                          *)
  timeouts,    (* history: client timeouts so far                           *)
  failures     (* history: failures after the INCR so far                   *)

vars == <<stream, level, task, result, orphans, summaries, timeouts, failures>>

\*   waiting  at the semaphore          sent   at the gateway, before its INCR
\*   held     holds a slot              undo   rejected, before its DECR
\*   answer   the slot is given back, the response is on its way
\*   done     the coroutine has its result
Tasks == DOMAIN task
Width == IF level = 0 THEN 1 ELSE Levels[level]

Fresh(n) == [i \in 1 .. n |-> "waiting"]
Unknown(n) == [i \in 1 .. n |-> "none"]

InState(s) == {i \in Tasks : task[i] = s}
Permits == Width - Cardinality({i \in Tasks : task[i] \notin {"waiting", "done"}})

\* The counter in Redis.
Counter == Cardinality(InState("held") \cup InState("undo")) + orphans.held + orphans.undo

Goto(i, s) == task' = [task EXCEPT ![i] = s]
Set(i, r) == result' = [result EXCEPT ![i] = r]

-----------------------------------------------------------------------------
(* The client                                                              *)

\* asyncio.Semaphore wakes its waiters in the order gather started them.
Start(i) ==
  /\ task[i] = "waiting" /\ Permits > 0
  /\ \A j \in 1 .. i - 1 : task[j] # "waiting"
  /\ Goto(i, "sent")
  /\ UNCHANGED <<stream, level, result, orphans, summaries, timeouts, failures>>

\* The response arrives: the permit is free again.
Answer(i) ==
  /\ task[i] = "answer"
  /\ Goto(i, "done")
  /\ UNCHANGED <<stream, level, result, orphans, summaries, timeouts, failures>>

\* Mutant: the exception is not caught: gather raises it, the run ends.
TimeoutRaises(i) ==
  /\ task[i] \in {"sent", "held", "undo", "answer"} /\ timeouts < MaxTimeouts
  /\ timeouts' = timeouts + 1
  /\ level' = Len(Levels) + 1
  /\ task' = << >> /\ result' = << >>
  /\ UNCHANGED <<stream, orphans, summaries, failures>>

\* httpx times out, or its connection fails.  The gateway's handler goes on.
Timeout(i) ==
  /\ task[i] \in {"sent", "held", "undo", "answer"} /\ timeouts < MaxTimeouts
  /\ timeouts' = timeouts + 1
  /\ orphans' = IF task[i] = "answer" THEN orphans
                ELSE [orphans EXCEPT ![task[i]] = @ + 1]
  /\ Goto(i, "done") /\ Set(i, "exception")
  /\ UNCHANGED <<stream, level, summaries, failures>>

-----------------------------------------------------------------------------
(* The gateway                                                             *)

Incr(i) ==
  /\ task[i] = "sent"
  /\ IF Counter + 1 <= Limit
     THEN Goto(i, "held") /\ UNCHANGED result
     ELSE Goto(i, "undo") /\ Set(i, "429")
  /\ UNCHANGED <<stream, level, orphans, summaries, timeouts, failures>>

Undo(i) ==
  /\ task[i] = "undo"
  /\ Goto(i, "answer")
  /\ UNCHANGED <<stream, level, result, orphans, summaries, timeouts, failures>>

\* Mutant: a plain response is sent before its slot is given back.
AnswerFirst(i) ==
  /\ task[i] = "held"
  /\ Goto(i, "answer") /\ Set(i, "ok")
  /\ orphans' = [orphans EXCEPT !.held = @ + 1]
  /\ UNCHANGED <<stream, level, summaries, timeouts, failures>>

\* A completion, a stream that ended, or a failure: the slot is given back before
\* the response ends, by the finally clause or, after a request or token window
\* that is full, by enforce_chat_rate_limit.  A body that breaks half way, or a
\* connection that does before the answer, is an exception of the client's.
Release(i) ==
  /\ task[i] = "held"
  /\ Goto(i, "answer")
  /\ \/ Set(i, "ok") /\ UNCHANGED failures
     \/ /\ failures < MaxFailures /\ failures' = failures + 1
        /\ \E r \in {"502", "429", "exception"} : Set(i, r)
  /\ UNCHANGED <<stream, level, orphans, summaries, timeouts>>

\* The client reads "[DONE]" and leaves the loop, before wrap_stream's
\* finally clause has run.
LeaveAtDone(i) ==
  /\ stream /\ task[i] = "held"
  /\ Goto(i, "done") /\ Set(i, "ok")
  /\ orphans' = [orphans EXCEPT !.held = @ + 1]
  /\ UNCHANGED <<stream, level, summaries, timeouts, failures>>

\* The handlers that nobody waits for.
OrphanIncr ==
  /\ orphans.sent > 0
  /\ orphans' = IF Counter + 1 <= Limit
                THEN [orphans EXCEPT !.sent = @ - 1, !.held = @ + 1]
                ELSE [orphans EXCEPT !.sent = @ - 1, !.undo = @ + 1]
  /\ UNCHANGED <<stream, level, task, result, summaries, timeouts, failures>>

OrphanEnds ==
  /\ \E s \in {"held", "undo"} :
       orphans[s] > 0 /\ orphans' = [orphans EXCEPT ![s] = @ - 1]
  /\ UNCHANGED <<stream, level, task, result, summaries, timeouts, failures>>

-----------------------------------------------------------------------------
(* The levels                                                              *)

Of(results, r) == Cardinality({i \in DOMAIN results : results[i] = r})

\* Mutant: an exception has no status code and is not broken down.
ErrorCodesOnly(results) ==
  [r \in {results[i] : i \in DOMAIN results} \ {"ok", "exception"} |-> Of(results, r)]

\* count_error_statuses; a key is a status code or "exception".
ErrorStatuses(results) ==
  [r \in {results[i] : i \in DOMAIN results} \ {"ok"} |-> Of(results, r)]

\* summarize_results.
Summary(results) ==
  [total |-> Len(results), success |-> Of(results, "ok"),
   errors |-> Len(results) - Of(results, "ok"), statuses |-> ErrorStatuses(results)]

Gathered == \A i \in Tasks : task[i] = "done"
StartLevel == task' = Fresh(Requests) /\ result' = Unknown(Requests)

\* The warmup has no summary.
EndWarmup ==
  /\ level = 0 /\ Gathered
  /\ level' = 1 /\ StartLevel
  /\ UNCHANGED <<stream, orphans, summaries, timeouts, failures>>

\* gather has every result: the next level, or write_results.
NextLevel ==
  /\ level \in DOMAIN Levels /\ Gathered
  /\ summaries' = Append(summaries, Summary(result))
  /\ level' = level + 1
  /\ IF level < Len(Levels) THEN StartLevel ELSE task' = << >> /\ result' = << >>
  /\ UNCHANGED <<stream, orphans, timeouts, failures>>

Init ==
  /\ stream \in BOOLEAN
  /\ level = 0
  /\ task = Fresh(Warmups) /\ result = Unknown(Warmups)
  /\ orphans = [s \in {"sent", "undo", "held"} |-> 0]
  /\ summaries = << >>
  /\ timeouts = 0 /\ failures = 0

\* What the event loops of the client and of the gateway do.
Proceed ==
  \/ \E i \in DOMAIN task :
       Start(i) \/ Incr(i) \/ Undo(i) \/ Release(i) \/ LeaveAtDone(i) \/ Answer(i)
  \/ OrphanIncr \/ OrphanEnds \/ EndWarmup \/ NextLevel

Next == Proceed \/ \E i \in DOMAIN task : Timeout(i)

Spec == Init /\ [][Next]_vars

\* Both event loops resume what is ready, and the backend answers.
FairSpec == Spec /\ WF_vars(Proceed)

-----------------------------------------------------------------------------
(* Properties                                                              *)

\* At a level within the limit, and in the warmup, the concurrency limit (not a
\* window, whose 429 is a failure here) rejects a request only while the gateway
\* still holds a slot of an earlier one nobody waits for: of a stream its client
\* left at "[DONE]", or of a request that timed out.  So a run of plain
\* completions without timeouts measures the concurrency it names.
RejectionsAreOverlaps ==
  [][\A i \in InState("sent") \cap DOMAIN task' : task'[i] = "undo" /\ Width <= Limit =>
       orphans.held + orphans.undo > 0 /\ (stream \/ timeouts > 0)]_vars

\* Every request of a level is in its summary once, and the breakdown of the
\* errors adds up to their number, exceptions included.
BreakdownsAddUp ==
  \A l \in DOMAIN summaries :
    LET s == summaries[l]
    IN /\ s.total = Requests /\ s.success + s.errors = s.total
       /\ MapThenSumSet(LAMBDA k : s.statuses[k], DOMAIN s.statuses) = s.errors

\* The run ends with a summary of every level, whatever fails on the way.
EveryLevelReported == <>(Len(summaries) = Len(Levels) /\ task = << >>)

=============================================================================

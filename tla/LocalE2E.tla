------------------------------- MODULE LocalE2E -------------------------------
(***************************************************************************)
(* scripts/local_e2e.py: start the mock backend and the gateway, wait for  *)
(* each, run the smoke test, stop both.  The script, its two children, the *)
(* user who presses Ctrl-C and scripts/demo_portfolio.py, which may have   *)
(* started the script, act in any order.                                   *)
(***************************************************************************)
EXTENDS BackendClient, Sequences, SequencesExt

CONSTANTS
  MaxPolls,        (* bound: polls of wait_for_http before its deadline    *)
  MaxMishaps       (* bound: crashes, interrupts, SIGTERMs of the script,  *)
                   (* and SIGKILLs that take too long                      *)

ASSUME E2EAssumption == MaxPolls \in Nat \ {0} /\ MaxMishaps \in Nat

Children == {"mock", "gateway"}

VARIABLES
  demo,        (* demo_portfolio --execute-local has started the script     *)
  pc,          (* where main() is                                           *)
  child,       (* none; starting; up; stuck (blocked in a write to its      *)
               (* stdout, a pipe nobody reads); exited                      *)
  processes,   (* the list of main()                                        *)
  asked,       (* the children that got SIGTERM or SIGINT                   *)
  killed,      (* the children that got SIGKILL                             *)
  polls,       (* polls left before the deadline                            *)
  ready,       (* the children whose wait_for_http has returned             *)
  outcome,     (* none; passed: exit status 0; failed                       *)
  lost,        (* history: main() has given up on a child (see Interrupt,   *)
               (* Kill and KillTimesOut)                                    *)
  ctrlc,       (* Ctrl-C has been pressed in the script's terminal          *)
  unheard,     (* history: the child that was forked just after it          *)
  mishaps

signals == <<demo, ctrlc, unheard>>
vars == <<pc, child, processes, asked, killed, polls, ready, outcome, lost, mishaps, signals>>

Alive(c) == child[c] \in {"starting", "up", "stuck"}
Mishap == mishaps < MaxMishaps /\ mishaps' = mishaps + 1

\* An exception inside the try block, or its end: the finally clause runs.
ToFinally(result) == pc' = "stop" /\ outcome' = result

\* The child that main() starts, or waits for.
Current == IF "mock" \in ready THEN "gateway" ELSE "mock"

\* What a request for GET /models of the mock leads to.
MockReply ==
  CASE child["mock"] = "up" -> "models" [] child["mock"] = "stuck" -> "timeout"
    [] OTHER -> "unreachable"

\* GET /models of the mock; GET /ready of the gateway, which asks the mock.
Answers(c) == child[c] = "up" /\ (c = "gateway" => Ready(MockReply).status = 200)

-----------------------------------------------------------------------------
(* main()                                                                  *)

\* ensure_port_available, twice; outside the try block.
CheckPorts ==
  /\ pc = "ports"
  /\ \/ pc' = "start" /\ UNCHANGED outcome
     \/ pc' = "done" /\ outcome' = "failed"
  /\ UNCHANGED <<child, processes, asked, killed, polls, ready, lost, mishaps, signals>>

\* subprocess.Popen.
Start ==
  /\ pc = "start"
  /\ child' = [child EXCEPT ![Current] = "starting"]
  /\ pc' = "append"
  /\ UNCHANGED <<processes, asked, killed, polls, ready, outcome, lost, mishaps, signals>>

Register ==
  /\ pc = "append"
  /\ processes' = Append(processes, Current)
  /\ polls' = MaxPolls
  /\ pc' = "wait"
  /\ UNCHANGED <<child, asked, killed, ready, outcome, lost, mishaps, signals>>

\* The child is gone: RuntimeError.
WaitFindsExit ==
  /\ pc = "wait" /\ polls > 0
  /\ child[Current] = "exited"
  /\ ToFinally("failed")
  /\ UNCHANGED <<child, processes, asked, killed, polls, ready, lost, mishaps, signals>>

WaitSucceeds ==
  /\ pc = "wait" /\ polls > 0
  /\ Answers(Current)
  /\ ready' = ready \cup {Current}
  /\ pc' = IF Current = "mock" THEN "start" ELSE "smoke"
  /\ UNCHANGED <<child, processes, asked, killed, polls, outcome, lost, mishaps, signals>>

\* Mutant: the deadline is computed inside the loop.
WaitAgainForEver ==
  /\ pc = "wait" /\ polls > 0
  /\ child[Current] # "exited"
  /\ UNCHANGED vars

\* No answer within a second, or not 200.
WaitAgain ==
  /\ pc = "wait" /\ polls > 0
  /\ child[Current] # "exited"
  /\ polls' = polls - 1
  /\ UNCHANGED <<pc, child, processes, asked, killed, ready, outcome, lost, mishaps, signals>>

\* TimeoutError.
WaitTimesOut ==
  /\ pc = "wait" /\ polls = 0
  /\ ToFinally("failed")
  /\ UNCHANGED <<child, processes, asked, killed, polls, ready, lost, mishaps, signals>>

\* run_smoke_test: it can only pass through both services.
Smoke ==
  /\ pc = "smoke"
  /\ \/ Answers("gateway") /\ ToFinally("passed")
     \/ ToFinally("failed")
  /\ UNCHANGED <<child, processes, asked, killed, polls, ready, lost, mishaps, signals>>

\* Mutant: processes are stopped in the order they were started.
StopOldest ==
  /\ pc = "stop" /\ processes # << >>
  /\ LET c == Head(processes)
     IN IF Alive(c)
        THEN /\ asked' = asked \cup {c} /\ pc' = "terminating"
             /\ processes' = Append(Tail(processes), c)
        ELSE processes' = Tail(processes) /\ UNCHANGED <<asked, pc>>
  /\ UNCHANGED <<child, killed, polls, ready, outcome, lost, mishaps, signals>>

\* stop_process of the youngest child: nothing for one that has exited.
Stop ==
  /\ pc = "stop" /\ processes # << >>
  /\ LET c == Last(processes)
     IN IF Alive(c)
        THEN asked' = asked \cup {c} /\ pc' = "terminating" /\ UNCHANGED processes
        ELSE processes' = Front(processes) /\ UNCHANGED <<asked, pc>>
  /\ UNCHANGED <<child, killed, polls, ready, outcome, lost, mishaps, signals>>

\* process.wait returns.
Stopped ==
  /\ pc \in {"terminating", "killing"}
  /\ ~Alive(Last(processes))
  /\ processes' = Front(processes)
  /\ pc' = "stop"
  /\ UNCHANGED <<child, asked, killed, polls, ready, outcome, lost, mishaps, signals>>

\* Mutant: a child that does not react to SIGTERM is left alone.
TerminateGivesUp ==
  /\ pc = "terminating" /\ Alive(Last(processes))
  /\ processes' = Front(processes)
  /\ pc' = "stop"
  /\ UNCHANGED <<child, asked, killed, polls, ready, outcome, lost, mishaps, signals>>

\* Five seconds later.
TerminateTimesOut ==
  /\ pc = "terminating" /\ Alive(Last(processes))
  /\ killed' = killed \cup {Last(processes)}
  /\ pc' = "killing"
  /\ UNCHANGED <<child, processes, asked, polls, ready, outcome, lost, mishaps, signals>>

\* Mutant: the second TimeoutExpired is swallowed.
KillTimeoutIgnored ==
  /\ pc = "killing" /\ Alive(Last(processes)) /\ Mishap
  /\ lost' = TRUE
  /\ processes' = Front(processes)
  /\ pc' = "stop"
  /\ UNCHANGED <<child, asked, killed, polls, ready, outcome, signals>>

\* Five more seconds, and the kernel has not ended the child: TimeoutExpired
\* leaves the loop over the children.
KillTimesOut ==
  /\ pc = "killing" /\ Alive(Last(processes)) /\ Mishap
  /\ lost' = TRUE
  /\ pc' = "done" /\ outcome' = "failed"
  /\ UNCHANGED <<child, processes, asked, killed, polls, ready, signals>>

Return ==
  /\ pc = "stop" /\ processes = << >>
  /\ pc' = "done"
  /\ UNCHANGED <<child, processes, asked, killed, polls, ready, outcome, lost, mishaps, signals>>

-----------------------------------------------------------------------------
(* The children and the user                                               *)

\* Mutant: a service gets a session of its own (start_new_session=True).
NoneInTerminal == {}

\* The children a Ctrl-C in the terminal reaches: Popen leaves them in the
\* script's process group.
InTerminal == {c \in Children : Alive(c)}

\* KeyboardInterrupt, from a SIGINT to the script alone or from the terminal.
\* main() forgets a child that is started and not in the list yet, and those
\* not stopped yet when the finally clause is interrupted.  A Ctrl-C pressed
\* just before the fork does not reach the child.
Interrupt ==
  /\ pc # "done" /\ Mishap
  /\ outcome' = "failed"
  /\ pc' = IF pc \in {"start", "append", "wait", "smoke"} THEN "stop" ELSE "done"
  /\ lost' = (lost \/ pc \in {"append", "stop", "terminating", "killing"})
  /\ \/ UNCHANGED <<asked, ctrlc, unheard>>
     \/ /\ ctrlc' = TRUE
        /\ \E missed \in {{}} \cup (IF pc = "append" THEN {{Current}} ELSE {}) :
             asked' = asked \cup (InTerminal \ missed) /\ unheard' = unheard \cup missed
  /\ UNCHANGED <<demo, child, processes, killed, polls, ready>>

\* The script dies without its finally clause: of a SIGTERM, or of the SIGKILL
\* by which subprocess.run in demo_portfolio ends it a quarter of a second
\* after the Ctrl-C that both got.
Kill ==
  /\ pc # "done"
  /\ Mishap \/ (demo /\ ctrlc /\ UNCHANGED mishaps)
  /\ pc' = "done" /\ outcome' = "failed" /\ lost' = TRUE
  /\ UNCHANGED <<child, processes, asked, killed, polls, ready, signals>>

Become(c, from, to) ==
  /\ child[c] \in from
  /\ child' = [child EXCEPT ![c] = to]
  /\ UNCHANGED <<pc, processes, asked, killed, polls, ready, outcome, lost, signals>>

Boot(c) == Become(c, {"starting"}, "up") /\ UNCHANGED mishaps

\* A child that logs more than its pipe holds blocks, and no handler of
\* SIGTERM runs in its event loop any more.
FillPipe(c) == pc # "done" /\ Become(c, {"up"}, "stuck") /\ UNCHANGED mishaps

\* The pipe's only reader is gone: the write fails, and the event loop goes on.
Unblock(c) == pc = "done" /\ Become(c, {"stuck"}, "up") /\ UNCHANGED mishaps

Crash(c) == Become(c, {"starting", "up"}, "exited") /\ Mishap

\* SIGTERM and SIGINT end a child whose event loop runs, SIGKILL every child.
ObeySignal(c) ==
  /\ c \in asked \cup killed
  /\ Become(c, IF c \in killed THEN {"starting", "up", "stuck"} ELSE {"starting", "up"}, "exited")
  /\ UNCHANGED mishaps

-----------------------------------------------------------------------------
Init ==
  /\ demo \in BOOLEAN /\ ctrlc = FALSE /\ unheard = {}
  /\ pc = "ports"
  /\ child = [c \in Children |-> "none"]
  /\ processes = << >> /\ asked = {} /\ killed = {} /\ ready = {}
  /\ polls = 0 /\ outcome = "none" /\ lost = FALSE /\ mishaps = 0

Main ==
  \/ CheckPorts \/ Start \/ Register
  \/ WaitFindsExit \/ WaitSucceeds \/ WaitAgain \/ WaitTimesOut \/ Smoke
  \/ Stop \/ Stopped \/ TerminateTimesOut \/ KillTimesOut \/ Return

Next ==
  \/ Main \/ Interrupt \/ Kill
  \/ \E c \in Children : Boot(c) \/ FillPipe(c) \/ Unblock(c) \/ Crash(c) \/ ObeySignal(c)

Spec == Init /\ [][Next]_vars

\* The script runs, its timeouts elapse, a signal takes effect, and a write to
\* a pipe without a reader fails.
FairSpec == Spec /\ WF_vars(Main)
                 /\ \A c \in Children : WF_vars(ObeySignal(c)) /\ WF_vars(Unblock(c))

-----------------------------------------------------------------------------
(* Properties                                                              *)

\* However the run went, no child outlives the script, a gateway that is
\* blocked in a write included; only an interrupted clean-up, the death of the
\* script, or a child that SIGKILL does not end, leaves one.
NoOrphans == pc = "done" /\ ~lost => \A c \in Children : ~Alive(c)

\* The script does not stop the mock under a gateway that may still be serving;
\* the terminal, which interrupts both at once, does.
MockOutlivesGateway == "mock" \in asked /\ ~lost /\ ~ctrlc => ~Alive("gateway")

\* Exit status 0 means that both services were ready, that the smoke test
\* passed and that nothing is left running.
SuccessIsComplete ==
  pc = "done" /\ outcome = "passed" =>
    ready = Children /\ \A c \in Children : child[c] = "exited"

\* The script ends, also when a service never answers.
MainEnds == <>(pc = "done")

\* Ctrl-C in the terminal ends both services, at whatever step of the script it
\* comes and also when it has the script killed before its clean-up, which
\* leaves a service that is blocked in a write to be freed by the closed pipe.
\* The exception is the service that is being forked at that very moment.
CtrlCEndsServices == ctrlc ~> \A c \in Children : Alive(c) => c \in unheard

=============================================================================

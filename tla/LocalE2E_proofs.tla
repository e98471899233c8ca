---------------------------- MODULE LocalE2E_proofs ----------------------------
(***************************************************************************)
(* Proofs about LocalE2E for every number of polls and of mishaps: what    *)
(* the local end-to-end script leaves behind when it has ended.            *)
(***************************************************************************)
EXTENDS LocalE2E, SequenceTheorems, TLAPS

Starting == {"start", "append", "wait", "smoke"}
Stopping == {"stop", "terminating", "killing"}

\* main() appends the mock first and the gateway second, and removes them from
\* the end.
Lists == {<< >>, <<"mock">>, <<"mock", "gateway">>}

Types ==
  /\ pc \in {"ports", "done"} \cup Starting \cup Stopping
  /\ child \in [Children -> {"none", "starting", "up", "stuck", "exited"}]
  /\ processes \in Lists
  /\ ready \in {{}, {"mock"}, Children}
  /\ outcome \in {"none", "passed", "failed"}

\* What main() has started when: before it stops anything, the children in its
\* list and the one it has just started are all there are; and it waits for the
\* end of the last in the list only.
StartedInOrder ==
  /\ pc \in {"ports"} \cup Starting => ~lost
  /\ pc = "ports" => child = [c \in Children |-> "none"] /\ ready = {} /\ processes = << >>
  /\ pc \in {"start", "append"} =>
       /\ ready # Children
       /\ processes = (IF ready = {} THEN << >> ELSE <<"mock">>)
  /\ pc = "start" => child[Current] = "none"
  /\ pc \in {"start", "append", "wait"} /\ Current = "mock" => child["gateway"] = "none"
  /\ pc = "wait" =>
       ready # Children /\ processes = (IF ready = {} THEN <<"mock">> ELSE <<"mock", "gateway">>)
  /\ pc = "smoke" => ready = Children /\ processes = <<"mock", "gateway">>
  /\ pc \in {"terminating", "killing"} => processes # << >>

Listed(c, list) == \E i \in DOMAIN list : list[i] = c

\* Unless main() has given up on a child, whatever it has not stopped yet is in
\* its list.
StopsWhatItStarted ==
  ~lost =>
    /\ pc \in Stopping => \A c \in Children : Alive(c) => Listed(c, processes)
    /\ pc = "done" => \A c \in Children : ~Alive(c)

\* Only Ctrl-C in the terminal signals a child before the finally clause.
AskedInOrder ==
  /\ ~ctrlc /\ pc \in {"ports"} \cup Starting => asked = {}
  /\ MockOutlivesGateway

\* The smoke test, which needs both children ready, is the only way to pass,
\* and whatever goes wrong after it takes the success back.
PassedIsReady ==
  outcome = "passed" =>
    /\ ready = Children /\ ~lost /\ pc \in Stopping \cup {"done"}
    /\ \A c \in Children : child[c] # "none"

\* A child that is ready was started.
ReadyWasStarted == \A c \in ready : child[c] # "none"

IInv ==
  /\ Types /\ StartedInOrder /\ StopsWhatItStarted
  /\ AskedInOrder /\ PassedIsReady /\ ReadyWasStarted

-----------------------------------------------------------------------------
(* The list, and the steps that leave main() alone                         *)

\* What Append, Front and Last make of the lists main() can have.
LEMMA ListFacts ==
  /\ Append(<< >>, "mock") = <<"mock">>
  /\ Append(<<"mock">>, "gateway") = <<"mock", "gateway">>
  /\ Last(<<"mock">>) = "mock" /\ Last(<<"mock", "gateway">>) = "gateway"
  /\ Front(<<"mock">>) = << >> /\ Front(<<"mock", "gateway">>) = <<"mock">>
<1> DEFINE one == <<"mock">>
           two == <<"mock", "gateway">>
<1>1. /\ one \in Seq(Children) /\ Len(one) = 1 /\ one[1] = "mock"
      /\ two \in Seq(Children) /\ Len(two) = 2 /\ two[1] = "mock" /\ two[2] = "gateway"
  BY DEF Children
<1>2. Append(one, "gateway") = two
  <2>1. /\ Append(one, "gateway") \in Seq(Children) /\ Len(Append(one, "gateway")) = 2
        /\ Append(one, "gateway")[1] = "mock" /\ Append(one, "gateway")[2] = "gateway"
    BY <1>1, AppendProperties DEF Children
  <2>2. \A i \in 1 .. 2 : Append(one, "gateway")[i] = two[i]
    BY <1>1, <2>1
  <2> QED
    BY <1>1, <2>1, <2>2, SeqEqual
<1>3. SubSeq(two, 1, 1) = one
  <2>1. /\ SubSeq(two, 1, 1) \in Seq(Children) /\ Len(SubSeq(two, 1, 1)) = 1
        /\ SubSeq(two, 1, 1)[1] = "mock"
    BY <1>1, SubSeqProperties
  <2>2. \A i \in 1 .. 1 : SubSeq(two, 1, 1)[i] = one[i]
    BY <1>1, <2>1
  <2> QED
    BY <1>1, <2>1, <2>2, SeqEqual
<1> QED
  BY <1>1, <1>2, <1>3 DEF Front, Last

\* Which children are in each of them.
LEMMA InList ==
  ASSUME NEW c \in Children
  PROVE  /\ ~Listed(c, << >>)
         /\ Listed(c, <<"mock">>) <=> c = "mock"
         /\ Listed(c, <<"mock", "gateway">>)
BY DEF Children, Listed

\* Removing the last child of a list takes only that one out of it.
LEMMA FrontOfList ==
  ASSUME NEW list \in Lists, list # << >>
  PROVE  /\ Front(list) \in Lists
         /\ \A c \in Children : Listed(c, list) => c = Last(list) \/ Listed(c, Front(list))
         /\ Last(list) \in Children
         /\ Last(list) = "mock" => list = <<"mock">>
BY ListFacts, InList DEF Lists, Children

-----------------------------------------------------------------------------
(* The invariant is inductive                                              *)

\* The invariant holds at first.
LEMMA InitIInv == Init => IInv
BY DEF Init, IInv, Types, StartedInOrder, StopsWhatItStarted, AskedInOrder, PassedIsReady,
       ReadyWasStarted, MockOutlivesGateway, Lists, Starting, Stopping

\* A step of a child or of the user that main() does not notice: it ends, boots
\* or blocks a child that is alive, or revives nothing.
LEMMA ChildPreserves ==
  ASSUME IInv, NEW c \in Children, Boot(c) \/ FillPipe(c) \/ Unblock(c) \/ Crash(c) \/ ObeySignal(c)
  PROVE  IInv'
<1>1. PICK to \in {"up", "stuck", "exited"} :
        /\ child[c] \in {"starting", "up", "stuck"}
        /\ child' = [child EXCEPT ![c] = to]
  BY DEF Boot, FillPipe, Unblock, Crash, ObeySignal, Become
<1>2. UNCHANGED <<pc, processes, asked, ready, outcome, lost, ctrlc>>
  BY DEF Boot, FillPipe, Unblock, Crash, ObeySignal, Become, signals
<1>3. Types'
  BY <1>1, <1>2 DEF IInv, Types
<1>4. \A d \in Children : /\ child'[d] = "none" <=> child[d] = "none"
                          /\ Alive(d)' => Alive(d)
  BY <1>1 DEF IInv, Types, Alive
<1>5. StartedInOrder'
  BY <1>1, <1>2, <1>3, <1>4 DEF IInv, Types, StartedInOrder, Current, Children
<1>6. StopsWhatItStarted'
  BY <1>2, <1>4 DEF IInv, StopsWhatItStarted
<1>7. AskedInOrder'
  BY <1>2, <1>4 DEF IInv, AskedInOrder, MockOutlivesGateway, Children
<1>8. PassedIsReady'
  BY <1>2, <1>4 DEF IInv, PassedIsReady
<1>9. ReadyWasStarted'
  <2>1. ready \subseteq Children
    BY DEF IInv, Types, Children
  <2> QED
    BY <1>2, <1>4, <2>1 DEF IInv, ReadyWasStarted
<1> QED
  BY <1>3, <1>5, <1>6, <1>7, <1>8, <1>9 DEF IInv

\* Steps of main() before it stops anything.
LEMMA StartPreserves ==
  ASSUME IInv, CheckPorts \/ Start \/ Register
  PROVE  IInv'
<1> USE DEF IInv, Types, StartedInOrder, StopsWhatItStarted, AskedInOrder, PassedIsReady,
            ReadyWasStarted, MockOutlivesGateway, Starting, Stopping, Children, Alive, signals
<1>1. CASE CheckPorts
  BY <1>1 DEF CheckPorts, Current
<1>2. CASE Start
  BY <1>2 DEF Start, Current
<1>3. CASE Register
  BY <1>3, ListFacts DEF Register, Current, Lists
<1> QED
  BY <1>1, <1>2, <1>3

\* Waiting for a service and the smoke test keep it.
LEMMA WaitPreserves ==
  ASSUME IInv, WaitFindsExit \/ WaitSucceeds \/ WaitAgain \/ WaitTimesOut \/ Smoke
  PROVE  IInv'
<1> USE DEF IInv, Types, StartedInOrder, StopsWhatItStarted, AskedInOrder, PassedIsReady,
            ReadyWasStarted, MockOutlivesGateway, Starting, Stopping, Children, Alive, signals
<1>1. CASE WaitFindsExit \/ WaitTimesOut
  BY <1>1, InList DEF WaitFindsExit, WaitTimesOut, ToFinally, Current
<1>2. CASE WaitSucceeds
  BY <1>2 DEF WaitSucceeds, Answers, Current
<1>3. CASE WaitAgain
  BY <1>3 DEF WaitAgain, Current
<1>4. CASE Smoke
  <2>1. /\ processes = <<"mock", "gateway">> /\ ready = Children /\ pc' = "stop"
        /\ outcome' \in {"passed", "failed"}
        /\ UNCHANGED <<child, processes, asked, ready, lost, ctrlc>>
    BY <1>4 DEF Smoke, ToFinally
  <2>2. Types' /\ StartedInOrder' /\ AskedInOrder' /\ PassedIsReady' /\ ReadyWasStarted'
    BY <1>4, <2>1 DEF Smoke
  <2>3. StopsWhatItStarted'
    BY <2>1, InList
  <2> QED
    BY <2>2, <2>3
<1> QED
  BY <1>1, <1>2, <1>3, <1>4

\* Steps of stop_process and of the loop around it.
LEMMA StopPreserves ==
  ASSUME IInv, Stop \/ Stopped \/ TerminateTimesOut \/ KillTimesOut \/ Return
  PROVE  IInv'
<1> USE DEF IInv, Types, StartedInOrder, StopsWhatItStarted, AskedInOrder, PassedIsReady,
            ReadyWasStarted, MockOutlivesGateway, Starting, Stopping, Children, signals
<1>1. CASE Stop
  BY <1>1, FrontOfList, InList DEF Stop, Alive
<1>2. CASE Stopped
  <2>1. /\ processes # << >> /\ ~Alive(Last(processes))
        /\ processes' = Front(processes) /\ pc' = "stop" /\ pc \in Stopping
        /\ UNCHANGED <<child, asked, ready, outcome, lost, ctrlc>>
    BY <1>2 DEF Stopped
  <2> QED
    BY <2>1, FrontOfList DEF Alive
<1>3. CASE TerminateTimesOut
  BY <1>3 DEF TerminateTimesOut, Alive
<1>4. CASE KillTimesOut
  BY <1>4 DEF KillTimesOut, Alive
<1>5. CASE Return
  BY <1>5, InList DEF Return, Alive
<1> QED
  BY <1>1, <1>2, <1>3, <1>4, <1>5

\* An interrupt and the death of the script keep it.
LEMMA SignalPreserves ==
  ASSUME IInv, Interrupt \/ Kill
  PROVE  IInv'
<1> USE DEF IInv, Types, StartedInOrder, StopsWhatItStarted, AskedInOrder, PassedIsReady,
            ReadyWasStarted, MockOutlivesGateway, Starting, Stopping, Children, Alive, signals
<1>1. CASE Interrupt
  <2>1. /\ UNCHANGED <<child, processes, ready>> /\ outcome' = "failed"
        /\ pc' = IF pc \in Starting THEN "stop" ELSE "done"
        /\ lost' = (lost \/ pc \in {"append", "stop", "terminating", "killing"})
        /\ ctrlc' \/ UNCHANGED <<asked, ctrlc>>
    BY <1>1 DEF Interrupt
  <2>2. Types' /\ StartedInOrder' /\ PassedIsReady' /\ ReadyWasStarted'
    BY <2>1
  <2>3. StopsWhatItStarted'
    BY <2>1, InList DEF Current
  <2>4. AskedInOrder'
    BY <2>1
  <2> QED
    BY <2>2, <2>3, <2>4
<1>2. CASE Kill
  BY <1>2 DEF Kill
<1> QED
  BY <1>1, <1>2

\* Every step keeps the invariant.
LEMMA NextIInv == IInv /\ [Next]_vars => IInv'
<1> SUFFICES ASSUME IInv, [Next]_vars
             PROVE  IInv'
  OBVIOUS
<1>1. CASE Main
  BY <1>1, StartPreserves, WaitPreserves, StopPreserves DEF Main
<1>2. CASE Interrupt \/ Kill
  BY <1>2, SignalPreserves
<1>3. ASSUME NEW c \in Children,
             Boot(c) \/ FillPipe(c) \/ Unblock(c) \/ Crash(c) \/ ObeySignal(c)
      PROVE  IInv'
  BY <1>3, ChildPreserves
<1>4. CASE UNCHANGED vars
  BY <1>4
     DEF vars, signals, IInv, Types, StartedInOrder, StopsWhatItStarted, AskedInOrder,
         PassedIsReady, ReadyWasStarted, MockOutlivesGateway, Alive, Current
<1> QED
  BY <1>1, <1>2, <1>3, <1>4 DEF Next

\* The inductive invariant: what the script has started, asked to stop and
\* waited for, at every step of main() and of its clean-up.
THEOREM InductiveInvariant == Spec => []IInv
BY InitIInv, NextIInv, PTL DEF Spec

-----------------------------------------------------------------------------
(* What the script promises                                                *)

\* When the script has ended, and has not given up on a child, neither service
\* is left running, whatever crashed, blocked, timed out or was interrupted.
THEOREM NoServiceLeft == Spec => []NoOrphans
<1>1. IInv => NoOrphans
  BY DEF IInv, StopsWhatItStarted, NoOrphans
<1> QED
  BY <1>1, InductiveInvariant, PTL

\* The script never stops the mock while the gateway may still ask it.
THEOREM MockStopsLast == Spec => []MockOutlivesGateway
<1>1. IInv => MockOutlivesGateway
  BY DEF IInv, AskedInOrder
<1> QED
  BY <1>1, InductiveInvariant, PTL

\* Exit status 0 means that both services were ready and that both have ended.
THEOREM SuccessMeansAll == Spec => []SuccessIsComplete
<1>1. IInv => SuccessIsComplete
  <2> SUFFICES ASSUME IInv, pc = "done", outcome = "passed", NEW c \in Children
               PROVE  ready = Children /\ child[c] = "exited"
    BY DEF SuccessIsComplete, Children
  <2>1. ready = Children /\ ~lost /\ child[c] # "none"
    BY DEF IInv, PassedIsReady
  <2>2. ~Alive(c)
    BY <2>1 DEF IInv, StopsWhatItStarted
  <2> QED
    BY <2>1, <2>2 DEF IInv, Types, Alive
<1> QED
  BY <1>1, InductiveInvariant, PTL

=============================================================================

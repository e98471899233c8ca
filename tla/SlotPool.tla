------------------------------ MODULE SlotPool ------------------------------
(***************************************************************************)
(* What the concurrent-request limit of one API key promises, with no      *)
(* Redis in sight: a pool of Limit slots that may forget some of them.     *)
(* A client holds at most one slot.  The pool grants a slot only while     *)
(* fewer than Limit + slack are held; slack is 0 until the pool first      *)
(* forgets its holders, and is then the number of slots it forgot.         *)
(* ConcurrencyLease implements this specification.                         *)
(***************************************************************************)
EXTENDS Integers, FiniteSets

CONSTANTS Clients,    (* the requests that compete for slots             *)
          Limit       (* settings.rate_limit_concurrent_requests         *)

VARIABLES holders,    (* the clients that hold a slot                     *)
          slack       (* the slots the pool forgot when it last lost its count *)

poolVars == <<holders, slack>>

Init == holders = {} /\ slack = 0

Grant(c) ==
  /\ c \notin holders
  /\ Cardinality(holders) + 1 <= Limit + slack
  /\ holders' = holders \cup {c}
  /\ UNCHANGED slack

\* Several clients give back at once when the process that serves them dies.
GiveBack(S) ==
  /\ holders' = holders \ S
  /\ UNCHANGED slack

\* The count is lost: every slot now held, and possibly some that are only
\* being asked for or given back, is no longer counted.
Forget ==
  /\ slack' \in Cardinality(holders) .. Cardinality(Clients)
  /\ UNCHANGED holders

Next ==
  \/ \E c \in Clients : Grant(c)
  \/ \E S \in SUBSET Clients : GiveBack(S)
  \/ Forget

Spec == Init /\ [][Next]_poolVars

=============================================================================

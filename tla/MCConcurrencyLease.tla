------------------------- MODULE MCConcurrencyLease -------------------------
(***************************************************************************)
(* Instances of ConcurrencyLease for TLC.  Requests are interchangeable    *)
(* when they are all served by one process, and so are the two requests of *)
(* the second process.                                                     *)
(***************************************************************************)
EXTENDS ConcurrencyLease, TLC

CONSTANTS r1, r2, r3, g1, g2

OneHost  == [r \in Requests |-> g1]
TwoHosts == [r \in Requests |-> IF r = r1 THEN g1 ELSE g2]

R2AndR3    == Permutations({r2, r3})

=============================================================================

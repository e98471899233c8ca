--------------------------- MODULE MCWindowLimiter ---------------------------
(***************************************************************************)
(* Instances of WindowLimiter for TLC.                                     *)
(***************************************************************************)
EXTENDS WindowLimiter, TLC

CONSTANTS r1, r2, r3, r4

MixedCosts == [r \in Requests |->
                 CASE r = r1 -> 1 [] r = r2 -> 2 [] r = r3 -> 2 [] OTHER -> 4]

R2AndR3  == Permutations({r2, r3})

=============================================================================

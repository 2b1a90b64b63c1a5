----------------------------- MODULE MCDelivery -----------------------------
(* Small instances of Delivery for TLC. *)
EXTENDS Delivery, TLC

CONSTANTS c1, c2, g1

TwoParts == g1 :> 2
OnePart == g1 :> 1
Tasks == Permutations({c1, c2})
=============================================================================

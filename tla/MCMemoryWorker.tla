--------------------------- MODULE MCMemoryWorker ---------------------------
(* Small instances of MemoryWorker for TLC. *)
EXTENDS MemoryWorker, TLC

CONSTANTS w1, w2

Light == [i \in 1..MaxEvents |-> 1]
ThirdHeavy == [i \in 1..MaxEvents |-> IF i = 3 THEN 3 ELSE 1]
OneUnit == <<1>>
Workers == Permutations({w1, w2})
=============================================================================

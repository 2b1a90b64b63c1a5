---------------------------- MODULE MCInitiative ----------------------------
(* Small instances of Initiative for TLC. *)
EXTENDS Initiative, TLC

CONSTANTS r1, r2

(* One written part; two and a record after them; a record alone. *)
Openings ==
    {[parts |-> 1, voice |-> "none"], [parts |-> 2, voice |-> "tail"],
     [parts |-> 1, voice |-> "only"]}

Runtimes == Permutations({r1, r2})
=============================================================================

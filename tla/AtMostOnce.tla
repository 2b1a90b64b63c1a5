----------------------------- MODULE AtMostOnce -----------------------------
(***************************************************************************)
(* What the outbox and the sender together promise about one external      *)
(* action (a text part, a QQ voice record, a poke, a notice): however      *)
(* often it is asked for, by however many tasks and over however many      *)
(* crashes, the platform carries it out at most once; a verdict is never   *)
(* revised; "sent" is only said of an action the platform carried out and  *)
(* "failed" only of one it will never carry out.  "unknown" promises       *)
(* nothing: the action may have happened, or may still happen late.        *)
(***************************************************************************)
EXTENDS Naturals

CONSTANT Op            \* the external actions, each with its own operation key

VARIABLES verdict,     \* what the ledger says of each action
          effects      \* how often the platform carried it out

vars == <<verdict, effects>>

Verdict == {"none", "undecided", "sent", "unknown", "failed"}

Init ==
    /\ verdict = [op \in Op |-> "none"]
    /\ effects = [op \in Op |-> 0]

(* The action is handed to the network: only ever once. *)
Start(op) ==
    /\ verdict[op] = "none"
    /\ verdict' = [verdict EXCEPT ![op] = "undecided"]
    /\ UNCHANGED effects

(* The platform carries it out, possibly after the caller gave up on it. *)
Happen(op) ==
    /\ verdict[op] \in {"undecided", "unknown"}
    /\ effects[op] = 0
    /\ effects' = [effects EXCEPT ![op] = 1]
    /\ UNCHANGED verdict

(* The ledger records the outcome. *)
Report(op, v) ==
    /\ verdict[op] = "undecided"
    /\ v \in {"sent", "unknown", "failed"}
    /\ v = "sent" => effects[op] = 1
    /\ v = "failed" => effects[op] = 0
    /\ verdict' = [verdict EXCEPT ![op] = v]
    /\ UNCHANGED effects

Next == \E op \in Op :
            \/ Start(op)
            \/ Happen(op)
            \/ \E v \in {"sent", "unknown", "failed"} : Report(op, v)

Spec == Init /\ [][Next]_vars
=============================================================================

------------------------------ MODULE MCRecall ------------------------------
(* Small instances of Recall for TLC: three days of four hours, of which   *)
(* the first is night; the model starts in the last hour of the second.    *)
EXTENDS Recall

D(o, t, e) == [ordinary |-> o, topic |-> t, explicit |-> e]
MCHolds == [f \in {2, 5, 6, 8} |->
    CASE f = 2 -> D(0, 0, 2) [] f = 5 -> D(1, 1, 0) [] f = 6 -> D(1, 0, 1) [] f = 8 -> D(2, 0, 1)]

Private == [type |-> "episode", private |-> TRUE, policy |-> "topic_only", from |-> 5]
Sealed == [type |-> "preference", private |-> TRUE, policy |-> "explicit_request_only", from |-> 6]
Dead == [type |-> "preference", private |-> FALSE, policy |-> "explicit_request_only", from |-> 2]
MCRecord == {Private, Sealed, Dead}

Hits(R) == [r \in MCRecord |-> IF r \in R THEN 2 ELSE 0]
Said(ago, on, when, quotes, copies, alike, R, image) ==
    [ago |-> ago, on |-> on, when |-> when, quotes |-> quotes, copies |-> copies,
     alike |-> alike, hits |-> Hits(R), image |-> image]
Band(a, b) == [clock |-> FALSE, from |-> a, to |-> b]
Clock(a) == [clock |-> TRUE, from |-> a, to |-> a]
MCMessages == {
    Said({}, {}, << >>, {}, {}, {}, {}, TRUE),                        \* a picture
    Said({0, 1}, {}, <<Band(0, 1)>>, {}, {}, {8}, {}, FALSE),         \* yesterday, or tonight
    Said({}, {0}, << >>, {}, {}, {}, {}, FALSE),                      \* the first day
    Said({}, {}, <<Clock(1), Band(1, 2)>>, {}, {}, {}, {}, FALSE),    \* in the morning, at one
    Said({}, {}, << >>, {6}, {}, {}, {Sealed}, FALSE),                \* a quote
    Said({}, {}, << >>, {}, {5}, {}, {}, FALSE),                      \* words of the fifth hour
    Said({}, {}, << >>, {}, {5}, {}, {Private}, FALSE),               \* and of its memory
    Said({}, {}, << >>, {}, {}, {2, 5}, {Sealed, Private}, FALSE)}    \* something alike
=============================================================================

------------------------------- MODULE MCReply -------------------------------
(* Small instances of Reply for TLC: a session of five events, of which    *)
(* the second is internal and a pause follows the first and the fourth.    *)
EXTENDS Reply

MCSize == <<1, 1, 7, 1, 2>>
MCAt == <<0, 3, 3, 4, 7>>
MCRequests == [
    need : {2, 4, 8, 11, 34},
    working : {<< >>, <<2, 1>>, <<3, 1, 1>>, <<1, 1, 1, 1>>, <<5>>},
    images : {1},
    memories : {<< >>, <<1, 2, 1>>, <<3>>},
    confirm : {<< >>, <<1>>},
    recent : {first..5 : first \in 1..6},
    quoted : {{}, {4}},
    at : {7, 9}]

Plain(parts) == [flaw |-> "none", skip |-> FALSE, glued |-> FALSE, marks |-> {}, parts |-> parts]
M(kind, value) == [kind |-> kind, value |-> value]
Marked(S) == [Plain(1) EXCEPT !.marks = S]
MCTexts == {
    Plain(1), Plain(0), Plain(7),
    [Plain(1) EXCEPT !.flaw = "leak"],
    [Plain(0) EXCEPT !.skip = TRUE],
    [Plain(1) EXCEPT !.glued = TRUE],
    [Plain(0) EXCEPT !.marks = {M("scene", "on")}],
    Marked({M("scene", "bad"), M("scene", "off"), M("voice", "good"), M("reply", "bad")}),
    Marked({M("scene", "on"), M("scene", "off")}),
    Marked({M("face", "good"), M("react", "good")}),
    Marked({M("voice", "bad")})}

(* The windows of the runs are as far apart as WiderLosesNothing needs. *)
ASSUME WindowsFarApart == FarApart
=============================================================================

----------------------------- MODULE MCMemories -----------------------------
(* Small instances of Memories for TLC. *)
EXTENDS Memories, TLC

CONSTANTS p1, p2, c1, c2

Types == p1 :> "preference" @@ p2 :> "preference" @@ c1 :> "correction" @@ c2 :> "correction"
Targets == p1 :> NoId @@ p2 :> NoId @@ c1 :> p1 @@ c2 :> p1
Always == [i \in Id |-> Forever]
G(c, n, s, r) == [certainty |-> c, importance |-> n, scope |-> s, reason |-> r]
Grades == {G("ambiguous", 2, "ongoing", "ambiguous_scope"),
           G("confirmed", 3, "ongoing", "later_user_confirmation"),
           G("unsupported", 0, "unclassified", "contradicted_by_user")}
Plain == [privacy |-> "ordinary", policy |-> "daily_safe"]
Words == {{p1, p2}}
Classes == {Plain, [privacy |-> "intimate", policy |-> "topic_only"]}
Corrections == Permutations({c1, c2})
=============================================================================

------------------------------- MODULE Context -------------------------------
(***************************************************************************)
(* What of a conversation fits into one question to the model:             *)
(* dialogue/context_builder.py, ContextBuilder.build.  Everything that can *)
(* be in a context is known by its cost in tokens; a request says which of *)
(* it there is.  Its parts have passed the gates of Recall.                *)
(*                                                                         *)
(* The application passes no earlier_events, so the history is that of the *)
(* session alone.                                                          *)
(***************************************************************************)
EXTENDS Integers, Sequences, FiniteSets, FiniteSetsExt, SequencesExt

CONSTANTS
    Preferred,      \* preferred_window_tokens
    Maximum,        \* max_window_tokens
    Verified,       \* the widest window the capability is verified for
    Reserve,        \* output_reserve_tokens
    HistoryBudget,  \* recent_history_budget_tokens
    WorkingMax,     \* working_set_max_tokens
    MaxMemories,    \* most memories of one context
    ImageCost,      \* _IMAGE_TOKEN_ESTIMATE
    Event,          \* sequence numbers of the conversation
    Size,           \* cost of each event
    At,             \* when it happened
    Internal,       \* events that are not words
    LongGap,        \* _LONG_GAP
    GapCost,        \* cost of a line about a gap
    Header,         \* cost of the first line of the history
    Join            \* cost of what separates two events

(* need: what must be there (role, facts, relations, quotes, details,      *)
(* index, footprint, the words of the message); working, memories and      *)
(* confirm: the cost of each record, the most important first.             *)
Request == [need : Nat, images : Nat, working : Seq(Nat), memories : Seq(Nat),
            confirm : Seq(Nat), recent : SUBSET Event, quoted : SUBSET Event, at : Nat]

ASSUME ContextAssumption ==
    /\ {Preferred, Maximum, Verified, Reserve, HistoryBudget, WorkingMax, MaxMemories,
        ImageCost, LongGap, GapCost, Header, Join} \subseteq Nat
    /\ Preferred <= Maximum /\ Reserve < Preferred /\ Preferred <= Verified
    /\ Event \subseteq Nat /\ IsFiniteSet(Event) /\ Internal \subseteq Event
    /\ Size \in [Event -> Nat] /\ At \in [Event -> Nat]

(* What an assembly holds; "budget" is ContextBudgetError. *)
NoContext == [fits |-> FALSE, kept |-> {}, working |-> 0, memories |-> 0, tokens |-> 0,
              omitted |-> FALSE, expanded |-> FALSE]

CanExpand == Maximum > Preferred /\ Maximum <= Verified
Budget(window) == window - Reserve

(* The cost of the first n records. *)
First(s, n) == MapThenSumSet(LAMBDA i : s[i], 1..n)
Total(s) == First(s, Len(s))

(* _fit_working_records: the longest prefix within its own budget, found   *)
(* by halving; low - 1 records are known to fit.                           *)
StopsEarly(s) ==
    LET Halve[range \in (1..(Len(s) + 1)) \X (0..Len(s))] ==
            LET low == range[1]
                high == range[2]
                middle == (low + high) \div 2
            IN IF low >= high THEN low - 1
               ELSE IF First(s, middle) <= WorkingMax THEN Halve[<<middle + 1, high>>]
               ELSE Halve[<<low, middle - 1>>]
    IN Halve[<<1, Len(s)>>]
WorkingFit(s) ==
    LET Halve[range \in (1..(Len(s) + 1)) \X (0..Len(s))] ==
            LET low == range[1]
                high == range[2]
                middle == (low + high) \div 2
            IN IF low > high THEN low - 1
               ELSE IF First(s, middle) <= WorkingMax THEN Halve[<<middle + 1, high>>]
               ELSE Halve[<<low, middle - 1>>]
    IN IF Total(s) <= WorkingMax THEN Len(s) ELSE Halve[<<1, Len(s)>>]

(* _prepare: what must be there, and the memories there may be, the one    *)
(* that asks to be confirmed last.                                         *)
Need(r) == r.need + ImageCost * r.images
Memories(r) ==
    SubSeq(r.memories, 1, Min({MaxMemories, Len(r.memories)}))
        \o SubSeq(r.confirm, 1, Min({1, Len(r.confirm)}))

(* _history_events: words other than the message and what it quotes. *)
History(r) == r.recent \ (r.quoted \cup Internal)

(* _gap_piece: between an event of S and the next one, or the message. *)
Gap(S, e, r) ==
    LET later == {x \in S : x > e}
        then == IF later = {} THEN r.at ELSE At[Min(later)]
    IN IF then - At[e] < LongGap THEN 0 ELSE GapCost

(* _history_insert_cost of an event older than those of S, and what the    *)
(* transcript of S costs as it is sent (_history_bundle).                  *)
Cost(S, e, r) == Size[e] + Gap(S, e, r)
Bundle(S, r) ==
    IF S = {} THEN 0
    ELSE Header + Join * (Cardinality(S) - 1)
           + MapThenSumSet(LAMBDA e : Cost(S, e, r), S)

(* _assemble, newest event first: the first that does not fit ends it. *)
SkipsTheLarge(r, room) ==
    LET S == History(r)
        Pack[n \in 0..Cardinality(S)] ==
            IF n = 0 THEN [left |-> S, kept |-> {}, tokens |-> 0, blocked |-> FALSE]
            ELSE LET p == Pack[n - 1]
                     e == Max(p.left)
                     t == p.tokens + Cost(p.kept, e, r)
                     q == [p EXCEPT !.left = @ \ {e}]
                 IN IF t > room \/ t > HistoryBudget THEN [q EXCEPT !.blocked = TRUE]
                    ELSE [q EXCEPT !.kept = @ \cup {e}, !.tokens = t]
    IN Pack[Cardinality(S)]
Packed(r, room) ==
    LET S == History(r)
        Pack[n \in 0..Cardinality(S)] ==
            IF n = 0 THEN [left |-> S, kept |-> {}, tokens |-> 0, blocked |-> FALSE]
            ELSE LET p == Pack[n - 1]
                     e == Max(p.left)
                     t == p.tokens + Cost(p.kept, e, r)
                     q == [p EXCEPT !.left = @ \ {e}]
                 IN IF p.blocked \/ t > room \/ t > HistoryBudget THEN [q EXCEPT !.blocked = TRUE]
                    ELSE [q EXCEPT !.kept = @ \cup {e}, !.tokens = t]
    IN Pack[Cardinality(S)]

(* The transcript is counted again as it is sent, and loses its oldest     *)
(* event until it fits in the room the memories left.                      *)
Newest(S, n) == {e \in S : Cardinality({x \in S : x > e}) < n}
CountedOnce(S, r, room) == S
Trimmed(S, r, room) ==
    LET fits == {n \in 0..Cardinality(S) :
                    LET t == Bundle(Newest(S, n), r) IN t <= HistoryBudget /\ t <= room}
    IN Newest(S, Max(fits \cup {0}))

(* The records that fit before the first that does not. *)
Prefix(s, room) == Max({n \in 0..Len(s) : First(s, n) <= room})

(* What the pieces that must be there leave of the window. *)
Room(r, window) == Budget(window) - Need(r)

(* _assemble: what must be there, all of the working set or none of it,    *)
(* history, memories.                                                      *)
Assembled(r, window) ==
    LET wanted == WorkingFit(r.working)
        block == First(r.working, wanted)
        room == Room(r, window)
        working == IF block <= room THEN wanted ELSE 0
        left == room - First(r.working, working)
        packed == Packed(r, left)
        memories == Prefix(Memories(r), left - packed.tokens)
        base == First(r.working, working) + First(Memories(r), memories)
        kept == Trimmed(packed.kept, r, room - base)
    IN IF room < 0 THEN NoContext
       ELSE [fits |-> TRUE, kept |-> kept, working |-> working, memories |-> memories,
             tokens |-> Need(r) + base + Bundle(kept, r),
             omitted |-> \/ working < wanted
                         \/ packed.blocked
                         \/ memories < Len(Memories(r))
                         \/ kept # packed.kept,
             expanded |-> window > Preferred]

(* build: the wide window when the preferred one holds less. *)
Selected(c) == <<c.kept, c.working, c.memories, c.tokens>>
Context(r) ==
    LET narrow == Assembled(r, Preferred)
        wide == Assembled(r, Maximum)
    IN IF /\ CanExpand
          /\ narrow.fits => narrow.omitted /\ Selected(narrow) # Selected(wide)
         THEN wide
       ELSE narrow
=============================================================================

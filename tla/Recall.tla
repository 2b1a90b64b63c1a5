------------------------------- MODULE Recall -------------------------------
(***************************************************************************)
(* What of the past a turn unfolds: app.py _build_input and what it asks   *)
(* (the pointer of the message, memory/dates.py, the lookups of            *)
(* storage/memory_detail_repository.py, memory/retriever.py), the gate of  *)
(* dialogue/context_builder.py, the index of memory/index_digest.py and    *)
(* the picture that stays for a few turns.                                 *)
(*                                                                         *)
(* Time is counted in hours of H a day.  A fragment is known by the hour   *)
(* it began; it stands for the event that opened it as well, so a quote    *)
(* and the evidence of a record name a fragment.  A detail is known by its *)
(* fragment and by how closed it is: "ordinary", "topic" (private,         *)
(* topic_only) or "explicit" (adult, explicit_request_only).  What the     *)
(* words of a message name, repeat and resemble is given with the message. *)
(* A turn ends within its hour.                                            *)
(***************************************************************************)
EXTENDS Integers, Sequences, FiniteSets, FiniteSetsExt

CONSTANTS
    H,            \* hours of a day
    NewDay,       \* _NEW_DAY_HOURS
    Start,        \* hour the model starts in
    LastTime,     \* bound on time
    Month,        \* days of a month, for a day of the month to come
    Fragment,     \* hours a fragment begins in
    Stored0,      \* fragments stored at the start
    Holds,        \* details of each fragment, by class
    Record,       \* memory records
    Messages,     \* what the owner may say
    Lookback,     \* _DAY_LOOKBACK
    DayLimit,     \* _DAY_FRAGMENT_LIMIT
    Limit,        \* default limit of the lookups
    Budget,       \* _DETAIL_TOKEN_BUDGET, in details
    MaxAge,       \* working_set_episode_max_age_days
    IndexDays,    \* DEFAULT_DAYS of the index
    MaxLines,     \* DEFAULT_MAX_LINES
    MaxSensitive, \* DEFAULT_MAX_SENSITIVE_LINES
    CarryTurns,   \* image_carry_turns
    SessionGap    \* _SESSION_GAP

Class == {"ordinary", "topic", "explicit"}
Word == [clock : BOOLEAN, from : 0..(H - 1), to : 0..H]
Records == [type : {"preference", "episode"}, private : BOOLEAN,
            policy : {"daily_safe", "topic_only", "explicit_request_only"}, from : Fragment]
Message == [ago : SUBSET Nat, on : SUBSET Nat, when : Seq(Word),
            quotes : SUBSET Fragment, copies : SUBSET Fragment, alike : SUBSET Fragment,
            hits : [Record -> 0..2], image : BOOLEAN]

ASSUME RecallAssumption ==
    /\ {H, NewDay, Start, LastTime, Month, Lookback, DayLimit, Limit, Budget, MaxAge,
        IndexDays, MaxLines, MaxSensitive, CarryTurns, SessionGap} \subseteq Nat
    /\ {H, DayLimit, Limit, Lookback, CarryTurns} \cap {0} = {}
    /\ Fragment \subseteq 0..LastTime /\ Stored0 \subseteq Fragment
    /\ Holds \in [Fragment -> [Class -> Nat]]
    /\ Record \subseteq Records
    /\ Messages \subseteq Message

VARIABLES
    now,
    stored,       \* memory_fragments
    active,       \* records that are active
    said,         \* the days the last messages of the session name, newest last
    last,         \* the hour of the newest
    topic,        \* how many came since the last opening: presence_topic_cursor
    opened,       \* _last_detail_fragments
    carry,        \* _carried_images: turns the picture still has
    attached,     \* turns the picture has been attached in
    turn          \* the turn under way: what its context holds

vars == <<now, stored, active, said, last, topic, opened, carry, attached, turn>>

Day(t) == t \div H
Hour(t) == t % H
Silence == [ago |-> {}, on |-> {}, when |-> << >>, quotes |-> {}, copies |-> {},
            alike |-> {}, hits |-> [r \in Record |-> 0], image |-> FALSE]
Idle == [phase |-> "idle", source |-> "none", m |-> Silence, key |-> "none",
         shown |-> {}, lines |-> {}, used |-> {}, picture |-> "none"]

Init ==
    /\ now = Start
    /\ stored = Stored0
    /\ active = {}
    /\ said = << >>
    /\ last = Start
    /\ topic = 0
    /\ opened = {}
    /\ carry = 0
    /\ attached = 0
    /\ turn = Idle

(* The elements of S, ordered by the pairs of R. *)
Sorted(S, R) ==
    [i \in 1..Cardinality(S) |->
        CHOOSE x \in S : Cardinality({y \in S : <<y, x>> \in R}) = i - 1]
Top(s, n) == SubSeq(s, 1, IF Len(s) < n THEN Len(s) ELSE n)
Elements(s) == {s[i] : i \in DOMAIN s}
NewestFirst == {r \in Fragment \X Fragment : r[1] > r[2]}
OldestFirst == {r \in Fragment \X Fragment : r[1] < r[2]}

-----------------------------------------------------------------------------
(* memory/dates.py: the days and the hours a message names.                *)

(* _past_date: a day of the month, the latest that is not to come. *)
OnDay(d) == IF d <= Day(now) THEN d ELSE d - Month

(* referenced_dates, with the clock of the turn that asks. *)
Named(m) == {Day(now) - k : k \in m.ago} \cup {OnDay(d) : d \in m.on}
Past(days) == {d \in days : d < Day(now)}

Anchors(m) == {w.from : w \in {x \in Elements(m.when) : x.clock}}
Bands(m) == {w \in Elements(m.when) : ~w.clock}

(* referenced_past_segment: at night the first word decides; by day any    *)
(* part of the day that is over means today.                               *)
Over(w) == w.to < Hour(now)
Implied(m) ==
    IF m.when = << >> THEN {}
    ELSE IF Hour(now) < NewDay
           THEN {IF Over(m.when[1]) THEN Day(now) ELSE Day(now) - 1}
           ELSE {Day(now) : w \in {x \in Elements(m.when) : Over(x)}}

(* The days of this message: past ones, and today with a part of the day.  *)
TodaySaid(m) == Day(now) \in Named(m) /\ Bands(m) # {}
Hinted(m) == IF Past(Named(m)) = {} /\ ~TodaySaid(m) THEN Implied(m) ELSE {}
PastDays(m) == Past(Named(m) \cup Hinted(m))
TodayToo(m) == TodaySaid(m) \/ Day(now) \in Hinted(m)
Wanted(m) == PastDays(m) \cup IF TodayToo(m) THEN {Day(now)} ELSE {}

-----------------------------------------------------------------------------
(* memory_detail_repository.py: where a message leads.                     *)

(* fragments_on_dates: nearest to the hour named, then in the part of the  *)
(* day named, then newest.                                                 *)
Apart(a, b) == LET d == IF a > b THEN a - b ELSE b - a IN IF d < H - d THEN d ELSE H - d
Distance(f, m) ==
    IF Anchors(m) = {} THEN 0 ELSE Min({Apart(Hour(f), a) : a \in Anchors(m)})
OffBand(f, m) ==
    IF \E w \in Bands(m) : w.from <= Hour(f) /\ Hour(f) < w.to THEN 0 ELSE 1
Nearness(f, m) == 2 * Distance(f, m) + OffBand(f, m)
OnDates(days, m, limit) ==
    LET F == {f \in stored : Day(f) \in days}
        near == [f \in F |-> Nearness(f, m)]
    IN Top(Sorted(F, {r \in F \X F : \/ near[r[1]] < near[r[2]]
                                     \/ near[r[1]] = near[r[2]] /\ r[1] > r[2]}), limit)

(* fragments_ranked_by_text: what the words repeat, then what they         *)
(* resemble, each oldest first; the others stay in their order.            *)
Match(f, m) == IF f \in m.copies THEN 2 ELSE IF f \in m.alike THEN 1 ELSE 0
Reordered(s, m) ==
    LET F == Elements(s)
        Place(f) == CHOOSE i \in DOMAIN s : s[i] = f
    IN Sorted(F, {r \in F \X F :
            \/ Match(r[1], m) > Match(r[2], m)
            \/ /\ Match(r[1], m) = Match(r[2], m)
               /\ IF Match(r[1], m) = 0 THEN Place(r[1]) < Place(r[2]) ELSE r[1] < r[2]})

(* fragments_for_events, fragments_quoting, fragments_matching. *)
Quoted(m) == Sorted(m.quotes \cap stored, OldestFirst)
Copied(m) == Top(Sorted(m.copies \cap stored, NewestFirst), Limit)
Matching(m) == Top(Sorted(m.alike \cap stored, NewestFirst), Limit)

-----------------------------------------------------------------------------
(* _episode_pointer: the key of the turn, and the fragments it leads to.   *)

Pointer(key, fragments) == [key |-> key, fragments |-> fragments, ordinary |-> {}]
Nowhere == Pointer("none", << >>)

(* A message that names a day: today's fragments open ordinary details     *)
(* only, the newest DayLimit of them.                                      *)
OrdinaryNever(m, s) == {}
OrdinaryOnly(m, s) ==
    IF TodayToo(m) THEN Elements(s) \cap Elements(OnDates({Day(now)}, Silence, DayLimit)) ELSE {}
ByDate(m) ==
    LET s == OnDates(Wanted(m), m, DayLimit) IN
    IF s = << >> THEN Pointer("date_missing", << >>)
    ELSE [key |-> IF PastDays(m) # {} THEN "date_now" ELSE "today",
          fragments |-> Reordered(s, m), ordinary |-> OrdinaryOnly(m, s)]

(* The newest of the last messages that names a day decides. *)
NamesADay(heard) == {i \in DOMAIN heard : Named(heard[i]) # {}}
Inherited(heard) ==
    LET past == Past(Named(heard[Max(NamesADay(heard))]))
        s == OnDates(past, Silence, Limit)
    IN IF past = {} THEN Nowhere
       ELSE IF s = << >> THEN Pointer("date_missing", << >>)
       ELSE Pointer("date_inherited", s)

(* The words resemble fragments other than those of the turn before. *)
Others(m) == IF opened = {} THEN {} ELSE Elements(Matching(m)) \ opened
Corrected(m) ==
    IF Cardinality(Others(m)) = 1 THEN Pointer("correction", Sorted(Others(m), NewestFirst))
    ELSE Pointer("ambiguous", << >>)

Pointed(m, heard) ==
    LET inherits == NamesADay(heard) # {} IN
    CASE Wanted(m) # {} -> ByDate(m)
      [] Wanted(m) = {} /\ Quoted(m) # << >> -> Pointer("quote", Quoted(m))
      [] Wanted(m) = {} /\ Quoted(m) = << >> /\ Copied(m) # << >> ->
           Pointer("verbatim", Copied(m))
      [] OTHER ->
           IF Others(m) # {} /\ inherits
              /\ Inherited(heard).fragments # << >>
              /\ Elements(Inherited(heard).fragments) = opened
             THEN Corrected(m)
           ELSE IF inherits THEN Inherited(heard)
           ELSE IF Others(m) # {} THEN Corrected(m)
           ELSE Nowhere

SensitiveKeys == {"date_now", "date_inherited", "quote"}
Sensitive(p) == p.key \in SensitiveKeys

-----------------------------------------------------------------------------
(* _build_input: the details of the turn.                                  *)

(* _detail_targets: more than one repeated fragment is a question. *)
Targets(p) == IF p.key = "verbatim" /\ Len(p.fragments) > 1 THEN << >> ELSE p.fragments

(* sensitive_detail_allowed, per detail. *)
Allowed(p, f, c) ==
    /\ Holds[f][c] > 0
    /\ c = "explicit" => Sensitive(p) /\ f \notin p.ordinary

(* _budget_details: the first fragment whole, then as many as fit. *)
Opens(p, f) == {c \in Class : Allowed(p, f, c)}
Cost(p, F) == FoldSet(LAMBDA d, n : n + Holds[d[1]][d[2]], 0,
    UNION {{<<f, c>> : c \in Opens(p, f)} : f \in F})
Claimed(p) ==
    LET t == Targets(p)
        present == {i \in DOMAIN t : Opens(p, t[i]) # {}}
        Fits(i) == \/ \A n \in present : i <= n
                   \/ Cost(p, {t[n] : n \in present \cap 1..i}) <= Budget
        kept == {i \in present : \A n \in present \cap 1..i : Fits(n)}
    IN UNION {{<<t[i], c>> : c \in Opens(p, t[i])} : i \in kept}
Of(details) == {d[1] : d \in details}

-----------------------------------------------------------------------------
(* The memory records of the turn.                                         *)

Guarded(r) == r.private \/ r.policy # "daily_safe"

(* MemoryRetriever: two words in common (or all of them), one for an       *)
(* episode; words that only tell a time or that many episodes share do not *)
(* count.                                                                  *)
Points(m, r) == m.hits[r] >= (IF r.type = "episode" THEN 1 ELSE 2)
Found(m) == {r \in active : Points(m, r)}

(* _sensitive_admitted. *)
Admitted(m, p, r) ==
    r.policy = "explicit_request_only" => Sensitive(p) \/ r.from \in m.quotes
Admits(m, p) == \E r \in Found(m) : Guarded(r) /\ Admitted(m, p, r)

(* working_set_resident. *)
Resident(r) == r.type # "episode" \/ Day(now) - Day(r.from) <= MaxAge

(* The working set, and the memories that were found. *)
InContextOnceAdmitted(m, p) ==
    {r \in active : (r.private => Admits(m, p)) /\ Resident(r)}
    \cup {r \in Found(m) : Guarded(r) => Admitted(m, p, r)}
InContext(m, p) ==
    {r \in active : (r.private => r \in Found(m) /\ Admitted(m, p, r)) /\ Resident(r)}
    \cup {r \in Found(m) : Guarded(r) => Admitted(m, p, r)}

(* The evidence the context may quote: that of the records found, without  *)
(* what a record that was not admitted rests on; that of the other active  *)
(* records; that of the details.                                           *)
Blocked(m, p) == {r.from : r \in {x \in Found(m) : Guarded(x) /\ ~Admitted(m, p, x)}}
Pool(m, p) ==
    ({r.from : r \in Found(m)} \ Blocked(m, p))
    \cup {r.from : r \in {x \in active : Guarded(x) => Admitted(m, p, x)}}
    \cup Of(Claimed(p))

(* ContextBuilder: the gate on details, and a record without its evidence  *)
(* fails the assembly.                                                     *)
Shown(m, p) ==
    {d \in Claimed(p) : d[2] = "ordinary" \/ Sensitive(p) \/ Admits(m, p)}
Assembles(m, p) == \A r \in InContext(m, p) : r.from \in Pool(m, p)

-----------------------------------------------------------------------------
(* index_digest.py: a line for each fragment unfolded or on a day that was *)
(* named, then the newest within the window, ordinary and sensitive apart. *)

Linked(f) == {r \in active : r.from = f}
Total(f) == Holds[f]["ordinary"] + Holds[f]["topic"] + Holds[f]["explicit"]
    + Cardinality(Linked(f))
Closed(f) == Holds[f]["topic"] + Holds[f]["explicit"]
    + Cardinality({r \in Linked(f) : r.private})
Level(f) == IF 2 * Closed(f) > Total(f) THEN "sensitive" ELSE "ordinary"

(* _named_days, _named_day_fragments. *)
NamedDays(m, heard) ==
    IF Past(Named(m)) # {} THEN Past(Named(m))
    ELSE IF NamesADay(heard) = {} THEN {}
    ELSE Past(Named(heard[Max(NamesADay(heard))]))
PinnedByDay(m, p, heard) == Elements(OnDates(NamedDays(m, heard), Silence, Limit))
Pinned(m, p, heard) ==
    Of(Claimed(p)) \cup Elements(OnDates(NamedDays(m, heard), Silence, Limit))

Newest(n, S) == {f \in S : Cardinality({g \in S : g > f}) < n}
Index(pinned) ==
    LET rows == {f \in stored : Total(f) > 0}
        free == {f \in rows \ pinned : now - f <= IndexDays * H}
    IN (pinned \cap rows)
       \cup Newest(MaxLines, {f \in free : Level(f) = "ordinary"})
       \cup Newest(MaxSensitive, {f \in free : Level(f) = "sensitive"})

-----------------------------------------------------------------------------
(* Pictures: _advance_image_carry.  A new one is attached and stays for    *)
(* CarryTurns more turns; a second build of its own turn attaches nothing. *)

SpentNever(left) == left
Spent(left) == left - 1
Picture(m, skip) ==
    CASE m.image /\ ~skip -> "new"
      [] ~m.image /\ carry > 0 -> "carried"
      [] OTHER -> "none"
Carry(picture) ==
    /\ carry' = CASE picture = "new" -> CarryTurns
                 [] picture = "carried" -> Spent(carry)
                 [] OTHER -> carry
    /\ attached' = CASE picture = "new" -> 1
                    [] picture = "carried" -> attached + 1
                    [] OTHER -> attached

-----------------------------------------------------------------------------
(* The turn. *)

(* _events_before, and for an opening what was said since the last one:    *)
(* after a long pause only the last message remains.                       *)
Last(s, n) == SubSeq(s, Len(s) - (IF n < Len(s) THEN n ELSE Len(s)) + 1, Len(s))
Heard(source) ==
    IF source = "dialogue"
      THEN IF now - last > SessionGap THEN << >> ELSE said
      ELSE Last(said, IF now - last > SessionGap /\ topic > 0 THEN 1 ELSE topic)

Built(m, source, skip, phase) ==
    LET heard == Heard(source)
        p == Pointed(m, heard)
        ok == Assembles(m, p)
    IN  /\ turn' = [phase |-> IF ok THEN phase ELSE "failed", source |-> source, m |-> m,
                    key |-> p.key, picture |-> Picture(m, skip),
                    shown |-> IF ok THEN Shown(m, p) ELSE {},
                    lines |-> IF ok THEN Index(Pinned(m, p, heard)) ELSE {},
                    used |-> IF ok THEN InContext(m, p) ELSE {}]
        /\ opened' = IF ok THEN Of(Claimed(p)) ELSE opened
        /\ Carry(Picture(m, skip))

(* on_message: the turn is built. *)
Hear(m) ==
    /\ turn = Idle
    /\ Built(m, "dialogue", FALSE, "asked")
    /\ UNCHANGED <<now, stored, active, said, last, topic>>

(* generate_initiative: built like a turn in which nothing is said. *)
Open ==
    /\ turn = Idle
    /\ said # << >>
    /\ Built(Silence, "initiative", FALSE, "asked")
    /\ UNCHANGED <<now, stored, active, said, last, topic>>

(* _generate_turn: the endpoint refuses the picture; a turn is built once  *)
(* more without the one that came with it, an opening fails.               *)
Refuse ==
    /\ turn.phase = "asked" /\ turn.picture # "none"
    /\ turn.source = "dialogue"
    /\ Built(turn.m, "dialogue", TRUE, "rebuilt")
    /\ UNCHANGED <<now, stored, active, said, last, topic>>

(* What later turns ask of a message: the days it names. *)
Mention(m) == [ago |-> m.ago, on |-> m.on]

(* The turn ends, said or failed: what the owner said remains; an opening  *)
(* that was sent uses up what it was about.                                *)
End ==
    /\ turn # Idle
    /\ turn' = Idle
    /\ IF turn.source = "dialogue"
         THEN /\ said' = Last(Append(Heard("dialogue"), Mention(turn.m)), Lookback)
              /\ last' = now
              /\ topic' = IF topic < Lookback THEN topic + 1 ELSE topic
         ELSE /\ topic' \in {topic} \cup (IF turn.phase = "asked" THEN {0} ELSE {})
              /\ UNCHANGED <<said, last>>
    /\ UNCHANGED <<now, stored, active, opened, carry, attached>>

(* The worker stores a fragment; a memory becomes active. *)
Store(f) ==
    /\ f < now /\ f \notin stored
    /\ stored' = stored \cup {f}
    /\ UNCHANGED <<now, active, said, last, topic, opened, carry, attached, turn>>
Activate(r) ==
    /\ r \notin active /\ r.from \in stored
    /\ active' = active \cup {r}
    /\ UNCHANGED <<now, stored, said, last, topic, opened, carry, attached, turn>>

Pass ==
    /\ turn = Idle
    /\ now < LastTime
    /\ now' = now + 1
    /\ UNCHANGED <<stored, active, said, last, topic, opened, carry, attached, turn>>

(* What is only in memory is gone.  A turn it cuts is run again. *)
Restart ==
    /\ turn = Idle
    /\ opened' = {} /\ carry' = 0 /\ attached' = 0
    /\ UNCHANGED <<now, stored, active, said, last, topic, turn>>

Next ==
    \/ \E m \in Messages : Hear(m)
    \/ Open \/ Refuse \/ End \/ Pass \/ Restart
    \/ \E f \in Fragment : Store(f)
    \/ \E r \in Record : Activate(r)

Spec == Init /\ [][Next]_vars

-----------------------------------------------------------------------------
(* Properties. *)

(* A sealed detail needs the past: what is explicit_request_only is only   *)
(* unfolded when its fragment was quoted, or lies on a past day that this  *)
(* message or one of the last ones named, or that its part of the day      *)
(* means; of today only what the limit of the lookup leaves unchecked      *)
(* (_episode_pointer, sensitive_detail_allowed).                           *)
SealedNeedsThePast ==
    [][\A f \in Fragment :
          <<f, "explicit">> \in turn'.shown /\ turn' # turn =>
              \/ f \in turn'.m.quotes
              \/ /\ Day(f) < Day(now)
                 /\ \/ Day(f) \in PastDays(turn'.m)
                    \/ \E i \in DOMAIN said : Day(f) \in Named(said[i])
              \/ Cardinality({g \in stored : Day(g) = Day(now)}) > DayLimit]_vars

(* Whatever is unfolded has its line in the index, also when the window or *)
(* the lines are used up (build_index_line_objects: "the worst of all      *)
(* combinations").                                                         *)
ShownIsIndexed == Of(turn.shown) \subseteq turn.lines

(* No private record is in the context because another one was admitted:   *)
(* each was found by this message itself and, if sealed, asked for or      *)
(* quoted (_build_input: admission is per record).                         *)
EachAdmitted ==
    \A r \in turn.used : r.private =>
        /\ turn.m.hits[r] > 0
        /\ r.policy = "explicit_request_only" =>
              turn.key \in SensitiveKeys \/ r.from \in turn.m.quotes

(* A picture is attached in the turn it came with and in CarryTurns more,  *)
(* however turns, openings and rebuilt turns follow each other             *)
(* (_advance_image_carry).                                                 *)
PictureWindow == attached <= CarryTurns + 1

(* The architecture document, 3.6: the keys today, verbatim and correction *)
(* open ordinary details only.  Violated: a topic_only detail passes       *)
(* sensitive_detail_allowed under every key, and the gate of the context   *)
(* is open as soon as any sensitive record was admitted.                   *)
OrdinaryKeysOpenOrdinary ==
    turn.key \in {"today", "verbatim", "correction"} =>
        \A d \in turn.shown : d[2] = "ordinary"
=============================================================================

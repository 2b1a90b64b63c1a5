------------------------------ MODULE Details ------------------------------
(***************************************************************************)
(* The timeline of a session: how what was said in it becomes fragments    *)
(* and details (memory/extractor.py, memory/detail_pass.py,                *)
(* memory/worker.py, storage/memory_detail_repository.py), and how the     *)
(* maintenance scripts fill what is missing                                *)
(* (scripts/repair_memory_window.py, repair_all_tails.py).                 *)
(*                                                                         *)
(* The session is the events 1..N.  The extractor and the detail pass are  *)
(* a model that may answer anything; what they answer is known here by the *)
(* events the details come from and by whether the quotes hold.  A split   *)
(* runs between two transactions and touches nothing stored, so all it may *)
(* come to is one set of outcomes.                                         *)
(***************************************************************************)
EXTENDS Integers, Sequences, FiniteSets, Functions

CONSTANTS
    N,            \* events of the session
    Cap,          \* MAX_DETAILS_PER_FRAGMENT
    MaxDepth,     \* MEMORY_SPLIT_MAX_DEPTH
    Margin,       \* _COVERAGE_TAIL_MARGIN
    HoleMargin,   \* DETAIL_TAIL_MARGIN of the scripts
    MaxDrafts,    \* bound on the details of one answer
    MaxAttempts,  \* content failures until the session is given up
    MaxVersion,   \* bound on the context version
    MaxRepairs    \* bound on the repairs that write

ASSUME DetailsAssumption ==
    /\ {N, Cap, MaxAttempts} \subseteq Nat \ {0}
    /\ {MaxDepth, Margin, HoleMargin, MaxDrafts, MaxVersion, MaxRepairs} \subseteq Nat

VARIABLES
    version,      \* the context version, a part of every fragment key
    fragments,    \* memory_fragments: what each covers
    details,      \* memory_detail_records
    status,       \* the consolidation of the session
    attempts,     \* attempt_count of its job
    category,     \* failure_category of its job
    repairs       \* repairs done

detailVars == <<version, fragments, details, status, attempts, category, repairs>>

Event == 1..N
Unsound == 0      \* a detail whose quote or source does not hold
Span == {s \in [from : Event, to : Event] : s.from <= s.to}
Of(s) == s.from..s.to

DetailInit ==
    /\ version = 0
    /\ fragments = {}
    /\ details = {}
    /\ status = "open"
    /\ attempts = 0
    /\ category = "none"
    /\ repairs = 0

-----------------------------------------------------------------------------
(* What the model may answer about the events of a span: the events its    *)
(* details come from, in the order it gives them.                          *)

Lists(S) == UNION {[1..n -> S] : n \in 0..MaxDrafts}

(* _parse_details: one wrong detail fails the answer, so all of them hold. *)
Extracted(s) == Lists(Of(s))

(* MemoryDetailPass.generate, over the span or over each half of it        *)
(* (_detail_timeline): in event order, a detail from elsewhere last.  What *)
(* a detail quotes is not looked at.                                       *)
Place(d) == IF d = Unsound THEN N + 1 ELSE d
Timelines(s) ==
    {l \in Lists(Of(s) \cup {Unsound}) :
        \A i, j \in DOMAIN l : i < j => Place(l[i]) <= Place(l[j])}

(* The details of an extraction, or a timeline when it has none.           *)
Answers == [s \in Span |-> (Extracted(s) \ {<< >>}) \cup Timelines(s)]

(* _drafts_cover_the_window. *)
Covers(s, l) == l = << >> \/ \E i \in DOMAIN l : l[i] \in (s.to - Margin)..s.to

(* What the answers for a span come to: cut to the cap.                    *)
Cut(l) == SubSeq(l, 1, IF Len(l) < Cap THEN Len(l) ELSE Cap)
Told == [s \in Span |-> {Cut(l) : l \in Answers[s]}]

(* _stores_within_cap: the spans the session may be stored in.  A span     *)
(* whose answer is too long or stops early is halved; a half whose         *)
(* extraction fails, or that may not be halved again, is stored whole:     *)
(* left is how often it may.                                               *)
Splits(s) == \E l \in Answers[s] : Len(l) > Cap \/ ~Covers(s, l)
MiddleRoundedUp(s) == s.from + (s.to - s.from + 2) \div 2
Middle(s) == s.from + (s.to - s.from + 1) \div 2
First(s) == [s EXCEPT !.to = s.from + (s.to - s.from + 1) \div 2 - 1]
Second(s) == [s EXCEPT !.from = Middle(s)]
Parts[left \in 0..MaxDepth] ==
    [s \in Span |->
        {{s}} \cup
        IF s.from = s.to \/ left = 0 \/ ~Splits(s) THEN {}
        ELSE {a \cup b : a \in Parts[left - 1][First(s)], b \in Parts[left - 1][Second(s)]}]
Partitions == Parts[MaxDepth]

-----------------------------------------------------------------------------
(* The transaction: build_fragment, build_details, store_in_transaction.   *)

Key(s) == [from |-> s.from, to |-> s.to, version |-> version]
Row(f, n, e) == [fragment |-> f, ordinal |-> n, source |-> e]
Rows(s, l) == {Row(Key(s), i - 1, l[i]) : i \in DOMAIN l}

(* reject_detail_draft: build_details raises on one wrong draft. *)
Sound(l) == Unsound \notin Range(l)

(* UNIQUE(fragment_id, ordinal): the same detail again is left alone,      *)
(* another one in its place is an IntegrityError.                          *)
StoredAnyway(rows) == TRUE
Storable(rows) ==
    \A r \in rows, d \in details :
        d.fragment = r.fragment /\ d.ordinal = r.ordinal => d = r

Write(s) ==
    \E spans \in Partitions[s] :
    \E told \in [spans -> {l \in UNION {Told[x] : x \in spans} : Sound(l)}] :
        LET rows == UNION {Rows(x, told[x]) : x \in spans} IN
        /\ \A x \in spans : told[x] \in Told[x]
        /\ Storable(rows)
        /\ fragments' = fragments \cup {Key(x) : x \in spans}
        /\ details' = details \cup rows

-----------------------------------------------------------------------------
(* The worker: run_due, _finish_success and _finish_failure. *)

Whole == [from |-> 1, to |-> N]

Consolidate ==
    /\ status = "open"
    /\ Write(Whole)
    /\ status' = "stored"
    /\ UNCHANGED <<version, attempts, category, repairs>>

(* A content failure; the last one quarantines the session. *)
Failed(kind) ==
    /\ status = "open"
    /\ attempts' = attempts + 1
    /\ category' = kind
    /\ status' = IF attempts' = MaxAttempts THEN "given up" ELSE "open"
    /\ UNCHANGED <<version, fragments, details, repairs>>

ExtractionFails == Failed("parse_error")

(* build_details raised: _consolidation_failure calls it schema_error. *)
Refused == (\E l \in Told[Whole] : ~Sound(l)) /\ Failed("schema_error")

(* A message arrives: the context version is part of the next key. *)
Hear ==
    /\ version < MaxVersion
    /\ version' = version + 1
    /\ UNCHANGED <<fragments, details, status, attempts, category, repairs>>

-----------------------------------------------------------------------------
(* The scripts.  One that fails leaves everything as it was. *)

Repair(s) ==
    /\ repairs < MaxRepairs
    /\ Write(s)
    /\ repairs' = repairs + 1
    /\ UNCHANGED <<version, status, attempts, category>>

(* --start --end: a span below the watermark that no fragment covers. *)
RepairWindow(s) ==
    /\ status = "given up"
    /\ \A f \in fragments : f.to < s.from \/ s.to < f.from
    /\ Repair(s)

(* --tail-of: from behind the last event its details come from. *)
Sources(f) == {d.source : d \in {r \in details : r.fragment = f}}
TailOf(f) == {e \in f.from..f.to : \A x \in Sources(f) : x < e}
RepairTail(f) ==
    /\ TailOf(f) # {}
    /\ Repair([from |-> CHOOSE e \in TailOf(f) : \A x \in TailOf(f) : e <= x, to |-> f.to])

(* holes, --force: runs of events inside the fragments that no detail of   *)
(* any fragment comes from.                                                *)
Covered == {d.source : d \in details}
Spanned == UNION {f.from..f.to : f \in fragments}
Holes ==
    {s \in Span :
        /\ s.from..s.to \subseteq Spanned \ Covered
        /\ {s.from - 1, s.to + 1} \cap (Spanned \ Covered) = {}
        /\ s.to - s.from + 1 > HoleMargin}
RepairHole(s) == s \in Holes /\ Repair(s)

DetailNext ==
    \/ Consolidate \/ ExtractionFails \/ Refused \/ Hear
    \/ \E s \in Span : RepairWindow(s) \/ RepairHole(s)
    \/ \E f \in fragments : RepairTail(f)

DetailSpec == DetailInit /\ [][DetailNext]_detailVars

-----------------------------------------------------------------------------
(* Properties. *)

(* A session that is stored is stored whole: its fragments are disjoint and *)
(* leave no event out, however often the split went on or fell back         *)
(* (_stores_within_cap: "do not lose the whole segment").                   *)
Tiles ==
    [][status = "open" /\ status' = "stored" =>
          \A e \in Event : Cardinality({f \in fragments' : e \in f.from..f.to}) = 1]_detailVars

(* The timeline of a fragment stays one: numbered without a gap, at most    *)
(* Cap long and told from its own events, also after repairs of the same    *)
(* span under the same context version (store_in_transaction).              *)
OneTimeline ==
    \A f \in fragments :
        LET own == {d \in details : d.fragment = f} IN
        /\ {d.ordinal : d \in own} = 0..(Cardinality(own) - 1)
        /\ Cardinality(own) <= Cap
        /\ \A d \in own : d.source \in f.from..f.to
=============================================================================

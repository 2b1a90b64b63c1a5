------------------------- MODULE MemoryWorkerProofs -------------------------
(***************************************************************************)
(* Theorems about MemoryWorker, for any workers, events, weights, delays   *)
(* and crashes: no evidence is lost or stored twice, and none is given up  *)
(* without a cause.  Then about Details, what the worker and the scripts   *)
(* store, for any session and any answers: one timeline for a fragment,    *)
(* whatever is repaired, and a session stored whole, however it is split.  *)
(***************************************************************************)
EXTENDS MemoryWorker, Details, FiniteSetTheorems, WellFoundedInduction, TLAPS

Job == [status : {"none", "pending", "retry", "claimed", "failed"},
        range : Ranges \cup {NoRange}, owner : Worker \cup {"none", "dead"},
        lease : Nat, retryAt : Nat, attempts : Nat,
        category : Category \cup {"none", "oversized"}, updated : Nat]

Claimed == [range : Ranges \cup {NoRange}, canonical : Ranges \cup {NoRange}, since : Nat]

Typed ==
    /\ TypeOK
    /\ job \in Job
    /\ Len(received) <= MaxEvents
    /\ work \in [Worker -> Claimed]

(* What a worker extracts for is a beginning of a session. *)
Claims ==
    \A w \in Worker : work[w] # NoWork =>
        /\ work[w].range \in Ranges
        /\ work[w].range.start <= work[w].range.end

(* The range of the row begins where the cursors end; that of a failed row  *)
(* may have been given up meanwhile.                                       *)
Aligned(r) == r \in Ranges /\ r.start = Scanned + 1 /\ r.end >= r.start
GivenUp(r) == r \in Ranges /\ r.start..r.end \subseteq given /\ r.end <= quarantined
RowAligned ==
    /\ job.status \in {"pending", "retry", "claimed"} => Aligned(job.range)
    /\ job.status = "failed" => Aligned(job.range) \/ GivenUp(job.range)

(* The holder of the claim extracts for the range of the row. *)
Holder ==
    \A w \in Worker :
        work[w] # NoWork /\ job.status = "claimed" /\ job.owner = w => work[w].range = job.range

InStep == Typed /\ Claims /\ RowAligned /\ Holder

-----------------------------------------------------------------------------
(* Sets of naturals and the sessions taken from them. *)

LEMMA MaxExists ==
    ASSUME NEW S, S \subseteq Nat, S # {}, NEW b \in Nat, \A x \in S : x <= b
    PROVE  Max(S) \in S /\ \A x \in S : x <= Max(S)
<1> DEFINE U == {k \in Nat : \A x \in S : x <= k}
<1>1. U \subseteq Nat /\ U # {}
    OBVIOUS
<1>2. PICK m \in U : \A k \in U : ~(<<k, m>> \in OpToRel(<, Nat))
    BY <1>1, WFMin, NatLessThanWellFounded
<1>3. \A k \in U : ~(k < m)
    BY <1>1, <1>2 DEF OpToRel
<1>4. m \in S
    <2> SUFFICES ASSUME m \notin S PROVE FALSE
        OBVIOUS
    <2>1. m \in Nat /\ \A y \in S : y <= m /\ y \in Nat /\ y # m
        BY <1>2
    <2>2. PICK w \in S : TRUE
        OBVIOUS
    <2>3. m # 0
        BY <2>1, <2>2
    <2>4. \A x \in S : x <= m - 1
        BY <2>1
    <2>5. m - 1 \in U /\ m - 1 < m
        BY <2>1, <2>3, <2>4
    <2> QED BY <1>3, <2>5
<1>5. \A x \in S : x <= m
    BY <1>2
<1>6. \E x \in S : \A y \in S : x >= y
    BY <1>4, <1>5
<1> QED BY <1>6 DEF Max

(* A session begins behind the cursor it is taken from. *)
LEMMA SessionFacts ==
    ASSUME Typed, NEW from \in Nat
    PROVE  IF from >= Len(received) THEN Session(from) = NoRange
           ELSE /\ Session(from) \in Ranges /\ Session(from) # NoRange
                /\ Session(from).start = from + 1
                /\ Session(from).end >= from + 1 /\ Session(from).end <= Len(received)
<1>1. Len(received) \in Nat /\ Len(received) <= MaxEvents /\ MaxEvents \in Nat
    BY MemoryAssumption DEF Typed, TypeOK
<1>2. CASE from >= Len(received)
    BY <1>2 DEF Session
<1>3. CASE ~(from >= Len(received))
    <2> DEFINE S == {j \in from + 1..Len(received) : Connected(from + 1, j)}
    <2>1. from + 1 \in S
        BY <1>1, <1>3 DEF Connected
    <2>2. S \subseteq Nat /\ \A x \in S : x <= Len(received)
        BY <1>1
    <2>3. Max(S) \in S
        BY <1>1, <2>1, <2>2, MaxExists
    <2>4. Session(from) = [start |-> from + 1, end |-> Max(S)]
        BY <1>3 DEF Session
    <2>5. Max(S) \in Nat /\ Max(S) >= from + 1 /\ Max(S) <= Len(received)
        BY <2>2, <2>3
    <2> HIDE DEF S
    <2> QED BY <1>1, <1>3, <2>4, <2>5 DEF Ranges, Events, NoRange
<1> QED BY <1>2, <1>3

LEMMA ScannedFacts ==
    ASSUME Typed
    PROVE  Scanned \in Nat /\ Scanned <= MaxEvents /\ processed <= Scanned /\ quarantined <= Scanned
BY MemoryAssumption DEF Typed, TypeOK, Scanned

(* The snapshot, and the session beyond a range. *)
LEMMA SnapshotAligned ==
    ASSUME Typed, Snapshot # NoRange
    PROVE  Aligned(Snapshot)
<1>1. Snapshot \in Ranges /\ Snapshot.start = Scanned + 1 /\ Snapshot.end >= Scanned + 1
    BY ScannedFacts, SessionFacts DEF Snapshot
<1> QED BY <1>1 DEF Aligned

LEMMA BoundedFacts ==
    ASSUME NEW r \in Ranges, r.start <= r.end
    PROVE  Bounded(r) \in Ranges /\ Bounded(r).start = r.start /\ Bounded(r).end >= r.start
<1>1. r.start \in Events /\ r.end \in Events /\ r = [start |-> r.start, end |-> r.end]
      /\ MaxEvents \in Nat
    BY MemoryAssumption DEF Ranges
<1> DEFINE S == {r.start} \cup {j \in r.start..r.end : Tokens(r.start, j) <= MaxTokens}
<1>2. S \subseteq Nat /\ S # {} /\ r.end \in Nat
    BY <1>1 DEF Events
<1>3. \A x \in S : x <= r.end /\ x >= r.start
    BY <1>1 DEF Events
<1>4. Max(S) \in S
    BY <1>2, <1>3, MaxExists
<1>5. Bounded(r) = [r EXCEPT !.end = Max(S)]
    BY DEF Bounded
<1>6. Max(S) \in Nat /\ Max(S) <= r.end /\ Max(S) >= r.start
    BY <1>2, <1>3, <1>4
<1> HIDE DEF S
<1>7. Max(S) \in Events
    BY <1>1, <1>6 DEF Events
<1> QED BY <1>1, <1>5, <1>6, <1>7 DEF Ranges

(* Where the cursors end once a range of the row is behind them. *)
LEMMA Beyond ==
    ASSUME Typed, NEW r \in Ranges
    PROVE  LET c == IF r.end > Scanned THEN r.end ELSE Scanned IN
           /\ c \in Nat
           /\ SessionBeyond(r) # NoRange => /\ SessionBeyond(r) \in Ranges
                                            /\ SessionBeyond(r).start = c + 1
                                            /\ SessionBeyond(r).end >= c + 1
<1>1. r.end \in Nat
    BY DEF Ranges, Events
<1> QED BY <1>1, ScannedFacts, SessionFacts DEF SessionBeyond

-----------------------------------------------------------------------------
(* The rows the code writes. *)

LEMMA NoJobTyped == NoJob \in Job
BY DEF NoJob, Job

LEMMA FreshIs ==
    ASSUME NEW r
    PROVE  Fresh(r) = [status |-> "pending", range |-> r, owner |-> "none", lease |-> 0,
                       retryAt |-> 0, attempts |-> 0, category |-> "none", updated |-> 0]
<1>1. PICK row : row = Fresh(r)
    OBVIOUS
<1>2. row = [status |-> "pending", range |-> r, owner |-> "none", lease |-> 0,
             retryAt |-> 0, attempts |-> 0, category |-> "none", updated |-> 0]
    BY <1>1 DEF Fresh, NoJob
<1> QED BY <1>1, <1>2

LEMMA FreshTyped ==
    ASSUME Typed, NEW r \in Ranges \cup {NoRange}
    PROVE  /\ Fresh(r) \in Job
           /\ Fresh(r).status = "pending" /\ Fresh(r).range = r /\ Fresh(r).owner = "none"
<1>1. clock \in Nat
    BY MemoryAssumption DEF Typed, TypeOK
<1> QED BY <1>1, FreshIs DEF Job

LEMMA DelayTyped ==
    ASSUME NEW why \in Category, NEW attempt \in Nat \ {0}
    PROVE  Delay(why, attempt) \in Nat
<1>1. ParseDelay \in Nat /\ Len(Delays) \in Nat
    BY MemoryAssumption
<1>2. ASSUME attempt <= Len(Delays) PROVE Delays[attempt] \in Nat
    BY <1>1, <1>2, MemoryAssumption
<1>3. CASE why = "content"
    BY <1>1, <1>3 DEF Delay
<1>4. CASE why = "transient"
    BY <1>1, <1>2, <1>4 DEF Delay
<1>5. CASE why = "worker"
    BY <1>5 DEF Delay
<1> QED BY <1>3, <1>4, <1>5 DEF Category

-----------------------------------------------------------------------------
(* The cursors. *)

(* Giving up a range moves the cursors behind it, and nothing else.         *)
LEMMA QuarantineMoves ==
    ASSUME Typed, NEW r \in Ranges, Quarantine(r), processed' = processed
    PROVE  /\ quarantined' \in 0..MaxEvents /\ quarantined' >= r.end /\ quarantined' >= quarantined
           /\ given' = given \cup r.start..r.end /\ given' \subseteq Events
           /\ Scanned' = IF r.end > Scanned THEN r.end ELSE Scanned
<1>1. r.start \in Events /\ r.end \in Events /\ MaxEvents \in Nat
      /\ processed \in 0..MaxEvents /\ quarantined \in 0..MaxEvents /\ given \subseteq Events
    BY MemoryAssumption DEF Ranges, Typed, TypeOK
<1>2. r.start..r.end \subseteq Events
    BY <1>1 DEF Events
<1>3. r.start \in Nat /\ r.end \in Nat /\ r.end <= MaxEvents
    BY <1>1 DEF Events
<1>4. quarantined' = IF r.end > quarantined THEN r.end ELSE quarantined
    BY DEF Quarantine
<1>5. given' = given \cup r.start..r.end
    BY DEF Quarantine
<1>6. quarantined' \in 0..MaxEvents /\ quarantined' >= r.end /\ quarantined' >= quarantined
    BY <1>1, <1>3, <1>4
<1>7. Scanned' = IF r.end > Scanned THEN r.end ELSE Scanned
    BY <1>1, <1>3, <1>4 DEF Scanned
<1> QED BY <1>1, <1>2, <1>5, <1>6, <1>7

LEMMA Unmoved ==
    ASSUME UNCHANGED <<cursors, given>>
    PROVE  /\ Scanned' = Scanned
           /\ \A r : (Aligned(r) => Aligned(r)') /\ (GivenUp(r) => GivenUp(r)')
BY DEF cursors, Scanned, Aligned, GivenUp

(* A row that is not written over and whose cursors stay is as it was.      *)
LEMMA RowKept ==
    ASSUME InStep, UNCHANGED <<cursors, given, job>>,
           \A w \in Worker : work'[w] \in {work[w], NoWork}
    PROVE  Claims' /\ RowAligned' /\ Holder'
<1>1. RowAligned'
    BY Unmoved DEF InStep, RowAligned
<1>2. Claims'
    BY DEF InStep, Claims
<1>3. Holder'
    BY DEF InStep, Holder
<1> QED BY <1>1, <1>2, <1>3

(* A fresh row for the earliest session. *)
LEMMA RowFresh ==
    ASSUME InStep, NEW r \in Ranges, job' = Fresh(r), Aligned(r)',
           \A w \in Worker : work'[w] \in {work[w], NoWork}
    PROVE  job' \in Job /\ Claims' /\ RowAligned' /\ Holder'
<1>1. job' \in Job /\ job'.status = "pending" /\ job'.range = r
    BY FreshTyped DEF InStep
<1>2. Claims'
    BY DEF InStep, Claims
<1> QED BY <1>1, <1>2 DEF RowAligned, Holder

LEMMA RowOfSnapshot ==
    ASSUME InStep, Snapshot # NoRange, job' = Fresh(Snapshot), UNCHANGED <<cursors, given>>,
           \A w \in Worker : work'[w] \in {work[w], NoWork}
    PROVE  job' \in Job /\ Claims' /\ RowAligned' /\ Holder'
<1>1. Snapshot \in Ranges /\ Aligned(Snapshot)
    BY SnapshotAligned DEF InStep, Aligned
<1>2. PICK r \in Ranges : r = Snapshot
    BY <1>1
<1>3. Aligned(r)'
    BY <1>1, <1>2, Unmoved
<1> QED BY <1>2, <1>3, RowFresh

(* A fresh row for the session beyond a range given up. *)
LEMMA RowBeyond ==
    ASSUME InStep, NEW g \in Ranges, Quarantine(g), processed' = processed,
           SessionBeyond(g) # NoRange, job' = Fresh(SessionBeyond(g)),
           \A w \in Worker : work'[w] \in {work[w], NoWork}
    PROVE  job' \in Job /\ Claims' /\ RowAligned' /\ Holder'
<1>1. PICK r \in Ranges : r = SessionBeyond(g)
    BY Beyond DEF InStep
<1>2. r.start = Scanned' + 1 /\ r.end >= r.start
    BY <1>1, QuarantineMoves, Beyond DEF InStep
<1>3. Aligned(r)'
    BY <1>2 DEF Aligned
<1> QED BY <1>1, <1>3, RowFresh

(* The failed row of a range given up. *)
LEMMA RowGivenUp ==
    ASSUME InStep, NEW g \in Ranges, Quarantine(g), processed' = processed,
           job'.status = "failed", job'.range = g,
           \A w \in Worker : work'[w] \in {work[w], NoWork}
    PROVE  Claims' /\ RowAligned' /\ Holder'
<1>1. GivenUp(g)'
    BY QuarantineMoves DEF InStep, GivenUp
<1>2. Claims'
    BY DEF InStep, Claims
<1> QED BY <1>1, <1>2 DEF RowAligned, Holder

-----------------------------------------------------------------------------
(* The steps. *)

LEMMA TypedJob ==
    ASSUME job' \in Job
    PROVE  /\ job'.status \in {"none", "pending", "retry", "claimed", "failed"}
           /\ job'.range \in Ranges \cup {NoRange}
           /\ job'.owner \in Worker \cup {"none", "dead"}
           /\ job'.category \in Category \cup {"none", "oversized"}
BY DEF Job

(* What no step but its own changes. *)
LEMMA TypedAround ==
    ASSUME Typed, job' \in Job, UNCHANGED <<clock, received>>,
           processed' \in 0..MaxEvents, quarantined' \in 0..MaxEvents,
           fails' \in [Events -> Nat], stored' \in [Events -> Nat],
           given' \subseteq Events, up' \subseteq Worker, crashes' \in 0..MaxCrashes,
           work' \in [Worker -> Claimed]
    PROVE  Typed'
BY TypedJob DEF Typed, TypeOK

LEMMA RestedWork ==
    ASSUME Typed, NEW w \in Worker, work' = [work EXCEPT ![w] = NoWork]
    PROVE  /\ work' \in [Worker -> Claimed]
           /\ \A v \in Worker : work'[v] \in {work[v], NoWork}
BY DEF Typed, NoWork, Claimed

LEMMA PassArrive ==
    ASSUME InStep, Pass \/ Arrive \/ UNCHANGED vars
    PROVE  InStep'
<1>1. UNCHANGED <<cursors, given, job, work, fails, up, stored, crashes>>
    BY DEF Pass, Arrive, vars, history
<1>2. /\ clock' \in 0..MaxClock /\ received' \in Seq(0..clock') /\ Len(received') <= MaxEvents
    <2>1. clock \in 0..MaxClock /\ received \in Seq(0..clock) /\ Len(received) <= MaxEvents
          /\ MaxEvents \in Nat /\ MaxClock \in Nat
        BY MemoryAssumption DEF InStep, Typed, TypeOK
    <2>2. CASE Pass
        <3>1. 0..clock \subseteq 0..clock + 1
            BY <2>1
        <3>2. received \in Seq(0..clock + 1)
            BY <2>1, <3>1
        <3> QED BY <2>1, <2>2, <3>2 DEF Pass
    <2>3. CASE Arrive
        <3>1. clock \in 0..clock
            BY <2>1
        <3>2. Append(received, clock) \in Seq(0..clock) /\ Len(Append(received, clock)) = Len(received) + 1
            BY <2>1, <3>1
        <3> QED BY <2>1, <2>3, <3>2 DEF Arrive
    <2>4. CASE UNCHANGED vars
        BY <2>1, <2>4 DEF vars
    <2> QED BY <2>2, <2>3, <2>4
<1>3. Typed'
    BY <1>1, <1>2 DEF InStep, Typed, TypeOK, cursors
<1>4. Claims' /\ RowAligned' /\ Holder'
    BY <1>1, RowKept
<1> QED BY <1>3, <1>4 DEF InStep

LEMMA SoundTypes ==
    ASSUME InStep
    PROVE  /\ processed \in 0..MaxEvents /\ quarantined \in 0..MaxEvents
           /\ fails \in [Events -> Nat] /\ stored \in [Events -> Nat]
           /\ given \subseteq Events /\ up \subseteq Worker /\ crashes \in 0..MaxCrashes
           /\ work \in [Worker -> Claimed]
           /\ job \in Job /\ clock \in Nat /\ Lease \in Nat
BY MemoryAssumption DEF InStep, Typed, TypeOK

(* Notify and Realign: the row is made anew for the snapshot. *)
LEMMA Anew ==
    ASSUME InStep, Snapshot # NoRange, job' = Fresh(Snapshot),
           UNCHANGED <<clock, received, cursors, fails, up, stored, history, crashes>>,
           work' = work \/ \E w \in Worker : work' = [work EXCEPT ![w] = NoWork]
    PROVE  InStep'
<1>1. \A v \in Worker : work'[v] \in {work[v], NoWork}
    BY RestedWork DEF InStep
<1>2. job' \in Job /\ Claims' /\ RowAligned' /\ Holder'
    BY <1>1, RowOfSnapshot DEF history
<1>3. Typed'
    BY <1>2, SoundTypes, RestedWork, TypedAround DEF cursors, history, InStep
<1> QED BY <1>2, <1>3 DEF InStep

(* The row stays; what the worker holds may be dropped. *)
LEMMA Left ==
    ASSUME InStep, UNCHANGED <<clock, received, cursors, fails, stored, history, job>>,
           up' \subseteq Worker, crashes' \in 0..MaxCrashes,
           work' = work \/ \E w \in Worker : work' = [work EXCEPT ![w] = NoWork]
    PROVE  InStep'
<1>1. \A v \in Worker : work'[v] \in {work[v], NoWork}
    BY RestedWork DEF InStep
<1>2. Claims' /\ RowAligned' /\ Holder'
    BY <1>1, RowKept DEF history
<1>3. Typed'
    BY SoundTypes, RestedWork, TypedAround DEF cursors, history, InStep
<1> QED BY <1>2, <1>3 DEF InStep

(* A failed row out of rounds is given up: it stays, or the session beyond  *)
(* it comes next.                                                          *)
LEMMA GivesFailedUp ==
    ASSUME InStep, job.status = "failed", Quarantine(job.range),
           job' = job \/ (SessionBeyond(job.range) # NoRange /\ job' = Fresh(SessionBeyond(job.range))),
           UNCHANGED <<clock, received, processed, fails, work, stored, crashes>>,
           up' \subseteq Worker
    PROVE  InStep'
<1>1. job.range \in Ranges
    BY DEF InStep, RowAligned, Aligned, GivenUp
<1>2. PICK g \in Ranges : g = job.range
    BY <1>1
<1>3. \A v \in Worker : work'[v] \in {work[v], NoWork}
    OBVIOUS
<1>4. CASE job' = job
    <2>1. Claims' /\ RowAligned' /\ Holder'
        BY <1>2, <1>3, <1>4, RowGivenUp
    <2>2. Typed'
        BY <1>2, <1>4, SoundTypes, QuarantineMoves, TypedAround DEF InStep
    <2> QED BY <2>1, <2>2 DEF InStep
<1>5. CASE SessionBeyond(job.range) # NoRange /\ job' = Fresh(SessionBeyond(job.range))
    <2>1. job' \in Job /\ Claims' /\ RowAligned' /\ Holder'
        BY <1>2, <1>3, <1>5, RowBeyond
    <2>2. Typed'
        BY <1>2, <2>1, SoundTypes, QuarantineMoves, TypedAround DEF InStep
    <2> QED BY <2>1, <2>2 DEF InStep
<1> QED BY <1>4, <1>5

LEMMA NotifySound ==
    ASSUME InStep, Notify \/ NotifyFailed
    PROVE  InStep'
<1>1. CASE Notify
    BY <1>1, Anew DEF Notify
<1>2. CASE NotifyFailed
    <2>1. CASE Retryable(job.category, fails[job.range.start])
        BY <1>2, <2>1, Anew DEF NotifyFailed, cursors, history
    <2>2. CASE ~Retryable(job.category, fails[job.range.start])
        BY <1>2, <2>2, SoundTypes, GivesFailedUp DEF NotifyFailed
    <2> QED BY <2>1, <2>2
<1> QED BY <1>1, <1>2

LEMMA RestartSound ==
    ASSUME InStep, NEW w \in Worker, Restart(w)
    PROVE  InStep'
<1>1. up' \subseteq Worker /\ crashes' \in 0..MaxCrashes /\ work' = work
      /\ UNCHANGED <<clock, received, processed, fails, work, stored, spent, crashes>>
    BY SoundTypes DEF Restart
<1>2. CASE job' = job /\ UNCHANGED <<quarantined, given>>
    BY <1>1, <1>2, Left DEF cursors, history
<1>3. ASSUME Snapshot # NoRange, job' = Fresh(Snapshot), UNCHANGED <<quarantined, given>>
      PROVE  InStep'
    <2>1. job' \in Job /\ Claims' /\ RowAligned' /\ Holder'
        BY <1>1, <1>3, RowOfSnapshot DEF cursors
    <2>2. Typed'
        BY <1>1, <1>3, <2>1, SoundTypes, TypedAround DEF InStep
    <2> QED BY <2>1, <2>2 DEF InStep
<1>4. CASE Unclaim
    <2>1. CASE Reclaimable
        <3>1. job' = [job EXCEPT !.status = "pending", !.owner = "none", !.lease = 0]
              /\ UNCHANGED <<quarantined, given>> /\ job.status = "claimed"
            BY <1>4, <2>1 DEF Unclaim
        <3>2. job' \in Job /\ job'.status = "pending" /\ job'.range = job.range
            BY <3>1, SoundTypes DEF Job
        <3>3. RowAligned' /\ Holder' /\ Claims'
            BY <1>1, <3>1, <3>2, Unmoved DEF InStep, RowAligned, Holder, Claims, cursors
        <3>4. Typed'
            BY <1>1, <3>1, <3>2, SoundTypes, TypedAround DEF InStep
        <3> QED BY <3>3, <3>4 DEF InStep
    <2>2. CASE ~Reclaimable
        BY <1>2, <1>4, <2>2 DEF Unclaim
    <2> QED BY <2>1, <2>2
<1>5. CASE ReopenFailed
    <2>1. CASE Retryable(job.category, fails[job.range.start])
        BY <1>2, <1>3, <1>5, <2>1 DEF ReopenFailed
    <2>2. CASE ~Retryable(job.category, fails[job.range.start])
        BY <1>1, <1>5, <2>2, GivesFailedUp DEF ReopenFailed
    <2> QED BY <2>1, <2>2
<1>6. CASE FirstJob
    BY <1>2, <1>3, <1>6 DEF FirstJob
<1> QED BY <1>2, <1>4, <1>5, <1>6 DEF Restart

LEMMA StaleSound ==
    ASSUME InStep, NEW w \in Worker, Stale(w) \/ Realign(w)
    PROVE  InStep'
<1>1. CASE Realign(w)
    BY <1>1, Anew DEF Realign, Due
<1>2. CASE Stale(w)
    <2>1. CASE job' = Fresh(Snapshot) /\ Snapshot # NoRange
        BY <1>2, <2>1, Anew DEF Stale, Released
    <2>2. CASE job' = job
        BY <1>2, <2>2, SoundTypes, Left DEF Stale, Released
    <2> QED BY <1>2, <2>1, <2>2 DEF Stale, Refreshed
<1> QED BY <1>1, <1>2

LEMMA OversizedSound ==
    ASSUME InStep, NEW w \in Worker, RejectOversized(w)
    PROVE  InStep'
<1>1. Snapshot \in Ranges /\ Aligned(Snapshot)
    BY SnapshotAligned DEF InStep, Aligned, RejectOversized, Due
<1>2. PICK g \in Ranges : g = Snapshot
    BY <1>1
<1>3. job' \in Job /\ job'.status = "failed" /\ job'.range = g
    <2>1. job' = [status |-> "failed", range |-> g, owner |-> "none", lease |-> 0, retryAt |-> 0,
                  attempts |-> job.attempts + 1, category |-> "oversized", updated |-> clock]
        BY <1>2 DEF RejectOversized, NoJob
    <2>2. job.attempts + 1 \in Nat /\ clock \in Nat
        BY SoundTypes DEF Job
    <2> QED BY <2>1, <2>2 DEF Job
<1>4. \A v \in Worker : work'[v] \in {work[v], NoWork}
    BY DEF RejectOversized
<1>5. Claims' /\ RowAligned' /\ Holder'
    BY <1>2, <1>3, <1>4, RowGivenUp DEF RejectOversized
<1>6. fails' \in [Events -> Nat]
    <2>1. g.start \in Events
        BY DEF Ranges
    <2> QED BY <1>2, <2>1, SoundTypes DEF RejectOversized
<1>7. Typed'
    BY <1>2, <1>3, <1>6, SoundTypes, QuarantineMoves, TypedAround DEF InStep, RejectOversized
<1> QED BY <1>5, <1>7 DEF InStep

LEMMA ClaimSound ==
    ASSUME InStep, NEW w \in Worker, Claim(w)
    PROVE  InStep'
<1> DEFINE b == Bounded(Snapshot)
<1>1. Snapshot \in Ranges /\ Snapshot.start = Scanned + 1 /\ Snapshot.start <= Snapshot.end
    BY SnapshotAligned, ScannedFacts DEF InStep, Aligned, Claim, Due
<1>2. b \in Ranges /\ b.start = Snapshot.start /\ b.end >= b.start
    BY <1>1, BoundedFacts
<1>3. PICK r \in Ranges : r = b
    BY <1>2
<1>4. PICK s \in Ranges : s = Snapshot
    BY <1>1
<1>5. /\ job' \in Job /\ job'.status = "claimed" /\ job'.range = r /\ job'.owner = w
    <2>1. job' = [status |-> "claimed", range |-> r, owner |-> w, lease |-> clock + Lease,
                  retryAt |-> 0, attempts |-> IF b = Snapshot THEN job.attempts ELSE 0,
                  category |-> "none", updated |-> 0]
        BY <1>3 DEF Claim, NoJob
    <2>2. job.attempts \in Nat /\ clock \in Nat /\ clock + Lease \in Nat
        BY SoundTypes DEF Job
    <2> QED BY <2>1, <2>2 DEF Job
<1>6. work' = [work EXCEPT ![w] = [range |-> r, canonical |-> s, since |-> clock]]
      /\ UNCHANGED <<clock, received, cursors, fails, up, stored, history, crashes>>
    BY <1>3, <1>4 DEF Claim
<1>7. Aligned(r)
    BY <1>1, <1>2, <1>3 DEF Aligned
<1>8. RowAligned'
    BY <1>5, <1>6, <1>7, Unmoved DEF RowAligned, history
<1>9. r.start <= r.end
    BY <1>2, <1>3 DEF Ranges, Events
<1>10. work' \in [Worker -> Claimed]
    <2>1. [range |-> r, canonical |-> s, since |-> clock] \in Claimed
        BY SoundTypes DEF Claimed
    <2> QED BY <1>6, <2>1, SoundTypes
<1>11. work'[w].range = r /\ \A v \in Worker : v # w => work'[v] = work[v]
    BY <1>6, SoundTypes
<1>12. Claims'
    BY <1>9, <1>11 DEF InStep, Claims
<1>13. Holder'
    BY <1>5, <1>11 DEF Holder
<1>14. Typed'
    BY <1>5, <1>6, <1>10, SoundTypes, TypedAround DEF InStep, cursors, history
<1> QED BY <1>8, <1>12, <1>13, <1>14 DEF InStep

LEMMA CrashSound ==
    ASSUME InStep, NEW w \in Worker, Crash(w)
    PROVE  InStep'
<1>1. /\ work' = [work EXCEPT ![w] = NoWork] /\ up' \subseteq Worker
      /\ UNCHANGED <<clock, received, cursors, fails, stored, history>>
    BY SoundTypes DEF Crash, Released
<1>2. crashes' \in 0..MaxCrashes
    BY SoundTypes, MemoryAssumption DEF Crash
<1>3. CASE job.owner # w
    BY <1>1, <1>2, <1>3, Left DEF Crash
<1>4. CASE job.owner = w
    <2>1. job' = [job EXCEPT !.owner = "dead"]
        BY <1>4 DEF Crash
    <2>2. job' \in Job /\ job'.status = job.status /\ job'.range = job.range /\ job'.owner = "dead"
        BY <2>1, SoundTypes DEF Job
    <2>3. RowAligned'
        BY <1>1, <2>2, Unmoved DEF InStep, RowAligned, history
    <2>4. Claims'
        BY <1>1, RestedWork DEF InStep, Claims
    <2>5. Holder'
        BY <2>2, MemoryAssumption DEF Holder
    <2>6. Typed'
        BY <1>1, <1>2, <2>2, SoundTypes, RestedWork, TypedAround DEF InStep, cursors, history
    <2> QED BY <2>3, <2>4, <2>5, <2>6 DEF InStep
<1> QED BY <1>3, <1>4

(* What a worker with a valid claim holds begins where the cursors end.     *)
LEMMA HeldAligned ==
    ASSUME InStep, NEW w \in Worker, work[w] # NoWork, Matches(w)
    PROVE  /\ work[w].range \in Ranges /\ work[w].range = job.range /\ Aligned(work[w].range)
BY DEF InStep, Claims, Holder, RowAligned, Matches

LEMMA FailureSound ==
    ASSUME InStep, NEW w \in Worker, NEW why \in Category, Failure(w, why)
    PROVE  InStep'
<1>1. /\ work[w] # NoWork /\ Matches(w)
      /\ work' = [work EXCEPT ![w] = NoWork]
      /\ UNCHANGED <<clock, received, processed, up, stored, crashes>>
    BY DEF Failure, Released
<1>2. work[w].range \in Ranges /\ work[w].range = job.range /\ Aligned(work[w].range)
    BY <1>1, HeldAligned
<1>3. PICK g \in Ranges : g = work[w].range
    BY <1>2
<1> DEFINE delay == Delay(why, job.attempts + 1)
<1>4. job.attempts + 1 \in Nat \ {0} /\ delay \in Nat
    <2>1. job.attempts + 1 \in Nat \ {0}
        BY SoundTypes DEF Job
    <2> QED BY <2>1, DelayTyped
<1>5. job' = [status |-> IF delay = 0 THEN "failed" ELSE "retry", range |-> g, owner |-> "none",
              lease |-> 0, retryAt |-> IF delay = 0 THEN 0 ELSE work[w].since + delay,
              attempts |-> job.attempts + 1, category |-> why,
              updated |-> IF delay = 0 THEN work[w].since ELSE 0]
    BY <1>2, <1>3 DEF Failure, NoJob
<1>6. job' \in Job /\ job'.status \in {"failed", "retry"} /\ job'.range = g
    <2>1. work[w].since \in Nat
        BY SoundTypes DEF Claimed
    <2>2. work[w].since + delay \in Nat
        BY <1>4, <2>1
    <2> HIDE DEF delay
    <2> QED BY <1>4, <1>5, <2>1, <2>2 DEF Job
<1>7. fails' \in [Events -> Nat]
    <2>1. g.start \in Events
        BY DEF Ranges
    <2> QED BY <1>3, <2>1, SoundTypes DEF Failure
<1>8. work' \in [Worker -> Claimed]
      /\ \A v \in Worker : work'[v] \in {work[v], NoWork}
    BY <1>1, RestedWork DEF InStep
<1>9. CASE Quarantine(g) /\ job'.status = "failed"
    <2>1. Claims' /\ RowAligned' /\ Holder'
        BY <1>1, <1>6, <1>8, <1>9, RowGivenUp
    <2>2. Typed'
        BY <1>1, <1>6, <1>7, <1>8, <1>9, SoundTypes, QuarantineMoves, TypedAround DEF InStep
    <2> QED BY <2>1, <2>2 DEF InStep
<1>10. CASE UNCHANGED <<quarantined, given>>
    <2>1. Aligned(g)'
        BY <1>1, <1>2, <1>3, <1>10, Unmoved DEF cursors
    <2>2. RowAligned' /\ Holder'
        BY <1>6, <2>1 DEF RowAligned, Holder
    <2>3. Claims'
        BY <1>8 DEF InStep, Claims
    <2>4. Typed'
        BY <1>1, <1>6, <1>7, <1>8, <1>10, SoundTypes, TypedAround DEF InStep
    <2> QED BY <2>2, <2>3, <2>4 DEF InStep
<1> QED BY <1>3, <1>5, <1>9, <1>10 DEF Failure

(* The range of a success is the one behind the cursors. *)
LEMMA SuccessMoves ==
    ASSUME InStep, NEW w \in Worker, Success(w)
    PROVE  LET r == work[w].range IN
           /\ r \in Ranges /\ r.start = Scanned + 1 /\ r.start <= r.end /\ r.end <= MaxEvents
           /\ processed' = r.end /\ Scanned' = r.end /\ given' = given
           /\ stored' = [i \in Events |-> IF i \in r.start..r.end THEN stored[i] + 1 ELSE stored[i]]
<1>1. work[w].range \in Ranges /\ Aligned(work[w].range)
    BY HeldAligned DEF Success
<1>2. PICK r \in Ranges : r = work[w].range
    BY <1>1
<1>3. r.start \in Nat /\ r.end \in Nat /\ r.end <= MaxEvents
    BY DEF Ranges, Events
<1>4. r.start = Scanned + 1 /\ r.start <= r.end
    BY <1>1, <1>2, <1>3 DEF Aligned
<1>5. processed \in Nat /\ quarantined \in Nat /\ MaxEvents \in Nat
    BY SoundTypes, MemoryAssumption
<1>6. processed <= Scanned /\ quarantined <= Scanned /\ Scanned \in Nat
    BY ScannedFacts DEF InStep
<1>7. processed' = r.end /\ quarantined' = quarantined /\ given' = given
    BY <1>2, <1>3, <1>4, <1>5, <1>6 DEF Success, history
<1>8. Scanned' = r.end
    BY <1>3, <1>4, <1>5, <1>6, <1>7 DEF Scanned
<1>9. stored' = [i \in Events |-> IF i \in r.start..r.end THEN stored[i] + 1 ELSE stored[i]]
    BY <1>2 DEF Success
<1> QED BY <1>2, <1>3, <1>4, <1>7, <1>8, <1>9

LEMMA SuccessSound ==
    ASSUME InStep, NEW w \in Worker, Success(w)
    PROVE  InStep'
<1>1. /\ work[w] # NoWork
      /\ work' = [work EXCEPT ![w] = NoWork]
      /\ UNCHANGED <<clock, received, quarantined, fails, up, given, crashes>>
    BY DEF Success, Released, history
<1>2. PICK r \in Ranges : r = work[w].range
    BY SuccessMoves
<1>3. r.start = Scanned + 1 /\ r.start <= r.end /\ r.end <= MaxEvents /\ r.end \in Nat
      /\ processed' = r.end /\ Scanned' = r.end
    BY <1>2, SuccessMoves DEF Ranges, Events
<1>4. work' \in [Worker -> Claimed]
      /\ \A v \in Worker : work'[v] \in {work[v], NoWork}
    BY <1>1, RestedWork DEF InStep
<1>5. stored' \in [Events -> Nat]
    BY SuccessMoves, SoundTypes
<1>6. job' \in Job /\ Claims' /\ RowAligned' /\ Holder'
    <2>1. CASE SessionBeyond(r) = NoRange
        <3>1. job' = NoJob /\ job'.status = "none"
            BY <1>2, <2>1 DEF Success, NoJob
        <3>2. Claims'
            BY <1>4 DEF InStep, Claims
        <3> QED BY <3>1, <3>2, NoJobTyped DEF RowAligned, Holder
    <2>2. CASE SessionBeyond(r) # NoRange
        <3>1. PICK s \in Ranges : s = SessionBeyond(r)
            BY <2>2, Beyond DEF InStep
        <3>2. Scanned \in Nat /\ r.end > Scanned
            BY <1>3, ScannedFacts DEF InStep
        <3>3. s.start = r.end + 1 /\ s.end >= s.start
            BY <2>2, <3>1, <3>2, Beyond DEF InStep
        <3>4. Aligned(s)'
            BY <1>3, <3>3 DEF Aligned
        <3>5. job' = Fresh(s)
            BY <1>2, <2>2, <3>1 DEF Success
        <3> QED BY <1>4, <3>4, <3>5, RowFresh
    <2> QED BY <2>1, <2>2
<1>7. processed' \in 0..MaxEvents
    BY <1>3
<1>8. Typed'
    BY <1>1, <1>4, <1>5, <1>6, <1>7, SoundTypes, TypedAround DEF InStep
<1> QED BY <1>6, <1>8 DEF InStep

LEMMA InitSound == Init => InStep
<1> SUFFICES ASSUME Init PROVE InStep
    OBVIOUS
<1>1. job = NoJob /\ job.status = "none" /\ work = [w \in Worker |-> NoWork]
    BY DEF Init, NoJob
<1>2. NoWork \in Claimed
    BY DEF NoWork, Claimed
<1>3. TypeOK
    <2>1. job \in Job
        BY <1>1, NoJobTyped
    <2>2. /\ MaxClock \in Nat /\ MaxEvents \in Nat /\ MaxCrashes \in Nat
        BY MemoryAssumption
    <2> QED BY <2>1, <2>2 DEF Init, TypeOK, Job
<1>4. Typed
    BY <1>1, <1>2, <1>3, NoJobTyped, MemoryAssumption DEF Init, Typed
<1>5. Claims /\ RowAligned /\ Holder
    BY <1>1 DEF Claims, RowAligned, Holder
<1> QED BY <1>4, <1>5 DEF InStep

LEMMA StepSound ==
    ASSUME InStep, [Next]_vars
    PROVE  InStep'
<1>1. CASE Pass \/ Arrive \/ UNCHANGED vars
    BY <1>1, PassArrive
<1>2. CASE Notify \/ NotifyFailed
    BY <1>2, NotifySound
<1>3. ASSUME NEW w \in Worker, Realign(w) \/ Stale(w) PROVE InStep'
    BY <1>3, StaleSound
<1>4. ASSUME NEW w \in Worker, RejectOversized(w) PROVE InStep'
    BY <1>4, OversizedSound
<1>5. ASSUME NEW w \in Worker, Claim(w) PROVE InStep'
    BY <1>5, ClaimSound
<1>6. ASSUME NEW w \in Worker, NEW why \in Category, Failure(w, why) PROVE InStep'
    BY <1>6, FailureSound
<1>7. ASSUME NEW w \in Worker, Success(w) PROVE InStep'
    BY <1>7, SuccessSound
<1>8. ASSUME NEW w \in Worker, Crash(w) PROVE InStep'
    BY <1>8, CrashSound
<1>9. ASSUME NEW w \in Worker, Restart(w) PROVE InStep'
    BY <1>9, RestartSound
<1> QED BY <1>1, <1>2, <1>3, <1>4, <1>5, <1>6, <1>7, <1>8, <1>9 DEF Next

LEMMA SoundHolds == Spec => []InStep
<1>1. InStep /\ [Next]_vars => InStep'
    BY StepSound
<1> QED BY <1>1, InitSound, PTL DEF Spec

(* Every variable keeps its type: the cursors and the ranges stay within    *)
(* the events there are.                                                    *)
THEOREM TypeCorrect == Spec => []TypeOK
<1>1. InStep => TypeOK
    BY DEF InStep, Typed
<1> QED BY <1>1, SoundHolds, PTL

-----------------------------------------------------------------------------
(* The evidence. *)

(* A step that stores nothing and gives nothing up loses nothing; one that  *)
(* gives up a range behind the cursors gives up what was not stored.        *)
LEMMA AccountedKept ==
    ASSUME Accounted, UNCHANGED <<cursors, stored, given>>
    PROVE  Accounted'
BY DEF Accounted, cursors, Scanned

LEMMA AccountedGivenUp ==
    ASSUME InStep, Accounted, NEW g \in Ranges, Quarantine(g), Aligned(g) \/ GivenUp(g),
           UNCHANGED <<processed, stored>>
    PROVE  Accounted'
<1>1. g.start \in Nat /\ g.end \in Nat /\ Scanned \in Nat /\ quarantined <= Scanned
      /\ quarantined \in Nat /\ stored \in [Events -> Nat]
    BY ScannedFacts, SoundTypes DEF Ranges, Events, InStep
<1>2. given' = given \cup g.start..g.end /\ Scanned' = IF g.end > Scanned THEN g.end ELSE Scanned
    BY QuarantineMoves DEF InStep
<1>3. CASE GivenUp(g)
    <2>1. given' = given /\ Scanned' = Scanned
        BY <1>1, <1>2, <1>3 DEF GivenUp
    <2> QED BY <2>1 DEF Accounted
<1>4. CASE Aligned(g)
    <2>1. g.start = Scanned + 1 /\ Scanned' = g.end /\ g.end >= g.start
        BY <1>1, <1>2, <1>4 DEF Aligned
    <2>2. ASSUME NEW i \in Events
          PROVE  /\ i <= Scanned' => stored'[i] + (IF i \in given' THEN 1 ELSE 0) = 1
                 /\ i > Scanned' => stored'[i] = 0 /\ i \notin given'
        <3>1. i \in Nat /\ stored'[i] = stored[i] /\ stored[i] \in Nat
            BY <1>1 DEF Events
        <3>2. CASE i <= Scanned
            BY <1>1, <1>2, <2>1, <3>1, <3>2 DEF Accounted
        <3>3. CASE i > Scanned /\ i <= g.end
            BY <1>1, <1>2, <2>1, <3>1, <3>3 DEF Accounted
        <3>4. CASE i > g.end
            BY <1>1, <1>2, <2>1, <3>1, <3>4 DEF Accounted
        <3> QED BY <1>1, <3>1, <3>2, <3>3, <3>4
    <2> QED BY <2>2 DEF Accounted
<1> QED BY <1>3, <1>4

LEMMA AccountedStored ==
    ASSUME InStep, Accounted, NEW w \in Worker, Success(w)
    PROVE  Accounted'
<1>1. PICK r \in Ranges : r = work[w].range
    BY SuccessMoves
<1>2. /\ r.start = Scanned + 1 /\ r.start <= r.end /\ Scanned' = r.end /\ given' = given
      /\ stored' = [i \in Events |-> IF i \in r.start..r.end THEN stored[i] + 1 ELSE stored[i]]
    BY <1>1, SuccessMoves
<1>3. r.end \in Nat /\ Scanned \in Nat /\ stored \in [Events -> Nat]
    BY ScannedFacts, SoundTypes DEF Ranges, Events, InStep
<1>4. ASSUME NEW i \in Events
      PROVE  /\ i <= Scanned' => stored'[i] + (IF i \in given' THEN 1 ELSE 0) = 1
             /\ i > Scanned' => stored'[i] = 0 /\ i \notin given'
    <2>1. i \in Nat /\ stored[i] \in Nat
          /\ stored'[i] = IF i \in r.start..r.end THEN stored[i] + 1 ELSE stored[i]
        BY <1>2, <1>3 DEF Events
    <2>2. CASE i <= Scanned
        BY <1>2, <1>3, <2>1, <2>2 DEF Accounted
    <2>3. CASE i > Scanned /\ i <= r.end
        BY <1>2, <1>3, <2>1, <2>3 DEF Accounted
    <2>4. CASE i > r.end
        BY <1>2, <1>3, <2>1, <2>4 DEF Accounted
    <2> QED BY <1>3, <2>1, <2>2, <2>3, <2>4
<1> QED BY <1>4 DEF Accounted

(* Where a range is given up, and which. *)
LEMMA WhoGivesUp ==
    ASSUME InStep, Next
    PROVE  \/ UNCHANGED <<cursors, stored, given>>
           \/ \E w \in Worker : Success(w)
           \/ \E g \in Ranges : /\ Quarantine(g) /\ (Aligned(g) \/ GivenUp(g))
                                /\ UNCHANGED <<processed, stored>>
                                /\ fails'[g.start] > Rounds \/ Weight[g.start] > MaxTokens
<1>1. CASE Pass \/ Arrive \/ Notify
    BY <1>1 DEF Pass, Arrive, Notify, history
<1>2. ASSUME job.status = "failed", ~Retryable(job.category, fails[job.range.start]),
             Quarantine(job.range), UNCHANGED <<processed, stored, fails>>
      PROVE  \E g \in Ranges : /\ Quarantine(g) /\ (Aligned(g) \/ GivenUp(g))
                               /\ UNCHANGED <<processed, stored>>
                               /\ fails'[g.start] > Rounds \/ Weight[g.start] > MaxTokens
    <2>1. job.range \in Ranges /\ (Aligned(job.range) \/ GivenUp(job.range))
        BY <1>2 DEF InStep, RowAligned, Aligned, GivenUp
    <2>2. fails[job.range.start] \in Nat /\ Rounds \in Nat
        BY <2>1, SoundTypes, MemoryAssumption DEF Ranges
    <2>3. fails'[job.range.start] > Rounds
        BY <1>2, <2>2 DEF Retryable
    <2> QED BY <1>2, <2>1, <2>3
<1>3. CASE NotifyFailed
    BY <1>2, <1>3 DEF NotifyFailed, cursors
<1>4. ASSUME NEW w \in Worker, Realign(w) \/ Claim(w) \/ Stale(w) \/ Crash(w)
      PROVE  UNCHANGED <<cursors, stored, given>>
    BY <1>4 DEF Realign, Claim, Stale, Crash, history
<1>5. ASSUME NEW w \in Worker, RejectOversized(w)
      PROVE  \E g \in Ranges : /\ Quarantine(g) /\ (Aligned(g) \/ GivenUp(g))
                               /\ UNCHANGED <<processed, stored>>
                               /\ fails'[g.start] > Rounds \/ Weight[g.start] > MaxTokens
    <2>1. Snapshot \in Ranges /\ Aligned(Snapshot)
        BY <1>5, SnapshotAligned DEF InStep, Aligned, RejectOversized, Due
    <2> QED BY <1>5, <2>1 DEF RejectOversized, Oversized
<1>6. ASSUME NEW w \in Worker, NEW why \in Category, Failure(w, why)
      PROVE  \/ UNCHANGED <<cursors, stored, given>>
             \/ \E g \in Ranges : /\ Quarantine(g) /\ (Aligned(g) \/ GivenUp(g))
                                  /\ UNCHANGED <<processed, stored>>
                                  /\ fails'[g.start] > Rounds \/ Weight[g.start] > MaxTokens
    <2>1. work[w].range \in Ranges /\ Aligned(work[w].range)
        BY <1>6, HeldAligned DEF Failure
    <2>2. fails'[work[w].range.start] \in Nat /\ Rounds \in Nat
        BY <1>6, <2>1, FailureSound, SoundTypes, MemoryAssumption DEF Ranges, InStep, Typed, TypeOK
    <2>3. CASE UNCHANGED <<quarantined, given>>
        BY <1>6, <2>3 DEF Failure, cursors
    <2>4. CASE Quarantine(work[w].range) /\ ~Retryable(why, fails'[work[w].range.start])
        <3>1. fails'[work[w].range.start] > Rounds
            BY <2>2, <2>4 DEF Retryable
        <3> QED BY <1>6, <2>1, <2>4, <3>1 DEF Failure
    <2> QED BY <1>6, <2>3, <2>4 DEF Failure
<1>7. ASSUME NEW w \in Worker, Restart(w)
      PROVE  \/ UNCHANGED <<cursors, stored, given>>
             \/ \E g \in Ranges : /\ Quarantine(g) /\ (Aligned(g) \/ GivenUp(g))
                                  /\ UNCHANGED <<processed, stored>>
                                  /\ fails'[g.start] > Rounds \/ Weight[g.start] > MaxTokens
    <2>1. UNCHANGED <<processed, stored, fails>>
        BY <1>7 DEF Restart
    <2>2. CASE UNCHANGED <<quarantined, given>>
        BY <2>1, <2>2 DEF cursors
    <2>3. CASE ReopenFailed /\ ~Retryable(job.category, fails[job.range.start])
        BY <1>2, <2>1, <2>3 DEF ReopenFailed
    <2> QED BY <1>7, <2>2, <2>3 DEF Restart, Unclaim, ReopenFailed, FirstJob
<1> QED BY <1>1, <1>3, <1>4, <1>5, <1>6, <1>7 DEF Next

(* _finish_success, _quarantine_range_tx and the two cursors: whatever      *)
(* worker claims, dies, or commits long after its lease, behind the cursors *)
(* each event was stored once or given up, and ahead of them none was.      *)
THEOREM NothingLost == Spec => []Accounted
<1>1. Init => Accounted
    BY DEF Init, Accounted, Scanned, Events
<1>2. ASSUME InStep, Accounted, [Next]_vars PROVE Accounted'
    <2>1. CASE UNCHANGED vars
        BY <1>2, <2>1, AccountedKept DEF vars, history
    <2>2. CASE Next
        BY <1>2, <2>2, WhoGivesUp, AccountedKept, AccountedGivenUp, AccountedStored
    <2> QED BY <1>2, <2>1, <2>2
<1>3. InStep /\ Accounted /\ [Next]_vars => Accounted'
    BY <1>2
<1> QED BY <1>1, <1>3, SoundHolds, PTL DEF Spec

LEMMA FailuresGrow ==
    ASSUME InStep, Next
    PROVE  \A i \in Events : fails'[i] >= fails[i] /\ fails[i] \in Nat /\ fails'[i] \in Nat
<1>1. fails \in [Events -> Nat] /\ fails' \in [Events -> Nat]
    BY StepSound, SoundTypes DEF InStep, Typed, TypeOK
<1>2. fails' = fails \/ \E h : fails' = [fails EXCEPT ![h] = @ + 1]
    BY DEF Next, Pass, Arrive, Notify, NotifyFailed, Realign, RejectOversized, Claim, Failure,
           Success, Stale, Crash, Restart
<1> QED BY <1>1, <1>2

(* CONTENT_FAILURE_REOPEN_ROUNDS and the oversized rejection: nothing else  *)
(* ever costs a memory, in particular no outage of the provider.            *)
THEOREM NoCauselessLoss == Spec => []GivenUpForCause
<1>1. Init => GivenUpForCause
    BY DEF Init, GivenUpForCause
<1>2. ASSUME InStep, GivenUpForCause, [Next]_vars PROVE GivenUpForCause'
    <2>0. given \subseteq Events /\ MaxTokens \in Nat /\ Rounds \in Nat
        BY <1>2, SoundTypes, MemoryAssumption
    <2>1. CASE UNCHANGED vars
        BY <1>2, <2>1 DEF vars, history, GivenUpForCause
    <2>2. ASSUME Next, NEW i \in given PROVE \E h \in 1..i : h..i \subseteq given /\ (fails'[h] > Rounds \/ Weight[h] > MaxTokens)
        <3>1. PICK h \in 1..i : h..i \subseteq given /\ (fails[h] > Rounds \/ Weight[h] > MaxTokens)
            BY <1>2 DEF GivenUpForCause
        <3>2. h \in Events
            BY <2>0, <2>2, <3>1 DEF Events
        <3>3. fails'[h] >= fails[h] /\ fails[h] \in Nat /\ fails'[h] \in Nat
            BY <1>2, <2>2, <3>2, FailuresGrow
        <3> QED BY <2>0, <3>1, <3>3
    <2>3. ASSUME Next, given \subseteq given', NEW i \in given
          PROVE  \E h \in 1..i : h..i \subseteq given' /\ (fails'[h] > Rounds \/ Weight[h] > MaxTokens)
        BY <2>2, <2>3
    <2>4. CASE Next /\ given' = given
        BY <2>2, <2>4 DEF GivenUpForCause
    <2>5. ASSUME Next, NEW g \in Ranges, Quarantine(g), UNCHANGED <<processed, stored>>,
                 fails'[g.start] > Rounds \/ Weight[g.start] > MaxTokens
          PROVE  GivenUpForCause'
        <3>1. given' = given \cup g.start..g.end /\ g.start \in Nat \ {0} /\ g.end \in Nat
            BY <1>2, <2>5, QuarantineMoves DEF InStep, Ranges, Events
        <3>2. ASSUME NEW i \in g.start..g.end
              PROVE  \E h \in 1..i : h..i \subseteq given' /\ (fails'[h] > Rounds \/ Weight[h] > MaxTokens)
            <4>1. g.start \in 1..i /\ g.start..i \subseteq g.start..g.end
                BY <3>1
            <4> QED BY <2>5, <3>1, <4>1
        <3> QED BY <2>3, <2>5, <3>1, <3>2 DEF GivenUpForCause
    <2>6. CASE Next
        <3>1. CASE given' = given
            BY <2>4, <2>6, <3>1
        <3>2. CASE \E w \in Worker : Success(w)
            BY <3>1, <3>2 DEF Success, history
        <3> QED BY <1>2, <2>5, <2>6, <3>1, <3>2, WhoGivesUp
    <2> QED BY <1>2, <2>1, <2>6
<1>3. InStep /\ GivenUpForCause /\ [Next]_vars => GivenUpForCause'
    BY <1>2
<1> QED BY <1>1, <1>3, SoundHolds, PTL DEF Spec

-----------------------------------------------------------------------------
(* Live claims. *)

(* A worker whose claim is live, on a whole session as it is now. *)
Undisturbed(w) ==
    /\ work[w] # NoWork
    /\ work[w].range = work[w].canonical
    /\ Matches(w) /\ clock < job.lease
    /\ Snapshot = work[w].canonical

(* The row is the claim itself, so it is not due, and not out of date. *)
LEMMA UndisturbedRow ==
    ASSUME InStep, NEW w \in Worker, Undisturbed(w)
    PROVE  /\ job.status = "claimed" /\ job.owner = w
           /\ ~Reclaimable
           /\ Snapshot = job.range
<1>1. job.status = "claimed" /\ job.owner = w /\ clock < job.lease
    BY DEF Undisturbed, Matches
<1>2. clock \in Nat /\ job.lease \in Nat
    BY MemoryAssumption DEF InStep, Typed, TypeOK, Job
<1>3. w # "dead"
    BY MemoryAssumption
<1>4. ~Reclaimable
    BY <1>1, <1>2, <1>3 DEF Reclaimable
<1>5. work[w].range = job.range
    BY <1>1 DEF Undisturbed, InStep, Holder
<1> QED BY <1>1, <1>4, <1>5 DEF Undisturbed

(* A worker that holds a claim works until it releases it. *)
LEMMA ReleasedOnly ==
    ASSUME InStep, NEW w \in Worker, work[w] # NoWork, Released(w)
    PROVE  work'[w] # work[w]
BY DEF Released, InStep, Typed

(* Whatever another does then, it does nothing to the row. *)
LEMMA RowLeftAlone ==
    ASSUME InStep, [Next]_vars, NEW w \in Worker, Undisturbed(w), work'[w] = work[w]
    PROVE  job' = job
<1>1. /\ job.status = "claimed" /\ job.owner = w
      /\ ~Reclaimable /\ Snapshot = job.range /\ work[w] # NoWork
    BY UndisturbedRow DEF Undisturbed
<1>2. CASE Notify \/ NotifyFailed
    BY <1>1, <1>2 DEF Notify, NotifyFailed
<1>3. ASSUME NEW v \in Worker, Realign(v) \/ RejectOversized(v) \/ Claim(v) PROVE job' = job
    BY <1>1, <1>3 DEF Realign, RejectOversized, Claim, Due
<1>4. ASSUME NEW v \in Worker, (\E why \in Category : Failure(v, why)) \/ Success(v)
      PROVE  job' = job
    <2>1. v = w
        BY <1>1, <1>4 DEF Failure, Success, Matches
    <2>2. Released(w)
        BY <1>4, <2>1 DEF Failure, Success
    <2> QED BY <1>1, <2>2, ReleasedOnly
<1>5. ASSUME NEW v \in Worker, Stale(v) PROVE job' = job
    BY <1>1, <1>5 DEF Stale, Refreshed
<1>6. ASSUME NEW v \in Worker, Crash(v) PROVE job' = job
    <2>1. CASE v = w
        BY <1>1, <1>6, <2>1, ReleasedOnly DEF Crash
    <2>2. CASE v # w
        BY <1>1, <1>6, <2>2 DEF Crash
    <2> QED BY <2>1, <2>2
<1>7. ASSUME NEW v \in Worker, Restart(v) PROVE job' = job
    BY <1>1, <1>7 DEF Restart, Unclaim, ReopenFailed, FirstJob
<1>8. CASE Pass \/ Arrive \/ UNCHANGED vars
    BY <1>8 DEF Pass, Arrive, vars
<1> QED BY <1>2, <1>3, <1>4, <1>5, <1>6, <1>7, <1>8 DEF Next

(* A live claim on a whole session is never overwritten: no late worker, no *)
(* worker that starts, no second claim and no turn that ends touches it.    *)
THEOREM ClaimsHold == Spec => ClaimRespected
<1>1. InStep /\ [Next]_vars => \A w \in Worker :
          /\ work[w] # NoWork /\ work'[w] = work[w]
          /\ work[w].range = work[w].canonical
          /\ Matches(w) /\ clock < job.lease /\ clock' < job.lease
          /\ Snapshot = work[w].canonical /\ received' = received
          => job' = job
    BY RowLeftAlone DEF Undisturbed
<1>2. InStep /\ [Next]_vars => [\A w \in Worker :
          /\ work[w] # NoWork /\ work'[w] = work[w]
          /\ work[w].range = work[w].canonical
          /\ Matches(w) /\ clock < job.lease /\ clock' < job.lease
          /\ Snapshot = work[w].canonical /\ received' = received
          => job' = job]_vars
    BY <1>1
<1> QED BY <1>2, SoundHolds, PTL DEF Spec, ClaimRespected

-----------------------------------------------------------------------------
(* What the worker stores: the timeline of Details, for any session.       *)

(* How a span is split. *)

LEMMA DetailsLimits ==
    /\ N \in Nat /\ N > 0 /\ Cap \in Nat /\ Cap > 0 /\ MaxDepth \in Nat
    /\ MaxDrafts \in Nat /\ MaxAttempts \in Nat
BY DetailsAssumption

LEMMA SpanFacts ==
    ASSUME NEW s \in Span
    PROVE  /\ s = [from |-> s.from, to |-> s.to]
           /\ s.from \in 1..N /\ s.to \in 1..N /\ s.from <= s.to
           /\ s.from \in Nat /\ s.to \in Nat
BY DetailsLimits DEF Span, Event

LEMMA HalvesFacts ==
    ASSUME NEW s \in Span, s.from # s.to
    PROVE  /\ First(s) \in Span /\ Second(s) \in Span
           /\ First(s).from = s.from /\ Second(s).to = s.to
           /\ Second(s).from = First(s).to + 1
<1> DEFINE a == s.from
           b == s.to
           m == s.from + (s.to - s.from + 1) \div 2
<1>1. /\ s = [from |-> a, to |-> b] /\ a \in 1..N /\ b \in 1..N /\ a <= b
      /\ a \in Nat /\ b \in Nat /\ a # b /\ N \in Nat
    BY SpanFacts, DetailsLimits
<1>2. First(s) = [from |-> a, to |-> m - 1] /\ Second(s) = [from |-> m, to |-> b]
    BY <1>1 DEF First, Second, Middle
<1>3. m \in Int /\ a + 1 <= m /\ m <= b
    BY <1>1
<1>4. a \in 1..N /\ m - 1 \in 1..N /\ m \in 1..N /\ b \in 1..N /\ a <= m - 1 /\ m <= b
    <2> HIDE DEF m, a, b
    <2> QED BY <1>1, <1>3
<1> HIDE DEF m, a, b
<1>5. First(s) \in Span /\ Second(s) \in Span
    BY <1>2, <1>4 DEF Span, Event
<1> QED BY <1>2, <1>3, <1>5 DEF a, b

(* Parts is the function its recursive definition says: up to any depth    *)
(* there is one such function, by induction on the depth.                  *)
Joined(A, B) == {a \cup b : a \in A, b \in B}
Stops(s, n) == s.from = s.to \/ n = 0 \/ ~Splits(s)
Grown(g, n) ==
    [s \in Span |->
        {{s}} \cup IF Stops(s, n) THEN {}
                   ELSE Joined(g[n - 1][First(s)], g[n - 1][Second(s)])]
Splitting(k, g) == g = [n \in 0..k |-> Grown(g, n)]

LEMMA SplittingAbove ==
    ASSUME NEW k \in Nat, NEW h, Splitting(k, h)
    PROVE  \E g : Splitting(k + 1, g)
<1> DEFINE g == [n \in 0..(k + 1) |-> IF n = k + 1 THEN Grown(h, n) ELSE h[n]]
<1>1. ASSUME NEW n \in 0..(k + 1)
      PROVE  Grown(g, n) = Grown(h, n)
    <2>1. CASE n = 0
        BY <2>1 DEF Grown, Stops
    <2>2. CASE n # 0
        <3>1. g[n - 1] = h[n - 1]
            BY <2>2
        <3> HIDE DEF g
        <3> QED BY <3>1 DEF Grown
    <2> QED BY <2>1, <2>2
<1>2. ASSUME NEW n \in 0..(k + 1)
      PROVE  g[n] = Grown(g, n)
    <2>1. CASE n = k + 1
        BY <1>1, <2>1
    <2>2. CASE n # k + 1
        <3>1. n \in 0..k
            BY <2>2
        <3>2. h[n] = Grown(h, n)
            BY <3>1 DEF Splitting
        <3> QED BY <1>1, <2>2, <3>2
    <2> QED BY <2>1, <2>2
<1>3. g = [n \in 0..(k + 1) |-> Grown(g, n)]
    BY <1>2
<1> QED BY <1>3 DEF Splitting

LEMMA SplittingExists ==
    ASSUME NEW k \in Nat
    PROVE  \E g : Splitting(k, g)
<1> DEFINE Bad == {j \in Nat : ~\E g : Splitting(j, g)}
<1>1. Bad = {}
    <2> SUFFICES ASSUME Bad # {} PROVE FALSE
        OBVIOUS
    <2>1. PICK j \in Bad : \A i \in Bad : ~(<<i, j>> \in OpToRel(<, Nat))
        BY WFMin, NatLessThanWellFounded
    <2>2. CASE j = 0
        <3> DEFINE g == [n \in 0..0 |-> [s \in Span |-> {{s}}]]
        <3>1. Grown(g, 0) = [s \in Span |-> {{s}}]
            BY DEF Grown, Stops
        <3>2. Splitting(0, g)
            <4>1. g = [n \in 0..0 |-> Grown(g, n)]
                BY <3>1
            <4> QED BY <4>1 DEF Splitting
        <3> QED BY <2>1, <2>2, <3>2
    <2>3. CASE j # 0
        <3>1. j \in Nat /\ j - 1 \in Nat /\ j - 1 < j /\ (j - 1) + 1 = j
            BY <2>3
        <3>2. j - 1 \notin Bad
            BY <2>1, <3>1 DEF OpToRel
        <3>3. PICK h : Splitting(j - 1, h)
            BY <3>1, <3>2
        <3>4. \E g : Splitting((j - 1) + 1, g)
            BY <3>1, <3>3, SplittingAbove
        <3> QED BY <2>1, <3>1, <3>4
    <2> QED BY <2>2, <2>3
<1> QED BY <1>1

LEMMA PartsUnfolds ==
    ASSUME NEW n \in 0..MaxDepth
    PROVE  Parts[n] = Grown(Parts, n)
<1>1. Parts = CHOOSE g : Splitting(MaxDepth, g)
    BY DEF Parts, Splitting, Grown, Stops, Joined
<1>2. Splitting(MaxDepth, Parts)
    BY <1>1, SplittingExists, DetailsLimits
<1> QED BY <1>2 DEF Splitting

(* P tiles s: spans inside s, one for every event of it. *)
TilesSpan(P, s) ==
    /\ P \subseteq Span
    /\ \A x \in P : s.from <= x.from /\ x.to <= s.to
    /\ \A e \in s.from..s.to : \E x \in P : e \in x.from..x.to
    /\ \A x, y \in P, e \in Nat : e \in x.from..x.to /\ e \in y.from..y.to => x = y

(* Two halves that are tiled make a whole that is. *)
LEMMA TilesJoin ==
    ASSUME NEW s \in Span, s.from # s.to,
           NEW A, TilesSpan(A, First(s)), NEW B, TilesSpan(B, Second(s))
    PROVE  TilesSpan(A \cup B, s)
<1> DEFINE f == First(s)
           g == Second(s)
<1>1. /\ f \in Span /\ g \in Span /\ f.from = s.from /\ g.to = s.to
      /\ g.from = f.to + 1
    BY HalvesFacts
<1>2. /\ s.from \in Nat /\ s.to \in Nat /\ f.from \in Nat /\ f.to \in Nat /\ g.from \in Nat
      /\ g.to \in Nat /\ f.from <= f.to /\ g.from <= g.to
    BY <1>1, SpanFacts
<1>3. TilesSpan(A, f) /\ TilesSpan(B, g)
    OBVIOUS
<1> HIDE DEF f, g
<1>4. A \cup B \subseteq Span
    BY <1>3 DEF TilesSpan
<1>5. \A x \in A \cup B : x.from \in Nat /\ x.to \in Nat
    BY <1>4, SpanFacts
<1>6. \A x \in A : f.from <= x.from /\ x.to <= f.to
    BY <1>3 DEF TilesSpan
<1>7. \A x \in B : g.from <= x.from /\ x.to <= g.to
    BY <1>3 DEF TilesSpan
<1>8. \A x \in A \cup B : s.from <= x.from /\ x.to <= s.to
    BY <1>1, <1>2, <1>5, <1>6, <1>7
<1>9. ASSUME NEW e \in s.from..s.to PROVE \E x \in A \cup B : e \in x.from..x.to
    <2>1. e \in f.from..f.to \/ e \in g.from..g.to
        BY <1>1, <1>2
    <2>2. CASE e \in f.from..f.to
        BY <1>3, <2>2 DEF TilesSpan
    <2>3. CASE e \in g.from..g.to
        BY <1>3, <2>3 DEF TilesSpan
    <2> QED BY <2>1, <2>2, <2>3
<1>10. ASSUME NEW x \in A \cup B, NEW y \in A \cup B, NEW e \in Nat,
              e \in x.from..x.to, e \in y.from..y.to
       PROVE  x = y
    <2>1. CASE x \in A /\ y \in A
        BY <1>3, <1>10, <2>1 DEF TilesSpan
    <2>2. CASE x \in B /\ y \in B
        BY <1>3, <1>10, <2>2 DEF TilesSpan
    <2>3. CASE x \in A /\ y \in B
        <3>1. x.to <= f.to /\ g.from <= y.from
            BY <1>6, <1>7, <2>3
        <3>2. e <= x.to /\ y.from <= e
            BY <1>5, <1>10
        <3> QED BY <1>1, <1>2, <1>5, <3>1, <3>2
    <2>4. CASE x \in B /\ y \in A
        <3>1. y.to <= f.to /\ g.from <= x.from
            BY <1>6, <1>7, <2>4
        <3>2. e <= y.to /\ x.from <= e
            BY <1>5, <1>10
        <3> QED BY <1>1, <1>2, <1>5, <3>1, <3>2
    <2> QED BY <2>1, <2>2, <2>3, <2>4
<1> QED BY <1>4, <1>8, <1>9, <1>10 DEF TilesSpan

(* However often it is split, a span is tiled by its parts. *)
LEMMA PartsTile ==
    ASSUME NEW s \in Span, NEW P \in Partitions[s]
    PROVE  TilesSpan(P, s)
<1> DEFINE Tiling(n) == \A x \in Span : \A Q \in Parts[n][x] : TilesSpan(Q, x)
           Bad == {n \in 0..MaxDepth : ~Tiling(n)}
<1>0. MaxDepth \in Nat
    BY DetailsLimits
<1>1. ASSUME NEW x \in Span PROVE TilesSpan({x}, x)
    BY <1>1, SpanFacts DEF TilesSpan
<1>2. Bad = {}
    <2> SUFFICES ASSUME Bad # {} PROVE FALSE
        OBVIOUS
    <2>1. Bad \subseteq Nat
        BY <1>0
    <2> HIDE DEF Tiling
    <2>2. PICK n \in Bad : \A i \in Bad : ~(<<i, n>> \in OpToRel(<, Nat))
        BY <2>1, WFMin, NatLessThanWellFounded
    <2>3. n \in 0..MaxDepth /\ n \in Nat /\ ~Tiling(n)
        BY <2>1, <2>2
    <2>4. n # 0 => n - 1 \in 0..MaxDepth /\ Tiling(n - 1)
        <3>1. n # 0 => n - 1 \in 0..MaxDepth /\ n - 1 \in Nat /\ n - 1 < n
            BY <1>0, <2>3
        <3> QED BY <2>1, <2>2, <2>3, <3>1 DEF OpToRel
    <2>5. ASSUME NEW x \in Span, NEW Q \in Parts[n][x] PROVE TilesSpan(Q, x)
        <3>1. Parts[n][x] = {{x}} \cup IF Stops(x, n) THEN {}
                  ELSE Joined(Parts[n - 1][First(x)], Parts[n - 1][Second(x)])
            BY <2>3, PartsUnfolds DEF Grown
        <3>2. CASE Q = {x}
            BY <1>1, <3>2
        <3>3. CASE Q # {x}
            <4>1. /\ ~Stops(x, n)
                  /\ Q \in Joined(Parts[n - 1][First(x)], Parts[n - 1][Second(x)])
                BY <2>5, <3>1, <3>3
            <4>2. x.from # x.to /\ n # 0
                BY <4>1 DEF Stops
            <4>3. PICK A \in Parts[n - 1][First(x)], B \in Parts[n - 1][Second(x)] :
                        Q = A \cup B
                BY <4>1 DEF Joined
            <4>4. First(x) \in Span /\ Second(x) \in Span
                BY <4>2, HalvesFacts
            <4>5. TilesSpan(A, First(x)) /\ TilesSpan(B, Second(x))
                BY <2>4, <4>2, <4>4 DEF Tiling
            <4> QED BY <4>2, <4>3, <4>5, TilesJoin
        <3> QED BY <3>2, <3>3
    <2> QED BY <2>3, <2>5 DEF Tiling
<1>3. Tiling(MaxDepth)
    BY <1>0, <1>2
<1> QED BY <1>3 DEF Partitions

-----------------------------------------------------------------------------
(* What is stored of a fragment. *)

Own(f) == {d \in details : d.fragment = f}
(* A numbered timeline of f. *)
IsTimeline(S, f) ==
    \E n \in 0..Cap :
        /\ {d.ordinal : d \in S} = 0..(n - 1)
        /\ \A d, e \in S : d.ordinal = e.ordinal => d = e
        /\ \A d \in S : d.fragment = f /\ d.source \in f.from..f.to

LEMMA KeyFacts ==
    ASSUME NEW x \in Span, NEW y \in Span
    PROVE  /\ Key(x).from = x.from /\ Key(x).to = x.to
           /\ Key(x) = Key(y) => x = y
BY DEF Key, Span

(* What the model is believed of a span: at most Cap details, each from    *)
(* one of its events or unsound.                                           *)
LEMMA ToldFacts ==
    ASSUME NEW x \in Span, NEW l \in Told[x], Sound(l)
    PROVE  \E n \in 0..Cap : l \in [1..n -> x.from..x.to]
<1> DEFINE S == (x.from..x.to) \cup {Unsound}
<1>0. Cap \in Nat /\ x.from \in Nat /\ x.to \in Nat
    BY DetailsLimits, SpanFacts
<1>1. PICK m \in Answers[x] : l = Cut(m)
    BY DEF Told
<1>2. m \in Lists(S)
    <2>1. Lists(x.from..x.to) \subseteq Lists(S)
        BY DEF Lists
    <2> QED BY <1>1, <2>1 DEF Answers, Extracted, Timelines, Of
<1>3. PICK k \in 0..MaxDrafts : m \in [1..k -> S]
    BY <1>2 DEF Lists
<1>4. m \in Seq(S) /\ Len(m) = k /\ k \in Nat
    <2>1. k \in Nat
        BY <1>3, DetailsLimits
    <2> QED BY <1>3, <2>1
<1> DEFINE n == IF Len(m) < Cap THEN Len(m) ELSE Cap
<1>5. n \in 0..Cap /\ n <= Len(m)
    BY <1>0, <1>4
<1>6. l = SubSeq(m, 1, n)
    BY <1>1 DEF Cut
<1> HIDE DEF S, n
<1>7. l \in [1..n -> S]
    <2>1. l = [i \in 1..n |-> m[i]]
        BY <1>4, <1>5, <1>6
    <2>2. \A i \in 1..n : m[i] \in S
        BY <1>3, <1>4, <1>5
    <2> QED BY <2>1, <2>2
<1>8. \A i \in 1..n : l[i] # Unsound
    BY <1>7 DEF Sound, Range
<1>9. l \in [1..n -> x.from..x.to]
    BY <1>7, <1>8 DEF S
<1> QED BY <1>5, <1>9

(* The rows of one span are a timeline of its fragment. *)
LEMMA RowsFacts ==
    ASSUME NEW x \in Span, NEW l \in Told[x], Sound(l)
    PROVE  IsTimeline(Rows(x, l), Key(x))
<1> DEFINE R == Rows(x, l)
           f == Key(x)
<1>1. PICK n \in 0..Cap : l \in [1..n -> x.from..x.to]
    BY ToldFacts
<1>2. R = {Row(f, i - 1, l[i]) : i \in 1..n}
    BY <1>1 DEF Rows
<1>3. n \in Nat
    BY <1>1, DetailsLimits
<1>4. f.from = x.from /\ f.to = x.to
    BY KeyFacts
<1> HIDE DEF R, f
<1>5. \A i \in 1..n : /\ Row(f, i - 1, l[i]).fragment = f
                      /\ Row(f, i - 1, l[i]).ordinal = i - 1
                      /\ Row(f, i - 1, l[i]).source = l[i]
    BY DEF Row
<1>6. {d.ordinal : d \in R} = 0..(n - 1)
    <2>1. \A d \in R : d.ordinal \in 0..(n - 1)
        BY <1>2, <1>3, <1>5
    <2>2. ASSUME NEW k \in 0..(n - 1) PROVE \E d \in R : d.ordinal = k
        <3>1. k + 1 \in 1..n /\ (k + 1) - 1 = k
            BY <1>3
        <3>2. Row(f, (k + 1) - 1, l[k + 1]) \in R
            BY <1>2, <3>1
        <3> QED BY <1>5, <3>1, <3>2
    <2> QED BY <2>1, <2>2
<1>7. \A d, e \in R : d.ordinal = e.ordinal => d = e
    <2> SUFFICES ASSUME NEW i \in 1..n, NEW j \in 1..n, i - 1 = j - 1
                 PROVE  Row(f, i - 1, l[i]) = Row(f, j - 1, l[j])
        BY <1>2, <1>5
    <2>1. i = j
        BY <1>3
    <2> QED BY <2>1
<1>8. \A d \in R : d.fragment = f /\ d.source \in f.from..f.to
    BY <1>1, <1>2, <1>4, <1>5
<1> QED BY <1>1, <1>6, <1>7, <1>8 DEF IsTimeline, R, f

(* Two timelines of a fragment that agree where both have a detail: one    *)
(* holds the other.                                                        *)
LEMMA Nested ==
    ASSUME NEW f, NEW S, NEW R, IsTimeline(S, f), IsTimeline(R, f),
           \A d \in S, r \in R : d.ordinal = r.ordinal => d = r
    PROVE  IsTimeline(S \cup R, f)
<1>1. PICK n \in 0..Cap : /\ {d.ordinal : d \in S} = 0..(n - 1)
                          /\ \A d, e \in S : d.ordinal = e.ordinal => d = e
                          /\ \A d \in S : d.fragment = f /\ d.source \in f.from..f.to
    BY DEF IsTimeline
<1>2. PICK m \in 0..Cap : /\ {d.ordinal : d \in R} = 0..(m - 1)
                          /\ \A d, e \in R : d.ordinal = e.ordinal => d = e
                          /\ \A d \in R : d.fragment = f /\ d.source \in f.from..f.to
    BY DEF IsTimeline
<1>3. n \in Nat /\ m \in Nat
    BY <1>1, <1>2, DetailsLimits
<1>4. CASE m <= n
    <2>1. ASSUME NEW r \in R PROVE r \in S
        <3>1. r.ordinal \in 0..(n - 1)
            BY <1>2, <1>3, <1>4
        <3>2. PICK d \in S : d.ordinal = r.ordinal
            BY <1>1, <3>1
        <3> QED BY <3>2
    <2>2. S \cup R = S
        BY <2>1
    <2> QED BY <2>2
<1>5. CASE n <= m
    <2>1. ASSUME NEW d \in S PROVE d \in R
        <3>1. d.ordinal \in 0..(m - 1)
            BY <1>1, <1>3, <1>5
        <3>2. PICK r \in R : r.ordinal = d.ordinal
            BY <1>2, <3>1
        <3> QED BY <3>2
    <2>2. S \cup R = R
        BY <2>1
    <2> QED BY <2>2
<1> QED BY <1>3, <1>4, <1>5

(* A timeline is numbered without a gap, and no longer than Cap. *)
LEMMA TimelineCounts ==
    ASSUME NEW f, NEW S, IsTimeline(S, f)
    PROVE  /\ {d.ordinal : d \in S} = 0..(Cardinality(S) - 1)
           /\ Cardinality(S) <= Cap
           /\ \A d \in S : d.source \in f.from..f.to
<1>1. PICK n \in 0..Cap : /\ {d.ordinal : d \in S} = 0..(n - 1)
                          /\ \A d, e \in S : d.ordinal = e.ordinal => d = e
                          /\ \A d \in S : d.fragment = f /\ d.source \in f.from..f.to
    BY DEF IsTimeline
<1>2. n \in Nat /\ n <= Cap
    BY <1>1, DetailsLimits
<1> DEFINE T == 0..(n - 1)
           g == [k \in T |-> CHOOSE d \in S : d.ordinal = k]
<1>3. g \in Bijection(T, S)
    <2>1. \A k \in T : g[k] \in S /\ g[k].ordinal = k
        BY <1>1
    <2>2. g \in [T -> S]
        BY <2>1
    <2>3. \A j, k \in T : g[j] = g[k] => j = k
        BY <2>1
    <2>4. ASSUME NEW d \in S PROVE \E k \in T : g[k] = d
        <3>1. d.ordinal \in T
            BY <1>1
        <3>2. g[d.ordinal] \in S /\ g[d.ordinal].ordinal = d.ordinal
            BY <2>1, <3>1
        <3> HIDE DEF g, T
        <3>3. g[d.ordinal] = d
            BY <1>1, <3>2
        <3> QED BY <3>1, <3>3
    <2> HIDE DEF g, T
    <2>5. g \in Injection(T, S)
        BY <2>2, <2>3 DEF Injection, IsInjective
    <2>6. g \in Surjection(T, S)
        BY <2>2, <2>4 DEF Surjection
    <2> QED BY <2>5, <2>6 DEF Bijection
<1>4. IsFiniteSet(T) /\ Cardinality(T) = n
    <2>1. 0 \in Int /\ n - 1 \in Int
        BY <1>2
    <2>2. /\ IsFiniteSet(T)
          /\ Cardinality(T) = IF 0 > n - 1 THEN 0 ELSE (n - 1) - 0 + 1
        BY <2>1, FS_Interval
    <2> QED BY <1>2, <2>2
<1>5. Cardinality(S) = n
    <2>1. ExistsBijection(T, S)
        BY <1>3 DEF ExistsBijection
    <2> QED BY <1>4, <2>1, FS_Bijection
<1> QED BY <1>1, <1>2, <1>5

(* Fragments cover events; every detail is on the timeline of one of them; *)
(* an open session has none.                                               *)
Stored ==
    /\ \A f \in fragments : f.from \in 1..N /\ f.to \in 1..N
    /\ \A d \in details : d.fragment \in fragments
    /\ \A f \in fragments : IsTimeline(Own(f), f)
    /\ status = "open" => fragments = {}

LEMMA WriteFacts ==
    ASSUME Stored, NEW s \in Span, Write(s)
    PROVE  /\ \E spans : /\ TilesSpan(spans, s)
                         /\ fragments' = fragments \cup {Key(x) : x \in spans}
           /\ \A f \in fragments' : f.from \in 1..N /\ f.to \in 1..N
           /\ \A d \in details' : d.fragment \in fragments'
           /\ \A f \in fragments' : IsTimeline(Own(f)', f)
<1>0. PICK spans \in Partitions[s] :
        \E told \in [spans -> {l \in UNION {Told[x] : x \in spans} : Sound(l)}] :
                /\ \A x \in spans : told[x] \in Told[x]
                /\ Storable(UNION {Rows(x, told[x]) : x \in spans})
                /\ fragments' = fragments \cup {Key(x) : x \in spans}
                /\ details' = details \cup UNION {Rows(x, told[x]) : x \in spans}
    BY DEF Write
<1>1. PICK told \in [spans -> {l \in UNION {Told[x] : x \in spans} : Sound(l)}] :
                /\ \A x \in spans : told[x] \in Told[x]
                /\ Storable(UNION {Rows(x, told[x]) : x \in spans})
                /\ fragments' = fragments \cup {Key(x) : x \in spans}
                /\ details' = details \cup UNION {Rows(x, told[x]) : x \in spans}
    BY <1>0
<1> DEFINE rows == UNION {Rows(x, told[x]) : x \in spans}
<1>2. TilesSpan(spans, s) /\ spans \subseteq Span
    <2>1. TilesSpan(spans, s)
        BY <1>0, PartsTile
    <2> QED BY <2>1 DEF TilesSpan
<1>3. \A x \in spans : IsTimeline(Rows(x, told[x]), Key(x))
    <2> SUFFICES ASSUME NEW x \in spans PROVE IsTimeline(Rows(x, told[x]), Key(x))
        OBVIOUS
    <2>1. told[x] \in Told[x] /\ Sound(told[x]) /\ x \in Span
        BY <1>1, <1>2
    <2> QED BY <2>1, RowsFacts
<1>4. \A x \in spans : \A r \in Rows(x, told[x]) : r.fragment = Key(x)
    BY <1>3 DEF IsTimeline
<1>5. \A f \in fragments' : f.from \in 1..N /\ f.to \in 1..N
    <2>1. \A x \in spans : Key(x).from \in 1..N /\ Key(x).to \in 1..N
        BY <1>2, SpanFacts, KeyFacts
    <2> QED BY <1>1, <2>1 DEF Stored
<1>6. \A d \in details' : d.fragment \in fragments'
    <2>1. \A r \in rows : \E x \in spans : r.fragment = Key(x)
        BY <1>4
    <2> QED BY <1>1, <2>1 DEF Stored
<1>7. ASSUME NEW f \in fragments' PROVE IsTimeline(Own(f)', f)
    <2>1. Own(f)' = Own(f) \cup {r \in rows : r.fragment = f}
        BY <1>1 DEF Own
    <2>2. IsTimeline(Own(f), f)
        <3>1. CASE f \in fragments
            BY <3>1 DEF Stored
        <3>2. CASE f \notin fragments
            <4>1. Own(f) = {}
                BY <3>2 DEF Own, Stored
            <4>2. 0 \in 0..Cap /\ 0..(0 - 1) = {}
                BY DetailsLimits
            <4>3. IsTimeline({}, f)
                BY <4>2 DEF IsTimeline
            <4> QED BY <4>1, <4>3
        <3> QED BY <3>1, <3>2
    <2>3. CASE \E x \in spans : Key(x) = f
        <3>1. PICK x \in spans : Key(x) = f
            BY <2>3
        <3> DEFINE R == Rows(x, told[x])
        <3>2. {r \in rows : r.fragment = f} = R
            <4>1. ASSUME NEW r \in rows, r.fragment = f PROVE r \in R
                <5>1. PICK y \in spans : r \in Rows(y, told[y])
                    OBVIOUS
                <5>2. Key(y) = Key(x)
                    BY <1>4, <3>1, <4>1, <5>1
                <5>3. y = x
                    BY <1>2, <5>2, KeyFacts
                <5> QED BY <5>1, <5>3
            <4>2. \A r \in R : r \in rows /\ r.fragment = f
                BY <1>4, <3>1
            <4> QED BY <4>1, <4>2
        <3>3. IsTimeline(R, f)
            BY <1>3, <3>1
        <3>4. \A d \in Own(f), r \in R : d.ordinal = r.ordinal => d = r
            <4>1. \A r \in R : r \in rows /\ r.fragment = f
                BY <1>4, <3>1
            <4>2. \A r \in rows, d \in details :
                        d.fragment = r.fragment /\ d.ordinal = r.ordinal => d = r
                BY <1>1 DEF Storable
            <4> HIDE DEF R, rows
            <4> QED BY <4>1, <4>2 DEF Own
        <3> HIDE DEF R, rows
        <3>5. IsTimeline(Own(f) \cup R, f)
            BY <2>2, <3>3, <3>4, Nested
        <3> QED BY <2>1, <3>2, <3>5
    <2>4. CASE ~\E x \in spans : Key(x) = f
        <3>1. {r \in rows : r.fragment = f} = {}
            BY <1>4, <2>4
        <3> HIDE DEF rows
        <3>2. Own(f)' = Own(f)
            BY <2>1, <3>1
        <3> QED BY <2>2, <3>2
    <2> QED BY <2>3, <2>4
<1> QED BY <1>1, <1>2, <1>5, <1>6, <1>7

(* The last event behind what is told of a fragment starts a span. *)
LEMMA TailFacts ==
    ASSUME Stored, NEW f \in fragments, TailOf(f) # {}
    PROVE  [from |-> CHOOSE e \in TailOf(f) : \A x \in TailOf(f) : e <= x,
            to |-> f.to] \in Span
<1> DEFINE T == TailOf(f)
<1>0. f.from \in 1..N /\ f.to \in 1..N /\ N \in Nat
    BY DetailsLimits DEF Stored
<1>1. T \subseteq f.from..f.to
    BY DEF TailOf
<1>2. T \subseteq Nat
    BY <1>0, <1>1
<1>3. T # {}
    OBVIOUS
<1> HIDE DEF T
<1>4. PICK m \in T : \A x \in T : ~(<<x, m>> \in OpToRel(<, Nat))
    BY <1>2, <1>3, WFMin, NatLessThanWellFounded
<1>5. \A x \in T : m <= x
    <2>1. \A x \in T : x \in Nat /\ m \in Nat /\ ~(x < m)
        BY <1>2, <1>4 DEF OpToRel
    <2> QED BY <2>1
<1> DEFINE c == CHOOSE e \in T : \A x \in T : e <= x
<1>6. c \in T
    BY <1>5
<1> HIDE DEF c
<1>7. c \in 1..N /\ c <= f.to
    BY <1>0, <1>1, <1>6
<1>8. [from |-> c, to |-> f.to] \in Span
    BY <1>0, <1>7 DEF Span, Event
<1> QED BY <1>8 DEF c, T

LEMMA InitStored == DetailInit => Stored
BY DEF DetailInit, Stored

LEMMA StoreMoves ==
    ASSUME Stored, NEW s \in Span, Write(s), status' # "open"
    PROVE  Stored'
<1>1. /\ \A f \in fragments' : f.from \in 1..N /\ f.to \in 1..N
      /\ \A d \in details' : d.fragment \in fragments'
      /\ \A f \in fragments' : IsTimeline(Own(f)', f)
    BY WriteFacts
<1> QED BY <1>1 DEF Stored

LEMMA NextStored ==
    ASSUME Stored, [DetailNext]_detailVars
    PROVE  Stored'
<1>1. CASE UNCHANGED <<fragments, details>> /\ (status' = "open" => status = "open")
    BY <1>1 DEF Stored, Own
<1>2. CASE Consolidate
    <2>1. Whole \in Span
        BY DetailsLimits DEF Whole, Span, Event
    <2>2. Write(Whole) /\ status' = "stored"
        BY <1>2 DEF Consolidate
    <2> QED BY <2>1, <2>2, StoreMoves
<1>3. CASE ExtractionFails \/ Refused
    <2>1. UNCHANGED <<fragments, details>> /\ status = "open"
        BY <1>3 DEF ExtractionFails, Refused, Failed
    <2> QED BY <1>1, <2>1
<1>4. CASE Hear
    BY <1>1, <1>4 DEF Hear
<1>5. ASSUME NEW s \in Span, RepairWindow(s) PROVE Stored'
    <2>1. Write(s) /\ status = "given up" /\ status' = status
        BY <1>5 DEF RepairWindow, Repair
    <2> QED BY <2>1, StoreMoves
<1>6. ASSUME NEW s \in Span, RepairHole(s) PROVE Stored'
    <2>1. Write(s) /\ status' = status /\ s.from..s.to \subseteq Spanned
        BY <1>6 DEF RepairHole, Repair, Holes
    <2>2. s.from \in s.from..s.to
        BY SpanFacts
    <2>3. fragments # {}
        BY <2>1, <2>2 DEF Spanned
    <2>4. status' # "open"
        BY <2>1, <2>3 DEF Stored
    <2> QED BY <2>1, <2>4, StoreMoves
<1>7. ASSUME NEW f \in fragments, RepairTail(f) PROVE Stored'
    <2> DEFINE s == [from |-> CHOOSE e \in TailOf(f) : \A x \in TailOf(f) : e <= x,
                     to |-> f.to]
    <2>1. TailOf(f) # {} /\ Repair(s)
        BY <1>7 DEF RepairTail
    <2>2. s \in Span
        BY <2>1, TailFacts
    <2> HIDE DEF s
    <2>3. Write(s) /\ status' = status /\ fragments # {}
        BY <2>1 DEF Repair
    <2>4. status' # "open"
        BY <2>3 DEF Stored
    <2> QED BY <2>2, <2>3, <2>4, StoreMoves
<1>8. CASE UNCHANGED detailVars
    BY <1>1, <1>8 DEF detailVars
<1> QED BY <1>2, <1>3, <1>4, <1>5, <1>6, <1>7, <1>8 DEF DetailNext

LEMMA StoredAlways ==
    DetailSpec => []Stored
<1> QED BY InitStored, NextStored, PTL DEF DetailSpec

(* The timeline of a fragment stays one: numbered without a gap, at most   *)
(* Cap long and told from its own events, whatever the model answers and   *)
(* however often a span is repaired.                                       *)
THEOREM TimelineStaysOne == DetailSpec => []OneTimeline
<1>1. ASSUME Stored PROVE OneTimeline
    <2>1. \A f \in fragments :
             /\ {d.ordinal : d \in Own(f)} = 0..(Cardinality(Own(f)) - 1)
             /\ Cardinality(Own(f)) <= Cap
             /\ \A d \in Own(f) : d.source \in f.from..f.to
        BY <1>1, TimelineCounts DEF Stored
    <2> QED BY <2>1 DEF OneTimeline, Own
<1> QED BY <1>1, StoredAlways, PTL

(* A session that is stored is stored whole, whatever the splits: its      *)
(* fragments leave no event out and take none twice.                       *)
THEOREM StoredWhole == DetailSpec => Tiles
<1>1. ASSUME Stored, [DetailNext]_detailVars, status = "open", status' = "stored", NEW e \in Event
      PROVE  Cardinality({f \in fragments' : e \in f.from..f.to}) = 1
    <2>1. Consolidate
        BY <1>1 DEF DetailNext, detailVars, ExtractionFails, Refused, Failed, Hear, RepairWindow,
                    RepairHole, RepairTail, Repair
    <2>2. Whole \in Span /\ Whole.from = 1 /\ Whole.to = N
        BY DetailsLimits DEF Whole, Span, Event
    <2>3. Write(Whole)
        BY <2>1 DEF Consolidate
    <2>4. PICK spans : /\ TilesSpan(spans, Whole)
                       /\ fragments' = fragments \cup {Key(x) : x \in spans}
        BY <1>1, <2>2, <2>3, WriteFacts
    <2>5. fragments' = {Key(x) : x \in spans} /\ spans \subseteq Span
        BY <1>1, <2>4 DEF Stored, TilesSpan
    <2>6. e \in 1..N /\ e \in Nat
        BY <1>1, DetailsLimits DEF Event
    <2>7. PICK x \in spans : e \in x.from..x.to
        BY <2>2, <2>4, <2>6 DEF TilesSpan
    <2>8. \A y \in spans : e \in y.from..y.to => y = x
        BY <2>4, <2>6, <2>7 DEF TilesSpan
    <2>9. \A y \in spans : Key(y).from = y.from /\ Key(y).to = y.to
        BY <2>5, KeyFacts
    <2>10. {f \in fragments' : e \in f.from..f.to} = {Key(x)}
        BY <2>5, <2>7, <2>8, <2>9
    <2>11. Cardinality({Key(x)}) = 1
        BY FS_Singleton
    <2> QED BY <2>10, <2>11
<1>2. ASSUME Stored, [DetailNext]_detailVars
      PROVE  [status = "open" /\ status' = "stored" =>
                \A e \in Event : Cardinality({f \in fragments' : e \in f.from..f.to}) = 1]_detailVars
    BY <1>1, <1>2
<1> QED BY <1>2, StoredAlways, PTL DEF DetailSpec, Tiles
=============================================================================

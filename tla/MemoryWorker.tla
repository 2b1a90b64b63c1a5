---------------------------- MODULE MemoryWorker ----------------------------
(***************************************************************************)
(* The durable consolidation job of one conversation (memory/worker.py).   *)
(*                                                                         *)
(* The events of the conversation that can become memory are numbered in   *)
(* their order; a session is a run of them without a pause of Gap.  One    *)
(* row holds the earliest unprocessed session.  A worker claims the row    *)
(* for a lease, calls the extractor outside any transaction and commits    *)
(* only if the claim and the evidence are still what they were.  The lease *)
(* lets others take the row: production builds the worker without a clock  *)
(* (runtime.py), so a result is dated with the time of its claim, however  *)
(* late it comes, and is refused only once the row has been taken.         *)
(*                                                                         *)
(* Time is counted in units; delays shorter than one unit are one unit.    *)
(***************************************************************************)
EXTENDS Naturals, Sequences, FiniteSetsExt

CONSTANTS
    Worker,       \* runtimes with a memory worker
    MaxEvents,    \* bound on events
    Weight,       \* [1..MaxEvents -> Nat]: the token estimate of an event
    MaxTokens,    \* max_fragment_tokens
    Gap,          \* SESSION_IDLE_MINUTES
    Lease,        \* lease_seconds
    Cooldown,     \* TERMINAL_REOPEN_COOLDOWN
    ParseDelay,   \* PARSE_RETRY_DELAY_SECONDS
    Delays,       \* NETWORK_RETRY_DELAYS_SECONDS
    Rounds,       \* CONTENT_FAILURE_REOPEN_ROUNDS
    MaxClock,     \* bound on time
    MaxCrashes    \* bound on runtimes dying

ASSUME MemoryAssumption ==
    /\ {"none", "dead"} \cap Worker = {}
    /\ {MaxEvents, MaxTokens, ParseDelay, Rounds, MaxClock, MaxCrashes} \subseteq Nat
    /\ {Gap, Lease, Cooldown} \subseteq Nat \ {0}
    /\ Weight \in [1..MaxEvents -> Nat]
    /\ Delays \in Seq(Nat)

VARIABLES
    clock,
    received,     \* received_at_utc of the events there are
    processed,    \* memory_worker:processed_sequence
    quarantined,  \* memory_worker:quarantined_sequence
    job,          \* the row of memory_session_jobs
    fails,        \* memory_job_events: content failures by first event
    work,         \* the claim each worker is extracting for
    up,           \* the workers that run
    stored,       \* how often the evidence of an event was stored
    given,        \* events inside a quarantined range
    spent,        \* content failures by range, since the provider last failed
                  \* it for good (history)
    crashes

cursors == <<processed, quarantined>>
history == <<given, spent>>
vars == <<clock, received, cursors, job, fails, work, up, stored, history, crashes>>

Events == 1..MaxEvents
Ranges == [start : Events, end : Events]
NoRange == [start |-> 0, end |-> 0]

NoJob == [status |-> "none", range |-> NoRange, owner |-> "none", lease |-> 0,
          retryAt |-> 0, attempts |-> 0, category |-> "none", updated |-> 0]
NoWork == [range |-> NoRange, canonical |-> NoRange, since |-> 0]

Category == {"content", "worker", "transient"}

Init ==
    /\ clock = 0
    /\ received = <<>>
    /\ processed = 0
    /\ quarantined = 0
    /\ job = NoJob
    /\ fails = [i \in Events |-> 0]
    /\ work = [w \in Worker |-> NoWork]
    /\ up = Worker
    /\ stored = [i \in Events |-> 0]
    /\ given = {}
    /\ spent = [r \in Ranges |-> 0]
    /\ crashes = 0

-----------------------------------------------------------------------------
(* Snapshots. *)

(* _snapshot_tx scans from the later of the two cursors. *)
Scanned == IF processed > quarantined THEN processed ELSE quarantined

Connected(i, j) == \A k \in i..j - 1 : received[k + 1] - received[k] < Gap

(* The earliest continuous session, or NoRange. *)
Session(from) ==
    IF from >= Len(received) THEN NoRange
    ELSE [start |-> from + 1,
          end |-> Max({j \in from + 1..Len(received) : Connected(from + 1, j)})]
Snapshot == Session(Scanned)

Tokens(i, j) == MapThenSumSet(LAMBDA k : Weight[k], i..j)
Oversized(r) == Weight[r.start] > MaxTokens

(* _bound_snapshot: the longest prefix within the token limit. *)
Bounded(r) ==
    [r EXCEPT !.end = Max({r.start} \cup {j \in r.start..r.end : Tokens(r.start, j) <= MaxTokens})]

(* anchor_received_at + SESSION_IDLE. *)
Deadline(r) == received[r.end] + Gap

(* _upsert_snapshot_tx: pending, with nothing left of earlier attempts.  (The *)
(* time of its last change is only ever read of a failed row.)              *)
Fresh(r) == [NoJob EXCEPT !.status = "pending", !.range = r]

-----------------------------------------------------------------------------
(* Claims and failures. *)

(* _claim_reclaimable: the lease is over or the owner's process is gone. *)
Reclaimable == clock >= job.lease \/ job.owner = "dead"

(* _claim_matches: token, owner and revision are those of the claim as long *)
(* as nobody has rewritten the row.  The lease is compared with finish_now, *)
(* in production the time of the claim: it never refuses a late result.    *)
MatchesForever(w) == job.status = "claimed"
Matches(w) == job.status = "claimed" /\ job.owner = w /\ work[w].since < job.lease

(* _retry_delay; 0 when the failure is terminal. *)
Delay(category, attempt) ==
    CASE category = "content" -> IF attempt = 1 THEN ParseDelay ELSE 0
      [] category = "transient" -> IF attempt <= Len(Delays) THEN Delays[attempt] ELSE 0
      [] OTHER -> 0

(* _failure_is_retryable_tx, with the failures counted so far. *)
RetryableOnce(category, count) == category = "transient"
Retryable(category, count) == category = "transient" \/ count <= Rounds

(* _quarantine_range_tx: the cursor only grows. *)
Quarantine(r) ==
    /\ quarantined' = IF r.end > quarantined THEN r.end ELSE quarantined
    /\ given' = given \cup r.start..r.end

(* The earliest session once a range is quarantined. *)
SessionBeyond(r) == Session(IF r.end > Scanned THEN r.end ELSE Scanned)

-----------------------------------------------------------------------------
Pass ==
    /\ clock < MaxClock
    /\ clock' = clock + 1
    /\ UNCHANGED <<received, cursors, job, fails, work, up, stored, history, crashes>>

Arrive ==
    /\ Len(received) < MaxEvents
    /\ received' = Append(received, clock)
    /\ UNCHANGED <<clock, cursors, job, fails, work, up, stored, history, crashes>>

(* notify_reliable_activity, at the end of every turn. *)
NotifyFailed ==
    /\ job.status = "failed"
    /\ IF Retryable(job.category, fails[job.range.start])
         THEN /\ Len(received) > job.range.end
              /\ Snapshot # NoRange
              /\ job' = Fresh(Snapshot)
              /\ UNCHANGED <<quarantined, given>>
         ELSE /\ Quarantine(job.range)
              /\ job' = IF SessionBeyond(job.range) \in {NoRange, job.range} THEN job
                        ELSE Fresh(SessionBeyond(job.range))
    /\ UNCHANGED <<clock, received, processed, fails, work, up, stored, spent, crashes>>

Notify ==
    /\ job.status # "failed"
    /\ Snapshot \notin {NoRange, job.range}
    /\ job' = Fresh(Snapshot)
    /\ UNCHANGED <<clock, received, cursors, fails, work, up, stored, history, crashes>>

(* The row a worker looks at: due, and not in the hands of another. *)
Due ==
    /\ job.status \in {"pending", "retry", "claimed"}
    /\ job.status = "claimed" => Reclaimable
    /\ job.status = "retry" => clock >= job.retryAt
    /\ clock >= Deadline(job.range)
    /\ Snapshot # NoRange

(* _claim_due, which does one of three things to a due row. *)
Realign(w) ==
    /\ w \in up /\ work[w] = NoWork
    /\ Due
    /\ job.range # Snapshot
    /\ job' = Fresh(Snapshot)
    /\ UNCHANGED <<clock, received, cursors, fails, work, up, stored, history, crashes>>

RejectOversized(w) ==
    /\ w \in up /\ work[w] = NoWork
    /\ Due
    /\ job.range = Snapshot
    /\ Oversized(Snapshot)
    /\ job' = [NoJob EXCEPT !.status = "failed", !.range = Snapshot, !.updated = clock,
                            !.attempts = job.attempts + 1, !.category = "oversized"]
    /\ fails' = [fails EXCEPT ![Snapshot.start] = @ + 1]
    /\ Quarantine(Snapshot)
    /\ UNCHANGED <<clock, received, processed, work, up, stored, spent, crashes>>

Claim(w) ==
    LET bounded == Bounded(Snapshot) IN
    /\ w \in up /\ work[w] = NoWork
    /\ Due
    /\ job.range = Snapshot
    /\ ~Oversized(Snapshot)
    /\ job' = [NoJob EXCEPT
                 !.status = "claimed", !.range = bounded, !.owner = w,
                 !.lease = clock + Lease,
                 !.attempts = IF bounded = Snapshot THEN job.attempts ELSE 0]
    /\ work' = [work EXCEPT ![w] = [range |-> bounded, canonical |-> Snapshot, since |-> clock]]
    /\ UNCHANGED <<clock, received, cursors, fails, up, stored, history, crashes>>

-----------------------------------------------------------------------------
(* The extractor returns. *)

(* _refresh_after_stale_claim: another worker's claim, a retry or a failure *)
(* is left alone.                                                          *)
RefreshedAlways == IF Snapshot # NoRange THEN Fresh(Snapshot) ELSE job
Refreshed ==
    IF Snapshot # NoRange /\ job.status \in {"none", "pending"} THEN Fresh(Snapshot) ELSE job

(* One retry in the round of the first claim and in each round granted      *)
(* after; the history counts no further than one beyond.                    *)
Budget == 2 * (Rounds + 1)

Released(w) == work' = [work EXCEPT ![w] = NoWork]

(* _finish_failure, dated like the match: a retry is due so long after the *)
(* claim, not after the answer.                                            *)
Failure(w, category) ==
    LET r == work[w].range
        attempts == job.attempts + 1
        delay == Delay(category, attempts)
        counted == delay = 0 /\ category # "transient"
    IN
    /\ work[w] # NoWork
    /\ Matches(w)
    /\ Released(w)
    /\ job' = [NoJob EXCEPT
                 !.status = IF delay = 0 THEN "failed" ELSE "retry",
                 !.range = job.range, !.attempts = attempts, !.category = category,
                 !.retryAt = IF delay = 0 THEN 0 ELSE work[w].since + delay,
                 !.updated = IF delay = 0 THEN work[w].since ELSE 0]
    /\ fails' = IF counted THEN [fails EXCEPT ![r.start] = @ + 1] ELSE fails
    /\ IF delay = 0 /\ ~Retryable(category, fails'[r.start])
         THEN Quarantine(r)
         ELSE UNCHANGED <<quarantined, given>>
    /\ spent' = CASE category = "content" -> [spent EXCEPT ![r] = Min({@ + 1, Budget + 1})]
                  [] category = "transient" /\ delay = 0 -> [spent EXCEPT ![r] = 0]
                  [] OTHER -> spent
    /\ UNCHANGED <<clock, received, processed, up, stored, crashes>>

(* _finish_success: evidence, memories, watermark, the row and the next    *)
(* session in one transaction.                                             *)
Success(w) ==
    LET r == work[w].range IN
    /\ work[w] # NoWork
    /\ Matches(w)
    /\ Snapshot = work[w].canonical
    /\ Released(w)
    /\ stored' = [i \in Events |-> IF i \in r.start..r.end THEN stored[i] + 1 ELSE stored[i]]
    /\ processed' = IF r.end > processed THEN r.end ELSE processed
    /\ job' = IF SessionBeyond(r) = NoRange THEN NoJob ELSE Fresh(SessionBeyond(r))
    /\ UNCHANGED <<clock, received, quarantined, fails, up, history, crashes>>

(* The claim or the evidence is not what it was: the result is dropped.    *)
Stale(w) ==
    /\ work[w] # NoWork
    /\ ~Matches(w) \/ Snapshot # work[w].canonical
    /\ Released(w)
    /\ job' = Refreshed
    /\ UNCHANGED <<clock, received, cursors, fails, up, stored, history, crashes>>

-----------------------------------------------------------------------------
(* The process dies in the middle of an extraction, or idle. *)
Crash(w) ==
    /\ w \in up
    /\ crashes < MaxCrashes
    /\ crashes' = crashes + 1
    /\ up' = up \ {w}
    /\ Released(w)
    /\ job' = IF job.owner = w THEN [job EXCEPT !.owner = "dead"] ELSE job
    /\ UNCHANGED <<clock, received, cursors, fails, stored, history>>

(* recover_pending, at startup. *)
Unclaim ==
    /\ job.status = "claimed"
    /\ job' = IF Reclaimable THEN [job EXCEPT !.status = "pending", !.owner = "none", !.lease = 0]
              ELSE job
    /\ UNCHANGED <<quarantined, given>>

ReopenFailed ==
    /\ job.status = "failed"
    /\ IF Retryable(job.category, fails[job.range.start])
         THEN /\ job' = IF /\ job.category # "transient" \/ clock >= job.updated + Cooldown
                           /\ Snapshot # NoRange
                          THEN Fresh(Snapshot) ELSE job
              /\ UNCHANGED <<quarantined, given>>
         ELSE /\ Quarantine(job.range)
              /\ job' = IF SessionBeyond(job.range) = NoRange THEN job
                        ELSE Fresh(SessionBeyond(job.range))

FirstJob ==
    /\ job.status = "none"
    /\ job' = IF Snapshot = NoRange THEN job ELSE Fresh(Snapshot)
    /\ UNCHANGED <<quarantined, given>>

Restart(w) ==
    /\ w \in Worker \ up
    /\ up' = up \cup {w}
    /\ \/ Unclaim
       \/ ReopenFailed
       \/ FirstJob
       \/ job.status \in {"pending", "retry"} /\ UNCHANGED <<job, quarantined, given>>
    /\ UNCHANGED <<clock, received, processed, fails, work, stored, spent, crashes>>

-----------------------------------------------------------------------------
Next ==
    \/ Pass
    \/ Arrive
    \/ Notify
    \/ NotifyFailed
    \/ \E w \in Worker :
          \/ Realign(w)
          \/ RejectOversized(w)
          \/ Claim(w)
          \/ \E category \in Category : Failure(w, category)
          \/ Success(w)
          \/ Stale(w)
          \/ Crash(w)
          \/ Restart(w)

Spec == Init /\ [][Next]_vars

-----------------------------------------------------------------------------
(* Properties. *)

(* Every variable has its type. *)
TypeOK ==
    /\ clock \in 0..MaxClock
    /\ received \in Seq(0..clock)
    /\ processed \in 0..MaxEvents
    /\ quarantined \in 0..MaxEvents
    /\ job.status \in {"none", "pending", "retry", "claimed", "failed"}
    /\ job.range \in Ranges \cup {NoRange}
    /\ job.owner \in Worker \cup {"none", "dead"}
    /\ job.category \in Category \cup {"none", "oversized"}
    /\ fails \in [Events -> Nat]
    /\ up \subseteq Worker
    /\ stored \in [Events -> Nat]
    /\ given \subseteq Events
    /\ crashes \in 0..MaxCrashes

(* No evidence is lost or recorded twice: behind the cursors every event    *)
(* was stored exactly once or given up as part of a quarantined range, and  *)
(* ahead of them none was touched, whoever claimed, crashed or came late.   *)
Accounted ==
    \A i \in Events :
        /\ i <= Scanned => stored[i] + (IF i \in given THEN 1 ELSE 0) = 1
        /\ i > Scanned => stored[i] = 0 /\ i \notin given

(* A range is given up only after the content rounds it was granted, or     *)
(* because its first event can never fit; a failing provider alone never    *)
(* costs a memory.                                                          *)
GivenUpForCause ==
    \A i \in given :
        \E h \in 1..i : h..i \subseteq given /\ (fails[h] > Rounds \/ Weight[h] > MaxTokens)

(* _refresh_after_stale_claim, "never overwrite it": while a live claim is  *)
(* on a whole session as it is now, nobody but its worker touches the row,  *)
(* neither a late worker, nor one that starts, nor a turn that ends.        *)
ClaimRespected ==
    [][\A w \in Worker :
          /\ work[w] # NoWork /\ work'[w] = work[w]
          /\ work[w].range = work[w].canonical
          /\ Matches(w) /\ clock < job.lease /\ clock' < job.lease
          /\ Snapshot = work[w].canonical /\ received' = received
          => job' = job]_vars

(* "Preserve its retry budget" (_job_matches_snapshot) and "at most so many *)
(* background calls per range" (CONTENT_FAILURE_REOPEN_ROUNDS): a range the *)
(* extractor cannot digest is not tried for ever.                           *)
RetryBudget == \A r \in Ranges : spent[r] <= Budget
=============================================================================

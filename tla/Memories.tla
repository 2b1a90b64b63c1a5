------------------------------ MODULE Memories ------------------------------
(***************************************************************************)
(* What Qichi remembers of her owner: the memory records, the evidence     *)
(* they rest on and the audit of every decision about them                 *)
(* (storage/memory_repository.py, domain/memory.py), as the consolidation  *)
(* of a session (memory/extractor.py, memory/worker.py) and the            *)
(* maintenance scripts change them.                                        *)
(*                                                                         *)
(* A consolidation is one transaction of the single writer: its items work *)
(* on a stage that is committed as a whole or dropped.  A maintenance      *)
(* script is a transaction of its own.  The clock counts transactions, so  *)
(* it separates any two of them.  An event is known by its role and by the *)
(* time of its session; its actor follows from the role.  Every memory is  *)
(* an explicit statement; one of another modality never becomes active.    *)
(***************************************************************************)
EXTENDS Integers, FiniteSets

CONSTANTS
    Id,           \* memory ids: hashes of what identifies a memory
    NoId,
    TypeOf,       \* the type of each memory
    Supersedes,   \* supersedes_id: what a correction corrects
    Until,        \* valid_until_utc
    Forever,      \* valid_until_utc IS NULL
    Alike,        \* pairs of preferences in almost the same words
    Grade,        \* assessments the model proposes
    Class,        \* privacy classes and recall policies it proposes
    Imported,     \* memories a backfill may bring from a staged database
    MaxItems,     \* bound on the items of a consolidation
    MaxLag,       \* bound on the age of the session consolidated
    MaxTime       \* bound on transactions

Certainty == {"unsupported", "ambiguous", "explicit", "confirmed", "unassessed"}
Scope == {"ongoing", "bounded", "historical", "unclassified"}
Reason == {"explicit_user_statement", "bilateral_agreement", "later_user_confirmation",
           "user_correction", "ambiguous_scope", "historical_event",
           "contradicted_by_user", "expired_or_completed", "legacy_manual_review",
           "unsupported_or_transient"}
Status == {"absent", "candidate", "active", "superseded", "rejected", "expired"}
Policy == {"daily_safe", "topic_only", "explicit_request_only"}
Privacy == {"ordinary", "intimate", "adult"}
Role == {"source", "proposal", "acceptance", "confirmation", "correction", "counterevidence"}
Time == 0..MaxTime

ASSUME MemoriesAssumption ==
    /\ NoId \notin Id
    /\ TypeOf \in [Id -> {"preference", "agreement", "correction", "episode", "self_expression"}]
    /\ Supersedes \in [Id -> Id \cup {NoId}]
    /\ \A i \in Id : Supersedes[i] # i /\ (Supersedes[i] # NoId <=> TypeOf[i] = "correction")
    /\ MaxTime \in Nat /\ MaxItems \in Nat /\ MaxLag \in Nat /\ Forever > MaxTime
    /\ Until \in [Id -> Time \cup {Forever}]
    /\ Grade \subseteq [certainty : Certainty \ {"unassessed"}, importance : 0..3,
                        scope : Scope, reason : Reason]
    /\ Class \subseteq [privacy : Privacy, policy : Policy]
    /\ \A c \in Class : c.privacy = "adult" => c.policy # "daily_safe"
    /\ Imported \subseteq Id

VARIABLES
    now,
    record,       \* memory_records, with memory_evidence
    audit,        \* memory_audit_events: an id is a hash of the content
    batch,        \* the consolidation under way
    stage,        \* what its transaction has written: records and audit
    removed,      \* each record as it was before it was last removed
    restored      \* memories a person has restored

ledger == <<record, audit>>
vars == <<now, record, audit, batch, stage, removed, restored>>

Evidence == [role : Role, at : Time]
Absent == [status |-> "absent", certainty |-> "unassessed", importance |-> 0,
           scope |-> "unclassified", reason |-> "legacy_manual_review", assessed |-> 0,
           privacy |-> "ordinary", policy |-> "daily_safe", evidence |-> {}]
Record == [status : Status, certainty : Certainty, importance : 0..3, scope : Scope,
           reason : Reason, assessed : Time, privacy : Privacy, policy : Policy,
           evidence : SUBSET Evidence]
NoBatch == [session |-> 0, items |-> {}, targets |-> {}, phase |-> "none"]

(* The columns an audit event keeps of a record. *)
Graded(r) == [status |-> r.status, certainty |-> r.certainty,
              importance |-> r.importance, scope |-> r.scope]
Audited(i, act, before, after, reason, at) ==
    [id |-> i, action |-> act, before |-> Graded(before), after |-> Graded(after),
     reason |-> reason, at |-> at]

Roles(evidence) == {e.role : e \in evidence}
Latest(evidence) == CHOOSE t \in Time :
    (\E e \in evidence : e.at = t) /\ \A e \in evidence : e.at <= t
From(roles, session) == [role : roles, at : {session}]

Init ==
    /\ now = 0
    /\ record = [i \in Id |-> Absent]
    /\ audit = {}
    /\ batch = NoBatch
    /\ stage = [record |-> record, audit |-> audit]
    /\ removed = record
    /\ restored = {}

-----------------------------------------------------------------------------
(* What counts: the activation matrix.                                     *)

(* _eligible_for_auto_activation, over the records rs of the transaction.  *)
Matrix(i, r, rs) ==
    CASE TypeOf[i] = "preference" -> r.scope \in {"ongoing", "bounded"}
      [] TypeOf[i] = "episode" -> r.scope = "historical"
      [] TypeOf[i] = "agreement" ->
           r.certainty = "confirmed" /\ {"proposal", "acceptance"} \subseteq Roles(r.evidence)
      [] TypeOf[i] = "correction" ->
           "correction" \in Roles(r.evidence) /\ rs[Supersedes[i]].status = "active"
      [] OTHER -> FALSE
EligibleContradicted(i, r, rs, t) ==
    /\ r.status = "candidate"
    /\ r.certainty \in {"explicit", "confirmed"}
    /\ r.importance >= 1
    /\ r.scope # "unclassified"
    /\ t <= Until[i]
    /\ Matrix(i, r, rs)
EligibleAnyTarget(i, r, rs, t) ==
    /\ r.status = "candidate"
    /\ r.certainty \in {"explicit", "confirmed"}
    /\ r.importance >= 1
    /\ r.scope # "unclassified"
    /\ t <= Until[i]
    /\ "counterevidence" \notin Roles(r.evidence)
    /\ TypeOf[i] = "correction" \/ Matrix(i, r, rs)
Eligible(i, r, rs, t) ==
    /\ r.status = "candidate"
    /\ r.certainty \in {"explicit", "confirmed"}
    /\ r.importance >= 1
    /\ r.scope # "unclassified"
    /\ t <= Until[i]
    /\ "counterevidence" \notin Roles(r.evidence)
    /\ Matrix(i, r, rs)

(* _activate_batch_candidate, _activate_with_audit: the record becomes     *)
(* active and, for a correction, what it corrects becomes superseded.      *)
Activated(i, s, reason, t) ==
    LET r == s.record[i]
        o == Supersedes[i]
        on == [r EXCEPT !.status = "active"]
        off == [s.record[o] EXCEPT !.status = "superseded"]
    IN IF o = NoId
         THEN [record |-> [s.record EXCEPT ![i] = on],
               audit |-> s.audit \cup {Audited(i, "activate", r, on, reason, t)}]
         ELSE [record |-> [s.record EXCEPT ![i] = on, ![o] = off],
               audit |-> s.audit \cup {Audited(i, "activate", r, on, reason, t),
                                       Audited(o, "supersede", s.record[o], off,
                                               "user_correction", t)}]
(* ValueError: "correction target is no longer active".                    *)
MayActivate(i, s) == Supersedes[i] # NoId => s.record[Supersedes[i]].status = "active"

(* _assessment_is_consistent. *)
Consistent(certainty, reason) ==
    CASE certainty = "unsupported" -> reason = "unsupported_or_transient"
      [] certainty = "ambiguous" -> reason = "ambiguous_scope"
      [] certainty = "explicit" ->
           reason \in {"explicit_user_statement", "user_correction", "historical_event"}
      [] certainty = "confirmed" ->
           reason \in {"later_user_confirmation", "bilateral_agreement", "user_correction"}

-----------------------------------------------------------------------------
(* The items of a response that memory/extractor.py lets through.          *)

(* _validate_candidate_evidence_shape. *)
CandidateRoles(type) ==
    CASE type \in {"preference", "episode"} -> {{"source"}, {"source", "confirmation"}}
      [] type = "agreement" -> {{"proposal", "acceptance"}}
      [] type = "correction" -> {{"correction"}}
      [] type = "self_expression" -> {{"source"}}
(* _parse_candidate and the constructor of MemoryRecord. *)
Candidate(i) ==
    {[grade |-> g, class |-> c, roles |-> rs] :
        g \in {h \in Grade : h.scope = "bounded" => Until[i] # Forever},
        c \in Class, rs \in CandidateRoles(TypeOf[i])}

SupportRoles(reason) ==
    CASE reason \in {"explicit_user_statement", "historical_event"} -> {"source"}
      [] reason = "bilateral_agreement" -> {"proposal", "acceptance"}
      [] reason = "user_correction" -> {"correction"}
      [] reason = "ambiguous_scope" -> {"source", "proposal", "acceptance"}
      [] OTHER -> {}
SupportCertainty(reason) ==
    CASE reason \in {"explicit_user_statement", "historical_event"} -> {"explicit"}
      [] reason = "bilateral_agreement" -> {"confirmed"}
      [] reason = "user_correction" -> Certainty
      [] OTHER -> {"ambiguous"}
(* _validate_review_shape. *)
ShapeOfReview(v) ==
    CASE v.action = "confirm" ->
           /\ v.grade.certainty = "confirmed"
           /\ v.grade.reason = "later_user_confirmation"
           /\ v.roles = {"confirmation"}
      [] v.action = "reject" ->
           /\ v.grade.certainty = "unsupported"
           /\ v.grade.importance = 0
           /\ v.grade.scope = "unclassified"
           /\ v.grade.reason = "contradicted_by_user"
           /\ v.roles = {"counterevidence"}
      [] v.action = "expire" ->
           /\ v.grade.certainty = "unsupported"
           /\ v.grade.importance = 0
           /\ v.grade.reason = "expired_or_completed"
           /\ v.roles = {"counterevidence"}
      [] v.action = "support" ->
           /\ SupportRoles(v.grade.reason) # {}
           /\ v.grade.certainty \in SupportCertainty(v.grade.reason)
           /\ v.roles \subseteq SupportRoles(v.grade.reason)
Review ==
    {v \in [action : {"support", "confirm", "reject", "expire"}, grade : Grade,
            class : Class, roles : {{r} : r \in Role}] : ShapeOfReview(v)}

-----------------------------------------------------------------------------
(* Consolidation: filter_applicable_reviews_in_transaction and             *)
(* apply_consolidation_in_transaction inside _finish_success.              *)

Consolidate(session) ==
    /\ batch = NoBatch
    /\ now < MaxTime
    /\ batch' = [NoBatch EXCEPT !.session = session, !.phase = "candidates"]
    /\ stage' = [record |-> record, audit |-> audit]
    /\ UNCHANGED <<now, ledger, removed, restored>>

(* An exception rolls the savepoint and the transaction back; the job is   *)
(* tried again later.                                                      *)
Raised ==
    /\ batch' = NoBatch
    /\ stage' = [record |-> record, audit |-> audit]
    /\ now' = now + 1

Room == Cardinality(batch.items) < MaxItems
Took(i) == batch' = [batch EXCEPT !.items = @ \cup {i}]

(* _prepare_batch_candidate. *)
Prepared(i, c) ==
    /\ Consistent(c.grade.certainty, c.grade.reason)
    /\ TypeOf[i] # "agreement" => "confirmation" \notin c.roles
    /\ TypeOf[i] = "correction" =>
         /\ record[Supersedes[i]].status = "active"
         /\ Supersedes[i] \notin batch.targets

(* _is_restated_preference. *)
Restated(i, c) ==
    /\ TypeOf[i] = "preference"
    /\ \E j \in Id \ {i} :
         /\ {i, j} \in Alike
         /\ stage.record[j].status \in {"active", "candidate"}
         /\ stage.record[j].privacy = c.class.privacy
         /\ stage.record[j].policy = c.class.policy

Fresh(c, evidence, t) ==
    [status |-> "candidate", certainty |-> c.grade.certainty,
     importance |-> c.grade.importance, scope |-> c.grade.scope,
     reason |-> c.grade.reason, assessed |-> t, privacy |-> c.class.privacy,
     policy |-> c.class.policy, evidence |-> evidence]

(* _create_batch_candidate, then the activation matrix. *)
TakeCandidate(i, c) ==
    LET cited == From(c.roles, batch.session)
        old == stage.record[i]
        new == Fresh(c, cited, now)
        s == IF old.status # "absent" THEN stage
             ELSE [record |-> [stage.record EXCEPT ![i] = new],
                   audit |-> stage.audit \cup {Audited(i, "create", Absent, new, new.reason, now)}]
    IN
    /\ batch.phase = "candidates"
    /\ Room
    /\ i \notin batch.items
    /\ IF \/ ~Prepared(i, c)
          \/ ~Restated(i, c) /\ old.status # "absent" /\ ~(cited \subseteq old.evidence)
         THEN Raised
         ELSE /\ batch' = [batch EXCEPT !.items = @ \cup {i},
                                        !.targets = @ \cup ({Supersedes[i]} \ {NoId})]
              /\ stage' = IF Restated(i, c) THEN stage
                          ELSE IF Eligible(i, s.record[i], s.record, now)
                          THEN Activated(i, s, s.record[i].reason, now) ELSE s
              /\ UNCHANGED now
    /\ UNCHANGED <<ledger, removed, restored>>

TurnToReviews ==
    /\ batch.phase = "candidates"
    /\ batch' = [batch EXCEPT !.phase = "reviews"]
    /\ UNCHANGED <<now, ledger, stage, removed, restored>>

(* allowed_review_actions: a review that can never apply is dropped. *)
Applicable(i, v) ==
    /\ TypeOf[i] # "self_expression"
    /\ record[i].status \in {"candidate", "active"}
    /\ v.action = "support" => record[i].status = "candidate"

(* _validate_review, against the records before the batch. *)
Validated(i, v) ==
    /\ v.grade.scope = "bounded" => Until[i] # Forever
    /\ v.action # "support" => batch.session > Latest(record[i].evidence)
    /\ v.action = "support" =>
         /\ Consistent(v.grade.certainty, v.grade.reason)
         /\ "acceptance" \in v.roles => v.grade.reason = "bilateral_agreement"

(* The class only falls when the review says more than the default. *)
KeptClass(r, c) ==
    IF r.privacy # "ordinary" /\ c.privacy = "ordinary" /\ c.policy = "daily_safe"
      THEN [privacy |-> r.privacy, policy |-> r.policy] ELSE c

Reviewed(r, v, session, t) ==
    [r EXCEPT
        !.status = CASE v.action = "reject" -> "rejected"
                     [] v.action = "expire" -> "expired"
                     [] OTHER -> @,
        !.certainty = v.grade.certainty, !.importance = v.grade.importance,
        !.scope = v.grade.scope, !.reason = v.grade.reason, !.assessed = t,
        !.privacy = KeptClass(r, v.class).privacy, !.policy = KeptClass(r, v.class).policy,
        !.evidence = @ \cup From(v.roles, session)]

(* _apply_review. *)
TakeReview(i, v) ==
    LET r == stage.record[i]
        new == Reviewed(r, v, batch.session, now)
        s == [record |-> [stage.record EXCEPT ![i] = new],
              audit |-> stage.audit \cup {Audited(i, v.action, r, new, new.reason, now)}]
    IN
    /\ batch.phase = "reviews"
    /\ Room
    /\ i \notin batch.items
    /\ Applicable(i, v)
    /\ IF \/ ~Validated(i, v)
          \/ i \in batch.targets
          \/ r.status \notin {"candidate", "active"}
         THEN Raised /\ UNCHANGED removed
         ELSE /\ Took(i)
              /\ stage' = IF Eligible(i, new, s.record, now)
                            THEN Activated(i, s, new.reason, now) ELSE s
              /\ UNCHANGED <<now, removed>>
    /\ UNCHANGED <<ledger, restored>>

Gone == {"rejected", "expired"}

Commit ==
    /\ batch.phase = "reviews"
    /\ record' = stage.record
    /\ audit' = stage.audit
    /\ removed' = [i \in Id |-> IF stage.record[i].status \in Gone /\ record[i].status \notin Gone
                                  THEN record[i] ELSE removed[i]]
    /\ batch' = NoBatch
    /\ now' = now + 1
    /\ UNCHANGED <<stage, restored>>

-----------------------------------------------------------------------------
(* Maintenance: each script is one transaction outside a consolidation.    *)

Maintains(rec, aud) ==
    /\ batch = NoBatch
    /\ now < MaxTime
    /\ record' = rec
    /\ audit' = aud
    /\ stage' = [record |-> rec, audit |-> aud]
    /\ now' = now + 1
    /\ UNCHANGED batch

(* scripts/backfill_memory_records.py: a record of a staged database, with *)
(* its evidence and without audit; what is there already is not touched.   *)
Backfill(i, status, c) ==
    /\ i \in Imported
    /\ record[i].status = "absent"
    /\ Supersedes[i] # NoId => record[Supersedes[i]].status # "absent"
    /\ LET new == [Fresh(c, From(c.roles, now), now) EXCEPT !.status = status]
       IN Maintains([record EXCEPT ![i] = new], audit)
    /\ UNCHANGED <<removed, restored>>

(* scripts/apply_privacy_review.py: only records still on the defaults.    *)
ReviewPrivacy(i, c) ==
    /\ record[i].status # "absent"
    /\ record[i].privacy = "ordinary" /\ record[i].policy = "daily_safe"
    /\ c.privacy # "ordinary"
    /\ Maintains([record EXCEPT ![i].privacy = c.privacy, ![i].policy = c.policy], audit)
    /\ UNCHANGED <<removed, restored>>

(* activate, reject and expire of the repository: changes of status alone, *)
(* on record at the time of the assessment they leave as it is.            *)
ByHand(i, act, status) ==
    LET r == record[i]
        new == [r EXCEPT !.status = status]
    IN Maintains([record EXCEPT ![i] = new],
                 audit \cup {Audited(i, act, r, new, "legacy_manual_review", r.assessed)})

Activate(i) ==
    /\ record[i].status = "candidate"
    /\ TypeOf[i] = "self_expression" \/ Eligible(i, record[i], record, record[i].assessed)
    /\ MayActivate(i, [record |-> record])
    /\ LET s == Activated(i, [record |-> record, audit |-> audit],
                          "legacy_manual_review", record[i].assessed)
       IN Maintains(s.record, s.audit)
    /\ UNCHANGED <<removed, restored>>
Reject(i) ==
    /\ record[i].status = "candidate"
    /\ ByHand(i, "reject", "rejected")
    /\ removed' = [removed EXCEPT ![i] = record[i]]
    /\ UNCHANGED restored
Expire(i) ==
    /\ record[i].status \in {"candidate", "active"}
    /\ ByHand(i, "expire", "expired")
    /\ removed' = [removed EXCEPT ![i] = record[i]]
    /\ UNCHANGED restored

(* restore (scripts/memory_restore.py): the grading of the last removal's  *)
(* before_* columns, the reason the status was given by.  Audit ids are    *)
(* hashes, so events of one time come in any order.                        *)
LastOf(events) == {e \in events : \A d \in events : d.at <= e.at}
Removals(i) == LastOf({e \in audit : e.id = i /\ e.action \in {"reject", "expire"}})
Grounds(i, x) ==
    LastOf({e \in audit : e.id = i /\ e.after.status = x.before.status /\ e.at <= x.at})
RestoredStatusOnly(i, x, y) ==
    [record[i] EXCEPT !.status = x.before.status, !.reason = y.reason, !.assessed = now]
Restored(i, x, y) ==
    [record[i] EXCEPT
        !.status = x.before.status, !.certainty = x.before.certainty,
        !.importance = x.before.importance, !.scope = x.before.scope,
        !.reason = y.reason, !.assessed = now]
Restore(i, x, y) ==
    LET new == Restored(i, x, y) IN
    /\ record[i].status \in Gone
    /\ x \in Removals(i)
    /\ y \in Grounds(i, x)
    /\ x.before.scope = "bounded" => Until[i] # Forever
    /\ Maintains([record EXCEPT ![i] = new],
                 audit \cup {Audited(i, "restore", record[i], new, y.reason, now)})
    /\ restored' = restored \cup {i}
    /\ UNCHANGED removed

-----------------------------------------------------------------------------
Next ==
    \/ \E s \in {t \in Time : t <= now /\ t >= now - MaxLag} : Consolidate(s)
    \/ \E i \in Id : \E c \in Candidate(i) : TakeCandidate(i, c)
    \/ TurnToReviews
    \/ \E i \in Id : \E v \in Review : TakeReview(i, v)
    \/ Commit
    \/ \E i \in Id : \E c \in Candidate(i), st \in {"active", "candidate"} : Backfill(i, st, c)
    \/ \E i \in Id : \E c \in Class : ReviewPrivacy(i, c)
    \/ \E i \in Id : Activate(i) \/ Reject(i) \/ Expire(i)
    \/ \E i \in Id : \E x, y \in audit : Restore(i, x, y)

Spec == Init /\ [][Next]_vars
-----------------------------------------------------------------------------
(* Properties. *)

(* Whether a decision on record made memory i active. *)
EverActivated(i) == \E e \in audit : e.id = i /\ e.action = "activate"

(* A memory has one successor: once a correction of it was activated, by a  *)
(* consolidation or by hand, it stays superseded and no other correction of *)
(* it is ever activated, whatever is rejected, restored or supported later  *)
(* (memory_repository.py, _activate_batch_candidate).                       *)
OneSuccessor ==
    \A c \in Id : Supersedes[c] # NoId /\ EverActivated(c) =>
        /\ record[Supersedes[c]].status = "superseded"
        /\ \A d \in Id \ {c} : Supersedes[d] = Supersedes[c] => ~EverActivated(d)

(* A memory the owner contradicted becomes active again only by the hand of *)
(* a person, never by what a later consolidation makes of its evidence.     *)
ContradictedStaysOut ==
    [][\A i \in Id :
          /\ record[i].status # "active" /\ record'[i].status = "active"
          /\ "counterevidence" \in Roles(record'[i].evidence)
          => record[i].status \in Gone /\ i \in restored']_vars

Returns(i) == record[i].status \in Gone /\ record'[i].status \notin Gone

(* A restored memory is graded as it was before it was removed, also after  *)
(* it was removed, restored and removed again.                              *)
RestoresGrading ==
    [][\A i \in Id : Returns(i) => Graded(record'[i]) = Graded(removed[i])]_vars
=============================================================================

--------------------------- MODULE MemoriesProofs ---------------------------
(***************************************************************************)
(* Theorems about Memories, for any memories, corrections, assessments,    *)
(* consolidations and maintenance.                                         *)
(***************************************************************************)
EXTENDS Memories, TLAPS

Grading == [status : Status, certainty : Certainty, importance : 0..3, scope : Scope]
Acts == {"create", "activate", "supersede", "support", "confirm", "reject", "expire", "restore"}
Audit == [id : Id, action : Acts, before : Grading, after : Grading, reason : Reason, at : Time]

(* What holds of records and audit, committed or on the stage: their types, *)
(* that a self expression never got a counterevidence, and one successor.  *)
Ever(aud, i) == \E e \in aud : e.id = i /\ e.action = "activate"
Succeeded(rec, aud) ==
    \A c \in Id : Supersedes[c] # NoId /\ Ever(aud, c) =>
        /\ rec[Supersedes[c]].status = "superseded"
        /\ \A d \in Id \ {c} : Supersedes[d] = Supersedes[c] => ~Ever(aud, d)
Unreviewed(rec) ==
    \A i \in Id : TypeOf[i] = "self_expression" => "counterevidence" \notin Roles(rec[i].evidence)
Good(rec, aud) ==
    /\ rec \in [Id -> Record]
    /\ aud \subseteq Audit
    /\ Succeeded(rec, aud)
    /\ Unreviewed(rec)

Batches == [session : Time, items : SUBSET Id, targets : SUBSET Id,
            phase : {"none", "candidates", "reviews"}]
Clocked ==
    /\ now \in Time
    /\ batch \in Batches
    /\ batch # NoBatch => now < MaxTime

(* Outside a consolidation the stage is what is committed. *)
Apart == batch.phase = "none" => batch = NoBatch /\ stage.record = record /\ stage.audit = audit

Base == Clocked /\ Apart /\ Good(record, audit) /\ Good(stage.record, stage.audit)

-----------------------------------------------------------------------------
(* Records and audit events. *)

LEMMA GradedTyped ==
    ASSUME NEW r \in Record
    PROVE  Graded(r) \in Grading
BY DEF Graded, Grading, Record

LEMMA AuditedTyped ==
    ASSUME NEW i \in Id, NEW act \in Acts, NEW before \in Record, NEW after \in Record,
           NEW reason \in Reason, NEW at \in Time
    PROVE  /\ Audited(i, act, before, after, reason, at) \in Audit
           /\ Audited(i, act, before, after, reason, at).id = i
           /\ Audited(i, act, before, after, reason, at).action = act
           /\ Audited(i, act, before, after, reason, at).before = Graded(before)
           /\ Audited(i, act, before, after, reason, at).at = at
BY GradedTyped DEF Audited, Audit

LEMMA StatusTyped ==
    ASSUME NEW r \in Record, NEW st \in Status
    PROVE  /\ [r EXCEPT !.status = st] \in Record
           /\ [r EXCEPT !.status = st].status = st
           /\ [r EXCEPT !.status = st].evidence = r.evidence
           /\ [r EXCEPT !.status = st].assessed = r.assessed
BY DEF Record

LEMMA AbsentTyped ==
    /\ Absent \in Record /\ Absent.status = "absent" /\ Roles(Absent.evidence) = {}
    /\ Absent.assessed = 0
BY MemoriesAssumption DEF Absent, Record, Status, Certainty, Scope, Reason, Privacy, Policy, Time, Roles

(* What a candidate of the extractor becomes. *)
LEMMA FreshTyped ==
    ASSUME NEW i \in Id, NEW c \in Candidate(i), NEW s \in Time, NEW t \in Time
    PROVE  /\ Fresh(c, From(c.roles, s), t) \in Record
           /\ Fresh(c, From(c.roles, s), t).status = "candidate"
           /\ Fresh(c, From(c.roles, s), t).assessed = t
           /\ "counterevidence" \notin Roles(Fresh(c, From(c.roles, s), t).evidence)
<1>1. PICK g \in Grade, d \in Class, rs \in CandidateRoles(TypeOf[i]) :
          c = [grade |-> g, class |-> d, roles |-> rs]
    BY DEF Candidate
<1>2. TypeOf[i] \in {"preference", "agreement", "correction", "episode", "self_expression"}
    BY MemoriesAssumption
<1>3. rs \subseteq Role /\ "counterevidence" \notin rs
    BY <1>2 DEF CandidateRoles, Role
<1>4. /\ g.certainty \in Certainty /\ g.importance \in 0..3 /\ g.scope \in Scope /\ g.reason \in Reason
      /\ d.privacy \in Privacy /\ d.policy \in Policy
    BY MemoriesAssumption
<1>5. From(rs, s) \in SUBSET Evidence /\ Roles(From(rs, s)) \subseteq rs
    BY <1>3 DEF From, Evidence, Roles
<1>6. Fresh(c, From(c.roles, s), t) =
        [status |-> "candidate", certainty |-> g.certainty, importance |-> g.importance,
         scope |-> g.scope, reason |-> g.reason, assessed |-> t, privacy |-> d.privacy,
         policy |-> d.policy, evidence |-> From(rs, s)]
    BY <1>1 DEF Fresh
<1>7. "candidate" \in Status
    BY DEF Status
<1> QED BY <1>3, <1>4, <1>5, <1>6, <1>7 DEF Record

LEMMA ReviewTyped ==
    ASSUME NEW v \in Review
    PROVE  /\ v.action \in {"support", "confirm", "reject", "expire"}
           /\ v.grade \in Grade /\ v.class \in Class /\ v.roles \subseteq Role
           /\ v.action \in {"support", "confirm"} => "counterevidence" \notin v.roles
<1>1. /\ v.action \in {"support", "confirm", "reject", "expire"} /\ v.grade \in Grade
      /\ v.class \in Class /\ v.roles \in {{r} : r \in Role} /\ ShapeOfReview(v)
    BY DEF Review
<1>2. v.roles \subseteq Role
    BY <1>1
<1>3. CASE v.action = "confirm"
    BY <1>1, <1>2, <1>3 DEF ShapeOfReview
<1>4. CASE v.action = "support"
    <2>1. v.roles \subseteq SupportRoles(v.grade.reason)
        BY <1>1, <1>4 DEF ShapeOfReview
    <2>2. "counterevidence" \notin SupportRoles(v.grade.reason)
        BY DEF SupportRoles
    <2> QED BY <1>1, <1>2, <2>1, <2>2
<1> QED BY <1>1, <1>2, <1>3, <1>4

LEMMA ReviewedTyped ==
    ASSUME NEW r \in Record, NEW v \in Review, NEW s \in Time, NEW t \in Time
    PROVE  LET n == Reviewed(r, v, s, t) IN
           /\ n \in Record
           /\ n.assessed = t
           /\ n.status = CASE v.action = "reject" -> "rejected"
                           [] v.action = "expire" -> "expired"
                           [] OTHER -> r.status
           /\ Roles(n.evidence) \subseteq Roles(r.evidence) \cup v.roles
<1> DEFINE st == CASE v.action = "reject" -> "rejected"
                   [] v.action = "expire" -> "expired"
                   [] OTHER -> r.status
           k == KeptClass(r, v.class)
           ev == r.evidence \cup From(v.roles, s)
<1>1. st \in Status
    BY ReviewTyped DEF Record, Status
<1>2. /\ v.grade.certainty \in Certainty /\ v.grade.importance \in 0..3
      /\ v.grade.scope \in Scope /\ v.grade.reason \in Reason
      /\ v.class.privacy \in Privacy /\ v.class.policy \in Policy
    BY ReviewTyped, MemoriesAssumption
<1>3. k.privacy \in Privacy /\ k.policy \in Policy
    BY <1>2 DEF KeptClass, Record
<1>4. ev \in SUBSET Evidence /\ Roles(ev) \subseteq Roles(r.evidence) \cup v.roles
    BY ReviewTyped DEF Record, From, Evidence, Roles
<1>5. PICK n : n = Reviewed(r, v, s, t)
    OBVIOUS
<1>6. n = [status |-> st, certainty |-> v.grade.certainty, importance |-> v.grade.importance,
           scope |-> v.grade.scope, reason |-> v.grade.reason, assessed |-> t,
           privacy |-> k.privacy, policy |-> k.policy, evidence |-> ev]
    BY <1>5 DEF Reviewed, Record
<1> HIDE DEF k, ev, st
<1>7. n \in Record
    BY <1>1, <1>2, <1>3, <1>4, <1>6 DEF Record
<1>8. n.assessed = t /\ n.status = st /\ n.evidence = ev
    BY <1>6
<1> QED BY <1>4, <1>5, <1>7, <1>8 DEF st

-----------------------------------------------------------------------------
(* One successor, kept by every change of a record or of two.              *)

LEMMA EverKept ==
    ASSUME NEW aud, NEW more, \A e \in more : e.action # "activate"
    PROVE  \A i : Ever(aud \cup more, i) <=> Ever(aud, i)
BY DEF Ever

(* A record is created, graded or given another status. *)
LEMMA ReplaceGood ==
    ASSUME NEW rec, NEW aud, Good(rec, aud), NEW i \in Id, NEW new \in Record,
           rec[i].status = "superseded" => new.status = "superseded",
           TypeOf[i] = "self_expression" => "counterevidence" \notin Roles(new.evidence),
           NEW more, more \subseteq Audit, \A e \in more : e.action # "activate"
    PROVE  Good([rec EXCEPT ![i] = new], aud \cup more)
<1> DEFINE then == [rec EXCEPT ![i] = new]
<1>1. then \in [Id -> Record] /\ then[i] = new /\ \A j \in Id : j # i => then[j] = rec[j]
    BY DEF Good
<1>2. aud \cup more \subseteq Audit
    BY DEF Good
<1>3. \A j \in Id : rec[j].status = "superseded" => then[j].status = "superseded"
    BY <1>1
<1>4. Unreviewed(then)
    BY <1>1 DEF Good, Unreviewed
<1> HIDE DEF then
<1>5. Succeeded(then, aud \cup more)
    <2>1. \A c : Ever(aud \cup more, c) <=> Ever(aud, c)
        BY EverKept
    <2>2. \A c \in Id : Supersedes[c] # NoId => Supersedes[c] \in Id
        BY MemoriesAssumption
    <2>3. Succeeded(rec, aud)
        BY DEF Good
    <2>4. ASSUME NEW c \in Id, Supersedes[c] # NoId, Ever(aud \cup more, c)
          PROVE  /\ then[Supersedes[c]].status = "superseded"
                 /\ \A d \in Id \ {c} : Supersedes[d] = Supersedes[c] => ~Ever(aud \cup more, d)
        BY <1>3, <2>1, <2>2, <2>3, <2>4 DEF Succeeded
    <2> QED BY <2>4 DEF Succeeded
<1> QED BY <1>1, <1>2, <1>4, <1>5 DEF Good, then

(* A candidate becomes active, and what it corrects superseded. *)
LEMMA ActivateGood ==
    ASSUME NEW s, Good(s.record, s.audit), NEW i \in Id, NEW reason \in Reason, NEW t \in Time,
           s.record[i].status = "candidate",
           Supersedes[i] # NoId => s.record[Supersedes[i]].status = "active"
    PROVE  Good(Activated(i, s, reason, t).record, Activated(i, s, reason, t).audit)
<1> DEFINE o == Supersedes[i]
           r == s.record[i]
           on == [r EXCEPT !.status = "active"]
           off == [s.record[o] EXCEPT !.status = "superseded"]
           a == Audited(i, "activate", r, on, reason, t)
           b == Audited(o, "supersede", s.record[o], off, "user_correction", t)
<1>1. r \in Record /\ s.record \in [Id -> Record] /\ s.audit \subseteq Audit
    BY DEF Good
<1>2. {"active", "superseded"} \subseteq Status /\ "user_correction" \in Reason
    BY DEF Status, Reason
<1>3. on \in Record /\ on.status = "active" /\ on.evidence = r.evidence
    BY <1>1, <1>2, StatusTyped
<1>4. a \in Audit /\ a.id = i /\ a.action = "activate"
    <2>1. "activate" \in Acts
        BY DEF Acts
    <2> HIDE DEF on, r
    <2> QED BY <1>1, <1>3, <2>1, AuditedTyped
<1>5. CASE o = NoId
    <2>1. Activated(i, s, reason, t) =
            [record |-> [s.record EXCEPT ![i] = on], audit |-> s.audit \cup {a}]
        BY <1>5 DEF Activated
    <2> DEFINE rec == [s.record EXCEPT ![i] = on]
               aud == s.audit \cup {a}
    <2>2. rec \in [Id -> Record] /\ rec[i] = on /\ \A j \in Id : j # i => rec[j] = s.record[j]
        BY <1>1, <1>3
    <2>3. aud \subseteq Audit
        BY <1>1, <1>4
    <2>4. Unreviewed(rec)
        BY <1>3, <2>2 DEF Good, Unreviewed
    <2>5. \A c \in Id : c # i => (Ever(aud, c) <=> Ever(s.audit, c))
        BY <1>4 DEF Ever
    <2> HIDE DEF a, on, r
    <2>6. ASSUME NEW c \in Id, Supersedes[c] # NoId, Ever(aud, c)
          PROVE  /\ rec[Supersedes[c]].status = "superseded"
                 /\ \A d \in Id \ {c} : Supersedes[d] = Supersedes[c] => ~Ever(aud, d)
        <3>1. c # i /\ Supersedes[c] \in Id
            BY <1>5, <2>6, MemoriesAssumption
        <3>2. s.record[Supersedes[c]].status = "superseded"
              /\ \A d \in Id \ {c} : Supersedes[d] = Supersedes[c] => ~Ever(s.audit, d)
            BY <2>5, <2>6, <3>1 DEF Good, Succeeded
        <3>3. Supersedes[c] # i
            BY <3>2 DEF r
        <3>4. \A d \in Id : Supersedes[d] = Supersedes[c] => d # i
            BY <1>5, <2>6
        <3> QED BY <2>2, <2>5, <3>1, <3>2, <3>3, <3>4
    <2>7. Succeeded(rec, aud)
        BY <2>6 DEF Succeeded
    <2> QED BY <2>1, <2>2, <2>3, <2>4, <2>7 DEF Good
<1>6. CASE o # NoId
    <2>1. Activated(i, s, reason, t) =
            [record |-> [s.record EXCEPT ![i] = on, ![o] = off], audit |-> s.audit \cup {a, b}]
        BY <1>6 DEF Activated
    <2>2. o \in Id /\ o # i /\ s.record[o].status = "active"
        BY <1>6, MemoriesAssumption
    <2>3. off \in Record /\ off.status = "superseded" /\ off.evidence = s.record[o].evidence
        BY <1>1, <1>2, <2>2, StatusTyped
    <2>4. b \in Audit /\ b.action = "supersede"
        <3>1. "supersede" \in Acts /\ s.record[o] \in Record
            BY <1>1, <2>2 DEF Acts
        <3> HIDE DEF on, off, r
        <3> QED BY <1>2, <2>2, <2>3, <3>1, AuditedTyped
    <2> DEFINE rec == [s.record EXCEPT ![i] = on, ![o] = off]
               aud == s.audit \cup {a, b}
    <2>5. /\ rec \in [Id -> Record] /\ rec[i] = on /\ rec[o] = off
          /\ \A j \in Id : j # i /\ j # o => rec[j] = s.record[j]
        BY <1>1, <1>3, <2>2, <2>3
    <2>6. aud \subseteq Audit
        BY <1>1, <1>4, <2>4
    <2>7. Unreviewed(rec)
        BY <1>3, <2>2, <2>3, <2>5 DEF Good, Unreviewed
    <2>8. \A c \in Id : c # i => (Ever(aud, c) <=> Ever(s.audit, c))
        BY <1>4, <2>4 DEF Ever
    <2> HIDE DEF a, b, on, r, off
    <2>9. ASSUME NEW c \in Id, Supersedes[c] # NoId, Ever(aud, c)
          PROVE  /\ rec[Supersedes[c]].status = "superseded"
                 /\ \A d \in Id \ {c} : Supersedes[d] = Supersedes[c] => ~Ever(aud, d)
        <3>1. CASE c = i
            <4>1. rec[o].status = "superseded"
                BY <2>3, <2>5
            <4>2. ASSUME NEW d \in Id \ {c}, Supersedes[d] = o PROVE ~Ever(aud, d)
                BY <1>6, <2>2, <2>8, <3>1, <4>2 DEF Good, Succeeded
            <4> QED BY <3>1, <4>1, <4>2
        <3>2. CASE c # i
            <4>1. s.record[Supersedes[c]].status = "superseded"
                  /\ \A d \in Id \ {c} : Supersedes[d] = Supersedes[c] => ~Ever(s.audit, d)
                BY <2>8, <2>9, <3>2 DEF Good, Succeeded
            <4>2. Supersedes[c] \in Id /\ Supersedes[c] # i /\ Supersedes[c] # o
                BY <2>2, <2>9, <4>1, MemoriesAssumption DEF r
            <4> QED BY <2>5, <2>8, <4>1, <4>2
        <3> QED BY <3>1, <3>2
    <2>10. Succeeded(rec, aud)
        BY <2>9 DEF Succeeded
    <2> QED BY <2>1, <2>5, <2>6, <2>7, <2>10 DEF Good
<1> QED BY <1>5, <1>6

(* What the matrix lets through may be activated: it is a candidate nobody  *)
(* contradicted, and what it corrects is active.                            *)
LEMMA EligibleFacts ==
    ASSUME NEW i \in Id, NEW r, NEW rs, NEW t, Eligible(i, r, rs, t)
    PROVE  /\ r.status = "candidate" /\ "counterevidence" \notin Roles(r.evidence)
           /\ Supersedes[i] # NoId => rs[Supersedes[i]].status = "active"
<1>1. Supersedes[i] # NoId => TypeOf[i] = "correction"
    BY MemoriesAssumption
<1> QED BY <1>1 DEF Eligible, Matrix

-----------------------------------------------------------------------------
(* The items of a consolidation. *)

(* What activation changes: two statuses and the audit. *)
LEMMA ActivatedIs ==
    ASSUME NEW s, s.record \in [Id -> Record], NEW i \in Id, NEW reason, NEW t,
           s.record[i].status = "candidate",
           Supersedes[i] # NoId => s.record[Supersedes[i]].status = "active"
    PROVE  LET w == Activated(i, s, reason, t) IN
           /\ w.record[i] = [s.record[i] EXCEPT !.status = "active"]
           /\ \A j \in Id : j # i =>
                \/ w.record[j] = s.record[j]
                \/ /\ s.record[j].status = "active"
                   /\ w.record[j] = [s.record[j] EXCEPT !.status = "superseded"]
           /\ s.audit \subseteq w.audit
           /\ \A e \in w.audit :
                e \in s.audit \/ (e.action \in {"activate", "supersede"} /\ e.at = t)
<1> DEFINE o == Supersedes[i]
           on == [s.record[i] EXCEPT !.status = "active"]
           off == [s.record[o] EXCEPT !.status = "superseded"]
           a == Audited(i, "activate", s.record[i], on, reason, t)
           b == Audited(o, "supersede", s.record[o], off, "user_correction", t)
<1>1. /\ a.action = "activate" /\ a.at = t
      /\ b.action = "supersede" /\ b.at = t
    BY DEF Audited
<1>2. CASE o = NoId
    <2>1. Activated(i, s, reason, t) =
            [record |-> [s.record EXCEPT ![i] = on], audit |-> s.audit \cup {a}]
        BY <1>2 DEF Activated
    <2> HIDE DEF on, a
    <2> QED BY <1>1, <2>1 DEF on
<1>3. CASE o # NoId
    <2>1. Activated(i, s, reason, t) =
            [record |-> [s.record EXCEPT ![i] = on, ![o] = off], audit |-> s.audit \cup {a, b}]
        BY <1>3 DEF Activated
    <2>2. o \in Id /\ o # i /\ s.record[o].status = "active"
        BY <1>3, MemoriesAssumption
    <2> HIDE DEF on, off, a, b, o
    <2>3. LET w == Activated(i, s, reason, t) IN
          /\ w.record[i] = on /\ w.record[o] = off
          /\ \A j \in Id : j # i /\ j # o => w.record[j] = s.record[j]
          /\ w.audit = s.audit \cup {a, b}
        BY <2>1, <2>2
    <2>4. \A j \in Id : j # i => j = o \/ j # o
        OBVIOUS
    <2> QED BY <1>1, <2>2, <2>3, <2>4 DEF on, off
<1> QED BY <1>2, <1>3

(* The stage before a candidate is activated: unchanged, or with a record   *)
(* that was absent.                                                        *)
Created(i, c, s) ==
    \/ s = stage
    \/ /\ stage.record[i].status = "absent"
       /\ s.record = [stage.record EXCEPT ![i] = Fresh(c, From(c.roles, batch.session), now)]
       /\ \E e \in Audit : /\ e.id = i /\ e.action = "create" /\ e.at = now
                           /\ s.audit = stage.audit \cup {e}

ActivatedOrNot(i, s) ==
    \/ stage' = s
    \/ /\ Eligible(i, s.record[i], s.record, now)
       /\ \E reason \in Reason : stage' = Activated(i, s, reason, now)

LEMMA BatchTyped ==
    ASSUME Base
    PROVE  /\ batch \in Batches /\ batch.session \in Time /\ now \in Time /\ now \in Nat
           /\ record \in [Id -> Record] /\ stage.record \in [Id -> Record]
           /\ audit \subseteq Audit /\ stage.audit \subseteq Audit
BY DEF Base, Clocked, Batches, Good, Time

LEMMA TakenCandidate ==
    ASSUME Base, NEW i \in Id, NEW c \in Candidate(i), TakeCandidate(i, c)
    PROVE  /\ batch.phase = "candidates" /\ i \notin batch.items
           /\ UNCHANGED <<ledger, removed, restored>>
           /\ \/ Raised
              \/ /\ now' = now
                 /\ batch' = [batch EXCEPT !.items = @ \cup {i},
                                           !.targets = @ \cup ({Supersedes[i]} \ {NoId})]
                 /\ \/ stage' = stage
                    \/ \E s : Created(i, c, s) /\ Good(s.record, s.audit) /\ ActivatedOrNot(i, s)
<1> DEFINE old == stage.record[i]
           new == Fresh(c, From(c.roles, batch.session), now)
           e == Audited(i, "create", Absent, new, new.reason, now)
           made == [record |-> [stage.record EXCEPT ![i] = new], audit |-> stage.audit \cup {e}]
           s == IF old.status # "absent" THEN stage ELSE made
<1>1. /\ new \in Record /\ new.status = "candidate" /\ "counterevidence" \notin Roles(new.evidence)
    BY BatchTyped, FreshTyped
<1>2. e \in Audit /\ e.id = i /\ e.action = "create" /\ e.at = now
    <2>1. new.reason \in Reason /\ "create" \in Acts
        BY <1>1 DEF Record, Acts
    <2> HIDE DEF new
    <2> QED BY <1>1, <2>1, AbsentTyped, BatchTyped, AuditedTyped
<1>4. Created(i, c, s) /\ Good(s.record, s.audit)
    <2>1. CASE old.status # "absent"
        BY <2>1 DEF Created, Base
    <2>2. CASE old.status = "absent"
        <3> HIDE DEF new, e
        <3>1. s = made /\ s.record = [stage.record EXCEPT ![i] = new] /\ s.audit = stage.audit \cup {e}
            BY <2>2
        <3>2. Good([stage.record EXCEPT ![i] = new], stage.audit \cup {e})
            BY <1>1, <1>2, <2>2, ReplaceGood DEF Base
        <3> QED BY <1>2, <2>2, <3>1, <3>2 DEF Created, new
    <2> QED BY <2>1, <2>2
<1>5. s.record[i].reason \in Reason
    BY <1>4 DEF Good, Record
<1>6. \/ Raised
      \/ /\ now' = now
         /\ batch' = [batch EXCEPT !.items = @ \cup {i},
                                   !.targets = @ \cup ({Supersedes[i]} \ {NoId})]
         /\ \/ stage' = stage
            \/ stage' = s
            \/ Eligible(i, s.record[i], s.record, now)
               /\ stage' = Activated(i, s, s.record[i].reason, now)
    BY DEF TakeCandidate
<1>7. batch.phase = "candidates" /\ i \notin batch.items /\ UNCHANGED <<ledger, removed, restored>>
    BY DEF TakeCandidate
<1> HIDE DEF s
<1> QED BY <1>4, <1>5, <1>6, <1>7 DEF ActivatedOrNot

LEMMA TakenReview ==
    ASSUME Base, NEW i \in Id, NEW v \in Review, TakeReview(i, v)
    PROVE  /\ batch.phase = "reviews" /\ i \notin batch.items
           /\ UNCHANGED <<ledger, removed, restored>>
           /\ record[i].status \in {"candidate", "active"} /\ TypeOf[i] # "self_expression"
           /\ \/ Raised
              \/ /\ now' = now
                 /\ batch' = [batch EXCEPT !.items = @ \cup {i}]
                 /\ stage.record[i].status \in {"candidate", "active"}
                 /\ i \notin batch.targets
                 /\ \E s : LET r == stage.record[i]
                               new == Reviewed(r, v, batch.session, now) IN
                      /\ s.record = [stage.record EXCEPT ![i] = new]
                      /\ \E e \in Audit :
                            /\ e.id = i /\ e.action = v.action /\ e.before = Graded(r) /\ e.at = now
                            /\ s.audit = stage.audit \cup {e}
                      /\ Good(s.record, s.audit) /\ ActivatedOrNot(i, s)
<1> DEFINE r == stage.record[i]
           new == Reviewed(r, v, batch.session, now)
           e == Audited(i, v.action, r, new, new.reason, now)
           s == [record |-> [stage.record EXCEPT ![i] = new], audit |-> stage.audit \cup {e}]
<1>1. /\ batch.phase = "reviews" /\ i \notin batch.items /\ UNCHANGED <<ledger, removed, restored>>
      /\ record[i].status \in {"candidate", "active"} /\ TypeOf[i] # "self_expression"
    BY DEF TakeReview, Applicable, Raised, ledger
<1>2. r \in Record /\ batch.session \in Time /\ now \in Time
    BY BatchTyped
<1>3. new \in Record /\ Roles(new.evidence) \subseteq Roles(r.evidence) \cup v.roles
      /\ new.status = CASE v.action = "reject" -> "rejected"
                        [] v.action = "expire" -> "expired"
                        [] OTHER -> r.status
    BY <1>2, ReviewedTyped
<1>4. v.action \in {"support", "confirm", "reject", "expire"} /\ v.action \in Acts
    BY ReviewTyped DEF Acts
<1>5. new.reason \in Reason
    BY <1>3 DEF Record
<1>6. e \in Audit /\ e.id = i /\ e.action = v.action /\ e.before = Graded(r) /\ e.at = now
    <2> HIDE DEF new, r
    <2> QED BY <1>2, <1>3, <1>4, <1>5, AuditedTyped
<1>7. \/ Raised
      \/ /\ now' = now /\ batch' = [batch EXCEPT !.items = @ \cup {i}]
         /\ r.status \in {"candidate", "active"}
         /\ i \notin batch.targets
         /\ \/ stage' = s
            \/ Eligible(i, new, s.record, now) /\ stage' = Activated(i, s, new.reason, now)
    BY DEF TakeReview, Took
<1>8. ASSUME r.status \in {"candidate", "active"} PROVE Good(s.record, s.audit)
    <2> HIDE DEF new, e
    <2>1. s.record = [stage.record EXCEPT ![i] = new] /\ s.audit = stage.audit \cup {e}
        OBVIOUS
    <2>2. Good([stage.record EXCEPT ![i] = new], stage.audit \cup {e})
        BY <1>1, <1>3, <1>4, <1>6, <1>8, ReplaceGood DEF Base
    <2> QED BY <2>1, <2>2
<1>9. s.record[i] = new /\ s.record = [stage.record EXCEPT ![i] = new] /\ s.audit = stage.audit \cup {e}
    BY BatchTyped
<1> HIDE DEF s, e
<1>10. ASSUME stage' = s \/ (Eligible(i, new, s.record, now) /\ stage' = Activated(i, s, new.reason, now))
       PROVE  ActivatedOrNot(i, s)
    BY <1>5, <1>9, <1>10 DEF ActivatedOrNot
<1> HIDE DEF new
<1>11. CASE Raised
    BY <1>1, <1>11
<1>12. CASE ~Raised
    BY <1>1, <1>6, <1>7, <1>8, <1>9, <1>10, <1>12 DEF new
<1> QED BY <1>11, <1>12

LEMMA ActivatedGood ==
    ASSUME Base, NEW i \in Id, NEW s, Good(s.record, s.audit), ActivatedOrNot(i, s)
    PROVE  Good(stage.record, stage.audit)'
<1>1. CASE stage' = s
    BY <1>1
<1>2. CASE Eligible(i, s.record[i], s.record, now)
           /\ \E reason \in Reason : stage' = Activated(i, s, reason, now)
    <2>1. PICK reason \in Reason : stage' = Activated(i, s, reason, now)
        BY <1>2
    <2>2. s.record[i].status = "candidate"
          /\ (Supersedes[i] # NoId => s.record[Supersedes[i]].status = "active")
        BY <1>2, EligibleFacts
    <2>3. Good(Activated(i, s, reason, now).record, Activated(i, s, reason, now).audit)
        BY <2>2, ActivateGood, BatchTyped
    <2> QED BY <2>1, <2>3
<1> QED BY <1>1, <1>2 DEF ActivatedOrNot

-----------------------------------------------------------------------------
(* The steps. *)

LEMMA RaisedBase ==
    ASSUME Base, batch.phase # "none", Raised, UNCHANGED ledger
    PROVE  Base'
<1>1. now + 1 \in Time
    BY MemoriesAssumption DEF Base, Clocked, NoBatch, Time
<1>2. NoBatch \in Batches /\ NoBatch.phase = "none"
    BY MemoriesAssumption DEF NoBatch, Batches, Time
<1>3. record' = record /\ audit' = audit /\ stage'.record = record /\ stage'.audit = audit
      /\ now' = now + 1 /\ batch' = NoBatch
    BY DEF Raised, ledger
<1> QED BY <1>1, <1>2, <1>3 DEF Base, Clocked, Apart

LEMMA CandidateBase ==
    ASSUME Base, NEW i \in Id, NEW c \in Candidate(i), TakeCandidate(i, c)
    PROVE  Base'
<1>1. batch.phase = "candidates" /\ record' = record /\ audit' = audit
    BY TakenCandidate DEF ledger
<1>2. CASE Raised
    BY <1>1, <1>2, RaisedBase DEF ledger
<1>3. CASE ~Raised
    <2>1. /\ now' = now
          /\ batch' = [batch EXCEPT !.items = @ \cup {i},
                                    !.targets = @ \cup ({Supersedes[i]} \ {NoId})]
          /\ \/ stage' = stage
             \/ \E s : Created(i, c, s) /\ Good(s.record, s.audit) /\ ActivatedOrNot(i, s)
        BY <1>3, TakenCandidate
    <2>2. Good(stage.record, stage.audit)'
        BY <2>1, ActivatedGood DEF Base
    <2>3. Supersedes[i] \in Id \cup {NoId}
        BY MemoriesAssumption
    <2>4. batch' \in Batches /\ batch'.phase = "candidates"
        BY <1>1, <2>1, <2>3, BatchTyped DEF Batches
    <2>5. Clocked'
        BY <1>1, <2>1, <2>4 DEF Base, Clocked, NoBatch
    <2> QED BY <1>1, <2>2, <2>4, <2>5 DEF Base, Apart
<1> QED BY <1>2, <1>3

LEMMA ReviewBase ==
    ASSUME Base, NEW i \in Id, NEW v \in Review, TakeReview(i, v)
    PROVE  Base'
<1>1. batch.phase = "reviews" /\ record' = record /\ audit' = audit
    BY TakenReview DEF ledger
<1>2. CASE Raised
    BY <1>1, <1>2, RaisedBase DEF ledger
<1>3. CASE ~Raised
    <2>1. /\ now' = now
          /\ batch' = [batch EXCEPT !.items = @ \cup {i}]
          /\ \E s : Good(s.record, s.audit) /\ ActivatedOrNot(i, s)
        BY <1>3, TakenReview
    <2>2. Good(stage.record, stage.audit)'
        BY <2>1, ActivatedGood
    <2>3. batch' \in Batches /\ batch'.phase = "reviews"
        BY <1>1, <2>1, BatchTyped DEF Batches
    <2>4. Clocked'
        BY <1>1, <2>1, <2>3 DEF Base, Clocked, NoBatch
    <2> QED BY <1>1, <2>2, <2>3, <2>4 DEF Base, Apart
<1> QED BY <1>2, <1>3

LEMMA MaintainsBase ==
    ASSUME Base, NEW rec, NEW aud, Maintains(rec, aud), Good(rec, aud)
    PROVE  Base'
<1>1. now + 1 \in Time
    BY MemoriesAssumption DEF Base, Clocked, Maintains, Time
<1>2. record' = rec /\ audit' = aud /\ stage'.record = rec /\ stage'.audit = aud
      /\ now' = now + 1 /\ batch' = NoBatch /\ batch = NoBatch
    BY DEF Maintains
<1> QED BY <1>1, <1>2 DEF Base, Clocked, Apart

LEMMA OpenBase ==
    ASSUME Base, (\E t \in Time : Consolidate(t)) \/ TurnToReviews
    PROVE  Base'
<1>1. CASE \E t \in Time : Consolidate(t)
    <2>1. PICK t \in Time : Consolidate(t)
        BY <1>1
    <2>2. batch' = [session |-> t, items |-> {}, targets |-> {}, phase |-> "candidates"]
        BY <2>1 DEF Consolidate, NoBatch
    <2>3. batch' \in Batches /\ batch'.phase = "candidates"
        BY <2>2 DEF Batches
    <2>4. record' = record /\ audit' = audit /\ stage'.record = record /\ stage'.audit = audit
          /\ now' = now /\ now < MaxTime
        BY <2>1 DEF Consolidate, ledger
    <2> QED BY <2>3, <2>4 DEF Base, Clocked, Apart
<1>2. CASE TurnToReviews
    <2>1. batch' = [batch EXCEPT !.phase = "reviews"] /\ batch.phase = "candidates"
          /\ UNCHANGED <<now, record, audit, stage>>
        BY <1>2 DEF TurnToReviews, ledger
    <2>2. batch' \in Batches /\ batch'.phase = "reviews"
        BY <2>1, BatchTyped DEF Batches
    <2>3. now < MaxTime
        BY <2>1 DEF Base, Clocked, NoBatch
    <2> QED BY <2>1, <2>2, <2>3 DEF Base, Clocked, Apart
<1> QED BY <1>1, <1>2

LEMMA CommitBase ==
    ASSUME Base, Commit
    PROVE  Base'
<1>1. now + 1 \in Time
    BY MemoriesAssumption DEF Base, Clocked, Commit, NoBatch, Time
<1>2. NoBatch \in Batches
    BY MemoriesAssumption DEF NoBatch, Batches, Time
<1>3. record' = stage.record /\ audit' = stage.audit /\ stage' = stage
      /\ now' = now + 1 /\ batch' = NoBatch
    BY DEF Commit
<1> QED BY <1>1, <1>2, <1>3 DEF Base, Clocked, Apart

(* Maintenance: what each script makes of the committed records is good.    *)
LEMMA BackfillGood ==
    ASSUME Base, NEW i \in Id, NEW c \in Candidate(i), NEW st \in {"active", "candidate"},
           Backfill(i, st, c)
    PROVE  \E new \in Record :
              /\ record[i].status = "absent"
              /\ new.status = st /\ new.assessed = now
              /\ "counterevidence" \notin Roles(new.evidence)
              /\ Maintains([record EXCEPT ![i] = new], audit)
              /\ Good([record EXCEPT ![i] = new], audit)
<1> DEFINE fresh == Fresh(c, From(c.roles, now), now)
           new == [fresh EXCEPT !.status = st]
<1>1. fresh \in Record /\ fresh.assessed = now /\ "counterevidence" \notin Roles(fresh.evidence)
    BY BatchTyped, FreshTyped
<1>2. st \in Status
    BY DEF Status
<1> HIDE DEF fresh
<1>3. new \in Record /\ new.status = st /\ new.assessed = now
      /\ "counterevidence" \notin Roles(new.evidence)
    BY <1>1, <1>2, StatusTyped
<1>4. record[i].status = "absent" /\ Maintains([record EXCEPT ![i] = new], audit)
    BY DEF Backfill, fresh
<1> HIDE DEF new
<1>5. Good([record EXCEPT ![i] = new], audit \cup {})
    BY <1>3, <1>4, ReplaceGood DEF Base
<1>6. audit \cup {} = audit
    OBVIOUS
<1> QED BY <1>3, <1>4, <1>5, <1>6

LEMMA PrivacyGood ==
    ASSUME Base, NEW i \in Id, NEW c \in Class, ReviewPrivacy(i, c)
    PROVE  \E new \in Record :
              /\ new.status = record[i].status /\ new.assessed = record[i].assessed
              /\ new.evidence = record[i].evidence
              /\ Maintains([record EXCEPT ![i] = new], audit)
              /\ Good([record EXCEPT ![i] = new], audit)
<1> DEFINE new == [record[i] EXCEPT !.privacy = c.privacy, !.policy = c.policy]
<1>1. record[i] \in Record /\ c.privacy \in Privacy /\ c.policy \in Policy
    BY BatchTyped, MemoriesAssumption
<1>2. new \in Record /\ new.status = record[i].status /\ new.assessed = record[i].assessed
      /\ new.evidence = record[i].evidence
    BY <1>1 DEF Record
<1>3. Maintains([record EXCEPT ![i] = new], audit)
    <2>1. Maintains([record EXCEPT ![i].privacy = c.privacy, ![i].policy = c.policy], audit)
        BY DEF ReviewPrivacy
    <2>2. [record EXCEPT ![i].privacy = c.privacy, ![i].policy = c.policy] = [record EXCEPT ![i] = new]
        BY BatchTyped
    <2> QED BY <2>1, <2>2
<1> HIDE DEF new
<1>4. Good([record EXCEPT ![i] = new], audit \cup {})
    BY <1>1, <1>2, ReplaceGood DEF Base, Good, Unreviewed
<1>5. audit \cup {} = audit
    OBVIOUS
<1> QED BY <1>2, <1>3, <1>4, <1>5

LEMMA ByHandGood ==
    ASSUME Base, NEW i \in Id, NEW act \in {"reject", "expire"}, NEW st \in Gone,
           record[i].status \in {"candidate", "active"}, ByHand(i, act, st)
    PROVE  LET new == [record[i] EXCEPT !.status = st]
               e == Audited(i, act, record[i], new, "legacy_manual_review", record[i].assessed) IN
           /\ new \in Record /\ e \in Audit
           /\ new.status = st /\ new.assessed = record[i].assessed
           /\ e.id = i /\ e.action = act /\ e.before = Graded(record[i])
           /\ e.at = record[i].assessed
           /\ Maintains([record EXCEPT ![i] = new], audit \cup {e})
           /\ Good([record EXCEPT ![i] = new], audit \cup {e})
<1> DEFINE r == record[i]
           new == [r EXCEPT !.status = st]
           e == Audited(i, act, r, new, "legacy_manual_review", r.assessed)
<1>1. r \in Record /\ r.assessed \in Time /\ st \in Status /\ act \in Acts
      /\ "legacy_manual_review" \in Reason
    BY BatchTyped DEF Record, Status, Acts, Gone, Reason
<1>2. new \in Record /\ new.status = st /\ new.assessed = r.assessed /\ new.evidence = r.evidence
    BY <1>1, StatusTyped
<1>3. Maintains([record EXCEPT ![i] = new], audit \cup {e})
    BY DEF ByHand
<1> HIDE DEF new
<1>4. e \in Audit /\ e.id = i /\ e.action = act /\ e.before = Graded(r) /\ e.at = r.assessed
    BY <1>1, <1>2, AuditedTyped
<1> HIDE DEF e
<1>5. Good([record EXCEPT ![i] = new], audit \cup {e})
    <2>1. TypeOf[i] = "self_expression" => "counterevidence" \notin Roles(new.evidence)
        BY <1>2 DEF Base, Good, Unreviewed
    <2>2. {e} \subseteq Audit /\ \A d \in {e} : d.action # "activate"
        BY <1>4
    <2> QED BY <1>2, <2>1, <2>2, ReplaceGood DEF Base
<1> QED BY <1>2, <1>3, <1>4, <1>5 DEF new, e

LEMMA ActivateByHandGood ==
    ASSUME Base, NEW i \in Id, Activate(i)
    PROVE  LET s == [record |-> record, audit |-> audit]
               w == Activated(i, s, "legacy_manual_review", record[i].assessed) IN
           /\ record[i].status = "candidate"
           /\ Supersedes[i] # NoId => record[Supersedes[i]].status = "active"
           /\ "counterevidence" \notin Roles(record[i].evidence)
           /\ Maintains(w.record, w.audit)
           /\ Good(w.record, w.audit)
<1> DEFINE s == [record |-> record, audit |-> audit]
           w == Activated(i, s, "legacy_manual_review", record[i].assessed)
<1>1. /\ record[i].status = "candidate"
      /\ Supersedes[i] # NoId => record[Supersedes[i]].status = "active"
      /\ TypeOf[i] = "self_expression" \/ Eligible(i, record[i], record, record[i].assessed)
      /\ Maintains(w.record, w.audit)
    BY DEF Activate, MayActivate
<1>2. "counterevidence" \notin Roles(record[i].evidence)
    BY <1>1, EligibleFacts DEF Base, Good, Unreviewed
<1>3. "legacy_manual_review" \in Reason /\ record[i].assessed \in Time
    BY BatchTyped DEF Reason, Record
<1>4. s.record = record /\ s.audit = audit
    OBVIOUS
<1> HIDE DEF s
<1>5. Good(w.record, w.audit)
    BY <1>1, <1>3, <1>4, ActivateGood DEF Base
<1> QED BY <1>1, <1>2, <1>5 DEF s

LEMMA RestoreGood ==
    ASSUME Base, NEW i \in Id, NEW x \in audit, NEW y \in audit, Restore(i, x, y)
    PROVE  \E new \in Record, e \in Audit :
              /\ record[i].status \in Gone /\ x \in Removals(i)
              /\ new.status = x.before.status /\ new.assessed = now
              /\ new.evidence = record[i].evidence /\ Graded(new) = x.before
              /\ e.id = i /\ e.action = "restore" /\ e.at = now
              /\ Maintains([record EXCEPT ![i] = new], audit \cup {e})
              /\ Good([record EXCEPT ![i] = new], audit \cup {e})
              /\ restored' = restored \cup {i} /\ UNCHANGED removed
<1> DEFINE r == record[i]
           new == Restored(i, x, y)
           e == Audited(i, "restore", r, new, y.reason, now)
<1>1. r \in Record /\ x \in Audit /\ y \in Audit /\ now \in Time
    BY BatchTyped
<1>2. x.before \in Grading /\ y.reason \in Reason
    BY <1>1 DEF Audit
<1>3. /\ new \in Record /\ new.status = x.before.status /\ new.assessed = now
      /\ new.evidence = r.evidence /\ Graded(new) = x.before
    BY <1>1, <1>2 DEF Record, Restored, Graded, Grading
<1>4. /\ r.status \in Gone /\ x \in Removals(i)
      /\ Maintains([record EXCEPT ![i] = new], audit \cup {e})
      /\ restored' = restored \cup {i} /\ UNCHANGED removed
    BY DEF Restore
<1> HIDE DEF new
<1>5. e \in Audit /\ e.id = i /\ e.action = "restore" /\ e.at = now
    BY <1>1, <1>2, <1>3, AuditedTyped DEF Acts
<1> HIDE DEF e
<1>6. Good([record EXCEPT ![i] = new], audit \cup {e})
    <2>1. TypeOf[i] = "self_expression" => "counterevidence" \notin Roles(new.evidence)
        BY <1>3 DEF Base, Good, Unreviewed
    <2>2. {e} \subseteq Audit /\ \A d \in {e} : d.action # "activate"
        BY <1>5
    <2>3. r.status # "superseded"
        BY <1>4 DEF Gone
    <2> QED BY <1>3, <2>1, <2>2, <2>3, ReplaceGood DEF Base
<1> QED BY <1>3, <1>4, <1>5, <1>6

LEMMA MaintenanceBase ==
    ASSUME Base, NEW i \in Id,
           \/ \E c \in Candidate(i), st \in {"active", "candidate"} : Backfill(i, st, c)
           \/ \E c \in Class : ReviewPrivacy(i, c)
           \/ Activate(i) \/ Reject(i) \/ Expire(i)
           \/ \E x, y \in audit : Restore(i, x, y)
    PROVE  Base'
<1>1. CASE \E c \in Candidate(i), st \in {"active", "candidate"} : Backfill(i, st, c)
    BY <1>1, BackfillGood, MaintainsBase
<1>2. CASE \E c \in Class : ReviewPrivacy(i, c)
    BY <1>2, PrivacyGood, MaintainsBase
<1>3. CASE Activate(i)
    BY <1>3, ActivateByHandGood, MaintainsBase
<1>4. CASE Reject(i)
    <2>1. record[i].status = "candidate" /\ ByHand(i, "reject", "rejected")
        BY <1>4 DEF Reject
    <2> QED BY <2>1, ByHandGood, MaintainsBase DEF Gone
<1>5. CASE Expire(i)
    <2>1. record[i].status \in {"candidate", "active"} /\ ByHand(i, "expire", "expired")
        BY <1>5 DEF Expire
    <2> QED BY <2>1, ByHandGood, MaintainsBase DEF Gone
<1>6. CASE \E x, y \in audit : Restore(i, x, y)
    BY <1>6, RestoreGood, MaintainsBase
<1> QED BY <1>1, <1>2, <1>3, <1>4, <1>5, <1>6

LEMMA InitBase == Init => Base
<1> SUFFICES ASSUME Init PROVE Base
    OBVIOUS
<1>1. /\ now = 0 /\ record = [i \in Id |-> Absent] /\ audit = {} /\ batch = NoBatch
      /\ stage.record = record /\ stage.audit = audit
    BY DEF Init
<1>2. 0 \in Time /\ NoBatch \in Batches
    BY MemoriesAssumption DEF Time, NoBatch, Batches
<1>3. record \in [Id -> Record] /\ \A i \in Id : Roles(record[i].evidence) = {}
    BY <1>1, AbsentTyped
<1>4. Good(record, audit)
    BY <1>1, <1>3 DEF Good, Succeeded, Ever, Unreviewed
<1> QED BY <1>1, <1>2, <1>4 DEF Base, Clocked, Apart

LEMMA StepBase == Base /\ [Next]_vars => Base'
<1> SUFFICES ASSUME Base, [Next]_vars PROVE Base'
    OBVIOUS
<1>1. CASE UNCHANGED vars
    BY <1>1 DEF vars, ledger, Base, Clocked, Apart
<1>2. CASE \E s \in {t \in Time : t <= now /\ t >= now - MaxLag} : Consolidate(s)
    BY <1>2, OpenBase
<1>3. CASE TurnToReviews
    BY <1>3, OpenBase
<1>4. CASE \E i \in Id : \E c \in Candidate(i) : TakeCandidate(i, c)
    BY <1>4, CandidateBase
<1>5. CASE \E i \in Id : \E v \in Review : TakeReview(i, v)
    BY <1>5, ReviewBase
<1>6. CASE Commit
    BY <1>6, CommitBase
<1>7. CASE \E i \in Id :
              \/ \E c \in Candidate(i), st \in {"active", "candidate"} : Backfill(i, st, c)
              \/ \E c \in Class : ReviewPrivacy(i, c)
              \/ Activate(i) \/ Reject(i) \/ Expire(i)
              \/ \E x, y \in audit : Restore(i, x, y)
    BY <1>7, MaintenanceBase
<1> QED BY <1>1, <1>2, <1>3, <1>4, <1>5, <1>6, <1>7 DEF Next

LEMMA BaseHolds == Spec => []Base
BY InitBase, StepBase, PTL DEF Spec

(* One successor for each memory, under every consolidation and every       *)
(* script.                                                                  *)
THEOREM Succession == Spec => []OneSuccessor
<1>1. Base => OneSuccessor
    BY DEF Base, Good, Succeeded, Ever, OneSuccessor, EverActivated
<1> QED BY <1>1, BaseHolds, PTL

-----------------------------------------------------------------------------
(* A contradicted memory. *)

(* On the stage only what was active before the consolidation is active     *)
(* with a counterevidence.                                                  *)
Backed(rec, i) == rec[i].status = "active" /\ "counterevidence" \in Roles(rec[i].evidence)
Inherits(rec) == \A i \in Id : Backed(rec, i) => record[i].status = "active"

LEMMA ActivatedInherits ==
    ASSUME Base, NEW i \in Id, NEW s, Good(s.record, s.audit), Inherits(s.record),
           ActivatedOrNot(i, s), record' = record
    PROVE  Inherits(stage.record)'
<1>1. CASE stage' = s
    BY <1>1 DEF Inherits, Backed
<1>2. CASE Eligible(i, s.record[i], s.record, now)
           /\ \E reason \in Reason : stage' = Activated(i, s, reason, now)
    <2>1. PICK reason \in Reason : stage' = Activated(i, s, reason, now)
        BY <1>2
    <2>2. /\ s.record[i].status = "candidate" /\ "counterevidence" \notin Roles(s.record[i].evidence)
          /\ Supersedes[i] # NoId => s.record[Supersedes[i]].status = "active"
        BY <1>2, EligibleFacts
    <2>3. s.record \in [Id -> Record]
        BY DEF Good
    <2>4. /\ stage'.record[i] = [s.record[i] EXCEPT !.status = "active"]
          /\ \A j \in Id : j # i =>
                \/ stage'.record[j] = s.record[j]
                \/ stage'.record[j] = [s.record[j] EXCEPT !.status = "superseded"]
        BY <2>1, <2>2, <2>3, ActivatedIs
    <2>5. "active" \in Status /\ "superseded" \in Status
        BY DEF Status
    <2>6. stage'.record[i].evidence = s.record[i].evidence
        BY <2>3, <2>4, <2>5, StatusTyped
    <2>7. ASSUME NEW j \in Id, Backed(stage'.record, j) PROVE record[j].status = "active"
        <3>1. j # i
            BY <2>2, <2>6, <2>7 DEF Backed
        <3>2. stage'.record[j] # [s.record[j] EXCEPT !.status = "superseded"]
            <4>1. s.record[j] \in Record
                BY <2>3
            <4>2. [s.record[j] EXCEPT !.status = "superseded"].status = "superseded"
                BY <2>5, <4>1, StatusTyped
            <4> QED BY <2>7, <4>2 DEF Backed
        <3>3. stage'.record[j] = s.record[j]
            BY <2>4, <3>1, <3>2
        <3> QED BY <2>7, <3>3 DEF Backed, Inherits
    <2> QED BY <2>7 DEF Inherits, Backed
<1> QED BY <1>1, <1>2 DEF ActivatedOrNot

LEMMA CandidateInherits ==
    ASSUME Base, Inherits(stage.record), NEW i \in Id, NEW c \in Candidate(i), TakeCandidate(i, c)
    PROVE  Inherits(stage.record)' /\ record' = record
<1>1. record' = record
    BY TakenCandidate DEF ledger
<1>2. CASE Raised
    BY <1>1, <1>2 DEF Raised, Inherits, Backed
<1>3. CASE ~Raised /\ stage' = stage
    BY <1>1, <1>3 DEF Inherits, Backed
<1>4. CASE ~Raised /\ stage' # stage
    <2>1. PICK s : Created(i, c, s) /\ Good(s.record, s.audit) /\ ActivatedOrNot(i, s)
        BY <1>4, TakenCandidate
    <2>2. Inherits(s.record)
        <3>1. CASE s = stage
            BY <3>1
        <3>2. CASE s.record = [stage.record EXCEPT ![i] = Fresh(c, From(c.roles, batch.session), now)]
            <4> DEFINE new == Fresh(c, From(c.roles, batch.session), now)
            <4>1. new.status = "candidate"
                BY BatchTyped, FreshTyped
            <4> HIDE DEF new
            <4>2. s.record[i] = new /\ \A j \in Id : j # i => s.record[j] = stage.record[j]
                BY <3>2, BatchTyped DEF new
            <4> QED BY <4>1, <4>2 DEF Inherits, Backed
        <3> QED BY <2>1, <3>1, <3>2 DEF Created
    <2> QED BY <1>1, <2>1, <2>2, ActivatedInherits
<1> QED BY <1>1, <1>2, <1>3, <1>4

LEMMA ReviewInherits ==
    ASSUME Base, Inherits(stage.record), NEW i \in Id, NEW v \in Review, TakeReview(i, v)
    PROVE  Inherits(stage.record)' /\ record' = record
<1>1. record' = record
    BY TakenReview DEF ledger
<1>2. CASE Raised
    BY <1>1, <1>2 DEF Raised, Inherits, Backed
<1>3. CASE ~Raised
    <2> DEFINE r == stage.record[i]
               new == Reviewed(r, v, batch.session, now)
    <2>1. PICK s : /\ s.record = [stage.record EXCEPT ![i] = new]
                   /\ Good(s.record, s.audit) /\ ActivatedOrNot(i, s)
        BY <1>3, TakenReview
    <2>2. /\ new.status = CASE v.action = "reject" -> "rejected"
                             [] v.action = "expire" -> "expired"
                             [] OTHER -> r.status
          /\ Roles(new.evidence) \subseteq Roles(r.evidence) \cup v.roles
        BY BatchTyped, ReviewedTyped
    <2>3. v.action \in {"support", "confirm"} => "counterevidence" \notin v.roles
        BY ReviewTyped
    <2>4. v.action \in {"support", "confirm", "reject", "expire"}
        BY ReviewTyped
    <2> HIDE DEF new
    <2>5. s.record[i] = new /\ \A j \in Id : j # i => s.record[j] = stage.record[j]
        BY <2>1, BatchTyped
    <2>6. Backed(s.record, i) => Backed(stage.record, i)
        BY <2>2, <2>3, <2>4, <2>5 DEF Backed
    <2>7. Inherits(s.record)
        BY <2>5, <2>6 DEF Inherits, Backed
    <2> QED BY <1>1, <2>1, <2>7, ActivatedInherits
<1> QED BY <1>1, <1>2, <1>3

Reactivated(i) ==
    /\ record[i].status # "active" /\ record'[i].status = "active"
    /\ "counterevidence" \in Roles(record'[i].evidence)

LEMMA MaintenanceKeepsOut ==
    ASSUME Base, NEW i \in Id, NEW j \in Id, Reactivated(j),
           \/ \E c \in Candidate(i), st \in {"active", "candidate"} : Backfill(i, st, c)
           \/ \E c \in Class : ReviewPrivacy(i, c)
           \/ Activate(i) \/ Reject(i) \/ Expire(i)
           \/ \E x, y \in audit : Restore(i, x, y)
    PROVE  record[j].status \in Gone /\ j \in restored'
<1>0. ASSUME NEW new \in Record, record' = [record EXCEPT ![i] = new]
      PROVE  i = j /\ new.status = "active" /\ "counterevidence" \in Roles(new.evidence)
             /\ record[i].status # "active"
    <2>1. record'[i] = new /\ (j # i => record'[j] = record[j])
        BY <1>0, BatchTyped
    <2> QED BY <2>1 DEF Reactivated
<1>1. CASE \E c \in Candidate(i), st \in {"active", "candidate"} : Backfill(i, st, c)
    <2>1. PICK new \in Record : "counterevidence" \notin Roles(new.evidence)
                                /\ Maintains([record EXCEPT ![i] = new], audit)
        BY <1>1, BackfillGood
    <2> QED BY <1>0, <2>1 DEF Maintains
<1>2. CASE \E c \in Class : ReviewPrivacy(i, c)
    <2>1. PICK new \in Record : new.status = record[i].status
                                /\ Maintains([record EXCEPT ![i] = new], audit)
        <3>1. PICK c \in Class : ReviewPrivacy(i, c)
            BY <1>2
        <3>2. \E new \in Record : new.status = record[i].status
                                  /\ Maintains([record EXCEPT ![i] = new], audit)
            BY <3>1, PrivacyGood
        <3> QED BY <3>2
    <2> QED BY <1>0, <2>1 DEF Maintains
<1>3. CASE Activate(i)
    <2> DEFINE s == [record |-> record, audit |-> audit]
               w == Activated(i, s, "legacy_manual_review", record[i].assessed)
    <2>1. /\ s.record = record /\ record \in [Id -> Record]
          /\ record[i].status = "candidate"
          /\ Supersedes[i] # NoId => record[Supersedes[i]].status = "active"
          /\ "counterevidence" \notin Roles(record[i].evidence)
          /\ record' = w.record
        BY <1>3, BatchTyped, ActivateByHandGood DEF Maintains
    <2> HIDE DEF s
    <2>2. /\ record'[i] = [record[i] EXCEPT !.status = "active"]
          /\ \A k \in Id : k # i => \/ record'[k] = record[k]
                                    \/ record'[k] = [record[k] EXCEPT !.status = "superseded"]
        BY <2>1, ActivatedIs
    <2>3. "active" \in Status /\ "superseded" \in Status
        BY DEF Status
    <2>4. record'[i].evidence = record[i].evidence
        <3>1. record[i] \in Record
            BY <2>1
        <3>2. [record[i] EXCEPT !.status = "active"].evidence = record[i].evidence
            BY <2>3, <3>1, StatusTyped
        <3> QED BY <2>2, <3>2
    <2>5. j # i
        BY <2>1, <2>4 DEF Reactivated
    <2>6. record'[j].status = record[j].status \/ record'[j].status = "superseded"
        <3>1. record[j] \in Record
            BY <2>1
        <3>2. [record[j] EXCEPT !.status = "superseded"].status = "superseded"
            BY <2>3, <3>1, StatusTyped
        <3>3. \/ record'[j] = record[j]
              \/ record'[j] = [record[j] EXCEPT !.status = "superseded"]
            BY <2>2, <2>5
        <3> QED BY <3>2, <3>3
    <2> QED BY <2>6 DEF Reactivated
<1>4. CASE Reject(i) \/ Expire(i)
    <2>1. record'[i].status # "active" /\ \A k \in Id : k # i => record'[k] = record[k]
        <3>1. \E st \in Gone : record' = [record EXCEPT ![i] = [record[i] EXCEPT !.status = st]]
            BY <1>4 DEF Reject, Expire, ByHand, Maintains, Gone
        <3>2. PICK st \in Gone : record' = [record EXCEPT ![i] = [record[i] EXCEPT !.status = st]]
            BY <3>1
        <3>3. record[i] \in Record /\ record \in [Id -> Record]
            BY BatchTyped
        <3>4. [record[i] EXCEPT !.status = st].status = st
            BY <3>3 DEF Record
        <3>5. record'[i] = [record[i] EXCEPT !.status = st]
              /\ \A k \in Id : k # i => record'[k] = record[k]
            BY <3>2, <3>3
        <3> QED BY <3>4, <3>5 DEF Gone
    <2> QED BY <2>1 DEF Reactivated
<1>5. CASE \E x, y \in audit : Restore(i, x, y)
    <2>1. PICK x \in audit, y \in audit : Restore(i, x, y)
        BY <1>5
    <2>2. \E new \in Record, e \in Audit :
              /\ record[i].status \in Gone /\ restored' = restored \cup {i}
              /\ Maintains([record EXCEPT ![i] = new], audit \cup {e})
        BY <2>1, RestoreGood
    <2>3. PICK new \in Record : /\ record[i].status \in Gone /\ restored' = restored \cup {i}
                                /\ record' = [record EXCEPT ![i] = new]
        BY <2>2 DEF Maintains
    <2> QED BY <1>0, <2>3
<1> QED BY <1>1, <1>2, <1>3, <1>4, <1>5

LEMMA MaintenanceInherits ==
    ASSUME Base, NEW i \in Id,
           \/ \E c \in Candidate(i), st \in {"active", "candidate"} : Backfill(i, st, c)
           \/ \E c \in Class : ReviewPrivacy(i, c)
           \/ Activate(i) \/ Reject(i) \/ Expire(i)
           \/ \E x, y \in audit : Restore(i, x, y)
    PROVE  Inherits(stage.record)'
<1>1. \E rec, aud : Maintains(rec, aud)
    BY DEF Backfill, ReviewPrivacy, Activate, Reject, Expire, ByHand, Restore
<1>2. stage'.record = record'
    BY <1>1 DEF Maintains
<1> QED BY <1>2 DEF Inherits, Backed

LEMMA StepInherits ==
    ASSUME Base, Inherits(stage.record), [Next]_vars
    PROVE  /\ Inherits(stage.record)'
           /\ \A j \in Id : Reactivated(j) => record[j].status \in Gone /\ j \in restored'
<1>1. CASE UNCHANGED vars
    BY <1>1 DEF vars, ledger, Inherits, Backed, Reactivated
<1>2. CASE \E s \in {t \in Time : t <= now /\ t >= now - MaxLag} : Consolidate(s)
    <2>1. stage'.record = record /\ record' = record
        BY <1>2 DEF Consolidate, ledger
    <2> QED BY <2>1 DEF Inherits, Backed, Reactivated
<1>3. CASE TurnToReviews
    BY <1>3 DEF TurnToReviews, ledger, Inherits, Backed, Reactivated
<1>4. CASE \E i \in Id : \E c \in Candidate(i) : TakeCandidate(i, c)
    BY <1>4, CandidateInherits DEF Reactivated
<1>5. CASE \E i \in Id : \E v \in Review : TakeReview(i, v)
    BY <1>5, ReviewInherits DEF Reactivated
<1>6. CASE Commit
    <2>1. record' = stage.record /\ stage' = stage
        BY <1>6 DEF Commit
    <2> QED BY <2>1 DEF Inherits, Backed, Reactivated
<1>7. CASE \E i \in Id :
              \/ \E c \in Candidate(i), st \in {"active", "candidate"} : Backfill(i, st, c)
              \/ \E c \in Class : ReviewPrivacy(i, c)
              \/ Activate(i) \/ Reject(i) \/ Expire(i)
              \/ \E x, y \in audit : Restore(i, x, y)
    BY <1>7, MaintenanceInherits, MaintenanceKeepsOut
<1> QED BY <1>1, <1>2, <1>3, <1>4, <1>5, <1>6, <1>7 DEF Next

(* No consolidation, however its items support, confirm or correct, and no  *)
(* script but a restoration makes a contradicted memory active again.       *)
THEOREM Contradicted == Spec => ContradictedStaysOut
<1>1. Init => Inherits(stage.record)
    BY DEF Init, Inherits, Backed
<1>2. Base /\ Inherits(stage.record) /\ [Next]_vars => Inherits(stage.record)'
    BY StepInherits
<1>3. Base /\ Inherits(stage.record) /\ [Next]_vars =>
        [\A i \in Id :
            /\ record[i].status # "active" /\ record'[i].status = "active"
            /\ "counterevidence" \in Roles(record'[i].evidence)
            => record[i].status \in Gone /\ i \in restored']_vars
    BY StepInherits DEF Reactivated
<1> QED BY <1>1, <1>2, <1>3, BaseHolds, PTL DEF Spec, ContradictedStaysOut

-----------------------------------------------------------------------------
(* Removals and restorations. *)

(* The removals of a memory, and that the last of them kept a grading.      *)
Rem(aud, i) == {e \in aud : e.id = i /\ e.action \in {"reject", "expire"}}
Known(r, aud, i) == \A x \in LastOf(Rem(aud, i)) : x.before = Graded(r)

(* Every assessment and decision lies in the past, and a memory that counts *)
(* was assessed after all its removals: the last one is the last in time.  *)
Before(rec, aud, t) ==
    /\ \A e \in aud : e.at <= t
    /\ \A i \in Id : rec[i].assessed <= t
    /\ \A i \in Id : rec[i].status \notin Gone =>
          \A e \in Rem(aud, i) : e.at < rec[i].assessed

(* What a consolidation has done so far to a memory: nothing when it was    *)
(* removed before, and at most one item or one correction otherwise.       *)
StagedAt(i, rec0, aud0, rec, aud, items, targets) ==
    /\ rec0[i].status \in Gone => rec[i] = rec0[i] /\ Rem(aud, i) = Rem(aud0, i)
    /\ i \notin items => Rem(aud, i) = Rem(aud0, i)
    /\ i \notin items \cup targets => rec[i] = rec0[i] \/ rec[i].status = "superseded"
    /\ rec0[i].status \notin Gone /\ rec[i].status \in Gone => Known(rec0[i], aud, i)
Staging(rec0, aud0, rec, aud, items, targets) ==
    \A i \in Id : StagedAt(i, rec0, aud0, rec, aud, items, targets)

Remembered(rec, aud, rem) == \A i \in Id : rec[i].status \in Gone => Known(rem[i], aud, i)

Kept ==
    /\ \A e \in audit : e.at < now
    /\ Before(record, audit, now) /\ Before(stage.record, stage.audit, now)
    /\ removed \in [Id -> Record]
    /\ Remembered(record, audit, removed)
    /\ Staging(record, audit, stage.record, stage.audit, batch.items, batch.targets)

LEMMA TimeFacts ==
    /\ Time \subseteq Nat
    /\ \A e \in Audit : e.at \in Nat
    /\ \A r \in Record : r.assessed \in Nat
BY MemoriesAssumption DEF Time, Audit, Record

(* A later removal is the only last one. *)
LEMMA LastRemoval ==
    ASSUME NEW old, old \subseteq Audit, NEW e \in Audit, \A d \in old : d.at < e.at
    PROVE  \A x \in LastOf(old \cup {e}) : x = e
<1> SUFFICES ASSUME NEW x \in LastOf(old \cup {e}), x # e PROVE FALSE
    OBVIOUS
<1>1. x \in old /\ e.at <= x.at
    BY DEF LastOf
<1>2. x.at < e.at /\ x.at \in Nat /\ e.at \in Nat
    BY <1>1, TimeFacts
<1> QED BY <1>1, <1>2

(* What no removal is leaves the removals. *)
LEMMA RemKept ==
    ASSUME NEW aud, NEW more, aud \subseteq more,
           \A e \in more : e \in aud \/ e.action \in {"create", "activate", "supersede", "restore"}
    PROVE  \A i : Rem(more, i) = Rem(aud, i)
BY DEF Rem

LEMMA RemOther ==
    ASSUME NEW aud, NEW e, NEW i, e.id = i
    PROVE  \A j : j # i => Rem(aud \cup {e}, j) = Rem(aud, j)
BY DEF Rem

LEMMA RemOne ==
    ASSUME NEW aud, NEW e, NEW i, e.id = i, e.action \in {"reject", "expire"}
    PROVE  Rem(aud \cup {e}, i) = Rem(aud, i) \cup {e}
BY DEF Rem

(* Outside a consolidation nothing is staged. *)
LEMMA Level ==
    ASSUME NEW rec, NEW aud, NEW items, NEW targets
    PROVE  Staging(rec, aud, rec, aud, items, targets)
BY DEF Staging, StagedAt

(* A script. *)
LEMMA MaintainsKept ==
    ASSUME Base, NEW rec, NEW aud, Maintains(rec, aud), Good(rec, aud),
           Before(rec, aud, now), Remembered(rec, aud, removed'), removed' \in [Id -> Record]
    PROVE  Kept'
<1>1. /\ record' = rec /\ audit' = aud /\ stage'.record = rec /\ stage'.audit = aud
      /\ now' = now + 1
    BY DEF Maintains
<1>2. aud \subseteq Audit /\ rec \in [Id -> Record]
    BY DEF Good
<1>3. \A e \in aud : e.at < now + 1
    BY <1>2, TimeFacts, BatchTyped DEF Before
<1>4. Before(rec, aud, now + 1)
    <2>1. \A e \in aud : e.at <= now + 1
        BY <1>2, <1>3, TimeFacts, BatchTyped
    <2>2. ASSUME NEW i \in Id PROVE rec[i].assessed <= now + 1
        <3>1. rec[i].assessed \in Nat /\ rec[i].assessed <= now
            BY <1>2, TimeFacts DEF Before
        <3> QED BY <3>1, BatchTyped
    <2> QED BY <2>1, <2>2 DEF Before
<1>5. Staging(rec, aud, rec, aud, batch'.items, batch'.targets)
    BY Level
<1> QED BY <1>1, <1>3, <1>4, <1>5 DEF Kept

(* A memory whose removals, assessment and status of being gone stay.       *)
LEMMA Same ==
    ASSUME Kept, NEW rec, NEW aud, NEW rem, NEW j \in Id,
           Rem(aud, j) = Rem(audit, j), rem[j] = removed[j],
           rec[j].assessed = record[j].assessed,
           rec[j].status \in Gone <=> record[j].status \in Gone
    PROVE  /\ rec[j].assessed <= now
           /\ rec[j].status \notin Gone => \A e \in Rem(aud, j) : e.at < rec[j].assessed
           /\ rec[j].status \in Gone => Known(rem[j], aud, j)
BY DEF Kept, Before, Remembered, Known

(* A script that writes one record. *)
LEMMA OneRecordKept ==
    ASSUME Base, Kept, NEW i \in Id, NEW new \in Record, NEW aud,
           Maintains([record EXCEPT ![i] = new], aud), Good([record EXCEPT ![i] = new], aud),
           \A e \in aud : e.at <= now,
           \A j \in Id : j # i => Rem(aud, j) = Rem(audit, j) /\ removed'[j] = removed[j],
           new.assessed <= now,
           new.status \notin Gone => \A e \in Rem(aud, i) : e.at < new.assessed,
           new.status \in Gone => Known(removed'[i], aud, i),
           removed' \in [Id -> Record]
    PROVE  Kept'
<1> DEFINE rec == [record EXCEPT ![i] = new]
<1>1. rec[i] = new /\ \A j \in Id : j # i => rec[j] = record[j]
    BY BatchTyped
<1> HIDE DEF rec
<1>2. ASSUME NEW j \in Id
      PROVE  /\ rec[j].assessed <= now
             /\ rec[j].status \notin Gone => \A e \in Rem(aud, j) : e.at < rec[j].assessed
             /\ rec[j].status \in Gone => Known(removed'[j], aud, j)
    <2>1. CASE j = i
        BY <1>1, <2>1
    <2>2. CASE j # i
        BY <1>1, <2>2, Same
    <2> QED BY <2>1, <2>2
<1>3. Before(rec, aud, now) /\ Remembered(rec, aud, removed')
    BY <1>2 DEF Before, Remembered
<1>4. Maintains(rec, aud) /\ Good(rec, aud)
    BY DEF rec
<1> QED BY <1>3, <1>4, MaintainsKept

LEMMA KeptFacts ==
    ASSUME Base, Kept
    PROVE  /\ \A e \in audit : e.at \in Nat /\ e.at < now /\ e.at <= now
           /\ \A i \in Id : record[i].assessed \in Nat /\ record[i].assessed <= now
           /\ \A i \in Id : Rem(audit, i) \subseteq audit
           /\ now \in Nat
BY TimeFacts, BatchTyped DEF Kept, Before, Rem

(* A removal by hand, at the time of the assessment it leaves. *)
LEMMA ByHandKept ==
    ASSUME Base, Kept, NEW i \in Id, NEW act \in {"reject", "expire"}, NEW st \in Gone,
           record[i].status \in {"candidate", "active"}, ByHand(i, act, st),
           removed' = [removed EXCEPT ![i] = record[i]]
    PROVE  Kept'
<1> DEFINE new == [record[i] EXCEPT !.status = st]
           e == Audited(i, act, record[i], new, "legacy_manual_review", record[i].assessed)
<1>1. /\ new \in Record /\ e \in Audit
      /\ new.status = st /\ new.assessed = record[i].assessed
      /\ e.id = i /\ e.action = act /\ e.before = Graded(record[i])
      /\ e.at = record[i].assessed
      /\ Maintains([record EXCEPT ![i] = new], audit \cup {e})
      /\ Good([record EXCEPT ![i] = new], audit \cup {e})
    BY ByHandGood
<1> HIDE DEF new, e
<1>2. /\ removed'[i] = record[i]
      /\ \A j \in Id : j # i => removed'[j] = removed[j]
      /\ removed' \in [Id -> Record]
    BY BatchTyped DEF Kept
<1>3. \A d \in audit \cup {e} : d.at <= now
    BY <1>1, KeptFacts
<1>4. Known(record[i], audit \cup {e}, i)
    <2>1. Rem(audit, i) \subseteq Audit
        BY BatchTyped DEF Rem
    <2>2. record[i].status \notin Gone
        BY DEF Gone
    <2>3. \A d \in Rem(audit, i) : d.at < e.at
        BY <1>1, <2>2 DEF Kept, Before
    <2>4. \A x \in LastOf(Rem(audit, i) \cup {e}) : x = e
        BY <1>1, <2>1, <2>3, LastRemoval
    <2>5. Rem(audit \cup {e}, i) = Rem(audit, i) \cup {e}
        BY <1>1, RemOne
    <2> QED BY <1>1, <2>4, <2>5 DEF Known
<1>5. \A j \in Id : j # i => Rem(audit \cup {e}, j) = Rem(audit, j)
    BY <1>1, RemOther
<1>6. new.assessed <= now
    BY <1>1, KeptFacts
<1>7. new.status \in Gone /\ Known(removed'[i], audit \cup {e}, i)
    BY <1>1, <1>2, <1>4
<1> DEFINE aud == audit \cup {e}
<1>8. /\ Maintains([record EXCEPT ![i] = new], aud)
      /\ Good([record EXCEPT ![i] = new], aud)
      /\ \A d \in aud : d.at <= now
      /\ \A j \in Id : j # i => Rem(aud, j) = Rem(audit, j) /\ removed'[j] = removed[j]
      /\ Known(removed'[i], aud, i)
    BY <1>1, <1>2, <1>3, <1>5, <1>7
<1> HIDE DEF aud
<1> QED BY <1>1, <1>2, <1>6, <1>7, <1>8, OneRecordKept

(* What activation leaves of every memory: its assessment, its removals and *)
(* whether it is gone.                                                      *)
LEMMA ActivatedSame ==
    ASSUME NEW s, s.record \in [Id -> Record], NEW i \in Id, NEW reason, NEW t,
           s.record[i].status = "candidate",
           Supersedes[i] # NoId => s.record[Supersedes[i]].status = "active"
    PROVE  LET w == Activated(i, s, reason, t) IN
           /\ \A j \in Id :
                /\ Rem(w.audit, j) = Rem(s.audit, j)
                /\ w.record[j].assessed = s.record[j].assessed
                /\ w.record[j].status \in Gone <=> s.record[j].status \in Gone
                /\ \/ w.record[j] = s.record[j]
                   \/ j = i
                   \/ w.record[j].status = "superseded"
                /\ s.record[j].status \in Gone => w.record[j] = s.record[j]
           /\ \A e \in w.audit : e \in s.audit \/ e.at = t
<1> DEFINE w == Activated(i, s, reason, t)
<1>1. /\ w.record[i] = [s.record[i] EXCEPT !.status = "active"]
      /\ \A j \in Id : j # i =>
            \/ w.record[j] = s.record[j]
            \/ /\ s.record[j].status = "active"
               /\ w.record[j] = [s.record[j] EXCEPT !.status = "superseded"]
      /\ s.audit \subseteq w.audit
      /\ \A e \in w.audit :
            e \in s.audit \/ (e.action \in {"activate", "supersede"} /\ e.at = t)
    BY ActivatedIs
<1> HIDE DEF w
<1>2. \A j \in Id : Rem(w.audit, j) = Rem(s.audit, j)
    BY <1>1, RemKept
<1>3. "active" \in Status /\ "superseded" \in Status
    BY DEF Status
<1>4. ASSUME NEW j \in Id
      PROVE  /\ w.record[j].assessed = s.record[j].assessed
             /\ w.record[j].status \in Gone <=> s.record[j].status \in Gone
             /\ \/ w.record[j] = s.record[j]
                \/ j = i
                \/ w.record[j].status = "superseded"
             /\ s.record[j].status \in Gone => w.record[j] = s.record[j]
    <2>1. s.record[j] \in Record
        OBVIOUS
    <2>2. CASE w.record[j] = s.record[j]
        BY <2>2
    <2>3. CASE j = i
        <3>1. w.record[j].status = "active" /\ w.record[j].assessed = s.record[j].assessed
            <4>1. w.record[j] = [s.record[j] EXCEPT !.status = "active"]
                BY <1>1, <2>3
            <4> QED BY <1>3, <2>1, <4>1, StatusTyped
        <3>2. s.record[j].status = "candidate"
            BY <2>3
        <3> QED BY <2>3, <3>1, <3>2 DEF Gone
    <2>4. CASE /\ s.record[j].status = "active"
               /\ w.record[j] = [s.record[j] EXCEPT !.status = "superseded"]
        <3>1. w.record[j].status = "superseded" /\ w.record[j].assessed = s.record[j].assessed
            BY <1>3, <2>1, <2>4, StatusTyped
        <3> QED BY <2>4, <3>1 DEF Gone
    <2> QED BY <1>1, <2>2, <2>3, <2>4
<1>5. \A e \in w.audit : e \in s.audit \/ e.at = t
    BY <1>1
<1> QED BY <1>2, <1>4, <1>5 DEF w

LEMMA ActivateKept ==
    ASSUME Base, Kept, NEW i \in Id, Activate(i)
    PROVE  Kept'
<1> DEFINE s == [record |-> record, audit |-> audit]
           w == Activated(i, s, "legacy_manual_review", record[i].assessed)
<1>1. /\ record[i].status = "candidate"
      /\ Supersedes[i] # NoId => record[Supersedes[i]].status = "active"
      /\ Maintains(w.record, w.audit) /\ Good(w.record, w.audit)
    BY ActivateByHandGood
<1>2. s.record = record /\ s.audit = audit /\ record \in [Id -> Record]
    BY BatchTyped
<1> HIDE DEF s
<1>3. /\ \A j \in Id :
           /\ Rem(w.audit, j) = Rem(audit, j)
           /\ w.record[j].assessed = record[j].assessed
           /\ w.record[j].status \in Gone <=> record[j].status \in Gone
      /\ \A e \in w.audit : e \in audit \/ e.at = record[i].assessed
    BY <1>1, <1>2, ActivatedSame
<1>4. removed' = removed
    BY DEF Activate
<1> HIDE DEF w
<1>5. \A e \in w.audit : e.at <= now
    BY <1>3, KeptFacts
<1>6. ASSUME NEW j \in Id
      PROVE  /\ w.record[j].assessed <= now
             /\ w.record[j].status \notin Gone => \A e \in Rem(w.audit, j) : e.at < w.record[j].assessed
             /\ w.record[j].status \in Gone => Known(removed'[j], w.audit, j)
    <2>1. /\ Rem(w.audit, j) = Rem(audit, j) /\ removed'[j] = removed[j]
          /\ w.record[j].assessed = record[j].assessed
          /\ w.record[j].status \in Gone <=> record[j].status \in Gone
        BY <1>3, <1>4
    <2> QED BY <2>1, Same
<1>7. Before(w.record, w.audit, now) /\ Remembered(w.record, w.audit, removed')
    BY <1>5, <1>6 DEF Before, Remembered
<1> QED BY <1>1, <1>4, <1>7, MaintainsKept DEF Kept

LEMMA BackfillKept ==
    ASSUME Base, Kept, NEW i \in Id, NEW c \in Candidate(i), NEW st \in {"active", "candidate"},
           Backfill(i, st, c)
    PROVE  Kept'
<1>1. PICK new \in Record :
          /\ new.status = st /\ new.assessed = now
          /\ Maintains([record EXCEPT ![i] = new], audit)
          /\ Good([record EXCEPT ![i] = new], audit)
    BY BackfillGood
<1>2. removed' = removed /\ removed' \in [Id -> Record]
    BY DEF Backfill, Kept
<1>3. new.status \notin Gone /\ new.assessed <= now
    BY <1>1, KeptFacts DEF Gone
<1>4. \A e \in Rem(audit, i) : e.at < new.assessed
    BY <1>1, KeptFacts
<1>5. \A e \in audit : e.at <= now
    BY KeptFacts
<1> QED BY <1>1, <1>2, <1>3, <1>4, <1>5, OneRecordKept

LEMMA PrivacyKept ==
    ASSUME Base, Kept, NEW i \in Id, NEW c \in Class, ReviewPrivacy(i, c)
    PROVE  Kept'
<1>1. PICK new \in Record :
          /\ new.status = record[i].status /\ new.assessed = record[i].assessed
          /\ Maintains([record EXCEPT ![i] = new], audit)
          /\ Good([record EXCEPT ![i] = new], audit)
    BY PrivacyGood
<1>2. removed' = removed /\ removed' \in [Id -> Record]
    BY DEF ReviewPrivacy, Kept
<1>3. /\ new.assessed <= now
      /\ new.status \notin Gone => \A e \in Rem(audit, i) : e.at < new.assessed
      /\ new.status \in Gone => Known(removed'[i], audit, i)
    BY <1>1, <1>2 DEF Kept, Before, Remembered
<1>4. \A e \in audit : e.at <= now
    BY KeptFacts
<1> QED BY <1>1, <1>2, <1>3, <1>4, OneRecordKept

(* A restoration takes the grading of the last removal. *)
LEMMA RestoreKept ==
    ASSUME Base, Kept, NEW i \in Id, NEW x \in audit, NEW y \in audit, Restore(i, x, y)
    PROVE  /\ Kept'
           /\ Graded(record'[i]) = Graded(removed[i])
           /\ \A j \in Id : j # i => record'[j] = record[j]
<1>1. \E new \in Record, e \in Audit :
          /\ record[i].status \in Gone /\ x \in Removals(i)
          /\ new.status = x.before.status /\ new.assessed = now
          /\ new.evidence = record[i].evidence /\ Graded(new) = x.before
          /\ e.id = i /\ e.action = "restore" /\ e.at = now
          /\ Maintains([record EXCEPT ![i] = new], audit \cup {e})
          /\ Good([record EXCEPT ![i] = new], audit \cup {e})
          /\ restored' = restored \cup {i} /\ UNCHANGED removed
    BY RestoreGood
<1>2. PICK new \in Record, e \in Audit :
          /\ record[i].status \in Gone /\ x \in Removals(i)
          /\ new.status = x.before.status /\ new.assessed = now
          /\ Graded(new) = x.before
          /\ e.id = i /\ e.action = "restore" /\ e.at = now
          /\ Maintains([record EXCEPT ![i] = new], audit \cup {e})
          /\ Good([record EXCEPT ![i] = new], audit \cup {e})
          /\ UNCHANGED removed
    BY <1>1
<1>3. Graded(new) = Graded(removed[i])
    <2>1. x \in LastOf(Rem(audit, i))
        BY <1>2 DEF Removals, Rem
    <2> QED BY <1>2, <2>1 DEF Kept, Remembered, Known
<1> DEFINE aud == audit \cup {e}
<1>4. \A j : Rem(aud, j) = Rem(audit, j)
    <2>1. audit \subseteq aud /\ \A d \in aud : d \in audit \/ d.action = "restore"
        BY <1>2
    <2> HIDE DEF aud
    <2> QED BY <2>1, RemKept
<1>5. \A d \in aud : d.at <= now
    BY <1>2, KeptFacts
<1>6. new.assessed <= now /\ removed' \in [Id -> Record] /\ removed' = removed
    BY <1>2, KeptFacts DEF Kept
<1>7. new.status \notin Gone => \A d \in Rem(aud, i) : d.at < new.assessed
    <2>1. \A d \in Rem(audit, i) : d.at < now
        BY KeptFacts
    <2> QED BY <1>2, <1>4, <2>1
<1>8. Known(removed'[i], aud, i)
    BY <1>2, <1>4, <1>6 DEF Kept, Remembered, Known
<1>9. Maintains([record EXCEPT ![i] = new], aud) /\ Good([record EXCEPT ![i] = new], aud)
    BY <1>2
<1> HIDE DEF aud
<1>10. Kept'
    BY <1>4, <1>5, <1>6, <1>7, <1>8, <1>9, OneRecordKept
<1>11. record'[i] = new /\ \A j \in Id : j # i => record'[j] = record[j]
    BY <1>9, BatchTyped DEF Maintains
<1> QED BY <1>3, <1>10, <1>11

(* Every script. *)
LEMMA MaintenanceKept ==
    ASSUME Base, Kept, NEW i \in Id,
           \/ \E c \in Candidate(i), st \in {"active", "candidate"} : Backfill(i, st, c)
           \/ \E c \in Class : ReviewPrivacy(i, c)
           \/ Activate(i) \/ Reject(i) \/ Expire(i)
           \/ \E x, y \in audit : Restore(i, x, y)
    PROVE  Kept'
<1>1. CASE Reject(i)
    BY <1>1, ByHandKept DEF Reject, Gone
<1>2. CASE Expire(i)
    BY <1>2, ByHandKept DEF Expire, Gone
<1> QED BY <1>1, <1>2, BackfillKept, PrivacyKept, ActivateKept, RestoreKept

(* Which of them brings a removed memory back. *)
LEMMA MaintenanceReturns ==
    ASSUME Base, Kept, NEW i \in Id, NEW j \in Id, Returns(j),
           \/ \E c \in Candidate(i), st \in {"active", "candidate"} : Backfill(i, st, c)
           \/ \E c \in Class : ReviewPrivacy(i, c)
           \/ Activate(i) \/ Reject(i) \/ Expire(i)
           \/ \E x, y \in audit : Restore(i, x, y)
    PROVE  Graded(record'[j]) = Graded(removed[j])
<1>0. ASSUME NEW new \in Record, record' = [record EXCEPT ![i] = new],
             record[i].status \in Gone => new.status \in Gone
      PROVE  FALSE
    <2>1. record'[i] = new /\ (j # i => record'[j] = record[j])
        BY <1>0, BatchTyped
    <2> QED BY <1>0, <2>1 DEF Returns
<1>1. CASE \E c \in Candidate(i), st \in {"active", "candidate"} : Backfill(i, st, c)
    <2>1. \E new \in Record : /\ record[i].status = "absent"
                              /\ Maintains([record EXCEPT ![i] = new], audit)
        BY <1>1, BackfillGood
    <2> QED BY <1>0, <2>1 DEF Maintains, Gone
<1>2. CASE \E c \in Class : ReviewPrivacy(i, c)
    <2>1. PICK c \in Class : ReviewPrivacy(i, c)
        BY <1>2
    <2>2. \E new \in Record : /\ new.status = record[i].status
                              /\ Maintains([record EXCEPT ![i] = new], audit)
        BY <2>1, PrivacyGood
    <2> QED BY <1>0, <2>2 DEF Maintains
<1>3. CASE Activate(i)
    <2> DEFINE s == [record |-> record, audit |-> audit]
               w == Activated(i, s, "legacy_manual_review", record[i].assessed)
    <2>1. /\ record[i].status = "candidate"
          /\ Supersedes[i] # NoId => record[Supersedes[i]].status = "active"
          /\ record' = w.record
        BY <1>3, ActivateByHandGood DEF Maintains
    <2>2. s.record = record /\ record \in [Id -> Record]
        BY BatchTyped
    <2> HIDE DEF s
    <2>3. record[j].status \in Gone => w.record[j].status \in Gone
        BY <2>1, <2>2, ActivatedSame
    <2> QED BY <2>1, <2>3 DEF Returns
<1>4. CASE Reject(i) \/ Expire(i)
    <2>1. record[i].status \notin Gone
        BY <1>4 DEF Reject, Expire, Gone
    <2>2. PICK new : record' = [record EXCEPT ![i] = new]
        BY <1>4 DEF Reject, Expire, ByHand, Maintains
    <2>3. j # i => record'[j] = record[j]
        BY <2>2, BatchTyped
    <2> QED BY <2>1, <2>3 DEF Returns
<1>5. CASE \E x, y \in audit : Restore(i, x, y)
    <2>1. PICK x \in audit, y \in audit : Restore(i, x, y)
        BY <1>5
    <2>2. Graded(record'[i]) = Graded(removed[i]) /\ (j # i => record'[j] = record[j])
        BY <2>1, RestoreKept
    <2> QED BY <2>2 DEF Returns
<1> QED BY <1>1, <1>2, <1>3, <1>4, <1>5

(* The items of a consolidation.  Activation touches no removed memory and  *)
(* no removal.                                                              *)
LEMMA ActivatedStaged ==
    ASSUME Base, NEW i \in Id, NEW s, Good(s.record, s.audit), ActivatedOrNot(i, s),
           Before(s.record, s.audit, now), NEW items, NEW targets, i \in items,
           Staging(record, audit, s.record, s.audit, items, targets)
    PROVE  /\ Before(stage'.record, stage'.audit, now)
           /\ Staging(record, audit, stage'.record, stage'.audit, items, targets)
<1>1. CASE stage' = s
    BY <1>1
<1>2. CASE Eligible(i, s.record[i], s.record, now)
           /\ \E reason \in Reason : stage' = Activated(i, s, reason, now)
    <2>1. PICK reason \in Reason : stage' = Activated(i, s, reason, now)
        BY <1>2
    <2>2. /\ s.record[i].status = "candidate"
          /\ Supersedes[i] # NoId => s.record[Supersedes[i]].status = "active"
        BY <1>2, EligibleFacts
    <2>3. s.record \in [Id -> Record]
        BY DEF Good
    <2>4. /\ \A j \in Id :
               /\ Rem(stage'.audit, j) = Rem(s.audit, j)
               /\ stage'.record[j].assessed = s.record[j].assessed
               /\ stage'.record[j].status \in Gone <=> s.record[j].status \in Gone
               /\ \/ stage'.record[j] = s.record[j]
                  \/ j = i
                  \/ stage'.record[j].status = "superseded"
               /\ s.record[j].status \in Gone => stage'.record[j] = s.record[j]
          /\ \A e \in stage'.audit : e \in s.audit \/ e.at = now
        BY <2>1, <2>2, <2>3, ActivatedSame
    <2>5. Before(stage'.record, stage'.audit, now)
        BY <2>4, BatchTyped DEF Before
    <2>6. ASSUME NEW j \in Id
          PROVE  StagedAt(j, record, audit, stage'.record, stage'.audit, items, targets)
        <3>1. StagedAt(j, record, audit, s.record, s.audit, items, targets)
            BY DEF Staging
        <3>2. j = i => j \in items
            OBVIOUS
        <3> QED BY <2>4, <3>1, <3>2 DEF StagedAt, Known
    <2> QED BY <2>5, <2>6 DEF Staging
<1> QED BY <1>1, <1>2 DEF ActivatedOrNot

(* Nothing of a memory was done before its item is taken. *)
LEMMA Untaken ==
    ASSUME Base, Kept, NEW i \in Id, i \notin batch.items
    PROVE  /\ Rem(stage.audit, i) = Rem(audit, i)
           /\ \A e \in Rem(stage.audit, i) : e.at < now
           /\ stage.record[i].status \in {"candidate", "active"} /\ i \notin batch.targets =>
                stage.record[i] = record[i]
<1>1. StagedAt(i, record, audit, stage.record, stage.audit, batch.items, batch.targets)
    BY DEF Kept, Staging
<1>2. Rem(stage.audit, i) = Rem(audit, i)
    BY <1>1 DEF StagedAt
<1>3. \A e \in Rem(audit, i) : e.at < now
    BY KeptFacts
<1>4. stage.record[i].status \in {"candidate", "active"} /\ i \notin batch.targets =>
        stage.record[i] = record[i]
    BY <1>1 DEF StagedAt
<1> QED BY <1>2, <1>3, <1>4

(* One record written on the stage. *)
LEMMA WrittenBefore ==
    ASSUME Base, Kept, NEW i \in Id, NEW new \in Record, NEW aud,
           new.assessed = now,
           \A e \in aud : e \in stage.audit \/ e.at = now,
           \A j \in Id : j # i => Rem(aud, j) = Rem(stage.audit, j),
           new.status \notin Gone => \A e \in Rem(aud, i) : e.at < now
    PROVE  Before([stage.record EXCEPT ![i] = new], aud, now)
<1> DEFINE rec == [stage.record EXCEPT ![i] = new]
<1>1. rec[i] = new /\ \A j \in Id : j # i => rec[j] = stage.record[j]
    BY BatchTyped
<1> HIDE DEF rec
<1>2. ASSUME NEW j \in Id
      PROVE  /\ rec[j].assessed <= now
             /\ rec[j].status \notin Gone => \A e \in Rem(aud, j) : e.at < rec[j].assessed
    <2>1. CASE j = i
        BY <1>1, <2>1, BatchTyped
    <2>2. CASE j # i
        BY <1>1, <2>2 DEF Kept, Before
    <2> QED BY <2>1, <2>2
<1>3. \A e \in aud : e.at <= now
    BY BatchTyped DEF Kept, Before
<1>4. Before(rec, aud, now)
    BY <1>2, <1>3 DEF Before
<1> QED BY <1>4 DEF rec

LEMMA WrittenStaged ==
    ASSUME Base, Kept, NEW i \in Id, NEW new \in Record, NEW aud, NEW targets,
           batch.targets \subseteq targets,
           \A j \in Id : j # i => Rem(aud, j) = Rem(stage.audit, j),
           record[i].status \notin Gone,
           new.status \in Gone => Known(record[i], aud, i)
    PROVE  Staging(record, audit, [stage.record EXCEPT ![i] = new], aud,
                   batch.items \cup {i}, targets)
<1> DEFINE rec == [stage.record EXCEPT ![i] = new]
           items == batch.items \cup {i}
<1>1. rec[i] = new /\ \A j \in Id : j # i => rec[j] = stage.record[j]
    BY BatchTyped
<1>2. i \in items /\ \A j \in Id : j \notin items => j # i /\ j \notin batch.items
    OBVIOUS
<1>3. \A j \in Id : j \notin items \cup targets => j # i /\ j \notin batch.items \cup batch.targets
    OBVIOUS
<1> HIDE DEF rec, items
<1>4. ASSUME NEW j \in Id PROVE StagedAt(j, record, audit, rec, aud, items, targets)
    <2>1. StagedAt(j, record, audit, stage.record, stage.audit, batch.items, batch.targets)
        BY DEF Kept, Staging
    <2>2. CASE j = i
        BY <1>1, <1>2, <1>3, <2>2 DEF StagedAt
    <2>3. CASE j # i
        BY <1>1, <1>2, <1>3, <2>1, <2>3 DEF StagedAt, Known
    <2> QED BY <2>2, <2>3
<1>5. Staging(record, audit, rec, aud, items, targets)
    BY <1>4 DEF Staging
<1> QED BY <1>5 DEF rec, items

(* The stage when the consolidation goes on. *)
LEMMA GoesOn ==
    ASSUME Base, Kept, now' = now, UNCHANGED ledger, UNCHANGED removed,
           Before(stage'.record, stage'.audit, now),
           Staging(record, audit, stage'.record, stage'.audit, batch'.items, batch'.targets)
    PROVE  Kept'
BY DEF Kept, ledger

LEMMA MoreTaken ==
    ASSUME NEW rec0, NEW aud0, NEW rec, NEW aud, NEW items, NEW targets, NEW i, NEW more,
           Staging(rec0, aud0, rec, aud, items, targets), targets \subseteq more
    PROVE  Staging(rec0, aud0, rec, aud, items \cup {i}, more)
BY DEF Staging, StagedAt

LEMMA RaisedKept ==
    ASSUME Base, Kept, Raised, UNCHANGED ledger, UNCHANGED removed
    PROVE  Kept'
<1>1. /\ record' = record /\ audit' = audit /\ stage'.record = record /\ stage'.audit = audit
      /\ now' = now + 1 /\ removed' = removed
    BY DEF Raised, ledger
<1>2. \A e \in audit : e.at < now + 1 /\ e.at <= now + 1
    BY KeptFacts
<1>3. \A i \in Id : record[i].assessed <= now + 1
    BY KeptFacts
<1>4. Before(record, audit, now + 1)
    BY <1>2, <1>3 DEF Kept, Before
<1>5. Staging(record, audit, record, audit, batch'.items, batch'.targets)
    BY Level
<1> QED BY <1>1, <1>2, <1>4, <1>5 DEF Kept

LEMMA CandidateKept ==
    ASSUME Base, Kept, NEW i \in Id, NEW c \in Candidate(i), TakeCandidate(i, c)
    PROVE  Kept' /\ record' = record
<1>1. i \notin batch.items /\ UNCHANGED <<ledger, removed>> /\ record' = record
    BY TakenCandidate DEF ledger
<1>2. CASE Raised
    BY <1>1, <1>2, RaisedKept
<1>3. CASE ~Raised
    <2> DEFINE items == batch.items \cup {i}
               targets == batch.targets \cup ({Supersedes[i]} \ {NoId})
    <2>1. now' = now /\ batch' = [batch EXCEPT !.items = items, !.targets = targets]
          /\ \/ stage' = stage
             \/ \E s : Created(i, c, s) /\ Good(s.record, s.audit) /\ ActivatedOrNot(i, s)
        BY <1>3, TakenCandidate
    <2>2. batch'.items = items /\ batch'.targets = targets
        BY <2>1, BatchTyped DEF Batches
    <2>3. Staging(record, audit, stage.record, stage.audit, items, targets)
          /\ Before(stage.record, stage.audit, now)
        BY MoreTaken DEF Kept
    <2>4. i \in items /\ batch.targets \subseteq targets
        OBVIOUS
    <2> HIDE DEF targets
    <2>5. CASE stage' = stage
        BY <1>1, <2>1, <2>2, <2>3, <2>5, GoesOn
    <2>6. CASE \E s : Created(i, c, s) /\ Good(s.record, s.audit) /\ ActivatedOrNot(i, s)
        <3>1. PICK s : Created(i, c, s) /\ Good(s.record, s.audit) /\ ActivatedOrNot(i, s)
            BY <2>6
        <3>2. /\ Before(s.record, s.audit, now)
              /\ Staging(record, audit, s.record, s.audit, items, targets)
            <4>1. CASE s = stage
                BY <2>3, <4>1
            <4>2. CASE s # stage
                <5> DEFINE new == Fresh(c, From(c.roles, batch.session), now)
                <5>1. new \in Record /\ new.status = "candidate" /\ new.assessed = now
                    BY BatchTyped, FreshTyped
                <5> HIDE DEF new
                <5>2. PICK e \in Audit : /\ e.id = i /\ e.action = "create" /\ e.at = now
                                         /\ s.audit = stage.audit \cup {e}
                    BY <3>1, <4>2 DEF Created
                <5>3. /\ stage.record[i].status = "absent"
                      /\ s.record = [stage.record EXCEPT ![i] = new]
                    BY <3>1, <4>2 DEF Created, new
                <5>4. \A j : Rem(s.audit, j) = Rem(stage.audit, j)
                    <6>1. stage.audit \subseteq s.audit
                          /\ \A d \in s.audit : d \in stage.audit \/ d.action = "create"
                        BY <5>2
                    <6> QED BY <6>1, RemKept
                <5>5. \A d \in Rem(s.audit, i) : d.at < now
                    BY <1>1, <5>4, Untaken
                <5>6. \A d \in s.audit : d \in stage.audit \/ d.at = now
                    BY <5>2
                <5>7. record[i].status \notin Gone
                    <6>1. StagedAt(i, record, audit, stage.record, stage.audit,
                                   batch.items, batch.targets)
                        BY DEF Kept, Staging
                    <6> QED BY <5>3, <6>1 DEF StagedAt, Gone
                <5>8. new.status \notin Gone
                    BY <5>1 DEF Gone
                <5>9. Before([stage.record EXCEPT ![i] = new], s.audit, now)
                    BY <5>1, <5>4, <5>5, <5>6, WrittenBefore
                <5>10. Staging(record, audit, [stage.record EXCEPT ![i] = new], s.audit,
                               batch.items \cup {i}, targets)
                    BY <2>4, <5>1, <5>4, <5>7, <5>8, WrittenStaged
                <5> QED BY <5>3, <5>9, <5>10
            <4> QED BY <4>1, <4>2
        <3>3. /\ Before(stage'.record, stage'.audit, now)
              /\ Staging(record, audit, stage'.record, stage'.audit, items, targets)
            BY <2>4, <3>1, <3>2, ActivatedStaged
        <3> QED BY <1>1, <2>1, <2>2, <3>3, GoesOn
    <2> QED BY <1>1, <2>1, <2>5, <2>6
<1> QED BY <1>1, <1>2, <1>3

LEMMA ReviewKept ==
    ASSUME Base, Kept, NEW i \in Id, NEW v \in Review, TakeReview(i, v)
    PROVE  Kept' /\ record' = record
<1>1. /\ i \notin batch.items /\ UNCHANGED <<ledger, removed>> /\ record' = record
      /\ record[i].status \in {"candidate", "active"}
    BY TakenReview DEF ledger
<1>2. CASE Raised
    BY <1>1, <1>2, RaisedKept
<1>3. CASE ~Raised
    <2> DEFINE items == batch.items \cup {i}
               r == stage.record[i]
               new == Reviewed(r, v, batch.session, now)
    <2>1. /\ now' = now /\ batch' = [batch EXCEPT !.items = items]
          /\ r.status \in {"candidate", "active"} /\ i \notin batch.targets
          /\ \E s : /\ s.record = [stage.record EXCEPT ![i] = new]
                    /\ \E e \in Audit :
                         /\ e.id = i /\ e.action = v.action /\ e.before = Graded(r) /\ e.at = now
                         /\ s.audit = stage.audit \cup {e}
                    /\ Good(s.record, s.audit) /\ ActivatedOrNot(i, s)
        BY <1>3, TakenReview
    <2>2. PICK s : /\ s.record = [stage.record EXCEPT ![i] = new]
                   /\ \E e \in Audit :
                        /\ e.id = i /\ e.action = v.action /\ e.before = Graded(r) /\ e.at = now
                        /\ s.audit = stage.audit \cup {e}
                   /\ Good(s.record, s.audit) /\ ActivatedOrNot(i, s)
        BY <2>1
    <2>3. PICK e \in Audit : /\ e.id = i /\ e.action = v.action /\ e.before = Graded(r)
                             /\ e.at = now /\ s.audit = stage.audit \cup {e}
        BY <2>2
    <2>4. batch'.items = items /\ batch'.targets = batch.targets /\ i \in items
        BY <2>1, BatchTyped DEF Batches
    <2>5. /\ new \in Record /\ new.assessed = now
          /\ new.status = CASE v.action = "reject" -> "rejected"
                             [] v.action = "expire" -> "expired"
                             [] OTHER -> r.status
        BY BatchTyped, ReviewedTyped
    <2>6. v.action \in {"support", "confirm", "reject", "expire"}
        BY ReviewTyped
    <2>7. /\ Rem(stage.audit, i) = Rem(audit, i)
          /\ \A d \in Rem(stage.audit, i) : d.at < now
          /\ r = record[i]
        BY <1>1, <2>1, Untaken
    <2> HIDE DEF new
    <2>8. \A j \in Id : j # i => Rem(s.audit, j) = Rem(stage.audit, j)
        BY <2>3, RemOther
    <2>9. new.status \notin Gone => \A d \in Rem(s.audit, i) : d.at < now
        <3>1. new.status \notin Gone => v.action \in {"support", "confirm"}
            BY <2>5, <2>6 DEF Gone
        <3>2. v.action \in {"support", "confirm"} => Rem(s.audit, i) = Rem(stage.audit, i)
            BY <2>3 DEF Rem
        <3> QED BY <2>7, <3>1, <3>2
    <2>10. new.status \in Gone => Known(record[i], s.audit, i)
        <3> SUFFICES ASSUME new.status \in Gone PROVE Known(record[i], s.audit, i)
            OBVIOUS
        <3>1. v.action \in {"reject", "expire"}
            BY <2>1, <2>5, <2>6 DEF Gone
        <3>2. Rem(s.audit, i) = Rem(stage.audit, i) \cup {e}
            BY <2>3, <3>1, RemOne
        <3>3. Rem(stage.audit, i) \subseteq Audit
            BY BatchTyped DEF Rem
        <3>4. \A x \in LastOf(Rem(stage.audit, i) \cup {e}) : x = e
            BY <2>3, <2>7, <3>3, LastRemoval
        <3> QED BY <2>3, <2>7, <3>2, <3>4 DEF Known
    <2>11. Before(s.record, s.audit, now)
        <3>1. \A d \in s.audit : d \in stage.audit \/ d.at = now
            BY <2>3
        <3>2. Before([stage.record EXCEPT ![i] = new], s.audit, now)
            BY <2>5, <2>8, <2>9, <3>1, WrittenBefore
        <3> QED BY <2>2, <3>2
    <2>12. Staging(record, audit, s.record, s.audit, items, batch.targets)
        <3>1. record[i].status \notin Gone
            BY <1>1 DEF Gone
        <3>2. Staging(record, audit, [stage.record EXCEPT ![i] = new], s.audit,
                      batch.items \cup {i}, batch.targets)
            BY <2>5, <2>8, <2>10, <3>1, WrittenStaged
        <3> QED BY <2>2, <3>2
    <2>13. /\ Before(stage'.record, stage'.audit, now)
           /\ Staging(record, audit, stage'.record, stage'.audit, items, batch.targets)
        BY <2>2, <2>4, <2>11, <2>12, ActivatedStaged
    <2> QED BY <1>1, <2>1, <2>4, <2>13, GoesOn
<1> QED BY <1>1, <1>2, <1>3

(* A consolidation brings no removed memory back, and what it removes is    *)
(* graded as it was before.                                                 *)
LEMMA CommitKept ==
    ASSUME Base, Kept, Commit
    PROVE  Kept' /\ \A j \in Id : ~Returns(j)
<1> DEFINE rec == stage.record
           aud == stage.audit
<1>1. /\ record' = rec /\ audit' = aud /\ stage' = stage /\ now' = now + 1
      /\ removed' = [i \in Id |-> IF rec[i].status \in Gone /\ record[i].status \notin Gone
                                    THEN record[i] ELSE removed[i]]
    BY DEF Commit
<1>2. \A j \in Id : StagedAt(j, record, audit, rec, aud, batch.items, batch.targets)
    BY DEF Kept, Staging
<1>3. aud \subseteq Audit /\ rec \in [Id -> Record] /\ record \in [Id -> Record] /\ now \in Nat
    BY BatchTyped
<1>4. \A e \in aud : e.at < now + 1 /\ e.at <= now + 1
    <2>1. \A e \in aud : e.at \in Nat /\ e.at <= now
        BY <1>3, TimeFacts DEF Kept, Before
    <2> QED BY <1>3, <2>1
<1>5. Before(rec, aud, now + 1)
    <2>1. ASSUME NEW i \in Id PROVE rec[i].assessed <= now + 1
        <3>1. rec[i].assessed \in Nat /\ rec[i].assessed <= now
            BY <1>3, TimeFacts DEF Kept, Before
        <3> QED BY <1>3, <3>1
    <2> QED BY <1>4, <2>1 DEF Kept, Before
<1>6. Staging(rec, aud, rec, aud, batch'.items, batch'.targets)
    BY Level
<1>7. removed' \in [Id -> Record]
    BY <1>1, <1>3 DEF Kept
<1>8. ASSUME NEW i \in Id, rec[i].status \in Gone PROVE Known(removed'[i], aud, i)
    <2>1. StagedAt(i, record, audit, rec, aud, batch.items, batch.targets)
        BY <1>2
    <2>2. CASE record[i].status \in Gone
        <3>1. removed'[i] = removed[i] /\ Rem(aud, i) = Rem(audit, i)
            BY <1>1, <2>1, <2>2 DEF StagedAt
        <3>2. Known(removed[i], audit, i)
            BY <2>2 DEF Kept, Remembered
        <3> QED BY <3>1, <3>2 DEF Known
    <2>3. CASE record[i].status \notin Gone
        <3>1. removed'[i] = record[i]
            BY <1>1, <1>8, <2>3
        <3> QED BY <1>8, <2>1, <2>3, <3>1 DEF StagedAt
    <2> QED BY <2>2, <2>3
<1>9. Remembered(rec, aud, removed')
    BY <1>8 DEF Remembered
<1>10. ASSUME NEW j \in Id PROVE ~Returns(j)
    <2>1. StagedAt(j, record, audit, rec, aud, batch.items, batch.targets)
        BY <1>2
    <2> QED BY <1>1, <2>1 DEF Returns, StagedAt
<1>11. Kept'
    <2> HIDE DEF rec, aud
    <2>1. stage'.record = rec /\ stage'.audit = aud
        BY <1>1 DEF rec, aud
    <2> QED BY <1>1, <1>4, <1>5, <1>6, <1>7, <1>9, <2>1 DEF Kept
<1> QED BY <1>10, <1>11

LEMMA OpenKept ==
    ASSUME Base, Kept, (\E t \in Time : Consolidate(t)) \/ TurnToReviews
    PROVE  Kept' /\ record' = record
<1>1. CASE \E t \in Time : Consolidate(t)
    <2>1. PICK t \in Time : Consolidate(t)
        BY <1>1
    <2>2. /\ record' = record /\ audit' = audit /\ removed' = removed /\ now' = now
          /\ stage'.record = record /\ stage'.audit = audit
        BY <2>1 DEF Consolidate, ledger
    <2>3. Staging(record, audit, record, audit, batch'.items, batch'.targets)
        BY Level
    <2> QED BY <2>2, <2>3 DEF Kept
<1>2. CASE TurnToReviews
    <2>1. batch' = [batch EXCEPT !.phase = "reviews"]
          /\ UNCHANGED <<now, record, audit, stage, removed>>
        BY <1>2 DEF TurnToReviews, ledger
    <2>2. batch'.items = batch.items /\ batch'.targets = batch.targets
        BY <2>1, BatchTyped DEF Batches
    <2> QED BY <2>1, <2>2 DEF Kept
<1> QED BY <1>1, <1>2

LEMMA InitKept == Init => Kept
<1> SUFFICES ASSUME Init PROVE Kept
    OBVIOUS
<1>1. /\ now = 0 /\ record = [i \in Id |-> Absent] /\ audit = {}
      /\ stage.record = record /\ stage.audit = audit /\ removed = record
    BY DEF Init
<1>2. record \in [Id -> Record] /\ \A i \in Id : record[i].assessed = 0 /\ record[i].status = "absent"
    BY <1>1, AbsentTyped
<1>3. \A i : Rem(audit, i) = {}
    BY <1>1 DEF Rem
<1>4. Before(record, audit, now)
    BY <1>1, <1>2, <1>3 DEF Before
<1>5. Remembered(record, audit, removed)
    BY <1>2 DEF Remembered, Gone
<1> QED BY <1>1, <1>2, <1>4, <1>5, Level DEF Kept

LEMMA StepKept ==
    ASSUME Base, Kept, [Next]_vars
    PROVE  /\ Kept'
           /\ \A j \in Id : Returns(j) => Graded(record'[j]) = Graded(removed[j])
<1>1. CASE UNCHANGED vars
    BY <1>1 DEF vars, ledger, Kept, Returns
<1>2. CASE \E s \in {t \in Time : t <= now /\ t >= now - MaxLag} : Consolidate(s)
    BY <1>2, OpenKept DEF Returns
<1>3. CASE TurnToReviews
    BY <1>3, OpenKept DEF Returns
<1>4. CASE \E i \in Id : \E c \in Candidate(i) : TakeCandidate(i, c)
    BY <1>4, CandidateKept DEF Returns
<1>5. CASE \E i \in Id : \E v \in Review : TakeReview(i, v)
    BY <1>5, ReviewKept DEF Returns
<1>6. CASE Commit
    BY <1>6, CommitKept
<1>7. CASE \E i \in Id :
              \/ \E c \in Candidate(i), st \in {"active", "candidate"} : Backfill(i, st, c)
              \/ \E c \in Class : ReviewPrivacy(i, c)
              \/ Activate(i) \/ Reject(i) \/ Expire(i)
              \/ \E x, y \in audit : Restore(i, x, y)
    BY <1>7, MaintenanceKept, MaintenanceReturns
<1> QED BY <1>1, <1>2, <1>3, <1>4, <1>5, <1>6, <1>7 DEF Next

(* A memory that is restored is graded as it was before its last removal,   *)
(* by a consolidation or by hand, however often it was removed before.      *)
THEOREM Restoration == Spec => RestoresGrading
<1>1. Base /\ Kept /\ [Next]_vars => Kept'
    BY StepKept
<1>2. Base /\ Kept /\ [Next]_vars =>
        [\A i \in Id : Returns(i) => Graded(record'[i]) = Graded(removed[i])]_vars
    BY StepKept
<1> QED BY <1>1, <1>2, InitKept, BaseHolds, PTL DEF Spec, RestoresGrading
=============================================================================

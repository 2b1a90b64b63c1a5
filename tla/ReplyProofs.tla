----------------------------- MODULE ReplyProofs -----------------------------
(***************************************************************************)
(* Theorems about Reply, for any requests, texts, windows and limits.      *)
(***************************************************************************)
EXTENDS Reply, FiniteSetTheorems, SequenceTheorems, WellFoundedInduction, TLAPS

(* A search is asked for in an attempt that may still be repeated. *)
Rounds ==
    /\ offered # {} => attempt <= RetryLimit
    /\ phase = "searching" => offered # {}
    /\ phase \in {"idle", "built"} => attempt = 0 /\ offered = {}

RInv == TypeOK /\ Rounds

LEMMA Limits == RetryLimit \in Nat /\ TimeoutRetries \in Nat /\ Tools \subseteq {"web", "lens"}
BY ReplyAssumption

LEMMA OfferTyped == \A s \in Source, p \in Pictures : Offer(s, p) \subseteq Tools
BY DEF Offer, Declares

LEMMA InitRInv == Init => RInv
<1> SUFFICES ASSUME Init PROVE RInv
    OBVIOUS
<1>1. /\ phase = "idle" /\ source = "dialogue" /\ pictures = "none" /\ attempt = 0
      /\ offered = {} /\ plain \in BOOLEAN /\ searched \in BOOLEAN /\ timeouts = 0
    BY DEF Init
<1> QED BY <1>1, Limits DEF RInv, TypeOK, Rounds, Source, Pictures

LEMMA StepRInv == RInv /\ [Next]_vars => RInv'
<1> SUFFICES ASSUME RInv, [Next]_vars PROVE RInv'
    OBVIOUS
<1>0. /\ source \in Source /\ pictures \in Pictures /\ attempt \in 0..(RetryLimit + 1)
      /\ timeouts \in 0..TimeoutRetries /\ offered \subseteq Tools
      /\ plain \in BOOLEAN /\ searched \in BOOLEAN
    BY DEF RInv, TypeOK
<1>1. CASE UNCHANGED vars
    BY <1>1 DEF vars, RInv, TypeOK, Rounds
<1>2. CASE Build
    <2>1. source' \in Source /\ pictures' \in Pictures /\ phase' \in {"built", "over"}
        BY <1>2 DEF Build, Over
    <2>2. phase = "idle" /\ UNCHANGED <<attempt, offered, plain, searched, timeouts>>
        BY <1>2 DEF Build
    <2> QED BY <2>1, <2>2 DEF RInv, TypeOK, Rounds
<1>3. CASE Ask
    <2>1. /\ attempt' = 0 /\ offered' = Offer(source, pictures) /\ plain' \in BOOLEAN
          /\ searched' \in BOOLEAN /\ phase' = "asking" /\ UNCHANGED <<source, pictures, timeouts>>
        BY <1>3 DEF Ask, Start
    <2> QED BY <1>0, <2>1, Limits, OfferTyped DEF RInv, TypeOK, Rounds
<1>4. CASE Fail
    <2>1. /\ source' = source
          /\ \/ /\ timeouts < TimeoutRetries /\ Again
             \/ WithoutPictures
             \/ \E e : GivesUp(e)
        BY <1>4 DEF Fail
    <2>2. CASE timeouts < TimeoutRetries /\ Again
        <3>1. /\ attempt' = 0 /\ offered' = {} /\ plain' \in BOOLEAN /\ searched' \in BOOLEAN
              /\ phase' = "asking" /\ timeouts' = timeouts + 1 /\ pictures' = pictures
            BY <2>2 DEF Again, Start
        <3>2. timeouts' \in 0..TimeoutRetries
            BY <1>0, <2>2, <3>1, Limits
        <3> QED BY <1>0, <2>1, <3>1, <3>2, Limits DEF RInv, TypeOK, Rounds
    <2>3. CASE WithoutPictures
        <3>1. /\ attempt' = 0 /\ offered' = Offer(source, pictures) /\ plain' \in BOOLEAN
              /\ searched' \in BOOLEAN /\ phase' = "asking" /\ timeouts' = timeouts
              /\ pictures' = "none" /\ "none" \in Pictures
            BY <2>3 DEF WithoutPictures, Start, Pictures
        <3> QED BY <1>0, <2>1, <3>1, Limits, OfferTyped DEF RInv, TypeOK, Rounds
    <2>4. CASE \E e : GivesUp(e)
        BY <1>0, <2>1, <2>4 DEF GivesUp, Over, RInv, TypeOK, Rounds
    <2> QED BY <2>1, <2>2, <2>3, <2>4
<1>5. CASE Answer
    <2>1. /\ \/ phase' = "searching" /\ offered # {}
             \/ phase' = "judging"
          /\ UNCHANGED <<source, pictures, attempt, offered, plain, searched, timeouts>>
        BY <1>5 DEF Answer
    <2> QED BY <1>0, <2>1 DEF RInv, TypeOK, Rounds
<1>6. CASE Search
    <2>1. /\ phase = "searching" /\ searched' \in BOOLEAN /\ offered' = {} /\ attempt' = attempt + 1
          /\ phase' = "asking" /\ UNCHANGED <<source, pictures, plain, timeouts>>
        BY <1>6 DEF Search
    <2>2. attempt <= RetryLimit
        BY <2>1 DEF RInv, Rounds
    <2>3. attempt' \in 0..(RetryLimit + 1)
        BY <1>0, <2>1, <2>2, Limits
    <2> QED BY <1>0, <2>1, <2>3 DEF RInv, TypeOK, Rounds
<1>7. CASE Judge
    <2>1. /\ \/ phase' = "over" /\ UNCHANGED <<attempt, plain>>
             \/ \E why : attempt < RetryLimit /\ Retry(why)
          /\ UNCHANGED <<source, pictures, offered, searched, timeouts>>
        BY <1>7 DEF Judge, Over
    <2>2. CASE phase' = "over" /\ UNCHANGED <<attempt, plain>>
        BY <1>0, <2>1, <2>2 DEF RInv, TypeOK, Rounds
    <2>3. CASE \E why : attempt < RetryLimit /\ Retry(why)
        <3>1. attempt < RetryLimit /\ attempt' = attempt + 1 /\ phase' = "asking" /\ plain' \in BOOLEAN
            BY <2>3 DEF Retry
        <3>2. attempt' \in 0..(RetryLimit + 1) /\ attempt' <= RetryLimit
            BY <1>0, <3>1, Limits
        <3> QED BY <1>0, <2>1, <3>1, <3>2 DEF RInv, TypeOK, Rounds
    <2> QED BY <2>1, <2>2, <2>3
<1>8. CASE End
    <2>1. /\ phase' = "idle" /\ source' = "dialogue" /\ pictures' = "none" /\ attempt' = 0
          /\ offered' = {} /\ plain' \in BOOLEAN /\ searched' \in BOOLEAN /\ timeouts' = 0
        BY <1>8 DEF End
    <2> QED BY <2>1, Limits DEF RInv, TypeOK, Rounds, Source, Pictures
<1> QED BY <1>1, <1>2, <1>3, <1>4, <1>5, <1>6, <1>7, <1>8 DEF Next, Step

(* Repeated attempts and the search round do not feed each other: a         *)
(* question is put at most once more than its structural retries allow, and *)
(* an opening waits for a silent provider no oftener than it may, whatever  *)
(* the provider answers (engine.py:generate_with_observation).              *)
THEOREM TypeCorrect == Spec => []TypeOK
<1>1. RInv => TypeOK
    BY DEF RInv
<1> QED BY <1>1, InitRInv, StepRInv, PTL DEF Spec

-----------------------------------------------------------------------------
(* Sums over a finite set, as the folds compute them. *)

Pick(s) == CHOOSE x \in s : TRUE
Adds(g, c, s) == IF s = {} THEN 0 ELSE c[Pick(s)] + g[s \ {Pick(s)}]
Summing(h, c, S) == h = [s \in SUBSET S |-> Adds(h, c, s)]
UpTo(S, k) == {s \in SUBSET S : Cardinality(s) <= k}
SummingUpTo(g, c, S, k) == g = [s \in UpTo(S, k) |-> Adds(g, c, s)]

LEMMA PickFacts ==
    ASSUME NEW S, IsFiniteSet(S), NEW s \in SUBSET S, s # {}
    PROVE  /\ Pick(s) \in s /\ s \ {Pick(s)} \in SUBSET S
           /\ \A x \in s : /\ IsFiniteSet(s \ {x}) /\ Cardinality(s) \in Nat
                           /\ Cardinality(s \ {x}) = Cardinality(s) - 1
                           /\ Cardinality(s) # 0
<1>1. Pick(s) \in s
    BY DEF Pick
<1>2. IsFiniteSet(s)
    BY FS_Subset
<1>3. Cardinality(s) \in Nat /\ Cardinality(s) # 0
    BY <1>2, FS_CardinalityType, FS_EmptySet
<1>4. \A x \in s : IsFiniteSet(s \ {x}) /\ Cardinality(s \ {x}) = Cardinality(s) - 1
    BY <1>2, FS_RemoveElement
<1> QED BY <1>1, <1>3, <1>4

LEMMA SummingAbove ==
    ASSUME NEW S, IsFiniteSet(S), NEW c, NEW k \in Nat, NEW h, SummingUpTo(h, c, S, k)
    PROVE  \E g : SummingUpTo(g, c, S, k + 1)
<1> DEFINE g == [s \in UpTo(S, k + 1) |->
                    IF Cardinality(s) = k + 1 THEN Adds(h, c, s) ELSE h[s]]
<1>1. ASSUME NEW s \in UpTo(S, k + 1)
      PROVE  Adds(g, c, s) = Adds(h, c, s)
    <2>1. CASE s = {}
        BY <2>1 DEF Adds
    <2>2. CASE s # {}
        <3> DEFINE t == s \ {Pick(s)}
        <3>1. /\ t \in SUBSET S /\ Cardinality(t) = Cardinality(s) - 1
              /\ Cardinality(s) \in Nat /\ Cardinality(s) <= k + 1
            BY <2>2, PickFacts DEF UpTo
        <3>2. t \in UpTo(S, k + 1) /\ Cardinality(t) # k + 1
            BY <3>1 DEF UpTo
        <3>3. g[t] = h[t]
            BY <3>2
        <3> HIDE DEF g
        <3> QED BY <2>2, <3>3 DEF Adds
    <2> QED BY <2>1, <2>2
<1>2. ASSUME NEW s \in UpTo(S, k + 1)
      PROVE  g[s] = Adds(g, c, s)
    <2>1. CASE Cardinality(s) = k + 1
        BY <1>1, <2>1
    <2>2. CASE Cardinality(s) # k + 1
        <3>1. Cardinality(s) \in Nat
            BY FS_Subset, FS_CardinalityType DEF UpTo
        <3>2. s \in UpTo(S, k)
            BY <2>2, <3>1 DEF UpTo
        <3>3. h[s] = Adds(h, c, s)
            BY <3>2 DEF SummingUpTo
        <3> QED BY <1>1, <2>2, <3>3
    <2> QED BY <2>1, <2>2
<1>3. g = [s \in UpTo(S, k + 1) |-> Adds(g, c, s)]
    BY <1>2
<1> QED BY <1>3 DEF SummingUpTo

LEMMA SummingExists ==
    ASSUME NEW S, IsFiniteSet(S), NEW c
    PROVE  \E h : Summing(h, c, S)
<1> DEFINE Bad == {j \in Nat : ~\E g : SummingUpTo(g, c, S, j)}
<1>1. Bad = {}
    <2> SUFFICES ASSUME Bad # {} PROVE FALSE
        OBVIOUS
    <2>1. PICK j \in Bad : \A i \in Bad : ~(<<i, j>> \in OpToRel(<, Nat))
        BY WFMin, NatLessThanWellFounded
    <2>2. CASE j = 0
        <3> DEFINE g == [s \in UpTo(S, 0) |-> 0]
        <3>1. \A s \in UpTo(S, 0) : s = {}
            <4> SUFFICES ASSUME NEW s \in UpTo(S, 0) PROVE s = {}
                OBVIOUS
            <4>1. IsFiniteSet(s) /\ Cardinality(s) \in Nat /\ Cardinality(s) <= 0
                BY FS_Subset, FS_CardinalityType DEF UpTo
            <4> QED BY <4>1, FS_EmptySet
        <3>2. \A s \in UpTo(S, 0) : Adds(g, c, s) = 0
            BY <3>1 DEF Adds
        <3>3. SummingUpTo(g, c, S, 0)
            BY <3>2 DEF SummingUpTo
        <3> QED BY <2>1, <2>2, <3>3
    <2>3. CASE j # 0
        <3>1. j \in Nat /\ j - 1 \in Nat /\ j - 1 < j /\ (j - 1) + 1 = j
            BY <2>3
        <3>2. j - 1 \notin Bad
            BY <2>1, <3>1 DEF OpToRel
        <3>3. PICK h : SummingUpTo(h, c, S, j - 1)
            BY <3>1, <3>2
        <3>4. \E g : SummingUpTo(g, c, S, (j - 1) + 1)
            BY <3>1, <3>3, SummingAbove
        <3> QED BY <2>1, <3>1, <3>4
    <2> QED BY <2>2, <2>3
<1>2. Cardinality(S) \in Nat
    BY FS_CardinalityType
<1>3. UpTo(S, Cardinality(S)) = SUBSET S
    <2>1. \A s \in SUBSET S : Cardinality(s) <= Cardinality(S)
        BY FS_Subset
    <2> QED BY <2>1 DEF UpTo
<1>4. PICK h : SummingUpTo(h, c, S, Cardinality(S))
    BY <1>1, <1>2
<1>5. Summing(h, c, S)
    BY <1>3, <1>4 DEF SummingUpTo, Summing
<1> QED BY <1>5

(* A sum does not depend on the order in which it picks. *)
LEMMA SumFacts ==
    ASSUME NEW S, IsFiniteSet(S), NEW c, \A x \in S : c[x] \in Nat,
           NEW h, Summing(h, c, S)
    PROVE  /\ h[{}] = 0
           /\ \A s \in SUBSET S : h[s] \in Nat
           /\ \A s \in SUBSET S : \A x \in s : h[s] = c[x] + h[s \ {x}]
<1> DEFINE Sound(k) == \A s \in SUBSET S : Cardinality(s) = k =>
                          h[s] \in Nat /\ \A x \in s : h[s] = c[x] + h[s \ {x}]
           Bad == {k \in Nat : ~Sound(k)}
<1>1. \A s \in SUBSET S : h[s] = Adds(h, c, s)
    BY DEF Summing
<1>2. h[{}] = 0
    BY <1>1 DEF Adds
<1>3. Bad = {}
    <2> SUFFICES ASSUME Bad # {} PROVE FALSE
        OBVIOUS
    <2> HIDE DEF Sound
    <2>1. PICK k \in Bad : \A i \in Bad : ~(<<i, k>> \in OpToRel(<, Nat))
        BY WFMin, NatLessThanWellFounded
    <2>2. k \in Nat /\ ~Sound(k)
        BY <2>1
    <2>3. \A i \in Nat : i < k => Sound(i)
        BY <2>1, <2>2 DEF OpToRel
    <2>4. ASSUME NEW s \in SUBSET S, Cardinality(s) = k
          PROVE  h[s] \in Nat /\ \A x \in s : h[s] = c[x] + h[s \ {x}]
        <3>1. CASE s = {}
            BY <1>2, <3>1
        <3>2. CASE s # {}
            <4> DEFINE p == Pick(s)
                       t == s \ {p}
            <4>0. p \in s /\ k # 0
                BY <2>4, <3>2, PickFacts
            <4> HIDE DEF p
            <4>1. h[s] = c[p] + h[t]
                BY <1>1, <3>2 DEF Adds, p
            <4>2. \A x \in s : s \ {x} \in SUBSET S /\ Cardinality(s \ {x}) = k - 1
                BY <2>4, <3>2, PickFacts
            <4>3. \A x \in s : /\ h[s \ {x}] \in Nat
                               /\ \A y \in s \ {x} : h[s \ {x}] = c[y] + h[(s \ {x}) \ {y}]
                <5>1. k - 1 \in Nat /\ k - 1 < k
                    BY <2>2, <4>0
                <5> QED BY <2>3, <4>2, <5>1 DEF Sound
            <4>4. h[s] \in Nat
                <5>1. c[p] \in Nat /\ h[t] \in Nat
                    BY <4>0, <4>3
                <5> QED BY <4>1, <5>1
            <4>5. ASSUME NEW x \in s, x # p PROVE h[s] = c[x] + h[s \ {x}]
                <5>1. x \in t /\ p \in s \ {x} /\ (s \ {x}) \ {p} = t \ {x}
                    BY <4>0, <4>5
                <5>2. h[t] = c[x] + h[t \ {x}]
                    BY <4>0, <4>3, <5>1
                <5>3. h[s \ {x}] = c[p] + h[t \ {x}]
                    BY <4>3, <5>1
                <5>4. c[x] \in Nat /\ c[p] \in Nat
                    BY <4>0
                <5>5. h[t \ {x}] \in Nat
                    <6>1. /\ t \in SUBSET S /\ Cardinality(t) = k - 1 /\ t # {}
                          /\ t \ {x} \in SUBSET S
                        BY <4>0, <4>2, <5>1
                    <6>2. /\ Cardinality(t \ {x}) = Cardinality(t) - 1
                          /\ Cardinality(t) \in Nat /\ Cardinality(t) # 0
                        <7>1. x \in t
                            BY <5>1
                        <7> HIDE DEF t
                        <7> QED BY <6>1, <7>1, PickFacts
                    <6>3. Cardinality(t \ {x}) \in Nat /\ Cardinality(t \ {x}) < k
                        BY <2>2, <6>1, <6>2
                    <6> QED BY <2>3, <6>1, <6>3 DEF Sound
                <5> HIDE DEF t
                <5> QED BY <4>1, <5>2, <5>3, <5>4, <5>5
            <4> QED BY <4>0, <4>1, <4>4, <4>5
        <3> QED BY <3>1, <3>2
    <2> QED BY <2>2, <2>4 DEF Sound
<1>4. \A s \in SUBSET S : Cardinality(s) \in Nat
    BY FS_Subset, FS_CardinalityType
<1>5. \A s \in SUBSET S : h[s] \in Nat /\ \A x \in s : h[s] = c[x] + h[s \ {x}]
    BY <1>3, <1>4
<1> QED BY <1>2, <1>5

(* A sum grows with what it adds, and depends on nothing else. *)
LEMMA SumMonotone ==
    ASSUME NEW S, IsFiniteSet(S), NEW c, \A x \in S : c[x] \in Nat,
           NEW h, Summing(h, c, S),
           NEW T, IsFiniteSet(T), NEW d, \A x \in T : d[x] \in Nat,
           NEW g, Summing(g, d, T),
           NEW u \in SUBSET (S \cap T), \A x \in u : c[x] <= d[x]
    PROVE  h[u] <= g[u]
<1> DEFINE Below(k) == \A s \in SUBSET u : Cardinality(s) = k => h[s] <= g[s]
           Bad == {k \in Nat : ~Below(k)}
<1>1. /\ h[{}] = 0 /\ g[{}] = 0
      /\ \A s \in SUBSET u : h[s] \in Nat /\ g[s] \in Nat
      /\ \A s \in SUBSET u : \A x \in s : h[s] = c[x] + h[s \ {x}] /\ g[s] = d[x] + g[s \ {x}]
    <2>1. \A s \in SUBSET u : s \in SUBSET S /\ s \in SUBSET T
        OBVIOUS
    <2>2. /\ h[{}] = 0
          /\ \A s \in SUBSET S : h[s] \in Nat
          /\ \A s \in SUBSET S : \A x \in s : h[s] = c[x] + h[s \ {x}]
        BY SumFacts
    <2>3. /\ g[{}] = 0
          /\ \A s \in SUBSET T : g[s] \in Nat
          /\ \A s \in SUBSET T : \A x \in s : g[s] = d[x] + g[s \ {x}]
        BY SumFacts
    <2> QED BY <2>1, <2>2, <2>3
<1>2. IsFiniteSet(u) /\ u \in SUBSET u
    BY FS_Subset
<1>3. \A x \in u : c[x] \in Nat /\ d[x] \in Nat /\ c[x] <= d[x]
    OBVIOUS
<1>4. Bad = {}
    <2> SUFFICES ASSUME Bad # {} PROVE FALSE
        OBVIOUS
    <2> HIDE DEF Below
    <2>1. PICK k \in Bad : \A i \in Bad : ~(<<i, k>> \in OpToRel(<, Nat))
        BY WFMin, NatLessThanWellFounded
    <2>2. k \in Nat /\ ~Below(k)
        BY <2>1
    <2>3. \A i \in Nat : i < k => Below(i)
        BY <2>1, <2>2 DEF OpToRel
    <2>4. ASSUME NEW s \in SUBSET u, Cardinality(s) = k PROVE h[s] <= g[s]
        <3>1. CASE s = {}
            BY <1>1, <3>1
        <3>2. CASE s # {}
            <4>1. PICK x \in s : TRUE
                BY <3>2
            <4>2. /\ s \ {x} \in SUBSET u
                  /\ Cardinality(s \ {x}) = k - 1 /\ k # 0
                BY <1>2, <2>4, <3>2, PickFacts
            <4>3. Cardinality(s \ {x}) \in Nat /\ Cardinality(s \ {x}) < k
                BY <2>2, <4>2
            <4>4. h[s \ {x}] <= g[s \ {x}]
                BY <2>3, <4>2, <4>3 DEF Below
            <4>5. h[s] = c[x] + h[s \ {x}] /\ g[s] = d[x] + g[s \ {x}]
                BY <1>1
            <4>6. /\ h[s \ {x}] \in Nat /\ g[s \ {x}] \in Nat
                  /\ c[x] \in Nat /\ d[x] \in Nat /\ c[x] <= d[x]
                BY <1>1, <1>3, <4>2
            <4> QED BY ONLY <4>4, <4>5, <4>6
        <3> QED BY <3>1, <3>2
    <2> QED BY <2>2, <2>4 DEF Below
<1>5. Cardinality(u) \in Nat
    BY <1>2, FS_CardinalityType
<1> QED BY <1>2, <1>4, <1>5

-----------------------------------------------------------------------------
(* What a context is made of costs. *)

Costing(h, S, r) ==
    h = [s \in SUBSET S |->
            IF s = {} THEN 0 ELSE Cost(S, Pick(s), r) + h[s \ {Pick(s)}]]
Costs(S, r) == MapThenSumSet(LAMBDA e : Cost(S, e, r), S)

LEMMA Limited ==
    /\ Event \subseteq Nat /\ IsFiniteSet(Event)
    /\ Preferred \in Nat /\ Maximum \in Nat /\ Reserve \in Nat /\ HistoryBudget \in Nat
    /\ WorkingMax \in Nat /\ MaxMemories \in Nat /\ ImageCost \in Nat /\ GapCost \in Nat
    /\ Header \in Nat /\ Join \in Nat
    /\ Size \in [Event -> Nat]
BY ContextAssumption

LEMMA CostType == \A S, r : \A e \in Event : Cost(S, e, r) \in Nat
BY Limited DEF Cost, Gap

LEMMA CostsAre ==
    ASSUME NEW S \in SUBSET Event, NEW r
    PROVE  LET c == [e \in S |-> Cost(S, e, r)]
           IN \E h : Summing(h, c, S) /\ Costs(S, r) = h[S]
<1> DEFINE c == [e \in S |-> Cost(S, e, r)]
<1>1. IsFiniteSet(S)
    BY Limited, FS_Subset
<1>2. \A h : Summing(h, c, S) <=> Costing(h, S, r)
    <2> SUFFICES ASSUME NEW h PROVE Summing(h, c, S) <=> Costing(h, S, r)
        OBVIOUS
    <2>1. \A s \in SUBSET S : Adds(h, c, s) =
                 IF s = {} THEN 0 ELSE Cost(S, Pick(s), r) + h[s \ {Pick(s)}]
        <3> SUFFICES ASSUME NEW s \in SUBSET S, s # {}
                     PROVE  c[Pick(s)] = Cost(S, Pick(s), r)
            BY DEF Adds
        <3>1. Pick(s) \in S
            BY DEF Pick
        <3> QED BY <3>1
    <2> HIDE DEF c
    <2> QED BY <2>1 DEF Summing, Costing
<1>3. \E h : Costing(h, S, r)
    BY <1>1, <1>2, SummingExists
<1>4. Costs(S, r) = (CHOOSE h : Costing(h, S, r))[S]
    BY DEF Costs, MapThenSumSet, MapThenFoldSet, Costing, Pick
<1> HIDE DEF c
<1>5. Costing(CHOOSE h : Costing(h, S, r), S, r)
    BY <1>3
<1>6. \E h : Summing(h, c, S) /\ Costs(S, r) = h[S]
    BY <1>2, <1>4, <1>5
<1> QED BY <1>6 DEF c

LEMMA CostsType ==
    ASSUME NEW S \in SUBSET Event, NEW r
    PROVE  Costs(S, r) \in Nat /\ (S = {} => Costs(S, r) = 0)
<1> DEFINE c == [e \in S |-> Cost(S, e, r)]
<1>1. IsFiniteSet(S) /\ \A e \in S : c[e] \in Nat
    BY Limited, FS_Subset, CostType
<1>2. PICK h : Summing(h, c, S) /\ Costs(S, r) = h[S]
    BY CostsAre
<1> HIDE DEF c
<1>3. h[{}] = 0 /\ \A s \in SUBSET S : h[s] \in Nat
    BY <1>1, <1>2, SumFacts
<1> QED BY <1>2, <1>3

(* An older event adds its own cost and changes no other. *)
LEMMA CostsOfOlder ==
    ASSUME NEW S \in SUBSET Event, NEW r, NEW e \in Event, \A x \in S : e < x
    PROVE  Costs(S \cup {e}, r) = Costs(S, r) + Cost(S, e, r)
<1> DEFINE T == S \cup {e}
           c == [x \in S |-> Cost(S, x, r)]
           d == [x \in T |-> Cost(T, x, r)]
<1>0. S \subseteq Nat /\ e \in Nat /\ e \notin S
    BY Limited
<1>1. \A x \in T : Cost(T, x, r) = Cost(S, x, r)
    <2> SUFFICES ASSUME NEW x \in T PROVE Cost(T, x, r) = Cost(S, x, r)
        OBVIOUS
    <2>1. {y \in T : y > x} = {y \in S : y > x}
        BY <1>0
    <2> HIDE DEF T
    <2>2. Gap(T, x, r) = Gap(S, x, r)
        BY <2>1 DEF Gap
    <2> QED BY <2>2 DEF Cost
<1>2. IsFiniteSet(S) /\ IsFiniteSet(T) /\ T \in SUBSET Event
    BY Limited, FS_Subset
<1>3. (\A x \in S : c[x] \in Nat) /\ (\A x \in T : d[x] \in Nat) /\ (\A x \in S : c[x] = d[x])
    BY <1>1, CostType
<1>4. PICK h : Summing(h, c, S) /\ Costs(S, r) = h[S]
    BY CostsAre
<1>5. PICK g : Summing(g, d, T) /\ Costs(T, r) = g[T]
    BY <1>2, CostsAre
<1>6. d[e] = Cost(S, e, r) /\ Cost(S, e, r) \in Nat
    BY <1>1, CostType
<1>7. S \in SUBSET (S \cap T) /\ S \in SUBSET (T \cap S) /\ T \ {e} = S /\ e \in T
    BY <1>0
<1> HIDE DEF c, d, T
<1>8. (\A x \in S : c[x] <= d[x]) /\ (\A x \in S : d[x] <= c[x])
    BY <1>3
<1>9. h[S] <= g[S]
    BY <1>2, <1>3, <1>4, <1>5, <1>7, <1>8, SumMonotone
<1>10. g[S] <= h[S]
    BY <1>2, <1>3, <1>4, <1>5, <1>7, <1>8, SumMonotone
<1>11. h[S] \in Nat
    BY <1>2, <1>3, <1>4, SumFacts
<1>12. \A s \in SUBSET T : g[s] \in Nat /\ \A x \in s : g[s] = d[x] + g[s \ {x}]
    BY <1>2, <1>3, <1>5, SumFacts
<1>13. g[S] \in Nat /\ g[T] = d[e] + g[S]
    <2>1. T \in SUBSET T /\ S \in SUBSET T
        BY <1>7
    <2> QED BY <1>7, <1>12, <2>1
<1>14. g[S] = h[S]
    BY <1>9, <1>10, <1>11, <1>13
<1>15. Costs(T, r) = Costs(S, r) + Cost(S, e, r)
    BY <1>4, <1>5, <1>6, <1>11, <1>13, <1>14
<1> QED BY <1>15 DEF T

LEMMA FirstIs ==
    ASSUME NEW s, NEW n \in Nat
    PROVE  \E h : Summing(h, s, 1..n) /\ First(s, n) = h[1..n]
<1>1. First(s, n) = (CHOOSE h : Summing(h, s, 1..n))[1..n]
    BY DEF First, MapThenSumSet, MapThenFoldSet, Summing, Adds, Pick
<1>2. IsFiniteSet(1..n)
    BY FS_Interval
<1> QED BY <1>1, <1>2, SummingExists

LEMMA SumOfInterval ==
    ASSUME NEW c, NEW n \in Nat, \A i \in 1..n : c[i] \in Nat, NEW h, Summing(h, c, 1..n)
    PROVE  \A u \in SUBSET (1..n) : h[u] \in Nat /\ \A x \in u : h[u] = c[x] + h[u \ {x}]
<1> DEFINE T == 1..n
<1>1. IsFiniteSet(T) /\ Summing(h, c, T)
    BY FS_Interval
<1>2. \A x \in T : c[x] \in Nat
    OBVIOUS
<1> HIDE DEF T
<1>3. \A u \in SUBSET T : h[u] \in Nat /\ \A x \in u : h[u] = c[x] + h[u \ {x}]
    BY <1>1, <1>2, SumFacts
<1> QED BY <1>3 DEF T

LEMMA FirstFacts ==
    ASSUME NEW s \in Seq(Nat)
    PROVE  /\ First(s, 0) = 0
           /\ \A n \in 0..Len(s) : First(s, n) \in Nat
           /\ \A n \in 0..(Len(s) - 1) : First(s, n) <= First(s, n + 1)
<1>0. Len(s) \in Nat /\ \A i \in 1..Len(s) : s[i] \in Nat
    BY LenProperties, ElementOfSeq
<1>1. ASSUME NEW n \in 0..Len(s) PROVE First(s, n) \in Nat
    <2>1. n \in Nat /\ IsFiniteSet(1..n) /\ \A i \in 1..n : s[i] \in Nat
        BY <1>0, FS_Interval
    <2>2. PICK h : Summing(h, s, 1..n) /\ First(s, n) = h[1..n]
        BY <2>1, FirstIs
    <2>3. \A u \in SUBSET (1..n) : h[u] \in Nat
        BY <2>1, <2>2, SumFacts
    <2> QED BY <2>2, <2>3
<1>2. First(s, 0) = 0
    <2>0. 1..0 = {}
        OBVIOUS
    <2>1. 1..0 = {} /\ IsFiniteSet(1..0) /\ \A i \in 1..0 : s[i] \in Nat
        BY <2>0, FS_EmptySet
    <2>2. PICK h : Summing(h, s, 1..0) /\ First(s, 0) = h[1..0]
        BY FirstIs
    <2>3. h[{}] = 0
        BY <2>1, <2>2, SumFacts
    <2> QED BY <2>1, <2>2, <2>3
<1>3. ASSUME NEW n \in 0..(Len(s) - 1) PROVE First(s, n) <= First(s, n + 1)
    <2>1. n \in Nat /\ n + 1 \in Nat /\ IsFiniteSet(1..n) /\ IsFiniteSet(1..(n + 1))
        BY <1>0, FS_Interval
    <2>2. PICK h : Summing(h, s, 1..n) /\ First(s, n) = h[1..n]
        BY <2>1, FirstIs
    <2>3. PICK g : Summing(g, s, 1..(n + 1)) /\ First(s, n + 1) = g[1..(n + 1)]
        BY <2>1, FirstIs
    <2>4. (\A i \in 1..n : s[i] \in Nat) /\ (\A i \in 1..(n + 1) : s[i] \in Nat)
        BY <1>0
    <2>5. 1..n \in SUBSET ((1..n) \cap (1..(n + 1))) /\ \A i \in 1..n : s[i] <= s[i]
        BY <2>1, <2>4
    <2>6. h[1..n] <= g[1..n]
        BY <2>1, <2>2, <2>3, <2>4, <2>5, SumMonotone
    <2>7. n + 1 \in 1..(n + 1) /\ (1..(n + 1)) \ {n + 1} = 1..n
        BY <2>1
    <2>8. g[1..(n + 1)] = s[n + 1] + g[1..n] /\ g[1..n] \in Nat
        <3>1. \A u \in SUBSET (1..(n + 1)) : g[u] \in Nat /\ \A x \in u : g[u] = s[x] + g[u \ {x}]
            <4> DEFINE m == n + 1
            <4>1. m \in Nat /\ Summing(g, s, 1..m)
                BY <2>1, <2>3
            <4>2. \A i \in 1..m : s[i] \in Nat
                BY <2>4
            <4> HIDE DEF m
            <4>3. \A u \in SUBSET (1..m) : g[u] \in Nat /\ \A x \in u : g[u] = s[x] + g[u \ {x}]
                BY ONLY <4>1, <4>2, SumOfInterval
            <4> QED BY <4>3 DEF m
        <3>2. 1..(n + 1) \in SUBSET (1..(n + 1)) /\ 1..n \in SUBSET (1..(n + 1))
            BY <2>5
        <3> QED BY <2>7, <3>1, <3>2
    <2>9. h[1..n] \in Nat /\ s[n + 1] \in Nat
        BY <1>1, <2>2, <2>4, <2>7, <1>0
    <2> QED BY <2>2, <2>3, <2>6, <2>8, <2>9
<1> QED BY <1>1, <1>2, <1>3

LEMMA FirstGrows ==
    ASSUME NEW s \in Seq(Nat), NEW m \in 0..Len(s), NEW n \in 0..m
    PROVE  First(s, n) <= First(s, m)
<1>0. Len(s) \in Nat /\ m \in Nat /\ n \in Nat /\ n <= m /\ m <= Len(s)
    BY LenProperties
<1> DEFINE Bad == {k \in n..m : ~(First(s, n) <= First(s, k))}
<1>1. Bad = {}
    <2> SUFFICES ASSUME Bad # {} PROVE FALSE
        OBVIOUS
    <2>0. Bad \subseteq Nat
        BY <1>0
    <2>1. PICK k \in Bad : \A i \in Bad : ~(<<i, k>> \in OpToRel(<, Nat))
        BY <2>0, WFMin, NatLessThanWellFounded
    <2>2. k \in n..m /\ k \in Nat /\ ~(First(s, n) <= First(s, k))
        BY <2>0, <2>1
    <2>3. First(s, n) \in Nat /\ First(s, k) \in Nat
        BY <1>0, <2>2, FirstFacts
    <2>4. /\ k # n /\ k - 1 \in n..m /\ k - 1 \in Nat /\ k - 1 < k
          /\ k - 1 \in 0..(Len(s) - 1) /\ (k - 1) + 1 = k
        BY <1>0, <2>2, <2>3
    <2>5. First(s, n) <= First(s, k - 1)
        BY <2>0, <2>1, <2>4 DEF OpToRel
    <2>6. First(s, k - 1) <= First(s, k) /\ First(s, k - 1) \in Nat
        BY <1>0, <2>4, FirstFacts
    <2> QED BY <2>2, <2>3, <2>5, <2>6
<1>2. m \in n..m
    BY <1>0
<1> QED BY <1>1, <1>2

-----------------------------------------------------------------------------
(* The newest events. *)

LEMMA MinFacts ==
    ASSUME NEW S, S \subseteq Nat, S # {}
    PROVE  \E m \in S : \A x \in S : m <= x
<1>1. PICK m \in S : \A k \in S : ~(<<k, m>> \in OpToRel(<, Nat))
    BY WFMin, NatLessThanWellFounded
<1>2. \A k \in S : ~(k < m)
    BY <1>1 DEF OpToRel
<1>3. \A k \in S : m <= k
    BY <1>2
<1> QED BY <1>3

LEMMA MaxFacts ==
    ASSUME NEW S, S \subseteq Nat, S # {}, NEW b \in Nat, \A x \in S : x <= b
    PROVE  Max(S) \in S /\ \A x \in S : x <= Max(S)
<1> DEFINE U == {k \in Nat : \A x \in S : x <= k}
<1>1. U \subseteq Nat /\ U # {}
    OBVIOUS
<1>2. PICK u \in U : \A k \in U : u <= k
    BY <1>1, MinFacts
<1>3. u \in S
    <2> SUFFICES ASSUME u \notin S PROVE FALSE
        OBVIOUS
    <2>1. u \in Nat /\ \A y \in S : y <= u /\ y \in Nat /\ y # u
        BY <1>2
    <2> PICK w \in S : TRUE
        OBVIOUS
    <2>2. u # 0
        BY <2>1
    <2>3. u - 1 \in U /\ u - 1 < u
        BY <2>1, <2>2
    <2> QED BY <1>2, <2>1, <2>3
<1>4. \E x \in S : \A y \in S : x >= y
    BY <1>2, <1>3
<1> QED BY <1>4 DEF Max

LEMMA FiniteMax ==
    ASSUME NEW S, S \subseteq Event, S # {}
    PROVE  Max(S) \in S /\ \A x \in S : x <= Max(S)
<1>1. IsFiniteSet(S) /\ S \subseteq Nat
    BY Limited, FS_Subset
<1> DEFINE Above(e) == {x \in S : x > e}
           K == {Cardinality(Above(e)) : e \in S}
<1>2. \A e \in S : IsFiniteSet(Above(e)) /\ Cardinality(Above(e)) \in Nat
    BY <1>1, FS_Subset, FS_CardinalityType
<1>3. PICK m \in S : \A e \in S : Cardinality(Above(m)) <= Cardinality(Above(e))
    <2>1. K \subseteq Nat /\ K # {}
        BY <1>2
    <2>2. PICK k \in K : \A j \in K : k <= j
        <3> HIDE DEF K
        <3> QED BY <2>1, MinFacts
    <2> QED BY <2>2
<1>4. Above(m) = {}
    <2> SUFFICES ASSUME NEW y \in Above(m) PROVE FALSE
        OBVIOUS
    <2>1. y \in S /\ y > m /\ Above(y) \subseteq Above(m) \ {y}
        <3>1. y \in S /\ y > m /\ y \in Nat /\ m \in Nat
            BY <1>1
        <3>2. ASSUME NEW x \in Above(y) PROVE x \in Above(m) \ {y}
            <4>1. x \in S /\ x \in Nat /\ x > y
                BY <1>1
            <4> QED BY <3>1, <4>1
        <3> QED BY <3>1, <3>2
    <2> HIDE DEF Above
    <2>2. /\ IsFiniteSet(Above(m) \ {y})
          /\ Cardinality(Above(m) \ {y}) = Cardinality(Above(m)) - 1
        BY <1>2, FS_RemoveElement
    <2>3. Cardinality(Above(y)) <= Cardinality(Above(m) \ {y})
        BY <2>1, <2>2, FS_Subset
    <2>4. Cardinality(Above(m)) \in Nat /\ Cardinality(Above(y)) \in Nat
        BY <1>2, <2>1
    <2> QED BY <1>3, <2>1, <2>2, <2>3, <2>4
<1>5. m \in Nat /\ \A x \in S : x <= m
    BY <1>1, <1>4
<1> QED BY <1>1, <1>5, MaxFacts

Above(S, e) == {x \in S : x > e}

LEMMA NewestSubset ==
    ASSUME NEW S, NEW n
    PROVE  Newest(S, n) \subseteq S
BY DEF Newest

(* The newest n + 1 are the newest n and the newest of the others. *)
LEMMA NewestStep ==
    ASSUME NEW S \in SUBSET Event, NEW n \in Nat, n < Cardinality(S),
           Cardinality(Newest(S, n)) = n
    PROVE  LET m == Max(S \ Newest(S, n))
           IN /\ m \in S \ Newest(S, n)
              /\ \A x \in Newest(S, n) : m < x
              /\ Newest(S, n + 1) = Newest(S, n) \cup {m}
              /\ Cardinality(Newest(S, n + 1)) = n + 1
<1> DEFINE T == Newest(S, n)
           m == Max(S \ T)
<1>1. /\ S \subseteq Nat /\ IsFiniteSet(S) /\ T \subseteq S /\ IsFiniteSet(T)
    BY Limited, FS_Subset, NewestSubset
<1>2. \A e \in S : IsFiniteSet(Above(S, e)) /\ Cardinality(Above(S, e)) \in Nat
    BY <1>1, FS_Subset, FS_CardinalityType DEF Above
<1>3. \A e \in S : e \in T <=> Cardinality(Above(S, e)) < n
    BY DEF Newest, Above
<1>4. Cardinality(T) = n /\ Cardinality(S) > n /\ Cardinality(S) \in Nat
    BY <1>1, FS_CardinalityType
<1>5. S \ T # {}
    BY <1>1, <1>4
<1> HIDE DEF T
<1>6. m \in S /\ m \notin T /\ \A x \in S \ T : x <= m
    <2>1. S \ T \subseteq Event
        BY <1>1
    <2>2. m \in S \ T /\ \A x \in S \ T : x <= m
        BY <1>5, <2>1, FiniteMax
    <2> QED BY <2>2
<1> HIDE DEF m
<1>0. m \in Nat /\ \A x \in S : x \in Nat
    BY <1>1, <1>6
<1>7. ASSUME NEW x \in T PROVE m < x
    <2> SUFFICES ASSUME x < m PROVE FALSE
        BY <1>1, <1>6
    <2>1. Above(S, m) \subseteq Above(S, x)
        <3>1. x \in Nat
            BY <1>0, <1>1
        <3>2. \A y \in S : y > m => y > x
            BY <1>0, <3>1
        <3> QED BY <3>2 DEF Above
    <2>2. Cardinality(Above(S, m)) <= Cardinality(Above(S, x))
        BY <1>1, <1>2, <2>1, FS_Subset
    <2> QED BY <1>1, <1>2, <1>3, <1>6, <2>2
<1>8. Above(S, m) = T
    <2>1. \A x \in S : x > m => x \in T
        BY <1>0, <1>6
    <2>2. \A x \in T : x \in S /\ x > m
        BY <1>0, <1>1, <1>7
    <2> QED BY <2>1, <2>2 DEF Above
<1>9. ASSUME NEW y \in S \ T, y # m PROVE ~(Cardinality(Above(S, y)) < n + 1)
    <2>1. T \cup {m} \subseteq Above(S, y)
        <3>1. y < m
            BY <1>1, <1>6, <1>9
        <3> QED BY <1>1, <1>6, <1>7, <3>1 DEF Above
    <2>2. Cardinality(T \cup {m}) = n + 1
        BY <1>1, <1>4, <1>6, FS_AddElement
    <2>3. Cardinality(T \cup {m}) <= Cardinality(Above(S, y))
        BY <1>2, <2>1, FS_Subset
    <2> QED BY <1>2, <2>2, <2>3
<1>10. \A e \in S : e \in Newest(S, n + 1) <=> Cardinality(Above(S, e)) < n + 1
    BY DEF Newest, Above
<1>11. Newest(S, n + 1) = T \cup {m}
    <2>1. \A e \in T : e \in Newest(S, n + 1)
        BY <1>1, <1>2, <1>3, <1>10
    <2>2. m \in Newest(S, n + 1)
        BY <1>4, <1>6, <1>8, <1>10
    <2>3. \A e \in S : e \in Newest(S, n + 1) => e \in T \/ e = m
        BY <1>9, <1>10
    <2>4. Newest(S, n + 1) \subseteq S
        BY NewestSubset
    <2> QED BY <2>1, <2>2, <2>3, <2>4
<1>12. Cardinality(Newest(S, n + 1)) = n + 1
    BY <1>1, <1>4, <1>6, <1>11, FS_AddElement
<1> QED BY <1>6, <1>7, <1>11, <1>12 DEF T, m

LEMMA NewestCounts ==
    ASSUME NEW S \in SUBSET Event, NEW n \in 0..Cardinality(S)
    PROVE  Cardinality(Newest(S, n)) = n
<1> DEFINE Bad == {k \in 0..Cardinality(S) : Cardinality(Newest(S, k)) # k}
<1>0. Cardinality(S) \in Nat /\ IsFiniteSet(S)
    BY Limited, FS_Subset, FS_CardinalityType
<1>1. Bad = {}
    <2> SUFFICES ASSUME Bad # {} PROVE FALSE
        OBVIOUS
    <2>0. Bad \subseteq Nat
        BY <1>0
    <2>1. PICK k \in Bad : \A i \in Bad : ~(<<i, k>> \in OpToRel(<, Nat))
        BY <2>0, WFMin, NatLessThanWellFounded
    <2>2. k \in 0..Cardinality(S) /\ k \in Nat /\ Cardinality(Newest(S, k)) # k
        BY <2>0, <2>1
    <2>3. CASE k = 0
        <3>1. Newest(S, 0) = {}
            <4>1. \A e \in S : Cardinality({x \in S : x > e}) \in Nat
                BY <1>0, FS_Subset, FS_CardinalityType
            <4> QED BY <4>1 DEF Newest
        <3> QED BY <2>2, <2>3, <3>1, FS_EmptySet
    <2>4. CASE k # 0
        <3>1. /\ k - 1 \in 0..Cardinality(S) /\ k - 1 \in Nat /\ k - 1 < k /\ (k - 1) + 1 = k
              /\ k - 1 < Cardinality(S)
            BY <1>0, <2>2, <2>4
        <3>2. Cardinality(Newest(S, k - 1)) = k - 1
            BY <2>0, <2>1, <3>1 DEF OpToRel
        <3>3. Cardinality(Newest(S, (k - 1) + 1)) = (k - 1) + 1
            BY <3>1, <3>2, NewestStep
        <3> QED BY <2>2, <3>1, <3>3
    <2> QED BY <2>3, <2>4
<1> QED BY <1>1

LEMMA NewestAll ==
    ASSUME NEW S \in SUBSET Event
    PROVE  Newest(S, Cardinality(S)) = S
<1>0. IsFiniteSet(S)
    BY Limited, FS_Subset
<1>1. IsFiniteSet(S) /\ Cardinality(S) \in 0..Cardinality(S)
    BY <1>0, FS_CardinalityType
<1>2. Cardinality(Newest(S, Cardinality(S))) = Cardinality(S)
    BY <1>1, NewestCounts
<1>3. Newest(S, Cardinality(S)) \subseteq S
    BY NewestSubset
<1> QED BY <1>1, <1>2, <1>3, FS_Subset

LEMMA NewestGrows ==
    ASSUME NEW S \in SUBSET Event, NEW m \in Nat, NEW n \in Nat, n <= m
    PROVE  Newest(S, n) \subseteq Newest(S, m)
<1>1. \A e \in S : Cardinality({x \in S : x > e}) \in Nat
    BY Limited, FS_Subset, FS_CardinalityType
<1> QED BY <1>1 DEF Newest

(* The newest of the newest are the newest. *)
LEMMA NewestOfNewest ==
    ASSUME NEW S \in SUBSET Event, NEW m \in Nat, NEW n \in Nat, n <= m
    PROVE  Newest(Newest(S, m), n) = Newest(S, n)
<1> DEFINE T == Newest(S, m)
<1>1. S \subseteq Nat /\ IsFiniteSet(S) /\ T \subseteq S
    BY Limited, FS_Subset, NewestSubset
<1>2. \A e \in S : IsFiniteSet(Above(S, e)) /\ Cardinality(Above(S, e)) \in Nat
    BY <1>1, FS_Subset, FS_CardinalityType DEF Above
<1>3. \A e \in S : e \in T <=> Cardinality(Above(S, e)) < m
    BY DEF Newest, Above
<1> HIDE DEF T
<1>4. ASSUME NEW e \in T PROVE Above(T, e) = Above(S, e)
    <2>1. ASSUME NEW x \in S, x > e PROVE x \in T
        <3>1. Above(S, x) \subseteq Above(S, e) /\ e \in S
            <4>1. x \in Nat /\ e \in Nat /\ e \in S
                BY <1>1
            <4>2. \A y \in S : y \in Nat /\ (y > x => y > e)
                BY <1>1, <2>1, <4>1
            <4> QED BY <4>1, <4>2 DEF Above
        <3>2. Cardinality(Above(S, x)) <= Cardinality(Above(S, e))
            BY <1>2, <3>1, FS_Subset
        <3> QED BY <1>2, <1>3, <3>1, <3>2
    <2> QED BY <1>1, <2>1 DEF Above
<1>5. Newest(S, n) \subseteq T
    BY NewestGrows DEF T
<1>6. Newest(T, n) = {e \in T : Cardinality(Above(T, e)) < n}
    BY DEF Newest, Above
<1>7. Newest(S, n) = {e \in S : Cardinality(Above(S, e)) < n}
    BY DEF Newest, Above
<1>8. Newest(T, n) = Newest(S, n)
    BY <1>1, <1>4, <1>5, <1>6, <1>7
<1> QED BY <1>8 DEF T

-----------------------------------------------------------------------------
(* The longest prefix, and the search for it by halving. *)

(* k is the most records of s that fit. *)
IsMost(s, room, k) ==
    /\ k \in 0..Len(s)
    /\ First(s, k) <= room
    /\ \A n \in 0..Len(s) : First(s, n) <= room => n <= k

LEMMA MostIsMax ==
    ASSUME NEW s \in Seq(Nat), NEW room \in Nat, NEW k, IsMost(s, room, k)
    PROVE  k = Max({n \in 0..Len(s) : First(s, n) <= room})
<1> DEFINE S == {n \in 0..Len(s) : First(s, n) <= room}
<1>1. Len(s) \in Nat /\ S \subseteq Nat /\ k \in S /\ \A n \in S : n <= k
    BY LenProperties DEF IsMost
<1> HIDE DEF S
<1>2. Max(S) \in S /\ \A n \in S : n <= Max(S)
    BY <1>1, MaxFacts
<1>3. k = Max(S)
    <2>1. k \in Nat /\ Max(S) \in Nat /\ k <= Max(S) /\ Max(S) <= k
        BY <1>1, <1>2
    <2> QED BY <2>1
<1> QED BY <1>3 DEF S

LEMMA PrefixFacts ==
    ASSUME NEW s \in Seq(Nat), NEW room \in Nat
    PROVE  IsMost(s, room, Prefix(s, room))
<1> DEFINE S == {n \in 0..Len(s) : First(s, n) <= room}
<1>1. Len(s) \in Nat /\ S \subseteq Nat /\ \A n \in S : n <= Len(s)
    BY LenProperties
<1>2. 0 \in S
    BY <1>1, FirstFacts
<1> HIDE DEF S
<1>3. Max(S) \in S /\ \A n \in S : n <= Max(S)
    BY <1>1, <1>2, MaxFacts
<1>4. Prefix(s, room) = Max(S)
    BY DEF Prefix, S
<1> QED BY <1>3, <1>4 DEF IsMost, S

Ranges(s) == (1..(Len(s) + 1)) \X (0..Len(s))
Half(g, s, range) ==
    LET low == range[1]
        high == range[2]
        middle == (low + high) \div 2
    IN IF low > high THEN low - 1
       ELSE IF First(s, middle) <= WorkingMax THEN g[<<middle + 1, high>>]
       ELSE g[<<low, middle - 1>>]
Halving(g, s) == g = [range \in Ranges(s) |-> Half(g, s, range)]
Within(s, k) == {range \in Ranges(s) : range[2] - range[1] + 1 <= k}
HalvingWithin(g, s, k) == g = [range \in Within(s, k) |-> Half(g, s, range)]

LEMMA HalfFacts ==
    ASSUME NEW s \in Seq(Nat), NEW range \in Ranges(s), range[1] <= range[2]
    PROVE  LET middle == (range[1] + range[2]) \div 2
           IN /\ middle \in range[1]..range[2]
              /\ <<middle + 1, range[2]>> \in Ranges(s)
              /\ <<range[1], middle - 1>> \in Ranges(s)
<1> DEFINE low == range[1]
           high == range[2]
           middle == (low + high) \div 2
<1>1. /\ Len(s) \in Nat /\ low \in 1..(Len(s) + 1) /\ high \in 0..Len(s) /\ low <= high
      /\ low \in Nat /\ high \in Nat
    BY LenProperties DEF Ranges
<1>2. middle \in Int /\ low <= middle /\ middle <= high
    <2> HIDE DEF low, high
    <2> QED BY <1>1
<1> HIDE DEF low, high, middle
<1>3. middle + 1 \in 1..(Len(s) + 1) /\ middle - 1 \in 0..Len(s)
    BY <1>1, <1>2
<1>4. /\ middle \in low..high
      /\ <<middle + 1, high>> \in Ranges(s) /\ <<low, middle - 1>> \in Ranges(s)
    BY <1>1, <1>2, <1>3 DEF Ranges
<1> QED BY <1>4 DEF low, high, middle

LEMMA HalvingAbove ==
    ASSUME NEW s \in Seq(Nat), NEW k \in Nat, NEW h, HalvingWithin(h, s, k)
    PROVE  \E g : HalvingWithin(g, s, k + 1)
<1> DEFINE g == [range \in Within(s, k + 1) |->
                    IF range[2] - range[1] + 1 = k + 1 THEN Half(h, s, range) ELSE h[range]]
<1>1. ASSUME NEW range \in Within(s, k + 1)
      PROVE  Half(g, s, range) = Half(h, s, range)
    <2> DEFINE middle == (range[1] + range[2]) \div 2
    <2>1. /\ range \in Ranges(s) /\ range[2] - range[1] + 1 <= k + 1
          /\ range[1] \in Nat /\ range[2] \in Nat
        BY LenProperties DEF Within, Ranges
    <2>2. CASE range[1] > range[2]
        BY <2>2 DEF Half
    <2>3. CASE range[1] <= range[2]
        <3>1. /\ middle \in range[1]..range[2]
              /\ <<middle + 1, range[2]>> \in Ranges(s)
              /\ <<range[1], middle - 1>> \in Ranges(s)
            BY <2>1, <2>3, HalfFacts
        <3> HIDE DEF middle, g
        <3>2. range[2] - (middle + 1) + 1 <= k /\ (middle - 1) - range[1] + 1 <= k
            BY <2>1, <3>1
        <3>3. /\ <<middle + 1, range[2]>> \in Within(s, k + 1)
              /\ <<range[1], middle - 1>> \in Within(s, k + 1)
            <4>1. middle \in Int
                BY <2>1, <3>1
            <4>2. range[2] - (middle + 1) + 1 <= k + 1 /\ (middle - 1) - range[1] + 1 <= k + 1
                BY <2>1, <3>2, <4>1
            <4>3. \A a, b : <<a, b>>[1] = a /\ <<a, b>>[2] = b
                OBVIOUS
            <4> QED BY <3>1, <4>2, <4>3 DEF Within
        <3>4. /\ g[<<middle + 1, range[2]>>] = h[<<middle + 1, range[2]>>]
              /\ g[<<range[1], middle - 1>>] = h[<<range[1], middle - 1>>]
            <4>1. range[2] - (middle + 1) + 1 # k + 1 /\ (middle - 1) - range[1] + 1 # k + 1
                BY <2>1, <3>1, <3>2
            <4> QED BY <3>3, <4>1 DEF g
        <3> QED BY <3>4 DEF Half, middle
    <2> QED BY <2>1, <2>2, <2>3
<1>2. ASSUME NEW range \in Within(s, k + 1)
      PROVE  g[range] = Half(g, s, range)
    <2>1. CASE range[2] - range[1] + 1 = k + 1
        BY <1>1, <2>1
    <2>2. CASE range[2] - range[1] + 1 # k + 1
        <3>1. range[1] \in Nat /\ range[2] \in Nat
            BY LenProperties DEF Within, Ranges
        <3>2. range \in Within(s, k)
            BY <2>2, <3>1 DEF Within
        <3>3. h[range] = Half(h, s, range)
            BY <3>2 DEF HalvingWithin
        <3> QED BY <1>1, <2>2, <3>3
    <2> QED BY <2>1, <2>2
<1>3. g = [range \in Within(s, k + 1) |-> Half(g, s, range)]
    BY <1>2
<1> QED BY <1>3 DEF HalvingWithin

LEMMA HalvingExists ==
    ASSUME NEW s \in Seq(Nat)
    PROVE  \E g : Halving(g, s)
<1> DEFINE Bad == {j \in Nat : ~\E g : HalvingWithin(g, s, j)}
<1>1. Bad = {}
    <2> SUFFICES ASSUME Bad # {} PROVE FALSE
        OBVIOUS
    <2>1. PICK j \in Bad : \A i \in Bad : ~(<<i, j>> \in OpToRel(<, Nat))
        BY WFMin, NatLessThanWellFounded
    <2>2. CASE j = 0
        <3> DEFINE g == [range \in Within(s, 0) |-> range[1] - 1]
        <3>1. \A range \in Within(s, 0) : range[1] > range[2]
            BY LenProperties DEF Within, Ranges
        <3>2. \A range \in Within(s, 0) : Half(g, s, range) = range[1] - 1
            BY <3>1 DEF Half
        <3>3. g = [range \in Within(s, 0) |-> Half(g, s, range)]
            BY <3>2
        <3>4. HalvingWithin(g, s, 0)
            BY <3>3 DEF HalvingWithin
        <3> QED BY <2>1, <2>2, <3>4
    <2>3. CASE j # 0
        <3>1. j \in Nat /\ j - 1 \in Nat /\ j - 1 < j /\ (j - 1) + 1 = j
            BY <2>3
        <3>2. j - 1 \notin Bad
            BY <2>1, <3>1 DEF OpToRel
        <3>3. PICK h : HalvingWithin(h, s, j - 1)
            BY <3>1, <3>2
        <3>4. \E g : HalvingWithin(g, s, (j - 1) + 1)
            BY <3>1, <3>3, HalvingAbove
        <3> QED BY <2>1, <3>1, <3>4
    <2> QED BY <2>2, <2>3
<1>2. Len(s) \in Nat
    BY LenProperties
<1>3. Within(s, Len(s)) = Ranges(s)
    <2>1. \A range \in Ranges(s) : range[2] - range[1] + 1 <= Len(s)
        BY <1>2 DEF Ranges
    <2> QED BY <2>1 DEF Within
<1>4. PICK g : HalvingWithin(g, s, Len(s))
    BY <1>1, <1>2
<1>5. Halving(g, s)
    BY <1>3, <1>4 DEF HalvingWithin, Halving
<1> QED BY <1>5

LEMMA HalvingFinds ==
    ASSUME NEW s \in Seq(Nat), NEW g, Halving(g, s)
    PROVE  \A range \in Ranges(s) :
              /\ range[1] <= range[2] + 1
              /\ First(s, range[1] - 1) <= WorkingMax
              /\ \A n \in (range[2] + 1)..Len(s) : ~(First(s, n) <= WorkingMax)
              => IsMost(s, WorkingMax, g[range])
<1> DEFINE Good(range) ==
              /\ range[1] <= range[2] + 1
              /\ First(s, range[1] - 1) <= WorkingMax
              /\ \A n \in (range[2] + 1)..Len(s) : ~(First(s, n) <= WorkingMax)
           Finds(k) == \A range \in Ranges(s) :
              range[2] + 1 - range[1] = k /\ Good(range) => IsMost(s, WorkingMax, g[range])
           Bad == {k \in Nat : ~Finds(k)}
<1>0. /\ Len(s) \in Nat /\ WorkingMax \in Nat
      /\ \A n \in 0..Len(s) : First(s, n) \in Nat
    BY LenProperties, Limited, FirstFacts
<1>1. Bad = {}
    <2> SUFFICES ASSUME Bad # {} PROVE FALSE
        OBVIOUS
    <2> HIDE DEF Finds
    <2>1. PICK k \in Bad : \A i \in Bad : ~(<<i, k>> \in OpToRel(<, Nat))
        BY WFMin, NatLessThanWellFounded
    <2>2. k \in Nat /\ ~Finds(k) /\ \A i \in Nat : i < k => Finds(i)
        BY <2>1 DEF OpToRel
    <2>3. ASSUME NEW range \in Ranges(s), range[2] + 1 - range[1] = k, Good(range)
          PROVE  IsMost(s, WorkingMax, g[range])
        <3> DEFINE low == range[1]
                   high == range[2]
                   middle == (low + high) \div 2
        <3>1. g[range] = Half(g, s, range)
            BY DEF Halving
        <3>2. low \in Nat /\ high \in Nat /\ low \in 1..(Len(s) + 1) /\ high \in 0..Len(s)
            BY <1>0 DEF Ranges
        <3>3. CASE low > high
            <4>1. g[range] = low - 1
                BY <3>1, <3>3 DEF Half
            <4>2. low - 1 = high /\ low - 1 \in 0..Len(s)
                BY <2>3, <3>2, <3>3
            <4>3. ASSUME NEW n \in 0..Len(s), First(s, n) <= WorkingMax PROVE n <= low - 1
                <5>1. n \notin (high + 1)..Len(s)
                    BY <2>3, <4>3
                <5> HIDE DEF low, high
                <5> QED BY <1>0, <3>2, <4>2, <5>1
            <4> QED BY <2>3, <4>1, <4>2, <4>3 DEF IsMost
        <3>4. CASE low <= high
            <4>1. /\ middle \in low..high
                  /\ <<middle + 1, high>> \in Ranges(s) /\ <<low, middle - 1>> \in Ranges(s)
                BY <3>4, HalfFacts
            <4>2. g[range] = IF First(s, middle) <= WorkingMax THEN g[<<middle + 1, high>>]
                             ELSE g[<<low, middle - 1>>]
                BY <3>1, <3>2, <3>4 DEF Half
            <4> HIDE DEF middle
            <4>3. middle \in Nat /\ middle \in 0..Len(s) /\ low <= middle /\ middle <= high
                <5> HIDE DEF low, high
                <5> QED BY <1>0, <3>2, <4>1
            <4>4. CASE First(s, middle) <= WorkingMax
                <5> DEFINE p == <<middle + 1, high>>
                <5>1. p[1] = middle + 1 /\ p[2] = high
                    OBVIOUS
                <5>2. Good(p)
                    <6>1. (middle + 1) - 1 = middle /\ middle + 1 <= high + 1
                        <7> HIDE DEF low, high
                        <7> QED BY <3>2, <4>3
                    <6> QED BY <2>3, <4>4, <5>1, <6>1
                <5>3. p[2] + 1 - p[1] \in Nat /\ p[2] + 1 - p[1] < k
                    <6>1. high + 1 - low = k
                        BY <2>3
                    <6> HIDE DEF low, high, p
                    <6> QED BY <3>2, <4>3, <5>1, <6>1
                <5>4. Finds(p[2] + 1 - p[1]) /\ p \in Ranges(s)
                    BY <2>2, <4>1, <5>3
                <5> HIDE DEF p, Good
                <5>5. IsMost(s, WorkingMax, g[p])
                    BY <5>2, <5>4 DEF Finds
                <5> QED BY <4>2, <4>4, <5>5 DEF p
            <4>5. CASE ~(First(s, middle) <= WorkingMax)
                <5> DEFINE p == <<low, middle - 1>>
                <5>1. p[1] = low /\ p[2] = middle - 1
                    OBVIOUS
                <5>2. Good(p)
                    <6>1. low <= (middle - 1) + 1 /\ (middle - 1) + 1 = middle
                        BY <3>2, <4>1, <4>3
                    <6>2. ASSUME NEW n \in middle..Len(s) PROVE ~(First(s, n) <= WorkingMax)
                        <7>1. n \in 0..Len(s) /\ middle \in 0..n
                            BY <1>0, <4>3
                        <7>2. First(s, middle) <= First(s, n)
                            BY <7>1, FirstGrows
                        <7>3. First(s, middle) \in Nat /\ First(s, n) \in Nat
                            BY <1>0, <4>3, <7>1
                        <7> QED BY <1>0, <4>5, <7>2, <7>3
                    <6> QED BY <2>3, <5>1, <6>1, <6>2
                <5>3. p[2] + 1 - p[1] \in Nat /\ p[2] + 1 - p[1] < k
                    <6>1. high + 1 - low = k
                        BY <2>3
                    <6> HIDE DEF low, high, p
                    <6> QED BY <3>2, <4>3, <5>1, <6>1
                <5>4. Finds(p[2] + 1 - p[1]) /\ p \in Ranges(s)
                    BY <2>2, <4>1, <5>3
                <5> HIDE DEF p, Good
                <5>5. IsMost(s, WorkingMax, g[p])
                    BY <5>2, <5>4 DEF Finds
                <5> QED BY <4>2, <4>5, <5>5 DEF p
            <4> QED BY <4>4, <4>5
        <3> QED BY <3>2, <3>3, <3>4
    <2> HIDE DEF Good
    <2> QED BY <2>2, <2>3 DEF Finds
<1>2. ASSUME NEW range \in Ranges(s), Good(range) PROVE IsMost(s, WorkingMax, g[range])
    <2>1. range[2] + 1 - range[1] \in Nat
        BY <1>0, <1>2 DEF Ranges
    <2>2. Finds(range[2] + 1 - range[1])
        BY <1>1, <2>1
    <2> HIDE DEF Good
    <2> QED BY <1>2, <2>2
<1> QED BY <1>2

(* _fit_working_records finds the longest prefix within its budget. *)
LEMMA WorkingFits ==
    ASSUME NEW s \in Seq(Nat)
    PROVE  IsMost(s, WorkingMax, WorkingFit(s))
<1>0. /\ Len(s) \in Nat /\ WorkingMax \in Nat /\ First(s, 0) = 0
      /\ <<1, Len(s)>> \in Ranges(s)
    BY LenProperties, Limited, FirstFacts DEF Ranges
<1> DEFINE g == CHOOSE f : Halving(f, s)
<1>1. WorkingFit(s) = IF Total(s) <= WorkingMax THEN Len(s) ELSE g[<<1, Len(s)>>]
    BY DEF WorkingFit, Halving, Half, Ranges
<1>2. Halving(g, s)
    BY HalvingExists
<1> HIDE DEF g
<1>3. CASE Total(s) <= WorkingMax
    BY <1>0, <1>1, <1>3 DEF IsMost, Total
<1>4. CASE ~(Total(s) <= WorkingMax)
    <2> DEFINE p == <<1, Len(s)>>
    <2>1. p[1] = 1 /\ p[2] = Len(s) /\ p \in Ranges(s)
        BY <1>0
    <2> HIDE DEF p
    <2>2. /\ p[1] <= p[2] + 1 /\ First(s, p[1] - 1) <= WorkingMax
          /\ \A n \in (p[2] + 1)..Len(s) : ~(First(s, n) <= WorkingMax)
        BY <1>0, <2>1
    <2>3. IsMost(s, WorkingMax, g[p])
        BY <1>2, <2>1, <2>2, HalvingFinds
    <2> QED BY <1>1, <1>4, <2>3 DEF p
<1> QED BY <1>3, <1>4

-----------------------------------------------------------------------------
(* What the packing of the history keeps. *)

LEMMA HistoryType ==
    ASSUME NEW r \in Request
    PROVE  /\ History(r) \in SUBSET Event /\ IsFiniteSet(History(r))
           /\ Cardinality(History(r)) \in Nat
<1>1. History(r) \in SUBSET Event
    BY DEF History, Request
<1> QED BY <1>1, Limited, FS_Subset, FS_CardinalityType

LEMMA EventsFinite ==
    ASSUME NEW S \in SUBSET Event
    PROVE  IsFiniteSet(S) /\ Cardinality(S) \in Nat
<1>1. IsFiniteSet(S)
    BY Limited, FS_Subset
<1> QED BY <1>1, FS_CardinalityType

LEMMA BundleFacts ==
    ASSUME NEW T \in SUBSET Event, NEW r
    PROVE  Bundle(T, r) \in Nat /\ Costs(T, r) <= Bundle(T, r)
<1>1. Costs(T, r) \in Nat /\ (T = {} => Costs(T, r) = 0)
    BY CostsType
<1>2. CASE T = {}
    BY <1>1, <1>2 DEF Bundle
<1>3. CASE T # {}
    <2>1. Cardinality(T) \in Nat /\ Cardinality(T) # 0
        BY <1>3, Limited, FS_Subset, FS_CardinalityType, FS_EmptySet
    <2> DEFINE c == Cardinality(T) - 1
    <2>2. c \in Nat
        BY <2>1
    <2>3. Bundle(T, r) = Header + Join * c + Costs(T, r)
        BY <1>3 DEF Bundle, Costs
    <2> HIDE DEF c
    <2>4. Join * c \in Nat
        BY <2>2, Limited
    <2> QED BY <1>1, <2>3, <2>4, Limited
<1> QED BY <1>2, <1>3

(* The costs of the newest events grow with their number. *)
LEMMA CostsOfNext ==
    ASSUME NEW S \in SUBSET Event, NEW r, NEW n \in Nat, n < Cardinality(S)
    PROVE  LET m == Max(S \ Newest(S, n))
           IN /\ m \in S \ Newest(S, n)
              /\ Newest(S, n + 1) = Newest(S, n) \cup {m}
              /\ Costs(Newest(S, n + 1), r) = Costs(Newest(S, n), r) + Cost(Newest(S, n), m, r)
              /\ Costs(Newest(S, n), r) \in Nat /\ Cost(Newest(S, n), m, r) \in Nat
<1> DEFINE m == Max(S \ Newest(S, n))
<1>1. Cardinality(S) \in Nat /\ n \in 0..Cardinality(S)
    BY EventsFinite
<1>2. Cardinality(Newest(S, n)) = n
    BY <1>1, NewestCounts
<1>3. /\ m \in S \ Newest(S, n) /\ \A x \in Newest(S, n) : m < x
      /\ Newest(S, n + 1) = Newest(S, n) \cup {m}
    BY <1>2, NewestStep
<1>4. Newest(S, n) \in SUBSET Event /\ m \in Event
    BY <1>3, NewestSubset
<1> HIDE DEF m
<1>5. Costs(Newest(S, n) \cup {m}, r) = Costs(Newest(S, n), r) + Cost(Newest(S, n), m, r)
    BY <1>3, <1>4, CostsOfOlder
<1>6. Costs(Newest(S, n), r) \in Nat /\ Cost(Newest(S, n), m, r) \in Nat
    BY <1>4, CostsType, CostType
<1> QED BY <1>3, <1>5, <1>6 DEF m

LEMMA CostsGrow ==
    ASSUME NEW S \in SUBSET Event, NEW r, NEW m \in 0..Cardinality(S), NEW n \in 0..m
    PROVE  /\ Costs(Newest(S, n), r) \in Nat /\ Costs(Newest(S, m), r) \in Nat
           /\ Costs(Newest(S, n), r) <= Costs(Newest(S, m), r)
<1> DEFINE T(k) == Costs(Newest(S, k), r)
           Bad == {k \in n..m : ~(T(n) <= T(k))}
<1>0. Cardinality(S) \in Nat /\ m \in Nat /\ n \in Nat /\ n <= m /\ m <= Cardinality(S)
    <2>1. Cardinality(S) \in Nat
        BY EventsFinite
    <2> QED BY <2>1
<1>1. \A k \in Nat : T(k) \in Nat
    <2> SUFFICES ASSUME NEW k \in Nat PROVE T(k) \in Nat
        OBVIOUS
    <2>1. Newest(S, k) \in SUBSET Event
        BY NewestSubset
    <2> QED BY <2>1, CostsType
<1>2. \A k \in Nat : k < Cardinality(S) => T(k) <= T(k + 1)
    <2> SUFFICES ASSUME NEW k \in Nat, k < Cardinality(S) PROVE T(k) <= T(k + 1)
        OBVIOUS
    <2> DEFINE e == Max(S \ Newest(S, k))
    <2>1. /\ T(k + 1) = T(k) + Cost(Newest(S, k), e, r)
          /\ T(k) \in Nat /\ Cost(Newest(S, k), e, r) \in Nat
        BY CostsOfNext
    <2> HIDE DEF T, e
    <2> QED BY <2>1
<1> HIDE DEF T
<1>3. Bad = {}
    <2> SUFFICES ASSUME Bad # {} PROVE FALSE
        OBVIOUS
    <2>0. Bad \subseteq Nat
        BY <1>0
    <2>1. PICK k \in Bad : \A i \in Bad : ~(<<i, k>> \in OpToRel(<, Nat))
        BY <2>0, WFMin, NatLessThanWellFounded
    <2>2. k \in n..m /\ k \in Nat /\ ~(T(n) <= T(k))
        BY <2>0, <2>1
    <2>3. /\ k # n /\ k - 1 \in n..m /\ k - 1 \in Nat /\ k - 1 < k /\ (k - 1) + 1 = k
          /\ k - 1 < Cardinality(S)
        BY <1>0, <1>1, <2>2
    <2>4. T(n) <= T(k - 1)
        BY <2>0, <2>1, <2>3 DEF OpToRel
    <2>5. T(k - 1) <= T((k - 1) + 1)
        BY <1>2, <2>3
    <2>6. T(n) \in Nat /\ T(k - 1) \in Nat /\ T(k) \in Nat
        BY <1>0, <1>1, <2>2, <2>3
    <2> QED BY <2>2, <2>3, <2>4, <2>5, <2>6
<1>4. m \in n..m
    BY <1>0
<1>5. T(n) <= T(m) /\ T(n) \in Nat /\ T(m) \in Nat
    BY <1>0, <1>1, <1>3, <1>4
<1> QED BY <1>5 DEF T

Unpacked(r) == [left |-> History(r), kept |-> {}, tokens |-> 0, blocked |-> FALSE]
PackNext(p, r, room) ==
    LET e == Max(p.left)
        t == p.tokens + Cost(p.kept, e, r)
        q == [p EXCEPT !.left = @ \ {e}]
    IN IF p.blocked \/ t > room \/ t > HistoryBudget THEN [q EXCEPT !.blocked = TRUE]
       ELSE [q EXCEPT !.kept = @ \cup {e}, !.tokens = t]
Packing(f, k, r, room) ==
    f = [n \in 0..k |-> IF n = 0 THEN Unpacked(r) ELSE PackNext(f[n - 1], r, room)]

LEMMA PackingExists ==
    ASSUME NEW k \in Nat, NEW r, NEW room
    PROVE  \E f : Packing(f, k, r, room)
<1> DEFINE Bad == {j \in Nat : ~\E f : Packing(f, j, r, room)}
<1>1. Bad = {}
    <2> SUFFICES ASSUME Bad # {} PROVE FALSE
        OBVIOUS
    <2>1. PICK j \in Bad : \A i \in Bad : ~(<<i, j>> \in OpToRel(<, Nat))
        BY WFMin, NatLessThanWellFounded
    <2>2. CASE j = 0
        <3> DEFINE f == [n \in 0..0 |-> Unpacked(r)]
        <3>1. f = [n \in 0..0 |-> IF n = 0 THEN Unpacked(r) ELSE PackNext(f[n - 1], r, room)]
            OBVIOUS
        <3>2. Packing(f, 0, r, room)
            BY <3>1 DEF Packing
        <3> QED BY <2>1, <2>2, <3>2
    <2>3. CASE j # 0
        <3>1. j \in Nat /\ j - 1 \in Nat /\ j - 1 < j
            BY <2>3
        <3>2. j - 1 \notin Bad
            BY <2>1, <3>1 DEF OpToRel
        <3>3. PICK h : Packing(h, j - 1, r, room)
            BY <3>1, <3>2
        <3> DEFINE f == [n \in 0..j |-> IF n = j THEN PackNext(h[j - 1], r, room) ELSE h[n]]
        <3>4. \A n \in 0..(j - 1) : f[n] = h[n]
            BY <3>1
        <3>5. ASSUME NEW n \in 0..j
              PROVE  f[n] = IF n = 0 THEN Unpacked(r) ELSE PackNext(f[n - 1], r, room)
            <4>1. CASE n = j
                <5>1. f[n - 1] = h[n - 1]
                    BY <3>1, <3>4, <4>1
                <5>2. f[n] = PackNext(h[j - 1], r, room)
                    BY <4>1
                <5> HIDE DEF f
                <5> QED BY <2>3, <4>1, <5>1, <5>2
            <4>2. CASE n # j
                <5>1. n \in 0..(j - 1) /\ (n # 0 => n - 1 \in 0..(j - 1))
                    BY <3>1, <4>2
                <5>2. f[n] = h[n] /\ (n # 0 => f[n - 1] = h[n - 1])
                    BY <3>4, <5>1
                <5>3. h[n] = IF n = 0 THEN Unpacked(r) ELSE PackNext(h[n - 1], r, room)
                    BY <3>3, <5>1 DEF Packing
                <5> HIDE DEF f
                <5> QED BY <5>2, <5>3
            <4> QED BY <4>1, <4>2
        <3>6. f = [n \in 0..j |-> IF n = 0 THEN Unpacked(r) ELSE PackNext(f[n - 1], r, room)]
            BY <3>5
        <3>7. Packing(f, j, r, room)
            BY <3>6 DEF Packing
        <3> QED BY <2>1, <3>7
    <2> QED BY <2>2, <2>3
<1> QED BY <1>1

(* The cost of events fits into the room left and the budget of the history. *)
Affordable(t, room) == t <= room /\ t <= HistoryBudget
(* p is what n steps of the packing come to: the newest j events, of which  *)
(* the next one would not have been affordable, if one was refused.         *)
Packs(p, n, j, r, room) ==
    LET S == History(r)
    IN /\ j \in 0..n
       /\ p = [left |-> S \ Newest(S, n), kept |-> Newest(S, j),
               tokens |-> Costs(Newest(S, j), r), blocked |-> j < n]
       /\ Affordable(Costs(Newest(S, j), r), room)
       /\ j < n => ~Affordable(Costs(Newest(S, j + 1), r), room)

LEMMA PacksNext ==
    ASSUME NEW r \in Request, NEW room \in Nat, NEW n \in Nat, n < Cardinality(History(r)),
           NEW p, NEW j, Packs(p, n, j, r, room)
    PROVE  \E i : Packs(PackNext(p, r, room), n + 1, i, r, room)
<1> DEFINE S == History(r)
           m == Max(S \ Newest(S, n))
           q == PackNext(p, r, room)
           t == p.tokens + Cost(p.kept, m, r)
<1>0. S \in SUBSET Event /\ j \in 0..n /\ j \in Nat /\ HistoryBudget \in Nat
    BY HistoryType, Limited DEF Packs
<1>1. /\ m \in S \ Newest(S, n) /\ Newest(S, n + 1) = Newest(S, n) \cup {m}
      /\ Costs(Newest(S, n + 1), r) = Costs(Newest(S, n), r) + Cost(Newest(S, n), m, r)
      /\ Costs(Newest(S, n), r) \in Nat /\ Cost(Newest(S, n), m, r) \in Nat
    BY <1>0, CostsOfNext
<1>2. p = [left |-> S \ Newest(S, n), kept |-> Newest(S, j),
           tokens |-> Costs(Newest(S, j), r), blocked |-> j < n]
    BY DEF Packs
<1>3. /\ Affordable(Costs(Newest(S, j), r), room)
      /\ j < n => ~Affordable(Costs(Newest(S, j + 1), r), room)
    BY DEF Packs
<1> HIDE DEF S, m
<1>4. q = IF p.blocked \/ t > room \/ t > HistoryBudget
            THEN [p EXCEPT !.left = @ \ {m}, !.blocked = TRUE]
          ELSE [p EXCEPT !.left = @ \ {m}, !.kept = @ \cup {m}, !.tokens = t]
    <2>1. Max(p.left) = m
        BY <1>2 DEF m
    <2> QED BY <1>2, <2>1 DEF PackNext
<1>5. (S \ Newest(S, n)) \ {m} = S \ Newest(S, n + 1)
    BY <1>1
<1>6. CASE j < n
    <2>1. q = [left |-> S \ Newest(S, n + 1), kept |-> Newest(S, j),
               tokens |-> Costs(Newest(S, j), r), blocked |-> TRUE]
        BY <1>2, <1>4, <1>5, <1>6
    <2>2. j \in 0..(n + 1) /\ (j < n + 1) = TRUE
        BY <1>0
    <2> HIDE DEF q
    <2>3. Packs(q, n + 1, j, r, room)
        BY <1>3, <1>6, <2>1, <2>2 DEF Packs, S
    <2> QED BY <2>3 DEF q
<1>7. CASE j = n
    <2>1. t = Costs(Newest(S, n + 1), r) /\ t \in Nat
        BY <1>1, <1>2, <1>7
    <2>2. CASE ~Affordable(t, room)
        <3>1. q = [left |-> S \ Newest(S, n + 1), kept |-> Newest(S, j),
                   tokens |-> Costs(Newest(S, j), r), blocked |-> TRUE]
            <4>1. t > room \/ t > HistoryBudget
                BY <1>0, <2>1, <2>2 DEF Affordable
            <4> HIDE DEF t
            <4> QED BY <1>2, <1>4, <1>5, <4>1
        <3>2. j \in 0..(n + 1) /\ (j < n + 1) = TRUE
            BY <1>0
        <3>3. ~Affordable(Costs(Newest(S, j + 1), r), room)
            BY <1>7, <2>1, <2>2
        <3> HIDE DEF q
        <3>4. Packs(q, n + 1, j, r, room)
            BY <1>3, <3>1, <3>2, <3>3 DEF Packs, S
        <3> QED BY <3>4 DEF q
    <2>3. CASE Affordable(t, room)
        <3>1. q = [left |-> S \ Newest(S, n + 1), kept |-> Newest(S, n + 1),
                   tokens |-> Costs(Newest(S, n + 1), r), blocked |-> FALSE]
            <4>1. ~(t > room \/ t > HistoryBudget)
                BY <1>0, <2>1, <2>3 DEF Affordable
            <4>2. (j < n) = FALSE
                BY <1>7
            <4>3. p = [left |-> S \ Newest(S, n), kept |-> Newest(S, n),
                       tokens |-> Costs(Newest(S, n), r), blocked |-> FALSE]
                BY <1>2, <1>7, <4>2
            <4>4. ~p.blocked /\ p.left = S \ Newest(S, n) /\ p.kept = Newest(S, n)
                BY <4>3
            <4>5. q = [p EXCEPT !.left = @ \ {m}, !.kept = @ \cup {m}, !.tokens = t]
                BY <1>4, <4>1, <4>4
            <4>6. t = Costs(Newest(S, n + 1), r)
                BY <2>1
            <4>7. q = [left |-> (S \ Newest(S, n)) \ {m}, kept |-> Newest(S, n) \cup {m},
                       tokens |-> t, blocked |-> FALSE]
                <5> HIDE DEF q, t
                <5> QED BY <4>3, <4>5
            <4> HIDE DEF q, t
            <4> QED BY <1>1, <1>5, <4>6, <4>7
        <3>2. n + 1 \in 0..(n + 1) /\ (n + 1 < n + 1) = FALSE
            OBVIOUS
        <3>3. Affordable(Costs(Newest(S, n + 1), r), room)
            BY <2>1, <2>3
        <3> HIDE DEF q
        <3>4. Packs(q, n + 1, n + 1, r, room)
            BY <3>1, <3>2, <3>3 DEF Packs, S
        <3> QED BY <3>4 DEF q
    <2> QED BY <2>2, <2>3
<1> QED BY <1>0, <1>6, <1>7

LEMMA PackedFacts ==
    ASSUME NEW r \in Request, NEW room \in Nat
    PROVE  \E j : Packs(Packed(r, room), Cardinality(History(r)), j, r, room)
<1> DEFINE S == History(r)
           c == Cardinality(S)
           f == CHOOSE g : Packing(g, c, r, room)
           Bad == {n \in 0..c : ~\E j : Packs(f[n], n, j, r, room)}
<1>0. S \in SUBSET Event /\ c \in Nat
    BY HistoryType
<1>1. Packed(r, room) = f[c]
    BY DEF Packed, Packing, PackNext, Unpacked
<1>2. Packing(f, c, r, room)
    BY <1>0, PackingExists
<1>3. \A n \in 0..c : f[n] = IF n = 0 THEN Unpacked(r) ELSE PackNext(f[n - 1], r, room)
    <2> HIDE DEF f, c
    <2> QED BY <1>2 DEF Packing
<1> HIDE DEF f, c, S
<1>4. Bad = {}
    <2> SUFFICES ASSUME Bad # {} PROVE FALSE
        OBVIOUS
    <2>0. Bad \subseteq Nat
        BY <1>0
    <2>1. PICK n \in Bad : \A i \in Bad : ~(<<i, n>> \in OpToRel(<, Nat))
        BY <2>0, WFMin, NatLessThanWellFounded
    <2>2. n \in 0..c /\ n \in Nat /\ ~\E j : Packs(f[n], n, j, r, room)
        BY <2>0, <2>1
    <2>3. CASE n = 0
        <3>1. Newest(S, 0) = {}
            <4>1. \A e \in S : Cardinality({x \in S : x > e}) \in Nat
                <5> SUFFICES ASSUME NEW e \in S PROVE Cardinality({x \in S : x > e}) \in Nat
                    OBVIOUS
                <5>1. {x \in S : x > e} \in SUBSET Event
                    BY <1>0
                <5> QED BY <5>1, EventsFinite
            <4> QED BY <4>1 DEF Newest
        <3>2. Costs({}, r) = 0
            BY CostsType
        <3>3. f[0] = Unpacked(r)
            BY <1>3, <2>2, <2>3
        <3>4. f[0] = [left |-> S \ Newest(S, 0), kept |-> Newest(S, 0),
                      tokens |-> Costs(Newest(S, 0), r), blocked |-> FALSE]
            BY <3>1, <3>2, <3>3 DEF Unpacked, S
        <3>5. Affordable(Costs(Newest(S, 0), r), room)
            BY <3>1, <3>2, Limited DEF Affordable
        <3>6. 0 \in 0..0 /\ (0 < 0) = FALSE
            OBVIOUS
        <3>7. Packs(f[0], 0, 0, r, room)
            BY <3>4, <3>5, <3>6 DEF Packs, S
        <3> QED BY <2>2, <2>3, <3>7
    <2>4. CASE n # 0
        <3>1. n - 1 \in 0..c /\ n - 1 \in Nat /\ n - 1 < n /\ (n - 1) + 1 = n /\ n - 1 < c
            BY <1>0, <2>2, <2>4
        <3>2. PICK j : Packs(f[n - 1], n - 1, j, r, room)
            BY <2>0, <2>1, <3>1 DEF OpToRel
        <3>3. n - 1 < Cardinality(History(r))
            BY <3>1 DEF c, S
        <3>4. \E i : Packs(PackNext(f[n - 1], r, room), (n - 1) + 1, i, r, room)
            BY <3>1, <3>2, <3>3, PacksNext
        <3>5. f[n] = PackNext(f[n - 1], r, room)
            BY <1>3, <2>2, <2>4
        <3> QED BY <2>2, <3>1, <3>4, <3>5
    <2> QED BY <2>3, <2>4
<1>5. \E j : Packs(f[c], c, j, r, room)
    <2>1. c \in 0..c
        BY <1>0
    <2> QED BY <1>4, <2>1
<1> QED BY <1>1, <1>5 DEF c, S

-----------------------------------------------------------------------------
(* A context as it is assembled. *)

LEMMA TrimmedFacts ==
    ASSUME NEW r, NEW S \in SUBSET Event, NEW j \in 0..Cardinality(S), NEW room \in Int
    PROVE  \E k \in 0..j :
              /\ Trimmed(Newest(S, j), r, room) = Newest(S, k)
              /\ k > 0 => Affordable(Bundle(Newest(S, k), r), room)
              /\ \A m \in (k + 1)..j : ~Affordable(Bundle(Newest(S, m), r), room)
<1> DEFINE T == Newest(S, j)
           fits == {n \in 0..j : Affordable(Bundle(Newest(S, n), r), room)}
           k == Max(fits \cup {0})
<1>0. Cardinality(S) \in Nat /\ j \in Nat /\ Cardinality(T) = j
    <2>1. Cardinality(S) \in Nat
        BY EventsFinite
    <2> QED BY <2>1, NewestCounts
<1>1. \A n \in 0..j : Newest(T, n) = Newest(S, n)
    BY <1>0, NewestOfNewest
<1> HIDE DEF T
<1>2. {n \in 0..Cardinality(T) :
          LET t == Bundle(Newest(T, n), r) IN t <= HistoryBudget /\ t <= room} = fits
    BY <1>0, <1>1 DEF Affordable
<1>3. Trimmed(T, r, room) = Newest(T, k)
    <2> HIDE DEF fits
    <2> QED BY <1>2 DEF Trimmed
<1>4. \A n \in fits \cup {0} : n \in 0..j
    BY <1>0
<1>5. fits \cup {0} \subseteq Nat /\ fits \cup {0} # {} /\ \A n \in fits \cup {0} : n <= j
    BY <1>0, <1>4
<1>6. k \in fits \cup {0} /\ \A n \in fits \cup {0} : n <= k
    <2> HIDE DEF fits
    <2> QED BY <1>0, <1>5, MaxFacts
<1> HIDE DEF k
<1>7. k \in 0..j
    BY <1>4, <1>6
<1>8. k > 0 => Affordable(Bundle(Newest(S, k), r), room)
    BY <1>6
<1>9. \A m \in (k + 1)..j : ~Affordable(Bundle(Newest(S, m), r), room)
    <2> SUFFICES ASSUME NEW m \in (k + 1)..j, Affordable(Bundle(Newest(S, m), r), room)
                 PROVE  FALSE
        OBVIOUS
    <2>1. m \in 0..j /\ ~(m <= k)
        BY <1>0, <1>7
    <2>2. m \in fits
        BY <2>1
    <2> QED BY <1>6, <2>1, <2>2
<1> QED BY <1>1, <1>3, <1>7, <1>8, <1>9 DEF T

LEMMA SmallerOf == \A a, b \in Nat : Min({a, b}) \in Nat /\ Min({a, b}) <= b
<1> SUFFICES ASSUME NEW a \in Nat, NEW b \in Nat PROVE Min({a, b}) \in Nat /\ Min({a, b}) <= b
    OBVIOUS
<1>1. \E x \in {a, b} : \A y \in {a, b} : x <= y
    BY DEF Min
<1>2. Min({a, b}) \in {a, b} /\ \A y \in {a, b} : Min({a, b}) <= y
    BY <1>1 DEF Min
<1> QED BY <1>2

LEMMA MemoriesType ==
    ASSUME NEW r \in Request
    PROVE  Memories(r) \in Seq(Nat)
<1>0. r.memories \in Seq(Nat) /\ r.confirm \in Seq(Nat)
    BY DEF Request
<1>1. ASSUME NEW s \in Seq(Nat), NEW n \in Nat, n <= Len(s)
      PROVE  SubSeq(s, 1, n) \in Seq(Nat)
    BY <1>1, SubSeqProperties, LenProperties
<1>2. \A a \in Nat : \A s \in Seq(Nat) : SubSeq(s, 1, Min({a, Len(s)})) \in Seq(Nat)
    <2> SUFFICES ASSUME NEW a \in Nat, NEW s \in Seq(Nat)
                 PROVE  SubSeq(s, 1, Min({a, Len(s)})) \in Seq(Nat)
        OBVIOUS
    <2>1. Len(s) \in Nat
        BY LenProperties
    <2> DEFINE n == Min({a, Len(s)})
    <2>2. n \in Nat /\ n <= Len(s)
        BY <2>1, SmallerOf
    <2> HIDE DEF n
    <2>3. SubSeq(s, 1, n) \in Seq(Nat)
        BY <1>1, <2>2
    <2> QED BY <2>3 DEF n
<1>3. SubSeq(r.memories, 1, Min({MaxMemories, Len(r.memories)})) \in Seq(Nat)
    BY <1>0, <1>2, Limited
<1>4. SubSeq(r.confirm, 1, Min({1, Len(r.confirm)})) \in Seq(Nat)
    BY <1>0, <1>2
<1> QED BY <1>3, <1>4, ConcatProperties DEF Memories

(* c is an assembly of r in a window of which j events were packed and k   *)
(* of them kept.                                                           *)
Spare(r, c) == First(r.working, c.working) + First(Memories(r), c.memories)
Assembles(c, r, room, j, k) ==
    LET S == History(r)
        block == First(r.working, c.working)
    IN /\ c.fits
       /\ \/ c.working = WorkingFit(r.working)
          \/ c.working = 0 /\ First(r.working, WorkingFit(r.working)) > room
       /\ block \in Nat /\ block <= room
       /\ j \in 0..Cardinality(S)
       /\ Affordable(Costs(Newest(S, j), r), room - block)
       /\ j < Cardinality(S) => ~Affordable(Costs(Newest(S, j + 1), r), room - block)
       /\ IsMost(Memories(r), room - block - Costs(Newest(S, j), r), c.memories)
       /\ k \in 0..j /\ c.kept = Newest(S, k)
       /\ k > 0 => Affordable(Bundle(Newest(S, k), r), room - Spare(r, c))
       /\ \A m \in (k + 1)..j : ~Affordable(Bundle(Newest(S, m), r), room - Spare(r, c))
       /\ c.tokens = Need(r) + Spare(r, c) + Bundle(c.kept, r)

LEMMA RoomType ==
    ASSUME NEW r \in Request, NEW window \in Nat
    PROVE  Room(r, window) \in Int /\ Need(r) \in Nat /\ Budget(window) \in Int
           /\ Room(r, window) = Budget(window) - Need(r)
<1>1. r.need \in Nat /\ r.images \in Nat
    BY DEF Request
<1>2. Need(r) \in Nat
    BY <1>1, Limited DEF Need
<1>3. Budget(window) \in Int
    BY Limited DEF Budget
<1> QED BY <1>2, <1>3 DEF Room

LEMMA AssembledFacts ==
    ASSUME NEW r \in Request, NEW window \in Nat
    PROVE  LET c == Assembled(r, window)
           IN /\ Room(r, window) < 0 => c = NoContext
              /\ ~(Room(r, window) < 0) =>
                    /\ \E j, k : Assembles(c, r, Room(r, window), j, k)
                    /\ c.expanded = (window > Preferred)
<1> DEFINE c == Assembled(r, window)
           S == History(r)
           M == Memories(r)
           room == Room(r, window)
           wanted == WorkingFit(r.working)
           working == IF First(r.working, wanted) <= room THEN wanted ELSE 0
           block == First(r.working, working)
           left == room - block
           packed == Packed(r, left)
           memories == Prefix(M, left - packed.tokens)
           base == block + First(M, memories)
           kept == Trimmed(packed.kept, r, room - base)
<1>1. c = IF room < 0 THEN NoContext
          ELSE [fits |-> TRUE, kept |-> kept, working |-> working, memories |-> memories,
                tokens |-> Need(r) + base + Bundle(kept, r),
                omitted |-> \/ working < wanted
                            \/ packed.blocked
                            \/ memories < Len(M)
                            \/ kept # packed.kept,
                expanded |-> window > Preferred]
    BY DEF Assembled
<1>2. room \in Int
    BY RoomType
<1>3. r.working \in Seq(Nat) /\ M \in Seq(Nat) /\ S \in SUBSET Event
    BY MemoriesType, HistoryType DEF Request
<1>4. ASSUME ~(room < 0)
      PROVE  (\E j, k : Assembles(c, r, room, j, k)) /\ c.expanded = (window > Preferred)
    <2>0. room \in Nat
        BY <1>2, <1>4
    <2>1. /\ c.fits /\ c.kept = kept /\ c.working = working /\ c.memories = memories
          /\ c.tokens = Need(r) + base + Bundle(kept, r) /\ c.expanded = (window > Preferred)
        <3> HIDE DEF c, room, kept, working, memories, base, packed, M, wanted
        <3> QED BY <1>1, <1>4
    <2>2. wanted \in 0..Len(r.working) /\ First(r.working, wanted) \in Nat
          /\ First(r.working, 0) = 0
        BY <1>3, WorkingFits, FirstFacts DEF IsMost
    <2>3. /\ block \in Nat /\ block <= room
          /\ \/ working = wanted
             \/ working = 0 /\ First(r.working, wanted) > room
        <3> HIDE DEF room, wanted
        <3>1. CASE First(r.working, wanted) <= room
            BY <2>2, <3>1
        <3>2. CASE ~(First(r.working, wanted) <= room)
            BY <2>0, <2>2, <3>2
        <3> QED BY <3>1, <3>2
    <2> HIDE DEF working
    <2>4. left \in Nat
        <3> HIDE DEF room, block
        <3> QED BY <2>0, <2>3
    <2> HIDE DEF left
    <2>5. PICK j : Packs(packed, Cardinality(S), j, r, left)
        BY <2>4, PackedFacts
    <2>6. /\ j \in 0..Cardinality(S)
          /\ packed.kept = Newest(S, j) /\ packed.tokens = Costs(Newest(S, j), r)
          /\ Affordable(Costs(Newest(S, j), r), left)
          /\ j < Cardinality(S) => ~Affordable(Costs(Newest(S, j + 1), r), left)
        BY <2>5 DEF Packs
    <2> HIDE DEF packed, S
    <2>7. Costs(Newest(S, j), r) \in Nat /\ left - packed.tokens \in Nat
        <3>1. Newest(S, j) \in SUBSET Event
            BY <1>3, NewestSubset
        <3>2. Costs(Newest(S, j), r) \in Nat
            BY <3>1, CostsType
        <3> QED BY <2>4, <2>6, <3>2 DEF Affordable
    <2>8. IsMost(M, left - packed.tokens, memories)
        <3> HIDE DEF M
        <3> QED BY <1>3, <2>7, PrefixFacts
    <2>9. First(M, memories) \in Nat
        <3> HIDE DEF M, memories
        <3> QED BY <1>3, <2>8, FirstFacts DEF IsMost
    <2> HIDE DEF memories
    <2>10. room - base \in Int
        <3> HIDE DEF room, block, M
        <3> QED BY <2>0, <2>3, <2>9
    <2> HIDE DEF base
    <2>11. PICK k \in 0..j :
              /\ Trimmed(Newest(S, j), r, room - base) = Newest(S, k)
              /\ k > 0 => Affordable(Bundle(Newest(S, k), r), room - base)
              /\ \A m \in (k + 1)..j : ~Affordable(Bundle(Newest(S, m), r), room - base)
        BY <1>3, <2>6, <2>10, TrimmedFacts
    <2>12. kept = Newest(S, k)
        BY <2>6, <2>11
    <2>13. Spare(r, c) = base /\ First(r.working, c.working) = block
        <3> HIDE DEF c
        <3> QED BY <2>1 DEF Spare, base
    <2>14. left = room - block
        BY DEF left
    <2> HIDE DEF c, kept, block, M, room, wanted
    <2>15. Assembles(c, r, room, j, k)
        BY <2>1, <2>3, <2>6, <2>8, <2>11, <2>12, <2>13, <2>14 DEF Assembles, S, M, wanted
    <2> QED BY <2>1, <2>15
<1>5. ASSUME room < 0 PROVE c = NoContext
    <2> HIDE DEF c, room, kept, working, memories, base, packed, M, wanted
    <2> QED BY <1>1, <1>5
<1> QED BY <1>4, <1>5

(* The context c of r in a window with this much room is full. *)
Full(c, r, room) ==
    LET rest == c.tokens - Bundle(c.kept, r)
        Fits(S) == Bundle(S, r) <= HistoryBudget /\ rest + Bundle(S, r) <= room
        all == History(r)
        n == Cardinality(c.kept)
        best == Max({k \in 0..Len(r.working) : First(r.working, k) <= WorkingMax})
    IN /\ c.kept = Newest(all, n)
       /\ rest <= room /\ (n > 0 => Fits(c.kept))
       /\ \A k \in (n + 1)..Cardinality(all) : ~Fits(Newest(all, k))
       /\ \/ c.working = best
          \/ c.working = 0 /\ Need(r) + First(r.working, best) > room

LEMMA AssembledFull ==
    ASSUME NEW r \in Request, NEW window \in Nat, Room(r, window) \in Nat,
           NEW c, NEW j, NEW k, Assembles(c, r, Room(r, window), j, k)
    PROVE  Full(c, r, Budget(window))
<1> DEFINE S == History(r)
           room == Room(r, window)
           block == First(r.working, c.working)
           more == First(Memories(r), c.memories)
           B(n) == Bundle(Newest(S, n), r)
           C(n) == Costs(Newest(S, n), r)
           rest == c.tokens - Bundle(c.kept, r)
           best == Max({n \in 0..Len(r.working) : First(r.working, n) <= WorkingMax})
<1>0. /\ S \in SUBSET Event /\ Cardinality(S) \in Nat /\ r.working \in Seq(Nat)
      /\ Memories(r) \in Seq(Nat) /\ HistoryBudget \in Nat
      /\ Need(r) \in Nat /\ Budget(window) \in Int /\ room = Budget(window) - Need(r)
    BY MemoriesType, HistoryType, RoomType, Limited DEF Request
<1>1. /\ \/ c.working = WorkingFit(r.working)
         \/ c.working = 0 /\ First(r.working, WorkingFit(r.working)) > room
      /\ block \in Nat /\ block <= room /\ j \in 0..Cardinality(S) /\ k \in 0..j
      /\ Affordable(C(j), room - block)
      /\ j < Cardinality(S) => ~Affordable(C(j + 1), room - block)
      /\ IsMost(Memories(r), room - block - C(j), c.memories)
      /\ c.kept = Newest(S, k)
      /\ k > 0 => Affordable(B(k), room - Spare(r, c))
      /\ \A m \in (k + 1)..j : ~Affordable(B(m), room - Spare(r, c))
      /\ c.tokens = Need(r) + Spare(r, c) + Bundle(c.kept, r)
      /\ Spare(r, c) = block + more
    BY DEF Assembles, Spare
<1>2. \A n \in Nat : B(n) \in Nat /\ C(n) \in Nat /\ C(n) <= B(n)
    <2> SUFFICES ASSUME NEW n \in Nat PROVE B(n) \in Nat /\ C(n) \in Nat /\ C(n) <= B(n)
        OBVIOUS
    <2>1. Newest(S, n) \in SUBSET Event
        BY <1>0, NewestSubset
    <2> QED BY <2>1, BundleFacts, CostsType
<1>3. j \in Nat /\ k \in Nat /\ k <= j /\ j <= Cardinality(S) /\ k \in 0..Cardinality(S)
    BY <1>0, <1>1
<1>4. more \in Nat /\ more <= room - block - C(j)
    BY <1>0, <1>1, FirstFacts DEF IsMost
<1>5. Cardinality(c.kept) = k
    BY <1>0, <1>1, <1>3, NewestCounts
<1>6. WorkingFit(r.working) = best
    BY <1>0, Limited, WorkingFits, MostIsMax
<1>7. c.kept = Newest(S, Cardinality(c.kept))
    BY <1>1, <1>5
<1>8. \A m \in Nat : j < m /\ m <= Cardinality(S) => C(j + 1) <= C(m)
    <2> SUFFICES ASSUME NEW m \in Nat, j < m, m <= Cardinality(S) PROVE C(j + 1) <= C(m)
        OBVIOUS
    <2>1. m \in 0..Cardinality(S) /\ j + 1 \in 0..m
        BY <1>0, <1>3
    <2> QED BY <1>0, <2>1, CostsGrow
<1>9. Bundle(c.kept, r) = B(k)
    BY <1>1
<1> HIDE DEF S, room, block, more, B, C, best
<1>n. /\ Need(r) \in Nat /\ block \in Nat /\ more \in Nat /\ C(j) \in Nat /\ B(k) \in Nat
      /\ Budget(window) \in Int /\ room \in Int /\ room = Budget(window) - Need(r)
      /\ Spare(r, c) = block + more /\ HistoryBudget \in Nat
    <2>1. Need(r) \in Nat /\ Budget(window) \in Int /\ room = Budget(window) - Need(r)
        BY <1>0
    <2>2. room \in Int
        BY <2>1
    <2>3. C(j) \in Nat /\ B(k) \in Nat
        BY <1>2, <1>3
    <2>4. block \in Nat /\ Spare(r, c) = block + more
        BY <1>1
    <2> QED BY <1>0, <1>4, <2>1, <2>2, <2>3, <2>4
<1>10. rest = Need(r) + block + more
    <2>1. rest = c.tokens - B(k) /\ c.tokens = Need(r) + (block + more) + B(k)
        BY <1>1, <1>9 DEF rest
    <2> HIDE DEF rest
    <2> QED BY <1>n, <2>1
<1> HIDE DEF rest
<1>11. rest <= Budget(window)
    <2>1. more <= room - block - C(j)
        BY <1>4
    <2> QED BY <1>n, <1>10, <2>1
<1>12. \A m \in Nat : (B(m) <= HistoryBudget /\ rest + B(m) <= Budget(window))
                        <=> Affordable(B(m), room - Spare(r, c))
    <2> SUFFICES ASSUME NEW m \in Nat
                 PROVE  (B(m) <= HistoryBudget /\ rest + B(m) <= Budget(window))
                           <=> Affordable(B(m), room - Spare(r, c))
        OBVIOUS
    <2>1. B(m) \in Nat
        BY <1>2
    <2>2. rest + B(m) <= Budget(window) <=> B(m) <= room - Spare(r, c)
        BY <1>n, <1>10, <2>1
    <2> QED BY <2>2 DEF Affordable
<1>13. ASSUME NEW m \in (k + 1)..Cardinality(S)
       PROVE  ~Affordable(B(m), room - Spare(r, c))
    <2>1. m \in Nat /\ k < m /\ m <= Cardinality(S)
        BY <1>0, <1>3
    <2>2. CASE m <= j
        <3>1. m \in (k + 1)..j
            BY <1>3, <2>1, <2>2
        <3> QED BY <1>1, <3>1
    <2>3. CASE m > j
        <3>1. j < Cardinality(S) /\ C(j + 1) <= C(m) /\ C(m) <= B(m)
            BY <1>0, <1>2, <1>3, <1>8, <2>1, <2>3
        <3>2. C(j + 1) \in Nat /\ C(m) \in Nat /\ B(m) \in Nat
            BY <1>2, <1>3, <2>1
        <3>3. C(j + 1) > room - block \/ C(j + 1) > HistoryBudget
            <4>1. ~Affordable(C(j + 1), room - block)
                BY <1>1, <3>1
            <4> QED BY <1>n, <3>2, <4>1 DEF Affordable
        <3>4. B(m) > room - Spare(r, c) \/ B(m) > HistoryBudget
            BY <1>n, <3>1, <3>2, <3>3
        <3> QED BY <1>n, <3>2, <3>4 DEF Affordable
    <2> QED BY <1>3, <2>1, <2>2, <2>3
<1>14. \A m \in (k + 1)..Cardinality(S) :
          ~(B(m) <= HistoryBudget /\ rest + B(m) <= Budget(window))
    <2> SUFFICES ASSUME NEW m \in (k + 1)..Cardinality(S)
                 PROVE  ~(B(m) <= HistoryBudget /\ rest + B(m) <= Budget(window))
        OBVIOUS
    <2>1. m \in Nat
        BY <1>0, <1>3
    <2> QED BY <1>12, <1>13, <2>1
<1>15. k > 0 => B(k) <= HistoryBudget /\ rest + B(k) <= Budget(window)
    BY <1>1, <1>3, <1>12
<1>16. \/ c.working = best
       \/ c.working = 0 /\ Need(r) + First(r.working, best) > Budget(window)
    <2>1. CASE c.working = WorkingFit(r.working)
        BY <1>6, <2>1
    <2>2. CASE c.working = 0 /\ First(r.working, best) > room
        <3>1. First(r.working, best) \in Nat
            BY <1>0, <1>6, WorkingFits, FirstFacts DEF IsMost
        <3> QED BY <1>0, <2>2, <3>1
    <2> QED BY <1>1, <1>6, <2>1, <2>2
<1> QED BY <1>5, <1>7, <1>9, <1>11, <1>14, <1>15, <1>16 DEF Full, S, B, rest, best

LEMMA WiderHolds ==
    ASSUME NEW r \in Request, CanExpand, Room(r, Maximum) \in Nat,
           Maximum - Preferred >= WorkingMax + Total(Memories(r)) + HistoryBudget
    PROVE  LET narrow == Assembled(r, Preferred)
               wide == Assembled(r, Maximum)
           IN /\ narrow.kept \subseteq wide.kept
              /\ narrow.working <= wide.working
              /\ narrow.memories <= wide.memories
<1> DEFINE S == History(r)
           M == Memories(r)
           c == Assembled(r, Preferred)
           d == Assembled(r, Maximum)
           room == Room(r, Preferred)
           space == Room(r, Maximum)
           B(n) == Bundle(Newest(S, n), r)
           C(n) == Costs(Newest(S, n), r)
           wanted == WorkingFit(r.working)
<1>0. /\ S \in SUBSET Event /\ Cardinality(S) \in Nat /\ r.working \in Seq(Nat)
      /\ M \in Seq(Nat) /\ HistoryBudget \in Nat /\ WorkingMax \in Nat
      /\ Preferred \in Nat /\ Maximum \in Nat /\ Len(r.working) \in Nat /\ Len(M) \in Nat
    BY MemoriesType, HistoryType, Limited, LenProperties DEF Request
<1>1. room \in Int /\ space \in Nat /\ space = room + (Maximum - Preferred)
    <2>1. /\ Need(r) \in Nat /\ Reserve \in Nat /\ room = Budget(Preferred) - Need(r)
          /\ space = Budget(Maximum) - Need(r)
        BY <1>0, RoomType, Limited
    <2>2. Budget(Preferred) = Preferred - Reserve /\ Budget(Maximum) = Maximum - Reserve
        BY DEF Budget
    <2> HIDE DEF room, space
    <2>3. room \in Int /\ space \in Int /\ space = room + (Maximum - Preferred)
        BY <1>0, <2>1, <2>2
    <2> QED BY <2>3 DEF space
<1>2. \A n \in Nat : B(n) \in Nat /\ C(n) \in Nat /\ C(n) <= B(n)
    <2> SUFFICES ASSUME NEW n \in Nat PROVE B(n) \in Nat /\ C(n) \in Nat /\ C(n) <= B(n)
        OBVIOUS
    <2>1. Newest(S, n) \in SUBSET Event
        BY <1>0, NewestSubset
    <2> QED BY <2>1, BundleFacts, CostsType
<1>3. /\ wanted \in 0..Len(r.working) /\ First(r.working, wanted) \in Nat
      /\ First(r.working, wanted) <= WorkingMax
    BY <1>0, WorkingFits, FirstFacts DEF IsMost
<1>4. /\ Total(M) \in Nat /\ Maximum - Preferred >= WorkingMax + Total(M) + HistoryBudget
      /\ Total(M) = First(M, Len(M))
    <2>1. Len(M) \in 0..Len(M)
        BY <1>0
    <2> QED BY <1>0, <2>1, FirstFacts DEF Total
<1>5. \E j, k : Assembles(d, r, space, j, k)
    BY <1>0, <1>1, AssembledFacts
<1>6. PICK jw, kw : Assembles(d, r, space, jw, kw)
    BY <1>5
<1>7. /\ \/ d.working = wanted
         \/ d.working = 0 /\ First(r.working, wanted) > space
      /\ First(r.working, d.working) \in Nat /\ jw \in 0..Cardinality(S) /\ kw \in 0..jw
      /\ First(r.working, d.working) <= space
      /\ Affordable(C(jw), space - First(r.working, d.working))
      /\ jw < Cardinality(S) => ~Affordable(C(jw + 1), space - First(r.working, d.working))
      /\ IsMost(M, space - First(r.working, d.working) - C(jw), d.memories)
      /\ d.kept = Newest(S, kw)
      /\ \A m \in (kw + 1)..jw : ~Affordable(B(m), space - Spare(r, d))
      /\ Spare(r, d) = First(r.working, d.working) + First(M, d.memories)
    BY <1>6 DEF Assembles, Spare
<1>8. CASE room < 0
    <2>1. c = NoContext
        BY <1>0, <1>8, AssembledFacts
    <2>2. c.kept = {} /\ c.working = 0 /\ c.memories = 0
        <3> HIDE DEF c
        <3> QED BY <2>1 DEF NoContext
    <2>3. d.working \in Nat /\ d.memories \in Nat
        <3> HIDE DEF d, wanted, M, S, C, B, space
        <3> QED BY <1>0, <1>3, <1>7 DEF IsMost
    <2> HIDE DEF c, d
    <2> QED BY <2>2, <2>3 DEF c, d
<1>9. CASE ~(room < 0)
    <2>0. room \in Nat
        BY <1>1, <1>9
    <2>1. PICK j, k : Assembles(c, r, room, j, k)
        BY <1>0, <1>9, AssembledFacts
    <2>2. /\ \/ c.working = wanted
             \/ c.working = 0
          /\ First(r.working, c.working) \in Nat /\ First(r.working, c.working) <= room
          /\ j \in 0..Cardinality(S) /\ k \in 0..j
          /\ Affordable(C(j), room - First(r.working, c.working))
          /\ IsMost(M, room - First(r.working, c.working) - C(j), c.memories)
          /\ c.kept = Newest(S, k)
          /\ k > 0 => Affordable(B(k), room - Spare(r, c))
        BY <2>1 DEF Assembles
    <2>3. /\ j \in Nat /\ k \in Nat /\ jw \in Nat /\ kw \in Nat
          /\ k <= j /\ j <= Cardinality(S) /\ kw <= jw /\ jw <= Cardinality(S)
        <3> HIDE DEF S, c, d, M, C, B, wanted, room, space
        <3> QED BY <1>0, <1>7, <2>2
    <2>4. /\ C(j) \in Nat /\ C(jw) \in Nat /\ C(jw + 1) \in Nat /\ B(k) \in Nat
        BY <1>2, <2>3
    <2>5. C(j) <= HistoryBudget /\ C(jw) <= HistoryBudget /\ (k > 0 => B(k) <= HistoryBudget)
        BY <1>7, <2>2 DEF Affordable
    <2>6. IsMost(M, space - First(r.working, d.working) - C(jw), d.memories)
        BY <1>7
    <2>8. jw < j => C(jw + 1) <= C(j)
        <3> SUFFICES ASSUME jw < j PROVE C(jw + 1) <= C(j)
            OBVIOUS
        <3>1. j \in 0..Cardinality(S) /\ jw + 1 \in 0..j
            BY <1>0, <2>3
        <3> QED BY <1>0, <3>1, CostsGrow
    <2>9. k <= kw => Newest(S, k) \subseteq Newest(S, kw)
        BY <1>0, <2>3, NewestGrows
    <2> HIDE DEF S, M, c, d, room, space, B, C, wanted
    <2>10. d.working = wanted
        BY <1>0, <1>1, <1>3, <1>4, <1>7, <2>0
    <2>11. c.working <= d.working
        BY <1>0, <1>3, <2>2, <2>10
    <2>12. space - First(r.working, d.working) >= Total(M) + HistoryBudget
        BY <1>0, <1>1, <1>3, <1>4, <2>0, <2>10
    <2>n. /\ First(r.working, d.working) \in Nat /\ space \in Nat /\ HistoryBudget \in Nat
          /\ Total(M) \in Nat /\ C(jw) \in Nat /\ C(jw) <= HistoryBudget
        BY <1>0, <1>1, <1>4, <1>7, <2>4, <2>5
    <2>13. j <= jw
        <3> SUFFICES ASSUME jw < j PROVE FALSE
            BY <2>3
        <3>1. jw < Cardinality(S)
            BY <1>0, <2>3
        <3>2. C(jw + 1) > HistoryBudget
            <4>1. ~Affordable(C(jw + 1), space - First(r.working, d.working))
                BY <1>7, <3>1
            <4>2. C(jw + 1) \in Nat
                BY <2>4
            <4> QED BY <2>n, <2>12, <4>1, <4>2 DEF Affordable
        <3> QED BY <1>0, <2>4, <2>5, <2>8, <3>2
    <2>14. First(M, Len(M)) <= space - First(r.working, d.working) - C(jw)
        <3>1. First(M, Len(M)) = Total(M)
            BY <1>4
        <3> QED BY <2>n, <2>12, <3>1
    <2>15. d.memories \in 0..Len(M) /\ Len(M) <= d.memories
        BY <1>0, <2>6, <2>14 DEF IsMost
    <2>16. c.memories \in 0..Len(M)
        BY <2>2 DEF IsMost
    <2>17. c.memories <= d.memories /\ d.memories = Len(M)
        BY <1>0, <2>15, <2>16
    <2>18. space - Spare(r, d) >= HistoryBudget
        BY <1>0, <1>1, <1>4, <1>7, <2>12, <2>17
    <2>19. k <= kw
        <3> SUFFICES ASSUME kw < k PROVE FALSE
            BY <2>3
        <3>1. k \in (kw + 1)..jw /\ k > 0
            BY <2>3, <2>13
        <3>2. ~Affordable(B(k), space - Spare(r, d))
            BY <1>7, <3>1
        <3>3. Spare(r, d) \in Nat
            BY <1>4, <1>7, <2>17
        <3> QED BY <1>0, <1>1, <2>4, <2>5, <2>18, <3>1, <3>2, <3>3 DEF Affordable
    <2>20. c.kept \subseteq d.kept
        BY <1>7, <2>2, <2>9, <2>19
    <2> QED BY <2>11, <2>17, <2>20 DEF c, d
<1> QED BY <1>1, <1>8, <1>9

-----------------------------------------------------------------------------
(* A context that was built is an assembly of what was asked, in one of the *)
(* two windows.                                                            *)
Chosen ==
    phase = "built" =>
    /\ asked \in Request
    /\ \E r \in Requests : Memories(r) = Memories(asked)
    /\ context.fits
    /\ \/ context = Assembled(asked, Preferred)
       \/ CanExpand /\ context = Assembled(asked, Maximum)

LEMMA InitChosen == Init => Chosen
BY DEF Init, Chosen

LEMMA BuildChosen == Build => Chosen'
<1> SUFFICES ASSUME Build, phase' = "built" PROVE Chosen'
    BY DEF Chosen
<1>1. PICK r \in Requests, s \in Source, p \in Pictures :
         /\ asked' = [r EXCEPT !.images = IF p = "none" THEN 0 ELSE @]
         /\ context' = Context(asked')
         /\ IF context'.fits THEN TRUE ELSE Over("failed", "context")
    BY DEF Build
<1>2. r \in Request
    BY ReplyAssumption
<1>3. asked' \in Request /\ asked'.memories = r.memories /\ asked'.confirm = r.confirm
    BY <1>1, <1>2 DEF Request
<1>4. Memories(r) = Memories(asked')
    BY <1>3 DEF Memories
<1>5. context'.fits
    BY <1>1 DEF Over
<1>6. \/ context' = Assembled(asked', Preferred)
      \/ CanExpand /\ context' = Assembled(asked', Maximum)
    BY <1>1 DEF Context
<1> QED BY <1>3, <1>4, <1>5, <1>6 DEF Chosen

LEMMA StepChosen == Chosen /\ [Next]_vars => Chosen'
<1> SUFFICES ASSUME Chosen, [Next]_vars PROVE Chosen'
    OBVIOUS
<1>1. CASE UNCHANGED vars
    BY <1>1 DEF vars, Chosen
<1>2. CASE Build
    BY <1>2, BuildChosen
<1>3. CASE Step \/ End
    <2>1. phase' # "built"
        <3>1. CASE Ask
            BY <3>1 DEF Ask, Start
        <3>2. CASE Fail
            BY <3>2 DEF Fail, Again, WithoutPictures, GivesUp, Start, Over
        <3>3. CASE Answer
            BY <3>3 DEF Answer
        <3>4. CASE Search
            BY <3>4 DEF Search
        <3>5. CASE Judge
            BY <3>5 DEF Judge, Retry, Over
        <3>6. CASE End
            BY <3>6 DEF End
        <3> QED BY <1>3, <3>1, <3>2, <3>3, <3>4, <3>5, <3>6 DEF Step
    <2> QED BY <2>1 DEF Chosen
<1> QED BY <1>1, <1>2, <1>3 DEF Next

LEMMA Windows == Preferred \in Nat /\ Maximum \in Nat /\ (CanExpand => Maximum > Preferred)
BY Limited DEF CanExpand

LEMMA ChosenFull == Chosen => FillsWhatFits
<1> SUFFICES ASSUME Chosen, phase = "built" PROVE FillsWhatFits
    BY DEF FillsWhatFits
<1>0. asked \in Request /\ context.fits
    BY DEF Chosen
<1>1. PICK window \in {Preferred, Maximum} :
         /\ context = Assembled(asked, window)
         /\ window = Maximum => Maximum = Preferred \/ Maximum > Preferred
         /\ window > Preferred => window = Maximum
         /\ ~(window > Preferred) => window = Preferred
    <2>1. CASE context = Assembled(asked, Preferred)
        BY <2>1, Windows
    <2>2. CASE CanExpand /\ context = Assembled(asked, Maximum)
        BY <2>2, Windows
    <2> QED BY <2>1, <2>2 DEF Chosen
<1>2. window \in Nat /\ Room(asked, window) \in Int
    BY <1>0, Windows, RoomType
<1>3. ~(Room(asked, window) < 0)
    <2> SUFFICES ASSUME Room(asked, window) < 0 PROVE FALSE
        OBVIOUS
    <2>1. context = NoContext
        BY <1>0, <1>1, <1>2, AssembledFacts
    <2> QED BY <1>0, <2>1 DEF NoContext
<1>4. PICK j, k : Assembles(context, asked, Room(asked, window), j, k)
    BY <1>0, <1>1, <1>2, <1>3, AssembledFacts
<1>5. context.expanded = (window > Preferred)
    BY <1>0, <1>1, <1>2, <1>3, AssembledFacts
<1>6. Room(asked, window) \in Nat
    BY <1>2, <1>3
<1>7. Full(context, asked, Budget(window))
    BY <1>0, <1>2, <1>4, <1>6, AssembledFull
<1>8. window = IF context.expanded THEN Maximum ELSE Preferred
    BY <1>1, <1>5
<1> QED BY <1>7, <1>8 DEF FillsWhatFits, Full

LEMMA ChosenWider == FarApart /\ Chosen => WiderLosesNothing
<1> SUFFICES ASSUME FarApart, Chosen, phase = "built", context.expanded
             PROVE  WiderLosesNothing
    BY DEF WiderLosesNothing
<1>0. asked \in Request /\ context.fits
    BY DEF Chosen
<1>1. CASE context = Assembled(asked, Preferred)
    <2>1. ~(Room(asked, Preferred) < 0)
        <3> SUFFICES ASSUME Room(asked, Preferred) < 0 PROVE FALSE
            OBVIOUS
        <3>1. context = NoContext
            BY <1>0, <1>1, Windows, AssembledFacts
        <3> QED BY <1>0, <3>1 DEF NoContext
    <2>2. context.expanded = (Preferred > Preferred)
        BY <1>0, <1>1, <2>1, Windows, AssembledFacts
    <2>3. (Preferred > Preferred) = FALSE
        BY Windows
    <2>4. context.expanded = FALSE
        BY <2>2, <2>3
    <2> QED BY <2>4
<1>2. CASE CanExpand /\ context = Assembled(asked, Maximum)
    <2>1. Room(asked, Maximum) \in Nat
        <3>1. Room(asked, Maximum) \in Int
            BY <1>0, Windows, RoomType
        <3>2. ASSUME Room(asked, Maximum) < 0 PROVE FALSE
            <4>1. context = NoContext
                BY <1>0, <1>2, <3>2, Windows, AssembledFacts
            <4> QED BY <1>0, <4>1 DEF NoContext
        <3> QED BY <3>1, <3>2
    <2>2. PICK r \in Requests : Memories(r) = Memories(asked)
        BY DEF Chosen
    <2>3. Maximum - Preferred >= WorkingMax + Total(Memories(asked)) + HistoryBudget
        <3>1. Maximum - Preferred >= WorkingMax + Total(Memories(r)) + HistoryBudget
            BY <1>2, <2>2 DEF FarApart
        <3> QED BY <2>2, <3>1
    <2>4. LET narrow == Assembled(asked, Preferred)
              wide == Assembled(asked, Maximum)
          IN /\ narrow.kept \subseteq wide.kept
             /\ narrow.working <= wide.working
             /\ narrow.memories <= wide.memories
        BY <1>0, <1>2, <2>1, <2>3, WiderHolds
    <2> QED BY <1>2, <2>4 DEF WiderLosesNothing
<1> QED BY <1>1, <1>2 DEF Chosen

-----------------------------------------------------------------------------
(* The context that is sent is as full as it can be and no fuller, for any  *)
(* history, records, budgets and windows: the halving finds the longest     *)
(* prefix though its budget is tried at few places only, and an event that  *)
(* the packing refused or the count of the whole transcript took back would *)
(* not have fitted (context_builder.py:_assemble, _fit_working_records).    *)
THEOREM AsFullAsItCanBe == Spec => []FillsWhatFits
<1> QED BY InitChosen, StepChosen, ChosenFull, PTL DEF Spec

(* Where the wide window is further from the preferred one than the budgets *)
(* of what it adds, it shows all the preferred one shows, whatever it adds  *)
(* (context_builder.py:build).                                              *)
THEOREM WiderWindow == ASSUME FarApart PROVE Spec => []WiderLosesNothing
<1>1. Chosen => WiderLosesNothing
    BY FarApart, ChosenWider
<1> QED BY <1>1, InitChosen, StepChosen, PTL DEF Spec
=============================================================================

---------------------------- MODULE RecallProofs ----------------------------
(***************************************************************************)
(* Theorems about Recall, for any fragments, details, records, messages    *)
(* and limits: what is unfolded has its line in the index, no private      *)
(* record rides on another one, a sealed detail needs the past, and a      *)
(* picture stays no longer than it may.                                    *)
(***************************************************************************)
EXTENDS Recall, FiniteSetTheorems, SequenceTheorems, WellFoundedInduction, TLAPS

Keys == {"none", "date_missing", "date_now", "today", "date_inherited", "correction",
         "ambiguous", "quote", "verbatim"}
Mentions == [ago : SUBSET Nat, on : SUBSET Nat]
Turns == [phase : {"idle", "asked", "rebuilt", "failed"},
          source : {"none", "dialogue", "initiative"}, m : Messages \cup {Silence},
          key : Keys, shown : SUBSET (Fragment \X Class), lines : SUBSET Fragment,
          used : SUBSET Record, picture : {"none", "new", "carried"}]

(* Every variable has its type. *)
TypeOK ==
    /\ now \in Nat
    /\ stored \subseteq Fragment
    /\ active \subseteq Record
    /\ said \in Seq(Mentions)
    /\ last \in Nat
    /\ topic \in Nat
    /\ opened \subseteq Fragment
    /\ carry \in Nat
    /\ attached \in Nat
    /\ turn \in Turns

-----------------------------------------------------------------------------
(* Finite sets and orders on them. *)

(* A set of naturals that is not empty has a least element. *)
LEMMA MinFacts ==
    ASSUME NEW S, S \subseteq Nat, S # {}
    PROVE  Min(S) \in S /\ \A x \in S : Min(S) <= x
<1>1. PICK m \in S : \A k \in S : ~(<<k, m>> \in OpToRel(<, Nat))
    BY WFMin, NatLessThanWellFounded
<1>2. \A k \in S : ~(k < m)
    BY <1>1 DEF OpToRel
<1>3. \A k \in S : m <= k
    BY <1>2
<1> QED BY <1>3 DEF Min

(* And a greatest one, if it is finite. *)
LEMMA MaxFacts ==
    ASSUME NEW S, S \subseteq Nat, S # {}, NEW b \in Nat, \A x \in S : x <= b
    PROVE  Max(S) \in S /\ \A x \in S : x <= Max(S)
<1> DEFINE U == {k \in Nat : \A x \in S : x <= k}
<1>1. U \subseteq Nat /\ U # {}
    OBVIOUS
<1>2. Min(U) \in U /\ \A k \in U : Min(U) <= k
    BY <1>1, MinFacts
<1>3. Min(U) \in S
    <2> SUFFICES ASSUME Min(U) \notin S PROVE FALSE
        OBVIOUS
    <2>1. Min(U) \in Nat /\ \A y \in S : y <= Min(U) /\ y \in Nat /\ y # Min(U)
        BY <1>2
    <2> PICK w \in S : TRUE
        OBVIOUS
    <2>2. Min(U) # 0
        BY <2>1
    <2>3. Min(U) - 1 \in U /\ Min(U) - 1 < Min(U)
        BY <2>1, <2>2
    <2> QED BY <1>2, <2>1, <2>3
<1>4. \E x \in S : \A y \in S : x >= y
    BY <1>2, <1>3
<1> QED BY <1>4 DEF Max

(* R orders S strictly and totally. *)
Orders(R, S) ==
    /\ \A x \in S : <<x, x>> \notin R
    /\ \A x, y \in S : x # y => <<x, y>> \in R \/ <<y, x>> \in R
    /\ \A x, y, z \in S : <<x, y>> \in R /\ <<y, z>> \in R => <<x, z>> \in R

(* Every rank is taken by one element: Sorted lists S without loss.        *)
LEMMA SortedFacts ==
    ASSUME NEW S, IsFiniteSet(S), NEW R, Orders(R, S)
    PROVE  /\ Sorted(S, R) \in Seq(S)
           /\ Len(Sorted(S, R)) = Cardinality(S)
           /\ Elements(Sorted(S, R)) = S
<1> DEFINE n == Cardinality(S)
           Before(x) == {y \in S : <<y, x>> \in R}
           rank == [x \in S |-> Cardinality(Before(x))]
           T == 0..(n - 1)
<1>1. n \in Nat
    BY FS_CardinalityType
<1>2. \A x \in S : IsFiniteSet(Before(x)) /\ Cardinality(Before(x)) \in Nat
    BY FS_Subset, FS_CardinalityType
<1>3. ASSUME NEW x \in S PROVE rank[x] \in T
    <2>1. Before(x) \subseteq S \ {x}
        BY DEF Orders
    <2>2. IsFiniteSet(S \ {x}) /\ Cardinality(S \ {x}) = n - 1
        BY FS_RemoveElement
    <2>3. Cardinality(Before(x)) <= Cardinality(S \ {x})
        BY <2>1, <2>2, FS_Subset
    <2> QED BY <1>1, <1>2, <2>2, <2>3
<1>4. ASSUME NEW x \in S, NEW y \in S, <<x, y>> \in R PROVE rank[x] < rank[y]
    <2>1. Before(x) \cup {x} \subseteq Before(y) /\ x \notin Before(x)
        BY <1>4 DEF Orders
    <2>2. Cardinality(Before(x) \cup {x}) = Cardinality(Before(x)) + 1
        BY <1>2, <2>1, FS_AddElement
    <2>3. Cardinality(Before(x) \cup {x}) <= Cardinality(Before(y))
        BY <1>2, <2>1, FS_Subset
    <2> QED BY <1>2, <2>2, <2>3
<1>5. \A x, y \in S : rank[x] = rank[y] => x = y
    <2> SUFFICES ASSUME NEW x \in S, NEW y \in S, x # y PROVE rank[x] # rank[y]
        OBVIOUS
    <2>1. <<x, y>> \in R \/ <<y, x>> \in R
        BY DEF Orders
    <2>2. rank[x] \in Int /\ rank[y] \in Int
        BY <1>1, <1>3
    <2> QED BY <1>4, <2>1, <2>2
<1>6. rank \in Injection(S, T)
    <2>1. rank \in [S -> T]
        BY <1>3
    <2> QED BY <1>5, <2>1 DEF Injection, IsInjective
<1>7. IsFiniteSet(T) /\ Cardinality(T) = n
    BY <1>1, FS_Interval
<1>8. rank \in Surjection(S, T)
    BY <1>6, <1>7, FS_Injection
<1>9. ASSUME NEW i \in 1..n PROVE \E x \in S : Cardinality(Before(x)) = i - 1
    <2>1. i - 1 \in T
        BY <1>1
    <2>2. PICK x \in S : rank[x] = i - 1
        BY <1>8, <2>1 DEF Surjection
    <2> QED BY <2>2
<1> DEFINE s == Sorted(S, R)
<1>10. s = [i \in 1..n |-> CHOOSE x \in S : Cardinality(Before(x)) = i - 1]
    BY DEF Sorted
<1>11. \A i \in 1..n : s[i] \in S /\ Cardinality(Before(s[i])) = i - 1
    BY <1>9, <1>10
<1>12. s \in Seq(S) /\ Len(s) = n /\ DOMAIN s = 1..n
    <2>1. DOMAIN s = 1..n
        BY <1>10
    <2>2. s \in [1..n -> S]
        BY <1>10, <1>11
    <2> HIDE DEF s, n
    <2> QED BY <1>1, <2>1, <2>2
<1>13. ASSUME NEW x \in S PROVE \E i \in 1..n : s[i] = x
    <2>1. rank[x] + 1 \in 1..n /\ rank[x] \in Nat
        BY <1>1, <1>3
    <2>2. s[rank[x] + 1] \in S /\ rank[s[rank[x] + 1]] = rank[x]
        BY <1>11, <2>1
    <2> QED BY <1>5, <2>1, <2>2
<1>14. Elements(s) = S
    BY <1>11, <1>12, <1>13 DEF Elements
<1> HIDE DEF s
<1> QED BY <1>12, <1>14 DEF s

(* Top and Last cut a list short. *)
LEMMA TopFacts ==
    ASSUME NEW S, NEW s \in Seq(S), NEW n \in Nat
    PROVE  /\ Top(s, n) \in Seq(S)
           /\ Elements(Top(s, n)) \subseteq Elements(s)
           /\ Len(s) <= n => Elements(Top(s, n)) = Elements(s)
<1> DEFINE k == IF Len(s) < n THEN Len(s) ELSE n
<1>1. Len(s) \in Nat /\ DOMAIN s = 1..Len(s)
    BY LenProperties
<1>2. k \in Nat /\ k <= Len(s)
    BY <1>1
<1>3. Top(s, n) = SubSeq(s, 1, k)
    BY DEF Top
<1>4. /\ SubSeq(s, 1, k) \in Seq(S)
      /\ Len(SubSeq(s, 1, k)) = k
      /\ \A i \in 1..k : SubSeq(s, 1, k)[i] = s[i]
    BY <1>1, <1>2
<1>0. ASSUME Len(s) <= n PROVE k = Len(s)
    <2>1. CASE Len(s) < n BY <1>1, <2>1 DEF k
    <2>2. CASE ~(Len(s) < n)
        <3>1. Len(s) \in Int /\ n \in Int /\ Len(s) <= n
            BY <1>0, <1>1
        <3>2. n = Len(s)
            BY <2>2, <3>1
        <3> QED BY <2>2, <3>2 DEF k
    <2> QED BY <2>1, <2>2
<1> HIDE DEF k
<1>5. DOMAIN SubSeq(s, 1, k) = 1..k
    BY <1>4, LenProperties
<1>6. Elements(Top(s, n)) \subseteq Elements(s)
    BY <1>1, <1>2, <1>3, <1>4, <1>5 DEF Elements
<1>8. Len(s) <= n => Elements(Top(s, n)) = Elements(s)
    BY <1>1, <1>3, <1>4, <1>5, <1>0 DEF Elements
<1> QED BY <1>3, <1>4, <1>6, <1>8

LEMMA LastFacts ==
    ASSUME NEW S, NEW s \in Seq(S), NEW n \in Nat
    PROVE  /\ Last(s, n) \in Seq(S)
           /\ \A i \in DOMAIN Last(s, n) : \E j \in DOMAIN s : Last(s, n)[i] = s[j]
<1> DEFINE k == Len(s) - (IF n < Len(s) THEN n ELSE Len(s)) + 1
<1>1. Len(s) \in Nat /\ DOMAIN s = 1..Len(s)
    BY LenProperties
<1>2. k \in 1..(Len(s) + 1)
    <2>1. CASE n < Len(s) BY <1>1, <2>1
    <2>2. CASE ~(n < Len(s)) BY <1>1, <2>2
    <2> QED BY <2>1, <2>2
<1>3. Last(s, n) = SubSeq(s, k, Len(s))
    BY DEF Last
<1> HIDE DEF k
<1>4. SubSeq(s, k, Len(s)) \in Seq(S)
    BY <1>1, <1>2
<1>5. Len(SubSeq(s, k, Len(s))) = Len(s) - k + 1
    BY <1>1, <1>2
<1>6. \A i \in 1..(Len(s) - k + 1) : SubSeq(s, k, Len(s))[i] = s[k + i - 1]
    BY <1>1, <1>2
<1>7. DOMAIN SubSeq(s, k, Len(s)) = 1..(Len(s) - k + 1)
    BY <1>4, <1>5, LenProperties
<1> QED BY <1>1, <1>2, <1>3, <1>4, <1>6, <1>7
-----------------------------------------------------------------------------
(* Where a message leads. *)

(* The days a message names lie in the past once filtered. *)
LEMMA PastDaysArePast ==
    ASSUME NEW m PROVE \A d \in PastDays(m) : d < Day(now)
BY DEF PastDays, Past

LEMMA Finite ==
    ASSUME NEW S, S \subseteq Fragment
    PROVE  IsFiniteSet(S) /\ S \subseteq Nat
<1>1. LastTime \in Nat /\ Fragment \subseteq 0..LastTime
    BY RecallAssumption
<1>2. IsFiniteSet(0..LastTime)
    BY <1>1, FS_Interval
<1>3. S \in SUBSET (0..LastTime) /\ S \subseteq Nat
    BY <1>1
<1> QED BY <1>2, <1>3, FS_Subset

LEMMA Numbers ==
    ASSUME NEW S, S \subseteq Fragment
    PROVE  /\ Orders(NewestFirst, S)
           /\ Orders(OldestFirst, S)
<1>1. S \subseteq Nat /\ Fragment \subseteq Nat
    BY Finite
<1> QED BY <1>1 DEF Orders, NewestFirst, OldestFirst

LEMMA HourType == ASSUME NEW t \in Nat PROVE Hour(t) \in 0..(H - 1)
<1>1. H \in Nat /\ H # 0
    BY RecallAssumption
<1> QED BY <1>1 DEF Hour

(* How far a fragment is from what a message names is a number. *)
LEMMA NearnessType ==
    ASSUME NEW f \in Fragment, NEW m \in Message
    PROVE  Nearness(f, m) \in Nat
<1>1. H \in Nat /\ H # 0 /\ Hour(f) \in 0..(H - 1)
    BY RecallAssumption, HourType, Finite
<1>2. \A a \in 0..(H - 1) : Apart(Hour(f), a) \in Nat
    BY <1>1 DEF Apart
<1>3. Anchors(m) \subseteq 0..(H - 1)
    <2>1. m.when \in Seq(Word)
        BY DEF Message
    <2>2. Elements(m.when) \subseteq Word
        BY <2>1, LenProperties, ElementOfSeq DEF Elements
    <2> QED BY <2>2 DEF Anchors, Word
<1>4. Distance(f, m) \in Nat
    <2> DEFINE D == {Apart(Hour(f), a) : a \in Anchors(m)}
    <2>1. CASE Anchors(m) = {}
        BY <2>1 DEF Distance
    <2>2. CASE Anchors(m) # {}
        <3>1. D \subseteq Nat /\ D # {}
            BY <1>2, <1>3, <2>2
        <3>2. Min(D) \in Nat
            BY <3>1, MinFacts
        <3> QED BY <2>2, <3>2 DEF Distance
    <2> QED BY <2>1, <2>2
<1>5. OffBand(f, m) \in {0, 1}
    BY DEF OffBand
<1> QED BY <1>4, <1>5 DEF Nearness

(* fragments_on_dates: fragments of the days asked for, and all of them    *)
(* as long as the limit is not reached.                                    *)
LEMMA OnDatesFacts ==
    ASSUME TypeOK, NEW days, NEW m \in Message, NEW limit \in Nat
    PROVE  LET F == {f \in stored : Day(f) \in days} IN
           /\ OnDates(days, m, limit) \in Seq(F)
           /\ Elements(OnDates(days, m, limit)) \subseteq F
           /\ Cardinality(F) <= limit => Elements(OnDates(days, m, limit)) = F
<1> DEFINE F == {f \in stored : Day(f) \in days}
           near == [f \in F |-> Nearness(f, m)]
           R == {r \in F \X F : \/ near[r[1]] < near[r[2]]
                                \/ near[r[1]] = near[r[2]] /\ r[1] > r[2]}
<1>1. F \subseteq Fragment /\ IsFiniteSet(F) /\ F \subseteq Nat
    BY Finite DEF TypeOK
<1>2. near \in [F -> Nat]
    BY <1>1, NearnessType
<1>3. Orders(R, F)
    <2> HIDE DEF near, F
    <2> QED BY <1>1, <1>2 DEF Orders
<1>4. /\ Sorted(F, R) \in Seq(F)
      /\ Len(Sorted(F, R)) = Cardinality(F)
      /\ Elements(Sorted(F, R)) = F
    BY <1>1, <1>3, SortedFacts
<1>5. OnDates(days, m, limit) = Top(Sorted(F, R), limit)
    BY DEF OnDates
<1> DEFINE q == Sorted(F, R)
<1> HIDE DEF F, q
<1>6. /\ OnDates(days, m, limit) \in Seq(F)
      /\ Elements(OnDates(days, m, limit)) \subseteq F
      /\ Cardinality(F) <= limit => Elements(OnDates(days, m, limit)) = F
    <2>1. q \in Seq(F) /\ Len(q) = Cardinality(F) /\ Elements(q) = F
        BY <1>4 DEF q
    <2>2. OnDates(days, m, limit) = Top(q, limit)
        BY <1>5 DEF q
    <2> HIDE DEF R
    <2>3. Top(q, limit) \in Seq(F)
        BY <2>1, TopFacts
    <2>4. Elements(Top(q, limit)) \subseteq Elements(q)
        BY <2>1, TopFacts
    <2>5. Len(q) <= limit => Elements(Top(q, limit)) = Elements(q)
        BY <2>1, TopFacts
    <2> QED BY <2>1, <2>2, <2>3, <2>4, <2>5
<1> QED BY <1>6 DEF F

LEMMA ReorderedFacts ==
    ASSUME NEW s \in Seq(Fragment), NEW m
    PROVE  /\ Reordered(s, m) \in Seq(Elements(s))
           /\ Elements(Reordered(s, m)) = Elements(s)
<1> DEFINE F == Elements(s)
           Place(f) == CHOOSE i \in DOMAIN s : s[i] = f
           R == {r \in F \X F :
                    \/ Match(r[1], m) > Match(r[2], m)
                    \/ /\ Match(r[1], m) = Match(r[2], m)
                       /\ IF Match(r[1], m) = 0 THEN Place(r[1]) < Place(r[2]) ELSE r[1] < r[2]}
<1>1. F \subseteq Fragment /\ IsFiniteSet(F) /\ F \subseteq Nat
    <2>1. F \subseteq Fragment
        BY LenProperties, ElementOfSeq DEF Elements
    <2> QED BY <2>1, Finite
<1>2. \A f \in F : Match(f, m) \in Nat
    BY DEF Match
<1>3. \A f \in F : Place(f) \in Nat /\ s[Place(f)] = f
    <2>1. \A f \in F : \E i \in DOMAIN s : s[i] = f
        BY DEF Elements
    <2>2. DOMAIN s \subseteq Nat
        BY LenProperties
    <2> QED BY <2>1, <2>2
<1> DEFINE P == [f \in F |-> Place(f)]
           M == [f \in F |-> Match(f, m)]
<1> HIDE DEF F, Place
<1>4. P \in [F -> Nat] /\ M \in [F -> Nat] /\ \A f, g \in F : P[f] = P[g] => f = g
    BY <1>2, <1>3
<1>5. R = {r \in F \X F :
                    \/ M[r[1]] > M[r[2]]
                    \/ /\ M[r[1]] = M[r[2]]
                       /\ IF M[r[1]] = 0 THEN P[r[1]] < P[r[2]] ELSE r[1] < r[2]}
    <2>1. \A r \in F \X F : r[1] \in F /\ r[2] \in F
        OBVIOUS
    <2> QED BY <2>1
<1>6. Orders(R, F)
    <2> HIDE DEF F, R, P, M
    <2>1. \A x, y \in F : <<x, y>> \in R <=>
                    \/ M[x] > M[y]
                    \/ /\ M[x] = M[y]
                       /\ IF M[x] = 0 THEN P[x] < P[y] ELSE x < y
        BY <1>5
    <2>2. \A x \in F : M[x] \in Nat /\ P[x] \in Nat /\ x \in Nat
        BY <1>1, <1>4
    <2>3. \A x \in F : <<x, x>> \notin R
        BY <2>1, <2>2
    <2>4. \A x, y \in F : x # y => <<x, y>> \in R \/ <<y, x>> \in R
        BY <1>4, <2>1, <2>2
    <2>5. ASSUME NEW x \in F, NEW y \in F, NEW z \in F, <<x, y>> \in R, <<y, z>> \in R
          PROVE  <<x, z>> \in R
        <3>1. M[x] > M[y] \/ (M[x] = M[y] /\ IF M[x] = 0 THEN P[x] < P[y] ELSE x < y)
            BY <2>1, <2>5
        <3>2. M[y] > M[z] \/ (M[y] = M[z] /\ IF M[y] = 0 THEN P[y] < P[z] ELSE y < z)
            BY <2>1, <2>5
        <3>3. /\ M[x] \in Nat /\ M[y] \in Nat /\ M[z] \in Nat
              /\ P[x] \in Nat /\ P[y] \in Nat /\ P[z] \in Nat
              /\ x \in Nat /\ y \in Nat /\ z \in Nat
            BY <2>2
        <3>4. M[x] > M[z] \/ (M[x] = M[z] /\ IF M[x] = 0 THEN P[x] < P[z] ELSE x < z)
            BY ONLY <3>1, <3>2, <3>3
        <3> QED BY <2>1, <3>4
    <2>6. \A x, y, z \in F : <<x, y>> \in R /\ <<y, z>> \in R => <<x, z>> \in R
        BY <2>5
    <2> QED BY <2>3, <2>4, <2>6 DEF Orders
<1>7. Reordered(s, m) = Sorted(F, R)
    BY DEF Reordered, F, Place
<1> HIDE DEF R
<1>8. Reordered(s, m) \in Seq(F) /\ Elements(Reordered(s, m)) = F
    BY <1>1, <1>6, <1>7, SortedFacts
<1> QED BY <1>8 DEF F

LEMMA SeqMonotone ==
    ASSUME NEW S, NEW T, S \subseteq T, NEW s \in Seq(S)
    PROVE  s \in Seq(T) /\ Elements(s) \subseteq S
<1>1. s \in [1..Len(s) -> S] /\ Len(s) \in Nat /\ DOMAIN s = 1..Len(s)
    BY LenProperties
<1>2. s \in [1..Len(s) -> T]
    BY <1>1
<1> QED BY <1>1, <1>2 DEF Elements

LEMMA SilenceType == Silence \in Message
BY DEF Silence, Message

LEMMA LimitTypes == DayLimit \in Nat /\ Limit \in Nat /\ CarryTurns \in Nat /\ Lookback \in Nat
BY RecallAssumption

(* What is quoted, repeated or resembled is stored.                        *)
LEMMA ListFacts ==
    ASSUME TypeOK, NEW m
    PROVE  /\ Quoted(m) \in Seq(stored) /\ Elements(Quoted(m)) \subseteq m.quotes
           /\ Copied(m) \in Seq(stored)
           /\ Others(m) \subseteq stored
           /\ Sorted(Others(m), NewestFirst) \in Seq(stored)
<1>1. ASSUME NEW S, S \subseteq stored
      PROVE  /\ Sorted(S, NewestFirst) \in Seq(stored)
             /\ Elements(Sorted(S, NewestFirst)) = S
             /\ Sorted(S, OldestFirst) \in Seq(stored)
             /\ Elements(Sorted(S, OldestFirst)) = S
    <2>1. S \subseteq Fragment /\ IsFiniteSet(S)
        BY <1>1, Finite DEF TypeOK
    <2>2. Orders(NewestFirst, S) /\ Orders(OldestFirst, S)
        BY <2>1, Numbers
    <2> QED BY <1>1, <2>1, <2>2, SortedFacts, SeqMonotone
<1>2. Quoted(m) \in Seq(stored) /\ Elements(Quoted(m)) \subseteq m.quotes
    BY <1>1 DEF Quoted
<1>3. Copied(m) \in Seq(stored)
    <2>1. Sorted(m.copies \cap stored, NewestFirst) \in Seq(stored)
        BY <1>1
    <2> QED BY <2>1, TopFacts, LimitTypes DEF Copied
<1>4. Others(m) \subseteq stored
    <2>1. Sorted(m.alike \cap stored, NewestFirst) \in Seq(stored)
        BY <1>1
    <2>2. Matching(m) \in Seq(stored)
        BY <2>1, TopFacts, LimitTypes DEF Matching
    <2>3. Elements(Matching(m)) \subseteq stored
        BY <2>2, SeqMonotone
    <2> QED BY <2>3 DEF Others
<1> QED BY <1>1, <1>2, <1>3, <1>4

(* The newest message that names a day is one of those heard.              *)
LEMMA NamingFacts ==
    ASSUME NEW heard \in Seq(Mentions), NamesADay(heard) # {}
    PROVE  Max(NamesADay(heard)) \in DOMAIN heard
<1>1. Len(heard) \in Nat /\ DOMAIN heard = 1..Len(heard)
    BY LenProperties
<1>2. NamesADay(heard) \subseteq 1..Len(heard)
    BY <1>1 DEF NamesADay
<1>3. Max(NamesADay(heard)) \in NamesADay(heard)
    BY <1>1, <1>2, MaxFacts
<1> QED BY <1>1, <1>2, <1>3

(* By which way a turn gets its key.                                       *)
LEMMA PointedCases ==
    ASSUME NEW m, NEW heard
    PROVE  \/ Pointed(m, heard) = ByDate(m)
           \/ Pointed(m, heard) = Pointer("quote", Quoted(m))
           \/ Pointed(m, heard) = Pointer("verbatim", Copied(m))
           \/ NamesADay(heard) # {} /\ Pointed(m, heard) = Inherited(heard)
           \/ Pointed(m, heard) = Corrected(m)
           \/ Pointed(m, heard) = Nowhere
BY DEF Pointed

LEMMA ByDateFacts ==
    ASSUME TypeOK, NEW m \in Message
    PROVE  /\ ByDate(m).key \in Keys
           /\ ByDate(m).fragments \in Seq(stored)
           /\ \A f \in Elements(ByDate(m).fragments) :
                 Sensitive(ByDate(m)) /\ f \notin ByDate(m).ordinary =>
                    \/ Day(f) \in PastDays(m)
                    \/ Cardinality({g \in stored : Day(g) = Day(now)}) > DayLimit
<1> DEFINE s == OnDates(Wanted(m), m, DayLimit)
           F == {f \in stored : Day(f) \in Wanted(m)}
           G == {g \in stored : Day(g) = Day(now)}
           G2 == {g \in stored : Day(g) \in {Day(now)}}
           t == OnDates({Day(now)}, Silence, DayLimit)
<1>0. stored \subseteq Fragment
    BY DEF TypeOK
<1>1. s \in Seq(F) /\ Elements(s) \subseteq F
    BY OnDatesFacts, LimitTypes
<1>2. Cardinality(G2) <= DayLimit => Elements(t) = G2
    BY OnDatesFacts, SilenceType, LimitTypes
<1>3. G2 = G
    OBVIOUS
<1>4. IsFiniteSet(G) /\ Cardinality(G) \in Nat
    BY <1>0, Finite, FS_CardinalityType
<1>5. s \in Seq(Fragment) /\ s \in Seq(stored)
    BY <1>0, <1>1, SeqMonotone
<1>6. Reordered(s, m) \in Seq(Elements(s)) /\ Elements(Reordered(s, m)) = Elements(s)
    BY <1>5, ReorderedFacts
<1>7. Reordered(s, m) \in Seq(stored)
    BY <1>1, <1>6, SeqMonotone
<1>8. CASE s = << >>
    <2>1. ByDate(m) = Pointer("date_missing", << >>)
        BY <1>8 DEF ByDate
    <2>2. << >> \in Seq(stored) /\ Elements(<< >>) = {}
        BY DEF Elements
    <2> QED BY <2>1, <2>2 DEF Pointer, Keys
<1>9. CASE s # << >>
    <2>1. ByDate(m) = [key |-> IF PastDays(m) # {} THEN "date_now" ELSE "today",
                       fragments |-> Reordered(s, m), ordinary |-> OrdinaryOnly(m, s)]
        BY <1>9 DEF ByDate
    <2>2. ASSUME NEW f \in Elements(s), f \notin OrdinaryOnly(m, s), Day(f) \notin PastDays(m)
          PROVE  Cardinality(G) > DayLimit
        <3>1. Day(f) \in Wanted(m) /\ f \in stored
            BY <1>1
        <3>2. TodayToo(m) /\ Day(f) = Day(now)
            BY <2>2, <3>1 DEF Wanted
        <3>3. f \notin Elements(t) /\ f \in G
            BY <2>2, <3>1, <3>2 DEF OrdinaryOnly
        <3>4. ~(Cardinality(G) <= DayLimit)
            BY <1>2, <1>3, <3>3
        <3> QED BY <1>4, <3>4, LimitTypes
    <2>3. ByDate(m).key \in Keys
        BY <2>1 DEF Keys
    <2> HIDE DEF s, G
    <2> QED BY <1>6, <1>7, <2>1, <2>2, <2>3 DEF G
<1> QED BY <1>8, <1>9

LEMMA InheritedFacts ==
    ASSUME TypeOK, NEW heard \in Seq(Mentions), NamesADay(heard) # {}
    PROVE  /\ Inherited(heard).key \in Keys
           /\ Inherited(heard).fragments \in Seq(stored)
           /\ Sensitive(Inherited(heard)) =>
                \A f \in Elements(Inherited(heard).fragments) :
                    /\ Day(f) < Day(now)
                    /\ \E i \in DOMAIN heard : Day(f) \in Named(heard[i])
<1> DEFINE i == Max(NamesADay(heard))
           past == Past(Named(heard[i]))
           s == OnDates(past, Silence, Limit)
           F == {f \in stored : Day(f) \in past}
<1>1. i \in DOMAIN heard
    BY NamingFacts
<1>2. s \in Seq(F) /\ Elements(s) \subseteq F
    <2> HIDE DEF past
    <2> QED BY OnDatesFacts, SilenceType, LimitTypes
<1>3. s \in Seq(stored)
    BY <1>2, SeqMonotone
<1>4. \A f \in Elements(s) : Day(f) < Day(now) /\ Day(f) \in Named(heard[i])
    BY <1>2 DEF Past
<1>5. << >> \in Seq(stored) /\ Elements(<< >>) = {}
    BY DEF Elements
<1>6. \/ Inherited(heard) = Nowhere
      \/ Inherited(heard) = Pointer("date_missing", << >>)
      \/ Inherited(heard) = Pointer("date_inherited", s)
    BY DEF Inherited
<1>7. \A f \in Elements(s) : Day(f) < Day(now) /\ \E j \in DOMAIN heard : Day(f) \in Named(heard[j])
    BY <1>1, <1>4
<1> DEFINE p == Inherited(heard)
<1> HIDE DEF i, past, s, p
<1>8. p.key \in Keys /\ p.fragments \in Seq(stored)
    <2>1. CASE p = Nowhere
        BY <1>5, <2>1 DEF Nowhere, Pointer, Keys
    <2>2. CASE p = Pointer("date_missing", << >>)
        BY <1>5, <2>2 DEF Pointer, Keys
    <2>3. CASE p = Pointer("date_inherited", s)
        BY <1>3, <2>3 DEF Pointer, Keys
    <2> QED BY <1>6, <2>1, <2>2, <2>3 DEF p
<1>9. Elements(p.fragments) = {} \/ p.fragments = s
    BY <1>5, <1>6 DEF Nowhere, Pointer, p
<1> QED BY <1>7, <1>8, <1>9 DEF p

LEMMA CorrectedFacts ==
    ASSUME TypeOK, NEW m
    PROVE  /\ Corrected(m).key \in Keys /\ ~Sensitive(Corrected(m))
           /\ Corrected(m).fragments \in Seq(stored)
<1>1. Sorted(Others(m), NewestFirst) \in Seq(stored) /\ << >> \in Seq(stored)
    BY ListFacts
<1> QED BY <1>1 DEF Corrected, Pointer, Keys, Sensitive, SensitiveKeys

(* Every way leads to fragments that are stored.                           *)
LEMMA PointedFacts ==
    ASSUME TypeOK, NEW m \in Message, NEW heard \in Seq(Mentions)
    PROVE  /\ Pointed(m, heard).key \in Keys
           /\ Pointed(m, heard).fragments \in Seq(stored)
<1>1. << >> \in Seq(stored)
    OBVIOUS
<1>2. /\ Pointer("quote", Quoted(m)).key \in Keys
      /\ Pointer("quote", Quoted(m)).fragments \in Seq(stored)
      /\ Pointer("verbatim", Copied(m)).key \in Keys
      /\ Pointer("verbatim", Copied(m)).fragments \in Seq(stored)
      /\ Nowhere.key \in Keys /\ Nowhere.fragments \in Seq(stored)
    BY <1>1, ListFacts DEF Pointer, Nowhere, Keys
<1> QED BY <1>2, PointedCases, ByDateFacts, InheritedFacts, CorrectedFacts

(* A key that opens sealed details leads to what was quoted or to the past.*)
LEMMA SealedPointer ==
    ASSUME TypeOK, NEW m \in Message, NEW heard \in Seq(Mentions),
           NEW f \in Elements(Pointed(m, heard).fragments),
           Sensitive(Pointed(m, heard)), f \notin Pointed(m, heard).ordinary
    PROVE  \/ f \in m.quotes
           \/ /\ Day(f) < Day(now)
              /\ \/ Day(f) \in PastDays(m)
                 \/ \E i \in DOMAIN heard : Day(f) \in Named(heard[i])
           \/ Cardinality({g \in stored : Day(g) = Day(now)}) > DayLimit
<1> DEFINE p == Pointed(m, heard)
<1>1. CASE p = ByDate(m)
    BY <1>1, ByDateFacts, PastDaysArePast
<1>2. CASE p = Pointer("quote", Quoted(m))
    BY <1>2, ListFacts DEF Pointer
<1>3. CASE NamesADay(heard) # {} /\ p = Inherited(heard)
    BY <1>3, InheritedFacts
<1>4. ~(p = Corrected(m) \/ p = Nowhere \/ p = Pointer("verbatim", Copied(m)))
    BY CorrectedFacts DEF Nowhere, Pointer, Sensitive, SensitiveKeys
<1> QED BY <1>1, <1>2, <1>3, <1>4, PointedCases

-----------------------------------------------------------------------------
(* What a turn is built of. *)

LEMMA HeardFacts ==
    ASSUME TypeOK, NEW source
    PROVE  /\ Heard(source) \in Seq(Mentions)
           /\ \A i \in DOMAIN Heard(source) : \E j \in DOMAIN said : Heard(source)[i] = said[j]
<1>1. said \in Seq(Mentions) /\ topic \in Nat
    BY DEF TypeOK
<1>2. << >> \in Seq(Mentions) /\ DOMAIN << >> = {}
    OBVIOUS
<1>4. ASSUME NEW n \in Nat
      PROVE  /\ Last(said, n) \in Seq(Mentions)
             /\ \A i \in DOMAIN Last(said, n) :
                   \E j \in DOMAIN said : Last(said, n)[i] = said[j]
    <2>1. Last(said, n) \in Seq(Mentions)
        BY <1>1, LastFacts
    <2>2. \A i \in DOMAIN Last(said, n) : \E j \in DOMAIN said : Last(said, n)[i] = said[j]
        BY <1>1, LastFacts
    <2> QED BY <2>1, <2>2
<1>3. \/ Heard(source) = << >>
      \/ Heard(source) = said
      \/ Heard(source) = Last(said, 1)
      \/ Heard(source) = Last(said, topic)
    BY DEF Heard
<1>5. CASE Heard(source) = << >>
    BY <1>2, <1>5
<1>6. CASE Heard(source) = said
    BY <1>1, <1>6
<1>7. CASE Heard(source) = Last(said, 1)
    BY <1>4, <1>7
<1>8. CASE Heard(source) = Last(said, topic)
    BY <1>1, <1>4, <1>8
<1> QED BY <1>3, <1>5, <1>6, <1>7, <1>8

(* Only what the pointer leads to and the key allows is claimed.           *)
LEMMA ClaimedFacts ==
    ASSUME TypeOK, NEW p, p.fragments \in Seq(stored)
    PROVE  /\ Claimed(p) \subseteq stored \X Class
           /\ \A f, c : <<f, c>> \in Claimed(p) =>
                 f \in Elements(p.fragments) /\ Allowed(p, f, c)
<1> DEFINE t == Targets(p)
<1>1. t \in Seq(stored) /\ Elements(t) \subseteq Elements(p.fragments)
    BY DEF Targets, Elements
<1>2. \A i \in DOMAIN t : t[i] \in stored /\ t[i] \in Elements(p.fragments)
    BY <1>1, LenProperties, ElementOfSeq DEF Elements
<1>3. \A d \in Claimed(p) : \E i \in DOMAIN t : \E c \in Opens(p, t[i]) : d = <<t[i], c>>
    BY DEF Claimed
<1>4. \A f : \A c \in Opens(p, f) : c \in Class /\ Allowed(p, f, c)
    BY DEF Opens
<1> HIDE DEF t
<1>5. \A d \in Claimed(p) : \E f \in stored, c \in Class :
          d = <<f, c>> /\ f \in Elements(p.fragments) /\ Allowed(p, f, c)
    BY <1>2, <1>3, <1>4
<1> QED BY <1>5

(* There are finitely many records.                                        *)
LEMMA RecordsFinite == ASSUME NEW R, R \subseteq Record PROVE IsFiniteSet(R)
<1> DEFINE A == {"preference", "episode"}
           B == {"daily_safe", "topic_only", "explicit_request_only"}
           Q == (A \X BOOLEAN) \X (B \X Fragment)
           g == [q \in Q |-> [type |-> q[1][1], private |-> q[1][2],
                              policy |-> q[2][1], from |-> q[2][2]]]
<1>1. IsFiniteSet(A) /\ IsFiniteSet(BOOLEAN) /\ IsFiniteSet(B) /\ IsFiniteSet(Fragment)
    <2>1. A = {"preference"} \cup {"episode"}
        OBVIOUS
    <2>2. B = ({"daily_safe"} \cup {"topic_only"}) \cup {"explicit_request_only"}
        OBVIOUS
    <2>3. BOOLEAN = {TRUE} \cup {FALSE}
        OBVIOUS
    <2>4. IsFiniteSet(Fragment)
        BY Finite
    <2>5. \A x : IsFiniteSet({x})
        BY FS_Singleton
    <2>10. IsFiniteSet({"preference"} \cup {"episode"})
        BY <2>5, FS_Union
    <2>6. IsFiniteSet(A)
        BY <2>1, <2>10
    <2>7. IsFiniteSet({"daily_safe"} \cup {"topic_only"})
        BY <2>5, FS_Union
    <2>11. IsFiniteSet(({"daily_safe"} \cup {"topic_only"}) \cup {"explicit_request_only"})
        BY <2>5, <2>7, FS_Union
    <2>8. IsFiniteSet(B)
        BY <2>2, <2>11
    <2>9. IsFiniteSet({TRUE} \cup {FALSE})
        BY <2>5, FS_Union
    <2> QED BY <2>3, <2>4, <2>6, <2>8, <2>9
<1>2. IsFiniteSet(Q)
    <2>1. IsFiniteSet(A \X BOOLEAN)
        BY <1>1, FS_Product
    <2>2. IsFiniteSet(B \X Fragment)
        BY <1>1, FS_Product
    <2> QED BY <2>1, <2>2, FS_Product
<1>3. g \in Surjection(Q, Records)
    <2>1. g \in [Q -> Records]
        BY DEF Records
    <2>2. ASSUME NEW r \in Records PROVE \E q \in Q : g[q] = r
        <3> DEFINE q == <<<<r.type, r.private>>, <<r.policy, r.from>>>>
        <3>1. q \in Q
            BY DEF Records
        <3>2. g[q] = r
            BY <3>1 DEF Records
        <3> QED BY <3>1, <3>2
    <2> HIDE DEF g, Q
    <2> QED BY <2>1, <2>2 DEF Surjection
<1>4. IsFiniteSet(Records)
    BY <1>2, <1>3, FS_Surjection
<1>5. R \in SUBSET Records
    BY RecallAssumption
<1> QED BY <1>4, <1>5, FS_Subset

(* A fragment with a detail has something to be announced by.              *)
LEMMA TotalFacts ==
    ASSUME TypeOK, NEW f \in Fragment, NEW c \in Class, Holds[f][c] > 0
    PROVE  Total(f) > 0
<1>1. Cardinality(Linked(f)) \in Nat
    <2>1. Linked(f) \subseteq Record
        BY DEF Linked, TypeOK
    <2> QED BY <2>1, RecordsFinite, FS_CardinalityType
<1>2. Holds[f] \in [Class -> Nat]
    BY RecallAssumption
<1>3. Holds[f]["ordinary"] \in Nat /\ Holds[f]["topic"] \in Nat /\ Holds[f]["explicit"] \in Nat
    BY <1>2 DEF Class
<1>4. c = "ordinary" \/ c = "topic" \/ c = "explicit"
    BY DEF Class
<1> QED BY <1>1, <1>3, <1>4 DEF Total

LEMMA IndexFacts ==
    ASSUME TypeOK, NEW pinned
    PROVE  /\ Index(pinned) \subseteq stored
           /\ \A f \in pinned \cap stored : Total(f) > 0 => f \in Index(pinned)
BY DEF Index, Newest

(* What is unfolded is in the index of the same turn.                      *)
LEMMA ShownFacts ==
    ASSUME TypeOK, NEW p, p.fragments \in Seq(stored), NEW m, NEW heard
    PROVE  /\ Shown(m, p) \subseteq Claimed(p)
           /\ Shown(m, p) \subseteq Fragment \X Class
           /\ Of(Claimed(p)) \subseteq Fragment
           /\ Of(Shown(m, p)) \subseteq Index(Pinned(m, p, heard))
<1>1. Shown(m, p) \subseteq Claimed(p)
    BY DEF Shown
<1>2. Claimed(p) \subseteq stored \X Class /\ stored \subseteq Fragment
    BY ClaimedFacts DEF TypeOK
<1>3. ASSUME NEW d \in Claimed(p) PROVE d[1] \in Index(Pinned(m, p, heard))
    <2>1. d[1] \in stored /\ d[2] \in Class /\ d = <<d[1], d[2]>>
        BY <1>2
    <2>2. Holds[d[1]][d[2]] > 0
        BY <2>1, ClaimedFacts DEF Allowed
    <2>3. Total(d[1]) > 0
        BY <1>2, <2>1, <2>2, TotalFacts
    <2>4. d[1] \in Pinned(m, p, heard)
        BY DEF Pinned, Of
    <2> QED BY <2>1, <2>3, <2>4, IndexFacts
<1>4. Of(Claimed(p)) \subseteq Fragment
    BY <1>2 DEF Of
<1> QED BY <1>1, <1>2, <1>3, <1>4 DEF Of

(* A private record is in the context by itself alone.                     *)
LEMMA UsedFacts ==
    ASSUME TypeOK, NEW m \in Message, NEW p
    PROVE  /\ InContext(m, p) \subseteq active
           /\ \A r \in InContext(m, p) : r.private =>
                 /\ m.hits[r] > 0
                 /\ r.policy = "explicit_request_only" =>
                       p.key \in SensitiveKeys \/ r.from \in m.quotes
<1>1. Found(m) \subseteq active /\ active \subseteq Record
    BY DEF Found, TypeOK
<1>2. m.hits \in [Record -> 0..2]
    BY DEF Message
<1>3. ASSUME NEW r \in Found(m) PROVE m.hits[r] > 0
    <2>1. Points(m, r) /\ m.hits[r] \in 0..2
        BY <1>1, <1>2 DEF Found
    <2> QED BY <2>1 DEF Points
<1>4. ASSUME NEW r \in InContext(m, p), r.private
      PROVE  r \in Found(m) /\ Admitted(m, p, r)
    BY <1>4 DEF InContext, Guarded
<1>5. InContext(m, p) \subseteq active
    BY <1>1 DEF InContext
<1> QED BY <1>3, <1>4, <1>5 DEF Admitted, Sensitive

-----------------------------------------------------------------------------
(* The invariant: the turn says of itself what the properties ask, and the *)
(* turns a picture still has make up for those it has been attached in.    *)

PictureSpent == attached + carry <= CarryTurns + 1

IInv == TypeOK /\ ShownIsIndexed /\ EachAdmitted /\ PictureSpent

LEMMA MessageTypes ==
    ASSUME NEW m \in Messages \cup {Silence} PROVE m \in Message
BY RecallAssumption, SilenceType

LEMMA CarryStep ==
    ASSUME TypeOK, PictureSpent, NEW m, NEW skip, Carry(Picture(m, skip))
    PROVE  carry' \in Nat /\ attached' \in Nat /\ PictureSpent'
<1>1. CarryTurns \in Nat /\ CarryTurns' = CarryTurns
    BY LimitTypes
<1>2. carry \in Nat /\ attached \in Nat
    BY DEF TypeOK
<1>3. CASE Picture(m, skip) = "new"
    BY <1>1, <1>2, <1>3 DEF Carry, PictureSpent
<1>4. CASE Picture(m, skip) = "carried"
    <2>1. carry > 0
        BY <1>4 DEF Picture
    <2>2. carry' = carry - 1 /\ attached' = attached + 1
        BY <1>4 DEF Carry, Spent
    <2> QED BY <1>1, <1>2, <2>1, <2>2 DEF PictureSpent
<1>5. CASE Picture(m, skip) = "none"
    BY <1>1, <1>2, <1>5 DEF Carry, PictureSpent
<1> QED BY <1>3, <1>4, <1>5 DEF Picture

(* A turn that is built is what it should be; so is one that fails.        *)
LEMMA BuiltStep ==
    ASSUME TypeOK, NEW m \in Messages \cup {Silence}, NEW source \in {"dialogue", "initiative"},
           NEW skip, NEW phase \in {"asked", "rebuilt"}, Built(m, source, skip, phase)
    PROVE  /\ turn' \in Turns
           /\ opened' \subseteq Fragment
           /\ ShownIsIndexed'
           /\ EachAdmitted'
<1> DEFINE heard == Heard(source)
           p == Pointed(m, heard)
           ok == Assembles(m, p)
           made == [phase |-> IF ok THEN phase ELSE "failed", source |-> source, m |-> m,
                    key |-> p.key, picture |-> Picture(m, skip),
                    shown |-> IF ok THEN Shown(m, p) ELSE {},
                    lines |-> IF ok THEN Index(Pinned(m, p, heard)) ELSE {},
                    used |-> IF ok THEN InContext(m, p) ELSE {}]
<1>1. turn' = made /\ opened' = IF ok THEN Of(Claimed(p)) ELSE opened
    BY DEF Built
<1>2. m \in Message
    BY MessageTypes
<1>3. heard \in Seq(Mentions)
    BY HeardFacts
<1> HIDE DEF heard
<1>4. p.key \in Keys /\ p.fragments \in Seq(stored)
    BY <1>2, <1>3, PointedFacts
<1> HIDE DEF p
<1>5. /\ Shown(m, p) \subseteq Fragment \X Class
      /\ Of(Claimed(p)) \subseteq Fragment
      /\ Of(Shown(m, p)) \subseteq Index(Pinned(m, p, heard))
    BY <1>4, ShownFacts
<1>6. Index(Pinned(m, p, heard)) \subseteq Fragment
    BY IndexFacts DEF TypeOK
<1>7. /\ InContext(m, p) \subseteq Record
      /\ \A r \in InContext(m, p) : r.private =>
            /\ m.hits[r] > 0
            /\ r.policy = "explicit_request_only" =>
                  p.key \in SensitiveKeys \/ r.from \in m.quotes
    BY <1>2, UsedFacts DEF TypeOK
<1>8. Picture(m, skip) \in {"none", "new", "carried"}
    BY DEF Picture
<1> HIDE DEF ok
<1>9. made \in Turns
    BY <1>4, <1>5, <1>6, <1>7, <1>8 DEF Turns
<1>10. opened' \subseteq Fragment
    BY <1>1, <1>5 DEF TypeOK
<1>11. Of(made.shown) \subseteq made.lines
    BY <1>5 DEF Of
<1>12. \A r \in made.used : r.private =>
            /\ made.m.hits[r] > 0
            /\ r.policy = "explicit_request_only" =>
                  made.key \in SensitiveKeys \/ r.from \in made.m.quotes
    BY <1>7
<1> HIDE DEF made
<1>13. ShownIsIndexed'
    BY <1>1, <1>11 DEF ShownIsIndexed, Of
<1>14. EachAdmitted'
    BY <1>1, <1>12 DEF EachAdmitted, SensitiveKeys
<1> QED BY <1>1, <1>9, <1>10, <1>13, <1>14

LEMMA Initially == Init => IInv
<1> SUFFICES ASSUME Init PROVE IInv
    OBVIOUS
<1>1. Start \in Nat /\ Stored0 \subseteq Fragment /\ CarryTurns \in Nat
    BY RecallAssumption
<1>2. Idle \in Turns
    BY DEF Idle, Turns, Keys
<1>3. TypeOK
    BY <1>1, <1>2 DEF Init, TypeOK
<1>4. ShownIsIndexed /\ EachAdmitted
    BY DEF Init, Idle, ShownIsIndexed, EachAdmitted, Of
<1>5. PictureSpent
    BY <1>1 DEF Init, PictureSpent
<1> QED BY <1>3, <1>4, <1>5 DEF IInv

(* A step that leaves the turn or ends it keeps what is said of it.        *)
LEMMA TurnKept ==
    ASSUME IInv, turn' = turn \/ turn' = Idle
    PROVE  turn' \in Turns /\ ShownIsIndexed' /\ EachAdmitted'
<1>1. CASE turn' = turn
    BY <1>1 DEF IInv, TypeOK, ShownIsIndexed, EachAdmitted, Of, SensitiveKeys
<1>2. CASE turn' = Idle
    <2>1. Idle \in Turns
        BY DEF Idle, Turns, Keys
    <2> QED BY <1>2, <2>1 DEF ShownIsIndexed, EachAdmitted, Of, Idle
<1> QED BY <1>1, <1>2

(* Hear, Open and Refuse are the actions that build a turn.                *)
LEMMA Builds ==
    ASSUME TypeOK, Next, turn' # turn, turn' # Idle
    PROVE  \E m \in Messages \cup {Silence}, source \in {"dialogue", "initiative"},
              skip \in BOOLEAN, phase \in {"asked", "rebuilt"} :
                 /\ Built(m, source, skip, phase)
                 /\ UNCHANGED <<now, stored, active, said, last, topic>>
<1>1. CASE \E m \in Messages : Hear(m)
    BY <1>1 DEF Hear
<1>2. CASE Open
    BY <1>2 DEF Open
<1>3. CASE Refuse
    <2>1. turn.m \in Messages \cup {Silence}
        BY DEF TypeOK, Turns
    <2> QED BY <1>3, <2>1 DEF Refuse
<1>4. ~(End \/ Pass \/ Restart)
    BY DEF End, Pass, Restart
<1>5. ~((\E f \in Fragment : Store(f)) \/ (\E r \in Record : Activate(r)))
    BY DEF Store, Activate
<1> QED BY <1>1, <1>2, <1>3, <1>4, <1>5 DEF Next

LEMMA Inductive == IInv /\ [Next]_vars => IInv'
<1> SUFFICES ASSUME IInv, [Next]_vars PROVE IInv'
    OBVIOUS
<1> USE DEF IInv
<1>1. ASSUME NEW m \in Messages \cup {Silence}, NEW source \in {"dialogue", "initiative"},
             NEW skip \in BOOLEAN, NEW phase \in {"asked", "rebuilt"},
             Built(m, source, skip, phase), UNCHANGED <<now, stored, active, said, last, topic>>
      PROVE  IInv'
    <2>1. turn' \in Turns /\ opened' \subseteq Fragment /\ ShownIsIndexed' /\ EachAdmitted'
        BY <1>1, BuiltStep
    <2>2. carry' \in Nat /\ attached' \in Nat /\ PictureSpent'
        BY <1>1, CarryStep DEF Built
    <2>3. TypeOK'
        BY <1>1, <2>1, <2>2 DEF TypeOK
    <2> QED BY <2>1, <2>2, <2>3
<1>2. CASE turn' # turn /\ turn' # Idle
    <2>1. Next
        BY <1>2 DEF vars
    <2> QED BY <1>1, <1>2, <2>1, Builds
<1>3. CASE ~(turn' # turn /\ turn' # Idle)
    <2>1. turn' \in Turns /\ ShownIsIndexed' /\ EachAdmitted'
        BY <1>3, TurnKept
    <2>2. CASE End
        <3>1. Mention(turn.m) \in Mentions
            <4>1. turn.m \in Message
                BY MessageTypes DEF TypeOK, Turns
            <4> QED BY <4>1 DEF Mention, Message, Mentions
        <3>2. Append(Heard("dialogue"), Mention(turn.m)) \in Seq(Mentions)
            BY <3>1, HeardFacts
        <3>3. Last(Append(Heard("dialogue"), Mention(turn.m)), Lookback) \in Seq(Mentions)
            BY <3>2, LastFacts, LimitTypes
        <3>4. said' \in Seq(Mentions) /\ last' \in Nat /\ topic' \in Nat
            BY <2>2, <3>3 DEF End, TypeOK
        <3>5. TypeOK' /\ PictureSpent'
            BY <2>1, <2>2, <3>4 DEF End, TypeOK, PictureSpent
        <3> QED BY <2>1, <3>5
    <2>3. CASE Pass
        BY <2>1, <2>3 DEF Pass, TypeOK, PictureSpent
    <2>4. CASE Restart
        BY <2>1, <2>4, LimitTypes DEF Restart, TypeOK, PictureSpent
    <2>5. CASE \E f \in Fragment : Store(f)
        BY <2>1, <2>5 DEF Store, TypeOK, PictureSpent
    <2>6. CASE \E r \in Record : Activate(r)
        BY <2>1, <2>6 DEF Activate, TypeOK, PictureSpent
    <2>7. CASE UNCHANGED vars
        BY <2>1, <2>7 DEF vars, TypeOK, PictureSpent
    <2>8. CASE \E m \in Messages : Hear(m)
        BY <1>1, <2>8 DEF Hear
    <2>9. CASE Open
        BY <1>1, <2>9 DEF Open
    <2>10. CASE Refuse
        <3>1. turn.m \in Messages \cup {Silence}
            BY DEF TypeOK, Turns
        <3> QED BY <1>1, <2>10, <3>1 DEF Refuse
    <2> QED BY <2>2, <2>3, <2>4, <2>5, <2>6, <2>7, <2>8, <2>9, <2>10 DEF Next
<1> QED BY <1>2, <1>3

LEMMA Invariance == Spec => []IInv
BY Initially, Inductive, PTL DEF Spec

-----------------------------------------------------------------------------
(* The theorems. *)

(* Every variable has its type.                                            *)
THEOREM TypeCorrect == Spec => []TypeOK
<1>1. IInv => TypeOK
    BY DEF IInv
<1> QED BY <1>1, Invariance, PTL

(* Whatever is unfolded has its line in the index, whatever the window and *)
(* the limits on lines (build_index_line_objects).                         *)
THEOREM Announced == Spec => []ShownIsIndexed
<1>1. IInv => ShownIsIndexed
    BY DEF IInv
<1> QED BY <1>1, Invariance, PTL

(* No private record is in the context because another one was admitted    *)
(* (_build_input).                                                         *)
THEOREM Separate == Spec => []EachAdmitted
<1>1. IInv => EachAdmitted
    BY DEF IInv
<1> QED BY <1>1, Invariance, PTL

(* A picture is attached in no more turns than its own and CarryTurns      *)
(* (_advance_image_carry).                                                 *)
THEOREM Fades == Spec => []PictureWindow
<1>1. IInv => PictureWindow
    <2> SUFFICES ASSUME IInv PROVE PictureWindow
        OBVIOUS
    <2>1. carry \in Nat /\ attached \in Nat /\ CarryTurns \in Nat
        BY LimitTypes DEF IInv, TypeOK
    <2> QED BY <2>1 DEF IInv, PictureSpent, PictureWindow
<1> QED BY <1>1, Invariance, PTL

(* A sealed detail is unfolded only when it was quoted, lies on a past day *)
(* that was named, or today has more fragments than the limit of the       *)
(* lookup (_episode_pointer, sensitive_detail_allowed).                    *)
SealedStep ==
    \A f \in Fragment :
        <<f, "explicit">> \in turn'.shown /\ turn' # turn =>
            \/ f \in turn'.m.quotes
            \/ /\ Day(f) < Day(now)
               /\ \/ Day(f) \in PastDays(turn'.m)
                  \/ \E i \in DOMAIN said : Day(f) \in Named(said[i])
            \/ Cardinality({g \in stored : Day(g) = Day(now)}) > DayLimit

LEMMA Sealing == IInv /\ [Next]_vars => [SealedStep]_vars
<1> SUFFICES ASSUME IInv, Next, NEW f \in Fragment,
                    <<f, "explicit">> \in turn'.shown, turn' # turn
             PROVE  \/ f \in turn'.m.quotes
                    \/ /\ Day(f) < Day(now)
                       /\ \/ Day(f) \in PastDays(turn'.m)
                          \/ \E i \in DOMAIN said : Day(f) \in Named(said[i])
                    \/ Cardinality({g \in stored : Day(g) = Day(now)}) > DayLimit
    BY DEF SealedStep
<1>0. TypeOK
    BY DEF IInv
<1>1. turn' # Idle
    BY DEF Idle
<1>2. PICK m \in Messages \cup {Silence}, source \in {"dialogue", "initiative"},
           skip \in BOOLEAN, phase \in {"asked", "rebuilt"} : Built(m, source, skip, phase)
    BY <1>0, <1>1, Builds
<1> DEFINE heard == Heard(source)
           p == Pointed(m, heard)
<1>3. turn'.m = m /\ (turn'.shown = Shown(m, p) \/ turn'.shown = {})
    BY <1>2 DEF Built
<1>4. m \in Message /\ heard \in Seq(Mentions)
    BY <1>0, MessageTypes, HeardFacts
<1>5. \A i \in DOMAIN heard : \E j \in DOMAIN said : heard[i] = said[j]
    BY <1>0, HeardFacts
<1> HIDE DEF heard
<1>6. p.fragments \in Seq(stored)
    BY <1>0, <1>4, PointedFacts
<1>7. <<f, "explicit">> \in Claimed(p)
    BY <1>3 DEF Shown
<1>8. f \in Elements(p.fragments) /\ Allowed(p, f, "explicit")
    BY <1>0, <1>6, <1>7, ClaimedFacts
<1>9. Sensitive(p) /\ f \notin p.ordinary
    BY <1>8 DEF Allowed
<1>10. \/ f \in m.quotes
       \/ /\ Day(f) < Day(now)
          /\ \/ Day(f) \in PastDays(m)
             \/ \E i \in DOMAIN heard : Day(f) \in Named(heard[i])
       \/ Cardinality({g \in stored : Day(g) = Day(now)}) > DayLimit
    BY <1>0, <1>4, <1>8, <1>9, SealedPointer
<1> QED BY <1>3, <1>5, <1>10

THEOREM Sealed == Spec => SealedNeedsThePast
<1>1. Spec => [][SealedStep]_vars
    BY Invariance, Sealing, PTL DEF Spec
<1> QED BY <1>1 DEF SealedNeedsThePast, SealedStep
=============================================================================

-------------------------- MODULE InitiativeProofs --------------------------
(***************************************************************************)
(* Theorems about Initiative, for any runtimes, openings, quiet hours,     *)
(* deferrals and bounds.                                                   *)
(***************************************************************************)
EXTENDS Initiative, FiniteSetTheorems, TLAPS

Places == {"idle", "claimed", "generating", "texting", "voicing", "speaking"}

(* A claim as tick makes it: of a conversation that has begun, on a slot of *)
(* its silence that is over, below the cap.                                 *)
Held(s) ==
    /\ s.status = "claimed"
    /\ s.version \in 1..version
    /\ s.activity <= s.slot /\ s.slot <= s.claimedAt /\ s.claimedAt <= clock
    /\ s.unanswered < Cap
    /\ s.nextDue = 0

(* The record and the claims of the runtimes. *)
Claims ==
    /\ state.status = "claimed" => Held(state)
    /\ \A r \in Runtime : pc[r] # "idle" => Held(claim[r])
    /\ \A x \in tails : version > 0

(* What follows the end of an attempt lies behind it. *)
Closed ==
    state.status \in Ended =>
        /\ state.activity <= state.slot /\ state.slot <= state.claimedAt
        /\ state.claimedAt <= state.completedAt
        /\ IF state.status = "unknown" THEN state.nextDue = 0
           ELSE state.nextDue > state.completedAt

IInv == TypeOK /\ Claims /\ Closed

-----------------------------------------------------------------------------
LEMMA Bounds ==
    /\ Interval \in Nat /\ Interval > 0 /\ Cap \in Nat /\ Cap > 0 /\ MaxParts \in Nat /\ MaxParts > 0
    /\ MaxClock \in Nat /\ MaxVersion \in Nat /\ MaxCrashes \in Nat
BY InitiativeAssumption

(* Whole intervals since a time: the slot is over, and the last one. *)
LEMMA Slots ==
    ASSUME NEW a \in Nat, NEW t \in Nat, a <= t
    PROVE  LET s == a + ((t - a) \div Interval) * Interval
           IN s \in Nat /\ a <= s /\ s <= t /\ t < s + Interval
<1> DEFINE x == t - a
           q == x \div Interval
<1>1. x \in Nat /\ Interval \in Nat /\ Interval > 0
    BY Bounds
<1> HIDE DEF x
<1>2. q \in Nat
    BY <1>1
<1>3. Interval * q <= x /\ x < Interval * q + Interval
    <2>1. Interval * q <= x
        BY <1>1
    <2>2. x < Interval * q + Interval
        BY <1>1
    <2> QED BY <2>1, <2>2
<1> HIDE DEF q
<1>4. q * Interval = Interval * q /\ q * Interval \in Nat
    BY <1>1, <1>2
<1> DEFINE p == q * Interval
<1>5. p \in Nat /\ p <= x /\ x < p + Interval
    BY <1>3, <1>4
<1>6. x + a = t /\ a \in Nat /\ t \in Nat
    BY DEF x
<1>7. a + p \in Nat /\ a <= a + p /\ a + p <= t /\ t < a + p + Interval
    <2> HIDE DEF p
    <2> QED BY <1>1, <1>5, <1>6
<1> QED BY <1>7 DEF p, q, x

LEMMA IdOfTyped ==
    ASSUME TypeOK, NEW s \in State, Held(s)
    PROVE  IdOf(s) \in Id /\ IdOf(s).version = s.version /\ IdOf(s).slot = s.slot
BY Bounds DEF TypeOK, Held, IdOf, Id, State

LEMMA DurableTyped ==
    ASSUME TypeOK, NEW i \in Id
    PROVE  Durable(i) \in Ended \cup {"none"}
BY DEF TypeOK, Durable, Ended

(* What a claim becomes when its attempt is over. *)
LEMMA TerminalIs ==
    ASSUME TypeOK, NEW c \in State, Held(c), NEW st \in Ended
    PROVE  LET d == Terminal(c, st) IN
           /\ d \in State
           /\ d.status = st /\ d.slot = c.slot /\ d.version = c.version
           /\ d.activity = c.activity /\ d.claimedAt = c.claimedAt /\ d.completedAt = clock
           /\ d.unanswered = IF st = "sent" THEN c.unanswered + 1 ELSE c.unanswered
           /\ d.nextDue = CASE st = "unknown" -> 0
                            [] st = "skipped" /\ c.slot + Interval > clock -> c.slot + Interval
                            [] OTHER -> clock + Interval
           /\ d.nextDue # 0 => d.nextDue > clock /\ d.nextDue >= c.slot + Interval
<1> DEFINE u == IF st = "sent" THEN c.unanswered + 1 ELSE c.unanswered
           n == CASE st = "unknown" -> 0
                  [] st = "skipped" /\ c.slot + Interval > clock -> c.slot + Interval
                  [] OTHER -> clock + Interval
<1>1. /\ clock \in Time /\ c.slot \in Time /\ c.unanswered \in Nat /\ c.unanswered < Cap
      /\ c.slot <= c.claimedAt /\ c.claimedAt <= clock /\ c.claimedAt \in Time
    BY Bounds DEF TypeOK, State, Held
<1>2. u \in 0..Cap
    BY <1>1, Bounds
<1>3. n \in 0..MaxClock + Interval /\ (n # 0 => n > clock /\ n >= c.slot + Interval)
    BY <1>1, Bounds DEF Time
<1>4. Terminal(c, st) = [c EXCEPT !.status = st, !.unanswered = u, !.completedAt = clock, !.nextDue = n]
    BY DEF Terminal
<1> HIDE DEF u, n
<1>5. Terminal(c, st) =
        [status |-> st, slot |-> c.slot, owner |-> c.owner, claimedAt |-> c.claimedAt,
         activity |-> c.activity, version |-> c.version, unanswered |-> u,
         completedAt |-> clock, nextDue |-> n]
    BY <1>4 DEF State
<1> QED BY <1>1, <1>2, <1>3, <1>5 DEF State, u, n

-----------------------------------------------------------------------------
(* The invariant, step by step. *)

WorldTyped ==
    /\ clock \in Time /\ version \in 0..MaxVersion /\ activity \in 0..clock
    /\ control \in [paused : BOOLEAN, deferred : Nat] /\ crashes \in 0..MaxCrashes
OpeningTyped ==
    /\ plan \in [Id -> Opening \cup {NoPlan}]
    /\ last \in [Id -> {"none", "waiting", "sent", "unknown", "failed"}]
    /\ heard \in [Id -> BOOLEAN]
    /\ said \subseteq Utterance
    /\ tails \subseteq Runtime \X Id
ClaimsTyped ==
    /\ state \in State /\ claim \in [Runtime -> State] /\ pc \in [Runtime -> Places]
    /\ trigger \in [Id -> {"absent", "received"} \cup Ended]

LEMMA TypesAre == TypeOK <=> WorldTyped /\ OpeningTyped /\ ClaimsTyped
BY DEF TypeOK, WorldTyped, OpeningTyped, ClaimsTyped, Places

LEMMA BusyTyped ==
    ASSUME IInv, NEW r \in Runtime, pc[r] # "idle"
    PROVE  /\ claim[r] \in State /\ Held(claim[r]) /\ Busy(r) \in Id
           /\ Busy(r).version = claim[r].version /\ Busy(r).slot = claim[r].slot
           /\ version \in 1..MaxVersion
<1>1. claim[r] \in State /\ Held(claim[r])
    BY DEF IInv, TypeOK, Claims
<1>2. version \in 0..MaxVersion
    BY DEF IInv, TypeOK
<1>3. version \in 1..MaxVersion
    BY <1>1, <1>2, Bounds DEF Held
<1> QED BY <1>1, <1>3, IdOfTyped DEF IInv, Busy

(* An attempt goes on. *)
LEMMA GoesOn ==
    ASSUME IInv, NEW r \in Runtime, pc[r] # "idle", NEW where \in Places,
           pc' = [pc EXCEPT ![r] = where], UNCHANGED <<world, control, crashes, state, claim>>,
           trigger' \in [Id -> {"absent", "received"} \cup Ended],
           OpeningTyped', tails' = tails
    PROVE  IInv'
<1>1. WorldTyped' /\ ClaimsTyped'
    BY TypesAre DEF IInv, WorldTyped, ClaimsTyped, world
<1>2. Claims'
    BY DEF IInv, TypeOK, Claims, Held, world
<1>3. Closed'
    BY DEF IInv, Closed
<1>4. TypeOK'
    BY <1>1 DEF TypeOK, WorldTyped, OpeningTyped, ClaimsTyped, Places
<1> QED BY <1>2, <1>3, <1>4 DEF IInv

LEMMA NoStateTyped ==
    NoState \in State /\ NoState.status = "none"
BY Bounds DEF NoState, State, Time

(* It ends. *)
LEMMA FinishKeeps ==
    ASSUME IInv, NEW r \in Runtime, pc[r] # "idle", NEW st \in Ended,
           NEW written \in {"absent", "received"} \cup Ended, Finish(r, st, written),
           UNCHANGED <<world, control, crashes>>, OpeningTyped',
           tails' \subseteq tails \cup {<<r, Busy(r)>>}
    PROVE  IInv'
<1>1. /\ claim[r] \in State /\ Held(claim[r]) /\ Busy(r) \in Id /\ version \in 1..MaxVersion
    BY BusyTyped
<1>2. WorldTyped'
    BY TypesAre DEF IInv, WorldTyped, world
<1>3. /\ pc' = [pc EXCEPT ![r] = "idle"] /\ claim' = [claim EXCEPT ![r] = NoState]
      /\ state' = IF Mine(r) THEN Terminal(state, st) ELSE state
      /\ trigger' = [trigger EXCEPT ![Busy(r)] =
                       IF @ = "absent" THEN @ ELSE IF Mine(r) THEN st ELSE written]
    BY DEF Finish
<1>4. trigger' \in [Id -> {"absent", "received"} \cup Ended]
    BY <1>1, <1>3 DEF IInv, TypeOK
<1>5. CASE Mine(r)
    <2>1. state = claim[r] /\ state' = Terminal(state, st) /\ TypeOK
        BY <1>3, <1>5 DEF Mine, IInv
    <2>2. /\ state' \in State /\ state'.status = st /\ state'.slot = state.slot
          /\ state'.activity = state.activity /\ state'.claimedAt = state.claimedAt
          /\ state'.completedAt = clock
          /\ state'.nextDue = CASE st = "unknown" -> 0
                            [] st = "skipped" /\ state.slot + Interval > clock -> state.slot + Interval
                            [] OTHER -> clock + Interval
          /\ state'.nextDue # 0 => state'.nextDue > clock
        BY <1>1, <2>1, TerminalIs
    <2>3. clock \in Nat
        BY <2>1, Bounds DEF TypeOK, Time
    <2>4. Closed'
        BY <1>1, <2>1, <2>2, <2>3, Bounds DEF Closed, Held, State, Time
    <2>5. Claims'
        BY <1>1, <1>3, <2>2 DEF IInv, TypeOK, Claims, Held, Ended, world
    <2>6. ClaimsTyped'
        BY <1>3, <1>4, <2>1, <2>2, NoStateTyped DEF TypeOK, ClaimsTyped, Places
    <2>7. TypeOK'
        BY <1>2, <2>6 DEF TypeOK, WorldTyped, OpeningTyped, ClaimsTyped, Places
    <2> QED BY <2>4, <2>5, <2>7 DEF IInv
<1>6. CASE ~Mine(r)
    <2>1. state' = state
        BY <1>3, <1>6
    <2>2. Closed'
        BY <2>1 DEF IInv, Closed
    <2>3. Claims'
        BY <1>1, <1>3, <2>1 DEF IInv, TypeOK, Claims, Held, world
    <2>4. ClaimsTyped'
        BY <1>3, <1>4, <2>1, NoStateTyped DEF IInv, TypeOK, ClaimsTyped, Places
    <2>5. TypeOK'
        BY <1>2, <2>4 DEF TypeOK, WorldTyped, OpeningTyped, ClaimsTyped, Places
    <2> QED BY <2>2, <2>3, <2>5 DEF IInv
<1> QED BY <1>5, <1>6

(* The world moves. *)
LEMMA WorldKeeps ==
    ASSUME IInv, UNCHANGED <<state, trigger, opening, pc, claim, tails, crashes>>,
           WorldTyped', clock' >= clock, version' >= version
    PROVE  IInv'
<1>1. OpeningTyped' /\ ClaimsTyped'
    BY TypesAre DEF IInv, OpeningTyped, ClaimsTyped, opening
<1>2. clock \in Nat /\ version \in Nat /\ clock' \in Nat /\ version' \in Nat
    BY Bounds DEF IInv, TypeOK, WorldTyped, Time
<1>3. \A s \in State : Held(s) => Held(s)'
    BY <1>2 DEF Held, State, Time
<1>4. Claims'
    BY <1>2, <1>3 DEF IInv, TypeOK, Claims, Held
<1>5. Closed'
    BY DEF IInv, Closed
<1>6. TypeOK'
    BY <1>1 DEF TypeOK, WorldTyped, OpeningTyped, ClaimsTyped, Places
<1> QED BY <1>4, <1>5, <1>6 DEF IInv

LEMMA MovesKeep ==
    ASSUME IInv, Pass \/ Inbound \/ Pause \/ Resume \/ (\E t \in Deferrals : DeferOnce(t))
    PROVE  IInv'
<1>0. /\ clock \in Time /\ version \in 0..MaxVersion /\ activity \in 0..clock
      /\ control \in [paused : BOOLEAN, deferred : Nat] /\ crashes \in 0..MaxCrashes
    BY DEF IInv, TypeOK
<1>1. CASE Pass
    BY <1>0, <1>1, WorldKeeps, Bounds DEF Pass, WorldTyped, Time
<1>2. CASE Inbound
    BY <1>0, <1>2, WorldKeeps, Bounds DEF Inbound, WorldTyped, Time
<1>3. CASE Pause \/ Resume \/ (\E t \in Deferrals : DeferOnce(t))
    <2>0. control \in [paused : BOOLEAN, deferred : Nat]
        BY <1>0
    <2>1. PICK c : SetControl(c) /\ c \in [paused : BOOLEAN, deferred : Nat]
        <3>1. CASE Pause
            <4>1. [control EXCEPT !.paused = TRUE] \in [paused : BOOLEAN, deferred : Nat]
                BY <2>0
            <4> QED BY <3>1, <4>1 DEF Pause
        <3>2. CASE Resume
            <4>1. [control EXCEPT !.paused = FALSE] \in [paused : BOOLEAN, deferred : Nat]
                BY <2>0
            <4> QED BY <3>2, <4>1 DEF Resume
        <3>3. CASE \E t \in Deferrals : DeferOnce(t)
            <4>1. PICK t \in Deferrals : DeferOnce(t)
                BY <3>3
            <4>2. t \in Nat
                BY InitiativeAssumption
            <4>3. [control EXCEPT !.deferred = t] \in [paused : BOOLEAN, deferred : Nat]
                BY <2>0, <4>2
            <4> QED BY <4>1, <4>3 DEF DeferOnce
        <3> QED BY <1>3, <3>1, <3>2, <3>3
    <2> QED BY <1>0, <2>1, WorldKeeps, Bounds DEF SetControl, WorldTyped, world, Time
<1> QED BY <1>1, <1>2, <1>3

-----------------------------------------------------------------------------
(* The tick. *)

LEMMA ForgetTyped ==
    ASSUME IInv, ForgetDeferral
    PROVE  control' \in [paused : BOOLEAN, deferred : Nat]
<1>1. control \in [paused : BOOLEAN, deferred : Nat]
    BY DEF IInv, TypeOK
<1>2. [control EXCEPT !.deferred = 0] \in [paused : BOOLEAN, deferred : Nat]
    BY <1>1
<1> QED BY <1>2 DEF ForgetDeferral

(* The slot a claim takes. *)
LEMMA SlotIs ==
    ASSUME IInv, version > 0, DueSlot
    PROVE  /\ Slot \in Time /\ activity <= Slot /\ Slot <= clock /\ clock < Slot + Interval
           /\ ~IsQuiet(Slot)
<1>1. activity \in Nat /\ clock \in Nat /\ activity <= clock /\ clock <= MaxClock
    BY Bounds DEF IInv, TypeOK, Time
<1>2. LET s == activity + ((clock - activity) \div Interval) * Interval
      IN s \in Nat /\ activity <= s /\ s <= clock /\ clock < s + Interval
    BY <1>1, Slots
<1> HIDE DEF Slot
<1>3. Slot \in Nat /\ activity <= Slot /\ Slot <= clock /\ clock < Slot + Interval
    BY <1>2 DEF Slot
<1>4. Slot \in Time
    BY <1>1, <1>3, Bounds DEF Time
<1> QED BY <1>3, <1>4 DEF DueSlot

LEMMA ClaimIs ==
    ASSUME IInv, NEW r \in Runtime, Claim(r)
    PROVE  /\ pc[r] = "idle" /\ pc' = [pc EXCEPT ![r] = "claimed"]
           /\ state' \in State /\ claim' = [claim EXCEPT ![r] = state']
           /\ state'.status = "claimed" /\ state'.version = version /\ state'.activity = activity
           /\ state'.slot = Slot /\ state'.claimedAt = clock /\ state'.nextDue = 0
           /\ state'.unanswered \in 0..Cap /\ state'.unanswered < Cap
           /\ state'.unanswered = IF SameAnchor THEN state.unanswered ELSE 0
           /\ version \in 1..MaxVersion
           /\ UNCHANGED <<world, trigger, opening, tails, crashes>>
           /\ ForgetDeferral /\ DueSlot /\ Free /\ ~IsQuiet(clock)
<1> DEFINE n == IF SameAnchor THEN state.unanswered ELSE 0
<1>1. /\ pc[r] = "idle" /\ version > 0 /\ DueSlot /\ Free /\ ForgetDeferral /\ ~IsQuiet(clock)
      /\ pc' = [pc EXCEPT ![r] = "claimed"] /\ claim' = [claim EXCEPT ![r] = state']
      /\ UNCHANGED <<world, trigger, opening, tails, crashes>>
      /\ state' = [status |-> "claimed", slot |-> Slot, owner |-> r, claimedAt |-> clock,
                   activity |-> activity, version |-> version, unanswered |-> n,
                   completedAt |-> 0, nextDue |-> 0]
    BY DEF Claim, Ticking
<1>2. Slot \in Time /\ clock \in Time /\ activity \in Time /\ version \in 1..MaxVersion
    BY <1>1, SlotIs, Bounds DEF IInv, TypeOK, Time
<1>3. n \in 0..Cap /\ n < Cap
    <2>1. state.unanswered \in 0..Cap
        BY DEF IInv, TypeOK, State
    <2>2. SameAnchor => state.unanswered < Cap
        BY <1>1 DEF Free
    <2> QED BY <2>1, <2>2, Bounds
<1>4. n = IF SameAnchor THEN state.unanswered ELSE 0
    OBVIOUS
<1> HIDE DEF n
<1>5. state' \in State
    BY <1>1, <1>2, <1>3, Bounds DEF State, Time
<1> QED BY <1>1, <1>2, <1>3, <1>4, <1>5

LEMMA ClaimKeeps ==
    ASSUME IInv, NEW r \in Runtime, Claim(r)
    PROVE  IInv'
<1>1. /\ pc' = [pc EXCEPT ![r] = "claimed"] /\ claim' = [claim EXCEPT ![r] = state']
      /\ state' \in State /\ UNCHANGED <<world, trigger, opening, tails, crashes>>
      /\ control' \in [paused : BOOLEAN, deferred : Nat]
    BY ClaimIs, ForgetTyped
<1>2. PICK s \in State : s = state'
    BY <1>1
<1>3. /\ s.status = "claimed" /\ s.version = version /\ s.activity = activity /\ s.slot = Slot
      /\ s.claimedAt = clock /\ s.nextDue = 0 /\ s.unanswered < Cap /\ version \in 1..MaxVersion
      /\ activity <= Slot /\ Slot <= clock /\ clock \in Nat
    BY <1>2, ClaimIs, SlotIs, Bounds DEF IInv, TypeOK, Time
<1>4. Held(s)'
    BY <1>1, <1>3 DEF Held, world
<1>5. TypeOK'
    BY <1>1 DEF IInv, TypeOK, world, opening
<1>6. Claims'
    <2>1. Held(state)'
        BY <1>2, <1>4 DEF Held
    <2>2. ASSUME NEW q \in Runtime, pc'[q] # "idle" PROVE Held(claim[q])'
        <3>1. CASE q = r
            <4>1. claim'[q] = s
                BY <1>1, <1>2, <3>1 DEF IInv, TypeOK
            <4> QED BY <1>4, <4>1 DEF Held
        <3>2. CASE q # r
            <4>1. claim'[q] = claim[q] /\ pc'[q] = pc[q]
                BY <1>1, <3>2 DEF IInv, TypeOK
            <4> QED BY <1>1, <2>2, <4>1 DEF IInv, Claims, Held, world
        <3> QED BY <3>1, <3>2
    <2>3. \A x \in tails' : version' > 0
        BY <1>1 DEF IInv, Claims, world
    <2> QED BY <2>1, <2>2, <2>3 DEF Claims
<1>7. Closed'
    BY <1>2, <1>3 DEF Closed, Ended
<1> QED BY <1>5, <1>6, <1>7 DEF IInv

LEMMA ConvergeKeeps ==
    ASSUME IInv, NEW r \in Runtime, Converge(r)
    PROVE  IInv'
<1>1. /\ Held(state) /\ state \in State /\ IdOf(state) \in Id /\ TypeOK
      /\ state' = Terminal(state, Durable(IdOf(state)))
      /\ trigger' = [trigger EXCEPT ![IdOf(state)] =
                       IF @ = "absent" THEN @ ELSE Durable(IdOf(state))]
      /\ UNCHANGED <<world, opening, pc, claim, tails, crashes>>
    <2>1. state.status = "claimed" /\ TypeOK /\ state \in State
        BY DEF Converge, Settled, Expired, IInv, TypeOK
    <2>2. Held(state)
        BY <2>1 DEF IInv, Claims
    <2> QED BY <2>1, <2>2, IdOfTyped DEF Converge
<1>2. Durable(IdOf(state)) \in Ended
    BY <1>1, DurableTyped DEF Converge, Settled
<1>3. PICK st \in Ended : st = Durable(IdOf(state))
    BY <1>2
<1>4. /\ state' \in State /\ state'.status = st /\ state'.slot = state.slot
      /\ state'.activity = state.activity /\ state'.claimedAt = state.claimedAt
      /\ state'.completedAt = clock
      /\ state'.nextDue = CASE st = "unknown" -> 0
                        [] st = "skipped" /\ state.slot + Interval > clock -> state.slot + Interval
                        [] OTHER -> clock + Interval
      /\ state'.nextDue # 0 => state'.nextDue > clock
    <2>1. state' = Terminal(state, st)
        BY <1>1, <1>3
    <2> QED BY <1>1, <2>1, TerminalIs
<1>5. trigger' \in [Id -> {"absent", "received"} \cup Ended]
    <2>1. trigger \in [Id -> {"absent", "received"} \cup Ended]
        BY <1>1 DEF TypeOK
    <2> QED BY <1>1, <1>2, <2>1
<1>6. control' \in [paused : BOOLEAN, deferred : Nat]
    BY ForgetTyped DEF Converge
<1>7. TypeOK'
    BY <1>1, <1>4, <1>5, <1>6 DEF TypeOK, world, opening
<1>8. Claims'
    BY <1>1, <1>4 DEF IInv, Claims, Held, Ended, world
<1>9. Closed'
    <2>1. clock \in Nat
        BY <1>1, Bounds DEF TypeOK, Time
    <2> QED BY <1>1, <1>4, <2>1, Bounds DEF Closed, Held, State, Time
<1> QED BY <1>7, <1>8, <1>9 DEF IInv

LEMMA NothingToDoKeeps ==
    ASSUME IInv, NEW r \in Runtime, NothingToDo(r)
    PROVE  IInv'
<1>1. UNCHANGED <<world, state, trigger, opening, pc, claim, tails, crashes>>
      /\ control' \in [paused : BOOLEAN, deferred : Nat]
    BY ForgetTyped DEF NothingToDo
<1>2. TypeOK'
    BY <1>1 DEF IInv, TypeOK, world, opening
<1> QED BY <1>1, <1>2 DEF IInv, Claims, Held, Closed, world

-----------------------------------------------------------------------------
(* The attempt. *)

LEMMA PartsAre ==
    ASSUME IInv, NEW i \in Id
    PROVE  Parts(i) \subseteq 1..MaxParts /\ IsFiniteSet(Parts(i)) /\ Cardinality(Parts(i)) \in Nat
<1>1. Parts(i) \subseteq 1..MaxParts
    BY DEF Parts, IInv, TypeOK, Utterance
<1>2. IsFiniteSet(1..MaxParts)
    BY FS_Interval, Bounds
<1> QED BY <1>1, <1>2, FS_Subset, FS_CardinalityType

LEMMA UtteredTyped ==
    ASSUME IInv, NEW i \in Id, NEW what \in {"text", "voice"}, NEW part \in 1..MaxParts, version > 0
    PROVE  Uttered(i, what, part) \subseteq Utterance
BY Bounds DEF Uttered, Utterance, IInv, TypeOK

LEMMA SendPartKeeps ==
    ASSUME IInv, NEW r \in Runtime, pc[r] # "idle", NEW part \in 1..MaxParts, SendPart(r, part),
           UNCHANGED <<world, control, crashes, tails>>,
           plan' \in [Id -> Opening \cup {NoPlan}], heard' \in [Id -> BOOLEAN]
    PROVE  IInv'
<1>1. Busy(r) \in Id /\ version > 0
    BY BusyTyped, Bounds
<1>2. said' \subseteq Utterance
    BY <1>1, UtteredTyped DEF SendPart, IInv, TypeOK
<1>3. last' \in [Id -> {"none", "waiting", "sent", "unknown", "failed"}]
    BY <1>1 DEF SendPart, IInv, TypeOK
<1>4. OpeningTyped'
    BY <1>2, <1>3 DEF OpeningTyped, IInv, TypeOK
<1> QED BY <1>4, GoesOn DEF SendPart, Working, Places, IInv, TypeOK

LEMMA QuitKeeps ==
    ASSUME IInv, NEW r \in Runtime, pc[r] # "idle", Quit(r), UNCHANGED <<world, control, crashes>>,
           OpeningTyped', tails' = tails
    PROVE  IInv'
BY FinishKeeps DEF Quit, Ended

LEMMA AttemptKeeps ==
    ASSUME IInv, NEW r \in Runtime, Attempt(r)
    PROVE  IInv'
<1>0. /\ OpeningTyped /\ trigger \in [Id -> {"absent", "received"} \cup Ended]
      /\ NoPlan \in {NoPlan}
    BY DEF IInv, TypeOK, OpeningTyped
<1>1. ASSUME NEW readable \in BOOLEAN, Begin(r, readable) PROVE IInv'
    <2>1. pc[r] = "claimed" /\ UNCHANGED <<world, control, opening, tails, crashes>>
        BY <1>1 DEF Begin
    <2>2. OpeningTyped'
        BY <1>0, <2>1 DEF OpeningTyped, opening
    <2>3. CASE Quit(r)
        BY <2>1, <2>2, <2>3, QuitKeeps
    <2>4. CASE /\ trigger' = [trigger EXCEPT ![Busy(r)] = "received"]
               /\ pc' = [pc EXCEPT ![r] = "generating"] /\ UNCHANGED <<state, claim>>
        <3>1. trigger' \in [Id -> {"absent", "received"} \cup Ended]
            BY <1>0, <2>1, <2>4, BusyTyped
        <3> QED BY <2>1, <2>2, <2>4, <3>1, GoesOn DEF Places
    <2> QED BY <1>1, <2>3, <2>4 DEF Begin
<1>2. CASE Raise(r)
    <2>1. /\ pc[r] \in {"generating", "texting"}
          /\ last' = IF pc[r] = "texting" THEN [last EXCEPT ![Busy(r)] = "unknown"] ELSE last
          /\ UNCHANGED <<world, control, plan, heard, said, tails, crashes>>
        BY <1>2 DEF Raise
    <2>2. OpeningTyped'
        BY <1>0, <2>1, BusyTyped DEF OpeningTyped
    <2>3. \E st \in Ended : Finish(r, st, trigger[Busy(r)])
        <3>1. "unknown" \in Ended /\ "failed" \in Ended
            BY DEF Ended
        <3>2. Durable(Busy(r)) \in Ended \cup {"none"}
            BY <2>1, BusyTyped, DurableTyped DEF IInv
        <3> QED BY <1>2, <3>1, <3>2 DEF Raise
    <2>4. trigger[Busy(r)] \in {"absent", "received"} \cup Ended
        BY <1>0, <2>1, BusyTyped
    <2> QED BY <2>1, <2>2, <2>3, <2>4, FinishKeeps
<1>3. CASE Skip(r)
    <2>1. pc[r] = "generating" /\ UNCHANGED <<world, control, opening, tails, crashes>>
        BY <1>3 DEF Skip
    <2>2. OpeningTyped'
        BY <1>0, <2>1 DEF OpeningTyped, opening
    <2>3. Finish(r, "skipped", "skipped") \/ Quit(r)
        BY <1>3 DEF Skip
    <2> QED BY <2>1, <2>2, <2>3, FinishKeeps, QuitKeeps DEF Ended
<1>4. ASSUME NEW p \in Opening, Reply(r, p) PROVE IInv'
    <2>1. pc[r] = "generating" /\ UNCHANGED <<world, control, heard, tails, crashes>>
        BY <1>4 DEF Reply
    <2>2. CASE Quit(r) /\ UNCHANGED <<plan, last, said>>
        <3>1. OpeningTyped'
            BY <1>0, <2>1, <2>2 DEF OpeningTyped
        <3> QED BY <2>1, <2>2, <3>1, QuitKeeps
    <2>3. CASE /\ plan' = [plan EXCEPT ![Busy(r)] = p]
               /\ SendPart(r, 1) \/ (Working(r, "voicing") /\ UNCHANGED <<last, said>>)
        <3>1. plan' \in [Id -> Opening \cup {NoPlan}]
            BY <1>0, <2>1, <2>3, BusyTyped DEF OpeningTyped
        <3>2. CASE SendPart(r, 1)
            BY <1>0, <2>1, <3>1, <3>2, SendPartKeeps, Bounds DEF OpeningTyped
        <3>3. CASE Working(r, "voicing") /\ UNCHANGED <<last, said>>
            <4>1. OpeningTyped'
                BY <1>0, <2>1, <3>1, <3>3 DEF OpeningTyped
            <4> QED BY <1>0, <2>1, <3>3, <4>1, GoesOn DEF Working, Places
        <3> QED BY <2>3, <3>2, <3>3
    <2> QED BY <1>4, <2>2, <2>3 DEF Reply
<1>5. CASE PartSent(r)
    <2>1. /\ pc[r] = "texting" /\ UNCHANGED <<world, control, plan, tails, crashes>>
          /\ Cardinality(Parts(Busy(r))) < plan[Busy(r)].parts
          /\ heard' = [heard EXCEPT ![Busy(r)] = TRUE]
        BY <1>5 DEF PartSent
    <2>2. heard' \in [Id -> BOOLEAN] /\ plan' \in [Id -> Opening \cup {NoPlan}]
        BY <1>0, <2>1 DEF OpeningTyped
    <2>3. Cardinality(Parts(Busy(r))) + 1 \in 1..MaxParts
        <3>1. plan[Busy(r)] \in Opening \cup {NoPlan}
            BY <1>0, <2>1, BusyTyped DEF OpeningTyped
        <3>2. plan[Busy(r)].parts \in 0..MaxParts
            BY <3>1, InitiativeAssumption DEF NoPlan
        <3> QED BY <2>1, <3>2, BusyTyped, PartsAre, Bounds
    <2>4. CASE SendPart(r, Cardinality(Parts(Busy(r))) + 1)
        BY <2>1, <2>2, <2>3, <2>4, SendPartKeeps
    <2>5. CASE Quit(r) /\ last' = [last EXCEPT ![Busy(r)] = "sent"] /\ UNCHANGED said
        <3>1. OpeningTyped'
            BY <1>0, <2>1, <2>2, <2>5, BusyTyped DEF OpeningTyped
        <3> QED BY <2>1, <2>5, <3>1, QuitKeeps
    <2> QED BY <1>5, <2>4, <2>5 DEF PartSent
<1>6. ASSUME NEW st \in {"sent", "unknown", "failed"}, TextsOver(r, st) PROVE IInv'
    <2>1. /\ pc[r] = "texting" /\ UNCHANGED <<world, control, plan, said, crashes>>
          /\ last' = [last EXCEPT ![Busy(r)] = st]
          /\ heard' = [heard EXCEPT ![Busy(r)] = @ \/ st = "sent"]
          /\ tails' = IF plan[Busy(r)].voice = "tail" THEN tails \cup {<<r, Busy(r)>>} ELSE tails
          /\ Finish(r, st, st)
        BY <1>6 DEF TextsOver
    <2>2. heard' \in [Id -> BOOLEAN]
        BY <1>0, <2>1 DEF OpeningTyped
    <2>3. OpeningTyped'
        BY <1>0, <2>1, <2>2, BusyTyped DEF OpeningTyped
    <2> QED BY <2>1, <2>3, FinishKeeps DEF Ended
<1>7. ASSUME NEW st \in {"sent", "unknown", "failed"}, VoiceOver(r, st) PROVE IInv'
    <2>1. /\ pc[r] = "speaking" /\ UNCHANGED <<world, control, plan, last, said, tails, crashes>>
          /\ heard' = [heard EXCEPT ![Busy(r)] = st = "sent"] /\ Finish(r, st, st)
        BY <1>7 DEF VoiceOver
    <2>2. OpeningTyped'
        BY <1>0, <2>1 DEF OpeningTyped
    <2> QED BY <2>1, <2>2, FinishKeeps DEF Ended
<1>8. CASE Voice(r)
    <2>1. /\ pc[r] = "voicing" /\ said' = said \cup Uttered(Busy(r), "voice", 1)
          /\ Working(r, "speaking") /\ UNCHANGED <<world, control, plan, last, heard, tails, crashes>>
        BY <1>8 DEF Voice
    <2>2. said' \subseteq Utterance
        BY <1>0, <2>1, BusyTyped, UtteredTyped, Bounds DEF OpeningTyped
    <2>3. OpeningTyped'
        BY <1>0, <2>1, <2>2 DEF OpeningTyped
    <2> QED BY <1>0, <2>1, <2>3, GoesOn DEF Working, Places
<1>9. CASE VoiceFallsBack(r)
    <2>1. pc[r] = "speaking" /\ UNCHANGED <<world, control, plan, heard, tails, crashes>>
        BY <1>9 DEF VoiceFallsBack
    <2>2. CASE SendPart(r, 1)
        BY <1>0, <2>1, <2>2, SendPartKeeps, Bounds DEF OpeningTyped
    <2>3. CASE Quit(r) /\ UNCHANGED <<last, said>>
        <3>1. OpeningTyped'
            BY <1>0, <2>1, <2>3 DEF OpeningTyped
        <3> QED BY <2>1, <2>3, <3>1, QuitKeeps
    <2> QED BY <1>9, <2>2, <2>3 DEF VoiceFallsBack
<1> QED BY <1>1, <1>2, <1>3, <1>4, <1>5, <1>6, <1>7, <1>8, <1>9 DEF Attempt

LEMMA TailKeeps ==
    ASSUME IInv, NEW r \in Runtime, NEW i \in Id, VoiceTail(r, i)
    PROVE  IInv'
<1>1. /\ <<r, i>> \in tails /\ tails' = tails \ {<<r, i>>} /\ version > 0
      /\ said' = said \cup Uttered(i, "voice", 1)
      /\ UNCHANGED <<world, control, state, trigger, plan, last, heard, pc, claim, crashes>>
    BY DEF VoiceTail, IInv, Claims
<1>2. said' \subseteq Utterance
    BY <1>1, UtteredTyped, Bounds DEF IInv, TypeOK
<1>3. TypeOK'
    BY <1>1, <1>2 DEF IInv, TypeOK, world
<1> QED BY <1>1, <1>3 DEF IInv, Claims, Held, Closed, world

LEMMA CrashKeeps ==
    ASSUME IInv, NEW r \in Runtime, Crash(r)
    PROVE  IInv'
<1>1. /\ pc' = [pc EXCEPT ![r] = "idle"] /\ claim' = [claim EXCEPT ![r] = NoState]
      /\ crashes' \in 0..MaxCrashes /\ tails' \subseteq tails
      /\ UNCHANGED <<world, control, state, trigger, opening>>
    BY Bounds DEF Crash, IInv, TypeOK
<1>2. TypeOK'
    BY <1>1, NoStateTyped DEF IInv, TypeOK, world, opening
<1>3. Claims'
    BY <1>1 DEF IInv, TypeOK, Claims, Held, world
<1> QED BY <1>1, <1>2, <1>3 DEF IInv, Closed

LEMMA InitIInv == Init => IInv
<1> SUFFICES ASSUME Init PROVE IInv
    OBVIOUS
<1>1. TypeOK
    BY NoStateTyped, Bounds DEF Init, TypeOK, Time
<1>2. Claims /\ Closed
    BY NoStateTyped DEF Init, Claims, Closed, Ended
<1> QED BY <1>1, <1>2 DEF IInv

LEMMA StepIInv == IInv /\ [Next]_vars => IInv'
<1> SUFFICES ASSUME IInv, [Next]_vars PROVE IInv'
    OBVIOUS
<1>1. CASE UNCHANGED vars
    BY <1>1 DEF vars, world, opening, IInv, TypeOK, Claims, Held, Closed
<1>2. CASE Pass \/ Inbound \/ Pause \/ Resume \/ \E t \in Deferrals : DeferOnce(t)
    BY <1>2, MovesKeep
<1>3. CASE \E r \in Runtime : Tick(r)
    BY <1>3, ClaimKeeps, ConvergeKeeps, NothingToDoKeeps DEF Tick
<1>4. CASE \E r \in Runtime : Attempt(r)
    BY <1>4, AttemptKeeps
<1>5. CASE \E r \in Runtime : Crash(r)
    BY <1>5, CrashKeeps
<1>6. CASE \E r \in Runtime, i \in Id : VoiceTail(r, i)
    BY <1>6, TailKeeps
<1> QED BY <1>1, <1>2, <1>3, <1>4, <1>5, <1>6 DEF Next

LEMMA IInvHolds == Spec => []IInv
BY InitIInv, StepIInv, PTL DEF Spec

(* Every variable keeps its type: no clock, count or due time leaves the    *)
(* range the record may hold.                                               *)
THEOREM TypeCorrect == Spec => []TypeOK
BY IInvHolds, PTL DEF IInv

(* No path of the scheduler writes a record the next read would refuse.     *)
THEOREM Decodes == Spec => []StateDecodes
<1>1. IInv => StateDecodes
    BY Bounds DEF IInv, TypeOK, State, Claims, Held, Closed, StateDecodes, Ended, Time
<1> QED BY <1>1, IInvHolds, PTL

-----------------------------------------------------------------------------
(* What a claim has left behind, and where its runtime stands.              *)

Spoke(i) == \E u \in said : u.what = "text" /\ u.id = i
Used(i) == trigger[i] # "absent" \/ \E q \in Runtime : pc[q] # "idle" /\ Busy(q) = i

(* Every claim acted on lies at or before the one on record, and a new one  *)
(* may only be made an interval after it.                                   *)
Order ==
    /\ state.version <= version
    /\ state.version = version => state.activity = activity
    /\ state.status = "none" => state.version = 0
    /\ state.status \in Ended \ {"unknown"} => state.nextDue >= state.slot + Interval
    /\ \A i \in Id : Used(i) =>
          i.version <= state.version /\ (i.version = state.version => i.slot <= state.slot)
    /\ \A q, r \in Runtime : pc[q] # "idle" /\ pc[r] # "idle" /\ q # r => Busy(q) # Busy(r)

(* Nothing is said for a claim without its trigger, nor for a skipped one;  *)
(* its first part is said first.                                            *)
TraceOf(i) ==
    /\ trigger[i] = "absent" => last[i] = "none" /\ ~heard[i]
    /\ last[i] # "none" <=> Spoke(i)
    /\ Spoke(i) => 1 \in Parts(i) /\ trigger[i] # "skipped"
    /\ heard[i] /\ plan[i].parts = 1 /\ plan[i].voice # "only" => last[i] = "sent"
Traces ==
    /\ \A i \in Id : TraceOf(i)
    /\ \A u \in said : trigger[u.id] # "absent"
    /\ \A x \in tails : trigger[x[2]] # "absent"

StageOf(r) ==
    /\ pc[r] = "claimed" => trigger[Busy(r)] = "absent"
    /\ pc[r] \in Places \ {"idle", "claimed"} => trigger[Busy(r)] \notin {"absent", "skipped"}
    /\ pc[r] \in {"claimed", "generating", "voicing", "speaking"} => last[Busy(r)] = "none"
    /\ pc[r] \in {"voicing", "speaking"} => plan[Busy(r)].voice = "only"
    /\ pc[r] = "texting" => last[Busy(r)] = "waiting"
    /\ pc[r] = "generating" => ~heard[Busy(r)]
Stages == \A r \in Runtime : StageOf(r)

History == Order /\ Traces /\ Stages

-----------------------------------------------------------------------------
(* What an attempt may do in a step. *)

Begins(r) ==
    /\ pc[r] = "claimed" /\ trigger[Busy(r)] = "absent"
    /\ trigger' = [trigger EXCEPT ![Busy(r)] = "received"]
    /\ pc' = [pc EXCEPT ![r] = "generating"]
    /\ UNCHANGED <<state, claim, plan, last, heard, said, tails>>

Says(r) ==
    /\ pc[r] \in {"generating", "texting", "speaking"} /\ MayOpen(r)
    /\ \E part \in 1..MaxParts :
          /\ part = 1 \/ pc[r] = "texting"
          /\ said' = said \cup Uttered(Busy(r), "text", part)
    /\ last' = [last EXCEPT ![Busy(r)] = "waiting"]
    /\ pc' = [pc EXCEPT ![r] = "texting"]
    /\ \/ plan' = plan
       \/ pc[r] = "generating" /\ \E p \in Opening : plan' = [plan EXCEPT ![Busy(r)] = p]
    /\ \/ heard' = heard
       \/ /\ pc[r] = "texting" /\ plan[Busy(r)].parts # 1
          /\ heard' = [heard EXCEPT ![Busy(r)] = TRUE]
    /\ UNCHANGED <<state, trigger, claim, tails>>

Voices(r) ==
    /\ \/ /\ pc[r] = "generating" /\ MayOpen(r) /\ pc' = [pc EXCEPT ![r] = "voicing"]
          /\ \E p \in Opening : p.voice = "only" /\ plan' = [plan EXCEPT ![Busy(r)] = p]
          /\ said' = said
       \/ /\ pc[r] = "voicing" /\ pc' = [pc EXCEPT ![r] = "speaking"]
          /\ plan' = plan
          /\ said' = said \cup Uttered(Busy(r), "voice", 1)
    /\ UNCHANGED <<state, trigger, claim, last, heard, tails>>

EndsUnsaid(r) ==
    /\ pc[r] \in {"claimed", "generating", "speaking"}
    /\ \E st \in Ended, written \in {"received"} \cup Ended :
          /\ Finish(r, st, written)
          /\ pc[r] # "generating" => st # "skipped" /\ written # "skipped"
    /\ \/ heard' = heard
       \/ pc[r] = "speaking" /\ \E b \in BOOLEAN : heard' = [heard EXCEPT ![Busy(r)] = b]
    /\ UNCHANGED <<plan, said, last, tails>>

EndsSaid(r) ==
    /\ pc[r] = "texting"
    /\ \E st, written \in Ended \cup {"received"}, t \in {"sent", "unknown", "failed"}, b \in BOOLEAN :
          /\ Finish(r, st, written)
          /\ st # "received" /\ st # "skipped" /\ written # "skipped"
          /\ last' = [last EXCEPT ![Busy(r)] = t]
          /\ heard' = [heard EXCEPT ![Busy(r)] = b]
          /\ plan[Busy(r)].parts = 1 => st = t /\ (b => heard[Busy(r)] \/ t = "sent")
    /\ tails' \subseteq tails \cup {<<r, Busy(r)>>}
    /\ UNCHANGED <<plan, said>>

LEMMA AttemptIs ==
    ASSUME IInv, Traces, Stages, NEW r \in Runtime, Attempt(r)
    PROVE  /\ pc[r] # "idle" /\ UNCHANGED <<world, control, crashes>>
           /\ Begins(r) \/ Says(r) \/ Voices(r) \/ EndsUnsaid(r) \/ EndsSaid(r)
<1> DEFINE i == Busy(r)
<1>1. ASSUME NEW readable \in BOOLEAN, Begin(r, readable)
      PROVE  /\ pc[r] # "idle" /\ UNCHANGED <<world, control, crashes>>
             /\ Begins(r) \/ EndsUnsaid(r)
    <2>1. pc[r] = "claimed" /\ UNCHANGED <<world, control, opening, tails, crashes>>
        BY <1>1 DEF Begin
    <2>2. CASE Quit(r)
        BY <2>1, <2>2 DEF Quit, EndsUnsaid, Ended, opening
    <2>3. CASE ~Quit(r)
        BY <1>1, <2>1, <2>3 DEF Begin, Begins, opening
    <2> QED BY <2>1, <2>2, <2>3
<1>2. ASSUME Raise(r)
      PROVE  /\ pc[r] # "idle" /\ UNCHANGED <<world, control, crashes>>
             /\ EndsUnsaid(r) \/ EndsSaid(r)
    <2>1. /\ pc[r] \in {"generating", "texting"}
          /\ UNCHANGED <<world, control, plan, heard, said, tails, crashes>>
          /\ last' = IF pc[r] = "texting" THEN [last EXCEPT ![i] = "unknown"] ELSE last
        BY <1>2 DEF Raise
    <2>2. /\ i \in Id /\ trigger[i] \in {"received"} \cup Ended /\ trigger[i] # "skipped"
        BY <2>1, BusyTyped DEF Stages, StageOf, Places, IInv, TypeOK
    <2>3. Durable(i) \in Ended \cup {"none"} /\ Durable(i) # "skipped"
        BY <2>2, DurableTyped DEF Durable, IInv
    <2>4. CASE pc[r] = "generating"
        <3>1. \E st \in Ended : Finish(r, st, trigger[i])
            BY <1>2, <2>3, <2>4 DEF Raise, Ended
        <3> QED BY <2>1, <2>2, <2>4, <3>1 DEF EndsUnsaid
    <2>5. CASE pc[r] = "texting"
        <3>1. \E st \in Ended : Finish(r, st, trigger[i]) /\ st # "skipped"
                                /\ (plan[i].parts = 1 => st = "unknown")
            <4>1. plan[i].parts = 1 => plan[i].parts \in Parts(i)
                BY <2>2, <2>5 DEF Stages, StageOf, Traces, TraceOf
            <4> QED BY <1>2, <2>3, <2>5, <4>1 DEF Raise, Ended
        <3>2. heard' = [heard EXCEPT ![i] = heard[i]] /\ heard[i] \in BOOLEAN
            BY <2>1, <2>2 DEF IInv, TypeOK
        <3>3. PICK st \in Ended : Finish(r, st, trigger[i]) /\ st # "skipped"
                                  /\ (plan[i].parts = 1 => st = "unknown")
            BY <3>1
        <3>4. st # "received"
            BY DEF Ended
        <3> QED BY <2>1, <2>2, <2>5, <3>2, <3>3, <3>4 DEF EndsSaid
    <2> QED BY <2>1, <2>4, <2>5
<1>3. ASSUME Skip(r)
      PROVE  pc[r] # "idle" /\ UNCHANGED <<world, control, crashes>> /\ EndsUnsaid(r)
    BY <1>3 DEF Skip, Quit, EndsUnsaid, Ended, opening
<1>4. ASSUME NEW p \in Opening, Reply(r, p)
      PROVE  /\ pc[r] # "idle" /\ UNCHANGED <<world, control, crashes>>
             /\ EndsUnsaid(r) \/ Says(r) \/ Voices(r)
    <2>1. pc[r] = "generating" /\ UNCHANGED <<world, control, heard, tails, crashes>>
        BY <1>4 DEF Reply
    <2>2. CASE ~MayOpen(r)
        BY <1>4, <2>1, <2>2 DEF Reply, Quit, EndsUnsaid, Ended
    <2>3. CASE MayOpen(r) /\ p.voice = "only"
        BY <1>4, <2>1, <2>3 DEF Reply, Working, Voices
    <2>4. CASE MayOpen(r) /\ p.voice # "only"
        BY <1>4, <2>1, <2>4, Bounds DEF Reply, SendPart, Working, Says
    <2> QED BY <2>1, <2>2, <2>3, <2>4
<1>5. ASSUME PartSent(r)
      PROVE  /\ pc[r] # "idle" /\ UNCHANGED <<world, control, crashes>>
             /\ EndsSaid(r) \/ Says(r)
    <2>1. /\ pc[r] = "texting" /\ UNCHANGED <<world, control, plan, tails, crashes>>
          /\ Cardinality(Parts(i)) < plan[i].parts
          /\ heard' = [heard EXCEPT ![i] = TRUE]
        BY <1>5 DEF PartSent
    <2>2. i \in Id /\ plan[i] \in Opening \cup {NoPlan}
        BY <2>1, BusyTyped DEF IInv, TypeOK
    <2>3. plan[i].parts \in 0..MaxParts
        BY <2>2, InitiativeAssumption DEF NoPlan
    <2>4. plan[i].parts # 1
        <3>1. Parts(i) # {} /\ IsFiniteSet(Parts(i)) /\ Cardinality(Parts(i)) \in Nat
            BY <2>1, <2>2, PartsAre DEF Stages, StageOf, Traces, TraceOf
        <3>2. Cardinality(Parts(i)) # 0
            BY <3>1, FS_EmptySet
        <3> QED BY <2>1, <2>3, <3>1, <3>2
    <2>5. Cardinality(Parts(i)) + 1 \in 1..MaxParts
        BY <2>1, <2>2, <2>3, PartsAre, Bounds
    <2>6. CASE MayOpen(r)
        BY <1>5, <2>1, <2>4, <2>5, <2>6 DEF PartSent, SendPart, Working, Says
    <2>7. CASE ~MayOpen(r)
        BY <1>5, <2>1, <2>4, <2>7 DEF PartSent, Quit, EndsSaid, Ended
    <2> QED BY <2>1, <2>6, <2>7
<1>6. ASSUME NEW st \in {"sent", "unknown", "failed"}, TextsOver(r, st)
      PROVE  pc[r] # "idle" /\ UNCHANGED <<world, control, crashes>> /\ EndsSaid(r)
    <2>1. /\ pc[r] = "texting" /\ UNCHANGED <<world, control, plan, said, crashes>>
          /\ last' = [last EXCEPT ![i] = st] /\ Finish(r, st, st)
          /\ heard' = [heard EXCEPT ![i] = @ \/ st = "sent"]
          /\ tails' \subseteq tails \cup {<<r, i>>}
        BY <1>6 DEF TextsOver
    <2>2. heard' = [heard EXCEPT ![i] = heard[i] \/ st = "sent"]
        BY <2>1
    <2>3. st \in Ended /\ st # "received" /\ st # "skipped"
        BY DEF Ended
    <2>4. PICK b \in BOOLEAN : b = (heard[i] \/ st = "sent")
        OBVIOUS
    <2>5. heard' = [heard EXCEPT ![i] = b]
        BY <2>2, <2>4
    <2> QED BY <2>1, <2>3, <2>4, <2>5 DEF EndsSaid
<1>7. ASSUME NEW st \in {"sent", "unknown", "failed"}, VoiceOver(r, st)
      PROVE  pc[r] # "idle" /\ UNCHANGED <<world, control, crashes>> /\ EndsUnsaid(r)
    <2>1. /\ pc[r] = "speaking" /\ UNCHANGED <<world, control, plan, last, said, tails, crashes>>
          /\ heard' = [heard EXCEPT ![i] = st = "sent"] /\ Finish(r, st, st)
        BY <1>7 DEF VoiceOver
    <2>2. PICK b \in BOOLEAN : b = (st = "sent")
        OBVIOUS
    <2>3. st \in Ended /\ st # "skipped"
        BY DEF Ended
    <2> QED BY <2>1, <2>2, <2>3 DEF EndsUnsaid
<1>8. ASSUME Voice(r)
      PROVE  pc[r] # "idle" /\ UNCHANGED <<world, control, crashes>> /\ Voices(r)
    BY <1>8 DEF Voice, Working, Voices
<1>9. ASSUME VoiceFallsBack(r)
      PROVE  /\ pc[r] # "idle" /\ UNCHANGED <<world, control, crashes>>
             /\ EndsUnsaid(r) \/ Says(r)
    <2>1. pc[r] = "speaking" /\ UNCHANGED <<world, control, plan, heard, tails, crashes>>
        BY <1>9 DEF VoiceFallsBack
    <2>2. CASE MayOpen(r)
        BY <1>9, <2>1, <2>2, Bounds DEF VoiceFallsBack, SendPart, Working, Says
    <2>3. CASE ~MayOpen(r)
        BY <1>9, <2>1, <2>3 DEF VoiceFallsBack, Quit, EndsUnsaid, Ended
    <2> QED BY <2>1, <2>2, <2>3
<1> HIDE DEF i
<1> QED BY <1>1, <1>2, <1>3, <1>4, <1>5, <1>6, <1>7, <1>8, <1>9 DEF Attempt

-----------------------------------------------------------------------------
(* The history, step by step. *)

(* Nobody starts to work and the record stays where it is. *)
LEMMA OrderStays ==
    ASSUME IInv, Order, UNCHANGED <<world, state>>,
           \A i \in Id : trigger'[i] = "absent" <=> trigger[i] = "absent",
           \A q \in Runtime : pc'[q] # "idle" => pc[q] # "idle" /\ claim'[q] = claim[q]
    PROVE  Order'
<1>1. \A i \in Id : Used(i)' => Used(i)
    BY DEF Used, Busy, IdOf
<1> QED BY <1>1 DEF Order, Busy, IdOf, world

LEMMA OrderEnds ==
    ASSUME IInv, Order, UNCHANGED world, state \in State, Held(state), NEW st \in Ended,
           state' = Terminal(state, st),
           \A i \in Id : trigger'[i] = "absent" <=> trigger[i] = "absent",
           \A q \in Runtime : pc'[q] # "idle" => pc[q] # "idle" /\ claim'[q] = claim[q]
    PROVE  Order'
<1>1. \A i \in Id : Used(i)' => Used(i)
    BY DEF Used, Busy, IdOf
<1>2. /\ state'.status = st /\ state'.slot = state.slot /\ state'.version = state.version
      /\ state'.activity = state.activity
      /\ st # "unknown" => state'.nextDue >= state.slot + Interval
    <2>1. /\ state'.status = st /\ state'.slot = state.slot /\ state'.version = state.version
          /\ state'.activity = state.activity
          /\ state'.nextDue = CASE st = "unknown" -> 0
                            [] st = "skipped" /\ state.slot + Interval > clock -> state.slot + Interval
                            [] OTHER -> clock + Interval
          /\ state'.nextDue # 0 => state'.nextDue >= state.slot + Interval
        BY TerminalIs DEF IInv
    <2>2. state.slot \in Nat /\ clock \in Nat
        BY Bounds DEF IInv, TypeOK, State, Time
    <2> QED BY <2>1, <2>2, Bounds
<1>3. st # "none"
    BY DEF Ended
<1> QED BY <1>1, <1>2, <1>3 DEF Order, Busy, IdOf, world

(* The claims and runtimes a step does not touch keep their traces. *)
LEMMA OtherTraces ==
    ASSUME IInv, Traces, NEW k \in Id, NEW new, said' = said \cup new,
           \A u \in new : u.id = k,
           \A i \in Id \ {k} : /\ trigger'[i] = trigger[i] /\ last'[i] = last[i]
                               /\ plan'[i] = plan[i] /\ heard'[i] = heard[i]
    PROVE  \A i \in Id \ {k} : TraceOf(i)'
<1> SUFFICES ASSUME NEW i \in Id \ {k} PROVE TraceOf(i)'
    OBVIOUS
<1>1. \A u \in said' : u.id = i => u \in said
    OBVIOUS
<1>2. \A u \in said : u \in said'
    OBVIOUS
<1>3. Spoke(i)' <=> Spoke(i)
    BY <1>1, <1>2 DEF Spoke
<1>4. 1 \in Parts(i) => 1 \in Parts(i)'
    BY <1>2 DEF Parts
<1> QED BY <1>3, <1>4 DEF Traces, TraceOf

LEMMA OtherStages ==
    ASSUME IInv, Order, Stages, NEW r \in Runtime, pc[r] # "idle",
           \A q \in Runtime \ {r} : pc'[q] = pc[q] /\ claim'[q] = claim[q],
           \A i \in Id \ {Busy(r)} : /\ trigger'[i] = trigger[i] /\ last'[i] = last[i]
                                     /\ plan'[i] = plan[i] /\ heard'[i] = heard[i]
    PROVE  \A q \in Runtime \ {r} : StageOf(q)'
<1> SUFFICES ASSUME NEW q \in Runtime \ {r}, pc[q] # "idle" PROVE StageOf(q)'
    BY DEF StageOf, Places
<1>1. Busy(q) \in Id /\ Busy(q) # Busy(r) /\ Busy(q)' = Busy(q)
    BY BusyTyped DEF Order, Busy, IdOf
<1> QED BY <1>1 DEF Stages, StageOf

(* The moves of the world leave every trace. *)
LEMMA QuietHistory ==
    ASSUME IInv, History, UNCHANGED <<world, state, trigger, opening, pc, claim, tails>>
    PROVE  History'
<1>1. Order'
    BY OrderStays DEF History
<1>2. Traces' /\ Stages'
    BY DEF History, Traces, TraceOf, Spoke, Parts, Stages, StageOf, Busy, IdOf, opening
<1> QED BY <1>1, <1>2 DEF History

LEMMA MovesHistory ==
    ASSUME IInv, History, Pass \/ Inbound \/ Pause \/ Resume \/ (\E t \in Deferrals : DeferOnce(t))
    PROVE  History'
<1>1. /\ UNCHANGED <<state, trigger, opening, pc, claim, tails>>
      /\ \/ version' = version /\ activity' = activity
         \/ version' = version + 1
    BY DEF Pass, Inbound, Pause, Resume, DeferOnce, SetControl, world
<1>2. version \in Nat /\ state.version \in Nat
    BY Bounds DEF IInv, TypeOK, State
<1>3. \A i \in Id : Used(i)' <=> Used(i)
    BY <1>1 DEF Used, Busy, IdOf
<1>4. Order'
    BY <1>1, <1>2, <1>3 DEF History, Order, Busy, IdOf
<1>5. Traces' /\ Stages'
    BY <1>1 DEF History, Traces, TraceOf, Spoke, Parts, Stages, StageOf, Busy, IdOf, opening
<1> QED BY <1>4, <1>5 DEF History

-----------------------------------------------------------------------------
(* The slot of a new claim lies behind every slot used in its silence. *)
LEMMA FreeSlot ==
    ASSUME IInv, Order, version > 0, DueSlot, Free
    PROVE  /\ state.version = version => SameAnchor /\ clock >= state.slot + Interval /\ state.slot < Slot
           /\ \A i \in Id : Used(i) => i.version < version \/ (i.version = version /\ i.slot < Slot)
           /\ \A i \in Id : i.version = version /\ i.slot = Slot => ~Used(i)
<1>1. /\ Slot \in Nat /\ clock \in Nat /\ clock < Slot + Interval
      /\ version \in Nat /\ state.version \in Nat /\ state.slot \in Nat /\ Interval \in Nat
      /\ state.claimedAt \in Nat /\ state.nextDue \in Nat
    BY SlotIs, Bounds DEF IInv, TypeOK, State, Time
<1> HIDE DEF Slot
<1>2. ASSUME state.version = version
      PROVE  SameAnchor /\ clock >= state.slot + Interval /\ state.slot < Slot
    <2>1. SameAnchor /\ state.status # "none"
        BY <1>1, <1>2 DEF Order, SameAnchor
    <2>2. /\ state.status # "unknown"
          /\ state.status = "claimed" => Expired
          /\ state.status # "claimed" => clock >= state.nextDue
        BY <2>1 DEF Free
    <2>3. CASE state.status = "claimed"
        <3>1. state.slot <= state.claimedAt
            BY <2>3 DEF IInv, Claims, Held
        <3>2. clock >= state.claimedAt + Interval
            BY <2>2, <2>3 DEF Expired, LeaseOver
        <3> QED BY <1>1, <2>1, <3>1, <3>2
    <2>4. CASE state.status # "claimed"
        <3>1. state.status \in Ended \ {"unknown"}
            BY <2>1, <2>2, <2>4 DEF IInv, TypeOK, State, Ended
        <3>2. state.nextDue >= state.slot + Interval
            BY <3>1 DEF Order
        <3> QED BY <1>1, <2>1, <2>2, <2>4, <3>2
    <2> QED BY <2>3, <2>4
<1>3. ASSUME NEW i \in Id, Used(i)
      PROVE  i.version < version \/ (i.version = version /\ i.slot < Slot)
    <2>1. /\ i.version <= state.version /\ (i.version = state.version => i.slot <= state.slot)
          /\ state.version <= version
        BY <1>3 DEF Order
    <2>2. i.version \in Nat /\ i.slot \in Nat
        BY Bounds DEF Id, Time
    <2> QED BY <1>1, <1>2, <2>1, <2>2
<1>4. \A i \in Id : i.version \in Nat /\ i.slot \in Nat
    BY Bounds DEF Id, Time
<1> QED BY <1>1, <1>2, <1>3, <1>4

LEMMA ClaimHistory ==
    ASSUME IInv, History, NEW r \in Runtime, Claim(r)
    PROVE  /\ History'
           /\ IdOf(state') \in Id /\ ~Used(IdOf(state')) /\ Busy(r)' = IdOf(state')
           /\ IdOf(state').version = version /\ IdOf(state').slot = Slot
<1>1. /\ pc[r] = "idle" /\ pc' = [pc EXCEPT ![r] = "claimed"]
      /\ state' \in State /\ claim' = [claim EXCEPT ![r] = state']
      /\ state'.status = "claimed" /\ state'.version = version /\ state'.activity = activity
      /\ state'.slot = Slot /\ version \in 1..MaxVersion
      /\ UNCHANGED <<world, trigger, opening, tails, crashes>> /\ DueSlot /\ Free
    BY ClaimIs
<1>2. PICK k \in Id : k = IdOf(state') /\ k.version = version /\ k.slot = Slot
    <2>1. state'.slot \in Time
        BY <1>1 DEF State
    <2>2. IdOf(state') = [version |-> version, slot |-> Slot]
        BY <1>1 DEF IdOf
    <2>3. IdOf(state') \in Id
        BY <1>1, <2>1, <2>2 DEF Id
    <2> QED BY <2>2, <2>3
<1>3. /\ \A i \in Id : Used(i) => i.version < version \/ (i.version = version /\ i.slot < Slot)
      /\ ~Used(k)
    BY <1>1, <1>2, FreeSlot, Bounds DEF History
<1>4. /\ \A q \in Runtime \ {r} : pc'[q] = pc[q] /\ claim'[q] = claim[q] /\ Busy(q)' = Busy(q)
      /\ pc'[r] = "claimed" /\ Busy(r)' = k
    BY <1>1, <1>2 DEF IInv, TypeOK, Busy
<1>5. version \in Nat /\ Slot \in Nat /\ \A i \in Id : i.version \in Nat /\ i.slot \in Nat
    BY <1>1, SlotIs, Bounds DEF Id, Time
<1> HIDE DEF Slot
<1>6. \A i \in Id : Used(i)' => Used(i) \/ i = k
    BY <1>1, <1>4 DEF Used
<1>7. Order'
    <2>1. /\ state'.version <= version' /\ (state'.version = version' => state'.activity = activity')
          /\ state'.status # "none" /\ state'.status \notin Ended \ {"unknown"}
        BY <1>1, <1>5 DEF world, Ended
    <2>2. ASSUME NEW i \in Id, Used(i)'
          PROVE  i.version <= state'.version /\ (i.version = state'.version => i.slot <= state'.slot)
        BY <1>1, <1>2, <1>3, <1>5, <1>6, <2>2
    <2>3. ASSUME NEW p \in Runtime, NEW q \in Runtime, pc'[p] # "idle", pc'[q] # "idle", p # q
          PROVE  Busy(p)' # Busy(q)'
        <3>1. \A x \in Runtime \ {r} : pc[x] # "idle" => Busy(x) # k
            BY <1>3 DEF Used
        <3>2. pc[p] # "idle" /\ pc[q] # "idle" => Busy(p) # Busy(q)
            BY <2>3 DEF History, Order
        <3> QED BY <1>4, <2>3, <3>1, <3>2
    <2> QED BY <2>1, <2>2, <2>3 DEF Order
<1>8. Traces'
    BY <1>1 DEF History, Traces, TraceOf, Spoke, Parts, opening
<1>9. Stages'
    <2>1. \A q \in Runtime \ {r} : StageOf(q)'
        BY <1>1, <1>4 DEF History, Stages, StageOf, opening
    <2>2. trigger[k] = "absent" /\ last[k] = "none"
        BY <1>3 DEF Used, History, Traces, TraceOf
    <2>3. StageOf(r)'
        BY <1>1, <1>4, <2>2 DEF StageOf, Places, opening
    <2> QED BY <2>1, <2>3 DEF Stages
<1> QED BY <1>2, <1>3, <1>4, <1>7, <1>8, <1>9 DEF History

LEMMA ConvergeHistory ==
    ASSUME IInv, History, NEW r \in Runtime, Converge(r)
    PROVE  History'
<1>1. /\ TypeOK /\ state \in State /\ Held(state) /\ IdOf(state) \in Id
      /\ state' = Terminal(state, Durable(IdOf(state)))
      /\ trigger' = [trigger EXCEPT ![IdOf(state)] =
                       IF @ = "absent" THEN @ ELSE Durable(IdOf(state))]
      /\ Durable(IdOf(state)) # "none"
      /\ UNCHANGED <<world, opening, pc, claim, tails, crashes>>
    <2>1. state.status = "claimed" /\ TypeOK /\ state \in State
        BY DEF Converge, Settled, Expired, IInv, TypeOK
    <2>2. Held(state)
        BY <2>1 DEF IInv, Claims
    <2> QED BY <2>1, <2>2, IdOfTyped DEF Converge, Settled
<1>2. PICK k \in Id, st \in Ended : k = IdOf(state) /\ st = Durable(k)
    BY <1>1, DurableTyped
<1>3. st = "skipped" => trigger[k] = "skipped"
    BY <1>1, <1>2 DEF Durable, TypeOK
<1>4. trigger \in [Id -> {"absent", "received"} \cup Ended] /\ st # "absent"
    BY <1>1, <1>2 DEF TypeOK, Ended
<1>5. /\ \A i \in Id : trigger'[i] = "absent" <=> trigger[i] = "absent"
      /\ \A i \in Id : trigger'[i] = "skipped" => trigger[i] = "skipped"
    BY <1>1, <1>2, <1>3, <1>4
<1>6. Order'
    BY <1>1, <1>2, <1>5, OrderEnds DEF History
<1>7. Traces'
    <2>1. \A i \in Id : TraceOf(i)'
        BY <1>1, <1>5 DEF History, Traces, TraceOf, Spoke, Parts, opening
    <2>2. \A u \in said : u.id \in Id
        BY <1>1 DEF TypeOK, Utterance
    <2>3. \A x \in tails : x[2] \in Id
        BY <1>1 DEF TypeOK
    <2> QED BY <1>1, <1>5, <2>1, <2>2, <2>3 DEF History, Traces, opening
<1>8. Stages'
    <2>1. ASSUME NEW q \in Runtime, pc[q] # "idle" PROVE StageOf(q)'
        <3>1. Busy(q) \in Id /\ Busy(q)' = Busy(q)
            BY <1>1, <2>1, BusyTyped DEF Busy, IdOf
        <3> QED BY <1>1, <1>5, <3>1 DEF History, Stages, StageOf, opening
    <2> QED BY <1>1, <2>1 DEF Stages, StageOf, Places
<1> QED BY <1>6, <1>7, <1>8 DEF History

LEMMA TailHistory ==
    ASSUME IInv, History, NEW r \in Runtime, NEW i \in Id, VoiceTail(r, i)
    PROVE  History'
<1>1. /\ <<r, i>> \in tails /\ tails' = tails \ {<<r, i>>}
      /\ said' = said \cup Uttered(i, "voice", 1)
      /\ UNCHANGED <<world, control, state, trigger, plan, last, heard, pc, claim, crashes>>
    BY DEF VoiceTail
<1>2. \A u \in Uttered(i, "voice", 1) : u.id = i /\ u.what # "text"
    BY DEF Uttered
<1>3. trigger[i] # "absent"
    BY <1>1 DEF History, Traces
<1>4. \A k \in Id : (Spoke(k)' <=> Spoke(k)) /\ (1 \in Parts(k) => 1 \in Parts(k)')
    BY <1>1, <1>2 DEF Spoke, Parts
<1>5. Traces'
    <2>1. \A k \in Id : TraceOf(k)'
        BY <1>1, <1>4 DEF History, Traces, TraceOf
    <2> QED BY <1>1, <1>2, <1>3, <2>1 DEF History, Traces
<1>6. Stages'
    BY <1>1 DEF History, Stages, StageOf, Busy, IdOf
<1>7. Order'
    BY <1>1, OrderStays DEF History
<1> QED BY <1>5, <1>6, <1>7 DEF History

LEMMA CrashHistory ==
    ASSUME IInv, History, NEW r \in Runtime, Crash(r)
    PROVE  History'
<1>1. /\ pc' = [pc EXCEPT ![r] = "idle"] /\ claim' = [claim EXCEPT ![r] = NoState]
      /\ tails' \subseteq tails /\ UNCHANGED <<world, control, state, trigger, opening>>
    BY DEF Crash
<1>2. /\ pc'[r] = "idle"
      /\ \A q \in Runtime \ {r} : pc'[q] = pc[q] /\ claim'[q] = claim[q]
    BY <1>1 DEF IInv, TypeOK
<1>3. Order'
    BY <1>1, <1>2, OrderStays DEF History
<1>4. Traces'
    BY <1>1 DEF History, Traces, TraceOf, Spoke, Parts, opening
<1>5. Stages'
    BY <1>1, <1>2 DEF History, Stages, StageOf, Busy, IdOf, opening, Places
<1> QED BY <1>3, <1>4, <1>5 DEF History

(* What the end of an attempt leaves behind. *)
LEMMA FinishIs ==
    ASSUME IInv, Order, NEW r \in Runtime, pc[r] # "idle", NEW st \in Ended,
           NEW written \in {"received"} \cup Ended, Finish(r, st, written),
           UNCHANGED world
    PROVE  /\ pc'[r] = "idle"
           /\ \A q \in Runtime \ {r} : pc'[q] = pc[q] /\ claim'[q] = claim[q]
           /\ \A i \in Id \ {Busy(r)} : trigger'[i] = trigger[i]
           /\ \A i \in Id : trigger'[i] = "absent" <=> trigger[i] = "absent"
           /\ trigger'[Busy(r)] = "skipped" => st = "skipped" \/ written = "skipped"
           /\ Order'
<1>1. /\ pc' = [pc EXCEPT ![r] = "idle"] /\ claim' = [claim EXCEPT ![r] = NoState]
      /\ state' = IF Mine(r) THEN Terminal(state, st) ELSE state
      /\ trigger' = [trigger EXCEPT ![Busy(r)] =
                       IF @ = "absent" THEN @ ELSE IF Mine(r) THEN st ELSE written]
    BY DEF Finish
<1>2. PICK k \in Id : k = Busy(r)
    BY BusyTyped
<1>3. /\ pc'[r] = "idle"
      /\ \A q \in Runtime \ {r} : pc'[q] = pc[q] /\ claim'[q] = claim[q]
    BY <1>1 DEF IInv, TypeOK
<1>4. st # "absent" /\ written # "absent"
    BY DEF Ended
<1>5. /\ trigger \in [Id -> {"absent", "received"} \cup Ended]
      /\ trigger' = [trigger EXCEPT ![k] =
                       IF @ = "absent" THEN @ ELSE IF Mine(r) THEN st ELSE written]
    BY <1>1, <1>2 DEF IInv, TypeOK
<1>6. /\ \A i \in Id \ {k} : trigger'[i] = trigger[i]
      /\ \A i \in Id : trigger'[i] = "absent" <=> trigger[i] = "absent"
      /\ trigger'[k] = "skipped" => st = "skipped" \/ written = "skipped"
    BY <1>4, <1>5
<1>7. Order'
    <2>1. CASE Mine(r)
        <3>1. state \in State /\ Held(state) /\ state' = Terminal(state, st)
            BY <1>1, <2>1, BusyTyped DEF Mine
        <3> QED BY <1>3, <1>6, <3>1, OrderEnds
    <2>2. CASE ~Mine(r)
        BY <1>1, <1>3, <1>6, <2>2, OrderStays DEF world
    <2> QED BY <2>1, <2>2
<1> QED BY <1>2, <1>3, <1>6, <1>7

LEMMA BeginsHistory ==
    ASSUME IInv, History, NEW r \in Runtime, UNCHANGED <<world, control, crashes>>, Begins(r)
    PROVE  History'
<1>1. /\ pc[r] = "claimed" /\ trigger[Busy(r)] = "absent"
      /\ trigger' = [trigger EXCEPT ![Busy(r)] = "received"]
      /\ pc' = [pc EXCEPT ![r] = "generating"]
      /\ UNCHANGED <<state, claim, plan, last, heard, said, tails>>
    BY DEF Begins
<1>2. PICK k \in Id : k = Busy(r)
    BY <1>1, BusyTyped
<1>3. /\ pc'[r] = "generating" /\ Busy(r)' = k
      /\ \A q \in Runtime \ {r} : pc'[q] = pc[q] /\ Busy(q)' = Busy(q)
      /\ trigger'[k] = "received" /\ \A i \in Id \ {k} : trigger'[i] = trigger[i]
    BY <1>1, <1>2 DEF IInv, TypeOK, Busy, IdOf
<1>4. Used(k) /\ \A i \in Id : Used(i)' => Used(i)
    BY <1>1, <1>2, <1>3 DEF Used
<1>5. Order'
    <2>1. \A p, q \in Runtime : pc'[q] # "idle" => pc[q] # "idle"
        BY <1>1, <1>3
    <2>2. \A q \in Runtime : Busy(q)' = Busy(q)
        BY <1>1 DEF Busy, IdOf
    <2> QED BY <1>1, <1>4, <2>1, <2>2 DEF History, Order, world
<1>6. last[k] = "none" /\ ~heard[k] /\ ~Spoke(k)
    BY <1>1, <1>2 DEF History, Traces, TraceOf
<1>7. Traces'
    <2>1. TraceOf(k)'
        BY <1>1, <1>3, <1>6 DEF TraceOf, Spoke
    <2>2. \A i \in Id \ {k} : TraceOf(i)'
        BY <1>1, <1>3 DEF History, Traces, TraceOf, Spoke, Parts
    <2>3. /\ \A u \in said : u.id \in Id
          /\ \A x \in tails : x[2] \in Id
        BY DEF IInv, TypeOK, Utterance
    <2> QED BY <1>1, <1>2, <1>3, <2>1, <2>2, <2>3 DEF History, Traces
<1>8. Stages'
    <2>1. \A q \in Runtime \ {r} : StageOf(q)'
        BY <1>1, <1>2, <1>3, OtherStages DEF History
    <2>2. StageOf(r)'
        BY <1>1, <1>3, <1>6 DEF StageOf, Ended
    <2> QED BY <2>1, <2>2 DEF Stages
<1> QED BY <1>5, <1>7, <1>8 DEF History

LEMMA SaysHistory ==
    ASSUME IInv, History, NEW r \in Runtime, UNCHANGED <<world, control, crashes>>, Says(r)
    PROVE  History'
<1>1. /\ pc[r] \in {"generating", "texting", "speaking"}
      /\ last' = [last EXCEPT ![Busy(r)] = "waiting"]
      /\ pc' = [pc EXCEPT ![r] = "texting"]
      /\ \/ plan' = plan
         \/ pc[r] = "generating" /\ \E p \in Opening : plan' = [plan EXCEPT ![Busy(r)] = p]
      /\ \/ heard' = heard
         \/ /\ pc[r] = "texting" /\ plan[Busy(r)].parts # 1
            /\ heard' = [heard EXCEPT ![Busy(r)] = TRUE]
      /\ UNCHANGED <<state, trigger, claim, tails>>
    BY DEF Says
<1>2. PICK part \in 1..MaxParts :
          /\ part = 1 \/ pc[r] = "texting"
          /\ said' = said \cup Uttered(Busy(r), "text", part)
    BY DEF Says
<1>3. PICK k \in Id : k = Busy(r)
    BY <1>1, BusyTyped
<1>4. /\ pc'[r] = "texting" /\ Busy(r)' = k /\ last'[k] = "waiting"
      /\ \A q \in Runtime \ {r} : pc'[q] = pc[q] /\ claim'[q] = claim[q]
      /\ \A i \in Id \ {k} : last'[i] = last[i] /\ plan'[i] = plan[i] /\ heard'[i] = heard[i]
    BY <1>1, <1>3 DEF IInv, TypeOK, Busy, IdOf
<1>5. trigger[k] \notin {"absent", "skipped"}
    BY <1>1, <1>3 DEF History, Stages, StageOf, Places
<1>6. Order'
    BY <1>1, <1>4, OrderStays DEF History, world
<1>7. PICK u \in said' : u.id = k /\ u.what = "text" /\ u.part = part
                         /\ said' = said \cup {u}
    BY <1>2, <1>3 DEF Uttered
<1>8. ~(heard'[k] /\ plan'[k].parts = 1 /\ plan'[k].voice # "only")
    <2>1. CASE pc[r] = "generating"
        BY <1>1, <1>3, <2>1 DEF History, Stages, StageOf
    <2>2. CASE pc[r] = "speaking"
        BY <1>1, <1>3, <2>2 DEF History, Stages, StageOf
    <2>3. CASE pc[r] = "texting"
        <3>1. plan' = plan /\ last[k] = "waiting"
            BY <1>1, <1>3, <2>3 DEF History, Stages, StageOf
        <3>2. ~(heard[k] /\ plan[k].parts = 1 /\ plan[k].voice # "only")
            BY <3>1 DEF History, Traces, TraceOf
        <3> QED BY <1>1, <1>3, <3>1, <3>2
    <2> QED BY <1>1, <2>1, <2>2, <2>3
<1>9. Spoke(k)' /\ 1 \in Parts(k)'
    <2>1. Spoke(k)'
        BY <1>7 DEF Spoke
    <2>2. CASE part = 1
        <3>1. u \in {w \in said' : w.id = k /\ w.what = "text"} /\ u.part = 1
            BY <1>7, <2>2
        <3> QED BY <2>1, <3>1 DEF Parts
    <2>3. CASE pc[r] = "texting"
        <3>1. 1 \in Parts(k)
            BY <1>3, <2>3 DEF History, Stages, StageOf, Traces, TraceOf
        <3> QED BY <1>7, <2>1, <3>1 DEF Parts
    <2> QED BY <1>2, <2>1, <2>2, <2>3
<1>10. Traces'
    <2>1. TraceOf(k)'
        BY <1>1, <1>4, <1>5, <1>8, <1>9 DEF TraceOf
    <2>2. \A i \in Id \ {k} : TraceOf(i)'
        <3> DEFINE new == {u}
        <3>1. said' = said \cup new /\ \A w \in new : w.id = k
            BY <1>7
        <3>2. \A i \in Id \ {k} : /\ trigger'[i] = trigger[i] /\ last'[i] = last[i]
                                  /\ plan'[i] = plan[i] /\ heard'[i] = heard[i]
            BY <1>1, <1>4
        <3> HIDE DEF new
        <3> QED BY <3>1, <3>2, OtherTraces DEF History
    <2> QED BY <1>1, <1>5, <1>7, <2>1, <2>2 DEF History, Traces
<1>11. Stages'
    <2>1. \A q \in Runtime \ {r} : StageOf(q)'
        BY <1>1, <1>3, <1>4, OtherStages DEF History
    <2>2. StageOf(r)'
        BY <1>1, <1>4, <1>5 DEF StageOf
    <2> QED BY <2>1, <2>2 DEF Stages
<1> QED BY <1>6, <1>10, <1>11 DEF History

LEMMA VoicesHistory ==
    ASSUME IInv, History, NEW r \in Runtime, UNCHANGED <<world, control, crashes>>, Voices(r)
    PROVE  History'
<1>1. UNCHANGED <<state, trigger, claim, last, heard, tails>>
    BY DEF Voices
<1>2. PICK k \in Id : k = Busy(r) /\ pc[r] \in {"generating", "voicing"}
    BY BusyTyped DEF Voices
<1>3. /\ pc'[r] \in {"voicing", "speaking"} /\ Busy(r)' = k
      /\ \A q \in Runtime \ {r} : pc'[q] = pc[q] /\ claim'[q] = claim[q]
      /\ \A i \in Id \ {k} : plan'[i] = plan[i]
    BY <1>1, <1>2 DEF Voices, IInv, TypeOK, Busy, IdOf
<1>4. plan'[k].voice = "only"
    BY <1>2 DEF Voices, IInv, TypeOK, History, Stages, StageOf
<1>5. trigger[k] \notin {"absent", "skipped"} /\ last[k] = "none"
    BY <1>2 DEF History, Stages, StageOf, Places
<1>6. Order'
    BY <1>1, <1>2, <1>3, OrderStays DEF History, world
<1> DEFINE new == said' \ said
<1>7. said' = said \cup new /\ \A u \in new : u.id = k /\ u.what # "text"
    <2>1. \A u \in Uttered(k, "voice", 1) : u.id = k /\ u.what # "text"
        BY DEF Uttered
    <2> QED BY <1>2, <2>1 DEF Voices
<1> HIDE DEF new
<1>8. Traces'
    <2>1. TraceOf(k)'
        <3>1. ~Spoke(k)
            BY <1>5 DEF History, Traces, TraceOf
        <3>2. ~Spoke(k)'
            BY <1>7, <3>1 DEF Spoke
        <3> QED BY <1>1, <1>4, <1>5, <3>2 DEF TraceOf
    <2>2. \A i \in Id \ {k} : TraceOf(i)'
        BY <1>1, <1>3, <1>7, OtherTraces DEF History
    <2> QED BY <1>1, <1>5, <1>7, <2>1, <2>2 DEF History, Traces
<1>9. Stages'
    <2>1. \A q \in Runtime \ {r} : StageOf(q)'
        BY <1>1, <1>2, <1>3, OtherStages DEF History
    <2>2. StageOf(r)'
        BY <1>1, <1>3, <1>4, <1>5 DEF StageOf
    <2> QED BY <2>1, <2>2 DEF Stages
<1> QED BY <1>6, <1>8, <1>9 DEF History

LEMMA UnsaidHistory ==
    ASSUME IInv, History, NEW r \in Runtime, UNCHANGED <<world, control, crashes>>, EndsUnsaid(r)
    PROVE  History'
<1>1. /\ pc[r] \in {"claimed", "generating", "speaking"}
      /\ \/ heard' = heard
         \/ pc[r] = "speaking" /\ \E b \in BOOLEAN : heard' = [heard EXCEPT ![Busy(r)] = b]
      /\ UNCHANGED <<plan, said, last, tails>>
    BY DEF EndsUnsaid
<1>2. PICK st \in Ended, written \in {"received"} \cup Ended : Finish(r, st, written)
    BY DEF EndsUnsaid
<1>3. PICK k \in Id : k = Busy(r)
    BY <1>1, BusyTyped
<1>4. /\ pc'[r] = "idle"
      /\ \A q \in Runtime \ {r} : pc'[q] = pc[q] /\ claim'[q] = claim[q]
      /\ \A i \in Id \ {k} : trigger'[i] = trigger[i]
      /\ \A i \in Id : trigger'[i] = "absent" <=> trigger[i] = "absent"
      /\ Order'
    BY <1>1, <1>2, <1>3, FinishIs DEF History, world
<1>5. \A i \in Id \ {k} : heard'[i] = heard[i]
    BY <1>1, <1>3 DEF IInv, TypeOK
<1>6. Traces'
    <2>1. TraceOf(k)'
        <3>1. last[k] = "none" /\ ~Spoke(k)
            BY <1>1, <1>3 DEF History, Stages, StageOf, Traces, TraceOf
        <3>2. ~Spoke(k)'
            BY <1>1, <3>1 DEF Spoke
        <3>3. CASE pc[r] = "speaking"
            <4>1. trigger[k] # "absent" /\ plan[k].voice = "only"
                BY <1>3, <3>3 DEF History, Stages, StageOf, Places
            <4> QED BY <1>1, <1>4, <3>1, <3>2, <4>1 DEF TraceOf
        <3>4. CASE pc[r] # "speaking"
            <4>1. ~heard[k]
                BY <1>1, <1>3, <3>4 DEF History, Stages, StageOf, Traces, TraceOf
            <4> QED BY <1>1, <3>1, <3>2, <3>4, <4>1 DEF TraceOf
        <3> QED BY <3>3, <3>4
    <2>2. \A i \in Id \ {k} : TraceOf(i)'
        BY <1>1, <1>4, <1>5 DEF History, Traces, TraceOf, Spoke, Parts
    <2>3. /\ \A u \in said : u.id \in Id
          /\ \A x \in tails : x[2] \in Id
        BY DEF IInv, TypeOK, Utterance
    <2> QED BY <1>1, <1>4, <2>1, <2>2, <2>3 DEF History, Traces
<1>7. Stages'
    <2>1. \A q \in Runtime \ {r} : StageOf(q)'
        BY <1>1, <1>3, <1>4, <1>5, OtherStages DEF History
    <2>2. StageOf(r)'
        BY <1>4 DEF StageOf, Places
    <2> QED BY <2>1, <2>2 DEF Stages
<1> QED BY <1>4, <1>6, <1>7 DEF History

LEMMA SaidHistory ==
    ASSUME IInv, History, NEW r \in Runtime, UNCHANGED <<world, control, crashes>>, EndsSaid(r)
    PROVE  History'
<1>1. /\ pc[r] = "texting" /\ UNCHANGED <<plan, said>>
      /\ tails' \subseteq tails \cup {<<r, Busy(r)>>}
    BY DEF EndsSaid
<1>2. PICK st \in Ended \cup {"received"}, written \in Ended \cup {"received"},
           t \in {"sent", "unknown", "failed"}, b \in BOOLEAN :
          /\ Finish(r, st, written)
          /\ st # "received" /\ st # "skipped" /\ written # "skipped"
          /\ last' = [last EXCEPT ![Busy(r)] = t]
          /\ heard' = [heard EXCEPT ![Busy(r)] = b]
          /\ plan[Busy(r)].parts = 1 => st = t /\ (b => heard[Busy(r)] \/ t = "sent")
    BY DEF EndsSaid
<1>3. PICK k \in Id : k = Busy(r)
    BY <1>1, BusyTyped
<1>4. /\ pc'[r] = "idle"
      /\ \A q \in Runtime \ {r} : pc'[q] = pc[q] /\ claim'[q] = claim[q]
      /\ \A i \in Id \ {k} : trigger'[i] = trigger[i]
      /\ \A i \in Id : trigger'[i] = "absent" <=> trigger[i] = "absent"
      /\ trigger'[k] # "skipped"
      /\ Order'
    <2>1. st \in Ended
        BY <1>2
    <2> QED BY <1>1, <1>2, <1>3, <2>1, FinishIs DEF History, world
<1>5. /\ last'[k] = t /\ heard'[k] = b
      /\ \A i \in Id \ {k} : heard'[i] = heard[i] /\ last'[i] = last[i]
    BY <1>2, <1>3 DEF IInv, TypeOK
<1>6. last[k] = "waiting" /\ trigger[k] # "absent" /\ Spoke(k) /\ 1 \in Parts(k)
      /\ ~(heard[k] /\ plan[k].parts = 1 /\ plan[k].voice # "only")
    BY <1>1, <1>3 DEF History, Stages, StageOf, Traces, TraceOf, Places
<1>7. Traces'
    <2>1. TraceOf(k)'
        <3>1. Spoke(k)' /\ 1 \in Parts(k)'
            BY <1>1, <1>6 DEF Spoke, Parts
        <3> QED BY <1>1, <1>2, <1>3, <1>4, <1>5, <1>6, <3>1 DEF TraceOf
    <2>2. \A i \in Id \ {k} : TraceOf(i)'
        BY <1>1, <1>4, <1>5 DEF History, Traces, TraceOf, Spoke, Parts
    <2>3. /\ \A u \in said : u.id \in Id
          /\ \A x \in tails : x[2] \in Id
        BY DEF IInv, TypeOK, Utterance
    <2>4. \A x \in tails' : x \in tails \/ x[2] = k
        BY <1>1, <1>3
    <2> QED BY <1>1, <1>4, <1>6, <2>1, <2>2, <2>3, <2>4 DEF History, Traces
<1>8. Stages'
    <2>1. \A q \in Runtime \ {r} : StageOf(q)'
        BY <1>1, <1>3, <1>4, <1>5, OtherStages DEF History
    <2>2. StageOf(r)'
        BY <1>4 DEF StageOf, Places
    <2> QED BY <2>1, <2>2 DEF Stages
<1> QED BY <1>4, <1>7, <1>8 DEF History

LEMMA InitHistory == Init => History
<1> SUFFICES ASSUME Init PROVE History
    OBVIOUS
<1>1. /\ state.version = 0 /\ state.status = "none" /\ version = 0 /\ state.activity = activity
      /\ \A i \in Id : trigger[i] = "absent" /\ last[i] = "none" /\ heard[i] = FALSE
      /\ \A r \in Runtime : pc[r] = "idle"
      /\ said = {} /\ tails = {}
    BY DEF Init, NoState
<1>2. Order
    BY <1>1 DEF Order, Used, Ended
<1>3. Traces
    BY <1>1 DEF Traces, TraceOf, Spoke
<1>4. Stages
    BY <1>1 DEF Stages, StageOf, Places
<1> QED BY <1>2, <1>3, <1>4 DEF History

LEMMA StepHistory == IInv /\ History /\ [Next]_vars => History'
<1> SUFFICES ASSUME IInv, History, [Next]_vars PROVE History'
    OBVIOUS
<1>1. CASE UNCHANGED vars
    BY <1>1, QuietHistory DEF vars
<1>2. CASE Pass \/ Inbound \/ Pause \/ Resume \/ \E t \in Deferrals : DeferOnce(t)
    BY <1>2, MovesHistory
<1>3. ASSUME NEW r \in Runtime, Tick(r) PROVE History'
    BY <1>3, ClaimHistory, ConvergeHistory, QuietHistory DEF Tick, NothingToDo
<1>4. ASSUME NEW r \in Runtime, Attempt(r) PROVE History'
    BY <1>4, AttemptIs, BeginsHistory, SaysHistory, VoicesHistory, UnsaidHistory, SaidHistory
       DEF History
<1>5. CASE \E r \in Runtime : Crash(r)
    BY <1>5, CrashHistory
<1>6. CASE \E r \in Runtime, i \in Id : VoiceTail(r, i)
    BY <1>6, TailHistory
<1> QED BY <1>1, <1>2, <1>3, <1>4, <1>5, <1>6 DEF Next

LEMMA HistoryHolds == Spec => [](IInv /\ History)
BY InitIInv, StepIInv, InitHistory, StepHistory, PTL DEF Spec

(* A claim always takes a slot nobody has acted on or is about to act on:   *)
(* no slot is spent twice, whatever claims expire and whoever crashes.      *)
THEOREM Fresh == Spec => SlotsAreFresh
<1> DEFINE A == \A r \in Runtime : pc[r] = "idle" /\ pc'[r] = "claimed" =>
                  /\ trigger[IdOf(claim'[r])] = "absent"
                  /\ \A q \in Runtime \ {r} : pc[q] # "idle" => Busy(q) # IdOf(claim'[r])
<1>1. IInv /\ History /\ [Next]_vars => [A]_vars
    <2> SUFFICES ASSUME IInv, History, Next, NEW r \in Runtime, pc[r] = "idle", pc'[r] = "claimed"
                 PROVE  /\ trigger[IdOf(claim'[r])] = "absent"
                        /\ \A q \in Runtime \ {r} : pc[q] # "idle" => Busy(q) # IdOf(claim'[r])
        OBVIOUS
    <2>1. CASE Claim(r)
        <3>1. IdOf(state') \in Id /\ ~Used(IdOf(state')) /\ IdOf(claim'[r]) = IdOf(state')
            BY <2>1, ClaimHistory, ClaimIs DEF Busy, IInv, TypeOK
        <3> QED BY <3>1 DEF Used
    <2>2. CASE ~Claim(r)
        <3>1. CASE pc' = pc
            BY <3>1
        <3>2. ASSUME NEW q \in Runtime, pc' = [pc EXCEPT ![q] = "idle"] PROVE FALSE
            BY <3>2 DEF IInv, TypeOK
        <3>3. ASSUME NEW q \in Runtime, Claim(q) PROVE FALSE
            <4>1. q # r /\ pc' = [pc EXCEPT ![q] = "claimed"]
                BY <2>2, <3>3, ClaimIs
            <4> QED BY <4>1 DEF IInv, TypeOK
        <3>4. ASSUME NEW q \in Runtime, Attempt(q) PROVE FALSE
            <4>1. pc[q] # "idle" /\ (Begins(q) \/ Says(q) \/ Voices(q) \/ EndsUnsaid(q) \/ EndsSaid(q))
                BY <3>4, AttemptIs DEF History
            <4>2. pc' = pc \/ \E w \in {"generating", "texting", "voicing", "speaking", "idle"} :
                                  pc' = [pc EXCEPT ![q] = w]
                BY <4>1 DEF Begins, Says, Voices, EndsUnsaid, EndsSaid, Finish
            <4> QED BY <4>1, <4>2 DEF IInv, TypeOK
        <3>5. PICK q \in Runtime : Tick(q) \/ Attempt(q) \/ Crash(q)
            BY <3>1 DEF Next, Pass, Inbound, Pause, Resume, DeferOnce, SetControl, VoiceTail
        <3> QED BY <3>1, <3>2, <3>3, <3>4, <3>5 DEF Tick, Converge, NothingToDo, Crash
    <2> QED BY <2>1, <2>2
<1>2. Spec => [][A]_vars
    BY <1>1, HistoryHolds, PTL DEF Spec
<1> QED BY <1>2 DEF SlotsAreFresh

-----------------------------------------------------------------------------
(* What a step does to the record and to what was said. *)

(* Nothing but the clock, the conversation and the voices. *)
Stays ==
    /\ UNCHANGED <<state, plan, last, heard>>
    /\ clock' >= clock
    /\ \A i \in Id : Used(i)' => Used(i)
    /\ \A u \in said' : u \in said \/ (u.what = "voice" /\ trigger[u.id] # "absent")

(* A text of the claim on record. *)
Speaks(r) ==
    /\ pc[r] # "idle" /\ MayOpen(r)
    /\ UNCHANGED <<clock, state>>
    /\ \A i \in Id : Used(i)' => Used(i)
    /\ \E u \in said' :
          /\ said' = said \cup {u}
          /\ u.what = "text" /\ u.id = Busy(r) /\ u.at = clock /\ u.version = version
    /\ \A i \in Id \ {Busy(r)} : /\ last'[i] = last[i] /\ plan'[i] = plan[i]
                                 /\ heard'[i] = heard[i]

(* Only a plan that is all voice. *)
Plans(r) ==
    /\ pc[r] # "idle" /\ MayOpen(r) /\ last'[Busy(r)] = "none"
    /\ UNCHANGED <<clock, state, last, heard, said>>
    /\ \A i \in Id : Used(i)' => Used(i)
    /\ plan'[Busy(r)].voice = "only"
    /\ \A i \in Id \ {Busy(r)} : plan'[i] = plan[i]

Ends(r, st) ==
    LET k == Busy(r) IN
    /\ pc[r] # "idle" /\ clock' = clock
    /\ state' = IF Mine(r) THEN Terminal(state, st) ELSE state
    /\ UNCHANGED <<plan, said>>
    /\ \A i \in Id : Used(i)' => Used(i)
    /\ \A i \in Id \ {k} : last'[i] = last[i] /\ heard'[i] = heard[i]
    /\ Spoke(k) => st # "skipped" /\ last[k] = "waiting"
    /\ ~Spoke(k) => last'[k] = "none"
    /\ last'[k] # "waiting"
    /\ plan[k].parts = 1 /\ last'[k] = "unknown" => st = "unknown"
    /\ plan[k].parts = 1 /\ plan[k].voice # "only" /\ heard'[k] => st = "sent" /\ last[k] = "waiting"

LEMMA SaysIs ==
    ASSUME IInv, History, NEW r \in Runtime, UNCHANGED <<world, control, crashes>>, Says(r)
    PROVE  Speaks(r)
<1>1. /\ pc[r] \in {"generating", "texting", "speaking"} /\ MayOpen(r)
      /\ last' = [last EXCEPT ![Busy(r)] = "waiting"]
      /\ pc' = [pc EXCEPT ![r] = "texting"]
      /\ \/ plan' = plan
         \/ \E p \in Opening : plan' = [plan EXCEPT ![Busy(r)] = p]
      /\ \/ heard' = heard
         \/ heard' = [heard EXCEPT ![Busy(r)] = TRUE]
      /\ UNCHANGED <<state, trigger, claim, tails, clock>>
    BY DEF Says, world
<1>2. PICK k \in Id : k = Busy(r)
    BY <1>1, BusyTyped
<1>3. /\ \A i \in Id \ {k} : last'[i] = last[i] /\ plan'[i] = plan[i] /\ heard'[i] = heard[i]
      /\ \A q \in Runtime \ {r} : pc'[q] = pc[q]
    BY <1>1, <1>2 DEF IInv, TypeOK
<1>4. \A i \in Id : Used(i)' => Used(i)
    BY <1>1, <1>3 DEF Used, Busy, IdOf
<1>5. \E u \in said' : /\ said' = said \cup {u}
                       /\ u.what = "text" /\ u.id = Busy(r) /\ u.at = clock /\ u.version = version
    <2>1. PICK part \in 1..MaxParts : said' = said \cup Uttered(Busy(r), "text", part)
        BY DEF Says
    <2> DEFINE u == [id |-> Busy(r), what |-> "text", part |-> part, at |-> clock,
                     version |-> version]
    <2>2. u.what = "text" /\ u.id = Busy(r) /\ u.at = clock /\ u.version = version
        OBVIOUS
    <2>3. said' = said \cup {u}
        BY <2>1 DEF Uttered
    <2> HIDE DEF u
    <2> QED BY <2>2, <2>3
<1> QED BY <1>1, <1>2, <1>3, <1>4, <1>5 DEF Speaks

LEMMA VoicesIs ==
    ASSUME IInv, History, NEW r \in Runtime, UNCHANGED <<world, control, crashes>>, Voices(r)
    PROVE  Plans(r) \/ Stays
<1>1. UNCHANGED <<state, trigger, claim, last, heard, clock>> /\ pc[r] \in {"generating", "voicing"}
    BY DEF Voices, world
<1>2. PICK k \in Id : k = Busy(r)
    BY <1>1, BusyTyped
<1>3. /\ \A q \in Runtime \ {r} : pc'[q] = pc[q]
      /\ trigger[k] # "absent" /\ last[k] = "none"
    BY <1>1, <1>2 DEF Voices, IInv, TypeOK, History, Stages, StageOf, Places
<1>4. \A i \in Id : Used(i)' => Used(i)
    BY <1>1, <1>2, <1>3 DEF Used, Busy, IdOf
<1>5. CASE pc[r] = "generating"
    <2>1. PICK p \in Opening : p.voice = "only" /\ plan' = [plan EXCEPT ![k] = p]
        BY <1>2, <1>5 DEF Voices
    <2>2. plan'[k].voice = "only" /\ \A i \in Id \ {k} : plan'[i] = plan[i]
        BY <2>1 DEF IInv, TypeOK
    <2> QED BY <1>1, <1>2, <1>3, <1>4, <1>5, <2>2 DEF Voices, Plans
<1>6. CASE pc[r] = "voicing"
    <2>1. plan' = plan /\ said' = said \cup Uttered(k, "voice", 1)
        BY <1>2, <1>6 DEF Voices
    <2>2. \A u \in said' : u \in said \/ (u.what = "voice" /\ trigger[u.id] # "absent")
        BY <1>3, <2>1 DEF Uttered
    <2>3. clock' >= clock
        BY <1>1, Bounds DEF IInv, TypeOK, Time
    <2> QED BY <1>1, <1>4, <2>1, <2>2, <2>3 DEF Stays
<1> QED BY <1>1, <1>5, <1>6

LEMMA EndIs ==
    ASSUME IInv, History, NEW r \in Runtime, UNCHANGED <<world, control, crashes>>,
           EndsUnsaid(r) \/ EndsSaid(r)
    PROVE  \E st \in Ended : Ends(r, st)
<1>1. pc[r] \in {"claimed", "generating", "speaking", "texting"}
    BY DEF EndsUnsaid, EndsSaid
<1>2. PICK k \in Id : k = Busy(r)
    BY <1>1, BusyTyped
<1>3. ASSUME NEW st \in Ended, NEW written \in {"received"} \cup Ended, Finish(r, st, written)
      PROVE  /\ \A i \in Id : Used(i)' => Used(i)
             /\ state' = IF Mine(r) THEN Terminal(state, st) ELSE state
    <2>1. /\ pc'[r] = "idle"
          /\ \A q \in Runtime \ {r} : pc'[q] = pc[q] /\ claim'[q] = claim[q]
          /\ \A i \in Id : trigger'[i] = "absent" <=> trigger[i] = "absent"
        BY <1>1, <1>3, FinishIs DEF History, world
    <2> QED BY <1>3, <2>1 DEF Used, Busy, IdOf, Finish
<1>4. CASE EndsUnsaid(r)
    <2>1. /\ pc[r] \in {"claimed", "generating", "speaking"}
          /\ \/ heard' = heard
             \/ pc[r] = "speaking" /\ \E b \in BOOLEAN : heard' = [heard EXCEPT ![k] = b]
          /\ UNCHANGED <<plan, said, last, tails, clock>>
        BY <1>2, <1>4 DEF EndsUnsaid, world
    <2>2. PICK st \in Ended, written \in {"received"} \cup Ended : Finish(r, st, written)
        BY <1>4 DEF EndsUnsaid
    <2>3. last[k] = "none" /\ ~Spoke(k)
        BY <1>2, <2>1 DEF History, Stages, StageOf, Traces, TraceOf
    <2>4. plan[k].parts = 1 /\ plan[k].voice # "only" => ~heard'[k]
        BY <1>2, <2>1, <2>3 DEF History, Stages, StageOf, Traces, TraceOf
    <2>5. \A i \in Id \ {k} : heard'[i] = heard[i]
        BY <2>1 DEF IInv, TypeOK
    <2> QED BY <1>1, <1>2, <1>3, <2>1, <2>2, <2>3, <2>4, <2>5 DEF Ends
<1>5. CASE EndsSaid(r)
    <2>1. pc[r] = "texting" /\ UNCHANGED <<plan, said, clock>>
        BY <1>5 DEF EndsSaid, world
    <2>2. PICK st \in Ended \cup {"received"}, written \in Ended \cup {"received"},
               t \in {"sent", "unknown", "failed"}, b \in BOOLEAN :
              /\ Finish(r, st, written)
              /\ st # "received" /\ st # "skipped" /\ written # "skipped"
              /\ last' = [last EXCEPT ![Busy(r)] = t]
              /\ heard' = [heard EXCEPT ![Busy(r)] = b]
              /\ plan[Busy(r)].parts = 1 => st = t /\ (b => heard[Busy(r)] \/ t = "sent")
        BY <1>5 DEF EndsSaid
    <2>3. /\ last'[k] = t /\ heard'[k] = b
          /\ \A i \in Id \ {k} : heard'[i] = heard[i] /\ last'[i] = last[i]
        BY <1>2, <2>2 DEF IInv, TypeOK
    <2>4. last[k] = "waiting" /\ Spoke(k)
          /\ ~(heard[k] /\ plan[k].parts = 1 /\ plan[k].voice # "only")
        BY <1>2, <2>1 DEF History, Stages, StageOf, Traces, TraceOf
    <2>5. st \in Ended /\ written \in {"received"} \cup Ended /\ Finish(r, st, written)
        BY <2>2
    <2>6. Ends(r, st)
        BY <1>1, <1>2, <1>3, <2>1, <2>2, <2>3, <2>4, <2>5 DEF Ends
    <2> QED BY <2>5, <2>6
<1> QED BY <1>4, <1>5

LEMMA StepIs ==
    ASSUME IInv, History, Next
    PROVE  \/ Stays
           \/ \E r \in Runtime : Claim(r) \/ Converge(r) \/ Speaks(r) \/ Plans(r)
           \/ \E r \in Runtime, st \in Ended : Ends(r, st)
<1>0. clock \in Nat
    BY Bounds DEF IInv, TypeOK, Time
<1>1. ASSUME Pass \/ Inbound \/ Pause \/ Resume \/ \E t \in Deferrals : DeferOnce(t)
      PROVE  Stays
    <2>1. UNCHANGED <<state, trigger, opening, pc, claim>> /\ clock' >= clock
        BY <1>0, <1>1 DEF Pass, Inbound, Pause, Resume, DeferOnce, SetControl, world
    <2> QED BY <2>1 DEF Stays, Used, Busy, IdOf, opening
<1>2. ASSUME NEW r \in Runtime, NothingToDo(r) PROVE Stays
    BY <1>0, <1>2 DEF NothingToDo, Stays, Used, Busy, IdOf, opening, world
<1>3. ASSUME NEW r \in Runtime, Attempt(r)
      PROVE  Stays \/ Speaks(r) \/ Plans(r) \/ \E st \in Ended : Ends(r, st)
    <2>1. CASE Begins(r)
        <3>1. UNCHANGED <<state, claim, plan, last, heard, said>> /\ pc[r] = "claimed"
            BY <2>1 DEF Begins
        <3>2. UNCHANGED world
            BY <1>3, AttemptIs DEF History
        <3>3. \A i \in Id : Used(i)' => Used(i)
            BY <2>1, <3>1, BusyTyped DEF Begins, Used, Busy, IdOf, IInv, TypeOK
        <3> QED BY <1>0, <3>1, <3>2, <3>3 DEF Stays, world
    <2> QED BY <1>3, <2>1, AttemptIs, SaysIs, VoicesIs, EndIs DEF History
<1>4. ASSUME NEW r \in Runtime, Crash(r) PROVE Stays
    <2>1. /\ pc' = [pc EXCEPT ![r] = "idle"] /\ claim' = [claim EXCEPT ![r] = NoState]
          /\ UNCHANGED <<world, state, trigger, opening>>
        BY <1>4 DEF Crash
    <2>2. \A i \in Id : Used(i)' => Used(i)
        BY <2>1 DEF Used, Busy, IdOf, IInv, TypeOK
    <2> QED BY <1>0, <2>1, <2>2 DEF Stays, opening, world
<1>5. ASSUME NEW r \in Runtime, NEW i \in Id, VoiceTail(r, i) PROVE Stays
    <2>1. /\ UNCHANGED <<world, state, trigger, plan, last, heard, pc, claim>>
          /\ said' = said \cup Uttered(i, "voice", 1) /\ trigger[i] # "absent"
        BY <1>5 DEF VoiceTail, History, Traces
    <2>2. \A u \in said' : u \in said \/ (u.what = "voice" /\ trigger[u.id] # "absent")
        BY <2>1 DEF Uttered
    <2> QED BY <1>0, <2>1, <2>2 DEF Stays, Used, Busy, IdOf, world
<1> QED BY <1>1, <1>2, <1>3, <1>4, <1>5 DEF Next, Tick

LEMMA BoxStepIs ==
    ASSUME IInv, History, [Next]_vars
    PROVE  \/ Stays
           \/ \E r \in Runtime : Claim(r) \/ Converge(r) \/ Speaks(r) \/ Plans(r)
           \/ \E r \in Runtime, st \in Ended : Ends(r, st)
<1>1. CASE UNCHANGED vars
    <2>1. clock' >= clock
        BY <1>1, Bounds DEF IInv, TypeOK, Time, vars, world
    <2> QED BY <1>1, <2>1 DEF Stays, Used, Busy, IdOf, vars, world, opening
<1> QED BY <1>1, StepIs

(* A runtime that passes the guard works on the claim on record. *)
LEMMA OpenIs ==
    ASSUME IInv, Order, NEW r \in Runtime, pc[r] # "idle", MayOpen(r)
    PROVE  /\ state.status = "claimed" /\ Held(state) /\ state \in State
           /\ Busy(r) = IdOf(state) /\ Busy(r) \in Id /\ Used(Busy(r))
           /\ Busy(r).version = state.version /\ Busy(r).slot = state.slot
           /\ state.version = version /\ ~IsQuiet(clock)
BY BusyTyped DEF MayOpen, Mine, Busy, Used, Held

(* Who has said something has used its slot. *)
LEMMA SaidIsUsed ==
    ASSUME IInv, History, NEW u \in said
    PROVE  u.id \in Id /\ Used(u.id) /\ trigger[u.id] # "absent"
BY DEF IInv, TypeOK, Utterance, History, Traces, Used

(* Texts go out in the conversation their slot was claimed in, and never in *)
(* quiet hours, whichever runtime wakes up late.                            *)
THEOREM Welcome == Spec => []TextsWelcome
<1>1. Init => TextsWelcome
    BY DEF Init, TextsWelcome
<1>2. IInv /\ History /\ TextsWelcome /\ [Next]_vars => TextsWelcome'
    <2> SUFFICES ASSUME IInv, History, TextsWelcome, [Next]_vars,
                        NEW w \in said', w.what = "text"
                 PROVE  ~IsQuiet(w.at) /\ w.version = w.id.version
        BY DEF TextsWelcome
    <2>1. CASE w \in said
        BY <2>1 DEF TextsWelcome
    <2>2. ASSUME NEW r \in Runtime, Speaks(r), w \notin said
          PROVE  ~IsQuiet(w.at) /\ w.version = w.id.version
        BY <2>2, OpenIs DEF Speaks, History
    <2>3. CASE Stays
        BY <2>1, <2>3 DEF Stays
    <2>4. ASSUME NEW r \in Runtime, Claim(r) \/ Converge(r) \/ Plans(r)
          PROVE  w \in said
        BY <2>4 DEF Claim, Converge, Plans, opening
    <2>5. ASSUME NEW r \in Runtime, NEW st \in Ended, Ends(r, st)
          PROVE  w \in said
        BY <2>5 DEF Ends
    <2> QED BY <2>1, <2>2, <2>3, <2>4, <2>5, BoxStepIs
<1> QED BY <1>1, <1>2, HistoryHolds, PTL DEF Spec

-----------------------------------------------------------------------------
(* Openings are an interval apart. *)

(* Every text of this silence is at least an interval older than the claim  *)
(* on record, or is of that claim and at least an interval older than what  *)
(* comes next.                                                              *)
Waited ==
    \A u \in said : u.what = "text" =>
        /\ u.at <= clock
        /\ u.id.version = state.version /\ u.id.slot < state.slot =>
              state.claimedAt >= u.at + Interval
        /\ u.id.version = state.version /\ u.id.slot = state.slot
              /\ state.status \in Ended \ {"unknown"} =>
              state.nextDue >= u.at + Interval

LEMMA EndKeepsWaited ==
    ASSUME IInv, History, Waited, NEW st \in Ended, state.status = "claimed",
           state' = Terminal(state, st), clock' = clock, said' = said,
           Spoke(IdOf(state)) => st # "skipped"
    PROVE  Waited'
<1>1. Held(state) /\ state \in State /\ clock \in Nat
    BY Bounds DEF IInv, TypeOK, Claims, Time
<1>2. /\ state'.status = st /\ state'.slot = state.slot /\ state'.version = state.version
      /\ state'.claimedAt = state.claimedAt
      /\ st \notin {"unknown", "skipped"} => state'.nextDue = clock + Interval
    BY <1>1, TerminalIs DEF IInv
<1> SUFFICES ASSUME NEW u \in said, u.what = "text"
    PROVE /\ u.at <= clock
          /\ u.id.version = state.version /\ u.id.slot < state.slot =>
                state.claimedAt >= u.at + Interval
          /\ u.id.version = state.version /\ u.id.slot = state.slot /\ st # "unknown" =>
                state'.nextDue >= u.at + Interval
    BY <1>2 DEF Waited
<1>3. u.at \in Nat /\ u.id \in Id /\ u.at <= clock
    BY Bounds DEF IInv, TypeOK, Utterance, Time, Waited
<1>4. ASSUME u.id.version = state.version, u.id.slot = state.slot, st # "unknown"
      PROVE  state'.nextDue >= u.at + Interval
    <2>1. u.id = IdOf(state)
        BY <1>3, <1>4 DEF IdOf, Id
    <2>2. Spoke(IdOf(state))
        BY <2>1 DEF Spoke
    <2> QED BY <1>1, <1>2, <1>3, <1>4, <2>2, Bounds
<1> QED BY <1>3, <1>4 DEF Waited

LEMMA StepWaited ==
    ASSUME IInv, History, Waited, [Next]_vars
    PROVE  Waited'
<1>0. clock \in Nat /\ \A u \in said : u.at \in Nat /\ u.id \in Id
    BY Bounds DEF IInv, TypeOK, Utterance, Time
<1>1. CASE Stays
    <2>1. clock' \in Nat
        BY StepIInv, Bounds DEF IInv, TypeOK, Time
    <2> QED BY <1>0, <1>1, <2>1 DEF Waited, Stays
<1>2. ASSUME NEW r \in Runtime, Claim(r) PROVE Waited'
    <2>1. /\ state'.version = version /\ state'.slot = Slot /\ state'.claimedAt = clock
          /\ state'.status = "claimed" /\ clock' = clock /\ said' = said /\ version > 0
          /\ DueSlot /\ Free
        BY <1>2, ClaimIs, Bounds DEF world, opening
    <2>2. ASSUME NEW u \in said, u.what = "text", u.id.version = version
          PROVE  clock >= u.at + Interval
        <3>1. u.id \in Id /\ Used(u.id) /\ trigger[u.id] # "absent"
            BY SaidIsUsed
        <3>2. state.version = version /\ u.id.slot <= state.slot
            <4>1. u.id.version <= state.version /\ state.version <= version
                BY <3>1 DEF History, Order
            <4>2. version \in Nat /\ state.version \in Nat
                BY Bounds DEF IInv, TypeOK, State
            <4> QED BY <2>2, <3>1, <4>1, <4>2 DEF History, Order
        <3>3. SameAnchor
            BY <2>1, <3>2, FreeSlot DEF History
        <3>4. /\ state.claimedAt \in Nat /\ state.slot \in Nat /\ state.nextDue \in Nat
              /\ state.completedAt \in Nat /\ u.at \in Nat /\ u.id.slot \in Nat
              /\ state \in State
            BY <1>0, <3>1, Bounds DEF IInv, TypeOK, State, Time, Id
        <3>5. CASE state.status = "claimed"
            <4>1. Durable(IdOf(state)) = "none" /\ IdOf(state) \in Id /\ state.claimedAt <= clock
                BY <2>1, <3>3, <3>4, <3>5, IdOfTyped DEF Free, IInv, Claims, Held
            <4>2. u.id # IdOf(state)
                BY <3>1, <4>1 DEF Durable, IInv, TypeOK
            <4>3. u.id.slot < state.slot
                BY <2>2, <3>1, <3>2, <3>4, <4>2 DEF IdOf, Id
            <4>4. state.claimedAt >= u.at + Interval
                BY <2>2, <3>2, <4>3 DEF Waited
            <4> QED BY <1>0, <3>4, <4>1, <4>4, Bounds
        <3>6. CASE state.status # "claimed"
            <4>1. state.status # "none"
                BY <2>1, <3>2, Bounds DEF History, Order
            <4>2. state.status \in Ended \ {"unknown"} /\ clock >= state.nextDue
                BY <2>1, <3>3, <3>4, <3>6, <4>1 DEF Free, State
            <4>3. state.claimedAt < state.nextDue
                BY <3>4, <4>2 DEF IInv, Closed
            <4>4. u.id.slot < state.slot => state.claimedAt >= u.at + Interval
                BY <2>2, <3>2 DEF Waited
            <4>5. u.id.slot = state.slot => state.nextDue >= u.at + Interval
                BY <2>2, <3>2, <4>2 DEF Waited
            <4> QED BY <1>0, <3>2, <3>4, <4>2, <4>3, <4>4, <4>5, Bounds
        <3> QED BY <3>5, <3>6
    <2>3. \A u \in said : u.what = "text" =>
              u.at <= clock /\ (u.id.version = version => u.id.slot < Slot)
        <3>1. \A i \in Id : Used(i) => i.version < version \/ (i.version = version /\ i.slot < Slot)
            BY <2>1, FreeSlot DEF History
        <3>2. version \in Nat /\ \A i \in Id : i.version \in Nat
            BY Bounds DEF IInv, TypeOK, Id
        <3> QED BY <3>1, <3>2, SaidIsUsed DEF Waited
    <2>4. state'.status \notin Ended
        BY <2>1 DEF Ended
    <2> QED BY <2>1, <2>2, <2>3, <2>4 DEF Waited
<1>3. ASSUME NEW r \in Runtime, Converge(r) PROVE Waited'
    <2>1. /\ state.status = "claimed" /\ state' = Terminal(state, Durable(IdOf(state)))
          /\ clock' = clock /\ said' = said /\ Durable(IdOf(state)) # "none"
        BY <1>3 DEF Converge, Settled, Expired, world, opening
    <2>2. IdOf(state) \in Id
        BY <2>1, IdOfTyped DEF IInv, TypeOK, Claims
    <2>3. PICK st \in Ended : st = Durable(IdOf(state))
        BY <2>1, <2>2, DurableTyped DEF IInv
    <2>4. Spoke(IdOf(state)) => st # "skipped"
        BY <2>2, <2>3 DEF Durable, IInv, TypeOK, History, Traces, TraceOf
    <2> QED BY <2>1, <2>3, <2>4, EndKeepsWaited
<1>4. ASSUME NEW r \in Runtime, Speaks(r) PROVE Waited'
    <2>1. PICK u \in said' : /\ said' = said \cup {u}
                             /\ u.id = Busy(r) /\ u.at = clock
        BY <1>4 DEF Speaks
    <2>2. state.status = "claimed" /\ Busy(r).slot = state.slot /\ state' = state /\ clock' = clock
        BY <1>4, OpenIs DEF Speaks, History
    <2>3. state.status \notin Ended /\ state.slot \in Nat
        BY <2>2, Bounds DEF Ended, IInv, TypeOK, State, Time
    <2> QED BY <1>0, <2>1, <2>2, <2>3 DEF Waited
<1>5. ASSUME NEW r \in Runtime, Plans(r) PROVE Waited'
    BY <1>5 DEF Plans, Waited
<1>6. ASSUME NEW r \in Runtime, NEW st \in Ended, Ends(r, st) PROVE Waited'
    <2>1. CASE ~Mine(r)
        BY <1>6, <2>1 DEF Ends, Waited
    <2>2. CASE Mine(r)
        <3>1. state.status = "claimed" /\ IdOf(state) = Busy(r)
            BY <1>6, <2>2, BusyTyped DEF Ends, Mine, Busy, Held
        <3> QED BY <1>6, <2>2, <3>1, EndKeepsWaited DEF Ends
    <2> QED BY <2>1, <2>2
<1> QED BY <1>1, <1>2, <1>3, <1>4, <1>5, <1>6, BoxStepIs

(* Two openings of one silence start at least an interval apart, whoever    *)
(* crashed between them and whoever wakes up late.                          *)
THEOREM Apart == Spec => []Spaced
<1>1. Init => Waited /\ Spaced
    BY DEF Init, Waited, Spaced
<1>2. IInv /\ History /\ Waited /\ Spaced /\ [Next]_vars => Spaced'
    <2> SUFFICES ASSUME IInv, History, Waited, Spaced, [Next]_vars,
                        NEW u \in said', NEW w \in said', u.what = "text", w.what = "text",
                        u.part = 1, w.part = 1,
                        u.id.version = w.id.version, u.id.slot < w.id.slot
                 PROVE  w.at >= u.at + Interval
        BY DEF Spaced
    <2>1. CASE u \in said /\ w \in said
        BY <2>1 DEF Spaced
    <2>2. ASSUME NEW r \in Runtime, Speaks(r), ~(u \in said /\ w \in said)
          PROVE  w.at >= u.at + Interval
        <3>1. /\ state.status = "claimed" /\ Held(state) /\ state \in State
              /\ Busy(r).version = state.version /\ Busy(r).slot = state.slot
            BY <2>2, OpenIs DEF Speaks, History
        <3>2. PICK x \in said' : said' = said \cup {x} /\ x.id = Busy(r) /\ x.at = clock
            BY <2>2 DEF Speaks
        <3>3. /\ state.slot \in Nat /\ state.claimedAt \in Nat /\ clock \in Nat
              /\ state.claimedAt <= clock
              /\ \A y \in said : y.at \in Nat /\ y.id \in Id /\ y.id.slot \in Nat
            BY <3>1, Bounds DEF IInv, TypeOK, Utterance, State, Time, Held, Id
        <3>4. CASE w = x
            <4>1. u \in said
                BY <3>1, <3>2, <3>3, <3>4
            <4>2. state.claimedAt >= u.at + Interval
                BY <3>1, <3>2, <3>4, <4>1 DEF Waited
            <4> QED BY <3>2, <3>3, <3>4, <4>1, <4>2, Bounds
        <3>5. CASE w # x
            <4>1. w \in said /\ u = x
                BY <2>2, <3>2, <3>5
            <4>2. w.id.slot <= state.slot
                BY <3>1, <3>2, <4>1, SaidIsUsed DEF History, Order
            <4> QED BY <3>1, <3>2, <3>3, <4>1, <4>2
        <3> QED BY <3>4, <3>5
    <2>3. CASE Stays
        BY <2>1, <2>3 DEF Stays
    <2>4. ASSUME NEW r \in Runtime, Claim(r) \/ Converge(r) \/ Plans(r)
          PROVE  said' = said
        BY <2>4 DEF Claim, Converge, Plans, opening
    <2>5. ASSUME NEW r \in Runtime, NEW st \in Ended, Ends(r, st)
          PROVE  said' = said
        BY <2>5 DEF Ends
    <2> QED BY <2>1, <2>2, <2>3, <2>4, <2>5, BoxStepIs
<1>3. IInv /\ History /\ Waited /\ [Next]_vars => Waited'
    BY StepWaited
<1> QED BY <1>1, <1>2, <1>3, HistoryHolds, PTL DEF Spec

-----------------------------------------------------------------------------
(* Silence after an unknown delivery. *)

Behind(i) ==
    \/ \E j \in Id : Used(j) /\ j.version = i.version /\ i.slot < j.slot
    \/ i.version = state.version /\ i.slot < state.slot

OnRecord(i) == i.version = state.version /\ i.slot = state.slot

(* A slot that was left behind, or whose end is on record and known, was    *)
(* not left to an opening nobody knows the fate of.                         *)
Hushed ==
    \A i \in Id : plan[i].parts = 1 =>
        (Behind(i) \/ (OnRecord(i) /\ state.status \in Ended \ {"unknown"})
            => last[i] \notin {"waiting", "unknown"})

LEMMA NotBehind ==
    ASSUME IInv, Order, NEW i \in Id, OnRecord(i)
    PROVE  ~Behind(i)
BY Bounds DEF Behind, OnRecord, Order, Id, Time

LEMMA StepHushed ==
    ASSUME IInv, History, Hushed, [Next]_vars
    PROVE  Hushed'
<1>0. state \in State /\ TypeOK /\ \A i \in Id : i.slot \in Nat /\ i.version \in Nat
    BY Bounds DEF IInv, TypeOK, Id, Time
<1>1. CASE Stays
    BY <1>1 DEF Stays, Hushed, Behind, OnRecord
<1>2. ASSUME NEW r \in Runtime, Claim(r) PROVE Hushed'
    <2>1. /\ state'.version = version /\ state'.slot = Slot /\ state'.status = "claimed"
          /\ UNCHANGED <<plan, last>> /\ version > 0 /\ DueSlot /\ Free
          /\ trigger' = trigger /\ pc' = [pc EXCEPT ![r] = "claimed"] /\ pc[r] = "idle"
          /\ IdOf(state') \in Id /\ Busy(r)' = IdOf(state')
          /\ IdOf(state').version = version /\ IdOf(state').slot = Slot
        BY <1>2, ClaimIs, ClaimHistory, Bounds DEF opening
    <2>2. ASSUME NEW i \in Id, plan[i].parts = 1, i.version = version, i.slot < Slot
          PROVE  last[i] \notin {"waiting", "unknown"}
        <3>1. CASE last[i] = "none"
            BY <3>1
        <3>2. CASE last[i] # "none"
            <4>1. Used(i) /\ trigger[i] # "absent"
                BY <3>2 DEF History, Traces, TraceOf, Used
            <4>2. state.version = version /\ i.slot <= state.slot
                <5>1. i.version <= state.version /\ state.version <= version
                    BY <4>1 DEF History, Order
                <5>2. state.version \in Nat
                    BY <1>0, Bounds DEF State
                <5> QED BY <1>0, <2>2, <4>1, <5>1, <5>2 DEF History, Order
            <4>3. SameAnchor /\ state.status # "none"
                BY <2>1, <4>2, FreeSlot, Bounds DEF History, Order
            <4>4. CASE i.slot < state.slot
                BY <2>2, <4>2, <4>4 DEF Hushed, Behind
            <4>5. CASE i.slot = state.slot
                <5>1. i = IdOf(state)
                    BY <2>2, <4>2, <4>5 DEF IdOf, Id
                <5>2. state.status # "claimed"
                    BY <2>1, <4>1, <4>3, <5>1, <1>0 DEF Free, Durable, TypeOK
                <5>3. state.status \in Ended \ {"unknown"}
                    BY <1>0, <2>1, <4>3, <5>2 DEF Free, State
                <5> QED BY <2>2, <4>2, <4>5, <5>3 DEF Hushed, OnRecord
            <4>6. state.slot \in Nat
                BY <1>0, Bounds DEF State, Time
            <4> QED BY <1>0, <4>2, <4>4, <4>5, <4>6
        <3> QED BY <3>1, <3>2
    <2>3. ASSUME NEW i \in Id, Behind(i)'
          PROVE  Behind(i) \/ (i.version = version /\ i.slot < Slot)
        <3>1. CASE i.version = version /\ i.slot < Slot
            BY <3>1
        <3>2. ASSUME NEW j \in Id, Used(j)', j.version = i.version, i.slot < j.slot
              PROVE  Behind(i) \/ (i.version = version /\ i.slot < Slot)
            <4>1. Used(j) \/ j = IdOf(state')
                <5>1. \A q \in Runtime \ {r} : pc'[q] = pc[q] /\ Busy(q)' = Busy(q)
                    BY <2>1, <1>2, ClaimIs, <1>0 DEF Busy, TypeOK
                <5> QED BY <2>1, <3>2, <5>1 DEF Used
            <4> QED BY <2>1, <3>2, <4>1 DEF Behind
        <3> QED BY <2>1, <2>3, <3>1, <3>2 DEF Behind
    <2>4. state'.status \notin Ended
        BY <2>1 DEF Ended
    <2> QED BY <2>1, <2>2, <2>3, <2>4 DEF Hushed
<1>3. ASSUME NEW r \in Runtime, Converge(r) PROVE Hushed'
    <2>1. /\ state.status = "claimed" /\ state' = Terminal(state, Durable(IdOf(state)))
          /\ trigger' = [trigger EXCEPT ![IdOf(state)] =
                           IF @ = "absent" THEN @ ELSE Durable(IdOf(state))]
          /\ Durable(IdOf(state)) # "none" /\ UNCHANGED <<plan, last, pc, claim>>
        BY <1>3 DEF Converge, Settled, Expired, opening
    <2>2. PICK k \in Id : k = IdOf(state) /\ k.version = state.version /\ k.slot = state.slot
        BY <2>1, IdOfTyped DEF IInv, TypeOK, Claims
    <2>3. PICK st \in Ended : st = Durable(k)
        BY <2>1, <2>2, DurableTyped DEF IInv
    <2>4. state'.version = state.version /\ state'.slot = state.slot /\ state'.status = st
        BY <1>0, <2>1, <2>2, <2>3, TerminalIs DEF IInv, Claims
    <2>5. \A i \in Id : Used(i)' => Used(i)
        BY <1>0, <2>1, <2>2 DEF Used, Busy, IdOf, TypeOK
    <2>6. plan[k].parts = 1 /\ st # "unknown" => last[k] \notin {"waiting", "unknown"}
        <3>1. last[k] # "none" => 1 \in Parts(k)
            BY DEF History, Traces, TraceOf
        <3> QED BY <2>3, <3>1 DEF Durable
    <2>7. \A i \in Id : OnRecord(i) => i = k
        BY <2>2 DEF OnRecord, IdOf, Id
    <2> QED BY <2>1, <2>4, <2>5, <2>6, <2>7 DEF Hushed, Behind, OnRecord
<1>4. ASSUME NEW r \in Runtime, Speaks(r) PROVE Hushed'
    <2>1. /\ state.status = "claimed" /\ Busy(r).slot = state.slot
          /\ Busy(r).version = state.version /\ Busy(r) \in Id
        BY <1>4, OpenIs DEF Speaks, History
    <2>2. /\ state' = state /\ \A i \in Id : Used(i)' => Used(i)
          /\ \A i \in Id \ {Busy(r)} : last'[i] = last[i] /\ plan'[i] = plan[i]
        BY <1>4 DEF Speaks
    <2>3. ~Behind(Busy(r)) /\ state.status \notin Ended
        BY <2>1, NotBehind DEF OnRecord, History, Ended
    <2> QED BY <2>2, <2>3 DEF Hushed, Behind, OnRecord
<1>5. ASSUME NEW r \in Runtime, Plans(r) PROVE Hushed'
    BY <1>5 DEF Plans, Hushed, Behind, OnRecord
<1>6. ASSUME NEW r \in Runtime, NEW st \in Ended, Ends(r, st) PROVE Hushed'
    <2>1. PICK k \in Id : k = Busy(r)
        BY <1>6, BusyTyped DEF Ends
    <2>2. /\ plan' = plan /\ \A i \in Id : Used(i)' => Used(i)
          /\ \A i \in Id \ {k} : last'[i] = last[i]
          /\ Spoke(k) => last[k] = "waiting"
          /\ ~Spoke(k) => last'[k] = "none"
          /\ last'[k] # "waiting"
          /\ plan[k].parts = 1 /\ last'[k] = "unknown" => st = "unknown"
        BY <1>6, <2>1 DEF Ends
    <2>3. CASE ~Mine(r)
        <3>1. state' = state
            BY <1>6, <2>3 DEF Ends
        <3> QED BY <2>2, <3>1 DEF Hushed, Behind, OnRecord
    <2>4. CASE Mine(r)
        <3>1. state = claim[r] /\ Held(state) /\ k = IdOf(state) /\ state' = Terminal(state, st)
            BY <1>6, <2>1, <2>4, BusyTyped DEF Ends, Mine, Busy, Held
        <3>2. state'.version = state.version /\ state'.slot = state.slot /\ state'.status = st
            BY <1>0, <3>1, TerminalIs
        <3>3. OnRecord(k) /\ ~Behind(k) /\ \A i \in Id : OnRecord(i) => i = k
            <4>1. k.version = state.version /\ k.slot = state.slot
                BY <1>0, <3>1, IdOfTyped
            <4> QED BY <3>1, <4>1, NotBehind DEF OnRecord, History, IdOf, Id
        <3> QED BY <2>2, <3>2, <3>3 DEF Hushed, Behind, OnRecord
    <2> QED BY <2>3, <2>4
<1> QED BY <1>1, <1>2, <1>3, <1>4, <1>5, <1>6, BoxStepIs

(* After an opening of one written part whose delivery nobody knows, no     *)
(* later slot of that silence is used, whoever died meanwhile.              *)
THEOREM Silence == Spec => []UnknownEndsSilence
<1>1. Init => Hushed
    BY DEF Init, Hushed
<1>2. IInv /\ History /\ Hushed /\ [Next]_vars => Hushed'
    BY StepHushed
<1>3. IInv /\ History /\ Hushed => UnknownEndsSilence
    BY SaidIsUsed DEF Hushed, Behind, UnknownEndsSilence
<1> QED BY <1>1, <1>2, <1>3, HistoryHolds, PTL DEF Spec

-----------------------------------------------------------------------------
(* The cap on openings without an answer. *)

LEMMA IdFinite == IsFiniteSet(Id)
<1> DEFINE P == (1..MaxVersion) \X Time
           f == [i \in Id |-> <<i.version, i.slot>>]
<1>1. IsFiniteSet(1..MaxVersion) /\ IsFiniteSet(Time)
    BY FS_Interval, Bounds DEF Time
<1>2. IsFiniteSet(P)
    BY <1>1, FS_Product
<1>3. f \in [Id -> P]
    BY DEF Id
<1>4. \A i, j \in Id : f[i] = f[j] => i = j
    BY DEF Id
<1>5. f \in Injection(Id, P)
    BY <1>3, <1>4 DEF Injection, IsInjective
<1> QED BY <1>2, <1>5, FS_Injection

(* Openings of one written part the platform confirmed or may confirm. *)
Counted(i) ==
    /\ plan[i].parts = 1 /\ plan[i].voice # "only"
    /\ heard[i] \/ last[i] = "waiting"
Openings(v) == {i \in Id : i.version = v /\ Counted(i)}
Earlier == {i \in Openings(state.version) : ~OnRecord(i)}

Tally ==
    /\ \A v \in 1..MaxVersion : Cardinality(Openings(v)) <= Cap
    /\ state.status = "claimed" => Cardinality(Earlier) <= state.unanswered
    /\ state.status \in Ended \ {"unknown"} =>
          Cardinality(Openings(state.version)) <= state.unanswered

LEMMA Sizes ==
    /\ \A S : S \subseteq Id => IsFiniteSet(S) /\ Cardinality(S) \in Nat
    /\ \A S, T : S \subseteq T /\ T \subseteq Id => Cardinality(S) <= Cardinality(T)
    /\ \A S, x : S \subseteq Id => Cardinality(S \cup {x}) <= Cardinality(S) + 1
<1>1. \A S : S \subseteq Id => IsFiniteSet(S) /\ Cardinality(S) \in Nat
    BY IdFinite, FS_Subset, FS_CardinalityType
<1>2. \A S, T : S \subseteq T /\ T \subseteq Id => Cardinality(S) <= Cardinality(T)
    BY <1>1, FS_Subset
<1>3. ASSUME NEW S, NEW x, S \subseteq Id PROVE Cardinality(S \cup {x}) <= Cardinality(S) + 1
    <2>1. IsFiniteSet(S) /\ Cardinality(S) \in Nat
        BY <1>1, <1>3
    <2>2. Cardinality(S \cup {x}) = IF x \in S THEN Cardinality(S) ELSE Cardinality(S) + 1
        BY <2>1, FS_AddElement
    <2> QED BY <2>1, <2>2
<1> QED BY <1>1, <1>2, <1>3

(* Fewer openings than the record allows. *)
LEMMA Fewer ==
    ASSUME NEW S, NEW T, S \subseteq T, T \subseteq Id, NEW n \in Nat, Cardinality(T) <= n
    PROVE  Cardinality(S) <= n
<1>1. Cardinality(S) \in Nat /\ Cardinality(T) \in Nat /\ Cardinality(S) <= Cardinality(T)
    BY Sizes
<1> QED BY <1>1

LEMMA OneMore ==
    ASSUME NEW S, NEW T, NEW k, S \subseteq T \cup {k}, T \subseteq Id, k \in Id,
           NEW n \in Nat, Cardinality(T) <= n
    PROVE  Cardinality(S) <= n + 1
<1>1. Cardinality(T \cup {k}) <= Cardinality(T) + 1 /\ Cardinality(T) \in Nat
      /\ Cardinality(T \cup {k}) \in Nat /\ Cardinality(S) \in Nat
      /\ Cardinality(S) <= Cardinality(T \cup {k})
    BY Sizes
<1> QED BY <1>1

LEMMA CountedSpoke ==
    ASSUME IInv, History, NEW i \in Id, Counted(i)
    PROVE  last[i] \in {"sent", "waiting"} /\ 1 \in Parts(i) /\ trigger[i] # "absent" /\ Used(i)
BY DEF Counted, History, Traces, TraceOf, Used

LEMMA TallyTyped ==
    ASSUME IInv
    PROVE  /\ state \in State /\ state.unanswered \in Nat /\ Cap \in Nat /\ Earlier \subseteq Id
           /\ state.version \in 0..MaxVersion
           /\ \A v : Openings(v) \subseteq Id
           /\ state.status = "claimed" =>
                 state.unanswered < Cap /\ IdOf(state) \in Id /\ OnRecord(IdOf(state))
           /\ \A i \in Id : OnRecord(i) => i = IdOf(state)
<1>1. state \in State /\ state.unanswered \in Nat /\ Cap \in Nat /\ state.version \in 0..MaxVersion
    BY Bounds DEF IInv, TypeOK, State
<1>2. Earlier \subseteq Id /\ \A v : Openings(v) \subseteq Id
    BY DEF Earlier, Openings
<1>3. state.status = "claimed" => state.unanswered < Cap /\ IdOf(state) \in Id /\ OnRecord(IdOf(state))
    BY <1>1, IdOfTyped DEF IInv, Claims, Held, OnRecord
<1>4. \A i \in Id : OnRecord(i) => i = IdOf(state)
    BY DEF OnRecord, IdOf, Id
<1> QED BY <1>1, <1>2, <1>3, <1>4

(* The record does not change and no opening is counted anew. *)
LEMMA SameTally ==
    ASSUME IInv, Tally, state' = state, \A i \in Id : Counted(i)' => Counted(i)
    PROVE  Tally'
<1>1. /\ \A v : Openings(v)' \subseteq Openings(v)
      /\ Openings(state.version)' \subseteq Openings(state.version)
      /\ Earlier' \subseteq Earlier
    BY DEF Openings, Earlier, OnRecord
<1>2. \A v \in 1..MaxVersion : Cardinality(Openings(v)') <= Cap
    BY <1>1, TallyTyped, Fewer DEF Tally
<1>3. state.status = "claimed" => Cardinality(Earlier') <= state.unanswered
    BY <1>1, TallyTyped, Fewer DEF Tally
<1>4. state.status \in Ended \ {"unknown"} =>
          Cardinality(Openings(state.version)') <= state.unanswered
    BY <1>1, TallyTyped, Fewer DEF Tally
<1> QED BY <1>2, <1>3, <1>4 DEF Tally

(* An attempt ends: one that was confirmed is on record as sent. *)
LEMMA EndTally ==
    ASSUME IInv, Tally, NEW st \in Ended, state.status = "claimed", state' = Terminal(state, st),
           \A i \in Id : Counted(i)' => Counted(i),
           NEW k \in Id, k = IdOf(state), Counted(k)' => st \in {"sent", "unknown"}
    PROVE  Tally'
<1>1. /\ state \in State /\ state.unanswered \in Nat /\ state.unanswered < Cap
      /\ \A i \in Id : OnRecord(i) => i = k
    BY TallyTyped
<1>2. /\ state'.status = st /\ state'.version = state.version
      /\ state'.unanswered = IF st = "sent" THEN state.unanswered + 1 ELSE state.unanswered
    BY <1>1, TerminalIs DEF IInv, Claims
<1>3. \A v : Openings(v)' \subseteq Openings(v)
    BY DEF Openings
<1>4. \A v \in 1..MaxVersion : Cardinality(Openings(v)') <= Cap
    BY <1>3, TallyTyped, Fewer DEF Tally
<1>5. /\ Earlier \subseteq Id /\ Cardinality(Earlier) <= state.unanswered
    BY TallyTyped DEF Tally
<1> DEFINE now == Openings(state.version)'
<1>6. now = {i \in Id : i.version = state'.version /\ Counted(i)'}
    BY <1>2 DEF Openings
<1>7. CASE st = "sent"
    <2>1. now \subseteq Earlier \cup {k}
        BY <1>1, <1>2, <1>6 DEF Earlier, Openings
    <2>2. Cardinality(now) <= state.unanswered + 1
        BY <1>1, <1>5, <2>1, OneMore
    <2> QED BY <1>2, <1>4, <1>7, <2>2 DEF Tally, Ended
<1>8. CASE st \notin {"sent", "unknown"}
    <2>1. now \subseteq Earlier
        BY <1>1, <1>2, <1>6, <1>8 DEF Earlier, Openings
    <2>2. Cardinality(now) <= state.unanswered
        BY <1>1, <1>5, <2>1, Fewer
    <2> QED BY <1>2, <1>4, <1>8, <2>2 DEF Tally, Ended
<1>9. CASE st = "unknown"
    BY <1>2, <1>4, <1>9 DEF Tally, Ended
<1> QED BY <1>7, <1>8, <1>9

LEMMA ClaimTally ==
    ASSUME IInv, History, Tally, NEW r \in Runtime, Claim(r)
    PROVE  Tally'
<1>1. /\ state'.version = version /\ state'.status = "claimed" /\ UNCHANGED <<plan, last, heard>>
      /\ state'.unanswered = IF SameAnchor THEN state.unanswered ELSE 0
      /\ state'.unanswered \in Nat /\ version \in Nat /\ version > 0 /\ Free
    BY ClaimIs, Bounds DEF opening
<1>2. \A v : Openings(v)' = Openings(v)
    BY <1>1 DEF Openings, Counted
<1>3. \A v : Openings(v) \subseteq Id
    BY TallyTyped
<1>4. Cardinality(Openings(version)) <= state'.unanswered
    <2>1. CASE SameAnchor
        <3>1. state.version = version /\ state'.unanswered = state.unanswered
            BY <1>1, <2>1 DEF SameAnchor
        <3>2. CASE state.status = "claimed"
            <4>1. Durable(IdOf(state)) = "none" /\ IdOf(state) \in Id
                BY <1>1, <2>1, <3>2, TallyTyped DEF Free
            <4>2. ~Counted(IdOf(state))
                BY <4>1, CountedSpoke DEF Durable, IInv, TypeOK, Ended
            <4>3. Openings(version) \subseteq Earlier
                BY <3>1, <4>2, TallyTyped DEF Earlier, Openings
            <4> QED BY <3>1, <3>2, <4>3, TallyTyped, Fewer DEF Tally
        <3>3. CASE state.status # "claimed"
            <4>1. state.status \in Ended \ {"unknown"}
                BY <1>1, <2>1, <3>1, <3>3, TallyTyped DEF Free, History, Order, State
            <4> QED BY <3>1, <4>1 DEF Tally
        <3> QED BY <3>2, <3>3
    <2>2. CASE ~SameAnchor
        <3>1. ASSUME NEW i \in Openings(version) PROVE FALSE
            <4>1. i \in Id /\ Used(i) /\ i.version = version
                BY <3>1, CountedSpoke DEF Openings
            <4>2. version <= state.version /\ state.version <= version /\ state.version \in Nat
                BY <4>1, TallyTyped, Bounds DEF History, Order
            <4> QED BY <1>1, <2>2, <4>2 DEF SameAnchor, History, Order
        <3>2. Openings(version) = {}
            BY <3>1
        <3> QED BY <1>1, <2>2, <3>2, FS_EmptySet
    <2> QED BY <2>1, <2>2
<1>5. Earlier' \subseteq Openings(version)
    BY <1>1, <1>2 DEF Earlier
<1>6. Cardinality(Earlier') <= state'.unanswered
    BY <1>1, <1>3, <1>4, <1>5, Fewer
<1> QED BY <1>1, <1>2, <1>6 DEF Tally, Ended

LEMMA SpeaksTally ==
    ASSUME IInv, History, Tally, NEW r \in Runtime, Speaks(r)
    PROVE  Tally'
<1>1. /\ state' = state /\ state.status = "claimed" /\ Busy(r) = IdOf(state) /\ Busy(r) \in Id
      /\ OnRecord(Busy(r)) /\ state.unanswered < Cap /\ state.unanswered \in Nat /\ Cap \in Nat
      /\ Earlier \subseteq Id /\ state.status \notin Ended
    BY OpenIs, TallyTyped DEF Speaks, History, OnRecord, Ended
<1>2. \A i \in Id : Counted(i)' => Counted(i) \/ i = Busy(r)
    BY DEF Speaks, Counted
<1>3. Earlier' \subseteq Earlier
    BY <1>1, <1>2 DEF Earlier, Openings, OnRecord
<1>4. Cardinality(Earlier) <= state.unanswered
    BY <1>1 DEF Tally
<1>5. ASSUME NEW v \in 1..MaxVersion PROVE Cardinality(Openings(v)') <= Cap
    <2>1. CASE v = state.version
        <3>1. Openings(v)' \subseteq Earlier \cup {Busy(r)}
            BY <1>1, <1>2, <2>1, TallyTyped DEF Openings, Earlier
        <3>2. Cardinality(Openings(v)') <= state.unanswered + 1
            BY <1>1, <1>4, <3>1, OneMore
        <3>3. Openings(v)' \subseteq Id
            BY DEF Openings
        <3>4. Cardinality(Openings(v)') \in Nat
            BY <3>3, Sizes
        <3> QED BY <1>1, <3>2, <3>4
    <2>2. CASE v # state.version
        <3>1. Openings(v)' \subseteq Openings(v)
            BY <1>1, <1>2, <2>2 DEF Openings, OnRecord
        <3> QED BY <3>1, TallyTyped, Fewer DEF Tally
    <2> QED BY <2>1, <2>2
<1>6. Cardinality(Earlier') <= state.unanswered
    BY <1>1, <1>3, <1>4, Fewer
<1> QED BY <1>1, <1>5, <1>6 DEF Tally

LEMMA StepTally ==
    ASSUME IInv, History, Tally, [Next]_vars
    PROVE  Tally'
<1>1. CASE Stays
    BY <1>1, SameTally DEF Stays, Counted
<1>2. ASSUME NEW r \in Runtime, Converge(r) PROVE Tally'
    <2>1. /\ state.status = "claimed" /\ state' = Terminal(state, Durable(IdOf(state)))
          /\ Durable(IdOf(state)) # "none" /\ UNCHANGED <<plan, last, heard>>
        BY <1>2 DEF Converge, Settled, Expired, opening
    <2>2. PICK k \in Id : k = IdOf(state)
        BY <2>1, TallyTyped
    <2>3. PICK st \in Ended : st = Durable(k)
        BY <2>1, <2>2, DurableTyped DEF IInv
    <2>4. \A i \in Id : Counted(i)' => Counted(i)
        BY <2>1 DEF Counted
    <2>5. Counted(k)' => st \in {"sent", "unknown"}
        <3>1. Counted(k) => last[k] \in {"sent", "waiting"} /\ plan[k].parts \in Parts(k)
            BY CountedSpoke DEF Counted
        <3> QED BY <2>3, <2>4, <3>1 DEF Durable
    <2> QED BY <2>1, <2>2, <2>3, <2>4, <2>5, EndTally
<1>3. ASSUME NEW r \in Runtime, Plans(r) PROVE Tally'
    <2>1. \A i \in Id : Counted(i)' => Counted(i)
        BY <1>3 DEF Plans, Counted
    <2> QED BY <1>3, <2>1, SameTally DEF Plans
<1>4. ASSUME NEW r \in Runtime, NEW st \in Ended, Ends(r, st) PROVE Tally'
    <2>1. PICK k \in Id : k = Busy(r)
        BY <1>4, BusyTyped DEF Ends
    <2>2. /\ plan' = plan /\ last'[k] # "waiting"
          /\ \A i \in Id \ {k} : last'[i] = last[i] /\ heard'[i] = heard[i]
          /\ plan[k].parts = 1 /\ plan[k].voice # "only" /\ heard'[k] => st = "sent" /\ last[k] = "waiting"
        BY <1>4, <2>1 DEF Ends
    <2>3. (\A i \in Id : Counted(i)' => Counted(i)) /\ (Counted(k)' => st = "sent")
        BY <2>2 DEF Counted
    <2>4. CASE ~Mine(r)
        BY <1>4, <2>3, <2>4, SameTally DEF Ends
    <2>5. CASE Mine(r)
        <3>1. state.status = "claimed" /\ IdOf(state) = k /\ state' = Terminal(state, st)
            BY <1>4, <2>1, <2>5, BusyTyped DEF Ends, Mine, Busy, Held
        <3> QED BY <2>3, <3>1, EndTally
    <2> QED BY <2>4, <2>5
<1> QED BY <1>1, <1>2, <1>3, <1>4, ClaimTally, SpeaksTally, BoxStepIs

(* The cap on openings left without an answer counts each one of a single   *)
(* written part the platform confirmed, whoever dies before it is recorded. *)
THEOREM Capped == Spec => []CapHolds
<1>1. Init => Tally
    <2> SUFFICES ASSUME Init PROVE Tally
        OBVIOUS
    <2>1. \A v : Openings(v) = {}
        BY DEF Init, Openings, Counted
    <2>2. state.status = "none"
        BY DEF Init, NoState
    <2>3. \A v : Cardinality(Openings(v)) <= Cap
        BY <2>1, FS_EmptySet, Bounds
    <2> QED BY <2>2, <2>3 DEF Tally, Ended
<1>2. IInv /\ History /\ Tally /\ [Next]_vars => Tally'
    BY StepTally
<1>3. IInv /\ Tally => CapHolds
    <2> SUFFICES ASSUME IInv, Tally, NEW v \in 1..MaxVersion
                 PROVE  Cardinality({i \in Id : /\ i.version = v /\ heard[i]
                              /\ plan[i].parts = 1 /\ plan[i].voice # "only"}) <= Cap
        BY DEF CapHolds
    <2> DEFINE S == {i \in Id : /\ i.version = v /\ heard[i]
                              /\ plan[i].parts = 1 /\ plan[i].voice # "only"}
    <2>1. S \subseteq Openings(v) /\ Openings(v) \subseteq Id
        BY DEF Openings, Counted
    <2>2. Cardinality(Openings(v)) <= Cap /\ Cap \in Nat
        BY Bounds DEF Tally
    <2> HIDE DEF S
    <2>3. Cardinality(S) <= Cap
        BY <2>1, <2>2, Fewer
    <2> QED BY <2>3 DEF S
<1> QED BY <1>1, <1>2, <1>3, HistoryHolds, PTL DEF Spec
=============================================================================

----------------------------- MODULE TurnProofs -----------------------------
(***************************************************************************)
(* Theorems about Turn, for any messages, openings, parts, handlers at     *)
(* once and crashes.                                                       *)
(***************************************************************************)
EXTENDS Turn, FiniteSetTheorems, TLAPS

(* The lock: its queue holds each running turn once, and whoever is past    *)
(* the lock stands at its head.                                             *)
QueueRuns ==
    /\ \A i \in 1..Len(queue) : at[queue[i]] \in Running
    /\ \A t \in Turns : at[t] \in Running => \E i \in 1..Len(queue) : queue[i] = t
QueueOnce == \A i, j \in 1..Len(queue) : queue[i] = queue[j] => i = j
HeadSpeaks == \A t \in Turns : at[t] \in Suspended => Len(queue) > 0 /\ queue[1] = t

(* Messages wait in the order of their versions. *)
InOrder ==
    \A i, j \in 1..Len(queue) :
        queue[i] \in Message /\ queue[j] \in Message /\ i < j => seq[queue[i]] < seq[queue[j]]

Lock == QueueRuns /\ QueueOnce /\ HeadSpeaks /\ InOrder

(* Only what has a version runs or ran. *)
Started == \A t \in Turns : at[t] # "none" => seq[t] # 0

Typed == TypeOK /\ IsFiniteSet(said)

-----------------------------------------------------------------------------
(* Types. *)

LEMMA InitTyped == Init => Typed
<1> SUFFICES ASSUME Init PROVE Typed
    OBVIOUS
<1>1. IsFiniteSet(said)
    BY FS_EmptySet DEF Init
<1>2. plan \in [Turns -> Plan \cup {NoPlan}]
    BY DEF Init
<1>3. at \in [Turns -> {"none"} \cup Running \cup Over]
    BY DEF Init
<1>4. crashes \in 0..MaxCrashes
    BY TurnAssumption DEF Init
<1> QED BY <1>1, <1>2, <1>3, <1>4 DEF Init, Typed, TypeOK

LEMMA PlanParts ==
    ASSUME NEW p \in Plan \cup {NoPlan}
    PROVE  p.parts \in 0..MaxParts
BY TurnAssumption DEF Plan, NoPlan

LEMMA PlanSpeaks ==
    ASSUME NEW p \in Plan
    PROVE  p.parts \in 1..MaxParts
BY TurnAssumption DEF Plan

(* What is said stays a finite set of utterances. *)
LEMMA SaidTyped ==
    ASSUME Typed, NEW t \in Turns, NEW what \in Words \cup {"poke", "notice"},
           NEW part \in 1..MaxParts
    PROVE  /\ Uttered(t, what, part) \subseteq Utterance
           /\ IsFiniteSet(Uttered(t, what, part))
           /\ IsFiniteSet(said \cup Uttered(t, what, part))
<1>1. version \in Nat /\ seq[t] \in Nat
    BY DEF Typed, TypeOK
<1>2. (version > seq[t]) \in BOOLEAN
    BY <1>1
<1>3. Uttered(t, what, part) \subseteq Utterance
    BY <1>2 DEF Uttered, Utterance
<1>4. IsFiniteSet(Uttered(t, what, part))
    BY FS_Singleton DEF Uttered
<1>5. IsFiniteSet(said \cup Uttered(t, what, part))
    BY <1>4, FS_Union DEF Typed
<1> QED BY <1>3, <1>4, <1>5

(* A turn never reaches beyond its parts. *)
LEMMA ReachedParts ==
    ASSUME Typed, NEW t \in Turns, Reached(t) < plan[t].parts
    PROVE  Reached(t) + 1 \in 1..MaxParts
<1>1. IsFiniteSet({u \in said : u.turn = t /\ u.what = "text"})
    BY FS_Subset DEF Typed
<1>2. Reached(t) \in Nat
    BY <1>1, FS_CardinalityType DEF Reached
<1>3. plan[t].parts \in 0..MaxParts
    BY PlanParts DEF Typed, TypeOK
<1> QED BY <1>2, <1>3, TurnAssumption

LEMMA MarkTyped ==
    ASSUME Typed, NEW t \in Turns, Mark(t) \/ GiveUp(t)
    PROVE  watermark' \in 0..version
<1>1. watermark \in 0..version /\ seq[t] \in 0..version /\ version \in Nat
    BY DEF Typed, TypeOK
<1> QED BY <1>1 DEF Mark, GiveUp

LEMMA StayTyped ==
    ASSUME Typed, NEW t \in Turns, NEW where \in Running, Stay(t, where)
    PROVE  at' \in [Turns -> {"none"} \cup Running \cup Over] /\ queue' \in Seq(Turns)
BY DEF Typed, TypeOK, Stay

LEMMA LeaveTyped ==
    ASSUME Typed, NEW t \in Turns, NEW how \in Over, queue # << >>, Leave(t, how)
    PROVE  at' \in [Turns -> {"none"} \cup Running \cup Over] /\ queue' \in Seq(Turns)
<1>1. Tail(queue) \in Seq(Turns)
    BY DEF Typed, TypeOK
<1> QED BY <1>1 DEF Typed, TypeOK, Leave

LEMMA ReceiveTyped ==
    ASSUME Typed, Receive
    PROVE  Typed'
<1> DEFINE m == Head(stream)
<1>1. stream \in Seq(Message) /\ stream # << >> /\ m \in Message /\ m \in Turns
    BY DEF Typed, TypeOK, Receive, Turns
<1>2. Tail(stream) \in Seq(Message)
    BY <1>1
<1>3. CASE seq[m] # 0
    BY <1>2, <1>3 DEF Typed, TypeOK, Receive, process
<1>4. CASE seq[m] = 0
    <2>1. version \in Nat /\ version' = version + 1 /\ 0..version \subseteq 0..version'
        BY <1>4 DEF Typed, TypeOK, Receive
    <2>2. seq' \in [Turns -> 0..version']
        BY <1>1, <1>4, <2>1 DEF Typed, TypeOK, Receive
    <2>5. at' = [at EXCEPT ![m] = "queued"] /\ queue' = Append(queue, m)
        BY <1>4 DEF Receive
    <2>6. queue' \in Seq(Turns)
        BY <1>1, <2>5 DEF Typed, TypeOK
    <2>3. at' \in [Turns -> {"none"} \cup Running \cup Over] /\ queue' \in Seq(Turns)
        BY <1>1, <2>5, <2>6 DEF Typed, TypeOK, Running
    <2>4. status' \in [Message -> {"absent", "received", "failed"}]
        BY <1>1, <1>4 DEF Typed, TypeOK, Receive
    <2> QED BY <1>2, <2>1, <2>2, <2>3, <2>4 DEF Typed, TypeOK, Receive, process
<1> QED BY <1>3, <1>4

LEMMA OpenTyped ==
    ASSUME Typed, NEW o \in Opening, Open(o)
    PROVE  Typed'
<1>1. o \in Turns
    BY DEF Turns
<1>2. queue' \in Seq(Turns) /\ at' \in [Turns -> {"none"} \cup Running \cup Over]
    BY <1>1 DEF Typed, TypeOK, Open, Running
<1>3. seq' \in [Turns -> 0..version]
    BY <1>1 DEF Typed, TypeOK, Open
<1> QED BY <1>2, <1>3 DEF Typed, TypeOK, Open, process

(* The head of the queue moves on or leaves: what both do keeps the types.  *)
LEMMA AdvanceTyped ==
    ASSUME Typed, NEW t \in Turns, queue # << >>, Advance(t)
    PROVE  Typed'
<1>1. 1 \in 1..MaxParts
    BY TurnAssumption
<1>2. {"done", "raised"} \subseteq Over /\ Suspended \subseteq Running
    BY DEF Over, Running
<1>3. {"poke", "notice", "text", "voice"} \subseteq Words \cup {"poke", "notice"}
    BY DEF Words
<1>4. /\ version \in Nat /\ seq \in [Turns -> 0..version] /\ watermark \in 0..version
      /\ said \subseteq Utterance /\ IsFiniteSet(said)
    BY DEF Typed, TypeOK
<1>5. CASE Enter(t)
    <2>1. at' \in [Turns -> {"none"} \cup Running \cup Over] /\ queue' \in Seq(Turns)
        BY <1>2, <1>5, StayTyped, LeaveTyped DEF Enter, Suspended
    <2>2. watermark' \in 0..version
        BY <1>4, <1>5, MarkTyped DEF Enter
    <2>3. said' \subseteq Utterance /\ IsFiniteSet(said')
        BY <1>1, <1>3, <1>4, <1>5, SaidTyped DEF Enter, Utter
    <2> QED BY <1>5, <2>1, <2>2, <2>3 DEF Enter, Typed, TypeOK, inbound, process
<1>6. CASE PokeAnswered(t)
    <2>1. at' \in [Turns -> {"none"} \cup Running \cup Over] /\ queue' \in Seq(Turns)
        BY <1>2, <1>6, StayTyped, LeaveTyped DEF PokeAnswered, Suspended
    <2>2. watermark' \in 0..version
        BY <1>4, <1>6, MarkTyped DEF PokeAnswered
    <2> QED BY <1>6, <2>1, <2>2 DEF PokeAnswered, Typed, TypeOK, inbound, process
<1>7. CASE Fail(t)
    <2>1. at' \in [Turns -> {"none"} \cup Running \cup Over] /\ queue' \in Seq(Turns)
        BY <1>2, <1>7, StayTyped DEF Fail, Suspended
    <2>2. watermark' \in 0..version
        BY <1>4, <1>7, MarkTyped DEF Fail
    <2>3. said' \subseteq Utterance /\ IsFiniteSet(said')
        BY <1>1, <1>3, <1>4, <1>7, SaidTyped DEF Fail, Utter
    <2>4. status' \in [Message -> {"absent", "received", "failed"}]
        BY <1>7 DEF Fail, Typed, TypeOK
    <2> QED BY <1>7, <2>1, <2>2, <2>3, <2>4 DEF Fail, Typed, TypeOK, inbound, process
<1>8. CASE NoticeAnswered(t) \/ Raise(t) \/ Skip(t)
    <2>1. at' \in [Turns -> {"none"} \cup Running \cup Over] /\ queue' \in Seq(Turns)
        BY <1>2, <1>8, LeaveTyped DEF NoticeAnswered, Raise, Skip
    <2> QED BY <1>8, <2>1 DEF NoticeAnswered, Raise, Skip, Typed, TypeOK, inbound, process
<1>9. ASSUME NEW p \in Plan, Reply(t, p) PROVE Typed'
    <2>1. at' \in [Turns -> {"none"} \cup Running \cup Over] /\ queue' \in Seq(Turns)
        BY <1>2, <1>9, StayTyped, LeaveTyped DEF Reply, Suspended
    <2>2. watermark' \in 0..version
        BY <1>4, <1>9, MarkTyped DEF Reply
    <2>3. said' \subseteq Utterance /\ IsFiniteSet(said')
        BY <1>1, <1>3, <1>4, <1>9, SaidTyped DEF Reply, Utter
    <2>4. plan' \in [Turns -> Plan \cup {NoPlan}]
        BY <1>9 DEF Reply, Typed, TypeOK
    <2> QED BY <1>9, <2>1, <2>2, <2>3, <2>4 DEF Reply, Typed, TypeOK, inbound, process
<1>10. CASE PartSent(t)
    <2>1. at' \in [Turns -> {"none"} \cup Running \cup Over] /\ queue' \in Seq(Turns)
        BY <1>2, <1>10, StayTyped, LeaveTyped DEF PartSent, Suspended
    <2>2. watermark' \in 0..version
        BY <1>4, <1>10, MarkTyped DEF PartSent
    <2>3. Reached(t) + 1 \in 1..MaxParts
        BY <1>10, ReachedParts DEF PartSent
    <2>4. said' \subseteq Utterance /\ IsFiniteSet(said')
        BY <1>3, <1>4, <1>10, <2>3, SaidTyped DEF PartSent, Utter
    <2> QED BY <1>10, <2>1, <2>2, <2>4 DEF PartSent, Typed, TypeOK, inbound, process
<1>11. CASE TextsOver(t)
    <2>1. at' \in [Turns -> {"none"} \cup Running \cup Over] /\ queue' \in Seq(Turns)
        BY <1>2, <1>11, LeaveTyped DEF TextsOver
    <2>2. watermark' \in 0..version
        BY <1>11, MarkTyped DEF TextsOver
    <2>3. tails' \subseteq Turns
        BY <1>11 DEF TextsOver, Typed, TypeOK
    <2> QED BY <1>11, <2>1, <2>2, <2>3 DEF TextsOver, Typed, TypeOK, inbound, process
<1>12. ASSUME NEW heard \in BOOLEAN, NEW known \in BOOLEAN, VoiceAnswered(t, heard, known)
       PROVE  Typed'
    <2>1. at' \in [Turns -> {"none"} \cup Running \cup Over] /\ queue' \in Seq(Turns)
        BY <1>2, <1>12, StayTyped, LeaveTyped DEF VoiceAnswered, Suspended
    <2>2. watermark' \in 0..version
        BY <1>4, <1>12, MarkTyped DEF VoiceAnswered
    <2>3. /\ Uttered(t, "voice", 1) \subseteq Utterance /\ IsFiniteSet(Uttered(t, "voice", 1))
          /\ Uttered(t, "text", 1) \subseteq Utterance /\ IsFiniteSet(Uttered(t, "text", 1))
          /\ IsFiniteSet({})
        BY <1>1, <1>3, SaidTyped, FS_EmptySet
    <2>4. IsFiniteSet(said \cup Uttered(t, "voice", 1)) /\ IsFiniteSet(said \cup {})
        BY <1>4, <2>3, FS_Union
    <2>5. /\ IsFiniteSet((said \cup Uttered(t, "voice", 1)) \cup Uttered(t, "text", 1))
          /\ IsFiniteSet((said \cup {}) \cup Uttered(t, "text", 1))
        BY <2>3, <2>4, FS_Union
    <2>6. said' \subseteq Utterance /\ IsFiniteSet(said')
        BY <1>4, <1>12, <2>3, <2>4, <2>5 DEF VoiceAnswered
    <2> QED BY <1>12, <2>1, <2>2, <2>6 DEF VoiceAnswered, Typed, TypeOK, inbound, process
<1> QED BY <1>5, <1>6, <1>7, <1>8, <1>9, <1>10, <1>11, <1>12 DEF Advance

LEMMA CrashTyped ==
    ASSUME Typed, Crash
    PROVE  Typed'
<1>1. crashes' \in 0..MaxCrashes
    BY TurnAssumption DEF Typed, TypeOK, Crash
<1>2. at' \in [Turns -> {"none"} \cup Running \cup Over]
    BY DEF Typed, TypeOK, Crash, Over
<1> QED BY <1>1, <1>2 DEF Typed, TypeOK, Crash

LEMMA TailTyped ==
    ASSUME Typed, NEW t \in Turns, VoiceTail(t) \/ VoiceTailBreaks(t)
    PROVE  Typed'
<1>1. 1 \in 1..MaxParts /\ "voice" \in Words \cup {"poke", "notice"}
    BY TurnAssumption DEF Words
<1>2. said' \subseteq Utterance /\ IsFiniteSet(said')
    BY <1>1, SaidTyped DEF VoiceTail, VoiceTailBreaks, Utter, Typed, TypeOK
<1> QED BY <1>2 DEF VoiceTail, VoiceTailBreaks, Typed, TypeOK, inbound, process

LEMMA PushTyped ==
    ASSUME Typed, NEW m \in Message, Push(m)
    PROVE  Typed'
BY DEF Typed, TypeOK, Push, process

LEMMA RestartTyped ==
    ASSUME Typed, Restart
    PROVE  Typed'
BY DEF Typed, TypeOK, Restart, inbound

-----------------------------------------------------------------------------
(* The lock. *)

LEMMA TailFacts ==
    ASSUME NEW S, NEW s \in Seq(S), s # << >>
    PROVE  /\ Tail(s) \in Seq(S) /\ Len(s) \in Nat \ {0}
           /\ Len(Tail(s)) = Len(s) - 1
           /\ \A i \in 1..Len(s) - 1 : Tail(s)[i] = s[i + 1]
           /\ Head(s) = s[1]
OBVIOUS

LEMMA AppendFacts ==
    ASSUME NEW S, NEW s \in Seq(S), NEW x \in S
    PROVE  /\ Append(s, x) \in Seq(S) /\ Len(s) \in Nat
           /\ Len(Append(s, x)) = Len(s) + 1
           /\ \A i \in 1..Len(s) : Append(s, x)[i] = s[i]
           /\ Append(s, x)[Len(s) + 1] = x
OBVIOUS

LEMMA QueueTyped ==
    ASSUME Typed
    PROVE  queue \in Seq(Turns) /\ Len(queue) \in Nat /\ \A i \in 1..Len(queue) : queue[i] \in Turns
BY DEF Typed, TypeOK

(* A turn past the lock, or one that enters, is the head of the queue. *)
LEMMA HeadIsTurn ==
    ASSUME Typed, Lock, NEW t \in Turns,
           at[t] \in Suspended \/ (at[t] = "queued" /\ Head(queue) = t)
    PROVE  queue # << >> /\ queue[1] = t /\ at[t] \in Running
<1>1. at[t] \in Running
    BY DEF Running
<1>2. Len(queue) > 0
    BY <1>1, QueueTyped DEF Lock, QueueRuns
<1>3. queue # << >>
    BY <1>2, QueueTyped
<1>4. Head(queue) = queue[1]
    BY <1>3, QueueTyped, TailFacts
<1> QED BY <1>1, <1>3, <1>4 DEF Lock, HeadSpeaks

LEMMA LockStays ==
    ASSUME Typed, Lock, NEW t \in Turns, queue # << >>, queue[1] = t, at[t] \in Running,
           NEW where \in Running, Stay(t, where), seq' = seq
    PROVE  Lock'
<1> USE QueueTyped
<1>0. Len(queue) > 0
    BY TailFacts
<1>1. queue' = queue /\ at' = [at EXCEPT ![t] = where] /\ at \in [Turns -> {"none"} \cup Running \cup Over]
    BY DEF Stay, Typed, TypeOK
<1>2. QueueRuns'
    BY <1>1 DEF Lock, QueueRuns
<1>3. QueueOnce' /\ InOrder'
    BY <1>1 DEF Lock, QueueOnce, InOrder
<1>4. HeadSpeaks'
    BY <1>0, <1>1 DEF Lock, HeadSpeaks
<1> QED BY <1>2, <1>3, <1>4 DEF Lock

LEMMA LockLeaves ==
    ASSUME Typed, Lock, NEW t \in Turns, queue # << >>, queue[1] = t,
           NEW how \in Over, Leave(t, how), seq' = seq
    PROVE  Lock'
<1> USE QueueTyped
<1>1. at' = [at EXCEPT ![t] = how] /\ queue' = Tail(queue)
      /\ at \in [Turns -> {"none"} \cup Running \cup Over]
    BY DEF Leave, Typed, TypeOK
<1>2. /\ Len(queue) \in Nat \ {0} /\ Len(queue') = Len(queue) - 1
      /\ \A i \in 1..Len(queue') : queue'[i] = queue[i + 1] /\ i + 1 \in 1..Len(queue)
    BY <1>1, TailFacts
<1>3. how \notin Running
    BY DEF Over, Running, Suspended
<1>4. \A i \in 1..Len(queue') : queue'[i] \in Turns /\ queue'[i] # t
    BY <1>2 DEF Lock, QueueOnce
<1>5. \A i \in 1..Len(queue') : at'[queue'[i]] \in Running
    BY <1>1, <1>2, <1>4 DEF Lock, QueueRuns
<1>6. ASSUME NEW u \in Turns, at'[u] \in Running
      PROVE  \E i \in 1..Len(queue') : queue'[i] = u
    <2>1. u # t /\ at[u] \in Running
        BY <1>1, <1>3, <1>6
    <2>2. PICK j \in 1..Len(queue) : queue[j] = u
        BY <2>1 DEF Lock, QueueRuns
    <2>3. j # 1
        BY <2>1, <2>2
    <2>4. j - 1 \in 1..Len(queue')
        BY <1>2, <2>3
    <2>5. queue'[j - 1] = u
        BY <1>2, <2>2, <2>4
    <2> QED BY <2>4, <2>5
<1>7. QueueRuns'
    BY <1>5, <1>6 DEF QueueRuns
<1>8. QueueOnce'
    BY <1>2 DEF Lock, QueueOnce
<1>9. InOrder'
    BY <1>2 DEF Lock, InOrder
<1>10. HeadSpeaks'
    <2>1. \A u \in Turns : u # t => at'[u] = at[u]
        BY <1>1
    <2>2. \A u \in Turns : at[u] \in Suspended => u = t
        BY DEF Lock, HeadSpeaks
    <2>3. how \notin Suspended /\ at'[t] = how
        BY <1>1, <1>3 DEF Running
    <2> QED BY <2>1, <2>2, <2>3 DEF HeadSpeaks
<1> QED BY <1>7, <1>8, <1>9, <1>10 DEF Lock

(* A new turn waits behind the others; a message is newer than they are.    *)
LEMMA LockGrows ==
    ASSUME Typed, Lock, NEW t \in Turns, at[t] = "none", NEW v \in Nat,
           at' = [at EXCEPT ![t] = "queued"], queue' = Append(queue, t),
           seq' = [seq EXCEPT ![t] = v],
           t \in Message => \A u \in Turns : seq[u] < v
    PROVE  Lock'
<1> USE QueueTyped
<1>1. at \in [Turns -> {"none"} \cup Running \cup Over] /\ seq \in [Turns -> Nat]
    BY DEF Typed, TypeOK
<1>2. /\ Len(queue) \in Nat /\ Len(queue') = Len(queue) + 1
      /\ \A i \in 1..Len(queue) : queue'[i] = queue[i]
      /\ queue'[Len(queue) + 1] = t
    BY AppendFacts
<1>3. "none" \notin Running /\ "queued" \in Running /\ "queued" \notin Suspended
    BY DEF Running, Suspended
<1>4. \A i \in 1..Len(queue) : queue[i] # t
    BY <1>3 DEF Lock, QueueRuns
<1>5. \A i \in 1..Len(queue') : i \in 1..Len(queue) \/ i = Len(queue) + 1
    BY <1>2
<1>6. QueueRuns'
    <2>1. \A i \in 1..Len(queue') : at'[queue'[i]] \in Running
        BY <1>1, <1>2, <1>3, <1>4, <1>5 DEF Lock, QueueRuns
    <2>2. ASSUME NEW u \in Turns, at'[u] \in Running
          PROVE  \E i \in 1..Len(queue') : queue'[i] = u
        <3>1. CASE u = t
            <4>1. Len(queue) + 1 \in 1..Len(queue')
                BY <1>2
            <4> QED BY <1>2, <3>1, <4>1
        <3>2. CASE u # t
            <4>1. PICK i \in 1..Len(queue) : queue[i] = u
                BY <1>1, <2>2, <3>2 DEF Lock, QueueRuns
            <4>2. i \in 1..Len(queue')
                BY <1>2
            <4> QED BY <1>2, <4>1, <4>2
        <3> QED BY <3>1, <3>2
    <2> QED BY <2>1, <2>2 DEF QueueRuns
<1>7. QueueOnce'
    BY <1>2, <1>4, <1>5 DEF Lock, QueueOnce
<1>8. HeadSpeaks'
    <2>1. \A u \in Turns : at'[u] \in Suspended => u # t /\ at[u] \in Suspended
        BY <1>1, <1>3
    <2>2. Len(queue) > 0 => queue'[1] = queue[1] /\ Len(queue') > 0
        BY <1>2
    <2> QED BY <2>1, <2>2 DEF Lock, HeadSpeaks
<1>9. InOrder'
    <2> SUFFICES ASSUME NEW i \in 1..Len(queue'), NEW j \in 1..Len(queue'),
                        queue'[i] \in Message, queue'[j] \in Message, i < j
                 PROVE  seq'[queue'[i]] < seq'[queue'[j]]
        BY DEF InOrder
    <2>1. i \in 1..Len(queue)
        BY <1>2
    <2>2. queue'[i] = queue[i] /\ queue[i] # t /\ queue[i] \in Turns
        BY <1>2, <1>4, <2>1
    <2>3. CASE j \in 1..Len(queue)
        <3>1. queue'[j] = queue[j] /\ queue[j] # t /\ queue[j] \in Turns
            BY <1>2, <1>4, <2>3
        <3> QED BY <1>1, <2>1, <2>2, <2>3, <3>1 DEF Lock, InOrder
    <2>4. CASE j = Len(queue) + 1
        BY <1>1, <1>2, <2>2, <2>4
    <2> QED BY <1>5, <2>3, <2>4
<1> QED BY <1>6, <1>7, <1>8, <1>9 DEF Lock

LEMMA LockFalls ==
    ASSUME Typed, Crash
    PROVE  Lock'
<1>1. queue' = << >> /\ Len(queue') = 0
    BY DEF Crash
<1>2. \A t \in Turns : at'[t] \notin Running /\ at'[t] \notin Suspended
    BY DEF Crash, Running, Suspended
<1> QED BY <1>1, <1>2 DEF Lock, QueueRuns, QueueOnce, HeadSpeaks, InOrder

(* What the head of the queue does keeps the lock, whatever it does. *)
LEMMA AdvanceKeepsLock ==
    ASSUME Typed, Lock, NEW t \in Turns, Advance(t)
    PROVE  /\ Lock'
           /\ queue # << >> /\ queue[1] = t /\ at[t] \in Running
           /\ \/ \E where \in Suspended : Stay(t, where)
              \/ \E how \in {"done", "raised"} : Leave(t, how)
           /\ UNCHANGED inbound
<1>1. at[t] \in Suspended \/ (at[t] = "queued" /\ Head(queue) = t)
    BY DEF Advance, Enter, PokeAnswered, Fail, NoticeAnswered, Raise, Reply, Skip, PartSent,
           TextsOver, VoiceAnswered, Suspended
<1>2. queue # << >> /\ queue[1] = t /\ at[t] \in Running
    BY <1>1, HeadIsTurn
<1>3. \/ \E where \in Suspended : Stay(t, where)
      \/ \E how \in {"done", "raised"} : Leave(t, how)
    BY DEF Advance, Enter, PokeAnswered, Fail, NoticeAnswered, Raise, Reply, Skip, PartSent,
           TextsOver, VoiceAnswered, Suspended
<1>4. UNCHANGED inbound
    BY DEF Advance, Enter, PokeAnswered, Fail, NoticeAnswered, Raise, Reply, Skip, PartSent,
           TextsOver, VoiceAnswered
<1>5. seq' = seq
    BY <1>4 DEF inbound
<1>6. Lock'
    BY <1>2, <1>3, <1>5, LockStays, LockLeaves DEF Over, Running
<1> QED BY <1>2, <1>3, <1>4, <1>6

-----------------------------------------------------------------------------
(* The inductive invariant: types, the lock, and versions of what runs.    *)
Base == Typed /\ Lock /\ Started

LEMMA InitBase == Init => Base
<1> SUFFICES ASSUME Init PROVE Base
    OBVIOUS
<1>1. queue = << >> /\ Len(queue) = 0
    BY DEF Init
<1>2. \A t \in Turns : at[t] = "none" /\ at[t] \notin Running /\ at[t] \notin Suspended
    BY DEF Init, Running, Suspended
<1>3. Lock
    BY <1>1, <1>2 DEF Lock, QueueRuns, QueueOnce, HeadSpeaks, InOrder
<1> QED BY <1>2, <1>3, InitTyped DEF Base, Started

LEMMA ReceiveBase ==
    ASSUME Base, Receive
    PROVE  Base'
<1> DEFINE m == Head(stream)
<1>1. Typed'
    BY ReceiveTyped DEF Base
<1>2. m \in Turns /\ m \in Message
    BY DEF Base, Typed, TypeOK, Receive, Turns
<1>3. CASE seq[m] # 0
    BY <1>1, <1>3 DEF Base, Lock, QueueRuns, QueueOnce, HeadSpeaks, InOrder, Started, Receive
<1>4. CASE seq[m] = 0
    <2>1. /\ at' = [at EXCEPT ![m] = "queued"] /\ queue' = Append(queue, m)
          /\ seq' = [seq EXCEPT ![m] = version + 1]
        BY <1>4 DEF Receive
    <2>2. at[m] = "none"
        BY <1>2, <1>4 DEF Base, Started
    <2>3. version + 1 \in Nat /\ version + 1 # 0 /\ \A u \in Turns : seq[u] < version + 1
        BY DEF Base, Typed, TypeOK
    <2>4. Lock'
        BY <1>2, <2>1, <2>2, <2>3, LockGrows DEF Base
    <2>5. Started'
        BY <1>2, <2>1, <2>3 DEF Base, Typed, TypeOK, Started
    <2> QED BY <1>1, <2>4, <2>5 DEF Base
<1> QED BY <1>3, <1>4

LEMMA OpenBase ==
    ASSUME Base, NEW o \in Opening, Open(o)
    PROVE  Base'
<1>1. Typed'
    BY OpenTyped DEF Base
<1>2. o \in Turns /\ o \notin Message
    BY TurnAssumption DEF Turns
<1>3. version \in Nat /\ version # 0
    BY DEF Base, Typed, TypeOK, Open
<1>4. Lock'
    BY <1>2, <1>3, LockGrows DEF Base, Open
<1>5. Started'
    BY <1>2, <1>3 DEF Base, Typed, TypeOK, Started, Open
<1> QED BY <1>1, <1>4, <1>5 DEF Base

LEMMA AdvanceBase ==
    ASSUME Base, NEW t \in Turns, Advance(t)
    PROVE  Base'
<1>1. /\ Lock' /\ queue # << >> /\ at[t] \in Running
      /\ \/ \E where \in Suspended : Stay(t, where)
         \/ \E how \in {"done", "raised"} : Leave(t, how)
      /\ UNCHANGED inbound
    BY AdvanceKeepsLock DEF Base
<1>2. Typed'
    BY <1>1, AdvanceTyped DEF Base
<1>3. seq[t] # 0
    BY <1>1 DEF Base, Started, Running, Suspended
<1>4. Started'
    BY <1>1, <1>3 DEF Base, Typed, TypeOK, Started, Stay, Leave, inbound
<1> QED BY <1>1, <1>2, <1>4 DEF Base

LEMMA CrashBase ==
    ASSUME Base, Crash
    PROVE  Base'
<1>1. Typed' /\ Lock'
    BY CrashTyped, LockFalls DEF Base
<1>2. Started'
    BY DEF Base, Started, Crash, Running, Suspended
<1> QED BY <1>1, <1>2 DEF Base

(* What touches neither the queue nor a handler keeps the lock. *)
LEMMA BesideTheLock ==
    ASSUME Base, Typed', UNCHANGED <<queue, at, seq>>
    PROVE  Base'
BY DEF Base, Lock, QueueRuns, QueueOnce, HeadSpeaks, InOrder, Started

LEMMA StepBase ==
    ASSUME Base, [Next]_vars
    PROVE  Base'
<1>1. CASE UNCHANGED vars
    <2>1. Typed'
        BY <1>1 DEF vars, inbound, process, Base, Typed, TypeOK
    <2> QED BY <1>1, <2>1, BesideTheLock DEF vars, inbound
<1>2. ASSUME NEW m \in Message, Push(m) PROVE Base'
    BY <1>2, PushTyped, BesideTheLock DEF Base, Push
<1>3. CASE Receive
    BY <1>3, ReceiveBase
<1>4. ASSUME NEW o \in Opening, Open(o) PROVE Base'
    BY <1>4, OpenBase
<1>5. ASSUME NEW t \in Turns, Advance(t) PROVE Base'
    BY <1>5, AdvanceBase
<1>6. ASSUME NEW t \in Turns, VoiceTail(t) \/ VoiceTailBreaks(t) PROVE Base'
    BY <1>6, TailTyped, BesideTheLock DEF Base, VoiceTail, VoiceTailBreaks, inbound
<1>7. CASE Crash
    BY <1>7, CrashBase
<1>8. CASE Restart
    BY <1>8, RestartTyped, BesideTheLock DEF Base, Restart, inbound
<1> QED BY <1>1, <1>2, <1>3, <1>4, <1>5, <1>6, <1>7, <1>8 DEF Next

LEMMA BaseHolds == Spec => []Base
<1>1. Base /\ [Next]_vars => Base'
    BY StepBase
<1> QED BY <1>1, InitBase, PTL DEF Spec

(* Every variable keeps its type: what is said is finite, a turn never      *)
(* speaks beyond its parts, and the watermark stays behind the version.     *)
THEOREM TypeCorrect == Spec => []TypeOK
<1>1. Base => TypeOK
    BY DEF Base, Typed
<1> QED BY <1>1, BaseHolds, PTL

(* A sequence without repetitions is as long as its range. *)
LEMMA OnceCounts ==
    ASSUME NEW S, NEW s \in Seq(S), \A i, j \in 1..Len(s) : s[i] = s[j] => i = j
    PROVE  Cardinality(Range(s)) = Len(s)
<1>1. Len(s) \in Nat /\ DOMAIN s = 1..Len(s)
    OBVIOUS
<1>2. s \in [1..Len(s) -> Range(s)]
    BY <1>1 DEF Range
<1>3. \A y \in Range(s) : \E i \in 1..Len(s) : s[i] = y
    BY <1>1 DEF Range
<1>4. s \in Bijection(1..Len(s), Range(s))
    BY <1>2, <1>3 DEF Bijection, Injection, Surjection, IsInjective
<1>5. ExistsBijection(1..Len(s), Range(s))
    BY <1>4 DEF ExistsBijection
<1> QED BY <1>1, <1>5, FS_CountingElements

(* handle_onebot: one turn of the conversation at a time, and every turn    *)
(* that runs has its place in the lock's queue, however many handlers the   *)
(* stream feeds and wherever they give up, raise or are cut.                *)
THEOREM Serial == Spec => []OneSpeaker
<1>1. ASSUME Base PROVE OneSpeaker
    <2>1. queue \in Seq(Turns) /\ Len(queue) \in Nat /\ DOMAIN queue = 1..Len(queue)
        BY <1>1 DEF Base, Typed, TypeOK
    <2>2. \A i \in 1..Len(queue) : queue[i] \in Turns
        BY <2>1
    <2>3. Range(queue) = {t \in Turns : at[t] \in Running}
        BY <1>1, <2>1, <2>2 DEF Base, Lock, QueueRuns, Range
    <2>4. Len(queue) = Cardinality(Range(queue))
        BY <1>1, <2>1, OnceCounts DEF Base, Lock, QueueOnce
    <2>5. ASSUME NEW t \in Turns, at[t] \in Suspended PROVE Head(queue) = t
        <3>1. Len(queue) > 0 /\ queue[1] = t
            BY <1>1, <2>5 DEF Base, Lock, HeadSpeaks
        <3> QED BY <2>1, <3>1
    <2> QED BY <2>3, <2>4, <2>5 DEF OneSpeaker
<1> QED BY <1>1, BaseHolds, PTL

-----------------------------------------------------------------------------
(* The watermark and the crash. *)

(* The status of a message follows its handler. *)
StatusFollows ==
    \A m \in Message :
        /\ at[m] \in Running \ {"noticing"} => status[m] = "received"
        /\ at[m] = "noticing" => status[m] = "failed"

(* A dead process runs nothing, and what a crash cut short is failed or     *)
(* there for recovery to see.                                               *)
DeadIsStill == mode # "up" => queue = << >>
CutIsKnown ==
    \A m \in Message : at[m] = "cut" => status[m] = "failed" \/ (mode # "up" /\ Unfinished(m))

Recoverable == WatermarkBehindRunning /\ StatusFollows /\ DeadIsStill /\ CutIsKnown

LEMMA InitRecoverable == Init => Recoverable
<1> SUFFICES ASSUME Init PROVE Recoverable
    OBVIOUS
<1>1. \A m \in Message : at[m] = "none"
    BY DEF Init, Turns
<1>2. "none" \notin Running /\ queue = << >>
    BY DEF Init, Running, Suspended
<1> QED BY <1>1, <1>2 DEF Recoverable, WatermarkBehindRunning, StatusFollows, DeadIsStill,
                          CutIsKnown

(* A turn moves the watermark to its own version and only as it fails or    *)
(* leaves; only a failing one changes a status.                             *)
LEMMA AdvanceMarks ==
    ASSUME NEW t \in Turns, Advance(t)
    PROVE  \/ /\ watermark' = watermark /\ status' = status
              /\ at[t] # "noticing"
              /\ \E where \in Suspended \ {"noticing"} : Stay(t, where)
           \/ /\ status' = status
              /\ watermark' = watermark \/ Mark(t)
              /\ \E how \in {"done", "raised"} : Leave(t, how)
           \/ Fail(t)
BY DEF Advance, Enter, PokeAnswered, NoticeAnswered, Raise, Reply, Skip, PartSent,
       TextsOver, VoiceAnswered, Suspended, GiveUp

(* Whoever waits behind a message has a later version. *)
LEMMA BehindIsNewer ==
    ASSUME Base, NEW t \in Message, NEW m \in Message, m # t,
           Len(queue) > 0, queue[1] = t, at[m] \in Running
    PROVE  seq[t] < seq[m]
<1>1. m \in Turns /\ t \in Turns
    BY DEF Turns
<1>2. PICK j \in 1..Len(queue) : queue[j] = m
    BY <1>1 DEF Base, Lock, QueueRuns
<1>3. Len(queue) \in Nat /\ 1 \in 1..Len(queue) /\ 1 < j
    BY <1>2, QueueTyped DEF Base
<1> QED BY <1>2, <1>3 DEF Base, Lock, InOrder

LEMMA AdvanceRecoverable ==
    ASSUME Base, Recoverable, NEW t \in Turns, Advance(t)
    PROVE  Recoverable'
<1>1. /\ queue # << >> /\ queue[1] = t /\ at[t] \in Running
      /\ UNCHANGED inbound
    BY AdvanceKeepsLock DEF Base
<1>2. mode' = mode /\ mode = "up" /\ seq' = seq
    BY <1>1 DEF Advance, Enter, PokeAnswered, Fail, NoticeAnswered, Raise, Reply, Skip, PartSent,
                TextsOver, VoiceAnswered, process, Recoverable, DeadIsStill, inbound
<1>3. Len(queue) > 0
    BY <1>1, QueueTyped, TailFacts DEF Base
<1>4. at \in [Turns -> {"none"} \cup Running \cup Over] /\ Message \subseteq Turns
    BY DEF Base, Typed, TypeOK, Turns
<1>5. watermark \in Nat /\ seq \in [Turns -> Nat] /\ version \in Nat
    BY DEF Base, Typed, TypeOK
<1>6. \A m \in Message : m # t => at'[m] = at[m] /\ status'[m] = status[m]
    BY <1>4, AdvanceMarks DEF Stay, Leave, Fail, Base, Typed, TypeOK
<1>7. \A m \in Message : m # t /\ at[m] \in Running \ {"noticing"} => seq[m] > watermark'
    <2> SUFFICES ASSUME NEW m \in Message, m # t, at[m] \in Running \ {"noticing"}
                 PROVE  seq[m] > watermark'
        OBVIOUS
    <2>1. seq[m] > watermark
        BY DEF Recoverable, WatermarkBehindRunning
    <2>2. t \in Message => seq[t] < seq[m]
        BY <1>1, <1>3, BehindIsNewer
    <2>3. watermark' = watermark \/ Mark(t)
        BY AdvanceMarks DEF Fail
    <2> QED BY <1>5, <2>1, <2>2, <2>3 DEF Mark
<1>8. t \in Message /\ at'[t] \in Running \ {"noticing"} => seq[t] > watermark'
    <2>1. CASE /\ watermark' = watermark /\ status' = status
               /\ at[t] # "noticing"
        BY <1>1, <2>1 DEF Recoverable, WatermarkBehindRunning
    <2>2. CASE \E how \in {"done", "raised"} : Leave(t, how)
        BY <1>4, <2>2 DEF Leave, Running, Suspended
    <2>3. CASE Fail(t)
        BY <1>4, <2>3 DEF Fail, Stay
    <2> QED BY <2>1, <2>2, <2>3, AdvanceMarks
<1>9. WatermarkBehindRunning'
    BY <1>2, <1>6, <1>7, <1>8 DEF WatermarkBehindRunning
<1>10. t \in Message => /\ at'[t] \in Running \ {"noticing"} => status'[t] = "received"
                        /\ at'[t] = "noticing" => status'[t] = "failed"
    <2>1. CASE /\ watermark' = watermark /\ status' = status
               /\ at[t] # "noticing"
               /\ \E where \in Suspended \ {"noticing"} : Stay(t, where)
        BY <1>1, <1>4, <2>1 DEF Recoverable, StatusFollows, Stay
    <2>2. CASE \E how \in {"done", "raised"} : Leave(t, how)
        BY <1>4, <2>2 DEF Leave, Running, Suspended
    <2>3. CASE Fail(t)
        BY <1>4, <2>3 DEF Fail, Stay, Base, Typed, TypeOK
    <2> QED BY <2>1, <2>2, <2>3, AdvanceMarks
<1>11. StatusFollows'
    BY <1>6, <1>10 DEF Recoverable, StatusFollows
<1>12. t \in Message => at'[t] # "cut"
    BY <1>4, AdvanceMarks DEF Leave, Stay, Fail, Suspended
<1>13. CutIsKnown'
    BY <1>2, <1>6, <1>12 DEF Recoverable, CutIsKnown
<1>14. DeadIsStill'
    BY <1>2 DEF DeadIsStill
<1> QED BY <1>9, <1>11, <1>13, <1>14 DEF Recoverable

LEMMA ReceiveRecoverable ==
    ASSUME Base, Recoverable, Receive
    PROVE  Recoverable'
<1> DEFINE m == Head(stream)
<1>1. m \in Message /\ m \in Turns /\ Message \subseteq Turns
    BY DEF Base, Typed, TypeOK, Receive, Turns
<1>2. mode = "up" /\ mode' = mode /\ watermark' = watermark
    BY DEF Receive, process
<1>3. CASE seq[m] # 0
    BY <1>2, <1>3 DEF Receive, Recoverable, WatermarkBehindRunning, StatusFollows, DeadIsStill,
                      CutIsKnown
<1>4. CASE seq[m] = 0
    <2>1. /\ at' = [at EXCEPT ![m] = "queued"] /\ status' = [status EXCEPT ![m] = "received"]
          /\ seq' = [seq EXCEPT ![m] = version + 1]
        BY <1>4 DEF Receive
    <2>2. version + 1 > watermark
        BY DEF Base, Typed, TypeOK
    <2>3. /\ at'[m] = "queued" /\ status'[m] = "received" /\ seq'[m] > watermark'
          /\ \A n \in Message : n # m => /\ at'[n] = at[n] /\ status'[n] = status[n]
                                         /\ seq'[n] = seq[n]
        BY <1>1, <1>2, <2>1, <2>2 DEF Base, Typed, TypeOK
    <2>4. WatermarkBehindRunning'
        BY <1>2, <2>3 DEF Recoverable, WatermarkBehindRunning
    <2>5. StatusFollows'
        BY <2>3 DEF Recoverable, StatusFollows
    <2>6. CutIsKnown'
        BY <1>2, <2>3 DEF Recoverable, CutIsKnown
    <2> QED BY <1>2, <2>4, <2>5, <2>6 DEF Recoverable, DeadIsStill
<1> QED BY <1>3, <1>4

LEMMA OpenRecoverable ==
    ASSUME Base, Recoverable, NEW o \in Opening, Open(o)
    PROVE  Recoverable'
<1>1. o \notin Message /\ Message \subseteq Turns
    BY TurnAssumption DEF Turns
<1>2. \A m \in Message : at'[m] = at[m] /\ seq'[m] = seq[m]
    BY <1>1 DEF Open, Base, Typed, TypeOK
<1>3. mode = "up" /\ mode' = mode /\ watermark' = watermark /\ status' = status
    BY DEF Open, process
<1>4. CutIsKnown'
    BY <1>2, <1>3 DEF Recoverable, CutIsKnown
<1> QED BY <1>2, <1>3, <1>4 DEF Recoverable, WatermarkBehindRunning, StatusFollows, DeadIsStill

LEMMA CrashRecoverable ==
    ASSUME Base, Recoverable, Crash
    PROVE  Recoverable'
<1>1. \A m \in Message : at'[m] = IF at[m] \in Running THEN "cut" ELSE at[m]
    BY DEF Crash, Turns
<1>2. mode = "up" /\ mode' = "down" /\ queue' = << >>
      /\ watermark' = watermark /\ status' = status /\ seq' = seq
    BY DEF Crash
<1>3. \A m \in Message : at'[m] \notin Running
    BY <1>1 DEF Running, Suspended
<1>4. WatermarkBehindRunning' /\ StatusFollows' /\ DeadIsStill'
    BY <1>2, <1>3 DEF WatermarkBehindRunning, StatusFollows, DeadIsStill, Running, Suspended
<1>5. ASSUME NEW m \in Message, at'[m] = "cut"
      PROVE  status'[m] = "failed" \/ (mode' # "up" /\ Unfinished(m)')
    <2>1. CASE at[m] = "noticing"
        BY <1>2, <2>1 DEF Recoverable, StatusFollows
    <2>2. CASE at[m] \in Running \ {"noticing"}
        BY <1>2, <2>2 DEF Recoverable, StatusFollows, WatermarkBehindRunning, Unfinished
    <2>3. CASE at[m] \notin Running
        BY <1>1, <1>2, <1>5, <2>3 DEF Recoverable, CutIsKnown, Unfinished
    <2> QED BY <2>1, <2>2, <2>3
<1>6. CutIsKnown'
    BY <1>5 DEF CutIsKnown
<1> QED BY <1>4, <1>6 DEF Recoverable

LEMMA RestartRecoverable ==
    ASSUME Base, Recoverable, Restart
    PROVE  Recoverable'
<1>1. /\ at' = at /\ queue' = queue /\ watermark' = watermark /\ status' = status /\ seq' = seq
      /\ mode = "down" /\ mode' = IF \E m \in Message : Unfinished(m) THEN "refused" ELSE "up"
    BY DEF Restart, inbound
<1>2. WatermarkBehindRunning' /\ StatusFollows' /\ DeadIsStill'
    BY <1>1 DEF Recoverable, WatermarkBehindRunning, StatusFollows, DeadIsStill
<1>3. CutIsKnown'
    BY <1>1 DEF Recoverable, CutIsKnown, Unfinished
<1> QED BY <1>2, <1>3 DEF Recoverable

LEMMA StepRecoverable ==
    ASSUME Base, Recoverable, [Next]_vars
    PROVE  Recoverable'
<1>1. ASSUME UNCHANGED <<at, queue, watermark, status, seq, mode>>
      PROVE  Recoverable'
    BY <1>1 DEF Recoverable, WatermarkBehindRunning, StatusFollows, DeadIsStill, CutIsKnown,
                Unfinished
<1>2. CASE UNCHANGED vars
    BY <1>1, <1>2 DEF vars, inbound, process
<1>3. ASSUME NEW m \in Message, Push(m) PROVE Recoverable'
    BY <1>1, <1>3 DEF Push, process
<1>4. ASSUME NEW t \in Turns, VoiceTail(t) \/ VoiceTailBreaks(t) PROVE Recoverable'
    BY <1>1, <1>4 DEF VoiceTail, VoiceTailBreaks, inbound, process
<1>5. ASSUME NEW t \in Turns, Advance(t) PROVE Recoverable'
    BY <1>5, AdvanceRecoverable
<1>6. ASSUME NEW o \in Opening, Open(o) PROVE Recoverable'
    BY <1>6, OpenRecoverable
<1> QED BY <1>2, <1>3, <1>4, <1>5, <1>6, ReceiveRecoverable, CrashRecoverable,
           RestartRecoverable DEF Next

LEMMA RecoverableHolds == Spec => []Recoverable
<1>1. Base /\ Recoverable /\ [Next]_vars => Recoverable'
    BY StepRecoverable
<1> QED BY <1>1, InitRecoverable, BaseHolds, PTL DEF Spec

(* _mark_processed and recover_database: the watermark never passes a       *)
(* message whose handler still runs, although each turn moves it to its own *)
(* version.  The handlers run in the order of the lock, and that is the     *)
(* order of the versions.                                                   *)
THEOREM Behind == Spec => []WatermarkBehindRunning
<1>1. Recoverable => WatermarkBehindRunning
    BY DEF Recoverable
<1> QED BY <1>1, RecoverableHolds, PTL

(* A process serves again only when what a crash cut short was failed and   *)
(* marked before.                                                           *)
THEOREM Blocked == Spec => []CutBlocksRestart
<1>1. Recoverable => CutBlocksRestart
    BY DEF Recoverable, CutIsKnown, CutBlocksRestart
<1> QED BY <1>1, RecoverableHolds, PTL

(* The dispatch guard: no text goes out over a newer message.               *)
THEOREM NeverStale == Spec => []TextNeverStale
<1>1. Init => TextNeverStale
    BY DEF Init, TextNeverStale
<1>2. ASSUME Base, TextNeverStale, [Next]_vars PROVE TextNeverStale'
    <2>2. ASSUME NEW t \in Turns, NEW part, NEW u \in Uttered(t, "text", part), MayDispatch(t)
          PROVE  ~u.newer
        <3>1. u = [turn |-> t, what |-> "text", part |-> part, newer |-> version > seq[t]]
            BY <2>2 DEF Uttered
        <3>2. u.newer = (version > seq[t])
            BY <3>1
        <3>3. ~(version > seq[t])
            BY <1>2, <2>2 DEF MayDispatch, Base, Typed, TypeOK
        <3> QED BY <3>2, <3>3
    <2>1. ASSUME NEW t \in Turns, NEW u \in Uttered(t, "text", 1), MayDispatch(t)
          PROVE  ~u.newer
        BY <2>1, <2>2
    <2>3. \A t \in Turns : \A u \in Uttered(t, "poke", 1) \cup Uttered(t, "notice", 1)
                                     \cup Uttered(t, "voice", 1) : u.what # "text"
        BY DEF Uttered
    <2>4. ASSUME NEW t \in Turns, Advance(t), NEW u \in said', u \notin said, u.what = "text"
          PROVE  ~u.newer
        <3>1. CASE Enter(t) BY <2>3, <2>4, <3>1 DEF Enter, Utter
        <3>2. CASE Fail(t) BY <2>3, <2>4, <3>2 DEF Fail, Utter
        <3>3. ASSUME NEW p \in Plan, Reply(t, p) PROVE ~u.newer
            BY <2>1, <2>4, <3>3 DEF Reply, Utter
        <3>4. CASE PartSent(t) BY <2>2, <2>4, <3>4 DEF PartSent, Utter
        <3>5. ASSUME NEW heard \in BOOLEAN, NEW known \in BOOLEAN, VoiceAnswered(t, heard, known)
              PROVE  ~u.newer
            BY <2>1, <2>3, <2>4, <3>5 DEF VoiceAnswered
        <3>6. CASE PokeAnswered(t) \/ NoticeAnswered(t) \/ Raise(t) \/ Skip(t) \/ TextsOver(t)
            BY <2>4, <3>6 DEF PokeAnswered, NoticeAnswered, Raise, Skip, TextsOver
        <3> QED BY <2>4, <3>1, <3>2, <3>3, <3>4, <3>5, <3>6 DEF Advance
    <2>5. ASSUME NEW t \in Turns, Advance(t) PROVE TextNeverStale'
        BY <1>2, <2>4, <2>5 DEF TextNeverStale
    <2>6. ASSUME NEW t \in Turns, VoiceTail(t) \/ VoiceTailBreaks(t) PROVE TextNeverStale'
        BY <1>2, <2>3, <2>6 DEF VoiceTail, VoiceTailBreaks, Utter, TextNeverStale
    <2>7. ASSUME said' = said PROVE TextNeverStale'
        BY <1>2, <2>7 DEF TextNeverStale
    <2>8. CASE UNCHANGED vars BY <2>7, <2>8 DEF vars
    <2>9. ASSUME NEW m \in Message, Push(m) PROVE TextNeverStale' BY <2>7, <2>9 DEF Push
    <2>10. ASSUME NEW o \in Opening, Open(o) PROVE TextNeverStale' BY <2>7, <2>10 DEF Open
    <2>11. CASE Receive \/ Crash \/ Restart BY <2>7, <2>11 DEF Receive, Crash, Restart
    <2> QED BY <1>2, <2>5, <2>6, <2>8, <2>9, <2>10, <2>11 DEF Next
<1>3. Base /\ TextNeverStale /\ [Next]_vars => TextNeverStale'
    BY <1>2
<1> QED BY <1>1, <1>3, BaseHolds, PTL DEF Spec

-----------------------------------------------------------------------------
(* The outcome of a message. *)

Spoke(t) == \E u \in said : u.turn = t /\ u.what \in Words
Noticed(t) == \E u \in said : u.turn = t /\ u.what = "notice"
Newer(t) == \E n \in Message : seq[n] > seq[t]

(* What is known of a message wherever its handler is. *)
Settled(m) ==
    /\ Noticed(m) => status[m] = "failed"
    /\ status[m] = "failed" => ~Spoke(m) /\ Noticed(m) /\ seq[m] <= watermark
    /\ at[m] \in {"none", "queued", "poking", "thinking", "voicing"} => ~Spoke(m)
    /\ at[m] = "none" => ~Noticed(m)
    /\ at[m] = "texting" => Spoke(m)
    /\ m \in tails => Spoke(m)
    /\ at[m] = "done" => status[m] = "failed" \/ (Spoke(m) /\ seq[m] <= watermark) \/ Newer(m)
    /\ at[m] = "done" /\ m \in Pokes => seq[m] <= watermark

(* The version is the one a message made. *)
Latest == version > 0 => \E n \in Message : seq[n] = version

Outcome == (\A m \in Message : Settled(m)) /\ Latest

LEMMA InitOutcome == Init => Outcome
<1> SUFFICES ASSUME Init PROVE Outcome
    OBVIOUS
<1>1. \A m \in Message : ~Spoke(m) /\ ~Noticed(m)
    BY DEF Init, Spoke, Noticed
<1>2. \A m \in Message : at[m] = "none" /\ status[m] = "absent" /\ m \notin tails
    BY DEF Init, Turns
<1>3. \A m \in Message : Settled(m)
    BY <1>1, <1>2 DEF Settled
<1>4. Latest
    BY DEF Init, Latest
<1> QED BY <1>3, <1>4 DEF Outcome

(* Speech is never taken back, and only the turn that speaks gains by it.   *)
LEMMA SpeechGrows ==
    ASSUME NEW t, NEW m, m # t, said \subseteq said',
           \A u \in said' \ said : u.turn = t
    PROVE  Spoke(m)' = Spoke(m) /\ Noticed(m)' = Noticed(m)
<1>1. Spoke(m)' <=> Spoke(m)
    BY DEF Spoke
<1>2. Noticed(m)' <=> Noticed(m)
    BY DEF Noticed
<1>3. /\ Spoke(m) \in BOOLEAN /\ Spoke(m)' \in BOOLEAN
      /\ Noticed(m) \in BOOLEAN /\ Noticed(m)' \in BOOLEAN
    BY DEF Spoke, Noticed
<1> QED BY <1>1, <1>2, <1>3

LEMMA Marked ==
    ASSUME Base, NEW t \in Message, Mark(t)
    PROVE  seq[t] <= watermark'
<1>1. seq[t] \in Nat /\ watermark \in Nat
    BY DEF Base, Typed, TypeOK, Turns
<1> QED BY <1>1 DEF Mark

(* The watermark only grows. *)
LEMMA MarksGrow ==
    ASSUME Base, NEW t \in Turns, watermark' = watermark \/ Mark(t) \/ GiveUp(t)
    PROVE  watermark' \in Nat /\ watermark <= watermark'
<1>1. seq[t] \in Nat /\ watermark \in Nat
    BY DEF Base, Typed, TypeOK
<1> QED BY <1>1 DEF Mark, GiveUp

(* A turn that is not current has been overtaken by a message. *)
LEMMA Overtaken ==
    ASSUME Base, Latest, NEW t \in Turns, version # seq[t]
    PROVE  Newer(t)
<1>1. version \in Nat /\ seq[t] \in 0..version
    BY DEF Base, Typed, TypeOK
<1>2. version > seq[t] /\ version > 0
    BY <1>1
<1> QED BY <1>2 DEF Latest, Newer

(* A message gives up: it was overtaken, and a poke is marked. *)
LEMMA GivesUp ==
    ASSUME Base, Recoverable, Outcome, NEW t \in Message, version # seq[t],
           GiveUp(t), Leave(t, "done"), at[t] \in Running \ {"noticing"},
           UNCHANGED <<inbound, status, tails>>,
           said' = said \/ said' = said \cup Uttered(t, "voice", 1)
    PROVE  Settled(t)'
<1>1. t \in Turns /\ at'[t] = "done" /\ status[t] = "received" /\ status' = status
    BY DEF Turns, Leave, Base, Typed, TypeOK, Recoverable, StatusFollows
<1>2. Newer(t)'
    BY <1>1, Overtaken DEF Outcome, Newer, inbound
<1>3. t \in Pokes => seq'[t] <= watermark'
    BY Marked DEF GiveUp, inbound
<1>4. \A u \in Uttered(t, "voice", 1) : u.what = "voice"
    BY DEF Uttered
<1>5. ~Noticed(t)'
    BY <1>1, <1>4 DEF Noticed, Outcome, Settled
<1>6. t \in tails' => Spoke(t)'
    BY DEF Spoke, Outcome, Settled
<1> QED BY <1>1, <1>2, <1>3, <1>5, <1>6 DEF Settled

LEMMA AdvanceSpeech ==
    ASSUME NEW t \in Turns, Advance(t)
    PROVE  /\ said \subseteq said' /\ \A u \in said' \ said : u.turn = t
           /\ watermark' = watermark \/ Mark(t) \/ GiveUp(t)
           /\ tails \subseteq tails' /\ tails' \subseteq tails \cup {t}
<1>1. \A what, part : \A u \in Uttered(t, what, part) : u.turn = t
    BY DEF Uttered
<1> QED BY <1>1 DEF Advance, Enter, PokeAnswered, Fail, NoticeAnswered, Raise, Reply, Skip,
                    PartSent, TextsOver, VoiceAnswered, Utter

LEMMA OthersSettled ==
    ASSUME Base, Outcome, NEW t \in Turns, Advance(t), NEW m \in Message, m # t
    PROVE  Settled(m)'
<1>1. Spoke(m)' = Spoke(m) /\ Noticed(m)' = Noticed(m)
    BY AdvanceSpeech, SpeechGrows
<1>2. watermark' \in Nat /\ watermark <= watermark'
    BY AdvanceSpeech, MarksGrow
<1>3. seq' = seq /\ (\E where \in Suspended : Stay(t, where) \/ \E how \in {"done", "raised"} : Leave(t, how))
    BY AdvanceKeepsLock DEF Base, inbound, Suspended
<1>4. at'[m] = at[m]
    BY <1>3 DEF Stay, Leave, Base, Typed, TypeOK, Turns
<1>5. status'[m] = status[m]
    BY AdvanceMarks DEF Fail, Base, Typed, TypeOK
<1>6. m \in tails' => m \in tails
    BY AdvanceSpeech
<1>7. seq[m] \in Nat /\ watermark \in Nat
    BY DEF Base, Typed, TypeOK, Turns
<1>8. Newer(m)' = Newer(m)
    BY <1>3 DEF Newer
<1>9. seq[m] <= watermark => seq[m] <= watermark'
    BY <1>2, <1>7
<1> QED BY <1>1, <1>3, <1>4, <1>5, <1>6, <1>8, <1>9 DEF Outcome, Settled

LEMMA AdvanceSettled ==
    ASSUME Base, Recoverable, Outcome, NEW t \in Message, Advance(t)
    PROVE  Settled(t)'
<1>1. t \in Turns /\ at[t] \in Running /\ UNCHANGED inbound /\ seq' = seq
    BY AdvanceKeepsLock DEF Base, Turns, inbound
<1>2. Settled(t) /\ at \in [Turns -> {"none"} \cup Running \cup Over]
      /\ status \in [Message -> {"absent", "received", "failed"}]
    BY DEF Outcome, Base, Typed, TypeOK
<1>3. at[t] # "noticing" => status[t] = "received"
    BY <1>1 DEF Recoverable, StatusFollows
<1>4. {"poking", "thinking", "texting", "voicing", "queued"} \subseteq Running \ {"noticing"}
    BY DEF Running, Suspended
<1>5. \A part : \A u \in Uttered(t, "text", part) : u.turn = t /\ u.what = "text"
    BY DEF Uttered
<1>6. \A part : Uttered(t, "text", part) # {}
    BY DEF Uttered
<1>7. Uttered(t, "voice", 1) # {} /\ \A u \in Uttered(t, "voice", 1) : u.turn = t /\ u.what = "voice"
    BY DEF Uttered
<1>8. CASE Enter(t)
    <2>1. CASE version # seq[t]
        BY <1>1, <1>4, <1>8, <2>1, GivesUp DEF Enter, Current
    <2>2. CASE version = seq[t] /\ t \in Pokes
        <3>1. \A u \in Uttered(t, "poke", 1) : u.what = "poke"
            BY DEF Uttered
        <3>2. Spoke(t)' <=> Spoke(t)
            BY <1>8, <2>2, <3>1 DEF Enter, Current, Utter, Spoke, Words
        <3>3. Noticed(t)' <=> Noticed(t)
            BY <1>8, <2>2, <3>1 DEF Enter, Current, Utter, Noticed
        <3>4. at'[t] = "poking"
            BY <1>1, <1>2, <1>8, <2>2 DEF Enter, Current, Stay
        <3> QED BY <1>1, <1>2, <1>3, <1>8, <2>2, <3>2, <3>3, <3>4 DEF Enter, Settled
    <2>3. CASE version = seq[t] /\ t \notin Pokes
        <3>1. at'[t] = "thinking" /\ said' = said
            BY <1>1, <1>2, <1>8, <2>3 DEF Enter, Current, Stay
        <3>2. (Spoke(t)' <=> Spoke(t)) /\ (Noticed(t)' <=> Noticed(t))
            BY <3>1 DEF Spoke, Noticed
        <3> QED BY <1>1, <1>2, <1>3, <1>8, <3>1, <3>2 DEF Enter, Settled
    <2> QED BY <2>1, <2>2, <2>3
<1>9. CASE PokeAnswered(t)
    <2>1. CASE version # seq[t]
        BY <1>1, <1>4, <1>9, <2>1, GivesUp DEF PokeAnswered, Current
    <2>2. CASE version = seq[t]
        <3>1. at'[t] = "thinking" /\ said' = said
            BY <1>1, <1>2, <1>9, <2>2 DEF PokeAnswered, Current, Stay
        <3>2. (Spoke(t)' <=> Spoke(t)) /\ (Noticed(t)' <=> Noticed(t))
            BY <3>1 DEF Spoke, Noticed
        <3> QED BY <1>1, <1>2, <1>3, <1>9, <3>1, <3>2 DEF PokeAnswered, Settled
    <2> QED BY <2>1, <2>2
<1>10. CASE Fail(t)
    <2>1. \A u \in Uttered(t, "notice", 1) : u.turn = t /\ u.what = "notice"
        BY DEF Uttered
    <2>2. Uttered(t, "notice", 1) # {}
        BY DEF Uttered
    <2>3. Noticed(t)'
        BY <1>10, <2>1, <2>2 DEF Fail, Utter, Noticed
    <2>4. ~Spoke(t)'
        BY <1>2, <1>10, <2>1 DEF Fail, Utter, Spoke, Words, Settled
    <2>5. at'[t] = "noticing" /\ status'[t] = "failed"
        BY <1>1, <1>2, <1>10 DEF Fail, Stay
    <2>6. t \notin tails'
        BY <1>2, <1>10 DEF Fail, Settled
    <2>7. seq'[t] <= watermark'
        BY <1>1, <1>10, Marked DEF Fail
    <2> QED BY <2>3, <2>4, <2>5, <2>6, <2>7 DEF Settled
<1>11. CASE NoticeAnswered(t)
    <2>1. at'[t] = "done" /\ status'[t] = "failed" /\ status[t] = "failed" /\ said' = said
          /\ watermark' = watermark /\ tails' = tails
        BY <1>1, <1>2, <1>11 DEF NoticeAnswered, Leave, Recoverable, StatusFollows
    <2>2. (Spoke(t)' <=> Spoke(t)) /\ (Noticed(t)' <=> Noticed(t))
        BY <2>1 DEF Spoke, Noticed
    <2> QED BY <1>1, <1>2, <2>1, <2>2 DEF Settled
<1>12. CASE Raise(t)
    <2>1. at'[t] = "raised" /\ status' = status /\ said' = said
          /\ watermark' = watermark /\ tails' = tails
        BY <1>1, <1>2, <1>12 DEF Raise, Leave
    <2>2. (Spoke(t)' <=> Spoke(t)) /\ (Noticed(t)' <=> Noticed(t))
        BY <2>1 DEF Spoke, Noticed
    <2> QED BY <1>1, <1>2, <2>1, <2>2 DEF Settled
<1>13. ASSUME NEW p \in Plan, Reply(t, p) PROVE Settled(t)'
    <2>1. CASE ~Current(t) \/ ~MayDispatch(t)
        BY <1>1, <1>4, <1>13, <2>1, GivesUp DEF Reply, Current, MayDispatch
    <2>2. CASE ~(~Current(t) \/ ~MayDispatch(t)) /\ p.voice = "only"
        <3>1. at'[t] = "voicing" /\ said' = said /\ status' = status /\ tails' = tails
              /\ watermark' = watermark
            BY <1>1, <1>2, <1>13, <2>2 DEF Reply, Stay
        <3>2. (Spoke(t)' <=> Spoke(t)) /\ (Noticed(t)' <=> Noticed(t))
            BY <3>1 DEF Spoke, Noticed
        <3> QED BY <1>1, <1>2, <1>3, <1>13, <3>1, <3>2 DEF Reply, Settled
    <2>3. CASE ~(~Current(t) \/ ~MayDispatch(t)) /\ p.voice # "only"
        <3>1. at'[t] = "texting" /\ said' = said \cup Uttered(t, "text", 1) /\ status' = status
              /\ tails' = tails
            BY <1>1, <1>2, <1>13, <2>3 DEF Reply, Stay, Utter
        <3>2. Spoke(t)'
            BY <1>5, <1>6, <3>1 DEF Spoke, Words
        <3>3. Noticed(t)' <=> Noticed(t)
            BY <1>5, <3>1 DEF Noticed
        <3> QED BY <1>2, <1>3, <1>13, <3>1, <3>2, <3>3 DEF Reply, Settled
    <2> QED BY <2>1, <2>2, <2>3
<1>14. CASE Skip(t)
    BY <1>14, TurnAssumption DEF Skip
<1>15. CASE PartSent(t)
    <2>1. CASE ~MayDispatch(t)
        BY <1>1, <1>4, <1>15, <2>1, GivesUp DEF PartSent, MayDispatch
    <2>2. CASE MayDispatch(t)
        <3>1. at'[t] = "texting" /\ said' = said \cup Uttered(t, "text", Reached(t) + 1)
              /\ status' = status /\ tails' = tails
            BY <1>1, <1>2, <1>15, <2>2 DEF PartSent, Stay, Utter
        <3>2. Spoke(t)'
            BY <1>5, <1>6, <3>1 DEF Spoke, Words
        <3>3. Noticed(t)' <=> Noticed(t)
            BY <1>5, <3>1 DEF Noticed
        <3> QED BY <1>2, <1>3, <1>15, <3>1, <3>2, <3>3 DEF PartSent, Settled
    <2> QED BY <2>1, <2>2
<1>16. CASE TextsOver(t)
    <2>1. at'[t] = "done" /\ said' = said /\ status' = status
        BY <1>1, <1>2, <1>16 DEF TextsOver, Leave
    <2>2. (Spoke(t)' <=> Spoke(t)) /\ (Noticed(t)' <=> Noticed(t)) /\ Spoke(t)
        BY <1>2, <1>16, <2>1 DEF Spoke, Noticed, TextsOver, Settled
    <2>3. seq'[t] <= watermark'
        BY <1>1, <1>16, Marked DEF TextsOver
    <2> QED BY <1>2, <1>3, <1>16, <2>1, <2>2, <2>3 DEF TextsOver, Settled
<1>17. ASSUME NEW heard \in BOOLEAN, NEW known \in BOOLEAN, VoiceAnswered(t, heard, known)
       PROVE  Settled(t)'
    <2>1. status' = status /\ tails' = tails /\ at[t] = "voicing" /\ status[t] = "received"
        BY <1>3, <1>17 DEF VoiceAnswered
    <2>2. CASE known
        <3>1. at'[t] = "done" /\ said' = said \cup Uttered(t, "voice", 1)
            BY <1>1, <1>2, <1>17, <2>2 DEF VoiceAnswered, Leave
        <3>2. Spoke(t)'
            BY <1>7, <3>1 DEF Spoke, Words
        <3>3. Noticed(t)' <=> Noticed(t)
            BY <1>7, <3>1 DEF Noticed
        <3>4. seq'[t] <= watermark'
            BY <1>1, <1>17, <2>2, Marked DEF VoiceAnswered
        <3> QED BY <1>2, <2>1, <3>1, <3>2, <3>3, <3>4 DEF Settled
    <2>3. CASE ~known /\ MayDispatch(t)
        <3>1. at'[t] = "texting"
            BY <1>1, <1>2, <1>17, <2>3 DEF VoiceAnswered, Stay
        <3>2. \/ said' = said \cup Uttered(t, "voice", 1) \cup Uttered(t, "text", 1)
              \/ said' = said \cup Uttered(t, "text", 1)
            BY <1>17, <2>3 DEF VoiceAnswered
        <3>3. Spoke(t)'
            BY <1>5, <1>6, <3>2 DEF Spoke, Words
        <3>4. Noticed(t)' <=> Noticed(t)
            BY <1>5, <1>7, <3>2 DEF Noticed
        <3> QED BY <1>2, <2>1, <3>1, <3>3, <3>4 DEF Settled
    <2>4. CASE ~known /\ ~MayDispatch(t)
        <3>1. said' = said \/ said' = said \cup Uttered(t, "voice", 1)
            BY <1>17, <2>4 DEF VoiceAnswered
        <3> QED BY <1>1, <1>4, <1>17, <2>1, <2>4, <3>1, GivesUp DEF VoiceAnswered, MayDispatch
    <2> QED BY <2>2, <2>3, <2>4
<1> QED BY <1>8, <1>9, <1>10, <1>11, <1>12, <1>13, <1>14, <1>15, <1>16, <1>17 DEF Advance

(* What leaves the speech, the marks and the statuses alone settles nothing *)
(* and unsettles nothing.                                                   *)
LEMMA QuietKeeps ==
    ASSUME Outcome, UNCHANGED <<said, status, watermark, at, seq, version>>, tails' \subseteq tails
    PROVE  Outcome'
<1>1. ASSUME NEW m \in Message PROVE Settled(m)'
    <2>1. (Spoke(m)' <=> Spoke(m)) /\ (Noticed(m)' <=> Noticed(m)) /\ (Newer(m)' <=> Newer(m))
        BY DEF Spoke, Noticed, Newer
    <2> QED BY <2>1 DEF Outcome, Settled
<1> QED BY <1>1 DEF Outcome, Latest

(* A received message starts silent, and every other one stays as it was.   *)
LEMMA ReceiveOutcome ==
    ASSUME Base, Outcome, Receive
    PROVE  Outcome'
<1>0. PICK m \in Message : m = Head(stream)
    BY DEF Base, Typed, TypeOK, Receive
<1>1. m \in Message /\ m \in Turns
    BY DEF Turns
<1>2. CASE seq[m] # 0
    BY <1>0, <1>2, QuietKeeps DEF Receive
<1>3. CASE seq[m] = 0
    <2>1. /\ version' = version + 1 /\ seq' = [seq EXCEPT ![m] = version + 1]
          /\ status' = [status EXCEPT ![m] = "received"]
          /\ at' = [at EXCEPT ![m] = "queued"]
          /\ UNCHANGED <<watermark, said, tails>>
        BY <1>0, <1>3 DEF Receive
    <2>2. /\ seq \in [Turns -> 0..version] /\ version \in Nat
          /\ status \in [Message -> {"absent", "received", "failed"}]
          /\ at \in [Turns -> {"none"} \cup Running \cup Over] /\ Message \subseteq Turns
        BY DEF Base, Typed, TypeOK, Turns
    <2>3. at[m] = "none"
        BY <1>1, <1>3 DEF Base, Started
    <2>4. seq'[m] = version + 1 /\ \A n \in Message : n # m => seq'[n] = seq[n]
        BY <1>1, <2>1, <2>2
    <2>5. Latest'
        BY <1>1, <2>1, <2>4 DEF Latest
    <2>6. \A n \in Message : (Spoke(n)' <=> Spoke(n)) /\ (Noticed(n)' <=> Noticed(n))
        BY <2>1 DEF Spoke, Noticed
    <2>7. Settled(m)'
        <3>1. ~Spoke(m) /\ ~Noticed(m) /\ m \notin tails
            BY <1>1, <2>3 DEF Outcome, Settled
        <3>2. at'[m] = "queued" /\ status'[m] = "received"
            BY <1>1, <2>1, <2>2
        <3> QED BY <1>1, <2>1, <2>6, <3>1, <3>2 DEF Settled
    <2>8. ASSUME NEW n \in Message, n # m PROVE Settled(n)'
        <3>1. at'[n] = at[n] /\ status'[n] = status[n] /\ seq'[n] = seq[n]
            BY <1>1, <2>1, <2>2, <2>4, <2>8
        <3>2. Newer(n) => Newer(n)'
            <4> SUFFICES ASSUME NEW k \in Message, seq[k] > seq[n] PROVE Newer(n)'
                BY DEF Newer
            <4>1. seq[k] \in Nat /\ seq[n] \in Nat /\ seq'[n] = seq[n]
                BY <2>2, <3>1
            <4>2. seq'[k] > seq'[n]
                BY <1>3, <2>2, <2>4, <4>1
            <4> QED BY <4>2 DEF Newer
        <3> QED BY <2>1, <2>6, <3>1, <3>2 DEF Outcome, Settled
    <2> QED BY <2>5, <2>7, <2>8 DEF Outcome
<1> QED BY <1>2, <1>3

LEMMA OpenOutcome ==
    ASSUME Base, Outcome, NEW o \in Opening, Open(o)
    PROVE  Outcome'
<1>1. \A m \in Message : m # o /\ m \in Turns
    BY TurnAssumption DEF Turns
<1>2. \A m \in Message : at'[m] = at[m] /\ seq'[m] = seq[m]
    BY <1>1 DEF Open, Base, Typed, TypeOK
<1>3. UNCHANGED <<version, status, watermark, said, tails>>
    BY DEF Open
<1>4. ASSUME NEW m \in Message PROVE Settled(m)'
    <2>1. (Spoke(m)' <=> Spoke(m)) /\ (Noticed(m)' <=> Noticed(m)) /\ (Newer(m)' <=> Newer(m))
        BY <1>2, <1>3 DEF Spoke, Noticed, Newer
    <2> QED BY <1>2, <1>3, <2>1 DEF Outcome, Settled
<1>5. Latest'
    BY <1>2, <1>3 DEF Outcome, Latest
<1> QED BY <1>4, <1>5 DEF Outcome

LEMMA AdvanceOutcome ==
    ASSUME Base, Recoverable, Outcome, NEW t \in Turns, Advance(t)
    PROVE  Outcome'
<1>1. \A m \in Message : Settled(m)'
    BY OthersSettled, AdvanceSettled
<1>2. seq' = seq /\ version' = version
    BY AdvanceKeepsLock DEF Base, inbound
<1>3. Latest'
    BY <1>2 DEF Outcome, Latest
<1> QED BY <1>1, <1>3 DEF Outcome

(* A voice task speaks for a turn that spoke already. *)
LEMMA TailOutcome ==
    ASSUME Outcome, NEW t \in Turns, VoiceTail(t)
    PROVE  Outcome'
<1>1. /\ t \in tails /\ tails' \subseteq tails
      /\ said' = said \/ said' = said \cup Uttered(t, "voice", 1)
      /\ UNCHANGED <<status, watermark, at, seq, version>>
    BY DEF VoiceTail, Utter, inbound
<1>2. \A u \in Uttered(t, "voice", 1) : u.turn = t /\ u.what = "voice"
    BY DEF Uttered
<1>3. ASSUME NEW m \in Message PROVE Settled(m)'
    <2>1. Noticed(m)' <=> Noticed(m)
        BY <1>1, <1>2 DEF Noticed
    <2>2. Spoke(m)' <=> Spoke(m)
        <3>1. CASE m = t
            BY <1>1, <3>1 DEF Outcome, Settled, Spoke
        <3>2. CASE m # t
            BY <1>1, <1>2, <3>2 DEF Spoke
        <3> QED BY <3>1, <3>2
    <2>3. Newer(m)' <=> Newer(m)
        BY <1>1 DEF Newer
    <2> QED BY <1>1, <2>1, <2>2, <2>3 DEF Outcome, Settled
<1> QED BY <1>1, <1>3 DEF Outcome, Latest

(* A crash settles nothing: what it cut is neither done nor on its way. *)
LEMMA CrashOutcome ==
    ASSUME Base, Outcome, Crash
    PROVE  Outcome'
<1>1. UNCHANGED <<version, seq, status, watermark, said>> /\ tails' = {}
    BY DEF Crash
<1>2. \A m \in Message : at'[m] = IF at[m] \in Running THEN "cut" ELSE at[m]
    BY DEF Crash, Turns
<1>3. ASSUME NEW m \in Message PROVE Settled(m)'
    <2>1. (Spoke(m)' <=> Spoke(m)) /\ (Noticed(m)' <=> Noticed(m)) /\ (Newer(m)' <=> Newer(m))
        BY <1>1 DEF Spoke, Noticed, Newer
    <2>2. at'[m] = "cut" \/ at'[m] = at[m]
        BY <1>2
    <2> QED BY <1>1, <2>1, <2>2 DEF Outcome, Settled
<1> QED BY <1>1, <1>3 DEF Outcome, Latest

LEMMA StepOutcome ==
    ASSUME Base, Recoverable, Outcome, [Next]_vars
    PROVE  Outcome'
<1>1. CASE UNCHANGED vars
    BY <1>1, QuietKeeps DEF vars, inbound
<1>2. ASSUME NEW m \in Message, Push(m) PROVE Outcome'
    BY <1>2, QuietKeeps DEF Push
<1>3. ASSUME NEW o \in Opening, Open(o) PROVE Outcome'
    BY <1>3, OpenOutcome
<1>4. ASSUME NEW t \in Turns, Advance(t) PROVE Outcome'
    BY <1>4, AdvanceOutcome
<1>5. ASSUME NEW t \in Turns, VoiceTail(t) PROVE Outcome'
    BY <1>5, TailOutcome
<1>6. ASSUME NEW t \in Turns, VoiceTailBreaks(t) PROVE Outcome'
    BY <1>6, QuietKeeps DEF VoiceTailBreaks, inbound
<1>7. CASE Restart
    BY <1>7, QuietKeeps DEF Restart, inbound
<1> QED BY <1>1, <1>2, <1>3, <1>4, <1>5, <1>6, <1>7, ReceiveOutcome, CrashOutcome DEF Next

LEMMA OutcomeHolds == Spec => []Outcome
<1>1. Base /\ Recoverable /\ Outcome /\ [Next]_vars => Outcome'
    BY StepOutcome
<1> QED BY <1>1, InitOutcome, BaseHolds, RecoverableHolds, PTL DEF Spec

(* handle_onebot: a handled message was failed and noticed without a word,  *)
(* or answered and marked, or left to a newer message.  The inductive       *)
(* invariant keeps count of what each handler has said at each await.       *)
THEOREM Decided == Spec => []OneOutcome
<1>1. ASSUME Outcome PROVE OneOutcome
    <2> SUFFICES ASSUME NEW m \in Message, at[m] = "done"
                 PROVE  IF status[m] = "failed"
                          THEN /\ {u \in said : u.turn = m /\ u.what \in Words} = {}
                               /\ {u \in said : u.turn = m /\ u.what = "notice"} # {}
                               /\ seq[m] <= watermark
                          ELSE /\ {u \in said : u.turn = m /\ u.what = "notice"} = {}
                               /\ \/ /\ {u \in said : u.turn = m /\ u.what \in Words} # {}
                                     /\ seq[m] <= watermark
                                  \/ \E n \in Message : seq[n] > seq[m]
                               /\ m \in Pokes => seq[m] <= watermark
        BY DEF OneOutcome
    <2>1. Settled(m)
        BY <1>1 DEF Outcome
    <2>2. Spoke(m) <=> {u \in said : u.turn = m /\ u.what \in Words} # {}
        BY DEF Spoke
    <2>3. Noticed(m) <=> {u \in said : u.turn = m /\ u.what = "notice"} # {}
        BY DEF Noticed
    <2> QED BY <2>1, <2>2, <2>3 DEF Settled, Newer
<1>2. Outcome => OneOutcome
    BY <1>1
<1> QED BY <1>2, OutcomeHolds, PTL
=============================================================================
